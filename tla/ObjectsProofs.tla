---------------------------- MODULE ObjectsProofs ----------------------------
(***************************************************************************)
(* Proofs about the synchronization and communication objects, for every   *)
(* set of tasks and priorities and every parameter of the objects: the     *)
(* wait queues hold the waiting tasks, in order; a task returns what the   *)
(* kernel decided for it; nobody waits for what is there; and what an      *)
(* object hands out is accounted for.                                      *)
(*                                                                         *)
(* Each call is a change of the object and one of the operations of module *)
(* WaitQueue, so that there is one lemma for each of these operations.     *)
(* What they need of their caller is that a task to be released is in the  *)
(* queue it is released from: that is so at the head of a queue, and for   *)
(* the tasks that a loop has still to look at (Serving), because between   *)
(* two turns of a loop nothing but the end of other calls can happen.      *)
(*                                                                         *)
(* On top of that there is one invariant for each kind of object (SemInv   *)
(* to MpfInv): it says what is inside the object, and of the waiting tasks *)
(* which of them the loop in progress may still have to serve.  Those of   *)
(* the two memory pools and of the message buffer need the arithmetic of   *)
(* the allocator, of the free list and of the ring, which comes before     *)
(* them.                                                                   *)
(*                                                                         *)
(* The last two sections are about steps: nobody is served before a task   *)
(* that is ahead of it, and a message buffer implements MessageFifo, call  *)
(* by call.                                                                *)
(***************************************************************************)
EXTENDS Objects, QueueFacts

-----------------------------------------------------------------------------
(***************************************************************************)
(* The inductive invariant.                                                *)
(***************************************************************************)
Types ==
    /\ exists \in BOOLEAN /\ tpri \in BOOLEAN
    /\ queue \in [Queue -> Seq(Task)]
    /\ pri \in [Task -> Pri]
    /\ tstat \in [Task -> {"run", "wait", "ready"}]
    /\ winfo = [t \in Task |-> winfo[t]]
    /\ wercd \in [Task -> Code \cup {None}]
    /\ out = [t \in Task |-> out[t]]
    /\ told = [t \in Task |-> told[t]]

\* What the tasks of a queue are sorted by: nothing, if they are in the order
\* of their arrival.
Rank(q) == [t \in Task |-> IF ByPriority(q) THEN pri[t] ELSE 0]

\* The tasks of a queue wait, and in no other queue; a task that waits is in one.
Sorted   == \A q \in Queue : OrderedBy(queue[q], Rank(q))
Queued   == \A t \in Task, q \in Queue : t \in Range(queue[q]) =>
                tstat[t] = "wait" /\ \A r \in Queue : t \in Range(queue[r]) => r = q
Waiting  == \A t \in Task : tstat[t] = "wait" => \E q \in Queue : t \in Range(queue[q])
NoObject == ~exists => \A q \in Queue : queue[q] = << >>

\* What t will return, or would if it timed out.
Outcome(t) ==
    /\ tstat[t] = "ready" => told[t] = [code |-> wercd[t], data |-> out[t]]
    /\ tstat[t] # "ready" => out[t] = None
    /\ tstat[t] = "wait" => wercd[t] = "E_TMOUT"

WaitInv == Types /\ Sorted /\ Queued /\ Waiting /\ NoObject /\ \A t \in Task : Outcome(t)

\* The tasks that the loop of a call has still to look at, each once, are in
\* the queue it serves.
Served == IF kind = "mbf" THEN "send" ELSE "wait"
Serving ==
    /\ rest \in Seq(Task)
    /\ OrderedBy(rest, [t \in Task |-> 0])
    /\ Range(rest) \subseteq Range(queue[Served])

\* The queues that the object does not have are empty.
Used   == IF kind = "mbf" THEN {"send", "recv"} ELSE {"wait"}
Unused == \A q \in Queue \ Used : queue[q] = << >>

\* Where the holder of the lock of a fixed-size pool is.
Pooling ==
    /\ kind \in {"sem", "flg", "mbx", "mbf", "mpl", "mpf"}
    /\ kind = "mpf" => rest = << >>
    /\ doing = [t \in Task |-> [call |-> doing[t].call, blk |-> doing[t].blk]]
    /\ \A t \in Task : doing[t].call # "none" =>
         /\ kind = "mpf" /\ holder = t /\ tstat[t] = "run"
         /\ doing[t].call \in {"wait", "put"} => exists

IInv == WaitInv /\ Serving /\ Unused /\ Pooling

-----------------------------------------------------------------------------
(***************************************************************************)
(* The operations on a wait queue.                                         *)
(***************************************************************************)
\* QueRemove(): t is gone, and nothing else.
LEMMA UnlinkedKeeps ==
    ASSUME NEW S, NEW s \in Seq(S), NEW pr, NEW t \in S, OrderedBy(s, pr)
    PROVE  /\ Unlinked(s, t) \in Seq(S)
           /\ Range(Unlinked(s, t)) = Range(s) \ {t}
           /\ OrderedBy(Unlinked(s, t), pr)
BY WithoutKeeps DEF Unlinked, Without

\* knl_queue_insert_tpri(): t is added, behind what is as urgent.
LEMMA InsertedKeeps ==
    ASSUME NEW S, NEW s \in Seq(S), NEW pr \in [S -> Nat], NEW t \in S \ Range(s),
           OrderedBy(s, pr)
    PROVE  /\ Inserted(s, pr, t) \in Seq(S)
           /\ Range(Inserted(s, pr, t)) = Range(s) \cup {t}
           /\ OrderedBy(Inserted(s, pr, t), pr)
<1>. DEFINE after == {i \in DOMAIN s : pr[s[i]] > pr[t]}
            later == {i \in 1 .. Len(s) + 1 : i > Len(s) \/ pr[s[i]] > pr[t]}
            place == CHOOSE i \in later : \A j \in later : i <= j
<1>1. DOMAIN s = 1 .. Len(s) /\ Len(s) \in Nat
  OBVIOUS
<1>2. Inserted(s, pr, t) = InsertAt(s, place, t)
  BY DEF Inserted
<1>3. later = after \cup {Len(s) + 1}
  BY <1>1
<1>4. after \in SUBSET Nat /\ \A i \in after : i < Len(s) + 1
  BY <1>1
<1>5. Inserted(s, pr, t) = LinkedBefore(s, t, after)
  <2>1. CASE after = {}
    <3>1. place = Len(s) + 1
      BY <2>1, <1>3, <1>1
    <3>2. InsertAt(s, Len(s) + 1, t) = Append(s, t)
      BY InsertedAtEnd
    <3>. QED
      BY <3>1, <3>2, <1>2, <2>1 DEF LinkedBefore
  <2>2. CASE after # {}
    <3>1. PICK k \in after : \A j \in after : k <= j
      BY <2>2, <1>4, NatMin
    <3>2. /\ k \in later /\ k \in Nat /\ \A j \in later : k <= j /\ j \in Nat
          /\ \A i \in later : (\A j \in later : i <= j) => i = k
      <4>1. k \in later /\ k \in Nat /\ k < Len(s) + 1
        BY <3>1, <1>3, <1>4
      <4>2. ASSUME NEW j \in later PROVE j \in Nat /\ k <= j
        <5>1. CASE j \in after
          BY <5>1, <3>1, <1>4
        <5>2. CASE j = Len(s) + 1
          BY <5>2, <4>1, <1>1
        <5>. QED
          BY <5>1, <5>2, <1>3
      <4>3. ASSUME NEW i \in later, \A j \in later : i <= j PROVE i = k
        <5>1. i <= k /\ k <= i /\ i \in Nat
          BY <4>1, <4>2, <4>3
        <5>. QED
          BY <5>1, <4>1
      <4>. QED
        BY <4>1, <4>2, <4>3
    <3>3. \A i \in after : (\A j \in after : i <= j) => i = k
      BY <3>1, <1>4
    <3>4. place = k
      BY <3>2
    <3>5. k = CHOOSE i \in after : \A j \in after : i <= j
      BY <3>1, <3>3
    <3>. QED
      BY <3>4, <3>5, <1>2, <2>2 DEF LinkedBefore
  <2>. QED
    BY <2>1, <2>2
<1>6. \A i \in DOMAIN s : s[i] \in S /\ pr[s[i]] \in Nat
  BY InRange
<1>7. /\ \A i \in DOMAIN s \ after : pr[s[i]] <= pr[t]
      /\ \A i \in after : pr[t] <= pr[s[i]]
  BY <1>6
<1>8. after \in SUBSET DOMAIN s
  OBVIOUS
<1>. HIDE DEF after
<1>9. /\ LinkedBefore(s, t, after) \in Seq(S)
      /\ Range(LinkedBefore(s, t, after)) = Range(s) \cup {t}
      /\ OrderedBy(LinkedBefore(s, t, after), pr)
  BY <1>7, <1>8, LinkedKeeps
<1>. QED
  BY <1>5, <1>9

-----------------------------------------------------------------------------
(***************************************************************************)
(* The operations of module WaitQueue.                                     *)
(***************************************************************************)
\* What t will return depends on its own control block only.
LEMMA OutcomeLocal ==
    ASSUME NEW t \in Task, Outcome(t), tstat'[t] = tstat[t], wercd'[t] = wercd[t],
           out'[t] = out[t], told'[t] = told[t]
    PROVE  Outcome(t)'
BY DEF Outcome

\* t leaves q, and the tasks of D, t among them, are released, terminated or
\* have completed their calls.
LEMMA LeavesKeeps ==
    ASSUME WaitInv, Types', NEW q \in Queue, NEW t \in Range(queue[q]), NEW s \in Seq(Task),
           Range(s) = Range(queue[q]) \ {t}, OrderedBy(s, Rank(q)),
           queue' = [queue EXCEPT ![q] = s], UNCHANGED <<exists, tpri, pri>>,
           NEW D \in SUBSET Task, t \in D,
           \A u \in D : tstat'[u] # "wait" /\ Outcome(u)' /\ (u = t \/ tstat[u] # "wait"),
           \A u \in Task \ D : /\ tstat'[u] = tstat[u] /\ wercd'[u] = wercd[u]
                               /\ out'[u] = out[u] /\ told'[u] = told[u]
    PROVE  WaitInv'
<1>1. /\ queue \in [Queue -> Seq(Task)]
      /\ queue'[q] = s
      /\ \A r \in Queue \ {q} : queue'[r] = queue[r]
  BY DEF WaitInv, Types
<1>2. \A r \in Queue : Rank(r)' = Rank(r)
  BY DEF Rank, ByPriority
<1>3. Sorted'
  BY <1>1, <1>2 DEF WaitInv, Sorted
<1>4. \A r \in Queue, u \in Task :
        u \in Range(queue'[r]) <=> u \in Range(queue[r]) /\ ~(r = q /\ u = t)
  BY <1>1
<1>5. \A u \in D, r \in Queue : u \in Range(queue[r]) => u = t /\ r = q
  BY DEF WaitInv, Queued
<1>6. Queued'
  BY <1>4, <1>5 DEF WaitInv, Queued
<1>7. Waiting'
  BY <1>4 DEF WaitInv, Waiting
<1>8. NoObject'
  <2>1. exists
    BY <1>1 DEF WaitInv, NoObject, Range
  <2>. QED
    BY <2>1 DEF NoObject
<1>9. \A u \in Task : Outcome(u)'
  <2>1. ASSUME NEW u \in Task \ D PROVE Outcome(u)'
    BY OutcomeLocal DEF WaitInv
  <2>. QED
    BY <2>1
<1>. QED
  BY <1>3, <1>6, <1>7, <1>8, <1>9 DEF WaitInv

\* t begins to wait in q.
LEMMA MakeWaitKeeps ==
    ASSUME WaitInv, NEW t \in Task, NEW q \in Queue, NEW info, NEW bypri,
           bypri <=> ByPriority(q), tstat[t] = "run", exists, MakeWait(t, q, info, bypri)
    PROVE  WaitInv'
<1>1. t \notin Range(queue[q]) /\ \A r \in Queue : t \notin Range(queue[r])
  BY DEF WaitInv, Queued
<1>2. /\ queue[q] \in Seq(Task) /\ OrderedBy(queue[q], Rank(q))
      /\ Rank(q) \in [Task -> Nat] /\ pri \in [Task -> Nat]
  BY WaitAssumption DEF WaitInv, Types, Sorted, Rank
<1>3. queue'[q] \in Seq(Task) /\ Range(queue'[q]) = Range(queue[q]) \cup {t} /\ OrderedBy(queue'[q], Rank(q))
  <2>1. CASE bypri
    <3>1. queue'[q] = Inserted(queue[q], pri, t)
      BY <2>1 DEF MakeWait, WaitInv, Types
    <3>2. Rank(q) = pri
      BY <2>1, <1>2 DEF Rank
    <3>3. t \in Task \ Range(queue[q])
      BY <1>1
    <3>. QED
      BY <3>1, <3>2, <3>3, <1>2, InsertedKeeps
  <2>2. CASE ~bypri
    <3>1. queue'[q] = Append(queue[q], t)
      BY <2>2 DEF MakeWait, WaitInv, Types
    <3>2. \A x \in Task : Rank(q)[x] <= Rank(q)[t]
      BY <2>2 DEF Rank
    <3>3. t \in Task \ Range(queue[q])
      BY <1>1
    <3>4. /\ Append(queue[q], t) \in Seq(Task)
          /\ Range(Append(queue[q], t)) = Range(queue[q]) \cup {t}
          /\ OrderedBy(Append(queue[q], t), Rank(q))
      BY <3>2, <3>3, <1>2, AppendKeeps
    <3>. QED
      BY <3>1, <3>4
  <2>. QED
    BY <2>1, <2>2
<1>4. /\ queue' \in [Queue -> Seq(Task)]
      /\ \A r \in Queue \ {q} : queue'[r] = queue[r]
  BY <1>3 DEF MakeWait, WaitInv, Types
<1>5. Types'
  BY <1>4 DEF MakeWait, WaitInv, Types, Code
<1>6. \A r \in Queue : Rank(r)' = Rank(r)
  BY DEF Rank, ByPriority, MakeWait
<1>7. Sorted'
  BY <1>3, <1>4, <1>6 DEF WaitInv, Sorted
<1>8. /\ tstat'[t] = "wait" /\ wercd'[t] = "E_TMOUT" /\ out' = out
      /\ \A u \in Task \ {t} : /\ tstat'[u] = tstat[u] /\ wercd'[u] = wercd[u]
                               /\ out'[u] = out[u] /\ told'[u] = told[u]
  BY DEF MakeWait, WaitInv, Types
<1>9. \A r \in Queue, u \in Task :
        u \in Range(queue'[r]) <=> u \in Range(queue[r]) \/ (r = q /\ u = t)
  BY <1>3, <1>4
<1>10. Queued'
  BY <1>1, <1>8, <1>9 DEF WaitInv, Queued
<1>11. Waiting'
  BY <1>8, <1>9 DEF WaitInv, Waiting
<1>12. NoObject'
  BY DEF NoObject, MakeWait
<1>13. \A u \in Task : Outcome(u)'
  <2>1. Outcome(t)'
    BY <1>8 DEF WaitInv, Outcome
  <2>2. ASSUME NEW u \in Task \ {t} PROVE Outcome(u)'
    BY <1>8, OutcomeLocal DEF WaitInv
  <2>. QED
    BY <2>1, <2>2
<1>. QED
  BY <1>5, <1>7, <1>10, <1>11, <1>12, <1>13 DEF WaitInv

\* A task that does not wait, before nor after: the queues stay.
LEMMA RunningKeeps ==
    ASSUME WaitInv, Types', NEW t \in Task, tstat[t] # "wait", tstat'[t] # "wait", Outcome(t)',
           UNCHANGED <<exists, tpri, queue, pri>>,
           \A u \in Task \ {t} : /\ tstat'[u] = tstat[u] /\ wercd'[u] = wercd[u]
                                 /\ out'[u] = out[u] /\ told'[u] = told[u]
    PROVE  WaitInv'
<1>1. Sorted'
  BY DEF WaitInv, Sorted, Rank, ByPriority
<1>2. Queued' /\ Waiting' /\ NoObject'
  BY DEF WaitInv, Queued, Waiting, NoObject
<1>3. ASSUME NEW u \in Task \ {t} PROVE Outcome(u)'
  BY OutcomeLocal DEF WaitInv
<1>. QED
  BY <1>1, <1>2, <1>3 DEF WaitInv

\* The call of t is over without a wait.
LEMMA CompletesKeeps ==
    ASSUME WaitInv, NEW t \in Task, NEW data, tstat[t] = "run", Completes(t, data)
    PROVE  WaitInv'
<1>1. Types'
  BY DEF WaitInv, Types, Completes, gcb, Code
<1>2. /\ tstat'[t] = "ready" /\ Outcome(t)'
      /\ \A u \in Task \ {t} : /\ tstat'[u] = tstat[u] /\ wercd'[u] = wercd[u]
                               /\ out'[u] = out[u] /\ told'[u] = told[u]
  BY DEF WaitInv, Types, Completes, Outcome
<1>3. UNCHANGED <<exists, tpri, queue, pri>>
  BY DEF Completes, gcb
<1>. QED
  BY <1>1, <1>2, <1>3, RunningKeeps

\* A released task reads its results.
LEMMA ReturnKeeps ==
    ASSUME WaitInv, NEW t \in Task, Return(t)
    PROVE  WaitInv'
<1>1. Types'
  BY DEF WaitInv, Types, Return, gcb
<1>2. /\ tstat[t] # "wait" /\ tstat'[t] = "run" /\ Outcome(t)'
      /\ \A u \in Task \ {t} : /\ tstat'[u] = tstat[u] /\ wercd'[u] = wercd[u]
                               /\ out'[u] = out[u] /\ told'[u] = told[u]
  BY DEF WaitInv, Types, Return, Outcome
<1>3. UNCHANGED <<exists, tpri, queue, pri>>
  BY DEF Return, gcb
<1>. QED
  BY <1>1, <1>2, <1>3, RunningKeeps

\* knl_wait_release_ok() of a task that is in q.
LEMMA ReleaseOkKeeps ==
    ASSUME WaitInv, NEW q \in Queue, NEW t \in Range(queue[q]), NEW data, ReleaseOk(t, q, data)
    PROVE  WaitInv' /\ queue' = [queue EXCEPT ![q] = Unlinked(queue[q], t)]
<1>1. t \in Task /\ queue[q] \in Seq(Task) /\ OrderedBy(queue[q], Rank(q))
  BY InRange DEF WaitInv, Types, Sorted
<1>2. /\ Unlinked(queue[q], t) \in Seq(Task)
      /\ Range(Unlinked(queue[q], t)) = Range(queue[q]) \ {t}
      /\ OrderedBy(Unlinked(queue[q], t), Rank(q))
  BY <1>1, UnlinkedKeeps
<1>3. queue' = [queue EXCEPT ![q] = Unlinked(queue[q], t)]
  BY DEF ReleaseOk
<1>4. Types'
  BY <1>1, <1>2, <1>3 DEF WaitInv, Types, ReleaseOk, Released, Code
<1>5. /\ tstat'[t] = "ready" /\ Outcome(t)'
      /\ \A u \in Task \ {t} : /\ tstat'[u] = tstat[u] /\ wercd'[u] = wercd[u]
                               /\ out'[u] = out[u] /\ told'[u] = told[u]
  BY <1>1 DEF WaitInv, Types, ReleaseOk, Released, Outcome
<1>6. UNCHANGED <<exists, tpri, pri>>
  BY DEF ReleaseOk, Released
<1>7. WaitInv'
  <2>1. \A u \in {t} : tstat'[u] # "wait" /\ Outcome(u)' /\ (u = t \/ tstat[u] # "wait")
    BY <1>5
  <2>. QED
    BY <1>1, <1>2, <1>3, <1>4, <1>5, <1>6, <2>1, LeavesKeeps
<1>. QED
  BY <1>3, <1>7

\* A timeout, a forced release or the termination of a task that is in q.
LEMMA WithdrawnKeeps ==
    ASSUME WaitInv, NEW q \in Queue, NEW t \in Task, Withdrawn(t, q)
    PROVE  WaitInv'
<1>1. t \in Range(queue[q]) /\ tstat[t] = "wait" /\ queue[q] \in Seq(Task) /\ OrderedBy(queue[q], Rank(q))
  BY DEF WaitInv, Types, Sorted, Withdrawn, Terminated, GiveUp
<1>2. /\ Unlinked(queue[q], t) \in Seq(Task)
      /\ Range(Unlinked(queue[q], t)) = Range(queue[q]) \ {t}
      /\ OrderedBy(Unlinked(queue[q], t), Rank(q))
  BY <1>1, UnlinkedKeeps
<1>3. /\ queue' = [queue EXCEPT ![q] = Unlinked(queue[q], t)]
      /\ UNCHANGED <<exists, tpri, pri>>
  BY DEF Withdrawn, Terminated, GiveUp, Released
<1>4. Types' /\ tstat'[t] # "wait" /\ Outcome(t)'
         /\ \A u \in Task \ {t} : /\ tstat'[u] = tstat[u] /\ wercd'[u] = wercd[u]
                                  /\ out'[u] = out[u] /\ told'[u] = told[u]
  <2>1. Outcome(t) /\ Types
    BY DEF WaitInv
  <2>2. CASE Terminated(t, q)
    <3>1. Types'
      BY <2>1, <2>2, <1>2, <1>3 DEF Types, Terminated
    <3>. QED
      BY <2>1, <2>2, <3>1, <1>1 DEF Types, Terminated, Outcome
  <2>3. ASSUME NEW code \in {"E_TMOUT", "E_RLWAI"}, GiveUp(t, q, code)
        PROVE  <1>4!:
    <3>1. Types'
      BY <2>1, <2>3, <1>2, <1>3 DEF Types, GiveUp, Released, Code
    <3>. QED
      BY <2>1, <2>3, <3>1, <1>1 DEF Types, GiveUp, Released, Outcome
  <2>. QED
    BY <2>2, <2>3 DEF Withdrawn
<1>5. \A u \in {t} : tstat'[u] # "wait" /\ Outcome(u)' /\ (u = t \/ tstat[u] # "wait")
  BY <1>4
<1>. QED
  BY <1>1, <1>2, <1>3, <1>4, <1>5, LeavesKeeps

\* The deletion of the object: all waiting tasks are released.
LEMMA DeleteKeeps ==
    ASSUME WaitInv, Delete
    PROVE  WaitInv'
<1>1. Types'
  <2>1. queue' \in [Queue -> Seq(Task)]
    BY DEF Delete
  <2>2. tstat' \in [Task -> {"run", "wait", "ready"}]
    BY DEF WaitInv, Types, Delete
  <2>3. wercd' = [t \in Task |-> wercd'[t]] /\ told' = [t \in Task |-> told'[t]]
    BY DEF Delete
  <2>. QED
    BY <2>1, <2>2, <2>3 DEF WaitInv, Types, Delete, Code
<1>2. \A q \in Queue : queue'[q] = << >> /\ Range(queue'[q]) = {}
  BY DEF Delete, Range
<1>3. Sorted' /\ Queued' /\ NoObject'
  BY <1>2 DEF Sorted, Queued, NoObject, OrderedBy
<1>4. \A u \in Task : tstat'[u] # "wait"
  BY DEF WaitInv, Types, Delete
<1>5. ASSUME NEW u \in Task PROVE Outcome(u)'
  <2>1. /\ tstat'[u] = IF tstat[u] = "wait" THEN "ready" ELSE tstat[u]
        /\ wercd'[u] = IF tstat[u] = "wait" THEN "E_DLT" ELSE wercd[u]
        /\ told'[u] = IF tstat[u] = "wait" THEN [code |-> "E_DLT", data |-> None] ELSE told[u]
        /\ out' = out
    BY DEF Delete
  <2>. QED
    BY <2>1 DEF WaitInv, Outcome
<1>. QED
  BY <1>1, <1>3, <1>4, <1>5 DEF WaitInv, Waiting

\* The creation of an object.
LEMMA CreateKeeps ==
    ASSUME WaitInv, NEW bypri \in BOOLEAN, Create(bypri)
    PROVE  WaitInv'
<1>1. Types'
  BY DEF WaitInv, Types, Create, tcb
<1>2. \A q \in Queue : queue'[q] = << >> /\ queue[q] = << >>
  BY DEF WaitInv, NoObject, Create
<1>3. Sorted' /\ NoObject'
  BY <1>2 DEF Sorted, NoObject, OrderedBy
<1>4. Queued' /\ Waiting'
  BY DEF WaitInv, Queued, Waiting, Create, tcb
<1>5. \A u \in Task : Outcome(u)'
  BY DEF WaitInv, Outcome, Create, tcb
<1>. QED
  BY <1>1, <1>3, <1>4, <1>5 DEF WaitInv

\* The tasks of a queue are those that were there before, and their states and
\* results stay: a change of priority.
LEMMA PriorityKeeps ==
    ASSUME WaitInv, Types', Sorted', UNCHANGED <<exists, tstat, wercd, out, told>>,
           \A q \in Queue : Range(queue'[q]) = Range(queue[q])
    PROVE  WaitInv'
<1>1. Queued' /\ Waiting'
  BY DEF WaitInv, Queued, Waiting
<1>2. NoObject'
  <2>1. ASSUME NEW q \in Queue, queue[q] = << >> PROVE queue'[q] = << >>
    <3>1. Range(queue[q]) = {} /\ queue'[q] \in Seq(Task)
      BY <2>1 DEF Range, Types
    <3>2. \A i \in 1 .. Len(queue'[q]) : queue'[q][i] \in Range(queue'[q])
      BY <3>1, InRange
    <3>3. Range(queue'[q]) = {}
      BY <3>1
    <3>4. Len(queue'[q]) = 0
      BY <3>1, <3>2, <3>3
    <3>. QED
      BY <3>1, <3>4
  <2>. QED
    BY <2>1 DEF WaitInv, NoObject
<1>3. ASSUME NEW u \in Task PROVE Outcome(u)'
  BY OutcomeLocal DEF WaitInv
<1>. QED
  BY <1>1, <1>2, <1>3 DEF WaitInv

\* Another priority of a task that is in q.
LEMMA ReorderedKeeps ==
    ASSUME WaitInv, NEW q \in Queue, NEW t \in Task, NEW p \in Pri, ByPriority(q),
           Reordered(t, q, p)
    PROVE  WaitInv'
<1>. DEFINE moved == Unlinked(queue[q], t)
<1>1. /\ queue[q] \in Seq(Task) /\ OrderedBy(queue[q], pri) /\ t \in Range(queue[q])
      /\ pri \in [Task -> Nat] /\ p \in Nat
  <2>1. Rank(q) = pri
    BY DEF WaitInv, Types, Rank
  <2>. QED
    BY <2>1, WaitAssumption DEF WaitInv, Types, Sorted, Reordered
<1>2. /\ moved \in Seq(Task) /\ Range(moved) = Range(queue[q]) \ {t} /\ OrderedBy(moved, pri)
  <2>1. /\ Unlinked(queue[q], t) \in Seq(Task)
        /\ Range(Unlinked(queue[q], t)) = Range(queue[q]) \ {t}
        /\ OrderedBy(Unlinked(queue[q], t), pri)
    BY <1>1, UnlinkedKeeps
  <2>. QED
    BY <2>1
<1>3. /\ pri' \in [Task -> Nat] /\ \A u \in Task \ {t} : pri'[u] = pri[u]
  BY <1>1 DEF Reordered
<1>4. OrderedBy(moved, pri') /\ t \in Task \ Range(moved)
  <2>0. \A u \in Range(queue[q]) : u \in Task
    BY <1>1, InRange
  <2>1. \A u \in Range(moved) : pri[u] = pri'[u]
    BY <2>0, <1>2, <1>3
  <2>. QED
    BY <2>1, <1>2, OrderedByItsTasks
<1>5. queue' = [queue EXCEPT ![q] = Inserted(moved, pri', t)]
  BY DEF Reordered
<1>. HIDE DEF moved
<1>6. /\ Inserted(moved, pri', t) \in Seq(Task)
      /\ Range(Inserted(moved, pri', t)) = Range(moved) \cup {t}
      /\ OrderedBy(Inserted(moved, pri', t), pri')
  BY <1>2, <1>3, <1>4, InsertedKeeps
<1>7. /\ queue' \in [Queue -> Seq(Task)]
      /\ queue'[q] = Inserted(moved, pri', t)
      /\ \A r \in Queue \ {q} : queue'[r] = queue[r]
  BY <1>5, <1>6 DEF WaitInv, Types
<1>8. Types'
  BY <1>7 DEF WaitInv, Types, Reordered
<1>9. \A r \in Queue : Range(queue'[r]) = Range(queue[r])
  BY <1>1, <1>2, <1>6, <1>7
<1>10. Sorted'
  <2>1. Rank(q)' = pri'
    BY <1>8 DEF Rank, ByPriority, Reordered, Types
  <2>2. ASSUME NEW r \in Queue \ {q} PROVE OrderedBy(queue'[r], Rank(r)')
    <3>1. t \notin Range(queue[r]) /\ queue[r] \in Seq(Task) /\ OrderedBy(queue[r], Rank(r))
      BY <1>1 DEF WaitInv, Queued, Types, Sorted
    <3>2. \A u \in Range(queue[r]) : Rank(r)[u] = Rank(r)'[u]
      BY <3>1, <1>3, InRange DEF Rank, ByPriority, Reordered
    <3>. QED
      BY <3>1, <3>2, <1>7, OrderedByItsTasks
  <2>. QED
    BY <2>1, <2>2, <1>6, <1>7 DEF Sorted
<1>. QED
  BY <1>8, <1>9, <1>10, PriorityKeeps DEF Reordered

\* Another priority of a task that waits in no queue where it counts.
LEMMA ChangePriorityKeeps ==
    ASSUME WaitInv, NEW t \in Task, NEW p \in Pri, NEW hooked,
           ChangePriority(t, p, hooked), \A q \in Queue : ByPriority(q) => q \in hooked \/ queue[q] = << >>
    PROVE  WaitInv'
<1>1. Types' /\ queue' = queue /\ tpri' = tpri /\ \A u \in Task \ {t} : pri'[u] = pri[u]
  BY DEF WaitInv, Types, ChangePriority, gcb
<1>2. ASSUME NEW q \in Queue PROVE OrderedBy(queue'[q], Rank(q)')
  <2>1. queue[q] \in Seq(Task) /\ OrderedBy(queue[q], Rank(q))
    BY DEF WaitInv, Types, Sorted
  <2>2. ByPriority(q) => t \notin Range(queue[q])
    BY DEF ChangePriority, Range
  <2>3. \A u \in Range(queue[q]) : Rank(q)[u] = Rank(q)'[u]
    BY <1>1, <2>1, <2>2, InRange DEF Rank, ByPriority
  <2>. QED
    BY <1>1, <2>1, <2>3, OrderedByItsTasks
<1>3. Sorted'
  BY <1>2 DEF Sorted
<1>. QED
  BY <1>1, <1>3, PriorityKeeps DEF ChangePriority, gcb

\* Nothing that concerns the tasks.
LEMMA NothingKeeps ==
    ASSUME WaitInv, UNCHANGED <<gcb, tcb>>
    PROVE  WaitInv'
BY DEF WaitInv, Types, Sorted, Rank, ByPriority, Queued, Waiting, NoObject, Outcome, gcb, tcb

\* The message of the first waiting sender passes to t, and both calls are over.
LEMMA FromSenderKeeps ==
    ASSUME WaitInv, NEW t \in Task, tstat[t] = "run", "send" \in Queue, FromSender(t)
    PROVE  WaitInv'
<1>0. PICK s : s = Head(queue["send"])
  OBVIOUS
<1>1. queue["send"] \in Seq(Task) /\ OrderedBy(queue["send"], Rank("send")) /\ queue["send"] # << >>
  BY DEF WaitInv, Types, Sorted, FromSender
<1>2. /\ s \in Task /\ s \in Range(queue["send"])
      /\ Tail(queue["send"]) \in Seq(Task)
      /\ Range(Tail(queue["send"])) = Range(queue["send"]) \ {s}
      /\ OrderedBy(Tail(queue["send"]), Rank("send"))
  <2>1. /\ Head(queue["send"]) \in Task /\ Head(queue["send"]) \in Range(queue["send"])
        /\ Tail(queue["send"]) \in Seq(Task)
        /\ Range(Tail(queue["send"])) = Range(queue["send"]) \ {Head(queue["send"])}
        /\ OrderedBy(Tail(queue["send"]), Rank("send"))
    BY <1>1, TailKeeps
  <2>. QED
    BY <1>0, <2>1
<1>3. s # t
  BY <1>2 DEF WaitInv, Queued
<1>4. PICK bytes :
        /\ tstat' = [tstat EXCEPT ![t] = "ready", ![s] = "ready"]
        /\ wercd' = [wercd EXCEPT ![t] = "E_OK", ![s] = "E_OK"]
        /\ out' = [out EXCEPT ![t] = bytes, ![s] = None]
        /\ told' = [told EXCEPT ![t] = [code |-> "E_OK", data |-> bytes],
                                ![s] = [code |-> "E_OK", data |-> None]]
        /\ queue' = [queue EXCEPT !["send"] = Tail(queue["send"])]
        /\ UNCHANGED <<exists, tpri, pri>>
  BY <1>0 DEF FromSender
<1>5. /\ tstat'[t] = "ready" /\ wercd'[t] = "E_OK" /\ out'[t] = bytes
      /\ told'[t] = [code |-> "E_OK", data |-> bytes]
  BY <1>2, <1>3, <1>4 DEF WaitInv, Types
<1>6. /\ tstat'[s] = "ready" /\ wercd'[s] = "E_OK" /\ out'[s] = None
      /\ told'[s] = [code |-> "E_OK", data |-> None]
  BY <1>2, <1>3, <1>4 DEF WaitInv, Types
<1>7. \A u \in Task \ {s, t} : /\ tstat'[u] = tstat[u] /\ wercd'[u] = wercd[u]
                               /\ out'[u] = out[u] /\ told'[u] = told[u]
  BY <1>4 DEF WaitInv, Types
<1>8. Types'
  <2>1. wercd' \in [Task -> Code \cup {None}]
    BY <1>2, <1>4 DEF WaitInv, Types, Code
  <2>2. /\ tstat' \in [Task -> {"run", "wait", "ready"}]
        /\ queue' \in [Queue -> Seq(Task)]
    BY <1>2, <1>4 DEF WaitInv, Types
  <2>3. winfo' = [u \in Task |-> winfo'[u]]
    BY DEF WaitInv, Types, FromSender
  <2>4. out' = [u \in Task |-> out'[u]] /\ told' = [u \in Task |-> told'[u]]
    BY <1>4 DEF WaitInv, Types
  <2>. QED
    BY <2>1, <2>2, <2>3, <2>4, <1>4 DEF WaitInv, Types
<1>9. \A u \in {s, t} : tstat'[u] # "wait" /\ Outcome(u)' /\ (u = s \/ tstat[u] # "wait")
  <2>1. Outcome(s)'
    BY <1>6 DEF Outcome
  <2>2. Outcome(t)'
    BY <1>5 DEF Outcome
  <2>. QED
    BY <2>1, <2>2, <1>5, <1>6
<1>10. PICK D : D = {s, t}
  OBVIOUS
<1>11. /\ D \in SUBSET Task /\ s \in D
       /\ \A u \in D : tstat'[u] # "wait" /\ Outcome(u)' /\ (u = s \/ tstat[u] # "wait")
       /\ \A u \in Task \ D : /\ tstat'[u] = tstat[u] /\ wercd'[u] = wercd[u]
                              /\ out'[u] = out[u] /\ told'[u] = told[u]
  BY <1>2, <1>7, <1>9, <1>10
<1>12. PICK r : r = Tail(queue["send"])
  OBVIOUS
<1>13. /\ queue' = [queue EXCEPT !["send"] = r]
       /\ UNCHANGED <<exists, tpri, pri>>
       /\ r \in Seq(Task) /\ Range(r) = Range(queue["send"]) \ {s} /\ OrderedBy(r, Rank("send"))
  BY <1>2, <1>4, <1>12
<1>. QED
  BY <1>2, <1>8, <1>11, <1>13, LeavesKeeps

-----------------------------------------------------------------------------
(***************************************************************************)
(* The loops.                                                              *)
(***************************************************************************)
\* The queue a loop serves is one of the object's.
LEMMA ServedQueue ==
    /\ Served \in Queue /\ (ByPriority(Served) <=> tpri)
    /\ {"wait", "send", "recv"} = Queue
BY ObjectsAssumption DEF Served, ByPriority

\* The next task to look at is in the queue, and waits.
LEMMA NextServed ==
    ASSUME WaitInv, Serving, rest # << >>
    PROVE  Head(rest) \in Task /\ Head(rest) \in Range(queue[Served])
BY TailKeeps DEF Serving

\* The head of a queue is in the queue.
LEMMA HeadWaits ==
    ASSUME WaitInv, NEW q \in Queue, queue[q] # << >>
    PROVE  Head(queue[q]) \in Task /\ Head(queue[q]) \in Range(queue[q])
BY TailKeeps DEF WaitInv, Types, Sorted

\* A loop that begins, or there is none.
LEMMA ServingAll ==
    ASSUME WaitInv', kind' = kind, rest' = << >> \/ rest' = queue'[Served]
    PROVE  Serving'
<1>1. CASE rest' = << >>
  BY <1>1 DEF Serving, OrderedBy, Range
<1>2. CASE rest' = queue'[Served]
  <2>1. Served' = Served /\ Served \in Queue
    BY ServedQueue DEF Served
  <2>2. queue'[Served] \in Seq(Task) /\ OrderedBy(queue'[Served], Rank(Served)')
    BY <2>1 DEF WaitInv, Types, Sorted
  <2>3. OrderedBy(queue'[Served], [t \in Task |-> 0])
    <3>1. \A i \in DOMAIN queue'[Served] : queue'[Served][i] \in Task
      BY <2>2, InRange
    <3>. QED
      BY <2>2, <3>1 DEF OrderedBy
  <2>. QED
    BY <1>2, <2>1, <2>2, <2>3 DEF Serving
<1>. QED
  BY <1>1, <1>2

\* A turn of a loop, in which no other task than the next one leaves the queue.
LEMMA ServingNext ==
    ASSUME Serving, kind' = kind, rest # << >>, rest' = Tail(rest),
           Range(queue[Served]) \ {Head(rest)} \subseteq Range(queue'[Served])
    PROVE  Serving'
<1>1. /\ Tail(rest) \in Seq(Task)
      /\ Range(Tail(rest)) = Range(rest) \ {Head(rest)}
      /\ OrderedBy(Tail(rest), [t \in Task |-> 0])
  BY TailKeeps DEF Serving
<1>. QED
  BY <1>1 DEF Serving, Served

\* The loop and the queues stay.
LEMMA ServingStays ==
    ASSUME Serving, UNCHANGED <<kind, rest, queue>>
    PROVE  Serving'
BY DEF Serving, Served

\* The pool is not concerned.
LEMMA PoolingStays ==
    ASSUME Pooling, kind # "mpf", UNCHANGED <<kind, mpfvars>>
    PROVE  Pooling'
BY DEF Pooling, mpfvars

-----------------------------------------------------------------------------
(***************************************************************************)
(* The steps that the calls of the objects are made of.                    *)
(***************************************************************************)
\* Only the queues the object has may change.
LEMMA UnusedStays ==
    ASSUME WaitInv, Unused, kind' = kind,
           \/ UNCHANGED queue
           \/ \E q \in Used : \E s : queue' = [queue EXCEPT ![q] = s]
    PROVE  Unused'
BY DEF WaitInv, Types, Unused, Used

\* What the steps of an object keep.
Keeps == WaitInv' /\ Serving' /\ Unused'

\* An object is created: empty queues, no loop.
LEMMA CreateStep ==
    ASSUME WaitInv, Unused, kind' = kind, NEW bypri \in BOOLEAN, Create(bypri)
    PROVE  Keeps
BY CreateKeeps, ServingAll, UnusedStays DEF Keeps, Create, Unlocked

\* knl_wait_delete(): everybody who waits leaves with E_DLT.
LEMMA DeleteStep ==
    ASSUME WaitInv, kind' = kind, Delete
    PROVE  Keeps
BY DeleteKeeps, ServingAll DEF Keeps, Delete, Unlocked, Unused

\* The tasks stay as they are; a loop may begin, go on or end.
LEMMA ObjectStep ==
    ASSUME WaitInv, Serving, Unused, kind' = kind, UNCHANGED <<gcb, tcb>>,
           rest' \in {<< >>, rest, queue[Served]} \/ (rest # << >> /\ rest' = Tail(rest))
    PROVE  Keeps
<1>1. WaitInv' /\ queue' = queue
  BY NothingKeeps DEF gcb
<1>2. Unused'
  BY <1>1, UnusedStays
<1>3. CASE rest' = rest
  BY <1>1, <1>2, <1>3, ServingStays DEF Keeps
<1>4. CASE rest' = << >> \/ rest' = queue[Served]
  BY <1>1, <1>2, <1>4, ServingAll DEF Keeps
<1>5. CASE rest # << >> /\ rest' = Tail(rest)
  BY <1>1, <1>2, <1>5, ServingNext DEF Keeps
<1>. QED
  BY <1>3, <1>4, <1>5

\* A turn of a loop that releases the next task.
LEMMA TurnStep ==
    ASSUME WaitInv, Serving, Unused, kind' = kind, NEW data, rest # << >>,
           ReleaseOk(Head(rest), Served, data), rest' \in {<< >>, Tail(rest)}
    PROVE  Keeps
<1>0. PICK t : t = Head(rest)
  OBVIOUS
<1>1. t \in Task /\ t \in Range(queue[Served]) /\ Served \in Queue /\ Served \in Used
  BY <1>0, NextServed, ServedQueue DEF Served, Used
<1>2. WaitInv' /\ queue' = [queue EXCEPT ![Served] = Unlinked(queue[Served], t)]
  BY <1>0, <1>1, ReleaseOkKeeps
<1>3. /\ queue \in [Queue -> Seq(Task)] /\ queue[Served] \in Seq(Task)
      /\ OrderedBy(queue[Served], Rank(Served))
  BY <1>1 DEF WaitInv, Types, Sorted
<1>4. ASSUME NEW q \in Queue
      PROVE  Range(Unlinked(queue[q], t)) = Range(queue[q]) \ {t}
  <2>1. queue[q] \in Seq(Task) /\ OrderedBy(queue[q], Rank(q))
    BY DEF WaitInv, Types, Sorted
  <2>2. /\ Unlinked(queue[q], t) \in Seq(Task)
        /\ Range(Unlinked(queue[q], t)) = Range(queue[q]) \ {t}
        /\ OrderedBy(Unlinked(queue[q], t), Rank(q))
    BY <1>1, <2>1, UnlinkedKeeps
  <2>. QED
    BY <2>2
<1>5. Range(queue'[Served]) = Range(queue[Served]) \ {t}
  BY <1>1, <1>2, <1>3, <1>4
<1>6. Unused'
  BY <1>1, <1>2, UnusedStays
<1>. QED
  BY <1>0, <1>2, <1>5, <1>6, ServingAll, ServingNext DEF Keeps

\* The first task of a queue is released by a call.
LEMMA HandStep ==
    ASSUME WaitInv, Unused, kind' = kind, Unlocked, NEW q \in Queue, NEW data,
           queue[q] # << >>, ReleaseOk(Head(queue[q]), q, data), UNCHANGED rest
    PROVE  Keeps
<1>1. Head(queue[q]) \in Range(queue[q]) /\ q \in Used
  BY HeadWaits DEF Unused
<1>2. WaitInv' /\ queue' = [queue EXCEPT ![q] = Unlinked(queue[q], Head(queue[q]))]
  BY <1>1, ReleaseOkKeeps
<1>3. Unused'
  BY <1>1, <1>2, UnusedStays
<1>. QED
  BY <1>2, <1>3, ServingAll DEF Keeps, Unlocked

\* A task makes a call that needs no wait, and one that does.
LEMMA DoneStep ==
    ASSUME WaitInv, Unused, kind' = kind, NEW t \in Task, tstat[t] = "run", NEW data,
           Completes(t, data), rest' \in {<< >>, queue[Served]}
    PROVE  Keeps
<1>1. WaitInv' /\ queue' = queue
  BY CompletesKeeps DEF Completes, gcb
<1>. QED
  BY <1>1, ServingAll, UnusedStays DEF Keeps

\* knl_make_wait(): the task gets its place in a queue.
LEMMA WaitStep ==
    ASSUME WaitInv, Unused, kind' = kind, NEW t \in Task, tstat[t] = "run", exists,
           NEW q \in Queue, q \in Used, NEW info,
           NEW bypri, bypri <=> ByPriority(q), MakeWait(t, q, info, bypri)
    PROVE  Keeps
<1>1. WaitInv'
  BY MakeWaitKeeps
<1>2. rest' = << >> /\ \E s : queue' = [queue EXCEPT ![q] = s]
  BY DEF MakeWait
<1>3. Unused'
  BY <1>2, UnusedStays
<1>. QED
  BY <1>1, <1>2, <1>3, ServingAll DEF Keeps

\* A task gives up; others may be served then.
LEMMA WithdrawStep ==
    ASSUME WaitInv, Unused, kind' = kind, NEW t \in Task, NEW q \in Queue, q \in Used,
           Withdrawn(t, q), rest' \in {<< >>, queue'[Served]}
    PROVE  Keeps
<1>1. WaitInv'
  BY WithdrawnKeeps
<1>2. \E s : queue' = [queue EXCEPT ![q] = s]
  BY DEF Withdrawn, Terminated, GiveUp
<1>3. Unused'
  BY <1>2, UnusedStays
<1>. QED
  BY <1>1, <1>3, ServingAll DEF Keeps

\* Another priority, of a task that waits in the queue served, and of another.
LEMMA ReorderStep ==
    ASSUME WaitInv, Unused, kind' = kind, NEW t \in Task, NEW p \in Pri, tpri,
           Reordered(t, Served, p), rest' \in {<< >>, rest, queue'[Served]}
    PROVE  Keeps
<1>1. WaitInv'
  BY ReorderedKeeps, ServedQueue
<1>2. rest = << >> /\ \E s : queue' = [queue EXCEPT ![Served] = s]
  BY DEF Reordered, Unlocked
<1>3. Unused'
  BY <1>2, UnusedStays DEF Served, Used
<1>. QED
  BY <1>1, <1>2, <1>3, ServingAll DEF Keeps

\* A waiting or running task gets another priority.
LEMMA ChangeStep ==
    ASSUME WaitInv, Serving, Unused, kind' = kind, NEW t \in Task, NEW p \in Pri,
           ChangePriority(t, p, IF tpri THEN {Served} ELSE {})
    PROVE  Keeps
<1>1. \A q \in Queue : ByPriority(q) => q \in (IF tpri THEN {Served} ELSE {}) \/ queue[q] = << >>
  BY DEF Unused, Used, Served, ByPriority
<1>2. WaitInv'
  BY <1>1, ChangePriorityKeeps
<1>3. rest' = rest /\ queue' = queue
  BY DEF ChangePriority, gcb
<1>. QED
  BY <1>2, <1>3, ServingStays, UnusedStays DEF Keeps

\* The end of a call.
LEMMA ReturnStep ==
    ASSUME WaitInv, Serving, Unused, kind' = kind, NEW t \in Task, Return(t)
    PROVE  Keeps
BY ReturnKeeps, ServingStays, UnusedStays DEF Keeps, Return, gcb

\* The message of the first sender passes to a receiver.
LEMMA FromSenderStep ==
    ASSUME WaitInv, Unused, kind = "mbf", kind' = kind, NEW t \in Task, tstat[t] = "run",
           FromSender(t)
    PROVE  Keeps
<1>1. Served = "send" /\ "send" \in Queue /\ "send" \in Used
  BY ServedQueue DEF Served, Used
<1>2. rest' = queue'["send"] /\ \E s : queue' = [queue EXCEPT !["send"] = s]
  BY DEF FromSender
<1>3. Unused'
  BY <1>1, <1>2, UnusedStays
<1>. QED
  BY <1>1, <1>2, <1>3, FromSenderKeeps, ServingAll DEF Keeps

-----------------------------------------------------------------------------
(***************************************************************************)
(* The objects, one after the other.                                       *)
(***************************************************************************)
\* The invariant of an object that is no fixed-size pool.
ObjectInv == WaitInv /\ Serving /\ Unused

\* Where tasks wait for objects with one queue.
LEMMA OneQueue ==
    ASSUME kind \notin {"mbf"}
    PROVE  /\ Served = "wait" /\ "wait" \in Used /\ "wait" \in Queue
           /\ (tpri <=> ByPriority("wait"))
BY ServedQueue DEF Served, Used, ByPriority

\* Semaphores: every call and every turn of a loop.
LEMMA SemKeeps ==
    ASSUME ObjectInv, kind = "sem", kind' = kind, SemNext
    PROVE  Keeps
<1>. USE OneQueue DEF ObjectInv
<1>1. ASSUME NEW bypri \in BOOLEAN, NEW bycnt \in BOOLEAN, NEW n \in 0 .. MaxSem,
             NEW m \in 1 .. MaxSem, tk_cre_sem(bypri, bycnt, n, m)
      PROVE  Keeps
  BY <1>1, CreateStep DEF tk_cre_sem
<1>2. CASE tk_del_sem
  BY <1>2, DeleteStep DEF tk_del_sem
<1>3. ASSUME NEW n \in 1 .. MaxSem, tk_sig_sem(n)
      PROVE  Keeps
  BY <1>3, ObjectStep DEF tk_sig_sem
<1>4. CASE Serve
  <2>1. rest # << >> /\ rest' \in {<< >>, Tail(rest)}
    BY <1>4 DEF Serve
  <2>2. CASE UNCHANGED <<gcb, tcb>>
    BY <2>1, <2>2, ObjectStep
  <2>3. CASE ReleaseOk(Head(rest), Served, None)
    BY <2>1, <2>3, TurnStep
  <2>. QED
    BY <1>4, <2>2, <2>3 DEF Serve
<1>5. ASSUME NEW t \in Task, NEW n \in 1 .. MaxSem, tk_wai_sem(t, n)
      PROVE  Keeps
  <2>1. tstat[t] = "run" /\ exists /\ rest = << >>
    BY <1>5 DEF tk_wai_sem, Calls, Unlocked
  <2>2. CASE Completes(t, None) /\ UNCHANGED rest
    BY <2>1, <2>2, DoneStep
  <2>3. CASE MakeWait(t, "wait", n, tpri)
    BY <2>1, <2>3, WaitStep
  <2>. QED
    BY <1>5, <2>2, <2>3 DEF tk_wai_sem
<1>6. ASSUME NEW t \in Task, SemWithdraw(t)
      PROVE  Keeps
  BY <1>6, WithdrawStep DEF SemWithdraw, sem_rel_wai
<1>7. ASSUME NEW t \in Task, NEW p \in Pri, SemReorder(t, p)
      PROVE  Keeps
  BY <1>7, ReorderStep DEF SemReorder
<1>8. ASSUME NEW t \in Task, NEW p \in Pri, ChangePriority(t, p, IF tpri THEN {"wait"} ELSE {})
      PROVE  Keeps
  BY <1>8, ChangeStep
<1>9. ASSUME NEW t \in Task, Return(t)
      PROVE  Keeps
  BY <1>9, ReturnStep
<1>. QED
  BY <1>1, <1>2, <1>3, <1>4, <1>5, <1>6, <1>7, <1>8, <1>9 DEF SemNext

\* Event flags.
LEMMA FlgKeeps ==
    ASSUME ObjectInv, kind = "flg", kind' = kind, FlgNext
    PROVE  Keeps
<1>. USE OneQueue DEF ObjectInv
<1>1. ASSUME NEW bypri \in BOOLEAN, NEW multi \in BOOLEAN, NEW ptn, tk_cre_flg(bypri, multi, ptn)
      PROVE  Keeps
  BY <1>1, CreateStep DEF tk_cre_flg
<1>2. CASE tk_del_flg
  BY <1>2, DeleteStep DEF tk_del_flg
<1>3. ASSUME NEW ptn, tk_set_flg(ptn)
      PROVE  Keeps
  BY <1>3, ObjectStep DEF tk_set_flg
<1>4. ASSUME NEW ptn, tk_clr_flg(ptn)
      PROVE  Keeps
  BY <1>4, ObjectStep DEF tk_clr_flg, wvars
<1>5. CASE SetServe
  <2>1. rest # << >> /\ rest' \in {<< >>, Tail(rest)}
    BY <1>5 DEF SetServe
  <2>2. CASE UNCHANGED <<gcb, tcb>>
    BY <2>1, <2>2, ObjectStep
  <2>3. CASE ReleaseOk(Head(rest), Served, flgptn)
    BY <2>1, <2>3, TurnStep
  <2>. QED
    BY <1>5, <2>2, <2>3 DEF SetServe
<1>6. ASSUME NEW t \in Task, NEW ptn, NEW mode, tk_wai_flg(t, ptn, mode)
      PROVE  Keeps
  <2>1. tstat[t] = "run" /\ exists /\ rest = << >>
    BY <1>6 DEF tk_wai_flg, Calls, Unlocked
  <2>2. CASE Completes(t, flgptn) /\ UNCHANGED rest
    BY <2>1, <2>2, DoneStep
  <2>3. CASE MakeWait(t, "wait", [waiptn |-> ptn, mode |-> mode], tpri)
    BY <2>1, <2>3, WaitStep
  <2>. QED
    BY <1>6, <2>2, <2>3 DEF tk_wai_flg
<1>7. ASSUME NEW t \in Task, FlgWithdraw(t)
      PROVE  Keeps
  BY <1>7, WithdrawStep DEF FlgWithdraw
<1>8. ASSUME NEW t \in Task, NEW p \in Pri, FlgReorder(t, p)
      PROVE  Keeps
  BY <1>8, ReorderStep DEF FlgReorder
<1>9. ASSUME NEW t \in Task, NEW p \in Pri, ChangePriority(t, p, IF tpri THEN {"wait"} ELSE {})
      PROVE  Keeps
  BY <1>9, ChangeStep
<1>10. ASSUME NEW t \in Task, Return(t)
       PROVE  Keeps
  BY <1>10, ReturnStep
<1>. QED
  BY <1>1, <1>2, <1>3, <1>4, <1>5, <1>6, <1>7, <1>8, <1>9, <1>10 DEF FlgNext

\* Mailboxes.
LEMMA MbxKeeps ==
    ASSUME ObjectInv, kind = "mbx", kind' = kind, MbxNext
    PROVE  Keeps
<1>. USE OneQueue DEF ObjectInv
<1>1. ASSUME NEW bypri \in BOOLEAN, NEW bymsg \in BOOLEAN, tk_cre_mbx(bypri, bymsg)
      PROVE  Keeps
  BY <1>1, CreateStep DEF tk_cre_mbx
<1>2. CASE tk_del_mbx
  BY <1>2, DeleteStep DEF tk_del_mbx
<1>3. ASSUME NEW m \in Mail, tk_snd_mbx(m)
      PROVE  Keeps
  <2>1. Unlocked /\ UNCHANGED rest
    BY <1>3 DEF tk_snd_mbx
  <2>2. CASE queue["wait"] # << >> /\ ReleaseOk(Head(queue["wait"]), "wait", m)
    BY <2>1, <2>2, HandStep
  <2>3. CASE UNCHANGED <<gcb, tcb>>
    BY <2>1, <2>3, ObjectStep
  <2>. QED
    BY <1>3, <2>2, <2>3 DEF tk_snd_mbx
<1>4. ASSUME NEW t \in Task, tk_rcv_mbx(t)
      PROVE  Keeps
  <2>1. tstat[t] = "run" /\ exists /\ rest = << >>
    BY <1>4 DEF tk_rcv_mbx, Calls, Unlocked
  <2>2. CASE Completes(t, Head(mq)) /\ UNCHANGED rest
    BY <2>1, <2>2, DoneStep
  <2>3. CASE MakeWait(t, "wait", None, tpri)
    BY <2>1, <2>3, WaitStep
  <2>. QED
    BY <1>4, <2>2, <2>3 DEF tk_rcv_mbx
<1>5. ASSUME NEW t \in Task, MbxWithdraw(t)
      PROVE  Keeps
  BY <1>5, WithdrawStep DEF MbxWithdraw
<1>6. ASSUME NEW t \in Task, NEW p \in Pri, MbxReorder(t, p)
      PROVE  Keeps
  BY <1>6, ReorderStep DEF MbxReorder
<1>7. ASSUME NEW t \in Task, NEW p \in Pri, ChangePriority(t, p, IF tpri THEN {"wait"} ELSE {})
      PROVE  Keeps
  BY <1>7, ChangeStep
<1>8. ASSUME NEW t \in Task, Return(t)
      PROVE  Keeps
  BY <1>8, ReturnStep
<1>. QED
  BY <1>1, <1>2, <1>3, <1>4, <1>5, <1>6, <1>7, <1>8 DEF MbxNext

\* Message buffers, which have two queues.
LEMMA MbfKeeps ==
    ASSUME ObjectInv, kind = "mbf", kind' = kind, MbfNext
    PROVE  Keeps
<1>. USE DEF ObjectInv
<1>0. /\ Served = "send" /\ "send" \in Used /\ "recv" \in Used
      /\ "send" \in Queue /\ "recv" \in Queue
      /\ (tpri <=> ByPriority("send")) /\ (FALSE <=> ByPriority("recv"))
  BY ServedQueue DEF Served, Used, ByPriority
<1>1. ASSUME NEW bypri \in BOOLEAN, NEW size, tk_cre_mbf(bypri, size)
      PROVE  Keeps
  BY <1>1, CreateStep DEF tk_cre_mbf
<1>2. CASE tk_del_mbf
  BY <1>2, DeleteStep DEF tk_del_mbf
<1>3. ASSUME NEW m, Unlocked, SendDirectly(m)
      PROVE  Keeps
  BY <1>3, <1>0, HandStep DEF SendDirectly
<1>4. ASSUME NEW m, HandlerSends(m)
      PROVE  Keeps
  <2>1. CASE UNCHANGED wvars
    BY <2>1, ObjectStep DEF wvars
  <2>. QED
    BY <1>3, <1>4, <2>1 DEF HandlerSends
<1>5. CASE Wakeup
  <2>1. rest # << >> /\ rest' \in {<< >>, Tail(rest)}
    BY <1>5 DEF Wakeup
  <2>2. CASE UNCHANGED <<gcb, tcb>>
    BY <2>1, <2>2, ObjectStep
  <2>3. CASE ReleaseOk(Head(rest), Served, None)
    BY <2>1, <2>3, TurnStep
  <2>. QED
    BY <1>5, <1>0, <2>2, <2>3 DEF Wakeup
<1>6. ASSUME NEW t \in Task, NEW m, tk_snd_mbf(t, m)
      PROVE  Keeps
  <2>1. tstat[t] = "run" /\ exists /\ Unlocked
    BY <1>6 DEF tk_snd_mbf, Calls
  <2>2. CASE UNCHANGED wvars
    BY <2>2, ObjectStep DEF wvars
  <2>3. CASE MakeWait(t, "send", m, tpri)
    BY <1>0, <2>1, <2>3, WaitStep
  <2>. QED
    BY <1>3, <1>6, <2>1, <2>2, <2>3 DEF tk_snd_mbf
<1>7. ASSUME NEW t \in Task, tk_rcv_mbf(t)
      PROVE  Keeps
  <2>1. tstat[t] = "run" /\ exists
    BY <1>7 DEF tk_rcv_mbf, Calls
  <2>2. CASE Completes(t, Stored(head)) /\ rest' = queue["send"]
    BY <1>0, <2>1, <2>2, DoneStep
  <2>3. CASE FromSender(t)
    BY <2>1, <2>3, FromSenderStep
  <2>4. CASE MakeWait(t, "recv", None, FALSE)
    BY <1>0, <2>1, <2>4, WaitStep
  <2>. QED
    BY <1>7, <2>2, <2>3, <2>4 DEF tk_rcv_mbf
<1>8. ASSUME NEW t \in Task, MbfWithdraw(t)
      PROVE  Keeps
  BY <1>8, <1>0, WithdrawStep DEF MbfWithdraw
<1>9. ASSUME NEW t \in Task, NEW p \in Pri, MbfReorder(t, p)
      PROVE  Keeps
  BY <1>9, <1>0, ReorderStep DEF MbfReorder
<1>10. ASSUME NEW t \in Task, NEW p \in Pri, ChangePriority(t, p, IF tpri THEN {"send"} ELSE {})
       PROVE  Keeps
  BY <1>10, <1>0, ChangeStep
<1>11. ASSUME NEW t \in Task, Return(t)
       PROVE  Keeps
  BY <1>11, ReturnStep
<1>. QED
  BY <1>1, <1>2, <1>4, <1>5, <1>6, <1>7, <1>8, <1>9, <1>10, <1>11 DEF MbfNext

\* Variable-size pools.
LEMMA MplKeeps ==
    ASSUME ObjectInv, kind = "mpl", kind' = kind, MplNext
    PROVE  Keeps
<1>. USE OneQueue DEF ObjectInv
<1>1. ASSUME NEW bypri \in BOOLEAN, tk_cre_mpl(bypri)
      PROVE  Keeps
  BY <1>1, CreateStep DEF tk_cre_mpl
<1>2. CASE tk_del_mpl
  BY <1>2, DeleteStep DEF tk_del_mpl
<1>3. ASSUME NEW blk, tk_rel_mpl(blk)
      PROVE  Keeps
  BY <1>3, ObjectStep DEF tk_rel_mpl
<1>4. CASE knl_mpl_wakeup
  <2>1. rest # << >> /\ rest' \in {<< >>, Tail(rest)}
    BY <1>4 DEF knl_mpl_wakeup
  <2>2. CASE UNCHANGED <<gcb, tcb>>
    BY <2>1, <2>2, ObjectStep
  <2>3. CASE ReleaseOk(Head(rest), Served, Got(winfo[Head(rest)]))
    BY <2>1, <2>3, TurnStep
  <2>. QED
    BY <1>4, <2>2, <2>3 DEF knl_mpl_wakeup
<1>5. ASSUME NEW t \in Task, NEW sz, tk_get_mpl(t, sz)
      PROVE  Keeps
  <2>1. tstat[t] = "run" /\ exists /\ rest = << >>
    BY <1>5 DEF tk_get_mpl, Calls, Unlocked
  <2>2. CASE Completes(t, Got(roundSize(sz))) /\ UNCHANGED rest
    BY <2>1, <2>2, DoneStep
  <2>3. CASE MakeWait(t, "wait", roundSize(sz), tpri)
    BY <2>1, <2>3, WaitStep
  <2>. QED
    BY <1>5, <2>2, <2>3 DEF tk_get_mpl
<1>6. ASSUME NEW t \in Task, mpl_rel_wai(t)
      PROVE  Keeps
  BY <1>6, WithdrawStep DEF mpl_rel_wai
<1>7. ASSUME NEW t \in Task, NEW p \in Pri, mpl_chg_pri(t, p)
      PROVE  Keeps
  BY <1>7, ReorderStep DEF mpl_chg_pri
<1>8. ASSUME NEW t \in Task, NEW p \in Pri, ChangePriority(t, p, IF tpri THEN {"wait"} ELSE {})
      PROVE  Keeps
  BY <1>8, ChangeStep
<1>9. ASSUME NEW t \in Task, Return(t)
      PROVE  Keeps
  BY <1>9, ReturnStep
<1>. QED
  BY <1>1, <1>2, <1>3, <1>4, <1>5, <1>6, <1>7, <1>8, <1>9 DEF MplNext

\* What t is about to do changes, and it is the only task inside.
LEMMA PoolingCall ==
    ASSUME Pooling, kind = "mpf", kind' = kind, rest' = << >>, NEW t \in Task, NEW call, NEW blk,
           doing' = [doing EXCEPT ![t] = [call |-> call, blk |-> blk]],
           holder \in {t, None},
           call # "none" => /\ holder' = t /\ tstat'[t] = "run"
                            /\ call \in {"wait", "put"} => exists'
    PROVE  Pooling'
<1>1. \A u \in Task \ {t} : doing[u].call = "none" /\ doing'[u] = doing[u]
  BY WaitAssumption DEF Pooling
<1>2. doing'[t] = [call |-> call, blk |-> blk]
  BY DEF Pooling
<1>3. doing' = [u \in Task |-> [call |-> doing'[u].call, blk |-> doing'[u].blk]]
  BY DEF Pooling
<1>. QED
  BY <1>1, <1>2, <1>3 DEF Pooling

\* Nobody who is inside is concerned.
LEMMA PoolingOther ==
    ASSUME Pooling, kind = "mpf", kind' = kind, rest' = << >>, UNCHANGED <<mpfvars, exists>>,
           \A u \in Task : tstat[u] = "run" => tstat'[u] = "run"
    PROVE  Pooling'
BY DEF Pooling, mpfvars

\* Fixed-size pools, whose calls take several steps under the object lock.
LEMMA MpfKeeps ==
    ASSUME ObjectInv, Pooling, kind = "mpf", kind' = kind, MpfNext
    PROVE  Keeps /\ Pooling'
<1>. USE OneQueue DEF ObjectInv
<1>0. /\ rest = << >>
      /\ \A t \in Task : doing[t].call # "none" =>
           /\ holder = t /\ tstat[t] = "run"
           /\ doing[t].call \in {"wait", "put"} => exists
      /\ \A t \in Task : \A call :
           [doing EXCEPT ![t].call = call]
             = [doing EXCEPT ![t] = [call |-> call, blk |-> doing[t].blk]]
  BY DEF Pooling
<1>1. ASSUME NEW t \in Task, NEW call \in {"cre", "del", "get", "rel"}, NEW blk, Enter(t, call, blk)
      PROVE  Keeps /\ Pooling'
  <2>1. Keeps
    BY <1>1, ObjectStep DEF Enter, wvars
  <2>2. /\ holder = None /\ holder' = t /\ tstat'[t] = "run" /\ rest' = << >>
        /\ doing' = [doing EXCEPT ![t] = [call |-> call, blk |-> blk]]
    BY <1>0, <1>1 DEF Enter, wvars, tcb
  <2>3. Pooling'
    BY <2>2, PoolingCall
  <2>. QED
    BY <2>1, <2>3
<1>2. ASSUME NEW t \in Task, NoPool(t)
      PROVE  Keeps /\ Pooling'
  BY <1>0, <1>2, ObjectStep, PoolingCall DEF NoPool, wvars, knl_UnlockOBJ, Idle
<1>3. ASSUME NEW t \in Task, NEW bypri \in BOOLEAN, tk_cre_mpf(t, bypri)
      PROVE  Keeps /\ Pooling'
  BY <1>0, <1>3, CreateStep, PoolingCall DEF tk_cre_mpf, At, knl_UnlockOBJ, Idle, Create
<1>4. ASSUME NEW t \in Task, tk_del_mpf(t)
      PROVE  Keeps /\ Pooling'
  BY <1>0, <1>4, DeleteStep, PoolingCall DEF tk_del_mpf, At, knl_UnlockOBJ, Idle, Delete
<1>5. ASSUME NEW t \in Task, TakeBlock(t)
      PROVE  Keeps /\ Pooling'
  BY <1>0, <1>5, DoneStep, PoolingCall DEF TakeBlock, At, knl_UnlockOBJ, Idle
<1>6. ASSUME NEW t \in Task, NoBlock(t)
      PROVE  Keeps /\ Pooling'
  <2>1. Keeps
    BY <1>6, ObjectStep DEF NoBlock, wvars
  <2>2. /\ holder = t /\ holder' = t /\ tstat'[t] = "run" /\ rest' = << >> /\ exists'
        /\ doing' = [doing EXCEPT ![t] = [call |-> "wait", blk |-> doing[t].blk]]
    BY <1>0, <1>6 DEF NoBlock, At, Proceeds, wvars, tcb, gcb
  <2>3. Pooling'
    BY <2>2, PoolingCall
  <2>. QED
    BY <2>1, <2>3
<1>7. ASSUME NEW t \in Task, WaitForBlock(t)
      PROVE  Keeps /\ Pooling'
  <2>1. tstat[t] = "run" /\ exists /\ holder = t /\ MakeWait(t, "wait", None, tpri)
    BY <1>0, <1>7 DEF WaitForBlock, At
  <2>2. Keeps
    BY <2>1, WaitStep
  <2>3. Pooling'
    BY <2>1, <1>7, PoolingCall DEF WaitForBlock, knl_UnlockOBJ, Idle, MakeWait
  <2>. QED
    BY <2>2, <2>3
<1>8. ASSUME NEW t \in Task, HandOver(t)
      PROVE  Keeps /\ Pooling'
  <2>1. /\ holder = t /\ tstat[t] = "run" /\ queue["wait"] # << >> /\ Unlocked
        /\ ReleaseOk(Head(queue["wait"]), "wait", doing[t].blk) /\ UNCHANGED rest
    BY <1>0, <1>8 DEF HandOver, At, Unlocked
  <2>2. Keeps
    BY <2>1, HandStep
  <2>3. tstat'[t] = "run"
    <3>1. Head(queue["wait"]) # t
      BY <2>1, HeadWaits DEF WaitInv, Queued
    <3>. QED
      BY <2>1, <3>1 DEF ReleaseOk, Released, WaitInv, Types
  <2>4. Pooling'
    BY <2>1, <2>3, <1>0, <1>8, PoolingCall DEF HandOver
  <2>. QED
    BY <2>2, <2>4
<1>9. ASSUME NEW t \in Task, NobodyWaits(t)
      PROVE  Keeps /\ Pooling'
  <2>1. Keeps
    BY <1>9, ObjectStep DEF NobodyWaits, wvars
  <2>2. /\ holder = t /\ holder' = t /\ tstat'[t] = "run" /\ rest' = << >> /\ exists'
        /\ doing' = [doing EXCEPT ![t] = [call |-> "put", blk |-> doing[t].blk]]
    BY <1>0, <1>9 DEF NobodyWaits, At, Proceeds, wvars, tcb, gcb
  <2>3. Pooling'
    BY <2>2, PoolingCall
  <2>. QED
    BY <2>1, <2>3
<1>10. ASSUME NEW t \in Task, PutBlock(t)
       PROVE  Keeps /\ Pooling'
  BY <1>0, <1>10, ObjectStep, PoolingCall DEF PutBlock, At, knl_UnlockOBJ, Idle, wvars
<1>11. ASSUME NEW t \in Task, Leave(t)
       PROVE  Keeps /\ Pooling'
  BY <1>0, <1>11, ObjectStep, PoolingCall DEF Leave, At, knl_UnlockOBJ, Idle, wvars
<1>12. ASSUME NEW t \in Task, MpfWithdraw(t)
       PROVE  Keeps /\ Pooling'
  <2>1. Keeps
    BY <1>12, WithdrawStep DEF MpfWithdraw
  <2>2. exists' = exists /\ \A u \in Task : tstat[u] = "run" => tstat'[u] = "run"
    BY <1>12 DEF MpfWithdraw, Withdrawn, Terminated, GiveUp, Released, WaitInv, Types
  <2>. QED
    BY <2>1, <2>2, <1>12, PoolingOther DEF MpfWithdraw
<1>13. ASSUME NEW t \in Task, NEW p \in Pri, MpfReorder(t, p)
       PROVE  Keeps /\ Pooling'
  BY <1>0, <1>13, ReorderStep, PoolingOther DEF MpfReorder, Reordered, mpfvars
<1>14. ASSUME NEW t \in Task, NEW p \in Pri, UNCHANGED mpfvars,
              ChangePriority(t, p, IF tpri THEN {"wait"} ELSE {})
       PROVE  Keeps /\ Pooling'
  BY <1>0, <1>14, ChangeStep, PoolingOther DEF ChangePriority, gcb
<1>15. ASSUME NEW t \in Task, Return(t), UNCHANGED mpfvars
       PROVE  Keeps /\ Pooling'
  <2>1. exists' = exists /\ \A u \in Task : tstat[u] = "run" => tstat'[u] = "run"
    BY <1>15 DEF Return, gcb, WaitInv, Types
  <2>. QED
    BY <2>1, <1>0, <1>15, ReturnStep, PoolingOther DEF Return
<1>. QED
  BY <1>1, <1>2, <1>3, <1>4, <1>5, <1>6, <1>7, <1>8, <1>9, <1>10, <1>11, <1>12, <1>13, <1>14,
     <1>15 DEF MpfNext

-----------------------------------------------------------------------------
\* The inductive invariant.
LEMMA InitIInv == Init => IInv
<1>. SUFFICES ASSUME Init PROVE IInv
  OBVIOUS
<1>1. \A q \in Queue : queue[q] = << >> /\ Range(queue[q]) = {}
  BY DEF Init, InitWait, Range
<1>2. Types
  <2>1. queue \in [Queue -> Seq(Task)] /\ tstat \in [Task -> {"run", "wait", "ready"}]
    BY DEF Init, InitWait
  <2>2. /\ wercd = [t \in Task |-> wercd[t]]
        /\ out = [t \in Task |-> out[t]]
        /\ told = [t \in Task |-> told[t]]
    BY DEF Init, InitWait
  <2>. QED
    BY <2>1, <2>2 DEF Init, InitWait, Types
<1>3. WaitInv
  BY <1>1, <1>2 DEF Init, InitWait, WaitInv, Sorted, OrderedBy, Queued, Waiting, NoObject, Outcome
<1>4. Serving /\ Unused
  BY <1>1 DEF Init, InitWait, Serving, OrderedBy, Range, Unused
<1>5. Pooling
  BY ObjectsAssumption DEF Init, InitWait, MpfInit, Pooling, Idle
<1>. QED
  BY <1>3, <1>4, <1>5 DEF IInv

\* Every step keeps the invariant: one case for each kind of object.
LEMMA NextIInv == IInv /\ [Next]_vars => IInv'
<1>. SUFFICES ASSUME IInv, [Next]_vars PROVE IInv'
  OBVIOUS
<1>1. ObjectInv /\ Pooling
  BY DEF IInv, ObjectInv
<1>2. CASE kind = "sem" /\ SemNext /\ kind' = kind /\ UNCHANGED mpfvars
  BY <1>1, <1>2, SemKeeps, PoolingStays DEF Keeps, IInv
<1>3. CASE kind = "flg" /\ FlgNext /\ kind' = kind /\ UNCHANGED mpfvars
  BY <1>1, <1>3, FlgKeeps, PoolingStays DEF Keeps, IInv
<1>4. CASE kind = "mbx" /\ MbxNext /\ kind' = kind /\ UNCHANGED mpfvars
  BY <1>1, <1>4, MbxKeeps, PoolingStays DEF Keeps, IInv
<1>5. CASE kind = "mbf" /\ MbfNext /\ kind' = kind /\ UNCHANGED mpfvars
  BY <1>1, <1>5, MbfKeeps, PoolingStays DEF Keeps, IInv
<1>6. CASE kind = "mpl" /\ MplNext /\ kind' = kind /\ UNCHANGED mpfvars
  BY <1>1, <1>6, MplKeeps, PoolingStays DEF Keeps, IInv
<1>7. CASE kind = "mpf" /\ MpfNext /\ kind' = kind
  BY <1>1, <1>7, MpfKeeps DEF Keeps, IInv
<1>8. CASE UNCHANGED vars
  <2>1. WaitInv' /\ Serving' /\ Unused'
    BY <1>1, <1>8, ObjectStep DEF vars, wvars, ObjectInv, Keeps
  <2>2. Pooling'
    BY <1>1, <1>8 DEF vars, wvars, tcb, gcb, Pooling, mpfvars
  <2>. QED
    BY <2>1, <2>2 DEF IInv
<1>. QED
  BY <1>2, <1>3, <1>4, <1>5, <1>6, <1>7, <1>8 DEF Next

\* The invariant of the waiting tasks, in every reachable state.
THEOREM WaitInvariant == Spec => []IInv
BY InitIInv, NextIInv, PTL DEF Spec

\* A task that has been released returns what its releaser decided, whichever
\* of service, timeout, forced release and deletion it was.
THEOREM ResultsDelivered == Spec => []ReturnsWhatWasDecided
<1>1. IInv => ReturnsWhatWasDecided
  BY DEF IInv, WaitInv, Outcome, ReturnsWhatWasDecided
<1>. QED
  BY <1>1, WaitInvariant, PTL

\* The wait queues hold the waiting tasks, each once, in the order of their
\* present priorities, and none is left on a deleted object.
THEOREM QueuesKept == Spec => []QueuesInOrder
<1>1. IInv => QueuesInOrder
  <2>. SUFFICES ASSUME IInv PROVE QueuesInOrder
    OBVIOUS
  <2>1. \A t \in Task : tstat[t] = "wait" <=> QueueOf(t) # {}
    BY DEF IInv, WaitInv, Queued, Waiting, QueueOf
  <2>2. \A q \in Queue : \A i, j \in DOMAIN queue[q] : i < j => queue[q][i] # queue[q][j]
    BY DEF IInv, WaitInv, Sorted, OrderedBy
  <2>3. QueuesHoldWaiting
    BY <2>1, <2>2 DEF IInv, WaitInv, NoObject, QueuesHoldWaiting
  <2>4. ASSUME NEW q \in Queue, ByPriority(q) PROVE Ordered(q)
    <3>1. queue[q] \in Seq(Task) /\ OrderedBy(queue[q], Rank(q)) /\ Rank(q) = pri
      BY <2>4 DEF IInv, WaitInv, Types, Sorted, Rank
    <3>. QED
      BY <3>1 DEF OrderedBy, Ordered
  <2>. QED
    BY <2>3, <2>4 DEF QueuesInOrder
<1>. QED
  BY <1>1, WaitInvariant, PTL

-----------------------------------------------------------------------------
(***************************************************************************)
(* What the operations of module WaitQueue do, in terms of the tasks of a  *)
(* queue, its head, and what the tasks ask for.                            *)
(***************************************************************************)
\* knl_queue_insert_tpri(): the place is the one behind all that is as urgent.
LEMMA InsertedPlace ==
    ASSUME NEW S, NEW s \in Seq(S), NEW pr \in [S -> Nat], NEW t \in S
    PROVE  \E k \in 1 .. Len(s) + 1 :
             /\ Inserted(s, pr, t) = InsertAt(s, k, t)
             /\ \A i \in 1 .. Len(s) : i < k => pr[s[i]] <= pr[t]
             /\ k <= Len(s) => pr[s[k]] > pr[t]
<1>. DEFINE later == {i \in 1 .. Len(s) + 1 : i > Len(s) \/ pr[s[i]] > pr[t]}
            place == CHOOSE i \in later : \A j \in later : i <= j
<1>1. later \in SUBSET Nat /\ Len(s) + 1 \in later
  OBVIOUS
<1>2. place \in later /\ \A j \in later : place <= j
  <2>1. \E i \in later : \A j \in later : i <= j
    BY <1>1, NatMin
  <2>. QED
    BY <2>1
<1>3. Inserted(s, pr, t) = InsertAt(s, place, t)
  BY DEF Inserted
<1>4. \A i \in 1 .. Len(s) : s[i] \in S /\ pr[s[i]] \in Nat
  OBVIOUS
<1>5. \A i \in 1 .. Len(s) : i < place => pr[s[i]] <= pr[t]
  <2>. HIDE DEF place
  <2>1. \A i \in later : place <= i
    BY <1>2
  <2>2. \A i \in 1 .. Len(s) : i \notin later => pr[s[i]] <= pr[t]
    BY <1>4
  <2>3. place \in Nat
    BY <1>1, <1>2
  <2>. HIDE DEF later
  <2>. QED
    BY <2>1, <2>2, <2>3
<1>6. place \in 1 .. Len(s) + 1 /\ (place <= Len(s) => pr[s[place]] > pr[t])
  <2>. HIDE DEF place
  <2>. QED
    BY <1>2
<1>. QED
  BY <1>3, <1>5, <1>6

\* The head of the queue after that.
LEMMA InsertedHead ==
    ASSUME NEW S, NEW s \in Seq(S), NEW pr \in [S -> Nat], NEW t \in S
    PROVE  /\ Inserted(s, pr, t) # << >>
           /\ Head(Inserted(s, pr, t)) = t \/ (s # << >> /\ Head(Inserted(s, pr, t)) = Head(s))
           /\ s # << >> /\ ~(pr[t] < pr[Head(s)]) => Head(Inserted(s, pr, t)) = Head(s)
<1>1. PICK k \in 1 .. Len(s) + 1 :
             /\ Inserted(s, pr, t) = InsertAt(s, k, t)
             /\ k <= Len(s) => pr[s[k]] > pr[t]
  BY InsertedPlace
<1>2. CASE k = Len(s) + 1
  <2>1. Inserted(s, pr, t) = Append(s, t)
    BY <1>1, <1>2, InsertedAtEnd
  <2>. QED
    BY <2>1
<1>3. CASE k \in 1 .. Len(s)
  <2>1. /\ InsertAt(s, k, t) \in Seq(S) /\ Len(InsertAt(s, k, t)) = Len(s) + 1
        /\ InsertAt(s, k, t)[1] = IF 1 < k THEN s[1] ELSE t
    <3>1. /\ InsertAt(s, k, t) \in Seq(S)
          /\ Len(InsertAt(s, k, t)) = Len(s) + 1
          /\ \A i \in 1 .. Len(s) + 1 :
               InsertAt(s, k, t)[i] = IF i < k THEN s[i] ELSE IF i = k THEN t ELSE s[i - 1]
      BY <1>3, InsertedAt
    <3>2. 1 \in 1 .. Len(s) + 1 /\ (~(1 < k) => 1 = k)
      BY <1>3
    <3>. QED
      BY <3>1, <3>2
  <2>2. s # << >> /\ Head(s) = s[1]
    BY <1>3
  <2>3. Inserted(s, pr, t) # << >> /\ Head(Inserted(s, pr, t)) = IF 1 < k THEN s[1] ELSE t
    BY <1>1, <2>1
  <2>4. ~(pr[t] < pr[s[1]]) => 1 < k
    BY <1>1, <1>3, <2>2
  <2>. QED
    BY <2>2, <2>3, <2>4
<1>. QED
  BY <1>2, <1>3

\* QueRemove() of the head.
LEMMA UnlinkedHead ==
    ASSUME NEW S, NEW s \in Seq(S), NEW pr, OrderedBy(s, pr), s # << >>
    PROVE  Unlinked(s, Head(s)) = Tail(s)
<1>1. Len(s) \in Nat \ {0} /\ DOMAIN s = 1 .. Len(s) /\ Head(s) = s[1] /\ Head(s) \in Range(s)
  BY TailKeeps
<1>2. \A i \in DOMAIN s : s[i] = Head(s) => i = 1
  BY <1>1 DEF OrderedBy
<1>3. (CHOOSE i \in DOMAIN s : s[i] = Head(s)) = 1
  BY <1>1, <1>2
<1>4. Unlinked(s, Head(s)) = RemoveAt(s, 1)
  BY <1>1, <1>3 DEF Unlinked
<1>5. RemoveAt(s, 1) = SubSeq(s, 1, 0) \o SubSeq(s, 2, Len(s))
  BY DEF RemoveAt
<1>6. SubSeq(s, 1, 0) = << >> /\ SubSeq(s, 2, Len(s)) = Tail(s)
  BY <1>1
<1>. QED
  BY <1>1, <1>4, <1>5, <1>6

\* Who waits in a queue is a task.
LEMMA QueueOfTasks ==
    ASSUME WaitInv, NEW q \in Queue
    PROVE  \A t \in Range(queue[q]) : t \in Task
BY InRange DEF WaitInv, Types

\* A task begins to wait.
LEMMA MakeWaitDoes ==
    ASSUME WaitInv, NEW t \in Task, NEW q \in Queue, NEW info, NEW bypri,
           bypri <=> ByPriority(q), tstat[t] = "run", MakeWait(t, q, info, bypri)
    PROVE  /\ Range(queue'[q]) = Range(queue[q]) \cup {t} /\ t \notin Range(queue[q])
           /\ \A r \in Queue \ {q} : queue'[r] = queue[r]
           /\ winfo'[t] = info /\ \A u \in Task \ {t} : winfo'[u] = winfo[u]
           /\ queue'[q] # << >>
           /\ \/ Head(queue'[q]) = t /\ (bypri = tpri => IsTop(q, t))
              \/ queue[q] # << >> /\ Head(queue'[q]) = Head(queue[q])
<1>1. t \notin Range(queue[q])
  BY DEF WaitInv, Queued
<1>2. /\ queue[q] \in Seq(Task) /\ OrderedBy(queue[q], Rank(q)) /\ pri \in [Task -> Nat]
      /\ queue \in [Queue -> Seq(Task)] /\ winfo = [u \in Task |-> winfo[u]]
  BY WaitAssumption DEF WaitInv, Types, Sorted
<1>3. queue'[q] = IF bypri THEN Inserted(queue[q], pri, t) ELSE Append(queue[q], t)
  BY <1>2 DEF MakeWait
<1>4. /\ \A r \in Queue \ {q} : queue'[r] = queue[r]
      /\ winfo'[t] = info /\ \A u \in Task \ {t} : winfo'[u] = winfo[u]
  BY <1>2 DEF MakeWait
<1>5. CASE bypri
  <2>1. Rank(q) = pri
    BY <1>2, <1>5 DEF Rank
  <2>2. Range(queue'[q]) = Range(queue[q]) \cup {t}
    <3>1. /\ Inserted(queue[q], pri, t) \in Seq(Task)
          /\ Range(Inserted(queue[q], pri, t)) = Range(queue[q]) \cup {t}
          /\ OrderedBy(Inserted(queue[q], pri, t), pri)
      BY <1>1, <1>2, <2>1, InsertedKeeps
    <3>. QED
      BY <3>1, <1>3, <1>5
  <2>3. /\ queue'[q] # << >>
        /\ Head(queue'[q]) = t \/ (queue[q] # << >> /\ Head(queue'[q]) = Head(queue[q]))
        /\ queue[q] # << >> /\ ~(pri[t] < pri[Head(queue[q])]) => Head(queue'[q]) = Head(queue[q])
    <3>1. /\ Inserted(queue[q], pri, t) # << >>
          /\ \/ Head(Inserted(queue[q], pri, t)) = t
             \/ queue[q] # << >> /\ Head(Inserted(queue[q], pri, t)) = Head(queue[q])
          /\ queue[q] # << >> /\ ~(pri[t] < pri[Head(queue[q])])
               => Head(Inserted(queue[q], pri, t)) = Head(queue[q])
      BY <1>2, InsertedHead
    <3>. QED
      BY <3>1, <1>3, <1>5
  <2>4. tpri
    BY <1>5 DEF ByPriority
  <2>. QED
    BY <1>1, <1>4, <2>2, <2>3, <2>4 DEF IsTop
<1>6. CASE ~bypri
  <2>1. \A x \in Task : Rank(q)[x] <= Rank(q)[t]
    BY <1>6 DEF Rank
  <2>2. Rank(q) \in [Task -> Nat] /\ t \in Task \ Range(queue[q])
    BY <1>1, <1>2 DEF Rank
  <2>3. /\ Append(queue[q], t) \in Seq(Task)
        /\ Range(Append(queue[q], t)) = Range(queue[q]) \cup {t}
        /\ OrderedBy(Append(queue[q], t), Rank(q))
    BY <2>1, <2>2, <1>2, AppendKeeps
  <2>4. /\ Append(queue[q], t) # << >>
        /\ Head(Append(queue[q], t)) = IF queue[q] = << >> THEN t ELSE Head(queue[q])
    <3>1. ASSUME NEW s \in Seq(Task)
          PROVE  Append(s, t) # << >> /\ Head(Append(s, t)) = IF s = << >> THEN t ELSE Head(s)
      <4>1. Append(s, t) \in Seq(Task) /\ Len(Append(s, t)) = Len(s) + 1 /\ Len(s) \in Nat
        OBVIOUS
      <4>2. Head(Append(s, t)) = Append(s, t)[1]
        BY <4>1
      <4>3. CASE s = << >>
        BY <4>3
      <4>4. CASE s # << >>
        BY <4>1, <4>2, <4>4
      <4>. QED
        BY <4>3, <4>4
    <3>. QED
      BY <1>2, <3>1
  <2>5. queue'[q] = Append(queue[q], t)
    BY <1>3, <1>6
  <2>. QED
    BY <1>1, <1>4, <2>3, <2>4, <2>5 DEF IsTop
<1>. QED
  BY <1>5, <1>6

\* A task is released with what it waited for.
LEMMA ReleaseOkDoes ==
    ASSUME WaitInv, NEW q \in Queue, NEW t \in Range(queue[q]), NEW data, ReleaseOk(t, q, data)
    PROVE  /\ t \in Task
           /\ Range(queue'[q]) = Range(queue[q]) \ {t}
           /\ \A r \in Queue \ {q} : queue'[r] = queue[r]
           /\ t = Head(queue[q]) => queue'[q] = Tail(queue[q])
           /\ \A u \in Task \ {t} : winfo'[u] = winfo[u]
           /\ exists' = exists
<1>1. t \in Task /\ queue[q] \in Seq(Task) /\ OrderedBy(queue[q], Rank(q)) /\ queue[q] # << >>
  <2>1. queue[q] \in Seq(Task) /\ OrderedBy(queue[q], Rank(q))
    BY DEF WaitInv, Types, Sorted
  <2>2. t \in Task /\ queue[q] # << >>
    BY <2>1, InRange DEF Range
  <2>. QED
    BY <2>1, <2>2
<1>2. /\ Unlinked(queue[q], t) \in Seq(Task)
      /\ Range(Unlinked(queue[q], t)) = Range(queue[q]) \ {t}
      /\ OrderedBy(Unlinked(queue[q], t), Rank(q))
  BY <1>1, UnlinkedKeeps
<1>3. Unlinked(queue[q], Head(queue[q])) = Tail(queue[q])
  BY <1>1, UnlinkedHead
<1>4. queue' = [queue EXCEPT ![q] = Unlinked(queue[q], t)] /\ queue \in [Queue -> Seq(Task)]
  BY DEF ReleaseOk, WaitInv, Types
<1>5. queue'[q] = Unlinked(queue[q], t) /\ \A r \in Queue \ {q} : queue'[r] = queue[r]
  BY <1>4
<1>6. (\A u \in Task \ {t} : winfo'[u] = winfo[u]) /\ exists' = exists
  BY DEF ReleaseOk, Released, WaitInv, Types
<1>. QED
  BY <1>1, <1>2, <1>3, <1>5, <1>6

\* A task gives up its place.
LEMMA WithdrawnDoes ==
    ASSUME WaitInv, NEW q \in Queue, NEW t \in Task, Withdrawn(t, q)
    PROVE  /\ t \in Range(queue[q]) /\ rest = << >>
           /\ Range(queue'[q]) = Range(queue[q]) \ {t}
           /\ \A r \in Queue \ {q} : queue'[r] = queue[r]
           /\ \A u \in Task \ {t} : winfo'[u] = winfo[u]
           /\ exists' = exists
<1>1. /\ queue[q] \in Seq(Task) /\ OrderedBy(queue[q], Rank(q))
      /\ queue \in [Queue -> Seq(Task)] /\ winfo = [u \in Task |-> winfo[u]]
  BY DEF WaitInv, Types, Sorted
<1>2. /\ Unlinked(queue[q], t) \in Seq(Task)
      /\ Range(Unlinked(queue[q], t)) = Range(queue[q]) \ {t}
      /\ OrderedBy(Unlinked(queue[q], t), Rank(q))
  BY <1>1, UnlinkedKeeps
<1>3. /\ t \in Range(queue[q]) /\ rest = << >> /\ exists' = exists
      /\ queue' = [queue EXCEPT ![q] = Unlinked(queue[q], t)]
      /\ winfo' = [winfo EXCEPT ![t] = None]
  BY DEF Withdrawn, Terminated, GiveUp, Released, Unlocked
<1>. QED
  BY <1>1, <1>2, <1>3

\* The priority of a waiting task changes.
LEMMA ReorderedDoes ==
    ASSUME WaitInv, NEW q \in Queue, NEW t \in Task, NEW p \in Pri, ByPriority(q),
           Reordered(t, q, p)
    PROVE  /\ rest = << >> /\ winfo' = winfo /\ exists' = exists
           /\ \A r \in Queue : Range(queue'[r]) = Range(queue[r])
           /\ \A r \in Queue \ {q} : queue'[r] = queue[r]
<1>1. /\ queue[q] \in Seq(Task) /\ OrderedBy(queue[q], pri) /\ t \in Range(queue[q])
      /\ pri \in [Task -> Nat] /\ p \in Nat /\ queue \in [Queue -> Seq(Task)]
  <2>1. Rank(q) = pri
    BY DEF WaitInv, Types, Rank
  <2>. QED
    BY <2>1, WaitAssumption DEF WaitInv, Types, Sorted, Reordered
<1>2. PICK moved : moved = Unlinked(queue[q], t)
  OBVIOUS
<1>3. moved \in Seq(Task) /\ Range(moved) = Range(queue[q]) \ {t} /\ OrderedBy(moved, pri)
  BY <1>1, <1>2, UnlinkedKeeps
<1>4. pri' \in [Task -> Nat] /\ \A u \in Task \ {t} : pri'[u] = pri[u]
  BY <1>1 DEF Reordered
<1>5. OrderedBy(moved, pri') /\ t \in Task \ Range(moved)
  <2>1. \A u \in Range(queue[q]) : u \in Task
    BY <1>1, InRange
  <2>2. \A u \in Range(moved) : pri[u] = pri'[u]
    BY <2>1, <1>3, <1>4
  <2>. QED
    BY <2>2, <1>3, OrderedByItsTasks
<1>6. /\ Inserted(moved, pri', t) \in Seq(Task)
      /\ Range(Inserted(moved, pri', t)) = Range(moved) \cup {t}
      /\ OrderedBy(Inserted(moved, pri', t), pri')
  BY <1>3, <1>4, <1>5, InsertedKeeps
<1>7. queue' = [queue EXCEPT ![q] = Inserted(moved, pri', t)]
  BY <1>2 DEF Reordered
<1>8. queue'[q] = Inserted(moved, pri', t) /\ \A r \in Queue \ {q} : queue'[r] = queue[r]
  BY <1>1, <1>7
<1>9. rest = << >> /\ winfo' = winfo /\ exists' = exists
  BY DEF Reordered, Unlocked
<1>. QED
  BY <1>1, <1>3, <1>6, <1>8, <1>9

\* Nobody waits for an object that is created or has been deleted.
LEMMA CreateDoes ==
    ASSUME WaitInv, NEW bypri, Create(bypri)
    PROVE  /\ rest' = << >> /\ ~exists /\ exists' /\ winfo' = winfo
           /\ \A q \in Queue : queue[q] = << >> /\ queue'[q] = << >> /\ Range(queue'[q]) = {}
BY DEF WaitInv, NoObject, Create, Unlocked, tcb, Range

\* A deleted object: nobody waits.
LEMMA DeleteDoes ==
    ASSUME Delete
    PROVE  /\ rest' = << >> /\ ~exists'
           /\ \A q \in Queue : queue'[q] = << >> /\ Range(queue'[q]) = {}
BY DEF Delete, Unlocked, Range

-----------------------------------------------------------------------------
(***************************************************************************)
(* Semaphores.                                                             *)
(***************************************************************************)
\* Who waits needs counts, no more than there can be.  With TA_CNT whoever the
\* loop does not look at any more has not enough counts; without, the loop has
\* the whole queue before it, or is over because the first has not enough.
SemInv ==
    /\ cnt \in BOOLEAN /\ maxsem \in 1 .. MaxSem /\ semcnt \in 0 .. maxsem
    /\ \A t \in Range(queue["wait"]) : winfo[t] \in 1 .. maxsem
    /\ cnt => \A t \in Range(queue["wait"]) \ Range(rest) : semcnt < winfo[t]
    /\ ~cnt => /\ rest # << >> => rest = queue["wait"]
               /\ rest = << >> /\ queue["wait"] # << >> => semcnt < winfo[Head(queue["wait"])]

\* Every call on a semaphore, every turn of a loop and every release.
LEMMA SemStep ==
    ASSUME ObjectInv, kind = "sem", kind' = kind, SemInv, SemNext
    PROVE  SemInv'
<1>. USE SemAssumption DEF ObjectInv
<1>0. /\ Served = "wait" /\ "wait" \in Used /\ "wait" \in Queue /\ (tpri <=> ByPriority("wait"))
      /\ Range(<< >>) = {}
  BY OneQueue DEF Range
<1>1. ASSUME NEW bypri \in BOOLEAN, NEW bycnt \in BOOLEAN, NEW n \in 0 .. MaxSem,
             NEW m \in 1 .. MaxSem, tk_cre_sem(bypri, bycnt, n, m)
      PROVE  SemInv'
  BY <1>0, <1>1, CreateDoes DEF tk_cre_sem, SemInv
<1>2. CASE tk_del_sem
  BY <1>0, <1>2, DeleteDoes DEF tk_del_sem, semvars, SemInv
<1>3. ASSUME NEW n \in 1 .. MaxSem, tk_sig_sem(n)
      PROVE  SemInv'
  BY <1>0, <1>3 DEF tk_sig_sem, SemInv, Unlocked, gcb, tcb
<1>4. CASE Serve
  <2>0. PICK t : t = Head(rest)
    OBVIOUS
  <2>1. /\ rest # << >> /\ t \in Task /\ t \in Range(queue["wait"])
        /\ Range(Tail(rest)) = Range(rest) \ {t}
        /\ ~cnt => t = Head(queue["wait"])
        /\ cnt' = cnt /\ maxsem' = maxsem
    BY <1>0, <1>4, <2>0, NextServed, TailKeeps DEF Serve, Serving, SemInv
  <2>2. CASE /\ semcnt < winfo[t]
             /\ rest' = IF cnt THEN Tail(rest) ELSE << >>
             /\ UNCHANGED <<gcb, tcb, semcnt>>
    BY <1>0, <2>1, <2>2 DEF SemInv, gcb, tcb
  <2>3. CASE /\ semcnt >= winfo[t]
             /\ ReleaseOk(t, "wait", None)
             /\ semcnt' = semcnt - winfo[t]
             /\ rest' = IF semcnt' <= 0 THEN << >> ELSE Tail(rest)
    <3>1. /\ Range(queue'["wait"]) = Range(queue["wait"]) \ {t}
          /\ t = Head(queue["wait"]) => queue'["wait"] = Tail(queue["wait"])
          /\ \A u \in Task \ {t} : winfo'[u] = winfo[u]
      BY <1>0, <2>1, <2>3, ReleaseOkDoes
    <3>2. \A u \in Range(queue["wait"]) : u \in Task
      BY <1>0, QueueOfTasks
    <3>3. /\ semcnt' \in 0 .. maxsem /\ semcnt' <= semcnt
          /\ \A u \in Range(queue'["wait"]) : winfo'[u] \in 1 .. maxsem /\ winfo'[u] = winfo[u]
      BY <2>1, <2>3, <3>1, <3>2 DEF SemInv
    <3>4. queue'["wait"] # << >> => Head(queue'["wait"]) \in Range(queue'["wait"])
      <4>1. queue'["wait"] \in Seq(Task)
        BY <1>0, <2>1, <2>3, ReleaseOkKeeps DEF WaitInv, Types
      <4>. QED
        BY <4>1 DEF Range
    <3>5. CASE semcnt' <= 0
      BY <1>0, <2>1, <2>3, <3>3, <3>4, <3>5 DEF SemInv
    <3>6. CASE ~(semcnt' <= 0)
      <4>1. rest' = Tail(rest)
        BY <2>3, <3>6
      <4>2. cnt => \A u \in Range(queue'["wait"]) \ Range(rest') : semcnt' < winfo'[u]
        <5>1. \A u \in Range(queue'["wait"]) \ Range(rest') : u \in Range(queue["wait"]) \ Range(rest)
          BY <2>1, <3>1, <4>1
        <5>. QED
          BY <3>3, <5>1 DEF SemInv
      <4>3. ~cnt => rest' = queue'["wait"]
        BY <2>1, <3>1, <4>1 DEF SemInv
      <4>. QED
        BY <2>1, <3>3, <4>2, <4>3 DEF SemInv
    <3>. QED
      BY <3>5, <3>6
  <2>. QED
    BY <1>4, <2>0, <2>2, <2>3 DEF Serve
<1>5. ASSUME NEW t \in Task, NEW n \in 1 .. MaxSem, tk_wai_sem(t, n)
      PROVE  SemInv'
  <2>1. /\ tstat[t] = "run" /\ exists /\ rest = << >> /\ n <= maxsem
        /\ cnt' = cnt /\ maxsem' = maxsem
    BY <1>5 DEF tk_wai_sem, Calls, Unlocked
  <2>2. CASE semcnt >= n /\ semcnt' = semcnt - n /\ Completes(t, None) /\ UNCHANGED rest
    <3>1. queue["wait"] # << >> => Head(queue["wait"]) \in Range(queue["wait"])
      BY <1>0, HeadWaits
    <3>. QED
      BY <2>1, <2>2, <3>1 DEF Completes, gcb, SemInv
  <2>3. CASE /\ ~((cnt \/ IsTop("wait", t)) /\ semcnt >= n)
             /\ MakeWait(t, "wait", n, tpri) /\ semcnt' = semcnt
    <3>1. /\ Range(queue'["wait"]) = Range(queue["wait"]) \cup {t} /\ t \notin Range(queue["wait"])
          /\ winfo'[t] = n /\ \A u \in Task \ {t} : winfo'[u] = winfo[u]
          /\ queue'["wait"] # << >>
          /\ \/ Head(queue'["wait"]) = t /\ IsTop("wait", t)
             \/ queue["wait"] # << >> /\ Head(queue'["wait"]) = Head(queue["wait"])
      BY <1>0, <2>1, <2>3, MakeWaitDoes
    <3>2. queue["wait"] # << >> => Head(queue["wait"]) \in Range(queue["wait"])
      BY <1>0, HeadWaits
    <3>3. \A u \in Range(queue["wait"]) : u \in Task /\ winfo'[u] = winfo[u]
      BY <1>0, <3>1, QueueOfTasks
    <3>4. rest' = << >>
      BY <2>3 DEF MakeWait
    <3>. QED
      BY <1>0, <2>1, <2>3, <3>1, <3>2, <3>3, <3>4 DEF SemInv
  <2>. QED
    BY <1>5, <2>2, <2>3 DEF tk_wai_sem
<1>6. ASSUME NEW t \in Task, SemWithdraw(t)
      PROVE  SemInv'
  <2>1. /\ rest = << >> /\ Range(queue'["wait"]) = Range(queue["wait"]) \ {t}
        /\ \A u \in Task \ {t} : winfo'[u] = winfo[u]
    BY <1>0, <1>6, WithdrawnDoes DEF SemWithdraw
  <2>2. \A u \in Range(queue'["wait"]) : u \in Range(queue["wait"]) /\ winfo'[u] = winfo[u]
    BY <1>0, <2>1, QueueOfTasks
  <2>. QED
    BY <1>0, <1>6, <2>1, <2>2 DEF SemInv, SemWithdraw, sem_rel_wai, semvars
<1>7. ASSUME NEW t \in Task, NEW p \in Pri, SemReorder(t, p)
      PROVE  SemInv'
  <2>1. rest = << >> /\ winfo' = winfo /\ Range(queue'["wait"]) = Range(queue["wait"])
    BY <1>0, <1>7, ReorderedDoes DEF SemReorder
  <2>. QED
    BY <1>0, <1>7, <2>1 DEF SemInv, SemReorder, semvars
<1>8. ASSUME NEW t \in Task, NEW p \in Pri, UNCHANGED semvars,
             ChangePriority(t, p, IF tpri THEN {"wait"} ELSE {})
      PROVE  SemInv'
  BY <1>8 DEF SemInv, ChangePriority, gcb, semvars
<1>9. ASSUME NEW t \in Task, Return(t), UNCHANGED semvars
      PROVE  SemInv'
  BY <1>9 DEF SemInv, Return, gcb, semvars
<1>. QED
  BY <1>1, <1>2, <1>3, <1>4, <1>5, <1>6, <1>7, <1>8, <1>9 DEF SemNext

-----------------------------------------------------------------------------
(***************************************************************************)
(* Event flags.                                                            *)
(***************************************************************************)
\* Who waits, waits for some bits, and for bits that are not there unless the
\* loop has still to look at it; without TA_WMUL one task waits at most.
FlgInv ==
    /\ flgptn \subseteq Bit
    /\ \A t \in Range(queue["wait"]) : winfo[t].waiptn \in Patterns /\ winfo[t].mode \in Mode
    /\ \A t \in Range(queue["wait"]) \ Range(rest) :
         ~knl_eventflag_cond(winfo[t].waiptn, winfo[t].mode)
    /\ exists /\ ~wmul => \A t, u \in Range(queue["wait"]) : t = u

\* Fewer bits satisfy nobody.
LEMMA FewerBits ==
    ASSUME FlgInv, flgptn' \subseteq flgptn, wmul' = wmul, exists' => exists,
           Range(queue'["wait"]) \subseteq Range(queue["wait"]),
           \A t \in Range(queue'["wait"]) : winfo'[t] = winfo[t],
           \A t \in Range(queue'["wait"]) \ Range(rest') : t \notin Range(rest)
    PROVE  FlgInv'
<1>1. ASSUME NEW t \in Range(queue'["wait"]) \ Range(rest')
      PROVE  ~knl_eventflag_cond(winfo[t].waiptn, winfo[t].mode)'
  <2>1. ~knl_eventflag_cond(winfo[t].waiptn, winfo[t].mode) /\ winfo'[t] = winfo[t]
    BY DEF FlgInv
  <2>. QED
    BY <2>1 DEF knl_eventflag_cond
<1>. QED
  BY <1>1 DEF FlgInv

\* Without a bit nobody is satisfied.
LEMMA NoBits ==
    ASSUME FlgInv, flgptn' = {}, wmul' = wmul, exists' => exists,
           Range(queue'["wait"]) \subseteq Range(queue["wait"]),
           \A t \in Range(queue'["wait"]) : winfo'[t] = winfo[t]
    PROVE  FlgInv'
<1>1. ASSUME NEW t \in Range(queue'["wait"])
      PROVE  ~knl_eventflag_cond(winfo[t].waiptn, winfo[t].mode)'
  <2>1. winfo[t].waiptn # {} /\ winfo'[t] = winfo[t]
    BY DEF FlgInv, Patterns
  <2>. QED
    BY <2>1 DEF knl_eventflag_cond
<1>. QED
  BY <1>1 DEF FlgInv

\* Every call on an event flag, every turn of the loop and every release.
LEMMA FlgStep ==
    ASSUME ObjectInv, kind = "flg", kind' = kind, FlgInv, FlgNext
    PROVE  FlgInv'
<1>. USE DEF ObjectInv
<1>0. /\ Served = "wait" /\ "wait" \in Used /\ "wait" \in Queue /\ (tpri <=> ByPriority("wait"))
      /\ Range(<< >>) = {}
  BY OneQueue DEF Range
<1>1. ASSUME NEW bypri \in BOOLEAN, NEW multi \in BOOLEAN, NEW ptn \in {{}, Bit},
             tk_cre_flg(bypri, multi, ptn)
      PROVE  FlgInv'
  <2>1. flgptn' \subseteq Bit /\ Range(queue'["wait"]) = {}
    BY <1>0, <1>1, CreateDoes DEF tk_cre_flg
  <2>. QED
    BY <2>1 DEF FlgInv
<1>2. CASE tk_del_flg
  <2>1. flgptn' = flgptn /\ Range(queue'["wait"]) = {}
    BY <1>0, <1>2, DeleteDoes DEF tk_del_flg, flgvars
  <2>. QED
    BY <2>1 DEF FlgInv
<1>3. ASSUME NEW ptn \in Patterns, tk_set_flg(ptn)
      PROVE  FlgInv'
  BY <1>3 DEF tk_set_flg, FlgInv, gcb, tcb, Patterns
<1>4. ASSUME NEW ptn, tk_clr_flg(ptn)
      PROVE  FlgInv'
  <2>1. flgptn' \subseteq flgptn /\ UNCHANGED <<wmul, exists, queue, winfo, rest>>
    BY <1>4 DEF tk_clr_flg, wvars, gcb, tcb
  <2>. QED
    BY <2>1, FewerBits
<1>5. CASE SetServe
  <2>0. PICK t : t = Head(rest)
    OBVIOUS
  <2>1. /\ rest # << >> /\ t \in Task /\ t \in Range(queue["wait"])
        /\ Range(Tail(rest)) = Range(rest) \ {t} /\ wmul' = wmul
    BY <1>0, <1>5, <2>0, NextServed, TailKeeps DEF SetServe, Serving
  <2>2. CASE /\ ~knl_eventflag_cond(winfo[t].waiptn, winfo[t].mode)
             /\ rest' = Tail(rest)
             /\ UNCHANGED <<gcb, tcb, flgptn>>
    BY <2>1, <2>2 DEF FlgInv, gcb, tcb, knl_eventflag_cond
  <2>3. CASE /\ ReleaseOk(t, "wait", flgptn)
             /\ flgptn' = Cleared(winfo[t].waiptn, winfo[t].mode)
             /\ rest' = IF winfo[t].mode.clr = "all" \/ (winfo[t].mode.clr = "bits" /\ flgptn' = {})
                        THEN << >> ELSE Tail(rest)
    <3>1. /\ Range(queue'["wait"]) = Range(queue["wait"]) \ {t}
          /\ \A u \in Task \ {t} : winfo'[u] = winfo[u]
          /\ exists' = exists
      BY <1>0, <2>1, <2>3, ReleaseOkDoes
    <3>2. \A u \in Range(queue'["wait"]) : u \in Range(queue["wait"]) /\ winfo'[u] = winfo[u]
      BY <1>0, <3>1, QueueOfTasks
    <3>3. /\ winfo[t].mode.clr \in {"none", "bits", "all"}
          /\ flgptn' \subseteq flgptn
          /\ winfo[t].mode.clr = "all" => flgptn' = {}
      <4>1. winfo[t].mode.clr \in {"none", "bits", "all"}
        BY <2>1, ObjectsAssumption DEF FlgInv
      <4>. QED
        BY <2>3, <4>1 DEF Cleared
    <3>4. CASE flgptn' = {}
      BY <2>1, <3>1, <3>2, <3>4, NoBits
    <3>5. CASE rest' = Tail(rest)
      <4>1. \A u \in Range(queue'["wait"]) \ Range(rest') : u \notin Range(rest)
        BY <2>1, <3>1, <3>5
      <4>. QED
        BY <2>1, <3>1, <3>2, <3>3, <4>1, FewerBits
    <3>. QED
      BY <2>3, <3>3, <3>4, <3>5
  <2>. QED
    BY <1>5, <2>0, <2>2, <2>3 DEF SetServe
<1>6. ASSUME NEW t \in Task, NEW ptn \in Patterns, NEW mode \in Mode, tk_wai_flg(t, ptn, mode)
      PROVE  FlgInv'
  <2>1. /\ tstat[t] = "run" /\ exists /\ rest = << >> /\ wmul' = wmul
        /\ wmul \/ queue["wait"] = << >>
    BY <1>6 DEF tk_wai_flg, Calls, Unlocked
  <2>2. CASE flgptn' = Cleared(ptn, mode) /\ Completes(t, flgptn) /\ UNCHANGED rest
    <3>1. flgptn' \subseteq flgptn
      <4>1. mode.clr \in {"none", "bits", "all"}
        BY ObjectsAssumption
      <4>. QED
        BY <2>2, <4>1 DEF Cleared
    <3>2. UNCHANGED <<exists, queue, winfo, rest>>
      BY <2>2 DEF Completes, gcb
    <3>. QED
      BY <2>1, <3>1, <3>2, FewerBits
  <2>3. CASE /\ ~knl_eventflag_cond(ptn, mode)
             /\ MakeWait(t, "wait", [waiptn |-> ptn, mode |-> mode], tpri)
             /\ flgptn' = flgptn
    <3>1. /\ Range(queue'["wait"]) = Range(queue["wait"]) \cup {t} /\ t \notin Range(queue["wait"])
          /\ winfo'[t] = [waiptn |-> ptn, mode |-> mode]
          /\ \A u \in Task \ {t} : winfo'[u] = winfo[u]
      BY <1>0, <2>1, <2>3, MakeWaitDoes
    <3>2. \A u \in Range(queue["wait"]) : u \in Task /\ winfo'[u] = winfo[u]
      BY <1>0, <3>1, QueueOfTasks
    <3>3. rest' = << >>
      BY <2>3 DEF MakeWait
    <3>4. winfo'[t].waiptn = ptn /\ winfo'[t].mode = mode
      BY <3>1
    <3>5. \A u \in Range(queue'["wait"]) : ~knl_eventflag_cond(winfo'[u].waiptn, winfo'[u].mode)
      BY <1>0, <2>1, <2>3, <3>1, <3>2, <3>4 DEF FlgInv
    <3>6. \A u \in Range(queue'["wait"]) : ~knl_eventflag_cond(winfo[u].waiptn, winfo[u].mode)'
      BY <2>3, <3>5 DEF knl_eventflag_cond
    <3>7. \A u \in Range(queue'["wait"]) : winfo'[u].waiptn \in Patterns /\ winfo'[u].mode \in Mode
      BY <3>1, <3>2, <3>4 DEF FlgInv
    <3>8. ~wmul' => \A u, v \in Range(queue'["wait"]) : u = v
      BY <1>0, <2>1, <3>1
    <3>. QED
      BY <2>3, <3>6, <3>7, <3>8 DEF FlgInv
  <2>. QED
    BY <1>6, <2>2, <2>3 DEF tk_wai_flg
<1>7. ASSUME NEW t \in Task, FlgWithdraw(t)
      PROVE  FlgInv'
  <2>1. /\ rest = << >> /\ Range(queue'["wait"]) = Range(queue["wait"]) \ {t}
        /\ \A u \in Task \ {t} : winfo'[u] = winfo[u]
        /\ exists' = exists
    BY <1>0, <1>7, WithdrawnDoes DEF FlgWithdraw
  <2>2. \A u \in Range(queue'["wait"]) : u \in Range(queue["wait"]) /\ winfo'[u] = winfo[u]
    BY <1>0, <2>1, QueueOfTasks
  <2>. QED
    BY <1>0, <1>7, <2>1, <2>2, FewerBits DEF FlgWithdraw, flgvars
<1>8. ASSUME NEW t \in Task, NEW p \in Pri, FlgReorder(t, p)
      PROVE  FlgInv'
  <2>1. rest = << >> /\ winfo' = winfo /\ Range(queue'["wait"]) = Range(queue["wait"]) /\ exists' = exists
    BY <1>0, <1>8, ReorderedDoes DEF FlgReorder
  <2>. QED
    BY <1>0, <1>8, <2>1, FewerBits DEF FlgReorder, flgvars
<1>9. ASSUME NEW t \in Task, NEW p \in Pri, UNCHANGED flgvars,
             ChangePriority(t, p, IF tpri THEN {"wait"} ELSE {})
      PROVE  FlgInv'
  BY <1>9, FewerBits DEF ChangePriority, gcb, flgvars
<1>10. ASSUME NEW t \in Task, Return(t), UNCHANGED flgvars
       PROVE  FlgInv'
  BY <1>10, FewerBits DEF Return, gcb, flgvars
<1>. QED
  BY <1>1, <1>2, <1>3, <1>4, <1>5, <1>6, <1>7, <1>8, <1>9, <1>10 DEF FlgNext

-----------------------------------------------------------------------------
(***************************************************************************)
(* Mailboxes.                                                              *)
(***************************************************************************)
\* What the messages of the queue are sorted by.
MailRank == [m \in Mail |-> IF mpri THEN MsgPri[m] ELSE 0]

\* A message is in the queue or with the program; the queue is empty while a
\* task waits, or while there is no mailbox.
MbxInv ==
    /\ mq \in Seq(Mail) /\ mine \subseteq Mail
    /\ OrderedBy(mq, MailRank)
    /\ Range(mq) \cap mine = {} /\ Range(mq) \cup mine = Mail
    /\ queue["wait"] # << >> => mq = << >>
    /\ ~exists => mq = << >>

\* The messages stay where they are.
LEMMA MailStays ==
    ASSUME MbxInv, UNCHANGED mbxvars, exists' = exists,
           queue'["wait"] # << >> => queue["wait"] # << >>
    PROVE  MbxInv'
BY DEF MbxInv, MailRank, mbxvars

\* A message goes into the queue.
LEMMA MailSent ==
    ASSUME MbxInv, NEW m \in mine,
           mq' = IF mpri THEN Inserted(mq, MsgPri, m) ELSE Append(mq, m)
    PROVE  /\ mq' \in Seq(Mail) /\ Range(mq') = Range(mq) \cup {m}
           /\ OrderedBy(mq', MailRank)
<1>1. /\ mq \in Seq(Mail) /\ OrderedBy(mq, MailRank) /\ m \in Mail \ Range(mq)
      /\ MsgPri \in [Mail -> Nat] /\ MailRank \in [Mail -> Nat]
  BY MailAssumption DEF MbxInv, MailRank
<1>2. CASE mpri
  <2>1. MailRank = MsgPri
    BY <1>1, <1>2 DEF MailRank
  <2>2. /\ Inserted(mq, MsgPri, m) \in Seq(Mail)
        /\ Range(Inserted(mq, MsgPri, m)) = Range(mq) \cup {m}
        /\ OrderedBy(Inserted(mq, MsgPri, m), MsgPri)
    BY <1>1, <2>1, InsertedKeeps
  <2>. QED
    BY <1>2, <2>1, <2>2
<1>3. CASE ~mpri
  <2>1. \A x \in Mail : MailRank[x] <= MailRank[m]
    BY <1>1, <1>3 DEF MailRank
  <2>2. /\ Append(mq, m) \in Seq(Mail)
        /\ Range(Append(mq, m)) = Range(mq) \cup {m}
        /\ OrderedBy(Append(mq, m), MailRank)
    BY <1>1, <2>1, AppendKeeps
  <2>. QED
    BY <1>3, <2>2
<1>. QED
  BY <1>2, <1>3

\* Every call on a mailbox and every release.
LEMMA MbxStep ==
    ASSUME ObjectInv, kind = "mbx", kind' = kind, MbxInv, MbxNext
    PROVE  MbxInv'
<1>. USE DEF ObjectInv
<1>0. /\ Served = "wait" /\ "wait" \in Used /\ "wait" \in Queue /\ (tpri <=> ByPriority("wait"))
      /\ Range(<< >>) = {} /\ << >> \in Seq(Mail) /\ \A pr : OrderedBy(<< >>, pr)
  BY OneQueue DEF Range, OrderedBy
<1>1. ASSUME NEW bypri \in BOOLEAN, NEW bymsg \in BOOLEAN, tk_cre_mbx(bypri, bymsg)
      PROVE  MbxInv'
  BY <1>0, <1>1, CreateDoes DEF tk_cre_mbx, MbxInv
<1>2. CASE tk_del_mbx
  BY <1>0, <1>2, DeleteDoes DEF tk_del_mbx, MbxInv
<1>3. ASSUME NEW m \in Mail, tk_snd_mbx(m)
      PROVE  MbxInv'
  <2>1. m \in mine /\ exists /\ mpri' = mpri
    BY <1>3 DEF tk_snd_mbx
  <2>2. CASE queue["wait"] # << >> /\ ReleaseOk(Head(queue["wait"]), "wait", m) /\ UNCHANGED <<mq, mine>>
    <3>1. exists' = exists
      BY <2>2 DEF ReleaseOk
    <3>. QED
      BY <2>1, <2>2, <3>1, MailStays DEF mbxvars
  <2>3. CASE /\ queue["wait"] = << >>
             /\ mq' = IF mpri THEN Inserted(mq, MsgPri, m) ELSE Append(mq, m)
             /\ mine' = mine \ {m}
             /\ UNCHANGED <<gcb, tcb>>
    <3>1. mq' \in Seq(Mail) /\ Range(mq') = Range(mq) \cup {m} /\ OrderedBy(mq', MailRank)
      BY <2>1, <2>3, MailSent
    <3>2. MailRank' = MailRank
      BY <2>1 DEF MailRank
    <3>. QED
      BY <2>1, <2>3, <3>1, <3>2 DEF MbxInv, gcb
  <2>. QED
    BY <1>3, <2>1, <2>2, <2>3 DEF tk_snd_mbx
<1>4. ASSUME NEW t \in Task, tk_rcv_mbx(t)
      PROVE  MbxInv'
  <2>1. tstat[t] = "run" /\ exists /\ mpri' = mpri
    BY <1>4 DEF tk_rcv_mbx, Calls
  <2>2. CASE /\ mq # << >>
             /\ Completes(t, Head(mq))
             /\ mq' = Tail(mq)
             /\ mine' = mine \cup {Head(mq)}
    <3>1. /\ Head(mq) \in Mail /\ Head(mq) \in Range(mq) /\ Tail(mq) \in Seq(Mail)
          /\ Range(Tail(mq)) = Range(mq) \ {Head(mq)} /\ OrderedBy(Tail(mq), MailRank)
      BY <2>2, TailKeeps DEF MbxInv
    <3>2. MailRank' = MailRank /\ exists' = exists /\ queue' = queue
      BY <2>1, <2>2 DEF MailRank, Completes, gcb
    <3>. QED
      BY <2>1, <2>2, <3>1, <3>2 DEF MbxInv
  <2>3. CASE mq = << >> /\ MakeWait(t, "wait", None, tpri) /\ UNCHANGED <<mq, mine>>
    BY <2>1, <2>3 DEF MbxInv, MailRank, MakeWait
  <2>. QED
    BY <1>4, <2>2, <2>3 DEF tk_rcv_mbx
<1>5. ASSUME NEW t \in Task, MbxWithdraw(t)
      PROVE  MbxInv'
  <2>1. t \in Range(queue["wait"]) /\ exists' = exists
    BY <1>0, <1>5, WithdrawnDoes DEF MbxWithdraw
  <2>2. queue["wait"] # << >>
    BY <1>0, <2>1
  <2>. QED
    BY <1>5, <2>1, <2>2, MailStays DEF MbxWithdraw
<1>6. ASSUME NEW t \in Task, NEW p \in Pri, MbxReorder(t, p)
      PROVE  MbxInv'
  <2>1. t \in Range(queue["wait"]) /\ exists' = exists
    BY <1>6 DEF MbxReorder, Reordered
  <2>2. queue["wait"] # << >>
    BY <1>0, <2>1
  <2>. QED
    BY <1>6, <2>1, <2>2, MailStays DEF MbxReorder
<1>7. ASSUME NEW t \in Task, NEW p \in Pri, UNCHANGED mbxvars,
             ChangePriority(t, p, IF tpri THEN {"wait"} ELSE {})
      PROVE  MbxInv'
  BY <1>7, MailStays DEF ChangePriority, gcb
<1>8. ASSUME NEW t \in Task, Return(t), UNCHANGED mbxvars
      PROVE  MbxInv'
  BY <1>8, MailStays DEF Return, gcb
<1>. QED
  BY <1>1, <1>2, <1>3, <1>4, <1>5, <1>6, <1>7, <1>8 DEF MbxNext

-----------------------------------------------------------------------------
(***************************************************************************)
(* Fixed-size pools.                                                       *)
(***************************************************************************)
\* The free blocks are those never handed out and those of the list, each once.
PoolFree ==
    /\ freelist \in Seq(Blocks) /\ OrderedBy(freelist, [b \in Blocks |-> 0])
    /\ unused \in 1 .. BlkCnt + 1
    /\ \A b \in Range(freelist) : b < unused
    /\ IsFiniteSet(Range(freelist)) /\ Cardinality(Range(freelist)) = Len(freelist)
    /\ frbcnt = Len(freelist) + (BlkCnt + 1 - unused)

\* The other ones are with the program, or with the task that returns one.
PoolTaken ==
    /\ used \subseteq {b \in Blocks : b < unused} \ Range(freelist)
    /\ ~exists => used = {}
    /\ \A t \in Task : doing[t].blk # None => doing[t].call \in {"rel", "put"}
    /\ \A t \in Task : doing[t].call \in {"rel", "put"} =>
         /\ exists /\ doing[t].blk \in Blocks /\ doing[t].blk < unused
         /\ doing[t].blk \notin Range(freelist) \cup used
    /\ exists => \A b \in Blocks : b < unused =>
         b \in Range(freelist) \cup used \/ \E t \in Task : doing[t].blk = b

\* Whoever waits, or is about to, found no block, and a block about to be put
\* into the list is one that nobody waits for.
PoolWaits ==
    /\ queue["wait"] # << >> => frbcnt = 0
    /\ \A t \in Task : At(t, "wait") => frbcnt = 0
    /\ \A t \in Task : At(t, "put") => queue["wait"] = << >>

MpfInv == PoolFree /\ PoolTaken /\ PoolWaits

\* The task inside is the only one.
LEMMA Alone ==
    ASSUME Pooling, PoolTaken, NEW t \in Task, doing[t].call # "none" \/ holder = None
    PROVE  \A u \in Task \ {t} : doing[u].call = "none" /\ doing[u].blk = None
BY WaitAssumption DEF Pooling, PoolTaken

\* What the tasks are about to do when it does something else.
LEMMA DoingNow ==
    ASSUME Pooling, PoolTaken, NEW t \in Task, doing[t].call # "none" \/ holder = None,
           NEW call, NEW blk, doing' = [doing EXCEPT ![t] = [call |-> call, blk |-> blk]]
    PROVE  /\ doing'[t].call = call /\ doing'[t].blk = blk
           /\ \A u \in Task \ {t} : /\ doing[u].call = "none" /\ doing[u].blk = None
                                  /\ doing'[u] = doing[u]
<1>1. \A u \in Task \ {t} : doing[u].call = "none" /\ doing[u].blk = None
  BY Alone
<1>2. doing'[t].call = call /\ doing'[t].blk = blk /\ \A u \in Task \ {t} : doing'[u] = doing[u]
  BY DEF Pooling
<1>. QED
  BY <1>1, <1>2

\* A block becomes the first of the list.
LEMMA BlockPut ==
    ASSUME PoolFree, NEW b \in Blocks \ Range(freelist), b < unused,
           freelist' = <<b>> \o freelist, frbcnt' = frbcnt + 1, unused' = unused
    PROVE  PoolFree' /\ Range(freelist') = Range(freelist) \cup {b}
<1>1. /\ freelist \in Seq(Blocks) /\ Len(freelist) \in Nat /\ DOMAIN freelist = 1 .. Len(freelist)
      /\ Blocks = 1 .. BlkCnt
  BY DEF PoolFree, Blocks
<1>2. /\ freelist' \in Seq(Blocks) /\ Len(freelist') = Len(freelist) + 1
      /\ DOMAIN freelist' = 1 .. Len(freelist) + 1
      /\ \A i \in 1 .. Len(freelist) + 1 : freelist'[i] = IF i = 1 THEN b ELSE freelist[i - 1]
  <2>1. <<b>> \in Seq(Blocks) /\ Len(<<b>>) = 1 /\ <<b>>[1] = b
    OBVIOUS
  <2>2. PICK one : one = <<b>>
    OBVIOUS
  <2>3. one \in Seq(Blocks) /\ Len(one) = 1 /\ one[1] = b /\ freelist' = one \o freelist
    BY <2>1, <2>2
  <2>. QED
    BY <1>1, <2>3
<1>3. \A i \in 1 .. Len(freelist) : freelist[i] \in Range(freelist) /\ freelist'[i + 1] = freelist[i]
  <2>1. ASSUME NEW i \in 1 .. Len(freelist) PROVE freelist'[i + 1] = freelist[i]
    <3>1. i + 1 \in 1 .. Len(freelist) + 1 /\ i + 1 # 1 /\ (i + 1) - 1 = i
      BY <1>1
    <3>. QED
      BY <1>2, <3>1
  <2>. QED
    BY <1>1, <2>1 DEF Range
<1>4. Range(freelist') = Range(freelist) \cup {b}
  <2>1. ASSUME NEW x \in Range(freelist') PROVE x \in Range(freelist) \cup {b}
    <3>1. PICK i \in 1 .. Len(freelist) + 1 : x = freelist'[i]
      BY <1>2 DEF Range
    <3>2. i = 1 \/ i - 1 \in 1 .. Len(freelist)
      BY <1>1
    <3>. QED
      BY <1>2, <1>3, <3>1, <3>2
  <2>2. b \in Range(freelist')
    <3>1. 1 \in 1 .. Len(freelist) + 1
      BY <1>1
    <3>. QED
      BY <1>2, <3>1 DEF Range
  <2>3. ASSUME NEW x \in Range(freelist) PROVE x \in Range(freelist')
    <3>1. PICK i \in 1 .. Len(freelist) : x = freelist[i]
      BY <1>1 DEF Range
    <3>2. i + 1 \in 1 .. Len(freelist) + 1
      BY <1>1
    <3>. QED
      BY <1>2, <1>3, <3>1, <3>2 DEF Range
  <2>. QED
    BY <2>1, <2>2, <2>3
<1>5. OrderedBy(freelist', [x \in Blocks |-> 0])
  <2>1. ASSUME NEW i \in DOMAIN freelist', NEW j \in DOMAIN freelist', i < j
        PROVE  freelist'[i] # freelist'[j]
    <3>1. j - 1 \in 1 .. Len(freelist) /\ freelist'[j] = freelist[j - 1] /\ freelist'[j] \in Range(freelist)
      <4>1. j - 1 \in 1 .. Len(freelist) /\ (j - 1) + 1 = j
        BY <1>1, <1>2, <2>1
      <4>. QED
        BY <1>3, <4>1
    <3>2. CASE i = 1
      BY <1>2, <3>1, <3>2
    <3>3. CASE i # 1
      <4>1. i - 1 \in 1 .. Len(freelist) /\ freelist'[i] = freelist[i - 1] /\ i - 1 < j - 1
        BY <1>1, <1>2, <2>1, <3>3
      <4>. QED
        BY <1>1, <3>1, <4>1 DEF PoolFree, OrderedBy
    <3>. QED
      BY <3>2, <3>3
  <2>2. \A i \in DOMAIN freelist' : freelist'[i] \in Blocks
    <3>1. freelist' \in Seq(Blocks)
      BY <1>2
    <3>. QED
      BY <3>1
  <2>. QED
    BY <2>1, <2>2 DEF OrderedBy
<1>6. /\ IsFiniteSet(Range(freelist) \cup {b})
      /\ Cardinality(Range(freelist) \cup {b}) = Len(freelist) + 1
  BY FS_AddElement DEF PoolFree
<1>7. /\ unused' \in 1 .. BlkCnt + 1
      /\ \A x \in Range(freelist') : x < unused'
      /\ frbcnt' = Len(freelist') + (BlkCnt + 1 - unused')
  <2>1. /\ unused \in 1 .. BlkCnt + 1 /\ unused' = unused
        /\ \A x \in Range(freelist) : x < unused
        /\ frbcnt = Len(freelist) + (BlkCnt + 1 - unused)
    BY DEF PoolFree
  <2>2. frbcnt' = Len(freelist') + (BlkCnt + 1 - unused)
    BY <1>1, <1>2, <2>1, MpfAssumption
  <2>. QED
    BY <1>4, <2>1, <2>2
<1>8. IsFiniteSet(Range(freelist')) /\ Cardinality(Range(freelist')) = Len(freelist')
  BY <1>2, <1>4, <1>6
<1>9. freelist' \in Seq(Blocks)
  BY <1>2
<1>. QED
  BY <1>4, <1>5, <1>7, <1>8, <1>9 DEF PoolFree, Blocks

\* The first block of the list, or else the next one never handed out, is taken.
LEMMA BlockTaken ==
    ASSUME PoolFree, frbcnt > 0, NEW b,
           b = IF freelist # << >> THEN Head(freelist) ELSE unused,
           freelist' = IF freelist # << >> THEN Tail(freelist) ELSE freelist,
           unused' = IF freelist # << >> THEN unused ELSE unused + 1,
           frbcnt' = frbcnt - 1
    PROVE  /\ PoolFree' /\ b \in Blocks /\ b < unused'
           /\ Range(freelist') = Range(freelist) \ {b}
           /\ unused <= unused'
           /\ \A x \in Blocks : x < unused' => x < unused \/ x = b
           /\ freelist # << >> => b \in Range(freelist)
           /\ freelist = << >> => b = unused
<1>0. Blocks = 1 .. BlkCnt /\ BlkCnt \in Nat /\ unused \in Nat /\ Len(freelist) \in Nat
  BY MpfAssumption DEF PoolFree, Blocks
<1>1. CASE freelist # << >>
  <2>1. /\ b \in Blocks /\ b \in Range(freelist)
        /\ Tail(freelist) \in Seq(Blocks)
        /\ Range(Tail(freelist)) = Range(freelist) \ {b}
        /\ OrderedBy(Tail(freelist), [x \in Blocks |-> 0])
        /\ Len(Tail(freelist)) = Len(freelist) - 1
    BY <1>1, TailKeeps DEF PoolFree
  <2>2. /\ IsFiniteSet(Range(freelist) \ {b})
        /\ Cardinality(Range(freelist) \ {b}) = Len(freelist) - 1
    BY <2>1, FS_RemoveElement DEF PoolFree
  <2>3. /\ freelist' = Tail(freelist) /\ unused' = unused /\ frbcnt' = frbcnt - 1
        /\ unused \in 1 .. BlkCnt + 1 /\ \A x \in Range(freelist) : x < unused
        /\ frbcnt = Len(freelist) + (BlkCnt + 1 - unused)
    BY <1>1 DEF PoolFree
  <2>4. frbcnt' = Len(freelist') + (BlkCnt + 1 - unused')
    BY <1>0, <2>1, <2>3
  <2>5. PoolFree'
    BY <2>1, <2>2, <2>3, <2>4 DEF PoolFree, Blocks
  <2>. QED
    BY <1>1, <2>1, <2>3, <2>5
<1>2. CASE freelist = << >>
  <2>1. Range(freelist) = {} /\ unused <= BlkCnt /\ b = unused
    BY <1>0, <1>2 DEF PoolFree, Range
  <2>. QED
    BY <1>0, <1>2, <2>1 DEF PoolFree
<1>. QED
  BY <1>1, <1>2

\* The blocks stay where they are.
LEMMA BlocksStay ==
    ASSUME MpfInv, UNCHANGED mpfvars, exists' = exists,
           queue'["wait"] # << >> => queue["wait"] # << >>
    PROVE  MpfInv'
BY DEF MpfInv, PoolFree, PoolTaken, PoolWaits, At, mpfvars

\* A task inside does something else with no block, and no block moves.
LEMMA BlocksIdle ==
    ASSUME MpfInv, Pooling, NEW t \in Task, doing[t].call # "none" \/ holder = None,
           doing[t].blk = None, doing'[t].blk = None, doing'[t].call \notin {"rel", "put"},
           doing'[t].call = "wait" => frbcnt = 0,
           \A u \in Task \ {t} : doing'[u] = doing[u],
           UNCHANGED <<exists, freelist, unused, frbcnt, used>>,
           queue'["wait"] # << >> => queue["wait"] # << >> \/ frbcnt = 0
    PROVE  MpfInv'
<1>1. \A u \in Task \ {t} : doing[u].call = "none" /\ doing[u].blk = None /\ doing'[u] = doing[u]
  BY Alone DEF MpfInv
<1>2. PoolFree'
  BY DEF MpfInv, PoolFree
<1>3. PoolTaken'
  BY <1>1, MpfAssumption DEF MpfInv, PoolTaken, Blocks
<1>4. PoolWaits'
  BY <1>1 DEF MpfInv, PoolWaits, At
<1>. QED
  BY <1>2, <1>3, <1>4 DEF MpfInv

\* A pool without blocks handed out, while nobody is inside any more.
LEMMA BlocksFresh ==
    ASSUME MpfInv, Pooling, NEW t \in Task, doing[t].call # "none",
           doing' = [doing EXCEPT ![t] = Idle],
           freelist' = << >>, unused' = 1, frbcnt' = BlkCnt, used' = {},
           queue'["wait"] = << >>
    PROVE  MpfInv'
<1>1. /\ \A u \in Task : doing'[u].call = "none" /\ doing'[u].blk = None
  <2>1. doing' = [doing EXCEPT ![t] = [call |-> "none", blk |-> None]]
    BY DEF Idle
  <2>2. /\ doing'[t].call = "none" /\ doing'[t].blk = None
        /\ \A u \in Task \ {t} : doing[u].call = "none" /\ doing[u].blk = None /\ doing'[u] = doing[u]
    BY <2>1, DoingNow DEF MpfInv
  <2>. QED
    BY <2>2
<1>2. Range(<< >>) = {} /\ Cardinality({}) = 0 /\ IsFiniteSet({})
  BY FS_EmptySet DEF Range
<1>3. PoolFree'
  <2>1. /\ freelist' \in Seq(Blocks) /\ Range(freelist') = {} /\ Len(freelist') = 0
        /\ OrderedBy(freelist', [b \in Blocks |-> 0])
    BY <1>2 DEF OrderedBy
  <2>2. /\ unused' \in 1 .. BlkCnt + 1
        /\ frbcnt' = Len(freelist') + (BlkCnt + 1 - unused')
    BY <2>1, MpfAssumption
  <2>. QED
    BY <1>2, <2>1, <2>2 DEF PoolFree, Blocks
<1>4. PoolTaken'
  BY <1>1, <1>2, MpfAssumption DEF PoolTaken, Blocks
<1>5. PoolWaits'
  BY <1>1 DEF PoolWaits, At
<1>. QED
  BY <1>3, <1>4, <1>5 DEF MpfInv

\* The call of a task goes on.
LEMMA Proceeding ==
    ASSUME Pooling, NEW t \in Task, NEW call
    PROVE  [doing EXCEPT ![t].call = call]
             = [doing EXCEPT ![t] = [call |-> call, blk |-> doing[t].blk]]
<1>1. doing = [u \in Task |-> [call |-> doing[u].call, blk |-> doing[u].blk]]
  BY DEF Pooling
<1>2. doing[t] = [call |-> doing[t].call, blk |-> doing[t].blk]
  BY <1>1
<1>3. [doing[t] EXCEPT !.call = call] = [call |-> call, blk |-> doing[t].blk]
  BY <1>2
<1>. QED
  BY <1>3

\* Every part of every call on a fixed-size pool, and every release.
LEMMA MpfStep ==
    ASSUME ObjectInv, Pooling, kind = "mpf", kind' = kind, MpfInv, MpfNext
    PROVE  MpfInv'
<1>. USE DEF ObjectInv
<1>0. /\ Served = "wait" /\ "wait" \in Used /\ "wait" \in Queue /\ (tpri <=> ByPriority("wait"))
      /\ Range(<< >>) = {}
      /\ \A t \in Task : \A call :
           [doing EXCEPT ![t].call = call] = [doing EXCEPT ![t] = [call |-> call, blk |-> doing[t].blk]]
  <2>1. \A t \in Task : \A call :
          [doing EXCEPT ![t].call = call] = [doing EXCEPT ![t] = [call |-> call, blk |-> doing[t].blk]]
    BY Proceeding
  <2>. QED
    BY <2>1, OneQueue DEF Range
<1>1. ASSUME NEW t \in Task, NEW call \in {"cre", "del", "get", "rel"},
             NEW blk \in Blocks \cup {None}, Enter(t, call, blk)
      PROVE  MpfInv'
  <2>1. /\ holder = None /\ doing[t] = Idle /\ used' = used \ {blk}
        /\ doing' = [doing EXCEPT ![t] = [call |-> call, blk |-> blk]]
        /\ call = "rel" => blk \in used
        /\ call # "rel" => blk = None
        /\ UNCHANGED <<exists, queue, freelist, unused, frbcnt>>
    BY <1>1 DEF Enter, wvars, gcb, pool
  <2>4. /\ \A u \in Task \ {t} : doing[u].call = "none" /\ doing[u].blk = None /\ doing'[u] = doing[u]
        /\ doing'[t].call = call /\ doing'[t].blk = blk
    <3>1. doing[t].call # "none" \/ holder = None
      BY <2>1
    <3>2. doing' = [doing EXCEPT ![t] = [call |-> call, blk |-> blk]] /\ PoolTaken
      BY <2>1 DEF MpfInv
    <3>. QED
      BY <3>1, <3>2, DoingNow
  <2>2. CASE call # "rel"
    <3>1. used' = used
      BY <2>1, <2>2, MpfAssumption DEF MpfInv, PoolTaken, Blocks
    <3>2. doing' = [doing EXCEPT ![t] = [call |-> call, blk |-> None]] /\ doing[t].blk = None
      BY <2>1, <2>2 DEF Idle
    <3>3. /\ doing'[t].call = call /\ doing'[t].blk = None
          /\ \A u \in Task \ {t} : doing'[u] = doing[u]
      BY <2>1, <2>2, <2>4
    <3>4. doing'[t].call \notin {"rel", "put", "wait"}
      BY <2>2, <3>3
    <3>. QED
      BY <2>1, <3>1, <3>2, <3>3, <3>4, BlocksIdle
  <2>3. CASE call = "rel"
    <3>1. /\ \A u \in Task \ {t} : doing[u].call = "none" /\ doing[u].blk = None /\ doing'[u] = doing[u]
          /\ doing'[t].call = call /\ doing'[t].blk = blk
      BY <2>4
    <3>2. PoolFree'
      BY <2>1 DEF MpfInv, PoolFree
    <3>3. PoolTaken'
      <4>1. /\ exists /\ blk \in Blocks /\ blk < unused /\ blk \in used /\ blk \notin Range(freelist)
        BY <2>1, <2>3 DEF MpfInv, PoolTaken
      <4>2. \A u \in Task : doing'[u].blk # None => doing'[u].call \in {"rel", "put"}
        BY <2>3, <3>1
      <4>3. \A u \in Task : doing'[u].call \in {"rel", "put"} => u = t
        BY <3>1
      <4>4. \A b \in Blocks : b < unused =>
              b \in Range(freelist) \cup used' \/ \E u \in Task : doing'[u].blk = b
        <5>1. None \notin Blocks
          BY MpfAssumption DEF Blocks
        <5>2. \A b \in Blocks : b < unused => b \in Range(freelist) \cup used
          <6>1. \A u \in Task : doing[u].blk = None
            BY <2>1, <3>1 DEF Idle
          <6>. QED
            BY <4>1, <5>1, <6>1 DEF MpfInv, PoolTaken
        <5>. QED
          BY <2>1, <3>1, <5>2
      <4>5. used' \subseteq {b \in Blocks : b < unused'} \ Range(freelist')
        BY <2>1 DEF MpfInv, PoolTaken
      <4>. QED
        BY <2>1, <3>1, <4>1, <4>2, <4>3, <4>4, <4>5 DEF PoolTaken
    <3>4. PoolWaits'
      BY <2>1, <2>3, <3>1 DEF MpfInv, PoolWaits, At
    <3>. QED
      BY <3>2, <3>3, <3>4 DEF MpfInv
  <2>. QED
    BY <2>2, <2>3
<1>2. ASSUME NEW t \in Task, NoPool(t)
      PROVE  MpfInv'
  <2>1. doing[t].call \in {"get", "rel", "del"} /\ ~exists
    BY <1>2 DEF NoPool
  <2>2. doing[t].blk = None
    BY <2>1 DEF MpfInv, PoolTaken
  <2>3. /\ doing' = [doing EXCEPT ![t] = [call |-> "none", blk |-> None]]
        /\ UNCHANGED <<exists, queue, freelist, unused, frbcnt, used>>
    BY <1>2 DEF NoPool, knl_UnlockOBJ, Idle, wvars, gcb, pool
  <2>4. /\ doing'[t].call = "none" /\ doing'[t].blk = None
        /\ \A u \in Task \ {t} : doing'[u] = doing[u]
    BY <2>1, <2>3, DoingNow DEF MpfInv
  <2>. QED
    BY <2>1, <2>2, <2>3, <2>4, BlocksIdle
<1>3. ASSUME NEW t \in Task, NEW bypri \in BOOLEAN, tk_cre_mpf(t, bypri)
      PROVE  MpfInv'
  BY <1>0, <1>3, CreateDoes, BlocksFresh DEF tk_cre_mpf, knl_UnlockOBJ, At
<1>4. ASSUME NEW t \in Task, tk_del_mpf(t)
      PROVE  MpfInv'
  BY <1>0, <1>4, DeleteDoes, BlocksFresh DEF tk_del_mpf, knl_UnlockOBJ, At
<1>5. ASSUME NEW t \in Task, TakeBlock(t)
      PROVE  MpfInv'
  <2>0. PICK b : b = IF freelist # << >> THEN Head(freelist) ELSE unused
    OBVIOUS
  <2>1. /\ doing[t].call = "get" /\ exists /\ frbcnt > 0
        /\ freelist' = IF freelist # << >> THEN Tail(freelist) ELSE freelist
        /\ unused' = IF freelist # << >> THEN unused ELSE unused + 1
        /\ frbcnt' = frbcnt - 1
        /\ used' = used \cup {b}
        /\ exists' = exists /\ queue' = queue
        /\ doing' = [doing EXCEPT ![t] = [call |-> "none", blk |-> None]]
    BY <1>5, <2>0 DEF TakeBlock, At, knl_UnlockOBJ, Idle, Completes, gcb
  <2>2. /\ \A u \in Task : doing[u].blk = None /\ doing'[u].blk = None /\ doing'[u].call = "none"
    <3>1. doing[t].blk = None
      BY <2>1 DEF MpfInv, PoolTaken
    <3>2. /\ doing'[t].call = "none" /\ doing'[t].blk = None
          /\ \A u \in Task \ {t} : /\ doing[u].call = "none" /\ doing[u].blk = None
                                 /\ doing'[u] = doing[u]
      BY <2>1, DoingNow DEF MpfInv
    <3>. QED
      BY <3>1, <3>2
  <2>3. /\ PoolFree' /\ b \in Blocks /\ b < unused'
        /\ Range(freelist') = Range(freelist) \ {b}
        /\ unused <= unused'
        /\ \A x \in Blocks : x < unused' => x < unused \/ x = b
    BY <2>0, <2>1, BlockTaken DEF MpfInv
  <2>4. PoolTaken'
    <3>1. \A x \in Blocks : x < unused => x < unused'
      BY <2>3, MpfAssumption DEF MpfInv, PoolFree, Blocks
    <3>2. used' \subseteq {x \in Blocks : x < unused'} \ Range(freelist')
      BY <2>1, <2>3, <3>1 DEF MpfInv, PoolTaken
    <3>3. \A x \in Blocks : x < unused' => x \in Range(freelist') \cup used'
      <4>1. None \notin Blocks
        BY MpfAssumption DEF Blocks
      <4>. QED
        BY <2>1, <2>2, <2>3, <4>1 DEF MpfInv, PoolTaken
    <3>. QED
      BY <2>1, <2>2, <3>2, <3>3 DEF PoolTaken
  <2>5. PoolWaits'
    BY <2>1, <2>2 DEF MpfInv, PoolWaits, At
  <2>. QED
    BY <2>3, <2>4, <2>5 DEF MpfInv
<1>6. ASSUME NEW t \in Task, NoBlock(t)
      PROVE  MpfInv'
  <2>1. doing[t].call = "get" /\ frbcnt <= 0
    BY <1>6 DEF NoBlock, At
  <2>2. doing[t].blk = None /\ frbcnt = 0
    BY <2>1, MpfAssumption DEF MpfInv, PoolTaken, PoolFree
  <2>3. doing' = [doing EXCEPT ![t] = [call |-> "wait", blk |-> None]]
    BY <1>0, <1>6, <2>2 DEF NoBlock, Proceeds
  <2>4. UNCHANGED <<exists, queue, freelist, unused, frbcnt, used>>
    BY <1>6 DEF NoBlock, wvars, gcb, pool
  <2>5. /\ doing'[t].call = "wait" /\ doing'[t].blk = None
        /\ \A u \in Task \ {t} : doing'[u] = doing[u]
    BY <2>1, <2>3, DoingNow DEF MpfInv
  <2>. QED
    BY <2>1, <2>2, <2>4, <2>5, BlocksIdle
<1>7. ASSUME NEW t \in Task, WaitForBlock(t)
      PROVE  MpfInv'
  <2>1. doing[t].call = "wait" /\ frbcnt = 0 /\ doing[t].blk = None
    BY <1>7 DEF WaitForBlock, At, MpfInv, PoolTaken, PoolWaits
  <2>2. /\ doing' = [doing EXCEPT ![t] = [call |-> "none", blk |-> None]]
        /\ UNCHANGED <<exists, freelist, unused, frbcnt, used>>
    BY <1>7 DEF WaitForBlock, MakeWait, knl_UnlockOBJ, Idle, pool
  <2>3. /\ doing'[t].call = "none" /\ doing'[t].blk = None
        /\ \A u \in Task \ {t} : doing'[u] = doing[u]
    <3>1. PoolTaken /\ doing[t].call # "none"
      BY <2>1 DEF MpfInv
    <3>. QED
      BY <3>1, <2>2, DoingNow
  <2>. QED
    BY <2>1, <2>2, <2>3, BlocksIdle
<1>8. ASSUME NEW t \in Task, HandOver(t)
      PROVE  MpfInv'
  <2>1. /\ doing[t].call = "rel" /\ exists /\ queue["wait"] # << >>
        /\ exists' = exists /\ used' = used \cup {doing[t].blk}
        /\ doing' = [doing EXCEPT ![t] = [call |-> "unlock", blk |-> None]]
        /\ UNCHANGED <<freelist, unused, frbcnt>>
    BY <1>8 DEF HandOver, At, ReleaseOk, pool
  <2>2. /\ \A u \in Task \ {t} : doing[u].call = "none" /\ doing[u].blk = None /\ doing'[u] = doing[u]
        /\ doing'[t].call = "unlock" /\ doing'[t].blk = None
    BY <2>1, DoingNow DEF MpfInv
  <2>3. PoolFree'
    BY <2>1 DEF MpfInv, PoolFree
  <2>4. PoolTaken'
    <3>1. /\ doing[t].blk \in Blocks /\ doing[t].blk < unused
          /\ doing[t].blk \notin Range(freelist) \cup used
      BY <2>1 DEF MpfInv, PoolTaken
    <3>2. used' \subseteq {b \in Blocks : b < unused} \ Range(freelist)
      BY <2>1, <3>1 DEF MpfInv, PoolTaken
    <3>3. \A b \in Blocks : b < unused => b \in Range(freelist) \cup used'
      <4>1. None \notin Blocks
        BY MpfAssumption DEF Blocks
      <4>. QED
        BY <2>1, <2>2, <4>1 DEF MpfInv, PoolTaken
    <3>. QED
      BY <2>1, <2>2, <3>2, <3>3 DEF PoolTaken
  <2>5. PoolWaits'
    BY <2>1, <2>2 DEF MpfInv, PoolWaits, At
  <2>. QED
    BY <2>3, <2>4, <2>5 DEF MpfInv
<1>9. ASSUME NEW t \in Task, NobodyWaits(t)
      PROVE  MpfInv'
  <2>1. /\ doing[t].call = "rel" /\ queue["wait"] = << >>
        /\ doing' = [doing EXCEPT ![t] = [call |-> "put", blk |-> doing[t].blk]]
        /\ UNCHANGED <<exists, queue, freelist, unused, frbcnt, used>>
    BY <1>0, <1>9 DEF NobodyWaits, At, Proceeds, wvars, gcb, pool
  <2>2. /\ \A u \in Task \ {t} : doing[u].call = "none" /\ doing[u].blk = None /\ doing'[u] = doing[u]
        /\ doing'[t].call = "put" /\ doing'[t].blk = doing[t].blk
    <3>1. PoolTaken /\ doing[t].call # "none"
      BY <2>1 DEF MpfInv
    <3>. QED
      BY <3>1, <2>1, DoingNow
  <2>3. PoolFree'
    BY <2>1 DEF MpfInv, PoolFree
  <2>4. PoolTaken'
    BY <2>1, <2>2 DEF MpfInv, PoolTaken
  <2>5. PoolWaits'
    BY <2>1, <2>2 DEF MpfInv, PoolWaits, At
  <2>. QED
    BY <2>3, <2>4, <2>5 DEF MpfInv
<1>10. ASSUME NEW t \in Task, PutBlock(t)
       PROVE  MpfInv'
  <2>0. PICK b : b = doing[t].blk
    OBVIOUS
  <2>1. /\ doing[t].call = "put" /\ freelist' = <<b>> \o freelist /\ frbcnt' = frbcnt + 1
        /\ doing' = [doing EXCEPT ![t] = [call |-> "none", blk |-> None]]
        /\ UNCHANGED <<exists, queue, unused, used>>
    BY <1>10, <2>0 DEF PutBlock, At, knl_UnlockOBJ, Idle, wvars, gcb
  <2>2. exists /\ queue["wait"] = << >> /\ b \in Blocks /\ b < unused /\ b \notin Range(freelist) \cup used
    BY <2>0, <2>1 DEF MpfInv, PoolTaken, PoolWaits, At
  <2>3. /\ \A u \in Task \ {t} : doing[u].call = "none" /\ doing[u].blk = None /\ doing'[u] = doing[u]
        /\ doing'[t].call = "none" /\ doing'[t].blk = None
    BY <2>1, DoingNow DEF MpfInv
  <2>4. PoolFree' /\ Range(freelist') = Range(freelist) \cup {b}
    BY <2>1, <2>2, BlockPut DEF MpfInv
  <2>5. PoolTaken'
    <3>1. used' \subseteq {x \in Blocks : x < unused'} \ Range(freelist')
      BY <2>1, <2>2, <2>4 DEF MpfInv, PoolTaken
    <3>2. \A x \in Blocks : x < unused' => x \in Range(freelist') \cup used'
      <4>1. None \notin Blocks
        BY MpfAssumption DEF Blocks
      <4>. QED
        BY <2>0, <2>1, <2>2, <2>3, <2>4, <4>1 DEF MpfInv, PoolTaken
    <3>. QED
      BY <2>1, <2>2, <2>3, <3>1, <3>2 DEF PoolTaken
  <2>6. PoolWaits'
    BY <2>1, <2>2, <2>3 DEF PoolWaits, At
  <2>. QED
    BY <2>4, <2>5, <2>6 DEF MpfInv
<1>11. ASSUME NEW t \in Task, Leave(t)
       PROVE  MpfInv'
  <2>1. doing[t].call = "unlock" /\ doing[t].blk = None
    BY <1>11 DEF Leave, At, MpfInv, PoolTaken
  <2>2. /\ doing' = [doing EXCEPT ![t] = [call |-> "none", blk |-> None]]
        /\ UNCHANGED <<exists, queue, freelist, unused, frbcnt, used>>
    BY <1>11 DEF Leave, knl_UnlockOBJ, Idle, wvars, gcb, pool
  <2>3. /\ doing'[t].call = "none" /\ doing'[t].blk = None
        /\ \A u \in Task \ {t} : doing'[u] = doing[u]
    <3>1. PoolTaken /\ doing[t].call # "none"
      BY <2>1 DEF MpfInv
    <3>. QED
      BY <3>1, <2>2, DoingNow
  <2>. QED
    BY <2>1, <2>2, <2>3, BlocksIdle
<1>12. ASSUME NEW t \in Task, MpfWithdraw(t)
       PROVE  MpfInv'
  <2>1. t \in Range(queue["wait"]) /\ exists' = exists
    BY <1>0, <1>12, WithdrawnDoes DEF MpfWithdraw
  <2>2. queue["wait"] # << >>
    BY <1>0, <2>1
  <2>. QED
    BY <1>12, <2>1, <2>2, BlocksStay DEF MpfWithdraw
<1>13. ASSUME NEW t \in Task, NEW p \in Pri, MpfReorder(t, p)
       PROVE  MpfInv'
  <2>1. t \in Range(queue["wait"]) /\ exists' = exists
    BY <1>13 DEF MpfReorder, Reordered
  <2>2. queue["wait"] # << >>
    BY <1>0, <2>1
  <2>. QED
    BY <1>13, <2>1, <2>2, BlocksStay DEF MpfReorder
<1>14. ASSUME NEW t \in Task, NEW p \in Pri, UNCHANGED mpfvars,
              ChangePriority(t, p, IF tpri THEN {"wait"} ELSE {})
       PROVE  MpfInv'
  BY <1>14, BlocksStay DEF ChangePriority, gcb
<1>15. ASSUME NEW t \in Task, Return(t), UNCHANGED mpfvars
       PROVE  MpfInv'
  BY <1>15, BlocksStay DEF Return, gcb
<1>. QED
  BY <1>1, <1>2, <1>3, <1>4, <1>5, <1>6, <1>7, <1>8, <1>9, <1>10, <1>11, <1>12, <1>13, <1>14,
     <1>15 DEF MpfNext

\* A set that falls apart into two.
LEMMA PartsCounted ==
    ASSUME NEW S, NEW T, IsFiniteSet(S), IsFiniteSet(T), S \cap T = {}
    PROVE  Cardinality(S \cup T) = Cardinality(S) + Cardinality(T)
<1>1. Cardinality(S \cup T) = Cardinality(S) + Cardinality(T) - Cardinality(S \cap T)
  BY FS_Union
<1>2. Cardinality(S \cap T) = 0
  BY FS_EmptySet
<1>3. Cardinality(S) \in Nat /\ Cardinality(T) \in Nat
  BY FS_CardinalityType
<1>. QED
  BY <1>1, <1>2, <1>3

\* What the invariant says of the queue and of the blocks.
LEMMA MpfHolds ==
    ASSUME MpfInv
    PROVE  MpfNobodyLeft /\ BlocksAccounted
<1>0. /\ Blocks = 1 .. BlkCnt /\ BlkCnt \in Nat /\ unused \in 1 .. BlkCnt + 1 /\ Len(freelist) \in Nat
      /\ None \notin Blocks
  BY MpfAssumption DEF MpfInv, PoolFree, Blocks
<1>1. PICK fresh : fresh = {b \in Blocks : b >= unused}
  OBVIOUS
<1>2. PICK moving : moving = {doing[t].blk : t \in Task} \ {None}
  OBVIOUS
<1>3. PICK given : given = {b \in Blocks : b < unused}
  OBVIOUS
<1>4. IsFiniteSet(fresh) /\ Cardinality(fresh) = BlkCnt + 1 - unused
  <2>1. fresh = unused .. BlkCnt /\ unused \in Int /\ BlkCnt \in Int
    BY <1>0, <1>1
  <2>2. /\ IsFiniteSet(unused .. BlkCnt)
        /\ Cardinality(unused .. BlkCnt) = IF unused > BlkCnt THEN 0 ELSE BlkCnt - unused + 1
    BY <2>1, FS_Interval
  <2>3. unused > BlkCnt => unused = BlkCnt + 1
    BY <1>0
  <2>. QED
    BY <2>1, <2>2, <2>3
<1>5. IsFiniteSet(given) /\ Cardinality(given) = unused - 1
  <2>1. PICK last \in Int : last = unused - 1
    BY <1>0
  <2>2. given = 1 .. last /\ last \in Nat
    BY <1>0, <1>3, <2>1
  <2>3. /\ IsFiniteSet(1 .. last)
        /\ Cardinality(1 .. last) = IF 1 > last THEN 0 ELSE last - 1 + 1
    BY <2>2, FS_Interval
  <2>4. Cardinality(given) = last
    BY <2>2, <2>3
  <2>. QED
    BY <2>1, <2>2, <2>3, <2>4
<1>6. moving \subseteq given \ (Range(freelist) \cup used)
  BY <1>2, <1>3 DEF MpfInv, PoolTaken
<1>7. used \subseteq given \ Range(freelist)
  BY <1>3 DEF MpfInv, PoolTaken
<1>8. /\ Range(freelist) \subseteq given /\ given \cap fresh = {}
      /\ IsFiniteSet(Range(freelist)) /\ Cardinality(Range(freelist)) = Len(freelist)
      /\ frbcnt = Len(freelist) + (BlkCnt + 1 - unused)
  <2>1. Range(freelist) \subseteq Blocks
    BY InRange DEF MpfInv, PoolFree, Range
  <2>. QED
    BY <1>0, <1>1, <1>3, <2>1 DEF MpfInv, PoolFree
<1>9. ASSUME exists
      PROVE  Cardinality(used) + frbcnt + Cardinality(moving) = BlkCnt
  <2>1. PICK away : away = used \cup moving
    OBVIOUS
  <2>2. away \cup Range(freelist) = given /\ away \cap Range(freelist) = {}
    <3>1. ASSUME NEW b \in given, b \notin Range(freelist)
          PROVE  b \in away
      <4>1. b \in Blocks /\ b < unused /\ b # None
        BY <1>0, <1>3
      <4>2. b \in used \/ \E t \in Task : doing[t].blk = b
        BY <1>9, <3>1, <4>1 DEF MpfInv, PoolTaken
      <4>. QED
        BY <1>2, <2>1, <4>1, <4>2
    <3>2. away \subseteq given \ Range(freelist)
      BY <1>6, <1>7, <2>1
    <3>. QED
      BY <1>8, <3>1, <3>2
  <2>3. IsFiniteSet(used) /\ IsFiniteSet(moving) /\ IsFiniteSet(away) /\ used \cap moving = {}
    BY <1>5, <1>6, <1>7, <2>2, FS_Subset
  <2>4. Cardinality(away) = Cardinality(used) + Cardinality(moving)
    BY <2>1, <2>3, PartsCounted
  <2>5. Cardinality(given) = Cardinality(away) + Cardinality(Range(freelist))
    BY <1>8, <2>2, <2>3, PartsCounted
  <2>6. Cardinality(used) \in Nat /\ Cardinality(moving) \in Nat
    BY <2>3, FS_CardinalityType
  <2>. QED
    <3>1. PICK u \in Nat, m \in Nat, r \in Nat :
               u = Cardinality(used) /\ m = Cardinality(moving) /\ r = Len(freelist)
      BY <1>0, <2>6
    <3>2. unused - 1 = (u + m) + r
      BY <1>5, <1>8, <2>4, <2>5, <3>1
    <3>3. frbcnt = r + (BlkCnt + 1 - unused)
      BY <1>8, <3>1
    <3>4. u + frbcnt + m = BlkCnt
      BY <1>0, <3>2, <3>3
    <3>. QED
      BY <3>1, <3>4
<1>10. (used \cup moving) \cap (Range(freelist) \cup fresh) = {}
  BY <1>6, <1>7, <1>8
<1>11. Range(freelist) \cap fresh = {}
  BY <1>8
<1>12. BlocksAccounted
  BY <1>1, <1>2, <1>4, <1>8, <1>9, <1>10, <1>11 DEF BlocksAccounted
<1>. QED
  BY <1>12 DEF MpfInv, PoolWaits, MpfNobodyLeft
(***************************************************************************)
(* The allocator of variable-size pools.                                   *)
(***************************************************************************)
\* The areas of a heap, and what the free ones are sorted by.
Areas(h) ==
    /\ h = [areaque |-> h.areaque, freeque |-> h.freeque, size |-> h.size]
    /\ h.size \in Int
    /\ \A a \in h.areaque : a \in Int /\ -ENTRY <= a /\ a < h.size
Sizes(h) == [a \in h.areaque |-> AreaSize(h, a)]
Sound(h) == Areas(h) /\ h.freeque \in Seq(h.areaque) /\ OrderedBy(h.freeque, Sizes(h))

\* The next area is the first one behind, or the end of the memory.
LEMMA NextIs ==
    ASSUME NEW h, Areas(h), NEW a \in h.areaque
    PROVE  /\ NextOf(h, a) \in h.areaque \cup {h.size} /\ NextOf(h, a) \in Int
           /\ NextOf(h, a) > a /\ NextOf(h, a) <= h.size
           /\ \A x \in h.areaque : x > a => NextOf(h, a) <= x
<1>1. PICK later : later = {b \in h.areaque : b > a} \cup {h.size}
  OBVIOUS
<1>2. a \in Int /\ h.size \in Int /\ h.size > a /\ \A x \in later : x \in Int /\ x > a /\ x <= h.size
  BY <1>1 DEF Areas
<1>3. \E b \in later : \A x \in later : b <= x
  <2>1. PICK gaps : gaps = {x - a : x \in later}
    OBVIOUS
  <2>2. gaps \in SUBSET Nat /\ gaps # {}
    BY <1>1, <1>2, <2>1
  <2>3. PICK g \in gaps : \A y \in gaps : g <= y
    BY <2>2, NatMin
  <2>4. PICK b \in later : g = b - a
    BY <2>1, <2>3
  <2>5. ASSUME NEW x \in later PROVE b <= x
    <3>1. x - a \in gaps
      BY <2>1
    <3>. QED
      BY <1>2, <2>3, <2>4, <3>1
  <2>. QED
    BY <2>5
<1>4. NextOf(h, a) = CHOOSE b \in later : \A x \in later : b <= x
  BY <1>1 DEF NextOf
<1>5. NextOf(h, a) \in later /\ \A x \in later : NextOf(h, a) <= x
  BY <1>3, <1>4
<1>. QED
  BY <1>1, <1>2, <1>5

\* There is no other one.
LEMMA NextIsOnly ==
    ASSUME NEW h, Areas(h), NEW a \in h.areaque, NEW n \in h.areaque \cup {h.size},
           n > a, \A x \in h.areaque : x > a => n <= x
    PROVE  NextOf(h, a) = n
<1>1. /\ NextOf(h, a) \in h.areaque \cup {h.size} /\ NextOf(h, a) \in Int
      /\ NextOf(h, a) > a /\ NextOf(h, a) <= h.size
      /\ \A x \in h.areaque : x > a => NextOf(h, a) <= x
  BY NextIs
<1>2. n \in Int /\ n <= h.size
  BY DEF Areas
<1>3. NextOf(h, a) <= n
  BY <1>1, <1>2
<1>4. n <= NextOf(h, a)
  BY <1>1, <1>2
<1>. QED
  BY <1>1, <1>2, <1>3, <1>4

\* AreaSize() of an area.
LEMMA SizeIs ==
    ASSUME NEW h, Areas(h), NEW a \in h.areaque
    PROVE  AreaSize(h, a) = NextOf(h, a) - (a + 1) /\ AreaSize(h, a) \in Nat /\ Sizes(h)[a] = AreaSize(h, a)
<1>1. NextOf(h, a) \in Int /\ NextOf(h, a) > a /\ a \in Int
  BY NextIs DEF Areas
<1>. QED
  BY <1>1 DEF AreaSize, Sizes, ENTRY

\* The sizes of all the areas.
LEMMA SizesAre ==
    ASSUME NEW h, Areas(h)
    PROVE  Sizes(h) \in [h.areaque -> Nat]
<1>1. \A a \in h.areaque : AreaSize(h, a) \in Nat
  BY SizeIs
<1>. QED
  BY <1>1 DEF Sizes

\* Where areas are is all that their sizes depend on.
LEMMA SameAreas ==
    ASSUME NEW h, NEW g, g.areaque = h.areaque, g.size = h.size
    PROVE  /\ \A a : NextOf(g, a) = NextOf(h, a) /\ AreaSize(g, a) = AreaSize(h, a)
           /\ Sizes(g) = Sizes(h)
BY DEF NextOf, AreaSize, Sizes

\* An area is divided.
LEMMA AreaDivided ==
    ASSUME NEW h, NEW g, Areas(h), Areas(g), NEW a \in h.areaque, NEW c \in Int,
           a < c, c < NextOf(h, a), g.areaque = h.areaque \cup {c}, g.size = h.size
    PROVE  /\ NextOf(g, a) = c /\ NextOf(g, c) = NextOf(h, a)
           /\ \A x \in h.areaque \ {a} : NextOf(g, x) = NextOf(h, x)
           /\ c \notin h.areaque
<1>1. /\ NextOf(h, a) \in h.areaque \cup {h.size} /\ NextOf(h, a) \in Int
      /\ \A x \in h.areaque : x > a => NextOf(h, a) <= x
      /\ \A x \in h.areaque : x \in Int
      /\ h.size \in Int /\ a \in Int
  BY NextIs DEF Areas
<1>2. c \notin h.areaque
  BY <1>1
<1>3. NextOf(g, a) = c
  <2>1. \A x \in g.areaque : x > a => c <= x
    BY <1>1
  <2>. QED
    BY <2>1, NextIsOnly
<1>4. NextOf(g, c) = NextOf(h, a)
  <2>1. \A x \in g.areaque : x > c => NextOf(h, a) <= x
    BY <1>1
  <2>. QED
    BY <1>1, <2>1, NextIsOnly
<1>5. ASSUME NEW x \in h.areaque \ {a}
      PROVE  NextOf(g, x) = NextOf(h, x)
  <2>1. /\ NextOf(h, x) \in h.areaque \cup {h.size} /\ NextOf(h, x) > x /\ NextOf(h, x) \in Int
        /\ \A y \in h.areaque : y > x => NextOf(h, x) <= y
    BY NextIs
  <2>2. c > x => NextOf(h, x) <= c
    <3>1. CASE x < a
      BY <1>1, <2>1, <3>1
    <3>2. CASE x > a
      BY <1>1, <3>2
    <3>. QED
      BY <1>1, <3>1, <3>2
  <2>3. \A y \in g.areaque : y > x => NextOf(h, x) <= y
    BY <2>1, <2>2
  <2>. QED
    BY <2>1, <2>3, NextIsOnly
<1>. QED
  BY <1>2, <1>3, <1>4, <1>5

\* An area is merged with the next one.
LEMMA AreasMerged ==
    ASSUME NEW h, NEW g, Areas(h), Areas(g), NEW a \in h.areaque, NextOf(h, a) \in h.areaque,
           g.areaque = h.areaque \ {NextOf(h, a)}, g.size = h.size
    PROVE  /\ a \in g.areaque /\ NextOf(g, a) = NextOf(h, NextOf(h, a))
           /\ \A x \in g.areaque \ {a} : NextOf(g, x) = NextOf(h, x)
<1>0. PICK b : b = NextOf(h, a)
  OBVIOUS
<1>1. /\ b \in h.areaque /\ b > a /\ b \in Int
      /\ \A x \in h.areaque : x > a => b <= x
      /\ \A x \in h.areaque : x \in Int
      /\ h.size \in Int /\ a \in Int
  BY <1>0, NextIs DEF Areas
<1>2. PICK n : n = NextOf(h, b)
  OBVIOUS
<1>3. /\ n \in h.areaque \cup {h.size} /\ n > b /\ n \in Int /\ n <= h.size
      /\ \A x \in h.areaque : x > b => n <= x
  BY <1>1, <1>2, NextIs
<1>4. a \in g.areaque /\ n \in g.areaque \cup {g.size}
  BY <1>0, <1>1, <1>3
<1>5. NextOf(g, a) = n
  <2>1. \A x \in g.areaque : x > a => n <= x
    BY <1>0, <1>1, <1>3
  <2>2. n > a
    BY <1>1, <1>3
  <2>. QED
    BY <1>4, <2>1, <2>2, NextIsOnly
<1>6. ASSUME NEW x \in g.areaque \ {a}
      PROVE  NextOf(g, x) = NextOf(h, x)
  <2>1. /\ NextOf(h, x) \in h.areaque \cup {h.size} /\ NextOf(h, x) > x /\ NextOf(h, x) \in Int
        /\ \A y \in h.areaque : y > x => NextOf(h, x) <= y
    BY NextIs
  <2>2. NextOf(h, x) # b
    <3>1. CASE x < a
      BY <1>1, <2>1, <3>1
    <3>2. CASE x > a
      BY <1>0, <1>1, <2>1, <3>2
    <3>. QED
      BY <1>1, <3>1, <3>2
  <2>3. NextOf(h, x) \in g.areaque \cup {g.size}
    BY <1>0, <2>1, <2>2
  <2>. QED
    BY <2>1, <2>3, NextIsOnly
<1>. QED
  BY <1>0, <1>2, <1>4, <1>5, <1>6

\* The free queue stays in order where the free areas keep their sizes.
LEMMA StaysSound ==
    ASSUME NEW h, NEW g, Sound(h), Areas(g), g.freeque = h.freeque, Free(h) \subseteq g.areaque,
           \A x \in Free(h) : NextOf(g, x) = NextOf(h, x)
    PROVE  Sound(g) /\ Free(g) = Free(h)
<1>1. \A x \in Free(h) : Sizes(g)[x] = Sizes(h)[x]
  BY DEF Sizes, AreaSize, Sound, Free, Range
<1>2. OrderedBy(g.freeque, Sizes(g))
  BY <1>1, OrderedByItsTasks DEF Sound, Free
<1>3. g.freeque \in Seq(g.areaque)
  <2>1. h.freeque \in Seq(h.areaque) /\ \A i \in 1 .. Len(h.freeque) : h.freeque[i] \in g.areaque
    BY InRange DEF Sound, Free
  <2>. QED
    BY <2>1
<1>. QED
  BY <1>2, <1>3 DEF Sound, Free

\* knl_removeFreeQue(): the area is not free any more.
LEMMA Removes ==
    ASSUME NEW h, Sound(h), NEW a \in Free(h), NEW g, g = knl_removeFreeQue(h, a)
    PROVE  /\ Sound(g) /\ Free(g) = Free(h) \ {a}
           /\ g.areaque = h.areaque /\ g.size = h.size
<1>1. /\ g = [areaque |-> h.areaque, freeque |-> Without(h.freeque, a), size |-> h.size]
      /\ a \in h.areaque
  <2>1. Without(h.freeque, a) = RemoveAt(h.freeque, CHOOSE i \in DOMAIN h.freeque : h.freeque[i] = a)
    BY DEF Without, Free
  <2>2. h = [areaque |-> h.areaque, freeque |-> h.freeque, size |-> h.size]
    BY DEF Sound, Areas
  <2>3. a \in h.areaque
    BY InRange DEF Sound, Free
  <2>. QED
    BY <2>1, <2>2, <2>3 DEF knl_removeFreeQue
<1>2. /\ Without(h.freeque, a) \in Seq(h.areaque)
      /\ Range(Without(h.freeque, a)) = Range(h.freeque) \ {a}
      /\ OrderedBy(Without(h.freeque, a), Sizes(h))
  BY <1>1, WithoutKeeps DEF Sound
<1>3. /\ g.areaque = h.areaque /\ g.size = h.size /\ g.freeque = Without(h.freeque, a)
      /\ g = [areaque |-> g.areaque, freeque |-> g.freeque, size |-> g.size]
  BY <1>1
<1>4. Sizes(g) = Sizes(h)
  BY <1>3, SameAreas
<1>. QED
  BY <1>2, <1>3, <1>4 DEF Sound, Areas, Free

\* The position a new element gets.
LEMMA InsertedFrom ==
    ASSUME NEW S, NEW s \in Seq(S), NEW e \in S, NEW p \in 1 .. Len(s) + 1
    PROVE  InsertAt(s, p, e) = LinkedBefore(s, e, p .. Len(s))
<1>1. Len(s) \in Nat
  OBVIOUS
<1>2. CASE p = Len(s) + 1
  <2>1. p .. Len(s) = {}
    BY <1>1, <1>2
  <2>. QED
    BY <1>2, <2>1, InsertedAtEnd DEF LinkedBefore
<1>3. CASE p # Len(s) + 1
  <2>1. PICK after : after = p .. Len(s)
    OBVIOUS
  <2>2. p \in after /\ \A j \in after : p <= j /\ j \in Nat
    BY <1>1, <1>3, <2>1
  <2>3. (CHOOSE i \in after : \A j \in after : i <= j) = p
    <3>1. PICK q : q = CHOOSE i \in after : \A j \in after : i <= j
      OBVIOUS
    <3>2. q \in after /\ \A j \in after : q <= j
      BY <2>2, <3>1
    <3>3. q <= p /\ p <= q /\ q \in Nat /\ p \in Nat
      BY <2>2, <3>2
    <3>. QED
      BY <3>1, <3>3
  <2>. QED
    BY <2>1, <2>2, <2>3 DEF LinkedBefore
<1>. QED
  BY <1>2, <1>3

\* knl_searchFreeArea(): what is in front of the place is smaller, what is at
\* it or behind is not.
LEMMA PlaceFound ==
    ASSUME NEW h, Sound(h), NEW n \in Nat, NEW p, p = knl_searchFreeArea(h, n)
    PROVE  /\ p \in 1 .. Len(h.freeque) + 1
           /\ \A i \in 1 .. Len(h.freeque) : i < p <=> AreaSize(h, h.freeque[i]) < n
<1>0. /\ Len(h.freeque) \in Nat /\ DOMAIN h.freeque = 1 .. Len(h.freeque)
      /\ \A i \in 1 .. Len(h.freeque) : h.freeque[i] \in h.areaque
  BY DEF Sound
<1>1. PICK fit : fit = {i \in DOMAIN h.freeque : AreaSize(h, h.freeque[i]) >= n}
                         \cup {Len(h.freeque) + 1}
  OBVIOUS
<1>2. fit \in SUBSET Nat /\ fit # {} /\ fit \subseteq 1 .. Len(h.freeque) + 1
  BY <1>0, <1>1
<1>3. \E i \in fit : \A j \in fit : i <= j
  BY <1>2, NatMin
<1>4. p = CHOOSE i \in fit : \A j \in fit : i <= j
  BY <1>1 DEF knl_searchFreeArea
<1>5. p \in fit /\ \A j \in fit : p <= j
  BY <1>3, <1>4
<1>6. ASSUME NEW i \in 1 .. Len(h.freeque)
      PROVE  /\ AreaSize(h, h.freeque[i]) \in Nat
             /\ \A j \in 1 .. Len(h.freeque) : i < j =>
                  AreaSize(h, h.freeque[i]) <= AreaSize(h, h.freeque[j])
  <2>1. AreaSize(h, h.freeque[i]) \in Nat
    BY <1>0, SizeIs DEF Sound
  <2>2. ASSUME NEW j \in 1 .. Len(h.freeque), i < j
        PROVE  AreaSize(h, h.freeque[i]) <= AreaSize(h, h.freeque[j])
    <3>1. Sizes(h)[h.freeque[i]] <= Sizes(h)[h.freeque[j]]
      BY <1>0, <2>2 DEF Sound, OrderedBy
    <3>2. /\ Sizes(h)[h.freeque[i]] = AreaSize(h, h.freeque[i])
          /\ Sizes(h)[h.freeque[j]] = AreaSize(h, h.freeque[j])
      BY <1>0, SizeIs DEF Sound
    <3>. QED
      BY <3>1, <3>2
  <2>. QED
    BY <2>1, <2>2
<1>7. ASSUME NEW i \in 1 .. Len(h.freeque)
      PROVE  i < p <=> AreaSize(h, h.freeque[i]) < n
  <2>1. CASE i < p
    <3>1. i \notin fit
      BY <1>2, <1>5, <2>1
    <3>. QED
      BY <1>0, <1>1, <1>6, <2>1, <3>1
  <2>2. CASE ~(i < p)
    <3>1. p \in 1 .. Len(h.freeque) /\ AreaSize(h, h.freeque[p]) >= n
      BY <1>0, <1>1, <1>2, <1>5, <2>2
    <3>2. AreaSize(h, h.freeque[i]) >= n
      <4>1. CASE i = p
        BY <3>1, <4>1
      <4>2. CASE p < i
        BY <1>6, <3>1, <4>2
      <4>. QED
        BY <1>0, <2>2, <3>1, <4>1, <4>2
    <3>. QED
      BY <1>6, <2>2, <3>2
  <2>. QED
    BY <2>1, <2>2
<1>. QED
  BY <1>2, <1>5, <1>7

\* knl_appendFreeArea(): the area is free.
LEMMA Registers ==
    ASSUME NEW h, Sound(h), NEW a \in h.areaque \ Free(h), NEW g, g = knl_appendFreeArea(h, a)
    PROVE  /\ Sound(g) /\ Free(g) = Free(h) \cup {a}
           /\ g.areaque = h.areaque /\ g.size = h.size
<1>0. /\ Len(h.freeque) \in Nat /\ DOMAIN h.freeque = 1 .. Len(h.freeque)
      /\ \A i \in 1 .. Len(h.freeque) : h.freeque[i] \in h.areaque
      /\ Areas(h)
  BY DEF Sound
<1>1. PICK n \in Nat : n = AreaSize(h, a) /\ n = Sizes(h)[a]
  BY <1>0, SizeIs
<1>2. PICK i : i = knl_searchFreeArea(h, n)
  OBVIOUS
<1>3. /\ i \in 1 .. Len(h.freeque) + 1
      /\ \A j \in 1 .. Len(h.freeque) : j < i <=> AreaSize(h, h.freeque[j]) < n
  BY <1>2, PlaceFound
<1>4. PICK p : p = IF i <= Len(h.freeque) /\ AreaSize(h, h.freeque[i]) = n THEN i + 1 ELSE i
  OBVIOUS
<1>5. p \in 1 .. Len(h.freeque) + 1
  BY <1>0, <1>3, <1>4
<1>6. \A j \in 1 .. Len(h.freeque) : /\ AreaSize(h, h.freeque[j]) \in Nat
                                     /\ Sizes(h)[h.freeque[j]] = AreaSize(h, h.freeque[j])
  BY <1>0, SizeIs
<1>7. ASSUME NEW j \in 1 .. Len(h.freeque)
      PROVE  /\ j < p => Sizes(h)[h.freeque[j]] <= n
             /\ p <= j => n <= Sizes(h)[h.freeque[j]]
  <2>1. j < i => AreaSize(h, h.freeque[j]) <= n
    BY <1>3, <1>6
  <2>2. i <= j => n <= AreaSize(h, h.freeque[j])
    BY <1>0, <1>3, <1>6
  <2>3. j < p => j < i \/ (j = i /\ AreaSize(h, h.freeque[i]) = n)
    BY <1>0, <1>3, <1>4
  <2>4. p <= j => i <= j
    BY <1>0, <1>3, <1>4
  <2>. QED
    BY <1>1, <1>6, <2>1, <2>2, <2>3, <2>4
<1>8. PICK after : after = p .. Len(h.freeque)
  OBVIOUS
<1>9. /\ after \in SUBSET DOMAIN h.freeque
      /\ \A j \in DOMAIN h.freeque \ after : Sizes(h)[h.freeque[j]] <= Sizes(h)[a]
      /\ \A j \in after : Sizes(h)[a] <= Sizes(h)[h.freeque[j]]
  BY <1>0, <1>1, <1>5, <1>7, <1>8
<1>10. PICK s : s = InsertAt(h.freeque, p, a)
  OBVIOUS
<1>11. s = LinkedBefore(h.freeque, a, after)
  BY <1>5, <1>8, <1>10, InsertedFrom DEF Sound
<1>12. s \in Seq(h.areaque) /\ Range(s) = Range(h.freeque) \cup {a} /\ OrderedBy(s, Sizes(h))
  <2>1. h.freeque \in Seq(h.areaque) /\ OrderedBy(h.freeque, Sizes(h)) /\ a \in h.areaque \ Range(h.freeque)
    BY DEF Sound, Free
  <2>2. Sizes(h) \in [h.areaque -> Nat]
    BY <1>0, SizesAre
  <2>. QED
    BY <1>9, <1>11, <2>1, <2>2, LinkedKeeps
<1>13. g = [areaque |-> h.areaque, freeque |-> s, size |-> h.size]
  <2>1. g = [h EXCEPT !.freeque = s]
    BY <1>1, <1>2, <1>4, <1>10 DEF knl_appendFreeArea
  <2>. QED
    BY <1>0, <2>1 DEF Areas
<1>14. /\ g.areaque = h.areaque /\ g.size = h.size /\ g.freeque = s
       /\ g = [areaque |-> g.areaque, freeque |-> g.freeque, size |-> g.size]
  BY <1>13
<1>15. Sizes(g) = Sizes(h)
  BY <1>14, SameAreas
<1>. QED
  BY <1>0, <1>12, <1>14, <1>15 DEF Sound, Areas, Free

\* A heap in order, with these areas in use.
Tiled(h, blocks) == Sound(h) /\ WellFormed(h, blocks)

\* The free areas of a sound heap are in the order WellFormed asks for.
LEMMA FreeInOrder ==
    ASSUME NEW h, Sound(h)
    PROVE  /\ Free(h) \subseteq h.areaque
           /\ \A i, j \in DOMAIN h.freeque : i < j =>
                /\ h.freeque[i] # h.freeque[j]
                /\ AreaSize(h, h.freeque[i]) <= AreaSize(h, h.freeque[j])
<1>1. /\ DOMAIN h.freeque = 1 .. Len(h.freeque)
      /\ \A i \in 1 .. Len(h.freeque) : h.freeque[i] \in h.areaque
  BY DEF Sound
<1>2. \A i \in 1 .. Len(h.freeque) : Sizes(h)[h.freeque[i]] = AreaSize(h, h.freeque[i])
  BY <1>1 DEF Sizes
<1>. QED
  BY <1>1, <1>2 DEF Sound, OrderedBy, Free, Range

\* knl_MaxFreeSize(): no free area is larger.
LEMMA LargestIs ==
    ASSUME NEW h, Sound(h)
    PROVE  /\ knl_MaxFreeSize(h) \in Nat
           /\ \A x \in Free(h) : AreaSize(h, x) <= knl_MaxFreeSize(h)
           /\ knl_MaxFreeSize(h) # 0 => \E x \in Free(h) : AreaSize(h, x) = knl_MaxFreeSize(h)
<1>0. /\ Len(h.freeque) \in Nat /\ DOMAIN h.freeque = 1 .. Len(h.freeque)
      /\ \A i \in 1 .. Len(h.freeque) : h.freeque[i] \in h.areaque
      /\ \A x : x \in Free(h) <=> \E i \in 1 .. Len(h.freeque) : h.freeque[i] = x
  BY InRange DEF Sound, Free
<1>1. \A i \in 1 .. Len(h.freeque) : AreaSize(h, h.freeque[i]) \in Nat
  BY <1>0, SizeIs DEF Sound
<1>2. CASE h.freeque = << >>
  BY <1>0, <1>2 DEF knl_MaxFreeSize
<1>3. CASE h.freeque # << >>
  <2>1. Len(h.freeque) \in 1 .. Len(h.freeque)
    BY <1>3 DEF Sound
  <2>2. knl_MaxFreeSize(h) = AreaSize(h, h.freeque[Len(h.freeque)])
    BY <1>3 DEF knl_MaxFreeSize
  <2>3. \A i \in 1 .. Len(h.freeque) :
          AreaSize(h, h.freeque[i]) <= AreaSize(h, h.freeque[Len(h.freeque)])
    BY <1>0, <1>1, <2>1, FreeInOrder
  <2>. QED
    BY <1>0, <1>1, <2>1, <2>2, <2>3
<1>. QED
  BY <1>2, <1>3

\* The area that is taken is free and large enough.
LEMMA TakenFits ==
    ASSUME NEW h, Sound(h), NEW n \in Nat \ {0}, n <= knl_MaxFreeSize(h)
    PROVE  Taken(h, n) \in Free(h) /\ AreaSize(h, Taken(h, n)) >= n
<1>0. PICK p : p = knl_searchFreeArea(h, n)
  OBVIOUS
<1>1. /\ p \in 1 .. Len(h.freeque) + 1
      /\ \A i \in 1 .. Len(h.freeque) : i < p <=> AreaSize(h, h.freeque[i]) < n
      /\ Len(h.freeque) \in Nat
      /\ \A x : x \in Free(h) <=> \E i \in 1 .. Len(h.freeque) : h.freeque[i] = x
      /\ \A i \in 1 .. Len(h.freeque) : h.freeque[i] \in h.areaque
  BY <1>0, PlaceFound, InRange DEF Sound, Free
<1>2. PICK i \in 1 .. Len(h.freeque) : AreaSize(h, h.freeque[i]) >= n
  <2>1. PICK x \in Free(h) : AreaSize(h, x) = knl_MaxFreeSize(h)
    BY LargestIs
  <2>. QED
    BY <1>1, <2>1, LargestIs
<1>3. AreaSize(h, h.freeque[i]) \in Nat
  BY <1>1, SizeIs DEF Sound
<1>4. p <= i
  BY <1>1, <1>2, <1>3
<1>5. p \in 1 .. Len(h.freeque)
  BY <1>1, <1>4
<1>6. AreaSize(h, h.freeque[p]) \in Nat /\ ~(p < p)
  BY <1>1, <1>5, SizeIs DEF Sound
<1>7. Taken(h, n) = h.freeque[p]
  BY <1>0 DEF Taken
<1>. QED
  BY <1>1, <1>5, <1>6, <1>7

\* A queue of one.
LEMMA OneIsSeq ==
    ASSUME NEW S, NEW x \in S
    PROVE  <<x>> \in Seq(S)
OBVIOUS

\* An empty pool.
LEMMA EmptyTiled ==
    ASSUME NEW n \in Nat, n >= MIN_FRAGMENT, NEW h, h = Empty(-ENTRY, n)
    PROVE  Tiled(h, {})
<1>1. /\ h.areaque = {-1} /\ h.freeque = <<-1>> /\ h.size = n
      /\ h = [areaque |-> h.areaque, freeque |-> h.freeque, size |-> h.size]
  BY DEF Empty, ENTRY
<1>2. Areas(h)
  BY <1>1 DEF Areas, ENTRY
<1>3. Len(h.freeque) = 1 /\ DOMAIN h.freeque = 1 .. 1 /\ h.freeque[1] = -1 /\ h.freeque \in Seq(h.areaque)
  <2>1. PICK a : a = -1
    OBVIOUS
  <2>2. h.freeque = <<a>> /\ a \in h.areaque
    BY <1>1, <2>1
  <2>3. <<a>> \in Seq(h.areaque) /\ Len(<<a>>) = 1 /\ DOMAIN <<a>> = 1 .. Len(<<a>>) /\ <<a>>[1] = a
    <3>1. Len(<<a>>) = 1 /\ <<a>>[1] = a
      OBVIOUS
    <3>2. <<a>> \in Seq(h.areaque)
      BY <2>2, OneIsSeq
    <3>3. \A s \in Seq(h.areaque) : DOMAIN s = 1 .. Len(s)
      OBVIOUS
    <3>. QED
      BY <3>1, <3>2, <3>3
  <2>. QED
    BY <2>1, <2>2, <2>3
<1>4. OrderedBy(h.freeque, Sizes(h))
  BY <1>3 DEF OrderedBy
<1>5. Sound(h) /\ Free(h) = {-1}
  BY <1>2, <1>3, <1>4 DEF Sound, Free, Range
<1>6. NextOf(h, -1) = n
  <2>1. -1 \in h.areaque /\ n \in h.areaque \cup {h.size} /\ n > -1
        /\ \A x \in h.areaque : x > -1 => n <= x
    BY <1>1
  <2>. QED
    BY <1>2, <2>1, NextIsOnly
<1>7. AreaSize(h, -1) = n
  BY <1>6 DEF AreaSize, ENTRY
<1>8. \A i, j \in DOMAIN h.freeque : ~(i < j)
  BY <1>3
<1>. QED
  BY <1>1, <1>5, <1>6, <1>7, <1>8 DEF Tiled, WellFormed, MIN_FRAGMENT

\* What it takes to be in order, area by area.
LEMMA TiledIf ==
    ASSUME NEW g, NEW blocks, Sound(g), Free(g) \cap blocks = {}, Free(g) \cup blocks = g.areaque,
           \A x \in g.areaque : NextOf(g, x) - (x + 1) >= MIN_FRAGMENT,
           \A x \in Free(g) : NextOf(g, x) \notin Free(g)
    PROVE  Tiled(g, blocks)
<1>1. \A x \in g.areaque : AreaSize(g, x) >= MIN_FRAGMENT
  BY SizeIs DEF Sound
<1>. QED
  BY <1>1, FreeInOrder DEF Tiled, WellFormed

\* What it means to be in order, area by area.
LEMMA TiledIs ==
    ASSUME NEW h, NEW blocks, Tiled(h, blocks)
    PROVE  /\ Sound(h) /\ Free(h) \cap blocks = {} /\ Free(h) \cup blocks = h.areaque
           /\ \A x \in h.areaque :
                /\ NextOf(h, x) \in h.areaque \cup {h.size} /\ NextOf(h, x) \in Int
                /\ NextOf(h, x) <= h.size /\ x \in Int /\ -1 <= x /\ x < h.size
                /\ NextOf(h, x) - (x + 1) >= 2
                /\ AreaSize(h, x) = NextOf(h, x) - (x + 1)
           /\ h.size \in Int
           /\ \A x \in Free(h) : NextOf(h, x) \notin Free(h)
<1>1. Areas(h) /\ \A x \in h.areaque : AreaSize(h, x) >= 2
  BY DEF Tiled, WellFormed, Sound, MIN_FRAGMENT
<1>2. \A x \in h.areaque : /\ NextOf(h, x) \in h.areaque \cup {h.size} /\ NextOf(h, x) \in Int
                           /\ NextOf(h, x) <= h.size
                           /\ AreaSize(h, x) = NextOf(h, x) - (x + 1)
  BY <1>1, NextIs, SizeIs
<1>3. h.size \in Int /\ \A x \in h.areaque : x \in Int /\ -1 <= x /\ x < h.size
  BY <1>1 DEF Areas, ENTRY
<1>. QED
  BY <1>1, <1>2, <1>3 DEF Tiled, WellFormed

\* knl_get_blk(): the area is in use; what is left of it is free, and no free
\* area has become larger.
LEMMA GetTiled ==
    ASSUME NEW h, NEW blocks, Tiled(h, blocks), NEW n \in Nat, n >= MIN_FRAGMENT,
           n <= knl_MaxFreeSize(h), NEW g, g = knl_get_blk(h, n)
    PROVE  /\ Tiled(g, blocks \cup {Taken(h, n)})
           /\ Taken(h, n) \in Int
           /\ knl_MaxFreeSize(g) <= knl_MaxFreeSize(h)
<1>0. PICK a : a = Taken(h, n)
  OBVIOUS
<1>1. n >= 2 /\ n \in Nat \ {0}
  BY DEF MIN_FRAGMENT
<1>2. /\ Sound(h) /\ Free(h) \cap blocks = {} /\ Free(h) \cup blocks = h.areaque
      /\ \A x \in h.areaque :
           /\ NextOf(h, x) \in h.areaque \cup {h.size} /\ NextOf(h, x) \in Int
           /\ NextOf(h, x) <= h.size /\ x \in Int /\ -1 <= x /\ x < h.size
           /\ NextOf(h, x) - (x + 1) >= 2
           /\ AreaSize(h, x) = NextOf(h, x) - (x + 1)
      /\ h.size \in Int
      /\ \A x \in Free(h) : NextOf(h, x) \notin Free(h)
  BY TiledIs
<1>3. a \in Free(h) /\ a \in h.areaque /\ AreaSize(h, a) >= n /\ a \in Int
  BY <1>0, <1>1, <1>2, TakenFits
<1>4. PICK r : r = knl_removeFreeQue(h, a)
  OBVIOUS
<1>5. /\ Sound(r) /\ Free(r) = Free(h) \ {a} /\ r.areaque = h.areaque /\ r.size = h.size
      /\ \A x : NextOf(r, x) = NextOf(h, x) /\ AreaSize(r, x) = AreaSize(h, x)
  BY <1>2, <1>3, <1>4, Removes, SameAreas
<1>6. CASE AreaSize(h, a) - n >= 3
  <2>1. PICK c \in Int : c = a + 1 + n
    BY <1>3
  <2>2. PICK k : k = [r EXCEPT !.areaque = @ \cup {c}]
    OBVIOUS
  <2>3. g = knl_appendFreeArea(k, c)
    BY <1>0, <1>4, <1>6, <2>1, <2>2 DEF knl_get_blk, ENTRY, MIN_FRAGMENT
  <2>4. /\ k = [areaque |-> h.areaque \cup {c}, freeque |-> r.freeque, size |-> h.size]
    BY <1>5, <2>2 DEF Sound, Areas
  <2>5. k.areaque = h.areaque \cup {c} /\ k.size = h.size /\ k.freeque = r.freeque
    BY <2>4
  <2>6. a < c /\ c < NextOf(h, a) /\ -1 <= c /\ c < h.size
    BY <1>1, <1>2, <1>3, <1>6, <2>1
  <2>7. Areas(k)
    BY <1>2, <2>4, <2>5, <2>6 DEF Areas, ENTRY
  <2>8. /\ NextOf(k, a) = c /\ NextOf(k, c) = NextOf(h, a)
        /\ \A x \in h.areaque \ {a} : NextOf(k, x) = NextOf(h, x)
        /\ c \notin h.areaque
    BY <1>3, <1>5, <2>5, <2>6, <2>7, AreaDivided DEF Sound
  <2>9. Sound(k) /\ Free(k) = Free(h) \ {a}
    <3>1. Free(r) \subseteq k.areaque /\ \A x \in Free(r) : NextOf(k, x) = NextOf(r, x)
      BY <1>2, <1>5, <2>5, <2>8
    <3>. QED
      BY <1>5, <2>5, <2>7, <3>1, StaysSound
  <2>10. /\ Sound(g) /\ Free(g) = (Free(h) \ {a}) \cup {c}
         /\ g.areaque = h.areaque \cup {c} /\ g.size = h.size
         /\ \A x : NextOf(g, x) = NextOf(k, x)
    <3>1. c \in k.areaque \ Free(k)
      BY <1>2, <2>5, <2>8, <2>9
    <3>. QED
      BY <2>3, <2>5, <2>9, <3>1, Registers, SameAreas
  <2>11. NextOf(h, a) - (c + 1) >= 2 /\ c - (a + 1) >= 2
    BY <1>1, <1>2, <1>3, <1>6, <2>1
  <2>12. \A x \in g.areaque : NextOf(g, x) - (x + 1) >= MIN_FRAGMENT
    BY <1>2, <2>8, <2>10, <2>11 DEF MIN_FRAGMENT
  <2>13. \A x \in Free(g) : NextOf(g, x) \notin Free(g)
    <3>1. ASSUME NEW x \in Free(h) \ {a} PROVE NextOf(g, x) \notin Free(g)
      <4>1. NextOf(g, x) = NextOf(h, x) /\ NextOf(h, x) \notin Free(h)
        BY <1>2, <2>8, <2>10
      <4>2. NextOf(h, x) # c
        BY <1>2, <2>6, <2>8
      <4>. QED
        BY <2>10, <4>1, <4>2
    <3>2. NextOf(g, c) \notin Free(g)
      <4>1. NextOf(g, c) = NextOf(h, a) /\ NextOf(h, a) \notin Free(h) /\ NextOf(h, a) # c
        BY <1>2, <1>3, <2>6, <2>8, <2>10
      <4>. QED
        BY <2>10, <4>1
    <3>. QED
      BY <2>10, <3>1, <3>2
  <2>14. Free(g) \cap (blocks \cup {a}) = {} /\ Free(g) \cup (blocks \cup {a}) = g.areaque
    BY <1>2, <1>3, <2>6, <2>8, <2>10
  <2>15. Tiled(g, blocks \cup {a})
    BY <2>10, <2>12, <2>13, <2>14, TiledIf
  <2>16. \A x \in Free(g) : AreaSize(g, x) <= knl_MaxFreeSize(h)
    <3>1. ASSUME NEW x \in Free(h) \ {a} PROVE AreaSize(g, x) <= knl_MaxFreeSize(h)
      <4>1. AreaSize(g, x) = AreaSize(h, x)
        BY <1>2, <2>8, <2>10 DEF AreaSize
      <4>. QED
        BY <1>2, <4>1, LargestIs
    <3>2. AreaSize(g, c) <= knl_MaxFreeSize(h)
      <4>1. AreaSize(g, c) = NextOf(h, a) - (c + 1)
        BY <2>8, <2>10 DEF AreaSize, ENTRY
      <4>2. AreaSize(h, a) <= knl_MaxFreeSize(h) /\ AreaSize(h, a) = NextOf(h, a) - (a + 1)
            /\ knl_MaxFreeSize(h) \in Nat
        BY <1>2, <1>3, LargestIs
      <4>. QED
        BY <1>2, <1>3, <2>6, <4>1, <4>2
    <3>. QED
      BY <2>10, <3>1, <3>2
  <2>17. knl_MaxFreeSize(g) <= knl_MaxFreeSize(h)
    <3>1. knl_MaxFreeSize(h) \in Nat
      BY <1>2, LargestIs
    <3>2. CASE knl_MaxFreeSize(g) = 0
      BY <3>1, <3>2
    <3>3. CASE knl_MaxFreeSize(g) # 0
      BY <2>10, <2>16, <3>3, LargestIs
    <3>. QED
      BY <3>2, <3>3
  <2>. QED
    BY <1>0, <1>3, <2>15, <2>17
<1>7. CASE ~(AreaSize(h, a) - n >= 3)
  <2>1. g = r
    BY <1>0, <1>4, <1>7 DEF knl_get_blk, ENTRY, MIN_FRAGMENT
  <2>2. \A x \in g.areaque : NextOf(g, x) - (x + 1) >= MIN_FRAGMENT
    BY <1>2, <1>5, <2>1 DEF MIN_FRAGMENT
  <2>3. \A x \in Free(g) : NextOf(g, x) \notin Free(g)
    BY <1>2, <1>5, <2>1
  <2>4. Free(g) \cap (blocks \cup {a}) = {} /\ Free(g) \cup (blocks \cup {a}) = g.areaque
    BY <1>2, <1>3, <1>5, <2>1
  <2>5. Tiled(g, blocks \cup {a})
    BY <1>5, <2>1, <2>2, <2>3, <2>4, TiledIf
  <2>6. knl_MaxFreeSize(g) <= knl_MaxFreeSize(h)
    <3>1. knl_MaxFreeSize(h) \in Nat /\ \A x \in Free(h) : AreaSize(h, x) <= knl_MaxFreeSize(h)
      BY <1>2, LargestIs
    <3>2. CASE knl_MaxFreeSize(g) = 0
      BY <3>1, <3>2
    <3>3. CASE knl_MaxFreeSize(g) # 0
      <4>1. PICK x \in Free(g) : AreaSize(g, x) = knl_MaxFreeSize(g)
        BY <1>5, <2>1, <3>3, LargestIs
      <4>. QED
        BY <1>5, <2>1, <3>1, <4>1
    <3>. QED
      BY <3>2, <3>3
  <2>. QED
    BY <1>0, <1>3, <2>5, <2>6
<1>. QED
  BY <1>6, <1>7

\* An area is taken out of the heap, its memory falls to the one in front.
LEMMA Removed ==
    ASSUME NEW h, Areas(h), NEW b, NEW g, g = knl_removeAreaQue(h, b)
    PROVE  /\ Areas(g) /\ g.areaque = h.areaque \ {b}
           /\ g.freeque = h.freeque /\ g.size = h.size
<1>1. g = [areaque |-> h.areaque \ {b}, freeque |-> h.freeque, size |-> h.size]
  BY DEF Areas, knl_removeAreaQue
<1>2. /\ g.areaque = h.areaque \ {b} /\ g.freeque = h.freeque /\ g.size = h.size
      /\ g = [areaque |-> g.areaque, freeque |-> g.freeque, size |-> g.size]
  BY <1>1
<1>. QED
  BY <1>2 DEF Areas

\* The first half of knl_rel_blk(): the merge with the next area.
LEMMA MergedWithNext ==
    ASSUME NEW h, NEW blocks, Tiled(h, blocks), NEW a \in blocks, NEW f,
           f = IF NextOf(h, a) \in Free(h) THEN Absorbed(h, NextOf(h, a)) ELSE h
    PROVE  /\ Tiled(f, blocks) /\ f.size = h.size
           /\ Free(f) = Free(h) \ {NextOf(h, a)}
           /\ f.areaque \subseteq h.areaque
           /\ NextOf(f, a) \notin Free(f)
           /\ \A x \in f.areaque \ {a} : NextOf(f, x) = NextOf(h, x)
<1>0. PICK b : b = NextOf(h, a)
  OBVIOUS
<1>1. /\ Sound(h) /\ Free(h) \cap blocks = {} /\ Free(h) \cup blocks = h.areaque
      /\ \A x \in h.areaque :
           /\ NextOf(h, x) \in h.areaque \cup {h.size} /\ NextOf(h, x) \in Int
           /\ NextOf(h, x) <= h.size /\ x \in Int /\ -1 <= x /\ x < h.size
           /\ NextOf(h, x) - (x + 1) >= 2
      /\ \A x \in Free(h) : NextOf(h, x) \notin Free(h)
  BY TiledIs
<1>2. CASE b \notin Free(h)
  BY <1>0, <1>2
<1>3. CASE b \in Free(h)
  <2>1. PICK r : r = knl_removeFreeQue(h, b)
    OBVIOUS
  <2>2. /\ Sound(r) /\ Free(r) = Free(h) \ {b} /\ r.areaque = h.areaque /\ r.size = h.size
        /\ \A x : NextOf(r, x) = NextOf(h, x)
    BY <1>1, <1>3, <2>1, Removes, SameAreas
  <2>3. f = knl_removeAreaQue(r, b)
    BY <1>0, <1>3, <2>1 DEF Absorbed
  <2>4. /\ Areas(f) /\ f.areaque = h.areaque \ {b} /\ f.freeque = r.freeque /\ f.size = h.size
    BY <2>2, <2>3, Removed DEF Sound
  <2>5. a \in h.areaque /\ b \in h.areaque /\ a # b
    BY <1>0, <1>1, <1>3
  <2>6. /\ a \in f.areaque /\ NextOf(f, a) = NextOf(h, b)
        /\ \A x \in f.areaque \ {a} : NextOf(f, x) = NextOf(h, x)
    <3>1. a \in r.areaque /\ NextOf(r, a) = b /\ b \in r.areaque /\ Areas(r)
          /\ f.areaque = r.areaque \ {b} /\ f.size = r.size
      BY <1>0, <2>2, <2>4, <2>5 DEF Sound
    <3>2. /\ a \in f.areaque /\ NextOf(f, a) = NextOf(r, NextOf(r, a))
          /\ \A x \in f.areaque \ {a} : NextOf(f, x) = NextOf(r, x)
      BY <2>4, <3>1, AreasMerged
    <3>. QED
      BY <2>2, <3>1, <3>2
  <2>7. Sound(f) /\ Free(f) = Free(h) \ {b}
    <3>1. Free(r) \subseteq f.areaque /\ \A x \in Free(r) : NextOf(f, x) = NextOf(r, x)
      BY <1>1, <2>2, <2>4, <2>6
    <3>. QED
      BY <2>2, <2>4, <3>1, StaysSound
  <2>8. \A x \in f.areaque : NextOf(f, x) - (x + 1) >= MIN_FRAGMENT
    <3>1. NextOf(f, a) - (a + 1) >= 2
      BY <1>0, <1>1, <2>5, <2>6
    <3>. QED
      BY <1>1, <2>4, <2>6, <3>1 DEF MIN_FRAGMENT
  <2>9. Free(f) \cap blocks = {} /\ Free(f) \cup blocks = f.areaque
    BY <1>1, <1>3, <2>4, <2>7
  <2>10. \A x \in Free(f) : NextOf(f, x) \notin Free(f)
    BY <1>1, <2>6, <2>7, <2>9
  <2>11. Tiled(f, blocks)
    BY <2>7, <2>8, <2>9, <2>10, TiledIf
  <2>12. NextOf(f, a) \notin Free(f)
    BY <1>1, <1>3, <2>6, <2>7
  <2>. QED
    BY <1>0, <2>4, <2>6, <2>7, <2>11, <2>12
<1>. QED
  BY <1>2, <1>3

\* knl_rel_blk(): the area is free, merged with its free neighbours.
LEMMA RelTiled ==
    ASSUME NEW h, NEW blocks, Tiled(h, blocks), NEW a \in blocks, NEW g, g = knl_rel_blk(h, a)
    PROVE  Tiled(g, blocks \ {a})
<1>1. PICK f : f = IF NextOf(h, a) \in Free(h) THEN Absorbed(h, NextOf(h, a)) ELSE h
  OBVIOUS
<1>2. /\ Tiled(f, blocks) /\ f.size = h.size
      /\ Free(f) = Free(h) \ {NextOf(h, a)}
      /\ f.areaque \subseteq h.areaque
      /\ NextOf(f, a) \notin Free(f)
      /\ \A x \in f.areaque \ {a} : NextOf(f, x) = NextOf(h, x)
  BY <1>1, MergedWithNext
<1>3. /\ Sound(f) /\ Free(f) \cap blocks = {} /\ Free(f) \cup blocks = f.areaque
      /\ \A x \in f.areaque :
           /\ NextOf(f, x) \in f.areaque \cup {f.size} /\ NextOf(f, x) \in Int
           /\ NextOf(f, x) <= f.size /\ x \in Int /\ -1 <= x /\ x < f.size
           /\ NextOf(f, x) - (x + 1) >= 2
      /\ \A x \in Free(f) : NextOf(f, x) \notin Free(f)
  BY <1>2, TiledIs
<1>4. PICK prev : prev = PrevOf(h, a) \cap Free(h)
  OBVIOUS
<1>5. a \in f.areaque /\ a \notin Free(f)
  BY <1>3
<1>6. CASE prev = {}
  <2>1. g = knl_appendFreeArea(f, a)
    BY <1>1, <1>4, <1>6 DEF knl_rel_blk
  <2>2. /\ Sound(g) /\ Free(g) = Free(f) \cup {a} /\ g.areaque = f.areaque
        /\ \A x : NextOf(g, x) = NextOf(f, x)
    BY <1>3, <1>5, <2>1, Registers, SameAreas
  <2>3. \A x \in Free(f) : NextOf(f, x) # a
    <3>1. ASSUME NEW x \in Free(f), NextOf(f, x) = a PROVE FALSE
      <4>1. x \in Free(h) /\ x \in h.areaque /\ NextOf(h, x) = a /\ x < a
        BY <1>2, <1>3, <1>5, <3>1
      <4>2. Areas(h) /\ a \in h.areaque
        BY <1>2, <1>5 DEF Tiled, Sound
      <4>3. \A y \in h.areaque : y > x => a <= y
        BY <4>1, <4>2, NextIs
      <4>4. \A y \in h.areaque : y < a => y <= x
        BY <4>1, <4>2, <4>3 DEF Areas
      <4>. QED
        BY <1>4, <1>6, <4>1, <4>4 DEF PrevOf
    <3>. QED
      BY <3>1
  <2>4. \A x \in Free(g) : NextOf(g, x) \notin Free(g)
    <3>1. NextOf(f, a) # a
      BY <1>3, <1>5
    <3>. QED
      BY <1>2, <1>3, <2>2, <2>3, <3>1
  <2>5. \A x \in g.areaque : NextOf(g, x) - (x + 1) >= MIN_FRAGMENT
    BY <1>3, <2>2 DEF MIN_FRAGMENT
  <2>6. Free(g) \cap (blocks \ {a}) = {} /\ Free(g) \cup (blocks \ {a}) = g.areaque
    BY <1>3, <1>5, <2>2
  <2>. QED
    BY <2>2, <2>4, <2>5, <2>6, TiledIf
<1>7. CASE prev # {}
  <2>1. PICK w : w = CHOOSE b \in prev : TRUE
    OBVIOUS
  <2>2. w \in prev
    BY <1>7, <2>1
  <2>3. PICK r : r = knl_removeFreeQue(f, w)
    OBVIOUS
  <2>4. PICK k : k = knl_removeAreaQue(r, a)
    OBVIOUS
  <2>5. g = knl_appendFreeArea(k, w)
    BY <1>1, <1>4, <1>7, <2>1, <2>3, <2>4 DEF knl_rel_blk
  <2>6. /\ w \in Free(h) /\ w \in h.areaque /\ w < a /\ Areas(h) /\ a \in h.areaque
        /\ \A x \in h.areaque : x < a => x <= w
    BY <1>2, <1>4, <1>5, <2>2 DEF PrevOf, Tiled, Sound
  <2>7. NextOf(h, w) = a
    <3>1. \A x \in h.areaque : x > w => a <= x
      BY <2>6 DEF Areas
    <3>. QED
      BY <2>6, <3>1, NextIsOnly
  <2>8. w \in Free(f) /\ w \in f.areaque /\ w # a /\ NextOf(f, w) = a
    <3>1. NextOf(h, a) > a
      BY <2>6, NextIs
    <3>2. w # NextOf(h, a)
      BY <2>6, <3>1 DEF Areas
    <3>. QED
      BY <1>2, <1>3, <1>5, <2>6, <2>7, <3>2
  <2>9. /\ Sound(r) /\ Free(r) = Free(f) \ {w} /\ r.areaque = f.areaque /\ r.size = f.size
        /\ \A x : NextOf(r, x) = NextOf(f, x)
    BY <1>3, <2>3, <2>8, Removes, SameAreas
  <2>10. /\ Areas(k) /\ k.areaque = f.areaque \ {a} /\ k.freeque = r.freeque /\ k.size = f.size
    BY <2>4, <2>9, Removed DEF Sound
  <2>11. /\ w \in k.areaque /\ NextOf(k, w) = NextOf(f, a)
         /\ \A x \in k.areaque \ {w} : NextOf(k, x) = NextOf(f, x)
    <3>1. w \in r.areaque /\ NextOf(r, w) = a /\ a \in r.areaque /\ Areas(r)
          /\ k.areaque = r.areaque \ {a} /\ k.size = r.size
      BY <1>5, <2>8, <2>9, <2>10 DEF Sound
    <3>2. /\ w \in k.areaque /\ NextOf(k, w) = NextOf(r, NextOf(r, w))
          /\ \A x \in k.areaque \ {w} : NextOf(k, x) = NextOf(r, x)
      BY <2>10, <3>1, AreasMerged
    <3>. QED
      BY <2>9, <3>1, <3>2
  <2>12. Sound(k) /\ Free(k) = Free(f) \ {w}
    <3>1. Free(r) \subseteq k.areaque /\ \A x \in Free(r) : NextOf(k, x) = NextOf(r, x)
      BY <1>3, <1>5, <2>9, <2>10, <2>11
    <3>. QED
      BY <2>9, <2>10, <3>1, StaysSound
  <2>13. /\ Sound(g) /\ Free(g) = Free(f) /\ g.areaque = f.areaque \ {a}
         /\ \A x : NextOf(g, x) = NextOf(k, x)
    <3>1. w \in k.areaque \ Free(k)
      BY <2>11, <2>12
    <3>2. /\ Sound(g) /\ Free(g) = Free(k) \cup {w} /\ g.areaque = k.areaque /\ g.size = k.size
      BY <2>5, <2>12, <3>1, Registers
    <3>3. \A x : NextOf(g, x) = NextOf(k, x)
      BY <3>2, SameAreas
    <3>. QED
      BY <2>8, <2>10, <2>12, <3>2, <3>3
  <2>14. \A x \in g.areaque : NextOf(g, x) - (x + 1) >= MIN_FRAGMENT
    <3>1. NextOf(f, a) - (w + 1) >= 2
      BY <1>3, <1>5, <2>8
    <3>. QED
      BY <1>3, <2>10, <2>11, <2>13, <3>1 DEF MIN_FRAGMENT
  <2>15. \A x \in Free(g) : NextOf(g, x) \notin Free(g)
    BY <1>2, <1>3, <1>5, <2>10, <2>11, <2>13
  <2>16. Free(g) \cap (blocks \ {a}) = {} /\ Free(g) \cup (blocks \ {a}) = g.areaque
    BY <1>3, <1>5, <2>13
  <2>. QED
    BY <2>13, <2>14, <2>15, <2>16, TiledIf
<1>. QED
  BY <1>6, <1>7

\* The areas in use are those of the blocks lent, and who waits asks for the
\* size of an area; the loop has the whole queue before it, or is over because
\* the first has not enough.
InUse == {EntryOf(blk) : blk \in lent}
MplInv ==
    /\ lent \subseteq Int /\ Tiled(heap, InUse)
    /\ \A t \in Range(queue["wait"]) : winfo[t] \in Nat /\ winfo[t] >= MIN_FRAGMENT
    /\ rest # << >> => rest = queue["wait"]
    /\ rest = << >> /\ queue["wait"] # << >> => winfo[Head(queue["wait"])] > knl_MaxFreeSize(heap)

\* A block is lent.
LEMMA Lent ==
    ASSUME MplInv, NEW n \in Nat, n >= MIN_FRAGMENT, n <= knl_MaxFreeSize(heap), knl_get_blk_of(n)
    PROVE  /\ lent' \subseteq Int /\ Tiled(heap', InUse')
           /\ knl_MaxFreeSize(heap') <= knl_MaxFreeSize(heap)
           /\ knl_MaxFreeSize(heap) \in Nat /\ knl_MaxFreeSize(heap') \in Nat
<1>1. PICK a : a = Taken(heap, n)
  OBVIOUS
<1>2. heap' = knl_get_blk(heap, n) /\ lent' = lent \cup {a + 1}
  BY <1>1 DEF knl_get_blk_of, Got, Block, ENTRY
<1>3. Tiled(heap, InUse) /\ lent \subseteq Int
  BY DEF MplInv
<1>4. /\ Tiled(heap', InUse \cup {a}) /\ a \in Int
      /\ knl_MaxFreeSize(heap') <= knl_MaxFreeSize(heap)
  BY <1>1, <1>2, <1>3, GetTiled
<1>5. InUse' = InUse \cup {a}
  <2>1. EntryOf(a + 1) = a
    BY <1>4 DEF EntryOf, ENTRY
  <2>. QED
    BY <1>2, <2>1 DEF InUse
<1>6. knl_MaxFreeSize(heap) \in Nat /\ knl_MaxFreeSize(heap') \in Nat
  BY <1>3, <1>4, LargestIs DEF Tiled
<1>. QED
  BY <1>2, <1>3, <1>4, <1>5, <1>6

\* A block is returned.
LEMMA Returned ==
    ASSUME lent \subseteq Int, Tiled(heap, InUse), NEW blk \in lent,
           heap' = knl_rel_blk(heap, EntryOf(blk)), lent' = lent \ {blk}
    PROVE  lent' \subseteq Int /\ Tiled(heap', InUse')
<1>1. EntryOf(blk) \in InUse
  BY DEF InUse
<1>2. InUse' = InUse \ {EntryOf(blk)}
  <2>1. \A x, y \in lent : EntryOf(x) = EntryOf(y) => x = y
    <3>1. \A x, y \in lent : x \in Int /\ y \in Int
      OBVIOUS
    <3>. QED
      BY <3>1 DEF EntryOf, ENTRY
  <2>. QED
    BY <2>1 DEF InUse
<1>. QED
  BY <1>1, <1>2, RelTiled

\* A pool nothing has been lent of.
LEMMA NothingLent ==
    ASSUME heap' = init_mempool, lent' = {}
    PROVE  lent' \subseteq Int /\ Tiled(heap', InUse')
<1>1. heap' = Empty(-ENTRY, MplSz) /\ InUse' = {}
  BY DEF init_mempool, InUse
<1>2. Tiled(heap', {})
  BY <1>1, EmptyTiled, MplAssumption
<1>. QED
  BY <1>1, <1>2

\* The heap stays.
LEMMA HeapStays ==
    ASSUME MplInv, UNCHANGED mplvars
    PROVE  /\ lent' \subseteq Int /\ Tiled(heap', InUse')
           /\ knl_MaxFreeSize(heap') = knl_MaxFreeSize(heap)
BY DEF MplInv, mplvars, InUse

\* The size a task waits for.
LEMMA RoundedSize ==
    ASSUME NEW sz \in BlkSz
    PROVE  roundSize(sz) \in Nat /\ roundSize(sz) >= MIN_FRAGMENT
BY MplAssumption DEF roundSize, MIN_FRAGMENT

\* Every call on a variable-size pool, every turn of the loop and every release.
LEMMA MplStep ==
    ASSUME ObjectInv, kind = "mpl", kind' = kind, MplInv, MplNext
    PROVE  MplInv'
<1>. USE DEF ObjectInv
<1>0. /\ Served = "wait" /\ "wait" \in Used /\ "wait" \in Queue /\ (tpri <=> ByPriority("wait"))
      /\ Range(<< >>) = {}
  BY OneQueue DEF Range
<1>1. ASSUME NEW bypri \in BOOLEAN, tk_cre_mpl(bypri)
      PROVE  MplInv'
  BY <1>0, <1>1, CreateDoes, NothingLent DEF tk_cre_mpl, MplInv
<1>2. CASE tk_del_mpl
  BY <1>0, <1>2, DeleteDoes, NothingLent DEF tk_del_mpl, MplInv
<1>3. ASSUME NEW blk \in lent, tk_rel_mpl(blk)
      PROVE  MplInv'
  <2>1. lent' \subseteq Int /\ Tiled(heap', InUse')
    BY <1>3, Returned DEF tk_rel_mpl, MplInv
  <2>. QED
    BY <1>0, <1>3, <2>1 DEF tk_rel_mpl, MplInv, gcb, tcb
<1>4. CASE knl_mpl_wakeup
  <2>0. PICK t : t = Head(rest)
    OBVIOUS
  <2>1. /\ rest # << >> /\ t \in Task /\ t \in Range(queue["wait"])
        /\ t = Head(queue["wait"])
        /\ winfo[t] \in Nat /\ winfo[t] >= MIN_FRAGMENT
    BY <1>0, <1>4, <2>0, NextServed DEF knl_mpl_wakeup, MplInv
  <2>2. CASE winfo[t] > knl_MaxFreeSize(heap) /\ rest' = << >> /\ UNCHANGED <<gcb, tcb, mplvars>>
    BY <1>0, <2>1, <2>2, HeapStays DEF MplInv, gcb, tcb
  <2>3. CASE /\ winfo[t] <= knl_MaxFreeSize(heap)
             /\ knl_get_blk_of(winfo[t])
             /\ ReleaseOk(t, "wait", Got(winfo[t]))
             /\ rest' = Tail(rest)
    <3>1. /\ Range(queue'["wait"]) = Range(queue["wait"]) \ {t}
          /\ queue'["wait"] = Tail(queue["wait"])
          /\ \A u \in Task \ {t} : winfo'[u] = winfo[u]
      BY <1>0, <2>1, <2>3, ReleaseOkDoes
    <3>2. \A u \in Range(queue["wait"]) : u \in Task
      BY <1>0, QueueOfTasks
    <3>3. lent' \subseteq Int /\ Tiled(heap', InUse')
      BY <2>1, <2>3, Lent
    <3>4. rest' = queue'["wait"]
      BY <2>1, <2>3, <3>1 DEF MplInv
    <3>. QED
      BY <3>1, <3>2, <3>3, <3>4 DEF MplInv
  <2>. QED
    BY <1>4, <2>0, <2>2, <2>3 DEF knl_mpl_wakeup
<1>5. ASSUME NEW t \in Task, NEW sz \in BlkSz, tk_get_mpl(t, sz)
      PROVE  MplInv'
  <2>0. PICK n : n = roundSize(sz)
    OBVIOUS
  <2>1. /\ tstat[t] = "run" /\ exists /\ rest = << >> /\ n \in Nat /\ n >= MIN_FRAGMENT
        /\ knl_MaxFreeSize(heap) \in Nat
    BY <1>5, <2>0, RoundedSize, LargestIs DEF tk_get_mpl, Calls, Unlocked, MplInv, Tiled
  <2>2. CASE /\ n <= knl_MaxFreeSize(heap) /\ Completes(t, Got(n)) /\ knl_get_blk_of(n)
             /\ UNCHANGED rest
    <3>1. /\ lent' \subseteq Int /\ Tiled(heap', InUse')
          /\ knl_MaxFreeSize(heap') <= knl_MaxFreeSize(heap) /\ knl_MaxFreeSize(heap') \in Nat
      BY <2>1, <2>2, Lent
    <3>2. queue' = queue /\ winfo' = winfo /\ rest' = << >>
      BY <2>1, <2>2 DEF Completes, gcb
    <3>3. queue["wait"] # << >> => Head(queue["wait"]) \in Range(queue["wait"])
      BY <1>0, HeadWaits
    <3>4. queue["wait"] # << >> => winfo[Head(queue["wait"])] > knl_MaxFreeSize(heap')
      BY <2>1, <3>1, <3>3 DEF MplInv
    <3>. QED
      BY <3>1, <3>2, <3>4 DEF MplInv
  <2>3. CASE /\ ~(IsTop("wait", t) /\ n <= knl_MaxFreeSize(heap))
             /\ MakeWait(t, "wait", n, tpri) /\ UNCHANGED mplvars
    <3>1. /\ Range(queue'["wait"]) = Range(queue["wait"]) \cup {t} /\ t \notin Range(queue["wait"])
          /\ winfo'[t] = n /\ \A u \in Task \ {t} : winfo'[u] = winfo[u]
          /\ queue'["wait"] # << >>
          /\ \/ Head(queue'["wait"]) = t /\ IsTop("wait", t)
             \/ queue["wait"] # << >> /\ Head(queue'["wait"]) = Head(queue["wait"])
      BY <1>0, <2>1, <2>3, MakeWaitDoes
    <3>2. queue["wait"] # << >> => Head(queue["wait"]) \in Range(queue["wait"])
      BY <1>0, HeadWaits
    <3>3. \A u \in Range(queue["wait"]) : u \in Task /\ winfo'[u] = winfo[u]
      BY <1>0, <3>1, QueueOfTasks
    <3>4. rest' = << >>
      BY <2>3 DEF MakeWait
    <3>5. /\ lent' \subseteq Int /\ Tiled(heap', InUse')
          /\ knl_MaxFreeSize(heap') = knl_MaxFreeSize(heap)
      BY <2>3, HeapStays
    <3>6. winfo'[Head(queue'["wait"])] > knl_MaxFreeSize(heap)
      BY <2>1, <2>3, <3>1, <3>2, <3>3 DEF MplInv
    <3>7. \A u \in Range(queue'["wait"]) : winfo'[u] \in Nat /\ winfo'[u] >= MIN_FRAGMENT
      BY <2>1, <3>1, <3>3 DEF MplInv
    <3>. QED
      BY <3>4, <3>5, <3>6, <3>7 DEF MplInv
  <2>. QED
    BY <1>5, <2>0, <2>2, <2>3 DEF tk_get_mpl
<1>6. ASSUME NEW t \in Task, mpl_rel_wai(t)
      PROVE  MplInv'
  <2>1. /\ rest = << >> /\ Range(queue'["wait"]) = Range(queue["wait"]) \ {t}
        /\ \A u \in Task \ {t} : winfo'[u] = winfo[u]
        /\ t \in Range(queue["wait"])
    BY <1>0, <1>6, WithdrawnDoes DEF mpl_rel_wai
  <2>2. \A u \in Range(queue'["wait"]) : u \in Range(queue["wait"]) /\ winfo'[u] = winfo[u]
    BY <1>0, <2>1, QueueOfTasks
  <2>3. rest' = queue'["wait"] /\ lent' \subseteq Int /\ Tiled(heap', InUse')
    BY <1>6, HeapStays DEF mpl_rel_wai
  <2>. QED
    BY <2>2, <2>3 DEF MplInv
<1>7. ASSUME NEW t \in Task, NEW p \in Pri, mpl_chg_pri(t, p)
      PROVE  MplInv'
  <2>1. rest = << >> /\ winfo' = winfo /\ Range(queue'["wait"]) = Range(queue["wait"])
    BY <1>0, <1>7, ReorderedDoes DEF mpl_chg_pri
  <2>2. rest' = queue'["wait"] /\ lent' \subseteq Int /\ Tiled(heap', InUse')
    BY <1>7, HeapStays DEF mpl_chg_pri
  <2>. QED
    BY <2>1, <2>2 DEF MplInv
<1>8. ASSUME NEW t \in Task, NEW p \in Pri, UNCHANGED mplvars,
             ChangePriority(t, p, IF tpri THEN {"wait"} ELSE {})
      PROVE  MplInv'
  BY <1>8, HeapStays DEF MplInv, ChangePriority, gcb
<1>9. ASSUME NEW t \in Task, Return(t), UNCHANGED mplvars
      PROVE  MplInv'
  BY <1>9, HeapStays DEF MplInv, Return, gcb
<1>. QED
  BY <1>1, <1>2, <1>3, <1>4, <1>5, <1>6, <1>7, <1>8, <1>9 DEF MplNext
-----------------------------------------------------------------------------
(***************************************************************************)
(* The ring of a message buffer.                                           *)
(***************************************************************************)
\* Offsets at which headers are.
Unit(x) == \E k \in Int : x = k * HEADERSZ

\* Sums and differences of such offsets.
LEMMA UnitSums ==
    ASSUME NEW x \in Int, NEW y \in Int, Unit(x), Unit(y)
    PROVE  Unit(x + y) /\ Unit(x - y)
<1>1. HEADERSZ \in Nat
  BY MbfAssumption
<1>2. PICK k \in Int, l \in Int : x = k * HEADERSZ /\ y = l * HEADERSZ
  BY DEF Unit
<1>3. x + y = (k + l) * HEADERSZ /\ x - y = (k - l) * HEADERSZ
  BY <1>1, <1>2
<1>4. k + l \in Int /\ k - l \in Int
  OBVIOUS
<1>. QED
  BY <1>3, <1>4 DEF Unit

\* The same, of natural numbers.
LEMMA UnitOffsets ==
    ASSUME NEW x \in Nat, NEW y \in Nat, Unit(x), Unit(y)
    PROVE  Unit(x + y) /\ Unit(x - y) /\ x + y \in Nat /\ x - y \in Int
<1>1. x \in Int /\ y \in Int
  OBVIOUS
<1>. QED
  BY <1>1, UnitSums

\* The first two of them.
LEMMA UnitHeader == Unit(0) /\ Unit(HEADERSZ) /\ HEADERSZ \in Nat \ {0}
<1>1. HEADERSZ \in Nat \ {0}
  BY MbfAssumption
<1>2. 0 = 0 * HEADERSZ /\ HEADERSZ = 1 * HEADERSZ
  BY <1>1
<1>. QED
  BY <1>1, <1>2 DEF Unit

\* Between two of them there is room for a header.
LEMMA UnitNext ==
    ASSUME NEW x \in Int, NEW y \in Int, Unit(x), Unit(y), x < y
    PROVE  x + HEADERSZ <= y
<1>1. HEADERSZ \in Nat \ {0}
  BY MbfAssumption
<1>2. PICK k \in Int, l \in Int : x = k * HEADERSZ /\ y = l * HEADERSZ
  BY DEF Unit
<1>3. k < l
  <2>1. CASE l <= k
    <3>1. l * HEADERSZ <= k * HEADERSZ
      BY <1>1, <2>1
    <3>. QED
      BY <1>2, <3>1
  <2>. QED
    BY <2>1
<1>4. PICK d \in Nat : l = k + 1 + d
  <2>1. l - k - 1 \in Nat /\ l = k + 1 + (l - k - 1)
    BY <1>3
  <2>. QED
    BY <2>1
<1>5. y = x + HEADERSZ + d * HEADERSZ
  BY <1>1, <1>2, <1>4
<1>6. d * HEADERSZ \in Nat
  BY <1>1
<1>. QED
  BY <1>1, <1>5, <1>6

\* ROUNDSZ() of a number is the first offset that is not smaller.
LEMMA RoundUp ==
    ASSUME NEW n \in Nat
    PROVE  /\ Unit(ROUNDSZ(n)) /\ ROUNDSZ(n) \in Nat
           /\ n <= ROUNDSZ(n) /\ ROUNDSZ(n) < n + HEADERSZ
<1>1. HEADERSZ \in Nat \ {0}
  BY MbfAssumption
<1>2. PICK d : d = (n + HEADERSZ - 1) \div HEADERSZ
  OBVIOUS
<1>3. /\ d \in Nat /\ d * HEADERSZ <= n + HEADERSZ - 1
      /\ n + HEADERSZ - 1 < (d + 1) * HEADERSZ
  BY <1>1, <1>2
<1>4. ROUNDSZ(n) = d * HEADERSZ
  BY <1>2 DEF ROUNDSZ
<1>5. (d + 1) * HEADERSZ = d * HEADERSZ + HEADERSZ
  BY <1>1, <1>3
<1>6. d * HEADERSZ \in Nat
  BY <1>1, <1>3
<1>. QED
  BY <1>1, <1>3, <1>4, <1>5, <1>6 DEF Unit

\* What fits before such an offset also fits when it is rounded up.
LEMMA RoundFits ==
    ASSUME NEW n \in Nat, NEW x \in Int, Unit(x), n <= x
    PROVE  ROUNDSZ(n) <= x
<1>1. /\ Unit(ROUNDSZ(n)) /\ ROUNDSZ(n) \in Nat /\ ROUNDSZ(n) < n + HEADERSZ
      /\ HEADERSZ \in Nat
  BY RoundUp, MbfAssumption
<1>2. ~(x < ROUNDSZ(n))
  BY <1>1, UnitNext
<1>. QED
  BY <1>1, <1>2

\* Rounding up the rest of a message, after a part that ends at such an offset.
LEMMA RoundRest ==
    ASSUME NEW n \in Nat, NEW x \in Nat, Unit(x), x <= n
    PROVE  ROUNDSZ(n - x) = ROUNDSZ(n) - x
<1>1. n - x \in Nat
  OBVIOUS
<1>2. PICK r \in Nat : r = ROUNDSZ(n) /\ Unit(r) /\ n <= r /\ r < n + HEADERSZ
  BY RoundUp
<1>3. PICK s \in Nat : s = ROUNDSZ(n - x) /\ Unit(s) /\ n - x <= s /\ s < (n - x) + HEADERSZ
  BY <1>1, RoundUp
<1>4. HEADERSZ \in Nat
  BY MbfAssumption
<1>5. Unit(r - x) /\ r - x \in Int
  <2>1. r \in Int /\ x \in Int /\ Unit(r) /\ Unit(x)
    BY <1>2
  <2>. QED
    BY <2>1, UnitSums
<1>6. s <= r - x
  BY <1>1, <1>2, <1>3, <1>5, RoundFits
<1>7. ~(s < r - x)
  <2>1. s < r - x => s + HEADERSZ <= r - x
    BY <1>3, <1>5, UnitNext
  <2>. QED
    BY <1>2, <1>3, <1>4, <2>1
<1>. QED
  BY <1>2, <1>3, <1>5, <1>6, <1>7

-----------------------------------------------------------------------------
\* The offsets of a ring.
Ringed(h) == bufsz \in Nat /\ Unit(bufsz) /\ h \in Nat /\ Unit(h) /\ (h < bufsz \/ (bufsz = 0 /\ h = 0))

\* It is an offset of the ring.
LEMMA PlaceIs ==
    ASSUME NEW h, Ringed(h), NEW x \in 0 .. bufsz
    PROVE  /\ Place(h, x) \in Nat /\ (Place(h, x) < bufsz \/ (bufsz = 0 /\ Place(h, x) = 0))
           /\ Unit(x) => Unit(Place(h, x)) /\ Ringed(Place(h, x))
<1>1. /\ Place(h, x) \in Nat /\ (Place(h, x) < bufsz \/ (bufsz = 0 /\ Place(h, x) = 0))
  <2>1. PICK b \in Nat, g \in Nat, y \in Nat : b = bufsz /\ g = h /\ y = x
    BY DEF Ringed
  <2>2. y <= b /\ (g < b \/ (b = 0 /\ g = 0))
    BY <2>1 DEF Ringed
  <2>3. Place(h, x) = IF g + y >= b THEN g + y - b ELSE g + y
    BY <2>1 DEF Place
  <2>4. PICK p : p = Place(h, x)
    OBVIOUS
  <2>5. CASE g + y >= b
    <3>1. p = g + y - b
      BY <2>3, <2>4, <2>5
    <3>2. p \in Nat /\ (p < b \/ (b = 0 /\ p = 0))
      BY <2>2, <2>5, <3>1
    <3>. QED
      BY <2>1, <2>4, <3>2
  <2>6. CASE ~(g + y >= b)
    <3>1. p = g + y
      BY <2>3, <2>4, <2>6
    <3>2. p \in Nat /\ p < b
      BY <2>2, <2>6, <3>1
    <3>. QED
      BY <2>1, <2>4, <3>2
  <2>. QED
    BY <2>5, <2>6
<1>2. ASSUME Unit(x) PROVE Unit(Place(h, x))
  <2>1. Unit(h + x) /\ h \in Int /\ x \in Int /\ bufsz \in Int
    BY <1>2, UnitSums DEF Ringed
  <2>2. Unit((h + x) - bufsz)
    BY <2>1, UnitSums DEF Ringed
  <2>. QED
    BY <2>1, <2>2 DEF Place
<1>. QED
  BY <1>1, <1>2 DEF Ringed

\* No two of them are in one place.
LEMMA PlaceApart ==
    ASSUME NEW h, Ringed(h), NEW x \in Nat, NEW y \in Nat, x < bufsz, y < bufsz, x # y
    PROVE  Place(h, x) # Place(h, y)
BY DEF Place, Ringed

\* The way goes on.
LEMMA PlaceSum ==
    ASSUME NEW h, Ringed(h), NEW x \in Nat, NEW y \in Nat, x + y <= bufsz
    PROVE  Place(Place(h, x), y) = Place(h, x + y)
BY DEF Place, Ringed

\* The bytes of a message follow its header, and the next header follows them.
LEMMA ByteIs ==
    ASSUME NEW i, Ringed(i), NEW k \in Nat \ {0}, k <= bufsz
    PROVE  ByteAt(i, k) = Place(i, k - 1)
BY DEF ByteAt, Place, Ringed

\* A message starts behind its header.
LEMMA HeaderIs ==
    ASSUME NEW i, Ringed(i), i < bufsz
    PROVE  Wrapped(i + HEADERSZ) = Place(i, HEADERSZ)
<1>1. i + HEADERSZ <= bufsz /\ HEADERSZ \in Nat
  BY UnitNext, UnitHeader DEF Ringed
<1>. QED
  BY <1>1 DEF Wrapped, Place, Ringed

\* The offset behind a message, whether it wraps or not.
LEMMA BehindIs ==
    ASSUME NEW i, Ringed(i), i < bufsz, NEW n \in Nat, ROUNDSZ(n) <= bufsz
    PROVE  Behind(i, n) = Place(i, ROUNDSZ(n))
<1>1. PICK r \in Nat : r = ROUNDSZ(n) /\ n <= r
  BY RoundUp
<1>2. /\ bufsz - i \in Nat /\ Unit(bufsz - i) /\ i \in Nat /\ bufsz \in Nat
  BY UnitSums DEF Ringed
<1>3. CASE bufsz - i < n
  <2>1. ROUNDSZ(n - (bufsz - i)) = r - (bufsz - i)
    BY <1>1, <1>2, <1>3, RoundRest
  <2>2. Behind(i, n) = Wrapped(r - (bufsz - i))
    BY <1>3, <2>1 DEF Behind
  <2>3. r - (bufsz - i) < bufsz /\ i + r >= bufsz
    BY <1>1, <1>2, <1>3
  <2>. QED
    BY <1>1, <1>2, <2>2, <2>3 DEF Wrapped, Place
<1>4. CASE ~(bufsz - i < n)
  <2>1. r <= bufsz - i
    BY <1>1, <1>2, <1>4, RoundFits
  <2>2. Behind(i, n) = Wrapped(i + r)
    BY <1>1, <1>4 DEF Behind
  <2>. QED
    BY <1>1, <1>2, <2>1, <2>2 DEF Wrapped, Place
<1>. QED
  BY <1>3, <1>4

-----------------------------------------------------------------------------
\* Where the bytes of a message are, and where the next message begins, if it
\* begins x behind h and fits.
LEMMA BytesBehind ==
    ASSUME NEW h, Ringed(h), NEW x \in Nat, Unit(x), NEW n \in Nat \ {0}, x + HEADERSZ + n <= bufsz
    PROVE  LET p == Place(h, x)
               i == Wrapped(p + HEADERSZ)
           IN  /\ Ringed(p) /\ p \in 0 .. bufsz - 1
               /\ Ringed(i) /\ i \in 0 .. bufsz - 1
               /\ \A k \in 1 .. n : ByteAt(i, k) = Place(h, x + HEADERSZ + (k - 1))
               /\ Behind(i, n) = Place(h, x + HEADERSZ + ROUNDSZ(n))
<1>1. PICK b \in Nat : b = bufsz /\ Unit(b)
  BY DEF Ringed
<1>2. HEADERSZ \in Nat \ {0} /\ Unit(HEADERSZ)
  BY UnitHeader
<1>3. PICK r \in Nat : r = ROUNDSZ(n) /\ Unit(r) /\ n <= r
  BY RoundUp
<1>4. x + HEADERSZ + r <= b /\ r <= b
  <2>1. Unit(b - x) /\ b - x \in Int
    BY <1>1, UnitOffsets
  <2>2. Unit((b - x) - HEADERSZ)
    BY <1>2, <2>1, UnitSums
  <2>3. r <= (b - x) - HEADERSZ
    BY <1>1, <1>2, <1>3, <2>2, RoundFits
  <2>. QED
    BY <1>1, <1>2, <1>3, <2>3
<1>5. PICK p : p = Place(h, x)
  OBVIOUS
<1>6. Ringed(p) /\ p \in Nat /\ p < b
  BY <1>1, <1>2, <1>5, PlaceIs
<1>7. PICK i : i = Wrapped(p + HEADERSZ)
  OBVIOUS
<1>8. i = Place(h, x + HEADERSZ) /\ Ringed(i) /\ i \in Nat /\ i < b
  <2>1. i = Place(p, HEADERSZ)
    BY <1>1, <1>6, <1>7, HeaderIs
  <2>2. Place(p, HEADERSZ) = Place(h, x + HEADERSZ)
    BY <1>1, <1>2, <1>5, PlaceSum
  <2>3. x + HEADERSZ \in 0 .. bufsz /\ Unit(x + HEADERSZ) /\ bufsz # 0
    <3>1. Unit(x + HEADERSZ)
      BY <1>2, UnitOffsets
    <3>. QED
      BY <1>1, <1>2, <3>1
  <2>. QED
    BY <1>1, <2>1, <2>2, <2>3, PlaceIs
<1>9. ASSUME NEW k \in 1 .. n
      PROVE  ByteAt(i, k) = Place(h, x + HEADERSZ + (k - 1))
  <2>1. k \in Nat \ {0} /\ k <= bufsz /\ k - 1 \in Nat /\ x + HEADERSZ \in Nat
        /\ (x + HEADERSZ) + (k - 1) <= bufsz
    BY <1>1, <1>2
  <2>2. ByteAt(i, k) = Place(i, k - 1)
    BY <1>8, <2>1, ByteIs
  <2>3. Place(Place(h, x + HEADERSZ), k - 1) = Place(h, (x + HEADERSZ) + (k - 1))
    BY <2>1, PlaceSum
  <2>. QED
    BY <1>8, <2>2, <2>3
<1>10. Behind(i, n) = Place(h, x + HEADERSZ + r)
  <2>1. Behind(i, n) = Place(i, r)
    BY <1>1, <1>3, <1>4, <1>8, BehindIs
  <2>2. x + HEADERSZ \in Nat /\ (x + HEADERSZ) + r <= bufsz
    BY <1>1, <1>2, <1>3, <1>4
  <2>3. Place(Place(h, x + HEADERSZ), r) = Place(h, (x + HEADERSZ) + r)
    BY <1>3, <2>2, PlaceSum
  <2>. QED
    BY <1>8, <2>1, <2>3
<1>11. p \in 0 .. bufsz - 1 /\ i \in 0 .. bufsz - 1
  BY <1>1, <1>6, <1>8
<1>. QED
  BY <1>3, <1>5, <1>6, <1>7, <1>8, <1>9, <1>10, <1>11

\* Message m is in the ring, x behind the first one.
MessageAt(m, x) ==
    /\ buffer[Place(head, x)] = MsgSz[m]
    /\ Stored(Place(head, x)) = Bytes(m)

\* The messages are where their sizes say, each behind the one before.
Laid(at) ==
    /\ held \in Seq(Msg) /\ at \in [1 .. Len(held) + 1 -> Nat]
    /\ at[1] = 0 /\ at[Len(held) + 1] = bufsz - frbufsz
    /\ \A i \in 1 .. Len(held) + 1 : Unit(at[i]) /\ at[i] <= bufsz - frbufsz
    /\ \A i, j \in 1 .. Len(held) + 1 : i < j => at[i] < at[j]
    /\ \A i \in 1 .. Len(held) :
         /\ at[i + 1] = at[i] + HEADERSZ + ROUNDSZ(MsgSz[held[i]])
         /\ MessageAt(held[i], at[i])
Offsets ==
    /\ Ringed(head) /\ DOMAIN buffer = 0 .. bufsz - 1
    /\ frbufsz \in 0 .. bufsz /\ Unit(frbufsz)
    /\ tail = Place(head, bufsz - frbufsz)
RingInv == Offsets /\ \E at : Laid(at)

\* A new ring.
LEMMA RingFresh ==
    ASSUME NEW n \in Nat, Unit(n), bufsz' = n, frbufsz' = n, head' = 0, tail' = 0,
           DOMAIN buffer' = 0 .. n - 1, held' = << >>
    PROVE  RingInv'
<1>1. Ringed(head)'
  BY UnitHeader DEF Ringed
<1>2. Offsets'
  BY <1>1 DEF Offsets, Place
<1>3. PICK at : at = [i \in 1 .. 1 |-> 0]
  OBVIOUS
<1>4. Laid(at)'
  <2>1. << >> \in Seq(Msg) /\ Len(<< >>) = 0
    OBVIOUS
  <2>2. at \in [1 .. Len(<< >>) + 1 -> Nat] /\ \A i \in 1 .. 1 : at[i] = 0
    BY <1>3, <2>1
  <2>3. n - n = 0 /\ Unit(0)
    BY UnitHeader
  <2>. QED
    BY <2>1, <2>2, <2>3 DEF Laid, Unit
<1>. QED
  BY <1>2, <1>4 DEF RingInv

\* What is where in a ring.
LEMMA RingNumbers ==
    ASSUME RingInv
    PROVE  /\ bufsz \in Nat /\ frbufsz \in Nat /\ frbufsz <= bufsz
           /\ bufsz - frbufsz \in Nat /\ bufsz - frbufsz <= bufsz
           /\ Unit(bufsz) /\ Unit(frbufsz) /\ Unit(bufsz - frbufsz)
           /\ Ringed(head) /\ tail = Place(head, bufsz - frbufsz)
           /\ DOMAIN buffer = 0 .. bufsz - 1
<1>1. /\ bufsz \in Nat /\ frbufsz \in Nat /\ Unit(bufsz) /\ Unit(frbufsz) /\ frbufsz <= bufsz
  BY DEF RingInv, Offsets, Ringed
<1>2. bufsz - frbufsz \in Nat /\ Unit(bufsz - frbufsz) /\ bufsz - frbufsz <= bufsz
  BY <1>1, UnitOffsets
<1>. QED
  BY <1>1, <1>2 DEF RingInv, Offsets

\* A message whose bytes are not written stays, also when s bytes in front of
\* it are given up.
LEMMA MessageStays ==
    ASSUME Ringed(head), NEW m \in Msg, NEW x \in Nat, Unit(x), NEW s \in Nat, s <= x,
           x + HEADERSZ + MsgSz[m] <= bufsz, MessageAt(m, x),
           bufsz' = bufsz, head' = Place(head, s),
           \A y \in Nat : x <= y /\ y < x + HEADERSZ + MsgSz[m]
                            => buffer'[Place(head, y)] = buffer[Place(head, y)]
    PROVE  MessageAt(m, x - s)'
<1>1. PICK n \in Nat \ {0} : n = MsgSz[m]
  BY MbfAssumption
<1>2. HEADERSZ \in Nat \ {0}
  BY UnitHeader
<1>3. PICK p : p = Place(head, x)
  OBVIOUS
<1>4. PICK i : i = Wrapped(p + HEADERSZ)
  OBVIOUS
<1>5. \A k \in 1 .. n : ByteAt(i, k) = Place(head, x + HEADERSZ + (k - 1))
  BY <1>1, <1>3, <1>4, BytesBehind
<1>6. buffer'[p] = n
  <2>1. x <= x /\ x < x + HEADERSZ + n
    BY <1>1, <1>2
  <2>. QED
    BY <1>1, <1>3, <2>1 DEF MessageAt
<1>7. \A k \in 1 .. n : buffer'[ByteAt(i, k)] = buffer[ByteAt(i, k)]
  <2>1. ASSUME NEW k \in 1 .. n
        PROVE  buffer'[ByteAt(i, k)] = buffer[ByteAt(i, k)]
    <3>1. PICK y \in Nat : y = x + HEADERSZ + (k - 1)
      BY <1>2
    <3>2. x <= y /\ y < x + HEADERSZ + n
      BY <1>2, <3>1
    <3>3. buffer'[Place(head, y)] = buffer[Place(head, y)]
      BY <1>1, <3>2
    <3>. QED
      BY <1>5, <3>1, <3>3
  <2>. QED
    BY <2>1
<1>8. Stored(p)' = [k \in 1 .. n |-> buffer'[ByteAt(i, k)]]
  BY <1>4, <1>6 DEF Stored, ByteAt, Wrapped
<1>9. Stored(p) = [k \in 1 .. n |-> buffer[ByteAt(i, k)]] /\ Stored(p) = Bytes(m)
  BY <1>1, <1>3, <1>4 DEF Stored, MessageAt
<1>10. Place(head, x - s)' = p
  <2>1. x - s \in Nat /\ s + (x - s) = x /\ x <= bufsz
    <3>1. PICK b \in Nat : b = bufsz
      BY DEF Ringed
    <3>. QED
      BY <1>1, <1>2, <3>1
  <2>2. Place(Place(head, s), x - s) = Place(head, s + (x - s))
    BY <2>1, PlaceSum
  <2>3. Place(head, x - s)' = Place(Place(head, s), x - s)
    BY DEF Place
  <2>. QED
    BY <1>3, <2>1, <2>2, <2>3
<1>11. Stored(p)' = Bytes(m)
  BY <1>7, <1>8, <1>9
<1>. QED
  BY <1>1, <1>6, <1>10, <1>11 DEF MessageAt, Stored, Bytes

\* knl_msg_to_mbf(): the message is behind all the others.
LEMMA RingStored ==
    ASSUME RingInv, NEW m \in Msg, knl_mbf_free(m), knl_msg_to_mbf(m), UNCHANGED <<bufsz, head>>
    PROVE  RingInv' /\ frbufsz' < frbufsz
<1>. PICK at : Laid(at)
  BY DEF RingInv
<1>1. PICK n \in Nat \ {0} : n = MsgSz[m]
  BY MbfAssumption
<1>2. PICK r \in Nat : r = ROUNDSZ(n) /\ Unit(r) /\ n <= r
  BY <1>1, RoundUp
<1>3. PICK b \in Nat, u \in Nat : b = bufsz /\ u = bufsz - frbufsz /\ u <= b /\ Unit(b) /\ Unit(u)
  BY RingNumbers
<1>4. HEADERSZ \in Nat \ {0} /\ Unit(HEADERSZ)
  BY UnitHeader
<1>5. u + HEADERSZ + n <= b /\ u + HEADERSZ + r <= b
  <2>1. PICK f \in Nat : f = frbufsz /\ u = b - f /\ f = b - u
    BY <1>3, RingNumbers
  <2>2. HEADERSZ + n <= b - u
    BY <1>1, <2>1 DEF knl_mbf_free
  <2>3. Unit(b - u - HEADERSZ)
    <3>1. Unit(b - u) /\ b - u \in Int
      BY <1>3, UnitOffsets
    <3>. QED
      BY <1>4, <3>1, UnitSums
  <2>4. r <= b - u - HEADERSZ
    BY <1>1, <1>2, <1>3, <1>4, <2>2, <2>3, RoundFits
  <2>. QED
    BY <1>1, <1>2, <1>3, <1>4, <2>2, <2>4
<1>6. Ringed(head) /\ tail = Place(head, u) /\ DOMAIN buffer = 0 .. b - 1
  BY <1>3, RingNumbers
<1>7. PICK i : i = Wrapped(tail + HEADERSZ)
  OBVIOUS
<1>8. /\ tail \in 0 .. b - 1
      /\ \A k \in 1 .. n : ByteAt(i, k) = Place(head, u + HEADERSZ + (k - 1))
      /\ Behind(i, n) = Place(head, u + HEADERSZ + r)
  BY <1>2, <1>3, <1>5, <1>6, <1>7, BytesBehind
<1>9. /\ frbufsz' = b - (u + HEADERSZ + r) /\ bufsz' = b /\ head' = head
      /\ tail' = Place(head, u + HEADERSZ + r) /\ held' = Append(held, m)
  <2>1. PICK f \in Nat : f = frbufsz /\ f = b - u
    BY <1>3, RingNumbers
  <2>2. frbufsz' = f - (HEADERSZ + r)
    BY <1>1, <1>2, <2>1 DEF knl_msg_to_mbf
  <2>. QED
    BY <1>1, <1>2, <1>3, <1>4, <1>7, <1>8, <2>1, <2>2 DEF knl_msg_to_mbf
<1>10. /\ DOMAIN buffer' = 0 .. b - 1
       /\ \A j \in 0 .. b - 1 : buffer'[j] =
            IF j = tail THEN n
            ELSE IF \E k \in 1 .. n : ByteAt(i, k) = j
            THEN <<m, CHOOSE k \in 1 .. n : ByteAt(i, k) = j>>
            ELSE buffer[j]
  BY <1>1, <1>6, <1>7 DEF knl_msg_to_mbf
<1>11. ASSUME NEW y \in Nat, y < u
       PROVE  buffer'[Place(head, y)] = buffer[Place(head, y)]
  <2>1. Place(head, y) \in 0 .. b - 1
    BY <1>3, <1>6, <1>11, PlaceIs
  <2>2. Place(head, y) # tail
    BY <1>1, <1>2, <1>3, <1>4, <1>5, <1>6, <1>11, PlaceApart
  <2>3. ASSUME NEW k \in 1 .. n
        PROVE  ByteAt(i, k) # Place(head, y)
    <3>1. u + HEADERSZ + (k - 1) \in Nat /\ u + HEADERSZ + (k - 1) < bufsz
          /\ u + HEADERSZ + (k - 1) # y /\ y < bufsz
      BY <1>1, <1>3, <1>4, <1>5, <1>11
    <3>. QED
      BY <1>6, <1>8, <1>11, <3>1, PlaceApart
  <2>. QED
    BY <1>10, <2>1, <2>2, <2>3
<1>12. MessageAt(m, u)'
  <2>1. ASSUME NEW k \in 1 .. n
        PROVE  buffer'[ByteAt(i, k)] = <<m, k>>
    <3>1. PICK y \in Nat : y = u + HEADERSZ + (k - 1) /\ y < bufsz /\ y # u /\ u < bufsz
      BY <1>1, <1>3, <1>4, <1>5
    <3>2. ByteAt(i, k) = Place(head, y) /\ Place(head, y) \in 0 .. b - 1 /\ Place(head, y) # tail
      <4>1. ByteAt(i, k) = Place(head, y)
        BY <1>8, <3>1
      <4>2. Place(head, y) \in 0 .. b - 1
        BY <1>3, <1>6, <3>1, PlaceIs
      <4>3. Place(head, y) # Place(head, u)
        BY <1>3, <1>6, <3>1, PlaceApart
      <4>. QED
        BY <1>6, <4>1, <4>2, <4>3
    <3>3. \A l \in 1 .. n : ByteAt(i, l) = ByteAt(i, k) => l = k
      <4>1. ASSUME NEW l \in 1 .. n, l # k
            PROVE  ByteAt(i, l) # ByteAt(i, k)
        <5>1. PICK z \in Nat : z = u + HEADERSZ + (l - 1) /\ z < bufsz /\ z # y
          BY <1>1, <1>3, <1>4, <1>5, <3>1, <4>1
        <5>. QED
          BY <1>6, <1>8, <3>1, <3>2, <5>1, PlaceApart
      <4>. QED
        BY <4>1
    <3>4. (CHOOSE l \in 1 .. n : ByteAt(i, l) = ByteAt(i, k)) = k
      BY <3>3
    <3>. QED
      BY <1>10, <3>2, <3>4
  <2>2. PICK p : p = tail
    OBVIOUS
  <2>3. buffer'[p] = n
    BY <1>8, <1>10, <2>2
  <2>4. Place(head, u)' = p
    BY <1>3, <1>6, <1>9, <2>2 DEF Place
  <2>5. Stored(p)' = [k \in 1 .. n |-> buffer'[ByteAt(i, k)]]
    BY <1>3, <1>7, <1>9, <2>2, <2>3 DEF Stored, ByteAt, Wrapped
  <2>6. Stored(p)' = Bytes(m)
    BY <1>1, <2>1, <2>5 DEF Bytes
  <2>. QED
    BY <1>1, <2>3, <2>4, <2>6 DEF MessageAt, Stored, Bytes
<1>13. PICK h \in Seq(Msg), l \in Nat : h = held /\ l = Len(held)
  BY DEF Laid
<1>14. held' \in Seq(Msg) /\ Len(held') = l + 1 /\ held'[l + 1] = m /\ \A j \in 1 .. l : held'[j] = held[j]
  <2>1. /\ Append(h, m) \in Seq(Msg) /\ Len(Append(h, m)) = l + 1 /\ Append(h, m)[l + 1] = m
        /\ \A j \in 1 .. l : Append(h, m)[j] = h[j]
    BY <1>13
  <2>. QED
    BY <1>9, <1>13, <2>1
<1>15. ASSUME NEW j \in 1 .. l
       PROVE  /\ at[j + 1] = at[j] + HEADERSZ + ROUNDSZ(MsgSz[h[j]])
              /\ MessageAt(h[j], at[j])'
  <2>1. PICK x \in Nat, y \in Nat, c \in Nat \ {0}, d \in Nat, k \in Msg :
             /\ x = at[j] /\ y = at[j + 1] /\ k = h[j] /\ c = MsgSz[k] /\ d = ROUNDSZ(c) /\ c <= d
             /\ y <= u /\ Unit(x)
    <3>1. j \in 1 .. l + 1 /\ j + 1 \in 1 .. l + 1 /\ held[j] \in Msg
      BY <1>13
    <3>2. MsgSz[held[j]] \in Nat \ {0}
      BY <3>1, MbfAssumption
    <3>3. ROUNDSZ(MsgSz[held[j]]) \in Nat /\ MsgSz[held[j]] <= ROUNDSZ(MsgSz[held[j]])
      BY <3>2, RoundUp
    <3>. QED
      BY <1>3, <1>13, <3>1, <3>2, <3>3 DEF Laid
  <2>2. y = x + HEADERSZ + d /\ MessageAt(k, x)
    BY <1>13, <2>1 DEF Laid
  <2>3. x + HEADERSZ + c <= u
    BY <1>4, <2>1, <2>2, SMTT(25)
  <2>4. \A z \in Nat : x <= z /\ z < x + HEADERSZ + c => buffer'[Place(head, z)] = buffer[Place(head, z)]
    BY <1>3, <1>4, <1>11, <2>3
  <2>5. x + HEADERSZ + MsgSz[k] <= bufsz
    <3>1. x + HEADERSZ + c <= b
      BY <1>3, <1>4, <2>1, <2>3, SMTT(25)
    <3>. QED
      BY <1>3, <2>1, <3>1
  <2>6. 0 \in Nat /\ 0 <= x /\ head' = Place(head, 0) /\ x - 0 = x
    BY <1>3, <1>6, <1>9 DEF Place, Ringed
  <2>7. MessageAt(k, x - 0)'
    BY <1>3, <1>6, <1>9, <2>1, <2>2, <2>4, <2>5, <2>6, MessageStays
  <2>8. MessageAt(k, x)'
    BY <2>6, <2>7 DEF MessageAt
  <2>. QED
    BY <2>1, <2>2, <2>8
<1>16. PICK v \in Nat : v = u + HEADERSZ + r /\ u < v /\ v <= b /\ Unit(v) /\ bufsz' - frbufsz' = v
  <2>1. Unit(u + HEADERSZ) /\ u + HEADERSZ \in Nat
    BY <1>3, <1>4, UnitOffsets
  <2>2. Unit((u + HEADERSZ) + r)
    BY <1>2, <2>1, UnitOffsets
  <2>. QED
    <3>1. PICK v \in Nat : v = (u + HEADERSZ) + r /\ Unit(v)
      BY <1>2, <2>1, <2>2
    <3>2. u < v /\ v <= b /\ v = u + HEADERSZ + r
      BY <1>2, <1>3, <1>4, <1>5, <3>1
    <3>3. bufsz' - frbufsz' = v
      BY <1>3, <1>9, <3>1, <3>2
    <3>. QED
      BY <3>1, <3>2, <3>3
<1>17. PICK at2 : at2 = [j \in 1 .. l + 2 |-> IF j = l + 2 THEN v ELSE at[j]]
  OBVIOUS
<1>18. /\ at \in [1 .. l + 1 -> Nat] /\ at[1] = 0 /\ at[l + 1] = u
       /\ \A j \in 1 .. l + 1 : Unit(at[j]) /\ at[j] \in Nat /\ at[j] <= u
       /\ \A j, k \in 1 .. l + 1 : j < k => at[j] < at[k]
  BY <1>3, <1>13 DEF Laid
<1>19. /\ at2 \in [1 .. l + 2 -> Nat] /\ at2[l + 2] = v
       /\ \A j \in 1 .. l + 1 : at2[j] = at[j]
  <2>1. v \in Nat /\ l + 2 \in 1 .. l + 2
    BY <1>13, <1>16
  <2>2. /\ \A j \in 1 .. l + 1 : j \in 1 .. l + 2 /\ j # l + 2
        /\ \A j \in 1 .. l + 2 : j = l + 2 \/ j \in 1 .. l + 1
    BY <1>13
  <2>3. \A j \in 1 .. l + 1 : at[j] \in Nat
    BY <1>18
  <2>. QED
    BY <1>17, <2>1, <2>2, <2>3
<1>20. \A j \in 1 .. l + 2 : Unit(at2[j]) /\ at2[j] <= v
  BY <1>3, <1>13, <1>16, <1>18, <1>19, SMTT(25)
<1>21. ASSUME NEW j \in 1 .. l + 2, NEW k \in 1 .. l + 2, j < k
       PROVE  at2[j] < at2[k]
  <2>1. j \in 1 .. l + 1 /\ at2[j] = at[j] /\ at[j] \in Nat /\ at[j] <= u
    BY <1>13, <1>18, <1>19, <1>21
  <2>2. CASE k = l + 2
    BY <1>3, <1>16, <1>19, <2>1, <2>2
  <2>3. CASE k # l + 2
    <3>1. k \in 1 .. l + 1
      BY <1>13, <2>3
    <3>. QED
      BY <1>18, <1>19, <1>21, <2>1, <3>1
  <2>. QED
    BY <2>2, <2>3
<1>22. ASSUME NEW j \in 1 .. l + 1
       PROVE  /\ at2[j + 1] = at2[j] + HEADERSZ + ROUNDSZ(MsgSz[held'[j]])
              /\ MessageAt(held[j], at2[j])'
  <2>1. CASE j = l + 1
    <3>1. at2[j] = u /\ at2[j + 1] = v /\ held'[j] = m
      BY <1>13, <1>14, <1>18, <1>19, <2>1
    <3>2. MessageAt(held[j], at2[j])'
      BY <1>12, <3>1 DEF MessageAt, Bytes
    <3>. QED
      BY <1>1, <1>2, <1>16, <3>1, <3>2
  <2>2. CASE j # l + 1
    <3>1. j \in 1 .. l /\ at2[j] = at[j] /\ at2[j + 1] = at[j + 1] /\ held'[j] = h[j]
      BY <1>13, <1>14, <1>18, <1>19, <2>2
    <3>2. MessageAt(held[j], at2[j])'
      BY <1>15, <3>1 DEF MessageAt, Bytes
    <3>. QED
      BY <1>15, <3>1, <3>2
  <2>. QED
    BY <2>1, <2>2
<1>23. Laid(at2)'
  <2>1. 1 \in 1 .. l + 1 /\ at2[1] = 0 /\ (l + 1) + 1 = l + 2
    BY <1>13, <1>18, <1>19
  <2>3. \A j \in 1 .. Len(held') + 1 : Unit(at2[j])' /\ at2[j] <= bufsz' - frbufsz'
    BY <1>14, <1>16, <1>20, <2>1 DEF Unit
  <2>4. \A j \in 1 .. Len(held') :
          /\ at2[j + 1] = at2[j] + HEADERSZ + ROUNDSZ(MsgSz[held'[j]])
          /\ MessageAt(held[j], at2[j])'
    BY <1>14, <1>22
  <2>5. /\ at2 \in [1 .. Len(held') + 1 -> Nat] /\ at2[1] = 0 /\ at2[Len(held') + 1] = bufsz' - frbufsz'
        /\ \A j, k \in 1 .. Len(held') + 1 : j < k => at2[j] < at2[k]
    BY <1>14, <1>16, <1>19, <1>21, <2>1
  <2>. QED
    BY <1>14, <2>3, <2>4, <2>5 DEF Laid, ROUNDSZ
<1>24. Offsets'
  <2>1. frbufsz' \in 0 .. bufsz' /\ Unit(frbufsz')
    <3>1. Unit(b - v)
      BY <1>3, <1>16, UnitOffsets
    <3>. QED
      BY <1>3, <1>9, <1>16, <3>1
  <2>2. tail' = Place(head, bufsz - frbufsz)'
    BY <1>3, <1>9, <1>16 DEF Place
  <2>3. Ringed(head)'
    BY <1>3, <1>6, <1>9 DEF Ringed, Unit
  <2>. QED
    BY <1>9, <1>10, <2>1, <2>2, <2>3 DEF Offsets, Unit
<1>25. frbufsz' < frbufsz
  <2>1. PICK f \in Nat : f = frbufsz /\ u = b - f
    BY <1>3, RingNumbers
  <2>2. frbufsz' < f
    BY <1>2, <1>3, <1>4, <1>9, <2>1
  <2>. QED
    BY <2>1, <2>2
<1>. QED
  BY <1>23, <1>24, <1>25 DEF RingInv

\* knl_mbf_to_msg(): the first message is out, the others are where they were.
LEMMA RingTaken ==
    ASSUME RingInv, ~knl_mbf_empty, knl_mbf_to_msg, UNCHANGED <<bufsz, tail>>
    PROVE  /\ RingInv'
           /\ held \in Seq(Msg) /\ held # << >> /\ held' = Tail(held) /\ Stored(head) = Bytes(Head(held))
<1>. PICK at : Laid(at)
  BY DEF RingInv
<1>1. PICK b \in Nat, f \in Nat, u \in Nat \ {0} :
             /\ b = bufsz /\ f = frbufsz /\ u = bufsz - frbufsz /\ u = b - f /\ u <= b
             /\ Unit(b) /\ Unit(f) /\ Unit(u)
  <2>1. bufsz - frbufsz \in Nat \ {0}
    BY RingNumbers DEF knl_mbf_empty
  <2>. QED
    BY <2>1, RingNumbers
<1>2. Ringed(head) /\ tail = Place(head, u) /\ DOMAIN buffer = 0 .. b - 1 /\ Place(head, 0) = head
  <2>1. Ringed(head) /\ tail = Place(head, u) /\ DOMAIN buffer = 0 .. b - 1
    BY <1>1, RingNumbers
  <2>. QED
    BY <1>1, <2>1 DEF Place, Ringed
<1>3. HEADERSZ \in Nat \ {0} /\ Unit(HEADERSZ)
  BY UnitHeader
<1>4. PICK q \in Seq(Msg), l \in Nat : q = held /\ l = Len(held)
  BY DEF Laid
<1>5. /\ at \in [1 .. l + 1 -> Nat] /\ at[1] = 0 /\ at[l + 1] = u
      /\ \A j \in 1 .. l + 1 : Unit(at[j]) /\ at[j] \in Nat /\ at[j] <= u
      /\ \A j, k \in 1 .. l + 1 : j < k => at[j] < at[k]
  BY <1>1, <1>4 DEF Laid
<1>6. \A j \in 1 .. l : /\ at[j + 1] = at[j] + HEADERSZ + ROUNDSZ(MsgSz[q[j]])
                        /\ MessageAt(q[j], at[j]) /\ q[j] \in Msg
  BY <1>4 DEF Laid
<1>7. l # 0 /\ 1 \in 1 .. l
  BY <1>1, <1>4, <1>5
<1>8. PICK m \in Msg, n \in Nat \ {0} : m = q[1] /\ n = MsgSz[m]
  BY <1>6, <1>7, MbfAssumption
<1>9. PICK r \in Nat : r = ROUNDSZ(n) /\ Unit(r) /\ n <= r
  BY <1>8, RoundUp
<1>10. buffer[head] = n /\ Stored(head) = Bytes(m)
  BY <1>2, <1>5, <1>6, <1>7, <1>8 DEF MessageAt
<1>11. PICK s \in Nat : s = HEADERSZ + r /\ Unit(s) /\ at[2] = s /\ s <= u
  <2>1. HEADERSZ + r \in Nat /\ Unit(HEADERSZ + r)
    BY <1>3, <1>9, UnitOffsets
  <2>2. at[1 + 1] = at[1] + HEADERSZ + ROUNDSZ(MsgSz[q[1]])
    BY <1>6, <1>7
  <2>3. at[2] = HEADERSZ + r
    BY <1>3, <1>5, <1>8, <1>9, <2>2
  <2>4. 2 \in 1 .. l + 1
    BY <1>4, <1>7
  <2>. QED
    BY <1>5, <2>1, <2>3, <2>4
<1>12. PICK i : i = Wrapped(head + HEADERSZ)
  OBVIOUS
<1>13. /\ \A k \in 1 .. n : ByteAt(i, k) = Place(head, HEADERSZ + (k - 1))
       /\ Behind(i, n) = Place(head, s)
  <2>1. 0 + HEADERSZ + n <= bufsz /\ 0 \in Nat /\ Unit(0)
    BY <1>1, <1>3, <1>9, <1>11, UnitHeader
  <2>2. /\ \A k \in 1 .. n : ByteAt(i, k) = Place(head, 0 + HEADERSZ + (k - 1))
        /\ Behind(i, n) = Place(head, 0 + HEADERSZ + ROUNDSZ(n))
    BY <1>2, <1>12, <2>1, BytesBehind
  <2>3. 0 + HEADERSZ + ROUNDSZ(n) = s /\ \A k \in 1 .. n : 0 + HEADERSZ + (k - 1) = HEADERSZ + (k - 1)
    BY <1>3, <1>9, <1>11
  <2>. QED
    BY <2>2, <2>3
<1>14. PICK g : g = head'
  OBVIOUS
<1>15. g = Place(head, s) /\ Ringed(g)
  <2>1. head' = Place(head, s)
    BY <1>10, <1>12, <1>13 DEF knl_mbf_to_msg, After
  <2>2. s \in 0 .. bufsz
    BY <1>1, <1>11
  <2>. QED
    BY <1>2, <1>11, <1>14, <2>1, <2>2, PlaceIs
<1>16. frbufsz' = f + s /\ bufsz' = b /\ tail' = tail /\ held' = Tail(held)
  <2>1. frbufsz' = f + HEADERSZ + r
    BY <1>1, <1>9, <1>10 DEF knl_mbf_to_msg
  <2>. QED
    BY <1>1, <1>3, <1>9, <1>11, <2>1 DEF knl_mbf_to_msg
<1>17. /\ DOMAIN buffer' = 0 .. b - 1
       /\ \A x \in 0 .. b - 1 :
            x # head /\ (\A k \in 1 .. n : ByteAt(i, k) # x) => buffer'[x] = buffer[x]
  BY <1>2, <1>10, <1>12 DEF knl_mbf_to_msg
<1>18. ASSUME NEW y \in Nat, s <= y, y < u
       PROVE  buffer'[Place(head, y)] = buffer[Place(head, y)]
  <2>1. Place(head, y) \in 0 .. b - 1
    <3>1. y \in 0 .. bufsz /\ bufsz # 0
      BY <1>1, <1>18
    <3>. QED
      <4>1. Place(head, y) \in Nat /\ Place(head, y) < bufsz
        BY <1>2, <3>1, PlaceIs
      <4>. QED
        BY <1>1, <4>1
  <2>2. Place(head, y) # head
    <3>1. 0 < bufsz /\ 0 # y /\ y < bufsz
      BY <1>1, <1>3, <1>9, <1>11, <1>18
    <3>2. Place(head, y) # Place(head, 0)
      BY <1>2, <1>18, <3>1, PlaceApart
    <3>. QED
      BY <1>2, <3>2
  <2>3. ASSUME NEW k \in 1 .. n
        PROVE  ByteAt(i, k) # Place(head, y)
    <3>1. PICK w \in Nat : w = HEADERSZ + (k - 1) /\ w < s
      BY <1>3, <1>8, <1>9, <1>11
    <3>2. w < bufsz /\ y < bufsz /\ w # y
      BY <1>1, <1>11, <1>18, <3>1
    <3>3. Place(head, w) # Place(head, y)
      BY <1>2, <1>18, <3>1, <3>2, PlaceApart
    <3>. QED
      BY <1>13, <3>1, <3>3
  <2>. QED
    BY <1>17, <2>1, <2>2, <2>3
<1>19. PICK p \in Seq(Msg) : p = Tail(q) /\ Len(p) = l - 1 /\ \A j \in 1 .. l - 1 : p[j] = q[j + 1]
  <2>1. q # << >> /\ Len(q) = l
    BY <1>4, <1>7
  <2>. QED
    <3>1. Tail(q) \in Seq(Msg) /\ Len(Tail(q)) = Len(q) - 1
      BY <2>1
    <3>2. ASSUME NEW j \in 1 .. Len(q) - 1
          PROVE  Tail(q)[j] = q[j + 1]
      BY <2>1
    <3>. QED
      BY <2>1, <3>1, <3>2
<1>20. held' = p /\ Len(held') = l - 1 /\ l - 1 \in Nat /\ (l - 1) + 1 = l
  BY <1>4, <1>7, <1>16, <1>19
<1>21. PICK at2 : at2 = [j \in 1 .. l |-> at[j + 1] - s]
  OBVIOUS
<1>22. ASSUME NEW j \in 1 .. l
       PROVE  /\ j + 1 \in 1 .. l + 1 /\ at[j + 1] \in Nat /\ s <= at[j + 1] /\ at[j + 1] <= u
              /\ at2[j] = at[j + 1] - s /\ at2[j] \in Nat /\ at2[j] <= u - s /\ Unit(at2[j])
  <2>1. j + 1 \in 1 .. l + 1 /\ 2 \in 1 .. l + 1 /\ (j = 1 \/ 2 < j + 1)
    BY <1>4, <1>7
  <2>2. PICK x \in Nat : x = at[j + 1] /\ x <= u /\ Unit(x) /\ s <= x
    BY <1>5, <1>11, <2>1
  <2>3. at2[j] = x - s
    BY <1>21, <2>2
  <2>4. Unit(x - s)
    BY <1>11, <2>2, UnitOffsets
  <2>. QED
    BY <1>1, <1>11, <2>1, <2>2, <2>3, <2>4
<1>23. ASSUME NEW j \in 1 .. l - 1
       PROVE  /\ at2[j + 1] = at2[j] + HEADERSZ + ROUNDSZ(MsgSz[p[j]])
              /\ MessageAt(p[j], at2[j])'
  <2>1. j \in 1 .. l /\ j + 1 \in 1 .. l /\ p[j] = q[j + 1] /\ q[j + 1] \in Msg
    BY <1>4, <1>6, <1>19
  <2>2. PICK x \in Nat, y \in Nat, k \in Msg, c \in Nat \ {0}, d \in Nat :
             /\ x = at[j + 1] /\ y = at[(j + 1) + 1] /\ k = q[j + 1] /\ c = MsgSz[k] /\ d = ROUNDSZ(c) /\ c <= d
             /\ s <= x /\ Unit(x) /\ y <= u
    <3>1. MsgSz[q[j + 1]] \in Nat \ {0}
      BY <2>1, MbfAssumption
    <3>2. ROUNDSZ(MsgSz[q[j + 1]]) \in Nat /\ MsgSz[q[j + 1]] <= ROUNDSZ(MsgSz[q[j + 1]])
      BY <3>1, RoundUp
    <3>3. j + 1 \in 1 .. l + 1 /\ at[j + 1] \in Nat /\ s <= at[j + 1] /\ Unit(at[j + 1])
      BY <1>5, <1>22, <2>1
    <3>4. at[(j + 1) + 1] \in Nat /\ at[(j + 1) + 1] <= u
      BY <1>22, <2>1
    <3>. QED
      BY <2>1, <3>1, <3>2, <3>3, <3>4
  <2>3. y = x + HEADERSZ + d /\ MessageAt(k, x)
    BY <1>6, <2>1, <2>2
  <2>4. x \in Nat /\ y \in Nat /\ c \in Nat /\ d \in Nat /\ c <= d /\ y <= u /\ y = x + HEADERSZ + d
        /\ s <= x /\ u \in Nat /\ s \in Nat /\ HEADERSZ \in Nat
    BY <1>1, <1>3, <1>11, <2>2, <2>3
  <2>5. x + HEADERSZ + c <= u
    BY <2>4
  <2>6. /\ \A z \in Nat : x <= z /\ z < x + HEADERSZ + c => buffer'[Place(head, z)] = buffer[Place(head, z)]
        /\ x + HEADERSZ + MsgSz[k] <= bufsz
    <3>1. \A z \in Nat : x <= z /\ z < x + HEADERSZ + c => s <= z /\ z < u
      BY <2>4, <2>5
    <3>2. x + HEADERSZ + c <= b
      BY <1>1, <2>4, <2>5
    <3>. QED
      BY <1>1, <1>18, <2>2, <3>1, <3>2
  <2>7. MessageAt(k, x - s)'
    <3>1. head' = Place(head, s) /\ bufsz' = bufsz
      BY <1>1, <1>14, <1>15, <1>16
    <3>2. \A z \in Nat : x <= z /\ z < x + HEADERSZ + MsgSz[k]
                            => buffer'[Place(head, z)] = buffer[Place(head, z)]
      BY <2>2, <2>6
    <3>. QED
      BY <1>2, <2>2, <2>3, <2>6, <3>1, <3>2, MessageStays
  <2>8. x - s = at2[j] /\ at2[j + 1] = y - s
    BY <1>22, <2>1, <2>2
  <2>9. y - s = (x - s) + HEADERSZ + d
    BY <2>4
  <2>. QED
    BY <2>1, <2>2, <2>7, <2>8, <2>9
<1>24. bufsz' - frbufsz' = u - s
  BY <1>1, <1>11, <1>16
<1>25. Laid(at2)'
  <2>1. at2 \in [1 .. l -> Nat] /\ at2[1] = 0 /\ at2[l] = u - s
    <3>1. \A j \in 1 .. l : at2[j] \in Nat
      BY <1>22
    <3>2. at2 \in [1 .. l -> Nat]
      BY <1>21, <3>1
    <3>3. at2[1] = at[1 + 1] - s /\ at2[l] = at[l + 1] - s
      BY <1>4, <1>7, <1>21
    <3>. QED
      BY <1>5, <1>11, <3>2, <3>3
  <2>2. \A j \in 1 .. l : Unit(at2[j])' /\ at2[j] <= u - s
    BY <1>22 DEF Unit
  <2>3. ASSUME NEW j \in 1 .. l, NEW k \in 1 .. l, j < k
        PROVE  at2[j] < at2[k]
    <3>1. at[j + 1] < at[k + 1] /\ at[j + 1] \in Nat /\ at[k + 1] \in Nat
      <4>1. j + 1 \in 1 .. l + 1 /\ k + 1 \in 1 .. l + 1 /\ j + 1 < k + 1
        BY <1>4, <2>3
      <4>. QED
        BY <1>5, <4>1
    <3>. QED
      BY <1>11, <1>22, <3>1, SMTT(25)
  <2>4. \A j \in 1 .. l - 1 : /\ at2[j + 1] = at2[j] + HEADERSZ + ROUNDSZ(MsgSz[held'[j]])
                              /\ MessageAt(held[j], at2[j])'
    <3>1. ASSUME NEW j \in 1 .. l - 1
          PROVE  MessageAt(held[j], at2[j])'
      BY <1>20, <1>23 DEF MessageAt, Bytes
    <3>. QED
      BY <1>20, <1>23, <3>1
  <2>. QED
    BY <1>20, <1>24, <2>1, <2>2, <2>3, <2>4 DEF Laid, ROUNDSZ
<1>26. Offsets'
  <2>1. f + s \in 0 .. b /\ Unit(f + s)
    <3>1. Unit(f + s)
      BY <1>1, <1>11, UnitOffsets
    <3>2. f + s <= b /\ f + s \in Nat
      BY <1>1, <1>11
    <3>. QED
      BY <1>1, <3>1, <3>2
  <2>2. frbufsz' \in 0 .. bufsz' /\ Unit(frbufsz)'
    BY <1>16, <2>1 DEF Unit
  <2>3. tail' = Place(head, bufsz - frbufsz)'
    <3>1. u - s \in Nat /\ s + (u - s) = u /\ s + (u - s) <= bufsz
      BY <1>1, <1>11
    <3>2. Place(g, u - s) = Place(head, u)
      BY <1>2, <1>11, <1>15, <3>1, PlaceSum
    <3>3. Place(head, bufsz - frbufsz)' = Place(g, u - s)
      BY <1>1, <1>14, <1>16, <1>24 DEF Place
    <3>. QED
      BY <1>2, <1>16, <3>2, <3>3
  <2>4. Ringed(head)'
    BY <1>1, <1>14, <1>15, <1>16 DEF Ringed, Unit
  <2>. QED
    BY <1>16, <1>17, <2>2, <2>3, <2>4 DEF Offsets
<1>27. held \in Seq(Msg) /\ held # << >> /\ Stored(head) = Bytes(Head(held))
  <2>1. q # << >> /\ Head(q) = m
    BY <1>4, <1>7, <1>8
  <2>. QED
    BY <1>4, <1>10, <2>1
<1>. QED
  BY <1>16, <1>25, <1>26, <1>27 DEF RingInv

-----------------------------------------------------------------------------
(***************************************************************************)
(* Message buffers.                                                        *)
(***************************************************************************)
\* Receivers wait while there is nothing at all; the loop has all the senders
\* before it, or is over because there is no room for the first.
MbfInv ==
    /\ RingInv
    /\ \A t \in Range(queue["send"]) : winfo[t] \in Msg
    /\ queue["recv"] # << >> => knl_mbf_empty /\ queue["send"] = << >>
    /\ rest # << >> => rest = queue["send"]
    /\ rest = << >> /\ queue["send"] # << >> => ~knl_mbf_free(winfo[Head(queue["send"])])

\* The ring stays.
LEMMA RingStays ==
    ASSUME RingInv, UNCHANGED mbfvars
    PROVE  /\ RingInv' /\ (knl_mbf_empty' <=> knl_mbf_empty) /\ frbufsz' = frbufsz
<1>1. PICK at : Laid(at)
  BY DEF RingInv
<1>2. \A m, x : MessageAt(m, x)' <=> MessageAt(m, x)
  BY DEF MessageAt, Stored, ByteAt, Wrapped, Place, Bytes, mbfvars
<1>3. Laid(at)'
  <2>1. ASSUME NEW i \in 1 .. Len(held)
        PROVE  MessageAt(held[i], at[i])'
    <3>1. PICK m : m = held[i] /\ m = held'[i]
      BY DEF mbfvars
    <3>2. MessageAt(m, at[i])'
      BY <1>1, <1>2, <3>1 DEF Laid
    <3>. QED
      BY <3>1, <3>2 DEF MessageAt, Bytes
  <2>. QED
    BY <1>1, <2>1 DEF Laid, Unit, ROUNDSZ, mbfvars
<1>4. Offsets'
  BY DEF RingInv, Offsets, Ringed, Unit, Place, mbfvars
<1>. QED
  BY <1>3, <1>4 DEF RingInv, knl_mbf_empty, mbfvars

\* With less room, there is no room.
LEMMA LessRoom ==
    ASSUME RingInv, RingInv', frbufsz' <= frbufsz, NEW m \in Msg, ~knl_mbf_free(m)
    PROVE  ~(HEADERSZ + MsgSz[m] <= frbufsz')
<1>1. PICK n \in Nat, f \in Nat, g \in Nat : n = MsgSz[m] /\ f = frbufsz /\ g = frbufsz' /\ g <= f
  BY MbfAssumption DEF RingInv, Offsets
<1>2. HEADERSZ \in Nat /\ ~(HEADERSZ + n <= f)
  BY <1>1, MbfAssumption DEF knl_mbf_free
<1>. QED
  BY <1>1, <1>2

\* The sizes of rings.
LEMMA RingSizes ==
    ASSUME NEW n \in BufSz
    PROVE  n \in Nat /\ Unit(n)
<1>1. n \in Nat /\ \E k \in 0 .. n : n = k * HEADERSZ
  BY MbfAssumption
<1>. QED
  BY <1>1 DEF Unit

\* Every call on a message buffer, every turn of knl_mbf_wakeup() and every release.
LEMMA MbfStep ==
    ASSUME ObjectInv, kind = "mbf", kind' = kind, MbfInv, MbfNext
    PROVE  MbfInv'
<1>. USE DEF ObjectInv
<1>0. /\ Served = "send" /\ "send" \in Queue /\ "recv" \in Queue
      /\ (tpri <=> ByPriority("send")) /\ (FALSE <=> ByPriority("recv"))
      /\ Range(<< >>) = {} /\ "send" # "recv"
  BY ServedQueue DEF Served, ByPriority, Range
<1>1. /\ RingInv
      /\ \A u \in Range(queue["send"]) : winfo[u] \in Msg /\ u \in Task
      /\ queue["recv"] # << >> => knl_mbf_empty /\ queue["send"] = << >>
      /\ rest # << >> => rest = queue["send"]
      /\ rest = << >> /\ queue["send"] # << >> => ~knl_mbf_free(winfo[Head(queue["send"])])
      /\ queue["send"] # << >> => Head(queue["send"]) \in Range(queue["send"])
  BY <1>0, HeadWaits, QueueOfTasks DEF MbfInv
<1>2. ASSUME NEW bypri \in BOOLEAN, NEW size \in BufSz, tk_cre_mbf(bypri, size)
      PROVE  MbfInv'
  <2>1. RingInv'
    BY <1>2, RingFresh, RingSizes DEF tk_cre_mbf
  <2>. QED
    BY <1>0, <1>2, <2>1, CreateDoes DEF tk_cre_mbf, MbfInv
<1>3. CASE tk_del_mbf
  <2>1. RingInv'
    <3>1. bufsz \in Nat /\ Unit(bufsz) /\ DOMAIN buffer = 0 .. bufsz - 1
      BY <1>1 DEF RingInv, Offsets, Ringed
    <3>2. /\ bufsz' = bufsz /\ frbufsz' = bufsz /\ head' = 0 /\ tail' = 0
          /\ DOMAIN buffer' = 0 .. bufsz - 1 /\ held' = << >>
      BY <1>3, <3>1 DEF tk_del_mbf
    <3>. QED
      BY <3>1, <3>2, RingFresh
  <2>. QED
    BY <1>0, <1>3, <2>1, DeleteDoes DEF tk_del_mbf, MbfInv
<1>4. ASSUME NEW m \in Msg, rest = << >>, SendDirectly(m)
      PROVE  MbfInv'
  <2>1. Head(queue["recv"]) \in Range(queue["recv"]) /\ queue["recv"] # << >>
    BY <1>0, <1>4, HeadWaits DEF SendDirectly
  <2>2. queue'["send"] = queue["send"] /\ queue["send"] = << >> /\ rest' = << >>
    BY <1>0, <1>1, <1>4, <2>1, ReleaseOkDoes DEF SendDirectly
  <2>3. RingInv' /\ (knl_mbf_empty' <=> knl_mbf_empty)
    BY <1>1, <1>4, RingStays DEF SendDirectly
  <2>. QED
    BY <1>0, <1>1, <2>1, <2>2, <2>3 DEF MbfInv
<1>5. ASSUME NEW m \in Msg, rest = << >>, queue["recv"] = << >>, knl_mbf_free(m),
             knl_msg_to_mbf(m), UNCHANGED <<wvars, bufsz, head>>
      PROVE  MbfInv'
  <2>1. RingInv' /\ frbufsz' < frbufsz
    BY <1>1, <1>5, RingStored
  <2>2. frbufsz' <= frbufsz
    BY <1>1, <2>1 DEF RingInv, Offsets
  <2>3. queue' = queue /\ winfo' = winfo /\ rest' = rest
    BY <1>5 DEF wvars, gcb, tcb
  <2>4. queue["send"] # << >> => ~(HEADERSZ + MsgSz[winfo[Head(queue["send"])]] <= frbufsz')
    BY <1>1, <1>5, <2>1, <2>2, LessRoom
  <2>. QED
    BY <1>1, <1>5, <2>1, <2>3, <2>4 DEF MbfInv, knl_mbf_free
<1>6. ASSUME NEW m \in Msg, HandlerSends(m)
      PROVE  MbfInv'
  BY <1>4, <1>5, <1>6 DEF HandlerSends, Unlocked
<1>7. CASE Wakeup
  <2>0. PICK t : t = Head(rest)
    OBVIOUS
  <2>1. /\ rest # << >> /\ t \in Task /\ t \in Range(queue["send"]) /\ t = Head(queue["send"])
        /\ winfo[t] \in Msg /\ queue["recv"] = << >> /\ queue["send"] # << >>
    BY <1>0, <1>1, <1>7, <2>0, NextServed DEF Wakeup
  <2>2. CASE ~knl_mbf_free(winfo[t]) /\ rest' = << >> /\ UNCHANGED <<gcb, tcb, mbfvars>>
    <3>1. RingInv' /\ frbufsz' = frbufsz
      BY <1>1, <2>2, RingStays
    <3>2. queue' = queue /\ winfo' = winfo
      BY <2>2 DEF gcb, tcb
    <3>. QED
      BY <1>1, <2>1, <2>2, <3>1, <3>2 DEF MbfInv, knl_mbf_free
  <2>3. CASE /\ knl_mbf_free(winfo[t])
             /\ knl_msg_to_mbf(winfo[t])
             /\ ReleaseOk(t, "send", None)
             /\ rest' = Tail(rest)
             /\ UNCHANGED <<bufsz, head>>
    <3>1. RingInv'
      BY <1>1, <2>1, <2>3, RingStored
    <3>2. /\ Range(queue'["send"]) = Range(queue["send"]) \ {t}
          /\ queue'["send"] = Tail(queue["send"]) /\ queue'["recv"] = queue["recv"]
          /\ \A u \in Task \ {t} : winfo'[u] = winfo[u]
      BY <1>0, <2>1, <2>3, ReleaseOkDoes
    <3>3. rest' = queue'["send"]
      BY <1>1, <2>1, <2>3, <3>2
    <3>. QED
      BY <1>1, <2>1, <3>1, <3>2, <3>3 DEF MbfInv
  <2>. QED
    BY <1>7, <2>0, <2>2, <2>3 DEF Wakeup
<1>8. ASSUME NEW t \in Task, NEW m \in Msg, tk_snd_mbf(t, m)
      PROVE  MbfInv'
  <2>1. rest = << >> /\ tstat[t] = "run"
    BY <1>8 DEF tk_snd_mbf, Calls, Unlocked
  <2>2. CASE /\ queue["recv"] = << >> /\ ~(IsTop("send", t) /\ knl_mbf_free(m))
             /\ MakeWait(t, "send", m, tpri) /\ UNCHANGED mbfvars
    <3>1. /\ Range(queue'["send"]) = Range(queue["send"]) \cup {t} /\ t \notin Range(queue["send"])
          /\ queue'["recv"] = queue["recv"]
          /\ winfo'[t] = m /\ \A u \in Task \ {t} : winfo'[u] = winfo[u]
          /\ queue'["send"] # << >>
          /\ \/ Head(queue'["send"]) = t /\ IsTop("send", t)
             \/ queue["send"] # << >> /\ Head(queue'["send"]) = Head(queue["send"])
      BY <1>0, <2>1, <2>2, MakeWaitDoes
    <3>2. RingInv' /\ frbufsz' = frbufsz
      BY <1>1, <2>2, RingStays
    <3>3. \A u \in Range(queue["send"]) : winfo'[u] = winfo[u]
      BY <1>1, <3>1
    <3>4. rest' = << >>
      BY <2>2 DEF MakeWait
    <3>5. ~knl_mbf_free(winfo'[Head(queue'["send"])])
      BY <1>1, <2>1, <2>2, <3>1, <3>3
    <3>6. \A u \in Range(queue'["send"]) : winfo'[u] \in Msg
      BY <1>1, <3>1, <3>3
    <3>. QED
      BY <2>2, <3>1, <3>2, <3>4, <3>5, <3>6 DEF MbfInv, knl_mbf_free
  <2>. QED
    BY <1>4, <1>5, <1>8, <2>1, <2>2 DEF tk_snd_mbf
<1>9. ASSUME NEW t \in Task, tk_rcv_mbf(t)
      PROVE  MbfInv'
  <2>1. rest = << >> /\ tstat[t] = "run"
    BY <1>9 DEF tk_rcv_mbf, Calls, Unlocked
  <2>2. CASE /\ ~knl_mbf_empty
             /\ Completes(t, Stored(head))
             /\ knl_mbf_to_msg
             /\ rest' = queue["send"]
             /\ UNCHANGED <<bufsz, tail>>
    <3>1. RingInv'
      BY <1>1, <2>2, RingTaken
    <3>2. queue' = queue /\ winfo' = winfo
      BY <2>2 DEF Completes, gcb
    <3>. QED
      BY <1>1, <2>2, <3>1, <3>2 DEF MbfInv
  <2>3. CASE FromSender(t)
    <3>0. PICK s : s = Head(queue["send"])
      OBVIOUS
    <3>1. /\ queue["send"] # << >> /\ queue["recv"] = << >>
          /\ queue' = [queue EXCEPT !["send"] = Tail(queue["send"])]
          /\ winfo' = [winfo EXCEPT ![s] = None]
          /\ rest' = queue'["send"] /\ UNCHANGED mbfvars
      BY <1>1, <2>3, <3>0 DEF FromSender
    <3>2. queue'["send"] = Tail(queue["send"]) /\ queue'["recv"] = << >>
      BY <1>0, <3>1 DEF WaitInv, Types
    <3>3. Range(queue'["send"]) = Range(queue["send"]) \ {s}
      <4>1. queue["send"] \in Seq(Task) /\ OrderedBy(queue["send"], Rank("send"))
        BY <1>0 DEF WaitInv, Types, Sorted
      <4>. QED
        BY <3>0, <3>1, <3>2, <4>1, TailKeeps
    <3>4. \A u \in Range(queue'["send"]) : winfo'[u] = winfo[u]
      BY <1>1, <3>1, <3>3 DEF WaitInv, Types
    <3>5. RingInv'
      BY <1>1, <3>1, RingStays
    <3>. QED
      BY <1>1, <3>1, <3>2, <3>3, <3>4, <3>5 DEF MbfInv
  <2>4. CASE /\ knl_mbf_empty /\ queue["send"] = << >>
             /\ MakeWait(t, "recv", None, FALSE) /\ UNCHANGED mbfvars
    <3>1. queue'["send"] = queue["send"]
      <4>1. \A r \in Queue \ {"recv"} : queue'[r] = queue[r]
        BY <1>0, <2>1, <2>4, MakeWaitDoes
      <4>. QED
        BY <1>0, <4>1
    <3>2. RingInv' /\ (knl_mbf_empty' <=> knl_mbf_empty)
      BY <1>1, <2>4, RingStays
    <3>3. rest' = << >>
      BY <2>4 DEF MakeWait
    <3>. QED
      BY <1>0, <2>4, <3>1, <3>2, <3>3 DEF MbfInv
  <2>. QED
    BY <1>9, <2>2, <2>3, <2>4 DEF tk_rcv_mbf
<1>10. ASSUME NEW t \in Task, MbfWithdraw(t)
       PROVE  MbfInv'
  <2>1. RingInv' /\ (knl_mbf_empty' <=> knl_mbf_empty)
    BY <1>1, <1>10, RingStays DEF MbfWithdraw
  <2>2. CASE Withdrawn(t, "send") /\ rest' = queue'["send"]
    <3>1. /\ Range(queue'["send"]) = Range(queue["send"]) \ {t} /\ queue'["recv"] = queue["recv"]
          /\ \A u \in Task \ {t} : winfo'[u] = winfo[u]
          /\ t \in Range(queue["send"])
      BY <1>0, <2>2, WithdrawnDoes
    <3>2. queue["recv"] = << >>
      BY <1>0, <1>1, <3>1
    <3>. QED
      BY <1>1, <2>1, <2>2, <3>1, <3>2 DEF MbfInv
  <2>3. CASE Withdrawn(t, "recv") /\ rest' = << >>
    <3>1. /\ queue'["send"] = queue["send"] /\ t \in Range(queue["recv"])
      BY <1>0, <2>3, WithdrawnDoes
    <3>2. queue["send"] = << >> /\ knl_mbf_empty
      BY <1>0, <1>1, <3>1
    <3>. QED
      BY <1>0, <2>1, <2>3, <3>1, <3>2 DEF MbfInv
  <2>. QED
    BY <1>10, <2>2, <2>3 DEF MbfWithdraw
<1>11. ASSUME NEW t \in Task, NEW p \in Pri, MbfReorder(t, p)
       PROVE  MbfInv'
  <2>1. /\ winfo' = winfo /\ Range(queue'["send"]) = Range(queue["send"])
        /\ queue'["recv"] = queue["recv"] /\ t \in Range(queue["send"])
    BY <1>0, <1>11, ReorderedDoes DEF MbfReorder, Reordered
  <2>2. queue["recv"] = << >>
    BY <1>0, <1>1, <2>1
  <2>3. RingInv' /\ rest' = queue'["send"]
    BY <1>1, <1>11, RingStays DEF MbfReorder
  <2>. QED
    BY <1>1, <2>1, <2>2, <2>3 DEF MbfInv
<1>12. ASSUME UNCHANGED <<queue, winfo, rest, mbfvars>>
       PROVE  MbfInv'
  <2>1. RingInv' /\ (knl_mbf_empty' <=> knl_mbf_empty) /\ frbufsz' = frbufsz
    BY <1>1, <1>12, RingStays
  <2>. QED
    BY <1>1, <1>12, <2>1 DEF MbfInv, knl_mbf_free
<1>13. ASSUME NEW t \in Task, NEW p \in Pri, UNCHANGED mbfvars,
              ChangePriority(t, p, IF tpri THEN {"send"} ELSE {})
       PROVE  MbfInv'
  BY <1>12, <1>13 DEF ChangePriority, gcb
<1>14. ASSUME NEW t \in Task, Return(t), UNCHANGED mbfvars
       PROVE  MbfInv'
  BY <1>12, <1>14 DEF Return, gcb
<1>. QED
  BY <1>2, <1>3, <1>6, <1>7, <1>8, <1>9, <1>10, <1>11, <1>13, <1>14 DEF MbfNext

-----------------------------------------------------------------------------
(***************************************************************************)
(* The six kinds together.                                                 *)
(***************************************************************************)
\* The variables of the other kinds are as they were set up.
Elsewhere ==
    /\ kind # "sem" => SemInit
    /\ kind # "flg" => FlgInit
    /\ kind # "mbx" => MbxInit
    /\ kind # "mbf" => MbfInit
    /\ kind # "mpl" => MplInit
    /\ kind # "mpf" => MpfInit

\* What is inside the object, and who waits for it.
Inside ==
    /\ kind = "sem" => SemInv
    /\ kind = "flg" => FlgInv
    /\ kind = "mbx" => MbxInv
    /\ kind = "mbf" => MbfInv
    /\ kind = "mpl" => MplInv
    /\ kind = "mpf" => MpfInv

KInv == IInv /\ Elsewhere /\ Inside

\* Semaphores: who is not looked at any more has not enough counts.
LEMMA SemHolds ==
    ASSUME ObjectInv, kind = "sem", SemInv
    PROVE  SemNobodyLeft /\ SemCountInRange
<1>1. /\ queue["wait"] \in Seq(Task) /\ Range(<< >>) = {}
      /\ \A i \in DOMAIN queue["wait"] : queue["wait"][i] \in Range(queue["wait"])
  BY OneQueue DEF ObjectInv, WaitInv, Types, Range
<1>2. ASSUME rest = << >>, NEW i \in DOMAIN queue["wait"], cnt \/ i = 1
      PROVE  semcnt < winfo[queue["wait"][i]]
  <2>1. CASE cnt
    BY <1>1, <1>2, <2>1 DEF SemInv
  <2>2. CASE ~cnt
    <3>1. queue["wait"] # << >> /\ Head(queue["wait"]) = queue["wait"][i]
      BY <1>1, <1>2, <2>2
    <3>. QED
      BY <1>2, <2>2, <3>1 DEF SemInv
  <2>. QED
    BY <2>1, <2>2
<1>. QED
  BY <1>2 DEF SemNobodyLeft, SemCountInRange, SemInv, Unlocked

\* Event flags: the same, and two tasks do not wait where one may.
LEMMA FlgHolds ==
    ASSUME ObjectInv, kind = "flg", FlgInv
    PROVE  FlgNobodyLeft
<1>1. queue["wait"] \in Seq(Task) /\ OrderedBy(queue["wait"], Rank("wait")) /\ Range(<< >>) = {}
  BY OneQueue DEF ObjectInv, WaitInv, Types, Sorted, Range
<1>2. ASSUME exists /\ ~wmul PROVE Len(queue["wait"]) <= 1
  <2>1. SUFFICES ASSUME Len(queue["wait"]) > 1 PROVE FALSE
    BY <1>1
  <2>2. 1 \in DOMAIN queue["wait"] /\ 2 \in DOMAIN queue["wait"]
    BY <1>1, <2>1
  <2>3. queue["wait"][1] # queue["wait"][2]
    BY <1>1, <2>2 DEF OrderedBy
  <2>4. queue["wait"][1] \in Range(queue["wait"]) /\ queue["wait"][2] \in Range(queue["wait"])
    BY <2>2 DEF Range
  <2>. QED
    BY <1>2, <2>3, <2>4 DEF FlgInv
<1>. QED
  BY <1>1, <1>2 DEF FlgNobodyLeft, FlgInv, Unlocked

\* Mailboxes: the messages of the queue, once each and in order.
LEMMA MbxHolds ==
    ASSUME MbxInv
    PROVE  MbxNobodyLeft /\ MailInOnePlace
<1>1. ASSUME NEW i \in DOMAIN mq, NEW j \in DOMAIN mq, i < j
      PROVE  mq[i] # mq[j] /\ (mpri => MsgPri[mq[i]] <= MsgPri[mq[j]])
  <2>1. mq[i] \in Mail /\ mq[j] \in Mail
    BY DEF MbxInv
  <2>2. mq[i] # mq[j] /\ MailRank[mq[i]] <= MailRank[mq[j]]
    BY <1>1 DEF MbxInv, OrderedBy
  <2>. QED
    BY <2>1, <2>2 DEF MailRank
<1>. QED
  BY <1>1 DEF MbxInv, MbxNobodyLeft, MailInOnePlace

\* Variable-size pools: the first task, and the areas.
LEMMA MplHolds ==
    ASSUME MplInv
    PROVE  MplNobodyLeft /\ HeapWellFormed
BY DEF MplInv, MplNobodyLeft, HeapWellFormed, Tiled, InUse, Unlocked

\* Message buffers: the messages are in the ring.
LEMMA RingHolds ==
    ASSUME RingInv
    PROVE  MessagesInRing
<1>1. PICK at : Laid(at)
  BY DEF RingInv
<1>2. PICK units : units = {x \in 0 .. bufsz : \E k \in 0 .. x : x = k * HEADERSZ}
  OBVIOUS
<1>3. ASSUME NEW x \in 0 .. bufsz, Unit(x)
      PROVE  x \in units
  <2>1. PICK k \in Int : x = k * HEADERSZ
    BY <1>3 DEF Unit
  <2>2. HEADERSZ \in Nat \ {0} /\ x \in Nat
    BY UnitHeader, RingNumbers
  <2>3. 0 <= k
    <3>1. CASE k <= -1
      <4>1. k * HEADERSZ <= (-1) * HEADERSZ
        BY <2>2, <3>1
      <4>. QED
        BY <2>1, <2>2, <4>1
    <3>. QED
      BY <3>1
  <2>4. k <= x
    <3>1. k * 1 <= k * HEADERSZ
      BY <2>2, <2>3
    <3>. QED
      BY <2>1, <3>1
  <2>. QED
    BY <1>2, <2>1, <2>2, <2>3, <2>4
<1>4. /\ at \in [1 .. Len(held) + 1 -> Nat] /\ held \in Seq(Msg)
      /\ at[1] = 0 /\ at[Len(held) + 1] = bufsz - frbufsz
      /\ \A i \in 1 .. Len(held) + 1 : Unit(at[i]) /\ at[i] <= bufsz - frbufsz
      /\ \A i \in 1 .. Len(held) :
           /\ at[i + 1] = at[i] + HEADERSZ + ROUNDSZ(MsgSz[held[i]])
           /\ MessageAt(held[i], at[i])
  BY <1>1 DEF Laid
<1>5. \A i \in 1 .. Len(held) + 1 : at[i] \in 0 .. bufsz
  BY <1>4, RingNumbers
<1>6. at \in [1 .. Len(held) + 1 -> units]
  BY <1>3, <1>4, <1>5
<1>7. DOMAIN held = 1 .. Len(held)
  BY <1>4
<1>8. HeldAt(at)
  BY <1>4, <1>7 DEF HeldAt, MessageAt
<1>. QED
  BY <1>2, <1>6, <1>8 DEF MessagesInRing

\* Message buffers: the two queues, and the offsets of the ring.
LEMMA MbfHolds ==
    ASSUME MbfInv
    PROVE  /\ MbfNobodyLeft
           /\ frbufsz \in 0 .. bufsz /\ head \in 0 .. bufsz /\ tail \in 0 .. bufsz
<1>1. MbfNobodyLeft
  BY DEF MbfInv, MbfNobodyLeft, Unlocked
<1>2. bufsz \in Nat /\ frbufsz \in 0 .. bufsz /\ head \in 0 .. bufsz /\ Ringed(head)
  BY DEF MbfInv, RingInv, Offsets, Ringed
<1>3. tail \in Nat /\ (tail < bufsz \/ (bufsz = 0 /\ tail = 0))
  <2>1. bufsz - frbufsz \in 0 .. bufsz
    BY <1>2
  <2>. QED
    BY <1>2, <2>1, PlaceIs DEF MbfInv, RingInv, Offsets
<1>. QED
  BY <1>1, <1>2, <1>3

-----------------------------------------------------------------------------
\* All kinds: who waits.
LEMMA KindsHold ==
    ASSUME KInv
    PROVE  NobodyLeft
<1>1. ObjectInv /\ kind \in {"sem", "flg", "mbx", "mbf", "mpl", "mpf"}
  BY DEF KInv, IInv, ObjectInv, Pooling
<1>2. CASE kind = "sem"
  BY <1>1, <1>2, SemHolds DEF KInv, Inside, NobodyLeft
<1>3. CASE kind = "flg"
  BY <1>1, <1>3, FlgHolds DEF KInv, Inside, NobodyLeft
<1>4. CASE kind = "mbx"
  BY <1>4, MbxHolds DEF KInv, Inside, NobodyLeft
<1>5. CASE kind = "mbf"
  BY <1>5, MbfHolds DEF KInv, Inside, NobodyLeft
<1>6. CASE kind = "mpl"
  BY <1>6, MplHolds DEF KInv, Inside, NobodyLeft
<1>7. CASE kind = "mpf"
  BY <1>7, MpfHolds DEF KInv, Inside, NobodyLeft
<1>. QED
  BY <1>1, <1>2, <1>3, <1>4, <1>5, <1>6, <1>7

\* All kinds: the shape of the state.
LEMMA KindsTyped ==
    ASSUME KInv
    PROVE  TypeOK
<1>1. TypeWait
  BY DEF KInv, IInv, WaitInv, Types, Serving, TypeWait
<1>2. semcnt \in Int /\ maxsem \in 1 .. MaxSem
  <2>1. CASE kind = "sem"
    BY <2>1, SemAssumption DEF KInv, Inside, SemInv
  <2>2. CASE kind # "sem"
    BY <2>2, SemAssumption DEF KInv, Elsewhere, SemInit
  <2>. QED
    BY <2>1, <2>2
<1>3. flgptn \subseteq Bit
  BY DEF KInv, Inside, FlgInv, Elsewhere, FlgInit
<1>4. mq \in Seq(Mail) /\ mine \subseteq Mail
  <2>1. << >> \in Seq(Mail)
    OBVIOUS
  <2>. QED
    BY <2>1 DEF KInv, Inside, MbxInv, Elsewhere, MbxInit
<1>5. frbufsz \in 0 .. bufsz /\ head \in 0 .. bufsz /\ tail \in 0 .. bufsz
  <2>1. CASE kind = "mbf"
    BY <2>1, MbfHolds DEF KInv, Inside
  <2>2. CASE kind # "mbf"
    BY <2>2 DEF KInv, Elsewhere, MbfInit
  <2>. QED
    BY <2>1, <2>2
<1>6. frbcnt \in 0 .. BlkCnt /\ unused \in 1 .. BlkCnt + 1
  <2>1. CASE kind = "mpf"
    <3>1. BlkCnt \in Nat \ {0} /\ BlocksAccounted /\ PoolFree /\ Blocks = 1 .. BlkCnt
      BY <2>1, MpfHolds, MpfAssumption DEF KInv, Inside, MpfInv, Blocks
    <3>2. Len(freelist) \in Nat /\ unused \in 1 .. BlkCnt + 1
      BY <3>1 DEF PoolFree
    <3>3. Len(freelist) <= unused - 1
      <4>1. PICK last \in Int : last = unused - 1
        BY <3>1, <3>2
      <4>2. \A b \in Range(freelist) : b \in 1 .. BlkCnt /\ b < unused
        BY <3>1, InRange DEF PoolFree
      <4>3. Range(freelist) \subseteq 1 .. last
        BY <3>1, <3>2, <4>1, <4>2
      <4>4. /\ IsFiniteSet(1 .. last)
            /\ Cardinality(1 .. last) = IF 1 > last THEN 0 ELSE last - 1 + 1
        BY FS_Interval
      <4>5. Cardinality(1 .. last) = last /\ last \in Nat
        BY <3>1, <3>2, <4>1, <4>4
      <4>6. Cardinality(Range(freelist)) <= Cardinality(1 .. last)
        BY <4>3, <4>4, FS_Subset
      <4>. QED
        BY <3>1, <4>1, <4>5, <4>6 DEF PoolFree
    <3>. QED
      BY <3>1, <3>2, <3>3 DEF PoolFree
  <2>2. CASE kind # "mpf"
    BY <2>2, MpfAssumption DEF KInv, Elsewhere, MpfInit
  <2>. QED
    BY <2>1, <2>2
<1>. QED
  BY <1>1, <1>2, <1>3, <1>4, <1>5, <1>6 DEF TypeOK

\* All kinds: what is inside.
LEMMA KindsAccount ==
    ASSUME KInv
    PROVE  ContentsAccounted
<1>1. ObjectInv
  BY DEF KInv, IInv, ObjectInv
<1>2. CASE kind = "sem"
  BY <1>1, <1>2, SemHolds DEF KInv, Inside, ContentsAccounted
<1>3. CASE kind = "mbx"
  BY <1>3, MbxHolds DEF KInv, Inside, ContentsAccounted
<1>4. CASE kind = "mpl"
  BY <1>4, MplHolds DEF KInv, Inside, ContentsAccounted
<1>5. CASE kind = "mpf"
  BY <1>5, MpfHolds DEF KInv, Inside, ContentsAccounted
<1>6. CASE kind = "mbf"
  BY <1>6, RingHolds DEF KInv, Inside, MbfInv, ContentsAccounted
<1>7. CASE kind \notin {"sem", "mbx", "mbf", "mpl", "mpf"}
  BY <1>7, KindsTyped DEF ContentsAccounted
<1>. QED
  BY <1>2, <1>3, <1>4, <1>5, <1>6, <1>7

-----------------------------------------------------------------------------
\* Before there is an object.
LEMMA InitKInv == Init => KInv
<1>. SUFFICES ASSUME Init PROVE KInv
  OBVIOUS
<1>1. IInv /\ Elsewhere
  BY InitIInv DEF Init, Elsewhere
<1>2. /\ queue["wait"] = << >> /\ queue["send"] = << >> /\ queue["recv"] = << >>
      /\ rest = << >> /\ exists = FALSE /\ Range(<< >>) = {}
  BY ServedQueue, ObjectsAssumption DEF Init, InitWait, Range
<1>3. SemInv
  <2>1. cnt = FALSE /\ semcnt = 0 /\ maxsem = 1
    BY DEF Init, SemInit
  <2>2. cnt \in BOOLEAN
    BY <2>1
  <2>3. 1 \in 1 .. MaxSem /\ 0 \in 0 .. 1
    BY SemAssumption
  <2>. QED
    BY <1>2, <2>1, <2>2, <2>3 DEF SemInv
<1>4. FlgInv
  BY <1>2 DEF Init, FlgInit, FlgInv
<1>5. MbxInv
  <2>1. << >> \in Seq(Mail) /\ \A pr : OrderedBy(<< >>, pr)
    BY DEF OrderedBy
  <2>. QED
    BY <1>2, <2>1 DEF Init, MbxInit, MbxInv
<1>6. MbfInv
  <2>1. bufsz = 0 /\ frbufsz = 0 /\ head = 0 /\ tail = 0 /\ buffer = << >> /\ held = << >>
    BY DEF Init, MbfInit
  <2>2. Ringed(head)
    BY <2>1, UnitHeader DEF Ringed
  <2>3. DOMAIN buffer = 0 .. bufsz - 1
    <3>1. DOMAIN << >> = {} /\ 0 .. 0 - 1 = {}
      OBVIOUS
    <3>. QED
      BY <2>1, <3>1
  <2>4. tail = Place(head, bufsz - frbufsz)
    BY <2>1 DEF Place
  <2>5. RingInv
    <3>1. Offsets
      BY <2>1, <2>2, <2>3, <2>4, UnitHeader DEF Offsets
    <3>2. PICK at : at = [i \in 1 .. 1 |-> 0]
      OBVIOUS
    <3>3. Len(<< >>) = 0 /\ << >> \in Seq(Msg) /\ Unit(0) /\ 0 - 0 = 0
      BY UnitHeader
    <3>4. at \in [1 .. Len(<< >>) + 1 -> Nat] /\ \A i \in 1 .. 1 : at[i] = 0
      BY <3>2, <3>3
    <3>5. Laid(at)
      BY <2>1, <3>3, <3>4 DEF Laid
    <3>. QED
      BY <3>1, <3>5 DEF RingInv
  <2>. QED
    BY <1>2, <2>5 DEF MbfInv
<1>7. MplInv
  <2>1. heap = Empty(-ENTRY, MplSz) /\ lent = {} /\ InUse = {}
    BY DEF Init, MplInit, init_mempool, InUse
  <2>2. Tiled(heap, {})
    BY <2>1, EmptyTiled, MplAssumption
  <2>. QED
    BY <1>2, <2>1, <2>2 DEF MplInv
<1>8. MpfInv
  <2>1. PoolFree
    <3>1. Range(<< >>) = {} /\ Cardinality({}) = 0 /\ IsFiniteSet({})
      BY FS_EmptySet DEF Range
    <3>2. freelist = << >> /\ unused = 1 /\ frbcnt = BlkCnt
      BY DEF Init, MpfInit
    <3>3. /\ freelist \in Seq(Blocks) /\ Range(freelist) = {} /\ Len(freelist) = 0
          /\ OrderedBy(freelist, [b \in Blocks |-> 0])
      BY <3>1, <3>2 DEF OrderedBy
    <3>4. unused \in 1 .. BlkCnt + 1 /\ frbcnt = Len(freelist) + (BlkCnt + 1 - unused)
      BY <3>2, <3>3, MpfAssumption
    <3>. QED
      BY <3>1, <3>3, <3>4 DEF PoolFree
  <2>2. /\ used = {} /\ unused = 1 /\ freelist = << >> /\ BlkCnt \in Nat \ {0}
        /\ \A t \in Task : doing[t] = [call |-> "none", blk |-> None]
    BY MpfAssumption DEF Init, MpfInit, Idle
  <2>3. \A t \in Task : doing[t].call = "none" /\ doing[t].blk = None
    BY <2>2
  <2>4. PoolTaken
    BY <1>2, <2>2, <2>3 DEF PoolTaken
  <2>5. PoolWaits
    BY <1>2, <2>3 DEF PoolWaits, At
  <2>. QED
    BY <2>1, <2>4, <2>5 DEF MpfInv
<1>. QED
  BY <1>1, <1>3, <1>4, <1>5, <1>6, <1>7, <1>8 DEF KInv, Inside

\* What a call of one kind does not touch stays as it was.
LEMMA ElsewhereStays ==
    ASSUME Elsewhere, [Next]_vars
    PROVE  Elsewhere'
<1>1. kind' = kind
  BY DEF Next, vars
<1>2. /\ kind # "sem" => UNCHANGED semvars
      /\ kind # "flg" => UNCHANGED flgvars
      /\ kind # "mbx" => UNCHANGED mbxvars
      /\ kind # "mbf" => UNCHANGED mbfvars
      /\ kind # "mpl" => UNCHANGED mplvars
      /\ kind # "mpf" => UNCHANGED mpfvars
  BY DEF Next, vars
<1>3. kind # "sem" => SemInit'
  BY <1>2 DEF Elsewhere, SemInit, semvars
<1>4. kind # "flg" => FlgInit'
  BY <1>2 DEF Elsewhere, FlgInit, flgvars
<1>5. kind # "mbx" => MbxInit'
  BY <1>2 DEF Elsewhere, MbxInit, mbxvars
<1>6. kind # "mbf" => MbfInit'
  BY <1>2 DEF Elsewhere, MbfInit, mbfvars
<1>7. kind # "mpl" => MplInit'
  BY <1>2 DEF Elsewhere, MplInit, mplvars, init_mempool
<1>8. kind # "mpf" => MpfInit'
  BY <1>2 DEF Elsewhere, MpfInit, mpfvars, Idle
<1>. QED
  BY <1>1, <1>3, <1>4, <1>5, <1>6, <1>7, <1>8 DEF Elsewhere

\* A step that changes nothing.
LEMMA InsideStays ==
    ASSUME Inside, UNCHANGED vars
    PROVE  Inside'
<1>1. /\ UNCHANGED <<wvars, kind, semvars, flgvars, mbxvars, mbfvars, mplvars, mpfvars>>
      /\ UNCHANGED <<exists, queue, winfo, rest>>
  BY DEF vars, wvars, gcb, tcb
<1>2. SemInv => SemInv'
  BY <1>1 DEF SemInv, semvars
<1>3. FlgInv => FlgInv'
  BY <1>1 DEF FlgInv, flgvars, knl_eventflag_cond
<1>4. MbxInv => MbxInv'
  BY <1>1, MailStays
<1>5. MbfInv => MbfInv'
  BY <1>1, RingStays DEF MbfInv, knl_mbf_free
<1>6. MplInv => MplInv'
  BY <1>1, HeapStays DEF MplInv
<1>7. MpfInv => MpfInv'
  BY <1>1 DEF MpfInv, PoolFree, PoolTaken, PoolWaits, At, mpfvars
<1>. QED
  BY <1>1, <1>2, <1>3, <1>4, <1>5, <1>6, <1>7 DEF Inside

\* Every step of every kind of object.
LEMMA NextKInv == KInv /\ [Next]_vars => KInv'
<1>. SUFFICES ASSUME KInv, [Next]_vars PROVE KInv'
  OBVIOUS
<1>1. ObjectInv /\ Pooling /\ Inside /\ Elsewhere
  BY DEF KInv, IInv, ObjectInv
<1>2. IInv' /\ Elsewhere'
  BY NextIInv, ElsewhereStays DEF KInv
<1>3. CASE kind = "sem" /\ SemNext /\ kind' = kind
  BY <1>1, <1>2, <1>3, SemStep DEF Inside, KInv
<1>4. CASE kind = "flg" /\ FlgNext /\ kind' = kind
  BY <1>1, <1>2, <1>4, FlgStep DEF Inside, KInv
<1>5. CASE kind = "mbx" /\ MbxNext /\ kind' = kind
  BY <1>1, <1>2, <1>5, MbxStep DEF Inside, KInv
<1>6. CASE kind = "mbf" /\ MbfNext /\ kind' = kind
  BY <1>1, <1>2, <1>6, MbfStep DEF Inside, KInv
<1>7. CASE kind = "mpl" /\ MplNext /\ kind' = kind
  BY <1>1, <1>2, <1>7, MplStep DEF Inside, KInv
<1>8. CASE kind = "mpf" /\ MpfNext /\ kind' = kind
  BY <1>1, <1>2, <1>8, MpfStep DEF Inside, KInv
<1>9. CASE UNCHANGED vars
  BY <1>1, <1>2, <1>9, InsideStays DEF KInv
<1>. QED
  BY <1>3, <1>4, <1>5, <1>6, <1>7, <1>8, <1>9 DEF Next

\* The invariant of the objects and of who waits for them.
THEOREM ContentsInvariant == Spec => []KInv
BY InitKInv, NextKInv, PTL DEF Spec

\* NobodyLeft, for every kind of object: when the call is over that returned,
\* freed or received something, or in which a task gave up its place, nobody
\* waits for what is there.
THEOREM NobodyIsLeft == Spec => []NobodyLeft
BY ContentsInvariant, KindsHold, PTL

\* ContentsAccounted: counts of a semaphore in range, a message of a mailbox
\* in one place, areas and blocks of a pool lent once, whatever the calls.
THEOREM ContentsKept == Spec => []ContentsAccounted
BY ContentsInvariant, KindsAccount, PTL

\* The shape of the state, for every kind.
THEOREM ObjectsTyped == Spec => []TypeOK
BY ContentsInvariant, KindsTyped, PTL

-----------------------------------------------------------------------------
(***************************************************************************)
(* Who is served, and after whom.  The two halves of NoOvertaking.         *)
(***************************************************************************)
\* Who begins to wait is behind those that have to be served first.
JoinsBehind ==
    \A t \in Task, q \in Queue :
      tstat[t] # "wait" /\ t \in Range(queue'[q]) => Ahead(t, q) \subseteq Ahead(t, q)'

\* Objects that serve whoever can be served.
AnyOrder == kind = "flg" \/ (kind = "sem" /\ cnt)

\* Whoever is served had nobody before it that still waits.
ServesFirst ==
    \A t \in Task, q \in Queue :
      /\ ~AnyOrder
      /\ ServedFrom(t, q)
      /\ q = "send" => t \in Range(queue[q])
      => \A u \in Ahead(t, q) : tstat'[u] # "wait"

Orderly == JoinsBehind /\ ServesFirst

\* r is s with t linked in at place k.
LinkedIn(r, s, k, t) ==
    /\ Len(r) = Len(s) + 1 /\ r[k] = t
    /\ \A i \in 1 .. Len(s) : r[IF i < k THEN i ELSE i + 1] = s[i]
    /\ \A i \in 1 .. Len(s) + 1 : i # k => \E j \in 1 .. Len(s) : r[i] = s[j]

\* A task is linked into a sequence.
LEMMA LinkedAt ==
    ASSUME NEW S, NEW s \in Seq(S), NEW t \in S, NEW k \in 1 .. Len(s) + 1
    PROVE  InsertAt(s, k, t) \in Seq(S) /\ LinkedIn(InsertAt(s, k, t), s, k, t)
<1>1. CASE k \in 1 .. Len(s)
  <2>1. /\ InsertAt(s, k, t) \in Seq(S)
        /\ Len(InsertAt(s, k, t)) = Len(s) + 1
        /\ \A i \in 1 .. Len(s) + 1 :
             InsertAt(s, k, t)[i] = IF i < k THEN s[i] ELSE IF i = k THEN t ELSE s[i - 1]
    BY <1>1, InsertedAt
  <2>2. PICK r : r = InsertAt(s, k, t)
    OBVIOUS
  <2>3. ASSUME NEW i \in 1 .. Len(s) PROVE r[IF i < k THEN i ELSE i + 1] = s[i]
    BY <1>1, <2>1, <2>2
  <2>4. ASSUME NEW i \in 1 .. Len(s) + 1, i # k PROVE \E j \in 1 .. Len(s) : r[i] = s[j]
    <3>1. CASE i < k
      BY <1>1, <2>1, <2>2, <3>1
    <3>2. CASE i > k
      <4>1. i - 1 \in 1 .. Len(s) /\ r[i] = s[i - 1]
        BY <1>1, <2>1, <2>2, <3>2
      <4>. QED
        BY <4>1
    <3>. QED
      BY <1>1, <2>4, <3>1, <3>2
  <2>5. Len(r) = Len(s) + 1 /\ r[k] = t
    BY <1>1, <2>1, <2>2
  <2>6. LinkedIn(r, s, k, t)
    BY <2>3, <2>4, <2>5 DEF LinkedIn
  <2>. QED
    BY <2>1, <2>2, <2>6
<1>2. CASE k = Len(s) + 1
  <2>1. InsertAt(s, k, t) = Append(s, t)
    BY <1>2, InsertedAtEnd
  <2>2. LinkedIn(Append(s, t), s, k, t)
    BY <1>2 DEF LinkedIn
  <2>. QED
    BY <2>1, <2>2
<1>. QED
  BY <1>1, <1>2

\* Nobody begins to wait.
LEMMA NobodyJoins ==
    ASSUME WaitInv, \A q \in Queue : Range(queue'[q]) \subseteq Range(queue[q])
    PROVE  JoinsBehind
BY DEF WaitInv, Queued, JoinsBehind

\* Nobody is served.
LEMMA NobodyServed ==
    ASSUME \A t \in Task : tstat[t] # "ready" /\ tstat'[t] = "ready" => told'[t].code # "E_OK"
    PROVE  ServesFirst
BY DEF ServesFirst, ServedFrom

\* Neither.
LEMMA StaysOrderly ==
    ASSUME WaitInv, queue' = queue, tstat' = tstat
    PROVE  Orderly
BY NobodyJoins, NobodyServed DEF Orderly

\* A task begins to wait: behind whom it has to let go first, and in front of
\* nobody else.
LEMMA WaitOrderly ==
    ASSUME WaitInv, NEW t \in Task, NEW q \in Queue, NEW info, NEW bypri,
           bypri <=> ByPriority(q), tstat[t] = "run", MakeWait(t, q, info, bypri)
    PROVE  Orderly
<1>1. /\ Range(queue'[q]) = Range(queue[q]) \cup {t} /\ t \notin Range(queue[q])
      /\ \A r \in Queue \ {q} : queue'[r] = queue[r]
  BY MakeWaitDoes
<1>2. /\ queue[q] \in Seq(Task) /\ OrderedBy(queue[q], Rank(q)) /\ Rank(q) \in [Task -> Nat]
      /\ pri \in [Task -> Nat] /\ pri' = pri /\ tpri' = tpri
  BY WaitAssumption DEF WaitInv, Types, Sorted, Rank, MakeWait
<1>3. queue'[q] = IF bypri THEN Inserted(queue[q], pri, t) ELSE Append(queue[q], t)
  BY DEF MakeWait, WaitInv, Types
<1>4. PICK s \in Seq(Task) : s = queue[q]
  BY <1>2
<1>5. \E k \in 1 .. Len(s) + 1 :
        /\ queue'[q] = InsertAt(s, k, t)
        /\ k <= Len(s) => bypri /\ pri[s[k]] > pri[t]
  <2>1. CASE bypri
    BY <1>2, <1>3, <1>4, <2>1, InsertedPlace
  <2>2. CASE ~bypri
    <3>1. Append(s, t) = InsertAt(s, Len(s) + 1, t) /\ Len(s) \in Nat
      BY InsertedAtEnd
    <3>2. Len(s) + 1 \in 1 .. Len(s) + 1 /\ ~(Len(s) + 1 <= Len(s))
      BY <3>1
    <3>. QED
      BY <1>3, <1>4, <2>2, <3>1, <3>2
  <2>. QED
    BY <2>1, <2>2
<1>6. PICK k \in 1 .. Len(s) + 1 :
        /\ queue'[q] = InsertAt(s, k, t)
        /\ k <= Len(s) => bypri /\ pri[s[k]] > pri[t]
  BY <1>5
<1>7. PICK r \in Seq(Task) : r = queue'[q]
  BY <1>6, LinkedAt
<1>8. /\ Len(r) = Len(s) + 1 /\ r[k] = t /\ Len(s) \in Nat
      /\ \A i \in 1 .. Len(s) : r[IF i < k THEN i ELSE i + 1] = s[i]
      /\ \A i \in 1 .. Len(s) + 1 : i # k => \E j \in 1 .. Len(s) : r[i] = s[j]
  <2>1. LinkedIn(InsertAt(s, k, t), s, k, t)
    BY LinkedAt
  <2>2. InsertAt(s, k, t) = r /\ Len(s) \in Nat
    BY <1>6, <1>7
  <2>3. LinkedIn(r, s, k, t)
    BY <2>1, <2>2
  <2>. QED
    BY <2>2, <2>3 DEF LinkedIn
<1>9. \A i \in 1 .. Len(r) : r[i] = t => i = k
  <2>1. \A j \in 1 .. Len(s) : s[j] # t
    BY <1>1, <1>4, InRange
  <2>. QED
    BY <1>8, <2>1
<1>10. ASSUME NEW w \in Ahead(t, q) PROVE w \in Ahead(t, q)'
  <2>1. w \in Range(s) /\ (tpri => pri[w] <= pri[t])
    BY <1>1, <1>4, <1>10 DEF Ahead
  <2>2. PICK i \in 1 .. Len(s) : s[i] = w
    BY <2>1, InRange
  <2>3. i < k
    <3>. SUFFICES ASSUME ~(i < k) PROVE FALSE
      OBVIOUS
    <3>1. k <= Len(s) /\ k \in 1 .. Len(s) /\ k <= i
      BY <1>8
    <3>2. bypri /\ pri[s[k]] > pri[t] /\ s[k] \in Task /\ s[i] \in Task /\ ByPriority(q)
      BY <1>6, <3>1
    <3>3. Rank(q)[s[k]] <= Rank(q)[s[i]]
      <4>1. k = i \/ k < i
        BY <3>1
      <4>2. Rank(q)[s[i]] \in Nat
        BY <1>2, <3>2
      <4>3. k \in DOMAIN s /\ i \in DOMAIN s
        BY <3>1
      <4>4. CASE k = i
        BY <4>2, <4>4
      <4>5. CASE k < i
        <5>1. OrderedBy(s, Rank(q))
          BY <1>2, <1>4
        <5>. QED
          BY <4>3, <4>5, <5>1 DEF OrderedBy
      <4>. QED
        BY <4>1, <4>4, <4>5
    <3>4. pri[s[k]] <= pri[s[i]]
      BY <3>2, <3>3 DEF Rank
    <3>5. tpri
      BY <3>2 DEF ByPriority
    <3>6. pri[s[k]] \in Nat /\ pri[s[i]] \in Nat /\ pri[t] \in Nat
      BY <1>2, <3>2
    <3>. QED
      BY <2>1, <2>2, <3>2, <3>4, <3>5, <3>6
  <2>4. r[i] = w /\ i \in DOMAIN r /\ DOMAIN r = 1 .. Len(r)
    BY <1>8, <2>2, <2>3
  <2>5. \A j \in DOMAIN r : r[j] = t => i < j
    BY <1>9, <2>3, <2>4
  <2>6. t \in Range(r)
    BY <1>1, <1>7
  <2>. QED
    BY <1>7, <2>4, <2>5, <2>6 DEF Ahead
<1>11. JoinsBehind
  <2>1. SUFFICES ASSUME NEW u \in Task, NEW x \in Queue, tstat[u] # "wait", u \in Range(queue'[x])
                 PROVE  u = t /\ x = q
    BY <1>10 DEF JoinsBehind
  <2>2. u \notin Range(queue[x])
    BY <2>1 DEF WaitInv, Queued
  <2>. QED
    BY <1>1, <2>1, <2>2
<1>12. ServesFirst
  <2>1. tstat' = [tstat EXCEPT ![t] = "wait"] /\ tstat \in [Task -> {"run", "wait", "ready"}]
    BY DEF MakeWait, WaitInv, Types
  <2>. QED
    BY <2>1, NobodyServed
<1>. QED
  BY <1>11, <1>12 DEF Orderly

\* Nobody is ahead of the first.
LEMMA FirstOfQueue ==
    ASSUME WaitInv, NEW q \in Queue, queue[q] # << >>
    PROVE  Ahead(Head(queue[q]), q) = {}
<1>1. PICK s \in Seq(Task) : s = queue[q] /\ s # << >>
  BY DEF WaitInv, Types
<1>2. 1 \in DOMAIN s /\ s[1] = Head(s) /\ Head(s) \in Range(s) /\ DOMAIN s = 1 .. Len(s)
  BY <1>1 DEF Range
<1>3. {j \in DOMAIN s : \A k \in DOMAIN s : s[k] = Head(s) => j < k} = {}
  <2>1. ASSUME NEW j \in DOMAIN s PROVE ~(j < 1)
    BY <1>2
  <2>. QED
    BY <1>2, <2>1
<1>. QED
  BY <1>1, <1>2, <1>3 DEF Ahead

\* A released task.
LEMMA ReleaseOrderly ==
    ASSUME WaitInv, NEW q \in Queue, NEW t \in Range(queue[q]), NEW data, ReleaseOk(t, q, data),
           AnyOrder \/ t = Head(queue[q])
    PROVE  Orderly
<1>1. /\ t \in Task /\ Range(queue'[q]) = Range(queue[q]) \ {t}
      /\ \A r \in Queue \ {q} : queue'[r] = queue[r]
      /\ queue[q] # << >>
  <2>1. Range(<< >>) = {}
    BY DEF Range
  <2>. QED
    BY <2>1, ReleaseOkDoes
<1>2. JoinsBehind
  BY <1>1, NobodyJoins
<1>3. /\ tstat' = [tstat EXCEPT ![t] = "ready"] /\ tstat \in [Task -> {"run", "wait", "ready"}]
      /\ tstat[t] = "wait" /\ \A r \in Queue : t \in Range(queue[r]) => r = q
  BY <1>1 DEF ReleaseOk, Released, WaitInv, Types, Queued
<1>4. ASSUME NEW u \in Task, NEW r \in Queue, ServedFrom(u, r) PROVE u = t /\ r = q
  BY <1>3, <1>4 DEF ServedFrom
<1>5. ServesFirst
  BY <1>1, <1>4, FirstOfQueue DEF ServesFirst
<1>. QED
  BY <1>2, <1>5 DEF Orderly

\* A task that does not wait, and is more urgent than the first that does.
LEMMA TopOfQueue ==
    ASSUME WaitInv, NEW q \in Queue, NEW t \in Task, tstat[t] = "run",
           queue[q] = << >> \/ ((tpri => ByPriority(q)) /\ IsTop(q, t))
    PROVE  Ahead(t, q) = {}
<1>1. t \notin Range(queue[q]) /\ Range(<< >>) = {}
  BY DEF WaitInv, Queued, Range
<1>2. PICK s \in Seq(Task) : s = queue[q]
  BY DEF WaitInv, Types
<1>3. CASE s = << >>
  BY <1>1, <1>2, <1>3 DEF Ahead
<1>4. CASE s # << >>
  <2>1. tpri /\ pri[t] < pri[Head(s)] /\ ByPriority(q)
    BY <1>2, <1>4 DEF IsTop
  <2>2. OrderedBy(s, pri) /\ pri \in [Task -> Nat]
    BY <1>2, <2>1, WaitAssumption DEF WaitInv, Types, Sorted, Rank
  <2>3. ASSUME NEW w \in Range(s) PROVE ~(pri[w] <= pri[t])
    <3>1. PICK i \in 1 .. Len(s) : s[i] = w
      BY InRange
    <3>2. 1 \in DOMAIN s /\ i \in DOMAIN s /\ Head(s) = s[1] /\ s[1] \in Task /\ s[i] \in Task
      BY <1>4
    <3>3. i = 1 \/ 1 < i
      OBVIOUS
    <3>4. pri[s[1]] \in Nat /\ pri[w] \in Nat /\ pri[t] \in Nat
      BY <2>2, <3>1, <3>2
    <3>5. pri[s[1]] <= pri[w]
      BY <2>2, <3>1, <3>2, <3>3, <3>4 DEF OrderedBy
    <3>. QED
      BY <2>1, <3>2, <3>4, <3>5
  <2>. QED
    BY <1>1, <1>2, <2>1, <2>3 DEF Ahead
<1>. QED
  BY <1>3, <1>4

\* A call that is over at once.
LEMMA DoneOrderly ==
    ASSUME WaitInv, NEW t \in Task, NEW data, tstat[t] = "run", Completes(t, data),
           AnyOrder \/ \A q \in Queue \ {"send"} : Ahead(t, q) = {}
    PROVE  Orderly
<1>1. /\ tstat' = [tstat EXCEPT ![t] = "ready"] /\ tstat \in [Task -> {"run", "wait", "ready"}]
      /\ queue' = queue /\ \A q \in Queue : t \notin Range(queue[q])
  BY DEF Completes, gcb, WaitInv, Types, Queued
<1>2. ASSUME NEW u \in Task, NEW r \in Queue, ServedFrom(u, r) PROVE u = t
  BY <1>1, <1>2 DEF ServedFrom
<1>3. ServesFirst
  BY <1>1, <1>2 DEF ServesFirst
<1>. QED
  BY <1>1, <1>3, NobodyJoins DEF Orderly

\* A task that leaves without what it waits for.
LEMMA WithdrawOrderly ==
    ASSUME WaitInv, NEW q \in Queue, NEW t \in Task, Withdrawn(t, q)
    PROVE  Orderly
<1>1. /\ Range(queue'[q]) = Range(queue[q]) \ {t}
      /\ \A r \in Queue \ {q} : queue'[r] = queue[r]
  BY WithdrawnDoes
<1>2. /\ tstat \in [Task -> {"run", "wait", "ready"}] /\ told = [u \in Task |-> told[u]]
      /\ \/ tstat' = [tstat EXCEPT ![t] = "run"]
         \/ \E code \in {"E_TMOUT", "E_RLWAI"} :
              /\ tstat' = [tstat EXCEPT ![t] = "ready"]
              /\ told' = [told EXCEPT ![t] = [code |-> code, data |-> None]]
  BY DEF WaitInv, Types, Withdrawn, Terminated, GiveUp, Released
<1>3. ServesFirst
  <2>1. \A u \in Task : tstat[u] # "ready" /\ tstat'[u] = "ready" => told'[u].code # "E_OK"
    BY <1>2
  <2>. QED
    BY <2>1, NobodyServed
<1>. QED
  BY <1>1, <1>3, NobodyJoins DEF Orderly

\* A waiting task whose priority changes.
LEMMA ReorderOrderly ==
    ASSUME WaitInv, NEW q \in Queue, NEW t \in Task, NEW p \in Pri, ByPriority(q), Reordered(t, q, p)
    PROVE  Orderly
<1>1. \A r \in Queue : Range(queue'[r]) = Range(queue[r])
  BY ReorderedDoes
<1>2. tstat' = tstat
  BY DEF Reordered
<1>. QED
  BY <1>1, <1>2, NobodyJoins, NobodyServed DEF Orderly

\* The deletion.
LEMMA DeleteOrderly ==
    ASSUME WaitInv, Delete
    PROVE  Orderly
<1>1. \A q \in Queue : Range(queue'[q]) = {}
  BY DeleteDoes
<1>2. \A t \in Task : /\ tstat'[t] = IF tstat[t] = "wait" THEN "ready" ELSE tstat[t]
                      /\ tstat[t] = "wait" => told'[t] = [code |-> "E_DLT", data |-> None]
  BY DEF Delete
<1>. QED
  BY <1>1, <1>2, NobodyJoins, NobodyServed DEF Orderly

\* The end of a call.
LEMMA ReturnOrderly ==
    ASSUME WaitInv, NEW t \in Task, Return(t)
    PROVE  Orderly
<1>1. /\ tstat' = [tstat EXCEPT ![t] = "run"] /\ queue' = queue
      /\ tstat \in [Task -> {"run", "wait", "ready"}]
  BY DEF Return, gcb, WaitInv, Types
<1>. QED
  BY <1>1, NobodyJoins, NobodyServed DEF Orderly

\* The message of the first sender goes to t.
LEMMA FromSenderOrderly ==
    ASSUME WaitInv, "send" \in Queue, NEW t \in Task, tstat[t] = "run", FromSender(t),
           \A q \in Queue \ {"send"} : queue[q] = << >>
    PROVE  Orderly
<1>1. PICK s \in Task : s = Head(queue["send"]) /\ s \in Range(queue["send"])
  BY HeadWaits DEF FromSender
<1>2. /\ tstat' = [tstat EXCEPT ![t] = "ready", ![s] = "ready"]
      /\ queue' = [queue EXCEPT !["send"] = Tail(queue["send"])] /\ queue["send"] # << >>
      /\ tstat \in [Task -> {"run", "wait", "ready"}] /\ queue \in [Queue -> Seq(Task)]
  BY <1>1 DEF FromSender, WaitInv, Types
<1>3. /\ Range(queue'["send"]) \subseteq Range(queue["send"])
      /\ \A q \in Queue \ {"send"} : queue'[q] = queue[q]
  <2>1. Range(Tail(queue["send"])) \subseteq Range(queue["send"])
    BY <1>2, TailKeeps DEF WaitInv, Sorted
  <2>. QED
    BY <1>2, <2>1
<1>4. JoinsBehind
  <2>1. \A q \in Queue : Range(queue'[q]) \subseteq Range(queue[q])
    BY <1>3
  <2>. QED
    BY <2>1, NobodyJoins
<1>5. \A q \in Queue : t \notin Range(queue[q])
  BY DEF WaitInv, Queued
<1>6. /\ tstat[s] = "wait" /\ \A q \in Queue : s \in Range(queue[q]) => q = "send"
  BY <1>1 DEF WaitInv, Queued
<1>7. ASSUME NEW u \in Task, NEW q \in Queue, ServedFrom(u, q), q = "send" => u \in Range(queue[q])
      PROVE  Ahead(u, q) = {}
  <2>1. u \in {s, t}
    BY <1>2, <1>7 DEF ServedFrom
  <2>2. CASE u = s
    <3>1. q = "send"
      BY <1>6, <1>7, <2>2 DEF ServedFrom
    <3>. QED
      BY <1>1, <1>2, <2>2, <3>1, FirstOfQueue
  <2>3. CASE u = t
    <3>1. q # "send"
      BY <1>5, <1>7, <2>3
    <3>. QED
      BY <2>3, <3>1, TopOfQueue
  <2>. QED
    BY <2>1, <2>2, <2>3
<1>. QED
  BY <1>4, <1>7 DEF Orderly, ServesFirst

-----------------------------------------------------------------------------
\* Where tasks wait for objects with one queue.
LEMMA OnlyQueue ==
    ASSUME ObjectInv, kind # "mbf"
    PROVE  /\ "wait" \in Queue /\ Served = "wait" /\ (tpri <=> ByPriority("wait"))
           /\ \A q \in Queue : q # "wait" => queue[q] = << >>
BY OneQueue DEF ObjectInv, Unused, Used

\* A call of such an object that is over at once, while nobody waits or by a
\* task more urgent than whoever does.
LEMMA AloneOrderly ==
    ASSUME ObjectInv, kind # "mbf", NEW t \in Task, NEW data, tstat[t] = "run", Completes(t, data),
           AnyOrder \/ queue["wait"] = << >> \/ IsTop("wait", t)
    PROVE  Orderly
<1>1. WaitInv
  BY DEF ObjectInv
<1>2. ASSUME ~AnyOrder, NEW q \in Queue PROVE Ahead(t, q) = {}
  BY <1>1, <1>2, OnlyQueue, TopOfQueue
<1>. QED
  BY <1>1, <1>2, DoneOrderly

\* Semaphores.
LEMMA SemOrderly ==
    ASSUME ObjectInv, kind = "sem", SemInv, SemNext
    PROVE  Orderly
<1>. USE DEF ObjectInv
<1>0. /\ "wait" \in Queue /\ Served = "wait" /\ (tpri <=> ByPriority("wait")) /\ WaitInv /\ Serving
      /\ (AnyOrder <=> cnt)
  BY OnlyQueue DEF AnyOrder
<1>1. ASSUME NEW bypri \in BOOLEAN, NEW bycnt \in BOOLEAN, NEW n \in 0 .. MaxSem,
             NEW m \in 1 .. MaxSem, tk_cre_sem(bypri, bycnt, n, m)
      PROVE  Orderly
  BY <1>0, <1>1, StaysOrderly DEF tk_cre_sem, Create, tcb
<1>2. CASE tk_del_sem
  BY <1>0, <1>2, DeleteOrderly DEF tk_del_sem
<1>3. ASSUME NEW n \in 1 .. MaxSem, tk_sig_sem(n)
      PROVE  Orderly
  BY <1>0, <1>3, StaysOrderly DEF tk_sig_sem, gcb, tcb
<1>4. CASE Serve
  <2>1. rest # << >> /\ Head(rest) \in Range(queue["wait"])
    BY <1>0, <1>4, NextServed DEF Serve
  <2>2. AnyOrder \/ Head(rest) = Head(queue["wait"])
    BY <1>0, <2>1 DEF SemInv
  <2>3. CASE UNCHANGED <<gcb, tcb>>
    BY <1>0, <2>3, StaysOrderly DEF gcb, tcb
  <2>4. CASE ReleaseOk(Head(rest), "wait", None)
    BY <1>0, <2>1, <2>2, <2>4, ReleaseOrderly
  <2>. QED
    BY <1>4, <2>3, <2>4 DEF Serve
<1>5. ASSUME NEW t \in Task, NEW n \in 1 .. MaxSem, tk_wai_sem(t, n)
      PROVE  Orderly
  <2>1. tstat[t] = "run"
    BY <1>5 DEF tk_wai_sem, Calls
  <2>2. CASE (cnt \/ IsTop("wait", t)) /\ Completes(t, None)
    BY <1>0, <2>1, <2>2, AloneOrderly
  <2>3. CASE MakeWait(t, "wait", n, tpri)
    BY <1>0, <2>1, <2>3, WaitOrderly
  <2>. QED
    BY <1>5, <2>2, <2>3 DEF tk_wai_sem
<1>6. ASSUME NEW t \in Task, SemWithdraw(t)
      PROVE  Orderly
  BY <1>0, <1>6, WithdrawOrderly DEF SemWithdraw
<1>7. ASSUME NEW t \in Task, NEW p \in Pri, SemReorder(t, p)
      PROVE  Orderly
  BY <1>0, <1>7, ReorderOrderly DEF SemReorder
<1>8. ASSUME NEW t \in Task, NEW p \in Pri, ChangePriority(t, p, IF tpri THEN {"wait"} ELSE {})
      PROVE  Orderly
  BY <1>0, <1>8, StaysOrderly DEF ChangePriority, gcb
<1>9. ASSUME NEW t \in Task, Return(t)
      PROVE  Orderly
  BY <1>0, <1>9, ReturnOrderly
<1>. QED
  BY <1>1, <1>2, <1>3, <1>4, <1>5, <1>6, <1>7, <1>8, <1>9 DEF SemNext

\* Event flags: in any order.
LEMMA FlgOrderly ==
    ASSUME ObjectInv, kind = "flg", FlgNext
    PROVE  Orderly
<1>. USE DEF ObjectInv
<1>0. /\ "wait" \in Queue /\ Served = "wait" /\ (tpri <=> ByPriority("wait")) /\ WaitInv /\ Serving
      /\ AnyOrder
  BY OnlyQueue DEF AnyOrder
<1>1. ASSUME NEW bypri \in BOOLEAN, NEW multi \in BOOLEAN, NEW ptn \in {{}, Bit},
             tk_cre_flg(bypri, multi, ptn)
      PROVE  Orderly
  BY <1>0, <1>1, StaysOrderly DEF tk_cre_flg, Create, tcb
<1>2. CASE tk_del_flg
  BY <1>0, <1>2, DeleteOrderly DEF tk_del_flg
<1>3. ASSUME NEW ptn \in Patterns, tk_set_flg(ptn) \/ tk_clr_flg(Bit \ ptn)
      PROVE  Orderly
  BY <1>0, <1>3, StaysOrderly DEF tk_set_flg, tk_clr_flg, wvars, gcb, tcb
<1>4. CASE SetServe
  <2>1. rest # << >> /\ Head(rest) \in Range(queue["wait"])
    BY <1>0, <1>4, NextServed DEF SetServe
  <2>2. CASE UNCHANGED <<gcb, tcb>>
    BY <1>0, <2>2, StaysOrderly DEF gcb, tcb
  <2>3. CASE ReleaseOk(Head(rest), "wait", flgptn)
    BY <1>0, <2>1, <2>3, ReleaseOrderly
  <2>. QED
    BY <1>4, <2>2, <2>3 DEF SetServe
<1>5. ASSUME NEW t \in Task, NEW ptn \in Patterns, NEW mode \in Mode, tk_wai_flg(t, ptn, mode)
      PROVE  Orderly
  <2>1. tstat[t] = "run"
    BY <1>5 DEF tk_wai_flg, Calls
  <2>2. CASE Completes(t, flgptn)
    BY <1>0, <2>1, <2>2, DoneOrderly
  <2>3. CASE MakeWait(t, "wait", [waiptn |-> ptn, mode |-> mode], tpri)
    BY <1>0, <2>1, <2>3, WaitOrderly
  <2>. QED
    BY <1>5, <2>2, <2>3 DEF tk_wai_flg
<1>6. ASSUME NEW t \in Task, FlgWithdraw(t)
      PROVE  Orderly
  BY <1>0, <1>6, WithdrawOrderly DEF FlgWithdraw
<1>7. ASSUME NEW t \in Task, NEW p \in Pri, FlgReorder(t, p)
      PROVE  Orderly
  BY <1>0, <1>7, ReorderOrderly DEF FlgReorder
<1>8. ASSUME NEW t \in Task, NEW p \in Pri, ChangePriority(t, p, IF tpri THEN {"wait"} ELSE {})
      PROVE  Orderly
  BY <1>0, <1>8, StaysOrderly DEF ChangePriority, gcb
<1>9. ASSUME NEW t \in Task, Return(t)
      PROVE  Orderly
  BY <1>0, <1>9, ReturnOrderly
<1>. QED
  BY <1>1, <1>2, <1>3, <1>4, <1>5, <1>6, <1>7, <1>8, <1>9 DEF FlgNext

\* Mailboxes.
LEMMA MbxOrderly ==
    ASSUME ObjectInv, kind = "mbx", MbxInv, MbxNext
    PROVE  Orderly
<1>. USE DEF ObjectInv
<1>0. /\ "wait" \in Queue /\ Served = "wait" /\ (tpri <=> ByPriority("wait")) /\ WaitInv /\ Serving
  BY OnlyQueue
<1>1. ASSUME NEW bypri \in BOOLEAN, NEW bymsg \in BOOLEAN, tk_cre_mbx(bypri, bymsg)
      PROVE  Orderly
  BY <1>0, <1>1, StaysOrderly DEF tk_cre_mbx, Create, tcb
<1>2. CASE tk_del_mbx
  BY <1>0, <1>2, DeleteOrderly DEF tk_del_mbx
<1>3. ASSUME NEW m \in Mail, tk_snd_mbx(m)
      PROVE  Orderly
  <2>1. CASE queue["wait"] # << >> /\ ReleaseOk(Head(queue["wait"]), "wait", m)
    BY <1>0, <2>1, HeadWaits, ReleaseOrderly
  <2>2. CASE UNCHANGED <<gcb, tcb>>
    BY <1>0, <2>2, StaysOrderly DEF gcb, tcb
  <2>. QED
    BY <1>3, <2>1, <2>2 DEF tk_snd_mbx
<1>4. ASSUME NEW t \in Task, tk_rcv_mbx(t)
      PROVE  Orderly
  <2>1. tstat[t] = "run"
    BY <1>4 DEF tk_rcv_mbx, Calls
  <2>2. CASE mq # << >> /\ Completes(t, Head(mq))
    <3>1. queue["wait"] = << >>
      BY <2>2 DEF MbxInv
    <3>. QED
      BY <2>1, <2>2, <3>1, AloneOrderly
  <2>3. CASE MakeWait(t, "wait", None, tpri)
    BY <1>0, <2>1, <2>3, WaitOrderly
  <2>. QED
    BY <1>4, <2>2, <2>3 DEF tk_rcv_mbx
<1>5. ASSUME NEW t \in Task, MbxWithdraw(t)
      PROVE  Orderly
  BY <1>0, <1>5, WithdrawOrderly DEF MbxWithdraw
<1>6. ASSUME NEW t \in Task, NEW p \in Pri, MbxReorder(t, p)
      PROVE  Orderly
  BY <1>0, <1>6, ReorderOrderly DEF MbxReorder
<1>7. ASSUME NEW t \in Task, NEW p \in Pri, ChangePriority(t, p, IF tpri THEN {"wait"} ELSE {})
      PROVE  Orderly
  BY <1>0, <1>7, StaysOrderly DEF ChangePriority, gcb
<1>8. ASSUME NEW t \in Task, Return(t)
      PROVE  Orderly
  BY <1>0, <1>8, ReturnOrderly
<1>. QED
  BY <1>1, <1>2, <1>3, <1>4, <1>5, <1>6, <1>7, <1>8 DEF MbxNext

\* Variable-size pools.
LEMMA MplOrderly ==
    ASSUME ObjectInv, kind = "mpl", MplInv, MplNext
    PROVE  Orderly
<1>. USE DEF ObjectInv
<1>0. /\ "wait" \in Queue /\ Served = "wait" /\ (tpri <=> ByPriority("wait")) /\ WaitInv /\ Serving
  BY OnlyQueue
<1>1. ASSUME NEW bypri \in BOOLEAN, tk_cre_mpl(bypri)
      PROVE  Orderly
  BY <1>0, <1>1, StaysOrderly DEF tk_cre_mpl, Create, tcb
<1>2. CASE tk_del_mpl
  BY <1>0, <1>2, DeleteOrderly DEF tk_del_mpl
<1>3. ASSUME NEW blk \in lent, tk_rel_mpl(blk)
      PROVE  Orderly
  BY <1>0, <1>3, StaysOrderly DEF tk_rel_mpl, gcb, tcb
<1>4. CASE knl_mpl_wakeup
  <2>1. /\ rest # << >> /\ Head(rest) \in Range(queue["wait"])
        /\ Head(rest) = Head(queue["wait"])
    BY <1>0, <1>4, NextServed DEF knl_mpl_wakeup, MplInv
  <2>2. CASE UNCHANGED <<gcb, tcb>>
    BY <1>0, <2>2, StaysOrderly DEF gcb, tcb
  <2>3. CASE ReleaseOk(Head(rest), "wait", Got(winfo[Head(rest)]))
    BY <1>0, <2>1, <2>3, ReleaseOrderly
  <2>. QED
    BY <1>4, <2>2, <2>3 DEF knl_mpl_wakeup
<1>5. ASSUME NEW t \in Task, NEW sz \in BlkSz, tk_get_mpl(t, sz)
      PROVE  Orderly
  <2>1. tstat[t] = "run"
    BY <1>5 DEF tk_get_mpl, Calls
  <2>2. CASE IsTop("wait", t) /\ Completes(t, Got(roundSize(sz)))
    BY <2>1, <2>2, AloneOrderly
  <2>3. CASE MakeWait(t, "wait", roundSize(sz), tpri)
    BY <1>0, <2>1, <2>3, WaitOrderly
  <2>. QED
    BY <1>5, <2>2, <2>3 DEF tk_get_mpl
<1>6. ASSUME NEW t \in Task, mpl_rel_wai(t)
      PROVE  Orderly
  BY <1>0, <1>6, WithdrawOrderly DEF mpl_rel_wai
<1>7. ASSUME NEW t \in Task, NEW p \in Pri, mpl_chg_pri(t, p)
      PROVE  Orderly
  BY <1>0, <1>7, ReorderOrderly DEF mpl_chg_pri
<1>8. ASSUME NEW t \in Task, NEW p \in Pri, ChangePriority(t, p, IF tpri THEN {"wait"} ELSE {})
      PROVE  Orderly
  BY <1>0, <1>8, StaysOrderly DEF ChangePriority, gcb
<1>9. ASSUME NEW t \in Task, Return(t)
      PROVE  Orderly
  BY <1>0, <1>9, ReturnOrderly
<1>. QED
  BY <1>1, <1>2, <1>3, <1>4, <1>5, <1>6, <1>7, <1>8, <1>9 DEF MplNext

\* Fixed-size pools, part by part.
LEMMA MpfOrderly ==
    ASSUME ObjectInv, Pooling, kind = "mpf", MpfInv, MpfNext
    PROVE  Orderly
<1>. USE DEF ObjectInv
<1>0. /\ "wait" \in Queue /\ Served = "wait" /\ (tpri <=> ByPriority("wait")) /\ WaitInv /\ Serving
  BY OnlyQueue
<1>1. ASSUME NEW t \in Task, UNCHANGED wvars
      PROVE  Orderly
  BY <1>0, <1>1, StaysOrderly DEF wvars, gcb, tcb
<1>2. ASSUME NEW t \in Task, NEW bypri \in BOOLEAN, tk_cre_mpf(t, bypri)
      PROVE  Orderly
  BY <1>0, <1>2, StaysOrderly DEF tk_cre_mpf, Create, tcb
<1>3. ASSUME NEW t \in Task, tk_del_mpf(t)
      PROVE  Orderly
  BY <1>0, <1>3, DeleteOrderly DEF tk_del_mpf
<1>4. ASSUME NEW t \in Task, TakeBlock(t)
      PROVE  Orderly
  <2>1. PICK blk : Completes(t, blk)
    BY <1>4 DEF TakeBlock
  <2>2. tstat[t] = "run" /\ queue["wait"] = << >>
    <3>1. frbcnt > 0 /\ doing[t].call = "get"
      BY <1>4 DEF TakeBlock, At
    <3>2. ~(frbcnt = 0)
      BY <3>1
    <3>. QED
      BY <3>1, <3>2 DEF Pooling, MpfInv, PoolWaits
  <2>. QED
    BY <2>1, <2>2, AloneOrderly
<1>5. ASSUME NEW t \in Task, WaitForBlock(t)
      PROVE  Orderly
  <2>1. tstat[t] = "run" /\ MakeWait(t, "wait", None, tpri)
    BY <1>5 DEF WaitForBlock, At, Pooling
  <2>. QED
    BY <1>0, <2>1, WaitOrderly
<1>6. ASSUME NEW t \in Task, HandOver(t)
      PROVE  Orderly
  <2>1. queue["wait"] # << >> /\ ReleaseOk(Head(queue["wait"]), "wait", doing[t].blk)
    BY <1>6 DEF HandOver
  <2>. QED
    BY <1>0, <2>1, HeadWaits, ReleaseOrderly
<1>7. ASSUME NEW t \in Task, MpfWithdraw(t)
      PROVE  Orderly
  BY <1>0, <1>7, WithdrawOrderly DEF MpfWithdraw
<1>8. ASSUME NEW t \in Task, NEW p \in Pri, MpfReorder(t, p)
      PROVE  Orderly
  BY <1>0, <1>8, ReorderOrderly DEF MpfReorder
<1>9. ASSUME NEW t \in Task, NEW p \in Pri, ChangePriority(t, p, IF tpri THEN {"wait"} ELSE {})
      PROVE  Orderly
  BY <1>0, <1>9, StaysOrderly DEF ChangePriority, gcb
<1>10. ASSUME NEW t \in Task, Return(t)
       PROVE  Orderly
  BY <1>0, <1>10, ReturnOrderly
<1>11. ASSUME NEW t \in Task, NEW call \in {"cre", "del", "get", "rel"},
              NEW blk \in Blocks \cup {None}, Enter(t, call, blk)
       PROVE  Orderly
  BY <1>1, <1>11 DEF Enter
<1>12. ASSUME NEW t \in Task, NoPool(t) \/ NoBlock(t) \/ NobodyWaits(t) \/ PutBlock(t) \/ Leave(t)
       PROVE  Orderly
  BY <1>1, <1>12 DEF NoPool, NoBlock, NobodyWaits, PutBlock, Leave
<1>. QED
  BY <1>2, <1>3, <1>4, <1>5, <1>6, <1>7, <1>8, <1>9, <1>10, <1>11, <1>12 DEF MpfNext

\* Message buffers.
LEMMA MbfOrderly ==
    ASSUME ObjectInv, kind = "mbf", MbfInv, MbfNext
    PROVE  Orderly
<1>. USE DEF ObjectInv
<1>0. /\ Served = "send" /\ "send" \in Queue /\ "recv" \in Queue /\ (tpri <=> ByPriority("send"))
      /\ (FALSE <=> ByPriority("recv")) /\ WaitInv /\ Serving
      /\ \A q \in Queue : q \notin {"send", "recv"} => queue[q] = << >>
      /\ queue["recv"] # << >> => knl_mbf_empty /\ queue["send"] = << >>
      /\ rest # << >> => rest = queue["send"]
  BY ServedQueue DEF Served, ByPriority, Unused, Used, MbfInv
<1>1. ASSUME NEW bypri \in BOOLEAN, NEW size \in BufSz, tk_cre_mbf(bypri, size)
      PROVE  Orderly
  BY <1>0, <1>1, StaysOrderly DEF tk_cre_mbf, Create, tcb
<1>2. CASE tk_del_mbf
  BY <1>0, <1>2, DeleteOrderly DEF tk_del_mbf
<1>3. ASSUME NEW m \in Msg, SendDirectly(m)
      PROVE  Orderly
  <2>1. queue["recv"] # << >> /\ ReleaseOk(Head(queue["recv"]), "recv", Bytes(m))
    BY <1>3 DEF SendDirectly
  <2>. QED
    BY <1>0, <2>1, HeadWaits, ReleaseOrderly
<1>4. CASE UNCHANGED wvars
  BY <1>0, <1>4, StaysOrderly DEF wvars, gcb, tcb
<1>5. ASSUME NEW m \in Msg, HandlerSends(m)
      PROVE  Orderly
  BY <1>3, <1>4, <1>5 DEF HandlerSends
<1>6. CASE Wakeup
  <2>1. /\ rest # << >> /\ Head(rest) \in Range(queue["send"])
        /\ Head(rest) = Head(queue["send"])
    BY <1>0, <1>6, NextServed DEF Wakeup
  <2>2. CASE UNCHANGED <<gcb, tcb>>
    BY <1>0, <2>2, StaysOrderly DEF gcb, tcb
  <2>3. CASE ReleaseOk(Head(rest), "send", None)
    BY <1>0, <2>1, <2>3, ReleaseOrderly
  <2>. QED
    BY <1>6, <2>2, <2>3 DEF Wakeup
<1>7. ASSUME NEW t \in Task, NEW m \in Msg, tk_snd_mbf(t, m)
      PROVE  Orderly
  <2>1. tstat[t] = "run"
    BY <1>7 DEF tk_snd_mbf, Calls
  <2>2. CASE MakeWait(t, "send", m, tpri)
    BY <1>0, <2>1, <2>2, WaitOrderly
  <2>. QED
    BY <1>3, <1>4, <1>7, <2>2 DEF tk_snd_mbf
<1>8. ASSUME NEW t \in Task, tk_rcv_mbf(t)
      PROVE  Orderly
  <2>1. tstat[t] = "run"
    BY <1>8 DEF tk_rcv_mbf, Calls
  <2>2. CASE ~knl_mbf_empty /\ Completes(t, Stored(head))
    <3>1. \A q \in Queue \ {"send"} : Ahead(t, q) = {}
      BY <1>0, <2>1, <2>2, TopOfQueue
    <3>. QED
      BY <1>0, <2>1, <2>2, <3>1, DoneOrderly
  <2>3. CASE FromSender(t)
    <3>1. queue["send"] # << >>
      BY <2>3 DEF FromSender
    <3>2. \A q \in Queue \ {"send"} : queue[q] = << >>
      BY <1>0, <3>1
    <3>. QED
      BY <1>0, <2>1, <2>3, <3>2, FromSenderOrderly
  <2>4. CASE MakeWait(t, "recv", None, FALSE)
    BY <1>0, <2>1, <2>4, WaitOrderly
  <2>. QED
    BY <1>8, <2>2, <2>3, <2>4 DEF tk_rcv_mbf
<1>9. ASSUME NEW t \in Task, MbfWithdraw(t)
      PROVE  Orderly
  BY <1>0, <1>9, WithdrawOrderly DEF MbfWithdraw
<1>10. ASSUME NEW t \in Task, NEW p \in Pri, MbfReorder(t, p)
       PROVE  Orderly
  BY <1>0, <1>10, ReorderOrderly DEF MbfReorder
<1>11. ASSUME NEW t \in Task, NEW p \in Pri, ChangePriority(t, p, IF tpri THEN {"send"} ELSE {})
       PROVE  Orderly
  BY <1>0, <1>11, StaysOrderly DEF ChangePriority, gcb
<1>12. ASSUME NEW t \in Task, Return(t)
       PROVE  Orderly
  BY <1>0, <1>12, ReturnOrderly
<1>. QED
  BY <1>1, <1>2, <1>5, <1>6, <1>7, <1>8, <1>9, <1>10, <1>11, <1>12 DEF MbfNext

\* NoOvertaking, for every kind of object: nobody gets a place before a task
\* that is not less urgent and waits already, and nobody is served before a
\* task ahead of it, by service, hand-over or at once.
THEOREM NobodyOvertakes == Spec => NoOvertaking
<1>1. ASSUME KInv, [Next]_vars PROVE Orderly \/ UNCHANGED vars
  <2>1. ObjectInv /\ Pooling /\ Inside
    BY <1>1 DEF KInv, IInv, ObjectInv
  <2>2. CASE kind = "sem" /\ SemNext
    BY <2>1, <2>2, SemOrderly DEF Inside
  <2>3. CASE kind = "flg" /\ FlgNext
    BY <2>1, <2>3, FlgOrderly DEF Inside
  <2>4. CASE kind = "mbx" /\ MbxNext
    BY <2>1, <2>4, MbxOrderly DEF Inside
  <2>5. CASE kind = "mbf" /\ MbfNext
    BY <2>1, <2>5, MbfOrderly DEF Inside
  <2>6. CASE kind = "mpl" /\ MplNext
    BY <2>1, <2>6, MplOrderly DEF Inside
  <2>7. CASE kind = "mpf" /\ MpfNext
    BY <2>1, <2>7, MpfOrderly DEF Inside
  <2>. QED
    BY <1>1, <2>2, <2>3, <2>4, <2>5, <2>6, <2>7 DEF Next
<1>2. KInv /\ [Next]_vars =>
        [\A t \in Task, q \in Queue :
          /\ tstat[t] # "wait" /\ t \in Range(queue'[q])
             => Ahead(t, q) \subseteq Ahead(t, q)'
          /\ /\ kind # "flg" /\ ~(kind = "sem" /\ cnt)
             /\ ServedFrom(t, q)
             /\ q = "send" => t \in Range(queue[q])
             => \A u \in Ahead(t, q) : tstat'[u] # "wait"]_vars
  BY <1>1 DEF Orderly, JoinsBehind, ServesFirst, AnyOrder
<1>. QED
  BY <1>2, ContentsInvariant, PTL DEF Spec, NoOvertaking

-----------------------------------------------------------------------------
(***************************************************************************)
(* Message buffers as queues of whole messages: every step of the ring of  *)
(* bytes and of its two wait queues is one of module MessageFifo, or none. *)
(***************************************************************************)
Sayings == {Bytes(m) : m \in Msg}

\* The messages of the ring, and those of the senders of a queue.
Kept(h)    == [i \in DOMAIN h |-> Bytes(h[i])]
Says(q, w) == [i \in DOMAIN q |-> Bytes(w[q[i]])]

\* What the channel and the receivers' messages of module MessageFifo are.
Chan  == IF kind = "mbf" THEN UnderWay ELSE << >>
Given == IF kind = "mbf" THEN Received ELSE [t \in Task |-> << >>]

\* A message has bytes, and is not the lack of one.
LEMMA SayingIs ==
    ASSUME NEW x \in Sayings
    PROVE  x # << >> /\ x # None
<1>1. PICK m \in Msg : x = Bytes(m)
  BY DEF Sayings
<1>2. PICK n \in Nat \ {0} : n = MsgSz[m]
  BY MbfAssumption
<1>3. DOMAIN Bytes(m) = 1 .. n /\ DOMAIN << >> = {} /\ 1 \in 1 .. n
  BY <1>2 DEF Bytes
<1>4. x # << >>
  BY <1>1, <1>3
<1>5. x # None
  BY <1>1, MbfAssumption
<1>. QED
  BY <1>4, <1>5

\* What the senders of a queue say.
LEMMA SaysIs ==
    ASSUME NEW q \in Seq(Task), NEW w, \A t \in Range(q) : w[t] \in Msg
    PROVE  /\ Says(q, w) \in Seq(Sayings) /\ Len(Says(q, w)) = Len(q)
           /\ \A i \in 1 .. Len(q) : q[i] \in Range(q) /\ Says(q, w)[i] = Bytes(w[q[i]])
<1>1. PICK n \in Nat : n = Len(q) /\ DOMAIN q = 1 .. n
  OBVIOUS
<1>2. \A i \in 1 .. n : q[i] \in Range(q)
  BY <1>1, InRange
<1>3. \A i \in 1 .. n : Bytes(w[q[i]]) \in Sayings
  BY <1>2 DEF Sayings
<1>4. Says(q, w) = [i \in 1 .. n |-> Bytes(w[q[i]])]
  BY <1>1 DEF Says
<1>5. Says(q, w) \in Seq(Sayings) /\ Len(Says(q, w)) = n
  BY <1>3, <1>4
<1>. QED
  BY <1>1, <1>2, <1>4, <1>5

\* What the first one says goes behind what was said before it.
SaidBefore(a, b) == Append(a, Head(b)) \o Tail(b) = a \o b
LEMMA SaidLast ==
    ASSUME NEW a \in Seq(Sayings), NEW b \in Seq(Sayings), b # << >>
    PROVE  SaidBefore(a, b)
<1>1. b = <<Head(b)>> \o Tail(b) /\ Head(b) \in Sayings /\ Tail(b) \in Seq(Sayings)
  OBVIOUS
<1>2. PICK e \in Sayings, c \in Seq(Sayings) : e = Head(b) /\ c = Tail(b)
  BY <1>1
<1>3. Append(a, e) \o c = a \o (<<e>> \o c)
  OBVIOUS
<1>. QED
  BY <1>1, <1>2, <1>3 DEF SaidBefore

\* A sender more.
LEMMA SaysAdded ==
    ASSUME NEW q \in Seq(Task), NEW t \in Task, NEW k \in 1 .. Len(q) + 1, NEW w, NEW v,
           \A u \in Range(q) : w[u] \in Msg /\ v[u] = w[u], v[t] \in Msg
    PROVE  Says(InsertAt(q, k, t), v) = InsertAt(Says(q, w), k, Bytes(v[t]))
<1>1. PICK n \in Nat : n = Len(q)
  OBVIOUS
<1>2. PICK p : p = InsertAt(q, k, t)
  OBVIOUS
<1>3. /\ p \in Seq(Task) /\ Len(p) = n + 1
      /\ \A i \in 1 .. n + 1 : p[i] = IF i < k THEN q[i] ELSE IF i = k THEN t ELSE q[i - 1]
  <2>1. InsertAt(q, k, t) \in Seq(Task) /\ WithAt(InsertAt(q, k, t), q, k, t)
    BY AddedIs
  <2>2. p \in Seq(Task) /\ WithAt(p, q, k, t)
    BY <1>2, <2>1
  <2>. QED
    BY <1>1, <2>2 DEF WithAt
<1>4. PICK s : s = Says(q, w)
  OBVIOUS
<1>5. /\ s \in Seq(Sayings) /\ Len(s) = n
      /\ \A i \in 1 .. n : q[i] \in Range(q) /\ s[i] = Bytes(w[q[i]])
  <2>1. \A u \in Range(q) : w[u] \in Msg
    OBVIOUS
  <2>. QED
    BY <1>1, <1>4, <2>1, SaysIs
<1>6. PICK e \in Sayings : e = Bytes(v[t])
  BY DEF Sayings
<1>7. PICK d : d = InsertAt(s, k, e)
  OBVIOUS
<1>8. /\ d \in Seq(Sayings) /\ Len(d) = n + 1
      /\ \A i \in 1 .. n + 1 : d[i] = IF i < k THEN s[i] ELSE IF i = k THEN e ELSE s[i - 1]
  <2>0. k \in 1 .. Len(s) + 1 /\ s \in Seq(Sayings)
    BY <1>1, <1>5
  <2>1. InsertAt(s, k, e) \in Seq(Sayings) /\ WithAt(InsertAt(s, k, e), s, k, e)
    BY <1>6, <2>0, AddedIs
  <2>2. d \in Seq(Sayings) /\ WithAt(d, s, k, e)
    BY <1>7, <2>1
  <2>. QED
    BY <1>5, <2>2 DEF WithAt
<1>9. ASSUME NEW i \in 1 .. n + 1 PROVE d[i] = Bytes(v[p[i]])
  <2>1. CASE i < k
    <3>1. i \in 1 .. n
      BY <1>1, <2>1
    <3>. QED
      BY <1>3, <1>5, <1>8, <2>1, <3>1
  <2>2. CASE i = k
    BY <1>3, <1>6, <1>8, <2>2
  <2>3. CASE ~(i < k) /\ i # k
    <3>1. PICK j \in 1 .. n : j = i - 1
      <4>1. i - 1 \in 1 .. n
        BY <2>3
      <4>. QED
        BY <4>1
    <3>2. d[i] = s[j] /\ p[i] = q[j]
      BY <1>3, <1>8, <2>3, <3>1
    <3>. QED
      BY <1>5, <3>1, <3>2
  <2>. QED
    BY <2>1, <2>2, <2>3
<1>10. Says(p, v) = [i \in 1 .. n + 1 |-> Bytes(v[p[i]])]
  BY <1>3 DEF Says
<1>11. d = [i \in 1 .. n + 1 |-> d[i]]
  BY <1>8
<1>12. Says(p, v) = d
  BY <1>9, <1>10, <1>11
<1>. QED
  BY <1>2, <1>4, <1>6, <1>7, <1>12

\* A sender less.
LEMMA SaysRemoved ==
    ASSUME NEW q \in Seq(Task), NEW k \in 1 .. Len(q), NEW w, NEW v,
           \A u \in Range(q) : w[u] \in Msg,
           \A u \in Range(RemoveAt(q, k)) : v[u] = w[u]
    PROVE  Says(RemoveAt(q, k), v) = RemoveAt(Says(q, w), k)
<1>1. PICK n \in Nat : n = Len(q)
  OBVIOUS
<1>2. PICK p : p = RemoveAt(q, k)
  OBVIOUS
<1>3. /\ p \in Seq(Task) /\ Len(p) = n - 1
      /\ \A i \in 1 .. n - 1 : p[i] = IF i < k THEN q[i] ELSE q[i + 1]
  <2>1. /\ RemoveAt(q, k) \in Seq(Task) /\ Len(RemoveAt(q, k)) = Len(q) - 1
        /\ \A i \in 1 .. Len(q) - 1 : RemoveAt(q, k)[i] = IF i < k THEN q[i] ELSE q[i + 1]
    BY RemovedAt
  <2>. QED
    BY <1>1, <1>2, <2>1
<1>4. PICK s : s = Says(q, w)
  OBVIOUS
<1>5. /\ s \in Seq(Sayings) /\ Len(s) = n
      /\ \A i \in 1 .. n : s[i] = Bytes(w[q[i]])
  BY <1>1, <1>4, SaysIs
<1>7. PICK d : d = RemoveAt(s, k)
  OBVIOUS
<1>8. /\ d \in Seq(Sayings) /\ Len(d) = n - 1
      /\ \A i \in 1 .. n - 1 : d[i] = IF i < k THEN s[i] ELSE s[i + 1]
  <2>0. k \in 1 .. Len(s) /\ s \in Seq(Sayings)
    BY <1>1, <1>5
  <2>1. /\ RemoveAt(s, k) \in Seq(Sayings) /\ Len(RemoveAt(s, k)) = Len(s) - 1
        /\ \A i \in 1 .. Len(s) - 1 : RemoveAt(s, k)[i] = IF i < k THEN s[i] ELSE s[i + 1]
    BY <2>0, RemovedAt
  <2>. QED
    BY <1>5, <1>7, <2>1
<1>9. ASSUME NEW i \in 1 .. n - 1 PROVE d[i] = Bytes(v[p[i]])
  <2>0. p[i] \in Range(p)
    BY <1>3, InRange
  <2>1. CASE i < k
    <3>1. i \in 1 .. n
      BY <1>1, <2>1
    <3>. QED
      BY <1>2, <1>3, <1>5, <1>8, <2>0, <2>1, <3>1
  <2>2. CASE ~(i < k)
    <3>1. PICK j \in 1 .. n : j = i + 1
      <4>1. i + 1 \in 1 .. n
        BY <2>2
      <4>. QED
        BY <4>1
    <3>2. d[i] = s[j] /\ p[i] = q[j]
      BY <1>3, <1>8, <2>2, <3>1
    <3>. QED
      BY <1>2, <1>5, <2>0, <3>1, <3>2
  <2>. QED
    BY <2>1, <2>2
<1>10. Says(p, v) = [i \in 1 .. n - 1 |-> Bytes(v[p[i]])]
  BY <1>3 DEF Says
<1>11. d = [i \in 1 .. n - 1 |-> d[i]]
  BY <1>8
<1>12. Says(p, v) = d
  BY <1>9, <1>10, <1>11
<1>. QED
  BY <1>2, <1>4, <1>7, <1>12

\* The messages of the ring: one more behind them, the first one gone.
LEMMA KeptIs ==
    ASSUME NEW h \in Seq(Msg)
    PROVE  /\ Kept(h) \in Seq(Sayings) /\ Len(Kept(h)) = Len(h)
           /\ \A m \in Msg : Kept(Append(h, m)) = Append(Kept(h), Bytes(m))
           /\ h # << >> => /\ Kept(h) # << >> /\ Head(Kept(h)) = Bytes(Head(h))
                           /\ Kept(Tail(h)) = Tail(Kept(h))
<1>1. PICK n \in Nat : n = Len(h) /\ DOMAIN h = 1 .. n
  OBVIOUS
<1>2. \A i \in 1 .. n : Bytes(h[i]) \in Sayings
  BY <1>1 DEF Sayings
<1>3. Kept(h) = [i \in 1 .. n |-> Bytes(h[i])]
  BY <1>1 DEF Kept
<1>4. Kept(h) \in Seq(Sayings) /\ Len(Kept(h)) = n
  BY <1>2, <1>3
<1>5. ASSUME NEW m \in Msg PROVE Kept(Append(h, m)) = Append(Kept(h), Bytes(m))
  <2>1. PICK a : a = Append(h, m)
    OBVIOUS
  <2>2. a \in Seq(Msg) /\ DOMAIN a = 1 .. n + 1 /\ \A i \in 1 .. n + 1 : a[i] = IF i <= n THEN h[i] ELSE m
    BY <1>1, <2>1
  <2>3. Kept(a) = [i \in 1 .. n + 1 |-> Bytes(a[i])]
    BY <2>2 DEF Kept
  <2>4. PICK e \in Sayings : e = Bytes(m)
    BY DEF Sayings
  <2>5. PICK s \in Seq(Sayings) : s = Kept(h) /\ Len(s) = n /\ \A i \in 1 .. n : s[i] = Bytes(h[i])
    BY <1>3, <1>4
  <2>6. Append(s, e) = [i \in 1 .. n + 1 |-> IF i <= n THEN s[i] ELSE e]
    <3>0. /\ Append(s, e) \in Seq(Sayings) /\ Len(Append(s, e)) = n + 1
          /\ \A i \in 1 .. n + 1 : Append(s, e)[i] = IF i <= n THEN s[i] ELSE e
      BY <2>4, <2>5
    <3>1. PICK r : r = Append(s, e)
      OBVIOUS
    <3>2. r = [i \in 1 .. n + 1 |-> r[i]]
      <4>1. r \in Seq(Sayings) /\ Len(r) = n + 1
        BY <3>0, <3>1
      <4>. QED
        BY <4>1
    <3>3. r = [i \in 1 .. n + 1 |-> IF i <= n THEN s[i] ELSE e]
      BY <3>0, <3>1, <3>2
    <3>. QED
      BY <3>1, <3>3
  <2>7. \A i \in 1 .. n + 1 : Bytes(a[i]) = IF i <= n THEN s[i] ELSE e
    <3>1. ASSUME NEW i \in 1 .. n + 1 PROVE Bytes(a[i]) = IF i <= n THEN s[i] ELSE e
      <4>1. CASE i <= n
        <5>1. i \in 1 .. n
          BY <4>1
        <5>. QED
          BY <2>2, <2>5, <4>1, <5>1
      <4>2. CASE ~(i <= n)
        BY <2>2, <2>4, <4>2
      <4>. QED
        BY <4>1, <4>2
    <3>. QED
      BY <3>1
  <2>8. Kept(a) = Append(s, e)
    BY <2>3, <2>6, <2>7
  <2>. QED
    BY <2>1, <2>4, <2>5, <2>8
<1>6. ASSUME h # << >>
      PROVE  /\ Kept(h) # << >> /\ Head(Kept(h)) = Bytes(Head(h))
             /\ Kept(Tail(h)) = Tail(Kept(h))
  <2>1. PICK s \in Seq(Sayings) : s = Kept(h) /\ Len(s) = n /\ \A i \in 1 .. n : s[i] = Bytes(h[i])
    BY <1>3, <1>4
  <2>2. n >= 1 /\ Head(h) = h[1]
    BY <1>1, <1>6
  <2>3. s # << >> /\ Head(s) = s[1] /\ s[1] = Bytes(h[1])
    BY <2>1, <2>2
  <2>4. PICK b : b = Tail(h)
    OBVIOUS
  <2>5. b \in Seq(Msg) /\ DOMAIN b = 1 .. n - 1 /\ \A i \in 1 .. n - 1 : b[i] = h[i + 1]
    BY <1>1, <1>6, <2>4
  <2>6. Kept(b) = [i \in 1 .. n - 1 |-> Bytes(b[i])]
    BY <2>5 DEF Kept
  <2>7. Tail(s) = [i \in 1 .. n - 1 |-> s[i + 1]]
    <3>0. Tail(s) \in Seq(Sayings) /\ Len(Tail(s)) = n - 1 /\ \A i \in 1 .. n - 1 : Tail(s)[i] = s[i + 1]
      BY <2>1, <2>2, <2>3
    <3>1. PICK r : r = Tail(s)
      OBVIOUS
    <3>2. r = [i \in 1 .. n - 1 |-> r[i]]
      <4>1. r \in Seq(Sayings) /\ Len(r) = n - 1
        BY <3>0, <3>1
      <4>. QED
        BY <4>1
    <3>3. r = [i \in 1 .. n - 1 |-> s[i + 1]]
      BY <3>0, <3>1, <3>2
    <3>. QED
      BY <3>1, <3>3
  <2>8. \A i \in 1 .. n - 1 : Bytes(b[i]) = s[i + 1]
    <3>1. ASSUME NEW i \in 1 .. n - 1 PROVE Bytes(b[i]) = s[i + 1]
      <4>1. i + 1 \in 1 .. n
        OBVIOUS
      <4>. QED
        BY <2>1, <2>5, <4>1
    <3>. QED
      BY <3>1
  <2>9. Kept(b) = Tail(s)
    BY <2>6, <2>7, <2>8
  <2>. QED
    BY <2>1, <2>2, <2>3, <2>4, <2>9
<1>. QED
  BY <1>1, <1>4, <1>5, <1>6

-----------------------------------------------------------------------------
\* The steps of module MessageFifo.
LEMMA FifoStays ==
    ASSUME Chan' = Chan, Given' = Given
    PROVE  [Fifo!Next]_<<Chan, Given>>
OBVIOUS

\* A message gets its place.
LEMMA FifoGrows ==
    ASSUME NEW S, NEW c \in Seq(S), NEW k \in 1 .. Len(c) + 1, NEW e \in Sayings, Sayings \subseteq S,
           Chan = c, Chan' = InsertAt(c, k, e), Given' = Given
    PROVE  [Fifo!Next]_<<Chan, Given>>
<1>1. PICK d : d = InsertAt(c, k, e)
  OBVIOUS
<1>2. /\ d \in Seq(S) /\ Len(d) = Len(c) + 1
      /\ \A i \in 1 .. Len(c) + 1 : d[i] = IF i < k THEN c[i] ELSE IF i = k THEN e ELSE c[i - 1]
  <2>0. PICK f \in S : f = e
    OBVIOUS
  <2>1. InsertAt(c, k, f) \in Seq(S) /\ WithAt(InsertAt(c, k, f), c, k, f)
    BY <2>0, AddedIs
  <2>2. d \in Seq(S) /\ WithAt(d, c, k, e)
    BY <1>1, <2>0, <2>1
  <2>. QED
    BY <2>2 DEF WithAt
<1>3. c = RemoveAt(d, k)
  <2>0. e \in S
    OBVIOUS
  <2>. QED
    BY <1>1, <2>0, AddedRemoved
<1>4. k \in DOMAIN d
  BY <1>2
<1>5. Range(d) \subseteq Range(c) \cup Sayings
  <2>1. ASSUME NEW x \in Range(d) PROVE x \in Range(c) \cup Sayings
    <3>1. PICK i \in 1 .. Len(c) + 1 : x = d[i]
      BY <1>2, InRange
    <3>2. CASE i < k
      <4>1. i \in 1 .. Len(c) /\ x = c[i]
        BY <1>2, <3>1, <3>2
      <4>. QED
        BY <4>1, InRange
    <3>3. CASE i = k
      BY <1>2, <3>1, <3>3
    <3>4. CASE ~(i < k) /\ i # k
      <4>1. i - 1 \in 1 .. Len(c)
        BY <3>4
      <4>2. x = c[i - 1]
        BY <1>2, <3>1, <3>4
      <4>. QED
        BY <4>1, <4>2, InRange
    <3>. QED
      BY <3>2, <3>3, <3>4
  <2>. QED
    BY <2>1
<1>6. Fifo!Longer(c, d) /\ Fifo!Range(d) = Range(d) /\ Fifo!Range(c) = Range(c)
  BY <1>2, <1>3, <1>4 DEF Fifo!Longer, Fifo!RemoveAt, RemoveAt, Fifo!Range, Range
<1>7. Fifo!Senders
  BY <1>1, <1>5, <1>6 DEF Fifo!Senders, Chan, Given, Sayings
<1>. QED
  BY <1>7 DEF Fifo!Next

\* A message is withdrawn.
LEMMA FifoShrinks ==
    ASSUME NEW S, NEW c \in Seq(S), NEW k \in 1 .. Len(c),
           Chan = c, Chan' = RemoveAt(c, k), Given' = Given
    PROVE  [Fifo!Next]_<<Chan, Given>>
<1>1. PICK d : d = RemoveAt(c, k)
  OBVIOUS
<1>2. Len(d) = Len(c) - 1
  <2>1. /\ RemoveAt(c, k) \in Seq(S) /\ Len(RemoveAt(c, k)) = Len(c) - 1
        /\ \A i \in 1 .. Len(c) - 1 : RemoveAt(c, k)[i] = IF i < k THEN c[i] ELSE c[i + 1]
    BY RemovedAt
  <2>. QED
    BY <1>1, <2>1
<1>3. Len(c) = Len(d) + 1 /\ k \in DOMAIN c
  BY <1>2
<1>6. Fifo!Longer(d, c)
  BY <1>1, <1>3 DEF Fifo!Longer, Fifo!RemoveAt, RemoveAt
<1>7. Fifo!Senders
  BY <1>1, <1>6 DEF Fifo!Senders, Chan, Given, Sayings
<1>. QED
  BY <1>7 DEF Fifo!Next

\* A message gets another place, or the same one again.
LEMMA FifoMoves ==
    ASSUME NEW S, NEW c \in Seq(S), NEW k \in 1 .. Len(c), NEW j \in 1 .. Len(c),
           Chan = c, Chan' = InsertAt(RemoveAt(c, k), j, c[k]), Given' = Given
    PROVE  [Fifo!Next]_<<Chan, Given>>
<1>1. PICK b : b = RemoveAt(c, k)
  OBVIOUS
<1>2. b \in Seq(S) /\ Len(b) = Len(c) - 1
  <2>1. /\ RemoveAt(c, k) \in Seq(S) /\ Len(RemoveAt(c, k)) = Len(c) - 1
        /\ \A i \in 1 .. Len(c) - 1 : RemoveAt(c, k)[i] = IF i < k THEN c[i] ELSE c[i + 1]
    BY RemovedAt
  <2>. QED
    BY <1>1, <2>1
<1>3. PICK d : d = InsertAt(b, j, c[k])
  OBVIOUS
<1>4. Len(d) = Len(c)
  <2>0. j \in 1 .. Len(b) + 1 /\ b \in Seq(S)
    BY <1>2
  <2>1. PICK e \in S : e = c[k]
    OBVIOUS
  <2>2. /\ InsertAt(b, j, e) \in Seq(S) /\ Len(InsertAt(b, j, e)) = Len(b) + 1
        /\ \A i \in 1 .. Len(b) + 1 :
             InsertAt(b, j, e)[i] = IF i < j THEN b[i] ELSE IF i = j THEN e ELSE b[i - 1]
    BY <2>0, AddedAt
  <2>. QED
    BY <1>2, <1>3, <2>1, <2>2
<1>5. k \in DOMAIN c /\ j \in DOMAIN c
  OBVIOUS
<1>6. Fifo!Moved(c, d)
  BY <1>1, <1>3, <1>4, <1>5
  DEF Fifo!Moved, Fifo!RemoveAt, RemoveAt, Fifo!InsertAt, InsertAt
<1>7. c # d => Fifo!Senders
  BY <1>1, <1>3, <1>6 DEF Fifo!Senders, Chan, Given, Sayings
<1>. QED
  BY <1>1, <1>3, <1>7 DEF Fifo!Next

\* All messages are dropped.
LEMMA FifoDrops ==
    ASSUME Chan' = << >>, Given' = Given
    PROVE  [Fifo!Next]_<<Chan, Given>>
<1>1. Chan # << >> => Fifo!Senders
  BY DEF Fifo!Senders, Chan, Given, Sayings
<1>. QED
  BY <1>1 DEF Fifo!Next

\* The first message is received.
LEMMA FifoReceives ==
    ASSUME NEW r \in Task, NEW m, m # << >>, Given = [t \in Task |-> Given[t]],
           Given[r] = << >>, Given' = [Given EXCEPT ![r] = m],
           Chan # << >>, m = Head(Chan), Chan' = Tail(Chan)
    PROVE  [Fifo!Next]_<<Chan, Given>>
<1>1. Given'[r] = m
  OBVIOUS
<1>2. Fifo!Receive(r)
  BY <1>1 DEF Fifo!Receive, Fifo!Gets, Chan, Given
<1>. QED
  BY <1>2 DEF Fifo!Next

\* A message passes from its sender to a receiver that waits for it.
LEMMA FifoPasses ==
    ASSUME NEW r \in Task, NEW m \in Sayings, Given = [t \in Task |-> Given[t]],
           Given[r] = << >>, Given' = [Given EXCEPT ![r] = m],
           Chan = << >>, Chan' = << >>
    PROVE  [Fifo!Next]_<<Chan, Given>>
<1>1. Given'[r] = m /\ m # << >>
  BY SayingIs
<1>2. Fifo!Pass(r)
  BY <1>1 DEF Fifo!Pass, Fifo!Gets, Chan, Given, Sayings
<1>. QED
  BY <1>2 DEF Fifo!Next

\* A receiver looks at what it has been given, if it has.
LEMMA FifoLooks ==
    ASSUME NEW r \in Task, Given = [t \in Task |-> Given[t]],
           Given' = [Given EXCEPT ![r] = << >>], Chan' = Chan
    PROVE  [Fifo!Next]_<<Chan, Given>>
<1>1. Given[r] # << >> => Fifo!Look(r)
  BY DEF Fifo!Look, Chan, Given
<1>2. Given[r] = << >> => Given' = Given
  OBVIOUS
<1>. QED
  BY <1>1, <1>2 DEF Fifo!Next

-----------------------------------------------------------------------------
\* What the channel and the receivers' messages are made of.
LEMMA ChanIs ==
    ASSUME kind = "mbf"
    PROVE  Chan = Kept(held) \o Says(queue["send"], winfo) /\ Given = Received
BY DEF Chan, Given, UnderWay, Kept, Says

\* The same after the step.
LEMMA ChanNext ==
    ASSUME kind' = "mbf"
    PROVE  Chan' = Kept(held') \o Says(queue'["send"], winfo') /\ Given' = Received'
BY DEF Chan, Given, UnderWay, Kept, Says, Bytes

\* In an empty ring there is no message.
LEMMA NothingHeld ==
    ASSUME RingInv, knl_mbf_empty
    PROVE  held = << >>
<1>1. PICK at : Laid(at)
  BY DEF RingInv
<1>2. PICK l \in Nat : l = Len(held) /\ held \in Seq(Msg)
  BY <1>1 DEF Laid
<1>3. at[1] = 0 /\ at[l + 1] = 0
  <2>1. bufsz - frbufsz = 0
    BY RingNumbers DEF knl_mbf_empty
  <2>. QED
    BY <1>1, <1>2, <2>1 DEF Laid
<1>4. l > 0 => at[1] < at[l + 1]
  <2>1. l > 0 => 1 \in 1 .. l + 1 /\ l + 1 \in 1 .. l + 1 /\ 1 < l + 1
    BY <1>2
  <2>. QED
    BY <1>1, <1>2, <2>1 DEF Laid
<1>5. ~(l > 0)
  BY <1>3, <1>4
<1>. QED
  BY <1>2, <1>5

\* What there is in a message buffer.
LEMMA FifoState ==
    ASSUME ObjectInv, kind = "mbf", MbfInv
    PROVE  /\ queue["send"] \in Seq(Task) /\ held \in Seq(Msg)
           /\ \A t \in Range(queue["send"]) : t \in Task /\ tstat[t] = "wait" /\ winfo[t] \in Msg
           /\ \A t \in Range(queue["recv"]) : t \in Task /\ tstat[t] = "wait"
           /\ Kept(held) \in Seq(Sayings)
           /\ Says(queue["send"], winfo) \in Seq(Sayings)
           /\ Len(Says(queue["send"], winfo)) = Len(queue["send"])
           /\ Chan = Kept(held) \o Says(queue["send"], winfo) /\ Chan \in Seq(Sayings)
           /\ Given = [t \in Task |-> Given[t]]
           /\ \A t \in Task : tstat[t] # "ready" => Given[t] = << >> /\ out[t] = None
           /\ queue["recv"] # << >> => held = << >> /\ queue["send"] = << >>
           /\ knl_mbf_empty => held = << >>
<1>1. /\ queue["send"] \in Seq(Task) /\ "send" \in Queue /\ "recv" \in Queue
      /\ \A t \in Task : tstat[t] # "ready" => out[t] = None
  <2>1. "send" \in Queue /\ "recv" \in Queue
    BY ServedQueue
  <2>2. queue["send"] \in Seq(Task)
    BY <2>1 DEF ObjectInv, WaitInv, Types
  <2>3. \A t \in Task : tstat[t] # "ready" => out[t] = None
    BY DEF ObjectInv, WaitInv, Outcome
  <2>. QED
    BY <2>1, <2>2, <2>3
<1>2. /\ \A t \in Range(queue["send"]) : t \in Task /\ tstat[t] = "wait" /\ winfo[t] \in Msg
      /\ \A t \in Range(queue["recv"]) : t \in Task /\ tstat[t] = "wait"
  <2>1. /\ \A t \in Range(queue["send"]) : t \in Task
        /\ \A t \in Range(queue["recv"]) : t \in Task
    BY <1>1, QueueOfTasks DEF ObjectInv
  <2>. QED
    BY <1>1, <2>1 DEF ObjectInv, WaitInv, Queued, MbfInv
<1>3. held \in Seq(Msg)
  BY DEF MbfInv, RingInv, Laid
<1>4. Kept(held) \in Seq(Sayings)
  BY <1>3, KeptIs
<1>5. /\ Says(queue["send"], winfo) \in Seq(Sayings)
      /\ Len(Says(queue["send"], winfo)) = Len(queue["send"])
  <2>1. PICK q \in Seq(Task) : q = queue["send"]
    BY <1>1
  <2>2. \A t \in Range(q) : winfo[t] \in Msg
    BY <1>2, <2>1
  <2>3. Says(q, winfo) \in Seq(Sayings) /\ Len(Says(q, winfo)) = Len(q)
    BY <2>1, <2>2, SaysIs
  <2>. QED
    BY <2>1, <2>3
<1>6. Chan = Kept(held) \o Says(queue["send"], winfo) /\ Given = Received
  BY ChanIs
<1>7. Chan \in Seq(Sayings)
  BY <1>4, <1>5, <1>6
<1>8. Given = [t \in Task |-> Given[t]]
  BY <1>6 DEF Received
<1>9. \A t \in Task : tstat[t] # "ready" => Given[t] = << >> /\ out[t] = None
  BY <1>1, <1>6 DEF Received
<1>10. knl_mbf_empty => held = << >>
  BY NothingHeld DEF MbfInv
<1>11. queue["recv"] # << >> => held = << >> /\ queue["send"] = << >>
  BY <1>10 DEF MbfInv
<1>. QED
  BY <1>1, <1>2, <1>3, <1>4, <1>5, <1>6, <1>7, <1>8, <1>9, <1>10, <1>11

\* Outputs that stay as they are, and one that is written.
LEMMA GivenSame ==
    ASSUME ObjectInv, kind = "mbf", kind' = kind,
           out' = out \/ \E t \in Task : out[t] = None /\ out' = [out EXCEPT ![t] = None]
    PROVE  Given' = Given
<1>1. Given = Received /\ Given' = Received'
  BY ChanIs, ChanNext
<1>2. \A t \in Task : out'[t] = out[t]
  <2>1. out = [t \in Task |-> out[t]]
    BY DEF ObjectInv, WaitInv, Types
  <2>2. CASE out' = out
    BY <2>2
  <2>3. ASSUME NEW t \in Task, out[t] = None, out' = [out EXCEPT ![t] = None]
        PROVE  \A u \in Task : out'[u] = out[u]
    BY <2>1, <2>3
  <2>. QED
    BY <2>2, <2>3
<1>. QED
  BY <1>1, <1>2 DEF Received

\* The output of t is x.
LEMMA GivenTo ==
    ASSUME ObjectInv, kind = "mbf", kind' = kind, NEW t \in Task, NEW x, x # None,
           out' = [out EXCEPT ![t] = x]
    PROVE  Given' = [Given EXCEPT ![t] = x]
<1>1. Given = Received /\ Given' = Received'
  BY ChanIs, ChanNext
<1>2. out'[t] = x /\ \A u \in Task \ {t} : out'[u] = out[u]
  BY DEF ObjectInv, WaitInv, Types
<1>. QED
  BY <1>1, <1>2 DEF Received

\* The senders of a queue, and what they say, are the same.
LEMMA SaysSame ==
    ASSUME NEW q \in Seq(Task), NEW w, NEW v, \A t \in Range(q) : v[t] = w[t]
    PROVE  Says(q, v) = Says(q, w)
<1>1. \A i \in DOMAIN q : q[i] \in Range(q)
  BY InRange
<1>. QED
  BY <1>1 DEF Says

\* QueRemove() at the place of t.
LEMMA UnlinkedPlace ==
    ASSUME NEW S, NEW s \in Seq(S), NEW t \in Range(s)
    PROVE  \E k \in 1 .. Len(s) : s[k] = t /\ Unlinked(s, t) = RemoveAt(s, k)
<1>1. PICK k : k = CHOOSE i \in DOMAIN s : s[i] = t
  OBVIOUS
<1>2. k \in 1 .. Len(s) /\ s[k] = t
  BY <1>1, InRange
<1>. QED
  BY <1>1, <1>2 DEF Unlinked

-----------------------------------------------------------------------------
\* What the calls on a message buffer are for module MessageFifo.
\* A message is stored in the ring, without a wait.
LEMMA StoreIsFifo ==
    ASSUME ObjectInv, kind = "mbf", kind' = kind, MbfInv, NEW m \in Msg,
           knl_msg_to_mbf(m), UNCHANGED wvars
    PROVE  [Fifo!Next]_<<Chan, Given>>
<1>1. PICK a \in Seq(Sayings), b \in Seq(Sayings), e \in Sayings :
             /\ a = Kept(held) /\ b = Says(queue["send"], winfo) /\ e = Bytes(m)
             /\ Chan = a \o b /\ Chan \in Seq(Sayings)
  BY FifoState DEF Sayings
<1>2. Given' = Given
  BY GivenSame DEF wvars, tcb
<1>3. Chan' = Append(a, e) \o b
  <2>1. Kept(held') = Append(a, e)
    BY <1>1, FifoState, KeptIs DEF knl_msg_to_mbf
  <2>2. Says(queue'["send"], winfo') = b
    BY <1>1 DEF wvars, gcb, tcb
  <2>. QED
    BY <2>1, <2>2, ChanNext
<1>4. Chan' = InsertAt(a \o b, Len(a) + 1, e)
  <2>1. a \in Seq(Sayings) /\ b \in Seq(Sayings) /\ e \in Sayings
    BY <1>1
  <2>2. Append(a, e) \o b = InsertAt(a \o b, Len(a) + 1, e)
    BY <2>1, AppendedPlace
  <2>. QED
    BY <1>3, <2>2
<1>5. PICK c \in Seq(Sayings), k \in Nat : c = a \o b /\ k = Len(a) + 1 /\ k \in 1 .. Len(c) + 1
  <2>1. a \o b \in Seq(Sayings) /\ Len(a) + 1 \in Nat /\ Len(a) + 1 \in 1 .. Len(a \o b) + 1
    BY <1>1
  <2>. QED
    BY <2>1
<1>6. Chan = c /\ Chan' = InsertAt(c, k, e)
  BY <1>1, <1>4, <1>5
<1>. QED
  BY <1>1, <1>2, <1>5, <1>6, FifoGrows

\* A place by priority is a place.
LEMMA SomePlace ==
    ASSUME NEW q \in Seq(Task), NEW pr \in [Task -> Nat], NEW t \in Task
    PROVE  \E k \in 1 .. Len(q) + 1 : Inserted(q, pr, t) = InsertAt(q, k, t)
BY InsertedPlace

\* A sender begins to wait.
LEMMA SenderIsFifo ==
    ASSUME ObjectInv, kind = "mbf", kind' = kind, MbfInv, NEW t \in Task, NEW m \in Msg,
           tstat[t] = "run", MakeWait(t, "send", m, tpri), UNCHANGED mbfvars
    PROVE  [Fifo!Next]_<<Chan, Given>>
<1>1. PICK q \in Seq(Task), a \in Seq(Sayings), b \in Seq(Sayings), e \in Sayings :
             /\ q = queue["send"] /\ a = Kept(held) /\ b = Says(q, winfo) /\ e = Bytes(m)
             /\ Chan = a \o b /\ Len(b) = Len(q) /\ \A u \in Range(q) : winfo[u] \in Msg
  <2>1. Bytes(m) \in Sayings
    BY DEF Sayings
  <2>. QED
    BY <2>1, FifoState
<1>2. Given' = Given
  BY GivenSame DEF MakeWait
<1>3. /\ t \notin Range(q) /\ winfo'[t] = m /\ \A u \in Task \ {t} : winfo'[u] = winfo[u]
      /\ \A u \in Range(q) : u \in Task
  <2>1. "send" \in Queue /\ (tpri <=> ByPriority("send"))
    BY ServedQueue DEF ByPriority
  <2>. QED
    BY <1>1, <2>1, MakeWaitDoes, QueueOfTasks DEF ObjectInv
<1>4. PICK k \in 1 .. Len(q) + 1 : queue'["send"] = InsertAt(q, k, t)
  <2>1. queue'["send"] = IF tpri THEN Inserted(q, pri, t) ELSE Append(q, t)
    BY <1>1, ServedQueue DEF MakeWait, ObjectInv, WaitInv, Types
  <2>2. pri \in [Task -> Nat]
    BY WaitAssumption DEF ObjectInv, WaitInv, Types
  <2>3. \E k \in 1 .. Len(q) + 1 : Inserted(q, pri, t) = InsertAt(q, k, t)
    BY <1>1, <2>2, SomePlace
  <2>4. Append(q, t) = InsertAt(q, Len(q) + 1, t) /\ Len(q) + 1 \in 1 .. Len(q) + 1
    BY <1>1, InsertedAtEnd
  <2>. QED
    BY <2>1, <2>3, <2>4
<1>5. Says(queue'["send"], winfo') = InsertAt(b, k, e)
  <2>1. \A u \in Range(q) : winfo[u] \in Msg /\ winfo'[u] = winfo[u]
    BY <1>1, <1>3
  <2>2. PICK w, v : w = winfo /\ v = winfo'
    OBVIOUS
  <2>3. (\A u \in Range(q) : w[u] \in Msg /\ v[u] = w[u]) /\ v[t] \in Msg
    BY <1>3, <2>1, <2>2
  <2>4. Says(InsertAt(q, k, t), v) = InsertAt(Says(q, w), k, Bytes(v[t]))
    <3>1. q \in Seq(Task) /\ k \in 1 .. Len(q) + 1
      BY <1>1, <1>4
    <3>. QED
      BY <2>3, <3>1, SaysAdded
  <2>. QED
    BY <1>1, <1>3, <1>4, <2>2, <2>4
<1>6. Chan' = a \o InsertAt(b, k, e)
  BY <1>1, <1>5, ChanNext DEF mbfvars
<1>7. k \in 1 .. Len(b) + 1
  BY <1>1, <1>4
<1>8. InsertAt(a \o b, Len(a) + k, e) = a \o InsertAt(b, k, e)
  <2>1. a \in Seq(Sayings) /\ b \in Seq(Sayings) /\ e \in Sayings
    BY <1>1
  <2>. QED
    BY <1>7, <2>1, AddedBehind
<1>9. PICK c \in Seq(Sayings), j \in Nat : c = a \o b /\ j = Len(a) + k /\ j \in 1 .. Len(c) + 1
  <2>1. a \o b \in Seq(Sayings) /\ Len(a \o b) = Len(a) + Len(b)
    BY <1>1, JoinedAt
  <2>2. Len(a) + k \in 1 .. Len(a \o b) + 1 /\ Len(a) + k \in Nat
    BY <1>1, <1>7, <2>1
  <2>. QED
    BY <2>1, <2>2
<1>10. Chan = c /\ Chan' = InsertAt(c, j, e)
  BY <1>1, <1>6, <1>8, <1>9
<1>. QED
  BY <1>1, <1>2, <1>9, <1>10, FifoGrows

\* A message is handed to a waiting receiver.
LEMMA DirectIsFifo ==
    ASSUME ObjectInv, kind = "mbf", kind' = kind, MbfInv, NEW m \in Msg, SendDirectly(m)
    PROVE  [Fifo!Next]_<<Chan, Given>>
<1>0. PICK r : r = Head(queue["recv"])
  OBVIOUS
<1>1. PICK e \in Sayings : e = Bytes(m)
  BY DEF Sayings
<1>2. /\ "send" \in Queue /\ "recv" \in Queue /\ "send" # "recv" /\ queue["recv"] # << >>
      /\ r \in Range(queue["recv"]) /\ ReleaseOk(r, "recv", e) /\ UNCHANGED mbfvars
  <2>1. "send" \in Queue /\ "recv" \in Queue /\ queue["recv"] # << >>
    BY ServedQueue DEF SendDirectly
  <2>2. r \in Range(queue["recv"])
    BY <1>0, <2>1, HeadWaits DEF ObjectInv
  <2>. QED
    BY <1>0, <1>1, <2>1, <2>2 DEF SendDirectly
<1>3. r \in Task /\ tstat[r] = "wait" /\ held = << >> /\ queue["send"] = << >>
  BY <1>2, FifoState
<1>4. queue'["send"] = << >> /\ held' = << >>
  <2>1. \A p \in Queue \ {"recv"} : queue'[p] = queue[p]
    BY <1>2, ReleaseOkDoes DEF ObjectInv
  <2>. QED
    BY <1>2, <1>3, <2>1 DEF mbfvars
<1>5. Chan = << >> /\ Chan' = << >>
  <2>1. \A w : Kept(<< >>) \o Says(<< >>, w) = << >>
    BY DEF Kept, Says
  <2>. QED
    BY <1>3, <1>4, <2>1, ChanIs, ChanNext
<1>6. Given[r] = << >> /\ Given = [t \in Task |-> Given[t]]
  BY <1>3, FifoState
<1>7. Given' = [Given EXCEPT ![r] = e]
  <2>1. out' = [out EXCEPT ![r] = e] /\ e # None
    BY <1>1, <1>2, SayingIs DEF ReleaseOk, Released
  <2>. QED
    BY <1>3, <2>1, GivenTo
<1>. QED
  BY <1>1, <1>3, <1>5, <1>6, <1>7, FifoPasses

\* The message of the first sender is stored: it keeps its place, between the
\* ring and the other senders.
LEMMA WakeupIsFifo ==
    ASSUME ObjectInv, kind = "mbf", kind' = kind, MbfInv, NEW t \in Task,
           queue["send"] # << >>, t = Head(queue["send"]),
           knl_msg_to_mbf(winfo[t]), ReleaseOk(t, "send", None)
    PROVE  [Fifo!Next]_<<Chan, Given>>
<1>1. PICK q \in Seq(Task), a \in Seq(Sayings), b \in Seq(Sayings) :
             /\ q = queue["send"] /\ a = Kept(held) /\ b = Says(q, winfo) /\ q # << >>
             /\ Chan = a \o b /\ Len(b) = Len(q)
             /\ \A u \in Range(q) : winfo[u] \in Msg /\ u \in Task /\ tstat[u] = "wait"
  BY FifoState
<1>2. "send" \in Queue /\ t \in Range(queue["send"]) /\ winfo[t] \in Msg /\ out[t] = None
  <2>1. "send" \in Queue
    BY ServedQueue
  <2>2. t \in Range(queue["send"])
    BY <2>1, HeadWaits DEF ObjectInv
  <2>. QED
    BY <1>1, <2>1, <2>2, FifoState
<1>3. /\ queue'["send"] = Tail(q) /\ Range(Tail(q)) = Range(q) \ {t}
      /\ \A u \in Task \ {t} : winfo'[u] = winfo[u]
  BY <1>1, <1>2, ReleaseOkDoes DEF ObjectInv
<1>4. Given' = Given
  BY <1>2, GivenSame DEF ReleaseOk, Released
<1>5. PICK e \in Sayings : e = Bytes(winfo[t]) /\ e = Head(b) /\ b # << >>
  <2>1. Len(q) >= 1 /\ q[1] = t
    BY <1>1
  <2>2. /\ Len(b) = Len(q) /\ \A i \in 1 .. Len(q) : b[i] = Bytes(winfo[q[i]])
    BY <1>1, SaysIs
  <2>3. b # << >> /\ Head(b) = b[1] /\ b[1] = Bytes(winfo[t])
    BY <2>1, <2>2
  <2>. QED
    BY <1>2, <2>3 DEF Sayings
<1>6. Says(queue'["send"], winfo') = Tail(b)
  <2>0. PICK w, v : w = winfo /\ v = winfo'
    OBVIOUS
  <2>1. RemoveAt(q, 1) = Tail(q) /\ RemoveAt(b, 1) = Tail(b) /\ 1 \in 1 .. Len(q)
    <3>1. q \in Seq(Task) /\ q # << >> /\ b \in Seq(Sayings) /\ b # << >>
      BY <1>1, <1>5
    <3>2. RemoveAt(q, 1) = Tail(q)
      BY <3>1, FirstOf
    <3>3. RemoveAt(b, 1) = Tail(b)
      BY <3>1, FirstOf
    <3>4. 1 \in 1 .. Len(q)
      BY <3>1
    <3>. QED
      BY <3>2, <3>3, <3>4
  <2>2. /\ \A u \in Range(q) : w[u] \in Msg
        /\ \A u \in Range(RemoveAt(q, 1)) : v[u] = w[u]
    BY <1>1, <1>3, <2>0, <2>1
  <2>3. Says(RemoveAt(q, 1), v) = RemoveAt(Says(q, w), 1)
    BY <2>1, <2>2, SaysRemoved
  <2>. QED
    BY <1>1, <1>3, <2>0, <2>1, <2>3
<1>7. Kept(held') = Append(a, e)
  BY <1>1, <1>2, <1>5, FifoState, KeptIs DEF knl_msg_to_mbf
<1>8. Append(a, e) \o Tail(b) = a \o b
  <2>1. SaidBefore(a, b)
    BY <1>1, <1>5, SaidLast
  <2>. QED
    BY <1>5, <2>1 DEF SaidBefore
<1>9. Chan' = Chan
  BY <1>1, <1>6, <1>7, <1>8, ChanNext
<1>. QED
  BY <1>4, <1>9, FifoStays

\* A message is taken from the ring.
LEMMA ReceiveIsFifo ==
    ASSUME ObjectInv, kind = "mbf", kind' = kind, MbfInv, NEW t \in Task, tstat[t] = "run",
           ~knl_mbf_empty, Completes(t, Stored(head)), knl_mbf_to_msg, UNCHANGED <<bufsz, tail>>
    PROVE  [Fifo!Next]_<<Chan, Given>>
<1>1. PICK q \in Seq(Task), a \in Seq(Sayings), b \in Seq(Sayings) :
             /\ q = queue["send"] /\ a = Kept(held) /\ b = Says(q, winfo)
             /\ Chan = a \o b
  BY FifoState
<1>2. /\ held \in Seq(Msg) /\ held # << >> /\ held' = Tail(held)
      /\ Stored(head) = Bytes(Head(held))
  BY RingTaken DEF MbfInv
<1>3. a # << >> /\ Stored(head) = Head(a) /\ Kept(held') = Tail(a)
  BY <1>1, <1>2, KeptIs
<1>4. PICK e \in Sayings : e = Head(a)
  BY <1>3
<1>5. Given[t] = << >> /\ Given = [u \in Task |-> Given[u]]
  BY FifoState
<1>6. Given' = [Given EXCEPT ![t] = e]
  <2>1. e # None /\ out' = [out EXCEPT ![t] = e]
    BY <1>3, <1>4, SayingIs DEF Completes
  <2>. QED
    BY <2>1, GivenTo
<1>7. Chan # << >> /\ e = Head(Chan) /\ Chan' = Tail(Chan)
  <2>1. Head(a \o b) = Head(a) /\ Tail(a \o b) = Tail(a) \o b /\ a \o b # << >>
    BY <1>1, <1>3, FirstOf, SMTT(25)
  <2>2. queue'["send"] = q /\ winfo' = winfo
    BY <1>1 DEF Completes, gcb
  <2>. QED
    BY <1>1, <1>3, <1>4, <2>1, <2>2, ChanNext
<1>8. e # << >>
  BY <1>4, SayingIs
<1>. QED
  BY <1>5, <1>6, <1>7, <1>8, FifoReceives

\* A message passes from the first sender.
LEMMA FromSenderIsFifo ==
    ASSUME ObjectInv, kind = "mbf", kind' = kind, MbfInv, NEW t \in Task, tstat[t] = "run",
           knl_mbf_empty, FromSender(t)
    PROVE  [Fifo!Next]_<<Chan, Given>>
<1>1. PICK q \in Seq(Task), b \in Seq(Sayings) :
             /\ q = queue["send"] /\ b = Says(q, winfo) /\ q # << >>
             /\ Chan = Kept(held) \o b /\ Len(b) = Len(q)
             /\ \A u \in Range(q) : winfo[u] \in Msg /\ u \in Task /\ tstat[u] = "wait"
  BY FifoState DEF FromSender
<1>2. PICK s : s = Head(q)
  OBVIOUS
<1>3. s \in Range(q) /\ s \in Task /\ s # t /\ winfo[s] \in Msg /\ out[s] = None /\ "send" \in Queue
  <2>1. "send" \in Queue
    BY ServedQueue
  <2>2. s \in Range(q)
    BY <1>1, <1>2, <2>1, HeadWaits DEF ObjectInv
  <2>. QED
    BY <1>1, <2>1, <2>2, FifoState
<1>4. PICK e \in Sayings : e = Bytes(winfo[s]) /\ e = Head(b) /\ b # << >>
  <2>1. Len(q) >= 1 /\ q[1] = s
    BY <1>1, <1>2
  <2>2. /\ Len(b) = Len(q) /\ \A i \in 1 .. Len(q) : b[i] = Bytes(winfo[q[i]])
    <3>1. PICK w : w = winfo
      OBVIOUS
    <3>2. \A u \in Range(q) : w[u] \in Msg
      BY <1>1, <3>1
    <3>3. Len(Says(q, w)) = Len(q) /\ \A i \in 1 .. Len(q) : Says(q, w)[i] = Bytes(w[q[i]])
      BY <3>2, SaysIs
    <3>. QED
      BY <1>1, <3>1, <3>3
  <2>3. b # << >> /\ Head(b) = b[1] /\ b[1] = Bytes(winfo[s])
    BY <2>1, <2>2
  <2>. QED
    BY <1>3, <2>3 DEF Sayings
<1>5. held = << >> /\ held' = << >>
  BY FifoState DEF FromSender, mbfvars
<1>6. Chan = b
  <2>1. Kept(<< >>) = << >> /\ << >> \o b = b
    BY DEF Kept
  <2>. QED
    BY <1>1, <1>5, <2>1
<1>7. /\ queue'["send"] = Tail(q)
      /\ \A u \in Task \ {s} : winfo'[u] = winfo[u]
      /\ out' = [out EXCEPT ![t] = e, ![s] = None]
  <2>1. /\ queue' = [queue EXCEPT !["send"] = Tail(q)]
        /\ winfo' = [winfo EXCEPT ![s] = None]
        /\ out' = [out EXCEPT ![t] = e, ![s] = None]
    BY <1>1, <1>2, <1>4 DEF FromSender
  <2>. QED
    BY <1>3, <2>1 DEF ObjectInv, WaitInv, Types
<1>8. Says(queue'["send"], winfo') = Tail(b)
  <2>0. PICK w, v : w = winfo /\ v = winfo'
    OBVIOUS
  <2>1. RemoveAt(q, 1) = Tail(q) /\ RemoveAt(b, 1) = Tail(b) /\ 1 \in 1 .. Len(q)
    <3>1. q \in Seq(Task) /\ q # << >> /\ b \in Seq(Sayings) /\ b # << >>
      BY <1>1, <1>4
    <3>2. RemoveAt(q, 1) = Tail(q)
      BY <3>1, FirstOf
    <3>3. RemoveAt(b, 1) = Tail(b)
      BY <3>1, FirstOf
    <3>4. 1 \in 1 .. Len(q)
      BY <3>1
    <3>. QED
      BY <3>2, <3>3, <3>4
  <2>2. Range(Tail(q)) = Range(q) \ {s}
    <3>1. OrderedBy(q, Rank("send"))
      BY <1>1, <1>3 DEF ObjectInv, WaitInv, Sorted
    <3>. QED
      BY <1>1, <1>2, <3>1, TailKeeps
  <2>3. /\ \A u \in Range(q) : w[u] \in Msg
        /\ \A u \in Range(RemoveAt(q, 1)) : v[u] = w[u]
    BY <1>1, <1>7, <2>0, <2>1, <2>2
  <2>4. Says(RemoveAt(q, 1), v) = RemoveAt(Says(q, w), 1)
    BY <2>1, <2>3, SaysRemoved
  <2>. QED
    BY <1>1, <1>7, <2>0, <2>1, <2>4
<1>9. Chan' = Tail(b)
  <2>1. Tail(b) \in Seq(Sayings)
    BY <1>4, FirstOf
  <2>2. Kept(<< >>) = << >> /\ << >> \o Tail(b) = Tail(b)
    BY <2>1 DEF Kept
  <2>. QED
    BY <1>5, <1>8, <2>2, ChanNext
<1>10. Given[t] = << >> /\ Given = [u \in Task |-> Given[u]]
  BY FifoState
<1>11. Given' = [Given EXCEPT ![t] = e]
  <2>1. out = [u \in Task |-> out[u]]
    BY DEF ObjectInv, WaitInv, Types
  <2>2. out' = [out EXCEPT ![t] = e]
    BY <1>3, <1>7, <2>1
  <2>3. e # None
    BY SayingIs
  <2>. QED
    BY <2>2, <2>3, GivenTo
<1>12. e # << >>
  BY SayingIs
<1>. QED
  BY <1>4, <1>6, <1>9, <1>10, <1>11, <1>12, FifoReceives

\* A receiver begins to wait.
LEMMA ReceiverIsFifo ==
    ASSUME ObjectInv, kind = "mbf", kind' = kind, MbfInv, NEW t \in Task, tstat[t] = "run",
           MakeWait(t, "recv", None, FALSE), UNCHANGED mbfvars
    PROVE  [Fifo!Next]_<<Chan, Given>>
<1>1. PICK q \in Seq(Task) : q = queue["send"] /\ \A u \in Range(q) : u \in Task /\ tstat[u] = "wait"
  BY FifoState
<1>2. queue'["send"] = q /\ \A u \in Range(q) : winfo'[u] = winfo[u]
  <2>1. "recv" \in Queue /\ "send" \in Queue /\ "send" # "recv" /\ (FALSE <=> ByPriority("recv"))
    BY ServedQueue DEF ByPriority
  <2>2. /\ \A r \in Queue \ {"recv"} : queue'[r] = queue[r]
        /\ \A u \in Task \ {t} : winfo'[u] = winfo[u]
    BY <2>1, MakeWaitDoes DEF ObjectInv
  <2>. QED
    BY <1>1, <2>1, <2>2
<1>3. Chan' = Chan
  <2>1. Says(q, winfo') = Says(q, winfo)
    BY <1>1, <1>2, SaysSame
  <2>. QED
    BY <1>1, <1>2, <2>1, ChanIs, ChanNext DEF mbfvars
<1>4. Given' = Given
  BY GivenSame DEF MakeWait
<1>. QED
  BY <1>3, <1>4, FifoStays

\* A sender or a receiver gives up.
LEMMA WithdrawIsFifo ==
    ASSUME ObjectInv, kind = "mbf", kind' = kind, MbfInv, NEW t \in Task,
           Withdrawn(t, "send") \/ Withdrawn(t, "recv"), UNCHANGED mbfvars
    PROVE  [Fifo!Next]_<<Chan, Given>>
<1>1. PICK q \in Seq(Task), a \in Seq(Sayings), b \in Seq(Sayings) :
             /\ q = queue["send"] /\ a = Kept(held) /\ b = Says(q, winfo)
             /\ Chan = a \o b /\ Chan \in Seq(Sayings) /\ Len(b) = Len(q)
             /\ \A u \in Range(q) : winfo[u] \in Msg /\ u \in Task /\ tstat[u] = "wait"
  BY FifoState
<1>2. "recv" \in Queue /\ "send" \in Queue /\ "send" # "recv"
  BY ServedQueue
<1>3. Given' = Given
  <2>1. out' = out \/ (out[t] = None /\ out' = [out EXCEPT ![t] = None])
    <3>1. tstat[t] = "wait" /\ (out' = out \/ out' = [out EXCEPT ![t] = None])
      BY DEF Withdrawn, Terminated, GiveUp, Released
    <3>2. out[t] = None
      BY <3>1, FifoState
    <3>. QED
      BY <3>1, <3>2
  <2>. QED
    BY <2>1, GivenSame
<1>4. CASE Withdrawn(t, "send")
  <2>1. /\ t \in Range(q) /\ Range(queue'["send"]) = Range(q) \ {t}
        /\ \A u \in Task \ {t} : winfo'[u] = winfo[u]
    BY <1>1, <1>2, <1>4, WithdrawnDoes DEF ObjectInv
  <2>2. PICK k \in 1 .. Len(q) : Unlinked(q, t) = RemoveAt(q, k)
    BY <2>1, UnlinkedPlace
  <2>3. queue'["send"] = RemoveAt(q, k)
    BY <1>1, <1>2, <1>4, <2>2
    DEF Withdrawn, Terminated, GiveUp, ObjectInv, WaitInv, Types
  <2>4. Says(queue'["send"], winfo') = RemoveAt(b, k)
    <3>0. PICK w, v : w = winfo /\ v = winfo'
      OBVIOUS
    <3>1. /\ \A u \in Range(q) : w[u] \in Msg
          /\ \A u \in Range(RemoveAt(q, k)) : v[u] = w[u]
      BY <1>1, <2>1, <2>3, <3>0
    <3>2. Says(RemoveAt(q, k), v) = RemoveAt(Says(q, w), k)
      BY <2>2, <3>1, SaysRemoved
    <3>. QED
      BY <1>1, <2>3, <3>0, <3>2
  <2>5. k \in 1 .. Len(b)
    BY <1>1, <2>2
  <2>6. RemoveAt(a \o b, Len(a) + k) = a \o RemoveAt(b, k)
    <3>1. a \in Seq(Sayings) /\ b \in Seq(Sayings)
      BY <1>1
    <3>. QED
      BY <2>5, <3>1, RemovedBehind
  <2>7. Chan' = RemoveAt(a \o b, Len(a) + k)
    BY <1>1, <2>4, <2>6, ChanNext DEF mbfvars
  <2>8. PICK c \in Seq(Sayings), j \in Nat : c = a \o b /\ j = Len(a) + k /\ j \in 1 .. Len(c)
    <3>1. a \o b \in Seq(Sayings) /\ Len(a \o b) = Len(a) + Len(b)
      BY <1>1, JoinedAt
    <3>2. Len(a) + k \in 1 .. Len(a \o b) /\ Len(a) + k \in Nat
      BY <1>1, <2>5, <3>1
    <3>. QED
      BY <3>1, <3>2
  <2>9. Chan = c /\ Chan' = RemoveAt(c, j)
    BY <1>1, <2>7, <2>8
  <2>. QED
    BY <1>3, <2>8, <2>9, FifoShrinks
<1>5. CASE Withdrawn(t, "recv")
  <2>1. /\ queue'["send"] = q /\ t \in Range(queue["recv"])
        /\ \A u \in Task \ {t} : winfo'[u] = winfo[u]
    BY <1>1, <1>2, <1>5, WithdrawnDoes DEF ObjectInv
  <2>2. q = << >>
    <3>1. queue["recv"] # << >>
      BY <2>1 DEF Range
    <3>. QED
      BY <1>1, <3>1, FifoState
  <2>3. \A w : Says(<< >>, w) = << >>
    BY DEF Says
  <2>4. Chan' = Chan
    BY <1>1, <2>1, <2>2, <2>3, ChanNext DEF mbfvars
  <2>. QED
    BY <1>3, <2>4, FifoStays
<1>. QED
  BY <1>4, <1>5

\* A waiting sender gets another priority.
LEMMA ReorderIsFifo ==
    ASSUME ObjectInv, kind = "mbf", kind' = kind, MbfInv, NEW t \in Task, NEW p \in Pri,
           Reordered(t, "send", p), UNCHANGED mbfvars
    PROVE  [Fifo!Next]_<<Chan, Given>>
<1>1. PICK q \in Seq(Task), a \in Seq(Sayings), b \in Seq(Sayings) :
             /\ q = queue["send"] /\ a = Kept(held) /\ b = Says(q, winfo)
             /\ Chan = a \o b /\ Chan \in Seq(Sayings) /\ Len(b) = Len(q)
             /\ \A u \in Range(q) : winfo[u] \in Msg /\ u \in Task /\ tstat[u] = "wait"
  BY FifoState
<1>2. "send" \in Queue /\ t \in Range(q) /\ winfo' = winfo /\ out' = out
  BY <1>1, ServedQueue DEF Reordered
<1>3. PICK k \in 1 .. Len(q) : q[k] = t /\ Unlinked(q, t) = RemoveAt(q, k)
  BY <1>2, UnlinkedPlace
<1>4. PICK r \in Seq(Task) : r = RemoveAt(q, k) /\ Len(r) = Len(q) - 1
  <2>1. k \in 1 .. Len(q)
    BY <1>3
  <2>2. RemoveAt(q, k) \in Seq(Task) /\ Len(RemoveAt(q, k)) = Len(q) - 1
    BY <2>1, RemovedAt
  <2>. QED
    BY <2>2
<1>5. PICK j \in 1 .. Len(r) + 1 : queue'["send"] = InsertAt(r, j, t)
  <2>1. queue'["send"] = Inserted(r, pri', t)
    BY <1>1, <1>2, <1>3, <1>4 DEF Reordered, ObjectInv, WaitInv, Types
  <2>2. pri' \in [Task -> Nat]
    BY WaitAssumption DEF Reordered, ObjectInv, WaitInv, Types
  <2>3. PICK f \in [Task -> Nat] : f = pri'
    BY <2>2
  <2>4. \E j \in 1 .. Len(r) + 1 : Inserted(r, f, t) = InsertAt(r, j, t)
    <3>1. r \in Seq(Task) /\ f \in [Task -> Nat]
      BY <1>4, <2>3
    <3>2. \E j \in 1 .. Len(r) + 1 :
            /\ Inserted(r, f, t) = InsertAt(r, j, t)
            /\ \A i \in 1 .. Len(r) : i < j => f[r[i]] <= f[t]
            /\ j <= Len(r) => f[r[j]] > f[t]
      BY <3>1, InsertedPlace
    <3>. QED
      BY <3>2
  <2>. QED
    BY <2>1, <2>3, <2>4
<1>6. PICK s \in Seq(Sayings), e \in Sayings :
             s = RemoveAt(b, k) /\ s = Says(r, winfo) /\ e = Bytes(winfo[t]) /\ e = b[k] /\ Len(s) = Len(r)
  <2>0. PICK w : w = winfo
    OBVIOUS
  <2>1. \A u \in Range(q) : w[u] \in Msg
    BY <1>1, <2>0
  <2>2. Says(RemoveAt(q, k), w) = RemoveAt(Says(q, w), k)
    BY <1>3, <2>1, SaysRemoved
  <2>3. /\ \A i \in 1 .. Len(q) : b[i] = Bytes(winfo[q[i]])
    BY <1>1, SaysIs
  <2>4. k \in 1 .. Len(b) /\ b[k] = Bytes(winfo[t]) /\ winfo[t] \in Msg
    BY <1>1, <1>2, <1>3, <2>3
  <2>5. RemoveAt(b, k) \in Seq(Sayings) /\ Len(RemoveAt(b, k)) = Len(b) - 1
    BY <2>4, RemovedAt
  <2>6. Bytes(winfo[t]) \in Sayings
    BY <2>4 DEF Sayings
  <2>. QED
    BY <1>1, <1>4, <2>0, <2>2, <2>4, <2>5, <2>6
<1>7. Says(queue'["send"], winfo') = InsertAt(s, j, e)
  <2>0. PICK w : w = winfo /\ w = winfo'
    BY <1>2
  <2>1. \A u \in Range(r) : u \in Range(q)
    <3>1. PICK rank : rank = Rank("send")
      OBVIOUS
    <3>2. q \in Seq(Task) /\ OrderedBy(q, rank)
      BY <1>1, <1>2, <3>1 DEF ObjectInv, WaitInv, Sorted
    <3>3. /\ Unlinked(q, t) \in Seq(Task)
          /\ Range(Unlinked(q, t)) = Range(q) \ {t}
          /\ OrderedBy(Unlinked(q, t), rank)
      BY <3>2, UnlinkedKeeps
    <3>. QED
      BY <1>3, <1>4, <3>3
  <2>2. (\A u \in Range(r) : w[u] \in Msg /\ w[u] = w[u]) /\ w[t] \in Msg
    BY <1>1, <1>2, <2>0, <2>1
  <2>3. Says(InsertAt(r, j, t), w) = InsertAt(Says(r, w), j, Bytes(w[t]))
    <3>1. r \in Seq(Task) /\ j \in 1 .. Len(r) + 1
      BY <1>4, <1>5
    <3>. QED
      BY <2>2, <3>1, SaysAdded
  <2>. QED
    BY <1>5, <1>6, <2>0, <2>3
<1>8. Chan' = a \o InsertAt(s, j, e)
  BY <1>1, <1>7, ChanNext DEF mbfvars
<1>9. PICK c \in Seq(Sayings), l \in Nat, m \in Nat :
             /\ c = a \o b /\ l = Len(a) + k /\ m = Len(a) + j
             /\ l \in 1 .. Len(c) /\ m \in 1 .. Len(c) /\ c[l] = e
             /\ RemoveAt(c, l) = a \o s
  <2>0. a \in Seq(Sayings) /\ b \in Seq(Sayings) /\ k \in 1 .. Len(b) /\ j \in 1 .. Len(b)
    BY <1>1, <1>3, <1>4, <1>5
  <2>1. /\ a \o b \in Seq(Sayings) /\ Len(a \o b) = Len(a) + Len(b)
        /\ \A i \in 1 .. Len(a) + Len(b) : (a \o b)[i] = IF i <= Len(a) THEN a[i] ELSE b[i - Len(a)]
    BY <2>0, JoinedAt
  <2>2. RemoveAt(a \o b, Len(a) + k) = a \o RemoveAt(b, k)
    BY <2>0, RemovedBehind
  <2>3. PICK c \in Seq(Sayings) : c = a \o b
    BY <2>1
  <2>4. PICK l \in Nat, m \in Nat : l = Len(a) + k /\ m = Len(a) + j
    <3>1. Len(a) + k \in Nat /\ Len(a) + j \in Nat
      BY <2>0
    <3>. QED
      BY <3>1
  <2>5. l \in 1 .. Len(c) /\ m \in 1 .. Len(c)
    BY <2>0, <2>1, <2>3, <2>4
  <2>6. c[l] = b[k]
    <3>1. l \in 1 .. Len(a) + Len(b) /\ ~(l <= Len(a)) /\ l - Len(a) = k
      BY <2>0, <2>4
    <3>. QED
      BY <2>1, <2>3, <3>1
  <2>. QED
    BY <1>6, <2>2, <2>3, <2>4, <2>5, <2>6
<1>10. InsertAt(a \o s, m, e) = a \o InsertAt(s, j, e)
  <2>1. a \in Seq(Sayings) /\ s \in Seq(Sayings) /\ e \in Sayings
    BY <1>1, <1>6
  <2>2. j \in 1 .. Len(s) + 1
    BY <1>5, <1>6
  <2>3. InsertAt(a \o s, Len(a) + j, e) = a \o InsertAt(s, j, e)
    BY <2>1, <2>2, AddedBehind, SMTT(30)
  <2>. QED
    BY <1>9, <2>3
<1>11. Chan = c /\ Chan' = InsertAt(RemoveAt(c, l), m, c[l])
  BY <1>1, <1>8, <1>9, <1>10
<1>12. Given' = Given
  BY <1>2, GivenSame
<1>. QED
  BY <1>9, <1>11, <1>12, FifoMoves

\* Every call on a message buffer, every turn of knl_mbf_wakeup() and every
\* release is a step of module MessageFifo, or changes nothing there.
LEMMA MbfIsFifo ==
    ASSUME ObjectInv, kind = "mbf", kind' = kind, MbfInv, MbfNext
    PROVE  [Fifo!Next]_<<Chan, Given>>
<1>1. ASSUME NEW bypri \in BOOLEAN, NEW size \in BufSz, tk_cre_mbf(bypri, size)
      PROVE  [Fifo!Next]_<<Chan, Given>>
  <2>1. queue'["send"] = << >> /\ held' = << >> /\ out' = out
    BY <1>1, ServedQueue, CreateDoes DEF tk_cre_mbf, Create, tcb, ObjectInv
  <2>2. \A w : Kept(<< >>) \o Says(<< >>, w) = << >>
    BY DEF Kept, Says
  <2>3. Chan' = << >> /\ Given' = Given
    BY <2>1, <2>2, ChanNext, GivenSame
  <2>. QED
    BY <2>3, FifoDrops
<1>2. CASE tk_del_mbf
  <2>1. queue'["send"] = << >> /\ held' = << >> /\ out' = out
    BY <1>2, ServedQueue, DeleteDoes DEF tk_del_mbf, Delete
  <2>2. \A w : Kept(<< >>) \o Says(<< >>, w) = << >>
    BY DEF Kept, Says
  <2>3. Chan' = << >> /\ Given' = Given
    BY <2>1, <2>2, ChanNext, GivenSame
  <2>. QED
    BY <2>3, FifoDrops
<1>3. ASSUME NEW m \in Msg, HandlerSends(m)
      PROVE  [Fifo!Next]_<<Chan, Given>>
  BY <1>3, DirectIsFifo, StoreIsFifo DEF HandlerSends
<1>4. CASE Wakeup
  <2>0. PICK t : t = Head(rest)
    OBVIOUS
  <2>1. t \in Task /\ queue["send"] # << >> /\ t = Head(queue["send"])
    <3>1. rest # << >> /\ rest = queue["send"]
      BY <1>4 DEF Wakeup, MbfInv
    <3>2. t \in Range(queue["send"])
      BY <2>0, <3>1, ServedQueue, HeadWaits DEF ObjectInv
    <3>. QED
      BY <2>0, <3>1, <3>2, FifoState
  <2>2. CASE UNCHANGED <<gcb, tcb, mbfvars>>
    <3>1. Chan' = Chan
      BY <2>2, ChanIs, ChanNext DEF gcb, tcb, mbfvars
    <3>2. Given' = Given
      BY <2>2, GivenSame DEF tcb
    <3>. QED
      BY <3>1, <3>2, FifoStays
  <2>3. CASE knl_msg_to_mbf(winfo[t]) /\ ReleaseOk(t, "send", None)
    BY <2>1, <2>3, WakeupIsFifo
  <2>. QED
    BY <1>4, <2>0, <2>2, <2>3 DEF Wakeup
<1>5. ASSUME NEW t \in Task, NEW m \in Msg, tk_snd_mbf(t, m)
      PROVE  [Fifo!Next]_<<Chan, Given>>
  BY <1>5, DirectIsFifo, StoreIsFifo, SenderIsFifo DEF tk_snd_mbf, Calls
<1>6. ASSUME NEW t \in Task, tk_rcv_mbf(t)
      PROVE  [Fifo!Next]_<<Chan, Given>>
  BY <1>6, ReceiveIsFifo, FromSenderIsFifo, ReceiverIsFifo DEF tk_rcv_mbf, Calls
<1>7. ASSUME NEW t \in Task, MbfWithdraw(t)
      PROVE  [Fifo!Next]_<<Chan, Given>>
  BY <1>7, WithdrawIsFifo DEF MbfWithdraw
<1>8. ASSUME NEW t \in Task, NEW p \in Pri, MbfReorder(t, p)
      PROVE  [Fifo!Next]_<<Chan, Given>>
  BY <1>8, ReorderIsFifo DEF MbfReorder
<1>9. ASSUME NEW t \in Task, NEW p \in Pri, UNCHANGED mbfvars,
             ChangePriority(t, p, IF tpri THEN {"send"} ELSE {})
      PROVE  [Fifo!Next]_<<Chan, Given>>
  <2>1. Chan' = Chan
    BY <1>9, ChanIs, ChanNext DEF ChangePriority, gcb, mbfvars
  <2>2. Given' = Given
    BY <1>9, GivenSame DEF ChangePriority
  <2>. QED
    BY <2>1, <2>2, FifoStays
<1>10. ASSUME NEW t \in Task, Return(t), UNCHANGED mbfvars
       PROVE  [Fifo!Next]_<<Chan, Given>>
  <2>1. Chan' = Chan
    BY <1>10, ChanIs, ChanNext DEF Return, gcb, mbfvars
  <2>2. Given' = [Given EXCEPT ![t] = << >>]
    <3>1. Given = Received /\ Given' = Received'
      BY ChanIs, ChanNext
    <3>2. out'[t] = None /\ \A u \in Task \ {t} : out'[u] = out[u]
      BY <1>10 DEF Return, ObjectInv, WaitInv, Types
    <3>. QED
      BY <3>1, <3>2 DEF Received
  <2>3. Given = [u \in Task |-> Given[u]]
    BY FifoState
  <2>. QED
    BY <2>1, <2>2, <2>3, FifoLooks
<1>. QED
  BY <1>1, <1>2, <1>3, <1>4, <1>5, <1>6, <1>7, <1>8, <1>9, <1>10 DEF MbfNext

\* At first there is no message.
LEMMA InitIsFifo == Init => Fifo!Init
<1>1. ASSUME Init PROVE Fifo!Init
  <2>1. Chan = << >>
    <3>1. CASE kind = "mbf"
      <4>1. "send" \in Queue /\ held = << >> /\ queue = [q \in Queue |-> << >>]
        BY <1>1, ObjectsAssumption DEF Init, MbfInit, InitWait
      <4>2. \A w : Kept(<< >>) \o Says(<< >>, w) = << >>
        BY DEF Kept, Says
      <4>. QED
        BY <3>1, <4>1, <4>2, ChanIs
    <3>2. CASE kind # "mbf"
      BY <3>2 DEF Chan
    <3>. QED
      BY <3>1, <3>2
  <2>2. Given = [t \in Task |-> << >>]
    BY <1>1 DEF Init, InitWait, Given, Received
  <2>. QED
    BY <2>1, <2>2 DEF Fifo!Init, Chan, Given
<1>. QED
  BY <1>1

\* Every step of the objects is a step of module MessageFifo, or changes nothing
\* there.
LEMMA NextIsFifo == KInv /\ [Next]_vars => [Fifo!Next]_<<Chan, Given>>
<1>. SUFFICES ASSUME KInv, [Next]_vars
              PROVE  [Fifo!Next]_<<Chan, Given>>
  OBVIOUS
<1>1. CASE UNCHANGED vars
  <2>1. CASE kind = "mbf"
    <3>1. Chan' = Chan
      BY <1>1, <2>1, ChanIs, ChanNext DEF vars, wvars, gcb, tcb, mbfvars
    <3>2. Given' = Given
      BY <1>1, <2>1, ChanIs, ChanNext DEF vars, wvars, tcb, Received
    <3>. QED
      BY <3>1, <3>2, FifoStays
  <2>2. CASE kind # "mbf"
    <3>1. Chan' = Chan /\ Given' = Given
      BY <1>1, <2>2 DEF vars, Chan, Given
    <3>. QED
      BY <3>1, FifoStays
  <2>. QED
    BY <2>1, <2>2
<1>2. CASE Next /\ kind = "mbf"
  <2>1. ObjectInv /\ MbfInv
    BY <1>2 DEF KInv, IInv, Inside, ObjectInv
  <2>2. kind' = kind /\ MbfNext
    BY <1>2 DEF Next
  <2>. QED
    BY <1>2, <2>1, <2>2, MbfIsFifo
<1>3. CASE Next /\ kind # "mbf"
  <2>1. kind' = kind
    BY <1>3 DEF Next
  <2>2. Chan' = Chan /\ Given' = Given
    BY <1>3, <2>1 DEF Chan, Given
  <2>. QED
    BY <2>2, FifoStays
<1>. QED
  BY <1>1, <1>2, <1>3

\* A message buffer is a queue of whole messages: whatever the order of sends,
\* receives, timeouts, terminations, priority changes and deletions, and
\* wherever the ring wraps, the messages are received in the order in which
\* they were accepted, unchanged and each once.
THEOREM MessagesInOrder == Spec => WholeMessagesInOrder
BY InitIsFifo, NextIsFifo, ContentsInvariant, PTL
DEF Spec, WholeMessagesInOrder, Fifo!Spec, Chan, Given
=============================================================================
