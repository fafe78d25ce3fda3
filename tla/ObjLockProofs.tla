---------------------------- MODULE ObjLockProofs ----------------------------
(***************************************************************************)
(* Proofs about module ObjLock: a lock that is taken has one owner, for    *)
(* every set of tasks and locks, whatever other tasks do to those that     *)
(* wait for it.                                                            *)
(*                                                                         *)
(* LockHasOwner is not inductive: knl_UnlockOBJ() makes the head of the    *)
(* queue the owner without looking at it.  Its strengthening says what the *)
(* tasks of the queue are (Waiting), that each is there once, and in which *)
(* state a task is that gets the kernel lock in knl_LockOBJ().  With what  *)
(* the ready queue holds (Ready) it gives QueuedOnce: a READY task is in   *)
(* one of the queues.  What is said of the queues holds until a task that  *)
(* was suspended in knl_LockOBJ() finds the lock taken (twice).            *)
(***************************************************************************)
EXTENDS ObjLock, QueueFacts

Types ==
    /\ tstat \in [Task -> {"DORMANT", "READY", "WAIT", "SUSPEND"}]
    /\ held \in [Loc -> BOOLEAN]
    /\ wtskq \in [Loc -> Seq(Task)]
    /\ klocked \in [Task -> BOOLEAN]
    /\ klockwait \in [Task -> BOOLEAN]
    /\ pc \in [Task -> {"out", "spin", "lock", "in"}]
    /\ loc \in [Task -> Loc]

\* t waits for l, and does nothing else.
WaitsFor(t, l) ==
    /\ klockwait[t] /\ loc[t] = l
    /\ tstat[t] = "READY" /\ ~klocked[t] /\ pc[t] = "lock"

Waiting == \A l \in Loc : \A i \in 1 .. Len(wtskq[l]) : WaitsFor(wtskq[l][i], l)

Distinct(q) == \A i, j \in 1 .. Len(q) : q[i] = q[j] => i = j

Once == \A l \in Loc : Distinct(wtskq[l])

\* A task that goes on although it may have been suspended.
Unstopped(t) == ~klockwait[t] /\ (tstat[t] = "READY" \/ t \in struck)

\* Only a task on its way into the lock, or inside, is its owner.
Owner ==
    /\ \A t \in Task : pc[t] = "spin" => Unstopped(t)
    /\ \A t \in Task : klocked[t] => held[loc[t]] /\ pc[t] # "out" /\ Unstopped(t)
    /\ \A t \in Task : pc[t] = "in" => klocked[t]
    /\ \A t, u \in Task : klocked[t] /\ klocked[u] /\ loc[t] = loc[u] => t = u
    /\ \A l \in Loc : held[l] => \E t \in Task : klocked[t] /\ loc[t] = l
    /\ \A l \in Loc : wtskq[l] # << >> => held[l]

IInv == Types /\ Waiting /\ Once /\ Owner

\* What is left of it at the end.
OInv == Types /\ Owner /\ (twice \/ (Waiting /\ Once))

-----------------------------------------------------------------------------
\* QueRemove(): t is gone, and nothing else, and the order stays.
LEMMA UnlinkedKeeps ==
    ASSUME NEW q \in Seq(Task), NEW pr, NEW t \in Task, OrderedBy(q, pr)
    PROVE  /\ Unlinked(q, t) \in Seq(Task)
           /\ Range(Unlinked(q, t)) = Range(q) \ {t}
           /\ OrderedBy(Unlinked(q, t), pr)
<1>1. Unlinked(q, t) = Without(q, t)
  BY InRange DEF Unlinked, Without
<1>. QED
  BY <1>1, WithoutKeeps

\* A task that joins a queue it was not in.
LEMMA JoinedDistinct ==
    ASSUME NEW q \in Seq(Task), NEW r \in Seq(Task), NEW t \in Task, Distinct(q),
           Len(r) = Len(q) + 1, r[Len(q) + 1] = t,
           \A i \in 1 .. Len(q) : r[i] = q[i] /\ q[i] # t
    PROVE  Distinct(r)
<1>1. ASSUME NEW i \in 1 .. Len(r), NEW j \in 1 .. Len(r), r[i] = r[j]
      PROVE  i = j
  <2>1. Len(q) \in Nat /\ i \in 1 .. Len(q) + 1 /\ j \in 1 .. Len(q) + 1
    OBVIOUS
  <2>2. CASE i \in 1 .. Len(q) /\ j \in 1 .. Len(q)
    BY <1>1, <2>2 DEF Distinct
  <2>3. CASE i = Len(q) + 1 \/ j = Len(q) + 1
    BY <1>1, <2>1, <2>3
  <2>. QED
    BY <2>1, <2>2, <2>3
<1>. QED
  BY <1>1 DEF Distinct

\* The queue of a lock, in which the priorities do not count.
LEMMA UnlinkedLeaves ==
    ASSUME NEW q \in Seq(Task), NEW t \in Task, Distinct(q)
    PROVE  /\ Unlinked(q, t) \in Seq(Task)
           /\ Distinct(Unlinked(q, t))
           /\ Range(Unlinked(q, t)) = Range(q) \ {t}
<1>. DEFINE r == Unlinked(q, t)
            any == [u \in Task |-> 0]
<1>1. \A i \in 1 .. Len(q) : q[i] \in Task
  OBVIOUS
<1>2. OrderedBy(q, any)
  BY <1>1, InRange DEF Distinct, OrderedBy
<1>. HIDE DEF any
<1>3. r \in Seq(Task) /\ Range(r) = Range(q) \ {t} /\ OrderedBy(r, any)
  BY <1>2, UnlinkedKeeps
<1>. HIDE DEF r
<1>4. \A i, j \in 1 .. Len(r) : i < j => r[i] # r[j]
  BY <1>3, InRange DEF OrderedBy
<1>5. Distinct(r)
  <2>1. SUFFICES ASSUME NEW i \in 1 .. Len(r), NEW j \in 1 .. Len(r), i # j
                 PROVE  r[i] # r[j]
    BY DEF Distinct
  <2>2. i < j \/ j < i
    BY <1>3, <2>1
  <2>. QED
    BY <1>4, <2>2
<1>. QED
  BY <1>3, <1>5 DEF r

\* knl_ready_queue_delete(): a task that leaves the queue of its lock is in no
\* queue of a lock any more, and the others stay.
LEMMA LeavesLockKeeps ==
    ASSUME Types, Waiting, Once, NEW t \in Task, LeavesLock(t)
    PROVE  /\ wtskq' \in [Loc -> Seq(Task)] /\ klockwait' \in [Task -> BOOLEAN]
           /\ Once'
           /\ \A l \in Loc : \A i \in 1 .. Len(wtskq'[l]) :
                wtskq'[l][i] # t /\ \E j \in 1 .. Len(wtskq[l]) : wtskq'[l][i] = wtskq[l][j]
           /\ klockwait' = [klockwait EXCEPT ![t] = FALSE]
<1>1. klockwait' = [klockwait EXCEPT ![t] = FALSE]
  BY DEF LeavesLock
<1>2. CASE klockwait[t]
  <2>1. wtskq' = [wtskq EXCEPT ![loc[t]] = Unlinked(@, t)]
    BY <1>2 DEF LeavesLock
  <2>2. loc[t] \in Loc
    BY DEF Types
  <2>. DEFINE r == Unlinked(wtskq[loc[t]], t)
  <2>3. /\ r \in Seq(Task) /\ Distinct(r)
        /\ \A i \in 1 .. Len(r) : r[i] # t /\ \E j \in 1 .. Len(wtskq[loc[t]]) :
                                                   r[i] = wtskq[loc[t]][j]
    <3>. DEFINE q == wtskq[loc[t]]
    <3>1. q \in Seq(Task) /\ Distinct(q)
      BY <2>2 DEF Types, Once
    <3>. HIDE DEF q
    <3>2. Unlinked(q, t) \in Seq(Task) /\ Distinct(Unlinked(q, t))
          /\ Range(Unlinked(q, t)) = Range(q) \ {t}
      BY <3>1, UnlinkedLeaves
    <3>3. /\ \A x : x \in Range(q) <=> \E i \in 1 .. Len(q) : q[i] = x
          /\ \A x : x \in Range(Unlinked(q, t)) <=>
                      \E i \in 1 .. Len(Unlinked(q, t)) : Unlinked(q, t)[i] = x
      BY <3>1, <3>2, InRange
    <3>4. \A i \in 1 .. Len(Unlinked(q, t)) :
            /\ Unlinked(q, t)[i] # t
            /\ \E j \in 1 .. Len(q) : Unlinked(q, t)[i] = q[j]
      BY <3>2, <3>3
    <3>. QED
      BY <3>2, <3>4 DEF q
  <2>. HIDE DEF r
  <2>4. wtskq' = [wtskq EXCEPT ![loc[t]] = r]
    BY <2>1 DEF r
  <2>5. wtskq' \in [Loc -> Seq(Task)] /\ klockwait' \in [Task -> BOOLEAN]
    BY <1>1, <2>3, <2>4 DEF Types
  <2>6. ASSUME NEW l \in Loc
        PROVE  /\ Distinct(wtskq'[l])
               /\ \A i \in 1 .. Len(wtskq'[l]) :
                    wtskq'[l][i] # t /\ \E j \in 1 .. Len(wtskq[l]) : wtskq'[l][i] = wtskq[l][j]
    <3>1. CASE l = loc[t]
      BY <2>3, <2>4, <3>1 DEF Types
    <3>2. CASE l # loc[t]
      <4>1. wtskq'[l] = wtskq[l]
        BY <2>4, <3>2 DEF Types
      <4>2. \A i \in 1 .. Len(wtskq[l]) : loc[wtskq[l][i]] = l
        BY DEF Waiting, WaitsFor
      <4>. QED
        BY <3>2, <4>1, <4>2 DEF Once
    <3>. QED
      BY <3>1, <3>2
  <2>. QED
    BY <1>1, <2>5, <2>6 DEF Once
<1>3. CASE ~klockwait[t]
  <2>1. wtskq' = wtskq
    BY <1>3 DEF LeavesLock
  <2>2. \A l \in Loc : \A i \in 1 .. Len(wtskq[l]) : wtskq[l][i] # t
    BY <1>3 DEF Waiting, WaitsFor
  <2>. QED
    BY <1>1, <2>1, <2>2 DEF Once, Types
<1>. QED
  BY <1>2, <1>3

-----------------------------------------------------------------------------
\* LockInit establishes the invariant.
LEMMA InitIInv == LockAssumption /\ LockInit => IInv
  BY DEF LockAssumption, LockInit, IInv, Types, Waiting, Once, Distinct, Owner, Unstopped, ipriority

\* knl_LockOBJ() begins: the task is READY, and goes on from here whatever
\* becomes of it.
LEMMA EnterKeeps ==
    ASSUME IInv, NEW t \in Task, NEW l \in Loc, Enter(t, l)
    PROVE  IInv'
<1>1. /\ tstat[t] = "READY" /\ ~klockwait[t]
      /\ pc[t] = "out" \/ (pc[t] = "lock" /\ loc[t] = l)
      /\ pc' = [pc EXCEPT ![t] = "spin"] /\ loc' = [loc EXCEPT ![t] = l]
      /\ UNCHANGED <<tstat, held, wtskq, klocked, klockwait, struck>>
  BY DEF Enter, Executes, taskvars, lockvars, hitvars
<1>2. \A m \in Loc : \A i \in 1 .. Len(wtskq[m]) : wtskq[m][i] \in Task \ {t}
  BY <1>1 DEF IInv, Types, Waiting, WaitsFor
<1>3. Types' /\ Once'
  BY <1>1 DEF IInv, Types, Once
<1>4. Waiting'
  BY <1>1, <1>2 DEF IInv, Types, Waiting, WaitsFor
<1>5. \A u \in Task : klocked[u] => loc'[u] = loc[u]
  BY <1>1 DEF IInv, Types, Owner
<1>6. Owner'
  <2>1. \A u \in Task : pc'[u] = "spin" => Unstopped(u)'
    BY <1>1 DEF IInv, Types, Owner, Unstopped
  <2>2. \A u \in Task : klocked'[u] => held'[loc'[u]] /\ pc'[u] # "out" /\ Unstopped(u)'
    BY <1>1, <1>5 DEF IInv, Types, Owner, Unstopped
  <2>3. \A u \in Task : pc'[u] = "in" => klocked'[u]
    BY <1>1 DEF IInv, Types, Owner
  <2>4. \A u, v \in Task : klocked'[u] /\ klocked'[v] /\ loc'[u] = loc'[v] => u = v
    BY <1>1, <1>5 DEF IInv, Owner
  <2>5. ASSUME NEW m \in Loc, held'[m]
        PROVE  \E u \in Task : klocked'[u] /\ loc'[u] = m
    <3>1. PICK u \in Task : klocked[u] /\ loc[u] = m
      BY <1>1, <2>5 DEF IInv, Owner
    <3>. QED
      BY <1>1, <1>5, <3>1
  <2>6. \A m \in Loc : wtskq'[m] # << >> => held'[m]
    BY <1>1 DEF IInv, Owner
  <2>. QED
    BY <2>1, <2>2, <2>3, <2>4, <2>5, <2>6 DEF Owner
<1>. QED
  BY <1>3, <1>4, <1>6 DEF IInv

\* knl_LockOBJ(): taking a free lock, taking over a lock that has been handed
\* over, or waiting, keeps the invariant, unless a suspended task has to wait.
LEMMA LockKeeps ==
    ASSUME IInv, NEW t \in Task, knl_LockOBJ(t)
    PROVE  OInv'
<1>. USE DEF IInv, OInv, knl_LockOBJ, lockvars
<1>0. PICK l \in Loc : l = loc[t]
  BY DEF Types
<1>1. loc' = loc /\ loc \in [Task -> Loc] /\ tstat' = tstat /\ struck' = struck
  BY DEF Types
<1>2. pc[t] = "spin" /\ Unstopped(t) /\ ~klockwait[t]
  BY DEF Owner, Unstopped
<1>4. \A m \in Loc : \A i \in 1 .. Len(wtskq[m]) : wtskq[m][i] # t
  BY <1>2 DEF Waiting, WaitsFor
<1>6. CASE klocked[t]
  <2>2. pc' = [pc EXCEPT ![t] = "in"] /\ UNCHANGED lockvars
    BY <1>6
  <2>3. Types'
    BY <1>0, <1>1, <2>2 DEF Types
  <2>4. Waiting' /\ Once'
    BY <1>0, <1>1, <1>4, <2>2 DEF Waiting, WaitsFor, Once, Types
  <2>5. Owner'
    BY <1>0, <1>1, <1>6, <2>2 DEF Owner, Unstopped, Types
  <2>. QED
    BY <2>3, <2>4, <2>5
<1>7. CASE ~klocked[t] /\ ~held[l]
  <2>1. /\ held' = [held EXCEPT ![l] = TRUE]
        /\ klocked' = [klocked EXCEPT ![t] = TRUE]
        /\ pc' = [pc EXCEPT ![t] = "in"]
        /\ wtskq' = wtskq /\ klockwait' = klockwait
    BY <1>0, <1>7
  <2>2. Types'
    BY <1>0, <1>1, <2>1 DEF Types
  <2>3. Waiting'
    BY <1>0, <1>1, <1>4, <2>1 DEF Waiting, WaitsFor, Types
  <2>4. Once'
    BY <2>1 DEF Once
  <2>5. \A u \in Task : klocked[u] => loc[u] # l
    BY <1>7 DEF Owner
  <2>6. Owner'
    <3>0. \A u \in Task : pc'[u] = "spin" => Unstopped(u)'
      BY <1>0, <1>1, <2>1 DEF Owner, Types, Unstopped
    <3>1. \A u \in Task : klocked'[u] => held'[loc'[u]] /\ pc'[u] # "out" /\ Unstopped(u)'
      BY <1>0, <1>1, <1>2, <2>1 DEF Owner, Types, Unstopped
    <3>2. \A u \in Task : pc'[u] = "in" => klocked'[u]
      BY <2>1 DEF Owner, Types
    <3>3. \A u, v \in Task : klocked'[u] /\ klocked'[v] /\ loc'[u] = loc'[v] => u = v
      BY <1>0, <1>1, <2>1, <2>5 DEF Owner, Types
    <3>4. \A m \in Loc : held'[m] => \E u \in Task : klocked'[u] /\ loc'[u] = m
      <4>1. ASSUME NEW m \in Loc, held'[m], m # l
            PROVE  \E u \in Task : klocked'[u] /\ loc'[u] = m
        <5>1. PICK u \in Task : klocked[u] /\ loc[u] = m
          BY <2>1, <4>1 DEF Owner, Types
        <5>. QED
          BY <1>0, <1>1, <1>7, <2>1, <5>1 DEF Types
      <4>2. klocked'[t] /\ loc'[t] = l
        BY <1>0, <1>1, <2>1 DEF Types
      <4>. QED
        BY <4>1, <4>2
    <3>5. \A m \in Loc : wtskq'[m] # << >> => held'[m]
      BY <2>1 DEF Owner, Types
    <3>. QED
      BY <3>0, <3>1, <3>2, <3>3, <3>4, <3>5 DEF Owner
  <2>. QED
    BY <2>2, <2>3, <2>4, <2>6
<1>8. CASE ~klocked[t] /\ held[l]
  <2>1. /\ wtskq' = [wtskq EXCEPT ![l] = Append(@, t)]
        /\ klockwait' = [klockwait EXCEPT ![t] = TRUE]
        /\ pc' = [pc EXCEPT ![t] = "lock"]
        /\ held' = held /\ klocked' = klocked
    BY <1>0, <1>8
  <2>2. Types'
    BY <1>0, <1>1, <2>1 DEF Types
  <2>3. ASSUME NEW u \in Task, NEW m \in Loc, u # t, WaitsFor(u, m)
        PROVE  WaitsFor(u, m)'
    BY <1>0, <1>1, <2>1, <2>3 DEF WaitsFor, Types
  <2>7. Owner'
    BY <1>0, <1>1, <1>2, <1>8, <2>1 DEF Owner, Unstopped, Types
  <2>8. SUFFICES ASSUME tstat[t] = "READY"
                 PROVE  Waiting' /\ Once'
    <3>1. tstat[t] # "READY" => twice'
      BY <1>0, <1>8
    <3>. QED
      BY <2>2, <2>7, <3>1
  <2>4. WaitsFor(t, l)'
    BY <1>0, <1>1, <1>2, <1>8, <2>1, <2>8 DEF WaitsFor, Types
  <2>5. \A m \in Loc : \A i \in 1 .. Len(wtskq[m]) : wtskq[m][i] \in Task
    BY DEF Types
  <2>6. ASSUME NEW m \in Loc
        PROVE  /\ Distinct(wtskq[m])'
               /\ \A i \in 1 .. Len(wtskq'[m]) : WaitsFor(wtskq[m][i], m)'
    <3>1. CASE m # l
      <4>1. wtskq'[m] = wtskq[m]
        BY <2>1, <3>1 DEF Types
      <4>2. Distinct(wtskq[m])'
        BY <4>1 DEF Once, Distinct
      <4>. QED
        BY <1>4, <2>3, <2>5, <4>1, <4>2 DEF Waiting
    <3>2. CASE m = l
      <4>1. /\ Len(wtskq[l]) \in Nat /\ Len(wtskq'[l]) = Len(wtskq[l]) + 1
            /\ \A i \in 1 .. Len(wtskq[l]) : wtskq'[l][i] = wtskq[l][i]
            /\ wtskq'[l][Len(wtskq[l]) + 1] = t
        BY <2>1, <3>2 DEF Types
      <4>2. Distinct(wtskq[l])'
        <5>1. Distinct(wtskq[l])
          BY DEF Once
        <5>2. wtskq[l] \in Seq(Task) /\ wtskq'[l] \in Seq(Task)
          BY <2>2 DEF Types
        <5>3. \A i \in 1 .. Len(wtskq[l]) : wtskq'[l][i] = wtskq[l][i] /\ wtskq[l][i] # t
          BY <1>4, <4>1
        <5>4. Distinct(wtskq'[l])
          BY <4>1, <5>1, <5>2, <5>3, JoinedDistinct
        <5>. QED
          BY <5>4 DEF Distinct
      <4>3. ASSUME NEW i \in 1 .. Len(wtskq'[l])
            PROVE  WaitsFor(wtskq[l][i], l)'
        <5>1. CASE i = Len(wtskq[l]) + 1
          BY <2>4, <4>1, <5>1
        <5>2. CASE i \in 1 .. Len(wtskq[l])
          BY <1>4, <2>3, <2>5, <4>1, <5>2 DEF Waiting
        <5>. QED
          BY <4>1, <5>1, <5>2
      <4>. QED
        BY <3>2, <4>2, <4>3
    <3>. QED
      BY <3>1, <3>2
  <2>. QED
    BY <2>6 DEF Waiting, Once
<1>. QED
  BY <1>6, <1>7, <1>8

\* knl_UnlockOBJ(), also after the task has been made to wait: the lock becomes
\* free, or its owner is the first task that waited for it.
LEMMA ReleaseKeeps ==
    ASSUME IInv, NEW t \in Task, Executes(t, "in"), Released(t),
           tstat' = tstat \/ tstat' = [tstat EXCEPT ![t] = "WAIT"],
           pc' = [pc EXCEPT ![t] = "out"], loc' = loc, struck' = struck
    PROVE  IInv'
<1>. DEFINE l == loc[t]
            q == wtskq[l]
<1>1. /\ l \in Loc /\ q \in Seq(Task)
      /\ klocked[t] /\ held[l] /\ ~klockwait[t]
  BY DEF IInv, Types, Owner, Executes
<1>2. \A v \in Task : v # t => /\ loc'[v] = loc[v] /\ pc'[v] = pc[v] /\ tstat'[v] = tstat[v]
  BY DEF IInv, Types
<1>3. \A v \in Task : v # t /\ klocked[v] => loc[v] # l
  BY <1>1 DEF IInv, Owner
<1>4. \A m \in Loc : \A i \in 1 .. Len(wtskq[m]) : wtskq[m][i] \in Task \ {t}
  <2>1. \A m \in Loc : \A i \in 1 .. Len(wtskq[m]) : wtskq[m][i] \in Task
    BY DEF IInv, Types
  <2>. QED
    BY <1>1, <2>1 DEF IInv, Waiting, WaitsFor
<1>5. tstat' \in [Task -> {"DORMANT", "READY", "WAIT", "SUSPEND"}]
      /\ pc' \in [Task -> {"out", "spin", "lock", "in"}] /\ loc' \in [Task -> Loc]
  BY DEF IInv, Types
<1>6. CASE q = << >>
  <2>1. /\ held' = [held EXCEPT ![l] = FALSE]
        /\ klocked' = [klocked EXCEPT ![t] = FALSE]
        /\ wtskq' = wtskq /\ klockwait' = klockwait
    BY <1>6 DEF Released
  <2>2. Types'
    BY <1>5, <2>1 DEF IInv, Types
  <2>3. Once'
    BY <2>1 DEF IInv, Once
  <2>4. Waiting'
    BY <1>2, <1>4, <2>1 DEF IInv, Types, Waiting, WaitsFor
  <2>5. Owner'
    BY <1>1, <1>2, <1>3, <1>6, <2>1 DEF IInv, Types, Owner, Unstopped
  <2>. QED
    BY <2>2, <2>3, <2>4, <2>5 DEF IInv
<1>7. CASE q # << >>
  <2>. DEFINE u == Head(q)
  <2>1. /\ wtskq' = [wtskq EXCEPT ![l] = Tail(q)]
        /\ klockwait' = [klockwait EXCEPT ![u] = FALSE]
        /\ klocked' = [klocked EXCEPT ![t] = FALSE, ![u] = TRUE]
        /\ held' = held
    BY <1>7 DEF Released
  <2>2. Len(q) \in Nat \ {0} /\ u = q[1]
    BY <1>1, <1>7
  <2>3. u \in Task /\ u # t /\ WaitsFor(u, l)
    BY <1>1, <1>4, <2>2 DEF IInv, Waiting
  <2>4. /\ Tail(q) \in Seq(Task) /\ Len(Tail(q)) = Len(q) - 1
        /\ \A i \in 1 .. Len(q) - 1 : Tail(q)[i] = q[i + 1]
    BY <1>1, <1>7
  <2>5. \A i \in 1 .. Len(q) - 1 : q[i + 1] # u
    BY <1>1, <2>2 DEF IInv, Once, Distinct
  <2>. HIDE DEF u
  <2>6. Types'
    BY <1>5, <2>1, <2>3, <2>4 DEF IInv, Types
  <2>7. Once'
    <3>1. Distinct(q)
      BY <1>1 DEF IInv, Once
    <3>2. Distinct(Tail(q))
      BY <2>2, <2>4, <3>1 DEF Distinct
    <3>. QED
      BY <1>1, <2>1, <3>2 DEF IInv, Types, Once
  <2>8. \A v \in Task : \A m \in Loc : v # u /\ v # t /\ WaitsFor(v, m) =>
          WaitsFor(v, m)'
    BY <1>2, <2>1, <2>3 DEF IInv, Types, WaitsFor
  <2>9. Waiting'
    <3>1. ASSUME NEW m \in Loc, NEW i \in 1 .. Len(wtskq'[m])
          PROVE  WaitsFor(wtskq[m][i], m)'
      <4>1. CASE m = l
        <5>1. wtskq'[m] = Tail(q)
          BY <1>1, <2>1, <4>1 DEF IInv, Types
        <5>2. i \in 1 .. Len(q) - 1 /\ i + 1 \in 1 .. Len(q) /\ wtskq'[m][i] = q[i + 1]
          BY <2>2, <2>4, <5>1
        <5>3. q[i + 1] # u /\ q[i + 1] \in Task \ {t} /\ WaitsFor(q[i + 1], l)
          BY <1>1, <1>4, <2>5, <5>2 DEF IInv, Waiting
        <5>. QED
          BY <2>8, <4>1, <5>2, <5>3, <1>1
      <4>2. CASE m # l
        <5>1. wtskq'[m] = wtskq[m]
          BY <1>1, <2>1, <4>2 DEF IInv, Types
        <5>2. wtskq[m][i] \in Task \ {t} /\ WaitsFor(wtskq[m][i], m)
          BY <1>4, <5>1 DEF IInv, Waiting
        <5>3. wtskq[m][i] # u
          BY <2>3, <4>2, <5>2 DEF WaitsFor
        <5>. QED
          BY <2>8, <5>1, <5>2, <5>3
      <4>. QED
        BY <4>1, <4>2
    <3>. QED
      BY <3>1 DEF Waiting
  <2>10. Owner'
    <3>1. klocked'[u] /\ ~klocked'[t] /\ \A v \in Task \ {t, u} : klocked'[v] = klocked[v]
      BY <2>1, <2>3 DEF IInv, Types
    <3>0. \A v \in Task : pc'[v] = "spin" => Unstopped(v)'
      BY <1>2, <2>1, <2>3 DEF IInv, Types, Owner, Unstopped
    <3>2. \A v \in Task : klocked'[v] => held'[loc'[v]] /\ pc'[v] # "out" /\ Unstopped(v)'
      BY <1>1, <1>2, <2>1, <2>3, <3>1 DEF IInv, Types, Owner, WaitsFor, Unstopped
    <3>3. ASSUME NEW v \in Task, pc'[v] = "in"
          PROVE  klocked'[v]
      <4>1. v # t
        BY <3>3 DEF IInv, Types
      <4>2. CASE v = u
        BY <3>1, <4>2
      <4>3. CASE v # u
        BY <1>2, <3>1, <3>3, <4>1, <4>3 DEF IInv, Owner
      <4>. QED
        BY <4>2, <4>3
    <3>4. \A v, w \in Task : klocked'[v] /\ klocked'[w] /\ loc'[v] = loc'[w] => v = w
      BY <1>2, <1>3, <2>3, <3>1 DEF IInv, Owner, WaitsFor
    <3>5. ASSUME NEW m \in Loc, held'[m]
          PROVE  \E v \in Task : klocked'[v] /\ loc'[v] = m
      <4>1. CASE m = l
        BY <2>3, <3>1, <4>1 DEF WaitsFor
      <4>2. CASE m # l
        <5>1. PICK v \in Task : klocked[v] /\ loc[v] = m
          BY <2>1, <3>5 DEF IInv, Owner
        <5>. QED
          BY <3>1, <4>2, <5>1
      <4>. QED
        BY <4>1, <4>2
    <3>6. \A m \in Loc : wtskq'[m] # << >> => held'[m]
      BY <1>1, <2>1 DEF IInv, Types, Owner
    <3>. QED
      BY <3>0, <3>2, <3>3, <3>4, <3>5, <3>6 DEF Owner
  <2>. QED
    BY <2>6, <2>7, <2>9, <2>10 DEF IInv
<1>. QED
  BY <1>6, <1>7

\* A task that leaves the queue of its lock, and changes its state or goes out
\* of the lock only if it does not own one: tk_chg_pri(), tk_sus_tsk(), and
\* tk_ter_tsk() of a READY task.
LEMMA LeavingKeeps ==
    ASSUME IInv, NEW t \in Task, tstat[t] = "READY", LeavesLock(t),
           UNCHANGED <<held, klocked, loc>>, struck \ {t} \subseteq struck',
           NEW s \in {"DORMANT", "READY", "WAIT", "SUSPEND"},
           NEW p \in {"out", "spin", "lock", "in"},
           tstat' = [tstat EXCEPT ![t] = s], pc' = [pc EXCEPT ![t] = p],
           klocked[t] => s = tstat[t] /\ p = pc[t], p = "in" => pc[t] = "in",
           p = "spin" => pc[t] = "spin" /\ (s = "READY" \/ t \in struck')
    PROVE  IInv'
<1>1. /\ wtskq' \in [Loc -> Seq(Task)] /\ klockwait' \in [Task -> BOOLEAN]
      /\ Once'
      /\ \A l \in Loc : \A i \in 1 .. Len(wtskq'[l]) :
           wtskq'[l][i] # t /\ \E j \in 1 .. Len(wtskq[l]) : wtskq'[l][i] = wtskq[l][j]
      /\ klockwait' = [klockwait EXCEPT ![t] = FALSE]
  BY LeavesLockKeeps DEF IInv
<1>2. Types'
  BY <1>1 DEF IInv, Types
<1>3. \A v \in Task : \A m \in Loc : v # t /\ WaitsFor(v, m) => WaitsFor(v, m)'
  BY <1>1 DEF IInv, Types, WaitsFor
<1>4. Waiting'
  <2>1. ASSUME NEW m \in Loc, NEW i \in 1 .. Len(wtskq'[m])
        PROVE  WaitsFor(wtskq[m][i], m)'
    <3>1. PICK j \in 1 .. Len(wtskq[m]) : wtskq'[m][i] = wtskq[m][j]
      BY <1>1
    <3>2. wtskq[m][j] \in Task /\ WaitsFor(wtskq[m][j], m) /\ wtskq[m][j] # t
      BY <1>1, <3>1 DEF IInv, Types, Waiting
    <3>. QED
      BY <1>3, <3>1, <3>2
  <2>. QED
    BY <2>1 DEF Waiting
<1>5. \A l \in Loc : wtskq'[l] # << >> => wtskq[l] # << >>
  <2>1. ASSUME NEW l \in Loc, wtskq[l] = << >>, wtskq'[l] # << >>
        PROVE  FALSE
    <3>1. 1 \in 1 .. Len(wtskq'[l])
      BY <1>1, <2>1
    <3>. QED
      BY <1>1, <2>1, <3>1
  <2>. QED
    BY <2>1
<1>6. Owner'
  <2>1. \A v \in Task : pc'[v] = "spin" => Unstopped(v)'
    BY <1>1 DEF IInv, Types, Owner, Unstopped
  <2>2. \A v \in Task : klocked'[v] => held'[loc'[v]] /\ pc'[v] # "out" /\ Unstopped(v)'
    BY <1>1 DEF IInv, Types, Owner, Unstopped
  <2>. QED
    BY <1>1, <1>5, <2>1, <2>2 DEF IInv, Types, Owner
<1>. QED
  BY <1>1, <1>2, <1>4, <1>6 DEF IInv

\* A task that is not READY is in no queue of a lock; it becomes READY, or stays
\* as it is, or it owns no lock and ends: knl_make_ready(), and tk_chg_pri() and
\* tk_ter_tsk() of such a task.
LEMMA AsideKeeps ==
    ASSUME IInv, NEW t \in Task, tstat[t] # "READY", UNCHANGED <<lockvars, loc>>,
           NEW s \in {"DORMANT", "READY", "WAIT", "SUSPEND"},
           NEW p \in {"out", "spin", "lock", "in"},
           tstat' = [tstat EXCEPT ![t] = s], pc' = [pc EXCEPT ![t] = p],
           struck \ {t} \subseteq struck',
           \/ p = pc[t] /\ (s = "READY" \/ (s = tstat[t] /\ struck' = struck))
           \/ p = "out" /\ ~klocked[t]
    PROVE  IInv'
<1>. USE DEF lockvars
<1>1. \A m \in Loc : \A i \in 1 .. Len(wtskq[m]) : wtskq[m][i] \in Task \ {t}
  BY DEF IInv, Types, Waiting, WaitsFor
<1>2. Types' /\ Once'
  BY DEF IInv, Types, Once
<1>3. Waiting'
  BY <1>1 DEF IInv, Types, Waiting, WaitsFor
<1>4. Owner'
  <2>1. \A v \in Task : pc'[v] = "spin" => Unstopped(v)'
    BY DEF IInv, Types, Owner, Unstopped
  <2>2. \A v \in Task : klocked'[v] => held'[loc'[v]] /\ pc'[v] # "out" /\ Unstopped(v)'
    BY DEF IInv, Types, Owner, Unstopped
  <2>. QED
    BY <2>1, <2>2 DEF IInv, Types, Owner
<1>. QED
  BY <1>2, <1>3, <1>4 DEF IInv

-----------------------------------------------------------------------------
\* Every step keeps the invariant.
LEMMA NextIInv == OInv /\ [LockNext]_objlvars => OInv'
<1>. SUFFICES ASSUME OInv, [LockNext]_objlvars
              PROVE  OInv'
  OBVIOUS
<1>1. CASE UNCHANGED objlvars
  BY <1>1 DEF objlvars, taskvars, lockvars, hitvars, OInv, Types, Waiting, WaitsFor, Once,
              Distinct, Owner, Unstopped
<1>2. CASE LockNext
  <2>1. IInv
    BY <1>2 DEF LockNext, OInv, IInv
  <2>2. ASSUME NEW t \in Task, NEW l \in Loc, Enter(t, l)
        PROVE  IInv'
    BY <2>1, <2>2, EnterKeeps
  <2>3. ASSUME NEW t \in Task, knl_LockOBJ(t)
        PROVE  OInv'
    BY <2>1, <2>3, LockKeeps
  <2>4. ASSUME NEW t \in Task, knl_UnlockOBJ(t) \/ WaitAndUnlock(t)
        PROVE  IInv'
    BY <2>1, <2>4, ReleaseKeeps DEF knl_UnlockOBJ, WaitAndUnlock, hitvars
  <2>5. ASSUME NEW t \in Task, MakeReady(t)
        PROVE  IInv'
    <3>1. pc[t] \in {"out", "spin", "lock", "in"} /\ pc' = [pc EXCEPT ![t] = pc[t]]
      BY <2>1, <2>5 DEF IInv, Types, MakeReady
    <3>. QED
      BY <2>1, <2>5, <3>1, AsideKeeps DEF MakeReady
  <2>6. ASSUME NEW t \in Task, tk_sus_tsk(t)
        PROVE  IInv'
    <3>1. pc[t] \in {"out", "spin", "lock", "in"} /\ pc' = [pc EXCEPT ![t] = pc[t]]
      BY <2>1, <2>6 DEF IInv, Types, tk_sus_tsk
    <3>. QED
      BY <2>1, <2>6, <3>1, LeavingKeeps DEF tk_sus_tsk
  <2>7. ASSUME NEW t \in Task, tk_ter_tsk(t)
        PROVE  IInv'
    <3>1. CASE tstat[t] = "READY"
      BY <2>1, <2>7, <3>1, LeavingKeeps DEF tk_ter_tsk
    <3>2. CASE tstat[t] # "READY"
      BY <2>1, <2>7, <3>2, AsideKeeps DEF tk_ter_tsk, lockvars
    <3>. QED
      BY <3>1, <3>2
  <2>8. ASSUME NEW t \in Task, NEW p \in Pri, tk_chg_pri(t, p)
        PROVE  IInv'
    <3>1. /\ pc[t] \in {"out", "spin", "lock", "in"} /\ pc' = [pc EXCEPT ![t] = pc[t]]
          /\ tstat[t] \in {"DORMANT", "READY", "WAIT", "SUSPEND"}
          /\ tstat' = [tstat EXCEPT ![t] = tstat[t]] /\ struck' = struck
      BY <2>1, <2>8 DEF IInv, Types, tk_chg_pri, hitvars
    <3>2. CASE tstat[t] = "READY"
      BY <2>1, <2>8, <3>1, <3>2, LeavingKeeps DEF tk_chg_pri
    <3>3. CASE tstat[t] # "READY"
      BY <2>1, <2>8, <3>1, <3>3, AsideKeeps DEF tk_chg_pri
    <3>. QED
      BY <3>2, <3>3
  <2>9. ASSUME NEW p \in Pri, tk_rot_rdq(p)
        PROVE  IInv'
    <3>1. UNCHANGED <<tstat, held, wtskq, klocked, klockwait, pc, loc, struck>>
      BY <2>9 DEF tk_rot_rdq, lockvars, hitvars
    <3>. QED
      BY <2>1, <3>1 DEF IInv, Types, Waiting, WaitsFor, Once, Distinct, Owner, Unstopped
  <2>10. IInv' => OInv'
    BY DEF IInv, OInv
  <2>. QED
    BY <1>2, <2>2, <2>3, <2>4, <2>5, <2>6, <2>7, <2>8, <2>9, <2>10 DEF LockNext
<1>. QED
  BY <1>1, <1>2

\* The invariant says more than the property.
LEMMA OwnerSuffices == OInv => LockHasOwner
<1>. SUFFICES ASSUME OInv
              PROVE  LockHasOwner
  OBVIOUS
<1>1. \A l \in Loc : held[l] <=> \E t \in Task : klocked[t] /\ loc[t] = l
  BY DEF OInv, Owner
<1>. QED
  BY <1>1 DEF OInv, Owner, Unstopped, LockHasOwner

\* klock.c: a lock that is taken has one owner, in no queue of a lock, and READY,
\* so that it will unlock it, unless it was suspended on its way into
\* knl_LockOBJ(), between masking the interrupts and getting the kernel lock;
\* nobody waits for a free lock; whoever is inside owns it.  For every set of
\* tasks and of locks, and every number of priorities.
THEOREM LockOwned == ASSUME LockAssumption PROVE LockSpec => []LockHasOwner
<1>1. LockInit => OInv
  BY InitIInv DEF IInv, OInv
<1>2. OInv /\ [LockNext]_objlvars => OInv'
  BY NextIInv
<1>3. OInv => LockHasOwner
  BY OwnerSuffices
<1>. QED
  BY <1>1, <1>2, <1>3, PTL DEF LockSpec

-----------------------------------------------------------------------------
(***************************************************************************)
(* Which queue a READY task is in.  QueuedOnce counts; what the steps keep *)
(* is which tasks the ready queue holds, in which order, and that the one  *)
(* that waits for a lock is still in the queue of that lock.               *)
(***************************************************************************)
Ready ==
    /\ pri \in [Task -> Pri]
    /\ rq \in Seq(Task) /\ OrderedBy(rq, pri)
    /\ Range(rq) = {t \in Task : tstat[t] = "READY" /\ ~klockwait[t]}
    /\ \A t \in Task : klockwait[t] => t \in Range(wtskq[loc[t]])

\* knl_ready_queue_insert(): t is added, behind what is as urgent.
LEMMA InsertedKeeps ==
    ASSUME NEW q \in Seq(Task), NEW pr \in [Task -> Nat], NEW t \in Task \ Range(q),
           OrderedBy(q, pr)
    PROVE  /\ Inserted(q, pr, t) \in Seq(Task)
           /\ Range(Inserted(q, pr, t)) = Range(q) \cup {t}
           /\ OrderedBy(Inserted(q, pr, t), pr)
<1>. DEFINE after == {i \in DOMAIN q : pr[q[i]] > pr[t]}
<1>1. Inserted(q, pr, t) = LinkedBefore(q, t, after)
  BY DEF Inserted, LinkedBefore
<1>2. \A i \in DOMAIN q : pr[q[i]] \in Nat /\ pr[t] \in Nat
  BY InRange
<1>3. /\ after \in SUBSET DOMAIN q
      /\ \A i \in DOMAIN q \ after : pr[q[i]] <= pr[t]
      /\ \A i \in after : pr[t] <= pr[q[i]]
  BY <1>2
<1>. HIDE DEF after
<1>4. /\ LinkedBefore(q, t, after) \in Seq(Task)
      /\ Range(LinkedBefore(q, t, after)) = Range(q) \cup {t}
      /\ OrderedBy(LinkedBefore(q, t, after), pr)
  BY <1>3, LinkedKeeps
<1>. QED
  BY <1>1, <1>4

\* knl_ready_queue_insert_top(): t is added, before what is as urgent.
LEMMA InsertedTopKeeps ==
    ASSUME NEW q \in Seq(Task), pri \in [Task -> Nat], NEW t \in Task \ Range(q),
           OrderedBy(q, pri)
    PROVE  /\ InsertedTop(q, t) \in Seq(Task)
           /\ Range(InsertedTop(q, t)) = Range(q) \cup {t}
           /\ OrderedBy(InsertedTop(q, t), pri)
<1>. DEFINE after == {i \in DOMAIN q : pri[q[i]] >= pri[t]}
<1>1. InsertedTop(q, t) = LinkedBefore(q, t, after)
  BY DEF InsertedTop, LinkedBefore
<1>2. \A i \in DOMAIN q : pri[q[i]] \in Nat /\ pri[t] \in Nat
  BY InRange
<1>3. /\ after \in SUBSET DOMAIN q
      /\ \A i \in DOMAIN q \ after : pri[q[i]] <= pri[t]
      /\ \A i \in after : pri[t] <= pri[q[i]]
  BY <1>2
<1>. HIDE DEF after
<1>4. /\ LinkedBefore(q, t, after) \in Seq(Task)
      /\ Range(LinkedBefore(q, t, after)) = Range(q) \cup {t}
      /\ OrderedBy(LinkedBefore(q, t, after), pri)
  BY <1>3, LinkedKeeps
<1>. QED
  BY <1>1, <1>4

\* The tasks of the ready queue are in no queue of a lock, and the other way.
LEMMA WaitersAreReady ==
    ASSUME IInv, Ready
    PROVE  /\ \A t \in Task : klockwait[t] => tstat[t] = "READY"
           /\ \A l \in Loc : \A t \in Range(wtskq[l]) : t \in Task /\ WaitsFor(t, l)
<1>1. \A l \in Loc : \A t \in Range(wtskq[l]) : t \in Task /\ WaitsFor(t, l)
  BY InRange DEF IInv, Types, Waiting
<1>. QED
  BY <1>1 DEF Ready, IInv, Types, WaitsFor

\* LeavesLock() takes nobody else out of a queue of a lock.
LEMMA OthersStay ==
    ASSUME IInv, NEW t \in Task, LeavesLock(t)
    PROVE  \A l \in Loc : Range(wtskq[l]) \ {t} \subseteq Range(wtskq'[l])
<1>1. CASE klockwait[t]
  <2>. DEFINE q == wtskq[loc[t]]
  <2>1. loc[t] \in Loc /\ wtskq \in [Loc -> Seq(Task)] /\ q \in Seq(Task) /\ Distinct(q)
    BY DEF IInv, Types, Once
  <2>2. wtskq' = [wtskq EXCEPT ![loc[t]] = Unlinked(q, t)]
    BY <1>1 DEF LeavesLock
  <2>3. \A l \in Loc : wtskq'[l] = IF l = loc[t] THEN Unlinked(q, t) ELSE wtskq[l]
    BY <2>1, <2>2
  <2>4. Range(Unlinked(q, t)) = Range(q) \ {t}
    <3>. HIDE DEF q
    <3>. QED
      BY <2>1, UnlinkedLeaves
  <2>. QED
    BY <2>3, <2>4
<1>2. CASE ~klockwait[t]
  BY <1>2 DEF LeavesLock
<1>. QED
  BY <1>1, <1>2

\* knl_ready_queue_delete() of a READY task: it is in no queue afterwards.
LEMMA OtherReadyKeeps ==
    ASSUME IInv, Ready, NEW t \in Task, NEW pr, pr = [pri EXCEPT ![t] = pr[t]]
    PROVE  /\ OtherReady(t) \in Seq(Task)
           /\ Range(OtherReady(t)) = Range(rq) \ {t}
           /\ OrderedBy(OtherReady(t), pr)
<1>1. rq \in Seq(Task) /\ OrderedBy(rq, pri) /\ pri \in [Task -> Pri]
  BY DEF Ready
<1>2. /\ Unlinked(rq, t) \in Seq(Task)
      /\ Range(Unlinked(rq, t)) = Range(rq) \ {t}
      /\ OrderedBy(Unlinked(rq, t), pri)
  BY <1>1, UnlinkedKeeps
<1>3. klockwait[t] => t \notin Range(rq)
  BY DEF Ready
<1>4. /\ OtherReady(t) \in Seq(Task)
      /\ Range(OtherReady(t)) = Range(rq) \ {t}
      /\ OrderedBy(OtherReady(t), pri)
  BY <1>1, <1>2, <1>3 DEF OtherReady
<1>5. \A u \in Range(OtherReady(t)) : u \in Task /\ u # t
  BY <1>1, <1>4, InRange
<1>6. \A u \in Range(OtherReady(t)) : pri[u] = pr[u]
  BY <1>1, <1>5
<1>. QED
  BY <1>4, <1>6, OrderedByItsTasks

\* knl_LockOBJ(): a READY task that has to wait changes queues.
LEMMA LockReady ==
    ASSUME IInv, Ready, NEW t \in Task, knl_LockOBJ(t), ~twice'
    PROVE  Ready'
<1>0. PICK l \in Loc : l = loc[t]
  BY DEF IInv, Types
<1>1. /\ loc' = loc /\ loc \in [Task -> Loc]
      /\ tstat' = tstat /\ pri' = pri /\ ~klockwait[t]
  BY DEF knl_LockOBJ, IInv, Types, Owner, Unstopped
<1>2. CASE UNCHANGED <<rq, wtskq, klockwait>>
  <2>1. Range(rq)' = {u \in Task : tstat[u] = "READY" /\ ~klockwait[u]}'
    BY <1>1, <1>2 DEF Ready
  <2>2. \A u \in Task : klockwait'[u] => u \in Range(wtskq'[loc'[u]])
    BY <1>1, <1>2 DEF Ready
  <2>. QED
    BY <1>1, <1>2, <2>1, <2>2 DEF Ready
<1>3. CASE /\ tstat[t] = "READY" /\ rq' = Unlinked(rq, t)
           /\ wtskq' = [wtskq EXCEPT ![l] = Append(@, t)]
           /\ klockwait' = [klockwait EXCEPT ![t] = TRUE]
  <2>1. /\ rq' \in Seq(Task) /\ Range(rq') = Range(rq) \ {t} /\ OrderedBy(rq', pri)
    BY <1>3, UnlinkedKeeps DEF Ready
  <2>2. Range(rq') = {u \in Task : tstat'[u] = "READY" /\ ~klockwait'[u]}
    BY <1>1, <1>3, <2>1 DEF Ready, IInv, Types
  <2>3. \A m \in Loc : wtskq[m] \in Seq(Task)
                       /\ wtskq'[m] = IF m = l THEN Append(wtskq[l], t) ELSE wtskq[m]
    BY <1>3 DEF IInv, Types
  <2>4. Range(Append(wtskq[l], t)) = Range(wtskq[l]) \cup {t}
    <3>. DEFINE q == wtskq[l]
                r == Append(q, t)
    <3>1. q \in Seq(Task)
      BY <2>3
    <3>. HIDE DEF q
    <3>2. /\ r \in Seq(Task) /\ Len(r) = Len(q) + 1 /\ Len(q) \in Nat
          /\ \A i \in 1 .. Len(q) : r[i] = q[i] /\ i \in 1 .. Len(q) + 1
          /\ r[Len(q) + 1] = t /\ Len(q) + 1 \in 1 .. Len(q) + 1
          /\ \A i \in 1 .. Len(q) + 1 : i \in 1 .. Len(q) \/ i = Len(q) + 1
      BY <3>1
    <3>. HIDE DEF r
    <3>3. \A x : x \in Range(q) <=> \E i \in 1 .. Len(q) : q[i] = x
      BY <3>1, InRange
    <3>4. \A x : x \in Range(r) <=> \E i \in 1 .. Len(q) + 1 : r[i] = x
      BY <3>2, InRange
    <3>5. Range(r) = Range(q) \cup {t}
      BY <3>2, <3>3, <3>4
    <3>. QED
      BY <3>5 DEF q, r
  <2>5. ASSUME NEW u \in Task, klockwait'[u]
        PROVE  u \in Range(wtskq'[loc'[u]])
    <3>1. CASE u = t
      BY <1>0, <1>1, <2>3, <2>4, <3>1
    <3>2. CASE u # t
      <4>1. klockwait[u] /\ loc'[u] = loc[u] /\ loc[u] \in Loc
        BY <1>1, <1>3, <2>5, <3>2 DEF IInv, Types
      <4>2. u \in Range(wtskq[loc[u]])
        BY <4>1 DEF Ready
      <4>. QED
        BY <2>3, <2>4, <4>1, <4>2
    <3>. QED
      BY <3>1, <3>2
  <2>. QED
    BY <1>1, <2>1, <2>2, <2>5 DEF Ready
<1>. QED
  BY <1>0, <1>2, <1>3 DEF knl_LockOBJ, lockvars

\* knl_UnlockOBJ(): q is the ready queue, without t if t waits for the object.
\* The task that gets the lock goes back to it.
LEMMA ReleaseReady ==
    ASSUME IInv, Ready, MaxPri \in Nat, NEW t \in Task, Executes(t, "in"), Released(t),
           UNCHANGED <<pri, loc>>, tstat' \in [Task -> {"DORMANT", "READY", "WAIT", "SUSPEND"}],
           \A u \in Task : u # t => tstat'[u] = tstat[u],
           NEW q \in Seq(Task), OrderedBy(q, pri), rq' = Woken(q, loc[t]),
           \A u \in Task : u # t => (u \in Range(q) <=> u \in Range(rq)),
           t \in Range(q) <=> tstat'[t] = "READY"
    PROVE  Ready'
<1>. DEFINE l == loc[t]
            w == wtskq[l]
<1>1. /\ l \in Loc /\ w \in Seq(Task) /\ ~klockwait[t] /\ pri \in [Task -> Nat]
      /\ klockwait \in [Task -> BOOLEAN] /\ wtskq \in [Loc -> Seq(Task)]
      /\ loc \in [Task -> Loc]
  BY DEF IInv, Types, Executes, Ready, Pri
<1>2. \A u : u \in Range(q) <=> u \in Task /\ tstat'[u] = "READY" /\ ~klockwait[u]
  <2>1. \A u \in Range(q) : u \in Task
    BY InRange
  <2>2. \A u \in Task : u # t => (u \in Range(q) <=> tstat'[u] = "READY" /\ ~klockwait[u])
    BY DEF Ready
  <2>. QED
    BY <1>1, <2>1, <2>2
<1>3. CASE w = << >>
  <2>1. rq' = q /\ UNCHANGED <<wtskq, klockwait>>
    BY <1>3 DEF Woken, Released
  <2>. QED
    BY <1>1, <1>2, <2>1 DEF Ready
<1>4. CASE w # << >>
  <2>1. PICK u : u = Head(w)
    OBVIOUS
  <2>2. /\ rq' = InsertedTop(q, u)
        /\ wtskq' = [wtskq EXCEPT ![l] = Tail(w)]
        /\ klockwait' = [klockwait EXCEPT ![u] = FALSE]
    BY <1>4, <2>1 DEF Woken, Released
  <2>3. Len(w) \in Nat \ {0} /\ u = w[1] /\ 1 \in 1 .. Len(w)
    BY <1>1, <1>4, <2>1
  <2>4. u \in Task /\ WaitsFor(u, l) /\ u # t
    BY <1>1, <2>3 DEF IInv, Waiting, WaitsFor
  <2>5. u \in Task \ Range(q) /\ tstat'[u] = "READY"
    BY <1>2, <2>4 DEF WaitsFor
  <2>6. /\ rq' \in Seq(Task) /\ Range(rq') = Range(q) \cup {u} /\ OrderedBy(rq', pri)
    BY <1>1, <2>2, <2>5, InsertedTopKeeps
  <2>7. Range(rq') = {v \in Task : tstat'[v] = "READY" /\ ~klockwait'[v]}
    BY <1>1, <1>2, <2>2, <2>4, <2>5, <2>6
  <2>8. ASSUME NEW v \in Task, klockwait'[v]
        PROVE  v \in Range(wtskq'[loc[v]])
    <3>1. v # u /\ klockwait[v]
      BY <1>1, <2>2, <2>8
    <3>2. loc[v] \in Loc /\ wtskq[loc[v]] \in Seq(Task) /\ v \in Range(wtskq[loc[v]])
      BY <1>1, <3>1 DEF Ready
    <3>3. CASE loc[v] = l
      <4>1. PICK i \in 1 .. Len(w) : w[i] = v
        BY <3>2, <3>3, InRange
      <4>2. i # 1 /\ i - 1 \in 1 .. Len(w) - 1
        BY <2>3, <3>1, <4>1
      <4>3. Tail(w) \in Seq(Task) /\ Len(Tail(w)) = Len(w) - 1 /\ Tail(w)[i - 1] = w[i]
        BY <1>1, <1>4, <4>2
      <4>4. v \in Range(Tail(w))
        <5>. DEFINE r == Tail(w)
        <5>1. r \in Seq(Task) /\ i - 1 \in 1 .. Len(r) /\ r[i - 1] = v
          BY <4>1, <4>2, <4>3
        <5>. HIDE DEF r
        <5>2. v \in Range(r)
          BY <5>1, InRange
        <5>. QED
          BY <5>2 DEF r
      <4>. QED
        BY <1>1, <2>2, <3>3, <4>4
    <3>4. CASE loc[v] # l
      BY <1>1, <2>2, <3>2, <3>4
    <3>. QED
      BY <3>3, <3>4
  <2>. QED
    BY <2>6, <2>7, <2>8 DEF Ready
<1>. QED
  BY <1>3, <1>4

\* A READY task that stops being READY is in no queue: tk_sus_tsk(), tk_ter_tsk().
LEMMA LeavingReady ==
    ASSUME IInv, Ready, NEW t \in Task, LeavesLock(t), rq' = OtherReady(t), loc' = loc,
           NEW s \in {"DORMANT", "SUSPEND"}, tstat' = [tstat EXCEPT ![t] = s],
           NEW p \in Pri, pri' = [pri EXCEPT ![t] = p]
    PROVE  Ready'
<1>1. /\ tstat \in [Task -> {"DORMANT", "READY", "WAIT", "SUSPEND"}]
      /\ klockwait \in [Task -> BOOLEAN] /\ loc \in [Task -> Loc] /\ pri \in [Task -> Pri]
      /\ klockwait' = [klockwait EXCEPT ![t] = FALSE]
  BY DEF IInv, Types, Ready, LeavesLock
<1>2. pri' = [pri EXCEPT ![t] = pri'[t]] /\ pri' \in [Task -> Pri]
  BY <1>1
<1>3. rq' \in Seq(Task) /\ Range(rq') = Range(rq) \ {t} /\ OrderedBy(rq', pri')
  BY <1>2, OtherReadyKeeps
<1>4. Range(rq') = {u \in Task : tstat'[u] = "READY" /\ ~klockwait'[u]}
  BY <1>1, <1>3 DEF Ready
<1>5. \A u \in Task : klockwait'[u] => u \in Range(wtskq'[loc'[u]])
  BY <1>1, OthersStay DEF Ready
<1>. QED
  BY <1>2, <1>3, <1>4, <1>5 DEF Ready

\* knl_make_ready().
LEMMA MakeReadyReady ==
    ASSUME IInv, Ready, MaxPri \in Nat, NEW t \in Task, MakeReady(t)
    PROVE  Ready'
<1>1. /\ tstat \in [Task -> {"DORMANT", "READY", "WAIT", "SUSPEND"}]
      /\ klockwait \in [Task -> BOOLEAN] /\ pri \in [Task -> Nat]
      /\ tstat' = [tstat EXCEPT ![t] = "READY"] /\ tstat[t] # "READY"
      /\ pri' = pri /\ klockwait' = klockwait /\ wtskq' = wtskq /\ loc' = loc
  BY DEF IInv, Types, Ready, Pri, MakeReady, lockvars
<1>2. ~klockwait[t] /\ t \notin Range(rq)
  BY <1>1, WaitersAreReady DEF Ready
<1>3. rq' \in Seq(Task) /\ Range(rq') = Range(rq) \cup {t} /\ OrderedBy(rq', pri)
  BY <1>1, <1>2, InsertedKeeps DEF MakeReady, Ready
<1>4. Range(rq') = {u \in Task : tstat'[u] = "READY" /\ ~klockwait'[u]}
  BY <1>1, <1>2, <1>3 DEF Ready
<1>. QED
  BY <1>1, <1>3, <1>4 DEF Ready

\* knl_change_task_priority(): a waiter of a lock goes to the ready queue, and
\* will try again.
LEMMA ChangeReady ==
    ASSUME IInv, Ready, MaxPri \in Nat, NEW t \in Task, NEW p \in Pri, tk_chg_pri(t, p)
    PROVE  Ready'
<1>1. /\ pri' = [pri EXCEPT ![t] = p] /\ pri \in [Task -> Pri] /\ pri' \in [Task -> Pri]
      /\ klockwait \in [Task -> BOOLEAN] /\ loc \in [Task -> Loc]
      /\ tstat' = tstat /\ loc' = loc
  BY DEF IInv, Types, Ready, tk_chg_pri
<1>2. pri' = [pri EXCEPT ![t] = pri'[t]] /\ pri' \in [Task -> Nat]
  BY <1>1 DEF Pri
<1>3. CASE tstat[t] = "READY"
  <2>1. /\ LeavesLock(t) /\ rq' = Inserted(OtherReady(t), pri', t)
        /\ klockwait' = [klockwait EXCEPT ![t] = FALSE]
    BY <1>3 DEF tk_chg_pri, LeavesLock
  <2>2. /\ OtherReady(t) \in Seq(Task) /\ Range(OtherReady(t)) = Range(rq) \ {t}
        /\ OrderedBy(OtherReady(t), pri')
    BY <1>2, OtherReadyKeeps
  <2>3. /\ rq' \in Seq(Task) /\ Range(rq') = (Range(rq) \ {t}) \cup {t}
        /\ OrderedBy(rq', pri')
    <3>. DEFINE q == OtherReady(t)
    <3>1. q \in Seq(Task) /\ OrderedBy(q, pri') /\ t \in Task \ Range(q)
      BY <2>2
    <3>. HIDE DEF q
    <3>2. /\ Inserted(q, pri', t) \in Seq(Task)
          /\ Range(Inserted(q, pri', t)) = Range(q) \cup {t}
          /\ OrderedBy(Inserted(q, pri', t), pri')
      BY <1>2, <3>1, InsertedKeeps
    <3>. QED
      BY <2>1, <2>2, <3>2 DEF q
  <2>4. Range(rq') = {u \in Task : tstat'[u] = "READY" /\ ~klockwait'[u]}
    BY <1>1, <1>3, <2>1, <2>3 DEF Ready
  <2>5. \A u \in Task : klockwait'[u] => u \in Range(wtskq'[loc'[u]])
    BY <1>1, <2>1, OthersStay DEF Ready
  <2>. QED
    BY <1>1, <2>3, <2>4, <2>5 DEF Ready
<1>4. CASE tstat[t] # "READY"
  <2>1. rq' = rq /\ klockwait' = klockwait /\ wtskq' = wtskq
    BY <1>4 DEF tk_chg_pri, lockvars
  <2>2. \A u \in Range(rq) : pri[u] = pri'[u]
    BY <1>1, <1>4 DEF Ready
  <2>3. OrderedBy(rq, pri')
    BY <2>2, OrderedByItsTasks DEF Ready
  <2>. QED
    BY <1>1, <2>1, <2>3 DEF Ready
<1>. QED
  BY <1>3, <1>4

\* tk_rot_rdq(): the first task of a priority goes behind the others.
LEMMA RotateReady ==
    ASSUME IInv, Ready, MaxPri \in Nat, NEW p \in Pri, tk_rot_rdq(p)
    PROVE  Ready'
<1>. DEFINE same == {i \in DOMAIN rq : pri[rq[i]] = p}
            k == CHOOSE i \in same : \A j \in same : i <= j
<1>1. /\ UNCHANGED <<tstat, pri, lockvars, pc, loc>> /\ Cardinality(same) > 1
      /\ rq' = Inserted(Unlinked(rq, rq[k]), pri, rq[k])
  BY DEF tk_rot_rdq
<1>2. rq \in Seq(Task) /\ OrderedBy(rq, pri) /\ pri \in [Task -> Nat]
  BY DEF Ready, Pri
<1>3. same # {} /\ same \in SUBSET Nat
  <2>1. same # {}
    <3>. HIDE DEF same
    <3>. QED
      BY <1>1, FS_EmptySet
  <2>2. DOMAIN rq = 1 .. Len(rq) /\ 1 .. Len(rq) \subseteq Nat
    BY <1>2
  <2>. QED
    BY <2>1, <2>2
<1>4. k \in DOMAIN rq
  <2>1. k \in same
    <3>. HIDE DEF same
    <3>. QED
      BY <1>3, NatMin
  <2>. QED
    BY <2>1
<1>. HIDE DEF k
<1>5. rq[k] \in Task /\ rq[k] \in Range(rq)
  BY <1>2, <1>4, InRange
<1>6. PICK t \in Task : t = rq[k]
  BY <1>5
<1>7. /\ Unlinked(rq, t) \in Seq(Task) /\ Range(Unlinked(rq, t)) = Range(rq) \ {t}
      /\ OrderedBy(Unlinked(rq, t), pri)
  BY <1>2, UnlinkedKeeps
<1>8. /\ rq' \in Seq(Task) /\ Range(rq') = (Range(rq) \ {t}) \cup {t} /\ OrderedBy(rq', pri)
  <2>. DEFINE q == Unlinked(rq, t)
  <2>1. q \in Seq(Task) /\ OrderedBy(q, pri) /\ t \in Task \ Range(q)
    BY <1>7
  <2>. HIDE DEF q
  <2>2. /\ Inserted(q, pri, t) \in Seq(Task)
        /\ Range(Inserted(q, pri, t)) = Range(q) \cup {t}
        /\ OrderedBy(Inserted(q, pri, t), pri)
    BY <1>2, <2>1, InsertedKeeps
  <2>. QED
    BY <1>1, <1>6, <1>7, <2>2 DEF q
<1>9. Range(rq') = Range(rq)
  BY <1>5, <1>6, <1>8
<1>. QED
  BY <1>1, <1>8, <1>9 DEF Ready, lockvars

\* Every step keeps the queues.
LEMMA NextReady ==
    ASSUME LockAssumption, IInv, Ready, [LockNext]_objlvars
    PROVE  twice' \/ Ready'
<1>0. MaxPri \in Nat /\ ipriority \in Pri
  BY DEF LockAssumption, ipriority, Pri
<1>1. ASSUME NEW t \in Task, knl_LockOBJ(t)
      PROVE  twice' \/ Ready'
  BY <1>1, LockReady
<1>11. ASSUME NEW t \in Task, NEW l \in Loc, Enter(t, l)
       PROVE  Ready'
  <2>1. /\ UNCHANGED <<tstat, pri, rq, wtskq, klockwait>>
        /\ loc' = [loc EXCEPT ![t] = l] /\ ~klockwait[t] /\ loc \in [Task -> Loc]
    BY <1>11 DEF Enter, Executes, taskvars, lockvars, IInv, Types
  <2>. QED
    BY <2>1 DEF Ready
<1>2. ASSUME NEW t \in Task, knl_UnlockOBJ(t)
      PROVE  Ready'
  <2>1. /\ Executes(t, "in") /\ Released(t) /\ UNCHANGED <<pri, loc, tstat>>
        /\ rq' = Woken(rq, loc[t])
    BY <1>2 DEF knl_UnlockOBJ
  <2>2. tstat \in [Task -> {"DORMANT", "READY", "WAIT", "SUSPEND"}]
    BY DEF IInv, Types
  <2>3. rq \in Seq(Task) /\ OrderedBy(rq, pri) /\ t \in Range(rq) /\ tstat'[t] = "READY"
    BY <2>1 DEF Ready, Executes
  <2>. QED
    BY <1>0, <2>1, <2>2, <2>3, ReleaseReady
<1>3. ASSUME NEW t \in Task, WaitAndUnlock(t)
      PROVE  Ready'
  <2>. DEFINE q == Unlinked(rq, t)
  <2>1. /\ Executes(t, "in") /\ Released(t) /\ UNCHANGED <<pri, loc>>
        /\ rq' = Woken(q, loc[t]) /\ tstat' = [tstat EXCEPT ![t] = "WAIT"]
    BY <1>3 DEF WaitAndUnlock
  <2>2. /\ tstat' \in [Task -> {"DORMANT", "READY", "WAIT", "SUSPEND"}]
        /\ tstat'[t] # "READY" /\ \A u \in Task : u # t => tstat'[u] = tstat[u]
    BY <2>1 DEF IInv, Types
  <2>3. q \in Seq(Task) /\ Range(q) = Range(rq) \ {t} /\ OrderedBy(q, pri)
    BY UnlinkedKeeps DEF Ready
  <2>. HIDE DEF q
  <2>4. /\ \A u \in Task : u # t => (u \in Range(q) <=> u \in Range(rq))
        /\ t \in Range(q) <=> tstat'[t] = "READY"
    BY <2>2, <2>3
  <2>. QED
    BY <1>0, <2>1, <2>2, <2>3, <2>4, ReleaseReady
<1>4. ASSUME NEW t \in Task, MakeReady(t)
      PROVE  Ready'
  BY <1>0, <1>4, MakeReadyReady
<1>5. ASSUME NEW t \in Task, tk_sus_tsk(t)
      PROVE  Ready'
  <2>1. pri[t] \in Pri /\ pri' = [pri EXCEPT ![t] = pri[t]]
    BY <1>5 DEF tk_sus_tsk, Ready
  <2>. QED
    BY <1>5, <2>1, LeavingReady DEF tk_sus_tsk
<1>6. ASSUME NEW t \in Task, tk_ter_tsk(t)
      PROVE  Ready'
  <2>1. CASE tstat[t] = "READY"
    BY <1>0, <1>6, <2>1, LeavingReady DEF tk_ter_tsk
  <2>2. CASE tstat[t] # "READY"
    <3>1. /\ UNCHANGED <<rq, wtskq, klockwait, loc>>
          /\ tstat' = [tstat EXCEPT ![t] = "DORMANT"] /\ pri' = [pri EXCEPT ![t] = ipriority]
      BY <1>6, <2>2 DEF tk_ter_tsk
    <3>2. pri' \in [Task -> Pri]
      BY <1>0, <3>1 DEF Ready
    <3>3. \A u \in Range(rq) : pri[u] = pri'[u]
      BY <2>2, <3>1 DEF Ready
    <3>4. OrderedBy(rq, pri')
      BY <3>3, OrderedByItsTasks DEF Ready
    <3>5. Range(rq) = {u \in Task : tstat'[u] = "READY" /\ ~klockwait[u]}
      BY <2>2, <3>1 DEF Ready, IInv, Types
    <3>. QED
      BY <3>1, <3>2, <3>4, <3>5 DEF Ready
  <2>. QED
    BY <2>1, <2>2
<1>7. ASSUME NEW t \in Task, NEW p \in Pri, tk_chg_pri(t, p)
      PROVE  Ready'
  BY <1>0, <1>7, ChangeReady
<1>8. ASSUME NEW p \in Pri, tk_rot_rdq(p)
      PROVE  Ready'
  BY <1>0, <1>8, RotateReady
<1>9. CASE UNCHANGED objlvars
  BY <1>9 DEF objlvars, taskvars, lockvars, Ready
<1>10. CASE LockNext
  <2>1. CASE \E p \in Pri : tk_rot_rdq(p)
    BY <1>8, <2>1
  <2>2. CASE ~ \E p \in Pri : tk_rot_rdq(p)
    <3>1. PICK t \in Task :
            \/ \E l \in Loc : Enter(t, l)
            \/ knl_LockOBJ(t) \/ knl_UnlockOBJ(t) \/ WaitAndUnlock(t)
            \/ MakeReady(t) \/ tk_sus_tsk(t) \/ tk_ter_tsk(t)
            \/ \E p \in Pri : tk_chg_pri(t, p)
      BY <1>10, <2>2 DEF LockNext
    <3>. QED
      BY <1>1, <1>2, <1>3, <1>4, <1>5, <1>6, <1>7, <1>11, <3>1
  <2>. QED
    BY <2>1, <2>2
<1>. QED
  BY <1>9, <1>10

\* No queue of a lock is longer than there are tasks.
LEMMA QueueFits ==
    ASSUME IsFiniteSet(Task), NEW q \in Seq(Task), Distinct(q)
    PROVE  Len(q) <= Cardinality(Task)
<1>1. Len(q) \in Nat /\ q \in [1 .. Len(q) -> Task]
  OBVIOUS
<1>2. IsFiniteSet(1 .. Len(q)) /\ Cardinality(1 .. Len(q)) = Len(q)
  BY SMTT(20), <1>1, FS_Interval
<1>3. Cardinality(Task) \in Nat
  BY FS_CardinalityType
<1>4. CASE Cardinality(Task) < Len(q)
  <2>1. \E i, j \in 1 .. Len(q) : i # j /\ q[i] = q[j]
    BY <1>1, <1>2, <1>4, FS_PigeonHole
  <2>. QED
    BY <2>1 DEF Distinct
<1>. QED
  BY <1>1, <1>3, <1>4

\* The places of a task in the queues, counted.
LEMMA ReadySuffices ==
    ASSUME IsFiniteSet(Task), IInv, Ready
    PROVE  QueuedOnce
<1>. DEFINE N == Cardinality(Task)
            inReady(t) == {i \in DOMAIN rq : rq[i] = t}
            inLock(t) == {p \in Loc \X (1 .. N) :
                            p[2] <= Len(wtskq[p[1]]) /\ wtskq[p[1]][p[2]] = t}
<1>1. ASSUME NEW t \in Task
      PROVE  Cardinality(inReady(t)) = IF tstat[t] = "READY" /\ ~klockwait[t] THEN 1 ELSE 0
  <2>1. CASE t \in Range(rq)
    <3>1. PICK k \in 1 .. Len(rq) : rq[k] = t
      BY <2>1, InRange DEF Ready
    <3>2. inReady(t) = {k}
      <4>1. DOMAIN rq = 1 .. Len(rq) /\ Len(rq) \in Nat
        BY DEF Ready
      <4>2. \A i \in 1 .. Len(rq) : i < k \/ k < i => rq[i] # rq[k]
        BY <4>1 DEF Ready, OrderedBy
      <4>3. \A i \in 1 .. Len(rq) : rq[i] = t => i = k
        BY <3>1, <4>1, <4>2
      <4>. QED
        BY <3>1, <4>1, <4>3
    <3>. QED
      BY <2>1, <3>2, FS_Singleton DEF Ready
  <2>2. CASE t \notin Range(rq)
    <3>1. inReady(t) = {}
      BY <2>2 DEF Range
    <3>. QED
      BY <2>2, <3>1, FS_EmptySet DEF Ready
  <2>. QED
    BY <2>1, <2>2
<1>2. ASSUME NEW t \in Task
      PROVE  Cardinality(inLock(t)) = IF klockwait[t] THEN 1 ELSE 0
  <2>1. wtskq \in [Loc -> Seq(Task)] /\ loc[t] \in Loc
    BY DEF IInv, Types
  <2>2. \A l \in Loc : \A i \in 1 .. Len(wtskq[l]) : wtskq[l][i] = t =>
          klockwait[t] /\ l = loc[t]
    BY DEF IInv, Waiting, WaitsFor
  <2>3. CASE klockwait[t]
    <3>. DEFINE w == wtskq[loc[t]]
    <3>1. w \in Seq(Task) /\ Distinct(w) /\ t \in Range(w)
      BY <2>1, <2>3 DEF IInv, Once, Ready
    <3>2. Len(w) <= N /\ Len(w) \in Nat /\ N \in Nat
      <4>. HIDE DEF w
      <4>. QED
        BY <3>1, QueueFits, FS_CardinalityType
    <3>3. PICK k \in 1 .. Len(w) : w[k] = t
      <4>. HIDE DEF w
      <4>. QED
        BY <3>1, InRange
    <3>4. inLock(t) = {<<loc[t], k>>}
      <4>1. <<loc[t], k>> \in inLock(t)
        BY <2>1, <3>2, <3>3
      <4>2. ASSUME NEW p \in inLock(t)
            PROVE  p = <<loc[t], k>>
        <5>1. PICK l \in Loc, i \in 1 .. N : p = <<l, i>>
          OBVIOUS
        <5>2. i <= Len(wtskq[l]) /\ wtskq[l][i] = t
          BY <5>1
        <5>3. Len(wtskq[l]) \in Nat /\ i \in 1 .. Len(wtskq[l])
          BY <2>1, <3>2, <5>2
        <5>4. l = loc[t]
          BY <2>2, <5>2, <5>3
        <5>5. i = k
          BY <3>1, <3>3, <5>2, <5>3, <5>4 DEF Distinct
        <5>. QED
          BY <5>1, <5>4, <5>5
      <4>. QED
        BY <4>1, <4>2
    <3>. HIDE DEF inLock
    <3>. QED
      BY <2>3, <3>4, FS_Singleton
  <2>4. CASE ~klockwait[t]
    <3>1. ASSUME NEW p \in inLock(t)
          PROVE  FALSE
      <4>1. PICK l \in Loc, i \in 1 .. N : p = <<l, i>>
        OBVIOUS
      <4>2. i <= Len(wtskq[l]) /\ wtskq[l][i] = t
        BY <4>1
      <4>3. N \in Nat
        BY FS_CardinalityType
      <4>4. Len(wtskq[l]) \in Nat /\ i \in 1 .. Len(wtskq[l])
        BY <2>1, <4>2, <4>3
      <4>. QED
        BY <2>2, <2>4, <4>2, <4>4
    <3>2. inLock(t) = {}
      BY <3>1
    <3>. HIDE DEF inLock
    <3>. QED
      BY <2>4, <3>2, FS_EmptySet
  <2>. QED
    BY <2>3, <2>4 DEF IInv, Types
<1>3. \A t \in Task : klockwait[t] => tstat[t] = "READY"
  BY WaitersAreReady
<1>4. \A i, j \in DOMAIN rq : i < j => pri[rq[i]] <= pri[rq[j]]
  BY DEF Ready, OrderedBy
<1>5. \A t \in Task : Cardinality(inReady(t)) + Cardinality(inLock(t))
                        = IF tstat[t] = "READY" THEN 1 ELSE 0
  <2>. HIDE DEF inReady, inLock
  <2>. QED
    BY <1>1, <1>2, <1>3
<1>. QED
  BY <1>4, <1>5 DEF QueuedOnce

\* Nobody is in a queue at the start.
LEMMA InitReady == LockAssumption /\ LockInit => Ready
<1>. SUFFICES ASSUME LockAssumption, LockInit PROVE Ready
  OBVIOUS
<1>1. ipriority \in Pri
  BY DEF LockAssumption, ipriority, Pri
<1>2. rq = << >> /\ Range(<< >>) = {}
  BY DEF LockInit, Range
<1>. QED
  BY <1>1, <1>2 DEF LockInit, Ready, OrderedBy

\* ready_queue.h: a task that waits for a lock, however it is suspended, ended or
\* given another priority meanwhile, is in one queue if it is READY and in none
\* if it is not, until a task that was suspended on its way into knl_LockOBJ()
\* finds the lock taken.  For every finite set of tasks, and every set of locks.
THEOREM EachQueuedOnce ==
    ASSUME LockAssumption, IsFiniteSet(Task) PROVE LockSpec => []QueuedOnce
<1>. DEFINE Inv == OInv /\ (twice \/ Ready)
<1>1. LockInit => Inv
  BY InitIInv, InitReady DEF IInv, OInv
<1>2. Inv /\ [LockNext]_objlvars => Inv'
  <2>1. SUFFICES ASSUME Inv, [LockNext]_objlvars
                 PROVE  twice' \/ Ready'
    BY NextIInv
  <2>2. CASE twice
    BY <2>1, <2>2 DEF LockNext, objlvars, hitvars
  <2>3. CASE ~twice
    BY <2>1, <2>3, NextReady DEF IInv, OInv
  <2>. QED
    BY <2>2, <2>3
<1>3. Inv => QueuedOnce
  <2>1. CASE twice
    BY <2>1 DEF QueuedOnce
  <2>2. CASE ~twice
    BY <2>2, ReadySuffices DEF IInv, OInv
  <2>. QED
    BY <2>1, <2>2
<1>. QED
  BY <1>1, <1>2, <1>3, PTL DEF LockSpec
=============================================================================
