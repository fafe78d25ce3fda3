--------------------------- MODULE SmpSchedProofs ---------------------------
(***************************************************************************)
(* Proofs about module SmpSched: a task is published to one processor      *)
(* only, and as long as no dispatcher has installed a task after its slot  *)
(* changed, a task is current on one processor only; the ready queue and   *)
(* the counters of the tasks agree with their states: for every set of     *)
(* tasks, priorities and affinities and for every set of system calls.     *)
(*                                                                         *)
(* The argument is the one of knl_task_core_mask(): whoever executes a     *)
(* task, or has it in his slot, owns it.  The matcher places a task in its *)
(* mask only, so that a selection never moves an owned task; the kernel    *)
(* lock keeps the owners fixed between selection and publication.          *)
(***************************************************************************)
EXTENDS SmpSched, QueueFacts

-----------------------------------------------------------------------------
(***************************************************************************)
(* The queue.                                                              *)
(***************************************************************************)
\* knl_ready_queue_delete(): t is gone, and nothing else.
LEMMA DeleteKeeps ==
    ASSUME NEW q \in Seq(Task), NEW pr, NEW t \in Task, OrderedBy(q, pr)
    PROVE  /\ ReadyDelete(q, t) \in Seq(Task)
           /\ Range(ReadyDelete(q, t)) = Range(q) \ {t}
           /\ OrderedBy(ReadyDelete(q, t), pr)
BY WithoutKeeps DEF ReadyDelete, Without

\* knl_ready_queue_insert(): t is added, behind what is as urgent.
LEMMA InsertKeeps ==
    ASSUME NEW q \in Seq(Task), NEW pr \in [Task -> Nat], NEW t \in Task \ Range(q),
           OrderedBy(q, pr)
    PROVE  /\ ReadyInsert(q, pr, t) \in Seq(Task)
           /\ Range(ReadyInsert(q, pr, t)) = Range(q) \cup {t}
           /\ OrderedBy(ReadyInsert(q, pr, t), pr)
<1>. DEFINE after == {i \in DOMAIN q : pr[q[i]] > pr[t]}
<1>1. ReadyInsert(q, pr, t) = LinkedBefore(q, t, after)
  BY DEF ReadyInsert, LinkedBefore
<1>2. \A i \in DOMAIN q : pr[q[i]] \in Nat /\ pr[t] \in Nat
  BY InRange
<1>3. /\ after \in SUBSET DOMAIN q
      /\ \A i \in DOMAIN q \ after : pr[q[i]] <= pr[t]
      /\ \A i \in after : pr[t] <= pr[q[i]]
  BY <1>2
<1>. HIDE DEF after
<1>. QED
  BY <1>1, <1>3, LinkedKeeps

\* knl_ready_queue_rotate() keeps all tasks.
LEMMA RotateKeeps ==
    ASSUME NEW q \in Seq(Task), NEW pr \in [Task -> Nat], NEW p, OrderedBy(q, pr)
    PROVE  /\ ReadyRotate(q, pr, p) \in Seq(Task)
           /\ Range(ReadyRotate(q, pr, p)) = Range(q)
           /\ OrderedBy(ReadyRotate(q, pr, p), pr)
<1>. DEFINE same == {i \in DOMAIN q : pr[q[i]] = p}
            k == CHOOSE i \in same : \A j \in same : i <= j
<1>1. CASE same = {}
  BY <1>1 DEF ReadyRotate
<1>2. CASE same # {}
  <2>1. same \in SUBSET Nat
    OBVIOUS
  <2>2. k \in same
    <3>. HIDE DEF same
    <3>. QED
      BY <1>2, <2>1, NatMin
  <2>3. q[k] \in Task /\ q[k] \in Range(q)
    <3>. HIDE DEF k
    <3>. QED
      BY <2>2, InRange
  <2>4. ReadyRotate(q, pr, p) = ReadyInsert(ReadyDelete(q, q[k]), pr, q[k])
    BY <1>2 DEF ReadyRotate
  <2>. HIDE DEF k
  <2>. DEFINE d == ReadyDelete(q, q[k])
  <2>5. d \in Seq(Task) /\ Range(d) = Range(q) \ {q[k]} /\ OrderedBy(d, pr)
    BY <2>3, DeleteKeeps
  <2>. HIDE DEF d
  <2>6. ReadyRotate(q, pr, p) = ReadyInsert(d, pr, q[k])
    BY <2>4 DEF d
  <2>7. q[k] \in Task \ Range(d) /\ Range(d) \cup {q[k]} = Range(q)
    BY <2>3, <2>5
  <2>. QED
    <3>. DEFINE r == ReadyInsert(d, pr, q[k])
    <3>1. r \in Seq(Task) /\ Range(r) = Range(d) \cup {q[k]} /\ OrderedBy(r, pr)
      BY <2>5, <2>7, InsertKeeps
    <3>. QED
      BY <2>6, <2>7, <3>1
<1>. QED
  BY <1>1, <1>2

-----------------------------------------------------------------------------
(***************************************************************************)
(* The matcher and the guards.                                             *)
(***************************************************************************)
\* knl_assign_cores(): a candidate is placed on a processor of its mask,
\* whatever the other candidate is.
LEMMA PlacedInMask ==
    ASSUME NEW a, NEW b, NEW mask, NEW t \in Task, NEW c \in Core,
           NoTask \notin Task,
           mask[t] \in SUBSET Core,
           t = a \/ t = b => mask[t] # {},
           AssignCores(a, b, mask)[c] = t
    PROVE  c \in mask[t]
<1>. DEFINE Pin(u) == u # NoTask /\ \E d \in Core : mask[u] = {d}
            Only(u) == CHOOSE d \in Core : mask[u] = {d}
            coreA == IF Pin(a) THEN Only(a)
                     ELSE IF Pin(b) THEN Other(Only(b)) ELSE 0
            coreB == IF Pin(b) THEN Only(b) ELSE Other(coreA)
<1>1. AssignCores(a, b, mask)[c] = IF a # NoTask /\ c = coreA THEN a
                                   ELSE IF b # NoTask /\ c = coreB THEN b
                                   ELSE NoTask
  BY DEF AssignCores
<1>2. \/ t = a /\ c = coreA
      \/ t = b /\ c = coreB
  BY <1>1
<1>3. CASE Pin(t)
  <2>1. mask[t] = {Only(t)}
    BY <1>3
  <2>2. c = Only(t)
    BY <1>2, <1>3
  <2>. QED
    BY <2>1, <2>2
<1>4. CASE ~Pin(t)
  <2>1. mask[t] = Core
    BY <1>2, <1>4 DEF Core
  <2>. QED
    BY <2>1
<1>. QED
  BY <1>3, <1>4

\* knl_ready_queue_assign(): no task leaves the mask computed for it.
LEMMA AssignInMask ==
    ASSUME NEW q, NEW ctx, NEW sch, NEW dis, NEW on \in SUBSET Core,
           NEW t \in Task, NEW c \in Core, NoTask \notin Task,
           Assign(q, ctx, sch, dis, on)[c] = t
    PROVE  c \in CoreMask(t, ctx, sch, dis, on)
<1>. DEFINE mask == [u \in Task |-> CoreMask(u, ctx, sch, dis, on)]
            a == Candidate(q, mask, {})
            b == IF a = NoTask THEN NoTask ELSE Candidate(q, mask, {a})
<1>1. Assign(q, ctx, sch, dis, on) = AssignCores(a, b, mask)
  BY DEF Assign
<1>2. ASSUME NEW S, Candidate(q, mask, S) = t
      PROVE  mask[t] # {}
  <2>. DEFINE feasible == {i \in DOMAIN q : Feasible(S, q[i], mask)}
              first == {i \in feasible : \A j \in feasible : i <= j}
              k == CHOOSE i \in first : TRUE
  <2>1. first # {} /\ t = q[k]
    BY <1>2 DEF Candidate
  <2>2. k \in first
    BY <2>1
  <2>3. Feasible(S, q[k], mask)
    BY <2>2
  <2>. QED
    BY <2>1, <2>3 DEF Feasible
<1>3. mask[t] = CoreMask(t, ctx, sch, dis, on)
  OBVIOUS
<1>4. mask[t] \in SUBSET Core
  BY <1>3 DEF CoreMask, Core
<1>5. ASSUME t = a \/ t = b PROVE mask[t] # {}
  <2>1. \/ Candidate(q, mask, {}) = t
        \/ Candidate(q, mask, {a}) = t
    BY <1>5
  <2>. QED
    BY <2>1, <1>2
<1>6. AssignCores(a, b, mask)[c] = t
  BY <1>1
<1>7. c \in mask[t]
  <2>. HIDE DEF mask, a, b
  <2>. QED
    BY <1>4, <1>5, <1>6, PlacedInMask
<1>. QED
  BY <1>3, <1>7

\* knl_smp_reschedule_all(): the guards only ever withdraw a task, and a task
\* is left to one processor.
LEMMA GuardsOnlyDrop ==
    ASSUME NEW s, NEW sch, NEW t \in Task, NEW c \in Core, NoTask \notin Task,
           Guarded(s, sch)[c] = t
    PROVE  s[c] = t /\ Guarded(s, sch)[Other(c)] # t
<1>. DEFINE sel0 == IF s[0] # NoTask /\ sch[1] = s[0] /\ s[1] # s[0] THEN NoTask ELSE s[0]
            sel1 == IF s[1] # NoTask /\ sch[0] = s[1] /\ sel0 # s[1] THEN NoTask ELSE s[1]
            once == [d \in Core |-> IF d = 0 THEN sel0
                                    ELSE IF sel1 = sel0 THEN NoTask ELSE sel1]
<1>1. \A d \in Core : Guarded(s, sch)[d] = IF once[d] # NoTask /\ d \notin Affinity[once[d]]
                                          THEN NoTask ELSE once[d]
  BY DEF Guarded
<1>2. /\ once[0] = sel0
      /\ once[1] = IF sel1 = sel0 THEN NoTask ELSE sel1
  BY DEF Core
<1>3. once[c] = t /\ Guarded(s, sch)[Other(c)] \in {once[Other(c)], NoTask}
  <2>. HIDE DEF once
  <2>. QED
    BY <1>1 DEF Core, Other
<1>4. (sel0 = t => s[0] = t) /\ (sel1 = t => s[1] = t)
  OBVIOUS
<1>. HIDE DEF once, sel0, sel1
<1>. QED
  BY <1>2, <1>3, <1>4 DEF Core, Other

\* knl_smp_reschedule_all(): nothing is selected outside of its affinity.
LEMMA GuardsAffinity ==
    ASSUME NEW s, NEW sch, NEW t \in Task, NEW c \in Core, NoTask \notin Task,
           Guarded(s, sch)[c] = t
    PROVE  c \in Affinity[t]
BY DEF Guarded, Core

\* knl_ready_queue_assign() and the guards: what they select is in the queue.
LEMMA SelectedFromQueue ==
    ASSUME NEW q \in Seq(Task), NEW ctx, NEW sch, NEW dis, NEW on, NEW c \in Core
    PROVE  Guarded(Assign(q, ctx, sch, dis, on), sch)[c] \in Range(q) \cup {NoTask}
<1>. DEFINE mask == [u \in Task |-> CoreMask(u, ctx, sch, dis, on)]
            a == Candidate(q, mask, {})
            b == IF a = NoTask THEN NoTask ELSE Candidate(q, mask, {a})
            chosen == Assign(q, ctx, sch, dis, on)
<1>1. ASSUME NEW S PROVE Candidate(q, mask, S) \in Range(q) \cup {NoTask}
  <2>. DEFINE feasible == {i \in DOMAIN q : Feasible(S, q[i], mask)}
              first == {i \in feasible : \A j \in feasible : i <= j}
              k == CHOOSE i \in first : TRUE
  <2>1. CASE first = {}
    BY <2>1 DEF Candidate
  <2>2. CASE first # {}
    <3>1. Candidate(q, mask, S) = q[k]
      BY <2>2 DEF Candidate
    <3>2. k \in DOMAIN q
      BY <2>2
    <3>. HIDE DEF k
    <3>. QED
      BY <3>1, <3>2, InRange
  <2>. QED
    BY <2>1, <2>2
<1>2. a \in Range(q) \cup {NoTask} /\ b \in Range(q) \cup {NoTask}
  <2>. HIDE DEF mask
  <2>. QED
    BY <1>1
<1>3. chosen = AssignCores(a, b, mask)
  BY DEF Assign
<1>. HIDE DEF a, b, mask
<1>4. \A d \in Core : chosen[d] \in {a, b, NoTask}
  BY <1>3 DEF AssignCores
<1>5. \A d \in Core : chosen[d] \in Range(q) \cup {NoTask}
  BY <1>2, <1>4
<1>. HIDE DEF chosen
<1>6. Guarded(chosen, sch)[c] \in {chosen[0], chosen[1], NoTask}
  BY DEF Guarded, Core
<1>7. chosen[0] \in Range(q) \cup {NoTask} /\ chosen[1] \in Range(q) \cup {NoTask}
  BY <1>5 DEF Core
<1>. QED
  BY <1>6, <1>7 DEF chosen

\* The choice of a candidate: a feasible task of the queue, if there is one.
LEMMA CandidateIs ==
    ASSUME NEW q \in Seq(Task), NEW mask, NEW S, NoTask \notin Task,
           NEW t \in Range(q), Feasible(S, t, mask)
    PROVE  /\ Candidate(q, mask, S) \in Range(q)
           /\ Feasible(S, Candidate(q, mask, S), mask)
<1>. DEFINE feasible == {i \in DOMAIN q : Feasible(S, q[i], mask)}
            first == {i \in feasible : \A j \in feasible : i <= j}
            k == CHOOSE i \in first : TRUE
<1>1. feasible \in SUBSET Nat /\ feasible # {}
  BY InRange
<1>2. first # {}
  <2>. HIDE DEF feasible
  <2>. QED
    BY <1>1, NatMin
<1>3. Candidate(q, mask, S) = q[k]
  BY <1>2 DEF Candidate
<1>4. k \in DOMAIN q /\ Feasible(S, q[k], mask)
  <2>1. k \in first
    BY <1>2
  <2>. HIDE DEF k
  <2>. QED
    BY <2>1
<1>. HIDE DEF k
<1>. QED
  BY <1>3, <1>4, InRange

\* Hall's condition for one task, and for two with one processor each.
LEMMA HallOfOne ==
    ASSUME NEW mask, NEW t, NEW c, mask[t] = {c}
    PROVE  Feasible({}, t, mask)
<1>1. UNION {mask[u] : u \in {} \cup {t}} = {c}
  OBVIOUS
<1>2. Cardinality({c}) = 1 /\ Cardinality({}) = 0
  BY FS_Singleton, FS_EmptySet
<1>3. Cardinality(UNION {mask[u] : u \in {} \cup {t}}) > Cardinality({})
  BY <1>1, <1>2
<1>. QED
  BY <1>3 DEF Feasible

LEMMA HallOfTwo ==
    ASSUME NEW mask, NEW a, NEW t, NEW c, NEW d, mask[a] = {c}, mask[t] = {d}, a # t
    PROVE  Feasible({a}, t, mask) <=> c # d
<1>1. UNION {mask[u] : u \in {a} \cup {t}} = {c} \cup {d}
  OBVIOUS
<1>2. /\ IsFiniteSet({c}) /\ Cardinality({c}) = 1
      /\ Cardinality({a}) = 1
  BY FS_Singleton
<1>3. Cardinality({c} \cup {d}) = IF d \in {c} THEN Cardinality({c}) ELSE Cardinality({c}) + 1
  BY <1>2, FS_AddElement
<1>4. Cardinality(UNION {mask[u] : u \in {a} \cup {t}}) > Cardinality({a}) <=> c # d
  BY <1>1, <1>2, <1>3
<1>5. mask[t] # {} /\ t \notin {a}
  OBVIOUS
<1>. QED
  BY <1>4, <1>5 DEF Feasible

\* knl_assign_cores(): a candidate with one processor is placed there, if the
\* other candidate has another one.
LEMMA PinnedIsPlaced ==
    ASSUME NEW a, NEW b, NEW mask, NEW c \in Core, NEW d
    PROVE  /\ a # NoTask /\ mask[a] = {c} => AssignCores(a, b, mask)[c] = a
           /\ /\ a # NoTask /\ b # NoTask
              /\ mask[a] = {d} /\ d \in Core \ {c} /\ mask[b] = {c}
              => AssignCores(a, b, mask)[c] = b
<1>. DEFINE Pin(u) == u # NoTask /\ \E e \in Core : mask[u] = {e}
            Only(u) == CHOOSE e \in Core : mask[u] = {e}
            coreA == IF Pin(a) THEN Only(a)
                     ELSE IF Pin(b) THEN Other(Only(b)) ELSE 0
            coreB == IF Pin(b) THEN Only(b) ELSE Other(coreA)
<1>1. AssignCores(a, b, mask)[c] = IF a # NoTask /\ c = coreA THEN a
                                   ELSE IF b # NoTask /\ c = coreB THEN b
                                   ELSE NoTask
  BY DEF AssignCores
<1>2. ASSUME a # NoTask, mask[a] = {c} PROVE AssignCores(a, b, mask)[c] = a
  <2>1. Pin(a) /\ Only(a) = c
    BY <1>2
  <2>. QED
    BY <1>1, <1>2, <2>1
<1>3. ASSUME a # NoTask, b # NoTask, mask[a] = {d}, d \in Core \ {c}, mask[b] = {c}
      PROVE  AssignCores(a, b, mask)[c] = b
  <2>1. Pin(a) /\ Only(a) = d /\ Pin(b) /\ Only(b) = c
    BY <1>3
  <2>. QED
    BY <1>1, <1>3, <2>1
<1>. QED
  BY <1>2, <1>3

\* knl_ready_queue_assign(): the task of a processor that accepts no one else
\* is placed there again, whatever else is ready.
LEMMA OwnerIsPlaced ==
    ASSUME NEW q \in Seq(Task), NEW ctx, NEW sch, NEW dis, NEW on,
           NEW t \in Range(q), NEW c \in Core, NoTask \notin Task,
           CoreMask(t, ctx, sch, dis, on) = {c},
           \A u \in Task \ {t} : CoreMask(u, ctx, sch, dis, on) \subseteq {Other(c)}
    PROVE  Assign(q, ctx, sch, dis, on)[c] = t
<1>. DEFINE mask == [u \in Task |-> CoreMask(u, ctx, sch, dis, on)]
            a == Candidate(q, mask, {})
            b == IF a = NoTask THEN NoTask ELSE Candidate(q, mask, {a})
<1>1. Assign(q, ctx, sch, dis, on) = AssignCores(a, b, mask)
  BY DEF Assign
<1>2. t \in Task /\ Range(q) \subseteq Task
  BY InRange
<1>3. mask[t] = {c} /\ \A u \in Task \ {t} : mask[u] \subseteq {Other(c)}
  BY <1>2
<1>4. b = IF a = NoTask THEN NoTask ELSE Candidate(q, mask, {a})
  OBVIOUS
<1>5. a = Candidate(q, mask, {})
  OBVIOUS
<1>. HIDE DEF a, b, mask
<1>7. Feasible({}, t, mask)
  BY <1>3, HallOfOne
<1>8. a \in Range(q) /\ a # NoTask /\ Feasible({}, a, mask)
  BY <1>2, <1>5, <1>7, CandidateIs
<1>9. CASE a = t
  <2>1. mask[t] = {c} /\ t # NoTask
    BY <1>2, <1>3
  <2>. QED
    BY <1>1, <1>9, <2>1, PinnedIsPlaced
<1>10. CASE a # t
  <2>1. mask[a] = {Other(c)}
    BY <1>2, <1>3, <1>8, <1>10 DEF Feasible
  <2>2. Other(c) \in Core \ {c}
    BY DEF Core, Other
  <2>3. Feasible({a}, t, mask)
    BY <1>3, <1>10, <2>1, <2>2, HallOfTwo
  <2>4. b \in Range(q) /\ Feasible({a}, b, mask)
    BY <1>2, <1>4, <1>8, <2>3, CandidateIs
  <2>5. b = t
    <3>1. SUFFICES ASSUME b # t PROVE FALSE
      OBVIOUS
    <3>2. mask[b] = {Other(c)}
      BY <1>2, <1>3, <2>4, <3>1 DEF Feasible
    <3>3. a # b
      BY <2>4 DEF Feasible
    <3>. QED
      BY <2>1, <2>4, <3>2, <3>3, HallOfTwo, Zenon
  <2>6. mask[t] = {c} /\ t # NoTask /\ a # NoTask
    BY <1>2, <1>3, <1>8
  <2>. QED
    BY <1>1, <2>1, <2>2, <2>5, <2>6, PinnedIsPlaced
<1>. QED
  BY <1>9, <1>10

\* The guards leave a task where it is placed, if the other processor has not
\* been given it.
LEMMA GuardsPass ==
    ASSUME NEW s, NEW sch, NEW t, NEW c \in Core, t # NoTask,
           s[c] = t, s[Other(c)] # t, sch[Other(c)] # t, c \in Affinity[t]
    PROVE  Guarded(s, sch)[c] = t
BY DEF Guarded, Core, Other

\* knl_task_core_mask(), "A processor whose current task disabled dispatch
\* accepts no one else": and that task is selected for it again.
LEMMA KeepsDisabled ==
    ASSUME NEW q \in Seq(Task), NEW ctx, NEW sch, NEW dis, NEW on,
           NEW t \in Range(q), NEW c \in on, on \subseteq Core, NoTask \notin Task,
           ctx[c] = t, sch[c] = t, ctx[Other(c)] # t, sch[Other(c)] # t,
           dis[c] = DDS_DISABLE, c \in Affinity[t]
    PROVE  Guarded(Assign(q, ctx, sch, dis, on), sch)[c] = t
<1>0. c \in Core /\ Other(c) \in Core /\ Other(c) # c /\ \A d \in Core : d = c \/ d = Other(c)
  BY DEF Core, Other
<1>1. CoreMask(t, ctx, sch, dis, on) = {c}
  <2>1. {d \in Core : ctx[d] = t} = {c}
    BY <1>0
  <2>2. {d \in {c} : \A e \in {c} : d <= e} = {c}
    BY <1>0 DEF Core
  <2>. QED
    BY <2>1, <2>2 DEF CoreMask
<1>2. ASSUME NEW u \in Task \ {t} PROVE CoreMask(u, ctx, sch, dis, on) \subseteq {Other(c)}
  <2>1. c \notin CoreMask(u, ctx, sch, dis, on)
    BY <1>0 DEF CoreMask, DDS_DISABLE
  <2>2. CoreMask(u, ctx, sch, dis, on) \subseteq Core
    BY DEF CoreMask
  <2>. QED
    BY <1>0, <2>1, <2>2
<1>. DEFINE s == Assign(q, ctx, sch, dis, on)
<1>3. t \in Task
  BY InRange
<1>4. s[c] = t
  BY <1>0, <1>1, <1>2, OwnerIsPlaced
<1>5. s[Other(c)] # t
  BY <1>0, <1>1, <1>3, AssignInMask
<1>. HIDE DEF s
<1>6. Guarded(s, sch)[c] = t
  BY <1>0, <1>3, <1>4, <1>5, GuardsPass
<1>. QED
  BY <1>6 DEF s

-----------------------------------------------------------------------------
(***************************************************************************)
(* The inductive invariant.                                                *)
(***************************************************************************)
\* The stages of a call that are inside the kernel lock.
Locked == {"publish", "reserve", "leave", "abandon"}

\* The arrays have one element per core.
Shape ==
    /\ ctxtsk = [c \in Core |-> ctxtsk[c]]
    /\ schedtsk = [c \in Core |-> schedtsk[c]]
    /\ sel = [c \in Core |-> sel[c]]
    /\ pc = [c \in Core |-> pc[c]]
    /\ back = [c \in Core |-> back[c]]
    /\ online \in SUBSET Core
    /\ stale \in BOOLEAN

\* Whoever publishes holds the kernel lock.
PublisherLocks == \A c \in Core : pc[c] \in Locked => lock = c

\* A call continues outside of the lock, unless it does not return.
ReturnsOutside ==
    \A c \in Core : /\ back[c] \notin Locked \ {"abandon"}
                    /\ pc[c] \in {"reserve", "leave", "check"} => back[c] # "abandon"

\* A processor that is not online has been given nothing.
OfflineEmpty == \A c \in Core : c \notin online => schedtsk[c] = NoTask

\* A selection in the hands of a publisher has every task once.
SelectedOnce ==
    \A t \in Task, p, c \in Core :
      pc[p] = "publish" /\ sel[p][c] = t => sel[p][Other(c)] # t

\* A task one processor executes is not published to the other one.
CurrentIsOwned ==
    ~stale => \A t \in Task, c \in Core :
                ctxtsk[c] = t => ctxtsk[Other(c)] # t /\ schedtsk[Other(c)] # t

\* A selection in the hands of a publisher moves no owned task.
SelectionRespectsOwners ==
    ~stale => \A t \in Task, p, c \in Core :
                /\ pc[p] = "publish"
                /\ ctxtsk[c] = t \/ schedtsk[c] = t
                => sel[p][Other(c)] # t

\* OnePublication, and what it takes to keep it and the ownership of tasks.
Ownership ==
    /\ Shape
    /\ PublisherLocks
    /\ ReturnsOutside
    /\ OfflineEmpty
    /\ OnePublication
    /\ SelectedOnce
    /\ CurrentIsOwned
    /\ SelectionRespectsOwners

\* Initially the initial task is published to processor 0, and nothing else.
LEMMA InitOwnership == Init => Ownership
<1>. SUFFICES ASSUME Init PROVE Ownership
  OBVIOUS
<1>1. /\ schedtsk = [c \in Core |-> IF c = 0 THEN InitTask ELSE NoTask]
      /\ ctxtsk = [c \in Core |-> NoTask]
      /\ pc = [c \in Core |-> IF c = 0 THEN "run" ELSE "boot"]
      /\ back = [c \in Core |-> "run"]
      /\ sel = [c \in Core |-> Empty]
      /\ online = {0} /\ stale = FALSE
  BY DEF Init, Empty, Core
<1>2. Shape
  <2>. HIDE DEF Empty
  <2>. QED
    BY <1>1 DEF Shape, Core
<1>3. PublisherLocks /\ ReturnsOutside /\ SelectedOnce /\ SelectionRespectsOwners
  BY <1>1 DEF PublisherLocks, ReturnsOutside, Locked, SelectedOnce, SelectionRespectsOwners, Core
<1>4. OfflineEmpty /\ OnePublication /\ CurrentIsOwned
  BY <1>1, TaskAssumption DEF OfflineEmpty, OnePublication, CurrentIsOwned, Core, Other
<1>. QED
  BY <1>2, <1>3, <1>4 DEF Ownership

\* There are two cores.
LEMMA TwoCores == \A c \in Core : Other(c) \in Core /\ Other(c) # c /\ Other(Other(c)) = c
BY DEF Core, Other

\* knl_task_core_mask() of a task somebody owns is its owner.
LEMMA OwnerMask ==
    ASSUME Ownership, ~stale, NEW t \in Task, NEW c \in Core, NEW dis,
           ctxtsk[c] = t \/ schedtsk[c] = t
    PROVE  Other(c) \notin CoreMask(t, ctxtsk, schedtsk, dis, online)
<1>1. ctxtsk[Other(c)] # t
  BY TwoCores DEF Ownership, CurrentIsOwned
<1>2. schedtsk[Other(c)] # t
  BY TwoCores DEF Ownership, CurrentIsOwned, OnePublication, Core, Other
<1>. QED
  BY <1>1, <1>2 DEF CoreMask, Core, Other

\* What a call selects is in order, and moves no owned task.
LEMMA SelectSound ==
    ASSUME Ownership, NEW p \in Core, Select(p)
    PROVE  /\ sel' = [c \in Core |-> sel'[c]]
           /\ \A t \in Task, c \in Core :
                /\ sel'[p][c] = t => sel'[p][Other(c)] # t
                /\ ~stale /\ (ctxtsk[c] = t \/ schedtsk[c] = t) => sel'[p][Other(c)] # t
<1>. DEFINE chosen == Assign(rq', ctxtsk, schedtsk, disd', online)
<1>1. sel' = [sel EXCEPT ![p] = Guarded(chosen, schedtsk)]
  BY DEF Select
<1>2. sel' = [c \in Core |-> sel'[c]] /\ sel'[p] = Guarded(chosen, schedtsk)
  <2>. HIDE DEF chosen
  <2>. QED
    BY <1>1 DEF Ownership, Shape
<1>3. ASSUME NEW t \in Task, NEW c \in Core, Guarded(chosen, schedtsk)[c] = t
      PROVE  chosen[c] = t /\ Guarded(chosen, schedtsk)[Other(c)] # t
  <2>. HIDE DEF chosen
  <2>. QED
    BY <1>3, GuardsOnlyDrop, TaskAssumption
<1>4. ASSUME NEW t \in Task, NEW c \in Core, chosen[c] = t
      PROVE  c \in CoreMask(t, ctxtsk, schedtsk, disd', online)
  BY <1>4, AssignInMask, TaskAssumption DEF Ownership, Shape
<1>5. ASSUME NEW t \in Task, NEW c \in Core, ~stale,
             ctxtsk[c] = t \/ schedtsk[c] = t,
             Guarded(chosen, schedtsk)[Other(c)] = t
      PROVE  FALSE
  <2>1. Other(c) \in CoreMask(t, ctxtsk, schedtsk, disd', online)
    <3>. HIDE DEF chosen
    <3>. QED
      BY <1>3, <1>4, <1>5, TwoCores
  <2>. QED
    BY <1>5, <2>1, OwnerMask
<1>. HIDE DEF chosen
<1>. QED
  BY <1>2, <1>3, <1>5

-----------------------------------------------------------------------------
(***************************************************************************)
(* The steps, by what they do to the slots.                                *)
(***************************************************************************)
\* A call opens its critical section; it may select, or leave the slots alone.
LEMMA CallKeeps ==
    ASSUME Ownership, NEW p \in Core, NEW x, NEW y,
           lock = NoCore, lock' = p,
           pc' = [pc EXCEPT ![p] = x],
           back' = [back EXCEPT ![p] = y],
           y \notin Locked \/ (y = "abandon" /\ x \in {"publish", "abandon"}),
           UNCHANGED <<ctxtsk, schedtsk, online, stale>>,
           \/ x = "publish" /\ Select(p)
           \/ x # "publish" /\ sel' = sel
    PROVE  Ownership'
<1>1. \A c \in Core : pc[c] \notin Locked
  BY SchedAssumption DEF Ownership, PublisherLocks
<1>2. \A c \in Core : pc'[c] = IF c = p THEN x ELSE pc[c]
  BY DEF Ownership, Shape
<1>3. \A c \in Core : pc'[c] = "publish" => c = p /\ x = "publish"
  BY <1>1, <1>2 DEF Locked
<1>4. Shape'
  <2>1. sel' = [c \in Core |-> sel'[c]]
    BY SelectSound DEF Ownership, Shape
  <2>2. pc' = [c \in Core |-> pc'[c]] /\ back' = [c \in Core |-> back'[c]]
    BY DEF Ownership, Shape
  <2>. QED
    BY <2>1, <2>2 DEF Ownership, Shape
<1>5. PublisherLocks' /\ ReturnsOutside'
  <2>1. \A c \in Core : back'[c] = IF c = p THEN y ELSE back[c]
    BY DEF Ownership, Shape
  <2>2. ReturnsOutside'
    BY <1>2, <2>1 DEF Ownership, ReturnsOutside, Locked
  <2>3. PublisherLocks'
    BY <1>1, <1>2 DEF PublisherLocks
  <2>. QED
    BY <2>2, <2>3
<1>6. OfflineEmpty' /\ OnePublication' /\ CurrentIsOwned'
  BY DEF Ownership, OfflineEmpty, OnePublication, CurrentIsOwned
<1>7. SelectedOnce'
  BY <1>3, SelectSound DEF SelectedOnce
<1>8. SelectionRespectsOwners'
  BY <1>3, SelectSound DEF SelectionRespectsOwners
<1>. QED
  BY <1>4, <1>5, <1>6, <1>7, <1>8 DEF Ownership

\* A step that gives nothing to a processor: within a call, at its end, and
\* in the dispatcher, which may clear the current task.
LEMMA QuietKeeps ==
    ASSUME Ownership, NEW p \in Core, NEW x,
           x # "publish",
           x \in {"reserve", "leave", "check"} => back[p] # "abandon",
           \/ x \notin Locked /\ lock' = lock /\ pc[p] \notin Locked
           \/ x \notin Locked /\ lock' = NoCore /\ pc[p] \in Locked
           \/ lock' = lock /\ pc[p] \in Locked,
           pc' = [pc EXCEPT ![p] = x],
           ctxtsk' = ctxtsk \/ ctxtsk' = [ctxtsk EXCEPT ![p] = NoTask],
           UNCHANGED <<schedtsk, sel, back, online, stale>>
    PROVE  Ownership'
<1>1. \A c \in Core : pc'[c] = IF c = p THEN x ELSE pc[c]
  BY DEF Ownership, Shape
<1>2. \A c \in Core : ctxtsk'[c] \in {ctxtsk[c], NoTask}
  BY DEF Ownership, Shape
<1>3. Shape'
  <2>1. pc' = [c \in Core |-> pc'[c]]
    BY DEF Ownership, Shape
  <2>2. ctxtsk' = [c \in Core |-> ctxtsk'[c]]
    BY DEF Ownership, Shape
  <2>. QED
    BY <2>1, <2>2 DEF Ownership, Shape
<1>4. PublisherLocks' /\ ReturnsOutside'
  BY <1>1 DEF Ownership, PublisherLocks, ReturnsOutside
<1>5. OfflineEmpty' /\ OnePublication' /\ SelectedOnce'
  BY <1>1 DEF Ownership, OfflineEmpty, OnePublication, SelectedOnce
<1>6. CurrentIsOwned'
  BY <1>2, TaskAssumption DEF Ownership, CurrentIsOwned, Core, Other
<1>7. SelectionRespectsOwners'
  BY <1>1, <1>2, TaskAssumption DEF Ownership, SelectionRespectsOwners
<1>. QED
  BY <1>3, <1>4, <1>5, <1>6, <1>7 DEF Ownership

\* The publication: the publisher is the only one, and his selection is in
\* order.
LEMMA PublishKeeps ==
    ASSUME Ownership, NEW p \in Core, Publish(p)
    PROVE  Ownership'
<1>. DEFINE x == IF back[p] = "abandon" THEN "abandon" ELSE "leave"
<1>1. /\ pc[p] = "publish"
      /\ schedtsk' = [d \in Core |-> IF d \in online THEN sel[p][d] ELSE schedtsk[d]]
      /\ pc' = [pc EXCEPT ![p] = x]
      /\ sel' = [sel EXCEPT ![p] = Empty]
      /\ UNCHANGED <<ctxtsk, back, online, lock, stale>>
  BY DEF Publish, disp
<1>2. \A c \in Core : pc'[c] = IF c = p THEN x ELSE pc[c]
  BY <1>1 DEF Ownership, Shape
<1>3. lock = p /\ \A c \in Core : pc'[c] # "publish"
  BY <1>1, <1>2 DEF Ownership, PublisherLocks, Locked
<1>4. \A c \in Core : schedtsk'[c] \in {sel[p][c], NoTask}
  BY <1>1 DEF Ownership, OfflineEmpty
<1>5. Shape'
  <2>1. pc' = [c \in Core |-> pc'[c]]
    BY <1>1 DEF Ownership, Shape
  <2>2. sel' = [c \in Core |-> sel'[c]]
    BY <1>1 DEF Ownership, Shape
  <2>3. schedtsk' = [c \in Core |-> schedtsk'[c]]
    BY <1>1
  <2>. QED
    BY <1>1, <2>1, <2>2, <2>3 DEF Ownership, Shape
<1>6. PublisherLocks' /\ ReturnsOutside'
  BY <1>1, <1>2, <1>3 DEF Ownership, PublisherLocks, ReturnsOutside
<1>7. OfflineEmpty'
  BY <1>1 DEF Ownership, OfflineEmpty
<1>8. OnePublication'
  BY <1>1, <1>4, TaskAssumption DEF Ownership, SelectedOnce, OnePublication, Core, Other
<1>9. CurrentIsOwned'
  BY <1>1, <1>4, TwoCores, TaskAssumption
  DEF Ownership, CurrentIsOwned, SelectionRespectsOwners
<1>10. SelectedOnce' /\ SelectionRespectsOwners'
  BY <1>3 DEF SelectedOnce, SelectionRespectsOwners
<1>. QED
  BY <1>5, <1>6, <1>7, <1>8, <1>9, <1>10 DEF Ownership

\* The dispatcher installs what it loaded: if the slot still holds it, the
\* processor owned it already.
LEMMA StoreKeeps ==
    ASSUME Ownership, NEW p \in Core, Store(p)
    PROVE  Ownership'
<1>1. /\ pc[p] = "store" /\ pc' = [pc EXCEPT ![p] = "run"]
      /\ ctxtsk' = [ctxtsk EXCEPT ![p] = r7[p]]
      /\ stale' = (stale \/ (r7[p] \in Task /\ schedtsk[p] # r7[p]))
      /\ UNCHANGED <<schedtsk, back, online, lock, sel>>
  BY DEF Store, Goes
<1>2. /\ \A c \in Core : pc'[c] = IF c = p THEN "run" ELSE pc[c]
      /\ \A c \in Core : ctxtsk'[c] = IF c = p THEN r7[p] ELSE ctxtsk[c]
  BY <1>1 DEF Ownership, Shape
<1>3. Shape'
  <2>1. pc' = [c \in Core |-> pc'[c]]
    BY <1>1 DEF Ownership, Shape
  <2>2. ctxtsk' = [c \in Core |-> ctxtsk'[c]]
    BY <1>1 DEF Ownership, Shape
  <2>3. stale' \in BOOLEAN
    BY <1>1
  <2>. QED
    BY <1>1, <2>1, <2>2, <2>3 DEF Ownership, Shape
<1>4. PublisherLocks' /\ ReturnsOutside'
  BY <1>1, <1>2 DEF Ownership, PublisherLocks, ReturnsOutside, Locked
<1>5. OfflineEmpty' /\ OnePublication' /\ SelectedOnce'
  BY <1>1, <1>2 DEF Ownership, OfflineEmpty, OnePublication, SelectedOnce
<1>6. ASSUME ~stale'
      PROVE  ~stale /\ \A t \in Task, c \in Core :
               ctxtsk'[c] = t => ctxtsk[c] = t \/ schedtsk[c] = t
  BY <1>1, <1>2, <1>6
<1>7. CurrentIsOwned'
  <2>. SUFFICES ASSUME ~stale', NEW t \in Task, NEW c \in Core, ctxtsk'[c] = t
                PROVE  ctxtsk'[Other(c)] # t /\ schedtsk[Other(c)] # t
    BY <1>1 DEF CurrentIsOwned
  <2>1. schedtsk[Other(c)] # t
    BY <1>6, TwoCores DEF Ownership, CurrentIsOwned, OnePublication, Core, Other
  <2>2. ctxtsk'[Other(c)] # t
    <3>. SUFFICES ASSUME ctxtsk'[Other(c)] = t PROVE FALSE
      OBVIOUS
    <3>1. ctxtsk[Other(c)] = t
      BY <1>6, <2>1, TwoCores
    <3>2. ctxtsk[c] # t /\ schedtsk[c] # t
      BY <1>6, <3>1, TwoCores DEF Ownership, CurrentIsOwned
    <3>. QED
      BY <1>6, <3>2
  <2>. QED
    BY <2>1, <2>2
<1>8. SelectionRespectsOwners'
  BY <1>1, <1>2, <1>6 DEF Ownership, SelectionRespectsOwners
<1>. QED
  BY <1>3, <1>4, <1>5, <1>7, <1>8 DEF Ownership

\* Steps that touch neither the slots nor the stage of a processor.
LEMMA IdleKeeps ==
    ASSUME Ownership, UNCHANGED <<ctxtsk, schedtsk, sel, pc, back, lock, stale>>,
           online' \in {online, Core}
    PROVE  Ownership'
<1>1. Shape'
  BY DEF Ownership, Shape
<1>2. OfflineEmpty'
  BY DEF Ownership, Shape, OfflineEmpty
<1>3. PublisherLocks' /\ ReturnsOutside'
  BY DEF Ownership, PublisherLocks, ReturnsOutside
<1>4. OnePublication' /\ SelectedOnce'
  BY DEF Ownership, OnePublication, SelectedOnce
<1>5. CurrentIsOwned' /\ SelectionRespectsOwners'
  BY DEF Ownership, CurrentIsOwned, SelectionRespectsOwners
<1>. QED
  BY <1>1, <1>2, <1>3, <1>4, <1>5 DEF Ownership

\* A call that reschedules.
LEMMA ReschedulesKeeps ==
    ASSUME Ownership, NEW c \in Core, NEW by, Enter(c, by), Reschedules(c)
    PROVE  Ownership'
BY CallKeeps DEF Enter, Reschedules, AtCall, InTask, Locked, disp

\* A call that leaves the selections alone.
LEMMA ReturnsKeeps ==
    ASSUME Ownership, NEW c \in Core, NEW by, Enter(c, by), Returns(c)
    PROVE  Ownership'
BY CallKeeps DEF Enter, Returns, AtCall, InTask, Locked, disp

\* A call that ends in knl_force_dispatch().
LEMMA NeverReturnsKeeps ==
    ASSUME Ownership, NEW c \in Core, NEW by, NEW r \in BOOLEAN,
           Enter(c, by), NeverReturns(c, r)
    PROVE  Ownership'
BY CallKeeps DEF Enter, NeverReturns, Locked, disp

\* The calls that a task or a handler makes.
LEMMA CallByKeeps ==
    ASSUME Ownership, NEW c \in Core, NEW by, CallBy(c, by)
    PROVE  Ownership'
<1>1. CASE NoEffect(c, by)
  BY <1>1, ReturnsKeeps DEF NoEffect
<1>2. ASSUME NEW t \in Task, tk_cre_tsk(c, by, t) PROVE Ownership'
  BY <1>2, ReturnsKeeps DEF tk_cre_tsk
<1>3. ASSUME NEW t \in Task, tk_del_tsk(c, by, t) PROVE Ownership'
  <2>1. CASE Returns(c)
    BY <1>3, <2>1, ReturnsKeeps DEF tk_del_tsk
  <2>2. CASE /\ pc' = [pc EXCEPT ![c] = "reserve"]
             /\ back' = [back EXCEPT ![c] = pc[c]]
             /\ UNCHANGED <<sel, ctxtsk, schedtsk, online, disp>>
    BY <1>3, <2>2, CallKeeps DEF tk_del_tsk, Enter, AtCall, InTask, Locked, disp
  <2>. QED
    BY <1>3, <2>1, <2>2 DEF tk_del_tsk
<1>4. ASSUME NEW t \in Task, tk_ter_tsk(c, by, t) PROVE Ownership'
  BY <1>4, ReschedulesKeeps, ReturnsKeeps DEF tk_ter_tsk
<1>5. ASSUME NEW t \in Task, tk_sus_tsk(c, by, t) PROVE Ownership'
  BY <1>5, ReschedulesKeeps, ReturnsKeeps DEF tk_sus_tsk, MakeNonReady
<1>6. ASSUME NEW t \in Task, tk_rsm_tsk(c, by, t) PROVE Ownership'
  BY <1>6, ReschedulesKeeps, ReturnsKeeps DEF tk_rsm_tsk, MakeReady
<1>7. ASSUME NEW t \in Task, tk_wup_tsk(c, by, t) PROVE Ownership'
  BY <1>7, ReschedulesKeeps, ReturnsKeeps DEF tk_wup_tsk, MakeNonWait, MakeReady
<1>8. ASSUME NEW t \in Task, tk_can_wup(c, by, t) PROVE Ownership'
  BY <1>8, ReturnsKeeps DEF tk_can_wup
<1>9. ASSUME NEW t \in Task, ReleaseWait(c, by, t) PROVE Ownership'
  BY <1>9, ReschedulesKeeps, ReturnsKeeps DEF ReleaseWait, MakeNonWait, MakeReady
<1>10. ASSUME NEW t \in Task, NEW p \in Pri, tk_chg_pri(c, by, t, p) PROVE Ownership'
  BY <1>10, ReschedulesKeeps, ReturnsKeeps DEF tk_chg_pri
<1>11. ASSUME NEW p \in Pri, tk_rot_rdq(c, by, p) PROVE Ownership'
  BY <1>11, ReschedulesKeeps DEF tk_rot_rdq
<1>. QED
  BY <1>1, <1>2, <1>3, <1>4, <1>4, <1>5, <1>6, <1>7, <1>8, <1>9, <1>10, <1>11
  DEF CallBy

\* The calls only a task makes.
LEMMA CallByTaskKeeps ==
    ASSUME Ownership, NEW c \in Core, CallByTask(c)
    PROVE  Ownership'
<1>1. CASE tk_ext_tsk(c)
  BY <1>1, NeverReturnsKeeps DEF tk_ext_tsk
<1>2. CASE tk_exd_tsk(c)
  BY <1>2, NeverReturnsKeeps DEF tk_exd_tsk
<1>3. CASE tk_slp_tsk(c)
  BY <1>3, ReschedulesKeeps, ReturnsKeeps DEF tk_slp_tsk, MakeWait, MakeNonReady
<1>4. CASE tk_dly_tsk(c)
  BY <1>4, ReschedulesKeeps, ReturnsKeeps DEF tk_dly_tsk, MakeWait, MakeNonReady
<1>5. CASE CaughtDead(c)
  BY <1>5, IdleKeeps DEF CaughtDead, disp
<1>. QED
  BY <1>1, <1>2, <1>3, <1>4, <1>5 DEF CallByTask

\* Dispatch control, whichever slot it writes.
LEMMA DispatchControlKeeps ==
    ASSUME Ownership, NEW c \in Core, DispatchControl(c)
    PROVE  Ownership'
<1>1. CASE knl_dispatch_disabled_slot(c)
  BY <1>1, IdleKeeps DEF knl_dispatch_disabled_slot, system, slots, disp
<1>2. CASE tk_dis_dsp(c)
  BY <1>2, IdleKeeps DEF tk_dis_dsp, Writes, disp
<1>3. CASE tk_ena_dsp(c)
  BY <1>3, IdleKeeps DEF tk_ena_dsp, Writes, disp
<1>. QED
  BY <1>1, <1>2, <1>3 DEF DispatchControl

\* The rest of a call.
LEMMA EndOfCallKeeps ==
    ASSUME Ownership, NEW c \in Core, EndOfCall(c)
    PROVE  Ownership'
<1>0. /\ back[c] \notin Locked \ {"abandon"}
      /\ pc[c] \in {"reserve", "leave", "check"} => back[c] # "abandon"
  BY DEF Ownership, ReturnsOutside
<1>1. CASE Publish(c)
  BY <1>1, PublishKeeps
<1>2. CASE Reserve(c)
  BY <1>0, <1>2, QuietKeeps DEF Reserve, Locked, slots, disp
<1>3. CASE Leave(c)
  BY <1>0, <1>3, QuietKeeps DEF Leave, Locked, slots, disp
<1>4. CASE Check(c)
  BY <1>0, <1>4, QuietKeeps DEF Check, Locked, slots, disp
<1>5. CASE Abandon(c)
  BY <1>0, <1>5, QuietKeeps DEF Abandon, Locked, disp
<1>. QED
  BY <1>1, <1>2, <1>3, <1>4, <1>5 DEF EndOfCall

\* The dispatcher.
LEMMA DispatchKeeps ==
    ASSUME Ownership, NEW c \in Core, Dispatch(c)
    PROVE  Ownership'
<1>1. CASE StartDispatch(c)
  BY <1>1, QuietKeeps DEF StartDispatch, Goes, Locked, disp
<1>2. CASE Save(c)
  BY <1>2, QuietKeeps DEF Save, Goes, Locked
<1>3. CASE Release(c)
  BY <1>3, QuietKeeps DEF Release, Goes, Locked, disp
<1>4. CASE Reclaim(c)
  BY <1>4, QuietKeeps DEF Reclaim, Goes, Locked, disp
<1>5. CASE Load(c)
  BY <1>5, QuietKeeps DEF Load, Goes, Locked
<1>6. CASE Store(c)
  BY <1>6, StoreKeeps
<1>. QED
  BY <1>1, <1>2, <1>3, <1>4, <1>5, <1>6 DEF Dispatch

\* Every step of the system.
LEMMA NextKeeps == Ownership /\ [Next]_vars => Ownership'
<1>. SUFFICES ASSUME Ownership, [Next]_vars PROVE Ownership'
  OBVIOUS
<1>1. ASSUME NEW c \in Core, CallByTask(c) PROVE Ownership'
  BY <1>1, CallByTaskKeeps
<1>2. ASSUME NEW c \in Core, EndOfCall(c) PROVE Ownership'
  BY <1>2, EndOfCallKeeps
<1>3. ASSUME NEW c \in Core, Dispatch(c) PROVE Ownership'
  BY <1>3, DispatchKeeps
<1>4. ASSUME NEW c \in Core, TakeIpi(c) PROVE Ownership'
  BY <1>4, QuietKeeps DEF TakeIpi, Goes, Locked, disp
<1>5. ASSUME NEW c \in Core, NEW by, CallBy(c, by) PROVE Ownership'
  BY <1>5, CallByKeeps
<1>6. CASE Announce
  BY <1>6, QuietKeeps DEF Announce, Goes, Locked, disp, Core
<1>7. CASE StartCore1
  BY <1>7, QuietKeeps DEF StartCore1, Goes, Locked, disp, Core
<1>8. CASE GoOnline
  BY <1>8, IdleKeeps DEF GoOnline, disp
<1>9. ASSUME NEW c \in Core, NEW by, NEW t \in Task, tk_sta_tsk(c, by, t) PROVE Ownership'
  BY <1>9, ReschedulesKeeps DEF tk_sta_tsk
<1>10. ASSUME NEW c \in Core, DispatchControl(c) PROVE Ownership'
  BY <1>10, DispatchControlKeeps
<1>11. CASE UNCHANGED vars
  BY <1>11, IdleKeeps DEF vars, system, slots, disp
<1>. QED
  BY <1>1, <1>2, <1>3, <1>4, <1>5, <1>6, <1>7, <1>8, <1>9, <1>10, <1>11 DEF Next, Step

-----------------------------------------------------------------------------
\* The ownership invariant that the comments of knl_task_core_mask() argue
\* for holds in every reachable state.
THEOREM OwnershipInvariant == Spec => []Ownership
BY InitOwnership, NextKeeps, PTL DEF Spec

\* knl_smp_reschedule_all() never publishes a task to both processors.
THEOREM PublishedOnce == Spec => []OnePublication
<1>1. Ownership => OnePublication
  BY DEF Ownership
<1>. QED
  BY <1>1, OwnershipInvariant, PTL

\* As long as no dispatcher has installed a task after its slot changed, no
\* task is current on two processors (knl_smp_dispatch_audit()).
THEOREM CurrentOnce == Spec => []OwnedUnlessStale
<1>1. Ownership => OwnedUnlessStale
  BY DEF Ownership, CurrentIsOwned, OwnedUnlessStale, NoTaskOnTwoCores, Core, Other
<1>. QED
  BY <1>1, OwnershipInvariant, PTL

-----------------------------------------------------------------------------
(***************************************************************************)
(* The state of tasks: between critical sections the ready queue holds the *)
(* READY tasks, in order, and what is published is among them; suspension  *)
(* requests and wakeups are counted; a free control block is unused.       *)
(*                                                                         *)
(* State and ready queue change in the same step, so that they agree at    *)
(* all times (Data).  What is published may have left the queue while a    *)
(* call is between its selection and the publication, and only then; that  *)
(* the selection still comes from the queue when it is published is due to *)
(* the kernel lock (Control, with Ownership).                              *)
(***************************************************************************)
TcbTypes ==
    /\ state \in [Task -> State]
    /\ pri \in [Task -> Pri]
    /\ slp \in [Task -> BOOLEAN]
    /\ sus \in [Task -> 0 .. MaxSus]
    /\ wup \in [Task -> 0 .. MaxWup]
    /\ stkfree \in [Task -> BOOLEAN]
    /\ free \subseteq Task
    /\ victim \in Slot

CoreTypes ==
    /\ ctxtsk \in [Core -> Slot \cup {Idle}]
    /\ schedtsk \in [Core -> Slot]
    /\ disd \in [Core -> {DDS_ENABLE, DDS_DISABLE_IMPLICIT, DDS_DISABLE}]
    /\ online \subseteq Core
    /\ pendsv \in [Core -> BOOLEAN]
    /\ ipi \in [Core -> BOOLEAN]
    /\ lock \in Core \cup {NoCore}
    /\ pc \in [Core -> {"boot", "ready", "run"} \cup InCall \cup Dispatcher]
    /\ back \in [Core -> {"run", "save", "release", "load", "abandon"}]
    /\ sel \in [Core -> [Core -> Slot]]
    /\ out \in [Core -> Slot \cup {Idle}]
    /\ r7 \in [Core -> Slot \cup {Idle}]
    /\ stale \in BOOLEAN
    /\ \A c \in Core : pc[c] = "reclaim" => out[c] \in Task

DspTypes ==
    /\ slot \in [Task -> Core \cup {NoCore}]
    /\ astray \in BOOLEAN

\* The ready queue and the states of the tasks agree.
Queue ==
    /\ rq \in Seq(Task)
    /\ Range(rq) = {t \in Task : state[t] = "READY"}
    /\ OrderedBy(rq, pri)

\* A control block that is free, or to be reclaimed, has no task; the counts
\* of the other ones agree with their states.
Tcb(t) ==
    /\ stkfree[t] => state[t] = "NONEXIST"
    /\ t \in free => state[t] = "NONEXIST"
    /\ state[t] # "NONEXIST" => (sus[t] > 0 <=> state[t] \in {"SUSPEND", "WAITSUS"})
    /\ slp[t] /\ state[t] \in Waiting => wup[t] = 0

Data == TcbTypes /\ Queue /\ \A t \in Task : Tcb(t)

\* tk_del_tsk() has found its task dormant, and it stays so.
VictimDormant == \A c \in Core : pc[c] = "reserve" => victim \in Task /\ state[victim] = "DORMANT"

\* What is about to be published is ready.
SelectionQueued ==
    \A p, c \in Core : pc[p] = "publish" => sel[p][c] \in Range(rq) \cup {NoTask}

\* What is published is ready, unless its successor is about to be published.
PublishedQueued ==
    \A c \in Core : \/ schedtsk[c] \in Range(rq) \cup {NoTask}
                    \/ \E p \in Core : pc[p] = "publish"

FreeUnpublished == \A t \in free, c \in Core : schedtsk[c] # t

FreeNotCurrent == ~stale => \A t \in free : ~IsCtx(t)

Control ==
    VictimDormant /\ SelectionQueued /\ PublishedQueued /\ FreeUnpublished /\ FreeNotCurrent

StateInv == Data /\ CoreTypes /\ Control /\ DspTypes


-----------------------------------------------------------------------------
(***************************************************************************)
(* The tasks and the queue.                                                *)
(***************************************************************************)
\* A step that changes the control block of t, and puts t into the queue or
\* takes it out as its state demands.
LEMMA OneTaskKeeps ==
    ASSUME Data, TcbTypes', NEW t \in Task, Tcb(t)',
           \A u \in Task \ {t} :
             /\ state'[u] = state[u] /\ pri'[u] = pri[u] /\ slp'[u] = slp[u]
             /\ sus'[u] = sus[u] /\ wup'[u] = wup[u] /\ stkfree'[u] = stkfree[u]
             /\ u \in free' <=> u \in free,
           \/ rq' = rq /\ state[t] # "READY" /\ state'[t] # "READY"
           \/ rq' = rq /\ state'[t] = state[t] /\ pri'[t] = pri[t]
           \/ rq' = ReadyDelete(rq, t) /\ state'[t] # "READY"
           \/ /\ rq' = ReadyInsert(rq, pri, t) /\ pri' = pri
              /\ state[t] # "READY" /\ state'[t] = "READY"
           \/ /\ rq' = ReadyInsert(ReadyDelete(rq, t), pri', t)
              /\ state[t] = "READY" /\ state'[t] = "READY"
    PROVE  Data'
<1>1. \A u \in Task : Tcb(u)'
  BY DEF Data, Tcb
<1>2. /\ rq \in Seq(Task) /\ OrderedBy(rq, pri)
      /\ Range(rq) = {u \in Task : state[u] = "READY"}
  BY DEF Data, Queue
<1>3. pri \in [Task -> Nat] /\ pri' \in [Task -> Nat]
  BY SchedAssumption DEF Data, TcbTypes
<1>. DEFINE less == ReadyDelete(rq, t)
<1>4. less \in Seq(Task) /\ Range(less) = Range(rq) \ {t} /\ OrderedBy(less, pri)
  BY <1>2, DeleteKeeps
<1>5. OrderedBy(less, pri')
  <2>1. \A u \in Range(less) : pri[u] = pri'[u]
    BY <1>2, <1>4
  <2>. HIDE DEF less
  <2>. QED
    BY <1>4, <2>1, OrderedByItsTasks
<1>. HIDE DEF less
<1>6. CASE rq' = rq /\ state[t] # "READY" /\ state'[t] # "READY"
  <2>1. \A u \in Range(rq) : pri[u] = pri'[u]
    BY <1>2, <1>6
  <2>2. OrderedBy(rq, pri')
    BY <1>2, <2>1, OrderedByItsTasks
  <2>3. Range(rq') = {u \in Task : state'[u] = "READY"}
    BY <1>2, <1>6
  <2>. QED
    BY <1>1, <1>2, <1>6, <2>2, <2>3 DEF Data, Queue
<1>7. CASE rq' = rq /\ state'[t] = state[t] /\ pri'[t] = pri[t]
  <2>1. \A u \in Range(rq) : pri[u] = pri'[u]
    BY <1>2, <1>7
  <2>2. OrderedBy(rq, pri')
    BY <1>2, <2>1, OrderedByItsTasks
  <2>3. Range(rq') = {u \in Task : state'[u] = "READY"}
    BY <1>2, <1>7
  <2>. QED
    BY <1>1, <1>2, <1>7, <2>2, <2>3 DEF Data, Queue
<1>8. CASE rq' = ReadyDelete(rq, t) /\ state'[t] # "READY"
  <2>1. rq' = less
    BY <1>8 DEF less
  <2>2. Range(rq') = {u \in Task : state'[u] = "READY"}
    BY <1>2, <1>4, <1>8, <2>1
  <2>. QED
    BY <1>1, <1>4, <1>5, <2>1, <2>2 DEF Data, Queue
<1>9. CASE /\ rq' = ReadyInsert(rq, pri, t) /\ pri' = pri
           /\ state[t] # "READY" /\ state'[t] = "READY"
  <2>. DEFINE more == ReadyInsert(rq, pri, t)
  <2>1. t \in Task \ Range(rq)
    BY <1>2, <1>9
  <2>2. more \in Seq(Task) /\ Range(more) = Range(rq) \cup {t} /\ OrderedBy(more, pri)
    BY <1>2, <1>3, <2>1, InsertKeeps
  <2>3. rq' = more
    BY <1>9
  <2>. HIDE DEF more
  <2>4. Range(rq') = {u \in Task : state'[u] = "READY"}
    BY <1>2, <1>9, <2>2, <2>3
  <2>. QED
    BY <1>1, <1>9, <2>2, <2>3, <2>4 DEF Data, Queue
<1>10. CASE /\ rq' = ReadyInsert(ReadyDelete(rq, t), pri', t)
            /\ state[t] = "READY" /\ state'[t] = "READY"
  <2>. DEFINE more == ReadyInsert(less, pri', t)
  <2>1. t \in Task \ Range(less)
    BY <1>4
  <2>2. more \in Seq(Task) /\ Range(more) = Range(less) \cup {t} /\ OrderedBy(more, pri')
    BY <1>3, <1>4, <1>5, <2>1, InsertKeeps
  <2>3. rq' = more
    BY <1>10 DEF less
  <2>. HIDE DEF more
  <2>4. Range(rq') = {u \in Task : state'[u] = "READY"}
    BY <1>2, <1>4, <1>10, <2>2, <2>3
  <2>. QED
    BY <1>1, <2>2, <2>3, <2>4 DEF Data, Queue
<1>. QED
  BY <1>6, <1>7, <1>8, <1>9, <1>10

\* A step that changes no control block, and at most rotates the queue.
LEMMA NoTaskKeeps ==
    ASSUME Data, UNCHANGED <<tcb, stkfree, free>>, victim' \in Slot,
           rq' = rq \/ \E p \in Pri : rq' = ReadyRotate(rq, pri, p)
    PROVE  Data'
<1>1. TcbTypes' /\ \A t \in Task : Tcb(t)'
  BY DEF Data, TcbTypes, Tcb, tcb
<1>2. pri \in [Task -> Nat]
  BY SchedAssumption DEF Data, TcbTypes
<1>3. rq' \in Seq(Task) /\ Range(rq') = Range(rq) /\ OrderedBy(rq', pri)
  BY <1>2, RotateKeeps DEF Data, Queue
<1>. QED
  BY <1>1, <1>3 DEF Data, Queue, tcb

\* The calls that a task or a handler makes.
LEMMA CallByData ==
    ASSUME Data, NEW c \in Core, NEW by, CallBy(c, by)
    PROVE  Data'
<1>. USE SchedAssumption DEF Data, TcbTypes, State, Slot
<1>1. CASE NoEffect(c, by)
  BY <1>1, NoTaskKeeps DEF NoEffect, reap
<1>2. ASSUME NEW t \in Task, tk_cre_tsk(c, by, t) PROVE Data'
  <2>1. TcbTypes' /\ Tcb(t)'
    BY <1>2 DEF tk_cre_tsk, Dormant, Tcb, Waiting
  <2>. QED
    BY ZenonT(30), <1>2, <2>1, OneTaskKeeps DEF tk_cre_tsk, Dormant, Tcb
<1>3. ASSUME NEW t \in Task, tk_del_tsk(c, by, t) PROVE Data'
  <2>1. TcbTypes' /\ Tcb(t)'
    BY <1>3 DEF tk_del_tsk, reap, Tcb, Waiting, Alive
  <2>. QED
    BY <1>3, <2>1, OneTaskKeeps DEF tk_del_tsk, reap, Tcb, Waiting, Alive
<1>4. ASSUME NEW t \in Task, tk_ter_tsk(c, by, t) PROVE Data'
  <2>1. TcbTypes' /\ Tcb(t)'
    BY <1>4 DEF tk_ter_tsk, Dormant, reap, Tcb, Waiting, Alive
  <2>2. /\ \A u \in Task \ {t} :
             /\ state'[u] = state[u] /\ pri'[u] = pri[u] /\ slp'[u] = slp[u]
             /\ sus'[u] = sus[u] /\ wup'[u] = wup[u] /\ stkfree'[u] = stkfree[u]
             /\ u \in free' <=> u \in free
        /\ rq' = ReadyDelete(rq, t) /\ state'[t] # "READY"
    BY <1>4 DEF tk_ter_tsk, Dormant
  <2>. QED
    BY <2>1, <2>2, OneTaskKeeps
<1>5. ASSUME NEW t \in Task, tk_sus_tsk(c, by, t) PROVE Data'
  <2>1. TcbTypes' /\ Tcb(t)'
    BY <1>5 DEF tk_sus_tsk, MakeNonReady, reap, Tcb, Waiting, Alive
  <2>. QED
    BY <1>5, <2>1, OneTaskKeeps DEF tk_sus_tsk, MakeNonReady, reap, Tcb, Waiting, Alive
<1>6. ASSUME NEW t \in Task, tk_rsm_tsk(c, by, t) PROVE Data'
  <2>1. TcbTypes' /\ Tcb(t)'
    BY <1>6 DEF tk_rsm_tsk, MakeReady, reap, Tcb, Waiting, Alive
  <2>. QED
    BY <1>6, <2>1, OneTaskKeeps DEF tk_rsm_tsk, MakeReady, reap, Tcb, Waiting, Alive
<1>7. ASSUME NEW t \in Task, tk_wup_tsk(c, by, t) PROVE Data'
  <2>1. TcbTypes' /\ Tcb(t)'
    BY <1>7 DEF tk_wup_tsk, MakeNonWait, MakeReady, reap, Tcb, Waiting, Alive
  <2>. QED
    BY <1>7, <2>1, OneTaskKeeps DEF tk_wup_tsk, MakeNonWait, MakeReady, reap, Tcb, Waiting, Alive
<1>8. ASSUME NEW t \in Task, tk_can_wup(c, by, t) PROVE Data'
  <2>1. TcbTypes' /\ Tcb(t)'
    BY <1>8 DEF tk_can_wup, reap, Tcb, Waiting, Alive
  <2>. QED
    BY <1>8, <2>1, OneTaskKeeps DEF tk_can_wup, reap, Tcb, Waiting, Alive
<1>9. ASSUME NEW t \in Task, ReleaseWait(c, by, t) PROVE Data'
  <2>1. TcbTypes' /\ Tcb(t)'
    BY <1>9 DEF ReleaseWait, MakeNonWait, MakeReady, reap, Tcb, Waiting, Alive
  <2>. QED
    BY <1>9, <2>1, OneTaskKeeps DEF ReleaseWait, MakeNonWait, MakeReady, reap, Tcb, Waiting, Alive
<1>10. ASSUME NEW t \in Task, NEW p \in Pri, tk_chg_pri(c, by, t, p) PROVE Data'
  <2>1. TcbTypes' /\ Tcb(t)'
    BY <1>10 DEF tk_chg_pri, reap, Tcb
  <2>. QED
    BY <1>10, <2>1, OneTaskKeeps DEF tk_chg_pri, reap, Tcb
<1>11. ASSUME NEW p \in Pri, tk_rot_rdq(c, by, p) PROVE Data'
  BY <1>11, NoTaskKeeps DEF tk_rot_rdq, reap
<1>. QED
  BY <1>1, <1>2, <1>3, <1>4, <1>5, <1>6, <1>7, <1>8, <1>9, <1>10, <1>11 DEF CallBy

\* The calls only a task makes: t is the caller.
LEMMA CallByTaskData ==
    ASSUME Data, CoreTypes, NEW c \in Core, CallByTask(c)
    PROVE  Data'
<1>1. CASE CaughtDead(c)
  BY <1>1, NoTaskKeeps DEF CaughtDead, reap, Data, TcbTypes
<1>2. ctxtsk[c] \in Task \/ CaughtDead(c)
  BY DEF CallByTask, tk_ext_tsk, tk_exd_tsk, tk_slp_tsk, tk_dly_tsk, Enter, AtCall, InTask
<1>3. ASSUME NEW t \in Task, ctxtsk[c] = t, tk_ext_tsk(c) PROVE Data'
  <2>1. /\ rq' = ReadyDelete(rq, t) /\ Dormant(t, "DORMANT")
        /\ stkfree' = [stkfree EXCEPT ![t] = FALSE] /\ UNCHANGED <<free, victim>>
        /\ state[t] \in Alive
    BY <1>3 DEF tk_ext_tsk, Enter
  <2>2. TcbTypes' /\ Tcb(t)'
    <3>1. TcbTypes'
      <4>1. 0 \in 0 .. MaxSus /\ 0 \in 0 .. MaxWup /\ InitPri[t] \in Pri
        BY SchedAssumption
      <4>. QED
        BY <2>1, <4>1 DEF Data, TcbTypes, State, Slot, Dormant
    <3>2. t \notin free
      BY <2>1 DEF Data, Tcb, Alive
    <3>. QED
      BY <1>3, <2>1, <3>1, <3>2, SchedAssumption DEF Data, TcbTypes, Tcb, Dormant, Waiting
  <2>3. /\ \A u \in Task \ {t} :
             /\ state'[u] = state[u] /\ pri'[u] = pri[u] /\ slp'[u] = slp[u]
             /\ sus'[u] = sus[u] /\ wup'[u] = wup[u] /\ stkfree'[u] = stkfree[u]
             /\ u \in free' <=> u \in free
        /\ rq' = ReadyDelete(rq, t) /\ state'[t] # "READY"
    BY <1>3, <2>1 DEF Data, TcbTypes, Dormant
  <2>. QED
    BY <1>3, <2>2, <2>3, OneTaskKeeps
<1>4. ASSUME NEW t \in Task, ctxtsk[c] = t, tk_exd_tsk(c) PROVE Data'
  <2>1. /\ rq' = ReadyDelete(rq, t) /\ state' = [state EXCEPT ![t] = "NONEXIST"]
        /\ stkfree' = [stkfree EXCEPT ![t] = TRUE] /\ UNCHANGED <<pri, slp, sus, wup, free, victim>>
        /\ state[t] \in Alive
    BY <1>4 DEF tk_exd_tsk, Enter
  <2>2. TcbTypes' /\ Tcb(t)'
    BY <1>4, <2>1 DEF Data, TcbTypes, State, Tcb, Waiting, Alive
  <2>3. /\ \A u \in Task \ {t} :
             /\ state'[u] = state[u] /\ pri'[u] = pri[u] /\ slp'[u] = slp[u]
             /\ sus'[u] = sus[u] /\ wup'[u] = wup[u] /\ stkfree'[u] = stkfree[u]
             /\ u \in free' <=> u \in free
        /\ rq' = ReadyDelete(rq, t) /\ state'[t] # "READY"
    BY <1>4, <2>1 DEF Data, TcbTypes
  <2>. QED
    BY <1>4, <2>2, <2>3, OneTaskKeeps
<1>5. ASSUME NEW t \in Task, ctxtsk[c] = t, tk_slp_tsk(c) PROVE Data'
  <2>1. /\ UNCHANGED <<pri, sus, stkfree, free, victim>>
        /\ \/ wup[t] > 0 /\ wup' = [wup EXCEPT ![t] = @ - 1] /\ UNCHANGED <<state, slp, rq>>
           \/ wup[t] = 0 /\ slp' = [slp EXCEPT ![t] = TRUE] /\ UNCHANGED wup /\ MakeWait(c)
    BY <1>5 DEF tk_slp_tsk, reap
  <2>2. MakeWait(c) =>
          \/ state[t] = "READY" /\ state' = [state EXCEPT ![t] = "WAIT"] /\ rq' = ReadyDelete(rq, t)
          \/ state[t] = "SUSPEND" /\ state' = [state EXCEPT ![t] = "WAITSUS"] /\ rq' = rq
    BY <1>5 DEF MakeWait, MakeNonReady
  <2>3. TcbTypes' /\ Tcb(t)'
    <3>1. TcbTypes'
      <4>1. wup[t] > 0 => wup[t] - 1 \in 0 .. MaxWup
        BY SchedAssumption DEF Data, TcbTypes
      <4>. QED
        BY <2>1, <2>2, <4>1 DEF Data, TcbTypes, State, Slot
    <3>. QED
      BY <1>5, <2>1, <2>2, <3>1, SchedAssumption DEF Data, TcbTypes, Tcb, Waiting
  <2>4. /\ \A u \in Task \ {t} :
             /\ state'[u] = state[u] /\ pri'[u] = pri[u] /\ slp'[u] = slp[u]
             /\ sus'[u] = sus[u] /\ wup'[u] = wup[u] /\ stkfree'[u] = stkfree[u]
             /\ u \in free' <=> u \in free
        /\ \/ rq' = rq /\ state[t] # "READY" /\ state'[t] # "READY"
           \/ rq' = rq /\ state'[t] = state[t] /\ pri'[t] = pri[t]
           \/ rq' = ReadyDelete(rq, t) /\ state'[t] # "READY"
    BY <1>5, <2>1, <2>2 DEF Data, TcbTypes
  <2>. QED
    BY <1>5, <2>3, <2>4, OneTaskKeeps
<1>6. ASSUME NEW t \in Task, ctxtsk[c] = t, tk_dly_tsk(c) PROVE Data'
  <2>1. slp' = [slp EXCEPT ![t] = FALSE] /\ UNCHANGED <<pri, sus, wup, stkfree, free, victim>>
    BY <1>6 DEF tk_dly_tsk, reap
  <2>2. \/ state[t] = "READY" /\ state' = [state EXCEPT ![t] = "WAIT"] /\ rq' = ReadyDelete(rq, t)
        \/ state[t] = "SUSPEND" /\ state' = [state EXCEPT ![t] = "WAITSUS"] /\ rq' = rq
    BY <1>6 DEF tk_dly_tsk, MakeWait, MakeNonReady
  <2>3. TcbTypes' /\ Tcb(t)'
    BY <1>6, <2>1, <2>2 DEF Data, TcbTypes, State, Tcb, Waiting
  <2>. QED
    BY <1>6, <2>1, <2>2, <2>3, OneTaskKeeps DEF Data, TcbTypes
<1>. QED
  BY <1>1, <1>2, <1>3, <1>4, <1>5, <1>6 DEF CallByTask

\* Deletion that waits for the dispatcher: the task is dormant still.
LEMMA ReserveData ==
    ASSUME Data, VictimDormant, NEW c \in Core, Reserve(c)
    PROVE  Data'
<1>. SUFFICES ASSUME NEW t \in Task, t = victim PROVE Data'
  BY DEF VictimDormant, Reserve
<1>1. /\ state[t] = "DORMANT"
      /\ stkfree' = [stkfree EXCEPT ![t] = TRUE] /\ state' = [state EXCEPT ![t] = "NONEXIST"]
      /\ UNCHANGED <<pri, slp, sus, wup, free, rq>> /\ victim' = NoTask
  BY DEF VictimDormant, Reserve
<1>2. TcbTypes' /\ Tcb(t)'
  BY <1>1 DEF Data, TcbTypes, State, Slot, Tcb, Waiting
<1>. QED
  BY <1>1, <1>2, OneTaskKeeps DEF Data, TcbTypes

\* knl_smp_dispatch_release(): what it reclaims has no task any more.
LEMMA ReclaimData ==
    ASSUME Data, NEW c \in Core, Reclaim(c), out[c] \in Task
    PROVE  Data'
<1>. SUFFICES ASSUME NEW t \in Task, t = out[c], NEW reclaims \in BOOLEAN,
                     reclaims = (stkfree[t] /\ ~IsCtx(t))
              PROVE  Data'
  BY DEF IsCtx, Data, TcbTypes
<1>1. /\ stkfree' = [stkfree EXCEPT ![t] = @ /\ ~reclaims]
      /\ free' = IF reclaims THEN free \cup {t} ELSE free
      /\ state' = [state EXCEPT ![t] = IF reclaims THEN "NONEXIST" ELSE @]
      /\ UNCHANGED <<pri, slp, sus, wup, rq, victim>>
  BY DEF Reclaim, Goes
<1>2. reclaims => stkfree[t]
  OBVIOUS
<1>3. CASE reclaims
  <2>1. state[t] = "NONEXIST" /\ TcbTypes' /\ Tcb(t)'
    BY <1>1, <1>2, <1>3 DEF Data, TcbTypes, State, Tcb, Waiting
  <2>. QED
    BY <1>1, <1>2, <1>3, <2>1, OneTaskKeeps DEF Data, TcbTypes
<1>4. CASE ~reclaims
  <2>1. UNCHANGED <<tcb, stkfree, free>>
    BY <1>1, <1>2, <1>4 DEF Data, TcbTypes, tcb
  <2>. QED
    BY <1>1, <2>1, NoTaskKeeps DEF Data, TcbTypes
<1>. QED
  BY <1>3, <1>4

-----------------------------------------------------------------------------
(***************************************************************************)
(* The slots, the selection and the free control blocks.                   *)
(***************************************************************************)
DisdTypes == disd \in [Core -> {DDS_ENABLE, DDS_DISABLE_IMPLICIT, DDS_DISABLE}]

\* knl_smp_reschedule_all(): what a call selects is ready after the call.
LEMMA SelectQueued ==
    ASSUME CoreTypes, rq' \in Seq(Task), NEW p \in Core, Select(p)
    PROVE  /\ sel' \in [Core -> [Core -> Slot]]
           /\ \A c \in Core : sel'[p][c] \in Range(rq') \cup {NoTask}
<1>. DEFINE chosen == Guarded(Assign(rq', ctxtsk, schedtsk, disd', online), schedtsk)
<1>1. \A c \in Core : chosen[c] \in Range(rq') \cup {NoTask}
  BY SelectedFromQueue
<1>2. chosen = [c \in Core |-> chosen[c]]
  BY DEF Guarded
<1>3. sel' = [sel EXCEPT ![p] = chosen]
  BY DEF Select
<1>. HIDE DEF chosen
<1>4. Range(rq') \subseteq Task
  BY InRange
<1>5. chosen \in [Core -> Slot]
  BY <1>1, <1>2, <1>4 DEF Slot
<1>. QED
  BY <1>1, <1>3, <1>5 DEF CoreTypes

\* A call opens its critical section: it selects from the queue it leaves
\* behind, or keeps the queue; what it makes free was dormant and unused.
LEMMA CallControl ==
    ASSUME Data, Data', CoreTypes, Control, Ownership,
           NEW c \in Core, NEW by, NEW x \in InCall, NEW y \in {pc[c], "abandon"},
           Enter(c, by), DisdTypes',
           pc' = [pc EXCEPT ![c] = x], back' = [back EXCEPT ![c] = y],
           UNCHANGED <<ctxtsk, schedtsk, online, irqs, disp>>,
           \/ x = "publish" /\ Select(c)
           \/ x # "publish" /\ sel' = sel /\ Range(rq') = Range(rq),
           x = "reserve" => victim' \in Task /\ state'[victim'] = "DORMANT",
           \A t \in free' \ free : state[t] = "DORMANT" /\ ~IsCtx(t)
    PROVE  CoreTypes' /\ Control'
<1>1. \A d \in Core : pc[d] \notin Locked
  BY SchedAssumption DEF Enter, Ownership, PublisherLocks
<1>2. \A d \in Core : pc'[d] = IF d = c THEN x ELSE pc[d]
  BY DEF CoreTypes
<1>3. pc[c] \in {"run", "save", "release", "load"}
  BY DEF Enter, AtCall, InTask
<1>4. x = "publish" => /\ sel' \in [Core -> [Core -> Slot]]
                       /\ \A d \in Core : sel'[c][d] \in Range(rq') \cup {NoTask}
  BY SelectQueued DEF Data, Queue
<1>5. CoreTypes'
  <2>1. sel' \in [Core -> [Core -> Slot]]
    BY <1>4 DEF CoreTypes
  <2>2. back' \in [Core -> {"run", "save", "release", "load", "abandon"}]
    BY <1>3 DEF CoreTypes
  <2>3. pc' \in [Core -> {"boot", "ready", "run"} \cup InCall \cup Dispatcher]
    BY DEF CoreTypes
  <2>4. lock' \in Core \cup {NoCore}
    BY DEF Enter
  <2>. QED
    BY <2>1, <2>2, <2>3, <2>4 DEF CoreTypes, DisdTypes, irqs, disp, Slot, InCall, Dispatcher
<1>6. VictimDormant'
  BY <1>1, <1>2 DEF VictimDormant, Locked
<1>7. SelectionQueued'
  BY <1>1, <1>2, <1>4 DEF SelectionQueued, Locked
<1>8. PublishedQueued'
  <2>1. \A d \in Core : schedtsk[d] \in Range(rq) \cup {NoTask}
    BY <1>1 DEF Control, PublishedQueued, Locked
  <2>. QED
    BY <1>2, <2>1 DEF PublishedQueued
<1>9. FreeUnpublished'
  <2>1. \A d \in Core : schedtsk[d] \in Range(rq) \cup {NoTask}
    BY <1>1 DEF Control, PublishedQueued, Locked
  <2>2. \A t \in free' \ free, d \in Core : schedtsk[d] # t
    BY <2>1, TaskAssumption DEF Data, Queue, TcbTypes
  <2>. QED
    BY <2>2 DEF Control, FreeUnpublished
<1>10. FreeNotCurrent'
  BY DEF Control, FreeNotCurrent, IsCtx, disp
<1>. QED
  BY <1>5, <1>6, <1>7, <1>8, <1>9, <1>10 DEF Control

\* A call that reschedules.
LEMMA RescheduleControl ==
    ASSUME Data, Data', CoreTypes, Control, Ownership,
           NEW c \in Core, NEW by, Enter(c, by), DisdTypes', Reschedules(c), free' = free
    PROVE  CoreTypes' /\ Control'
BY CallControl DEF Reschedules, InCall

\* A call that leaves the selections alone: the queue has not changed.
LEMMA ReturnControl ==
    ASSUME Data, Data', CoreTypes, Control, Ownership,
           NEW c \in Core, NEW by, Enter(c, by), DisdTypes', Returns(c),
           Range(rq') = Range(rq),
           \A t \in free' \ free : state[t] = "DORMANT" /\ ~IsCtx(t)
    PROVE  CoreTypes' /\ Control'
BY CallControl DEF Returns, InCall

\* A call that does not return reschedules, or its caller was not ready.
LEMMA NeverReturnControl ==
    ASSUME Data, Data', CoreTypes, Control, Ownership,
           NEW c \in Core, NEW by, Enter(c, by), DisdTypes', NEW r \in BOOLEAN,
           NeverReturns(c, r), r \/ Range(rq') = Range(rq), free' = free
    PROVE  CoreTypes' /\ Control'
BY CallControl DEF NeverReturns, InCall

\* A step outside of the kernel lock, or at its end, that changes no task and
\* no slot, and at most clears ctxtsk.
LEMMA QuietControl ==
    ASSUME Data, CoreTypes, Control, NEW p \in Core, NEW x,
           \/ pc' = pc
           \/ x \notin {"publish", "reserve"} /\ pc[p] # "publish" /\ pc' = [pc EXCEPT ![p] = x],
           ctxtsk' = ctxtsk \/ ctxtsk' = [ctxtsk EXCEPT ![p] = NoTask],
           UNCHANGED <<state, rq, free, victim, schedtsk, sel, stale>>
    PROVE  Control'
<1>1. \A d \in Core : pc'[d] = pc[d] \/ (d = p /\ pc'[d] \notin {"publish", "reserve"} /\ pc[d] # "publish")
  BY DEF CoreTypes
<1>2. VictimDormant' /\ SelectionQueued'
  BY <1>1 DEF Control, VictimDormant, SelectionQueued
<1>3. PublishedQueued' /\ FreeUnpublished'
  BY <1>1 DEF Control, PublishedQueued, FreeUnpublished
<1>4. \A d \in Core : ctxtsk'[d] \in {ctxtsk[d], NoTask}
  BY DEF CoreTypes
<1>5. FreeNotCurrent'
  BY <1>4, TaskAssumption DEF Control, FreeNotCurrent, IsCtx, Data, TcbTypes
<1>. QED
  BY <1>2, <1>3, <1>5 DEF Control

\* The end of a call: publication, the lock, the dispatch.
LEMMA EndOfCallKeepsState ==
    ASSUME Data, CoreTypes, Control, Ownership, NEW c \in Core, EndOfCall(c)
    PROVE  Data' /\ CoreTypes' /\ Control'
<1>1. CASE Publish(c)
  <2>1. /\ pc[c] = "publish" /\ lock = c
        /\ schedtsk' = [d \in Core |-> IF d \in online THEN sel[c][d] ELSE schedtsk[d]]
        /\ ipi' = [d \in Core |-> ipi[d] \/ (d # c /\ schedtsk'[d] # schedtsk[d])]
        /\ pc' = [pc EXCEPT ![c] = IF back[c] = "abandon" THEN "abandon" ELSE "leave"]
        /\ sel' = [sel EXCEPT ![c] = Empty]
        /\ UNCHANGED <<tcb, reap, rq, ctxtsk, disd, online, pendsv, lock, back, disp>>
    BY <1>1 DEF Publish, Ownership, PublisherLocks, Locked
  <2>2. Data'
    BY <2>1, NoTaskKeeps DEF Data, TcbTypes, reap
  <2>3. CoreTypes'
    BY <2>1 DEF CoreTypes, Empty, Slot, InCall, Dispatcher, disp
  <2>4. \A d \in Core : pc'[d] # "publish" /\ pc'[d] # "reserve"
    <3>1. \A d \in Core : d # c => pc[d] \notin Locked
      BY <2>1, SchedAssumption DEF Ownership, PublisherLocks
    <3>. QED
      BY <2>1, <3>1 DEF CoreTypes, Locked
  <2>5. \A d \in Core : schedtsk'[d] \in Range(rq) \cup {NoTask}
    BY <2>1 DEF Control, SelectionQueued, Ownership, OfflineEmpty
  <2>6. FreeUnpublished'
    BY <2>1, <2>5, TaskAssumption DEF FreeUnpublished, Data, TcbTypes, Queue, Tcb, reap
  <2>7. FreeNotCurrent'
    BY <2>1 DEF Control, FreeNotCurrent, IsCtx, reap, disp
  <2>. QED
    BY <2>1, <2>2, <2>3, <2>4, <2>5, <2>6, <2>7
    DEF Control, VictimDormant, SelectionQueued, PublishedQueued
<1>2. CASE Reserve(c)
  <2>1. Data'
    BY <1>2, ReserveData DEF Control
  <2>2. /\ pc[c] = "reserve" /\ lock = c /\ pc' = [pc EXCEPT ![c] = "leave"]
        /\ UNCHANGED <<free, rq, slots, irqs, lock, back, sel, disp>>
    BY <1>2 DEF Reserve, Ownership, PublisherLocks, Locked
  <2>3. CoreTypes'
    BY <2>2 DEF CoreTypes, Slot, InCall, Dispatcher, slots, irqs, disp
  <2>4. \A d \in Core : pc'[d] # "publish" /\ pc'[d] # "reserve" /\ pc[d] # "publish"
    <3>1. \A d \in Core : d # c => pc[d] \notin Locked
      BY <2>2, SchedAssumption DEF Ownership, PublisherLocks
    <3>. QED
      BY <2>2, <3>1 DEF CoreTypes, Locked
  <2>5. VictimDormant' /\ SelectionQueued'
    BY <2>4 DEF VictimDormant, SelectionQueued
  <2>6. PublishedQueued' /\ FreeUnpublished' /\ FreeNotCurrent'
    BY <2>2, <2>4
    DEF Control, PublishedQueued, FreeUnpublished, FreeNotCurrent, IsCtx, slots, disp
  <2>. QED
    BY <2>1, <2>3, <2>5, <2>6 DEF Control
<1>3. CASE Leave(c)
  <2>1. Data' /\ Control'
    BY <1>3, NoTaskKeeps, QuietControl DEF Leave, Data, TcbTypes, tcb, reap, slots, disp
  <2>2. CoreTypes'
    BY <1>3 DEF Leave, CoreTypes, Slot, InCall, Dispatcher, slots, irqs, disp
  <2>. QED
    BY <2>1, <2>2
<1>4. CASE Check(c)
  <2>1. Data' /\ Control'
    BY <1>4, NoTaskKeeps, QuietControl DEF Check, CoreTypes, Data, TcbTypes, tcb, reap, slots, disp
  <2>2. CoreTypes'
    BY <1>4 DEF Check, CoreTypes, Slot, InCall, Dispatcher, slots, disp
  <2>. QED
    BY <2>1, <2>2
<1>5. CASE Abandon(c)
  <2>1. Data' /\ Control'
    BY <1>5, NoTaskKeeps, QuietControl DEF Abandon, Data, TcbTypes, tcb, reap, disp
  <2>2. CoreTypes'
    BY <1>5 DEF Abandon, CoreTypes, Slot, InCall, Dispatcher, disp
  <2>. QED
    BY <2>1, <2>2
<1>. QED
  BY <1>1, <1>2, <1>3, <1>4, <1>5 DEF EndOfCall

\* The dispatcher takes tasks and control blocks off a processor, and puts
\* on it what the slot held.
LEMMA DispatchKeepsState ==
    ASSUME Data, CoreTypes, Control, Ownership, NEW c \in Core, Dispatch(c)
    PROVE  Data' /\ CoreTypes' /\ Control'
<1>1. CASE StartDispatch(c)
  <2>1. Data' /\ Control'
    BY <1>1, NoTaskKeeps, QuietControl DEF StartDispatch, Goes, Data, TcbTypes, tcb, disp
  <2>2. CoreTypes'
    BY <1>1 DEF StartDispatch, Goes, CoreTypes, Slot, InCall, Dispatcher, disp
  <2>. QED
    BY <2>1, <2>2
<1>2. CASE Save(c)
  <2>1. Data' /\ Control'
    BY <1>2, NoTaskKeeps, QuietControl DEF Save, Goes, Data, TcbTypes, tcb
  <2>2. CoreTypes'
    BY <1>2 DEF Save, Goes, CoreTypes, Slot, InCall, Dispatcher, irqs
  <2>. QED
    BY <2>1, <2>2
<1>3. CASE Release(c)
  <2>1. Data' /\ Control'
    BY <1>3, NoTaskKeeps, QuietControl DEF Release, Goes, Data, TcbTypes, tcb, disp
  <2>2. CoreTypes'
    BY <1>3 DEF Release, Goes, CoreTypes, Slot, InCall, Dispatcher, irqs, disp
  <2>. QED
    BY <2>1, <2>2
<1>4. CASE Load(c)
  <2>1. Data' /\ Control'
    BY <1>4, NoTaskKeeps, QuietControl DEF Load, Goes, Data, TcbTypes, tcb
  <2>2. CoreTypes'
    BY <1>4 DEF Load, Goes, CoreTypes, Slot, InCall, Dispatcher, irqs
  <2>. QED
    BY <2>1, <2>2
<1>5. CASE Store(c)
  <2>1. /\ pc[c] = "store" /\ pc' = [pc EXCEPT ![c] = "run"]
        /\ ctxtsk' = [ctxtsk EXCEPT ![c] = r7[c]]
        /\ stale' = (stale \/ (r7[c] \in Task /\ schedtsk[c] # r7[c]))
        /\ UNCHANGED <<tcb, free, stkfree, victim, rq, schedtsk, sel>>
    BY <1>5 DEF Store, Goes, tcb
  <2>2. Data'
    BY <2>1, NoTaskKeeps DEF Data, TcbTypes
  <2>3. CoreTypes'
    BY <1>5 DEF Store, Goes, CoreTypes, Slot, InCall, Dispatcher, irqs
  <2>4. \A d \in Core : pc'[d] = IF d = c THEN "run" ELSE pc[d]
    BY <2>1 DEF CoreTypes
  <2>5. VictimDormant' /\ SelectionQueued' /\ PublishedQueued' /\ FreeUnpublished'
    BY <2>1, <2>4
    DEF Control, VictimDormant, SelectionQueued, PublishedQueued, FreeUnpublished, tcb
  <2>6. FreeNotCurrent'
    <3>1. SUFFICES ASSUME ~stale', NEW t \in free, NEW d \in Core, ctxtsk'[d] = t
                   PROVE  FALSE
      BY <2>1 DEF FreeNotCurrent, IsCtx
    <3>2. ~stale /\ (r7[c] \in Task => schedtsk[c] = r7[c])
      BY <2>1, <3>1 DEF CoreTypes
    <3>3. CASE d = c
      BY <2>1, <3>1, <3>2, <3>3 DEF Control, FreeUnpublished, Data, TcbTypes, CoreTypes
    <3>4. CASE d # c
      BY <2>1, <3>1, <3>2, <3>4 DEF Control, FreeNotCurrent, IsCtx, CoreTypes
    <3>. QED
      BY <3>3, <3>4
  <2>. QED
    BY <2>2, <2>3, <2>5, <2>6 DEF Control
<1>6. CASE Reclaim(c)
  <2>1. /\ lock = NoCore /\ pc[c] = "reclaim" /\ pc' = [pc EXCEPT ![c] = "load"]
        /\ stkfree' = [stkfree EXCEPT ![out[c]] = @ /\ ~(stkfree[out[c]] /\ ~IsCtx(out[c]))]
        /\ free' = IF stkfree[out[c]] /\ ~IsCtx(out[c]) THEN free \cup {out[c]} ELSE free
        /\ UNCHANGED <<pri, slp, sus, wup, victim, rq, schedtsk, online, lock, back, sel,
                       ctxtsk, disd, irqs, disp>>
    BY <1>6 DEF Reclaim, Goes
  <2>2. out[c] \in Task /\ Data'
    BY <1>6, <2>1, ReclaimData DEF CoreTypes
  <2>3. CoreTypes'
    BY <2>1 DEF CoreTypes, Slot, InCall, Dispatcher, irqs, disp
  <2>4. \A d \in Core : pc[d] \notin Locked /\ pc'[d] \notin Locked
    <3>1. \A d \in Core : pc[d] \notin Locked
      BY <2>1, SchedAssumption DEF Ownership, PublisherLocks
    <3>. QED
      BY <2>1, <3>1 DEF CoreTypes, Locked
  <2>5. \A d \in Core : schedtsk[d] \in Range(rq) \cup {NoTask}
    BY <2>4 DEF Control, PublishedQueued, Locked
  <2>6. FreeUnpublished'
    <3>1. \A t \in free' \ free : state[t] = "NONEXIST" /\ t \in Task
      BY <2>1, <2>2 DEF Data, TcbTypes, Tcb
    <3>2. \A t \in free' \ free, d \in Core : schedtsk[d] # t
      BY <2>5, <3>1, TaskAssumption DEF Data, Queue
    <3>. QED
      BY <2>1, <3>2 DEF Control, FreeUnpublished
  <2>7. FreeNotCurrent'
    BY <2>1 DEF Control, FreeNotCurrent, IsCtx, disp
  <2>8. VictimDormant' /\ SelectionQueued' /\ PublishedQueued'
    BY <2>1, <2>4, <2>5 DEF VictimDormant, SelectionQueued, PublishedQueued, Locked
  <2>. QED
    BY <2>2, <2>3, <2>6, <2>7, <2>8 DEF Control
<1>. QED
  BY <1>1, <1>2, <1>3, <1>4, <1>5, <1>6 DEF Dispatch

-----------------------------------------------------------------------------
(***************************************************************************)
(* The steps.                                                              *)
(***************************************************************************)
\* The calls that a task or a handler makes.
LEMMA CallByControl ==
    ASSUME Data, Data', CoreTypes, Control, Ownership, NEW c \in Core, NEW by, CallBy(c, by)
    PROVE  CoreTypes' /\ Control'
<1>. USE DEF DisdTypes
<1>0. DisdTypes
  BY DEF CoreTypes
<1>1. CASE NoEffect(c, by)
  BY <1>1, <1>0, ReturnControl DEF NoEffect, reap
<1>2. ASSUME NEW t \in Task, tk_cre_tsk(c, by, t) PROVE CoreTypes' /\ Control'
  BY <1>2, <1>0, ReturnControl DEF tk_cre_tsk
<1>3. ASSUME NEW t \in Task, tk_del_tsk(c, by, t) PROVE CoreTypes' /\ Control'
  <2>1. CASE Returns(c) /\ ~IsCtx(t) /\ free' = free \cup {t}
    BY <1>3, <1>0, <2>1, ReturnControl DEF tk_del_tsk
  <2>2. CASE /\ victim' = t
             /\ pc' = [pc EXCEPT ![c] = "reserve"]
             /\ back' = [back EXCEPT ![c] = pc[c]]
             /\ UNCHANGED <<state, free, sel, ctxtsk, schedtsk, online, irqs, disp>>
    <3>1. "reserve" \in InCall
      BY DEF InCall
    <3>2. state'[victim'] = "DORMANT" /\ Enter(c, by) /\ rq' = rq /\ disd' = disd
      BY <1>3, <2>2 DEF tk_del_tsk
    <3>. QED
      BY <1>0, <2>2, <3>1, <3>2, CallControl
  <2>. QED
    BY <1>3, <2>1, <2>2 DEF tk_del_tsk
<1>4. ASSUME NEW t \in Task, tk_ter_tsk(c, by, t) PROVE CoreTypes' /\ Control'
  <2>1. /\ Enter(c, by) /\ UNCHANGED free /\ rq' = ReadyDelete(rq, t)
        /\ disd' = [d \in Core |-> IF ctxtsk[d] = t THEN DDS_ENABLE ELSE disd[d]]
        /\ IF state[t] = "READY" THEN Reschedules(c) ELSE Returns(c)
    BY <1>4 DEF tk_ter_tsk
  <2>2. DisdTypes'
    BY <1>0, <2>1
  <2>3. state[t] # "READY" => Range(rq') = Range(rq)
    BY <2>1 DEF Data, Queue, ReadyDelete
  <2>. QED
    BY <2>1, <2>2, <2>3, RescheduleControl, ReturnControl
<1>5. ASSUME NEW t \in Task, tk_sus_tsk(c, by, t) PROVE CoreTypes' /\ Control'
  BY <1>5, <1>0, RescheduleControl, ReturnControl DEF tk_sus_tsk, MakeNonReady, reap
<1>6. ASSUME NEW t \in Task, tk_rsm_tsk(c, by, t) PROVE CoreTypes' /\ Control'
  BY <1>6, <1>0, RescheduleControl, ReturnControl DEF tk_rsm_tsk, MakeReady, reap
<1>7. ASSUME NEW t \in Task, tk_wup_tsk(c, by, t) PROVE CoreTypes' /\ Control'
  BY <1>7, <1>0, RescheduleControl, ReturnControl DEF tk_wup_tsk, MakeNonWait, MakeReady, reap
<1>8. ASSUME NEW t \in Task, tk_can_wup(c, by, t) PROVE CoreTypes' /\ Control'
  BY <1>8, <1>0, RescheduleControl, ReturnControl DEF tk_can_wup, reap
<1>9. ASSUME NEW t \in Task, ReleaseWait(c, by, t) PROVE CoreTypes' /\ Control'
  BY <1>9, <1>0, RescheduleControl, ReturnControl DEF ReleaseWait, MakeNonWait, MakeReady, reap
<1>10. ASSUME NEW t \in Task, NEW p \in Pri, tk_chg_pri(c, by, t, p) PROVE CoreTypes' /\ Control'
  BY <1>10, <1>0, RescheduleControl, ReturnControl DEF tk_chg_pri, reap
<1>11. ASSUME NEW p \in Pri, tk_rot_rdq(c, by, p) PROVE CoreTypes' /\ Control'
  BY <1>11, <1>0, RescheduleControl DEF tk_rot_rdq, reap
<1>. QED
  BY <1>1, <1>2, <1>3, <1>4, <1>5, <1>6, <1>7, <1>8, <1>9, <1>10, <1>11 DEF CallBy

\* The calls only a task makes.
LEMMA CallByTaskControl ==
    ASSUME Data, Data', CoreTypes, Control, Ownership, NEW c \in Core, CallByTask(c)
    PROVE  CoreTypes' /\ Control'
<1>0. DisdTypes
  BY DEF CoreTypes, DisdTypes
<1>. USE DEF DisdTypes
<1>1. ASSUME tk_ext_tsk(c) \/ tk_exd_tsk(c) PROVE CoreTypes' /\ Control'
  <2>1. PICK t \in Task : t = ctxtsk[c]
    BY <1>1 DEF tk_ext_tsk, tk_exd_tsk, Enter, AtCall, InTask
  <2>2. PICK r \in BOOLEAN : r = (state[t] = "READY")
    OBVIOUS
  <2>3. /\ Enter(c, "task") /\ UNCHANGED <<free, disd>> /\ rq' = ReadyDelete(rq, t)
        /\ NeverReturns(c, r)
    BY <1>1, <2>1, <2>2 DEF tk_ext_tsk, tk_exd_tsk
  <2>4. r \/ Range(rq') = Range(rq)
    <3>1. rq \in Seq(Task) /\ OrderedBy(rq, pri) /\ Range(rq) = {u \in Task : state[u] = "READY"}
      BY DEF Data, Queue
    <3>2. Range(rq') = Range(rq) \ {t}
      BY <2>3, <3>1, DeleteKeeps
    <3>. QED
      BY <2>2, <3>1, <3>2
  <2>. QED
    BY <1>0, <2>3, <2>4, NeverReturnControl
<1>2. CASE tk_slp_tsk(c)
  BY <1>0, <1>2, RescheduleControl, ReturnControl DEF tk_slp_tsk, MakeWait, MakeNonReady, reap
<1>3. CASE tk_dly_tsk(c)
  BY <1>0, <1>3, RescheduleControl, ReturnControl DEF tk_dly_tsk, MakeWait, MakeNonReady, reap
<1>4. CASE CaughtDead(c)
  <2>1. Control'
    BY <1>4, QuietControl DEF CaughtDead, tcb, reap, disp
  <2>. QED
    BY <1>4, <2>1 DEF CaughtDead, CoreTypes, Slot, InCall, Dispatcher, disp
<1>. QED
  BY <1>1, <1>2, <1>3, <1>4 DEF CallByTask

\* tk_sta_tsk(): a dormant task that no processor executes becomes ready.
LEMMA StartKeepsState ==
    ASSUME Data, CoreTypes, Control, Ownership, NEW c \in Core, NEW by, NEW t \in Task,
           tk_sta_tsk(c, by, t)
    PROVE  Data' /\ CoreTypes' /\ Control'
<1>1. /\ Enter(c, by) /\ state[t] = "DORMANT"
      /\ state' = [state EXCEPT ![t] = "READY"] /\ rq' = ReadyInsert(rq, pri, t)
      /\ UNCHANGED <<pri, slp, sus, wup, stkfree, free, victim, disd>>
      /\ Reschedules(c)
  BY DEF tk_sta_tsk, reap
<1>2. TcbTypes' /\ Tcb(t)'
  BY <1>1 DEF Data, TcbTypes, State, Slot, Tcb, Waiting
<1>3. Data'
  BY <1>1, <1>2, OneTaskKeeps DEF Data, TcbTypes
<1>4. DisdTypes'
  BY <1>1 DEF CoreTypes, DisdTypes
<1>. QED
  BY <1>1, <1>3, <1>4, RescheduleControl

\* Dispatch control writes the dispatch-disable state of one processor.
LEMMA DispatchControlKeepsState ==
    ASSUME StateInv, NEW c \in Core, DispatchControl(c)
    PROVE  StateInv'
<1>1. CASE knl_dispatch_disabled_slot(c)
  <2>1. /\ UNCHANGED <<tcb, stkfree, free, victim, rq, ctxtsk, schedtsk, disd, online, pendsv,
                       ipi, lock, pc, back, sel, out, r7, stale, astray>>
        /\ slot' = [slot EXCEPT ![ctxtsk[c]] = c]
    BY <1>1 DEF knl_dispatch_disabled_slot, system, reap, slots, irqs, disp
  <2>2. Data'
    BY <2>1, NoTaskKeeps DEF StateInv, Data, TcbTypes
  <2>3. Control'
    BY <2>1, QuietControl DEF StateInv, tcb
  <2>. QED
    BY <2>1, <2>2, <2>3 DEF StateInv, CoreTypes, DspTypes, Slot, InCall, Dispatcher
<1>2. ASSUME NEW v \in {DDS_ENABLE, DDS_DISABLE}, Writes(c, v), pendsv' \in [Core -> BOOLEAN]
      PROVE  StateInv'
  <2>1. /\ UNCHANGED <<tcb, stkfree, free, victim, rq, ctxtsk, schedtsk, online,
                       ipi, lock, pc, back, sel, out, r7, stale>>
        /\ disd' = [disd EXCEPT ![slot[ctxtsk[c]]] = v]
        /\ slot' = [slot EXCEPT ![ctxtsk[c]] = NoCore]
        /\ astray' \in BOOLEAN
    BY <1>2 DEF Writes, reap, disp, StateInv, DspTypes
  <2>2. Data'
    BY <2>1, NoTaskKeeps DEF StateInv, Data, TcbTypes
  <2>3. Control'
    BY <2>1, QuietControl DEF StateInv, tcb
  <2>4. DspTypes'
    BY <2>1 DEF StateInv, DspTypes
  <2>5. CoreTypes'
    BY <1>2, <2>1 DEF StateInv, CoreTypes, Slot, InCall, Dispatcher
  <2>. QED
    BY <2>2, <2>3, <2>4, <2>5 DEF StateInv
<1>3. CASE tk_dis_dsp(c)
  BY <1>2, <1>3 DEF tk_dis_dsp, StateInv, CoreTypes
<1>4. CASE tk_ena_dsp(c)
  <2>1. pendsv' \in [Core -> BOOLEAN]
    BY <1>4 DEF tk_ena_dsp, StateInv, CoreTypes
  <2>. QED
    BY <1>2, <1>4, <2>1 DEF tk_ena_dsp
<1>. QED
  BY <1>1, <1>3, <1>4 DEF DispatchControl

\* The initial task is ready and published to processor 0; the control
\* blocks of the others are free.
LEMMA InitStateInv == Init => StateInv
<1>. SUFFICES ASSUME Init PROVE StateInv
  OBVIOUS
<1>. USE SchedAssumption, TaskAssumption
<1>1. TcbTypes
  BY DEF Init, TcbTypes, State, Slot
<1>2. Queue
  <2>1. rq = <<InitTask>> /\ rq \in Seq(Task) /\ DOMAIN rq = {1} /\ Range(rq) = {InitTask}
    BY DEF Init, Range
  <2>2. {t \in Task : state[t] = "READY"} = {InitTask}
    BY DEF Init
  <2>3. OrderedBy(rq, pri)
    BY <2>1 DEF OrderedBy
  <2>. QED
    BY <2>1, <2>2, <2>3 DEF Queue
<1>3. \A t \in Task : Tcb(t)
  BY DEF Init, Tcb, Waiting
<1>4. CoreTypes
  BY DEF Init, CoreTypes, Core, Empty, Slot, InCall, Dispatcher
<1>5. Control
  <2>1. VictimDormant /\ SelectionQueued
    BY DEF Init, VictimDormant, SelectionQueued
  <2>2. \A c \in Core : schedtsk[c] \in {InitTask, NoTask}
    BY DEF Init, Empty
  <2>3. PublishedQueued
    BY <1>2, <2>2 DEF Init, PublishedQueued, Queue
  <2>4. FreeUnpublished
    BY <2>2 DEF Init, FreeUnpublished
  <2>5. FreeNotCurrent
    BY DEF Init, FreeNotCurrent, IsCtx, Empty
  <2>. QED
    BY <2>1, <2>3, <2>4, <2>5 DEF Control
<1>6. DspTypes
  BY DEF Init, DspTypes
<1>. QED
  BY <1>1, <1>2, <1>3, <1>4, <1>5, <1>6 DEF StateInv, Data

\* Every step of the system.
LEMMA NextKeepsState == StateInv /\ Ownership /\ [Next]_vars => StateInv'
<1>. SUFFICES ASSUME StateInv, Ownership, [Next]_vars PROVE StateInv'
  OBVIOUS
<1>. USE DEF StateInv
<1>0. UNCHANGED dsp => DspTypes'
  BY DEF dsp, DspTypes
<1>1. ASSUME NEW c \in Core, CallByTask(c), UNCHANGED dsp PROVE StateInv'
  BY <1>0, <1>1, CallByTaskData, CallByTaskControl
<1>2. ASSUME NEW c \in Core, EndOfCall(c), UNCHANGED dsp PROVE StateInv'
  BY <1>0, <1>2, EndOfCallKeepsState
<1>3. ASSUME NEW c \in Core, Dispatch(c), UNCHANGED dsp PROVE StateInv'
  BY <1>0, <1>3, DispatchKeepsState
<1>4. ASSUME NEW c \in Core, TakeIpi(c), UNCHANGED dsp PROVE StateInv'
  <2>1. Data' /\ Control'
    BY <1>4, NoTaskKeeps, QuietControl DEF TakeIpi, Goes, Data, TcbTypes, tcb, disp
  <2>2. CoreTypes'
    BY <1>4 DEF TakeIpi, Goes, CoreTypes, Slot, InCall, Dispatcher, disp
  <2>. QED
    BY <1>0, <1>4, <2>1, <2>2
<1>5. ASSUME NEW c \in Core, NEW by, CallBy(c, by), UNCHANGED dsp PROVE StateInv'
  BY <1>0, <1>5, CallByData, CallByControl
<1>6. ASSUME Announce \/ StartCore1, UNCHANGED dsp PROVE StateInv'
  <2>0. 1 \in Core
    BY DEF Core
  <2>1. Data' /\ Control'
    BY <1>6, <2>0, NoTaskKeeps, QuietControl
    DEF Announce, StartCore1, Goes, Data, TcbTypes, tcb, disp
  <2>2. PICK c \in Core : c = 1
    BY <2>0
  <2>3. CoreTypes
    BY DEF StateInv
  <2>4. ASSUME Announce PROVE CoreTypes'
    <3>1. pc' = [pc EXCEPT ![c] = "ready"]
      BY <2>2, <2>4 DEF Announce, Goes
    <3>2. UNCHANGED <<ctxtsk, schedtsk, disd, online, pendsv, ipi, lock, back, sel, out, r7, stale>>
      BY <2>4 DEF Announce, Goes, irqs, disp
    <3>. QED
      BY <2>3, <3>1, <3>2 DEF CoreTypes, Slot, InCall, Dispatcher
  <2>5. ASSUME StartCore1 PROVE CoreTypes'
    <3>1. /\ pc' = [pc EXCEPT ![c] = "run"]
          /\ disd' = [disd EXCEPT ![c] = DDS_DISABLE_IMPLICIT]
          /\ pendsv' = [pendsv EXCEPT ![c] = TRUE]
      BY <2>2, <2>5 DEF StartCore1, Goes
    <3>2. UNCHANGED <<ctxtsk, schedtsk, online, ipi, lock, back, sel, out, r7, stale>>
      BY <2>5 DEF StartCore1, Goes, disp
    <3>. QED
      BY <2>3, <3>1, <3>2 DEF CoreTypes, Slot, InCall, Dispatcher
  <2>. QED
    BY <1>0, <1>6, <2>1, <2>4, <2>5
<1>7. ASSUME GoOnline, UNCHANGED dsp PROVE StateInv'
  <2>1. Data' /\ Control'
    BY <1>7, NoTaskKeeps, QuietControl DEF GoOnline, Data, TcbTypes, tcb, reap, disp, Core
  <2>2. CoreTypes'
    BY <1>7 DEF GoOnline, CoreTypes, Slot, InCall, Dispatcher, irqs, disp
  <2>. QED
    BY <1>0, <1>7, <2>1, <2>2
<1>8. ASSUME NEW c \in Core, NEW by, NEW t \in Task, tk_sta_tsk(c, by, t) PROVE StateInv'
  <2>1. DspTypes'
    BY <1>8 DEF tk_sta_tsk, DspTypes
  <2>. QED
    BY <1>8, <2>1, StartKeepsState
<1>9. ASSUME NEW c \in Core, DispatchControl(c) PROVE StateInv'
  BY <1>9, DispatchControlKeepsState
<1>10. CASE UNCHANGED vars
  <2>1. Data' /\ Control'
    BY <1>10, NoTaskKeeps, QuietControl
    DEF vars, system, dsp, Data, TcbTypes, tcb, reap, slots, disp, Core
  <2>2. CoreTypes' /\ DspTypes'
    BY <1>10 DEF vars, system, dsp, CoreTypes, DspTypes, Slot, InCall, Dispatcher, slots, irqs, disp
  <2>. QED
    BY <2>1, <2>2
<1>. HIDE DEF StateInv
<1>. QED
  BY <1>1, <1>2, <1>3, <1>4, <1>5, <1>6, <1>7, <1>8, <1>9, <1>10 DEF Next, Step

-----------------------------------------------------------------------------
\* The invariant of the tasks, their queue and the slots, in every reachable
\* state.
THEOREM StateInvariant == Spec => []StateInv
BY InitStateInv, NextKeepsState, OwnershipInvariant, PTL DEF Spec

\* Every variable keeps its range; that tk_rsm_tsk() never counts below zero
\* needs SuspensionCounted.
THEOREM TypesHold == Spec => []TypeOK
<1>1. StateInv => TypeOK
  BY DEF StateInv, Data, TcbTypes, Queue, CoreTypes, DspTypes, TypeOK
<1>. QED
  BY <1>1, StateInvariant, PTL

\* Between critical sections the ready queue holds the READY tasks, each
\* once, in the order of their priorities.
THEOREM ReadyQueueHolds == Spec => []QueueHoldsReady
<1>1. StateInv => QueueHoldsReady
  BY DEF StateInv, Data, Queue, OrderedBy, QueueHoldsReady
<1>. QED
  BY <1>1, StateInvariant, PTL

\* Whenever the kernel lock is free, what is published is in the ready queue.
THEOREM PublishedTasksReady == Spec => []PublishedIsReady
<1>1. StateInv /\ Ownership => PublishedIsReady
  <2>. SUFFICES ASSUME StateInv, Ownership, lock = NoCore,
                       NEW c \in Core, schedtsk[c] # NoTask
                PROVE  schedtsk[c] \in Range(rq)
    BY DEF PublishedIsReady
  <2>1. \A p \in Core : pc[p] # "publish"
    BY SchedAssumption DEF Ownership, PublisherLocks, Locked
  <2>. QED
    BY <2>1 DEF StateInv, Control, PublishedQueued
<1>. QED
  BY <1>1, StateInvariant, OwnershipInvariant, PTL

\* Suspension requests are counted, in whatever order they are made.
THEOREM SuspensionsCounted == Spec => []SuspensionCounted
<1>1. StateInv => SuspensionCounted
  BY DEF StateInv, Data, Tcb, SuspensionCounted
<1>. QED
  BY <1>1, StateInvariant, PTL

\* No task sleeps while a wakeup request for it is queued.
THEOREM WakeupsKept == Spec => []NoLostWakeup
<1>1. StateInv => NoLostWakeup
  BY DEF StateInv, Data, Tcb, NoLostWakeup
<1>. QED
  BY <1>1, StateInvariant, PTL

\* A free control block is executed by no processor and in no queue.
THEOREM FreeBlocksUnused == Spec => []FreeIsUnused
<1>1. StateInv => FreeIsUnused
  BY DEF StateInv, Data, TcbTypes, Queue, Tcb, Control, FreeNotCurrent, FreeIsUnused
<1>. QED
  BY <1>1, StateInvariant, PTL

-----------------------------------------------------------------------------
(***************************************************************************)
(* Proofs that no dispatch of module SmpSched is lost and that no waiting  *)
(* task executes, short of the two errors that "stale" and "astray" record *)
(* (a task installed after its slot changed, a dispatch-disable state      *)
(* written by a migrated task).                                            *)
(*                                                                         *)
(* A processor looks at its slot only when it leaves a call, and only if   *)
(* dispatching is enabled.  So the argument follows the difference between *)
(* ctxtsk and schedtsk through the call (DifferencePends), and needs that  *)
(* a call on a processor with dispatching disabled publishes its current   *)
(* task again: what is published is ready, its mask is its processor, and  *)
(* the matcher finds no other task for that processor (KeepsDisabled).     *)
(***************************************************************************)
-----------------------------------------------------------------------------
(***************************************************************************)
(* The inductive invariant.                                                *)
(***************************************************************************)
\* The processor executes a task, or a call that returns to it: it is not in
\* its dispatcher.
Executing(c) == pc[c] = "run" \/ (pc[c] \in InCall /\ back[c] = "run")

\* What the dispatcher would install now.
Wanted(c) == IF schedtsk[c] = NoTask THEN Idle ELSE schedtsk[c]

\* Dispatching is disabled implicitly only until a dispatch that is due.
ImplicitPends(c) ==
    Executing(c) /\ (disd[c] = DDS_DISABLE_IMPLICIT \/ ctxtsk[c] = NoTask) => pendsv[c]

\* tk_dis_dsp() is called by a task.
DisabledHasTask(c) == Executing(c) /\ disd[c] = DDS_DISABLE => ctxtsk[c] \in Task

\* A dispatch is requested, or END_CRITICAL_SECTION will request it.
DifferencePends(c) ==
    Executing(c) /\ ctxtsk[c] # Wanted(c)
    => pendsv[c] \/ ipi[c] \/ (pc[c] \in InCall /\ disd[c] = DDS_ENABLE)

\* The idle context about to be installed is still wanted, or an interrupt is
\* on its way.
LoadedIdle(c) ==
    pc[c] = "store" =>
      r7[c] # NoTask /\ (r7[c] = Idle /\ schedtsk[c] # NoTask => pendsv[c] \/ ipi[c])

\* With dispatching disabled, the current task is selected again.
DisabledKeeps(c) ==
    pc[c] = "publish" /\ back[c] = "run" /\ disd[c] = DDS_DISABLE /\ schedtsk[c] = ctxtsk[c]
    => sel[c][c] = ctxtsk[c]

\* A waiting task is published nowhere, once its call has published.
PublishedAwake(c) ==
    \A t \in Task : schedtsk[c] = t /\ state[t] \in Waiting => pc[c] = "publish"

\* The processor of a waiting task dispatches when the call ends.
WaitingPends(c) ==
    \A t \in Task :
      Executing(c) /\ ctxtsk[c] = t /\ state[t] \in Waiting
      => pendsv[c] \/ (pc[c] \in InCall /\ disd[c] = DDS_ENABLE)

Due(c) == /\ ImplicitPends(c) /\ DisabledHasTask(c) /\ DifferencePends(c) /\ LoadedIdle(c)
          /\ DisabledKeeps(c) /\ PublishedAwake(c) /\ WaitingPends(c)

\* Nothing is selected or published outside of its affinity.
WithinAffinity ==
    \A t \in Task, c \in Core :
      /\ schedtsk[c] = t => c \in Affinity[t]
      /\ \A p \in Core : pc[p] = "publish" /\ sel[p][c] = t => c \in Affinity[t]

DispatchInv == WithinAffinity /\ (~stale /\ ~astray => \A c \in Core : Due(c))

-----------------------------------------------------------------------------
(***************************************************************************)
(* System calls.                                                           *)
(***************************************************************************)
\* What a call selects respects the affinities.
LEMMA SelectWithin ==
    ASSUME CoreTypes, WithinAffinity, NEW p \in Core, Select(p)
    PROVE  \A t \in Task, c \in Core : sel'[p][c] = t => c \in Affinity[t]
<1>. DEFINE chosen == Assign(rq', ctxtsk, schedtsk, disd', online)
<1>1. sel'[p] = Guarded(chosen, schedtsk)
  <2>1. sel' = [sel EXCEPT ![p] = Guarded(chosen, schedtsk)]
    BY DEF Select
  <2>. HIDE DEF chosen
  <2>. QED
    BY <2>1 DEF CoreTypes
<1>. HIDE DEF chosen
<1>. QED
  BY <1>1, GuardsAffinity, TaskAssumption

\* While its processor has dispatching disabled, a task that stays ready and
\* is published there is selected again.
LEMMA SelectDisabled ==
    ASSUME CoreTypes, Ownership, WithinAffinity, ~stale, NEW p \in Core, Select(p),
           NEW t \in Task, t \in Range(rq'), rq' \in Seq(Task),
           ctxtsk[p] = t, schedtsk[p] = t, disd'[p] = DDS_DISABLE
    PROVE  sel'[p][p] = t
<1>1. sel'[p] = Guarded(Assign(rq', ctxtsk, schedtsk, disd', online), schedtsk)
  <2>. DEFINE chosen == Guarded(Assign(rq', ctxtsk, schedtsk, disd', online), schedtsk)
  <2>1. sel' = [sel EXCEPT ![p] = chosen]
    BY DEF Select
  <2>. HIDE DEF chosen
  <2>2. sel'[p] = chosen
    BY <2>1 DEF CoreTypes
  <2>. QED
    BY <2>2 DEF chosen
<1>2. p \in online /\ online \subseteq Core
  BY TaskAssumption DEF Ownership, OfflineEmpty, CoreTypes
<1>3. ctxtsk[Other(p)] # t /\ schedtsk[Other(p)] # t
  BY DEF Ownership, CurrentIsOwned
<1>4. p \in Affinity[t]
  BY DEF WithinAffinity
<1>. QED
  BY <1>1, <1>2, <1>3, <1>4, KeepsDisabled, TaskAssumption

\* A call opens its critical section.  It may enable dispatching; if it takes
\* a task out of the ready queue, the processor of that task has dispatching
\* enabled, or the call does not return; it lets only its caller wait.
LEMMA CallDue ==
    ASSUME Data, Data', CoreTypes, Control, Ownership, DispatchInv,
           NEW c \in Core, NEW x \in InCall, NEW y \in {pc[c], "abandon"},
           pc[c] \in {"run", "save", "release", "load"}, lock = NoCore,
           pc' = [pc EXCEPT ![c] = x], back' = [back EXCEPT ![c] = y],
           UNCHANGED <<ctxtsk, schedtsk, online, irqs, disp, astray>>,
           \/ x = "publish" /\ Select(c)
           \/ x # "publish" /\ sel' = sel,
           \A d \in Core : disd'[d] \in {disd[d], DDS_ENABLE},
           \A t \in Task : ~stale /\ state[t] = "READY" /\ state'[t] # "READY"
             => y = "abandon" \/ \A d \in Core : ctxtsk[d] = t => disd'[d] # DDS_DISABLE,
           \A t \in Task : state[t] \notin Waiting /\ state'[t] \in Waiting
             => ctxtsk[c] = t /\ disd'[c] = DDS_ENABLE /\ (state[t] = "READY" => x = "publish")
    PROVE  DispatchInv'
<1>1. \A d \in Core : pc[d] \notin Locked
  BY SchedAssumption DEF Ownership, PublisherLocks
<1>2. \A d \in Core : /\ pc'[d] = IF d = c THEN x ELSE pc[d]
                      /\ back'[d] = IF d = c THEN y ELSE back[d]
  BY DEF CoreTypes
<1>3. UNCHANGED <<ctxtsk, schedtsk, online, pendsv, ipi, out, r7, stale, astray>>
  BY DEF irqs, disp
<1>4. WithinAffinity'
  BY <1>1, <1>2, <1>3, SelectWithin DEF DispatchInv, WithinAffinity, Locked
<1>5. \A d \in Core : schedtsk[d] \in Range(rq) \cup {NoTask}
  BY <1>1 DEF Control, PublishedQueued, Locked
<1>6. ASSUME NEW d \in Core, Executing(d)'
      PROVE  Executing(d) /\ (d = c => pc[d] = "run" /\ y = "run")
  BY <1>2, <1>6 DEF Executing, InCall
<1>. SUFFICES ASSUME ~stale, ~astray, \A e \in Core : Due(e), NEW d \in Core PROVE Due(d)'
  BY <1>3, <1>4 DEF DispatchInv
<1>7. ImplicitPends(d)' /\ DisabledHasTask(d)'
  BY <1>3, <1>6 DEF Due, ImplicitPends, DisabledHasTask, DDS_ENABLE, DDS_DISABLE, DDS_DISABLE_IMPLICIT
<1>8. DifferencePends(d)'
  BY <1>2, <1>3, <1>6 DEF Due, DifferencePends, Wanted, InCall
<1>9. LoadedIdle(d)'
  BY <1>2, <1>3 DEF Due, LoadedIdle, InCall
<1>10. DisabledKeeps(d)'
  <2>. SUFFICES ASSUME pc'[d] = "publish", back'[d] = "run",
                       disd'[d] = DDS_DISABLE, schedtsk[d] = ctxtsk[d]
                PROVE  sel'[d][d] = ctxtsk[d]
    BY <1>3 DEF DisabledKeeps
  <2>1. d = c /\ x = "publish" /\ y = "run" /\ pc[c] = "run" /\ disd[c] = DDS_DISABLE
    BY <1>1, <1>2 DEF Locked, DDS_ENABLE, DDS_DISABLE
  <2>2. PICK t \in Task : ctxtsk[c] = t
    BY <2>1 DEF Due, DisabledHasTask, Executing
  <2>3. t \in Range(rq)
    BY <1>5, <2>1, <2>2, TaskAssumption
  <2>4. state[t] = "READY" /\ state'[t] = "READY"
    BY <2>1, <2>2, <2>3 DEF Data, Queue
  <2>5. t \in Range(rq') /\ rq' \in Seq(Task)
    BY <2>4 DEF Data, Queue
  <2>. QED
    BY <2>1, <2>2, <2>5, SelectDisabled DEF DispatchInv
<1>11. PublishedAwake(d)'
  <2>. SUFFICES ASSUME NEW t \in Task, schedtsk[d] = t, state'[t] \in Waiting
                PROVE  pc'[d] = "publish"
    BY <1>3 DEF PublishedAwake
  <2>1. state[t] = "READY"
    BY <1>5, TaskAssumption DEF Data, Queue
  <2>2. ctxtsk[c] = t /\ x = "publish"
    BY <2>1 DEF Waiting
  <2>3. d = c
    BY <2>2 DEF Ownership, CurrentIsOwned, Core, Other
  <2>. QED
    BY <1>2, <2>2, <2>3
<1>12. WaitingPends(d)'
  <2>. SUFFICES ASSUME NEW t \in Task, Executing(d)', ctxtsk[d] = t, state'[t] \in Waiting
                PROVE  pendsv[d] \/ (pc'[d] \in InCall /\ disd'[d] = DDS_ENABLE)
    BY <1>3 DEF WaitingPends
  <2>1. CASE state[t] \in Waiting
    BY <1>2, <1>6, <2>1 DEF Due, WaitingPends, InCall
  <2>2. CASE state[t] \notin Waiting
    <3>1. ctxtsk[c] = t /\ disd'[c] = DDS_ENABLE
      BY <2>2
    <3>2. d = c
      BY <3>1 DEF Ownership, CurrentIsOwned, Core, Other
    <3>. QED
      BY <1>2, <3>1, <3>2
  <2>. QED
    BY <2>1, <2>2
<1>. QED
  BY <1>7, <1>8, <1>9, <1>10, <1>11, <1>12 DEF Due

\* A call that reschedules.
LEMMA RescheduleDue ==
    ASSUME Data, Data', CoreTypes, Control, Ownership, DispatchInv,
           NEW c \in Core, NEW by, Enter(c, by), Reschedules(c), astray' = astray,
           \A d \in Core : disd'[d] \in {disd[d], DDS_ENABLE},
           \A t \in Task : ~stale /\ state[t] = "READY" /\ state'[t] # "READY"
             => \A d \in Core : ctxtsk[d] = t => disd'[d] # DDS_DISABLE,
           \A t \in Task : state[t] \notin Waiting /\ state'[t] \in Waiting
             => ctxtsk[c] = t /\ disd'[c] = DDS_ENABLE
    PROVE  DispatchInv'
<1>1. pc[c] \in {"run", "save", "release", "load"} /\ lock = NoCore
  BY DEF Enter, AtCall, InTask
<1>. QED
  BY <1>1, CallDue DEF Reschedules, InCall

\* A call that leaves the selections alone, and every ready task ready.
LEMMA ReturnDue ==
    ASSUME Data, Data', CoreTypes, Control, Ownership, DispatchInv,
           NEW c \in Core, NEW by, Enter(c, by), Returns(c), astray' = astray,
           \A d \in Core : disd'[d] \in {disd[d], DDS_ENABLE},
           \A t \in Task : state[t] = "READY" => state'[t] = "READY",
           \A t \in Task : state[t] \notin Waiting /\ state'[t] \in Waiting
             => ctxtsk[c] = t /\ disd'[c] = DDS_ENABLE
    PROVE  DispatchInv'
<1>1. pc[c] \in {"run", "save", "release", "load"} /\ lock = NoCore
  BY DEF Enter, AtCall, InTask
<1>. QED
  BY ZenonT(30), <1>1, CallDue DEF Returns, InCall, Waiting

\* A call that does not return.
LEMMA NeverReturnDue ==
    ASSUME Data, Data', CoreTypes, Control, Ownership, DispatchInv,
           NEW c \in Core, NEW by, Enter(c, by), NEW r \in BOOLEAN, NeverReturns(c, r),
           astray' = astray, disd' = disd,
           \A t \in Task : state'[t] \in Waiting => state[t] \in Waiting
    PROVE  DispatchInv'
<1>1. pc[c] \in {"run", "save", "release", "load"} /\ lock = NoCore
  BY DEF Enter, AtCall, InTask
<1>. QED
  BY <1>1, CallDue DEF NeverReturns, InCall

\* The calls that a task or a handler makes.
LEMMA CallByDue ==
    ASSUME Data, Data', CoreTypes, Control, Ownership, DispatchInv,
           NEW c \in Core, NEW by, CallBy(c, by), astray' = astray
    PROVE  DispatchInv'
<1>. USE DEF Data, TcbTypes, Waiting
<1>1. CASE NoEffect(c, by)
  BY <1>1, ReturnDue DEF NoEffect, tcb
<1>2. ASSUME NEW t \in Task, tk_cre_tsk(c, by, t) PROVE DispatchInv'
  BY <1>2, ReturnDue DEF tk_cre_tsk, Dormant, Tcb
<1>3. ASSUME NEW t \in Task, tk_del_tsk(c, by, t) PROVE DispatchInv'
  <2>1. CASE Returns(c) /\ state' = [state EXCEPT ![t] = "NONEXIST"]
    BY <1>3, <2>1, ReturnDue DEF tk_del_tsk
  <2>2. CASE /\ pc' = [pc EXCEPT ![c] = "reserve"]
             /\ back' = [back EXCEPT ![c] = pc[c]]
             /\ UNCHANGED <<state, free, sel, ctxtsk, schedtsk, online, irqs, disp>>
    <3>1. "reserve" \in InCall
      BY DEF InCall
    <3>2. pc[c] \in {"run", "save", "release", "load"} /\ lock = NoCore /\ disd' = disd
      BY <1>3 DEF tk_del_tsk, Enter, AtCall, InTask
    <3>. QED
      BY <2>2, <3>1, <3>2, CallDue
  <2>. QED
    BY <1>3, <2>1, <2>2 DEF tk_del_tsk
<1>4. ASSUME NEW t \in Task, tk_ter_tsk(c, by, t) PROVE DispatchInv'
  <2>1. /\ Enter(c, by)
        /\ disd' = [d \in Core |-> IF ctxtsk[d] = t THEN DDS_ENABLE ELSE disd[d]]
        /\ state' = [state EXCEPT ![t] = "DORMANT"]
        /\ IF state[t] = "READY" THEN Reschedules(c) ELSE Returns(c)
    BY <1>4 DEF tk_ter_tsk, Dormant
  <2>2. \A d \in Core : disd'[d] \in {disd[d], DDS_ENABLE} /\ (ctxtsk[d] = t => disd'[d] # DDS_DISABLE)
    BY <2>1 DEF DDS_ENABLE, DDS_DISABLE
  <2>. QED
    BY <2>1, <2>2, RescheduleDue, ReturnDue
<1>5. ASSUME NEW t \in Task, tk_sus_tsk(c, by, t) PROVE DispatchInv'
  <2>1. /\ Enter(c, by) /\ disd' = disd
        /\ \A d \in Core : ctxtsk[d] = t => disd[d] # DDS_DISABLE
    BY <1>5 DEF tk_sus_tsk, reap, DDS_DISABLE
  <2>2. CASE state[t] = "READY" /\ MakeNonReady(c, t, "SUSPEND")
    BY <2>1, <2>2, RescheduleDue DEF MakeNonReady
  <2>3. CASE /\ state[t] # "READY" /\ Returns(c)
             /\ state' = [state EXCEPT ![t] = IF @ = "WAIT" THEN "WAITSUS" ELSE @]
    BY <2>1, <2>3, ReturnDue
  <2>. QED
    BY <1>5, <2>2, <2>3 DEF tk_sus_tsk
<1>6. ASSUME NEW t \in Task, tk_rsm_tsk(c, by, t) PROVE DispatchInv'
  BY <1>6, RescheduleDue, ReturnDue DEF tk_rsm_tsk, MakeReady
<1>7. ASSUME NEW t \in Task, tk_wup_tsk(c, by, t) PROVE DispatchInv'
  BY <1>7, RescheduleDue, ReturnDue DEF tk_wup_tsk, MakeNonWait, MakeReady
<1>8. ASSUME NEW t \in Task, tk_can_wup(c, by, t) PROVE DispatchInv'
  BY <1>8, ReturnDue DEF tk_can_wup
<1>9. ASSUME NEW t \in Task, ReleaseWait(c, by, t) PROVE DispatchInv'
  BY <1>9, RescheduleDue, ReturnDue DEF ReleaseWait, MakeNonWait, MakeReady
<1>10. ASSUME NEW t \in Task, NEW p \in Pri, tk_chg_pri(c, by, t, p) PROVE DispatchInv'
  BY <1>10, RescheduleDue, ReturnDue DEF tk_chg_pri
<1>11. ASSUME NEW p \in Pri, tk_rot_rdq(c, by, p) PROVE DispatchInv'
  BY <1>11, RescheduleDue DEF tk_rot_rdq, tcb
<1>. QED
  BY <1>1, <1>2, <1>3, <1>4, <1>5, <1>6, <1>7, <1>8, <1>9, <1>10, <1>11 DEF CallBy

\* tk_sta_tsk().
LEMMA StartDue ==
    ASSUME Data, Data', CoreTypes, Control, Ownership, DispatchInv,
           NEW c \in Core, NEW by, NEW t \in Task, tk_sta_tsk(c, by, t)
    PROVE  DispatchInv'
BY RescheduleDue DEF tk_sta_tsk, Data, TcbTypes, Waiting

-----------------------------------------------------------------------------
(***************************************************************************)
(* The end of a call, and the dispatcher.                                  *)
(***************************************************************************)
\* A step of processor p that changes no slot, and makes no task wait.
LEMMA LocalDue ==
    ASSUME DispatchInv, NEW p \in Core, schedtsk' = schedtsk,
           \A d \in Core \ {p} :
             /\ pc'[d] = pc[d] /\ back'[d] = back[d] /\ sel'[d] = sel[d] /\ r7'[d] = r7[d]
             /\ ctxtsk'[d] = ctxtsk[d] /\ disd'[d] = disd[d]
             /\ pendsv'[d] = pendsv[d] /\ ipi'[d] = ipi[d],
           \A t \in Task : state'[t] \in Waiting => state[t] \in Waiting,
           pc'[p] # "publish", stale => stale', astray => astray',
           ~stale' /\ ~astray' /\ Due(p) => Due(p)'
    PROVE  DispatchInv'
<1>1. WithinAffinity'
  BY DEF DispatchInv, WithinAffinity
<1>2. ASSUME NEW d \in Core \ {p}, Due(d) PROVE Due(d)'
  BY <1>2 DEF Due, ImplicitPends, DisabledHasTask, DifferencePends, LoadedIdle, DisabledKeeps,
              PublishedAwake, WaitingPends, Executing, Wanted
<1>. QED
  BY <1>1, <1>2 DEF DispatchInv

\* The publication: the slots that change are announced, except the
\* publisher's own one, which does not change while dispatching is disabled
\* there.
LEMMA PublishDue ==
    ASSUME Data, CoreTypes, Control, Ownership, DispatchInv, NEW c \in Core, Publish(c),
           astray' = astray
    PROVE  DispatchInv'
<1>1. /\ pc[c] = "publish" /\ lock = c
      /\ schedtsk' = [d \in Core |-> IF d \in online THEN sel[c][d] ELSE schedtsk[d]]
      /\ ipi' = [d \in Core |-> ipi[d] \/ (d # c /\ schedtsk'[d] # schedtsk[d])]
      /\ pc' = [pc EXCEPT ![c] = IF back[c] = "abandon" THEN "abandon" ELSE "leave"]
      /\ UNCHANGED <<state, rq, ctxtsk, disd, online, pendsv, lock, back, r7, stale>>
  BY DEF Publish, Ownership, PublisherLocks, Locked, tcb, disp
<1>2. \A d \in Core : /\ pc'[d] # "publish" /\ (d # c => pc'[d] = pc[d])
                      /\ (pc'[d] \in InCall <=> pc[d] \in InCall)
  <2>1. \A d \in Core : d # c => pc[d] \notin Locked
    BY <1>1, SchedAssumption DEF Ownership, PublisherLocks
  <2>. QED
    BY <1>1, <2>1 DEF CoreTypes, Locked, InCall
<1>3. \A d \in Core : Executing(d)' => Executing(d)
  BY <1>1, <1>2 DEF Executing, InCall
<1>4. \A d \in Core : schedtsk'[d] \in {sel[c][d], schedtsk[d]}
  BY <1>1
<1>5. WithinAffinity'
  BY <1>1, <1>2, <1>4 DEF DispatchInv, WithinAffinity
<1>6. \A d \in Core : schedtsk'[d] \in Range(rq) \cup {NoTask}
  BY <1>1 DEF Control, SelectionQueued, Ownership, OfflineEmpty
<1>. SUFFICES ASSUME ~stale, ~astray, \A e \in Core : Due(e), NEW d \in Core PROVE Due(d)'
  BY <1>1, <1>5 DEF DispatchInv
<1>7. schedtsk'[d] # schedtsk[d] => d = c \/ ipi'[d]
  BY <1>1
<1>8. ImplicitPends(d)' /\ DisabledHasTask(d)' /\ WaitingPends(d)'
  BY <1>1, <1>2, <1>3 DEF Due, ImplicitPends, DisabledHasTask, WaitingPends
<1>9. DifferencePends(d)'
  <2>. SUFFICES ASSUME Executing(d), ctxtsk[d] # Wanted(d)'
                PROVE  pendsv[d] \/ ipi'[d] \/ (pc[d] \in InCall /\ disd[d] = DDS_ENABLE)
    BY <1>1, <1>2, <1>3 DEF DifferencePends
  <2>1. CASE schedtsk'[d] = schedtsk[d]
    BY <1>1, <2>1 DEF Due, DifferencePends, Wanted
  <2>2. CASE schedtsk'[d] # schedtsk[d] /\ d = c
    <3>1. back[c] = "run" /\ pc[c] \in InCall
      BY <1>1, <2>2 DEF Executing, InCall
    <3>2. CASE disd[c] = DDS_ENABLE
      BY <2>2, <3>1, <3>2
    <3>3. CASE disd[c] = DDS_DISABLE_IMPLICIT
      BY <2>2, <3>3 DEF Due, ImplicitPends
    <3>4. CASE disd[c] = DDS_DISABLE
      <4>1. ctxtsk[c] \in Task /\ ctxtsk[c] # Idle /\ ctxtsk[c] # NoTask
        BY <2>2, <3>4, SchedAssumption, TaskAssumption DEF Due, DisabledHasTask
      <4>2. schedtsk[c] # ctxtsk[c]
        <5>1. SUFFICES ASSUME schedtsk[c] = ctxtsk[c] PROVE FALSE
          OBVIOUS
        <5>2. sel[c][c] = ctxtsk[c]
          BY <1>1, <3>1, <3>4, <5>1 DEF Due, DisabledKeeps
        <5>. QED
          BY <1>4, <2>2, <5>1, <5>2
      <4>3. pendsv[c] \/ ipi[c]
        BY <2>2, <3>4, <4>1, <4>2
        DEF Due, DifferencePends, Wanted, DDS_ENABLE, DDS_DISABLE
      <4>. QED
        BY <1>1, <2>2, <4>3
    <3>. QED
      BY <3>2, <3>3, <3>4 DEF CoreTypes
  <2>. QED
    BY <1>7, <2>1, <2>2
<1>10. LoadedIdle(d)'
  <2>1. pc'[d] = "store" => d # c /\ pc[d] = "store"
    BY <1>1, <1>2 DEF InCall
  <2>2. ipi[d] => ipi'[d]
    BY <1>1
  <2>. QED
    BY <1>1, <1>7, <2>1, <2>2 DEF Due, LoadedIdle
<1>11. DisabledKeeps(d)'
  BY <1>2 DEF DisabledKeeps
<1>12. PublishedAwake(d)'
  BY <1>1, <1>6, TaskAssumption DEF PublishedAwake, Data, Queue, Waiting
<1>. QED
  BY <1>8, <1>9, <1>10, <1>11, <1>12 DEF Due

\* The rest of a call: END_CRITICAL_SECTION and knl_force_dispatch().
LEMMA EndOfCallDue ==
    ASSUME Data, CoreTypes, Control, Ownership, DispatchInv, NEW c \in Core, EndOfCall(c),
           astray' = astray
    PROVE  DispatchInv'
<1>. USE DEF Data, TcbTypes
<1>1. CASE Publish(c)
  BY <1>1, PublishDue
<1>2. CASE Reserve(c)
  <2>1. /\ pc[c] = "reserve" /\ pc' = [pc EXCEPT ![c] = "leave"]
        /\ state' = [state EXCEPT ![victim] = "NONEXIST"]
        /\ UNCHANGED <<ctxtsk, schedtsk, disd, pendsv, ipi, back, sel, r7, stale>>
    BY <1>2 DEF Reserve, slots, irqs, disp
  <2>2. pc'[c] = "leave" /\ (pc'[c] \in InCall <=> pc[c] \in InCall)
    BY <2>1 DEF CoreTypes, InCall
  <2>3. \A t \in Task : state'[t] \in Waiting => state[t] \in Waiting
    BY <2>1 DEF Waiting
  <2>4. Due(c) => Due(c)'
    BY <2>1, <2>2, <2>3
    DEF Due, ImplicitPends, DisabledHasTask, DifferencePends, LoadedIdle, DisabledKeeps,
        PublishedAwake, WaitingPends, Executing, Wanted
  <2>. QED
    BY <2>1, <2>2, <2>3, <2>4, LocalDue DEF CoreTypes
<1>3. CASE Leave(c)
  <2>1. /\ pc[c] = "leave" /\ pc' = [pc EXCEPT ![c] = "check"]
        /\ UNCHANGED <<state, ctxtsk, schedtsk, disd, pendsv, ipi, back, sel, r7, stale>>
    BY <1>3 DEF Leave, tcb, slots, irqs, disp
  <2>2. pc'[c] = "check" /\ (pc'[c] \in InCall <=> pc[c] \in InCall)
    BY <2>1 DEF CoreTypes, InCall
  <2>3. Due(c) => Due(c)'
    BY <2>1, <2>2
    DEF Due, ImplicitPends, DisabledHasTask, DifferencePends, LoadedIdle, DisabledKeeps,
        PublishedAwake, WaitingPends, Executing, Wanted
  <2>. QED
    BY <2>1, <2>2, <2>3, LocalDue DEF CoreTypes
<1>4. CASE Check(c)
  <2>1. /\ pc[c] = "check" /\ pc' = [pc EXCEPT ![c] = back[c]]
        /\ pendsv' = [pendsv EXCEPT ![c] =
                        @ \/ (ctxtsk[c] # schedtsk[c] /\ disd[c] = DDS_ENABLE)]
        /\ UNCHANGED <<state, ctxtsk, schedtsk, disd, ipi, back, sel, r7, stale>>
    BY <1>4 DEF Check, tcb, slots, disp
  <2>2. /\ pc'[c] = back[c] /\ pc'[c] \in {"run", "save", "release", "load"}
        /\ Executing(c)' => Executing(c)
        /\ pendsv'[c] <=> pendsv[c] \/ (ctxtsk[c] # schedtsk[c] /\ disd[c] = DDS_ENABLE)
    BY <2>1 DEF CoreTypes, InCall, Ownership, ReturnsOutside, Executing
  <2>3. ASSUME Due(c) PROVE Due(c)'
    <3>1. ImplicitPends(c)' /\ DisabledHasTask(c)'
      BY <2>1, <2>2, <2>3 DEF Due, ImplicitPends, DisabledHasTask
    <3>2. DifferencePends(c)'
      <4>1. CASE ctxtsk[c] = schedtsk[c] /\ ctxtsk[c] # Wanted(c)
        BY <2>1, <2>2, <2>3, <4>1 DEF Due, ImplicitPends, DifferencePends, Wanted
      <4>2. CASE ctxtsk[c] # schedtsk[c] \/ ctxtsk[c] = Wanted(c)
        BY <2>1, <2>2, <2>3, <4>2 DEF Due, DifferencePends, Wanted
      <4>. QED
        BY <4>1, <4>2
    <3>3. LoadedIdle(c)' /\ DisabledKeeps(c)'
      BY <2>2 DEF LoadedIdle, DisabledKeeps
    <3>4. PublishedAwake(c)'
      BY <2>1, <2>2, <2>3 DEF Due, PublishedAwake
    <3>5. WaitingPends(c)'
      BY <2>1, <2>2, <2>3 DEF Due, PublishedAwake, WaitingPends
    <3>. QED
      BY <3>1, <3>2, <3>3, <3>4, <3>5 DEF Due
  <2>. QED
    BY <2>1, <2>2, <2>3, LocalDue DEF CoreTypes
<1>5. CASE Abandon(c)
  <2>1. /\ pc[c] = "abandon" /\ pc' = [pc EXCEPT ![c] = "run"]
        /\ disd' = [disd EXCEPT ![c] = DDS_DISABLE_IMPLICIT]
        /\ pendsv' = [pendsv EXCEPT ![c] = TRUE]
        /\ UNCHANGED <<state, ctxtsk, schedtsk, ipi, back, sel, r7, stale>>
    BY <1>5 DEF Abandon, tcb, disp
  <2>2. pc'[c] = "run" /\ pendsv'[c] /\ disd'[c] = DDS_DISABLE_IMPLICIT
    BY <2>1 DEF CoreTypes
  <2>3. Due(c) => Due(c)'
    BY <2>1, <2>2
    DEF Due, ImplicitPends, DisabledHasTask, DifferencePends, LoadedIdle, DisabledKeeps,
        PublishedAwake, WaitingPends, DDS_DISABLE, DDS_DISABLE_IMPLICIT
  <2>. QED
    BY <2>1, <2>2, <2>3, LocalDue DEF CoreTypes
<1>. QED
  BY <1>1, <1>2, <1>3, <1>4, <1>5 DEF EndOfCall

\* A processor in its dispatcher executes nothing; it installs what is wanted,
\* unless the slot has changed in between.
LEMMA DispatchDue ==
    ASSUME Data, CoreTypes, DispatchInv, NEW c \in Core, Dispatch(c), astray' = astray
    PROVE  DispatchInv'
<1>. USE DEF Data, TcbTypes, Waiting
<1>1. CASE StartDispatch(c) \/ Save(c) \/ Release(c) \/ Reclaim(c)
  <2>1. /\ pc[c] \in {"run", "save", "release", "reclaim"}
        /\ \E x \in {"save", "release", "reclaim", "load"} : pc' = [pc EXCEPT ![c] = x]
        /\ schedtsk' = schedtsk /\ stale' = stale
    BY <1>1 DEF StartDispatch, Save, Release, Reclaim, Goes, disp
  <2>2. \A d \in Core \ {c} :
          /\ pc'[d] = pc[d] /\ back'[d] = back[d] /\ sel'[d] = sel[d] /\ r7'[d] = r7[d]
          /\ ctxtsk'[d] = ctxtsk[d] /\ disd'[d] = disd[d]
          /\ pendsv'[d] = pendsv[d] /\ ipi'[d] = ipi[d]
    BY <1>1 DEF StartDispatch, Save, Release, Reclaim, Goes, irqs, disp, CoreTypes
  <2>3. \A t \in Task : state'[t] \in Waiting => state[t] \in Waiting
    BY <1>1 DEF StartDispatch, Save, Release, Reclaim
  <2>4. pc'[c] \in {"save", "release", "reclaim", "load"}
    BY <2>1 DEF CoreTypes
  <2>5. Due(c) => Due(c)'
    BY <2>1, <2>3, <2>4
    DEF Due, ImplicitPends, DisabledHasTask, DifferencePends, LoadedIdle, DisabledKeeps,
        PublishedAwake, WaitingPends, Executing, InCall
  <2>. QED
    BY <2>1, <2>2, <2>3, <2>4, <2>5, LocalDue
<1>2. CASE Load(c)
  <2>1. /\ pc[c] = "load" /\ pc' = [pc EXCEPT ![c] = "store"]
        /\ r7' = [r7 EXCEPT ![c] = IF schedtsk[c] = NoTask THEN Idle ELSE schedtsk[c]]
        /\ UNCHANGED <<state, ctxtsk, schedtsk, disd, pendsv, ipi, back, sel, stale>>
    BY <1>2 DEF Load, Goes, irqs
  <2>2. pc'[c] = "store" /\ r7'[c] = IF schedtsk[c] = NoTask THEN Idle ELSE schedtsk[c]
    BY <2>1 DEF CoreTypes
  <2>3. schedtsk[c] # Idle /\ Idle # NoTask
    BY SchedAssumption DEF CoreTypes, Slot
  <2>4. Due(c) => Due(c)'
    BY <2>1, <2>2, <2>3
    DEF Due, ImplicitPends, DisabledHasTask, DifferencePends, LoadedIdle, DisabledKeeps,
        PublishedAwake, WaitingPends, Executing, InCall
  <2>. QED
    BY <2>1, <2>2, <2>4, LocalDue DEF CoreTypes
<1>3. CASE Store(c)
  <2>1. /\ pc[c] = "store" /\ pc' = [pc EXCEPT ![c] = "run"]
        /\ ctxtsk' = [ctxtsk EXCEPT ![c] = r7[c]]
        /\ disd' = [disd EXCEPT ![c] = DDS_ENABLE]
        /\ r7' = [r7 EXCEPT ![c] = NoTask]
        /\ stale' = (stale \/ (r7[c] \in Task /\ schedtsk[c] # r7[c]))
        /\ UNCHANGED <<state, schedtsk, pendsv, ipi, back, sel>>
    BY <1>3 DEF Store, Goes, irqs
  <2>2. pc'[c] = "run" /\ ctxtsk'[c] = r7[c] /\ disd'[c] = DDS_ENABLE
    BY <2>1 DEF CoreTypes
  <2>3. ASSUME ~stale', Due(c) PROVE Due(c)'
    <3>1. /\ r7[c] # NoTask /\ (r7[c] = Idle /\ schedtsk[c] # NoTask => pendsv[c] \/ ipi[c])
          /\ r7[c] \in Task => schedtsk[c] = r7[c]
          /\ r7[c] \in Task \cup {Idle}
      BY <2>1, <2>3 DEF Due, LoadedIdle, CoreTypes, Slot
    <3>2. ImplicitPends(c)' /\ DisabledHasTask(c)' /\ LoadedIdle(c)' /\ DisabledKeeps(c)'
      BY <2>2, <3>1
      DEF ImplicitPends, DisabledHasTask, LoadedIdle, DisabledKeeps,
          DDS_ENABLE, DDS_DISABLE, DDS_DISABLE_IMPLICIT
    <3>3. DifferencePends(c)'
      BY <2>1, <2>2, <3>1, TaskAssumption DEF DifferencePends, Wanted
    <3>4. PublishedAwake(c)' /\ WaitingPends(c)'
      BY <2>1, <2>2, <2>3, <3>1 DEF Due, PublishedAwake, WaitingPends
    <3>. QED
      BY <3>2, <3>3, <3>4 DEF Due
  <2>. QED
    BY <2>1, <2>2, <2>3, LocalDue DEF CoreTypes
<1>. QED
  BY <1>1, <1>2, <1>3 DEF Dispatch

\* A dispatch becomes pending on p, which executes a task or starts up.
LEMMA PendDue ==
    ASSUME CoreTypes, DispatchInv, NEW p \in Core,
           pc[p] \in {"run", "ready"}, pc' = [pc EXCEPT ![p] = "run"],
           pendsv' = [pendsv EXCEPT ![p] = TRUE],
           disd' = [disd EXCEPT ![p] = DDS_DISABLE_IMPLICIT] \/ (disd' = disd /\ pc[p] = "run"),
           ipi' = ipi \/ ipi' = [ipi EXCEPT ![p] = FALSE],
           UNCHANGED <<state, ctxtsk, schedtsk, back, sel, r7, stale, astray>>
    PROVE  DispatchInv'
<1>1. /\ pc'[p] = "run" /\ pendsv'[p]
      /\ disd'[p] = DDS_DISABLE_IMPLICIT \/ (disd'[p] = disd[p] /\ pc[p] = "run")
  BY DEF CoreTypes
<1>2. Due(p) => Due(p)'
  BY <1>1
  DEF Due, ImplicitPends, DisabledHasTask, DifferencePends, LoadedIdle, DisabledKeeps,
      PublishedAwake, WaitingPends, Executing, DDS_DISABLE, DDS_DISABLE_IMPLICIT
<1>. QED
  BY <1>1, <1>2, LocalDue DEF CoreTypes

\* Dispatch control: a task that has not been migrated writes the state of
\* its own processor.
LEMMA DispatchControlDue ==
    ASSUME StateInv, DispatchInv, NEW c \in Core, DispatchControl(c)
    PROVE  DispatchInv'
<1>. USE DEF StateInv, InTask, Writes
<1>1. CASE knl_dispatch_disabled_slot(c)
  <2>1. UNCHANGED <<state, pc, ctxtsk, schedtsk, disd, pendsv, ipi, back, sel, r7, stale, astray>>
    BY <1>1 DEF knl_dispatch_disabled_slot, system, tcb, slots, irqs, disp
  <2>. QED
    BY <2>1 DEF DispatchInv, WithinAffinity, Due, ImplicitPends, DisabledHasTask, DifferencePends,
                LoadedIdle, DisabledKeeps, PublishedAwake, WaitingPends, Executing, Wanted
<1>2. ASSUME NEW v \in {DDS_ENABLE, DDS_DISABLE}, Writes(c, v), UNCHANGED stale,
             pendsv' = pendsv \/ pendsv' = [pendsv EXCEPT ![c] = ctxtsk[c] # schedtsk[c]],
             v = DDS_DISABLE => pendsv' = pendsv,
             v = DDS_ENABLE => pendsv' = [pendsv EXCEPT ![c] = ctxtsk[c] # schedtsk[c]]
      PROVE  DispatchInv'
  <2>1. PICK t \in Task : t = ctxtsk[c]
    BY <1>2
  <2>2. /\ pc[c] = "run" /\ ~pendsv[c] /\ slot[t] \in Core
        /\ disd' = [disd EXCEPT ![slot[t]] = v]
        /\ astray' = (astray \/ slot[t] # c)
        /\ UNCHANGED <<state, pc, ctxtsk, schedtsk, ipi, back, sel, r7>>
    BY <1>2, <2>1 DEF DspTypes, tcb, disp
  <2>3. CASE slot[t] # c
    <3>1. WithinAffinity'
      BY <2>2 DEF DispatchInv, WithinAffinity
    <3>. QED
      BY <2>2, <2>3, <3>1 DEF DispatchInv
  <2>4. CASE slot[t] = c
    <3>1. disd'[c] = v /\ \A d \in Core \ {c} : disd'[d] = disd[d] /\ pendsv'[d] = pendsv[d]
      BY <1>2, <2>2, <2>4 DEF CoreTypes
    <3>2. v = DDS_ENABLE => pendsv'[c] = (t # schedtsk[c])
      BY <1>2, <2>1 DEF CoreTypes
    <3>3. ASSUME Due(c) PROVE Due(c)'
      <4>1. t # NoTask /\ t # Idle
        BY SchedAssumption, TaskAssumption
      <4>2. ImplicitPends(c)' /\ DisabledHasTask(c)' /\ LoadedIdle(c)' /\ DisabledKeeps(c)'
        BY <1>2, <2>1, <2>2, <3>1, <4>1
        DEF ImplicitPends, DisabledHasTask, LoadedIdle, DisabledKeeps,
            DDS_ENABLE, DDS_DISABLE, DDS_DISABLE_IMPLICIT
      <4>3. DifferencePends(c)'
        BY <1>2, <2>1, <2>2, <3>1, <3>2, <3>3, <4>1
        DEF Due, DifferencePends, Wanted, Executing, InCall
      <4>4. PublishedAwake(c)'
        BY <2>2, <3>3 DEF Due, PublishedAwake
      <4>5. WaitingPends(c)'
        BY <2>1, <2>2, <3>3 DEF Due, WaitingPends, Executing, InCall
      <4>. QED
        BY <4>2, <4>3, <4>4, <4>5 DEF Due
    <3>. QED
      BY <1>2, <2>2, <3>1, <3>3, LocalDue
  <2>. QED
    BY <2>3, <2>4
<1>3. CASE tk_dis_dsp(c)
  <2>1. Writes(c, DDS_DISABLE) /\ pendsv' = pendsv
    BY <1>3 DEF tk_dis_dsp
  <2>2. DDS_DISABLE # DDS_ENABLE /\ stale' = stale
    BY <2>1 DEF DDS_DISABLE, DDS_ENABLE, disp
  <2>. HIDE DEF Writes
  <2>. QED
    BY <1>2, <2>1, <2>2
<1>4. CASE tk_ena_dsp(c)
  <2>1. /\ Writes(c, DDS_ENABLE)
        /\ pendsv' = [pendsv EXCEPT ![c] = ctxtsk[c] # schedtsk[c]]
    BY <1>4 DEF tk_ena_dsp
  <2>2. DDS_DISABLE # DDS_ENABLE /\ stale' = stale
    BY <2>1 DEF DDS_DISABLE, DDS_ENABLE, disp
  <2>. HIDE DEF Writes
  <2>. QED
    BY <1>2, <2>1, <2>2
<1>. QED
  BY <1>1, <1>3, <1>4 DEF DispatchControl

-----------------------------------------------------------------------------
(***************************************************************************)
(* The invariant.                                                          *)
(***************************************************************************)
\* Processor 0 is about to dispatch the initial task.
LEMMA InitDispatchInv == Init => DispatchInv
<1>. SUFFICES ASSUME Init PROVE DispatchInv
  OBVIOUS
<1>1. WithinAffinity
  BY SchedAssumption, TaskAssumption DEF Init, WithinAffinity, Empty
<1>2. ASSUME NEW c \in Core PROVE Due(c)
  <2>1. /\ pc[c] \in {"run", "boot"} /\ (pc[c] = "run" <=> c = 0)
        /\ disd[c] # DDS_DISABLE /\ \A t \in Task : state[t] \notin Waiting
    BY <1>2 DEF Init, Waiting, DDS_ENABLE, DDS_DISABLE, DDS_DISABLE_IMPLICIT
  <2>2. pendsv[c] <=> c = 0
    BY <1>2 DEF Init
  <2>. QED
    BY <2>1, <2>2
    DEF Due, ImplicitPends, DisabledHasTask, DifferencePends, LoadedIdle, DisabledKeeps,
        PublishedAwake, WaitingPends, Executing, InCall
<1>. QED
  BY <1>1, <1>2 DEF DispatchInv

\* Every step of the system.
LEMMA NextDue == StateInv /\ StateInv' /\ Ownership /\ DispatchInv /\ [Next]_vars => DispatchInv'
<1>. SUFFICES ASSUME StateInv, StateInv', Ownership, DispatchInv, [Next]_vars PROVE DispatchInv'
  OBVIOUS
<1>0. Data /\ Data' /\ CoreTypes /\ Control
  BY DEF StateInv
<1>1. ASSUME NEW c \in Core, CallByTask(c), UNCHANGED dsp PROVE DispatchInv'
  <2>. USE DEF Data, TcbTypes, Waiting
  <2>0. astray' = astray
    BY <1>1 DEF dsp
  <2>1. CASE tk_ext_tsk(c) \/ tk_exd_tsk(c)
    <3>1. PICK t \in Task : t = ctxtsk[c]
      BY <2>1 DEF tk_ext_tsk, tk_exd_tsk, Enter, AtCall, InTask
    <3>2. PICK r \in BOOLEAN : r = (state[t] = "READY")
      OBVIOUS
    <3>3. Enter(c, "task") /\ disd' = disd /\ NeverReturns(c, r)
      BY <2>1, <3>1, <3>2 DEF tk_ext_tsk, tk_exd_tsk
    <3>4. \A u \in Task : state'[u] \in Waiting => state[u] \in Waiting
      BY <1>0, <2>1, <3>1 DEF tk_ext_tsk, tk_exd_tsk, Dormant
    <3>. QED
      BY <1>0, <2>0, <3>3, <3>4, NeverReturnDue
  <2>2. CASE tk_slp_tsk(c) \/ tk_dly_tsk(c)
    <3>1. /\ Enter(c, "task") /\ disd[c] = DDS_ENABLE /\ disd' = disd
          /\ \/ Returns(c) /\ state' = state
             \/ MakeWait(c)
      BY <2>2 DEF tk_slp_tsk, tk_dly_tsk
    <3>2. PICK t \in Task : t = ctxtsk[c]
      BY <3>1 DEF Enter, AtCall, InTask
    <3>3. \A d \in Core : ~stale /\ ctxtsk[d] = t => disd'[d] # DDS_DISABLE
      BY <3>1, <3>2 DEF Ownership, CurrentIsOwned, Core, Other, DDS_ENABLE, DDS_DISABLE
    <3>4. CASE Returns(c) /\ state' = state
      BY <1>0, <2>0, <3>1, <3>4, ReturnDue
    <3>5. CASE MakeNonReady(c, t, "WAIT")
      BY <1>0, <2>0, <3>1, <3>2, <3>3, <3>5, RescheduleDue DEF MakeNonReady
    <3>6. CASE /\ state[t] = "SUSPEND" /\ Returns(c)
               /\ state' = [state EXCEPT ![t] = "WAITSUS"]
      BY <1>0, <2>0, <3>1, <3>2, <3>6, ReturnDue
    <3>. QED
      BY <3>1, <3>2, <3>4, <3>5, <3>6 DEF MakeWait
  <2>3. CASE CaughtDead(c)
    BY <1>0, <2>0, <2>3, PendDue DEF CaughtDead, AtCall, InTask, CoreTypes, tcb, disp
  <2>. QED
    BY <1>1, <2>1, <2>2, <2>3 DEF CallByTask
<1>2. ASSUME NEW c \in Core, EndOfCall(c), UNCHANGED dsp PROVE DispatchInv'
  BY <1>0, <1>2, EndOfCallDue DEF dsp
<1>3. ASSUME NEW c \in Core, Dispatch(c), UNCHANGED dsp PROVE DispatchInv'
  BY <1>0, <1>3, DispatchDue DEF dsp
<1>4. ASSUME NEW c \in Core, TakeIpi(c), UNCHANGED dsp PROVE DispatchInv'
  BY <1>0, <1>4, PendDue DEF TakeIpi, Goes, dsp, disp
<1>5. ASSUME NEW c \in Core, NEW by, CallBy(c, by), UNCHANGED dsp PROVE DispatchInv'
  BY <1>0, <1>5, CallByDue DEF dsp
<1>6. ASSUME Announce, UNCHANGED dsp PROVE DispatchInv'
  <2>1. /\ 1 \in Core /\ pc[1] = "boot" /\ pc' = [pc EXCEPT ![1] = "ready"]
        /\ UNCHANGED <<state, ctxtsk, schedtsk, disd, pendsv, ipi, back, sel, r7, stale, astray>>
    BY <1>6 DEF Announce, Goes, dsp, irqs, disp, Core
  <2>2. pc'[1] = "ready"
    BY <1>0, <2>1 DEF CoreTypes
  <2>3. Due(1) => Due(1)'
    BY <2>1, <2>2
    DEF Due, ImplicitPends, DisabledHasTask, DifferencePends, LoadedIdle, DisabledKeeps,
        PublishedAwake, WaitingPends, Executing, InCall
  <2>. QED
    BY <1>0, <2>1, <2>2, <2>3, LocalDue DEF CoreTypes
<1>7. ASSUME StartCore1, UNCHANGED dsp PROVE DispatchInv'
  <2>1. 1 \in Core
    BY DEF Core
  <2>. QED
    BY <1>0, <1>7, <2>1, PendDue DEF StartCore1, Goes, dsp, disp
<1>8. ASSUME GoOnline \/ UNCHANGED vars, UNCHANGED dsp PROVE DispatchInv'
  <2>1. UNCHANGED <<state, pc, ctxtsk, schedtsk, disd, pendsv, ipi, back, sel, r7, stale, astray>>
    BY <1>8 DEF GoOnline, vars, system, dsp, tcb, slots, irqs, disp
  <2>. QED
    BY <2>1 DEF DispatchInv, WithinAffinity, Due, ImplicitPends, DisabledHasTask, DifferencePends,
                LoadedIdle, DisabledKeeps, PublishedAwake, WaitingPends, Executing, Wanted
<1>9. ASSUME NEW c \in Core, NEW by, NEW t \in Task, tk_sta_tsk(c, by, t) PROVE DispatchInv'
  BY <1>0, <1>9, StartDue
<1>10. ASSUME NEW c \in Core, DispatchControl(c) PROVE DispatchInv'
  BY <1>10, DispatchControlDue
<1>. QED
  BY <1>1, <1>2, <1>3, <1>4, <1>5, <1>6, <1>7, <1>8, <1>9, <1>10 DEF Next, Step, vars

\* The invariant of the dispatch, in every reachable state.
THEOREM DispatchInvariant == Spec => []DispatchInv
BY InitDispatchInv, NextDue, StateInvariant, OwnershipInvariant, PTL DEF Spec

\* No reschedule is lost, although END_CRITICAL_SECTION looks at the slots
\* after it has left the lock.
THEOREM DispatchesOwed == Spec => []DispatchOwed
<1>1. DispatchInv => DispatchOwed
  BY DEF DispatchInv, Due, DifferencePends, Executing, Wanted, InCall, DispatchOwed
<1>. QED
  BY <1>1, DispatchInvariant, PTL

\* A task that has begun to wait executes nothing before it is released.
THEOREM WaitersStop == Spec => []WaitingNeverRuns
<1>1. DispatchInv => WaitingNeverRuns
  BY DEF DispatchInv, Due, WaitingPends, Executing, InCall, InTask, WaitingNeverRuns
<1>. QED
  BY <1>1, DispatchInvariant, PTL
=============================================================================
