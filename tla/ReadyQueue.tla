----------------------------- MODULE ReadyQueue -----------------------------
(***************************************************************************)
(* The scheduling policy of ready_queue.h and ready_queue_smp.c, as pure   *)
(* operators: the global ready queue, the processors a task may be placed  *)
(* on, the choice of up to TK_MAX_CORE tasks, their placement, and the     *)
(* guards knl_smp_reschedule_all() applies to the result.                  *)
(*                                                                         *)
(* The queue array, its bitmap and top_priority are one sequence, ordered  *)
(* by priority (a smaller number is more urgent) and first-in first-out    *)
(* within a priority.  A mask of processors is a set of processors.        *)
(***************************************************************************)
EXTENDS Integers, FiniteSets, Sequences, SequencesExt

CONSTANTS
    Task,      \* task control blocks
    NoTask,    \* the NULL pointer
    Affinity   \* assprc of each task, fixed when the task is created

Core  == {0, 1}
Other(c) == 1 - c

ASSUME TaskAssumption ==
    /\ NoTask \notin Task
    /\ Affinity \in [Task -> (SUBSET Core) \ {{}}]

DDS_ENABLE           == 0
DDS_DISABLE_IMPLICIT == 1
DDS_DISABLE          == 2

-----------------------------------------------------------------------------
(***************************************************************************)
(* The queue.                                                              *)
(***************************************************************************)
\* knl_ready_queue_insert(): last among the tasks of its priority.
ReadyInsert(rq, pri, t) ==
    LET after == {i \in DOMAIN rq : pri[rq[i]] > pri[t]}
    IN  IF after = {} THEN Append(rq, t)
        ELSE InsertAt(rq, CHOOSE i \in after : \A j \in after : i <= j, t)

\* knl_ready_queue_delete().
ReadyDelete(rq, t) ==
    IF t \in Range(rq) THEN RemoveAt(rq, CHOOSE i \in DOMAIN rq : rq[i] = t) ELSE rq

\* knl_ready_queue_rotate(): the head of a priority becomes its last.
ReadyRotate(rq, pri, p) ==
    LET same == {i \in DOMAIN rq : pri[rq[i]] = p}
        head == rq[CHOOSE i \in same : \A j \in same : i <= j]
    IN  IF same = {} THEN rq ELSE ReadyInsert(ReadyDelete(rq, head), pri, head)

\* The two scans of knl_ready_queue_assign(): object-lock holders of every
\* priority first, then the others.
ScanOrder(rq, klocked) ==
    SelectSeq(rq, LAMBDA u : klocked[u]) \o SelectSeq(rq, LAMBDA u : ~klocked[u])

-----------------------------------------------------------------------------
(***************************************************************************)
(* The choice.                                                             *)
(***************************************************************************)
\* Mutant: a task another processor is executing may be placed anywhere.
CoreMaskMigrates(t, ctx, sch, dis, online) ==
    LET published == {c \in Core : sch[c] = t}
    IN  IF published # {} THEN published \cap online
        ELSE {c \in Affinity[t] \cap online : dis[c] < DDS_DISABLE}

\* knl_task_core_mask(): the processor that executes the task, or else the
\* one it is published to, or else those its affinity and their
\* dispatch-disable states allow.
CoreMask(t, ctx, sch, dis, online) ==
    LET running   == {c \in Core : ctx[c] = t}
        published == {c \in Core : sch[c] = t}
        first(S)  == {c \in S : \A d \in S : c <= d}
    IN  IF running # {} THEN first(running) \cap online
        ELSE IF published # {} THEN first(published) \cap online
        ELSE {c \in Affinity[t] \cap online : dis[c] < DDS_DISABLE}

\* Mutant: the processors of the tasks already chosen are not counted.
FeasibleAlone(chosen, t, mask) == mask[t] # {} /\ t \notin chosen

\* knl_candidate_feasible() and knl_already_candidate(): Hall's condition.
Feasible(chosen, t, mask) ==
    /\ mask[t] # {}
    /\ t \notin chosen
    /\ Cardinality(UNION {mask[u] : u \in chosen \cup {t}}) > Cardinality(chosen)

\* The next candidate of knl_ready_queue_assign(): the first feasible task.
\* A task the scan has passed over stays infeasible, so that the search may
\* start at the head again.
Candidate(order, mask, chosen) ==
    LET feasible == {i \in DOMAIN order : Feasible(chosen, order[i], mask)}
        first    == {i \in feasible : \A j \in feasible : i <= j}
    IN  IF first = {} THEN NoTask ELSE order[CHOOSE i \in first : TRUE]

\* knl_assign_cores() for the candidates a and b, in that order (either may
\* be absent): a pinned task goes to its processor, and what has a choice to
\* the first one left.  A running task is pinned by its mask, so that the
\* pass "stay where you are" finds nothing to do.
AssignCores(a, b, mask) ==
    LET Pinned(t) == t # NoTask /\ \E c \in Core : mask[t] = {c}
        Only(t)   == CHOOSE c \in Core : mask[t] = {c}
        coreA == IF Pinned(a) THEN Only(a)
                 ELSE IF Pinned(b) THEN Other(Only(b)) ELSE 0
        coreB == IF Pinned(b) THEN Only(b) ELSE Other(coreA)
    IN  [c \in Core |-> IF a # NoTask /\ c = coreA THEN a
                        ELSE IF b # NoTask /\ c = coreB THEN b
                        ELSE NoTask]

\* knl_ready_queue_assign(): one task per processor.
Assign(order, ctx, sch, dis, online) ==
    LET mask == [t \in Task |-> CoreMask(t, ctx, sch, dis, online)]
        one  == Candidate(order, mask, {})
        two  == IF one = NoTask THEN NoTask ELSE Candidate(order, mask, {one})
    IN  AssignCores(one, two, mask)

\* The three guards of knl_smp_reschedule_all(): a task published to the
\* other processor, a task selected twice, and a processor outside the
\* task's affinity are refused, in that order.
Guarded(sel, sch) ==
    LET sel0 == IF sel[0] # NoTask /\ sch[1] = sel[0] /\ sel[1] # sel[0]
                THEN NoTask ELSE sel[0]
        sel1 == IF sel[1] # NoTask /\ sch[0] = sel[1] /\ sel0 # sel[1]
                THEN NoTask ELSE sel[1]
        once == [c \in Core |-> IF c = 0 THEN sel0
                                ELSE IF sel1 = sel0 THEN NoTask ELSE sel1]
    IN  [c \in Core |-> IF once[c] # NoTask /\ c \notin Affinity[once[c]]
                        THEN NoTask ELSE once[c]]

=============================================================================
