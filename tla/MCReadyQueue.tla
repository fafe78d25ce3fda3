---------------------------- MODULE MCReadyQueue ----------------------------
(***************************************************************************)
(* One call of knl_ready_queue_assign() and of the guards that follow it,  *)
(* on every input of four tasks: two that may run anywhere and one pinned  *)
(* to each processor.  The inputs are those the scheduler can be in while  *)
(* its caller holds the kernel lock: no task is current or published       *)
(* twice, affinities are respected, an offline processor has no task.  The *)
(* owner of an object lock is t1, t3 or t4 (t2 is like t1), or nobody.     *)
(***************************************************************************)
EXTENDS ReadyQueue

CONSTANTS t1, t3, t4

VARIABLES rq, klocked, ctx, sch, dis, online, sel, done

input == <<rq, klocked, ctx, sch, dis, online>>
choicevars == <<input, sel, done>>

\* Tasks on processors they may use, each on one of them at most.
Slots == {f \in [Core -> Task \cup {NoTask}] :
            /\ f[0] = f[1] => f[0] = NoTask
            /\ \A c \in Core : f[c] # NoTask => c \in Affinity[f[c]]}

InitChoice ==
    /\ rq \in SetToAllKPermutations(Task)
    /\ \E owner \in {t1, t3, t4, NoTask} : klocked = [t \in Task |-> t = owner]
    /\ online \in {{0}, {0, 1}}
    /\ ctx \in Slots
    /\ sch \in Slots
    /\ dis \in [Core -> {DDS_ENABLE, DDS_DISABLE}]
    /\ \A c \in Core :
         /\ ctx[c] # NoTask => sch[Other(c)] # ctx[c]
         /\ dis[c] = DDS_DISABLE => ctx[c] # NoTask
         /\ c \notin online => ctx[c] = NoTask /\ sch[c] = NoTask
    /\ sel = [c \in Core |-> NoTask]
    /\ done = FALSE

Choice == Assign(ScanOrder(rq, klocked), ctx, sch, dis, online)

Reschedule ==
    /\ ~done
    /\ done' = TRUE
    /\ sel' = Guarded(Choice, sch)
    /\ UNCHANGED input

-----------------------------------------------------------------------------
Selected == Range(sel) \ {NoTask}

Mask(t) == CoreMask(t, ctx, sch, dis, online)

\* The tasks of S can execute at the same time.
Placeable(S) ==
    /\ Cardinality(S) <= Cardinality(Core)
    /\ \E f \in [S -> Core] : /\ \A t \in S : f[t] \in Mask(t)
                              /\ \A t, u \in S : f[t] = f[u] => t = u

\* Reference for the choice of knl_ready_queue_assign(): of all the sets of
\* ready tasks that can execute together it takes the one that is best in
\* scan order: where it differs from another such set, the most urgent task
\* on which they differ is in the set it takes.  A task that disabled
\* dispatching, and was the published one then, keeps its processor for as
\* long as it is ready, whatever is more urgent (knl_task_core_mask() and the
\* placement of knl_assign_cores()).
BestChoice ==
    done =>
      LET order == ScanOrder(rq, klocked)
          Diff(S) == {i \in DOMAIN order : order[i] \in (S \ Selected) \cup (Selected \ S)}
      IN  /\ Placeable(Selected)
          /\ \A S \in SUBSET Range(rq) :
               S # Selected /\ Placeable(S) => order[Min(Diff(S))] \in Selected
          /\ \A c \in Core :
               dis[c] = DDS_DISABLE /\ ctx[c] = sch[c] /\ ctx[c] \in Range(rq)
               => sel[c] = ctx[c]
=============================================================================
