------------------------------- MODULE ObjLock -------------------------------
(***************************************************************************)
(* Object locks (klock.c), with the operations of the ready queue          *)
(* (ready_queue.h) that know of them.  A task that waits for a lock stays  *)
(* READY, but is in the queue of the lock instead of the ready queue.      *)
(* Meanwhile other tasks, on either processor, change its priority,        *)
(* suspend, terminate and start it.  Any READY task of the ready queue may *)
(* be executing: which of them does is the subject of modules ReadyQueue   *)
(* and SmpSched.  klocktsk, which knl_ready_queue_assign() does not look   *)
(* at, is left out.                                                        *)
(*                                                                         *)
(* Each critical section is a step.  knl_LockOBJ() has one before it, to   *)
(* mask the interrupts and wait for the kernel lock: a task that the other *)
(* processor suspends meanwhile goes on, since smp_lock.c turns away only  *)
(* one that has been terminated.  It then owns a lock while it is          *)
(* suspended, or, if the lock is taken, is removed from a queue although   *)
(* it is in none.  The second removal writes through links that may be     *)
(* out of date; what the queues are from then on is not modelled, and      *)
(* nothing follows that step (twice).                                      *)
(***************************************************************************)
EXTENDS Integers, FiniteSets, Sequences, SequencesExt, Tasks

CONSTANTS
    Loc,    \* object locks
    MaxPri  \* the least urgent of the priorities 1 .. MaxPri

LockAssumption == MaxPri \in Nat \ {0} /\ Loc # {}

Pri == 1 .. MaxPri

\* TCB.ipriority.
ipriority == MaxPri

VARIABLES
    tstat,      \* TCB.state
    pri,        \* TCB.priority
    rq,         \* the ready queue
    held,       \* OBJLOCK.wtskq.next # NULL
    wtskq,      \* OBJLOCK.wtskq
    klocked,    \* TCB.klocked
    klockwait,  \* TCB.klockwait
    pc,         \* where the task is: outside, waiting for the kernel lock in
                \* knl_LockOBJ(), waiting for the object lock there, inside
    loc,        \* the lock it uses, or used last
    struck,     \* history: tasks suspended while they waited for the kernel lock
    twice       \* history: one of them has been removed from a queue once more

taskvars == <<tstat, pri, rq>>
lockvars == <<held, wtskq, klocked, klockwait>>
hitvars  == <<struck, twice>>
objlvars == <<taskvars, lockvars, pc, loc, hitvars>>

LockTypeOK ==
    /\ tstat \in [Task -> {"DORMANT", "READY", "WAIT", "SUSPEND"}]
    /\ pri \in [Task -> Pri] /\ rq \in Seq(Task)
    /\ held \in [Loc -> BOOLEAN] /\ wtskq \in [Loc -> Seq(Task)]
    /\ klocked \in [Task -> BOOLEAN] /\ klockwait \in [Task -> BOOLEAN]
    /\ pc \in [Task -> {"out", "spin", "lock", "in"}] /\ loc \in [Task -> Loc]
    /\ struck \subseteq Task /\ twice \in BOOLEAN

LockInit ==
    /\ tstat = [t \in Task |-> "DORMANT"]
    /\ pri = [t \in Task |-> ipriority]
    /\ rq = << >>
    /\ held = [l \in Loc |-> FALSE]
    /\ wtskq = [l \in Loc |-> << >>]
    /\ klocked = [t \in Task |-> FALSE]
    /\ klockwait = [t \in Task |-> FALSE]
    /\ pc = [t \in Task |-> "out"]
    /\ loc = [t \in Task |-> CHOOSE l \in Loc : TRUE]
    /\ struck = {} /\ twice = FALSE

-----------------------------------------------------------------------------
\* QueRemove().
Unlinked(q, t) ==
    IF \E i \in DOMAIN q : q[i] = t THEN RemoveAt(q, CHOOSE i \in DOMAIN q : q[i] = t) ELSE q

\* knl_ready_queue_insert(), with the priorities p.
Inserted(q, p, t) ==
    LET after == {i \in DOMAIN q : p[q[i]] > p[t]}
    IN  IF after = {} THEN Append(q, t)
        ELSE InsertAt(q, CHOOSE i \in after : \A j \in after : i <= j, t)

\* knl_ready_queue_insert_top().
InsertedTop(q, t) ==
    LET after == {i \in DOMAIN q : pri[q[i]] >= pri[t]}
    IN  IF after = {} THEN Append(q, t)
        ELSE InsertAt(q, CHOOSE i \in after : \A j \in after : i <= j, t)

\* Mutant: a task that waits for a lock stays in the queue of the lock.
LeavesReadyOnly(t) == UNCHANGED <<wtskq, klockwait>>

\* knl_ready_queue_delete(): a READY task leaves the queue of the lock it waits
\* for, or else the ready queue.
LeavesLock(t) ==
    /\ wtskq' = IF klockwait[t] THEN [wtskq EXCEPT ![loc[t]] = Unlinked(@, t)] ELSE wtskq
    /\ klockwait' = [klockwait EXCEPT ![t] = FALSE]

OtherReady(t) == IF klockwait[t] THEN rq ELSE Unlinked(rq, t)

\* t may be executing, at p.
Executes(t, p) == tstat[t] = "READY" /\ ~klockwait[t] /\ pc[t] = p

\* knl_LockOBJ(), at "retry": the interrupts are masked, so that the task stays
\* on its processor until it has the kernel lock.
Enter(t, l) ==
    /\ Executes(t, "out") \/ (Executes(t, "lock") /\ loc[t] = l)
    /\ pc' = [pc EXCEPT ![t] = "spin"]
    /\ loc' = [loc EXCEPT ![t] = l]
    /\ UNCHANGED <<taskvars, lockvars, hitvars>>

\* Its critical section, whatever the state of the task is by now: the lock is
\* taken, or it has been handed over, or the task waits and will try again.
knl_LockOBJ(t) ==
    LET l == loc[t] IN
    /\ pc[t] = "spin"
    /\ UNCHANGED <<tstat, pri, loc, struck>>
    /\ \/ /\ klocked[t]
          /\ pc' = [pc EXCEPT ![t] = "in"]
          /\ UNCHANGED <<rq, lockvars, twice>>
       \/ /\ ~klocked[t] /\ ~held[l]
          /\ held' = [held EXCEPT ![l] = TRUE]
          /\ klocked' = [klocked EXCEPT ![t] = TRUE]
          /\ pc' = [pc EXCEPT ![t] = "in"]
          /\ UNCHANGED <<rq, wtskq, klockwait, twice>>
       \/ /\ ~klocked[t] /\ held[l]
          /\ rq' = Unlinked(rq, t)
          /\ wtskq' = [wtskq EXCEPT ![l] = Append(@, t)]
          /\ klockwait' = [klockwait EXCEPT ![t] = TRUE]
          /\ pc' = [pc EXCEPT ![t] = "lock"]
          /\ twice' = (tstat[t] # "READY")
          /\ UNCHANGED <<held, klocked>>

\* The body of knl_UnlockOBJ(): the lock becomes free, or belongs to the first
\* task that waits for it.
Released(t) ==
    LET l == loc[t]
        u == Head(wtskq[l])
    IN
    IF wtskq[l] = << >>
    THEN /\ held' = [held EXCEPT ![l] = FALSE]
         /\ klocked' = [klocked EXCEPT ![t] = FALSE]
         /\ UNCHANGED <<wtskq, klockwait>>
    ELSE /\ wtskq' = [wtskq EXCEPT ![l] = Tail(@)]
         /\ klockwait' = [klockwait EXCEPT ![u] = FALSE]
         /\ klocked' = [klocked EXCEPT ![t] = FALSE, ![u] = TRUE]
         /\ UNCHANGED held

\* The task that gets the lock becomes the first of its priority.
Woken(q, l) == IF wtskq[l] = << >> THEN q ELSE InsertedTop(q, Head(wtskq[l]))

\* The owner cannot be suspended or terminated while it waits for the kernel lock.
knl_UnlockOBJ(t) ==
    /\ Executes(t, "in")
    /\ Released(t)
    /\ rq' = Woken(rq, loc[t])
    /\ pc' = [pc EXCEPT ![t] = "out"]
    /\ UNCHANGED <<tstat, pri, loc, hitvars>>

\* The task waits for the object, as in tk_get_mpf(): it becomes non-ready and
\* unlocks in one critical section.
WaitAndUnlock(t) ==
    /\ Executes(t, "in")
    /\ Released(t)
    /\ rq' = Woken(Unlinked(rq, t), loc[t])
    /\ tstat' = [tstat EXCEPT ![t] = "WAIT"]
    /\ pc' = [pc EXCEPT ![t] = "out"]
    /\ UNCHANGED <<pri, loc, hitvars>>

-----------------------------------------------------------------------------
(***************************************************************************)
(* What other tasks do to t, and knl_make_ready() at the end of a wait, of *)
(* a suspension, or at a start.                                            *)
(***************************************************************************)
MakeReady(t) ==
    /\ tstat[t] # "READY"
    /\ tstat' = [tstat EXCEPT ![t] = "READY"]
    /\ rq' = Inserted(rq, pri, t)
    /\ struck' = struck \ {t}
    /\ UNCHANGED <<pri, lockvars, pc, loc, twice>>

\* knl_change_task_priority()
tk_chg_pri(t, p) ==
    /\ pri' = [pri EXCEPT ![t] = p]
    /\ IF tstat[t] = "READY"
       THEN /\ LeavesLock(t)
            /\ rq' = Inserted(OtherReady(t), pri', t)
            /\ UNCHANGED <<held, klocked>>
       ELSE UNCHANGED <<rq, lockvars>>
    /\ UNCHANGED <<tstat, pc, loc, hitvars>>

tk_rot_rdq(p) ==
    LET same == {i \in DOMAIN rq : pri[rq[i]] = p}
        t == rq[CHOOSE i \in same : \A j \in same : i <= j]
    IN
    /\ Cardinality(same) > 1
    /\ rq' = Inserted(Unlinked(rq, t), pri, t)
    /\ UNCHANGED <<tstat, pri, lockvars, pc, loc, hitvars>>

\* The owner of a lock is refused: E_OBJ.  One who is about to become the owner
\* is not.
tk_sus_tsk(t) ==
    /\ tstat[t] = "READY" /\ ~klocked[t]
    /\ LeavesLock(t)
    /\ rq' = OtherReady(t)
    /\ tstat' = [tstat EXCEPT ![t] = "SUSPEND"]
    /\ struck' = IF pc[t] = "spin" THEN struck \cup {t} ELSE struck
    /\ UNCHANGED <<pri, held, klocked, pc, loc, twice>>

\* Mutant: the owner of a lock may be terminated.
tk_ter_tskOwner(t) ==
    /\ tstat[t] # "DORMANT"
    /\ IF tstat[t] = "READY"
       THEN LeavesLock(t) /\ rq' = OtherReady(t)
       ELSE UNCHANGED <<rq, wtskq, klockwait>>
    /\ tstat' = [tstat EXCEPT ![t] = "DORMANT"]
    /\ pri' = [pri EXCEPT ![t] = ipriority]
    /\ klocked' = [klocked EXCEPT ![t] = FALSE]
    /\ pc' = [pc EXCEPT ![t] = "out"]
    /\ struck' = struck \ {t}
    /\ UNCHANGED <<held, loc, twice>>

\* knl_ter_tsk() and knl_make_dormant(); the owner of a lock is refused.  If the
\* task waits for the kernel lock, it does not come back from there.
tk_ter_tsk(t) ==
    /\ tstat[t] # "DORMANT" /\ ~klocked[t]
    /\ IF tstat[t] = "READY"
       THEN LeavesLock(t) /\ rq' = OtherReady(t)
       ELSE UNCHANGED <<rq, wtskq, klockwait>>
    /\ tstat' = [tstat EXCEPT ![t] = "DORMANT"]
    /\ pri' = [pri EXCEPT ![t] = ipriority]
    /\ pc' = [pc EXCEPT ![t] = "out"]
    /\ struck' = struck \ {t}
    /\ UNCHANGED <<held, klocked, loc, twice>>

LockNext ==
    /\ ~twice
    /\ \/ \E t \in Task :
            \/ \E l \in Loc : Enter(t, l)
            \/ knl_LockOBJ(t) \/ knl_UnlockOBJ(t) \/ WaitAndUnlock(t)
            \/ MakeReady(t) \/ tk_sus_tsk(t) \/ tk_ter_tsk(t)
            \/ \E p \in Pri : tk_chg_pri(t, p)
       \/ \E p \in Pri : tk_rot_rdq(p)

LockSpec == LockInit /\ [][LockNext]_objlvars

-----------------------------------------------------------------------------
\* The comment of tk_sus_tsk(), "Suspending an object-lock owner would strand
\* the lock indefinitely", and the test that follows it: no owner of a lock is
\* suspended.
OwnerIsNotSuspended == \A t \in Task : klocked[t] => tstat[t] # "SUSPEND"

\* A READY task is in one queue, the ready queue or that of the lock it waits
\* for, and no other task is in any: a waiting task that is suspended,
\* terminated or given another priority leaves the queue of the lock.  The one
\* way to break that is the second removal of a task that was suspended while
\* it waited for the kernel lock.
QueuedOnce ==
    ~twice =>
    /\ \A t \in Task :
         Cardinality({i \in DOMAIN rq : rq[i] = t})
           + Cardinality({p \in Loc \X (1 .. Cardinality(Task)) :
                            p[2] <= Len(wtskq[p[1]]) /\ wtskq[p[1]][p[2]] = t})
         = IF tstat[t] = "READY" THEN 1 ELSE 0
    /\ \A i, j \in DOMAIN rq : i < j => pri[rq[i]] <= pri[rq[j]]

\* A lock that is taken has an owner, one, who is in no queue of a lock; nobody
\* waits for a lock that is free; and who is inside is the owner, although a
\* lock passes on without becoming free.  The owner is ready, so that it will
\* unlock, unless it was suspended while it waited for the kernel lock: by no
\* other way does anybody strand a lock.
LockHasOwner ==
    /\ \A l \in Loc :
         /\ held[l] <=> \E t \in Task : klocked[t] /\ loc[t] = l
         /\ wtskq[l] # << >> => held[l]
    /\ \A t, u \in Task : klocked[t] /\ klocked[u] /\ loc[t] = loc[u] => t = u
    /\ \A t \in Task :
         /\ klocked[t] => ~klockwait[t] /\ (tstat[t] = "READY" \/ t \in struck)
         /\ pc[t] = "in" => klocked[t]
=============================================================================
