-------------------------------- MODULE Mutex --------------------------------
(***************************************************************************)
(* Mutexes (mutex.c) with the priorities they give to the tasks that hold  *)
(* them: the ceiling of a TA_CEILING mutex, or the priority of the first   *)
(* task that waits for a TA_INHERIT one.  A change of priority may pass    *)
(* from a task to the holder of the mutex it waits for, and on from there. *)
(* All of a call is under the kernel lock, and one step.                   *)
(***************************************************************************)
EXTENDS Integers, FiniteSets, Sequences, SequencesExt

CONSTANTS
    Task,
    MaxPri,     \* the least urgent of the priorities 1 .. MaxPri
    MaxMutex,   \* number of mutexes
    Attribute,  \* the attributes considered: "fifo", "pri", "inherit", "ceiling"
    Ceiling,    \* the ceilings considered
    InOrder,    \* the tasks lock mutexes in ascending order only
    None        \* NULL

MutexAssumption ==
    /\ MaxPri \in Nat \ {0} /\ MaxMutex \in Nat \ {0}
    /\ Attribute \subseteq {"fifo", "pri", "inherit", "ceiling"}
    /\ Ceiling \subseteq 1 .. MaxPri
    /\ InOrder \in BOOLEAN
    /\ None \notin Task

Mutex == 1 .. MaxMutex
Pri == 1 .. MaxPri

VARIABLES
    mtxatr,     \* MTXCB.mtxatr, None while the mutex does not exist
    ceilpri,
    mtxtsk,     \* the holder
    wait,       \* MTXCB.wait_queue
    mtxlist,    \* TCB.mtxlist, the mutex locked last first
    pri,        \* TCB.priority
    base,       \* TCB.bpriority
    tstat,      \* "run": outside the kernel, "wait" or "dormant"
    wid         \* TCB.wid; it is not reset

mtxvars == <<mtxatr, ceilpri, mtxtsk, wait, mtxlist, pri, base, tstat, wid>>

\* TCB.ipriority.
ipriority == MaxPri

Least(S) == CHOOSE x \in S : \A y \in S : x <= y

\* knl_queue_insert_tpri().
Inserted(q, p, t) ==
    InsertAt(q, Least({i \in 1 .. Len(q) + 1 : i > Len(q) \/ p[q[i]] > p[t]}), t)

Init ==
    /\ mtxatr = [m \in Mutex |-> None]
    /\ ceilpri = [m \in Mutex |-> MaxPri]
    /\ mtxtsk = [m \in Mutex |-> None]
    /\ wait = [m \in Mutex |-> << >>]
    /\ mtxlist = [t \in Task |-> << >>]
    /\ pri = [t \in Task |-> ipriority] /\ base = pri
    /\ tstat = [t \in Task |-> "run"]
    /\ wid = [t \in Task |-> 1]

-----------------------------------------------------------------------------
(***************************************************************************)
(* Priorities.  A record s holds what the functions of mutex.c read and    *)
(* change: the priorities, the queues, the holders, their lists, and the   *)
(* tasks with TS_WAIT set.                                                 *)
(***************************************************************************)
Now == [pri |-> pri, base |-> base, wait |-> wait, holder |-> mtxtsk, list |-> mtxlist,
        waiting |-> {t \in Task : tstat[t] = "wait"}]

\* What mutex m asks for its holder.
Asked(s, m) ==
    CASE mtxatr[m] = "ceiling" -> {ceilpri[m]}
      [] mtxatr[m] = "inherit" /\ s.wait[m] # << >> -> {s.pri[Head(s.wait[m])]}
      [] OTHER -> {}

\* p, or the priority that the mutexes t holds ask for if that is higher.
Raised(s, t, p) == Least({p} \cup UNION {Asked(s, m) : m \in Range(s.list[t])})

RECURSIVE knl_change_task_priority(_, _, _)

\* reset_priority(), the second half of knl_release_mutex().
reset_priority(s, t) ==
    LET p == Raised(s, t, s.base[t])
    IN  IF p = s.pri[t] THEN s ELSE knl_change_task_priority(s, t, p)

\* Mutant: a holder is raised when a waiting task is, but never lowered.
mtx_chg_priRaises(s, t, oldpri) ==
    LET m == wid[t]
        h == s.holder[m]
        moved == [s EXCEPT !.wait[m] = Inserted(Remove(@, t), s.pri, t)]
    IN  IF mtxatr[m] = "inherit" /\ moved.pri[h] > moved.pri[t]
        THEN knl_change_task_priority(moved, h, moved.pri[t])
        ELSE moved

\* mtx_chg_pri(), the hook of a task that waits for any but a "fifo" mutex.
\* QueRemove() of a task that is in no queue is taken to remove nothing.
mtx_chg_pri(s, t, oldpri) ==
    LET m == wid[t]
        h == s.holder[m]
        moved == [s EXCEPT !.wait[m] = Inserted(Remove(@, t), s.pri, t)]
    IN  IF mtxatr[m] # "inherit" THEN moved
        ELSE IF moved.pri[h] > moved.pri[t]
        THEN knl_change_task_priority(moved, h, moved.pri[t])
        ELSE IF moved.pri[h] = oldpri THEN reset_priority(moved, h)
        ELSE moved

knl_change_task_priority(s, t, p) ==
    LET changed == [s EXCEPT !.pri[t] = p]
    IN  IF t \in s.waiting /\ mtxatr[wid[t]] # "fifo"
        THEN mtx_chg_pri(changed, t, s.pri[t])
        ELSE changed

\* Mutant: the mutex stays in the list.
knl_release_mutexListed(s, t, m) == reset_priority(s, t)

\* knl_release_mutex() of mutex m.
knl_release_mutex(s, t, m) ==
    reset_priority([s EXCEPT !.list[t] = Remove(@, m)], t)

\* The first waiting task is released with the mutex; if there is none, the
\* mutex is free.
HandedOver(s, m) ==
    LET t == Head(s.wait[m])
        given == [s EXCEPT !.holder[m] = t, !.list[t] = <<m>> \o @,
                           !.wait[m] = Tail(@), !.waiting = @ \ {t}]
    IN  IF s.wait[m] = << >> THEN [s EXCEPT !.holder[m] = None]
        ELSE IF mtxatr[m] = "ceiling" /\ s.pri[t] > ceilpri[m]
        THEN knl_change_task_priority(given, t, ceilpri[m])
        ELSE given

\* mtx_rel_wai(), the hook of a task that has left the queue of its mutex.
mtx_rel_wai(s, t) ==
    LET h == s.holder[wid[t]]
    IN  IF mtxatr[wid[t]] = "inherit" /\ s.pri[h] = s.pri[t] THEN reset_priority(s, h) ELSE s

\* The state after a call; the tasks that no longer wait execute again.
Becomes(s) ==
    /\ pri' = s.pri /\ base' = s.base
    /\ wait' = s.wait /\ mtxtsk' = s.holder /\ mtxlist' = s.list
    /\ tstat' = [t \in Task |-> IF t \in s.waiting THEN "wait"
                              ELSE IF tstat[t] = "wait" THEN "run" ELSE tstat[t]]

-----------------------------------------------------------------------------
(***************************************************************************)
(* Calls.                                                                  *)
(***************************************************************************)
tk_cre_mtx(m, k, c) ==
    /\ mtxatr[m] = None
    /\ mtxatr' = [mtxatr EXCEPT ![m] = k]
    /\ ceilpri' = [ceilpri EXCEPT ![m] = c]
    /\ UNCHANGED <<mtxtsk, wait, mtxlist, pri, base, tstat, wid>>

\* The holder loses the mutex, the tasks that wait for it are released.
tk_del_mtx(m) ==
    LET s == IF mtxtsk[m] = None THEN Now ELSE knl_release_mutex(Now, mtxtsk[m], m) IN
    /\ mtxatr[m] # None
    /\ Becomes([s EXCEPT !.holder[m] = None, !.wait[m] = << >>,
                         !.waiting = @ \ Range(s.wait[m])])
    /\ mtxatr' = [mtxatr EXCEPT ![m] = None]
    /\ UNCHANGED <<ceilpri, wid>>

\* No "Violation of highest priority limit".
MayLock(t, m) == mtxatr[m] = "ceiling" => base[t] >= ceilpri[m]

\* tk_loc_mtx() of a mutex nobody holds.
Lock(t, m) ==
    LET s == [Now EXCEPT !.holder[m] = t, !.list[t] = <<m>> \o @] IN
    /\ mtxtsk[m] = None
    /\ Becomes(IF mtxatr[m] = "ceiling" /\ pri[t] > ceilpri[m]
               THEN knl_change_task_priority(s, t, ceilpri[m]) ELSE s)
    /\ UNCHANGED wid

\* tk_loc_mtx() of a mutex another task holds: first the holder is raised,
\* then the caller waits.
Wait(t, m) ==
    LET h == mtxtsk[m]
        s == IF mtxatr[m] = "inherit" /\ pri[h] > pri[t]
             THEN knl_change_task_priority(Now, h, pri[t]) ELSE Now
        place(q) == IF mtxatr[m] = "fifo" THEN Append(q, t) ELSE Inserted(q, s.pri, t)
    IN
    /\ mtxtsk[m] \notin {None, t}
    /\ Becomes([s EXCEPT !.wait[m] = place(@), !.waiting = @ \cup {t}])
    /\ wid' = [wid EXCEPT ![t] = m]

tk_loc_mtx(t, m) ==
    /\ tstat[t] = "run"
    /\ mtxatr[m] # None
    /\ MayLock(t, m)
    /\ InOrder => \A k \in Range(mtxlist[t]) : k < m
    /\ Lock(t, m) \/ Wait(t, m)
    /\ UNCHANGED <<mtxatr, ceilpri>>

tk_unl_mtx(t, m) ==
    /\ tstat[t] = "run"
    /\ mtxtsk[m] = t
    /\ Becomes(HandedOver(knl_release_mutex(Now, t, m), m))
    /\ UNCHANGED <<mtxatr, ceilpri, wid>>

\* A timeout, or tk_rel_wai(): t is made ready, then the hook is called.
WaitEnds(t) ==
    /\ tstat[t] = "wait"
    /\ Becomes(mtx_rel_wai([Now EXCEPT !.wait[wid[t]] = Remove(@, t),
                                       !.waiting = @ \ {t}], t))
    /\ UNCHANGED <<mtxatr, ceilpri, wid>>

\* knl_ter_tsk() and knl_make_dormant(), for tk_ext_tsk() and tk_ter_tsk().
\* knl_wait_cancel() takes a waiting task from its queue but does not change
\* its state, so that it counts as waiting until it is dormant.
tk_ter_tsk(t) ==
    LET left == IF tstat[t] = "wait"
                THEN mtx_rel_wai([Now EXCEPT !.wait[wid[t]] = Remove(@, t)], t)
                ELSE Now
        freed == FoldLeft(HandedOver, left, mtxlist[t])
    IN
    /\ tstat[t] # "dormant"
    /\ pri' = [freed.pri EXCEPT ![t] = ipriority]
    /\ base' = [base EXCEPT ![t] = ipriority]
    /\ wait' = freed.wait /\ mtxtsk' = freed.holder
    /\ mtxlist' = [freed.list EXCEPT ![t] = << >>]
    /\ tstat' = [u \in Task |-> IF u = t THEN "dormant"
                              ELSE IF tstat[u] = "wait" /\ u \notin freed.waiting THEN "run"
                              ELSE tstat[u]]
    /\ UNCHANGED <<mtxatr, ceilpri, wid>>

tk_sta_tsk(t) ==
    /\ tstat[t] = "dormant"
    /\ tstat' = [tstat EXCEPT ![t] = "run"]
    /\ UNCHANGED <<mtxatr, ceilpri, mtxtsk, wait, mtxlist, pri, base, wid>>

\* The limits knl_chg_pri_mutex() looks at: of the mutexes t holds or waits for.
Limits(t) ==
    LET concerned == Range(mtxlist[t]) \cup IF tstat[t] = "wait" THEN {wid[t]} ELSE {}
    IN  {ceilpri[m] : m \in {k \in concerned : mtxatr[k] = "ceiling"}}

tk_chg_pri(t, p) ==
    LET s == [Now EXCEPT !.base[t] = p] IN
    /\ \A c \in Limits(t) : p >= c
    /\ Becomes(knl_change_task_priority(s, t, Raised(s, t, p)))
    /\ UNCHANGED <<mtxatr, ceilpri, wid>>

Next ==
    \/ \E m \in Mutex :
         \/ \E k \in Attribute \ {"ceiling"} : tk_cre_mtx(m, k, MaxPri)
         \/ \E c \in Ceiling : "ceiling" \in Attribute /\ tk_cre_mtx(m, "ceiling", c)
         \/ tk_del_mtx(m)
    \/ \E t \in Task :
         \/ \E m \in Mutex : tk_loc_mtx(t, m) \/ tk_unl_mtx(t, m)
         \/ WaitEnds(t)
         \/ tk_ter_tsk(t)
         \/ tk_sta_tsk(t)
         \/ \E p \in Pri : tk_chg_pri(t, p)

Spec == Init /\ [][Next]_mtxvars

-----------------------------------------------------------------------------
\* The shape of the state.
TypeOK ==
    /\ mtxatr \in [Mutex -> Attribute \cup {None}] /\ ceilpri \in [Mutex -> Pri]
    /\ mtxtsk \in [Mutex -> Task \cup {None}]
    /\ wait \in [Mutex -> Seq(Task)]
    /\ mtxlist \in [Task -> Seq(Mutex)]
    /\ pri \in [Task -> Pri] /\ base \in [Task -> Pri]
    /\ tstat \in [Task -> {"run", "wait", "dormant"}] /\ wid \in [Task -> Mutex]

\* The three places that say who holds and who waits agree, across handing
\* over, deletion, timeouts and terminations: a mutex is in the list of its
\* holder, once; its queue holds the tasks waiting for it, once each and, but
\* for "fifo", in the order of their present priorities; nobody waits for a
\* mutex that nobody, or a dormant task, holds.
HoldersConsistent ==
    /\ TypeOK
    /\ \A t \in Task :
         /\ Range(mtxlist[t]) = {m \in Mutex : mtxtsk[m] = t}
         /\ Len(mtxlist[t]) = Cardinality(Range(mtxlist[t]))
         /\ tstat[t] = "dormant" => mtxlist[t] = << >>
    /\ \A m \in Mutex :
         /\ Range(wait[m]) = {t \in Task : tstat[t] = "wait" /\ wid[t] = m}
         /\ Len(wait[m]) = Cardinality(Range(wait[m]))
         /\ wait[m] # << >> => mtxatr[m] # None /\ mtxtsk[m] # None
         /\ mtxatr[m] # "fifo" =>
              \A i, j \in DOMAIN wait[m] : i < j => pri[wait[m][i]] <= pri[wait[m][j]]

\* No priority inversion, and no priority kept that is no longer due: every
\* task's priority is its base priority, the ceiling of a mutex it holds or
\* the priority of a task that waits for a TA_INHERIT mutex it holds, whichever
\* is highest; along chains of such waits as well (knl_release_mutex()).  Its
\* base priority is not above the ceiling of a mutex it holds or waits for,
\* whether the lock or the change of priority came first.
PriorityIsDue ==
    \A t \in Task :
      /\ pri[t] = Raised(Now, t, base[t])
      /\ \A m \in Mutex :
           mtxatr[m] = "ceiling" /\ (mtxtsk[m] = t \/ t \in Range(wait[m]))
           => base[t] >= ceilpri[m]
=============================================================================
