------------------------------ MODULE WaitQueue ------------------------------
(***************************************************************************)
(* Waiting for a synchronization object (wait.c, wait.h): what the object  *)
(* modules have in common.                                                 *)
(*                                                                         *)
(* The tasks make their calls under the kernel lock (module KernelLock),   *)
(* one call at a time.  A call that serves waiting tasks does so in a      *)
(* loop, one task in each step, with the lock held; what it has released   *)
(* may execute on the other processor before the loop ends.                *)
(***************************************************************************)
EXTENDS Integers, FiniteSets, Sequences, SequencesExt

CONSTANTS
    Task,
    Pri,     \* task priorities, a smaller number is more urgent
    Queue,   \* the wait queues of the object
    None     \* no value: an unset pointer, an output parameter not written

ASSUME WaitAssumption ==
    /\ Pri \subseteq Nat
    /\ None \notin Queue \cup Task

VARIABLES
    exists,  \* the object's ID is set in its control block
    tpri,    \* TA_TPRI in the object's attribute
    queue,   \* wait_queue, or send_queue and recv_queue
    pri,     \* TCB.priority
    tstat,   \* "run": executing; "wait": waiting; "ready": its call is over,
             \* but it has not executed since
    winfo,   \* TCB.winfo, what the waiting call asks for
    wercd,   \* *TCB.wercd, the return code of the call
    out,     \* the output parameter of the call
    told,    \* history: code and output the kernel decided on
    rest     \* the waiting tasks the loop of the call in progress has still
             \* to look at; empty when the kernel lock is free

gcb   == <<exists, tpri, queue>>
tcb   == <<pri, tstat, winfo, wercd, out, told>>
wvars == <<gcb, tcb, rest>>

Code == {"E_OK", "E_TMOUT", "E_RLWAI", "E_DLT"}

\* The kernel lock is free, and t executes outside the kernel.
Unlocked == rest = << >>
Calls(t) == Unlocked /\ exists /\ tstat[t] = "run"

\* The wait queue t is in.
QueueOf(t) == {q \in Queue : t \in Range(queue[q])}

InitWait ==
    /\ exists = FALSE
    /\ tpri = FALSE
    /\ queue = [q \in Queue |-> << >>]
    /\ pri \in [Task -> Pri]
    /\ tstat = [t \in Task |-> "run"]
    /\ winfo = [t \in Task |-> None]
    /\ wercd = [t \in Task |-> None]
    /\ out = [t \in Task |-> None]
    /\ told = [t \in Task |-> None]
    /\ rest = << >>

TypeWait ==
    /\ exists \in BOOLEAN /\ tpri \in BOOLEAN
    /\ queue \in [Queue -> Seq(Task)]
    /\ pri \in [Task -> Pri]
    /\ tstat \in [Task -> {"run", "wait", "ready"}]
    /\ wercd \in [Task -> Code \cup {None}]
    /\ rest \in Seq(Task)

-----------------------------------------------------------------------------
\* Mutant: the task goes before those of its own priority.
InsertedBefore(s, p, t) ==
    LET later == {i \in 1 .. Len(s) + 1 : i > Len(s) \/ p[s[i]] >= p[t]}
        place == CHOOSE i \in later : \A j \in later : i <= j
    IN  InsertAt(s, place, t)

\* knl_queue_insert_tpri(): behind the tasks that are as urgent as t.
Inserted(s, p, t) ==
    LET later == {i \in 1 .. Len(s) + 1 : i > Len(s) \/ p[s[i]] > p[t]}
        place == CHOOSE i \in later : \A j \in later : i <= j
    IN  InsertAt(s, place, t)

\* QueRemove().
Unlinked(s, t) ==
    IF t \in Range(s) THEN RemoveAt(s, CHOOSE i \in DOMAIN s : s[i] = t) ELSE s

\* knl_gcb_top_of_wait_queue() is t itself.
IsTop(q, t) ==
    queue[q] # << >> => tpri /\ pri[t] < pri[Head(queue[q])]

\* knl_gcb_make_wait(), and the last lines of tk_rcv_mbf(): t waits in q, in
\* the order of the priorities or of arrival.  The code it returns is E_TMOUT
\* unless its releaser writes another one.
MakeWait(t, q, info, bypri) ==
    /\ tstat' = [tstat EXCEPT ![t] = "wait"]
    /\ winfo' = [winfo EXCEPT ![t] = info]
    /\ wercd' = [wercd EXCEPT ![t] = "E_TMOUT"]
    /\ queue' = [queue EXCEPT ![q] = IF bypri THEN Inserted(@, pri, t) ELSE Append(@, t)]
    /\ rest' = << >>
    /\ UNCHANGED <<exists, tpri, pri, out, told>>

\* The call of t is over without a wait.
Completes(t, data) ==
    /\ tstat' = [tstat EXCEPT ![t] = "ready"]
    /\ wercd' = [wercd EXCEPT ![t] = "E_OK"]
    /\ out' = [out EXCEPT ![t] = data]
    /\ told' = [told EXCEPT ![t] = [code |-> "E_OK", data |-> data]]
    /\ UNCHANGED <<gcb, pri, winfo>>

\* Mutant: the task is published before its return code and its output are
\* written; this is the state in which the other processor may run it.
ReleasedEarly(t, code, data) ==
    /\ tstat' = [tstat EXCEPT ![t] = "ready"]
    /\ winfo' = [winfo EXCEPT ![t] = None]
    /\ told' = [told EXCEPT ![t] = [code |-> code, data |-> data]]
    /\ UNCHANGED <<pri, wercd, out>>

\* The task is released with a code and an output, both written before
\* knl_make_non_wait() publishes it, so that all of it is one step.
Released(t, code, data) ==
    /\ tstat' = [tstat EXCEPT ![t] = "ready"]
    /\ winfo' = [winfo EXCEPT ![t] = None]
    /\ wercd' = [wercd EXCEPT ![t] = IF code = "E_TMOUT" THEN @ ELSE code]
    /\ out' = [out EXCEPT ![t] = data]
    /\ told' = [told EXCEPT ![t] = [code |-> code, data |-> data]]
    /\ UNCHANGED pri

\* knl_wait_release_ok() of a task in q.
ReleaseOk(t, q, data) ==
    /\ Released(t, "E_OK", data)
    /\ queue' = [queue EXCEPT ![q] = Unlinked(@, t)]
    /\ UNCHANGED <<exists, tpri>>

\* knl_wait_release_tmout() by the timer and knl_wait_release_ng() by
\* tk_rel_wai(), up to the release hook.
GiveUp(t, q, code) ==
    /\ Unlocked
    /\ tstat[t] = "wait" /\ t \in Range(queue[q])
    /\ code \in {"E_TMOUT", "E_RLWAI"}
    /\ Released(t, code, None)
    /\ queue' = [queue EXCEPT ![q] = Unlinked(@, t)]
    /\ UNCHANGED <<exists, tpri>>

\* knl_ter_tsk() of a task waiting in q, up to the release hook.  The task is
\* started again at once.
Terminated(t, q) ==
    /\ Unlocked
    /\ tstat[t] = "wait" /\ t \in Range(queue[q])
    /\ tstat' = [tstat EXCEPT ![t] = "run"]
    /\ winfo' = [winfo EXCEPT ![t] = None]
    /\ wercd' = [wercd EXCEPT ![t] = None]
    /\ queue' = [queue EXCEPT ![q] = Unlinked(@, t)]
    /\ UNCHANGED <<exists, tpri, pri, out, told>>

\* The three ways in which a task leaves q without what it waits for.
Withdrawn(t, q) ==
    \/ Terminated(t, q)
    \/ \E code \in {"E_TMOUT", "E_RLWAI"} : GiveUp(t, q, code)

\* Mutant: the task stays where it is in the queue.
ReorderedNot(t, q, p) ==
    /\ Unlocked
    /\ t \in Range(queue[q])
    /\ pri' = [pri EXCEPT ![t] = p]
    /\ UNCHANGED <<gcb, tstat, winfo, wercd, out, told>>

\* knl_change_task_priority() of a task waiting in q, if the priority change
\* hook is set: knl_gcb_change_priority().
Reordered(t, q, p) ==
    /\ Unlocked
    /\ t \in Range(queue[q])
    /\ pri' = [pri EXCEPT ![t] = p]
    /\ queue' = [queue EXCEPT ![q] = Inserted(Unlinked(@, t), pri', t)]
    /\ UNCHANGED <<exists, tpri, tstat, winfo, wercd, out, told>>

\* The same for a task that waits in no queue with such a hook.
ChangePriority(t, p, hooked) ==
    /\ Unlocked
    /\ \A q \in hooked : t \notin Range(queue[q])
    /\ pri' = [pri EXCEPT ![t] = p]
    /\ UNCHANGED <<gcb, tstat, winfo, wercd, out, told, rest>>

\* knl_wait_delete() of every queue, and the ID reset by tk_del_*().
Delete ==
    LET woken(t) == tstat[t] = "wait" IN
    /\ Unlocked /\ exists
    /\ exists' = FALSE
    /\ queue' = [q \in Queue |-> << >>]
    /\ tstat' = [t \in Task |-> IF woken(t) THEN "ready" ELSE tstat[t]]
    /\ winfo' = [t \in Task |-> None]
    /\ wercd' = [t \in Task |-> IF woken(t) THEN "E_DLT" ELSE wercd[t]]
    /\ told' = [t \in Task |-> IF woken(t) THEN [code |-> "E_DLT", data |-> None]
                               ELSE told[t]]
    /\ UNCHANGED <<tpri, pri, out, rest>>

\* The control block is taken from the free queue and set up.
Create(bypri) ==
    /\ Unlocked /\ ~exists
    /\ exists' = TRUE
    /\ tpri' = bypri
    /\ UNCHANGED <<queue, tcb, rest>>

\* A released task executes the end of its call: it reads its return code and
\* its output, without the lock, as soon as it is published.
Return(t) ==
    /\ tstat[t] = "ready"
    /\ tstat' = [tstat EXCEPT ![t] = "run"]
    /\ wercd' = [wercd EXCEPT ![t] = None]
    /\ out' = [out EXCEPT ![t] = None]
    /\ told' = [told EXCEPT ![t] = None]
    /\ UNCHANGED <<gcb, pri, winfo, rest>>

-----------------------------------------------------------------------------
(***************************************************************************)
(* Correctness of the common part.                                         *)
(***************************************************************************)
\* A task that has been released returns what its releaser decided, whenever
\* it executes: the comment "the release is the handover" in wait.c, which is
\* why *wercd and the output are written before knl_make_non_wait().
ReturnsWhatWasDecided ==
    \A t \in Task : tstat[t] = "ready" =>
        told[t] = [code |-> wercd[t], data |-> out[t]]

\* Whatever the tasks, time-outs, terminations, priority changes and the
\* deletion do: the wait queues hold the waiting tasks, each once, none of
\* them on a deleted object, and a TA_TPRI queue is in order of priority.
QueuesHoldWaiting ==
    /\ \A t \in Task : tstat[t] = "wait" <=> QueueOf(t) # {}
    /\ \A q \in Queue, i, j \in 1 .. Cardinality(Task) :
         /\ i \in DOMAIN queue[q] /\ j \in DOMAIN queue[q] /\ i < j
         => queue[q][i] # queue[q][j]
    /\ ~exists => \A q \in Queue : queue[q] = << >>

Ordered(q) ==
    \A i, j \in DOMAIN queue[q] : i < j => pri[queue[q][i]] <= pri[queue[q][j]]

\* The tasks that have to be served before t in q: those ahead of it or, if it
\* does not wait, those that are not less urgent.
Ahead(t, q) ==
    IF t \in Range(queue[q])
    THEN {queue[q][i] : i \in {j \in DOMAIN queue[q] :
                                 \A k \in DOMAIN queue[q] : queue[q][k] = t => j < k}}
    ELSE {w \in Range(queue[q]) : tpri => pri[w] <= pri[t]}
=============================================================================
