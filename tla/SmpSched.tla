------------------------------ MODULE SmpSched ------------------------------
(***************************************************************************)
(* Task management and dispatching on two processors.                      *)
(*                                                                         *)
(* A system call is a critical section under the kernel lock: it changes   *)
(* the task and the ready queue and selects a task for each processor      *)
(* (one step), publishes the selection in knl_schedtsk[] (a second step),  *)
(* leaves the lock, and looks, with interrupts still masked, whether its   *)
(* own processor must dispatch.  The dispatcher takes no lock: each of its *)
(* accesses to knl_ctxtsk[], knl_schedtsk[] and stkfree is a step, and may *)
(* fall between any two steps of a system call of the other processor.     *)
(*                                                                         *)
(* The lock is an atomic one here (module KernelLock has its protocol) and *)
(* the inter-processor interrupt a flag (module Ipi has its transport).    *)
(***************************************************************************)
EXTENDS ReadyQueue

CONSTANTS
    Idle,      \* the idle context of a processor, never in the ready queue
    NoCore,
    InitTask,  \* the initial task, started by sysinit.c
    InitPri,   \* ipriority of each task
    Pri,       \* task priorities
    Programs,  \* what a program may consist of: its tasks, and the system
               \* calls that tasks and handlers make
    Handlers,  \* processors on which interrupt handlers make system calls
    MaxSus,    \* bound on nested suspension requests
    MaxWup     \* bound on queued wakeup requests

ASSUME SchedAssumption ==
    /\ Idle \notin Task \cup {NoTask}
    /\ NoCore \notin Core
    /\ InitTask \in Task /\ 0 \in Affinity[InitTask]
    /\ Pri \subseteq Nat /\ InitPri \in [Task -> Pri]
    /\ Handlers \subseteq Core
    /\ \A p \in Programs : InitTask \in p.tasks /\ p.tasks \subseteq Task
    /\ MaxSus \in Nat \ {0} /\ MaxWup \in Nat

VARIABLES
    prog,      \* the program, one of Programs
    state,     \* TCB.state
    pri,       \* TCB.priority
    slp,       \* the wait of a waiting task is a tk_slp_tsk()
    sus,       \* TCB.suscnt
    wup,       \* TCB.wupcnt
    stkfree,   \* TCB.stkfree: to be reclaimed by the dispatcher
    free,      \* knl_free_tcb
    rq,        \* knl_ready_queue
    ctxtsk,    \* knl_ctxtsk[core]
    schedtsk,  \* knl_schedtsk[core]
    disd,      \* knl_dispatch_disabled[core]
    online,    \* knl_smp_online_mask
    pendsv,    \* PendSV pending on the core
    ipi,       \* a RESCHEDULE request on its way to the core
    lock,      \* the core that holds the kernel lock
    pc,        \* where each core is
    back,      \* where it continues when its system call ends
    sel,       \* sel[core]: the selection its call has not yet published
    victim,    \* the task a tk_del_tsk() found to be current
    out,       \* R4 of the dispatcher: the outgoing task
    r7,        \* R7 of the dispatcher: the incoming task
    stale,     \* history: a dispatcher installed a task after its slot changed
    slot,      \* slot[task]: the core whose slot tk_dis_dsp() or tk_ena_dsp(),
               \* called by the task, has computed the address of
    astray     \* history: a task wrote the slot of a core it was not on

tcb    == <<state, pri, slp, sus, wup>>
reap   == <<stkfree, free, victim>>
slots  == <<ctxtsk, schedtsk, disd, online>>
irqs   == <<pendsv, ipi>>
disp   == <<out, r7, stale>>
dsp    == <<slot, astray>>
system == <<tcb, reap, rq, slots, irqs, lock, pc, back, sel, disp>>
vars   == <<prog, dsp, system>>

State   == {"NONEXIST", "DORMANT", "READY", "WAIT", "SUSPEND", "WAITSUS"}
Alive   == {"READY", "WAIT", "SUSPEND", "WAITSUS"}
Waiting == {"WAIT", "WAITSUS"}
Empty   == [c \in Core |-> NoTask]
Slot    == Task \cup {NoTask}

\* One pc value per stage of a core: starting up ("boot", "ready"), executing
\* ctxtsk ("run"), in a system call, in the dispatcher.
InCall     == {"publish", "reserve", "leave", "abandon", "check"}
Dispatcher == {"save", "release", "reclaim", "load", "store"}

TypeOK ==
    /\ state \in [Task -> State]
    /\ pri \in [Task -> Pri]
    /\ slp \in [Task -> BOOLEAN]
    /\ sus \in [Task -> 0 .. MaxSus]
    /\ wup \in [Task -> 0 .. MaxWup]
    /\ stkfree \in [Task -> BOOLEAN]
    /\ free \subseteq Task
    /\ rq \in Seq(Task)
    /\ ctxtsk \in [Core -> Slot \cup {Idle}]
    /\ schedtsk \in [Core -> Slot]
    /\ disd \in [Core -> {DDS_ENABLE, DDS_DISABLE_IMPLICIT, DDS_DISABLE}]
    /\ online \subseteq Core
    /\ pendsv \in [Core -> BOOLEAN]
    /\ ipi \in [Core -> BOOLEAN]
    /\ lock \in Core \cup {NoCore}
    /\ pc \in [Core -> {"boot", "ready", "run"} \cup InCall \cup Dispatcher]
    /\ back \in [Core -> {"run", "save", "release", "load", "abandon"}]
    /\ sel \in [Core -> [Core -> Slot]]
    /\ victim \in Slot
    /\ out \in [Core -> Slot \cup {Idle}]
    /\ r7 \in [Core -> Slot \cup {Idle}]
    /\ stale \in BOOLEAN
    /\ slot \in [Task -> Core \cup {NoCore}]
    /\ astray \in BOOLEAN

\* sysinit.c has started the initial task on processor 0 and called
\* knl_force_dispatch(); processor 1 has not been launched.
Init ==
    /\ prog \in Programs
    /\ state = [t \in Task |-> IF t = InitTask THEN "READY" ELSE "NONEXIST"]
    /\ pri = InitPri
    /\ slp = [t \in Task |-> FALSE]
    /\ sus = [t \in Task |-> 0]
    /\ wup = [t \in Task |-> 0]
    /\ stkfree = [t \in Task |-> FALSE]
    /\ free = prog.tasks \ {InitTask}
    /\ rq = <<InitTask>>
    /\ ctxtsk = Empty
    /\ schedtsk = [Empty EXCEPT ![0] = InitTask]
    /\ disd = [c \in Core |-> IF c = 0 THEN DDS_DISABLE_IMPLICIT ELSE DDS_ENABLE]
    /\ online = {0}
    /\ pendsv = [c \in Core |-> c = 0]
    /\ ipi = [c \in Core |-> FALSE]
    /\ lock = NoCore
    /\ pc = [c \in Core |-> IF c = 0 THEN "run" ELSE "boot"]
    /\ back = [c \in Core |-> "run"]
    /\ sel = [c \in Core |-> Empty]
    /\ victim = NoTask
    /\ out = Empty
    /\ r7 = Empty
    /\ stale = FALSE
    /\ slot = [t \in Task |-> NoCore]
    /\ astray = FALSE

IsCtx(t) == \E c \in Core : ctxtsk[c] = t   \* knl_is_ctxtsk()

-----------------------------------------------------------------------------
(***************************************************************************)
(* The frame of a system call: BEGIN_CRITICAL_SECTION, publication,        *)
(* END_CRITICAL_SECTION, knl_force_dispatch().                             *)
(***************************************************************************)
\* Task code executes on c.  A pended PendSV is taken before any of it.
InTask(c) == pc[c] = "run" /\ ~pendsv[c] /\ ctxtsk[c] \in Task

\* It is not in the middle of tk_dis_dsp() or tk_ena_dsp().
AtCall(c) == InTask(c) /\ slot[ctxtsk[c]] = NoCore

\* Mutant: interrupts are masked, but the lock is not taken.
EnterUnlocked(c, by) ==
    /\ \/ by = "task" /\ AtCall(c) /\ state[ctxtsk[c]] \in Alive
       \/ by = "handler" /\ c \in Handlers /\ pc[c] \in {"run", "save", "release", "load"}
    /\ lock' = c

\* The kernel lock is entered by the live task current on c, or by an
\* interrupt handler, which may have interrupted the dispatcher as long as
\* that has not masked interrupts.
Enter(c, by) ==
    /\ lock = NoCore
    /\ \/ by = "task" /\ AtCall(c) /\ state[ctxtsk[c]] \in Alive
       \/ by = "handler" /\ c \in Handlers /\ pc[c] \in {"run", "save", "release", "load"}
    /\ lock' = c

\* Mutant: each processor takes the most urgent task its affinity allows.
SelectEach(c) ==
    LET mine(d) == SelectSeq(rq', LAMBDA t : d \in Affinity[t])
        each    == [d \in Core |-> IF mine(d) = << >> THEN NoTask ELSE Head(mine(d))]
    IN  sel' = [sel EXCEPT ![c] = each]

\* knl_smp_reschedule_all() up to the publication, on the queue and the
\* dispatch-disable states the call has made.
Select(c) ==
    sel' = [sel EXCEPT ![c] =
              Guarded(Assign(rq', ctxtsk, schedtsk, disd', online), schedtsk)]

\* The rest of a call that reschedules, and of one that does not.
Reschedules(c) ==
    /\ Select(c)
    /\ pc' = [pc EXCEPT ![c] = "publish"]
    /\ back' = [back EXCEPT ![c] = pc[c]]
    /\ UNCHANGED <<ctxtsk, schedtsk, online, irqs, disp>>

Returns(c) ==
    /\ pc' = [pc EXCEPT ![c] = "leave"]
    /\ back' = [back EXCEPT ![c] = pc[c]]
    /\ UNCHANGED <<sel, ctxtsk, schedtsk, online, irqs, disp>>

\* A call that does not return ends in knl_force_dispatch().
NeverReturns(c, resched) ==
    /\ IF resched THEN Select(c) ELSE sel' = sel
    /\ pc' = [pc EXCEPT ![c] = IF resched THEN "publish" ELSE "abandon"]
    /\ back' = [back EXCEPT ![c] = "abandon"]
    /\ UNCHANGED <<ctxtsk, schedtsk, online, irqs, disp>>

\* Mutant: the other processor's slot is written but its core not told.
PublishSilent(c) ==
    /\ pc[c] = "publish"
    /\ schedtsk' = [d \in Core |-> IF d \in online THEN sel[c][d] ELSE schedtsk[d]]
    /\ pc' = [pc EXCEPT ![c] = IF back[c] = "abandon" THEN "abandon" ELSE "leave"]
    /\ sel' = [sel EXCEPT ![c] = Empty]
    /\ UNCHANGED <<tcb, reap, rq, ctxtsk, disd, online, irqs, lock, back, disp>>

\* The end of knl_smp_reschedule_all(): store the selection of every online
\* processor and request a dispatch of the other one if its slot changed.
Publish(c) ==
    /\ pc[c] = "publish"
    /\ schedtsk' = [d \in Core |-> IF d \in online THEN sel[c][d] ELSE schedtsk[d]]
    /\ ipi' = [d \in Core |-> ipi[d] \/ (d # c /\ schedtsk'[d] # schedtsk[d])]
    /\ pc' = [pc EXCEPT ![c] = IF back[c] = "abandon" THEN "abandon" ELSE "leave"]
    /\ sel' = [sel EXCEPT ![c] = Empty]
    /\ UNCHANGED <<tcb, reap, rq, ctxtsk, disd, online, pendsv, lock, back, disp>>

\* KNL_KERNEL_LOCK_LEAVE() of END_CRITICAL_SECTION.
Leave(c) ==
    /\ pc[c] = "leave"
    /\ lock' = NoCore
    /\ pc' = [pc EXCEPT ![c] = "check"]
    /\ UNCHANGED <<tcb, reap, rq, slots, irqs, back, sel, disp>>

\* Mutant: the call that made another task run here returns without asking
\* for a dispatch.
CheckForgets(c) ==
    /\ pc[c] = "check"
    /\ pc' = [pc EXCEPT ![c] = back[c]]
    /\ UNCHANGED <<tcb, reap, rq, slots, irqs, lock, back, sel, disp>>

\* The rest of END_CRITICAL_SECTION, after the lock, with interrupts masked.
Check(c) ==
    /\ pc[c] = "check"
    /\ pendsv' = [pendsv EXCEPT ![c] =
                    @ \/ (ctxtsk[c] # schedtsk[c] /\ disd[c] = DDS_ENABLE)]
    /\ pc' = [pc EXCEPT ![c] = back[c]]
    /\ UNCHANGED <<tcb, reap, rq, slots, ipi, lock, back, sel, disp>>

\* knl_force_dispatch(): abandon the lock, disable dispatching implicitly,
\* pend PendSV, unmask.
Abandon(c) ==
    /\ pc[c] = "abandon"
    /\ lock' = NoCore
    /\ disd' = [disd EXCEPT ![c] = DDS_DISABLE_IMPLICIT]
    /\ pendsv' = [pendsv EXCEPT ![c] = TRUE]
    /\ pc' = [pc EXCEPT ![c] = "run"]
    /\ UNCHANGED <<tcb, reap, rq, ctxtsk, schedtsk, online, ipi, back, sel, disp>>

\* knl_kernel_lock_enter() by a task that was terminated meanwhile: it
\* leaves the lock again and forces a dispatch.
CaughtDead(c) ==
    /\ AtCall(c) /\ state[ctxtsk[c]] \notin Alive
    /\ lock = NoCore
    /\ disd' = [disd EXCEPT ![c] = DDS_DISABLE_IMPLICIT]
    /\ pendsv' = [pendsv EXCEPT ![c] = TRUE]
    /\ UNCHANGED <<tcb, reap, rq, ctxtsk, schedtsk, online, ipi, lock, pc, back, sel, disp>>

\* A call that is refused, or only looks (tk_ref_tsk()).
NoEffect(c, by) ==
    /\ "none" \in prog[by]
    /\ Enter(c, by)
    /\ Returns(c)
    /\ UNCHANGED <<tcb, reap, rq, disd>>

-----------------------------------------------------------------------------
(***************************************************************************)
(* Task management (task_manage.c).                                        *)
(***************************************************************************)
\* knl_make_dormant() on the fields modelled.
Dormant(t, s) ==
    /\ state' = [state EXCEPT ![t] = s]
    /\ pri' = [pri EXCEPT ![t] = InitPri[t]]
    /\ sus' = [sus EXCEPT ![t] = 0]
    /\ wup' = [wup EXCEPT ![t] = 0]
    /\ UNCHANGED slp

tk_cre_tsk(c, by, t) ==
    /\ "cre" \in prog[by]
    /\ t \in free
    /\ Enter(c, by)
    /\ free' = free \ {t}
    /\ stkfree' = [stkfree EXCEPT ![t] = FALSE]
    /\ Dormant(t, "DORMANT")
    /\ Returns(c)
    /\ UNCHANGED <<rq, disd, victim>>

\* Mutant: a task that some processor still executes is reclaimed at once.
tk_del_tskEager(c, by, t) ==
    /\ "del" \in prog[by]
    /\ Enter(c, by)
    /\ state[t] = "DORMANT"
    /\ free' = free \cup {t}
    /\ state' = [state EXCEPT ![t] = "NONEXIST"]
    /\ Returns(c)
    /\ UNCHANGED <<pri, slp, sus, wup, stkfree, rq, disd, victim>>

\* A dormant task no processor executes is reclaimed; the other case is left
\* to the dispatcher, by Reserve.
tk_del_tsk(c, by, t) ==
    /\ "del" \in prog[by]
    /\ Enter(c, by)
    /\ state[t] = "DORMANT"
    /\ UNCHANGED <<pri, slp, sus, wup, stkfree, rq, disd>>
    /\ \/ /\ ~IsCtx(t)
          /\ free' = free \cup {t}
          /\ state' = [state EXCEPT ![t] = "NONEXIST"]
          /\ Returns(c)
          /\ UNCHANGED victim
       \/ /\ IsCtx(t)
          /\ victim' = t
          /\ pc' = [pc EXCEPT ![c] = "reserve"]
          /\ back' = [back EXCEPT ![c] = pc[c]]
          /\ UNCHANGED <<state, free, sel, ctxtsk, schedtsk, online, irqs, disp>>

\* tk_del_tsk(), having found the task current somewhere.
Reserve(c) ==
    /\ pc[c] = "reserve"
    /\ stkfree' = [stkfree EXCEPT ![victim] = TRUE]
    /\ state' = [state EXCEPT ![victim] = "NONEXIST"]
    /\ victim' = NoTask
    /\ pc' = [pc EXCEPT ![c] = "leave"]
    /\ UNCHANGED <<pri, slp, sus, wup, free, rq, slots, irqs, lock, back, sel, disp>>

\* The task executes from its beginning, whatever it was doing.
tk_sta_tsk(c, by, t) ==
    /\ "sta" \in prog[by]
    /\ Enter(c, by)
    /\ state[t] = "DORMANT" /\ ~IsCtx(t)
    /\ state' = [state EXCEPT ![t] = "READY"]
    /\ rq' = ReadyInsert(rq, pri, t)
    /\ slot' = [slot EXCEPT ![t] = NoCore]
    /\ UNCHANGED <<pri, slp, sus, wup, reap, disd, astray>>
    /\ Reschedules(c)

tk_ext_tsk(c) ==
    LET t == ctxtsk[c] IN
    /\ "ext" \in prog["task"]
    /\ Enter(c, "task")
    /\ rq' = ReadyDelete(rq, t)
    /\ Dormant(t, "DORMANT")
    /\ stkfree' = [stkfree EXCEPT ![t] = FALSE]
    /\ UNCHANGED <<free, victim, disd>>
    /\ NeverReturns(c, state[t] = "READY")

tk_exd_tsk(c) ==
    LET t == ctxtsk[c] IN
    /\ "exd" \in prog["task"]
    /\ Enter(c, "task")
    /\ rq' = ReadyDelete(rq, t)
    /\ state' = [state EXCEPT ![t] = "NONEXIST"]
    /\ stkfree' = [stkfree EXCEPT ![t] = TRUE]
    /\ UNCHANGED <<pri, slp, sus, wup, free, victim, disd>>
    /\ NeverReturns(c, state[t] = "READY")

\* Mutant: the terminated task is not withdrawn from its processor.
tk_ter_tskLazy(c, by, t) ==
    /\ "ter" \in prog[by]
    /\ Enter(c, by)
    /\ by = "task" => t # ctxtsk[c]
    /\ state[t] \in Alive
    /\ disd' = [d \in Core |-> IF ctxtsk[d] = t THEN DDS_ENABLE ELSE disd[d]]
    /\ rq' = ReadyDelete(rq, t)
    /\ Dormant(t, "DORMANT")
    /\ stkfree' = [stkfree EXCEPT ![t] = FALSE]
    /\ UNCHANGED <<free, victim>>
    /\ Returns(c)

\* Termination of another task: of any task, by a handler.  It overrides the
\* task's dispatch-disable state.
tk_ter_tsk(c, by, t) ==
    /\ "ter" \in prog[by]
    /\ Enter(c, by)
    /\ by = "task" => t # ctxtsk[c]
    /\ state[t] \in Alive
    /\ disd' = [d \in Core |-> IF ctxtsk[d] = t THEN DDS_ENABLE ELSE disd[d]]
    /\ rq' = ReadyDelete(rq, t)
    /\ Dormant(t, "DORMANT")
    /\ stkfree' = [stkfree EXCEPT ![t] = FALSE]
    /\ UNCHANGED <<free, victim>>
    /\ IF state[t] = "READY" THEN Reschedules(c) ELSE Returns(c)

\* tk_chg_pri() and knl_change_task_priority().
tk_chg_pri(c, by, t, p) ==
    /\ "chg" \in prog[by]
    /\ Enter(c, by)
    /\ state[t] # "NONEXIST"
    /\ pri' = [pri EXCEPT ![t] = p]
    /\ UNCHANGED <<state, slp, sus, wup, reap, disd>>
    /\ \/ /\ state[t] = "READY"
          /\ rq' = ReadyInsert(ReadyDelete(rq, t), pri', t)
          /\ Reschedules(c)
       \/ /\ state[t] # "READY"
          /\ rq' = rq
          /\ Returns(c)

tk_rot_rdq(c, by, p) ==
    /\ "rot" \in prog[by]
    /\ Enter(c, by)
    /\ rq' = ReadyRotate(rq, pri, p)
    /\ UNCHANGED <<tcb, reap, disd>>
    /\ Reschedules(c)

-----------------------------------------------------------------------------
(***************************************************************************)
(* Task synchronization (task_sync.c) and waiting (wait.c, wait.h).        *)
(***************************************************************************)
\* knl_make_ready() of t, and knl_make_non_ready() of t into state s.
MakeReady(c, t) ==
    /\ state' = [state EXCEPT ![t] = "READY"]
    /\ rq' = ReadyInsert(rq, pri, t)
    /\ Reschedules(c)

MakeNonReady(c, t, s) ==
    /\ state' = [state EXCEPT ![t] = s]
    /\ rq' = ReadyDelete(rq, t)
    /\ Reschedules(c)

\* Mutant: the released task becomes ready although it is suspended.
MakeNonWaitAlways(c, t) == MakeReady(c, t)

\* knl_make_non_wait(): a suspended task stays suspended.
MakeNonWait(c, t) ==
    \/ state[t] = "WAIT" /\ MakeReady(c, t)
    \/ state[t] = "WAITSUS" /\ state' = [state EXCEPT ![t] = "SUSPEND"]
         /\ UNCHANGED rq /\ Returns(c)

\* knl_make_wait(): the task on c, which another processor may have
\* suspended meanwhile.
MakeWait(c) ==
    LET t == ctxtsk[c] IN
    \/ state[t] = "READY" /\ MakeNonReady(c, t, "WAIT")
    \/ state[t] = "SUSPEND" /\ state' = [state EXCEPT ![t] = "WAITSUS"]
         /\ UNCHANGED rq /\ Returns(c)

\* A task whose processor has dispatching disabled is not suspended.
tk_sus_tsk(c, by, t) ==
    /\ "sus" \in prog[by]
    /\ Enter(c, by)
    /\ by = "task" => t # ctxtsk[c]
    /\ state[t] \in Alive
    /\ \A d \in Core : ctxtsk[d] = t => disd[d] < DDS_DISABLE
    /\ sus[t] < MaxSus
    /\ sus' = [sus EXCEPT ![t] = @ + 1]
    /\ UNCHANGED <<pri, slp, wup, reap, disd>>
    /\ \/ state[t] = "READY" /\ MakeNonReady(c, t, "SUSPEND")
       \/ /\ state[t] # "READY"
          /\ state' = [state EXCEPT ![t] = IF @ = "WAIT" THEN "WAITSUS" ELSE @]
          /\ UNCHANGED rq
          /\ Returns(c)

\* tk_rsm_tsk() takes back one request, tk_frsm_tsk() all of them.
tk_rsm_tsk(c, by, t) ==
    /\ "rsm" \in prog[by]
    /\ Enter(c, by)
    /\ state[t] \in {"SUSPEND", "WAITSUS"}
    /\ sus' \in {[sus EXCEPT ![t] = n] : n \in {sus[t] - 1, 0}}
    /\ UNCHANGED <<pri, slp, wup, reap, disd>>
    /\ \/ sus'[t] = 0 /\ state[t] = "SUSPEND" /\ MakeReady(c, t)
       \/ /\ sus'[t] > 0 \/ state[t] = "WAITSUS"
          /\ state' = [state EXCEPT ![t] = IF sus'[t] = 0 THEN "WAIT" ELSE @]
          /\ UNCHANGED rq
          /\ Returns(c)

\* Mutant: the task waits without looking at the queued requests.
tk_slp_tskDeaf(c) ==
    /\ "slp" \in prog["task"]
    /\ Enter(c, "task") /\ disd[c] = DDS_ENABLE
    /\ UNCHANGED <<pri, sus, wup, reap, disd>>
    /\ slp' = [slp EXCEPT ![ctxtsk[c]] = TRUE]
    /\ MakeWait(c)

tk_slp_tsk(c) ==
    LET t == ctxtsk[c] IN
    /\ "slp" \in prog["task"]
    /\ Enter(c, "task") /\ disd[c] = DDS_ENABLE
    /\ UNCHANGED <<pri, sus, reap, disd>>
    /\ \/ wup[t] > 0 /\ wup' = [wup EXCEPT ![t] = @ - 1]
            /\ Returns(c) /\ UNCHANGED <<state, slp, rq>>
       \/ wup[t] = 0 /\ slp' = [slp EXCEPT ![t] = TRUE] /\ UNCHANGED wup /\ MakeWait(c)

tk_dly_tsk(c) ==
    /\ "dly" \in prog["task"]
    /\ Enter(c, "task") /\ disd[c] = DDS_ENABLE
    /\ slp' = [slp EXCEPT ![ctxtsk[c]] = FALSE]
    /\ UNCHANGED <<pri, sus, wup, reap, disd>>
    /\ MakeWait(c)

\* Mutant: a wakeup inserts the task whether it waits or not.
tk_wup_tskTwice(c, by, t) ==
    /\ "wup" \in prog[by]
    /\ Enter(c, by)
    /\ by = "task" => t # ctxtsk[c]
    /\ state[t] \in Alive
    /\ UNCHANGED <<pri, slp, sus, wup, reap, disd>>
    /\ MakeReady(c, t)

tk_wup_tsk(c, by, t) ==
    /\ "wup" \in prog[by]
    /\ Enter(c, by)
    /\ by = "task" => t # ctxtsk[c]
    /\ UNCHANGED <<pri, slp, sus, reap, disd>>
    /\ \/ state[t] \in Waiting /\ slp[t] /\ UNCHANGED wup /\ MakeNonWait(c, t)
       \/ /\ state[t] \in Alive /\ ~(state[t] \in Waiting /\ slp[t])
          /\ wup[t] < MaxWup
          /\ wup' = [wup EXCEPT ![t] = @ + 1]
          /\ UNCHANGED <<state, rq>>
          /\ Returns(c)

tk_can_wup(c, by, t) ==
    /\ "can" \in prog[by]
    /\ Enter(c, by)
    /\ state[t] \in Alive
    /\ wup' = [wup EXCEPT ![t] = 0]
    /\ UNCHANGED <<state, pri, slp, sus, rq, reap, disd>>
    /\ Returns(c)

\* tk_rel_wai(), and knl_wait_release_tmout() of the timer interrupt.
ReleaseWait(c, by, t) ==
    /\ "rel" \in prog[by]
    /\ Enter(c, by)
    /\ state[t] \in Waiting
    /\ UNCHANGED <<pri, slp, sus, wup, reap, disd>>
    /\ MakeNonWait(c, t)

-----------------------------------------------------------------------------
(***************************************************************************)
(* Dispatch control (cpuctl.c).  Neither call takes the lock or masks      *)
(* interrupts: knl_dispatch_disabled is an accessor that reads the core id *)
(* first, and the task may be dispatched to the other core before it       *)
(* writes the slot.  The calls that may wait look at the slot in the step  *)
(* that enters the lock: a task on the move can only be refused earlier.   *)
(***************************************************************************)
knl_dispatch_disabled_slot(c) ==
    /\ "dsp" \in prog["task"]
    /\ AtCall(c)
    /\ slot' = [slot EXCEPT ![ctxtsk[c]] = c]
    /\ UNCHANGED <<system, astray>>

\* The task on c writes v to the slot it has the address of.  When it has
\* enabled dispatching, its comparison of the two tasks is in the same step: a
\* dispatch between the two makes the comparison superfluous.
Writes(c, v) ==
    LET d == slot[ctxtsk[c]] IN
    /\ InTask(c) /\ d # NoCore
    /\ disd' = [disd EXCEPT ![d] = v]
    /\ slot' = [slot EXCEPT ![ctxtsk[c]] = NoCore]
    /\ astray' = (astray \/ d # c)
    /\ UNCHANGED <<tcb, reap, rq, ctxtsk, schedtsk, online, ipi, lock, pc, back, sel, disp>>

tk_dis_dsp(c) ==
    /\ Writes(c, DDS_DISABLE)
    /\ UNCHANGED pendsv

tk_ena_dsp(c) ==
    /\ Writes(c, DDS_ENABLE)
    /\ pendsv' = [pendsv EXCEPT ![c] = ctxtsk[c] # schedtsk[c]]

-----------------------------------------------------------------------------
(***************************************************************************)
(* The dispatcher (dispatch.S), the inter-processor interrupt that starts  *)
(* it, and the launch of processor 1.                                      *)
(***************************************************************************)
\* Move core c, executing no system call, from one stage to another.
Goes(c, from, to) ==
    /\ pc[c] = from
    /\ pc' = [pc EXCEPT ![c] = to]
    /\ UNCHANGED <<pri, slp, sus, wup, victim, rq, schedtsk, online, lock, back, sel>>

\* PendSV: dispatching is disabled implicitly.
StartDispatch(c) ==
    /\ pendsv[c]
    /\ Goes(c, "run", "save")
    /\ pendsv' = [pendsv EXCEPT ![c] = FALSE]
    /\ disd' = [disd EXCEPT ![c] = DDS_DISABLE_IMPLICIT]
    /\ UNCHANGED <<state, stkfree, free, ctxtsk, ipi, disp>>

\* The context is saved, and only then ctxtsk cleared.
Save(c) ==
    /\ Goes(c, "save", IF ctxtsk[c] = NoTask THEN "load" ELSE "release")
    /\ out' = [out EXCEPT ![c] = ctxtsk[c]]
    /\ ctxtsk' = [ctxtsk EXCEPT ![c] = NoTask]
    /\ UNCHANGED <<state, stkfree, free, disd, irqs, r7, stale>>

\* knl_smp_dispatch_release(): the test without the lock.
Release(c) ==
    /\ Goes(c, "release",
            IF out[c] \in Task /\ stkfree[out[c]] THEN "reclaim" ELSE "load")
    /\ UNCHANGED <<state, stkfree, free, ctxtsk, disd, irqs, disp>>

\* Its second half, under the lock, with knl_del_tsk().
Reclaim(c) ==
    LET t == out[c]
        reclaims == stkfree[t] /\ ~IsCtx(t)
    IN
    /\ lock = NoCore
    /\ Goes(c, "reclaim", "load")
    /\ stkfree' = [stkfree EXCEPT ![t] = @ /\ ~reclaims]
    /\ free' = IF reclaims THEN free \cup {t} ELSE free
    /\ state' = [state EXCEPT ![t] = IF reclaims THEN "NONEXIST" ELSE @]
    /\ UNCHANGED <<ctxtsk, disd, irqs, disp>>

\* Interrupts are masked, then the slot is read into R7; an empty slot means
\* the idle context.
Load(c) ==
    /\ Goes(c, "load", "store")
    /\ r7' = [r7 EXCEPT ![c] = IF schedtsk[c] = NoTask THEN Idle ELSE schedtsk[c]]
    /\ out' = [out EXCEPT ![c] = NoTask]
    /\ UNCHANGED <<state, stkfree, free, ctxtsk, disd, irqs, stale>>

\* ctxtsk is set, the context restored, dispatching enabled, interrupts
\* unmasked.
Store(c) ==
    /\ Goes(c, "store", "run")
    /\ ctxtsk' = [ctxtsk EXCEPT ![c] = r7[c]]
    /\ disd' = [disd EXCEPT ![c] = DDS_ENABLE]
    /\ r7' = [r7 EXCEPT ![c] = NoTask]
    /\ stale' = (stale \/ (r7[c] \in Task /\ schedtsk[c] # r7[c]))
    /\ UNCHANGED <<state, stkfree, free, irqs, out>>

\* The RESCHEDULE reason in knl_smp_core0_ipi() and knl_smp_core1_ipi().
TakeIpi(c) ==
    /\ ipi[c]
    /\ Goes(c, "run", "run")
    /\ ipi' = [ipi EXCEPT ![c] = FALSE]
    /\ pendsv' = [pendsv EXCEPT ![c] = TRUE]
    /\ UNCHANGED <<state, stkfree, free, ctxtsk, disd, disp>>

\* knl_smp_core1_entry(): announce core 1, then force a dispatch.
Announce ==
    /\ Goes(1, "boot", "ready")
    /\ UNCHANGED <<state, stkfree, free, ctxtsk, disd, irqs, disp>>

StartCore1 ==
    /\ Goes(1, "ready", "run")
    /\ disd' = [disd EXCEPT ![1] = DDS_DISABLE_IMPLICIT]
    /\ pendsv' = [pendsv EXCEPT ![1] = TRUE]
    /\ UNCHANGED <<state, stkfree, free, ctxtsk, ipi, disp>>

\* knl_smp_launch_core1() sees the announcement.  The initial task calls it
\* from knl_start_device(), before there is any other task; if it gives up
\* waiting, the system continues on core 0.
GoOnline ==
    /\ AtCall(0)
    /\ free = prog.tasks \ {InitTask}
    /\ pc[1] # "boot" /\ online # Core
    /\ online' = Core
    /\ UNCHANGED <<tcb, reap, rq, ctxtsk, schedtsk, disd, irqs, lock, pc, back, sel, disp>>

-----------------------------------------------------------------------------
CallBy(c, by) ==
    \/ NoEffect(c, by)
    \/ \E t \in Task :
         \/ tk_cre_tsk(c, by, t) \/ tk_del_tsk(c, by, t)
         \/ tk_ter_tsk(c, by, t) \/ tk_sus_tsk(c, by, t) \/ tk_rsm_tsk(c, by, t)
         \/ tk_wup_tsk(c, by, t) \/ tk_can_wup(c, by, t) \/ ReleaseWait(c, by, t)
         \/ \E p \in Pri : tk_chg_pri(c, by, t, p)
    \/ \E p \in Pri : tk_rot_rdq(c, by, p)

CallByTask(c) ==
    \/ tk_ext_tsk(c) \/ tk_exd_tsk(c) \/ tk_slp_tsk(c) \/ tk_dly_tsk(c)
    \/ CaughtDead(c)

DispatchControl(c) == knl_dispatch_disabled_slot(c) \/ tk_dis_dsp(c) \/ tk_ena_dsp(c)

EndOfCall(c) == Publish(c) \/ Reserve(c) \/ Leave(c) \/ Check(c) \/ Abandon(c)

Dispatch(c) ==
    StartDispatch(c) \/ Save(c) \/ Release(c) \/ Reclaim(c) \/ Load(c) \/ Store(c)

Step ==
    \/ \E c \in Core : \/ CallByTask(c) \/ EndOfCall(c) \/ Dispatch(c) \/ TakeIpi(c)
                       \/ \E by \in {"task", "handler"} : CallBy(c, by)
    \/ Announce \/ StartCore1 \/ GoOnline

Next ==
    /\ UNCHANGED prog
    /\ \/ Step /\ UNCHANGED dsp
       \/ \E c \in Core : \/ DispatchControl(c)
                          \/ \E by \in {"task", "handler"}, t \in Task : tk_sta_tsk(c, by, t)

Spec == Init /\ [][Next]_vars

\* Core 1, the kernel sections and the dispatcher run on.  A core takes a
\* pending interrupt when it unmasks, however often it masks in between.
\* Nothing makes a task call the kernel.
FairSpec ==
    /\ Spec
    /\ WF_system(StartCore1)
    /\ \A c \in Core : /\ WF_system(EndOfCall(c))
                       /\ WF_system(Dispatch(c))
                       /\ SF_system(TakeIpi(c))

-----------------------------------------------------------------------------
(***************************************************************************)
(* Correctness.                                                            *)
(***************************************************************************)
\* The claim of smp_dispatch.c, knl_smp_dispatch_audit() and task_core_mask():
\* a task is never current on two processors.
NoTaskOnTwoCores == \A t \in Task : ctxtsk[0] = t => ctxtsk[1] # t

\* The one way to break that claim is a dispatcher that installs a task after
\* its slot has been given to another one: otherwise the ownership rules of
\* knl_task_core_mask() and the release point of dispatch.S keep a task, which
\* may at any time be preempted, migrated, terminated and restarted, on one
\* processor.
OwnedUnlessStale == ~stale => NoTaskOnTwoCores

\* No task is ever published to two processors (knl_smp_reschedule_all()).
OnePublication == \A t \in Task : schedtsk[0] = t => schedtsk[1] # t

\* What the other processor may install is runnable: whenever the lock is
\* free, a published task is in the ready queue, so that no call can take a
\* task out of it and leave it in a slot.
PublishedIsReady ==
    lock = NoCore => \A c \in Core : schedtsk[c] # NoTask => schedtsk[c] \in Range(rq)

\* The ready queue holds exactly the READY tasks, each once and in the order
\* of their priorities, between critical sections (a double wakeup, a wakeup
\* of a suspended task, a priority change must not break it).
QueueHoldsReady ==
    lock = NoCore =>
      /\ Range(rq) = {t \in Task : state[t] = "READY"}
      /\ \A i, j \in DOMAIN rq : i < j => rq[i] # rq[j] /\ pri[rq[i]] <= pri[rq[j]]

\* No reschedule is lost: a processor that executes something else than what
\* is published to it has a dispatch or an interrupt on the way, although
\* END_CRITICAL_SECTION looks at the slots without the lock.  A task that was
\* migrated in tk_dis_dsp() and disables the processor it left breaks it.
DispatchOwed ==
    ~stale /\ ~astray =>
      \A c \in Core :
        /\ pc[c] = "run"
        /\ ctxtsk[c] # (IF schedtsk[c] = NoTask THEN Idle ELSE schedtsk[c])
        => pendsv[c] \/ ipi[c]

\* A task that has begun to wait executes nothing before it is released: no
\* interleaving lets the waiting call return early, short of a stray write by
\* a migrated tk_dis_dsp(), which turns END_CRITICAL_SECTION off.
WaitingNeverRuns ==
    ~stale /\ ~astray => \A c \in Core : InTask(c) => state[ctxtsk[c]] \notin Waiting

\* A task is kept from executing by suspension requests exactly as long as
\* some are outstanding, in whatever order it is suspended, resumed, put to
\* wait and released by the two processors.  A task that exits and deletes
\* itself while it is suspended leaves its count in the control block.
SuspensionCounted ==
    \A t \in Task :
      state[t] # "NONEXIST" => (sus[t] > 0 <=> state[t] \in {"SUSPEND", "WAITSUS"})

\* No wakeup is lost between a task that goes to sleep and one that wakes it
\* from the other processor: no task sleeps while a request for it is queued.
NoLostWakeup ==
    \A t \in Task : slp[t] /\ state[t] \in Waiting => wup[t] = 0

\* A control block and its stack are free only when no processor executes on
\* them (knl_is_ctxtsk() in tk_del_tsk() and knl_smp_dispatch_release()).
FreeIsUnused ==
    ~stale => \A t \in free : ~IsCtx(t) /\ state[t] = "NONEXIST" /\ t \notin Range(rq)

\* The comment in tk_del_tsk(): the stack and the control block of a task that
\* was terminated remotely stay reserved "until that safe point", the release
\* by the dispatcher of the processor that executed it.  So whatever is marked
\* for reclamation has a dispatcher that is still going to reclaim it.
ReservedIsReclaimed ==
    \A t \in Task : stkfree[t] =>
      \E c \in Core : \/ ctxtsk[c] = t
                      \/ out[c] = t /\ pc[c] \in {"release", "reclaim"}

\* The comment in knl_task_core_mask(): "A processor whose current task
\* disabled dispatch accepts no one else".  No dispatch to another task starts
\* on it, unless its task was terminated.
DisabledIsNotDispatched ==
    [][\A c \in Core : /\ disd[c] = DDS_DISABLE /\ ctxtsk[c] \in Task
                       /\ state[ctxtsk[c]] \in Alive
                       /\ pc[c] = "run" /\ pc'[c] = "save"
                       => schedtsk[c] = ctxtsk[c]]_vars

\* A task published to a processor is executed there, unless it is withdrawn:
\* the request is neither lost between the store into the slot and the
\* interrupt, nor swallowed by a dispatch already under way.
PublishedRuns ==
    \A c \in Core, t \in Task :
      schedtsk[c] = t ~> (ctxtsk[c] = t \/ schedtsk[c] # t)

\* A task another processor terminates gives its processor up, even if it
\* never calls the kernel again (tk_ter_tsk() of a running task).
TerminatedLeaves ==
    \A c \in Core, t \in Task :
      (ctxtsk[c] = t /\ state[t] \notin Alive) ~> (ctxtsk[c] # t \/ state[t] \in Alive)
=============================================================================
