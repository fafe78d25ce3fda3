----------------------------- MODULE KernelLock -----------------------------
(***************************************************************************)
(* The recursive big kernel lock of the SMP profile (smp_lock.c), down to  *)
(* the single accesses of the lock word, the SIO hardware spinlock that    *)
(* covers each transition of that word, and the local interrupt mask.      *)
(*                                                                         *)
(* A context is a thread of control with a stack of its own: a task, or a  *)
(* handler bound to one processor.  A context executes only while some     *)
(* processor runs it; a processor changes contexts only while its          *)
(* interrupts are enabled, because the dispatcher is an exception.         *)
(*                                                                         *)
(* Abstractions: the lock word holds the owning core itself where the code *)
(* stores core + 1; the statistics (acquisitions, contentions, maximum     *)
(* hold and wait times) are left out, except that the two "illegal"        *)
(* counters are merged into the flag illegal.                              *)
(***************************************************************************)
EXTENDS Naturals, FiniteSets

CONSTANTS
    Core,        \* the processors (TK_MAX_CORE of them)
    Task,        \* contexts the dispatcher may move between processors
    Handler,     \* task-independent contexts: interrupt and time-event handlers
    NoCore,      \* lock word / spinlock value "free"
    NoCtx,       \* a processor that runs none of the modelled contexts
    Affinity,    \* the processors each context may run on
    RawCallers,  \* tasks that also enter by DISABLE_INTERRUPT
    MaxNest      \* bound on the nesting of critical sections

Ctx == Task \cup Handler

ASSUME CoreAssumption == NoCore \notin Core /\ NoCtx \notin Ctx
ASSUME CtxAssumption  == /\ Task \cap Handler = {}
                         /\ Affinity \in [Ctx -> SUBSET Core]
                         /\ RawCallers \subseteq Task
ASSUME NestAssumption == MaxNest \in Nat \ {0}

VARIABLES
    word,     \* knl_lock_word
    hw,       \* SIO spinlock SPINLOCK_KERNEL: the core that claimed it
    depth,    \* knl_lock_depth[core]
    keep,     \* knl_lock_primask[core]: interrupts masked before the acquisition?
    primask,  \* PRIMASK of each core: interrupts masked?
    running,  \* the context each core executes
    pc,       \* where each context is
    self,     \* local "self": the core id a context latched in enter()
    saved,    \* local "saved" of enter(): PRIMASK found by its disint()
    nest,     \* how many critical sections a context is in
    frame,    \* those sections, outermost first
    resume,   \* local "resume_depth" while a callback runs detached, else 0
    exit,     \* which of leave(), abandon(), suspend() frees the word
    killed,   \* tasks terminated by another task (TS_DORMANT / TS_NONEXIST)
    illegal   \* knl_lock_illegal_unlocks or knl_lock_illegal_suspends counted

vars == <<word, hw, depth, keep, primask, running, pc, self, saved, nest, frame,
          resume, exit, killed, illegal>>

lock == <<word, hw, depth, keep>>
ctx  == <<self, saved, nest, frame, resume, exit>>

\* The locals of enter() go out of scope when it returns.
NoLocals(x) == /\ self' = [self EXCEPT ![x] = NoCore]
               /\ saved' = [saved EXCEPT ![x] = FALSE]

(***************************************************************************)
(* Control points: "self" .. "alive" are enter(), "give" .. "freed" is the *)
(* tail shared by leave(), abandon() and suspend(), "end" is the rest of   *)
(* END_CRITICAL_SECTION.                                                   *)
(***************************************************************************)
PC == {"idle", "gone", "self", "mask", "test", "spin", "claim", "recheck", "set",
       "free", "unset", "won", "alive", "in", "give", "clear", "freed", "end",
       "detached"}

\* How a section was entered and, for BEGIN_CRITICAL_SECTION, its _primask_.
Frame    == [raw : BOOLEAN, mask : BOOLEAN]
NoFrame  == [raw |-> FALSE, mask |-> FALSE]
NoFrames == [n \in 1 .. MaxNest |-> NoFrame]

TypeOK ==
    /\ word \in Core \cup {NoCore}
    /\ hw \in Core \cup {NoCore}
    /\ depth \in [Core -> Nat]
    /\ keep \in [Core -> BOOLEAN]
    /\ primask \in [Core -> BOOLEAN]
    /\ running \in [Core -> Ctx \cup {NoCtx}]
    /\ pc \in [Ctx -> PC]
    /\ self \in [Ctx -> Core \cup {NoCore}]
    /\ saved \in [Ctx -> BOOLEAN]
    /\ nest \in [Ctx -> 0 .. MaxNest]
    /\ frame \in [Ctx -> [1 .. MaxNest -> Frame]]
    /\ resume \in [Ctx -> Nat]
    /\ exit \in [Ctx -> {"leave", "abandon", "suspend"}]
    /\ killed \in SUBSET Task
    /\ illegal \in BOOLEAN

Init ==
    /\ word = NoCore
    /\ hw = NoCore
    /\ depth = [c \in Core |-> 0]
    /\ keep = [c \in Core |-> FALSE]
    /\ primask = [c \in Core |-> FALSE]
    /\ running = [c \in Core |-> NoCtx]
    /\ pc = [x \in Ctx |-> "idle"]
    /\ self = [x \in Ctx |-> NoCore]
    /\ saved = [x \in Ctx |-> FALSE]
    /\ nest = [x \in Ctx |-> 0]
    /\ frame = [x \in Ctx |-> NoFrames]
    /\ resume = [x \in Ctx |-> 0]
    /\ exit = [x \in Ctx |-> "leave"]
    /\ killed = {}
    /\ illegal = FALSE

At(x, p)      == pc[x] = p
Goto(x, p)    == pc' = [pc EXCEPT ![x] = p]
LockIsMine(c) == word = c /\ depth[c] # 0

\* The dead-task check and tk_ext_tsk apply outside task-independent parts only.
TaskPart(x) == x \in Task /\ resume[x] = 0

-----------------------------------------------------------------------------
(***************************************************************************)
(* Section entry.  BEGIN_CRITICAL_SECTION masks interrupts and then calls  *)
(* enter(); DISABLE_INTERRUPT calls enter() as it is.  Both nest, and the  *)
(* callback of a detached section opens sections of its own.               *)
(***************************************************************************)
Open(x, f) ==
    /\ pc[x] \in {"idle", "in", "detached"}
    /\ nest[x] < MaxNest
    /\ nest' = [nest EXCEPT ![x] = @ + 1]
    /\ frame' = [frame EXCEPT ![x][nest[x] + 1] = f]
    /\ Goto(x, "self")
    /\ UNCHANGED <<lock, running, self, saved, resume, exit, killed, illegal>>

BeginCriticalSection(x, c) ==
    /\ Open(x, [raw |-> FALSE, mask |-> primask[c]])
    /\ primask' = [primask EXCEPT ![c] = TRUE]

DisableInterrupt(x, c) ==
    /\ x \in RawCallers
    /\ Open(x, [raw |-> TRUE, mask |-> FALSE])
    /\ UNCHANGED primask

\* enter(): self = knl_current_core(), read before the interrupts are masked.
ReadSelf(x, c) ==
    /\ At(x, "self")
    /\ self' = [self EXCEPT ![x] = c]
    /\ Goto(x, "mask")
    /\ UNCHANGED <<lock, primask, running, saved, nest, frame, resume, exit, killed, illegal>>

\* enter(): saved = disint().
MaskInterrupts(x, c) ==
    /\ At(x, "mask")
    /\ saved' = [saved EXCEPT ![x] = primask[c]]
    /\ primask' = [primask EXCEPT ![c] = TRUE]
    /\ Goto(x, "test")
    /\ UNCHANGED <<lock, running, self, nest, frame, resume, exit, killed, illegal>>

\* Mutant: the recursive entry enables interrupts instead of restoring them.
ReenterUnmasks(x, c) ==
    /\ At(x, "test")
    /\ word = self[x]
    /\ depth' = [depth EXCEPT ![self[x]] = @ + 1]
    /\ primask' = [primask EXCEPT ![c] = FALSE]
    /\ Goto(x, "in")
    /\ NoLocals(x)
    /\ UNCHANGED <<word, hw, keep, running, nest, frame, resume, exit, killed, illegal>>

\* enter(): "Already ours?" -- one more level of recursion.
Reenter(x, c) ==
    /\ At(x, "test")
    /\ word = self[x]
    /\ depth' = [depth EXCEPT ![self[x]] = @ + 1]
    /\ primask' = [primask EXCEPT ![c] = saved[x]]
    /\ Goto(x, "in")
    /\ NoLocals(x)
    /\ UNCHANGED <<word, hw, keep, running, nest, frame, resume, exit, killed, illegal>>

NotOurs(x, c) ==
    /\ At(x, "test")
    /\ word # self[x]
    /\ Goto(x, "spin")
    /\ UNCHANGED <<lock, primask, running, ctx, killed, illegal>>

\* Mutant: the first version of the loop, which claims on every retry.
SpinHammers(x, c) ==
    /\ At(x, "spin")
    /\ Goto(x, "claim")
    /\ UNCHANGED <<lock, primask, running, ctx, killed, illegal>>

\* The spin loop's unlocked read: the spinlock is tried only when it read 0.
Spin(x, c) ==
    /\ At(x, "spin")
    /\ word = NoCore
    /\ Goto(x, "claim")
    /\ UNCHANGED <<lock, primask, running, ctx, killed, illegal>>

\* knl_arch_hwlock_claim() in enter().
Claim(x, c) ==
    /\ At(x, "claim")
    /\ hw = NoCore
    /\ hw' = c
    /\ Goto(x, "recheck")
    /\ UNCHANGED <<word, depth, keep, primask, running, ctx, killed, illegal>>

\* Mutant: the word is not read again under the spinlock.
RecheckSkipped(x, c) ==
    /\ At(x, "recheck")
    /\ Goto(x, "set")
    /\ UNCHANGED <<lock, primask, running, ctx, killed, illegal>>

\* The second read of the word, with the spinlock held.
Recheck(x, c) ==
    /\ At(x, "recheck")
    /\ Goto(x, IF word = NoCore THEN "set" ELSE "unset")
    /\ UNCHANGED <<lock, primask, running, ctx, killed, illegal>>

SetWord(x, c) ==
    /\ At(x, "set")
    /\ word' = self[x]
    /\ Goto(x, "free")
    /\ UNCHANGED <<hw, depth, keep, primask, running, ctx, killed, illegal>>

\* knl_arch_hwlock_release() in enter().
FreeSpinlock(x, c) ==
    /\ pc[x] \in {"free", "unset"}
    /\ hw' = NoCore
    /\ Goto(x, IF At(x, "free") THEN "won" ELSE "spin")
    /\ UNCHANGED <<word, depth, keep, primask, running, ctx, killed, illegal>>

\* The owner's bookkeeping.
Acquired(x, c) ==
    /\ At(x, "won")
    /\ depth' = [depth EXCEPT ![self[x]] = 1]
    /\ keep' = [keep EXCEPT ![self[x]] = saved[x]]
    /\ Goto(x, "alive")
    /\ UNCHANGED <<word, hw, primask, running, ctx, killed, illegal>>

\* A task terminated while it was spinning leaves the lock again and ends in
\* knl_force_dispatch().
CaughtDead(x, c) ==
    /\ At(x, "alive")
    /\ TaskPart(x)
    /\ running[self[x]] \in killed
    /\ depth' = [depth EXCEPT ![c] = 0]
    /\ exit' = [exit EXCEPT ![x] = "abandon"]
    /\ Goto(x, "give")
    /\ NoLocals(x)
    /\ UNCHANGED <<word, hw, keep, primask, running, nest, frame, resume, killed, illegal>>

\* Mutants: resume() forgets the depth it was given; no check for a dead task.
EnteredFlat(x, c) ==
    LET resuming == resume[x] > 0 /\ nest[x] = resume[x] IN
    /\ At(x, "alive")
    /\ TaskPart(x) => running[self[x]] \notin killed
    /\ resume' = IF resuming THEN [resume EXCEPT ![x] = 0] ELSE resume
    /\ Goto(x, "in")
    /\ NoLocals(x)
    /\ UNCHANGED <<lock, primask, running, nest, frame, exit, killed, illegal>>

EnteredUnchecked(x, c) ==
    LET resuming == resume[x] > 0 /\ nest[x] = resume[x] IN
    /\ At(x, "alive")
    /\ depth' = IF resuming THEN [depth EXCEPT ![self[x]] = resume[x]] ELSE depth
    /\ resume' = IF resuming THEN [resume EXCEPT ![x] = 0] ELSE resume
    /\ Goto(x, "in")
    /\ NoLocals(x)
    /\ UNCHANGED <<word, hw, keep, primask, running, nest, frame, exit, killed, illegal>>

\* Anyone else is inside now; resume() puts the detached nesting depth back.
Entered(x, c) ==
    LET resuming == resume[x] > 0 /\ nest[x] = resume[x] IN
    /\ At(x, "alive")
    /\ TaskPart(x) => running[self[x]] \notin killed
    /\ depth' = IF resuming THEN [depth EXCEPT ![self[x]] = resume[x]] ELSE depth
    /\ resume' = IF resuming THEN [resume EXCEPT ![x] = 0] ELSE resume
    /\ Goto(x, "in")
    /\ NoLocals(x)
    /\ UNCHANGED <<word, hw, keep, primask, running, nest, frame, exit, killed, illegal>>

-----------------------------------------------------------------------------
(***************************************************************************)
(* Section exit.  leave() drops one level, or the word when it is the last *)
(* one; abandon() (from knl_force_dispatch) and suspend() drop them all.   *)
(***************************************************************************)
\* Mutant: the last leave() is not told from an inner one.
LeaveNotRecursive(x, c) ==
    /\ At(x, "in")
    /\ illegal' = (illegal \/ ~LockIsMine(c))
    /\ depth' = [depth EXCEPT ![c] = IF LockIsMine(c) THEN @ - 1 ELSE @]
    /\ exit' = [exit EXCEPT ![x] = "leave"]
    /\ Goto(x, IF LockIsMine(c) THEN "give" ELSE "end")
    /\ UNCHANGED <<word, hw, keep, primask, running, self, saved, nest, frame,
                   resume, killed>>

Leave(x, c) ==
    /\ At(x, "in")
    /\ illegal' = (illegal \/ ~LockIsMine(c))
    /\ depth' = [depth EXCEPT ![c] = IF LockIsMine(c) THEN @ - 1 ELSE @]
    /\ exit' = [exit EXCEPT ![x] = "leave"]
    /\ Goto(x, IF LockIsMine(c) /\ depth[c] = 1 THEN "give" ELSE "end")
    /\ UNCHANGED <<word, hw, keep, primask, running, self, saved, nest, frame,
                   resume, killed>>

\* knl_force_dispatch() by tk_ext_tsk and tk_exd_tsk: whatever the depth.
Abandon(x, c) ==
    /\ At(x, "in")
    /\ TaskPart(x)
    /\ word = c
    /\ depth' = [depth EXCEPT ![c] = 0]
    /\ exit' = [exit EXCEPT ![x] = "abandon"]
    /\ Goto(x, "give")
    /\ UNCHANGED <<word, hw, keep, primask, running, self, saved, nest, frame,
                   resume, killed, illegal>>

\* A cyclic or alarm callback runs detached from the lock.  Its call sites are
\* inside BEGIN_CRITICAL_SECTION only; callbacks do not detach again.
Suspend(x, c) ==
    /\ At(x, "in")
    /\ resume[x] = 0
    /\ ~frame[x][1].raw
    /\ illegal' = (illegal \/ ~LockIsMine(c))
    /\ resume' = [resume EXCEPT ![x] = IF LockIsMine(c) THEN depth[c] ELSE 0]
    /\ depth' = [depth EXCEPT ![c] = IF LockIsMine(c) THEN 0 ELSE @]
    /\ exit' = [exit EXCEPT ![x] = "suspend"]
    /\ Goto(x, IF LockIsMine(c) THEN "give" ELSE "in")
    /\ UNCHANGED <<word, hw, keep, primask, running, self, saved, nest, frame, killed>>

\* knl_arch_hwlock_claim() on the way out.
Give(x, c) ==
    /\ At(x, "give")
    /\ hw = NoCore
    /\ hw' = c
    /\ Goto(x, "clear")
    /\ UNCHANGED <<word, depth, keep, primask, running, ctx, killed, illegal>>

ClearWord(x, c) ==
    /\ At(x, "clear")
    /\ word' = NoCore
    /\ Goto(x, "freed")
    /\ UNCHANGED <<hw, depth, keep, primask, running, ctx, killed, illegal>>

\* Mutant: leave() relies on its caller to restore the interrupt mask.
FinishLeaveMasked(x, c) ==
    /\ At(x, "freed")
    /\ exit[x] = "leave"
    /\ hw' = NoCore
    /\ Goto(x, "end")
    /\ UNCHANGED <<word, depth, keep, primask, running, ctx, killed, illegal>>

\* The tail of leave(): give the spinlock back and restore the interrupt mask.
FinishLeave(x, c) ==
    /\ At(x, "freed")
    /\ exit[x] = "leave"
    /\ hw' = NoCore
    /\ primask' = [primask EXCEPT ![c] = keep[c]]
    /\ Goto(x, "end")
    /\ UNCHANGED <<word, depth, keep, running, ctx, killed, illegal>>

\* knl_force_dispatch(): interrupts on, PendSV pended, the context discarded.
FinishAbandon(x, c) ==
    /\ At(x, "freed")
    /\ exit[x] = "abandon"
    /\ hw' = NoCore
    /\ primask' = [primask EXCEPT ![c] = FALSE]
    /\ nest' = [nest EXCEPT ![x] = 0]
    /\ frame' = [frame EXCEPT ![x] = NoFrames]
    /\ Goto(x, "gone")
    /\ UNCHANGED <<word, depth, keep, running, self, saved, resume, exit, killed, illegal>>

\* suspend() leaves the interrupts masked.
FinishSuspend(x, c) ==
    /\ At(x, "freed")
    /\ exit[x] = "suspend"
    /\ hw' = NoCore
    /\ Goto(x, "detached")
    /\ UNCHANGED <<word, depth, keep, primask, running, ctx, killed, illegal>>

\* resume(): enter the lock again, or refuse when this core already holds it.
Resume(x, c) ==
    /\ At(x, "detached")
    /\ illegal' = (illegal \/ word = c)
    /\ resume' = [resume EXCEPT ![x] = IF word = c THEN 0 ELSE @]
    /\ Goto(x, IF word = c THEN "in" ELSE "self")
    /\ UNCHANGED <<lock, primask, running, self, saved, nest, frame, exit, killed>>

\* END_CRITICAL_SECTION's set_primask(_primask_); ENABLE_INTERRUPT adds nothing.
EndSection(x, c) ==
    LET f == frame[x][nest[x]] IN
    /\ At(x, "end")
    /\ nest' = [nest EXCEPT ![x] = @ - 1]
    /\ frame' = [frame EXCEPT ![x][nest[x]] = NoFrame]
    /\ primask' = IF f.raw THEN primask ELSE [primask EXCEPT ![c] = f.mask]
    /\ Goto(x, IF nest[x] = 1 THEN "idle"
               ELSE IF nest[x] - 1 = resume[x] THEN "detached" ELSE "in")
    /\ UNCHANGED <<lock, running, self, saved, resume, exit, killed, illegal>>

-----------------------------------------------------------------------------
(***************************************************************************)
(* The surroundings: termination by the holder of the lock, the restart of *)
(* an ended task, and the dispatcher.                                      *)
(***************************************************************************)
\* tk_ter_tsk by x on y, which may be executing on another processor.
Kill(x, y) ==
    /\ At(x, "in")
    /\ y # x /\ y \notin killed /\ pc[y] # "gone"
    /\ killed' = killed \cup {y}
    /\ UNCHANGED <<lock, primask, running, pc, ctx, illegal>>

\* tk_sta_tsk: allowed once no processor still runs the old incarnation.
Restart(x) ==
    /\ x \in killed \/ At(x, "gone")
    /\ \A c \in Core : running[c] # x
    /\ killed' = killed \ {x}
    /\ Goto(x, "idle")
    /\ nest' = [nest EXCEPT ![x] = 0]
    /\ frame' = [frame EXCEPT ![x] = NoFrames]
    /\ NoLocals(x)
    /\ UNCHANGED <<lock, primask, running, resume, exit, illegal>>

\* An exception on core c: whatever was running is preempted (a handler only
\* once it has returned), and a live context that no core runs and whose
\* affinity allows c is taken up where it left off.
Dispatch(c, y) ==
    /\ ~primask[c]
    /\ running[c] # y
    /\ running[c] \in Handler => At(running[c], "idle")
    /\ \/ y = NoCtx
       \/ /\ y \in Ctx \ killed /\ pc[y] # "gone"
          /\ c \in Affinity[y]
          /\ \A d \in Core : running[d] # y
    /\ running' = [running EXCEPT ![c] = y]
    /\ UNCHANGED <<lock, primask, pc, ctx, killed, illegal>>

\* One step of the context x on the core c that runs it.
Step(x, c) ==
    /\ running[c] = x
    /\ \/ BeginCriticalSection(x, c)
       \/ DisableInterrupt(x, c)
       \/ ReadSelf(x, c)
       \/ MaskInterrupts(x, c)
       \/ Reenter(x, c)
       \/ NotOurs(x, c)
       \/ Spin(x, c)
       \/ Claim(x, c)
       \/ Recheck(x, c)
       \/ SetWord(x, c)
       \/ FreeSpinlock(x, c)
       \/ Acquired(x, c)
       \/ CaughtDead(x, c)
       \/ Entered(x, c)
       \/ Leave(x, c)
       \/ Abandon(x, c)
       \/ Suspend(x, c)
       \/ Give(x, c)
       \/ ClearWord(x, c)
       \/ FinishLeave(x, c)
       \/ FinishAbandon(x, c)
       \/ FinishSuspend(x, c)
       \/ Resume(x, c)
       \/ EndSection(x, c)

Next ==
    \/ \E x \in Ctx, c \in Core : Step(x, c)
    \/ \E x \in Ctx, y \in Task : Kill(x, y)
    \/ \E x \in Task : Restart(x)
    \/ \E c \in Core, y \in Ctx \cup {NoCtx} : Dispatch(c, y)

Spec == Init /\ [][Next]_vars

\* A processor executes the instructions of the context it runs; nothing else
\* is assumed about speed, nor that a context is ever dispatched.
Fairness == \A c \in Core : WF_vars(\E x \in Ctx : Step(x, c))
FairSpec == Spec /\ Fairness

-----------------------------------------------------------------------------
(***************************************************************************)
(* Properties.                                                             *)
(***************************************************************************)
\* "The whole kernel becomes one critical region" (cpu_status.h): whichever way
\* two contexts entered, they are never both inside a critical section.
MutualExclusion ==
    \A x, y \in Ctx : At(x, "in") /\ At(y, "in") => x = y

\* Whoever is inside owns the word through the core that runs it, and the
\* core's recursion depth is exactly the number of sections still to be left
\* since the last detachment: one leave() too many or too few, an abandon() or
\* a resume() that mislaid a level would break it.
DepthMatchesNesting ==
    \A x \in Ctx, c \in Core :
        running[c] = x /\ At(x, "in") => word = c /\ depth[c] = nest[x] - resume[x]

\* "Local interrupts are masked from acquisition to final release", and the
\* spinlock claim is covered too: otherwise a handler on the owning core would
\* take the "already ours" path, or spin for ever on its own core's claim.
MaskedWhileHeld ==
    \A c \in Core : word = c \/ hw = c => primask[c]

\* However sections nested, were detached or were abandoned, a processor that
\* is back outside the kernel has its interrupts enabled again.
MaskRestored ==
    \A c \in Core :
        (running[c] \in Ctx => pc[running[c]] \in {"idle", "gone"}) => ~primask[c]

\* A callback of a cyclic or alarm handler never runs with its own processor
\* holding the kernel lock.
DetachedHoldsNothing ==
    \A x \in Ctx, c \in Core : running[c] = x /\ At(x, "detached") => word # c

\* No leave(), suspend() or resume() is ever counted as illegal.
NoIllegalUse == ~illegal

\* A task terminated from the other processor while it waits for the lock "must
\* dispatch instead of entering a syscall as dead state": it never gets into an
\* outermost section.  (A section it had opened before and detached for an
\* immediate callback goes on: there taskindp > 0.)
DeadNeverEnters ==
    [][\A x \in killed :
         (nest[x] = 1 /\ resume[x] = 0 /\ pc[x] # "in" => pc'[x] # "in")]_vars

\* A processor that is freeing the word always gets the hardware spinlock, no
\* matter how the waiters spin: the reason for "test, then test-and-set".
Frees(c) == running[c] \in Ctx /\ At(running[c], "give")
ReleaseCompletes == \A c \in Core : []<>~Frees(c)

=============================================================================
