-------------------------- MODULE KernelLockProofs --------------------------
(***************************************************************************)
(* Mutual exclusion of the big kernel lock, the absence of illegal uses,   *)
(* and that interrupts are given back and the dead kept out, for any       *)
(* number of processors, tasks and handlers and any nesting.               *)
(***************************************************************************)
EXTENDS KernelLock, TLAPS

(***************************************************************************)
(* The condition under which the core id latched by enter() cannot be      *)
(* stale: a task that enters with its interrupts enabled has one processor *)
(* to run on.  The violation run shows that it is needed.                  *)
(***************************************************************************)
SafeEntry == \A x \in RawCallers : \A c, d \in Affinity[x] : c = d

\* Sections opened since the last detachment.
Level(x) == nest[x] - resume[x]

\* The section being entered or left is covered by an interrupt mask of its own
\* or of an outer section.
Covered(x) == nest[x] > 1 \/ ~frame[x][1].raw

\* Contexts that the dispatcher cannot take off their processor.
Pinned(x) ==
    \/ pc[x] \in {"test", "spin", "claim", "recheck", "set", "free", "unset", "won",
                  "alive", "in", "give", "clear", "freed", "detached"}
    \/ pc[x] \in {"self", "mask", "end"} /\ Covered(x)

\* Contexts that hold the kernel lock.
Holds(x) ==
    \/ pc[x] \in {"free", "won", "alive", "in", "give", "clear"}
    \/ pc[x] \in {"self", "mask", "test", "end"} /\ Level(x) > 1

\* Contexts whose core keeps their saved interrupt mask in knl_lock_primask.
Owns(x) ==
    \/ pc[x] \in {"alive", "in", "give", "clear", "freed"}
    \/ pc[x] \in {"self", "mask", "test", "end"} /\ Level(x) > 1

\* Contexts between the claim and the release of the hardware spinlock.
Claims(x) == pc[x] \in {"recheck", "set", "free", "unset", "clear", "freed"}

\* Contexts with a latched core id.
Latched(x) == pc[x] \in {"mask", "test", "spin", "claim", "recheck", "set", "free",
                         "unset", "won", "alive"}

\* A context runs on one processor at most, and one it may run on.
Placement ==
    /\ \A c, d \in Core : running[c] = running[d] /\ running[c] # NoCtx => c = d
    /\ \A c \in Core : running[c] # NoCtx => c \in Affinity[running[c]]

Masking ==
    \A x \in Ctx : Pinned(x) => \E c \in Core : running[c] = x /\ primask[c]

Latching ==
    \A x \in Ctx : Latched(x) =>
        /\ self[x] \in Affinity[x]
        /\ Pinned(x) => running[self[x]] = x

SpinlockHeld ==
    \A c \in Core : hw = c <=> running[c] # NoCtx /\ Claims(running[c])

WordHeld ==
    \A c \in Core : word = c <=> running[c] # NoCtx /\ Holds(running[c])

\* Between the second read of the word and the store nobody else writes it.
WordFree == \A x \in Ctx : At(x, "set") => word = NoCore

\* How deep each context is nested where it stands.
Nesting ==
    \A x \in Ctx :
        /\ pc[x] \in {"idle", "gone"} => nest[x] = 0 /\ resume[x] = 0
        /\ pc[x] \notin {"idle", "gone"} => nest[x] >= 1
        /\ resume[x] <= nest[x]
        /\ pc[x] = "detached" => Level(x) = 0 /\ resume[x] > 0
        /\ pc[x] \in {"in", "end"} => Level(x) >= 1
        /\ pc[x] \in {"give", "clear", "freed"} =>
               /\ exit[x] = "leave"   => Level(x) = 1
               /\ exit[x] = "suspend" => Level(x) = 0 /\ resume[x] > 0
               /\ exit[x] = "abandon" => resume[x] = 0
        /\ pc[x] \in {"spin", "claim", "recheck", "set", "free", "unset", "won", "alive"} =>
               Level(x) <= 1
        /\ resume[x] > 0 => ~frame[x][1].raw
        /\ frame[x][1].raw => x \in RawCallers

\* The recorded depth of the holder.
Depth ==
    \A x \in Ctx, c \in Core : running[c] = x =>
        /\ At(x, "alive") => depth[c] = 1
        /\ At(x, "in") => depth[c] = Level(x)
        /\ pc[x] \in {"self", "mask", "test", "end"} /\ Level(x) > 1 => depth[c] = Level(x)
           - 1

\* The interrupt masks that will be restored on the way out.
Restoring ==
    \A x \in Ctx :
        /\ \A n \in 2 .. nest[x] : frame[x][n].raw \/ frame[x][n].mask
        /\ pc[x] \in {"test", "spin", "claim", "recheck", "set", "free", "unset", "won"}
             /\ Covered(x) => saved[x]
        /\ \A c \in Core : running[c] = x /\ Owns(x)
             /\ (resume[x] > 0 \/ ~frame[x][1].raw) => keep[c]

IInv ==
    /\ TypeOK
    /\ Placement
    /\ Masking
    /\ Latching
    /\ SpinlockHeld
    /\ WordHeld
    /\ WordFree
    /\ Nesting
    /\ Depth
    /\ Restoring
    /\ NoIllegalUse

\* A context that is not outside has at least one section open.
Opened == \A x \in Ctx : pc[x] \notin {"idle", "gone"} => nest[x] >= 1

-----------------------------------------------------------------------------
\* The initial state is well typed.
LEMMA TypeInit == Init => TypeOK /\ Opened
  <1> SUFFICES ASSUME Init PROVE TypeOK /\ Opened
    OBVIOUS
  <1>1. NoFrames \in [1 .. MaxNest -> Frame]
    BY NestAssumption DEF Frame, NoFrame, NoFrames
  <1>2. 0 \in 0 .. MaxNest
    BY NestAssumption
  <1>3. TypeOK
    BY <1>1, <1>2 DEF Init, TypeOK, PC
  <1>4. Opened
    BY DEF Init, Opened
  <1> QED
    BY <1>3, <1>4

\* Every step keeps the types: the only subtractions are guarded by the holder's
\* depth and by Opened.
LEMMA TypeNext ==
  ASSUME TypeOK, Opened, [Next]_vars
  PROVE  TypeOK' /\ Opened'
  <1> USE NestAssumption, CoreAssumption, CtxAssumption
      DEF TypeOK, Opened, PC, Frame, At, Goto, lock, ctx
  <1>1. ASSUME NEW x \in Ctx, NEW c \in Core, running[c] = x, Step(x, c)
        PROVE  TypeOK' /\ Opened'
    <2>1. CASE BeginCriticalSection(x, c)
      BY <2>1 DEF BeginCriticalSection, Open
    <2>2. CASE DisableInterrupt(x, c)
      BY <2>2 DEF DisableInterrupt, Open
    <2>3. CASE ReadSelf(x, c)
      BY <2>3 DEF ReadSelf
    <2>4. CASE MaskInterrupts(x, c)
      BY <2>4 DEF MaskInterrupts
    <2>5. CASE Reenter(x, c)
      <3>1. depth' \in [Core -> Nat]
        <4>1. CASE self[x] \in Core
          BY <2>5, <4>1 DEF Reenter
        <4>2. CASE self[x] \notin Core
          BY <2>5, <4>2 DEF Reenter
        <4> QED
          BY <4>1, <4>2
      <3>2. primask' \in [Core -> BOOLEAN]
        BY <2>5 DEF Reenter
      <3> QED
        BY <2>5, <3>1, <3>2 DEF Reenter, NoLocals
    <2>6. CASE NotOurs(x, c)
      BY <2>6 DEF NotOurs
    <2>7. CASE Spin(x, c)
      BY <2>7 DEF Spin
    <2>8. CASE Claim(x, c)
      BY <2>8 DEF Claim
    <2>9. CASE Recheck(x, c)
      BY <2>9 DEF Recheck
    <2>10. CASE SetWord(x, c)
      BY <2>10 DEF SetWord
    <2>11. CASE FreeSpinlock(x, c)
      BY <2>11 DEF FreeSpinlock
    <2>12. CASE Acquired(x, c)
      BY <2>12 DEF Acquired
    <2>13. CASE CaughtDead(x, c)
      BY <2>13 DEF CaughtDead, NoLocals, TaskPart
    <2>14. CASE Entered(x, c)
      BY <2>14 DEF Entered, NoLocals, TaskPart
    <2>15. CASE Leave(x, c)
      BY <2>15 DEF Leave, LockIsMine
    <2>16. CASE Abandon(x, c)
      BY <2>16 DEF Abandon
    <2>17. CASE Suspend(x, c)
      BY <2>17 DEF Suspend, LockIsMine
    <2>18. CASE Give(x, c)
      BY <2>18 DEF Give
    <2>19. CASE ClearWord(x, c)
      BY <2>19 DEF ClearWord
    <2>20. CASE FinishLeave(x, c)
      BY <2>20 DEF FinishLeave
    <2>21. CASE FinishAbandon(x, c)
      BY <2>21 DEF FinishAbandon, NoFrame, NoFrames
    <2>22. CASE FinishSuspend(x, c)
      BY <2>22 DEF FinishSuspend
    <2>23. CASE Resume(x, c)
      BY <2>23 DEF Resume
    <2>24. CASE EndSection(x, c)
      <3>a. nest[x] \in 0 .. MaxNest /\ nest[x] >= 1
        BY <2>24 DEF EndSection
      <3>1. nest[x] - 1 \in 0 .. MaxNest /\ nest[x] \in 1 .. MaxNest
        BY <3>a
      <3>2. nest' \in [Ctx -> 0 .. MaxNest]
        BY <2>24, <3>1 DEF EndSection
      <3>3. frame' \in [Ctx -> [1 .. MaxNest -> Frame]]
        BY <2>24, <3>1 DEF EndSection, NoFrame
      <3>4. primask' \in [Core -> BOOLEAN]
        BY <2>24, <3>1 DEF EndSection
      <3>5. Opened'
        BY <2>24, <3>1 DEF EndSection
      <3> QED
        BY <2>24, <3>2, <3>3, <3>4, <3>5 DEF EndSection
    <2> QED
      BY <1>1, <2>1, <2>2, <2>3, <2>4, <2>5, <2>6, <2>7, <2>8, <2>9, <2>10, <2>11, <2>12,
         <2>13, <2>14, <2>15, <2>16, <2>17, <2>18, <2>19, <2>20, <2>21, <2>22, <2>23, <2>24
         DEF Step
  <1>2. ASSUME NEW x \in Ctx, NEW y \in Task, Kill(x, y)
        PROVE  TypeOK' /\ Opened'
    BY <1>2 DEF Kill
  <1>3. ASSUME NEW x \in Task, Restart(x)
        PROVE  TypeOK' /\ Opened'
    BY <1>3 DEF Restart, NoLocals, NoFrame, NoFrames, Ctx
  <1>4. ASSUME NEW c \in Core, NEW y \in Ctx \cup {NoCtx}, Dispatch(c, y)
        PROVE  TypeOK' /\ Opened'
    BY <1>4 DEF Dispatch
  <1>5. CASE UNCHANGED vars
    BY <1>5 DEF vars
  <1> QED
    BY <1>1, <1>2, <1>3, <1>4, <1>5 DEF Next, Step

\* A step of the context x on the core c that runs it preserves the invariant.
\* Facts <1>b .. <1>i say what the invariant gives about x and c themselves.
LEMMA InductiveStep ==
  ASSUME SafeEntry, IInv, TypeOK', NEW x \in Ctx, NEW c \in Core, running[c] = x, Step(x, c)
  PROVE  IInv'
  <1> USE CoreAssumption, CtxAssumption, NestAssumption
  <1> USE DEF At, Goto, lock, ctx, Level, Covered, Pinned, Holds, Owns, Claims, Latched
  <1>b. Pinned(x) => primask[c]
    BY DEF IInv, Masking, Placement
  <1>c. Pinned(x) /\ Latched(x) => self[x] = c
    BY CoreAssumption, CtxAssumption DEF IInv, Latching, Placement, TypeOK
  <1>d. x # NoCtx /\ c # NoCore
    BY CoreAssumption
  <1>e. word = c <=> Holds(x)
    BY <1>d DEF IInv, WordHeld
  <1>f. hw = c <=> Claims(x)
    BY <1>d DEF IInv, SpinlockHeld
  <1>g. ASSUME Claims(x), NEW y \in Ctx, Claims(y) PROVE y = x
    <2>1. PICK d \in Core : running[d] = y
      BY <1>g DEF IInv, Masking
    <2>2. hw = d
      BY <1>g, <2>1, CoreAssumption DEF IInv, SpinlockHeld
    <2> QED
      BY <1>g, <1>f, <2>1, <2>2
  <1>h. ASSUME Holds(x), NEW d \in Core, running[d] # NoCtx, Holds(running[d]) PROVE d = c
    BY <1>e, <1>h DEF IInv, WordHeld
  <1>i. ASSUME Claims(x), NEW d \in Core, running[d] # NoCtx, Claims(running[d]) PROVE d = c
    BY <1>f, <1>i DEF IInv, SpinlockHeld
  <1>1. CASE BeginCriticalSection(x, c)
    <2>1. (Placement /\ Masking /\ Latching)'
      BY <1>1 DEF BeginCriticalSection, Open, IInv, TypeOK, Placement, Masking, Latching
    <2>2. (SpinlockHeld /\ WordFree)'
      BY <1>1 DEF BeginCriticalSection, Open, IInv, TypeOK, SpinlockHeld, WordFree
    <2>3. Nesting'
      BY <1>1 DEF BeginCriticalSection, Open, IInv, TypeOK, Nesting
    <2>4. (NoIllegalUse)'
      BY <1>1 DEF BeginCriticalSection, Open, IInv, TypeOK, NoIllegalUse
    <2>5. WordHeld'
      BY <1>1, <1>b, <1>c DEF BeginCriticalSection, Open, IInv, TypeOK, Nesting, WordHeld
    <2>6. Depth'
      BY <1>1, <1>b, <1>c DEF BeginCriticalSection, Open, IInv, TypeOK, Nesting, Depth
    <2>7. Restoring'
      BY <1>1, <1>b, <1>c DEF BeginCriticalSection, Open, IInv, TypeOK, Nesting, Restoring
    <2> QED
      BY <2>1, <2>2, <2>3, <2>4, <2>5, <2>6, <2>7 DEF IInv
  <1>2. CASE DisableInterrupt(x, c)
    <2>1. (Placement /\ Latching /\ SpinlockHeld)'
      BY <1>2 DEF DisableInterrupt, Open, IInv, TypeOK, Placement, Latching, SpinlockHeld
    <2>2. (WordFree /\ Nesting /\ NoIllegalUse)'
      BY <1>2 DEF DisableInterrupt, Open, IInv, TypeOK, WordFree, Nesting, NoIllegalUse
    <2>3. Masking'
      BY <1>2, <1>b, <1>c DEF DisableInterrupt, Open, IInv, TypeOK, Nesting, Masking
    <2>4. WordHeld'
      BY <1>2, <1>b, <1>c DEF DisableInterrupt, Open, IInv, TypeOK, Nesting, WordHeld
    <2>5. Depth'
      BY <1>2, <1>b, <1>c DEF DisableInterrupt, Open, IInv, TypeOK, Nesting, Depth
    <2>6. Restoring'
      BY <1>2, <1>b, <1>c DEF DisableInterrupt, Open, IInv, TypeOK, Nesting, Restoring
    <2> QED
      BY <2>1, <2>2, <2>3, <2>4, <2>5, <2>6 DEF IInv
  <1>3. CASE ReadSelf(x, c)
    <2>1. (Placement /\ Masking /\ SpinlockHeld)'
      BY <1>3 DEF ReadSelf, IInv, TypeOK, Placement, Masking, SpinlockHeld
    <2>2. (WordHeld /\ WordFree /\ Nesting)'
      BY <1>3 DEF ReadSelf, IInv, TypeOK, WordHeld, WordFree, Nesting
    <2>3. (Depth /\ Restoring /\ NoIllegalUse)'
      BY <1>3 DEF ReadSelf, IInv, TypeOK, Depth, Restoring, NoIllegalUse
    <2>4. Latching'
      BY <1>3, <1>b, <1>c, <1>d, <1>e, <1>f DEF ReadSelf, IInv, TypeOK, PC, Frame, Latching,
         Nesting, Placement
    <2> QED
      BY <2>1, <2>2, <2>3, <2>4 DEF IInv
  <1>4. CASE MaskInterrupts(x, c)
    <2>1. (Placement /\ Masking /\ SpinlockHeld)'
      BY <1>4 DEF MaskInterrupts, IInv, TypeOK, Placement, Masking, SpinlockHeld
    <2>2. (WordHeld /\ WordFree /\ Nesting)'
      BY <1>4 DEF MaskInterrupts, IInv, TypeOK, WordHeld, WordFree, Nesting
    <2>3. (Depth /\ NoIllegalUse)'
      BY <1>4 DEF MaskInterrupts, IInv, TypeOK, Depth, NoIllegalUse
    <2>4. Latching'
      <3>1. Latched(x) /\ self[x] \in Affinity[x] /\ c \in Affinity[x]
        BY <1>4, <1>d DEF MaskInterrupts, IInv, Latching, Placement
      <3>2. self[x] = c
        <4>1. CASE Covered(x)
          BY <1>4, <1>c, <4>1, <3>1 DEF MaskInterrupts
        <4>2. CASE ~Covered(x)
          <5>1. x \in RawCallers
            BY <4>2 DEF IInv, TypeOK, Frame, Nesting
          <5> QED
            BY <3>1, <5>1 DEF SafeEntry
        <4> QED
          BY <4>1, <4>2
      <3> QED
        BY <1>4, <3>1, <3>2 DEF MaskInterrupts, IInv, TypeOK, Latching
    <2>5. Restoring'
      BY <1>4, <1>b, <1>c DEF MaskInterrupts, IInv, TypeOK, Nesting, Restoring
    <2> QED
      BY <2>1, <2>2, <2>3, <2>4, <2>5 DEF IInv
  <1>5. CASE Reenter(x, c)
    <2>1. (Placement /\ Latching /\ SpinlockHeld)'
      BY <1>5 DEF Reenter, NoLocals, IInv, TypeOK, Placement, Latching, SpinlockHeld
    <2>2. (WordFree /\ NoIllegalUse)'
      BY <1>5 DEF Reenter, NoLocals, IInv, TypeOK, WordFree, NoIllegalUse
    <2>3. Masking'
      BY <1>5, <1>b, <1>c DEF Reenter, NoLocals, IInv, TypeOK, PC, Frame, Placement,
         Masking, Latching, SpinlockHeld, WordHeld, WordFree, Nesting, Depth, Restoring,
         NoIllegalUse
    <2>4. WordHeld'
      BY <1>5, <1>b, <1>c DEF Reenter, NoLocals, IInv, TypeOK, Nesting, WordHeld
    <2>5. Nesting'
      BY <1>5, <1>b, <1>c, <1>d, <1>e, <1>f DEF Reenter, NoLocals, IInv, TypeOK, PC, Frame,
         Nesting, Placement
    <2>6. Depth'
      BY <1>5, <1>c, <1>e DEF Reenter, NoLocals, IInv, TypeOK, Depth, Placement
    <2>7. Restoring'
      BY <1>5, <1>c, <1>e DEF Reenter, NoLocals, IInv, TypeOK, Restoring
    <2> QED
      BY <2>1, <2>2, <2>3, <2>4, <2>5, <2>6, <2>7 DEF IInv
  <1>6. CASE NotOurs(x, c)
    <2>1. (Placement /\ Masking /\ Latching)'
      BY <1>6 DEF NotOurs, IInv, TypeOK, Placement, Masking, Latching
    <2>2. (SpinlockHeld /\ WordFree /\ Depth)'
      BY <1>6 DEF NotOurs, IInv, TypeOK, SpinlockHeld, WordFree, Depth
    <2>3. (Restoring /\ NoIllegalUse)'
      BY <1>6 DEF NotOurs, IInv, TypeOK, Restoring, NoIllegalUse
    <2>4. WordHeld'
      BY <1>6, <1>b, <1>c DEF NotOurs, IInv, TypeOK, Nesting, WordHeld
    <2>5. Nesting'
      BY <1>6, <1>b, <1>c, <1>e DEF NotOurs, IInv, TypeOK, Nesting
    <2> QED
      BY <2>1, <2>2, <2>3, <2>4, <2>5 DEF IInv
  <1>7. CASE Spin(x, c)
    <2>1. (Placement /\ Masking /\ Latching)'
      BY <1>7 DEF Spin, IInv, TypeOK, Placement, Masking, Latching
    <2>2. (SpinlockHeld /\ WordHeld /\ WordFree)'
      BY <1>7 DEF Spin, IInv, TypeOK, SpinlockHeld, WordHeld, WordFree
    <2>3. (Nesting /\ Depth /\ Restoring)'
      BY <1>7 DEF Spin, IInv, TypeOK, Nesting, Depth, Restoring
    <2>4. (NoIllegalUse)'
      BY <1>7 DEF Spin, IInv, TypeOK, NoIllegalUse
    <2> QED
      BY <2>1, <2>2, <2>3, <2>4 DEF IInv
  <1>8. CASE Claim(x, c)
    <2>1. (Placement /\ Masking /\ Latching)'
      BY <1>8 DEF Claim, IInv, TypeOK, Placement, Masking, Latching
    <2>2. (WordHeld /\ WordFree /\ Nesting)'
      BY <1>8 DEF Claim, IInv, TypeOK, WordHeld, WordFree, Nesting
    <2>3. (Depth /\ Restoring /\ NoIllegalUse)'
      BY <1>8 DEF Claim, IInv, TypeOK, Depth, Restoring, NoIllegalUse
    <2>4. SpinlockHeld'
      BY <1>8, <1>b, <1>c, <1>d, <1>e, <1>f DEF Claim, IInv, TypeOK, PC, Frame,
         SpinlockHeld, Nesting, Placement
    <2> QED
      BY <2>1, <2>2, <2>3, <2>4 DEF IInv
  <1>9. CASE Recheck(x, c)
    <2>1. (Placement /\ Masking /\ Latching)'
      BY <1>9 DEF Recheck, IInv, TypeOK, Placement, Masking, Latching
    <2>2. (SpinlockHeld /\ WordHeld /\ WordFree)'
      BY ZenonT(30), <1>9 DEF Recheck, IInv, TypeOK, SpinlockHeld, WordHeld, WordFree
    <2>3. (Nesting /\ Depth /\ Restoring)'
      BY <1>9 DEF Recheck, IInv, TypeOK, Nesting, Depth, Restoring
    <2>4. (NoIllegalUse)'
      BY <1>9 DEF Recheck, IInv, TypeOK, NoIllegalUse
    <2> QED
      BY <2>1, <2>2, <2>3, <2>4 DEF IInv
  <1>10. CASE SetWord(x, c)
    <2>1. (Placement /\ Masking /\ Latching)'
      BY <1>10 DEF SetWord, IInv, TypeOK, Placement, Masking, Latching
    <2>2. (SpinlockHeld /\ Nesting /\ Depth)'
      BY <1>10 DEF SetWord, IInv, TypeOK, SpinlockHeld, Nesting, Depth
    <2>3. (Restoring /\ NoIllegalUse)'
      BY <1>10 DEF SetWord, IInv, TypeOK, Restoring, NoIllegalUse
    <2>4. WordHeld'
      BY <1>10, <1>b, <1>c DEF SetWord, IInv, TypeOK, PC, Frame, Placement, Masking,
         Latching, SpinlockHeld, WordHeld, WordFree, Nesting, Depth, Restoring, NoIllegalUse
    <2>5. WordFree'
      BY <1>10, <1>g DEF SetWord, IInv, TypeOK, WordFree
    <2> QED
      BY <2>1, <2>2, <2>3, <2>4, <2>5 DEF IInv
  <1>11. CASE FreeSpinlock(x, c)
    <2>1. (Placement /\ Masking /\ Latching)'
      BY <1>11 DEF FreeSpinlock, IInv, TypeOK, Placement, Masking, Latching
    <2>2. (SpinlockHeld)'
      BY <1>11 DEF FreeSpinlock, IInv, TypeOK, SpinlockHeld
    <2>3. (WordHeld /\ WordFree /\ Nesting)'
      BY <1>11 DEF FreeSpinlock, IInv, TypeOK, WordHeld, WordFree, Nesting
    <2>4. (Depth /\ Restoring /\ NoIllegalUse)'
      BY <1>11 DEF FreeSpinlock, IInv, TypeOK, Depth, Restoring, NoIllegalUse
    <2> QED
      BY <2>1, <2>2, <2>3, <2>4 DEF IInv
  <1>12. CASE Acquired(x, c)
    <2>1. (Placement /\ Masking /\ Latching)'
      BY <1>12 DEF Acquired, IInv, TypeOK, Placement, Masking, Latching
    <2>2. (SpinlockHeld /\ WordHeld /\ WordFree)'
      BY <1>12 DEF Acquired, IInv, TypeOK, SpinlockHeld, WordHeld, WordFree
    <2>3. (Nesting /\ NoIllegalUse)'
      BY <1>12 DEF Acquired, IInv, TypeOK, Nesting, NoIllegalUse
    <2>4. Depth'
      BY <1>12, <1>b, <1>c, <1>d, <1>e, <1>f DEF Acquired, IInv, TypeOK, PC, Frame, Depth,
         Nesting, Placement
    <2>5. Restoring'
      BY <1>12, <1>b, <1>c, <1>d, <1>e, <1>f DEF Acquired, IInv, TypeOK, PC, Frame,
         Restoring, Nesting, Placement
    <2> QED
      BY <2>1, <2>2, <2>3, <2>4, <2>5 DEF IInv
  <1>13. CASE CaughtDead(x, c)
    <2>1. (Placement /\ Masking /\ Latching)'
      BY <1>13 DEF CaughtDead, NoLocals, TaskPart, IInv, TypeOK, Placement, Masking,
         Latching
    <2>2. (SpinlockHeld /\ WordHeld /\ WordFree)'
      BY <1>13 DEF CaughtDead, NoLocals, TaskPart, IInv, TypeOK, SpinlockHeld, WordHeld,
         WordFree
    <2>3. (Nesting /\ Depth /\ Restoring)'
      BY <1>13 DEF CaughtDead, NoLocals, TaskPart, IInv, TypeOK, Nesting, Depth, Restoring
    <2>4. (NoIllegalUse)'
      BY <1>13 DEF CaughtDead, NoLocals, TaskPart, IInv, TypeOK, NoIllegalUse
    <2> QED
      BY <2>1, <2>2, <2>3, <2>4 DEF IInv
  <1>14. CASE Entered(x, c)
    <2>1. (Placement /\ Masking /\ Latching)'
      BY <1>14 DEF Entered, NoLocals, TaskPart, IInv, TypeOK, Placement, Masking, Latching
    <2>2. (SpinlockHeld)'
      BY <1>14 DEF Entered, NoLocals, TaskPart, IInv, TypeOK, SpinlockHeld
    <2>3. (WordHeld /\ WordFree /\ Nesting)'
      BY <1>14 DEF Entered, NoLocals, TaskPart, IInv, TypeOK, WordHeld, WordFree, Nesting
    <2>4. (Restoring /\ NoIllegalUse)'
      BY <1>14 DEF Entered, NoLocals, TaskPart, IInv, TypeOK, Restoring, NoIllegalUse
    <2>5. Depth'
      BY <1>14, <1>b, <1>c, <1>d, <1>e, <1>f DEF Entered, NoLocals, TaskPart, IInv, TypeOK,
         PC, Frame, Depth, Nesting, Placement
    <2> QED
      BY <2>1, <2>2, <2>3, <2>4, <2>5 DEF IInv
  <1>15. CASE Leave(x, c)
    <2>1. (Placement /\ Masking /\ Latching)'
      BY <1>15 DEF Leave, LockIsMine, IInv, TypeOK, Placement, Masking, Latching
    <2>2. (SpinlockHeld /\ WordFree /\ Restoring)'
      BY <1>15 DEF Leave, LockIsMine, IInv, TypeOK, SpinlockHeld, WordFree, Restoring
    <2>3. WordHeld'
      BY <1>15, <1>b, <1>c DEF Leave, LockIsMine, IInv, TypeOK, PC, Frame, Placement,
         Masking, Latching, SpinlockHeld, WordHeld, WordFree, Nesting, Depth, Restoring,
         NoIllegalUse
    <2>4. Nesting'
      BY <1>15, <1>b, <1>c DEF Leave, LockIsMine, IInv, TypeOK, PC, Frame, Placement,
         Masking, Latching, SpinlockHeld, WordHeld, WordFree, Nesting, Depth, Restoring,
         NoIllegalUse
    <2>5. Depth'
      BY <1>15, <1>b, <1>c, <1>d, <1>e, <1>f DEF Leave, LockIsMine, IInv, TypeOK, PC, Frame,
         Depth, Nesting, Placement
    <2>6. NoIllegalUse'
      BY <1>15, <1>b, <1>c DEF Leave, LockIsMine, IInv, TypeOK, PC, Frame, Placement,
         Masking, Latching, SpinlockHeld, WordHeld, WordFree, Nesting, Depth, Restoring,
         NoIllegalUse
    <2> QED
      BY <2>1, <2>2, <2>3, <2>4, <2>5, <2>6 DEF IInv
  <1>16. CASE Abandon(x, c)
    <2>1. (Placement /\ Masking /\ Latching)'
      BY <1>16 DEF Abandon, TaskPart, IInv, TypeOK, Placement, Masking, Latching
    <2>2. (SpinlockHeld /\ WordHeld /\ WordFree)'
      BY <1>16 DEF Abandon, TaskPart, IInv, TypeOK, SpinlockHeld, WordHeld, WordFree
    <2>3. (Nesting /\ Depth /\ Restoring)'
      BY <1>16 DEF Abandon, TaskPart, IInv, TypeOK, Nesting, Depth, Restoring
    <2>4. (NoIllegalUse)'
      BY <1>16 DEF Abandon, TaskPart, IInv, TypeOK, NoIllegalUse
    <2> QED
      BY <2>1, <2>2, <2>3, <2>4 DEF IInv
  <1>17. CASE Suspend(x, c)
    <2>1. (Placement /\ Masking /\ Latching)'
      BY <1>17 DEF Suspend, LockIsMine, IInv, TypeOK, Placement, Masking, Latching
    <2>2. (SpinlockHeld)'
      BY <1>17 DEF Suspend, LockIsMine, IInv, TypeOK, SpinlockHeld
    <2>3. (WordHeld /\ WordFree /\ Depth)'
      BY <1>17 DEF Suspend, LockIsMine, IInv, TypeOK, WordHeld, WordFree, Depth
    <2>4. (Restoring)'
      BY <1>17 DEF Suspend, LockIsMine, IInv, TypeOK, Restoring
    <2>5. Nesting'
      BY <1>17, <1>b, <1>c DEF Suspend, LockIsMine, IInv, TypeOK, PC, Frame, Placement,
         Masking, Latching, SpinlockHeld, WordHeld, WordFree, Nesting, Depth, Restoring,
         NoIllegalUse
    <2>6. NoIllegalUse'
      BY <1>17, <1>b, <1>c DEF Suspend, LockIsMine, IInv, TypeOK, PC, Frame, Placement,
         Masking, Latching, SpinlockHeld, WordHeld, WordFree, Nesting, Depth, Restoring,
         NoIllegalUse
    <2> QED
      BY <2>1, <2>2, <2>3, <2>4, <2>5, <2>6 DEF IInv
  <1>18. CASE Give(x, c)
    <2>1. (Placement /\ Masking /\ Latching)'
      BY <1>18 DEF Give, IInv, TypeOK, Placement, Masking, Latching
    <2>2. (WordHeld /\ WordFree /\ Nesting)'
      BY <1>18 DEF Give, IInv, TypeOK, WordHeld, WordFree, Nesting
    <2>3. (Depth /\ Restoring /\ NoIllegalUse)'
      BY <1>18 DEF Give, IInv, TypeOK, Depth, Restoring, NoIllegalUse
    <2>4. SpinlockHeld'
      BY <1>18, <1>b, <1>c, <1>d, <1>e, <1>f DEF Give, IInv, TypeOK, PC, Frame,
         SpinlockHeld, Nesting, Placement
    <2> QED
      BY <2>1, <2>2, <2>3, <2>4 DEF IInv
  <1>19. CASE ClearWord(x, c)
    <2>1. (Placement /\ Masking /\ Latching)'
      BY <1>19 DEF ClearWord, IInv, TypeOK, Placement, Masking, Latching
    <2>2. (SpinlockHeld /\ WordFree /\ Nesting)'
      BY <1>19 DEF ClearWord, IInv, TypeOK, SpinlockHeld, WordFree, Nesting
    <2>3. (Depth /\ Restoring /\ NoIllegalUse)'
      BY <1>19 DEF ClearWord, IInv, TypeOK, Depth, Restoring, NoIllegalUse
    <2>4. WordHeld'
      BY <1>19, <1>d, <1>e, <1>h DEF ClearWord, IInv, TypeOK, WordHeld
    <2> QED
      BY <2>1, <2>2, <2>3, <2>4 DEF IInv
  <1>20. CASE FinishLeave(x, c)
    <2>1. (Placement /\ Latching /\ WordFree)'
      BY <1>20 DEF FinishLeave, IInv, TypeOK, Placement, Latching, WordFree
    <2>2. (Nesting /\ Restoring /\ NoIllegalUse)'
      BY <1>20 DEF FinishLeave, IInv, TypeOK, Nesting, Restoring, NoIllegalUse
    <2>3. Masking'
      BY <1>20, <1>b, <1>c DEF FinishLeave, IInv, TypeOK, PC, Frame, Placement, Masking,
         Latching, SpinlockHeld, WordHeld, WordFree, Nesting, Depth, Restoring, NoIllegalUse
    <2>4. SpinlockHeld'
      BY <1>20, <1>d, <1>f, <1>i DEF FinishLeave, IInv, TypeOK, SpinlockHeld
    <2>5. WordHeld'
      BY <1>20, <1>b, <1>c DEF FinishLeave, IInv, TypeOK, Nesting, WordHeld
    <2>6. Depth'
      BY <1>20, <1>b, <1>c DEF FinishLeave, IInv, TypeOK, Nesting, Depth
    <2> QED
      BY <2>1, <2>2, <2>3, <2>4, <2>5, <2>6 DEF IInv
  <1>21. CASE FinishAbandon(x, c)
    <2>1. (Placement /\ Masking /\ Latching)'
      BY <1>21 DEF FinishAbandon, NoFrame, NoFrames, IInv, TypeOK, Placement, Masking,
         Latching
    <2>2. (WordHeld /\ WordFree /\ Nesting)'
      BY <1>21 DEF FinishAbandon, NoFrame, NoFrames, IInv, TypeOK, WordHeld, WordFree,
         Nesting
    <2>3. (Depth /\ Restoring /\ NoIllegalUse)'
      BY <1>21 DEF FinishAbandon, NoFrame, NoFrames, IInv, TypeOK, Depth, Restoring,
         NoIllegalUse
    <2>4. SpinlockHeld'
      BY <1>21, <1>d, <1>f, <1>i DEF FinishAbandon, NoFrame, NoFrames, IInv, TypeOK,
         SpinlockHeld
    <2> QED
      BY <2>1, <2>2, <2>3, <2>4 DEF IInv
  <1>22. CASE FinishSuspend(x, c)
    <2>1. (Placement /\ Masking /\ Latching)'
      BY <1>22 DEF FinishSuspend, IInv, TypeOK, Placement, Masking, Latching
    <2>2. (WordHeld)'
      BY <1>22 DEF FinishSuspend, IInv, TypeOK, WordHeld
    <2>3. (WordFree /\ Nesting /\ Depth)'
      BY <1>22 DEF FinishSuspend, IInv, TypeOK, WordFree, Nesting, Depth
    <2>4. (Restoring /\ NoIllegalUse)'
      BY <1>22 DEF FinishSuspend, IInv, TypeOK, Restoring, NoIllegalUse
    <2>5. SpinlockHeld'
      BY <1>22, <1>d, <1>f, <1>i DEF FinishSuspend, IInv, TypeOK, SpinlockHeld
    <2> QED
      BY <2>1, <2>2, <2>3, <2>4, <2>5 DEF IInv
  <1>23. CASE Resume(x, c)
    <2>1. (Placement /\ Masking /\ Latching)'
      BY <1>23 DEF Resume, IInv, TypeOK, Placement, Masking, Latching
    <2>2. (SpinlockHeld /\ WordFree /\ Nesting)'
      BY <1>23 DEF Resume, IInv, TypeOK, SpinlockHeld, WordFree, Nesting
    <2>3. WordHeld'
      BY <1>23, <1>b, <1>c DEF Resume, IInv, TypeOK, Nesting, WordHeld
    <2>4. Depth'
      BY <1>23, <1>e DEF Resume, IInv, TypeOK, Depth, Nesting, Placement
    <2>5. Restoring'
      BY <1>23, <1>b, <1>c, <1>d, <1>e, <1>f DEF Resume, IInv, TypeOK, PC, Frame, Restoring,
         Nesting, Placement
    <2>6. NoIllegalUse'
      BY <1>23, <1>b, <1>c, <1>d, <1>e, <1>f DEF Resume, IInv, TypeOK, PC, Frame,
         NoIllegalUse, Nesting, Placement
    <2> QED
      BY <2>1, <2>2, <2>3, <2>4, <2>5, <2>6 DEF IInv
  <1>24. CASE EndSection(x, c)
    <2>1. (Placement /\ Latching /\ WordFree)'
      BY <1>24 DEF EndSection, NoFrame, IInv, TypeOK, Placement, Latching, WordFree
    <2>2. (NoIllegalUse)'
      BY <1>24 DEF EndSection, NoFrame, IInv, TypeOK, NoIllegalUse
    <2>3. Masking'
      BY <1>24, <1>b, <1>c DEF EndSection, NoFrame, IInv, TypeOK, PC, Frame, Placement,
         Masking, Latching, SpinlockHeld, WordHeld, WordFree, Nesting, Depth, Restoring,
         NoIllegalUse
    <2>4. SpinlockHeld'
      BY <1>24, <1>d, <1>f DEF EndSection, NoFrame, IInv, TypeOK, SpinlockHeld
    <2>5. WordHeld'
      BY <1>24, <1>b, <1>c DEF EndSection, NoFrame, IInv, TypeOK, Nesting, WordHeld
    <2>6. Nesting'
      BY <1>24, <1>b, <1>c DEF EndSection, NoFrame, IInv, TypeOK, Nesting, PC
    <2>7. Depth'
      BY <1>24, <1>b, <1>c DEF EndSection, NoFrame, IInv, TypeOK, Nesting, Depth
    <2>8. Restoring'
      BY <1>24, <1>b, <1>c DEF EndSection, NoFrame, IInv, TypeOK, Nesting, Restoring
    <2> QED
      BY <2>1, <2>2, <2>3, <2>4, <2>5, <2>6, <2>7, <2>8 DEF IInv
  <1> QED
    BY <1>1, <1>2, <1>3, <1>4, <1>5, <1>6, <1>7, <1>8, <1>9, <1>10, <1>11, <1>12, <1>13,
       <1>14, <1>15, <1>16, <1>17, <1>18, <1>19, <1>20, <1>21, <1>22, <1>23, <1>24 DEF Step

-----------------------------------------------------------------------------
\* tk_ter_tsk only marks its target; the target is stopped by CaughtDead.
LEMMA InductiveKill ==
  ASSUME IInv, TypeOK', NEW x \in Ctx, NEW y \in Task, Kill(x, y)
  PROVE  IInv'
  BY DEF Kill, lock, ctx, IInv, Placement, Masking, Latching, SpinlockHeld, WordHeld,
         WordFree, Nesting, Depth, Restoring, NoIllegalUse, At, Level, Covered, Pinned,
         Holds, Owns, Claims, Latched

\* A restarted task ran nowhere, so it was not pinned and held nothing.
LEMMA InductiveRestart ==
  ASSUME IInv, TypeOK', NEW x \in Task, Restart(x)
  PROVE  IInv'
  <1> USE CoreAssumption, CtxAssumption, NestAssumption
      DEF Restart, lock, ctx, At, Goto, NoLocals, NoFrame, NoFrames, Level, Covered,
          Pinned, Holds, Owns, Claims, Latched, IInv, TypeOK
  <1>0. x \in Ctx
    BY DEF Ctx
  <1>1. ~Pinned(x)
    BY <1>0 DEF Masking
  <1>2. resume[x] = 0
    <2>1. resume[x] \in Nat /\ pc[x] \in PC
      BY <1>0
    <2>2. CASE pc[x] \in {"idle", "gone"}
      BY <1>0, <2>2 DEF Nesting
    <2>3. CASE frame[x][1].raw
      BY <1>0, <2>1, <2>3 DEF Nesting
    <2> QED
      BY <1>1, <2>1, <2>2, <2>3 DEF PC
  <1>3. (Placement /\ Masking /\ Latching /\ WordFree /\ NoIllegalUse)'
    BY <1>0 DEF Placement, Masking, Latching, WordFree, NoIllegalUse
  <1>4. SpinlockHeld'
    BY <1>0 DEF SpinlockHeld
  <1>5. WordHeld'
    BY <1>0 DEF WordHeld
  <1>6. Nesting'
    BY <1>0, <1>2 DEF Nesting
  <1>7. (Depth /\ Restoring)'
    BY <1>0 DEF Depth, Restoring
  <1> QED
    BY <1>3, <1>4, <1>5, <1>6, <1>7

\* Only an unmasked processor changes contexts, and what it runs then is not
\* pinned; what it takes up was not running, hence not pinned either.
LEMMA InductiveDispatch ==
  ASSUME IInv, TypeOK', NEW c \in Core, NEW y \in Ctx \cup {NoCtx}, Dispatch(c, y)
  PROVE  IInv'
  <1> USE CoreAssumption, CtxAssumption
      DEF Dispatch, lock, ctx, At, Level, Covered, Pinned, Holds, Owns, Claims, Latched,
          IInv, TypeOK
  <1>1. running[c] # NoCtx => ~Pinned(running[c])
    BY DEF Placement, Masking
  <1>2. y # NoCtx => ~Pinned(y)
    BY DEF Masking
  <1>3. (Placement /\ WordFree /\ Nesting /\ NoIllegalUse)'
    BY DEF Placement, WordFree, Nesting, NoIllegalUse
  <1>4. (Masking /\ Latching)'
    BY <1>1, <1>2 DEF Masking, Latching, Placement
  <1>5. SpinlockHeld'
    BY <1>1, <1>2 DEF SpinlockHeld
  <1>6. WordHeld'
    BY <1>1, <1>2 DEF WordHeld, Nesting
  <1>7. Depth'
    BY <1>1, <1>2 DEF Depth, Nesting
  <1>8. Restoring'
    BY <1>1, <1>2 DEF Restoring, Nesting
  <1> QED
    BY <1>3, <1>4, <1>5, <1>6, <1>7, <1>8

\* Nobody runs and nothing is held at the start.
LEMMA InductiveInit == Init => IInv
  <1> SUFFICES ASSUME Init PROVE IInv
    OBVIOUS
  <1>1. TypeOK
    BY TypeInit
  <1>2. Placement /\ Masking /\ Latching /\ SpinlockHeld /\ WordHeld /\ WordFree
    BY CoreAssumption DEF Init, Placement, Masking, Latching, SpinlockHeld, WordHeld,
       WordFree, At, Pinned, Holds, Claims, Latched
  <1>3. Nesting /\ Depth /\ Restoring /\ NoIllegalUse
    BY NestAssumption DEF Init, Nesting, Depth, Restoring, NoIllegalUse, At, Owns,
       NoFrame, NoFrames
  <1> QED
    BY <1>1, <1>2, <1>3 DEF IInv

\* Every step of the specification preserves the invariant.
LEMMA Inductive ==
  ASSUME SafeEntry, IInv, [Next]_vars
  PROVE  IInv'
  <1>0. TypeOK' /\ Opened'
    BY TypeNext DEF IInv, Nesting, Opened
  <1>1. ASSUME NEW x \in Ctx, NEW c \in Core, Step(x, c)
        PROVE  IInv'
    BY <1>0, <1>1, InductiveStep DEF Step
  <1>2. ASSUME NEW x \in Ctx, NEW y \in Task, Kill(x, y)
        PROVE  IInv'
    BY <1>0, <1>2, InductiveKill
  <1>3. ASSUME NEW x \in Task, Restart(x)
        PROVE  IInv'
    BY <1>0, <1>3, InductiveRestart
  <1>4. ASSUME NEW c \in Core, NEW y \in Ctx \cup {NoCtx}, Dispatch(c, y)
        PROVE  IInv'
    BY <1>0, <1>4, InductiveDispatch
  <1>5. CASE UNCHANGED vars
    BY <1>5 DEF vars, IInv, TypeOK, Placement, Masking, Latching, SpinlockHeld, WordHeld,
       WordFree, Nesting, Depth, Restoring, NoIllegalUse, At, Level, Covered, Pinned,
       Holds, Owns, Claims, Latched
  <1> QED
    BY <1>1, <1>2, <1>3, <1>4, <1>5 DEF Next


\* What is known of the mask of a processor while one of its contexts is in or
\* near a section: an outermost section was opened with interrupts enabled, so
\* what DISABLE_INTERRUPT finds, keeps and gives back is an open mask.
Unmasking ==
    \A x \in Ctx :
        /\ nest[x] >= 1 /\ ~frame[x][1].raw => ~frame[x][1].mask
        /\ pc[x] \in {"test", "spin", "claim", "recheck", "set", "free", "unset", "won"}
             /\ frame[x][1].raw /\ nest[x] = 1 => ~saved[x]
        /\ \A c \in Core : running[c] = x /\ frame[x][1].raw =>
               /\ Owns(x) => ~keep[c]
               /\ pc[x] \in {"self", "mask", "end"} /\ nest[x] = 1 => ~primask[c]

\* A step of the context x on the core c keeps that knowledge.
LEMMA UnmaskingStep ==
  ASSUME SafeEntry, IInv, Unmasking, MaskRestored,
         NEW x \in Ctx, NEW c \in Core, running[c] = x, Step(x, c)
  PROVE  (Unmasking /\ MaskRestored)'
  <1> USE CoreAssumption, CtxAssumption, NestAssumption
      DEF At, Goto, lock, ctx, Level, Covered, Pinned, Owns, Latched, TypeOK
  <1>a. TypeOK /\ \A d \in Core : running[d] = x => d = c
    BY DEF IInv, Placement
  <1>b. Pinned(x) => primask[c]
    <2>1. Pinned(x) => \E d \in Core : running[d] = x /\ primask[d]
      BY DEF IInv, Masking
    <2> QED
      BY <1>a, <2>1
  <1>c. Pinned(x) /\ Latched(x) => self[x] = c
    BY DEF IInv, Latching, Placement
  <1>d. /\ resume[x] \in Nat /\ nest[x] \in Nat /\ resume[x] <= nest[x]
        /\ frame[x][1].raw => resume[x] = 0
        /\ pc[x] \in {"idle", "gone"} => nest[x] = 0
        /\ pc[x] \notin {"idle", "gone"} => nest[x] >= 1
        /\ pc[x] = "detached" => resume[x] > 0
        /\ pc[x] = "won" => nest[x] - resume[x] <= 1
    BY DEF IInv, Nesting
  <1>e. /\ word = c => Holds(x)
        /\ pc[x] = "in" => word = c /\ depth[c] = nest[x] - resume[x]
    BY DEF IInv, WordHeld, Depth, Holds
  <1>1. CASE BeginCriticalSection(x, c)
    <2>1. Unmasking'
      <3>1. ASSUME NEW y \in Ctx
            PROVE  (nest[y] >= 1 /\ ~frame[y][1].raw => ~frame[y][1].mask)'
        BY <1>1, <1>a, <1>b, <1>c, <1>d DEF BeginCriticalSection, Open, Unmasking,
           MaskRestored
      <3>2. ASSUME NEW y \in Ctx
            PROVE  (pc[y] \in {"test", "spin", "claim", "recheck", "set", "free", "unset",
                                "won"}
                      /\ frame[y][1].raw /\ nest[y] = 1 => ~saved[y])'
        BY <1>1, <1>a, <1>b, <1>c, <1>d DEF BeginCriticalSection, Open, Unmasking,
           MaskRestored
      <3>3. ASSUME NEW y \in Ctx, y # x, NEW d \in Core, running'[d] = y, frame'[y][1].raw
            PROVE  /\ Owns(y)' => ~keep'[d]
                   /\ pc'[y] \in {"self", "mask", "end"} /\ nest'[y] = 1 => ~primask'[d]
        <4>1. running[d] = y /\ d # c /\ frame[y][1].raw
          BY <3>3, <1>1 DEF BeginCriticalSection, Open
        <4>2. /\ pc'[y] = pc[y] /\ nest'[y] = nest[y] /\ resume'[y] = resume[y]
              /\ keep'[d] = keep[d] /\ primask'[d] = primask[d]
          BY <3>3, <4>1, <1>1, <1>a, <1>c DEF BeginCriticalSection, Open
        <4> QED
          BY <3>3, <4>1, <4>2 DEF Unmasking
      <3>4. ASSUME frame'[x][1].raw
            PROVE  Owns(x)' => ~keep'[c]
        BY <3>4, <1>1, <1>a, <1>c, <1>d, <1>e DEF Holds, BeginCriticalSection, Open,
           Unmasking, MaskRestored
      <3>5. ASSUME frame'[x][1].raw
            PROVE  pc'[x] \in {"self", "mask", "end"} /\ nest'[x] = 1 => ~primask'[c]
        BY <3>5, <1>1, <1>a, <1>b, <1>c, <1>d DEF BeginCriticalSection, Open, Unmasking,
           MaskRestored
      <3>6. \A d \in Core : running'[d] = x => d = c
        BY <1>1, <1>a DEF BeginCriticalSection, Open
      <3> QED
        BY <3>1, <3>2, <3>3, <3>4, <3>5, <3>6 DEF Unmasking
    <2>2. MaskRestored'
      BY <1>1, <1>a, <1>b, <1>c, <1>d DEF BeginCriticalSection, Open, Unmasking,
         MaskRestored
    <2> QED
      BY <2>1, <2>2
  <1>2. CASE DisableInterrupt(x, c)
    <2>1. Unmasking'
      <3>1. ASSUME NEW y \in Ctx
            PROVE  (nest[y] >= 1 /\ ~frame[y][1].raw => ~frame[y][1].mask)'
        BY <1>2, <1>a, <1>b, <1>c, <1>d DEF DisableInterrupt, Open, Unmasking, MaskRestored
      <3>2. ASSUME NEW y \in Ctx
            PROVE  (pc[y] \in {"test", "spin", "claim", "recheck", "set", "free", "unset",
                                "won"}
                      /\ frame[y][1].raw /\ nest[y] = 1 => ~saved[y])'
        BY <1>2, <1>a, <1>b, <1>c, <1>d DEF DisableInterrupt, Open, Unmasking, MaskRestored
      <3>3. ASSUME NEW y \in Ctx, y # x, NEW d \in Core, running'[d] = y, frame'[y][1].raw
            PROVE  /\ Owns(y)' => ~keep'[d]
                   /\ pc'[y] \in {"self", "mask", "end"} /\ nest'[y] = 1 => ~primask'[d]
        <4>1. running[d] = y /\ d # c /\ frame[y][1].raw
          BY <3>3, <1>2 DEF DisableInterrupt, Open
        <4>2. /\ pc'[y] = pc[y] /\ nest'[y] = nest[y] /\ resume'[y] = resume[y]
              /\ keep'[d] = keep[d] /\ primask'[d] = primask[d]
          BY <3>3, <4>1, <1>2, <1>a, <1>c DEF DisableInterrupt, Open
        <4> QED
          BY <3>3, <4>1, <4>2 DEF Unmasking
      <3>4. ASSUME frame'[x][1].raw
            PROVE  Owns(x)' => ~keep'[c]
        BY <3>4, <1>2, <1>a, <1>c, <1>d, <1>e DEF Holds, DisableInterrupt, Open,
           Unmasking, MaskRestored
      <3>5. ASSUME frame'[x][1].raw
            PROVE  pc'[x] \in {"self", "mask", "end"} /\ nest'[x] = 1 => ~primask'[c]
        BY <3>5, <1>2, <1>a, <1>b, <1>c, <1>d DEF DisableInterrupt, Open, Unmasking,
           MaskRestored
      <3>6. \A d \in Core : running'[d] = x => d = c
        BY <1>2, <1>a DEF DisableInterrupt, Open
      <3> QED
        BY <3>1, <3>2, <3>3, <3>4, <3>5, <3>6 DEF Unmasking
    <2>2. MaskRestored'
      BY <1>2, <1>a, <1>b, <1>c, <1>d DEF DisableInterrupt, Open, Unmasking, MaskRestored
    <2> QED
      BY <2>1, <2>2
  <1>3. CASE ReadSelf(x, c)
    <2>1. Unmasking'
      BY <1>3, <1>a, <1>b, <1>c, <1>d DEF ReadSelf, Unmasking, MaskRestored
    <2>2. MaskRestored'
      BY <1>3, <1>a, <1>b, <1>c, <1>d DEF ReadSelf, Unmasking, MaskRestored
    <2> QED
      BY <2>1, <2>2
  <1>4. CASE MaskInterrupts(x, c)
    <2>1. Unmasking'
      BY <1>4, <1>a, <1>b, <1>c, <1>d DEF MaskInterrupts, Unmasking, MaskRestored
    <2>2. MaskRestored'
      BY <1>4, <1>a, <1>b, <1>c, <1>d DEF MaskInterrupts, Unmasking, MaskRestored
    <2> QED
      BY <2>1, <2>2
  <1>5. CASE Reenter(x, c)
    <2>1. Unmasking'
      <3>1. ASSUME NEW y \in Ctx
            PROVE  (nest[y] >= 1 /\ ~frame[y][1].raw => ~frame[y][1].mask)'
        BY <1>5, <1>a, <1>b, <1>c, <1>d DEF Reenter, NoLocals, Unmasking, MaskRestored
      <3>2. ASSUME NEW y \in Ctx
            PROVE  (pc[y] \in {"test", "spin", "claim", "recheck", "set", "free", "unset",
                                "won"}
                      /\ frame[y][1].raw /\ nest[y] = 1 => ~saved[y])'
        BY <1>5, <1>a, <1>b, <1>c, <1>d DEF Reenter, NoLocals, Unmasking, MaskRestored
      <3>3. ASSUME NEW y \in Ctx, y # x, NEW d \in Core, running'[d] = y, frame'[y][1].raw
            PROVE  /\ Owns(y)' => ~keep'[d]
                   /\ pc'[y] \in {"self", "mask", "end"} /\ nest'[y] = 1 => ~primask'[d]
        <4>1. running[d] = y /\ d # c /\ frame[y][1].raw
          BY <3>3, <1>5 DEF Reenter, NoLocals
        <4>2. /\ pc'[y] = pc[y] /\ nest'[y] = nest[y] /\ resume'[y] = resume[y]
              /\ keep'[d] = keep[d] /\ primask'[d] = primask[d]
          BY <3>3, <4>1, <1>5, <1>a, <1>c DEF Reenter, NoLocals
        <4> QED
          BY <3>3, <4>1, <4>2 DEF Unmasking
      <3>4. ASSUME frame'[x][1].raw
            PROVE  Owns(x)' => ~keep'[c]
        BY <3>4, <1>5, <1>a, <1>c, <1>d, <1>e DEF Holds, Reenter, NoLocals, Unmasking,
           MaskRestored
      <3>5. ASSUME frame'[x][1].raw
            PROVE  pc'[x] \in {"self", "mask", "end"} /\ nest'[x] = 1 => ~primask'[c]
        BY <3>5, <1>5, <1>a, <1>b, <1>c, <1>d DEF Reenter, NoLocals, Unmasking, MaskRestored
      <3>6. \A d \in Core : running'[d] = x => d = c
        BY <1>5, <1>a DEF Reenter, NoLocals
      <3> QED
        BY <3>1, <3>2, <3>3, <3>4, <3>5, <3>6 DEF Unmasking
    <2>2. MaskRestored'
      BY <1>5, <1>a, <1>b, <1>c, <1>d DEF Reenter, NoLocals, Unmasking, MaskRestored
    <2> QED
      BY <2>1, <2>2
  <1>6. CASE NotOurs(x, c)
    <2>1. Unmasking'
      BY <1>6, <1>a, <1>b, <1>c, <1>d DEF NotOurs, Unmasking, MaskRestored
    <2>2. MaskRestored'
      BY <1>6, <1>a, <1>b, <1>c, <1>d DEF NotOurs, Unmasking, MaskRestored
    <2> QED
      BY <2>1, <2>2
  <1>7. CASE Spin(x, c)
    <2>1. Unmasking'
      BY <1>7, <1>a, <1>b, <1>c, <1>d DEF Spin, Unmasking, MaskRestored
    <2>2. MaskRestored'
      BY <1>7, <1>a, <1>b, <1>c, <1>d DEF Spin, Unmasking, MaskRestored
    <2> QED
      BY <2>1, <2>2
  <1>8. CASE Claim(x, c)
    <2>1. Unmasking'
      BY <1>8, <1>a, <1>b, <1>c, <1>d DEF Claim, Unmasking, MaskRestored
    <2>2. MaskRestored'
      BY <1>8, <1>a, <1>b, <1>c, <1>d DEF Claim, Unmasking, MaskRestored
    <2> QED
      BY <2>1, <2>2
  <1>9. CASE Recheck(x, c)
    <2>1. Unmasking'
      BY <1>9, <1>a, <1>b, <1>c, <1>d DEF Recheck, Unmasking, MaskRestored
    <2>2. MaskRestored'
      BY <1>9, <1>a, <1>b, <1>c, <1>d DEF Recheck, Unmasking, MaskRestored
    <2> QED
      BY <2>1, <2>2
  <1>10. CASE SetWord(x, c)
    <2>1. Unmasking'
      BY <1>10, <1>a, <1>b, <1>c, <1>d DEF SetWord, Unmasking, MaskRestored
    <2>2. MaskRestored'
      BY <1>10, <1>a, <1>b, <1>c, <1>d DEF SetWord, Unmasking, MaskRestored
    <2> QED
      BY <2>1, <2>2
  <1>11. CASE FreeSpinlock(x, c)
    <2>1. Unmasking'
      BY <1>11, <1>a, <1>b, <1>c, <1>d DEF FreeSpinlock, Unmasking, MaskRestored
    <2>2. MaskRestored'
      BY <1>11, <1>a, <1>b, <1>c, <1>d DEF FreeSpinlock, Unmasking, MaskRestored
    <2> QED
      BY <2>1, <2>2
  <1>12. CASE Acquired(x, c)
    <2>1. Unmasking'
      <3>1. ASSUME NEW y \in Ctx
            PROVE  (nest[y] >= 1 /\ ~frame[y][1].raw => ~frame[y][1].mask)'
        BY <1>12, <1>a, <1>b, <1>c, <1>d DEF Acquired, Unmasking, MaskRestored
      <3>2. ASSUME NEW y \in Ctx
            PROVE  (pc[y] \in {"test", "spin", "claim", "recheck", "set", "free", "unset",
                                "won"}
                      /\ frame[y][1].raw /\ nest[y] = 1 => ~saved[y])'
        BY <1>12, <1>a, <1>b, <1>c, <1>d DEF Acquired, Unmasking, MaskRestored
      <3>3. ASSUME NEW y \in Ctx, y # x, NEW d \in Core, running'[d] = y, frame'[y][1].raw
            PROVE  /\ Owns(y)' => ~keep'[d]
                   /\ pc'[y] \in {"self", "mask", "end"} /\ nest'[y] = 1 => ~primask'[d]
        <4>1. running[d] = y /\ d # c /\ frame[y][1].raw
          BY <3>3, <1>12 DEF Acquired
        <4>2. /\ pc'[y] = pc[y] /\ nest'[y] = nest[y] /\ resume'[y] = resume[y]
              /\ keep'[d] = keep[d] /\ primask'[d] = primask[d]
          BY <3>3, <4>1, <1>12, <1>a, <1>c DEF Acquired
        <4> QED
          BY <3>3, <4>1, <4>2 DEF Unmasking
      <3>4. ASSUME frame'[x][1].raw
            PROVE  Owns(x)' => ~keep'[c]
        BY <3>4, <1>12, <1>a, <1>c, <1>d, <1>e DEF Holds, Acquired, Unmasking, MaskRestored
      <3>5. ASSUME frame'[x][1].raw
            PROVE  pc'[x] \in {"self", "mask", "end"} /\ nest'[x] = 1 => ~primask'[c]
        BY <3>5, <1>12, <1>a, <1>b, <1>c, <1>d DEF Acquired, Unmasking, MaskRestored
      <3>6. \A d \in Core : running'[d] = x => d = c
        BY <1>12, <1>a DEF Acquired
      <3> QED
        BY <3>1, <3>2, <3>3, <3>4, <3>5, <3>6 DEF Unmasking
    <2>2. MaskRestored'
      BY <1>12, <1>a, <1>b, <1>c, <1>d DEF Acquired, Unmasking, MaskRestored
    <2> QED
      BY <2>1, <2>2
  <1>13. CASE CaughtDead(x, c)
    <2>1. Unmasking'
      BY <1>13, <1>a, <1>b, <1>c, <1>d DEF CaughtDead, NoLocals, TaskPart, Unmasking,
         MaskRestored
    <2>2. MaskRestored'
      BY <1>13, <1>a, <1>b, <1>c, <1>d DEF CaughtDead, NoLocals, TaskPart, Unmasking,
         MaskRestored
    <2> QED
      BY <2>1, <2>2
  <1>14. CASE Entered(x, c)
    <2>1. Unmasking'
      BY <1>14, <1>a, <1>b, <1>c, <1>d DEF Entered, NoLocals, TaskPart, Unmasking,
         MaskRestored
    <2>2. MaskRestored'
      BY <1>14, <1>a, <1>b, <1>c, <1>d DEF Entered, NoLocals, TaskPart, Unmasking,
         MaskRestored
    <2> QED
      BY <2>1, <2>2
  <1>15. CASE Leave(x, c)
    <2>1. Unmasking'
      <3>1. ASSUME NEW y \in Ctx
            PROVE  (nest[y] >= 1 /\ ~frame[y][1].raw => ~frame[y][1].mask)'
        BY <1>15, <1>a, <1>b, <1>c, <1>d DEF Leave, LockIsMine, Unmasking, MaskRestored
      <3>2. ASSUME NEW y \in Ctx
            PROVE  (pc[y] \in {"test", "spin", "claim", "recheck", "set", "free", "unset",
                                "won"}
                      /\ frame[y][1].raw /\ nest[y] = 1 => ~saved[y])'
        BY <1>15, <1>a, <1>b, <1>c, <1>d DEF Leave, LockIsMine, Unmasking, MaskRestored
      <3>3. ASSUME NEW y \in Ctx, y # x, NEW d \in Core, running'[d] = y, frame'[y][1].raw
            PROVE  /\ Owns(y)' => ~keep'[d]
                   /\ pc'[y] \in {"self", "mask", "end"} /\ nest'[y] = 1 => ~primask'[d]
        <4>1. running[d] = y /\ d # c /\ frame[y][1].raw
          BY <3>3, <1>15 DEF Leave, LockIsMine
        <4>2. /\ pc'[y] = pc[y] /\ nest'[y] = nest[y] /\ resume'[y] = resume[y]
              /\ keep'[d] = keep[d] /\ primask'[d] = primask[d]
          BY <3>3, <4>1, <1>15, <1>a, <1>c DEF Leave, LockIsMine
        <4> QED
          BY <3>3, <4>1, <4>2 DEF Unmasking
      <3>4. ASSUME frame'[x][1].raw
            PROVE  Owns(x)' => ~keep'[c]
        BY <3>4, <1>15, <1>a, <1>b, <1>c, <1>d DEF Leave, LockIsMine, Unmasking,
           MaskRestored
      <3>5. ASSUME frame'[x][1].raw
            PROVE  pc'[x] \in {"self", "mask", "end"} /\ nest'[x] = 1 => ~primask'[c]
        BY <3>5, <1>15, <1>d, <1>e DEF Leave, LockIsMine, Unmasking, MaskRestored
      <3>6. \A d \in Core : running'[d] = x => d = c
        BY <1>15, <1>a DEF Leave, LockIsMine
      <3> QED
        BY <3>1, <3>2, <3>3, <3>4, <3>5, <3>6 DEF Unmasking
    <2>2. MaskRestored'
      BY <1>15, <1>a, <1>b, <1>c, <1>d DEF Leave, LockIsMine, Unmasking, MaskRestored
    <2> QED
      BY <2>1, <2>2
  <1>16. CASE Abandon(x, c)
    <2>1. Unmasking'
      BY <1>16, <1>a, <1>b, <1>c, <1>d DEF Abandon, Unmasking, MaskRestored
    <2>2. MaskRestored'
      BY <1>16, <1>a, <1>b, <1>c, <1>d DEF Abandon, Unmasking, MaskRestored
    <2> QED
      BY <2>1, <2>2
  <1>17. CASE Suspend(x, c)
    <2>1. Unmasking'
      BY <1>17, <1>a, <1>b, <1>c, <1>d DEF Suspend, LockIsMine, Unmasking, MaskRestored
    <2>2. MaskRestored'
      BY <1>17, <1>a, <1>b, <1>c, <1>d DEF Suspend, LockIsMine, Unmasking, MaskRestored
    <2> QED
      BY <2>1, <2>2
  <1>18. CASE Give(x, c)
    <2>1. Unmasking'
      BY <1>18, <1>a, <1>b, <1>c, <1>d DEF Give, Unmasking, MaskRestored
    <2>2. MaskRestored'
      BY <1>18, <1>a, <1>b, <1>c, <1>d DEF Give, Unmasking, MaskRestored
    <2> QED
      BY <2>1, <2>2
  <1>19. CASE ClearWord(x, c)
    <2>1. Unmasking'
      BY <1>19, <1>a, <1>b, <1>c, <1>d DEF ClearWord, Unmasking, MaskRestored
    <2>2. MaskRestored'
      BY <1>19, <1>a, <1>b, <1>c, <1>d DEF ClearWord, Unmasking, MaskRestored
    <2> QED
      BY <2>1, <2>2
  <1>20. CASE FinishLeave(x, c)
    <2>1. Unmasking'
      BY <1>20, <1>a, <1>b, <1>c, <1>d DEF FinishLeave, Unmasking, MaskRestored
    <2>2. MaskRestored'
      BY <1>20, <1>a, <1>b, <1>c, <1>d DEF FinishLeave, Unmasking, MaskRestored
    <2> QED
      BY <2>1, <2>2
  <1>21. CASE FinishAbandon(x, c)
    <2>1. Unmasking'
      BY <1>21, <1>a, <1>b, <1>c, <1>d DEF FinishAbandon, NoFrame, NoFrames, Unmasking,
         MaskRestored
    <2>2. MaskRestored'
      BY <1>21, <1>a, <1>b, <1>c, <1>d DEF FinishAbandon, NoFrame, NoFrames, Unmasking,
         MaskRestored
    <2> QED
      BY <2>1, <2>2
  <1>22. CASE FinishSuspend(x, c)
    <2>1. Unmasking'
      BY <1>22, <1>a, <1>b, <1>c, <1>d DEF FinishSuspend, Unmasking, MaskRestored
    <2>2. MaskRestored'
      BY <1>22, <1>a, <1>b, <1>c, <1>d DEF FinishSuspend, Unmasking, MaskRestored
    <2> QED
      BY <2>1, <2>2
  <1>23. CASE Resume(x, c)
    <2>1. Unmasking'
      BY <1>23, <1>a, <1>b, <1>c, <1>d DEF Resume, Unmasking, MaskRestored
    <2>2. MaskRestored'
      BY <1>23, <1>a, <1>b, <1>c, <1>d DEF Resume, Unmasking, MaskRestored
    <2> QED
      BY <2>1, <2>2
  <1>24. CASE EndSection(x, c)
    <2>1. Unmasking'
      BY <1>24, <1>a, <1>b, <1>c, <1>d DEF EndSection, NoFrame, Unmasking, MaskRestored
    <2>2. MaskRestored'
      BY <1>24, <1>a, <1>b, <1>c, <1>d DEF EndSection, NoFrame, Unmasking, MaskRestored
    <2> QED
      BY <2>1, <2>2
  <1> QED
    BY <1>1, <1>2, <1>3, <1>4, <1>5, <1>6, <1>7, <1>8, <1>9, <1>10, <1>11, <1>12, <1>13,
       <1>14, <1>15, <1>16, <1>17, <1>18, <1>19, <1>20, <1>21, <1>22, <1>23, <1>24 DEF
       Step

\* The surroundings keep it: a task is restarted when no processor runs it, and
\* only a processor with its interrupts enabled changes contexts.
LEMMA UnmaskingOther ==
  ASSUME IInv, Unmasking, MaskRestored,
         \/ \E x \in Ctx, y \in Task : Kill(x, y)
         \/ \E x \in Task : Restart(x)
         \/ \E c \in Core, y \in Ctx \cup {NoCtx} : Dispatch(c, y)
         \/ UNCHANGED vars
  PROVE  (Unmasking /\ MaskRestored)'
  <1> USE CoreAssumption, CtxAssumption, NestAssumption
      DEF At, Goto, lock, ctx, Level, Owns, TypeOK
  <1>1. ASSUME NEW x \in Ctx, NEW y \in Task, Kill(x, y)
        PROVE  (Unmasking /\ MaskRestored)'
    BY <1>1 DEF Kill, Unmasking, MaskRestored
  <1>2. ASSUME NEW x \in Task, Restart(x)
        PROVE  (Unmasking /\ MaskRestored)'
    <2>1. x \in Ctx /\ TypeOK
      BY DEF Ctx, IInv
    <2>2. MaskRestored'
      BY <1>2, <2>1 DEF Restart, MaskRestored
    <2>3. Unmasking'
      BY <1>2, <2>1 DEF Restart, Unmasking, NoLocals, NoFrame, NoFrames
    <2> QED
      BY <2>2, <2>3
  <1>3. ASSUME NEW c \in Core, NEW y \in Ctx \cup {NoCtx}, Dispatch(c, y)
        PROVE  (Unmasking /\ MaskRestored)'
    <2>1. TypeOK
      BY DEF IInv
    <2>2. MaskRestored'
      BY <1>3, <2>1 DEF Dispatch, MaskRestored
    <2>3. ~Pinned(y) \/ y = NoCtx
      BY <1>3 DEF Dispatch, IInv, Masking
    <2>4. Unmasking'
      <3> SUFFICES ASSUME NEW d \in Core, NEW x \in Ctx, running'[d] = x, frame[x][1].raw,
                          d = c, y = x
                   PROVE  /\ Owns(x) => ~keep[d]
                          /\ pc[x] \in {"self", "mask", "end"} /\ nest[x] = 1
                                => ~primask[d]
        BY <1>3, <2>1 DEF Dispatch, Unmasking
      <3>1. ~Pinned(x) /\ resume[x] = 0 /\ nest[x] \in Nat
        BY <2>1, <2>3 DEF IInv, Nesting
      <3>2. ~Owns(x)
        BY <3>1 DEF Pinned, Covered
      <3> QED
        BY <1>3, <3>2 DEF Dispatch
    <2> QED
      BY <2>2, <2>4
  <1>4. ASSUME UNCHANGED vars
        PROVE  (Unmasking /\ MaskRestored)'
    BY <1>4 DEF vars, Unmasking, MaskRestored
  <1> QED
    BY <1>1, <1>2, <1>3, <1>4

-----------------------------------------------------------------------------
(***************************************************************************)
(* The theorems.                                                           *)
(***************************************************************************)
\* Every variable keeps its type, however the lock is entered; in particular no
\* recursion depth underflows and no section is closed that was not opened.
THEOREM TypeCorrect == Spec => []TypeOK
  <1>1. Init => TypeOK /\ Opened
    BY TypeInit
  <1>2. (TypeOK /\ Opened) /\ [Next]_vars => (TypeOK /\ Opened)'
    BY TypeNext
  <1> QED
    BY <1>1, <1>2, PTL DEF Spec

\* The inductive invariant holds when no task both migrates and enters with its
\* interrupts enabled.
THEOREM Invariance == SafeEntry => (Spec => []IInv)
  <1> SUFFICES ASSUME SafeEntry PROVE Spec => []IInv
    OBVIOUS
  <1>1. Init => IInv
    BY InductiveInit
  <1>2. IInv /\ [Next]_vars => IInv'
    BY Inductive
  <1> QED
    BY <1>1, <1>2, PTL DEF Spec

\* Two holders of the lock are one context, because the word names the one core
\* that runs it.
LEMMA HolderIsUnique == IInv => MutualExclusion
  <1> SUFFICES ASSUME IInv, NEW x \in Ctx, NEW y \in Ctx, At(x, "in"), At(y, "in")
               PROVE  x = y
    BY DEF MutualExclusion
  <1>1. PICK c \in Core : running[c] = x
    BY DEF IInv, Masking, Pinned, At
  <1>2. PICK d \in Core : running[d] = y
    BY DEF IInv, Masking, Pinned, At
  <1>3. word = c /\ word = d
    BY <1>1, <1>2, CoreAssumption DEF IInv, WordHeld, Holds, At
  <1> QED
    BY <1>1, <1>2, <1>3

\* smp_lock.c gives mutual exclusion between all contexts of all processors.
THEOREM Exclusion == SafeEntry => (Spec => []MutualExclusion)
  <1> SUFFICES ASSUME SafeEntry PROVE Spec => []MutualExclusion
    OBVIOUS
  <1> QED
    BY Invariance, HolderIsUnique, PTL

\* The recursion depth of the owning core is the number of open sections.
THEOREM DepthCorrect == SafeEntry => (Spec => []DepthMatchesNesting)
  <1> SUFFICES ASSUME SafeEntry PROVE Spec => []DepthMatchesNesting
    OBVIOUS
  <1>1. IInv => DepthMatchesNesting
    BY CoreAssumption
       DEF IInv, WordHeld, Depth, DepthMatchesNesting, Holds, Level, At
  <1> QED
    BY <1>1, Invariance, PTL

\* Interrupts stay masked for as long as a core owns the word or the spinlock.
THEOREM MaskCorrect == SafeEntry => (Spec => []MaskedWhileHeld)
  <1> SUFFICES ASSUME SafeEntry PROVE Spec => []MaskedWhileHeld
    OBVIOUS
  <1>1. IInv => MaskedWhileHeld
    <2> SUFFICES ASSUME IInv, NEW c \in Core, word = c \/ hw = c
                 PROVE  primask[c]
      BY DEF MaskedWhileHeld
    <2>1. running[c] \in Ctx /\ (Holds(running[c]) \/ Claims(running[c]))
      BY DEF IInv, WordHeld, SpinlockHeld, TypeOK
    <2>2. Pinned(running[c])
      BY <2>1 DEF IInv, TypeOK, Nesting, Holds, Claims, Pinned, Covered, Level
    <2>3. PICK d \in Core : running[d] = running[c] /\ primask[d]
      BY <2>1, <2>2 DEF IInv, Masking
    <2> QED
      BY <2>1, <2>3, CoreAssumption DEF IInv, Placement
  <1> QED
    BY <1>1, Invariance, PTL

\* No leave(), suspend() or resume() is refused.
THEOREM LegalUse == SafeEntry => (Spec => []NoIllegalUse)
  <1> SUFFICES ASSUME SafeEntry PROVE Spec => []NoIllegalUse
    OBVIOUS
  <1>1. IInv => NoIllegalUse
    BY DEF IInv
  <1> QED
    BY <1>1, Invariance, PTL

\* A processor that is back outside the kernel has its interrupts enabled again,
\* through whichever of leave(), abandon(), suspend() and resume() it came.
THEOREM MaskReturned == SafeEntry => (Spec => []MaskRestored)
  <1> SUFFICES ASSUME SafeEntry PROVE Spec => []MaskRestored
    OBVIOUS
  <1>1. Init => Unmasking /\ MaskRestored
    BY DEF Init, Unmasking, MaskRestored, NoFrame, NoFrames, Owns
  <1>2. IInv /\ Unmasking /\ MaskRestored /\ [Next]_vars => (Unmasking /\ MaskRestored)'
    BY UnmaskingStep, UnmaskingOther DEF Next, Step
  <1> QED
    BY <1>1, <1>2, Invariance, PTL DEF Spec

\* The step in which a context gets "in" from outside names the context: it is not
\* a task that was killed in its outermost section.
LEMMA DeadStays ==
  ASSUME IInv, NEW x \in killed, [Next]_vars,
         nest[x] = 1, resume[x] = 0, pc[x] # "in"
  PROVE  pc'[x] # "in"
  <1> USE DEF At, Goto, TypeOK
  <1>0. TypeOK /\ x \in Ctx /\ x \in Task
    BY DEF IInv, Ctx
  <1>1. ASSUME NEW y \in Ctx, NEW c \in Core, Step(y, c), pc'[x] = "in"
        PROVE  FALSE
    <2>1. y = x /\ running[c] = x
      BY <1>0, <1>1
         DEF Step, BeginCriticalSection, DisableInterrupt, Open, ReadSelf, MaskInterrupts,
             Reenter, NotOurs, Spin, Claim, Recheck, SetWord, FreeSpinlock, Acquired,
             CaughtDead, Entered, Leave, Abandon, Suspend, Give, ClearWord, FinishLeave,
             FinishAbandon, FinishSuspend, Resume, EndSection
    <2>2. Reenter(x, c) \/ Entered(x, c) \/ Resume(x, c) \/ EndSection(x, c)
      BY <1>0, <1>1, <2>1
         DEF Step, BeginCriticalSection, DisableInterrupt, Open, ReadSelf, MaskInterrupts,
             NotOurs, Spin, Claim, Recheck, SetWord, FreeSpinlock, Acquired,
             CaughtDead, Leave, Abandon, Suspend, Give, ClearWord, FinishLeave,
             FinishAbandon, FinishSuspend
    <2>3. pc[x] \in {"test", "alive"} => self[x] = c
      BY <1>0, <2>1, CoreAssumption, CtxAssumption
         DEF IInv, Latching, Placement, Latched, Pinned
    <2>4. CASE Reenter(x, c)
      <3>1. Holds(x)
        BY <1>0, <2>1, <2>3, <2>4, CoreAssumption, CtxAssumption
           DEF Reenter, IInv, WordHeld
      <3> QED
        BY <2>4, <3>1 DEF Reenter, Holds, Level
    <2>5. CASE Entered(x, c)
      BY <1>0, <2>1, <2>3, <2>5 DEF Entered, TaskPart
    <2>6. CASE Resume(x, c)
      BY <1>0, <2>6 DEF Resume, IInv, Nesting
    <2>7. CASE EndSection(x, c)
      BY <1>0, <1>1, <2>7 DEF EndSection
    <2> QED
      BY <2>2, <2>4, <2>5, <2>6, <2>7
  <1>2. ASSUME NEW z \in Ctx, NEW y \in Task, Kill(z, y)
        PROVE  pc'[x] # "in"
    BY <1>2 DEF Kill
  <1>3. ASSUME NEW z \in Task, Restart(z)
        PROVE  pc'[x] # "in"
    BY <1>0, <1>3 DEF Restart
  <1>4. ASSUME NEW c \in Core, NEW y \in Ctx \cup {NoCtx}, Dispatch(c, y)
        PROVE  pc'[x] # "in"
    BY <1>4 DEF Dispatch
  <1>5. CASE UNCHANGED vars
    BY <1>5 DEF vars
  <1> QED
    BY <1>1, <1>2, <1>3, <1>4, <1>5 DEF Next

\* A task terminated while it waits for the lock is thrown out by the check in
\* enter() and never gets into its outermost section.
THEOREM DeadStopped == SafeEntry => (Spec => DeadNeverEnters)
  <1> SUFFICES ASSUME SafeEntry PROVE Spec => DeadNeverEnters
    OBVIOUS
  <1>1. IInv /\ [Next]_vars =>
          [\A x \in killed :
             (nest[x] = 1 /\ resume[x] = 0 /\ pc[x] # "in" => pc'[x] # "in")]_vars
    BY DeadStays
  <1> QED
    BY <1>1, Invariance, PTL DEF Spec, DeadNeverEnters

=============================================================================
