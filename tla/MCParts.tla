------------------------------ MODULE MCParts ------------------------------
(***************************************************************************)
(* Six parts of the system, each by itself: the choice of the tasks that   *)
(* the processors execute (module MCReadyQueue), three tasks and two       *)
(* mutexes (module Mutex), a cyclic and an alarm handler (module           *)
(* TimeEvents), three tasks and two object locks (module ObjLock), three   *)
(* tasks of one processor that use a multi-lock (module FastMLock), and    *)
(* three tasks that use a device (module DeviceIO).  The parts that are    *)
(* not the one considered do nothing.                                      *)
(***************************************************************************)
EXTENDS ObjLock, TimeEvents, FastMLock, DeviceIO, TLC

CONSTANTS
    Part,                                 \* the parts considered
    t1, t2, t3, t4, NoTask,               \* MCReadyQueue
    u1, u2, u3, h1, h2,                   \* tasks, handlers
    MaxMutex, Attribute, Ceiling, InOrder \* Mutex

VARIABLES
    part,
    ready, holder, ctx, sch, dis, online, sel, done,
    mtxatr, ceilpri, mtxtsk, wait, mtxlist, mpri, base, mstat, wid

chovars == <<ready, holder, ctx, sch, dis, online, sel, done>>
mtxvars == <<mtxatr, ceilpri, mtxtsk, wait, mtxlist, mpri, base, mstat, wid>>
vars    == <<part, chovars, mtxvars, timevars, objlvars, mlockvars, devvars>>

Cho == INSTANCE MCReadyQueue WITH
         Task <- {t1, t2, t3, t4},
         Affinity <- [t \in {t1, t2, t3, t4} |->
                        IF t = t3 THEN {0} ELSE IF t = t4 THEN {1} ELSE {0, 1}],
         rq <- ready, klocked <- holder
Mtx == INSTANCE Mutex WITH MaxPri <- MaxPri + 1, pri <- mpri, tstat <- mstat

\* The tasks that use the multi-lock, and the modes of opening a device.
OneCore == [t \in Task |-> {0}]
Modes   == {{"read", "write"}, {"read", "wexcl"}}

ASSUME PartsAssumption ==
    /\ Part \subseteq {"choice", "mutex", "time", "lock", "mlock", "device"}
    /\ Mtx!MutexAssumption
    /\ LockAssumption

\* No task, on no processor.
NoChoice ==
    /\ ready = << >> /\ holder = [t \in {t1, t2, t3, t4} |-> FALSE]
    /\ ctx = [c \in {0, 1} |-> NoTask] /\ sch = ctx /\ sel = ctx
    /\ dis = [c \in {0, 1} |-> 0] /\ online = {} /\ done = FALSE

Init ==
    /\ part \in Part
    /\ IF part = "choice" THEN Cho!InitChoice ELSE NoChoice
    /\ Mtx!Init
    /\ TimeInit
    /\ LockInit
    /\ MLockInit
    /\ DevInit

Next ==
    /\ UNCHANGED part
    /\ \/ /\ part = "choice" /\ Cho!Reschedule
          /\ UNCHANGED <<mtxvars, timevars, objlvars, mlockvars, devvars>>
       \/ /\ part = "mutex" /\ Mtx!Next
          /\ UNCHANGED <<chovars, timevars, objlvars, mlockvars, devvars>>
       \/ /\ part = "time" /\ TimeNext
          /\ UNCHANGED <<chovars, mtxvars, objlvars, mlockvars, devvars>>
       \/ /\ part = "lock" /\ LockNext
          /\ UNCHANGED <<chovars, mtxvars, timevars, mlockvars, devvars>>
       \/ /\ part = "mlock" /\ MLockNext
          /\ UNCHANGED <<chovars, mtxvars, timevars, objlvars, devvars>>
       \/ /\ part = "device" /\ DevNext
          /\ UNCHANGED <<chovars, mtxvars, timevars, objlvars, mlockvars>>

Spec == Init /\ [][Next]_vars

\* Nothing in the code or the properties tells two tasks apart.
Symmetry == Permutations({u1, u2, u3})

-----------------------------------------------------------------------------
\* The shape of the state of the mutexes, the time events, the locks and the
\* device.
TypeOK == Mtx!TypeOK /\ TimeTypeOK /\ LockTypeOK /\ DevTypeOK

\* The choice of knl_ready_queue_assign(): the property that module MCReadyQueue
\* states.
BestChoice == Cho!BestChoice

\* Who holds and who waits, and the priorities that follow from it: the
\* properties of mutex.c that module Mutex states.
HoldersConsistent == Mtx!HoldersConsistent
PriorityIsDue     == Mtx!PriorityIsDue
=============================================================================
