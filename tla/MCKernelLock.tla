---------------------------- MODULE MCKernelLock ----------------------------
(***************************************************************************)
(* Two processors.  In OneMigrating the task t1 may run on both and enters *)
(* by BEGIN_CRITICAL_SECTION only, t2 is bound to one processor and also   *)
(* enters by DISABLE_INTERRUPT, and the other processor has a handler.     *)
(* AllMigrating, with every task calling DISABLE_INTERRUPT, is the         *)
(* combination the code does not exclude.  Bound: a handler opens no more  *)
(* than HandlerNest sections inside one another.                           *)
(***************************************************************************)
EXTENDS KernelLock

CONSTANTS
    c0, c1, t1, t2, h,
    HandlerNest

Cores      == {c0, c1}
Tasks      == {t1, t2}
PinnedOnly == {t2}
Handlers   == {h}
NoHandlers == {}

OneMigrating == [x \in Ctx |-> IF x = t1 THEN Cores ELSE IF x = t2 THEN {c1} ELSE {c0}]
AllMigrating == [x \in Ctx |-> Cores]

BoundedNext == Next /\ \A x \in Handler : nest'[x] <= HandlerNest
=============================================================================
