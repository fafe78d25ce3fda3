----------------------------- MODULE MCSmpSched -----------------------------
(***************************************************************************)
(* Up to three tasks: a and the initial task i may execute on either       *)
(* processor; b, more urgent than they are, is pinned to processor 0.      *)
(* Each model restricts the system calls its tasks and handlers make.      *)
(***************************************************************************)
EXTENDS SmpSched

CONSTANTS a, b, i

Migrating  == [t \in Task |-> IF t = b THEN {0} ELSE Core]
Priorities == [t \in Task |-> IF t = b THEN 1 ELSE 2]

Calling(tasks, task, handler) == [tasks |-> tasks, task |-> task, handler |-> handler]

Exit == Calling({a, b, i}, {"cre", "del", "sta", "ext"}, {})
Kill == Calling({a, b, i}, {"cre", "del", "sta", "ter"}, {})
Life == Calling({a, i}, {"cre", "del", "sta", "ext", "ter"}, {})
Sync == Calling({a, i}, {"cre", "sta", "slp", "rel", "sus", "rsm", "wup"}, {})
Ends == Calling({a, i}, {"cre", "sta", "exd", "sus", "none"}, {})
Wake == Calling({a, i}, {"cre", "sta", "wup", "can", "chg"}, {})
Irq  == Calling({b, i}, {"cre", "sta", "dly", "dsp"}, {"rel", "rot"})

AllPrograms      == {Exit, Kill, Life, Sync, Ends, Wake, Irq}
LivePrograms     == {Calling({a, b, i}, {"cre", "sta", "ter", "rot"}, {})}
TwoCoresPrograms == {Calling({a, b, i}, {"cre", "sta", "slp", "wup", "rot"}, {})}
ReservedPrograms == {Kill}
DisabledPrograms == {Calling({a, b, i}, {"cre", "sta", "dsp"}, {})}
=============================================================================
