---------------------------- MODULE MCDeviceIO ----------------------------
EXTENDS DeviceIO, TLC

CONSTANTS t1, t2, t3

MCTask == {t1, t2, t3}
TwoTasks == {t1, t2}
ReadWrite == {{"read", "write"}}
Symmetry == Permutations(Task)
=============================================================================
