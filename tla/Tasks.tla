-------------------------------- MODULE Tasks --------------------------------
(***************************************************************************)
(* The tasks, for the modules whose parts of the system share them.        *)
(***************************************************************************)
CONSTANTS
    Task,
    None   \* no task, no descriptor
=============================================================================
