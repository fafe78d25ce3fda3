------------------------------ MODULE MCCores ------------------------------
(***************************************************************************)
(* What the two processors share in hardware, each part by itself: the     *)
(* kernel lock, its word and its spinlock (module MCKernelLock), and the   *)
(* pending masks and FIFOs of the inter-processor interrupts (module Ipi). *)
(* The part that is not the one considered stays as it starts: no context  *)
(* runs, or nothing has been sent, and its fairness asks for no step.      *)
(***************************************************************************)
EXTENDS MCKernelLock, Ipi

VARIABLE part  \* the part considered

corevars == <<part, vars, ipivars>>

CoresInit == part \in {"lock", "ipi"} /\ Init /\ IpiInit

CoresNext ==
    /\ UNCHANGED part
    /\ \/ part = "lock" /\ BoundedNext /\ UNCHANGED ipivars
       \/ part = "ipi" /\ IpiNext /\ UNCHANGED vars

CoresSpec == CoresInit /\ [][CoresNext]_corevars /\ Fairness /\ IpiFairness
=============================================================================
