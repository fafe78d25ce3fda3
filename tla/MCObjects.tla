----------------------------- MODULE MCObjects -----------------------------
(* Three tasks and two priorities on one object of each kind.              *)
EXTENDS Objects

CONSTANTS t1, t2, t3, m1, m2, b0, b1

MCTask == {t1, t2, t3}
MCPri == {1, 2}
MCQueue == {"wait", "send", "recv"}
MCKind == {"sem", "flg", "mbx", "mbf", "mpl", "mpf"}
MCMsg == {m1, m2}
MCMsgPri == (m1 :> 1) @@ (m2 :> 2)
\* A message that fits a unit, and one that takes two.
MCMsgSz == (m1 :> 1) @@ (m2 :> 3)
MCBit == {b0, b1}
MCMode == {[orw |-> FALSE, clr |-> "bits"], [orw |-> TRUE, clr |-> "all"]}

\* Nothing in the code or the properties tells two tasks apart.
Symmetry == Permutations(MCTask)
=============================================================================
