--------------------------- MODULE MCCommandKernel ---------------------------
(* One case with its hold, a collection, and two principals who may send the *)
(* same key again with the same or another body.                             *)
EXTENDS CommandKernel, TLC

CONSTANTS p1, p2, b1, b2, k1, case, itsHold, created

MCEntity == [a \in {case, itsHold} |-> case]
Symmetric == Permutations({p1, p2}) \cup Permutations({b1, b2})
=============================================================================
