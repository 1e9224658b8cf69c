---------------------------- MODULE MCOfflineSync ----------------------------
(* Two queued operations, two report contents, one evidence file.           *)
EXTENDS OfflineSync, TLC

CONSTANTS o1, o2, c1, c2

MCOps == {o1, o2}
MCContents == {c1, c2}

MCWithEvidence == {o1}

\* Contents are interchangeable: no action or invariant names one.
Symmetry == Permutations(MCContents)
=============================================================================
