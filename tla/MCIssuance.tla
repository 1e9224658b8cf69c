----------------------------- MODULE MCIssuance -----------------------------
(* One request, two workers, a renderer that always produces the same        *)
(* document, and a signer that may also sign the wrong one.                  *)
EXTENDS Issuance, TLC

CONSTANTS r1, w1, w2, pdf, wrong, none

MCRequests == {r1}
MCWorkers == {w1, w2}
MCRenders == {pdf}
MCOther == {wrong}
MCSymmetry == Permutations(MCWorkers)
=============================================================================
