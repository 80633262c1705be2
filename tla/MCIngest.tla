----------------------------- MODULE MCIngest ------------------------------
(* Ingest on a small instance. *)
EXTENDS Ingest, TLC

CONSTANTS e1, e2, e3, e4

MCThree == {e1, e2, e3}
MCFour == {e1, e2, e3, e4}

\* Safety does not tell events apart.
Symmetry == Permutations(Payloads)
=============================================================================
