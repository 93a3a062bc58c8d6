----------------------------- MODULE MCObservers -----------------------------
(* Instances of Observers for TLC.                                            *)
EXTENDS Observers

CONSTANTS c1, c2, n1, n2
=============================================================================
