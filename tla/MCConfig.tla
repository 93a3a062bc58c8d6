------------------------------ MODULE MCConfig ------------------------------
(* Instances of ConfigFile for TLC.                                           *)
EXTENDS ConfigFile

CONSTANTS s1, s2, r1
=============================================================================
