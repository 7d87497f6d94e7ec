----------------------------- MODULE MCRetention -----------------------------
(***************************************************************************)
(* Instances of Retention for TLC.                                         *)
(***************************************************************************)
EXTENDS Retention, TLC

CONSTANTS k1, k2

TwoKeys == {k1, k2}
OneKey  == {k1}
=============================================================================
