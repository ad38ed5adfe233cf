------------------------------- MODULE MCReapply -------------------------------
(* Reapply with four indices, one of them outside --target, two policies and  *)
(* two moves of other tools; the configuration gives the constants.           *)
EXTENDS Reapply
=============================================================================
