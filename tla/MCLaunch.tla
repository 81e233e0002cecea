------------------------------ MODULE MCLaunch ------------------------------
(***************************************************************************)
(* The life of an inferior, for the model checker.                         *)
(***************************************************************************)
EXTENDS Launch
=============================================================================
