------------------------------ MODULE MCMemory ------------------------------
(***************************************************************************)
(* Two pages of three bytes and words of two: a word may cross from one    *)
(* page to the other, or from the last one into nothing.                   *)
(***************************************************************************)
EXTENDS Memory

CONSTANT B    \* a byte of the program, or of the user
=============================================================================
