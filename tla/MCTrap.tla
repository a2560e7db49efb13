------------------------------- MODULE MCTrap -------------------------------
(***************************************************************************)
(* Trap for exceptions with and without an error code, the timer and the   *)
(* shootdown vector, nested up to three deep.                              *)
(***************************************************************************)
EXTENDS Trap

SomeVectors == {0, 6, 8, 13, 14, 17, 32, 224, 225}
=============================================================================
