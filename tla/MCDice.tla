------------------------------- MODULE MCDice -------------------------------
(* Dice on small instances. *)
EXTENDS Dice

\* The comment in roll.go on dice and bytes.
ASSUME EvenBytes == Even
=============================================================================
