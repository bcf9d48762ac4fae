------------------------------ MODULE MCIntake ------------------------------
(* Small instance of Intake. *)
EXTENDS Intake

CONSTANTS a, b
=============================================================================
