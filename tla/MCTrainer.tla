------------------------------ MODULE MCTrainer ------------------------------
(* Small instances of Trainer for TLC. *)
EXTENDS Trainer
=============================================================================
