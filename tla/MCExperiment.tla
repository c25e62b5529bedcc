---------------------------- MODULE MCExperiment ----------------------------
(* Small instances of Experiment for TLC. *)
EXTENDS Experiment

CONSTANTS q1, q2, q3
=============================================================================
