----------------------------- MODULE MCRollout -----------------------------
(* A batch of two requests. *)
EXTENDS Rollout

CONSTANTS r1, r2
=============================================================================
