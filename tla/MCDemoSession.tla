---------------------------- MODULE MCDemoSession ----------------------------
(* Small instances of DemoSession for TLC. *)
EXTENDS DemoSession

CONSTANTS h1, h2
=============================================================================
