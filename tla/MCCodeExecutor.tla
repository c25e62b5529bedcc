--------------------------- MODULE MCCodeExecutor ---------------------------
(* Small instances of CodeExecutor for TLC. *)
EXTENDS CodeExecutor, TLC

CONSTANTS e1, e2, k1, k2

Interchangeable == Permutations({e1, e2}) \cup Permutations({k1, k2})
=============================================================================
