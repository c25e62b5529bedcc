---------------------------- MODULE MCRewardBatch ----------------------------
(* Small instances of RewardBatch for TLC. *)
EXTENDS RewardBatch

Of(valid, submitted, claims, truth, process, steps) ==
  [valid |-> valid, submitted |-> submitted, claims |-> claims, truth |-> truth,
   process |-> process, steps |-> steps]

\* Samples that are judged with and without steps, one that was cut off, one that used up its
\* turns, an empty submission, and one whose question has no reference answer.
MCKinds ==
  {Of(TRUE, TRUE, TRUE, TRUE, 0, <<TRUE>>), Of(TRUE, TRUE, TRUE, TRUE, 100, <<FALSE, TRUE>>),
   Of(FALSE, TRUE, TRUE, TRUE, 100, <<TRUE>>), Of(TRUE, FALSE, FALSE, TRUE, 100, <<TRUE, TRUE>>),
   Of(TRUE, TRUE, FALSE, TRUE, 100, <<>>), Of(TRUE, TRUE, TRUE, FALSE, 50, <<>>)}
\* run_rl.sh and the defaults of the manager, in hundredths.
MCPenalty == -100
MCClipMin == -30
=============================================================================
