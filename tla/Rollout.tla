------------------------------ MODULE Rollout ------------------------------
(***************************************************************************)
(* The VeriGraph branch of the RL rollout: sglang_rollout.py runs the      *)
(* requests of a batch as coroutines of one event loop.  Each generates    *)
(* turns with the shared engine, executes the code of a turn in a sandbox  *)
(* of its own (a CodeExecutor), and returns a trajectory with a verdict    *)
(* that decides whether the trainer learns from it.                        *)
(*                                                                         *)
(* A coroutine runs without interruption from one await to the next: the   *)
(* awaits are the engine call, the execution of code, and aclose().  How   *)
(* long a conversation is and what the clock says are data: each test of   *)
(* max_model_len or of a time limit may go either way.                     *)
(***************************************************************************)
EXTENDS Naturals

CONSTANTS Requests,    \* the requests of a batch
          MaxTurns,    \* config.multi_turn.max_turns
          MaxBatches   \* bound: calls of generate_sequences

ASSUME BoundsAssumption == MaxTurns \in Nat /\ MaxBatches \in Nat \ {0}

VARIABLES
  mode,       \* none (between batches), train, validate, failed (a request raised)
  batches,    \* number of batches started
  pc,         \* what each request awaits
  turns,      \* current_turns
  calls,      \* tool_stats.total_calls
  submitted,  \* trajectory_info.submitted_answer_present
  valid,      \* is_valid_trajectory
  reason,     \* trajectory_info.termination_reason
  ended,      \* what in fact ended the loop; no variable of the code, and no action reads it
  runtime,    \* its VeriGraphTrajectoryRuntime
  params,     \* self.sampling_params, shared by all requests
  saved       \* old_sampling_params_args of the request's with block

trajectory == <<turns, calls, submitted, valid, reason, ended>>
sampling   == <<params, saved>>
vars       == <<mode, batches, pc, trajectory, runtime, sampling>>

-----------------------------------------------------------------------------
(* "temperature" stands for the parameters a validation overrides.           *)

Keys     == {"temperature", "max_new_tokens"}
Original == [k \in Keys |-> "config"]
Values   == {"config", "validation"} \cup Requests

\* NEGATIVE_TERMINATION_REASONS_FOR_TRAINING: the trainer learns from these.
NegativeReasons == {"missing_submit", "max_turns", "generation_length"}
OtherReasons == {"max_model_len", "trajectory_timeout", "generation_timeout",
                 "runtime_init_failed"}
Reasons == {"none", "submitted_answer"} \cup NegativeReasons \cup OtherReasons

\* What the model brings about: a submission, a text without code, one turn too many, a turn that
\* does not end within its tokens (at most per_turn_max_new_tokens) or within what its context
\* has left for it ("full").
ModelEnds == {"submission", "plain", "turns", "tokens", "full"}

\* What befalls it: a prompt or an observation that does not fit, a limit of time, the engine, the
\* sandbox.
OtherEnds == {"context", "clock", "engine", "sandbox"}

Active == mode \in {"train", "validate"}

TypeOK ==
  /\ mode \in {"none", "train", "validate", "failed"}
  /\ batches \in Nat
  /\ pc \in [Requests -> {"new", "engine", "tool", "closing", "raising", "returned"}]
  /\ turns \in [Requests -> 0..MaxTurns]
  /\ calls \in [Requests -> 0..MaxTurns]
  /\ submitted \in [Requests -> BOOLEAN]
  /\ valid \in [Requests -> BOOLEAN]
  /\ reason \in [Requests -> Reasons]
  /\ ended \in [Requests -> {"nothing"} \cup ModelEnds \cup OtherEnds]
  /\ runtime \in [Requests -> {"none", "open", "closed"}]
  /\ params \in [Keys -> Values]
  /\ saved \in [Requests -> [Keys -> Values]]

Init ==
  /\ mode = "none" /\ batches = 0
  /\ pc = [r \in Requests |-> "returned"]
  /\ turns = [r \in Requests |-> 0] /\ calls = [r \in Requests |-> 0]
  /\ submitted = [r \in Requests |-> FALSE] /\ valid = [r \in Requests |-> FALSE]
  /\ reason = [r \in Requests |-> "runtime_init_failed"]
  /\ ended = [r \in Requests |-> "sandbox"]
  /\ runtime = [r \in Requests |-> "none"]
  /\ params = Original /\ saved = [r \in Requests |-> Original]

-----------------------------------------------------------------------------
(* update_sampling_params()                                                *)

Overridden == IF mode = "validate" THEN Keys ELSE {"max_new_tokens"}

EnterBlock(r) ==
  /\ saved' = [saved EXCEPT ![r] = params]
  /\ params' = [k \in Keys |-> IF k \notin Overridden THEN params[k]
                               ELSE IF k = "temperature" THEN "validation" ELSE r]

LeaveBlock(r) ==
  /\ params' = [k \in Keys |-> IF k \in Overridden THEN saved[r][k] ELSE params[k]]
  /\ UNCHANGED saved

-----------------------------------------------------------------------------
(* The loop of _async_rollout_a_request_verigraph()                        *)

\* Mutation: the reason is replaced whenever the turns are used up.
EndOverwrites(r, why, t, sub) ==
  LET exhausted == t >= MaxTurns /\ ~sub IN
  /\ reason' = [reason EXCEPT ![r] = IF exhausted THEN "max_turns" ELSE why]
  /\ valid' = [valid EXCEPT ![r] = why \in {"none", "submitted_answer"} /\ ~exhausted]
  /\ pc' = [pc EXCEPT ![r] = "closing"]

\* Mutation: nothing is said of the turns after the loop.
EndKeepsVerdict(r, why, t, sub) ==
  /\ t \in Nat /\ sub \in BOOLEAN
  /\ reason' = [reason EXCEPT ![r] = IF why = "none" THEN "max_turns" ELSE why]
  /\ valid' = [valid EXCEPT ![r] = why \in {"none", "submitted_answer"}]
  /\ pc' = [pc EXCEPT ![r] = "closing"]

\* The way out of the loop after t turns, for the reason why ("none" when its condition failed).
End(r, why, t, sub) ==
  LET exhausted == t >= MaxTurns /\ ~sub IN
  /\ reason' = [reason EXCEPT ![r] = IF exhausted /\ why = "none" THEN "max_turns" ELSE why]
  /\ valid' = [valid EXCEPT ![r] = why \in {"none", "submitted_answer"} /\ ~exhausted]
  /\ pc' = [pc EXCEPT ![r] = "closing"]

EndedBy(r, what) == ended' = [ended EXCEPT ![r] = what]

\* Mutation: the turns are compared with <=.
HeadOneMore(r) ==
  \/ /\ turns[r] > MaxTurns
     /\ End(r, "none", turns[r], FALSE) /\ EndedBy(r, "turns")
     /\ UNCHANGED sampling
  \/ /\ turns[r] <= MaxTurns
     /\ EnterBlock(r)
     /\ pc' = [pc EXCEPT ![r] = "engine"]
     /\ UNCHANGED <<reason, valid, ended>>

\* From the head of the loop, in state RUNNING, to the next await.
Head(r) ==
  \/ /\ \/ turns[r] >= MaxTurns /\ End(r, "none", turns[r], FALSE) /\ EndedBy(r, "turns")
        \/ /\ turns[r] < MaxTurns
           /\ \/ End(r, "trajectory_timeout", turns[r], FALSE) /\ EndedBy(r, "clock")
              \/ End(r, "max_model_len", turns[r], FALSE) /\ EndedBy(r, "context")
     /\ UNCHANGED sampling
  \/ /\ turns[r] < MaxTurns
     /\ EnterBlock(r)
     /\ pc' = [pc EXCEPT ![r] = "engine"]
     /\ UNCHANGED <<reason, valid, ended>>

\* The coroutine starts; a runtime that cannot be built ends it at once.
Begin(r) ==
  /\ Active /\ pc[r] = "new"
  /\ \/ /\ runtime' = [runtime EXCEPT ![r] = "open"]
        /\ Head(r)
     \/ /\ reason' = [reason EXCEPT ![r] = "runtime_init_failed"] /\ EndedBy(r, "sandbox")
        /\ valid' = [valid EXCEPT ![r] = FALSE]
        /\ pc' = [pc EXCEPT ![r] = "returned"]
        /\ UNCHANGED <<runtime, sampling>>
  /\ UNCHANGED <<mode, batches, turns, calls, submitted>>

\* The engine finished for length: max_new_tokens is the smaller one of the limit of a turn and of
\* what the context has left, and the reason is the same for both.
Cut(r) ==
  /\ End(r, "generation_length", turns[r] + 1, FALSE)
  /\ EndedBy(r, "tokens") \/ EndedBy(r, "full")

Plain(r) == End(r, "missing_submit", turns[r] + 1, FALSE) /\ EndedBy(r, "plain")

\* Mutation: the loop ends after the last turn with its code not executed.
EngineReturnsLast(r) ==
  /\ Active /\ pc[r] = "engine"
  /\ LeaveBlock(r)
  /\ turns' = [turns EXCEPT ![r] = @ + 1]
  /\ \/ Cut(r) \/ Plain(r)
     \/ /\ turns[r] + 1 >= MaxTurns
        /\ End(r, "none", turns[r] + 1, FALSE) /\ EndedBy(r, "turns")
     \/ /\ turns[r] + 1 < MaxTurns
        /\ pc' = [pc EXCEPT ![r] = "tool"] /\ UNCHANGED <<reason, valid, ended>>
  /\ UNCHANGED <<mode, batches, calls, submitted, runtime>>

\* The turn was cut, has no code, or has code, which is executed also after the last turn (state
\* TOOL_CALLING) unless the trajectory has used up its time.
EngineReturns(r) ==
  /\ Active /\ pc[r] = "engine"
  /\ LeaveBlock(r)
  /\ turns' = [turns EXCEPT ![r] = @ + 1]
  /\ \/ Cut(r) \/ Plain(r)
     \/ End(r, "trajectory_timeout", turns[r] + 1, FALSE) /\ EndedBy(r, "clock")
     \/ pc' = [pc EXCEPT ![r] = "tool"] /\ UNCHANGED <<reason, valid, ended>>
  /\ UNCHANGED <<mode, batches, calls, submitted, runtime>>

\* Mutation: the engine is awaited without a limit.
EngineNeverTimesOut(r) == r \notin Requests /\ EngineReturns(r)

\* wait_for() gives up after ten minutes.
EngineTimeout(r) ==
  /\ Active /\ pc[r] = "engine"
  /\ LeaveBlock(r)
  /\ End(r, "generation_timeout", turns[r], FALSE) /\ EndedBy(r, "engine")
  /\ UNCHANGED <<mode, batches, turns, calls, submitted, runtime>>

\* Another exception of the engine, or a finish reason that from_str() does not know.
EngineRaises(r) ==
  /\ Active /\ pc[r] = "engine"
  /\ LeaveBlock(r)
  /\ pc' = [pc EXCEPT ![r] = "raising"]
  /\ UNCHANGED <<mode, batches, trajectory, runtime>>

\* The block was executed, or failed.  The length is tested before the submission.
ToolReturns(r) ==
  /\ Active /\ pc[r] = "tool"
  /\ calls' = [calls EXCEPT ![r] = @ + 1]
  /\ \E sub \in BOOLEAN :
       /\ submitted' = [submitted EXCEPT ![r] = sub]
       /\ \/ /\ End(r, "max_model_len", turns[r], sub) /\ EndedBy(r, "context")
             /\ UNCHANGED sampling
          \/ /\ sub
             /\ End(r, "submitted_answer", turns[r], sub) /\ EndedBy(r, "submission")
             /\ UNCHANGED sampling
          \/ ~sub /\ Head(r)
  /\ UNCHANGED <<mode, batches, turns, runtime>>

\* Mutation: a request that ends after an engine time-out does not close its sandbox.
CloseSkipsTimeout(r) ==
  /\ Active /\ pc[r] = "closing"
  /\ runtime' = [runtime EXCEPT ![r] = IF reason[r] = "generation_timeout" THEN @ ELSE "closed"]
  /\ pc' = [pc EXCEPT ![r] = "returned"]
  /\ UNCHANGED <<mode, batches, trajectory, sampling>>

\* The finally clause: aclose() has come back.
Close(r) ==
  /\ Active /\ pc[r] = "closing"
  /\ runtime' = [runtime EXCEPT ![r] = "closed"]
  /\ pc' = [pc EXCEPT ![r] = "returned"]
  /\ UNCHANGED <<mode, batches, trajectory, sampling>>

\* gather() passes the first exception on; the loop stops and the others with it.
Fail(r) ==
  /\ Active /\ pc[r] = "raising"
  /\ runtime' = [runtime EXCEPT ![r] = "closed"]
  /\ mode' = "failed"
  /\ UNCHANGED <<batches, pc, trajectory, sampling>>

-----------------------------------------------------------------------------
(* _req_level_generate_sequences()                                         *)

Generate(m) ==
  /\ mode = "none" /\ batches < MaxBatches
  /\ mode' = m /\ batches' = batches + 1
  /\ pc' = [r \in Requests |-> "new"]
  /\ turns' = [r \in Requests |-> 0] /\ calls' = [r \in Requests |-> 0]
  /\ submitted' = [r \in Requests |-> FALSE] /\ valid' = [r \in Requests |-> TRUE]
  /\ reason' = [r \in Requests |-> "none"] /\ ended' = [r \in Requests |-> "nothing"]
  /\ runtime' = [r \in Requests |-> "none"]
  /\ UNCHANGED sampling

Collect ==
  /\ Active /\ \A r \in Requests : pc[r] = "returned"
  /\ mode' = "none"
  /\ UNCHANGED <<batches, pc, trajectory, runtime, sampling>>

\* train_valid_trajectory: the loss mask of r is kept.
Trained(r) == valid[r] \/ reason[r] \in NegativeReasons

-----------------------------------------------------------------------------
\* What the event loop, the limit of wait_for() and the sandbox bring about.
Driven(r) == Begin(r) \/ EngineTimeout(r) \/ ToolReturns(r) \/ Close(r) \/ Fail(r)

Next ==
  \/ \E r \in Requests : Driven(r) \/ EngineReturns(r) \/ EngineRaises(r)
  \/ \E m \in {"train", "validate"} : Generate(m)
  \/ Collect

Spec == Init /\ [][Next]_vars

\* The engine may never answer.  The sandbox does: rollouts give it a time limit, under which
\* execute() and close() come back (ExecuteReturns and CloseReturns of CodeExecutor).
FairSpec == Spec /\ (\A r \in Requests : WF_vars(Driven(r))) /\ WF_vars(Collect)

-----------------------------------------------------------------------------
(* Properties                                                              *)

\* A trajectory is valid exactly if the model submitted an answer in a block that was executed
\* and fitted into the context: none of the other ways out of the loop leaves the initial
\* verdict standing.
ValidMeansSubmitted ==
  \A r \in Requests : pc[r] = "returned" =>
    /\ valid[r] <=> reason[r] = "submitted_answer"
    /\ valid[r] => submitted[r] /\ calls[r] = turns[r]

\* The trainer learns from a trajectory if and only if the model brought about its end, whatever
\* its last turn was: not if time ran out while the block of the last turn was still to be executed,
\* which the test after the loop must not take for turns that are used up, nor if the observation
\* of a submission no longer fitted.  And unless its end is the model's last text, every block it
\* wrote was executed.
TrainedByItsEnd ==
  \A r \in Requests : pc[r] = "returned" =>
    /\ Trained(r) <=> ended[r] \in ModelEnds
    /\ Trained(r) => ended[r] \in {"plain", "tokens", "full"} \/ calls[r] = turns[r]

\* No trajectory counts as out of turns before the code of its last turn was executed, which
\* may have been the one to submit.
LastBlockRuns ==
  \A r \in Requests : reason[r] = "max_turns" => calls[r] = turns[r] /\ turns[r] = MaxTurns

\* A batch that was collected has closed the sandbox of each of its requests.
RuntimesClosed == mode = "none" => \A r \in Requests : runtime[r] # "open"

\* Every batch comes to an end, also when the engine stops answering.
BatchEnds == mode \in {"train", "validate"} ~> mode \in {"none", "failed"}

\* "Parameters are automatically fall back to their original values upon exiting the block."
\* (sglang_rollout.py:525-527), for the parameters that a validation overrides.
SamplingRestored ==
  (\A r \in Requests : pc[r] # "engine") => params["temperature"] = "config"
=============================================================================
