------------------------------ MODULE AgentLoop ------------------------------
(***************************************************************************)
(* One question worked on by an agent of src/agents/codeact.py or          *)
(* src/agents/verigraph.py: the loop of model calls and code blocks, what  *)
(* a block does to the claim graph in the sandbox, the cached snapshot by  *)
(* which the agent decides to stop, and the result it makes of the graph.  *)
(*                                                                         *)
(* arun() and arun_multiturn() differ in how messages are joined.  What    *)
(* the prompt holds, and how old tool results are cut out of it, is left   *)
(* out, so one model stands for both.                                      *)
(***************************************************************************)
EXTENDS EvidenceGraph, FiniteSets

CONSTANT MaxTurn   \* max_turn

ASSUME TurnsAssumption == MaxTurn \in Nat

VARIABLES
  verigraph,    \* the agent is a VerigraphAgent, not a plain CodeActAgent
  genReport,    \* gen_report
  pc,           \* where arun() is
  turn,         \* current_turn
  prediction,   \* where the prediction comes from and the final claims it stands on
  termination,  \* termination_reason
  blocks,       \* number of blocks given to a worker that could run them
  graph,        \* _graph_mgr in the sandbox
  shown,        \* the executor's cached snapshot of it
  pending,      \* a call of execute() is open
  accepting,    \* the executor is neither broken nor closed
  running       \* its worker may still run code

\* The executor with the claim graph in it.  All the agent knows of it is what Sandbox promises,
\* and Sandbox is what CodeExecutor implements.
SB == INSTANCE Sandbox WITH
  First   <- EmptyGraph,
  Change  <- LAMBDA before, after : after \in AfterApiCall(before),
  content <- graph

settings == <<verigraph, genReport>>
executor == <<graph, shown, pending, accepting, running>>
output   == <<prediction, termination>>
vars     == <<settings, pc, turn, output, blocks, executor>>

NoPrediction == [by |-> "nobody", claims |-> {}]

TypeOK ==
  /\ verigraph \in BOOLEAN /\ genReport \in BOOLEAN
  /\ pc \in {"ask", "call", "block", "observe", "finalize", "report", "done", "raised"}
  /\ turn \in 0..MaxTurn
  /\ prediction \in [by : {"nobody", "response", "claims", "report"}, claims : SUBSET Claims]
  /\ termination \in {"max_turn", "answer"}
  /\ blocks \in 0..turn
  /\ graph \in Graphs /\ shown \in Graphs
  /\ pending \in BOOLEAN /\ accepting \in BOOLEAN /\ running \in BOOLEAN

\* gen_report is an option of the VerigraphAgent.
Init ==
  /\ verigraph \in BOOLEAN
  /\ genReport \in {FALSE, verigraph}
  /\ pc = "ask" /\ turn = 0
  /\ prediction = NoPrediction /\ termination = "max_turn" /\ blocks = 0
  /\ SB!Init

-----------------------------------------------------------------------------
(* The model's turn                                                        *)

\* Mutation: the loop allows for one turn too many.
AskCodeOneMore ==
  /\ pc = "ask" /\ turn <= MaxTurn
  /\ turn' = turn + 1
  /\ pc' = IF turn' < MaxTurn THEN "call" ELSE "observe"
  /\ UNCHANGED <<settings, output, blocks, executor>>

\* A response with a code block.  The block of the last turn is not executed: its result is an
\* error that asks for the final answer.
AskCode ==
  /\ pc = "ask" /\ turn < MaxTurn
  /\ turn' = turn + 1
  /\ pc' = IF turn' < MaxTurn THEN "call" ELSE "observe"
  /\ UNCHANGED <<settings, output, blocks, executor>>

\* A response without one ends the loop.
AskPlain ==
  /\ pc = "ask" /\ turn < MaxTurn
  /\ turn' = turn + 1
  /\ prediction' = [NoPrediction EXCEPT !.by = "response"] /\ termination' = "answer"
  /\ pc' = "finalize"
  /\ UNCHANGED <<settings, blocks, executor>>

\* agenerate() raises; nothing catches it before the runner.
AskRaises ==
  /\ pc = "ask" /\ turn < MaxTurn
  /\ turn' = turn + 1
  /\ pc' = "raised"
  /\ UNCHANGED <<settings, output, blocks, executor>>

TurnsUsedUp ==
  /\ pc = "ask" /\ turn >= MaxTurn
  /\ pc' = "finalize"
  /\ UNCHANGED <<settings, turn, output, blocks, executor>>

-----------------------------------------------------------------------------
(* The code block in the sandbox, which is Sandbox with the claim graph in   *)
(* it: the agent calls it, and the sandbox answers the call or loses it.     *)

\* execute() of the block.
StartBlock ==
  /\ pc = "call" /\ SB!Begin
  /\ pc' = "block"
  /\ blocks' = IF running THEN blocks + 1 ELSE blocks
  /\ UNCHANGED <<settings, turn, output>>

\* The executor is broken or closed.
CallRefused ==
  /\ pc = "call" /\ ~accepting
  /\ pc' = "observe"
  /\ UNCHANGED <<settings, turn, output, blocks, executor>>

\* A call of bind(), infer() or submit_answer(), also by the code of a block that was lost.  The
\* code of the plain CodeAct agent has no such functions.
CodeRuns ==
  /\ verigraph /\ SB!Work
  /\ Len(graph'.premises) <= MaxClaims
  /\ UNCHANGED <<settings, pc, turn, output, blocks>>

\* The block has ended or raised, and is answered in both cases.
BlockAnswered ==
  /\ pc = "block" /\ SB!Answer
  /\ pc' = "observe"
  /\ UNCHANGED <<settings, turn, output, blocks>>

\* Mutation: a time-out returns to the agent and leaves the executor as it is.
BlockLostKeepsWorker ==
  /\ pc = "block"
  /\ pending' = FALSE
  /\ pc' = "observe"
  /\ UNCHANGED <<settings, turn, output, blocks, graph, shown, accepting, running>>

\* Mutation: no time limit.
BlockNeverLost == pc = "block" /\ UNCHANGED vars

\* The block has run into its limit, or its worker has died: what it did so far is not shown.
BlockLost ==
  /\ pc = "block" /\ SB!Lose
  /\ pc' = "observe"
  /\ UNCHANGED <<settings, turn, output, blocks>>

\* The worker dies, or aclose() is called.
SandboxBreaks == SB!Break /\ UNCHANGED <<settings, pc, turn, output, blocks>>

-----------------------------------------------------------------------------
(* After the block                                                         *)

\* VerigraphAgent looks at the cached flag.
ShouldStopAfterCode == verigraph /\ shown.finished

\* The tool result joins the messages and the loop goes on or stops.
Observe ==
  /\ pc = "observe"
  /\ IF ShouldStopAfterCode
     THEN /\ prediction' = [NoPrediction EXCEPT !.by = "response"] /\ termination' = "answer"
          /\ pc' = "finalize"
     ELSE pc' = "ask" /\ UNCHANGED output
  /\ UNCHANGED <<settings, turn, blocks, executor>>

\* Mutation: without a submission every claim is taken for a final one
\* (_fill_final_claims_from_graph_if_needed, a call that is commented out).
FilledFinalClaims == IF shown.finished THEN shown.final \ shown.blank ELSE Ids(shown)

\* _extract_final_claims: claims with an empty text are left out.
FinalClaims == shown.final \ shown.blank

NeedsReport == genReport /\ Cardinality(FinalClaims) > 1

\* _finalize_run_output replaces the prediction, by nothing if there is no final claim; the
\* reason of the termination stays.
Finalize ==
  /\ pc = "finalize"
  /\ IF verigraph /\ NeedsReport
     THEN pc' = "report" /\ UNCHANGED prediction
     ELSE /\ pc' = "done"
          /\ prediction' = IF verigraph THEN [by |-> "claims", claims |-> FinalClaims]
                           ELSE prediction
  /\ UNCHANGED <<settings, turn, termination, blocks, executor>>

\* A model call writes the report from the final claims; if it fails, they are listed.
Report ==
  /\ pc = "report"
  /\ prediction' = [by |-> "report", claims |-> FinalClaims] /\ termination' = "answer"
  /\ pc' = "done"
  /\ UNCHANGED <<settings, turn, blocks, executor>>

Finished == pc \in {"done", "raised"} /\ UNCHANGED vars

Next ==
  \/ AskCode \/ AskPlain \/ AskRaises \/ TurnsUsedUp
  \/ StartBlock \/ CallRefused \/ CodeRuns \/ BlockAnswered \/ BlockLost \/ SandboxBreaks
  \/ Observe \/ Finalize \/ Report \/ Finished

Spec == Init /\ [][Next]_vars

\* The agent's coroutine goes on and a model call ends, in a response or an exception (the
\* client has a time limit).  A block may run for ever, but the executor ends it at its limit.
FairSpec ==
  /\ Spec
  /\ WF_vars(AskCode \/ AskPlain \/ AskRaises) /\ WF_vars(TurnsUsedUp)
  /\ WF_vars(StartBlock \/ CallRefused) /\ WF_vars(BlockLost)
  /\ WF_vars(Observe \/ Finalize \/ Report)

-----------------------------------------------------------------------------
(* Properties                                                              *)

\* A prediction of the VeriGraph agent stands on an answer the model has submitted in its
\* sandbox, and on all of its claims that have a text: neither a block that was lost nor a
\* claim that was made later gets into it.
AnswerFromSandbox ==
  pc = "done" /\ verigraph /\ prediction.claims # {} =>
    graph.finished /\ prediction.claims = graph.final \ graph.blank

\* Once an answer is submitted no worker is given a further block, also when the block that
\* submitted it was lost and the cached flag still says that nothing was submitted.
StopsAfterSubmission == [][blocks' # blocks => ~graph.finished]_vars

\* A submitted answer and the evidence below it stay as they are, whatever the rest of the
\* block, which may go on making claims and submit again.
EvidenceFrozen == [][graph.finished => graph'.finished /\ Evidence(graph') = Evidence(graph)]_vars

\* Every question comes to an end, whatever the model writes and its code does.
LoopEnds == <>(pc \in {"done", "raised"})
=============================================================================
