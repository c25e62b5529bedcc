----------------------------- MODULE Experiment -----------------------------
(***************************************************************************)
(* The benchmark runner of src/inference/run_inference.py: one asyncio     *)
(* task per question, two semaphores, a result file per question that a    *)
(* later launch reuses, and the ends a launch can have: all tasks return,  *)
(* a task raises and the others are cancelled, the operator interrupts, or *)
(* the process is killed.                                                  *)
(*                                                                         *)
(* Tasks interleave at their awaits.  The agent is one step per outcome;   *)
(* its sandbox, which aclose() must reach on every path, is CodeExecutor.  *)
(***************************************************************************)
EXTENDS Naturals, FiniteSets

CONSTANTS Items,           \* the questions; their ids, which name the files, are distinct
          MaxConcurrency,  \* --max_concurrency
          VllmLimit,       \* MAX_VLLM_CONCURRENCY
          MaxLaunches      \* bound: how often the script is started

ASSUME ItemsAssumption == IsFiniteSet(Items)
ASSUME LimitsAssumption ==
  MaxConcurrency \in Nat \ {0} /\ VllmLimit \in Nat \ {0} /\ MaxLaunches \in Nat \ {0}

VARIABLES
  phase,       \* of the script: down, running, aborting (tasks are being cancelled), done
  launches,    \* times it was started
  pc,          \* where each task awaits
  outcome,     \* the result it holds, or how it ended
  cancelling,  \* tasks whose next step is a CancelledError
  sandbox,     \* the agent's CodeExecutor
  writer,      \* the thread that runs write_json for the item
  file         \* the result file

vars == <<phase, launches, pc, outcome, cancelling, sandbox, writer, file>>

Places   == {"new", "load", "gate", "run", "closeLlm", "closeExec", "write", "end"}
\* An agent answers, answers with the empty string, or run_one makes up an ERROR result.
Answers  == {"answered", "blank"}
Errors   == {"timeout", "exception"}
Outcomes == {"none", "cached", "failed", "cancelled"} \cup Answers \cup Errors
Files    == {"absent", "torn", "error"} \cup Answers

TypeOK ==
  /\ phase \in {"down", "running", "aborting", "done"}
  /\ launches \in Nat
  /\ pc \in [Items -> Places]
  /\ outcome \in [Items -> Outcomes]
  /\ cancelling \in SUBSET Items
  /\ sandbox \in [Items -> {"none", "open", "closed"}]
  /\ writer \in [Items -> {"none", "queued", "open"}]
  /\ file \in [Items -> Files]

Init ==
  /\ phase = "down" /\ launches = 0 /\ cancelling = {}
  /\ pc = [i \in Items |-> "end"] /\ outcome = [i \in Items |-> "none"]
  /\ sandbox = [i \in Items |-> "none"] /\ writer = [i \in Items |-> "none"]
  /\ file = [i \in Items |-> "absent"]

-----------------------------------------------------------------------------
Goto(i, l)  == pc' = [pc EXCEPT ![i] = l]
Hold(i, r)  == outcome' = [outcome EXCEPT ![i] = r]
End(i, r)   == Goto(i, "end") /\ Hold(i, r)
script      == <<phase, launches, cancelling>>
Awaits(i, l) == pc[i] = l /\ i \notin cancelling

\* build_agent() and the way to the second semaphore; its exceptions make an ERROR result.
Build(i) ==
  \/ sandbox' = [sandbox EXCEPT ![i] = "open"] /\ Goto(i, "gate") /\ UNCHANGED outcome
  \/ End(i, "exception") /\ UNCHANGED sandbox

\* The task gets its slot and looks for the file of an earlier launch.
Enter(i) ==
  /\ Awaits(i, "new")
  /\ Cardinality({j \in Items : pc[j] \notin {"new", "end"}}) < MaxConcurrency
  /\ IF file[i] = "absent" THEN Build(i) ELSE Goto(i, "load") /\ UNCHANGED <<outcome, sandbox>>
  /\ UNCHANGED <<script, writer, file>>

\* Mutation: a result is made again even if the file has a prediction.
LoadRerunsAll(i) ==
  /\ Awaits(i, "load")
  /\ IF file[i] = "torn" THEN End(i, "failed") /\ UNCHANGED sandbox ELSE Build(i)
  /\ UNCHANGED <<script, writer, file>>

\* Mutation: whatever the file holds is taken for the result.
LoadTrustsFile(i) ==
  /\ Awaits(i, "load")
  /\ End(i, file[i])
  /\ UNCHANGED <<script, sandbox, writer, file>>

\* load_json, outside the try block: a file that is not JSON makes the task raise.  A result
\* with a prediction is returned as it is, an empty prediction is worked on again.
Load(i) ==
  /\ Awaits(i, "load")
  /\ \/ file[i] = "torn" /\ End(i, "failed") /\ UNCHANGED sandbox
     \/ file[i] \in {"answered", "error"} /\ End(i, "cached") /\ UNCHANGED sandbox
     \/ file[i] = "blank" /\ Build(i)
  /\ UNCHANGED <<script, writer, file>>

Start(i) ==
  /\ Awaits(i, "gate")
  /\ Cardinality({j \in Items : pc[j] = "run"}) < VllmLimit
  /\ Goto(i, "run")
  /\ UNCHANGED <<script, outcome, sandbox, writer, file>>

\* The agent returns or raises, or wait_for cancels it.  The second semaphore is given back
\* and the finally clause begins.
Leave(i, r) ==
  /\ Awaits(i, "run")
  /\ Goto(i, "closeLlm") /\ Hold(i, r)
  /\ UNCHANGED <<script, sandbox, writer, file>>

Answer(i) == \E r \in Answers : Leave(i, r)
Raise(i)  == Leave(i, "exception")

\* Mutation: the time limit is never reached.
TimeoutNever(i) == i \notin Items /\ Leave(i, "timeout")
Timeout(i) == Leave(i, "timeout")

\* aclose() of the agent: the client first, then the sandbox.
CloseLlm(i) ==
  /\ Awaits(i, "closeLlm")
  /\ Goto(i, "closeExec")
  /\ UNCHANGED <<script, outcome, sandbox, writer, file>>

\* A cancelled task goes no further than its finally clause, an ERROR result is not saved.
CloseAndSave(i, saves) ==
  /\ Awaits(i, "closeExec")
  /\ sandbox' = [sandbox EXCEPT ![i] = "closed"]
  /\ Goto(i, IF saves THEN "write" ELSE "end")
  /\ writer' = [writer EXCEPT ![i] = IF saves THEN "queued" ELSE "none"]
  /\ UNCHANGED <<script, outcome, file>>

\* Mutations: no except clause resets should_save; a timed-out agent is not closed; the task
\* does not wait for the thread that writes.
CloseSavesErrors(i) == CloseAndSave(i, outcome[i] # "cancelled")
CloseSkipsTimeout(i) ==
  \/ outcome[i] # "timeout" /\ CloseAndSave(i, outcome[i] \in Answers)
  \/ /\ Awaits(i, "closeExec") /\ outcome[i] = "timeout"
     /\ Goto(i, "end")
     /\ UNCHANGED <<script, outcome, sandbox, writer, file>>
CloseWithoutAwait(i) ==
  /\ Awaits(i, "closeExec")
  /\ sandbox' = [sandbox EXCEPT ![i] = "closed"]
  /\ Goto(i, "end")
  /\ writer' = [writer EXCEPT ![i] = IF outcome[i] \in Answers THEN "queued" ELSE "none"]
  /\ UNCHANGED <<script, outcome, file>>

Close(i) == CloseAndSave(i, outcome[i] \in Answers)

-----------------------------------------------------------------------------
(* write_json() runs in a thread, which goes on when its task is cancelled. *)

Content(r) == IF r \in Answers THEN r ELSE "error"

\* open(path, "w") empties the file.
Open(i) ==
  /\ writer[i] = "queued"
  /\ writer' = [writer EXCEPT ![i] = "open"]
  /\ file' = [file EXCEPT ![i] = "torn"]
  /\ UNCHANGED <<script, pc, outcome, sandbox>>

Wake(i, r) == IF Awaits(i, "write") THEN End(i, r) ELSE UNCHANGED <<pc, outcome>>

Written(i) ==
  /\ writer[i] = "open"
  /\ writer' = [writer EXCEPT ![i] = "none"]
  /\ file' = [file EXCEPT ![i] = Content(outcome[i])]
  /\ Wake(i, outcome[i])
  /\ UNCHANGED <<script, sandbox>>

\* makedirs, open or json.dump raises; in the last case half a file stays behind.
WriteFails(i) ==
  /\ writer[i] # "none"
  /\ writer' = [writer EXCEPT ![i] = "none"]
  /\ Wake(i, "failed")
  /\ UNCHANGED <<script, sandbox, file>>

-----------------------------------------------------------------------------
(* Cancellation: the next step of each task that had not ended raises a      *)
(* CancelledError (asyncio), which goes through the finally clause of        *)
(* run_one() and leaves aclose() of the agent at the await it is in.         *)

Cancelled(i) ==
  /\ i \in cancelling
  /\ cancelling' = cancelling \ {i}
  /\ \/ pc[i] \in {"new", "load"} /\ End(i, "cancelled") /\ UNCHANGED <<sandbox, writer>>
     \/ pc[i] \in {"gate", "run"} /\ Goto(i, "closeLlm") /\ Hold(i, "cancelled")
        /\ UNCHANGED <<sandbox, writer>>
     \* The rest of aclose() is skipped: nobody closes the sandbox.
     \/ pc[i] = "closeLlm" /\ End(i, "cancelled") /\ UNCHANGED <<sandbox, writer>>
     \* close() goes on in its thread.
     \/ pc[i] = "closeExec" /\ End(i, "cancelled") /\ UNCHANGED writer
        /\ sandbox' = [sandbox EXCEPT ![i] = "closed"]
     \* A write that has not begun is dropped, unless its thread is quicker.
     \/ pc[i] = "write" /\ Goto(i, "end") /\ UNCHANGED <<outcome, sandbox>>
        /\ writer' \in {writer, [writer EXCEPT ![i] = IF @ = "queued" THEN "none" ELSE @]}
  /\ UNCHANGED <<phase, launches, file>>

-----------------------------------------------------------------------------
(* The script                                                              *)

Launch ==
  /\ phase \in {"down", "done"} /\ launches < MaxLaunches
  /\ phase' = "running" /\ launches' = launches + 1
  /\ pc' = [i \in Items |-> "new"] /\ outcome' = [i \in Items |-> "none"]
  /\ sandbox' = [i \in Items |-> "none"]
  /\ UNCHANGED <<cancelling, writer, file>>

\* Every task is awaited; run_experiment returns.
Finish ==
  /\ phase = "running"
  /\ \A i \in Items : pc[i] = "end" /\ outcome[i] # "failed"
  /\ phase' = "done"
  /\ UNCHANGED <<launches, pc, outcome, cancelling, sandbox, writer, file>>

\* asyncio.run() cancels the tasks that are left when run_experiment raises.
CancelAll ==
  /\ phase = "running"
  /\ phase' = "aborting"
  /\ cancelling' = {i \in Items : pc[i] # "end"}
  /\ UNCHANGED <<launches, pc, outcome, sandbox, writer, file>>

\* Awaiting the tasks in the order they complete meets one that raised.
Abort == (\E i \in Items : pc[i] = "end" /\ outcome[i] = "failed") /\ CancelAll

\* Ctrl-C.
Interrupt == CancelAll

\* The loop is closed once the tasks have ended and its threads are joined.
Exit ==
  /\ phase = "aborting"
  /\ \A i \in Items : pc[i] = "end" /\ writer[i] = "none"
  /\ phase' = "down"
  /\ UNCHANGED <<launches, pc, outcome, cancelling, sandbox, writer, file>>

\* The process is killed; what is on disk stays as it is.
Kill ==
  /\ phase \in {"running", "aborting"}
  /\ phase' = "down" /\ cancelling' = {}
  /\ pc' = [i \in Items |-> "end"] /\ outcome' = [i \in Items |-> "none"]
  /\ sandbox' = [i \in Items |-> "none"] /\ writer' = [i \in Items |-> "none"]
  /\ UNCHANGED <<launches, file>>

-----------------------------------------------------------------------------
\* What asyncio and the time limit bring about.  The agent may never answer, a write may fail.
Driven(i) ==
  \/ Enter(i) \/ Load(i) \/ Start(i) \/ Timeout(i) \/ CloseLlm(i) \/ Close(i)
  \/ Open(i) \/ Written(i) \/ Cancelled(i)

TaskStep(i) == Driven(i) \/ Answer(i) \/ Raise(i) \/ WriteFails(i)

Next == \/ \E i \in Items : TaskStep(i)
        \/ Launch \/ Finish \/ Abort \/ Interrupt \/ Exit \/ Kill

Spec == Init /\ [][Next]_vars

\* The event loop runs every task that is ready and joins its threads.
FairSpec == Spec /\ (\A i \in Items : WF_vars(Driven(i))) /\ WF_vars(Finish \/ Abort \/ Exit)

-----------------------------------------------------------------------------
(* Properties                                                              *)

\* An answer that has reached the disk stays there through every relaunch, abort and crash:
\* no later task, and no thread of a cancelled one, opens its file again.
AnswerSurvives == [][\A i \in Items : file[i] = "answered" => file'[i] = "answered"]_vars

\* The ERROR result of a time-out or an exception is never saved, or a relaunch would take it
\* for the prediction.
NoErrorOnDisk == \A i \in Items : file[i] # "error"

\* When the script reports its results, every answer in them is on disk.
DoneIsSaved ==
  phase = "done" => \A i \in Items : /\ outcome[i] \in Answers => file[i] = outcome[i]
                                     /\ outcome[i] = "cached" => file[i] = "answered"

\* A launch that was not aborted leaves no sandbox behind, whatever happened to its agents.
SandboxesClosed == phase = "done" => \A i \in Items : sandbox[i] # "open"

\* With a time limit per item every launch comes to an end, also when an agent hangs.
LaunchEnds == phase \in {"running", "aborting"} ~> phase \in {"down", "done"}
=============================================================================
