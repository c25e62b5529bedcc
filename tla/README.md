# A specification of VeriGraph

TLA+ modules for the parts of VeriGraph that run concurrently or survive failures, the TLC
configurations that check them on small instances, and theorems about them that TLAPS checks
for every value of the constants. Paths below are relative to the root of the repository;
`RT` is `src/training/rl/verl/trainer/ppo/ray_trainer.py`, `SG` is `src/training/rl/verl/workers/rollout/sglang_rollout/sglang_rollout.py`.

Contents: 1 the system; 2 the modules and the code they stand for; 3 the runs; 4 the proofs;
5 disagreements with the code's own words; 6 what is not modelled; 7 the plan.

## 1. The system: inventory

VeriGraph answers questions about data files. A language model writes Python in turns; each
block is executed in a persistent sandbox, whose runtime offers `bind`, `infer` and
`submit_answer`, so that the claims made and the evidence for them form a graph. The same loop
is driven by a benchmark runner, by a demo server and, for reinforcement learning, by a rollout
worker; an LLM judge scores the answers.

| Component | State it keeps | Operations | Talks to | What is hard |
|---|---|---|---|---|
| Code executor, `src/agents/core/code_executor.py` | `_process`, `_conn`, `_closed`, `_broken`, `_request_lock`, cached snapshot; in the worker, the globals | `execute`, `close`, `aexecute`, `aclose`, worker loop | worker over a pipe; threads of the callers | threads, time limits, crashes, a close that goes on without the lock |
| Sandbox graph runtime, `src/agents/resources/init_workspaces.py` | claims, edges, final claims, finished flag | `bind`, `infer`, `submit_answer`, `export` | runs inside the worker | half-executed blocks, calls after the submission |
| Agents, `src/agents/codeact.py`, `verigraph.py` | history, turn number, executor | `run`, `aclose` | LLM client, executor | stale finished flag, last turn |
| LLM client, `src/agents/core/llm_client.py` | none | `chat`, `aclose` | model server | retries inside a library |
| Benchmark runner, `src/inference/run_inference.py` | result files, two semaphores, tasks | `run_experiment`, `run_one`, `write_json` | agents, disk | cancellation, kill and relaunch, writes in threads |
| Judge, `src/evaluation/judge.py` | result files | one thread per result | model server | all-or-nothing result |
| Demo server, `demo/server.py` | runs, event queue, files of a run | start, stream, result | agents, page | several readers, threads that emit late, files read while they are written |
| Demo page, `demo/static/app.js` | EventSource, flags of the run, a polling chain | connect, reconnect, poll | demo server | broken streams, a result that only the disk still has |
| RL rollout, `SG`, `verl/utils/verigraph_rl.py` | requests, shared sampling parameters, a sandbox per request | `_async_rollout_a_request_verigraph`, `_handle_engine_call`, batch collection | engine, executor, trainer | coroutines that share state, several limits, which trajectory is trained on |
| RL reward, `verl/workers/reward_manager/verigraph.py` | none between batches | batched judging, combination | model server | matching results with samples, failed calls |
| DAPO trainer, `recipe/dapo/dapo_ray_trainer.py`, `RT` | accumulated batch, counters, policy, checkpoints on disk | generation and filtering loop, validation, saving, loading | rollout, reward, disk | groups that must stay whole over several reorderings, kill and relaunch between the files of a checkpoint |
| Preprocessing, prompts, serving scripts, interpreter pool, rest of verl | - | - | - | pure conversions, constant text, vendored code |

What makes each correct:

- *Executor*: an answer belongs to the call that gets it; the variables and claims of earlier
  blocks never silently vanish behind a fresh worker; a broken executor stays silent; after
  `close()` no block of code runs; every call comes back.
- *Graph runtime*: the answer that was submitted, and all the evidence it stands on, stays as it
  is, whatever code runs afterwards.
- *Agents*: no block is begun after the submission, the prediction is made of what the model
  submitted and of nothing else, and every question ends.
- *Runner*: an answer on disk is never lost, an ERROR is never stored, a report agrees with the
  disk, no sandbox is left behind, every launch ends.
- *Rollout*: the verdict fits the way the trajectory ended, a trajectory is trained on exactly if
  the model brought its end about, the last block is executed, sandboxes are closed, a batch ends, requests do not disturb
  one another through shared parameters.
- *Reward*: every sample gets the score of its own judgement, and not submitting never pays.
- *Trainer*: an update is made from whole groups of rollouts of one prompt each; the checkpoint
  that is named as the latest can be resumed; no data is trained on twice.
- *Demo*: a report that is on disk reaches the page, whole; the threads of readers end.

`PROJECT.json` lists the components, and under "hazards" what is hard to test, at its line.

## 2. Modules

    Sandbox         the promise of the executor: CodeExecutor implements it, AgentLoop uses it
    EvidenceGraph   the claim graph as a value, extended by AgentLoop

    CodeExecutor   <-  CodeExecutorProofs      MCCodeExecutor   exec_*.cfg
                   <-  CodeExecutorRefinement  (extends CodeExecutorProofs)
    AgentLoop      <-  AgentLoopProofs         MCAgentLoop      agent.cfg
    Experiment     <-  ExperimentProofs        MCExperiment     runner.cfg
    DemoSession    <-  DemoSessionProofs       MCDemoSession    demo.cfg
    Rollout        <-  RolloutProofs           MCRollout        rollout*.cfg
    RewardBatch    <-  RewardBatchProofs       MCRewardBatch    reward.cfg
    Trainer        <-  TrainerProofs           MCTrainer        trainer*.cfg

The chain of evaluation is CodeExecutor, then AgentLoop, then Experiment or DemoSession; that of
training is CodeExecutor, Rollout, RewardBatch, Trainer. Two neighbours are joined formally
by Sandbox: CodeExecutor implements it, and AgentLoop is composed with it. The steps of the sandbox
in AgentLoop are the actions of Sandbox themselves, so what is shown of the agents holds over
everything that Sandbox, and with it the executor, may do. The others use in words what the
module below them shows: Rollout and Experiment that `execute()` with a time limit and `close()`
come back (`ExecuteReturns`, `CloseReturns`), Experiment that an agent may end in every way in
which AgentLoop ends, Trainer that the rollout delivers a trajectory for every request.

In each module a definition named as a mutation of another
(the comment says so) is a plausible bug in the code: the property listed with it in
`PROJECT.json` must fail when it takes the definition's place.

### CodeExecutor: `src/agents/core/code_executor.py`

Threads of `Executors` call `execute()`, threads of `Closers` call `close()`; a thread keeps no
state between two calls, so one that does both is one of each. Every access to a shared field
whose order matters is a step: an action per statement or per small group of statements between
two points where another thread or the worker can make a difference.

| Specification | Code |
|---|---|
| `closed`, `broken`, `process`, `conn`, `holders` | `_closed`, `_broken`, `_process`, `_conn`, `_request_lock` |
| `snapshot` | the four cached fields; only the process it came from, the number of finished blocks (`rev`) and the finished flag (`fin`) |
| `Call`, `Acquire`, `Locked` | the tests of `execute()` before and after it waits for the lock |
| `Spawn`, `SpawnFails`, `Assign` | `_start_process`, with the gap between `start()` and the assignment |
| `Check`, `CheckAlive` | `_ensure_available`, which reads `_process` twice; `ExecuteRaises` is the `AttributeError` when it became `None` in between |
| `Send`, `Receive`, `PollEmpty`, `GiveUp`, `SeeGone`, `Timeout` | `_communicate`: the deadline is looked at before the pipe, so a response may lose against it |
| `TermConn` ... `TermReturn` | `_terminate_worker` and what its caller does next; `TermRaises` is the `AttributeError` on a `_process` that became `None` |
| `CloseCall`, `CloseMark`, `CloseAcquire`, `CloseForced`, `CloseTest`, `CloseSend` | `close()`; `CloseForced` is the failed `acquire(timeout=1.0)`; `CloseSend` reads `_process` a second time, and may raise like `CheckAlive` |
| `Update` | `_update_snapshot`, after the lock was released |
| `WorkerReady`, `WorkerTake`, `WorkerFinish`, `WorkerEof`, `WorkerDies` | `_code_executor_worker` |

Left out: the text of results; the branch for a response that is not `ok` (no request the parent
sends has that answer); the second, idempotent marking as broken when the startup runs into the
limit (part of `TermReturn`). Bounds: `MaxCalls` calls of a thread, `MaxWorkers` processes.

### Sandbox, and how the executor implements it

`Sandbox` knows a content (variables and claims), the picture of it that the agent reads, whether a
call is pending, whether further calls are accepted and whether a process may still run code. `Begin`
opens a call, `Work` changes the content, `Answer` makes the picture equal to it. `Lose` ends a call
without an answer: then no further call is accepted or nothing runs any more, so what the lost code did
is never built upon unseen, although it may go on for a while. `Break` is a time-out, a death or
`close()`. A picture is never that of another content: no fresh worker stands in for a lost one.

`CodeExecutor!ImplementsSandbox` is `SB!Spec` under this mapping: the content is the number of
blocks the first worker has finished and its finished flag; `shown` the cached fields; a call is
pending while the thread is inside `execute()`, and accepted while the executor is neither broken nor
closed; `running` holds while the first worker is not dead and no `close()` has ended. It is checked
with one executing thread, which is how every user of the executor in the repository calls it. With
two, an older answer may be stored after a newer one.

### EvidenceGraph and AgentLoop: `init_workspaces.py`, `codeact.py`, `verigraph.py`

A graph is the sequence of the premises of its claims, which claims are blank, the final set and the
flag. `Bound`, `Inferred` and `Submitted` give the graphs that one call of `bind()`, `infer()`,
`submit_answer()` may make of one; calls that raise leave it alone. Claims are never removed, and
nothing looks at the flag but `submit_answer()`.

AgentLoop is `arun()` (or `arun_multiturn()`, the same loop over other messages) of the CodeAct and of
the VeriGraph agent: `Ask...` the model's turn, `Observe` with `should_stop_after_code`, `Finalize`
and `Report`. The block of the last turn is not executed. Between them stands the sandbox, an instance
of `Sandbox` whose content is the claim graph and in which code makes calls one by one: `StartBlock` is its
`Begin`, `CodeRuns` its `Work`, `BlockAnswered`, `BlockLost` and `SandboxBreaks` its `Answer`, `Lose`
and `Break`; `CallRefused` is a call it does not accept. A block that is lost leaves the snapshot behind
the graph, and its code may go on changing the graph.

Left out: the history, its compression and all texts; tools other than the sandbox. Bounds:
`MaxClaims` claims of a graph; `MaxTurn` is the code's own parameter.

### Experiment: `src/inference/run_inference.py`

The launches of the script over the same output directory. A task per question; tasks interleave
at awaits. A semaphore is the number of tasks inside it. `write_json` runs in a thread that a
cancelled task leaves behind: `writer[i]` lives on when `pc[i]` has ended, until the executor of
the loop is joined (`Exit`). `file[i]` distinguishes no file, a torn one, an answer, a result
without a prediction, an ERROR. `Kill` may come anywhere; `Launch` starts again on what is on
disk. The agent is its outcomes (`Answer`, `Raise`, never) and the two halves of its `aclose()`
(`CloseLlm`, `Close`), of which a cancellation may skip the second.

Assumed: ids of questions are distinct. A run without a limit for the model server is
`VllmLimit` at least the number of questions. Cancellation is modelled from how asyncio treats
the tasks (external).

### DemoSession: `src/demo/server.py`, `src/demo/static/app.js`

A run has a thread (`RunStep`: events of the agent, the files of the result opened and written one by
one, the report, `finish()`), a second thread that reports a waiting model call and may come late
(`WatchWakes`, `WatchEmits`), one queue, and a handler thread per connection (`Take` ... `Write`: an
event taken for a connection that is broken is lost). The page connects, reconnects (`Connect`,
`ConnectRefused`, `Drop`), handles events (`Receive`), and asks for the result on disk (`AskResult`,
`CheckReport` ... `ReadGraph`, which read the files one at a time). `Crash` is a restart of the server:
runs and threads are gone, files stay. The server names one of its events "error"; in an
EventSource that also runs `onerror`, and so does `Receive`.

Left out: the contents of events; the limit of 240 polls; a reload of the page (`restorePendingRun`),
which gives up when the result is half written; uploads, model settings and the retries of the model
stream; the agent, which is that of AgentLoop over another model interface and appears as the events
it emits. Bounds: `MaxEvents`, `MaxFaults`, `MaxCrashes`, and `Handlers` connections at a time.

### Rollout: `SG`, VeriGraph branch

The coroutines of one event loop run uninterrupted from await to await, so an action is all
code from one await to the next: `Begin` up to the first engine call; `EngineReturns`,
`EngineTimeout`, `EngineRaises` from the engine's answer to the next await; `ToolReturns` from the
end of a block's execution, through the head of the loop, to the next; `Close` the `finally`
clause; `Fail` an exception that goes through `gather()`. `Head` is the head of the loop in state
RUNNING and `End` what follows the loop. `EnterBlock` and `LeaveBlock` are
`update_sampling_params()`, held across the engine call. "temperature" stands for all parameters a
validation overrides, `max_new_tokens` for the one every request overrides. Lengths and clocks
are data: each test may go either way, wherever the code has it.

`ended` is a history variable: what in fact ended the loop, beside the `reason` the code writes down.
No action reads it. A generation is bounded by the tokens of a turn or by what its context has left
(`SG:1084`), whichever is less, and both cuts get the reason `generation_length`; `ended` tells them apart
("tokens", "full"). `NEGATIVE_TERMINATION_REASONS_FOR_TRAINING` lets the trainer learn from both, as from
every end the model brings about; a conversation that has no room left at the head of the loop or after a
block (`max_model_len`), a limit of time, the engine and the sandbox are the other ends.
`TrainedByItsEnd` says that the labels, and the test of the turns after the loop, keep the two kinds apart.

Left out: tool statistics other than the number of calls, final claims, tokens, tensors; the
exit `missing_code_block`, which would need the extraction of a block to fail on the text in
which it succeeded one iteration before; the assertions on the lengths of the collected tensors
(`SG:1197-1210`), which would end the training and change nothing. Bounds: `MaxBatches`.

### RewardBatch: `verl/workers/reward_manager/verigraph.py`

One call of the reward manager: `Payloads` and `InferPayloads` select what is judged, `Begin` and `End`
are the tasks behind the semaphore, `FinalsJudged` and `InfersJudged` the returns of `gather()`, and
`TotalReward` the combination. A sample knows whether its trajectory is valid, was submitted, has
claims and a truth to compare with, its process reward and which of its steps can be judged.
Scores are in hundredths and rewards in ten-thousandths; a score of 1/3 is 33, and the mean over the
steps of a sample is rounded down, by less than `InferWeight` ten-thousandths of a reward. Left out: the
prompts, the parsing of the judge's answers (a score is one of those it can have), the overlong
settings, which the manager reads and never uses.

### Trainer: `recipe/dapo/dapo_ray_trainer.py`, `RT`, checkpoint manager

`fit()` over several launches. `Generate` is a generation batch from the draw to the decision what
to do with it: fresh uids, `Repeat`, the union by position with what the rollout returns in the order
of prompts (`GeneratedFrom`), rewards, the filter and the cut to `TrainBatch * N` rows. `Update`,
`Validate`, `BeginSave` ... `TrackerSaved`, `StepEnds` follow; `PassEnds` is the end of a pass over
the data, `RewardFails` an exception of the reward manager (the retry in the `except` branch returns
a dictionary where a tensor is needed), `Relaunch` a kill at any point, `Load` the resumption.
A policy is the list of its updates, an update the number of batches drawn along the policy's history
up to it, which survives a relaunch in `data.pt`.

Modelled as `scripts/run_rl.sh` configures it: groups are filtered, GRPO-style advantages, no critic, no
reward model, no validation before the training, `do_execute` off. Assumed of libraries: a
StatefulDataLoader resumes where its state was taken, at the end of a pass with an empty remainder.
Left out: tensors, losses, the balancing of a batch over workers, logging. Bound: `MaxLaunches`; with
it `Steps`, since a launch after the last step makes one more.

## 3. Runs

| Run | Instance | Question |
|---|---|---|
| `exec_shared` | 2 executing threads, 1 closing, 2 calls each, 4 workers | Safety under every interleaving of two users of one executor: `ResponseIsMine`, `OneSandbox`, `SnapshotSound`, `CloseStopsCode`, `NoOrphanBeforeClose`, `RaisesOnlyWhenForced`, `BrokenIsFinal` |
| `exec_agent` | 1 executing thread, 2 closing, 3 calls, 3 workers | The agents' use, two racing closes included, `ImplementsSandbox` |
| `exec_live` | 2 executing, 1 closing, 1 call each | `ExecuteReturns` with a limit, `CloseReturns` and `CloseUnblocks` without |
| `exec_message` | 2 executing | fails, see 5 |
| `agent` | 4 turns, 3 claims, either agent | `AnswerFromSandbox`, `StopsAfterSubmission`, `EvidenceFrozen`, `LoopEnds` |
| `runner` | 3 questions, 2 at a time, 1 at the server, 3 launches | `NoErrorOnDisk`, `DoneIsSaved`, `SandboxesClosed`, `AnswerSurvives`, `LaunchEnds` with agents that hang |
| `demo` | 2 handlers, 1 event before the last ones, 2 faults, 1 restart | `ResultComplete`, `ReportReachesPage`, `ReadersEnd` |
| `rollout` | 2 requests, 2 turns, 2 batches of either kind | `ValidMeansSubmitted`, `TrainedByItsEnd`, `LastBlockRuns`, `RuntimesClosed`, `BatchEnds` |
| `rollout_params` | 2 requests, 1 turn, 1 batch | fails, see 5 |
| `reward` | 3 samples of 6 kinds, 2 calls at a time, the weights of `run_rl.sh` | `OwnScore`, `MissingIsWorst` |
| `trainer` | 2 prompts in a batch of either kind, groups of 2, 3 batches at most for an update, 2 passes of 2 batches, 3 launches, 2 checkpoints kept | `GroupsWhole`, `TrackedIsComplete`, `NothingTwice` |
| `trainer_validation` | the same with the reward manager of `run_rl.sh` | fails, see 5 |

*Why the bounds are enough to be of interest.* The executor's races are between a thread that
holds the lock, one that waits for it and one that closes without it: two and one show all
three. Four workers are one more than the interleavings of four calls start. Two calls let a
late response meet a second request. The agent's run has a third call so that the cache is
refreshed, missed and refreshed. Four turns have room for a block that makes claims, one that is
lost after the submission, one that is refused and the last, which is not run; three claims make a
chain and a claim beside it. Three questions at two at a time make a task wait at the gate
while others are cancelled; one at the server makes one wait at the inner semaphore; three
launches allow a kill, an abort and a clean end in any order. Two handlers are the one of a broken
connection and its successor; two faults break the stream and lose a request, and a restart comes
on top. Two turns put an ordinary turn
before the last one; two batches show what one leaves to the next. Three samples let one that is
not judged stand before, between or behind judged ones. Groups of two from two prompts can be
kept, dropped and cut off; an update may take one, two or three batches, and kills fall between any
two of the files of the first, second and third checkpoint. `test_freq` 1 and `save_freq` 2 make an
odd step be saved only for its accuracy. Symmetry is used
only in runs of safety properties, over sets whose members the specification does not tell
apart. Deadlock is checked in `agent`. Elsewhere the system stops by itself: callers stop calling,
a launch, a run or a batch ends, the bound is reached, and an idle executor waits for ever.

*Fairness.*

- Executor: weak fairness of each thread that was called, none of the workers. A block may loop
  for ever, a process may never come up, a response may never come; threads of an operating
  system are scheduled. The polling loop takes a time-out when it is enabled for good, which the
  deadline guarantees.
- Runner: weak fairness of a task's own steps and its time limit (`Driven`), and of the end of a
  launch. Asyncio runs what is ready, `wait_for` fires, threads that write are joined. Not
  assumed: that an agent answers or raises, that a launch is started.
- Agent: weak fairness of the coroutine's steps, of the end of a model call (the client has a time
  limit, so it ends in a response or an exception) and of the time limit of a block. Not assumed:
  that a block ends by itself.
- Demo: weak fairness of the run thread, of each handler thread (`get()` times out), of the browser's
  reconnecting and its timers, of requests being served, and that the agent ends. Not assumed: that
  the thread of a waiting model call runs on, that a connection holds; faults are finitely many.
- Rollout: weak fairness of what the event loop, the ten-minute limit of the engine call and the
  sandbox bring about (`Driven`), and of the collection. Not assumed: that the engine answers. That a
  block comes back is `ExecuteReturns`, since the rollout always sets a limit.

## 4. Proofs

TLAPS checks, for every set of threads, questions, requests or samples, any number of turns, claims,
prompts or training steps, and all bounds that satisfy the named assumptions:

| Theorem | Property |
|---|---|
| `CodeExecutorProofs!TypeCorrect`, `AnswersFromOneSandbox`, `CloseIsFinal`, `BrokenIsSilent` | `TypeOK`, `OneSandbox`, `CloseStopsCode`, `BrokenIsFinal` |
| `CodeExecutorRefinement!AnswersOwnRequest`, `NoWorkerIsLost`, `SnapshotsAreSound`, `OnlyForcedCloseRaises` | `ResponseIsMine`, `NoOrphanBeforeClose`, `SnapshotSound`, `RaisesOnlyWhenForced` |
| `CodeExecutorRefinement!ExecutorIsSandbox` | `ImplementsSandbox`, for one executing thread and any number of closing ones |
| `ExperimentProofs!TypeCorrect`, `ErrorsAreNotSaved`, `ReportedIsSaved`, `SandboxesAreClosed`, `SavedAnswersSurvive` | `TypeOK`, `NoErrorOnDisk`, `DoneIsSaved`, `SandboxesClosed`, `AnswerSurvives` |
| `RolloutProofs!TypeCorrect`, `ValidIsSubmitted`, `TrainingFitsTheEnd`, `LastBlockIsRun`, `RuntimesAreClosed` | `TypeOK`, `ValidMeansSubmitted`, `TrainedByItsEnd`, `LastBlockRuns`, `RuntimesClosed` |
| `AgentLoopProofs!TypeCorrect`, `PredictionIsSubmitted`, `SubmissionStops`, `EvidenceIsFrozen` | `TypeOK`, `AnswerFromSandbox`, `StopsAfterSubmission`, `EvidenceFrozen` |
| `DemoSessionProofs!TypeCorrect`, `ServedResultIsComplete` | `TypeOK`, `ResultComplete` |
| `RewardBatchProofs!SamplesGetTheirScores` | `OwnScore`, if `InferWeight > 0` |
| `RewardBatchProofs!MissingNeverPays` | `MissingIsWorst`, if the weights allow it (below) |
| `TrainerProofs!TypeCorrect`, `NoBatchTwice`, `UpdatesAreWholeGroups` | `TypeOK`, `NothingTwice`, `GroupsWhole` |
| `TrainerProofs!TrackedCheckpointIsComplete` | `TrackedIsComplete`, for every `Keep` but 1 |

Each module proves an invariant inductive (`IInv`; for RewardBatch `CallInv`), with a lemma per part or
per kind of step, and draws the theorems from it. Every invariant and every action property that a
passing run checks is stated by one of these theorems.

*Executor.* `TypeOK /\ LockInv /\ RoleInv /\ SpawnInv /\ PipeInv /\ CodeInv`. `LockInv`: the
threads inside the protected block are the holders, and there is at most one. `RoleInv`: a thread
of `Executors` that terminates a worker has marked the executor broken, and one that serves a
request does so on an executor that is not broken. `SpawnInv`: a second worker is started only
when the executor is closed or broken, and a thread that talks to a pipe talks to the first
worker's. From these follows `OneSandbox`, although the test in front of the spawn is stale.
`CodeInv` is the argument for `close()`: code sits only in the worker named by `_process`, none
while a thread is about to forget that worker, and a thread about to send finds the pipe gone
once a closer has passed the point where it takes it. Without it `CloseStopsCode` is not
inductive: the closer's last steps say nothing of a sender that still holds the lock.

`MoreInv` adds five parts to `IInv`, and `UpdateInv` where there is one executing thread.
`RequestInv` is the argument for `ResponseIsMine`: a pipe is empty when a thread is about to send, and
while a thread waits it holds that thread's request or the response to it and nothing else. Whoever
leaves a request behind leaves the executor closed or broken, or the worker dead, and no later call
gets as far as that pipe. `OrphanInv`: until `close()` is called, the worker that a thread forgets is dead
and `_process` and `_conn` are set together. `RaiseInv`: unless a closer goes on without the lock, a
thread inside `_terminate_worker` finds the process there. `SoundInv` lets a snapshot be behind the
state of its worker, in the cache, in a thread's hands or in a pipe, but never beside it. `EndInv`:
a `close()` that has ended left no code, and every thread that still holds a pipe is ahead of it.

*Executor and Sandbox.* `InitMaps` and `StepMaps`: the initial state is one of `Sandbox` under the mapping
of section 2, and a step is a step of `Sandbox` or leaves its variables alone. `BreakMaps` is for the steps
that end something, `WorkMaps` for the worker, `CloserMaps` and `ExecutorMaps` for the threads. `UpdateInv`
says that between an answer and its being cached no code runs, so that what is cached is the content.
`StartInv` says what is shown while the worker starts: the first content, so that a startup's own snapshot
changes nothing. `ProcessInv` says that a thread inside `_communicate` finds `_process` set unless the
executor is closed or broken; with it `LostIsOver` shows that a call without an answer leaves the executor
closed or broken or its process dead, and so is a `Lose`. With two executing threads `UpdateInv` does not hold.

*Runner.* `WriterInv`: only a task that found no answer works on its question and only its thread
has the file open, so an open file never held an answer. It holds in every phase, for the thread
that outlives its task too, which is what makes `AnswerSurvives` (an action property) hold over
relaunches. `EndedInv` holds while nobody is cancelled: a task that ended has closed its sandbox
and its result is on disk. `PhaseInv`: between launches nothing runs.

*Rollout.* `AwaitInv`: what is known at each await, that is how many of the turns were executed,
that no verdict was passed, that a new request has no sandbox. `VerdictInv`: the verdict after the
loop, by what ended it. `EndStep` shows that `End` establishes it from what each caller knows, `HeadStep` lifts
this to the head of the loop.

*Agent.* `GraphInv`: edges and final claims are claims of the graph. `Grown(g, h)`: h is what code may
have made of g; it holds from the snapshot to the graph and from the graph to the next one.
`LoopInv`: while further calls are accepted and code may run, the snapshot is behind the graph only inside a
block, which is why a submission is always noticed before a further block is given to a worker. Of the
sandbox it needs only what `Lose` and `Work` promise: after a lost block no call is accepted or nothing runs.
`EvidenceStays`: the support of a set of claims is a least fixed point, written as the claims in every
closed set that holds them, so that no induction is needed to see that new claims do not change it.

*Demo.* `FileInv`: the files of a result are written in the order of `Files`, so that a report on disk
means a whole graph, also after a restart in the middle, and a page that goes on to ask for the graph has
seen the report. Nothing of this depends on the queue, the handlers or the page's flags, which only
`TypeOK` has to follow.

*Reward.* `CallInv`: a finished call has the result of the request at its own position, so what `gather()`
returns is in the order of the payloads whatever the order of the answers. The payloads are lists that
nested loops collect; `PayloadMembers` and `InferMembers` say what is in them, and so each sample finds
its own score. `InferWeight > 0` is needed since otherwise the steps are
not judged; `run_rl.sh` sets it. `MissingNeverPays` needs that, clipped, `Best` (the most without a
submission) is not above `Worst` (the least with one). The weights of `run_rl.sh` satisfy that: the two are
-4500 and -4250, and both are clipped to -3000. With a penalty of -84 instead of -100 they would not.

*Trainer, checkpoints.* `PolicyInv`: the policy in memory was updated once per step. `TrackerInv`: the tracker is
behind the step until it is written, so a new checkpoint never overwrites the tracked one.
`WrittenInv`: the files written so far belong to the policy in memory. `SavedInv`: this launch
remembers its checkpoints in increasing order and the tracker names the last, so the removal, which
takes the oldest, spares it as soon as more than one is kept. With `Keep = 1` it does not, and the
theorem excludes it.

*Trainer, data.* `DrawInv`: every batch of this step was drawn after the last update of the policy, and the
batches the dataloader still holds bound what can be drawn. `DataInv`: what a `data.pt` holds, a later launch
can take up, so a resumption re-establishes `DrawInv`. `BatchInv`: the collected rows are blocks of N,
two rows having the same uid exactly if they are in the same block (`Grouped`), each row with the response to
its own prompt (`Matched`) and each block with differing rewards (`Mixed`). A lemma per list operation
shows that this survives it: `NewGroups` for repetition and union, `KeptGroups` for the filter,
`JoinedGroups` for the concatenation, `CutGroups` for the cut. `Grouped` is stronger than what `GroupsWhole`
says of uids: without the positions the cut to `TrainBatch * N` rows could split a group.

*Lists.* What a loop collects is written with `FlattenSeq` of the community modules, a recursive function.
That it exists and grows by one list at a time (`GrownExists`, `FlattenGrows`) is proved from
`Induction`, which speaks of a set of numbers instead of an operator and follows from the library's theorem on
minimal elements. The rest is by that lemma.

Assumptions: `ThreadsAssumption` (executing and closing threads are named apart),
`BoundsAssumption` in each module (bounds are naturals), for the runner that the questions are a
finite set, for the trainer that sizes, passes and frequencies are positive (`ConfigAssumption`). TLC evaluates them in the runs.
The hypotheses of single theorems, named in the table, hold in the runs too.

Only model-checked: the liveness properties (`ExecuteReturns`, `CloseReturns`, `CloseUnblocks`, `LoopEnds`,
`LaunchEnds`, `ReportReachesPage`, `ReadersEnd`, `BatchEnds`), since fairness and ENABLED are out of the
prover's reach, and the three statements that fail (section 5).

## 5. Where the code disagrees with its own words

- `exec_message`. "CodeExecutor is unavailable because the worker process has stopped."
  (`code_executor.py:367`). A call that passed the tests and waited for the lock while another
  timed out tests only `_process` afterwards (line 370), starts a fresh worker on the broken
  executor, and is refused by `_communicate`. The executor then refuses every call with this
  message while that worker is alive, until `close()`.
- `rollout_params`. "Parameters are automatically fall back to their original values upon exiting
  the block." (`SG:526-527`). The block is held across an await and the parameters are shared: of two
  overlapping calls in a validation batch the second saves the validation's values and, leaving
  last, restores them. Training rollouts do not override these parameters and are then sampled
  with them.
- `trainer_validation`. "`trainer.test_freq`: The validation frequency (by iteration)"
  (`docs/examples/config.rst:535`). `run_rl.sh` sets it to 10 with the reward manager `verigraph`. The
  validation decides by `metric_dict['val/val_accuracy']` (`RT:785`) whether the step is worth a
  checkpoint, a key that the manager's `reward_extra_info` does not give rise to. The first
  validation ends the training with a `KeyError`; with `save_freq` beyond it nothing was saved.

Two more, without a run of their own:

- "latest checkpointed iteration tracker (for atomic usage)" (`RT:920`). The file is opened with "w"
  (`RT:922`) and then written: a kill in between leaves an empty file, on which every later launch raises,
  although all checkpoints are whole. Trainer has both steps and ends such a launch in `noCheckpoint`;
  `TrackedIsComplete` speaks of a tracker that can be read.
- `tests/workers/reward_manager/test_verigraph_reward_manager_on_cpu.py:97` expects the reward 0.0 for a
  sample without a submission. The manager's defaults subtract 1.0 for it and clip the sum to -0.3, and so
  does `TotalReward`. The order that `MissingIsWorst` claims is not touched by it.

Observed and not a disagreement with any text of the repository:

- A torn result file makes every later launch of the runner abort, because `load_json` is outside
  the `try` of `run_one`; it is never taken for a result (`DoneIsSaved`).
- Old checkpoints are removed before the new one is written. With a single one kept, a kill in
  between leaves a tracker that names a removed step; the run keeps two.
- `total_training_steps` is computed from the length of the dataloader, so it is not reached when a
  batch was filtered out or an update takes several batches: `fit()` then ends when the data does,
  without the validation and the checkpoint of a last step.
- A call of the judge that fails counts -1, which is below the worst judgement, 0.
- After a failed run the page may say "reconnecting" until the done event arrives.

## 6. Not modelled

- The judge (`src/evaluation/judge.py`): a thread per result and one list of results; what can go
  wrong, one exception that drops everything, is visible in its last ten lines.
- The rest of the vendored training framework (workers, models, kernels, other recipes), tensors and
  tokenisation. It is most of the code under `src/training/rl`, runs inside calls that the loop of
  Trainer takes as one step, and computes numbers that no property here tells apart.
- Prompts, serving scripts, data preparation: constant text and conversions without state.
- The retries inside the OpenAI client; the interpreter pool under `src/training/rl/agent`, which the
  VeriGraph path never uses.
- What a block of code does to files is not in the source.

Parts left out of the modelled components are named with their modules in 2.

## 7. Plan

1. `CodeExecutor`, `Experiment`, `Rollout` with their proofs: done.
2. `Sandbox`, `EvidenceGraph`, `AgentLoop`, `DemoSession`, `RewardBatch`, `Trainer`: modelled and
   checked.
3. `AgentLoopProofs`, `TrainerProofs`, `DemoSessionProofs`, `RewardBatchProofs`, `CodeExecutorRefinement`:
   done.
4. Next: safety facts that the liveness properties rest on (which thread is waited for, that a limit is
   always set), and that each message of the page is of the run it shows.

To reproduce: `tlc -config X.cfg M` for a run of the table with the module of its row, `tlapm M.tla`
for a module of proofs (about a minute each).
