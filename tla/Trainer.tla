------------------------------- MODULE Trainer -------------------------------
(***************************************************************************)
(* RayDAPOTrainer.fit(): generation batches are drawn, rolled out, scored  *)
(* and filtered until enough groups of rollouts are left for one update;   *)
(* then the policy is updated, validated and saved.  With it go            *)
(* _validate(), _save_checkpoint() and _load_checkpoint() of               *)
(* RayPPOTrainer and the checkpoint manager, over several launches, each   *)
(* of which may be killed at any point.                                    *)
(*                                                                         *)
(* A policy is the sequence of its updates, an update the number of        *)
(* generation batches that were drawn before it.  Rewards are 0 or 1: only *)
(* whether they differ within a group matters.                             *)
(***************************************************************************)
EXTENDS Naturals, Sequences, FiniteSets, SequencesExt

CONSTANTS GenBatch,     \* data.gen_batch_size, in prompts
          TrainBatch,   \* data.train_batch_size, in prompts
          N,            \* rollout.n
          MaxGen,       \* filter_groups.max_num_gen_batches; 0 is no limit
          PassLen,      \* len(train_dataloader)
          Epochs,       \* trainer.total_epochs
          SaveFreq, TestFreq,
          Keep,         \* max_actor_ckpt_to_keep; 0 is None
          InfoKeys,     \* keys of the reward manager's reward_extra_info
          MaxLaunches   \* bound

ASSUME ConfigAssumption ==
  /\ GenBatch \in Nat \ {0} /\ TrainBatch \in Nat \ {0} /\ N \in Nat \ {0}
  /\ PassLen \in Nat \ {0} /\ Epochs \in Nat \ {0} /\ SaveFreq \in Nat \ {0} /\ TestFreq \in Nat \ {0}
  /\ MaxGen \in Nat /\ Keep \in Nat /\ MaxLaunches \in Nat \ {0}

\* The keys of the two reward managers.
VerigraphInfo == {"reward/process", "reward/final_judge", "reward/total", "reward/infer",
                  "reward/failure_penalty", "trajectory/tool_success_rate",
                  "trajectory/valid_submit_rate", "trajectory/final_claim_count",
                  "trajectory/infer_count", "trajectory/infer_success_rate"}
DapoInfo == {"total_score", "answer_score", "accuracy", "valid_response_length"}

TotalSteps == PassLen * Epochs

\* Bound of the model, not of the code: a launch after the last step makes one more.
Steps == 1..(TotalSteps + MaxLaunches)

VARIABLES
  pc,         \* next part of fit()
  step,       \* global_steps
  epoch,      \* passes over the data this launch has begun
  left,       \* batches left in the current pass of the dataloader
  drawn,      \* batches drawn on the way to this policy
  batch,      \* the rows kept so far
  numPrompt, numGen,
  policy,     \* the updates of the policy in memory
  scored,     \* val_acc is not 0
  need,       \* need_save_ckpt
  saved,      \* previous_saved_paths of the checkpoint manager
  actor,      \* the "actor" directory of every step on disk
  data,       \* its data.pt
  tracker,    \* latest_checkpointed_iteration.txt
  launches

loop   == <<step, epoch, left, drawn>>
rows   == <<batch, numPrompt, numGen>>
val    == <<scored, need>>
disk   == <<actor, data, tracker>>
vars   == <<pc, loop, rows, policy, val, saved, disk, launches>>

Absent == [is |-> "absent"]
Partial == [is |-> "partial"]

Prompts == (1..(PassLen * Epochs * MaxLaunches)) \X (1..GenBatch)
Uids == (1..(PassLen * Epochs)) \X (1..GenBatch)
Row == [uid : Uids, prompt : Prompts, from : Prompts, reward : {0, 1}]

\* Between two batches fewer groups than an update needs are held, and fewer batches were
\* generated for it than the limit allows.
TypeOK ==
  /\ pc \in {"launch", "draw", "update", "validate", "save", "actor", "data", "dataFile",
             "tracker", "trackerFile", "stepEnds", "done", "exhausted", "tooDifficult",
             "rewardFailed", "noAccuracy", "noCheckpoint"}
  /\ step \in 0..(TotalSteps + MaxLaunches) /\ epoch \in 0..Epochs
  /\ left \in 0..PassLen /\ drawn \in 0..(PassLen * Epochs * MaxLaunches)
  /\ \A i \in DOMAIN batch : batch[i] \in Row
  /\ pc = "draw" => Len(batch) = numPrompt * N /\ numPrompt < TrainBatch
  /\ pc = "draw" /\ MaxGen > 0 => numGen < MaxGen
  /\ scored \in BOOLEAN /\ need \in BOOLEAN /\ launches \in 1..MaxLaunches
  /\ \A i \in DOMAIN saved : saved[i] \in Steps
  /\ Keep > 0 => Len(saved) <= Keep
  /\ \A s \in Steps : actor[s].is \in {"absent", "partial", "complete"}
                      /\ data[s].is \in {"absent", "partial", "complete"}
  /\ tracker.is \in {"absent", "partial", "complete"}
  /\ tracker.is = "complete" => tracker.step \in Steps

Init ==
  /\ pc = "launch" /\ step = 0 /\ epoch = 0 /\ left = PassLen /\ drawn = 0
  /\ batch = <<>> /\ numPrompt = 0 /\ numGen = 0 /\ policy = <<>>
  /\ scored = FALSE /\ need = FALSE /\ saved = <<>>
  /\ actor = [s \in Steps |-> Absent] /\ data = [s \in Steps |-> Absent]
  /\ tracker = Absent /\ launches = 1

-----------------------------------------------------------------------------
(* _load_checkpoint(), resume_mode "auto"                                  *)

StartsAt(s, p, d, l) ==
  /\ step' = s + 1 /\ policy' = p /\ drawn' = d /\ left' = l
  /\ pc' = "draw"

\* Mutation: the state of the dataloader is not loaded.
LoadedWithoutData(s) == StartsAt(s, actor[s].policy, 0, PassLen)

\* The actor and, if it is there, the position in the data.
Loaded(s) ==
  IF data[s].is = "absent" THEN StartsAt(s, actor[s].policy, 0, PassLen)
                           ELSE StartsAt(s, actor[s].policy, data[s].drawn, data[s].left)

\* Without a tracker training starts from scratch.  A tracker that is empty and files that are
\* missing or cut off raise.
Load ==
  /\ pc = "launch"
  /\ CASE tracker.is = "absent" -> StartsAt(0, <<>>, 0, PassLen)
       [] tracker.is = "complete" /\ actor[tracker.step].is = "complete"
                                 /\ data[tracker.step].is # "partial" -> Loaded(tracker.step)
       [] OTHER -> pc' = "noCheckpoint" /\ UNCHANGED <<step, policy, drawn, left>>
  /\ UNCHANGED <<epoch, rows, val, saved, disk, launches>>

-----------------------------------------------------------------------------
(* One generation batch                                                    *)

\* Mutation: the whole batch is repeated, not each row.
RepeatTiled(s, n) == [k \in 1..(Len(s) * n) |-> s[((k - 1) % Len(s)) + 1]]

\* DataProto.repeat(interleave=True)
Repeat(s, n) == [k \in 1..(Len(s) * n) |-> s[(k - 1) \div n + 1]]

\* The trajectories come back sorted by prompt and rollout, whatever their order of completion.
GeneratedFrom(prompts) ==
  LET Before(a, b) == a[1] < b[1] \/ (a[1] = b[1] /\ a[2] < b[2])
      all == (1..Len(prompts)) \X (1..N)
  IN [k \in 1..(Len(prompts) * N) |->
        prompts[(CHOOSE a \in all : Cardinality({b \in all : Before(b, a)}) = k - 1)[1]]]

\* The rows of the batch: fresh uids, repeated, joined by position with what was generated and
\* with the rewards.
NewBatch(d, g, reward) ==
  LET prompts == [i \in 1..GenBatch |-> <<d, i>>]
      labels  == Repeat([i \in 1..GenBatch |-> [uid |-> <<g, i>>, prompt |-> prompts[i]]], N)
      outputs == GeneratedFrom(prompts)
  IN [k \in 1..(GenBatch * N) |->
        [uid |-> labels[k].uid, prompt |-> labels[k].prompt, from |-> outputs[k],
         reward |-> reward[k]]]

GroupOf(b, u) == {i \in DOMAIN b : b[i].uid = u}

\* The standard deviation of the rewards of a group is positive, or the group is one row.
Differs(b, u) ==
  \/ \E i, j \in GroupOf(b, u) : b[i].reward # b[j].reward
  \/ Cardinality(GroupOf(b, u)) = 1

KeptUids(b) == {u \in {b[i].uid : i \in DOMAIN b} : Differs(b, u)}

\* kept_traj_idxs: the rows of the groups that are kept, in their order.
KeptIdxs(b) ==
  LET kept == KeptUids(b)
  IN FlattenSeq([k \in DOMAIN b |-> IF b[k].uid \in kept THEN <<k>> ELSE <<>>])

KeptRows(b) == LET idxs == KeptIdxs(b) IN [p \in DOMAIN idxs |-> b[idxs[p]]]

\* A batch is drawn, rolled out, scored and filtered.  Too few groups: another one, up to the
\* limit.  Enough: the groups beyond the size of the update are cut off.
Generate ==
  /\ pc = "draw" /\ left > 0
  /\ left' = left - 1 /\ drawn' = drawn + 1 /\ numGen' = numGen + 1
  /\ \E reward \in [1..(GenBatch * N) -> {0, 1}] :
       LET new  == NewBatch(drawn + 1, numGen + 1, reward)
           kept == numPrompt + Cardinality(KeptUids(new))
           all  == batch \o KeptRows(new)
       IN /\ numPrompt' = kept
          /\ batch' = IF kept < TrainBatch THEN all ELSE SubSeq(all, 1, TrainBatch * N)
          /\ pc' = IF kept >= TrainBatch THEN "update"
                   ELSE IF MaxGen = 0 \/ numGen + 1 < MaxGen THEN "draw"
                   ELSE "tooDifficult"
  /\ UNCHANGED <<step, epoch, policy, val, saved, disk, launches>>

\* The reward manager raises.  It is called again, without return_dict: what it then returns,
\* if it does, is still a dictionary and no tensor.
RewardFails ==
  /\ pc = "draw" /\ left > 0
  /\ pc' = "rewardFailed"
  /\ UNCHANGED <<loop, rows, policy, val, saved, disk, launches>>

\* The pass is over: the next one, or the end of fit().
PassEnds ==
  /\ pc = "draw" /\ left = 0
  /\ epoch' = epoch + 1
  /\ IF epoch + 1 < Epochs THEN left' = PassLen /\ UNCHANGED pc
                           ELSE pc' = "exhausted" /\ UNCHANGED left
  /\ UNCHANGED <<step, drawn, rows, policy, val, saved, disk, launches>>

-----------------------------------------------------------------------------
(* The update, the validation and the end of a step                        *)

IsLastStep == step >= TotalSteps

Update ==
  /\ pc = "update"
  /\ policy' = Append(policy, drawn)
  /\ pc' = IF IsLastStep \/ step % TestFreq = 0 THEN "validate" ELSE "save"
  /\ UNCHANGED <<loop, rows, val, saved, disk, launches>>

\* metric_dict['val/val_accuracy'] decides whether the step is worth a checkpoint.  The first
\* accuracy is only remembered.
Validate ==
  /\ pc = "validate"
  /\ IF "accuracy" \notin InfoKeys
     THEN pc' = "noAccuracy" /\ UNCHANGED val
     ELSE /\ pc' = "save"
          /\ \/ scored' = TRUE /\ need' = (need \/ scored)
             \/ need' = FALSE /\ UNCHANGED scored
  /\ UNCHANGED <<loop, rows, policy, saved, disk, launches>>

\* Mutation: the number of generated batches is not reset.
StepEndsKeepsCount ==
  /\ pc = "stepEnds"
  /\ batch' = <<>> /\ numPrompt' = 0
  /\ IF IsLastStep THEN pc' = "done" /\ UNCHANGED step
                   ELSE pc' = "draw" /\ step' = step + 1
  /\ UNCHANGED <<epoch, left, drawn, numGen, policy, val, saved, disk, launches>>

StepEnds ==
  /\ pc = "stepEnds"
  /\ batch' = <<>> /\ numPrompt' = 0 /\ numGen' = 0
  /\ IF IsLastStep THEN pc' = "done" /\ UNCHANGED step
                   ELSE pc' = "draw" /\ step' = step + 1
  /\ UNCHANGED <<epoch, left, drawn, policy, val, saved, disk, launches>>

-----------------------------------------------------------------------------
(* _save_checkpoint()                                                      *)

\* Mutation: one checkpoint too many is removed.
RemovedOneMore == IF Keep > 0 /\ Len(saved) >= Keep THEN Len(saved) - Keep + 2 ELSE 0

\* How many of the checkpoints of this launch, oldest first, make room for the new one.
Removed == IF Keep > 0 /\ Len(saved) >= Keep THEN Len(saved) - Keep + 1 ELSE 0

\* Old checkpoints are removed before the new one is written.
BeginSave ==
  /\ pc = "save"
  /\ IF IsLastStep \/ step % SaveFreq = 0 \/ need
     THEN /\ pc' = "actor"
          /\ actor' = [s \in Steps |->
                         IF s = step THEN Partial
                         ELSE IF \E i \in 1..Removed : saved[i] = s THEN Absent
                         ELSE actor[s]]
          /\ saved' = SubSeq(saved, Removed + 1, Len(saved))
     ELSE pc' = "stepEnds" /\ UNCHANGED <<actor, saved>>
  /\ UNCHANGED <<loop, rows, policy, val, data, tracker, launches>>

ActorSaved ==
  /\ pc = "actor"
  /\ actor' = [actor EXCEPT ![step] = [is |-> "complete", policy |-> policy]]
  /\ saved' = Append(saved, step)
  /\ pc' = "data"
  /\ UNCHANGED <<loop, rows, policy, val, data, tracker, launches>>

\* torch.save() opens data.pt ...
OpenData ==
  /\ pc = "data"
  /\ data' = [data EXCEPT ![step] = Partial]
  /\ pc' = "dataFile"
  /\ UNCHANGED <<loop, rows, policy, val, saved, actor, tracker, launches>>

\* ... and writes it.
DataSaved ==
  /\ pc = "dataFile"
  /\ data' = [data EXCEPT ![step] = [is |-> "complete", drawn |-> drawn, left |-> left]]
  /\ pc' = "tracker"
  /\ UNCHANGED <<loop, rows, policy, val, saved, actor, tracker, launches>>

\* open(..., "w") empties the tracker ...
OpenTracker ==
  /\ pc = "tracker"
  /\ tracker' = Partial /\ pc' = "trackerFile"
  /\ UNCHANGED <<loop, rows, policy, val, saved, actor, data, launches>>

\* ... before the number is in it.
TrackerSaved ==
  /\ pc = "trackerFile"
  /\ tracker' = [is |-> "complete", step |-> step] /\ need' = FALSE /\ pc' = "stepEnds"
  /\ UNCHANGED <<loop, rows, policy, scored, saved, actor, data, launches>>

Save == BeginSave \/ ActorSaved \/ OpenData \/ DataSaved \/ OpenTracker \/ TrackerSaved

-----------------------------------------------------------------------------
\* The training is killed or has ended, and is launched again: what was in memory is gone.
Relaunch ==
  /\ pc # "launch" /\ launches < MaxLaunches
  /\ launches' = launches + 1
  /\ pc' = "launch" /\ step' = 0 /\ epoch' = 0 /\ left' = PassLen /\ drawn' = 0
  /\ batch' = <<>> /\ numPrompt' = 0 /\ numGen' = 0 /\ policy' = <<>>
  /\ scored' = FALSE /\ need' = FALSE /\ saved' = <<>>
  /\ UNCHANGED disk

Next == Load \/ Generate \/ RewardFails \/ PassEnds \/ Update \/ Validate \/ StepEnds \/ Save \/ Relaunch

Spec == Init /\ [][Next]_vars

-----------------------------------------------------------------------------
(* Properties                                                              *)

\* An update is made from exactly TrainBatch groups.  A group is all the rollouts of one prompt,
\* each row carries the response to its own prompt, and the rewards within a group differ: an
\* advantage is never computed over the rollouts of two prompts or over a group that was cut.
GroupsWhole ==
  pc = "update" =>
    /\ Cardinality({batch[i].uid : i \in DOMAIN batch}) = TrainBatch
    /\ \A i \in DOMAIN batch :
         LET r == batch[i] IN
           /\ r.from = r.prompt
           /\ Cardinality(GroupOf(batch, r.uid)) = N
           /\ \A j \in DOMAIN batch : batch[j].uid = r.uid <=> batch[j].from = r.from
           /\ Differs(batch, r.uid)

\* Wherever the training was killed, the step the tracker names can be resumed: its actor and its
\* position in the data are whole and belong together.
TrackedIsComplete ==
  tracker.is = "complete" =>
    LET s == tracker.step IN
      /\ actor[s].is = "complete" /\ data[s].is = "complete"
      /\ Len(actor[s].policy) = s
      /\ actor[s].policy[s] = data[s].drawn

\* Through kills and relaunches, no generation batch goes into the policy twice: each update is
\* made from batches drawn after those of the update before, and the policy of a step has as many
\* updates.
NothingTwice ==
  /\ \A i \in 1..(Len(policy) - 1) : policy[i] < policy[i + 1]
  /\ pc = "draw" => Len(policy) = step - 1
  /\ pc \in {"draw", "update"} /\ policy # <<>> =>
       \A i \in DOMAIN batch : batch[i].prompt[1] > policy[Len(policy)]

\* "trainer.test_freq: The validation frequency (by iteration)" (docs/examples/config.rst:535): a
\* validation that is due does not end the training.
ValidationReturns == pc # "noAccuracy"
=============================================================================
