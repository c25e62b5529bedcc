--------------------------- MODULE TrainerProofs ---------------------------
(* The checkpoints, the draws and the groups of Trainer, for every          *)
(* configuration and number of launches.                                    *)
EXTENDS Trainer, Integers, TLAPS, FiniteSetTheorems, WellFoundedInduction

-----------------------------------------------------------------------------
(* The inductive invariant.                                                *)

Collecting == {"draw", "update"}

Updated == {"validate", "save", "actor", "data", "dataFile", "tracker", "trackerFile", "stepEnds"}

\* The new checkpoint is not on disk yet.
Unsaved == {"draw", "update", "validate", "save", "actor"}

\* Its actor is, and is not named by the tracker.
Untracked == {"data", "dataFile", "tracker", "trackerFile"}

IsTracked == tracker.is = "complete"

LastSaved == saved[Len(saved)]

Increasing(p) == \A i \in 1..(Len(p) - 1) : p[i] < p[i + 1]

\* The policy in memory has been updated once for every step.
PolicyInv ==
  /\ policy \in Seq(Nat) /\ drawn \in Nat /\ step \in Nat /\ launches \in 1..MaxLaunches
  /\ step <= TotalSteps + launches /\ Increasing(policy)
  /\ pc \in Collecting \cup Updated => step \in 1..(TotalSteps + launches)
  /\ pc \in Collecting => Len(policy) + 1 = step
  /\ pc \in Updated => Len(policy) = step /\ policy[step] = drawn

\* The tracker names a checkpoint whose position in the data is whole, and one of an earlier step
\* until it is written.  Its actor is whole unless it was removed, as the only one that is kept.
TrackerInv ==
  /\ DOMAIN actor = Steps /\ DOMAIN data = Steps
  /\ IsTracked => /\ tracker.step \in Steps /\ tracker.step <= TotalSteps + launches
                  /\ data[tracker.step].is = "complete"
                  /\ Keep # 1 => actor[tracker.step].is = "complete"
  /\ IsTracked /\ actor[tracker.step].is = "complete" =>
       LET p == actor[tracker.step].policy IN
         /\ p \in Seq(Nat) /\ Len(p) = tracker.step /\ Increasing(p)
         /\ p[tracker.step] = data[tracker.step].drawn
  /\ IsTracked /\ pc = "launch" => tracker.step < TotalSteps + launches
  /\ IsTracked /\ pc \in Unsaved \cup Untracked => tracker.step < step
  /\ IsTracked /\ pc = "stepEnds" => tracker.step <= step

\* The part of the checkpoint that is written belongs to the policy in memory.
WrittenInv ==
  /\ pc \in Untracked => actor[step] = [is |-> "complete", policy |-> policy]
  /\ pc \in {"tracker", "trackerFile"} =>
       data[step] = [is |-> "complete", drawn |-> drawn, left |-> left]

\* This launch remembers its checkpoints oldest first, and the tracker names the last of them.
SavedInv ==
  /\ saved \in Seq(Steps)
  /\ \A i, j \in 1..Len(saved) : i < j => saved[i] < saved[j]
  /\ pc = "launch" => saved = <<>>
  /\ pc \in Unsaved => \A i \in 1..Len(saved) : saved[i] < step
  /\ pc \in Untracked \cup {"stepEnds"} => \A i \in 1..Len(saved) : saved[i] <= step
  /\ pc \in Untracked => saved # <<>> /\ LastSaved = step
  /\ pc \in Unsaved \cup {"stepEnds"} /\ saved # <<>> => IsTracked /\ tracker.step = LastSaved

\* The batches the passes of this launch still hold.
Ahead == left + PassLen * (Epochs - 1 - epoch)

\* A batch is only drawn if one is left, and every batch of this step was drawn after the last
\* update of the policy.
DrawInv ==
  /\ epoch \in 0..Epochs /\ left \in 0..PassLen
  /\ numGen \in Nat /\ numGen <= TotalSteps /\ numGen <= drawn /\ drawn <= TotalSteps * launches
  /\ pc = "launch" => numGen = 0 /\ epoch = 0
  /\ pc \in Collecting \cup Updated =>
       epoch < Epochs /\ drawn + Ahead <= TotalSteps * launches /\ numGen + Ahead <= TotalSteps
  /\ pc \in Collecting /\ policy # <<>> => policy[Len(policy)] <= drawn - numGen
  /\ pc = "update" => numGen > 0
  /\ pc = "draw" /\ MaxGen > 0 => numGen < MaxGen

\* What data.pt holds, a later launch can take up.
DataInv ==
  \A s \in Steps : data[s].is = "complete" =>
    /\ data[s].drawn \in Nat /\ data[s].left \in 0..PassLen
    /\ data[s].drawn <= TotalSteps * launches
    /\ pc = "launch" => data[s].drawn <= TotalSteps * (launches - 1)

\* The group of a row, by its position.
Block(k) == (k - 1) \div N

\* Two rows have the same uid exactly if they are in the same block of N rows.
Grouped(b) == \A k, l \in DOMAIN b : b[k].uid = b[l].uid <=> Block(k) = Block(l)

Mixed(b) ==
  N = 1 \/ \A k \in DOMAIN b : \E i, j \in DOMAIN b :
            Block(i) = Block(k) /\ Block(j) = Block(k) /\ b[i].reward # b[j].reward

\* A row carries the response to its own prompt, and its uid counts the batches of this step as
\* its prompt counts those of the data.
Matched(b, before) ==
  \A k \in DOMAIN b : /\ b[k].from = b[k].prompt /\ b[k].prompt[2] = b[k].uid[2]
                       /\ b[k].prompt[1] = b[k].uid[1] + before

\* The rows collected so far are whole groups.
BatchInv ==
  /\ batch \in Seq(Row) /\ numPrompt \in Nat
  /\ pc = "launch" => batch = <<>> /\ numPrompt = 0
  /\ pc \in Collecting =>
       /\ Grouped(batch) /\ Mixed(batch) /\ Matched(batch, drawn - numGen)
       /\ \A k \in DOMAIN batch : batch[k].uid[1] <= numGen
  /\ pc = "draw" => Len(batch) = N * numPrompt /\ numPrompt < TrainBatch
  /\ pc = "update" => Len(batch) = N * TrainBatch

IInv == PolicyInv /\ TrackerInv /\ WrittenInv /\ SavedInv

-----------------------------------------------------------------------------
(* It is inductive.                                                        *)

LEMMA TotalType == TotalSteps \in Nat \ {0}
  BY ConfigAssumption DEF TotalSteps

LEMMA InitInv == Init => IInv
  <1> SUFFICES ASSUME Init PROVE IInv
    OBVIOUS
  <1> USE TotalType, ConfigAssumption DEF Init, Absent, Collecting, Updated, Unsaved, Untracked
  <1>1. PolicyInv
    BY DEF PolicyInv, Increasing
  <1>2. TrackerInv
    BY DEF TrackerInv, IsTracked
  <1>3. WrittenInv
    BY DEF WrittenInv
  <1>4. SavedInv
    BY DEF SavedInv
  <1> QED
    BY <1>1, <1>2, <1>3, <1>4 DEF IInv

LEMMA SavedType ==
  ASSUME SavedInv
  PROVE  Len(saved) \in Nat /\ \A i \in 1..Len(saved) : saved[i] \in Nat
  BY TotalType, ConfigAssumption DEF SavedInv, Steps

\* Old checkpoints are removed, but not the one the tracker names.
LEMMA BeginSaveInv ==
  ASSUME IInv, BeginSave
  PROVE  IInv'
  <1> USE DEF Collecting, Updated, Unsaved, Untracked, IsTracked, LastSaved
  <1>1. /\ pc = "save" /\ pc' \in {"actor", "stepEnds"}
        /\ UNCHANGED <<step, epoch, left, drawn, policy, data, tracker, launches>>
    BY DEF BeginSave, loop
  <1>2. PolicyInv'
    BY <1>1 DEF IInv, PolicyInv
  <1>3. WrittenInv'
    BY <1>1 DEF WrittenInv
  <1>4. CASE pc' = "stepEnds"
    <2>0. IsTracked => tracker.step <= step
      BY <1>1, TotalType, ConfigAssumption DEF IInv, TrackerInv, PolicyInv, Steps
    <2>1. UNCHANGED <<actor, saved>>
      BY <1>4 DEF BeginSave
    <2>2. TrackerInv'
      BY <1>1, <1>4, <2>1, <2>0 DEF IInv, TrackerInv
    <2>3. \A i \in 1..Len(saved) : saved[i] <= step
      BY <1>1, SavedType DEF IInv, SavedInv, PolicyInv
    <2>4. SavedInv'
      BY <1>1, <1>4, <2>1, <2>3 DEF IInv, SavedInv
    <2> QED
      BY <1>2, <1>3, <2>2, <2>4 DEF IInv
  <1>5. CASE pc' = "actor"
    <2>1. /\ actor' = [s \in Steps |->
                         IF s = step THEN Partial
                         ELSE IF \E i \in 1..Removed : saved[i] = s THEN Absent
                         ELSE actor[s]]
          /\ saved' = SubSeq(saved, Removed + 1, Len(saved))
      BY <1>5 DEF BeginSave
    <2>2. saved \in Seq(Steps) /\ Len(saved) \in Nat
      BY DEF IInv, SavedInv
    <2>3. Removed \in 0..Len(saved) /\ (saved # <<>> /\ Keep # 1 => Removed < Len(saved))
      BY <2>2, ConfigAssumption DEF Removed
    <2>n. IsTracked => tracker.step # step
      BY <1>1 DEF IInv, TrackerInv, PolicyInv
    <2>4. IsTracked /\ Keep # 1 => \A i \in 1..Removed : saved[i] # tracker.step
      <3> SUFFICES ASSUME IsTracked, Keep # 1, NEW i \in 1..Removed
                   PROVE  saved[i] # tracker.step
        OBVIOUS
      <3>1. saved # <<>> /\ i \in 1..Len(saved) /\ i < Len(saved) /\ Len(saved) \in 1..Len(saved)
        BY <2>2, <2>3
      <3>2. saved[i] < LastSaved /\ tracker.step = LastSaved /\ saved[i] \in Steps /\ LastSaved \in Steps
        BY <1>1, <2>2, <3>1 DEF IInv, SavedInv
      <3> QED
        BY <3>2, TotalType, ConfigAssumption DEF Steps
    <2>5. IsTracked => /\ actor'[tracker.step] \in {actor[tracker.step], Absent}
                       /\ Keep # 1 => actor'[tracker.step] = actor[tracker.step]
      BY <2>1, <2>n, <2>4 DEF IInv, TrackerInv
    <2>6. TrackerInv'
      BY <1>1, <1>5, <2>1, <2>5 DEF IInv, TrackerInv, Absent
    <2>7. /\ saved' \in Seq(Steps) /\ Len(saved') = Len(saved) - Removed
          /\ \A i \in 1..Len(saved') : saved'[i] = saved[i + Removed] /\ i + Removed \in 1..Len(saved)
      BY <2>1, <2>2, <2>3
    <2>8. SavedInv'
      <3>1. \A i, j \in 1..Len(saved') : i < j => saved'[i] < saved'[j]
        BY <2>2, <2>3, <2>7 DEF IInv, SavedInv
      <3>2. \A i \in 1..Len(saved') : saved'[i] < step'
        BY <1>1, <2>7 DEF IInv, SavedInv
      <3>3. saved' # <<>> => saved # <<>> /\ saved'[Len(saved')] = LastSaved
        BY <2>2, <2>3, <2>7
      <3>4. saved' # <<>> => IsTracked' /\ tracker'.step = LastSaved'
        BY <1>1, <3>3 DEF IInv, SavedInv
      <3> QED
        BY <1>5, <2>7, <3>1, <3>2, <3>4 DEF SavedInv
    <2> QED
      BY <1>2, <1>3, <2>6, <2>8 DEF IInv
  <1> QED
    BY <1>1, <1>4, <1>5

\* The files are written one after the other.
LEMMA WriteInv ==
  ASSUME IInv, ActorSaved \/ OpenData \/ DataSaved \/ OpenTracker \/ TrackerSaved
  PROVE  IInv'
  <1> USE DEF Collecting, Updated, Unsaved, Untracked, IsTracked, LastSaved
  <1>1. /\ pc \in {"actor"} \cup Untracked
        /\ UNCHANGED <<step, epoch, left, drawn, policy, launches>>
    BY DEF ActorSaved, OpenData, DataSaved, OpenTracker, TrackerSaved, loop
  <1>2. step \in Steps /\ (IsTracked => tracker.step # step)
    BY <1>1, ConfigAssumption, TotalType DEF IInv, PolicyInv, TrackerInv, Steps
  <1>3. PolicyInv'
    BY <1>1 DEF IInv, PolicyInv, ActorSaved, OpenData, DataSaved, OpenTracker, TrackerSaved
  <1>4. CASE ActorSaved
    <2>1. /\ pc = "actor" /\ pc' = "data" /\ UNCHANGED <<data, tracker>>
          /\ actor' = [actor EXCEPT ![step] = [is |-> "complete", policy |-> policy]]
          /\ saved' = Append(saved, step)
      BY <1>4 DEF ActorSaved
    <2>2. TrackerInv'
      BY <1>1, <1>2, <2>1 DEF IInv, TrackerInv
    <2>3. WrittenInv'
      BY <1>1, <1>2, <2>1 DEF IInv, TrackerInv, WrittenInv
    <2>4. /\ saved' \in Seq(Steps) /\ Len(saved') = Len(saved) + 1 /\ saved'[Len(saved')] = step
          /\ \A i \in 1..Len(saved) : saved'[i] = saved[i]
      BY <1>2, <2>1 DEF IInv, SavedInv
    <2>5. \A i, j \in 1..Len(saved') : i < j => saved'[i] < saved'[j]
      <3> SUFFICES ASSUME NEW i \in 1..Len(saved'), NEW j \in 1..Len(saved'), i < j
                   PROVE  saved'[i] < saved'[j]
        OBVIOUS
      <3>1. Len(saved) \in Nat /\ i \in 1..Len(saved) /\ saved'[i] = saved[i]
        BY <2>4, SavedType DEF IInv
      <3>2. CASE j = Len(saved')
        BY <2>1, <2>4, <3>1, <3>2 DEF IInv, SavedInv
      <3>3. CASE j # Len(saved')
        <4>1. j \in 1..Len(saved)
          BY <2>4, <3>1, <3>3
        <4> QED
          BY <2>4, <3>1, <4>1 DEF IInv, SavedInv
      <3> QED
        BY <3>2, <3>3
    <2>6. \A i \in 1..Len(saved') : saved'[i] <= step
      BY <1>2, <2>1, <2>4, SavedType DEF IInv, SavedInv, PolicyInv
    <2>7. SavedInv'
      BY <1>1, <2>1, <2>4, <2>5, <2>6 DEF SavedInv
    <2> QED
      BY <1>3, <2>2, <2>3, <2>7 DEF IInv
  <1>5. CASE OpenData \/ DataSaved
    <2>1. UNCHANGED <<saved, actor, tracker>>
      BY <1>5 DEF OpenData, DataSaved
    <2>2. TrackerInv'
      BY <1>1, <1>2, <1>5, <2>1 DEF IInv, TrackerInv, OpenData, DataSaved
    <2>3. WrittenInv'
      BY <1>1, <1>2, <1>5, <2>1 DEF IInv, TrackerInv, WrittenInv, OpenData, DataSaved
    <2>4. SavedInv'
      BY <1>1, <1>5, <2>1 DEF IInv, SavedInv, OpenData, DataSaved
    <2> QED
      BY <1>3, <2>2, <2>3, <2>4 DEF IInv
  <1>6. CASE OpenTracker
    <2>1. UNCHANGED <<saved, actor, data>> /\ tracker' = Partial /\ pc' = "trackerFile"
             /\ pc = "tracker"
      BY <1>6 DEF OpenTracker
    <2>2. TrackerInv'
      BY <2>1 DEF IInv, TrackerInv, Partial
    <2>3. WrittenInv'
      BY <1>1, <2>1 DEF IInv, WrittenInv
    <2>4. SavedInv'
      BY <1>1, <2>1 DEF IInv, SavedInv
    <2> QED
      BY <1>3, <2>2, <2>3, <2>4 DEF IInv
  <1>7. CASE TrackerSaved
    <2>1. /\ pc = "trackerFile" /\ pc' = "stepEnds" /\ UNCHANGED <<saved, actor, data>>
          /\ tracker' = [is |-> "complete", step |-> step]
      BY <1>7 DEF TrackerSaved
    <2>2. /\ actor[step] = [is |-> "complete", policy |-> policy]
          /\ data[step] = [is |-> "complete", drawn |-> drawn, left |-> left]
          /\ Len(policy) = step /\ policy[step] = drawn
      BY <2>1 DEF IInv, WrittenInv, PolicyInv
    <2>3. tracker'.step = step /\ actor'[step].policy = policy /\ data'[step].drawn = drawn
          /\ actor'[step].is = "complete" /\ data'[step].is = "complete"
      BY <2>1, <2>2
    <2>n. policy \in Seq(Nat) /\ Increasing(policy) /\ step <= TotalSteps + launches /\ step \in Nat
      BY DEF IInv, PolicyInv
    <2>4. TrackerInv'
      BY <1>1, <1>2, <2>1, <2>2, <2>3, <2>n DEF IInv, TrackerInv
    <2>5. WrittenInv'
      BY <2>1 DEF WrittenInv
    <2>6. SavedInv'
      BY <1>1, <2>1 DEF IInv, SavedInv
    <2> QED
      BY <1>3, <2>4, <2>5, <2>6 DEF IInv
  <1> QED
    BY <1>4, <1>5, <1>6, <1>7

\* A launch resumes the policy the tracker names, or starts from scratch.
LEMMA LoadInv ==
  ASSUME IInv, Load
  PROVE  IInv'
  <1> USE DEF Collecting, Updated, Unsaved, Untracked, IsTracked, LastSaved
  <1>1. /\ pc = "launch" /\ saved = <<>> /\ pc' \in {"draw", "noCheckpoint"}
        /\ UNCHANGED <<saved, actor, data, tracker, launches>>
    BY DEF Load, StartsAt, Loaded, disk, IInv, SavedInv
  <1>2. CASE tracker.is = "absent"
    <2>1. step' = 1 /\ policy' = <<>> /\ drawn' = 0 /\ pc' = "draw"
      BY <1>2 DEF Load, StartsAt
    <2>2. PolicyInv'
      BY <1>1, <2>1, TotalType, ConfigAssumption DEF IInv, PolicyInv, Increasing
    <2>3. TrackerInv'
      BY <1>1, <1>2, <2>1 DEF IInv, TrackerInv
    <2> QED
      BY <1>1, <2>1, <2>2, <2>3 DEF IInv, WrittenInv, SavedInv
  <1>3. CASE IsTracked /\ actor[tracker.step].is = "complete"
    <2> DEFINE s == tracker.step
    <2>1. /\ s \in Steps /\ actor[s].is = "complete" /\ data[s].is = "complete"
          /\ actor[s].policy \in Seq(Nat) /\ Len(actor[s].policy) = s /\ Increasing(actor[s].policy)
          /\ actor[s].policy[s] = data[s].drawn /\ s < TotalSteps + launches
      BY <1>1, <1>3 DEF IInv, TrackerInv
    <2>2. s \in Nat \ {0} /\ data[s].drawn \in Nat
      BY <2>1, TotalType, ConfigAssumption DEF Steps
    <2>3. step' = s + 1 /\ policy' = actor[s].policy /\ drawn' = data[s].drawn /\ pc' = "draw"
      BY <1>3, <2>1 DEF Load, Loaded, StartsAt
    <2>4. PolicyInv'
      BY <1>1, <2>1, <2>2, <2>3, TotalType, ConfigAssumption DEF IInv, PolicyInv
    <2>5. TrackerInv'
      BY <1>1, <1>3, <2>1, <2>2, <2>3 DEF IInv, TrackerInv
    <2> QED
      BY <1>1, <2>3, <2>4, <2>5 DEF IInv, WrittenInv, SavedInv
  <1>4. CASE tracker.is # "absent" /\ ~(IsTracked /\ actor[tracker.step].is = "complete")
    <2>1. pc' = "noCheckpoint" /\ UNCHANGED <<step, policy, drawn>>
      BY <1>4 DEF Load
    <2> QED
      BY <1>1, <1>4, <2>1 DEF IInv, PolicyInv, TrackerInv, WrittenInv, SavedInv
  <1> QED
    BY <1>2, <1>3, <1>4

LEMMA AppendIncreasing ==
  ASSUME NEW p \in Seq(Nat), Increasing(p), NEW d \in Nat, p # <<>> => p[Len(p)] < d
  PROVE  Increasing(Append(p, d))
  <1>1. /\ Len(p) \in Nat /\ Len(Append(p, d)) = Len(p) + 1 /\ Append(p, d)[Len(p) + 1] = d
        /\ \A i \in 1..Len(p) : Append(p, d)[i] = p[i]
    OBVIOUS
  <1> SUFFICES ASSUME NEW i \in 1..Len(p) PROVE Append(p, d)[i] < Append(p, d)[i + 1]
    BY <1>1 DEF Increasing
  <1>2. CASE i = Len(p)
    <2>1. p # <<>>
      BY <1>2
    <2> QED
      BY <1>1, <1>2, <2>1
  <1>3. CASE i # Len(p)
    <2>1. i \in 1..(Len(p) - 1) /\ i + 1 \in 1..Len(p)
      BY <1>1, <1>3
    <2> QED
      BY <1>1, <2>1 DEF Increasing
  <1> QED
    BY <1>2, <1>3

\* What happens between two checkpoints leaves the disk alone.
LEMMA StepWithoutDisk ==
  ASSUME IInv, DrawInv, Generate \/ RewardFails \/ PassEnds \/ Update \/ Validate \/ StepEnds \/ Relaunch
  PROVE  IInv'
  <1> USE DEF Collecting, Updated, Unsaved, Untracked, IsTracked, LastSaved, disk, loop
  <1>1. UNCHANGED <<actor, data, tracker>>
    BY DEF Generate, RewardFails, PassEnds, Update, Validate, StepEnds, Relaunch
  <1>2. CASE Generate \/ RewardFails \/ PassEnds
    <2>1. /\ pc = "draw" /\ pc' \in {"draw", "update", "tooDifficult", "rewardFailed", "exhausted"}
          /\ UNCHANGED <<step, policy, saved, launches>> /\ drawn' \in {drawn, drawn + 1}
      BY <1>2 DEF Generate, RewardFails, PassEnds
    <2>2. PolicyInv'
      BY <2>1 DEF IInv, PolicyInv
    <2>3. TrackerInv'
      BY <1>1, <2>1 DEF IInv, TrackerInv
    <2> QED
      BY <1>1, <2>1, <2>2, <2>3 DEF IInv, WrittenInv, SavedInv
  <1>3. CASE Update
    <2>1. /\ pc = "update" /\ pc' \in {"validate", "save"} /\ policy' = Append(policy, drawn)
          /\ UNCHANGED <<step, drawn, saved, launches>>
      BY <1>3 DEF Update
    <2>n. policy \in Seq(Nat) /\ drawn \in Nat /\ Increasing(policy)
          /\ (policy # <<>> => policy[Len(policy)] < drawn)
      BY <2>1 DEF IInv, PolicyInv, DrawInv
    <2>i. Increasing(policy')
      BY <2>1, <2>n, AppendIncreasing
    <2>2. PolicyInv'
      BY <2>1, <2>n, <2>i DEF IInv, PolicyInv
    <2>3. TrackerInv'
      BY <1>1, <2>1 DEF IInv, TrackerInv
    <2> QED
      BY <1>1, <2>1, <2>2, <2>3 DEF IInv, WrittenInv, SavedInv
  <1>4. CASE Validate
    <2>1. /\ pc = "validate" /\ pc' \in {"noAccuracy", "save"}
          /\ UNCHANGED <<step, drawn, policy, saved, launches>>
      BY <1>4 DEF Validate
    <2> QED
      BY <1>1, <2>1 DEF IInv, PolicyInv, TrackerInv, WrittenInv, SavedInv
  <1>5. CASE StepEnds
    <2>1. /\ pc = "stepEnds" /\ UNCHANGED <<drawn, policy, saved, launches>>
          /\ \/ pc' = "done" /\ step' = step
             \/ pc' = "draw" /\ step' = step + 1 /\ ~(step >= TotalSteps)
      BY <1>5 DEF StepEnds, IsLastStep
    <2>2. PolicyInv'
      BY <2>1, TotalType, ConfigAssumption DEF IInv, PolicyInv
    <2>3. TrackerInv'
      BY <1>1, <2>1, TotalType, ConfigAssumption
         DEF IInv, TrackerInv, PolicyInv, Steps
    <2>4. \A i \in 1..Len(saved) : pc' = "draw" => saved[i] < step'
      BY <2>1, SavedType DEF IInv, SavedInv, PolicyInv
    <2>5. SavedInv'
      BY <1>1, <2>1, <2>4 DEF IInv, SavedInv
    <2> QED
      BY <2>1, <2>2, <2>3, <2>5 DEF IInv, WrittenInv
  <1>6. CASE Relaunch
    <2>1. /\ pc' = "launch" /\ step' = 0 /\ policy' = <<>> /\ drawn' = 0 /\ saved' = <<>>
          /\ launches' = launches + 1 /\ launches < MaxLaunches
      BY <1>6 DEF Relaunch
    <2>2. PolicyInv'
      BY <2>1, TotalType, ConfigAssumption DEF IInv, PolicyInv, Increasing
    <2>3. TrackerInv'
      BY <1>1, <2>1, TotalType, ConfigAssumption
         DEF IInv, TrackerInv, PolicyInv, Steps
    <2> QED
      BY <2>1, <2>2, <2>3 DEF IInv, WrittenInv, SavedInv
  <1> QED
    BY <1>2, <1>3, <1>4, <1>5, <1>6

LEMMA StepInv == IInv /\ DrawInv /\ [Next]_vars => IInv'
  <1> SUFFICES ASSUME IInv, DrawInv, [Next]_vars PROVE IInv'
    OBVIOUS
  <1>1. CASE Save
    BY <1>1, BeginSaveInv, WriteInv DEF Save
  <1>2. CASE Load
    BY <1>2, LoadInv
  <1>3. CASE Generate \/ RewardFails \/ PassEnds \/ Update \/ Validate \/ StepEnds \/ Relaunch
    BY <1>3, StepWithoutDisk
  <1>4. CASE UNCHANGED vars
    BY <1>4 DEF IInv, PolicyInv, TrackerInv, WrittenInv, SavedInv, IsTracked,
                LastSaved, vars, loop, disk
  <1> QED
    BY <1>1, <1>2, <1>3, <1>4 DEF Next

-----------------------------------------------------------------------------
(* The draws.                                                              *)

LEMMA Product ==
  ASSUME NEW a \in Nat, NEW b \in Nat
  PROVE  a * b \in Nat /\ a * (b + 1) = a * b + a
  OBVIOUS

LEMMA DrawBounds ==
  ASSUME PolicyInv
  PROVE  TotalSteps * launches \in Nat /\ TotalSteps * (launches - 1) \in Nat
         /\ TotalSteps * launches = TotalSteps * (launches - 1) + TotalSteps
         /\ TotalSteps * (launches + 1) = TotalSteps * launches + TotalSteps
  <1>1. launches \in Nat /\ launches - 1 \in Nat /\ (launches - 1) + 1 = launches
    BY ConfigAssumption DEF PolicyInv
  <1> QED
    BY <1>1, TotalType, Product

LEMMA AheadType ==
  ASSUME DrawInv, epoch < Epochs
  PROVE  Ahead \in Nat /\ left <= Ahead
  <1>1. Epochs - 1 - epoch \in Nat /\ left \in Nat /\ PassLen \in Nat
    BY ConfigAssumption DEF DrawInv
  <1> QED
    BY <1>1, Product DEF Ahead

LEMMA InitDraw == Init => DrawInv /\ DataInv
  <1> SUFFICES ASSUME Init PROVE DrawInv /\ DataInv
    OBVIOUS
  <1> USE TotalType, ConfigAssumption DEF Init, Absent, Collecting, Updated
  <1>1. TotalSteps * launches \in Nat /\ 0 <= TotalSteps * launches
    BY Product
  <1>2. DrawInv
    BY <1>1 DEF DrawInv
  <1>3. DataInv
    BY DEF DataInv
  <1> QED
    BY <1>2, <1>3

LEMMA SumBounds ==
  ASSUME NEW a \in Nat, NEW pass \in Nat, NEW rest \in Nat, NEW total \in Nat, NEW d \in Nat,
         NEW most \in Nat, a <= pass, pass + rest = total, d <= most
  PROVE  a + rest \in Nat /\ a + rest <= total /\ d + (a + rest) <= most + total
  OBVIOUS

LEMMA LoadDraw ==
  ASSUME IInv, DrawInv, DataInv, Load
  PROVE  DrawInv'
  <1> USE DEF Collecting, Updated, IsTracked
  <1>1. /\ pc = "launch" /\ epoch = 0 /\ numGen = 0 /\ UNCHANGED <<epoch, numGen, launches>>
        /\ left \in 0..PassLen
    BY DEF Load, DrawInv, rows
  <1>2. TotalSteps * launches \in Nat /\ TotalSteps * (launches - 1) \in Nat
        /\ TotalSteps * launches = TotalSteps * (launches - 1) + TotalSteps
    BY DrawBounds DEF IInv
  <1>3. CASE pc' = "noCheckpoint" /\ UNCHANGED drawn /\ left' = left
    BY <1>1, <1>3 DEF DrawInv
  <1>4. CASE /\ pc' = "draw" /\ left' \in 0..PassLen /\ drawn' \in Nat
             /\ drawn' <= TotalSteps * (launches - 1)
             /\ policy' # <<>> => policy'[Len(policy')] <= drawn'
    <2>1. PassLen * (Epochs - 1) \in Nat /\ PassLen + PassLen * (Epochs - 1) = TotalSteps
      <3>1. Epochs - 1 \in Nat /\ (Epochs - 1) + 1 = Epochs /\ PassLen \in Nat
        BY ConfigAssumption
      <3> QED
        BY <3>1, Product DEF TotalSteps
    <2>2. Ahead' = left' + PassLen * (Epochs - 1)
      BY <1>1, ConfigAssumption DEF Ahead
    <2>3. Ahead' \in Nat /\ Ahead' <= TotalSteps /\ drawn' + Ahead' <= TotalSteps * launches
      <3>1. left' \in Nat /\ left' <= PassLen /\ PassLen \in Nat /\ drawn' \in Nat
        BY <1>4, ConfigAssumption
      <3> QED
        BY <1>2, <1>4, <2>1, <2>2, <3>1, TotalType, SumBounds
    <2> QED
      BY <1>1, <1>2, <1>4, <2>3, ConfigAssumption DEF DrawInv
  <1>5. CASE tracker.is = "absent"
    <2>1. pc' = "draw" /\ left' = PassLen /\ drawn' = 0 /\ policy' = <<>>
      BY <1>5 DEF Load, StartsAt
    <2> QED
      BY <1>2, <1>4, <2>1, ConfigAssumption
  <1>6. CASE IsTracked /\ actor[tracker.step].is = "complete"
    <2> DEFINE s == tracker.step
    <2>1. /\ s \in Steps /\ data[s].is = "complete" /\ actor[s].policy \in Seq(Nat)
          /\ Len(actor[s].policy) = s /\ actor[s].policy[s] = data[s].drawn
      BY <1>6 DEF IInv, TrackerInv
    <2>2. /\ pc' = "draw" /\ left' = data[s].left /\ drawn' = data[s].drawn
          /\ policy' = actor[s].policy
      BY <1>6, <2>1 DEF Load, Loaded, StartsAt
    <2>3. data[s].drawn \in Nat /\ data[s].left \in 0..PassLen
          /\ data[s].drawn <= TotalSteps * (launches - 1)
      BY <1>1, <2>1 DEF DataInv
    <2> QED
      BY <1>4, <2>1, <2>2, <2>3
  <1>7. CASE tracker.is # "absent" /\ ~(IsTracked /\ actor[tracker.step].is = "complete")
    BY <1>3, <1>7 DEF Load
  <1> QED
    BY <1>5, <1>6, <1>7

LEMMA StepDraw == IInv /\ DrawInv /\ DataInv /\ [Next]_vars => DrawInv'
  <1> SUFFICES ASSUME IInv, DrawInv, DataInv, [Next]_vars PROVE DrawInv'
    OBVIOUS
  <1> USE DEF Collecting, Updated, loop, rows
  <1>1. CASE Load
    BY <1>1, LoadDraw
  <1>2. CASE Generate \/ RewardFails \/ PassEnds
    <2>1. /\ pc = "draw" /\ UNCHANGED <<policy, launches>>
          /\ drawn \in Nat /\ left \in 0..PassLen /\ numGen \in Nat /\ epoch \in Nat /\ epoch < Epochs
          /\ drawn + Ahead <= TotalSteps * launches /\ numGen + Ahead <= TotalSteps
          /\ numGen <= drawn /\ (policy # <<>> => policy[Len(policy)] <= drawn - numGen)
      BY <1>2 DEF Generate, RewardFails, PassEnds, IInv, PolicyInv, DrawInv
    <2>2. Ahead \in Nat /\ left <= Ahead /\ TotalSteps * launches \in Nat
      BY <2>1, AheadType, DrawBounds DEF IInv
    <2>3. CASE Generate
      <3>1. /\ left > 0 /\ left' = left - 1 /\ drawn' = drawn + 1 /\ numGen' = numGen + 1
            /\ epoch' = epoch /\ pc' \in {"update", "draw", "tooDifficult"}
            /\ pc' = "draw" => MaxGen = 0 \/ numGen + 1 < MaxGen
        BY <2>3 DEF Generate
      <3>2. PassLen * (Epochs - 1 - epoch) \in Nat
        BY <2>1, ConfigAssumption, Product
      <3>3. Ahead' = Ahead - 1
        BY <2>1, <3>1, <3>2 DEF Ahead
      <3>4. drawn' - numGen' = drawn - numGen
        BY <2>1, <3>1
      <3>5. drawn' + Ahead' = drawn + Ahead /\ numGen' + Ahead' = numGen + Ahead /\ Ahead' \in Nat
        BY <2>1, <2>2, <3>1, <3>3
      <3>6. /\ epoch' \in 0..Epochs /\ left' \in 0..PassLen /\ numGen' \in Nat /\ drawn' \in Nat
            /\ numGen' <= TotalSteps /\ numGen' <= drawn' /\ drawn' <= TotalSteps * launches
        BY <2>1, <2>2, <3>1, <3>5, TotalType, ConfigAssumption
      <3> QED
        BY <2>1, <3>1, <3>4, <3>5, <3>6 DEF DrawInv
    <2>4. CASE RewardFails
      BY <2>1, <2>4 DEF RewardFails, DrawInv
    <2>5. CASE PassEnds
      <3>1. left = 0 /\ epoch' = epoch + 1 /\ UNCHANGED <<drawn, numGen>>
        BY <2>5 DEF PassEnds
      <3>2. CASE pc' = "exhausted" /\ UNCHANGED left
        BY <2>1, <3>1, <3>2, ConfigAssumption DEF DrawInv
      <3>3. CASE epoch + 1 < Epochs /\ left' = PassLen /\ pc' = "draw"
        <4>1. Epochs - 1 - epoch' \in Nat /\ (Epochs - 1 - epoch') + 1 = Epochs - 1 - epoch
          BY <2>1, <3>1, <3>3, ConfigAssumption
        <4>2. /\ PassLen * (Epochs - 1 - epoch') \in Nat
              /\ PassLen * (Epochs - 1 - epoch) = PassLen * (Epochs - 1 - epoch') + PassLen
          BY <4>1, ConfigAssumption, Product
        <4>3. Ahead' = Ahead
          BY <3>1, <3>3, <4>2, ConfigAssumption DEF Ahead
        <4>4. epoch' \in 0..Epochs /\ left' \in 0..PassLen /\ epoch' < Epochs
          BY <2>1, <3>1, <3>3, ConfigAssumption
        <4> QED
          BY <2>1, <3>1, <3>3, <4>3, <4>4 DEF DrawInv
      <3> QED
        BY <2>1, <2>5, <3>2, <3>3 DEF PassEnds
    <2> QED
      BY <1>2, <2>3, <2>4, <2>5
  <1>3. CASE Update \/ Validate \/ Save
    <2>1. /\ pc \in {"update"} \cup Updated /\ pc' \in Updated \cup {"noAccuracy"}
          /\ UNCHANGED <<epoch, left, drawn, numGen, launches>>
      BY <1>3 DEF Update, Validate, Save, BeginSave, ActorSaved, OpenData, DataSaved, OpenTracker,
                  TrackerSaved
    <2>2. Ahead' = Ahead
      BY <2>1 DEF Ahead
    <2> QED
      BY <2>1, <2>2 DEF DrawInv
  <1>4. CASE StepEnds
    <2>1. /\ pc = "stepEnds" /\ pc' \in {"done", "draw"} /\ numGen' = 0
          /\ UNCHANGED <<epoch, left, drawn, policy, launches>>
      BY <1>4 DEF StepEnds
    <2>2. Ahead' = Ahead /\ Ahead \in Nat /\ numGen \in Nat /\ numGen + Ahead <= TotalSteps
      BY <2>1, AheadType DEF Ahead, DrawInv
    <2>3. policy \in Seq(Nat) /\ drawn \in Nat /\ policy[Len(policy)] = drawn
      BY <2>1 DEF IInv, PolicyInv
    <2> QED
      BY <2>1, <2>2, <2>3, TotalType, ConfigAssumption DEF DrawInv
  <1>5. CASE Relaunch
    <2>1. pc' = "launch" /\ epoch' = 0 /\ left' = PassLen /\ drawn' = 0 /\ numGen' = 0
          /\ launches' = launches + 1
      BY <1>5 DEF Relaunch
    <2>2. TotalSteps * launches' \in Nat
      BY <2>1, DrawBounds, TotalType DEF IInv
    <2> QED
      BY <2>1, <2>2, TotalType, ConfigAssumption DEF DrawInv
  <1>6. CASE UNCHANGED vars
    BY <1>6 DEF DrawInv, Ahead, vars
  <1> QED
    BY <1>1, <1>2, <1>3, <1>4, <1>5, <1>6 DEF Next

LEMMA StepData == IInv /\ DrawInv /\ DataInv /\ [Next]_vars => DataInv'
  <1> SUFFICES ASSUME IInv, DrawInv, DataInv, [Next]_vars PROVE DataInv'
    OBVIOUS
  <1> USE DEF loop, disk
  <1>1. CASE DataSaved
    <2>1. /\ data' = [data EXCEPT ![step] = [is |-> "complete", drawn |-> drawn, left |-> left]]
          /\ pc' = "tracker" /\ UNCHANGED launches
      BY <1>1 DEF DataSaved
    <2>2. drawn \in Nat /\ left \in 0..PassLen /\ drawn <= TotalSteps * launches /\ DOMAIN data = Steps
      BY DEF IInv, PolicyInv, DrawInv, TrackerInv
    <2> QED
      BY <2>1, <2>2 DEF DataInv
  <1>2. CASE OpenData
    <2>1. /\ data' = [data EXCEPT ![step] = Partial] /\ pc' = "dataFile" /\ UNCHANGED launches
          /\ DOMAIN data = Steps
      BY <1>2 DEF OpenData, IInv, TrackerInv
    <2> QED
      BY <2>1 DEF DataInv, Partial
  <1>3. CASE Relaunch
    <2>1. pc' = "launch" /\ launches' = launches + 1 /\ UNCHANGED data
      BY <1>3 DEF Relaunch
    <2>2. /\ launches' - 1 = launches /\ TotalSteps * launches \in Nat
          /\ TotalSteps * launches' = TotalSteps * launches + TotalSteps
      BY <2>1, DrawBounds, ConfigAssumption DEF IInv, PolicyInv
    <2> QED
      BY <2>1, <2>2, TotalType DEF DataInv
  <1>4. CASE UNCHANGED vars
    BY <1>4 DEF DataInv, vars
  <1>5. CASE \/ Load \/ Generate \/ RewardFails \/ PassEnds \/ Update \/ Validate \/ StepEnds
             \/ BeginSave \/ ActorSaved \/ OpenTracker \/ TrackerSaved
    <2>1. UNCHANGED <<data, launches>> /\ pc' # "launch"
      BY <1>5 DEF Load, Loaded, StartsAt, Generate, RewardFails, PassEnds, Update, Validate, StepEnds,
                  BeginSave, ActorSaved, OpenTracker, TrackerSaved
    <2> QED
      BY <2>1 DEF DataInv
  <1> QED
    BY <1>1, <1>2, <1>3, <1>4, <1>5 DEF Next, Save

-----------------------------------------------------------------------------
(* Counting in blocks of N rows.                                           *)

\* The place of a row in its block, from 0.
Spot(k) == (k - 1) % N

LEMMA BlockType ==
  ASSUME NEW k \in Nat \ {0}
  PROVE  Block(k) \in Nat /\ Spot(k) \in 0..(N - 1) /\ k = N * Block(k) + Spot(k) + 1
  BY ConfigAssumption DEF Block, Spot

LEMMA BlockOf ==
  ASSUME NEW q \in Nat, NEW r \in 0..(N - 1)
  PROVE  N * q \in Nat /\ Block(N * q + r + 1) = q /\ Spot(N * q + r + 1) = r
  BY ConfigAssumption DEF Block, Spot

LEMMA Multiples ==
  ASSUME NEW p \in Nat, NEW q \in Nat
  PROVE  /\ N * p \in Nat /\ N * (p + 1) = N * p + N /\ N * (p + q) = N * p + N * q
         /\ p < q => N * p + N <= N * q
         /\ p <= q => N * p <= N * q
  BY ConfigAssumption

\* The rows of the first q blocks.
LEMMA BlocksBelow ==
  ASSUME NEW q \in Nat, NEW k \in Nat \ {0}
  PROVE  k <= N * q <=> Block(k) < q
  <1>1. Block(k) \in Nat /\ Spot(k) \in 0..(N - 1) /\ k = N * Block(k) + Spot(k) + 1
    BY BlockType
  <1>2. CASE Block(k) < q
    <2>1. N * Block(k) + N <= N * q /\ N * Block(k) \in Nat /\ N * q \in Nat
      BY <1>1, <1>2, Multiples
    <2> QED
      BY <1>1, <1>2, <2>1, ConfigAssumption
  <1>3. CASE q <= Block(k)
    <2>1. N * q <= N * Block(k) /\ N * Block(k) \in Nat /\ N * q \in Nat
      BY <1>1, <1>3, Multiples
    <2> QED
      BY <1>1, <1>3, <2>1
  <1> QED
    BY <1>1, <1>2, <1>3

LEMMA ShiftedBlock ==
  ASSUME NEW q \in Nat, NEW k \in Nat \ {0}
  PROVE  Block(N * q + k) = q + Block(k)
  <1>1. Block(k) \in Nat /\ Spot(k) \in 0..(N - 1) /\ k = N * Block(k) + Spot(k) + 1
    BY BlockType
  <1>2. N * (q + Block(k)) = N * q + N * Block(k) /\ q + Block(k) \in Nat
        /\ N * q \in Nat /\ N * Block(k) \in Nat
    <2> HIDE DEF Block
    <2>1. \A p \in Nat : N * p \in Nat /\ N * (q + p) = N * q + N * p
      BY Multiples
    <2> QED
      BY <1>1, <2>1
  <1>3. N * q + k = N * (q + Block(k)) + Spot(k) + 1
    BY <1>1, <1>2
  <1> QED
    BY <1>1, <1>2, <1>3, BlockOf

\* The next row is in the same block, or begins one.
LEMMA NextBlock ==
  ASSUME NEW k \in Nat \ {0}
  PROVE  \/ Spot(k + 1) = Spot(k) + 1 /\ Block(k + 1) = Block(k)
         \/ Spot(k + 1) = 0 /\ Spot(k) + 1 = N /\ Block(k + 1) = Block(k) + 1
  <1>1. Block(k) \in Nat /\ Spot(k) \in 0..(N - 1) /\ k = N * Block(k) + Spot(k) + 1
    BY BlockType
  <1>2. CASE Spot(k) + 1 < N
    <2>0. N * Block(k) \in Nat
      BY <1>1, Multiples
    <2>1. Spot(k) + 1 \in 0..(N - 1) /\ k + 1 = N * Block(k) + (Spot(k) + 1) + 1
      BY <1>1, <1>2, <2>0, ConfigAssumption
    <2> QED
      BY <1>1, <2>1, BlockOf
  <1>3. CASE Spot(k) + 1 = N
    <2>1. N * (Block(k) + 1) = N * Block(k) + N /\ N * Block(k) \in Nat /\ 0 \in 0..(N - 1)
      BY <1>1, Multiples, ConfigAssumption
    <2>2. k + 1 = N * (Block(k) + 1) + 0 + 1 /\ Block(k) + 1 \in Nat
      BY <1>1, <1>3, <2>1
    <2> QED
      BY <1>3, <2>1, <2>2, BlockOf
  <1> QED
    BY <1>1, <1>2, <1>3, ConfigAssumption

LEMMA IntervalSize ==
  ASSUME NEW n \in Nat
  PROVE  IsFiniteSet(1..n) /\ Cardinality(1..n) = n
  <1>1. IsFiniteSet(1..n) /\ Cardinality(1..n) = IF 1 > n THEN 0 ELSE n - 1 + 1
    BY FS_Interval
  <1> QED
    BY <1>1

\* A group of a grouped batch is one block.
LEMMA GroupSize ==
  ASSUME NEW b, NEW Q \in Nat, DOMAIN b = 1..(N * Q), Grouped(b), NEW k \in DOMAIN b
  PROVE  /\ \A i \in DOMAIN b : i \in GroupOf(b, b[k].uid) <=> Block(i) = Block(k)
         /\ Cardinality(GroupOf(b, b[k].uid)) = N
  <1>1. \A i \in DOMAIN b : i \in GroupOf(b, b[k].uid) <=> Block(i) = Block(k)
    BY DEF GroupOf, Grouped
  <1> DEFINE q == Block(k)
  <1>2. N * Q \in Nat /\ k \in Nat \ {0} /\ q \in Nat /\ q < Q
    <2>0. N * Q \in Nat
      BY Multiples
    <2>1. k \in Nat \ {0} /\ k <= N * Q
      BY <2>0
    <2>2. Block(k) \in Nat
      BY <2>1, BlockType
    <2>3. Block(k) < Q
      BY <2>1, BlocksBelow
    <2> QED
      BY <2>0, <2>1, <2>2, <2>3
  <1>3. N * q \in Nat /\ N * q + N <= N * Q
    BY <1>2, Multiples
  <1>4. \A i \in 1..(N * Q) : Block(i) = q <=> i \in (N * q + 1)..(N * q + N)
    <2> SUFFICES ASSUME NEW i \in 1..(N * Q)
                 PROVE  Block(i) = q <=> i \in (N * q + 1)..(N * q + N)
      OBVIOUS
    <2>1. i \in Nat \ {0} /\ Block(i) \in Nat
      BY <1>2, BlockType
    <2>2. (i <= N * q <=> Block(i) < q) /\ (i <= N * (q + 1) <=> Block(i) < q + 1)
      <3>1. q + 1 \in Nat
        BY <1>2
      <3> QED
        BY <1>2, <2>1, <3>1, BlocksBelow
    <2>3. N * (q + 1) = N * q + N
      BY <1>2, Multiples
    <2>4. Block(i) = q <=> ~(Block(i) < q) /\ Block(i) < q + 1
      BY <1>2, <2>1
    <2> QED
      BY <1>3, <2>1, <2>2, <2>3, <2>4, ConfigAssumption
  <1> HIDE DEF q
  <1>5. GroupOf(b, b[k].uid) = (N * q + 1)..(N * q + N)
    <2>1. GroupOf(b, b[k].uid) \subseteq 1..(N * Q)
      BY DEF GroupOf
    <2>2. (N * q + 1)..(N * q + N) \subseteq 1..(N * Q)
      BY <1>2, <1>3, ConfigAssumption
    <2> QED
      BY <1>1, <1>4, <2>1, <2>2 DEF q
  <1>6. Cardinality((N * q + 1)..(N * q + N)) = N
    BY <1>3, FS_Interval, ConfigAssumption
  <1> QED
    BY <1>1, <1>5, <1>6

\* A grouped batch has as many uids as blocks.
LEMMA UidCount ==
  ASSUME NEW b, NEW Q \in Nat, DOMAIN b = 1..(N * Q), Grouped(b)
  PROVE  Cardinality({b[i].uid : i \in DOMAIN b}) = Q
  <1> DEFINE U == {b[i].uid : i \in DOMAIN b}
             first(q) == N * (q - 1) + 1
             f == [q \in 1..Q |-> b[first(q)].uid]
  <1>1. \A q \in 1..Q : first(q) \in DOMAIN b /\ Block(first(q)) = q - 1
    <2> SUFFICES ASSUME NEW q \in 1..Q PROVE first(q) \in DOMAIN b /\ Block(first(q)) = q - 1
      OBVIOUS
    <2>1. q - 1 \in Nat /\ 0 \in 0..(N - 1) /\ (q - 1) < Q
      BY ConfigAssumption
    <2>2. Block(N * (q - 1) + 0 + 1) = q - 1 /\ N * (q - 1) \in Nat
      BY <2>1, BlockOf
    <2>3. N * (q - 1) + 0 + 1 = first(q) /\ first(q) \in Nat \ {0}
      BY <2>2
    <2>4. first(q) <= N * Q /\ N * Q \in Nat
      BY <2>1, <2>2, <2>3, BlocksBelow, Multiples
    <2> QED
      BY <2>2, <2>3, <2>4
  <1> HIDE DEF first
  <1>2. f \in [1..Q -> U]
    BY <1>1
  <1>3. \A p, q \in 1..Q : f[p] = f[q] => p = q
    BY <1>1 DEF Grouped
  <1>4. \A u \in U : \E q \in 1..Q : f[q] = u
    <2> SUFFICES ASSUME NEW i \in DOMAIN b PROVE \E q \in 1..Q : f[q] = b[i].uid
      OBVIOUS
    <2>0. N * Q \in Nat
      BY Multiples
    <2>1. i \in Nat \ {0} /\ i <= N * Q
      BY <2>0
    <2>2. Block(i) \in Nat /\ Block(i) < Q
      BY <2>1, BlockType, BlocksBelow
    <2>3. Block(i) + 1 \in 1..Q /\ (Block(i) + 1) - 1 = Block(i)
      BY <2>2
    <2>4. f[Block(i) + 1] = b[i].uid
      BY <1>1, <2>3 DEF Grouped
    <2> QED
      BY <2>3, <2>4
  <1>5. f \in Bijection(1..Q, U)
    BY <1>2, <1>3, <1>4, Zenon DEF Bijection, Injection, Surjection, IsInjective
  <1>6. ExistsBijection(1..Q, U)
    BY <1>5, Zenon DEF ExistsBijection
  <1> QED
    BY <1>6, IntervalSize, FS_Bijection, Zenon

-----------------------------------------------------------------------------
(* The rows that are kept.                                                 *)

LEMMA LeastNumber ==
  ASSUME NEW S \in SUBSET Nat, S # {}
  PROVE  \E n \in S : \A m \in S : n <= m
  <1> DEFINE Less == {p \in Nat \X Nat : p[1] < p[2]}
  <1>1. IsWellFoundedOn(Less, Nat)
    BY NatLessThanWellFounded, Zenon DEF OpToRel
  <1> HIDE DEF Less
  <1>2. PICK n \in S : \A m \in S : ~(<<m, n>> \in Less)
    BY <1>1, WFMin, Zenon
  <1>3. ASSUME NEW m \in S PROVE n <= m
    <2>1. <<m, n>> \in Nat \X Nat /\ ~(m < n)
      BY <1>2 DEF Less
    <2> QED
      BY <2>1
  <1> QED
    BY <1>3

\* Induction for a set of numbers.
LEMMA Induction ==
  ASSUME NEW S, 1 \in S, \A n \in Nat \ {0} : n \in S => n + 1 \in S
  PROVE  Nat \ {0} \subseteq S
  <1> SUFFICES ASSUME (Nat \ {0}) \ S # {} PROVE FALSE
    BY Zenon
  <1>1. PICK n \in (Nat \ {0}) \ S : \A m \in (Nat \ {0}) \ S : n <= m
    BY LeastNumber
  <1>2. n # 1 /\ n - 1 \in Nat \ {0} /\ ~(n <= n - 1)
    BY <1>1
  <1>3. n - 1 \in S
    BY <1>1, <1>2
  <1>4. (n - 1) + 1 \in S
    BY <1>2, <1>3
  <1> QED
    BY <1>1, <1>2, <1>4

\* The list grown so far is the list of the rounds so far.
IsGrown(g, s, n) == g = [i \in 1..n |-> IF i = 1 THEN s[i] ELSE g[i - 1] \o s[i]]

LEMMA GrownExists ==
  ASSUME NEW s, NEW n \in Nat \ {0}
  PROVE  \E g : IsGrown(g, s, n)
  <1> DEFINE S == {m \in Nat \ {0} : \E g : IsGrown(g, s, m)}
  <1>1. 1 \in S
    <2> DEFINE g == [i \in 1..1 |-> s[i]]
    <2>1. g = [i \in 1..1 |-> IF i = 1 THEN s[i] ELSE g[i - 1] \o s[i]]
      OBVIOUS
    <2>2. IsGrown(g, s, 1)
      BY <2>1 DEF IsGrown
    <2> HIDE DEF g
    <2> QED
      BY <2>2
  <1>2. ASSUME NEW m \in Nat \ {0}, m \in S PROVE m + 1 \in S
    <2>1. PICK g : IsGrown(g, s, m)
      BY <1>2
    <2> DEFINE h == [i \in 1..(m + 1) |-> IF i = m + 1 THEN g[m] \o s[m + 1] ELSE g[i]]
    <2>2. ASSUME NEW i \in 1..(m + 1)
          PROVE  h[i] = IF i = 1 THEN s[i] ELSE h[i - 1] \o s[i]
      <3>1. CASE i = m + 1
        <4>1. i # 1 /\ i - 1 = m /\ m \in 1..(m + 1) /\ m # m + 1
          BY <3>1
        <4>2. h[m] = g[m] /\ h[i] = g[m] \o s[m + 1]
          BY <3>1, <4>1
        <4> QED
          BY <3>1, <4>1, <4>2
      <3>2. CASE i # m + 1
        <4>1. i \in 1..m /\ h[i] = g[i] /\ (i # 1 => h[i - 1] = g[i - 1])
          BY <3>2
        <4> QED
          BY <2>1, <4>1 DEF IsGrown
      <3> QED
        BY <3>1, <3>2
    <2>3. h = [i \in 1..(m + 1) |-> IF i = 1 THEN s[i] ELSE h[i - 1] \o s[i]]
      BY <2>2
    <2>4. IsGrown(h, s, m + 1)
      BY <2>3 DEF IsGrown
    <2> QED
      BY <2>4
  <1> HIDE DEF S
  <1>3. n \in S
    BY <1>1, <1>2, Induction
  <1> QED
    BY <1>3 DEF S

LEMMA FlattenGrows ==
  ASSUME NEW s, Len(s) \in Nat \ {0}
  PROVE  \E g : IsGrown(g, s, Len(s)) /\ FlattenSeq(s) = g[Len(s)]
  <1> DEFINE flatten[i \in 1..Len(s)] == IF i = 1 THEN s[i] ELSE flatten[i - 1] \o s[i]
  <1>1. FlattenSeq(s) = flatten[Len(s)]
    BY Zenon DEF FlattenSeq
  <1>2. \E g : g = [i \in 1..Len(s) |-> IF i = 1 THEN s[i] ELSE g[i - 1] \o s[i]]
    BY GrownExists DEF IsGrown
  <1>3. flatten = [i \in 1..Len(s) |-> IF i = 1 THEN s[i] ELSE flatten[i - 1] \o s[i]]
    BY <1>2, Zenon
  <1> HIDE DEF flatten
  <1> QED
    BY <1>1, <1>3 DEF IsGrown

\* Row n ends the rows looked at so far; k is in the list if it is kept.
KeptSoFar(s, K, n) ==
  /\ s \in Seq(1..n)
  /\ \A k \in 1..n : k \in K <=> \E p \in DOMAIN s : s[p] = k
  /\ \A i, j \in DOMAIN s : Block(i) = Block(j) <=> Block(s[i]) = Block(s[j])
  /\ \E q \in Nat : Len(s) = N * q + (IF n \in K THEN Spot(n + 1) ELSE 0)
  /\ n \in K => Len(s) > 0 /\ s[Len(s)] = n

\* One more row.
LEMMA KeepRow ==
  ASSUME NEW L \in Nat, NEW K \in SUBSET (1..L),
         \A k \in K, l \in 1..L : Block(k) = Block(l) => l \in K,
         NEW n \in Nat, n + 1 <= L, NEW s, KeptSoFar(s, K, n)
  PROVE  KeptSoFar(s \o (IF n + 1 \in K THEN <<n + 1>> ELSE <<>>), K, n + 1)
  <1> DEFINE k == n + 1
  <1>1. /\ s \in Seq(1..n) /\ Len(s) \in Nat /\ DOMAIN s = 1..Len(s)
        /\ \A p \in 1..Len(s) : s[p] \in 1..n
        /\ k \in 1..L /\ k \in Nat \ {0} /\ n \notin {k}
    BY DEF KeptSoFar
  <1>2. PICK q \in Nat : Len(s) = N * q + (IF n \in K THEN Spot(k) ELSE 0)
    BY DEF KeptSoFar
  <1>3. N * q \in Nat /\ Block(k) \in Nat /\ Spot(k) \in 0..(N - 1) /\ n = N * Block(k) + Spot(k)
    <2>1. Block(k) \in Nat /\ Spot(k) \in 0..(N - 1) /\ k = N * Block(k) + Spot(k) + 1
      BY <1>1, BlockType
    <2>2. N * q \in Nat /\ N * Block(k) \in Nat
      BY <2>1, Multiples
    <2> QED
      BY <2>1, <2>2
  <1>4. Spot(k) # 0 => n \in 1..L /\ Block(n) = Block(k)
    <2> SUFFICES ASSUME Spot(k) # 0 PROVE n \in 1..L /\ Block(n) = Block(k)
      OBVIOUS
    <2>1. N * Block(k) \in Nat
      BY <1>3, Multiples
    <2>2. n \in Nat \ {0}
      BY <1>3, <2>1
    <2>3. Block(n + 1) = Block(n)
      BY <2>2, NextBlock
    <2> QED
      BY <1>1, <2>2, <2>3
  <1>5. CASE k \notin K
    <2>1. s \o (IF n + 1 \in K THEN <<n + 1>> ELSE <<>>) = s
      BY <1>1, <1>5
    <2>2. Len(s) = N * q + 0
      <3>1. n \in K => Spot(k) = 0
        BY <1>1, <1>4, <1>5
      <3> QED
        BY <1>2, <3>1
    <2>3. s \in Seq(1..(n + 1))
      BY <1>1
    <2>4. \A l \in 1..(n + 1) : l \in K <=> \E p \in DOMAIN s : s[p] = l
      <3>1. \A l \in 1..(n + 1) : l \in 1..n \/ l = k
        OBVIOUS
      <3>2. ~ \E p \in DOMAIN s : s[p] = k
        BY <1>1
      <3> QED
        BY <1>5, <3>1, <3>2 DEF KeptSoFar
    <2> QED
      BY <1>5, <2>1, <2>2, <2>3, <2>4 DEF KeptSoFar
  <1>6. CASE k \in K
    <2> DEFINE t == Append(s, k)
               l == Len(s)
    <2>1. s \o (IF n + 1 \in K THEN <<n + 1>> ELSE <<>>) = t
      BY <1>1, <1>6
    <2>2. /\ t \in Seq(1..(n + 1)) /\ Len(t) = l + 1 /\ DOMAIN t = 1..(l + 1) /\ t[l + 1] = k
          /\ \A p \in 1..l : t[p] = s[p]
      <3>1. s \in Seq(1..(n + 1)) /\ k \in 1..(n + 1)
        BY <1>1
      <3> QED
        BY <3>1, <1>1
    <2> HIDE DEF t
    <2>3. l = N * q + Spot(k)
      <3>1. n \notin K => Spot(k) = 0
        BY <1>1, <1>4, <1>6
      <3> QED
        BY <1>2, <1>3, <3>1
    <2>4. Block(l + 1) = q /\ Spot(l + 1) = Spot(k)
      BY <1>3, <2>3, BlockOf
    <2>5. \A p \in 1..l : Block(p) = Block(l + 1) <=> Block(s[p]) = Block(k)
      <3> SUFFICES ASSUME NEW p \in 1..l
                   PROVE  Block(p) = Block(l + 1) <=> Block(s[p]) = Block(k)
        OBVIOUS
      <3>1. p \in Nat \ {0} /\ s[p] \in Nat \ {0} /\ s[p] <= n /\ p <= l
        BY <1>1
      <3>2. CASE Spot(k) = 0
        <4>0. N * Block(k) \in Nat
          BY <1>3, Multiples
        <4>1. p <= N * q /\ s[p] <= N * Block(k)
          <5>1. N * q + Spot(k) = N * q /\ N * Block(k) + Spot(k) = N * Block(k)
            BY <1>3, <3>2, <4>0
          <5> QED
            BY <1>3, <2>3, <3>1, <5>1
        <4>2. Block(p) < q /\ Block(s[p]) < Block(k) /\ Block(p) \in Nat /\ Block(s[p]) \in Nat
          BY <1>3, <3>1, <4>1, BlocksBelow, BlockType
        <4> QED
          BY <1>3, <2>4, <4>2
      <3>3. CASE Spot(k) # 0
        <4>1. n \in K
          BY <1>1, <1>4, <1>6, <3>3
        <4>2. l \in DOMAIN s /\ s[l] = n
          BY <1>1, <4>1 DEF KeptSoFar
        <4>3. Block(p) = Block(l) <=> Block(s[p]) = Block(n)
          BY <1>1, <4>2 DEF KeptSoFar
        <4>4. Block(l) = Block(l + 1)
          <5>1. l \in Nat \ {0}
            BY <1>1, <4>2
          <5> QED
            BY <2>4, <3>3, <5>1, NextBlock
        <4> QED
          BY <1>4, <3>3, <4>3, <4>4
      <3> QED
        BY <3>2, <3>3
    <2>6. \A i, j \in DOMAIN t : Block(i) = Block(j) <=> Block(t[i]) = Block(t[j])
      <3>1. \A i \in 1..(l + 1) : i \in 1..l \/ i = l + 1
        BY <1>1
      <3>2. \A i, j \in 1..l : Block(i) = Block(j) <=> Block(t[i]) = Block(t[j])
        <4>1. \A i, j \in 1..l : Block(i) = Block(j) <=> Block(s[i]) = Block(s[j])
          BY <1>1 DEF KeptSoFar
        <4> QED
          BY <2>2, <4>1
      <3>3. \A i \in 1..l : Block(i) = Block(l + 1) <=> Block(t[i]) = Block(t[l + 1])
        BY <2>2, <2>5
      <3> QED
        BY <2>2, <3>1, <3>2, <3>3
    <2>7. \A m \in 1..(n + 1) : m \in K <=> \E p \in DOMAIN t : t[p] = m
      <3>1. \A m \in 1..(n + 1) : m \in 1..n \/ m = k
        OBVIOUS
      <3>2. l + 1 \in DOMAIN t /\ t[l + 1] = k /\ DOMAIN t = DOMAIN s \cup {l + 1}
        BY <1>1, <2>2
      <3>3. \A m \in 1..n : m \in K <=> \E p \in DOMAIN t : t[p] = m
        <4>1. \A m \in 1..n : m \in K <=> \E p \in 1..l : s[p] = m
          BY <1>1 DEF KeptSoFar
        <4>2. \A m \in 1..n : m # k
          OBVIOUS
        <4> QED
          BY <1>1, <2>2, <3>2, <4>1, <4>2
      <3> QED
        BY <1>6, <3>1, <3>2, <3>3
    <2>8. \E r \in Nat : Len(t) = N * r + Spot(k + 1)
      <3>1. CASE Spot(k + 1) = Spot(k) + 1
        BY <1>1, <1>3, <2>2, <2>3, <3>1
      <3>2. CASE Spot(k + 1) = 0 /\ Spot(k) + 1 = N
        <4>1. N * (q + 1) = N * q + N /\ q + 1 \in Nat
          BY Multiples
        <4>2. Len(t) = N * (q + 1) + Spot(k + 1)
          BY <1>1, <1>3, <2>2, <2>3, <3>2, <4>1
        <4> QED
          BY <4>1, <4>2
      <3> QED
        BY <1>1, <3>1, <3>2, NextBlock
    <2>9. k \in K => Len(t) > 0 /\ t[Len(t)] = k
      BY <1>1, <2>2
    <2> QED
      BY <1>6, <2>1, <2>2, <2>6, <2>7, <2>8, <2>9, ZenonT(60) DEF KeptSoFar
  <1> QED
    BY <1>5, <1>6

LEMMA SmallSeqs == \A S : <<>> \in Seq(S) /\ \A x \in S : <<x>> \in Seq(S)
  OBVIOUS

KeptOf(K, L) == FlattenSeq([k \in 1..L |-> IF k \in K THEN <<k>> ELSE <<>>])

\* What the loop collects: the rows that are kept, and these in whole blocks.
LEMMA KeptList ==
  ASSUME NEW G \in Nat \ {0}, NEW K \in SUBSET (1..(N * G)),
         \A k \in K, l \in 1..(N * G) : Block(k) = Block(l) => l \in K,
         NEW F, F = KeptOf(K, N * G)
  PROVE  /\ F \in Seq(1..(N * G))
         /\ \A k \in 1..(N * G) : k \in K <=> \E p \in DOMAIN F : F[p] = k
         /\ \A i, j \in DOMAIN F : Block(i) = Block(j) <=> Block(F[i]) = Block(F[j])
         /\ \E Q \in Nat : Len(F) = N * Q
  <1> DEFINE L == N * G
             parts == [k \in 1..L |-> IF k \in K THEN <<k>> ELSE <<>>]
  <1>1. L \in Nat \ {0} /\ 1 \in 1..L
    <2>1. N * 0 + N <= N * G /\ N * 0 \in Nat /\ N * G \in Nat
      BY Multiples
    <2> QED
      BY <2>1, ConfigAssumption
  <1>0. K \in SUBSET (1..L) /\ \A k \in K, l \in 1..L : Block(k) = Block(l) => l \in K
    OBVIOUS
  <1> HIDE DEF L
  <1>k. K \in SUBSET (1..L) /\ \A k \in K, l \in 1..L : Block(k) = Block(l) => l \in K
    BY <1>0 DEF L
  <1>2. Len(parts) = L /\ Len(parts) \in Nat \ {0}
    <2>1. parts \in Seq(Seq(1..L))
      <3>1. \A k \in 1..L : (IF k \in K THEN <<k>> ELSE <<>>) \in Seq(1..L)
        BY SmallSeqs, Zenon
      <3> QED
        BY <1>1, <3>1
    <2> QED
      BY <1>1, <2>1
  <1>3. PICK g : IsGrown(g, parts, L) /\ FlattenSeq(parts) = g[L]
    BY <1>2, FlattenGrows
  <1>4. \A i \in 1..L : g[i] = IF i = 1 THEN parts[i] ELSE g[i - 1] \o parts[i]
    BY <1>3 DEF IsGrown
  <1> DEFINE T == {n \in Nat \ {0} : n <= L => KeptSoFar(g[n], K, n)}
  <1>5. KeptSoFar(<<>>, K, 0)
    <2>1. N * 0 = 0 /\ 0 \notin K /\ Len(<<>>) = 0 /\ DOMAIN <<>> = {} /\ 1..0 = {}
      BY ConfigAssumption
    <2>2. \E q \in Nat : Len(<<>>) = N * q + (IF 0 \in K THEN Spot(0 + 1) ELSE 0)
      BY <2>1
    <2> QED
      BY <2>1, <2>2 DEF KeptSoFar
  <1>6. 1 \in T
    <2>1. KeptSoFar(<<>> \o (IF 0 + 1 \in K THEN <<0 + 1>> ELSE <<>>), K, 0 + 1)
      <3>1. 0 \in Nat /\ 0 + 1 <= L /\ L \in Nat
        BY <1>1
      <3> QED
        BY <1>k, <1>5, <3>1, KeepRow
    <2>2. <<>> \o (IF 0 + 1 \in K THEN <<0 + 1>> ELSE <<>>) = parts[1]
      BY <1>1
    <2>3. g[1] = parts[1] /\ 0 + 1 = 1
      BY <1>1, <1>4
    <2> HIDE DEF parts
    <2> QED
      BY <2>1, <2>2, <2>3
  <1>7. ASSUME NEW n \in Nat \ {0}, n \in T PROVE n + 1 \in T
    <2> SUFFICES ASSUME n + 1 <= L PROVE KeptSoFar(g[n + 1], K, n + 1)
      OBVIOUS
    <2>1. n \in Nat /\ n <= L /\ n + 1 \in 1..L /\ n + 1 # 1 /\ (n + 1) - 1 = n
      BY <1>1
    <2>2. KeptSoFar(g[n], K, n)
      BY <1>7, <2>1
    <2>3. KeptSoFar(g[n] \o (IF n + 1 \in K THEN <<n + 1>> ELSE <<>>), K, n + 1)
      BY <1>1, <1>k, <2>1, <2>2, KeepRow
    <2>4. g[n + 1] = g[n] \o parts[n + 1]
      BY <1>4, <2>1
    <2>5. parts[n + 1] = IF n + 1 \in K THEN <<n + 1>> ELSE <<>>
      BY <2>1
    <2> HIDE DEF parts
    <2> QED
      BY <2>3, <2>4, <2>5
  <1> HIDE DEF T
  <1>8. L \in T
    BY <1>1, <1>6, <1>7, Induction
  <1>9. KeptSoFar(g[L], K, L)
    BY <1>1, <1>8 DEF T
  <1>10. F = g[L]
    BY <1>3 DEF L, KeptOf
  <1>11. L \in K => Spot(L + 1) = 0
    <2>1. N * G + 0 + 1 = L + 1 /\ 0 \in 0..(N - 1)
      BY <1>1, ConfigAssumption DEF L
    <2>2. Spot(N * G + 0 + 1) = 0
      BY <2>1, BlockOf
    <2> QED
      BY <2>1, <2>2
  <1>12. \E Q \in Nat : Len(F) = N * Q
    <2>1. PICK q \in Nat : Len(F) = N * q + (IF L \in K THEN Spot(L + 1) ELSE 0)
      BY <1>9, <1>10 DEF KeptSoFar
    <2>2. N * q \in Nat /\ Len(F) = N * q + 0
      BY <1>11, <2>1, Multiples
    <2>3. Len(F) = N * q
      BY <2>2
    <2> QED
      BY <2>3
  <1>13. /\ F \in Seq(1..L) /\ \A k \in 1..L : k \in K <=> \E p \in DOMAIN F : F[p] = k
         /\ \A i, j \in DOMAIN F : Block(i) = Block(j) <=> Block(F[i]) = Block(F[j])
    <2>1. KeptSoFar(F, K, L)
      BY <1>9, <1>10
    <2> QED
      BY <2>1, Zenon DEF KeptSoFar
  <1> QED
    BY <1>12, <1>13 DEF L

-----------------------------------------------------------------------------
(* The rows of a new batch.                                                *)

\* The trajectories before that of rollout o of prompt p.
LEMMA Rank ==
  ASSUME NEW n \in Nat, NEW p \in 1..n, NEW o \in 1..N
  PROVE  Cardinality({b \in (1..n) \X (1..N) : b[1] < p \/ (b[1] = p /\ b[2] < o)})
           = N * (p - 1) + (o - 1)
  <1> DEFINE A == (1..(p - 1)) \X (1..N)
             B == {p} \X (1..(o - 1))
  <1>1. {b \in (1..n) \X (1..N) : b[1] < p \/ (b[1] = p /\ b[2] < o)} = A \cup B
    BY ConfigAssumption
  <1>2. p - 1 \in Nat /\ o - 1 \in Nat /\ N \in Nat
    BY ConfigAssumption
  <1>3. IsFiniteSet(A) /\ Cardinality(A) = (p - 1) * N
    <2>1. /\ IsFiniteSet(1..(p - 1)) /\ Cardinality(1..(p - 1)) = p - 1
          /\ IsFiniteSet(1..N) /\ Cardinality(1..N) = N
      BY <1>2, IntervalSize
    <2> QED
      BY <2>1, FS_Product
  <1>4. IsFiniteSet(B) /\ Cardinality(B) = 1 * (o - 1)
    <2>1. /\ IsFiniteSet(1..(o - 1)) /\ Cardinality(1..(o - 1)) = o - 1
          /\ IsFiniteSet({p}) /\ Cardinality({p}) = 1
      BY <1>2, IntervalSize, FS_Singleton
    <2> QED
      BY <2>1, FS_Product
  <1>5. A \cap B = {}
    BY <1>2
  <1>6. Cardinality(A \cup B) = Cardinality(A) + Cardinality(B) - Cardinality({})
    BY <1>3, <1>4, <1>5, FS_Union
  <1>7. (p - 1) * N = N * (p - 1) /\ N * (p - 1) \in Nat
    BY <1>2
  <1>8. Cardinality(A) = N * (p - 1) /\ Cardinality(B) = o - 1 /\ Cardinality({}) = 0
    BY <1>2, <1>3, <1>4, <1>7, FS_EmptySet
  <1>9. Cardinality(A \cup B) = N * (p - 1) + (o - 1)
    BY <1>2, <1>6, <1>7, <1>8
  <1> QED
    BY <1>1, <1>9

\* Sorted, the trajectories of a prompt are a block.
LEMMA GeneratedRow ==
  ASSUME NEW prompts, Len(prompts) \in Nat, NEW k \in 1..(Len(prompts) * N)
  PROVE  GeneratedFrom(prompts)[k] = prompts[Block(k) + 1] /\ Block(k) + 1 \in 1..Len(prompts)
  <1> DEFINE n == Len(prompts)
             Before(a, b) == a[1] < b[1] \/ (a[1] = b[1] /\ a[2] < b[2])
             all == (1..n) \X (1..N)
             IsAt(a) == Cardinality({b \in all : Before(b, a)}) = k - 1
             at == CHOOSE a \in all : IsAt(a)
  <1>1. GeneratedFrom(prompts)[k] = prompts[at[1]]
    BY DEF GeneratedFrom
  <1> HIDE DEF n
  <1>2. n \in Nat /\ n * N = N * n /\ N * n \in Nat /\ k \in 1..(N * n)
    BY ConfigAssumption DEF n
  <1>3. k \in Nat \ {0} /\ k <= N * n
    BY <1>2
  <1>4. Block(k) \in Nat /\ Spot(k) \in 0..(N - 1) /\ k = N * Block(k) + Spot(k) + 1
    BY <1>3, BlockType
  <1>5. Block(k) < n
    BY <1>2, <1>3, BlocksBelow
  <1>6. \A a \in all : Cardinality({b \in all : Before(b, a)}) = N * (a[1] - 1) + (a[2] - 1)
    BY <1>2, Rank
  <1>7. \E a \in all : IsAt(a)
    <2> DEFINE a == <<Block(k) + 1, Spot(k) + 1>>
    <2>1. a \in all
      BY <1>2, <1>4, <1>5, ConfigAssumption
    <2>2. a[1] - 1 = Block(k) /\ a[2] - 1 = Spot(k)
      BY <1>4
    <2>3. Cardinality({b \in all : Before(b, a)}) = N * Block(k) + Spot(k)
      BY <1>6, <2>1, <2>2
    <2>4. N * Block(k) + Spot(k) = k - 1
      <3>1. N * Block(k) \in Nat
        BY <1>4, Multiples
      <3> QED
        BY <1>4, <3>1
    <2> QED
      BY <2>1, <2>3, <2>4
  <1>8. at \in all /\ IsAt(at)
    BY <1>7
  <1> HIDE DEF at
  <1>9. N * (at[1] - 1) + (at[2] - 1) = k - 1
    BY <1>6, <1>8
  <1>10. at[1] \in 1..n /\ at[2] \in 1..N
    BY <1>8
  <1>11. Block(k) = at[1] - 1
    <2> DEFINE q == at[1] - 1
               r == at[2] - 1
    <2>1. q \in Nat /\ r \in 0..(N - 1) /\ N * q + r = k - 1
      BY <1>2, <1>9, <1>10, ConfigAssumption
    <2> HIDE DEF q, r
    <2>2. q \in Nat /\ r \in 0..(N - 1) /\ N * q + r = k - 1
      BY <2>1 DEF q, r
    <2>3. N * q + r + 1 = k
      <3>1. N * q \in Nat
        BY <2>2, Multiples
      <3> QED
        BY <1>3, <2>2, <3>1
    <2>4. Block(N * q + r + 1) = q
      BY <2>2, BlockOf
    <2> QED
      BY <2>3, <2>4 DEF q
  <1>12. at[1] = Block(k) + 1
    BY <1>2, <1>10, <1>11
  <1> QED
    BY <1>1, <1>10, <1>12 DEF n

\* The rows of batch d of the data, the g-th of this step.
IsNewBatch(b, d, g) ==
  /\ DOMAIN b = 1..(N * GenBatch) /\ Grouped(b)
  /\ \A k \in DOMAIN b :
       /\ Block(k) + 1 \in 1..GenBatch
       /\ b[k].uid = <<g, Block(k) + 1>> /\ b[k].prompt = <<d, Block(k) + 1>>
       /\ b[k].from = <<d, Block(k) + 1>> /\ b[k].reward \in {0, 1}
       /\ b[k] = [uid |-> b[k].uid, prompt |-> b[k].prompt, from |-> b[k].from,
                  reward |-> b[k].reward]

\* A new batch is grouped, and every row carries the response to its own prompt.
LEMMA NewRows ==
  ASSUME NEW d \in Nat, NEW g \in Nat, NEW reward \in [1..(GenBatch * N) -> {0, 1}]
  PROVE  IsNewBatch(NewBatch(d, g, reward), d, g)
  <1> DEFINE b == NewBatch(d, g, reward)
  <1> HIDE DEF b
  <1>b. b = NewBatch(d, g, reward)
    BY DEF b
  <1> DEFINE prompts == [i \in 1..GenBatch |-> <<d, i>>]
             given   == [i \in 1..GenBatch |-> [uid |-> <<g, i>>, prompt |-> prompts[i]]]
             labels  == Repeat(given, N)
             outputs == GeneratedFrom(prompts)
  <1>1. GenBatch \in Nat /\ GenBatch * N = N * GenBatch /\ Len(prompts) = GenBatch /\ Len(given) = GenBatch
    BY ConfigAssumption
  <1>2. b = [k \in 1..(GenBatch * N) |->
               [uid |-> labels[k].uid, prompt |-> labels[k].prompt, from |-> outputs[k],
                reward |-> reward[k]]]
    BY <1>b DEF NewBatch
  <1>3. \A k \in 1..(GenBatch * N) :
          outputs[k] = prompts[Block(k) + 1] /\ Block(k) + 1 \in 1..GenBatch
    BY <1>1, GeneratedRow
  <1>4. \A k \in 1..(GenBatch * N) : labels[k] = given[Block(k) + 1]
    BY <1>1 DEF Repeat, Block
  <1> HIDE DEF labels, outputs
  <1>5. \A k \in 1..(GenBatch * N) :
          /\ labels[k].uid = <<g, Block(k) + 1>> /\ labels[k].prompt = <<d, Block(k) + 1>>
          /\ outputs[k] = <<d, Block(k) + 1>> /\ Block(k) + 1 \in 1..GenBatch
    <2> SUFFICES ASSUME NEW k \in 1..(GenBatch * N)
                 PROVE  /\ labels[k].uid = <<g, Block(k) + 1>> /\ labels[k].prompt = <<d, Block(k) + 1>>
                        /\ outputs[k] = <<d, Block(k) + 1>> /\ Block(k) + 1 \in 1..GenBatch
      OBVIOUS
    <2> DEFINE i == Block(k) + 1
    <2>1. i \in 1..GenBatch /\ outputs[k] = prompts[i] /\ labels[k] = given[i]
      BY <1>3, <1>4
    <2> HIDE DEF i
    <2>2. i \in 1..GenBatch /\ outputs[k] = prompts[i] /\ labels[k] = given[i]
      BY <2>1 DEF i
    <2>3. prompts[i] = <<d, i>> /\ given[i] = [uid |-> <<g, i>>, prompt |-> prompts[i]]
      BY <2>2
    <2>4. labels[k].uid = <<g, i>> /\ labels[k].prompt = <<d, i>> /\ outputs[k] = <<d, i>>
      BY <2>2, <2>3
    <2> QED
      BY <2>2, <2>4 DEF i
  <1>6. \A k \in DOMAIN b :
              /\ Block(k) + 1 \in 1..GenBatch
              /\ b[k].uid = <<g, Block(k) + 1>> /\ b[k].prompt = <<d, Block(k) + 1>>
              /\ b[k].from = <<d, Block(k) + 1>> /\ b[k].reward \in {0, 1}
              /\ b[k] = [uid |-> b[k].uid, prompt |-> b[k].prompt, from |-> b[k].from,
                         reward |-> b[k].reward]
    <2> SUFFICES ASSUME NEW k \in 1..(GenBatch * N)
                 PROVE  /\ Block(k) + 1 \in 1..GenBatch
                        /\ b[k].uid = <<g, Block(k) + 1>> /\ b[k].prompt = <<d, Block(k) + 1>>
                        /\ b[k].from = <<d, Block(k) + 1>> /\ b[k].reward \in {0, 1}
                        /\ b[k] = [uid |-> b[k].uid, prompt |-> b[k].prompt, from |-> b[k].from,
                                   reward |-> b[k].reward]
      BY <1>2
    <2>1. b[k] = [uid |-> labels[k].uid, prompt |-> labels[k].prompt, from |-> outputs[k],
                  reward |-> reward[k]]
      BY <1>2
    <2>2. b[k].uid = labels[k].uid /\ b[k].prompt = labels[k].prompt /\ b[k].from = outputs[k]
          /\ b[k].reward = reward[k]
      BY <2>1
    <2>3. reward[k] \in {0, 1}
      OBVIOUS
    <2>4. b[k] = [uid |-> b[k].uid, prompt |-> b[k].prompt, from |-> b[k].from,
                  reward |-> b[k].reward]
      BY <2>1, <2>2
    <2> QED
      BY <1>5, <2>2, <2>3, <2>4
  <1>7. DOMAIN b = 1..(N * GenBatch)
    BY <1>1, <1>2
  <1>8. ASSUME NEW k \in DOMAIN b, NEW l \in DOMAIN b
        PROVE  b[k].uid = b[l].uid <=> Block(k) = Block(l)
    <2>1. k \in Nat \ {0} /\ l \in Nat \ {0}
      BY <1>1, <1>2, ConfigAssumption
    <2>2. Block(k) \in Nat /\ Block(l) \in Nat
      BY <2>1, BlockType
    <2> QED
      BY <1>6, <2>2
  <1>9. IsNewBatch(b, d, g)
    BY <1>6, <1>7, <1>8 DEF Grouped, IsNewBatch
  <1> QED
    BY <1>b, <1>9

\* r is the rows of b that are kept, whole groups whose rewards differ, one for each uid.
KeepsGroups(b, r, Q) ==
  /\ r = [p \in 1..(N * Q) |-> r[p]] /\ Cardinality(KeptUids(b)) = Q /\ Grouped(r) /\ Mixed(r)
  /\ \A p \in DOMAIN r : \E k \in DOMAIN b : r[p] = b[k]

LEMMA KeptGroups ==
  ASSUME NEW b, NEW G \in Nat \ {0}, DOMAIN b = 1..(N * G), Grouped(b)
  PROVE  \E Q \in Nat : KeepsGroups(b, KeptRows(b), Q)
  <1> DEFINE R == KeptRows(b)
  <1> HIDE DEF R
  <1>r. R = KeptRows(b)
    BY DEF R
  <1> DEFINE L == N * G
             K == {k \in DOMAIN b : b[k].uid \in KeptUids(b)}
             F == KeptOf(K, L)
  <1>1. K \in SUBSET (1..(N * G)) /\ \A k \in K, l \in 1..(N * G) : Block(k) = Block(l) => l \in K
    BY DEF Grouped
  <1>2. KeptIdxs(b) = F
    <2>1. [k \in DOMAIN b |-> IF b[k].uid \in KeptUids(b) THEN <<k>> ELSE <<>>]
            = [k \in 1..L |-> IF k \in K THEN <<k>> ELSE <<>>]
      OBVIOUS
    <2> QED
      BY <2>1 DEF KeptIdxs, KeptOf
  <1> HIDE DEF K, F
  <1>n. K \in SUBSET (1..(N * G)) /\ \A k \in K, l \in 1..(N * G) : Block(k) = Block(l) => l \in K
    BY <1>1 DEF K
  <1>f. F = KeptOf(K, N * G)
    BY DEF F
  <1>3. /\ F \in Seq(1..(N * G))
        /\ \A k \in 1..(N * G) : k \in K <=> \E p \in DOMAIN F : F[p] = k
        /\ \A i, j \in DOMAIN F : Block(i) = Block(j) <=> Block(F[i]) = Block(F[j])
        /\ \E Q \in Nat : Len(F) = N * Q
    BY <1>n, <1>f, KeptList
  <1>4. PICK Q \in Nat : Len(F) = N * Q
    BY <1>3
  <1>5. DOMAIN F = 1..(N * Q) /\ \A p \in DOMAIN F : F[p] \in 1..(N * G) /\ F[p] \in K
    <2>1. DOMAIN F = 1..Len(F) /\ \A p \in 1..Len(F) : F[p] \in 1..(N * G)
      <3>1. \A S : \A t \in Seq(S) : DOMAIN t = 1..Len(t) /\ \A p \in 1..Len(t) : t[p] \in S
        OBVIOUS
      <3> QED
        BY <1>3, <3>1, Zenon
    <2>2. \A p \in DOMAIN F : F[p] \in K
      BY <1>3, <2>1
    <2> QED
      BY <1>4, <2>1, <2>2
  <1>6. R = [p \in DOMAIN F |-> b[F[p]]]
    BY <1>2, <1>r DEF KeptRows
  <1>7. DOMAIN R = 1..(N * Q) /\ \A p \in DOMAIN R : R[p] = b[F[p]] /\ F[p] \in DOMAIN b
    BY <1>5, <1>6
  <1>8. Grouped(R)
    BY <1>3, <1>5, <1>7 DEF Grouped
  <1>9. Cardinality(KeptUids(b)) = Q
    <2>1. {R[p].uid : p \in DOMAIN R} = KeptUids(b)
      <3>1. \A p \in DOMAIN R : R[p].uid \in KeptUids(b)
        BY <1>5, <1>7 DEF K
      <3>2. ASSUME NEW u \in KeptUids(b) PROVE \E p \in DOMAIN R : R[p].uid = u
        <4>1. PICK k \in DOMAIN b : b[k].uid = u
          BY DEF KeptUids
        <4>2. k \in K /\ k \in 1..(N * G)
          BY <4>1 DEF K
        <4>3. PICK p \in DOMAIN F : F[p] = k
          BY <1>3, <4>2
        <4> QED
          BY <1>5, <1>7, <4>1, <4>3
      <3> QED
        BY <3>1, <3>2
    <2>2. Cardinality({R[p].uid : p \in DOMAIN R}) = Q
      <3>1. DOMAIN R = 1..(N * Q)
        BY <1>7
      <3> QED
        BY <1>8, <3>1, UidCount, Zenon
    <2> QED
      BY <2>1, <2>2
  <1>10. Mixed(R)
    <2> SUFFICES ASSUME N # 1, NEW p \in DOMAIN R
                 PROVE  \E i, j \in DOMAIN R :
                          Block(i) = Block(p) /\ Block(j) = Block(p) /\ R[i].reward # R[j].reward
      BY DEF Mixed
    <2> DEFINE k == F[p]
               u == b[k].uid
    <2>1. k \in DOMAIN b /\ k \in K /\ R[p] = b[k]
      BY <1>5, <1>7
    <2>2. Differs(b, u)
      BY <2>1 DEF K, KeptUids
    <2>3. Cardinality(GroupOf(b, u)) = N
          /\ \A i \in DOMAIN b : i \in GroupOf(b, u) <=> Block(i) = Block(k)
      BY <2>1, GroupSize
    <2>4. PICK i, j \in GroupOf(b, u) : b[i].reward # b[j].reward
      BY <2>2, <2>3 DEF Differs
    <2>5. i \in DOMAIN b /\ j \in DOMAIN b /\ Block(i) = Block(k) /\ Block(j) = Block(k)
      BY <2>3, <2>4 DEF GroupOf
    <2>6. i \in K /\ j \in K
      BY <1>1, <2>1, <2>5
    <2>7. PICK x \in DOMAIN F : F[x] = i
      BY <1>3, <2>5, <2>6
    <2>8. PICK y \in DOMAIN F : F[y] = j
      BY <1>3, <2>5, <2>6
    <2>9. Block(x) = Block(p) /\ Block(y) = Block(p)
      BY <1>3, <1>5, <1>7, <2>5, <2>7, <2>8
    <2>10. R[x].reward # R[y].reward
      BY <1>5, <1>7, <2>4, <2>7, <2>8
    <2> QED
      BY <1>5, <1>7, <2>7, <2>8, <2>9, <2>10
  <1>11. R = [p \in 1..(N * Q) |-> R[p]]
    BY <1>6, <1>7
  <1>12. KeepsGroups(b, R, Q)
    BY <1>7, <1>8, <1>9, <1>10, <1>11 DEF KeepsGroups
  <1> QED
    BY <1>r, <1>12

LEMMA RowSequence ==
  ASSUME NEW S, NEW n \in Nat, NEW f \in [1..n -> S]
  PROVE  f \in Seq(S) /\ Len(f) = n
  OBVIOUS

LEMMA JoinedLength ==
  ASSUME NEW a \in Seq(Row), NEW b \in Seq(Row)
  PROVE  Len(a \o b) = Len(a) + Len(b)
  OBVIOUS

IsGroups(b, Q) == b \in Seq(Row) /\ Len(b) = N * Q /\ Grouped(b) /\ Mixed(b)

RowsFrom(c, a, b) == \A k \in DOMAIN c : \/ \E l \in DOMAIN a : c[k] = a[l]
                                       \/ \E l \in DOMAIN b : c[k] = b[l]

Disjoint(a, b) == \A k \in DOMAIN a, l \in DOMAIN b : a[k].uid # b[l].uid

\* Groups of two batches stay apart.
LEMMA JoinedGroups ==
  ASSUME NEW P \in Nat, NEW Q \in Nat,
         NEW a, IsGroups(a, P), NEW R, IsGroups(R, Q), Disjoint(a, R)
  PROVE  IsGroups(a \o R, P + Q) /\ RowsFrom(a \o R, a, R)
  <1> DEFINE c == a \o R
  <1> HIDE DEF c
  <1>c. c = a \o R
    BY DEF c
  <1>s. /\ a \in Seq(Row) /\ Len(a) = N * P /\ Grouped(a) /\ Mixed(a)
        /\ R \in Seq(Row) /\ Len(R) = N * Q /\ Grouped(R) /\ Mixed(R)
        /\ \A k \in DOMAIN a, l \in DOMAIN R : a[k].uid # R[l].uid
    BY DEF IsGroups, Disjoint
  <1>1. N * P \in Nat /\ N * Q \in Nat /\ N * (P + Q) = N * P + N * Q
    BY Multiples
  <1>2. /\ c \in Seq(Row) /\ Len(c) = N * P + N * Q /\ DOMAIN a = 1..(N * P) /\ DOMAIN R = 1..(N * Q)
        /\ DOMAIN c = 1..(N * P + N * Q)
        /\ \A k \in 1..(N * P) : c[k] = a[k]
        /\ \A l \in 1..(N * Q) : c[N * P + l] = R[l] /\ N * P + l \in DOMAIN c
    <2>1. /\ c \in Seq(Row) /\ Len(c) = Len(a) + Len(R) /\ Len(a) \in Nat /\ Len(R) \in Nat
          /\ DOMAIN c = 1..(Len(a) + Len(R)) /\ DOMAIN a = 1..Len(a) /\ DOMAIN R = 1..Len(R)
          /\ \A k \in 1..Len(a) : c[k] = a[k]
          /\ \A l \in 1..Len(R) : c[Len(a) + l] = R[l]
      <3>0. c \in Seq(Row)
        BY <1>c, <1>s
      <3>l. Len(c) = Len(a) + Len(R)
        BY <1>c, <1>s, JoinedLength
      <3>1. c \in Seq(Row) /\ Len(c) = Len(a) + Len(R) /\ Len(a) \in Nat /\ Len(R) \in Nat
        BY <3>0, <3>l
      <3>2. DOMAIN c = 1..(Len(a) + Len(R)) /\ DOMAIN a = 1..Len(a) /\ DOMAIN R = 1..Len(R)
        BY <3>1
      <3>3. \A k \in 1..Len(a) : c[k] = a[k]
        BY <1>c, <1>s
      <3>4. \A l \in 1..Len(R) : c[Len(a) + l] = R[l]
        BY <1>c, <1>s
      <3> QED
        BY <3>1, <3>2, <3>3, <3>4
    <2>2. \A l \in 1..Len(R) : Len(a) + l \in DOMAIN c
      BY <2>1
    <2> QED
      BY <1>s, <2>1, <2>2
  <1>3. \A k \in DOMAIN c : k \in DOMAIN a \/ \E l \in DOMAIN R : k = N * P + l
    <2> SUFFICES ASSUME NEW k \in DOMAIN c, k \notin DOMAIN a
                 PROVE  \E l \in DOMAIN R : k = N * P + l
      OBVIOUS
    <2>1. k - N * P \in DOMAIN R /\ k = N * P + (k - N * P)
      BY <1>1, <1>2
    <2> QED
      BY <2>1
  <1>4. ASSUME NEW l \in DOMAIN R PROVE Block(N * P + l) = P + Block(l) /\ Block(l) \in Nat
    <2>1. l \in Nat \ {0}
      BY <1>1, <1>2
    <2> QED
      BY <2>1, ShiftedBlock, BlockType
  <1>5. ASSUME NEW k \in DOMAIN a PROVE Block(k) < P /\ Block(k) \in Nat
    <2>1. k \in Nat \ {0} /\ k <= N * P
      BY <1>1, <1>2
    <2> QED
      BY <2>1, BlocksBelow, BlockType
  <1>6. ASSUME NEW k \in DOMAIN c, NEW l \in DOMAIN c
        PROVE  c[k].uid = c[l].uid <=> Block(k) = Block(l)
    <2>1. CASE k \in DOMAIN a /\ l \in DOMAIN a
      BY <1>2, <1>s, <2>1 DEF Grouped
    <2>2. CASE k \in DOMAIN a /\ l \notin DOMAIN a
      <3>1. PICK y \in DOMAIN R : l = N * P + y
        BY <1>3, <2>2
      <3> QED
        BY <1>s, <1>2, <1>4, <1>5, <2>2, <3>1
    <2>3. CASE k \notin DOMAIN a /\ l \in DOMAIN a
      <3>1. PICK x \in DOMAIN R : k = N * P + x
        BY <1>3, <2>3
      <3> QED
        BY <1>s, <1>2, <1>4, <1>5, <2>3, <3>1
    <2>4. CASE k \notin DOMAIN a /\ l \notin DOMAIN a
      <3>1. PICK x \in DOMAIN R : k = N * P + x
        BY <1>3, <2>4
      <3>2. PICK y \in DOMAIN R : l = N * P + y
        BY <1>3, <2>4
      <3>3. c[k].uid = R[x].uid /\ c[l].uid = R[y].uid
        BY <1>2, <3>1, <3>2
      <3>4. Block(k) = Block(l) <=> Block(x) = Block(y)
        BY <1>4, <3>1, <3>2
      <3> QED
        BY <1>s, <3>3, <3>4 DEF Grouped
    <2> QED
      BY <2>1, <2>2, <2>3, <2>4
  <1>7. ASSUME N # 1, NEW k \in DOMAIN c
        PROVE  \E i, j \in DOMAIN c :
                 Block(i) = Block(k) /\ Block(j) = Block(k) /\ c[i].reward # c[j].reward
    <2>1. CASE k \in DOMAIN a
      <3>1. PICK i, j \in DOMAIN a :
              Block(i) = Block(k) /\ Block(j) = Block(k) /\ a[i].reward # a[j].reward
        BY <1>7, <1>s, <2>1 DEF Mixed
      <3>2. i \in DOMAIN c /\ j \in DOMAIN c /\ c[i] = a[i] /\ c[j] = a[j]
        BY <1>1, <1>2
      <3> QED
        BY <3>1, <3>2
    <2>2. CASE k \notin DOMAIN a
      <3>1. PICK x \in DOMAIN R : k = N * P + x
        BY <1>3, <2>2
      <3>2. PICK i, j \in DOMAIN R :
              Block(i) = Block(x) /\ Block(j) = Block(x) /\ R[i].reward # R[j].reward
        BY <1>7, <1>s DEF Mixed
      <3> DEFINE x1 == N * P + i
                 x2 == N * P + j
      <3>3. x1 \in DOMAIN c /\ x2 \in DOMAIN c /\ c[x1] = R[i] /\ c[x2] = R[j]
        BY <1>2
      <3>4. Block(x1) = Block(k) /\ Block(x2) = Block(k)
        BY <1>4, <3>1, <3>2
      <3> HIDE DEF x1, x2
      <3>5. /\ x1 \in DOMAIN c /\ x2 \in DOMAIN c
            /\ Block(x1) = Block(k) /\ Block(x2) = Block(k) /\ c[x1].reward # c[x2].reward
        BY <3>2, <3>3, <3>4 DEF x1, x2
      <3> QED
        BY <3>5
    <2> QED
      BY <2>1, <2>2
  <1>8. Grouped(c) /\ Mixed(c)
    BY <1>6, <1>7 DEF Grouped, Mixed
  <1>9. \A k \in DOMAIN c : \/ \E l \in DOMAIN a : c[k] = a[l]
                            \/ \E l \in DOMAIN R : c[k] = R[l]
    <2> SUFFICES ASSUME NEW k \in DOMAIN c, k \notin DOMAIN a
                 PROVE  \E l \in DOMAIN R : c[k] = R[l]
      BY <1>2
    <2>1. PICK l \in DOMAIN R : k = N * P + l
      BY <1>3
    <2> QED
      BY <1>2, <2>1
  <1>10. IsGroups(c, P + Q) /\ RowsFrom(c, a, R)
    BY <1>1, <1>2, <1>8, <1>9 DEF IsGroups, RowsFrom
  <1> QED
    BY <1>c, <1>10

\* Cutting off the groups beyond the first T cuts no group.
LEMMA CutGroups ==
  ASSUME NEW P \in Nat, NEW T \in Nat, T <= P, NEW a, IsGroups(a, P)
  PROVE  /\ IsGroups(SubSeq(a, 1, T * N), T)
         /\ RowsFrom(SubSeq(a, 1, T * N), a, a)
  <1> DEFINE c == SubSeq(a, 1, T * N)
  <1> HIDE DEF c
  <1>c. c = SubSeq(a, 1, T * N)
    BY DEF c
  <1>s. a \in Seq(Row) /\ Len(a) = N * P /\ Grouped(a) /\ Mixed(a)
    BY DEF IsGroups
  <1>1. N * P \in Nat /\ N * T \in Nat /\ N * T <= N * P /\ T * N = N * T
    BY Multiples, ConfigAssumption
  <1>2. /\ c \in Seq(Row) /\ Len(c) = N * T /\ DOMAIN c = 1..(N * T) /\ DOMAIN a = 1..(N * P)
        /\ \A k \in DOMAIN c : c[k] = a[k]
    <2>1. N * T \in Nat /\ N * T <= Len(a) /\ c = SubSeq(a, 1, N * T)
      BY <1>1, <1>c, <1>s
    <2>2. /\ c \in Seq(Row) /\ Len(c) = N * T /\ DOMAIN c = 1..(N * T) /\ DOMAIN a = 1..Len(a)
          /\ \A k \in 1..(N * T) : c[k] = a[k]
      <3>1. PICK n \in Nat : n = N * T
        BY <2>1
      <3>2. /\ c \in Seq(Row) /\ Len(c) = n /\ DOMAIN c = 1..n /\ DOMAIN a = 1..Len(a)
            /\ \A k \in 1..n : c[k] = a[k]
        <4>1. a \in Seq(Row) /\ n <= Len(a) /\ c = SubSeq(a, 1, n)
          BY <1>s, <2>1, <3>1
        <4> QED
          BY <4>1
      <3> QED
        BY <3>1, <3>2, Zenon
    <2> QED
      BY <1>s, <2>2
  <1>3. DOMAIN c \subseteq DOMAIN a
    BY <1>1, <1>2
  <1>4. Grouped(c)
    BY <1>s, <1>2, <1>3 DEF Grouped
  <1>5. ASSUME NEW k \in DOMAIN c, NEW i \in DOMAIN a, Block(i) = Block(k) PROVE i \in DOMAIN c
    <2>1. k \in Nat \ {0} /\ i \in Nat \ {0} /\ k <= N * T
      BY <1>1, <1>2
    <2>2. Block(k) < T
      BY <2>1, BlocksBelow
    <2>3. i <= N * T
      BY <1>5, <2>1, <2>2, BlocksBelow
    <2> QED
      BY <1>1, <1>2, <2>1, <2>3
  <1>6. Mixed(c)
    <2> SUFFICES ASSUME N # 1, NEW k \in DOMAIN c
                 PROVE  \E i, j \in DOMAIN c :
                          Block(i) = Block(k) /\ Block(j) = Block(k) /\ c[i].reward # c[j].reward
      BY DEF Mixed
    <2>1. PICK i, j \in DOMAIN a :
            Block(i) = Block(k) /\ Block(j) = Block(k) /\ a[i].reward # a[j].reward
      BY <1>s, <1>3 DEF Mixed
    <2> QED
      BY <1>2, <1>5, <2>1
  <1>7. IsGroups(c, T) /\ RowsFrom(c, a, a)
    BY <1>2, <1>3, <1>4, <1>6 DEF IsGroups, RowsFrom
  <1> QED
    BY <1>c, <1>7

-----------------------------------------------------------------------------
(* Types, and the groups of the batch.                                     *)

TypeInv ==
  /\ pc \in {"launch", "draw", "update", "validate", "save", "actor", "data", "dataFile",
             "tracker", "trackerFile", "stepEnds", "done", "exhausted", "tooDifficult",
             "rewardFailed", "noAccuracy", "noCheckpoint"}
  /\ scored \in BOOLEAN /\ need \in BOOLEAN
  /\ \A s \in Steps : actor[s].is \in {"absent", "partial", "complete"}
                      /\ data[s].is \in {"absent", "partial", "complete"}
  /\ tracker.is \in {"absent", "partial", "complete"}
  /\ Keep > 0 => Len(saved) <= Keep
  /\ Keep > 0 /\ pc = "actor" => Len(saved) < Keep

LEMMA InitType == Init => TypeInv
  <1> SUFFICES ASSUME Init PROVE TypeInv
    OBVIOUS
  <1>1. pc = "launch" /\ Len(saved) = 0 /\ scored = FALSE /\ need = FALSE /\ tracker.is = "absent"
    BY DEF Init, Absent
  <1>2. \A s \in Steps : actor[s].is = "absent" /\ data[s].is = "absent"
    BY DEF Init, Absent
  <1>3. scored \in BOOLEAN /\ need \in BOOLEAN
    BY <1>1, Zenon
  <1>4. Keep > 0 => Len(saved) <= Keep
    BY <1>1, ConfigAssumption
  <1> QED
    BY <1>1, <1>2, <1>3, <1>4 DEF TypeInv

LEMMA StepType == IInv /\ TypeInv /\ [Next]_vars => TypeInv'
  <1> SUFFICES ASSUME IInv, TypeInv, [Next]_vars PROVE TypeInv'
    OBVIOUS
  <1> USE DEF loop, rows, val, disk, TypeInv
  <1>1. DOMAIN actor = Steps /\ DOMAIN data = Steps /\ saved \in Seq(Steps) /\ Len(saved) \in Nat
    BY DEF IInv, TrackerInv, SavedInv
  <1>2. CASE Load \/ Generate \/ RewardFails \/ PassEnds \/ Update \/ StepEnds
    <2>1. UNCHANGED <<scored, need, actor, data, tracker, saved>> /\ pc' # "actor"
      BY <1>2 DEF Load, Loaded, StartsAt, Generate, RewardFails, PassEnds, Update, StepEnds
    <2>2. pc' \in {"draw", "noCheckpoint", "update", "tooDifficult", "rewardFailed", "exhausted",
                   "validate", "save", "done"}
      BY <1>2 DEF Load, Loaded, StartsAt, Generate, RewardFails, PassEnds, Update, StepEnds
    <2> QED
      BY <2>1, <2>2
  <1>3. CASE Validate
    <2>1. pc' \in {"noAccuracy", "save"} /\ UNCHANGED <<actor, data, tracker, saved>>
      BY <1>3 DEF Validate
    <2>2. scored' \in BOOLEAN /\ need' \in BOOLEAN
      BY <1>3, Zenon DEF Validate
    <2> QED
      BY <2>1, <2>2
  <1>4. CASE BeginSave
    <2>1. pc' \in {"actor", "stepEnds"} /\ UNCHANGED <<scored, need, data, tracker>>
      BY <1>4 DEF BeginSave
    <2>2. CASE pc' = "stepEnds"
      BY <1>4, <2>1, <2>2 DEF BeginSave
    <2>3. CASE pc' = "actor"
      <3>1. /\ actor' = [s \in Steps |->
                           IF s = step THEN Partial
                           ELSE IF \E i \in 1..Removed : saved[i] = s THEN Absent
                           ELSE actor[s]]
            /\ saved' = SubSeq(saved, Removed + 1, Len(saved))
        BY <1>4, <2>3 DEF BeginSave
      <3>2. \A s \in Steps : actor'[s].is \in {"absent", "partial", "complete"}
        BY <3>1 DEF Partial, Absent
      <3>3. Removed \in 0..Len(saved) /\ (Keep > 0 => Len(saved) - Removed < Keep)
        BY <1>1, ConfigAssumption DEF Removed
      <3>4. Len(saved') = Len(saved) - Removed
        BY <1>1, <3>1, <3>3
      <3> QED
        BY <1>1, <2>1, <2>3, <3>2, <3>3, <3>4, ConfigAssumption
    <2> QED
      BY <2>1, <2>2, <2>3
  <1>5. CASE ActorSaved
    <2>1. /\ pc = "actor" /\ pc' = "data" /\ UNCHANGED <<scored, need, data, tracker>>
          /\ actor' = [actor EXCEPT ![step] = [is |-> "complete", policy |-> policy]]
          /\ saved' = Append(saved, step)
      BY <1>5 DEF ActorSaved
    <2>2. Len(saved') = Len(saved) + 1
      BY <1>1, <2>1
    <2>3. Keep > 0 => Len(saved') <= Keep
      BY <1>1, <2>1, <2>2, ConfigAssumption
    <2>4. \A s \in Steps : actor'[s].is \in {"absent", "partial", "complete"}
      BY <1>1, <2>1
    <2> QED
      BY <2>1, <2>3, <2>4
  <1>6. CASE OpenData \/ DataSaved
    <2>1. /\ pc' \in {"dataFile", "tracker"} /\ UNCHANGED <<scored, need, actor, tracker, saved>>
          /\ \/ data' = [data EXCEPT ![step] = Partial]
             \/ data' = [data EXCEPT ![step] = [is |-> "complete", drawn |-> drawn, left |-> left]]
      BY <1>6 DEF OpenData, DataSaved
    <2>2. \A s \in Steps : data'[s].is \in {"absent", "partial", "complete"}
      BY <1>1, <2>1 DEF Partial
    <2> QED
      BY <2>1, <2>2
  <1>7. CASE OpenTracker \/ TrackerSaved
    <2>1. /\ pc' \in {"trackerFile", "stepEnds"} /\ UNCHANGED <<scored, actor, data, saved>>
          /\ tracker'.is \in {"partial", "complete"}
      BY <1>7 DEF OpenTracker, TrackerSaved, Partial
    <2>2. need' \in BOOLEAN
      BY <1>7, Zenon DEF OpenTracker, TrackerSaved
    <2> QED
      BY <2>1, <2>2
  <1>8. CASE Relaunch
    <2>1. pc' = "launch" /\ scored' = FALSE /\ need' = FALSE /\ saved' = <<>>
          /\ UNCHANGED <<actor, data, tracker>>
      BY <1>8 DEF Relaunch
    <2>2. Len(saved') = 0
      BY <2>1
    <2>3. scored' \in BOOLEAN /\ need' \in BOOLEAN
      BY <2>1, Zenon
    <2>4. Keep > 0 => Len(saved') <= Keep
      BY <2>2, ConfigAssumption
    <2> QED
      BY <2>1, <2>3, <2>4
  <1>9. CASE UNCHANGED vars
    BY <1>9 DEF vars
  <1> QED
    BY <1>2, <1>3, <1>4, <1>5, <1>6, <1>7, <1>8, <1>9 DEF Next, Save

-----------------------------------------------------------------------------
(* The groups of the batch.                                                *)

LEMMA EmptyBatch ==
  ASSUME NEW before
  PROVE  /\ <<>> \in Seq(Row) /\ Len(<<>>) = 0
         /\ Grouped(<<>>) /\ Mixed(<<>>) /\ Matched(<<>>, before)
  BY DEF Grouped, Mixed, Matched

\* The position in the data stays in the range of the prompts.
LEMMA DrawnBounds ==
  ASSUME IInv, DrawInv
  PROVE  /\ TotalSteps * MaxLaunches \in Nat /\ drawn \in Nat /\ drawn <= TotalSteps * MaxLaunches
         /\ pc = "draw" /\ left > 0 => /\ numGen + 1 <= TotalSteps
                                       /\ drawn + 1 <= TotalSteps * MaxLaunches
  <1>1. launches \in Nat /\ MaxLaunches - launches \in Nat
        /\ launches + (MaxLaunches - launches) = MaxLaunches
    BY ConfigAssumption DEF IInv, PolicyInv
  <1>2. TotalSteps * (launches + (MaxLaunches - launches))
          = TotalSteps * launches + TotalSteps * (MaxLaunches - launches)
    <2>1. \A x, y, z \in Nat : x * (y + z) = x * y + x * z
      OBVIOUS
    <2> QED
      BY <1>1, <2>1, TotalType
  <1>3. TotalSteps * launches \in Nat /\ TotalSteps * (MaxLaunches - launches) \in Nat
    BY <1>1, TotalType, Product
  <1>4. TotalSteps * MaxLaunches = TotalSteps * launches + TotalSteps * (MaxLaunches - launches)
    BY <1>1, <1>2
  <1>5. drawn \in Nat /\ drawn <= TotalSteps * launches
    BY DEF IInv, PolicyInv, DrawInv
  <1>6. ASSUME pc = "draw", left > 0
        PROVE  numGen + 1 <= TotalSteps /\ drawn + 1 <= TotalSteps * launches
    <2>1. /\ epoch < Epochs /\ drawn + Ahead <= TotalSteps * launches /\ numGen + Ahead <= TotalSteps
          /\ left \in Nat /\ numGen \in Nat
      BY <1>6, ConfigAssumption DEF DrawInv, Collecting
    <2>2. Ahead \in Nat /\ left <= Ahead
      BY <2>1, AheadType
    <2> QED
      BY <1>3, <1>5, <1>6, <2>1, <2>2, TotalType
  <1> QED
    BY <1>3, <1>4, <1>5, <1>6

\* The rows carry the responses to their own prompts, of batch d of the data, the g-th of this step.
DrawnAs(b, d, g) ==
  \A p \in DOMAIN b : /\ b[p].from = b[p].prompt /\ b[p].prompt[2] = b[p].uid[2]
                       /\ b[p].prompt[1] = d /\ b[p].uid[1] = g

\* What is kept of a new batch.
LEMMA NewGroups ==
  ASSUME NEW d \in 1..(TotalSteps * MaxLaunches), NEW g \in 1..TotalSteps,
         TotalSteps * MaxLaunches \in Nat, NEW new, IsNewBatch(new, d, g)
  PROVE  \E Q \in Nat : /\ IsGroups(KeptRows(new), Q) /\ Cardinality(KeptUids(new)) = Q
                        /\ DrawnAs(KeptRows(new), d, g)
  <1> DEFINE R == KeptRows(new)
  <1>0. d \in Nat /\ g \in Nat /\ GenBatch \in Nat \ {0} /\ DOMAIN new = 1..(N * GenBatch)
        /\ Grouped(new)
    BY TotalType, ConfigAssumption DEF IsNewBatch
  <1>1. \A k \in DOMAIN new :
          /\ Block(k) + 1 \in 1..GenBatch
          /\ new[k].uid = <<g, Block(k) + 1>> /\ new[k].prompt = <<d, Block(k) + 1>>
          /\ new[k].from = <<d, Block(k) + 1>> /\ new[k].reward \in {0, 1}
          /\ new[k] = [uid |-> new[k].uid, prompt |-> new[k].prompt, from |-> new[k].from,
                       reward |-> new[k].reward]
    BY DEF IsNewBatch
  <1>2. ASSUME NEW k \in DOMAIN new
        PROVE  /\ new[k] \in Row /\ new[k].from = new[k].prompt /\ new[k].prompt[2] = new[k].uid[2]
               /\ new[k].prompt[1] = d /\ new[k].uid[1] = g
    <2> DEFINE i == Block(k) + 1
    <2>1. /\ i \in 1..GenBatch /\ new[k].uid = <<g, i>> /\ new[k].prompt = <<d, i>>
          /\ new[k].from = <<d, i>>
      BY <1>1
    <2> HIDE DEF i
    <2>n. /\ i \in 1..GenBatch /\ new[k].uid = <<g, i>> /\ new[k].prompt = <<d, i>>
          /\ new[k].from = <<d, i>>
      BY <2>1 DEF i
    <2>2. <<g, i>> \in Uids /\ <<d, i>> \in Prompts
      BY <2>n DEF Uids, Prompts, TotalSteps
    <2>3. new[k] \in Row
      BY <1>1, <2>n, <2>2 DEF Row
    <2> QED
      BY <2>n, <2>3
  <1>3. PICK Q \in Nat : KeepsGroups(new, R, Q)
    BY <1>0, KeptGroups
  <1> HIDE DEF R
  <1>q. KeepsGroups(new, R, Q)
    BY <1>3 DEF R
  <1>4. DOMAIN R = 1..(N * Q) /\ N * Q \in Nat /\ R = [p \in 1..(N * Q) |-> R[p]]
    BY <1>q, Multiples DEF KeepsGroups
  <1>5. \A p \in DOMAIN R : \E k \in DOMAIN new : R[p] = new[k]
    BY <1>q DEF KeepsGroups
  <1>6. R \in [1..(N * Q) -> Row]
    BY <1>2, <1>4, <1>5
  <1>7. R \in Seq(Row) /\ Len(R) = N * Q
    BY <1>4, <1>6, RowSequence
  <1>8. DrawnAs(R, d, g)
    BY <1>2, <1>5 DEF DrawnAs
  <1>9. IsGroups(R, Q) /\ Cardinality(KeptUids(new)) = Q
    BY <1>7, <1>q DEF KeepsGroups, IsGroups
  <1> QED
    BY <1>8, <1>9 DEF R

LEMMA GenerateBatch ==
  ASSUME IInv, DrawInv, BatchInv, Generate
  PROVE  BatchInv'
  <1> USE DEF Collecting
  <1>1. /\ pc = "draw" /\ left > 0 /\ drawn' = drawn + 1 /\ numGen' = numGen + 1
        /\ drawn \in Nat /\ numGen \in Nat /\ numPrompt \in Nat
    BY DEF Generate, IInv, PolicyInv, DrawInv, BatchInv
  <1>2. PICK reward \in [1..(GenBatch * N) -> {0, 1}] :
          LET new  == NewBatch(drawn + 1, numGen + 1, reward)
              kept == numPrompt + Cardinality(KeptUids(new))
              all  == batch \o KeptRows(new)
          IN /\ numPrompt' = kept
             /\ batch' = IF kept < TrainBatch THEN all ELSE SubSeq(all, 1, TrainBatch * N)
             /\ pc' = IF kept >= TrainBatch THEN "update"
                      ELSE IF MaxGen = 0 \/ numGen + 1 < MaxGen THEN "draw"
                      ELSE "tooDifficult"
    BY DEF Generate
  <1> DEFINE new  == NewBatch(drawn + 1, numGen + 1, reward)
             R    == KeptRows(new)
             all  == batch \o R
             kept == numPrompt + Cardinality(KeptUids(new))
  <1> HIDE DEF new, R, all, kept
  <1>3. /\ numPrompt' = kept
        /\ batch' = IF kept < TrainBatch THEN all ELSE SubSeq(all, 1, TrainBatch * N)
        /\ pc' = IF kept >= TrainBatch THEN "update"
                 ELSE IF MaxGen = 0 \/ numGen + 1 < MaxGen THEN "draw"
                 ELSE "tooDifficult"
    BY <1>2 DEF new, R, all, kept
  <1>4. PICK Q \in Nat : /\ IsGroups(R, Q) /\ Cardinality(KeptUids(new)) = Q
                         /\ DrawnAs(R, drawn + 1, numGen + 1)
    <2>1. /\ TotalSteps * MaxLaunches \in Nat /\ numGen + 1 \in 1..TotalSteps
          /\ drawn + 1 \in 1..(TotalSteps * MaxLaunches)
      BY <1>1, DrawnBounds, TotalType
    <2>2. IsNewBatch(new, drawn + 1, numGen + 1)
      <3>1. drawn + 1 \in Nat /\ numGen + 1 \in Nat
        BY <1>1
      <3> QED
        BY <3>1, NewRows DEF new
    <2>3. \E q \in Nat : /\ IsGroups(KeptRows(new), q) /\ Cardinality(KeptUids(new)) = q
                         /\ DrawnAs(KeptRows(new), drawn + 1, numGen + 1)
      BY <2>1, <2>2, NewGroups
    <2> QED
      BY <2>3 DEF R
  <1>k. kept = numPrompt + Q
    BY <1>4 DEF kept
  <1>5. IsGroups(batch, numPrompt) /\ \A k \in DOMAIN batch : batch[k].uid[1] \in Nat
    <2>1. batch \in Seq(Row) /\ \A k \in DOMAIN batch : batch[k] \in Row
      BY DEF BatchInv
    <2>2. \A k \in DOMAIN batch : batch[k].uid \in Uids
      BY <2>1 DEF Row
    <2>3. \A k \in DOMAIN batch : batch[k].uid[1] \in 1..TotalSteps
      BY <2>2 DEF Uids, TotalSteps
    <2> QED
      BY <1>1, <2>1, <2>3, TotalType DEF BatchInv, IsGroups
  <1>6. Disjoint(batch, R)
    <2> SUFFICES ASSUME NEW k \in DOMAIN batch, NEW l \in DOMAIN R, batch[k].uid = R[l].uid
                 PROVE  FALSE
      BY DEF Disjoint
    <2>1. batch[k].uid[1] <= numGen /\ R[l].uid[1] = numGen + 1 /\ batch[k].uid[1] \in Nat
      BY <1>1, <1>4, <1>5 DEF DrawnAs, BatchInv
    <2> QED
      BY <1>1, <2>1
  <1>7. IsGroups(all, kept) /\ RowsFrom(all, batch, R)
    <2>1. IsGroups(batch \o R, numPrompt + Q) /\ RowsFrom(batch \o R, batch, R)
      BY <1>1, <1>4, <1>5, <1>6, JoinedGroups
    <2> QED
      BY <2>1, <1>k DEF all
  <1>8. ASSUME NEW k \in DOMAIN all
        PROVE  /\ all[k].from = all[k].prompt /\ all[k].prompt[2] = all[k].uid[2]
               /\ all[k].prompt[1] = all[k].uid[1] + (drawn' - numGen') /\ all[k].uid[1] <= numGen'
    <2>1. CASE \E l \in DOMAIN batch : all[k] = batch[l]
      <3>1. PICK l \in DOMAIN batch : all[k] = batch[l]
        BY <2>1
      <3>2. /\ batch[l].from = batch[l].prompt /\ batch[l].prompt[2] = batch[l].uid[2]
            /\ batch[l].prompt[1] = batch[l].uid[1] + (drawn - numGen)
            /\ batch[l].uid[1] <= numGen /\ batch[l].uid[1] \in Nat
        BY <1>1, <1>5 DEF BatchInv, Matched
      <3> QED
        BY <1>1, <3>1, <3>2
    <2>2. CASE \E l \in DOMAIN R : all[k] = R[l]
      <3>1. PICK l \in DOMAIN R : all[k] = R[l]
        BY <2>2
      <3>2. /\ R[l].from = R[l].prompt /\ R[l].prompt[2] = R[l].uid[2]
            /\ R[l].prompt[1] = drawn + 1 /\ R[l].uid[1] = numGen + 1
        BY <1>4 DEF DrawnAs
      <3> QED
        BY <1>1, <3>1, <3>2
    <2> QED
      BY <1>7, <2>1, <2>2 DEF RowsFrom
  <1>9. Matched(all, drawn' - numGen') /\ \A k \in DOMAIN all : all[k].uid[1] <= numGen'
    BY <1>8 DEF Matched
  <1>10. kept \in Nat
    BY <1>1, <1>k
  <1>11. CASE kept < TrainBatch
    <2>1. batch' = all /\ numPrompt' = kept /\ pc' \in {"draw", "tooDifficult"}
      BY <1>3, <1>10, <1>11, ConfigAssumption
    <2> QED
      BY <1>7, <1>9, <1>10, <1>11, <2>1 DEF BatchInv, IsGroups
  <1>12. CASE kept >= TrainBatch
    <2>1. batch' = SubSeq(all, 1, TrainBatch * N) /\ numPrompt' = kept /\ pc' = "update"
      BY <1>3, <1>10, <1>12, ConfigAssumption
    <2>2. IsGroups(batch', TrainBatch) /\ RowsFrom(batch', all, all)
      <3>1. TrainBatch \in Nat /\ TrainBatch <= kept
        BY <1>10, <1>12, ConfigAssumption
      <3> QED
        BY <1>7, <1>10, <2>1, <3>1, CutGroups
    <2>3. Matched(batch', drawn' - numGen') /\ \A k \in DOMAIN batch' : batch'[k].uid[1] <= numGen'
      BY <1>9, <2>2 DEF Matched, RowsFrom
    <2> QED
      BY <1>10, <2>1, <2>2, <2>3 DEF BatchInv, IsGroups
  <1> QED
    BY <1>10, <1>11, <1>12, ConfigAssumption

LEMMA InitBatch == Init => BatchInv
  <1> SUFFICES ASSUME Init PROVE BatchInv
    OBVIOUS
  <1>1. batch = <<>> /\ numPrompt = 0 /\ pc = "launch"
    BY DEF Init
  <1> QED
    BY <1>1, EmptyBatch DEF BatchInv, Collecting

LEMMA StepBatch == IInv /\ DrawInv /\ BatchInv /\ [Next]_vars => BatchInv'
  <1> SUFFICES ASSUME IInv, DrawInv, BatchInv, [Next]_vars PROVE BatchInv'
    OBVIOUS
  <1> USE DEF loop, rows
  <1>0. TrainBatch \in Nat \ {0} /\ N * 0 = 0
    BY ConfigAssumption
  <1>1. CASE Load
    <2>1. batch' = <<>> /\ numPrompt' = 0 /\ pc' \in {"draw", "noCheckpoint"}
      BY <1>1 DEF Load, Loaded, StartsAt, BatchInv
    <2> QED
      BY <1>0, <2>1, EmptyBatch DEF BatchInv, Collecting
  <1>2. CASE Generate
    BY <1>2, GenerateBatch
  <1>3. CASE RewardFails \/ PassEnds
    <2>1. /\ pc = "draw" /\ pc' \in {"draw", "rewardFailed", "exhausted"}
          /\ UNCHANGED <<batch, numPrompt, numGen, drawn>>
      BY <1>3 DEF RewardFails, PassEnds
    <2> QED
      BY <2>1 DEF BatchInv, Collecting
  <1>4. CASE Update \/ Validate \/ Save
    <2>1. /\ pc' \in Updated \cup {"noAccuracy"} /\ UNCHANGED <<batch, numPrompt>>
      BY <1>4 DEF Update, Validate, Save, BeginSave, ActorSaved, OpenData, DataSaved, OpenTracker,
                  TrackerSaved, Updated
    <2> QED
      BY <2>1 DEF BatchInv, Collecting, Updated
  <1>5. CASE StepEnds \/ Relaunch
    <2>1. batch' = <<>> /\ numPrompt' = 0 /\ pc' \in {"done", "draw", "launch"}
      BY <1>5 DEF StepEnds, Relaunch
    <2> QED
      BY <1>0, <2>1, EmptyBatch DEF BatchInv, Collecting
  <1>6. CASE UNCHANGED vars
    BY <1>6 DEF BatchInv, vars
  <1> QED
    BY <1>1, <1>2, <1>3, <1>4, <1>5, <1>6 DEF Next

-----------------------------------------------------------------------------
(* Theorems                                                                *)

LEMMA Invariant == Spec => [](IInv /\ DrawInv /\ DataInv /\ TypeInv /\ BatchInv)
  BY InitInv, InitDraw, InitType, InitBatch, StepInv, StepDraw, StepData, StepType, StepBatch,
     PTL DEF Spec

\* Type correctness.  Between two batches fewer groups are held than an update needs, fewer batches
\* were generated than the limit allows, and no more checkpoints are remembered than are kept.
THEOREM TypeCorrect == Spec => []TypeOK
  <1>1. IInv /\ DrawInv /\ DataInv /\ TypeInv /\ BatchInv => TypeOK
    <2> SUFFICES ASSUME IInv, DrawInv, DataInv, TypeInv, BatchInv PROVE TypeOK
      OBVIOUS
    <2>1. step \in 0..(TotalSteps + MaxLaunches) /\ launches \in 1..MaxLaunches
      BY TotalType, ConfigAssumption DEF IInv, PolicyInv
    <2>2. drawn \in 0..(PassLen * Epochs * MaxLaunches)
      <3>1. TotalSteps * MaxLaunches \in Nat /\ drawn \in Nat /\ drawn <= TotalSteps * MaxLaunches
        BY DrawnBounds
      <3>2. drawn \in 0..(TotalSteps * MaxLaunches)
        BY <3>1
      <3> QED
        BY <3>2 DEF TotalSteps
    <2>3. /\ epoch \in 0..Epochs /\ left \in 0..PassLen
          /\ pc = "draw" /\ MaxGen > 0 => numGen < MaxGen
      BY DEF DrawInv
    <2>4. \A i \in DOMAIN batch : batch[i] \in Row
      BY DEF BatchInv
    <2>5. pc = "draw" => Len(batch) = numPrompt * N /\ numPrompt < TrainBatch
      <3>1. numPrompt \in Nat /\ N * numPrompt = numPrompt * N
        BY ConfigAssumption DEF BatchInv
      <3> QED
        BY <3>1 DEF BatchInv
    <2>6. \A i \in DOMAIN saved : saved[i] \in Steps
      BY DEF IInv, SavedInv
    <2>7. tracker.is = "complete" => tracker.step \in Steps
      BY DEF IInv, TrackerInv, IsTracked
    <2> QED
      BY <2>1, <2>2, <2>3, <2>4, <2>5, <2>6, <2>7 DEF TypeOK, TypeInv
  <1> QED
    BY <1>1, Invariant, PTL

\* Unless a single checkpoint is kept, the step the tracker names can be resumed, wherever the
\* training was killed.
THEOREM TrackedCheckpointIsComplete ==
  ASSUME Keep \in Nat \ {1}
  PROVE  Spec => []TrackedIsComplete
  <1>1. IInv => TrackedIsComplete
    BY DEF IInv, TrackerInv, TrackedIsComplete, IsTracked
  <1> QED
    BY <1>1, Invariant, PTL

\* Through kills and relaunches, and whatever the policy is resumed from, an update is made from
\* batches that were drawn after those of every earlier update.
THEOREM NoBatchTwice == Spec => []NothingTwice
  <1>1. IInv /\ DrawInv /\ BatchInv => NothingTwice
    <2> SUFFICES ASSUME IInv, DrawInv, BatchInv PROVE NothingTwice
      OBVIOUS
    <2>1. \A i \in 1..(Len(policy) - 1) : policy[i] < policy[i + 1]
      BY DEF IInv, PolicyInv, Increasing
    <2>2. pc = "draw" => Len(policy) = step - 1
      BY DEF IInv, PolicyInv, Collecting
    <2>3. ASSUME pc \in {"draw", "update"}, policy # <<>>, NEW i \in DOMAIN batch
          PROVE  batch[i].prompt[1] > policy[Len(policy)]
      <3>1. batch[i].prompt[1] = batch[i].uid[1] + (drawn - numGen)
        BY <2>3 DEF BatchInv, Collecting, Matched
      <3>2. policy[Len(policy)] <= drawn - numGen
        BY <2>3 DEF DrawInv, Collecting
      <3>3. batch[i].uid[1] \in Nat \ {0}
        <4>1. batch[i] \in Row
          BY <2>3 DEF BatchInv
        <4>2. batch[i].uid \in Uids
          BY <4>1 DEF Row
        <4>3. batch[i].uid[1] \in 1..TotalSteps
          BY <4>2 DEF Uids, TotalSteps
        <4> QED
          BY <4>3, TotalType
      <3>4. drawn \in Nat /\ numGen \in Nat /\ policy[Len(policy)] \in Nat
        <4>1. policy \in Seq(Nat) /\ Len(policy) \in 1..Len(policy)
          BY <2>3 DEF IInv, PolicyInv
        <4> QED
          BY <4>1 DEF IInv, PolicyInv, DrawInv
      <3> QED
        BY <3>1, <3>2, <3>3, <3>4
    <2> QED
      BY <2>1, <2>2, <2>3 DEF NothingTwice
  <1> QED
    BY <1>1, Invariant, PTL

\* An update is made from exactly TrainBatch groups, each all the rollouts of one prompt, each row
\* with the response to its own prompt, and the rewards of each group differ.
THEOREM UpdatesAreWholeGroups == Spec => []GroupsWhole
  <1>1. IInv /\ DrawInv /\ BatchInv => GroupsWhole
    <2> SUFFICES ASSUME IInv, DrawInv, BatchInv, pc = "update"
                 PROVE  /\ Cardinality({batch[i].uid : i \in DOMAIN batch}) = TrainBatch
                        /\ \A i \in DOMAIN batch :
                             LET r == batch[i] IN
                               /\ r.from = r.prompt
                               /\ Cardinality(GroupOf(batch, r.uid)) = N
                               /\ \A j \in DOMAIN batch :
                                    batch[j].uid = r.uid <=> batch[j].from = r.from
                               /\ Differs(batch, r.uid)
      BY DEF GroupsWhole
    <2>1. /\ Grouped(batch) /\ Mixed(batch) /\ Matched(batch, drawn - numGen)
          /\ batch \in Seq(Row) /\ Len(batch) = N * TrainBatch
      BY DEF BatchInv, Collecting
    <2>2. DOMAIN batch = 1..(N * TrainBatch) /\ TrainBatch \in Nat
      BY <2>1, ConfigAssumption
    <2>3. Cardinality({batch[i].uid : i \in DOMAIN batch}) = TrainBatch
      BY <2>1, <2>2, UidCount, Zenon
    <2>4. ASSUME NEW i \in DOMAIN batch
          PROVE  /\ batch[i].from = batch[i].prompt
                 /\ batch[i].prompt = <<batch[i].prompt[1], batch[i].prompt[2]>>
                 /\ batch[i].uid = <<batch[i].uid[1], batch[i].uid[2]>>
                 /\ batch[i].prompt[2] = batch[i].uid[2] /\ batch[i].uid[1] \in Int
                 /\ batch[i].prompt[1] = batch[i].uid[1] + (drawn - numGen)
      <3>1. batch[i] \in Row
        BY <2>1
      <3>2. batch[i].uid \in Uids /\ batch[i].prompt \in Prompts
        BY <3>1 DEF Row
      <3>3. /\ batch[i].uid = <<batch[i].uid[1], batch[i].uid[2]>> /\ batch[i].uid[1] \in Int
            /\ batch[i].prompt = <<batch[i].prompt[1], batch[i].prompt[2]>>
        BY <3>2 DEF Uids, Prompts
      <3> QED
        BY <2>1, <3>3 DEF Matched
    <2>5. ASSUME NEW i \in DOMAIN batch, NEW j \in DOMAIN batch
          PROVE  batch[j].uid = batch[i].uid <=> batch[j].from = batch[i].from
      <3> DEFINE before == drawn - numGen
      <3>1. before \in Int
        BY DEF IInv, PolicyInv, DrawInv
      <3> QED
        BY <2>4, <3>1
    <2>6. ASSUME NEW i \in DOMAIN batch
          PROVE  /\ Cardinality(GroupOf(batch, batch[i].uid)) = N
                 /\ \A j \in DOMAIN batch :
                      j \in GroupOf(batch, batch[i].uid) <=> Block(j) = Block(i)
      BY <2>1, <2>2, GroupSize, Zenon
    <2>7. ASSUME NEW i \in DOMAIN batch PROVE Differs(batch, batch[i].uid)
      <3>1. CASE N = 1
        BY <2>6, <3>1 DEF Differs
      <3>2. CASE N # 1
        <4>1. PICK x, y \in DOMAIN batch :
                Block(x) = Block(i) /\ Block(y) = Block(i) /\ batch[x].reward # batch[y].reward
          BY <2>1, <3>2 DEF Mixed
        <4>2. x \in GroupOf(batch, batch[i].uid) /\ y \in GroupOf(batch, batch[i].uid)
          BY <2>6, <4>1
        <4> QED
          BY <4>1, <4>2 DEF Differs
      <3> QED
        BY <3>1, <3>2
    <2> QED
      BY <2>3, <2>4, <2>5, <2>6, <2>7
  <1> QED
    BY <1>1, Invariant, PTL
=============================================================================
