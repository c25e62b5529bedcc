----------------------------- MODULE RewardBatch -----------------------------
(***************************************************************************)
(* One call of VeriGraphRewardManager: the samples of a batch that qualify *)
(* are turned into requests to the judge, the requests are answered        *)
(* concurrently and in any order, and every sample finds the answers to    *)
(* its own requests by their positions.  The final claims are judged       *)
(* first, then the steps of inference.                                     *)
(*                                                                         *)
(* Scores are numbers of hundredths, weights of hundredths as well, so     *)
(* that a reward is a number of ten-thousandths.  Thirds are rounded to a  *)
(* hundredth: a score of 1/3 of the judge is 33, and the mean over the     *)
(* steps of a sample is rounded down.                                      *)
(***************************************************************************)
EXTENDS Integers, Sequences, FiniteSets, SequencesExt

CONSTANTS Count,        \* samples in the batch
          Kinds,        \* what a sample can be
          Concurrency,  \* judge_max_concurrency
          ProcessWeight, InferWeight, FinalWeight, MissingSubmitPenalty,
          ClipMin, ClipMax

ASSUME RewardAssumption ==
  /\ Count \in Nat /\ Concurrency \in Nat \ {0}
  /\ ProcessWeight \in Nat /\ InferWeight \in Nat /\ FinalWeight \in Nat
  /\ MissingSubmitPenalty \in Int /\ ClipMin \in Int /\ ClipMax \in Int

\* What the manager reads of a trajectory: valid_trajectory, submitted_answer_present, whether it
\* has final claims and its question a reference answer, the share of calls that succeeded, and
\* of every step of inference whether a known premise and a conclusion are named.
ASSUME KindsAssumption ==
  Kinds \subseteq [valid : BOOLEAN, submitted : BOOLEAN, claims : BOOLEAN, truth : BOOLEAN,
                  process : 0..100, steps : Seq(BOOLEAN)]

VARIABLES
  sample,    \* the trajectories, as the rollout leaves them
  phase,     \* "final", "infer" or "done"
  call,      \* where the request at every position is
  result,    \* what gather() will return at that position
  finals,    \* judge_results
  infers,    \* infer_judge_results
  reward     \* reward/total

vars == <<sample, phase, call, result, finals, infers, reward>>

Samples == 1..Count

\* What the judge can say of the final claims and of a step; a call that fails is the last one.
FinalScores == {0, 33, 67, 100} \cup {-100}
InferScores == {0, 100} \cup {-100}

-----------------------------------------------------------------------------
(* Which samples are judged                                                *)

IsJudged(s) == FinalWeight > 0 /\ s.valid /\ s.submitted /\ s.claims /\ s.truth

\* The requests in the order of the samples; the place of a sample in them is judge_lookup.
Payloads == FlattenSeq([i \in Samples |-> IF IsJudged(sample[i]) THEN <<i>> ELSE <<>>])

Lookup(i) == CHOOSE p \in DOMAIN Payloads : Payloads[p] = i

\* The steps of inference of a sample that name a premise that is known and a conclusion.
JudgedSteps(i) ==
  IF InferWeight > 0 /\ sample[i].valid
  THEN FlattenSeq([k \in DOMAIN sample[i].steps |->
                     IF sample[i].steps[k] THEN << <<i, k>> >> ELSE <<>>])
  ELSE <<>>

InferPayloads == FlattenSeq([i \in Samples |-> JudgedSteps(i)])

InferLookup(x) == CHOOSE p \in DOMAIN InferPayloads : InferPayloads[p] = x

Requests == IF phase = "final" THEN Payloads ELSE InferPayloads

-----------------------------------------------------------------------------
(* score_many(): the requests of a phase                                   *)

Waiting(n) == [p \in 1..n |-> "waiting"]

Nothing == [of |-> 0, score |-> 0]

Init ==
  /\ sample \in [Samples -> Kinds]
  /\ phase = "final"
  /\ call = Waiting(Len(Payloads)) /\ result = [p \in DOMAIN call |-> Nothing]
  /\ finals = <<>> /\ infers = <<>> /\ reward = <<>>

\* The semaphore is handed out in the order in which the tasks were made.
Begin(p) ==
  /\ call[p] = "waiting" /\ \A q \in 1..(p - 1) : call[q] # "waiting"
  /\ Cardinality({q \in DOMAIN call : call[q] = "open"}) < Concurrency
  /\ call' = [call EXCEPT ![p] = "open"]
  /\ UNCHANGED <<sample, phase, result, finals, infers, reward>>

\* The judge answers, or the call fails and scores -1.0.  "of" is what was judged.
End(p) ==
  /\ call[p] = "open"
  /\ call' = [call EXCEPT ![p] = "done"]
  /\ \E score \in (IF phase = "final" THEN FinalScores ELSE InferScores) :
       result' = [result EXCEPT ![p] = [of |-> Requests[p], score |-> score]]
  /\ UNCHANGED <<sample, phase, finals, infers, reward>>

AllDone == \A p \in DOMAIN call : call[p] = "done"

\* Mutation: the answers are collected as they come.
FinalsAsCompleted ==
  /\ phase = "final" /\ AllDone
  /\ \E f \in [DOMAIN result -> DOMAIN result] :
       /\ \A p, q \in DOMAIN result : f[p] = f[q] => p = q
       /\ finals' = [p \in DOMAIN result |-> result[f[p]]]
  /\ phase' = "infer"
  /\ call' = Waiting(Len(InferPayloads)) /\ result' = [p \in DOMAIN call' |-> Nothing]
  /\ UNCHANGED <<sample, infers, reward>>

\* gather() returns, and the steps of inference are sent off.
FinalsJudged ==
  /\ phase = "final" /\ AllDone
  /\ finals' = result /\ phase' = "infer"
  /\ call' = Waiting(Len(InferPayloads)) /\ result' = [p \in DOMAIN call' |-> Nothing]
  /\ UNCHANGED <<sample, infers, reward>>

-----------------------------------------------------------------------------
(* The rewards                                                             *)

FinalOf(i) == IF IsJudged(sample[i]) THEN finals[Lookup(i)] ELSE Nothing

\* A step is worth 1 or -1/2; the steps of a sample count by their mean.
InferReward(i, answers) ==
  LET steps == JudgedSteps(i)
      good  == {k \in DOMAIN steps : answers[InferLookup(steps[k])].score > 0}
      n     == Len(steps)
  IN IF n = 0 THEN 0 ELSE (100 * Cardinality(good) - 50 * (n - Cardinality(good))) \div n

ProcessReward(i) == IF sample[i].valid THEN sample[i].process ELSE 0

\* Mutation: an empty submission is one.
MissingUnlessSubmitted(s) == ~s.submitted

Missing(s) == ~s.submitted \/ ~s.claims

Clipped(x) == IF x < 100 * ClipMin THEN 100 * ClipMin
              ELSE IF x > 100 * ClipMax THEN 100 * ClipMax ELSE x

TotalReward(i, answers) ==
  Clipped(ProcessWeight * ProcessReward(i) + InferWeight * InferReward(i, answers)
          + FinalWeight * FinalOf(i).score
          + (IF Missing(sample[i]) THEN 100 * MissingSubmitPenalty ELSE 0))

InfersJudged ==
  /\ phase = "infer" /\ AllDone
  /\ infers' = result /\ phase' = "done"
  /\ reward' = [i \in Samples |-> TotalReward(i, result)]
  /\ UNCHANGED <<sample, call, result, finals>>

Next ==
  \/ \E p \in DOMAIN call : Begin(p) \/ End(p)
  \/ FinalsJudged \/ InfersJudged

Spec == Init /\ [][Next]_vars

-----------------------------------------------------------------------------
(* Properties                                                              *)

\* Whatever the order in which the judge answers and whatever samples were left out, a sample is
\* scored with the answer to its own claims and to its own steps, and with none otherwise.
OwnScore ==
  phase = "done" =>
    \A i \in Samples :
      /\ FinalOf(i).of = IF IsJudged(sample[i]) THEN i ELSE 0
      /\ \A k \in DOMAIN sample[i].steps :
           IF sample[i].valid /\ sample[i].steps[k]
           THEN \E p \in DOMAIN infers : infers[p].of = <<i, k>> /\ InferLookup(<<i, k>>) = p
           ELSE \A p \in DOMAIN infers : infers[p].of # <<i, k>>

\* With the weights of run_rl.sh no trajectory gains by not submitting a claim: its reward is not
\* above that of any that did, also when all its code ran and its steps were judged sound, and
\* when the other was judged wrong or the judge could not be reached.
MissingIsWorst ==
  phase = "done" =>
    LET Submitting == {i \in Samples : sample[i].submitted /\ sample[i].claims}
    IN \A i \in Samples \ Submitting, j \in Submitting : reward[i] <= reward[j]
=============================================================================
