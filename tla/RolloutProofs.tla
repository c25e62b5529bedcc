--------------------------- MODULE RolloutProofs ---------------------------
(* Theorems about Rollout for any batch, number of turns and batches. *)
EXTENDS Rollout, TLAPS

-----------------------------------------------------------------------------
(* The inductive invariant.                                                *)

\* What the code of the loop knows at each of its awaits: how many of the turns were executed,
\* that no verdict was passed yet, and that a new request has no sandbox.
AwaitInv(r) ==
  /\ pc[r] = "new" => turns[r] = 0 /\ calls[r] = 0 /\ runtime[r] = "none"
  /\ pc[r] = "engine" => turns[r] < MaxTurns /\ calls[r] = turns[r]
  /\ pc[r] = "tool" => calls[r] + 1 = turns[r]
  /\ pc[r] \in {"new", "engine", "tool", "raising"} => ~submitted[r] /\ reason[r] = "none"

\* The verdict once the loop was left.
VerdictInv(r) ==
  pc[r] \in {"closing", "returned"} =>
    /\ valid[r] <=> reason[r] = "submitted_answer"
    /\ valid[r] => submitted[r] /\ calls[r] = turns[r]
    /\ reason[r] = "max_turns" => calls[r] = turns[r] /\ turns[r] = MaxTurns
    /\ reason[r] # "none"
    /\ Trained(r) <=> ended[r] \in ModelEnds
    /\ ended[r] \in {"submission", "turns"} => calls[r] = turns[r]

ReturnedInv(r) ==
  /\ pc[r] = "returned" => runtime[r] # "open"
  /\ mode = "none" => pc[r] = "returned"

IInv == TypeOK /\ \A r \in Requests : AwaitInv(r) /\ VerdictInv(r) /\ ReturnedInv(r)

-----------------------------------------------------------------------------
\* The shared sampling parameters stay well typed through every nesting of the with blocks.
LEMMA SamplingType ==
  ASSUME TypeOK, NEW r \in Requests, EnterBlock(r) \/ LeaveBlock(r) \/ UNCHANGED sampling
  PROVE  params' \in [Keys -> Values] /\ saved' \in [Requests -> [Keys -> Values]]
  BY SMTT(30) DEF TypeOK, EnterBlock, LeaveBlock, sampling, Values, Keys

\* Every step of a request changes the sampling parameters in one of these ways.
LEMMA SamplingStep ==
  ASSUME NEW r \in Requests, Driven(r) \/ EngineReturns(r) \/ EngineRaises(r)
  PROVE  EnterBlock(r) \/ LeaveBlock(r) \/ UNCHANGED sampling
  BY DEF Driven, Begin, EngineReturns, EngineTimeout, EngineRaises, ToolReturns, Close, Fail,
         Head, sampling

\* The step of a request leaves the others and the batch as they are.
Same(q) ==
  /\ pc'[q] = pc[q] /\ turns'[q] = turns[q] /\ calls'[q] = calls[q]
  /\ submitted'[q] = submitted[q] /\ valid'[q] = valid[q] /\ reason'[q] = reason[q]
  /\ ended'[q] = ended[q] /\ runtime'[q] = runtime[q]

ReqType ==
  /\ mode \in {"none", "train", "validate", "failed"} /\ batches \in Nat
  /\ pc \in [Requests -> {"new", "engine", "tool", "closing", "raising", "returned"}]
  /\ turns \in [Requests -> 0..MaxTurns]
  /\ calls \in [Requests -> 0..MaxTurns]
  /\ submitted \in [Requests -> BOOLEAN]
  /\ valid \in [Requests -> BOOLEAN]
  /\ reason \in [Requests -> Reasons]
  /\ ended \in [Requests -> {"nothing"} \cup ModelEnds \cup OtherEnds]
  /\ runtime \in [Requests -> {"none", "open", "closed"}]

\* What the verdict of one request is made of is well typed, and that of the others stays.
VerdictFor(r) ==
  /\ pc' \in [Requests -> {"new", "engine", "tool", "closing", "raising", "returned"}]
  /\ valid' \in [Requests -> BOOLEAN] /\ reason' \in [Requests -> Reasons]
  /\ ended' \in [Requests -> {"nothing"} \cup ModelEnds \cup OtherEnds]
  /\ VerdictInv(r)'
  /\ \A q \in Requests \ {r} :
       pc'[q] = pc[q] /\ valid'[q] = valid[q] /\ reason'[q] = reason[q] /\ ended'[q] = ended[q]

\* Leaving the loop passes a verdict that fits what the request has done and what ended it.
LEMMA EndStep ==
  ASSUME TypeOK, NEW r \in Requests, NEW why \in Reasons \ {"max_turns"},
         NEW what \in ModelEnds \cup OtherEnds,
         NEW t \in Nat, NEW sub \in BOOLEAN, End(r, why, t, sub), EndedBy(r, what),
         turns'[r] = t, submitted'[r] <=> sub, t <= MaxTurns,
         why = "none" => t = MaxTurns /\ ~sub /\ calls'[r] = t,
         why = "submitted_answer" => sub /\ calls'[r] = t,
         why \in {"none", "submitted_answer"} \cup NegativeReasons <=> what \in ModelEnds,
         what \in {"submission", "turns"} => why \in {"none", "submitted_answer"}
  PROVE  VerdictFor(r) /\ pc'[r] = "closing"
  <1> USE BoundsAssumption DEF TypeOK, End, EndedBy
  <1>1. /\ pc' \in [Requests -> {"new", "engine", "tool", "closing", "raising", "returned"}]
        /\ valid' \in [Requests -> BOOLEAN] /\ pc'[r] = "closing"
    OBVIOUS
  <1>2. reason' \in [Requests -> Reasons]
    BY DEF Reasons, NegativeReasons
  <1>3. /\ ended' \in [Requests -> {"nothing"} \cup ModelEnds \cup OtherEnds]
        /\ ended'[r] = what
    OBVIOUS
  <1>4. \A q \in Requests \ {r} :
          pc'[q] = pc[q] /\ valid'[q] = valid[q] /\ reason'[q] = reason[q] /\ ended'[q] = ended[q]
    OBVIOUS
  <1>5. valid'[r] = (why \in {"none", "submitted_answer"} /\ ~(t >= MaxTurns /\ ~sub))
    OBVIOUS
  <1>6. reason'[r] = IF t >= MaxTurns /\ ~sub /\ why = "none" THEN "max_turns" ELSE why
    OBVIOUS
  <1>7. Trained(r)' <=> why \in {"none", "submitted_answer"} \cup NegativeReasons
    <2>1. CASE why = "none"
      BY <1>6, <2>1 DEF Trained, NegativeReasons
    <2>2. CASE why = "submitted_answer"
      BY <1>5, <2>2 DEF Trained
    <2>3. CASE why \notin {"none", "submitted_answer"}
      BY <1>5, <1>6, <2>3 DEF Trained
    <2> QED
      BY <2>1, <2>2, <2>3
  <1>8. VerdictInv(r)'
    BY <1>3, <1>5, <1>6, <1>7 DEF VerdictInv
  <1> QED
    BY <1>1, <1>2, <1>3, <1>4, <1>8 DEF VerdictFor

\* The head of the loop either leaves it or goes on to the engine.
LEMMA HeadStep ==
  ASSUME TypeOK, NEW r \in Requests, Head(r), reason[r] = "none",
         turns' = turns, calls'[r] = turns[r], submitted'[r] = FALSE
  PROVE  /\ VerdictFor(r)
         /\ pc'[r] = "closing" \/ (pc'[r] = "engine" /\ turns[r] < MaxTurns /\ reason'[r] = "none")
  <1> turns[r] \in 0..MaxTurns /\ turns'[r] = turns[r]
    BY DEF TypeOK
  <1> USE BoundsAssumption
  <1>1. CASE turns[r] >= MaxTurns /\ End(r, "none", turns[r], FALSE) /\ EndedBy(r, "turns")
    <2> PICK sub \in BOOLEAN : ~sub /\ End(r, "none", turns[r], sub)
      BY <1>1
    <2> QED
      BY <1>1, EndStep DEF Reasons, NegativeReasons, ModelEnds, OtherEnds
  <1>2. ASSUME turns[r] < MaxTurns, NEW why \in {"trajectory_timeout", "max_model_len"},
               NEW what \in {"clock", "context"}, End(r, why, turns[r], FALSE), EndedBy(r, what)
        PROVE  VerdictFor(r) /\ pc'[r] = "closing"
    <2> PICK sub \in BOOLEAN : ~sub /\ End(r, why, turns[r], sub)
      BY <1>2
    <2> QED
      BY <1>2, EndStep DEF Reasons, NegativeReasons, OtherReasons, ModelEnds, OtherEnds
  <1>3. CASE /\ turns[r] < MaxTurns
             /\ pc' = [pc EXCEPT ![r] = "engine"] /\ UNCHANGED <<reason, valid, ended>>
    BY <1>3 DEF TypeOK, VerdictInv, VerdictFor
  <1> QED
    BY <1>1, <1>2, <1>3 DEF Head

\* A step of one request preserves the invariant of that request and the types.
LEMMA RequestStep ==
  ASSUME IInv, NEW r \in Requests, Driven(r) \/ EngineReturns(r) \/ EngineRaises(r)
  PROVE  /\ ReqType'
         /\ AwaitInv(r)' /\ VerdictInv(r)' /\ (pc'[r] = "returned" => runtime'[r] # "open")
         /\ mode' # "none"
         /\ \A q \in Requests \ {r} : Same(q)
  <1> USE BoundsAssumption DEF IInv, TypeOK, ReqType, AwaitInv, ReturnedInv, Same, Active, trajectory
  <1> DEFINE Goal == /\ ReqType'
                     /\ AwaitInv(r)' /\ VerdictInv(r)'
                     /\ pc'[r] = "returned" => runtime'[r] # "open"
                     /\ mode' # "none"
                     /\ \A q \in Requests \ {r} : Same(q)
  <1>1. CASE Begin(r)
    <2>1. CASE runtime' = [runtime EXCEPT ![r] = "open"] /\ Head(r)
      <3>1. turns' = turns /\ calls' = calls /\ submitted' = submitted
            /\ runtime'[r] = "open" /\ runtime' \in [Requests -> {"none", "open", "closed"}]
            /\ UNCHANGED <<mode, batches>> /\ \A q \in Requests \ {r} : runtime'[q] = runtime[q]
        BY <1>1, <2>1 DEF Begin
      <3>2. pc[r] = "new" /\ Head(r) /\ Active
        BY <1>1, <2>1 DEF Begin
      <3>3. reason[r] = "none" /\ calls'[r] = turns[r] /\ submitted'[r] = FALSE
        BY <3>1, <3>2
      <3> QED
        BY <3>1, <3>2, <3>3, HeadStep DEF VerdictFor
    <2>2. CASE /\ reason' = [reason EXCEPT ![r] = "runtime_init_failed"] /\ EndedBy(r, "sandbox")
               /\ valid' = [valid EXCEPT ![r] = FALSE]
               /\ pc' = [pc EXCEPT ![r] = "returned"]
               /\ UNCHANGED runtime
      <3>1. /\ pc'[r] = "returned" /\ ~valid'[r] /\ reason'[r] = "runtime_init_failed"
            /\ ended'[r] = "sandbox" /\ runtime'[r] # "open" /\ mode' # "none"
        BY <1>1, <2>2 DEF Begin, EndedBy
      <3>2. ReqType' /\ \A q \in Requests \ {r} : Same(q)
        BY <1>1, <2>2 DEF Begin, EndedBy, Reasons, OtherReasons, OtherEnds
      <3> QED
        BY <3>1, <3>2 DEF VerdictInv, Trained, NegativeReasons, ModelEnds
    <2> QED
      BY <1>1, <2>1, <2>2 DEF Begin
  <1>2. CASE EngineReturns(r)
    <2>1. turns' \in [Requests -> 0..MaxTurns] /\ turns'[r] = turns[r] + 1
      BY <1>2 DEF EngineReturns
    <2>2. ASSUME NEW why \in {"generation_length", "missing_submit", "trajectory_timeout"},
                 NEW what \in {"tokens", "full", "plain", "clock"},
                 what = "clock" <=> why = "trajectory_timeout",
                 End(r, why, turns[r] + 1, FALSE), EndedBy(r, what)
          PROVE  Goal
      <3> PICK sub \in BOOLEAN : ~sub /\ End(r, why, turns[r] + 1, sub)
        BY <2>2
      <3> PICK t \in 0..MaxTurns : t = turns[r] + 1 /\ End(r, why, t, sub)
        BY <2>1
      <3>1. VerdictFor(r) /\ pc'[r] = "closing"
        BY <1>2, <2>1, <2>2, EndStep
           DEF EngineReturns, Reasons, NegativeReasons, OtherReasons, ModelEnds, OtherEnds
      <3> QED
        BY <1>2, <2>1, <3>1 DEF EngineReturns, VerdictFor
    <2>3. CASE pc' = [pc EXCEPT ![r] = "tool"] /\ UNCHANGED <<reason, valid, ended>>
      BY <1>2, <2>1, <2>3 DEF EngineReturns, VerdictInv
    <2> QED
      BY <1>2, <2>2, <2>3 DEF EngineReturns, Cut, Plain
  <1>3. CASE EngineTimeout(r)
    <2> PICK sub \in BOOLEAN : ~sub /\ End(r, "generation_timeout", turns[r], sub)
      BY <1>3 DEF EngineTimeout
    <2>1. VerdictFor(r) /\ pc'[r] = "closing"
      BY <1>3, EndStep
         DEF EngineTimeout, Reasons, NegativeReasons, OtherReasons, ModelEnds, OtherEnds
    <2> QED
      BY <1>3, <2>1 DEF EngineTimeout, VerdictFor
  <1>4. CASE EngineRaises(r)
    BY <1>4 DEF EngineRaises, VerdictInv
  <1>5. CASE ToolReturns(r)
    <2> PICK sub \in BOOLEAN :
          /\ submitted' = [submitted EXCEPT ![r] = sub]
          /\ \/ End(r, "max_model_len", turns[r], sub) /\ EndedBy(r, "context")
             \/ sub /\ End(r, "submitted_answer", turns[r], sub) /\ EndedBy(r, "submission")
             \/ ~sub /\ Head(r)
      BY <1>5 DEF ToolReturns
    <2>1. /\ calls' \in [Requests -> 0..MaxTurns] /\ calls'[r] = turns[r]
          /\ submitted' \in [Requests -> BOOLEAN] /\ submitted'[r] = sub
          /\ turns' = turns /\ UNCHANGED <<mode, batches, runtime>>
          /\ \A q \in Requests \ {r} : calls'[q] = calls[q] /\ submitted'[q] = submitted[q]
      BY <1>5 DEF ToolReturns
    <2>2. ASSUME NEW why \in {"max_model_len", "submitted_answer"},
                 NEW what \in {"context", "submission"},
                 what = "submission" <=> why = "submitted_answer",
                 End(r, why, turns[r], sub), EndedBy(r, what), why = "submitted_answer" => sub
          PROVE  Goal
      <3>1. VerdictFor(r) /\ pc'[r] = "closing"
        BY <1>5, <2>1, <2>2, EndStep
           DEF ToolReturns, Reasons, NegativeReasons, OtherReasons, ModelEnds, OtherEnds
      <3> QED
        BY <1>5, <2>1, <3>1 DEF ToolReturns, VerdictFor
    <2>3. CASE ~sub /\ Head(r)
      <3>1. pc[r] = "tool" /\ Active /\ reason[r] = "none" /\ submitted'[r] = FALSE
        BY <1>5, <2>1, <2>3 DEF ToolReturns
      <3>2. turns' = turns /\ calls'[r] = turns[r]
        BY <2>1, <3>1
      <3>3. /\ VerdictFor(r)
            /\ \/ pc'[r] = "closing"
               \/ pc'[r] = "engine" /\ turns[r] < MaxTurns /\ reason'[r] = "none"
        BY <2>3, <3>1, <3>2, HeadStep
      <3> QED
        BY <2>1, <3>1, <3>2, <3>3 DEF VerdictFor
    <2> QED
      BY <2>2, <2>3
  <1>6. CASE Close(r)
    BY <1>6 DEF Close, VerdictInv, Trained
  <1>7. CASE Fail(r)
    BY <1>7 DEF Fail, VerdictInv
  <1> QED
    BY <1>1, <1>2, <1>3, <1>4, <1>5, <1>6, <1>7 DEF Driven

-----------------------------------------------------------------------------
(* The invariant is inductive                                              *)

LEMMA InitInv == Init => IInv
  BY BoundsAssumption
     DEF Init, IInv, TypeOK, AwaitInv, VerdictInv, ReturnedInv, Reasons, OtherReasons,
         NegativeReasons, ModelEnds, OtherEnds, Trained, Original, Values

LEMMA StepInv == IInv /\ [Next]_vars => IInv'
  <1>1. ASSUME IInv, NEW r \in Requests, Driven(r) \/ EngineReturns(r) \/ EngineRaises(r)
        PROVE  IInv'
    <2>1. TypeOK'
      BY <1>1, RequestStep, SamplingStep, SamplingType DEF IInv, TypeOK, ReqType
    <2>2. ASSUME NEW q \in Requests PROVE AwaitInv(q)' /\ VerdictInv(q)' /\ ReturnedInv(q)'
      <3>1. CASE q = r
        BY <1>1, <3>1, RequestStep DEF ReturnedInv
      <3>2. CASE q # r
        BY <1>1, <3>2, RequestStep
           DEF IInv, AwaitInv, VerdictInv, Trained, ReturnedInv, Same
      <3> QED
        BY <3>1, <3>2
    <2> QED
      BY <2>1, <2>2 DEF IInv
  <1>2. ASSUME IInv, NEW m \in {"train", "validate"}, Generate(m) PROVE IInv'
    BY <1>2, BoundsAssumption
       DEF Generate, sampling, IInv, TypeOK, AwaitInv, VerdictInv, ReturnedInv, Reasons
  <1>3. ASSUME IInv, Collect PROVE IInv'
    BY <1>3
       DEF Collect, trajectory, sampling, IInv, TypeOK, AwaitInv, VerdictInv, Trained, ReturnedInv
  <1>4. ASSUME IInv, UNCHANGED vars PROVE IInv'
    BY <1>4
       DEF vars, trajectory, sampling, IInv, TypeOK, AwaitInv, VerdictInv, Trained, ReturnedInv
  <1> QED
    BY <1>1, <1>2, <1>3, <1>4 DEF Next

LEMMA Inductive == Spec => []IInv
  BY InitInv, StepInv, PTL DEF Spec

-----------------------------------------------------------------------------
(* Theorems                                                                *)

\* Every variable keeps its type: no request generates or executes more than MaxTurns turns.
THEOREM TypeCorrect == Spec => []TypeOK
  BY Inductive, PTL DEF IInv

\* Only a submission that was executed and fitted makes a trajectory valid.
THEOREM ValidIsSubmitted == Spec => []ValidMeansSubmitted
  <1>1. IInv => ValidMeansSubmitted
    BY DEF IInv, VerdictInv, ValidMeansSubmitted
  <1> QED
    BY <1>1, Inductive, PTL

\* The trainer learns from a trajectory if and only if the model brought about its end, and unless
\* that is its last text every block it wrote was executed.
THEOREM TrainingFitsTheEnd == Spec => []TrainedByItsEnd
  <1>1. IInv => TrainedByItsEnd
    BY DEF IInv, VerdictInv, TrainedByItsEnd, ModelEnds
  <1> QED
    BY <1>1, Inductive, PTL

\* The code of the last turn is executed before the turns count as used up.
THEOREM LastBlockIsRun == Spec => []LastBlockRuns
  <1>1. IInv => LastBlockRuns
    BY DEF IInv, TypeOK, AwaitInv, VerdictInv, LastBlockRuns
  <1> QED
    BY <1>1, Inductive, PTL

\* Every sandbox of a batch is closed when the batch is collected.
THEOREM RuntimesAreClosed == Spec => []RuntimesClosed
  <1>1. IInv => RuntimesClosed
    BY DEF IInv, ReturnedInv, RuntimesClosed
  <1> QED
    BY <1>1, Inductive, PTL
=============================================================================
