-------------------------- MODULE AgentLoopProofs --------------------------
(* Theorems about AgentLoop and the graph it works on, for any number of    *)
(* turns and claims.                                                        *)
EXTENDS AgentLoop, TLAPS

-----------------------------------------------------------------------------
(* The claim graph                                                         *)

\* Edges, final claims and blank claims are claims of the graph, and nothing is final before a
\* submission.
GraphInv(g) ==
  /\ Ids(g) \subseteq Claims
  /\ g.final \subseteq Ids(g) /\ g.blank \subseteq Ids(g)
  /\ \A c \in Ids(g) : g.premises[c] \subseteq Ids(g)
  /\ ~g.finished => g.final = {}

\* The graph h is what code may have made of g.
Grown(g, h) ==
  /\ Ids(g) \subseteq Ids(h)
  /\ \A c \in Ids(g) : h.premises[c] = g.premises[c] /\ (c \in h.blank <=> c \in g.blank)
  /\ g.finished => h.finished /\ h.final = g.final

LEMMA GrownTransitive ==
  ASSUME NEW g, NEW h, NEW k, Grown(g, h), Grown(h, k)
  PROVE  Grown(g, k)
  BY DEF Grown

LEMMA EmptyIsGraph == EmptyGraph \in Graphs /\ GraphInv(EmptyGraph) /\ ~EmptyGraph.finished
  BY DEF EmptyGraph, Graphs, GraphInv, Ids

\* A new claim leaves the old ones as they are.
LEMMA RegisterGrows ==
  ASSUME NEW g \in Graphs, GraphInv(g), NEW p \in SUBSET Ids(g),
         Len(g.premises) + 1 <= MaxClaims
  PROVE  /\ Register(g, p) \in Graphs /\ GraphInv(Register(g, p)) /\ Grown(g, Register(g, p))
         /\ Ids(Register(g, p)) = Ids(g) \cup {NewId(g)}
         /\ Register(g, p).blank = g.blank /\ Register(g, p).final = g.final
         /\ Register(g, p).finished = g.finished
         /\ Register(g, p).premises = Append(g.premises, p)
  <1> DEFINE h == Register(g, p)
  <1> USE ClaimsAssumption
  <1>1. g.premises \in Seq(SUBSET Claims) /\ Len(g.premises) \in Nat
    BY DEF Graphs
  <1>2. p \in SUBSET Claims
    BY DEF GraphInv
  <1>3. /\ h.premises = Append(g.premises, p) /\ h.blank = g.blank /\ h.final = g.final
        /\ h.finished = g.finished
    BY DEF Register, Graphs
  <1>4. h \in Graphs
    <2>1. Append(g.premises, p) \in Seq(SUBSET Claims)
      BY <1>1, <1>2
    <2> QED
      BY <2>1 DEF Register, Graphs
  <1>5. Ids(h) = Ids(g) \cup {NewId(g)} /\ NewId(g) \notin Ids(g) /\ NewId(g) \in Claims
    BY <1>1, <1>2, <1>3 DEF Ids, NewId, Claims
  <1>6. \A c \in Ids(g) : h.premises[c] = g.premises[c]
    BY <1>1, <1>2, <1>3 DEF Ids
  <1>7. h.premises[NewId(g)] = p
    BY <1>1, <1>2, <1>3 DEF NewId
  <1>8. GraphInv(h)
    BY <1>3, <1>5, <1>6, <1>7 DEF GraphInv
  <1>9. Grown(g, h)
    BY <1>3, <1>5, <1>6 DEF Grown
  <1> QED
    BY <1>3, <1>4, <1>5, <1>8, <1>9

\* Whatever one call of bind(), infer() or submit_answer() does, the graph is one that has grown.
LEMMA ApiCallGrows ==
  ASSUME NEW g \in Graphs, GraphInv(g), NEW h \in AfterApiCall(g), Len(h.premises) <= MaxClaims
  PROVE  h \in Graphs /\ GraphInv(h) /\ Grown(g, h)
  <1>1. CASE h \in Bound(g)
    <2> DEFINE r == Register(g, {})
    <2>1. PICK b \in {g.blank, g.blank \cup {NewId(g)}} : h = [r EXCEPT !.blank = b]
      BY <1>1 DEF Bound
    <2>2. h.premises = r.premises
      BY <2>1 DEF Register, Graphs
    <2>3. Len(g.premises) + 1 <= MaxClaims
      BY <2>2 DEF Register, Graphs
    <2>4. /\ r \in Graphs /\ GraphInv(r) /\ Grown(g, r) /\ Ids(r) = Ids(g) \cup {NewId(g)}
          /\ r.blank = g.blank /\ r.final = g.final /\ r.finished = g.finished
      BY <2>3, RegisterGrows
    <2>5. /\ h.premises = r.premises /\ h.final = r.final /\ h.finished = r.finished
          /\ h.blank = b /\ Ids(h) = Ids(r)
      BY <2>1, <2>4 DEF Graphs, Ids
    <2>6. b \subseteq Ids(r) /\ b \in SUBSET Claims
      BY <2>4 DEF GraphInv
    <2>7. h \in Graphs
      BY <2>1, <2>4, <2>6 DEF Graphs
    <2>8. GraphInv(h)
      BY <2>4, <2>5, <2>6 DEF GraphInv
    <2>9. NewId(g) \notin Ids(g)
      BY DEF NewId, Ids, Graphs
    <2>10. Grown(g, h)
      BY <2>4, <2>5, <2>9 DEF Grown
    <2> QED
      BY <2>7, <2>8, <2>10
  <1>2. CASE h \in Inferred(g)
    <2>1. PICK p \in SUBSET Ids(g) : h = Register(g, p)
      BY <1>2 DEF Inferred
    <2>2. Len(g.premises) + 1 <= MaxClaims
      BY <2>1 DEF Register, Graphs
    <2> QED
      BY <2>1, <2>2, RegisterGrows
  <1>3. CASE h \in Submitted(g)
    <2>1. CASE h = g
      BY <2>1 DEF Grown
    <2>2. CASE h # g
      <3>1. ~g.finished
        BY <1>3, <2>2 DEF Submitted
      <3>2. PICK claims \in SUBSET Ids(g) : h = [g EXCEPT !.final = claims, !.finished = TRUE]
        BY <1>3, <3>1 DEF Submitted
      <3>3. /\ h.premises = g.premises /\ h.final = claims /\ h.finished = TRUE
            /\ h.blank = g.blank /\ Ids(h) = Ids(g)
        BY <3>2 DEF Graphs, Ids
      <3>4. claims \in SUBSET Claims
        BY DEF GraphInv
      <3>5. h \in Graphs
        BY <3>2, <3>4 DEF Graphs
      <3>6. GraphInv(h) /\ Grown(g, h)
        BY <3>1, <3>3 DEF GraphInv, Grown
      <3> QED
        BY <3>5, <3>6
    <2> QED
      BY <2>1, <2>2
  <1> QED
    BY <1>1, <1>2, <1>3 DEF AfterApiCall

\* The support of a set of claims does not change when claims are added.
LEMMA SupportStays ==
  ASSUME NEW g, NEW h, GraphInv(g), GraphInv(h), Grown(g, h), NEW claims \in SUBSET Ids(g)
  PROVE  Support(h, claims) = Support(g, claims)
  <1>1. ASSUME NEW c \in Support(g, claims) PROVE c \in Support(h, claims)
    <2>1. ASSUME NEW s \in SUBSET Claims, claims \subseteq s, Closed(h, s) PROVE c \in s
      <3>1. Closed(g, s)
        BY <2>1 DEF Closed, Grown
      <3> QED
        BY <1>1, <2>1, <3>1 DEF Support
    <2> QED
      BY <1>1, <2>1 DEF Support
  <1>2. ASSUME NEW c \in Support(h, claims) PROVE c \in Support(g, claims)
    <2>1. ASSUME NEW s \in SUBSET Claims, claims \subseteq s, Closed(g, s) PROVE c \in s
      <3>1. Closed(h, s \cap Ids(g))
        BY <2>1 DEF Closed, Grown, GraphInv
      <3>2. claims \subseteq s \cap Ids(g) /\ s \cap Ids(g) \in SUBSET Claims
        BY <2>1
      <3> QED
        BY <1>2, <3>1, <3>2 DEF Support
    <2> QED
      BY <1>2, <2>1 DEF Support
  <1> QED
    BY <1>1, <1>2

\* All of it is made of claims of the graph.
LEMMA SupportInGraph ==
  ASSUME NEW g, GraphInv(g), NEW claims \in SUBSET Ids(g)
  PROVE  Support(g, claims) \subseteq Ids(g)
  <1>1. Closed(g, Ids(g)) /\ Ids(g) \in SUBSET Claims
    BY DEF Closed, GraphInv
  <1> QED
    BY <1>1 DEF Support

LEMMA EvidenceStays ==
  ASSUME NEW g, NEW h, GraphInv(g), GraphInv(h), Grown(g, h), g.finished
  PROVE  h.finished /\ Evidence(h) = Evidence(g)
  <1>1. h.finished /\ h.final = g.final /\ g.final \in SUBSET Ids(g)
    BY DEF Grown, GraphInv
  <1>2. Support(h, h.final) = Support(g, g.final) /\ Support(g, g.final) \subseteq Ids(g)
    BY <1>1, SupportStays, SupportInGraph
  <1>3. \A c \in Support(g, g.final) :
          <<h.premises[c], c \in h.blank, c \in h.final>>
            = <<g.premises[c], c \in g.blank, c \in g.final>>
    BY <1>1, <1>2 DEF Grown
  <1> QED
    BY <1>1, <1>2, <1>3 DEF Evidence

-----------------------------------------------------------------------------
(* The inductive invariant.                                                *)

\* The snapshot is an earlier state of the graph.
GraphsInv == GraphInv(graph) /\ GraphInv(shown) /\ Grown(shown, graph)

\* While blocks can be executed the snapshot is behind the graph only inside a block, so that a
\* submission is noticed before the next model call.
LoopInv ==
  /\ pending <=> pc = "block"
  /\ pc = "call" => blocks < turn
  /\ pc \in {"ask", "call", "observe"} /\ accepting /\ running => shown = graph
  /\ pc \in {"ask", "call"} /\ accepting /\ running => ~graph.finished
  /\ ~verigraph => graph = EmptyGraph
  /\ pc = "done" /\ verigraph => prediction.claims = FinalClaims

IInv == TypeOK /\ GraphsInv /\ LoopInv

LEMMA InitInv == Init => IInv
  <1> SUFFICES ASSUME Init PROVE IInv
    OBVIOUS
  <1>1. TypeOK
    <2>1. genReport \in BOOLEAN
      BY Zenon DEF Init
    <2>2. prediction \in [by : {"nobody", "response", "claims", "report"}, claims : SUBSET Claims]
      BY DEF Init, NoPrediction
    <2>3. blocks \in 0..turn /\ turn \in 0..MaxTurn
      BY TurnsAssumption DEF Init
    <2> QED
      BY <2>1, <2>2, <2>3, EmptyIsGraph DEF Init, SB!Init, TypeOK
  <1>2. GraphsInv
    BY EmptyIsGraph DEF Init, SB!Init, GraphsInv, Grown
  <1>3. LoopInv
    BY EmptyIsGraph DEF Init, SB!Init, LoopInv
  <1> QED
    BY <1>1, <1>2, <1>3 DEF IInv

\* What the prediction is made of are claims.
LEMMA FinalClaimsType == ASSUME TypeOK PROVE FinalClaims \in SUBSET Claims
  BY DEF TypeOK, FinalClaims, Graphs

\* The steps between two blocks leave the sandbox alone.
LEMMA AgentStepInv ==
  ASSUME IInv, UNCHANGED executor,
         \/ AskCode \/ AskPlain \/ AskRaises \/ TurnsUsedUp \/ CallRefused
         \/ Observe \/ Finalize \/ Report
  PROVE  IInv'
  <1> USE TurnsAssumption DEF settings, output, executor, NoPrediction
  <1>1. GraphsInv'
    BY DEF IInv, GraphsInv, GraphInv, Grown, Ids
  <1>2. CASE AskCode
    BY <1>1, <1>2 DEF IInv, AskCode, TypeOK, LoopInv
  <1>3. CASE AskPlain
    BY <1>1, <1>3 DEF IInv, AskPlain, TypeOK, LoopInv
  <1>4. CASE AskRaises
    BY <1>1, <1>4 DEF IInv, AskRaises, TypeOK, LoopInv
  <1>5. CASE TurnsUsedUp
    BY <1>1, <1>5 DEF IInv, TurnsUsedUp, TypeOK, LoopInv
  <1>6. CASE CallRefused
    BY <1>1, <1>6 DEF IInv, CallRefused, TypeOK, LoopInv
  <1>7. CASE Observe
    BY <1>1, <1>7, EmptyIsGraph DEF IInv, Observe, ShouldStopAfterCode, TypeOK, LoopInv
  <1>8. CASE Finalize
    BY <1>1, <1>8, FinalClaimsType DEF IInv, Finalize, FinalClaims, TypeOK, LoopInv
  <1>9. CASE Report
    BY <1>1, <1>9, FinalClaimsType DEF IInv, Report, FinalClaims, TypeOK, LoopInv
  <1> QED
    BY <1>2, <1>3, <1>4, <1>5, <1>6, <1>7, <1>8, <1>9

\* What the sandbox does while the agent waits for it, and at any other time.
LEMMA SandboxStepInv ==
  ASSUME IInv, StartBlock \/ CodeRuns \/ BlockAnswered \/ BlockLost \/ SandboxBreaks
  PROVE  IInv'
  <1> USE DEF settings, output
  <1>1. CASE StartBlock \/ BlockLost \/ SandboxBreaks
    <2>1. UNCHANGED <<graph, shown>>
      BY <1>1 DEF StartBlock, BlockLost, SandboxBreaks, SB!Begin, SB!Lose, SB!Break
    <2>2. GraphsInv'
      BY <2>1 DEF IInv, GraphsInv, GraphInv, Grown, Ids
    <2>3. CASE StartBlock
      <3>1. TypeOK'
        BY <2>1, <2>3, TurnsAssumption DEF IInv, StartBlock, SB!Begin, TypeOK, LoopInv
      <3>2. LoopInv'
        BY <2>1, <2>3 DEF IInv, StartBlock, SB!Begin, LoopInv
      <3> QED
        BY <2>2, <3>1, <3>2 DEF IInv
    <2>4. CASE BlockLost
      <3>1. TypeOK'
        BY <2>1, <2>4 DEF IInv, BlockLost, SB!Lose, TypeOK
      <3>2. LoopInv'
        BY <2>1, <2>4 DEF IInv, BlockLost, SB!Lose, LoopInv
      <3> QED
        BY <2>2, <3>1, <3>2 DEF IInv
    <2>5. CASE SandboxBreaks
      <3> DEFINE Less(x, y) == y \in BOOLEAN /\ (y => x)
      <3>1. ASSUME NEW x \in BOOLEAN, NEW y \in {x, FALSE} PROVE Less(x, y)
        <4>1. CASE y = x
          BY <4>1, Zenon
        <4>2. CASE y = FALSE
          BY <4>2, Zenon
        <4> QED
          BY <3>1, <4>1, <4>2
      <3>2. Less(accepting, accepting') /\ Less(running, running')
        <4>1. accepting \in BOOLEAN /\ accepting' \in {accepting, FALSE}
          BY <2>5, Zenon DEF SandboxBreaks, SB!Break, IInv, TypeOK
        <4>2. running \in BOOLEAN /\ running' \in {running, FALSE}
          BY <2>5, Zenon DEF SandboxBreaks, SB!Break, IInv, TypeOK
        <4> HIDE DEF Less
        <4> QED
          BY <3>1, <4>1, <4>2
      <3>3. UNCHANGED <<verigraph, genReport, pc, turn, prediction, termination, blocks, pending>>
        BY <2>5 DEF SandboxBreaks, SB!Break
      <3>4. LoopInv'
        BY <2>1, <3>2, <3>3 DEF IInv, LoopInv, FinalClaims
      <3>5. TypeOK'
        BY <2>1, <3>2, <3>3 DEF IInv, TypeOK
      <3> QED
        BY <2>2, <3>4, <3>5 DEF IInv
    <2> QED
      BY <1>1, <2>3, <2>4, <2>5
  <1>2. CASE CodeRuns
    <2>1. graph' \in Graphs /\ GraphInv(graph') /\ Grown(graph, graph')
      BY <1>2, ApiCallGrows DEF CodeRuns, SB!Work, IInv, TypeOK, GraphsInv
    <2>2. GraphsInv'
      <3>1. Grown(shown, graph')
        BY <2>1, GrownTransitive DEF IInv, GraphsInv
      <3>2. shown' = shown
        BY <1>2 DEF CodeRuns, SB!Work
      <3> QED
        BY <2>1, <3>1, <3>2 DEF IInv, GraphsInv, GraphInv, Grown, Ids
    <2>3. TypeOK'
      BY <1>2, <2>1 DEF IInv, CodeRuns, SB!Work, TypeOK
    <2>4. LoopInv'
      BY <1>2 DEF IInv, CodeRuns, SB!Work, LoopInv, FinalClaims
    <2> QED
      BY <2>2, <2>3, <2>4 DEF IInv
  <1>3. CASE BlockAnswered
    <2>1. graph' = graph /\ shown' = graph
      BY <1>3 DEF BlockAnswered, SB!Answer
    <2>2. GraphsInv'
      BY <2>1 DEF IInv, GraphsInv, GraphInv, Grown, Ids
    <2>3. TypeOK'
      BY <1>3, <2>1 DEF IInv, BlockAnswered, SB!Answer, TypeOK
    <2>4. LoopInv'
      BY <1>3, <2>1 DEF IInv, BlockAnswered, SB!Answer, LoopInv
    <2> QED
      BY <2>2, <2>3, <2>4 DEF IInv
  <1> QED
    BY <1>1, <1>2, <1>3

LEMMA StepInv == IInv /\ [Next]_vars => IInv'
  <1> SUFFICES ASSUME IInv, [Next]_vars PROVE IInv'
    OBVIOUS
  <1>1. CASE \/ AskCode \/ AskPlain \/ AskRaises \/ TurnsUsedUp \/ CallRefused
             \/ Observe \/ Finalize \/ Report
    <2>1. UNCHANGED executor
      BY <1>1 DEF AskCode, AskPlain, AskRaises, TurnsUsedUp, CallRefused, Observe, Finalize, Report
    <2> QED
      BY <1>1, <2>1, AgentStepInv
  <1>2. CASE StartBlock \/ CodeRuns \/ BlockAnswered \/ BlockLost \/ SandboxBreaks
    BY <1>2, SandboxStepInv
  <1>3. CASE Finished \/ UNCHANGED vars
    <2>1. UNCHANGED vars
      BY <1>3 DEF Finished
    <2> QED
      BY <2>1 DEF IInv, TypeOK, GraphsInv, GraphInv, Grown, Ids, LoopInv, FinalClaims, vars,
                  settings, output, executor
  <1> QED
    BY <1>1, <1>2, <1>3 DEF Next

LEMMA Inductive == Spec => []IInv
  BY InitInv, StepInv, PTL DEF Spec

-----------------------------------------------------------------------------
(* Theorems                                                                *)

\* Every variable keeps its type for every number of turns and claims.
THEOREM TypeCorrect == Spec => []TypeOK
  <1>1. IInv => TypeOK
    BY DEF IInv
  <1> QED
    BY <1>1, Inductive, PTL

\* The claims of a prediction are those of the submitted answer in the sandbox.
THEOREM PredictionIsSubmitted == Spec => []AnswerFromSandbox
  <1>1. ASSUME IInv, pc = "done", verigraph, prediction.claims # {}
        PROVE  graph.finished /\ prediction.claims = graph.final \ graph.blank
    <2>1. prediction.claims = shown.final \ shown.blank /\ shown.final # {}
      BY <1>1 DEF IInv, LoopInv, FinalClaims
    <2>2. shown.finished /\ shown.final \subseteq Ids(shown)
      BY <1>1, <2>1 DEF IInv, GraphsInv, GraphInv
    <2>3. /\ graph.finished /\ graph.final = shown.final
          /\ \A c \in Ids(shown) : c \in graph.blank <=> c \in shown.blank
      BY <1>1, <2>2 DEF IInv, GraphsInv, Grown
    <2> QED
      BY <2>1, <2>2, <2>3
  <1>2. IInv => AnswerFromSandbox
    BY <1>1 DEF AnswerFromSandbox
  <1> QED
    BY <1>2, Inductive, PTL

\* After a submission no worker is given a block, also when the block that submitted was lost:
\* of the sandbox this needs only that it accepts no further call, or runs nothing any more, once
\* a call came back without an answer.
THEOREM SubmissionStops == Spec => StopsAfterSubmission
  <1>1. ASSUME IInv, [Next]_vars, blocks' # blocks PROVE ~graph.finished
    <2>1. StartBlock /\ running
      BY <1>1 DEF Next, AskCode, AskPlain, AskRaises, TurnsUsedUp, StartBlock, CallRefused,
                  CodeRuns, BlockAnswered, BlockLost, SandboxBreaks, Observe, Finalize, Report,
                  Finished, vars
    <2> QED
      BY <1>1, <2>1 DEF StartBlock, SB!Begin, IInv, LoopInv
  <1>2. IInv /\ [Next]_vars => [blocks' # blocks => ~graph.finished]_vars
    BY <1>1
  <1> QED
    BY <1>2, Inductive, PTL DEF Spec, StopsAfterSubmission

\* The submitted answer and the evidence it stands on never change.
THEOREM EvidenceIsFrozen == Spec => EvidenceFrozen
  <1>1. ASSUME IInv, [Next]_vars, graph.finished
        PROVE  graph'.finished /\ Evidence(graph') = Evidence(graph)
    <2>1. CASE graph' = graph
      BY <1>1, <2>1
    <2>2. CASE CodeRuns
      <3>1. GraphInv(graph) /\ GraphInv(graph') /\ Grown(graph, graph')
        BY <1>1, <2>2, ApiCallGrows DEF CodeRuns, SB!Work, IInv, TypeOK, GraphsInv
      <3> QED
        BY <1>1, <3>1, EvidenceStays
    <2> QED
      BY <1>1, <2>1, <2>2 DEF Next, AskCode, AskPlain, AskRaises, TurnsUsedUp, StartBlock,
                              CallRefused, BlockAnswered, BlockLost, SandboxBreaks, SB!Begin,
                              SB!Answer, SB!Lose, SB!Break, Observe, Finalize, Report, Finished,
                              vars, executor
  <1>2. IInv /\ [Next]_vars =>
          [graph.finished => graph'.finished /\ Evidence(graph') = Evidence(graph)]_vars
    BY <1>1
  <1> QED
    BY <1>2, Inductive, PTL DEF Spec, EvidenceFrozen
=============================================================================
