------------------------- MODULE RewardBatchProofs -------------------------
(* What a sample of RewardBatch is scored with, for every batch and every   *)
(* number of concurrent calls, and when a missing submission never pays.    *)
EXTENDS RewardBatch, TLAPS, FiniteSetTheorems, WellFoundedInduction

-----------------------------------------------------------------------------
(* Lists that a loop collects.                                             *)

LEMMA LeastNumber ==
  ASSUME NEW S \in SUBSET Nat, S # {}
  PROVE  \E n \in S : \A m \in S : n <= m
  <1> DEFINE Less == {p \in Nat \X Nat : p[1] < p[2]}
  <1>1. IsWellFoundedOn(Less, Nat)
    BY NatLessThanWellFounded, Zenon DEF OpToRel
  <1> HIDE DEF Less
  <1>2. PICK n \in S : \A m \in S : ~(<<m, n>> \in Less)
    BY <1>1, WFMin, Zenon
  <1>3. ASSUME NEW m \in S PROVE n <= m
    <2>1. <<m, n>> \in Nat \X Nat /\ ~(m < n)
      BY <1>2 DEF Less
    <2> QED
      BY <2>1
  <1> QED
    BY <1>3

\* Induction for a set of numbers.
LEMMA Induction ==
  ASSUME NEW S, 1 \in S, \A n \in Nat \ {0} : n \in S => n + 1 \in S
  PROVE  Nat \ {0} \subseteq S
  <1> SUFFICES ASSUME (Nat \ {0}) \ S # {} PROVE FALSE
    BY Zenon
  <1>1. PICK n \in (Nat \ {0}) \ S : \A m \in (Nat \ {0}) \ S : n <= m
    BY LeastNumber
  <1>2. n # 1 /\ n - 1 \in Nat \ {0} /\ ~(n <= n - 1)
    BY <1>1
  <1>3. n - 1 \in S
    BY <1>1, <1>2
  <1>4. (n - 1) + 1 \in S
    BY <1>2, <1>3
  <1> QED
    BY <1>1, <1>2, <1>4

\* The list grown so far is the list of the rounds so far.
IsGrown(g, s, n) == g = [i \in 1..n |-> IF i = 1 THEN s[i] ELSE g[i - 1] \o s[i]]

LEMMA GrownExists ==
  ASSUME NEW s, NEW n \in Nat \ {0}
  PROVE  \E g : IsGrown(g, s, n)
  <1> DEFINE S == {m \in Nat \ {0} : \E g : IsGrown(g, s, m)}
  <1>1. 1 \in S
    <2> DEFINE g == [i \in 1..1 |-> s[i]]
    <2>1. g = [i \in 1..1 |-> IF i = 1 THEN s[i] ELSE g[i - 1] \o s[i]]
      OBVIOUS
    <2>2. IsGrown(g, s, 1)
      BY <2>1 DEF IsGrown
    <2> HIDE DEF g
    <2> QED
      BY <2>2
  <1>2. ASSUME NEW m \in Nat \ {0}, m \in S PROVE m + 1 \in S
    <2>1. PICK g : IsGrown(g, s, m)
      BY <1>2
    <2> DEFINE h == [i \in 1..(m + 1) |-> IF i = m + 1 THEN g[m] \o s[m + 1] ELSE g[i]]
    <2>2. ASSUME NEW i \in 1..(m + 1)
          PROVE  h[i] = IF i = 1 THEN s[i] ELSE h[i - 1] \o s[i]
      <3>1. CASE i = m + 1
        <4>1. i # 1 /\ i - 1 = m /\ m \in 1..(m + 1) /\ m # m + 1
          BY <3>1
        <4>2. h[m] = g[m] /\ h[i] = g[m] \o s[m + 1]
          BY <3>1, <4>1
        <4> QED
          BY <3>1, <4>1, <4>2
      <3>2. CASE i # m + 1
        <4>1. i \in 1..m /\ h[i] = g[i] /\ (i # 1 => h[i - 1] = g[i - 1])
          BY <3>2
        <4> QED
          BY <2>1, <4>1 DEF IsGrown
      <3> QED
        BY <3>1, <3>2
    <2>3. h = [i \in 1..(m + 1) |-> IF i = 1 THEN s[i] ELSE h[i - 1] \o s[i]]
      BY <2>2
    <2>4. IsGrown(h, s, m + 1)
      BY <2>3 DEF IsGrown
    <2> QED
      BY <2>4
  <1> HIDE DEF S
  <1>3. n \in S
    BY <1>1, <1>2, Induction
  <1> QED
    BY <1>3 DEF S

LEMMA FlattenGrows ==
  ASSUME NEW s, Len(s) \in Nat \ {0}
  PROVE  \E g : IsGrown(g, s, Len(s)) /\ FlattenSeq(s) = g[Len(s)]
  <1> DEFINE flatten[i \in 1..Len(s)] == IF i = 1 THEN s[i] ELSE flatten[i - 1] \o s[i]
  <1>1. FlattenSeq(s) = flatten[Len(s)]
    BY Zenon DEF FlattenSeq
  <1>2. \E g : g = [i \in 1..Len(s) |-> IF i = 1 THEN s[i] ELSE g[i - 1] \o s[i]]
    BY GrownExists DEF IsGrown
  <1>3. flatten = [i \in 1..Len(s) |-> IF i = 1 THEN s[i] ELSE flatten[i - 1] \o s[i]]
    BY <1>2, Zenon
  <1> HIDE DEF flatten
  <1> QED
    BY <1>1, <1>3 DEF IsGrown

\* x is a member of the list.
In(x, s) == \E p \in DOMAIN s : s[p] = x

LEMMA InConcat ==
  ASSUME NEW S, NEW s \in Seq(S), NEW t \in Seq(S), NEW x
  PROVE  In(x, s \o t) <=> In(x, s) \/ In(x, t)
  <1>1. /\ s \o t \in Seq(S) /\ Len(s \o t) = Len(s) + Len(t) /\ Len(s) \in Nat /\ Len(t) \in Nat
        /\ DOMAIN s = 1..Len(s) /\ DOMAIN t = 1..Len(t) /\ DOMAIN (s \o t) = 1..(Len(s) + Len(t))
        /\ \A p \in 1..Len(s) : (s \o t)[p] = s[p]
        /\ \A p \in 1..Len(t) : (s \o t)[p + Len(s)] = t[p] /\ p + Len(s) \in 1..(Len(s) + Len(t))
    OBVIOUS
  <1>2. ASSUME In(x, s) \/ In(x, t) PROVE In(x, s \o t)
    <2>1. CASE In(x, s)
      <3>1. PICK p \in 1..Len(s) : s[p] = x
        BY <1>1, <2>1 DEF In
      <3> QED
        BY <1>1, <3>1 DEF In
    <2>2. CASE In(x, t)
      <3>1. PICK p \in 1..Len(t) : t[p] = x
        BY <1>1, <2>2 DEF In
      <3> QED
        BY <1>1, <3>1 DEF In
    <2> QED
      BY <1>2, <2>1, <2>2
  <1>3. ASSUME In(x, s \o t) PROVE In(x, s) \/ In(x, t)
    <2>1. PICK p \in 1..(Len(s) + Len(t)) : (s \o t)[p] = x
      BY <1>1, <1>3 DEF In
    <2>2. CASE p \in 1..Len(s)
      BY <1>1, <2>1, <2>2 DEF In
    <2>3. CASE p \notin 1..Len(s)
      <3>1. p - Len(s) \in 1..Len(t) /\ (p - Len(s)) + Len(s) = p
        BY <1>1, <2>3
      <3>2. t[p - Len(s)] = x
        BY <1>1, <2>1, <3>1
      <3> QED
        BY <1>1, <3>1, <3>2 DEF In
    <2> QED
      BY <2>2, <2>3
  <1> QED
    BY <1>2, <1>3

\* What flattening collects: the members of the parts and nothing else.
LEMMA FlattenMembers ==
  ASSUME NEW S, NEW s \in Seq(Seq(S))
  PROVE  /\ FlattenSeq(s) \in Seq(S)
         /\ \A x : In(x, FlattenSeq(s)) <=> \E i \in DOMAIN s : In(x, s[i])
  <1>1. CASE Len(s) = 0
    <2>1. FlattenSeq(s) = s /\ DOMAIN s = {} /\ s \in Seq(S)
      BY <1>1 DEF FlattenSeq
    <2> QED
      BY <2>1 DEF In
  <1>2. CASE Len(s) # 0
    <2>0. Len(s) \in Nat \ {0} /\ DOMAIN s = 1..Len(s) /\ \A i \in 1..Len(s) : s[i] \in Seq(S)
      BY <1>2
    <2>1. PICK g : IsGrown(g, s, Len(s)) /\ FlattenSeq(s) = g[Len(s)]
      BY <2>0, FlattenGrows
    <2>2. \A i \in 1..Len(s) : g[i] = IF i = 1 THEN s[i] ELSE g[i - 1] \o s[i]
      BY <2>1 DEF IsGrown
    <2> DEFINE Good(n) == g[n] \in Seq(S) /\ \A x : In(x, g[n]) <=> \E i \in 1..n : In(x, s[i])
    <2> DEFINE T == {n \in Nat \ {0} : n <= Len(s) => Good(n)}
    <2>3. 1 \in T
      <3>1. 1 \in 1..Len(s) /\ g[1] = s[1] /\ 1..1 = {1}
        BY <2>0, <2>2
      <3> QED
        BY <2>0, <3>1
    <2>4. ASSUME NEW n \in Nat \ {0}, n \in T PROVE n + 1 \in T
      <3> SUFFICES ASSUME n + 1 <= Len(s) PROVE Good(n + 1)
        OBVIOUS
      <3>1. Good(n) /\ n + 1 \in 1..Len(s) /\ s[n + 1] \in Seq(S)
        BY <2>0, <2>4
      <3>2. g[n + 1] = g[n] \o s[n + 1]
        <4>1. n + 1 # 1 /\ (n + 1) - 1 = n
          OBVIOUS
        <4> QED
          BY <2>2, <3>1, <4>1
      <3>3. g[n] \in Seq(S) /\ g[n + 1] \in Seq(S)
        BY <3>1, <3>2
      <3>4. \A x : In(x, g[n + 1]) <=> In(x, g[n]) \/ In(x, s[n + 1])
        BY <3>1, <3>2, <3>3, InConcat
      <3>5. 1..(n + 1) = (1..n) \cup {n + 1}
        OBVIOUS
      <3>6. \A x : (\E i \in 1..(n + 1) : In(x, s[i])) <=> (\E i \in 1..n : In(x, s[i])) \/ In(x, s[n + 1])
        BY <3>5
      <3> QED
        BY <3>1, <3>3, <3>4, <3>6
    <2> HIDE DEF T
    <2>5. Len(s) \in T
      BY <2>0, <2>3, <2>4, Induction
    <2>6. Good(Len(s))
      BY <2>0, <2>5 DEF T
    <2> QED
      BY <2>0, <2>1, <2>6
  <1> QED
    BY <1>1, <1>2

-----------------------------------------------------------------------------
(* The requests.                                                           *)

SampleType == sample \in [Samples -> Kinds]

LEMMA OneMember == \A x, y : In(x, <<y>>) <=> x = y
  BY DEF In

LEMMA NoMember == \A x : ~In(x, <<>>)
  BY DEF In

LEMMA SmallSeqs == \A S : <<>> \in Seq(S) /\ \A x \in S : <<x>> \in Seq(S)
  OBVIOUS

LEMMA SampleFields ==
  ASSUME SampleType, NEW i \in Samples
  PROVE  /\ sample[i].valid \in BOOLEAN /\ sample[i].submitted \in BOOLEAN
         /\ sample[i].claims \in BOOLEAN /\ sample[i].truth \in BOOLEAN
         /\ sample[i].process \in 0..100 /\ sample[i].steps \in Seq(BOOLEAN)
  BY KindsAssumption DEF SampleType

\* A request for the final claims of every sample that is judged, and no other.
LEMMA PayloadMembers ==
  ASSUME SampleType
  PROVE  /\ Payloads \in Seq(Samples)
         /\ \A i : In(i, Payloads) <=> i \in Samples /\ IsJudged(sample[i])
  <1> DEFINE Part(i) == IF IsJudged(sample[i]) THEN <<i>> ELSE <<>>
  <1> DEFINE parts == [i \in Samples |-> Part(i)]
  <1>1. \A i \in Samples : Part(i) \in Seq(Samples)
    OBVIOUS
  <1>2. \A x, i : In(x, Part(i)) <=> x = i /\ IsJudged(sample[i])
    BY OneMember, NoMember
  <1> HIDE DEF Part
  <1>3. parts \in Seq(Seq(Samples)) /\ DOMAIN parts = Samples
    BY <1>1, RewardAssumption DEF Samples
  <1>4. Payloads = FlattenSeq(parts)
    BY DEF Payloads, Part
  <1>5. \A x : (\E i \in DOMAIN parts : In(x, parts[i])) <=> x \in Samples /\ IsJudged(sample[x])
    BY <1>2, <1>3
  <1> HIDE DEF parts
  <1> QED
    BY <1>3, <1>4, <1>5, FlattenMembers

IsStep(x) ==
  \E i \in Samples : \E k \in DOMAIN sample[i].steps :
    /\ x = <<i, k>> /\ InferWeight > 0 /\ sample[i].valid /\ sample[i].steps[k]

LEMMA JudgedMembers ==
  ASSUME SampleType, NEW i \in Samples
  PROVE  /\ JudgedSteps(i) \in Seq(Samples \X Nat)
         /\ \A x : In(x, JudgedSteps(i)) <=>
                     \E k \in DOMAIN sample[i].steps :
                       x = <<i, k>> /\ InferWeight > 0 /\ sample[i].valid /\ sample[i].steps[k]
  <1> DEFINE steps == sample[i].steps
  <1> DEFINE Part(k) == IF steps[k] THEN << <<i, k>> >> ELSE <<>>
  <1> DEFINE parts == [k \in DOMAIN steps |-> Part(k)]
  <1>1. steps \in Seq(BOOLEAN) /\ sample[i].valid \in BOOLEAN
    BY SampleFields
  <1>n. DOMAIN steps = 1..Len(steps) /\ Len(steps) \in Nat
    BY <1>1
  <1>2. \A k \in DOMAIN steps : Part(k) \in Seq(Samples \X Nat)
    <2>1. \A k \in DOMAIN steps : <<i, k>> \in Samples \X Nat
      BY <1>n
    <2>2. \A k \in DOMAIN steps : << <<i, k>> >> \in Seq(Samples \X Nat)
      BY <2>1, SmallSeqs, Zenon
    <2> QED
      BY <2>2, SmallSeqs, Zenon
  <1>3. \A x, k : In(x, Part(k)) <=> x = <<i, k>> /\ steps[k]
    BY OneMember, NoMember
  <1> HIDE DEF Part
  <1>4. parts \in Seq(Seq(Samples \X Nat)) /\ DOMAIN parts = DOMAIN steps
    BY <1>n, <1>2
  <1>5. JudgedSteps(i) = IF InferWeight > 0 /\ sample[i].valid THEN FlattenSeq(parts) ELSE <<>>
    BY DEF JudgedSteps, Part
  <1>6. \A x : (\E k \in DOMAIN parts : In(x, parts[k])) <=>
                 \E k \in DOMAIN steps : x = <<i, k>> /\ steps[k]
    BY <1>3, <1>4
  <1>7. /\ FlattenSeq(parts) \in Seq(Samples \X Nat)
        /\ \A x : In(x, FlattenSeq(parts)) <=> \E k \in DOMAIN steps : x = <<i, k>> /\ steps[k]
    BY <1>4, <1>6, FlattenMembers
  <1> HIDE DEF parts
  <1> QED
    BY <1>5, <1>7, NoMember

\* A request for every step that can be judged, and no other.
LEMMA InferMembers ==
  ASSUME SampleType
  PROVE  /\ InferPayloads \in Seq(Samples \X Nat)
         /\ \A x : In(x, InferPayloads) <=> IsStep(x)
  <1> DEFINE parts == [i \in Samples |-> JudgedSteps(i)]
  <1>1. parts \in Seq(Seq(Samples \X Nat)) /\ DOMAIN parts = Samples
    BY JudgedMembers, RewardAssumption DEF Samples
  <1>2. InferPayloads = FlattenSeq(parts)
    BY DEF InferPayloads
  <1>3. \A x : (\E i \in DOMAIN parts : In(x, parts[i])) <=> IsStep(x)
    BY <1>1, JudgedMembers DEF IsStep
  <1> HIDE DEF parts
  <1> QED
    BY <1>1, <1>2, <1>3, FlattenMembers

-----------------------------------------------------------------------------
(* The inductive invariant.                                                *)

States == {"waiting", "open", "done"}

Scores == IF phase = "final" THEN FinalScores ELSE InferScores

\* Every result is at the place of its request.
Answered(results, requests, scores) ==
  /\ DOMAIN results = DOMAIN requests
  /\ \A p \in DOMAIN results : results[p].of = requests[p] /\ results[p].score \in scores

CallInv ==
  /\ SampleType
  /\ phase \in {"final", "infer", "done"}
  /\ DOMAIN call = DOMAIN Requests /\ DOMAIN result = DOMAIN Requests
  /\ \A p \in DOMAIN call :
       call[p] = "done" => result[p].of = Requests[p] /\ result[p].score \in Scores
  /\ phase # "final" => Answered(finals, Payloads, FinalScores)
  /\ phase = "done" => /\ Answered(infers, InferPayloads, InferScores)
                       /\ reward = [i \in Samples |-> TotalReward(i, infers)]

LEMMA RequestLength ==
  ASSUME SampleType
  PROVE  /\ DOMAIN Payloads = 1..Len(Payloads) /\ Len(Payloads) \in Nat
         /\ DOMAIN InferPayloads = 1..Len(InferPayloads) /\ Len(InferPayloads) \in Nat
  BY PayloadMembers, InferMembers

LEMMA InitCall == Init => CallInv
  <1> SUFFICES ASSUME Init PROVE CallInv
    OBVIOUS
  <1>1. SampleType /\ phase = "final" /\ Requests = Payloads
    BY DEF Init, SampleType, Requests
  <1>2. call = [p \in 1..Len(Payloads) |-> "waiting"] /\ DOMAIN result = DOMAIN call
    BY DEF Init, Waiting
  <1> QED
    BY <1>1, <1>2, RequestLength DEF CallInv

\* What is requested depends on the samples alone.
LEMMA SameRequests ==
  ASSUME UNCHANGED sample
  PROVE  /\ Payloads' = Payloads /\ InferPayloads' = InferPayloads /\ SampleType' = SampleType
         /\ UNCHANGED phase => Requests' = Requests /\ Scores' = Scores
  BY DEF Payloads, InferPayloads, JudgedSteps, SampleType, IsJudged, Requests, Scores

LEMMA SameReward ==
  ASSUME UNCHANGED <<sample, finals>>, NEW i \in Samples
  PROVE  TotalReward(i, infers)' = TotalReward(i, infers')
  <1>1. Payloads' = Payloads /\ InferPayloads' = InferPayloads
    BY SameRequests
  <1>2. FinalOf(i)' = FinalOf(i)
    BY <1>1 DEF FinalOf, Lookup, IsJudged
  <1>3. JudgedSteps(i)' = JudgedSteps(i) /\ \A x : InferLookup(x)' = InferLookup(x)
    BY <1>1 DEF JudgedSteps, InferLookup
  <1>4. InferReward(i, infers)' = InferReward(i, infers')
    BY <1>3 DEF InferReward
  <1>5. ProcessReward(i)' = ProcessReward(i) /\ Missing(sample[i])' = Missing(sample[i])
    BY DEF ProcessReward, Missing
  <1> QED
    BY <1>2, <1>4, <1>5 DEF TotalReward

LEMMA StepCall == CallInv /\ [Next]_vars => CallInv'
  <1> SUFFICES ASSUME CallInv, [Next]_vars PROVE CallInv'
    OBVIOUS
  <1>1. ASSUME NEW p \in DOMAIN call, Begin(p) \/ End(p) PROVE CallInv'
    <2>1. UNCHANGED <<sample, phase, finals, infers, reward>>
      BY <1>1 DEF Begin, End
    <2>2. /\ Payloads' = Payloads /\ InferPayloads' = InferPayloads /\ SampleType' = SampleType
          /\ Requests' = Requests /\ Scores' = Scores
      BY <2>1, SameRequests
    <2>3. /\ DOMAIN call' = DOMAIN call /\ DOMAIN result' = DOMAIN result
          /\ \A q \in DOMAIN call : call'[q] = "done" =>
               result'[q].of = Requests[q] /\ result'[q].score \in Scores
      <3>1. CASE Begin(p)
        BY <3>1 DEF Begin, CallInv
      <3>2. CASE End(p)
        <4>1. PICK score \in Scores :
                result' = [result EXCEPT ![p] = [of |-> Requests[p], score |-> score]]
          BY <3>2 DEF End, Scores
        <4>2. call' = [call EXCEPT ![p] = "done"]
          BY <3>2 DEF End
        <4> QED
          BY <4>1, <4>2 DEF CallInv
      <3> QED
        BY <1>1, <3>1, <3>2
    <2>4. phase' = "done" => reward' = [i \in Samples |-> TotalReward(i, infers)']
      BY <2>1, SameReward DEF CallInv
    <2> QED
      BY <2>1, <2>2, <2>3, <2>4 DEF CallInv
  <1>2. CASE FinalsJudged
    <2>1. /\ phase = "final" /\ phase' = "infer" /\ finals' = result /\ UNCHANGED sample
          /\ call' = [p \in 1..Len(InferPayloads) |-> "waiting"]
          /\ DOMAIN result' = DOMAIN call' /\ \A p \in DOMAIN call : call[p] = "done"
      BY <1>2 DEF FinalsJudged, Waiting, AllDone
    <2>2. Payloads' = Payloads /\ InferPayloads' = InferPayloads /\ SampleType' = SampleType
      BY <2>1, SameRequests
    <2>3. Requests = Payloads /\ Requests' = InferPayloads /\ Scores = FinalScores
      BY <2>1, <2>2 DEF Requests, Scores
    <2>4. Answered(finals', Payloads, FinalScores)
      BY <2>1, <2>3 DEF CallInv, Answered
    <2>5. DOMAIN InferPayloads = 1..Len(InferPayloads)
      BY RequestLength DEF CallInv
    <2> QED
      BY <2>1, <2>2, <2>3, <2>4, <2>5 DEF CallInv
  <1>3. CASE InfersJudged
    <2>1. /\ phase = "infer" /\ phase' = "done" /\ infers' = result
          /\ UNCHANGED <<sample, call, result, finals>> /\ \A p \in DOMAIN call : call[p] = "done"
          /\ reward' = [i \in Samples |-> TotalReward(i, result)]
      BY <1>3 DEF InfersJudged, AllDone
    <2>2. Payloads' = Payloads /\ InferPayloads' = InferPayloads /\ SampleType' = SampleType
      BY <2>1, SameRequests
    <2>3. Requests = InferPayloads /\ Requests' = Requests /\ Scores = InferScores /\ Scores' = Scores
      BY <2>1, <2>2 DEF Requests, Scores
    <2>4. Answered(infers', InferPayloads, InferScores)
      BY <2>1, <2>3 DEF CallInv, Answered
    <2>5. reward' = [i \in Samples |-> TotalReward(i, infers)']
      BY <2>1, SameReward
    <2> QED
      BY <2>1, <2>2, <2>3, <2>4, <2>5 DEF CallInv
  <1>4. CASE UNCHANGED vars
    <2>1. /\ UNCHANGED <<sample, phase, call, result, finals, infers, reward>>
          /\ Payloads' = Payloads /\ InferPayloads' = InferPayloads /\ SampleType' = SampleType
          /\ Requests' = Requests /\ Scores' = Scores
      BY <1>4, SameRequests DEF vars
    <2>2. phase' = "done" => reward' = [i \in Samples |-> TotalReward(i, infers)']
      BY <2>1, SameReward DEF CallInv
    <2> QED
      BY <2>1, <2>2 DEF CallInv
  <1> QED
    BY <1>1, <1>2, <1>3, <1>4 DEF Next

-----------------------------------------------------------------------------
(* Theorems                                                                *)

LEMMA CallInvariant == Spec => []CallInv
  BY InitCall, StepCall, PTL DEF Spec

\* Whatever the order of the answers, a sample is scored with those to its own claims and steps.
THEOREM SamplesGetTheirScores ==
  ASSUME InferWeight > 0
  PROVE  Spec => []OwnScore
  <1>1. ASSUME CallInv PROVE OwnScore
    <2> SUFFICES ASSUME phase = "done", NEW i \in Samples
                 PROVE  /\ FinalOf(i).of = IF IsJudged(sample[i]) THEN i ELSE 0
                        /\ \A k \in DOMAIN sample[i].steps :
                             IF sample[i].valid /\ sample[i].steps[k]
                             THEN \E p \in DOMAIN infers : infers[p].of = <<i, k>> /\ InferLookup(<<i, k>>) = p
                             ELSE \A p \in DOMAIN infers : infers[p].of # <<i, k>>
      BY DEF OwnScore
    <2>1. /\ SampleType /\ Answered(finals, Payloads, FinalScores)
          /\ Answered(infers, InferPayloads, InferScores)
      BY <1>1 DEF CallInv
    <2>2. FinalOf(i).of = IF IsJudged(sample[i]) THEN i ELSE 0
      <3>1. CASE IsJudged(sample[i])
        <4>1. \E p \in DOMAIN Payloads : Payloads[p] = i
          BY <2>1, <3>1, PayloadMembers DEF In
        <4>2. Lookup(i) \in DOMAIN Payloads /\ Payloads[Lookup(i)] = i
          BY <4>1 DEF Lookup
        <4> QED
          BY <2>1, <3>1, <4>2 DEF FinalOf, Answered
      <3>2. CASE ~IsJudged(sample[i])
        BY <3>2 DEF FinalOf, Nothing
      <3> QED
        BY <3>1, <3>2
    <2>3. ASSUME NEW k \in DOMAIN sample[i].steps, sample[i].valid /\ sample[i].steps[k]
          PROVE  \E p \in DOMAIN infers : infers[p].of = <<i, k>> /\ InferLookup(<<i, k>>) = p
      <3>1. In(<<i, k>>, InferPayloads)
        BY <2>1, <2>3, InferMembers DEF IsStep
      <3> DEFINE p == InferLookup(<<i, k>>)
      <3>2. p \in DOMAIN InferPayloads /\ InferPayloads[p] = <<i, k>>
        BY <3>1 DEF In, InferLookup
      <3> HIDE DEF p
      <3>3. p \in DOMAIN infers /\ infers[p].of = <<i, k>>
        BY <2>1, <3>2 DEF Answered
      <3> QED
        BY <3>3 DEF p
    <2>4. ASSUME NEW k \in DOMAIN sample[i].steps, ~(sample[i].valid /\ sample[i].steps[k]),
                 NEW p \in DOMAIN infers, infers[p].of = <<i, k>>
          PROVE  FALSE
      <3>1. In(<<i, k>>, InferPayloads)
        BY <2>1, <2>4 DEF Answered, In
      <3>2. PICK j \in Samples : \E l \in DOMAIN sample[j].steps :
              <<i, k>> = <<j, l>> /\ sample[j].valid /\ sample[j].steps[l]
        BY <2>1, <3>1, InferMembers DEF IsStep
      <3>3. j = i
        BY <3>2
      <3> QED
        BY <2>4, <3>2, <3>3
    <2> QED
      BY <2>2, <2>3, <2>4
  <1> QED
    BY <1>1, CallInvariant, PTL

-----------------------------------------------------------------------------
(* The rewards of samples with and without a submission.                   *)

LEMMA MeanBounds ==
  ASSUME NEW n \in Nat \ {0}, NEW a \in Int, -(50 * n) <= a, a <= 100 * n
  PROVE  a \div n \in -50..100
  <1>1. a \div n \in Int /\ n * (a \div n) <= a /\ a < n * (a \div n) + n
    OBVIOUS
  <1> DEFINE q == a \div n
  <1> HIDE DEF q
  <1>2. q \in Int /\ n * q <= a /\ a < n * q + n
    BY <1>1 DEF q
  <1>3. ~(q >= 101)
    <2>1. ASSUME q >= 101 PROVE n * q >= n * 101
      BY <1>2, <2>1
    <2> QED
      BY <1>2, <2>1
  <1>4. ~(q + 1 <= -50)
    <2>1. ASSUME q + 1 <= -50 PROVE n * (q + 1) <= n * (-50)
      BY <1>2, <2>1
    <2>2. n * (q + 1) = n * q + n
      BY <1>2
    <2> QED
      BY <1>2, <2>1, <2>2
  <1> QED
    BY <1>2, <1>3, <1>4 DEF q

LEMMA IntervalSize ==
  ASSUME NEW n \in Nat
  PROVE  IsFiniteSet(1..n) /\ Cardinality(1..n) = n
  <1>1. IsFiniteSet(1..n) /\ Cardinality(1..n) = IF 1 > n THEN 0 ELSE n - 1 + 1
    BY FS_Interval
  <1> QED
    BY <1>1

LEMMA InferBounds ==
  ASSUME SampleType, NEW i \in Samples
  PROVE  InferReward(i, infers) \in -50..100
  <1> DEFINE steps == JudgedSteps(i)
             good  == {k \in DOMAIN steps : infers[InferLookup(steps[k])].score > 0}
             n     == Len(steps)
             c     == Cardinality(good)
  <1>1. InferReward(i, infers) = IF n = 0 THEN 0 ELSE (100 * c - 50 * (n - c)) \div n
    BY DEF InferReward
  <1>2. n \in Nat /\ DOMAIN steps = 1..n
    BY JudgedMembers
  <1>3. IsFiniteSet(1..n) /\ Cardinality(1..n) = n
    BY <1>2, IntervalSize
  <1>4. good \subseteq 1..n
    BY <1>2
  <1>5. c \in Nat /\ c <= n
    BY <1>3, <1>4, FS_Subset, FS_CardinalityType
  <1> HIDE DEF steps, good, n, c
  <1>6. n # 0 => (100 * c - 50 * (n - c)) \in Int /\ -(50 * n) <= 100 * c - 50 * (n - c)
                 /\ 100 * c - 50 * (n - c) <= 100 * n
    BY <1>2, <1>5
  <1>7. n # 0 => (100 * c - 50 * (n - c)) \div n \in -50..100
    BY <1>2, <1>6, MeanBounds
  <1> QED
    BY <1>1, <1>7

LEMMA ClippedMonotone ==
  ASSUME ClipMin <= ClipMax, NEW x \in Int, NEW y \in Int, x <= y
  PROVE  Clipped(x) <= Clipped(y) /\ Clipped(x) \in Int
  BY RewardAssumption DEF Clipped

LEMMA ProductBounds ==
  ASSUME NEW w \in Nat, NEW x \in Int, NEW a \in Int, NEW b \in Int, a <= x, x <= b
  PROVE  w * x \in Int /\ w * a <= w * x /\ w * x <= w * b
  OBVIOUS

Best    == 100 * ProcessWeight + 100 * InferWeight + 100 * MissingSubmitPenalty
Worst   == -(50 * InferWeight) - 100 * FinalWeight

\* No trajectory gains by not submitting if, clipped, the most that one can get without a
\* submission is not above the least that one gets with it.
THEOREM MissingNeverPays ==
  ASSUME ClipMin <= ClipMax, Clipped(Best) <= Clipped(Worst)
  PROVE  Spec => []MissingIsWorst
  <1>1. ASSUME CallInv PROVE MissingIsWorst
    <2> SUFFICES ASSUME phase = "done", NEW i \in Samples, NEW j \in Samples,
                        ~(sample[i].submitted /\ sample[i].claims),
                        sample[j].submitted /\ sample[j].claims
                 PROVE  reward[i] <= reward[j]
      BY DEF MissingIsWorst
    <2>1. SampleType /\ Answered(finals, Payloads, FinalScores)
          /\ reward = [k \in Samples |-> TotalReward(k, infers)]
      BY <1>1 DEF CallInv
    <2>2. \A k \in Samples : ProcessReward(k) \in 0..100
      BY <2>1, SampleFields DEF ProcessReward
    <2>3. \A k \in Samples : InferReward(k, infers) \in -50..100
      BY <2>1, InferBounds
    <2>4. FinalOf(i).score = 0
      BY DEF FinalOf, IsJudged, Nothing
    <2>5. FinalOf(j).score \in -100..100
      <3>1. CASE IsJudged(sample[j])
        <4>1. \E p \in DOMAIN Payloads : Payloads[p] = j
          BY <2>1, <3>1, PayloadMembers DEF In
        <4>2. Lookup(j) \in DOMAIN Payloads
          BY <4>1 DEF Lookup
        <4>3. finals[Lookup(j)].score \in FinalScores
          BY <2>1, <4>2 DEF Answered
        <4> QED
          BY <3>1, <4>3 DEF FinalOf, FinalScores
      <3>2. CASE ~IsJudged(sample[j])
        BY <3>2 DEF FinalOf, Nothing
      <3> QED
        BY <3>1, <3>2
    <2> DEFINE Gain(k) == ProcessWeight * ProcessReward(k) + InferWeight * InferReward(k, infers)
                          + FinalWeight * FinalOf(k).score
                          + (IF Missing(sample[k]) THEN 100 * MissingSubmitPenalty ELSE 0)
    <2>6. Gain(i) \in Int /\ Gain(i) <= Best
      <3>1. ProcessWeight * ProcessReward(i) \in Int
            /\ ProcessWeight * ProcessReward(i) <= ProcessWeight * 100
        BY <2>2, RewardAssumption, ProductBounds
      <3>2. InferWeight * InferReward(i, infers) \in Int
            /\ InferWeight * InferReward(i, infers) <= InferWeight * 100
        BY <2>3, RewardAssumption, ProductBounds
      <3>3. FinalWeight * FinalOf(i).score = 0
        BY <2>4, RewardAssumption
      <3>4. Missing(sample[i])
        BY DEF Missing
      <3> QED
        BY <3>1, <3>2, <3>3, <3>4, RewardAssumption DEF Best
    <2>7. Gain(j) \in Int /\ Worst <= Gain(j)
      <3>1. ProcessWeight * ProcessReward(j) \in Int
            /\ ProcessWeight * 0 <= ProcessWeight * ProcessReward(j)
        BY <2>2, RewardAssumption, ProductBounds
      <3>2. InferWeight * InferReward(j, infers) \in Int
            /\ InferWeight * (-50) <= InferWeight * InferReward(j, infers)
        BY <2>3, RewardAssumption, ProductBounds
      <3>3. FinalWeight * FinalOf(j).score \in Int
            /\ FinalWeight * (-100) <= FinalWeight * FinalOf(j).score
        BY <2>5, RewardAssumption, ProductBounds
      <3>4. ~Missing(sample[j])
        BY DEF Missing
      <3> QED
        BY <3>1, <3>2, <3>3, <3>4, RewardAssumption DEF Worst
    <2>8. reward[i] = Clipped(Gain(i)) /\ reward[j] = Clipped(Gain(j))
      BY <2>1 DEF TotalReward
    <2> HIDE DEF Gain
    <2>9. Best \in Int /\ Worst \in Int
      BY RewardAssumption DEF Best, Worst
    <2>10. Clipped(Gain(i)) <= Clipped(Best) /\ Clipped(Worst) <= Clipped(Gain(j))
           /\ Clipped(Gain(i)) \in Int /\ Clipped(Worst) \in Int
      BY <2>6, <2>7, <2>9, ClippedMonotone
    <2>11. Clipped(Best) \in Int /\ Clipped(Gain(j)) \in Int
      BY <2>6, <2>7, <2>9, ClippedMonotone
    <2> QED
      BY <2>8, <2>10, <2>11
  <1> QED
    BY <1>1, CallInvariant, PTL
=============================================================================
