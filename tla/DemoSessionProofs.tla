-------------------------- MODULE DemoSessionProofs --------------------------
(* Theorems about DemoSession for any number of handler threads, events, faults and restarts. *)
EXTENDS DemoSession, TLAPS

-----------------------------------------------------------------------------
(* The inductive invariant.                                                *)

\* The files are written in their order: who finds a report finds its graph.
FileInv ==
  /\ half => next <= Len(Files)
  /\ next >= 3 => file["graph"] = "complete"
  /\ file["report"] # "absent" => next >= 3
  /\ fetch = "graph" => file["report"] # "absent"
  /\ ResultComplete

IInv == TypeOK /\ FileInv

-----------------------------------------------------------------------------
(* Type correctness                                                        *)

LEMMA FilesType ==
  /\ Len(Files) = 4
  /\ \A i \in 1..4 : Files[i] \in FileNames
  /\ Files[2] = "graph" /\ Files[3] = "report"
  /\ \A i \in 1..4 : Files[i] = "graph" => i = 2
  /\ \A i \in 1..4 : Files[i] = "report" => i = 3
  BY DEF Files, FileNames

LEMMA PutType ==
  ASSUME TypeOK, NEW kind \in EventKinds, Put(kind)
  PROVE  queue' \in Seq(EventKinds)
  BY DEF TypeOK, Put

LEMMA RunType ==
  ASSUME IInv, RunStep \/ WatchWakes \/ WatchEmits
  PROVE  TypeOK'
  <1> USE DEF disk, server, page, request, bounds
  <1>1. {"step", "report", "error", "done"} \subseteq EventKinds
    BY DEF EventKinds
  <1>2. CASE EmitStep
    <2>1. queue' \in Seq(EventKinds) /\ events' \in 0..MaxEvents
      BY <1>1, <1>2, PutType, BoundsAssumption DEF IInv, EmitStep, TypeOK
    <2> QED
      BY <1>2, <2>1 DEF IInv, TypeOK, EmitStep, Put
  <1>3. CASE AgentEnds \/ RunFails
    BY <1>3 DEF IInv, TypeOK, AgentEnds, RunFails, session
  <1>4. CASE OpenFile
    <2>1. Files[next] \in FileNames
      BY <1>4, FilesType DEF IInv, TypeOK, OpenFile
    <2> QED
      BY <1>4, <2>1 DEF IInv, TypeOK, OpenFile, session
  <1>5. CASE WriteFile
    <2>1. next \in 1..4 /\ next' \in 1..(Len(Files) + 1) /\ Files[next] \in FileNames
      BY <1>5, FilesType DEF IInv, TypeOK, FileInv, WriteFile
    <2>2. file' \in [FileNames -> {"absent", "partial", "complete"}] /\ half' \in BOOLEAN
      BY <1>5, <2>1 DEF IInv, TypeOK, WriteFile
    <2>3. UNCHANGED <<pc, session, server, page, request, bounds>>
      BY <1>5 DEF WriteFile
    <2> QED
      BY <2>1, <2>2, <2>3 DEF IInv, TypeOK, session
  <1>6. CASE EmitReport \/ EmitError \/ PutDone
    <2>1. queue' \in Seq(EventKinds)
      BY <1>1, <1>6, PutType DEF IInv, EmitReport, EmitError, PutDone
    <2> QED
      BY <1>6, <2>1 DEF IInv, TypeOK, EmitReport, EmitError, PutDone, Put
  <1>7. CASE SetDone
    BY <1>7 DEF IInv, TypeOK, SetDone
  <1>8. CASE WatchWakes
    BY <1>8, BoundsAssumption DEF IInv, TypeOK, WatchWakes
  <1>9. CASE WatchEmits
    <2>1. queue' \in Seq(EventKinds)
      BY <1>1, <1>9, PutType DEF IInv, WatchEmits
    <2>2. awake' \in BOOLEAN /\ UNCHANGED <<pc, disk, events, done, known>>
      BY <1>9 DEF WatchEmits, Put
    <2>3. UNCHANGED <<server, page, request, bounds>>
      BY <1>9 DEF WatchEmits
    <2> QED
      BY <2>1, <2>2, <2>3 DEF IInv, TypeOK
  <1> QED
    BY <1>2, <1>3, <1>4, <1>5, <1>6, <1>7, <1>8, <1>9 DEF RunStep

LEMMA StreamType ==
  ASSUME TypeOK, Connect \/ ConnectRefused \/ Drop
  PROVE  TypeOK'
  <1> USE DEF disk, session, server, request, bounds
  <1>1. CASE Connect
    BY <1>1, HandlersAssumption DEF TypeOK, Connect
  <1>2. CASE ConnectRefused
    BY <1>2 DEF TypeOK, ConnectRefused, OnError
  <1>3. CASE Drop
    BY <1>3, BoundsAssumption DEF TypeOK, Drop, StreamBreaks, OnError
  <1> QED
    BY <1>1, <1>2, <1>3

LEMMA HandlerType ==
  ASSUME TypeOK, NEW h \in Handlers, HandlerStep(h)
  PROVE  TypeOK'
  <1> USE DEF disk, session, server, page, request, bounds
  <1>1. CASE Take(h)
    <2>1. Head(queue) \in EventKinds /\ Tail(queue) \in Seq(EventKinds)
      BY <1>1 DEF TypeOK, Take
    <2>2. Head(queue) # "none"
      BY <2>1 DEF EventKinds
    <2> QED
      BY <1>1, <2>1, <2>2 DEF TypeOK, Take
  <1>2. CASE GetTimesOut(h)
    BY <1>2 DEF TypeOK, GetTimesOut
  <1>3. CASE KeepAlive(h)
    BY <1>3 DEF TypeOK, KeepAlive, StreamBreaks, OnError
  <1>4. CASE Write(h)
    <2>1. /\ stream' \in {"waiting", "open", "gone", "closed"}
          /\ reader' \in Handlers \cup {NoHandler} /\ (reader' # NoHandler <=> stream' = "open")
          /\ pageDone' \in BOOLEAN /\ reported' \in BOOLEAN /\ polling' \in BOOLEAN
          /\ recover' \in BOOLEAN
      BY <1>4, HandlersAssumption DEF TypeOK, Write, Receive, OnError
    <2>2. /\ handler' \in [Handlers -> {"idle", "get", "alive", "write"}]
          /\ holding' \in [Handlers -> EventKinds \cup {"none"}]
          /\ \A g \in Handlers : holding'[g] # "none" <=> handler'[g] = "write"
      BY <1>4 DEF TypeOK, Write
    <2> QED
      BY <1>4, <2>1, <2>2 DEF TypeOK, Write
  <1> QED
    BY <1>1, <1>2, <1>3, <1>4 DEF HandlerStep

LEMMA ResultType ==
  ASSUME TypeOK, AskResult \/ Serve \/ FetchLost \/ Crash
  PROVE  TypeOK'
  <1> USE DEF disk, session, server, page, bounds
  <1>1. CASE AskResult
    <2>1. fetch' = "check" /\ recover' \in BOOLEAN
      BY <1>1 DEF AskResult
    <2>2. /\ UNCHANGED <<pc, disk, session, server, bounds>>
          /\ UNCHANGED <<stream, reader, pageDone, reported, polling, served>>
      BY <1>1 DEF AskResult
    <2> QED
      BY <2>1, <2>2 DEF TypeOK
  <1>2. CASE Serve
    <2>1. ASSUME NEW to \in {"report", "graph"}, Proceed(to) PROVE TypeOK'
      BY <2>1 DEF TypeOK, Proceed
    <2>2. ASSUME NEW what \in {"notReady", "failed", "full", "noGraph"}, Answered(what)
          PROVE  TypeOK'
      <3>1. reported' \in BOOLEAN
        BY <2>2, Zenon DEF TypeOK, Answered
      <3>2. fetch' = "idle" /\ served' = what
        BY <2>2 DEF Answered
      <3>3. /\ UNCHANGED <<pc, disk, session, server, bounds>>
            /\ UNCHANGED <<stream, reader, pageDone, polling, recover>>
        BY <2>2 DEF Answered
      <3> QED
        BY <3>1, <3>2, <3>3 DEF TypeOK
    <2> QED
      BY <1>2, <2>1, <2>2 DEF Serve, CheckReport, ReadReport, ReadGraph
  <1>3. CASE FetchLost
    BY <1>3, BoundsAssumption DEF TypeOK, FetchLost
  <1>4. CASE Crash
    <2>1. <<>> \in Seq(EventKinds)
      OBVIOUS
    <2>2. /\ stream' \in {"waiting", "open", "gone", "closed"}
          /\ reader' \in Handlers \cup {NoHandler} /\ (reader' # NoHandler <=> stream' = "open")
      BY <1>4 DEF TypeOK, Crash, StreamBreaks
    <2>3. polling' \in BOOLEAN
      BY <1>4 DEF TypeOK, Crash, StreamBreaks, OnError
    <2>4. crashes' \in 0..MaxCrashes
      BY <1>4, BoundsAssumption DEF TypeOK, Crash
    <2>5. /\ pc' = "killed" /\ queue' = <<>> /\ fetch' = "idle"
          /\ known' \in BOOLEAN /\ awake' \in BOOLEAN
          /\ handler' = [h \in Handlers |-> "idle"] /\ holding' = [h \in Handlers |-> "none"]
          /\ UNCHANGED <<disk, done, events, pageDone, reported, recover, served, faults>>
      BY <1>4 DEF Crash
    <2> QED
      BY <2>1, <2>2, <2>3, <2>4, <2>5 DEF TypeOK
  <1> QED
    BY <1>1, <1>2, <1>3, <1>4

-----------------------------------------------------------------------------
(* The files                                                               *)

LEMMA FileStep ==
  ASSUME TypeOK, FileInv, Next
  PROVE  FileInv'
  <1> USE DEF disk, request, FileInv, ResultComplete
  <1>1. CASE OpenFile
    <2>1. next \in 1..4 /\ file' = [file EXCEPT ![Files[next]] = "partial"]
      BY <1>1, FilesType DEF TypeOK, OpenFile
    <2>2. next >= 3 => Files[next] # "graph"
      BY <2>1, FilesType
    <2>3. Files[next] = "report" => next >= 3
      BY <2>1, FilesType
    <2>4. {"graph", "report"} \subseteq FileNames
      BY DEF FileNames
    <2> QED
      BY <1>1, <2>1, <2>2, <2>3, <2>4, FilesType DEF TypeOK, OpenFile
  <1>2. CASE WriteFile
    <2>1. /\ next \in 1..4 /\ next' = next + 1
          /\ file' = [file EXCEPT ![Files[next]] = "complete"]
      BY <1>2, FilesType DEF TypeOK, WriteFile
    <2>2. {"graph", "report"} \subseteq FileNames
      BY DEF FileNames
    <2>3. next' >= 3 => file'["graph"] = "complete"
      BY <2>1, <2>2, FilesType DEF TypeOK
    <2>4. file'["report"] # "absent" => next' >= 3
      BY <2>1, <2>2, FilesType DEF TypeOK
    <2>5. file["report"] # "absent" => file'["report"] # "absent"
      BY <2>1, <2>2 DEF TypeOK
    <2> QED
      BY <1>2, <2>3, <2>4, <2>5 DEF WriteFile
  <1>3. CASE CheckReport \/ ReadReport \/ ReadGraph
    BY <1>3 DEF CheckReport, ReadReport, ReadGraph, Answered, Proceed
  <1>4. CASE AskResult \/ FetchLost \/ Crash
    BY <1>4 DEF AskResult, FetchLost, Crash
  <1>5. CASE RunStep /\ ~OpenFile /\ ~WriteFile
    BY <1>5 DEF RunStep, EmitStep, AgentEnds, RunFails, EmitReport, EmitError, SetDone, PutDone
  <1>6. CASE WatchWakes \/ WatchEmits \/ Connect \/ ConnectRefused \/ Drop
    BY <1>6 DEF WatchWakes, WatchEmits, Connect, ConnectRefused, Drop
  <1>7. ASSUME NEW h \in Handlers, HandlerStep(h) PROVE FileInv'
    BY <1>7 DEF HandlerStep, Take, GetTimesOut, KeepAlive, Write
  <1> QED
    BY <1>1, <1>2, <1>3, <1>4, <1>5, <1>6, <1>7 DEF Next, Serve

LEMMA InitInv == Init => IInv
  <1> SUFFICES ASSUME Init PROVE IInv
    OBVIOUS
  <1> USE DEF Init
  <1>1. TypeOK
    <2>1. queue \in Seq(EventKinds) /\ next \in 1..(Len(Files) + 1)
      BY FilesType
    <2>2. events \in 0..MaxEvents /\ crashes \in 0..MaxCrashes /\ faults \in 0..MaxFaults
      BY BoundsAssumption
    <2>3. /\ half \in BOOLEAN /\ done \in BOOLEAN /\ awake \in BOOLEAN /\ known \in BOOLEAN
          /\ pageDone \in BOOLEAN /\ reported \in BOOLEAN /\ polling \in BOOLEAN
          /\ recover \in BOOLEAN
      OBVIOUS
    <2> QED
      BY <2>1, <2>2, <2>3 DEF TypeOK
  <1>2. FileInv
    BY DEF FileInv, ResultComplete, FileNames
  <1> QED
    BY <1>1, <1>2 DEF IInv

LEMMA StepInv == IInv /\ [Next]_vars => IInv'
  <1>1. ASSUME IInv, Next PROVE IInv'
    BY <1>1, RunType, StreamType, HandlerType, ResultType, FileStep DEF IInv, Next
  <1>2. ASSUME IInv, UNCHANGED vars PROVE IInv'
    BY <1>2 DEF IInv, TypeOK, FileInv, ResultComplete, vars, disk, session, server, page, request,
                bounds
  <1> QED
    BY <1>1, <1>2

LEMMA Inductive == Spec => []IInv
  BY InitInv, StepInv, PTL DEF Spec

-----------------------------------------------------------------------------
(* Theorems                                                                *)

\* Every variable keeps its type; a handler holds an event just while it writes it, and the page
\* has a reader just while its stream is open.
THEOREM TypeCorrect == Spec => []TypeOK
  BY Inductive, PTL DEF IInv

\* serve_result() never answers with a report without its graph, however its reads fall between
\* the writes of the run thread, and whatever was half written when the server was stopped.
THEOREM ServedResultIsComplete == Spec => []ResultComplete
  BY Inductive, PTL DEF IInv, FileInv
=============================================================================
