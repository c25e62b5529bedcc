----------------------------- MODULE DemoSession -----------------------------
(***************************************************************************)
(* One run of the demo: the run thread of src/demo/server.py, the queue of *)
(* events it fills, the handler threads that take events out of the queue  *)
(* for the browser, the files in which the result is kept, and the page of *)
(* src/demo/static/app.js that reads the stream, reconnects when it breaks *)
(* and falls back to the files.                                            *)
(*                                                                         *)
(* The agent inside the run thread is reduced to the events it emits: it   *)
(* is the loop of AgentLoop over another model interface.                  *)
(***************************************************************************)
EXTENDS Naturals, Sequences

CONSTANTS Handlers,    \* bound: threads that serve /events at the same time
          MaxEvents,   \* bound: events before the last ones
          MaxFaults,   \* bound: broken connections and lost requests
          MaxCrashes   \* bound: restarts of the server

ASSUME BoundsAssumption ==
  Handlers # {} /\ MaxEvents \in Nat /\ MaxFaults \in Nat /\ MaxCrashes \in Nat

\* Mutation: the report is written before the graph.
ReportFirst == <<"trace", "report", "graph", "rest">>

\* The files of a run in the order of write_run_outputs; "rest" are report.md and latest.json.
Files == <<"trace", "graph", "report", "rest">>

FileNames == {"trace", "graph", "report", "rest"}

NoHandler == "nobody"

ASSUME HandlersAssumption == NoHandler \notin Handlers

VARIABLES
  pc,        \* next statement of the run thread
  next,      \* which file it writes
  half,      \* that file is open
  file,      \* the files of the run on disk
  queue,     \* session.events
  done,      \* session.done
  events,    \* events emitted so far, up to the last ones
  awake,     \* the thread that reports a waiting model call is past its wait()
  known,     \* RUNS holds the session
  crashes,   \* restarts so far
  handler,   \* where each handler thread is
  holding,   \* the event it has taken
  stream,    \* the page's EventSource
  reader,    \* the handler at the other end of it
  pageDone,  \* state.done
  reported,  \* state.reportReceived
  polling,   \* a chain of pollResultUntilReady() is going on
  recover,   \* recoverResultFromDisk() is about to fetch
  fetch,     \* where serve_result is with the page's request
  served,    \* what it last answered
  faults     \* faults so far

disk    == <<next, half, file>>
session == <<queue, done, events, awake, known>>
server  == <<handler, holding>>
page    == <<stream, reader, pageDone, reported, polling, recover>>
request == <<fetch, served>>
bounds  == <<crashes, faults>>
vars    == <<pc, disk, session, server, page, request, bounds>>

\* The events that the page has a listener for; "step" stands for all that come before the last
\* ones.
EventKinds == {"step", "report", "error", "done"}

TypeOK ==
  /\ pc \in {"agent", "write", "failed", "finish", "putDone", "ended", "killed"}
  /\ next \in 1..(Len(Files) + 1) /\ half \in BOOLEAN
  /\ file \in [FileNames -> {"absent", "partial", "complete"}]
  /\ queue \in Seq(EventKinds)
  /\ done \in BOOLEAN /\ awake \in BOOLEAN /\ known \in BOOLEAN
  /\ events \in 0..MaxEvents /\ crashes \in 0..MaxCrashes /\ faults \in 0..MaxFaults
  /\ handler \in [Handlers -> {"idle", "get", "alive", "write"}]
  /\ holding \in [Handlers -> EventKinds \cup {"none"}]
  /\ \A h \in Handlers : holding[h] # "none" <=> handler[h] = "write"
  /\ stream \in {"waiting", "open", "gone", "closed"}
  /\ reader \in Handlers \cup {NoHandler} /\ (reader # NoHandler <=> stream = "open")
  /\ pageDone \in BOOLEAN /\ reported \in BOOLEAN /\ polling \in BOOLEAN /\ recover \in BOOLEAN
  /\ fetch \in {"idle", "check", "report", "graph"}
  /\ served \in {"nothing", "notReady", "failed", "full", "noGraph"}

\* The page has posted the question and opens the stream.
Init ==
  /\ pc = "agent" /\ next = 1 /\ half = FALSE /\ file = [f \in FileNames |-> "absent"]
  /\ queue = <<>> /\ done = FALSE /\ events = 0 /\ awake = FALSE /\ known = TRUE
  /\ handler = [h \in Handlers |-> "idle"] /\ holding = [h \in Handlers |-> "none"]
  /\ stream = "waiting" /\ reader = NoHandler
  /\ pageDone = FALSE /\ reported = FALSE /\ polling = FALSE /\ recover = FALSE
  /\ fetch = "idle" /\ served = "nothing" /\ crashes = 0 /\ faults = 0

-----------------------------------------------------------------------------
(* The run thread: run_session() and write_run_outputs()                   *)

Put(kind) == queue' = Append(queue, kind) /\ UNCHANGED <<done, known>>

\* A status, a delta, a step of the agent or of its report.
EmitStep ==
  /\ pc = "agent" /\ events < MaxEvents
  /\ Put("step") /\ events' = events + 1
  /\ UNCHANGED <<pc, disk, awake, server, page, request, bounds>>

\* The agent is through and the report is composed.
AgentEnds ==
  /\ pc = "agent"
  /\ pc' = "write"
  /\ UNCHANGED <<disk, session, server, page, request, bounds>>

\* An exception of the model stream, the executor or the files; none is left when all are written.
RunFails ==
  /\ pc = "agent" \/ (pc = "write" /\ next <= Len(Files))
  /\ pc' = "failed"
  /\ UNCHANGED <<disk, session, server, page, request, bounds>>

\* write_text(): the file is opened, which empties it ...
OpenFile ==
  /\ pc = "write" /\ next <= Len(Files) /\ ~half
  /\ half' = TRUE /\ file' = [file EXCEPT ![Files[next]] = "partial"]
  /\ UNCHANGED <<pc, next, session, server, page, request, bounds>>

\* ... and written.
WriteFile ==
  /\ pc = "write" /\ half
  /\ half' = FALSE /\ file' = [file EXCEPT ![Files[next]] = "complete"]
  /\ next' = next + 1
  /\ UNCHANGED <<pc, session, server, page, request, bounds>>

EmitReport ==
  /\ pc = "write" /\ next > Len(Files)
  /\ Put("report") /\ pc' = "finish"
  /\ UNCHANGED <<disk, events, awake, server, page, request, bounds>>

\* Mutation: the server names the event as no listener of the page does.
EmitErrorUnlistened ==
  /\ pc = "failed"
  /\ Put("exception") /\ pc' = "finish"
  /\ UNCHANGED <<disk, events, awake, server, page, request, bounds>>

EmitError ==
  /\ pc = "failed"
  /\ Put("error") /\ pc' = "finish"
  /\ UNCHANGED <<disk, events, awake, server, page, request, bounds>>

\* finish(): the flag is set before the event is put.
SetDone ==
  /\ pc = "finish"
  /\ done' = TRUE /\ pc' = "putDone"
  /\ UNCHANGED <<disk, queue, events, awake, known, server, page, request, bounds>>

PutDone ==
  /\ pc = "putDone"
  /\ Put("done") /\ pc' = "ended"
  /\ UNCHANGED <<disk, events, awake, server, page, request, bounds>>

RunStep ==
  \/ EmitStep \/ AgentEnds \/ RunFails \/ OpenFile \/ WriteFile
  \/ EmitReport \/ EmitError \/ SetDone \/ PutDone

\* progress_loop(): its wait() ran out during a model call.  What it emits may come late, even
\* after the done event.
WatchWakes ==
  /\ pc = "agent" /\ ~awake /\ events < MaxEvents
  /\ awake' = TRUE /\ events' = events + 1
  /\ UNCHANGED <<pc, disk, queue, done, known, server, page, request, bounds>>

WatchEmits ==
  /\ awake
  /\ awake' = FALSE /\ Put("step")
  /\ UNCHANGED <<pc, disk, events, server, page, request, bounds>>

-----------------------------------------------------------------------------
(* What the page does with the stream                                      *)

\* Mutation: a broken stream is left to the EventSource.
OnErrorReconnectsOnly == UNCHANGED polling

\* onerror: unless the run is over for the page, it starts to poll for the result.
OnError == polling' = (polling \/ ~(pageDone \/ reported))

\* The stream ends; the EventSource will reconnect.
StreamBreaks == stream' = "waiting" /\ reader' = NoHandler /\ OnError

\* An event arrives.  The server's "error" has the name of the EventSource's own and runs onerror
\* as well.  After "done" the page closes the stream and, when it has no report, fetches it once.
Receive(kind) ==
  /\ reported' = (reported \/ kind = "report")
  /\ pageDone' = (pageDone \/ kind = "done")
  /\ stream' = IF kind = "done" THEN "closed" ELSE stream
  /\ reader' = IF kind = "done" THEN NoHandler ELSE reader
  /\ recover' = (recover \/ (kind = "done" /\ ~reported))
  /\ IF kind = "error" THEN OnError ELSE UNCHANGED polling

Connect ==
  /\ stream = "waiting" /\ known
  /\ \E h \in Handlers : /\ handler[h] = "idle"
                         /\ handler' = [handler EXCEPT ![h] = "get"]
                         /\ reader' = h
  /\ stream' = "open"
  /\ UNCHANGED <<pc, disk, session, holding, pageDone, reported, polling, recover, request, bounds>>

\* "Unknown run": a response other than 200 is final for an EventSource.
ConnectRefused ==
  /\ stream = "waiting" /\ ~known
  /\ stream' = "gone" /\ OnError
  /\ UNCHANGED <<pc, disk, session, server, reader, pageDone, reported, recover, request, bounds>>

\* The connection breaks; the handler does not know yet.
Drop ==
  /\ stream = "open" /\ faults < MaxFaults
  /\ StreamBreaks /\ faults' = faults + 1
  /\ UNCHANGED <<pc, disk, session, server, pageDone, reported, recover, request, crashes>>

-----------------------------------------------------------------------------
(* serve_events(), one thread per connection                               *)

Take(h) ==
  /\ handler[h] = "get" /\ queue # <<>>
  /\ holding' = [holding EXCEPT ![h] = Head(queue)] /\ queue' = Tail(queue)
  /\ handler' = [handler EXCEPT ![h] = "write"]
  /\ UNCHANGED <<pc, disk, done, events, awake, known, page, request, bounds>>

\* get(timeout=12) finds nothing.
GetTimesOut(h) ==
  /\ handler[h] = "get" /\ queue = <<>>
  /\ handler' = [handler EXCEPT ![h] = "alive"]
  /\ UNCHANGED <<pc, disk, session, holding, page, request, bounds>>

\* Mutation: the thread waits for the done event, whoever took it.
KeepAliveForever(h) ==
  /\ handler[h] = "alive"
  /\ handler' = [handler EXCEPT ![h] = "get"]
  /\ UNCHANGED <<pc, disk, session, holding, page, request, bounds>>

\* A comment is written to keep the connection up; when the run is done, the thread ends.
KeepAlive(h) ==
  /\ handler[h] = "alive"
  /\ \/ /\ handler' = [handler EXCEPT ![h] = IF done THEN "idle" ELSE "get"]
        /\ IF done /\ reader = h
           THEN StreamBreaks /\ UNCHANGED <<pageDone, reported, recover>>
           ELSE UNCHANGED page
     \/ \* BrokenPipeError
        /\ reader # h
        /\ handler' = [handler EXCEPT ![h] = "idle"]
        /\ UNCHANGED page
  /\ UNCHANGED <<pc, disk, session, holding, request, bounds>>

\* The event goes to the page, or to a connection that is no more: then it is lost, and the
\* thread may notice or not.  The done event ends it.
Write(h) ==
  /\ handler[h] = "write"
  /\ handler' \in {[handler EXCEPT ![h] = s] :
                     s \in {IF holding[h] = "done" THEN "idle" ELSE "get"}
                           \cup {"idle" : x \in {reader} \ {h}}}
  /\ IF reader = h THEN Receive(holding[h]) ELSE UNCHANGED page
  /\ holding' = [holding EXCEPT ![h] = "none"]
  /\ UNCHANGED <<pc, disk, session, request, bounds>>

HandlerStep(h) == Take(h) \/ GetTimesOut(h) \/ KeepAlive(h) \/ Write(h)

-----------------------------------------------------------------------------
(* serve_result(), called by recoverResultFromDisk() and the polling       *)

AskResult ==
  /\ fetch = "idle" /\ (recover \/ (polling /\ ~reported))
  /\ fetch' = "check" /\ recover' = FALSE
  /\ UNCHANGED <<pc, disk, session, server, stream, reader, pageDone, reported, polling, served,
                 bounds>>

Answered(what) ==
  /\ fetch' = "idle" /\ served' = what
  /\ reported' = (reported \/ what \in {"full", "noGraph"})
  /\ UNCHANGED <<pc, disk, session, server, stream, reader, pageDone, polling, recover, bounds>>

Proceed(to) ==
  fetch' = to /\ UNCHANGED <<pc, disk, session, server, page, served, bounds>>

\* report_path.exists()
CheckReport ==
  /\ fetch = "check"
  /\ IF file["report"] = "absent" THEN Answered("notReady") ELSE Proceed("report")

\* Half a file is no JSON: the answer is an error and the page goes on polling.
ReadReport ==
  /\ fetch = "report"
  /\ IF file["report"] = "complete" THEN Proceed("graph") ELSE Answered("failed")

\* A graph that is missing or cannot be read is left out.
ReadGraph ==
  /\ fetch = "graph"
  /\ Answered(IF file["graph"] = "complete" THEN "full" ELSE "noGraph")

\* The request or its answer is lost.  Only the polling tries again.
FetchLost ==
  /\ fetch # "idle" /\ faults < MaxFaults
  /\ fetch' = "idle" /\ faults' = faults + 1
  /\ UNCHANGED <<pc, disk, session, server, page, served, crashes>>

Serve == CheckReport \/ ReadReport \/ ReadGraph

\* The server is stopped and started again: its threads and RUNS are gone, the files stay.
Crash ==
  /\ crashes < MaxCrashes
  /\ crashes' = crashes + 1
  /\ pc' = "killed" /\ known' = FALSE /\ awake' = FALSE /\ queue' = <<>>
  /\ handler' = [h \in Handlers |-> "idle"] /\ holding' = [h \in Handlers |-> "none"]
  /\ fetch' = "idle"
  /\ IF stream = "open" THEN StreamBreaks ELSE UNCHANGED <<stream, reader, polling>>
  /\ UNCHANGED <<disk, done, events, pageDone, reported, recover, served, faults>>

Next ==
  \/ RunStep \/ WatchWakes \/ WatchEmits
  \/ Connect \/ ConnectRefused \/ Drop
  \/ \E h \in Handlers : HandlerStep(h)
  \/ AskResult \/ Serve \/ FetchLost \/ Crash

Spec == Init /\ [][Next]_vars

\* Threads are scheduled, get() times out, the browser reconnects and its timers fire, requests
\* are served.  The agent ends: its turns are limited and so are the waits for the model.
FairSpec ==
  /\ Spec
  /\ WF_vars(RunStep) /\ WF_vars(AgentEnds \/ RunFails)
  /\ \A h \in Handlers : WF_vars(HandlerStep(h))
  /\ WF_vars(Connect \/ ConnectRefused) /\ WF_vars(AskResult) /\ WF_vars(Serve)

-----------------------------------------------------------------------------
(* Properties                                                              *)

\* A result that is served as ready is whole: while the files are being written the page gets
\* an error or "not ready", never a report without its graph.
ResultComplete == served # "noGraph"

\* "... so the user still gets the report when the run finishes" (app.js:399): once the result
\* is on disk the page gets it, although connections break, events are eaten by the handler of
\* a broken connection, requests are lost and the server is restarted.
ReportReachesPage == file["rest"] = "complete" ~> reported

\* Every handler thread comes to an end, also the one whose done event another one has taken.
ReadersEnd == \A h \in Handlers : handler[h] # "idle" ~> handler[h] = "idle"
=============================================================================
