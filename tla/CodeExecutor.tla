---------------------------- MODULE CodeExecutor ----------------------------
(***************************************************************************)
(* The persistent code sandbox of src/agents/core/code_executor.py: a      *)
(* parent object, the threads that call execute() and close() on it, the   *)
(* worker processes it spawns, and the pipe between them.                  *)
(*                                                                         *)
(* Threads interleave between any two accesses to the fields they share    *)
(* whose order matters.  _request_lock serialises execute(), but close()   *)
(* goes on without it once its one-second acquire has failed, so a field   *)
(* may change under a thread that holds the lock.                          *)
(*                                                                         *)
(* A thread that first executes and later closes is two threads here, one  *)
(* of Executors and one of Closers: a thread keeps no state between calls. *)
(***************************************************************************)
EXTENDS Naturals, Sequences

CONSTANTS Executors,   \* threads that call execute() (aexecute runs it in a thread)
          Closers,     \* threads that call close() (aclose, __del__)
          MaxCalls,    \* bound: calls of one thread
          MaxWorkers   \* bound: worker processes spawned in all

ASSUME ThreadsAssumption == Executors \cap Closers = {}
ASSUME BoundsAssumption  == MaxCalls \in Nat \ {0} /\ MaxWorkers \in Nat \ {0}

Callers == Executors \cup Closers
Workers == 1..MaxWorkers
None    == 0                \* Python's None in _process and _conn

VARIABLES
  timed,      \* execution_timeout_seconds is a positive number
  closed,     \* _closed
  broken,     \* _broken
  process,    \* _process: a worker or None
  conn,       \* _conn: the open parent end of that worker's pipe, or None
  holders,    \* who holds _request_lock
  snapshot,   \* the cached _variable_info, _graph_context, _graph, _submission_finished
  pc,         \* next statement of each thread
  phase,      \* which request _communicate serves for the thread
  cause,      \* why the thread is in _terminate_worker
  calls,      \* calls the thread has made
  got,        \* its local variable response
  result,     \* how its last call ended
  spawned,    \* number of processes started
  worker,     \* control state of each process
  sandbox,    \* executor_globals of each process
  inbox,      \* requests in the pipe of each process; the head stays while it is served
  outbox      \* responses in the pipe of each process

flags   == <<timed, closed, broken>>
handles == <<process, conn>>
parent  == <<flags, handles, holders, snapshot>>
pipes   == <<inbox, outbox>>
local   == <<phase, cause, calls, got, result>>
procs   == <<spawned, worker, sandbox, pipes>>
vars    == <<parent, pc, local, procs>>

-----------------------------------------------------------------------------
(* A snapshot is abstracted to the process it was built in, the number of    *)
(* blocks that process had finished (rev stands for the variables and the    *)
(* claim graph, which every block may change) and whether submit_answer()    *)
(* had been called (fin).  A request is known by its caller and call number. *)

Ids       == Callers \X Nat
Sandboxes == [rev : Nat, fin : BOOLEAN]
Snapshots == [from : Workers \cup {None}, rev : Nat, fin : BOOLEAN]
Requests  == [op : {"snapshot", "execute", "close"}, id : Ids]
Responses == [id : Ids, snap : Snapshots]

EmptySnapshot == [from |-> None, rev |-> 0, fin |-> FALSE]
NoResponse    == [id |-> <<>>, snap |-> EmptySnapshot]

Locations == {"idle", "acquire", "locked", "spawn", "assign", "check", "alive", "send", "wait",
              "polled", "term1", "term2", "term3", "term4", "termDone", "update",
              "closeMark", "closeLock", "closeTest", "closeSend"}

Causes  == {"none", "timeout", "error", "failed", "close", "forced"}
Results == {"none", "pending", "ok", "closed", "unavailable", "timeout", "stopped", "failed",
            "raised", "closeDone", "closeNoop", "closeRaised"}

TypeOK ==
  /\ timed \in BOOLEAN /\ closed \in BOOLEAN /\ broken \in BOOLEAN
  /\ process \in Workers \cup {None} /\ conn \in Workers \cup {None}
  /\ holders \in SUBSET Callers
  /\ snapshot \in Snapshots
  /\ pc \in [Callers -> Locations]
  /\ phase \in [Callers -> {"snapshot", "execute"}]
  /\ cause \in [Callers -> Causes]
  /\ calls \in [Callers -> Nat]
  /\ got \in [Callers -> Responses \cup {NoResponse}]
  /\ result \in [Callers -> Results]
  /\ spawned \in 0..MaxWorkers
  /\ worker \in [Workers -> {"unborn", "init", "recv", "exec", "dead"}]
  /\ sandbox \in [Workers -> Sandboxes]
  /\ inbox \in [Workers -> Seq(Requests)]
  /\ outbox \in [Workers -> Seq(Responses)]

Alive(w) == worker[w] \in {"init", "recv", "exec"}

\* The parent end of w's pipe is open: in _conn, or in the local variable of _start_worker.
ParentEnd(w) == conn = w \/ (w = spawned /\ \E c \in Executors : pc[c] = "assign")

Init ==
  /\ timed \in BOOLEAN /\ closed = FALSE /\ broken = FALSE
  /\ process = None /\ conn = None /\ holders = {} /\ snapshot = EmptySnapshot
  /\ pc = [c \in Callers |-> "idle"]
  /\ phase = [c \in Callers |-> "execute"] /\ cause = [c \in Callers |-> "none"]
  /\ calls = [c \in Callers |-> 0] /\ got = [c \in Callers |-> NoResponse]
  /\ result = [c \in Callers |-> "none"]
  /\ spawned = 0
  /\ worker = [w \in Workers |-> "unborn"]
  /\ sandbox = [w \in Workers |-> [rev |-> 0, fin |-> FALSE]]
  /\ inbox = [w \in Workers |-> <<>>] /\ outbox = [w \in Workers |-> <<>>]

-----------------------------------------------------------------------------
(* What several steps of a thread share.                                   *)

Goto(c, l) == pc' = [pc EXCEPT ![c] = l]

Return(c, r) ==
  /\ Goto(c, "idle")
  /\ result' = [result EXCEPT ![c] = r]
  /\ UNCHANGED <<phase, cause, calls, got>>

\* Return out of the block that holds _request_lock.
ReleaseAndReturn(c, r) ==
  /\ holders' = holders \ {c}
  /\ Return(c, r)
  /\ UNCHANGED <<flags, handles, snapshot, procs>>

\* _communicate returned None: a startup goes on to the code, a code request ends the call.
NoAnswer(c) ==
  \/ /\ phase[c] = "snapshot"
     /\ phase' = [phase EXCEPT ![c] = "execute"]
     /\ Goto(c, "check")
     /\ UNCHANGED <<parent, cause, calls, got, result, procs>>
  \/ phase[c] = "execute" /\ ReleaseAndReturn(c, "stopped")

Terminate(c, why) ==
  /\ Goto(c, "term1")
  /\ cause' = [cause EXCEPT ![c] = why]
  /\ UNCHANGED <<phase, calls, got, result>>

\* Mutation: the worker is terminated but the executor is not marked broken.
MarkBrokenForgetsFlag(c, why) == Terminate(c, why) /\ UNCHANGED <<parent, procs>>

\* An except clause that calls _mark_broken: the flag is set, then _terminate_worker runs.
MarkBroken(c, why) ==
  /\ broken' = TRUE
  /\ Terminate(c, why)
  /\ UNCHANGED <<timed, closed, handles, holders, snapshot, procs>>

-----------------------------------------------------------------------------
(* execute()                                                               *)

\* The call tests the flags before it takes the lock.
Call(c) ==
  /\ c \in Executors /\ pc[c] = "idle" /\ calls[c] < MaxCalls
  /\ LET r == IF closed THEN "closed" ELSE IF broken THEN "unavailable" ELSE "pending" IN
     /\ result' = [result EXCEPT ![c] = r]
     /\ Goto(c, IF r = "pending" THEN "acquire" ELSE "idle")
  /\ calls' = [calls EXCEPT ![c] = @ + 1]
  /\ got' = [got EXCEPT ![c] = NoResponse]
  /\ UNCHANGED <<parent, phase, cause, procs>>

Acquire(c) ==
  /\ pc[c] = "acquire" /\ holders = {}
  /\ holders' = {c}
  /\ Goto(c, "locked")
  /\ UNCHANGED <<flags, handles, snapshot, local, procs>>

\* "if self._process is None": neither _closed nor _broken is tested again.
Locked(c) ==
  /\ pc[c] = "locked"
  /\ Goto(c, IF process = None THEN "spawn" ELSE "check")
  /\ phase' = [phase EXCEPT ![c] = IF process = None THEN "snapshot" ELSE "execute"]
  /\ UNCHANGED <<parent, cause, calls, got, result, procs>>

\* process.start(): the process and its pipe are in local variables of _start_worker only.
Spawn(c) ==
  /\ pc[c] = "spawn" /\ spawned < MaxWorkers
  /\ spawned' = spawned + 1
  /\ worker' = [worker EXCEPT ![spawned + 1] = "init"]
  /\ Goto(c, "assign")
  /\ UNCHANGED <<parent, local, sandbox, pipes>>

\* process.start() or ctx.Pipe() raises.
SpawnFails(c) == pc[c] = "spawn" /\ MarkBroken(c, "failed")

Assign(c) ==
  /\ pc[c] = "assign"
  /\ process' = spawned /\ conn' = spawned
  /\ Goto(c, "check")
  /\ UNCHANGED <<flags, holders, snapshot, local, procs>>

\* Mutation: the whole response is cached in place of the snapshot in it.
UpdateWithResponse(c) ==
  /\ pc[c] = "update"
  /\ snapshot' = got[c]
  /\ Return(c, "ok")
  /\ UNCHANGED <<flags, handles, holders, procs>>

\* _update_snapshot and the return, after the lock was released.
Update(c) ==
  /\ pc[c] = "update"
  /\ snapshot' = got[c].snap
  /\ Return(c, "ok")
  /\ UNCHANGED <<flags, handles, holders, procs>>

-----------------------------------------------------------------------------
(* _communicate() and _recv_response()                                     *)

Connected == Alive(process) /\ conn # None

CheckThat(c, available) ==
  /\ pc[c] = "check"
  /\ IF available THEN Goto(c, "alive") /\ UNCHANGED <<parent, local, procs>> ELSE NoAnswer(c)

\* Mutation: _ensure_available does not look at _broken.
CheckNotBroken(c) == CheckThat(c, ~closed /\ process # None)

\* _ensure_available: the flags, then whether there is a process ...
Check(c) == CheckThat(c, ~closed /\ ~broken /\ process # None)

\* An AttributeError of _ensure_available: it is outside the try of _communicate.  A startup catches
\* it and marks the executor broken, otherwise execute() raises.
ExecuteRaises(c) ==
  \/ phase[c] = "snapshot" /\ MarkBroken(c, "failed")
  \/ phase[c] = "execute" /\ ReleaseAndReturn(c, "raised")

\* ... and whether it lives, for which _process is read a second time.
CheckAlive(c) ==
  /\ pc[c] = "alive"
  /\ IF process = None THEN ExecuteRaises(c)
     ELSE IF Connected THEN Goto(c, "send") /\ UNCHANGED <<parent, local, procs>>
     ELSE NoAnswer(c)

ConnUp == conn # None /\ Alive(conn)

\* conn.send(request).  It raises when close() took _conn away or the worker is gone.
Send(c) ==
  /\ pc[c] = "send"
  /\ \/ /\ ConnUp
        /\ inbox' = [inbox EXCEPT ![conn] = Append(@, [op |-> phase[c],
                                                       id |-> <<c, calls[c]>>])]
        /\ Goto(c, "wait")
        /\ UNCHANGED <<parent, local, spawned, worker, sandbox, outbox>>
     \/ ~ConnUp /\ MarkBroken(c, "error")

Waiting(c) == pc[c] \in {"wait", "polled"}

\* poll() finds a response and recv() reads it.  The startup response updates the cache under
\* the lock; the response to the code is taken out of the lock and cached by Update.
Receive(c) ==
  /\ Waiting(c) /\ conn # None /\ outbox[conn] # <<>>
  /\ outbox' = [outbox EXCEPT ![conn] = Tail(@)]
  /\ got' = [got EXCEPT ![c] = Head(outbox[conn])]
  /\ \/ /\ phase[c] = "snapshot"
        /\ snapshot' = Head(outbox[conn]).snap
        /\ phase' = [phase EXCEPT ![c] = "execute"]
        /\ Goto(c, "check")
        /\ UNCHANGED holders
     \/ /\ phase[c] = "execute"
        /\ holders' = holders \ {c}
        /\ Goto(c, "update")
        /\ UNCHANGED <<snapshot, phase>>
  /\ UNCHANGED <<flags, handles, cause, calls, result, spawned, worker, sandbox, inbox>>

\* A slice of poll() runs out with nothing to read; is_alive() is looked at next.
PollEmpty(c) ==
  /\ pc[c] = "wait" /\ conn # None /\ outbox[conn] = <<>> /\ Alive(conn)
  /\ Goto(c, "polled")
  /\ UNCHANGED <<parent, local, procs>>

\* None is returned and nothing is marked broken: is_alive() is False after an empty poll, or
\* the entry test finds that close() took the handles away.
GiveUp(c) ==
  /\ \/ pc[c] = "polled" /\ process # None /\ ~Alive(process)
     \/ pc[c] = "wait" /\ (conn = None \/ process = None)
  /\ NoAnswer(c)

\* recv() meets the end of the pipe, or a handle became None inside the loop.
SeeGone(c) ==
  /\ Waiting(c)
  /\ process = None \/ conn = None \/ (conn # None /\ outbox[conn] = <<>> /\ ~Alive(conn))
  /\ MarkBroken(c, "error")

Late(c) == Waiting(c) /\ (timed \/ phase[c] = "snapshot")

\* Mutation: a timeout returns its error and leaves the worker and the flag as they are.
TimeoutKeepsWorker(c) == Late(c) /\ ReleaseAndReturn(c, "timeout")

\* The deadline is looked at before the pipe, so it may win over a response that is there.
\* The startup always has a deadline, the code only when one is configured.
Timeout(c) == Late(c) /\ MarkBroken(c, "timeout")

-----------------------------------------------------------------------------
(* _terminate_worker(), reached from _mark_broken and from close()         *)

TermConn(c) ==
  /\ pc[c] = "term1"
  /\ conn' = None
  /\ Goto(c, "term2")
  /\ UNCHANGED <<flags, process, holders, snapshot, local, procs>>

TermTest(c) ==
  /\ pc[c] = "term2"
  /\ Goto(c, IF process = None THEN "termDone" ELSE "term3")
  /\ UNCHANGED <<parent, local, procs>>

\* Mutation: a process that outlives terminate() is not killed.
TermKillSkipped(c) ==
  /\ pc[c] = "term3" /\ process # None
  /\ Goto(c, "term4")
  /\ UNCHANGED <<parent, local, procs>>

\* is_alive(), terminate(), join(), kill(): the process is dead afterwards.
TermKill(c) ==
  /\ pc[c] = "term3" /\ process # None
  /\ worker' = [worker EXCEPT ![process] = "dead"]
  /\ Goto(c, "term4")
  /\ UNCHANGED <<parent, local, spawned, sandbox, pipes>>

\* _process became None between two uses of it: AttributeError.  In the startup execute()
\* catches it and calls _mark_broken once more, otherwise the call raises.
TermRaises(c) ==
  /\ pc[c] \in {"term3", "term4"} /\ process = None
  /\ LET why == cause[c] IN
     \/ /\ why \in {"timeout", "error"} /\ phase[c] = "snapshot"
        /\ MarkBroken(c, "failed")
     \/ /\ why = "failed" \/ (why \in {"timeout", "error"} /\ phase[c] = "execute")
        /\ ReleaseAndReturn(c, "raised")
     \/ /\ why \in {"close", "forced"}
        /\ ReleaseAndReturn(c, "closeRaised")

TermForget(c) ==
  /\ pc[c] = "term4"
  /\ process' = None
  /\ Goto(c, "termDone")
  /\ UNCHANGED <<flags, conn, holders, snapshot, local, procs>>

\* Mutation: the lock is not given back after a timeout.
TermReturnKeepsLock(c) ==
  /\ pc[c] = "termDone"
  /\ LET why == cause[c] IN
     IF why = "error" THEN NoAnswer(c)
     ELSE IF why = "timeout" THEN Return(c, why) /\ UNCHANGED <<parent, procs>>
     ELSE ReleaseAndReturn(c, IF why \in {"close", "forced"} THEN "closeDone" ELSE why)

\* _terminate_worker returns to whoever called it.
TermReturn(c) ==
  /\ pc[c] = "termDone"
  /\ LET why == cause[c] IN
     IF why = "error" THEN NoAnswer(c)
     ELSE ReleaseAndReturn(c, IF why \in {"close", "forced"} THEN "closeDone" ELSE why)

-----------------------------------------------------------------------------
(* close()                                                                 *)

CloseCall(c) ==
  /\ c \in Closers /\ pc[c] = "idle" /\ calls[c] < MaxCalls
  /\ Goto(c, IF closed THEN "idle" ELSE "closeMark")
  /\ calls' = [calls EXCEPT ![c] = @ + 1]
  /\ result' = [result EXCEPT ![c] = IF closed THEN "closeNoop" ELSE "pending"]
  /\ UNCHANGED <<parent, phase, cause, got, procs>>

CloseMark(c) ==
  /\ pc[c] = "closeMark"
  /\ closed' = TRUE
  /\ Goto(c, "closeLock")
  /\ UNCHANGED <<timed, broken, handles, holders, snapshot, local, procs>>

\* Mutation: the value of acquire(timeout=1.0) is not looked at.
CloseAcquireUnchecked(c) ==
  /\ pc[c] = "closeLock"
  /\ holders' = holders \cup {c}
  /\ Goto(c, "closeTest")
  /\ UNCHANGED <<flags, handles, snapshot, local, procs>>

CloseAcquire(c) ==
  /\ pc[c] = "closeLock" /\ holders = {}
  /\ holders' = {c}
  /\ Goto(c, "closeTest")
  /\ UNCHANGED <<flags, handles, snapshot, local, procs>>

\* Mutations: acquire() has no timeout; close() gives up when it does not get the lock.
CloseForcedNever(c) == pc[c] = "closeLock" /\ holders # {} /\ UNCHANGED vars
CloseForcedGivesUp(c) ==
  pc[c] = "closeLock" /\ holders # {} /\ Return(c, "closeDone") /\ UNCHANGED <<parent, procs>>

\* acquire(timeout=1.0) failed: the worker is terminated without the lock.
CloseForced(c) ==
  pc[c] = "closeLock" /\ holders # {} /\ Terminate(c, "forced") /\ UNCHANGED <<parent, procs>>

\* There is somebody to send the polite request to.
CloseTest(c) ==
  /\ pc[c] = "closeTest"
  /\ IF conn # None /\ process # None
     THEN Goto(c, "closeSend") /\ UNCHANGED <<parent, local, procs>>
     ELSE Terminate(c, "close") /\ UNCHANGED <<parent, procs>>

\* The polite request; an exception of send() is swallowed, but not that of is_alive() on a _process
\* that became None.
CloseSend(c) ==
  /\ pc[c] = "closeSend"
  /\ \/ process = None /\ ReleaseAndReturn(c, "closeRaised")
     \/ /\ process # None
        /\ inbox' = IF Connected
                    THEN [inbox EXCEPT ![conn] = Append(@, [op |-> "close",
                                                            id |-> <<c, calls[c]>>])]
                    ELSE inbox
        /\ Terminate(c, "close")
        /\ UNCHANGED <<parent, spawned, worker, sandbox, outbox>>

-----------------------------------------------------------------------------
(* _code_executor_worker(), the loop of one process                        *)

Become(w, s) == worker' = [worker EXCEPT ![w] = s]

\* The init code has run (_execute_code swallows its exceptions).
WorkerReady(w) == worker[w] = "init" /\ Become(w, "recv") /\ UNCHANGED <<sandbox, pipes>>

\* conn.send() of a response with the snapshot of the sandbox g.
Respond(w, g) ==
  /\ inbox' = [inbox EXCEPT ![w] = Tail(@)]
  /\ outbox' = [outbox EXCEPT ![w] = Append(@,
       [id |-> Head(inbox[w]).id, snap |-> [from |-> w, rev |-> g.rev, fin |-> g.fin]])]

\* The loop reads a request: close ends it, a snapshot is answered at once unless nobody can
\* read it any more (send raises and the process ends), code is started.
WorkerTake(w) ==
  /\ worker[w] = "recv" /\ inbox[w] # <<>>
  /\ LET op == Head(inbox[w]).op IN
     \/ op = "snapshot" /\ ParentEnd(w) /\ Respond(w, sandbox[w]) /\ UNCHANGED worker
     \/ /\ op = "close" \/ (op = "snapshot" /\ ~ParentEnd(w))
        /\ Become(w, "dead") /\ UNCHANGED pipes
     \/ op = "execute" /\ Become(w, "exec") /\ UNCHANGED pipes
  /\ UNCHANGED sandbox

\* What a block leaves behind: it may have submitted the answer.
AfterBlock(g) == {[rev |-> g.rev + 1, fin |-> fin] : fin \in {g.fin, TRUE}}

\* Mutation: the block runs in a copy of the globals, the snapshot shows the copy.
WorkerFinishInCopy(w) ==
  /\ worker[w] = "exec" /\ ParentEnd(w)
  /\ Become(w, "recv")
  /\ \E g \in AfterBlock(sandbox[w]) : Respond(w, g)
  /\ UNCHANGED sandbox

\* _execute_code returns, normally or with an error result: in both cases the block may have
\* changed the sandbox.  The response carries the new snapshot.
WorkerFinish(w) ==
  /\ worker[w] = "exec"
  /\ \E g \in AfterBlock(sandbox[w]) :
       /\ sandbox' = [sandbox EXCEPT ![w] = g]
       /\ \/ ParentEnd(w) /\ Become(w, "recv") /\ Respond(w, g)
          \/ ~ParentEnd(w) /\ Become(w, "dead") /\ UNCHANGED pipes

\* recv() raises EOFError: the parent end was closed.
WorkerEof(w) ==
  /\ worker[w] = "recv" /\ inbox[w] = <<>> /\ ~ParentEnd(w)
  /\ Become(w, "dead")
  /\ UNCHANGED <<sandbox, pipes>>

\* SystemExit or another BaseException of the block, an out-of-memory kill, a failing snapshot.
WorkerDies(w) == Alive(w) /\ Become(w, "dead") /\ UNCHANGED <<sandbox, pipes>>

-----------------------------------------------------------------------------
ExecuteStep(c) ==
  \/ Acquire(c) \/ Locked(c) \/ Spawn(c) \/ SpawnFails(c) \/ Assign(c) \/ Update(c)
  \/ Check(c) \/ CheckAlive(c) \/ Send(c) \/ Receive(c) \/ PollEmpty(c) \/ GiveUp(c) \/ SeeGone(c)
  \/ Timeout(c)

TerminateStep(c) ==
  TermConn(c) \/ TermTest(c) \/ TermKill(c) \/ TermRaises(c) \/ TermForget(c) \/ TermReturn(c)

CloseStep(c) ==
  CloseMark(c) \/ CloseAcquire(c) \/ CloseForced(c) \/ CloseTest(c) \/ CloseSend(c)

Step(c) == ExecuteStep(c) \/ TerminateStep(c) \/ CloseStep(c)

WorkerStep(w) ==
  /\ WorkerReady(w) \/ WorkerTake(w) \/ WorkerFinish(w) \/ WorkerEof(w) \/ WorkerDies(w)
  /\ UNCHANGED <<parent, pc, local, spawned>>

Next == \/ \E c \in Callers : Call(c) \/ CloseCall(c) \/ Step(c)
        \/ \E w \in Workers : WorkerStep(w)

Spec == Init /\ [][Next]_vars

\* A thread that has been called keeps running.  Nothing is assumed of the workers: a block
\* may loop for ever, a process may never come up.
FairSpec == Spec /\ \A c \in Callers : WF_vars(Step(c))

-----------------------------------------------------------------------------
(* Properties                                                              *)

\* The response a call works with answers the request of that very call: the answer to a
\* request that timed out, or to another thread, is never taken for it.
ResponseIsMine ==
  \A c \in Executors : got[c] # NoResponse => got[c].id = <<c, calls[c]>>

\* All the answers an executor ever gives come from its first worker: the variables and claims
\* of earlier blocks never vanish behind a fresh worker that answers as if nothing had been.
OneSandbox == \A c \in Executors : got[c].snap.from \in {None, 1}

\* What the agent reads between two blocks (variables, claims, is_submission_finished) is a
\* state its sandbox has been in: the cache is never ahead of the worker it was built in.
SnapshotSound ==
  snapshot.from # None =>
    /\ snapshot.rev <= sandbox[snapshot.from].rev
    /\ snapshot.fin => sandbox[snapshot.from].fin

\* A worker has code to run: it runs a block, or will read one from its pipe.
HasCode(w) == Alive(w) /\ \E i \in 1..Len(inbox[w]) : inbox[w][i].op = "execute"

\* Once a close() has run to its end no block runs and none will, also when close() did not
\* get the lock and whatever the other threads were doing.
CloseStopsCode ==
  (\E k \in Closers : result[k] = "closeDone") => \A w \in Workers : ~HasCode(w)

\* Until close() is called every live worker is the one in _process, or is about to be:
\* neither a timeout nor a crash leaves a worker that nothing can terminate.
NoOrphanBeforeClose ==
  ~closed => \A w \in Workers : Alive(w) =>
                process = w \/ (w = spawned /\ \E c \in Executors : pc[c] = "assign")

\* execute() and close() raise (AttributeError on a _process that became None) only when some
\* close() went on without the lock.
RaisesOnlyWhenForced ==
  (\E c \in Callers : result[c] \in {"raised", "closeRaised"}) =>
    \E k \in Closers : cause[k] = "forced"

\* No call receives an answer once the executor is marked broken, not even a call that had
\* passed the test of _broken and was waiting for the lock.
BrokenIsFinal ==
  [][broken => \A c \in Executors : got'[c] \in {got[c], NoResponse}]_vars

\* With one executing thread the executor is what Sandbox says, whatever happens to its worker
\* processes: code changes one sandbox only, and only while a call is open or none can be opened
\* any more; an answer shows the sandbox as it is; a call that comes back without one leaves the
\* executor broken or closed, or its process dead, so that nobody goes on from a state that was
\* not shown; and after a finished close() no code runs, also when two of them race.
CloseEnded == \E k \in Closers : pc[k] = "idle" /\ cause[k] # "none"

SB == INSTANCE Sandbox WITH
  First     <- [rev |-> 0, fin |-> FALSE],
  Change    <- LAMBDA before, after : after \in AfterBlock(before),
  content   <- sandbox[1],
  shown     <- [rev |-> snapshot.rev, fin |-> snapshot.fin],
  pending   <- \E c \in Executors : pc[c] # "idle",
  accepting <- ~broken /\ ~closed,
  running   <- worker[1] # "dead" /\ ~CloseEnded

ImplementsSandbox == SB!Spec

\* close() always comes back, also while a block without a time limit holds the lock for ever
\* ("We must be able to close without deadlocking the main pipeline").
CloseReturns == \A k \in Closers : pc[k] # "idle" ~> pc[k] = "idle"

\* close() frees every thread that is stuck in execute() with no time limit.
CloseUnblocks == \A c \in Executors : closed ~> pc[c] = "idle"

\* With a time limit every execute() comes back, whatever the block does.
ExecuteReturns == \A c \in Executors : (timed /\ pc[c] # "idle") ~> pc[c] = "idle"

\* "CodeExecutor is unavailable because the worker process has stopped." (code_executor.py:367):
\* when a call has been refused with this message and no other call is under way, no worker
\* is alive.
UnavailableMeansStopped ==
  /\ \E c \in Executors : result[c] = "unavailable"
  /\ \A c \in Callers : pc[c] = "idle"
  => \A w \in Workers : ~Alive(w)
=============================================================================
