------------------------- MODULE CodeExecutorProofs -------------------------
(* Theorems about CodeExecutor for any number of threads, calls and workers. *)
EXTENDS CodeExecutor, TLAPS

-----------------------------------------------------------------------------
(* Type correctness                                                        *)

LEMMA ReleaseType ==
  ASSUME TypeOK, NEW c \in Callers, NEW r \in Results, ReleaseAndReturn(c, r)
  PROVE  TypeOK'
  BY DEF TypeOK, ReleaseAndReturn, Return, Goto, Locations, flags, handles, procs, pipes

LEMMA NoAnswerType ==
  ASSUME TypeOK, NEW c \in Callers, NoAnswer(c)
  PROVE  TypeOK'
  <1>1. "stopped" \in Results
    BY DEF Results
  <1>2. CASE phase[c] = "execute" /\ ReleaseAndReturn(c, "stopped")
    BY <1>1, <1>2, ReleaseType
  <1>3. CASE ~(phase[c] = "execute" /\ ReleaseAndReturn(c, "stopped"))
    BY <1>3 DEF NoAnswer, TypeOK, Goto, Locations, parent, flags, handles, procs, pipes
  <1> QED
    BY <1>2, <1>3

LEMMA MarkBrokenType ==
  ASSUME TypeOK, NEW c \in Callers, NEW why \in {"timeout", "error", "failed"},
         MarkBroken(c, why)
  PROVE  TypeOK'
  BY DEF TypeOK, MarkBroken, Terminate, Goto, Locations, Causes, handles, procs, pipes

\* A snapshot in a response is a snapshot.
LEMMA ResponseType ==
  ASSUME NEW r \in Responses \cup {NoResponse}
  PROVE  r.snap \in Snapshots
  <1>1. EmptySnapshot \in Snapshots
    BY DEF EmptySnapshot, Snapshots, None
  <1>2. CASE r \in Responses
    BY <1>2 DEF Responses
  <1>3. CASE r = NoResponse
    BY <1>1, <1>3 DEF NoResponse
  <1> QED
    BY <1>2, <1>3

\* Every step of a thread preserves the type invariant.
LEMMA ExecuteType ==
  ASSUME TypeOK, NEW c \in Callers, Call(c) \/ ExecuteStep(c)
  PROVE  TypeOK'
  <1> USE DEF flags, handles, parent, local, pipes, procs, Goto, Locations
  <1>1. CASE Call(c)
    BY <1>1 DEF TypeOK, Call, Results
  <1>2. CASE Acquire(c)
    BY <1>2 DEF TypeOK, Acquire
  <1>3. CASE Locked(c)
    BY <1>3 DEF TypeOK, Locked
  <1>4. CASE Spawn(c)
    <2>1. spawned + 1 \in Workers /\ spawned' \in 0..MaxWorkers
      BY <1>4, BoundsAssumption DEF TypeOK, Spawn, Workers
    <2> QED
      BY <1>4, <2>1 DEF TypeOK, Spawn
  <1>5. CASE SpawnFails(c)
    BY <1>5, MarkBrokenType DEF SpawnFails
  <1>6. CASE Assign(c)
    BY <1>6, BoundsAssumption DEF TypeOK, Assign, Workers, None
  <1>7. CASE Update(c)
    <2>1. got[c].snap \in Snapshots
      BY ResponseType DEF TypeOK
    <2> QED
      BY <1>7, <2>1 DEF TypeOK, Update, Return, Results
  <1>8. CASE Check(c)
    BY <1>8, NoAnswerType DEF TypeOK, Check, CheckThat
  <1>9. CASE Send(c)
    <2>1. CASE ConnUp
      <3>1. conn \in Workers /\ <<c, calls[c]>> \in Ids
        BY <2>1 DEF TypeOK, ConnUp, Ids
      <3>2. [op |-> phase[c], id |-> <<c, calls[c]>>] \in Requests
        BY <3>1 DEF TypeOK, Requests
      <3>3. Append(inbox[conn], [op |-> phase[c], id |-> <<c, calls[c]>>]) \in Seq(Requests)
        BY <3>1, <3>2 DEF TypeOK
      <3>4. inbox' \in [Workers -> Seq(Requests)]
        BY <1>9, <2>1, <3>1, <3>3 DEF TypeOK, Send
      <3> QED
        BY <1>9, <2>1, <3>4 DEF TypeOK, Send
    <2>2. CASE ~ConnUp
      BY <1>9, <2>2, MarkBrokenType DEF Send
    <2> QED
      BY <2>1, <2>2
  <1>10. CASE Receive(c)
    <2>1. conn \in Workers
      BY <1>10 DEF TypeOK, Receive
    <2>2. Head(outbox[conn]) \in Responses /\ Tail(outbox[conn]) \in Seq(Responses)
      BY <1>10, <2>1 DEF TypeOK, Receive
    <2>3. Head(outbox[conn]).snap \in Snapshots
      BY <2>2, ResponseType
    <2> QED
      BY <1>10, <2>1, <2>2, <2>3 DEF TypeOK, Receive
  <1>11. CASE PollEmpty(c)
    BY <1>11 DEF TypeOK, PollEmpty
  <1>12. CASE GiveUp(c)
    BY <1>12, NoAnswerType DEF GiveUp
  <1>13. CASE SeeGone(c)
    BY <1>13, MarkBrokenType DEF SeeGone
  <1>14. CASE Timeout(c)
    BY <1>14, MarkBrokenType DEF Timeout
  <1>15. CASE CheckAlive(c)
    <2>1. CASE ExecuteRaises(c)
      BY <2>1, MarkBrokenType, ReleaseType DEF ExecuteRaises, Results
    <2>2. CASE ~ExecuteRaises(c)
      BY <1>15, <2>2, NoAnswerType DEF TypeOK, CheckAlive
    <2> QED
      BY <2>1, <2>2
  <1> QED
    BY <1>1, <1>2, <1>3, <1>4, <1>5, <1>6, <1>7, <1>8, <1>9, <1>10, <1>11, <1>12, <1>13, <1>14,
       <1>15
    DEF ExecuteStep

LEMMA TerminateType ==
  ASSUME TypeOK, NEW c \in Callers, TerminateStep(c)
  PROVE  TypeOK'
  <1> USE DEF flags, handles, parent, local, pipes, procs, Goto, Locations
  <1>1. CASE TermConn(c)
    BY <1>1 DEF TypeOK, TermConn
  <1>2. CASE TermTest(c)
    BY <1>2 DEF TypeOK, TermTest
  <1>3. CASE TermKill(c)
    BY <1>3 DEF TypeOK, TermKill
  <1>4. CASE TermRaises(c)
    BY <1>4, MarkBrokenType, ReleaseType DEF TermRaises, Results
  <1>5. CASE TermForget(c)
    BY <1>5 DEF TypeOK, TermForget
  <1>6. CASE TermReturn(c)
    <2>1. cause[c] \in Causes
      BY DEF TypeOK
    <2>2. CASE cause[c] = "error"
      BY <1>6, <2>2, NoAnswerType DEF TermReturn
    <2>3. CASE cause[c] # "error"
      <3> DEFINE r == IF cause[c] \in {"close", "forced"} THEN "closeDone" ELSE cause[c]
      <3>1. r \in Results
        BY <2>1, <2>3 DEF Causes, Results
      <3>2. ReleaseAndReturn(c, r)
        BY <1>6, <2>3 DEF TermReturn
      <3> QED
        BY <3>1, <3>2, ReleaseType
    <2> QED
      BY <2>2, <2>3
  <1> QED
    BY <1>1, <1>2, <1>3, <1>4, <1>5, <1>6 DEF TerminateStep

LEMMA CloseType ==
  ASSUME TypeOK, NEW c \in Callers, CloseCall(c) \/ CloseStep(c)
  PROVE  TypeOK'
  <1> USE DEF flags, handles, parent, local, pipes, procs, Goto, Locations
  <1>1. CASE CloseCall(c)
    BY <1>1 DEF TypeOK, CloseCall, Results
  <1>2. CASE CloseMark(c)
    BY <1>2 DEF TypeOK, CloseMark
  <1>3. CASE CloseAcquire(c)
    BY <1>3 DEF TypeOK, CloseAcquire
  <1>4. CASE CloseForced(c)
    BY <1>4 DEF TypeOK, CloseForced, Terminate, Causes
  <1>5. CASE CloseSend(c)
    <2>1. <<c, calls[c]>> \in Ids
      BY DEF TypeOK, Ids
    <2>2. [op |-> "close", id |-> <<c, calls[c]>>] \in Requests
      BY <2>1 DEF Requests
    <2>3. ASSUME Connected, process # None
          PROVE  Append(inbox[conn], [op |-> "close", id |-> <<c, calls[c]>>]) \in Seq(Requests)
      BY <2>2, <2>3 DEF TypeOK, Connected
    <2>4. CASE process = None
      BY <1>5, <2>4, ReleaseType DEF CloseSend, Results
    <2>5. CASE process # None
      <3>1. inbox' \in [Workers -> Seq(Requests)]
        BY <1>5, <2>3, <2>5 DEF TypeOK, CloseSend
      <3> QED
        BY <1>5, <2>5, <3>1 DEF TypeOK, CloseSend, Terminate, Causes
    <2> QED
      BY <2>4, <2>5
  <1>6. CASE CloseTest(c)
    BY <1>6 DEF TypeOK, CloseTest, Terminate, Causes
  <1> QED
    BY <1>1, <1>2, <1>3, <1>4, <1>5, <1>6 DEF CloseStep

LEMMA WorkerType ==
  ASSUME TypeOK, NEW w \in Workers, WorkerStep(w), inbox[w] = <<>> => worker[w] # "exec"
  PROVE  TypeOK'
  <1> USE DEF flags, handles, parent, local, pipes, Become
  <1>1. ASSUME NEW g \in Sandboxes, inbox[w] # <<>>, Respond(w, g)
        PROVE  /\ inbox' \in [Workers -> Seq(Requests)]
               /\ outbox' \in [Workers -> Seq(Responses)]
    <2>1. Head(inbox[w]) \in Requests /\ Tail(inbox[w]) \in Seq(Requests)
      BY <1>1 DEF TypeOK
    <2>2. [id |-> Head(inbox[w]).id, snap |-> [from |-> w, rev |-> g.rev, fin |-> g.fin]]
            \in Responses
      BY <1>1, <2>1 DEF Requests, Responses, Snapshots, Sandboxes
    <2>3. Append(outbox[w], [id |-> Head(inbox[w]).id,
                             snap |-> [from |-> w, rev |-> g.rev, fin |-> g.fin]])
            \in Seq(Responses)
      BY <2>2 DEF TypeOK
    <2> QED
      BY <1>1, <2>1, <2>3 DEF TypeOK, Respond
  <1>2. CASE WorkerReady(w)
    BY <1>2 DEF TypeOK, WorkerStep, WorkerReady
  <1>3. CASE WorkerTake(w)
    <2>1. sandbox[w] \in Sandboxes
      BY DEF TypeOK
    <2> QED
      BY <1>1, <1>3, <2>1 DEF TypeOK, WorkerStep, WorkerTake
  <1>4. CASE WorkerFinish(w)
    <2>1. PICK g \in AfterBlock(sandbox[w]) :
            /\ sandbox' = [sandbox EXCEPT ![w] = g]
            /\ \/ ParentEnd(w) /\ Become(w, "recv") /\ Respond(w, g)
               \/ ~ParentEnd(w) /\ Become(w, "dead") /\ UNCHANGED pipes
      BY <1>4 DEF WorkerFinish
    <2>2. g \in Sandboxes
      <3>1. PICK fin \in {sandbox[w].fin, TRUE} : g = [rev |-> sandbox[w].rev + 1, fin |-> fin]
        BY DEF AfterBlock
      <3>2. sandbox[w].rev \in Nat /\ sandbox[w].fin \in BOOLEAN
        BY DEF TypeOK, Sandboxes
      <3> QED
        <4>1. sandbox[w].rev + 1 \in Nat
          BY <3>2
        <4>2. fin \in BOOLEAN
          BY <3>2
        <4> QED
          BY <3>1, <4>1, <4>2 DEF Sandboxes
    <2>3. inbox' \in [Workers -> Seq(Requests)] /\ outbox' \in [Workers -> Seq(Responses)]
      BY <1>1, <1>4, <2>1, <2>2 DEF TypeOK, WorkerFinish
    <2> QED
      BY <1>4, <2>1, <2>2, <2>3 DEF TypeOK, WorkerStep
  <1>5. CASE WorkerEof(w)
    BY <1>5 DEF TypeOK, WorkerStep, WorkerEof
  <1>6. CASE WorkerDies(w)
    BY <1>6 DEF TypeOK, WorkerStep, WorkerDies
  <1> QED
    BY <1>2, <1>3, <1>4, <1>5, <1>6 DEF WorkerStep

-----------------------------------------------------------------------------
(* The inductive invariant.                                                *)

Inside  == {"locked", "spawn", "assign", "check", "alive", "send", "wait", "polled"}
Terms    == {"term1", "term2", "term3", "term4", "termDone"}
Served   == {"alive", "send", "wait", "polled"}   \* past the test of the flags, not yet answered
Gone     == closed \/ broken

Holds(c) == \/ pc[c] \in Inside \cup {"closeTest", "closeSend"}
            \/ pc[c] \in Terms /\ cause[c] # "forced"

\* _request_lock is held by the one thread that is inside the block it protects.
LockInv == /\ \A c \in Callers : Holds(c) <=> c \in holders
           /\ \A c, d \in holders : c = d

\* Executors and closers keep to their own statements.
RoleInv ==
  /\ \A e \in Executors : /\ pc[e] \notin {"closeMark", "closeLock", "closeTest", "closeSend"}
                          /\ cause[e] \notin {"close", "forced"}
                          /\ result[e] \notin {"closeDone", "closeNoop", "closeRaised"}
                          /\ pc[e] \in Terms => broken
                          /\ pc[e] \in Served => ~broken
  /\ \A k \in Closers : /\ pc[k] \in {"idle", "closeMark", "closeLock", "closeTest", "closeSend"}
                                       \cup Terms
                        /\ cause[k] \in {"none", "close", "forced"}
                        /\ pc[k] \in Terms => cause[k] # "none"
                        /\ pc[k] \notin {"idle", "closeMark"} => closed
                        /\ result[k] = "closeDone" => closed

\* A worker that is not the first was started on an executor that is closed or broken.
SpawnInv ==
  /\ process <= spawned /\ conn <= spawned
  /\ process # None /\ conn # None => process = conn
  /\ spawned >= 2 => Gone
  /\ \A e \in Executors : /\ pc[e] \in {"spawn", "assign"} => process = None
                          /\ pc[e] = "assign" => spawned >= 1
                          /\ pc[e] \in Served => conn <= 1
  /\ spawned >= 1 /\ process = None => Gone \/ \E e \in Executors : pc[e] = "assign"

\* Unborn workers have nothing in their pipes; a response comes from the worker of the pipe.
PipeInv ==
  /\ \A w \in Workers : w > spawned => worker[w] = "unborn" /\ inbox[w] = <<>>
  /\ \A w \in Workers : worker[w] = "exec" => inbox[w] # <<>>
  /\ \A w \in Workers : \A i \in 1..Len(outbox[w]) : outbox[w][i].snap.from = w
  /\ OneSandbox

\* A closing thread that has taken _conn away, or has returned.
PastConn(k) == pc[k] \in Terms \ {"term1"} \/ result[k] = "closeDone"

\* Code sits only in the worker that _process names, and only until some thread is about to
\* forget that worker; close() takes the pipe away from a thread that is about to test it or to send.
CodeInv ==
  /\ \A w \in Workers : HasCode(w) =>
        /\ process = w
        /\ \A c \in Callers : pc[c] # "term4"
        /\ \A k \in Closers : pc[k] # "termDone" /\ result[k] # "closeDone"
  /\ \A e \in Executors : pc[e] \in {"alive", "send"} /\ conn # None =>
        process = conn /\ \A k \in Closers : ~PastConn(k)

IInv == TypeOK /\ LockInv /\ RoleInv /\ SpawnInv /\ PipeInv /\ CodeInv
-----------------------------------------------------------------------------
(* The lock                                                                *)

\* A thread that leaves the protected block gives the lock back.
LEMMA LockReleased ==
  ASSUME TypeOK, LockInv, NEW c \in Callers,
         NEW l \in {"idle", "update"}, Goto(c, l), holders' = holders \ {c}, cause' = cause
  PROVE  LockInv'
  BY DEF TypeOK, LockInv, Holds, Inside, Terms, Goto

\* A thread that stays inside keeps it.
LEMMA LockKept ==
  ASSUME TypeOK, LockInv, NEW c \in Callers, Holds(c),
         NEW l \in Inside, Goto(c, l), holders' = holders, cause' = cause
  PROVE  LockInv'
  BY DEF TypeOK, LockInv, Holds, Inside, Terms, Goto

LEMMA NoAnswerLock ==
  ASSUME TypeOK, LockInv, NEW c \in Callers, Holds(c), NoAnswer(c)
  PROVE  LockInv'
  <1>1. "check" \in Inside
    BY DEF Inside
  <1>2. CASE holders' = holders /\ cause' = cause /\ Goto(c, "check")
    BY <1>1, <1>2, LockKept
  <1>3. CASE holders' = holders \ {c} /\ cause' = cause /\ Goto(c, "idle")
    BY <1>3, LockReleased
  <1> QED
    BY <1>2, <1>3 DEF NoAnswer, ReleaseAndReturn, Return, parent

LEMMA MarkBrokenLock ==
  ASSUME TypeOK, LockInv, NEW c \in Callers, Holds(c),
         NEW why \in {"timeout", "error", "failed"}, MarkBroken(c, why)
  PROVE  LockInv'
  BY DEF TypeOK, LockInv, Holds, Inside, Terms, Goto, MarkBroken, Terminate

LEMMA ReleaseLock ==
  ASSUME TypeOK, LockInv, NEW c \in Callers, NEW r, ReleaseAndReturn(c, r)
  PROVE  LockInv'
  BY LockReleased DEF ReleaseAndReturn, Return

LEMMA LockStep ==
  ASSUME TypeOK, LockInv, RoleInv, Next
  PROVE  LockInv'
  <1> USE DEF flags, handles, parent, local, pipes, procs, Goto
  <1>1. ASSUME NEW c \in Callers, Call(c) PROVE LockInv'
    BY <1>1 DEF Call, LockInv, Holds, Inside, Terms
  <1>2. ASSUME NEW c \in Callers, Acquire(c) PROVE LockInv'
    BY <1>2 DEF Acquire, TypeOK, LockInv, Holds, Inside
  <1>3. ASSUME NEW c \in Callers, Locked(c) PROVE LockInv'
    BY <1>3 DEF Locked, LockInv, Holds, Inside
  <1>4. ASSUME NEW c \in Callers, Spawn(c) PROVE LockInv'
    BY <1>4 DEF Spawn, LockInv, Holds, Inside
  <1>5. ASSUME NEW c \in Callers, SpawnFails(c) PROVE LockInv'
    BY <1>5 DEF SpawnFails, MarkBroken, Terminate, TypeOK, LockInv, Holds, Inside, Terms
  <1>6. ASSUME NEW c \in Callers, Assign(c) PROVE LockInv'
    BY <1>6 DEF Assign, LockInv, Holds, Inside
  <1>7. ASSUME NEW c \in Callers, Update(c) PROVE LockInv'
    BY <1>7 DEF Update, Return, LockInv, Holds, Inside, Terms
  <1>8. ASSUME NEW c \in Callers, Check(c) PROVE LockInv'
    <2>1. Holds(c)
      BY <1>8 DEF Check, CheckThat, Holds, Inside
    <2>2. CASE NoAnswer(c)
      BY <2>1, <2>2, NoAnswerLock
    <2>3. CASE Goto(c, "alive") /\ UNCHANGED <<parent, local, procs>>
      BY <2>1, <2>3, LockKept DEF Inside
    <2> QED
      BY <1>8, <2>2, <2>3 DEF Check, CheckThat
  <1>9. ASSUME NEW c \in Callers, Send(c) PROVE LockInv'
    <2>1. Holds(c)
      BY <1>9 DEF Send, Holds, Inside
    <2>2. CASE MarkBroken(c, "error")
      BY <2>1, <2>2, MarkBrokenLock
    <2>3. CASE Goto(c, "wait") /\ UNCHANGED <<parent, local>>
      BY <2>1, <2>3, LockKept DEF Inside
    <2> QED
      BY <1>9, <2>2, <2>3 DEF Send
  <1>10. ASSUME NEW c \in Callers, Receive(c) PROVE LockInv'
    <2>1. Holds(c)
      BY <1>10 DEF Receive, Waiting, Holds, Inside
    <2>2. CASE Goto(c, "check") /\ UNCHANGED <<holders, cause>>
      BY <2>1, <2>2, LockKept DEF Inside
    <2>3. CASE Goto(c, "update") /\ holders' = holders \ {c} /\ UNCHANGED cause
      BY <2>3, LockReleased
    <2> QED
      BY <1>10, <2>2, <2>3 DEF Receive
  <1>11. ASSUME NEW c \in Callers, PollEmpty(c) PROVE LockInv'
    BY <1>11 DEF PollEmpty, LockInv, Holds, Inside
  <1>12. ASSUME NEW c \in Callers, GiveUp(c) PROVE LockInv'
    BY <1>12, NoAnswerLock DEF GiveUp, Holds, Inside
  <1>13. ASSUME NEW c \in Callers, SeeGone(c) PROVE LockInv'
    BY <1>13, MarkBrokenLock DEF SeeGone, Waiting, Holds, Inside
  <1>14. ASSUME NEW c \in Callers, Timeout(c) PROVE LockInv'
    BY <1>14, MarkBrokenLock DEF Timeout, Late, Waiting, Holds, Inside
  <1>15. ASSUME NEW c \in Callers, TermConn(c) PROVE LockInv'
    BY <1>15 DEF TermConn, LockInv, Holds, Inside, Terms
  <1>16. ASSUME NEW c \in Callers, TermTest(c) PROVE LockInv'
    BY <1>16 DEF TermTest, LockInv, Holds, Inside, Terms
  <1>17. ASSUME NEW c \in Callers, TermKill(c) PROVE LockInv'
    BY <1>17 DEF TermKill, LockInv, Holds, Inside, Terms
  <1>18. ASSUME NEW c \in Callers, TermRaises(c) PROVE LockInv'
    <2>1. CASE cause[c] \in {"timeout", "error"} /\ MarkBroken(c, "failed")
      BY <1>18, <2>1, MarkBrokenLock DEF TermRaises, Holds, Terms
    <2>2. ASSUME NEW r, ReleaseAndReturn(c, r)
          PROVE  LockInv'
      BY <2>2, ReleaseLock
    <2> QED
      BY <1>18, <2>1, <2>2 DEF TermRaises
  <1>19. ASSUME NEW c \in Callers, TermForget(c) PROVE LockInv'
    BY <1>19 DEF TermForget, LockInv, Holds, Inside, Terms
  <1>20. ASSUME NEW c \in Callers, TermReturn(c) PROVE LockInv'
    <2>1. CASE cause[c] = "error"
      BY <1>20, <2>1, NoAnswerLock DEF TermReturn, Holds, Terms
    <2>2. CASE cause[c] # "error"
      BY <1>20, <2>2, ReleaseLock DEF TermReturn
    <2> QED
      BY <2>1, <2>2
  <1>21. ASSUME NEW c \in Callers, CloseCall(c) PROVE LockInv'
    BY <1>21 DEF CloseCall, LockInv, Holds, Inside, Terms
  <1>22. ASSUME NEW c \in Callers, CloseMark(c) PROVE LockInv'
    BY <1>22 DEF CloseMark, LockInv, Holds, Inside, Terms
  <1>23. ASSUME NEW c \in Callers, CloseAcquire(c) PROVE LockInv'
    BY <1>23 DEF CloseAcquire, TypeOK, LockInv, Holds
  <1>24. ASSUME NEW c \in Callers, CloseForced(c) PROVE LockInv'
    BY <1>24 DEF CloseForced, Terminate, TypeOK, LockInv, Holds, Inside, Terms
  <1>25. ASSUME NEW c \in Callers, CloseSend(c) PROVE LockInv'
    <2>1. CASE ReleaseAndReturn(c, "closeRaised")
      BY <2>1, ReleaseLock
    <2>2. CASE Terminate(c, "close") /\ UNCHANGED parent
      BY <1>25, <2>2 DEF CloseSend, Terminate, TypeOK, LockInv, Holds, Terms
    <2> QED
      BY <1>25, <2>1, <2>2 DEF CloseSend
  <1>26. ASSUME NEW w \in Workers, WorkerStep(w) PROVE LockInv'
    BY <1>26 DEF WorkerStep, LockInv, Holds
  <1>27. ASSUME NEW c \in Callers, CheckAlive(c) PROVE LockInv'
    <2>1. Holds(c)
      BY <1>27 DEF CheckAlive, Holds, Inside
    <2>2. CASE NoAnswer(c)
      BY <2>1, <2>2, NoAnswerLock
    <2>3. CASE Goto(c, "send") /\ UNCHANGED <<parent, local, procs>>
      BY <2>1, <2>3, LockKept DEF Inside
    <2>4. CASE ExecuteRaises(c)
      BY <2>1, <2>4, MarkBrokenLock, ReleaseLock DEF ExecuteRaises
    <2> QED
      BY <1>27, <2>2, <2>3, <2>4 DEF CheckAlive
  <1>28. ASSUME NEW c \in Callers, CloseTest(c) PROVE LockInv'
    BY <1>28 DEF CloseTest, Terminate, TypeOK, LockInv, Holds, Terms
  <1> QED
    BY <1>1, <1>2, <1>3, <1>4, <1>5, <1>6, <1>7, <1>8, <1>9, <1>10, <1>11, <1>12, <1>13, <1>14,
       <1>15, <1>16, <1>17, <1>18, <1>19, <1>20, <1>21, <1>22, <1>23, <1>24, <1>25, <1>26,
       <1>27, <1>28
    DEF Next, Step, ExecuteStep, TerminateStep, CloseStep

-----------------------------------------------------------------------------
(* Who is where                                                            *)

CloserResults == {"closeDone", "closeNoop", "closeRaised"}

\* A step of an executor to a statement of its own, past the flags only while none is set.
LEMMA ExecutorMoves ==
  ASSUME TypeOK, RoleInv, NEW c \in Executors,
         NEW l \in Locations \ (Terms \cup {"closeMark", "closeLock", "closeTest", "closeSend"}),
         Goto(c, l), l \in Served => ~broken, UNCHANGED <<closed, broken, cause>>,
         \A d \in Callers : d # c => result'[d] = result[d], result'[c] \notin CloserResults
  PROVE  RoleInv'
  <1>1. /\ pc'[c] = l /\ \A d \in Callers : d # c => pc'[d] = pc[d]
        /\ c \notin Closers /\ Executors \subseteq Callers /\ Closers \subseteq Callers
    BY ThreadsAssumption DEF TypeOK, Goto, Callers
  <1>2. \A e \in Executors : /\ pc'[e] \notin {"closeMark", "closeLock", "closeTest", "closeSend"}
                             /\ result'[e] \notin CloserResults
                             /\ pc'[e] \in Terms => broken
                             /\ pc'[e] \in Served => ~broken
    BY <1>1 DEF RoleInv, CloserResults
  <1>3. \A k \in Closers : pc'[k] = pc[k] /\ result'[k] = result[k]
    BY <1>1
  <1> QED
    BY <1>2, <1>3 DEF RoleInv, CloserResults

LEMMA NoAnswerRole ==
  ASSUME TypeOK, RoleInv, NEW c \in Executors, NoAnswer(c)
  PROVE  RoleInv'
  <1> USE DEF Locations, Terms, Served, CloserResults
  <1>1. c \in Callers /\ result[c] \notin CloserResults
    BY DEF Callers, RoleInv
  <1>2. CASE phase[c] = "snapshot"
    BY <1>1, <1>2, ExecutorMoves DEF NoAnswer, parent, flags
  <1>3. CASE phase[c] # "snapshot"
    BY <1>1, <1>3, ExecutorMoves DEF NoAnswer, ReleaseAndReturn, Return, TypeOK, flags
  <1> QED
    BY <1>2, <1>3

LEMMA MarkBrokenRole ==
  ASSUME TypeOK, LockInv, RoleInv, NEW c \in Executors, Holds(c),
         NEW why \in {"timeout", "error", "failed"}, MarkBroken(c, why)
  PROVE  RoleInv'
  <1> USE ThreadsAssumption DEF Goto
  <1>1. \A e \in Executors : e # c => ~Holds(e)
    BY DEF LockInv, Callers
  <1> QED
    BY <1>1 DEF MarkBroken, Terminate, TypeOK, RoleInv, Holds, Inside, Served, Callers

LEMMA ReleaseRole ==
  ASSUME TypeOK, RoleInv, NEW c \in Callers, NEW r, ReleaseAndReturn(c, r),
         c \in Executors => r \notin {"closeDone", "closeNoop", "closeRaised"},
         c \in Closers /\ r = "closeDone" => closed
  PROVE  RoleInv'
  BY ThreadsAssumption
  DEF flags, Goto, ReleaseAndReturn, Return, TypeOK, RoleInv, Terms, Served, Callers

LEMMA RoleStep ==
  ASSUME TypeOK, LockInv, RoleInv, Next
  PROVE  RoleInv'
  <1> USE DEF flags, handles, parent, local, pipes, procs, Goto
  <1>1. ASSUME NEW c \in Callers, Call(c) PROVE RoleInv'
    BY <1>1, ThreadsAssumption DEF Call, RoleInv, Terms
  <1>2. ASSUME NEW c \in Callers, Acquire(c) PROVE RoleInv'
    BY <1>2 DEF Acquire, RoleInv, Terms, Served
  <1>3. ASSUME NEW c \in Callers, Locked(c) PROVE RoleInv'
    BY <1>3 DEF Locked, RoleInv, Terms, Served
  <1>4. ASSUME NEW c \in Callers, Spawn(c) PROVE RoleInv'
    BY <1>4 DEF Spawn, RoleInv, Terms, Served
  <1>5. ASSUME NEW c \in Callers, SpawnFails(c) PROVE RoleInv'
    BY <1>5
       DEF SpawnFails, MarkBroken, Terminate, LockInv, RoleInv, Holds, Inside, Terms, Served,
           Callers
  <1>6. ASSUME NEW c \in Callers, Assign(c) PROVE RoleInv'
    BY <1>6 DEF Assign, RoleInv, Terms, Served
  <1>7. ASSUME NEW c \in Callers, Update(c) PROVE RoleInv'
    BY <1>7 DEF Update, Return, RoleInv, Terms, Served
  <1>8. ASSUME NEW c \in Callers, Check(c) PROVE RoleInv'
    <2>1. c \in Executors /\ Holds(c)
      BY <1>8 DEF Check, CheckThat, RoleInv, Callers, Holds, Inside, Terms
    <2>2. CASE NoAnswer(c)
      BY <2>1, <2>2, NoAnswerRole
    <2>3. CASE Goto(c, "alive") /\ ~broken /\ UNCHANGED <<parent, local, procs>>
      BY <2>1, <2>3, ThreadsAssumption DEF TypeOK, RoleInv, Terms
    <2> QED
      BY <1>8, <2>2, <2>3 DEF Check, CheckThat
  <1>9. ASSUME NEW c \in Callers, Send(c) PROVE RoleInv'
    <2>1. c \in Executors /\ Holds(c)
      BY <1>9 DEF Send, RoleInv, Callers, Holds, Inside, Terms
    <2>2. CASE MarkBroken(c, "error")
      BY <2>1, <2>2, MarkBrokenRole
    <2>3. CASE Goto(c, "wait") /\ UNCHANGED <<parent, local>>
      BY <1>9, <2>1, <2>3 DEF Send, RoleInv, Terms, Served
    <2> QED
      BY <1>9, <2>2, <2>3 DEF Send
  <1>10. ASSUME NEW c \in Callers, Receive(c) PROVE RoleInv'
    <2>1. c \in Executors /\ Holds(c)
      BY <1>10 DEF Receive, Waiting, RoleInv, Callers, Holds, Inside, Terms
    <2>2. result[c] \notin CloserResults
      BY <2>1 DEF RoleInv, CloserResults
    <2> QED
      BY <1>10, <2>1, <2>2, ExecutorMoves DEF Receive, Locations, Terms, Served
  <1>11. ASSUME NEW c \in Callers, PollEmpty(c) PROVE RoleInv'
    BY <1>11, ThreadsAssumption
       DEF PollEmpty, TypeOK, LockInv, RoleInv, Holds, Inside, Terms, Served, Callers
  <1>12. ASSUME NEW c \in Callers, GiveUp(c) PROVE RoleInv'
    <2>1. c \in Executors /\ Holds(c)
      BY <1>12 DEF GiveUp, RoleInv, Callers, Holds, Inside, Terms
    <2> QED
      BY <1>12, <2>1, NoAnswerRole DEF GiveUp
  <1>13. ASSUME NEW c \in Callers, SeeGone(c) PROVE RoleInv'
    <2>1. c \in Executors /\ Holds(c)
      BY <1>13 DEF SeeGone, Waiting, RoleInv, Callers, Holds, Inside, Terms
    <2> QED
      BY <1>13, <2>1, MarkBrokenRole DEF SeeGone
  <1>14. ASSUME NEW c \in Callers, Timeout(c) PROVE RoleInv'
    <2>1. c \in Executors /\ Holds(c)
      BY <1>14 DEF Timeout, Late, Waiting, RoleInv, Callers, Holds, Inside, Terms
    <2> QED
      BY <1>14, <2>1, MarkBrokenRole DEF Timeout
  <1>15. ASSUME NEW c \in Callers, TermConn(c) PROVE RoleInv'
    BY <1>15, ThreadsAssumption
       DEF TermConn, TypeOK, LockInv, RoleInv, Holds, Inside, Terms, Served, Callers
  <1>16. ASSUME NEW c \in Callers, TermTest(c) PROVE RoleInv'
    BY <1>16, ThreadsAssumption
       DEF TermTest, TypeOK, LockInv, RoleInv, Holds, Inside, Terms, Served, Callers
  <1>17. ASSUME NEW c \in Callers, TermKill(c) PROVE RoleInv'
    BY <1>17, ThreadsAssumption
       DEF TermKill, TypeOK, LockInv, RoleInv, Holds, Inside, Terms, Served, Callers
  <1>18. ASSUME NEW c \in Callers, TermRaises(c) PROVE RoleInv'
    <2>1. CASE cause[c] \in {"timeout", "error"} /\ MarkBroken(c, "failed")
      <3>1. c \in Executors /\ Holds(c)
        BY <1>18, <2>1 DEF TermRaises, RoleInv, Callers, Holds, Inside, Terms
      <3> QED
        BY <2>1, <3>1, MarkBrokenRole
    <2>2. CASE cause[c] \notin {"close", "forced"} /\ ReleaseAndReturn(c, "raised")
      BY <2>2, ReleaseRole
    <2>3. CASE cause[c] \in {"close", "forced"} /\ ReleaseAndReturn(c, "closeRaised")
      <3>1. c \notin Executors
        BY <2>3 DEF RoleInv
      <3> QED
        BY <2>3, <3>1, ReleaseRole
    <2> QED
      BY <1>18, <2>1, <2>2, <2>3 DEF TermRaises
  <1>19. ASSUME NEW c \in Callers, TermForget(c) PROVE RoleInv'
    BY <1>19, ThreadsAssumption
       DEF TermForget, TypeOK, LockInv, RoleInv, Holds, Inside, Terms, Served, Callers
  <1>20. ASSUME NEW c \in Callers, TermReturn(c) PROVE RoleInv'
    <2>1. CASE cause[c] = "error"
      <3>1. c \in Executors
        BY <2>1 DEF RoleInv, Callers
      <3> QED
        BY <1>20, <2>1, <3>1, NoAnswerRole DEF TermReturn
    <2>2. CASE cause[c] \in {"close", "forced"}
      <3>1. c \notin Executors /\ closed
        BY <1>20, <2>2 DEF TermReturn, RoleInv, Terms, Callers
      <3> QED
        BY <1>20, <2>2, <3>1, ReleaseRole DEF TermReturn
    <2>3. CASE cause[c] \notin {"error", "close", "forced"}
      <3>1. c \notin Closers
        BY <1>20, <2>3 DEF TermReturn, RoleInv, Terms
      <3>2. cause[c] \in Causes
        BY DEF TypeOK
      <3> QED
        BY <1>20, <2>3, <3>1, <3>2, ReleaseRole DEF TermReturn, Causes
    <2> QED
      BY <2>1, <2>2, <2>3
  <1>21. ASSUME NEW c \in Callers, CloseCall(c) PROVE RoleInv'
    BY <1>21, ThreadsAssumption
       DEF CloseCall, TypeOK, LockInv, RoleInv, Holds, Inside, Terms, Served, Callers
  <1>22. ASSUME NEW c \in Callers, CloseMark(c) PROVE RoleInv'
    BY <1>22, ThreadsAssumption
       DEF CloseMark, TypeOK, LockInv, RoleInv, Holds, Inside, Terms, Served, Callers
  <1>23. ASSUME NEW c \in Callers, CloseAcquire(c) PROVE RoleInv'
    BY <1>23, ThreadsAssumption
       DEF CloseAcquire, TypeOK, LockInv, RoleInv, Holds, Inside, Terms, Served, Callers
  <1>24. ASSUME NEW c \in Callers, CloseForced(c) PROVE RoleInv'
    BY <1>24, ThreadsAssumption
       DEF CloseForced, Terminate, TypeOK, LockInv, RoleInv, Holds, Inside, Terms, Served, Callers
  <1>25. ASSUME NEW c \in Callers, CloseSend(c) PROVE RoleInv'
    <2>1. CASE ReleaseAndReturn(c, "closeRaised")
      <3>1. c \notin Executors
        BY <1>25 DEF CloseSend, RoleInv
      <3> QED
        BY <2>1, <3>1, ReleaseRole
    <2>2. CASE Terminate(c, "close") /\ UNCHANGED parent
      BY <1>25, <2>2, ThreadsAssumption
         DEF CloseSend, Terminate, TypeOK, LockInv, RoleInv, Holds, Inside, Terms, Served, Callers
    <2> QED
      BY <1>25, <2>1, <2>2 DEF CloseSend
  <1>26. ASSUME NEW w \in Workers, WorkerStep(w) PROVE RoleInv'
    BY <1>26 DEF WorkerStep, RoleInv, Inside, Terms, Served
  <1>27. ASSUME NEW c \in Callers, CheckAlive(c) PROVE RoleInv'
    <2>1. c \in Executors /\ Holds(c)
      BY <1>27 DEF CheckAlive, RoleInv, Callers, Holds, Inside, Terms
    <2>2. CASE NoAnswer(c)
      BY <2>1, <2>2, NoAnswerRole
    <2>3. CASE Goto(c, "send") /\ UNCHANGED <<parent, local, procs>>
      BY <1>27, <2>1, <2>3 DEF CheckAlive, TypeOK, RoleInv, Terms, Served
    <2>4. CASE ExecuteRaises(c)
      <3>1. CASE MarkBroken(c, "failed")
        BY <2>1, <3>1, MarkBrokenRole
      <3>2. CASE ReleaseAndReturn(c, "raised")
        BY <3>2, ReleaseRole
      <3> QED
        BY <2>4, <3>1, <3>2 DEF ExecuteRaises
    <2> QED
      BY <1>27, <2>2, <2>3, <2>4 DEF CheckAlive
  <1>28. ASSUME NEW c \in Callers, CloseTest(c) PROVE RoleInv'
    BY <1>28, ThreadsAssumption
       DEF CloseTest, Terminate, TypeOK, LockInv, RoleInv, Holds, Inside, Terms, Served, Callers
  <1> QED
    BY <1>1, <1>2, <1>3, <1>4, <1>5, <1>6, <1>7, <1>8, <1>9, <1>10, <1>11, <1>12, <1>13, <1>14,
       <1>15, <1>16, <1>17, <1>18, <1>19, <1>20, <1>21, <1>22, <1>23, <1>24, <1>25, <1>26,
       <1>27, <1>28
    DEF Next, Step, ExecuteStep, TerminateStep, CloseStep

-----------------------------------------------------------------------------
(* Which worker is named where                                             *)

LEMMA NoAnswerSpawn ==
  ASSUME TypeOK, SpawnInv, NEW c \in Callers, NoAnswer(c), pc[c] # "assign"
  PROVE  SpawnInv'
  <1> USE ThreadsAssumption DEF flags, handles, parent, local, procs, Goto
  <1>1. CASE phase[c] = "snapshot"
    BY <1>1 DEF NoAnswer, TypeOK, SpawnInv, Gone, Served, Callers
  <1>2. CASE phase[c] # "snapshot"
    BY <1>2 DEF NoAnswer, ReleaseAndReturn, Return, TypeOK, SpawnInv, Gone, Served, Callers
  <1> QED
    BY <1>1, <1>2

LEMMA ReleaseSpawn ==
  ASSUME TypeOK, SpawnInv, NEW c \in Callers, NEW r, ReleaseAndReturn(c, r), pc[c] # "assign"
  PROVE  SpawnInv'
  BY DEF flags, handles, procs, Goto, ReleaseAndReturn, Return, TypeOK, SpawnInv, Gone, Served,
         Callers

LEMMA SpawnStep ==
  ASSUME TypeOK, LockInv, RoleInv, SpawnInv, Next
  PROVE  SpawnInv'
  <1> USE DEF flags, handles, parent, local, pipes, procs, Goto
  <1>1. ASSUME NEW c \in Callers, Call(c) PROVE SpawnInv'
    BY <1>1, ThreadsAssumption, BoundsAssumption
       DEF Call, TypeOK, LockInv, RoleInv, SpawnInv, Gone, Holds, Inside, Terms, Served, Callers,
           None, Workers
  <1>2. ASSUME NEW c \in Callers, Acquire(c) PROVE SpawnInv'
    BY <1>2, ThreadsAssumption, BoundsAssumption
       DEF Acquire, TypeOK, LockInv, RoleInv, SpawnInv, Gone, Holds, Inside, Terms, Served,
           Callers, None, Workers
  <1>3. ASSUME NEW c \in Callers, Locked(c) PROVE SpawnInv'
    BY <1>3, ThreadsAssumption, BoundsAssumption
       DEF Locked, TypeOK, LockInv, RoleInv, SpawnInv, Gone, Holds, Inside, Terms, Served,
           Callers, None, Workers
  <1>4. ASSUME NEW c \in Callers, Spawn(c) PROVE SpawnInv'
    BY <1>4, ThreadsAssumption, BoundsAssumption
       DEF Spawn, TypeOK, LockInv, RoleInv, SpawnInv, Gone, Holds, Inside, Terms, Served, Callers,
           None, Workers
  <1>5. ASSUME NEW c \in Callers, SpawnFails(c) PROVE SpawnInv'
    BY <1>5, ThreadsAssumption, BoundsAssumption
       DEF SpawnFails, MarkBroken, Terminate, TypeOK, LockInv, RoleInv, SpawnInv, Gone, Holds,
           Inside, Terms, Served, Callers, None, Workers
  <1>6. ASSUME NEW c \in Callers, Assign(c) PROVE SpawnInv'
    BY <1>6, ThreadsAssumption, BoundsAssumption
       DEF Assign, TypeOK, LockInv, RoleInv, SpawnInv, Gone, Holds, Inside, Terms, Served,
           Callers, None, Workers
  <1>7. ASSUME NEW c \in Callers, Update(c) PROVE SpawnInv'
    BY <1>7, ThreadsAssumption, BoundsAssumption
       DEF Update, Return, TypeOK, LockInv, RoleInv, SpawnInv, Gone, Holds, Inside, Terms, Served,
           Callers, None, Workers
  <1>8. ASSUME NEW c \in Callers, Check(c) PROVE SpawnInv'
    BY <1>8, ThreadsAssumption, BoundsAssumption
       DEF Check, CheckThat, NoAnswer, ReleaseAndReturn, Return, TypeOK, LockInv, RoleInv,
           SpawnInv, Gone, Holds, Inside, Terms, Served, Callers, None, Workers
  <1>9. ASSUME NEW c \in Callers, Send(c) PROVE SpawnInv'
    <2>1. CASE MarkBroken(c, "error")
      BY <2>1, ThreadsAssumption
      DEF MarkBroken, Terminate, TypeOK, SpawnInv, Gone, Served, Callers
    <2>2. CASE Goto(c, "wait") /\ UNCHANGED <<parent, spawned>>
      BY <1>9, <2>2 DEF Send, TypeOK, SpawnInv, Gone, Served, Callers
    <2> QED
      BY <1>9, <2>1, <2>2 DEF Send
  <1>10. ASSUME NEW c \in Callers, Receive(c) PROVE SpawnInv'
    BY <1>10, ThreadsAssumption, BoundsAssumption
       DEF Receive, Waiting, TypeOK, LockInv, RoleInv, SpawnInv, Gone, Holds, Inside, Terms,
           Served, Callers, None, Workers
  <1>11. ASSUME NEW c \in Callers, PollEmpty(c) PROVE SpawnInv'
    BY <1>11, ThreadsAssumption, BoundsAssumption
       DEF PollEmpty, TypeOK, LockInv, RoleInv, SpawnInv, Gone, Holds, Inside, Terms, Served,
           Callers, None, Workers
  <1>12. ASSUME NEW c \in Callers, GiveUp(c) PROVE SpawnInv'
    BY <1>12, NoAnswerSpawn DEF GiveUp
  <1>13. ASSUME NEW c \in Callers, SeeGone(c) PROVE SpawnInv'
    BY <1>13, ThreadsAssumption, BoundsAssumption
       DEF SeeGone, Waiting, MarkBroken, Terminate, TypeOK, LockInv, RoleInv, SpawnInv, Gone,
           Holds, Inside, Terms, Served, Callers, None, Workers
  <1>14. ASSUME NEW c \in Callers, Timeout(c) PROVE SpawnInv'
    BY <1>14, ThreadsAssumption, BoundsAssumption
       DEF Timeout, Late, Waiting, MarkBroken, Terminate, TypeOK, LockInv, RoleInv, SpawnInv,
           Gone, Holds, Inside, Terms, Served, Callers, None, Workers
  <1>15. ASSUME NEW c \in Callers, TermConn(c) PROVE SpawnInv'
    BY <1>15, ThreadsAssumption, BoundsAssumption
       DEF TermConn, TypeOK, LockInv, RoleInv, SpawnInv, Gone, Holds, Inside, Terms, Served,
           Callers, None, Workers
  <1>16. ASSUME NEW c \in Callers, TermTest(c) PROVE SpawnInv'
    BY <1>16, ThreadsAssumption, BoundsAssumption
       DEF TermTest, TypeOK, LockInv, RoleInv, SpawnInv, Gone, Holds, Inside, Terms, Served,
           Callers, None, Workers
  <1>17. ASSUME NEW c \in Callers, TermKill(c) PROVE SpawnInv'
    BY <1>17, ThreadsAssumption, BoundsAssumption
       DEF TermKill, TypeOK, LockInv, RoleInv, SpawnInv, Gone, Holds, Inside, Terms, Served,
           Callers, None, Workers
  <1>18. ASSUME NEW c \in Callers, TermRaises(c) PROVE SpawnInv'
    BY <1>18, ThreadsAssumption, BoundsAssumption
       DEF TermRaises, MarkBroken, Terminate, ReleaseAndReturn, Return, TypeOK, LockInv, RoleInv,
           SpawnInv, Gone, Holds, Inside, Terms, Served, Callers, None, Workers
  <1>19. ASSUME NEW c \in Callers, TermForget(c) PROVE SpawnInv'
    BY <1>19, ThreadsAssumption, BoundsAssumption
       DEF TermForget, TypeOK, LockInv, RoleInv, SpawnInv, Gone, Holds, Inside, Terms, Served,
           Callers, None, Workers
  <1>20. ASSUME NEW c \in Callers, TermReturn(c) PROVE SpawnInv'
    BY <1>20, NoAnswerSpawn, ReleaseSpawn DEF TermReturn
  <1>21. ASSUME NEW c \in Callers, CloseCall(c) PROVE SpawnInv'
    BY <1>21, ThreadsAssumption, BoundsAssumption
       DEF CloseCall, TypeOK, LockInv, RoleInv, SpawnInv, Gone, Holds, Inside, Terms, Served,
           Callers, None, Workers
  <1>22. ASSUME NEW c \in Callers, CloseMark(c) PROVE SpawnInv'
    BY <1>22, ThreadsAssumption, BoundsAssumption
       DEF CloseMark, TypeOK, LockInv, RoleInv, SpawnInv, Gone, Holds, Inside, Terms, Served,
           Callers, None, Workers
  <1>23. ASSUME NEW c \in Callers, CloseAcquire(c) PROVE SpawnInv'
    BY <1>23, ThreadsAssumption, BoundsAssumption
       DEF CloseAcquire, TypeOK, LockInv, RoleInv, SpawnInv, Gone, Holds, Inside, Terms, Served,
           Callers, None, Workers
  <1>24. ASSUME NEW c \in Callers, CloseForced(c) PROVE SpawnInv'
    BY <1>24, ThreadsAssumption, BoundsAssumption
       DEF CloseForced, Terminate, TypeOK, LockInv, RoleInv, SpawnInv, Gone, Holds, Inside, Terms,
           Served, Callers, None, Workers
  <1>25. ASSUME NEW c \in Callers, CloseSend(c) PROVE SpawnInv'
    BY <1>25, ThreadsAssumption, BoundsAssumption, ReleaseSpawn
       DEF CloseSend, Terminate, TypeOK, LockInv, RoleInv, SpawnInv, Gone, Holds, Inside, Terms,
           Served, Callers, None, Workers
  <1>26. ASSUME NEW w \in Workers, WorkerStep(w) PROVE SpawnInv'
    BY <1>26 DEF WorkerStep, TypeOK, SpawnInv, Gone, Served, None, Workers, Callers
  <1>27. ASSUME NEW c \in Callers, CheckAlive(c) PROVE SpawnInv'
    BY <1>27, ThreadsAssumption, BoundsAssumption, NoAnswerSpawn, ReleaseSpawn
       DEF CheckAlive, ExecuteRaises, MarkBroken, Terminate, TypeOK, SpawnInv, Gone, Served, Callers
  <1>28. ASSUME NEW c \in Callers, CloseTest(c) PROVE SpawnInv'
    BY <1>28, ThreadsAssumption, BoundsAssumption
       DEF CloseTest, Terminate, TypeOK, LockInv, RoleInv, SpawnInv, Gone, Holds, Inside, Terms,
           Served, Callers, None, Workers
  <1> QED
    BY <1>1, <1>2, <1>3, <1>4, <1>5, <1>6, <1>7, <1>8, <1>9, <1>10, <1>11, <1>12, <1>13, <1>14,
       <1>15, <1>16, <1>17, <1>18, <1>19, <1>20, <1>21, <1>22, <1>23, <1>24, <1>25, <1>26,
       <1>27, <1>28
    DEF Next, Step, ExecuteStep, TerminateStep, CloseStep

-----------------------------------------------------------------------------
(* What is in the pipes                                                    *)

LEMMA PipeStep ==
  ASSUME TypeOK, LockInv, RoleInv, SpawnInv, PipeInv, Next
  PROVE  PipeInv'
  <1> USE DEF flags, handles, parent, local, pipes, procs, Goto
  <1>1. ASSUME NEW c \in Callers, Call(c) PROVE PipeInv'
    BY <1>1 DEF Call, TypeOK, PipeInv, OneSandbox, NoResponse, EmptySnapshot, Callers
  <1>2. ASSUME NEW c \in Callers, Acquire(c) PROVE PipeInv'
    BY <1>2 DEF Acquire, TypeOK, PipeInv, OneSandbox
  <1>3. ASSUME NEW c \in Callers, Locked(c) PROVE PipeInv'
    BY <1>3 DEF Locked, TypeOK, PipeInv, OneSandbox
  <1>4. ASSUME NEW c \in Callers, Spawn(c) PROVE PipeInv'
    <2>1. spawned \in Nat /\ spawned + 1 > spawned
      BY BoundsAssumption DEF TypeOK
    <2>2. /\ spawned' = spawned + 1
          /\ worker' = [worker EXCEPT ![spawned + 1] = "init"]
          /\ UNCHANGED <<got, inbox, outbox>>
      BY <1>4 DEF Spawn
    <2>3. \A w \in Workers : w > spawned' => worker'[w] = worker[w] /\ w > spawned
      BY <2>1, <2>2 DEF TypeOK, Workers
    <2>4. \A w \in Workers : worker'[w] = "exec" => worker[w] = "exec"
      BY <2>2 DEF TypeOK
    <2> QED
      BY <2>2, <2>3, <2>4 DEF PipeInv, OneSandbox
  <1>5. ASSUME NEW c \in Callers, SpawnFails(c) PROVE PipeInv'
    BY <1>5 DEF SpawnFails, MarkBroken, Terminate, TypeOK, PipeInv, OneSandbox
  <1>6. ASSUME NEW c \in Callers, Assign(c) PROVE PipeInv'
    BY <1>6 DEF Assign, TypeOK, PipeInv, OneSandbox
  <1>7. ASSUME NEW c \in Callers, Update(c) PROVE PipeInv'
    BY <1>7 DEF Update, Return, TypeOK, PipeInv, OneSandbox
  <1>8. ASSUME NEW c \in Callers, Check(c) PROVE PipeInv'
    BY <1>8 DEF Check, CheckThat, NoAnswer, ReleaseAndReturn, Return, TypeOK, PipeInv, OneSandbox
  <1>9. ASSUME NEW c \in Callers, Send(c) PROVE PipeInv'
    <2>1. CASE ~ConnUp
      BY <1>9, <2>1 DEF Send, MarkBroken, Terminate, TypeOK, PipeInv, OneSandbox
    <2>2. CASE ConnUp
      <3> DEFINE req == [op |-> phase[c], id |-> <<c, calls[c]>>]
      <3>1. conn \in Workers /\ conn <= spawned /\ spawned \in Nat
        BY <2>2 DEF TypeOK, ConnUp, SpawnInv
      <3>2. inbox[conn] \in Seq(Requests)
        BY <3>1 DEF TypeOK
      <3>3. Append(inbox[conn], req) # <<>>
        BY <3>2
      <3>4. /\ \A w \in Workers : w # conn => inbox'[w] = inbox[w]
            /\ inbox'[conn] # <<>>
            /\ UNCHANGED <<spawned, worker, outbox, got>>
        BY <1>9, <2>2, <3>1, <3>3 DEF Send, TypeOK
      <3>5. \A w \in Workers : w > spawned => w # conn
        BY <3>1 DEF Workers
      <3> QED
        BY <3>4, <3>5 DEF PipeInv, OneSandbox
    <2> QED
      BY <2>1, <2>2
  <1>10. ASSUME NEW c \in Callers, Receive(c) PROVE PipeInv'
    <2>1. conn \in Workers /\ conn = 1
      <3>1. c \in Executors
        BY <1>10 DEF Receive, Waiting, RoleInv, Terms, Callers
      <3>2. conn # None /\ conn <= 1
        BY <1>10, <3>1 DEF Receive, Waiting, SpawnInv, Served
      <3> QED
        BY <3>2, BoundsAssumption DEF TypeOK, Workers, None
    <2>2. outbox[conn] \in Seq(Responses) /\ outbox[conn] # <<>>
      BY <1>10, <2>1 DEF Receive, TypeOK
    <2>3. Head(outbox[conn]).snap.from = 1
      BY <2>1, <2>2 DEF PipeInv
    <2>4. \A i \in 1..Len(Tail(outbox[conn])) : Tail(outbox[conn])[i].snap.from = conn
      BY <2>1, <2>2 DEF PipeInv
    <2>5. /\ outbox' = [outbox EXCEPT ![conn] = Tail(@)]
          /\ got' = [got EXCEPT ![c] = Head(outbox[conn])]
          /\ UNCHANGED <<spawned, worker, inbox>>
      BY <1>10 DEF Receive
    <2>6. \A w \in Workers : \A i \in 1..Len(outbox'[w]) : outbox'[w][i].snap.from = w
      BY <2>1, <2>4, <2>5 DEF TypeOK, PipeInv
    <2>7. OneSandbox'
      BY <2>3, <2>5 DEF TypeOK, PipeInv, OneSandbox, Callers
    <2> QED
      BY <2>5, <2>6, <2>7 DEF PipeInv
  <1>11. ASSUME NEW c \in Callers, PollEmpty(c) PROVE PipeInv'
    BY <1>11 DEF PollEmpty, TypeOK, PipeInv, OneSandbox
  <1>12. ASSUME NEW c \in Callers, GiveUp(c) PROVE PipeInv'
    BY <1>12 DEF GiveUp, NoAnswer, ReleaseAndReturn, Return, TypeOK, PipeInv, OneSandbox
  <1>13. ASSUME NEW c \in Callers, SeeGone(c) PROVE PipeInv'
    BY <1>13 DEF SeeGone, Waiting, MarkBroken, Terminate, TypeOK, PipeInv, OneSandbox
  <1>14. ASSUME NEW c \in Callers, Timeout(c) PROVE PipeInv'
    BY <1>14 DEF Timeout, Late, Waiting, MarkBroken, Terminate, TypeOK, PipeInv, OneSandbox
  <1>15. ASSUME NEW c \in Callers, TermConn(c) PROVE PipeInv'
    BY <1>15 DEF TermConn, TypeOK, PipeInv, OneSandbox
  <1>16. ASSUME NEW c \in Callers, TermTest(c) PROVE PipeInv'
    BY <1>16 DEF TermTest, TypeOK, PipeInv, OneSandbox
  <1>17. ASSUME NEW c \in Callers, TermKill(c) PROVE PipeInv'
    <2>1. process \in Workers /\ process <= spawned /\ spawned \in Nat
      BY <1>17 DEF TermKill, TypeOK, SpawnInv
    <2>2. worker' = [worker EXCEPT ![process] = "dead"] /\ UNCHANGED <<spawned, pipes, got>>
      BY <1>17 DEF TermKill
    <2>3. \A x \in Workers : x > spawned => worker'[x] = worker[x]
      BY <2>1, <2>2 DEF TypeOK, Workers
    <2>4. \A x \in Workers : worker'[x] = "exec" => worker[x] = "exec"
      BY <2>2 DEF TypeOK
    <2> QED
      BY <2>2, <2>3, <2>4 DEF PipeInv, OneSandbox
  <1>18. ASSUME NEW c \in Callers, TermRaises(c) PROVE PipeInv'
    BY <1>18
       DEF TermRaises, MarkBroken, Terminate, ReleaseAndReturn, Return, TypeOK, PipeInv,
           OneSandbox
  <1>19. ASSUME NEW c \in Callers, TermForget(c) PROVE PipeInv'
    BY <1>19 DEF TermForget, TypeOK, PipeInv, OneSandbox
  <1>20. ASSUME NEW c \in Callers, TermReturn(c) PROVE PipeInv'
    BY <1>20 DEF TermReturn, NoAnswer, ReleaseAndReturn, Return, TypeOK, PipeInv, OneSandbox
  <1>21. ASSUME NEW c \in Callers, CloseCall(c) PROVE PipeInv'
    BY <1>21 DEF CloseCall, TypeOK, PipeInv, OneSandbox
  <1>22. ASSUME NEW c \in Callers, CloseMark(c) PROVE PipeInv'
    BY <1>22 DEF CloseMark, TypeOK, PipeInv, OneSandbox
  <1>23. ASSUME NEW c \in Callers, CloseAcquire(c) PROVE PipeInv'
    BY <1>23 DEF CloseAcquire, TypeOK, PipeInv, OneSandbox
  <1>24. ASSUME NEW c \in Callers, CloseForced(c) PROVE PipeInv'
    BY <1>24 DEF CloseForced, Terminate, TypeOK, PipeInv, OneSandbox
  <1>25. ASSUME NEW c \in Callers, CloseSend(c) PROVE PipeInv'
    <2> DEFINE req == [op |-> "close", id |-> <<c, calls[c]>>]
    <2>1. CASE process = None \/ ~Connected
      BY <1>25, <2>1 DEF CloseSend, Terminate, ReleaseAndReturn, Return, TypeOK, PipeInv, OneSandbox
    <2>2. CASE process # None /\ Connected
      <3>1. conn \in Workers /\ conn <= spawned /\ spawned \in Nat
        BY <2>2 DEF TypeOK, Connected, SpawnInv
      <3>2. Append(inbox[conn], req) # <<>>
        <4>1. inbox[conn] \in Seq(Requests)
          BY <3>1 DEF TypeOK
        <4> QED
          BY <4>1
      <3>3. /\ \A w \in Workers : w # conn => inbox'[w] = inbox[w]
            /\ inbox'[conn] # <<>>
            /\ UNCHANGED <<spawned, worker, outbox, got>>
        BY <1>25, <2>2, <3>1, <3>2 DEF CloseSend, Terminate, TypeOK
      <3>4. \A w \in Workers : w > spawned => w # conn
        BY <3>1 DEF Workers
      <3> QED
        BY <3>3, <3>4 DEF PipeInv, OneSandbox
    <2> QED
      BY <2>1, <2>2
  <1>26. ASSUME NEW w \in Workers, WorkerStep(w) PROVE PipeInv'
    <2> USE DEF WorkerStep, Become
    <2>1. ASSUME worker[w] # "unborn", worker'[w] # "exec" \/ inbox'[w] # <<>>,
                 \A x \in Workers : x # w => worker'[x] = worker[x] /\ inbox'[x] = inbox[x],
                 \A x \in Workers : \A i \in 1..Len(outbox'[x]) : outbox'[x][i].snap.from = x
          PROVE  PipeInv'
      BY <1>26, <2>1 DEF PipeInv, OneSandbox, local
    <2>2. ASSUME NEW g, worker[w] \in {"recv", "exec"}, Respond(w, g), worker'[w] = "recv",
                 \A x \in Workers : x # w => worker'[x] = worker[x]
          PROVE  PipeInv'
      <3> DEFINE s == [from |-> w, rev |-> g.rev, fin |-> g.fin]
                 r == [id |-> Head(inbox[w]).id, snap |-> s]
      <3>1. r.snap.from = w
        OBVIOUS
      <3> HIDE DEF r
      <3>2. \A i \in 1..Len(Append(outbox[w], r)) : Append(outbox[w], r)[i].snap.from = w
        <4>1. outbox[w] \in Seq(Responses)
          BY DEF TypeOK
        <4>2. /\ Len(Append(outbox[w], r)) = Len(outbox[w]) + 1
              /\ \A i \in 1..Len(outbox[w]) : Append(outbox[w], r)[i] = outbox[w][i]
              /\ Append(outbox[w], r)[Len(outbox[w]) + 1] = r
          BY <4>1
        <4>3. Len(outbox[w]) \in Nat
          BY <4>1
        <4> QED
          BY <3>1, <4>2, <4>3 DEF PipeInv
      <3>3. outbox' = [outbox EXCEPT ![w] = Append(@, r)] /\ inbox' = [inbox EXCEPT ![w] = Tail(@)]
        BY <2>2 DEF Respond, r
      <3>4. \A x \in Workers : \A i \in 1..Len(outbox'[x]) : outbox'[x][i].snap.from = x
        BY <3>2, <3>3 DEF TypeOK, PipeInv
      <3>5. \A x \in Workers : x # w => inbox'[x] = inbox[x]
        BY <3>3 DEF TypeOK
      <3> QED
        BY <2>1, <2>2, <3>4, <3>5
    <2>3. CASE WorkerReady(w)
      BY <1>26, <2>1, <2>3 DEF WorkerReady, TypeOK, PipeInv, pipes
    <2>4. CASE WorkerTake(w)
      <3>1. CASE \E g \in Sandboxes : Respond(w, g) /\ UNCHANGED worker
        BY <2>2, <2>4, <3>1 DEF WorkerTake
      <3>2. CASE worker' = [worker EXCEPT ![w] = "dead"] /\ UNCHANGED pipes
        BY <1>26, <2>1, <2>4, <3>2 DEF WorkerTake, TypeOK, PipeInv, pipes
      <3>3. CASE worker' = [worker EXCEPT ![w] = "exec"] /\ UNCHANGED pipes
        BY <1>26, <2>1, <2>4, <3>3 DEF WorkerTake, TypeOK, PipeInv, pipes
      <3>4. sandbox[w] \in Sandboxes
        BY DEF TypeOK
      <3> QED
        BY <2>4, <3>1, <3>2, <3>3, <3>4 DEF WorkerTake
    <2>5. CASE WorkerFinish(w)
      <3>1. CASE worker' = [worker EXCEPT ![w] = "recv"] /\ \E g : Respond(w, g)
        BY <2>2, <2>5, <3>1 DEF WorkerFinish, TypeOK
      <3>2. CASE worker' = [worker EXCEPT ![w] = "dead"] /\ UNCHANGED pipes
        BY <1>26, <2>1, <2>5, <3>2 DEF WorkerFinish, TypeOK, PipeInv, pipes
      <3> QED
        BY <2>5, <3>1, <3>2 DEF WorkerFinish
    <2>6. CASE WorkerEof(w)
      BY <1>26, <2>1, <2>6 DEF WorkerEof, TypeOK, PipeInv, pipes
    <2>7. CASE WorkerDies(w)
      BY <1>26, <2>1, <2>7 DEF WorkerDies, Alive, TypeOK, PipeInv, pipes
    <2> QED
      BY <1>26, <2>3, <2>4, <2>5, <2>6, <2>7
  <1>27. ASSUME NEW c \in Callers, CheckAlive(c) PROVE PipeInv'
    BY <1>27 DEF CheckAlive, ExecuteRaises, MarkBroken, Terminate, NoAnswer, ReleaseAndReturn, Return,
                 TypeOK, PipeInv, OneSandbox
  <1>28. ASSUME NEW c \in Callers, CloseTest(c) PROVE PipeInv'
    BY <1>28 DEF CloseTest, Terminate, TypeOK, PipeInv, OneSandbox
  <1> QED
    BY <1>1, <1>2, <1>3, <1>4, <1>5, <1>6, <1>7, <1>8, <1>9, <1>10, <1>11, <1>12, <1>13, <1>14,
       <1>15, <1>16, <1>17, <1>18, <1>19, <1>20, <1>21, <1>22, <1>23, <1>24, <1>25, <1>26,
       <1>27, <1>28
    DEF Next, Step, ExecuteStep, TerminateStep, CloseStep

-----------------------------------------------------------------------------
(* Where code waits or runs                                                *)

LEMMA SameCode ==
  ASSUME UNCHANGED <<worker, inbox>>, NEW w \in Workers
  PROVE  HasCode(w)' = HasCode(w)
  BY DEF HasCode, Alive

\* A step that only moves a thread to one of these places touches no code.
LEMMA CodeAside ==
  ASSUME TypeOK, CodeInv, NEW c \in Callers,
         NEW l \in {"idle", "assign", "check", "wait", "update", "term1", "closeSend"}, Goto(c, l),
         \A k \in Closers : result'[k] = "closeDone" => result[k] = "closeDone",
         UNCHANGED <<process, conn>>,
         \A w \in Workers : HasCode(w)' => HasCode(w)
  PROVE  CodeInv'
  BY DEF TypeOK, CodeInv, PastConn, Terms, Goto, Callers

LEMMA NoAnswerCode ==
  ASSUME TypeOK, CodeInv, NEW c \in Callers, NoAnswer(c)
  PROVE  CodeInv'
  <1>1. \A k \in Closers : result'[k] = "closeDone" => result[k] = "closeDone"
    BY DEF NoAnswer, ReleaseAndReturn, Return, TypeOK, Callers
  <1>2. UNCHANGED <<process, conn, worker, inbox>>
    BY DEF NoAnswer, ReleaseAndReturn, parent, handles, procs, pipes
  <1>3. Goto(c, "check") \/ Goto(c, "idle")
    BY DEF NoAnswer, ReleaseAndReturn, Return
  <1> QED
    BY <1>1, <1>2, <1>3, CodeAside, SameCode

LEMMA MarkBrokenCode ==
  ASSUME TypeOK, CodeInv, NEW c \in Callers, NEW why, MarkBroken(c, why)
  PROVE  CodeInv'
  BY CodeAside, SameCode DEF MarkBroken, Terminate, handles, procs, pipes

\* A pipe that gets a request that is not code holds no more code than before.
LEMMA AppendNoCode ==
  ASSUME TypeOK, NEW x \in Workers, NEW r \in Requests, r.op # "execute",
         inbox' = [inbox EXCEPT ![x] = Append(@, r)], UNCHANGED worker, NEW w \in Workers
  PROVE  HasCode(w)' => HasCode(w)
  <1>1. inbox[x] \in Seq(Requests)
    BY DEF TypeOK
  <1>2. \A i \in 1..Len(Append(inbox[x], r)) :
          Append(inbox[x], r)[i].op = "execute" => i \in 1..Len(inbox[x]) /\ inbox[x][i].op = "execute"
    <2>1. /\ Len(Append(inbox[x], r)) = Len(inbox[x]) + 1 /\ Len(inbox[x]) \in Nat
          /\ \A i \in 1..Len(inbox[x]) : Append(inbox[x], r)[i] = inbox[x][i]
          /\ Append(inbox[x], r)[Len(inbox[x]) + 1] = r
      BY <1>1
    <2> QED
      BY <2>1
  <1> QED
    BY <1>2 DEF TypeOK, HasCode, Alive

\* A new process has nothing in its pipe.
LEMMA SpawnCode ==
  ASSUME TypeOK, PipeInv, NEW c \in Callers, Spawn(c), NEW w \in Workers
  PROVE  HasCode(w)' => HasCode(w)
  <1>1. /\ spawned + 1 \in Workers /\ inbox[spawned + 1] = <<>>
        /\ worker' = [worker EXCEPT ![spawned + 1] = "init"]
        /\ UNCHANGED inbox
    BY BoundsAssumption DEF Spawn, TypeOK, PipeInv, Workers, pipes
  <1> QED
    BY <1>1 DEF TypeOK, HasCode, Alive

\* The polite request of close() is no code.
LEMMA CloseSendCode ==
  ASSUME TypeOK, NEW c \in Callers, CloseSend(c), NEW w \in Workers
  PROVE  HasCode(w)' => HasCode(w)
  <1>1. CASE process = None \/ ~Connected
    BY <1>1, SameCode DEF CloseSend, ReleaseAndReturn, procs, pipes
  <1>2. CASE process # None /\ Connected
    <2>1. conn \in Workers
      BY <1>2 DEF Connected, TypeOK
    <2>2. <<c, calls[c]>> \in Ids
      BY DEF TypeOK, Ids
    <2>3. [op |-> "close", id |-> <<c, calls[c]>>] \in Requests
      BY <2>2 DEF Requests
    <2> QED
      BY <1>2, <2>1, <2>3, AppendNoCode DEF CloseSend
  <1> QED
    BY <1>1, <1>2

\* A worker's step brings no code: code only arrives in a request.
LEMMA WorkerCode ==
  ASSUME TypeOK, PipeInv, NEW w \in Workers, WorkerStep(w), NEW v \in Workers
  PROVE  HasCode(v)' => HasCode(v)
  <1> USE DEF flags, handles, parent, local, pipes, procs
  <1>1. \A x \in Workers : x # w => HasCode(x)' = HasCode(x)
    <2>1. \A x \in Workers : x # w => worker'[x] = worker[x] /\ inbox'[x] = inbox[x]
      BY DEF WorkerStep, WorkerReady, WorkerTake, WorkerFinish, WorkerEof, WorkerDies, Become,
             Respond, TypeOK
    <2> QED
      BY <2>1 DEF HasCode, Alive
  <1>2. HasCode(w)' => HasCode(w)
    <2>1. CASE worker'[w] = "dead"
      BY <2>1 DEF HasCode, Alive
    <2>2. CASE Alive(w) /\ UNCHANGED inbox
      BY <2>2 DEF HasCode
    <2>3. CASE Alive(w) /\ inbox[w] # <<>> /\ inbox'[w] = Tail(inbox[w])
      <3>1. inbox[w] \in Seq(Requests)
        BY DEF TypeOK
      <3>2. \A i \in 1..Len(Tail(inbox[w])) :
              i + 1 \in 1..Len(inbox[w]) /\ Tail(inbox[w])[i] = inbox[w][i + 1]
        BY <2>3, <3>1
      <3> QED
        BY <2>3, <3>2 DEF HasCode
    <2>4. worker[w] = "exec" => inbox[w] # <<>>
      BY DEF PipeInv
    <2> QED
      BY <2>1, <2>2, <2>3, <2>4
      DEF WorkerStep, WorkerReady, WorkerTake, WorkerFinish, WorkerEof, WorkerDies, Become,
          Respond, TypeOK, Alive
  <1> QED
    BY <1>1, <1>2

LEMMA CodeStep ==
  ASSUME TypeOK, LockInv, RoleInv, SpawnInv, PipeInv, CodeInv, Next
  PROVE  CodeInv'
  <1> USE DEF flags, handles, parent, local, pipes, procs, Goto
  <1>1. ASSUME NEW c \in Callers, Call(c) PROVE CodeInv'
    BY <1>1, SameCode
       DEF Call, CodeInv, TypeOK, PastConn, LockInv, RoleInv, SpawnInv, Holds, Inside, Terms,
           Served, Callers
  <1>2. ASSUME NEW c \in Callers, Acquire(c) PROVE CodeInv'
    BY <1>2, SameCode
       DEF Acquire, CodeInv, TypeOK, PastConn, LockInv, RoleInv, SpawnInv, Holds, Inside, Terms,
           Served, Callers
  <1>3. ASSUME NEW c \in Callers, Locked(c) PROVE CodeInv'
    BY <1>3, SameCode
       DEF Locked, CodeInv, TypeOK, PastConn, LockInv, RoleInv, SpawnInv, Holds, Inside, Terms,
           Served, Callers
  <1>4. ASSUME NEW c \in Callers, Spawn(c) PROVE CodeInv'
    BY <1>4, SpawnCode, CodeAside DEF Spawn
  <1>5. ASSUME NEW c \in Callers, SpawnFails(c) PROVE CodeInv'
    BY <1>5, SameCode
       DEF SpawnFails, MarkBroken, Terminate, CodeInv, TypeOK, PastConn, LockInv, RoleInv,
           SpawnInv, Holds, Inside, Terms, Served, Callers
  <1>6. ASSUME NEW c \in Callers, Assign(c) PROVE CodeInv'
    <2>1. c \in Executors
      BY <1>6 DEF Assign, RoleInv, Terms, Callers
    <2>2. \A w \in Workers : ~HasCode(w)
      BY <1>6, <2>1 DEF Assign, SpawnInv, CodeInv, Workers, None
    <2>3. \A w \in Workers : ~HasCode(w)'
      BY <1>6, <2>2, SameCode DEF Assign
    <2>4. \A e \in Executors : e # c => pc[e] \notin {"alive", "send"}
      BY <1>6, <2>1 DEF Assign, LockInv, Holds, Inside, Callers
    <2> QED
      BY <1>6, <2>3, <2>4 DEF Assign, CodeInv, TypeOK, Callers
  <1>7. ASSUME NEW c \in Callers, Update(c) PROVE CodeInv'
    BY <1>7, SameCode
       DEF Update, Return, CodeInv, TypeOK, PastConn, LockInv, RoleInv, SpawnInv, Holds, Inside,
           Terms, Served, Callers
  <1>8. ASSUME NEW c \in Callers, Check(c) PROVE CodeInv'
    <2>1. CASE NoAnswer(c)
      BY <2>1, NoAnswerCode
    <2>2. CASE ~closed /\ process # None /\ Goto(c, "alive") /\ UNCHANGED <<parent, local, procs>>
      <3>1. conn # None => process = conn
        BY <2>2 DEF SpawnInv
      <3>2. \A k \in Closers : ~PastConn(k)
        BY <2>2 DEF PastConn, RoleInv, Terms
      <3>3. c \in Executors
        BY <1>8 DEF Check, CheckThat, RoleInv, Terms, Callers
      <3> QED
        BY <2>2, <3>1, <3>2, <3>3, SameCode, ThreadsAssumption
        DEF CodeInv, PastConn, TypeOK, Terms, Callers
    <2> QED
      BY <1>8, <2>1, <2>2 DEF Check, CheckThat
  <1>9. ASSUME NEW c \in Callers, Send(c) PROVE CodeInv'
    <2>1. CASE MarkBroken(c, "error")
      BY <2>1, MarkBrokenCode
    <2>2. CASE ConnUp
      <3>1. c \in Executors
        BY <1>9 DEF Send, RoleInv, Terms, Callers
      <3>2. conn \in Workers /\ process = conn /\ \A k \in Closers : ~PastConn(k)
        BY <1>9, <2>2, <3>1 DEF Send, ConnUp, CodeInv, TypeOK
      <3>3. \A d \in Callers : pc[d] # "term4"
        <4>1. \A d \in Closers : pc[d] # "term4"
          BY <3>2 DEF PastConn, Terms
        <4>2. \A d \in Executors : pc[d] # "term4"
          BY <1>9, <3>1 DEF Send, LockInv, RoleInv, Holds, Inside, Terms, Callers
        <4> QED
          BY <4>1, <4>2 DEF Callers
      <3>4. \A w \in Workers : w # conn => HasCode(w)' = HasCode(w)
        BY <1>9, <2>2, <3>2 DEF Send, TypeOK, HasCode, Alive
      <3>5. UNCHANGED <<process, conn, result>> /\ Goto(c, "wait")
        BY <1>9, <2>2 DEF Send
      <3> QED
        BY <3>1, <3>2, <3>3, <3>4, <3>5, ThreadsAssumption
        DEF CodeInv, PastConn, TypeOK, Terms, Callers
    <2> QED
      BY <1>9, <2>1, <2>2 DEF Send
  <1>10. ASSUME NEW c \in Callers, Receive(c) PROVE CodeInv'
    BY <1>10, CodeAside, SameCode DEF Receive
  <1>11. ASSUME NEW c \in Callers, PollEmpty(c) PROVE CodeInv'
    BY <1>11, SameCode
       DEF PollEmpty, CodeInv, TypeOK, PastConn, LockInv, RoleInv, SpawnInv, Holds, Inside, Terms,
           Served, Callers
  <1>12. ASSUME NEW c \in Callers, GiveUp(c) PROVE CodeInv'
    BY <1>12, NoAnswerCode DEF GiveUp
  <1>13. ASSUME NEW c \in Callers, SeeGone(c) PROVE CodeInv'
    BY <1>13, SameCode
       DEF SeeGone, Waiting, MarkBroken, Terminate, CodeInv, TypeOK, PastConn, LockInv, RoleInv,
           SpawnInv, Holds, Inside, Terms, Served, Callers
  <1>14. ASSUME NEW c \in Callers, Timeout(c) PROVE CodeInv'
    BY <1>14, SameCode
       DEF Timeout, Late, Waiting, MarkBroken, Terminate, CodeInv, TypeOK, PastConn, LockInv,
           RoleInv, SpawnInv, Holds, Inside, Terms, Served, Callers
  <1>15. ASSUME NEW c \in Callers, TermConn(c) PROVE CodeInv'
    BY <1>15, SameCode
       DEF TermConn, CodeInv, TypeOK, PastConn, LockInv, RoleInv, SpawnInv, Holds, Inside, Terms,
           Served, Callers
  <1>16. ASSUME NEW c \in Callers, TermTest(c) PROVE CodeInv'
    <2>1. CASE process = None
      <3>1. \A w \in Workers : ~HasCode(w)
        BY <2>1 DEF CodeInv, Workers, None
      <3>2. \A w \in Workers : ~HasCode(w)'
        BY <1>16, <3>1, SameCode DEF TermTest
      <3> QED
        BY <1>16, <3>2 DEF TermTest, CodeInv, PastConn, TypeOK, Terms, Callers
    <2>2. CASE process # None
      BY <1>16, <2>2, SameCode DEF TermTest, CodeInv, PastConn, TypeOK, Terms, Callers
    <2> QED
      BY <2>1, <2>2
  <1>17. ASSUME NEW c \in Callers, TermKill(c) PROVE CodeInv'
    <2>1. \A w \in Workers : ~HasCode(w)'
      <3>1. process \in Workers /\ worker' = [worker EXCEPT ![process] = "dead"] /\ UNCHANGED inbox
        BY <1>17 DEF TermKill, TypeOK
      <3>2. \A w \in Workers : w # process => HasCode(w)' = HasCode(w)
        BY <3>1 DEF HasCode, Alive, TypeOK
      <3>3. \A w \in Workers : w # process => ~HasCode(w)'
        BY <3>2 DEF CodeInv
      <3>4. worker'[process] = "dead"
        BY <3>1 DEF TypeOK
      <3> QED
        BY <3>1, <3>3, <3>4 DEF HasCode, Alive
    <2> QED
      BY <1>17, <2>1 DEF TermKill, CodeInv, PastConn, TypeOK, Terms, Callers
  <1>18. ASSUME NEW c \in Callers, TermRaises(c) PROVE CodeInv'
    BY <1>18, SameCode
       DEF TermRaises, MarkBroken, Terminate, ReleaseAndReturn, Return, CodeInv, TypeOK, PastConn,
           LockInv, RoleInv, SpawnInv, Holds, Inside, Terms, Served, Callers
  <1>19. ASSUME NEW c \in Callers, TermForget(c) PROVE CodeInv'
    BY <1>19, SameCode
       DEF TermForget, CodeInv, TypeOK, PastConn, LockInv, RoleInv, SpawnInv, Holds, Inside,
           Terms, Served, Callers
  <1>20. ASSUME NEW c \in Callers, TermReturn(c) PROVE CodeInv'
    BY <1>20, SameCode
       DEF TermReturn, NoAnswer, ReleaseAndReturn, Return, CodeInv, TypeOK, PastConn, LockInv,
           RoleInv, SpawnInv, Holds, Inside, Terms, Served, Callers
  <1>21. ASSUME NEW c \in Callers, CloseCall(c) PROVE CodeInv'
    BY <1>21, SameCode
       DEF CloseCall, CodeInv, TypeOK, PastConn, LockInv, RoleInv, SpawnInv, Holds, Inside, Terms,
           Served, Callers
  <1>22. ASSUME NEW c \in Callers, CloseMark(c) PROVE CodeInv'
    BY <1>22, SameCode
       DEF CloseMark, CodeInv, TypeOK, PastConn, LockInv, RoleInv, SpawnInv, Holds, Inside, Terms,
           Served, Callers
  <1>23. ASSUME NEW c \in Callers, CloseAcquire(c) PROVE CodeInv'
    BY <1>23, SameCode
       DEF CloseAcquire, CodeInv, TypeOK, PastConn, LockInv, RoleInv, SpawnInv, Holds, Inside,
           Terms, Served, Callers
  <1>24. ASSUME NEW c \in Callers, CloseForced(c) PROVE CodeInv'
    BY <1>24, SameCode
       DEF CloseForced, Terminate, CodeInv, TypeOK, PastConn, LockInv, RoleInv, SpawnInv, Holds,
           Inside, Terms, Served, Callers
  <1>25. ASSUME NEW c \in Callers, CloseSend(c) PROVE CodeInv'
    <2>1. \A k \in Closers : result'[k] = "closeDone" => result[k] = "closeDone"
      BY <1>25 DEF CloseSend, Terminate, ReleaseAndReturn, Return, TypeOK, Callers
    <2>2. UNCHANGED <<process, conn>> /\ (Goto(c, "idle") \/ Goto(c, "term1"))
      BY <1>25 DEF CloseSend, Terminate, ReleaseAndReturn, Return
    <2> QED
      BY <1>25, <2>1, <2>2, CloseSendCode, CodeAside
  <1>26. ASSUME NEW w \in Workers, WorkerStep(w) PROVE CodeInv'
    <2>1. UNCHANGED <<process, conn, pc, result>>
      BY <1>26 DEF WorkerStep
    <2> QED
      BY <1>26, <2>1, WorkerCode DEF CodeInv, PastConn
  <1>27. ASSUME NEW c \in Callers, CheckAlive(c) PROVE CodeInv'
    <2>1. CASE NoAnswer(c)
      BY <2>1, NoAnswerCode
    <2>2. CASE Goto(c, "send") /\ UNCHANGED <<parent, local, procs>>
      BY <1>27, <2>2, SameCode DEF CheckAlive, CodeInv, PastConn, TypeOK, Terms, Callers
    <2>3. CASE MarkBroken(c, "failed")
      BY <2>3, MarkBrokenCode
    <2>4. CASE ReleaseAndReturn(c, "raised")
      BY <2>4, CodeAside, SameCode DEF ReleaseAndReturn, Return, TypeOK, Callers
    <2> QED
      BY <1>27, <2>1, <2>2, <2>3, <2>4 DEF CheckAlive, ExecuteRaises
  <1>28. ASSUME NEW c \in Callers, CloseTest(c) PROVE CodeInv'
    BY <1>28, CodeAside, SameCode DEF CloseTest, Terminate
  <1> QED
    BY <1>1, <1>2, <1>3, <1>4, <1>5, <1>6, <1>7, <1>8, <1>9, <1>10, <1>11, <1>12, <1>13, <1>14,
       <1>15, <1>16, <1>17, <1>18, <1>19, <1>20, <1>21, <1>22, <1>23, <1>24, <1>25, <1>26,
       <1>27, <1>28
    DEF Next, Step, ExecuteStep, TerminateStep, CloseStep

-----------------------------------------------------------------------------
(* The invariant is inductive                                              *)

LEMMA InitInv == Init => IInv
  <1> SUFFICES ASSUME Init PROVE IInv
    OBVIOUS
  <1> USE DEF Init
  <1>1. TypeOK
    <2>1. EmptySnapshot \in Snapshots /\ [rev |-> 0, fin |-> FALSE] \in Sandboxes
      BY DEF EmptySnapshot, Snapshots, Sandboxes, None
    <2>2. spawned \in 0..MaxWorkers
      BY BoundsAssumption
    <2>3. inbox \in [Workers -> Seq(Requests)] /\ outbox \in [Workers -> Seq(Responses)]
      OBVIOUS
    <2>4. timed \in BOOLEAN /\ closed \in BOOLEAN /\ broken \in BOOLEAN
      OBVIOUS
    <2> QED
      BY <2>1, <2>2, <2>3, <2>4 DEF TypeOK, Locations, Causes, Results
  <1>2. LockInv /\ RoleInv
    BY DEF LockInv, RoleInv, Holds, Inside, Terms, Served, Callers
  <1>3. SpawnInv
    BY DEF SpawnInv, Served, None, Callers
  <1>4. PipeInv
    BY DEF PipeInv, OneSandbox, NoResponse, EmptySnapshot, Callers
  <1>5. CodeInv
    BY DEF CodeInv, HasCode, Alive, Callers
  <1> QED
    BY <1>1, <1>2, <1>3, <1>4, <1>5 DEF IInv

LEMMA TypeStep ==
  ASSUME TypeOK, PipeInv, Next
  PROVE  TypeOK'
  <1>1. ASSUME NEW c \in Callers, Call(c) \/ CloseCall(c) \/ Step(c) PROVE TypeOK'
    BY <1>1, ExecuteType, TerminateType, CloseType DEF Step
  <1>2. ASSUME NEW w \in Workers, WorkerStep(w) PROVE TypeOK'
    BY <1>2, WorkerType DEF PipeInv
  <1> QED
    BY <1>1, <1>2 DEF Next

LEMMA StutterInv ==
  ASSUME IInv, UNCHANGED vars
  PROVE  IInv'
  <1> USE DEF vars, parent, flags, handles, local, procs, pipes
  <1>1. TypeOK'
    BY DEF IInv, TypeOK
  <1>2. LockInv' /\ RoleInv' /\ SpawnInv'
    BY DEF IInv, LockInv, RoleInv, SpawnInv, Holds, Gone
  <1>3. PipeInv'
    BY DEF IInv, PipeInv, OneSandbox
  <1>4. CodeInv'
    BY SameCode DEF IInv, CodeInv, PastConn
  <1> QED
    BY <1>1, <1>2, <1>3, <1>4 DEF IInv

LEMMA StepInv == IInv /\ [Next]_vars => IInv'
  <1>1. ASSUME IInv, Next PROVE IInv'
    BY <1>1, TypeStep, LockStep, RoleStep, SpawnStep, PipeStep, CodeStep DEF IInv
  <1> QED
    BY <1>1, StutterInv

LEMMA Inductive == Spec => []IInv
  BY InitInv, StepInv, PTL DEF Spec

-----------------------------------------------------------------------------
(* Theorems                                                                *)

\* Every variable keeps its type: the worker loop never runs a block whose request it has
\* lost, and no handle names a process that was never started.
THEOREM TypeCorrect == Spec => []TypeOK
  BY Inductive, PTL DEF IInv

\* All the answers execute() ever gives come from one process.  A thread that waited for
\* _request_lock may well start a second process on an executor that was closed or marked
\* broken meanwhile (SpawnInv), but the test in _communicate keeps it from ever asking it.
THEOREM AnswersFromOneSandbox == Spec => []OneSandbox
  BY Inductive, PTL DEF IInv, PipeInv

\* After a close() has run to its end no block runs and none is in a pipe, although close()
\* may have gone on without _request_lock.
THEOREM CloseIsFinal == Spec => []CloseStopsCode
  <1>1. IInv => CloseStopsCode
    BY DEF IInv, CodeInv, CloseStopsCode
  <1> QED
    BY <1>1, Inductive, PTL

\* Once the executor is marked broken no call receives an answer any more.
THEOREM BrokenIsSilent == Spec => BrokenIsFinal
  <1>1. ASSUME IInv, [Next]_vars, broken, NEW e \in Executors
        PROVE  got'[e] \in {got[e], NoResponse}
    <2> USE DEF local
    <2>1. CASE UNCHANGED vars
      BY <2>1 DEF vars
    <2>2. ASSUME NEW w \in Workers, WorkerStep(w) PROVE got' = got
      BY <2>2 DEF WorkerStep
    <2>3. ASSUME NEW c \in Callers, Call(c) PROVE got'[e] \in {got[e], NoResponse}
      BY <1>1, <2>3 DEF Call, IInv, TypeOK
    <2>4. ASSUME NEW c \in Callers, CloseCall(c) \/ CloseStep(c) PROVE got' = got
      BY <2>4 DEF CloseCall, CloseStep, CloseMark, CloseAcquire, CloseForced, CloseTest,
                  CloseSend, Terminate, ReleaseAndReturn, Return
    <2>5. ASSUME NEW c \in Callers, TerminateStep(c) PROVE got' = got
      BY <2>5 DEF TerminateStep, TermConn, TermTest, TermKill, TermRaises, TermForget, TermReturn,
                  MarkBroken, Terminate, NoAnswer, ReleaseAndReturn, Return
    <2>6. ASSUME NEW c \in Callers, Receive(c) PROVE FALSE
      <3>1. c \notin Closers
        BY <1>1, <2>6 DEF IInv, RoleInv, Receive, Waiting, Terms
      <3>2. c \notin Executors
        BY <1>1, <2>6 DEF IInv, RoleInv, Receive, Waiting, Served
      <3> QED
        BY <3>1, <3>2 DEF Callers
    <2>7. ASSUME NEW c \in Callers, ExecuteStep(c), ~Receive(c) PROVE got' = got
      BY <2>7
         DEF ExecuteStep, Acquire, Locked, Spawn, SpawnFails, Assign, Update, Check, CheckThat,
                  CheckAlive, ExecuteRaises, Send, PollEmpty, GiveUp, SeeGone, Timeout,
                  MarkBroken, Terminate, NoAnswer, ReleaseAndReturn, Return
    <2> QED
      BY <1>1, <2>1, <2>2, <2>3, <2>4, <2>5, <2>6, <2>7 DEF Next, Step
  <1>2. IInv /\ [Next]_vars =>
          [broken => \A c \in Executors : got'[c] \in {got[c], NoResponse}]_vars
    BY <1>1
  <1> QED
    BY <1>2, Inductive, PTL DEF Spec, BrokenIsFinal
=============================================================================
