----------------------- MODULE CodeExecutorRefinement -----------------------
(* More about CodeExecutor: whose answer a call gets, how old the cached     *)
(* snapshot may be, which workers can be lost track of, and that with one    *)
(* executing thread the executor is what Sandbox promises.                   *)
EXTENDS CodeExecutorProofs

-----------------------------------------------------------------------------
(* The invariants, in addition to IInv.                                    *)

\* Until close() is called a worker that is forgotten is dead, and the pipe goes with the process.
OrphanInv ==
  /\ NoOrphanBeforeClose
  /\ ~closed => \A e \in Executors : pc[e] = "term4" /\ process # None => worker[process] = "dead"
  /\ ~Gone => (process = None <=> conn = None)

Forced == \E k \in Closers : cause[k] = "forced"

\* A closer goes through _terminate_worker once, and unless one does without the lock nobody
\* finds the process gone that it has just found there.
RaiseInv ==
  /\ \A k \in Closers : ~closed \/ pc[k] \in {"closeMark", "closeLock", "closeTest", "closeSend"} =>
       cause[k] = "none"
  /\ ~Forced => \A c \in Callers :
       pc[c] \in {"term3", "term4", "alive", "closeSend"} => process # None
  /\ RaisesOnlyWhenForced

\* A snapshot of what its worker has been through to get to where it is in g.
IsPast(s, g) ==
  s.from # None => /\ s.rev <= g[s.from].rev
                   /\ s.fin => g[s.from].fin

SoundInv ==
  /\ IsPast(snapshot, sandbox)
  /\ \A c \in Callers : IsPast(got[c].snap, sandbox)
  /\ \A w \in Workers : \A i \in 1..Len(outbox[w]) : IsPast(outbox[w][i].snap, sandbox)

\* The snapshot that a worker would send now.
Picture(w) == [from |-> w, rev |-> sandbox[w].rev, fin |-> sandbox[w].fin]

Quiet(w) == inbox[w] = <<>> /\ outbox[w] = <<>>

\* The one request in the pipes of w is that of c, or it has become the one response.
Carried(c, w) ==
  \/ outbox[w] = <<>> /\ Len(inbox[w]) = 1 /\ inbox[w][1].id = <<c, calls[c]>>
  \/ /\ inbox[w] = <<>> /\ Len(outbox[w]) = 1
     /\ outbox[w][1].id = <<c, calls[c]>> /\ outbox[w][1].snap = Picture(w)

\* A pipe is empty when a thread is past the test of the flags and about to send, and holds
\* nothing but what belongs to the thread that waits: whoever leaves a request behind leaves the
\* executor closed or broken, or the worker dead.
RequestInv ==
  /\ \A w \in Workers : w > spawned => outbox[w] = <<>>
  /\ \A w \in Workers : worker[w] = "exec" => Head(inbox[w]).op = "execute"
  /\ ~Gone /\ (\A e \in Executors : ~Waiting(e)) => \A w \in Workers : Alive(w) => Quiet(w)
  /\ \A e \in Executors : pc[e] \in {"alive", "send"} /\ ConnUp => Quiet(conn)
  /\ \A e \in Executors : Waiting(e) /\ conn # None => Carried(e, conn)
  /\ ResponseIsMine

\* A close() that has come to its end, by a return or by an exception.
Ended(k) == pc[k] = "idle" /\ cause[k] # "none"

\* No code is left when a close() has ended, and a thread that still has a pipe is ahead of it.
EndInv ==
  /\ \A w \in Workers : HasCode(w) => \A k \in Closers : ~Ended(k)
  /\ \A e \in Executors : pc[e] \in Served /\ conn # None =>
       \A k \in Closers : pc[k] \notin Terms \ {"term1"} /\ ~Ended(k)

\* Of one executing thread: between the answer and its being cached no code runs.
UpdateInv ==
  \A e \in Executors : pc[e] = "update" =>
    /\ got[e].snap = Picture(1)
    /\ \A i \in 1..Len(inbox[1]) : inbox[1][i].op # "execute"

\* The sandbox and the cache are as the init code left them.
Fresh   == [rev |-> 0, fin |-> FALSE]
Shown   == [rev |-> snapshot.rev, fin |-> snapshot.fin]
AtFirst == sandbox[1] = Fresh /\ Shown = Fresh

\* The thread is on its way to the snapshot of a worker that it has started itself.
Starting(e) ==
  /\ phase[e] = "snapshot"
  /\ pc[e] \in Served \/ (pc[e] \in {"spawn", "assign", "check"} /\ ~Gone)

\* Of one executing thread: what the startup of a worker puts into the cache is what is there.
StartInv ==
  /\ worker[1] = "unborn" => spawned = 0 /\ AtFirst
  /\ \A e \in Executors : Starting(e) =>
       AtFirst /\ \A i \in 1..Len(inbox[1]) : inbox[1][i].op # "execute"

\* Unless the executor is closed or broken, a thread that talks to the worker finds _process set.
ProcessInv ==
  \A e \in Executors : pc[e] \in Served \cup {"check"} /\ ~Gone => process # None

-----------------------------------------------------------------------------
(* No worker is lost                                                       *)

\* A step that only moves a thread loses none.
LEMMA OrphanAside ==
  ASSUME TypeOK, OrphanInv, NEW c \in Callers, pc[c] # "assign",
         NEW l \in Locations \ {"term4"}, Goto(c, l), broken => broken',
         UNCHANGED <<closed, process, conn, spawned, worker>>
  PROVE  OrphanInv'
  BY DEF TypeOK, OrphanInv, NoOrphanBeforeClose, Alive, Gone, Callers, Goto

LEMMA NoAnswerOrphan ==
  ASSUME TypeOK, OrphanInv, NEW c \in Callers, NoAnswer(c), pc[c] # "assign"
  PROVE  OrphanInv'
  <1>1. Goto(c, "check") \/ Goto(c, "idle")
    BY DEF NoAnswer, ReleaseAndReturn, Return
  <1>2. UNCHANGED <<closed, broken, process, conn, spawned, worker>>
    BY DEF NoAnswer, ReleaseAndReturn, parent, flags, handles, procs
  <1> QED
    BY <1>1, <1>2, OrphanAside DEF Locations

LEMMA OrphanStep ==
  ASSUME TypeOK, LockInv, RoleInv, SpawnInv, PipeInv, OrphanInv, Next
  PROVE  OrphanInv'
  <1> USE DEF flags, handles, parent, local, pipes, procs, Goto
  <1>1. ASSUME NEW c \in Callers, Call(c) PROVE OrphanInv'
    BY <1>1, ThreadsAssumption, BoundsAssumption
       DEF Call, TypeOK, LockInv, RoleInv, SpawnInv, PipeInv, OrphanInv, NoOrphanBeforeClose,
           Alive, Gone, Holds, Inside, Terms, Served, Callers, None, Workers
  <1>2. ASSUME NEW c \in Callers, Acquire(c) PROVE OrphanInv'
    BY <1>2, ThreadsAssumption, BoundsAssumption
       DEF Acquire, TypeOK, LockInv, RoleInv, SpawnInv, PipeInv, OrphanInv, NoOrphanBeforeClose,
           Alive, Gone, Holds, Inside, Terms, Served, Callers, None, Workers
  <1>3. ASSUME NEW c \in Callers, Locked(c) PROVE OrphanInv'
    BY <1>3, ThreadsAssumption, BoundsAssumption
       DEF Locked, TypeOK, LockInv, RoleInv, SpawnInv, PipeInv, OrphanInv, NoOrphanBeforeClose,
           Alive, Gone, Holds, Inside, Terms, Served, Callers, None, Workers
  <1>4. ASSUME NEW c \in Callers, Spawn(c) PROVE OrphanInv'
    <2>1. c \in Executors
      BY <1>4 DEF Spawn, RoleInv, Terms, Callers
    <2>2. /\ process = None /\ spawned' = spawned + 1 /\ pc'[c] = "assign"
          /\ worker' = [worker EXCEPT ![spawned + 1] = "init"]
          /\ UNCHANGED <<closed, broken, process, conn>>
      BY <1>4, <2>1 DEF Spawn, SpawnInv, TypeOK
    <2>3. ASSUME ~closed, NEW w \in Workers, Alive(w) PROVE w = spawned + 1
      <3>1. ~\E e \in Executors : pc[e] = "assign"
        BY <1>4, <2>1 DEF Spawn, LockInv, Holds, Inside, Callers
      <3> QED
        BY <2>2, <2>3, <3>1 DEF OrphanInv, NoOrphanBeforeClose, Workers, None
    <2>4. ~closed' => \A w \in Workers : Alive(w)' => w = spawned'
      BY <2>2, <2>3 DEF Alive, TypeOK
    <2> QED
      BY <1>4, <2>1, <2>2, <2>4 DEF OrphanInv, NoOrphanBeforeClose, Gone, Spawn, TypeOK
  <1>5. ASSUME NEW c \in Callers, SpawnFails(c) PROVE OrphanInv'
    BY <1>5, ThreadsAssumption, BoundsAssumption
       DEF SpawnFails, MarkBroken, Terminate, TypeOK, LockInv, RoleInv, SpawnInv, PipeInv,
           OrphanInv, NoOrphanBeforeClose, Alive, Gone, Holds, Inside, Terms, Served, Callers,
           None, Workers
  <1>6. ASSUME NEW c \in Callers, Assign(c) PROVE OrphanInv'
    <2>1. c \in Executors
      BY <1>6 DEF Assign, RoleInv, Terms, Callers
    <2>2. process = None /\ process' = spawned /\ conn' = spawned /\ spawned \in 1..MaxWorkers
      BY <1>6, <2>1, BoundsAssumption DEF Assign, SpawnInv, TypeOK
    <2>3. ~closed => \A w \in Workers : Alive(w) => w = spawned
      BY <2>2 DEF OrphanInv, NoOrphanBeforeClose, Workers, None
    <2>4. UNCHANGED <<closed, broken, worker>> /\ \A w \in Workers : Alive(w)' = Alive(w)
      BY <1>6 DEF Assign, Alive
    <2>5. \A e \in Executors : pc'[e] # "term4"
      BY <1>6, <2>1 DEF Assign, LockInv, RoleInv, TypeOK, Holds, Inside, Terms, Callers
    <2> QED
      BY <2>2, <2>3, <2>4, <2>5 DEF OrphanInv, NoOrphanBeforeClose, Gone, None
  <1>7. ASSUME NEW c \in Callers, Update(c) PROVE OrphanInv'
    BY <1>7, ThreadsAssumption, BoundsAssumption
       DEF Update, Return, TypeOK, LockInv, RoleInv, SpawnInv, PipeInv, OrphanInv,
           NoOrphanBeforeClose, Alive, Gone, Holds, Inside, Terms, Served, Callers, None, Workers
  <1>8. ASSUME NEW c \in Callers, Check(c) PROVE OrphanInv'
    BY <1>8, NoAnswerOrphan, OrphanAside DEF Check, CheckThat, Locations
  <1>9. ASSUME NEW c \in Callers, Send(c) PROVE OrphanInv'
    BY <1>9, OrphanAside DEF Send, MarkBroken, Terminate, Locations
  <1>10. ASSUME NEW c \in Callers, Receive(c) PROVE OrphanInv'
    <2>1. Goto(c, "check") \/ Goto(c, "update")
      BY <1>10 DEF Receive
    <2>2. pc[c] # "assign" /\ UNCHANGED <<closed, broken, process, conn, spawned, worker>>
      BY <1>10 DEF Receive, Waiting
    <2> QED
      BY <2>1, <2>2, OrphanAside DEF Locations
  <1>11. ASSUME NEW c \in Callers, PollEmpty(c) PROVE OrphanInv'
    BY <1>11, ThreadsAssumption, BoundsAssumption
       DEF PollEmpty, TypeOK, LockInv, RoleInv, SpawnInv, PipeInv, OrphanInv, NoOrphanBeforeClose,
           Alive, Gone, Holds, Inside, Terms, Served, Callers, None, Workers
  <1>12. ASSUME NEW c \in Callers, GiveUp(c) PROVE OrphanInv'
    BY <1>12, NoAnswerOrphan DEF GiveUp
  <1>13. ASSUME NEW c \in Callers, SeeGone(c) PROVE OrphanInv'
    BY <1>13, ThreadsAssumption, BoundsAssumption
       DEF SeeGone, Waiting, MarkBroken, Terminate, TypeOK, LockInv, RoleInv, SpawnInv, PipeInv,
           OrphanInv, NoOrphanBeforeClose, Alive, Gone, Holds, Inside, Terms, Served, Callers,
           None, Workers
  <1>14. ASSUME NEW c \in Callers, Timeout(c) PROVE OrphanInv'
    BY <1>14, ThreadsAssumption, BoundsAssumption
       DEF Timeout, Late, Waiting, MarkBroken, Terminate, TypeOK, LockInv, RoleInv, SpawnInv,
           PipeInv, OrphanInv, NoOrphanBeforeClose, Alive, Gone, Holds, Inside, Terms, Served,
           Callers, None, Workers
  <1>15. ASSUME NEW c \in Callers, TermConn(c) PROVE OrphanInv'
    BY <1>15, ThreadsAssumption, BoundsAssumption
       DEF TermConn, TypeOK, LockInv, RoleInv, SpawnInv, PipeInv, OrphanInv, NoOrphanBeforeClose,
           Alive, Gone, Holds, Inside, Terms, Served, Callers, None, Workers
  <1>16. ASSUME NEW c \in Callers, TermTest(c) PROVE OrphanInv'
    BY <1>16, ThreadsAssumption, BoundsAssumption
       DEF TermTest, TypeOK, LockInv, RoleInv, SpawnInv, PipeInv, OrphanInv, NoOrphanBeforeClose,
           Alive, Gone, Holds, Inside, Terms, Served, Callers, None, Workers
  <1>17. ASSUME NEW c \in Callers, TermKill(c) PROVE OrphanInv'
    <2>1. /\ process \in Workers /\ pc' = [pc EXCEPT ![c] = "term4"]
          /\ worker' = [worker EXCEPT ![process] = "dead"]
          /\ UNCHANGED <<closed, broken, process, conn, spawned>>
      BY <1>17 DEF TermKill, TypeOK
    <2>2. worker'[process] = "dead" /\ \A w \in Workers : Alive(w)' => Alive(w)
      BY <2>1 DEF Alive, TypeOK
    <2>3. \A e \in Executors : pc'[e] = "assign" <=> pc[e] = "assign"
      BY <1>17, <2>1 DEF TermKill, TypeOK, Callers
    <2> QED
      BY <2>1, <2>2, <2>3 DEF OrphanInv, NoOrphanBeforeClose, Gone
  <1>18. ASSUME NEW c \in Callers, TermRaises(c) PROVE OrphanInv'
    BY <1>18, ThreadsAssumption, BoundsAssumption
       DEF TermRaises, MarkBroken, Terminate, ReleaseAndReturn, Return, TypeOK, LockInv, RoleInv,
           SpawnInv, PipeInv, OrphanInv, NoOrphanBeforeClose, Alive, Gone, Holds, Inside, Terms,
           Served, Callers, None, Workers
  <1>19. ASSUME NEW c \in Callers, TermForget(c) PROVE OrphanInv'
    BY <1>19, ThreadsAssumption, BoundsAssumption
       DEF TermForget, TypeOK, LockInv, RoleInv, SpawnInv, PipeInv, OrphanInv,
           NoOrphanBeforeClose, Alive, Gone, Holds, Inside, Terms, Served, Callers, None, Workers
  <1>20. ASSUME NEW c \in Callers, TermReturn(c) PROVE OrphanInv'
    <2>1. CASE NoAnswer(c)
      BY <1>20, <2>1, NoAnswerOrphan DEF TermReturn
    <2>2. ASSUME NEW r, ReleaseAndReturn(c, r) PROVE OrphanInv'
      BY <1>20, <2>2, OrphanAside DEF TermReturn, ReleaseAndReturn, Return, Locations
    <2> QED
      BY <1>20, <2>1, <2>2 DEF TermReturn
  <1>21. ASSUME NEW c \in Callers, CloseCall(c) PROVE OrphanInv'
    BY <1>21, ThreadsAssumption, BoundsAssumption
       DEF CloseCall, TypeOK, LockInv, RoleInv, SpawnInv, PipeInv, OrphanInv, NoOrphanBeforeClose,
           Alive, Gone, Holds, Inside, Terms, Served, Callers, None, Workers
  <1>22. ASSUME NEW c \in Callers, CloseMark(c) PROVE OrphanInv'
    BY <1>22, ThreadsAssumption, BoundsAssumption
       DEF CloseMark, TypeOK, LockInv, RoleInv, SpawnInv, PipeInv, OrphanInv, NoOrphanBeforeClose,
           Alive, Gone, Holds, Inside, Terms, Served, Callers, None, Workers
  <1>23. ASSUME NEW c \in Callers, CloseAcquire(c) PROVE OrphanInv'
    BY <1>23, ThreadsAssumption, BoundsAssumption
       DEF CloseAcquire, TypeOK, LockInv, RoleInv, SpawnInv, PipeInv, OrphanInv,
           NoOrphanBeforeClose, Alive, Gone, Holds, Inside, Terms, Served, Callers, None, Workers
  <1>24. ASSUME NEW c \in Callers, CloseForced(c) PROVE OrphanInv'
    BY <1>24, ThreadsAssumption, BoundsAssumption
       DEF CloseForced, Terminate, TypeOK, LockInv, RoleInv, SpawnInv, PipeInv, OrphanInv,
           NoOrphanBeforeClose, Alive, Gone, Holds, Inside, Terms, Served, Callers, None, Workers
  <1>25. ASSUME NEW c \in Callers, CloseSend(c) PROVE OrphanInv'
    BY <1>25, ThreadsAssumption, BoundsAssumption
       DEF CloseSend, Terminate, ReleaseAndReturn, Return, TypeOK, LockInv, RoleInv, SpawnInv,
           PipeInv, OrphanInv, NoOrphanBeforeClose, Alive, Gone, Holds, Inside, Terms, Served,
           Callers, None, Workers
  <1>26. ASSUME NEW w \in Workers, WorkerStep(w) PROVE OrphanInv'
    <2>1. UNCHANGED <<closed, broken, process, conn, pc, spawned>>
      BY <1>26 DEF WorkerStep
    <2>2. /\ \A x \in Workers : Alive(x)' => Alive(x)
          /\ \A x \in Workers : worker[x] = "dead" => worker'[x] = "dead"
      BY <1>26 DEF WorkerStep, WorkerReady, WorkerTake, WorkerFinish, WorkerEof, WorkerDies, Become,
                  Alive, TypeOK
    <2> QED
      BY <2>1, <2>2 DEF OrphanInv, NoOrphanBeforeClose, Gone, TypeOK
  <1>27. ASSUME NEW c \in Callers, CheckAlive(c) PROVE OrphanInv'
    <2>1. CASE NoAnswer(c)
      BY <1>27, <2>1, NoAnswerOrphan DEF CheckAlive
    <2>2. CASE ExecuteRaises(c)
      BY <1>27, <2>2, OrphanAside
         DEF CheckAlive, ExecuteRaises, MarkBroken, Terminate, ReleaseAndReturn, Return, Locations
    <2>3. CASE Goto(c, "send") /\ UNCHANGED <<parent, local, procs>>
      BY <1>27, <2>3, OrphanAside DEF CheckAlive, Locations
    <2> QED
      BY <1>27, <2>1, <2>2, <2>3 DEF CheckAlive
  <1>28. ASSUME NEW c \in Callers, CloseTest(c) PROVE OrphanInv'
    BY <1>28, OrphanAside DEF CloseTest, Terminate, Locations
  <1> QED
    BY <1>1, <1>2, <1>3, <1>4, <1>5, <1>6, <1>7, <1>8, <1>9, <1>10, <1>11, <1>12, <1>13, <1>14,
       <1>15, <1>16, <1>17, <1>18, <1>19, <1>20, <1>21, <1>22, <1>23, <1>24, <1>25, <1>26,
       <1>27, <1>28
    DEF Next, Step, ExecuteStep, TerminateStep, CloseStep

-----------------------------------------------------------------------------
(* Who finds the process gone                                              *)

LEMMA RaiseStep ==
  ASSUME TypeOK, LockInv, RoleInv, RaiseInv, Next
  PROVE  RaiseInv'
  <1> USE DEF flags, handles, parent, local, pipes, procs, Goto
  <1>1. ASSUME NEW c \in Callers, Call(c) PROVE RaiseInv'
    BY <1>1, ThreadsAssumption
       DEF Call, TypeOK, LockInv, RoleInv, RaiseInv, RaisesOnlyWhenForced, Forced, Holds, Inside,
           Terms, Callers
  <1>2. ASSUME NEW c \in Callers, Acquire(c) PROVE RaiseInv'
    BY <1>2, ThreadsAssumption
       DEF Acquire, TypeOK, LockInv, RoleInv, RaiseInv, RaisesOnlyWhenForced, Forced, Holds,
           Inside, Terms, Callers
  <1>3. ASSUME NEW c \in Callers, Locked(c) PROVE RaiseInv'
    BY <1>3, ThreadsAssumption
       DEF Locked, TypeOK, LockInv, RoleInv, RaiseInv, RaisesOnlyWhenForced, Forced, Holds,
           Inside, Terms, Callers
  <1>4. ASSUME NEW c \in Callers, Spawn(c) PROVE RaiseInv'
    BY <1>4, ThreadsAssumption
       DEF Spawn, TypeOK, LockInv, RoleInv, RaiseInv, RaisesOnlyWhenForced, Forced, Holds, Inside,
           Terms, Callers
  <1>5. ASSUME NEW c \in Callers, SpawnFails(c) PROVE RaiseInv'
    BY <1>5, ThreadsAssumption
       DEF SpawnFails, MarkBroken, Terminate, TypeOK, LockInv, RoleInv, RaiseInv,
           RaisesOnlyWhenForced, Forced, Holds, Inside, Terms, Callers
  <1>6. ASSUME NEW c \in Callers, Assign(c) PROVE RaiseInv'
    BY <1>6, ThreadsAssumption
       DEF Assign, TypeOK, LockInv, RoleInv, RaiseInv, RaisesOnlyWhenForced, Forced, Holds,
           Inside, Terms, Callers
  <1>7. ASSUME NEW c \in Callers, Update(c) PROVE RaiseInv'
    BY <1>7, ThreadsAssumption
       DEF Update, Return, TypeOK, LockInv, RoleInv, RaiseInv, RaisesOnlyWhenForced, Forced,
           Holds, Inside, Terms, Callers
  <1>8. ASSUME NEW c \in Callers, Check(c) PROVE RaiseInv'
    BY <1>8, ThreadsAssumption
       DEF Check, CheckThat, NoAnswer, ReleaseAndReturn, Return, TypeOK, LockInv, RoleInv,
           RaiseInv, RaisesOnlyWhenForced, Forced, Holds, Inside, Terms, Callers
  <1>9. ASSUME NEW c \in Callers, Send(c) PROVE RaiseInv'
    <2>1. CASE MarkBroken(c, "error")
      BY <1>9, <2>1, ThreadsAssumption
         DEF Send, MarkBroken, Terminate, TypeOK, RoleInv, RaiseInv, RaisesOnlyWhenForced, Forced,
             Terms, Callers
    <2>2. CASE Goto(c, "wait") /\ UNCHANGED <<parent, local>>
      BY <1>9, <2>2 DEF Send, TypeOK, RaiseInv, RaisesOnlyWhenForced, Forced, Callers
    <2> QED
      BY <1>9, <2>1, <2>2 DEF Send
  <1>10. ASSUME NEW c \in Callers, Receive(c) PROVE RaiseInv'
    BY <1>10, ThreadsAssumption
       DEF Receive, Waiting, TypeOK, LockInv, RoleInv, RaiseInv, RaisesOnlyWhenForced, Forced,
           Holds, Inside, Terms, Callers
  <1>11. ASSUME NEW c \in Callers, PollEmpty(c) PROVE RaiseInv'
    BY <1>11, ThreadsAssumption
       DEF PollEmpty, TypeOK, LockInv, RoleInv, RaiseInv, RaisesOnlyWhenForced, Forced, Holds,
           Inside, Terms, Callers
  <1>12. ASSUME NEW c \in Callers, GiveUp(c) PROVE RaiseInv'
    BY <1>12, ThreadsAssumption
       DEF GiveUp, NoAnswer, ReleaseAndReturn, Return, TypeOK, LockInv, RoleInv, RaiseInv,
           RaisesOnlyWhenForced, Forced, Holds, Inside, Terms, Callers
  <1>13. ASSUME NEW c \in Callers, SeeGone(c) PROVE RaiseInv'
    BY <1>13, ThreadsAssumption
       DEF SeeGone, Waiting, MarkBroken, Terminate, TypeOK, LockInv, RoleInv, RaiseInv,
           RaisesOnlyWhenForced, Forced, Holds, Inside, Terms, Callers
  <1>14. ASSUME NEW c \in Callers, Timeout(c) PROVE RaiseInv'
    BY <1>14, ThreadsAssumption
       DEF Timeout, Late, Waiting, MarkBroken, Terminate, TypeOK, LockInv, RoleInv, RaiseInv,
           RaisesOnlyWhenForced, Forced, Holds, Inside, Terms, Callers
  <1>15. ASSUME NEW c \in Callers, TermConn(c) PROVE RaiseInv'
    BY <1>15, ThreadsAssumption
       DEF TermConn, TypeOK, LockInv, RoleInv, RaiseInv, RaisesOnlyWhenForced, Forced, Holds,
           Inside, Terms, Callers
  <1>16. ASSUME NEW c \in Callers, TermTest(c) PROVE RaiseInv'
    BY <1>16, ThreadsAssumption
       DEF TermTest, TypeOK, LockInv, RoleInv, RaiseInv, RaisesOnlyWhenForced, Forced, Holds,
           Inside, Terms, Callers
  <1>17. ASSUME NEW c \in Callers, TermKill(c) PROVE RaiseInv'
    BY <1>17, ThreadsAssumption
       DEF TermKill, TypeOK, LockInv, RoleInv, RaiseInv, RaisesOnlyWhenForced, Forced, Holds,
           Inside, Terms, Callers
  <1>18. ASSUME NEW c \in Callers, TermRaises(c) PROVE RaiseInv'
    BY <1>18, ThreadsAssumption
       DEF TermRaises, MarkBroken, Terminate, ReleaseAndReturn, Return, TypeOK, LockInv, RoleInv,
           RaiseInv, RaisesOnlyWhenForced, Forced, Holds, Inside, Terms, Callers
  <1>19. ASSUME NEW c \in Callers, TermForget(c) PROVE RaiseInv'
    BY <1>19, ThreadsAssumption
       DEF TermForget, TypeOK, LockInv, RoleInv, RaiseInv, RaisesOnlyWhenForced, Forced, Holds,
           Inside, Terms, Callers
  <1>20. ASSUME NEW c \in Callers, TermReturn(c) PROVE RaiseInv'
    <2>1. CASE NoAnswer(c)
      BY <1>20, <2>1, ThreadsAssumption
         DEF TermReturn, NoAnswer, ReleaseAndReturn, Return, TypeOK, RoleInv, RaiseInv,
             RaisesOnlyWhenForced, Forced, Terms, Callers
    <2>2. ASSUME NEW r \in Results \ {"raised", "closeRaised"}, ReleaseAndReturn(c, r)
          PROVE  RaiseInv'
      BY <1>20, <2>2, ThreadsAssumption
         DEF TermReturn, ReleaseAndReturn, Return, TypeOK, RoleInv, RaiseInv,
             RaisesOnlyWhenForced, Forced, Terms, Callers
    <2>3. CASE cause[c] # "error"
      <3> DEFINE r == IF cause[c] \in {"close", "forced"} THEN "closeDone" ELSE cause[c]
      <3>1. cause[c] \in Causes
        BY DEF TypeOK
      <3>2. r \in Results \ {"raised", "closeRaised"}
        BY <2>3, <3>1 DEF Causes, Results
      <3>3. ReleaseAndReturn(c, r)
        BY <1>20, <2>3 DEF TermReturn
      <3> QED
        BY <2>2, <3>2, <3>3
    <2> QED
      BY <1>20, <2>1, <2>3 DEF TermReturn
  <1>21. ASSUME NEW c \in Callers, CloseCall(c) PROVE RaiseInv'
    BY <1>21, ThreadsAssumption
       DEF CloseCall, TypeOK, LockInv, RoleInv, RaiseInv, RaisesOnlyWhenForced, Forced, Holds,
           Inside, Terms, Callers
  <1>22. ASSUME NEW c \in Callers, CloseMark(c) PROVE RaiseInv'
    BY <1>22, ThreadsAssumption
       DEF CloseMark, TypeOK, LockInv, RoleInv, RaiseInv, RaisesOnlyWhenForced, Forced, Holds,
           Inside, Terms, Callers
  <1>23. ASSUME NEW c \in Callers, CloseAcquire(c) PROVE RaiseInv'
    BY <1>23, ThreadsAssumption
       DEF CloseAcquire, TypeOK, LockInv, RoleInv, RaiseInv, RaisesOnlyWhenForced, Forced, Holds,
           Inside, Terms, Callers
  <1>24. ASSUME NEW c \in Callers, CloseForced(c) PROVE RaiseInv'
    BY <1>24, ThreadsAssumption
       DEF CloseForced, Terminate, TypeOK, LockInv, RoleInv, RaiseInv, RaisesOnlyWhenForced,
           Forced, Holds, Inside, Terms, Callers
  <1>25. ASSUME NEW c \in Callers, CloseSend(c) PROVE RaiseInv'
    BY <1>25, ThreadsAssumption
       DEF CloseSend, Terminate, ReleaseAndReturn, Return, TypeOK, LockInv, RoleInv, RaiseInv,
           RaisesOnlyWhenForced, Forced, Holds, Inside, Terms, Callers
  <1>26. ASSUME NEW w \in Workers, WorkerStep(w) PROVE RaiseInv'
    BY <1>26 DEF WorkerStep, RaiseInv, RaisesOnlyWhenForced, Forced
  <1>27. ASSUME NEW c \in Callers, CheckAlive(c) PROVE RaiseInv'
    <2>1. c \in Executors /\ (process = None => Forced)
      BY <1>27 DEF CheckAlive, RoleInv, RaiseInv, Terms, Callers
    <2>2. CASE NoAnswer(c)
      BY <1>27, <2>1, <2>2, ThreadsAssumption
         DEF CheckAlive, NoAnswer, ReleaseAndReturn, Return, TypeOK, LockInv, RoleInv, RaiseInv,
             RaisesOnlyWhenForced, Forced, Holds, Inside, Terms, Callers
    <2>3. CASE process = None /\ ExecuteRaises(c)
      BY <1>27, <2>1, <2>3, ThreadsAssumption
         DEF CheckAlive, ExecuteRaises, MarkBroken, Terminate, ReleaseAndReturn, Return, TypeOK,
             RoleInv, RaiseInv, RaisesOnlyWhenForced, Forced, Terms, Callers
    <2>4. CASE Goto(c, "send") /\ UNCHANGED <<parent, local, procs>>
      BY <1>27, <2>4 DEF CheckAlive, TypeOK, RaiseInv, RaisesOnlyWhenForced, Forced, Callers
    <2> QED
      BY <1>27, <2>2, <2>3, <2>4 DEF CheckAlive
  <1>28. ASSUME NEW c \in Callers, CloseTest(c) PROVE RaiseInv'
    <2>1. c \in Closers /\ closed
      BY <1>28, ThreadsAssumption DEF CloseTest, RoleInv, Callers
    <2>2. CASE process # None /\ Goto(c, "closeSend") /\ UNCHANGED <<parent, local, procs>>
      BY <1>28, <2>1, <2>2
         DEF CloseTest, TypeOK, RaiseInv, RaisesOnlyWhenForced, Forced, Callers
    <2>3. CASE Terminate(c, "close") /\ UNCHANGED <<parent, procs>>
      BY <1>28, <2>1, <2>3
         DEF CloseTest, Terminate, TypeOK, RaiseInv, RaisesOnlyWhenForced, Forced, Callers
    <2> QED
      BY <1>28, <2>2, <2>3 DEF CloseTest
  <1> QED
    BY <1>1, <1>2, <1>3, <1>4, <1>5, <1>6, <1>7, <1>8, <1>9, <1>10, <1>11, <1>12, <1>13, <1>14,
       <1>15, <1>16, <1>17, <1>18, <1>19, <1>20, <1>21, <1>22, <1>23, <1>24, <1>25, <1>26,
       <1>27, <1>28
    DEF Next, Step, ExecuteStep, TerminateStep, CloseStep

-----------------------------------------------------------------------------
(* How old a snapshot may be                                               *)

\* Sandboxes only grow, and what is a snapshot of one remains one.
LEMMA PastKept ==
  ASSUME NEW g \in [Workers -> Sandboxes], NEW h \in [Workers -> Sandboxes],
         \A w \in Workers : g[w].rev <= h[w].rev /\ (g[w].fin => h[w].fin),
         NEW s \in Snapshots, IsPast(s, g)
  PROVE  IsPast(s, h)
  <1>1. CASE s.from = None
    BY <1>1 DEF IsPast
  <1>2. CASE s.from # None
    <2>1. s.from \in Workers /\ s.rev \in Nat
      BY <1>2 DEF Snapshots
    <2>2. g[s.from].rev \in Nat /\ h[s.from].rev \in Nat
      BY <2>1 DEF Sandboxes
    <2> QED
      BY <1>2, <2>1, <2>2 DEF IsPast
  <1> QED
    BY <1>1, <1>2

LEMMA SoundStep ==
  ASSUME TypeOK, PipeInv, SoundInv, Next
  PROVE  SoundInv'
  <1> USE DEF flags, handles, parent, local, pipes, procs, Goto
  <1>1. ASSUME NEW c \in Callers, Call(c) PROVE SoundInv'
    <2>1. IsPast(NoResponse.snap, sandbox)
      BY DEF NoResponse, EmptySnapshot, IsPast
    <2> QED
      BY <1>1, <2>1 DEF Call, TypeOK, SoundInv
  <1>2. ASSUME NEW c \in Callers, Acquire(c) PROVE SoundInv'
    BY <1>2 DEF Acquire, TypeOK, SoundInv
  <1>3. ASSUME NEW c \in Callers, Locked(c) PROVE SoundInv'
    BY <1>3 DEF Locked, TypeOK, SoundInv
  <1>4. ASSUME NEW c \in Callers, Spawn(c) PROVE SoundInv'
    BY <1>4 DEF Spawn, TypeOK, SoundInv
  <1>5. ASSUME NEW c \in Callers, SpawnFails(c) PROVE SoundInv'
    BY <1>5 DEF SpawnFails, MarkBroken, Terminate, TypeOK, SoundInv
  <1>6. ASSUME NEW c \in Callers, Assign(c) PROVE SoundInv'
    BY <1>6 DEF Assign, TypeOK, SoundInv
  <1>7. ASSUME NEW c \in Callers, Update(c) PROVE SoundInv'
    BY <1>7 DEF Update, Return, TypeOK, SoundInv
  <1>8. ASSUME NEW c \in Callers, Check(c) PROVE SoundInv'
    BY <1>8 DEF Check, CheckThat, NoAnswer, ReleaseAndReturn, Return, TypeOK, SoundInv
  <1>9. ASSUME NEW c \in Callers, Send(c) PROVE SoundInv'
    BY <1>9 DEF Send, MarkBroken, Terminate, TypeOK, SoundInv
  <1>10. ASSUME NEW c \in Callers, Receive(c) PROVE SoundInv'
    <2>1. conn \in Workers /\ outbox[conn] # <<>> /\ outbox[conn] \in Seq(Responses)
      BY <1>10 DEF Receive, TypeOK
    <2>2. IsPast(Head(outbox[conn]).snap, sandbox)
      <3>1. 1 \in 1..Len(outbox[conn]) /\ Head(outbox[conn]) = outbox[conn][1]
        BY <2>1
      <3> QED
        BY <2>1, <3>1 DEF SoundInv
    <2>3. \A w \in Workers : \A i \in 1..Len(outbox'[w]) : IsPast(outbox'[w][i].snap, sandbox)
      <3>1. \A i \in 1..Len(Tail(outbox[conn])) :
              i + 1 \in 1..Len(outbox[conn]) /\ Tail(outbox[conn])[i] = outbox[conn][i + 1]
        BY <2>1
      <3>2. outbox' = [outbox EXCEPT ![conn] = Tail(outbox[conn])]
        BY <1>10 DEF Receive
      <3> QED
        BY <2>1, <3>1, <3>2 DEF SoundInv, TypeOK
    <2>4. /\ got' = [got EXCEPT ![c] = Head(outbox[conn])] /\ sandbox' = sandbox
          /\ snapshot' \in {snapshot, Head(outbox[conn]).snap}
      BY <1>10 DEF Receive
    <2> QED
      BY <2>2, <2>3, <2>4 DEF SoundInv, TypeOK
  <1>11. ASSUME NEW c \in Callers, PollEmpty(c) PROVE SoundInv'
    BY <1>11 DEF PollEmpty, TypeOK, SoundInv
  <1>12. ASSUME NEW c \in Callers, GiveUp(c) PROVE SoundInv'
    BY <1>12 DEF GiveUp, NoAnswer, ReleaseAndReturn, Return, TypeOK, SoundInv
  <1>13. ASSUME NEW c \in Callers, SeeGone(c) PROVE SoundInv'
    BY <1>13 DEF SeeGone, Waiting, MarkBroken, Terminate, TypeOK, SoundInv
  <1>14. ASSUME NEW c \in Callers, Timeout(c) PROVE SoundInv'
    BY <1>14 DEF Timeout, Late, Waiting, MarkBroken, Terminate, TypeOK, SoundInv
  <1>15. ASSUME NEW c \in Callers, TermConn(c) PROVE SoundInv'
    BY <1>15 DEF TermConn, TypeOK, SoundInv
  <1>16. ASSUME NEW c \in Callers, TermTest(c) PROVE SoundInv'
    BY <1>16 DEF TermTest, TypeOK, SoundInv
  <1>17. ASSUME NEW c \in Callers, TermKill(c) PROVE SoundInv'
    BY <1>17 DEF TermKill, TypeOK, SoundInv
  <1>18. ASSUME NEW c \in Callers, TermRaises(c) PROVE SoundInv'
    BY <1>18 DEF TermRaises, MarkBroken, Terminate, ReleaseAndReturn, Return, TypeOK, SoundInv
  <1>19. ASSUME NEW c \in Callers, TermForget(c) PROVE SoundInv'
    BY <1>19 DEF TermForget, TypeOK, SoundInv
  <1>20. ASSUME NEW c \in Callers, TermReturn(c) PROVE SoundInv'
    BY <1>20 DEF TermReturn, NoAnswer, ReleaseAndReturn, Return, TypeOK, SoundInv
  <1>21. ASSUME NEW c \in Callers, CloseCall(c) PROVE SoundInv'
    BY <1>21 DEF CloseCall, TypeOK, SoundInv
  <1>22. ASSUME NEW c \in Callers, CloseMark(c) PROVE SoundInv'
    BY <1>22 DEF CloseMark, TypeOK, SoundInv
  <1>23. ASSUME NEW c \in Callers, CloseAcquire(c) PROVE SoundInv'
    BY <1>23 DEF CloseAcquire, TypeOK, SoundInv
  <1>24. ASSUME NEW c \in Callers, CloseForced(c) PROVE SoundInv'
    BY <1>24 DEF CloseForced, Terminate, TypeOK, SoundInv
  <1>25. ASSUME NEW c \in Callers, CloseSend(c) PROVE SoundInv'
    BY <1>25 DEF CloseSend, Terminate, ReleaseAndReturn, Return, TypeOK, SoundInv
  <1>26. ASSUME NEW w \in Workers, WorkerStep(w) PROVE SoundInv'
    <2>1. UNCHANGED <<snapshot, got>>
      BY <1>26 DEF WorkerStep
    <2>2. /\ sandbox' \in [Workers -> Sandboxes]
          /\ \A x \in Workers : /\ sandbox[x].rev <= sandbox'[x].rev
                                /\ sandbox[x].fin => sandbox'[x].fin
      <3>1. CASE sandbox' = sandbox
        BY <3>1 DEF TypeOK, Sandboxes
      <3>2. CASE WorkerFinish(w)
        <4>1. PICK fin \in {sandbox[w].fin, TRUE} :
                sandbox' = [sandbox EXCEPT ![w] = [rev |-> sandbox[w].rev + 1, fin |-> fin]]
          BY <3>2 DEF WorkerFinish, AfterBlock
        <4>2. \A x \in Workers : sandbox[x].rev \in Nat /\ sandbox[x].fin \in BOOLEAN
          BY DEF TypeOK, Sandboxes
        <4>3. fin \in BOOLEAN /\ (sandbox[w].fin => fin)
          BY <4>2
        <4>4. [rev |-> sandbox[w].rev + 1, fin |-> fin] \in Sandboxes
          BY <4>2, <4>3 DEF Sandboxes
        <4> QED
          BY <4>1, <4>2, <4>3, <4>4 DEF TypeOK
      <3> QED
        BY <1>26, <3>1, <3>2 DEF WorkerStep, WorkerReady, WorkerTake, WorkerEof, WorkerDies
    <2>3. \A s \in Snapshots : IsPast(s, sandbox) => IsPast(s, sandbox')
      BY <2>2, PastKept DEF TypeOK
    <2>4. IsPast(snapshot, sandbox') /\ \A c \in Callers : IsPast(got[c].snap, sandbox')
      BY <2>3, ResponseType DEF TypeOK, SoundInv
    <2>5. ASSUME NEW x \in Workers, NEW i \in 1..Len(outbox[x])
          PROVE  IsPast(outbox[x][i].snap, sandbox')
      <3>1. outbox[x][i] \in Responses
        BY DEF TypeOK
      <3>2. outbox[x][i].snap \in Snapshots
        BY <3>1, ResponseType
      <3> QED
        BY <2>3, <3>2 DEF SoundInv
    <2>6. CASE UNCHANGED outbox
      BY <2>1, <2>4, <2>5, <2>6 DEF SoundInv
    <2>7. ASSUME NEW g, g = sandbox'[w], Respond(w, g) PROVE SoundInv'
      <3> DEFINE r == [id   |-> Head(inbox[w]).id,
                       snap |-> [from |-> w, rev |-> g.rev, fin |-> g.fin]]
      <3>1. IsPast(r.snap, sandbox')
        <4>1. g.rev \in Nat
          BY <2>2, <2>7 DEF Sandboxes
        <4> QED
          BY <2>7, <4>1 DEF IsPast
      <3>2. \A i \in 1..Len(Append(outbox[w], r)) : IsPast(Append(outbox[w], r)[i].snap, sandbox')
        <4>1. outbox[w] \in Seq(Responses)
          BY DEF TypeOK
        <4> HIDE DEF r
        <4>2. /\ Len(Append(outbox[w], r)) = Len(outbox[w]) + 1 /\ Len(outbox[w]) \in Nat
              /\ \A i \in 1..Len(outbox[w]) : Append(outbox[w], r)[i] = outbox[w][i]
              /\ Append(outbox[w], r)[Len(outbox[w]) + 1] = r
          BY <4>1
        <4> QED
          BY <2>5, <3>1, <4>2
      <3>3. outbox' = [outbox EXCEPT ![w] = Append(outbox[w], r)]
        BY <2>7 DEF Respond
      <3> QED
        BY <2>1, <2>4, <2>5, <3>2, <3>3 DEF SoundInv, TypeOK
    <2>8. CASE WorkerTake(w)
      <3>1. sandbox' = sandbox
        BY <2>8 DEF WorkerTake
      <3> QED
        BY <2>6, <2>7, <2>8, <3>1 DEF WorkerTake
    <2>9. CASE WorkerFinish(w)
      <3>1. PICK g \in AfterBlock(sandbox[w]) : /\ sandbox' = [sandbox EXCEPT ![w] = g]
                                                /\ Respond(w, g) \/ UNCHANGED outbox
        BY <2>9 DEF WorkerFinish
      <3>2. sandbox \in [Workers -> Sandboxes]
        BY DEF TypeOK
      <3>3. sandbox' = [sandbox EXCEPT ![w] = g] => g = sandbox'[w]
        BY <3>2
      <3> QED
        BY <2>6, <2>7, <3>1, <3>3
    <2> QED
      BY <1>26, <2>6, <2>8, <2>9 DEF WorkerStep, WorkerReady, WorkerEof, WorkerDies
  <1>27. ASSUME NEW c \in Callers, CheckAlive(c) PROVE SoundInv'
    BY <1>27
       DEF CheckAlive, ExecuteRaises, MarkBroken, Terminate, NoAnswer, ReleaseAndReturn, Return,
           TypeOK, SoundInv
  <1>28. ASSUME NEW c \in Callers, CloseTest(c) PROVE SoundInv'
    BY <1>28 DEF CloseTest, Terminate, TypeOK, SoundInv
  <1> QED
    BY <1>1, <1>2, <1>3, <1>4, <1>5, <1>6, <1>7, <1>8, <1>9, <1>10, <1>11, <1>12, <1>13, <1>14,
       <1>15, <1>16, <1>17, <1>18, <1>19, <1>20, <1>21, <1>22, <1>23, <1>24, <1>25, <1>26,
       <1>27, <1>28
    DEF Next, Step, ExecuteStep, TerminateStep, CloseStep

-----------------------------------------------------------------------------
(* Whose answer a call gets                                                *)

\* A thread moves to a place where it neither is about to send nor waits.  It has not been
\* waiting, or leaves the executor closed or broken, or there is no worker that could answer.
LEMMA RequestAside ==
  ASSUME TypeOK, RequestInv, NEW c \in Callers, NEW l \in Locations \ Served, Goto(c, l),
         ~Waiting(c) \/ Gone' \/ \A w \in Workers : ~Alive(w),
         Gone => Gone', conn' \in {conn, None},
         \A e \in Executors : \/ calls'[e] = calls[e] /\ got'[e] = got[e]
                              \/ e = c /\ got'[e] = NoResponse,
         UNCHANGED procs
  PROVE  RequestInv'
  <1>1. \A e \in Executors : pc'[e] \in Served => pc'[e] = pc[e] /\ e # c
    BY DEF TypeOK, Goto, Served, Callers
  <1>2. \/ ~Gone' /\ (\A e \in Executors : ~Waiting(e)') => \A e \in Executors : ~Waiting(e)
        \/ \A w \in Workers : ~Alive(w)
    BY DEF TypeOK, Goto, Served, Waiting, Callers
  <1>3. \A w \in Workers : Quiet(w)' = Quiet(w) /\ Alive(w)' = Alive(w)
    BY DEF Quiet, Alive, procs, pipes
  <1>4. \A e \in Executors : \A w \in Workers : e # c => Carried(e, w)' = Carried(e, w)
    BY DEF Carried, Picture, procs, pipes
  <1>5. conn' # None => conn' = conn /\ conn \in Workers
    BY DEF TypeOK
  <1>6. ResponseIsMine'
    BY DEF RequestInv, ResponseIsMine
  <1> QED
    BY <1>1, <1>2, <1>3, <1>4, <1>5, <1>6
    DEF RequestInv, ConnUp, Waiting, Served, procs, pipes

LEMMA NoAnswerRequest ==
  ASSUME TypeOK, RequestInv, NEW c \in Callers, NoAnswer(c),
         ~Waiting(c) \/ Gone \/ \A w \in Workers : ~Alive(w)
  PROVE  RequestInv'
  <1>1. Goto(c, "check") \/ Goto(c, "idle")
    BY DEF NoAnswer, ReleaseAndReturn, Return
  <1>2. UNCHANGED <<closed, broken, conn, calls, got, procs>>
    BY DEF NoAnswer, ReleaseAndReturn, Return, parent, flags, handles
  <1>3. {"check", "idle"} \subseteq Locations \ Served
    BY DEF Locations, Served
  <1>4. Gone' = Gone
    BY <1>2 DEF Gone
  <1> QED
    BY <1>1, <1>2, <1>3, <1>4, RequestAside

LEMMA EmptySeq ==
  ASSUME NEW S, NEW s \in Seq(S), Len(s) = 0
  PROVE  s = <<>>
  OBVIOUS

\* A thread in the protected block is the only one there.
LEMMA Alone ==
  ASSUME LockInv, NEW c \in Callers, Holds(c), NEW e \in Callers, Holds(e)
  PROVE  e = c
  BY DEF LockInv

LEMMA RequestStep ==
  ASSUME TypeOK, LockInv, RoleInv, SpawnInv, PipeInv, OrphanInv, RequestInv, Next
  PROVE  RequestInv'
  <1> USE DEF flags, handles, parent, local, pipes, procs, Goto
  <1>1. ASSUME NEW c \in Callers, Call(c) PROVE RequestInv'
    <2>1. Goto(c, "acquire") \/ Goto(c, "idle")
      BY <1>1 DEF Call
    <2>2. ~Waiting(c) /\ UNCHANGED <<closed, broken, conn, procs>>
      BY <1>1 DEF Call, Waiting
    <2>3. \A e \in Executors : \/ calls'[e] = calls[e] /\ got'[e] = got[e]
                               \/ e = c /\ got'[e] = NoResponse
      BY <1>1 DEF Call, TypeOK, Callers
    <2>4. {"acquire", "idle"} \subseteq Locations \ Served
      BY DEF Locations, Served
    <2> QED
      BY <2>1, <2>2, <2>3, <2>4, RequestAside DEF Gone
  <1>2. ASSUME NEW c \in Callers, Acquire(c) PROVE RequestInv'
    BY <1>2, RequestAside DEF Acquire, Waiting, Served, Locations, Gone, TypeOK
  <1>3. ASSUME NEW c \in Callers, Locked(c) PROVE RequestInv'
    BY <1>3, RequestAside DEF Locked, Waiting, Served, Locations, Gone, TypeOK
  <1>4. ASSUME NEW c \in Callers, Spawn(c) PROVE RequestInv'
    <2>1. /\ spawned + 1 \in Workers /\ spawned \in Nat /\ spawned' = spawned + 1
          /\ worker' = [worker EXCEPT ![spawned + 1] = "init"]
          /\ pc' = [pc EXCEPT ![c] = "assign"]
          /\ UNCHANGED <<closed, broken, conn, calls, got, sandbox, inbox, outbox>>
      BY <1>4, BoundsAssumption DEF Spawn, TypeOK, Workers
    <2>2. Quiet(spawned + 1)
      BY <2>1 DEF RequestInv, PipeInv, Quiet
    <2>3. \A e \in Executors : /\ pc[e] \in Served <=> pc'[e] \in Served
                               /\ pc'[e] \in Served => pc'[e] = pc[e]
      BY <1>4, <2>1 DEF Spawn, TypeOK, Served, Callers
    <2>4. \A e \in Executors : Waiting(e)' = Waiting(e)
      BY <1>4, <2>1 DEF Spawn, Waiting, TypeOK, Callers
    <2>5. \A w \in Workers : /\ w # spawned + 1 => worker'[w] = worker[w]
                             /\ worker'[w] = "exec" => worker[w] = "exec"
                             /\ w > spawned' => w > spawned
      BY <2>1 DEF TypeOK, Workers
    <2>6. conn # None => conn \in Workers /\ conn # spawned + 1
      BY <2>1 DEF TypeOK, SpawnInv
    <2> QED
      BY <2>1, <2>2, <2>3, <2>4, <2>5, <2>6
      DEF RequestInv, ConnUp, Quiet, Carried, Picture, Served, ResponseIsMine, Alive, Gone
  <1>5. ASSUME NEW c \in Callers, SpawnFails(c) PROVE RequestInv'
    BY <1>5, RequestAside
       DEF SpawnFails, MarkBroken, Terminate, Waiting, Served, Locations, Gone, TypeOK
  <1>6. ASSUME NEW c \in Callers, Assign(c) PROVE RequestInv'
    <2>1. Holds(c) /\ \A e \in Executors : pc'[e] \notin Served
      BY <1>6, Alone DEF Assign, Holds, Inside, Served, TypeOK, Callers
    <2>2. \A e \in Executors : ~Waiting(e) /\ ~Waiting(e)'
      BY <1>6, <2>1, Alone DEF Assign, Holds, Inside, Served, Waiting, TypeOK, Callers
    <2> QED
      BY <1>6, <2>1, <2>2
      DEF Assign, RequestInv, Served, Waiting, Quiet, Alive, Gone, ResponseIsMine
  <1>7. ASSUME NEW c \in Callers, Update(c) PROVE RequestInv'
    BY <1>7, RequestAside DEF Update, Return, Waiting, Served, Locations, Gone, TypeOK
  <1>8. ASSUME NEW c \in Callers, Check(c) PROVE RequestInv'
    <2>1. Holds(c)
      BY <1>8 DEF Check, CheckThat, Holds, Inside
    <2>2. CASE NoAnswer(c)
      BY <1>8, <2>2, NoAnswerRequest DEF Check, CheckThat, Waiting
    <2>3. CASE ~Gone /\ Goto(c, "alive") /\ UNCHANGED <<parent, local, procs>>
      <3>1. \A e \in Executors : ~Waiting(e)
        BY <2>1, <1>8, Alone DEF Check, CheckThat, Waiting, Holds, Inside, Callers
      <3>2. ConnUp => Quiet(conn)
        BY <2>3, <3>1 DEF RequestInv, ConnUp, SpawnInv, TypeOK, Alive
      <3>3. \A e \in Executors : ~Waiting(e)'
        BY <2>3, <3>1 DEF Waiting, TypeOK, Callers
      <3> QED
        BY <2>3, <3>1, <3>2, <3>3
        DEF RequestInv, ConnUp, Quiet, Alive, Gone, ResponseIsMine
    <2> QED
      BY <1>8, <2>2, <2>3 DEF Check, CheckThat, Gone
  <1>9. ASSUME NEW c \in Callers, Send(c) PROVE RequestInv'
    <2>1. CASE MarkBroken(c, "error")
      <3>1. Goto(c, "term1") /\ "term1" \in Locations \ Served
        BY <2>1 DEF MarkBroken, Terminate, Locations, Served
      <3>2. Gone' /\ UNCHANGED <<conn, calls, got, procs>>
        BY <2>1 DEF MarkBroken, Terminate, Gone
      <3> QED
        BY <3>1, <3>2, RequestAside
    <2>2. CASE ConnUp /\ ~MarkBroken(c, "error")
      <3> DEFINE req == [op |-> phase[c], id |-> <<c, calls[c]>>]
      <3>1. /\ c \in Executors /\ conn \in Workers /\ conn <= spawned /\ Quiet(conn) /\ Holds(c)
            /\ worker[conn] # "exec"
        <4>1. c \in Executors
          BY <1>9 DEF Send, RoleInv, Callers, Terms
        <4>2. conn \in Workers /\ Quiet(conn)
          BY <1>9, <2>2, <4>1 DEF Send, RequestInv, ConnUp, TypeOK
        <4> QED
          BY <1>9, <4>1, <4>2 DEF Send, SpawnInv, PipeInv, Quiet, Holds, Inside
      <3>2. /\ inbox' = [inbox EXCEPT ![conn] = Append(inbox[conn], req)]
            /\ pc' = [pc EXCEPT ![c] = "wait"]
            /\ UNCHANGED <<closed, broken, conn, calls, got, spawned, worker, sandbox, outbox>>
        BY <1>9, <2>2 DEF Send
      <3>3. Len(inbox'[conn]) = 1 /\ inbox'[conn][1].id = <<c, calls[c]>> /\ outbox'[conn] = <<>>
        <4>1. inbox'[conn] = Append(<<>>, req)
          BY <3>1, <3>2 DEF Quiet, TypeOK
        <4> QED
          BY <3>1, <3>2, <4>1 DEF Quiet
      <3>4. \A e \in Executors : pc'[e] \in Served => e = c /\ pc'[e] = "wait"
        BY <3>1, <3>2, Alone DEF Served, Holds, Inside, TypeOK, Callers
      <3>5. \A w \in Workers : worker'[w] = "exec" => Head(inbox'[w]).op = "execute"
        BY <3>1, <3>2 DEF RequestInv, TypeOK
      <3>6. Waiting(c)' /\ \A e \in Executors : Waiting(e)' => e = c
        BY <3>1, <3>2, <3>4 DEF Waiting, Served, TypeOK
      <3>7. Carried(c, conn)'
        BY <3>2, <3>3 DEF Carried
      <3> QED
        BY <3>1, <3>2, <3>4, <3>5, <3>6, <3>7 DEF RequestInv, Served, ResponseIsMine
    <2> QED
      BY <1>9, <2>1, <2>2 DEF Send
  <1>10. ASSUME NEW c \in Callers, Receive(c) PROVE RequestInv'
    <2>1. c \in Executors /\ Holds(c)
      BY <1>10 DEF Receive, Waiting, RoleInv, Terms, Callers, Holds, Inside
    <2>2. conn \in Workers /\ outbox[conn] # <<>> /\ Carried(c, conn)
      BY <1>10, <2>1 DEF Receive, RequestInv, TypeOK
    <2>3. /\ inbox[conn] = <<>> /\ Len(outbox[conn]) = 1
          /\ outbox[conn][1].id = <<c, calls[c]>> /\ outbox[conn] \in Seq(Responses)
      BY <2>2 DEF Carried, TypeOK
    <2>4. /\ outbox' = [outbox EXCEPT ![conn] = Tail(outbox[conn])]
          /\ got' = [got EXCEPT ![c] = Head(outbox[conn])]
          /\ pc'[c] \in {"check", "update"} /\ \A e \in Executors : e # c => pc'[e] = pc[e]
          /\ UNCHANGED <<closed, broken, process, conn, calls, spawned, worker, sandbox, inbox>>
      BY <1>10 DEF Receive, TypeOK, Callers
    <2>5. \A e \in Executors : pc'[e] \notin Served /\ ~Waiting(e)'
      BY <1>10, <2>1, <2>4, Alone DEF Receive, Waiting, Served, Holds, Inside, Callers
    <2>6. Quiet(conn)'
      <3>1. Tail(outbox[conn]) = <<>>
        <4>1. Tail(outbox[conn]) \in Seq(Responses) /\ Len(Tail(outbox[conn])) = 0
          BY <2>2, <2>3
        <4> QED
          BY <4>1, EmptySeq
      <3> QED
        BY <2>2, <2>3, <2>4, <3>1 DEF Quiet, TypeOK
    <2>7. ~Gone' => \A w \in Workers : Alive(w)' => w = conn
      <3>1. \A e \in Executors : pc[e] # "assign"
        BY <1>10, <2>1, Alone DEF Receive, Waiting, Holds, Inside, Callers
      <3> QED
        BY <2>2, <2>4, <3>1
        DEF OrphanInv, NoOrphanBeforeClose, SpawnInv, Gone, Alive, Workers, None
    <2>8. ResponseIsMine'
      <3>1. got'[c] = outbox[conn][1] /\ \A e \in Executors : e # c => got'[e] = got[e]
        BY <2>1, <2>3, <2>4 DEF TypeOK, Callers
      <3> QED
        BY <2>3, <2>4, <3>1 DEF RequestInv, ResponseIsMine
    <2>9. \A w \in Workers : w > spawned' => outbox'[w] = <<>>
      BY <2>2, <2>4 DEF RequestInv, SpawnInv, TypeOK, Workers
    <2> QED
      BY <2>2, <2>4, <2>5, <2>6, <2>7, <2>8, <2>9 DEF RequestInv, Served
  <1>11. ASSUME NEW c \in Callers, PollEmpty(c) PROVE RequestInv'
    <2>1. /\ pc[c] = "wait" /\ pc' = [pc EXCEPT ![c] = "polled"]
          /\ UNCHANGED <<closed, broken, conn, calls, got, procs>>
      BY <1>11 DEF PollEmpty
    <2>2. \A e \in Executors : /\ Waiting(e)' = Waiting(e)
                               /\ pc'[e] \in {"alive", "send"} => pc[e] \in {"alive", "send"}
      BY <2>1 DEF Waiting, TypeOK, Callers
    <2> QED
      BY <2>1, <2>2
      DEF RequestInv, ConnUp, Quiet, Carried, Picture, ResponseIsMine, Alive, Gone
  <1>12. ASSUME NEW c \in Callers, GiveUp(c) PROVE RequestInv'
    <2>1. c \in Executors /\ Holds(c)
      BY <1>12 DEF GiveUp, RoleInv, Terms, Callers, Holds, Inside
    <2>2. \A e \in Executors : pc[e] # "assign"
      BY <1>12, <2>1, Alone DEF GiveUp, Holds, Inside, Callers
    <2>3. Gone \/ \A w \in Workers : ~Alive(w)
      BY <1>12, <2>2 DEF GiveUp, OrphanInv, NoOrphanBeforeClose, Gone, Workers, None
    <2> QED
      BY <1>12, <2>3, NoAnswerRequest DEF GiveUp
  <1>13. ASSUME NEW c \in Callers, SeeGone(c) PROVE RequestInv'
    BY <1>13, RequestAside
       DEF SeeGone, MarkBroken, Terminate, Waiting, Served, Locations, Gone, TypeOK
  <1>14. ASSUME NEW c \in Callers, Timeout(c) PROVE RequestInv'
    BY <1>14, RequestAside
       DEF Timeout, Late, MarkBroken, Terminate, Waiting, Served, Locations, Gone, TypeOK
  <1>15. ASSUME NEW c \in Callers, TermConn(c) PROVE RequestInv'
    BY <1>15, RequestAside DEF TermConn, Waiting, Served, Locations, Gone, TypeOK
  <1>16. ASSUME NEW c \in Callers, TermTest(c) PROVE RequestInv'
    BY <1>16, RequestAside DEF TermTest, Waiting, Served, Locations, Gone, TypeOK
  <1>17. ASSUME NEW c \in Callers, TermKill(c) PROVE RequestInv'
    <2>1. /\ process \in Workers /\ pc' = [pc EXCEPT ![c] = "term4"] /\ pc[c] = "term3"
          /\ worker' = [worker EXCEPT ![process] = "dead"]
          /\ UNCHANGED <<closed, broken, process, conn, spawned, calls, got>>
          /\ UNCHANGED <<sandbox, inbox, outbox>>
      BY <1>17 DEF TermKill, TypeOK
    <2>2. \A w \in Workers : /\ worker'[w] = "exec" => worker[w] = "exec"
                             /\ Alive(w)' => Alive(w)
      BY <2>1 DEF Alive, TypeOK
    <2>3. \A e \in Executors : /\ Waiting(e)' = Waiting(e)
                               /\ pc'[e] \in {"alive", "send"} => pc[e] \in {"alive", "send"}
      BY <2>1 DEF Waiting, TypeOK, Callers
    <2>4. ConnUp' => ConnUp
      BY <2>1, <2>2 DEF ConnUp, TypeOK
    <2> QED
      BY <2>1, <2>2, <2>3, <2>4
      DEF RequestInv, Quiet, Carried, Picture, ResponseIsMine, Gone
  <1>18. ASSUME NEW c \in Callers, TermRaises(c) PROVE RequestInv'
    <2>1. ~Waiting(c) /\ (Goto(c, "term1") \/ Goto(c, "idle"))
      BY <1>18 DEF TermRaises, Waiting, MarkBroken, Terminate, ReleaseAndReturn, Return
    <2>2. (Gone => Gone') /\ UNCHANGED <<conn, calls, got, procs>>
      BY <1>18 DEF TermRaises, MarkBroken, Terminate, ReleaseAndReturn, Return, Gone
    <2>3. {"term1", "idle"} \subseteq Locations \ Served
      BY DEF Locations, Served
    <2> QED
      BY <2>1, <2>2, <2>3, RequestAside
  <1>19. ASSUME NEW c \in Callers, TermForget(c) PROVE RequestInv'
    BY <1>19, RequestAside DEF TermForget, Waiting, Served, Locations, Gone, TypeOK
  <1>20. ASSUME NEW c \in Callers, TermReturn(c) PROVE RequestInv'
    <2>1. ~Waiting(c)
      BY <1>20 DEF TermReturn, Waiting
    <2>2. CASE NoAnswer(c)
      BY <2>1, <2>2, NoAnswerRequest
    <2>3. ASSUME NEW r, ReleaseAndReturn(c, r) PROVE RequestInv'
      <3>1. Goto(c, "idle") /\ "idle" \in Locations \ Served
        BY <2>3 DEF ReleaseAndReturn, Return, Locations, Served
      <3>2. (Gone => Gone') /\ UNCHANGED <<conn, calls, got, procs>>
        BY <2>3 DEF ReleaseAndReturn, Return, Gone
      <3> QED
        BY <2>1, <3>1, <3>2, RequestAside
    <2> QED
      BY <1>20, <2>2, <2>3 DEF TermReturn
  <1>21. ASSUME NEW c \in Callers, CloseCall(c) PROVE RequestInv'
    <2>1. Goto(c, "closeMark") \/ Goto(c, "idle")
      BY <1>21 DEF CloseCall
    <2>2. ~Waiting(c) /\ UNCHANGED <<closed, broken, conn, got, procs>>
      BY <1>21 DEF CloseCall, Waiting
    <2>3. \A e \in Executors : calls'[e] = calls[e]
      BY <1>21, ThreadsAssumption DEF CloseCall, TypeOK, Callers
    <2>4. {"closeMark", "idle"} \subseteq Locations \ Served
      BY DEF Locations, Served
    <2> QED
      BY <2>1, <2>2, <2>3, <2>4, RequestAside DEF Gone
  <1>22. ASSUME NEW c \in Callers, CloseMark(c) PROVE RequestInv'
    BY <1>22, RequestAside DEF CloseMark, Waiting, Served, Locations, Gone, TypeOK
  <1>23. ASSUME NEW c \in Callers, CloseAcquire(c) PROVE RequestInv'
    BY <1>23, RequestAside DEF CloseAcquire, Waiting, Served, Locations, Gone, TypeOK
  <1>24. ASSUME NEW c \in Callers, CloseForced(c) PROVE RequestInv'
    BY <1>24, RequestAside DEF CloseForced, Terminate, Waiting, Served, Locations, Gone, TypeOK
  <1>25. ASSUME NEW c \in Callers, CloseSend(c) PROVE RequestInv'
    <2>1. c \in Closers /\ Holds(c)
      BY <1>25 DEF CloseSend, RoleInv, Holds, Callers
    <2>2. Gone
      BY <1>25, <2>1 DEF CloseSend, RoleInv, Gone
    <2>3. \A e \in Executors : pc[e] \notin Served
      BY <2>1, Alone, ThreadsAssumption DEF Served, Holds, Inside, Callers
    <2>4. /\ pc' = [pc EXCEPT ![c] = "term1"] \/ pc' = [pc EXCEPT ![c] = "idle"]
          /\ UNCHANGED <<closed, broken, conn, calls, got, spawned, worker, sandbox, outbox>>
      BY <1>25 DEF CloseSend, Terminate, ReleaseAndReturn, Return
    <2>5. \A e \in Executors : pc'[e] \notin Served
      BY <2>1, <2>3, <2>4, ThreadsAssumption DEF TypeOK, Callers
    <2>6. ASSUME NEW w \in Workers, worker[w] = "exec" PROVE Head(inbox'[w]).op = "execute"
      <3> DEFINE req == [op |-> "close", id |-> <<c, calls[c]>>]
      <3>1. inbox'[w] = inbox[w] \/ inbox'[w] = Append(inbox[w], req)
        BY <1>25 DEF CloseSend, ReleaseAndReturn, Return, TypeOK
      <3>2. inbox[w] \in Seq(Requests) /\ inbox[w] # <<>> /\ Head(inbox[w]).op = "execute"
        BY <2>6 DEF TypeOK, PipeInv, RequestInv
      <3> HIDE DEF req
      <3>3. Head(Append(inbox[w], req)) = Head(inbox[w])
        BY <3>2
      <3> QED
        BY <3>1, <3>2, <3>3
    <2> QED
      BY <2>2, <2>4, <2>5, <2>6 DEF RequestInv, Served, Waiting, Gone, ResponseIsMine
  <1>26. ASSUME NEW w \in Workers, WorkerStep(w) PROVE RequestInv'
    <2>1. UNCHANGED <<closed, broken, conn, pc, calls, got, spawned>>
      BY <1>26 DEF WorkerStep
    <2>2. \A x \in Workers : x # w => /\ worker'[x] = worker[x] /\ sandbox'[x] = sandbox[x]
                                      /\ inbox'[x] = inbox[x] /\ outbox'[x] = outbox[x]
      BY <1>26 DEF WorkerStep, WorkerReady, WorkerTake, WorkerFinish, WorkerEof, WorkerDies, Become,
                  Respond, TypeOK
    <2>3. ASSUME UNCHANGED <<inbox, outbox>>, sandbox' = sandbox \/ inbox[w] # <<>>,
                 Alive(w)' => Alive(w),
                 worker'[w] = "exec" => Head(inbox[w]).op = "execute"
          PROVE  RequestInv'
      <3>1. \A x \in Workers : /\ Quiet(x)' = Quiet(x) /\ (Alive(x)' => Alive(x))
                               /\ worker'[x] = "exec" => Head(inbox'[x]).op = "execute"
        BY <2>2, <2>3 DEF Quiet, Alive, RequestInv
      <3>2. \A e \in Executors : Waiting(e)' = Waiting(e)
        BY <2>1 DEF Waiting
      <3>3. ConnUp' => ConnUp /\ conn \in Workers
        BY <2>1, <3>1 DEF ConnUp, TypeOK
      <3>4. \A e \in Executors : \A x \in Workers : Carried(e, x) => Carried(e, x)'
        BY <2>1, <2>2, <2>3 DEF Carried, Picture
      <3>5. conn # None => conn \in Workers
        BY DEF TypeOK
      <3> QED
        BY <2>1, <2>3, <3>1, <3>2, <3>3, <3>4, <3>5 DEF RequestInv, ResponseIsMine, Gone
    <2>4. ASSUME NEW g, Respond(w, g), g = sandbox'[w], inbox[w] # <<>>, Alive(w),
                 worker'[w] = "recv"
          PROVE  RequestInv'
      <3>1. w <= spawned /\ ~Quiet(w)
        BY <2>4 DEF PipeInv, TypeOK, Workers, Quiet
      <3>2. \A x \in Workers : x # w => Quiet(x)' = Quiet(x) /\ Alive(x)' = Alive(x)
        BY <2>2 DEF Quiet, Alive
      <3>3. \A e \in Executors : Waiting(e)' = Waiting(e)
        BY <2>1 DEF Waiting
      <3>4. \A x \in Workers : worker'[x] = "exec" => Head(inbox'[x]).op = "execute"
        BY <2>2, <2>4 DEF RequestInv
      <3>5. \A x \in Workers : x > spawned' => outbox'[x] = <<>>
        <4>1. \A x \in Workers : x > spawned => x # w
          BY <3>1 DEF TypeOK, Workers
        <4> QED
          BY <2>1, <2>2, <4>1 DEF RequestInv
      <3>6. \A e \in Executors : \A x \in Workers \ {w} : Carried(e, x) => Carried(e, x)'
        BY <2>1, <2>2 DEF Carried, Picture
      <3>7. ASSUME NEW e \in Executors, Carried(e, w) PROVE Carried(e, w)'
        <4>1. outbox[w] = <<>> /\ Len(inbox[w]) = 1 /\ inbox[w][1].id = <<e, calls[e]>>
          BY <2>4, <3>7 DEF Carried
        <4> DEFINE r == [id   |-> Head(inbox[w]).id,
                         snap |-> [from |-> w, rev |-> g.rev, fin |-> g.fin]]
        <4>2. inbox'[w] = Tail(inbox[w]) /\ outbox'[w] = Append(<<>>, r)
          BY <2>4, <4>1 DEF Respond, TypeOK
        <4>3. Tail(inbox[w]) = <<>> /\ Head(inbox[w]) = inbox[w][1]
          <5>1. inbox[w] \in Seq(Requests)
            BY DEF TypeOK
          <5>2. Tail(inbox[w]) \in Seq(Requests) /\ Len(Tail(inbox[w])) = 0
            BY <2>4, <4>1, <5>1
          <5>3. Head(inbox[w]) = inbox[w][1]
            BY <2>4, <5>1
          <5> QED
            BY <5>2, <5>3, EmptySeq
        <4> HIDE DEF r
        <4>4. Len(outbox'[w]) = 1 /\ outbox'[w][1] = r
          BY <4>2
        <4>5. r.id = <<e, calls'[e]>> /\ r.snap = Picture(w)'
          BY <2>1, <2>4, <4>1, <4>3 DEF r, Picture
        <4> QED
          BY <4>2, <4>3, <4>4, <4>5 DEF Carried
      <3>8. conn # None => conn \in Workers
        BY DEF TypeOK
      <3>9. /\ ~Gone' /\ (\A e \in Executors : ~Waiting(e)') =>
                 \A x \in Workers : Alive(x)' => Quiet(x)'
            /\ \A e \in Executors : pc'[e] \in {"alive", "send"} /\ ConnUp' => Quiet(conn)'
        BY <2>1, <2>2, <2>4, <3>1, <3>2, <3>3, <3>8 DEF RequestInv, ConnUp, Gone
      <3>10. \A e \in Executors : Waiting(e)' /\ conn' # None => Carried(e, conn)'
        BY <2>1, <3>3, <3>6, <3>7, <3>8 DEF RequestInv
      <3> QED
        BY <2>1, <3>4, <3>5, <3>9, <3>10 DEF RequestInv, ResponseIsMine
    <2>5. CASE WorkerReady(w)
      BY <2>3, <2>5, <1>26 DEF WorkerReady, WorkerStep, Become, TypeOK, Alive
    <2>6. CASE WorkerTake(w)
      <3>1. CASE Respond(w, sandbox[w]) /\ UNCHANGED worker
        BY <2>4, <2>6, <3>1 DEF WorkerTake, Alive
      <3>2. CASE Become(w, "dead") /\ UNCHANGED pipes
        BY <2>3, <2>6, <3>2 DEF WorkerTake, Become, TypeOK, Alive
      <3>3. CASE Head(inbox[w]).op = "execute" /\ Become(w, "exec") /\ UNCHANGED pipes
        BY <2>3, <2>6, <3>3 DEF WorkerTake, Become, TypeOK, Alive
      <3> QED
        BY <2>6, <3>1, <3>2, <3>3 DEF WorkerTake
    <2>7. CASE WorkerFinish(w)
      <3>1. PICK g \in AfterBlock(sandbox[w]) :
              /\ sandbox' = [sandbox EXCEPT ![w] = g]
              /\ \/ ParentEnd(w) /\ Become(w, "recv") /\ Respond(w, g)
                 \/ ~ParentEnd(w) /\ Become(w, "dead") /\ UNCHANGED pipes
        BY <2>7 DEF WorkerFinish
      <3>2. sandbox \in [Workers -> Sandboxes] /\ worker[w] = "exec" /\ inbox[w] # <<>> /\ Alive(w)
        BY <2>7 DEF TypeOK, PipeInv, WorkerFinish, Alive
      <3>3. sandbox' = [sandbox EXCEPT ![w] = g] => g = sandbox'[w]
        BY <3>2
      <3>4. CASE Become(w, "recv") /\ Respond(w, g)
        BY <2>4, <3>1, <3>2, <3>3, <3>4 DEF Become, TypeOK
      <3>5. CASE Become(w, "dead") /\ UNCHANGED pipes
        BY <2>3, <3>2, <3>5 DEF Become, TypeOK
      <3> QED
        BY <3>1, <3>4, <3>5
    <2>8. CASE WorkerEof(w)
      BY <2>3, <2>8 DEF WorkerEof, Become, TypeOK, Alive
    <2>9. CASE WorkerDies(w)
      BY <2>3, <2>9 DEF WorkerDies, Become, TypeOK, Alive
    <2> QED
      BY <1>26, <2>5, <2>6, <2>7, <2>8, <2>9 DEF WorkerStep
  <1>27. ASSUME NEW c \in Callers, CheckAlive(c) PROVE RequestInv'
    <2>1. ~Waiting(c) /\ pc[c] = "alive"
      BY <1>27 DEF CheckAlive, Waiting
    <2>2. CASE NoAnswer(c)
      BY <2>1, <2>2, NoAnswerRequest
    <2>3. CASE ExecuteRaises(c)
      <3>1. Goto(c, "term1") \/ Goto(c, "idle")
        BY <2>3 DEF ExecuteRaises, MarkBroken, Terminate, ReleaseAndReturn, Return
      <3>2. (Gone => Gone') /\ UNCHANGED <<conn, calls, got, procs>>
        BY <2>3 DEF ExecuteRaises, MarkBroken, Terminate, ReleaseAndReturn, Return, Gone
      <3>3. {"term1", "idle"} \subseteq Locations \ Served
        BY DEF Locations, Served
      <3> QED
        BY <2>1, <3>1, <3>2, <3>3, RequestAside
    <2>4. CASE Goto(c, "send") /\ UNCHANGED <<parent, local, procs>>
      <3>1. \A e \in Executors : /\ Waiting(e)' = Waiting(e)
                                 /\ pc'[e] \in {"alive", "send"} => pc[e] \in {"alive", "send"}
        BY <2>1, <2>4 DEF Waiting, TypeOK, Callers
      <3> QED
        BY <2>4, <3>1
        DEF RequestInv, ConnUp, Quiet, Carried, Picture, ResponseIsMine, Alive, Gone
    <2> QED
      BY <1>27, <2>2, <2>3, <2>4 DEF CheckAlive
  <1>28. ASSUME NEW c \in Callers, CloseTest(c) PROVE RequestInv'
    BY <1>28, RequestAside DEF CloseTest, Terminate, Waiting, Served, Locations, Gone, TypeOK
  <1> QED
    BY <1>1, <1>2, <1>3, <1>4, <1>5, <1>6, <1>7, <1>8, <1>9, <1>10, <1>11, <1>12, <1>13, <1>14,
       <1>15, <1>16, <1>17, <1>18, <1>19, <1>20, <1>21, <1>22, <1>23, <1>24, <1>25, <1>26,
       <1>27, <1>28
    DEF Next, Step, ExecuteStep, TerminateStep, CloseStep

-----------------------------------------------------------------------------
(* What is left when a close() has ended                                   *)

\* A step of an executing thread that does not get past the test of the flags, and brings no
\* code.
LEMMA EndAside ==
  ASSUME TypeOK, EndInv, NEW e \in Executors, NEW l \in Locations, Goto(e, l),
         l \in Served => pc[e] \in Served, \A k \in Closers : cause'[k] = cause[k],
         conn' \in {conn, None}, \A w \in Workers : HasCode(w)' => HasCode(w)
  PROVE  EndInv'
  BY ThreadsAssumption DEF TypeOK, EndInv, Ended, Goto, Callers

LEMMA NoAnswerEnd ==
  ASSUME TypeOK, EndInv, NEW e \in Executors, NoAnswer(e)
  PROVE  EndInv'
  <1>1. Goto(e, "check") \/ Goto(e, "idle")
    BY DEF NoAnswer, ReleaseAndReturn, Return
  <1>2. UNCHANGED <<conn, cause, worker, inbox>>
    BY DEF NoAnswer, ReleaseAndReturn, Return, parent, handles, procs, pipes
  <1>3. {"check", "idle"} \subseteq Locations \ Served
    BY DEF Locations, Served
  <1> QED
    BY <1>1, <1>2, <1>3, EndAside, SameCode

LEMMA EndStep ==
  ASSUME TypeOK, LockInv, RoleInv, SpawnInv, PipeInv, CodeInv, RaiseInv, EndInv, Next
  PROVE  EndInv'
  <1> USE DEF flags, handles, parent, local, pipes, procs, Goto
  <1>1. ASSUME NEW c \in Callers, Call(c) PROVE EndInv'
    BY <1>1, SameCode, ThreadsAssumption
       DEF Call, TypeOK, LockInv, RoleInv, RaiseInv, EndInv, Ended, Holds, Inside, Terms, Served,
           Callers
  <1>2. ASSUME NEW c \in Callers, Acquire(c) PROVE EndInv'
    BY <1>2, SameCode, ThreadsAssumption
       DEF Acquire, TypeOK, LockInv, RoleInv, RaiseInv, EndInv, Ended, Holds, Inside, Terms,
           Served, Callers
  <1>3. ASSUME NEW c \in Callers, Locked(c) PROVE EndInv'
    BY <1>3, SameCode, ThreadsAssumption
       DEF Locked, TypeOK, LockInv, RoleInv, RaiseInv, EndInv, Ended, Holds, Inside, Terms,
           Served, Callers
  <1>4. ASSUME NEW c \in Callers, Spawn(c) PROVE EndInv'
    BY <1>4, SpawnCode, ThreadsAssumption
       DEF Spawn, TypeOK, LockInv, RoleInv, RaiseInv, EndInv, Ended, Holds, Inside, Terms, Served,
           Callers
  <1>5. ASSUME NEW c \in Callers, SpawnFails(c) PROVE EndInv'
    BY <1>5, SameCode, ThreadsAssumption
       DEF SpawnFails, MarkBroken, Terminate, TypeOK, LockInv, RoleInv, RaiseInv, EndInv, Ended,
           Holds, Inside, Terms, Served, Callers
  <1>6. ASSUME NEW c \in Callers, Assign(c) PROVE EndInv'
    BY <1>6, SameCode, ThreadsAssumption
       DEF Assign, TypeOK, LockInv, RoleInv, RaiseInv, EndInv, Ended, Holds, Inside, Terms,
           Served, Callers
  <1>7. ASSUME NEW c \in Callers, Update(c) PROVE EndInv'
    BY <1>7, SameCode, ThreadsAssumption
       DEF Update, Return, TypeOK, LockInv, RoleInv, RaiseInv, EndInv, Ended, Holds, Inside,
           Terms, Served, Callers
  <1>8. ASSUME NEW c \in Callers, Check(c) PROVE EndInv'
    <2>1. c \in Executors
      BY <1>8 DEF Check, CheckThat, RoleInv, Terms, Callers
    <2>2. CASE NoAnswer(c)
      BY <2>1, <2>2, NoAnswerEnd
    <2>3. CASE ~closed /\ Goto(c, "alive") /\ UNCHANGED <<parent, local, procs>>
      BY <2>1, <2>3, SameCode, ThreadsAssumption
         DEF TypeOK, RoleInv, RaiseInv, EndInv, Ended, Terms, Callers
    <2> QED
      BY <1>8, <2>2, <2>3 DEF Check, CheckThat
  <1>9. ASSUME NEW c \in Callers, Send(c) PROVE EndInv'
    <2>1. c \in Executors
      BY <1>9 DEF Send, RoleInv, Terms, Callers
    <2>2. CASE MarkBroken(c, "error")
      <3>1. Goto(c, "term1") /\ "term1" \in Locations \ Served
        BY <2>2 DEF MarkBroken, Terminate, Locations, Served
      <3>2. UNCHANGED <<conn, worker, inbox>> /\ \A k \in Closers : cause'[k] = cause[k]
        BY <2>1, <2>2, ThreadsAssumption DEF MarkBroken, Terminate, TypeOK, Callers
      <3> QED
        BY <2>1, <3>1, <3>2, EndAside, SameCode
    <2>3. CASE ConnUp /\ ~MarkBroken(c, "error")
      <3>1. Goto(c, "wait") /\ UNCHANGED <<conn, cause>> /\ conn # None /\ pc[c] = "send"
        BY <1>9, <2>3 DEF Send, ConnUp
      <3>2. \A k \in Closers : pc[k] \notin Terms \ {"term1"} /\ ~Ended(k)
        BY <2>1, <3>1 DEF EndInv, Served
      <3> QED
        BY <2>1, <3>1, <3>2, ThreadsAssumption DEF EndInv, Ended, TypeOK, Callers
    <2> QED
      BY <1>9, <2>2, <2>3 DEF Send
  <1>10. ASSUME NEW c \in Callers, Receive(c) PROVE EndInv'
    <2>1. c \in Executors
      BY <1>10 DEF Receive, Waiting, RoleInv, Terms, Callers
    <2>2. Goto(c, "check") \/ Goto(c, "update")
      BY <1>10 DEF Receive
    <2>3. UNCHANGED <<conn, cause, worker, inbox>>
      BY <1>10 DEF Receive
    <2>4. {"check", "update"} \subseteq Locations \ Served
      BY DEF Locations, Served
    <2> QED
      BY <2>1, <2>2, <2>3, <2>4, EndAside, SameCode
  <1>11. ASSUME NEW c \in Callers, PollEmpty(c) PROVE EndInv'
    BY <1>11, SameCode, ThreadsAssumption
       DEF PollEmpty, TypeOK, LockInv, RoleInv, RaiseInv, EndInv, Ended, Holds, Inside, Terms,
           Served, Callers
  <1>12. ASSUME NEW c \in Callers, GiveUp(c) PROVE EndInv'
    BY <1>12, NoAnswerEnd DEF GiveUp, RoleInv, Terms, Callers
  <1>13. ASSUME NEW c \in Callers, SeeGone(c) PROVE EndInv'
    BY <1>13, SameCode, ThreadsAssumption
       DEF SeeGone, Waiting, MarkBroken, Terminate, TypeOK, LockInv, RoleInv, RaiseInv, EndInv,
           Ended, Holds, Inside, Terms, Served, Callers
  <1>14. ASSUME NEW c \in Callers, Timeout(c) PROVE EndInv'
    BY <1>14, SameCode, ThreadsAssumption
       DEF Timeout, Late, Waiting, MarkBroken, Terminate, TypeOK, LockInv, RoleInv, RaiseInv,
           EndInv, Ended, Holds, Inside, Terms, Served, Callers
  <1>15. ASSUME NEW c \in Callers, TermConn(c) PROVE EndInv'
    BY <1>15, SameCode, ThreadsAssumption
       DEF TermConn, TypeOK, LockInv, RoleInv, RaiseInv, EndInv, Ended, Holds, Inside, Terms,
           Served, Callers
  <1>16. ASSUME NEW c \in Callers, TermTest(c) PROVE EndInv'
    BY <1>16, SameCode, ThreadsAssumption
       DEF TermTest, TypeOK, LockInv, RoleInv, RaiseInv, EndInv, Ended, Holds, Inside, Terms,
           Served, Callers
  <1>17. ASSUME NEW c \in Callers, TermKill(c) PROVE EndInv'
    <2>1. UNCHANGED <<conn, cause, inbox>> /\ pc[c] = "term3" /\ pc' = [pc EXCEPT ![c] = "term4"]
      BY <1>17 DEF TermKill
    <2>2. \A w \in Workers : HasCode(w)' => HasCode(w)
      BY <1>17 DEF TermKill, HasCode, Alive, TypeOK
    <2> QED
      BY <2>1, <2>2, ThreadsAssumption DEF EndInv, Ended, Terms, Served, TypeOK, Callers
  <1>18. ASSUME NEW c \in Callers, TermRaises(c) PROVE EndInv'
    <2>1. \A w \in Workers : ~HasCode(w)
      BY <1>18 DEF TermRaises, CodeInv, Workers, None
    <2>2. UNCHANGED <<conn, worker, inbox>> /\ (Goto(c, "term1") \/ Goto(c, "idle"))
      BY <1>18 DEF TermRaises, MarkBroken, Terminate, ReleaseAndReturn, Return
    <2>3. \A w \in Workers : ~HasCode(w)'
      BY <2>1, <2>2, SameCode
    <2>4. CASE c \in Executors
      <3>1. \A k \in Closers : cause'[k] = cause[k]
        BY <1>18, <2>4, ThreadsAssumption
           DEF TermRaises, MarkBroken, Terminate, ReleaseAndReturn, Return, TypeOK, Callers
      <3>2. {"term1", "idle"} \subseteq Locations \ Served
        BY DEF Locations, Served
      <3> QED
        BY <2>2, <2>3, <2>4, <3>1, <3>2, EndAside
    <2>5. CASE c \in Closers
      <3>1. \A e \in Executors : pc'[e] = pc[e] /\ ~(pc[e] \in Served /\ conn # None)
        BY <1>18, <2>2, <2>5, ThreadsAssumption DEF TermRaises, EndInv, Terms, TypeOK, Callers
      <3> QED
        BY <2>2, <2>3, <3>1 DEF EndInv
    <2> QED
      BY <2>4, <2>5 DEF Callers
  <1>19. ASSUME NEW c \in Callers, TermForget(c) PROVE EndInv'
    BY <1>19, SameCode, ThreadsAssumption
       DEF TermForget, TypeOK, LockInv, RoleInv, RaiseInv, EndInv, Ended, Holds, Inside, Terms,
           Served, Callers
  <1>20. ASSUME NEW c \in Callers, TermReturn(c) PROVE EndInv'
    <2>1. CASE c \in Executors
      <3>1. CASE NoAnswer(c)
        BY <2>1, <3>1, NoAnswerEnd
      <3>2. ASSUME NEW r, ReleaseAndReturn(c, r) PROVE EndInv'
        <4>1. UNCHANGED <<conn, cause, worker, inbox>> /\ Goto(c, "idle")
          BY <3>2 DEF ReleaseAndReturn, Return
        <4>2. "idle" \in Locations \ Served
          BY DEF Locations, Served
        <4> QED
          BY <2>1, <4>1, <4>2, EndAside, SameCode
      <3> QED
        BY <1>20, <3>1, <3>2 DEF TermReturn
    <2>2. CASE c \in Closers
      <3>1. cause[c] # "error"
        BY <2>2 DEF RoleInv
      <3>2. UNCHANGED <<conn, cause, worker, inbox>> /\ Goto(c, "idle") /\ pc[c] = "termDone"
        BY <1>20, <3>1 DEF TermReturn, ReleaseAndReturn, Return
      <3>3. \A w \in Workers : ~HasCode(w)
        BY <2>2, <3>2 DEF CodeInv
      <3>4. \A w \in Workers : ~HasCode(w)'
        BY <3>2, <3>3, SameCode
      <3>5. \A e \in Executors : pc'[e] = pc[e] /\ ~(pc[e] \in Served /\ conn # None)
        BY <2>2, <3>2, ThreadsAssumption DEF EndInv, Terms, TypeOK, Callers
      <3> QED
        BY <3>2, <3>4, <3>5 DEF EndInv
    <2> QED
      BY <2>1, <2>2 DEF Callers
  <1>21. ASSUME NEW c \in Callers, CloseCall(c) PROVE EndInv'
    BY <1>21, SameCode, ThreadsAssumption
       DEF CloseCall, TypeOK, LockInv, RoleInv, RaiseInv, EndInv, Ended, Holds, Inside, Terms,
           Served, Callers
  <1>22. ASSUME NEW c \in Callers, CloseMark(c) PROVE EndInv'
    BY <1>22, SameCode, ThreadsAssumption
       DEF CloseMark, TypeOK, LockInv, RoleInv, RaiseInv, EndInv, Ended, Holds, Inside, Terms,
           Served, Callers
  <1>23. ASSUME NEW c \in Callers, CloseAcquire(c) PROVE EndInv'
    BY <1>23, SameCode, ThreadsAssumption
       DEF CloseAcquire, TypeOK, LockInv, RoleInv, RaiseInv, EndInv, Ended, Holds, Inside, Terms,
           Served, Callers
  <1>24. ASSUME NEW c \in Callers, CloseForced(c) PROVE EndInv'
    BY <1>24, SameCode, ThreadsAssumption
       DEF CloseForced, Terminate, TypeOK, LockInv, RoleInv, RaiseInv, EndInv, Ended, Holds,
           Inside, Terms, Served, Callers
  <1>25. ASSUME NEW c \in Callers, CloseSend(c) PROVE EndInv'
    <2>1. c \in Closers /\ cause[c] = "none" /\ closed
      BY <1>25, ThreadsAssumption DEF CloseSend, RoleInv, RaiseInv, Callers
    <2>2. \A w \in Workers : HasCode(w)' => HasCode(w)
      BY <1>25, CloseSendCode
    <2>3. /\ UNCHANGED conn /\ \A d \in Callers : d # c => pc'[d] = pc[d] /\ cause'[d] = cause[d]
          /\ pc'[c] \in {"term1", "idle"} /\ (pc'[c] = "idle" => cause'[c] = "none")
      BY <1>25, <2>1 DEF CloseSend, Terminate, ReleaseAndReturn, Return, TypeOK
    <2> QED
      BY <2>1, <2>2, <2>3, ThreadsAssumption DEF EndInv, Ended, Terms, Callers
  <1>26. ASSUME NEW w \in Workers, WorkerStep(w) PROVE EndInv'
    <2>1. UNCHANGED <<conn, pc, cause>>
      BY <1>26 DEF WorkerStep
    <2>2. \A x \in Workers : HasCode(x)' => HasCode(x)
      BY <1>26, WorkerCode
    <2> QED
      BY <2>1, <2>2 DEF EndInv, Ended
  <1>27. ASSUME NEW c \in Callers, CheckAlive(c) PROVE EndInv'
    <2>1. c \in Executors /\ pc[c] = "alive"
      BY <1>27 DEF CheckAlive, RoleInv, Terms, Callers
    <2>2. CASE NoAnswer(c)
      BY <2>1, <2>2, NoAnswerEnd
    <2>3. CASE ExecuteRaises(c)
      <3>1. Goto(c, "term1") \/ Goto(c, "idle")
        BY <2>3 DEF ExecuteRaises, MarkBroken, Terminate, ReleaseAndReturn, Return
      <3>2. UNCHANGED <<conn, worker, inbox>> /\ \A k \in Closers : cause'[k] = cause[k]
        BY <2>1, <2>3, ThreadsAssumption
           DEF ExecuteRaises, MarkBroken, Terminate, ReleaseAndReturn, Return, TypeOK, Callers
      <3>3. {"term1", "idle"} \subseteq Locations \ Served
        BY DEF Locations, Served
      <3> QED
        BY <2>1, <3>1, <3>2, <3>3, EndAside, SameCode
    <2>4. CASE Goto(c, "send") /\ UNCHANGED <<parent, local, procs>>
      BY <2>1, <2>4, EndAside, SameCode DEF Locations, Served
    <2> QED
      BY <1>27, <2>2, <2>3, <2>4 DEF CheckAlive
  <1>28. ASSUME NEW c \in Callers, CloseTest(c) PROVE EndInv'
    <2>1. c \in Closers
      BY <1>28 DEF CloseTest, RoleInv, Callers
    <2>2. UNCHANGED <<conn, worker, inbox>> /\ \A w \in Workers : HasCode(w)' = HasCode(w)
      BY <1>28, SameCode DEF CloseTest, Terminate
    <2>3. /\ pc'[c] \in {"term1", "closeSend"}
          /\ \A d \in Callers : d # c => pc'[d] = pc[d] /\ cause'[d] = cause[d]
      BY <1>28 DEF CloseTest, Terminate, TypeOK
    <2> QED
      BY <2>1, <2>2, <2>3, ThreadsAssumption DEF EndInv, Ended, Terms, Callers
  <1> QED
    BY <1>1, <1>2, <1>3, <1>4, <1>5, <1>6, <1>7, <1>8, <1>9, <1>10, <1>11, <1>12, <1>13, <1>14,
       <1>15, <1>16, <1>17, <1>18, <1>19, <1>20, <1>21, <1>22, <1>23, <1>24, <1>25, <1>26,
       <1>27, <1>28
    DEF Next, Step, ExecuteStep, TerminateStep, CloseStep

-----------------------------------------------------------------------------
(* One executing thread                                                    *)

OneExecutor == \A c, d \in Executors : c = d

\* What is answered is the sandbox as it is when the answer is cached.
LEMMA UpdateStep ==
  ASSUME OneExecutor, TypeOK, RoleInv, SpawnInv, PipeInv, RequestInv, UpdateInv, Next
  PROVE  UpdateInv'
  <1> USE DEF flags, handles, parent, local, pipes, procs, Goto
  <1>1. ASSUME NEW c \in Callers, Call(c) PROVE UpdateInv'
    BY <1>1 DEF Call, UpdateInv, Picture, TypeOK, Callers
  <1>2. ASSUME NEW c \in Callers, Acquire(c) PROVE UpdateInv'
    BY <1>2 DEF Acquire, UpdateInv, Picture, TypeOK, Callers
  <1>3. ASSUME NEW c \in Callers, Locked(c) PROVE UpdateInv'
    BY <1>3 DEF Locked, UpdateInv, Picture, TypeOK, Callers
  <1>4. ASSUME NEW c \in Callers, Spawn(c) PROVE UpdateInv'
    BY <1>4 DEF Spawn, UpdateInv, Picture, TypeOK, Callers
  <1>5. ASSUME NEW c \in Callers, SpawnFails(c) PROVE UpdateInv'
    BY <1>5 DEF SpawnFails, MarkBroken, Terminate, UpdateInv, Picture, TypeOK, Callers
  <1>6. ASSUME NEW c \in Callers, Assign(c) PROVE UpdateInv'
    BY <1>6 DEF Assign, UpdateInv, Picture, TypeOK, Callers
  <1>7. ASSUME NEW c \in Callers, Update(c) PROVE UpdateInv'
    BY <1>7 DEF Update, Return, UpdateInv, Picture, TypeOK, Callers
  <1>8. ASSUME NEW c \in Callers, Check(c) PROVE UpdateInv'
    BY <1>8
       DEF Check, CheckThat, NoAnswer, ReleaseAndReturn, Return, UpdateInv, Picture, TypeOK,
           Callers
  <1>9. ASSUME NEW c \in Callers, Send(c) PROVE UpdateInv'
    <2>1. c \in Executors /\ \A e \in Executors : e = c
      BY <1>9 DEF Send, RoleInv, Terms, Callers, OneExecutor
    <2> QED
      BY <1>9, <2>1 DEF Send, MarkBroken, Terminate, TypeOK, UpdateInv, Callers
  <1>10. ASSUME NEW c \in Callers, Receive(c) PROVE UpdateInv'
    <2>1. c \in Executors /\ \A e \in Executors : e = c
      BY <1>10 DEF Receive, Waiting, RoleInv, Terms, Callers, OneExecutor
    <2>2. conn = 1 /\ 1 \in Workers /\ outbox[1] # <<>> /\ Carried(c, 1)
      <3>1. conn # None /\ conn \in Workers /\ conn <= 1
        BY <1>10, <2>1 DEF Receive, Waiting, SpawnInv, Served, TypeOK
      <3> QED
        BY <1>10, <2>1, <3>1 DEF Receive, RequestInv, None, Workers
    <2>3. inbox[1] = <<>> /\ Head(outbox[1]).snap = Picture(1)
      <3>1. outbox[1] \in Seq(Responses)
        BY <2>2 DEF TypeOK
      <3> QED
        BY <2>2, <3>1 DEF Carried
    <2>4. got'[c] = Head(outbox[1]) /\ UNCHANGED <<sandbox, inbox>>
      BY <1>10, <2>2 DEF Receive, TypeOK
    <2> QED
      BY <2>1, <2>3, <2>4 DEF UpdateInv, Picture
  <1>11. ASSUME NEW c \in Callers, PollEmpty(c) PROVE UpdateInv'
    BY <1>11 DEF PollEmpty, UpdateInv, Picture, TypeOK, Callers
  <1>12. ASSUME NEW c \in Callers, GiveUp(c) PROVE UpdateInv'
    BY <1>12 DEF GiveUp, NoAnswer, ReleaseAndReturn, Return, UpdateInv, Picture, TypeOK, Callers
  <1>13. ASSUME NEW c \in Callers, SeeGone(c) PROVE UpdateInv'
    BY <1>13 DEF SeeGone, Waiting, MarkBroken, Terminate, UpdateInv, Picture, TypeOK, Callers
  <1>14. ASSUME NEW c \in Callers, Timeout(c) PROVE UpdateInv'
    BY <1>14
       DEF Timeout, Late, Waiting, MarkBroken, Terminate, UpdateInv, Picture, TypeOK, Callers
  <1>15. ASSUME NEW c \in Callers, TermConn(c) PROVE UpdateInv'
    BY <1>15 DEF TermConn, UpdateInv, Picture, TypeOK, Callers
  <1>16. ASSUME NEW c \in Callers, TermTest(c) PROVE UpdateInv'
    BY <1>16 DEF TermTest, UpdateInv, Picture, TypeOK, Callers
  <1>17. ASSUME NEW c \in Callers, TermKill(c) PROVE UpdateInv'
    BY <1>17 DEF TermKill, UpdateInv, Picture, TypeOK, Callers
  <1>18. ASSUME NEW c \in Callers, TermRaises(c) PROVE UpdateInv'
    BY <1>18
       DEF TermRaises, MarkBroken, Terminate, ReleaseAndReturn, Return, UpdateInv, Picture,
           TypeOK, Callers
  <1>19. ASSUME NEW c \in Callers, TermForget(c) PROVE UpdateInv'
    BY <1>19 DEF TermForget, UpdateInv, Picture, TypeOK, Callers
  <1>20. ASSUME NEW c \in Callers, TermReturn(c) PROVE UpdateInv'
    BY <1>20
       DEF TermReturn, NoAnswer, ReleaseAndReturn, Return, UpdateInv, Picture, TypeOK, Callers
  <1>21. ASSUME NEW c \in Callers, CloseCall(c) PROVE UpdateInv'
    BY <1>21 DEF CloseCall, UpdateInv, Picture, TypeOK, Callers
  <1>22. ASSUME NEW c \in Callers, CloseMark(c) PROVE UpdateInv'
    BY <1>22 DEF CloseMark, UpdateInv, Picture, TypeOK, Callers
  <1>23. ASSUME NEW c \in Callers, CloseAcquire(c) PROVE UpdateInv'
    BY <1>23 DEF CloseAcquire, UpdateInv, Picture, TypeOK, Callers
  <1>24. ASSUME NEW c \in Callers, CloseForced(c) PROVE UpdateInv'
    BY <1>24 DEF CloseForced, Terminate, UpdateInv, Picture, TypeOK, Callers
  <1>25. ASSUME NEW c \in Callers, CloseSend(c) PROVE UpdateInv'
    <2>1. UNCHANGED <<got, sandbox>> /\ \A e \in Executors : pc'[e] = "update" => pc[e] = "update"
      BY <1>25 DEF CloseSend, Terminate, ReleaseAndReturn, Return, TypeOK, Callers
    <2>2. ASSUME \A i \in 1..Len(inbox[1]) : inbox[1][i].op # "execute"
          PROVE  \A i \in 1..Len(inbox'[1]) : inbox'[1][i].op # "execute"
      <3> DEFINE req == [op |-> "close", id |-> <<c, calls[c]>>]
      <3>1. inbox'[1] = inbox[1] \/ inbox'[1] = Append(inbox[1], req)
        BY <1>25, BoundsAssumption DEF CloseSend, ReleaseAndReturn, Return, Workers, TypeOK
      <3>2. inbox[1] \in Seq(Requests) /\ req.op = "close"
        BY BoundsAssumption DEF TypeOK, Workers
      <3> HIDE DEF req
      <3>3. /\ Len(Append(inbox[1], req)) = Len(inbox[1]) + 1 /\ Len(inbox[1]) \in Nat
            /\ \A i \in 1..Len(inbox[1]) : Append(inbox[1], req)[i] = inbox[1][i]
            /\ Append(inbox[1], req)[Len(inbox[1]) + 1] = req
        BY <3>2, SMTT(30)
      <3> QED
        BY <2>2, <3>1, <3>2, <3>3
    <2> QED
      BY <2>1, <2>2 DEF UpdateInv, Picture
  <1>26. ASSUME NEW w \in Workers, WorkerStep(w) PROVE UpdateInv'
    <2>1. UNCHANGED <<got, pc>>
      BY <1>26 DEF WorkerStep
    <2>2. SUFFICES ASSUME NEW e \in Executors, pc[e] = "update"
                   PROVE  UpdateInv'
      BY <2>1 DEF UpdateInv
    <2>3. /\ got[e].snap = Picture(1)
          /\ \A i \in 1..Len(inbox[1]) : inbox[1][i].op # "execute"
      BY <2>2 DEF UpdateInv
    <2>4. 1 \in Workers /\ inbox[1] \in Seq(Requests)
      BY BoundsAssumption DEF Workers, TypeOK
    <2>5. worker[1] # "exec"
      <3>1. inbox[1] # <<>> => Head(inbox[1]) = inbox[1][1] /\ 1 \in 1..Len(inbox[1])
        BY <2>4
      <3> QED
        BY <2>3, <2>4, <3>1 DEF PipeInv, RequestInv
    <2>6. sandbox'[1] = sandbox[1]
      BY <1>26, <2>4, <2>5 DEF WorkerStep, WorkerReady, WorkerTake, WorkerFinish, WorkerEof,
                           WorkerDies, TypeOK
    <2>7. inbox'[1] = inbox[1] \/ (inbox[1] # <<>> /\ inbox'[1] = Tail(inbox[1]))
      BY <1>26, <2>4, <2>5 DEF WorkerStep, WorkerReady, WorkerTake, WorkerFinish, WorkerEof,
                           WorkerDies, Respond, TypeOK
    <2>8. \A i \in 1..Len(inbox'[1]) : inbox'[1][i].op # "execute"
      <3>1. inbox[1] # <<>> => \A i \in 1..Len(Tail(inbox[1])) :
              i + 1 \in 1..Len(inbox[1]) /\ Tail(inbox[1])[i] = inbox[1][i + 1]
        BY <2>4
      <3> QED
        BY <2>3, <2>7, <3>1
    <2>9. \A d \in Executors : d = e
      BY DEF OneExecutor
    <2> QED
      BY <2>1, <2>3, <2>6, <2>8, <2>9 DEF UpdateInv, Picture
  <1>27. ASSUME NEW c \in Callers, CheckAlive(c) PROVE UpdateInv'
    BY <1>27
       DEF CheckAlive, ExecuteRaises, MarkBroken, Terminate, NoAnswer, ReleaseAndReturn, Return,
           UpdateInv, Picture, TypeOK, Callers
  <1>28. ASSUME NEW c \in Callers, CloseTest(c) PROVE UpdateInv'
    BY <1>28 DEF CloseTest, Terminate, UpdateInv, Picture, TypeOK, Callers
  <1> QED
    BY <1>1, <1>2, <1>3, <1>4, <1>5, <1>6, <1>7, <1>8, <1>9, <1>10, <1>11, <1>12, <1>13, <1>14,
       <1>15, <1>16, <1>17, <1>18, <1>19, <1>20, <1>21, <1>22, <1>23, <1>24, <1>25, <1>26,
       <1>27, <1>28
    DEF Next, Step, ExecuteStep, TerminateStep, CloseStep

-----------------------------------------------------------------------------
(* The invariant is inductive                                              *)

MoreInv == IInv /\ OrphanInv /\ RaiseInv /\ SoundInv /\ RequestInv /\ EndInv

LEMMA InitMore == Init => MoreInv
  <1> SUFFICES ASSUME Init PROVE MoreInv
    OBVIOUS
  <1>1. IInv
    BY InitInv
  <1>2. OrphanInv
    BY DEF Init, OrphanInv, NoOrphanBeforeClose, Alive, Callers
  <1>3. RaiseInv
    BY DEF Init, RaiseInv, RaisesOnlyWhenForced, Callers
  <1>4. SoundInv
    BY DEF Init, SoundInv, IsPast, NoResponse, EmptySnapshot
  <1>5. RequestInv
    BY DEF Init, RequestInv, Alive, Waiting, ConnUp, ResponseIsMine, Callers
  <1>6. EndInv
    BY DEF Init, EndInv, Ended, HasCode, Alive, Served, Callers
  <1> QED
    BY <1>1, <1>2, <1>3, <1>4, <1>5, <1>6 DEF MoreInv

LEMMA StutterMore ==
  ASSUME MoreInv, UNCHANGED vars
  PROVE  MoreInv'
  <1> USE DEF vars, parent, flags, handles, local, procs, pipes
  <1>1. IInv'
    BY StutterInv DEF MoreInv
  <1>2. OrphanInv' /\ RaiseInv'
    BY DEF MoreInv, OrphanInv, NoOrphanBeforeClose, Alive, Gone, RaiseInv, RaisesOnlyWhenForced,
           Forced
  <1>3. SoundInv'
    BY DEF MoreInv, SoundInv
  <1>4. RequestInv'
    BY DEF MoreInv, RequestInv, Alive, Gone, Waiting, ConnUp, Quiet, Carried, Picture,
           ResponseIsMine
  <1>5. EndInv'
    BY SameCode DEF MoreInv, EndInv, Ended
  <1> QED
    BY <1>1, <1>2, <1>3, <1>4, <1>5 DEF MoreInv

LEMMA StepMore == MoreInv /\ [Next]_vars => MoreInv'
  <1>1. ASSUME MoreInv, Next PROVE MoreInv'
    <2>1. IInv'
      BY <1>1, StepInv DEF MoreInv
    <2> QED
      BY <1>1, <2>1, OrphanStep, RaiseStep, SoundStep, RequestStep, EndStep DEF MoreInv, IInv
  <1> QED
    BY <1>1, StutterMore

LEMMA InductiveMore == Spec => []MoreInv
  BY InitMore, StepMore, PTL DEF Spec

-----------------------------------------------------------------------------
(* Theorems                                                                *)

\* The answer that a call works with answers its own request.  A thread that leaves a request
\* behind leaves the executor closed or broken, so that no other call gets to its answer, and
\* close() never writes into a pipe that a thread waits on: it would need _request_lock.
THEOREM AnswersOwnRequest == Spec => []ResponseIsMine
  <1>1. MoreInv => ResponseIsMine
    BY DEF MoreInv, RequestInv
  <1> QED
    BY <1>1, InductiveMore, PTL

\* Before close() is called no worker is lost: what _terminate_worker forgets it has killed,
\* and a thread that gets a new process has found that there was none.
THEOREM NoWorkerIsLost == Spec => []NoOrphanBeforeClose
  <1>1. MoreInv => NoOrphanBeforeClose
    BY DEF MoreInv, OrphanInv
  <1> QED
    BY <1>1, InductiveMore, PTL

\* The cached snapshot is one of a state its worker has been in, also when a late answer is
\* cached after a later one.
THEOREM SnapshotsAreSound == Spec => []SnapshotSound
  <1>1. MoreInv => SnapshotSound
    BY DEF MoreInv, SoundInv, IsPast, SnapshotSound
  <1> QED
    BY <1>1, InductiveMore, PTL

\* Nobody meets a _process that has become None unless some close() went on without the lock.
THEOREM OnlyForcedCloseRaises == Spec => []RaisesOnlyWhenForced
  <1>1. MoreInv => RaisesOnlyWhenForced
    BY DEF MoreInv, RaiseInv
  <1> QED
    BY <1>1, InductiveMore, PTL

-----------------------------------------------------------------------------
(* What a step of a thread leaves alone                                    *)

\* It moves that thread only.
LEMMA ThreadMoves ==
  ASSUME TypeOK, NEW c \in Callers, Call(c) \/ CloseCall(c) \/ Step(c),
         NEW d \in Callers, d # c
  PROVE  pc'[d] = pc[d] /\ cause'[d] = cause[d] /\ phase'[d] = phase[d]
  <1> USE DEF TypeOK, Goto, parent, local, procs
  <1>1. CASE Call(c) \/ CloseCall(c)
    BY <1>1 DEF Call, CloseCall
  <1>2. CASE ExecuteStep(c)
    BY <1>2
       DEF ExecuteStep, Acquire, Locked, Spawn, SpawnFails, Assign, Update, Check, CheckThat,
           CheckAlive, ExecuteRaises, Send, Receive, Waiting, PollEmpty, GiveUp, SeeGone, Timeout,
           Late, MarkBroken, Terminate, NoAnswer, ReleaseAndReturn, Return
  <1>3. CASE TerminateStep(c)
    BY <1>3
       DEF TerminateStep, TermConn, TermTest, TermKill, TermRaises, TermForget, TermReturn,
           MarkBroken, Terminate, NoAnswer, ReleaseAndReturn, Return
  <1>4. CASE CloseStep(c)
    BY <1>4 DEF CloseStep, CloseMark, CloseAcquire, CloseForced, CloseTest, CloseSend, Terminate,
           ReleaseAndReturn, Return
  <1> QED
    BY <1>1, <1>2, <1>3, <1>4 DEF Step

\* Only Receive and Update change the cache, and the flags stay set.
LEMMA ThreadKeeps ==
  ASSUME TypeOK, NEW c \in Callers, Call(c) \/ CloseCall(c) \/ Step(c)
  PROVE  /\ UNCHANGED sandbox /\ (Gone => Gone')
         /\ ~Receive(c) /\ ~Update(c) => UNCHANGED snapshot
  <1> USE DEF TypeOK, Goto, parent, flags, local, procs, Gone
  <1>1. CASE Call(c) \/ CloseCall(c)
    BY <1>1 DEF Call, CloseCall
  <1>2. CASE ExecuteStep(c)
    BY <1>2
       DEF ExecuteStep, Acquire, Locked, Spawn, SpawnFails, Assign, Check, CheckThat, CheckAlive,
           ExecuteRaises, Send, Receive, Update, PollEmpty, GiveUp, SeeGone, Timeout, MarkBroken,
           Terminate, NoAnswer, ReleaseAndReturn, Return
  <1>3. CASE TerminateStep(c)
    BY <1>3
       DEF TerminateStep, TermConn, TermTest, TermKill, TermRaises, TermForget, TermReturn,
           MarkBroken, Terminate, NoAnswer, ReleaseAndReturn, Return
  <1>4. CASE CloseStep(c)
    BY <1>4 DEF CloseStep, CloseMark, CloseAcquire, CloseForced, CloseTest, CloseSend, Terminate,
           ReleaseAndReturn, Return
  <1> QED
    BY <1>1, <1>2, <1>3, <1>4 DEF Step

\* A closing thread takes none of the steps of execute().
LEMMA CloserSteps ==
  ASSUME RoleInv, NEW k \in Closers, Call(k) \/ CloseCall(k) \/ Step(k)
  PROVE  CloseCall(k) \/ TerminateStep(k) \/ CloseStep(k)
  <1>1. ~Call(k) /\ ~ExecuteStep(k)
    BY ThreadsAssumption
       DEF RoleInv, Terms, Call, ExecuteStep, Acquire, Locked, Spawn, SpawnFails, Assign, Update,
           Check, CheckThat, CheckAlive, ExecuteRaises, Send, Receive, Waiting, PollEmpty, GiveUp,
           SeeGone, Timeout, Late
  <1> QED
    BY <1>1 DEF Step

-----------------------------------------------------------------------------
(* The startup of the one executing thread                                 *)

\* Nobody but Locked brings a thread there, and nobody but Send brings code to a worker.
LEMMA StartKept ==
  ASSUME TypeOK, NEW c \in Callers, Call(c) \/ CloseCall(c) \/ Step(c),
         ~Locked(c), ~Send(c), ~CloseSend(c)
  PROVE  UNCHANGED inbox /\ (Starting(c)' => Starting(c))
  <1> USE DEF TypeOK, Goto, parent, flags, local, procs, pipes, Gone, Starting, Served
  <1>1. CASE Call(c) \/ CloseCall(c)
    BY <1>1 DEF Call, CloseCall
  <1>2. CASE ExecuteStep(c)
    BY <1>2
       DEF ExecuteStep, Acquire, Spawn, SpawnFails, Assign, Check, CheckThat, CheckAlive,
           ExecuteRaises, Receive, Update, Waiting, PollEmpty, GiveUp, SeeGone, Timeout, Late,
           MarkBroken, Terminate, NoAnswer, ReleaseAndReturn, Return
  <1>3. CASE TerminateStep(c)
    BY <1>3
       DEF TerminateStep, TermConn, TermTest, TermKill, TermRaises, TermForget, TermReturn,
           MarkBroken, Terminate, NoAnswer, ReleaseAndReturn, Return
  <1>4. CASE CloseStep(c)
    BY <1>4 DEF CloseStep, CloseMark, CloseAcquire, CloseForced, CloseTest, Terminate
  <1> QED
    BY <1>1, <1>2, <1>3, <1>4 DEF Step

\* The first worker is born once.
LEMMA UnbornKept ==
  ASSUME TypeOK, Next, 1 \in Workers, worker[1] = "unborn" => spawned = 0, worker'[1] = "unborn"
  PROVE  worker[1] = "unborn" /\ spawned' = 0
  <1> USE DEF TypeOK, parent, local, procs, pipes
  <1>1. ASSUME NEW x \in Workers, WorkerStep(x) PROVE worker[1] = "unborn" /\ spawned' = spawned
    BY <1>1
       DEF WorkerStep, WorkerReady, WorkerTake, WorkerFinish, WorkerEof, WorkerDies, Become, Alive
  <1>2. ASSUME NEW c \in Callers, Spawn(c) PROVE FALSE
    BY <1>2 DEF Spawn
  <1>3. ASSUME NEW c \in Callers, ExecuteStep(c), ~Spawn(c)
        PROVE  worker[1] = "unborn" /\ spawned' = spawned
    BY <1>3
       DEF ExecuteStep, Acquire, Locked, SpawnFails, Assign, Update, Check, CheckThat, CheckAlive,
           ExecuteRaises, Send, Receive, PollEmpty, GiveUp, SeeGone, Timeout, MarkBroken, Terminate,
           NoAnswer, ReleaseAndReturn, Return
  <1>4. ASSUME NEW c \in Callers, TerminateStep(c)
        PROVE  worker[1] = "unborn" /\ spawned' = spawned
    BY <1>4
       DEF TerminateStep, TermConn, TermTest, TermKill, TermRaises, TermForget, TermReturn,
           MarkBroken, Terminate, NoAnswer, ReleaseAndReturn, Return
  <1>5. ASSUME NEW c \in Callers, Call(c) \/ CloseCall(c) \/ CloseStep(c)
        PROVE  worker[1] = "unborn" /\ spawned' = spawned
    BY <1>5
       DEF Call, CloseCall, CloseStep, CloseMark, CloseAcquire, CloseForced, CloseTest, CloseSend,
           Terminate, ReleaseAndReturn, Return
  <1> QED
    BY <1>1, <1>2, <1>3, <1>4, <1>5 DEF Next, Step

\* A response that is not of code is appended to no code.
LEMMA NoCodeAppended ==
  ASSUME NEW s \in Seq(Requests), NEW r \in Requests, r.op # "execute",
         \A i \in 1..Len(s) : s[i].op # "execute"
  PROVE  \A i \in 1..Len(Append(s, r)) : Append(s, r)[i].op # "execute"
  <1>1. /\ Len(Append(s, r)) = Len(s) + 1 /\ Len(s) \in Nat
        /\ \A i \in 1..Len(s) : Append(s, r)[i] = s[i]
        /\ Append(s, r)[Len(s) + 1] = r
    OBVIOUS
  <1> QED
    BY <1>1

\* The cache is at first what the sandbox is at first, and the startup of the worker leaves it so.
LEMMA StartStep ==
  ASSUME OneExecutor, TypeOK, RoleInv, SpawnInv, PipeInv, RequestInv, UpdateInv, StartInv, Next
  PROVE  StartInv'
  <1> DEFINE NoCode == \A i \in 1..Len(inbox[1]) : inbox[1][i].op # "execute"
  <1>1. 1 \in Workers /\ inbox[1] \in Seq(Requests) /\ sandbox[1] \in Sandboxes
    BY BoundsAssumption DEF Workers, TypeOK
  <1>2. worker'[1] = "unborn" => worker[1] = "unborn" /\ spawned' = 0
    BY <1>1, UnbornKept DEF StartInv
  <1>3. ASSUME NEW c \in Callers, NEW e \in Executors, Call(c) \/ CloseCall(c) \/ Step(c), e # c,
               Starting(e)'
        PROVE  Starting(e)
    BY <1>3, ThreadMoves, ThreadKeeps DEF Starting, Callers
  <1>4. ASSUME NEW w \in Workers, WorkerStep(w) PROVE StartInv'
    <2>1. UNCHANGED <<pc, phase, snapshot, closed, broken>>
      BY <1>4 DEF WorkerStep, parent, flags, local
    <2>2. CASE w = 1 /\ WorkerFinish(w)
      <3>1. worker[1] = "exec" /\ inbox[1] # <<>> /\ Head(inbox[1]).op = "execute"
        BY <1>1, <2>2 DEF WorkerFinish, PipeInv, RequestInv
      <3>2. ~NoCode
        BY <1>1, <3>1
      <3> QED
        BY <1>2, <2>1, <3>1, <3>2 DEF StartInv, Starting, Gone
    <2>3. CASE ~(w = 1 /\ WorkerFinish(w))
      <3>1. sandbox'[1] = sandbox[1]
        BY <1>1, <1>4, <2>3 DEF WorkerStep, WorkerReady, WorkerTake, WorkerFinish, WorkerEof,
                                 WorkerDies, TypeOK
      <3>2. inbox'[1] = inbox[1] \/ (inbox[1] # <<>> /\ inbox'[1] = Tail(inbox[1]))
        BY <1>1, <1>4, <2>3, ZenonT(60) DEF WorkerStep, WorkerReady, WorkerTake, WorkerFinish,
                                           WorkerEof, WorkerDies, Respond, TypeOK, pipes
      <3>3. NoCode => NoCode'
        <4>1. inbox[1] # <<>> => \A i \in 1..Len(Tail(inbox[1])) :
                i + 1 \in 1..Len(inbox[1]) /\ Tail(inbox[1])[i] = inbox[1][i + 1]
          BY <1>1
        <4> QED
          BY <3>2, <4>1
      <3> QED
        BY <1>2, <2>1, <3>1, <3>3 DEF StartInv, Starting, Gone, AtFirst, Shown
    <2> QED
      BY <2>2, <2>3
  <1>5. ASSUME NEW c \in Callers, Call(c) \/ CloseCall(c) \/ Step(c),
               ~Locked(c), ~Send(c), ~CloseSend(c), ~Receive(c), ~Update(c)
        PROVE  StartInv'
    <2>1. UNCHANGED <<sandbox, snapshot, inbox>>
      BY <1>5, ThreadKeeps, StartKept
    <2>2. ASSUME NEW e \in Executors, Starting(e)' PROVE Starting(e)
      BY <1>3, <1>5, <2>2, StartKept
    <2> QED
      BY <1>2, <2>1, <2>2 DEF StartInv, AtFirst, Shown
  <1>6. ASSUME NEW c \in Callers, Locked(c) PROVE StartInv'
    <2>1. c \in Executors /\ \A e \in Executors : e = c
      BY <1>6 DEF Locked, RoleInv, Terms, Callers, OneExecutor
    <2>2. UNCHANGED <<sandbox, snapshot, inbox, worker, closed, broken>>
      BY <1>6 DEF Locked, parent, flags, procs, pipes
    <2>3. ASSUME Starting(c)' PROVE worker[1] = "unborn" /\ inbox[1] = <<>>
      <3>1. process = None /\ ~Gone
        BY <1>6, <2>2, <2>3 DEF Locked, Starting, Gone, Served, Goto, TypeOK
      <3>2. spawned = 0
        BY <1>6, <2>1, <3>1, BoundsAssumption DEF Locked, SpawnInv, TypeOK
      <3> QED
        BY <1>1, <3>2 DEF PipeInv
    <2> QED
      BY <1>2, <2>1, <2>2, <2>3 DEF StartInv, AtFirst, Shown
  <1>7. ASSUME NEW c \in Callers, Send(c) PROVE StartInv'
    <2>1. c \in Executors /\ \A e \in Executors : e = c
      BY <1>7 DEF Send, RoleInv, Terms, Callers, OneExecutor
    <2>2. UNCHANGED <<sandbox, snapshot, phase>>
      BY <1>7 DEF Send, MarkBroken, Terminate, parent, local, procs
    <2>3. ASSUME Starting(c)' PROVE Starting(c) /\ NoCode'
      <3>1. Starting(c) /\ phase[c] = "snapshot"
        BY <1>7, <2>2, <2>3 DEF Send, Starting, Served
      <3>2. /\ conn \in Workers
            /\ inbox' = [inbox EXCEPT ![conn] = Append(@, [op |-> phase[c],
                                                           id |-> <<c, calls[c]>>])]
        BY <1>7, <2>3 DEF Send, ConnUp, MarkBroken, Terminate, Goto, TypeOK, Starting, Served
      <3> DEFINE req == [op |-> "snapshot", id |-> <<c, calls[c]>>]
      <3>3. req \in Requests /\ req.op # "execute"
        BY DEF TypeOK, Requests, Ids
      <3>4. inbox'[1] = inbox[1] \/ inbox'[1] = Append(inbox[1], req)
        BY <1>1, <3>1, <3>2 DEF TypeOK
      <3>5. NoCode
        BY <2>1, <3>1 DEF StartInv
      <3> HIDE DEF req
      <3> QED
        BY <1>1, <3>1, <3>3, <3>4, <3>5, NoCodeAppended
    <2> QED
      BY <1>2, <2>1, <2>2, <2>3 DEF StartInv, AtFirst, Shown
  <1>8. ASSUME NEW c \in Callers, CloseSend(c) PROVE StartInv'
    <2>1. /\ UNCHANGED <<sandbox, snapshot, phase, closed, broken>>
          /\ \A e \in Executors : pc'[e] = pc[e] \/ pc'[e] \in {"term1", "idle"}
      BY <1>8
         DEF CloseSend, Terminate, ReleaseAndReturn, Return, Goto, TypeOK, parent, flags, procs,
             Callers
    <2>2. \A e \in Executors : Starting(e)' => Starting(e)
      BY <2>1 DEF Starting, Gone, Served
    <2>3. NoCode => NoCode'
      <3> DEFINE req == [op |-> "close", id |-> <<c, calls[c]>>]
      <3>1. req \in Requests /\ req.op # "execute"
        BY DEF TypeOK, Requests, Ids
      <3>2. inbox'[1] = inbox[1] \/ inbox'[1] = Append(inbox[1], req)
        BY <1>1, <1>8 DEF CloseSend, ReleaseAndReturn, Return, TypeOK, procs, pipes
      <3> HIDE DEF req
      <3> QED
        BY <1>1, <3>1, <3>2, NoCodeAppended
    <2> QED
      BY <1>2, <2>1, <2>2, <2>3 DEF StartInv, AtFirst, Shown
  <1>9. ASSUME NEW c \in Callers, Receive(c) \/ Update(c) PROVE StartInv'
    <2>1. c \in Executors /\ \A e \in Executors : e = c
      BY <1>9 DEF Receive, Waiting, Update, RoleInv, Terms, Callers, OneExecutor
    <2>2. ~Starting(c)'
      BY <1>9 DEF Receive, Update, Return, Starting, Served, Goto, TypeOK
    <2>3. UNCHANGED sandbox
      BY <1>9 DEF Receive, Update, Return, procs
    <2>4. snapshot' = snapshot \/ snapshot' = Picture(1)
      <3>1. CASE Receive(c)
        <4>1. conn = 1 /\ outbox[1] # <<>> /\ Carried(c, 1)
          <5>1. conn # None /\ conn \in Workers /\ conn <= 1
            BY <2>1, <3>1 DEF Receive, Waiting, SpawnInv, Served, TypeOK
          <5> QED
            BY <2>1, <3>1, <5>1 DEF Receive, RequestInv, None, Workers
        <4>2. outbox[1] \in Seq(Responses)
          BY <1>1 DEF TypeOK
        <4> QED
          BY <3>1, <4>1, <4>2 DEF Receive, Carried
      <3>2. CASE Update(c)
        BY <2>1, <3>2 DEF Update, UpdateInv
      <3> QED
        BY <1>9, <3>1, <3>2
    <2>5. ASSUME AtFirst PROVE AtFirst'
      <3>1. sandbox[1].rev = 0 /\ sandbox[1].fin = FALSE
        BY <2>5 DEF AtFirst, Fresh
      <3>2. sandbox'[1] = Fresh
        BY <2>3, <2>5 DEF AtFirst
      <3>3. \/ snapshot'.rev = snapshot.rev /\ snapshot'.fin = snapshot.fin
            \/ snapshot'.rev = 0 /\ snapshot'.fin = FALSE
        BY <2>4, <3>1 DEF Picture
      <3>4. Shown' = Shown \/ Shown' = Fresh
        BY <3>3 DEF Shown, Fresh
      <3> QED
        BY <2>5, <3>2, <3>4 DEF AtFirst
    <2> QED
      BY <1>2, <2>1, <2>2, <2>5 DEF StartInv
  <1> QED
    BY <1>4, <1>5, <1>6, <1>7, <1>8, <1>9 DEF Next

\* _process is emptied by threads that have closed or broken the executor.
LEMMA ProcessStep ==
  ASSUME TypeOK, RoleInv, SpawnInv, ProcessInv, Next
  PROVE  ProcessInv'
  <1> DEFINE Talks(e) == pc[e] \in Served \cup {"check"}
  <1> USE DEF Goto, parent, flags, handles, local, procs, Served
  <1>1. ASSUME NEW c \in Callers, Call(c) \/ CloseCall(c) \/ Step(c)
        PROVE  process' = process \/ process' # None \/ Gone
    <2>1. CASE Call(c) \/ CloseCall(c)
      BY <2>1 DEF Call, CloseCall
    <2>2. CASE Assign(c)
      BY <2>2 DEF Assign, RoleInv, SpawnInv, Terms, TypeOK, Callers, None
    <2>3. CASE ExecuteStep(c) /\ ~Assign(c)
      BY <2>3
         DEF ExecuteStep, Acquire, Locked, Spawn, SpawnFails, Update, Check, CheckThat, CheckAlive,
             ExecuteRaises, Send, Receive, PollEmpty, GiveUp, SeeGone, Timeout, MarkBroken,
             Terminate, NoAnswer, ReleaseAndReturn, Return
    <2>4. CASE TermForget(c)
      BY <2>4 DEF TermForget, RoleInv, Terms, Gone, Callers
    <2>5. CASE TerminateStep(c) /\ ~TermForget(c)
      BY <2>5
         DEF TerminateStep, TermConn, TermTest, TermKill, TermRaises, TermReturn, MarkBroken,
             Terminate, NoAnswer, ReleaseAndReturn, Return
    <2>6. CASE CloseStep(c)
      BY <2>6 DEF CloseStep, CloseMark, CloseAcquire, CloseForced, CloseTest, CloseSend, Terminate,
           ReleaseAndReturn, Return
    <2> QED
      BY <1>1, <2>1, <2>2, <2>3, <2>4, <2>5, <2>6 DEF Step
  <1>2. ASSUME NEW c \in Executors, Call(c) \/ CloseCall(c) \/ Step(c), Talks(c)'
        PROVE  Talks(c) \/ process' # None \/ Gone
    <2> c \in Callers /\ pc'[c] \in {"check", "alive", "send", "wait", "polled"}
      BY <1>2 DEF Callers
    <2> USE DEF TypeOK
    <2>1. CASE Call(c) \/ CloseCall(c)
      BY <2>1 DEF Call, CloseCall
    <2>2. CASE Assign(c) \/ Locked(c)
      BY <2>2 DEF Assign, Locked, SpawnInv, None
    <2>3. CASE ExecuteStep(c) /\ ~Assign(c) /\ ~Locked(c)
      BY <2>3
         DEF ExecuteStep, Acquire, Spawn, SpawnFails, Update, Check, CheckThat, CheckAlive,
             ExecuteRaises, Send, Receive, Waiting, PollEmpty, GiveUp, SeeGone, Timeout, Late,
             MarkBroken, Terminate, NoAnswer, ReleaseAndReturn, Return
    <2>4. CASE TerminateStep(c)
      BY <2>4 DEF TerminateStep, TermConn, TermTest, TermKill, TermRaises, TermForget, TermReturn,
                  RoleInv, Terms, Gone
    <2>5. CASE CloseStep(c)
      BY <2>5, ThreadsAssumption
         DEF CloseStep, CloseMark, CloseAcquire, CloseForced, CloseTest, CloseSend, RoleInv
    <2> QED
      BY <1>2, <2>1, <2>2, <2>3, <2>4, <2>5 DEF Step
  <1>3. ASSUME NEW c \in Callers, Call(c) \/ CloseCall(c) \/ Step(c) PROVE ProcessInv'
    <2>1. Gone => Gone'
      BY <1>3, ThreadKeeps
    <2>2. ASSUME NEW e \in Executors, Talks(e)', ~Gone' PROVE process' # None
      <3>1. CASE e = c
        BY <1>1, <1>2, <1>3, <2>1, <2>2, <3>1 DEF ProcessInv
      <3>2. CASE e # c
        BY <1>1, <1>3, <2>1, <2>2, <3>2, ThreadMoves DEF ProcessInv, Callers
      <3> QED
        BY <3>1, <3>2
    <2> QED
      BY <2>2 DEF ProcessInv
  <1>4. ASSUME NEW w \in Workers, WorkerStep(w) PROVE ProcessInv'
    BY <1>4 DEF WorkerStep, ProcessInv, Gone
  <1> QED
    BY <1>3, <1>4 DEF Next

-----------------------------------------------------------------------------
(* The executor implements Sandbox                                         *)

\* A close() that has ended stays ended: the executor is closed, another call returns at once.
LEMMA EndedKept ==
  ASSUME MoreInv, Next, NEW k \in Closers, Ended(k)
  PROVE  Ended(k)'
  <1>1. ASSUME NEW w \in Workers, WorkerStep(w) PROVE Ended(k)'
    BY <1>1 DEF WorkerStep, local, Ended
  <1>2. ASSUME NEW c \in Callers, c # k, Call(c) \/ CloseCall(c) \/ Step(c) PROVE Ended(k)'
    BY <1>2, ThreadMoves DEF MoreInv, IInv, Ended, Callers
  <1>3. ASSUME CloseCall(k) \/ TerminateStep(k) \/ CloseStep(k) PROVE Ended(k)'
    <2>1. closed
      BY DEF MoreInv, RaiseInv, Ended
    <2>2. CloseCall(k)
      BY <1>3 DEF Ended, TerminateStep, TermConn, TermTest, TermKill, TermRaises, TermForget,
                  TermReturn, CloseStep, CloseMark, CloseAcquire, CloseForced, CloseTest, CloseSend
    <2> QED
      BY <2>1, <2>2 DEF CloseCall, Goto, Ended, MoreInv, IInv, TypeOK, Callers
  <1> QED
    BY <1>1, <1>2, <1>3, CloserSteps DEF Next, Callers, MoreInv, IInv

LEMMA DeadKept ==
  ASSUME MoreInv, Next, worker[1] = "dead"
  PROVE  worker'[1] = "dead"
  <1> USE DEF parent, local, procs, pipes
  <1>1. 1 \in Workers /\ worker \in [Workers -> {"unborn", "init", "recv", "exec", "dead"}]
    BY BoundsAssumption DEF Workers, MoreInv, IInv, TypeOK
  <1>2. ASSUME NEW w \in Workers, WorkerStep(w) PROVE worker'[1] = "dead"
    BY <1>1, <1>2
       DEF WorkerStep, WorkerReady, WorkerTake, WorkerFinish, WorkerEof, WorkerDies, Become, Alive
  <1>3. ASSUME NEW c \in Callers, Spawn(c) PROVE worker'[1] = "dead"
    <2>1. spawned \in Nat /\ spawned # 0
      BY <1>1, BoundsAssumption DEF MoreInv, IInv, TypeOK, PipeInv
    <2> QED
      BY <1>1, <1>3, <2>1 DEF Spawn
  <1>4. ASSUME NEW c \in Callers, ExecuteStep(c), ~Spawn(c) PROVE worker' = worker
    BY <1>4
       DEF ExecuteStep, Acquire, Locked, SpawnFails, Assign, Update, Check, CheckThat, CheckAlive,
           ExecuteRaises, Send, Receive, PollEmpty, GiveUp, SeeGone, Timeout, MarkBroken, Terminate,
           NoAnswer, ReleaseAndReturn, Return
  <1>5. ASSUME NEW c \in Callers, TerminateStep(c) PROVE worker'[1] = "dead"
    BY <1>1, <1>5
       DEF TerminateStep, TermConn, TermTest, TermKill, TermRaises, TermForget, TermReturn,
           MarkBroken, Terminate, NoAnswer, ReleaseAndReturn, Return
  <1>6. ASSUME NEW c \in Callers, Call(c) \/ CloseCall(c) \/ CloseStep(c) PROVE worker' = worker
    BY <1>6
       DEF Call, CloseCall, CloseStep, CloseMark, CloseAcquire, CloseForced, CloseTest, CloseSend,
           Terminate, ReleaseAndReturn, Return
  <1> QED
    BY <1>2, <1>3, <1>4, <1>5, <1>6 DEF Next, Step

Pending   == \E c \in Executors : pc[c] # "idle"
Accepting == ~broken /\ ~closed
Running   == worker[1] # "dead" /\ ~CloseEnded

LEMMA InitMaps == Init => SB!Init
  BY BoundsAssumption DEF Init, SB!Init, CloseEnded, EmptySnapshot, Workers, Callers

\* What is over is over.
LEMMA NothingRevives ==
  ASSUME MoreInv, Next
  PROVE  /\ Accepting' \in {Accepting, FALSE} /\ Running' \in {Running, FALSE}
         /\ CloseEnded => CloseEnded'
  <1>1. CloseEnded => CloseEnded'
    BY EndedKept DEF CloseEnded, Ended
  <1>2. Running' => Running
    BY <1>1, DeadKept DEF Running
  <1>3. Gone => Gone'
    BY ThreadKeeps DEF Next, WorkerStep, parent, flags, Gone, MoreInv, IInv
  <1>4. Accepting' => Accepting
    BY <1>3 DEF Accepting, Gone
  <1>5. Accepting' \in {Accepting, FALSE}
    <2>1. Accepting \in BOOLEAN /\ Accepting' \in BOOLEAN
      BY Zenon DEF Accepting
    <2> QED
      BY <1>4, <2>1, Zenon
  <1>6. Running' \in {Running, FALSE}
    <2>1. Running \in BOOLEAN /\ Running' \in BOOLEAN
      BY Zenon DEF Running
    <2> QED
      BY <1>2, <2>1, Zenon
  <1> QED
    BY <1>1, <1>5, <1>6

LEMMA BreakMaps ==
  ASSUME MoreInv, Next, UNCHANGED <<sandbox[1], Shown, Pending>>
  PROVE  SB!Break
  BY NothingRevives, Zenon DEF SB!Break, Shown, Pending, Accepting, Running

\* A call that comes back without an answer leaves the executor broken or closed, or the one
\* worker that there is dead.
LEMMA LostIsOver ==
  ASSUME MoreInv, StartInv, ProcessInv, NEW c \in Executors, Step(c), ~Update(c), pc'[c] = "idle"
  PROVE  Gone' \/ worker'[1] = "dead"
  <1> SUFFICES ASSUME ~Gone PROVE worker'[1] = "dead"
    BY ThreadKeeps DEF Callers, MoreInv, IInv
  <1> c \in Callers
    BY DEF Callers
  <1>1. pc[c] \notin Terms
    BY DEF MoreInv, IInv, RoleInv, Gone
  <1>2. Check(c) \/ CheckAlive(c) \/ GiveUp(c)
    <2> USE DEF MoreInv, IInv, TypeOK, Goto
    <2>1. ~TerminateStep(c)
      BY <1>1 DEF TerminateStep, TermConn, TermTest, TermKill, TermRaises, TermForget, TermReturn,
                  Terms
    <2>2. ~CloseStep(c)
      BY ThreadsAssumption
         DEF CloseStep, CloseMark, CloseAcquire, CloseForced, CloseTest, CloseSend, RoleInv
    <2>3. ASSUME ExecuteStep(c), ~Check(c), ~CheckAlive(c), ~GiveUp(c) PROVE FALSE
      BY <2>3
         DEF ExecuteStep, Acquire, Locked, Spawn, SpawnFails, Assign, Send, Receive, PollEmpty,
             SeeGone, Timeout, MarkBroken, Terminate
    <2> QED
      BY <2>1, <2>2, <2>3 DEF Step
  <1>3. pc[c] \in Served \cup {"check"} /\ process # None /\ conn # None
    <2>1. pc[c] \in Served \cup {"check"}
      BY <1>2 DEF Check, CheckThat, CheckAlive, GiveUp, Served
    <2> QED
      BY <2>1 DEF ProcessInv, OrphanInv, MoreInv
  <1>4. process = 1 /\ spawned = 1
    BY <1>3, BoundsAssumption DEF MoreInv, IInv, TypeOK, SpawnInv, None, Workers
  <1>5. ~Alive(1)
    BY <1>2, <1>3, <1>4
       DEF Check, CheckThat, CheckAlive, GiveUp, Connected, Gone, MoreInv, IInv, TypeOK, Goto
  <1>6. worker[1] = "dead"
    BY <1>4, <1>5, BoundsAssumption DEF Alive, StartInv, MoreInv, IInv, TypeOK, Workers
  <1>7. Next
    BY DEF Next
  <1> QED
    BY <1>6, <1>7, DeadKept

\* Code runs while a call is open, or when none can be opened any more.
LEMMA WorkMaps ==
  ASSUME MoreInv, WorkerStep(1), WorkerFinish(1)
  PROVE  SB!Work
  <1>1. 1 \in Workers /\ sandbox \in [Workers -> Sandboxes] /\ inbox[1] \in Seq(Requests)
    BY BoundsAssumption DEF Workers, MoreInv, IInv, TypeOK
  <1>2. PICK g \in AfterBlock(sandbox[1]) : sandbox' = [sandbox EXCEPT ![1] = g]
    BY DEF WorkerFinish
  <1>3. sandbox'[1] \in AfterBlock(sandbox[1])
    BY <1>1, <1>2
  <1>4. UNCHANGED <<snapshot, pc, cause, broken, closed>>
    BY DEF WorkerStep, parent, flags, local
  <1>5. worker[1] = "exec" /\ inbox[1] # <<>> /\ Head(inbox[1]).op = "execute"
    BY <1>1 DEF WorkerFinish, MoreInv, IInv, PipeInv, RequestInv
  <1>6. HasCode(1)
    <2>1. 1 \in 1..Len(inbox[1]) /\ Head(inbox[1]) = inbox[1][1]
      BY <1>1, <1>5
    <2> QED
      BY <1>5, <2>1 DEF HasCode, Alive
  <1>7. Running
    BY <1>1, <1>6 DEF Running, CloseEnded, MoreInv, EndInv, Ended, WorkerFinish
  <1>8. Pending \/ ~Accepting
    BY <1>1, <1>5 DEF Pending, Accepting, MoreInv, RequestInv, Gone, Alive, Quiet, Waiting
  <1>9. Running' \in BOOLEAN
    BY Zenon DEF Running
  <1>10. UNCHANGED <<Shown, Pending, Accepting>>
    BY <1>4 DEF Shown, Pending, Accepting
  <1> QED
    BY <1>3, <1>7, <1>8, <1>9, <1>10 DEF SB!Work, Shown, Pending, Accepting, Running

\* What leaves the handles, the workers and the closing threads as they are.
LEMMA SameEnds ==
  ASSUME UNCHANGED <<closed, broken, worker, cause>>, \A k \in Closers : pc'[k] = pc[k]
  PROVE  UNCHANGED <<Accepting, Running>>
  <1>1. CloseEnded' <=> CloseEnded
    BY DEF CloseEnded
  <1>2. /\ Accepting \in BOOLEAN /\ Accepting' \in BOOLEAN
        /\ Running \in BOOLEAN /\ Running' \in BOOLEAN
    BY Zenon DEF Accepting, Running
  <1>3. (Accepting' <=> Accepting) /\ (Running' <=> Running)
    BY <1>1 DEF Accepting, Running
  <1> QED
    BY <1>2, <1>3, Zenon

\* A closing thread opens and ends no call.
LEMMA CloserMaps ==
  ASSUME MoreInv, NEW k \in Closers, Call(k) \/ CloseCall(k) \/ Step(k)
  PROVE  SB!Break
  <1>1. CloseCall(k) \/ TerminateStep(k) \/ CloseStep(k)
    BY CloserSteps DEF MoreInv, IInv
  <1>2. k \in Callers /\ \A e \in Executors : e \in Callers /\ e # k
    BY ThreadsAssumption DEF Callers
  <1>3. ~Receive(k) /\ ~Update(k)
    BY ThreadsAssumption DEF MoreInv, IInv, RoleInv, Receive, Waiting, Update, Terms
  <1>4. UNCHANGED <<sandbox, snapshot>>
    BY <1>2, <1>3, ThreadKeeps DEF MoreInv, IInv
  <1>5. \A e \in Executors : pc'[e] = pc[e]
    BY <1>2, ThreadMoves DEF MoreInv, IInv
  <1>6. Pending' = Pending
    <2>1. Pending \in BOOLEAN /\ Pending' \in BOOLEAN
      BY Zenon DEF Pending
    <2>2. Pending' <=> Pending
      BY <1>5 DEF Pending
    <2> QED
      BY <2>1, <2>2, Zenon
  <1>7. Next
    BY <1>2 DEF Next
  <1> QED
    BY <1>4, <1>6, <1>7, BreakMaps DEF Shown

\* The executing thread opens a call and gets it answered or loses it.
LEMMA ExecutorMaps ==
  ASSUME OneExecutor, MoreInv, UpdateInv, StartInv, ProcessInv,
         NEW c \in Executors, Call(c) \/ CloseCall(c) \/ Step(c)
  PROVE  SB!Next
  <1> c \in Callers /\ c \notin Closers
    BY ThreadsAssumption DEF Callers
  <1>1. 1 \in Workers /\ sandbox[1] \in Sandboxes /\ outbox[1] \in Seq(Responses)
    BY BoundsAssumption DEF Workers, MoreInv, IInv, TypeOK
  <1>2. Next
    BY DEF Next
  <1>3. (Pending <=> pc[c] # "idle") /\ (Pending' <=> pc'[c] # "idle")
    BY DEF OneExecutor, Pending
  <1>4. Pending \in BOOLEAN /\ Pending' \in BOOLEAN
    BY Zenon DEF Pending
  <1>5. \A k \in Closers : pc'[k] = pc[k]
    BY ThreadMoves DEF MoreInv, IInv, Callers
  <1>6. UNCHANGED sandbox /\ (~Receive(c) /\ ~Update(c) => UNCHANGED snapshot)
    BY ThreadKeeps DEF MoreInv, IInv
  <1>7. CASE pc[c] = "idle"
    <2>1. Call(c)
      BY <1>7 DEF CloseCall, Step, ExecuteStep, Acquire, Locked, Spawn, SpawnFails, Assign, Update,
                  Check, CheckThat, CheckAlive, ExecuteRaises, Send, Receive, Waiting, PollEmpty,
                  GiveUp, SeeGone, Timeout, Late, TerminateStep, TermConn, TermTest, TermKill,
                  TermRaises, TermForget, TermReturn, CloseStep, CloseMark, CloseAcquire,
                  CloseForced, CloseTest, CloseSend
    <2>2. /\ UNCHANGED <<snapshot, closed, broken, worker, cause>>
          /\ pc'[c] # "idle" => ~closed /\ ~broken
      BY <2>1 DEF Call, Goto, MoreInv, IInv, TypeOK, parent, flags, procs
    <2>3. UNCHANGED <<Accepting, Running>>
      BY <1>5, <2>2, SameEnds
    <2>4. CASE pc'[c] = "idle"
      BY <1>2, <1>3, <1>4, <1>6, <1>7, <2>2, <2>4, BreakMaps DEF SB!Next, Shown
    <2>5. CASE pc'[c] # "idle"
      <3>1. ~Pending /\ Accepting /\ Pending' = TRUE
        BY <1>3, <1>4, <1>7, <2>2, <2>5 DEF Accepting
      <3>2. UNCHANGED <<sandbox[1], Shown>>
        BY <1>6, <2>2 DEF Shown
      <3> QED
        BY <2>3, <3>1, <3>2, Zenon DEF SB!Next, SB!Begin, Shown, Pending, Accepting, Running
    <2> QED
      BY <2>4, <2>5
  <1>8. CASE pc[c] # "idle" /\ pc'[c] # "idle"
    <2>1. ~Update(c)
      BY <1>8 DEF Update, Return, Goto, MoreInv, IInv, TypeOK
    <2>2. ASSUME Receive(c), snapshot' # snapshot PROVE Shown' = Shown
      <3>1. Starting(c) /\ snapshot' = Head(outbox[conn]).snap
        BY <2>2 DEF Receive, Waiting, Starting, Served
      <3>2. conn = 1 /\ outbox[1] # <<>> /\ Carried(c, 1)
        <4>1. conn # None /\ conn \in Workers /\ conn <= 1
          BY <2>2 DEF Receive, Waiting, MoreInv, IInv, SpawnInv, Served, TypeOK
        <4> QED
          BY <2>2, <4>1 DEF Receive, MoreInv, RequestInv, None, Workers
      <3>3. snapshot' = Picture(1)
        BY <1>1, <3>1, <3>2 DEF Carried
      <3>4. AtFirst
        BY <3>1 DEF StartInv
      <3> QED
        BY <3>3, <3>4 DEF AtFirst, Fresh, Shown, Picture
    <2>3. UNCHANGED Shown
      BY <1>6, <2>1, <2>2 DEF Shown
    <2> QED
      BY <1>2, <1>3, <1>4, <1>6, <1>8, <2>3, BreakMaps DEF SB!Next
  <1>9. CASE pc[c] # "idle" /\ pc'[c] = "idle" /\ Update(c)
    <2>1. snapshot' = Picture(1) /\ UNCHANGED <<closed, broken, worker, cause>>
      BY <1>9 DEF Update, Return, UpdateInv, flags, procs
    <2>2. UNCHANGED <<Accepting, Running>>
      BY <1>5, <2>1, SameEnds
    <2>3. Shown' = sandbox[1] /\ sandbox'[1] = sandbox[1]
      BY <1>1, <1>6, <2>1 DEF Shown, Picture, Sandboxes
    <2>4. Pending /\ Pending' = FALSE
      BY <1>3, <1>4, <1>9
    <2> QED
      BY <2>2, <2>3, <2>4, Zenon DEF SB!Next, SB!Answer, Shown, Pending, Accepting, Running
  <1>10. CASE pc[c] # "idle" /\ pc'[c] = "idle" /\ ~Update(c)
    <2>1. Step(c)
      BY <1>10 DEF Call, CloseCall
    <2>2. ~Receive(c)
      BY <1>10 DEF Receive, Goto, MoreInv, IInv, TypeOK
    <2>3. UNCHANGED <<sandbox[1], Shown>>
      BY <1>6, <1>10, <2>2 DEF Shown
    <2>4. Pending /\ Pending' = FALSE
      BY <1>3, <1>4, <1>10
    <2>5. ~Accepting' \/ ~Running'
      BY <1>10, <2>1, LostIsOver DEF Accepting, Running, Gone
    <2>6. Accepting' \in {Accepting, FALSE} /\ Running' \in {Running, FALSE}
      BY <1>2, NothingRevives
    <2> QED
      BY <2>3, <2>4, <2>5, <2>6, Zenon
         DEF SB!Next, SB!Lose, Shown, Pending, Accepting, Running
  <1> QED
    BY <1>7, <1>8, <1>9, <1>10

LEMMA StepMaps ==
  ASSUME OneExecutor, MoreInv, UpdateInv, StartInv, ProcessInv, [Next]_vars
  PROVE  [SB!Next]_(SB!vars)
  <1>1. CASE UNCHANGED vars
    BY <1>1 DEF vars, parent, flags, local, procs, SB!vars, CloseEnded
  <1>2. ASSUME NEW w \in Workers, WorkerStep(w) PROVE SB!Next
    <2>1. 1 \in Workers
      BY BoundsAssumption DEF Workers
    <2>2. CASE w = 1 /\ WorkerFinish(w)
      BY <1>2, <2>2, WorkMaps DEF SB!Next
    <2>3. CASE ~(w = 1 /\ WorkerFinish(w))
      <3>1. sandbox'[1] = sandbox[1]
        BY <1>2, <2>1, <2>3 DEF WorkerStep, WorkerReady, WorkerTake, WorkerFinish, WorkerEof,
                                 WorkerDies, MoreInv, IInv, TypeOK
      <3>2. UNCHANGED <<Shown, Pending>>
        BY <1>2 DEF WorkerStep, parent, Shown, Pending
      <3>3. Next
        BY <1>2 DEF Next
      <3> QED
        BY <3>1, <3>2, <3>3, BreakMaps DEF SB!Next
    <2> QED
      BY <2>2, <2>3
  <1>3. ASSUME NEW c \in Callers, Call(c) \/ CloseCall(c) \/ Step(c) PROVE SB!Next
    BY <1>3, ExecutorMaps, CloserMaps DEF SB!Next, Callers
  <1> QED
    BY <1>1, <1>2, <1>3 DEF Next

OneInv == MoreInv /\ UpdateInv /\ StartInv /\ ProcessInv

LEMMA InductiveOne ==
  ASSUME OneExecutor
  PROVE  Spec => []OneInv
  <1>1. Init => OneInv
    <2> SUFFICES ASSUME Init PROVE UpdateInv /\ StartInv /\ ProcessInv
      BY InitMore DEF OneInv
    <2> QED
      BY BoundsAssumption
         DEF Init, UpdateInv, StartInv, Starting, AtFirst, Fresh, Shown, EmptySnapshot, ProcessInv,
             Served, Workers, Callers
  <1>2. OneInv /\ [Next]_vars => OneInv'
    <2> SUFFICES ASSUME OneInv, [Next]_vars PROVE OneInv'
      OBVIOUS
    <2>1. MoreInv'
      BY StepMore DEF OneInv
    <2>2. CASE Next
      BY <2>1, <2>2, UpdateStep, StartStep, ProcessStep DEF OneInv, MoreInv, IInv
    <2>3. CASE UNCHANGED vars
      BY <2>1, <2>3
         DEF OneInv, vars, parent, flags, handles, local, procs, pipes, UpdateInv, Picture,
             StartInv, Starting, AtFirst, Fresh, Shown, ProcessInv, Gone
    <2> QED
      BY <2>2, <2>3
  <1> QED
    BY <1>1, <1>2, PTL DEF Spec

\* With one executing thread, any number of closing ones and any number of workers the executor
\* keeps the promise of Sandbox: one sandbox, changed by code alone and only while a call is open
\* or none can be opened any more, shown as it is when a call is answered, and given up or
\* without a process when one comes back without an answer.
THEOREM ExecutorIsSandbox ==
  ASSUME \A c, d \in Executors : c = d
  PROVE  Spec => ImplementsSandbox
  <1>1. OneExecutor
    BY DEF OneExecutor
  <1>2. Spec => []OneInv
    BY <1>1, InductiveOne
  <1>3. OneInv /\ [Next]_vars => [SB!Next]_(SB!vars)
    BY <1>1, StepMaps DEF OneInv
  <1> QED
    BY <1>2, <1>3, InitMaps, PTL DEF Spec, ImplementsSandbox, SB!Spec
=============================================================================
