-------------------------- MODULE ExperimentProofs --------------------------
(* Theorems about Experiment for any set of questions, limits and launches. *)
EXTENDS Experiment, TLAPS

-----------------------------------------------------------------------------
(* The inductive invariant.                                                *)

Working == {"gate", "run", "closeLlm", "closeExec"}

\* Only a task that found no answer on disk works on its item, and only it writes the file.
WriterInv(i) ==
  /\ pc[i] \in Working => file[i] # "answered" /\ writer[i] = "none"
  /\ pc[i] \in {"new", "load"} => writer[i] = "none"
  /\ pc[i] # "end" => outcome[i] # "cached"
  /\ writer[i] # "none" => file[i] # "answered" /\ outcome[i] \in Answers
  /\ file[i] # "error"

\* While no task is cancelled, a task that writes waits for its thread, a task that has ended
\* has closed its sandbox, and the result it returned is on disk.
EndedInv(i) ==
  /\ writer[i] = "none" <=> pc[i] # "write"
  /\ sandbox[i] = "open" => pc[i] \in Working
  /\ pc[i] = "end" => /\ outcome[i] \in Answers => file[i] = outcome[i]
                      /\ outcome[i] = "cached" => file[i] = "answered"

PhaseInv ==
  /\ phase # "aborting" => cancelling = {}
  /\ \A i \in cancelling : pc[i] # "end"
  /\ phase \in {"down", "done"} => \A i \in Items : pc[i] = "end" /\ writer[i] = "none"

IInv ==
  /\ TypeOK /\ PhaseInv
  /\ \A i \in Items : WriterInv(i)
  /\ phase \in {"running", "done"} => \A i \in Items : EndedInv(i)

-----------------------------------------------------------------------------
(* Steps of a task                                                         *)

\* Every step of a task preserves the type invariant.
LEMMA TaskType ==
  ASSUME TypeOK, NEW i \in Items, TaskStep(i)
  PROVE  TypeOK'
  <1> USE DEF script, Goto, Hold, TypeOK, Places, Outcomes, Answers, Errors, Files
  <1>1. CASE Enter(i)
    BY <1>1 DEF Enter, Build, End
  <1>2. CASE Load(i)
    BY <1>2 DEF Load, Build, End
  <1>3. CASE Start(i)
    BY <1>3 DEF Start
  <1>4. CASE Answer(i)
    BY <1>4 DEF Answer, Leave
  <1>5. CASE Raise(i)
    BY <1>5 DEF Raise, Leave
  <1>6. CASE Timeout(i)
    BY <1>6 DEF Timeout, Leave
  <1>7. CASE CloseLlm(i)
    BY <1>7 DEF CloseLlm
  <1>8. CASE Close(i)
    BY <1>8 DEF Close, CloseAndSave
  <1>9. CASE Open(i)
    BY <1>9 DEF Open
  <1>10. CASE Written(i)
    BY <1>10 DEF Written, Wake, End, Content
  <1>11. CASE WriteFails(i)
    BY <1>11 DEF WriteFails, Wake, End
  <1>12. CASE Cancelled(i)
    BY <1>12 DEF Cancelled, End
  <1> QED
    BY <1>1, <1>2, <1>3, <1>4, <1>5, <1>6, <1>7, <1>8, <1>9, <1>10, <1>11, <1>12 DEF TaskStep, Driven

\* No task moves when the script is down or done.
LEMMA TaskPhase ==
  ASSUME TypeOK, PhaseInv, NEW i \in Items, TaskStep(i)
  PROVE  PhaseInv'
  <1> USE DEF script, Goto, Hold, TypeOK, PhaseInv, Awaits
  <1>1. CASE Enter(i)
    BY <1>1 DEF Enter, Build, End
  <1>2. CASE Load(i)
    BY <1>2 DEF Load, Build, End
  <1>3. CASE Start(i)
    BY <1>3 DEF Start
  <1>4. CASE Answer(i)
    BY <1>4 DEF Answer, Leave
  <1>5. CASE Raise(i)
    BY <1>5 DEF Raise, Leave
  <1>6. CASE Timeout(i)
    BY <1>6 DEF Timeout, Leave
  <1>7. CASE CloseLlm(i)
    BY <1>7 DEF CloseLlm
  <1>8. CASE Close(i)
    BY <1>8 DEF Close, CloseAndSave
  <1>9. CASE Open(i)
    BY <1>9 DEF Open
  <1>10. CASE Written(i)
    BY <1>10 DEF Written, Wake, End, Content
  <1>11. CASE WriteFails(i)
    BY <1>11 DEF WriteFails, Wake, End
  <1>12. CASE Cancelled(i)
    BY <1>12 DEF Cancelled, End
  <1> QED
    BY <1>1, <1>2, <1>3, <1>4, <1>5, <1>6, <1>7, <1>8, <1>9, <1>10, <1>11, <1>12 DEF TaskStep, Driven

\* A task that found an answer does not work, and the others never store an ERROR.
LEMMA TaskWriter ==
  ASSUME TypeOK, \A j \in Items : WriterInv(j), NEW i \in Items, TaskStep(i)
  PROVE  \A j \in Items : WriterInv(j)'
  <1> USE DEF script, Goto, Hold, TypeOK, WriterInv, Working, Answers, Errors, Outcomes, Awaits
  <1>1. CASE Enter(i)
    BY <1>1 DEF Enter, Build, End
  <1>2. CASE Load(i)
    BY <1>2 DEF Load, Build, End
  <1>3. CASE Start(i)
    BY <1>3 DEF Start
  <1>4. CASE Answer(i)
    BY <1>4 DEF Answer, Leave
  <1>5. CASE Raise(i)
    BY <1>5 DEF Raise, Leave
  <1>6. CASE Timeout(i)
    BY <1>6 DEF Timeout, Leave
  <1>7. CASE CloseLlm(i)
    BY <1>7 DEF CloseLlm
  <1>8. CASE Close(i)
    BY <1>8 DEF Close, CloseAndSave
  <1>9. CASE Open(i)
    BY <1>9 DEF Open
  <1>10. CASE Written(i)
    BY <1>10 DEF Written, Wake, End, Content
  <1>11. CASE WriteFails(i)
    BY <1>11 DEF WriteFails, Wake, End
  <1>12. CASE Cancelled(i)
    BY <1>12 DEF Cancelled, End
  <1> QED
    BY <1>1, <1>2, <1>3, <1>4, <1>5, <1>6, <1>7, <1>8, <1>9, <1>10, <1>11, <1>12 DEF TaskStep, Driven

\* A task returns only when its sandbox is closed and its answer is on disk.
LEMMA TaskEnded ==
  ASSUME TypeOK, PhaseInv, \A j \in Items : WriterInv(j), \A j \in Items : EndedInv(j),
         phase = "running", NEW i \in Items, TaskStep(i)
  PROVE  \A j \in Items : EndedInv(j)'
  <1> USE DEF script, Goto, Hold, TypeOK, PhaseInv, WriterInv, EndedInv, Working, Answers, Errors, Awaits
  <1>1. CASE Enter(i)
    BY <1>1 DEF Enter, Build, End
  <1>2. CASE Load(i)
    BY <1>2 DEF Load, Build, End
  <1>3. CASE Start(i)
    BY <1>3 DEF Start
  <1>4. CASE Answer(i)
    BY <1>4 DEF Answer, Leave
  <1>5. CASE Raise(i)
    BY <1>5 DEF Raise, Leave
  <1>6. CASE Timeout(i)
    BY <1>6 DEF Timeout, Leave
  <1>7. CASE CloseLlm(i)
    BY <1>7 DEF CloseLlm
  <1>8. CASE Close(i)
    BY <1>8 DEF Close, CloseAndSave
  <1>9. CASE Open(i)
    BY <1>9 DEF Open
  <1>10. CASE Written(i)
    BY <1>10 DEF Written, Wake, End, Content
  <1>11. CASE WriteFails(i)
    BY <1>11 DEF WriteFails, Wake, End
  <1>12. CASE Cancelled(i)
    BY <1>12 DEF Cancelled, End
  <1> QED
    BY <1>1, <1>2, <1>3, <1>4, <1>5, <1>6, <1>7, <1>8, <1>9, <1>10, <1>11, <1>12 DEF TaskStep, Driven

-----------------------------------------------------------------------------
(* The invariant is inductive                                              *)

LEMMA InitInv == Init => IInv
  BY DEF Init, IInv, TypeOK, PhaseInv, WriterInv, EndedInv, Places, Outcomes, Answers, Errors, Files,
         Working

LEMMA ScriptInv ==
  ASSUME IInv, Launch \/ Finish \/ Abort \/ Interrupt \/ Exit \/ Kill
  PROVE  IInv'
  <1> USE DEF IInv, TypeOK, PhaseInv, WriterInv, EndedInv, Working
  <1>1. CASE Launch
    BY <1>1 DEF Launch, Places, Outcomes, Answers, Errors
  <1>2. CASE Finish
    BY <1>2 DEF Finish
  <1>3. CASE Abort \/ Interrupt
    BY <1>3 DEF Abort, Interrupt, CancelAll
  <1>4. CASE Exit
    BY <1>4 DEF Exit
  <1>5. CASE Kill
    BY <1>5 DEF Kill, Places, Outcomes, Answers, Errors
  <1> QED
    BY <1>1, <1>2, <1>3, <1>4, <1>5

LEMMA StepInv == IInv /\ [Next]_vars => IInv'
  <1>1. ASSUME IInv, NEW i \in Items, TaskStep(i) PROVE IInv'
    <2>1. TypeOK' /\ PhaseInv' /\ \A j \in Items : WriterInv(j)'
      BY <1>1, TaskType, TaskPhase, TaskWriter DEF IInv
    <2>2. phase' = phase
      BY <1>1 DEF TaskStep, Driven, script, Enter, Load, Start, Answer, Raise, Timeout, Leave,
                  CloseLlm, Close, CloseAndSave, Open, Written, WriteFails, Cancelled
    <2>3. phase # "done"
      BY <1>1 DEF IInv, PhaseInv, TaskStep, Driven, Awaits, Enter, Load, Start, Answer, Raise,
                  Timeout, Leave, CloseLlm, Close, CloseAndSave, Open, Written, WriteFails, Cancelled
    <2>4. CASE phase = "running"
      BY <1>1, <2>1, <2>2, <2>4, TaskEnded DEF IInv
    <2>5. CASE phase # "running"
      BY <2>1, <2>2, <2>3, <2>5 DEF IInv
    <2> QED
      BY <2>4, <2>5
  <1>2. ASSUME IInv, UNCHANGED vars PROVE IInv'
    BY <1>2 DEF vars, IInv, TypeOK, PhaseInv, WriterInv, EndedInv
  <1> QED
    BY <1>1, <1>2, ScriptInv DEF Next

LEMMA Inductive == Spec => []IInv
  BY InitInv, StepInv, PTL DEF Spec

-----------------------------------------------------------------------------
(* Theorems                                                                *)

\* Every variable keeps its type; in particular no task ever returns what it did not parse.
THEOREM TypeCorrect == Spec => []TypeOK
  BY Inductive, PTL DEF IInv

\* No ERROR result is ever saved, so a relaunch works on the item again.
THEOREM ErrorsAreNotSaved == Spec => []NoErrorOnDisk
  <1>1. IInv => NoErrorOnDisk
    BY DEF IInv, WriterInv, NoErrorOnDisk
  <1> QED
    BY <1>1, Inductive, PTL

\* The answers a launch reports are on disk.
THEOREM ReportedIsSaved == Spec => []DoneIsSaved
  <1>1. IInv => DoneIsSaved
    BY DEF IInv, PhaseInv, EndedInv, DoneIsSaved
  <1> QED
    BY <1>1, Inductive, PTL

\* A launch that is not aborted closes every sandbox it opened.
THEOREM SandboxesAreClosed == Spec => []SandboxesClosed
  <1>1. IInv => SandboxesClosed
    BY DEF IInv, PhaseInv, EndedInv, Working, SandboxesClosed
  <1> QED
    BY <1>1, Inductive, PTL

\* An answer on disk survives every relaunch, abort and crash.
THEOREM SavedAnswersSurvive == Spec => AnswerSurvives
  <1>1. ASSUME IInv, [Next]_vars, NEW j \in Items, file[j] = "answered"
        PROVE  file'[j] = "answered"
    <2>1. ASSUME NEW i \in Items, TaskStep(i) PROVE file'[j] = "answered"
      <3>1. CASE file' = file
        BY <1>1, <3>1
      <3>2. CASE Open(i) \/ Written(i)
        <4>1. writer[i] # "none" /\ file[i] # "answered"
          BY <1>1, <3>2 DEF IInv, WriterInv, Open, Written
        <4> QED
          BY <1>1, <3>2, <4>1 DEF IInv, TypeOK, Open, Written
      <3> QED
        BY <2>1, <3>1, <3>2 DEF TaskStep, Driven, Enter, Load, Start, Answer, Raise, Timeout, Leave,
                                CloseLlm, Close, CloseAndSave, WriteFails, Cancelled
    <2>2. CASE UNCHANGED file
      BY <1>1, <2>2
    <2> QED
      BY <1>1, <2>1, <2>2 DEF Next, vars, Launch, Finish, Abort, Interrupt, CancelAll, Exit, Kill
  <1>2. IInv /\ [Next]_vars =>
          [\A i \in Items : file[i] = "answered" => file'[i] = "answered"]_vars
    BY <1>1
  <1> QED
    BY <1>2, Inductive, PTL DEF Spec, AnswerSurvives
=============================================================================
