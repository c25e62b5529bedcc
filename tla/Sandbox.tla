------------------------------- MODULE Sandbox -------------------------------
(***************************************************************************)
(* What the code executor promises to the one agent that uses it, without  *)
(* processes, pipes, locks and threads: something that holds a content     *)
(* (the variables and the claim graph), a picture of it that the agent     *)
(* reads between two calls, and calls that are answered or lost.           *)
(*                                                                         *)
(* CodeExecutor implements it.  AgentLoop is composed with it: what the    *)
(* agent's sandbox does there are the actions of this module.              *)
(***************************************************************************)
CONSTANTS First,          \* the content after the init code
          Change(_, _)    \* whether running code may turn one content into another

VARIABLES
  content,    \* the worker's executor_globals
  shown,      \* the cached snapshot of it
  pending,    \* a call of execute() is open
  accepting,  \* further calls may be opened: neither _broken nor _closed
  running     \* there may be a process that runs code

vars == <<content, shown, pending, accepting, running>>

Init ==
  /\ content = First /\ shown = First
  /\ pending = FALSE /\ accepting = TRUE /\ running = TRUE

\* A call that is not refused at once.
Begin ==
  /\ ~pending /\ accepting
  /\ pending' = TRUE
  /\ UNCHANGED <<content, shown, accepting, running>>

\* Code runs, perhaps as its worker's last act.  Between two calls it does so only when the
\* first of them was lost and the second will be refused.
Work ==
  /\ running /\ (pending \/ ~accepting)
  /\ Change(content, content')
  /\ running' \in BOOLEAN
  /\ UNCHANGED <<shown, pending, accepting>>

\* The call is answered: the agent sees the content as it is now, neither an older one nor the
\* content of another sandbox.
Answer ==
  /\ pending
  /\ pending' = FALSE /\ shown' = content
  /\ UNCHANGED <<content, accepting, running>>

\* The call comes back without an answer.  What its code did stays hidden, but then no further
\* call is opened, or there is no code any more.
Lose ==
  /\ pending
  /\ pending' = FALSE
  /\ accepting' \in {accepting, FALSE} /\ running' \in {running, FALSE}
  /\ ~accepting' \/ ~running'
  /\ UNCHANGED <<content, shown>>

\* A time limit, the death of a worker or close(), at any time.
Break ==
  /\ accepting' \in {accepting, FALSE} /\ running' \in {running, FALSE}
  /\ UNCHANGED <<content, shown, pending>>

Next == Begin \/ Work \/ Answer \/ Lose \/ Break

Spec == Init /\ [][Next]_vars
=============================================================================
