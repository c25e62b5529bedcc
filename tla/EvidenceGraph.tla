---------------------------- MODULE EvidenceGraph ----------------------------
(***************************************************************************)
(* The claim graph of src/agents/resources/init_workspaces.py, which lives *)
(* in the sandbox, and the calls by which the model's code changes it:     *)
(* bind(), infer() and submit_answer() on the one ClaimGraphManager.       *)
(*                                                                         *)
(* A graph is a value here, so that the sandbox and the executor's cached  *)
(* picture of it can hold one each.  Claim ck is the number k; its text is *)
(* abstracted to whether it is blank.                                      *)
(***************************************************************************)
EXTENDS Naturals, Sequences

CONSTANT MaxClaims   \* bound: claims of one graph

ASSUME ClaimsAssumption == MaxClaims \in Nat \ {0}

Claims == 1..MaxClaims

Graphs == [premises : Seq(SUBSET Claims),   \* of each claim, in the order of their ids
           blank    : SUBSET Claims,        \* claims whose text is empty
           final    : SUBSET Claims,        \* final_node
           finished : BOOLEAN]

EmptyGraph == [premises |-> <<>>, blank |-> {}, final |-> {}, finished |-> FALSE]

Ids(g) == 1..Len(g.premises)

\* _generate_id and the entry in self.claims.
Register(g, premises) == [g EXCEPT !.premises = Append(@, premises)]

NewId(g) == Len(g.premises) + 1

\* bind(): a template that renders, to a text that may be empty.  Nothing looks at finished.
Bound(g) ==
  {[Register(g, {}) EXCEPT !.blank = b] : b \in {g.blank, g.blank \cup {NewId(g)}}}

\* infer(): any list of existing claims, the empty list and None included, and a text that
\* is not blank.
Inferred(g) == {Register(g, premises) : premises \in SUBSET Ids(g)}

\* Mutation: a second answer replaces the first one.
SubmittedAgain(g) == {[g EXCEPT !.final = claims, !.finished = TRUE] : claims \in SUBSET Ids(g)}

\* submit_answer() of a Claim or a list: entries that are no claims are skipped, so the set may
\* be empty.  Of anything else it prints an error and changes nothing.
Submitted(g) ==
  {IF g.finished THEN g ELSE [g EXCEPT !.final = claims, !.finished = TRUE] :
     claims \in SUBSET Ids(g)}

\* What one call of the API makes of the graph.  A call that is rejected raises and leaves it.
AfterApiCall(g) == Bound(g) \cup Inferred(g) \cup Submitted(g)

\* With a claim the premises it was inferred from.
Closed(g, claims) == \A c \in claims \cap Ids(g) : g.premises[c] \subseteq claims

\* The claims that are reached from a set of claims over premises (themselves included).
Support(g, claims) ==
  {c \in Claims : \A s \in SUBSET Claims : claims \subseteq s /\ Closed(g, s) => c \in s}

\* The evidence behind the answer: its claims and all they were inferred from, with the edges.
Evidence(g) == [c \in Support(g, g.final) |-> <<g.premises[c], c \in g.blank, c \in g.final>>]
=============================================================================
