---------------------------- MODULE TaskContract ----------------------------
(***************************************************************************)
(* What the task owner promises its clients, without handlers, phases,     *)
(* restarts or processes: a request ID is bound to one input for ever, the *)
(* task decides once, and the external render of a song - an upstream call *)
(* that is not idempotent - begins at most once, before any result of it   *)
(* is reported.  TaskOwner implements this (TaskOwner!ContractSpec).       *)
(***************************************************************************)
EXTENDS Integers

CONSTANTS Requests, Inputs, Kind, None

VARIABLES
  bound,     \* the input a request ID is bound to
  verdict,   \* the task's outcome, "none" while undecided
  renders    \* external renders begun for the request

contractVars == <<bound, verdict, renders>>

Verdicts == {"result", "reconcile", "aborted", "failed"}
Renders(r) == Kind[bound[r]] = "song-render"

Init ==
  /\ bound   = [r \in Requests |-> None]
  /\ verdict = [r \in Requests |-> "none"]
  /\ renders = [r \in Requests |-> 0]

Accept(r, i) ==
  /\ bound[r] = None
  /\ bound' = [bound EXCEPT ![r] = i]
  /\ UNCHANGED <<verdict, renders>>

BeginRender(r) ==
  /\ bound[r] # None /\ Renders(r)
  /\ verdict[r] = "none" /\ renders[r] = 0
  /\ renders' = [renders EXCEPT ![r] = 1]
  /\ UNCHANGED <<bound, verdict>>

\* Only a render may be left to manual reconciliation, and a render's result or
\* failure is reported only of a render that began.
Decide(r, v) ==
  /\ bound[r] # None /\ verdict[r] = "none"
  /\ v = "reconcile" => Renders(r)
  /\ v \in {"result", "failed"} /\ Renders(r) => renders[r] = 1
  /\ verdict' = [verdict EXCEPT ![r] = v]
  /\ UNCHANGED <<bound, renders>>

Next == \E r \in Requests :
  \/ \E i \in Inputs : Accept(r, i)
  \/ BeginRender(r)
  \/ \E v \in Verdicts : Decide(r, v)

Spec == Init /\ [][Next]_contractVars

=============================================================================
