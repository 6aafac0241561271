-------------------------- MODULE MCWorkspaceTask --------------------------
(* Instances of WorkspaceTask for TLC. *)
EXTENDS WorkspaceTask, TLC
CONSTANTS v1, p1

\* The first commit declares an image, later ones none.
MCVersion(c) == IF c = 1 THEN v1 ELSE None

\* Publishers race before the task starts to work; what it then does meets the commits and
\* the publication of one of them.
MCApart ==
  \/ crashes = 0 /\ \A t \in Tasks : step[t] = "none"
  \/ branch < 3 /\ \A p \in Publishers \ {p1} : publisher[p].at = "start"
=============================================================================
