----------------------------- MODULE MCTaskDesk -----------------------------
(* Instances of TaskDesk for TLC. *)
EXTENDS TaskDesk, TLC
CONSTANTS c1, c2, n1, n2, b1, b2

\* The first task is called n1, the second n2.
MCName(i) == IF i = 1 THEN n1 ELSE n2

\* Words alone, an object without words within another, one within an unusable one.
MCReplies == {[levels |-> <<>>, end |-> "words"],
              [levels |-> <<"flow", "slides">>, end |-> ""],
              [levels |-> <<"flow", None, "slides">>, end |-> "words"]}

\* One reply for what is not about replies.
MCReply == Stored([levels |-> <<"flow", "slides">>, end |-> ""], FALSE)

\* What shares no state, or is not about the same, is explored apart: the ingestions of a
\* message, ...
Asking(ops) == \A c \in Calls : call[c].op \in ops \cup {"none"}
Settling(responses) == \A i \in DOMAIN tasks : tasks[i].response \in responses \cup {None}
MCIngesting == tasks = <<>> /\ Asking({"ingest"})

\* ... one task with its progress and its captures, ...
MCWorking ==
  /\ \A m \in Modes : ingest[m] = None
  /\ \A c \in Calls : call[c].op # "ingest"
  /\ Len(tasks) <= 1 /\ Settling({MCReply})

\* ... one task with every reply, in every view, ...
Brief == \A i \in DOMAIN tasks : tasks[i].events <= 1 /\ tasks[i].captures <= 1
MCViewing ==
  /\ Asking({"submit", "get", "cancel", "speech", "list"})
  /\ \A m \in Modes : ingest[m] = None
  /\ Len(tasks) <= 1 /\ Brief

\* ... and two tasks in lists, beside the calls that make and show one of them.
MCListing ==
  /\ Asking({"submit", "get", "list"})
  /\ \A m \in Modes : ingest[m] = None
  /\ \A c \in Calls : call[c].name \in {None, n2}
  /\ Brief /\ Settling({MCReply})

MCApart == MCIngesting \/ MCWorking \/ MCViewing \/ MCListing

MCSymmetry == Permutations(Calls) \cup Permutations(Bodies)
=============================================================================
