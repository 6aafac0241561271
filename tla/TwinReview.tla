----------------------------- MODULE TwinReview -----------------------------
(***************************************************************************)
(* The digital-twin endpoints of the gateway (voice_gateway/main.py) that  *)
(* write the personal knowledge store: captures of review candidates, of   *)
(* journal entries and of the daily page, and the owner's decisions and    *)
(* feedback on them.                                                       *)
(*                                                                         *)
(* The store is an RDF database.  Every query and every update is one      *)
(* request to it and atomic there; an endpoint that checks before it       *)
(* writes makes two requests, each in a thread of its own, and the         *)
(* requests of other calls come in between.  A request that is not         *)
(* answered in five seconds fails for the caller and may be applied yet.   *)
(*                                                                         *)
(* The model has one candidate, one journal entry and one daily page: an   *)
(* update names its subject, so those of other subjects do not meet it.    *)
(* A property of a subject is a set of values, as in the store.            *)
(***************************************************************************)
EXTENDS Naturals, FiniteSets

CONSTANTS
  Calls,      \* calls of the endpoints, each made once
  Kinds,      \* the journal kinds of an entry
  Texts,      \* what a capture or a correction says: label or text
  None,       \* nothing
  MaxFaults   \* bound: how many requests to the store go unanswered

ASSUME TwinAssumption ==
  /\ None \notin Kinds \cup Texts
  /\ None \notin {"accept", "reject", "keep", "delete", "correct", "accepted", "rejected"}
  /\ MaxFaults \in Nat

VARIABLES
  status, labels, fact,       \* candidate: its status and label; its accepted fact's label
  kinds, texts, entryStatus,  \* journal entry: its kinds, texts and status
  page,                       \* daily page: the calls whose capture it holds
  events,                     \* the review event each call has left
  req, pc, previous, reply,   \* per call: request, next step, the kind read, answer
  overlapped, replayed,       \* history: subjects with concurrent or repeated writes
  latest,                     \* history: the entry's last correction, or its capture
  faults

candidate == <<status, labels, fact>>
entry == <<kinds, texts, entryStatus>>
store == <<candidate, entry, page, events>>
calls == <<req, pc, previous, reply>>
history == <<overlapped, replayed, latest>>
vars == <<store, calls, history, faults>>

Decisions == {"accept", "reject"}
Actions == {"keep", "delete", "correct"}

\* The valid feedback: keep and delete correct nothing.  An edit (with a text) and
\* a wrong_type (with a kind) may both name the other too and differ in name only:
\* either is a "correct".
Feedback ==
  {f \in [op : {"feedback"}, action : Actions, kind : Kinds \cup {None},
          text : Texts \cup {None}] :
     f.action = "correct" <=> f.kind # None \/ f.text # None}

Requests ==
  [op : {"reviews"}, text : Texts] \cup [op : {"decide"}, action : Decisions]
    \cup [op : {"journal"}, kind : Kinds, text : Texts] \cup Feedback
    \cup [op : {"assess", "miss", "daily"}]

\* What a request is about.
About(r) == CASE r.op \in {"reviews", "decide"}             -> "candidate"
              [] r.op \in {"journal", "feedback", "assess", "miss"} -> "entry"
              [] r.op = "daily"                             -> "page"

\* The endpoints that query the store before they update it.
Checks(r) == r.op \in {"decide", "feedback", "assess"}
InFlight(c) == pc[c] \in {"check", "update", "late"}

Init ==
  /\ status = {} /\ labels = {} /\ fact = {}
  /\ kinds = {} /\ texts = {} /\ entryStatus = {}
  /\ page = {}
  /\ events = [c \in Calls |-> None]
  /\ req = [c \in Calls |-> None]
  /\ pc = [c \in Calls |-> "idle"]
  /\ previous = [c \in Calls |-> None]
  /\ reply = [c \in Calls |-> None]
  /\ overlapped = {} /\ replayed = {}
  /\ latest = [kind |-> None, text |-> None]
  /\ faults = 0

-----------------------------------------------------------------------------
(* What the readers are shown. *)

\* ACCEPTED_FACTS_QUERY: the claims of the accepted graph, whatever was decided since.
AcceptedFacts == fact

\* PENDING_REVIEWS_QUERY: candidates one of whose statuses is pending.
PendingReviews == IF "pending" \in status THEN labels ELSE {}

\* JOURNAL_FACTS_QUERY: an entry without a status, or with one that is not deleted.
JournalFacts ==
  IF entryStatus = {} \/ entryStatus \ {"deleted"} # {} THEN kinds \X texts ELSE {}

-----------------------------------------------------------------------------
(* The steps of a call. *)

Goto(c, point) == pc' = [pc EXCEPT ![c] = point]

\* The call is over: what it asked and read is forgotten.
Over(c) ==
  /\ Goto(c, "done")
  /\ req' = [req EXCEPT ![c] = None] /\ previous' = [previous EXCEPT ![c] = None]

Answer(c, answer) == reply' = [reply EXCEPT ![c] = answer] /\ Over(c)

Proceed(c) == Goto(c, "update") /\ UNCHANGED <<req, previous, reply>>

\* The status that a decision asks for.
Requested(c) == IF req[c].action = "accept" THEN "accepted" ELSE "rejected"

Begin(c, r) ==
  /\ pc[c] = "idle"
  /\ req' = [req EXCEPT ![c] = r]
  /\ Goto(c, IF Checks(r) THEN "check" ELSE "update")
  /\ overlapped' = IF \E d \in Calls : InFlight(d) /\ About(req[d]) = About(r)
                     THEN overlapped \cup {About(r)} ELSE overlapped
  /\ UNCHANGED <<store, previous, reply, replayed, latest, faults>>

\* Mutant: a candidate that was decided is not refused.
CheckDecisionAny(c) ==
  /\ pc[c] = "check" /\ req[c].op = "decide"
  /\ IF status = {} THEN Answer(c, "missing")
     ELSE IF "pending" \in status THEN Proceed(c)
     ELSE Answer(c, Requested(c))
  /\ UNCHANGED <<store, history, faults>>

\* Mutant: a repeated decision is made again.
CheckDecisionAgain(c) ==
  /\ pc[c] = "check" /\ req[c].op = "decide"
  /\ \/ status = {} /\ Answer(c, "missing")
     \/ status \cap {"pending", Requested(c)} # {} /\ Proceed(c)
     \/ status \ {"pending", Requested(c)} # {} /\ Answer(c, "conflict")
  /\ UNCHANGED <<store, history, faults>>

\* decide_digital_twin_review reads a status, any one of several: pending is
\* decided, the status asked for is confirmed, another one is a conflict.
CheckDecision(c) ==
  /\ pc[c] = "check" /\ req[c].op = "decide"
  /\ \/ status = {} /\ Answer(c, "missing")
     \/ "pending" \in status /\ Proceed(c)
     \/ Requested(c) \in status /\ Answer(c, Requested(c))
     \/ status \ {"pending", Requested(c)} # {} /\ Answer(c, "conflict")
  /\ UNCHANGED <<store, history, faults>>

\* record_journal_feedback keeps the kind it has read, any one of several, for
\* the update; record_assertion_review only asks whether the entry is there.
CheckEntry(c) ==
  /\ pc[c] = "check" /\ req[c].op \in {"feedback", "assess"}
  /\ \/ kinds = {} /\ Answer(c, "missing")
     \/ \E kind \in kinds : /\ previous' = [previous EXCEPT ![c] = kind]
                            /\ Goto(c, "update") /\ UNCHANGED <<req, reply>>
  /\ UNCHANGED <<store, history, faults>>

\* The store answers an applied update; nobody waits for an answer that is late.
Applied(c) ==
  /\ pc[c] \in {"update", "late"}
  /\ reply' = IF pc[c] = "late" THEN reply
              ELSE [reply EXCEPT ![c] = IF req[c].op = "decide" THEN Requested(c) ELSE "ok"]
  /\ Over(c)
  /\ UNCHANGED <<overlapped, faults>>

Leaves(c, event) == events' = [events EXCEPT ![c] = event]

\* _review_update inserts the candidate with the status pending; a repetition
\* adds to what is there, the label of another classification too.
WriteReviews(c) ==
  /\ Applied(c) /\ req[c].op = "reviews"
  /\ status' = status \cup {"pending"}
  /\ labels' = labels \cup {req[c].text}
  /\ replayed' = IF status = {} THEN replayed ELSE replayed \cup {"candidate"}
  /\ UNCHANGED <<fact, entry, page, events, latest>>

\* _review_decision_update replaces whatever status there is; accept copies the
\* candidate to the accepted graph, and reject takes nothing back from it.
DecideReview(c) ==
  /\ Applied(c) /\ req[c].op = "decide"
  /\ status' = {Requested(c)}
  /\ fact' = IF req[c].action = "accept" THEN fact \cup labels ELSE fact
  /\ Leaves(c, req[c].action)
  /\ UNCHANGED <<labels, entry, page, replayed, latest>>

\* Mutant: a written entry is up for review, as a candidate is.
WriteJournalUnreviewed(c) ==
  /\ Applied(c) /\ req[c].op = "journal"
  /\ kinds' = kinds \cup {req[c].kind}
  /\ texts' = texts \cup {req[c].text}
  /\ entryStatus' = entryStatus \cup {"reviewed"}
  /\ replayed' = IF kinds = {} THEN replayed ELSE replayed \cup {"entry"}
  /\ latest' = IF kinds = {} THEN [kind |-> req[c].kind, text |-> req[c].text] ELSE latest
  /\ UNCHANGED <<candidate, page, events>>

\* _journal_update inserts the entry without a status; a repetition adds.
WriteJournal(c) ==
  /\ Applied(c) /\ req[c].op = "journal"
  /\ kinds' = kinds \cup {req[c].kind}
  /\ texts' = texts \cup {req[c].text}
  /\ replayed' = IF kinds = {} THEN replayed ELSE replayed \cup {"entry"}
  /\ latest' = IF kinds = {} THEN [kind |-> req[c].kind, text |-> req[c].text] ELSE latest
  /\ UNCHANGED <<candidate, entryStatus, page, events>>

\* Mutant: the old text is not deleted.
ReviewEntryAdds(c) ==
  LET f == req[c]
  IN /\ Applied(c) /\ f.op = "feedback"
     /\ kinds' = {IF f.kind # None THEN f.kind ELSE previous[c]}
     /\ texts' = IF f.text # None THEN texts \cup {f.text} ELSE texts
     /\ entryStatus' = {IF f.action = "delete" THEN "deleted" ELSE "reviewed"}
     /\ latest' = [kind |-> IF f.kind # None THEN f.kind ELSE latest.kind,
                   text |-> IF f.text # None THEN f.text ELSE latest.text]
     /\ Leaves(c, f.action)
     /\ UNCHANGED <<candidate, page, replayed>>

\* _journal_feedback_update replaces the kind by the corrected one or by the one
\* read before, the text only if it is corrected, and the status.  An entry that
\* was read cannot have gone: nothing removes its kind without inserting one.
ReviewEntry(c) ==
  LET f == req[c]
  IN /\ Applied(c) /\ f.op = "feedback"
     /\ kinds' = {IF f.kind # None THEN f.kind ELSE previous[c]}
     /\ texts' = IF f.text # None THEN {f.text} ELSE texts
     /\ entryStatus' = {IF f.action = "delete" THEN "deleted" ELSE "reviewed"}
     /\ latest' = [kind |-> IF f.kind # None THEN f.kind ELSE latest.kind,
                   text |-> IF f.text # None THEN f.text ELSE latest.text]
     /\ Leaves(c, f.action)
     /\ UNCHANGED <<candidate, page, replayed>>

\* _assertion_review_update and _journal_miss_update only leave an event.
LeaveEvent(c) ==
  /\ Applied(c) /\ req[c].op \in {"assess", "miss"}
  /\ Leaves(c, req[c].op)
  /\ UNCHANGED <<candidate, entry, page, replayed, latest>>

\* _daily_journal_update deletes the page with its entries and its activity and
\* inserts the new one, in one update.
WriteDaily(c) ==
  /\ Applied(c) /\ req[c].op = "daily"
  /\ page' = {c}
  /\ UNCHANGED <<candidate, entry, events, replayed, latest>>

\* _sparql_rows: the query fails or times out, the call answers 502.
QueryFails(c) ==
  /\ pc[c] = "check" /\ faults < MaxFaults
  /\ faults' = faults + 1
  /\ Answer(c, "error")
  /\ UNCHANGED <<store, history>>

\* _sparql_update: no answer in five seconds, the call answers 502; the store
\* may have the update still before it.
UpdateUnanswered(c) ==
  /\ pc[c] = "update" /\ faults < MaxFaults
  /\ faults' = faults + 1
  /\ reply' = [reply EXCEPT ![c] = "error"]
  /\ Goto(c, "late")
  /\ UNCHANGED <<store, req, previous, history>>

\* The unanswered update never reached the store.
UpdateLost(c) ==
  /\ pc[c] = "late"
  /\ Over(c)
  /\ UNCHANGED <<store, reply, history, faults>>

Call(c) ==
  \/ CheckDecision(c) \/ CheckEntry(c)
  \/ WriteReviews(c) \/ DecideReview(c)
  \/ WriteJournal(c) \/ ReviewEntry(c) \/ LeaveEvent(c) \/ WriteDaily(c)
  \/ QueryFails(c) \/ UpdateUnanswered(c) \/ UpdateLost(c)

Next == \E c \in Calls : (\E r \in Requests : Begin(c, r)) \/ Call(c)

Spec == Init /\ [][Next]_vars

-----------------------------------------------------------------------------
(* Properties. *)

Replies == {"ok", "accepted", "rejected", "missing", "conflict", "error"}
Subjects == {"candidate", "entry", "page"}

\* Every variable has its type.
TypeOK ==
  /\ status \subseteq {"pending", "accepted", "rejected"}
  /\ labels \subseteq Texts /\ fact \subseteq Texts
  /\ kinds \subseteq Kinds /\ texts \subseteq Texts
  /\ entryStatus \subseteq {"reviewed", "deleted"}
  /\ page \subseteq Calls
  /\ events \in [Calls -> Decisions \cup Actions \cup {"assess", "miss", None}]
  /\ \A c \in Calls : req[c] = None <=> pc[c] \in {"idle", "done"}
  /\ req \in [Calls -> Requests \cup {None}]
  /\ pc \in [Calls -> {"idle", "check", "update", "late", "done"}]
  /\ previous \in [Calls -> Kinds \cup {None}]
  /\ reply \in [Calls -> Replies \cup {None}]
  /\ overlapped \subseteq Subjects /\ replayed \subseteq Subjects
  /\ latest \in [kind : Kinds \cup {None}, text : Texts \cup {None}]
  /\ faults \in Nat

Decided(decision) == \E c \in Calls : events[c] = decision

\* Nothing becomes a fact of the profile that the owner did not accept, and a
\* decision that was confirmed to a client is on record, also when decisions
\* race, captures are repeated and answers are lost.
DecisionOnRecord ==
  /\ AcceptedFacts # {} => Decided("accept")
  /\ \A c \in Calls : /\ reply[c] = "accepted" => Decided("accept")
                      /\ reply[c] = "rejected" => Decided("reject")

\* Without concurrent requests on the candidate and without a repeated capture
\* the owner decides once: one status, one event, a fact exactly if accepted, and
\* the candidate is not offered again.
OneDecision ==
  "candidate" \notin overlapped \cup replayed =>
    /\ Cardinality(status) <= 1
    /\ Cardinality({c \in Calls : events[c] \in Decisions}) <= 1
    /\ status = {"accepted"} <=> Decided("accept")
    /\ status = {"rejected"} <=> Decided("reject")
    /\ AcceptedFacts = (IF status = {"accepted"} THEN labels ELSE {})
    /\ Decided("accept") \/ Decided("reject") => PendingReviews = {}

\* What the owner corrected stands: an entry says its last correction, whatever
\* else was asked of it since.  Only a repeated capture brings the old text back,
\* and only that or a concurrent request brings the old kind back.
CorrectionsStand ==
  kinds # {} /\ "entry" \notin replayed =>
    /\ texts = {latest.text}
    /\ "entry" \notin overlapped => kinds = {latest.kind}

Hidden == kinds # {} /\ JournalFacts = {}

\* An entry the owner deleted is shown again only after he gave another feedback
\* on it: a repeated capture leaves it hidden.
DeletedStaysHidden ==
  [][Hidden /\ ~Hidden' =>
       \E c \in Calls : events'[c] # events[c] /\ events'[c] \in Actions \ {"delete"}]_vars

=============================================================================
