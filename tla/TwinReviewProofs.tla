--------------------------- MODULE TwinReviewProofs ---------------------------
(***************************************************************************)
(* Proofs about TwinReview: what the owner decided and corrected stands,   *)
(* for any number of calls, kinds and texts, and however many requests to  *)
(* the store are lost or late.                                             *)
(***************************************************************************)
EXTENDS TwinReview, FiniteSetTheorems, TLAPS

Updating(c) == pc[c] \in {"update", "late"}

\* A call in flight has a request and has left no event yet.
CallInv ==
  /\ req \in [Calls -> Requests \cup {None}]
  /\ pc \in [Calls -> {"idle", "check", "update", "late", "done"}]
  /\ previous \in [Calls -> Kinds \cup {None}]
  /\ reply \in [Calls -> Replies \cup {None}]
  /\ events \in [Calls -> Decisions \cup Actions \cup {"assess", "miss", None}]
  /\ \A c \in Calls : InFlight(c) => req[c] \in Requests
  /\ \A c \in Calls : pc[c] # "done" => events[c] = None

\* Calls in flight on a subject that was never written concurrently are one call.
AloneInv == \A c, d \in Calls :
  InFlight(c) /\ InFlight(d) /\ About(req[c]) = About(req[d]) /\ About(req[c]) \notin overlapped
    => c = d

\* A status that was decided has its event.
RecordInv ==
  /\ status \subseteq {"pending", "accepted", "rejected"}
  /\ "accepted" \in status => Decided("accept")
  /\ "rejected" \in status => Decided("reject")
  /\ DecisionOnRecord

\* Without concurrent and repeated writes the candidate is captured, then decided; a decision
\* that has passed its check still finds it pending.
DecisionInv == "candidate" \notin overlapped \cup replayed =>
  /\ status \in {{}, {"pending"}, {"accepted"}, {"rejected"}}
  /\ status = {} => labels = {}
  /\ fact = IF status = {"accepted"} THEN labels ELSE {}
  /\ status = {"accepted"} <=> Decided("accept")
  /\ status = {"rejected"} <=> Decided("reject")
  /\ \A c, d \in Calls : events[c] \in Decisions /\ events[d] \in Decisions => c = d
  /\ \A c \in Calls : Updating(c) /\ req[c].op = "decide" => status = {"pending"}

\* An entry has kinds and texts or neither; a feedback that has passed its check finds it, and
\* writes back the kind of the last correction if nobody else writes.
EntryInv ==
  /\ kinds \subseteq Kinds /\ texts \subseteq Texts /\ (kinds = {} <=> texts = {})
  /\ \A c \in Calls : Updating(c) /\ req[c].op = "feedback" => kinds # {} /\ previous[c] \in Kinds
  /\ "entry" \notin replayed /\ kinds # {} => texts = {latest.text}
  /\ "entry" \notin replayed \cup overlapped /\ kinds # {} =>
       /\ kinds = {latest.kind}
       /\ \A c \in Calls : Updating(c) /\ req[c].op = "feedback" => previous[c] = latest.kind

\* The daily page is of one capture, and the entry has one status.
VersionInv ==
  /\ \A c, d \in page : c = d
  /\ entryStatus \in {{}, {"reviewed"}, {"deleted"}}

TwinInv == CallInv /\ AloneInv /\ RecordInv /\ DecisionInv /\ EntryInv /\ VersionInv

-----------------------------------------------------------------------------
(* Calls. *)

\* What the fields of a request are, and which requests are about what.
LEMMA Shapes ==
  ASSUME NEW r \in Requests
  PROVE  /\ r.op \in {"reviews", "decide", "journal", "feedback", "assess", "miss", "daily"}
         /\ r.op = "decide" => r.action \in Decisions
         /\ r.op = "reviews" => r.text \in Texts
         /\ r.op = "journal" => r.kind \in Kinds /\ r.text \in Texts
         /\ r.op = "feedback" => /\ r.action \in Actions /\ r.kind \in Kinds \cup {None}
                                 /\ r.text \in Texts \cup {None}
         /\ About(r) = "candidate" <=> r.op \in {"reviews", "decide"}
         /\ About(r) = "entry" <=> r.op \in {"journal", "feedback", "assess", "miss"}
<1>1. r.op \in {"reviews", "decide", "journal", "feedback", "assess", "miss", "daily"}
  BY DEF Requests, Feedback
<1>2. r.op = "decide" => r.action \in Decisions
  BY DEF Requests, Feedback
<1>3. /\ r.op = "reviews" => r.text \in Texts
      /\ r.op = "journal" => r.kind \in Kinds /\ r.text \in Texts
  BY DEF Requests, Feedback
<1>4. r.op = "feedback" => /\ r.action \in Actions /\ r.kind \in Kinds \cup {None}
                           /\ r.text \in Texts \cup {None}
  BY DEF Requests, Feedback
<1>5. /\ About(r) = "candidate" <=> r.op \in {"reviews", "decide"}
      /\ About(r) = "entry" <=> r.op \in {"journal", "feedback", "assess", "miss"}
  BY <1>1 DEF About
<1> QED
  BY <1>1, <1>2, <1>3, <1>4, <1>5

\* A new request.
LEMMA BeginMoves ==
  ASSUME CallInv, NEW c \in Calls, NEW r \in Requests, Begin(c, r)
  PROVE  /\ pc[c] = "idle" /\ pc'[c] \in {"check", "update"} /\ req'[c] = r
         /\ pc'[c] = "update" => r.op \notin {"decide", "feedback", "assess"}
         /\ \A d \in Calls \ {c} : pc'[d] = pc[d] /\ req'[d] = req[d]
         /\ overlapped' = IF \E d \in Calls : InFlight(d) /\ About(req[d]) = About(r)
                            THEN overlapped \cup {About(r)} ELSE overlapped
         /\ UNCHANGED <<status, labels, fact, kinds, texts, entryStatus, page, events, previous,
                        reply, replayed, latest>>
         /\ CallInv'
<1>1. /\ pc[c] = "idle" /\ pc'[c] \in {"check", "update"} /\ req'[c] = r
      /\ pc'[c] = "update" => r.op \notin {"decide", "feedback", "assess"}
      /\ \A d \in Calls \ {c} : pc'[d] = pc[d] /\ req'[d] = req[d]
      /\ pc' \in [Calls -> {"idle", "check", "update", "late", "done"}]
      /\ req' \in [Calls -> Requests \cup {None}]
  BY DEF CallInv, Begin, Goto, Checks
<1>2. /\ overlapped' = IF \E d \in Calls : InFlight(d) /\ About(req[d]) = About(r)
                         THEN overlapped \cup {About(r)} ELSE overlapped
      /\ UNCHANGED <<status, labels, fact, kinds, texts, entryStatus, page, events, previous,
                     reply, replayed, latest>>
  BY DEF Begin, store, candidate, entry
<1>3. \A d \in Calls : InFlight(d)' => req'[d] \in Requests
  BY <1>1 DEF CallInv, InFlight
<1>4. \A d \in Calls : pc'[d] # "done" => events'[d] = None
  BY <1>1, <1>2 DEF CallInv
<1> QED
  BY <1>1, <1>2, <1>3, <1>4 DEF CallInv

\* A step of a call that is in flight leaves the other calls alone.
LEMMA CallMoves ==
  ASSUME CallInv, kinds \subseteq Kinds, NEW c \in Calls, Call(c)
  PROVE  /\ InFlight(c) /\ pc'[c] \in {"update", "late", "done"}
         /\ pc'[c] # "done" => req'[c] = req[c]
         /\ \A d \in Calls \ {c} : pc'[d] = pc[d] /\ req'[d] = req[d] /\ previous'[d] = previous[d]
                                   /\ reply'[d] = reply[d] /\ events'[d] = events[d]
         /\ overlapped' = overlapped
         /\ CallInv'
<1> DEFINE Rest == \A d \in Calls \ {c} :
             pc'[d] = pc[d] /\ req'[d] = req[d] /\ previous'[d] = previous[d]
             /\ reply'[d] = reply[d] /\ events'[d] = events[d]
           Shape == /\ req' \in [Calls -> Requests \cup {None}]
                    /\ pc' \in [Calls -> {"idle", "check", "update", "late", "done"}]
                    /\ previous' \in [Calls -> Kinds \cup {None}]
                    /\ reply' \in [Calls -> Replies \cup {None}]
                    /\ events' \in [Calls -> Decisions \cup Actions \cup {"assess", "miss", None}]
           Moves == /\ InFlight(c) /\ pc'[c] \in {"update", "late", "done"}
                    /\ pc'[c] # "done" => req'[c] = req[c] /\ events' = events
                    /\ Rest /\ Shape /\ overlapped' = overlapped
<1>a. ASSUME NEW a \in Replies, Answer(c, a), UNCHANGED <<events, overlapped>>, InFlight(c)
      PROVE  Moves
  BY <1>a DEF CallInv, Answer, Over, Goto
<1>b. ASSUME Proceed(c), UNCHANGED <<events, overlapped>>, InFlight(c)
      PROVE  Moves
  BY <1>b DEF CallInv, Proceed, Goto
<1>c. Requested(c) \in Replies
  BY DEF Requested, Replies
<1>d. "missing" \in Replies /\ "conflict" \in Replies /\ "error" \in Replies /\ "ok" \in Replies
  BY DEF Replies
<1>e. ASSUME Applied(c), events' = events \/ \E e \in Decisions \cup Actions \cup {"assess", "miss"} :
                                                 Leaves(c, e)
      PROVE  Moves
  <2>1. InFlight(c) /\ Over(c) /\ overlapped' = overlapped
    BY <1>e DEF Applied, InFlight
  <2>2. /\ reply' \in [Calls -> Replies \cup {None}]
        /\ \A d \in Calls \ {c} : reply'[d] = reply[d]
    BY <1>e, <1>c, <1>d DEF Applied, CallInv
  <2>3. /\ events' \in [Calls -> Decisions \cup Actions \cup {"assess", "miss", None}]
        /\ \A d \in Calls \ {c} : events'[d] = events[d]
    BY <1>e DEF Leaves, CallInv
  <2> QED
    BY <2>1, <2>2, <2>3 DEF CallInv, Over, Goto
<1>f. ASSUME InFlight(c), UNCHANGED <<events, overlapped, req>>, Goto(c, "update") \/ Goto(c, "late"),
             previous' \in [Calls -> Kinds \cup {None}], reply' \in [Calls -> Replies \cup {None}],
             \A d \in Calls \ {c} : previous'[d] = previous[d] /\ reply'[d] = reply[d]
      PROVE  Moves
  BY <1>f DEF CallInv, Goto
<1> HIDE DEF Moves, Rest, Shape
<1>1. ASSUME CheckDecision(c) PROVE Moves
  <2>1. events' = events /\ overlapped' = overlapped /\ InFlight(c)
    BY <1>1 DEF CheckDecision, store, history, InFlight
  <2>2. CASE Proceed(c)
    BY <1>b, <2>1, <2>2
  <2>3. ASSUME Answer(c, "missing") \/ Answer(c, "conflict") \/ Answer(c, Requested(c)) PROVE Moves
    BY <1>a, <1>c, <1>d, <2>1, <2>3
  <2> QED
    BY <1>1, <2>2, <2>3 DEF CheckDecision
<1>2. ASSUME CheckEntry(c) PROVE Moves
  <2>1. events' = events /\ overlapped' = overlapped /\ InFlight(c)
    BY <1>2 DEF CheckEntry, store, history, InFlight
  <2>2. ASSUME Answer(c, "missing") PROVE Moves
    BY <1>a, <1>d, <2>1, <2>2
  <2>3. ASSUME NEW kind \in kinds, previous' = [previous EXCEPT ![c] = kind],
               Goto(c, "update"), req' = req, reply' = reply
        PROVE  Moves
    <3>1. /\ previous' \in [Calls -> Kinds \cup {None}] /\ reply' \in [Calls -> Replies \cup {None}]
          /\ \A d \in Calls \ {c} : previous'[d] = previous[d] /\ reply'[d] = reply[d]
      BY <2>3 DEF CallInv
    <3> QED
      BY <1>f, <2>1, <2>3, <3>1
  <2> QED
    BY <1>2, <2>2, <2>3 DEF CheckEntry
<1>3. ASSUME QueryFails(c) PROVE Moves
  <2>1. events' = events /\ overlapped' = overlapped /\ InFlight(c) /\ Answer(c, "error")
    BY <1>3 DEF QueryFails, store, history, InFlight
  <2> QED
    BY <1>a, <1>d, <2>1
<1>4. ASSUME WriteReviews(c) \/ WriteJournal(c) \/ WriteDaily(c) PROVE Moves
  <2>1. Applied(c) /\ events' = events
    BY <1>4 DEF WriteReviews, WriteJournal, WriteDaily
  <2> QED
    BY <1>e, <2>1
<1>5. ASSUME DecideReview(c) \/ ReviewEntry(c) \/ LeaveEvent(c) PROVE Moves
  <2>1. req[c] \in Requests
    BY <1>5 DEF CallInv, DecideReview, ReviewEntry, LeaveEvent, Applied, InFlight
  <2>2. Applied(c) /\ \E e \in Decisions \cup Actions \cup {"assess", "miss"} : Leaves(c, e)
    <3>1. CASE DecideReview(c)
      <4>1. Applied(c) /\ req[c].op = "decide" /\ Leaves(c, req[c].action)
        BY <3>1 DEF DecideReview
      <4> QED
        BY <2>1, <4>1, Shapes
    <3>2. CASE ReviewEntry(c)
      <4>1. Applied(c) /\ req[c].op = "feedback" /\ Leaves(c, req[c].action)
        BY <3>2 DEF ReviewEntry
      <4> QED
        BY <2>1, <4>1, Shapes
    <3>3. CASE LeaveEvent(c)
      BY <3>3 DEF LeaveEvent
    <3> QED
      BY <1>5, <3>1, <3>2, <3>3
  <2> QED
    BY <1>e, <2>2
<1>6. ASSUME UpdateUnanswered(c) PROVE Moves
  <2>1. /\ events' = events /\ overlapped' = overlapped /\ InFlight(c) /\ req' = req
        /\ Goto(c, "late") /\ previous' = previous /\ reply' = [reply EXCEPT ![c] = "error"]
    BY <1>6 DEF UpdateUnanswered, store, history, InFlight
  <2>2. /\ previous' \in [Calls -> Kinds \cup {None}] /\ reply' \in [Calls -> Replies \cup {None}]
        /\ \A d \in Calls \ {c} : previous'[d] = previous[d] /\ reply'[d] = reply[d]
    BY <1>d, <2>1 DEF CallInv
  <2> QED
    BY <1>f, <2>1, <2>2
<1>7. ASSUME UpdateLost(c) PROVE Moves
  BY <1>7 DEF CallInv, UpdateLost, Over, Goto, store, history, InFlight, Moves, Rest, Shape
<1>9. Moves
  BY <1>1, <1>2, <1>3, <1>4, <1>5, <1>6, <1>7 DEF Call
<1>8. /\ Rest /\ Shape /\ InFlight(c) /\ overlapped' = overlapped
      /\ pc'[c] \in {"update", "late", "done"}
      /\ pc'[c] # "done" => req'[c] = req[c] /\ events' = events
  BY <1>9 DEF Moves
<1>10. CallInv'
  <2>1. \A d \in Calls : InFlight(d)' => req'[d] \in Requests
    <3>1. req'[c] = req[c] \/ pc'[c] = "done"
      BY <1>8
    <3> QED
      BY <1>8, <3>1 DEF CallInv, InFlight, Rest
  <2>2. \A d \in Calls : pc'[d] # "done" => events'[d] = None
    BY <1>8 DEF CallInv, InFlight, Rest
  <2> QED
    BY <1>8, <2>1, <2>2 DEF CallInv, Shape
<1> QED
  BY <1>8, <1>10 DEF Rest

\* Calls in flight together on one subject are noticed when the second begins.
LEMMA AloneStep ==
  ASSUME CallInv, kinds \subseteq Kinds, AloneInv, NEW c \in Calls, Call(c) \/ \E r \in Requests : Begin(c, r)
  PROVE  CallInv' /\ AloneInv'
<1>1. CASE Call(c)
  <2>1. \A d \in Calls : InFlight(d)' => InFlight(d) /\ req'[d] = req[d]
    BY <1>1, CallMoves DEF InFlight
  <2>2. overlapped' = overlapped /\ CallInv'
    BY <1>1, CallMoves
  <2> QED
    BY <2>1, <2>2 DEF AloneInv
<1>2. ASSUME NEW r \in Requests, Begin(c, r)
      PROVE  CallInv' /\ AloneInv'
  <2>1. /\ CallInv' /\ req'[c] = r
        /\ \A d \in Calls \ {c} : pc'[d] = pc[d] /\ req'[d] = req[d]
        /\ overlapped' = IF \E d \in Calls : InFlight(d) /\ About(req[d]) = About(r)
                            THEN overlapped \cup {About(r)} ELSE overlapped
    BY <1>2, BeginMoves
  <2> SUFFICES ASSUME NEW d \in Calls, NEW e \in Calls, InFlight(d)', InFlight(e)',
                      About(req'[d]) = About(req'[e]), About(req'[d]) \notin overlapped'
               PROVE  d = e
    BY <2>1 DEF AloneInv, About
  <2>2. CASE d # c /\ e # c
    BY <2>1, <2>2 DEF AloneInv, InFlight
  <2>3. CASE d = c /\ e # c
    BY <2>1, <2>3 DEF InFlight
  <2>4. CASE d # c /\ e = c
    BY <2>1, <2>4 DEF InFlight
  <2> QED
    BY <2>2, <2>3, <2>4
<1> QED
  BY <1>1, <1>2

-----------------------------------------------------------------------------
(* Decisions. *)

\* What a step leaves of the events: those of other calls, and those there are.
LEMMA EventsStay ==
  ASSUME CallInv, kinds \subseteq Kinds, NEW c \in Calls, Call(c) \/ \E r \in Requests : Begin(c, r)
  PROVE  /\ \A d \in Calls : events[d] # None => events'[d] = events[d]
         /\ \A decision \in Decisions : Decided(decision) => Decided(decision)'
<1>1. \A d \in Calls \ {c} : events'[d] = events[d]
  BY BeginMoves, CallMoves
<1>2. events[c] # None => events'[c] = events[c]
  <2>1. CASE Call(c)
    BY <2>1, CallMoves DEF CallInv, InFlight
  <2>2. CASE \E r \in Requests : Begin(c, r)
    BY <2>2, BeginMoves
  <2> QED
    BY <2>1, <2>2
<1> QED
  BY <1>1, <1>2, TwinAssumption DEF Decided, Decisions

\* The steps that write no decision.
Undecided(c) ==
  \/ CheckDecision(c) \/ CheckEntry(c) \/ WriteReviews(c) \/ WriteJournal(c) \/ ReviewEntry(c)
  \/ LeaveEvent(c) \/ WriteDaily(c) \/ QueryFails(c) \/ UpdateUnanswered(c) \/ UpdateLost(c)

\* What a decision does that the store applies.
LEMMA DecideMoves ==
  ASSUME CallInv, kinds \subseteq Kinds, NEW c \in Calls, DecideReview(c)
  PROVE  /\ Updating(c) /\ req[c] \in Requests /\ req[c].op = "decide" /\ req[c].action \in Decisions
         /\ pc'[c] = "done" /\ events'[c] = req[c].action /\ events[c] = None
         /\ status' = {Requested(c)} /\ labels' = labels /\ replayed' = replayed
         /\ fact' = IF req[c].action = "accept" THEN fact \cup labels ELSE fact
         /\ reply'[c] \in {reply[c], Requested(c)}
<1>1. /\ Updating(c) /\ req[c].op = "decide" /\ InFlight(c)
      /\ pc'[c] = "done" /\ events'[c] = req[c].action /\ events[c] = None
      /\ reply'[c] \in {reply[c], Requested(c)}
  BY DEF DecideReview, Applied, Over, Goto, Leaves, CallInv, Updating, InFlight
<1>2. req[c] \in Requests
  BY <1>1 DEF CallInv
<1> QED
  BY <1>1, <1>2, Shapes DEF DecideReview

\* No step shows a decision that has left no event.
LEMMA RecordStep ==
  ASSUME CallInv, kinds \subseteq Kinds, RecordInv, NEW c \in Calls,
         Call(c) \/ \E r \in Requests : Begin(c, r)
  PROVE  RecordInv'
<1>0. /\ Decided("accept") => Decided("accept")'
      /\ Decided("reject") => Decided("reject")'
  BY EventsStay DEF Decisions
<1>1. ASSUME NEW r \in Requests, Begin(c, r) PROVE RecordInv'
  <2>1. UNCHANGED <<status, fact, reply, events>>
    BY <1>1, BeginMoves
  <2> QED
    BY <2>1 DEF RecordInv, DecisionOnRecord, AcceptedFacts, Decided
<1>2. CASE DecideReview(c)
  <2>1. /\ req[c].action \in Decisions /\ events'[c] = req[c].action
        /\ status' = {Requested(c)} /\ reply'[c] \in {reply[c], Requested(c)}
        /\ fact' = IF req[c].action = "accept" THEN fact \cup labels ELSE fact
    BY <1>2, DecideMoves
  <2>2. \A d \in Calls \ {c} : reply'[d] = reply[d]
    BY <1>2, CallMoves DEF Call
  <2>3. /\ Requested(c) = "accepted" => Decided("accept")'
        /\ Requested(c) = "rejected" => Decided("reject")'
        /\ Requested(c) \in {"accepted", "rejected"}
        /\ req[c].action = "accept" => Decided("accept")'
    <3>1. \E d \in Calls : events'[d] = req[c].action
      BY <2>1
    <3>2. req[c].action = "accept" \/ req[c].action = "reject"
      BY <2>1 DEF Decisions
    <3>3. Requested(c) = IF req[c].action = "accept" THEN "accepted" ELSE "rejected"
      BY DEF Requested
    <3> QED
      BY <3>1, <3>2, <3>3 DEF Decided
  <2>4. /\ status' \subseteq {"pending", "accepted", "rejected"}
        /\ "accepted" \in status' => Decided("accept")'
        /\ "rejected" \in status' => Decided("reject")'
    BY <2>1, <2>3
  <2>5. DecisionOnRecord'
    <3>1. ASSUME NEW d \in Calls
          PROVE  /\ reply'[d] = "accepted" => Decided("accept")'
                 /\ reply'[d] = "rejected" => Decided("reject")'
      <4>1. reply'[d] \in {reply[d], Requested(c)}
        BY <2>1, <2>2
      <4>2. /\ reply[d] = "accepted" => Decided("accept")'
            /\ reply[d] = "rejected" => Decided("reject")'
        <5>1. /\ reply[d] = "accepted" => Decided("accept")
              /\ reply[d] = "rejected" => Decided("reject")
          BY DEF RecordInv, DecisionOnRecord
        <5> QED
          BY <1>0, <5>1
      <4>3. CASE reply'[d] = reply[d]
        BY <4>2, <4>3
      <4>4. CASE reply'[d] = Requested(c)
        BY <2>3, <4>4
      <4> QED
        BY <4>1, <4>3, <4>4
    <3>2. fact' # {} => Decided("accept")'
      <4>1. fact # {} => Decided("accept")'
        BY <1>0 DEF RecordInv, DecisionOnRecord, AcceptedFacts
      <4>2. CASE req[c].action = "accept"
        BY <2>3, <4>2
      <4>3. CASE req[c].action # "accept"
        BY <2>1, <4>1, <4>3
      <4> QED
        BY <4>2, <4>3
    <3> QED
      BY <3>1, <3>2 DEF DecisionOnRecord, AcceptedFacts
  <2> QED
    BY <2>4, <2>5 DEF RecordInv
<1>3. CASE Undecided(c)
  <2>1. fact' = fact /\ status' \in {status, status \cup {"pending"}}
    BY <1>3 DEF Undecided, CheckDecision, CheckEntry, WriteReviews, WriteJournal, ReviewEntry, LeaveEvent,
                WriteDaily, QueryFails, UpdateUnanswered, UpdateLost, store, candidate
  <2>2. \A d \in Calls \ {c} : reply'[d] = reply[d]
    BY <1>3, CallMoves DEF Call, Undecided
  <2>3. reply'[c] \in {reply[c], "ok", "missing", "conflict", "error"} \/ reply'[c] \in status
    <3>1. CASE CheckDecision(c)
      <4>1. \/ Answer(c, "missing") \/ Answer(c, "conflict") \/ Proceed(c)
            \/ Requested(c) \in status /\ Answer(c, Requested(c))
        BY <3>1 DEF CheckDecision
      <4> QED
        BY <4>1 DEF Answer, Proceed, CallInv
    <3>2. CASE CheckEntry(c) \/ QueryFails(c) \/ UpdateUnanswered(c) \/ UpdateLost(c)
      <4>1. \/ reply' = reply \/ Answer(c, "missing") \/ Answer(c, "error")
            \/ reply' = [reply EXCEPT ![c] = "error"]
        BY <3>2 DEF CheckEntry, QueryFails, UpdateUnanswered, UpdateLost
      <4> QED
        BY <4>1 DEF Answer, CallInv
    <3>3. CASE WriteReviews(c) \/ WriteJournal(c) \/ ReviewEntry(c) \/ LeaveEvent(c) \/ WriteDaily(c)
      <4>1. Applied(c) /\ req[c].op # "decide"
        BY <3>3 DEF WriteReviews, WriteJournal, ReviewEntry, LeaveEvent, WriteDaily
      <4> QED
        BY <4>1 DEF Applied, CallInv
    <3> QED
      BY <1>3, <3>1, <3>2, <3>3 DEF Undecided
  <2>4. ASSUME NEW d \in Calls
        PROVE  /\ reply'[d] = "accepted" => Decided("accept")'
               /\ reply'[d] = "rejected" => Decided("reject")'
    <3>1. reply'[d] = "accepted" => reply[d] = "accepted" \/ "accepted" \in status
      BY <2>2, <2>3
    <3>2. reply'[d] = "rejected" => reply[d] = "rejected" \/ "rejected" \in status
      BY <2>2, <2>3
    <3>3. /\ reply[d] = "accepted" => Decided("accept")
          /\ reply[d] = "rejected" => Decided("reject")
      BY DEF RecordInv, DecisionOnRecord
    <3>4. /\ "accepted" \in status => Decided("accept")
          /\ "rejected" \in status => Decided("reject")
      BY DEF RecordInv
    <3> QED
      BY <1>0, <3>1, <3>2, <3>3, <3>4
  <2>5. /\ status' \subseteq {"pending", "accepted", "rejected"}
        /\ "accepted" \in status' => "accepted" \in status
        /\ "rejected" \in status' => "rejected" \in status
        /\ fact' # {} => fact # {}
    BY <2>1 DEF RecordInv
  <2>6. /\ "accepted" \in status => Decided("accept")
        /\ "rejected" \in status => Decided("reject")
        /\ fact # {} => Decided("accept")
    BY DEF RecordInv, DecisionOnRecord, AcceptedFacts
  <2>7. /\ "accepted" \in status' => Decided("accept")'
        /\ "rejected" \in status' => Decided("reject")'
        /\ fact' # {} => Decided("accept")'
    BY <1>0, <2>5, <2>6
  <2> QED
    BY <2>4, <2>5, <2>7 DEF RecordInv, DecisionOnRecord, AcceptedFacts
<1> QED
  BY <1>1, <1>2, <1>3 DEF Call, Undecided

\* The steps that leave the candidate alone.
LEMMA CandidateStays ==
  ASSUME CallInv, kinds \subseteq Kinds, NEW c \in Calls,
         \/ CheckEntry(c) \/ WriteJournal(c) \/ ReviewEntry(c) \/ LeaveEvent(c) \/ WriteDaily(c)
         \/ QueryFails(c) \/ UpdateUnanswered(c) \/ UpdateLost(c)
  PROVE  /\ UNCHANGED <<status, labels, fact>>
         /\ "candidate" \in replayed' <=> "candidate" \in replayed
         /\ \A d \in Calls : events'[d] \in Decisions => events'[d] = events[d]
         /\ \A d \in Calls : Updating(d)' /\ req'[d].op = "decide" =>
              Updating(d) /\ req[d].op = "decide"
<1>1. UNCHANGED <<status, labels, fact>>
  BY DEF CheckEntry, WriteJournal, ReviewEntry, LeaveEvent, WriteDaily, QueryFails, UpdateUnanswered,
         UpdateLost, store, candidate
<1>2. "candidate" \in replayed' <=> "candidate" \in replayed
  BY DEF CheckEntry, WriteJournal, ReviewEntry, LeaveEvent, WriteDaily, QueryFails, UpdateUnanswered,
         UpdateLost, history
<1>3. Call(c)
  BY DEF Call
<1>4. events'[c] \in Decisions => events'[c] = events[c]
  <2>1. CASE ReviewEntry(c)
    <3>1. req[c].op = "feedback" /\ events' = [events EXCEPT ![c] = req[c].action] /\ req[c] \in Requests
      BY <1>3, <2>1, CallMoves DEF ReviewEntry, Leaves, CallInv
    <3> QED
      BY <3>1, Shapes DEF CallInv, Decisions, Actions
  <2>2. CASE LeaveEvent(c)
    BY <2>2 DEF LeaveEvent, Leaves, CallInv, Decisions
  <2>3. CASE ~ReviewEntry(c) /\ ~LeaveEvent(c)
    BY <2>3 DEF CheckEntry, WriteJournal, WriteDaily, QueryFails, UpdateUnanswered, UpdateLost, store
  <2> QED
    BY <2>1, <2>2, <2>3
<1>5. Updating(c)' /\ req'[c].op = "decide" => Updating(c) /\ req[c].op = "decide"
  <2>1. CASE CheckEntry(c)
    BY <1>3, <2>1, CallMoves DEF CheckEntry, Updating
  <2>2. CASE UpdateUnanswered(c)
    BY <1>3, <2>2, CallMoves DEF UpdateUnanswered, Updating
  <2>3. CASE ~CheckEntry(c) /\ ~UpdateUnanswered(c)
    <3>1. Over(c)
      BY <2>3 DEF WriteJournal, ReviewEntry, LeaveEvent, WriteDaily, QueryFails, UpdateLost, Applied, Answer
    <3> QED
      BY <3>1 DEF Over, Goto, CallInv, Updating
  <2> QED
    BY <2>1, <2>2, <2>3
<1> QED
  BY <1>1, <1>2, <1>3, <1>4, <1>5, CallMoves DEF Updating

\* A decision in flight is the only call on a candidate that meets no concurrent one.
LEMMA AloneDeciding ==
  ASSUME CallInv, AloneInv, NEW c \in Calls, InFlight(c), req[c].op \in {"reviews", "decide"},
         "candidate" \notin overlapped, NEW d \in Calls, Updating(d), req[d].op = "decide"
  PROVE  d = c
<1>1. req[c] \in Requests /\ req[d] \in Requests /\ InFlight(d)
  BY DEF CallInv, InFlight, Updating
<1>2. About(req[c]) = "candidate" /\ About(req[d]) = "candidate"
  BY <1>1, Shapes
<1> QED
  BY <1>1, <1>2 DEF AloneInv

\* No step disturbs the one decision on a candidate that nobody else writes.
LEMMA DecisionStep ==
  ASSUME CallInv, kinds \subseteq Kinds, AloneInv, DecisionInv, NEW c \in Calls,
         Call(c) \/ \E r \in Requests : Begin(c, r)
  PROVE  DecisionInv'
<1> SUFFICES ASSUME "candidate" \notin overlapped' \cup replayed' PROVE DecisionInv'
  BY DEF DecisionInv
<1>1. ASSUME NEW r \in Requests, Begin(c, r) PROVE DecisionInv'
  <2>1. /\ UNCHANGED <<status, labels, fact, events>> /\ "candidate" \notin overlapped \cup replayed
        /\ \A d \in Calls : Updating(d)' /\ req'[d].op = "decide" => Updating(d) /\ req[d].op = "decide"
    BY <1>1, BeginMoves DEF Updating
  <2> QED
    BY <2>1 DEF DecisionInv, Decided
<1>2. CASE Call(c)
  <2>1. "candidate" \notin overlapped
    BY <1>2, CallMoves
  <2>2. CASE CheckDecision(c)
    <3>1. UNCHANGED <<status, labels, fact, events, replayed>>
      BY <2>2 DEF CheckDecision, store, candidate, history
    <3>2. Updating(c)' => "pending" \in status
      BY <2>2 DEF CheckDecision, Answer, Over, Goto, CallInv, Updating
    <3>3. \A d \in Calls \ {c} : Updating(d)' /\ req'[d].op = "decide" =>
            Updating(d) /\ req[d].op = "decide"
      BY <1>2, CallMoves DEF Updating
    <3> QED
      BY <2>1, <3>1, <3>2, <3>3 DEF DecisionInv, Decided
  <2>3. CASE WriteReviews(c)
    <3>1. /\ status' = status \cup {"pending"} /\ fact' = fact /\ events' = events
          /\ status = {} /\ "candidate" \notin replayed /\ pc'[c] = "done"
      BY <2>3 DEF WriteReviews, Applied, Over, Goto, CallInv
    <3>2. \A d \in Calls : ~(Updating(d)' /\ req'[d].op = "decide")
      <4>1. InFlight(c) /\ req[c].op = "reviews"
        BY <2>3 DEF WriteReviews, Applied, InFlight
      <4>2. \A d \in Calls \ {c} : ~(Updating(d) /\ req[d].op = "decide")
        BY <2>1, <4>1, AloneDeciding
      <4> QED
        BY <1>2, <3>1, <4>2, CallMoves DEF Updating
    <3>3. DecisionInv => fact = {} /\ ~Decided("accept") /\ ~Decided("reject")
      BY <2>1, <3>1 DEF DecisionInv
    <3> QED
      BY <2>1, <3>1, <3>2, <3>3 DEF DecisionInv, Decided, Decisions
  <2>4. CASE DecideReview(c)
    <3>1. /\ Updating(c) /\ req[c].op = "decide" /\ req[c].action \in Decisions
          /\ pc'[c] = "done" /\ events'[c] = req[c].action /\ status' = {Requested(c)}
          /\ labels' = labels /\ replayed' = replayed
          /\ fact' = IF req[c].action = "accept" THEN fact \cup labels ELSE fact
      BY <2>4, DecideMoves
    <3>2. /\ status = {"pending"} /\ fact = {}
          /\ ~Decided("accept") /\ ~Decided("reject")
      BY <2>1, <3>1 DEF DecisionInv
    <3>3. \A d \in Calls \ {c} : events'[d] = events[d] /\ events[d] \notin Decisions
      BY <1>2, <3>2, CallMoves DEF Decided, Decisions
    <3>4. \A d \in Calls : ~(Updating(d)' /\ req'[d].op = "decide")
      <4>1. InFlight(c)
        BY <3>1 DEF Updating, InFlight
      <4>2. \A d \in Calls \ {c} : ~(Updating(d) /\ req[d].op = "decide")
        BY <2>1, <3>1, <4>1, AloneDeciding
      <4> QED
        BY <1>2, <3>1, <4>2, CallMoves DEF Updating
    <3>5. Decided("accept")' <=> req[c].action = "accept"
      BY <3>1, <3>3 DEF Decided, Decisions
    <3>6. Decided("reject")' <=> req[c].action = "reject"
      BY <3>1, <3>3 DEF Decided, Decisions
    <3>7. \A d, e \in Calls : events'[d] \in Decisions /\ events'[e] \in Decisions => d = e
      BY <3>3
    <3>8. /\ req[c].action = "accept" => status' = {"accepted"} /\ fact' = labels'
          /\ req[c].action # "accept" => status' = {"rejected"} /\ fact' = {}
      BY <3>1, <3>2 DEF Requested
    <3>9. req[c].action = "accept" \/ req[c].action = "reject"
      BY <3>1 DEF Decisions
    <3> QED
      BY <3>4, <3>5, <3>6, <3>7, <3>8, <3>9 DEF DecisionInv
  <2>5. ASSUME \/ CheckEntry(c) \/ WriteJournal(c) \/ ReviewEntry(c) \/ LeaveEvent(c) \/ WriteDaily(c)
               \/ QueryFails(c) \/ UpdateUnanswered(c) \/ UpdateLost(c)
        PROVE  DecisionInv'
    <3>1. /\ UNCHANGED <<status, labels, fact>> /\ "candidate" \notin overlapped \cup replayed
          /\ \A d \in Calls : events'[d] \in Decisions => events'[d] = events[d]
          /\ \A d \in Calls : Updating(d)' /\ req'[d].op = "decide" =>
               Updating(d) /\ req[d].op = "decide"
      BY <2>1, <2>5, CandidateStays
    <3>2. /\ Decided("accept")' <=> Decided("accept")
          /\ Decided("reject")' <=> Decided("reject")
      BY <1>2, <3>1, EventsStay DEF Decided, Decisions
    <3>3. /\ status \in {{}, {"pending"}, {"accepted"}, {"rejected"}}
          /\ status = {} => labels = {}
          /\ fact = IF status = {"accepted"} THEN labels ELSE {}
          /\ status = {"accepted"} <=> Decided("accept")
          /\ status = {"rejected"} <=> Decided("reject")
          /\ \A d, e \in Calls : events[d] \in Decisions /\ events[e] \in Decisions => d = e
          /\ \A d \in Calls : Updating(d) /\ req[d].op = "decide" => status = {"pending"}
      BY <3>1 DEF DecisionInv
    <3>4. \A d, e \in Calls : events'[d] \in Decisions /\ events'[e] \in Decisions => d = e
      BY <3>1, <3>3
    <3>5. \A d \in Calls : Updating(d)' /\ req'[d].op = "decide" => status' = {"pending"}
      BY <3>1, <3>3
    <3> QED
      BY <3>1, <3>2, <3>3, <3>4, <3>5 DEF DecisionInv
  <2> QED
    BY <1>2, <2>2, <2>3, <2>4, <2>5 DEF Call
<1> QED
  BY <1>1, <1>2

-----------------------------------------------------------------------------
(* The entry and the daily page. *)

\* The steps that leave the entry alone.
LEMMA EntryStays ==
  ASSUME CallInv, kinds \subseteq Kinds, NEW c \in Calls,
         \/ CheckDecision(c) \/ WriteReviews(c) \/ DecideReview(c) \/ LeaveEvent(c) \/ WriteDaily(c)
         \/ QueryFails(c) \/ UpdateUnanswered(c) \/ UpdateLost(c)
  PROVE  /\ UNCHANGED <<kinds, texts, entryStatus, latest>>
         /\ "entry" \in replayed' <=> "entry" \in replayed
         /\ \A d \in Calls : Updating(d)' /\ req'[d].op = "feedback" =>
              Updating(d) /\ req[d].op = "feedback" /\ previous'[d] = previous[d]
<1>1. UNCHANGED <<kinds, texts, entryStatus, latest>>
  BY DEF CheckDecision, WriteReviews, DecideReview, LeaveEvent, WriteDaily, QueryFails, UpdateUnanswered,
         UpdateLost, store, entry, history
<1>2. "entry" \in replayed' <=> "entry" \in replayed
  BY DEF CheckDecision, WriteReviews, DecideReview, LeaveEvent, WriteDaily, QueryFails, UpdateUnanswered,
         UpdateLost, history
<1>3. Call(c)
  BY DEF Call
<1>4. Updating(c)' /\ req'[c].op = "feedback" =>
        Updating(c) /\ req[c].op = "feedback" /\ previous'[c] = previous[c]
  <2>1. CASE CheckDecision(c)
    <3>1. req[c].op = "decide"
      BY <2>1 DEF CheckDecision
    <3> QED
      BY <1>3, <3>1, CallMoves DEF Updating
  <2>2. CASE UpdateUnanswered(c)
    BY <1>3, <2>2, CallMoves DEF UpdateUnanswered, Updating
  <2>3. CASE ~CheckDecision(c) /\ ~UpdateUnanswered(c)
    <3>1. Over(c)
      BY <2>3 DEF WriteReviews, DecideReview, LeaveEvent, WriteDaily, QueryFails, UpdateLost, Applied, Answer
    <3> QED
      BY <3>1 DEF Over, Goto, CallInv, Updating
  <2> QED
    BY <2>1, <2>2, <2>3
<1> QED
  BY <1>1, <1>2, <1>3, <1>4, CallMoves DEF Updating

\* No step takes back a correction, but for a repeated capture and a concurrent request.
LEMMA EntryStep ==
  ASSUME CallInv, AloneInv, EntryInv, NEW c \in Calls, Call(c) \/ \E r \in Requests : Begin(c, r)
  PROVE  EntryInv'
<1>0. /\ kinds \subseteq Kinds /\ texts \subseteq Texts
      /\ kinds = {} <=> texts = {}
      /\ \A d \in Calls : Updating(d) /\ req[d].op = "feedback" => kinds # {} /\ previous[d] \in Kinds
      /\ "entry" \notin replayed /\ kinds # {} => texts = {latest.text}
      /\ "entry" \notin replayed \cup overlapped /\ kinds # {} => kinds = {latest.kind}
      /\ "entry" \notin replayed \cup overlapped /\ kinds # {} =>
           \A d \in Calls : Updating(d) /\ req[d].op = "feedback" => previous[d] = latest.kind
  BY DEF EntryInv
<1>1. ASSUME NEW r \in Requests, Begin(c, r) PROVE EntryInv'
  <2>1. /\ UNCHANGED <<kinds, texts, replayed, latest, previous>> /\ overlapped \subseteq overlapped'
        /\ \A d \in Calls : Updating(d)' /\ req'[d].op = "feedback" =>
             Updating(d) /\ req[d].op = "feedback"
    BY <1>0, <1>1, BeginMoves DEF Updating
  <2> QED
    BY <1>0, <2>1 DEF EntryInv
<1>2. CASE Call(c)
  <2>0. overlapped' = overlapped
    BY <1>0, <1>2, CallMoves
  <2>1. CASE CheckEntry(c)
    <3>1. UNCHANGED <<kinds, texts, replayed, latest>>
      BY <2>1 DEF CheckEntry, store, entry, history
    <3>2. Updating(c)' => kinds # {} /\ previous'[c] \in kinds
      BY <2>1 DEF CheckEntry, Answer, Over, Goto, CallInv, Updating
    <3>3. \A d \in Calls \ {c} : Updating(d)' /\ req'[d].op = "feedback" =>
            Updating(d) /\ req[d].op = "feedback" /\ previous'[d] = previous[d]
      BY <1>0, <1>2, CallMoves DEF Updating
    <3>4. \A d \in Calls : Updating(d)' /\ req'[d].op = "feedback" => kinds # {} /\ previous'[d] \in Kinds
      BY <1>0, <3>2, <3>3
    <3>5. "entry" \notin replayed \cup overlapped /\ kinds # {} =>
            \A d \in Calls : Updating(d)' /\ req'[d].op = "feedback" => previous'[d] = latest.kind
      BY <1>0, <3>2, <3>3
    <3> QED
      BY <1>0, <2>0, <3>1, <3>4, <3>5 DEF EntryInv
  <2>2. CASE WriteJournal(c)
    <3>1. /\ kinds' = kinds \cup {req[c].kind} /\ texts' = texts \cup {req[c].text}
          /\ replayed' = IF kinds = {} THEN replayed ELSE replayed \cup {"entry"}
          /\ kinds = {} => latest' = [kind |-> req[c].kind, text |-> req[c].text]
          /\ pc'[c] = "done" /\ req[c] \in Requests /\ req[c].op = "journal"
      BY <2>2 DEF WriteJournal, Applied, Over, Goto, CallInv, InFlight
    <3>2. req[c].kind \in Kinds /\ req[c].text \in Texts
      BY <3>1, Shapes
    <3>3. \A d \in Calls : Updating(d)' /\ req'[d].op = "feedback" =>
            kinds # {} /\ previous'[d] \in Kinds
      BY <1>0, <1>2, <3>1, CallMoves DEF Updating
    <3>4. /\ kinds' \subseteq Kinds /\ texts' \subseteq Texts
          /\ kinds' # {} /\ texts' # {}
      BY <1>0, <3>1, <3>2
    <3>5. "entry" \notin replayed' =>
            /\ kinds = {} /\ kinds' = {latest'.kind} /\ texts' = {latest'.text}
      BY <1>0, <3>1
    <3> QED
      BY <3>3, <3>4, <3>5 DEF EntryInv
  <2>3. CASE ReviewEntry(c)
    <3>1. /\ kinds' = {IF req[c].kind # None THEN req[c].kind ELSE previous[c]}
          /\ texts' = IF req[c].text # None THEN {req[c].text} ELSE texts
          /\ latest' = [kind |-> IF req[c].kind # None THEN req[c].kind ELSE latest.kind,
                        text |-> IF req[c].text # None THEN req[c].text ELSE latest.text]
          /\ replayed' = replayed
          /\ Updating(c) /\ InFlight(c) /\ req[c].op = "feedback" /\ pc'[c] = "done"
      BY <2>3 DEF ReviewEntry, Applied, Over, Goto, CallInv, Updating, InFlight
    <3>2. /\ req[c] \in Requests
          /\ req[c].kind \in Kinds \cup {None} /\ req[c].text \in Texts \cup {None}
      <4>1. req[c] \in Requests
        BY <3>1 DEF CallInv
      <4> QED
        BY <3>1, <4>1, Shapes
    <3>3. kinds # {} /\ texts # {} /\ previous[c] \in Kinds
      BY <1>0, <3>1
    <3>4. \A d \in Calls \ {c} : Updating(d)' /\ req'[d].op = "feedback" =>
            Updating(d) /\ req[d].op = "feedback" /\ previous'[d] = previous[d]
      BY <1>0, <1>2, CallMoves DEF Updating
    <3>5. "entry" \notin overlapped =>
            \A d \in Calls \ {c} : ~(Updating(d) /\ req[d].op = "feedback")
      <4> SUFFICES ASSUME "entry" \notin overlapped, NEW d \in Calls, Updating(d), req[d].op = "feedback"
                   PROVE  d = c
        OBVIOUS
      <4>1. InFlight(d) /\ req[d] \in Requests
        BY DEF CallInv, InFlight, Updating
      <4>2. About(req[c]) = "entry" /\ About(req[d]) = "entry"
        BY <3>1, <3>2, <4>1, Shapes
      <4> QED
        BY <3>1, <4>1, <4>2 DEF AloneInv
    <3>6. ~Updating(c)'
      BY <3>1 DEF Updating
    <3>7. /\ kinds' \subseteq Kinds /\ kinds' # {}
          /\ texts' \subseteq Texts /\ texts' # {}
      BY <1>0, <3>1, <3>2, <3>3
    <3>8. \A d \in Calls : Updating(d)' /\ req'[d].op = "feedback" =>
            kinds' # {} /\ previous'[d] \in Kinds
      BY <1>0, <3>4, <3>6, <3>7
    <3>9. "entry" \notin replayed' => texts' = {latest'.text}
      BY <1>0, <3>1, <3>3
    <3>10. "entry" \notin replayed' \cup overlapped' => kinds' = {latest'.kind}
      BY <1>0, <2>0, <3>1, <3>3
    <3>11. "entry" \notin replayed' \cup overlapped' =>
             \A d \in Calls : ~(Updating(d)' /\ req'[d].op = "feedback")
      BY <2>0, <3>4, <3>5, <3>6
    <3> QED
      BY <3>7, <3>8, <3>9, <3>10, <3>11 DEF EntryInv
  <2>4. ASSUME \/ CheckDecision(c) \/ WriteReviews(c) \/ DecideReview(c) \/ LeaveEvent(c) \/ WriteDaily(c)
               \/ QueryFails(c) \/ UpdateUnanswered(c) \/ UpdateLost(c)
        PROVE  EntryInv'
    <3>1. /\ UNCHANGED <<kinds, texts, latest>>
          /\ "entry" \in replayed' <=> "entry" \in replayed
          /\ \A d \in Calls : Updating(d)' /\ req'[d].op = "feedback" =>
               Updating(d) /\ req[d].op = "feedback" /\ previous'[d] = previous[d]
      BY <1>0, <2>4, EntryStays
    <3> QED
      BY <1>0, <2>0, <3>1 DEF EntryInv
  <2> QED
    BY <1>2, <2>1, <2>2, <2>3, <2>4 DEF Call
<1> QED
  BY <1>1, <1>2

\* The daily page and the status of the entry are replaced, not added to.
LEMMA VersionStep ==
  ASSUME VersionInv, CallInv, NEW c \in Calls, Call(c) \/ \E r \in Requests : Begin(c, r)
  PROVE  VersionInv'
<1>1. page' = page \/ page' = {c}
  BY DEF Begin, Call, CheckDecision, CheckEntry, WriteReviews, DecideReview, WriteJournal, ReviewEntry,
         LeaveEvent, WriteDaily, QueryFails, UpdateUnanswered, UpdateLost, store
<1>2. entryStatus' \in {entryStatus, {"reviewed"}, {"deleted"}}
  BY DEF Begin, Call, CheckDecision, CheckEntry, WriteReviews, DecideReview, WriteJournal, ReviewEntry,
         LeaveEvent, WriteDaily, QueryFails, UpdateUnanswered, UpdateLost, store, entry
<1>3. \A d, e \in page' : d = e
  BY <1>1 DEF VersionInv
<1> QED
  BY <1>2, <1>3 DEF VersionInv

-----------------------------------------------------------------------------
(* The invariant and what follows from it. *)

\* The store is empty at first.
LEMMA TwinInit == Init => TwinInv
<1> SUFFICES ASSUME Init PROVE TwinInv
  OBVIOUS
<1>1. CallInv
  BY DEF Init, CallInv, InFlight
<1>2. AloneInv
  BY DEF Init, AloneInv, InFlight
<1>3. \A decision \in Decisions : ~Decided(decision)
  BY TwinAssumption DEF Init, Decided, Decisions
<1>4. RecordInv
  BY TwinAssumption DEF Init, RecordInv, DecisionOnRecord, AcceptedFacts
<1>5. DecisionInv
  BY <1>3, TwinAssumption DEF Init, DecisionInv, Decisions, Updating
<1>6. EntryInv /\ VersionInv
  BY DEF Init, EntryInv, VersionInv, Updating
<1> QED
  BY <1>1, <1>2, <1>4, <1>5, <1>6 DEF TwinInv

\* Every step keeps the invariant.
LEMMA TwinStep == TwinInv /\ [Next]_vars => TwinInv'
<1> SUFFICES ASSUME TwinInv, [Next]_vars PROVE TwinInv'
  OBVIOUS
<1> USE DEF TwinInv
<1>0. kinds \subseteq Kinds
  BY DEF EntryInv
<1>1. ASSUME NEW c \in Calls, Call(c) \/ \E r \in Requests : Begin(c, r)
      PROVE  TwinInv'
  BY <1>0, <1>1, AloneStep, RecordStep, DecisionStep, EntryStep, VersionStep
<1>2. CASE UNCHANGED vars
  <2>1. /\ UNCHANGED <<status, labels, fact, kinds, texts, entryStatus, page, events>>
        /\ UNCHANGED <<req, pc, previous, reply, overlapped, replayed, latest>>
    BY <1>2 DEF vars, store, candidate, entry, calls, history
  <2>2. CallInv' /\ AloneInv'
    BY <2>1 DEF CallInv, AloneInv, InFlight
  <2>3. RecordInv'
    BY <2>1 DEF RecordInv, DecisionOnRecord, AcceptedFacts, Decided
  <2>4. DecisionInv'
    BY <2>1 DEF DecisionInv, Decided, Updating
  <2>5. EntryInv' /\ VersionInv'
    BY <2>1 DEF EntryInv, VersionInv, Updating
  <2> QED
    BY <2>2, <2>3, <2>4, <2>5
<1> QED
  BY <1>1, <1>2 DEF Next

\* The strengthened invariant holds of every run of the endpoints.
THEOREM TwinInvariance == Spec => []TwinInv
<1> QED
  BY TwinInit, TwinStep, PTL DEF Spec

\* Nothing is a fact of the profile, and no decision was confirmed, without the
\* event of that decision.
THEOREM OnRecord == Spec => []DecisionOnRecord
<1>1. TwinInv => DecisionOnRecord
  BY DEF TwinInv, RecordInv
<1> QED
  BY <1>1, TwinInvariance, PTL

\* A set all of whose members are equal has at most one.
LEMMA AtMostOneMember ==
  ASSUME NEW S, \A x, y \in S : x = y
  PROVE  Cardinality(S) <= 1
<1>1. CASE S = {}
  BY <1>1, FS_EmptySet
<1>2. ASSUME NEW x \in S PROVE Cardinality(S) <= 1
  <2>1. S = {x}
    BY <1>2
  <2> QED
    BY <2>1, FS_Singleton
<1> QED
  BY <1>1, <1>2

\* Undisturbed, the owner decides on a candidate once.
THEOREM Once == Spec => []OneDecision
<1>1. ASSUME TwinInv PROVE OneDecision
  <2> SUFFICES ASSUME "candidate" \notin overlapped \cup replayed PROVE OneDecision
    BY DEF OneDecision
  <2>1. /\ status \in {{}, {"pending"}, {"accepted"}, {"rejected"}}
        /\ fact = IF status = {"accepted"} THEN labels ELSE {}
        /\ status = {"accepted"} <=> Decided("accept")
        /\ status = {"rejected"} <=> Decided("reject")
        /\ \A c, d \in Calls : events[c] \in Decisions /\ events[d] \in Decisions => c = d
    BY <1>1 DEF TwinInv, DecisionInv
  <2>2. Cardinality(status) <= 1
    <3>1. \A x, y \in status : x = y
      BY <2>1
    <3> QED
      BY <3>1, AtMostOneMember
  <2>3. Cardinality({c \in Calls : events[c] \in Decisions}) <= 1
    <3>1. \A x, y \in {c \in Calls : events[c] \in Decisions} : x = y
      BY <2>1
    <3> QED
      BY <3>1, AtMostOneMember
  <2>4. Decided("accept") \/ Decided("reject") => PendingReviews = {}
    BY <2>1 DEF PendingReviews
  <2> QED
    BY <2>1, <2>2, <2>3, <2>4 DEF OneDecision, AcceptedFacts
<1> QED
  BY <1>1, TwinInvariance, PTL

\* An entry says what the owner corrected last.
THEOREM Corrected == Spec => []CorrectionsStand
<1>1. TwinInv => CorrectionsStand
  BY DEF TwinInv, EntryInv, CorrectionsStand
<1> QED
  BY <1>1, TwinInvariance, PTL

\* Only a feedback of the owner brings back an entry that he has deleted.
THEOREM Deleted == Spec => DeletedStaysHidden
<1>1. TwinInv /\ TwinInv' /\ [Next]_vars
        => [Hidden /\ ~Hidden' =>
              \E c \in Calls : events'[c] # events[c] /\ events'[c] \in Actions \ {"delete"}]_vars
  <2> SUFFICES ASSUME TwinInv, TwinInv', Hidden, ~Hidden',
                      NEW c \in Calls, Call(c) \/ \E r \in Requests : Begin(c, r)
               PROVE  \E d \in Calls : events'[d] # events[d] /\ events'[d] \in Actions \ {"delete"}
    BY DEF Next
  <2>1. entryStatus = {"deleted"} /\ kinds # {} /\ texts # {}
    <3>1. kinds # {} /\ texts # {}
      BY DEF Hidden, TwinInv, EntryInv
    <3>2. PICK kind \in kinds, text \in texts : TRUE
      BY <3>1
    <3>3. <<kind, text>> \in kinds \X texts
      BY <3>2
    <3>4. entryStatus # {} /\ entryStatus # {"reviewed"}
      BY <3>3 DEF Hidden, JournalFacts
    <3> QED
      BY <3>1, <3>4 DEF TwinInv, VersionInv
  <2>2. entryStatus' # {"deleted"} \/ kinds' = {}
    BY DEF Hidden, JournalFacts
  <2>3. ReviewEntry(c)
    BY <2>1, <2>2 DEF Begin, Call, CheckDecision, CheckEntry, WriteReviews, DecideReview, WriteJournal,
         LeaveEvent, WriteDaily, QueryFails, UpdateUnanswered, UpdateLost, store, entry
  <2>4. /\ req[c].op = "feedback" /\ InFlight(c) /\ pc[c] # "done"
        /\ kinds' # {} /\ events' = [events EXCEPT ![c] = req[c].action]
        /\ entryStatus' = {IF req[c].action = "delete" THEN "deleted" ELSE "reviewed"}
    BY <2>3 DEF ReviewEntry, Applied, InFlight, Leaves
  <2>5. req[c].action \in Actions /\ events[c] = None /\ events'[c] = req[c].action
    BY <2>4, Shapes DEF TwinInv, CallInv
  <2>6. req[c].action # "delete"
    BY <2>2, <2>4
  <2>7. req[c].action # None
    BY <2>5, TwinAssumption DEF Actions
  <2> QED
    BY <2>5, <2>6, <2>7
<1> QED
  BY <1>1, TwinInvariance, PTL DEF Spec, DeletedStaysHidden

=============================================================================
