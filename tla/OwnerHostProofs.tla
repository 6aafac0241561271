---------------------------- MODULE OwnerHostProofs ----------------------------
(***************************************************************************)
(* Proofs about the programs of the owner's host.                          *)
(*   AlertMonitor: for any alerts, cooldown and patience, and however      *)
(* often the monitor is killed or not answered, an incident is             *)
(* investigated once.                                                      *)
(*   OwnerLease: one process has the store open, for two processes, and    *)
(* for any number if no lock is reclaimed from a holder.                   *)
(***************************************************************************)
EXTENDS OwnerLease, AlertMonitor, FiniteSetTheorems, TLAPS

-----------------------------------------------------------------------------
(* The alert monitor.                                                      *)

Types ==
  /\ now \in Times /\ firing \subseteq Keys /\ failures \in 0 .. Patience
  /\ row \in [Incidents -> Rows \cup {None}]
  /\ at \in {"sleep", "alerts", "submit", "confirm"} /\ key \in Incidents \cup {None}
  /\ todo \subseteq Incidents /\ activeKeys \subseteq Incidents /\ clearing \in BOOLEAN
  /\ requests \in [Ids -> Times \cup {None}]
  /\ began \in [Incidents -> Times] /\ accepted \in [Ids -> Acceptances \cup {None}]

\* Whether request s of alert k was taken, and what is remembered of it.
Taken(k, s) == accepted[<<k, s>>] # None
Time(k, s) == accepted[<<k, s>>].time
Incident(k, s) == accepted[<<k, s>>].incident
Ticks == 1 .. MaxTime

\* The alert that is being submitted is one of the pass, with its row; only after a success
\* of Grafana are alerts cleared.
PassInv ==
  /\ todo \subseteq activeKeys /\ (at # "sleep" => now > 0)
  /\ at = "sleep" => todo = {} /\ activeKeys = {} /\ ~clearing
  /\ at \in {"submit", "confirm"} => key \in activeKeys /\ row[key] # None /\ row[key].active
  /\ at = "submit" => ~row[key].submitted
  /\ at = "confirm" => Taken(key, row[key].first)
  /\ clearing => failures = 0
  /\ Outage \in activeKeys => failures = Patience

\* An instruction goes with its ID: the evidence is as old as the incident.
RowInv == \A k \in Incidents :
  /\ row[k] # None => row[k].first \in 1 .. now /\ row[k].evidence = row[k].first
  /\ row[k] # None /\ row[k].submitted =>
       row[k].last \in Times /\ row[k].last <= now
  /\ \A s \in Ticks : requests[<<k, s>>] \in {None, s}

\* What was taken is not newer than the row, in time and in incident.
TakenInv == \A k \in Incidents : \A s \in Ticks : Taken(k, s) =>
  /\ row[k] # None /\ s <= row[k].first
  /\ s <= Time(k, s) /\ Time(k, s) <= now /\ Incident(k, s) <= began[k]
  /\ s = row[k].first /\ row[k].submitted => Time(k, s) <= row[k].last
  /\ s < row[k].first => Time(k, s) + Cooldown <= row[k].first /\ Incident(k, s) < began[k]

PairInv == \A k \in Incidents : \A s, t \in Ticks : s < t /\ Taken(k, s) /\ Taken(k, t) =>
  Time(k, s) + Cooldown <= t /\ Incident(k, s) < Incident(k, t)

\* An alert that is gone, or will be when the pass ends, comes back as a later incident.
GoneInv == \A k \in Incidents :
  /\ began[k] <= now + 1 /\ (k = Outage => began[k] <= now)
  /\ (row[k] # None /\ ~row[k].active) \/ (clearing /\ k \notin activeKeys) =>
       \A s \in Ticks : Taken(k, s) =>
         /\ Incident(k, s) <= now
         /\ k \in firing \cup todo \/ (k = Outage /\ failures > 0) => Incident(k, s) < began[k]

MonitorInv == Types /\ PassInv /\ RowInv /\ TakenInv /\ PairInv /\ GoneInv

-----------------------------------------------------------------------------
(* The invariant holds at first, and every action keeps it.                *)

\* What the constants are.
LEMMA Bounds ==
         /\ Cooldown \in Nat \ {0} /\ Patience \in Nat \ {0} /\ MaxTime \in Nat \ {0}
         /\ Times = 0 .. MaxTime /\ Ticks = 1 .. MaxTime
         /\ None \notin Incidents /\ None \notin Times /\ None \notin Rows /\ None \notin Acceptances
         /\ Outage \notin Keys /\ Outage \in Incidents /\ Keys \subseteq Incidents
  BY MonitorAssumption DEF Times, Ticks, Incidents

\* An alert begins to fire: its new incident is later than all that was taken.
LEMMA FireStep ==
  ASSUME MonitorInv, NEW k \in Keys, Fire(k)
  PROVE  MonitorInv'
<1>0. /\ UNCHANGED <<now, failures, row, at, key, todo, activeKeys, clearing, requests, accepted>>
      /\ now < MaxTime /\ k \in Keys /\ k \in Incidents /\ k # Outage /\ k \notin firing
      /\ firing' = firing \cup {k} /\ began' = [began EXCEPT ![k] = now + 1]
  BY Bounds DEF Fire, pass
<1>1. Types'
  BY <1>0, Bounds DEF MonitorInv, Types
<1>2. PassInv'
  BY <1>0 DEF MonitorInv, PassInv, Taken
<1>3. RowInv'
  BY <1>0 DEF MonitorInv, RowInv, Ticks
<1>4. TakenInv'
  <2> SUFFICES ASSUME NEW l \in Incidents, NEW s \in Ticks, Taken(l, s)
               PROVE  /\ row[l] # None /\ s <= row[l].first
                      /\ s <= Time(l, s) /\ Time(l, s) <= now /\ Incident(l, s) <= began'[l]
                      /\ s = row[l].first /\ row[l].submitted => Time(l, s) <= row[l].last
                      /\ s < row[l].first =>
                           Time(l, s) + Cooldown <= row[l].first /\ Incident(l, s) < began'[l]
    BY <1>0 DEF TakenInv, Taken, Time, Incident, Ticks
  <2>1. accepted[<<l, s>>] \in Acceptances /\ Incident(l, s) \in Nat /\ began[l] \in Nat /\ now \in Nat
    BY Bounds DEF MonitorInv, Types, Ids, Taken, Acceptances, Times, Ticks, Incident
  <2>2. began'[l] = IF l = k THEN now + 1 ELSE began[l]
    BY <1>0 DEF MonitorInv, Types
  <2>3. began[l] <= now + 1
    BY DEF MonitorInv, GoneInv
  <2> QED
    BY <2>1, <2>2, <2>3 DEF MonitorInv, TakenInv
<1>5. PairInv'
  BY <1>0 DEF MonitorInv, PairInv, Taken, Time, Incident, Ticks
<1>6. GoneInv'
  <2> SUFFICES ASSUME NEW l \in Incidents
               PROVE  /\ began'[l] <= now + 1 /\ (l = Outage => began'[l] <= now)
                      /\ (row[l] # None /\ ~row[l].active) \/ (clearing /\ l \notin activeKeys) =>
                           \A s \in Ticks : Taken(l, s) =>
                             /\ Incident(l, s) <= now
                             /\ l \in firing' \cup todo \/ (l = Outage /\ failures > 0) =>
                                  Incident(l, s) < began'[l]
    BY <1>0 DEF GoneInv, Taken, Time, Incident, Ticks
  <2>1. began'[l] = IF l = k THEN now + 1 ELSE began[l]
    BY <1>0 DEF MonitorInv, Types
  <2>2. now \in Nat /\ \A s \in Ticks : Taken(l, s) => Incident(l, s) \in Nat
    BY Bounds DEF MonitorInv, Types, Ids, Taken, Acceptances, Times, Ticks, Incident
  <2> QED
    BY <1>0, <2>1, <2>2 DEF MonitorInv, GoneInv
<1> QED
  BY <1>1, <1>2, <1>3, <1>4, <1>5, <1>6 DEF MonitorInv

\* An alert ends: nothing is said of one that does not fire.
LEMMA ResolveStep ==
  ASSUME MonitorInv, NEW k \in Keys, Resolve(k)
  PROVE  MonitorInv'
<1>0. /\ UNCHANGED <<now, failures, row, at, key, todo, activeKeys, clearing, requests, began, accepted>>
      /\ firing' = firing \ {k}
  BY DEF Resolve, pass, history
<1>1. Types' /\ PassInv' /\ RowInv'
  BY <1>0 DEF MonitorInv, Types, PassInv, RowInv, Taken, Ticks
<1>2. TakenInv' /\ PairInv'
  BY <1>0 DEF MonitorInv, TakenInv, PairInv, Taken, Time, Incident, Ticks
<1>3. GoneInv'
  BY <1>0 DEF MonitorInv, GoneInv, Taken, Incident, Ticks
<1> QED
  BY <1>1, <1>2, <1>3 DEF MonitorInv

\* What is remembered of a request consists of numbers.
LEMMA Numbers ==
  ASSUME MonitorInv, NEW k \in Incidents, NEW s \in Ticks, Taken(k, s)
  PROVE  /\ Time(k, s) \in Nat /\ Incident(k, s) \in Nat /\ began[k] \in Nat /\ now \in Nat
         /\ s \in Nat /\ Incident(k, s) <= now + 1
<1>1. accepted[<<k, s>>] \in Acceptances
  BY DEF MonitorInv, Types, Ids, Taken, Ticks
<1>2. Time(k, s) \in Nat /\ Incident(k, s) \in Nat /\ began[k] \in Nat /\ now \in Nat /\ s \in Nat
  BY <1>1, Bounds DEF MonitorInv, Types, Acceptances, Times, Time, Incident
<1>3. Incident(k, s) <= began[k] /\ began[k] <= now + 1
  BY DEF MonitorInv, TakenInv, GoneInv
<1> QED
  BY <1>2, <1>3

\* A poll: what does not fire any more is among what was investigated before.
LEMMA PollStep ==
  ASSUME MonitorInv, Poll
  PROVE  MonitorInv'
<1>0. /\ UNCHANGED <<firing, row, requests, began, accepted>>
      /\ at = "sleep" /\ now < MaxTime /\ now' = now + 1 /\ failures' = 0
      /\ at' = "alerts" /\ key' = None /\ todo' = firing /\ activeKeys' = firing /\ clearing' = TRUE
  BY DEF Poll, Begin, history
<1>a. now \in Nat /\ MaxTime \in Nat /\ Patience \in Nat \ {0} /\ began \in [Incidents -> Nat]
  BY Bounds DEF MonitorInv, Types, Times
<1>1. Types'
  BY <1>0, <1>a, Bounds DEF MonitorInv, Types, Times
<1>2. PassInv'
  BY <1>0, <1>a, Bounds DEF MonitorInv, PassInv, Types
<1>3. RowInv'
  <2>1. \A k \in Incidents : row[k] # None => row[k] \in Rows
    BY DEF MonitorInv, Types
  <2> QED
    BY <1>0, <1>a, <2>1, Bounds DEF MonitorInv, RowInv, Ticks, Rows
<1>4. TakenInv'
  BY <1>0, Numbers DEF MonitorInv, TakenInv, Taken, Time, Incident, Ticks
<1>5. PairInv'
  BY <1>0 DEF MonitorInv, PairInv, Taken, Time, Incident, Ticks
<1>6. GoneInv'
  <2> SUFFICES ASSUME NEW k \in Incidents
               PROVE  /\ began[k] <= now + 2 /\ (k = Outage => began[k] <= now + 1)
                      /\ (row[k] # None /\ ~row[k].active) \/ k \notin firing =>
                           \A s \in Ticks : Taken(k, s) =>
                             /\ Incident(k, s) <= now + 1
                             /\ k \in firing => Incident(k, s) < began[k]
    BY <1>0, <1>a DEF GoneInv, Taken, Time, Incident, Ticks
  <2>1. began[k] <= now + 1 /\ (k = Outage => began[k] <= now) /\ began[k] \in Nat
    BY <1>a DEF MonitorInv, GoneInv
  <2>2. ASSUME NEW s \in Ticks, Taken(k, s) PROVE Incident(k, s) <= now + 1
    BY <2>2, Numbers
  <2>3. ASSUME row[k] # None /\ ~row[k].active, NEW s \in Ticks, Taken(k, s), k \in firing
        PROVE  Incident(k, s) < began[k]
    BY <2>3 DEF MonitorInv, GoneInv
  <2> QED
    BY <1>a, <2>1, <2>2, <2>3
<1> QED
  BY <1>1, <1>2, <1>3, <1>4, <1>5, <1>6 DEF MonitorInv

\* A poll that fails: the outage of the monitor's own is an incident like others.
LEMMA PollFailsStep ==
  ASSUME MonitorInv, PollFails
  PROVE  MonitorInv'
<1>0. /\ UNCHANGED <<firing, row, requests, accepted>>
      /\ at = "sleep" /\ now < MaxTime /\ now' = now + 1
      /\ failures' = IF failures < Patience THEN failures + 1 ELSE failures
      /\ began' = IF failures = 0 THEN [began EXCEPT ![Outage] = now + 1] ELSE began
  BY DEF PollFails
<1>a. /\ now \in Nat /\ MaxTime \in Nat /\ Patience \in Nat \ {0} /\ began \in [Incidents -> Nat]
      /\ failures \in 0 .. Patience /\ Outage \in Incidents
  BY Bounds DEF MonitorInv, Types, Times
<1>b. failures' \in 1 .. Patience
  BY <1>0, <1>a
<1>c. \/ /\ failures' = Patience /\ at' = "alerts" /\ key' = None
         /\ todo' = {Outage} /\ activeKeys' = {Outage} /\ clearing' = FALSE
      \/ failures' # Patience /\ UNCHANGED <<at, key, todo, activeKeys, clearing>>
  BY DEF PollFails, Begin, pass
<1>d. at = "sleep" /\ todo = {} /\ activeKeys = {} /\ ~clearing
  BY <1>0 DEF MonitorInv, PassInv
<1>e. ~clearing'
  BY <1>c, <1>d
<1>1. Types'
  <2>1. now' \in Times /\ failures' \in 0 .. Patience
    BY <1>0, <1>a, <1>b DEF Times
  <2>2. began' \in [Incidents -> Times]
    <3>1. began \in [Incidents -> Times] /\ now + 1 \in Times
      BY <1>0, <1>a DEF MonitorInv, Types, Times
    <3> QED
      BY <1>0, <3>1
  <2>3. /\ at' \in {"sleep", "alerts", "submit", "confirm"} /\ key' \in Incidents \cup {None}
        /\ todo' \subseteq Incidents /\ activeKeys' \subseteq Incidents /\ clearing' \in BOOLEAN
    BY <1>a, <1>c DEF MonitorInv, Types
  <2> QED
    BY <1>0, <2>1, <2>2, <2>3 DEF MonitorInv, Types
<1>2. PassInv'
  BY <1>0, <1>a, <1>c, <1>d DEF MonitorInv, PassInv
<1>3. RowInv'
  <2>1. \A k \in Incidents : row[k] # None => row[k] \in Rows
    BY DEF MonitorInv, Types
  <2> QED
    BY <1>0, <1>a, <2>1, Bounds DEF MonitorInv, RowInv, Ticks, Rows
<1>f. \A k \in Incidents : began'[k] = IF failures = 0 /\ k = Outage THEN now + 1 ELSE began[k]
  BY <1>0, <1>a
<1>g. \A k \in Incidents : began[k] <= now + 1 /\ (k = Outage => began[k] <= now) /\ began[k] \in Nat
  BY <1>a DEF MonitorInv, GoneInv
<1>4. TakenInv'
  <2> SUFFICES ASSUME NEW k \in Incidents, NEW s \in Ticks, Taken(k, s)
               PROVE  /\ row[k] # None /\ s <= row[k].first
                      /\ s <= Time(k, s) /\ Time(k, s) <= now + 1 /\ Incident(k, s) <= began'[k]
                      /\ s = row[k].first /\ row[k].submitted => Time(k, s) <= row[k].last
                      /\ s < row[k].first =>
                           Time(k, s) + Cooldown <= row[k].first /\ Incident(k, s) < began'[k]
    BY <1>0 DEF TakenInv, Taken, Time, Incident, Ticks
  <2>1. Time(k, s) \in Nat /\ Incident(k, s) \in Nat /\ began[k] <= began'[k] /\ began'[k] \in Nat
    BY <1>a, <1>f, <1>g, Numbers
  <2> QED
    BY <1>a, <1>f, <1>g, <2>1 DEF MonitorInv, TakenInv
<1>5. PairInv'
  BY <1>0 DEF MonitorInv, PairInv, Taken, Time, Incident, Ticks
<1>6. GoneInv'
  <2> SUFFICES ASSUME NEW k \in Incidents
               PROVE  /\ began'[k] <= now + 2 /\ (k = Outage => began'[k] <= now + 1)
                      /\ (row[k] # None /\ ~row[k].active) =>
                           \A s \in Ticks : Taken(k, s) =>
                             /\ Incident(k, s) <= now + 1
                             /\ k \in firing \cup todo' \/ k = Outage => Incident(k, s) < began'[k]
    BY <1>0, <1>a, <1>b, <1>e DEF GoneInv, Taken, Time, Incident, Ticks
  <2>1. ASSUME row[k] # None /\ ~row[k].active, NEW s \in Ticks, Taken(k, s)
        PROVE  /\ Incident(k, s) <= now /\ Incident(k, s) \in Nat
               /\ k \in firing \/ (k = Outage /\ failures > 0) => Incident(k, s) < began[k]
    BY <2>1, Numbers DEF MonitorInv, GoneInv
  <2>2. k \in todo' => k = Outage
    BY <1>c, <1>d
  <2>3. k = Outage => k \notin firing
    BY Bounds DEF MonitorInv, Types
  <2> QED
    BY <1>a, <1>f, <1>g, <2>1, <2>2, <2>3
<1> QED
  BY <1>1, <1>2, <1>3, <1>4, <1>5, <1>6 DEF MonitorInv

\* A kill: the pass is forgotten, the table stays.
LEMMA RestartStep ==
  ASSUME MonitorInv, Restart
  PROVE  MonitorInv'
<1>0. /\ UNCHANGED <<now, firing, row, requests, began, accepted>> /\ failures' = 0
      /\ at' = "sleep" /\ key' = None /\ todo' = {} /\ activeKeys' = {} /\ clearing' = FALSE
  BY DEF Restart, Sleep, history
<1>a. Patience \in Nat \ {0} /\ 0 \in 0 .. Patience
  BY Bounds
<1>1. Types'
  BY <1>0, <1>a DEF MonitorInv, Types
<1>2. PassInv' /\ RowInv'
  BY <1>0 DEF MonitorInv, PassInv, RowInv, Ticks
<1>3. TakenInv' /\ PairInv'
  BY <1>0 DEF MonitorInv, TakenInv, PairInv, Taken, Time, Incident, Ticks
<1>4. GoneInv'
  BY <1>0 DEF MonitorInv, GoneInv, Taken, Incident, Ticks
<1> QED
  BY <1>1, <1>2, <1>3, <1>4 DEF MonitorInv

\* An incident is recorded: a new one is a cooldown later than all that was taken of it.
LEMMA RecordStep ==
  ASSUME MonitorInv, NEW k \in Incidents, Record(k)
  PROVE  MonitorInv'
<1> DEFINE r == NextRow(k)
<1>0. /\ UNCHANGED <<now, firing, failures, activeKeys, clearing, requests, began, accepted>>
      /\ at = "alerts" /\ k \in todo /\ row' = [row EXCEPT ![k] = r] /\ todo' = todo \ {k}
      /\ \/ r.submitted /\ at' = at /\ key' = key
         \/ ~r.submitted /\ at' = "submit" /\ key' = k
  BY DEF Record, history
<1>a. /\ now \in 0 .. MaxTime /\ MaxTime \in Nat /\ Cooldown \in Nat \ {0}
      /\ row \in [Incidents -> Rows \cup {None}] /\ None \notin Rows
  BY Bounds DEF MonitorInv, Types, Times
<1>b. \/ /\ row[k] = None
         /\ r = [first |-> now, last |-> None, active |-> TRUE, submitted |-> FALSE,
                 evidence |-> now]
      \/ /\ row[k] # None /\ ~row[k].active /\ row[k].submitted /\ now - row[k].last >= Cooldown
         /\ r = [first |-> now, last |-> row[k].last, active |-> TRUE, submitted |-> FALSE,
                 evidence |-> now]
      \/ row[k] # None /\ r = [row[k] EXCEPT !.active = TRUE]
  BY DEF NextRow, NewRow
<1>c. row[k] # None => row[k] \in Rows
  BY <1>a
<1>d. r \in Rows /\ r.active
  <2>1. CASE row[k] = None
    <3>1. now \in Times
      BY <1>a DEF Times
    <3>2. r = [first |-> now, last |-> None, active |-> TRUE, submitted |-> FALSE,
               evidence |-> now]
      BY <1>b, <2>1
    <3> QED
      BY <3>1, <3>2 DEF Rows
  <2>2. CASE row[k] # None /\ r = [row[k] EXCEPT !.active = TRUE]
    BY <1>a, <1>c, <2>2 DEF Rows
  <2>3. CASE row[k] # None /\ r # [row[k] EXCEPT !.active = TRUE]
    <3>1. row[k].last \in Times \cup {None} /\ now \in Times
      BY <1>a, <1>c, <2>3 DEF Rows, Times
    <3>2. r = [first |-> now, last |-> row[k].last, active |-> TRUE, submitted |-> FALSE,
               evidence |-> now]
      BY <1>b, <2>3
    <3> QED
      BY <3>1, <3>2 DEF Rows
  <2> QED
    BY <2>1, <2>2, <2>3
<1>e. /\ r.evidence = r.first /\ (r.submitted => r.last \in Times /\ r.last <= now)
      /\ r.first \in 1 .. now
  <2>1. now > 0
    BY <1>0 DEF MonitorInv, PassInv
  <2> QED
    BY <1>a, <1>b, <1>c, <2>1 DEF MonitorInv, RowInv, Rows
<1>h. ASSUME NEW s \in Ticks, Taken(k, s)
      PROVE  /\ row[k] # None /\ s <= r.first
             /\ s = r.first /\ r.submitted => Time(k, s) <= r.last
             /\ s < r.first => Time(k, s) + Cooldown <= r.first /\ Incident(k, s) < began[k]
  <2>1. /\ row[k] # None /\ s <= row[k].first /\ s <= Time(k, s)
        /\ s = row[k].first /\ row[k].submitted => Time(k, s) <= row[k].last
        /\ s < row[k].first =>
             Time(k, s) + Cooldown <= row[k].first /\ Incident(k, s) < began[k]
    BY <1>h DEF MonitorInv, TakenInv
  <2>2. Time(k, s) \in Nat /\ Incident(k, s) \in Nat /\ began[k] \in Nat /\ s \in Nat
    BY <1>h, Numbers
  <2>3. CASE r = [row[k] EXCEPT !.active = TRUE]
    <3>1. r.first = row[k].first /\ r.last = row[k].last /\ r.submitted = row[k].submitted
      BY <1>c, <2>1, <2>3 DEF Rows
    <3> QED
      BY <2>1, <3>1
  <2>4. CASE /\ ~row[k].active /\ row[k].submitted /\ now - row[k].last >= Cooldown
             /\ r = [first |-> now, last |-> row[k].last, active |-> TRUE, submitted |-> FALSE,
                     evidence |-> now]
    <3>1. r.first = now /\ r.submitted = FALSE
      BY <2>4
    <3>2. row[k].last \in Nat /\ row[k].first \in Nat /\ row[k].first <= now
      BY <1>a, <1>c, <2>1, <2>4 DEF MonitorInv, RowInv, Times
    <3>3. Incident(k, s) < began[k]
      BY <1>0, <1>h, <2>1, <2>4 DEF MonitorInv, GoneInv
    <3>4. Time(k, s) + Cooldown <= now
      BY <1>a, <2>1, <2>2, <2>4, <3>2
    <3> QED
      BY <1>a, <2>1, <2>2, <3>1, <3>3, <3>4
  <2> QED
    BY <1>b, <2>1, <2>3, <2>4
<1> HIDE DEF r
<1>f. row' \in [Incidents -> Rows \cup {None}] /\ row'[k] = r /\ r # None
  BY <1>0, <1>a, <1>d
<1>g. \A l \in Incidents \ {k} : row'[l] = row[l]
  BY <1>0, <1>a
<1>1. Types'
  BY <1>0, <1>f DEF MonitorInv, Types
<1>2. PassInv'
  BY <1>0, <1>d, <1>f DEF MonitorInv, PassInv
<1>3. RowInv'
  BY <1>0, <1>e, <1>f, <1>g DEF MonitorInv, RowInv, Ticks
<1>4. TakenInv'
  <2> SUFFICES ASSUME NEW l \in Incidents, NEW s \in Ticks, Taken(l, s)
               PROVE  /\ row'[l] # None /\ s <= row'[l].first
                      /\ s <= Time(l, s) /\ Time(l, s) <= now /\ Incident(l, s) <= began[l]
                      /\ s = row'[l].first /\ row'[l].submitted => Time(l, s) <= row'[l].last
                      /\ s < row'[l].first =>
                           Time(l, s) + Cooldown <= row'[l].first /\ Incident(l, s) < began[l]
    BY <1>0 DEF TakenInv, Taken, Time, Incident, Ticks
  <2>1. s <= Time(l, s) /\ Time(l, s) <= now /\ Incident(l, s) <= began[l]
    BY DEF MonitorInv, TakenInv
  <2>2. CASE l = k
    BY <1>f, <1>h, <2>1, <2>2
  <2>3. CASE l # k
    BY <1>g, <2>3 DEF MonitorInv, TakenInv
  <2> QED
    BY <2>2, <2>3
<1>5. PairInv'
  BY <1>0 DEF MonitorInv, PairInv, Taken, Time, Incident, Ticks
<1>6. GoneInv'
  <2>1. k \in activeKeys
    BY <1>0 DEF MonitorInv, PassInv
  <2> SUFFICES ASSUME NEW l \in Incidents
               PROVE  /\ began[l] <= now + 1 /\ (l = Outage => began[l] <= now)
                      /\ (row'[l] # None /\ ~row'[l].active) \/ (clearing /\ l \notin activeKeys) =>
                           \A s \in Ticks : Taken(l, s) =>
                             /\ Incident(l, s) <= now
                             /\ l \in firing \cup (todo \ {k}) \/ (l = Outage /\ failures > 0) =>
                                  Incident(l, s) < began[l]
    BY <1>0 DEF GoneInv, Taken, Time, Incident, Ticks
  <2>2. CASE l = k
    BY <1>d, <1>f, <2>1, <2>2 DEF MonitorInv, GoneInv
  <2>3. CASE l # k
    BY <1>g, <2>3 DEF MonitorInv, GoneInv
  <2> QED
    BY <2>2, <2>3
<1> QED
  BY <1>1, <1>2, <1>3, <1>4, <1>5, <1>6 DEF MonitorInv

\* A submission: what is taken is the request of the row, or was taken already.
LEMMA SubmitStep ==
  ASSUME MonitorInv, Submit
  PROVE  MonitorInv'
<1> DEFINE f == row[key].first
           i == <<key, f>>
           a == [time |-> now, incident |-> began[key]]
<1>0. /\ UNCHANGED <<now, firing, failures, row, began>> /\ at = "submit"
      /\ \/ /\ requests' = [requests EXCEPT ![i] = row[key].evidence]
            /\ accepted' = IF accepted[i] # None THEN accepted
                           ELSE [accepted EXCEPT ![i] = a]
         \/ UNCHANGED <<requests, accepted>>
      /\ \/ /\ at' = "confirm" /\ UNCHANGED <<key, todo, activeKeys, clearing>>
            /\ requests' = [requests EXCEPT ![i] = row[key].evidence]
            /\ accepted' = IF accepted[i] # None THEN accepted
                           ELSE [accepted EXCEPT ![i] = a]
         \/ at' = "sleep" /\ key' = None /\ todo' = {} /\ activeKeys' = {} /\ clearing' = FALSE
  BY DEF Submit, Sleep, Instruction
<1>a. /\ now \in Times /\ began \in [Incidents -> Times] /\ key # None /\ key \in Incidents
      /\ key \in activeKeys /\ row[key] # None /\ row[key].active /\ ~row[key].submitted /\ now > 0
  <2>1. key # None
    <3>1. key \in activeKeys /\ activeKeys \subseteq Incidents
      BY <1>0 DEF MonitorInv, PassInv, Types
    <3> QED
      BY <3>1, Bounds
  <2> QED
    BY <1>0, <2>1 DEF MonitorInv, Types, PassInv
<1>b. /\ f \in 1 .. now /\ row[key].evidence = f /\ f \in Ticks /\ now \in Nat /\ f \in Times
      /\ i \in Ids
  <2>1. f \in 1 .. now /\ row[key].evidence = f
    BY <1>a DEF MonitorInv, RowInv
  <2>2. now \in 0 .. MaxTime /\ MaxTime \in Nat
    BY <1>a, Bounds
  <2> QED
    BY <1>a, <2>1, <2>2, Bounds DEF Ids, Ticks
<1>c. a \in Acceptances /\ a # None /\ a.time = now /\ a.incident = began[key]
  <2>1. a \in Acceptances
    BY <1>a DEF Acceptances
  <2> QED
    BY <2>1, Bounds
<1> HIDE DEF f, i, a
<1>d. \A k \in Incidents, s \in Ticks : <<k, s>> \in Ids /\ (<<k, s>> = i <=> k = key /\ s = f)
  BY DEF Ids, Ticks, i
<1>e. /\ requests \in [Ids -> Times \cup {None}]
      /\ accepted \in [Ids -> Acceptances \cup {None}]
  BY DEF MonitorInv, Types
<1>f. \A j \in Ids : /\ requests'[j] \in {requests[j], f} /\ (j # i => requests'[j] = requests[j])
                     /\ accepted'[j] \in {accepted[j], a}
                     /\ (accepted[j] # None => accepted'[j] = accepted[j])
                     /\ (j # i => accepted'[j] = accepted[j])
  BY <1>0, <1>b, <1>e
<1>g. /\ requests' \in [Ids -> Times \cup {None}]
      /\ accepted' \in [Ids -> Acceptances \cup {None}]
  BY <1>0, <1>b, <1>c, <1>e
<1>h. at' = "confirm" => accepted'[i] # None
  BY <1>0, <1>b, <1>c, <1>e
\* What is taken is what was taken, or the request that is submitted.
<1>i. ASSUME NEW k \in Incidents, NEW s \in Ticks, accepted'[<<k, s>>] # None
      PROVE  \/ Taken(k, s) /\ accepted'[<<k, s>>] = accepted[<<k, s>>]
             \/ k = key /\ s = f /\ ~Taken(k, s) /\ accepted'[<<k, s>>] = a
  BY <1>d, <1>f, <1>i DEF Taken
<1>1. Types'
  <2>1. /\ at' \in {"sleep", "alerts", "submit", "confirm"} /\ key' \in Incidents \cup {None}
        /\ todo' \subseteq Incidents /\ activeKeys' \subseteq Incidents /\ clearing' \in BOOLEAN
    BY <1>0 DEF MonitorInv, Types
  <2> QED
    BY <1>0, <1>g, <2>1 DEF MonitorInv, Types
<1>2. PassInv'
  <2>1. at' = "confirm" => Taken(key, row[key].first)'
    BY <1>0, <1>h DEF Taken, f, i
  <2> QED
    BY <1>0, <1>a, <2>1 DEF MonitorInv, PassInv
<1>3. RowInv'
  BY <1>0, <1>d, <1>f DEF MonitorInv, RowInv, Ticks
<1>4. TakenInv'
  <2> SUFFICES ASSUME NEW k \in Incidents, NEW s \in Ticks, accepted'[<<k, s>>] # None
               PROVE  /\ row[k] # None /\ s <= row[k].first
                      /\ s <= accepted'[<<k, s>>].time /\ accepted'[<<k, s>>].time <= now
                      /\ accepted'[<<k, s>>].incident <= began[k]
                      /\ s = row[k].first /\ row[k].submitted =>
                           accepted'[<<k, s>>].time <= row[k].last
                      /\ s < row[k].first =>
                           /\ accepted'[<<k, s>>].time + Cooldown <= row[k].first
                           /\ accepted'[<<k, s>>].incident < began[k]
    BY <1>0 DEF TakenInv, Taken, Time, Incident, Ticks
  <2>1. CASE Taken(k, s) /\ accepted'[<<k, s>>] = accepted[<<k, s>>]
    BY <2>1 DEF MonitorInv, TakenInv, Time, Incident
  <2>2. CASE k = key /\ s = f /\ accepted'[<<k, s>>] = a
    <3>1. began[key] \in Nat
      BY <1>a, Bounds
    <3> QED
      BY <1>a, <1>b, <1>c, <2>2, <3>1 DEF f
  <2> QED
    BY <1>i, <2>1, <2>2
<1>5. PairInv'
  <2> SUFFICES ASSUME NEW k \in Incidents, NEW s \in Ticks, NEW t \in Ticks, s < t,
                      accepted'[<<k, s>>] # None, accepted'[<<k, t>>] # None
               PROVE  /\ accepted'[<<k, s>>].time + Cooldown <= t
                      /\ accepted'[<<k, s>>].incident < accepted'[<<k, t>>].incident
    BY <1>0 DEF PairInv, Taken, Time, Incident, Ticks
  <2>1. CASE Taken(k, s) /\ accepted'[<<k, s>>] = accepted[<<k, s>>]
    <3>1. CASE Taken(k, t) /\ accepted'[<<k, t>>] = accepted[<<k, t>>]
      BY <2>1, <3>1 DEF MonitorInv, PairInv, Time, Incident
    <3>2. CASE k = key /\ t = f /\ accepted'[<<k, t>>] = a
      BY <1>c, <2>1, <3>2 DEF MonitorInv, TakenInv, Time, Incident, f
    <3> QED
      BY <1>i, <3>1, <3>2
  <2>2. CASE k = key /\ s = f /\ accepted'[<<k, s>>] = a
    <3>1. Taken(k, t)
      BY <1>b, <1>i, <2>2 DEF Ticks
    <3>2. t <= f
      BY <2>2, <3>1 DEF MonitorInv, TakenInv, f
    <3> QED
      BY <1>b, <2>2, <3>2 DEF Ticks
  <2> QED
    BY <1>i, <2>1, <2>2
<1>6. GoneInv'
  <2> SUFFICES ASSUME NEW k \in Incidents, NEW s \in Ticks, accepted'[<<k, s>>] # None,
                      (row[k] # None /\ ~row[k].active) \/ (clearing' /\ k \notin activeKeys')
               PROVE  /\ accepted'[<<k, s>>].incident <= now
                      /\ k \in firing \cup todo' \/ (k = Outage /\ failures > 0) =>
                           accepted'[<<k, s>>].incident < began[k]
    <3>1. \A k \in Incidents : began[k] <= now + 1 /\ (k = Outage => began[k] <= now)
      BY DEF MonitorInv, GoneInv
    <3> QED
      BY <1>0, <3>1 DEF GoneInv, Taken, Incident, Ticks
  <2>1. (row[k] # None /\ ~row[k].active) \/ (clearing /\ k \notin activeKeys)
    BY <1>0
  <2>2. k # key
    BY <1>a, <2>1
  <2>3. Taken(k, s) /\ accepted'[<<k, s>>] = accepted[<<k, s>>]
    BY <1>i, <2>2
  <2>4. todo' \subseteq todo
    BY <1>0
  <2> QED
    BY <2>1, <2>3, <2>4 DEF MonitorInv, GoneInv, Incident
<1> QED
  BY <1>1, <1>2, <1>3, <1>4, <1>5, <1>6 DEF MonitorInv

\* The submission is confirmed in the row.
LEMMA ConfirmStep ==
  ASSUME MonitorInv, Confirm
  PROVE  MonitorInv'
<1> DEFINE r == [row[key] EXCEPT !.submitted = TRUE, !.last = now]
<1>0. /\ UNCHANGED <<now, firing, failures, todo, activeKeys, clearing, requests, began, accepted>>
      /\ at = "confirm" /\ at' = "alerts" /\ key' = None /\ row' = [row EXCEPT ![key] = r]
  BY DEF Confirm, history
<1>a. /\ key \in Incidents /\ key \in activeKeys /\ row[key] \in Rows /\ row[key] # None /\ row[key].active
      /\ now \in Nat /\ now \in Times /\ now > 0
  <2>1. key \in activeKeys /\ activeKeys \subseteq Incidents /\ row[key] # None /\ row[key].active /\ now > 0
    BY <1>0 DEF MonitorInv, PassInv, Types
  <2>2. row[key] \in Rows
    BY <2>1 DEF MonitorInv, Types
  <2>3. now \in Times
    BY DEF MonitorInv, Types
  <2> QED
    BY <2>1, <2>2, <2>3, Bounds
<1>b. /\ r \in Rows /\ r.active = row[key].active /\ r.first = row[key].first
      /\ r.evidence = row[key].evidence /\ r.last = now /\ r.submitted
  BY <1>a DEF Rows
<1> HIDE DEF r
<1>c. /\ row' \in [Incidents -> Rows \cup {None}] /\ row'[key] = r /\ r # None
      /\ \A l \in Incidents \ {key} : row'[l] = row[l]
  BY <1>0, <1>a, <1>b, Bounds DEF MonitorInv, Types
<1>1. Types'
  BY <1>0, <1>c DEF MonitorInv, Types
<1>2. PassInv'
  BY <1>0, <1>a DEF MonitorInv, PassInv
<1>3. RowInv'
  <2> SUFFICES ASSUME NEW k \in Incidents
               PROVE  /\ row'[k] # None =>
                           row'[k].first \in 1 .. now /\ row'[k].evidence = row'[k].first
                      /\ row'[k] # None /\ row'[k].submitted =>
                           row'[k].last \in Times /\ row'[k].last <= now
                      /\ \A s \in Ticks : requests[<<k, s>>] \in {None, s}
    BY <1>0 DEF RowInv, Ticks, Times
  <2>1. CASE k = key
    BY <1>a, <1>b, <1>c, <2>1 DEF MonitorInv, RowInv
  <2>2. CASE k # key
    BY <1>c, <2>2 DEF MonitorInv, RowInv
  <2> QED
    BY <2>1, <2>2
<1>4. TakenInv'
  <2> SUFFICES ASSUME NEW l \in Incidents, NEW s \in Ticks, Taken(l, s)
               PROVE  /\ row'[l] # None /\ s <= row'[l].first
                      /\ s <= Time(l, s) /\ Time(l, s) <= now /\ Incident(l, s) <= began[l]
                      /\ s = row'[l].first /\ row'[l].submitted => Time(l, s) <= row'[l].last
                      /\ s < row'[l].first =>
                           Time(l, s) + Cooldown <= row'[l].first /\ Incident(l, s) < began[l]
    BY <1>0 DEF TakenInv, Taken, Time, Incident, Ticks
  <2>1. CASE l = key
    BY <1>b, <1>c, <2>1 DEF MonitorInv, TakenInv
  <2>2. CASE l # key
    BY <1>c, <2>2 DEF MonitorInv, TakenInv
  <2> QED
    BY <2>1, <2>2
<1>5. PairInv'
  BY <1>0 DEF MonitorInv, PairInv, Taken, Time, Incident, Ticks
<1>6. GoneInv'
  <2> SUFFICES ASSUME NEW l \in Incidents
               PROVE  /\ began[l] <= now + 1 /\ (l = Outage => began[l] <= now)
                      /\ (row'[l] # None /\ ~row'[l].active) \/ (clearing /\ l \notin activeKeys) =>
                           \A s \in Ticks : Taken(l, s) =>
                             /\ Incident(l, s) <= now
                             /\ l \in firing \cup todo \/ (l = Outage /\ failures > 0) =>
                                  Incident(l, s) < began[l]
    BY <1>0 DEF GoneInv, Taken, Time, Incident, Ticks
  <2>1. CASE l = key
    BY <1>a, <1>b, <1>c, <2>1 DEF MonitorInv, GoneInv
  <2>2. CASE l # key
    BY <1>c, <2>2 DEF MonitorInv, GoneInv
  <2> QED
    BY <2>1, <2>2
<1> QED
  BY <1>1, <1>2, <1>3, <1>4, <1>5, <1>6 DEF MonitorInv

\* The alerts that are gone are marked.
LEMMA ClearStep ==
  ASSUME MonitorInv, Clear
  PROVE  MonitorInv'
<1>0. /\ UNCHANGED <<now, firing, failures, requests, began, accepted>>
      /\ at' = "sleep" /\ key' = None /\ todo' = {} /\ activeKeys' = {} /\ clearing' = FALSE
      /\ row' = [k \in Incidents |->
                   IF clearing /\ row[k] # None /\ k \notin activeKeys
                     THEN [row[k] EXCEPT !.active = FALSE] ELSE row[k]]
  BY DEF Clear, Sleep, history
<1>a. ASSUME NEW k \in Incidents
      PROVE  /\ row'[k] \in Rows \cup {None} /\ (row'[k] # None <=> row[k] # None)
             /\ row[k] # None =>
                  /\ row'[k].first = row[k].first /\ row'[k].evidence = row[k].evidence
                  /\ row'[k].last = row[k].last /\ row'[k].submitted = row[k].submitted
                  /\ row'[k].active = row[k].active \/ (clearing /\ k \notin activeKeys)
  <2>1. row[k] \in Rows \cup {None}
    BY DEF MonitorInv, Types
  <2>2. CASE clearing /\ row[k] # None /\ k \notin activeKeys
    <3>1. row'[k] = [row[k] EXCEPT !.active = FALSE] /\ row[k] \in Rows
      BY <1>0, <2>1, <2>2
    <3>2. row'[k] \in Rows /\ row'[k].first = row[k].first /\ row'[k].evidence = row[k].evidence
          /\ row'[k].last = row[k].last /\ row'[k].submitted = row[k].submitted
      BY <3>1 DEF Rows
    <3> QED
      BY <2>2, <3>2, Bounds
  <2>3. CASE ~(clearing /\ row[k] # None /\ k \notin activeKeys)
    <3>1. row'[k] = row[k]
      BY <1>0, <2>3
    <3> QED
      BY <2>1, <3>1
  <2> QED
    BY <2>2, <2>3
<1>1. Types'
  <2>1. row' \in [Incidents -> Rows \cup {None}]
    BY <1>0, <1>a
  <2> QED
    BY <1>0, <2>1 DEF MonitorInv, Types
<1>2. PassInv'
  BY <1>0 DEF MonitorInv, PassInv
<1>3. RowInv'
  <2> SUFFICES ASSUME NEW k \in Incidents
               PROVE  /\ row'[k] # None =>
                           row'[k].first \in 1 .. now /\ row'[k].evidence = row'[k].first
                      /\ row'[k] # None /\ row'[k].submitted =>
                           row'[k].last \in Times /\ row'[k].last <= now
                      /\ \A s \in Ticks : requests[<<k, s>>] \in {None, s}
    BY <1>0 DEF RowInv, Ticks, Times
  <2> QED
    BY <1>a DEF MonitorInv, RowInv
<1>4. TakenInv'
  <2> SUFFICES ASSUME NEW l \in Incidents, NEW s \in Ticks, Taken(l, s)
               PROVE  /\ row'[l] # None /\ s <= row'[l].first
                      /\ s <= Time(l, s) /\ Time(l, s) <= now /\ Incident(l, s) <= began[l]
                      /\ s = row'[l].first /\ row'[l].submitted => Time(l, s) <= row'[l].last
                      /\ s < row'[l].first =>
                           Time(l, s) + Cooldown <= row'[l].first /\ Incident(l, s) < began[l]
    BY <1>0 DEF TakenInv, Taken, Time, Incident, Ticks
  <2> QED
    BY <1>a DEF MonitorInv, TakenInv
<1>5. PairInv'
  BY <1>0 DEF MonitorInv, PairInv, Taken, Time, Incident, Ticks
<1>6. GoneInv'
  <2> SUFFICES ASSUME NEW l \in Incidents
               PROVE  /\ began[l] <= now + 1 /\ (l = Outage => began[l] <= now)
                      /\ (row'[l] # None /\ ~row'[l].active) =>
                           \A s \in Ticks : Taken(l, s) =>
                             /\ Incident(l, s) <= now
                             /\ l \in firing \/ (l = Outage /\ failures > 0) =>
                                  Incident(l, s) < began[l]
    BY <1>0 DEF GoneInv, Taken, Time, Incident, Ticks
  <2>1. row'[l] # None /\ ~row'[l].active =>
          (row[l] # None /\ ~row[l].active) \/ (clearing /\ l \notin activeKeys)
    BY <1>a
  <2> QED
    BY <2>1 DEF MonitorInv, GoneInv
<1> QED
  BY <1>1, <1>2, <1>3, <1>4, <1>5, <1>6 DEF MonitorInv

-----------------------------------------------------------------------------
\* Nothing has been recorded or taken at first.
LEMMA MonitorStart ==
  ASSUME MonitorInit
  PROVE  MonitorInv
<1>1. 0 \in Times /\ 0 \in 0 .. Patience
  BY Bounds DEF Times
<1>2. Types
  BY <1>1 DEF MonitorInit, Types
<1>3. /\ \A k \in Incidents : row[k] = None
      /\ \A k \in Incidents, s \in Ticks : ~Taken(k, s) /\ requests[<<k, s>>] = None
  BY DEF MonitorInit, Taken, Ids, Ticks
<1>4. PassInv /\ RowInv /\ TakenInv /\ PairInv
  BY <1>3 DEF MonitorInit, PassInv, RowInv, TakenInv, PairInv
<1>5. GoneInv
  BY <1>3 DEF MonitorInit, GoneInv
<1> QED
  BY <1>2, <1>4, <1>5 DEF MonitorInv

\* Every step keeps the invariant.
LEMMA MonitorStep ==
  ASSUME MonitorInv, [MonitorNext]_monitorVars
  PROVE  MonitorInv'
<1>1. ASSUME NEW k \in Keys, Fire(k) \/ Resolve(k) PROVE MonitorInv'
  BY <1>1, FireStep, ResolveStep
<1>2. ASSUME NEW k \in Incidents, Record(k) PROVE MonitorInv'
  BY <1>2, RecordStep
<1>3. CASE Poll \/ PollFails
  BY <1>3, PollStep, PollFailsStep
<1>4. CASE Submit \/ Confirm
  BY <1>4, SubmitStep, ConfirmStep
<1>5. CASE Clear \/ Restart
  BY <1>5, ClearStep, RestartStep
<1>6. CASE UNCHANGED monitorVars
  <2>1. UNCHANGED <<now, firing, failures, row, at, key, todo, activeKeys, clearing, requests, began,
                    accepted>>
    BY <1>6 DEF monitorVars, pass, history
  <2>2. Types' /\ PassInv' /\ RowInv'
    BY <2>1 DEF MonitorInv, Types, PassInv, RowInv, Taken, Ticks
  <2>3. TakenInv' /\ PairInv' /\ GoneInv'
    BY <2>1 DEF MonitorInv, TakenInv, PairInv, GoneInv, Taken, Time, Incident, Ticks
  <2> QED
    BY <2>2, <2>3 DEF MonitorInv
<1> QED
  BY <1>1, <1>2, <1>3, <1>4, <1>5, <1>6 DEF MonitorNext

\* The invariant of the monitor's table, passes and requests.
THEOREM MonitorInvariance == MonitorSpec => []MonitorInv
<1>1. MonitorInit => MonitorInv
  BY MonitorStart
<1>2. MonitorInv /\ [MonitorNext]_monitorVars => MonitorInv'
  BY MonitorStep
<1> QED
  BY <1>1, <1>2, PTL DEF MonitorSpec

\* An incident is investigated once, and no submission is refused for another instruction,
\* for any alerts, cooldown and patience (stack_alert_monitor.py: process_alerts).
THEOREM OneInvestigation == MonitorSpec => []Investigations
<1>1. MonitorInv => Investigations
  <2> SUFFICES ASSUME MonitorInv PROVE Investigations
    OBVIOUS
  <2>1. ASSUME NEW k \in Incidents, NEW s \in 1 .. MaxTime, NEW t \in 1 .. MaxTime,
               s < t, accepted[<<k, s>>] # None, accepted[<<k, t>>] # None
        PROVE  /\ accepted[<<k, s>>].incident # accepted[<<k, t>>].incident
               /\ accepted[<<k, t>>].time - accepted[<<k, s>>].time >= Cooldown
    <3>1. s \in Ticks /\ t \in Ticks /\ Taken(k, s) /\ Taken(k, t)
      BY <2>1 DEF Ticks, Taken
    <3>2. /\ Time(k, s) \in Nat /\ Incident(k, s) \in Nat
          /\ Time(k, t) \in Nat /\ Incident(k, t) \in Nat /\ t \in Nat /\ Cooldown \in Nat
      BY <3>1, Numbers, Bounds
    <3>3. Time(k, s) + Cooldown <= t /\ Incident(k, s) < Incident(k, t) /\ t <= Time(k, t)
      BY <2>1, <3>1 DEF MonitorInv, PairInv, TakenInv
    <3> QED
      BY <3>2, <3>3 DEF Time, Incident
  <2>2. at = "submit" => requests[<<key, row[key].first>>] \in {None, Instruction(key)}
    <3> SUFFICES ASSUME at = "submit"
                 PROVE  requests[<<key, row[key].first>>] \in {None, Instruction(key)}
      OBVIOUS
    <3>1. key \in Incidents /\ row[key] # None
      BY DEF MonitorInv, PassInv, Types
    <3>2. row[key].first \in 1 .. now /\ row[key].evidence = row[key].first
      BY <3>1 DEF MonitorInv, RowInv
    <3>3. now \in 0 .. MaxTime /\ MaxTime \in Nat
      BY Bounds DEF MonitorInv, Types
    <3>4. row[key].first \in Ticks
      BY <3>2, <3>3 DEF Ticks
    <3> QED
      BY <3>1, <3>2, <3>4 DEF MonitorInv, RowInv, Instruction
  <2> QED
    BY <2>1, <2>2 DEF Investigations
<1> QED
  BY <1>1, MonitorInvariance, PTL

-----------------------------------------------------------------------------
(* The lock of the store.                                                  *)

\* From mkdir to the end of release a process takes the lock for its own.
Holding == StoreOpen \cup {"write", "open", "relread", "relrm"}

\* Once a process has made the directory it never waits for the lock again.
Past == Holding \cup {"exited", "dead"}

\* One process holds the lock, and the directory is the one that it made.
HoldInv ==
  /\ \A p, q \in Procs : pc[p] \in Holding /\ pc[q] \in Holding => p = q
  /\ \A p \in Procs : pc[p] \in Holding =>
       lockDir /\ lockPid = IF pc[p] = "write" THEN NoPid ELSE p

\* What a process that waits for the lock may conclude from what it finds: who made the
\* directory or wrote a pid is past the lock, a directory that is about to get its pid is
\* young, and a process that reclaims has seen another one gone.
WaitInv ==
  /\ lockDir => \E q \in Procs : pc[q] \in Past
  /\ lockPid # NoPid => lockPid \in Procs /\ pc[lockPid] \in Past
  /\ \A p \in Procs :
       /\ pc[p] = "probe" => seen[p] \in Procs /\ pc[seen[p]] \in Past
       /\ pc[p] = "reclaim" => \E q \in Procs : pc[q] \in {"exited", "dead"}
       /\ pc[p] = "write" => fresh
       /\ pc[p] = "stat" /\ (\E q \in Procs : pc[q] \in Holding) => fresh

\* A lock is removed only if nobody holds it.
ReclaimsDead ==
  \A p \in Procs : Reclaim(p) => \A q \in Procs : pc[q] \notin Holding

\* What is needed of the types.
LeaseTypes ==
  /\ lockPid \in Procs \cup {NoPid} /\ pc \in [Procs -> Points]
  /\ seen \in [Procs -> Procs \cup {NoPid}]

LEMMA LeaseInit == Init => LeaseTypes /\ HoldInv /\ WaitInv /\ SocketIsServed
  BY LeaseAssumption DEF Init, LeaseTypes, HoldInv, WaitInv, SocketIsServed, Holding, StoreOpen,
                         Points, Gone

\* Every step is one process's, but for the passing of time.
LEMMA LeaseNext ==
  ASSUME LeaseTypes, Next
  PROVE  LeaseTypes'
<1> USE DEF LeaseTypes, Points, Gone, Acquiring, StoreOpen, Goto, lockVars
<1>1. ASSUME NEW p \in Procs, Start(p) \/ Crash(p)
      PROVE  LeaseTypes'
  BY <1>1 DEF Start, Crash
<1>2. ASSUME NEW p \in Procs, Acquire(p)
      PROVE  LeaseTypes'
  BY <1>2 DEF Acquire, Mkdir, WritePid, ReadPid, StatLock, Probe, Reclaim, NextRound, RemoveLock
<1>3. ASSUME NEW p \in Procs, Serve(p)
      PROVE  LeaseTypes'
  BY <1>3 DEF Serve, OpenStore, RemoveSocket, Listen, Stop, Unbind, CloseStore, ReleaseRead,
              ReleaseRemove, RemoveLock
<1>4. CASE Age
  BY <1>4 DEF Age
<1> QED BY <1>1, <1>2, <1>3, <1>4 DEF Next

\* A process goes on while the lock stays as it is: it makes nobody a holder and asks for
\* nothing that it would have to know.
LEMMA HoldMove ==
  ASSUME LeaseTypes, HoldInv, NEW p \in Procs, NEW s, Goto(p, s), UNCHANGED lockVars,
         s \in Holding => pc[p] \in Holding \ {"write"} /\ s # "write"
  PROVE  HoldInv'
  BY DEF LeaseTypes, HoldInv, Goto, lockVars

LEMMA WaitMove ==
  ASSUME LeaseTypes, WaitInv, NEW p \in Procs, NEW s, Goto(p, s), UNCHANGED <<lockVars, seen>>,
         s \in Holding => pc[p] \in Holding,
         pc[p] \in Past => s \in Past,
         pc[p] \in {"exited", "dead"} => s \in {"exited", "dead"},
         s \notin {"probe", "reclaim", "write", "stat"}
  PROVE  WaitInv'
<1>1. \A q \in Procs : pc'[q] = IF q = p THEN s ELSE pc[q]
  BY DEF LeaseTypes, Goto
<1>2. lockDir' = lockDir /\ lockPid' = lockPid /\ fresh' = fresh /\ seen' = seen
  BY DEF lockVars
<1>3. \A q \in Procs : pc[q] \in Past => pc'[q] \in Past
  BY <1>1
<1>4. \A q \in Procs : pc'[q] \in Holding => pc[q] \in Holding
  BY <1>1
<1> QED BY <1>1, <1>2, <1>3, <1>4 DEF WaitInv

\* The lock that a holder removes is its own, and another's only if its holder is gone.
LEMMA HoldAcquire ==
  ASSUME LeaseTypes, HoldInv, ReclaimsDead, NEW p \in Procs, Acquire(p)
  PROVE  HoldInv'
<1>1. CASE Mkdir(p)
  <2>1. CASE lockDir
    BY <1>1, <2>1, HoldMove DEF Mkdir, Holding, StoreOpen
  <2>2. CASE ~lockDir
    <3>1. \A q \in Procs : pc[q] \notin Holding
      BY <2>2 DEF HoldInv
    <3>2. /\ lockDir' /\ lockPid' = NoPid /\ pc'[p] = "write"
          /\ \A q \in Procs : q # p => pc'[q] = pc[q]
      BY <1>1, <2>2 DEF Mkdir, Goto, LeaseTypes
    <3> QED BY <3>1, <3>2 DEF HoldInv
  <2> QED BY <2>1, <2>2
<1>2. CASE WritePid(p)
  <2>1. pc[p] = "write" /\ lockDir /\ \A q \in Procs : q # p => pc[q] \notin Holding
    BY <1>2 DEF WritePid, HoldInv, Holding
  <2>2. /\ lockDir' /\ lockPid' = p /\ pc'[p] = "open"
        /\ \A q \in Procs : q # p => pc'[q] = pc[q]
    BY <1>2, <2>1 DEF WritePid, Goto, LeaseTypes
  <2> QED BY <2>1, <2>2 DEF HoldInv
<1>3. CASE ReadPid(p)
  BY <1>3, HoldMove DEF ReadPid, Holding, StoreOpen
<1>4. CASE StatLock(p)
  BY <1>4, HoldMove DEF StatLock, Holding, StoreOpen
<1>5. CASE Probe(p)
  BY <1>5, HoldMove DEF Probe, NextRound, Holding, StoreOpen
<1>6. CASE Reclaim(p)
  <2>1. \A q \in Procs : pc[q] \notin Holding
    BY <1>6 DEF ReclaimsDead
  <2>2. pc'[p] \in {"mkdir", "exited"} /\ \A q \in Procs : q # p => pc'[q] = pc[q]
    BY <1>6 DEF Reclaim, NextRound, Goto, LeaseTypes
  <2> QED BY <2>1, <2>2 DEF HoldInv, Holding, StoreOpen
<1> QED BY <1>1, <1>2, <1>3, <1>4, <1>5, <1>6 DEF Acquire

LEMMA HoldServe ==
  ASSUME LeaseTypes, HoldInv, NEW p \in Procs, Serve(p)
  PROVE  HoldInv'
<1>1. CASE OpenStore(p)
  BY <1>1, HoldMove DEF OpenStore, Holding, StoreOpen
<1>2. CASE RemoveSocket(p)
  BY <1>2, HoldMove DEF RemoveSocket, Holding, StoreOpen
<1>3. CASE Listen(p)
  BY <1>3, HoldMove DEF Listen, Holding, StoreOpen
<1>4. CASE Stop(p)
  BY <1>4, HoldMove DEF Stop, Holding, StoreOpen
<1>5. CASE Unbind(p)
  BY <1>5, HoldMove DEF Unbind, Holding, StoreOpen
<1>6. CASE CloseStore(p)
  BY <1>6, HoldMove DEF CloseStore, Holding, StoreOpen
<1>7. CASE ReleaseRead(p)
  BY <1>7, HoldMove DEF ReleaseRead, Holding, StoreOpen
<1>8. CASE ReleaseRemove(p)
  <2>1. \A q \in Procs : q # p => pc[q] \notin Holding
    BY <1>8 DEF ReleaseRemove, HoldInv, Holding
  <2>2. pc'[p] = "exited" /\ \A q \in Procs : q # p => pc'[q] = pc[q]
    BY <1>8 DEF ReleaseRemove, Goto, LeaseTypes
  <2> QED BY <2>1, <2>2 DEF HoldInv, Holding, StoreOpen
<1> QED BY <1>1, <1>2, <1>3, <1>4, <1>5, <1>6, <1>7, <1>8 DEF Serve

LEMMA HoldNext ==
  ASSUME LeaseTypes, HoldInv, ReclaimsDead, Next
  PROVE  HoldInv'
<1>1. ASSUME NEW p \in Procs, Start(p) \/ Crash(p)
      PROVE  HoldInv'
  BY <1>1, HoldMove DEF Start, Crash, Holding, StoreOpen
<1>2. CASE Age
  BY <1>2 DEF Age, HoldInv
<1> QED BY <1>1, <1>2, HoldAcquire, HoldServe DEF Next

\* A step that leaves the socket to the process that serves.
LEMMA SocketNext ==
  ASSUME LeaseTypes, OneStoreOwner, SocketIsServed, Next
  PROVE  SocketIsServed'
<1>1. ASSUME NEW p \in Procs, NEW s, Goto(p, s), s # "serving", UNCHANGED socket
      PROVE  SocketIsServed'
  BY <1>1 DEF SocketIsServed, Goto, LeaseTypes
\* Who removes the path, or finds it free, is the only one with the store open.
<1>2. ASSUME NEW p \in Procs, NEW s, Goto(p, s), pc[p] \in StoreOpen \ {"serving"},
             s = "serving" => socket' = p
      PROVE  SocketIsServed'
  <2>1. \A q \in Procs : q # p => pc'[q] # "serving"
    BY <1>2 DEF OneStoreOwner, StoreOpen, Goto, LeaseTypes
  <2>2. pc'[p] = s
    BY <1>2 DEF Goto, LeaseTypes
  <2> QED BY <1>2, <2>1, <2>2 DEF SocketIsServed
<1>3. ASSUME NEW p \in Procs, Start(p) \/ Crash(p)
      PROVE  SocketIsServed'
  BY <1>3, <1>1 DEF Start, Crash
<1>4. ASSUME NEW p \in Procs, Acquire(p)
      PROVE  SocketIsServed'
  BY <1>4, <1>1 DEF Acquire, Mkdir, WritePid, ReadPid, StatLock, Probe, Reclaim, NextRound
<1>5. ASSUME NEW p \in Procs, RemoveSocket(p) \/ Listen(p) \/ Unbind(p)
      PROVE  SocketIsServed'
  BY <1>5, <1>2 DEF RemoveSocket, Listen, Unbind, StoreOpen
<1>6. ASSUME NEW p \in Procs,
             \/ OpenStore(p) \/ Stop(p) \/ CloseStore(p) \/ ReleaseRead(p) \/ ReleaseRemove(p)
      PROVE  SocketIsServed'
  BY <1>6, <1>1 DEF OpenStore, Stop, CloseStore, ReleaseRead, ReleaseRemove
<1>7. CASE Age
  BY <1>7 DEF Age, SocketIsServed
<1> QED BY <1>3, <1>4, <1>5, <1>6, <1>7 DEF Next, Serve

-----------------------------------------------------------------------------
(* Two processes: none can reclaim under the other.                        *)

AtMostTwo == \A p, q, r \in Procs : p = q \/ q = r \/ p = r

\* With two processes, the one that was seen gone is the only other one.
LEMMA NobodyReclaimed ==
  ASSUME AtMostTwo, WaitInv
  PROVE  ReclaimsDead
<1> SUFFICES ASSUME NEW p \in Procs, Reclaim(p), NEW q \in Procs, pc[q] \in Holding
             PROVE  FALSE
  BY DEF ReclaimsDead
<1>1. pc[p] = "reclaim"
  BY DEF Reclaim
<1>2. PICK r \in Procs : pc[r] \in {"exited", "dead"}
  BY <1>1 DEF WaitInv
<1>3. p # q /\ q # r /\ p # r
  BY <1>1, <1>2 DEF Holding, StoreOpen
<1> QED BY <1>3 DEF AtMostTwo

LEMMA WaitAcquire ==
  ASSUME LeaseTypes, HoldInv, WaitInv, ReclaimsDead, NEW p \in Procs, Acquire(p)
  PROVE  WaitInv'
<1>1. CASE Mkdir(p)
  <2>1. CASE lockDir
    BY <1>1, <2>1, WaitMove DEF Mkdir, Holding, Past, StoreOpen
  <2>2. CASE ~lockDir
    <3>1. /\ lockDir' /\ lockPid' = NoPid /\ fresh' /\ pc'[p] = "write" /\ seen' = seen
          /\ \A q \in Procs : q # p => pc'[q] = pc[q]
      BY <1>1, <2>2 DEF Mkdir, Goto, LeaseTypes
    <3>2. pc[p] = "mkdir" /\ pc[p] \notin Past
      BY <1>1 DEF Mkdir, Past, Holding, StoreOpen
    <3>3. \A q \in Procs : pc[q] \in Past => pc'[q] \in Past
      BY <3>1, <3>2
    <3>4. pc'[p] \in Past
      BY <3>1 DEF Past, Holding
    <3> QED BY <3>1, <3>2, <3>3, <3>4 DEF WaitInv
  <2> QED BY <2>1, <2>2
<1>2. CASE WritePid(p)
  <2>1. pc[p] = "write" /\ lockDir /\ lockPid = NoPid /\ fresh
    BY <1>2 DEF WritePid, HoldInv, WaitInv, Holding
  <2>2. /\ lockDir' /\ lockPid' = p /\ fresh' /\ pc'[p] = "open" /\ seen' = seen
        /\ \A q \in Procs : q # p => pc'[q] = pc[q]
    BY <1>2, <2>1 DEF WritePid, Goto, LeaseTypes
  <2>3. pc'[p] \in Past /\ \A q \in Procs : pc[q] \in Past => pc'[q] \in Past
    BY <2>2 DEF Past, Holding
  <2> QED BY <2>1, <2>2, <2>3 DEF WaitInv
<1>3. CASE ReadPid(p)
  <2>1. /\ UNCHANGED lockVars /\ pc'[p] = IF lockPid = NoPid THEN "stat" ELSE "probe"
        /\ seen'[p] = lockPid
        /\ \A q \in Procs : q # p => pc'[q] = pc[q] /\ seen'[q] = seen[q]
    BY <1>3 DEF ReadPid, Goto, LeaseTypes
  <2>2. pc[p] = "read" /\ pc[p] \notin Past
    BY <1>3 DEF ReadPid, Past, Holding, StoreOpen
  <2>3. pc'[p] \notin Holding /\ \A q \in Procs : pc[q] \in Past => pc'[q] \in Past
    BY <2>1, <2>2 DEF Holding, StoreOpen
\* An empty pid file of a holder: it is about to write it.
  <2>4. lockPid = NoPid /\ (\E q \in Procs : pc[q] \in Holding) => fresh
    BY LeaseAssumption DEF HoldInv, WaitInv
  <2> QED BY <2>1, <2>2, <2>3, <2>4 DEF WaitInv, lockVars
<1>4. CASE StatLock(p)
  <2>1. pc[p] = "stat" /\ UNCHANGED <<lockVars, seen>>
    BY <1>4 DEF StatLock
  <2>2. CASE ~lockDir \/ fresh
    BY <1>4, <2>1, <2>2, WaitMove DEF StatLock, Holding, Past, StoreOpen
  <2>3. CASE lockDir /\ ~fresh
    <3>1. pc'[p] = "reclaim" /\ \A q \in Procs : q # p => pc'[q] = pc[q]
      BY <1>4, <2>3 DEF StatLock, Goto, LeaseTypes
    <3>2. PICK q \in Procs : pc[q] \in Past
      BY <2>3 DEF WaitInv
    <3>3. pc[q] \in {"exited", "dead"} /\ q # p
      BY <2>1, <2>3, <3>2 DEF WaitInv, Past, Holding, StoreOpen
    <3>4. pc'[q] \in {"exited", "dead"}
      BY <3>1, <3>3
    <3>5. /\ \A r \in Procs : pc[r] \in Past => pc'[r] \in Past
          /\ \A r \in Procs : pc'[r] \in Holding => pc[r] \in Holding
          /\ \A r \in Procs : pc[r] \in {"exited", "dead"} => pc'[r] \in {"exited", "dead"}
      BY <2>1, <3>1 DEF Past, Holding, StoreOpen
    <3> QED BY <2>1, <3>1, <3>4, <3>5 DEF WaitInv, lockVars
  <2> QED BY <2>2, <2>3
<1>5. CASE Probe(p)
  <2>1. pc[p] = "probe" /\ UNCHANGED <<lockVars, seen>>
    BY <1>5 DEF Probe
  <2>2. CASE Live(seen[p])
    BY <1>5, <2>1, <2>2, WaitMove DEF Probe, NextRound, Holding, Past, StoreOpen
  <2>3. CASE ~Live(seen[p])
    <3>1. pc'[p] = "reclaim" /\ \A q \in Procs : q # p => pc'[q] = pc[q]
      BY <1>5, <2>3 DEF Probe, Goto, LeaseTypes
    <3>2. seen[p] \in Procs /\ pc[seen[p]] \in {"exited", "dead"}
      BY <2>1, <2>3 DEF WaitInv, Past, Holding, StoreOpen, Live, Gone
    <3>3. pc'[seen[p]] \in {"exited", "dead"}
      BY <2>1, <3>1, <3>2
    <3>5. /\ \A r \in Procs : pc[r] \in Past => pc'[r] \in Past
          /\ \A r \in Procs : pc'[r] \in Holding => pc[r] \in Holding
          /\ \A r \in Procs : pc[r] \in {"exited", "dead"} => pc'[r] \in {"exited", "dead"}
      BY <2>1, <3>1 DEF Past, Holding, StoreOpen
    <3> QED BY <2>1, <3>1, <3>2, <3>3, <3>5 DEF WaitInv, lockVars
  <2> QED BY <2>2, <2>3
<1>6. CASE Reclaim(p)
  <2>1. \A q \in Procs : pc[q] \notin Holding
    BY <1>6 DEF ReclaimsDead
  <2>2. /\ pc[p] = "reclaim" /\ pc'[p] \in {"mkdir", "exited"} /\ seen' = seen
        /\ ~lockDir' /\ lockPid' = NoPid /\ \A q \in Procs : q # p => pc'[q] = pc[q]
    BY <1>6 DEF Reclaim, RemoveLock, NextRound, Goto, LeaseTypes
  <2>3. /\ \A r \in Procs : pc[r] \in Past => pc'[r] \in Past
        /\ \A r \in Procs : pc'[r] \notin Holding
        /\ \A r \in Procs : pc[r] \in {"exited", "dead"} => pc'[r] \in {"exited", "dead"}
    BY <2>1, <2>2 DEF Past, Holding, StoreOpen
  <2> QED BY <2>2, <2>3 DEF WaitInv, Holding
<1> QED BY <1>1, <1>2, <1>3, <1>4, <1>5, <1>6 DEF Acquire

LEMMA WaitServe ==
  ASSUME LeaseTypes, HoldInv, WaitInv, NEW p \in Procs, Serve(p)
  PROVE  WaitInv'
<1> USE DEF Holding, Past, StoreOpen
<1>1. CASE OpenStore(p)
  BY <1>1, WaitMove DEF OpenStore
<1>2. CASE RemoveSocket(p)
  BY <1>2, WaitMove DEF RemoveSocket
<1>3. CASE Listen(p)
  BY <1>3, WaitMove DEF Listen
<1>4. CASE Stop(p)
  BY <1>4, WaitMove DEF Stop
<1>5. CASE Unbind(p)
  BY <1>5, WaitMove DEF Unbind
<1>6. CASE CloseStore(p)
  BY <1>6, WaitMove DEF CloseStore
<1>7. CASE ReleaseRead(p)
  BY <1>7, WaitMove DEF ReleaseRead
<1>8. CASE ReleaseRemove(p)
  <2>1. \A q \in Procs : q # p => pc[q] \notin Holding
    BY <1>8 DEF ReleaseRemove, HoldInv
  <2>2. /\ pc'[p] = "exited" /\ pc[p] = "relrm" /\ seen' = seen /\ ~lockDir' /\ lockPid' = NoPid
        /\ \A q \in Procs : q # p => pc'[q] = pc[q]
    BY <1>8 DEF ReleaseRemove, RemoveLock, Goto, LeaseTypes
  <2>3. /\ \A r \in Procs : pc[r] \in Past => pc'[r] \in Past
        /\ \A r \in Procs : pc'[r] \notin Holding
        /\ \A r \in Procs : pc[r] \in {"exited", "dead"} => pc'[r] \in {"exited", "dead"}
    BY <2>1, <2>2
  <2> QED BY <2>2, <2>3 DEF WaitInv
<1> QED BY <1>1, <1>2, <1>3, <1>4, <1>5, <1>6, <1>7, <1>8 DEF Serve

LEMMA WaitNext ==
  ASSUME PromptSteps, AtMostTwo, LeaseTypes, HoldInv, WaitInv, Next
  PROVE  WaitInv'
<1>1. ReclaimsDead
  BY NobodyReclaimed
<1>2. ASSUME NEW p \in Procs, Start(p)
      PROVE  WaitInv'
  BY <1>2, WaitMove DEF Start, Holding, Past, StoreOpen
<1>3. ASSUME NEW p \in Procs, Crash(p)
      PROVE  WaitInv'
  BY <1>3, WaitMove DEF Crash, Holding, Past, StoreOpen
<1>4. CASE Age
  BY <1>4 DEF Age, WaitInv
<1> QED BY <1>1, <1>2, <1>3, <1>4, WaitAcquire, WaitServe DEF Next

LEMMA TwoAtMost ==
  ASSUME Cardinality(Procs) <= 2
  PROVE  AtMostTwo
<1> SUFFICES ASSUME NEW p \in Procs, NEW q \in Procs, NEW r \in Procs, p # q, q # r, p # r
             PROVE  FALSE
  BY DEF AtMostTwo
<1>1. IsFiniteSet({p}) /\ Cardinality({p}) = 1
  BY FS_Singleton
<1>2. IsFiniteSet({p} \cup {q}) /\ Cardinality({p} \cup {q}) = 2
  BY <1>1, FS_AddElement
<1>3. Cardinality(({p} \cup {q}) \cup {r}) = 3
  BY <1>2, FS_AddElement
<1>4. ({p} \cup {q}) \cup {r} \subseteq Procs
  OBVIOUS
<1>5. Cardinality(({p} \cup {q}) \cup {r}) <= Cardinality(Procs) /\ Cardinality(Procs) \in Nat
  BY <1>4, LeaseAssumption, FS_Subset, FS_CardinalityType
<1> QED BY <1>3, <1>5

-----------------------------------------------------------------------------
(* The theorems about the lock.                                            *)

\* Nothing in lease.ts or owner-server.ts but a reclaim of a lock that is held lets two
\* processes open the store: for any number of processes, kills and stalls, if every reclaim
\* meets a lock that nobody holds, one process has the store open.
THEOREM OnlyReclaimRaces == Spec /\ [][ReclaimsDead]_vars => []OneStoreOwner
<1>1. Init => LeaseTypes /\ HoldInv
  BY LeaseInit
<1>2. LeaseTypes /\ HoldInv /\ [Next]_vars /\ [ReclaimsDead]_vars => (LeaseTypes /\ HoldInv)'
  <2> SUFFICES ASSUME LeaseTypes, HoldInv, [Next]_vars, [ReclaimsDead]_vars
               PROVE  LeaseTypes' /\ HoldInv'
    OBVIOUS
  <2>1. CASE UNCHANGED vars
    BY <2>1 DEF vars, lockVars, LeaseTypes, HoldInv
  <2>2. CASE Next /\ ReclaimsDead
    BY <2>2, LeaseNext, HoldNext
  <2> QED BY <2>1, <2>2
<1>3. HoldInv => OneStoreOwner
  BY DEF HoldInv, OneStoreOwner, Holding
<1> QED BY <1>1, <1>2, <1>3, PTL DEF Spec

\* Two owner processes, one that serves and one that launchd starts or an operator starts by
\* hand, never have the store open together, wherever they are killed, as long as neither
\* stalls for two seconds between two steps of taking the lock.
THEOREM TwoProcesses ==
  ASSUME Cardinality(Procs) <= 2, PromptSteps
  PROVE  Spec => []OneStoreOwner
<1>1. Init => LeaseTypes /\ HoldInv /\ WaitInv
  BY LeaseInit
<1>2. LeaseTypes /\ HoldInv /\ WaitInv /\ [Next]_vars => (LeaseTypes /\ HoldInv /\ WaitInv)'
  <2> SUFFICES ASSUME LeaseTypes, HoldInv, WaitInv, [Next]_vars
               PROVE  LeaseTypes' /\ HoldInv' /\ WaitInv'
    OBVIOUS
  <2>1. CASE UNCHANGED vars
    BY <2>1 DEF vars, lockVars, LeaseTypes, HoldInv, WaitInv
  <2>2. CASE Next
    BY <2>2, TwoAtMost, NobodyReclaimed, LeaseNext, HoldNext, WaitNext
  <2> QED BY <2>1, <2>2
<1>3. HoldInv => OneStoreOwner
  BY DEF HoldInv, OneStoreOwner, Holding
<1> QED BY <1>1, <1>2, <1>3, PTL DEF Spec

\* An owner that serves is reached under the path, although each removes it blindly: for any
\* number of processes, as long as one process at a time has the store open.
THEOREM ServedSocket == Spec /\ []OneStoreOwner => []SocketIsServed
<1>1. Init => LeaseTypes /\ SocketIsServed
  BY LeaseInit
<1>2. LeaseTypes /\ SocketIsServed /\ OneStoreOwner /\ [Next]_vars
        => (LeaseTypes /\ SocketIsServed)'
  <2> SUFFICES ASSUME LeaseTypes, SocketIsServed, OneStoreOwner, [Next]_vars
               PROVE  LeaseTypes' /\ SocketIsServed'
    OBVIOUS
  <2>1. CASE UNCHANGED vars
    BY <2>1 DEF vars, lockVars, LeaseTypes, SocketIsServed
  <2>2. CASE Next
    BY <2>2, LeaseNext, SocketNext
  <2> QED BY <2>1, <2>2
<1> QED BY <1>1, <1>2, PTL DEF Spec
===============================================================================
