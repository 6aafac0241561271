---------------------------- MODULE AlertMonitor ----------------------------
(***************************************************************************)
(* tools/ops/stack_alert_monitor.py: once a minute the host's monitor      *)
(* reads the alerts that fire and submits an investigation of each to the  *)
(* task owner, under an ID made from the alert and the time it was first   *)
(* seen.  What it has done is kept in SQLite: it may be killed at any      *)
(* point, the owner may not answer, and the first alert whose submission   *)
(* fails ends the pass.                                                    *)
(*                                                                         *)
(* An instruction is modelled by the time its evidence was collected, the  *)
(* owner by the instruction that each request ID is bound to (TaskOwner).  *)
(***************************************************************************)
EXTENDS Integers

CONSTANTS
  Keys,         \* incident_key of the managed alerts
  Outage,       \* the monitor's own alert: Grafana cannot be read
  None,
  Cooldown,     \* polls from a submission until another incident (30 minutes)
  Patience,     \* failed polls until Outage (3)
  MaxTime       \* bound: polls

\* Rows of the incidents table; what the owner took, and for which incident.
Times == 0 .. MaxTime
Rows == [first : Times, last : Times \cup {None}, active : BOOLEAN, submitted : BOOLEAN,
         evidence : Times]
Acceptances == [time : Times, incident : Times]

ASSUME MonitorAssumption ==
  /\ Outage \notin Keys /\ None \notin Keys \cup {Outage}
  /\ {Cooldown, Patience, MaxTime} \subseteq Nat \ {0}
  /\ None \notin Times \cup Rows \cup Acceptances

VARIABLES
  now,        \* the time of the last poll
  firing,     \* the alerts that fire
  failures,   \* grafana_failures
  row,        \* the incidents table, None where there is no row
  at, key,    \* where process_alerts stands, and with which alert
  todo, activeKeys,   \* the alerts of this pass that are left; active_keys
  clearing,   \* clear_missing
  requests,   \* the owner: the instruction that each request ID is bound to
  began,      \* history: when each alert began to fire last
  accepted    \* history: when the owner took each request, and the incident then

pass == <<at, key, todo, activeKeys, clearing>>
history == <<began, accepted>>
monitorVars == <<now, firing, failures, row, pass, requests, history>>

Incidents == Keys \cup {Outage}
Ids == Incidents \X (1 .. MaxTime)

MonitorInit ==
  /\ now = 0 /\ firing = {} /\ failures = 0
  /\ row = [k \in Incidents |-> None]
  /\ at = "sleep" /\ key = None /\ todo = {} /\ activeKeys = {} /\ clearing = FALSE
  /\ requests = [i \in Ids |-> None]
  /\ began = [k \in Incidents |-> 0] /\ accepted = [i \in Ids |-> None]

-----------------------------------------------------------------------------
\* An alert begins to fire, or ends: Grafana and what it watches.
Fire(k) ==
  /\ k \in Keys \ firing /\ now < MaxTime
  /\ firing' = firing \cup {k} /\ began' = [began EXCEPT ![k] = now + 1]
  /\ UNCHANGED <<now, failures, row, pass, requests, accepted>>

Resolve(k) ==
  /\ k \in firing
  /\ firing' = firing \ {k}
  /\ UNCHANGED <<now, failures, row, pass, requests, history>>

-----------------------------------------------------------------------------
Begin(keys, clear) ==
  /\ at' = "alerts" /\ key' = None /\ todo' = keys /\ activeKeys' = keys /\ clearing' = clear

Sleep == at' = "sleep" /\ key' = None /\ todo' = {} /\ activeKeys' = {} /\ clearing' = FALSE

\* The alerts are fetched.
Poll ==
  /\ at = "sleep" /\ now < MaxTime
  /\ now' = now + 1 /\ failures' = 0
  /\ Begin(firing, TRUE)
  /\ UNCHANGED <<firing, row, requests, history>>

\* They cannot be: from the third time on the monitor makes up an alert of its own, and
\* forgets none of the others.
PollFails ==
  /\ at = "sleep" /\ now < MaxTime
  /\ now' = now + 1
  /\ failures' = IF failures < Patience THEN failures + 1 ELSE failures
  /\ IF failures' = Patience THEN Begin({Outage}, FALSE) ELSE UNCHANGED pass
  /\ began' = IF failures = 0 THEN [began EXCEPT ![Outage] = now'] ELSE began
  /\ UNCHANGED <<firing, row, requests, accepted>>

NewRow == [first |-> now, last |-> None, active |-> TRUE, submitted |-> FALSE, evidence |-> now]

\* Mutant: an alert that is gone and back is another incident at once.
NextRowAtOnce(k) ==
  LET r == row[k] IN
  IF r = None THEN NewRow
  ELSE IF ~r.active /\ r.submitted THEN [NewRow EXCEPT !.last = r.last]
  ELSE [r EXCEPT !.active = TRUE]

\* The row of an alert that fires: a new one, one for another incident when the alert was gone
\* and its last submission is a cooldown ago, or the one there is.
NextRow(k) ==
  LET r == row[k] IN
  IF r = None THEN NewRow
  ELSE IF ~r.active /\ r.submitted /\ now - r.last >= Cooldown
    THEN [NewRow EXCEPT !.last = r.last]
  ELSE [r EXCEPT !.active = TRUE]

\* It is committed before anything is submitted.
Record(k) ==
  /\ at = "alerts" /\ k \in todo
  /\ row' = [row EXCEPT ![k] = NextRow(k)]
  /\ todo' = todo \ {k}
  /\ IF NextRow(k).submitted THEN UNCHANGED <<at, key>> ELSE at' = "submit" /\ key' = k
  /\ UNCHANGED <<now, firing, failures, activeKeys, clearing, requests, history>>

Instruction(k) == row[k].evidence

\* owner_submit: the owner takes the request, knows it, or refuses another instruction; the
\* answer may be lost, or the owner not be there.  Without a success the pass is over.
Submit ==
  /\ at = "submit"
  /\ LET i == <<key, row[key].first>>
         fits == requests[i] \in {None, Instruction(key)}
     IN \/ /\ fits
           /\ requests' = [requests EXCEPT ![i] = Instruction(key)]
           /\ accepted' = IF accepted[i] # None THEN accepted
                          ELSE [accepted EXCEPT ![i] = [time |-> now, incident |-> began[key]]]
           /\ \/ at' = "confirm" /\ UNCHANGED <<key, todo, activeKeys, clearing>>
              \/ Sleep
        \/ Sleep /\ UNCHANGED <<requests, accepted>>
  /\ UNCHANGED <<now, firing, failures, row, began>>

Confirm ==
  /\ at = "confirm"
  /\ row' = [row EXCEPT ![key].submitted = TRUE, ![key].last = now]
  /\ at' = "alerts" /\ key' = None
  /\ UNCHANGED <<now, firing, failures, todo, activeKeys, clearing, requests, history>>

\* The pass ends: the alerts that are gone are marked, in one transaction.
Clear ==
  /\ at = "alerts" /\ todo = {}
  /\ row' = [k \in Incidents |->
               IF clearing /\ row[k] # None /\ k \notin activeKeys
                 THEN [row[k] EXCEPT !.active = FALSE] ELSE row[k]]
  /\ Sleep
  /\ UNCHANGED <<now, firing, failures, requests, history>>

\* The monitor is killed and started again.
Restart ==
  /\ at # "sleep" \/ failures > 0
  /\ Sleep /\ failures' = 0
  /\ UNCHANGED <<now, firing, row, requests, history>>

MonitorNext ==
  \/ \E k \in Keys : Fire(k) \/ Resolve(k)
  \/ \E k \in Incidents : Record(k)
  \/ Poll \/ PollFails \/ Submit \/ Confirm \/ Clear \/ Restart

MonitorSpec == MonitorInit /\ [][MonitorNext]_monitorVars

-----------------------------------------------------------------------------
(* Properties. *)

\* Two investigations of one alert are of different incidents and at least a cooldown apart,
\* whatever was repeated after a kill or a lost answer; and no submission is refused because
\* its ID is bound to another instruction, which would end every later pass at that alert.
Investigations ==
  /\ \A k \in Incidents : \A s, t \in 1 .. MaxTime :
       LET a == accepted[<<k, s>>]  b == accepted[<<k, t>>] IN
       s < t /\ a # None /\ b # None =>
         a.incident # b.incident /\ b.time - a.time >= Cooldown
  /\ at = "submit" => requests[<<key, row[key].first>>] \in {None, Instruction(key)}
=============================================================================
