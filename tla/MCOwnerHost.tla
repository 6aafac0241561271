----------------------------- MODULE MCOwnerHost -----------------------------
(* The programs that launchd keeps on the owner's host, for TLC: the owner's processes   *)
(* and the alert monitor.  The monitor meets the owner in submissions only, which        *)
(* AlertMonitor lets fail at any time: the two are explored one beside the other.        *)
EXTENDS OwnerLease, AlertMonitor
CONSTANTS p1, p2, k1

MCInit == Init /\ MonitorInit
MCNext ==
  \/ Next /\ MonitorInit /\ UNCHANGED monitorVars
  \/ MonitorNext /\ Init /\ UNCHANGED vars
MCSpec == MCInit /\ [][MCNext]_<<vars, monitorVars>> /\ Fairness
=============================================================================
