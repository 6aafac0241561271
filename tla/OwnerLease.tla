----------------------------- MODULE OwnerLease -----------------------------
(***************************************************************************)
(* The store-owner lock of the Pi Durable owner (acquireStoreOwner in      *)
(* platform/agent-execution/pi-durable-task/lease.ts) and the life of an   *)
(* owner process around it (serveOwner in owner-server.ts): take the lock, *)
(* open the store, bind the socket, serve, unbind, close, release.         *)
(*                                                                         *)
(* The lock is a directory with a pid file.  Every file-system call and    *)
(* every probe is a step of its own; other processes run in between.       *)
(***************************************************************************)
EXTENDS Integers, FiniteSets

CONSTANTS
  Procs,        \* owner processes, by pid; a pid is not used twice
  NoPid,        \* no pid in the file, or no file
  MaxLive,      \* how many owner processes may be alive together
  MaxCrashes,   \* bound: how many of them are killed
  MaxAttempts,  \* rounds of the acquire loop that wait for a live owner or reclaim
  PromptSteps   \* less than two seconds pass from mkdir to writing the pid, and
                \* from reading an empty pid to the stat of its directory

ASSUME LeaseAssumption ==
  /\ IsFiniteSet(Procs) /\ NoPid \notin Procs
  /\ MaxLive \in Nat /\ MaxCrashes \in Nat /\ MaxAttempts \in Nat \ {0}
  /\ PromptSteps \in BOOLEAN

VARIABLES
  lockDir, lockPid, fresh,   \* the directory, its pid file, age under two seconds
  socket,                    \* the process whose socket the path names
  pc, seen, attempt,         \* per process: next step, pid it read, rounds used
  crashes

lockVars == <<lockDir, lockPid, fresh>>
vars == <<lockVars, socket, pc, seen, attempt, crashes>>

Gone      == {"new", "exited", "dead"}
Acquiring == {"mkdir", "write", "read", "stat", "probe", "reclaim"}
StoreOpen == {"rmsocket", "listen", "serving", "unbind", "close"}
Points    == Gone \cup Acquiring \cup StoreOpen \cup {"open", "relread", "relrm"}

Live(p) == pc[p] \notin Gone
Goto(p, point) == pc' = [pc EXCEPT ![p] = point]

Init ==
  /\ lockDir = FALSE /\ lockPid = NoPid /\ fresh = FALSE
  /\ socket = NoPid
  /\ pc = [p \in Procs |-> "new"]
  /\ seen = [p \in Procs |-> NoPid]
  /\ attempt = [p \in Procs |-> 0]
  /\ crashes = 0

-----------------------------------------------------------------------------
(* acquireStoreOwner *)

\* MUTANT of Start: the stale socket is removed before the lock is taken.
StartUnbinds(p) ==
  /\ pc[p] = "new"
  /\ Cardinality({q \in Procs : Live(q)}) < MaxLive
  /\ socket' = NoPid
  /\ Goto(p, "mkdir")
  /\ UNCHANGED <<lockVars, seen, attempt, crashes>>

Start(p) ==
  /\ pc[p] = "new"
  /\ Cardinality({q \in Procs : Live(q)}) < MaxLive
  /\ Goto(p, "mkdir")
  /\ UNCHANGED <<lockVars, socket, seen, attempt, crashes>>

\* mkdir creates the directory, or fails with EEXIST.
Mkdir(p) ==
  /\ pc[p] = "mkdir"
  /\ IF lockDir
       THEN Goto(p, "read") /\ UNCHANGED lockVars
       ELSE /\ lockDir' = TRUE /\ lockPid' = NoPid /\ fresh' = TRUE
            /\ Goto(p, "write")
  /\ UNCHANGED <<socket, seen, attempt, crashes>>

\* writeFile fails only if the directory is gone (ENOENT, which acquire rethrows);
\* it does not notice whose directory it writes into.  A new file makes the
\* directory young again.
WritePid(p) ==
  /\ pc[p] = "write"
  /\ IF lockDir
       THEN lockPid' = p /\ fresh' = (fresh \/ lockPid = NoPid) /\ Goto(p, "open")
       ELSE UNCHANGED <<lockPid, fresh>> /\ Goto(p, "exited")
  /\ UNCHANGED <<lockDir, socket, seen, attempt, crashes>>

ReadPid(p) ==
  /\ pc[p] = "read"
  /\ seen' = [seen EXCEPT ![p] = lockPid]
  /\ Goto(p, IF lockPid = NoPid THEN "stat" ELSE "probe")
  /\ UNCHANGED <<lockVars, socket, attempt, crashes>>

\* MUTANT of StatLock: a directory without a pid is never waited for.
StatLockHasty(p) ==
  /\ pc[p] = "stat"
  /\ Goto(p, IF lockDir THEN "reclaim" ELSE "exited")
  /\ UNCHANGED <<lockVars, socket, seen, attempt, crashes>>

\* MUTANT of StatLock: a directory without a pid is always waited for.
StatLockPatient(p) ==
  /\ pc[p] = "stat"
  /\ Goto(p, IF lockDir THEN "mkdir" ELSE "exited")
  /\ UNCHANGED <<lockVars, socket, seen, attempt, crashes>>

\* No pid: a fresh directory is waited for (twenty of the hundred rounds at most,
\* so they are not counted), an old one is reclaimed, a missing one makes stat throw.
StatLock(p) ==
  /\ pc[p] = "stat"
  /\ Goto(p, IF ~lockDir THEN "exited" ELSE IF fresh THEN "mkdir" ELSE "reclaim")
  /\ UNCHANGED <<lockVars, socket, seen, attempt, crashes>>

NextRound(p, point) ==
  /\ attempt' = [attempt EXCEPT ![p] = @ + 1]
  /\ Goto(p, IF attempt[p] + 1 < MaxAttempts THEN point ELSE "exited")

\* processAlive(owner): wait for a live owner, reclaim from a dead one.
Probe(p) ==
  /\ pc[p] = "probe"
  /\ IF Live(seen[p])
       THEN NextRound(p, "mkdir")
       ELSE Goto(p, "reclaim") /\ UNCHANGED attempt
  /\ UNCHANGED <<lockVars, socket, seen, crashes>>

RemoveLock == lockDir' = FALSE /\ lockPid' = NoPid /\ fresh' = FALSE

\* rm -r of whatever directory is there by now.
Reclaim(p) ==
  /\ pc[p] = "reclaim"
  /\ RemoveLock
  /\ NextRound(p, "mkdir")
  /\ UNCHANGED <<socket, seen, crashes>>

\* release: read the pid again, and remove the directory if it is one's own.
ReleaseRead(p) ==
  /\ pc[p] = "relread"
  /\ Goto(p, IF lockPid = p THEN "relrm" ELSE "exited")
  /\ UNCHANGED <<lockVars, socket, seen, attempt, crashes>>

ReleaseRemove(p) ==
  /\ pc[p] = "relrm"
  /\ RemoveLock
  /\ Goto(p, "exited")
  /\ UNCHANGED <<socket, seen, attempt, crashes>>

-----------------------------------------------------------------------------
(* serveOwner *)

\* The store is opened; if that throws, the lock is released again.
OpenStore(p) ==
  /\ pc[p] = "open"
  /\ \/ Goto(p, "rmsocket") \/ Goto(p, "relread")
  /\ UNCHANGED <<lockVars, socket, seen, attempt, crashes>>

RemoveSocket(p) ==
  /\ pc[p] = "rmsocket"
  /\ socket' = NoPid
  /\ Goto(p, "listen")
  /\ UNCHANGED <<lockVars, seen, attempt, crashes>>

\* listen fails if the path is in use; the finally block then unbinds.
Listen(p) ==
  /\ pc[p] = "listen"
  /\ IF socket = NoPid
       THEN socket' = p /\ Goto(p, "serving")
       ELSE UNCHANGED socket /\ Goto(p, "unbind")
  /\ UNCHANGED <<lockVars, seen, attempt, crashes>>

\* SIGTERM or SIGINT, or the HTTP transport cannot be set up.
Stop(p) ==
  /\ pc[p] = "serving"
  /\ Goto(p, "unbind")
  /\ UNCHANGED <<lockVars, socket, seen, attempt, crashes>>

Unbind(p) ==
  /\ pc[p] = "unbind"
  /\ socket' = NoPid
  /\ Goto(p, "close")
  /\ UNCHANGED <<lockVars, seen, attempt, crashes>>

CloseStore(p) ==
  /\ pc[p] = "close"
  /\ Goto(p, "relread")
  /\ UNCHANGED <<lockVars, socket, seen, attempt, crashes>>

-----------------------------------------------------------------------------
\* The process is killed; its lock and its socket path stay behind.
Crash(p) ==
  /\ Live(p) /\ crashes < MaxCrashes
  /\ Goto(p, "dead")
  /\ crashes' = crashes + 1
  /\ UNCHANGED <<lockVars, socket, seen, attempt>>

\* The directory becomes two seconds old.
Age ==
  /\ lockDir /\ fresh
  /\ PromptSteps => \A p \in Procs : pc[p] \notin {"write", "stat"}
  /\ fresh' = FALSE
  /\ UNCHANGED <<lockDir, lockPid, socket, pc, seen, attempt, crashes>>

Acquire(p) ==
  \/ Mkdir(p) \/ WritePid(p) \/ ReadPid(p) \/ StatLock(p) \/ Probe(p) \/ Reclaim(p)

Serve(p) == OpenStore(p) \/ RemoveSocket(p) \/ Listen(p) \/ Stop(p) \/ Unbind(p)
            \/ CloseStore(p) \/ ReleaseRead(p) \/ ReleaseRemove(p)

Next ==
  \/ \E p \in Procs : Start(p) \/ Acquire(p) \/ Serve(p) \/ Crash(p)
  \/ Age

Spec == Init /\ [][Next]_vars

\* A started process runs its loop; time passes, if not between two prompt steps then later.
Fairness == SF_vars(Age) /\ \A p \in Procs : WF_vars(Acquire(p))
FairSpec == Spec /\ Fairness

-----------------------------------------------------------------------------
(* Properties. *)

\* Every variable has its type.
TypeOK ==
  /\ lockDir \in BOOLEAN /\ fresh \in BOOLEAN
  /\ lockPid \in Procs \cup {NoPid}
  /\ socket \in Procs \cup {NoPid}
  /\ pc \in [Procs -> Points]
  /\ seen \in [Procs -> Procs \cup {NoPid}]
  /\ attempt \in [Procs -> 0..MaxAttempts]
  /\ crashes \in 0..MaxCrashes

\* The pi-durable-task README: "One process opens its SQLite store, and an
\* exclusive owner lock prevents a second process from opening the same store."
\* The storage layer itself does not lock across processes.
OneStoreOwner == \A p, q \in Procs :
  pc[p] \in StoreOpen /\ pc[q] \in StoreOpen => p = q

\* A serving owner is reachable: the socket path is its own, although every
\* owner removes the path blindly when it starts and when it stops.
SocketIsServed == \A p \in Procs : pc[p] = "serving" => socket = p

\* An owner that comes to stand alone before it has used up a round gets the store, whatever
\* the others left behind when they stopped, failed or were killed: a lock with a dead pid,
\* without a pid, or none.
SoleOwnerAcquires == \A p \in Procs :
  (pc[p] = "mkdir" /\ attempt[p] = 0 /\ \A q \in Procs \ {p} : pc[q] \in {"exited", "dead"})
    ~> pc[p] \in StoreOpen \cup {"open", "dead"}

=============================================================================
