----------------------------- MODULE TaskOwner -----------------------------
(***************************************************************************)
(* The Pi Durable task owner: DurableTaskOwner, its two native task        *)
(* definitions (ProductTask, ValidationTask) and the "voice.owner.requests"*)
(* document, in platform/agent-execution/pi-durable-task/owner.ts.         *)
(*                                                                         *)
(* What is durable (the SQLite store): the document entry of every request *)
(* and the native task record beside it.  What is volatile (the process):  *)
(* the handler that runs a task and its queue of progress commits.  The    *)
(* process may be killed or stopped at any step and is started again by    *)
(* launchd.  The native harness (scheduler, restart limit, abort mark) is  *)
(* the pi-durable library: modelled from how owner.ts and its tests use it.*)
(***************************************************************************)
EXTENDS Integers

CONSTANTS
  Requests,       \* request IDs; a request ID is the public task ID
  Inputs,         \* the inputs clients may submit
  Kind,           \* the kind of each input
  None,           \* "no entry"
  RestartLimit,   \* Harness setting restartLimit
  ProgressLimit,  \* progress events one run of executeProduct reports (2000)
  MaxExits        \* bound: how often the owner process may exit

Kinds == {"agent-run", "song-lyrics", "song-render", "digital-twin", "validation"}

ASSUME OwnerAssumption ==
  /\ Kind \in [Inputs -> Kinds]
  /\ None \notin Inputs
  /\ RestartLimit \in Nat \ {0}
  /\ ProgressLimit \in Nat
  /\ MaxExits \in Nat

VARIABLES
  \* the Requests document, by request ID
  inputJson, cancelledAt, progress,
  \* the native task created with the entry
  status, phase, outcome, restarts, parked, marked,
  \* the running handler: where it is, progress commits it has queued, and
  \* how many events executeProduct has reported in this run
  pc, queue, progressCount,
  \* the owner process and the number of its exits
  owner, exits,
  \* history: external effects begun, native tasks created, and submissions
  \* whose client was told that they were accepted
  begun, created, told

docVars   == <<inputJson, cancelledAt, progress>>
taskVars  == <<status, phase, outcome, restarts, parked, marked>>
runVars   == <<pc, queue, progressCount>>
ownerVars == <<owner, exits>>
history   == <<begun, created, told>>
vars == <<docVars, taskVars, runVars, ownerVars, history>>

Statuses == {"absent", "pending", "running", "terminal"}
Outcomes == {"none", "result", "reconcile", "aborted", "failed"}
Points   == {"idle", "intent", "launch", "effect", "prepare", "session",
             "finish", "drain", "thrown", "external", "hold"}

-----------------------------------------------------------------------------
(* The state in which the store is new and the process is serving. *)
Init ==
  /\ inputJson     = [r \in Requests |-> None]
  /\ cancelledAt   = [r \in Requests |-> FALSE]
  /\ progress      = [r \in Requests |-> 0]
  /\ status        = [r \in Requests |-> "absent"]
  /\ phase         = [r \in Requests |-> "run"]
  /\ outcome       = [r \in Requests |-> "none"]
  /\ restarts      = [r \in Requests |-> 0]
  /\ parked        = [r \in Requests |-> FALSE]
  /\ marked        = [r \in Requests |-> FALSE]
  /\ pc            = [r \in Requests |-> "idle"]
  /\ queue         = [r \in Requests |-> 0]
  /\ progressCount = [r \in Requests |-> 0]
  /\ owner = "up"
  /\ exits = 0
  /\ begun   = [r \in Requests |-> 0]
  /\ created = [r \in Requests |-> 0]
  /\ told = {}

\* The handlers run until the process is gone, also while it is closing.
Alive == owner \in {"up", "closing"}

Admitted(r) == inputJson[r] # None
IsRender(r) == Admitted(r) /\ Kind[inputJson[r]] = "song-render"

\* executeProduct runs a Pi session for these kinds, one Python effect for others.
RunsSession(r) == Kind[inputJson[r]] \in {"agent-run", "song-lyrics"}

\* The state owner.get shows for a task.  No handler sleeps, so "sleeping" never is.
Get(r) ==
  CASE status[r] = "absent" -> "null"
    [] status[r] \in {"pending", "running"} -> status[r]
    [] status[r] = "terminal" /\ outcome[r] \in {"result", "reconcile"} -> "completed"
    [] status[r] = "terminal" /\ outcome[r] = "aborted" -> "cancelled"
    [] status[r] = "terminal" /\ outcome[r] = "failed" -> "failed"

-----------------------------------------------------------------------------
(* Commands of the private protocol.  A rejected command changes nothing.  *)

\* MUTANT of Submit: a repeated submission with another input replaces the input.
SubmitOverwrites(r, i) ==
  /\ owner = "up"
  /\ inputJson' = [inputJson EXCEPT ![r] = i]
  /\ status' = [status EXCEPT ![r] = IF @ = "absent" THEN "pending" ELSE @]
  /\ created' = [created EXCEPT ![r] = 1]
  /\ told' \in {told, told \cup {<<r, i>>}}
  /\ UNCHANGED <<cancelledAt, progress, phase, outcome, restarts, parked, marked,
                 runVars, ownerVars, begun>>

\* submit: entry and task are created in one commit; a repeated submission
\* with the same input is answered again, one with another input throws.
\* The answer may be lost on its way (30 s client timeout, owner exit).
Submit(r, i) ==
  /\ owner = "up"
  /\ inputJson[r] \in {None, i}
  /\ inputJson' = [inputJson EXCEPT ![r] = i]
  /\ IF inputJson[r] = None
       THEN /\ status' = [status EXCEPT ![r] = "pending"]
            /\ created' = [created EXCEPT ![r] = @ + 1]
       ELSE UNCHANGED <<status, created>>
  /\ told' \in {told, told \cup {<<r, i>>}}
  /\ UNCHANGED <<cancelledAt, progress, phase, outcome, restarts, parked, marked,
                 runVars, ownerVars, begun>>

\* abort: a task that is not terminal is marked durably and its signal fires.
Abort(r) ==
  /\ owner = "up" /\ Admitted(r)
  /\ status[r] # "terminal"
  /\ marked' = [marked EXCEPT ![r] = TRUE]
  /\ UNCHANGED <<docVars, status, phase, outcome, restarts, parked, runVars,
                 ownerVars, history>>

\* retry: re-enables a task parked at the restart limit, nothing else.
Retry(r) ==
  /\ owner = "up" /\ parked[r]
  /\ parked' = [parked EXCEPT ![r] = FALSE]
  /\ restarts' = [restarts EXCEPT ![r] = 0]
  /\ UNCHANGED <<docVars, status, phase, outcome, marked, runVars, ownerVars, history>>

\* cancel_product: stamps a lyric task's entry once; it does not stop the task.
CancelProduct(r) ==
  /\ owner = "up" /\ Admitted(r)
  /\ Kind[inputJson[r]] = "song-lyrics"
  /\ cancelledAt' = [cancelledAt EXCEPT ![r] = TRUE]
  /\ UNCHANGED <<inputJson, progress, taskVars, runVars, ownerVars, history>>

-----------------------------------------------------------------------------
(* The handlers.                                                           *)

\* Where the "run" phase of each kind begins.
FirstPoint(r) ==
  CASE Kind[inputJson[r]] = "song-render" -> "intent"
    [] Kind[inputJson[r]] = "validation"  -> "hold"
    [] OTHER                              -> "launch"

\* The harness starts, or after a restart starts again, the task's phase.
TaskStart(r) ==
  /\ owner = "up"
  /\ status[r] = "pending" /\ pc[r] = "idle"
  /\ ~parked[r] /\ ~marked[r]
  /\ status' = [status EXCEPT ![r] = "running"]
  /\ pc' = [pc EXCEPT ![r] = IF phase[r] = "external" THEN "external" ELSE FirstPoint(r)]
  /\ UNCHANGED <<docVars, phase, outcome, restarts, parked, marked, queue,
                 progressCount, ownerVars, history>>

\* MUTANT of CommitIntent: the checkpoint is not made durable.
CommitIntentVolatile(r) ==
  /\ Alive /\ pc[r] = "intent"
  /\ pc' = [pc EXCEPT ![r] = "launch"]
  /\ UNCHANGED <<docVars, taskVars, queue, progressCount, ownerVars, history>>

\* MUTANT of CommitIntent: the handler goes on in the phase it has committed.
CommitIntentDispatches(r) ==
  /\ Alive /\ pc[r] = "intent"
  /\ phase' = [phase EXCEPT ![r] = "external"]
  /\ pc' = [pc EXCEPT ![r] = "external"]
  /\ UNCHANGED <<docVars, status, outcome, restarts, parked, marked, queue,
                 progressCount, ownerVars, history>>

\* A render first commits the "external" checkpoint ...
CommitIntent(r) ==
  /\ Alive /\ pc[r] = "intent"
  /\ phase' = [phase EXCEPT ![r] = "external"]
  /\ pc' = [pc EXCEPT ![r] = "launch"]
  /\ UNCHANGED <<docVars, status, outcome, restarts, parked, marked, queue,
                 progressCount, ownerVars, history>>

\* ... then queues its "Starting" event and spawns the Python effect, or, for
\* a session task, the workspace preparation.  A spawn under a fired signal fails.
Launch(r) ==
  /\ Alive /\ pc[r] = "launch" /\ ~marked[r]
  /\ queue' = [queue EXCEPT ![r] = @ + 1]
  /\ IF RunsSession(r)
       THEN /\ pc' = [pc EXCEPT ![r] = "prepare"]
            /\ UNCHANGED begun
       ELSE /\ pc' = [pc EXCEPT ![r] = "effect"]
            /\ begun' = [begun EXCEPT ![r] = @ + 1]
  /\ UNCHANGED <<docVars, taskVars, progressCount, ownerVars, created, told>>

\* executeProduct's progress(): bounded per run, queued behind earlier events.
Report(r) ==
  IF progressCount[r] < ProgressLimit
    THEN /\ queue' = [queue EXCEPT ![r] = @ + 1]
         /\ progressCount' = [progressCount EXCEPT ![r] = @ + 1]
    ELSE UNCHANGED <<queue, progressCount>>

\* The workspace is prepared: report it and run the Pi session.
Prepared(r) ==
  /\ Alive /\ pc[r] = "prepare"
  /\ pc' = [pc EXCEPT ![r] = "session"]
  /\ Report(r)
  /\ UNCHANGED <<docVars, taskVars, ownerVars, history>>

\* A tool call of the session is reported.
SessionProgress(r) ==
  /\ Alive /\ pc[r] = "session" /\ progressCount[r] < ProgressLimit
  /\ Report(r)
  /\ UNCHANGED <<docVars, taskVars, pc, ownerVars, history>>

\* The session has answered: the finishing effect is spawned.
SessionAnswered(r) ==
  /\ Alive /\ pc[r] = "session" /\ ~marked[r]
  /\ pc' = [pc EXCEPT ![r] = "finish"]
  /\ UNCHANGED <<docVars, taskVars, queue, progressCount, ownerVars, history>>

\* The last effect exits with code 0.
EffectEnds(r) ==
  /\ Alive /\ pc[r] \in {"effect", "finish"}
  /\ pc' = [pc EXCEPT ![r] = "drain"]
  /\ UNCHANGED <<docVars, taskVars, queue, progressCount, ownerVars, history>>

\* The runtime of a task takes its commits until the task is terminal.
Accepts(r) == status[r] # "terminal"

\* MUTANT of CommitProgress: the event is written to the document without asking
\* the task's runtime, whatever has become of the task.
CommitProgressOutside(r) ==
  /\ Alive /\ queue[r] > 0
  /\ progress' = [progress EXCEPT ![r] = @ + 1]
  /\ queue' = [queue EXCEPT ![r] = @ - 1]
  /\ UNCHANGED <<inputJson, cancelledAt, taskVars, pc, progressCount, ownerVars, history>>

\* One queued progress event is committed with the next id; the commit also
\* writes the task's status and checkpoint again, with the phase the run computed.
\* The chain of queued commits goes on when its handler has thrown.
CommitProgress(r) ==
  /\ Alive /\ queue[r] > 0 /\ Accepts(r)
  /\ progress' = [progress EXCEPT ![r] = @ + 1]
  /\ queue' = [queue EXCEPT ![r] = @ - 1]
  /\ status' = [status EXCEPT ![r] = "running"]
  /\ phase' = [phase EXCEPT ![r] = IF IsRender(r) THEN "external" ELSE "run"]
  /\ UNCHANGED <<inputJson, cancelledAt, outcome, restarts, parked, marked, pc,
                 progressCount, ownerVars, history>>

\* A commit that outlived its handler is refused, and the rest of the chain with
\* it.  Nobody awaits the chain: the rejection may end the process as well (Crash).
Refused(r) ==
  /\ Alive /\ queue[r] > 0
  /\ pc[r] \in {"idle", "thrown"}
  /\ queue' = [queue EXCEPT ![r] = 0]
  /\ UNCHANGED <<docVars, taskVars, pc, progressCount, ownerVars, history>>

\* The handler has returned or thrown; commits it queued are not awaited.
HandlerOver(r) ==
  /\ pc' = [pc EXCEPT ![r] = "idle"]
  /\ progressCount' = [progressCount EXCEPT ![r] = 0]
  /\ UNCHANGED queue

\* MUTANT of Settle: a parked task stays parked when it is aborted.
SettleParked(r, o) ==
  /\ status' = [status EXCEPT ![r] = "terminal"]
  /\ outcome' = [outcome EXCEPT ![r] = o]
  /\ HandlerOver(r)
  /\ UNCHANGED <<docVars, phase, restarts, parked, marked, ownerVars, history>>

\* The task becomes terminal with outcome o; a handler that ran is over.
Settle(r, o) ==
  /\ status' = [status EXCEPT ![r] = "terminal"]
  /\ outcome' = [outcome EXCEPT ![r] = o]
  /\ parked' = [parked EXCEPT ![r] = FALSE]
  /\ HandlerOver(r)
  /\ UNCHANGED <<docVars, phase, restarts, marked, ownerVars, history>>

\* The product handler has awaited its progress queue and commits the result.
CommitCompleted(r) == Alive /\ pc[r] = "drain" /\ queue[r] = 0 /\ Settle(r, "result")

\* The validation handler's timer has fired.
CommitValidation(r) == Alive /\ pc[r] = "hold" /\ Settle(r, "result")

\* The "external" phase: a render began before, without a recorded result.
CommitReconcile(r) == Alive /\ pc[r] = "external" /\ Settle(r, "reconcile")

\* An effect exits non-zero or a session fails (closing the owner closes the
\* sessions first): the handler throws ...
HandlerFails(r) ==
  /\ Alive /\ pc[r] \in {"effect", "prepare", "session", "finish"} /\ ~marked[r]
  /\ pc' = [pc EXCEPT ![r] = "thrown"]
  /\ UNCHANGED <<docVars, taskVars, queue, progressCount, ownerVars, history>>

\* ... and the harness records the failure, whatever is still queued.
CommitFailed(r) == Alive /\ pc[r] = "thrown" /\ Settle(r, "failed")

\* The abort signal has fired: the handler throws at whatever it awaits ...
Unwind(r) ==
  /\ Alive /\ marked[r] /\ pc[r] # "idle"
  /\ HandlerOver(r)
  /\ UNCHANGED <<docVars, taskVars, ownerVars, history>>

\* MUTANT of CommitAborted: a task that has not started yet is not aborted.
CommitAbortedRunning(r) ==
  /\ Alive /\ marked[r] /\ pc[r] = "idle"
  /\ status[r] = "running"
  /\ Settle(r, "aborted")

\* ... and the harness runs the abort handler, which commits "aborted".
CommitAborted(r) ==
  /\ Alive /\ marked[r] /\ pc[r] = "idle"
  /\ status[r] \in {"pending", "running"}
  /\ Settle(r, "aborted")

-----------------------------------------------------------------------------
(* The process.                                                            *)

ProcessGone(how) ==
  /\ owner' = how
  /\ pc' = [r \in Requests |-> "idle"]
  /\ queue' = [r \in Requests |-> 0]
  /\ progressCount' = [r \in Requests |-> 0]

\* The process dies at any point.
Crash ==
  /\ Alive /\ exits < MaxExits
  /\ exits' = exits + 1
  /\ ProcessGone("crashed")
  /\ UNCHANGED <<docVars, taskVars, history>>

\* SIGTERM, and the last connection is closed: no more commands are served, and
\* close() shuts the sessions, then the harness.
BeginClose ==
  /\ owner = "up" /\ exits < MaxExits
  /\ exits' = exits + 1
  /\ owner' = "closing"
  /\ UNCHANGED <<docVars, taskVars, runVars, history>>

FinishClose ==
  /\ owner = "closing"
  /\ ProcessGone("closed")
  /\ UNCHANGED <<docVars, taskVars, exits, history>>

\* open: a task found running was interrupted.  A crash counts against the
\* restart limit and parks the task when it is reached; whether an orderly
\* close counts is the harness's choice.
Reopen ==
  /\ owner \in {"crashed", "closed"}
  /\ owner' = "up"
  /\ \E counts \in {c \in BOOLEAN : owner = "crashed" => c} :
       LET interrupted(r) == status[r] = "running"
           count(r) == IF interrupted(r) /\ counts THEN restarts[r] + 1 ELSE restarts[r]
       IN /\ status' = [r \in Requests |-> IF interrupted(r) THEN "pending" ELSE status[r]]
          /\ restarts' = [r \in Requests |-> count(r)]
          /\ parked' = [r \in Requests |->
                          parked[r] \/ (interrupted(r) /\ count(r) >= RestartLimit)]
  /\ UNCHANGED <<docVars, phase, outcome, marked, runVars, exits, history>>

-----------------------------------------------------------------------------
Command(r) ==
  \/ \E i \in Inputs : Submit(r, i)
  \/ Abort(r) \/ Retry(r) \/ CancelProduct(r)

\* The steps a handler takes by itself once it runs.
HandlerStep(r) ==
  \/ CommitIntent(r) \/ Launch(r) \/ Prepared(r) \/ SessionAnswered(r)
  \/ EffectEnds(r) \/ CommitProgress(r) \/ CommitCompleted(r)
  \/ CommitValidation(r) \/ CommitReconcile(r) \/ CommitFailed(r)

Process == Crash \/ BeginClose \/ FinishClose \/ Reopen

Next ==
  \/ \E r \in Requests :
       \/ Command(r) \/ TaskStart(r) \/ HandlerStep(r) \/ SessionProgress(r)
       \/ HandlerFails(r) \/ Unwind(r) \/ CommitAborted(r) \/ Refused(r)
  \/ Process

Spec == Init /\ [][Next]_vars

\* launchd keeps the process alive; the harness schedules runnable tasks and
\* runs the abort handler of marked ones; effects and sessions end.
Fairness ==
  /\ WF_vars(FinishClose) /\ WF_vars(Reopen)
  /\ \A r \in Requests :
       /\ WF_vars(TaskStart(r)) /\ WF_vars(HandlerStep(r)) /\ WF_vars(Unwind(r))
       /\ WF_vars(~parked[r] /\ CommitAborted(r))

FairSpec == Spec /\ Fairness

-----------------------------------------------------------------------------
(* Properties.                                                             *)

\* Every variable has its type.
TypeOK ==
  /\ inputJson \in [Requests -> Inputs \cup {None}]
  /\ cancelledAt \in [Requests -> BOOLEAN]
  /\ progress \in [Requests -> Nat]
  /\ status \in [Requests -> Statuses]
  /\ phase \in [Requests -> {"run", "external"}]
  /\ outcome \in [Requests -> Outcomes]
  /\ restarts \in [Requests -> Nat]
  /\ parked \in [Requests -> BOOLEAN]
  /\ marked \in [Requests -> BOOLEAN]
  /\ pc \in [Requests -> Points]
  /\ queue \in [Requests -> Nat]
  /\ progressCount \in [Requests -> Nat]
  /\ owner \in {"up", "closing", "crashed", "closed"}
  /\ exits \in Nat
  /\ begun \in [Requests -> Nat]
  /\ created \in [Requests -> Nat]
  /\ told \subseteq Requests \X Inputs

\* The external render of a song begins at most once, whatever crashes, closes,
\* restarts, aborts and retries come in between (owner.ts: "a resumed
\* non-idempotent effect needs inspection rather than a second invocation").
RenderAtMostOnce == \A r \in Requests : IsRender(r) => begun[r] <= 1

\* A render reported as done did begin, and a render is left to manual
\* reconciliation only if the owner process did exit after it was admitted.
HonestOutcome == \A r \in Requests :
  /\ IsRender(r) /\ outcome[r] = "result" => begun[r] = 1
  /\ outcome[r] = "reconcile" => IsRender(r) /\ exits > 0

\* A client that was told its submission is accepted can rely on it: the request
\* ID stays bound to its input, and one native task was created for it, however
\* often the submission is repeated or competes with another input.
ToldIsBound == \A s \in told : inputJson[s[1]] = s[2] /\ created[s[1]] = 1

\* A task that keeps losing its process does not run for ever: no handler runs
\* for a task that has used up its restarts, until an operator retries it.
RestartBudget == \A r \in Requests : pc[r] # "idle" => restarts[r] < RestartLimit

\* The inductive invariant behind the theorems of TaskOwnerProofs, by subject.
\* The document entry and the native task exist together.
EntryInv == \A r \in Requests :
  /\ Admitted(r) <=> status[r] # "absent"
  /\ created[r] = IF Admitted(r) THEN 1 ELSE 0
  /\ ~Admitted(r) => /\ pc[r] = "idle" /\ ~marked[r] /\ ~parked[r]
                     /\ phase[r] = "run" /\ begun[r] = 0 /\ restarts[r] = 0

\* A handler runs only for a running task of a live process, within its budget;
\* the commits it leaves behind are gone before another handler of the task runs.
HandlerInv == \A r \in Requests :
  /\ pc[r] # "idle" => Alive /\ status[r] = "running"
  /\ pc[r] \in {"intent", "launch", "external", "hold"} => queue[r] = 0
  /\ queue[r] > 0 => Alive /\ status[r] \in {"running", "terminal"}
  /\ parked[r] => status[r] = "pending"
  /\ status[r] \in {"pending", "running"} /\ ~parked[r] => restarts[r] < RestartLimit

\* The checkpoint of a render is written before its effect begins, and tells
\* every later handler that the effect may have begun.
IntentInv == \A r \in Requests :
  /\ phase[r] = "external" => IsRender(r)
  /\ IsRender(r) =>
       /\ begun[r] <= 1
       /\ begun[r] = 1 => phase[r] = "external"
       /\ pc[r] \notin {"prepare", "session", "finish", "hold"}
       /\ pc[r] = "intent" => begun[r] = 0
       /\ pc[r] = "launch" => begun[r] = 0 /\ phase[r] = "external"
       /\ pc[r] \in {"effect", "drain", "thrown"} \/ queue[r] > 0 => begun[r] = 1
  /\ pc[r] = "external" => phase[r] = "external"
  /\ pc[r] = "intent" => IsRender(r)

\* Only a task that an exit interrupted waits in, or runs, the "external" phase.
ExitInv ==
  /\ owner # "up" => exits > 0
  /\ \A r \in Requests :
       phase[r] = "external" /\ (status[r] = "pending" \/ pc[r] = "external") => exits > 0

OutcomeInv == \A r \in Requests :
  /\ outcome[r] # "none" <=> status[r] = "terminal"
  /\ IsRender(r) /\ outcome[r] \in {"result", "failed"} => begun[r] = 1
  /\ outcome[r] = "reconcile" => IsRender(r) /\ exits > 0

ToldInv == \A s \in told : inputJson[s[1]] = s[2]

\* All of it together is what every step preserves.
IInv == TypeOK /\ EntryInv /\ HandlerInv /\ IntentInv /\ ExitInv /\ OutcomeInv /\ ToldInv

\* A terminal task is over: nothing - a progress commit left behind by a handler
\* that threw or was aborted, an abort, a retry, a repeated submission, a restart -
\* changes what owner.get shows of it, adds to its progress feed or begins its
\* effect again.  That the runtime refuses such a commit is assumed (Accepts).
SettledIsFinal == [][\A r \in Requests : status[r] = "terminal" =>
  /\ Get(r)' = Get(r)
  /\ progress'[r] = progress[r]
  /\ begun'[r] = begun[r]]_vars

\* Every admitted task settles, or parks at the restart limit where inspect shows it.
AdmittedSettles == \A r \in Requests :
  Admitted(r) ~> (status[r] = "terminal" \/ parked[r])

\* The owner implements the contract its clients rely on.
Contract == INSTANCE TaskContract WITH
  bound   <- inputJson,
  verdict <- outcome,
  renders <- [r \in Requests |-> IF IsRender(r) THEN begun[r] ELSE 0]

\* Every step of the owner is a step of the contract, or hidden from it.
ContractSpec == Contract!Spec

=============================================================================
