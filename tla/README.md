# Formal models of the agent workload platform

This directory holds TLA+ models of the platform's durable task path and of the programs
around it, the TLC configurations that check them and TLAPS proofs of the parts that matter
most. Every definition is translated from the code; `PROJECT.json` names the lines behind each
of them, the hazards each property is for, and a mutation of the code that each property catches.

Run inside this directory, for example:

    tlc -workers 2 -config owner_kinds.cfg MCTaskOwner
    tlapm WorkspaceTaskProofs.tla

## 1. The system

The platform lets one owner talk to a voice agent, hand work over to durable agent tasks and
review what came out. Its parts, the state they keep, what they do and what makes them correct:

| Component | State | Operations | Talks to | What must hold | Modules |
| --- | --- | --- | --- | --- | --- |
| **Task owner** `pi-durable-task/owner.ts` | the `voice.owner.requests` document and native task records in SQLite; running handlers and their progress queues in memory | submit, get, abort, retry, cancel_product, progress commits, open, close | pi-durable harness, Python effects, Pi sessions | a request is bound to one input and one task; a render's external effect begins at most once; terminal is terminal; tasks settle or park | `TaskOwner`, `TaskContract`, `TaskOwnerProofs` |
| **Owner lock and process** `lease.ts`, `owner-server.ts` | lock directory with pid file, socket path, open store | acquire, release, serve, stop | file system, launchd, other owner processes | one process has the store open; a serving owner is reachable; a dead owner's lock is reclaimed | `OwnerLease`, `OwnerHostProofs` |
| **Alert monitor** `tools/ops/stack_alert_monitor.py` | the incident table in SQLite | poll, record, submit, confirm, clear | Grafana, task owner | an incident is investigated once, whatever is repeated | `AlertMonitor`, `OwnerHostProofs` |
| **Song service** `tasking/application/song_service.py`, `domain/song_lifecycle.py`, `voice_worker` render | none of its own: the two tasks of a song in the owner, the song object | create, get, render, cancel, audio | owner, artifact store, ACE-Step | views move forward; renders only reviewed lyrics; cancel stops the work; audio that is offered is there | `SongService`, `SongServiceProofs` |
| **Task service** `tasking/application/service.py` with the task endpoints of gateway and edge | none of its own | submit, get, list, lookup by name, cancel, artifact, speech, progress, narration, digital-twin hand-over | owner, artifact store | every way of asking gives one outcome; a narration is whole; a message is ingested as one body | `TaskDesk`, `TaskDeskProofs` |
| **Artifact store and worker effects** `tasking/infrastructure/artifacts.py`, `voice_worker/workspace_effect.py` | S3 objects, task directories | publish, resolve, materialise, capture | S3, git, the owner | a pointer names a complete bundle; a resumed task finds its work; a result covers the answer | `WorkspaceTask`, `WorkspaceTaskProofs` |
| **Execution images** `ensure_execution_image.py`, `buildImage` | handoff directory, local images | dispatch, poll, install | Gitea actions | a build that hangs ends with the deadline; a session has its image | `WorkspaceTask` |
| **Session execution and bridge** `session-execution.ts`, `remote-session.ts`, voice agent's `remote-task-session.ts` | virtual machine, conversation, attached clients, active prompts, last answer, idle timer | boot, hand over, attach, prompt, steer, abort, settle, close | Gondolin, pi-durable, voice agent | each client gets the answer to its own prompt; no prompt is lost to the idle timer; everything opened is closed | `TaskBridge`, `TaskBridgeProofs` |
| **Voice agent service** `pi-agent/voice-agent`, with the turn path of broker and edge | sessions, serial executor, attachment; the edge's single client | turns, aborts, compaction, fresh and resumed sessions, attach, detach | bridge, gateway, browser | turns do not overlap or hear each other; everybody gets an end; one voice client | `VoiceTurns`, `VoiceProofs` |
| **Spoken and shown replies** `edge/bot.py`, `edge/presentation_response.py` | the extractor and processor of one response | push a fragment, start, end, cancel, normalise | model, speech, browser | what is spoken is the reply's own speech and what is shown; a scene is consistent | `PresentationStream`, `Presentation`, `VoiceProofs` |
| **Digital-twin endpoints** `gateway/main.py` | none; the RDF store behind it | capture, review, feedback, journal, daily page | RDF store | a review is decided once; replayed writes do not undo decisions | `TwinReview`, `TwinReviewProofs` |
| **Digital-twin ingestion** `pi-agent/digital-twin` | capture queues | capture, replay, write | gateway, voice agent | | not modelled |
| **Gondolin sessions** | virtual machines | start, exec, stop | hypervisor | | not modelled |
| **Trace tools; observability; deployment** | configuration | | | | not modelled |

How a task runs. The gateway derives or draws a request ID and sends `submit` to
the owner's private HTTP port, which forwards it to the owner's socket. The owner
writes the document entry and the native task in one commit. The harness starts
the handler, which runs a Python effect (renders, digital-twin tasks) or prepares
a workspace, runs a Pi session and finishes with an effect (agent runs, lyrics).
Progress is queued in memory and committed event by event. The process may be
killed or stopped at any time; launchd starts it again and the harness resumes
what was running. A song is two such tasks, lyrics and render, whose IDs are both
derived from the generation ID, and the song service puts its state together from
what the owner shows of them. A session that has given its answer is handed over to a bridge,
where the voice agent attaches to it; a turn then goes to that task instead of the voice agent's own
session. The reply of either is streamed: its speech is cut out of the JSON text as
it arrives, its presentation is normalised at the end.

What is hard here: an effect that must not run twice although its process may die
around it; progress commits that race the end of their task; aborts at any moment;
commands whose answer is lost; effects that outlive their owner and write into the same directory;
locks, checks and decisions made of several calls; settlements, answers and timeouts that
cross; and services that read the owner several times and act on what they read before.
The list, line by line, is `hazards` in `PROJECT.json`.

## 2. The modules

How they compose: `TaskOwner` implements `TaskContract`; `SongService` is built over an instance
of `TaskContract`, so what is shown there rests on that refinement. `TaskDesk` uses the
tasks of `TaskOwner` in the form that a client sees (states that only move forward, a cancel mark
that a task may outrun). `WorkspaceTask` has the inside of one handler: the effects, the
directory and the image between the "prepare" and "finish" points of `TaskOwner`. `TaskBridge` is
the session between them, and what `VoiceTurns` has as one remote turn is a `send` of
`TaskBridge`. `PresentationStream` extends `Presentation`. `MCOwnerHost` puts the lock
and the alert monitor, the programs launchd keeps on one host, into one run.

### TaskOwner (owner.ts)

One action per command and per step of a handler. The durable state is the document
(`inputJson`, `cancelledAt`, `progress`) and the task record (`status`, `phase`,
`outcome`, `restarts`, `parked`, `marked`); `pc` and `progressCount` belong
to the running handler; `queue` is the chain of progress commits it has started, which only its success
path awaits. All three are gone with the process.

| Code | Model |
| --- | --- |
| `submit`, `abort`, `retry`, `cancelProduct`, `get` | `Submit`, `Abort`, `Retry`, `CancelProduct`, `Get` |
| `ProductTask` phase `run` | `TaskStart`, `CommitIntent`, `Launch`, `Prepared`, `SessionProgress`, `SessionAnswered`, `EffectEnds`, `CommitCompleted` |
| its progress queue | `Report`, `CommitProgress`, `Refused` |
| phase `external` | `CommitReconcile` |
| `ValidationTask` | `FirstPoint` "hold", `CommitValidation` |
| abort handlers, thrown errors | `Unwind`, `CommitAborted`, `HandlerFails`, `CommitFailed` |
| `open`, `close`, SIGTERM, a kill | `Reopen`, `BeginClose`, `FinishClose`, `Crash` |

The harness is a library outside this repository. It is modelled from how owner.ts
and its tests use it: it runs a phase again after a restart, counts interrupted runs
and parks a task at `restartLimit` (owner.test.ts, "a crashed task parks ..."), `retryTask`
only re-enables a parked task (docs/architecture/absurd-to-pi-durable.md), an abort
is a durable mark, a signal and then the abort handler. Whether an orderly close
counts as an interruption is not settled by the code, so `Reopen` allows both. A
parked task that is marked may be aborted or may stay parked.

A handler that throws or is aborted leaves the progress commits it has queued behind, and they go on
while the harness settles the task. What becomes of one that comes after the task is terminal is the
library's answer: `Accepts` assumes that `runtime.commit` refuses it, and no less - a commit between the
throw and the terminal commit is taken. owner.ts relies on this without saying so:
without it such a commit would write "running" over the outcome, and `SettledIsFinal`
and its theorem would not hold. `Refused` drops the rest of the chain, as the first rejection does; the
rejection, which nobody handles, may also end the process, a `Crash` that is possible at this point as at any other.

Inputs are model values that stand for their kind. The three digital-twin kinds take
the same path and are one. The text of progress, its 240-character cut and the
repetition filter of eight seconds are left out: `SessionProgress` may or may not happen.
The cut of the progress feed at 2,000 entries is left out here, where `progress` is the
last event ID; it is in `TaskDesk`.

### TaskContract

What the clients rely on, in three variables: the input a request is bound to, the
verdict, the renders begun. `TaskOwner!Contract` is the refinement mapping, and
`ContractSpec` says that every step of the owner is a step of the contract or hidden.

### OwnerLease (lease.ts, serveOwner in owner-server.ts)

One action per file-system call: `Mkdir`, `WritePid`, `ReadPid`, `StatLock`, `Probe`,
`Reclaim`, `ReleaseRead`, `ReleaseRemove`, and around them `OpenStore`, `RemoveSocket`,
`Listen`, `Stop`, `Unbind`, `CloseStore`. `Age` makes the directory two seconds old.
Pids are not reused. The rounds that wait for a fresh directory are not counted: they
end when it is two seconds old, after twenty of the hundred rounds at most.

### AlertMonitor (stack_alert_monitor.py)

A pass is `Poll` or `PollFails`, then per alert `Record`, `Submit` and `Confirm`, then `Clear`; the
table survives `Restart`, the pass does not. A submission may be refused, lost, or taken without
an answer, and then the pass is over. Time counts polls. An instruction is the time at which its
evidence was collected.

What the code does and its users might not expect: the platform's README (313-315) promises "a
30-minute cooldown after resolution", but the cooldown is counted from the last submission
(stack_alert_monitor.py:218-221); an incident whose submission was never confirmed keeps its
first-seen time and its evidence when the alert comes back; an alert that comes back within the
cooldown and stays is not investigated again; a submission that fails leaves the later alerts
of that pass, and the clearing of those that are gone, to the next one.

### SongService (song_service.py, song_lifecycle.py, over TaskContract)

One action per owner command: `_get_owned` is two reads, a view two more. The owner is
the instance `Task` of `TaskContract` for the tasks "lyrics" and "render", with the
abort marks and the cancellation stamp added; `TaskDecides` lets a task end aborted only
if it is marked. The lyric session proposes a manifest, which is parsed and validated field by
field, the way the finishing effect and the service do it. The render is an effect process that may
outlive its owner; it stores the song object and then reports. `CallFails` is a command that
fails or a gateway that dies: earlier commands keep their effect. One identity and one
generation: a second one shares nothing with the first. The exchange with ACE-Step is one step,
and what an orphaned effect does after the verdict is left out.

### TaskDesk (service.py, the task endpoints of main.py and bot.py)

What each call becomes: a chain of owner commands and object reads, each an action
(`Submit`, `Describe`, `Abort`, `Result`, `Speech`, `Object`, `Progress`, `Narration`, `List`,
`ListResult`, `ListAnswer`, `Enqueue`), interleaved with two other actors, the tasks
themselves (`Report`, `Capture`, `Put`, `Complete`, `Fail`) and `CallFails`. A task waits for the capture
it has started itself; one that an earlier owner left behind may put its object over the same key at any
time, also when the task is settled. `ResponseFromText` is the nested unwrapping of a reply: the worker does
it once (`Stored`) and the gateway once more, over the stored response dumped to JSON (`Public`). A dump of
more than 70,000 characters (pi_response.py:89) is cut before it is parsed, and then it is no JSON any more and
the view is a status with its beginning; `Stored` has which responses are so large. That is a divergence
from what the worker is told: pi_response.py:38-39 promises "at most 64 KiB" of slides, which are accepted and
stored, but a response has the whole reply beside its presentation, so slides of some 35 KB are in the dump
twice and are not shown. `ViewsAgree` promises the stored reply only where its dump can be parsed. `Told` is what is
narrated: never that the agent has started (`Started`), and that a command runs (`Routine`) only if
there is nothing else.

Left as the code has it: a submission whose answer is lost and is repeated starts a second task; a
lookup by name only looks among the two newest tasks (service.py:183-187); a task whose
cancellation was confirmed may still complete; a reply nested deeper than four levels is unwrapped
further by the gateway; an artifact may be that of a capture without its owner, which was
still at work when the result's own had put its object; a narration is refused (409) when its window exceeds one page or is not
complete, and may start before events the owner has dropped; enqueue, get and cancel do not catch
the owner's RuntimeError, which clients see as status 500. `enqueue_daily_journal` is one
owner submission. The owner's limits and IDs are `TaskOwner`'s, overwritten objects `WorkspaceTask`'s.

### WorkspaceTask (artifacts.py, workspace_effect.py, ensure_execution_image.py)

One action per write. A publisher stores a bundle, then the pointer. A task is
submitted against the pointer. Its prepare effect is `Check`, `Clear`, `Download`, `InitTree`,
`Checkout`, `OpenMark`, `Mark`, `Inspect`, `Poll`, `Install`; the session edits and commits; its finish effect
is `Capture`, `Put`, `PutRest`. `Crash` kills the owner: each of its effects dies or
goes on as an orphan, beside the effects of the next owner. `effect[t][g]` is the effect of task `t`
that the `g`-th owner started. The history variable `overtaken` is set where an orphan
writes behind a session's back or a capture reads what an orphan left: `workspace_effect` has no
watchdog, so then nothing is promised, and the properties say so.

Left out: the mode without an artifact store; the checks on the form of names and paths; song
lyrics, whose finish stores no objects; follow-up prompts after the task has settled. The removal and new
creation of the directory is one step. Worth knowing: the marker is opened and then filled
(artifacts.py:209), and if the effect dies in between, every later prepare of the task finds a marker it cannot
read and fails (`torn`): the work is not wiped, and the task fails; `git diff HEAD` leaves out what the session
committed itself (hence `committed` in `ResultCoversAnswer`); the image of a resumed task is
planned from the HEAD of its workspace; the last publisher wins; cancelling the Gitea run does
not stop its docker build; README.md:208-211 says that the scratch directory is deleted, which no
code does.

### TaskBridge (session-execution.ts, remote-session.ts, remote-task-session.ts)

Owner and client are event loops; a step runs from one await to the next. The owner's side: `run`
through boot, open, start, answer, hand-over and unwinding, the abort signal, the bridge with its
server, `active` count, last answer and idle timer, the conversation with its queue. The
bridge listens before the instruction is submitted (`Listen`, then `Instruct`; the mode of the
socket is set in between), so a client may come and prompt first, and the instruction then waits behind it. The
client's side: attach, `send` with its state request, prompt, wait for the settlement and request of
the text, timeout and detach. The records of the bridge travel in order in `inbox`. Text
deltas are left out.

Where nothing is promised, because the code does not: an abort during the boot is missed; an abort while
the conversation opens closes the virtual machine only, and the run goes on; an abort
during `bridge.start` leaves a listening server and a registered session; a failing prompt is
reported in the error field of its settlement, at which `send` does not look, so it returns the previous answer;
the answer to a send that timed out may go to the next one; a prompt steered into a run shares its
answer.

### VoiceTurns (voice-agent, broker http.py, edge bot.py)

Calls wait in the queue of `SerialExecutor`; the head goes through binding, prompt or compaction,
or to the attached task. `Expire` is the service's timer, `GiveUp` the timeouts of broker and edge,
which start at the submission and not at the prompt. `work` is what Pi is still saying,
also for a turn that is over; `sink` the stream it goes to. All turns carry one system prompt; a session that
was made for a compaction, before any turn, lacks it and is replaced by the next turn (`prompted`, `Usable`). A
detach that the service applies after the edge has given up on it is, to the service, a task that closes its
bridge (`TaskCloses`). The edge admits a client, detaches once it has
disconnected and frees its guard when the pipeline ends. An answer is modelled by the
turn whose text it is.

Left as the code has it: a turn in which Pi said nothing is answered with the previous text of
the session (pi-session.ts:241); an abort does nothing while a turn is queued or binding; a failing
attach leaves the task ID set; resuming an unknown session has dropped the attachment by then; a
compaction has no timeout; closing a stream may abort another caller's turn; the broker's
`_validate_chat` knows three tools while the edge declares a fourth, so the chat of its Ollama mode
is refused (http.py:178-187).

### PresentationStream and Presentation (bot.py, presentation_response.py)

The characters of a reply are those the extractor tells apart; fragments are cut anywhere. The
extractor keeps a tail while it looks for the key, decodes an escape once its digits are complete,
and stops at the quote; the processor starts, streams, ends and cancels responses. Of an escape the model
has whether it stands for white space; which character it is is left out, and with it the pair of escapes
that the parser reads as one. After a backslash the extractor takes any character, JSON only some.
`Parse` reads the whole text at the end and shows it stripped, cut, and as "Done." if it is blank (`Shown`). `Normalize` is the normaliser: one
operator per kind of presentation, with the camera of an Excalidraw scene widened and inserted
as the code does it. Sizes and places are integers, a shape has both, and a camera is 4:3 exactly:
the code's defaults and its tolerance of a hundredth are left out.

Left as the code has it: a nested reply is streamed raw while it is shown decoded; a scene that
is full gets a camera all the same (81 elements where pi_response.py accepts 80); the streamed
speech is not cut at 2,000 characters, the shown one is; a truncated reply keeps what was spoken; evidence that
ends beyond its transcript is accepted; an ID that is cut at its largest length may end in a blank, which
is stripped if it is normalised again (`Stable` excepts this and the full scene); a key split over more than 64 characters is not found.
A reply whose text is nothing but blanks is the one that the voice leaves silent while the browser shows
"Done.": its blanks count as streamed. `ShownIsSpoken` relates the two through `Shown` and states its exceptions by name.

### TwinReview (gateway main.py)

One action per request to the RDF store. Endpoints that check before they write make two, and
others come in between. An update that is not answered in five seconds fails for the caller and
may be applied later, or never. A property of a subject is a set of values, as in the store. One candidate, one
entry and one daily page: an update names its subject.

## 3. The runs

| Run | Instance | Checks |
| --- | --- | --- |
| `owner_kinds` | 1 request, 5 kinds, restart limit 2, 2 progress events, 3 exits of the process | no render begins twice (`RenderAtMostOnce`); reported outcomes are true (`HonestOutcome`); a confirmed submission stays bound (`ToldIsBound`); the inductive invariant (`IInv`); terminal is terminal (`SettledIsFinal`); refinement of `TaskContract` (`ContractSpec`); every task settles or parks (`AdmittedSettles`) |
| `lease_handover` | 2 processes, both alive, 1 crash, no stall of two seconds (`PromptSteps`); beside them the alert monitor with one alert and the outage, cooldown 3, patience 2, 5 polls | one process has the store (`OneStoreOwner`) and its socket is the bound one (`SocketIsServed`); whoever is alone gets it (`SoleOwnerAcquires`); an incident is investigated once (`Investigations`) |
| `lease_race` | 3 processes, 2 alive, no crash, no stall | `OneStoreOwner` fails (finding) |
| `song_views` | create, then any number of calls with two in flight, 2 trace contexts, calls that fail half-way | clients are shown a song that only moves forward (`ViewsMoveForward`); a render is of complete lyrics (`RenderIsApproved`); audio offered is there (`CompleteHasAudio`) |
| `song_cancel` | the same, without failing calls | `CancelStopsWork` fails (finding) |
| `twin_review` | 4 calls, 2 kinds, 2 texts, 1 update or query unanswered | decisions are on record (`DecisionOnRecord`), made once (`OneDecision`); corrections stand (`CorrectionsStand`); deleted entries stay hidden (`DeletedStaysHidden`) |
| `reply_stream` | 2 responses whose text is a body of up to 2 characters, a whole escape or a text between blanks of any kind, in every shape of the object around it, complete or cut off; chunks of up to 3, window 3, 2 hex digits; scenes of up to 2 elements (3 sent), graphs of 2 nodes and 1 edge (3 nodes sent) | speech is the reply's own (`SpeechOfReply`) and what the app shows (`ShownIsSpoken`); a scene is consistent (`AppIsConsistent`) |
| `voice_turns` | 2 operations (turns, typed or spoken, or compactions), 2 voice clients, 2 sessions, 1 task to attach | callers hear their own turn (`HeardIsOwn`), are answered with it (`SpokenIsAnswered`), in their session (`SessionKept`); one voice client (`OneVoiceClient`); every turn ends (`EveryTurnEnds`); the guard is freed (`GuardReleased`) |
| `voice_detach` | the same | `AttachmentReleased` fails (finding) |
| `task_bridge` | 1 client with 2 prompts, an abort at any point | no settlement is missed (`SettledIsSeen`); an answer is not older than its prompt (`AnswerIsOwn`); no prompt is cut off by the idle timer (`FollowUpsFinish`); the virtual machine is given back (`EnvironmentReleased`) |
| `workspace_task` | 3 publishers of 3 commits, each of which may stop after its bundle, before the task works; 1 task, 1 edit, 2 builds, 1 crash | names lead to complete bundles (`SnapshotsResolve`); a session has all its work (`WorkSurvives`); a result covers the answer (`ResultCoversAnswer`); every task settles (`EveryTaskSettles`) |
| `task_desk` | 2 calls; 1 task with 2 captures, 3 progress events kept of 4, the first a start and one routine, pages of 2; 1 task with replies of no, 2 and 3 levels, small and large, 2 levels of unwrapping; 2 tasks in lists and lookups; ingestion with 2 bodies | every way to ask gives one outcome (`ViewsAgree`); a download is of the result's capture or of one left then (`DownloadIsResult`); a narration has no gap (`NarrationIsWhole`); ingestion of a message agrees on its body (`IngestionAgrees`) |

Each module also has a `TypeOK` that declares the types of its variables; where proofs exist it, or
what they need of it, is part of the inductive invariant.

Bounds, and why they are enough.

- *Owner.* Requests share only the process, so one request of every kind meets every case of its
  own life; three exits are a first interruption, one that parks at limit 2, and one after a
  retry; two progress events leave one queued while the other is committed. The competing inputs
  of `submit` need no second request. The theorems hold for any number of each.
- *Lock.* A stale pid needs three processes: one that is gone, one that read its pid, one that took
  over. That is `lease_race`; with two the promise holds. The monitor only meets the owner in a
  submission, which `AlertMonitor` lets fail at any time, so the two need not be interleaved;
  five polls are an incident, its resolution, a return after the cooldown and one to spare.
  The theorems hold for any number of kills, rounds, alerts and polls.
- *Songs.* Calls are made again and again, two at a time, so every pair of operations overlaps
  after every history; two trace contexts are two renders that conflict.
- *Endpoints of the twin.* Four calls are a capture, two writers that race and one that reads or
  repeats. The theorems hold for any number.
- *Replies.* The extractor's window, the length of an escape and the limits of a scene are
  parameters; they are scaled down so that a reply can pass each of them, with every fragmentation.
- *Voice.* Two operations are a running one and one behind it in the queue, or one that has left
  something behind and its successor; two clients are one that is there and one that arrives.
- *Bridge.* Each of the two prompts meets the timer, the abort and the other prompt. Two clients with two
  prompts between them have been checked apart (4.6 million states, the three invariants); the theorems hold
  for any number of clients and prompts.
- *Workspace.* One crash leaves one orphan beside one restarted effect, which the code never
  exceeds within the life of one directory in a new way: every further crash repeats it. Three publishers are
  one whose pointer is overwritten, the one that overwrites it, and one between its bundle and its pointer. They
  race before the task works, and only one publishes beside it (`MCApart`): a task reads the pointer once, when it
  is submitted, and bundles are never changed. The theorems hold for any number.
- *Task desk.* One more event than the feed keeps, one more than a page holds, calls that read
  twice across a commit; two captures are one that an exit left behind and the one of the next owner. What shares
  no state or is not about the same is explored apart (`MCApart`): ingestions, one task with its progress and
  captures (`MCWorking`), one task with every shape of reply (`MCViewing`), and lists of two tasks beside calls
  that submit or get one (`MCListing`). The
  theorems need neither the bounds nor that separation.

Symmetry is declared where the members of a set are interchangeable and no liveness is checked.
Deadlock is checked for the owner, which always has something it may do. Elsewhere the
programs do end: calls are answered, sessions closed, time is bounded.

Fairness, and why the code justifies it.

- *Owner.* launchd restarts it (`KeepAlive`) and an orderly close ends: `Reopen`, `FinishClose`.
  The harness schedules runnable and marked tasks and handlers run on: `TaskStart`, `HandlerStep`,
  `Unwind`, `CommitAborted`. That includes that effects and sessions end, which this code does not bound
  by itself; `AdmittedSettles` is about the owner, given that they do. Nothing is assumed of
  commands, failures and crashes, and a parked task need not be retried.
- *Lock.* A started process runs its loop; time passes, so that a lock directory becomes two seconds
  old if it stands still for long enough often enough (strong fairness of `Age`).
- *Voice.* The service goes on with what it can and the edge ends the session of a client that left.
  The model may never stop by itself, a compaction may never end, nobody need ask or
  disconnect. `EveryTurnEnds` follows from the service's own timer, unless a compaction hangs.
- *Workspace.* The living owner's handler goes on, and an effect that can do nothing fails. Builds
  need not end and orphans need not move: it is the deadline of the polling that settles a task.
- *Bridge.* The owner's event loop goes on. Nobody has to attach, prompt or answer.

### Findings

`lease_race`. The lock is not exclusive. Process A stops. B read A's pid before, finds A gone
and is about to remove the lock; A's own release has removed it and C has made a new one.
B removes C's directory and makes its own; C writes its pid into B's. Both open the store. It
takes two processes starting while a third stops; under launchd alone that does not happen, but
the README of the component promises it for any process. With two processes the promise holds
(`lease_handover`, theorem `TwoProcesses`), if none stalls for two seconds between reading an empty
pid file and the stat of its directory, or between mkdir and the pid. And it is the reclaim alone: if
every reclaim met a lock that nobody holds, one process would have the store, however many there are and
wherever they stall (`OnlyReclaimRaces`).

`song_cancel`. Cancel chooses the task to abort from the row it read before. A render that
passed its checks before the stamp and submits after it leaves a render task that nobody
aborts, on a song that is cancelled; a second cancel does nothing.

`voice_detach`. The README of the product says that disconnecting the voice releases the attachment. The edge
detaches once, when its client has gone, and does not wait for the turn that is still running. A
turn that attaches a task after that leaves the attachment with nobody connected, and later turns
go to the task until the next client disconnects.

Smaller divergences, for which no run was made, are in the notes of each module above.

## 4. The proofs

All theorems hold for every value of the constants that satisfies the named assumption.

| Module | Theorem | Property | Assumption |
| --- | --- | --- | --- |
| `TaskOwnerProofs` | `TypeCorrect`, `Invariance` | `TypeOK`, `IInv` | `OwnerAssumption` |
| | `AtMostOnce`, `Honest`, `Idempotent` | `RenderAtMostOnce`, `HonestOutcome`, `ToldIsBound` | |
| | `BoundedRestarts`, `Final` | `RestartBudget`, `SettledIsFinal` | |
| | `Refinement` | `ContractSpec` | |
| `VoiceProofs` | `OneClient` | `OneVoiceClient` | none |
| | `ServiceInvariance`, `OwnWords`, `OwnAnswer`, `OwnSession` | `ServiceInv`, `HeardIsOwn`, `SpokenIsAnswered`, `SessionKept` | |
| | `StreamInvariance`, `SpeechFollows`, `SpokenAsShown` | `StreamInv`, `SpeechOfReply`, `ShownIsSpoken` | `StreamAssumption` |
| | `ShownConsistent` | `AppIsConsistent` | `StreamAssumption`, `PresentationAssumption` |
| `WorkspaceTaskProofs` | `Snapshots` | `SnapshotsResolve` | `WorkspaceAssumption`, `NothingAssumption` |
| | `WorkInvariance`, `Survival`, `Coverage` | `WorkInv`, `WorkSurvives`, `ResultCoversAnswer` | |
| `SongServiceProofs` | `SongInvariance`, `Forward`, `Approved`, `Audio` | `SongInv`, `ViewsMoveForward`, `RenderIsApproved`, `CompleteHasAudio` | `SongAssumption` |
| `TaskDeskProofs` | `DeskInvariance`, `OneView`, `Downloads` | `DeskInv`, `ViewsAgree`, `DownloadIsResult` | `DeskAssumption`, `ReplyAssumption` |
| | `WholeNarrations`, `OneBody` | `NarrationIsWhole`, `IngestionAgrees` | |
| `TaskBridgeProofs` | `BridgeInvariance` | `BridgeInv` | `PromptBound` |
| | `NoSettlementMissed`, `OwnAnswers`, `FollowUps` | `SettledIsSeen`, `AnswerIsOwn`, `FollowUpsFinish` | |
| `OwnerHostProofs` | `OnlyReclaimRaces` | `OneStoreOwner`, if no lock is reclaimed from a holder | `LeaseAssumption` |
| | `TwoProcesses` | `OneStoreOwner` | and two processes, `PromptSteps` |
| | `ServedSocket` | `SocketIsServed`, if `OneStoreOwner` | |
| | `MonitorInvariance`, `OneInvestigation` | `MonitorInv`, `Investigations` | `MonitorAssumption` |
| `TwinReviewProofs` | `TwinInvariance`, `OnRecord`, `Once` | `TwinInv`, `DecisionOnRecord`, `OneDecision` | `TwinAssumption` |
| | `Corrected`, `Deleted` | `CorrectionsStand`, `DeletedStaysHidden` | |

*Owner.* That a render begins at most once needs that its checkpoint is durable before the effect begins
and that no handler that starts afterwards goes to the launch (`IntentInv`); that needs that a handler runs
only for a running task of a live process, and that nothing is queued before the launch of a run and
nothing for a task that waits to be run (`HandlerInv`), because a progress commit writes status and phase; that needs that entry and task exist
together (`EntryInv`). `HonestOutcome` needs in addition that a task in the "external" phase which is not
running was interrupted by an exit (`ExitInv`) and that outcome and status agree (`OutcomeInv`).
`IInv` is their conjunction with `TypeOK` and `ToldInv`. The proof goes action by action
(`TypeStep`, `InvStep`); the terminal commits share the lemmas `SettleType` and `SettleStep`.
`Final` and `Refinement` are proved of a single step from `IInv`; `Final` rests on the assumption `Accepts`.

*Voice.* The edge's guard is proved alone (`EdgeInv`: a client beyond the guard is the one that
holds it). For the service, what is queued is queued once and not answered yet (`QueueInv`); what Pi
is still saying belongs to a turn that was prompted in the session it was asked in, and the stream it goes
to is that turn's (`WorkInv`); the last text of a session is that of a turn of this session, and of the
running one if it has spoken (`LastInv`). A session is replaced only while nothing is queued,
which is why a turn finds its session; that is the step `PiSessions` against `QueueInv`.

*Spoken replies.* Three readings of one text have to agree: in chunks as it arrives, at once, and unit by
unit as JSON reads it. `StreamInv` says that the extractor is where the text received so far puts it
(`Extracts`), for any chunks: while the key is looked for it keeps the end of that text, in which a key that
fits the window ends wherever it ends in the text (`WindowFinds`); from then on decoding the text in
two parts is decoding it (`DecodeConcat`), and what a chunk adds is independent of what was decoded before it
(`DecodeSaid`). A string that JSON accepts is decoded to its units (`UnitsDecoded`); the two meet in
`StringSpoken`. A start resets all of it, which is why an interruption, also in the middle of an escape,
does no harm (`StartKeepsInv`). The recursions are functions on the places of a text, so the proofs
are by well-founded induction over a set of numbers (`FromBelow`).

*Shown apps.* What the model sends is read as a value of `IsRaw`, of any size. Each kind that is rebuilt gets a
form that implies `Consistent` and that normalising keeps: `GoodFlow` (node IDs that were stripped and are
distinct, edges between them) and `GoodDrawing` (shapes with IDs of their own, 4:3 cameras that were sent as
they are or show every shape). `FlowIsGood` and `DrawingIsGood` reach it, `GoodFlowStays` and
`GoodDrawingStays` keep it; the other kinds pass unchanged or become the fallback, which is a good
flow itself. What stays of a sequence is `Only`, and `From` that it stays in its order.
The camera rests on `NeededIs`: the room it is given is enough for every shape.

*Workspace.* `StoreInv` says that bundles are stored before they are pointed at and never removed. `StepInv` says
for each task what its handler knows at each of its points, `DirInv` that the marker is there exactly when
the checkout was complete and that from then on the directory holds the snapshot and every edit, unless an
orphan wrote behind the session's back (`overtaken`), `ImageInv` that a session has its image,
and `ResultInv` that every capture comes after the answer, so that it does not matter which
attempt's objects the result ends up naming.

*Songs.* Every status that is shown stands for something in the owner that never goes away (`Evidence`): a
bound render, a verdict, a cancellation. The owner's part (`OwnerInv`) says that a render is of complete
lyrics, that its result is of the effect that stored the song, and that only a cancellation aborts. A call
decides on what it read some steps ago, so `CallInv` says for each of its points that what it has read still
holds and is not older than what was shown before the call began: a call that begins after "cancelled" was
shown reads the stamp, one that begins after "complete" reads the render's row. These proofs are over
`TaskContract`, whose instance in the owner is the theorem `Refinement`.

*Task desk.* A call is a chain of reads, and tasks go on between them. `ReadInv` says what it read that
stays so: a completed task, the body of the journal, and of the rows of a list those that were settled,
or were shown settled before the call began (`Holds`); a row that was read as running may be out of date
and contradicts nobody. `ToldInv` ties what was shown to what the task still has, and `Stays` is what every
step keeps: tasks are only added, a settled one never changes its view. That a reply is shown
as stored is the lemma `Unwrapped`: without levels of its own and of a dump that is parsed whole, opened once more
it is itself; all views of a settled task agree whether it can be parsed or not. An object may change after
the end: `PutInv` follows the captures, and says that the owner's own had put its object by then and that whatever
overwrites it was at work at that time.
That a narration is whole is the lemma `PageIsPrefix`: a page that reaches an event has all kept ones before.

*Bridge.* A client must not wait for a settlement that it has read already, although responses and
settlements reach it on one socket in the order of the owner's turns. `TalkInv` says that a prompt waits in one
place and that unfinished ones are counted, `PhaseInv` that nobody is attached before the session listens,
that the instruction is not submitted before it does and that an idle close finds nobody, `SocketInv` that a response is on a socket only while its request
waits and that nothing follows the end, and `SendInv` that a send whose prompt is over has heard of it, and
that what it heard came with a last answer newer than its prompt.

*Lock.* `HoldInv`: at most one process is between mkdir and the end of its release, the directory is there
and has its pid, or none while it is about to write. Every step keeps that but a reclaim
under a holder. With two processes there is none, since `WaitInv` says what a waiting process may conclude:
whoever made a directory or wrote a pid never waits again, a directory that is about to get its pid is
young, and one that reclaims has seen another process gone, which is the only other one.

*Alert monitor.* Between a submission and its record lie a kill and a lost answer. What makes the
repetition harmless is that its ID and its instruction come from the row, which was written first
(`RowInv`). `TakenInv` says that no request is newer than the row, in time and in incident,
`PairInv` that two requests for one alert are for two incidents and a cooldown apart, `GoneInv` that an
alert that has gone comes back as a later incident, and `PassInv` what the pass knows of its alerts.

*Digital twin.* A candidate nobody else writes has at most one call in flight (`AloneInv`: a second one is
noticed when it begins), so a decision that has passed its check still finds it pending when its
update is applied, however late (`DecisionInv`); the same for the kind that a feedback has read
(`EntryInv`). With concurrent or repeated writes a status may be decided twice, but it always has
its event (`RecordInv`).

Out of the prover's reach, and so only model-checked: liveness under fairness (`AdmittedSettles`,
`SoleOwnerAcquires`, `EveryTurnEnds`, `GuardReleased`, `EveryTaskSettles`, `EnvironmentReleased`).
`OneStoreOwner` is not a theorem for three processes: `lease_race` refutes it.

## 5. Not modelled

- *Digital-twin ingestion and the cognitive journal*: a sequence of model calls; what they write goes
  through the endpoints in `TwinReview`.
- *The virtual machine and its tools*: file access and commands of a session wrap an external
  hypervisor; of the image builder only the build and its archive matter to the platform.
- *Audio*: transcription, synthesis, the pipeline and the browser client are external frameworks
  and signal processing.
- *Trace and review tools, exporters, Gitea synchronisation, deployment, benchmarks*: read-only,
  or without state of their own. The launchd policy of the owner is part of its fairness.
- *Libraries*: the pi-durable harness and conversation, the RDF store, S3, git and Gitea appear by what
  the code relies on; their definitions are marked external in `PROJECT.json`.

Also left out of `TaskOwner` and `OwnerLease`, where the code promises nothing: a pid that has been
given to another process keeps a dead owner's lock; an orderly stop that hangs is not ended; an
unhandled rejection in the progress queue ends the process (a `Crash`), beyond the bound on exits too; sessions are closed
before their tasks, which then fail.

What would come next: a lock that is taken from a dead owner atomically, and its proof for any
number of processes.
