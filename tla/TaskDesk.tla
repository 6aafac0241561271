------------------------------ MODULE TaskDesk ------------------------------
(***************************************************************************)
(* The clients of durable tasks: what a call of the browser or of the      *)
(* conversational agent (bot.py) becomes in the gateway (main.py) and in   *)
(* TaskService (service.py): a chain of owner commands and object reads.   *)
(* Tasks run, other calls commit, and the owner may fail to answer between *)
(* any two links.                                                          *)
(*                                                                         *)
(* Tasks are numbered in the order of their admission.  A row never        *)
(* changes once it is described, so only the first describe of a call is a *)
(* step.  Identity and bearer tests have no state and are left out: there  *)
(* is one owner.  Task 0 stands for an ID that is unknown or another's.    *)
(***************************************************************************)
EXTENDS Naturals, Sequences, FiniteSets, FiniteSetsExt

CONSTANTS
  Calls,
  Workspaces,      \* Scratch, repositories, and None for one that does not resolve
  Scratch,
  Name(_),         \* the session name of a task
  Names,           \* those that are asked for
  Replies,         \* the final texts of the sessions
  Unwraps,         \* how many levels of JSON response_from_text opens (4)
  Started,         \* the progress events that only say that the agent has started
  Routine,         \* those that only say that a command runs
  ProgressLimit,   \* events kept per task (2000)
  PageSize,        \* events per page of progress (40)
  ListLimit,       \* tasks asked for by a lookup by name (2)
  Bodies,          \* bodies of the ingestion of one message: transcript, capture time
  None,
  MaxTasks, MaxEvents, MaxCaptures   \* bounds

ASSUME DeskAssumption ==
  /\ {Unwraps, ProgressLimit, PageSize, ListLimit} \subseteq Nat \ {0}
  /\ {MaxTasks, MaxEvents, MaxCaptures} \subseteq Nat
  /\ Scratch # None /\ None \notin Bodies

\* A text is its levels and its words.
ASSUME ReplyAssumption == \A text \in Replies : text = [levels |-> text.levels, end |-> text.end]

VARIABLES
  tasks,    \* the agent-run tasks, the captures of their results and their objects
  ingest,   \* the two ingestion tasks of a message, by mode: the body each is bound to
  call,     \* the calls in flight
  told,     \* history: the final view of a task that some client was shown
  last      \* history: the call that this step answered, with its answer

vars == <<tasks, ingest, call, told, last>>

Modes == {"journal", "classify"}
Settled == {"completed", "failed", "cancelled"}
Ids == 1 .. MaxTasks
NoCall == [op |-> "none", at |-> "over", task |-> 0, name |-> None, rows |-> <<>>,
           since |-> [i \in Ids |-> None]]

Init ==
  /\ tasks = <<>>
  /\ ingest = [m \in Modes |-> None]
  /\ call = [c \in Calls |-> NoCall]
  /\ told = [i \in Ids |-> None] /\ last = None

-----------------------------------------------------------------------------
(* The response of a task.  A text is JSON objects, one in the field       *)
(* "spoken" of the other, around words: the presentation of each level,    *)
(* None where it has none, and the words, "" where there are none.         *)

Shown == {"flow", "excalidraw", "slides", "fallback"}
Words(w) == [levels |-> <<>>, end |-> w]

\* The level that the loop of response_from_text ends at, 0 when the text is no object.
Reached(text) ==
  Max({0} \cup {k \in 1 .. Len(text.levels) :
                  k <= Unwraps /\ \A j \in 2 .. k : text.levels[j] # None})

\* response_from_text: what is spoken, and a presentation of a kind and size that can be
\* shown, or the fallback.
ResponseFromText(text) ==
  LET k == Reached(text)
      rest == [text EXCEPT !.levels = SubSeq(@, k + 1, Len(@))]
  IN [spoken |-> IF rest = Words("") THEN Words("Task completed.") ELSE rest,
      presentation |-> IF k > 0 /\ text.levels[k] \in Shown THEN text.levels[k]
                                                             ELSE "fallback"]

\* What the worker stores: the response, and whether its dump to JSON is longer than what
\* response_from_text parses (70,000 characters).  It has the whole reply beside the two.
Stored(text, large) ==
  LET r == ResponseFromText(text) IN
  [spoken |-> r.spoken, presentation |-> r.presentation, large |-> large]

\* The gateway normalises the stored response again, dumped to JSON.  A dump that is cut is
\* no JSON any more: its beginning is spoken, as it stands.  (A reply that the worker cut
\* is one of words alone, and so is the rest of one that is cut where it is spoken; a blank
\* that this cut leaves at the end is stripped here, and is no part of the words.)
\* Results of the time before responses were stored (stdout) are left out.
Public(response) ==
  IF response.large
    THEN ResponseFromText(Words("cut"))
    ELSE ResponseFromText([levels |-> <<response.presentation>> \o response.spoken.levels,
                           end |-> response.spoken.end])

-----------------------------------------------------------------------------
\* A step that answers nothing.
Quiet == last' = None /\ UNCHANGED told

(* The tasks, as TaskOwner and WorkspaceTask let them go on. *)

\* An event of progress; the first one shows that the task runs.
Report(i) ==
  /\ tasks[i].state \in {"pending", "running"} /\ tasks[i].events < MaxEvents
  /\ tasks' = [tasks EXCEPT ![i].state = "running", ![i].events = @ + 1]
  /\ Quiet /\ UNCHANGED <<ingest, call>>

\* The finish effect starts to capture the result; after a restart another does.
Capture(i) ==
  /\ tasks[i].state = "running" /\ tasks[i].captures < MaxCaptures
  /\ LET a == tasks[i].captures + 1 IN
     tasks' = [tasks EXCEPT ![i].captures = a, ![i].putting = @ \cup {a}]
  /\ Quiet /\ UNCHANGED <<ingest, call>>

\* A capture puts its object, over that of another.  Nothing stops one whose owner has died:
\* it may do so when the task is settled, or never.
Put(i) ==
  /\ \E a \in tasks[i].putting :
       LET left == tasks[i].putting \ {a} IN
       tasks' = [tasks EXCEPT ![i].object = a, ![i].putting = left,
                              ![i].late = IF a = tasks[i].captures THEN left ELSE @]
  /\ Quiet /\ UNCHANGED <<ingest, call>>

\* Mutant: the owner does not wait for its finish effect.
CompleteEarly(i) ==
  /\ tasks[i].state = "running" /\ tasks[i].captures > 0
  /\ \E text \in Replies, large \in BOOLEAN :
       tasks' = [tasks EXCEPT ![i].state = "completed", ![i].response = Stored(text, large),
                              ![i].result = tasks[i].captures]
  /\ Quiet /\ UNCHANGED <<ingest, call>>

\* The owner commits the result when the effect that it started itself, the latest, is done.
\* Captures of earlier owners may be left.
Complete(i) ==
  /\ tasks[i].state = "running"
  /\ tasks[i].captures > 0 /\ tasks[i].captures \notin tasks[i].putting
  /\ \E text \in Replies, large \in BOOLEAN :
       tasks' = [tasks EXCEPT ![i].state = "completed", ![i].response = Stored(text, large),
                              ![i].result = tasks[i].captures]
  /\ Quiet /\ UNCHANGED <<ingest, call>>

\* The handler fails, or it unwinds and the abort handler commits.
Fail(i) ==
  /\ tasks[i].state \notin Settled
  /\ tasks' = [tasks EXCEPT ![i].state = IF tasks[i].marked THEN "cancelled" ELSE "failed"]
  /\ Quiet /\ UNCHANGED <<ingest, call>>

-----------------------------------------------------------------------------
(* Calls. *)

Request(c, op, at, name, task) ==
  /\ call[c].at = "over"
  /\ call' = [call EXCEPT ![c] = [NoCall EXCEPT !.op = op, !.at = at, !.name = name,
                                             !.task = task, !.since = told]]
  /\ Quiet /\ UNCHANGED <<tasks, ingest>>

\* The endpoints of the edge: one task is asked for in one of the ways there are, ...
AskTask(c) ==
  \E op \in {"get", "cancel", "speech", "artifact", "progress", "narration"},
     i \in 0 .. Len(tasks) : Request(c, op, "describe", None, i)

\* ... a task is submitted, or all are listed.
AskSubmit(c) == Request(c, "submit", "submit", None, 0)
AskList(c) == Request(c, "list", "list", None, 0)

\* A tool of the conversational agent: a task is looked up by its name.
AskFind(c) == \E n \in Names : Request(c, "list", "list", n, 0)

\* The digital twin: a message is handed over, possibly again.
AskIngest(c) == \E b \in Bodies : Request(c, "ingest", "journal", b, 0)

Goto(c, at) == call' = [call EXCEPT ![c].at = at] /\ Quiet

\* The call is over with an answer: a value, the views of tasks, or an error.
Ends(c, answer) ==
  /\ last' = IF answer = None THEN None
             ELSE [op |-> call[c].op, task |-> call[c].task, since |-> call[c].since,
                   answer |-> answer]
  /\ call' = [call EXCEPT ![c] = NoCall]
Answer(c, answer) == Ends(c, answer) /\ UNCHANGED told
Error(c) == Answer(c, None)
Show(c, views) ==
  /\ Ends(c, views)
  /\ told' = [i \in Ids |->
                IF i \in DOMAIN views /\ views[i].state \in Settled /\ told[i] = None
                  THEN views[i] ELSE told[i]]

\* The owner, the store or a proxy does not answer, before a command or after it has taken
\* effect: the client is told of an error.
CallFails(c) ==
  /\ call[c].at # "over"
  /\ Error(c)
  /\ UNCHANGED <<tasks, ingest>>

\* A task: its captures so far, those that have still to put their object, the one whose
\* object is there; history: the capture that the result names, those that were left when
\* the latest one put its object.
NewTask(w) ==
  [workspace |-> w, state |-> "pending", marked |-> FALSE, events |-> 0,
   captures |-> 0, putting |-> {}, object |-> 0, result |-> 0, late |-> {}, response |-> None]

\* TaskService.submit: the workspace resolves or the call ends; a new ID is drawn, so a
\* repeated call is another task.
Submit(c) ==
  /\ call[c].at = "submit"
  /\ \E w \in Workspaces :
       IF w = None
         THEN Error(c) /\ UNCHANGED tasks
         ELSE /\ Len(tasks) < MaxTasks
              /\ tasks' = Append(tasks, NewTask(w))
              /\ call' = [call EXCEPT ![c].at = "result", ![c].task = Len(tasks) + 1]
              /\ Quiet
  /\ UNCHANGED ingest

\* _get_native_owned.
Describe(c) ==
  /\ call[c].at = "describe"
  /\ IF call[c].task = 0
       THEN Error(c)
       ELSE Goto(c, CASE call[c].op = "cancel" -> "abort"
                      [] call[c].op = "progress" -> "page"
                      [] OTHER -> "result")
  /\ UNCHANGED <<tasks, ingest>>

\* The owner marks the task, unless it is terminal; it may complete nevertheless.
Abort(c) ==
  /\ call[c].at = "abort"
  /\ tasks' = [tasks EXCEPT ![call[c].task].marked = @ \/ tasks[call[c].task].state \notin Settled]
  /\ Goto(c, "result")
  /\ UNCHANGED ingest

\* owner.get, as _public_task_result shows it.
Snapshot(i) ==
  LET t == tasks[i] IN
  [state |-> t.state,
   response |-> IF t.state = "completed" THEN Public(t.response) ELSE None]

\* Mutant: an artifact is served without a look at the result.
ResultUnchecked(c) ==
  /\ call[c].at = "result" /\ call[c].op # "speech"
  /\ CASE call[c].op = "artifact"  -> Goto(c, "object")
       [] call[c].op = "narration" -> Goto(c, "page")
       [] OTHER                    -> Show(c, [j \in {call[c].task} |-> Snapshot(j)])
  /\ UNCHANGED <<tasks, ingest>>

\* The result is read.  submit, get and cancel answer with the view; an artifact needs a
\* completed result that names it; narration goes on to the progress.
Result(c) ==
  /\ call[c].at = "result" /\ call[c].op # "speech"
  /\ LET i == call[c].task IN
       CASE call[c].op = "artifact" /\ tasks[i].state = "completed" -> Goto(c, "object")
         [] call[c].op = "artifact" /\ tasks[i].state # "completed" -> Error(c)
         [] call[c].op = "narration"                                -> Goto(c, "page")
         [] OTHER                                   -> Show(c, [j \in {i} |-> Snapshot(j)])
  /\ UNCHANGED <<tasks, ingest>>

\* task_spoken_text: the response of a completed task is spoken.
Speech(c) ==
  /\ call[c].at = "result" /\ call[c].op = "speech"
  /\ LET i == call[c].task IN
       IF tasks[i].state = "completed" THEN Show(c, [j \in {i} |-> Snapshot(j)]) ELSE Error(c)
  /\ UNCHANGED <<tasks, ingest>>

\* get_task_artifact: the object of the one name that the workspace's kind has, or an error.
Object(c) ==
  /\ call[c].at = "object"
  /\ LET t == tasks[call[c].task]
         name == IF t.workspace = Scratch THEN "workspace" ELSE "patch"
     IN \E asked \in {"workspace", "patch"} :
          Answer(c, IF asked = name THEN [object |-> t.object] ELSE None)
  /\ UNCHANGED <<tasks, ingest>>

\* The events that are kept, and the page of them after a cursor.
Kept(i) == {e \in 1 .. tasks[i].events : e + ProgressLimit > tasks[i].events}
Page(i, after) ==
  LET later == {e \in Kept(i) : e > after} IN
  {e \in later : Cardinality({d \in later : d < e}) < PageSize}

\* What is told of some events: not that the agent has started, and routine ones only when
\* there are no others.
Told(events) ==
  LET news == events \ Started IN IF news \subseteq Routine THEN news ELSE news \ Routine

\* Mutant: the narrated page need not reach the end of the window.
NarratedCut(i, after, through) ==
  LET selected == {e \in Page(i, after) : e <= through} IN
  IF selected = {} THEN None ELSE Told(selected)

\* summarize_owned_task_progress: the events after one cursor through another, if the page
\* reaches that far.
Narrated(i, after, through) ==
  LET selected == {e \in Page(i, after) : e <= through} IN
  IF through \notin selected THEN None ELSE Told(selected)

\* A page of progress.
Progress(c) ==
  /\ call[c].at = "page" /\ call[c].op = "progress"
  /\ \E after \in 0 .. MaxEvents :
       Answer(c, [after |-> after, through |-> MaxEvents, events |-> Page(call[c].task, after)])
  /\ UNCHANGED <<tasks, ingest>>

\* Its narration, or an error: the narrator's own failures are CallFails.
Narration(c) ==
  /\ call[c].at = "page" /\ call[c].op = "narration"
  /\ \E after \in 0 .. MaxEvents : \E through \in after + 1 .. MaxEvents :
       LET events == Narrated(call[c].task, after, through) IN
       Answer(c, IF events = None THEN None
                 ELSE [after |-> after, through |-> through, events |-> events])
  /\ UNCHANGED <<tasks, ingest>>

-----------------------------------------------------------------------------
(* list, and the lookup by name that is a list with a limit. *)

Newest(n) == {i \in 1 .. Len(tasks) : i + n > Len(tasks)}

\* The owner takes the newest rows, whatever their names, ...
List(c) ==
  /\ call[c].at = "list"
  /\ LET rows == Newest(IF call[c].name = None THEN MaxTasks ELSE ListLimit) IN
       call' = [call EXCEPT ![c].at = "rows", ![c].rows = [i \in rows |-> None]]
  /\ Quiet /\ UNCHANGED <<tasks, ingest>>

\* Mutant: results are matched to rows wrongly, each to the oldest row.
ListResultShifted(c) ==
  /\ call[c].at = "rows"
  /\ \E i \in DOMAIN call[c].rows :
       /\ call[c].rows[i] = None
       /\ call' = [call EXCEPT ![c].rows[i] = Snapshot(Min(DOMAIN call[c].rows))]
  /\ Quiet /\ UNCHANGED <<tasks, ingest>>

\* ... and then reads each result in a turn of its own.
ListResult(c) ==
  /\ call[c].at = "rows"
  /\ \E i \in DOMAIN call[c].rows :
       /\ call[c].rows[i] = None
       /\ call' = [call EXCEPT ![c].rows[i] = Snapshot(i)]
  /\ Quiet /\ UNCHANGED <<tasks, ingest>>

\* TaskService.list filters by name; find_agent_task wants one match.
ListAnswer(c) ==
  /\ call[c].at = "rows"
  /\ \A i \in DOMAIN call[c].rows : call[c].rows[i] # None
  /\ LET named == {i \in DOMAIN call[c].rows : call[c].name \in {None, Name(i)}}
         views == [i \in named |-> call[c].rows[i]]
     IN IF call[c].name # None /\ Cardinality(named) # 1
          THEN Error(c)
          ELSE Show(c, views)
  /\ UNCHANGED <<tasks, ingest>>

-----------------------------------------------------------------------------
(* enqueue_digital_twin. *)

\* Mutant: a rejected submission does not stop the call.
EnqueueOn(c) ==
  /\ call[c].at \in Modes
  /\ LET m == call[c].at IN
       /\ ingest' = [ingest EXCEPT ![m] = IF @ = None THEN call[c].name ELSE @]
       /\ IF m = "journal" THEN Goto(c, "classify") ELSE Answer(c, [body |-> call[c].name])
  /\ UNCHANGED tasks

\* One submission for each mode, under an ID made from the message: a repetition finds its
\* task, another body is refused and ends the call.
Enqueue(c) ==
  /\ call[c].at \in Modes
  /\ LET m == call[c].at IN
       IF ingest[m] \notin {None, call[c].name}
         THEN Error(c) /\ UNCHANGED ingest
         ELSE /\ ingest' = [ingest EXCEPT ![m] = call[c].name]
              /\ IF m = "journal" THEN Goto(c, "classify")
                                  ELSE Answer(c, [body |-> call[c].name])
  /\ UNCHANGED tasks

-----------------------------------------------------------------------------
Ask(c) == AskTask(c) \/ AskSubmit(c) \/ AskList(c) \/ AskFind(c) \/ AskIngest(c)

Serve(c) ==
  \/ Submit(c) \/ Describe(c) \/ Abort(c) \/ Result(c) \/ Speech(c) \/ Object(c)
  \/ Progress(c) \/ Narration(c) \/ List(c) \/ ListResult(c) \/ ListAnswer(c) \/ Enqueue(c)

Next ==
  \/ \E c \in Calls : Ask(c) \/ Serve(c) \/ CallFails(c)
  \/ \E i \in DOMAIN tasks : Report(i) \/ Capture(i) \/ Put(i) \/ Complete(i) \/ Fail(i)

Spec == Init /\ [][Next]_vars

-----------------------------------------------------------------------------
(* Properties. *)

Answered(ops) == last # None /\ last.op \in ops

\* Whichever way clients ask - get, list, lookup by name, cancel, speech - once one of them
\* was shown that a task is settled, every later call shows the same outcome with the same
\* response; and a reply that the worker has unwrapped is shown as it was stored, if its dump
\* can be parsed whole.
ViewsAgree ==
  Answered({"submit", "get", "cancel", "speech", "list"}) =>
    \A i \in DOMAIN last.answer :
      LET response == tasks[i].response IN
      /\ last.since[i] # None => last.answer[i] = last.since[i]
      /\ last.answer[i].state = "completed" /\ response.spoken.levels = <<>> /\ ~response.large =>
           /\ last.answer[i].response.spoken = response.spoken
           /\ last.answer[i].response.presentation = response.presentation

\* What a client downloads is there, and is the object of the capture that the completed
\* result names, never that of an earlier one, unless that one was still at work, without its
\* owner, when the capture of the result had put its object.
DownloadIsResult ==
  Answered({"artifact"}) =>
    LET t == tasks[last.task] IN
    t.state = "completed" /\ last.answer.object \in {t.result} \cup t.late

\* A narration leaves out nothing that happened between its two cursors, but for routine
\* events and events the owner no longer keeps, and adds nothing; it is silent only when
\* nothing happened but that the agent started.
NarrationIsWhole ==
  Answered({"narration"}) =>
    LET window == last.answer.after + 1 .. last.answer.through
        kept == (window \cap Kept(last.task)) \ Started
    IN /\ last.answer.events \subseteq window
       /\ kept \ Routine \subseteq last.answer.events
       /\ kept # {} => last.answer.events # {}

\* The two ingestion tasks of one message work on the same body, and an acknowledged
\* ingestion has both, although calls overlap, fail half-way and are repeated.
IngestionAgrees ==
  /\ None \in {ingest[m] : m \in Modes} \/ ingest["journal"] = ingest["classify"]
  /\ Answered({"ingest"}) => \A m \in Modes : ingest[m] = last.answer.body
=============================================================================
