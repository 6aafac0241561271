---------------------------- MODULE TaskDeskProofs ----------------------------
(***************************************************************************)
(* Proofs about TaskDesk: for any clients, tasks, replies, page and list   *)
(* sizes, calls never contradict one another about a task that is settled, *)
(* a download is the object of the result or of a capture that its owner   *)
(* left behind, a narration is whole, and the two ingestion tasks of a     *)
(* message have one body.                                                  *)
(***************************************************************************)
EXTENDS TaskDesk, FiniteSetTheorems, TLAPS

States == {"pending", "running"} \cup Settled
Responses == {Stored(text, large) : text \in Replies, large \in BOOLEAN}
Views == [state : States, response : {Public(r) : r \in Responses} \cup {None}]
RowSets == UNION {[S -> Views \cup {None}] : S \in SUBSET Ids}

TaskRecords == [workspace : Workspaces, state : States, marked : BOOLEAN, events : Nat,
                captures : Nat, putting : SUBSET Nat, object : Nat, result : Nat,
                late : SUBSET Nat, response : Responses \cup {None}]

CallRecords == [op : {"none", "submit", "get", "cancel", "speech", "list", "artifact",
                      "progress", "narration", "ingest"},
                at : {"over", "submit", "describe", "abort", "result", "page", "object", "list",
                      "rows"} \cup Modes,
                task : Ids \cup {0}, name : Bodies \cup Names \cup {None},
                rows : RowSets, since : [Ids -> Views \cup {None}]]

\* The object of a task: once the latest capture has put its own, only those that were left
\* then can put theirs over it; and that one is the result's.
PutInv(t) ==
  /\ t.putting \subseteq 1..t.captures
  /\ t.captures > 0 /\ t.captures \notin t.putting =>
       t.object \in {t.captures} \cup t.late /\ t.putting \subseteq t.late
  /\ t.state = "completed" =>
       t.captures > 0 /\ t.captures \notin t.putting /\ t.result = t.captures

TasksInv ==
  /\ tasks \in Seq(TaskRecords) /\ Len(tasks) <= MaxTasks
  /\ \A i \in 1..Len(tasks) :
       PutInv(tasks[i]) /\ (tasks[i].state = "completed" => tasks[i].response \in Responses)

\* The view of a settled task that was shown is the one that it still has.
ToldInv ==
  /\ told \in [Ids -> Views \cup {None}]
  /\ \A i \in Ids : told[i] # None =>
       i \in 1..Len(tasks) /\ tasks[i].state \in Settled /\ told[i] = Snapshot(i)

\* The two ingestion tasks: the journal comes first.
IngestInv ==
  /\ ingest \in [Modes -> Bodies \cup {None}]
  /\ ingest["classify"] # None => ingest["classify"] = ingest["journal"]

\* A view that was read for a call: that of a settled task is final, and so is that of a task
\* whose settled view was shown before the call.
Holds(c, i, view) ==
  call[c].since[i] # None \/ view.state \in Settled => view = Snapshot(i)

\* Which calls get to which point, and that their task is one there is.
PointInv(c) ==
  /\ call[c].at = "submit" => call[c].op = "submit"
  /\ call[c].at = "describe" =>
       /\ call[c].op \in {"get", "cancel", "speech", "artifact", "progress", "narration"}
       /\ call[c].task \in 0..Len(tasks)
  /\ call[c].at \in {"abort", "result", "page", "object"} => call[c].task \in 1..Len(tasks)
  /\ call[c].at = "abort" => call[c].op = "cancel"
  /\ call[c].at = "result" =>
       call[c].op \in {"submit", "get", "cancel", "speech", "artifact", "narration"}
  /\ call[c].at = "page" => call[c].op \in {"progress", "narration"}
  /\ call[c].at = "object" => call[c].op = "artifact"
  /\ call[c].at \in {"list", "rows"} => call[c].op = "list"
  /\ call[c].at \in Modes => call[c].op = "ingest" /\ call[c].name \in Bodies

\* What a call has read between its links is still so.
ReadInv(c) ==
  /\ call[c].at = "object" => tasks[call[c].task].state = "completed"
  /\ call[c].at = "rows" =>
       /\ DOMAIN call[c].rows \subseteq 1..Len(tasks)
       /\ \A i \in DOMAIN call[c].rows : call[c].rows[i] # None => Holds(c, i, call[c].rows[i])
  /\ call[c].at = "classify" => ingest["journal"] = call[c].name

\* What clients had been shown when the call began.
SinceInv(c) ==
  call[c].at # "over" => \A i \in Ids : call[c].since[i] # None => told[i] = call[c].since[i]

CallInv(c) == PointInv(c) /\ ReadInv(c) /\ SinceInv(c)

CallsInv == call \in [Calls -> CallRecords] /\ \A c \in Calls : CallInv(c)

IngestAnswered == Answered({"ingest"}) => \A m \in Modes : ingest[m] = last.answer.body

\* What the last answer shows is so.
LastInv == ViewsAgree /\ DownloadIsResult /\ NarrationIsWhole /\ IngestAnswered

DeskInv == TasksInv /\ ToldInv /\ IngestInv /\ CallsInv /\ LastInv

-----------------------------------------------------------------------------
(* Responses and views. *)

\* What ResponseFromText speaks and shows.
LEMMA Response == ASSUME NEW r \in Responses
                  PROVE  /\ r.spoken = [levels |-> r.spoken.levels, end |-> r.spoken.end]
                         /\ r.spoken # Words("")
                         /\ r.presentation \in Shown
<1>1. PICK text \in Replies, large \in BOOLEAN : r = Stored(text, large)
  BY DEF Responses
<1> DEFINE k == Reached(text)
           rest == [text EXCEPT !.levels = SubSeq(@, k + 1, Len(@))]
           spoken == IF rest = Words("") THEN Words("Task completed.") ELSE rest
           shown == IF k > 0 /\ text.levels[k] \in Shown THEN text.levels[k] ELSE "fallback"
<1>2. r.spoken = spoken /\ r.presentation = shown
  BY <1>1 DEF Stored, ResponseFromText
<1> HIDE DEF k
<1>3. rest = [levels |-> rest.levels, end |-> rest.end]
  <2>1. text = [levels |-> text.levels, end |-> text.end]
    BY ReplyAssumption
  <2> DEFINE l == text.levels
             e == text.end
             s == SubSeq(l, k + 1, Len(l))
  <2> HIDE DEF l, e, s
  <2>2. rest = [[levels |-> l, end |-> e] EXCEPT !.levels = s]
    BY <2>1 DEF l, e, s
  <2>3. rest = [levels |-> s, end |-> e]
    BY <2>2
  <2> HIDE DEF rest
  <2> QED BY <2>3
<1>4. spoken = [levels |-> spoken.levels, end |-> spoken.end] /\ spoken # Words("")
  <2>1. CASE rest = Words("")
    BY <2>1 DEF Words
  <2>2. CASE rest # Words("")
    BY <2>2, <1>3
  <2> QED BY <2>1, <2>2
<1>5. shown \in Shown
  BY DEF Shown
<1> HIDE DEF spoken, shown
<1> QED BY <1>2, <1>4, <1>5

\* The text that the gateway makes of a response without levels has one level.
LEMMA OneLevel == ASSUME NEW p, NEW w
                  PROVE  Reached([levels |-> <<p>>, end |-> w]) = 1
<1> DEFINE text == [levels |-> <<p>>, end |-> w]
           S == {0} \cup {k \in 1..Len(text.levels) :
                            k <= Unwraps /\ \A j \in 2..k : text.levels[j] # None}
<1>1. S = {0, 1}
  BY DeskAssumption
<1>2. Max(S) = 1
  BY <1>1 DEF Max
<1> QED BY <1>2 DEF Reached

\* The gateway shows a reply without levels as it was stored.
LEMMA Unwrapped == ASSUME NEW r \in Responses, r.spoken.levels = <<>>, ~r.large
                   PROVE  Public(r).spoken = r.spoken /\ Public(r).presentation = r.presentation
<1> DEFINE text == [levels |-> <<r.presentation>>, end |-> r.spoken.end]
           rest == [text EXCEPT !.levels = SubSeq(@, 1 + 1, Len(@))]
<1>1. <<r.presentation>> \o r.spoken.levels = <<r.presentation>>
  BY DEF Shown
<1>2. Public(r) = ResponseFromText(text)
  BY <1>1 DEF Public
<1>3. Reached(text) = 1
  BY OneLevel
<1>4. rest = [levels |-> <<>>, end |-> r.spoken.end]
  OBVIOUS
<1>5. rest = r.spoken /\ rest # Words("")
  BY <1>4, Response
<1>6. text.levels[1] = r.presentation /\ r.presentation \in Shown
  BY Response
<1> HIDE DEF text
<1>7. ResponseFromText(text) = [spoken |-> r.spoken, presentation |-> r.presentation]
  <2> DEFINE k == Reached(text)
             left == [text EXCEPT !.levels = SubSeq(@, k + 1, Len(@))]
  <2>1. ResponseFromText(text) =
          [spoken |-> IF left = Words("") THEN Words("Task completed.") ELSE left,
           presentation |-> IF k > 0 /\ text.levels[k] \in Shown THEN text.levels[k]
                                                                 ELSE "fallback"]
    BY DEF ResponseFromText
  <2> HIDE DEF k
  <2>2. k = 1
    BY <1>3 DEF k
  <2>3. left = rest
    BY <2>2
  <2> HIDE DEF left, rest
  <2>4. (IF left = Words("") THEN Words("Task completed.") ELSE left) = r.spoken
    BY <2>3, <1>5
  <2>5. (IF k > 0 /\ text.levels[k] \in Shown THEN text.levels[k] ELSE "fallback")
          = r.presentation
    BY <2>2, <1>6
  <2> QED BY <2>1, <2>4, <2>5
<1> QED BY <1>2, <1>7

LEMMA View == ASSUME TasksInv, NEW i \in 1..Len(tasks)
              PROVE  Snapshot(i) \in Views /\ Snapshot(i).state = tasks[i].state
<1>1. tasks[i] \in TaskRecords
  BY DEF TasksInv
<1>2. tasks[i].state \in States
  BY <1>1 DEF TaskRecords
<1>3. tasks[i].state = "completed" =>
        Public(tasks[i].response) \in {Public(r) : r \in Responses}
  BY DEF TasksInv
<1> QED BY <1>2, <1>3 DEF Snapshot, Views

\* A view of a completed task whose reply was unwrapped has the response that is stored.
LEMMA AsStored == ASSUME TasksInv, NEW i \in 1..Len(tasks), tasks[i].state = "completed",
                         tasks[i].response.spoken.levels = <<>>, ~tasks[i].response.large
                  PROVE  /\ Snapshot(i).response.spoken = tasks[i].response.spoken
                         /\ Snapshot(i).response.presentation = tasks[i].response.presentation
<1>1. tasks[i].response \in Responses
  BY DEF TasksInv
<1>2. Snapshot(i).response = Public(tasks[i].response)
  BY DEF Snapshot
<1> QED BY <1>1, <1>2, Unwrapped

LEMMA NoRows == <<>> \in RowSets
<1>1. <<>> \in [{} -> Views \cup {None}]
  OBVIOUS
<1> QED BY <1>1 DEF RowSets

LEMMA Rows == ASSUME NEW S \in SUBSET Ids, NEW f \in [S -> Views \cup {None}]
              PROVE  f \in RowSets
  BY DEF RowSets

LEMMA RowsAre == ASSUME NEW f \in RowSets
                 PROVE  DOMAIN f \subseteq Ids /\ f \in [DOMAIN f -> Views \cup {None}]
  BY DEF RowSets

-----------------------------------------------------------------------------
(* What the steps keep. *)

\* Tasks are only added, and what a settled one shows is final.
Stays ==
  /\ Len(tasks) <= Len(tasks')
  /\ \A i \in 1..Len(tasks) : tasks[i].state \in Settled =>
       tasks'[i].state = tasks[i].state /\ Snapshot(i)' = Snapshot(i)

\* A body that is bound stays bound.
BodyStays == ingest["journal"] # None => ingest'["journal"] = ingest["journal"]

LEMMA ToldStays == ASSUME TasksInv, ToldInv, Stays, TasksInv', UNCHANGED told
                   PROVE  ToldInv'
<1>1. Len(tasks) \in Nat /\ Len(tasks') \in Nat
  BY DEF TasksInv
<1>2. told' \in [Ids -> Views \cup {None}]
  BY DEF ToldInv
<1>3. ASSUME NEW i \in Ids, told'[i] # None
      PROVE  i \in 1..Len(tasks') /\ tasks'[i].state \in Settled /\ told'[i] = Snapshot(i)'
  <2>1. i \in 1..Len(tasks) /\ tasks[i].state \in Settled /\ told[i] = Snapshot(i)
    BY <1>3 DEF ToldInv
  <2>2. i \in 1..Len(tasks')
    BY <1>1, <2>1 DEF Stays
  <2> QED BY <2>1, <2>2 DEF Stays
<1> QED BY <1>2, <1>3 DEF ToldInv

\* A call that does not move keeps what it knows.
LEMMA CallStays == ASSUME TasksInv, ToldInv, IngestInv, CallsInv, Stays, BodyStays, TasksInv',
                          NEW c \in Calls, call'[c] = call[c],
                          \A i \in Ids : told[i] # None => told'[i] = told[i]
                   PROVE  CallInv(c)'
<1>1. Len(tasks) \in Nat /\ Len(tasks') \in Nat /\ Len(tasks) <= Len(tasks')
  BY DEF TasksInv, Stays
<1>2. PointInv(c) /\ ReadInv(c) /\ SinceInv(c) /\ call[c] \in CallRecords
  BY DEF CallsInv, CallInv
<1>3. PointInv(c)'
  BY <1>1, <1>2 DEF PointInv
<1>4. call[c].at = "object" =>
        call[c].task \in 1..Len(tasks) /\ tasks'[call[c].task].state = "completed"
  <2>1. ASSUME call[c].at = "object"
        PROVE  call[c].task \in 1..Len(tasks) /\ tasks[call[c].task].state = "completed"
    BY <1>2, <2>1 DEF PointInv, ReadInv
  <2> QED BY <2>1 DEF Stays, Settled
<1>5. ASSUME call[c].at = "rows", NEW i \in DOMAIN call[c].rows, call[c].rows[i] # None
      PROVE  Holds(c, i, call[c].rows[i])'
  <2>1. i \in 1..Len(tasks) /\ Holds(c, i, call[c].rows[i])
    BY <1>2, <1>5 DEF ReadInv
  <2>2. i \in Ids
    BY <2>1, DeskAssumption DEF TasksInv, Ids
  <2> DEFINE view == call[c].rows[i]
  <2>3. CASE call[c].since[i] # None
    <3>1. told[i] = call[c].since[i]
      BY <1>2, <1>5, <2>2, <2>3 DEF SinceInv
    <3>2. tasks[i].state \in Settled
      BY <2>2, <2>3, <3>1 DEF ToldInv
    <3>3. view = Snapshot(i)'
      BY <2>1, <2>3, <3>2 DEF Holds, Stays
    <3> QED BY <3>3 DEF Holds
  <2>4. CASE view.state \in Settled
    <3>1. view = Snapshot(i)
      BY <2>1, <2>4 DEF Holds
    <3>2. tasks[i].state \in Settled
      BY <2>1, <2>4, <3>1, View
    <3>3. view = Snapshot(i)'
      BY <2>1, <3>1, <3>2 DEF Stays
    <3> QED BY <3>3 DEF Holds
  <2>5. CASE ~(call[c].since[i] # None \/ view.state \in Settled)
    BY <2>5 DEF Holds
  <2> QED BY <2>3, <2>4, <2>5
<1>6. call[c].at = "rows" => DOMAIN call[c].rows \subseteq 1..Len(tasks')
  BY <1>1, <1>2 DEF ReadInv
<1>7. call[c].at = "classify" => ingest'["journal"] = call[c].name
  BY <1>2, DeskAssumption DEF ReadInv, PointInv, BodyStays, Modes
<1>8. ReadInv(c)'
  BY <1>4, <1>5, <1>6, <1>7 DEF ReadInv
<1>9. SinceInv(c)'
  BY <1>2 DEF SinceInv
<1> QED BY <1>3, <1>8, <1>9 DEF CallInv

\* A step that answers nothing says nothing.
LEMMA Silent == ASSUME last' = None
                PROVE  LastInv'
  BY DEF LastInv, ViewsAgree, DownloadIsResult, NarrationIsWhole, IngestAnswered, Answered

\* Tasks go on.
LEMMA TasksStep == ASSUME DeskInv, TasksInv', Stays, Quiet, UNCHANGED <<ingest, call>>
                   PROVE  DeskInv'
<1>1. ToldInv'
  BY ToldStays DEF DeskInv, Quiet
<1>2. IngestInv'
  BY DEF DeskInv, IngestInv
<1>3. ASSUME NEW c \in Calls
      PROVE  CallInv(c)'
  BY CallStays DEF DeskInv, Quiet, BodyStays
<1>4. CallsInv'
  BY <1>3 DEF CallsInv, DeskInv
<1>5. LastInv'
  BY Silent DEF Quiet
<1> QED BY <1>1, <1>2, <1>4, <1>5 DEF DeskInv

\* A call goes on by a link, and nothing is answered.
LEMMA LinkStep == ASSUME DeskInv, TasksInv', IngestInv', Stays, BodyStays, Quiet,
                         NEW c \in Calls, NEW r \in CallRecords,
                         call' = [call EXCEPT ![c] = r], CallInv(c)'
                  PROVE  DeskInv'
<1>1. ToldInv'
  BY ToldStays DEF DeskInv, Quiet
<1>2. call' \in [Calls -> CallRecords]
  BY DEF DeskInv, CallsInv
<1>3. ASSUME NEW d \in Calls
      PROVE  CallInv(d)'
  <2>1. CASE d = c
    BY <2>1
  <2>2. CASE d # c
    <3>1. call'[d] = call[d]
      BY <2>2 DEF DeskInv, CallsInv
    <3> QED BY <3>1, CallStays DEF DeskInv, Quiet
  <2> QED BY <2>1, <2>2
<1>4. CallsInv'
  BY <1>2, <1>3 DEF CallsInv
<1>5. LastInv'
  BY Silent DEF Quiet
<1> QED BY <1>1, <1>4, <1>5 DEF DeskInv

LEMMA NoCallIsOne == NoCall \in CallRecords
<1>1. NoCall.rows \in RowSets
  BY NoRows DEF NoCall
<1>2. NoCall.since \in [Ids -> Views \cup {None}]
  BY DEF NoCall
<1> QED BY <1>1, <1>2 DEF NoCall, CallRecords

\* A call is over.
LEMMA EndStep == ASSUME DeskInv, UNCHANGED tasks, ToldInv', IngestInv', BodyStays, LastInv',
                        \A i \in Ids : told[i] # None => told'[i] = told[i],
                        NEW c \in Calls, call' = [call EXCEPT ![c] = NoCall]
                 PROVE  DeskInv'
<1>1. TasksInv' /\ Stays
  BY DEF DeskInv, TasksInv, Stays, Snapshot
<1>2. call' \in [Calls -> CallRecords]
  BY NoCallIsOne DEF DeskInv, CallsInv
<1>3. ASSUME NEW d \in Calls
      PROVE  CallInv(d)'
  <2>1. CASE d = c
    <3>1. call'[d] = NoCall
      BY <2>1 DEF DeskInv, CallsInv
    <3>2. call'[d].at = "over"
      BY <3>1 DEF NoCall
    <3> QED BY <3>2 DEF CallInv, PointInv, ReadInv, SinceInv, Modes
  <2>2. CASE d # c
    <3>1. call'[d] = call[d]
      BY <2>2 DEF DeskInv, CallsInv
    <3> QED BY <3>1, <1>1, CallStays DEF DeskInv
  <2> QED BY <2>1, <2>2
<1>4. CallsInv'
  BY <1>2, <1>3 DEF CallsInv
<1> QED BY <1>1, <1>4 DEF DeskInv

\* An error tells the client nothing about a task.
LEMMA ErrorStep == ASSUME DeskInv, NEW c \in Calls, Error(c), UNCHANGED <<tasks, ingest>>
                   PROVE  DeskInv'
<1>1. last' = None /\ call' = [call EXCEPT ![c] = NoCall] /\ UNCHANGED told
  BY DEF Error, Answer, Ends
<1>2. ToldInv' /\ IngestInv' /\ BodyStays
  BY <1>1 DEF DeskInv, ToldInv, IngestInv, BodyStays, Snapshot
<1> QED BY <1>1, <1>2, Silent, EndStep

\* An answer, but for the views of tasks.
LEMMA AnswerStep == ASSUME DeskInv, NEW c \in Calls, NEW answer, Answer(c, answer),
                           UNCHANGED tasks, IngestInv', BodyStays, LastInv'
                    PROVE  DeskInv'
<1>1. call' = [call EXCEPT ![c] = NoCall] /\ UNCHANGED told
  BY DEF Answer, Ends
<1>2. ToldInv'
  BY <1>1 DEF DeskInv, ToldInv, Snapshot
<1> QED BY <1>1, <1>2, EndStep

-----------------------------------------------------------------------------
(* The tasks. *)

\* One task changes; if it is settled, in nothing that is shown of it.
LEMMA TaskChanges == ASSUME TasksInv, NEW i \in 1..Len(tasks), NEW t \in TaskRecords,
                            t.state = "completed" => t.response \in Responses, PutInv(t),
                            tasks' = [tasks EXCEPT ![i] = t],
                            tasks[i].state \in Settled =>
                              t.state = tasks[i].state /\ t.response = tasks[i].response
                     PROVE  TasksInv' /\ Stays
<1>1. /\ Len(tasks') = Len(tasks) /\ tasks' \in Seq(TaskRecords) /\ Len(tasks) \in Nat
      /\ \A j \in 1..Len(tasks) : tasks'[j] = IF j = i THEN t ELSE tasks[j]
  BY DEF TasksInv
<1>2. TasksInv'
  BY <1>1 DEF TasksInv
<1>3. Stays
  BY <1>1 DEF Stays, Snapshot
<1> QED BY <1>2, <1>3

\* A task is of its kind.
LEMMA TaskIs == ASSUME DeskInv, NEW i \in 1..Len(tasks)
                PROVE  /\ tasks \in Seq(TaskRecords) /\ tasks[i] \in TaskRecords
                       /\ PutInv(tasks[i])
                       /\ tasks[i].state = "completed" => tasks[i].response \in Responses
  BY DEF DeskInv, TasksInv

LEMMA ReportStep == ASSUME DeskInv, NEW i \in 1..Len(tasks), Report(i)
                    PROVE  DeskInv'
<1> DEFINE n == tasks[i].events + 1
           t == [tasks[i] EXCEPT !.state = "running", !.events = n]
<1>1. tasks \in Seq(TaskRecords) /\ tasks[i] \in TaskRecords /\ PutInv(tasks[i])
  BY TaskIs
<1>5. n \in Nat
  BY <1>1 DEF TaskRecords
<1>3. tasks' = [tasks EXCEPT ![i] = t] /\ tasks[i].state \notin Settled
  BY <1>1 DEF Report, Settled
<1> HIDE DEF n
<1>2. t \in TaskRecords /\ t.state = "running"
  BY <1>1, <1>5 DEF TaskRecords, States
<1>6. PutInv(t)
  BY <1>1 DEF PutInv, TaskRecords
<1> HIDE DEF t
<1>4. TasksInv' /\ Stays
  BY <1>2, <1>3, <1>6, TaskChanges DEF DeskInv
<1> QED BY <1>4, TasksStep DEF Report

LEMMA CaptureStep == ASSUME DeskInv, NEW i \in 1..Len(tasks), Capture(i)
                     PROVE  DeskInv'
<1> DEFINE a == tasks[i].captures + 1
           p == tasks[i].putting \cup {a}
           t == [tasks[i] EXCEPT !.captures = a, !.putting = p]
<1>1. tasks \in Seq(TaskRecords) /\ tasks[i] \in TaskRecords /\ PutInv(tasks[i])
      /\ tasks[i].state = "running"
  BY TaskIs DEF Capture
<1>7. tasks[i].captures \in Nat /\ tasks[i].putting \subseteq 1..tasks[i].captures
  BY <1>1 DEF TaskRecords, PutInv
<1>8. a \in 1..a /\ 1..tasks[i].captures \subseteq 1..a /\ 1..a \subseteq Nat /\ a \in Nat
  BY <1>7
<1>2. a \in Nat /\ p \in SUBSET Nat /\ p \subseteq 1..a /\ a \in p
  BY <1>7, <1>8
<1>3. tasks' = [tasks EXCEPT ![i] = t] /\ tasks[i].state \notin Settled
  BY <1>1 DEF Capture, Settled
<1> HIDE DEF a, p
<1>4. /\ t \in TaskRecords /\ t.state = "running" /\ t.captures = a /\ t.putting = p
  BY <1>1, <1>2 DEF TaskRecords
<1>5. PutInv(t)
  BY <1>2, <1>4 DEF PutInv
<1> HIDE DEF t
<1>6. TasksInv' /\ Stays
  BY <1>3, <1>4, <1>5, TaskChanges DEF DeskInv
<1> QED BY <1>6, TasksStep DEF Capture

LEMMA PutStep == ASSUME DeskInv, NEW i \in 1..Len(tasks), Put(i)
                 PROVE  DeskInv'
<1>1. tasks \in Seq(TaskRecords) /\ tasks[i] \in TaskRecords /\ PutInv(tasks[i])
      /\ (tasks[i].state = "completed" => tasks[i].response \in Responses)
  BY TaskIs
<1>2. PICK a \in tasks[i].putting :
        tasks' = [tasks EXCEPT ![i].object = a, ![i].putting = tasks[i].putting \ {a},
                    ![i].late = IF a = tasks[i].captures THEN tasks[i].putting \ {a} ELSE @]
  BY DEF Put
<1> DEFINE left == tasks[i].putting \ {a}
           late == IF a = tasks[i].captures THEN left ELSE tasks[i].late
           t == [tasks[i] EXCEPT !.object = a, !.putting = left, !.late = late]
<1>3. tasks' = [tasks EXCEPT ![i] = t]
  BY <1>1, <1>2
<1>4. a \in Nat /\ left \in SUBSET Nat /\ late \in SUBSET Nat /\ a \in tasks[i].putting
  BY <1>1 DEF TaskRecords
<1>5. left \subseteq tasks[i].putting /\ a \notin left
  OBVIOUS
<1>6. /\ tasks[i].captures > 0 /\ tasks[i].captures \notin left =>
           a \in {tasks[i].captures} \cup late /\ left \subseteq late
      /\ tasks[i].captures \in left \/ a = tasks[i].captures \/ tasks[i].captures \notin tasks[i].putting
  BY <1>1 DEF PutInv
<1> HIDE DEF left, late
<1>7. /\ t \in TaskRecords /\ t.object = a /\ t.putting = left /\ t.late = late
      /\ t.state = tasks[i].state /\ t.captures = tasks[i].captures
      /\ t.result = tasks[i].result /\ t.response = tasks[i].response
  BY <1>1, <1>4 DEF TaskRecords
<1> HIDE DEF t
<1>8. PutInv(t)
  BY <1>1, <1>5, <1>6, <1>7 DEF PutInv
<1>9. TasksInv' /\ Stays
  BY <1>1, <1>3, <1>7, <1>8, TaskChanges DEF DeskInv
<1> QED BY <1>9, TasksStep DEF Put

LEMMA CompleteStep == ASSUME DeskInv, NEW i \in 1..Len(tasks), Complete(i)
                      PROVE  DeskInv'
<1>1. /\ tasks \in Seq(TaskRecords) /\ tasks[i] \in TaskRecords /\ PutInv(tasks[i])
      /\ tasks[i].state = "running"
      /\ tasks[i].captures > 0 /\ tasks[i].captures \notin tasks[i].putting
  BY TaskIs DEF Complete
<1>8. PICK text \in Replies, large \in BOOLEAN :
        tasks' = [tasks EXCEPT ![i].state = "completed", ![i].response = Stored(text, large),
                               ![i].result = tasks[i].captures]
  BY DEF Complete
<1> DEFINE response == Stored(text, large)
<1>2. /\ response \in Responses
      /\ tasks' = [tasks EXCEPT ![i].state = "completed", ![i].response = response,
                                ![i].result = tasks[i].captures]
  BY <1>8 DEF Responses
<1> HIDE DEF response
<1> DEFINE n == tasks[i].captures
           t == [tasks[i] EXCEPT !.state = "completed", !.response = response, !.result = n]
<1>4. tasks' = [tasks EXCEPT ![i] = t] /\ tasks[i].state \notin Settled
  BY <1>1, <1>2 DEF Settled
<1>6. n \in Nat /\ n = tasks[i].captures
  BY <1>1 DEF TaskRecords
<1> HIDE DEF n
<1>3. /\ t \in TaskRecords /\ t.response = response /\ t.result = n
      /\ t.captures = tasks[i].captures /\ t.putting = tasks[i].putting
      /\ t.object = tasks[i].object /\ t.late = tasks[i].late
  BY <1>1, <1>2, <1>6 DEF TaskRecords, States, Settled
<1> HIDE DEF t
<1>7. PutInv(t)
  BY <1>1, <1>3, <1>6 DEF PutInv
<1>5. TasksInv' /\ Stays
  BY <1>2, <1>3, <1>4, <1>7, TaskChanges DEF DeskInv
<1> QED BY <1>5, TasksStep DEF Complete

LEMMA FailStep == ASSUME DeskInv, NEW i \in 1..Len(tasks), Fail(i)
                  PROVE  DeskInv'
<1> DEFINE t == [tasks[i] EXCEPT !.state = IF tasks[i].marked THEN "cancelled" ELSE "failed"]
<1>1. tasks \in Seq(TaskRecords) /\ tasks[i] \in TaskRecords /\ PutInv(tasks[i])
  BY TaskIs
<1>2. /\ t \in TaskRecords /\ t.state # "completed"
      /\ t.captures = tasks[i].captures /\ t.putting = tasks[i].putting
      /\ t.object = tasks[i].object /\ t.late = tasks[i].late
  BY <1>1 DEF TaskRecords, States, Settled
<1>3. tasks' = [tasks EXCEPT ![i] = t] /\ tasks[i].state \notin Settled
  BY <1>1 DEF Fail
<1> HIDE DEF t
<1>5. PutInv(t)
  BY <1>1, <1>2 DEF PutInv
<1>4. TasksInv' /\ Stays
  BY <1>2, <1>3, <1>5, TaskChanges DEF DeskInv
<1> QED BY <1>4, TasksStep DEF Fail

-----------------------------------------------------------------------------
(* The links of a call. *)

\* The call as Goto leaves it.
LEMMA Goes == ASSUME CallsInv, NEW c \in Calls, NEW at, Goto(c, at),
                     at \in {"abort", "result", "page", "object", "classify"}
              PROVE  \E r \in CallRecords :
                       /\ call' = [call EXCEPT ![c] = r] /\ call'[c] = r
                       /\ r.at = at /\ r.op = call[c].op /\ r.task = call[c].task
                       /\ r.name = call[c].name /\ r.since = call[c].since
<1> DEFINE r == [call[c] EXCEPT !.at = at]
<1>1. call \in [Calls -> CallRecords] /\ call[c] \in CallRecords
  BY DEF CallsInv
<1>2. r \in CallRecords
  BY <1>1 DEF CallRecords, Modes
<1>3. r.at = at /\ r.op = call[c].op /\ r.task = call[c].task /\ r.name = call[c].name
      /\ r.since = call[c].since
  BY <1>1 DEF CallRecords
<1>4. call' = [call EXCEPT ![c] = r]
  BY DEF Goto
<1> HIDE DEF r
<1>5. call'[c] = r
  BY <1>1, <1>4
<1> QED BY <1>2, <1>3, <1>4, <1>5

\* A call goes on to a point that its operation has.
LEMMA GoStep == ASSUME DeskInv, TasksInv', IngestInv', Stays, BodyStays, NEW c \in Calls, NEW at,
                       Goto(c, at), at \in {"abort", "result", "page", "object", "classify"},
                       call[c].at # "over",
                       at # "classify" => call[c].task \in 1..Len(tasks'),
                       at = "abort" => call[c].op = "cancel",
                       at = "result" => call[c].op \in {"submit", "get", "cancel", "speech",
                                                        "artifact", "narration"},
                       at = "page" => call[c].op \in {"progress", "narration"},
                       at = "object" => /\ call[c].op = "artifact"
                                        /\ tasks'[call[c].task].state = "completed",
                       at = "classify" => /\ call[c].op = "ingest" /\ call[c].name \in Bodies
                                          /\ ingest'["journal"] = call[c].name
                PROVE  DeskInv'
<1>1. PICK r \in CallRecords :
        /\ call' = [call EXCEPT ![c] = r] /\ call'[c] = r
        /\ r.at = at /\ r.op = call[c].op /\ r.task = call[c].task
        /\ r.name = call[c].name /\ r.since = call[c].since
  BY Goes DEF DeskInv
<1>2. Quiet
  BY DEF Goto
<1>3. PointInv(c)'
  BY <1>1 DEF PointInv, Modes
<1>4. ReadInv(c)'
  BY <1>1 DEF ReadInv
<1>5. SinceInv(c)'
  BY <1>1, <1>2 DEF SinceInv, DeskInv, CallsInv, CallInv, Quiet
<1>6. CallInv(c)'
  BY <1>3, <1>4, <1>5 DEF CallInv
<1> QED BY <1>1, <1>2, <1>6, LinkStep

\* What a step that changes neither tasks nor ingestions keeps.
LEMMA Same == ASSUME DeskInv, UNCHANGED <<tasks, ingest>>
              PROVE  TasksInv' /\ IngestInv' /\ Stays /\ BodyStays
  BY DEF DeskInv, TasksInv, IngestInv, Stays, BodyStays, Snapshot

LEMMA RequestStep == ASSUME DeskInv, NEW c \in Calls, NEW op, NEW at, NEW name, NEW task,
                            Request(c, op, at, name, task),
                            \/ /\ op \in {"get", "cancel", "speech", "artifact", "progress",
                                          "narration"}
                               /\ at = "describe" /\ task \in 0..Len(tasks) /\ name = None
                            \/ op = "submit" /\ at = "submit" /\ task = 0 /\ name = None
                            \/ /\ op = "list" /\ at = "list" /\ task = 0
                               /\ name \in Names \cup {None}
                            \/ op = "ingest" /\ at = "journal" /\ task = 0 /\ name \in Bodies
                     PROVE  DeskInv'
<1> DEFINE r == [NoCall EXCEPT !.op = op, !.at = at, !.name = name, !.task = task, !.since = told]
<1>1. Len(tasks) \in Nat /\ 0..Len(tasks) \subseteq Ids \cup {0}
  BY DeskAssumption DEF DeskInv, TasksInv, Ids
<1>2. NoCall \in CallRecords /\ told \in [Ids -> Views \cup {None}]
  BY NoCallIsOne DEF DeskInv, ToldInv
<1>3. r \in CallRecords
  BY <1>1, <1>2 DEF CallRecords, Modes
<1>4. r.op = op /\ r.at = at /\ r.name = name /\ r.task = task /\ r.since = told
  BY <1>2 DEF CallRecords
<1>5. call' = [call EXCEPT ![c] = r] /\ Quiet /\ UNCHANGED <<tasks, ingest>>
  BY DEF Request
<1> HIDE DEF r
<1>6. call'[c] = r
  BY <1>5 DEF DeskInv, CallsInv
<1>7. PointInv(c)'
  BY <1>4, <1>5, <1>6 DEF PointInv, Modes
<1>8. ReadInv(c)'
  BY <1>4, <1>6 DEF ReadInv
<1>9. SinceInv(c)'
  BY <1>4, <1>5, <1>6 DEF SinceInv, Quiet
<1>10. CallInv(c)'
  BY <1>7, <1>8, <1>9 DEF CallInv
<1> QED BY <1>3, <1>5, <1>10, Same, LinkStep

LEMMA AskStep == ASSUME DeskInv, NEW c \in Calls, Ask(c)
                 PROVE  DeskInv'
<1>1. CASE AskTask(c)
  BY <1>1, RequestStep DEF AskTask
<1>2. CASE AskSubmit(c)
  BY <1>2, RequestStep DEF AskSubmit
<1>3. CASE AskList(c)
  BY <1>3, RequestStep DEF AskList
<1>4. CASE AskFind(c)
  BY <1>4, RequestStep DEF AskFind
<1>5. CASE AskIngest(c)
  BY <1>5, RequestStep DEF AskIngest
<1> QED BY <1>1, <1>2, <1>3, <1>4, <1>5 DEF Ask

\* A new task is pending, and its result is read next.
LEMMA SubmitStep == ASSUME DeskInv, NEW c \in Calls, Submit(c)
                    PROVE  DeskInv'
<1>1. PICK w \in Workspaces :
        IF w = None
          THEN Error(c) /\ UNCHANGED tasks
          ELSE /\ Len(tasks) < MaxTasks
               /\ tasks' = Append(tasks, NewTask(w))
               /\ call' = [call EXCEPT ![c].at = "result", ![c].task = Len(tasks) + 1]
               /\ Quiet
  BY DEF Submit
<1>2. UNCHANGED ingest /\ call[c].at = "submit"
  BY DEF Submit
<1>3. CASE w = None
  BY <1>1, <1>2, <1>3, ErrorStep
<1>4. CASE w # None
  <2> DEFINE t == NewTask(w)
             n == Len(tasks) + 1
             r == [call[c] EXCEPT !.at = "result", !.task = n]
  <2>1. t \in TaskRecords /\ t.state # "completed" /\ PutInv(t)
    BY DEF NewTask, TaskRecords, States, Settled, PutInv
  <2>2. tasks' = Append(tasks, t) /\ Len(tasks) < MaxTasks /\ Quiet
    BY <1>1, <1>4
  <2> HIDE DEF t
  <2>3. tasks \in Seq(TaskRecords) /\ Len(tasks) \in Nat
    BY DEF DeskInv, TasksInv
  <2>4. /\ tasks' \in Seq(TaskRecords) /\ Len(tasks') = Len(tasks) + 1
        /\ \A j \in 1..Len(tasks) : tasks'[j] = tasks[j]
        /\ tasks'[Len(tasks) + 1] = t
    BY <2>1, <2>2, <2>3
  <2>5. TasksInv'
    <3>1. Len(tasks') <= MaxTasks
      BY <2>2, <2>3, <2>4, DeskAssumption
    <3>2. ASSUME NEW j \in 1..Len(tasks')
          PROVE  /\ PutInv(tasks'[j])
                 /\ tasks'[j].state = "completed" => tasks'[j].response \in Responses
      <4>1. CASE j = Len(tasks) + 1
        BY <4>1, <2>1, <2>4
      <4>2. CASE j # Len(tasks) + 1
        <5>1. j \in 1..Len(tasks)
          BY <4>2, <2>3, <2>4
        <5> QED BY <5>1, <2>4, TaskIs
      <4> QED BY <4>1, <4>2
    <3> QED BY <2>4, <3>1, <3>2 DEF TasksInv
  <2>6. Stays
    BY <2>3, <2>4 DEF Stays, Snapshot
  <2>7. n \in 1..Len(tasks') /\ n \in Ids
    BY <2>2, <2>3, <2>4, DeskAssumption DEF Ids
  <2>8. call' = [call EXCEPT ![c] = r]
    BY <1>1, <1>4
  <2> HIDE DEF n
  <2>9. call \in [Calls -> CallRecords] /\ call[c] \in CallRecords
    BY DEF DeskInv, CallsInv
  <2>10. r \in CallRecords /\ r.at = "result" /\ r.task = n
         /\ r.op = call[c].op /\ r.since = call[c].since
    BY <2>7, <2>9 DEF CallRecords
  <2> HIDE DEF r
  <2>11. call'[c] = r
    BY <2>8, <2>9
  <2>12. call[c].op = "submit" /\ SinceInv(c)
    BY <1>2 DEF DeskInv, CallsInv, CallInv, PointInv
  <2>13. PointInv(c)'
    BY <2>7, <2>10, <2>11, <2>12 DEF PointInv, Modes
  <2>14. ReadInv(c)' /\ SinceInv(c)'
    BY <1>2, <2>2, <2>10, <2>11, <2>12 DEF ReadInv, SinceInv, Quiet
  <2>15. CallInv(c)'
    BY <2>13, <2>14 DEF CallInv
  <2>16. IngestInv' /\ BodyStays
    BY <1>2 DEF DeskInv, IngestInv, BodyStays
  <2> QED BY <2>2, <2>5, <2>6, <2>8, <2>10, <2>15, <2>16, LinkStep
<1> QED BY <1>3, <1>4

LEMMA DescribeStep == ASSUME DeskInv, NEW c \in Calls, Describe(c)
                      PROVE  DeskInv'
<1>1. call[c].at = "describe" /\ UNCHANGED <<tasks, ingest>>
  BY DEF Describe
<1>2. /\ call[c].op \in {"get", "cancel", "speech", "artifact", "progress", "narration"}
      /\ call[c].task \in 0..Len(tasks)
  BY <1>1 DEF DeskInv, CallsInv, CallInv, PointInv
<1>3. CASE call[c].task = 0
  <2>1. Error(c)
    BY <1>3 DEF Describe
  <2> QED BY <1>1, <2>1, ErrorStep
<1>4. CASE call[c].task # 0
  <2> DEFINE at == CASE call[c].op = "cancel" -> "abort"
                     [] call[c].op = "progress" -> "page"
                     [] OTHER -> "result"
  <2>1. Goto(c, at)
    BY <1>4 DEF Describe
  <2>2. call[c].task \in 1..Len(tasks)
    BY <1>2, <1>4 DEF DeskInv, TasksInv
  <2>3. CASE call[c].op = "cancel"
    <3>1. at = "abort"
      BY <2>3
    <3> HIDE DEF at
    <3> QED BY <1>1, <2>1, <2>2, <2>3, <3>1, Same, GoStep
  <2>4. CASE call[c].op = "progress"
    <3>1. at = "page"
      BY <2>4
    <3> HIDE DEF at
    <3> QED BY <1>1, <2>1, <2>2, <2>4, <3>1, Same, GoStep
  <2>5. CASE call[c].op \in {"get", "speech", "artifact", "narration"}
    <3>1. at = "result"
      BY <2>5
    <3> HIDE DEF at
    <3> QED BY <1>1, <2>1, <2>2, <2>5, <3>1, Same, GoStep
  <2> QED BY <1>2, <2>3, <2>4, <2>5
<1> QED BY <1>3, <1>4

\* The mark changes nothing that a client is shown.
LEMMA AbortStep == ASSUME DeskInv, NEW c \in Calls, Abort(c)
                   PROVE  DeskInv'
<1>1. call[c].at = "abort" /\ Goto(c, "result") /\ UNCHANGED ingest
  BY DEF Abort
<1>2. call[c].task \in 1..Len(tasks) /\ call[c].op = "cancel"
  BY <1>1 DEF DeskInv, CallsInv, CallInv, PointInv
<1> DEFINE i == call[c].task
           mark == tasks[i].marked \/ tasks[i].state \notin Settled
           t == [tasks[i] EXCEPT !.marked = mark]
<1>3. tasks' = [tasks EXCEPT ![i] = t]
  BY DEF Abort
<1>4. tasks \in Seq(TaskRecords) /\ tasks[i] \in TaskRecords /\ Len(tasks) \in Nat
  BY <1>2 DEF DeskInv, TasksInv
<1>5. mark \in BOOLEAN
  BY <1>4 DEF TaskRecords
<1> HIDE DEF mark
<1>6. /\ t \in TaskRecords /\ t.state = tasks[i].state /\ t.response = tasks[i].response
      /\ t.captures = tasks[i].captures /\ t.putting = tasks[i].putting
      /\ t.object = tasks[i].object /\ t.late = tasks[i].late /\ t.result = tasks[i].result
  BY <1>4, <1>5 DEF TaskRecords
<1> HIDE DEF t
<1>7. t.state = "completed" => t.response \in Responses
  BY <1>2, <1>6 DEF DeskInv, TasksInv
<1>11. PutInv(t)
  BY <1>2, <1>6, TaskIs DEF PutInv
<1>8. TasksInv' /\ Stays
  BY <1>2, <1>3, <1>6, <1>7, <1>11, TaskChanges DEF DeskInv
<1>9. IngestInv' /\ BodyStays
  BY <1>1 DEF DeskInv, IngestInv, BodyStays
<1>10. call[c].task \in 1..Len(tasks')
  BY <1>2, <1>3, <1>4
<1> QED BY <1>1, <1>2, <1>8, <1>9, <1>10, GoStep

-----------------------------------------------------------------------------
(* The answers. *)

\* The answer of a call, as it is recorded.
LEMMA Said == ASSUME NEW c \in Calls, NEW answer, Ends(c, answer), last' # None
              PROVE  /\ last'.op = call[c].op /\ last'.task = call[c].task
                     /\ last'.since = call[c].since /\ last'.answer = answer
  BY DEF Ends

Viewing == {"submit", "get", "cancel", "speech", "list"}

\* Views that the call may rely on are shown.
LEMMA ShowStep == ASSUME DeskInv, NEW c \in Calls, NEW views, Show(c, views),
                         UNCHANGED <<tasks, ingest>>,
                         call[c].at # "over", call[c].op \in Viewing,
                         DOMAIN views \subseteq 1..Len(tasks),
                         \A i \in DOMAIN views : views[i] \in Views /\ Holds(c, i, views[i])
                  PROVE  DeskInv'
<1>1. TasksInv' /\ IngestInv' /\ Stays /\ BodyStays
  BY Same
<1>2. /\ call' = [call EXCEPT ![c] = NoCall]
      /\ told' = [i \in Ids |->
                    IF i \in DOMAIN views /\ views[i].state \in Settled /\ told[i] = None
                      THEN views[i] ELSE told[i]]
  BY DEF Show, Ends
<1>3. \A i \in Ids : told[i] # None => told'[i] = told[i]
  BY <1>2
<1>4. told \in [Ids -> Views \cup {None}]
  BY DEF DeskInv, ToldInv
\* A settled view is that of the task.
<1>5. ASSUME NEW i \in DOMAIN views, views[i].state \in Settled
      PROVE  views[i] = Snapshot(i) /\ views[i].state = tasks[i].state
  <2>1. views[i] = Snapshot(i)
    BY <1>5 DEF Holds
  <2> QED BY <1>5, <2>1, View DEF DeskInv
<1>6. ToldInv'
  <2>1. told' \in [Ids -> Views \cup {None}]
    BY <1>2, <1>4
  <2>2. ASSUME NEW i \in Ids, told'[i] # None
        PROVE  i \in 1..Len(tasks) /\ tasks[i].state \in Settled /\ told'[i] = Snapshot(i)
    <3>1. CASE told[i] # None
      BY <1>3, <3>1 DEF DeskInv, ToldInv
    <3>2. CASE told[i] = None
      <4>1. i \in DOMAIN views /\ views[i].state \in Settled /\ told'[i] = views[i]
        BY <1>2, <2>2, <3>2
      <4> QED BY <4>1, <1>5
    <3> QED BY <3>1, <3>2
  <2>3. \A i \in Ids : Snapshot(i)' = Snapshot(i)
    BY DEF Snapshot
  <2> QED BY <2>1, <2>2, <2>3 DEF ToldInv
<1>7. ViewsAgree'
  <2>1. SUFFICES ASSUME last' # None, NEW i \in DOMAIN views
                 PROVE  /\ call[c].since[i] # None => views[i] = call[c].since[i]
                        /\ /\ views[i].state = "completed"
                           /\ tasks[i].response.spoken.levels = <<>> /\ ~tasks[i].response.large
                           => /\ views[i].response.spoken = tasks[i].response.spoken
                              /\ views[i].response.presentation = tasks[i].response.presentation
    <3>1. last' # None => last'.since = call[c].since /\ last'.answer = views
      BY Said DEF Show
    <3> QED BY <2>1, <3>1 DEF ViewsAgree, Answered
  <2>2. i \in Ids
    BY DeskAssumption DEF DeskInv, TasksInv, Ids
  <2>3. call[c].since[i] # None => views[i] = call[c].since[i]
    <3>1. call[c].since[i] # None => told[i] = call[c].since[i] /\ told[i] = Snapshot(i)
      BY <2>2 DEF DeskInv, CallsInv, CallInv, SinceInv, ToldInv
    <3> QED BY <3>1 DEF Holds
  <2>4. ASSUME views[i].state = "completed", tasks[i].response.spoken.levels = <<>>,
               ~tasks[i].response.large
        PROVE  /\ views[i].response.spoken = tasks[i].response.spoken
               /\ views[i].response.presentation = tasks[i].response.presentation
    <3>1. views[i] = Snapshot(i) /\ tasks[i].state = "completed"
      BY <2>4, <1>5 DEF Settled
    <3> QED BY <2>4, <3>1, AsStored DEF DeskInv
  <2> QED BY <2>3, <2>4
<1>8. last' # None => last'.op \in Viewing
  BY Said DEF Show
<1>9. LastInv'
  BY <1>7, <1>8 DEF LastInv, DownloadIsResult, NarrationIsWhole, IngestAnswered, Answered, Viewing
<1> QED BY <1>1, <1>2, <1>3, <1>6, <1>9, EndStep

\* The view of one task, as it is now.
LEMMA ShowOneStep == ASSUME DeskInv, NEW c \in Calls, NEW i \in 1..Len(tasks),
                            Show(c, [j \in {i} |-> Snapshot(j)]), UNCHANGED <<tasks, ingest>>,
                            call[c].at # "over", call[c].op \in Viewing
                     PROVE  DeskInv'
<1> DEFINE views == [j \in {i} |-> Snapshot(j)]
<1>1. DOMAIN views = {i} /\ views[i] = Snapshot(i)
  OBVIOUS
<1>2. Snapshot(i) \in Views
  BY View DEF DeskInv
<1> HIDE DEF views
<1>3. \A j \in DOMAIN views : views[j] \in Views /\ Holds(c, j, views[j])
  BY <1>1, <1>2 DEF Holds
<1>4. Show(c, views)
  BY DEF views
<1> QED BY <1>1, <1>3, <1>4, ShowStep

LEMMA ResultStep == ASSUME DeskInv, NEW c \in Calls, Result(c)
                    PROVE  DeskInv'
<1>1. call[c].at = "result" /\ call[c].op # "speech" /\ UNCHANGED <<tasks, ingest>>
  BY DEF Result
<1>2. /\ call[c].task \in 1..Len(tasks)
      /\ call[c].op \in {"submit", "get", "cancel", "artifact", "narration"}
  BY <1>1 DEF DeskInv, CallsInv, CallInv, PointInv
<1>3. CASE call[c].op = "artifact" /\ tasks[call[c].task].state = "completed"
  <2>1. Goto(c, "object")
    BY <1>3 DEF Result
  <2> QED BY <1>1, <1>2, <1>3, <2>1, Same, GoStep
<1>4. CASE call[c].op = "artifact" /\ tasks[call[c].task].state # "completed"
  <2>1. Error(c)
    BY <1>4 DEF Result
  <2> QED BY <1>1, <2>1, ErrorStep
<1>5. CASE call[c].op = "narration"
  <2>1. Goto(c, "page")
    BY <1>5 DEF Result
  <2> QED BY <1>1, <1>2, <1>5, <2>1, Same, GoStep
<1>6. CASE call[c].op \in {"submit", "get", "cancel"}
  <2>1. Show(c, [j \in {call[c].task} |-> Snapshot(j)])
    BY <1>6 DEF Result
  <2> QED BY <1>1, <1>2, <1>6, <2>1, ShowOneStep DEF Viewing
<1> QED BY <1>2, <1>3, <1>4, <1>5, <1>6

LEMMA SpeechStep == ASSUME DeskInv, NEW c \in Calls, Speech(c)
                    PROVE  DeskInv'
<1>1. call[c].at = "result" /\ call[c].op = "speech" /\ UNCHANGED <<tasks, ingest>>
  BY DEF Speech
<1>2. call[c].task \in 1..Len(tasks)
  BY <1>1 DEF DeskInv, CallsInv, CallInv, PointInv
<1>3. CASE tasks[call[c].task].state = "completed"
  <2>1. Show(c, [j \in {call[c].task} |-> Snapshot(j)])
    BY <1>3 DEF Speech
  <2> QED BY <1>1, <1>2, <2>1, ShowOneStep DEF Viewing
<1>4. CASE tasks[call[c].task].state # "completed"
  <2>1. Error(c)
    BY <1>4 DEF Speech
  <2> QED BY <1>1, <2>1, ErrorStep
<1> QED BY <1>3, <1>4

\* An answer that is no view.
LEMMA OtherStep == ASSUME DeskInv, NEW c \in Calls, NEW answer, Answer(c, answer),
                          UNCHANGED <<tasks, ingest>>,
                          call[c].op \notin Viewing \cup {"ingest"},
                          DownloadIsResult', NarrationIsWhole'
                   PROVE  DeskInv'
<1>1. last' # None => last'.op = call[c].op
  BY Said DEF Answer
<1>2. LastInv'
  BY <1>1 DEF LastInv, ViewsAgree, IngestAnswered, Answered, Viewing
<1> QED BY <1>2, Same, AnswerStep

LEMMA ObjectStep == ASSUME DeskInv, NEW c \in Calls, Object(c)
                    PROVE  DeskInv'
<1>1. call[c].at = "object" /\ UNCHANGED <<tasks, ingest>>
  BY DEF Object
<1>2. call[c].op = "artifact" /\ tasks[call[c].task].state = "completed"
  BY <1>1 DEF DeskInv, CallsInv, CallInv, PointInv, ReadInv
<1>3. PICK answer \in {None, [object |-> tasks[call[c].task].object]} : Answer(c, answer)
  BY DEF Object
<1>4. CASE answer = None
  BY <1>1, <1>3, <1>4, ErrorStep DEF Error
<1>5. CASE answer = [object |-> tasks[call[c].task].object]
  <2>1. last' # None =>
          last'.op = "artifact" /\ last'.task = call[c].task /\ last'.answer = answer
    BY <1>2, <1>3, Said DEF Answer
  <2> DEFINE t == tasks[call[c].task]
  <2>2. answer.object \in {t.result} \cup t.late
    <3>1. call[c].task \in 1..Len(tasks)
      BY <1>1 DEF DeskInv, CallsInv, CallInv, PointInv
    <3> QED BY <1>2, <1>5, <3>1, TaskIs DEF PutInv
  <2> HIDE DEF t
  <2>6. last' # None => tasks'[last'.task] = t
    BY <1>1, <2>1 DEF t
  <2>7. t.state = "completed"
    BY <1>2 DEF t
  <2>3. DownloadIsResult'
    BY <2>1, <2>2, <2>6, <2>7 DEF DownloadIsResult, Answered
  <2>4. NarrationIsWhole'
    BY <2>1 DEF NarrationIsWhole, Answered
  <2> QED BY <1>1, <1>2, <1>3, <2>3, <2>4, OtherStep DEF Viewing
<1> QED BY <1>3, <1>4, <1>5

LEMMA ProgressStep == ASSUME DeskInv, NEW c \in Calls, Progress(c)
                      PROVE  DeskInv'
<1>1. call[c].at = "page" /\ call[c].op = "progress" /\ UNCHANGED <<tasks, ingest>>
  BY DEF Progress
<1>2. PICK after \in 0..MaxEvents :
        Answer(c, [after |-> after, through |-> MaxEvents, events |-> Page(call[c].task, after)])
  BY DEF Progress
<1>3. last' # None => last'.op = "progress"
  BY <1>1, <1>2, Said DEF Answer
<1>4. DownloadIsResult' /\ NarrationIsWhole'
  BY <1>3 DEF DownloadIsResult, NarrationIsWhole, Answered
<1> QED BY <1>1, <1>2, <1>4, OtherStep DEF Viewing

\* A page that reaches an event has every kept event before it.
LEMMA PageIsPrefix == ASSUME NEW i, tasks[i].events \in Nat, NEW after \in Nat,
                             NEW through \in Page(i, after),
                             NEW e \in Kept(i), after < e, e <= through
                      PROVE  e \in Page(i, after)
<1> DEFINE later == {d \in Kept(i) : d > after}
           Below(x) == {d \in later : d < x}
<1>1. later \subseteq 1..tasks[i].events
  BY DEF Kept
<1>9. IsFiniteSet(1..tasks[i].events)
  BY FS_Interval
<1>2. IsFiniteSet(Below(through))
  BY <1>1, <1>9, FS_Subset
<1>3. e \in Nat /\ through \in Nat /\ Below(e) \subseteq Below(through)
  BY <1>1 DEF Kept, Page
<1>4. Cardinality(Below(e)) <= Cardinality(Below(through))
  BY <1>2, <1>3, FS_Subset
<1>5. Cardinality(Below(e)) \in Nat /\ Cardinality(Below(through)) \in Nat
  BY <1>2, <1>3, FS_Subset, FS_CardinalityType
<1>6. Cardinality(Below(through)) < PageSize
  BY DEF Page
<1>7. PageSize \in Nat
  BY DeskAssumption
<1>8. Cardinality(Below(e)) < PageSize
  <2> HIDE DEF Below
  <2> QED BY <1>4, <1>5, <1>6, <1>7
<1> QED BY <1>8 DEF Page

\* What is told is of the events; and nothing is left out but routine and starts.
LEMMA ToldOf == ASSUME NEW events
                PROVE  /\ Told(events) \subseteq events
                       /\ (events \ Started) \ Routine \subseteq Told(events)
                       /\ events \ Started # {} => Told(events) # {}
  BY DEF Told

\* What is narrated lies between the cursors, and is all that is kept but for routine.
LEMMA NarratedIsWhole == ASSUME NEW i, tasks[i].events \in Nat, NEW after \in Nat,
                                NEW through \in Nat, Narrated(i, after, through) # None
                         PROVE  LET window == after + 1..through
                                    events == Narrated(i, after, through)
                                    kept == (window \cap Kept(i)) \ Started
                                IN /\ events \subseteq window
                                   /\ kept \ Routine \subseteq events
                                   /\ kept # {} => events # {}
<1> DEFINE window == after + 1..through
           selected == {e \in Page(i, after) : e <= through}
<1>1. through \in selected
  BY DEF Narrated
<1>2. selected \subseteq window
  BY DEF Page, Kept
<1>3. window \cap Kept(i) \subseteq selected
  <2> SUFFICES ASSUME NEW e \in window, e \in Kept(i)
               PROVE  e \in selected
    OBVIOUS
  <2>1. after < e /\ e <= through
    OBVIOUS
  <2> QED BY <1>1, <2>1, PageIsPrefix
<1>4. Narrated(i, after, through) = Told(selected)
  BY <1>1 DEF Narrated
<1> HIDE DEF window, selected
<1>5. /\ Narrated(i, after, through) \subseteq window
      /\ ((window \cap Kept(i)) \ Started) \ Routine \subseteq Narrated(i, after, through)
      /\ (window \cap Kept(i)) \ Started # {} => Narrated(i, after, through) # {}
  BY <1>2, <1>3, <1>4, ToldOf
<1> QED BY <1>5 DEF window

LEMMA NarrationStep == ASSUME DeskInv, NEW c \in Calls, Narration(c)
                       PROVE  DeskInv'
<1>1. call[c].at = "page" /\ call[c].op = "narration" /\ UNCHANGED <<tasks, ingest>>
  BY DEF Narration
<1> DEFINE i == call[c].task
<1>8. PICK after \in 0..MaxEvents : \E through \in after + 1..MaxEvents :
        Answer(c, IF Narrated(i, after, through) = None THEN None
                  ELSE [after |-> after, through |-> through,
                        events |-> Narrated(i, after, through)])
  BY DEF Narration
<1>2. PICK through \in after + 1..MaxEvents :
        Answer(c, IF Narrated(i, after, through) = None THEN None
                  ELSE [after |-> after, through |-> through,
                        events |-> Narrated(i, after, through)])
  BY <1>8
<1>3. i \in 1..Len(tasks)
  BY <1>1 DEF DeskInv, CallsInv, CallInv, PointInv
<1>9. tasks[i] \in TaskRecords
  BY <1>3 DEF DeskInv, TasksInv
<1>4. tasks[i].events \in Nat
  BY <1>9 DEF TaskRecords
<1>5. after \in Nat /\ through \in Nat
  BY DeskAssumption
<1> DEFINE events == Narrated(i, after, through)
<1>6. CASE events = None
  BY <1>1, <1>2, <1>6, ErrorStep DEF Error
<1>7. CASE events # None
  <2> DEFINE answer == [after |-> after, through |-> through, events |-> events]
  <2>1. Answer(c, answer)
    BY <1>2, <1>7
  <2>2. /\ events \subseteq after + 1..through
        /\ (((after + 1..through) \cap Kept(i)) \ Started) \ Routine \subseteq events
        /\ ((after + 1..through) \cap Kept(i)) \ Started # {} => events # {}
    BY <1>4, <1>5, <1>7, NarratedIsWhole
  <2> HIDE DEF events
  <2>3. answer.after = after /\ answer.through = through /\ answer.events = events
    OBVIOUS
  <2> HIDE DEF answer
  <2>4. last' # None =>
          last'.op = "narration" /\ last'.task = i /\ last'.answer = answer
    BY <1>1, <2>1, Said DEF Answer
  <2>6. NarrationIsWhole'
    <3>1. last' # None => Kept(last.task)' = Kept(i)
      BY <1>1, <2>4 DEF Kept
    <3> QED BY <2>2, <2>3, <2>4, <3>1 DEF NarrationIsWhole, Answered
  <2>7. DownloadIsResult'
    BY <2>4 DEF DownloadIsResult, Answered
  <2> QED BY <1>1, <2>1, <2>6, <2>7, OtherStep DEF Viewing
<1> QED BY <1>6, <1>7

-----------------------------------------------------------------------------
(* Lists. *)

LEMMA ListStep == ASSUME DeskInv, NEW c \in Calls, List(c)
                  PROVE  DeskInv'
<1>1. call[c].at = "list" /\ Quiet /\ UNCHANGED <<tasks, ingest>>
  BY DEF List
<1>2. PICK S \in SUBSET (1..Len(tasks)) :
        call' = [call EXCEPT ![c].at = "rows", ![c].rows = [i \in S |-> None]]
  BY DEF List, Newest
<1> DEFINE rows == [i \in S |-> None]
           r == [call[c] EXCEPT !.at = "rows", !.rows = rows]
<1>3. S \in SUBSET Ids
  BY DeskAssumption DEF DeskInv, TasksInv, Ids
<1>4. rows \in RowSets
  BY <1>3, Rows
<1>5. DOMAIN rows = S /\ \A i \in S : rows[i] = None
  OBVIOUS
<1>6. call' = [call EXCEPT ![c] = r]
  BY <1>2
<1> HIDE DEF rows
<1>7. call \in [Calls -> CallRecords] /\ call[c] \in CallRecords
  BY DEF DeskInv, CallsInv
<1>8. r \in CallRecords /\ r.at = "rows" /\ r.rows = rows /\ r.op = call[c].op
      /\ r.since = call[c].since
  BY <1>4, <1>7 DEF CallRecords
<1> HIDE DEF r
<1>9. call'[c] = r
  BY <1>6, <1>7
<1>10. call[c].op = "list" /\ SinceInv(c)
  BY <1>1 DEF DeskInv, CallsInv, CallInv, PointInv
<1>11. PointInv(c)' /\ ReadInv(c)'
  BY <1>1, <1>5, <1>8, <1>9, <1>10 DEF PointInv, ReadInv, Modes
<1>12. SinceInv(c)'
  BY <1>1, <1>8, <1>9, <1>10 DEF SinceInv, Quiet
<1>13. CallInv(c)'
  BY <1>11, <1>12 DEF CallInv
<1> QED BY <1>1, <1>6, <1>8, <1>13, Same, LinkStep

LEMMA ListResultStep == ASSUME DeskInv, NEW c \in Calls, ListResult(c)
                        PROVE  DeskInv'
<1>1. call[c].at = "rows" /\ Quiet /\ UNCHANGED <<tasks, ingest>>
  BY DEF ListResult
<1> DEFINE old == call[c].rows
<1>2. PICK i \in DOMAIN old : call' = [call EXCEPT ![c].rows[i] = Snapshot(i)]
  BY DEF ListResult
<1> DEFINE rows == [old EXCEPT ![i] = Snapshot(i)]
           r == [call[c] EXCEPT !.rows = rows]
<1>3. call \in [Calls -> CallRecords] /\ call[c] \in CallRecords
  BY DEF DeskInv, CallsInv
<1>4. old \in RowSets
  BY <1>3 DEF CallRecords
<1>5. PointInv(c) /\ ReadInv(c) /\ SinceInv(c)
  BY DEF DeskInv, CallsInv, CallInv
<1>6. i \in 1..Len(tasks)
  BY <1>1, <1>5 DEF ReadInv
<1>7. rows \in [DOMAIN old -> Views \cup {None}]
  BY <1>4, <1>6, RowsAre, View DEF DeskInv
<1>8. rows \in RowSets
  BY <1>4, <1>7, Rows, RowsAre
<1>9. DOMAIN rows = DOMAIN old /\ \A j \in DOMAIN old :
        rows[j] = IF j = i THEN Snapshot(i) ELSE old[j]
  BY <1>4, RowsAre
<1>10. call' = [call EXCEPT ![c] = r]
  BY <1>2
<1> HIDE DEF rows
<1>11. /\ r \in CallRecords /\ r.at = "rows" /\ r.rows = rows /\ r.op = call[c].op
       /\ r.since = call[c].since
  BY <1>1, <1>3, <1>8 DEF CallRecords
<1> HIDE DEF r
<1>12. call'[c] = r
  BY <1>3, <1>10
<1>13. call[c].op = "list" /\ DOMAIN old \subseteq 1..Len(tasks)
  BY <1>1, <1>5 DEF PointInv, ReadInv
<1>14. PointInv(c)'
  BY <1>11, <1>12, <1>13 DEF PointInv, Modes
<1>15. ASSUME NEW j \in DOMAIN rows, rows[j] # None
       PROVE  r.since[j] # None \/ rows[j].state \in Settled => rows[j] = Snapshot(j)
  <2>1. CASE j = i
    BY <1>9, <2>1
  <2>2. CASE j # i
    <3>1. rows[j] = old[j] /\ j \in DOMAIN old
      BY <1>9, <2>2
    <3> QED BY <1>1, <1>5, <1>11, <1>15, <3>1 DEF ReadInv, Holds
  <2> QED BY <2>1, <2>2
<1>16. \A j \in Ids : Snapshot(j)' = Snapshot(j)
  BY <1>1 DEF Snapshot
<1>17. DOMAIN rows \subseteq Ids
  BY <1>8, RowsAre
<1>18. ReadInv(c)'
  BY <1>1, <1>9, <1>11, <1>12, <1>13, <1>15, <1>16, <1>17 DEF ReadInv, Holds
<1>19. SinceInv(c)'
  BY <1>1, <1>5, <1>11, <1>12 DEF SinceInv, Quiet
<1>20. CallInv(c)'
  BY <1>14, <1>18, <1>19 DEF CallInv
<1> QED BY <1>1, <1>10, <1>11, <1>20, Same, LinkStep

LEMMA ListAnswerStep == ASSUME DeskInv, NEW c \in Calls, ListAnswer(c)
                        PROVE  DeskInv'
<1>1. /\ call[c].at = "rows" /\ UNCHANGED <<tasks, ingest>>
      /\ \A i \in DOMAIN call[c].rows : call[c].rows[i] # None
  BY DEF ListAnswer
<1> DEFINE named == {i \in DOMAIN call[c].rows : call[c].name \in {None, Name(i)}}
           views == [i \in named |-> call[c].rows[i]]
<1>2. Error(c) \/ Show(c, views)
  BY DEF ListAnswer
<1>3. PointInv(c) /\ ReadInv(c) /\ call[c].rows \in RowSets
  BY DEF DeskInv, CallsInv, CallInv, CallRecords
<1>4. call[c].op = "list" /\ DOMAIN call[c].rows \subseteq 1..Len(tasks)
  BY <1>1, <1>3 DEF PointInv, ReadInv
<1>5. DOMAIN views \subseteq DOMAIN call[c].rows
      /\ \A i \in DOMAIN views : views[i] = call[c].rows[i]
  OBVIOUS
<1> HIDE DEF views
<1>6. \A i \in DOMAIN views : views[i] \in Views /\ Holds(c, i, views[i])
  BY <1>1, <1>3, <1>5, RowsAre DEF ReadInv
<1>7. CASE Error(c)
  BY <1>1, <1>7, ErrorStep
<1>8. CASE Show(c, views)
  BY <1>1, <1>4, <1>5, <1>6, <1>8, ShowStep DEF Viewing
<1> QED BY <1>2, <1>7, <1>8

-----------------------------------------------------------------------------
(* The ingestion of a message. *)

LEMMA EnqueueStep == ASSUME DeskInv, NEW c \in Calls, Enqueue(c)
                     PROVE  DeskInv'
<1> DEFINE m == call[c].at
           body == call[c].name
<1>1. m \in Modes /\ UNCHANGED tasks
  BY DEF Enqueue
<1>2. PointInv(c) /\ ReadInv(c)
  BY DEF DeskInv, CallsInv, CallInv
<1>3. /\ call[c].op = "ingest" /\ body \in Bodies /\ body # None
      /\ m = "classify" => ingest["journal"] = body
  BY <1>1, <1>2, DeskAssumption DEF PointInv, ReadInv
<1>4. TasksInv' /\ Stays /\ IngestInv
  BY <1>1 DEF DeskInv, TasksInv, Stays, Snapshot
<1>5. CASE ingest[m] \notin {None, body}
  <2>1. Error(c) /\ UNCHANGED ingest
    BY <1>5 DEF Enqueue
  <2> QED BY <1>1, <2>1, ErrorStep
<1>6. CASE ingest[m] \in {None, body} /\ m = "journal"
  <2>1. ingest' = [ingest EXCEPT !["journal"] = body] /\ Goto(c, "classify")
    BY <1>6 DEF Enqueue
  <2>2. ingest'["journal"] = body /\ ingest'["classify"] = ingest["classify"]
    BY <2>1, <1>4 DEF IngestInv, Modes
  <2>3. ingest' \in [Modes -> Bodies \cup {None}]
    BY <2>1, <1>3, <1>4 DEF IngestInv
  <2>4. IngestInv' /\ BodyStays
    BY <1>4, <1>6, <2>2, <2>3 DEF IngestInv, BodyStays
  <2> QED BY <1>3, <1>4, <1>6, <2>1, <2>2, <2>4, GoStep
<1>7. CASE ingest[m] \in {None, body} /\ m = "classify"
  <2>1. ingest' = [ingest EXCEPT !["classify"] = body] /\ Answer(c, [body |-> body])
    BY <1>7 DEF Enqueue
  <2>2. ingest'["journal"] = body /\ ingest'["classify"] = body
    BY <2>1, <1>3, <1>4, <1>7 DEF IngestInv, Modes
  <2>3. ingest' \in [Modes -> Bodies \cup {None}]
    BY <2>1, <1>3, <1>4 DEF IngestInv
  <2>4. IngestInv' /\ BodyStays
    BY <1>3, <1>7, <2>2, <2>3 DEF IngestInv, BodyStays
  <2>5. last' # None => last'.op = "ingest" /\ last'.answer.body = body
    BY <1>3, <2>1, Said DEF Answer
  <2>6. LastInv'
    BY <2>2, <2>5 DEF LastInv, ViewsAgree, DownloadIsResult, NarrationIsWhole, IngestAnswered,
                      Answered, Modes
  <2> QED BY <1>1, <2>1, <2>4, <2>6, AnswerStep
<1> QED BY <1>1, <1>5, <1>6, <1>7 DEF Modes

-----------------------------------------------------------------------------
(* The theorems. *)

LEMMA InitInv == Init => DeskInv
<1> SUFFICES ASSUME Init
             PROVE  DeskInv
  OBVIOUS
<1>1. TasksInv
  BY DeskAssumption DEF Init, TasksInv
<1>2. ToldInv /\ IngestInv
  BY DEF Init, ToldInv, IngestInv, Modes
<1>3. call \in [Calls -> CallRecords]
  BY NoCallIsOne DEF Init
<1>4. ASSUME NEW c \in Calls
      PROVE  CallInv(c)
  <2>1. call[c].at = "over"
    BY DEF Init, NoCall
  <2> QED BY <2>1 DEF CallInv, PointInv, ReadInv, SinceInv, Modes
<1>5. LastInv
  BY DEF Init, LastInv, ViewsAgree, DownloadIsResult, NarrationIsWhole, IngestAnswered, Answered
<1> QED BY <1>1, <1>2, <1>3, <1>4, <1>5 DEF DeskInv, CallsInv

LEMMA ServeStep == ASSUME DeskInv, NEW c \in Calls, Serve(c)
                   PROVE  DeskInv'
  BY SubmitStep, DescribeStep, AbortStep, ResultStep, SpeechStep, ObjectStep, ProgressStep,
     NarrationStep, ListStep, ListResultStep, ListAnswerStep, EnqueueStep DEF Serve

LEMMA NextInv == DeskInv /\ [Next]_vars => DeskInv'
<1> SUFFICES ASSUME DeskInv, [Next]_vars
             PROVE  DeskInv'
  OBVIOUS
<1>1. ASSUME NEW c \in Calls, Ask(c) \/ Serve(c)
      PROVE  DeskInv'
  BY <1>1, AskStep, ServeStep
<1>2. ASSUME NEW c \in Calls, CallFails(c)
      PROVE  DeskInv'
  BY <1>2, ErrorStep DEF CallFails
<1>3. DOMAIN tasks = 1..Len(tasks)
  BY DEF DeskInv, TasksInv
<1>4. ASSUME NEW i \in DOMAIN tasks, Report(i) \/ Capture(i) \/ Put(i) \/ Complete(i) \/ Fail(i)
      PROVE  DeskInv'
  BY <1>3, <1>4, ReportStep, CaptureStep, PutStep, CompleteStep, FailStep
<1>5. CASE UNCHANGED vars
  <2>1. TasksInv' /\ ToldInv' /\ IngestInv'
    BY <1>5 DEF vars, DeskInv, TasksInv, ToldInv, IngestInv, Snapshot
  <2>2. CallsInv'
    BY <1>5 DEF vars, DeskInv, CallsInv, CallInv, PointInv, ReadInv, SinceInv, Holds, Snapshot
  <2>3. LastInv'
    BY <1>5 DEF vars, DeskInv, LastInv, ViewsAgree, DownloadIsResult, NarrationIsWhole,
                IngestAnswered, Answered, Kept
  <2> QED BY <2>1, <2>2, <2>3 DEF DeskInv
<1> QED BY <1>1, <1>2, <1>4, <1>5 DEF Next

\* The tasks, the calls in flight, what clients were shown and the last answer are always of
\* their kinds, and what a call has read between its links still holds: the chains of owner
\* commands and object reads that main.py and service.py make for a client.
THEOREM DeskInvariance == Spec => []DeskInv
<1>1. Init => DeskInv
  BY InitInv
<1>2. DeskInv /\ [Next]_vars => DeskInv'
  BY NextInv
<1> QED BY <1>1, <1>2, PTL DEF Spec

\* Once a client was shown that a task is settled, every later call by whatever way shows the
\* same outcome and response, for any clients, tasks, names and list limits; and a reply that
\* the worker has unwrapped is shown as it was stored, however many levels are unwrapped, if
\* its dump is not too large to be parsed (pi_response.py cuts it at 70,000 characters).
THEOREM OneView == Spec => []ViewsAgree
<1>1. DeskInv => ViewsAgree
  BY DEF DeskInv, LastInv
<1> QED BY <1>1, DeskInvariance, PTL

\* A download is the object of the capture that the completed result names, or of one that an
\* owner which died had left at work when that capture had put its object; it is never missing
\* and never one that an earlier capture put before: artifacts.py puts every capture under the
\* same key, however often owners restart.
THEOREM Downloads == Spec => []DownloadIsResult
<1>1. DeskInv => DownloadIsResult
  BY DEF DeskInv, LastInv
<1> QED BY <1>1, DeskInvariance, PTL

\* A narration has every kept event between its cursors but for starts and routine ones, and no
\* other, and is silent only if there are but starts, for any page size, any limit of kept
\* events and any events that are routine.
THEOREM WholeNarrations == Spec => []NarrationIsWhole
<1>1. DeskInv => NarrationIsWhole
  BY DEF DeskInv, LastInv
<1> QED BY <1>1, DeskInvariance, PTL

\* The two ingestion tasks of a message have one body, and an acknowledged message has both,
\* whatever calls overlap, fail half-way and are repeated.
THEOREM OneBody == Spec => []IngestionAgrees
<1>1. DeskInv => IngestionAgrees
  BY DEF DeskInv, IngestInv, LastInv, IngestAnswered, IngestionAgrees, Modes
<1> QED BY <1>1, DeskInvariance, PTL
=============================================================================
