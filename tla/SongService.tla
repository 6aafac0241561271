----------------------------- MODULE SongService -----------------------------
(***************************************************************************)
(* The life of one song generation: SongService in tasking/application/    *)
(* song_service.py and its pure decisions in tasking/domain/               *)
(* song_lifecycle.py, over the task owner.  The gateway runs every request *)
(* in a thread of its own (asyncio.to_thread), and a request is a chain of *)
(* separate owner commands: each command is a step, and the commands of    *)
(* other requests and the steps of the two tasks run in between.           *)
(*                                                                         *)
(* The owner is the abstract one of TaskContract, which TaskOwner          *)
(* implements, with the durable abort mark, the cancellation stamp and the *)
(* effect process of the render, which may outlive the owner.              *)
(***************************************************************************)
EXTENDS Naturals

CONSTANTS
  Calls,       \* the threads of the gateway: the calls in flight at a time
  Traces,      \* the trace contexts a render request may carry
  Brief,       \* the parameters of the lyric task
  Candidates,  \* the manifests a lyric session may propose
  CallsFail,   \* whether a call may fail on its way to the owner
  None         \* nothing: an unbound request ID, no answer yet

VARIABLES
  bound, verdict, renders,    \* TaskContract, for the two tasks of the song
  marked, cancelledAt,        \* abort marks; the stamp in the lyric task's entry
  manifest,                   \* the manifest in the lyric task's result
  effect, orphaned, stored,   \* the render process; its owner is dead; its object is there
  op, pc, row, lyricsSeen,    \* per call: operation, next step, what it has read
  reply, floor,               \* its answer; history: what was shown before it began
  shown                       \* history: the furthest status that a client was shown

contract == <<bound, verdict, renders>>
render == <<effect, orphaned, stored>>
owner == <<contract, marked, cancelledAt, manifest, render>>
calls == <<op, pc, row, lyricsSeen, reply, floor>>
vars  == <<owner, calls, shown>>

\* lyrics_task_id and render_task_id: both are derived from the generation ID.
Tasks == {"lyrics", "render"}
SongInputs == {Brief} \cup Traces
SongKind == [i \in SongInputs |-> IF i = Brief THEN "song-lyrics" ELSE "song-render"]

Task == INSTANCE TaskContract WITH
  Requests <- Tasks, Inputs <- SongInputs, Kind <- SongKind

Statuses == {"writing_lyrics", "lyrics_ready", "generating_music", "complete",
             "failed", "cancelled"}
Ops == {"create", "get", "render", "cancel", "audio"}
Points == {"idle", "submitLyrics", "checkLyrics", "checkRender", "decide",
           "submitRender", "stamp", "abort", "rowLyrics", "rowRender",
           "viewLyrics", "viewRender", "getSong", "told"}

\* What owner.get shows, as far as the song decisions read it.
Snapshots == {"active", "result", "reconcile", "aborted", "failed"}
Snapshot(t) == IF verdict[t] = "none" THEN "active" ELSE verdict[t]

NoRow == [cancelled |-> FALSE, render |-> FALSE]
Steps == {"render", "put"}

Init ==
  /\ Task!Init
  /\ marked = [t \in Tasks |-> FALSE] /\ cancelledAt = FALSE
  /\ manifest = None
  /\ effect = "none" /\ orphaned = FALSE /\ stored = FALSE
  /\ op = [c \in Calls |-> None] /\ pc = [c \in Calls |-> "idle"]
  /\ row = [c \in Calls |-> NoRow] /\ lyricsSeen = [c \in Calls |-> "active"]
  /\ reply = [c \in Calls |-> None] /\ floor = [c \in Calls |-> None]
  /\ shown = None

Goto(c, point) == pc' = [pc EXCEPT ![c] = point]

\* The call goes on; or it has an answer for its client; or it is over without a status,
\* refused, failed or with the song.  It forgets what it has read.
Proceed(c, point) == Goto(c, point) /\ UNCHANGED <<op, row, lyricsSeen, reply, floor>>

\* What is left of every operation is a get.
View(c) ==
  /\ op' = [op EXCEPT ![c] = "get"] /\ row' = [row EXCEPT ![c] = NoRow]
  /\ Goto(c, "rowLyrics") /\ UNCHANGED <<lyricsSeen, reply, floor>>

Forget(c) ==
  /\ op' = [op EXCEPT ![c] = None] /\ row' = [row EXCEPT ![c] = NoRow]
  /\ lyricsSeen' = [lyricsSeen EXCEPT ![c] = "active"]

Answer(c, answer) ==
  /\ reply' = [reply EXCEPT ![c] = answer]
  /\ Goto(c, "told") /\ Forget(c) /\ UNCHANGED floor

Over(c) ==
  /\ Goto(c, "idle") /\ Forget(c)
  /\ reply' = [reply EXCEPT ![c] = None] /\ floor' = [floor EXCEPT ![c] = None]

-----------------------------------------------------------------------------
(* song_generation.py.  A manifest says of each field whether it is there  *)
(* and valid; some fields have two names.                                  *)

Fields == {"title", "style", "lyrics", "lyricLines", "lyric_lines", "durationSeconds",
           "duration_seconds", "bpm", "keyScale", "key_scale", "timeSignature",
           "time_signature"}

Named(value, first, second) == IF value[first] # "none" THEN value[first] ELSE value[second]

\* validate_song_manifest: the text is used before its lines, the first name before the
\* second, and the time signature may be missing.
Valid(value) ==
  /\ \A f \in {"title", "style", "bpm"} : value[f] = "valid"
  /\ IF value["lyrics"] # "none" THEN value["lyrics"] = "valid"
     ELSE Named(value, "lyricLines", "lyric_lines") = "valid"
  /\ Named(value, "durationSeconds", "duration_seconds") = "valid"
  /\ Named(value, "keyScale", "key_scale") = "valid"
  /\ Named(value, "timeSignature", "time_signature") \in {"valid", "none"}

\* SongManifest.to_dict of a valid one.
Manifest == [f \in Fields |->
  IF f \in {"title", "style", "lyrics", "duration_seconds", "bpm", "key_scale", "time_signature"}
  THEN "valid" ELSE "none"]

\* The brief of the lyrics is not that of a render, and nothing is none of the values.
ASSUME SongAssumption ==
  /\ Brief \notin Traces
  /\ None \notin SongInputs /\ None # Manifest
  /\ None \notin Statuses \cup {"invalid_lyrics", "lost"}

\* manifest_from_pi_result: the manifest of the result, else that of the presentation, else
\* that of the text; the first that is there has to be valid.
FromResult(result) ==
  IF result.manifest # None THEN Valid(result.manifest)
  ELSE IF result.presentation # None THEN Valid(result.presentation)
  ELSE result.text # None /\ Valid(result.text)

-----------------------------------------------------------------------------
(* song_lifecycle.py *)

\* _manifest and _audio_artifact of the task snapshots.
HasManifest(lyrics) ==
  lyrics = "result" /\ FromResult([manifest |-> manifest, presentation |-> None, text |-> None])
HasAudio(snapshot) == snapshot = "result"

\* MUTANT of DecideRender: the cancellation is not looked at.
DecideRenderCancelled(cancelled, requested, lyrics) ==
  CASE requested                          -> "already_requested"
    [] ~requested /\ HasManifest(lyrics)  -> "ready"
    [] ~requested /\ ~HasManifest(lyrics) -> "not_ready"

\* decide_render, after the row and the lyric snapshot are read.
DecideRender(cancelled, requested, lyrics) ==
  IF cancelled THEN "cancelled"
  ELSE IF requested THEN "already_requested"
  ELSE IF lyrics # "result" THEN "not_ready"
  ELSE IF HasManifest(lyrics) THEN "ready" ELSE "invalid_lyrics"

\* project_song while there is no render task, and with one.
ProjectLyrics(lyrics) ==
  CASE lyrics = "active"                  -> "writing_lyrics"
    [] lyrics = "result"                  -> IF HasManifest(lyrics) THEN "lyrics_ready" ELSE "failed"
    [] lyrics = "aborted"                 -> "cancelled"
    [] lyrics \in {"failed", "reconcile"} -> "failed"

\* MUTANT of ProjectRender: every completed render is taken for a finished one.
ProjectRenderCompleted(snapshot, lyrics) ==
  CASE snapshot = "active"                  -> "generating_music"
    [] snapshot \in {"result", "reconcile"} -> "complete"
    [] snapshot = "aborted"                 -> "cancelled"
    [] snapshot = "failed"                  -> "failed"

\* A render left to reconciliation is completed without an audio artifact.
ProjectRender(snapshot, lyrics) ==
  CASE snapshot = "active"                        -> "generating_music"
    [] HasAudio(snapshot) /\ HasManifest(lyrics)  -> "complete"
    [] snapshot = "aborted"                       -> "cancelled"
    [] snapshot \in {"failed", "reconcile"}
       \/ (HasAudio(snapshot) /\ ~HasManifest(lyrics)) -> "failed"

-----------------------------------------------------------------------------
(* song_service.py *)

\* What a client may be shown after it was shown a status.
Later(status) ==
  CASE status \in {None, "writing_lyrics"} -> Statuses
    [] status = "lyrics_ready"     -> Statuses \ {"writing_lyrics"}
    [] status = "generating_music" -> Statuses \ {"writing_lyrics", "lyrics_ready"}
    [] status = "complete"         -> {"complete", "cancelled"}
    [] status = "failed"           -> {"failed", "cancelled"}
    [] status = "cancelled"        -> {"cancelled"}

\* The endpoints of the gateway, and where the service begins for each.
Endpoint(o) == CASE o = "create"               -> "submitLyrics"
                 [] o \in {"get", "audio"}     -> "rowLyrics"
                 [] o \in {"render", "cancel"} -> "checkLyrics"

\* A browser calls the edge, which calls the gateway; but for create, one that was
\* told the generation ID.  A create that failed is made again.
Begin(c, o) ==
  /\ pc[c] = "idle"
  /\ IF o = "create" THEN bound["lyrics"] = None /\ \A d \in Calls : pc[d] = "idle"
                     ELSE shown # None
  /\ op' = [op EXCEPT ![c] = o]
  /\ Goto(c, Endpoint(o))
  /\ floor' = [floor EXCEPT ![c] = shown]
  /\ UNCHANGED <<owner, row, lyricsSeen, reply, shown>>

\* The gateway's answer comes back through the edge, which has waited for thirty seconds
\* and then given up; the gateway has gone on all the same.
Return(c) ==
  /\ pc[c] = "told"
  /\ \/ reply[c] \in Later(shown) /\ shown' = reply[c]
     \/ UNCHANGED shown
  /\ Over(c)
  /\ UNCHANGED owner

\* create: the lyric task is submitted under a new generation ID.
SubmitLyrics(c) ==
  /\ pc[c] = "submitLyrics"
  /\ Task!Accept("lyrics", Brief)
  /\ View(c)
  /\ UNCHANGED <<marked, cancelledAt, manifest, render, shown>>

\* _get_owned reads the two entries with two commands; it runs before the
\* operation ("check") and again before the view ("row").
ReadLyricsEntry(c) ==
  /\ pc[c] \in {"checkLyrics", "rowLyrics"}
  /\ row' = [row EXCEPT ![c].cancelled = cancelledAt]
  /\ Goto(c, IF pc[c] = "checkLyrics" THEN "checkRender" ELSE "rowRender")
  /\ UNCHANGED <<owner, op, lyricsSeen, reply, floor, shown>>

\* cancel of a song already cancelled goes straight to the view.
ReadRenderEntry(c) ==
  /\ pc[c] \in {"checkRender", "rowRender"}
  /\ IF pc[c] = "checkRender" /\ op[c] = "cancel" /\ row[c].cancelled THEN View(c)
     ELSE /\ row' = [row EXCEPT ![c].render = bound["render"] # None]
          /\ Goto(c, CASE pc[c] = "rowRender"                       -> "viewLyrics"
                       [] pc[c] = "checkRender" /\ op[c] = "render" -> "decide"
                       [] pc[c] = "checkRender" /\ op[c] = "cancel" -> "stamp")
          /\ UNCHANGED <<op, lyricsSeen, reply, floor>>
  /\ UNCHANGED <<owner, shown>>

\* render reads the lyric snapshot and decides on what it has read.
Decide(c) ==
  /\ pc[c] = "decide"
  /\ LET readiness == DecideRender(row[c].cancelled, row[c].render, Snapshot("lyrics"))
     IN \/ readiness = "ready" /\ Proceed(c, "submitRender")
        \/ readiness = "already_requested" /\ Proceed(c, "viewLyrics")
        \/ /\ readiness \notin {"ready", "already_requested"}
           /\ IF readiness = "invalid_lyrics" THEN Answer(c, readiness) ELSE Over(c)
  /\ UNCHANGED <<owner, shown>>

\* The render task is submitted with the request's trace context in its input:
\* the owner takes a second submission for a repetition only if that is equal.
SubmitRender(c, trace) ==
  /\ pc[c] = "submitRender"
  /\ \/ Task!Accept("render", trace) /\ View(c)
     \/ /\ bound["render"] # None
        /\ UNCHANGED contract
        /\ IF bound["render"] = trace THEN View(c) ELSE Over(c)
  /\ UNCHANGED <<marked, cancelledAt, manifest, render, shown>>

\* cancel: owner.cancel_product stamps the lyric task's entry ...
StampCancel(c) ==
  /\ pc[c] = "stamp"
  /\ cancelledAt' = TRUE
  /\ Goto(c, "abort")
  /\ UNCHANGED <<contract, marked, manifest, render, op, row, lyricsSeen, reply, floor, shown>>

\* ... then owner.abort marks the task that was the active one when the row was read.
AbortActive(c) ==
  /\ pc[c] = "abort"
  /\ LET active == IF row[c].render THEN "render" ELSE "lyrics"
     IN marked' = [marked EXCEPT ![active] = @ \/ verdict[active] = "none"]
  /\ View(c)
  /\ UNCHANGED <<contract, cancelledAt, manifest, render, shown>>

\* _view: the lyric snapshot, then the render snapshot if the row has a render.
ViewLyrics(c) ==
  /\ pc[c] = "viewLyrics"
  /\ lyricsSeen' = [lyricsSeen EXCEPT ![c] = Snapshot("lyrics")]
  /\ Goto(c, "viewRender")
  /\ UNCHANGED <<owner, op, row, reply, floor, shown>>

\* MUTANT of ViewRender: a render's state is shown before the cancellation.
ViewRenderFirst(c) ==
  /\ pc[c] = "viewRender"
  /\ Answer(c, IF row[c].render THEN ProjectRender(Snapshot("render"), lyricsSeen[c])
               ELSE IF row[c].cancelled THEN "cancelled"
               ELSE ProjectLyrics(lyricsSeen[c]))
  /\ UNCHANGED <<owner, shown>>

\* audio goes on to the song's object if the view has one.
ViewRender(c) ==
  /\ pc[c] = "viewRender"
  /\ LET status == IF row[c].cancelled THEN "cancelled"
                   ELSE IF row[c].render THEN ProjectRender(Snapshot("render"), lyricsSeen[c])
                   ELSE ProjectLyrics(lyricsSeen[c])
     IN \/ op[c] # "audio" /\ Answer(c, status)
        \/ op[c] = "audio" /\ status # "complete" /\ Over(c)
        \/ op[c] = "audio" /\ status = "complete" /\ Proceed(c, "getSong")
  /\ UNCHANGED <<owner, shown>>

\* get_song reads the object, and the edge hands it on.
GetSong(c) ==
  /\ pc[c] = "getSong"
  /\ IF stored THEN Over(c) ELSE Answer(c, "lost")
  /\ UNCHANGED <<owner, shown>>

\* A command fails or times out, done or not: the call is over where it is, and what its
\* earlier commands did stays.
CallFails(c) ==
  /\ CallsFail /\ pc[c] \notin {"idle", "told"}
  /\ Over(c)
  /\ UNCHANGED <<owner, shown>>

-----------------------------------------------------------------------------
(* The owner's tasks. *)

\* The owner starts the effect of the render.
BeginRender ==
  /\ Task!BeginRender("render")
  /\ effect' = "render"
  /\ UNCHANGED <<marked, cancelledAt, manifest, orphaned, stored, calls, shown>>

EffectGoes(from, to) ==
  /\ effect = from /\ effect' = to
  /\ UNCHANGED <<contract, marked, cancelledAt, manifest, orphaned, calls, shown>>

\* run_song_render gives the manifest of the task's input to ACE-Step and polls it, which
\* ends at any time or never, and downloads and encodes the song.  Nobody sees this.
RenderSong == EffectGoes("render", "put") /\ Valid(manifest) /\ UNCHANGED stored

\* put_song.
StoreSong == EffectGoes("put", "stored") /\ stored' = TRUE

\* A step of the effect fails: ACE-Step does not answer, refuses, fails or is not done in
\* time, the audio is too large, the encoder or the store fails.
EffectFails == UNCHANGED stored /\ \E from \in Steps : EffectGoes(from, "failed")

\* The owner dies under the effect, which lives on until its watchdog sees it.
OwnerDies ==
  /\ renders["render"] = 1 /\ verdict["render"] = "none" /\ ~orphaned
  /\ orphaned' = TRUE
  /\ UNCHANGED <<contract, marked, cancelledAt, manifest, effect, stored, calls, shown>>

StopIfOwnerExits ==
  /\ orphaned
  /\ \E from \in Steps : EffectGoes(from, "none")
  /\ UNCHANGED stored

\* What the lyric session may answer.
Answers == [manifest : {None}, presentation : Candidates \cup {None}, text : Candidates \cup {None}]

\* The lyric session's answer is parsed by the finishing effect, which fails without a
\* valid manifest.
FinishLyrics ==
  /\ \E accepted \in {FromResult(a) : a \in Answers} :
       IF accepted
         THEN Task!Decide("lyrics", "result") /\ manifest' = Manifest
         ELSE Task!Decide("lyrics", "failed") /\ UNCHANGED manifest
  /\ marked' = [marked EXCEPT !["lyrics"] = FALSE]
  /\ UNCHANGED <<cancelledAt, render, calls, shown>>

\* A render's result is what its effect has returned, its failure the effect's; a render
\* whose owner died is left to reconciliation.  Only a marked task ends aborted; a marked
\* task may still end otherwise.  What an orphan does after this is nobody's result.
TaskDecides(t, v) ==
  /\ Task!Decide(t, v)
  /\ t = "lyrics" => v \in {"aborted", "failed"}
  /\ t = "render" => CASE v = "result"    -> effect = "stored" /\ ~orphaned
                       [] v = "failed"    -> effect = "failed" /\ ~orphaned
                       [] v = "reconcile" -> orphaned
                       [] v = "aborted"   -> TRUE
  /\ v = "aborted" => marked[t]
  /\ marked' = [marked EXCEPT ![t] = FALSE]
  /\ IF t = "render" THEN effect' = "none" /\ orphaned' = FALSE ELSE UNCHANGED <<effect, orphaned>>
  /\ UNCHANGED <<cancelledAt, manifest, stored, calls, shown>>

Call(c) ==
  \/ SubmitLyrics(c) \/ ReadLyricsEntry(c) \/ ReadRenderEntry(c) \/ Decide(c)
  \/ \E trace \in Traces : SubmitRender(c, trace)
  \/ StampCancel(c) \/ AbortActive(c) \/ ViewLyrics(c) \/ ViewRender(c) \/ GetSong(c)

Next ==
  \/ \E c \in Calls : (\E o \in Ops : Begin(c, o)) \/ Call(c) \/ CallFails(c) \/ Return(c)
  \/ BeginRender \/ RenderSong \/ StoreSong \/ EffectFails
  \/ OwnerDies \/ StopIfOwnerExits \/ FinishLyrics
  \/ \E t \in Tasks, v \in Task!Verdicts : TaskDecides(t, v)

Spec == Init /\ [][Next]_vars

-----------------------------------------------------------------------------
(* Properties. *)

\* Every variable has its type.
TypeOK ==
  /\ bound \in [Tasks -> SongInputs \cup {None}]
  /\ verdict \in [Tasks -> Task!Verdicts \cup {"none"}]
  /\ renders \in [Tasks -> Nat]
  /\ marked \in [Tasks -> BOOLEAN]
  /\ cancelledAt \in BOOLEAN
  /\ manifest \in {None, Manifest}
  /\ effect \in Steps \cup {"none", "stored", "failed"} /\ orphaned \in BOOLEAN
  /\ stored \in BOOLEAN
  /\ op \in [Calls -> Ops \cup {None}]
  /\ pc \in [Calls -> Points]
  /\ row \in [Calls -> [cancelled : BOOLEAN, render : BOOLEAN]]
  /\ lyricsSeen \in [Calls -> Snapshots]
  /\ reply \in [Calls -> Statuses \cup {None, "invalid_lyrics", "lost"}]
  /\ floor \in [Calls -> Statuses \cup {None}] /\ shown \in Statuses \cup {None}

\* A song never moves backward for its clients: a call that began after an answer
\* was given does not show an earlier status, although every view is put together
\* from four reads of the owner at different times.
ViewsMoveForward == \A c \in Calls :
  reply[c] \in Statuses => reply[c] \in Later(floor[c])

\* A render is requested only for lyrics that are complete, and never by a call
\* that began after a client was shown that the song is cancelled; and lyrics that were
\* accepted once are not refused by the validations they pass later.
RenderIsApproved ==
  /\ bound["render"] # None => verdict["lyrics"] = "result" /\ Valid(manifest)
  /\ \A c \in Calls : pc[c] = "submitRender" => floor[c] # "cancelled"
  /\ \A c \in Calls : reply[c] # "invalid_lyrics"

\* Audio is offered only for a render that began once and recorded its result, and
\* it is there when it is asked for; a render that was interrupted and needs manual
\* reconciliation is shown as failed, also when its orphan has stored the song.
CompleteHasAudio == \A c \in Calls :
  /\ reply[c] = "complete" => verdict["render"] = "result" /\ renders["render"] = 1 /\ stored
  /\ reply[c] # "lost"

\* docs/wow/pull-request-soundtrack-workflow.md: "Use POST
\* /api/music/generations/<id>/cancel to cancel work that should stop."  When no
\* call is in flight, each task of a cancelled song is decided or marked for abort.
CancelStopsWork ==
  cancelledAt /\ (\A c \in Calls : pc[c] = "idle") =>
    \A t \in Tasks : bound[t] = None \/ marked[t] \/ verdict[t] # "none"

=============================================================================
