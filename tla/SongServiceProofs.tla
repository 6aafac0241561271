--------------------------- MODULE SongServiceProofs ---------------------------
(***************************************************************************)
(* Proofs about SongService: for any calls in flight and any trace         *)
(* contexts, clients are shown a song that only moves forward, a render is *)
(* of complete lyrics, and audio that is offered is there.                 *)
(***************************************************************************)
EXTENDS SongService, TLAPS

\* What of the owner's state a status that was shown stands for.  None of it goes away.
Evidence(status) ==
  /\ status = "lyrics_ready" => verdict["lyrics"] = "result"
  /\ status = "generating_music" => bound["render"] # None
  /\ status = "complete" => verdict["render"] = "result"
  /\ status = "failed" => \/ verdict["lyrics"] = "failed"
                          \/ verdict["render"] \in {"failed", "reconcile"}
  /\ status = "cancelled" => cancelledAt

\* The two tasks: a render is of complete lyrics, its result is of the one effect that
\* stored the song, and only a cancellation aborts.
OwnerInv ==
  /\ bound \in [Tasks -> SongInputs \cup {None}] /\ verdict \in [Tasks -> Task!Verdicts \cup {"none"}]
  /\ renders \in [Tasks -> {0, 1}] /\ marked \in [Tasks -> BOOLEAN] /\ cancelledAt \in BOOLEAN
  /\ bound["lyrics"] \in {Brief, None} /\ bound["render"] \in Traces \cup {None}
  /\ \A t \in Tasks : verdict[t] # "none" => bound[t] # None
  /\ \A t \in Tasks : marked[t] \/ verdict[t] = "aborted" => cancelledAt
  /\ verdict["lyrics"] # "reconcile"
  /\ verdict["lyrics"] = "result" => manifest = Manifest
  /\ bound["render"] # None => verdict["lyrics"] = "result"
  /\ effect = "stored" => stored
  /\ verdict["render"] = "result" => stored /\ renders["render"] = 1

\* The points at which a call has read whether the song is cancelled, and its whole row.
HasStamp == {"checkRender", "rowRender", "decide", "submitRender", "viewLyrics", "viewRender"}
HasRow == {"decide", "viewLyrics", "viewRender"}

\* What a call has read holds, and is not older than what was shown before the call began.
CallInv(c) ==
  /\ row[c].cancelled => cancelledAt
  /\ row[c].render => bound["render"] # None
  /\ Evidence(floor[c])
  /\ reply[c] # None => /\ pc[c] = "told" /\ reply[c] \in Statuses
                        /\ Evidence(reply[c]) /\ reply[c] \in Later(floor[c])
  /\ pc[c] = "abort" => cancelledAt
  /\ pc[c] \in {"checkLyrics", "checkRender"} => op[c] \in {"render", "cancel"}
  /\ pc[c] = "submitRender" => verdict["lyrics"] = "result" /\ floor[c] # "cancelled"
  /\ pc[c] \in HasStamp /\ floor[c] = "cancelled" => row[c].cancelled
  /\ pc[c] \in HasRow /\ ~row[c].render => floor[c] \notin {"generating_music", "complete"}
  /\ pc[c] \in HasRow /\ ~row[c].render /\ floor[c] = "failed" => verdict["lyrics"] = "failed"
  /\ pc[c] = "viewRender" => /\ lyricsSeen[c] \in {"active", verdict["lyrics"]} \ {"none"}
                             /\ floor[c] = "lyrics_ready" => lyricsSeen[c] = "result"
                             /\ row[c].render => lyricsSeen[c] = "result"
                             /\ floor[c] = "failed" /\ ~row[c].render => lyricsSeen[c] = "failed"
  /\ pc[c] = "getSong" => stored

CallTypes ==
  /\ op \in [Calls -> Ops \cup {None}] /\ pc \in [Calls -> Points]
  /\ row \in [Calls -> [cancelled : BOOLEAN, render : BOOLEAN]]
  /\ lyricsSeen \in [Calls -> Snapshots]
  /\ reply \in [Calls -> Statuses \cup {None, "invalid_lyrics", "lost"}]
  /\ floor \in [Calls -> Statuses \cup {None}]
  /\ shown \in Statuses \cup {None} /\ Evidence(shown)

SongInv == OwnerInv /\ CallTypes /\ \A c \in Calls : CallInv(c)

-----------------------------------------------------------------------------
(* Manifests. *)

\* The manifest of a result is valid, so complete lyrics have one.
LEMMA ManifestIsValid == Valid(Manifest)
  BY DEF Valid, Manifest, Named, Fields

\* Lyrics with a result have the manifest that a view and a render ask for.
LEMMA CompleteLyrics ==
  ASSUME OwnerInv, verdict["lyrics"] = "result"
  PROVE  Valid(manifest) /\ HasManifest("result")
  BY ManifestIsValid, SongAssumption DEF OwnerInv, HasManifest, FromResult

-----------------------------------------------------------------------------
(* The owner's tasks. *)

\* What never goes away.
Stays ==
  /\ cancelledAt => cancelledAt'
  /\ bound["render"] # None => bound'["render"] # None
  /\ \A t \in Tasks : verdict[t] # "none" => verdict'[t] = verdict[t]
  /\ stored => stored'

\* Which tasks are renders.
LEMMA Kinds ==
  ASSUME OwnerInv
  PROVE  /\ bound["lyrics"] # None => ~Task!Renders("lyrics")
         /\ bound["render"] # None => Task!Renders("render")
<1>1. bound["lyrics"] # None => SongKind[bound["lyrics"]] = "song-lyrics"
  BY DEF OwnerInv, SongKind, SongInputs
<1>2. bound["render"] # None => SongKind[bound["render"]] = "song-render"
  BY SongAssumption DEF OwnerInv, SongKind, SongInputs
<1> QED
  BY <1>1, <1>2 DEF Task!Renders

\* A command that changes nothing in the owner.
LEMMA OwnerSame ==
  ASSUME OwnerInv, UNCHANGED owner
  PROVE  OwnerInv' /\ Stays
<1>1. UNCHANGED <<bound, verdict, renders, marked, cancelledAt, manifest, effect, orphaned, stored>>
  BY DEF owner, contract, render
<1> QED
  BY <1>1 DEF OwnerInv, Stays

\* A submission; that of the render finds the lyrics complete.
LEMMA OwnerAccepts ==
  ASSUME OwnerInv, NEW t \in Tasks, NEW i, Task!Accept(t, i),
         t = "lyrics" => i = Brief,
         t = "render" => i \in Traces /\ verdict["lyrics"] = "result",
         UNCHANGED <<marked, cancelledAt, manifest, render>>
  PROVE  OwnerInv' /\ Stays
<1>1. /\ bound' = [bound EXCEPT ![t] = i] /\ bound[t] = None /\ verdict' = verdict /\ renders' = renders
      /\ UNCHANGED <<marked, cancelledAt, manifest, effect, orphaned, stored>>
  BY DEF Task!Accept, render
<1>2. i \in SongInputs /\ i # None
  BY SongAssumption DEF Tasks, SongInputs
<1>3. /\ bound' \in [Tasks -> SongInputs \cup {None}]
      /\ bound'["lyrics"] \in {Brief, None} /\ bound'["render"] \in Traces \cup {None}
      /\ \A u \in Tasks : bound[u] # None => bound'[u] # None
      /\ bound'["render"] # None => verdict["lyrics"] = "result"
  BY <1>1, <1>2 DEF OwnerInv, Tasks
<1>4. "render" \in Tasks
  BY DEF Tasks
<1> QED
  BY <1>1, <1>3, <1>4 DEF OwnerInv, Stays

\* A cancellation, and the mark that follows it.
LEMMA OwnerCancels ==
  ASSUME OwnerInv, UNCHANGED <<contract, manifest, render>>,
         \/ cancelledAt' = TRUE /\ marked' = marked
         \/ cancelledAt = TRUE /\ cancelledAt' = cancelledAt /\ marked' \in [Tasks -> BOOLEAN]
  PROVE  OwnerInv' /\ Stays
<1>1. UNCHANGED <<bound, verdict, renders, manifest, effect, orphaned, stored>>
  BY DEF contract, render
<1>2. cancelledAt' = TRUE /\ marked' \in [Tasks -> BOOLEAN]
  BY DEF OwnerInv
<1> QED
  BY <1>1, <1>2 DEF OwnerInv, Stays

\* What the tasks do of themselves.
TaskMoves ==
  \/ BeginRender \/ RenderSong \/ StoreSong \/ EffectFails
  \/ OwnerDies \/ StopIfOwnerExits \/ FinishLyrics
  \/ \E t \in Tasks, v \in Task!Verdicts : TaskDecides(t, v)

\* The tasks themselves decide once, and a result only of a stored song.
LEMMA TasksMove ==
  ASSUME OwnerInv, TaskMoves
  PROVE  OwnerInv' /\ Stays /\ UNCHANGED <<calls, shown>>
<1>0. "render" \in Tasks /\ "lyrics" \in Tasks
  BY DEF Tasks
<1>1. CASE BeginRender
  BY <1>0, <1>1 DEF BeginRender, Task!BeginRender, OwnerInv, Stays
<1>2. CASE RenderSong \/ StoreSong \/ EffectFails \/ StopIfOwnerExits
  <2>1. /\ UNCHANGED <<bound, verdict, renders, marked, cancelledAt, manifest, calls, shown>>
        /\ effect' = "stored" => stored'
        /\ stored => stored'
    BY <1>2 DEF RenderSong, StoreSong, EffectFails, StopIfOwnerExits, EffectGoes, contract, Steps
  <2> QED
    BY <2>1 DEF OwnerInv, Stays
<1>3. CASE OwnerDies
  <2>1. UNCHANGED <<bound, verdict, renders, marked, cancelledAt, manifest, effect, stored, calls, shown>>
    BY <1>3 DEF OwnerDies, contract
  <2> QED
    BY <2>1 DEF OwnerInv, Stays
<1>4. CASE FinishLyrics
  <2>1. /\ UNCHANGED <<bound, renders, cancelledAt, effect, orphaned, stored, calls, shown>>
        /\ verdict["lyrics"] = "none" /\ bound["lyrics"] # None
        /\ marked' = [marked EXCEPT !["lyrics"] = FALSE]
        /\ \/ verdict' = [verdict EXCEPT !["lyrics"] = "result"] /\ manifest' = Manifest
           \/ verdict' = [verdict EXCEPT !["lyrics"] = "failed"] /\ manifest' = manifest
    BY <1>4 DEF FinishLyrics, Task!Decide, render
  <2>2. "result" \in Task!Verdicts /\ "failed" \in Task!Verdicts
    BY DEF Task!Verdicts
  <2>3. bound["render"] = None
    BY <2>1 DEF OwnerInv
  <2>4. /\ verdict' \in [Tasks -> Task!Verdicts \cup {"none"}] /\ marked' \in [Tasks -> BOOLEAN]
        /\ verdict'["render"] = verdict["render"] /\ verdict'["lyrics"] \in {"result", "failed"}
        /\ verdict'["lyrics"] = "result" => manifest' = Manifest
        /\ \A t \in Tasks : (verdict[t] # "none" => verdict'[t] = verdict[t]) /\ (marked'[t] => marked[t])
    BY <1>0, <2>1, <2>2 DEF OwnerInv
  <2>5. \A t \in Tasks : verdict'[t] # "none" => bound'[t] # None
    BY <2>1, <2>4 DEF OwnerInv, Tasks
  <2>6. \A t \in Tasks : marked'[t] \/ verdict'[t] = "aborted" => cancelledAt'
    BY <2>1, <2>4 DEF OwnerInv, Tasks
  <2> QED
    BY <2>1, <2>3, <2>4, <2>5, <2>6 DEF OwnerInv, Stays
<1>5. ASSUME NEW t \in Tasks, NEW v \in Task!Verdicts, TaskDecides(t, v)
      PROVE  OwnerInv' /\ Stays /\ UNCHANGED <<calls, shown>>
  <2>1. /\ UNCHANGED <<bound, renders, cancelledAt, manifest, stored, calls, shown>>
        /\ verdict[t] = "none" /\ bound[t] # None
        /\ verdict' = [verdict EXCEPT ![t] = v] /\ marked' = [marked EXCEPT ![t] = FALSE]
        /\ v = "aborted" => marked[t]
        /\ t = "lyrics" => v \in {"aborted", "failed"}
        /\ effect' \in {effect, "none"}
    BY <1>5 DEF TaskDecides, Task!Decide
  <2>2. t = "render" /\ v = "result" => stored /\ renders["render"] = 1
    <3>1. t = "render" => Task!Renders("render")
      BY <2>1, Kinds
    <3>2. v = "result" /\ Task!Renders(t) => renders[t] = 1
      BY <1>5 DEF TaskDecides, Task!Decide
    <3>3. t = "render" /\ v = "result" => effect = "stored"
      BY <1>5 DEF TaskDecides
    <3> QED
      BY <3>1, <3>2, <3>3 DEF OwnerInv
  <2>3. /\ verdict' \in [Tasks -> Task!Verdicts \cup {"none"}] /\ marked' \in [Tasks -> BOOLEAN]
        /\ \A u \in Tasks : (verdict[u] # "none" => verdict'[u] = verdict[u]) /\ (marked'[u] => marked[u])
        /\ \A u \in Tasks : verdict'[u] # "none" => bound'[u] # None
        /\ \A u \in Tasks : verdict'[u] = "aborted" => cancelledAt
    BY <2>1 DEF OwnerInv
  <2>4. /\ verdict'["lyrics"] # "reconcile"
        /\ verdict'["lyrics"] = "result" => verdict["lyrics"] = "result"
        /\ verdict["lyrics"] = "result" => verdict'["lyrics"] = "result"
        /\ verdict'["render"] = "result" => stored /\ renders["render"] = 1
    BY <1>0, <2>1, <2>2 DEF OwnerInv, Tasks
  <2> QED
    BY <2>1, <2>3, <2>4 DEF OwnerInv, Stays
<1> QED
  BY <1>1, <1>2, <1>3, <1>4, <1>5 DEF TaskMoves

-----------------------------------------------------------------------------
(* The calls. *)

Same(d) ==
  /\ op'[d] = op[d] /\ pc'[d] = pc[d] /\ row'[d] = row[d] /\ lyricsSeen'[d] = lyricsSeen[d]
  /\ reply'[d] = reply[d] /\ floor'[d] = floor[d]

\* A call that makes no step keeps what it knows.
LEMMA CallStays ==
  ASSUME OwnerInv, OwnerInv', Stays, NEW d, CallInv(d), Same(d)
  PROVE  CallInv(d)'
<1>1. /\ cancelledAt => cancelledAt'
      /\ bound["render"] # None => bound'["render"] # None
      /\ stored => stored'
      /\ verdict["lyrics"] # "none" => verdict'["lyrics"] = verdict["lyrics"]
      /\ verdict["render"] # "none" => verdict'["render"] = verdict["render"]
  BY DEF Stays, Tasks
<1>2. Evidence(floor[d]) => Evidence(floor[d])'
  BY <1>1 DEF Evidence, Same
<1>3. Evidence(reply[d]) => Evidence(reply[d])'
  BY <1>1 DEF Evidence, Same
<1>4. reply[d] \in Later(floor[d]) => (reply[d] \in Later(floor[d]))'
  BY DEF Same, Later
<1>5. lyricsSeen[d] \in {"active", verdict["lyrics"]} \ {"none"} =>
        lyricsSeen'[d] \in {"active", verdict'["lyrics"]} \ {"none"}
  BY <1>1 DEF Same
<1> QED
  BY <1>1, <1>2, <1>3, <1>4, <1>5 DEF CallInv, Same

\* Only one call makes a step.
LEMMA OneCall ==
  ASSUME SongInv, OwnerInv', Stays, NEW c \in Calls,
         shown' = shown \/ (shown' \in Statuses /\ Evidence(shown)'),
         \A d \in Calls \ {c} : Same(d), CallInv(c)',
         op' \in [Calls -> Ops \cup {None}], pc' \in [Calls -> Points],
         row' \in [Calls -> [cancelled : BOOLEAN, render : BOOLEAN]],
         lyricsSeen' \in [Calls -> Snapshots],
         reply' \in [Calls -> Statuses \cup {None, "invalid_lyrics", "lost"}],
         floor' \in [Calls -> Statuses \cup {None}]
  PROVE  SongInv'
<1>1. \A d \in Calls : CallInv(d)'
  BY CallStays DEF SongInv
<1>2. Evidence(shown)' /\ shown' \in Statuses \cup {None}
  BY DEF SongInv, CallTypes, Evidence, Stays, Tasks
<1> QED
  BY <1>1, <1>2 DEF SongInv, CallTypes

\* What an operation comes to after it has done its part.
LEMMA ViewMoves ==
  ASSUME SongInv, OwnerInv', Stays, shown' = shown, NEW c \in Calls, View(c), pc[c] # "told"
  PROVE  SongInv'
<1>1. /\ \A d \in Calls \ {c} : Same(d)
      /\ row'[c] = NoRow /\ pc'[c] = "rowLyrics" /\ floor'[c] = floor[c] /\ reply'[c] = reply[c]
      /\ op' \in [Calls -> Ops \cup {None}] /\ pc' \in [Calls -> Points]
      /\ row' \in [Calls -> [cancelled : BOOLEAN, render : BOOLEAN]]
      /\ UNCHANGED <<lyricsSeen, reply, floor>>
  BY DEF View, Goto, SongInv, CallTypes, Same, NoRow, Ops, Points
<1>2. Evidence(floor[c])'
  BY <1>1 DEF SongInv, CallInv, Evidence, Stays, Tasks
<1>3. reply[c] = None
  BY DEF SongInv, CallInv
<1>4. CallInv(c)'
  BY <1>1, <1>2, <1>3 DEF CallInv, NoRow, HasStamp, HasRow
<1> QED
  BY <1>1, <1>4, OneCall DEF SongInv, CallTypes

\* The end of a call.
LEMMA OverMoves ==
  ASSUME SongInv, OwnerInv', Stays, NEW c \in Calls, Over(c),
         shown' = shown \/ (shown' \in Statuses /\ Evidence(shown)')
  PROVE  SongInv'
<1>1. /\ \A d \in Calls \ {c} : Same(d)
      /\ row'[c] = NoRow /\ pc'[c] = "idle" /\ floor'[c] = None /\ reply'[c] = None
      /\ op' \in [Calls -> Ops \cup {None}] /\ pc' \in [Calls -> Points]
      /\ row' \in [Calls -> [cancelled : BOOLEAN, render : BOOLEAN]]
      /\ lyricsSeen' \in [Calls -> Snapshots]
      /\ reply' \in [Calls -> Statuses \cup {None, "invalid_lyrics", "lost"}]
      /\ floor' \in [Calls -> Statuses \cup {None}]
  BY DEF Over, Forget, Goto, SongInv, CallTypes, Same, NoRow, Points, Snapshots
<1>2. CallInv(c)'
  BY <1>1, SongAssumption DEF CallInv, NoRow, HasStamp, HasRow, Evidence, Statuses
<1> QED
  BY <1>1, <1>2, OneCall

\* An answer that the owner bears out and that is not behind what was shown.
LEMMA AnswerMoves ==
  ASSUME SongInv, OwnerInv', Stays, shown' = shown, NEW c \in Calls, NEW status \in Statuses,
         Answer(c, status), UNCHANGED <<bound, verdict, cancelledAt>>, Evidence(status),
         status \in Later(floor[c])
  PROVE  SongInv'
<1>1. /\ \A d \in Calls \ {c} : Same(d)
      /\ row'[c] = NoRow /\ pc'[c] = "told" /\ floor'[c] = floor[c] /\ reply'[c] = status
      /\ op' \in [Calls -> Ops \cup {None}] /\ pc' \in [Calls -> Points]
      /\ row' \in [Calls -> [cancelled : BOOLEAN, render : BOOLEAN]]
      /\ lyricsSeen' \in [Calls -> Snapshots] /\ floor' = floor
      /\ reply' \in [Calls -> Statuses \cup {None, "invalid_lyrics", "lost"}]
  BY DEF Answer, Forget, Goto, SongInv, CallTypes, Same, NoRow, Points, Snapshots
<1>2. Evidence(floor[c])' /\ Evidence(reply[c])'
  BY <1>1 DEF SongInv, CallInv, Evidence
<1>3. (reply[c] \in Later(floor[c]))'
  BY <1>1 DEF Later
<1>4. CallInv(c)'
  BY <1>1, <1>2, <1>3 DEF CallInv, NoRow, HasStamp, HasRow
<1> QED
  BY <1>1, <1>4, OneCall DEF SongInv, CallTypes

\* A call begins; what was shown by then becomes its floor.
LEMMA BeginMoves ==
  ASSUME SongInv, NEW c \in Calls, NEW o \in Ops, Begin(c, o)
  PROVE  SongInv'
<1>1. OwnerInv' /\ Stays
  BY OwnerSame DEF Begin, SongInv
<1>2. /\ \A d \in Calls \ {c} : Same(d)
      /\ pc[c] = "idle" /\ pc'[c] \in {"submitLyrics", "rowLyrics", "checkLyrics"}
      /\ pc'[c] = "checkLyrics" => op'[c] \in {"render", "cancel"}
      /\ floor'[c] = shown /\ UNCHANGED <<row, lyricsSeen, reply, shown>>
      /\ op' \in [Calls -> Ops \cup {None}] /\ pc' \in [Calls -> Points]
      /\ floor' \in [Calls -> Statuses \cup {None}]
  <2>1. /\ Endpoint(o) \in {"submitLyrics", "rowLyrics", "checkLyrics"}
        /\ Endpoint(o) = "checkLyrics" => o \in {"render", "cancel"}
    BY DEF Endpoint, Ops
  <2> QED
    BY <2>1 DEF Begin, Goto, SongInv, CallTypes, Same, Points
<1>3. Evidence(floor[c])'
  BY <1>1, <1>2 DEF SongInv, CallTypes, Evidence, Stays, Tasks
<1>4. /\ row[c].cancelled => cancelledAt'
      /\ row[c].render => bound'["render"] # None
      /\ reply[c] = None
  BY <1>1, <1>2 DEF SongInv, CallInv, Stays
<1>5. CallInv(c)'
  BY <1>2, <1>3, <1>4 DEF CallInv, HasStamp, HasRow
<1> QED
  BY <1>1, <1>2, <1>5, OneCall DEF SongInv, CallTypes

\* What a client is shown next is borne out by the owner.
LEMMA ReturnMoves ==
  ASSUME SongInv, NEW c \in Calls, Return(c)
  PROVE  SongInv'
<1>1. OwnerInv' /\ Stays /\ Over(c) /\ UNCHANGED <<bound, verdict, cancelledAt>>
  BY OwnerSame DEF Return, SongInv, owner, contract
<1>2. shown' = shown \/ (shown' \in Statuses /\ Evidence(shown)')
  <2>1. CASE shown' = shown
    BY <2>1
  <2>2. CASE reply[c] \in Later(shown) /\ shown' = reply[c]
    <3>1. reply[c] # None
      <4>1. Later(shown) \subseteq Statuses
        BY SongAssumption DEF Later, SongInv, CallTypes, Statuses
      <4> QED
        BY <2>2, <4>1, SongAssumption
    <3>2. reply[c] \in Statuses /\ Evidence(reply[c])
      BY <3>1 DEF SongInv, CallInv
    <3> QED
      BY <1>1, <2>2, <3>2 DEF Evidence
  <2> QED
    BY <2>1, <2>2 DEF Return
<1> QED
  BY <1>1, <1>2, OverMoves

\* The commands that change the owner.
LEMMA CommandMoves ==
  ASSUME SongInv, NEW c \in Calls,
         SubmitLyrics(c) \/ StampCancel(c) \/ AbortActive(c) \/ \E trace \in Traces : SubmitRender(c, trace)
  PROVE  SongInv'
<1>0. "lyrics" \in Tasks /\ "render" \in Tasks
  BY DEF Tasks
<1>1. CASE SubmitLyrics(c)
  <2>1. OwnerInv' /\ Stays
    BY <1>0, <1>1, OwnerAccepts DEF SubmitLyrics, SongInv
  <2> QED
    BY <1>1, <2>1, ViewMoves DEF SubmitLyrics
<1>2. CASE StampCancel(c)
  <2>1. OwnerInv' /\ Stays
    BY <1>2, OwnerCancels DEF StampCancel, SongInv
  <2>2. /\ \A d \in Calls \ {c} : Same(d)
        /\ pc[c] = "stamp" /\ pc'[c] = "abort" /\ pc' \in [Calls -> Points] /\ cancelledAt' = TRUE
        /\ UNCHANGED <<op, row, lyricsSeen, reply, floor, shown, bound, verdict>>
    BY <1>2 DEF StampCancel, Goto, SongInv, CallTypes, Same, Points, contract
  <2>3. Evidence(floor[c])' /\ reply[c] = None
    BY <2>2 DEF SongInv, CallInv, Evidence
  <2>4. CallInv(c)'
    BY <2>2, <2>3 DEF SongInv, CallInv, HasStamp, HasRow
  <2> QED
    BY <2>1, <2>2, <2>4, OneCall DEF SongInv, CallTypes
<1>3. CASE AbortActive(c)
  <2>1. cancelledAt = TRUE
    BY <1>3 DEF AbortActive, SongInv, CallInv, OwnerInv
  <2>2. marked' \in [Tasks -> BOOLEAN]
    BY <1>3 DEF AbortActive, SongInv, OwnerInv
  <2>3. OwnerInv' /\ Stays
    BY <1>3, <2>1, <2>2, OwnerCancels DEF AbortActive, SongInv
  <2> QED
    BY <1>3, <2>3, ViewMoves DEF AbortActive
<1>4. ASSUME NEW trace \in Traces, SubmitRender(c, trace)
      PROVE  SongInv'
  <2>1. verdict["lyrics"] = "result"
    BY <1>4 DEF SubmitRender, SongInv, CallInv
  <2>2. OwnerInv' /\ Stays
    <3>1. CASE Task!Accept("render", trace)
      BY <1>0, <1>4, <2>1, <3>1, OwnerAccepts DEF SubmitRender, SongInv
    <3>2. CASE UNCHANGED contract
      <4>1. UNCHANGED owner
        BY <1>4, <3>2 DEF SubmitRender, owner
      <4> QED
        BY <4>1, OwnerSame DEF SongInv
    <3> QED
      BY <1>4, <3>1, <3>2 DEF SubmitRender
  <2>3. View(c) \/ Over(c)
    BY <1>4 DEF SubmitRender
  <2> QED
    BY <1>4, <2>2, <2>3, ViewMoves, OverMoves DEF SubmitRender
<1> QED
  BY <1>1, <1>2, <1>3, <1>4

\* The commands that read the row, and the decision on it.
LEMMA RowMoves ==
  ASSUME SongInv, NEW c \in Calls, ReadLyricsEntry(c) \/ ReadRenderEntry(c) \/ Decide(c)
  PROVE  SongInv'
<1>0. UNCHANGED owner /\ shown' = shown
  BY DEF ReadLyricsEntry, ReadRenderEntry, Decide
<1>1. OwnerInv' /\ Stays /\ UNCHANGED <<bound, verdict, cancelledAt, stored>>
  BY <1>0, OwnerSame DEF SongInv, owner, contract, render
<1>2. /\ Evidence(floor[c]) /\ row[c] \in [cancelled : BOOLEAN, render : BOOLEAN]
      /\ floor[c] = "cancelled" => cancelledAt
      /\ floor[c] \in {"generating_music", "complete"} => bound["render"] # None
      /\ floor[c] = "failed" => bound["render"] # None \/ verdict["lyrics"] = "failed"
  <2>1. Evidence(floor[c]) /\ row[c] \in [cancelled : BOOLEAN, render : BOOLEAN]
    BY DEF SongInv, CallInv, CallTypes
  <2>2. verdict["render"] # "none" => bound["render"] # None
    BY DEF SongInv, OwnerInv, Tasks
  <2> QED
    BY <2>1, <2>2 DEF Evidence
<1>3. CASE ReadLyricsEntry(c)
  <2>1. /\ \A d \in Calls \ {c} : Same(d)
        /\ pc[c] \in {"checkLyrics", "rowLyrics"} /\ pc'[c] \in {"checkRender", "rowRender"}
        /\ pc'[c] = "checkRender" => pc[c] = "checkLyrics"
        /\ row' \in [Calls -> [cancelled : BOOLEAN, render : BOOLEAN]] /\ pc' \in [Calls -> Points]
        /\ row'[c].cancelled = cancelledAt /\ row'[c].render = row[c].render
        /\ UNCHANGED <<op, lyricsSeen, reply, floor>>
    BY <1>3 DEF ReadLyricsEntry, Goto, SongInv, OwnerInv, CallTypes, Same, Points
  <2>2. /\ reply[c] = None /\ (row[c].render => bound["render"] # None)
        /\ pc[c] = "checkLyrics" => op[c] \in {"render", "cancel"}
    BY <2>1 DEF SongInv, CallInv
  <2>3. Evidence(floor[c])'
    BY <1>1, <1>2, <2>1 DEF Evidence
  <2>4. CallInv(c)'
    BY <1>1, <1>2, <2>1, <2>2, <2>3 DEF CallInv, HasRow
  <2> QED
    BY <1>0, <1>1, <2>1, <2>4, OneCall DEF SongInv, CallTypes
<1>4. CASE ReadRenderEntry(c) /\ View(c)
  <2>1. pc[c] # "told"
    BY <1>4 DEF ReadRenderEntry
  <2> QED
    BY <1>0, <1>1, <1>4, <2>1, ViewMoves
<1>5. CASE ReadRenderEntry(c) /\ ~View(c)
  <2>1. /\ pc[c] \in {"checkRender", "rowRender"}
        /\ row' = [row EXCEPT ![c].render = bound["render"] # None]
        /\ UNCHANGED <<op, lyricsSeen, reply, floor>>
        /\ Goto(c, CASE pc[c] = "rowRender"                       -> "viewLyrics"
                     [] pc[c] = "checkRender" /\ op[c] = "render" -> "decide"
                     [] pc[c] = "checkRender" /\ op[c] = "cancel" -> "stamp")
    BY <1>5 DEF ReadRenderEntry
  <2>0. pc[c] = "checkRender" => op[c] \in {"render", "cancel"}
    BY DEF SongInv, CallInv
  <2>2. /\ \A d \in Calls \ {c} : Same(d)
        /\ pc'[c] \in {"viewLyrics", "decide", "stamp"} /\ pc' \in [Calls -> Points]
        /\ row' \in [Calls -> [cancelled : BOOLEAN, render : BOOLEAN]]
        /\ row'[c].cancelled = row[c].cancelled /\ row'[c].render = (bound["render"] # None)
    BY <2>0, <2>1 DEF Goto, SongInv, CallTypes, Same, Points
  <2>3. /\ reply[c] = None /\ (row[c].cancelled => cancelledAt)
        /\ floor[c] = "cancelled" => row[c].cancelled
    BY <2>1 DEF SongInv, CallInv, HasStamp
  <2>4. Evidence(floor[c])'
    BY <1>1, <1>2, <2>1 DEF Evidence
  <2>5. CallInv(c)'
    BY <1>1, <1>2, <2>1, <2>2, <2>3, <2>4 DEF CallInv
  <2> QED
    BY <1>0, <1>1, <2>1, <2>2, <2>5, OneCall DEF SongInv, CallTypes
<1>6. CASE Decide(c)
  <2> DEFINE readiness == DecideRender(row[c].cancelled, row[c].render, Snapshot("lyrics"))
  <2>1. pc[c] = "decide" /\ readiness # "invalid_lyrics"
    <3>1. Snapshot("lyrics") = "result" => verdict["lyrics"] = "result"
      BY DEF Snapshot
    <3>2. Snapshot("lyrics") = "result" => HasManifest("result")
      BY <3>1, CompleteLyrics DEF SongInv
    <3> QED
      BY <1>6, <3>2 DEF Decide, DecideRender
  <2>2. \/ readiness = "ready" /\ Proceed(c, "submitRender")
        \/ readiness = "already_requested" /\ Proceed(c, "viewLyrics")
        \/ Over(c)
    BY <1>6, <2>1 DEF Decide
  <2>3. /\ readiness = "ready" => ~row[c].cancelled /\ verdict["lyrics"] = "result"
        /\ readiness = "already_requested" => row[c].render
    BY DEF DecideRender, Snapshot
  <2>4. CASE Over(c)
    BY <1>0, <1>1, <2>4, OverMoves
  <2>5. ASSUME NEW p \in {"submitRender", "viewLyrics"}, Proceed(c, p),
               p = "submitRender" => ~row[c].cancelled /\ verdict["lyrics"] = "result"
        PROVE  SongInv'
    <3>1. /\ \A d \in Calls \ {c} : Same(d)
          /\ pc'[c] = p /\ pc' \in [Calls -> Points] /\ UNCHANGED <<op, row, lyricsSeen, reply, floor>>
      BY <2>5 DEF Proceed, Goto, SongInv, CallTypes, Same, Points
    <3>2. Evidence(floor[c])'
      BY <1>1, <1>2, <3>1 DEF Evidence
    <3>3. CallInv(c)
      BY DEF SongInv
    <3>4. CallInv(c)'
      BY <1>1, <2>1, <2>5, <3>1, <3>2, <3>3 DEF CallInv, HasStamp, HasRow
    <3> QED
      BY <1>0, <1>1, <3>1, <3>4, OneCall DEF SongInv, CallTypes
  <2> HIDE DEF readiness
  <2> QED
    BY <2>2, <2>3, <2>4, <2>5
<1> QED
  BY <1>3, <1>4, <1>5, <1>6

\* What a view shows is borne out by the owner and not behind what was shown before.
LEMMA ViewIsTrue ==
  ASSUME SongInv, NEW c \in Calls, pc[c] = "viewRender", NEW status,
         status = IF row[c].cancelled THEN "cancelled"
                  ELSE IF row[c].render THEN ProjectRender(Snapshot("render"), lyricsSeen[c])
                  ELSE ProjectLyrics(lyricsSeen[c])
  PROVE  status \in Statuses /\ Evidence(status) /\ status \in Later(floor[c])
<1>1. /\ CallInv(c) /\ OwnerInv /\ floor[c] \in Statuses \cup {None}
      /\ verdict["lyrics"] \in Task!Verdicts \cup {"none"}
      /\ verdict["render"] \in Task!Verdicts \cup {"none"}
      /\ verdict["lyrics"] = "aborted" \/ verdict["render"] = "aborted" => cancelledAt
  BY DEF SongInv, CallTypes, OwnerInv, Tasks
<1>2. CASE row[c].cancelled
  <2>1. "cancelled" \in Later(floor[c])
    BY <1>1 DEF Later, Statuses
  <2> QED
    BY <1>1, <1>2, <2>1 DEF CallInv, Evidence, Statuses
<1>3. CASE ~row[c].cancelled /\ row[c].render
  <2>1. /\ lyricsSeen[c] = "result" /\ verdict["lyrics"] = "result" /\ bound["render"] # None
        /\ floor[c] # "cancelled"
        /\ floor[c] = "complete" => verdict["render"] = "result"
        /\ floor[c] = "failed" => verdict["render"] \in {"failed", "reconcile"}
    BY <1>1, <1>3 DEF CallInv, HasStamp, Evidence
  <2>2. HasManifest("result")
    BY <1>1, <2>1, CompleteLyrics
  <2>3. /\ verdict["render"] = "none" => status = "generating_music"
        /\ verdict["render"] = "result" => status = "complete"
        /\ verdict["render"] = "aborted" => status = "cancelled"
        /\ verdict["render"] \in {"failed", "reconcile"} => status = "failed"
    BY <1>3, <2>1, <2>2 DEF ProjectRender, Snapshot, HasAudio
  <2>4. verdict["render"] \in {"none", "result", "aborted", "failed", "reconcile"}
    BY <1>1 DEF Task!Verdicts
  <2>5. status \in Statuses /\ Evidence(status)
    BY <1>1, <2>1, <2>3, <2>4 DEF Evidence, Statuses
  <2>6. status \in Later(floor[c])
    BY <1>1, <2>1, <2>3, <2>4 DEF Later, Statuses
  <2> QED
    BY <2>5, <2>6
<1>4. CASE ~row[c].cancelled /\ ~row[c].render
  <2>1. /\ lyricsSeen[c] \in {"active", verdict["lyrics"]} \ {"none"}
        /\ floor[c] \notin {"cancelled", "generating_music", "complete"}
        /\ floor[c] = "lyrics_ready" => lyricsSeen[c] = "result"
        /\ floor[c] = "failed" => lyricsSeen[c] = "failed"
    BY <1>1, <1>4 DEF CallInv, HasStamp, HasRow
  <2>2. lyricsSeen[c] \in {"active", "result", "aborted", "failed"}
    BY <1>1, <2>1 DEF OwnerInv, Task!Verdicts
  <2>3. lyricsSeen[c] = "result" => HasManifest("result")
    BY <1>1, <2>1, CompleteLyrics
  <2>4. /\ lyricsSeen[c] = "active" => status = "writing_lyrics"
        /\ lyricsSeen[c] = "result" => status = "lyrics_ready"
        /\ lyricsSeen[c] = "aborted" => status = "cancelled"
        /\ lyricsSeen[c] = "failed" => status = "failed"
    BY <1>4, <2>3 DEF ProjectLyrics
  <2>5. status \in Statuses /\ Evidence(status)
    BY <1>1, <2>1, <2>2, <2>4 DEF Evidence, Statuses
  <2>6. status \in Later(floor[c])
    BY <1>1, <2>1, <2>2, <2>4 DEF Later, Statuses
  <2> QED
    BY <2>5, <2>6
<1> QED
  BY <1>2, <1>3, <1>4

\* The commands of a view and of the download.
LEMMA ShowMoves ==
  ASSUME SongInv, NEW c \in Calls, ViewLyrics(c) \/ ViewRender(c) \/ GetSong(c) \/ CallFails(c)
  PROVE  SongInv'
<1>0. UNCHANGED owner /\ shown' = shown
  BY DEF ViewLyrics, ViewRender, GetSong, CallFails
<1>1. OwnerInv' /\ Stays /\ UNCHANGED <<bound, verdict, cancelledAt, stored>>
  BY <1>0, OwnerSame DEF SongInv, owner, contract, render
<1>2. CASE ViewLyrics(c)
  <2>1. /\ \A d \in Calls \ {c} : Same(d)
        /\ pc[c] = "viewLyrics" /\ pc'[c] = "viewRender" /\ pc' \in [Calls -> Points]
        /\ lyricsSeen'[c] = Snapshot("lyrics") /\ lyricsSeen' \in [Calls -> Snapshots]
        /\ UNCHANGED <<op, row, reply, floor>>
    <3>1. Snapshot("lyrics") \in Snapshots
      BY DEF SongInv, OwnerInv, Snapshot, Snapshots, Task!Verdicts, Tasks
    <3> QED
      BY <1>2, <3>1 DEF ViewLyrics, Goto, SongInv, CallTypes, Same, Points
  <2>2. CallInv(c) /\ OwnerInv
    BY DEF SongInv
  <2>3. /\ Snapshot("lyrics") \in {"active", verdict["lyrics"]} \ {"none"}
        /\ verdict["lyrics"] # "none" => Snapshot("lyrics") = verdict["lyrics"]
    BY DEF Snapshot
  <2>4. /\ floor[c] = "lyrics_ready" => verdict["lyrics"] = "result"
        /\ row[c].render => verdict["lyrics"] = "result"
        /\ floor[c] = "failed" /\ ~row[c].render => verdict["lyrics"] = "failed"
    BY <2>1, <2>2 DEF CallInv, OwnerInv, Evidence, HasRow
  <2>5. Evidence(floor[c])'
    BY <1>1, <2>1, <2>2 DEF CallInv, Evidence
  <2>6. CallInv(c)'
    BY <1>1, <2>1, <2>2, <2>3, <2>4, <2>5 DEF CallInv, HasStamp, HasRow
  <2> QED
    BY <1>0, <1>1, <2>1, <2>6, OneCall DEF SongInv, CallTypes
<1>3. CASE ViewRender(c)
  <2>1. PICK status : status = IF row[c].cancelled THEN "cancelled"
                               ELSE IF row[c].render THEN ProjectRender(Snapshot("render"), lyricsSeen[c])
                               ELSE ProjectLyrics(lyricsSeen[c])
    OBVIOUS
  <2>2. /\ pc[c] = "viewRender"
        /\ Answer(c, status) \/ Over(c) \/ (status = "complete" /\ Proceed(c, "getSong"))
    BY <1>3, <2>1 DEF ViewRender
  <2>3. status \in Statuses /\ Evidence(status) /\ status \in Later(floor[c])
    BY <2>1, <2>2, ViewIsTrue
  <2>4. CASE Answer(c, status)
    BY <1>0, <1>1, <2>3, <2>4, AnswerMoves
  <2>5. CASE Over(c)
    BY <1>0, <1>1, <2>5, OverMoves
  <2>6. CASE status = "complete" /\ Proceed(c, "getSong")
    <3>1. /\ \A d \in Calls \ {c} : Same(d)
          /\ pc'[c] = "getSong" /\ pc' \in [Calls -> Points]
          /\ UNCHANGED <<op, row, lyricsSeen, reply, floor>>
      BY <2>6 DEF Proceed, Goto, SongInv, CallTypes, Same, Points
    <3>2. CallInv(c) /\ stored
      BY <2>3, <2>6 DEF SongInv, OwnerInv, Evidence
    <3>3. Evidence(floor[c])'
      BY <1>1, <3>1, <3>2 DEF CallInv, Evidence
    <3>4. CallInv(c)'
      BY <1>1, <2>2, <3>1, <3>2, <3>3 DEF CallInv, HasStamp, HasRow
    <3> QED
      BY <1>0, <1>1, <3>1, <3>4, OneCall DEF SongInv, CallTypes
  <2> QED
    BY <2>2, <2>4, <2>5, <2>6
<1>4. CASE GetSong(c)
  <2>1. Over(c)
    BY <1>4 DEF GetSong, SongInv, CallInv
  <2> QED
    BY <1>0, <1>1, <2>1, OverMoves
<1>5. CASE CallFails(c)
  BY <1>0, <1>1, <1>5, OverMoves DEF CallFails
<1> QED
  BY <1>2, <1>3, <1>4, <1>5

-----------------------------------------------------------------------------
(* The invariant and what follows from it. *)

\* Nothing is asked and nothing shown at first.
LEMMA SongInit == Init => SongInv
<1> SUFFICES ASSUME Init PROVE SongInv
  OBVIOUS
<1>1. OwnerInv
  BY DEF Init, Task!Init, OwnerInv, Tasks
<1>2. Evidence(None)
  BY SongAssumption DEF Evidence, Statuses
<1>3. CallTypes
  BY <1>2 DEF Init, CallTypes, NoRow, Points, Snapshots
<1>4. ASSUME NEW c \in Calls PROVE CallInv(c)
  <2>1. row[c] = NoRow /\ floor[c] = None /\ reply[c] = None /\ pc[c] = "idle"
    BY DEF Init
  <2>2. Evidence(floor[c])
    BY <1>2, <2>1
  <2> QED
    BY <2>1, <2>2 DEF CallInv, NoRow, HasStamp, HasRow
<1> QED
  BY <1>1, <1>3, <1>4 DEF SongInv

\* Every step keeps the invariant.
LEMMA SongStep == SongInv /\ [Next]_vars => SongInv'
<1> SUFFICES ASSUME SongInv, [Next]_vars PROVE SongInv'
  OBVIOUS
<1>1. ASSUME NEW c \in Calls,
             (\E o \in Ops : Begin(c, o)) \/ Call(c) \/ CallFails(c) \/ Return(c)
      PROVE  SongInv'
  BY <1>1, BeginMoves, ReturnMoves, CommandMoves, RowMoves, ShowMoves DEF Call
<1>2. ASSUME OwnerInv', Stays, UNCHANGED <<calls, shown>>
      PROVE  SongInv'
  <2>1. UNCHANGED <<op, pc, row, lyricsSeen, reply, floor, shown>>
    BY <1>2 DEF calls
  <2>2. \A c \in Calls : CallInv(c)'
    BY <1>2, <2>1, CallStays DEF SongInv, Same
  <2>3. CallTypes'
    BY <1>2, <2>1 DEF SongInv, CallTypes, Evidence, Stays, Tasks
  <2> QED
    BY <1>2, <2>2, <2>3 DEF SongInv
<1>3. CASE TaskMoves
  BY <1>2, <1>3, TasksMove DEF SongInv
<1>4. CASE UNCHANGED vars
  BY <1>2, <1>4, OwnerSame DEF vars, SongInv
<1> QED
  BY <1>1, <1>3, <1>4 DEF Next, TaskMoves

\* The invariant holds of every run of the service over the contract of its owner.
THEOREM SongInvariance == Spec => []SongInv
<1> QED
  BY SongInit, SongStep, PTL DEF Spec

\* Clients are shown a song that moves forward only.
THEOREM Forward == Spec => []ViewsMoveForward
<1>1. SongInv => ViewsMoveForward
  BY SongAssumption DEF SongInv, CallInv, ViewsMoveForward
<1> QED
  BY <1>1, SongInvariance, PTL

\* A render is of complete lyrics that nobody saw cancelled.
THEOREM Approved == Spec => []RenderIsApproved
<1>1. ASSUME SongInv PROVE RenderIsApproved
  <2>1. bound["render"] # None => verdict["lyrics"] = "result" /\ Valid(manifest)
    BY <1>1, CompleteLyrics DEF SongInv, OwnerInv
  <2>2. \A c \in Calls : pc[c] = "submitRender" => floor[c] # "cancelled"
    BY <1>1 DEF SongInv, CallInv
  <2>3. \A c \in Calls : reply[c] = None \/ reply[c] \in Statuses
    BY <1>1 DEF SongInv, CallInv
  <2> QED
    BY <2>1, <2>2, <2>3, SongAssumption DEF RenderIsApproved, Statuses
<1> QED
  BY <1>1, SongInvariance, PTL

\* Audio that is offered was recorded and is there.
THEOREM Audio == Spec => []CompleteHasAudio
<1>1. ASSUME SongInv PROVE CompleteHasAudio
  <2> SUFFICES ASSUME NEW c \in Calls
               PROVE  /\ reply[c] = "complete" => verdict["render"] = "result" /\ renders["render"] = 1 /\ stored
                      /\ reply[c] # "lost"
    BY DEF CompleteHasAudio
  <2>1. reply[c] = None \/ (reply[c] \in Statuses /\ Evidence(reply[c]))
    BY <1>1 DEF SongInv, CallInv
  <2> QED
    BY <1>1, <2>1, SongAssumption DEF SongInv, OwnerInv, Evidence, Statuses
<1> QED
  BY <1>1, SongInvariance, PTL

=============================================================================
