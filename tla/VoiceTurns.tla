----------------------------- MODULE VoiceTurns -----------------------------
(***************************************************************************)
(* A conversation: browser and voice client, edge (apps/edge/bot.py),      *)
(* broker (speech/presentation/http.py) and the voice agent service        *)
(* (apps/pi-agent/voice-agent), which owns one Pi session.                 *)
(*                                                                         *)
(* Turns, typed or spoken, and compactions wait in one queue and run one   *)
(* at a time; abort, detach and the change of session do not wait.  A      *)
(* caller gives up on timeouts of its own, and what it asked for runs all  *)
(* the same.  While the service is attached to a durable task, a turn goes *)
(* to that task's session.  The edge admits one voice client at a time.    *)
(*                                                                         *)
(* An answer is modelled by the turn whose text it is.                     *)
(***************************************************************************)
EXTENDS Naturals, Sequences, FiniteSets

CONSTANTS
  Calls,        \* turns and compactions, numbered in the order they are asked for
  Clients,      \* voice clients, numbered in the order they connect
  Sessions,     \* bound: the sessions ever created
  First,        \* the session the service opens at first
  Task,         \* the text of an attached task
  Failed, Done, \* the answer to a turn that failed, and to a compaction
  None          \* nothing

ASSUME VoiceAssumption ==
  /\ Calls \subseteq Nat /\ Clients \subseteq Nat
  /\ First \in Sessions
  /\ None \notin Calls \cup Clients /\ {Task, Failed, Done} \cap Calls = {}

VARIABLES
  kind, by, caller, answer, heard,   \* per call: what, whose, its caller, answer, deltas
  queue, phase,                      \* SerialExecutor: the head of the queue is running
  known, session, bound, texts,      \* Pi sessions; the current one; what was said in each
  prompted,                          \* sessionState.systemPrompt is that of the turns
  work, sink, aborted, timedOut,     \* what Pi is at work on; activeDeltaSink; the turn's end
  attached,                          \* RemoteTaskSession: the turn that attached, or None
  client, guard,                     \* voice clients; _voice_session_active
  home, spoke                        \* history: session asked in; the turns that said something

callers == <<kind, by, caller, answer, heard>>
executor == <<queue, phase>>
sessions == <<known, session, bound, texts, prompted>>
turn == <<work, sink, aborted, timedOut>>
edge == <<client, guard>>
history == <<home, spoke>>
vars == <<callers, executor, sessions, turn, attached, edge, history>>

Kinds == {"voice", "typed", "compact"}
ClientStates == {"off", "live", "leaving", "closing", "gone"}
Admitted(v) == client[v] \in {"live", "leaving", "closing"}

Init ==
  /\ kind = [c \in Calls |-> None] /\ by = [c \in Calls |-> None]
  /\ caller = [c \in Calls |-> "idle"]
  /\ answer = [c \in Calls |-> None] /\ heard = [c \in Calls |-> {}]
  /\ queue = <<>> /\ phase = "idle"
  /\ known = {First} /\ session = First /\ bound = FALSE /\ prompted = FALSE
  /\ texts = [s \in Sessions |-> <<>>]
  /\ work = {} /\ sink = None /\ aborted = FALSE /\ timedOut = FALSE
  /\ attached = None
  /\ client = [v \in Clients |-> "off"] /\ guard = FALSE
  /\ home = [c \in Calls |-> None] /\ spoke = {}

Queued(c) == \E i \in 1 .. Len(queue) : queue[i] = c
Running == Head(queue)

-----------------------------------------------------------------------------
(* Callers. *)

\* A turn or a compaction waits its turn in the service.
Ask(c, k, v) ==
  /\ caller[c] = "idle" /\ \A d \in Calls : d < c => caller[d] # "idle"
  /\ kind' = [kind EXCEPT ![c] = k] /\ by' = [by EXCEPT ![c] = v]
  /\ caller' = [caller EXCEPT ![c] = "waiting"]
  /\ queue' = Append(queue, c)
  /\ home' = [home EXCEPT ![c] = session]
  /\ UNCHANGED <<answer, heard, phase, sessions, turn, attached, edge, spoke>>

\* The pipeline of a client speaks to the service until it is cancelled, first of all to
\* greet the client.
AskSpoken(c, v) == client[v] \in {"live", "leaving", "closing"} /\ Ask(c, "voice", v)

\* POST /api/pi-message and POST /v1/pi/context/compact of a browser.
AskTyped(c) == Ask(c, "typed", None)
AskCompact(c) == Ask(c, "compact", None)

\* AgentSession.abort by VoiceAgent.abort: none while a task is attached, and none
\* while no session is bound or it has nothing to do.
AbortTurn == attached = None /\ bound /\ work # {} /\ aborted' = TRUE

\* The broker waits five seconds more than a turn may take, and the edge ten; a
\* voice client interrupts.  The turn is not taken back; the end of a stream
\* may abort the turn that runs, whosesoever it is.
GiveUp(c) ==
  /\ caller[c] = "waiting"
  /\ caller' = [caller EXCEPT ![c] = "gone"]
  /\ UNCHANGED aborted \/ (kind[c] = "voice" /\ AbortTurn)
  /\ UNCHANGED <<kind, by, answer, heard, executor, sessions, work, sink, timedOut,
                 attached, edge, history>>

\* POST /v1/turn/abort.
Abort ==
  /\ AbortTurn /\ ~aborted
  /\ UNCHANGED <<callers, executor, sessions, work, sink, timedOut, attached, edge,
                 history>>

-----------------------------------------------------------------------------
(* The session: changed only when nothing runs or waits. *)

\* Mutant: a compaction that waits or runs does not count.
BusyTurns == \E i \in 1 .. Len(queue) : kind[queue[i]] # "compact"

Busy == queue # <<>>

\* POST /v1/sessions/new.
StartFresh ==
  /\ ~Busy
  /\ \E s \in Sessions \ known : known' = known \cup {s} /\ session' = s
  /\ bound' = FALSE /\ prompted' = FALSE
  /\ attached' = None
  /\ UNCHANGED <<callers, executor, texts, turn, edge, history>>

\* POST /v1/sessions/{id}/resume: the task is let go before the session is found
\* not to exist.
Resume(s) ==
  /\ ~Busy
  /\ attached' = None
  /\ IF s \in known THEN session' = s /\ bound' = FALSE /\ prompted' = FALSE
                    ELSE UNCHANGED <<session, bound, prompted>>
  /\ UNCHANGED <<callers, executor, known, texts, turn, edge, history>>

\* The session endpoints, as edge and broker pass them on: refused while the service is busy.
PiSessions == StartFresh \/ \E s \in Sessions : Resume(s)

-----------------------------------------------------------------------------
(* The operation at the head of the queue. *)

\* The operation is over: its caller, if it still waits, is answered a.  What it was is
\* forgotten.
Finish(a) ==
  /\ kind' = [kind EXCEPT ![Running] = None] /\ by' = [by EXCEPT ![Running] = None]
  /\ answer' = [answer EXCEPT ![Running] = a]
  /\ caller' = [caller EXCEPT ![Running] = "over"]
  /\ queue' = Tail(queue) /\ phase' = "idle"

\* runTurn while a task is attached.
GoRemote ==
  /\ queue # <<>> /\ phase = "idle" /\ kind[Running] # "compact" /\ attached # None
  /\ phase' = "remote"
  /\ UNCHANGED <<callers, queue, sessions, turn, attached, edge, history>>

\* A session is there for the operation at the head.  All turns, spoken and typed, have one
\* system prompt; a compaction takes the session as it is, also one that it bound itself with
\* no system prompt, which the next turn replaces.
Usable == bound /\ (kind[Running] = "compact" \/ prompted)

\* newSession: the session is taken down, and stays so when Pi cannot make it.
Bind ==
  /\ queue # <<>> /\ phase = "idle" /\ ~Usable
  /\ kind[Running] = "compact" \/ attached = None
  /\ phase' = "binding" /\ bound' = FALSE
  /\ prompted' = (prompted \/ kind[Running] # "compact")
  /\ UNCHANGED <<callers, queue, known, session, texts, turn, attached, edge, history>>

\* Pi cannot make the session, or has made it and cannot bind its extensions.
BindFails ==
  /\ phase = "binding"
  /\ Finish(Failed)
  /\ bound' \in BOOLEAN
  /\ UNCHANGED <<heard, known, session, texts, prompted, turn, attached, edge, history>>

Ready == phase = "binding" \/ (phase = "idle" /\ queue # <<>> /\ Usable)

\* The turn is prompted in the session; only a streamed turn has a sink for deltas.
Prompt ==
  /\ Ready /\ kind[Running] # "compact"
  /\ phase = "binding" \/ attached = None
  /\ phase' = "prompt" /\ bound' = TRUE
  /\ sink' = IF kind[Running] = "voice" THEN Running ELSE None
  /\ work' = work \cup {Running}
  /\ UNCHANGED <<callers, queue, known, session, texts, prompted, aborted, timedOut, attached,
                 edge, history>>

Compact ==
  /\ Ready /\ kind[Running] = "compact"
  /\ phase' = "compacting" /\ bound' = TRUE
  /\ UNCHANGED <<callers, queue, known, session, texts, prompted, turn, attached, edge, history>>

\* The model says something in the turn it is at work on; the deltas go to the sink.
Speak ==
  /\ ~aborted
  /\ \E c \in work \ spoke :
       /\ texts' = [texts EXCEPT ![session] = Append(@, c)]
       /\ spoke' = spoke \cup {c}
       /\ heard' = [d \in Calls |-> IF d = sink THEN heard[d] \cup {c} ELSE heard[d]]
  /\ UNCHANGED <<kind, by, caller, answer, executor, known, session, bound, prompted, turn,
                 attached, edge, home>>

\* The model calls attach_task_session.
Attach ==
  /\ ~aborted /\ attached = None
  /\ \E c \in work : attached' = c
  /\ UNCHANGED <<callers, executor, sessions, turn, edge, history>>

\* Pi is idle: the model is done, with or without an answer, or was aborted.
ModelStops ==
  /\ work # {}
  /\ work' = {}
  /\ UNCHANGED <<callers, executor, sessions, sink, aborted, timedOut, attached, edge,
                 history>>

\* Mutant: the turn ends with its timer, the model does not.
ExpireAtOnce ==
  /\ phase = "prompt" /\ work # {}
  /\ Finish(Failed)
  /\ sink' = None
  /\ UNCHANGED <<heard, sessions, work, aborted, timedOut, attached, edge,
                 history>>

\* Mutant: the timer does not abort.
ExpireQuietly ==
  /\ phase = "prompt" /\ work # {} /\ ~timedOut
  /\ timedOut' = TRUE
  /\ UNCHANGED <<callers, executor, sessions, work, sink, aborted, attached, edge, history>>

\* The timer of the turn.
Expire ==
  /\ phase = "prompt" /\ work # {} /\ ~timedOut
  /\ timedOut' = TRUE /\ aborted' = TRUE
  /\ UNCHANGED <<callers, executor, sessions, work, sink, attached, edge, history>>

\* Mutant: the scan goes forward.
AssistantTextFirst(s) == texts[s][1]

\* assistantText: the last text of the session.
AssistantText(s) == texts[s][Len(texts[s])]

\* waitForIdle is over.
TurnEnds ==
  /\ phase = "prompt" /\ work = {}
  /\ Finish(IF timedOut \/ texts[session] = <<>> THEN Failed ELSE AssistantText(session))
  /\ sink' = None /\ aborted' = FALSE /\ timedOut' = FALSE
  /\ UNCHANGED <<heard, sessions, work, attached, edge, history>>

\* RemoteTaskSession.send: every wait in it has a timeout; a detach or a closed
\* connection rejects it.
RemoteEnds ==
  /\ phase = "remote"
  /\ \/ /\ attached # None
        /\ Finish(Task)
        /\ heard' = [heard EXCEPT ![Running] =
                       IF kind[Running] = "voice" THEN @ \cup {Task} ELSE @]
     \/ Finish(Failed) /\ UNCHANGED heard
  /\ UNCHANGED <<sessions, turn, attached, edge, history>>

\* session.compact: the last texts stay; or it fails.
CompactEnds ==
  /\ phase = "compacting"
  /\ \/ /\ Finish(Done)
        /\ \E n \in 1 .. Len(texts[session]) + 1 :
             texts' = [texts EXCEPT ![session] = SubSeq(@, n, Len(@))]
     \/ Finish(Failed) /\ UNCHANGED texts
  /\ UNCHANGED <<heard, known, session, bound, prompted, turn, attached, edge, history>>

\* The task's socket closes or fails.
TaskCloses ==
  /\ attached # None
  /\ attached' = None
  /\ UNCHANGED <<callers, executor, sessions, turn, edge, history>>

\* The process dies and is started again: it continues one of the recent sessions.  With
\* nothing to do this is a Resume.
Restart ==
  /\ Busy
  /\ answer' = [c \in Calls |-> IF Queued(c) THEN Failed ELSE answer[c]]
  /\ caller' = [c \in Calls |-> IF Queued(c) THEN "over" ELSE caller[c]]
  /\ kind' = [c \in Calls |-> IF Queued(c) THEN None ELSE kind[c]]
  /\ by' = [c \in Calls |-> IF Queued(c) THEN None ELSE by[c]]
  /\ queue' = <<>> /\ phase' = "idle"
  /\ \E s \in known : session' = s
  /\ bound' = FALSE /\ prompted' = FALSE
  /\ work' = {} /\ sink' = None /\ aborted' = FALSE /\ timedOut' = FALSE
  /\ attached' = None
  /\ UNCHANGED <<heard, known, texts, edge, history>>

-----------------------------------------------------------------------------
(* The edge's voice sessions. *)

\* bot: a second client is disconnected at once; setting a client up may fail, before
\* the guard is set.
Connect(v) ==
  /\ client[v] = "off" /\ \A w \in Clients : w < v => client[w] # "off"
  /\ IF guard THEN client' = [client EXCEPT ![v] = "gone"] /\ UNCHANGED guard
     ELSE \/ client' = [client EXCEPT ![v] = "live"] /\ guard' = TRUE
          \/ client' = [client EXCEPT ![v] = "gone"] /\ UNCHANGED guard
  /\ UNCHANGED <<callers, executor, sessions, turn, attached, history>>

\* Mutant: the guard is free as soon as the client has gone.
DisconnectFrees(v) ==
  /\ client[v] = "live"
  /\ client' = [client EXCEPT ![v] = "leaving"]
  /\ guard' = FALSE
  /\ UNCHANGED <<callers, executor, sessions, turn, attached, history>>

Disconnect(v) ==
  /\ client[v] = "live"
  /\ client' = [client EXCEPT ![v] = "leaving"]
  /\ UNCHANGED <<callers, executor, sessions, turn, attached, guard, history>>

\* POST /v1/pi/tasks/detach: it may fail on the way.  One that the edge has given up on and
\* that arrives later is to the service what TaskCloses is.
LetGo == attached' = None \/ UNCHANGED attached

\* Mutant: a failure to let the task go ends the handler.
DetachOrFail(v) ==
  /\ client[v] = "leaving"
  /\ \/ client' = [client EXCEPT ![v] = "closing"] /\ attached' = None
     \/ client' = [client EXCEPT ![v] = "stuck"] /\ UNCHANGED attached
  /\ UNCHANGED <<callers, executor, sessions, turn, guard, history>>

\* on_client_disconnected: the task is let go; a failure to is logged, no more.
Detach(v) ==
  /\ client[v] = "leaving"
  /\ client' = [client EXCEPT ![v] = "closing"]
  /\ LetGo
  /\ UNCHANGED <<callers, executor, sessions, turn, guard, history>>

\* run_bot returns: the pipeline is cancelled, its streams end, the guard is free.  It
\* may also fail while the client is connected.
Leave(v) ==
  /\ client[v] \in {"live", "closing"}
  /\ client' = [client EXCEPT ![v] = "gone"]
  /\ guard' = FALSE
  /\ caller' = [c \in Calls |-> IF by[c] = v /\ caller[c] = "waiting" THEN "gone"
                                ELSE caller[c]]
  /\ UNCHANGED aborted \/ ((\E c \in Calls : by[c] = v /\ caller[c] = "waiting") /\ AbortTurn)
  /\ UNCHANGED <<kind, by, answer, heard, executor, sessions, work, sink, timedOut, attached,
                 history>>

-----------------------------------------------------------------------------
Operation ==
  \/ GoRemote \/ Bind \/ BindFails \/ Prompt \/ Compact \/ TurnEnds \/ RemoteEnds
  \/ CompactEnds

Next ==
  \/ \E c \in Calls : AskTyped(c) \/ AskCompact(c) \/ GiveUp(c)
  \/ \E c \in Calls, v \in Clients : AskSpoken(c, v)
  \/ Abort \/ PiSessions
  \/ Operation \/ Speak \/ Attach \/ ModelStops \/ Expire \/ TaskCloses \/ Restart
  \/ \E v \in Clients : Connect(v) \/ Disconnect(v) \/ Detach(v) \/ Leave(v)

\* The service goes on with what it can: an operation is started and ended, the timer of
\* a turn fires, a model that was aborted stops; and the edge ends the session of a client that
\* left.  The model owes nothing: it may never stop, nor a compaction end.
Service ==
  \/ GoRemote \/ Bind \/ Prompt \/ Compact \/ TurnEnds \/ RemoteEnds
  \/ Expire \/ (aborted /\ ModelStops)

Fairness ==
  /\ WF_vars(Service)
  /\ WF_vars(\E v \in Clients : Detach(v) \/ (client[v] = "closing" /\ Leave(v)))

Spec == Init /\ [][Next]_vars /\ Fairness

-----------------------------------------------------------------------------
(* Properties. *)

\* Type correctness of the service's, the callers' and the edge's state.
TypeOK ==
  /\ kind \in [Calls -> Kinds \cup {None}] /\ by \in [Calls -> Clients \cup {None}]
  /\ caller \in [Calls -> {"idle", "waiting", "gone", "over"}]
  /\ answer \in [Calls -> Calls \cup {Task, Done, Failed, None}]
  /\ heard \in [Calls -> SUBSET (Calls \cup {Task})]
  /\ Len(queue) <= Cardinality(Calls) /\ \A i \in 1 .. Len(queue) : queue[i] \in Calls
  /\ phase \in {"idle", "binding", "prompt", "compacting", "remote"}
  /\ phase # "idle" => queue # <<>>
  /\ known \subseteq Sessions /\ session \in known
  /\ bound \in BOOLEAN /\ prompted \in BOOLEAN
  /\ \A s \in Sessions : \A i \in 1 .. Len(texts[s]) : texts[s][i] \in spoke
  /\ work \subseteq Calls /\ Cardinality(work) <= 1 /\ sink \in Calls \cup {None}
  /\ aborted \in BOOLEAN /\ timedOut \in BOOLEAN
  /\ attached \in Calls \cup {None}
  /\ client \in [Clients -> ClientStates] /\ guard \in BOOLEAN
  /\ home \in [Calls -> Sessions \cup {None}] /\ spoke \subseteq Calls

\* A streamed turn is sent the words of its own turn, or of the attached task, and
\* never those Pi is still saying to another, abandoned or timed out one.
HeardIsOwn == \A c \in Calls : heard[c] \subseteq {c, Task}

\* A turn in which Pi said something is answered with what was said in it, or with
\* an error: the scan from the session's end for the last text finds no older one.
SpokenIsAnswered ==
  \A c \in spoke : answer[c] \in Calls => answer[c] = c

\* An operation runs in the session that was current when it was asked for: neither a
\* new nor a resumed session takes over turns or compactions that wait.
SessionKept ==
  phase \in {"binding", "prompt", "compacting"} => session = home[Running]

\* One voice client at a time, from the admission to the end of its pipeline, its detach
\* included: no other can have attached a task that the detach would take away, as long as
\* the edge waits for it.
OneVoiceClient == \A v, w \in Clients : Admitted(v) /\ Admitted(w) => v = w

\* Every operation ends though the model may hang, unless a compaction hangs before it.
EveryTurnEnds ==
  \A c \in Calls : Queued(c) ~> (~Queued(c) \/ phase = "compacting")

\* A client that leaves makes room for the next, whether its task was let go or not.
GuardReleased == (\E v \in Clients : client[v] = "leaving") ~> ~guard

\* The turns of a client whose detach is over.
Late == {c \in Calls : by[c] # None /\ client[by[c]] = "closing"}

\* README.md: "Disconnecting voice releases the attachment": once a client's detach is
\* over, no turn of its makes another attachment, which nobody would release.
AttachmentReleased == [][attached' \in Calls \ {attached} => attached' \notin Late]_vars
=============================================================================
