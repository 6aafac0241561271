----------------------------- MODULE TaskBridge -----------------------------
(***************************************************************************)
(* The attachable session of one task: runPiSession in pi-durable-task/    *)
(* session-execution.ts, which boots a virtual machine, opens a durable    *)
(* conversation and serves it on a socket (RemoteTaskBridge in             *)
(* remote-session.ts), and the clients of that socket (RemoteTaskSession   *)
(* in voice-agent/remote-task-session.ts).  The owner and each client are  *)
(* event loops: a step runs from one await to the next.                    *)
(*                                                                         *)
(* A prompt is a number, 0 is the task's instruction.  An answer is known  *)
(* by the prompts it answers: a prompt that is steered into a run is       *)
(* answered together with it.  A request of a client and its handling are  *)
(* one step; the records that the bridge writes on its own, and the        *)
(* acceptance of a prompt, are read from the socket in order.              *)
(***************************************************************************)
EXTENDS Naturals, Sequences, Functions

CONSTANTS
  Clients,      \* the sockets of the voice agent and of other clients
  MaxPrompts    \* bound: prompts beside the instruction

ASSUME PromptBound == MaxPrompts \in Nat

VARIABLES
  run, aborted,                 \* runPiSession; its abort signal
  vm, session,                  \* the virtual machine and the conversation
  listening, closing, cause,    \* the bridge's server; close() and who called it
  active, lastAnswer, timer,    \* fields of the bridge
  current, queue,               \* the conversation: prompts of its run, prompts behind it
  handler, text,                \* per prompt: what its handler waits for, its answer
  accepted,                     \* sockets that the bridge has accepted
  pc, inbox, call               \* per client: what it awaits, records on its socket, its send

owner   == <<run, aborted, vm, session>>
bridge  == <<listening, closing, cause, active, lastAnswer, timer>>
talk    == <<current, queue, handler, text>>
clients == <<accepted, inbox, pc, call>>
vars    == <<owner, bridge, talk, clients>>

Prompts == 0..MaxPrompts
Runs == {"boot", "open", "start", "listen", "answer", "unwind", "handed", "over"}
Points == {"detached", "attach", "attachState", "idle", "state", "prompt", "resolved",
           "waiting", "text"}
Sending == {"prompt", "resolved", "waiting", "text"}

\* A send: its prompt, isStreaming before it, whether a settlement came after its
\* response; and history: the conversation was its own, the prompts that were over before.
NoCall == [prompt |-> 0, busy |-> FALSE, settled |-> FALSE, alone |-> FALSE, old |-> {}]

Init ==
  /\ run = "boot" /\ aborted = FALSE /\ vm = "none" /\ session = "none"
  /\ listening = FALSE /\ closing = "no" /\ cause = "none"
  /\ active = 0 /\ lastAnswer = {} /\ timer = FALSE
  /\ current = {} /\ queue = <<>>
  /\ handler = [p \in Prompts |-> "none"] /\ text = [p \in Prompts |-> {}]
  /\ accepted = {} /\ inbox = [c \in Clients |-> <<>>]
  /\ pc = [c \in Clients |-> "detached"] /\ call = [c \in Clients |-> NoCall]

-----------------------------------------------------------------------------
(* The conversation: the pi-durable library, as runtime.ts uses it. *)

Unfinished == {p \in Prompts : handler[p] \in {"wait", "answered", "failed"}}

\* submitInput: a follow-up waits behind the run; a steered prompt joins it, unless the
\* run is at its end.
Submit(p, steer) ==
  /\ session = "open"
  /\ \/ current = {} /\ current' = {p} /\ UNCHANGED queue
     \/ current # {} /\ queue' = Append(queue, p) /\ UNCHANGED current
     \/ current # {} /\ steer /\ current' = current \cup {p} /\ UNCHANGED queue
  /\ handler' = [handler EXCEPT ![p] = "wait"]
  /\ UNCHANGED text

\* The submissions of the run settle, and the next one runs.
NextRun(how) ==
  /\ handler' = [p \in Prompts |-> IF p \in current THEN how ELSE handler[p]]
  /\ text' = [p \in Prompts |->
                IF p \in current /\ how = "answered" THEN current ELSE text[p]]
  /\ IF queue = <<>> THEN current' = {} /\ UNCHANGED queue
     ELSE current' = {Head(queue)} /\ queue' = Tail(queue)

\* waitForAnswer: the run is answered, or it fails or has no text.
RunEnds(how) ==
  /\ session = "open" /\ current # {}
  /\ NextRun(how)
  /\ UNCHANGED <<owner, bridge, clients>>

\* The harness is closed under its submissions.
Dropped ==
  /\ handler' = [p \in Prompts |-> IF handler[p] = "wait" THEN "failed" ELSE handler[p]]
  /\ current' = {} /\ queue' = <<>>
  /\ UNCHANGED text

-----------------------------------------------------------------------------
(* RemoteTaskBridge. *)

\* A settlement makes a difference to a send that has or will have read its response;
\* the others drop it when they read it.
Heeds(c) == pc[c] \in {"resolved", "waiting"} \/ (pc[c] = "prompt" /\ inbox[c] # <<>>)

Broadcast(record) == inbox' = [c \in Clients |->
  IF c \in accepted /\ (record = "settled" => Heeds(c)) THEN Append(inbox[c], record) ELSE inbox[c]]

\* close, up to its first await: the timer is cleared, the sockets are destroyed, the
\* server stops listening if there is one.  A second call joins the first.
CloseBridge(who) ==
  IF closing # "no" THEN UNCHANGED <<listening, closing, cause, timer, accepted, inbox>>
  ELSE /\ closing' = "server" /\ cause' = who
       /\ timer' = FALSE /\ listening' = FALSE
       /\ Broadcast("close") /\ accepted' = {}

\* close goes on: the session, then the virtual machine and the socket path.
CloseSession ==
  /\ closing = "server" /\ closing' = "session"
  /\ session' = "closed" /\ Dropped
  /\ UNCHANGED <<run, aborted, vm, listening, cause, active, lastAnswer, timer, clients>>

DisposeEnvironment ==
  /\ closing = "session" /\ closing' = "done"
  /\ vm' = "closed"
  /\ UNCHANGED <<run, aborted, session, listening, cause, active, lastAnswer, timer, talk,
                 clients>>

\* MUTANT of IdleTick: a prompt without its client is not waited for.
IdleTickClients ==
  /\ timer /\ accepted = {}
  /\ CloseBridge("idle")
  /\ UNCHANGED <<owner, active, lastAnswer, talk, pc, call>>

\* The timer of initialSettled, after the idle grace.
IdleTick ==
  /\ timer /\ accepted = {} /\ active = 0
  /\ CloseBridge("idle")
  /\ UNCHANGED <<owner, active, lastAnswer, talk, pc, call>>

\* closeTaskSessions: the owner stops in order; a session is known once it has started.
OwnerStops ==
  /\ closing = "no" /\ listening /\ run # "listen"
  /\ CloseBridge("stop")
  /\ UNCHANGED <<owner, active, lastAnswer, talk, pc, call>>

\* MUTANT of Finish: a prompt that failed is still counted.
FinishCounts(p, ok) ==
  /\ p # 0 /\ handler[p] \in {"answered", "failed"}
  /\ ok => handler[p] = "answered"
  /\ handler' = [handler EXCEPT ![p] = "over"] /\ text' = [text EXCEPT ![p] = {}]
  /\ lastAnswer' = IF ok THEN text[p] ELSE lastAnswer
  /\ Broadcast("settled")
  /\ active' = IF ok THEN active - 1 ELSE active
  /\ call' = IF ok THEN call ELSE [c \in Clients |-> [call[c] EXCEPT !.alone = FALSE, !.old = {}]]
  /\ UNCHANGED <<owner, listening, closing, cause, timer, current, queue, accepted, pc>>

\* The end of handle: the stop hook has run, the answer is kept and everybody is told;
\* or the submission or the hook failed, and everybody is told that.
Finish(p, ok) ==
  /\ p # 0 /\ handler[p] \in {"answered", "failed"}
  /\ ok => handler[p] = "answered"
  /\ handler' = [handler EXCEPT ![p] = "over"] /\ text' = [text EXCEPT ![p] = {}]
  /\ lastAnswer' = IF ok THEN text[p] ELSE lastAnswer
  /\ Broadcast("settled")
  /\ active' = active - 1
  /\ call' = IF ok THEN call ELSE [c \in Clients |-> [call[c] EXCEPT !.alone = FALSE, !.old = {}]]
  /\ UNCHANGED <<owner, listening, closing, cause, timer, current, queue, accepted, pc>>

-----------------------------------------------------------------------------
(* runPiSession. *)

\* The virtual machine boots, or it does not; then the abort listener is added.
Boot ==
  /\ run = "boot"
  /\ \/ run' = "open" /\ vm' = "up"
     \/ run' = "over" /\ UNCHANGED vm
  /\ UNCHANGED <<aborted, session, bridge, talk, clients>>

\* The conversation opens, and the bridge is made.
Open ==
  /\ run = "open"
  /\ \/ run' = "start" /\ session' = "open" /\ UNCHANGED vm
     \/ run' = "over" /\ vm' = "closed" /\ UNCHANGED session
  /\ UNCHANGED <<aborted, bridge, talk, clients>>

\* start: the server listens.  Until the mode of its socket is set clients may come, and
\* their prompts run before the instruction.
Listen ==
  /\ run = "start" /\ run' = "listen"
  /\ listening' = TRUE
  /\ UNCHANGED <<aborted, vm, session, closing, cause, active, lastAnswer, timer, talk, clients>>

\* The socket directory is not usable, or the socket path is gone.
ListenFails ==
  /\ run \in {"start", "listen"} /\ run' = "unwind"
  /\ UNCHANGED <<aborted, vm, session, bridge, talk, clients>>

\* initialStarted: the instruction is counted and submitted; nobody is alone any more.
Instruct ==
  /\ run = "listen"
  /\ active' = active + 1
  /\ IF session = "open"
       THEN /\ run' = "answer" /\ Submit(0, FALSE)
            /\ call' = [c \in Clients |-> [call[c] EXCEPT !.alone = FALSE]]
       ELSE run' = "unwind" /\ UNCHANGED <<talk, call>>
  /\ UNCHANGED <<aborted, vm, session, listening, closing, cause, lastAnswer, timer, accepted,
                 inbox, pc>>

\* The instruction is answered and the stop hook has run: initialSettled hands the session
\* over to the bridge.  Or one of them failed.
InitialSettled ==
  /\ run = "answer" /\ handler[0] = "answered"
  /\ run' = "handed"
  /\ active' = active - 1 /\ lastAnswer' = text[0] /\ timer' = TRUE
  /\ Broadcast("settled")
  /\ handler' = [handler EXCEPT ![0] = "over"] /\ text' = [text EXCEPT ![0] = {}]
  /\ UNCHANGED <<aborted, vm, session, listening, closing, cause, current, queue, accepted, pc, call>>

InitialFails ==
  /\ run = "answer" /\ handler[0] \in {"answered", "failed"}
  /\ run' = "unwind"
  /\ handler' = [handler EXCEPT ![0] = "over"] /\ text' = [text EXCEPT ![0] = {}]
  /\ UNCHANGED <<aborted, vm, session, bridge, current, queue, clients>>

\* finally: the bridge is closed, and awaited.
Unwind ==
  /\ run = "unwind"
  /\ IF closing = "done" THEN run' = "over" /\ UNCHANGED <<listening, closing, cause, timer, accepted, inbox>>
     ELSE closing = "no" /\ CloseBridge("unwind") /\ UNCHANGED run
  /\ UNCHANGED <<aborted, vm, session, active, lastAnswer, talk, pc, call>>

\* The task is aborted.  Nobody listens during the boot and after the hand-over; while the
\* conversation opens the virtual machine is closed, later the bridge is.
AbortSignal ==
  /\ ~aborted /\ run \notin {"handed", "over"} /\ aborted' = TRUE
  /\ vm' = IF run = "open" THEN "closed" ELSE vm
  /\ IF run \in {"start", "listen", "answer"} THEN CloseBridge("abort")
     ELSE UNCHANGED <<listening, closing, cause, timer, accepted, inbox>>
  /\ UNCHANGED <<run, session, active, lastAnswer, talk, pc, call>>

-----------------------------------------------------------------------------
(* RemoteTaskSession. *)

Goto(c, point) == pc' = [pc EXCEPT ![c] = point]

\* A send is over, with a text or without.
Over(c, point) == Goto(c, point) /\ call' = [call EXCEPT ![c] = NoCall]

\* attach connects to the socket path; the bridge accepts, or nobody listens any more.
Attach(c) ==
  /\ pc[c] = "detached" /\ listening
  /\ Goto(c, "attach")
  /\ UNCHANGED <<owner, bridge, talk, accepted, inbox, call>>

Accept(c) ==
  /\ pc[c] = "attach"
  /\ IF listening THEN accepted' = accepted \cup {c} /\ Goto(c, "attachState")
     ELSE Goto(c, "detached") /\ UNCHANGED accepted
  /\ UNCHANGED <<owner, bridge, talk, inbox, call>>

\* state, at the end of attach and at the beginning of send.
State(c) ==
  /\ pc[c] \in {"attachState", "idle"} /\ c \in accepted
  /\ IF pc[c] = "attachState" THEN Goto(c, "idle") /\ UNCHANGED call
     ELSE Goto(c, "state") /\ call' = [call EXCEPT ![c].busy = active > 0]
  /\ UNCHANGED <<owner, bridge, talk, accepted, inbox>>

\* The prompt is handled up to its acceptance.  Without a session it is not accepted:
\* everybody is told that a prompt failed, and its own request has no response.
SendPrompt(c, p) ==
  /\ pc[c] = "state" /\ c \in accepted
  /\ p # 0 /\ handler[p] = "none" /\ \A q \in 1..(p - 1) : handler[q] # "none"
  /\ Goto(c, "prompt")
  /\ IF session = "open"
       THEN /\ Submit(p, call[c].busy) /\ active' = active + 1
            /\ inbox' = [inbox EXCEPT ![c] = Append(@, "ok")]
       ELSE /\ Broadcast("settled") /\ handler' = [handler EXCEPT ![p] = "over"]
            /\ UNCHANGED <<active, current, queue, text>>
  /\ call' = [d \in Clients |->
       IF d = c THEN [call[c] EXCEPT !.prompt = p, !.alone = active = 0,
                                     !.old = {q \in Prompts : handler[q] = "over"}]
       ELSE [call[d] EXCEPT !.alone = FALSE, !.old = IF session = "open" THEN @ ELSE {}]]
  /\ UNCHANGED <<owner, listening, closing, cause, lastAnswer, timer, accepted>>

\* MUTANT of Consume: any settlement is taken, whenever it came.
ConsumeAny(c) ==
  /\ inbox[c] # <<>>
  /\ inbox' = [inbox EXCEPT ![c] = Tail(@)]
  /\ CASE Head(inbox[c]) = "ok" -> Goto(c, "resolved") /\ UNCHANGED call
       [] Head(inbox[c]) = "settled" ->
            /\ call' = [call EXCEPT ![c].settled = TRUE]
            /\ IF pc[c] = "waiting" THEN Goto(c, "text") ELSE UNCHANGED pc
       [] Head(inbox[c]) = "close" -> Over(c, "detached")
  /\ UNCHANGED <<owner, bridge, talk, accepted>>

\* consume: the response resolves the request; a settlement is remembered, and ends the
\* wait of a send; the end of the socket fails whatever is awaited.
Consume(c) ==
  /\ inbox[c] # <<>>
  /\ inbox' = [inbox EXCEPT ![c] = Tail(@)]
  /\ CASE Head(inbox[c]) = "ok" -> Goto(c, "resolved") /\ UNCHANGED call
       [] Head(inbox[c]) = "settled" ->
            /\ call' = [call EXCEPT ![c].settled = @ \/ pc[c] = "resolved"]
            /\ IF pc[c] = "waiting" THEN Goto(c, "text") ELSE UNCHANGED pc
       [] Head(inbox[c]) = "close" -> Over(c, "detached")
  /\ UNCHANGED <<owner, bridge, talk, accepted>>

\* MUTANT of WaitForAfter: a settlement that came with the response is not looked for.
WaitForAfterResponse(c) ==
  /\ pc[c] = "resolved"
  /\ Goto(c, "waiting")
  /\ UNCHANGED <<owner, bridge, talk, accepted, inbox, call>>

\* send goes on after the response.
WaitForAfter(c) ==
  /\ pc[c] = "resolved"
  /\ Goto(c, IF call[c].settled THEN "text" ELSE "waiting")
  /\ UNCHANGED <<owner, bridge, talk, accepted, inbox, call>>

\* get_last_assistant_text is what send returns; it fails if that is empty.
LastText(c) ==
  /\ pc[c] = "text" /\ c \in accepted
  /\ Over(c, "idle")
  /\ UNCHANGED <<owner, bridge, talk, accepted, inbox>>

\* abort of the conversation's run.
AbortTurn(c) ==
  /\ pc[c] \notin {"detached", "attach"} /\ c \in accepted
  /\ session = "open" /\ current # {}
  /\ NextRun("failed")
  /\ UNCHANGED <<owner, bridge, clients>>

\* A request or a wait takes too long: send fails and the attachment stays.  A late
\* response belongs to no request, a late settlement to no wait.
TimesOut(c) ==
  /\ pc[c] \in {"prompt", "waiting"}
  /\ Over(c, "idle")
  /\ inbox' = [inbox EXCEPT ![c] = IF "close" \in Range(@) THEN <<"close">> ELSE <<>>]
  /\ UNCHANGED <<owner, bridge, talk, accepted>>

\* detach destroys the socket and fails whatever is awaited.
Detach(c) ==
  /\ pc[c] # "detached"
  /\ Over(c, "detached") /\ inbox' = [inbox EXCEPT ![c] = <<>>]
  /\ accepted' = accepted \ {c}
  /\ UNCHANGED <<owner, bridge, talk>>

Server ==
  \/ CloseSession \/ DisposeEnvironment \/ IdleTick
  \/ Open \/ Listen \/ Instruct \/ InitialSettled \/ Unwind
  \/ \E p \in Prompts : Finish(p, TRUE) \/ Finish(p, FALSE)

Client(c) ==
  \/ Attach(c) \/ Accept(c) \/ State(c) \/ (\E p \in Prompts : SendPrompt(c, p))
  \/ Consume(c) \/ WaitForAfter(c) \/ LastText(c) \/ AbortTurn(c) \/ TimesOut(c) \/ Detach(c)

Next ==
  \/ Server \/ Boot \/ ListenFails \/ InitialFails \/ AbortSignal \/ OwnerStops
  \/ \E how \in {"answered", "failed"} : RunEnds(how)
  \/ \E c \in Clients : Client(c)

Spec == Init /\ [][Next]_vars

\* The owner's event loop goes on.  Nobody has to attach, prompt or answer.
FairSpec == Spec /\ WF_vars(Server)

-----------------------------------------------------------------------------
(* Properties. *)

\* Every variable has its type.
TypeOK ==
  /\ run \in Runs /\ aborted \in BOOLEAN
  /\ vm \in {"none", "up", "closed"} /\ session \in {"none", "open", "closed"}
  /\ listening \in BOOLEAN /\ timer \in BOOLEAN
  /\ closing \in {"no", "server", "session", "done"}
  /\ cause \in {"none", "idle", "stop", "unwind", "abort"}
  /\ active \in 0..(MaxPrompts + 1)
  /\ lastAnswer \subseteq Prompts /\ current \subseteq Prompts /\ queue \in Seq(Prompts)
  /\ handler \in [Prompts -> {"none", "wait", "answered", "failed", "over"}]
  /\ text \in [Prompts -> SUBSET Prompts]
  /\ accepted \subseteq Clients /\ inbox \in [Clients -> Seq({"ok", "settled", "close"})]
  /\ pc \in [Clients -> Points]
  /\ call \in [Clients -> [prompt : Prompts, busy : BOOLEAN, settled : BOOLEAN, alone : BOOLEAN,
                           old : SUBSET Prompts]]

\* No send waits for a settlement that it has already read, although the response of its
\* prompt and the settlement may come in one chunk and the send goes on in between: while
\* it waits and is connected, its prompt is not over or a settlement is on the socket.
SettledIsSeen == \A c \in accepted :
  pc[c] = "waiting" => call[c].prompt \in Unfinished \/ "settled" \in Range(inbox[c])

\* The last answer, when a send asks for it, is the answer of its own prompt, if the
\* conversation was idle when the prompt was sent and none, the instruction neither, since; in any case it
\* is not an answer from before the prompt.  Where a prompt failed in the meantime nothing
\* is promised: the error of a settlement is not looked at.
AnswerIsOwn == \A c \in accepted : pc[c] = "text" /\ lastAnswer # {} =>
  /\ call[c].alone => call[c].prompt \in lastAnswer
  /\ ~ lastAnswer \subseteq call[c].old

\* The idle timer does not close the conversation under a prompt, also when the client of
\* that prompt has gone; every way out of handle has to give its count back exactly once.
FollowUpsFinish == cause = "idle" => Unfinished = {} /\ active = 0

\* The virtual machine of a task does not stay: a bridge that is told to close, by an
\* abort in the middle of its start or its answer too, closes it; and so does the idle
\* timer of a session that was handed over, once nobody is attached and no prompt is left.
EnvironmentReleased ==
  /\ closing # "no" ~> vm = "closed"
  /\ (run = "handed" /\ accepted = {} /\ Unfinished = {}) ~>
       (vm = "closed" \/ accepted # {} \/ Unfinished # {})

=============================================================================
