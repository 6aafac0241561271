---------------------------- MODULE VoiceProofs ----------------------------
(***************************************************************************)
(* Proofs about the voice: VoiceTurns and PresentationStream.              *)
(*                                                                         *)
(* For any callers, clients and sessions, a turn runs in the session it    *)
(* was asked for in, is sent and answered with its own words, and the edge *)
(* has one voice client at a time.  The edge and the service are proved    *)
(* apart: no step of one can disturb the invariant of the other.           *)
(*                                                                         *)
(* For any replies, cut into chunks of any length and interrupted          *)
(* anywhere, what is spoken depends on the reply alone and is what the     *)
(* browser shows.  The proof relates three readings of a text: character   *)
(* by character in chunks, character by character at once, and unit by     *)
(* unit as JSON reads it.                                                  *)
(*                                                                         *)
(* For any limits and whatever the model sends, the app shown is           *)
(* consistent and stays as it is when it is normalised again: each kind is *)
(* read into a form, GoodFlow or GoodDrawing, that normalising keeps.      *)
(***************************************************************************)
EXTENDS VoiceTurns, PresentationStream, SequenceTheorems, WellFoundedInduction, TLAPS

\* Whoever is admitted holds the guard, and nobody else is.
EdgeInv ==
  /\ client \in [Clients -> ClientStates] /\ guard \in BOOLEAN
  /\ \A v \in Clients : Admitted(v) => guard
  /\ OneVoiceClient

Types ==
  /\ queue \in Seq(Calls) /\ caller \in [Calls -> {"idle", "waiting", "gone", "over"}]
  /\ answer \in [Calls -> Calls \cup {Task, Done, Failed, None}]
  /\ heard \in [Calls -> SUBSET (Calls \cup {Task})]
  /\ session \in Sessions /\ known \subseteq Sessions
  /\ texts \in [Sessions -> Seq(Calls)]
  /\ work \subseteq Calls /\ sink \in Calls \cup {None} /\ spoke \subseteq Calls
  /\ home \in [Calls -> Sessions \cup {None}]

\* What waits is there once, was asked for in the session, and is not answered yet; what was
\* never asked for is neither there nor answered.
QueueInv ==
  /\ phase # "idle" => queue # <<>>
  /\ \A i, j \in 1 .. Len(queue) : queue[i] = queue[j] => i = j
  /\ \A i \in 1 .. Len(queue) : home[queue[i]] = session /\ answer[queue[i]] = None
                                /\ caller[queue[i]] # "idle"
  /\ \A c \in Calls : caller[c] = "idle" => answer[c] = None /\ c \notin spoke

\* Pi is at work on the turn that was prompted, and the deltas go to it.
WorkInv ==
  /\ work # {} => phase = "prompt" /\ work = {queue[1]}
  /\ sink # None => phase = "prompt" /\ sink = queue[1]

\* Only the turn that was prompted can have said something, and nobody else since.
LastInv ==
  \A i \in 1 .. Len(queue) :
    queue[i] \in spoke =>
      /\ i = 1 /\ phase = "prompt"
      /\ texts[session] # <<>> /\ texts[session][Len(texts[session])] = queue[1]

ServiceInv == Types /\ QueueInv /\ WorkInv /\ LastInv /\ HeardIsOwn /\ SpokenIsAnswered

-----------------------------------------------------------------------------
(* The edge. *)

\* The steps of the service and of the callers leave the edge alone.
LEMMA EdgeApart ==
  ASSUME Next
  PROVE  \/ UNCHANGED edge
         \/ \E v \in Clients : Connect(v) \/ Disconnect(v) \/ Detach(v) \/ Leave(v)
<1>1. ASSUME NEW c \in Calls, NEW v, NEW k, Ask(c, k, v) PROVE UNCHANGED edge
  BY <1>1 DEF Ask
<1>2. ASSUME NEW c \in Calls, AskTyped(c) \/ AskCompact(c) PROVE UNCHANGED edge
  BY <1>2, <1>1 DEF AskTyped, AskCompact
<1>3. ASSUME NEW c \in Calls, GiveUp(c) PROVE UNCHANGED edge
  BY <1>3 DEF GiveUp
<1>4. ASSUME NEW c \in Calls, NEW v \in Clients, AskSpoken(c, v) PROVE UNCHANGED edge
  BY <1>4, <1>1 DEF AskSpoken
<1>5. CASE Abort \/ PiSessions
  BY <1>5 DEF Abort, PiSessions, StartFresh, Resume
<1>6. CASE Operation
  BY <1>6 DEF Operation, GoRemote, Bind, BindFails, Prompt, Compact, TurnEnds, RemoteEnds,
              CompactEnds
<1>7. CASE Speak \/ Attach \/ ModelStops \/ Expire \/ TaskCloses \/ Restart
  BY <1>7 DEF Speak, Attach, ModelStops, Expire, TaskCloses, Restart
<1>8. QED
  BY <1>2, <1>3, <1>4, <1>5, <1>6, <1>7 DEF Next

\* Every step of the edge keeps the guard with the one client that is admitted.
LEMMA EdgeStep == EdgeInv /\ [Next]_vars => EdgeInv'
<1> SUFFICES ASSUME EdgeInv, [Next]_vars PROVE EdgeInv'
  OBVIOUS
<1> USE DEF EdgeInv, OneVoiceClient, Admitted, ClientStates
<1>1. CASE UNCHANGED edge
  BY <1>1 DEF edge
<1>2. ASSUME NEW v \in Clients, Connect(v) PROVE EdgeInv'
  BY <1>2 DEF Connect
<1>3. ASSUME NEW v \in Clients, Disconnect(v) \/ Detach(v) PROVE EdgeInv'
  BY <1>3 DEF Disconnect, Detach
<1>4. ASSUME NEW v \in Clients, Leave(v) PROVE EdgeInv'
  BY <1>4 DEF Leave
<1>5. QED
  BY EdgeApart, <1>1, <1>2, <1>3, <1>4 DEF vars

\* One voice client at a time, for any number of clients that connect: the guard that bot takes
\* on admission and frees when run_bot returns is held by whoever is admitted.
THEOREM OneClient == Spec => []OneVoiceClient
<1>1. Init => EdgeInv
  BY DEF Init, EdgeInv, OneVoiceClient, Admitted, ClientStates
<1>2. EdgeInv => OneVoiceClient
  BY DEF EdgeInv
<1>3. QED
  BY <1>1, <1>2, EdgeStep, PTL DEF Spec

-----------------------------------------------------------------------------
(* The service. *)

\* The variables that the invariant is about.
served == <<queue, phase, caller, answer, heard, session, known, texts, work, sink, spoke, home>>

\* A step that leaves them alone preserves it.
LEMMA ServedSame == ServiceInv /\ UNCHANGED served => ServiceInv'
BY DEF served, ServiceInv, Types, QueueInv, WorkInv, LastInv, HeardIsOwn, SpokenIsAnswered

\* A caller gives up, or all callers of a client do.
LEMMA CallersGone ==
  ASSUME ServiceInv, caller' \in [Calls -> {"idle", "waiting", "gone", "over"}],
         \A c \in Calls : caller'[c] = caller[c] \/ (caller[c] = "waiting" /\ caller'[c] = "gone"),
         UNCHANGED <<queue, phase, answer, heard, session, known, texts, work, sink, spoke, home>>
  PROVE  ServiceInv'
<1>1. \A i \in 1 .. Len(queue) : queue[i] \in Calls
  BY DEF ServiceInv, Types
<1>2. QED
  BY <1>1 DEF ServiceInv, Types, QueueInv, WorkInv, LastInv, HeardIsOwn, SpokenIsAnswered

\* What is left when the head of the queue goes.
LEMMA QueueRest ==
  ASSUME ServiceInv, queue # <<>>, queue' = Tail(queue)
  PROVE  /\ Running = queue[1] /\ Running \in Calls /\ 1 \in 1 .. Len(queue)
         /\ queue' \in Seq(Calls)
         /\ \A i \in 1 .. Len(queue') : /\ i + 1 \in 1 .. Len(queue) /\ i + 1 # 1
                                        /\ queue'[i] = queue[i + 1]
                                        /\ queue'[i] \in Calls \ {Running}
<1>1. queue \in Seq(Calls) /\ Len(queue) \in Nat \ {0}
  BY DEF ServiceInv, Types
<1>2. /\ Tail(queue) \in Seq(Calls) /\ Len(Tail(queue)) = Len(queue) - 1
      /\ \A i \in 1 .. Len(Tail(queue)) : Tail(queue)[i] = queue[i + 1]
  BY <1>1, HeadTailProperties
<1>3. Running = queue[1] /\ Running \in Calls /\ 1 \in 1 .. Len(queue)
  BY <1>1 DEF Running
<1>4. ASSUME NEW i \in 1 .. Len(queue')
      PROVE  /\ i + 1 \in 1 .. Len(queue) /\ i + 1 # 1
             /\ queue'[i] = queue[i + 1]
             /\ queue'[i] \in Calls \ {Running}
  <2>1. i + 1 \in 1 .. Len(queue) /\ i + 1 # 1
    BY <1>1, <1>2
  <2>2. queue'[i] = queue[i + 1] /\ queue[i + 1] \in Calls
    BY <1>1, <1>2, <2>1
  <2>3. queue[i + 1] # queue[1]
    BY <1>3, <2>1 DEF ServiceInv, QueueInv
  <2>4. QED
    BY <1>3, <2>1, <2>2, <2>3
<1>5. QED
  BY <1>2, <1>3, <1>4

\* An operation ends, with words of its own or with none.
LEMMA FinishStep ==
  ASSUME ServiceInv, phase # "idle", NEW a \in Calls \cup {Task, Done, Failed, None}, Finish(a),
         Running \in spoke /\ a \in Calls => a = Running,
         heard' \in [Calls -> SUBSET (Calls \cup {Task})], HeardIsOwn',
         texts' \in [Sessions -> Seq(Calls)],
         work' = {}, sink' = None, UNCHANGED <<session, known, spoke, home>>
  PROVE  ServiceInv'
<1>1. queue # <<>>
  BY DEF ServiceInv, QueueInv
<1>2. /\ Running = queue[1] /\ Running \in Calls /\ queue' \in Seq(Calls)
      /\ \A i \in 1 .. Len(queue') : /\ i + 1 \in 1 .. Len(queue) /\ i + 1 # 1
                                     /\ queue'[i] = queue[i + 1]
                                     /\ queue'[i] \in Calls \ {Running}
  BY <1>1, QueueRest DEF Finish
<1>3. /\ answer' = [answer EXCEPT ![Running] = a] /\ phase' = "idle"
      /\ caller' = [caller EXCEPT ![Running] = "over"]
  BY DEF Finish
<1>4. Types'
  BY <1>2, <1>3 DEF ServiceInv, Types
<1>5. QueueInv'
  <2>1. \A i, j \in 1 .. Len(queue') : queue'[i] = queue'[j] => i = j
    <3> SUFFICES ASSUME NEW i \in 1 .. Len(queue'), NEW j \in 1 .. Len(queue'),
                        queue'[i] = queue'[j]
                 PROVE  i = j
      OBVIOUS
    <3>1. i + 1 = j + 1
      BY <1>2 DEF ServiceInv, QueueInv
    <3>2. QED
      BY <3>1
  <2>2. \A i \in 1 .. Len(queue') : /\ home'[queue'[i]] = session' /\ answer'[queue'[i]] = None
                                    /\ caller'[queue'[i]] # "idle"
    BY <1>2, <1>3 DEF ServiceInv, Types, QueueInv
  <2>3. \A c \in Calls : caller'[c] = "idle" => answer'[c] = None /\ c \notin spoke'
    BY <1>2, <1>3 DEF ServiceInv, Types, QueueInv
  <2>4. QED
    BY <1>3, <2>1, <2>2, <2>3 DEF QueueInv
<1>6. LastInv'
  BY <1>2 DEF ServiceInv, LastInv
<1>7. SpokenIsAnswered'
  BY <1>2, <1>3 DEF ServiceInv, Types, SpokenIsAnswered
<1>8. QED
  BY <1>4, <1>5, <1>6, <1>7 DEF ServiceInv, WorkInv

\* A call that is asked for waits behind the others, in the session that is current.
LEMMA AskStep ==
  ASSUME ServiceInv, NEW c \in Calls, NEW k, NEW v, Ask(c, k, v)
  PROVE  ServiceInv'
<1> USE DEF Ask, sessions, turn
<1>1. /\ queue \in Seq(Calls) /\ Len(queue) \in Nat
      /\ \A i \in 1 .. Len(queue) : queue[i] \in Calls /\ queue[i] # c
  <2>1. queue \in Seq(Calls) /\ caller[c] = "idle"
    BY DEF ServiceInv, Types
  <2>2. \A i \in 1 .. Len(queue) : queue[i] # c
    BY <2>1 DEF ServiceInv, QueueInv
  <2>3. QED
    BY <2>1, <2>2
<1>2. /\ queue' \in Seq(Calls) /\ queue' # <<>> /\ Len(queue') = Len(queue) + 1
      /\ \A i \in 1 .. Len(queue) : queue'[i] = queue[i]
      /\ queue'[Len(queue) + 1] = c
  BY <1>1, AppendProperties
<1>3. \A i \in 1 .. Len(queue') : i \in 1 .. Len(queue) \/ (i = Len(queue) + 1 /\ queue'[i] = c)
  BY <1>1, <1>2
<1>4. /\ Types'
      /\ caller'[c] = "waiting" /\ home'[c] = session' /\ answer'[c] = None /\ c \notin spoke'
      /\ \A d \in Calls \ {c} : caller'[d] = caller[d] /\ home'[d] = home[d]
  BY <1>2 DEF ServiceInv, Types, QueueInv
<1>5. QueueInv'
  <2>1. \A i, j \in 1 .. Len(queue') : queue'[i] = queue'[j] => i = j
    BY <1>1, <1>2, <1>3 DEF ServiceInv, QueueInv
  <2>2. \A i \in 1 .. Len(queue') : /\ home'[queue'[i]] = session' /\ answer'[queue'[i]] = None
                                    /\ caller'[queue'[i]] # "idle"
    BY <1>1, <1>2, <1>3, <1>4 DEF ServiceInv, QueueInv
  <2>3. QED
    BY <1>2, <1>4, <2>1, <2>2 DEF ServiceInv, QueueInv
<1>6. phase # "idle" => 1 \in 1 .. Len(queue) /\ queue'[1] = queue[1]
  BY <1>1, <1>2 DEF ServiceInv, QueueInv
<1>7. WorkInv'
  BY <1>6 DEF ServiceInv, WorkInv
<1>8. LastInv'
  BY <1>2, <1>3, <1>4, <1>6 DEF ServiceInv, LastInv
<1>9. QED
  BY <1>4, <1>5, <1>7, <1>8 DEF ServiceInv, HeardIsOwn, SpokenIsAnswered

\* An operation starts: nothing was at work, and nothing that waits has said anything.
LEMMA StartStep ==
  ASSUME ServiceInv, GoRemote \/ Bind \/ Prompt \/ Compact
  PROVE  ServiceInv'
<1>1. queue # <<>> /\ phase \in {"idle", "binding"}
  BY DEF ServiceInv, QueueInv, GoRemote, Bind, Prompt, Compact, Ready
<1>2. /\ UNCHANGED <<queue, caller, answer, heard, session, known, texts, spoke, home>>
      /\ phase' # "idle"
      /\ \/ UNCHANGED <<work, sink>> /\ phase' # "prompt"
         \/ /\ phase' = "prompt" /\ work' = work \cup {Running}
            /\ sink' \in {Running, None}
  <2>1. UNCHANGED <<queue, caller, answer, heard, session, known, texts, spoke, home>>
    BY DEF GoRemote, Bind, Prompt, Compact, callers, sessions, history
  <2>2. phase' # "idle"
    BY DEF GoRemote, Bind, Prompt, Compact
  <2>3. \/ UNCHANGED <<work, sink>> /\ phase' # "prompt"
        \/ /\ phase' = "prompt" /\ work' = work \cup {Running}
           /\ sink' \in {Running, None}
    BY DEF GoRemote, Bind, Prompt, Compact, turn
  <2>4. QED
    BY <2>1, <2>2, <2>3
<1>3. Running = queue[1] /\ Running \in Calls
  BY <1>1 DEF ServiceInv, Types, Running
<1>4. work = {} /\ sink = None
  BY <1>1 DEF ServiceInv, WorkInv
<1>5. \A i \in 1 .. Len(queue) : queue[i] \notin spoke
  BY <1>1 DEF ServiceInv, LastInv
<1>6. Types' /\ QueueInv'
  BY <1>1, <1>2, <1>3, <1>4 DEF ServiceInv, Types, QueueInv
<1>7. WorkInv'
  BY <1>2, <1>3, <1>4 DEF WorkInv
<1>8. LastInv'
  BY <1>2, <1>5 DEF LastInv
<1>9. QED
  BY <1>2, <1>6, <1>7, <1>8 DEF ServiceInv, HeardIsOwn, SpokenIsAnswered

\* The four ways an operation ends.
LEMMA EndStep ==
  ASSUME ServiceInv, BindFails \/ TurnEnds \/ RemoteEnds \/ CompactEnds
  PROVE  ServiceInv'
<1> USE VoiceAssumption DEF sessions, turn, history
<1>1. CASE BindFails
  BY <1>1, FinishStep DEF BindFails, ServiceInv, Types, WorkInv, HeardIsOwn
<1>2. CASE TurnEnds
  <2> DEFINE a == IF timedOut \/ texts[session] = <<>> THEN Failed ELSE AssistantText(session)
  <2>1. phase = "prompt" /\ queue # <<>> /\ 1 \in 1 .. Len(queue) /\ Running = queue[1]
    BY <1>2 DEF TurnEnds, ServiceInv, Types, QueueInv, Running
  <2>2. a \in Calls \cup {Failed}
    BY DEF ServiceInv, Types, AssistantText
  <2>3. Running \in spoke /\ a \in Calls => a = Running
    BY <2>1 DEF ServiceInv, LastInv, AssistantText
  <2>4. Finish(a) /\ work' = {} /\ sink' = None
    BY <1>2 DEF TurnEnds
  <2>5. UNCHANGED <<heard, session, known, texts, spoke, home>>
    BY <1>2 DEF TurnEnds
  <2> HIDE DEF a
  <2>6. QED
    BY <2>1, <2>2, <2>3, <2>4, <2>5, FinishStep DEF ServiceInv, Types, HeardIsOwn
<1>3. CASE RemoteEnds
  <2>1. phase = "remote" /\ work' = {} /\ sink' = None
    BY <1>3 DEF RemoteEnds, ServiceInv, WorkInv
  <2>2. UNCHANGED <<session, known, texts, spoke, home>>
    BY <1>3 DEF RemoteEnds
  <2>3. PICK a \in {Task, Failed} : Finish(a)
    BY <1>3 DEF RemoteEnds
  <2>4. heard' \in [Calls -> SUBSET (Calls \cup {Task})] /\ HeardIsOwn'
    <3>1. /\ heard \in [Calls -> SUBSET (Calls \cup {Task})]
          /\ \A c \in Calls : heard[c] \subseteq {c, Task}
      BY DEF ServiceInv, Types, HeardIsOwn
    <3>2. \/ heard' = [heard EXCEPT ![Running] =
                          IF kind[Running] = "voice" THEN @ \cup {Task} ELSE @]
          \/ UNCHANGED heard
      BY <1>3 DEF RemoteEnds
    <3>3. \A c \in Calls : heard'[c] \in SUBSET {c, Task}
      BY <3>1, <3>2
    <3>4. heard' \in [Calls -> SUBSET (Calls \cup {Task})]
      BY <3>1, <3>2
    <3>5. QED
      BY <3>3, <3>4 DEF HeardIsOwn
  <2>5. QED
    BY <2>1, <2>2, <2>3, <2>4, FinishStep DEF ServiceInv, Types
<1>4. CASE CompactEnds
  <2>1. phase = "compacting" /\ work' = {} /\ sink' = None
    BY <1>4 DEF CompactEnds, ServiceInv, WorkInv
  <2>2. UNCHANGED <<heard, session, known, spoke, home>>
    BY <1>4 DEF CompactEnds
  <2>3. PICK a \in {Done, Failed} : Finish(a)
    BY <1>4 DEF CompactEnds
  <2>4. texts' \in [Sessions -> Seq(Calls)]
    <3>1. ASSUME NEW n \in 1 .. Len(texts[session]) + 1
          PROVE  SubSeq(texts[session], n, Len(texts[session])) \in Seq(Calls)
      BY SubSeqProperties DEF ServiceInv, Types
    <3>2. \/ \E n \in 1 .. Len(texts[session]) + 1 :
               texts' = [texts EXCEPT ![session] = SubSeq(@, n, Len(@))]
          \/ UNCHANGED texts
      BY <1>4 DEF CompactEnds
    <3>3. texts \in [Sessions -> Seq(Calls)]
      BY DEF ServiceInv, Types
    <3>4. QED
      BY <3>1, <3>2, <3>3
  <2>5. QED
    BY <2>1, <2>2, <2>3, <2>4, FinishStep DEF ServiceInv, Types, HeardIsOwn
<1>5. QED
  BY <1>1, <1>2, <1>3, <1>4

\* What the model says goes to the end of the session, and to the turn it is at work on.
LEMMA SpeakStep == ServiceInv /\ Speak => ServiceInv'
<1> SUFFICES ASSUME ServiceInv, Speak PROVE ServiceInv'
  OBVIOUS
<1>1. PICK c \in work \ spoke :
        /\ texts' = [texts EXCEPT ![session] = Append(@, c)]
        /\ spoke' = spoke \cup {c}
        /\ heard' = [d \in Calls |-> IF d = sink THEN heard[d] \cup {c} ELSE heard[d]]
  BY DEF Speak
<1>2. UNCHANGED <<queue, phase, caller, answer, session, known, work, sink, home>>
  BY DEF Speak, executor, turn
<1>3. /\ c \in Calls /\ c = queue[1] /\ phase = "prompt" /\ queue # <<>> /\ c \notin spoke
      /\ sink \in {c, None}
  BY <1>1 DEF ServiceInv, Types, WorkInv, QueueInv
<1>4. 1 \in 1 .. Len(queue)
  BY <1>3 DEF ServiceInv, Types
<1>5. /\ Append(texts[session], c) \in Seq(Calls) /\ Append(texts[session], c) # <<>>
      /\ Append(texts[session], c)[Len(Append(texts[session], c))] = c
  <2>1. texts[session] \in Seq(Calls)
    BY DEF ServiceInv, Types
  <2>2. QED
    BY <1>3, <2>1, AppendProperties
<1>6. texts' \in [Sessions -> Seq(Calls)] /\ texts'[session] = Append(texts[session], c)
  BY <1>1, <1>5 DEF ServiceInv, Types
<1>7. heard' \in [Calls -> SUBSET (Calls \cup {Task})] /\ HeardIsOwn'
  BY <1>1, <1>3, VoiceAssumption DEF ServiceInv, Types, HeardIsOwn
<1>8. Types'
  BY <1>1, <1>2, <1>3, <1>6, <1>7 DEF ServiceInv, Types
<1>9. QueueInv'
  BY <1>1, <1>2, <1>3, <1>4 DEF ServiceInv, QueueInv
<1>10. LastInv'
  BY <1>1, <1>2, <1>3, <1>4, <1>5, <1>6 DEF ServiceInv, QueueInv, LastInv
<1>11. SpokenIsAnswered'
  BY <1>1, <1>2, <1>3, <1>4, VoiceAssumption DEF ServiceInv, QueueInv, SpokenIsAnswered
<1>12. QED
  BY <1>2, <1>7, <1>8, <1>9, <1>10, <1>11 DEF ServiceInv, WorkInv

\* The session is changed when nothing waits.
LEMMA SessionStep == ServiceInv /\ PiSessions => ServiceInv'
<1> SUFFICES ASSUME ServiceInv, PiSessions PROVE ServiceInv'
  OBVIOUS
<1>1. /\ queue = <<>> /\ session' \in Sessions /\ known' \subseteq Sessions
      /\ UNCHANGED <<queue, phase, caller, answer, heard, texts, work, sink, spoke, home>>
  BY DEF PiSessions, StartFresh, Resume, Busy, ServiceInv, Types, callers, executor, turn,
         history
<1>2. work = {} /\ sink = None
  BY <1>1 DEF ServiceInv, QueueInv, WorkInv
<1>3. 1 .. Len(queue) = {}
  BY <1>1
<1>4. Types' /\ QueueInv' /\ LastInv'
  BY <1>1, <1>3 DEF ServiceInv, Types, QueueInv, LastInv
<1>5. QED
  BY <1>1, <1>2, <1>4 DEF ServiceInv, WorkInv, HeardIsOwn, SpokenIsAnswered

\* A restart answers all that waits with an error, and forgets it.
LEMMA RestartStep == ServiceInv /\ Restart => ServiceInv'
<1> SUFFICES ASSUME ServiceInv, Restart PROVE ServiceInv'
  OBVIOUS
<1>1. /\ answer' = [c \in Calls |-> IF Queued(c) THEN Failed ELSE answer[c]]
      /\ caller' = [c \in Calls |-> IF Queued(c) THEN "over" ELSE caller[c]]
      /\ queue' = <<>> /\ phase' = "idle" /\ work' = {} /\ sink' = None
      /\ session' \in known
      /\ UNCHANGED <<heard, known, texts, spoke, home>>
  BY DEF Restart, history
<1>2. Types'
  BY <1>1 DEF ServiceInv, Types
<1>3. 1 .. Len(queue') = {}
  BY <1>1
<1>4. QueueInv'
  BY <1>1, <1>3 DEF ServiceInv, Types, QueueInv
<1>5. SpokenIsAnswered'
  BY <1>1, VoiceAssumption DEF ServiceInv, Types, SpokenIsAnswered
<1>6. QED
  BY <1>1, <1>2, <1>3, <1>4, <1>5 DEF ServiceInv, WorkInv, LastInv, HeardIsOwn

\* Every step preserves the invariant of the service.
LEMMA ServiceStep == ServiceInv /\ [Next]_vars => ServiceInv'
<1> SUFFICES ASSUME ServiceInv, [Next]_vars PROVE ServiceInv'
  OBVIOUS
<1>1. ASSUME NEW c \in Calls, AskTyped(c) \/ AskCompact(c) PROVE ServiceInv'
  BY <1>1, AskStep DEF AskTyped, AskCompact
<1>2. ASSUME NEW c \in Calls, NEW v \in Clients, AskSpoken(c, v) PROVE ServiceInv'
  BY <1>2, AskStep DEF AskSpoken
<1>3. ASSUME NEW c \in Calls, GiveUp(c) PROVE ServiceInv'
  <2>1. /\ caller' = [caller EXCEPT ![c] = "gone"] /\ caller[c] = "waiting"
        /\ UNCHANGED <<queue, phase, answer, heard, session, known, texts, work, sink, spoke, home>>
    BY <1>3 DEF GiveUp, executor, sessions, history
  <2>2. QED
    BY <2>1, CallersGone DEF ServiceInv, Types
<1>4. ASSUME NEW v \in Clients, Leave(v) PROVE ServiceInv'
  <2>1. /\ caller' = [c \in Calls |-> IF by[c] = v /\ caller[c] = "waiting" THEN "gone"
                                      ELSE caller[c]]
        /\ UNCHANGED <<queue, phase, answer, heard, session, known, texts, work, sink, spoke, home>>
    BY <1>4 DEF Leave, executor, sessions, history
  <2>2. QED
    BY <2>1, CallersGone DEF ServiceInv, Types
<1>5. CASE Abort \/ Attach \/ Expire \/ TaskCloses
  BY <1>5, ServedSame DEF Abort, Attach, Expire, TaskCloses, served, callers, executor,
                          sessions, turn, history
<1>6. CASE ModelStops
  BY <1>6 DEF ModelStops, callers, executor, sessions, history, ServiceInv, Types, QueueInv,
              WorkInv, LastInv, HeardIsOwn, SpokenIsAnswered
<1>7. CASE Operation
  BY <1>7, StartStep, EndStep DEF Operation
<1>8. ASSUME NEW v \in Clients, Connect(v) \/ Disconnect(v) \/ Detach(v) PROVE ServiceInv'
  BY <1>8, ServedSame DEF Connect, Disconnect, Detach, served, callers, executor, sessions,
                          turn, history
<1>9. CASE UNCHANGED vars
  BY <1>9, ServedSame DEF vars, served, callers, executor, sessions, turn, history
<1>10. QED
  BY <1>1, <1>2, <1>3, <1>4, <1>5, <1>6, <1>7, <1>8, <1>9, SpeakStep, SessionStep, RestartStep
     DEF Next

\* The queue, the words and the answers of the service stay in order, for any number of turns,
\* clients and sessions.
THEOREM ServiceInvariance == Spec => []ServiceInv
<1>1. Init => ServiceInv
  BY VoiceAssumption DEF Init, ServiceInv, Types, QueueInv, WorkInv, LastInv, HeardIsOwn,
                         SpokenIsAnswered
<1>2. QED
  BY <1>1, ServiceStep, PTL DEF Spec

\* A streamed turn is sent its own words only, whatever was aborted or given up before it.
THEOREM OwnWords == Spec => []HeardIsOwn
<1>1. ServiceInv => HeardIsOwn
  BY DEF ServiceInv
<1>2. QED
  BY <1>1, ServiceInvariance, PTL

\* assistantText finds the words of the turn that ends, if there are any.
THEOREM OwnAnswer == Spec => []SpokenIsAnswered
<1>1. ServiceInv => SpokenIsAnswered
  BY DEF ServiceInv
<1>2. QED
  BY <1>1, ServiceInvariance, PTL

\* No change of session comes between a turn's request and its end.
THEOREM OwnSession == Spec => []SessionKept
<1>1. ServiceInv => SessionKept
  <2> SUFFICES ASSUME ServiceInv, phase \in {"binding", "prompt", "compacting"}
               PROVE  session = home[Running]
    BY DEF SessionKept
  <2>1. queue # <<>> /\ queue \in Seq(Calls)
    BY DEF ServiceInv, Types, QueueInv
  <2>2. Running = queue[1] /\ 1 \in 1 .. Len(queue)
    BY <2>1 DEF Running
  <2>3. QED
    BY <2>2 DEF ServiceInv, QueueInv
<1>2. QED
  BY <1>1, ServiceInvariance, PTL

-----------------------------------------------------------------------------
(* PresentationStream. *)

\* A set of numbers that is not empty has a least one.
LEMMA Least ==
  ASSUME NEW T \in SUBSET Nat, T # {}
  PROVE  \E m \in T : \A k \in T : m <= k
<1> DEFINE R == {ss \in Nat \X Nat : ss[1] < ss[2]}
<1>1. IsWellFoundedOn(R, Nat)
  BY NatLessThanWellFounded DEF OpToRel
<1>2. PICK x \in T : \A y \in T : ~ (<<y, x>> \in R)
  BY <1>1, WFMin
<1>3. ASSUME NEW y \in T PROVE x <= y
  <2>1. y \in Nat /\ x \in Nat /\ ~(<<y, x>> \in R)
    BY <1>2
  <2> QED BY <2>1
<1> QED BY <1>3

\* A set that holds a number whenever it holds those below it holds every number.
LEMMA FromBelow ==
  ASSUME NEW T, \A n \in Nat : (\A m \in 0 .. n - 1 : m \in T) => n \in T
  PROVE  \A n \in Nat : n \in T
<1>1. SUFFICES ASSUME Nat \ T # {} PROVE FALSE
  OBVIOUS
<1>2. PICK n \in Nat \ T : \A k \in Nat \ T : n <= k
  BY <1>1, Least
<1>3. \A m \in 0 .. n - 1 : m \in T
  BY <1>2
<1> QED
  BY <1>2, <1>3

-----------------------------------------------------------------------------
(* The extractor reads a text character by character. *)

\* The states of the extractor are the function their recursive definition describes.
LEMMA DecodingIs ==
  ASSUME NEW e, NEW text \in Seq(Characters)
  PROVE  Decoding(e, text) = [i \in 0 .. Len(text) |->
           IF i = 0 THEN e ELSE Character(Decoding(e, text)[i - 1], text[i])]
<1> DEFINE Is(g, n) == g = [i \in 0 .. n |-> IF i = 0 THEN e ELSE Character(g[i - 1], text[i])]
           T == {n \in Nat : \E g : Is(g, n)}
           state[i \in 0 .. Len(text)] == IF i = 0 THEN e ELSE Character(state[i - 1], text[i])
<1>1. ASSUME NEW n \in Nat, \A m \in 0 .. n - 1 : m \in T
      PROVE  n \in T
  <2>1. CASE n = 0
    <3>1. Is([i \in 0 .. n |-> e], n)
      BY <2>1
    <3> QED
      BY <3>1
  <2>2. CASE n > 0
    <3>1. n - 1 \in T
      <4> HIDE DEF T
      <4>1. n - 1 \in 0 .. n - 1
        BY <2>2
      <4> QED
        BY <1>1, <4>1
    <3>2. PICK f : Is(f, n - 1)
      BY <3>1
    <3> DEFINE g == [i \in 0 .. n |-> IF i = n THEN Character(f[n - 1], text[n]) ELSE f[i]]
    <3> HIDE DEF Is
    <3>3. ASSUME NEW i \in 0 .. n
          PROVE  g[i] = IF i = 0 THEN e ELSE Character(g[i - 1], text[i])
      <4>1. f = [j \in 0 .. n - 1 |-> IF j = 0 THEN e ELSE Character(f[j - 1], text[j])]
        BY <3>2 DEF Is
      <4>2. CASE i = n
        <5>1. n - 1 \in 0 .. n /\ n - 1 # n /\ n \in 0 .. n
          BY <2>2
        <5>2. g[n - 1] = f[n - 1] /\ g[n] = Character(f[n - 1], text[n])
          BY <5>1
        <5> QED
          BY <4>2, <5>2, <2>2
      <4>3. CASE i # n
        <5>1. i \in 0 .. n - 1 /\ g[i] = f[i]
          BY <4>3
        <5>2. f[i] = IF i = 0 THEN e ELSE Character(f[i - 1], text[i])
          BY <4>1, <5>1
        <5>3. i # 0 => g[i - 1] = f[i - 1]
          BY <5>1
        <5> QED
          BY <5>1, <5>2, <5>3
      <4> QED
        BY <4>2, <4>3
    <3>4. Is(g, n)
      BY <3>3 DEF Is
    <3> QED
      BY <3>4
  <2> QED
    BY <2>1, <2>2
<1>2. \E g : Is(g, Len(text))
  <2> HIDE DEF T
  <2>1. Len(text) \in T
    BY <1>1, FromBelow, LenProperties
  <2> QED
    BY <2>1 DEF T
<1> HIDE DEF state
<1>3. state = CHOOSE g : Is(g, Len(text))
  BY DEF state
<1>4. Is(state, Len(text))
  <2> HIDE DEF Is
  <2> QED
    BY <1>2, <1>3
<1> QED
  BY <1>4 DEF Decoding, state

\* The extractor's first state, and each one from the one before.
LEMMA DecodingSteps ==
  ASSUME NEW e, NEW text \in Seq(Characters)
  PROVE  /\ Decoding(e, text)[0] = e
         /\ \A i \in 1 .. Len(text) :
              Decoding(e, text)[i] = Character(Decoding(e, text)[i - 1], text[i])
<1> DEFINE d == Decoding(e, text)
<1>1. d = [i \in 0 .. Len(text) |-> IF i = 0 THEN e ELSE Character(d[i - 1], text[i])]
  BY DecodingIs
<1>2. 0 \in 0 .. Len(text) /\ \A i \in 1 .. Len(text) : i \in 0 .. Len(text) /\ i # 0
  BY LenProperties
<1> HIDE DEF d
<1>3. /\ d[0] = e
      /\ \A i \in 1 .. Len(text) : d[i] = Character(d[i - 1], text[i])
  BY <1>1, <1>2
<1> QED
  BY <1>3 DEF d

\* What goes from one state to the next as the extractor does is its states.
LEMMA DecodingOnly ==
  ASSUME NEW e, NEW text \in Seq(Characters), NEW f, f[0] = e,
         \A i \in 1 .. Len(text) : f[i] = Character(f[i - 1], text[i])
  PROVE  \A i \in 0 .. Len(text) : f[i] = Decoding(e, text)[i]
<1> DEFINE d == Decoding(e, text)
           T == {i \in Nat : i \in 0 .. Len(text) => f[i] = d[i]}
<1>1. ASSUME NEW n \in Nat, \A m \in 0 .. n - 1 : m \in T
      PROVE  n \in T
  <2>1. CASE n = 0
    BY <2>1, DecodingSteps
  <2>2. CASE n > 0 /\ n \in 1 .. Len(text)
    <3> HIDE DEF T
    <3>1. n - 1 \in 0 .. n - 1
      BY <2>2
    <3>2. n - 1 \in T
      BY <1>1, <3>1
    <3>3. f[n - 1] = d[n - 1]
      BY <3>2, <2>2, LenProperties DEF T
    <3>4. f[n] = d[n]
      BY <3>3, <2>2, DecodingSteps
    <3> QED
      BY <3>4 DEF T
  <2>3. CASE n > 0 /\ n \notin 1 .. Len(text)
    BY <2>3
  <2> QED
    BY <2>1, <2>2, <2>3
<1> HIDE DEF T
<1>2. \A n \in Nat : n \in T
  BY <1>1, FromBelow
<1> QED
  BY <1>2 DEF T

\* A text cut in two is decoded part by part.
LEMMA DecodeConcat ==
  ASSUME NEW e, NEW s \in Seq(Characters), NEW t \in Seq(Characters)
  PROVE  Decode(e, s \o t) = Decode(Decode(e, s), t)
<1>1. SUFFICES ASSUME NEW text \in Seq(Characters), text = s \o t
               PROVE  Decode(e, text) = Decode(Decode(e, s), t)
  BY ConcatProperties
<1>2. /\ Len(text) = Len(s) + Len(t) /\ Len(s) \in Nat /\ Len(t) \in Nat
      /\ \A i \in 1 .. Len(s) : text[i] = s[i]
      /\ \A i \in 1 .. Len(t) : text[Len(s) + i] = t[i]
  BY <1>1, ConcatProperties, LenProperties
<1> DEFINE g == Decoding(e, text)
           f == [i \in 0 .. Len(t) |-> g[Len(s) + i]]
<1>3. /\ g[0] = e
      /\ \A i \in 1 .. Len(text) : g[i] = Character(g[i - 1], text[i])
  BY DecodingSteps
<1> HIDE DEF g
<1>4. \A i \in 1 .. Len(s) : g[i] = Character(g[i - 1], s[i])
  BY <1>2, <1>3
<1>5. \A i \in 0 .. Len(s) : g[i] = Decoding(e, s)[i]
  BY <1>3, <1>4, DecodingOnly
<1>6. g[Len(s)] = Decode(e, s)
  BY <1>2, <1>5 DEF Decode
<1>7. f[0] = Decode(e, s)
  BY <1>2, <1>6
<1>8. ASSUME NEW i \in 1 .. Len(t)
      PROVE  f[i] = Character(f[i - 1], t[i])
  <2>1. Len(s) + i \in 1 .. Len(text) /\ (Len(s) + i) - 1 = Len(s) + (i - 1)
    BY <1>2
  <2>2. g[Len(s) + i] = Character(g[Len(s) + (i - 1)], t[i])
    BY <1>2, <1>3, <2>1
  <2>3. f[i] = g[Len(s) + i] /\ f[i - 1] = g[Len(s) + (i - 1)]
    BY <1>2
  <2> QED
    BY <2>2, <2>3
<1>9. f[Len(t)] = g[Len(text)]
  BY <1>2
<1> HIDE DEF f
<1>10. \A i \in 0 .. Len(t) : f[i] = Decoding(Decode(e, s), t)[i]
  BY <1>7, <1>8, DecodingOnly
<1>11. g[Len(text)] = Decode(Decode(e, s), t)
  BY <1>2, <1>9, <1>10 DEF Decode
<1> QED
  BY <1>11 DEF Decode, g

\* An empty text changes nothing.
LEMMA DecodeEmpty ==
  ASSUME NEW e
  PROVE  Decode(e, <<>>) = e
<1>1. <<>> \in Seq(Characters) /\ Len(<<>>) = 0
  BY EmptySeq
<1> QED
  BY <1>1, DecodingSteps DEF Decode

\* A text of one character.
LEMMA Single ==
  ASSUME NEW S, NEW c \in S
  PROVE  <<c>> \in Seq(S) /\ Len(<<c>>) = 1 /\ <<c>>[1] = c
OBVIOUS

\* A text of one character is decoded in one step.
LEMMA DecodeOne ==
  ASSUME NEW e, NEW c \in Characters
  PROVE  Decode(e, <<c>>) = Character(e, c)
<1>1. SUFFICES ASSUME NEW text \in Seq(Characters), Len(text) = 1, text[1] = c
               PROVE  Decode(e, text) = Character(e, c)
  BY Single
<1>2. 1 - 1 = 0 /\ 1 \in 1 .. 1
  OBVIOUS
<1>3. /\ Decoding(e, text)[0] = e
      /\ \A i \in 1 .. Len(text) :
           Decoding(e, text)[i] = Character(Decoding(e, text)[i - 1], text[i])
  BY DecodingSteps
<1> QED
  BY <1>1, <1>2, <1>3 DEF Decode

\* A part of a sequence.
LEMMA Cut ==
  ASSUME NEW S, NEW seq \in Seq(S), NEW i \in 1 .. Len(seq) + 1, NEW n \in i - 1 .. Len(seq)
  PROVE  /\ SubSeq(seq, i, n) \in Seq(S)
         /\ Len(SubSeq(seq, i, n)) = n - i + 1
         /\ \A k \in 1 .. n - i + 1 : SubSeq(seq, i, n)[k] = seq[i + k - 1]
<1>1. Len(seq) \in Nat /\ \A k \in 1 .. Len(seq) : seq[k] \in S
  BY LenProperties, ElementOfSeq
<1>2. i \in Int /\ n \in Int /\ \A k \in i .. n : seq[k] \in S
  BY <1>1
<1>3. /\ SubSeq(seq, i, n) \in Seq(S)
      /\ Len(SubSeq(seq, i, n)) = IF i <= n THEN n - i + 1 ELSE 0
      /\ \A k \in 1 .. n - i + 1 : SubSeq(seq, i, n)[k] = seq[i + k - 1]
  BY <1>2, SubSeqProperties
<1> QED
  BY <1>1, <1>3

\* A text is decoded from its first character on.
LEMMA DecodeFirst ==
  ASSUME NEW e, NEW text \in Seq(Characters), NEW i \in 1 .. Len(text)
  PROVE  Decode(e, SubSeq(text, i, Len(text)))
           = Decode(Character(e, text[i]), SubSeq(text, i + 1, Len(text)))
<1> DEFINE rest == SubSeq(text, i + 1, Len(text))
<1>1. text[i] \in Characters /\ Len(text) \in Nat
  BY ElementOfSeq, LenProperties
<1>2. rest \in Seq(Characters) /\ <<text[i]>> \in Seq(Characters)
  BY <1>1, Cut
<1>3. SubSeq(text, i, Len(text)) = <<text[i]>> \o rest
  BY <1>1, SubSeqRecursiveFirst
<1> HIDE DEF rest
<1>4. Decode(e, <<text[i]>> \o rest) = Decode(Decode(e, <<text[i]>>), rest)
  BY <1>2, DecodeConcat
<1>5. Decode(e, <<text[i]>>) = Character(e, text[i])
  BY <1>1, DecodeOne
<1> QED
  BY <1>3, <1>4, <1>5 DEF rest

Digits == {d \in Seq(Characters) : Len(d) < HexDigits} \cup {Null}
States == [finished : BOOLEAN, escaped : BOOLEAN, digits : Digits, out : Seq(Symbols)]

\* The state with o spoken before.
Said(o, e) == State(e.finished, e.escaped, e.digits, o \o e.out)

\* What characters and escapes stand for can be spoken.
LEMMA Spellings ==
  /\ Characters \subseteq Symbols
  /\ \A c \in Characters : Unescaped(c) \in Symbols
  /\ \A d : Decoded(d) \in Symbols
BY DEF Symbols, Characters, Unescaped, Decoded

\* Speaking one more after what was spoken before.
LEMMA AppendSaid ==
  ASSUME NEW s \in Seq(Symbols), NEW t \in Seq(Symbols), NEW c \in Symbols
  PROVE  /\ Append(t, c) \in Seq(Symbols)
         /\ s \o Append(t, c) = Append(s \o t, c)
<1>1. SUFFICES ASSUME NEW x \in Seq(Symbols), x = <<c>>
               PROVE  /\ Append(t, c) \in Seq(Symbols)
                      /\ s \o Append(t, c) = Append(s \o t, c)
  BY Single
<1>2. s \o t \in Seq(Symbols)
  BY ConcatProperties
<1>3. Append(t, c) = t \o x /\ Append(s \o t, c) = (s \o t) \o x /\ Append(t, c) \in Seq(Symbols)
  BY <1>1, <1>2, AppendIsConcat, AppendProperties
<1>4. s \o (t \o x) = (s \o t) \o x
  BY ConcatAssociative
<1> QED
  BY <1>3, <1>4

\* The fields of a state.
LEMMA Fields ==
  ASSUME NEW f, NEW x, NEW d, NEW o
  PROVE  /\ State(f, x, d, o).finished = f /\ State(f, x, d, o).escaped = x
         /\ State(f, x, d, o).digits = d /\ State(f, x, d, o).out = o
BY DEF State

\* The fields of a state have their types, and it has no others.
LEMMA StateOf ==
  ASSUME NEW e \in States
  PROVE  /\ e.finished \in BOOLEAN /\ e.escaped \in BOOLEAN
         /\ e.digits \in Digits /\ e.out \in Seq(Symbols)
         /\ e = State(e.finished, e.escaped, e.digits, e.out)
BY DEF States, State

\* Fields of the right types make a state.
LEMMA StateIn ==
  ASSUME NEW f \in BOOLEAN, NEW x \in BOOLEAN, NEW d \in Digits, NEW o \in Seq(Symbols)
  PROVE  State(f, x, d, o) \in States
BY DEF States, State

\* A character takes a state of the extractor to a state.
LEMMA CharacterStays ==
  ASSUME NEW e \in States, NEW c \in Characters
  PROVE  Character(e, c) \in States
<1>1. /\ e.finished \in BOOLEAN /\ e.escaped \in BOOLEAN
      /\ e.digits \in Digits /\ e.out \in Seq(Symbols)
  BY StateOf
<1>2. Null \in Digits /\ <<>> \in Digits /\ (e.digits # Null => e.digits \in Seq(Characters))
  BY <1>1, EmptySeq, StreamAssumption DEF Digits
<1>3. e.digits # Null /\ Len(e.digits) + 1 < HexDigits => Append(e.digits, c) \in Digits
  <2>1. e.digits # Null => /\ Append(e.digits, c) \in Seq(Characters)
                           /\ Len(Append(e.digits, c)) = Len(e.digits) + 1
    BY <1>2, AppendProperties
  <2> QED
    BY <2>1 DEF Digits
<1>4. /\ c \in Symbols /\ Unescaped(c) \in Symbols
      /\ \A d : Decoded(d) \in Symbols
  BY Spellings
<1>5. \A y \in Symbols : Append(e.out, y) \in Seq(Symbols)
  BY <1>1, AppendProperties
<1>6. \A y \in Symbols : Adding(e, y) \in States
  BY <1>1, <1>2, <1>5, StateIn DEF Adding
<1>7. \A d \in Digits : Escaping(e, d) \in States
  BY <1>1, StateIn DEF Escaping
<1>8. Ending(e) \in States
  BY <1>1, <1>2, StateIn DEF Ending
<1>9. e.digits # Null => Hex(e, c) \in States
  BY <1>3, <1>4, <1>6, <1>7 DEF Hex
<1> QED
  BY <1>2, <1>4, <1>6, <1>7, <1>8, <1>9 DEF Character

\* What a character does is independent of what was decoded before it.
LEMMA CharacterSaid ==
  ASSUME NEW e \in States, NEW c \in Characters, NEW o \in Seq(Symbols)
  PROVE  Character(Said(o, e), c) = Said(o, Character(e, c))
<1> DEFINE s == Said(o, e)
<1>1. /\ s.finished = e.finished /\ s.escaped = e.escaped /\ s.digits = e.digits
      /\ s.out = o \o e.out /\ e.out \in Seq(Symbols)
  BY StateOf, Spellings DEF Said, State
<1>2. /\ c \in Symbols /\ Unescaped(c) \in Symbols
      /\ \A d : Decoded(d) \in Symbols
  BY Spellings
<1>3. \A y \in Symbols : o \o Append(e.out, y) = Append(o \o e.out, y)
  BY <1>1, AppendSaid
<1> HIDE DEF s
<1>5. ASSUME NEW y \in Symbols
      PROVE  Adding(s, y) = Said(o, Adding(e, y))
  <2>1. o \o Append(e.out, y) = Append(o \o e.out, y)
    BY <1>1, <1>3
  <2> QED
    BY <1>1, <2>1 DEF Adding, Said, State
<1>6. ASSUME NEW d
      PROVE  Escaping(s, d) = Said(o, Escaping(e, d))
  BY <1>1 DEF Escaping, Said, State
<1>7. Ending(s) = Said(o, Ending(e))
  BY <1>1 DEF Ending, Said, State
<1>8. Hex(s, c) = Said(o, Hex(e, c))
  BY <1>1, <1>2, <1>5, <1>6 DEF Hex
<1>9. CASE e.finished
  BY <1>1, <1>9 DEF Character, s
<1>10. CASE ~e.finished
  BY <1>1, <1>2, <1>5, <1>6, <1>7, <1>8, <1>10 DEF Character, s
<1> QED
  BY <1>9, <1>10

\* So does a text.
LEMMA DecodingStays ==
  ASSUME NEW e \in States, NEW text \in Seq(Characters)
  PROVE  \A i \in 0 .. Len(text) : Decoding(e, text)[i] \in States
<1> DEFINE d == Decoding(e, text)
           T == {i \in Nat : i \in 0 .. Len(text) => d[i] \in States}
<1>1. ASSUME NEW n \in Nat, \A m \in 0 .. n - 1 : m \in T
      PROVE  n \in T
  <2>1. CASE n = 0
    BY <2>1, DecodingSteps
  <2>2. CASE n > 0 /\ n \in 1 .. Len(text)
    <3> HIDE DEF T
    <3>1. n - 1 \in 0 .. n - 1
      BY <2>2
    <3>2. n - 1 \in T
      BY <1>1, <3>1
    <3>3. d[n - 1] \in States
      BY <3>2, <2>2, LenProperties DEF T
    <3>4. d[n] = Character(d[n - 1], text[n]) /\ text[n] \in Characters
      BY <2>2, DecodingSteps, ElementOfSeq
    <3>5. d[n] \in States
      BY <3>3, <3>4, CharacterStays
    <3> QED
      BY <3>5 DEF T
  <2>3. CASE n > 0 /\ n \notin 1 .. Len(text)
    BY <2>3
  <2> QED
    BY <2>1, <2>2, <2>3
<1> HIDE DEF T
<1>2. \A n \in Nat : n \in T
  BY <1>1, FromBelow
<1> QED
  BY <1>2 DEF T

\* A text takes a state of the extractor to a state.
LEMMA DecodeStays ==
  ASSUME NEW e \in States, NEW text \in Seq(Characters)
  PROVE  Decode(e, text) \in States
BY DecodingStays, LenProperties DEF Decode

\* What a text adds is independent of what was decoded before it.
LEMMA DecodeSaid ==
  ASSUME NEW e \in States, NEW text \in Seq(Characters), NEW o \in Seq(Symbols)
  PROVE  Decode(Said(o, e), text) = Said(o, Decode(e, text))
<1> DEFINE d == Decoding(e, text)
           f == [i \in 0 .. Len(text) |-> Said(o, d[i])]
<1>1. Len(text) \in Nat /\ \A i \in 1 .. Len(text) : text[i] \in Characters
  BY LenProperties, ElementOfSeq
<1>2. /\ d[0] = e
      /\ \A i \in 1 .. Len(text) : d[i] = Character(d[i - 1], text[i])
      /\ \A i \in 0 .. Len(text) : d[i] \in States
  BY DecodingSteps, DecodingStays
<1> HIDE DEF d
<1>3. f[0] = Said(o, e)
  BY <1>1, <1>2
<1>4. ASSUME NEW i \in 1 .. Len(text)
      PROVE  f[i] = Character(f[i - 1], text[i])
  <2>1. i - 1 \in 0 .. Len(text) /\ i \in 0 .. Len(text)
    BY <1>1
  <2>2. Character(Said(o, d[i - 1]), text[i]) = Said(o, Character(d[i - 1], text[i]))
    BY <1>1, <1>2, <2>1, CharacterSaid
  <2> QED
    BY <1>2, <2>1, <2>2
<1>5. f[Len(text)] = Said(o, d[Len(text)])
  BY <1>1
<1> HIDE DEF f
<1>6. \A i \in 0 .. Len(text) : f[i] = Decoding(Said(o, e), text)[i]
  BY <1>3, <1>4, DecodingOnly
<1> QED
  BY <1>1, <1>5, <1>6 DEF Decode, d

\* Nothing is decoded after the quote that ends the string.
LEMMA DecodeFinished ==
  ASSUME NEW e, e.finished, NEW text \in Seq(Characters)
  PROVE  Decode(e, text) = e
<1> DEFINE f == [i \in 0 .. Len(text) |-> e]
<1>1. Len(text) \in Nat
  BY LenProperties
<1>2. f[0] = e /\ f[Len(text)] = e
  BY <1>1
<1>3. \A i \in 1 .. Len(text) : f[i] = Character(f[i - 1], text[i])
  BY <1>1 DEF Character
<1> HIDE DEF f
<1>4. \A i \in 0 .. Len(text) : f[i] = Decoding(e, text)[i]
  BY <1>2, <1>3, DecodingOnly
<1> QED
  BY <1>1, <1>2, <1>4 DEF Decode

-----------------------------------------------------------------------------
(* Where the key is found. *)

\* The first end of a key.
LEMMA KeyEndIs ==
  ASSUME NEW text \in Seq(Characters)
  PROVE  \/ /\ KeyEnd(text) = 0
            /\ \A j \in 1 .. Len(text), i \in 1 .. Len(text) : ~KeyAt(text, i, j)
         \/ /\ KeyEnd(text) \in 1 .. Len(text)
            /\ \E i \in 1 .. KeyEnd(text) : KeyAt(text, i, KeyEnd(text))
            /\ \A j \in 1 .. KeyEnd(text) - 1, i \in 1 .. Len(text) : ~KeyAt(text, i, j)
<1> DEFINE ends == {j \in 1 .. Len(text) : \E i \in 1 .. j : KeyAt(text, i, j)}
<1>1. Len(text) \in Nat /\ ends \in SUBSET Nat
  BY LenProperties
<1>2. \A j \in 1 .. Len(text), i \in 1 .. Len(text) : KeyAt(text, i, j) => j \in ends
  BY <1>1 DEF KeyAt
<1>3. CASE ends = {}
  <2>1. KeyEnd(text) = 0
    BY <1>3 DEF KeyEnd
  <2> HIDE DEF ends
  <2> QED
    BY <2>1, <1>2, <1>3
<1>4. CASE ends # {}
  <2> HIDE DEF ends
  <2>1. \E j \in ends : \A k \in ends : j <= k
    BY <1>1, <1>4, Least
  <2>2. KeyEnd(text) = CHOOSE j \in ends : \A k \in ends : j <= k
    BY <1>4 DEF KeyEnd, ends
  <2>3. KeyEnd(text) \in ends /\ \A k \in ends : KeyEnd(text) <= k
    BY <2>1, <2>2
  <2>4. /\ KeyEnd(text) \in 1 .. Len(text)
        /\ \E i \in 1 .. KeyEnd(text) : KeyAt(text, i, KeyEnd(text))
    BY <2>3 DEF ends
  <2>5. ASSUME NEW j \in 1 .. KeyEnd(text) - 1, NEW i \in 1 .. Len(text), KeyAt(text, i, j)
        PROVE  FALSE
    <3>1. j \in 1 .. Len(text)
      BY <1>1, <2>4
    <3>2. j \in ends
      BY <1>2, <2>5, <3>1
    <3> QED
      BY <2>3, <2>4, <2>5, <3>2
  <2> QED
    BY <2>4, <2>5
<1> QED
  BY <1>3, <1>4

\* Where a text is a part of another one, d further on, the keys are the same.
LEMMA KeyAtShift ==
  ASSUME NEW s \in Seq(Characters), NEW t \in Seq(Characters), NEW d \in Nat,
         \A k \in 1 .. Len(s) : s[k] = t[d + k],
         NEW i \in 1 .. Len(s), NEW j \in 1 .. Len(s)
  PROVE  KeyAt(s, i, j) <=> KeyAt(t, d + i, d + j)
<1>1. Len(s) \in Nat
  BY LenProperties
<1>2. s[i] = t[d + i] /\ s[j] = t[d + j] /\ (i < j <=> d + i < d + j)
  BY <1>1
<1>3. ASSUME KeyAt(s, i, j), NEW k \in d + i + 1 .. d + j - 1
      PROVE  t[k] = "W"
  <2>1. k - d \in i + 1 .. j - 1 /\ k - d \in 1 .. Len(s) /\ d + (k - d) = k
    BY <1>1
  <2>2. s[k - d] = t[k] /\ s[k - d] = "W"
    BY <1>3, <2>1 DEF KeyAt
  <2> QED
    BY <2>2
<1>4. ASSUME KeyAt(t, d + i, d + j), NEW k \in i + 1 .. j - 1
      PROVE  s[k] = "W"
  <2>1. d + k \in d + i + 1 .. d + j - 1 /\ k \in 1 .. Len(s)
    BY <1>1
  <2>2. s[k] = t[d + k] /\ t[d + k] = "W"
    BY <1>4, <2>1 DEF KeyAt
  <2> QED
    BY <2>2
<1> QED
  BY <1>2, <1>3, <1>4 DEF KeyAt

\* A key found stays the first one as the text grows, and the first one of the
\* text is that of its beginning if it ends there.
LEMMA KeyEndGrows ==
  ASSUME NEW s \in Seq(Characters), NEW t \in Seq(Characters), Len(s) <= Len(t),
         \A k \in 1 .. Len(s) : s[k] = t[k]
  PROVE  /\ KeyEnd(s) # 0 => KeyEnd(t) = KeyEnd(s)
         /\ KeyEnd(t) # 0 /\ KeyEnd(t) <= Len(s) => KeyEnd(t) = KeyEnd(s)
<1>1. Len(s) \in Nat /\ Len(t) \in Nat
  BY LenProperties
<1>2. ASSUME NEW i \in 1 .. Len(s), NEW j \in 1 .. Len(s)
      PROVE  KeyAt(s, i, j) <=> KeyAt(t, i, j)
  <2>1. \A k \in 1 .. Len(s) : s[k] = t[0 + k]
    BY <1>1
  <2>2. 0 \in Nat /\ 0 + i = i /\ 0 + j = j
    BY <1>1
  <2>3. KeyAt(s, i, j) <=> KeyAt(t, 0 + i, 0 + j)
    BY <2>1, <2>2, KeyAtShift
  <2> QED
    BY <2>2, <2>3
<1>3. ASSUME KeyEnd(s) # 0
      PROVE  KeyEnd(t) = KeyEnd(s)
  <2>1. /\ KeyEnd(s) \in 1 .. Len(s)
        /\ \A j \in 1 .. KeyEnd(s) - 1, i \in 1 .. Len(s) : ~KeyAt(s, i, j)
    BY <1>3, KeyEndIs
  <2>2. PICK i \in 1 .. KeyEnd(s) : KeyAt(s, i, KeyEnd(s))
    BY <1>3, KeyEndIs
  <2>3. i \in 1 .. Len(s)
    BY <1>1, <2>1
  <2>4. KeyAt(t, i, KeyEnd(s)) /\ KeyEnd(s) \in 1 .. Len(t) /\ i \in 1 .. Len(t)
    BY <1>1, <1>2, <2>1, <2>2, <2>3
  <2>5. KeyEnd(t) # 0
    BY <2>4, KeyEndIs
  <2>6. KeyEnd(t) \in 1 .. Len(t) /\ KeyEnd(t) <= KeyEnd(s)
    BY <1>1, <2>4, <2>5, KeyEndIs
  <2>7. PICK k \in 1 .. KeyEnd(t) : KeyAt(t, k, KeyEnd(t))
    BY <2>5, KeyEndIs
  <2>8. KeyEnd(t) \in 1 .. Len(s) /\ k \in 1 .. Len(s)
    BY <1>1, <2>1, <2>6
  <2>9. KeyAt(s, k, KeyEnd(t))
    BY <1>2, <2>7, <2>8
  <2>10. ~(KeyEnd(t) \in 1 .. KeyEnd(s) - 1)
    BY <2>1, <2>8, <2>9
  <2> QED
    BY <1>1, <2>1, <2>6, <2>10
<1>4. ASSUME KeyEnd(t) # 0, KeyEnd(t) <= Len(s)
      PROVE  KeyEnd(s) # 0
  <2>1. KeyEnd(t) \in 1 .. Len(t)
    BY <1>4, KeyEndIs
  <2>2. PICK i \in 1 .. KeyEnd(t) : KeyAt(t, i, KeyEnd(t))
    BY <1>4, KeyEndIs
  <2>3. KeyEnd(t) \in 1 .. Len(s) /\ i \in 1 .. Len(s)
    BY <1>1, <1>4, <2>1
  <2>4. KeyAt(s, i, KeyEnd(t))
    BY <1>2, <2>2, <2>3
  <2> QED
    BY <2>3, <2>4, KeyEndIs
<1> QED
  BY <1>3, <1>4

\* Sequences of the same length and elements are equal.
LEMMA SameSeq ==
  ASSUME NEW S, NEW s \in Seq(S), NEW t \in Seq(S), Len(s) = Len(t),
         \A k \in 1 .. Len(s) : s[k] = t[k]
  PROVE  s = t
BY SeqEqual

\* The end of a text, and the place before it.
LEMMA LastIs ==
  ASSUME NEW text \in Seq(Characters)
  PROVE  \E d \in Nat :
           /\ d = IF Len(text) < Window THEN 0 ELSE Len(text) - Window
           /\ LastOf(text, Window) \in Seq(Characters)
           /\ Len(text) = d + Len(LastOf(text, Window))
           /\ \A k \in 1 .. Len(LastOf(text, Window)) : LastOf(text, Window)[k] = text[d + k]
<1>1. Len(text) \in Nat /\ Window \in Nat
  BY LenProperties, StreamAssumption
<1> DEFINE d == IF Len(text) < Window THEN 0 ELSE Len(text) - Window
<1>2. d \in Nat /\ d + 1 \in 1 .. Len(text) + 1 /\ Len(text) \in d + 1 - 1 .. Len(text)
  BY <1>1
<1>3. LastOf(text, Window) = SubSeq(text, d + 1, Len(text))
  BY <1>1 DEF LastOf
<1> HIDE DEF d
<1>4. /\ SubSeq(text, d + 1, Len(text)) \in Seq(Characters)
      /\ Len(SubSeq(text, d + 1, Len(text))) = Len(text) - (d + 1) + 1
      /\ \A k \in 1 .. Len(text) - (d + 1) + 1 :
           SubSeq(text, d + 1, Len(text))[k] = text[d + 1 + k - 1]
  BY <1>2, Cut
<1>5. /\ LastOf(text, Window) \in Seq(Characters)
      /\ Len(text) = d + Len(LastOf(text, Window))
      /\ \A k \in 1 .. Len(LastOf(text, Window)) : LastOf(text, Window)[k] = text[d + k]
  BY <1>1, <1>2, <1>3, <1>4
<1> QED
  BY <1>2, <1>5 DEF d

\* A text w is the end of t, d characters shorter.
Cuts(w, t, d) ==
  Len(t) = d + Len(w) /\ \A k \in 1 .. Len(w) : w[k] = t[d + k]

\* What follows a place in the end of a text follows it in the text.
LEMMA CutsAlike ==
  ASSUME NEW w \in Seq(Characters), NEW t \in Seq(Characters), NEW d \in Nat, Cuts(w, t, d),
         NEW i \in 1 .. Len(w) + 1
  PROVE  SubSeq(w, i, Len(w)) = SubSeq(t, d + i, Len(t))
<1>1. Len(w) \in Nat /\ Len(t) \in Nat /\ Len(t) = d + Len(w)
  BY LenProperties DEF Cuts
<1>2. /\ SubSeq(w, i, Len(w)) \in Seq(Characters)
      /\ Len(SubSeq(w, i, Len(w))) = Len(w) - i + 1
      /\ \A k \in 1 .. Len(w) - i + 1 : SubSeq(w, i, Len(w))[k] = w[i + k - 1]
  <2>1. Len(w) \in i - 1 .. Len(w)
    BY <1>1
  <2> QED
    BY <2>1, Cut
<1>3. /\ SubSeq(t, d + i, Len(t)) \in Seq(Characters)
      /\ Len(SubSeq(t, d + i, Len(t))) = Len(t) - (d + i) + 1
      /\ \A k \in 1 .. Len(t) - (d + i) + 1 : SubSeq(t, d + i, Len(t))[k] = t[d + i + k - 1]
  <2>1. d + i \in 1 .. Len(t) + 1 /\ Len(t) \in d + i - 1 .. Len(t)
    BY <1>1
  <2> QED
    BY <2>1, Cut
<1>4. Len(w) - i + 1 = Len(t) - (d + i) + 1
  BY <1>1
<1>5. ASSUME NEW k \in 1 .. Len(w) - i + 1
      PROVE  w[i + k - 1] = t[d + i + k - 1]
  <2>1. i + k - 1 \in 1 .. Len(w) /\ d + (i + k - 1) = d + i + k - 1
    BY <1>1
  <2> QED
    BY <2>1 DEF Cuts
<1> DEFINE a == SubSeq(w, i, Len(w))
           b == SubSeq(t, d + i, Len(t))
<1> HIDE DEF a, b
<1>6. a \in Seq(Characters) /\ b \in Seq(Characters) /\ Len(a) = Len(b)
  BY <1>2, <1>3, <1>4 DEF a, b
<1>7. \A k \in 1 .. Len(a) : a[k] = b[k]
  BY <1>2, <1>3, <1>4, <1>5 DEF a, b
<1>8. a = b
  BY <1>6, <1>7, SameSeq
<1> QED
  BY <1>8 DEF a, b

\* A text that begins with another one.
Begins(r, t) == Len(r) <= Len(t) /\ \A k \in 1 .. Len(r) : r[k] = t[k]

\* The key is found at the end of a text as in the whole of it, unless it begins
\* too early; r is what was read before, without a key.
LEMMA EndFinds ==
  ASSUME NEW r \in Seq(Characters), NEW t \in Seq(Characters), NEW w \in Seq(Characters),
         NEW d \in Nat, KeyEnd(r) = 0, KeyFits(t), Cuts(w, t, d),
         Begins(r, t), d = 0 \/ d + Window = Len(r)
  PROVE  /\ KeyEnd(w) = 0 <=> KeyEnd(t) = 0
         /\ KeyEnd(t) # 0 => KeyEnd(w) \in 1 .. Len(w) /\ KeyEnd(t) = d + KeyEnd(w)
<1>1. /\ Len(r) \in Nat /\ Len(w) \in Nat /\ Len(t) \in Nat /\ Window \in Nat
      /\ Len(t) = d + Len(w) /\ Len(r) <= Len(t)
  BY LenProperties, StreamAssumption DEF Cuts, Begins
<1>7. \A i, j \in 1 .. Len(w) : KeyAt(w, i, j) <=> KeyAt(t, d + i, d + j)
  BY KeyAtShift DEF Cuts
<1>8. ASSUME KeyEnd(w) # 0
      PROVE  KeyEnd(t) # 0 /\ KeyEnd(t) <= d + KeyEnd(w)
  <2>1. KeyEnd(w) \in 1 .. Len(w)
    BY <1>8, KeyEndIs
  <2>2. PICK i \in 1 .. KeyEnd(w) : KeyAt(w, i, KeyEnd(w))
    BY <1>8, KeyEndIs
  <2>3. KeyAt(t, d + i, d + KeyEnd(w)) /\ d + i \in 1 .. Len(t) /\ d + KeyEnd(w) \in 1 .. Len(t)
    BY <1>1, <1>7, <2>1, <2>2
  <2>4. KeyEnd(t) # 0
    BY <2>3, KeyEndIs
  <2>5. KeyEnd(t) \in 1 .. Len(t) /\ ~(d + KeyEnd(w) \in 1 .. KeyEnd(t) - 1)
    BY <2>3, <2>4, KeyEndIs
  <2> QED
    BY <1>1, <2>1, <2>4, <2>5
<1>9. ASSUME KeyEnd(t) # 0
      PROVE  KeyEnd(w) # 0 /\ KeyEnd(t) = d + KeyEnd(w)
  <2>1. KeyEnd(t) \in 1 .. Len(t)
    BY <1>9, KeyEndIs
  <2>2. PICK i \in 1 .. KeyEnd(t) : KeyAt(t, i, KeyEnd(t))
    BY <1>9, KeyEndIs
  <2>3. KeyEnd(t) > Len(r)
    <3>1. KeyEnd(t) # 0 /\ KeyEnd(t) <= Len(r) => KeyEnd(t) = KeyEnd(r)
      BY <1>1, KeyEndGrows DEF Begins
    <3> QED
      BY <1>1, <1>9, <2>1, <3>1
  <2>4. KeyEnd(t) - i < Window /\ i \in 1 .. Len(t)
    BY <1>1, <2>1, <2>2 DEF KeyFits
  <2>5. i > d
    BY <1>1, <2>1, <2>2, <2>3, <2>4
  <2>6. PICK m \in 1 .. Len(w), n \in 1 .. Len(w) : d + m = i /\ d + n = KeyEnd(t)
    <3>1. i \in Int /\ KeyEnd(t) \in Int /\ i <= KeyEnd(t) /\ KeyEnd(t) <= Len(t)
      BY <1>1, <2>1
    <3>2. i - d \in 1 .. Len(w) /\ d + (i - d) = i
      BY <1>1, <2>5, <3>1
    <3>3. KeyEnd(t) - d \in 1 .. Len(w) /\ d + (KeyEnd(t) - d) = KeyEnd(t)
      BY <1>1, <2>5, <3>1
    <3> QED
      BY <3>2, <3>3
  <2>7. KeyAt(w, m, n)
    BY <1>7, <2>2, <2>6
  <2>8. KeyEnd(w) # 0
    BY <2>6, <2>7, KeyEndIs
  <2>9. KeyEnd(w) \in 1 .. Len(w) /\ ~(n \in 1 .. KeyEnd(w) - 1)
    BY <2>6, <2>7, <2>8, KeyEndIs
  <2>10. KeyEnd(t) <= d + KeyEnd(w)
    BY <1>8, <2>8
  <2>11. KeyEnd(w) \in Nat /\ n \in Nat /\ n >= KeyEnd(w) /\ d + n <= d + KeyEnd(w)
    BY <1>1, <2>6, <2>9, <2>10
  <2>12. n = KeyEnd(w)
    BY <2>11
  <2> QED
    BY <2>6, <2>8, <2>12
<1>10. KeyEnd(w) # 0 => KeyEnd(w) \in 1 .. Len(w)
  BY KeyEndIs
<1> QED
  BY <1>8, <1>9, <1>10

\* What the extractor keeps of a text is enough to find the key in what comes next.
LEMMA WindowFinds ==
  ASSUME NEW r \in Seq(Characters), NEW c \in Seq(Characters), KeyEnd(r) = 0,
         KeyFits(r \o c)
  PROVE  LET t == r \o c
             w == LastOf(r, Window) \o c
         IN /\ w \in Seq(Characters)
            /\ KeyEnd(w) = 0 <=> KeyEnd(t) = 0
            /\ KeyEnd(t) # 0 => SubSeq(w, KeyEnd(w) + 1, Len(w)) = SubSeq(t, KeyEnd(t) + 1, Len(t))
            /\ LastOf(w, Window) = LastOf(t, Window)
<1>1. PICK d \in Nat :
        /\ d = IF Len(r) < Window THEN 0 ELSE Len(r) - Window
        /\ LastOf(r, Window) \in Seq(Characters)
        /\ Len(r) = d + Len(LastOf(r, Window))
        /\ \A k \in 1 .. Len(LastOf(r, Window)) : LastOf(r, Window)[k] = r[d + k]
  BY LastIs
<1>2. SUFFICES ASSUME NEW l \in Seq(Characters), l = LastOf(r, Window),
                      NEW t \in Seq(Characters), t = r \o c,
                      NEW w \in Seq(Characters), w = l \o c
               PROVE  /\ KeyEnd(w) = 0 <=> KeyEnd(t) = 0
                      /\ KeyEnd(t) # 0 =>
                           SubSeq(w, KeyEnd(w) + 1, Len(w)) = SubSeq(t, KeyEnd(t) + 1, Len(t))
                      /\ LastOf(w, Window) = LastOf(t, Window)
  <2>1. r \o c \in Seq(Characters) /\ LastOf(r, Window) \o c \in Seq(Characters)
    BY <1>1, ConcatProperties
  <2> QED
    BY <1>1, <2>1
<1>3. /\ Len(r) \in Nat /\ Len(c) \in Nat /\ Len(l) \in Nat /\ Window \in Nat
      /\ Len(w) \in Nat /\ Len(t) \in Nat
  BY LenProperties, StreamAssumption
<1>4. /\ Len(t) = Len(r) + Len(c) /\ Len(w) = Len(l) + Len(c)
      /\ \A k \in 1 .. Len(r) : t[k] = r[k]
      /\ \A k \in 1 .. Len(c) : t[Len(r) + k] = c[k]
      /\ \A k \in 1 .. Len(l) : w[k] = l[k]
      /\ \A k \in 1 .. Len(c) : w[Len(l) + k] = c[k]
  BY <1>2, ConcatProperties
<1>5. /\ Len(r) = d + Len(l) /\ \A k \in 1 .. Len(l) : l[k] = r[d + k]
      /\ d = 0 \/ d + Window = Len(r)
      /\ d = 0 \/ Len(l) = Window
  BY <1>1, <1>2, <1>3
<1>6. ASSUME NEW k \in 1 .. Len(w)
      PROVE  w[k] = t[d + k]
  <2>1. CASE k <= Len(l)
    <3>1. k \in 1 .. Len(l) /\ d + k \in 1 .. Len(r)
      BY <1>3, <1>5, <2>1
    <3> QED
      BY <1>4, <1>5, <3>1
  <2>2. CASE k > Len(l)
    <3>1. k \in Int /\ k <= Len(l) + Len(c)
      BY <1>3, <1>4
    <3>2. PICK m \in 1 .. Len(c) : Len(l) + m = k
      <4>1. k - Len(l) \in 1 .. Len(c) /\ Len(l) + (k - Len(l)) = k
        BY <1>3, <2>2, <3>1
      <4> QED
        BY <4>1
    <3>3. d + k = Len(r) + m
      <4>1. m \in Int /\ k = Len(l) + m
        BY <1>3, <3>2
      <4>2. Len(r) = d + Len(l) /\ d \in Int /\ Len(l) \in Int
        BY <1>3, <1>5
      <4> QED
        BY <4>1, <4>2
    <3>4. w[Len(l) + m] = c[m] /\ t[Len(r) + m] = c[m]
      BY <1>4, Zenon
    <3> QED
      BY <3>2, <3>3, <3>4, Zenon
  <2> QED
    BY <1>3, <2>1, <2>2
<1>7. Cuts(w, t, d)
  BY <1>3, <1>4, <1>5, <1>6 DEF Cuts
<1>8. Begins(r, t)
  BY <1>3, <1>4 DEF Begins
<1>9. KeyFits(t)
  BY <1>2
<1>10. /\ KeyEnd(w) = 0 <=> KeyEnd(t) = 0
       /\ KeyEnd(t) # 0 => KeyEnd(w) \in 1 .. Len(w) /\ KeyEnd(t) = d + KeyEnd(w)
  BY <1>5, <1>7, <1>8, <1>9, EndFinds
<1>11. ASSUME KeyEnd(t) # 0
       PROVE  SubSeq(w, KeyEnd(w) + 1, Len(w)) = SubSeq(t, KeyEnd(t) + 1, Len(t))
  <2>1. KeyEnd(w) + 1 \in 1 .. Len(w) + 1 /\ d + (KeyEnd(w) + 1) = KeyEnd(t) + 1
    BY <1>3, <1>10, <1>11
  <2>2. SubSeq(w, KeyEnd(w) + 1, Len(w)) = SubSeq(t, d + (KeyEnd(w) + 1), Len(t))
    BY <1>7, <2>1, CutsAlike
  <2> QED
    BY <2>1, <2>2
<1>12. LastOf(w, Window) = LastOf(t, Window)
  <2>1. CASE d = 0
    <3>1. Len(w) = Len(t) /\ \A k \in 1 .. Len(w) : w[k] = t[k]
      BY <1>3, <1>4, <1>5, <1>6, <2>1
    <3>2. w = t
      BY <3>1, SameSeq
    <3> QED
      BY <3>2
  <2>2. CASE Len(l) = Window
    <3>1. Len(w) - Window + 1 \in 1 .. Len(w) + 1 /\ Len(t) >= Window /\ Len(w) >= Window
          /\ d + (Len(w) - Window + 1) = Len(t) - Window + 1
      BY <1>3, <1>4, <1>5, <2>2
    <3>2. SubSeq(w, Len(w) - Window + 1, Len(w))
            = SubSeq(t, d + (Len(w) - Window + 1), Len(t))
      BY <1>7, <3>1, CutsAlike
    <3>3. /\ LastOf(w, Window) = SubSeq(w, Len(w) - Window + 1, Len(w))
          /\ LastOf(t, Window) = SubSeq(t, Len(t) - Window + 1, Len(t))
      <4>1. ~(Len(w) < Window) /\ ~(Len(t) < Window)
        BY <1>3, <3>1
      <4> QED
        BY <4>1 DEF LastOf
    <3> QED
      BY <3>1, <3>2, <3>3
  <2> QED
    BY <1>5, <2>1, <2>2
<1> QED
  BY <1>10, <1>11, <1>12

-----------------------------------------------------------------------------
(* The extractor decodes a JSON string as JSON reads it. *)

\* A unit of a JSON string is not empty.
LEMMA AfterIs ==
  ASSUME NEW body \in Seq(Characters), NEW i \in 1 .. Len(body)
  PROVE  After(body, i) \in Nat /\ After(body, i) > i
BY StreamAssumption, LenProperties DEF After

\* The place behind a well-formed unit is one of the body's.
LEMMA UnitsIs ==
  ASSUME NEW body \in Seq(Characters)
  PROVE  Units(body) = [i \in 1 .. Len(body) + 1 |->
           IF i > Len(body) THEN Null
           ELSE IF body[i] = "q"
             THEN [out |-> <<>>, rest |-> SubSeq(body, i + 1, Len(body))]
           ELSE IF ~WellFormed(body, i) \/ Units(body)[After(body, i)] = Null THEN Null
           ELSE [out |-> <<Unit(body, i)>> \o Units(body)[After(body, i)].out,
                 rest |-> Units(body)[After(body, i)].rest]]
<1> DEFINE L == Len(body)
           Places == 1 .. L + 1
           E(f, i) ==
             IF i > Len(body) THEN Null
             ELSE IF body[i] = "q"
               THEN [out |-> <<>>, rest |-> SubSeq(body, i + 1, Len(body))]
             ELSE IF ~WellFormed(body, i) \/ f[After(body, i)] = Null THEN Null
             ELSE [out |-> <<Unit(body, i)>> \o f[After(body, i)].out,
                   rest |-> f[After(body, i)].rest]
           Is(f, n) == /\ f = [i \in Places |-> f[i]]
                       /\ \A i \in Places : i > L + 1 - n => f[i] = E(f, i)
           T == {n \in Nat : n <= L + 1 => \E f : Is(f, n)}
           from[i \in 1 .. Len(body) + 1] ==
             IF i > Len(body) THEN Null
             ELSE IF body[i] = "q"
               THEN [out |-> <<>>, rest |-> SubSeq(body, i + 1, Len(body))]
             ELSE IF ~WellFormed(body, i) \/ from[After(body, i)] = Null THEN Null
             ELSE [out |-> <<Unit(body, i)>> \o from[After(body, i)].out,
                   rest |-> from[After(body, i)].rest]
<1> HIDE DEF from
<1>1. L \in Nat
  BY LenProperties
<1>2. ASSUME NEW f, NEW g, NEW i \in Places, \A j \in Places : j > i => f[j] = g[j]
      PROVE  E(f, i) = E(g, i)
  <2>1. CASE i > Len(body) \/ ~WellFormed(body, i)
    BY <2>1
  <2>2. CASE i <= Len(body) /\ WellFormed(body, i)
    <3>1. After(body, i) \in Places /\ After(body, i) > i
      BY <1>1, <2>2, AfterIs DEF WellFormed
    <3>2. f[After(body, i)] = g[After(body, i)]
      BY <1>2, <3>1
    <3> QED
      BY <3>2
  <2> QED
    BY <1>1, <2>1, <2>2
<1> HIDE DEF E
<1>3. ASSUME NEW n \in Nat, \A m \in 0 .. n - 1 : m \in T
      PROVE  n \in T
  <2>1. CASE n = 0
    <3>1. Is([i \in Places |-> Null], 0)
      BY <1>1
    <3> QED
      BY <2>1, <3>1
  <2>2. CASE n > 0 /\ n <= L + 1
    <3>1. PICK f : Is(f, n - 1)
      <4> HIDE DEF T, Is
      <4>1. n - 1 \in 0 .. n - 1 /\ n - 1 <= L + 1
        BY <1>1, <2>2
      <4>2. n - 1 \in T
        BY <1>3, <4>1
      <4> QED
        BY <4>1, <4>2 DEF T
    <3> DEFINE k == L + 1 - n
               p == k + 1
               g == [i \in Places |-> IF i = p THEN E(f, p) ELSE f[i]]
    <3>2. p \in Places /\ \A i \in Places : i > k <=> i = p \/ i > L + 1 - (n - 1)
      BY <1>1, <2>2
    <3>3. \A j \in Places : j > p => g[j] = f[j]
      BY <1>1
    <3>4. g[p] = E(f, p) /\ \A i \in Places : i # p => g[i] = f[i]
      BY <3>2
    <3>5. g = [i \in Places |-> g[i]]
      OBVIOUS
    <3> HIDE DEF g, p, k
    <3>6. ASSUME NEW i \in Places, i > k
          PROVE  g[i] = E(g, i)
      <4>1. i = p \/ i > L + 1 - (n - 1)
        BY <3>2, <3>6
      <4>2. E(g, i) = E(f, i)
        <5>1. \A j \in Places : j > i => g[j] = f[j]
          BY <1>1, <3>3, <4>1, <2>2 DEF p, k
        <5> QED
          BY <1>2, <5>1
      <4>3. CASE i = p
        BY <3>4, <4>2, <4>3
      <4>4. CASE i # p
        <5>1. f[i] = E(f, i)
          BY <3>1, <4>1, <4>4
        <5> QED
          BY <3>4, <4>2, <4>4, <5>1
      <4> QED
        BY <4>3, <4>4
    <3>7. Is(g, n)
      BY <3>5, <3>6 DEF k
    <3> QED
      BY <3>7
  <2>3. CASE n > L + 1
    BY <1>1, <2>3
  <2> QED
    BY <1>1, <2>1, <2>2, <2>3
<1>4. \E f : Is(f, L + 1)
  <2> HIDE DEF T, Is
  <2>1. L + 1 \in T /\ L + 1 \in Nat
    BY <1>1, <1>3, FromBelow
  <2> QED
    BY <1>1, <2>1 DEF T
<1>5. PICK f : Is(f, L + 1)
  BY <1>4
<1>6. f = [i \in Places |-> E(f, i)]
  <2>1. f = [i \in Places |-> f[i]]
    BY <1>5
  <2>2. \A i \in Places : f[i] = E(f, i)
    BY <1>1, <1>5
  <2> HIDE DEF Places
  <2> QED
    BY <2>1, <2>2
<1>7. from = CHOOSE g : g = [i \in Places |-> E(g, i)]
  BY DEF from, E
<1>8. from = [i \in Places |-> E(from, i)]
  BY <1>6, <1>7
<1> QED
  BY <1>8 DEF Units, from, E

Plain == State(FALSE, FALSE, Null, <<>>)
InHex(d) == State(FALSE, TRUE, d, <<>>)
Spoke(c) == State(FALSE, FALSE, Null, <<c>>)

\* The fields of the state outside an escape.
LEMMA PlainIs ==
  /\ Plain.finished = FALSE /\ Plain.escaped = FALSE /\ Plain.digits = Null
  /\ Plain.out = <<>>
BY DEF Plain, State

\* The fields of the state in an escape.
LEMMA InHexIs ==
  ASSUME NEW d
  PROVE  /\ InHex(d).finished = FALSE /\ InHex(d).escaped = TRUE /\ InHex(d).digits = d
         /\ InHex(d).out = <<>>
BY DEF InHex, State

\* The steps of an escape, from its backslash on.
LEMMA InHexMoves ==
  ASSUME NEW d, NEW a, NEW c
  PROVE  /\ Escaping(InHex(d), a) = InHex(a)
         /\ Escaping(Plain, a) = InHex(a)
         /\ Adding(InHex(d), c) = Spoke(c)
         /\ Adding(Plain, c) = Spoke(c)
<1>1. Append(<<>>, c) = <<c>>
  OBVIOUS
<1>2. InHex(d).out = <<>> /\ Plain.out = <<>>
  BY InHexIs, PlainIs
<1> QED
  BY <1>1, <1>2, Zenon DEF Escaping, Adding, InHex, Spoke

\* Speaking something before a state.
LEMMA SaidIs ==
  ASSUME NEW f, NEW x, NEW d, NEW o, NEW s
  PROVE  Said(s, State(f, x, d, o)) = State(f, x, d, s \o o)
BY DEF Said, State

\* The part of a text from one place to the same place.
LEMMA PlaceAlone ==
  ASSUME NEW S, NEW s \in Seq(S), NEW i \in 1 .. Len(s)
  PROVE  SubSeq(s, i, i) = <<s[i]>>
<1>1. Len(s) \in Nat /\ i \in 1 .. Len(s) + 1 /\ i \in i - 1 .. Len(s)
  BY LenProperties
<1>2. /\ SubSeq(s, i, i) \in Seq(S) /\ Len(SubSeq(s, i, i)) = i - i + 1
      /\ \A k \in 1 .. i - i + 1 : SubSeq(s, i, i)[k] = s[i + k - 1]
  BY <1>1, Cut
<1>3. i - i + 1 = 1 /\ i + 1 - 1 = i /\ 1 \in 1 .. 1
  BY <1>1
<1>4. Len(SubSeq(s, i, i)) = 1 /\ SubSeq(s, i, i)[1] = s[i]
  BY <1>2, <1>3
<1>5. s[i] \in S
  BY ElementOfSeq
<1> DEFINE t == SubSeq(s, i, i)
           u == <<s[i]>>
<1>6. /\ t \in Seq(S) /\ Len(t) = 1 /\ t[1] = s[i]
      /\ u \in Seq(S) /\ Len(u) = 1 /\ u[1] = s[i]
  BY <1>2, <1>4, <1>5, Single
<1> HIDE DEF t, u
<1>7. \A k \in 1 .. Len(t) : t[k] = u[k]
  BY <1>6
<1>8. t = u
  BY <1>6, <1>7, SeqEqual
<1> QED
  BY <1>8 DEF t, u

\* The part of a text from one place on begins with the character there.
LEMMA PlaceFirst ==
  ASSUME NEW S, NEW s \in Seq(S), NEW i \in 1 .. Len(s), NEW j \in i + 1 .. Len(s)
  PROVE  SubSeq(s, i, j) = <<s[i]>> \o SubSeq(s, i + 1, j)
<1>1. Len(s) \in Nat /\ i \in Int /\ j \in Int /\ i <= j
  BY LenProperties
<1> QED
  BY <1>1, SubSeqRecursiveFirst

\* The digits that a complete escape still needs are read one by one.
LEMMA HexDecoded ==
  ASSUME NEW body \in Seq(Characters)
  PROVE  \A n \in Nat : \A d \in Seq(Characters), j \in 1 .. Len(body) + 1 :
           /\ n > 0 /\ Len(d) + n = HexDigits /\ j + n <= Len(body)
           => Decode(InHex(d), SubSeq(body, j, Len(body)))
                = Decode(Spoke(Decoded(d \o SubSeq(body, j, j + n - 1))),
                         SubSeq(body, j + n, Len(body)))
<1> DEFINE Reads(n, d, j) ==
             n > 0 /\ Len(d) + n = HexDigits /\ j + n <= Len(body)
           Same(n, d, j) ==
             Decode(InHex(d), SubSeq(body, j, Len(body)))
               = Decode(Spoke(Decoded(d \o SubSeq(body, j, j + n - 1))),
                        SubSeq(body, j + n, Len(body)))
           T == {n \in Nat : \A d \in Seq(Characters), j \in 1 .. Len(body) + 1 :
                               Reads(n, d, j) => Same(n, d, j)}
<1>1. ASSUME NEW n \in Nat, \A m \in 0 .. n - 1 : m \in T
      PROVE  n \in T
  <2>1. SUFFICES ASSUME NEW d \in Seq(Characters), NEW j \in 1 .. Len(body) + 1, Reads(n, d, j)
                 PROVE  Same(n, d, j)
    OBVIOUS
  <2>2. /\ Len(body) \in Nat /\ Len(d) \in Nat /\ j \in Nat /\ HexDigits \in Nat
        /\ j \in 1 .. Len(body) /\ j + 1 \in 1 .. Len(body) + 1
        /\ body[j] \in Characters /\ d # Null
    BY <2>1, LenProperties, ElementOfSeq, StreamAssumption
  <2>3. Decode(InHex(d), SubSeq(body, j, Len(body)))
          = Decode(Character(InHex(d), body[j]), SubSeq(body, j + 1, Len(body)))
    BY <2>2, DecodeFirst
  <2> DEFINE a == Append(d, body[j])
             r == SubSeq(body, j, j + n - 1)
  <2>4. a \in Seq(Characters) /\ Len(a) = Len(d) + 1 /\ a = d \o <<body[j]>>
    BY <2>2, AppendProperties, AppendIsConcat
  <2>5. Character(InHex(d), body[j]) = IF Len(d) + 1 < HexDigits THEN InHex(a)
                                       ELSE Spoke(Decoded(a))
    <3>1. Character(InHex(d), body[j]) = Hex(InHex(d), body[j])
      BY <2>2, InHexIs DEF Character
    <3>2. Hex(InHex(d), body[j]) = IF Len(d) + 1 < HexDigits THEN Escaping(InHex(d), a)
                                   ELSE Adding(InHex(d), Decoded(a))
      BY InHexIs DEF Hex
    <3> HIDE DEF a
    <3>3. Escaping(InHex(d), a) = InHex(a) /\ Adding(InHex(d), Decoded(a)) = Spoke(Decoded(a))
      BY InHexMoves
    <3> QED
      BY <3>1, <3>2, <3>3
  <2>6. j + n - 1 \in j .. Len(body) /\ j + n - 1 \in Nat
    BY <2>1, <2>2
  <2>7. CASE n = 1
    <3>1. r = <<body[j]>>
      <4>1. r = SubSeq(body, j, j)
        BY <2>2, <2>7
      <4> QED
        BY <2>2, <4>1, PlaceAlone
    <3> HIDE DEF a, r
    <3>2. ~(Len(d) + 1 < HexDigits)
      BY <2>1, <2>2, <2>7
    <3>3. Character(InHex(d), body[j]) = Spoke(Decoded(d \o r))
      BY <2>4, <2>5, <3>1, <3>2
    <3> QED
      BY <2>3, <2>7, <3>3 DEF r
  <2>8. CASE n # 1
    <3>1. n - 1 \in Nat /\ n - 1 \in 0 .. n - 1 /\ n - 1 > 0
          /\ Len(a) + (n - 1) = HexDigits /\ (j + 1) + (n - 1) = j + n
          /\ (j + 1) + (n - 1) - 1 = j + n - 1
          /\ Len(d) + 1 < HexDigits
      <4>1. n > 1 /\ Len(d) + n = HexDigits /\ Len(a) = Len(d) + 1
        BY <2>1, <2>4, <2>8
      <4> QED
        BY <2>2, <4>1
    <3>2. Reads(n - 1, a, j + 1)
      BY <2>1, <2>2, <2>4, <3>1
    <3>3. Same(n - 1, a, j + 1)
      <4> HIDE DEF Reads, Same, a
      <4>1. n - 1 \in T
        BY <1>1, <3>1
      <4> QED
        BY <2>2, <2>4, <3>2, <4>1
    <3>4. a \o SubSeq(body, j + 1, j + n - 1) = d \o r
      <4>1. r = <<body[j]>> \o SubSeq(body, j + 1, j + n - 1)
        BY <2>1, <2>2, <2>6, <2>8, PlaceFirst
      <4>2. /\ <<body[j]>> \in Seq(Characters)
            /\ SubSeq(body, j + 1, j + n - 1) \in Seq(Characters)
        <5>1. j + n - 1 \in (j + 1) - 1 .. Len(body)
          BY <2>1, <2>2, <2>6
        <5> QED
          BY <2>2, <5>1, Single, Cut
      <4> DEFINE b == <<body[j]>>
                 w == SubSeq(body, j + 1, j + n - 1)
      <4> HIDE DEF a, r, b, w
      <4>3. b \in Seq(Characters) /\ w \in Seq(Characters) /\ r = b \o w /\ a = d \o b
        BY <2>4, <4>1, <4>2 DEF b, w
      <4>4. (d \o b) \o w = d \o (b \o w)
        <5>1. d \in Seq(Characters) /\ b \in Seq(Characters) /\ w \in Seq(Characters)
          BY <2>1, <4>3
        <5> HIDE DEF T, Reads, Same
        <5> QED
          BY ONLY <5>1, ConcatAssociative
      <4> QED
        BY <4>3, <4>4 DEF w
    <3> QED
      <4> HIDE DEF a, r
      <4>1. Decode(InHex(a), SubSeq(body, j + 1, Len(body)))
              = Decode(Spoke(Decoded(a \o SubSeq(body, j + 1, j + n - 1))),
                       SubSeq(body, j + n, Len(body)))
        BY <3>1, <3>3
      <4>2. Character(InHex(d), body[j]) = InHex(a)
        BY <2>5, <3>1
      <4> QED
        BY <2>3, <3>4, <4>1, <4>2 DEF r
  <2> QED
    BY <2>7, <2>8
<1> HIDE DEF T
<1>2. \A n \in Nat : n \in T
  BY <1>1, FromBelow
<1> QED
  BY <1>2 DEF T

\* A well-formed unit is decoded to one symbol.
LEMMA UnitDecoded ==
  ASSUME NEW body \in Seq(Characters), NEW i \in 1 .. Len(body), body[i] # "q",
         WellFormed(body, i)
  PROVE  /\ Unit(body, i) \in Symbols
         /\ Decode(Plain, SubSeq(body, i, Len(body)))
              = Decode(Spoke(Unit(body, i)), SubSeq(body, After(body, i), Len(body)))
<1>1. /\ Len(body) \in Nat /\ i + 1 \in Nat /\ HexDigits \in Nat \ {0}
      /\ \A k \in 1 .. Len(body) : body[k] \in Characters
  BY LenProperties, ElementOfSeq, StreamAssumption
<1>2. /\ Plain.finished = FALSE /\ Plain.escaped = FALSE /\ Plain.digits = Null
      /\ Plain.out = <<>>
      /\ InHex(Null).finished = FALSE /\ InHex(Null).escaped = TRUE
      /\ InHex(Null).digits = Null /\ InHex(Null).out = <<>>
  BY PlainIs, InHexIs
<1>3. \A c : Adding(Plain, c) = Spoke(c) /\ Adding(InHex(Null), c) = Spoke(c)
  BY InHexMoves
<1>4. Decode(Plain, SubSeq(body, i, Len(body)))
        = Decode(Character(Plain, body[i]), SubSeq(body, i + 1, Len(body)))
  BY DecodeFirst
<1>5. CASE body[i] # "b"
  <2>1. After(body, i) = i + 1 /\ Unit(body, i) = body[i]
    BY <1>5 DEF After, Unit, IsUnicode, IsEscape
  <2>2. Character(Plain, body[i]) = Spoke(body[i])
    BY <1>2, <1>3, <1>5 DEF Character
  <2> QED
    BY <1>1, <1>4, <2>1, <2>2, Spellings
<1>6. CASE body[i] = "b"
  <2>1. /\ IsEscape(body, i) /\ i + 1 \in 1 .. Len(body) /\ i + 1 + 1 = i + 2
    BY <1>1, <1>6 DEF WellFormed, IsEscape
  <2>2. Character(Plain, body[i]) = InHex(Null)
    BY <1>2, <1>6, InHexMoves DEF Character
  <2>3. Decode(InHex(Null), SubSeq(body, i + 1, Len(body)))
          = Decode(Character(InHex(Null), body[i + 1]), SubSeq(body, i + 2, Len(body)))
    BY <2>1, DecodeFirst
  <2>4. CASE body[i + 1] # "u"
    <3>1. After(body, i) = i + 2 /\ Unit(body, i) = Unescaped(body[i + 1])
      BY <2>1, <2>4 DEF After, Unit, IsUnicode
    <3>2. Character(InHex(Null), body[i + 1]) = Spoke(Unescaped(body[i + 1]))
      BY <1>2, <1>3, <2>4 DEF Character
    <3> QED
      BY <1>1, <1>4, <2>1, <2>2, <2>3, <3>1, <3>2, Spellings
  <2>5. CASE body[i + 1] = "u"
    <3>1. /\ IsUnicode(body, i) /\ After(body, i) = i + 2 + HexDigits
          /\ Unit(body, i) = Decoded(SubSeq(body, i + 2, i + 1 + HexDigits))
      BY <2>1, <2>5 DEF After, Unit, IsUnicode
    <3>2. Character(InHex(Null), body[i + 1]) = InHex(<<>>)
      BY <1>2, <2>5, InHexMoves DEF Character
    <3>3. i + 2 + HexDigits <= Len(body)
      BY <3>1, Zenon DEF WellFormed
    <3>4. i + 2 \in 1 .. Len(body) + 1 /\ HexDigits > 0
          /\ i + 2 + HexDigits - 1 = i + 1 + HexDigits
          /\ i + 1 + HexDigits \in (i + 2) - 1 .. Len(body)
      BY <1>1, <3>3
    <3>5. <<>> \in Seq(Characters) /\ Len(<<>>) = 0 /\ 0 + HexDigits = HexDigits
      BY <1>1, EmptySeq
    <3>6. <<>> \o SubSeq(body, i + 2, i + 1 + HexDigits) = SubSeq(body, i + 2, i + 1 + HexDigits)
      BY <3>4, Cut, ConcatEmptySeq
    <3>7. Decode(InHex(<<>>), SubSeq(body, i + 2, Len(body)))
            = Decode(Spoke(Unit(body, i)), SubSeq(body, i + 2 + HexDigits, Len(body)))
      <4> DEFINE d == <<>>
                 j == i + 2
                 Rest(w) == Decode(Spoke(Decoded(w)), SubSeq(body, j + HexDigits, Len(body)))
      <4>1. /\ d \in Seq(Characters) /\ j \in 1 .. Len(body) + 1 /\ HexDigits \in Nat
            /\ HexDigits > 0 /\ Len(d) + HexDigits = HexDigits /\ j + HexDigits <= Len(body)
            /\ j + HexDigits - 1 = i + 1 + HexDigits
        BY <1>1, <3>3, <3>4, <3>5
      <4> HIDE DEF d, j
      <4>2. Decode(InHex(d), SubSeq(body, j, Len(body)))
              = Rest(d \o SubSeq(body, j, j + HexDigits - 1))
        BY <4>1, HexDecoded
      <4>3. d \o SubSeq(body, j, j + HexDigits - 1) = SubSeq(body, i + 2, i + 1 + HexDigits)
        BY <3>6, <4>1 DEF d, j
      <4>4. Rest(d \o SubSeq(body, j, j + HexDigits - 1)) = Rest(SubSeq(body, i + 2, i + 1 + HexDigits))
        BY <4>3
      <4> QED
        BY <3>1, <4>2, <4>4 DEF d, j
    <3> QED
      BY <1>4, <2>2, <2>3, <3>1, <3>2, <3>7, Spellings
  <2> QED
    BY <2>4, <2>5
<1> QED
  BY <1>5, <1>6

\* What JSON reads as a string is what the extractor decodes.
LEMMA UnitsDecoded ==
  ASSUME NEW body \in Seq(Characters)
  PROVE  \A i \in 1 .. Len(body) + 1 : Units(body)[i] # Null =>
           /\ Units(body)[i].out \in Seq(Symbols)
           /\ Decode(Plain, SubSeq(body, i, Len(body)))
                = State(TRUE, FALSE, Null, Units(body)[i].out)
<1> DEFINE u == Units(body)
           Reads(i) == /\ u[i].out \in Seq(Symbols)
                       /\ Decode(Plain, SubSeq(body, i, Len(body)))
                            = State(TRUE, FALSE, Null, u[i].out)
           T == {n \in Nat : \A i \in 1 .. Len(body) + 1 :
                               i + n = Len(body) + 1 /\ u[i] # Null => Reads(i)}
<1>1. Len(body) \in Nat
  BY LenProperties
<1>2. ASSUME NEW n \in Nat, \A m \in 0 .. n - 1 : m \in T
      PROVE  n \in T
  <2>1. SUFFICES ASSUME NEW i \in 1 .. Len(body) + 1, i + n = Len(body) + 1, u[i] # Null
                 PROVE  Reads(i)
    OBVIOUS
  <2> HIDE DEF u
  <2>2. u[i] = IF i > Len(body) THEN Null
               ELSE IF body[i] = "q"
                 THEN [out |-> <<>>, rest |-> SubSeq(body, i + 1, Len(body))]
               ELSE IF ~WellFormed(body, i) \/ u[After(body, i)] = Null THEN Null
               ELSE [out |-> <<Unit(body, i)>> \o u[After(body, i)].out,
                     rest |-> u[After(body, i)].rest]
    BY UnitsIs DEF u
  <2>3. i \in 1 .. Len(body) /\ i + 1 \in 1 .. Len(body) + 1
    BY <1>1, <2>1, <2>2
  <2>4. CASE body[i] = "q"
    <3>1. u[i].out = <<>> /\ u[i].out \in Seq(Symbols)
      BY <2>2, <2>3, <2>4, EmptySeq
    <3>2. Decode(Plain, SubSeq(body, i, Len(body)))
            = Decode(Character(Plain, body[i]), SubSeq(body, i + 1, Len(body)))
      BY <2>3, DecodeFirst
    <3>3. Character(Plain, body[i]) = State(TRUE, FALSE, Null, <<>>)
      BY <2>4, PlainIs DEF Character, Ending
    <3>4. SubSeq(body, i + 1, Len(body)) \in Seq(Characters)
      <4>1. Len(body) \in i + 1 - 1 .. Len(body)
        BY <1>1, <2>3
      <4> QED
        BY <2>3, <4>1, Cut
    <3>5. State(TRUE, FALSE, Null, <<>>).finished
      BY Fields
    <3> QED
      BY <3>1, <3>2, <3>3, <3>4, <3>5, DecodeFinished
  <2>5. CASE body[i] # "q"
    <3> DEFINE a == After(body, i)
               c == Unit(body, i)
    <3> HIDE DEF a, c
    <3>1. /\ WellFormed(body, i) /\ u[a] # Null /\ u[i].out = <<c>> \o u[a].out
      BY <2>1, <2>2, <2>3, <2>5 DEF a, c
    <3>2. a \in Nat /\ a > i /\ a <= Len(body)
      BY <2>3, <3>1, AfterIs DEF WellFormed, a
    <3>3. Reads(a)
      <4> HIDE DEF Reads, T
      <4>1. PICK m \in 0 .. n - 1 : a + m = Len(body) + 1
        <5>1. Len(body) + 1 - a \in 0 .. n - 1 /\ a + (Len(body) + 1 - a) = Len(body) + 1
          BY <1>1, <2>1, <2>3, <3>2
        <5> QED
          BY <5>1
      <4>2. m \in T
        BY <1>2
      <4>3. a \in 1 .. Len(body) + 1
        BY <1>1, <2>3, <3>2
      <4> QED
        BY <3>1, <4>1, <4>2, <4>3 DEF T
    <3>4. /\ c \in Symbols
          /\ Decode(Plain, SubSeq(body, i, Len(body)))
               = Decode(Spoke(c), SubSeq(body, a, Len(body)))
      BY <2>3, <2>5, <3>1, UnitDecoded DEF a, c
    <3>5. SubSeq(body, a, Len(body)) \in Seq(Characters)
      <4>1. a \in 1 .. Len(body) + 1 /\ Len(body) \in a - 1 .. Len(body)
        BY <1>1, <2>3, <3>2
      <4> QED
        BY <4>1, Cut
    <3>6. <<c>> \in Seq(Symbols) /\ Plain \in States /\ Said(<<c>>, Plain) = Spoke(c)
      <4>1. <<c>> \in Seq(Symbols) /\ <<>> \in Seq(Symbols) /\ <<c>> \o <<>> = <<c>>
        BY <3>4, Single, EmptySeq, ConcatEmptySeq
      <4>2. Plain \in States
        BY <4>1, StateIn DEF Plain, Digits
      <4>3. Said(<<c>>, Plain) = State(FALSE, FALSE, Null, <<c>> \o <<>>)
        BY SaidIs DEF Plain
      <4> QED
        BY <4>1, <4>2, <4>3 DEF Spoke
    <3>7. Decode(Spoke(c), SubSeq(body, a, Len(body)))
            = Said(<<c>>, State(TRUE, FALSE, Null, u[a].out))
      BY <3>3, <3>5, <3>6, DecodeSaid
    <3>8. Said(<<c>>, State(TRUE, FALSE, Null, u[a].out)) = State(TRUE, FALSE, Null, u[i].out)
      <4>1. Said(<<c>>, State(TRUE, FALSE, Null, u[a].out))
              = State(TRUE, FALSE, Null, <<c>> \o u[a].out)
        BY DEF Said, State
      <4> QED
        BY <3>1, <4>1, Zenon
    <3>9. u[i].out \in Seq(Symbols)
      BY <3>1, <3>3, <3>6, ConcatProperties
    <3> QED
      BY <3>4, <3>7, <3>8, <3>9
  <2> QED
    BY <2>4, <2>5
<1> HIDE DEF T, u
<1>3. \A n \in Nat : n \in T
  BY <1>2, FromBelow
<1>4. ASSUME NEW i \in 1 .. Len(body) + 1, u[i] # Null
      PROVE  Reads(i)
  <2>1. Len(body) + 1 - i \in Nat /\ i + (Len(body) + 1 - i) = Len(body) + 1
    BY <1>1
  <2> HIDE DEF Reads
  <2> QED
    BY <1>3, <1>4, <2>1 DEF T
<1> QED
  BY <1>4 DEF u

-----------------------------------------------------------------------------
(* What is spoken of a reply. *)

\* What of a text has been decoded.
Whole(text) == Decode(Plain, SubSeq(text, KeyEnd(text) + 1, Len(text)))

\* The extractor is where it would be had the text come in one piece.
Extracts ==
  /\ started <=> KeyEnd(Received) # 0
  /\ ~started => /\ prefix = LastOf(Received, Window)
                 /\ ~finished /\ ~escaped /\ digits = Null
  /\ started => Whole(Received) = State(finished, escaped, digits, SpokenAtOnce(Received))

\* What was said and shown of the reply.
Says ==
  speech = IF messages = <<>> \/ SpokenAtOnce(Received) # <<>> THEN SpokenAtOnce(Received)
           ELSE messages[1].spoken

StreamInv ==
  /\ StreamTypeOK /\ speech \in Seq(Symbols)
  /\ prefix \in Seq(Characters) /\ digits \in Digits
  /\ reply # Null => sent <= Len(reply.text)
  /\ buffering => reply # Null /\ messages = <<>> /\ (streamed <=> speech # <<>>)
  /\ messages # <<>> => reply # Null /\ messages = <<Parse(Received, reply)>>
  /\ reply # Null /\ KeyFits(reply.text) => Extracts /\ Says

\* The fields of a reply have their types.
LEMMA ReplyTypes ==
  ASSUME NEW r \in Replies \cup Later
  PROVE  r.text \in Seq(Characters) /\ r.nested \in BOOLEAN /\ Len(r.text) \in Nat
BY StreamAssumption, LenProperties

\* The beginning of a text.
LEMMA BeginningIs ==
  ASSUME NEW S, NEW text \in Seq(S), NEW n \in 0 .. Len(text)
  PROVE  /\ SubSeq(text, 1, n) \in Seq(S) /\ Len(SubSeq(text, 1, n)) = n
         /\ \A k \in 1 .. n : SubSeq(text, 1, n)[k] = text[k]
<1>1. Len(text) \in Nat /\ 1 \in 1 .. Len(text) + 1 /\ n \in 1 - 1 .. Len(text)
  BY LenProperties
<1>2. /\ SubSeq(text, 1, n) \in Seq(S) /\ Len(SubSeq(text, 1, n)) = n - 1 + 1
      /\ \A k \in 1 .. n - 1 + 1 : SubSeq(text, 1, n)[k] = text[1 + k - 1]
  BY <1>1, Cut
<1>3. n - 1 + 1 = n /\ \A k \in 1 .. n : 1 + k - 1 = k
  BY <1>1
<1> QED
  BY <1>2, <1>3

\* Whether the key fits a text is decided where it ends.
LEMMA BeginningFits ==
  ASSUME NEW text \in Seq(Characters), KeyFits(text), NEW n \in 0 .. Len(text)
  PROVE  KeyFits(SubSeq(text, 1, n))
<1> DEFINE s == SubSeq(text, 1, n)
<1>1. /\ s \in Seq(Characters) /\ Len(s) = n /\ Len(text) \in Nat
      /\ \A k \in 1 .. Len(s) : s[k] = text[k]
  BY BeginningIs, LenProperties
<1> HIDE DEF s
<1>2. SUFFICES ASSUME NEW i \in 1 .. Len(s), KeyAt(s, i, KeyEnd(s))
               PROVE  KeyEnd(s) - i < Window
  BY DEF KeyFits, s
<1>3. KeyEnd(s) # 0
  BY <1>1, <1>2 DEF KeyAt
<1>4. KeyEnd(text) = KeyEnd(s) /\ KeyEnd(s) \in 1 .. Len(s)
  BY <1>1, <1>3, KeyEndGrows, KeyEndIs
<1>5. KeyAt(text, 0 + i, 0 + KeyEnd(s))
  <2>1. \A k \in 1 .. Len(s) : s[k] = text[0 + k]
    BY <1>1
  <2> QED
    BY <1>1, <1>2, <1>4, <2>1, KeyAtShift
<1>6. 0 + i = i /\ 0 + KeyEnd(s) = KeyEnd(s) /\ i \in 1 .. Len(text)
  BY <1>1, <1>4
<1> QED
  BY <1>4, <1>5, <1>6 DEF KeyFits

\* What is spoken of a text, decoded at once.
LEMMA WholeIs ==
  ASSUME NEW text \in Seq(Characters)
  PROVE  /\ Whole(text) \in States
         /\ SpokenAtOnce(text) = IF KeyEnd(text) = 0 THEN <<>> ELSE Whole(text).out
         /\ SpokenAtOnce(text) \in Seq(Symbols)
<1>1. Len(text) \in Nat /\ KeyEnd(text) + 1 \in 1 .. Len(text) + 1
      /\ Len(text) \in KeyEnd(text) + 1 - 1 .. Len(text)
  BY LenProperties, KeyEndIs
<1>2. SubSeq(text, KeyEnd(text) + 1, Len(text)) \in Seq(Characters)
  BY <1>1, Cut
<1>3. Plain \in States
  BY EmptySeq, StateIn DEF Plain, Digits
<1>4. Whole(text) \in States
  BY <1>2, <1>3, DecodeStays DEF Whole
<1>5. SpokenAtOnce(text) = IF KeyEnd(text) = 0 THEN <<>> ELSE Whole(text).out
  BY DEF SpokenAtOnce, Whole, Plain
<1> QED
  BY <1>4, <1>5, StateOf, EmptySeq

\* A string that JSON reads is spoken as JSON reads it.
LEMMA StringSpoken ==
  ASSUME NEW text \in Seq(Characters), String(text) # Null
  PROVE  String(text).out \in Seq(Symbols) /\ SpokenAtOnce(text) = String(text).out
<1>1. KeyEnd(text) # 0
  BY DEF String
<1>2. Len(text) \in Nat /\ KeyEnd(text) + 1 \in 1 .. Len(text) + 1
      /\ Len(text) \in KeyEnd(text) + 1 - 1 .. Len(text)
  BY LenProperties, KeyEndIs
<1> DEFINE body == SubSeq(text, KeyEnd(text) + 1, Len(text))
<1>3. body \in Seq(Characters)
  BY <1>2, Cut
<1>4. Whole(text) = Decode(Plain, body) /\ String(text) = Units(body)[1]
  BY <1>1 DEF Whole, String
<1> HIDE DEF body
<1>5. Len(body) \in Nat /\ 1 \in 1 .. Len(body) + 1
  BY <1>3, LenProperties
<1>6. SubSeq(body, 1, Len(body)) = body
  BY <1>3, SubSeqFull
<1>7. /\ String(text).out \in Seq(Symbols)
      /\ Whole(text) = State(TRUE, FALSE, Null, String(text).out)
  BY <1>3, <1>4, <1>5, <1>6, UnitsDecoded
<1>8. State(TRUE, FALSE, Null, String(text).out).out = String(text).out
  BY DEF State
<1> QED
  BY <1>1, <1>7, <1>8, WholeIs

\* Without the blanks at its ends a speech is a part of itself.
LEMMA StripIs ==
  ASSUME NEW s \in Seq(Symbols)
  PROVE  Strip(s) \in Seq(Symbols)
<1> DEFINE kept == {i \in 1 .. Len(s) : s[i] \notin Blanks}
           first == CHOOSE i \in kept : \A k \in kept : i <= k
           last == CHOOSE i \in kept : \A k \in kept : k <= i
<1>1. Len(s) \in Nat /\ kept \subseteq 1 .. Len(s)
  BY LenProperties
<1>2. Strip(s) = IF kept = {} THEN <<>> ELSE SubSeq(s, first, last)
  BY DEF Strip
<1>3. CASE kept # {}
  <2>1. PICK i \in kept : \A k \in kept : i <= k
    <3> HIDE DEF kept
    <3> QED
      BY <1>1, <1>3, Least
  <2>2. PICK j \in kept : \A k \in kept : k <= j
    <3> DEFINE back == {n \in Nat : Len(s) - n \in kept}
    <3> HIDE DEF kept
    <3>1. back # {}
      <4>1. PICK k \in kept : TRUE
        BY <1>3
      <4>2. Len(s) - k \in Nat /\ Len(s) - (Len(s) - k) = k
        BY <1>1
      <4> QED
        BY <4>2
    <3>2. PICK n \in back : \A m \in back : n <= m
      <4> HIDE DEF back
      <4>1. back \subseteq Nat
        BY DEF back
      <4> QED
        BY <3>1, <4>1, Least
    <3>3. ASSUME NEW k \in kept
          PROVE  k <= Len(s) - n
      <4>1. k \in Int /\ Len(s) - k \in Nat /\ Len(s) - (Len(s) - k) = k
        BY <1>1
      <4>2. n <= Len(s) - k /\ n \in Nat
        BY <3>2, <4>1
      <4> QED
        BY <1>1, <4>1, <4>2
    <3> QED
      BY <3>2, <3>3
  <2>3. first \in kept /\ last \in kept /\ first <= last
    <3>1. first \in kept /\ \A k \in kept : first <= k
      <4> HIDE DEF kept
      <4> QED
        BY <2>1
    <3>2. last \in kept
      <4> HIDE DEF kept
      <4> QED
        BY <2>2
    <3> QED
      BY <3>1, <3>2
  <2> HIDE DEF first, last
  <2>4. first \in 1 .. Len(s) + 1 /\ last \in first - 1 .. Len(s)
    BY <1>1, <2>3
  <2> QED
    BY <1>2, <1>3, <2>4, Cut
<1> QED
  BY <1>2, <1>3, EmptySeq

\* The first elements of a speech.
LEMMA FirstOfIs ==
  ASSUME NEW s \in Seq(Symbols)
  PROVE  /\ FirstOf(s, MaxSpoken) \in Seq(Symbols)
         /\ Len(s) <= MaxSpoken => FirstOf(s, MaxSpoken) = s
         /\ MaxSpoken = 0 => FirstOf(s, MaxSpoken) = <<>>
<1> DEFINE n == IF Len(s) < MaxSpoken THEN Len(s) ELSE MaxSpoken
<1>1. Len(s) \in Nat /\ MaxSpoken \in Nat /\ n \in 0 .. Len(s)
  BY LenProperties, StreamAssumption
<1>2. FirstOf(s, MaxSpoken) = SubSeq(s, 1, n)
  BY DEF FirstOf
<1>3. /\ Len(s) <= MaxSpoken => n = Len(s)
      /\ MaxSpoken = 0 => n = 0
  BY <1>1
<1> HIDE DEF n
<1>4. FirstOf(s, MaxSpoken) \in Seq(Symbols) /\ Len(FirstOf(s, MaxSpoken)) = n
  BY <1>1, <1>2, BeginningIs
<1>5. SubSeq(s, 1, Len(s)) = s
  BY SubSeqFull
<1>6. n = 0 => FirstOf(s, MaxSpoken) = <<>>
  BY <1>4, EmptySeq
<1> QED
  BY <1>2, <1>3, <1>4, <1>5, <1>6

\* What is shown of a speech can be spoken.
LEMMA ShownIs ==
  ASSUME NEW s \in Seq(Symbols)
  PROVE  Shown(s) \in Seq(Symbols)
<1>1. <<"Done.">> \in Seq(Symbols)
  BY Single DEF Symbols
<1> QED
  BY <1>1, StripIs, FirstOfIs DEF Shown

\* An empty speech is shown as "Done.", and so is what is shown of it.
LEMMA ShownEmpty ==
  Shown(Shown(<<>>)) = Shown(<<>>)
<1> DEFINE d == <<"Done.">>
<1>1. d \in Seq(Symbols) /\ Len(d) = 1 /\ d # <<>> /\ d[1] = "Done."
  BY Single DEF Symbols
<1>2. Strip(<<>>) = <<>>
  BY DEF Strip
<1>3. Shown(<<>>) = FirstOf(d, MaxSpoken)
  BY <1>2 DEF Shown
<1>4. Strip(d) = d
  <2>1. {i \in 1 .. Len(d) : d[i] \notin Blanks} = {1}
    BY <1>1 DEF Blanks
  <2>2. Strip(d) = SubSeq(d, 1, 1)
    <3> HIDE DEF d
    <3>1. (CHOOSE i \in {1} : \A k \in {1} : i <= k) = 1
      OBVIOUS
    <3>2. (CHOOSE i \in {1} : \A k \in {1} : k <= i) = 1
      OBVIOUS
    <3> QED
      BY <2>1, <3>1, <3>2 DEF Strip
  <2> QED
    BY <1>1, <2>2, SubSeqFull
<1>5. MaxSpoken \in Nat
  BY StreamAssumption
<1> HIDE DEF d
<1>6. CASE MaxSpoken = 0
  BY <1>1, <1>3, <1>6, FirstOfIs
<1>7. CASE MaxSpoken >= 1
  <2>1. FirstOf(d, MaxSpoken) = d
    BY <1>1, <1>5, <1>7, FirstOfIs
  <2> QED
    BY <1>1, <1>3, <1>4, <2>1 DEF Shown
<1> QED
  BY <1>5, <1>6, <1>7

\* The parser's speech can be spoken.
LEMMA ParseSpeaks ==
  ASSUME NEW text \in Seq(Characters), NEW r, r.nested \in BOOLEAN
  PROVE  Parse(text, r).spoken \in Seq(Symbols)
<1> DEFINE spoken == CASE ~IsJson(text)             -> text
                       [] IsJson(text) /\ r.nested  -> <<"inner">>
                       [] IsJson(text) /\ ~r.nested -> String(text).out
<1>1. text \in Seq(Symbols)
  BY Spellings, SeqMonotonic
<1>2. <<"inner">> \in Seq(Symbols)
  BY Single DEF Symbols
<1>3. IsJson(text) => String(text).out \in Seq(Symbols)
  BY StringSpoken DEF IsJson
<1>4. spoken \in Seq(Symbols)
  BY <1>1, <1>2, <1>3
<1>5. Parse(text, r).spoken = Shown(spoken)
  BY DEF Parse
<1> HIDE DEF spoken
<1> QED
  BY <1>4, <1>5, ShownIs

\* Nothing is spoken of an empty text.
LEMMA NothingSaid ==
  /\ KeyEnd(<<>>) = 0 /\ LastOf(<<>>, Window) = <<>> /\ SpokenAtOnce(<<>>) = <<>>
<1>1. <<>> \in Seq(Characters) /\ Len(<<>>) = 0
  BY EmptySeq
<1>2. KeyEnd(<<>>) = 0
  <2>1. ASSUME NEW text \in Seq(Characters), Len(text) = 0
        PROVE  KeyEnd(text) = 0
    <3>1. KeyEnd(text) = 0 \/ KeyEnd(text) \in 1 .. Len(text)
      BY KeyEndIs
    <3> QED
      BY <2>1, <3>1
  <2> DEFINE e == <<>>
  <2>2. e \in Seq(Characters) /\ Len(e) = 0
    BY <1>1
  <2> HIDE DEF e
  <2>3. KeyEnd(e) = 0
    BY <2>1, <2>2
  <2> QED
    BY <2>3 DEF e
<1>3. \E d \in Nat : /\ LastOf(<<>>, Window) \in Seq(Characters)
                     /\ Len(<<>>) = d + Len(LastOf(<<>>, Window))
  BY <1>1, LastIs
<1>4. Len(LastOf(<<>>, Window)) = 0
  BY <1>1, <1>3, LenProperties
<1> QED
  BY <1>2, <1>3, <1>4, EmptySeq DEF SpokenAtOnce

\* The start of a response forgets all of the one before.
LEMMA StartKeepsInv ==
  ASSUME StreamInv, NEW r \in Replies \cup Later, Start(r)
  PROVE  StreamInv'
<1>1. /\ reply' = r /\ sent' = 0 /\ buffering' = TRUE /\ chunks' = <<>> /\ streamed' = FALSE
      /\ prefix' = <<>> /\ started' = FALSE /\ finished' = FALSE /\ escaped' = FALSE
      /\ digits' = Null /\ speech' = <<>> /\ messages' = <<>> /\ count' = count + 1
      /\ count < Responses
  BY DEF Start, SetExtractor, Fresh
<1>2. r.text \in Seq(Characters) /\ Len(r.text) \in Nat
  BY ReplyTypes
<1>3. SubSeq(r.text, 1, 0) = <<>>
  BY SubSeqEmpty
<1>4. Received' = <<>>
  BY <1>1, <1>3 DEF Received
<1>5. StreamTypeOK'
  <2>1. Len(prefix') <= Window
    BY <1>1, StreamAssumption, EmptySeq
  <2>2. chunks' = IF buffering' THEN SubSeq(reply'.text, 1, sent') ELSE <<>>
    BY <1>1, <1>3
  <2>3. count' \in 0 .. Responses
    BY <1>1, StreamAssumption DEF StreamInv, StreamTypeOK
  <2> QED
    BY <1>1, <2>1, <2>2, <2>3 DEF StreamTypeOK
<1>6. Extracts' /\ Says'
  BY <1>1, <1>4, NothingSaid DEF Extracts, Says
<1>7. /\ 0 <= Len(r.text) /\ <<>> \in Seq(Symbols)
      /\ prefix' \in Seq(Characters) /\ digits' \in Digits
  BY <1>1, <1>2, EmptySeq DEF Digits
<1> QED
  <2>1. reply' # Null => sent' <= Len(reply'.text)
    BY <1>1, <1>7
  <2>2. reply' # Null
    BY <1>1, StreamAssumption
  <2> QED
    BY <1>1, <1>5, <1>6, <1>7, <2>1, <2>2 DEF StreamInv

\* The end of a response speaks the parsed text if nothing was streamed.
LEMMA EndKeepsInv ==
  ASSUME StreamInv, End
  PROVE  StreamInv'
<1>1. /\ buffering /\ reply # Null /\ reply \in Replies \cup Later
      /\ messages = <<>> /\ (streamed <=> speech # <<>>) /\ speech \in Seq(Symbols)
      /\ chunks = Received /\ sent \in Nat /\ sent <= Len(reply.text)
      /\ streamed \in BOOLEAN
  BY DEF StreamInv, End, StreamTypeOK, Received
<1>2. reply.text \in Seq(Characters) /\ reply.nested \in BOOLEAN /\ Len(reply.text) \in Nat
  BY <1>1, ReplyTypes
<1>3. Received \in Seq(Characters)
  BY <1>1, <1>2, BeginningIs DEF Received
<1>4. /\ buffering' = FALSE /\ chunks' = <<>> /\ reply' = reply /\ sent' = sent
      /\ streamed' = streamed /\ prefix' = prefix /\ started' = started
      /\ finished' = finished /\ escaped' = escaped /\ digits' = digits /\ count' = count
  BY DEF End, extractor
<1>11. prefix' \in Seq(Characters) /\ digits' \in Digits
  BY <1>4 DEF StreamInv
<1>5. Received' = Received
  BY <1>4 DEF Received
<1>6. StreamTypeOK'
  BY <1>4 DEF StreamInv, StreamTypeOK
<1>7. Extracts => Extracts'
  BY <1>4, <1>5 DEF Extracts
<1>8. Says => (speech = SpokenAtOnce(Received))
  BY <1>1 DEF Says
<1>9. CASE ToSet(chunks) \subseteq {"W"}
  <2>1. speech' = speech /\ messages' = messages
    BY <1>9 DEF End
  <2> QED
    BY <1>1, <1>4, <1>5, <1>6, <1>7, <1>11, <2>1 DEF StreamInv, Says
<1>10. CASE ~(ToSet(chunks) \subseteq {"W"})
  <2> DEFINE p == Parse(Received, reply)
  <2>1. /\ messages' = Append(messages, p)
        /\ speech' = IF streamed THEN speech ELSE speech \o p.spoken
    BY <1>1, <1>10 DEF End
  <2>2. p.spoken \in Seq(Symbols)
    BY <1>2, <1>3, ParseSpeaks
  <2> HIDE DEF p
  <2>3. messages' = <<p>> /\ messages' # <<>> /\ messages'[1] = p
    BY <1>1, <2>1
  <2>4. speech' = IF speech # <<>> THEN speech ELSE p.spoken
    BY <1>1, <2>1, <2>2, ConcatEmptySeq
  <2>5. Says => Says'
    BY <1>5, <1>8, <2>3, <2>4 DEF Says
  <2>6. speech' \in Seq(Symbols)
    BY <1>1, <2>2, <2>4
  <2> QED
    BY <1>1, <1>4, <1>5, <1>6, <1>7, <1>11, <2>3, <2>5, <2>6 DEF StreamInv, p
<1> QED
  BY <1>9, <1>10

\* What Feed makes of a chunk.
LEMMA FeedIs ==
  ASSUME NEW chunk \in Seq(Characters), NEW w, w = prefix \o chunk,
         NEW e, e = Decode(Extractor, IF started THEN chunk ELSE SubSeq(w, KeyEnd(w) + 1, Len(w)))
  PROVE  Feed(chunk) = IF ~started /\ KeyEnd(w) = 0
           THEN [out |-> <<>>, prefix |-> LastOf(w, Window), started |-> FALSE,
                 finished |-> finished, escaped |-> escaped, digits |-> digits]
           ELSE [out |-> e.out, prefix |-> <<>>, started |-> TRUE,
                 finished |-> e.finished, escaped |-> e.escaped, digits |-> e.digits]
BY DEF Feed

\* The extractor's variables make a state.
LEMMA ExtractorIs ==
  ASSUME finished \in BOOLEAN, escaped \in BOOLEAN, digits \in Digits
  PROVE  Extractor \in States
BY EmptySeq, StateIn DEF Extractor

\* A chunk after the key goes on where the extractor was.
LEMMA GoesOn ==
  ASSUME NEW r \in Seq(Characters), NEW c \in Seq(Characters), KeyEnd(r) # 0,
         finished \in BOOLEAN, escaped \in BOOLEAN, digits \in Digits,
         Whole(r) = State(finished, escaped, digits, SpokenAtOnce(r))
  PROVE  /\ KeyEnd(r \o c) = KeyEnd(r)
         /\ Whole(r \o c) = Said(SpokenAtOnce(r), Decode(Extractor, c))
<1>1. SUFFICES ASSUME NEW t \in Seq(Characters), t = r \o c
               PROVE  /\ KeyEnd(t) = KeyEnd(r)
                      /\ Whole(t) = Said(SpokenAtOnce(r), Decode(Extractor, c))
  BY ConcatProperties
<1>2. /\ Len(r) \in Nat /\ Len(c) \in Nat /\ Len(t) = Len(r) + Len(c)
      /\ \A k \in 1 .. Len(r) : t[k] = r[k]
  BY <1>1, ConcatProperties, LenProperties
<1>3. KeyEnd(t) = KeyEnd(r) /\ KeyEnd(r) \in 1 .. Len(r)
  BY <1>2, KeyEndGrows, KeyEndIs
<1> DEFINE k == KeyEnd(r) + 1
<1>4. /\ k \in 1 .. Len(r) + 1 /\ Len(r) \in k - 1 .. Len(r)
      /\ k \in 1 .. Len(t) + 1 /\ Len(t) \in k - 1 .. Len(t) /\ k \in Nat
  BY <1>2, <1>3
<1> HIDE DEF k
<1> DEFINE a == SubSeq(r, k, Len(r))
           b == SubSeq(t, k, Len(t))
<1>5. /\ a \in Seq(Characters) /\ Len(a) = Len(r) - k + 1
      /\ \A j \in 1 .. Len(r) - k + 1 : a[j] = r[k + j - 1]
  BY <1>4, Cut
<1>6. /\ b \in Seq(Characters) /\ Len(b) = Len(t) - k + 1
      /\ \A j \in 1 .. Len(t) - k + 1 : b[j] = t[k + j - 1]
  BY <1>4, Cut
<1> HIDE DEF a, b
<1>7. b = a \o c
  <2>1. PICK d \in Seq(Characters) : d = a \o c
    BY <1>5, ConcatProperties
  <2>2. /\ Len(d) = Len(a) + Len(c)
        /\ \A j \in 1 .. Len(a) : d[j] = a[j]
        /\ \A j \in 1 .. Len(c) : d[Len(a) + j] = c[j]
    <3>1. a \in Seq(Characters)
      BY <1>5
    <3> QED
      BY <2>1, <3>1, ConcatProperties
  <2>3. Len(d) = Len(b)
    <3>1. Len(d) = Len(a) + Len(c)
      BY <2>2
    <3>2. Len(a) = Len(r) - k + 1
      BY <1>5
    <3>3. Len(b) = Len(t) - k + 1
      BY <1>6
    <3>4. /\ k \in Nat /\ Len(r) \in Nat /\ Len(c) \in Nat
          /\ Len(t) = Len(r) + Len(c)
      BY <1>2, <1>4
    <3> HIDE DEF k
    <3> QED
      BY <3>1, <3>2, <3>3, <3>4
  <2>4. ASSUME NEW j \in 1 .. Len(d)
        PROVE  d[j] = b[j]
    <3>1. j \in 1 .. Len(t) - k + 1 /\ Len(a) \in Nat /\ k + j - 1 \in Nat
      BY <1>2, <1>4, <1>5, <1>6, <2>3
    <3>2. b[j] = t[k + j - 1]
      BY <1>6, <3>1
    <3>3. CASE j <= Len(a)
      <4>1. j \in 1 .. Len(r) - k + 1 /\ k + j - 1 \in 1 .. Len(r)
        BY <1>2, <1>4, <1>5, <3>1, <3>3
      <4>2. d[j] = r[k + j - 1]
        BY <1>5, <2>2, <4>1
      <4> QED
        BY <1>2, <3>2, <4>1, <4>2
    <3>4. CASE j > Len(a)
      <4>1. PICK i \in 1 .. Len(c) : Len(a) + i = j
        <5>1. j - Len(a) \in 1 .. Len(c) /\ Len(a) + (j - Len(a)) = j
          BY <1>2, <2>2, <3>1, <3>4
        <5> QED
          BY <5>1
      <4>2. k + j - 1 = Len(r) + i
        BY <1>2, <1>4, <1>5, <3>1, <4>1
      <4>3. t[Len(r) + i] = c[i]
        BY <1>1, ConcatProperties
      <4> QED
        BY <2>2, <3>2, <4>1, <4>2, <4>3
    <3> QED
      BY <3>1, <3>3, <3>4
  <2> QED
    BY <1>6, <2>1, <2>3, <2>4, SameSeq
<1>8. Whole(r) = Decode(Plain, a) /\ Whole(t) = Decode(Plain, b)
  BY <1>3 DEF Whole, a, b, k
<1>9. Whole(t) = Decode(Whole(r), c)
  BY <1>5, <1>7, <1>8, DecodeConcat
<1>10. Extractor \in States /\ SpokenAtOnce(r) \in Seq(Symbols)
  BY ExtractorIs, WholeIs
<1>11. Whole(r) = Said(SpokenAtOnce(r), Extractor)
  <2>1. SpokenAtOnce(r) \o <<>> = SpokenAtOnce(r)
    BY <1>10, ConcatEmptySeq
  <2>2. Said(SpokenAtOnce(r), Extractor)
          = State(finished, escaped, digits, SpokenAtOnce(r) \o <<>>)
    BY DEF Extractor, Said, State
  <2> QED
    BY <2>1, <2>2
<1>12. Decode(Said(SpokenAtOnce(r), Extractor), c) = Said(SpokenAtOnce(r), Decode(Extractor, c))
  BY <1>10, DecodeSaid
<1> QED
  BY <1>3, <1>9, <1>11, <1>12

\* A beginning and the characters after it.
LEMMA BeginningGrows ==
  ASSUME NEW text \in Seq(Characters), NEW s \in Nat, NEW n \in Nat, s + n <= Len(text)
  PROVE  /\ SubSeq(text, s + 1, s + n) \in Seq(Characters)
         /\ SubSeq(text, 1, s) \o SubSeq(text, s + 1, s + n) = SubSeq(text, 1, s + n)
<1>1. Len(text) \in Nat
  BY LenProperties
<1>2. /\ 1 \in 1 .. Len(text) + 1 /\ s \in 1 - 1 .. Len(text) /\ s + n \in s .. Len(text)
      /\ s + 1 \in 1 .. Len(text) + 1 /\ s + n \in s + 1 - 1 .. Len(text)
  BY <1>1
<1>3. SubSeq(text, s + 1, s + n) \in Seq(Characters)
  BY <1>2, Cut
<1> QED
  BY <1>2, <1>3, ConcatAdjacentSubSeq

\* The types of what a chunk makes of the extractor.
LEMMA FeedStays ==
  ASSUME NEW c \in Seq(Characters), prefix \in Seq(Characters), started \in BOOLEAN,
         finished \in BOOLEAN, escaped \in BOOLEAN, digits \in Digits
  PROVE  LET f == Feed(c)
         IN /\ f.out \in Seq(Symbols) /\ f.prefix \in Seq(Characters) /\ Len(f.prefix) <= Window
            /\ f.started \in BOOLEAN /\ f.finished \in BOOLEAN /\ f.escaped \in BOOLEAN
            /\ f.digits \in Digits
<1>1. PICK w \in Seq(Characters) : w = prefix \o c
  BY ConcatProperties
<1> DEFINE a == IF started THEN c ELSE SubSeq(w, KeyEnd(w) + 1, Len(w))
<1>2. a \in Seq(Characters)
  <2>1. Len(w) \in Nat /\ KeyEnd(w) + 1 \in 1 .. Len(w) + 1
        /\ Len(w) \in KeyEnd(w) + 1 - 1 .. Len(w)
    BY LenProperties, KeyEndIs
  <2>2. SubSeq(w, KeyEnd(w) + 1, Len(w)) \in Seq(Characters)
    BY <2>1, Cut
  <2> QED
    BY <2>2
<1> DEFINE e == Decode(Extractor, a)
<1>3. Feed(c) = IF ~started /\ KeyEnd(w) = 0
        THEN [out |-> <<>>, prefix |-> LastOf(w, Window), started |-> FALSE,
              finished |-> finished, escaped |-> escaped, digits |-> digits]
        ELSE [out |-> e.out, prefix |-> <<>>, started |-> TRUE,
              finished |-> e.finished, escaped |-> e.escaped, digits |-> e.digits]
  BY <1>1, FeedIs
<1> HIDE DEF a
<1>4. e \in States
  BY <1>2, ExtractorIs, DecodeStays
<1> HIDE DEF e
<1>5. /\ e.finished \in BOOLEAN /\ e.escaped \in BOOLEAN
      /\ e.digits \in Digits /\ e.out \in Seq(Symbols)
  BY <1>4, StateOf
<1>6. LastOf(w, Window) \in Seq(Characters) /\ Len(LastOf(w, Window)) <= Window
  <2>1. Len(w) \in Nat /\ Window \in Nat
    BY LenProperties, StreamAssumption
  <2>2. PICK d \in Nat : /\ d = IF Len(w) < Window THEN 0 ELSE Len(w) - Window
                         /\ LastOf(w, Window) \in Seq(Characters)
                         /\ Len(w) = d + Len(LastOf(w, Window))
    BY LastIs
  <2>3. Len(LastOf(w, Window)) \in Nat
    BY <2>2, LenProperties
  <2> QED
    BY <2>1, <2>2, <2>3
<1>7. <<>> \in Seq(Characters) /\ <<>> \in Seq(Symbols) /\ Len(<<>>) <= Window
  BY EmptySeq, StreamAssumption
<1>8. CASE ~started /\ KeyEnd(w) = 0
  <2>1. Feed(c) = [out |-> <<>>, prefix |-> LastOf(w, Window), started |-> FALSE,
                   finished |-> finished, escaped |-> escaped, digits |-> digits]
    BY <1>3, <1>8
  <2> QED
    BY <1>6, <1>7, <2>1
<1>9. CASE ~(~started /\ KeyEnd(w) = 0)
  <2>1. Feed(c) = [out |-> e.out, prefix |-> <<>>, started |-> TRUE, finished |-> e.finished,
                   escaped |-> e.escaped, digits |-> e.digits]
    BY <1>3, <1>9
  <2> QED
    BY <1>5, <1>7, <2>1
<1> QED
  BY <1>8, <1>9

\* With f the extractor is where it would be had the text t come in one piece, and f
\* adds to the speech what t adds to r, decoded at once.
Follows(f, r, t) ==
  /\ f.started <=> KeyEnd(t) # 0
  /\ ~f.started => /\ f.prefix = LastOf(t, Window)
                   /\ ~f.finished /\ ~f.escaped /\ f.digits = Null
  /\ f.started => Whole(t) = State(f.finished, f.escaped, f.digits, SpokenAtOnce(t))
  /\ SpokenAtOnce(t) = SpokenAtOnce(r) \o f.out

\* A chunk that begins wherever the last one ended.
LEMMA FeedExtracts ==
  ASSUME StreamTypeOK, digits \in Digits, Received \in Seq(Characters), Extracts,
         NEW c \in Seq(Characters), KeyFits(Received \o c)
  PROVE  Follows(Feed(c), Received, Received \o c)
<1> SUFFICES ASSUME NEW r \in Seq(Characters), r = Received,
                    NEW t \in Seq(Characters), t = r \o c, KeyFits(t), NEW f, f = Feed(c)
             PROVE  Follows(f, r, t)
  BY ConcatProperties
<1> USE DEF Follows
<1>1. started \in BOOLEAN /\ finished \in BOOLEAN /\ escaped \in BOOLEAN
  BY DEF StreamTypeOK
<1>2. /\ SpokenAtOnce(r) = IF KeyEnd(r) = 0 THEN <<>> ELSE Whole(r).out
      /\ SpokenAtOnce(r) \in Seq(Symbols)
      /\ SpokenAtOnce(t) = IF KeyEnd(t) = 0 THEN <<>> ELSE Whole(t).out
      /\ Whole(t) \in States
  BY WholeIs
<1>3. CASE started
  <2> DEFINE e == Decode(Extractor, c)
  <2>1. KeyEnd(r) # 0 /\ Whole(r) = State(finished, escaped, digits, SpokenAtOnce(r))
    BY <1>3 DEF Extracts
  <2>2. KeyEnd(t) = KeyEnd(r) /\ Whole(t) = Said(SpokenAtOnce(r), e)
    BY <1>1, <2>1, GoesOn
  <2>3. f = [out |-> e.out, prefix |-> <<>>, started |-> TRUE,
             finished |-> e.finished, escaped |-> e.escaped, digits |-> e.digits]
    BY <1>3 DEF Feed
  <2> HIDE DEF e
  <2>4. Whole(t) = State(e.finished, e.escaped, e.digits, SpokenAtOnce(r) \o e.out)
    BY <2>2 DEF Said
  <2>5. Whole(t).out = SpokenAtOnce(r) \o e.out
    BY <2>4 DEF State
  <2>6. SpokenAtOnce(t) = SpokenAtOnce(r) \o e.out
    BY <1>2, <2>1, <2>2, <2>5
  <2>7. /\ f.out = e.out /\ f.started = TRUE /\ f.finished = e.finished
        /\ f.escaped = e.escaped /\ f.digits = e.digits
    BY <2>3
  <2> QED
    BY <2>1, <2>2, <2>4, <2>6, <2>7
<1>4. CASE ~started
  <2>1. /\ KeyEnd(r) = 0 /\ prefix = LastOf(r, Window)
        /\ finished = FALSE /\ escaped = FALSE /\ digits = Null
    BY <1>1, <1>4 DEF Extracts
  <2>2. Extractor = Plain
    BY <2>1 DEF Extractor, Plain
  <2> DEFINE w == prefix \o c
  <2>3. /\ w \in Seq(Characters)
        /\ KeyEnd(w) = 0 <=> KeyEnd(t) = 0
        /\ KeyEnd(t) # 0 => SubSeq(w, KeyEnd(w) + 1, Len(w)) = SubSeq(t, KeyEnd(t) + 1, Len(t))
        /\ LastOf(w, Window) = LastOf(t, Window)
    BY <2>1, WindowFinds
  <2> DEFINE e == Decode(Extractor, SubSeq(w, KeyEnd(w) + 1, Len(w)))
  <2>4. f = IF KeyEnd(w) = 0
              THEN [out |-> <<>>, prefix |-> LastOf(w, Window), started |-> FALSE,
                    finished |-> finished, escaped |-> escaped, digits |-> digits]
              ELSE [out |-> e.out, prefix |-> <<>>, started |-> TRUE,
                    finished |-> e.finished, escaped |-> e.escaped, digits |-> e.digits]
    BY <1>4 DEF Feed
  <2>5. KeyEnd(t) # 0 => e = Whole(t)
    BY <2>2, <2>3 DEF Whole
  <2> HIDE DEF e, w
  <2>6. SpokenAtOnce(r) = <<>>
    BY <1>2, <2>1
  <2>7. CASE KeyEnd(t) = 0
    <3>1. f = [out |-> <<>>, prefix |-> LastOf(t, Window), started |-> FALSE,
               finished |-> finished, escaped |-> escaped, digits |-> digits]
      BY <2>3, <2>4, <2>7
    <3>2. /\ f.out = <<>> /\ f.prefix = LastOf(t, Window) /\ f.started = FALSE
          /\ f.finished = finished /\ f.escaped = escaped /\ f.digits = digits
      BY <3>1
    <3>3. SpokenAtOnce(t) = SpokenAtOnce(r) \o f.out
      BY <1>2, <2>6, <2>7, <3>2, ConcatEmptySeq
    <3> QED
      BY <2>1, <2>7, <3>2, <3>3
  <2>8. CASE KeyEnd(t) # 0
    <3>1. f = [out |-> e.out, prefix |-> <<>>, started |-> TRUE,
               finished |-> e.finished, escaped |-> e.escaped, digits |-> e.digits]
      BY <2>3, <2>4, <2>8
    <3>2. /\ f.out = e.out /\ f.started = TRUE /\ f.finished = e.finished
          /\ f.escaped = e.escaped /\ f.digits = e.digits
      BY <3>1
    <3>3. e = Whole(t) /\ SpokenAtOnce(t) = e.out /\ e \in States
      BY <1>2, <2>5, <2>8
    <3>4. /\ e.out \in Seq(Symbols)
          /\ e = State(e.finished, e.escaped, e.digits, e.out)
      BY <3>3, StateOf
    <3>5. SpokenAtOnce(t) = SpokenAtOnce(r) \o f.out
      BY <2>6, <3>2, <3>3, <3>4, ConcatEmptySeq
    <3> QED
      BY <2>8, <3>2, <3>3, <3>4, <3>5
  <2> QED
    BY <2>7, <2>8
<1> QED
  BY <1>3, <1>4

\* Nothing is spoken where nothing was and nothing is added.
LEMMA NothingAdded ==
  ASSUME NEW s \in Seq(Symbols), NEW o \in Seq(Symbols)
  PROVE  s \o o = <<>> <=> s = <<>> /\ o = <<>>
<1>1. /\ Len(s \o o) = Len(s) + Len(o) /\ s \o o \in Seq(Symbols)
      /\ Len(s) \in Nat /\ Len(o) \in Nat
  BY ConcatProperties, LenProperties
<1>2. \A x \in Seq(Symbols) : x = <<>> <=> Len(x) = 0
  BY EmptySeq
<1> QED
  BY <1>1, <1>2

\* A chunk of the reply is spoken as far as it goes beyond what was spoken.
LEMMA TextKeepsInv ==
  ASSUME StreamInv, NEW n \in 1 .. MaxChunk, Text(n)
  PROVE  StreamInv'
<1> DEFINE c == SubSeq(reply.text, sent + 1, sent + n)
           f == Feed(c)
<1>1. /\ buffering /\ reply # Null /\ reply \in Replies \cup Later
      /\ sent \in Nat /\ n \in Nat /\ sent + n <= Len(reply.text)
      /\ messages = <<>> /\ (streamed <=> speech # <<>>) /\ speech \in Seq(Symbols)
      /\ streamed \in BOOLEAN
  BY StreamAssumption DEF StreamInv, StreamTypeOK, Text
<1>2. /\ reply' = reply /\ sent' = sent + n /\ buffering' = buffering /\ messages' = messages
      /\ count' = count /\ chunks' = chunks \o c
      /\ streamed' = (streamed \/ f.out # <<>>) /\ speech' = speech \o f.out
      /\ prefix' = f.prefix /\ started' = f.started /\ finished' = f.finished
      /\ escaped' = f.escaped /\ digits' = f.digits
  BY DEF Text, SetExtractor
<1>3. reply.text \in Seq(Characters) /\ Len(reply.text) \in Nat
  BY <1>1, ReplyTypes
<1>4. /\ c \in Seq(Characters)
      /\ SubSeq(reply.text, 1, sent) \o c = SubSeq(reply.text, 1, sent + n)
  BY <1>1, <1>3, BeginningGrows
<1>5. Received' = Received \o c /\ Received' = SubSeq(reply.text, 1, sent + n)
  BY <1>2, <1>4 DEF Received
<1>6. Received \in Seq(Characters) /\ Received' \in Seq(Characters)
  <2>1. sent \in 0 .. Len(reply.text) /\ sent + n \in 0 .. Len(reply.text)
    BY <1>1, <1>3
  <2>2. /\ SubSeq(reply.text, 1, sent) \in Seq(Characters)
        /\ SubSeq(reply.text, 1, sent + n) \in Seq(Characters)
    BY <1>3, <2>1, BeginningIs
  <2> QED
    BY <1>5, <2>2 DEF Received
<1>7. /\ f.out \in Seq(Symbols) /\ f.prefix \in Seq(Characters) /\ Len(f.prefix) <= Window
      /\ f.started \in BOOLEAN /\ f.finished \in BOOLEAN /\ f.escaped \in BOOLEAN
      /\ f.digits \in Digits
  BY <1>4, FeedStays DEF StreamInv, StreamTypeOK
<1> HIDE DEF c, f
<1>8. StreamTypeOK'
  <2>1. chunks' = IF buffering' THEN SubSeq(reply'.text, 1, sent') ELSE <<>>
    BY <1>1, <1>2, <1>4 DEF StreamInv, StreamTypeOK
  <2>2. digits' = Null \/ Len(digits') < HexDigits
    BY <1>2, <1>7 DEF Digits
  <2>3. streamed' \in BOOLEAN /\ sent' \in Nat
    BY <1>1, <1>2
  <2> QED
    BY <1>2, <1>7, <2>1, <2>2, <2>3 DEF StreamInv, StreamTypeOK
<1>9. /\ speech' \in Seq(Symbols) /\ (streamed' <=> speech' # <<>>)
      /\ prefix' \in Seq(Characters) /\ digits' \in Digits
  BY <1>1, <1>2, <1>7, NothingAdded, ConcatProperties
<1>10. ASSUME KeyFits(reply.text), Extracts, Says
       PROVE  Extracts' /\ Says'
  <2>1. sent + n \in 0 .. Len(reply.text)
    BY <1>1, <1>3
  <2>2. KeyFits(Received')
    BY <1>3, <1>5, <1>10, <2>1, BeginningFits
  <2>3. PICK t : t = Received'
    OBVIOUS
  <2>4. Follows(f, Received, t)
    <3>1. StreamTypeOK /\ digits \in Digits
      BY DEF StreamInv
    <3> QED
      BY <1>4, <1>5, <1>6, <1>10, <2>2, <2>3, <3>1, FeedExtracts DEF f
  <2>5. /\ f.started <=> KeyEnd(t) # 0
        /\ ~f.started => /\ f.prefix = LastOf(t, Window)
                         /\ ~f.finished /\ ~f.escaped /\ f.digits = Null
        /\ f.started => Whole(t) = State(f.finished, f.escaped, f.digits, SpokenAtOnce(t))
        /\ SpokenAtOnce(t) = SpokenAtOnce(Received) \o f.out
    BY <2>4 DEF Follows
  <2>6. Extracts'
    BY <1>2, <2>3, <2>5 DEF Extracts
  <2>7. speech = SpokenAtOnce(Received)
    BY <1>1, <1>10, <2>3 DEF Says
  <2>8. speech' = SpokenAtOnce(t)
    BY <1>2, <2>5, <2>7
  <2>9. Says'
    BY <1>1, <1>2, <2>3, <2>8 DEF Says
  <2> QED
    BY <2>6, <2>9
<1> QED
  BY <1>1, <1>2, <1>8, <1>9, <1>10 DEF StreamInv

\* The inductive invariant of the pipeline: whatever was cut or interrupted, the
\* extractor is where the text received so far would put it.
THEOREM StreamInvariance == StreamSpec => []StreamInv
<1>1. StreamInit => StreamInv
  <2> SUFFICES ASSUME StreamInit PROVE StreamInv
    OBVIOUS
  <2>1. /\ reply = Null /\ sent = 0 /\ buffering = FALSE /\ chunks = <<>> /\ streamed = FALSE
        /\ prefix = <<>> /\ started = FALSE /\ finished = FALSE /\ escaped = FALSE
        /\ digits = Null /\ speech = <<>> /\ messages = <<>> /\ count = 0
    BY DEF StreamInit
  <2>2. /\ <<>> \in Seq(Characters) /\ <<>> \in Seq(Symbols) /\ Len(<<>>) <= Window
        /\ count \in 0 .. Responses /\ digits \in Digits
    BY <2>1, StreamAssumption, EmptySeq DEF Digits
  <2> QED
    BY <2>1, <2>2 DEF StreamInv, StreamTypeOK
<1>2. StreamInv /\ [StreamNext]_streamVars => StreamInv'
  <2> SUFFICES ASSUME StreamInv, [StreamNext]_streamVars PROVE StreamInv'
    OBVIOUS
  <2>1. CASE \E r \in (IF count = 0 THEN Replies ELSE Later) : Start(r)
    BY <2>1, StartKeepsInv
  <2>2. CASE \E n \in 1 .. MaxChunk : Text(n)
    BY <2>2, TextKeepsInv
  <2>3. CASE End
    BY <2>3, EndKeepsInv
  <2>4. CASE UNCHANGED streamVars
    <3>1. /\ reply' = reply /\ sent' = sent /\ buffering' = buffering /\ chunks' = chunks
          /\ streamed' = streamed /\ prefix' = prefix /\ started' = started
          /\ finished' = finished /\ escaped' = escaped /\ digits' = digits
          /\ speech' = speech /\ messages' = messages /\ count' = count
      BY <2>4 DEF streamVars, processor, extractor
    <3>2. Received' = Received
      BY <3>1 DEF Received
    <3>3. StreamTypeOK'
      BY <3>1 DEF StreamInv, StreamTypeOK
    <3>4. Extracts => Extracts'
      BY <3>1, <3>2 DEF Extracts
    <3>5. Says => Says'
      BY <3>1, <3>2 DEF Says
    <3> QED
      BY <3>1, <3>2, <3>3, <3>4, <3>5 DEF StreamInv
  <2> QED
    BY <2>1, <2>2, <2>3, <2>4 DEF StreamNext
<1> QED
  BY <1>1, <1>2, PTL DEF StreamSpec

\* What is spoken depends on the reply alone: not on how its text was cut into
\* chunks, nor on an interrupted response before it.  No reply is spoken twice, and none is
\* silent but one whose text is blank.
THEOREM SpeechFollows == StreamSpec => []SpeechOfReply
<1>1. StreamInv => SpeechOfReply
  BY DEF StreamInv, SpeechOfReply, Says
<1> QED
  BY <1>1, StreamInvariance, PTL

\* For a complete reply the browser shows what the voice says, without the blanks at
\* its ends and cut, for any maximum of its length, any window and any length of an
\* escape; a blank speech is shown as "Done.".
THEOREM SpokenAsShown == StreamSpec => []ShownIsSpoken
<1>1. StreamInv => ShownIsSpoken
  <2> SUFFICES ASSUME StreamInv, messages # <<>>, IsJson(Received), ~reply.nested,
                      KeyFits(reply.text)
               PROVE  messages[1].spoken = Shown(speech)
    BY DEF ShownIsSpoken
  <2> DEFINE p == Parse(Received, reply)
  <2>1. messages = <<p>>
    BY DEF StreamInv
  <2> HIDE DEF p
  <2>2. messages[1] = p
    BY <2>1
  <2>3. reply # Null
    BY DEF StreamInv
  <2>4. reply \in Replies \cup Later /\ sent \in Nat /\ sent <= Len(reply.text) /\ Says
    BY <2>3 DEF StreamInv, StreamTypeOK
  <2>5. reply.text \in Seq(Characters) /\ Len(reply.text) \in Nat
    BY <2>4, ReplyTypes
  <2>6. Received \in Seq(Characters)
    BY <2>4, <2>5, BeginningIs DEF Received
  <2>7. /\ String(Received).out \in Seq(Symbols)
        /\ SpokenAtOnce(Received) = String(Received).out
    BY <2>6, StringSpoken DEF IsJson
  <2>8. p.spoken = Shown(String(Received).out)
    BY <2>3, <2>4, ReplyTypes DEF p, Parse
  <2>9. CASE String(Received).out # <<>>
    BY <2>2, <2>4, <2>7, <2>8, <2>9 DEF Says
  <2>10. CASE String(Received).out = <<>>
    <3>1. speech = p.spoken
      BY <2>1, <2>2, <2>4, <2>7, <2>10 DEF Says
    <3> QED
      BY <2>2, <2>8, <2>10, <3>1, ShownEmpty
  <2> QED
    BY <2>9, <2>10
<1> QED
  BY <1>1, StreamInvariance, PTL

-----------------------------------------------------------------------------
(* Sequences of which only some elements stay. *)

\* The beginnings are the function their recursive definition describes.
LEMMA OnlyOfFirstIs ==
  ASSUME NEW X, NEW seq \in Seq(X), NEW S
  PROVE  OnlyOfFirst(seq, S) = [i \in 0 .. Len(seq) |->
           IF i = 0 THEN <<>> ELSE Further(OnlyOfFirst(seq, S)[i - 1], seq[i], S)]
<1> DEFINE Is(g, n) == g = [i \in 0 .. n |-> IF i = 0 THEN <<>> ELSE Further(g[i - 1], seq[i], S)]
           T == {n \in Nat : \E g : Is(g, n)}
           state[i \in 0 .. Len(seq)] == IF i = 0 THEN <<>> ELSE Further(state[i - 1], seq[i], S)
<1>1. ASSUME NEW n \in Nat, \A m \in 0 .. n - 1 : m \in T
      PROVE  n \in T
  <2>1. CASE n = 0
    <3>1. Is([i \in 0 .. n |-> <<>>], n)
      BY <2>1
    <3> QED
      BY <3>1
  <2>2. CASE n > 0
    <3>1. n - 1 \in T
      <4> HIDE DEF T
      <4>1. n - 1 \in 0 .. n - 1
        BY <2>2
      <4> QED
        BY <1>1, <4>1
    <3>2. PICK f : Is(f, n - 1)
      BY <3>1
    <3> DEFINE g == [i \in 0 .. n |-> IF i = n THEN Further(f[n - 1], seq[n], S) ELSE f[i]]
    <3> HIDE DEF Is
    <3>3. ASSUME NEW i \in 0 .. n
          PROVE  g[i] = IF i = 0 THEN <<>> ELSE Further(g[i - 1], seq[i], S)
      <4>1. f = [j \in 0 .. n - 1 |-> IF j = 0 THEN <<>> ELSE Further(f[j - 1], seq[j], S)]
        BY <3>2 DEF Is
      <4>2. CASE i = n
        <5>1. n - 1 \in 0 .. n /\ n - 1 # n /\ n \in 0 .. n
          BY <2>2
        <5>2. g[n - 1] = f[n - 1] /\ g[n] = Further(f[n - 1], seq[n], S)
          BY <5>1
        <5> QED
          BY <4>2, <5>2, <2>2
      <4>3. CASE i # n
        <5>1. i \in 0 .. n - 1 /\ g[i] = f[i]
          BY <4>3
        <5>2. f[i] = IF i = 0 THEN <<>> ELSE Further(f[i - 1], seq[i], S)
          BY <4>1, <5>1
        <5>3. i # 0 => g[i - 1] = f[i - 1]
          BY <5>1
        <5> QED
          BY <5>1, <5>2, <5>3
      <4> QED
        BY <4>2, <4>3
    <3>4. Is(g, n)
      BY <3>3 DEF Is
    <3> QED
      BY <3>4
  <2> QED
    BY <2>1, <2>2
<1>2. \E g : Is(g, Len(seq))
  <2> HIDE DEF T
  <2>1. Len(seq) \in T
    BY <1>1, FromBelow, LenProperties
  <2> QED
    BY <2>1 DEF T
<1> HIDE DEF state
<1>3. state = CHOOSE g : Is(g, Len(seq))
  BY DEF state
<1>4. Is(state, Len(seq))
  <2> HIDE DEF Is
  <2> QED
    BY <1>2, <1>3
<1> QED
  BY <1>4 DEF OnlyOfFirst, state

\* The first of them, and each one from the one before.
LEMMA OnlySteps ==
  ASSUME NEW X, NEW seq \in Seq(X), NEW S
  PROVE  /\ OnlyOfFirst(seq, S)[0] = <<>>
         /\ \A i \in 1 .. Len(seq) :
              OnlyOfFirst(seq, S)[i] = Further(OnlyOfFirst(seq, S)[i - 1], seq[i], S)
<1> DEFINE d == OnlyOfFirst(seq, S)
<1>1. d = [i \in 0 .. Len(seq) |-> IF i = 0 THEN <<>> ELSE Further(d[i - 1], seq[i], S)]
  BY OnlyOfFirstIs
<1>2. Len(seq) \in Nat
  BY LenProperties
<1> HIDE DEF d
<1>3. /\ d[0] = <<>>
      /\ \A i \in 1 .. Len(seq) : d[i] = Further(d[i - 1], seq[i], S)
  BY <1>1, <1>2
<1> QED
  BY <1>3 DEF d

\* The elements that stay are in the set, and there are no more than there were.
LEMMA OnlyStays ==
  ASSUME NEW X, NEW seq \in Seq(X), NEW S
  PROVE  Only(seq, S) \in Seq(X \cap S) /\ Len(Only(seq, S)) <= Len(seq)
<1> DEFINE d == OnlyOfFirst(seq, S)
           T == {n \in Nat : n <= Len(seq) => d[n] \in Seq(X \cap S) /\ Len(d[n]) <= n}
<1>1. /\ d[0] = <<>> /\ Len(seq) \in Nat
      /\ \A i \in 1 .. Len(seq) : d[i] = Further(d[i - 1], seq[i], S)
      /\ \A i \in 1 .. Len(seq) : seq[i] \in X
  BY OnlySteps, LenProperties, ElementOfSeq
<1> HIDE DEF d
<1>2. ASSUME NEW n \in Nat, \A m \in 0 .. n - 1 : m \in T
      PROVE  n \in T
  <2>1. CASE n = 0
    <3>1. <<>> \in Seq(X \cap S) /\ Len(<<>>) = 0
      BY EmptySeq
    <3>2. d[n] = <<>>
      BY <1>1, <2>1
    <3>3. d[n] \in Seq(X \cap S) /\ Len(d[n]) <= n
      <4> SUFFICES ASSUME NEW o, o = d[n]
                   PROVE  o \in Seq(X \cap S) /\ Len(o) <= n
        OBVIOUS
      <4>1. o \in Seq(X \cap S) /\ Len(o) = 0
        BY <3>1, <3>2
      <4> QED
        BY <2>1, <4>1
    <3> QED
      BY <3>3
  <2>2. CASE n > 0
    <3>1. n - 1 \in T /\ n - 1 \in Nat
      <4> HIDE DEF T
      <4>1. n - 1 \in 0 .. n - 1
        BY <2>2
      <4> QED
        BY <1>2, <4>1
    <3>2. SUFFICES ASSUME n <= Len(seq)
                   PROVE  d[n] \in Seq(X \cap S) /\ Len(d[n]) <= n
      OBVIOUS
    <3>3. d[n - 1] \in Seq(X \cap S) /\ Len(d[n - 1]) <= n - 1
      BY <1>1, <3>1, <3>2
    <3>4. n \in 1 .. Len(seq)
      BY <1>1, <2>2, <3>2
    <3>5. d[n] = Further(d[n - 1], seq[n], S) /\ seq[n] \in X
      BY <1>1, <3>4
    <3>6. CASE seq[n] \in S
      <4>1. d[n] = Append(d[n - 1], seq[n]) /\ seq[n] \in X \cap S
        BY <3>5, <3>6 DEF Further
      <4>2. Append(d[n - 1], seq[n]) \in Seq(X \cap S)
            /\ Len(Append(d[n - 1], seq[n])) = Len(d[n - 1]) + 1
        BY <3>3, <4>1, AppendProperties
      <4>3. Len(d[n - 1]) \in Nat
        BY <3>3, LenProperties
      <4> QED
        BY <3>3, <4>1, <4>2, <4>3
    <3>7. CASE seq[n] \notin S
      <4>1. d[n] = d[n - 1] /\ Len(d[n - 1]) \in Nat
        BY <3>3, <3>5, <3>7, LenProperties DEF Further
      <4> QED
        BY <3>3, <4>1
    <3> QED
      BY <3>6, <3>7
  <2> QED
    BY <2>1, <2>2
<1>3. Len(seq) \in T
  <2> HIDE DEF T
  <2> QED
    BY <1>1, <1>2, FromBelow
<1>4. d[Len(seq)] \in Seq(X \cap S) /\ Len(d[Len(seq)]) <= Len(seq)
  BY <1>1, <1>3
<1> QED
  BY <1>4 DEF Only, d

\* A sequence of elements of the set is left as it is.
LEMMA OnlyAll ==
  ASSUME NEW X, NEW seq \in Seq(X), NEW S, \A i \in 1 .. Len(seq) : seq[i] \in S
  PROVE  Only(seq, S) = seq
<1> DEFINE d == OnlyOfFirst(seq, S)
           T == {n \in Nat : n <= Len(seq) => d[n] = SubSeq(seq, 1, n)}
<1>1. /\ d[0] = <<>> /\ Len(seq) \in Nat
      /\ \A i \in 1 .. Len(seq) : d[i] = Further(d[i - 1], seq[i], S)
      /\ \A i \in 1 .. Len(seq) : seq[i] \in X
  BY OnlySteps, LenProperties, ElementOfSeq
<1> HIDE DEF d
<1>2. ASSUME NEW n \in Nat, \A m \in 0 .. n - 1 : m \in T
      PROVE  n \in T
  <2>1. CASE n = 0
    <3>1. SubSeq(seq, 1, 0) = <<>>
      BY SubSeqEmpty
    <3>2. d[n] = SubSeq(seq, 1, n)
      BY <1>1, <2>1, <3>1
    <3> QED
      BY <3>2
  <2>2. CASE n > 0
    <3>1. n - 1 \in T /\ n - 1 \in Nat
      <4> HIDE DEF T
      <4>1. n - 1 \in 0 .. n - 1
        BY <2>2
      <4> QED
        BY <1>2, <4>1
    <3>2. SUFFICES ASSUME n <= Len(seq)
                   PROVE  d[n] = SubSeq(seq, 1, n)
      OBVIOUS
    <3>3. n \in 1 .. Len(seq) /\ d[n - 1] = SubSeq(seq, 1, n - 1)
      BY <1>1, <2>2, <3>1, <3>2
    <3>4. d[n] = Append(SubSeq(seq, 1, n - 1), seq[n])
      BY <1>1, <3>3 DEF Further
    <3>5. SubSeq(seq, 1, n) = SubSeq(seq, 1, n - 1) \o <<seq[n]>>
      <4>1. 1 \in 1 .. Len(seq) /\ n \in 1 .. Len(seq)
        BY <1>1, <3>3
      <4> QED
        BY <4>1, SubSeqRecursiveSecond
    <3>6. SubSeq(seq, 1, n - 1) \in Seq(X) /\ seq[n] \in X
      <4>1. 1 \in 1 .. Len(seq) + 1 /\ n - 1 \in 1 - 1 .. Len(seq)
        BY <1>1, <3>3
      <4> QED
        BY <1>1, <3>3, <4>1, Cut
    <3> QED
      BY <3>4, <3>5, <3>6, AppendIsConcat
  <2> QED
    BY <2>1, <2>2
<1>3. Len(seq) \in T
  <2> HIDE DEF T
  <2> QED
    BY <1>1, <1>2, FromBelow
<1>4. d[Len(seq)] = seq
  BY <1>1, <1>3, SubSeqFull
<1> QED
  BY <1>4 DEF Only, d

\* The elements o are those of seq at the places g, in their order.
From(o, seq, n, g) ==
  /\ g \in [1 .. Len(o) -> 1 .. n]
  /\ \A k \in 1 .. Len(o) : o[k] = seq[g[k]]
  /\ \A k, l \in 1 .. Len(o) : k < l => g[k] < g[l]

\* What stays keeps its order.
LEMMA OnlyFrom ==
  ASSUME NEW X, NEW seq \in Seq(X), NEW S
  PROVE  \E g : From(Only(seq, S), seq, Len(seq), g)
<1> DEFINE d == OnlyOfFirst(seq, S)
           T == {n \in Nat : n <= Len(seq) =>
                   d[n] \in Seq(X) /\ \E g : From(d[n], seq, n, g)}
<1>1. /\ d[0] = <<>> /\ Len(seq) \in Nat
      /\ \A i \in 1 .. Len(seq) : d[i] = Further(d[i - 1], seq[i], S)
      /\ \A i \in 1 .. Len(seq) : seq[i] \in X
  BY OnlySteps, LenProperties, ElementOfSeq
<1> HIDE DEF d
<1>2. ASSUME NEW n \in Nat, \A m \in 0 .. n - 1 : m \in T
      PROVE  n \in T
  <2>1. CASE n = 0
    <3>1. SUFFICES ASSUME NEW o, o = d[n]
                   PROVE  o \in Seq(X) /\ \E g : From(o, seq, n, g)
      OBVIOUS
    <3>2. o \in Seq(X) /\ Len(o) = 0
      <4>1. o = <<>>
        BY <1>1, <2>1, <3>1
      <4> QED
        BY <4>1, EmptySeq
    <3>3. From(o, seq, n, [k \in 1 .. Len(o) |-> n])
      BY <3>2 DEF From
    <3> QED
      BY <3>2, <3>3
  <2>2. CASE n > 0
    <3>1. n - 1 \in T /\ n - 1 \in Nat
      <4> HIDE DEF T
      <4>1. n - 1 \in 0 .. n - 1
        BY <2>2
      <4> QED
        BY <1>2, <4>1
    <3>2. SUFFICES ASSUME n <= Len(seq)
                   PROVE  d[n] \in Seq(X) /\ \E g : From(d[n], seq, n, g)
      OBVIOUS
    <3>3. d[n - 1] \in Seq(X) /\ \E g : From(d[n - 1], seq, n - 1, g)
      BY <1>1, <3>1, <3>2
    <3>4. n \in 1 .. Len(seq)
      BY <1>1, <2>2, <3>2
    <3>5. d[n] = Further(d[n - 1], seq[n], S) /\ seq[n] \in X
      BY <1>1, <3>4
    <3>6. PICK g : From(d[n - 1], seq, n - 1, g)
      BY <3>3
    <3>7. PICK o \in Seq(X) : o = d[n - 1]
      BY <3>3
    <3>8. /\ Len(o) \in Nat /\ g \in [1 .. Len(o) -> 1 .. n - 1]
          /\ \A k \in 1 .. Len(o) : o[k] = seq[g[k]]
          /\ \A k, l \in 1 .. Len(o) : k < l => g[k] < g[l]
      BY <3>6, <3>7, LenProperties DEF From
    <3>9. CASE seq[n] \in S
      <4>1. PICK q : q = Append(o, seq[n])
        OBVIOUS
      <4>2. /\ q \in Seq(X) /\ Len(q) = Len(o) + 1 /\ q[Len(o) + 1] = seq[n]
            /\ \A k \in 1 .. Len(o) : q[k] = o[k]
        BY <3>5, <4>1, AppendProperties
      <4> DEFINE h == [k \in 1 .. Len(q) |-> IF k = Len(q) THEN n ELSE g[k]]
      <4>3. ASSUME NEW k \in 1 .. Len(q)
            PROVE  /\ h[k] \in 1 .. n /\ q[k] = seq[h[k]]
                   /\ k # Len(q) => k \in 1 .. Len(o) /\ h[k] = g[k] /\ h[k] \in 1 .. n - 1
        <5>1. CASE k = Len(q)
          BY <2>2, <4>2, <5>1
        <5>2. CASE k # Len(q)
          <6>1. k \in 1 .. Len(o) /\ h[k] = g[k]
            BY <3>8, <4>2, <5>2
          <6>2. g[k] \in 1 .. n - 1
            BY <3>8, <6>1
          <6> QED
            BY <3>8, <4>2, <5>2, <6>1, <6>2
        <5> QED
          BY <5>1, <5>2
      <4>4. ASSUME NEW k \in 1 .. Len(q), NEW l \in 1 .. Len(q), k < l
            PROVE  h[k] < h[l]
        <5>1. k # Len(q) /\ Len(q) \in Nat
          BY <3>8, <4>2, <4>4
        <5>2. k \in 1 .. Len(o) /\ h[k] = g[k] /\ h[k] \in 1 .. n - 1
          BY <4>3, <5>1
        <5>3. CASE l = Len(q)
          BY <5>2, <5>3
        <5>4. CASE l # Len(q)
          <6>1. l \in 1 .. Len(o) /\ h[l] = g[l]
            BY <4>3, <5>4
          <6> QED
            BY <3>8, <4>4, <5>2, <6>1
        <5> QED
          BY <5>3, <5>4
      <4>5. h \in [1 .. Len(q) -> 1 .. n]
        BY <4>3
      <4> HIDE DEF h
      <4>6. From(q, seq, n, h)
        BY <4>3, <4>4, <4>5 DEF From
      <4>7. d[n] = q
        BY <3>5, <3>7, <3>9, <4>1 DEF Further
      <4> QED
        BY <4>2, <4>6, <4>7
    <3>10. CASE seq[n] \notin S
      <4>1. d[n] = o
        BY <3>5, <3>7, <3>10 DEF Further
      <4>2. g \in [1 .. Len(o) -> 1 .. n]
        BY <3>8
      <4>3. From(o, seq, n, g)
        BY <3>8, <4>2 DEF From
      <4> QED
        BY <4>1, <4>3
    <3> QED
      BY <3>9, <3>10
  <2> QED
    BY <2>1, <2>2
<1>3. Len(seq) \in T
  <2> HIDE DEF T
  <2> QED
    BY <1>1, <1>2, FromBelow
<1>4. \E g : From(d[Len(seq)], seq, Len(seq), g)
  BY <1>1, <1>3
<1> QED
  BY <1>4 DEF Only, d

\* The usable values of a sequence, in their order.
LEMMA PresentIs ==
  ASSUME NEW X, NEW seq \in Seq(X \cup {Null})
  PROVE  /\ Present(seq) \in Seq(X) /\ Len(Present(seq)) <= Len(seq)
         /\ \A k \in 1 .. Len(Present(seq)) : Present(seq)[k] # Null
         /\ \E g : From(Present(seq), seq, Len(seq), g)
         /\ (\A i \in 1 .. Len(seq) : seq[i] # Null) => Present(seq) = seq
<1> DEFINE S == ToSet(seq) \ {Null}
           Y == X \cup {Null}
<1>1. Present(seq) = Only(seq, S)
  BY DEF Present
<1>2. \A i \in 1 .. Len(seq) : seq[i] # Null => seq[i] \in S
  <2>1. DOMAIN seq = 1 .. Len(seq)
    BY LenProperties
  <2> QED
    BY <2>1 DEF ToSet
<1>3. Null \notin S
  OBVIOUS
<1> HIDE DEF S
<1>4. Only(seq, S) \in Seq(Y \cap S) /\ Len(Only(seq, S)) <= Len(seq)
  BY OnlyStays
<1>5. Y \cap S \subseteq X /\ Null \notin Y \cap S
  BY <1>3
<1>6. Only(seq, S) \in Seq(X)
  BY <1>4, <1>5, SeqMonotonic
<1>7. \A k \in 1 .. Len(Only(seq, S)) : Only(seq, S)[k] \in Y \cap S
  BY <1>4, ElementOfSeq
<1>8. \E g : From(Only(seq, S), seq, Len(seq), g)
  BY OnlyFrom
<1>9. (\A i \in 1 .. Len(seq) : seq[i] # Null) => Only(seq, S) = seq
  BY <1>2, OnlyAll
<1> QED
  BY <1>1, <1>4, <1>5, <1>6, <1>7, <1>8, <1>9

\* The first n elements.
LEMMA FirstIs ==
  ASSUME NEW X, NEW seq \in Seq(X), NEW n \in Nat
  PROVE  /\ FirstOf(seq, n) \in Seq(X) /\ Len(FirstOf(seq, n)) <= n
         /\ Len(FirstOf(seq, n)) <= Len(seq)
         /\ \A k \in 1 .. Len(FirstOf(seq, n)) : FirstOf(seq, n)[k] = seq[k]
         /\ Len(seq) <= n => FirstOf(seq, n) = seq
<1> DEFINE m == IF Len(seq) < n THEN Len(seq) ELSE n
<1>1. Len(seq) \in Nat /\ m \in Nat /\ m <= n /\ m <= Len(seq)
      /\ (Len(seq) <= n => m = Len(seq))
  BY LenProperties
<1>2. FirstOf(seq, n) = SubSeq(seq, 1, m)
  BY DEF FirstOf
<1> HIDE DEF m
<1>3. 1 \in 1 .. Len(seq) + 1 /\ m \in 1 - 1 .. Len(seq) /\ m - 1 + 1 = m
  BY <1>1
<1>4. /\ SubSeq(seq, 1, m) \in Seq(X) /\ Len(SubSeq(seq, 1, m)) = m - 1 + 1
      /\ \A k \in 1 .. m - 1 + 1 : SubSeq(seq, 1, m)[k] = seq[1 + k - 1]
  BY <1>3, Cut
<1>5. \A k \in 1 .. m : 1 + k - 1 = k
  BY <1>1
<1>6. SubSeq(seq, 1, Len(seq)) = seq
  BY SubSeqFull
<1>7. /\ FirstOf(seq, n) \in Seq(X) /\ Len(FirstOf(seq, n)) = m
      /\ \A k \in 1 .. m : FirstOf(seq, n)[k] = seq[k]
  BY <1>2, <1>3, <1>4, <1>5
<1>8. Len(seq) <= n => FirstOf(seq, n) = seq
  BY <1>1, <1>2, <1>6
<1> QED
  BY <1>1, <1>7, <1>8

-----------------------------------------------------------------------------
(* What is made of a diagram. *)

\* The IDs of nodes.
Ids == DOMAIN Trimmed

\* A stripped ID is an ID or gone.
LEMMA TrimmedIs ==
  ASSUME NEW id \in Ids
  PROVE  Trimmed[id] \in Ids \cup {Null} /\ id # Null
BY PresentationAssumption DEF Ids

\* Of equal values one stays; where there are none, all do.
LEMMA DistinctIs ==
  ASSUME NEW X, NEW t \in Seq(X \cup {Null})
  PROVE  /\ Distinct(t) \in Seq(X \cup {Null}) /\ Len(Distinct(t)) = Len(t)
         /\ \A i, j \in 1 .. Len(t) :
              i < j /\ Distinct(t)[i] = Distinct(t)[j] => Distinct(t)[j] = Null
         /\ (\A i, j \in 1 .. Len(t) : t[i] = t[j] => i = j) => Distinct(t) = t
<1> DEFINE Earliest(i) == \A j \in 1 .. i - 1 : t[j] # t[i]
           D == [i \in 1 .. Len(t) |-> IF Earliest(i) THEN t[i] ELSE Null]
<1>1. Len(t) \in Nat /\ (\A i \in 1 .. Len(t) : t[i] \in X \cup {Null})
      /\ t = [i \in 1 .. Len(t) |-> t[i]]
  BY LenProperties, ElementOfSeq
<1>2. D \in [1 .. Len(t) -> X \cup {Null}]
  <2> HIDE DEF Earliest
  <2> QED
    BY <1>1
<1>3. D \in Seq(X \cup {Null}) /\ Len(D) = Len(t)
  <2> HIDE DEF D
  <2>1. D \in Seq(X \cup {Null})
    BY <1>1, <1>2, IsASeq
  <2>2. Len(D) = Len(t)
    BY <1>1, <1>2, <2>1, LenProperties
  <2> QED
    BY <2>1, <2>2
<1>4. \A i, j \in 1 .. Len(t) : i < j /\ D[i] = D[j] => D[j] = Null
  <2> SUFFICES ASSUME NEW i \in 1 .. Len(t), NEW j \in 1 .. Len(t), i < j, D[i] = D[j],
                      D[j] # Null
               PROVE  FALSE
    OBVIOUS
  <2>1. D[i] = t[i] /\ D[j] = t[j] /\ Earliest(j)
    <3> HIDE DEF Earliest
    <3> QED
      OBVIOUS
  <2>2. i \in 1 .. j - 1
    BY <1>1
  <2> QED
    BY <2>1, <2>2
<1>5. ASSUME \A i, j \in 1 .. Len(t) : t[i] = t[j] => i = j
      PROVE  D = t
  <2>1. ASSUME NEW i \in 1 .. Len(t)
        PROVE  Earliest(i)
    <3> SUFFICES ASSUME NEW j \in 1 .. i - 1 PROVE t[j] # t[i]
      OBVIOUS
    <3>1. j \in 1 .. Len(t) /\ j # i
      BY <1>1
    <3> QED
      BY <1>5, <3>1
  <2> HIDE DEF Earliest
  <2> QED
    BY <1>1, <2>1
<1>6. Distinct(t) = D
  BY DEF Distinct
<1> HIDE DEF D
<1> QED
  BY <1>3, <1>4, <1>5, <1>6

\* A flow that is consistent and within its limits.
GoodFlow(p) ==
  /\ p = [kind |-> p.kind, nodes |-> p.nodes, edges |-> p.edges]
  /\ p.kind \in {"flow", "status"}
  /\ p.nodes \in Seq(Ids) /\ p.nodes # <<>> /\ Len(p.nodes) <= MaxNodes
  /\ \A i, j \in 1 .. Len(p.nodes) : p.nodes[i] = p.nodes[j] => i = j
  /\ p.edges \in Seq(ToSet(p.nodes) \X ToSet(p.nodes)) /\ Len(p.edges) <= MaxEdges

\* Normalising a diagram again changes nothing if none of its IDs is stripped.
LEMMA GoodFlowStays ==
  ASSUME NEW p, GoodFlow(p), \A id \in ToSet(p.nodes) : Trimmed[id] = id
  PROVE  Flow(p) = p
<1>1. /\ p = [kind |-> p.kind, nodes |-> p.nodes, edges |-> p.edges]
      /\ p.nodes \in Seq(Ids) /\ p.nodes # <<>> /\ Len(p.nodes) <= MaxNodes
      /\ \A i, j \in 1 .. Len(p.nodes) : p.nodes[i] = p.nodes[j] => i = j
      /\ p.edges \in Seq(ToSet(p.nodes) \X ToSet(p.nodes)) /\ Len(p.edges) <= MaxEdges
  BY DEF GoodFlow
<1>2. MaxNodes \in Nat /\ MaxEdges \in Nat
  BY PresentationAssumption
<1>3. FirstOf(p.nodes, MaxNodes) = p.nodes /\ FirstOf(p.edges, MaxEdges) = p.edges
  BY <1>1, <1>2, FirstIs
<1>4. [i \in 1 .. Len(p.nodes) |-> Trimmed[p.nodes[i]]] = p.nodes
  <2>1. DOMAIN p.nodes = 1 .. Len(p.nodes)
    BY <1>1, LenProperties
  <2>2. \A i \in 1 .. Len(p.nodes) : Trimmed[p.nodes[i]] = p.nodes[i]
    BY <2>1 DEF ToSet
  <2>3. p.nodes = [i \in 1 .. Len(p.nodes) |-> p.nodes[i]]
    BY <1>1, LenProperties
  <2> QED
    BY <2>2, <2>3
<1>5. p.nodes \in Seq(Ids \cup {Null})
  BY <1>1, SeqMonotonic
<1>6. Distinct(p.nodes) = p.nodes
  BY <1>1, <1>5, DistinctIs
<1>7. Present(p.nodes) = p.nodes
  <2>1. \A i \in 1 .. Len(p.nodes) : p.nodes[i] # Null
    BY <1>1, ElementOfSeq, TrimmedIs
  <2> QED
    BY <1>5, <2>1, PresentIs
<1>8. Only(p.edges, ToSet(p.nodes) \X ToSet(p.nodes)) = p.edges
  <2> DEFINE S == ToSet(p.nodes) \X ToSet(p.nodes)
  <2>1. p.edges \in Seq(S)
    BY <1>1
  <2> HIDE DEF S
  <2>2. \A i \in 1 .. Len(p.edges) : p.edges[i] \in S
    BY <2>1, ElementOfSeq
  <2>3. Only(p.edges, S) = p.edges
    BY <2>1, <2>2, OnlyAll
  <2> QED
    BY <2>3 DEF S
<1>9. Flow(p) = [kind |-> p.kind, nodes |-> p.nodes, edges |-> p.edges]
  <2> DEFINE t == [i \in 1 .. Len(p.nodes) |-> Trimmed[p.nodes[i]]]
             S(nodes) == ToSet(nodes) \X ToSet(nodes)
  <2>1. Flow(p) = LET nodes == Present(Distinct(t))
                  IN IF nodes = <<>> THEN Fallback
                     ELSE [kind |-> p.kind, nodes |-> nodes, edges |-> Only(p.edges, S(nodes))]
    BY <1>3 DEF Flow
  <2>2. Present(Distinct(t)) = p.nodes
    BY <1>4, <1>6, <1>7
  <2>3. Only(p.edges, S(p.nodes)) = p.edges
    BY <1>8
  <2> HIDE DEF t, S
  <2> QED
    BY <1>1, <2>1, <2>2, <2>3
<1> QED
  BY <1>1, <1>9

\* The fallback is such a diagram.
LEMMA FallbackIsGood == GoodFlow(Fallback)
<1>1. "result" \in Ids /\ MaxNodes >= 1 /\ MaxEdges >= 0
  BY PresentationAssumption DEF Ids
<1>2. <<"result">> \in Seq(Ids) /\ Len(<<"result">>) = 1
  BY <1>1
<1>3. <<>> \in Seq(ToSet(<<"result">>) \X ToSet(<<"result">>)) /\ Len(<<>>) = 0
  BY EmptySeq
<1>4. Fallback.nodes = <<"result">> /\ Fallback.edges = <<>> /\ Fallback.kind = "status"
      /\ Fallback = [kind |-> "status", nodes |-> <<"result">>, edges |-> <<>>]
  BY DEF Fallback
<1> QED
  BY <1>1, <1>2, <1>3, <1>4 DEF GoodFlow

\* Whatever nodes and edges a model sends.
LEMMA FlowIsGood ==
  ASSUME NEW p \in RawFlow
  PROVE  GoodFlow(Flow(p))
<1> DEFINE some == FirstOf(p.nodes, MaxNodes)
           t == [i \in 1 .. Len(some) |-> Trimmed[p.nodes[i]]]
           nodes == Present(Distinct(t))
           S == ToSet(nodes) \X ToSet(nodes)
           edges == Only(FirstOf(p.edges, MaxEdges), S)
<1>1. /\ p.kind \in {"flow", "status"} /\ p.nodes \in Seq(DOMAIN Trimmed)
      /\ p.edges \in Seq(STRING \X STRING)
      /\ p = [kind |-> p.kind, nodes |-> p.nodes, edges |-> p.edges]
      /\ MaxNodes \in Nat /\ MaxEdges \in Nat
  BY PresentationAssumption DEF RawFlow
<1>2. /\ some \in Seq(DOMAIN Trimmed) /\ Len(some) <= MaxNodes /\ Len(some) \in Nat
      /\ \A i \in 1 .. Len(some) : some[i] = p.nodes[i] /\ some[i] \in Ids
  <2> HIDE DEF some
  <2>1. /\ some \in Seq(DOMAIN Trimmed) /\ Len(some) <= MaxNodes
        /\ \A i \in 1 .. Len(some) : some[i] = p.nodes[i]
    BY <1>1, FirstIs DEF some
  <2> QED
    BY <2>1, ElementOfSeq, LenProperties DEF Ids
<1> HIDE DEF some
<1>3. t \in Seq(Ids \cup {Null}) /\ Len(t) = Len(some)
  <2>1. t \in [1 .. Len(some) -> Ids \cup {Null}]
    BY <1>2, TrimmedIs
  <2> HIDE DEF t
  <2>2. t \in Seq(Ids \cup {Null})
    BY <1>2, <2>1, IsASeq
  <2> QED
    BY <1>2, <2>1, <2>2, LenProperties
<1> HIDE DEF t
<1> DEFINE D == Distinct(t)
<1>4. /\ D \in Seq(Ids \cup {Null}) /\ Len(D) = Len(t)
      /\ \A i, j \in 1 .. Len(t) : i < j /\ D[i] = D[j] => D[j] = Null
  BY <1>3, DistinctIs
<1> HIDE DEF D
<1>5. /\ nodes \in Seq(Ids) /\ Len(nodes) <= Len(D)
      /\ \A k \in 1 .. Len(nodes) : nodes[k] # Null
      /\ \E g : From(nodes, D, Len(D), g)
  BY <1>4, PresentIs DEF D
<1> HIDE DEF nodes
<1>6. \A i, j \in 1 .. Len(nodes) : nodes[i] = nodes[j] => i = j
  <2>1. PICK g : /\ g \in [1 .. Len(nodes) -> 1 .. Len(D)]
                 /\ \A k \in 1 .. Len(nodes) : nodes[k] = D[g[k]]
                 /\ \A k, l \in 1 .. Len(nodes) : k < l => g[k] < g[l]
    BY <1>5 DEF From
  <2>2. ASSUME NEW i \in 1 .. Len(nodes), NEW j \in 1 .. Len(nodes), i < j
        PROVE  nodes[i] # nodes[j]
    <3>1. g[i] \in 1 .. Len(t) /\ g[j] \in 1 .. Len(t) /\ g[i] < g[j]
      BY <1>4, <2>1, <2>2
    <3> QED
      BY <1>4, <1>5, <2>1, <3>1
  <2>3. \A i, j \in 1 .. Len(nodes) : i < j \/ j < i \/ i = j
    BY <1>5, LenProperties
  <2> QED
    BY <2>2, <2>3
<1>7. Len(nodes) <= MaxNodes
  <2>1. Len(nodes) \in Nat /\ Len(D) \in Nat
    BY <1>4, <1>5, LenProperties
  <2> QED
    BY <1>1, <1>2, <1>3, <1>4, <1>5, <2>1
<1>8. edges \in Seq(S) /\ Len(edges) <= MaxEdges
  <2>1. PICK e \in Seq(STRING \X STRING) : e = FirstOf(p.edges, MaxEdges) /\ Len(e) <= MaxEdges
    BY <1>1, FirstIs
  <2> HIDE DEF S
  <2>2. edges \in Seq((STRING \X STRING) \cap S) /\ Len(edges) <= Len(e)
    BY <2>1, OnlyStays
  <2>3. Len(edges) \in Nat /\ Len(e) \in Nat
    BY <2>1, <2>2, LenProperties
  <2>4. (STRING \X STRING) \cap S \subseteq S
    OBVIOUS
  <2>5. edges \in Seq(S)
    BY <2>2, <2>4, SeqMonotonic
  <2> QED
    BY <1>1, <2>1, <2>2, <2>3, <2>5
<1> HIDE DEF edges
<1>9. Flow(p) = IF nodes = <<>> THEN Fallback 
               ELSE [kind |-> p.kind, nodes |-> nodes, edges |-> edges]
  BY DEF Flow, edges, nodes, D, t, some
<1>10. CASE nodes = <<>>
  BY <1>9, <1>10, FallbackIsGood
<1>11. CASE nodes # <<>>
  <2>1. Flow(p) = [kind |-> p.kind, nodes |-> nodes, edges |-> edges]
    BY <1>9, <1>11
  <2> QED
    BY <1>1, <1>5, <1>6, <1>7, <1>8, <1>11, <2>1 DEF GoodFlow
<1> QED
  BY <1>10, <1>11

\* The browser can draw a good flow, and normalising it changes nothing.
LEMMA GoodFlowShows ==
  ASSUME NEW p, NEW raw, GoodFlow(p)
  PROVE  Consistent(raw, p) /\ Stable(p)
<1>1. /\ p.kind \in {"flow", "status"} /\ p.nodes # <<>>
      /\ \A i, j \in 1 .. Len(p.nodes) : p.nodes[i] = p.nodes[j] => i = j
      /\ p.edges \in Seq(ToSet(p.nodes) \X ToSet(p.nodes))
  BY DEF GoodFlow
<1>2. \A e \in ToSet(p.edges) : {e[1], e[2]} \subseteq ToSet(p.nodes)
  <2> DEFINE S == ToSet(p.nodes)
  <2>1. \A i \in 1 .. Len(p.edges) : p.edges[i] \in S \X S
    <3> HIDE DEF S
    <3> QED
      BY <1>1, ElementOfSeq DEF S
  <2>2. DOMAIN p.edges = 1 .. Len(p.edges)
    BY <1>1, LenProperties
  <2>3. \A e \in ToSet(p.edges) : e \in S \X S
    BY <2>1, <2>2 DEF ToSet
  <2> HIDE DEF S
  <2>4. \A e \in ToSet(p.edges) : {e[1], e[2]} \subseteq S
    BY <2>3
  <2> QED
    BY <2>4 DEF S
<1>3. Consistent(raw, p)
  BY <1>1, <1>2 DEF Consistent
<1>4. Normalize(p) = Flow(p)
  BY <1>1 DEF Normalize
<1>5. CASE \A id \in ToSet(p.nodes) : Trimmed[id] = id
  BY <1>3, <1>4, <1>5, GoodFlowStays DEF Stable
<1>6. CASE \E id \in ToSet(p.nodes) : Trimmed[id] # id
  BY <1>1, <1>3, <1>6 DEF Stable
<1> QED
  BY <1>5, <1>6

-----------------------------------------------------------------------------
(* What is made of a drawing. *)

\* The largest number of a set that has one.
LEMMA LargestIs ==
  ASSUME NEW S \in SUBSET Int, NEW m \in S, \A n \in S : n <= m
  PROVE  Largest(S) \in S /\ \A n \in S : n <= Largest(S)
BY DEF Largest

\* The numbers in V are b and f[1] to f[L].
Lists(V, b, f, L) ==
  /\ L \in Nat /\ b \in Int /\ f \in [1 .. L -> Int]
  /\ V = {b} \cup {f[i] : i \in 1 .. L}

\* There is a largest one of finitely many numbers.
LEMMA LargestOf ==
  ASSUME NEW V, NEW b, NEW f, NEW L, Lists(V, b, f, L)
  PROVE  Largest(V) \in V /\ (\A n \in V : n <= Largest(V)) /\ V \subseteq Int
<1>0. L \in Nat /\ b \in Int /\ f \in [1 .. L -> Int] /\ V = {b} \cup {f[i] : i \in 1 .. L}
  BY DEF Lists
<1> DEFINE S(k) == {b} \cup {f[i] : i \in 1 .. k}
           T == {k \in Nat : k <= L => \E m \in S(k) : \A n \in S(k) : n <= m}
<1>1. ASSUME NEW k \in Nat, \A l \in 0 .. k - 1 : l \in T
      PROVE  k \in T
  <2>1. CASE k = 0
    <3>1. b \in S(k) /\ \A n \in S(k) : n <= b
      BY <1>0, <2>1
    <3> HIDE DEF S
    <3> QED
      BY <3>1
  <2>2. CASE k > 0
    <3>1. SUFFICES ASSUME k <= L
                   PROVE  \E m \in S(k) : \A n \in S(k) : n <= m
      OBVIOUS
    <3>2. k - 1 \in T
      <4> HIDE DEF T
      <4>1. k - 1 \in 0 .. k - 1
        BY <2>2
      <4> QED
        BY <1>1, <4>1
    <3>3. PICK m \in S(k - 1) : \A n \in S(k - 1) : n <= m
      BY <1>0, <2>2, <3>1, <3>2
    <3>4. S(k) = S(k - 1) \cup {f[k]}
      <4>1. \A i \in 1 .. k : i \in 1 .. k - 1 \/ i = k
        OBVIOUS
      <4>2. \A i \in 1 .. k - 1 : i \in 1 .. k
        OBVIOUS
      <4>3. k \in 1 .. k
        BY <2>2
      <4> QED
        BY <4>1, <4>2, <4>3
    <3>5. f[k] \in Int /\ \A n \in S(k - 1) : n \in Int
      BY <1>0, <2>2, <3>1
    <3> HIDE DEF S
    <3>6. CASE f[k] <= m
      BY <3>3, <3>4, <3>5, <3>6
    <3>7. CASE f[k] > m
      <4>1. \A n \in S(k) : n <= f[k]
        BY <3>3, <3>4, <3>5, <3>7
      <4> QED
        BY <3>4, <4>1
    <3> QED
      BY <3>3, <3>5, <3>6, <3>7
  <2> QED
    BY <2>1, <2>2
<1>2. L \in T
  <2> HIDE DEF T
  <2> QED
    BY <1>0, <1>1, FromBelow
<1>3. PICK m \in S(L) : \A n \in S(L) : n <= m
  BY <1>0, <1>2
<1>4. S(L) \in SUBSET Int
  BY <1>0
<1> HIDE DEF S
<1>5. Largest(S(L)) \in S(L) /\ \A n \in S(L) : n <= Largest(S(L))
  BY <1>3, <1>4, LargestIs
<1>6. V = S(L)
  BY <1>0 DEF S
<1> QED
  BY <1>4, <1>5, <1>6

\* The fields of an element.
LEMMA ElementIs ==
  ASSUME NEW e \in RawElement
  PROVE  /\ e.x \in Int /\ e.y \in Int /\ e.w \in Int /\ e.h \in Int /\ e # Null
         /\ IsCamera(e) <=> e \in RawCamera
         /\ ~IsCamera(e) <=> e \in RawShape
         /\ IsCamera(e) => e.id = Null
         /\ e = [type |-> e.type, id |-> e.id, x |-> e.x, y |-> e.y, w |-> e.w, h |-> e.h]
<1>1. e # Null
  BY PresentationAssumption
<1> QED
  BY <1>1 DEF RawElement, RawShape, RawCamera, IsCamera

\* The room needed is enough for every shape.
LEMMA NeededIs ==
  ASSUME NEW els \in Seq(RawElement), NEW c \in RawCamera
  PROVE  /\ Needed(c, els)[1] \in Int /\ Needed(c, els)[2] \in Int
         /\ \A i \in 1 .. Len(els) : ~IsCamera(els[i]) =>
              /\ els[i].x + els[i].w - c.x + Margin <= Needed(c, els)[1]
              /\ els[i].y + els[i].h - c.y + Margin <= Needed(c, els)[2]
<1> DEFINE L == Len(els)
           shapes == {e \in ToSet(els) : ~IsCamera(e)}
           Wide(e) == e.x + Extent(e.w) - c.x + Margin
           High(e) == e.y + Extent(e.h) - c.y + Margin
           v == [i \in 1 .. L |-> IF ~IsCamera(els[i]) THEN Wide(els[i]) ELSE 400]
           u == [i \in 1 .. L |-> IF ~IsCamera(els[i]) THEN High(els[i]) ELSE 300]
           V == {400} \cup {Wide(e) : e \in shapes}
           U == {300} \cup {High(e) : e \in shapes}
<1>1. L \in Nat /\ DOMAIN els = 1 .. L /\ \A i \in 1 .. L : els[i] \in RawElement
  BY LenProperties, ElementOfSeq
<1>2. c.x \in Int /\ c.y \in Int /\ Margin \in Int
  BY DEF RawCamera, Margin
<1>3. \A e \in RawElement : Wide(e) \in Int /\ High(e) \in Int
  <2>1. \A n \in Int : Extent(n) \in Int
    BY DEF Extent
  <2> QED
    BY <1>2, <2>1, ElementIs
<1> HIDE DEF Wide, High
<1>4. v \in [1 .. L -> Int] /\ u \in [1 .. L -> Int]
  BY <1>1, <1>3
<1>5. \A e : e \in shapes <=> \E i \in 1 .. L : e = els[i] /\ ~IsCamera(els[i])
  BY <1>1 DEF ToSet
<1> HIDE DEF shapes, L
<1>6. V = {400} \cup {v[i] : i \in 1 .. L} /\ U = {300} \cup {u[i] : i \in 1 .. L}
  BY <1>5
<1> HIDE DEF v, u, V, U
<1>7. Lists(V, 400, v, L) /\ Lists(U, 300, u, L)
  BY <1>1, <1>4, <1>6 DEF Lists
<1>8. Largest(V) \in V /\ (\A n \in V : n <= Largest(V)) /\ V \subseteq Int
  BY <1>7, LargestOf
<1>9. Largest(U) \in U /\ (\A n \in U : n <= Largest(U)) /\ U \subseteq Int
  BY <1>7, LargestOf
<1>10. \A i \in 1 .. L : ~IsCamera(els[i]) => Wide(els[i]) \in V /\ High(els[i]) \in U
  BY <1>5 DEF V, U
<1>11. Needed(c, els) = <<Largest(V), Largest(U)>>
  BY DEF Needed, V, U, shapes, Wide, High
<1>12. Needed(c, els)[1] = Largest(V) /\ Needed(c, els)[2] = Largest(U)
  BY <1>11
<1>13. \A i \in 1 .. L : ~IsCamera(els[i]) =>
         Wide(els[i]) <= Needed(c, els)[1] /\ High(els[i]) <= Needed(c, els)[2]
  BY <1>8, <1>9, <1>10, <1>12
<1>14. Needed(c, els)[1] \in Int /\ Needed(c, els)[2] \in Int
  BY <1>8, <1>9, <1>12
<1>15. ASSUME NEW i \in 1 .. L, ~IsCamera(els[i])
       PROVE  /\ els[i].x + els[i].w - c.x + Margin <= Needed(c, els)[1]
              /\ els[i].y + els[i].h - c.y + Margin <= Needed(c, els)[2]
  <2>1. /\ els[i].x \in Int /\ els[i].w \in Int /\ els[i].y \in Int /\ els[i].h \in Int
    BY <1>1, ElementIs
  <2>2. \A x, w, cx, m \in Int :
          x + Extent(w) - cx + Margin <= m => x + w - cx + Margin <= m
    BY <1>2 DEF Extent
  <2>3. /\ els[i].x + Extent(els[i].w) - c.x + Margin <= Needed(c, els)[1]
        /\ els[i].y + Extent(els[i].h) - c.y + Margin <= Needed(c, els)[2]
    BY <1>13, <1>15 DEF Wide, High
  <2> QED
    BY <1>2, <1>14, <2>1, <2>2, <2>3
<1> QED
  BY <1>14, <1>15 DEF L

\* The sizes a camera can be given are 4:3.
LEMMA SizesIs ==
  /\ Len(Sizes) = 5
  /\ \A i \in 1 .. 5 : /\ Sizes[i][1] \in Nat \ {0} /\ Sizes[i][2] \in Nat \ {0}
                       /\ 3 * Sizes[i][1] = 4 * Sizes[i][2]
<1>1. Len(Sizes) = 5
  BY DEF Sizes
<1>2. /\ Sizes[1][1] = 400 /\ Sizes[1][2] = 300 /\ Sizes[2][1] = 600 /\ Sizes[2][2] = 450
      /\ Sizes[3][1] = 800 /\ Sizes[3][2] = 600 /\ Sizes[4][1] = 1200 /\ Sizes[4][2] = 900
      /\ Sizes[5][1] = 1600 /\ Sizes[5][2] = 1200
  BY DEF Sizes
<1>3. \A i \in 1 .. 5 : i = 1 \/ i = 2 \/ i = 3 \/ i = 4 \/ i = 5
  OBVIOUS
<1> QED
  BY <1>1, <1>2, <1>3

\* The first size that fits is one that fits.
LEMMA FirstFit ==
  ASSUME NEW F \in SUBSET (1 .. 5), F # {}
  PROVE  -Largest({-i : i \in F}) \in F
<1>1. PICK m \in F : \A i \in F : m <= i
  BY Least
<1> DEFINE S == {-i : i \in F}
<1>2. S \in SUBSET Int /\ -m \in S /\ \A n \in S : n <= -m
  BY <1>1
<1>3. Largest(S) \in S
  <2> HIDE DEF S
  <2> QED
    BY <1>2, LargestIs
<1>4. PICK i \in F : Largest(S) = -i
  BY <1>3
<1>5. -(-i) = i
  OBVIOUS
<1> QED
  BY <1>4, <1>5

\* A camera that is repaired is a camera of its proportions, and shows every shape
\* unless it was right before or has the largest size.
LEMMA RepairIs ==
  ASSUME NEW els \in Seq(RawElement), NEW c \in RawCamera
  PROVE  LET r == RepairCamera(c, els)
         IN /\ r \in RawCamera /\ FourByThree(r)
            /\ FourByThree(c) => r = c
            /\ \/ r = c
               \/ r.w = Sizes[5][1]
               \/ \A i \in 1 .. Len(els) : ~IsCamera(els[i]) => Shows(r, els[i])
<1> DEFINE needed == Needed(c, els)
           fits == {i \in 1 .. Len(Sizes) : Sizes[i][1] >= needed[1] /\ Sizes[i][2] >= needed[2]}
           n == IF fits = {} THEN 5 ELSE -Largest({-i : i \in fits})
           r == RepairCamera(c, els)
<1>1. CASE FourByThree(c)
  BY <1>1 DEF RepairCamera
<1>2. CASE ~FourByThree(c)
  <2>1. Len(Sizes) = 5
    BY SizesIs
  <2>2. r = [type |-> "camera", id |-> Null, x |-> c.x, y |-> c.y,
             w |-> Sizes[n][1], h |-> Sizes[n][2]]
    BY <1>2, <2>1 DEF RepairCamera
  <2>3. fits \subseteq 1 .. 5 /\ \A i \in fits : Sizes[i][1] >= needed[1] /\ Sizes[i][2] >= needed[2]
    BY <2>1
  <2>4. /\ needed[1] \in Int /\ needed[2] \in Int
        /\ \A i \in 1 .. Len(els) : ~IsCamera(els[i]) =>
             /\ els[i].x + els[i].w - c.x + Margin <= needed[1]
             /\ els[i].y + els[i].h - c.y + Margin <= needed[2]
    BY NeededIs
  <2> HIDE DEF fits, needed
  <2>5. n \in 1 .. 5 /\ (fits # {} => n \in fits) /\ (fits = {} => n = 5)
    <3>1. CASE fits = {}
      BY <3>1
    <3>2. CASE fits # {}
      <4>1. -Largest({-i : i \in fits}) \in fits
        BY <2>3, <3>2, FirstFit
      <4>2. n = -Largest({-i : i \in fits})
        BY <3>2
      <4> HIDE DEF n
      <4> QED
        BY <2>3, <3>2, <4>1, <4>2
    <3> QED
      BY <3>1, <3>2
  <2> HIDE DEF n, r
  <2>6. /\ Sizes[n][1] \in Nat \ {0} /\ Sizes[n][2] \in Nat \ {0}
        /\ 3 * Sizes[n][1] = 4 * Sizes[n][2]
    BY <2>5, SizesIs
  <2>7. c.x \in Int /\ c.y \in Int
    BY DEF RawCamera
  <2>8. /\ r.type = "camera" /\ r.id = Null /\ r.x = c.x /\ r.y = c.y
        /\ r.w = Sizes[n][1] /\ r.h = Sizes[n][2]
    BY <2>2
  <2>9. r \in RawCamera /\ FourByThree(r)
    <3>1. Sizes[n][1] \in Int /\ Sizes[n][2] \in Int /\ Sizes[n][1] > 0 /\ Sizes[n][2] > 0
      BY <2>6
    <3>2. r \in RawCamera
      BY <2>2, <2>7, <3>1 DEF RawCamera
    <3>3. FourByThree(r)
      BY <2>6, <2>8, <3>1 DEF FourByThree
    <3> QED
      BY <3>2, <3>3
  <2>10. CASE fits = {}
    BY <1>2, <2>5, <2>8, <2>9, <2>10 DEF r
  <2>11. CASE fits # {}
    <3>1. Sizes[n][1] >= needed[1] /\ Sizes[n][2] >= needed[2]
      BY <2>3, <2>5, <2>11
    <3>2. ASSUME NEW i \in 1 .. Len(els), ~IsCamera(els[i])
          PROVE  Shows(r, els[i])
      <4>1. /\ els[i].x \in Int /\ els[i].w \in Int /\ els[i].y \in Int /\ els[i].h \in Int
        <5>1. els[i] \in RawElement
          BY ElementOfSeq
        <5> QED
          BY <5>1, ElementIs
      <4>2. /\ els[i].x + els[i].w - c.x + Margin <= needed[1]
            /\ els[i].y + els[i].h - c.y + Margin <= needed[2]
        BY <2>4, <3>2
      <4>3. \A x, w, cx, m, s \in Int :
              x + w - cx + Margin <= m /\ s >= m => x + w <= cx + s
        BY DEF Margin
      <4>4. Sizes[n][1] \in Int /\ Sizes[n][2] \in Int
        BY <2>6
      <4>5. els[i].x + els[i].w <= c.x + Sizes[n][1]
        BY <2>4, <2>7, <3>1, <4>1, <4>2, <4>3, <4>4
      <4>6. els[i].y + els[i].h <= c.y + Sizes[n][2]
        BY <2>4, <2>7, <3>1, <4>1, <4>2, <4>3, <4>4
      <4>7. els[i].x + els[i].w <= r.x + r.w /\ els[i].y + els[i].h <= r.y + r.h
        BY <2>8, <4>5, <4>6
      <4> QED
        BY <4>7 DEF Shows
    <3> QED
      BY <1>2, <2>9, <3>2 DEF r
  <2> QED
    BY <2>10, <2>11
<1> QED
  BY <1>1, <1>2

\* No shape has the ID of an element before it.
OwnIds(els) ==
  \A j \in 1 .. Len(els) : ~IsCamera(els[j]) =>
    els[j].id # Null /\ \A i \in 1 .. j - 1 : els[i].id # els[j].id

\* A drawing that is consistent: its cameras have their proportions, and are as they
\* were sent or show what there is.
GoodDrawing(raw, p) ==
  /\ p = [kind |-> "excalidraw", elements |-> p.elements]
  /\ p.elements \in Seq(RawElement) /\ OwnIds(p.elements)
  /\ \E i \in 1 .. Len(p.elements) : IsCamera(p.elements[i])
  /\ \A i \in 1 .. Len(p.elements) : IsCamera(p.elements[i]) =>
       /\ FourByThree(p.elements[i])
       /\ \/ p.elements[i] \in ToSet(raw.elements)
          \/ p.elements[i].w = Sizes[5][1]
          \/ \A k \in 1 .. Len(p.elements) :
               ~IsCamera(p.elements[k]) => Shows(p.elements[i], p.elements[k])

\* The elements that stay of a drawing.
KeptOf(raw) ==
  LET New(i) == \/ IsCamera(raw[i])
                \/ raw[i].id # Null /\ \A j \in 1 .. i - 1 : raw[j].id # raw[i].id
  IN Present([i \in 1 .. Len(raw) |-> IF New(i) THEN raw[i] ELSE Null])

\* Shapes with a new ID stay, and where all are new everything does.
LEMMA KeptIs ==
  ASSUME NEW raw \in Seq(RawElement)
  PROVE  /\ KeptOf(raw) \in Seq(RawElement) /\ OwnIds(KeptOf(raw))
         /\ \A k \in 1 .. Len(KeptOf(raw)) : \E i \in 1 .. Len(raw) : KeptOf(raw)[k] = raw[i]
         /\ OwnIds(raw) => KeptOf(raw) = raw
<1> DEFINE New(i) == \/ IsCamera(raw[i])
                     \/ raw[i].id # Null /\ \A j \in 1 .. i - 1 : raw[j].id # raw[i].id
           seq == [i \in 1 .. Len(raw) |-> IF New(i) THEN raw[i] ELSE Null]
           kept == Present(seq)
<1>1. /\ Len(raw) \in Nat /\ \A i \in 1 .. Len(raw) : raw[i] \in RawElement /\ raw[i] # Null
      /\ raw = [i \in 1 .. Len(raw) |-> raw[i]]
  BY LenProperties, ElementOfSeq, PresentationAssumption
<1> HIDE DEF New
<1>2. seq \in Seq(RawElement \cup {Null}) /\ Len(seq) = Len(raw)
      /\ \A i \in 1 .. Len(raw) : seq[i] # Null => New(i) /\ seq[i] = raw[i]
  <2>1. seq \in [1 .. Len(raw) -> RawElement \cup {Null}]
    BY <1>1
  <2>2. \A i \in 1 .. Len(raw) : seq[i] # Null => New(i) /\ seq[i] = raw[i]
    OBVIOUS
  <2> HIDE DEF seq
  <2>3. seq \in Seq(RawElement \cup {Null})
    BY <1>1, <2>1, IsASeq
  <2> QED
    BY <1>1, <2>1, <2>2, <2>3, LenProperties
<1>3. KeptOf(raw) = kept
  BY DEF KeptOf, New
<1>4. /\ kept \in Seq(RawElement) /\ \A k \in 1 .. Len(kept) : kept[k] # Null
      /\ \E g : From(kept, seq, Len(seq), g)
      /\ (\A i \in 1 .. Len(seq) : seq[i] # Null) => kept = seq
  <2> HIDE DEF seq
  <2> QED
    BY <1>2, PresentIs
<1>5. ASSUME OwnIds(raw)
      PROVE  kept = raw
  <2>1. \A i \in 1 .. Len(raw) : New(i)
    BY <1>5 DEF OwnIds, New
  <2>2. seq = raw
    BY <1>1, <2>1
  <2> HIDE DEF seq, kept
  <2> QED
    BY <1>1, <1>4, <2>2
<1> HIDE DEF seq, kept
<1>6. PICK g : /\ g \in [1 .. Len(kept) -> 1 .. Len(raw)]
               /\ \A k \in 1 .. Len(kept) : kept[k] = seq[g[k]]
               /\ \A k, l \in 1 .. Len(kept) : k < l => g[k] < g[l]
  BY <1>2, <1>4 DEF From
<1>7. \A k \in 1 .. Len(kept) : g[k] \in 1 .. Len(raw) /\ New(g[k]) /\ kept[k] = raw[g[k]]
  BY <1>2, <1>4, <1>6
<1>8. OwnIds(kept)
  <2>1. SUFFICES ASSUME NEW j \in 1 .. Len(kept), ~IsCamera(kept[j])
                 PROVE  kept[j].id # Null /\ \A i \in 1 .. j - 1 : kept[i].id # kept[j].id
    BY DEF OwnIds
  <2>2. /\ raw[g[j]].id # Null
        /\ \A i \in 1 .. g[j] - 1 : raw[i].id # raw[g[j]].id
    BY <1>7, <2>1 DEF New
  <2>3. ASSUME NEW i \in 1 .. j - 1
        PROVE  kept[i].id # kept[j].id
    <3>1. i \in 1 .. Len(kept) /\ i < j
      BY <1>4, LenProperties
    <3>2. g[i] \in 1 .. g[j] - 1
      BY <1>6, <1>7, <3>1
    <3> QED
      BY <1>7, <2>2, <3>1, <3>2
  <2> QED
    BY <1>7, <2>2, <2>3
<1> QED
  BY <1>3, <1>4, <1>5, <1>7, <1>8

\* A drawing has a camera; and each of its cameras is repaired.
WithCamera(kept) ==
  IF \E i \in 1 .. Len(kept) : IsCamera(kept[i]) THEN kept ELSE <<NoCamera>> \o kept

RepairedOf(els) ==
  [kind |-> "excalidraw", elements |-> [i \in 1 .. Len(els) |->
     IF IsCamera(els[i]) THEN RepairCamera(els[i], els) ELSE els[i]]]

\* What is drawn.
LEMMA DrawingIs ==
  ASSUME NEW p, NEW raw, raw = FirstOf(p.elements, MaxElements)
  PROVE  Excalidraw(p) =
           IF KeptOf(raw) = <<>> THEN Fallback ELSE RepairedOf(WithCamera(KeptOf(raw)))
BY DEF Excalidraw, KeptOf, WithCamera, RepairedOf

\* The drawing with each camera repaired.
LEMMA RepairedIsGood ==
  ASSUME NEW raw, NEW els \in Seq(RawElement), OwnIds(els),
         \E i \in 1 .. Len(els) : IsCamera(els[i]),
         \A i \in 1 .. Len(els) :
           IsCamera(els[i]) => ~FourByThree(els[i]) \/ els[i] \in ToSet(raw.elements),
         NEW p, p = RepairedOf(els)
  PROVE  GoodDrawing(raw, p)
<1> DEFINE n == [i \in 1 .. Len(els) |->
                   IF IsCamera(els[i]) THEN RepairCamera(els[i], els) ELSE els[i]]
<1>1. /\ p.elements = n /\ p = [kind |-> "excalidraw", elements |-> p.elements]
      /\ Len(els) \in Nat /\ \A i \in 1 .. Len(els) : els[i] \in RawElement
  BY LenProperties, ElementOfSeq DEF RepairedOf
<1>2. ASSUME NEW i \in 1 .. Len(els)
      PROVE  /\ n[i] \in RawElement /\ n[i].id = els[i].id
             /\ IsCamera(n[i]) <=> IsCamera(els[i])
             /\ ~IsCamera(els[i]) => n[i] = els[i]
             /\ IsCamera(els[i]) => n[i] = RepairCamera(els[i], els)
  <2>1. CASE IsCamera(els[i])
    <3>1. n[i] = RepairCamera(els[i], els) /\ els[i] \in RawCamera
      BY <1>1, <2>1, ElementIs
    <3>2. n[i] \in RawCamera
      BY <3>1, RepairIs
    <3>3. n[i].id = Null /\ els[i].id = Null /\ IsCamera(n[i]) /\ n[i] \in RawElement
      BY <3>1, <3>2 DEF RawElement, RawCamera, IsCamera
    <3> QED
      BY <2>1, <3>1, <3>3
  <2>2. CASE ~IsCamera(els[i])
    BY <1>1, <2>2
  <2> QED
    BY <2>1, <2>2
<1>3. n \in Seq(RawElement) /\ Len(n) = Len(els)
  <2>1. n = [i \in 1 .. Len(els) |-> n[i]]
    OBVIOUS
  <2> HIDE DEF n
  <2>2. n \in [1 .. Len(els) -> RawElement]
    BY <1>2, <2>1
  <2>3. n \in Seq(RawElement)
    BY <1>1, <2>2, IsASeq
  <2> QED
    BY <1>1, <2>2, <2>3, LenProperties
<1> HIDE DEF n
<1>4. OwnIds(n)
  <2>1. SUFFICES ASSUME NEW j \in 1 .. Len(els), ~IsCamera(n[j])
                 PROVE  n[j].id # Null /\ \A i \in 1 .. j - 1 : n[i].id # n[j].id
    BY <1>3 DEF OwnIds
  <2>2. ~IsCamera(els[j]) /\ n[j].id = els[j].id
    BY <1>2, <2>1
  <2>3. els[j].id # Null /\ \A i \in 1 .. j - 1 : els[i].id # els[j].id
    BY <2>2 DEF OwnIds
  <2>4. \A i \in 1 .. j - 1 : i \in 1 .. Len(els) /\ n[i].id = els[i].id
    BY <1>1, <1>2
  <2> QED
    BY <2>2, <2>3, <2>4
<1>5. \E i \in 1 .. Len(n) : IsCamera(n[i])
  BY <1>2, <1>3
<1>6. ASSUME NEW i \in 1 .. Len(n), IsCamera(n[i])
      PROVE  /\ FourByThree(n[i])
             /\ \/ n[i] \in ToSet(raw.elements)
                \/ n[i].w = Sizes[5][1]
                \/ \A k \in 1 .. Len(n) : ~IsCamera(n[k]) => Shows(n[i], n[k])
  <2>1. i \in 1 .. Len(els) /\ IsCamera(els[i]) /\ n[i] = RepairCamera(els[i], els)
    BY <1>2, <1>3, <1>6
  <2>2. els[i] \in RawCamera
    BY <1>1, <2>1, ElementIs
  <2>3. /\ FourByThree(n[i])
        /\ \/ n[i] = els[i]
           \/ n[i].w = Sizes[5][1]
           \/ \A k \in 1 .. Len(els) : ~IsCamera(els[k]) => Shows(n[i], els[k])
    BY <2>1, <2>2, RepairIs
  <2>4. n[i] = els[i] => n[i] \in ToSet(raw.elements)
    BY <2>1, <2>3
  <2>5. (\A k \in 1 .. Len(els) : ~IsCamera(els[k]) => Shows(n[i], els[k]))
          => \A k \in 1 .. Len(n) : ~IsCamera(n[k]) => Shows(n[i], n[k])
    BY <1>2, <1>3
  <2> QED
    BY <2>3, <2>4, <2>5
<1> QED
  BY <1>1, <1>3, <1>4, <1>5, <1>6 DEF GoodDrawing

\* A drawing is one that can be shown, or the fallback.
LEMMA DrawingIsGood ==
  ASSUME NEW p \in RawDrawing, Excalidraw(p) # Fallback
  PROVE  GoodDrawing(p, Excalidraw(p))
<1>1. p.elements \in Seq(RawElement) /\ MaxElements \in Nat
  BY PresentationAssumption DEF RawDrawing
<1>2. PICK raw \in Seq(RawElement) : raw = FirstOf(p.elements, MaxElements)
  BY <1>1, FirstIs
<1>3. \A i \in 1 .. Len(raw) : raw[i] \in ToSet(p.elements)
  <2>1. /\ Len(raw) <= Len(p.elements) /\ Len(raw) \in Nat /\ Len(p.elements) \in Nat
        /\ \A k \in 1 .. Len(raw) : raw[k] = p.elements[k]
        /\ DOMAIN p.elements = 1 .. Len(p.elements)
    BY <1>1, <1>2, FirstIs, LenProperties
  <2>2. \A i \in 1 .. Len(raw) : i \in DOMAIN p.elements
    BY <2>1
  <2> QED
    BY <2>1, <2>2 DEF ToSet
<1> DEFINE kept == KeptOf(raw)
           els == WithCamera(kept)
<1>4. /\ kept \in Seq(RawElement) /\ OwnIds(kept)
      /\ \A k \in 1 .. Len(kept) : kept[k] \in ToSet(p.elements)
  BY <1>3, KeptIs
<1>5. Excalidraw(p) = RepairedOf(els)
  BY <1>2, DrawingIs
<1> HIDE DEF kept
<1>6. /\ els \in Seq(RawElement) /\ OwnIds(els)
      /\ \E i \in 1 .. Len(els) : IsCamera(els[i])
      /\ \A i \in 1 .. Len(els) :
           IsCamera(els[i]) => ~FourByThree(els[i]) \/ els[i] \in ToSet(p.elements)
  <2>1. CASE \E i \in 1 .. Len(kept) : IsCamera(kept[i])
    <3>1. els = kept
      BY <2>1 DEF WithCamera
    <3> QED
      BY <1>4, <2>1, <3>1
  <2>2. CASE ~\E i \in 1 .. Len(kept) : IsCamera(kept[i])
    <3>1. NoCamera \in RawElement /\ IsCamera(NoCamera) /\ ~FourByThree(NoCamera)
          /\ NoCamera.id = Null
      BY DEF NoCamera, RawElement, RawCamera, IsCamera, FourByThree
    <3>2. PICK one \in Seq(RawElement) : one = <<NoCamera>> /\ Len(one) = 1 /\ one[1] = NoCamera
      BY <3>1, Single
    <3>3. PICK all \in Seq(RawElement) : all = one \o kept
      BY <1>4, ConcatProperties
    <3>4. /\ Len(all) = 1 + Len(kept) /\ Len(kept) \in Nat /\ all[1] = NoCamera
          /\ \A i \in 1 .. Len(kept) : all[1 + i] = kept[i]
      <4>1. /\ Len(all) = Len(one) + Len(kept)
            /\ \A i \in 1 .. Len(one) + Len(kept) :
                 all[i] = IF i <= Len(one) THEN one[i] ELSE kept[i - Len(one)]
        BY <1>4, <3>3, ConcatProperties
      <4>2. Len(kept) \in Nat
        BY <1>4, LenProperties
      <4> QED
        BY <3>2, <4>1, <4>2
    <3>5. els = all
      BY <2>2, <3>2, <3>3 DEF WithCamera
    <3>6. ASSUME NEW j \in 1 .. Len(all), j # 1
          PROVE  /\ j - 1 \in 1 .. Len(kept) /\ all[j] = kept[j - 1]
                 /\ ~IsCamera(all[j]) /\ all[j].id # Null
                 /\ \A i \in 2 .. j - 1 : all[i].id # all[j].id
      <4>1. j - 1 \in 1 .. Len(kept) /\ 1 + (j - 1) = j
        BY <3>4, <3>6
      <4>2. all[j] = kept[j - 1] /\ ~IsCamera(kept[j - 1])
        BY <2>2, <3>4, <4>1
      <4>3. /\ kept[j - 1].id # Null
            /\ \A i \in 1 .. j - 1 - 1 : kept[i].id # kept[j - 1].id
        BY <1>4, <4>1, <4>2 DEF OwnIds
      <4>4. ASSUME NEW i \in 2 .. j - 1
            PROVE  all[i].id # all[j].id
        <5>1. i - 1 \in 1 .. j - 1 - 1 /\ i - 1 \in 1 .. Len(kept) /\ 1 + (i - 1) = i
          BY <3>4
        <5>2. all[i] = kept[i - 1]
          BY <3>4, <5>1
        <5> QED
          BY <4>2, <4>3, <5>1, <5>2
      <4> QED
        BY <4>1, <4>2, <4>3, <4>4
    <3>7. OwnIds(all)
      <4>1. SUFFICES ASSUME NEW j \in 1 .. Len(all), ~IsCamera(all[j])
                     PROVE  all[j].id # Null /\ \A i \in 1 .. j - 1 : all[i].id # all[j].id
        BY DEF OwnIds
      <4>2. j # 1
        BY <3>1, <3>4, <4>1
      <4>3. \A i \in 1 .. j - 1 : i = 1 \/ i \in 2 .. j - 1
        OBVIOUS
      <4> QED
        BY <3>1, <3>4, <3>6, <4>2, <4>3
    <3>8. 1 \in 1 .. Len(all) /\ IsCamera(all[1]) /\ ~FourByThree(all[1])
      BY <3>1, <3>4
    <3> HIDE DEF els
    <3> QED
      BY <3>5, <3>6, <3>7, <3>8
  <2> QED
    BY <2>1, <2>2
<1> HIDE DEF els
<1> QED
  BY <1>5, <1>6, RepairedIsGood

\* Normalising a drawing again changes nothing, if it is not over its limit.
LEMMA GoodDrawingStays ==
  ASSUME NEW raw, NEW p, GoodDrawing(raw, p), Len(p.elements) <= MaxElements
  PROVE  Excalidraw(p) = p
<1> DEFINE els == p.elements
<1>1. /\ p = [kind |-> "excalidraw", elements |-> els]
      /\ els \in Seq(RawElement) /\ OwnIds(els) /\ MaxElements \in Nat
      /\ \E i \in 1 .. Len(els) : IsCamera(els[i])
      /\ \A i \in 1 .. Len(els) : IsCamera(els[i]) => FourByThree(els[i])
  BY PresentationAssumption DEF GoodDrawing
<1>2. FirstOf(els, MaxElements) = els
  BY <1>1, FirstIs
<1>3. KeptOf(els) = els
  BY <1>1, KeptIs
<1>4. els # <<>>
  BY <1>1
<1>5. \A i \in 1 .. Len(els) : IsCamera(els[i]) => RepairCamera(els[i], els) = els[i]
  BY <1>1 DEF RepairCamera
<1>6. els = [i \in 1 .. Len(els) |-> els[i]]
  BY <1>1, LenProperties
<1>7. [i \in 1 .. Len(els) |-> IF IsCamera(els[i]) THEN RepairCamera(els[i], els) ELSE els[i]] = els
  BY <1>5, <1>6
<1>8. Excalidraw(p) = RepairedOf(els)
  <2>1. WithCamera(els) = els
    BY <1>1 DEF WithCamera
  <2> QED
    BY <1>1, <1>2, <1>3, <1>4, <2>1, DrawingIs
<1>9. RepairedOf(els) = [kind |-> "excalidraw", elements |-> els]
  BY <1>7 DEF RepairedOf
<1> QED
  BY <1>1, <1>8, <1>9

-----------------------------------------------------------------------------
(* What is shown. *)

\* A good drawing is consistent, and stays as it is unless it is over its limit.
LEMMA GoodDrawingShows ==
  ASSUME NEW raw, NEW p, GoodDrawing(raw, p), Normalize(p) = Excalidraw(p)
  PROVE  Consistent(raw, p) /\ Stable(p)
<1> DEFINE els == p.elements
           cameras == {e \in ToSet(els) : IsCamera(e)}
           shapes == {i \in 1 .. Len(els) : ~IsCamera(els[i])}
<1>1. /\ p.kind = "excalidraw" /\ els \in Seq(RawElement) /\ OwnIds(els)
      /\ \E i \in 1 .. Len(els) : IsCamera(els[i])
  BY DEF GoodDrawing
<1>2. ToSet(els) = {els[i] : i \in 1 .. Len(els)} /\ Len(els) \in Nat
  BY <1>1, LenProperties DEF ToSet
<1>3. cameras # {}
  BY <1>1, <1>2
<1>4. ASSUME NEW i \in shapes, NEW j \in shapes, els[i].id = els[j].id
      PROVE  i = j
  <2>1. i \notin 1 .. j - 1 /\ j \notin 1 .. i - 1
    BY <1>1, <1>4 DEF OwnIds
  <2> QED
    BY <1>2, <2>1
<1>5. ASSUME NEW c \in cameras
      PROVE  /\ FourByThree(c)
             /\ \/ c \in ToSet(raw.elements)
                \/ c.w = Sizes[Len(Sizes)][1]
                \/ \A i \in shapes : Shows(c, els[i])
  <2>1. PICK i \in 1 .. Len(els) : c = els[i] /\ IsCamera(els[i])
    BY <1>2
  <2>2. /\ FourByThree(els[i])
        /\ \/ els[i] \in ToSet(raw.elements)
           \/ els[i].w = Sizes[5][1]
           \/ \A k \in 1 .. Len(els) : ~IsCamera(els[k]) => Shows(els[i], els[k])
    BY <2>1 DEF GoodDrawing
  <2>3. Len(Sizes) = 5
    BY SizesIs
  <2> QED
    BY <2>1, <2>2, <2>3
<1>6. Consistent(raw, p)
  BY <1>1, <1>3, <1>4, <1>5 DEF Consistent
<1>7. Stable(p)
  <2>1. CASE Len(els) > MaxElements
    BY <1>1, <2>1 DEF Stable
  <2>2. CASE ~(Len(els) > MaxElements)
    <3>1. Len(els) <= MaxElements
      BY <1>2, <2>2, PresentationAssumption
    <3>2. Excalidraw(p) = p
      BY <3>1, GoodDrawingStays
    <3> QED
      BY <3>2 DEF Stable
  <2> QED
    BY <2>1, <2>2
<1> QED
  BY <1>6, <1>7

\* A journal that is shown quotes its own transcript.
LEMMA JournalShows ==
  ASSUME NEW p \in RawJournal, Journal(p) = p
  PROVE  Consistent(p, p)
<1> DEFINE e == p.evidence
<1>1. p.kind = "journal" /\ p.transcript \in Seq(Nat) /\ e \in {Null} \cup RawEvidence
  BY DEF RawJournal
<1>2. ASSUME e # Null, NEW i \in 1 .. Len(e.quote)
      PROVE  p.transcript[e.start + i] = e.quote[i]
  <2>1. e \in RawEvidence
    BY <1>1, <1>2
  <2>2. /\ e.quote # <<>> /\ 0 <= e.start /\ e.start < e.end
        /\ Slice(p.transcript, e.start, e.end) = e.quote
    <3>1. Fallback.kind = "status"
      BY DEF Fallback
    <3>2. Journal(p) # Fallback
      BY <1>1, <3>1
    <3> QED
      BY <1>2, <3>2 DEF Journal
  <2>3. /\ e.quote \in Seq(Nat) /\ e.start \in Int /\ e.end \in Int
        /\ Len(p.transcript) \in Nat /\ Len(e.quote) \in Nat
    BY <1>1, <2>1, LenProperties DEF RawEvidence
  <2>4. PICK n : n = IF e.end < Len(p.transcript) THEN e.end ELSE Len(p.transcript)
    OBVIOUS
  <2>5. SubSeq(p.transcript, e.start + 1, n) = e.quote
    BY <2>2, <2>4 DEF Slice
  <2>6. n \in Nat /\ n <= Len(p.transcript) /\ e.start \in Nat
    BY <2>2, <2>3, <2>4
  <2>7. CASE e.start + 1 <= n
    <3>1. e.start + 1 \in 1 .. Len(p.transcript) + 1 /\ n \in e.start + 1 - 1 .. Len(p.transcript)
      BY <2>3, <2>6, <2>7
    <3>2. /\ Len(SubSeq(p.transcript, e.start + 1, n)) = n - (e.start + 1) + 1
          /\ \A k \in 1 .. n - (e.start + 1) + 1 :
               SubSeq(p.transcript, e.start + 1, n)[k] = p.transcript[e.start + 1 + k - 1]
      <4>1. PICK s : s = e.start + 1
        OBVIOUS
      <4>2. s \in 1 .. Len(p.transcript) + 1 /\ n \in s - 1 .. Len(p.transcript)
        BY <2>3, <2>6, <2>7, <4>1
      <4>3. /\ Len(SubSeq(p.transcript, s, n)) = n - s + 1
            /\ \A k \in 1 .. n - s + 1 : SubSeq(p.transcript, s, n)[k] = p.transcript[s + k - 1]
        BY <1>1, <4>2, Cut
      <4> QED
        BY <4>1, <4>3
    <3>3. e.quote[i] = p.transcript[e.start + 1 + i - 1]
      BY <1>2, <2>5, <3>2
    <3>4. e.start + 1 + i - 1 = e.start + i
      BY <2>6, <1>2
    <3> QED
      BY <3>3, <3>4
  <2>8. CASE ~(e.start + 1 <= n)
    <3>1. SubSeq(p.transcript, e.start + 1, n) = <<>>
      BY <1>1, <2>3, <2>6, <2>8, SubSeqProperties
    <3> QED
      BY <2>2, <2>5, <3>1
  <2> QED
    BY <2>7, <2>8
<1> QED
  BY <1>1, <1>2 DEF Consistent

\* Whatever the model sends, what is made of it is consistent and stays as it is.
LEMMA NormalizeShows ==
  ASSUME NEW p, IsRaw(p)
  PROVE  Consistent(p, Normalize(p)) /\ Stable(Normalize(p))
<1>1. p.kind \in {"flow", "status", "excalidraw", "journal", "slides", "viewer", "trace", "none"}
  BY DEF IsRaw
<1>2. Consistent(p, Fallback) /\ Stable(Fallback)
  BY FallbackIsGood, GoodFlowShows
<1>3. CASE p.kind \in {"flow", "status"}
  <2>1. p \in RawFlow /\ Normalize(p) = Flow(p)
    BY <1>3 DEF IsRaw, Normalize
  <2> QED
    BY <2>1, FlowIsGood, GoodFlowShows
<1>4. CASE p.kind = "excalidraw"
  <2>1. p \in RawDrawing /\ Normalize(p) = Excalidraw(p)
    BY <1>4 DEF IsRaw, Normalize
  <2>2. ASSUME Excalidraw(p) # Fallback
        PROVE  Consistent(p, Excalidraw(p)) /\ Stable(Excalidraw(p))
    <3>1. GoodDrawing(p, Excalidraw(p))
      BY <2>1, <2>2, DrawingIsGood
    <3>2. Excalidraw(p).kind = "excalidraw"
      BY <3>1 DEF GoodDrawing
    <3>3. Normalize(Excalidraw(p)) = Excalidraw(Excalidraw(p))
      BY <3>2 DEF Normalize
    <3> QED
      BY <3>1, <3>3, GoodDrawingShows
  <2> QED
    BY <1>2, <2>1, <2>2
<1>5. CASE p.kind = "journal"
  <2>1. p \in RawJournal /\ Normalize(p) = Journal(p)
    BY <1>5 DEF IsRaw, Normalize
  <2>2. Journal(p) = p \/ Journal(p) = Fallback
    BY DEF Journal
  <2>3. Journal(p) = p => Consistent(p, p) /\ Stable(p)
    BY <2>1, JournalShows DEF Stable
  <2> QED
    BY <1>2, <2>1, <2>2, <2>3
<1>6. CASE p.kind = "slides"
  <2>1. Normalize(p) = Slides(p) /\ (Slides(p) = p \/ Slides(p) = Fallback)
    BY <1>6 DEF Normalize, Slides
  <2>2. Slides(p) = p => Consistent(p, p) /\ Stable(p)
    BY <1>6, <2>1 DEF Consistent, Stable
  <2> QED
    BY <1>2, <2>1, <2>2
<1>7. CASE p.kind = "viewer"
  <2>1. Normalize(p) = Viewer(p)
    BY <1>7 DEF Normalize
  <2>2. \/ Viewer(p) = Fallback
        \/ /\ Viewer(p) = p /\ p.trace = p.viewer
           /\ p.preview \in {Null, p.viewer} /\ p.video \in {Null, p.viewer}
    BY DEF Viewer
  <2>3. CASE Viewer(p) # Fallback
    BY <1>7, <2>1, <2>2, <2>3 DEF Consistent, Stable
  <2> QED
    BY <1>2, <2>1, <2>3
<1>8. CASE p.kind = "trace"
  <2>1. Normalize(p) = Trace(p) /\ (Trace(p) = p \/ Trace(p) = Fallback)
    BY <1>8 DEF Normalize, Trace
  <2>2. Trace(p) = p => Consistent(p, p) /\ Stable(p)
    BY <1>8, <2>1 DEF Consistent, Stable
  <2> QED
    BY <1>2, <2>1, <2>2
<1>9. CASE p.kind = "none"
  BY <1>2, <1>9 DEF Normalize
<1> QED
  BY <1>1, <1>3, <1>4, <1>5, <1>6, <1>7, <1>8, <1>9

\* The app shown is consistent in itself and stays as it is when it is normalised
\* again, whatever the model sent and for any limits.
THEOREM ShownConsistent == StreamSpec => []AppIsConsistent
<1>1. StreamInv => AppIsConsistent
  <2> SUFFICES ASSUME StreamInv, messages # <<>>
               PROVE  Consistent(reply.app, messages[1].app) /\ Stable(messages[1].app)
    BY DEF AppIsConsistent
  <2> DEFINE p == Parse(Received, reply)
  <2>1. messages = <<p>> /\ reply \in Replies \cup Later
    BY DEF StreamInv, StreamTypeOK
  <2>2. p.app = IF IsJson(Received) THEN Normalize(reply.app) ELSE Fallback
    BY DEF Parse
  <2> HIDE DEF p
  <2>3. messages[1] = p
    BY <2>1
  <2>4. IsRaw(reply.app)
    BY <2>1, StreamAssumption
  <2>5. Consistent(reply.app, Fallback) /\ Stable(Fallback)
    BY FallbackIsGood, GoodFlowShows
  <2> QED
    BY <2>2, <2>3, <2>4, <2>5, NormalizeShows
<1> QED
  BY <1>1, StreamInvariance, PTL

=============================================================================
