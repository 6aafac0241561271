--------------------------- MODULE TaskBridgeProofs ---------------------------
(***************************************************************************)
(* Proofs about TaskBridge: for any clients and any number of prompts, no  *)
(* send misses its settlement, the answer that it returns is its own, and  *)
(* the idle timer does not close a conversation under a prompt.            *)
(***************************************************************************)
EXTENDS TaskBridge, FiniteSetTheorems, TLAPS

Records == {"ok", "settled", "close"}

\* What a client finds on its socket: a record, a response with a settlement behind it.
Has(s, record) == \E i \in 1..Len(s) : s[i] = record
Answered(s) == \E i, j \in 1..Len(s) : i < j /\ s[i] = "ok" /\ s[j] = "settled"

\* At most one response, and nothing after the end of the socket.
WellFormed(s) ==
  /\ \A i, j \in 1..Len(s) : s[i] = "ok" /\ s[j] = "ok" => i = j
  /\ \A i \in 1..Len(s) : s[i] = "close" => i = Len(s)

OwnerTypes ==
  /\ run \in Runs /\ aborted \in BOOLEAN /\ session \in {"none", "open", "closed"}
  /\ listening \in BOOLEAN /\ timer \in BOOLEAN
  /\ closing \in {"no", "server", "session", "done"}
  /\ cause \in {"none", "idle", "stop", "unwind", "abort"}
  /\ active \in Nat /\ lastAnswer \in SUBSET Prompts

TalkTypes ==
  /\ current \in SUBSET Prompts /\ queue \in Seq(Prompts)
  /\ handler \in [Prompts -> {"none", "wait", "answered", "failed", "over"}]
  /\ text \in [Prompts -> SUBSET Prompts]

SocketTypes ==
  /\ accepted \in SUBSET Clients /\ inbox \in [Clients -> Seq(Records)]

Sends == [prompt : Prompts, busy : BOOLEAN, settled : BOOLEAN, alone : BOOLEAN,
          old : SUBSET Prompts]

CallTypes == pc \in [Clients -> Points] /\ call \in [Clients -> Sends]

Types == OwnerTypes /\ TalkTypes /\ SocketTypes /\ CallTypes

\* The prompts that the conversation works on wait, each in one place; an answer is of its
\* own prompt; a prompt that is not over is counted.
TalkInv ==
  /\ \A p \in current : handler[p] = "wait"
  /\ \A i \in 1..Len(queue) : handler[queue[i]] = "wait" /\ queue[i] \notin current
  /\ \A i, j \in 1..Len(queue) : queue[i] = queue[j] => i = j
  /\ \A p \in Prompts : handler[p] = "answered" => p \in text[p]
  /\ Cardinality(Unfinished) <= active

Fresh == run \in {"boot", "open", "start"}
Early == Fresh \/ run = "listen"

\* Before the server listens there is neither a client nor a prompt, and before it is ready
\* the instruction is not submitted; the timer is that of a session that was handed over, and
\* closes one that nobody can reach.
PhaseInv ==
  /\ Fresh => /\ accepted = {} /\ ~listening
              /\ \A c \in Clients : inbox[c] = <<>> /\ pc[c] = "detached"
              /\ \A p \in Prompts : handler[p] = "none"
  /\ Early => handler[0] = "none"
  /\ timer => run = "handed"
  /\ cause = "idle" => /\ run = "handed" /\ closing # "no" /\ ~listening /\ accepted = {}
                       /\ Unfinished = {} /\ active = 0

\* A response is on the socket only while its request waits for it.
SocketInv(c) ==
  /\ WellFormed(inbox[c])
  /\ Has(inbox[c], "ok") => pc[c] = "prompt"
  /\ Has(inbox[c], "close") => ~listening /\ c \notin accepted
  /\ call[c].settled => pc[c] \in {"resolved", "waiting", "text"}

\* A settlement that came after the response of this send.
Heard(c) ==
  \/ pc[c] = "prompt" /\ Answered(inbox[c])
  \/ pc[c] = "resolved" /\ (call[c].settled \/ Has(inbox[c], "settled"))
  \/ pc[c] = "waiting" /\ Has(inbox[c], "settled")
  \/ pc[c] = "text"

\* The prompt of this send has got its response, or will read it.
Taken(c) == \/ pc[c] = "prompt" /\ Has(inbox[c], "ok")
            \/ pc[c] \in {"resolved", "waiting", "text"}

OwnAnswer(c) == lastAnswer # {} =>
  /\ call[c].alone => call[c].prompt \in lastAnswer
  /\ ~ lastAnswer \subseteq call[c].old

\* A send whose prompt is over has heard of it, and what it has heard of made the last
\* answer one from after its prompt.
SendInv(c) == c \in accepted /\ pc[c] \in Sending =>
  /\ call[c].prompt # 0
  /\ \A p \in call[c].old : handler[p] = "over"
  /\ call[c].alone => Unfinished \subseteq {call[c].prompt}
  /\ Taken(c) => call[c].prompt \in Unfinished \/ Heard(c)
  /\ Heard(c) => OwnAnswer(c)

BridgeInv ==
  /\ Types /\ TalkInv /\ PhaseInv
  /\ \A c \in Clients : SocketInv(c) /\ SendInv(c)
-----------------------------------------------------------------------------
(* The records on a socket. *)

\* A record that is written behind the others.
LEMMA Written ==
  ASSUME NEW s \in Seq(Records), NEW record \in Records
  PROVE  LET t == Append(s, record) IN
         /\ t \in Seq(Records) /\ t # <<>>
         /\ \A r : Has(t, r) <=> Has(s, r) \/ r = record
         /\ Answered(t) <=> Answered(s) \/ (record = "settled" /\ Has(s, "ok"))
         /\ WellFormed(s) /\ ~Has(s, "close") /\ ~(record = "ok" /\ Has(s, "ok")) => WellFormed(t)
<1> DEFINE t == Append(s, record)
<1>1. /\ t \in Seq(Records) /\ Len(t) = Len(s) + 1 /\ Len(s) \in Nat
      /\ \A i \in 1..Len(s) : t[i] = s[i]
      /\ t[Len(s) + 1] = record
  OBVIOUS
<1>2. \A i \in 1..Len(t) : i \in 1..Len(s) \/ i = Len(s) + 1
  BY <1>1
<1>3. /\ 1..Len(s) \subseteq 1..Len(t) /\ Len(s) + 1 \in 1..Len(t)
      /\ \A i \in 1..Len(s) : i < Len(s) + 1 /\ ~(Len(s) + 1 < i) /\ i # Len(s) + 1
  BY <1>1
<1> HIDE DEF t
<1>4. \A r : Has(t, r) <=> Has(s, r) \/ r = record
  BY <1>1, <1>2, <1>3 DEF Has
<1>5. Answered(t) <=> Answered(s) \/ (record = "settled" /\ Has(s, "ok"))
  BY <1>1, <1>2, <1>3 DEF Has, Answered
<1>6. WellFormed(s) /\ ~Has(s, "close") /\ ~(record = "ok" /\ Has(s, "ok")) => WellFormed(t)
  BY <1>1, <1>2, <1>3 DEF Has, WellFormed
<1>7. t # <<>>
  BY <1>1
<1> QED
  BY <1>1, <1>4, <1>5, <1>6, <1>7 DEF t

\* A record that is read.
LEMMA Read ==
  ASSUME NEW s \in Seq(Records), s # <<>>
  PROVE  /\ Tail(s) \in Seq(Records) /\ Head(s) \in Records
         /\ \A r : Has(s, r) <=> Head(s) = r \/ Has(Tail(s), r)
         /\ Answered(s) <=> Answered(Tail(s)) \/ (Head(s) = "ok" /\ Has(Tail(s), "settled"))
         /\ WellFormed(s) => /\ WellFormed(Tail(s))
                             /\ Head(s) = "ok" => ~Has(Tail(s), "ok")
                             /\ Head(s) = "close" => ~Has(Tail(s), "ok")
<1> DEFINE t == Tail(s)
<1>1. /\ t \in Seq(Records) /\ Len(t) = Len(s) - 1 /\ Len(s) \in Nat \ {0}
      /\ \A i \in 1..Len(t) : t[i] = s[i + 1]
      /\ Head(s) = s[1] /\ s[1] \in Records
  OBVIOUS
<1>2. /\ \A i \in 1..Len(s) : i = 1 \/ (i - 1 \in 1..Len(t) /\ t[i - 1] = s[i] /\ 1 < i)
      /\ \A i \in 1..Len(t) : i + 1 \in 1..Len(s) /\ 1 < i + 1
      /\ 1 \in 1..Len(s)
  BY <1>1
<1> HIDE DEF t
<1>3. \A r : Has(s, r) <=> Head(s) = r \/ Has(t, r)
  BY <1>1, <1>2 DEF Has
<1>4. Answered(t) \/ (Head(s) = "ok" /\ Has(t, "settled")) => Answered(s)
  <2>1. ASSUME Answered(t) PROVE Answered(s)
    <3>1. PICK i, j \in 1..Len(t) : i < j /\ t[i] = "ok" /\ t[j] = "settled"
      BY <2>1 DEF Answered
    <3> QED
      BY <1>1, <1>2, <3>1 DEF Answered
  <2>2. ASSUME Head(s) = "ok", Has(t, "settled") PROVE Answered(s)
    BY <1>1, <1>2, <2>2 DEF Answered, Has
  <2> QED
    BY <2>1, <2>2
<1>5. ASSUME Answered(s) PROVE Answered(t) \/ (Head(s) = "ok" /\ Has(t, "settled"))
  <2>1. PICK i, j \in 1..Len(s) : i < j /\ s[i] = "ok" /\ s[j] = "settled"
    BY <1>5 DEF Answered
  <2>2. j - 1 \in 1..Len(t) /\ t[j - 1] = "settled"
    BY <1>2, <2>1
  <2>3. CASE i = 1
    BY <1>1, <2>1, <2>2, <2>3 DEF Has
  <2>4. CASE i # 1
    <3>1. i - 1 \in 1..Len(t) /\ t[i - 1] = "ok" /\ i - 1 < j - 1
      BY <1>2, <2>1, <2>4
    <3> QED
      BY <2>2, <3>1 DEF Answered
  <2> QED
    BY <2>3, <2>4
<1>6. ASSUME WellFormed(s)
      PROVE  /\ WellFormed(t)
             /\ Head(s) = "ok" => ~Has(t, "ok")
             /\ Head(s) = "close" => ~Has(t, "ok")
  <2>1. WellFormed(t)
    <3>1. ASSUME NEW i \in 1..Len(t), NEW j \in 1..Len(t), t[i] = "ok", t[j] = "ok" PROVE i = j
      <4>1. s[i + 1] = "ok" /\ s[j + 1] = "ok" /\ i + 1 \in 1..Len(s) /\ j + 1 \in 1..Len(s)
        BY <1>1, <1>2, <3>1
      <4>2. i + 1 = j + 1
        BY <1>6, <4>1 DEF WellFormed
      <4> QED
        BY <4>2
    <3>2. ASSUME NEW i \in 1..Len(t), t[i] = "close" PROVE i = Len(t)
      <4>1. s[i + 1] = "close" /\ i + 1 \in 1..Len(s)
        BY <1>1, <1>2, <3>2
      <4>2. i + 1 = Len(s)
        BY <1>6, <4>1 DEF WellFormed
      <4> QED
        BY <1>1, <4>2
    <3> QED
      BY <3>1, <3>2 DEF WellFormed
  <2>2. ASSUME Head(s) = "ok", Has(t, "ok") PROVE FALSE
    <3>1. PICK i \in 1..Len(t) : t[i] = "ok"
      BY <2>2 DEF Has
    <3>2. s[i + 1] = "ok" /\ i + 1 \in 1..Len(s) /\ i + 1 # 1
      BY <1>1, <1>2, <3>1
    <3> QED
      BY <1>1, <1>2, <1>6, <2>2, <3>2 DEF WellFormed
  <2>3. ASSUME Head(s) = "close", Has(t, "ok") PROVE FALSE
    <3>1. 1 = Len(s)
      BY <1>1, <1>2, <1>6, <2>3 DEF WellFormed
    <3> QED
      BY <1>1, <2>3, <3>1 DEF Has
  <2> QED
    BY <2>1, <2>2, <2>3
<1> QED
  BY <1>1, <1>3, <1>4, <1>5, <1>6 DEF t

\* An empty socket, and one that has only its end.
LEMMA Emptied ==
  /\ \A r : ~Has(<<>>, r)
  /\ \A r : Has(<<"close">>, r) <=> r = "close"
  /\ ~Answered(<<>>) /\ ~Answered(<<"close">>)
  /\ WellFormed(<<>>) /\ WellFormed(<<"close">>)
  /\ <<>> \in Seq(Records) /\ <<"close">> \in Seq(Records)
<1>1. Len(<<>>) = 0 /\ Len(<<"close">>) = 1 /\ <<"close">>[1] = "close"
  OBVIOUS
<1>2. \A i \in 1..1 : i = 1
  OBVIOUS
<1> QED
  BY <1>1, <1>2 DEF Has, Answered, WellFormed, Records

\* A response with a settlement behind it is a response.
LEMMA AnsweredHas ==
  ASSUME NEW s, Answered(s)
  PROVE  Has(s, "ok") /\ Has(s, "settled")
  BY DEF Answered, Has

-----------------------------------------------------------------------------
(* Types. *)

\* What a broadcast writes, and to whom.
LEMMA Broadcasts ==
  ASSUME Types, NEW record \in {"settled", "close"}, Broadcast(record)
  PROVE  /\ inbox' \in [Clients -> Seq(Records)]
         /\ \A c \in Clients :
              /\ inbox'[c] = inbox[c] \/ (c \in accepted /\ inbox'[c] = Append(inbox[c], record))
              /\ c \in accepted /\ (record = "close" \/ Heeds(c)) =>
                   inbox'[c] = Append(inbox[c], record)
<1>1. record \in Records
  BY DEF Records
<1>2. \A c \in Clients : Append(inbox[c], record) \in Seq(Records)
  BY <1>1 DEF Types, OwnerTypes, TalkTypes, SocketTypes
<1> QED
  BY <1>2 DEF Types, OwnerTypes, TalkTypes, SocketTypes, Broadcast

\* close: it begins, or it has begun before.
LEMMA Closes ==
  ASSUME Types, NEW who \in {"idle", "stop", "unwind", "abort"}, CloseBridge(who)
  PROVE  /\ inbox' \in [Clients -> Seq(Records)]
         /\ \/ closing # "no" /\ UNCHANGED <<listening, closing, cause, timer, accepted, inbox>>
            \/ /\ closing = "no" /\ closing' = "server" /\ cause' = who /\ timer' = FALSE
               /\ listening' = FALSE /\ accepted' = {}
               /\ \A c \in Clients : \/ inbox'[c] = inbox[c]
                                     \/ c \in accepted /\ inbox'[c] = Append(inbox[c], "close")
<1>1. CASE closing # "no"
  BY <1>1 DEF CloseBridge, Types, SocketTypes
<1>2. CASE closing = "no"
  BY <1>2, Broadcasts DEF CloseBridge
<1> QED
  BY <1>1, <1>2

\* The submissions of a run settle: none of them is over, and their answers are theirs.
LEMMA Settles ==
  ASSUME Types, TalkInv, NEW how \in {"answered", "failed"}, NextRun(how)
  PROVE  /\ current' \in SUBSET Prompts /\ queue' \in Seq(Prompts)
         /\ handler' \in [Prompts -> {"none", "wait", "answered", "failed", "over"}]
         /\ text' \in [Prompts -> SUBSET Prompts]
         /\ Unfinished' = Unfinished
         /\ \A p \in Prompts : handler[p] = "over" <=> handler'[p] = "over"
         /\ \A p \in Prompts : handler[p] = "none" <=> handler'[p] = "none"
         /\ \A p \in current' : handler'[p] = "wait"
         /\ \A i \in 1..Len(queue') : handler'[queue'[i]] = "wait" /\ queue'[i] \notin current'
         /\ \A i, j \in 1..Len(queue') : queue'[i] = queue'[j] => i = j
         /\ \A p \in Prompts : handler'[p] = "answered" => p \in text'[p]
<1>1. /\ \A p \in Prompts : handler'[p] = IF p \in current THEN how ELSE handler[p]
      /\ \A p \in Prompts :
           text'[p] = IF p \in current /\ how = "answered" THEN current ELSE text[p]
      /\ handler' \in [Prompts -> {"none", "wait", "answered", "failed", "over"}]
      /\ text' \in [Prompts -> SUBSET Prompts]
  BY DEF NextRun, Types, OwnerTypes, TalkTypes, SocketTypes
<1>2. Unfinished' = Unfinished
  BY <1>1 DEF Unfinished, TalkInv, Types, OwnerTypes, TalkTypes, SocketTypes
<1>3. \A p \in Prompts : handler'[p] = "answered" => p \in text'[p]
  BY <1>1 DEF TalkInv
<1>4. CASE queue = <<>>
  <2>1. current' = {} /\ queue' = <<>> /\ Len(queue') = 0
    BY <1>4 DEF NextRun
  <2> QED
    BY <1>1, <1>2, <1>3, <2>1 DEF TalkInv, Types, OwnerTypes, TalkTypes, SocketTypes
<1>5. CASE queue # <<>>
  <2>1. /\ current' = {queue[1]} /\ queue' \in Seq(Prompts) /\ queue[1] \in Prompts
        /\ 1 \in 1..Len(queue)
        /\ \A i \in 1..Len(queue') : /\ queue'[i] = queue[i + 1] /\ queue[i + 1] \in Prompts
                                     /\ i + 1 \in 1..Len(queue) /\ i + 1 # 1
    <3>1. queue \in Seq(Prompts) /\ queue # <<>> /\ current' = {Head(queue)} /\ queue' = Tail(queue)
      BY <1>5 DEF NextRun, Types, OwnerTypes, TalkTypes, SocketTypes
    <3>2. /\ Head(queue) = queue[1] /\ queue[1] \in Prompts /\ Len(queue) \in Nat \ {0}
          /\ Tail(queue) \in Seq(Prompts) /\ Len(Tail(queue)) = Len(queue) - 1
          /\ \A i \in 1..Len(Tail(queue)) : Tail(queue)[i] = queue[i + 1]
      BY <3>1
    <3>3. \A i \in 1..(Len(queue) - 1) : i + 1 \in 1..Len(queue) /\ i + 1 # 1
      BY <3>2
    <3>4. \A i \in 1..Len(queue) : queue[i] \in Prompts
      BY <3>1
    <3> QED
      BY <3>1, <3>2, <3>3, <3>4
  <2>2. \A i \in 1..Len(queue) : queue[i] \in Prompts /\ handler'[queue[i]] = "wait"
    BY <1>1 DEF TalkInv, Types, OwnerTypes, TalkTypes, SocketTypes
  <2>3. \A i, j \in 1..Len(queue') : queue'[i] = queue'[j] => i = j
    <3>1. SUFFICES ASSUME NEW i \in 1..Len(queue'), NEW j \in 1..Len(queue'), queue'[i] = queue'[j]
                   PROVE  i = j
      OBVIOUS
    <3>2. /\ i + 1 \in 1..Len(queue) /\ j + 1 \in 1..Len(queue)
          /\ queue[i + 1] = queue[j + 1]
      BY <2>1, <3>1
    <3>3. \A k, l \in 1..Len(queue) : queue[k] = queue[l] => k = l
      BY DEF TalkInv
    <3>4. i + 1 = j + 1
      BY <3>2, <3>3, Zenon
    <3>5. i \in Int /\ j \in Int
      BY <3>1
    <3> QED
      BY <3>4, <3>5
  <2>4. \A i \in 1..Len(queue') : queue'[i] \notin current'
    BY <2>1 DEF TalkInv
  <2>5. \A i \in 1..Len(queue') : handler'[queue'[i]] = "wait"
    BY <2>1, <2>2
  <2>6. \A p \in current' : p \in Prompts /\ handler'[p] = "wait"
    BY <2>1, <2>2
  <2>7. \A p \in Prompts : /\ handler[p] = "over" <=> handler'[p] = "over"
                           /\ handler[p] = "none" <=> handler'[p] = "none"
    BY <1>1 DEF TalkInv
  <2> QED
    BY <1>1, <1>2, <1>3, <2>1, <2>3, <2>4, <2>5, <2>6, <2>7
<1> QED
  BY <1>4, <1>5

\* A prompt is submitted.
LEMMA Submits ==
  ASSUME Types, TalkInv, NEW p \in Prompts, handler[p] = "none", NEW steer, Submit(p, steer)
  PROVE  /\ current' \in SUBSET Prompts /\ queue' \in Seq(Prompts)
         /\ handler' = [handler EXCEPT ![p] = "wait"] /\ text' = text
         /\ \A q \in current' : handler'[q] = "wait"
         /\ \A i \in 1..Len(queue') : handler'[queue'[i]] = "wait" /\ queue'[i] \notin current'
         /\ \A i, j \in 1..Len(queue') : queue'[i] = queue'[j] => i = j
<1>1. /\ handler' = [handler EXCEPT ![p] = "wait"] /\ text' = text
      /\ \A q \in Prompts : handler'[q] = IF q = p THEN "wait" ELSE handler[q]
  BY DEF Submit, Types, OwnerTypes, TalkTypes, SocketTypes
<1>2. p \notin current /\ \A i \in 1..Len(queue) : queue[i] \in Prompts /\ queue[i] # p
  BY DEF TalkInv, Types, OwnerTypes, TalkTypes, SocketTypes
<1>3. CASE current' \subseteq current \cup {p} /\ queue' = queue
  BY <1>1, <1>2, <1>3 DEF TalkInv, Types, OwnerTypes, TalkTypes, SocketTypes
<1>4. CASE current' = current /\ queue' = Append(queue, p)
  <2>1. /\ queue' \in Seq(Prompts) /\ Len(queue') = Len(queue) + 1 /\ Len(queue) \in Nat
        /\ queue'[Len(queue) + 1] = p
        /\ \A i \in 1..Len(queue) : queue'[i] = queue[i]
    BY <1>4 DEF Types, OwnerTypes, TalkTypes, SocketTypes
  <2>2. \A i \in 1..Len(queue') : i \in 1..Len(queue) \/ i = Len(queue) + 1
    BY <2>1
  <2>3. \A i \in 1..Len(queue') : handler'[queue'[i]] = "wait" /\ queue'[i] \notin current'
    BY <1>1, <1>2, <1>4, <2>1, <2>2 DEF TalkInv
  <2>4. \A i, j \in 1..Len(queue') : queue'[i] = queue'[j] => i = j
    BY <1>2, <2>1, <2>2 DEF TalkInv
  <2> QED
    BY <1>1, <1>2, <1>4, <2>1, <2>3, <2>4 DEF TalkInv, Types, OwnerTypes, TalkTypes, SocketTypes
<1> QED
  BY <1>1, <1>3, <1>4 DEF Submit

\* The submissions under a closed harness fail.
LEMMA Drops ==
  ASSUME Types, Dropped
  PROVE  /\ current' = {} /\ queue' = <<>> /\ text' = text
         /\ handler' \in [Prompts -> {"none", "wait", "answered", "failed", "over"}]
         /\ Unfinished' = Unfinished
         /\ \A p \in Prompts : /\ handler[p] = "over" <=> handler'[p] = "over"
                               /\ handler[p] = "none" <=> handler'[p] = "none"
                               /\ handler[p] = "answered" <=> handler'[p] = "answered"
<1>1. \A p \in Prompts : handler'[p] = IF handler[p] = "wait" THEN "failed" ELSE handler[p]
  BY DEF Dropped
<1>2. Unfinished' = Unfinished
  BY <1>1 DEF Unfinished
<1> QED
  BY <1>1, <1>2 DEF Dropped, Types, OwnerTypes, TalkTypes, SocketTypes

\* The count of the prompts that are not over, with one less and with one more.
LEMMA Counts ==
  ASSUME Types, TalkInv, NEW p \in Prompts
  PROVE  /\ p \in Unfinished => active >= 1 /\ Cardinality(Unfinished \ {p}) <= active - 1
         /\ Cardinality(Unfinished \ {p}) <= active
         /\ Cardinality(Unfinished \cup {p}) <= active + 1
         /\ active = 0 => Unfinished = {}
<1>1. IsFiniteSet(Unfinished)
  <2>1. IsFiniteSet(Prompts)
    BY FS_Interval, PromptBound DEF Prompts
  <2> QED
    BY <2>1, FS_Subset DEF Unfinished
<1>2. Cardinality(Unfinished) \in Nat /\ (Cardinality(Unfinished) = 0 <=> Unfinished = {})
  BY <1>1, FS_CardinalityType, FS_EmptySet
<1>3. Cardinality(Unfinished \ {p}) = IF p \in Unfinished THEN Cardinality(Unfinished) - 1
                                      ELSE Cardinality(Unfinished)
  BY <1>1, FS_RemoveElement
<1>4. Cardinality(Unfinished \cup {p}) = IF p \in Unfinished THEN Cardinality(Unfinished)
                                         ELSE Cardinality(Unfinished) + 1
  BY <1>1, FS_AddElement
<1>5. Cardinality(Unfinished) <= active /\ active \in Nat
  BY DEF TalkInv, Types, OwnerTypes, TalkTypes, SocketTypes
<1>6. p \in Unfinished => Cardinality(Unfinished) # 0
  BY <1>2
<1> QED
  BY <1>2, <1>3, <1>4, <1>5, <1>6

\* The instruction is a prompt.
LEMMA Instruction == 0 \in Prompts
  BY PromptBound DEF Prompts

-----------------------------------------------------------------------------
(* The steps of the owner and of the clients. *)

Closing == IdleTick \/ OwnerStops \/ Unwind \/ AbortSignal
Quiet   == DisposeEnvironment \/ Boot \/ Open \/ ListenFails

\* The steps that close the bridge, or find it closed.
LEMMA ClosingSteps ==
  ASSUME Types, Closing
  PROVE  /\ inbox' \in [Clients -> Seq(Records)]
         /\ \/ UNCHANGED <<listening, closing, cause, timer, accepted, inbox>>
            \/ /\ closing = "no" /\ closing' = "server" /\ timer' = FALSE
               /\ cause' \in {"idle", "stop", "unwind", "abort"}
               /\ cause' = "idle" => timer /\ active = 0 /\ run' = run
               /\ listening' = FALSE /\ accepted' = {}
               /\ \A c \in Clients : \/ inbox'[c] = inbox[c]
                                     \/ c \in accepted /\ inbox'[c] = Append(inbox[c], "close")
         /\ UNCHANGED <<session, active, lastAnswer, current, queue, handler, text, pc, call>>
         /\ run' = run \/ (run = "unwind" /\ run' = "over")
         /\ aborted' \in BOOLEAN
<1>1. CASE IdleTick
  BY <1>1, Closes DEF IdleTick, owner, talk, Types, OwnerTypes, TalkTypes, SocketTypes
<1>2. CASE OwnerStops
  BY <1>2, Closes DEF OwnerStops, owner, talk, Types, OwnerTypes, TalkTypes, SocketTypes
<1>3. CASE Unwind
  BY <1>3, Closes DEF Unwind, talk, Types, OwnerTypes, TalkTypes, SocketTypes
<1>4. CASE AbortSignal
  BY <1>4, Closes DEF AbortSignal, talk, Types, OwnerTypes, TalkTypes, SocketTypes
<1> QED
  BY <1>1, <1>2, <1>3, <1>4 DEF Closing

\* What a step does not touch keeps its type, part by part.
LEMMA OwnerTypesStay ==
  ASSUME OwnerTypes, UNCHANGED <<owner, bridge>>
  PROVE  OwnerTypes'
  BY DEF OwnerTypes, owner, bridge

\* The conversation.
LEMMA TalkTypesStay ==
  ASSUME TalkTypes, UNCHANGED talk
  PROVE  TalkTypes'
  BY DEF TalkTypes, talk

\* The sockets.
LEMMA SocketTypesStay ==
  ASSUME SocketTypes, UNCHANGED <<accepted, inbox>>
  PROVE  SocketTypes'
  BY DEF SocketTypes

\* The sends.
LEMMA CallTypesStay ==
  ASSUME CallTypes, UNCHANGED <<pc, call>>
  PROVE  CallTypes'
  BY DEF CallTypes

\* A send moves on, or is over.
LEMMA CallMoves ==
  ASSUME CallTypes, NEW c \in Clients, NEW point \in Points,
         (Goto(c, point) /\ call' = call) \/ Over(c, point)
  PROVE  CallTypes'
<1>1. pc' = [pc EXCEPT ![c] = point]
  BY DEF Goto, Over
<1>2. NoCall \in Sends
  BY Instruction DEF NoCall, Sends
<1>3. call' = call \/ call' = [call EXCEPT ![c] = NoCall]
  BY DEF Over
<1> QED
  BY <1>1, <1>2, <1>3 DEF CallTypes

\* Every step leaves the types.
LEMMA TypeStep ==
  ASSUME Types, TalkInv, PhaseInv, [Next]_vars
  PROVE  Types'
<1> USE OwnerTypesStay, TalkTypesStay, SocketTypesStay, CallTypesStay
<1>1. CASE CloseSession
  <2>1. OwnerTypes'
    BY <1>1 DEF CloseSession, Types, OwnerTypes
  <2>2. TalkTypes'
    <3>1. /\ current' = {} /\ queue' = <<>> /\ text' = text
          /\ handler' \in [Prompts -> {"none", "wait", "answered", "failed", "over"}]
      BY <1>1, Drops DEF CloseSession
    <3> QED
      BY <3>1 DEF Types, TalkTypes
  <2> QED
    BY <1>1, <2>1, <2>2 DEF CloseSession, clients, Types
<1>2. CASE Closing
  <2>1. OwnerTypes'
    BY <1>2, ClosingSteps DEF Types, OwnerTypes, Runs
  <2>2. SocketTypes'
    BY <1>2, ClosingSteps DEF Types, SocketTypes
  <2>3. UNCHANGED talk /\ UNCHANGED <<pc, call>>
    BY <1>2, ClosingSteps DEF talk
  <2> QED
    BY <2>1, <2>2, <2>3 DEF Types
<1>3. ASSUME NEW p \in Prompts, NEW ok \in BOOLEAN, Finish(p, ok)
      PROVE  Types'
  <2>1. p \in Unfinished /\ text[p] \in SUBSET Prompts
    BY <1>3 DEF Finish, Unfinished, Types, TalkTypes
  <2>2. active' \in Nat
    <3>1. active \in Nat /\ active >= 1
      BY <2>1, Counts DEF Types, OwnerTypes
    <3>2. active' = active - 1
      BY <1>3 DEF Finish
    <3> QED
      BY <3>1, <3>2
  <2>3. OwnerTypes'
    BY <1>3, <2>1, <2>2 DEF Finish, owner, Types, OwnerTypes
  <2>4. handler' \in [Prompts -> {"none", "wait", "answered", "failed", "over"}]
    BY <1>3 DEF Finish, Types, TalkTypes
  <2>5. text' \in [Prompts -> SUBSET Prompts]
    BY <1>3 DEF Finish, Types, TalkTypes
  <2>6. TalkTypes'
    BY <1>3, <2>4, <2>5 DEF Finish, Types, TalkTypes
  <2>7. SocketTypes'
    BY <1>3, Broadcasts DEF Finish, Types, SocketTypes
  <2>8. call' \in [Clients -> Sends]
    <3>1. \A d \in Clients : [call[d] EXCEPT !.alone = FALSE, !.old = {}] \in Sends
      BY DEF Types, CallTypes, Sends
    <3> QED
      BY <1>3, <3>1 DEF Finish, Types, CallTypes
  <2> QED
    BY <1>3, <2>3, <2>6, <2>7, <2>8 DEF Finish, Types, CallTypes
<1>4. CASE Quiet
  <2>1. OwnerTypes'
    BY <1>4 DEF Quiet, DisposeEnvironment, Boot, Open, ListenFails, bridge, Types, OwnerTypes, Runs
  <2>2. UNCHANGED talk /\ UNCHANGED clients
    BY <1>4 DEF Quiet, DisposeEnvironment, Boot, Open, ListenFails
  <2> QED
    BY <2>1, <2>2 DEF clients, Types
<1>5. CASE InitialFails
  <2>1. OwnerTypes'
    BY <1>5 DEF InitialFails, bridge, Types, OwnerTypes, Runs
  <2>2. TalkTypes'
    BY <1>5, Instruction DEF InitialFails, Types, TalkTypes
  <2> QED
    BY <1>5, <2>1, <2>2 DEF InitialFails, clients, Types
<1>6. CASE Listen
  BY <1>6 DEF Listen, clients, Types, OwnerTypes, Runs
<1>14. CASE Instruct
  <2>1. OwnerTypes'
    <3>1. active \in Nat /\ active' = active + 1
      BY <1>14 DEF Instruct, Types, OwnerTypes
    <3>2. active' \in Nat
      BY <3>1
    <3> QED
      BY <1>14, <3>2 DEF Instruct, Types, OwnerTypes, Runs
  <2>2. CASE session = "open"
    <3>1. Submit(0, FALSE) /\ call' = [d \in Clients |-> [call[d] EXCEPT !.alone = FALSE]]
      BY <1>14, <2>2 DEF Instruct
    <3>2. TalkTypes'
      BY <1>14, <3>1, Instruction, Submits DEF Instruct, PhaseInv, Early, Types, TalkTypes
    <3>3. \A d \in Clients : [call[d] EXCEPT !.alone = FALSE] \in Sends
      BY DEF Types, CallTypes, Sends
    <3>4. CallTypes'
      BY <1>14, <3>1, <3>3 DEF Instruct, Types, CallTypes
    <3> QED
      BY <1>14, <2>1, <3>2, <3>4 DEF Instruct, Types, SocketTypes
  <2>3. CASE session # "open"
    <3>1. UNCHANGED <<talk, call>>
      BY <1>14, <2>3 DEF Instruct
    <3> QED
      BY <1>14, <2>1, <3>1 DEF Instruct, Types
  <2> QED
    BY <2>2, <2>3
<1>7. CASE InitialSettled
  <2>1. 0 \in Unfinished /\ text[0] \in SUBSET Prompts
    BY <1>7, Instruction DEF InitialSettled, Unfinished, Types, TalkTypes
  <2>2. active' \in Nat
    <3>1. active \in Nat /\ active >= 1
      BY <2>1, Instruction, Counts DEF Types, OwnerTypes
    <3>2. active' = active - 1
      BY <1>7 DEF InitialSettled
    <3> QED
      BY <3>1, <3>2
  <2>3. OwnerTypes'
    BY <1>7, <2>1, <2>2 DEF InitialSettled, Types, OwnerTypes, Runs
  <2>4. TalkTypes'
    BY <1>7, Instruction DEF InitialSettled, Types, TalkTypes
  <2>5. SocketTypes'
    BY <1>7, Broadcasts DEF InitialSettled, Types, SocketTypes
  <2> QED
    BY <1>7, <2>3, <2>4, <2>5 DEF InitialSettled, Types
<1>8. ASSUME NEW how \in {"answered", "failed"}, NextRun(how), UNCHANGED <<owner, bridge, clients>>
      PROVE  Types'
  <2>1. TalkTypes'
    BY <1>8, Settles DEF TalkTypes
  <2> QED
    BY <1>8, <2>1 DEF clients, Types
<1>9. ASSUME NEW c \in Clients, Attach(c) \/ Accept(c) \/ State(c)
      PROVE  Types'
  <2>1. UNCHANGED <<owner, bridge>> /\ UNCHANGED talk
    BY <1>9 DEF Attach, Accept, State
  <2>2. SocketTypes'
    BY <1>9 DEF Attach, Accept, State, Types, SocketTypes
  <2>3. pc' \in [Clients -> Points]
    BY <1>9 DEF Attach, Accept, State, Goto, Types, CallTypes, Points
  <2>4. call' \in [Clients -> Sends]
    <3>1. call' = call \/ call' = [call EXCEPT ![c].busy = active > 0]
      BY <1>9 DEF Attach, Accept, State
    <3>2. (active > 0) \in BOOLEAN
      OBVIOUS
    <3>3. [call[c] EXCEPT !.busy = active > 0] \in Sends
      BY <3>2 DEF Types, CallTypes, Sends
    <3> QED
      BY <3>1, <3>3 DEF Types, CallTypes
  <2> QED
    BY <2>1, <2>2, <2>3, <2>4 DEF Types, CallTypes
<1>10. ASSUME NEW c \in Clients, NEW p \in Prompts, SendPrompt(c, p)
       PROVE  Types'
  <2>1. SocketTypes'
    <3>1. Append(inbox[c], "ok") \in Seq(Records)
      BY DEF Types, SocketTypes, Records
    <3>2. inbox' \in [Clients -> Seq(Records)]
      BY <1>10, <3>1, Broadcasts DEF SendPrompt, Types, SocketTypes
    <3> QED
      BY <1>10, <3>2 DEF SendPrompt, Types, SocketTypes
  <2>2. call' \in [Clients -> Sends]
    <3>1. call' = [d \in Clients |-> IF d = c
            THEN [call[c] EXCEPT !.prompt = p, !.alone = active = 0,
                                 !.old = {q \in Prompts : handler[q] = "over"}]
            ELSE [call[d] EXCEPT !.alone = FALSE, !.old = IF session = "open" THEN @ ELSE {}]]
      BY <1>10 DEF SendPrompt
    <3>2. {q \in Prompts : handler[q] = "over"} \in SUBSET Prompts /\ (active = 0) \in BOOLEAN
      OBVIOUS
    <3>3. [call[c] EXCEPT !.prompt = p, !.alone = active = 0,
                          !.old = {q \in Prompts : handler[q] = "over"}] \in Sends
      BY <3>2 DEF Types, CallTypes, Sends
    <3>4. \A d \in Clients :
            [call[d] EXCEPT !.alone = FALSE, !.old = IF session = "open" THEN @ ELSE {}] \in Sends
      BY DEF Types, CallTypes, Sends
    <3> QED
      BY <3>1, <3>3, <3>4
  <2>3. TalkTypes'
    BY <1>10, Submits DEF SendPrompt, Types, TalkTypes
  <2>4. OwnerTypes'
    <3>1. active' \in Nat
      <4>1. active' = active + 1 \/ active' = active
        BY <1>10 DEF SendPrompt
      <4>2. active \in Nat
        BY DEF Types, OwnerTypes
      <4> QED
        BY <4>1, <4>2
    <3> QED
      BY <1>10, <3>1 DEF SendPrompt, owner, Types, OwnerTypes
  <2> QED
    BY <1>10, <2>1, <2>2, <2>3, <2>4 DEF SendPrompt, Goto, Types, CallTypes, Points
<1>11. ASSUME NEW c \in Clients, Consume(c)
       PROVE  Types'
  <2>1. SocketTypes'
    BY <1>11, Read DEF Consume, Types, SocketTypes
  <2>2. CallTypes'
    <3>0. Head(inbox[c]) \in Records
      BY <1>11, Read DEF Consume, Types, SocketTypes
    <3>1. CASE Head(inbox[c]) = "ok"
      BY <1>11, <3>1, CallMoves DEF Consume, Types, Points
    <3>2. CASE Head(inbox[c]) = "settled"
      <4>1. call' = [call EXCEPT ![c].settled = @ \/ pc[c] = "resolved"]
        BY <1>11, <3>2 DEF Consume
      <4>2. call' \in [Clients -> Sends]
        BY <4>1 DEF Types, CallTypes, Sends
      <4>3. pc' \in [Clients -> Points]
        BY <1>11, <3>2 DEF Consume, Goto, Types, CallTypes, Points
      <4> QED
        BY <4>2, <4>3 DEF CallTypes
    <3>3. CASE Head(inbox[c]) = "close"
      BY <1>11, <3>3, CallMoves DEF Consume, Types, Points
    <3> QED
      BY <3>0, <3>1, <3>2, <3>3 DEF Records
  <2> QED
    BY <1>11, <2>1, <2>2 DEF Consume, Types
<1>12. ASSUME NEW c \in Clients, WaitForAfter(c) \/ LastText(c) \/ TimesOut(c) \/ Detach(c)
       PROVE  Types'
  <2>1. UNCHANGED <<owner, bridge>> /\ UNCHANGED talk
    BY <1>12 DEF WaitForAfter, LastText, TimesOut, Detach
  <2>2. CallTypes'
    BY <1>12, CallMoves DEF WaitForAfter, LastText, TimesOut, Detach, Types, Points
  <2>3. SocketTypes'
    BY <1>12, Emptied DEF WaitForAfter, LastText, TimesOut, Detach, Types, SocketTypes
  <2> QED
    BY <2>1, <2>2, <2>3 DEF Types
<1>13. CASE UNCHANGED vars
  BY <1>13 DEF vars, clients, Types
<1> QED
  BY <1>1, <1>2, <1>3, <1>4, <1>5, <1>6, <1>7, <1>8, <1>9, <1>10, <1>11, <1>12, <1>13, <1>14
  DEF Next, Server, Client, Closing, Quiet, RunEnds, AbortTurn

-----------------------------------------------------------------------------
(* The conversation and the count of its prompts. *)

TalkOrder ==
  /\ \A p \in current : handler[p] = "wait"
  /\ \A i \in 1..Len(queue) : handler[queue[i]] = "wait" /\ queue[i] \notin current
  /\ \A i, j \in 1..Len(queue) : queue[i] = queue[j] => i = j
  /\ \A p \in Prompts : handler[p] = "answered" => p \in text[p]

\* The end of a prompt that has been answered or has failed.
LEMMA Ends ==
  ASSUME Types, TalkInv, NEW p \in Prompts, handler[p] \in {"answered", "failed"},
         handler' = [handler EXCEPT ![p] = "over"], text' = [text EXCEPT ![p] = {}],
         UNCHANGED <<current, queue>>
  PROVE  TalkOrder' /\ p \in Unfinished /\ Unfinished' = Unfinished \ {p}
<1>1. \A q \in Prompts : handler'[q] = IF q = p THEN "over" ELSE handler[q]
  BY DEF Types, TalkTypes
<1>2. \A q \in Prompts : q # p => text'[q] = text[q]
  BY DEF Types, TalkTypes
<1>3. p \in Unfinished /\ Unfinished' = Unfinished \ {p}
  BY <1>1 DEF Unfinished
<1>4. \A i \in 1..Len(queue) : queue[i] \in Prompts
  BY DEF Types, TalkTypes
<1>5. \A q \in current : q \in Prompts
  BY DEF Types, TalkTypes
<1> QED
  BY <1>1, <1>2, <1>3, <1>4, <1>5 DEF TalkInv, TalkOrder

\* Every step leaves the conversation in order and counts its prompts.
LEMMA TalkStep ==
  ASSUME Types, TalkInv, PhaseInv, [Next]_vars
  PROVE  TalkInv'
<1>0. ASSUME UNCHANGED talk, UNCHANGED active
      PROVE  TalkInv'
  BY <1>0 DEF talk, TalkInv, Unfinished
<1>1. CASE CloseSession
  <2>1. /\ current' = {} /\ queue' = <<>> /\ text' = text /\ Unfinished' = Unfinished
        /\ \A p \in Prompts : handler[p] = "answered" <=> handler'[p] = "answered"
    BY <1>1, Drops DEF CloseSession
  <2>2. Len(queue') = 0
    BY <2>1
  <2> QED
    BY <1>1, <2>1, <2>2 DEF CloseSession, TalkInv
<1>2. CASE Closing \/ Quiet
  BY <1>0, <1>2, ClosingSteps
  DEF Quiet, DisposeEnvironment, Boot, Open, ListenFails, bridge, talk
<1>3. ASSUME NEW p \in Prompts, NEW ok \in BOOLEAN, Finish(p, ok)
      PROVE  TalkInv'
  <2>1. TalkOrder' /\ p \in Unfinished /\ Unfinished' = Unfinished \ {p}
    BY <1>3, Ends DEF Finish
  <2>2. Cardinality(Unfinished') <= active'
    BY <1>3, <2>1, Counts DEF Finish
  <2> QED
    BY <2>1, <2>2 DEF TalkInv, TalkOrder
<1>4. CASE InitialSettled
  <2>1. TalkOrder' /\ 0 \in Unfinished /\ Unfinished' = Unfinished \ {0}
    BY <1>4, Ends, Instruction DEF InitialSettled
  <2>2. Cardinality(Unfinished') <= active'
    BY <1>4, <2>1, Counts, Instruction DEF InitialSettled
  <2> QED
    BY <2>1, <2>2 DEF TalkInv, TalkOrder
<1>5. CASE InitialFails
  <2>1. TalkOrder' /\ Unfinished' = Unfinished \ {0}
    BY <1>5, Ends, Instruction DEF InitialFails
  <2>2. Cardinality(Unfinished') <= active'
    BY <1>5, <2>1, Counts, Instruction DEF InitialFails, bridge
  <2> QED
    BY <2>1, <2>2 DEF TalkInv, TalkOrder
<1>6. CASE Listen
  BY <1>0, <1>6 DEF Listen
<1>11. CASE Instruct
  <2>1. handler[0] = "none" /\ active' = active + 1 /\ 0 \in Prompts
    BY <1>11, Instruction DEF Instruct, PhaseInv, Early
  <2>2. CASE session = "open"
    <3>1. Submit(0, FALSE)
      BY <1>11, <2>2 DEF Instruct
    <3>2. /\ handler' = [handler EXCEPT ![0] = "wait"] /\ text' = text
          /\ \A q \in current' : handler'[q] = "wait"
          /\ \A i \in 1..Len(queue') : handler'[queue'[i]] = "wait" /\ queue'[i] \notin current'
          /\ \A i, j \in 1..Len(queue') : queue'[i] = queue'[j] => i = j
      BY <2>1, <3>1, Submits
    <3>3. \A q \in Prompts : handler'[q] = IF q = 0 THEN "wait" ELSE handler[q]
      BY <3>2 DEF Types, TalkTypes
    <3>4. Unfinished' = Unfinished \cup {0}
      BY <2>1, <3>3 DEF Unfinished
    <3>5. Cardinality(Unfinished') <= active'
      BY <2>1, <3>4, Counts
    <3>6. \A q \in Prompts : handler'[q] = "answered" => q \in text'[q]
      BY <3>2, <3>3 DEF TalkInv
    <3> QED
      BY <3>2, <3>5, <3>6 DEF TalkInv
  <2>3. CASE session # "open"
    <3>1. UNCHANGED talk
      BY <1>11, <2>3 DEF Instruct
    <3>3. Cardinality(Unfinished) <= active /\ active \in Nat
      BY DEF TalkInv, Types, OwnerTypes
    <3>4. Cardinality(Unfinished) <= active'
      <4>1. Cardinality(Unfinished) \in Nat
        <5>1. IsFiniteSet(Prompts)
          BY FS_Interval, PromptBound DEF Prompts
        <5> QED
          BY <5>1, FS_Subset, FS_CardinalityType DEF Unfinished
      <4> QED
        BY <2>1, <3>3, <4>1
    <3> QED
      BY <3>1, <3>4 DEF talk, TalkInv, Unfinished
  <2> QED
    BY <2>2, <2>3
<1>7. ASSUME NEW how \in {"answered", "failed"}, NextRun(how), UNCHANGED <<owner, bridge, clients>>
      PROVE  TalkInv'
  BY <1>7, Settles DEF TalkInv, bridge
<1>8. ASSUME NEW c \in Clients, NEW p \in Prompts, SendPrompt(c, p)
      PROVE  TalkInv'
  <2>1. handler[p] = "none"
    BY <1>8 DEF SendPrompt
  <2>2. CASE session = "open"
    <3>0. Submit(p, call[c].busy) /\ active' = active + 1
      BY <1>8, <2>2 DEF SendPrompt
    <3>1. /\ handler' = [handler EXCEPT ![p] = "wait"] /\ text' = text
          /\ \A q \in current' : handler'[q] = "wait"
          /\ \A i \in 1..Len(queue') : handler'[queue'[i]] = "wait" /\ queue'[i] \notin current'
          /\ \A i, j \in 1..Len(queue') : queue'[i] = queue'[j] => i = j
      BY <2>1, <3>0, Submits
    <3>2. \A q \in Prompts : handler'[q] = IF q = p THEN "wait" ELSE handler[q]
      BY <3>1 DEF Types, TalkTypes
    <3>3. Unfinished' = Unfinished \cup {p}
      BY <3>2 DEF Unfinished
    <3>4. Cardinality(Unfinished') <= active'
      BY <3>0, <3>3, Counts
    <3>5. \A q \in Prompts : handler'[q] = "answered" => q \in text'[q]
      BY <3>1, <3>2 DEF TalkInv
    <3> QED
      BY <3>1, <3>4, <3>5 DEF TalkInv
  <2>3. CASE session # "open"
    <3>1. handler' = [handler EXCEPT ![p] = "over"] /\ UNCHANGED <<active, current, queue, text>>
      BY <1>8, <2>3 DEF SendPrompt
    <3>2. \A q \in Prompts : handler'[q] = IF q = p THEN "over" ELSE handler[q]
      BY <3>1 DEF Types, TalkTypes
    <3>3. Unfinished' = Unfinished
      BY <2>1, <3>2 DEF Unfinished
    <3>4. /\ \A q \in current : q \in Prompts /\ handler'[q] = handler[q]
          /\ \A i \in 1..Len(queue) : queue[i] \in Prompts /\ handler'[queue[i]] = handler[queue[i]]
      BY <2>1, <3>2 DEF TalkInv, Types, TalkTypes
    <3> QED
      BY <3>1, <3>2, <3>3, <3>4 DEF TalkInv
  <2> QED
    BY <2>2, <2>3
<1>9. ASSUME NEW c \in Clients,
             \/ Attach(c) \/ Accept(c) \/ State(c) \/ Consume(c)
             \/ WaitForAfter(c) \/ LastText(c) \/ TimesOut(c) \/ Detach(c)
      PROVE  TalkInv'
  BY <1>0, <1>9 DEF Attach, Accept, State, Consume, WaitForAfter, LastText, TimesOut, Detach, bridge
<1>10. CASE UNCHANGED vars
  BY <1>0, <1>10 DEF vars, bridge
<1> QED
  BY <1>1, <1>2, <1>3, <1>4, <1>5, <1>6, <1>7, <1>8, <1>9, <1>10, <1>11
  DEF Next, Server, Client, Closing, Quiet, RunEnds, AbortTurn

-----------------------------------------------------------------------------
(* The phases of a session. *)

\* Every step leaves the phases in order.
LEMMA PhaseStep ==
  ASSUME Types, TalkInv, PhaseInv, [Next]_vars
  PROVE  PhaseInv'
<1>0. ASSUME Fresh => (~Fresh' \/ UNCHANGED <<accepted, listening, inbox, pc, handler>>),
             ~Fresh => ~Fresh',
             Early' => Early /\ handler'[0] = handler[0],
             timer' => run' = "handed",
             cause' = "idle" => /\ cause = "idle"
                                /\ UNCHANGED <<run, listening, accepted, active>>
                                /\ closing' # "no" /\ Unfinished' = Unfinished
      PROVE  PhaseInv'
  BY <1>0 DEF PhaseInv
<1>1. CASE CloseSession
  <2>1. /\ Unfinished' = Unfinished
        /\ \A p \in Prompts : handler[p] = "none" <=> handler'[p] = "none"
    BY <1>1, Drops DEF CloseSession
  <2>2. handler[0] = "none" => handler'[0] = "none"
    BY <2>1, Instruction
  <2> QED
    BY <1>1, <2>1, <2>2 DEF CloseSession, clients, PhaseInv, Fresh, Early
<1>2. CASE Closing
  <2>1. CASE UNCHANGED <<listening, closing, cause, timer, accepted, inbox>>
    BY <1>2, <2>1, ClosingSteps DEF PhaseInv, Fresh, Early, Unfinished
  <2>2. CASE ~UNCHANGED <<listening, closing, cause, timer, accepted, inbox>>
    <3>1. /\ accepted' = {} /\ closing' = "server" /\ timer' = FALSE /\ listening' = FALSE /\ cause' # "none"
          /\ cause' = "idle" => timer /\ active = 0 /\ run' = run
          /\ \A c \in Clients : inbox'[c] = inbox[c] \/ c \in accepted
          /\ UNCHANGED <<active, handler, pc>>
          /\ run' = run \/ (run = "unwind" /\ run' = "over")
      BY <1>2, <2>2, ClosingSteps
    <3>2. active = 0 => Unfinished = {}
      BY Counts, Instruction
    <3>3. Unfinished' = Unfinished
      BY <3>1 DEF Unfinished
    <3> QED
      BY <3>1, <3>2, <3>3 DEF PhaseInv, Fresh, Early
  <2> QED
    BY <2>1, <2>2
<1>3. ASSUME NEW p \in Prompts, NEW ok \in BOOLEAN, Finish(p, ok)
      PROVE  PhaseInv'
  <2>1. p \in Unfinished /\ handler[p] # "none"
    BY <1>3 DEF Finish, Unfinished
  <2>2. Early' = Early /\ handler'[0] = handler[0]
    BY <1>3, Instruction DEF Finish, owner, Early, Fresh, Types, TalkTypes
  <2> QED
    BY <1>3, <2>1, <2>2 DEF Finish, owner, PhaseInv, Fresh
<1>4. CASE Quiet
  BY <1>0, <1>4
  DEF Quiet, DisposeEnvironment, Boot, Open, ListenFails, bridge, talk, clients, PhaseInv, Fresh, Early, Unfinished
<1>5. CASE InitialFails \/ InitialSettled \/ Listen \/ Instruct
  BY <1>0, <1>5
  DEF InitialFails, InitialSettled, Listen, Instruct, bridge, talk, PhaseInv, Fresh, Early
<1>6. ASSUME NEW how \in {"answered", "failed"}, NextRun(how), UNCHANGED <<owner, bridge, clients>>
      PROVE  PhaseInv'
  <2>1. /\ Unfinished' = Unfinished
        /\ \A p \in Prompts : handler[p] = "none" <=> handler'[p] = "none"
    BY <1>6, Settles
  <2>2. handler[0] = "none" => handler'[0] = "none"
    BY <2>1, Instruction
  <2> QED
    BY <1>6, <2>1, <2>2 DEF owner, bridge, clients, PhaseInv, Fresh, Early
<1>7. ASSUME NEW c \in Clients, NEW p \in Prompts, SendPrompt(c, p)
      PROVE  PhaseInv'
  <2>1. c \in accepted
    BY <1>7 DEF SendPrompt
  <2>2. ~Fresh /\ cause # "idle"
    BY <2>1 DEF PhaseInv
  <2>3. Early' = Early
    BY <1>7 DEF SendPrompt, owner, Early, Fresh
  <2>4. p # 0 /\ handler' = [handler EXCEPT ![p] = IF session = "open" THEN "wait" ELSE "over"]
    BY <1>7 DEF SendPrompt, Submit
  <2>5. handler'[0] = handler[0]
    BY <2>4, Instruction DEF Types, TalkTypes
  <2> QED
    BY <1>7, <2>2, <2>3, <2>5 DEF SendPrompt, owner, PhaseInv, Fresh
<1>8. ASSUME NEW c \in Clients, Attach(c) \/ Accept(c)
      PROVE  PhaseInv'
  BY <1>8 DEF Attach, Accept, Goto, owner, bridge, talk, PhaseInv, Fresh, Early, Unfinished
<1>9. ASSUME NEW c \in Clients,
             \/ State(c) \/ Consume(c)
             \/ WaitForAfter(c) \/ LastText(c) \/ TimesOut(c) \/ Detach(c)
      PROVE  PhaseInv'
  <2>1. ~Fresh
    BY <1>9 DEF State, Consume, WaitForAfter, LastText, TimesOut, Detach, PhaseInv
  <2>2. UNCHANGED <<run, listening, closing, cause, active, timer, handler>>
    BY <1>9 DEF State, Consume, WaitForAfter, LastText, TimesOut, Detach, owner, bridge, talk
  <2>3. accepted' = accepted \/ accepted' = accepted \ {c}
    BY <1>9 DEF State, Consume, WaitForAfter, LastText, TimesOut, Detach
  <2> QED
    BY <2>1, <2>2, <2>3 DEF PhaseInv, Fresh, Early, Unfinished
<1>10. CASE UNCHANGED vars
  BY <1>10 DEF vars, owner, bridge, talk, clients, PhaseInv, Fresh, Early, Unfinished
<1> QED
  BY <1>1, <1>2, <1>3, <1>4, <1>5, <1>6, <1>7, <1>8, <1>9, <1>10
  DEF Next, Server, Client, Closing, Quiet, RunEnds, AbortTurn

-----------------------------------------------------------------------------
(* The sockets. *)

\* What only adds a settlement or the end to a socket leaves it well-formed.
LEMMA SocketGrows ==
  ASSUME Types, NEW c \in Clients, SocketInv(c), NEW record \in {"settled", "close"},
         inbox'[c] = inbox[c] \/ (c \in accepted /\ inbox'[c] = Append(inbox[c], record)),
         record = "close" /\ inbox'[c] # inbox[c] => ~listening' /\ c \notin accepted',
         c \in accepted' => c \in accepted, listening' => listening,
         pc'[c] = pc[c], call'[c].settled = call[c].settled
  PROVE  SocketInv(c)'
<1>1. inbox[c] \in Seq(Records) /\ record \in Records
  BY DEF Types, SocketTypes, Records
<1>2. CASE inbox'[c] = inbox[c]
  BY <1>2 DEF SocketInv
<1>3. CASE c \in accepted /\ inbox'[c] = Append(inbox[c], record) /\ inbox'[c] # inbox[c]
  <2>1. ~Has(inbox[c], "close")
    BY <1>3 DEF SocketInv
  <2>2. /\ WellFormed(inbox'[c])
        /\ \A r : Has(inbox'[c], r) <=> Has(inbox[c], r) \/ r = record
    BY <1>1, <1>3, <2>1, Written DEF SocketInv
  <2> QED
    BY <1>3, <2>1, <2>2 DEF SocketInv
<1> QED
  BY <1>2, <1>3

\* Every step leaves the sockets in order.
LEMMA SocketStep ==
  ASSUME Types, PhaseInv, \A c \in Clients : SocketInv(c), [Next]_vars
  PROVE  \A c \in Clients : SocketInv(c)'
<1> SUFFICES ASSUME NEW c \in Clients
             PROVE  SocketInv(c)'
  OBVIOUS
<1>0. ASSUME UNCHANGED <<listening, accepted, inbox, pc, call>>
      PROVE  SocketInv(c)'
  BY <1>0 DEF SocketInv
<1>1. CASE CloseSession \/ Quiet \/ InitialFails
  BY <1>0, <1>1
  DEF CloseSession, Quiet, DisposeEnvironment, Boot, Open, ListenFails, InitialFails, bridge, clients
<1>2. CASE Closing
  <2>1. CASE UNCHANGED <<listening, closing, cause, timer, accepted, inbox>>
    BY <1>0, <1>2, <2>1, ClosingSteps
  <2>2. CASE ~UNCHANGED <<listening, closing, cause, timer, accepted, inbox>>
    <3>1. /\ listening' = FALSE /\ accepted' = {} /\ UNCHANGED <<pc, call>>
          /\ inbox'[c] = inbox[c] \/ (c \in accepted /\ inbox'[c] = Append(inbox[c], "close"))
      BY <1>2, <2>2, ClosingSteps
    <3> QED
      BY <3>1, SocketGrows
  <2> QED
    BY <2>1, <2>2
<1>3. ASSUME NEW p \in Prompts, NEW ok \in BOOLEAN, Finish(p, ok)
      PROVE  SocketInv(c)'
  <2>1. call'[c].settled = call[c].settled
    BY <1>3 DEF Finish, Types, CallTypes, Sends
  <2>2. inbox'[c] = inbox[c] \/ (c \in accepted /\ inbox'[c] = Append(inbox[c], "settled"))
    BY <1>3, Broadcasts DEF Finish
  <2>3. UNCHANGED <<accepted, listening, pc>>
    BY <1>3 DEF Finish
  <2> QED
    BY <2>1, <2>2, <2>3, SocketGrows
<1>4. CASE InitialSettled
  <2>1. inbox'[c] = inbox[c] \/ (c \in accepted /\ inbox'[c] = Append(inbox[c], "settled"))
    BY <1>4, Broadcasts DEF InitialSettled
  <2>2. UNCHANGED <<accepted, listening, pc, call>>
    BY <1>4 DEF InitialSettled
  <2> QED
    BY <2>1, <2>2, SocketGrows
<1>5. CASE Listen
  <2>1. UNCHANGED clients /\ inbox[c] = <<>> /\ pc[c] = "detached"
    BY <1>5 DEF Listen, PhaseInv, Fresh
  <2>2. \A r : ~Has(<<>>, r)
    BY Emptied
  <2> QED
    BY <2>1, <2>2 DEF clients, SocketInv
<1>14. CASE Instruct
  <2>1. call'[c].settled = call[c].settled
    BY <1>14 DEF Instruct, Types, CallTypes, Sends
  <2> QED
    BY <1>14, <2>1 DEF Instruct, SocketInv
<1>6. ASSUME NEW d \in Clients, Attach(d) \/ State(d) \/ WaitForAfter(d)
      PROVE  SocketInv(c)'
  <2>1. UNCHANGED <<listening, accepted, inbox>>
    BY <1>6 DEF Attach, State, WaitForAfter, bridge
  <2>2. call'[c].settled = call[c].settled
    BY <1>6 DEF Attach, State, WaitForAfter, Types, CallTypes, Sends
  <2>3. /\ pc[c] = "prompt" => pc'[c] = "prompt"
        /\ pc[c] \in {"resolved", "waiting", "text"} => pc'[c] \in {"resolved", "waiting", "text"}
    BY <1>6 DEF Attach, State, WaitForAfter, Goto, Types, CallTypes
  <2> QED
    BY <2>1, <2>2, <2>3 DEF SocketInv
<1>7. ASSUME NEW d \in Clients, Accept(d)
      PROVE  SocketInv(c)'
  <2>1. UNCHANGED <<listening, inbox, call>>
    BY <1>7 DEF Accept, bridge
  <2>2. \/ listening
        \/ accepted' = accepted
    BY <1>7 DEF Accept
  <2>3. pc'[c] = pc[c] \/ pc[c] = "attach"
    BY <1>7 DEF Accept, Goto, Types, CallTypes
  <2> QED
    BY <2>1, <2>2, <2>3 DEF SocketInv
<1>8. ASSUME NEW d \in Clients, NEW p \in Prompts, SendPrompt(d, p)
      PROVE  SocketInv(c)'
  <2>1. call'[c].settled = call[c].settled
    BY <1>8 DEF SendPrompt, Types, CallTypes, Sends
  <2>2. UNCHANGED <<accepted, listening>> /\ pc[d] = "state" /\ d \in accepted
    BY <1>8 DEF SendPrompt
  <2>3. pc'[c] = IF c = d THEN "prompt" ELSE pc[c]
    BY <1>8 DEF SendPrompt, Goto, Types, CallTypes
  <2>4. CASE session # "open"
    <3>1. inbox'[c] = inbox[c] \/ (c \in accepted /\ inbox'[c] = Append(inbox[c], "settled"))
      BY <1>8, <2>4, Broadcasts DEF SendPrompt
    <3>2. CASE c # d
      BY <2>1, <2>2, <2>3, <3>1, <3>2, SocketGrows
    <3>3. CASE c = d
      <4>1. ~Heeds(c)
        BY <2>2, <3>3 DEF Heeds
      <4>2. inbox'[c] = inbox[c]
        BY <1>8, <2>4, <4>1 DEF SendPrompt, Broadcast, Types, SocketTypes
      <4> QED
        BY <2>1, <2>2, <2>3, <3>3, <4>2 DEF SocketInv
    <3> QED
      BY <3>2, <3>3
  <2>5. CASE session = "open"
    <3>1. inbox' = [inbox EXCEPT ![d] = Append(@, "ok")]
      BY <1>8, <2>5 DEF SendPrompt
    <3>2. CASE c # d
      BY <2>1, <2>2, <2>3, <3>1, <3>2 DEF SocketInv, Types, SocketTypes
    <3>3. CASE c = d
      <4>1. /\ inbox[c] \in Seq(Records) /\ "ok" \in Records
            /\ inbox'[c] = Append(inbox[c], "ok")
        BY <3>1, <3>3 DEF Types, SocketTypes, Records
      <4>2. ~Has(inbox[c], "ok") /\ ~Has(inbox[c], "close")
        BY <2>2, <3>3 DEF SocketInv
      <4>3. /\ WellFormed(inbox'[c])
            /\ \A r : Has(inbox'[c], r) <=> Has(inbox[c], r) \/ r = "ok"
        BY <4>1, <4>2, Written DEF SocketInv
      <4> QED
        BY <2>1, <2>2, <2>3, <3>3, <4>2, <4>3 DEF SocketInv
    <3> QED
      BY <3>2, <3>3
  <2> QED
    BY <2>4, <2>5
<1>9. ASSUME NEW d \in Clients, Consume(d)
      PROVE  SocketInv(c)'
  <2>1. UNCHANGED <<accepted, listening>>
    BY <1>9 DEF Consume, bridge
  <2>2. CASE c # d
    <3>1. inbox'[c] = inbox[c]
      BY <1>9, <2>2 DEF Consume, Types, SocketTypes
    <3>2. pc'[c] = pc[c] /\ call'[c] = call[c]
      <4>1. Head(inbox[d]) \in Records
        BY <1>9, Read DEF Consume, Types, SocketTypes
      <4> QED
        BY <1>9, <2>2, <4>1 DEF Consume, Goto, Over, Records, Types, CallTypes
    <3> QED
      BY <2>1, <3>1, <3>2 DEF SocketInv
  <2>3. CASE c = d
    <3>0. inbox[c] \in Seq(Records) /\ inbox[c] # <<>> /\ inbox'[c] = Tail(inbox[c])
      BY <1>9, <2>3 DEF Consume, Types, SocketTypes
    <3>1. /\ Head(inbox[c]) \in Records /\ WellFormed(inbox'[c])
          /\ \A r : Has(inbox'[c], r) => Has(inbox[c], r)
          /\ Has(inbox[c], Head(inbox[c]))
          /\ Head(inbox[c]) = "ok" => ~Has(inbox'[c], "ok")
          /\ Head(inbox[c]) = "close" => ~Has(inbox'[c], "ok")
      BY <3>0, Read DEF SocketInv
    <3>2. CASE Head(inbox[c]) = "ok"
      <4>1. pc'[c] = "resolved" /\ UNCHANGED call
        BY <1>9, <2>3, <3>2 DEF Consume, Goto, Types, CallTypes
      <4> QED
        BY <2>1, <3>1, <3>2, <4>1 DEF SocketInv
    <3>3. CASE Head(inbox[c]) = "settled"
      <4>1. pc'[c] = IF pc[c] = "waiting" THEN "text" ELSE pc[c]
        BY <1>9, <2>3, <3>3 DEF Consume, Goto, Types, CallTypes
      <4>2. call'[c].settled = (call[c].settled \/ pc[c] = "resolved")
        BY <1>9, <2>3, <3>3 DEF Consume, Types, CallTypes, Sends
      <4> QED
        BY <2>1, <3>1, <3>3, <4>1, <4>2 DEF SocketInv
    <3>4. CASE Head(inbox[c]) = "close"
      <4>1. pc'[c] = "detached" /\ call'[c] = NoCall
        BY <1>9, <2>3, <3>4 DEF Consume, Over, Goto, Types, CallTypes
      <4> QED
        BY <2>1, <3>1, <3>4, <4>1 DEF SocketInv, NoCall
    <3> QED
      BY <3>1, <3>2, <3>3, <3>4 DEF Records
  <2> QED
    BY <2>2, <2>3
<1>10. ASSUME NEW d \in Clients, LastText(d) \/ TimesOut(d) \/ Detach(d)
       PROVE  SocketInv(c)'
  <2>1. listening' = listening /\ (accepted' = accepted \/ accepted' = accepted \ {d})
    BY <1>10 DEF LastText, TimesOut, Detach, bridge
  <2>2. CASE c # d
    <3>1. inbox'[c] = inbox[c] /\ pc'[c] = pc[c] /\ call'[c] = call[c]
      BY <1>10, <2>2 DEF LastText, TimesOut, Detach, Over, Goto, Types, SocketTypes, CallTypes
    <3> QED
      BY <2>1, <3>1 DEF SocketInv
  <2>3. CASE c = d
    <3>1. call'[c].settled = FALSE
      BY <1>10, <2>3 DEF LastText, TimesOut, Detach, Over, NoCall, Types, CallTypes
    <3>2. CASE LastText(c)
      <4>1. inbox' = inbox /\ accepted' = accepted /\ pc[c] = "text"
        BY <3>2 DEF LastText
      <4> QED
        BY <2>1, <3>1, <4>1 DEF SocketInv
    <3>3. CASE Detach(c)
      <4>1. inbox'[c] = <<>>
        BY <3>3 DEF Detach, Types, SocketTypes
      <4> QED
        BY <3>1, <4>1, Emptied DEF SocketInv
    <3>4. CASE TimesOut(c)
      <4>1. CASE "close" \in Range(inbox[c])
        <5>1. Has(inbox[c], "close")
          <6>1. DOMAIN inbox[c] = 1..Len(inbox[c])
            BY DEF Types, SocketTypes
          <6> QED
            BY <4>1, <6>1 DEF Has, Range
        <5>2. inbox'[c] = <<"close">> /\ accepted' = accepted
          BY <3>4, <4>1 DEF TimesOut, Types, SocketTypes
        <5> QED
          BY <2>1, <3>1, <5>1, <5>2, Emptied DEF SocketInv
      <4>2. CASE "close" \notin Range(inbox[c])
        <5>1. inbox'[c] = <<>>
          BY <3>4, <4>2 DEF TimesOut, Types, SocketTypes
        <5> QED
          BY <3>1, <5>1, Emptied DEF SocketInv
      <4> QED
        BY <4>1, <4>2
    <3> QED
      BY <1>10, <2>3, <3>2, <3>3, <3>4
  <2> QED
    BY <2>2, <2>3
<1>11. ASSUME NEW d \in Clients, AbortTurn(d)
       PROVE  SocketInv(c)'
  BY <1>0, <1>11 DEF AbortTurn, bridge, clients
<1>12. ASSUME NEW how \in {"answered", "failed"}, RunEnds(how)
       PROVE  SocketInv(c)'
  BY <1>0, <1>12 DEF RunEnds, bridge, clients
<1>13. CASE UNCHANGED vars
  BY <1>0, <1>13 DEF vars, bridge, clients
<1> QED
  BY <1>1, <1>2, <1>3, <1>4, <1>5, <1>6, <1>7, <1>8, <1>9, <1>10, <1>11, <1>12, <1>13, <1>14
  DEF Next, Server, Client, Closing, Quiet

-----------------------------------------------------------------------------
(* The sends. *)

\* What does not touch a send: it is not disturbed by a prompt of another client.
LEMMA SendFrame ==
  ASSUME NEW c \in Clients, SendInv(c), c \in accepted' => c \in accepted,
         pc'[c] = pc[c], inbox'[c] = inbox[c], lastAnswer' = lastAnswer,
         call'[c].prompt = call[c].prompt, call'[c].settled = call[c].settled,
         call'[c].old \subseteq call[c].old,
         call'[c].alone => call[c].alone /\ Unfinished' \subseteq Unfinished,
         \A p \in Unfinished : p # 0 => p \in Unfinished',
         \A p \in call[c].old : handler[p] = "over" => handler'[p] = "over"
  PROVE  SendInv(c)'
<1>1. (Heard(c) <=> Heard(c)') /\ (Taken(c) <=> Taken(c)')
  BY DEF Heard, Taken
<1>2. OwnAnswer(c) => OwnAnswer(c)'
  BY DEF OwnAnswer
<1> QED
  BY <1>1, <1>2 DEF SendInv

\* A settlement reaches every send that has got its response.
LEMMA SendSettles ==
  ASSUME Types, NEW c \in Clients, SendInv(c), c \in accepted, pc[c] \in Sending,
         Broadcast("settled"),
         pc'[c] = pc[c], call'[c].prompt = call[c].prompt, call'[c].settled = call[c].settled,
         call'[c].old \subseteq call[c].old,
         call'[c].alone => Unfinished' \subseteq {call[c].prompt},
         \A p \in call[c].old : handler[p] = "over" => handler'[p] = "over",
         OwnAnswer(c)'
  PROVE  SendInv(c)'
<1>1. inbox[c] \in Seq(Records) /\ "settled" \in Records
  BY DEF Types, SocketTypes, Records
<1>2. CASE Heeds(c)
  <2>1. inbox'[c] = Append(inbox[c], "settled")
    BY <1>2, Broadcasts
  <2>2. /\ \A r : Has(inbox'[c], r) <=> Has(inbox[c], r) \/ r = "settled"
        /\ Answered(inbox'[c]) <=> Answered(inbox[c]) \/ Has(inbox[c], "ok")
    BY <1>1, <2>1, Written
  <2>3. Taken(c)' => Heard(c)'
    BY <2>2 DEF Taken, Heard
  <2> QED
    BY <2>3 DEF SendInv
<1>3. CASE ~Heeds(c)
  <2>1. inbox'[c] = inbox[c]
    BY <1>3 DEF Broadcast, Types, SocketTypes
  <2>2. Taken(c) => pc[c] = "text"
    <3>1. Has(inbox[c], "ok") => inbox[c] # <<>>
      BY Emptied
    <3> QED
      BY <1>3, <3>1 DEF Taken, Heeds
  <2>3. Taken(c)' => Heard(c)'
    BY <2>1, <2>2 DEF Taken, Heard
  <2> QED
    BY <2>3 DEF SendInv
<1> QED
  BY <1>2, <1>3

\* An answer that comes now is from after the prompt of every send, and that of a send alone.
LEMMA AnswerIsNew ==
  ASSUME TalkInv, NEW c \in Clients, SendInv(c), c \in accepted, pc[c] \in Sending,
         NEW p \in Prompts, handler[p] = "answered", lastAnswer' = text[p],
         call'[c] = call[c]
  PROVE  OwnAnswer(c)'
<1>1. p \in text[p] /\ p \in Unfinished
  BY DEF TalkInv, Unfinished
<1>2. p \notin call[c].old /\ (call[c].alone => p = call[c].prompt)
  BY <1>1 DEF SendInv
<1> QED
  BY <1>1, <1>2 DEF OwnAnswer

\* Every step leaves the sends in order.
LEMMA SendStep ==
  ASSUME Types, TalkInv, PhaseInv, \A c \in Clients : SocketInv(c) /\ SendInv(c), [Next]_vars
  PROVE  \A c \in Clients : SendInv(c)'
<1> SUFFICES ASSUME NEW c \in Clients
             PROVE  SendInv(c)'
  OBVIOUS
<1>a. ASSUME c \notin accepted' \/ pc'[c] \notin Sending
      PROVE  SendInv(c)'
  BY <1>a DEF SendInv
<1>b. ASSUME c \in accepted' => c \in accepted, pc'[c] = pc[c], inbox'[c] = inbox[c],
             lastAnswer' = lastAnswer, call'[c] = call[c],
             Unfinished' \subseteq Unfinished, \A p \in Unfinished : p # 0 => p \in Unfinished',
             \A p \in Prompts : handler[p] = "over" => handler'[p] = "over"
      PROVE  SendInv(c)'
  <2>1. \A p \in call[c].old : handler[p] = "over" => handler'[p] = "over"
    BY <1>b DEF Types, CallTypes, Sends
  <2> QED
    BY <1>b, <2>1, SendFrame
<1>1. CASE CloseSession
  <2>1. /\ Unfinished' = Unfinished
        /\ \A p \in Prompts : handler[p] = "over" <=> handler'[p] = "over"
    BY <1>1, Drops DEF CloseSession
  <2> QED
    BY <1>1, <1>b, <2>1 DEF CloseSession, clients
<1>2. CASE Quiet
  BY <1>2, <1>b
  DEF Quiet, DisposeEnvironment, Boot, Open, ListenFails, bridge, talk, clients, Unfinished
<1>3. CASE Closing
  <2>1. accepted' = {} \/ (accepted' = accepted /\ inbox' = inbox)
    BY <1>3, ClosingSteps
  <2>2. UNCHANGED <<lastAnswer, handler, pc, call>> /\ Unfinished' = Unfinished
    BY <1>3, ClosingSteps DEF Unfinished
  <2> QED
    BY <1>a, <1>b, <2>1, <2>2
<1>4. CASE InitialFails
  <2>1. Unfinished' = Unfinished \ {0}
    BY <1>4, Ends, Instruction DEF InitialFails
  <2>2. \A p \in Prompts : handler[p] = "over" => handler'[p] = "over"
    BY <1>4 DEF InitialFails, Types, TalkTypes
  <2> QED
    BY <1>4, <1>b, <2>1, <2>2 DEF InitialFails, bridge, clients
<1>5. CASE Listen
  <2>1. accepted' = {}
    BY <1>5 DEF Listen, clients, PhaseInv, Fresh
  <2> QED
    BY <1>a, <2>1
<1>12. CASE Instruct
  <2>1. UNCHANGED <<accepted, inbox, pc, lastAnswer>> /\ handler[0] = "none" /\ 0 \in Prompts
    BY <1>12, Instruction DEF Instruct, PhaseInv, Early
  <2>2. CASE session = "open"
    <3>1. call' = [d \in Clients |-> [call[d] EXCEPT !.alone = FALSE]]
      BY <1>12, <2>2 DEF Instruct
    <3>2. /\ call'[c].prompt = call[c].prompt /\ call'[c].settled = call[c].settled
          /\ call'[c].alone = FALSE /\ call'[c].old = call[c].old
      BY <3>1 DEF Types, CallTypes, Sends
    <3>3. \A q \in Prompts : handler'[q] = IF q = 0 THEN "wait" ELSE handler[q]
      BY <1>12, <2>2 DEF Instruct, Submit, Types, TalkTypes
    <3>4. \A q \in Prompts : handler[q] = "over" => handler'[q] = "over"
      BY <2>1, <3>3
    <3>5. \A q \in call[c].old : handler[q] = "over" => handler'[q] = "over"
      BY <3>4 DEF Types, CallTypes, Sends
    <3>6. \A q \in Unfinished : q # 0 => q \in Unfinished'
      BY <3>3 DEF Unfinished
    <3> QED
      BY <2>1, <3>2, <3>5, <3>6, SendFrame
  <2>3. CASE session # "open"
    BY <1>12, <1>b, <2>1, <2>3 DEF Instruct, talk, Unfinished
  <2> QED
    BY <2>2, <2>3
<1>6. ASSUME NEW p \in Prompts, NEW ok \in BOOLEAN, Finish(p, ok)
      PROVE  SendInv(c)'
  <2>1. Unfinished' = Unfinished \ {p}
    BY <1>6, Ends DEF Finish
  <2>2. \A q \in Prompts : handler[q] = "over" => handler'[q] = "over"
    BY <1>6 DEF Finish, Types, TalkTypes
  <2>3. \A q \in call[c].old : handler[q] = "over" => handler'[q] = "over"
    BY <2>2 DEF Types, CallTypes, Sends
  <2>4. Broadcast("settled") /\ UNCHANGED <<accepted, pc>>
    BY <1>6 DEF Finish
  <2>5. CASE ~(c \in accepted /\ pc[c] \in Sending)
    BY <1>a, <2>4, <2>5
  <2>6. CASE c \in accepted /\ pc[c] \in Sending /\ ok
    <3>1. lastAnswer' = text[p] /\ call' = call /\ handler[p] = "answered"
      BY <1>6, <2>6 DEF Finish
    <3>2. OwnAnswer(c)'
      BY <2>6, <3>1, AnswerIsNew
    <3>3. call[c].alone => Unfinished' \subseteq {call[c].prompt}
      BY <2>1, <2>6 DEF SendInv
    <3> QED
      BY <2>3, <2>4, <2>6, <3>1, <3>2, <3>3, SendSettles
  <2>7. CASE c \in accepted /\ pc[c] \in Sending /\ ~ok
    <3>1. call'[c] = [call[c] EXCEPT !.alone = FALSE, !.old = {}]
      BY <1>6, <2>7 DEF Finish
    <3>2. /\ call'[c].prompt = call[c].prompt /\ call'[c].settled = call[c].settled
          /\ call'[c].alone = FALSE /\ call'[c].old = {}
      BY <3>1 DEF Types, CallTypes, Sends
    <3>3. OwnAnswer(c)'
      BY <3>2 DEF OwnAnswer
    <3> QED
      BY <2>3, <2>4, <2>7, <3>2, <3>3, SendSettles
  <2> QED
    BY <2>5, <2>6, <2>7
<1>7. CASE InitialSettled
  <2>1. Unfinished' = Unfinished \ {0} /\ 0 \in Prompts
    BY <1>7, Ends, Instruction DEF InitialSettled
  <2>2. \A q \in Prompts : handler[q] = "over" => handler'[q] = "over"
    BY <1>7 DEF InitialSettled, Types, TalkTypes
  <2>3. \A q \in call[c].old : handler[q] = "over" => handler'[q] = "over"
    BY <2>2 DEF Types, CallTypes, Sends
  <2>4. /\ Broadcast("settled") /\ UNCHANGED <<accepted, pc, call>>
        /\ lastAnswer' = text[0] /\ handler[0] = "answered"
    BY <1>7 DEF InitialSettled
  <2>5. CASE ~(c \in accepted /\ pc[c] \in Sending)
    BY <1>a, <2>4, <2>5
  <2>6. CASE c \in accepted /\ pc[c] \in Sending
    <3>1. OwnAnswer(c)'
      BY <2>1, <2>4, <2>6, AnswerIsNew
    <3>2. call[c].alone => Unfinished' \subseteq {call[c].prompt}
      BY <2>1, <2>6 DEF SendInv
    <3> QED
      BY <2>3, <2>4, <2>6, <3>1, <3>2, SendSettles
  <2> QED
    BY <2>5, <2>6
<1>8. ASSUME NEW how \in {"answered", "failed"}, NextRun(how), UNCHANGED <<owner, bridge, clients>>
      PROVE  SendInv(c)'
  <2>1. /\ Unfinished' = Unfinished
        /\ \A p \in Prompts : handler[p] = "over" <=> handler'[p] = "over"
    BY <1>8, Settles
  <2> QED
    BY <1>8, <1>b, <2>1 DEF bridge, clients
<1>9. ASSUME NEW d \in Clients, NEW p \in Prompts, SendPrompt(d, p)
      PROVE  SendInv(c)'
  <2>1. /\ UNCHANGED <<accepted, lastAnswer>> /\ d \in accepted /\ p # 0
        /\ handler[p] = "none" /\ pc[d] = "state"
    BY <1>9 DEF SendPrompt
  <2>2. pc'[c] = IF c = d THEN "prompt" ELSE pc[c]
    BY <1>9 DEF SendPrompt, Goto, Types, CallTypes
  <2>3. handler' = [handler EXCEPT ![p] = IF session = "open" THEN "wait" ELSE "over"]
    BY <1>9 DEF SendPrompt, Submit
  <2>4. \A q \in Prompts : handler'[q] =
          IF q = p THEN IF session = "open" THEN "wait" ELSE "over" ELSE handler[q]
    BY <2>3 DEF Types, TalkTypes
  <2>5. Unfinished' = IF session = "open" THEN Unfinished \cup {p} ELSE Unfinished
    BY <2>1, <2>4 DEF Unfinished
  <2>6. \A q \in call[c].old : handler[q] = "over" => handler'[q] = "over"
    BY <2>1, <2>4 DEF Types, CallTypes, Sends
  <2>7. CASE c = d
    <3>1. call'[c] = [call[c] EXCEPT !.prompt = p, !.alone = active = 0,
                                     !.old = {q \in Prompts : handler[q] = "over"}]
      BY <1>9, <2>7 DEF SendPrompt
    <3>2. /\ call'[c].prompt = p /\ call'[c].alone = (active = 0)
          /\ call'[c].old = {q \in Prompts : handler[q] = "over"}
      BY <3>1 DEF Types, CallTypes, Sends
    <3>3. ~Has(inbox[c], "ok")
      BY <2>1, <2>7 DEF SocketInv
    <3>4. ~Heard(c)' /\ (session # "open" => ~Taken(c)')
      <4>1. CASE session = "open"
        <5>1. /\ inbox[c] \in Seq(Records) /\ "ok" \in Records
              /\ inbox'[c] = Append(inbox[c], "ok")
          BY <1>9, <2>7, <4>1 DEF SendPrompt, Types, SocketTypes, Records
        <5>2. Answered(inbox'[c]) <=> Answered(inbox[c])
          BY <5>1, Written
        <5>3. ~Answered(inbox'[c])
          BY <3>3, <5>2, AnsweredHas
        <5> QED
          BY <2>2, <2>7, <4>1, <5>3 DEF Heard
      <4>2. CASE session # "open"
        <5>1. ~Heeds(c)
          BY <2>1, <2>7 DEF Heeds
        <5>2. inbox'[c] = inbox[c]
          BY <1>9, <4>2, <5>1 DEF SendPrompt, Broadcast, Types, SocketTypes
        <5>3. ~Answered(inbox'[c]) /\ ~Has(inbox'[c], "ok")
          BY <3>3, <5>2, AnsweredHas
        <5> QED
          BY <2>2, <2>7, <5>3 DEF Heard, Taken
      <4> QED
        BY <4>1, <4>2
    <3>5. active = 0 => Unfinished' \subseteq {p}
      BY <2>5, Counts
    <3>6. \A q \in call'[c].old : handler'[q] = "over"
      BY <2>1, <2>4, <3>2
    <3>7. session = "open" => p \in Unfinished'
      BY <2>5
    <3> QED
      BY <2>1, <3>2, <3>4, <3>5, <3>6, <3>7 DEF SendInv
  <2>8. CASE c # d
    <3>1. call'[c] = [call[c] EXCEPT !.alone = FALSE, !.old = IF session = "open" THEN @ ELSE {}]
      BY <1>9, <2>8 DEF SendPrompt
    <3>2. /\ call'[c].prompt = call[c].prompt /\ call'[c].settled = call[c].settled
          /\ call'[c].alone = FALSE
          /\ call'[c].old = IF session = "open" THEN call[c].old ELSE {}
      BY <3>1 DEF Types, CallTypes, Sends
    <3>3. CASE session = "open"
      <4>1. inbox'[c] = inbox[c]
        BY <1>9, <2>8, <3>3 DEF SendPrompt, Types, SocketTypes
      <4> QED
        BY <2>1, <2>2, <2>5, <2>6, <2>8, <3>2, <3>3, <4>1, SendFrame
    <3>4. CASE session # "open"
      <4>1. Broadcast("settled")
        BY <1>9, <3>4 DEF SendPrompt
      <4>2. OwnAnswer(c)'
        BY <3>2, <3>4 DEF OwnAnswer
      <4>3. CASE c \in accepted /\ pc[c] \in Sending
        BY <2>2, <2>6, <2>8, <3>2, <3>4, <4>1, <4>2, <4>3, SendSettles
      <4>4. CASE ~(c \in accepted /\ pc[c] \in Sending)
        BY <1>a, <2>1, <2>2, <2>8, <4>4
      <4> QED
        BY <4>3, <4>4
    <3> QED
      BY <3>3, <3>4
  <2> QED
    BY <2>7, <2>8
<1>10. ASSUME NEW d \in Clients,
              \/ Attach(d) \/ Accept(d) \/ State(d) \/ Consume(d)
              \/ WaitForAfter(d) \/ LastText(d) \/ TimesOut(d) \/ Detach(d)
       PROVE  SendInv(c)'
  <2>1. UNCHANGED <<lastAnswer, handler>> /\ Unfinished' = Unfinished
    BY <1>10 DEF Attach, Accept, State, Consume, WaitForAfter, LastText, TimesOut, Detach,
                 bridge, talk, Unfinished
  <2>2. CASE c # d
    <3>1. pc'[c] = pc[c] /\ call'[c] = call[c] /\ inbox'[c] = inbox[c]
      <4>1. CASE Consume(d)
        <5>1. Head(inbox[d]) \in Records
          BY <4>1, Read DEF Consume, Types, SocketTypes
        <5>2. pc'[c] = pc[c] /\ call'[c] = call[c]
          BY <2>2, <4>1, <5>1 DEF Consume, Goto, Over, Records, Types, CallTypes
        <5> QED
          BY <2>2, <4>1, <5>2 DEF Consume, Types, SocketTypes
      <4>2. CASE Attach(d) \/ Accept(d) \/ State(d)
        BY <2>2, <4>2 DEF Attach, Accept, State, Goto, Types, SocketTypes, CallTypes
      <4>3. CASE WaitForAfter(d) \/ LastText(d) \/ TimesOut(d) \/ Detach(d)
        BY <2>2, <4>3
        DEF WaitForAfter, LastText, TimesOut, Detach, Goto, Over, Types, SocketTypes, CallTypes
      <4> QED
        BY <1>10, <4>1, <4>2, <4>3
    <3>2. c \in accepted' => c \in accepted
      BY <1>10, <2>2
      DEF Attach, Accept, State, Consume, WaitForAfter, LastText, TimesOut, Detach
    <3> QED
      BY <1>b, <2>1, <3>1, <3>2
  <2>3. CASE c = d /\ Consume(c)
    <3>0. /\ inbox[c] \in Seq(Records) /\ inbox[c] # <<>> /\ inbox'[c] = Tail(inbox[c])
          /\ accepted' = accepted
      BY <2>3 DEF Consume, Types, SocketTypes
    <3>1. /\ Head(inbox[c]) \in Records
          /\ \A r : Has(inbox[c], r) <=> Head(inbox[c]) = r \/ Has(inbox'[c], r)
          /\ Answered(inbox[c]) <=> \/ Answered(inbox'[c])
                                    \/ Head(inbox[c]) = "ok" /\ Has(inbox'[c], "settled")
          /\ Head(inbox[c]) = "ok" => ~Has(inbox'[c], "ok")
      BY <3>0, Read DEF SocketInv
    <3>2. CASE Head(inbox[c]) = "ok"
      <4>1. pc'[c] = "resolved" /\ UNCHANGED call /\ pc[c] = "prompt"
        BY <2>3, <3>1, <3>2 DEF Consume, Goto, Types, CallTypes, SocketInv
      <4>2. ~call[c].settled /\ ~Answered(inbox'[c])
        BY <3>1, <3>2, <4>1, AnsweredHas DEF SocketInv
      <4>3. Taken(c) /\ (Heard(c) <=> Heard(c)')
        BY <3>1, <3>2, <4>1, <4>2 DEF Taken, Heard
      <4> QED
        BY <2>1, <3>0, <4>1, <4>3 DEF SendInv, OwnAnswer, Sending
    <3>3. CASE Head(inbox[c]) = "settled"
      <4>1. /\ pc'[c] = IF pc[c] = "waiting" THEN "text" ELSE pc[c]
            /\ call' = [call EXCEPT ![c].settled = @ \/ pc[c] = "resolved"]
        BY <2>3, <3>3 DEF Consume, Goto, Types, CallTypes
      <4>2. /\ call'[c].settled = (call[c].settled \/ pc[c] = "resolved")
            /\ call'[c].prompt = call[c].prompt /\ call'[c].old = call[c].old
            /\ call'[c].alone = call[c].alone
        BY <4>1 DEF Types, CallTypes, Sends
      <4>3. (Taken(c)' <=> Taken(c)) /\ (Heard(c)' <=> Heard(c))
        BY <3>1, <3>3, <4>1, <4>2 DEF Taken, Heard
      <4>4. pc'[c] \in Sending => pc[c] \in Sending
        BY <4>1 DEF Sending
      <4> QED
        BY <2>1, <3>0, <4>2, <4>3, <4>4 DEF SendInv, OwnAnswer
    <3>4. CASE Head(inbox[c]) = "close"
      <4>1. pc'[c] = "detached"
        BY <2>3, <3>4 DEF Consume, Over, Goto, Types, CallTypes
      <4> QED
        BY <1>a, <4>1 DEF Sending
    <3> QED
      BY <3>1, <3>2, <3>3, <3>4 DEF Records
  <2>4. CASE c = d /\ WaitForAfter(c)
    <3>1. /\ pc[c] = "resolved" /\ pc'[c] = IF call[c].settled THEN "text" ELSE "waiting"
          /\ UNCHANGED <<accepted, inbox, call>>
      BY <2>4 DEF WaitForAfter, Goto, Types, CallTypes
    <3>2. Taken(c) /\ (Heard(c)' <=> Heard(c))
      BY <3>1 DEF Taken, Heard
    <3> QED
      BY <2>1, <3>1, <3>2 DEF SendInv, OwnAnswer, Sending
  <2>5. CASE c = d /\ (Attach(c) \/ Accept(c) \/ State(c) \/ LastText(c) \/ TimesOut(c) \/ Detach(c))
    <3>1. pc'[c] \in {"attach", "attachState", "detached", "idle", "state"}
      BY <2>5 DEF Attach, Accept, State, LastText, TimesOut, Detach, Goto, Over, Types, CallTypes
    <3> QED
      BY <1>a, <3>1 DEF Sending
  <2> QED
    BY <1>10, <2>2, <2>3, <2>4, <2>5
<1>11. CASE UNCHANGED vars
  BY <1>11, <1>b DEF vars, bridge, talk, clients, Unfinished
<1> QED
  BY <1>1, <1>2, <1>3, <1>4, <1>5, <1>6, <1>7, <1>8, <1>9, <1>10, <1>11, <1>12
  DEF Next, Server, Client, Closing, Quiet, RunEnds, AbortTurn

-----------------------------------------------------------------------------
(* Theorems. *)

\* The bridge, its conversation and its clients are in order in every state.
THEOREM BridgeInvariance == Spec => []BridgeInv
<1>1. Init => BridgeInv
  <2> SUFFICES ASSUME Init
               PROVE  BridgeInv
    OBVIOUS
  <2>1. Types
    <3>1. OwnerTypes
      BY DEF Init, OwnerTypes, Runs
    <3>2. TalkTypes
      BY DEF Init, TalkTypes
    <3>3. SocketTypes
      BY Emptied DEF Init, SocketTypes
    <3>4. NoCall \in Sends
      BY Instruction DEF NoCall, Sends
    <3>5. CallTypes
      BY <3>4 DEF Init, CallTypes, Points
    <3> QED
      BY <3>1, <3>2, <3>3, <3>5 DEF Types
  <2>2. TalkInv
    <3>1. Unfinished = {} /\ Len(queue) = 0 /\ current = {}
      BY DEF Init, Unfinished
    <3>2. Cardinality(Unfinished) <= active
      BY <3>1, FS_EmptySet DEF Init
    <3> QED
      BY <3>1, <3>2 DEF Init, TalkInv
  <2>3. PhaseInv
    BY Instruction DEF Init, PhaseInv, Fresh, Early
  <2>4. \A c \in Clients : SocketInv(c) /\ SendInv(c)
    BY Emptied DEF Init, SocketInv, SendInv, NoCall, Sending
  <2> QED
    BY <2>1, <2>2, <2>3, <2>4 DEF BridgeInv
<1>2. BridgeInv /\ [Next]_vars => BridgeInv'
  BY TypeStep, TalkStep, PhaseStep, SocketStep, SendStep DEF BridgeInv
<1> QED
  BY <1>1, <1>2, PTL DEF Spec

\* No send waits for a settlement that it has already read.
THEOREM NoSettlementMissed == Spec => []SettledIsSeen
<1>1. BridgeInv => SettledIsSeen
  <2> SUFFICES ASSUME BridgeInv, NEW c \in accepted, pc[c] = "waiting",
                      call[c].prompt \notin Unfinished
               PROVE  "settled" \in Range(inbox[c])
    BY DEF SettledIsSeen
  <2>1. c \in Clients /\ inbox[c] \in Seq(Records)
    BY DEF BridgeInv, Types, SocketTypes
  <2>2. SendInv(c) /\ Taken(c) /\ pc[c] \in Sending
    BY <2>1 DEF BridgeInv, Taken, Sending
  <2>3. Has(inbox[c], "settled")
    BY <2>2 DEF SendInv, Heard
  <2> QED
    BY <2>1, <2>3 DEF Has, Range
<1> QED
  BY <1>1, BridgeInvariance, PTL

\* The answer that a send returns is not from before its prompt, and its own if it was alone.
THEOREM OwnAnswers == Spec => []AnswerIsOwn
<1>1. BridgeInv => AnswerIsOwn
  <2> SUFFICES ASSUME BridgeInv, NEW c \in accepted, pc[c] = "text", lastAnswer # {}
               PROVE  /\ call[c].alone => call[c].prompt \in lastAnswer
                      /\ ~ lastAnswer \subseteq call[c].old
    BY DEF AnswerIsOwn
  <2>1. SendInv(c) /\ Heard(c) /\ pc[c] \in Sending
    BY DEF BridgeInv, Types, SocketTypes, Heard, Sending
  <2> QED
    BY <2>1 DEF SendInv, OwnAnswer
<1> QED
  BY <1>1, BridgeInvariance, PTL

\* The idle timer does not close the conversation under a prompt.
THEOREM FollowUps == Spec => []FollowUpsFinish
<1>1. BridgeInv => FollowUpsFinish
  BY DEF BridgeInv, PhaseInv, FollowUpsFinish
<1> QED
  BY <1>1, BridgeInvariance, PTL

=============================================================================
