------------------------- MODULE PresentationStream -------------------------
(***************************************************************************)
(* How a reply of the model is spoken and shown: the voice pipeline's      *)
(* VoicePresentationResponseProcessor (apps/edge/bot.py), the incremental  *)
(* StreamingSpokenExtractor and parse_presentation_response                *)
(* (apps/edge/presentation_response.py).                                   *)
(*                                                                         *)
(* A reply is a JSON object with the fields spoken and presentation.  Its  *)
(* text arrives in chunks cut anywhere; the extractor decodes the string   *)
(* after the key as it arrives, and the parser reads the whole text at the *)
(* end.  What a pipeline sends on is an external matter: a response may    *)
(* be interrupted anywhere, with or without its end frame.                 *)
(*                                                                         *)
(* Characters: "K" is the key with its quotes, "C" the colon and the quote *)
(* that opens the string, "W" white space; "q" a quote, "b" a backslash,   *)
(* "u" the letter u, "n" one that is white space after a backslash (f, n,  *)
(* r, t), "s" and "h" hexadecimal digits, where an escape of "s" alone is  *)
(* white space, and "x" any other letter; "r" a closing brace and "p"      *)
(* anything else outside the string.  An escape has HexDigits digits (four *)
(* in the code).                                                           *)
(***************************************************************************)
EXTENDS Presentation

CONSTANTS
  Replies,     \* the replies: records of a text, its app and whether it is nested
  Later,       \* bound: the replies after the first one
  Window,      \* the tail of the text kept while the key is looked for (64)
  HexDigits,   \* digits of a unicode escape (4)
  MaxSpoken,   \* MAX_SPOKEN_LENGTH
  MaxChunk,    \* bound: characters in a chunk
  Responses    \* bound: responses of the model

Characters == {"K", "C", "W", "q", "b", "u", "n", "s", "h", "x", "r", "p"}

\* What is spoken: characters as they are, escapes, and two texts of the parser.
Symbols == Characters \cup {"quote", "backslash", "newline", "space", "unicode", "invalid",
                           "inner", "Done."}
Blanks == {"W", "newline", "space"}

ASSUME StreamAssumption ==
  /\ Window \in Nat /\ HexDigits \in Nat \ {0} /\ MaxSpoken \in Nat
  /\ MaxChunk \in Nat /\ Responses \in Nat
  /\ \A r \in Replies \cup Later :
       r.text \in Seq(Characters) /\ r.nested \in BOOLEAN /\ IsRaw(r.app)
  /\ Null \notin Seq(Characters) /\ Null \notin Replies \cup Later

VARIABLES
  reply, sent,                  \* the response on its way, and how much of it was sent
  buffering, chunks, streamed,  \* the processor: _buffering, _chunks, _streamed_spoken
  prefix, started, finished,    \* the extractor: _prefix, _started, _finished,
  escaped, digits,              \*   _escaped and _unicode_digits
  speech,                       \* what was sent to the voice since the last start frame
  messages,                     \* the app messages sent since then
  count                         \* responses begun

extractor == <<prefix, started, finished, escaped, digits>>
processor == <<buffering, chunks, streamed, extractor>>
streamVars == <<reply, sent, processor, speech, messages, count>>

Fresh == [prefix |-> <<>>, started |-> FALSE, finished |-> FALSE,
          escaped |-> FALSE, digits |-> Null]

StreamInit ==
  /\ reply = Null /\ sent = 0
  /\ buffering = FALSE /\ chunks = <<>> /\ streamed = FALSE
  /\ prefix = <<>> /\ started = FALSE /\ finished = FALSE
  /\ escaped = FALSE /\ digits = Null
  /\ speech = <<>> /\ messages = <<>> /\ count = 0

-----------------------------------------------------------------------------
(* StreamingSpokenExtractor. *)

\* The key, white space and an opening quote, from i to j.
KeyAt(text, i, j) ==
  /\ i < j /\ text[i] = "K" /\ text[j] = "C"
  /\ \A k \in i + 1 .. j - 1 : text[k] = "W"

\* Where the first of them ends, or 0.
KeyEnd(text) ==
  LET ends == {j \in 1 .. Len(text) : \E i \in 1 .. j : KeyAt(text, i, j)}
  IN IF ends = {} THEN 0 ELSE CHOOSE j \in ends : \A k \in ends : j <= k

LastOf(text, n) == SubSeq(text, IF Len(text) < n THEN 1 ELSE Len(text) - n + 1, Len(text))

\* What a character after a backslash stands for: itself, if it is no escape.
Unescaped(c) ==
  CASE c = "q" -> "quote" [] c = "b" -> "backslash" [] c = "n" -> "newline"
    [] c \notin {"q", "b", "n"} -> c

\* A complete escape is one character, or the replacement character.
Decoded(escape) ==
  CASE ToSet(escape) \subseteq {"s"} -> "space"
    [] ~(ToSet(escape) \subseteq {"s"}) /\ ToSet(escape) \subseteq {"s", "h"} -> "unicode"
    [] ~(ToSet(escape) \subseteq {"s", "h"}) -> "invalid"

\* The extractor's state with what it has decoded.
State(isFinished, isEscaped, hex, out) ==
  [finished |-> isFinished, escaped |-> isEscaped, digits |-> hex, out |-> out]

Escaping(e, hex) == State(FALSE, TRUE, hex, e.out)
Adding(e, c) == State(FALSE, FALSE, Null, Append(e.out, c))
Ending(e) == State(TRUE, FALSE, Null, e.out)

\* A character of a unicode escape: the last one completes it.
Hex(e, c) ==
  IF Len(e.digits) + 1 < HexDigits THEN Escaping(e, Append(e.digits, c))
  ELSE Adding(e, Decoded(Append(e.digits, c)))

\* Mutant: the first quote ends the string.
CharacterEnds(e, c) ==
  IF e.finished THEN e
  ELSE IF e.digits # Null THEN Hex(e, c)
  ELSE IF c = "q" THEN Ending(e)
  ELSE IF e.escaped THEN IF c = "u" THEN Escaping(e, <<>>) ELSE Adding(e, Unescaped(c))
  ELSE IF c = "b" THEN Escaping(e, Null) ELSE Adding(e, c)

\* One character of the string.
Character(e, c) ==
  IF e.finished THEN e
  ELSE IF e.digits # Null THEN Hex(e, c)
  ELSE IF e.escaped THEN IF c = "u" THEN Escaping(e, <<>>) ELSE Adding(e, Unescaped(c))
  ELSE IF c = "b" THEN Escaping(e, Null)
  ELSE IF c = "q" THEN Ending(e) ELSE Adding(e, c)

\* The states of the extractor before each character of a text, and after the last.
Decoding(e, text) ==
  LET state[i \in 0 .. Len(text)] == IF i = 0 THEN e ELSE Character(state[i - 1], text[i])
  IN state
Decode(e, text) == Decoding(e, text)[Len(text)]

Extractor == State(finished, escaped, digits, <<>>)

\* feed: what the chunk adds to the speech, and the state after it.
Feed(chunk) ==
  LET text == prefix \o chunk
      after == IF started THEN chunk ELSE SubSeq(text, KeyEnd(text) + 1, Len(text))
      e == Decode(Extractor, after)
  IN IF ~started /\ KeyEnd(text) = 0
       THEN [out |-> <<>>, prefix |-> LastOf(text, Window), started |-> FALSE,
             finished |-> finished, escaped |-> escaped, digits |-> digits]
       ELSE [out |-> e.out, prefix |-> <<>>, started |-> TRUE,
             finished |-> e.finished, escaped |-> e.escaped, digits |-> e.digits]

-----------------------------------------------------------------------------
(* parse_presentation_response. *)

\* The units of a JSON string: the one at i, the place after it, and whether it is
\* well formed.
IsEscape(body, i) == body[i] = "b" /\ i < Len(body)
IsUnicode(body, i) == IsEscape(body, i) /\ body[i + 1] = "u"
Unit(body, i) == IF IsUnicode(body, i) THEN Decoded(SubSeq(body, i + 2, i + 1 + HexDigits))
                 ELSE IF IsEscape(body, i) THEN Unescaped(body[i + 1]) ELSE body[i]
After(body, i) == IF IsUnicode(body, i) THEN i + 2 + HexDigits
                  ELSE IF IsEscape(body, i) THEN i + 2 ELSE i + 1
WellFormed(body, i) ==
  /\ body[i] = "b" => IsEscape(body, i) /\ body[i + 1] \in {"q", "b", "n", "u"}
  /\ After(body, i) <= Len(body)
  /\ IsUnicode(body, i) => \A k \in i + 2 .. After(body, i) - 1 : body[k] \in {"s", "h"}

\* From each place to the quote that closes the string: its units and what is
\* behind the quote, or Null where JSON finds an error.
Units(body) ==
  LET from[i \in 1 .. Len(body) + 1] ==
        IF i > Len(body) THEN Null
        ELSE IF body[i] = "q"
          THEN [out |-> <<>>, rest |-> SubSeq(body, i + 1, Len(body))]
        ELSE IF ~WellFormed(body, i) \/ from[After(body, i)] = Null THEN Null
        ELSE [out |-> <<Unit(body, i)>> \o from[After(body, i)].out,
              rest |-> from[After(body, i)].rest]
  IN from

\* The string after the key as JSON reads it, or Null.
String(text) ==
  IF KeyEnd(text) = 0 THEN Null
  ELSE Units(SubSeq(text, KeyEnd(text) + 1, Len(text)))[1]

\* _decode_json: an object ends with its brace; up to two more are taken off.
IsJson(text) ==
  /\ String(text) # Null
  /\ LET rest == String(text).rest
     IN /\ ToSet(rest) \subseteq {"r", "W"}
        /\ Cardinality({i \in 1 .. Len(rest) : rest[i] = "r"}) \in 1 .. 3

\* strip: without white space at its ends.
Strip(spoken) ==
  LET kept == {i \in 1 .. Len(spoken) : spoken[i] \notin Blanks}
      first == CHOOSE i \in kept : \A k \in kept : i <= k
      last == CHOOSE i \in kept : \A k \in kept : k <= i
  IN IF kept = {} THEN <<>> ELSE SubSeq(spoken, first, last)

\* What is shown of a spoken text: stripped, "Done." if it is blank, and cut.
Shown(spoken) ==
  FirstOf(IF Strip(spoken) = <<>> THEN <<"Done.">> ELSE Strip(spoken), MaxSpoken)

\* A reply that was encoded once more in its own spoken field is decoded again;
\* text that is not JSON is spoken as it is.
Parse(text, r) ==
  [spoken |-> Shown(CASE ~IsJson(text)             -> text
                      [] IsJson(text) /\ r.nested  -> <<"inner">>
                      [] IsJson(text) /\ ~r.nested -> String(text).out),
   app |-> IF IsJson(text) THEN Normalize(r.app) ELSE Fallback]

-----------------------------------------------------------------------------
(* VoicePresentationResponseProcessor. *)

SetExtractor(e) ==
  /\ prefix' = e.prefix /\ started' = e.started /\ finished' = e.finished
  /\ escaped' = e.escaped /\ digits' = e.digits

\* Mutant: the extractor of the last response goes on.
StartKeeps(r) ==
  /\ count < Responses
  /\ count' = count + 1
  /\ reply' = r /\ sent' = 0
  /\ buffering' = TRUE /\ chunks' = <<>> /\ streamed' = FALSE
  /\ speech' = <<>> /\ messages' = <<>>
  /\ UNCHANGED extractor

\* LLMFullResponseStartFrame; the response before, if it has no end yet, was
\* interrupted.
Start(r) ==
  /\ count < Responses
  /\ count' = count + 1
  /\ reply' = r /\ sent' = 0
  /\ buffering' = TRUE /\ chunks' = <<>> /\ streamed' = FALSE
  /\ SetExtractor(Fresh)
  /\ speech' = <<>> /\ messages' = <<>>

\* LLMTextFrame: the next n characters; only what is new of the spoken text is
\* sent on.
Text(n) ==
  /\ buffering /\ reply # Null /\ sent + n <= Len(reply.text)
  /\ LET chunk == SubSeq(reply.text, sent + 1, sent + n)
         e == Feed(chunk)
     IN /\ chunks' = chunks \o chunk
        /\ SetExtractor(e)
        /\ streamed' = (streamed \/ e.out # <<>>)
        /\ speech' = speech \o e.out
  /\ sent' = sent + n
  /\ UNCHANGED <<reply, buffering, messages, count>>

\* LLMFullResponseEndFrame, also of a response that was cut off: the app message,
\* and the parsed speech if none was streamed; nothing for a blank text.
End ==
  /\ buffering
  /\ buffering' = FALSE /\ chunks' = <<>>
  /\ IF ToSet(chunks) \subseteq {"W"} THEN UNCHANGED <<speech, messages>>
     ELSE LET r == Parse(chunks, reply)
          IN /\ messages' = Append(messages, r)
             /\ speech' = IF streamed THEN speech ELSE speech \o r.spoken
  /\ UNCHANGED <<reply, sent, streamed, extractor, count>>

StreamNext ==
  \/ \E r \in (IF count = 0 THEN Replies ELSE Later) : Start(r)
  \/ \E n \in 1 .. MaxChunk : Text(n)
  \/ End

StreamSpec == StreamInit /\ [][StreamNext]_streamVars

-----------------------------------------------------------------------------
(* Properties. *)

\* Every variable has its type.
StreamTypeOK ==
  /\ reply \in Replies \cup Later \cup {Null}
  /\ sent \in Nat /\ count \in 0 .. Responses
  /\ buffering \in BOOLEAN /\ streamed \in BOOLEAN
  /\ chunks = IF buffering THEN SubSeq(reply.text, 1, sent) ELSE <<>>
  /\ Len(prefix) <= Window
  /\ started \in BOOLEAN /\ finished \in BOOLEAN /\ escaped \in BOOLEAN
  /\ digits = Null \/ Len(digits) < HexDigits

Received == SubSeq(reply.text, 1, sent)

\* The whole text decoded at once, from the reply alone.
SpokenAtOnce(text) ==
  IF KeyEnd(text) = 0 THEN <<>>
  ELSE Decode(State(FALSE, FALSE, Null, <<>>),
              SubSeq(text, KeyEnd(text) + 1, Len(text))).out

\* A key with no more white space in it than the window has room for.
KeyFits(text) ==
  \A i \in 1 .. Len(text) : KeyAt(text, i, KeyEnd(text)) => KeyEnd(text) - i < Window

\* What is spoken depends on the reply alone: not on how its text was cut into
\* chunks, nor on the response before, which may have been interrupted in the
\* middle of an escape.  At its end, a reply of which nothing was streamed is
\* spoken as the parser reads it, so none is spoken twice, and none is silent but
\* one whose text is blank: its blanks were streamed.
SpeechOfReply ==
  reply # Null /\ KeyFits(reply.text) =>
    speech = IF messages = <<>> \/ SpokenAtOnce(Received) # <<>> THEN SpokenAtOnce(Received)
             ELSE messages[1].spoken

\* For a complete reply that is not nested the browser shows what the voice says:
\* without the blanks at its ends, cut at the maximum, and "Done." where the voice
\* says nothing but blanks.
ShownIsSpoken ==
  messages # <<>> /\ IsJson(Received) /\ ~reply.nested /\ KeyFits(reply.text) =>
    messages[1].spoken = Shown(speech)

\* The app shown is consistent in itself whatever the model sent, and normalising
\* it again would change nothing.
AppIsConsistent ==
  messages # <<>> => Consistent(reply.app, messages[1].app) /\ Stable(messages[1].app)

=============================================================================
