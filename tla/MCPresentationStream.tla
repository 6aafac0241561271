----------------------- MODULE MCPresentationStream -----------------------
(* Instances of PresentationStream for TLC. *)
EXTENDS PresentationStream

CONSTANTS MaxBody, MaxNodesSent, MaxElementsSent   \* bounds of the replies

Letters == {"x", "h", "n", "b", "u", "q", "W"}
Body == BoundedSeq(Letters, MaxBody)
          \cup {<<"b", "u">> \o s : s \in BoundedSeq({"h", "s", "x", "q"}, HexDigits)}
          \cup UNION {{<<"b", "u", "s", "h", l>>, <<"x", "h", l>>} : l \in Letters}
          \cup {l \o m \o n : l \in {<<"W">>, <<"b", "n">>}, m \in BoundedSeq({"h", "W"}, 2),
                              n \in {<<"W">>, <<"b", "u", "s", "s">>}}

\* Texts of replies: the object with up to two spaces in its key and up to four
\* braces at its end, or cut off; and text without the key.
MCTexts ==
  {<<"p", "K">> \o w \o <<"C">> \o body \o end :
     w \in {<<>>, <<"W">>}, body \in Body,
     end \in {<<>>, <<"q">>, <<"q", "r">>, <<"q", "r", "W", "r", "r">>,
              <<"q", "r", "r", "r", "r">>}}
  \cup {<<>>, <<"W">>, <<"x", "h">>, <<"W", "h", "W">>, <<"p", "K", "r">>,
        <<"K", "W", "W", "W", "C", "x", "q", "r">>,
        <<"K", "p", "K", "C", "x", "q", "r">>}

Simple == [kind |-> "none"]

\* The stripped form of each raw ID; the longest one is cut behind a blank.
RawIds == {"a", "b", "b ", "b c", " "}
MCTrimmed == [id \in RawIds \cup {"result"} |->
                CASE id = "b " -> "b" [] id = "b c" -> "b " [] id = " " -> Null
                  [] id \notin {"b ", "b c", " "} -> id]

Flows == [kind : {"flow"}, nodes : BoundedSeq(RawIds, MaxNodesSent),
          edges : BoundedSeq(RawIds \X {"a", "b "}, 1)]

Shape(i, x, y, w, h) == [type |-> "shape", id |-> i, x |-> x, y |-> y, w |-> w, h |-> h]
Camera(x, y, w, h) == [type |-> "camera", id |-> Null, x |-> x, y |-> y, w |-> w, h |-> h]
Elements ==
  {Shape("a", 0, 0, 100, 100), Shape("b", 500, 0, 260, 10), Shape("c", 0, 700, 10, 161),
   Shape("a", 3000, 0, 10, 10), Shape("d", 900, -50, -50, 50), Shape(Null, 0, 0, 1, 1),
   Camera(0, 0, 800, 600), Camera(100, 0, 300, 300), Camera(0, -20, 0, 0)}

Drawings == [kind : {"excalidraw"}, elements : BoundedSeq(Elements, MaxElementsSent)]

Evidence == [quote : {<<>>, <<1>>, <<2, 3>>, <<3>>}, start : -1 .. 3, end : 0 .. 4]
Journals == [kind : {"journal"}, transcript : {<<>>, <<1, 2, 3>>}, evidence : Evidence \cup {Null}]

Origins == {"o1", "o2", Null}
Viewers == [kind : {"viewer"}, viewer : Origins, trace : Origins, preview : Origins, video : Origins]

MCApps == Flows \cup Drawings \cup Journals \cup Viewers
            \cup [kind : {"slides"}, markdown : {"text", "blank", "large"}]
            \cup [kind : {"trace"}, valid : BOOLEAN] \cup {Simple}

MCReplies ==
  [text : MCTexts, app : {Simple}, nested : {FALSE}]
    \cup [text : {t \in MCTexts : t # <<>> /\ t[Len(t)] = "r"}, app : {Simple}, nested : {TRUE}]
    \cup [text : {<<"K", "C", "x", "q", "r">>}, app : MCApps, nested : {FALSE}]

MCLater ==
  [text : {<<>>, <<"x", "h">>, <<"p", "K", "W", "C", "h", "b", "q", "q", "r">>},
   app : {Simple}, nested : {FALSE}]

=============================================================================
