---------------------------- MODULE Presentation ----------------------------
(***************************************************************************)
(* The presentation half of a reply: what _normalize_presentation and its  *)
(* helpers in apps/edge/presentation_response.py make of the untrusted     *)
(* value a model sends.  Titles, labels and their lengths are left out; a  *)
(* presentation is its kind with what the browser needs to be consistent:  *)
(*   flow       nodes (a sequence of IDs) and edges (pairs of IDs),        *)
(*   excalidraw elements (shapes and cameras),                             *)
(*   slides     a markdown text, one of "text", "blank" and "large",       *)
(*   journal    a transcript and the evidence quoted from it,              *)
(*   viewer     the origins of the URLs of a recorded trace,               *)
(*   trace      whether the identifiers of a Grafana trace are well formed.*)
(***************************************************************************)
EXTENDS Integers, SequencesExt

CONSTANTS
  MaxNodes, MaxEdges, MaxElements,   \* MAX_NODES, MAX_EDGES, MAX_EXCALIDRAW_ELEMENTS
  Trimmed                            \* the ID a raw node ID is stripped and cut to, or Null
CONSTANT Null                        \* nothing: an absent or unusable value

\* What a model sends: values of any kind become these, or "none", when they are
\* read.  A camera's ID is not looked at.
RawFlow == [kind : {"flow", "status"}, nodes : Seq(DOMAIN Trimmed), edges : Seq(STRING \X STRING)]
RawShape == [type : {"shape"}, id : {Null} \cup STRING, x : Int, y : Int, w : Int, h : Int]
RawCamera == [type : {"camera"}, id : {Null}, x : Int, y : Int, w : Int, h : Int]
RawElement == RawShape \cup RawCamera
RawDrawing == [kind : {"excalidraw"}, elements : Seq(RawElement)]
RawEvidence == [quote : Seq(Nat), start : Int, end : Int]
RawJournal == [kind : {"journal"}, transcript : Seq(Nat), evidence : {Null} \cup RawEvidence]

\* Whether a value is one of these; the others are only looked at.
IsRaw(p) ==
  CASE p.kind \in {"flow", "status"} -> p \in RawFlow
    [] p.kind = "excalidraw"         -> p \in RawDrawing
    [] p.kind = "journal"            -> p \in RawJournal
    [] OTHER -> p.kind \in {"slides", "viewer", "trace", "none"}

\* A stripped ID is one that may be sent; that of the fallback stays.
ASSUME PresentationAssumption ==
  /\ MaxNodes \in Nat \ {0} /\ MaxEdges \in Nat /\ MaxElements \in Nat
  /\ "result" \in DOMAIN Trimmed /\ Trimmed["result"] = "result"
  /\ \A id \in DOMAIN Trimmed : Trimmed[id] # Null => Trimmed[id] \in DOMAIN Trimmed
  /\ Null \notin DOMAIN Trimmed /\ Null \notin RawElement

Largest(S) == CHOOSE n \in S : \A m \in S : m <= n

\* fallback_presentation: one status node.
Fallback == [kind |-> "status", nodes |-> <<"result">>, edges |-> <<>>]

\* One of each: the first of equal ones stays.
Distinct(seq) ==
  LET First(i) == \A j \in 1 .. i - 1 : seq[j] # seq[i]
  IN [i \in 1 .. Len(seq) |-> IF First(i) THEN seq[i] ELSE Null]

Further(seq, e, S) == IF e \in S THEN Append(seq, e) ELSE seq

\* The elements of a sequence that are in a set, in their order: those of its first
\* n elements, for each n, and those of all.
OnlyOfFirst(seq, S) ==
  LET only[n \in 0 .. Len(seq)] ==
        IF n = 0 THEN <<>> ELSE Further(only[n - 1], seq[n], S)
  IN only
Only(seq, S) == OnlyOfFirst(seq, S)[Len(seq)]

Present(seq) == Only(seq, ToSet(seq) \ {Null})
FirstOf(seq, n) == SubSeq(seq, 1, IF Len(seq) < n THEN Len(seq) ELSE n)

-----------------------------------------------------------------------------
(* Flow and status diagrams. *)

\* Node IDs are stripped, a repeated or empty one is left out; an edge stays only
\* if both its ends, which are not stripped, are IDs of nodes that stay.
Flow(p) ==
  LET nodes == Present(Distinct([i \in 1 .. Len(FirstOf(p.nodes, MaxNodes)) |->
                                   Trimmed[p.nodes[i]]]))
      edges == Only(FirstOf(p.edges, MaxEdges), ToSet(nodes) \X ToSet(nodes))
  IN IF nodes = <<>> THEN Fallback ELSE [kind |-> p.kind, nodes |-> nodes, edges |-> edges]

-----------------------------------------------------------------------------
(* Excalidraw. *)

Sizes == <<<<400, 300>>, <<600, 450>>, <<800, 600>>, <<1200, 900>>, <<1600, 1200>>>>

IsCamera(e) == e.type = "camera"
FourByThree(e) == e.w > 0 /\ e.h > 0 /\ 3 * e.w = 4 * e.h
Margin == 40

\* A negative size of a shape counts as none.
Extent(n) == IF n < 0 THEN 0 ELSE n

\* The room the shapes need to the right of the camera and below it.
Needed(camera, elements) ==
  LET shapes == {e \in ToSet(elements) : ~IsCamera(e)}
  IN <<Largest({400} \cup {e.x + Extent(e.w) - camera.x + Margin : e \in shapes}),
       Largest({300} \cup {e.y + Extent(e.h) - camera.y + Margin : e \in shapes})>>

\* Mutant: a size is taken that is wide enough.
RepairCameraWide(camera, elements) ==
  LET needed == Needed(camera, elements)
      fits == {i \in 1 .. Len(Sizes) : Sizes[i][1] >= needed[1]}
      size == Sizes[IF fits = {} THEN Len(Sizes) ELSE -Largest({-i : i \in fits})]
  IN IF FourByThree(camera) THEN camera
     ELSE [type |-> "camera", id |-> Null, x |-> camera.x, y |-> camera.y,
           w |-> size[1], h |-> size[2]]

\* _repair_excalidraw_camera: a 4:3 camera is kept, any other one gets the first
\* size the shapes fit in, or else the largest.
RepairCamera(camera, elements) ==
  LET needed == Needed(camera, elements)
      fits == {i \in 1 .. Len(Sizes) :
                 Sizes[i][1] >= needed[1] /\ Sizes[i][2] >= needed[2]}
      size == Sizes[IF fits = {} THEN Len(Sizes) ELSE -Largest({-i : i \in fits})]
  IN IF FourByThree(camera) THEN camera
     ELSE [type |-> "camera", id |-> Null, x |-> camera.x, y |-> camera.y,
           w |-> size[1], h |-> size[2]]

NoCamera == [type |-> "camera", id |-> Null, x |-> 0, y |-> 0, w |-> 0, h |-> 0]

\* A shape stays if its ID is new, a camera always; a drawing without a camera is
\* given one, in front, even if it has the largest number of elements already.
Excalidraw(p) ==
  LET raw == FirstOf(p.elements, MaxElements)
      New(i) == \/ IsCamera(raw[i])
                \/ raw[i].id # Null /\ \A j \in 1 .. i - 1 : raw[j].id # raw[i].id
      kept == Present([i \in 1 .. Len(raw) |-> IF New(i) THEN raw[i] ELSE Null])
      elements == IF \E i \in 1 .. Len(kept) : IsCamera(kept[i]) THEN kept
                  ELSE <<NoCamera>> \o kept
      Repaired(e) == IF IsCamera(e) THEN RepairCamera(e, elements) ELSE e
  IN IF kept = <<>> THEN Fallback
     ELSE [kind |-> "excalidraw", elements |-> [i \in 1 .. Len(elements) |-> Repaired(elements[i])]]

-----------------------------------------------------------------------------
(* The others are taken whole or not at all. *)

\* _normalize_slides
Slides(p) == IF p.markdown = "text" THEN p ELSE Fallback

\* transcript[start:end]: an end behind the transcript is its end.
Slice(text, start, end) == SubSeq(text, start + 1, IF end < Len(text) THEN end ELSE Len(text))

\* _normalize_journal_review: the evidence, if any, is the quote at its offsets.
Journal(p) ==
  LET e == p.evidence
  IN IF p.transcript # <<>>
        /\ (e = Null \/ /\ e.quote # <<>> /\ 0 <= e.start /\ e.start < e.end
                        /\ Slice(p.transcript, e.start, e.end) = e.quote)
       THEN p ELSE Fallback

\* The trace of a viewer is on the viewer's own origin, and so are its preview and
\* its video, where there are any.
Viewer(p) ==
  IF p.viewer # Null /\ p.trace = p.viewer
     /\ p.preview \in {Null, p.viewer} /\ p.video \in {Null, p.viewer}
    THEN p ELSE Fallback

\* The identifiers of a Grafana trace are checked one by one.
Trace(p) == IF p.valid THEN p ELSE Fallback

\* _normalize_presentation
Normalize(p) ==
  CASE p.kind \in {"flow", "status"} -> Flow(p)
    [] p.kind = "excalidraw"         -> Excalidraw(p)
    [] p.kind = "slides"             -> Slides(p)
    [] p.kind = "journal"            -> Journal(p)
    [] p.kind = "viewer"             -> Viewer(p)
    [] p.kind = "trace"              -> Trace(p)
    [] p.kind = "none"               -> Fallback

-----------------------------------------------------------------------------
(* What the browser relies on. *)

\* A repaired camera shows the right and the lower end of every shape, unless it
\* has the largest size.
Shows(camera, shape) ==
  /\ shape.x + shape.w <= camera.x + camera.w
  /\ shape.y + shape.h <= camera.y + camera.h

Consistent(raw, p) ==
  CASE p.kind \in {"flow", "status"} ->
         /\ p.nodes # <<>>
         /\ \A i, j \in 1 .. Len(p.nodes) : p.nodes[i] = p.nodes[j] => i = j
         /\ \A e \in ToSet(p.edges) : {e[1], e[2]} \subseteq ToSet(p.nodes)
    [] p.kind = "excalidraw" ->
         LET cameras == {e \in ToSet(p.elements) : IsCamera(e)}
             shapes == {i \in 1 .. Len(p.elements) : ~IsCamera(p.elements[i])}
         IN /\ cameras # {}
            /\ \A i, j \in shapes : p.elements[i].id = p.elements[j].id => i = j
            /\ \A c \in cameras :
                 /\ FourByThree(c)
                 /\ \/ c \in ToSet(raw.elements)
                    \/ c.w = Sizes[Len(Sizes)][1]
                    \/ \A i \in shapes : Shows(c, p.elements[i])
    [] p.kind = "journal" ->
         p.evidence # Null =>
           \A i \in 1 .. Len(p.evidence.quote) :
             p.transcript[p.evidence.start + i] = p.evidence.quote[i]
    [] p.kind = "viewer" -> {p.trace, p.preview, p.video} \subseteq {p.viewer, Null}
    [] OTHER -> TRUE

\* Normalising again changes nothing, unless a camera was added to a drawing of the
\* largest size, or an ID that was cut at its largest length ends in a blank now.
Stable(p) ==
  \/ p.kind = "excalidraw" /\ Len(p.elements) > MaxElements
  \/ p.kind \in {"flow", "status"} /\ \E id \in ToSet(p.nodes) : Trimmed[id] # id
  \/ Normalize(p) = p

=============================================================================
