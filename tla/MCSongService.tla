--------------------------- MODULE MCSongService ---------------------------
(* Instances of SongService for TLC. *)
EXTENDS SongService, TLC

MCSymmetry == Permutations(Calls) \cup Permutations(Traces)

\* As the prompt asks for it, by the other names, with a bad text beside good lines, and
\* with a field missing.
Proposed == [f \in Fields |-> IF f \in {"title", "style", "lyricLines", "durationSeconds", "bpm",
                                         "keyScale"} THEN "valid" ELSE "none"]
MCCandidates ==
  {Proposed, Manifest, [Proposed EXCEPT !["lyrics"] = "bad"], [Proposed EXCEPT !["bpm"] = "none"],
   [Proposed EXCEPT !["durationSeconds"] = "bad", !["duration_seconds"] = "valid"]}

=============================================================================
