----------------------------- MODULE MCAnalysis -----------------------------
(***************************************************************************)
(* AnalysisPublication and DmiMatching, for TLC in one run: a behaviour is *)
(* of one of them.                                                         *)
(***************************************************************************)
EXTENDS AnalysisPublication, DmiMatching

VARIABLE subject

AnalysisInit == Init /\ MatchInit /\ subject \in {"analysis", "matching"}

AnalysisNext ==
  /\ \/ subject = "analysis" /\ Next /\ UNCHANGED matchVars
     \/ subject = "matching" /\ MatchNext /\ UNCHANGED vars
  /\ UNCHANGED subject

AnalysisSpec ==
  /\ AnalysisInit
  /\ [][AnalysisNext]_<<subject, vars, matchVars>>
  /\ Fairness

-----------------------------------------------------------------------------
(* The pictures: of three pixels, in two frames of two pixels, in four      *)
(* directions                                                               *)

Pixels == {Clear, [hue |-> 0, alpha |-> Opaque], [hue |-> 1, alpha |-> Opaque]}

Frames(w, h, pixels) == {[w |-> w, h |-> h, px |-> px] : px \in [Cells(w, h) -> pixels]}

Pictured(dirs, count, frames) ==
  {[dirs |-> dirs, frames |-> count, px |-> px] :
     px \in [(1 .. count) \X Directions(dirs) -> frames]}

Pictures ==
  UNION {Pictured(1, 1, Frames(w[1], w[2], Pixels)) : w \in {<<2, 2>>, <<3, 1>>, <<1, 2>>}}
    \cup Pictured(1, 2, Frames(2, 1, {p \in Pixels : p.hue = 0}))
    \cup Pictured(4, 1, Frames(1, 1, Pixels \ {Clear}))
=============================================================================
