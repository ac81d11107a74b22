----------------------------- MODULE DmiMatching -----------------------------
(***************************************************************************)
(* DmiMatching: how dm_find_dmi_duplicates and dm_compare_dmi_states match *)
(* two icon states.  States whose signatures meet are candidates; a pair   *)
(* of candidates is compared frame by frame under each of six transforms;  *)
(* the pairs that match are joined into clusters.                          *)
(*                                                                         *)
(* A pixel is a hue, which stands for three channels, and an alpha.  The   *)
(* perceptual signatures, which only add candidates, and the similarity    *)
(* that picks the evidence among equal matches are left out.               *)
(***************************************************************************)
EXTENDS Integers, FiniteSets, FiniteSetsExt, Functions

CONSTANTS
  Opaque,     \* the largest value of a channel, 255
  Threshold,  \* minimum_similarity, in percent
  IconStates, \* the icon states that are compared
  Members,    \* the states of a scan, numbered in their order
  MaxPairs    \* bound: pairs of a scan that match

Clear == [hue |-> 0, alpha |-> 0]

Transform == {"identity", "mirrorHorizontal", "mirrorVertical",
              "rotate90", "rotate180", "rotate270"}

VARIABLES
  compared,  \* the two states of a comparison
  matched,   \* the pairs of a scan that have been joined
  parents    \* parents[m]: the parent of the member m, itself when it is a root

matchVars == <<compared, matched, parents>>

-----------------------------------------------------------------------------
(* Frames: [w, h, px], px[x, y] with y downwards *)

Cells(w, h) == (0 .. w - 1) \X (0 .. h - 1)

Normalized(w, h, px) ==
  [w |-> w, h |-> h,
   px |-> [c \in Cells(w, h) |-> IF px[c].alpha = 0 THEN Clear ELSE px[c]]]

Pixel == [hue : Nat, alpha : 0 .. Opaque]

(* what normalized_icon_frame returns                                       *)
Frame(f) ==
  /\ f = [w |-> f.w, h |-> f.h, px |-> f.px] /\ f.w \in Nat /\ f.h \in Nat
  /\ f.px \in [Cells(f.w, f.h) -> Pixel]
  /\ \A c \in Cells(f.w, f.h) : f.px[c].alpha = 0 => f.px[c] = Clear

Seen(f) == {c \in Cells(f.w, f.h) : f.px[c].alpha # 0}

(* alpha_bounds of a frame that is not blank                                *)
Bounds(f) ==
  LET xs == {c[1] : c \in Seen(f)}  ys == {c[2] : c \in Seen(f)}
  IN [x |-> Min(xs), y |-> Min(ys), w |-> Max(xs) - Min(xs) + 1, h |-> Max(ys) - Min(ys) + 1]

(* where transform_frame moves the pixel at c                               *)
MovedTo(t, w, h, c) ==
  LET x == c[1]  y == c[2] IN
  CASE t = "identity" -> <<x, y>>
    [] t = "mirrorHorizontal" -> <<w - 1 - x, y>>
    [] t = "mirrorVertical" -> <<x, h - 1 - y>>
    [] t = "rotate90" -> <<h - 1 - y, x>>
    [] t = "rotate180" -> <<w - 1 - x, h - 1 - y>>
    [] t = "rotate270" -> <<y, w - 1 - x>>

Transformed(t, f) ==
  LET turned == t \in {"rotate90", "rotate270"}
      w == IF turned THEN f.h ELSE f.w
      h == IF turned THEN f.w ELSE f.h
  IN Normalized(w, h,
       [c \in Cells(w, h) |->
          f.px[CHOOSE d \in Cells(f.w, f.h) : MovedTo(t, f.w, f.h, d) = c]])

-----------------------------------------------------------------------------
(* Directions *)

Clockwise == <<"north", "northeast", "east", "southeast",
               "south", "southwest", "west", "northwest">>

Directions(n) ==
  CASE n = 1 -> {"south"}
    [] n = 4 -> {"south", "north", "east", "west"}
    [] n = 8 -> Range(Clockwise)

Turned(dir, eighths) ==
  LET at == CHOOSE i \in 1 .. 8 : Clockwise[i] = dir
  IN Clockwise[((at - 1 + eighths) % 8) + 1]

(* flip_ew, flip_ns: the vendored library                                   *)
Flipped(dir, around) ==
  LET at == CHOOSE i \in 1 .. 8 : Clockwise[i] = dir
  IN Clockwise[((2 * around + 7 - at) % 8) + 1]

TransformDirection(dir, t) ==
  CASE t = "identity" -> dir
    [] t = "mirrorHorizontal" -> Flipped(dir, 1)
    [] t = "mirrorVertical" -> Flipped(dir, 3)
    [] t = "rotate90" -> Turned(dir, 2)
    [] t = "rotate180" -> Turned(dir, 4)
    [] t = "rotate270" -> Turned(dir, 6)

-----------------------------------------------------------------------------
(* Icon states: [dirs, frames, px], px[k, dir] the frame k towards dir *)

Kinds == <<"exact", "transformed", "padded", "palette", "near", "different">>

Rank(kind) == CHOOSE i \in DOMAIN Kinds : Kinds[i] = kind

Away(a, b) == IF a > b THEN a - b ELSE b - a

Difference(a, b) == 3 * Away(a.hue, b.hue) + Away(a.alpha, b.alpha)

Near(delta, area) ==
  LET most == 4 * Opaque * area IN
  (most - delta) * 100 >= Max({90, Min({100, Threshold})}) * most

(* the pixels of the visible part, from its corner                          *)
Cropped(f) ==
  LET b == Bounds(f) IN [c \in Cells(b.w, b.h) |-> f.px[c[1] + b.x, c[2] + b.y]]

(* the colours of the two correspond one to one                             *)
Recoloured(a, b) ==
  /\ \A c, d \in DOMAIN a : a[c] = a[d] <=> b[c] = b[d]
  /\ \A c \in DOMAIN a : a[c].alpha = b[c].alpha

CompareAligned(l, r, t) ==
  IF Seen(l) = {} \/ Seen(r) = {}
  THEN IF Seen(l) = Seen(r) THEN "exact" ELSE "different"
  ELSE LET a == Cropped(l)  b == Cropped(r)
           padded == Bounds(l) # Bounds(r) \/ l.w # r.w \/ l.h # r.h
           delta == SumFunction([c \in DOMAIN a |-> Difference(a[c], b[c])])
       IN CASE DOMAIN a # DOMAIN b -> "different"
            [] a = b /\ t # "identity" -> "transformed"
            [] a = b /\ t = "identity" -> IF padded THEN "padded" ELSE "exact"
            [] OTHER -> IF Recoloured(a, b) THEN "palette"
                        ELSE IF Near(delta, Cardinality(DOMAIN a)) THEN "near"
                        ELSE "different"

Shots(s) == (1 .. s.frames) \X Directions(s.dirs)

(* at least one frame: without one there is nothing to compare, and even a  *)
(* copy is called different                                                 *)
IconState(s) ==
  /\ s = [dirs |-> s.dirs, frames |-> s.frames, px |-> s.px]
  /\ s.dirs \in {1, 4, 8} /\ s.frames \in Nat \ {0}
  /\ DOMAIN s.px = Shots(s) /\ \A x \in Shots(s) : Frame(s.px[x])

ASSUME MatchingConstants ==
  /\ Opaque \in Nat /\ Members \subseteq Nat
  /\ \A s \in IconStates : IconState(s)

(* whether the directions of s are turned into each other                   *)
Valid(s, t) == \A dir \in Directions(s.dirs) : TransformDirection(dir, t) \in Directions(s.dirs)

(* the frame that is seen in place of k, dir                                *)
Under(t, s, shot) ==
  LET from == CHOOSE d \in Directions(s.dirs) : TransformDirection(d, t) = shot[2]
  IN Transformed(t, s.px[shot[1], from])

CompareUnder(l, r, t) ==
  Max({Rank(CompareAligned(l.px[x], Under(t, r, x), t)) : x \in Shots(l)})

CompareStates(l, r) ==
  IF l.dirs # r.dirs \/ l.frames # r.frames
  THEN "different"
  ELSE Kinds[Min({CompareUnder(l, r, t) : t \in {u \in Transform : Valid(r, u)}})]

-----------------------------------------------------------------------------
(* Candidates *)

Visible(f) == IF Seen(f) = {} THEN <<>> ELSE Cropped(f)

(* the palette is numbered through all the frames: pixels are known by the  *)
(* places that have the same                                                *)
PaletteOf(crops) ==
  LET places == UNION {{<<x, c>> : c \in DOMAIN crops[x]} : x \in DOMAIN crops} IN
  [p \in places |-> [same |-> {q \in places : crops[q[1]][q[2]] = crops[p[1]][p[2]]},
                     alpha |-> crops[p[1]][p[2]].alpha]]

Signatures(s) ==
  UNION {LET seen == [x \in Shots(s) |-> Under(t, s, x)]
             crops == [x \in Shots(s) |-> Visible(seen[x])]
         IN {<<"exact", seen>>, <<"cropped", crops>>,
             <<"palette", PaletteOf(crops)>>} :
         t \in {u \in Transform : Valid(s, u)}}

Candidates(l, r) == Signatures(l) \cap Signatures(r) # {}

-----------------------------------------------------------------------------
(* Clusters: cluster_comparisons *)

(* the smaller of two roots is the parent of the other                      *)
Forest == {p \in [Members -> Members] : \A m \in Members : p[m] <= m}

(* find, which halves the path it walks                                     *)
Found(forest, m) ==
  LET walk[s \in [parents : Forest, at : Members]] ==
        IF s.parents[s.at] = s.at THEN s
        ELSE LET next == s.parents[s.parents[s.at]]
             IN walk[[parents |-> [s.parents EXCEPT ![s.at] = next], at |-> next]]
  IN walk[[parents |-> forest, at |-> m]]

(* slip: the member itself is moved under the other root, not its root      *)
MemberJoined(l, r) ==
  LET left == Found(parents, l)
      right == Found(left.parents, r)
  IN [right.parents EXCEPT ![r] = left.at]

Joined(l, r) ==
  LET left == Found(parents, l)
      right == Found(left.parents, r)
      roots == {left.at, right.at}
  IN [right.parents EXCEPT ![Max(roots)] = Min(roots)]

Clusters ==
  LET members == UNION {{p[1], p[2]} : p \in matched}
  IN {{m \in members : Found(parents, m).at = Found(parents, root).at} : root \in members}

-----------------------------------------------------------------------------
(* The inputs: a behaviour picks one for the comparison or for the clusters *)

MatchInit == compared = {} /\ matched = {} /\ parents = [m \in Members |-> m]

Compare(s) ==
  /\ Cardinality(compared) < 2 /\ s \notin compared /\ matched = {}
  /\ compared' = compared \cup {s}
  /\ UNCHANGED <<matched, parents>>

Join(l, r) ==
  /\ Cardinality(matched) < MaxPairs /\ compared = {}
  /\ l < r /\ <<l, r>> \notin matched
  /\ matched' = matched \cup {<<l, r>>}
  /\ parents' = Joined(l, r)
  /\ UNCHANGED compared

MatchNext ==
  \/ \E s \in IconStates : Compare(s)
  \/ \E l, r \in Members : Join(l, r)

MatchSpec == MatchInit /\ [][MatchNext]_matchVars

-----------------------------------------------------------------------------
(* Properties *)

(* A comparison has the same result in both directions, whatever transform  *)
(* it finds; and the signatures find every pair that it would match: copies *)
(* that are exact, turned or padded, and recoloured ones of one picture.    *)
NoneMissed(pair) ==
  LET l == CHOOSE s \in pair : TRUE
      r == CHOOSE s \in pair : s # l
      kind == CompareStates(l, r)
      still == Cardinality(Shots(l)) = 1
  IN /\ kind = CompareStates(r, l)
     /\ Rank(kind) <= Rank(IF still THEN "palette" ELSE "padded") => Candidates(l, r)

(* A state is an exact copy of itself, and stays a copy when it is turned   *)
(* with its directions.                                                     *)
TurnedCopies(s) ==
  /\ CompareStates(s, s) = "exact"
  /\ \A t \in Transform : Valid(s, t) =>
       LET turned == [s EXCEPT !.px = [x \in Shots(s) |-> Under(t, s, x)]] IN
       CompareStates(s, turned) \in {"exact", "transformed"}

(* A picture turns with its directions: what is marked towards a direction  *)
(* is, under a transform, marked towards where the direction is sent.       *)
PicturesTurn ==
  LET mark(dir) == CHOOSE c \in Cells(3, 3) :
        \A side \in {<<"north", 2, 0>>, <<"south", 2, 2>>, <<"west", 1, 0>>, <<"east", 1, 2>>} :
          c[side[2]] = side[3] <=> dir \in {Turned(side[1], e) : e \in {0, 1, 7}}
      marked(dir) == Normalized(3, 3, [c \in Cells(3, 3) |->
                       [hue |-> 0, alpha |-> IF c = mark(dir) THEN Opaque ELSE 0]])
  IN \A dir \in Directions(8), t \in Transform :
       Transformed(t, marked(dir)) = marked(TransformDirection(dir, t))

(* The clusters are the classes of the equivalence that the pairs generate, *)
(* in whatever order they are joined: the members of a cluster reach each   *)
(* other through pairs, and no pair leaves it.                              *)
ClustersAreClasses ==
  LET linked == {{p[1], p[2]} : p \in matched}
      within(c) == {e \in linked : e \subseteq c}
  IN /\ \A e \in linked : \E c \in Clusters : e \subseteq c
     /\ \A c, d \in Clusters : c # d => c \cap d = {}
     /\ \A c \in Clusters : \A part \in (SUBSET c) \ {{}, c} :
          \E e \in within(c) : e \cap part # {} /\ ~(e \subseteq part)

(* All of them, for TLC.                                                    *)
MatchingSound ==
  /\ Cardinality(compared) = 1 => \A s \in compared : TurnedCopies(s)
  /\ Cardinality(compared) = 2 => NoneMissed(compared)
  /\ compared = {} => PicturesTurn /\ ClustersAreClasses
=============================================================================
