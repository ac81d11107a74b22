--------------------------- MODULE Readers_proofs ---------------------------
(***************************************************************************)
(* Theorems about the readers of files that change: of the icon files      *)
(* behind the tools (DmiAssets) and of the evidence that runs leave        *)
(* (NativeEvidence); and about how icon states are matched (DmiMatching).  *)
(*                                                                         *)
(* Sums come first.  What a sum becomes when a member joins is an          *)
(* induction over finite sets; it goes by a set of counterexamples, of     *)
(* which Least finds one that has no other below it.                       *)
(***************************************************************************)
EXTENDS DmiAssets, NativeEvidence, DmiMatching, FiniteSetTheorems, WellFoundedInduction, TLAPS

-----------------------------------------------------------------------------
(* Sums over finite sets.                                                     *)
Pick(s) == CHOOSE x \in s : TRUE

Summing(f, S, g) ==
  g = [s \in SUBSET S |-> IF s = {} THEN 0 ELSE f[Pick(s)] + g[s \ {Pick(s)}]]

(* An initial segment of the naturals is finite.                              *)
LEMMA InitialSegment == \A n \in Nat : IsFiniteSet(1 .. n)
<1> SUFFICES ASSUME NEW n \in Nat PROVE IsFiniteSet(1 .. n)
  OBVIOUS
<1>1. 1 \in Int /\ n \in Int
  OBVIOUS
<1> QED
  BY <1>1, FS_Interval

LEMMA SumIs ==
  ASSUME NEW f, NEW S, NEW g, g = CHOOSE h : Summing(f, S, h)
  PROVE  SumFunctionOnSet(f, S) = g[S]
  BY DEF SumFunctionOnSet, FoldFunctionOnSet, MapThenFoldSet, Summing, Pick

LEMMA Least ==
  ASSUME NEW S, IsFiniteSet(S), NEW B \in SUBSET SUBSET S, B # {}
  PROVE  \E T \in B : \A U \in SUBSET T : U # T => U \notin B
<1>1. IsWellFoundedOn(StrictSubsetOrdering(S), FiniteSubsetsOf(S))
  BY FS_StrictSubsetOrderingWellFounded
<1>2. B \subseteq FiniteSubsetsOf(S)
  BY FS_Subset DEF FiniteSubsetsOf
<1>3. PICK T \in B : \A U \in B : ~ (<<U, T>> \in StrictSubsetOrdering(S))
  BY <1>1, <1>2, WFMin
<1> QED
  BY <1>3 DEF StrictSubsetOrdering

LEMMA Unfolded ==
  ASSUME NEW f, NEW S, NEW g, Summing(f, S, g)
  PROVE  \A s \in SUBSET S : g[s] = IF s = {} THEN 0 ELSE f[Pick(s)] + g[s \ {Pick(s)}]
  BY DEF Summing

(* A solution is a solution below.                                            *)
LEMMA SumBelow ==
  ASSUME NEW f, NEW S, NEW T \in SUBSET S, NEW g, Summing(f, S, g)
  PROVE  Summing(f, T, [s \in SUBSET T |-> g[s]])
<1> DEFINE r == [s \in SUBSET T |-> g[s]]
<1>1. ASSUME NEW s \in SUBSET T
      PROVE  r[s] = IF s = {} THEN 0 ELSE f[Pick(s)] + r[s \ {Pick(s)}]
  <2>1. s \in SUBSET S /\ s \ {Pick(s)} \in SUBSET T
    BY <1>1
  <2>2. g[s] = IF s = {} THEN 0 ELSE f[Pick(s)] + g[s \ {Pick(s)}]
    BY <2>1 DEF Summing
  <2> QED
    BY <2>1, <2>2
<1>2. r = [s \in SUBSET T |-> r[s]]
  OBVIOUS
<1> QED
  BY <1>1, <1>2 DEF Summing

LEMMA Drawn == \A s : s # {} => Pick(s) \in s
  BY DEF Pick

LEMMA OneSum ==
  ASSUME NEW f, NEW S, IsFiniteSet(S), NEW g, NEW h, Summing(f, S, g), Summing(f, S, h)
  PROVE  g = h
<1> DEFINE B == {s \in SUBSET S : g[s] # h[s]}
<1>1. \A s \in SUBSET S : /\ g[s] = IF s = {} THEN 0 ELSE f[Pick(s)] + g[s \ {Pick(s)}]
                        /\ h[s] = IF s = {} THEN 0 ELSE f[Pick(s)] + h[s \ {Pick(s)}]
  BY DEF Summing
<1>2. B = {}
  <2> SUFFICES ASSUME B # {} PROVE FALSE
    OBVIOUS
  <2>1. PICK T \in B : \A U \in SUBSET T : U # T => U \notin B
    <3>1. B \in SUBSET SUBSET S
      OBVIOUS
    <3> HIDE DEF B
    <3> QED
      BY <3>1, Least
  <2>2. T # {}
    BY <1>1
  <2>3. T \ {Pick(T)} \in SUBSET T /\ T \ {Pick(T)} # T /\ T \ {Pick(T)} \in SUBSET S
    BY <2>2, Drawn
  <2>4. g[T \ {Pick(T)}] = h[T \ {Pick(T)}]
    BY <2>1, <2>3
  <2> QED
    BY <1>1, <2>2, <2>4
<1>3. g = [s \in SUBSET S |-> g[s]] /\ h = [s \in SUBSET S |-> h[s]]
  BY DEF Summing
<1> QED
  BY <1>2, <1>3

LEMMA SomeSum ==
  ASSUME NEW f, NEW S, IsFiniteSet(S)
  PROVE  \E g : Summing(f, S, g)
<1> DEFINE B == {s \in SUBSET S : ~\E g : Summing(f, s, g)}
<1> SUFFICES ASSUME B # {} PROVE FALSE
  OBVIOUS
<1>1. PICK T \in B : \A U \in SUBSET T : U # T => U \notin B
  <2>1. B \in SUBSET SUBSET S
    OBVIOUS
  <2> HIDE DEF B
  <2> QED
    BY <2>1, Least
<1> DEFINE of(s) == CHOOSE g : Summing(f, s, g)
           less(s) == s \ {Pick(s)}
           r == [s \in SUBSET T |-> IF s = {} THEN 0 ELSE f[Pick(s)] + of(less(s))[less(s)]]
<1>2. ASSUME NEW s \in SUBSET T, s # T
      PROVE  Summing(f, s, of(s))
  BY <1>1, <1>2
<1>3. \A s \in SUBSET T : s # {} => less(s) \in SUBSET T /\ less(s) # T
  BY Drawn
<1>4. ASSUME NEW s \in SUBSET T, s # T
      PROVE  of(s)[s] = r[s]
  <2>1. of(s)[s] = IF s = {} THEN 0 ELSE f[Pick(s)] + of(s)[less(s)]
    <3>1. Summing(f, s, of(s)) /\ s \in SUBSET s
      BY <1>2, <1>4
    <3> HIDE DEF of
    <3> QED
      BY <3>1, Unfolded
  <2>2. CASE s = {}
    BY <2>1, <2>2
  <2>3. CASE s # {}
    <3>1. Summing(f, less(s), [t \in SUBSET less(s) |-> of(s)[t]])
      <4>1. Summing(f, s, of(s)) /\ less(s) \in SUBSET s
        BY <1>2, <1>4
      <4> HIDE DEF of, less
      <4> QED
        BY <4>1, SumBelow
    <3>2. Summing(f, less(s), of(less(s)))
      BY <1>2, <1>3, <2>3
    <3>3. IsFiniteSet(less(s))
      BY FS_Subset
    <3>4. of(less(s)) = [t \in SUBSET less(s) |-> of(s)[t]]
      BY <3>1, <3>2, <3>3, OneSum
    <3>5. of(less(s))[less(s)] = of(s)[less(s)]
      BY <3>4
    <3> QED
      BY <2>1, <2>3, <3>5
  <2> QED
    BY <2>2, <2>3
<1>5. Summing(f, T, r)
  <2>1. ASSUME NEW s \in SUBSET T
        PROVE  r[s] = IF s = {} THEN 0 ELSE f[Pick(s)] + r[less(s)]
    <3>1. r[s] = IF s = {} THEN 0 ELSE f[Pick(s)] + of(less(s))[less(s)]
      OBVIOUS
    <3>2. s # {} => of(less(s))[less(s)] = r[less(s)]
      BY <1>3, <1>4
    <3> HIDE DEF r, of, less
    <3> QED
      BY <3>1, <3>2
  <2>2. r = [s \in SUBSET T |-> r[s]]
    OBVIOUS
  <2> HIDE DEF r
  <2> QED
    BY <2>1, <2>2 DEF Summing
<1> QED
  BY <1>5

LEMMA SumEmpty ==
  ASSUME NEW f PROVE SumFunctionOnSet(f, {}) = 0
<1> DEFINE g == CHOOSE h : Summing(f, {}, h)
<1>1. PICK h : Summing(f, {}, h)
  BY SomeSum, FS_EmptySet
<1>2. Summing(f, {}, g)
  BY <1>1
<1>3. SumFunctionOnSet(f, {}) = g[{}]
  BY SumIs
<1> HIDE DEF g
<1> QED
  BY <1>2, <1>3, Unfolded

(* The sum over a part is what the solution for the whole says of it.         *)
LEMMA SumPart ==
  ASSUME NEW f, NEW S, IsFiniteSet(S), NEW g, Summing(f, S, g)
  PROVE  \A T \in SUBSET S : SumFunctionOnSet(f, T) = g[T]
<1> TAKE T \in SUBSET S
<1> DEFINE h == CHOOSE k : Summing(f, T, k)
           r == [s \in SUBSET T |-> g[s]]
<1>1. Summing(f, T, r)
  <2> HIDE DEF h, r
  <2>1. Summing(f, T, [s \in SUBSET T |-> g[s]])
    <3>1. Summing(f, S, g) /\ T \in SUBSET S
      OBVIOUS
    <3> QED
      BY <3>1, SumBelow
  <2> QED
    BY <2>1 DEF r
<1>2. Summing(f, T, h)
  BY <1>1
<1>3. IsFiniteSet(T)
  BY FS_Subset
<1>4. h[T] = r[T]
  <2> HIDE DEF h, r
  <2> QED
    BY <1>1, <1>2, <1>3, OneSum
<1>5. SumFunctionOnSet(f, T) = h[T]
  BY SumIs
<1> HIDE DEF h
<1> QED
  BY <1>4, <1>5

LEMMA SumDraws ==
  ASSUME NEW f, NEW S, IsFiniteSet(S), S # {}
  PROVE  SumFunctionOnSet(f, S) = f[Pick(S)] + SumFunctionOnSet(f, S \ {Pick(S)})
<1>1. PICK g : Summing(f, S, g)
  BY SomeSum
<1>2. \A T \in SUBSET S : SumFunctionOnSet(f, T) = g[T]
  BY <1>1, SumPart
<1> QED
  BY <1>1, <1>2, Unfolded

LEMMA SumType ==
  ASSUME NEW S, IsFiniteSet(S), NEW f, \A x \in S : f[x] \in Int
  PROVE  SumFunctionOnSet(f, S) \in Int
<1> DEFINE B == {s \in SUBSET S : SumFunctionOnSet(f, s) \notin Int}
<1> SUFFICES ASSUME B # {} PROVE FALSE
  OBVIOUS
<1>1. PICK T \in B : \A U \in SUBSET T : U # T => U \notin B
  <2>1. B \in SUBSET SUBSET S
    OBVIOUS
  <2> HIDE DEF B
  <2> QED
    BY <2>1, Least
<1>2. T # {} /\ IsFiniteSet(T)
  <2>1. SumFunctionOnSet(f, {}) \in Int
    BY SumEmpty
  <2> QED
    BY <2>1, FS_Subset
<1>3. SumFunctionOnSet(f, T \ {Pick(T)}) \in Int /\ f[Pick(T)] \in Int
  BY <1>1, <1>2, Drawn
<1>4. SumFunctionOnSet(f, T) = f[Pick(T)] + SumFunctionOnSet(f, T \ {Pick(T)})
  BY <1>2, SumDraws
<1> QED
  BY <1>3, <1>4

(* Any member may be drawn, not only the one that is.                         *)
LEMMA SumWithout ==
  ASSUME NEW S, IsFiniteSet(S), NEW f, \A x \in S : f[x] \in Int, NEW e \in S
  PROVE  SumFunctionOnSet(f, S) = f[e] + SumFunctionOnSet(f, S \ {e})
<1> DEFINE sum(s) == SumFunctionOnSet(f, s)
           B == {s \in SUBSET S : \E x \in s : sum(s) # f[x] + sum(s \ {x})}
<1>1. ASSUME B # {} PROVE FALSE
  <2>1. PICK T \in B : \A U \in SUBSET T : U # T => U \notin B
    <3>1. B \in SUBSET SUBSET S
      OBVIOUS
    <3> HIDE DEF B
    <3> QED
      BY <1>1, <3>1, Least
  <2>2. PICK x \in T : SumFunctionOnSet(f, T) # f[x] + SumFunctionOnSet(f, T \ {x})
    OBVIOUS
  <2> DEFINE p == Pick(T)
  <2>3. T # {} /\ IsFiniteSet(T) /\ p \in T /\ T \in SUBSET S
    BY <2>2, FS_Subset, Drawn
  <2>4. SumFunctionOnSet(f, T) = f[p] + SumFunctionOnSet(f, T \ {p})
    BY <2>3, SumDraws
  <2> HIDE DEF p
  <2>5. x # p
    BY <2>2, <2>4
  <2>6. SumFunctionOnSet(f, T \ {p}) = f[x] + SumFunctionOnSet(f, (T \ {p}) \ {x})
    <3>1. T \ {p} \in SUBSET T /\ T \ {p} # T /\ T \ {p} \in SUBSET S /\ x \in T \ {p}
      BY <2>2, <2>3, <2>5
    <3> QED
      BY <2>1, <3>1
  <2>7. SumFunctionOnSet(f, T \ {x}) = f[p] + SumFunctionOnSet(f, (T \ {x}) \ {p})
    <3>1. T \ {x} \in SUBSET T /\ T \ {x} # T /\ T \ {x} \in SUBSET S /\ p \in T \ {x}
      BY <2>2, <2>3, <2>5
    <3> QED
      BY <2>1, <3>1
  <2>8. (T \ {x}) \ {p} = (T \ {p}) \ {x}
    OBVIOUS
  <2>9. SumFunctionOnSet(f, (T \ {p}) \ {x}) \in Int /\ f[x] \in Int /\ f[p] \in Int
    <3>1. IsFiniteSet((T \ {p}) \ {x}) /\ (T \ {p}) \ {x} \subseteq S
      BY <2>3, FS_Subset
    <3> QED
      BY <2>2, <2>3, <3>1, SumType
  <2>10. SumFunctionOnSet(f, T) # f[x] + SumFunctionOnSet(f, T \ {x})
    BY <2>2
  <2> DEFINE c == SumFunctionOnSet(f, (T \ {p}) \ {x})
  <2>11. /\ SumFunctionOnSet(f, T) = f[p] + (f[x] + c) /\ SumFunctionOnSet(f, T \ {x}) = f[p] + c
         /\ c \in Int /\ f[x] \in Int /\ f[p] \in Int
    BY <2>4, <2>6, <2>7, <2>8, <2>9, Zenon
  <2> HIDE DEF B, c
  <2> QED
    BY <2>10, <2>11
<1> QED
  BY <1>1

(* What a sum becomes when a member joins.                                    *)
LEMMA SumWith ==
  ASSUME NEW S, IsFiniteSet(S), NEW e, e \notin S,
         NEW f, \A x \in S \cup {e} : f[x] \in Int
  PROVE  SumFunctionOnSet(f, S \cup {e}) = f[e] + SumFunctionOnSet(f, S)
<1>1. IsFiniteSet(S \cup {e}) /\ (S \cup {e}) \ {e} = S
  BY FS_AddElement
<1> QED
  BY <1>1, SumWithout

(* A sum is of the amounts of its members alone.                              *)
LEMMA SumSame ==
  ASSUME NEW S, IsFiniteSet(S), NEW f, NEW g, \A x \in S : f[x] = g[x]
  PROVE  SumFunctionOnSet(f, S) = SumFunctionOnSet(g, S)
<1> DEFINE B == {s \in SUBSET S : SumFunctionOnSet(f, s) # SumFunctionOnSet(g, s)}
<1> SUFFICES ASSUME B # {} PROVE FALSE
  OBVIOUS
<1>1. PICK T \in B : \A U \in SUBSET T : U # T => U \notin B
  <2>1. B \in SUBSET SUBSET S
    OBVIOUS
  <2> HIDE DEF B
  <2> QED
    BY <2>1, Least
<1>2. T # {} /\ IsFiniteSet(T)
  BY SumEmpty, FS_Subset
<1>3. SumFunctionOnSet(f, T \ {Pick(T)}) = SumFunctionOnSet(g, T \ {Pick(T)}) /\ f[Pick(T)] = g[Pick(T)]
  BY <1>1, <1>2, Drawn
<1> QED
  BY <1>2, <1>3, SumDraws

LEMMA SumNat ==
  ASSUME NEW S, IsFiniteSet(S), NEW f, \A x \in S : f[x] \in Nat
  PROVE  SumFunctionOnSet(f, S) \in Nat
<1> DEFINE B == {s \in SUBSET S : SumFunctionOnSet(f, s) \notin Nat}
<1> SUFFICES ASSUME B # {} PROVE FALSE
  OBVIOUS
<1>1. PICK T \in B : \A U \in SUBSET T : U # T => U \notin B
  <2>1. B \in SUBSET SUBSET S
    OBVIOUS
  <2> HIDE DEF B
  <2> QED
    BY <2>1, Least
<1>2. T # {} /\ IsFiniteSet(T)
  <2>1. SumFunctionOnSet(f, {}) \in Nat
    BY SumEmpty
  <2> QED
    BY <2>1, FS_Subset
<1>3. SumFunctionOnSet(f, T \ {Pick(T)}) \in Nat /\ f[Pick(T)] \in Nat
  BY <1>1, <1>2, Drawn
<1>4. SumFunctionOnSet(f, T) = f[Pick(T)] + SumFunctionOnSet(f, T \ {Pick(T)})
  BY <1>2, SumDraws
<1> QED
  BY <1>3, <1>4

(* A sum is that of a part and that of the rest.                              *)
LEMMA SumSplit ==
  ASSUME NEW S, IsFiniteSet(S), NEW f, \A x \in S : f[x] \in Int, NEW T \in SUBSET S
  PROVE  SumFunctionOnSet(f, S) = SumFunctionOnSet(f, T) + SumFunctionOnSet(f, S \ T)
<1> DEFINE sum(s) == SumFunctionOnSet(f, s)
           B == {s \in SUBSET S : sum(S) # sum(s) + sum(S \ s)}
<1> SUFFICES ASSUME B # {} PROVE FALSE
  OBVIOUS
<1>1. PICK R \in B : \A U \in SUBSET R : U # R => U \notin B
  <2>1. B \in SUBSET SUBSET S
    OBVIOUS
  <2> HIDE DEF B
  <2> QED
    BY <2>1, Least
<1>2. \A s \in SUBSET S : IsFiniteSet(s) /\ sum(s) \in Int
  BY FS_Subset, SumType
<1>3. R # {}
  <2>1. sum({}) = 0 /\ S \ {} = S
    BY SumEmpty
  <2> QED
    BY <1>2, <2>1
<1> DEFINE e == Pick(R)
           less == R \ {e}
<1>4. /\ e \in R /\ e \in S \ less /\ less \in SUBSET R /\ less # R /\ less \in SUBSET S
      /\ (S \ less) \ {e} = S \ R /\ R \in SUBSET S
  BY <1>3, Drawn
<1> HIDE DEF e
<1>5. sum(S) = sum(less) + sum(S \ less)
  BY <1>1, <1>4
<1>6. sum(R) = f[e] + sum(less)
  BY <1>2, <1>4, SumWithout
<1>7. sum(S \ less) = f[e] + sum(S \ R)
  <2>1. IsFiniteSet(S \ less) /\ \A x \in S \ less : f[x] \in Int
    BY <1>2
  <2> QED
    BY <1>4, <2>1, SumWithout
<1>8. f[e] \in Int /\ sum(less) \in Int /\ sum(S \ R) \in Int
  BY <1>2, <1>4
<1>9. sum(S) # sum(R) + sum(S \ R)
  OBVIOUS
<1> HIDE DEF sum, less, B
<1> QED
  BY <1>5, <1>6, <1>7, <1>8, <1>9

LEMMA MaxOfTwo ==
  ASSUME NEW a \in Int, NEW b \in Int
  PROVE  Max({a, b}) = IF a >= b THEN a ELSE b
  BY DEF Max

LEMMA MinOfTwo ==
  ASSUME NEW a \in Int, NEW b \in Int
  PROVE  Min({a, b}) = IF a <= b THEN a ELSE b
  BY DEF Min

-----------------------------------------------------------------------------
(* DmiAssets: the values.                                                     *)
CallRecord ==
  [kind : {"none", "load", "scan"},
   step : {"idle", "next", "queued", "awaiting", "answered", "failed", "dropped"},
   phase : {"single", "duplicates", "references", "unused"},
   todo : SUBSET DmiFile, file : DmiFile \cup {NoFile},
   assets : [DmiFile -> Asset \cup {NoFile}], used : [Budgeted -> Int],
   partial : BOOLEAN, sought : SUBSET DmiFile]
JobStage == {"none", "reading", "read", "loaded", "refused", "error"}
JobRecord == [stage : JobStage, input : Asset \cup DmiContent \cup {NoFile}]
CacheShape(k) ==
  /\ DOMAIN k = {"entries", "order", "bytes", "generation"}
  /\ k.entries \in [DmiFile -> Asset \cup {NoFile}] /\ k.generation \in Nat
DmiTypeOK ==
  /\ dmiPermits \in JobLimits /\ dmiDisk \in [DmiFile -> DmiContent \cup {NoFile}]
  /\ CacheShape(dmiCache)
  /\ dmiCall \in [IconCall -> CallRecord] /\ dmiJob \in [IconCall -> JobRecord]

(* A call that has a job waits for it or has been dropped.                    *)
JobSound(c) ==
  /\ dmiCall[c].step \in {"queued", "awaiting"} => dmiCall[c].file \in DmiFile
  /\ ~JobIs(c, "none") =>
       dmiCall[c].step \in {"awaiting", "dropped"} /\ dmiCall[c].file \in DmiFile
  /\ JobIs(c, "read") => dmiJob[c].input \in DmiContent
  /\ JobIs(c, "loaded") => dmiJob[c].input \in Asset

(* What a call that has left nothing out still has to look at.                *)
Ahead(call) ==
  call.todo \cup IF call.step \in {"queued", "awaiting"} THEN {call.file} ELSE {}
Complete(call) ==
  /\ call.step = "answered" => call.todo = {}
  /\ call.step \in {"next", "queued", "awaiting", "answered"} /\ ~call.partial =>
       \A f \in call.sought : f \in Ahead(call) \/ call.assets[f] # NoFile

(* The assets anyone has, and their numbers.                                  *)
Stands(f, a) ==
  \/ dmiCache.entries[f] = a
  \/ \E c \in IconCall : dmiCall[c].assets[f] = a
  \/ \E c \in IconCall : JobIs(c, "loaded") /\ dmiCall[c].file = f /\ dmiJob[c].input = a
Numbered ==
  /\ \A f \in DmiFile, a \in Asset : Stands(f, a) => a.generation <= dmiCache.generation
  /\ \A f, g \in DmiFile, a, b \in Asset :
       Stands(f, a) /\ Stands(g, b) /\ a.generation = b.generation =>
         f = g /\ a.content = b.content

DmiInv ==
  /\ DmiTypeOK /\ Numbered /\ JobsBounded
  /\ \A c \in IconCall : JobSound(c) /\ Complete(dmiCall[c])

LEMMA CallFacts ==
  ASSUME DmiInv, NEW c \in IconCall
  PROVE  /\ dmiCall[c] \in CallRecord /\ dmiJob[c] \in JobRecord
         /\ JobSound(c) /\ Complete(dmiCall[c])
         /\ dmiCall \in [IconCall -> CallRecord] /\ dmiJob \in [IconCall -> JobRecord]
         /\ CacheShape(dmiCache)
  BY DEF DmiInv, DmiTypeOK

(* Fewer jobs run.                                                            *)
LEMMA BoundedKeeps ==
  ASSUME DmiTypeOK, JobsBounded, UNCHANGED dmiPermits,
         \A c \in IconCall : Running(c)' => Running(c)
  PROVE  JobsBounded'
<1> DEFINE old == {c \in IconCall : Running(c)}
           new == {c \in IconCall : Running(c)'}
<1>1. new \subseteq old /\ old \subseteq IconCall /\ IsFiniteSet(IconCall)
  BY DmiConstants
<1>2. IsFiniteSet(old)
  BY <1>1, FS_Subset
<1>3. IsFiniteSet(new) /\ Cardinality(new) <= Cardinality(old)
  BY <1>1, <1>2, FS_Subset
<1>4. Cardinality(new) \in Nat /\ Cardinality(old) \in Nat /\ dmiPermits \in Nat
  BY <1>2, <1>3, FS_CardinalityType, DmiConstants DEF DmiTypeOK
<1>5. Cardinality(old) <= dmiPermits
  BY DEF JobsBounded
<1> HIDE DEF old, new
<1>6. Cardinality(new) <= dmiPermits
  BY <1>3, <1>4, <1>5
<1> QED
  BY <1>6 DEF new, JobsBounded

(* One more.                                                                  *)
LEMMA BoundedGrows ==
  ASSUME DmiTypeOK, UNCHANGED dmiPermits, NEW d \in IconCall,
         Cardinality({c \in IconCall : Running(c)}) < dmiPermits,
         \A c \in IconCall : Running(c)' => Running(c) \/ c = d
  PROVE  JobsBounded'
<1> DEFINE old == {c \in IconCall : Running(c)}
           new == {c \in IconCall : Running(c)'}
           more == old \cup {d}
<1>1. new \subseteq more /\ old \subseteq IconCall /\ IsFiniteSet(IconCall)
  BY DmiConstants
<1>2. IsFiniteSet(old) /\ Cardinality(old) < dmiPermits
  BY <1>1, FS_Subset
<1> HIDE DEF old, new
<1>3. /\ IsFiniteSet(more)
      /\ Cardinality(more) = Cardinality(old) \/ Cardinality(more) = Cardinality(old) + 1
  BY <1>2, FS_AddElement
<1> HIDE DEF more
<1>4. IsFiniteSet(new) /\ Cardinality(new) <= Cardinality(more)
  BY <1>1, <1>3, FS_Subset
<1>5. Cardinality(new) \in Nat /\ Cardinality(old) \in Nat /\ dmiPermits \in Nat
  BY <1>2, <1>4, FS_CardinalityType, DmiConstants DEF DmiTypeOK
<1>6. Cardinality(new) <= dmiPermits
  BY <1>2, <1>3, <1>4, <1>5
<1> QED
  BY <1>6 DEF new, JobsBounded

(* Nothing new stands.                                                        *)
LEMMA NumbersKeep ==
  ASSUME Numbered, dmiCache'.generation = dmiCache.generation,
         \A f \in DmiFile, a \in Asset : Stands(f, a)' => Stands(f, a)
  PROVE  Numbered'
  BY DEF Numbered

(* One asset with the next number stands.                                     *)
LEMMA NumbersGrow ==
  ASSUME Numbered, dmiCache.generation \in Nat, NEW g \in DmiFile, NEW new \in Asset,
         new.generation = dmiCache.generation + 1,
         dmiCache'.generation = dmiCache.generation + 1,
         \A f \in DmiFile, a \in Asset : Stands(f, a)' => Stands(f, a) \/ (f = g /\ a = new)
  PROVE  Numbered'
<1>1. ASSUME NEW f \in DmiFile, NEW a \in Asset, Stands(f, a)'
      PROVE  /\ a.generation \in Nat /\ a.generation <= dmiCache'.generation
             /\ a.generation = new.generation => f = g /\ a = new
  <2>1. a.generation \in Nat
    BY DEF Asset
  <2>2. Stands(f, a) => a.generation <= dmiCache.generation
    BY DEF Numbered
  <2> QED
    BY <1>1, <2>1, <2>2
<1>2. ASSUME NEW f \in DmiFile, NEW h \in DmiFile, NEW a \in Asset, NEW b \in Asset,
             Stands(f, a)', Stands(h, b)', a.generation = b.generation
      PROVE  f = h /\ a.content = b.content
  <2>1. CASE a.generation = new.generation
    BY <1>1, <1>2, <2>1
  <2>2. CASE a.generation # new.generation
    <3>1. Stands(f, a) /\ Stands(h, b)
      BY <1>2, <2>2
    <3> QED
      BY <1>2, <3>1 DEF Numbered
  <2> QED
    BY <2>1, <2>2
<1>3. \A f \in DmiFile, a \in Asset : Stands(f, a)' => a.generation <= dmiCache'.generation
  BY <1>1
<1>4. \A f, h \in DmiFile, a, b \in Asset :
        Stands(f, a)' /\ Stands(h, b)' /\ a.generation = b.generation =>
          f = h /\ a.content = b.content
  BY <1>2
<1> QED
  BY <1>3, <1>4 DEF Numbered

LEMMA NoCallIs ==
  /\ NoCall \in CallRecord /\ NoCall.step = "idle" /\ NoCall.todo = {} /\ NoCall.sought = {}
  /\ NoCall.file = NoFile /\ \A f \in DmiFile : NoCall.assets[f] = NoFile
  BY DEF NoCall, CallRecord, Budgeted

LEMMA FailedIs ==
  /\ Failed \in CallRecord /\ Failed.step = "failed"
  /\ \A f \in DmiFile : Failed.assets[f] = NoFile
<1>1. NoCall \in CallRecord /\ \A f \in DmiFile : NoCall.assets[f] = NoFile
  BY NoCallIs
<1> QED
  BY <1>1 DEF Failed, CallRecord

(* A step of the call c, whose job stays or is taken.                         *)
LEMMA CallMoves ==
  ASSUME DmiInv, NEW c \in IconCall, NEW new \in CallRecord,
         dmiCall' = [dmiCall EXCEPT ![c] = new],
         UNCHANGED <<dmiPermits, dmiDisk, dmiCache>>,
         \/ UNCHANGED dmiJob
         \/ dmiJob' = [dmiJob EXCEPT ![c] = [stage |-> "none", input |-> NoFile]],
         ~JobIs(c, "none")' =>
           new.file = dmiCall[c].file /\ new.step \in {"awaiting", "dropped"},
         new.step \in {"queued", "awaiting"} => new.file \in DmiFile,
         \A f \in DmiFile : new.assets[f] # NoFile => Stands(f, new.assets[f]),
         Complete(new)
  PROVE  DmiInv'
<1> DEFINE none == [stage |-> "none", input |-> NoFile]
<1>1. none \in JobRecord /\ none.stage = "none"
  BY DEF JobRecord, JobStage
<1> HIDE DEF none
<1>2. /\ dmiCall'[c] = new /\ dmiCall' \in [IconCall -> CallRecord]
      /\ \A d \in IconCall \ {c} : dmiCall'[d] = dmiCall[d]
  BY CallFacts
<1>3. /\ dmiJob' \in [IconCall -> JobRecord] /\ dmiJob'[c] \in {dmiJob[c], none}
      /\ \A d \in IconCall \ {c} : dmiJob'[d] = dmiJob[d]
  BY <1>1, CallFacts DEF none
<1>4. DmiTypeOK'
  BY <1>2, <1>3 DEF DmiInv, DmiTypeOK, CacheShape
<1>5. JobsBounded'
  <2>1. \A d \in IconCall : Running(d)' => Running(d)
    BY <1>1, <1>3 DEF Running
  <2> QED
    BY <2>1, BoundedKeeps DEF DmiInv
<1>6. Numbered'
  <2>1. ASSUME NEW f \in DmiFile, NEW a \in Asset, Stands(f, a)' PROVE Stands(f, a)
    <3>1. a # NoFile
      BY DmiConstants
    <3>2. CASE dmiCache'.entries[f] = a
      BY <3>2 DEF Stands
    <3>3. CASE \E d \in IconCall : dmiCall'[d].assets[f] = a
      <4>1. PICK d \in IconCall : dmiCall'[d].assets[f] = a
        BY <3>3
      <4>2. CASE d = c
        BY <1>2, <3>1, <4>1, <4>2
      <4>3. CASE d # c
        BY <1>2, <4>1, <4>3 DEF Stands
      <4> QED
        BY <4>2, <4>3
    <3>4. CASE \E d \in IconCall :
                 JobIs(d, "loaded")' /\ dmiCall'[d].file = f /\ dmiJob'[d].input = a
      <4>1. PICK d \in IconCall :
              JobIs(d, "loaded")' /\ dmiCall'[d].file = f /\ dmiJob'[d].input = a
        BY <3>4
      <4>2. JobIs(d, "loaded") /\ dmiCall[d].file = f /\ dmiJob[d].input = a
        BY <1>1, <1>2, <1>3, <4>1 DEF JobIs
      <4> QED
        BY <4>2 DEF Stands
    <3> QED
      BY <2>1, <3>2, <3>3, <3>4 DEF Stands
  <2> QED
    BY <2>1, NumbersKeep DEF DmiInv
<1>7. JobSound(c)'
  BY <1>1, <1>2, <1>3, CallFacts DEF JobSound, JobIs
<1>8. ASSUME NEW d \in IconCall PROVE JobSound(d)' /\ Complete(dmiCall[d])'
  <2>1. CASE d = c
    BY <1>2, <1>7, <2>1
  <2>2. CASE d # c
    BY <1>2, <1>3, <2>2, CallFacts DEF JobSound, JobIs
  <2> QED
    BY <2>1, <2>2
<1> QED
  BY <1>4, <1>5, <1>6, <1>8 DEF DmiInv

(* A call that had no job, and keeps its assets.                              *)
LEMMA CallGoesOn ==
  ASSUME DmiInv, NEW c \in IconCall, NEW new \in CallRecord,
         dmiCall' = [dmiCall EXCEPT ![c] = new],
         UNCHANGED <<dmiPermits, dmiDisk, dmiCache, dmiJob>>,
         dmiCall[c].step \in {"idle", "next"},
         new.step = "queued" => new.file \in DmiFile, new.step # "awaiting",
         \A f \in DmiFile : new.assets[f] \in {NoFile, dmiCall[c].assets[f]},
         Complete(new)
  PROVE  DmiInv'
<1>1. JobIs(c, "none")'
  BY CallFacts DEF JobSound, JobIs
<1>2. ASSUME NEW f \in DmiFile, new.assets[f] # NoFile PROVE Stands(f, new.assets[f])
  BY <1>2 DEF Stands
<1> QED
  BY <1>1, <1>2, CallMoves

LEMMA CallFails ==
  ASSUME DmiInv, NEW c \in IconCall, dmiCall' = [dmiCall EXCEPT ![c] = Failed],
         UNCHANGED <<dmiPermits, dmiDisk, dmiCache>>,
         \/ UNCHANGED dmiJob /\ dmiCall[c].step = "next"
         \/ dmiJob' = [dmiJob EXCEPT ![c] = [stage |-> "none", input |-> NoFile]]
  PROVE  DmiInv'
<1>1. /\ Failed \in CallRecord /\ Failed.step = "failed" /\ Complete(Failed)
      /\ \A f \in DmiFile : Failed.assets[f] = NoFile
  BY FailedIs DEF Complete
<1>2. JobIs(c, "none")'
  BY CallFacts DEF JobSound, JobIs
<1> QED
  BY <1>1, <1>2, CallMoves

LEMMA StepLoadBegins ==
  ASSUME DmiInv, UNCHANGED dmiPermits, NEW c \in IconCall, LoadBegins(c)
  PROVE  DmiInv'
<1>1. PICK files \in SUBSET DmiFile :
        dmiCall' = [dmiCall EXCEPT ![c] =
            [@ EXCEPT !.kind = "load", !.step = "next", !.todo = files, !.sought = files]]
  BY DEF LoadBegins
<1> DEFINE call == dmiCall[c]
           new == [call EXCEPT !.kind = "load", !.step = "next", !.todo = files,
                               !.sought = files]
<1>2. call \in CallRecord /\ call.step = "idle" /\ UNCHANGED <<dmiDisk, dmiCache, dmiJob>>
  BY CallFacts DEF LoadBegins
<1>3. dmiCall' = [dmiCall EXCEPT ![c] = new]
  BY <1>1
<1> HIDE DEF call
<1>4. /\ new \in CallRecord /\ new.step = "next" /\ new.todo = files /\ new.sought = files
      /\ new.assets = call.assets
  BY <1>2 DEF CallRecord
<1> HIDE DEF new
<1>5. Complete(new)
  BY <1>4 DEF Complete, Ahead
<1> QED
  BY <1>2, <1>3, <1>4, <1>5, CallGoesOn DEF call

LEMMA StepScanBegins ==
  ASSUME DmiInv, UNCHANGED dmiPermits, NEW c \in IconCall, ScanBegins(c)
  PROVE  DmiInv'
<1>1. PICK found \in Discovered :
        dmiCall' = [dmiCall EXCEPT ![c] =
         [@ EXCEPT !.kind = "scan", !.step = "next", !.phase = "duplicates",
                   !.todo = found, !.sought = found, !.partial = Partial(found)]]
  BY DEF ScanBegins
<1> DEFINE call == dmiCall[c]
           partial == Partial(found)
           new == [call EXCEPT !.kind = "scan", !.step = "next", !.phase = "duplicates",
                     !.todo = found, !.sought = found, !.partial = partial]
<1>2. /\ call \in CallRecord /\ call.step = "idle" /\ UNCHANGED <<dmiDisk, dmiCache, dmiJob>>
      /\ found \in SUBSET DmiFile /\ partial \in BOOLEAN
  BY CallFacts DEF ScanBegins, Discovered, Present, Partial
<1>3. dmiCall' = [dmiCall EXCEPT ![c] = new]
  BY <1>1
<1> HIDE DEF call, partial
<1>4. /\ new \in CallRecord /\ new.step = "next" /\ new.todo = found /\ new.sought = found
      /\ new.assets = call.assets
  BY <1>2 DEF CallRecord
<1> HIDE DEF new
<1>5. Complete(new)
  BY <1>4 DEF Complete, Ahead
<1> QED
  BY <1>2, <1>3, <1>4, <1>5, CallGoesOn DEF call

LEMMA StepTakesNext ==
  ASSUME DmiInv, UNCHANGED dmiPermits, NEW c \in IconCall, NEW f \in DmiFile, TakesNext(c, f)
  PROVE  DmiInv'
<1> DEFINE call == dmiCall[c]
           left == call.todo \ {f}
           less == [call EXCEPT !.todo = left]
           new == [less EXCEPT !.file = f, !.step = "queued"]
<1>1. /\ call \in CallRecord /\ call.step = "next" /\ UNCHANGED <<dmiDisk, dmiCache, dmiJob>>
      /\ f \in call.todo /\ Complete(call) /\ left \in SUBSET DmiFile
  BY CallFacts DEF TakesNext, MayBeNext, CallRecord
<1>2. \/ dmiCall' = [dmiCall EXCEPT ![c] = Failed]
      \/ dmiCall[c].assets[f] # NoFile /\ dmiCall' = [dmiCall EXCEPT ![c].todo = @ \ {f}]
      \/ dmiCall' = [dmiCall EXCEPT ![c].todo = @ \ {f}, ![c].file = f, ![c].step = "queued"]
  BY DEF TakesNext
<1>3. /\ less \in CallRecord /\ less.step = "next" /\ less.todo = left
      /\ less.assets = call.assets /\ less.sought = call.sought /\ less.partial = call.partial
  BY <1>1 DEF CallRecord
<1>4. CASE dmiCall' = [dmiCall EXCEPT ![c] = Failed]
  BY <1>1, <1>4, CallFails
<1>5. CASE call.assets[f] # NoFile /\ dmiCall' = [dmiCall EXCEPT ![c].todo = @ \ {f}]
  <2>1. dmiCall' = [dmiCall EXCEPT ![c] = less]
    BY <1>5
  <2> HIDE DEF less, call
  <2>2. Complete(less)
    BY <1>1, <1>3, <1>5 DEF Complete, Ahead
  <2> QED
    BY <1>1, <1>3, <2>1, <2>2, CallGoesOn DEF call
<1>6. CASE dmiCall' = [dmiCall EXCEPT ![c].todo = @ \ {f}, ![c].file = f, ![c].step = "queued"]
  <2>1. dmiCall' = [dmiCall EXCEPT ![c] = new]
    BY <1>6, CallFacts
  <2> HIDE DEF less, call
  <2>2. /\ new \in CallRecord /\ new.step = "queued" /\ new.file = f /\ new.todo = left
        /\ new.assets = call.assets /\ new.sought = call.sought /\ new.partial = call.partial
    BY <1>3 DEF CallRecord
  <2> HIDE DEF new
  <2>3. Complete(new)
    BY <1>1, <2>2 DEF Complete, Ahead
  <2> QED
    BY <1>1, <2>1, <2>2, <2>3, CallGoesOn DEF call
<1> QED
  BY <1>2, <1>4, <1>5, <1>6

LEMMA AwaitedFacts ==
  ASSUME DmiInv, NEW c \in IconCall, NEW how \in {"loaded", "refused", "error"}, Awaited(c, how)
  PROVE  /\ dmiCall[c].step = "awaiting" /\ dmiCall[c].file \in DmiFile
         /\ dmiJob' = [dmiJob EXCEPT ![c] = [stage |-> "none", input |-> NoFile]]
         /\ UNCHANGED <<dmiDisk, dmiCache>> /\ JobIs(c, "none")'
         /\ how = "loaded" => dmiJob[c].input \in Asset /\ JobIs(c, "loaded")
  BY CallFacts DEF Awaited, JobSound, JobIs

LEMMA StepAssetAccepted ==
  ASSUME DmiInv, UNCHANGED dmiPermits, NEW c \in IconCall, AssetAccepted(c)
  PROVE  DmiInv'
<1> DEFINE call == dmiCall[c]
           a == dmiJob[c].input
           g == call.file
           used == Charged(c, a.content)
           assets == [call.assets EXCEPT ![g] = a]
           less == [call EXCEPT !.step = "next", !.file = NoFile]
           new == [less EXCEPT !.used = used, !.assets = assets]
<1>1. /\ call \in CallRecord /\ call.step = "awaiting" /\ g \in DmiFile /\ a \in Asset
      /\ JobIs(c, "loaded") /\ Complete(call) /\ JobIs(c, "none")'
      /\ UNCHANGED <<dmiDisk, dmiCache>>
      /\ dmiJob' = [dmiJob EXCEPT ![c] = [stage |-> "none", input |-> NoFile]]
  BY AwaitedFacts, CallFacts DEF AssetAccepted
<1>2. dmiCall' = [dmiCall EXCEPT ![c] = new]
  BY DEF AssetAccepted
<1>3. \A f \in DmiFile : call.assets[f] # NoFile => Stands(f, call.assets[f])
  BY DEF Stands
<1>4. Stands(g, a)
  BY <1>1 DEF Stands
<1>5. used \in [Budgeted -> Int]
  <2>1. a.content \in DmiContent /\ call.used \in [Budgeted -> Int]
    BY <1>1 DEF Asset, CallRecord
  <2>2. \A r \in Budgeted : Demand[a.content][r] \in Nat
    BY <2>1, DmiConstants DEF Budgeted, Resource
  <2> QED
    BY <2>1, <2>2 DEF Charged
<1>t. call.todo \subseteq DmiFile /\ call.sought \subseteq DmiFile
  BY <1>1 DEF CallRecord
<1>g. call.file = g
  OBVIOUS
<1> HIDE DEF call, used, a, g
<1>6. /\ assets \in [DmiFile -> Asset \cup {NoFile}] /\ assets[g] = a /\ a # NoFile
      /\ \A f \in DmiFile \ {g} : assets[f] = call.assets[f]
  BY <1>1, DmiConstants DEF CallRecord
<1>7. /\ less \in CallRecord /\ less.step = "next" /\ less.file = NoFile
      /\ less.todo = call.todo /\ less.sought = call.sought /\ less.partial = call.partial
      /\ less.assets = call.assets
  BY <1>1 DEF CallRecord
<1> HIDE DEF less, assets
<1>9. /\ new \in CallRecord /\ new.step = "next" /\ new.todo = call.todo
      /\ new.sought = call.sought /\ new.partial = call.partial /\ new.assets = assets
  BY <1>5, <1>6, <1>7 DEF CallRecord
<1> HIDE DEF new
<1>10. Complete(new)
  BY <1>1, <1>t, <1>g, <1>6, <1>9 DEF Complete, Ahead
<1>11. ASSUME NEW f \in DmiFile, new.assets[f] # NoFile PROVE Stands(f, new.assets[f])
  BY <1>3, <1>4, <1>6, <1>9, <1>11
<1> QED
  BY <1>1, <1>2, <1>9, <1>10, <1>11, CallMoves

LEMMA StepLoadRefused ==
  ASSUME DmiInv, UNCHANGED dmiPermits, NEW c \in IconCall, LoadRefused(c)
  PROVE  DmiInv'
<1> DEFINE call == dmiCall[c]
           new == [call EXCEPT !.step = "next", !.file = NoFile, !.partial = TRUE]
<1>1. /\ call \in CallRecord /\ JobIs(c, "none")' /\ UNCHANGED <<dmiDisk, dmiCache>>
      /\ dmiJob' = [dmiJob EXCEPT ![c] = [stage |-> "none", input |-> NoFile]]
  BY AwaitedFacts, CallFacts DEF LoadRefused
<1>2. \/ dmiCall' = [dmiCall EXCEPT ![c] = Failed]
      \/ dmiCall' = [dmiCall EXCEPT ![c] = new]
  BY DEF LoadRefused
<1>3. CASE dmiCall' = [dmiCall EXCEPT ![c] = Failed]
  BY <1>1, <1>3, CallFails
<1>4. CASE dmiCall' = [dmiCall EXCEPT ![c] = new]
  <2>1. \A f \in DmiFile : call.assets[f] # NoFile => Stands(f, call.assets[f])
    BY DEF Stands
  <2> HIDE DEF call
  <2>2. new \in CallRecord /\ new.step = "next" /\ new.partial /\ new.assets = call.assets
    BY <1>1 DEF CallRecord
  <2> HIDE DEF new
  <2>3. Complete(new)
    BY <2>2 DEF Complete
  <2> QED
    BY <1>1, <1>4, <2>1, <2>2, <2>3, CallMoves
<1> QED
  BY <1>2, <1>3, <1>4

LEMMA StepLoadErred ==
  ASSUME DmiInv, UNCHANGED dmiPermits, NEW c \in IconCall, LoadErred(c)
  PROVE  DmiInv'
<1>1. /\ dmiCall' = [dmiCall EXCEPT ![c] = Failed] /\ UNCHANGED <<dmiDisk, dmiCache>>
      /\ dmiJob' = [dmiJob EXCEPT ![c] = [stage |-> "none", input |-> NoFile]]
  BY AwaitedFacts DEF LoadErred
<1> QED
  BY <1>1, CallFails

(* The record of an answer.                                                   *)
LEMMA AnsweredIs ==
  ASSUME NEW call \in CallRecord
  PROVE  LET new == Answered(call) IN
         /\ new \in CallRecord /\ new.step = "answered" /\ new.todo = {}
         /\ new.assets = call.assets /\ new.partial = call.partial /\ new.sought = call.sought
<1> DEFINE one == [NoCall EXCEPT !.kind = call.kind, !.step = "answered"]
           two == [one EXCEPT !.assets = call.assets, !.partial = call.partial]
           three == [two EXCEPT !.sought = call.sought]
<1>1. one \in CallRecord /\ one.step = "answered" /\ one.todo = {}
  BY NoCallIs DEF CallRecord
<1> HIDE DEF one
<1>2. /\ two \in CallRecord /\ two.step = "answered" /\ two.todo = {}
      /\ two.assets = call.assets /\ two.partial = call.partial
  BY <1>1 DEF CallRecord
<1> HIDE DEF two
<1>3. /\ three \in CallRecord /\ three.step = "answered" /\ three.todo = {}
      /\ three.assets = call.assets /\ three.partial = call.partial
      /\ three.sought = call.sought
  BY <1>2 DEF CallRecord
<1>4. Answered(call) = three
  BY DEF Answered, one, two
<1> HIDE DEF three
<1> QED
  BY <1>3, <1>4

LEMMA AnswerGoes ==
  ASSUME DmiInv, NEW c \in IconCall, NEW call \in CallRecord,
         dmiCall' = [dmiCall EXCEPT ![c] = Answered(call)],
         UNCHANGED <<dmiPermits, dmiDisk, dmiCache, dmiJob>>,
         dmiCall[c].step = "next", dmiCall[c].todo = {}, call.assets = dmiCall[c].assets,
         call.sought = dmiCall[c].sought, ~call.partial => ~dmiCall[c].partial
  PROVE  DmiInv'
<1> DEFINE new == Answered(call)
<1>1. /\ new \in CallRecord /\ new.step = "answered" /\ new.todo = {}
      /\ new.assets = call.assets /\ new.partial = call.partial /\ new.sought = call.sought
  BY AnsweredIs
<1> HIDE DEF new
<1>2. Complete(new)
  BY <1>1, CallFacts DEF Complete, Ahead
<1> QED
  BY <1>1, <1>2, CallGoesOn DEF new

(* A scan goes on with further files.                                         *)
LEMMA MoreSought ==
  ASSUME DmiInv, NEW c \in IconCall, NEW call \in CallRecord,
         NEW phase \in {"references", "unused"}, NEW files \in SUBSET DmiFile,
         dmiCall' = [dmiCall EXCEPT ![c] = NextPhase(call, phase, files)],
         UNCHANGED <<dmiPermits, dmiDisk, dmiCache, dmiJob>>,
         dmiCall[c].step = "next", dmiCall[c].todo = {}, call.step = "next",
         call.assets = dmiCall[c].assets, call.sought = dmiCall[c].sought,
         ~call.partial => ~dmiCall[c].partial
  PROVE  DmiInv'
<1> DEFINE sought == call.sought \cup files
           one == [call EXCEPT !.phase = phase, !.todo = files]
           new == [one EXCEPT !.sought = sought]
<1>1. sought \in SUBSET DmiFile
  BY DEF CallRecord
<1>2. /\ one \in CallRecord /\ one.step = "next" /\ one.todo = files
      /\ one.assets = call.assets /\ one.partial = call.partial /\ one.sought = call.sought
  BY DEF CallRecord
<1>3. NextPhase(call, phase, files) = new
  BY <1>2 DEF NextPhase
<1> HIDE DEF one, sought
<1>4. /\ new \in CallRecord /\ new.step = "next" /\ new.todo = files
      /\ new.assets = call.assets /\ new.partial = call.partial /\ new.sought = sought
  BY <1>1, <1>2 DEF CallRecord
<1> HIDE DEF new
<1>5. Complete(new)
  BY <1>4, CallFacts DEF Complete, Ahead, sought
<1> QED
  BY <1>3, <1>4, <1>5, CallGoesOn

LEMMA PhaseFacts ==
  ASSUME DmiInv, NEW c \in IconCall, NEW phase, PhaseOver(c, phase)
  PROVE  /\ dmiCall[c] \in CallRecord /\ dmiCall[c].step = "next" /\ dmiCall[c].todo = {}
         /\ UNCHANGED <<dmiDisk, dmiCache, dmiJob>>
  BY CallFacts DEF PhaseOver

(* What was left out is not forgotten.                                        *)
LEMMA PartialSet ==
  ASSUME NEW old \in CallRecord, NEW cut \in BOOLEAN
  PROVE  LET call == [old EXCEPT !.partial = @ \/ cut] IN
         /\ call \in CallRecord /\ call.assets = old.assets /\ call.sought = old.sought
         /\ call.step = old.step /\ (~call.partial => ~old.partial)
<1> DEFINE partial == old.partial \/ cut
           call == [old EXCEPT !.partial = partial]
<1>1. partial \in BOOLEAN /\ (~partial => ~old.partial)
  OBVIOUS
<1> HIDE DEF partial
<1>2. /\ call \in CallRecord /\ call.assets = old.assets /\ call.sought = old.sought
      /\ call.partial = partial /\ call.step = old.step
  BY <1>1 DEF CallRecord
<1> QED
  BY <1>1, <1>2 DEF partial

LEMMA StepCompared ==
  ASSUME DmiInv, UNCHANGED dmiPermits, NEW c \in IconCall, Compared(c)
  PROVE  DmiInv'
<1>1. /\ dmiCall[c] \in CallRecord /\ dmiCall[c].step = "next" /\ dmiCall[c].todo = {}
      /\ UNCHANGED <<dmiDisk, dmiCache, dmiJob>>
  BY PhaseFacts DEF Compared
<1>2. PICK cut \in BOOLEAN :
        LET call == [dmiCall[c] EXCEPT !.partial = @ \/ cut] IN
        \/ dmiCall' = [dmiCall EXCEPT ![c] = Answered(call)]
        \/ \E referenced \in SUBSET Present :
             dmiCall' = [dmiCall EXCEPT ![c] = NextPhase(call, "references", referenced)]
  BY DEF Compared
<1> DEFINE call == [dmiCall[c] EXCEPT !.partial = @ \/ cut]
<1>3. /\ call \in CallRecord /\ call.assets = dmiCall[c].assets
      /\ call.sought = dmiCall[c].sought /\ call.step = "next"
      /\ ~call.partial => ~dmiCall[c].partial
  BY <1>1, PartialSet
<1> HIDE DEF call
<1>4. CASE dmiCall' = [dmiCall EXCEPT ![c] = Answered(call)]
  BY <1>1, <1>3, <1>4, AnswerGoes
<1>5. ASSUME NEW referenced \in SUBSET Present,
             dmiCall' = [dmiCall EXCEPT ![c] = NextPhase(call, "references", referenced)]
      PROVE  DmiInv'
  <2>1. referenced \in SUBSET DmiFile
    BY DEF Present
  <2> QED
    BY <1>1, <1>3, <1>5, <2>1, MoreSought
<1> QED
  BY <1>2, <1>4, <1>5 DEF call

LEMMA StepReferencesChecked ==
  ASSUME DmiInv, UNCHANGED dmiPermits, NEW c \in IconCall, ReferencesChecked(c)
  PROVE  DmiInv'
<1>1. /\ dmiCall[c] \in CallRecord /\ dmiCall[c].step = "next" /\ dmiCall[c].todo = {}
      /\ UNCHANGED <<dmiDisk, dmiCache, dmiJob>>
  BY PhaseFacts DEF ReferencesChecked
<1>2. CASE dmiCall' = [dmiCall EXCEPT ![c] = Answered(@)]
  BY <1>1, <1>2, AnswerGoes
<1>3. ASSUME NEW found \in Discovered,
             LET call == [dmiCall[c] EXCEPT !.partial = @ \/ Partial(found)] IN
             dmiCall' = [dmiCall EXCEPT ![c] = NextPhase(call, "unused", found)]
      PROVE  DmiInv'
  <2> DEFINE cut == Partial(found)
             call == [dmiCall[c] EXCEPT !.partial = @ \/ cut]
  <2>1. found \in SUBSET DmiFile /\ cut \in BOOLEAN
    BY DEF Discovered, Present, Partial
  <2>2. dmiCall' = [dmiCall EXCEPT ![c] = NextPhase(call, "unused", found)]
    BY <1>3
  <2> HIDE DEF cut
  <2>3. /\ call \in CallRecord /\ call.assets = dmiCall[c].assets
        /\ call.sought = dmiCall[c].sought /\ call.step = "next"
        /\ ~call.partial => ~dmiCall[c].partial
    BY <1>1, <2>1, PartialSet
  <2> HIDE DEF call
  <2> QED
    BY <1>1, <2>1, <2>2, <2>3, MoreSought
<1> QED
  BY <1>2, <1>3 DEF ReferencesChecked

LEMMA StepAnswers ==
  ASSUME DmiInv, UNCHANGED dmiPermits, NEW c \in IconCall, UnusedListed(c) \/ Loaded(c)
  PROVE  DmiInv'
<1>1. /\ dmiCall[c] \in CallRecord /\ dmiCall[c].step = "next" /\ dmiCall[c].todo = {}
      /\ UNCHANGED <<dmiDisk, dmiCache, dmiJob>>
  BY PhaseFacts DEF UnusedListed, Loaded
<1>2. dmiCall' = [dmiCall EXCEPT ![c] = Answered(dmiCall[c])]
  BY DEF UnusedListed, Loaded
<1> QED
  BY <1>1, <1>2, AnswerGoes

LEMMA StepCallDropped ==
  ASSUME DmiInv, UNCHANGED dmiPermits, NEW c \in IconCall, CallDropped(c)
  PROVE  DmiInv'
<1> DEFINE call == dmiCall[c]
           one == [NoCall EXCEPT !.step = "dropped", !.kind = call.kind]
           new == [one EXCEPT !.file = call.file, !.used = call.used]
<1>1. /\ call \in CallRecord /\ UNCHANGED <<dmiDisk, dmiCache, dmiJob>>
      /\ call.step \in {"queued", "awaiting"}
  BY CallFacts DEF CallDropped
<1>2. dmiCall' = [dmiCall EXCEPT ![c] = new]
  BY DEF CallDropped
<1> HIDE DEF call
<1>3. /\ one \in CallRecord /\ one.step = "dropped"
      /\ \A f \in DmiFile : one.assets[f] = NoFile
  BY <1>1, NoCallIs DEF CallRecord
<1> HIDE DEF one
<1>4. /\ new \in CallRecord /\ new.step = "dropped" /\ new.file = call.file
      /\ new.assets = one.assets
  BY <1>1, <1>3 DEF CallRecord
<1> HIDE DEF new
<1>5. Complete(new)
  BY <1>4 DEF Complete
<1> QED
  BY <1>1, <1>2, <1>3, <1>4, <1>5, CallMoves DEF call

(* The cache: entries go, and one may be new.                                 *)
LEMMA WithoutIs ==
  ASSUME NEW k, CacheShape(k), NEW files
  PROVE  LET new == Without(k, files) IN
         /\ CacheShape(new) /\ new.generation = k.generation
         /\ \A g \in DmiFile : new.entries[g] \in {NoFile, k.entries[g]}
<1> DEFINE entries == [f \in DmiFile |-> IF f \in files THEN NoFile ELSE k.entries[f]]
           order == {p \in k.order : {p[1], p[2]} \cap files = {}}
           bytes == Max({0, k.bytes - BytesOf(k, files)})
           new == [k EXCEPT !.entries = entries, !.order = order, !.bytes = bytes]
<1>1. Without(k, files) = new
  BY DEF Without, CacheShape
<1>2. /\ entries \in [DmiFile -> Asset \cup {NoFile}]
      /\ \A g \in DmiFile : entries[g] \in {NoFile, k.entries[g]}
  BY DEF CacheShape
<1> HIDE DEF entries, order, bytes
<1>3. new.entries = entries /\ new.generation = k.generation /\ DOMAIN new = DOMAIN k
  BY DEF CacheShape
<1> HIDE DEF new
<1> QED
  BY <1>1, <1>2, <1>3 DEF CacheShape

LEMMA EvictedIs == ASSUME NEW k PROVE \E files : Evicted(k) = Without(k, files)
  BY DEF Evicted

LEMMA InstalledIs ==
  ASSUME NEW k, CacheShape(k), NEW f \in DmiFile, NEW d \in DmiContent
  PROVE  LET new == Installed(k, f, d)
             asset == [content |-> d, generation |-> k.generation + 1]
         IN /\ CacheShape(new) /\ new.generation = k.generation + 1
            /\ \A g \in DmiFile : \/ new.entries[g] \in {NoFile, k.entries[g]}
                                  \/ g = f /\ new.entries[g] = asset
<1> DEFINE asset == [content |-> d, generation |-> k.generation + 1]
           old == Without(k, {f} \cap Cached(k))
           entries == [old.entries EXCEPT ![f] = asset]
           order == UsedLast(old.order, f, Cached(old))
           bytes == old.bytes + Demand[d]["pixels"]
           more == [entries |-> entries, order |-> order, bytes |-> bytes,
                    generation |-> k.generation + 1]
<1>1. Installed(k, f, d) = Evicted(more)
  BY DEF Installed
<1>2. asset \in Asset /\ k.generation \in Nat
  BY DEF Asset, CacheShape
<1>3. CacheShape(old) /\ \A g \in DmiFile : old.entries[g] \in {NoFile, k.entries[g]}
  BY WithoutIs
<1> HIDE DEF asset, old
<1>4. /\ entries \in [DmiFile -> Asset \cup {NoFile}] /\ entries[f] = asset
      /\ \A g \in DmiFile \ {f} : entries[g] = old.entries[g]
  BY <1>2, <1>3 DEF CacheShape
<1> HIDE DEF entries, order, bytes
<1>5. CacheShape(more) /\ more.entries = entries /\ more.generation = k.generation + 1
  BY <1>2, <1>4 DEF CacheShape
<1> HIDE DEF more
<1>6. PICK files : Evicted(more) = Without(more, files)
  BY EvictedIs
<1> DEFINE new == Without(more, files)
<1>7. /\ CacheShape(new) /\ new.generation = more.generation
      /\ \A g \in DmiFile : new.entries[g] \in {NoFile, more.entries[g]}
  BY <1>5, WithoutIs
<1> HIDE DEF new
<1>8. ASSUME NEW g \in DmiFile
      PROVE  new.entries[g] \in {NoFile, k.entries[g]} \/ (g = f /\ new.entries[g] = asset)
  BY <1>3, <1>4, <1>5, <1>7
<1>9. Installed(k, f, d) = new
  BY <1>1, <1>6 DEF new
<1> QED
  BY <1>5, <1>7, <1>8, <1>9 DEF asset

(* A step of the job of c.                                                    *)
LEMMA JobMoves ==
  ASSUME DmiInv, UNCHANGED <<dmiPermits, dmiDisk, dmiCall>>, NEW c \in IconCall, Running(c),
         NEW how \in {"read", "loaded", "refused", "error"}, NEW input,
         Ends(c, how, input),
         how = "read" => input \in DmiContent,
         how = "loaded" => input \in Asset,
         how \in {"refused", "error"} => input = NoFile,
         CacheShape(dmiCache)', Numbered'
  PROVE  DmiInv'
<1> DEFINE half == [dmiJob[c] EXCEPT !.stage = how]
           new == [half EXCEPT !.input = input]
<1>1. dmiJob' = [dmiJob EXCEPT ![c] = new]
  BY CallFacts DEF Ends
<1>2. half \in JobRecord /\ half.stage = how
  BY CallFacts DEF JobRecord, JobStage
<1> HIDE DEF half
<1>3. new \in JobRecord /\ new.stage = how /\ new.input = input
  BY <1>2 DEF JobRecord
<1> HIDE DEF new
<1>4. /\ dmiJob' \in [IconCall -> JobRecord] /\ dmiJob'[c] = new
      /\ \A d \in IconCall \ {c} : dmiJob'[d] = dmiJob[d]
  BY <1>1, <1>3, CallFacts
<1>5. DmiTypeOK'
  BY <1>4 DEF DmiInv, DmiTypeOK
<1>6. JobsBounded'
  <2>1. \A d \in IconCall : Running(d)' => Running(d)
    BY <1>4 DEF Running
  <2> QED
    BY <2>1, BoundedKeeps DEF DmiInv
<1>7. JobSound(c)'
  <2>1. ~JobIs(c, "none")
    BY DEF Running, JobIs
  <2>2. /\ dmiCall[c].step \in {"awaiting", "dropped"} /\ dmiCall[c].file \in DmiFile
    BY <2>1, CallFacts DEF JobSound
  <2> QED
    BY <1>3, <1>4, <2>2 DEF JobSound, JobIs
<1>8. ASSUME NEW d \in IconCall PROVE JobSound(d)' /\ Complete(dmiCall[d])'
  <2>1. CASE d = c
    BY <1>7, <2>1, CallFacts DEF Complete, Ahead
  <2>2. CASE d # c
    BY <1>4, <2>2, CallFacts DEF JobSound, JobIs, Complete, Ahead
  <2> QED
    BY <2>1, <2>2
<1> QED
  BY <1>5, <1>6, <1>8 DEF DmiInv

(* What a job of c ends with, when the cache is as it was.                    *)
LEMMA EndsNumbered ==
  ASSUME DmiInv, UNCHANGED dmiCall, NEW c \in IconCall, NEW how \in JobStage, NEW input,
         Ends(c, how, input), dmiCache'.entries = dmiCache.entries,
         dmiCache'.generation = dmiCache.generation,
         how = "loaded" => dmiCache.entries[dmiCall[c].file] = input
  PROVE  Numbered'
<1>1. /\ dmiJob'[c].stage = how /\ dmiJob'[c].input = input
      /\ \A d \in IconCall \ {c} : dmiJob'[d] = dmiJob[d]
  BY CallFacts DEF Ends, JobRecord
<1>2. ASSUME NEW f \in DmiFile, NEW a \in Asset, Stands(f, a)' PROVE Stands(f, a)
  <2>1. CASE dmiCache'.entries[f] = a \/ \E d \in IconCall : dmiCall'[d].assets[f] = a
    BY <2>1 DEF Stands
  <2>2. ASSUME NEW d \in IconCall, JobIs(d, "loaded")', dmiCall'[d].file = f,
               dmiJob'[d].input = a
        PROVE  Stands(f, a)
    <3>1. CASE d = c
      BY <1>1, <2>2, <3>1 DEF Stands, JobIs
    <3>2. CASE d # c
      BY <1>1, <2>2, <3>2 DEF Stands, JobIs
    <3> QED
      BY <3>1, <3>2
  <2> QED
    BY <1>2, <2>1, <2>2 DEF Stands
<1> QED
  BY <1>2, NumbersKeep DEF DmiInv

LEMMA StepInputRead ==
  ASSUME DmiInv, UNCHANGED dmiPermits, NEW c \in IconCall, InputRead(c) \/ InputGone(c)
  PROVE  DmiInv'
<1>1. /\ UNCHANGED <<dmiDisk, dmiCache, dmiCall>> /\ JobIs(c, "reading") /\ Running(c)
  BY DEF InputRead, InputGone, JobIs, Running
<1>2. PICK how \in {"read", "refused", "error"},
           input \in {NoFile, dmiDisk[dmiCall[c].file]} :
        /\ Ends(c, how, input) /\ (how = "read" => input # NoFile)
        /\ how # "read" => input = NoFile
  BY DEF InputRead, InputGone
<1>3. dmiCall[c].file \in DmiFile
  BY <1>1, CallFacts DEF JobSound, JobIs
<1>4. how = "read" => input \in DmiContent
  BY <1>2, <1>3 DEF DmiInv, DmiTypeOK
<1>5. Numbered'
  BY <1>1, <1>2, EndsNumbered DEF JobStage
<1>6. CacheShape(dmiCache)'
  BY <1>1, CallFacts DEF CacheShape
<1> QED
  BY <1>1, <1>2, <1>4, <1>5, <1>6, JobMoves

LEMMA ReadFacts ==
  ASSUME DmiInv, NEW c \in IconCall, JobIs(c, "read")
  PROVE  Running(c) /\ dmiCall[c].file \in DmiFile /\ dmiJob[c].input \in DmiContent
  BY CallFacts DEF JobSound, JobIs, Running

LEMMA LoadIsRefused ==
  ASSUME DmiInv, UNCHANGED <<dmiPermits, dmiDisk, dmiCache, dmiCall>>, NEW c \in IconCall,
         JobIs(c, "read"), Ends(c, "refused", NoFile)
  PROVE  DmiInv'
<1>1. CacheShape(dmiCache)'
  BY CallFacts DEF CacheShape
<1>2. Numbered'
  BY EndsNumbered DEF JobStage
<1> QED
  BY <1>1, <1>2, ReadFacts, JobMoves

LEMMA StepCacheHit ==
  ASSUME DmiInv, UNCHANGED dmiPermits, NEW c \in IconCall, CacheHit(c)
  PROVE  DmiInv'
<1> DEFINE f == dmiCall[c].file
<1>1. JobIs(c, "read") /\ Hit(f, dmiJob[c].input) /\ UNCHANGED <<dmiDisk, dmiCall>>
  BY DEF CacheHit
<1>2. CASE Ends(c, "refused", NoFile) /\ UNCHANGED dmiCache
  BY <1>1, <1>2, LoadIsRefused
<1>3. CASE dmiCache' = Touched(dmiCache, f) /\ Ends(c, "loaded", dmiCache.entries[f])
  <2>1. f \in DmiFile /\ dmiCache.entries[f] \in Asset /\ Running(c)
    BY <1>1, ReadFacts, CallFacts DEF Hit, CacheShape
  <2> DEFINE order == UsedLast(dmiCache.order, f, Cached(dmiCache))
             new == [dmiCache EXCEPT !.order = order]
  <2>2. dmiCache' = new
    BY <1>3 DEF Touched
  <2> HIDE DEF order
  <2>3. /\ new.entries = dmiCache.entries /\ new.generation = dmiCache.generation
        /\ DOMAIN new = DOMAIN dmiCache
    BY CallFacts DEF CacheShape
  <2> HIDE DEF new
  <2>4. CacheShape(dmiCache)'
    BY <2>2, <2>3, CallFacts DEF CacheShape
  <2>5. Numbered'
    BY <1>1, <1>3, <2>2, <2>3, EndsNumbered DEF JobStage
  <2> QED
    BY <1>1, <1>3, <2>1, <2>4, <2>5, JobMoves
<1> QED
  BY <1>2, <1>3 DEF CacheHit

LEMMA StepCacheMiss ==
  ASSUME DmiInv, UNCHANGED dmiPermits, NEW c \in IconCall, CacheMiss(c)
  PROVE  DmiInv'
<1> DEFINE f == dmiCall[c].file
           d == dmiJob[c].input
           asset == [content |-> d, generation |-> dmiCache.generation + 1]
<1>1. JobIs(c, "read") /\ UNCHANGED <<dmiDisk, dmiCall>>
  BY DEF CacheMiss
<1>2. CASE Ends(c, "refused", NoFile) /\ UNCHANGED dmiCache
  BY <1>1, <1>2, LoadIsRefused
<1>3. CASE dmiCache' = Installed(dmiCache, f, d) /\ Ends(c, "loaded", asset)
  <2>1. f \in DmiFile /\ d \in DmiContent /\ Running(c) /\ CacheShape(dmiCache)
    BY <1>1, ReadFacts, CallFacts
  <2>2. asset \in Asset /\ asset.generation = dmiCache.generation + 1 /\ dmiCache.generation \in Nat
    BY <2>1 DEF Asset, CacheShape
  <2>3. /\ CacheShape(dmiCache)' /\ dmiCache'.generation = dmiCache.generation + 1
        /\ \A g \in DmiFile : \/ dmiCache'.entries[g] \in {NoFile, dmiCache.entries[g]}
                              \/ g = f /\ dmiCache'.entries[g] = asset
    BY <1>3, <2>1, InstalledIs DEF CacheShape
  <2>4. /\ dmiJob'[c].stage = "loaded" /\ dmiJob'[c].input = asset
        /\ \A e \in IconCall \ {c} : dmiJob'[e] = dmiJob[e]
    <3> HIDE DEF asset
    <3> QED
      BY <1>3, CallFacts DEF Ends, JobRecord
  <2>f. dmiCall'[c].file = f
    BY <1>1
  <2> HIDE DEF asset, f, d
  <2>5. ASSUME NEW g \in DmiFile, NEW a \in Asset, Stands(g, a)'
        PROVE  Stands(g, a) \/ (g = f /\ a = asset)
    <3>1. a # NoFile
      BY DmiConstants
    <3>2. CASE dmiCache'.entries[g] = a
      BY <2>3, <3>1, <3>2 DEF Stands
    <3>3. CASE \E e \in IconCall : dmiCall'[e].assets[g] = a
      BY <1>1, <3>3 DEF Stands
    <3>4. ASSUME NEW e \in IconCall, JobIs(e, "loaded")', dmiCall'[e].file = g,
                 dmiJob'[e].input = a
          PROVE  Stands(g, a) \/ (g = f /\ a = asset)
      <4>1. CASE e = c
        BY <2>4, <2>f, <3>4, <4>1
      <4>2. CASE e # c
        BY <1>1, <2>4, <3>4, <4>2 DEF Stands, JobIs
      <4> QED
        BY <4>1, <4>2
    <3> QED
      BY <2>5, <3>2, <3>3, <3>4 DEF Stands
  <2>6. Numbered'
    BY <2>1, <2>2, <2>3, <2>5, NumbersGrow DEF DmiInv
  <2> QED
    BY <1>1, <1>3, <2>1, <2>2, <2>3, <2>6, JobMoves
<1> QED
  BY <1>2, <1>3 DEF CacheMiss

LEMMA StepAdmitted ==
  ASSUME DmiInv, UNCHANGED dmiPermits, NEW c \in IconCall, Admitted(c)
  PROVE  DmiInv'
<1> DEFINE call == [dmiCall[c] EXCEPT !.step = "awaiting"]
           job == [dmiJob[c] EXCEPT !.stage = "reading"]
<1>1. /\ dmiCall[c].step = "queued" /\ UNCHANGED <<dmiDisk, dmiCache>>
      /\ dmiCall' = [dmiCall EXCEPT ![c] = call] /\ dmiJob' = [dmiJob EXCEPT ![c] = job]
      /\ Cardinality({d \in IconCall : Running(d)}) < dmiPermits
  BY DEF Admitted
<1>2. /\ call \in CallRecord /\ call.step = "awaiting" /\ call.file = dmiCall[c].file
      /\ call.todo = dmiCall[c].todo /\ call.sought = dmiCall[c].sought
      /\ call.partial = dmiCall[c].partial /\ call.assets = dmiCall[c].assets
  BY CallFacts DEF CallRecord
<1>3. job \in JobRecord /\ job.stage = "reading"
  BY CallFacts DEF JobRecord, JobStage
<1> HIDE DEF call, job
<1>4. /\ dmiCall' \in [IconCall -> CallRecord] /\ dmiCall'[c] = call
      /\ dmiJob' \in [IconCall -> JobRecord] /\ dmiJob'[c] = job
      /\ \A d \in IconCall \ {c} : dmiCall'[d] = dmiCall[d] /\ dmiJob'[d] = dmiJob[d]
  BY <1>1, <1>2, <1>3, CallFacts
<1>5. DmiTypeOK'
  BY <1>1, <1>4 DEF DmiInv, DmiTypeOK, CacheShape
<1>6. JobsBounded'
  <2>1. \A d \in IconCall : Running(d)' => Running(d) \/ d = c
    BY <1>4 DEF Running
  <2> QED
    BY <1>1, <2>1, BoundedGrows DEF DmiInv
<1>7. Numbered'
  <2>1. ASSUME NEW f \in DmiFile, NEW a \in Asset, Stands(f, a)' PROVE Stands(f, a)
    <3>1. CASE dmiCache'.entries[f] = a
      BY <1>1, <3>1 DEF Stands
    <3>2. ASSUME NEW d \in IconCall, dmiCall'[d].assets[f] = a PROVE Stands(f, a)
      BY <1>2, <1>4, <3>2 DEF Stands
    <3>3. ASSUME NEW d \in IconCall, JobIs(d, "loaded")', dmiCall'[d].file = f,
                 dmiJob'[d].input = a
          PROVE  Stands(f, a)
      BY <1>3, <1>4, <3>3 DEF Stands, JobIs
    <3> QED
      BY <2>1, <3>1, <3>2, <3>3 DEF Stands
  <2> QED
    BY <1>1, <2>1, NumbersKeep DEF DmiInv
<1>8. dmiCall[c].file \in DmiFile
  BY <1>1, CallFacts DEF JobSound
<1>9. ASSUME NEW d \in IconCall PROVE JobSound(d)' /\ Complete(dmiCall[d])'
  <2>1. CASE d = c
    <3>1. JobSound(c)'
      BY <1>2, <1>3, <1>4, <1>8 DEF JobSound, JobIs
    <3>2. Complete(call)
      BY <1>1, <1>2, CallFacts DEF Complete, Ahead
    <3> QED
      BY <1>4, <2>1, <3>1, <3>2 DEF Complete, Ahead
  <2>2. CASE d # c
    BY <1>4, <2>2, CallFacts DEF JobSound, JobIs, Complete, Ahead
  <2> QED
    BY <2>1, <2>2
<1> QED
  BY <1>5, <1>6, <1>7, <1>9 DEF DmiInv

LEMMA DiskMoves ==
  ASSUME DmiInv, UNCHANGED <<dmiPermits, dmiCache, dmiCall, dmiJob>>,
         dmiDisk' \in [DmiFile -> DmiContent \cup {NoFile}]
  PROVE  DmiInv'
<1>1. DmiTypeOK'
  BY DEF DmiInv, DmiTypeOK, CacheShape
<1>2. JobsBounded'
  BY DEF DmiInv, JobsBounded, Running
<1>3. Numbered'
  BY DEF DmiInv, Numbered, Stands, JobIs
<1>4. \A c \in IconCall : JobSound(c)' /\ Complete(dmiCall[c])'
  BY DEF DmiInv, JobSound, JobIs, Complete, Ahead
<1> QED
  BY <1>1, <1>2, <1>3, <1>4 DEF DmiInv

LEMMA DmiBegins == DmiInit => DmiInv
<1> SUFFICES ASSUME DmiInit PROVE DmiInv
  OBVIOUS
<1> DEFINE none == [stage |-> "none", input |-> NoFile]
           empty == [entries |-> [f \in DmiFile |-> NoFile], order |-> {}, bytes |-> 0,
                     generation |-> 0]
<1>1. /\ dmiPermits \in JobLimits /\ dmiDisk \in [DmiFile -> DmiContent]
      /\ dmiCache = empty /\ dmiCall = [c \in IconCall |-> NoCall]
      /\ dmiJob = [c \in IconCall |-> none]
  BY DEF DmiInit
<1>2. none \in JobRecord /\ none.stage = "none"
  BY DEF JobRecord, JobStage
<1>3. /\ CacheShape(empty) /\ empty.generation = 0
      /\ \A f \in DmiFile : empty.entries[f] = NoFile
  BY DEF CacheShape
<1> HIDE DEF none, empty
<1>4. /\ NoCall \in CallRecord /\ NoCall.step = "idle"
      /\ \A f \in DmiFile : NoCall.assets[f] = NoFile
  BY NoCallIs
<1>5. DmiTypeOK
  BY <1>1, <1>2, <1>3, <1>4 DEF DmiTypeOK
<1>6. Numbered
  <2>1. \A f \in DmiFile, a \in Asset : ~Stands(f, a)
    BY <1>1, <1>2, <1>3, <1>4, DmiConstants DEF Stands, JobIs
  <2> QED
    BY <2>1 DEF Numbered
<1>7. JobsBounded
  <2>1. {c \in IconCall : Running(c)} = {}
    BY <1>1, <1>2 DEF Running
  <2>2. dmiPermits \in Nat /\ Cardinality({}) = 0
    BY <1>1, DmiConstants, FS_EmptySet
  <2> QED
    BY <2>1, <2>2 DEF JobsBounded
<1>8. \A c \in IconCall : JobSound(c) /\ Complete(dmiCall[c])
  BY <1>1, <1>2, <1>4 DEF JobSound, JobIs, Complete
<1> QED
  BY <1>5, <1>6, <1>7, <1>8 DEF DmiInv

LEMMA DmiStep == DmiInv /\ [DmiNext]_dmiVars => DmiInv'
<1> SUFFICES ASSUME DmiInv, [DmiNext]_dmiVars PROVE DmiInv'
  OBVIOUS
<1>1. CASE UNCHANGED dmiVars
  <2>1. UNCHANGED <<dmiPermits, dmiCache, dmiCall, dmiJob, dmiDisk>>
    BY <1>1 DEF dmiVars
  <2> QED
    BY <2>1, DiskMoves DEF DmiInv, DmiTypeOK
<1>2. ASSUME UNCHANGED dmiPermits, NEW c \in IconCall, JobSteps(c) PROVE DmiInv'
  BY <1>2, StepInputRead, StepCacheHit, StepCacheMiss DEF JobSteps
<1>3. ASSUME UNCHANGED dmiPermits, NEW c \in IconCall, CallSteps(c) PROVE DmiInv'
  BY <1>3, StepLoadBegins, StepScanBegins, StepAdmitted, StepAssetAccepted, StepLoadRefused,
     StepLoadErred, StepCompared, StepReferencesChecked, StepAnswers, StepCallDropped,
     StepTakesNext DEF CallSteps
<1>4. ASSUME UNCHANGED dmiPermits, NEW f \in DmiFile, NEW d \in DmiContent \cup {NoFile},
             FileChanges(f, d)
      PROVE  DmiInv'
  <2>1. dmiDisk' = [dmiDisk EXCEPT ![f] = d] /\ UNCHANGED <<dmiCache, dmiCall, dmiJob>>
    BY <1>4 DEF FileChanges
  <2>2. dmiDisk' \in [DmiFile -> DmiContent \cup {NoFile}]
    BY <2>1 DEF DmiInv, DmiTypeOK
  <2> QED
    BY <1>4, <2>1, <2>2, DiskMoves
<1> QED
  BY <1>1, <1>2, <1>3, <1>4 DEF DmiNext

LEMMA DmiSafe == DmiSpec => []DmiInv
  BY DmiBegins, DmiStep, PTL DEF DmiSpec

(* No more blocking jobs run than there are permits, the jobs of dropped      *)
(* calls included (run_asset_job).                                            *)
THEOREM PermitsSuffice == DmiSpec => []JobsBounded
<1>1. DmiInv => JobsBounded
  BY DEF DmiInv
<1> QED
  BY <1>1, DmiSafe, PTL

(* A generation names one content of one file among all that calls hold,      *)
(* whatever the cache replaced or evicted (DmiCache::install).                *)
THEOREM GenerationsUnique == DmiSpec => []GenerationsName
<1>1. ASSUME DmiInv PROVE GenerationsName
  <2>1. ASSUME NEW c \in IconCall, NEW f \in Held(c)
        PROVE  /\ f \in DmiFile /\ dmiCall[c].assets[f] \in Asset
               /\ Stands(f, dmiCall[c].assets[f])
    BY <1>1, CallFacts DEF Held, CallRecord, Stands
  <2>2. ASSUME NEW c \in IconCall, NEW d \in IconCall, NEW f \in Held(c), NEW g \in Held(d),
               dmiCall[c].assets[f].generation = dmiCall[d].assets[g].generation
        PROVE  f = g /\ dmiCall[c].assets[f].content = dmiCall[d].assets[g].content
    <3>1. /\ f \in DmiFile /\ dmiCall[c].assets[f] \in Asset
          /\ Stands(f, dmiCall[c].assets[f])
      BY <2>1
    <3>2. /\ g \in DmiFile /\ dmiCall[d].assets[g] \in Asset
          /\ Stands(g, dmiCall[d].assets[g])
      BY <2>1
    <3> QED
      BY <1>1, <2>2, <3>1, <3>2 DEF DmiInv, Numbered
  <2> QED
    BY <2>2 DEF GenerationsName
<1> QED
  BY <1>1, DmiSafe, PTL

(* An answer that is not marked partial is of every file that was sought,     *)
(* whichever files change, are refused or are found by a later discovery      *)
(* (AssetScan::load, audit_icons).                                            *)
THEOREM PartialSaysSo == DmiSpec => []NothingOmitted
<1>1. ASSUME DmiInv PROVE NothingOmitted
  <2> SUFFICES ASSUME NEW c \in IconCall, dmiCall[c].step = "answered", ~dmiCall[c].partial,
                      NEW f \in dmiCall[c].sought
               PROVE  f \in Held(c)
    BY DEF NothingOmitted
  <2>1. dmiCall[c].assets[f] # NoFile /\ f \in DmiFile
    BY <1>1, CallFacts DEF Complete, Ahead, CallRecord
  <2> QED
    BY <2>1 DEF Held
<1> QED
  BY <1>1, DmiSafe, PTL

-----------------------------------------------------------------------------
(* What the cache says it occupies is what its entries do, and is within its  *)
(* limits.                                                                    *)
Weighed(k) ==
  /\ CacheShape(k) /\ k.order \subseteq Cached(k) \X Cached(k)
  /\ k.bytes = BytesOf(k, Cached(k))
Light(k) == k.bytes <= CacheBytes /\ Cardinality(Cached(k)) <= CacheEntries

LEMMA PixelsOf ==
  ASSUME NEW k, CacheShape(k)
  PROVE  /\ IsFiniteSet(Cached(k)) /\ Cached(k) \subseteq DmiFile
         /\ \A f \in Cached(k) : /\ k.entries[f] \in Asset /\ Pixels(k)[f] \in Nat
                                 /\ Pixels(k)[f] = Demand[k.entries[f].content]["pixels"]
<1>1. Cached(k) \subseteq DmiFile
  BY DEF Cached
<1>2. IsFiniteSet(Cached(k))
  BY <1>1, DmiConstants, FS_Subset
<1>3. ASSUME NEW f \in Cached(k)
      PROVE  /\ k.entries[f] \in Asset /\ Pixels(k)[f] \in Nat
             /\ Pixels(k)[f] = Demand[k.entries[f].content]["pixels"]
  <2>1. k.entries[f] \in Asset
    BY DEF Cached, CacheShape
  <2>2. k.entries[f].content \in DmiContent
    BY <2>1 DEF Asset
  <2>3. Demand[k.entries[f].content]["pixels"] \in Nat
    BY <2>2, DmiConstants DEF Resource
  <2> QED
    BY <2>1, <2>3 DEF Pixels
<1> QED
  BY <1>1, <1>2, <1>3

(* Two caches with the same entries under some files.                         *)
LEMMA SamePixels ==
  ASSUME NEW k, CacheShape(k), NEW l, CacheShape(l), NEW files \in SUBSET Cached(k),
         files \subseteq Cached(l), \A f \in files : l.entries[f] = k.entries[f]
  PROVE  BytesOf(l, files) = BytesOf(k, files)
<1>1. IsFiniteSet(files) /\ \A f \in files : Pixels(l)[f] = Pixels(k)[f]
  BY PixelsOf, FS_Subset
<1> QED
  BY <1>1, SumSame DEF BytesOf

(* Entries that go take their bytes with them.                                *)
LEMMA WithoutWeighed ==
  ASSUME NEW k, Weighed(k), NEW files \in SUBSET Cached(k)
  PROVE  /\ Weighed(Without(k, files)) /\ Cached(Without(k, files)) = Cached(k) \ files
         /\ Without(k, files).generation = k.generation
         /\ \A f \in DmiFile : f \notin files => Without(k, files).entries[f] = k.entries[f]
<1> DEFINE new == Without(k, files)
           rest == Cached(k) \ files
           left == k.bytes - BytesOf(k, files)
<1>1. /\ CacheShape(new) /\ new.generation = k.generation
      /\ \A g \in DmiFile : new.entries[g] \in {NoFile, k.entries[g]}
  BY WithoutIs DEF Weighed
<1>2. /\ new.entries = [f \in DmiFile |-> IF f \in files THEN NoFile ELSE k.entries[f]]
      /\ new.order = {p \in k.order : {p[1], p[2]} \cap files = {}}
      /\ new.bytes = Max({0, left})
  <2>1. DOMAIN k = {"entries", "order", "bytes", "generation"}
    BY DEF Weighed, CacheShape
  <2> HIDE DEF left
  <2> QED
    BY <2>1 DEF Without, left
<1>3. Cached(new) = rest /\ \A f \in DmiFile : f \notin files => new.entries[f] = k.entries[f]
  BY <1>2 DEF Cached
<1>4. new.order \subseteq Cached(new) \X Cached(new)
  BY <1>2, <1>3 DEF Weighed
<1>5. IsFiniteSet(Cached(k)) /\ \A f \in Cached(k) : Pixels(k)[f] \in Nat
  BY PixelsOf DEF Weighed
<1>6. /\ BytesOf(k, Cached(k)) = BytesOf(k, files) + BytesOf(k, rest)
      /\ BytesOf(k, files) \in Nat /\ BytesOf(k, rest) \in Nat
  <2>1. IsFiniteSet(files) /\ IsFiniteSet(rest)
    BY <1>5, FS_Subset
  <2> QED
    BY <1>5, <2>1, SumSplit, SumNat DEF BytesOf
<1>7. BytesOf(new, rest) = BytesOf(k, rest)
  <2>1. rest \in SUBSET Cached(k) /\ \A f \in rest : new.entries[f] = k.entries[f]
    BY <1>3, <1>5 DEF Cached
  <2> HIDE DEF new, rest
  <2> QED
    BY <1>1, <1>3, <2>1, SamePixels DEF Weighed
<1>8. new.bytes = BytesOf(new, Cached(new))
  <2>1. k.bytes = BytesOf(k, Cached(k))
    BY DEF Weighed
  <2> HIDE DEF new, rest
  <2>2. left \in Int /\ left = BytesOf(k, rest)
    BY <1>6, <2>1
  <2>3. Max({0, left}) = left
    <3> HIDE DEF left
    <3> QED
      BY <1>6, <2>2, MaxOfTwo
  <2> QED
    BY <1>2, <1>3, <1>7, <2>2, <2>3
<1> HIDE DEF new
<1>9. Weighed(new)
  BY <1>1, <1>4, <1>8 DEF Weighed
<1> QED
  BY <1>1, <1>3, <1>9 DEF new

(* The oldest entries go until the rest is within the limits; if all must go, *)
(* nothing is left.                                                           *)
LEMMA EvictedLight ==
  ASSUME NEW k, Weighed(k)
  PROVE  Weighed(Evicted(k)) /\ Light(Evicted(k))
<1> DEFINE oldest == {v \in SUBSET Cached(k) : \A p \in k.order : p[2] \in v => p[1] \in v}
           fits(v) == Cardinality(Cached(Without(k, v))) <= CacheEntries
                      /\ Without(k, v).bytes <= CacheBytes
           enough == {v \in oldest : fits(v) \/ v = Cached(k)}
           gone == CHOOSE v \in enough : \A w \in enough : w \subseteq v => w = v
<1>1. Evicted(k) = Without(k, gone)
  BY DEF Evicted
<1>2. Cached(k) \in enough
  BY DEF Weighed
<1>3. \E v \in enough : \A w \in enough : w \subseteq v => w = v
  <2>1. enough \in SUBSET SUBSET Cached(k) /\ enough # {} /\ IsFiniteSet(Cached(k))
    BY <1>2, PixelsOf DEF Weighed
  <2> HIDE DEF enough
  <2>2. PICK v \in enough : \A w \in SUBSET v : w # v => w \notin enough
    BY <2>1, Least
  <2> QED
    BY <2>2
<1>4. gone \in enough
  <2> HIDE DEF enough
  <2> QED
    BY <1>3
<1>5. gone \in SUBSET Cached(k) /\ (fits(gone) \/ gone = Cached(k))
  BY <1>4
<1> HIDE DEF gone
<1>6. Weighed(Without(k, gone)) /\ Cached(Without(k, gone)) = Cached(k) \ gone
  BY <1>5, WithoutWeighed
<1>7. CASE fits(gone)
  BY <1>1, <1>6, <1>7 DEF Light
<1>8. CASE gone = Cached(k)
  <2>1. Cached(Without(k, gone)) = {}
    BY <1>6, <1>8
  <2>2. Without(k, gone).bytes = 0
    BY <1>6, <2>1, SumEmpty DEF Weighed, BytesOf
  <2>3. CacheEntries \in Nat /\ CacheBytes \in Nat /\ Cardinality({}) = 0
    BY FS_EmptySet, DmiConstants
  <2> QED
    BY <1>1, <1>6, <2>1, <2>2, <2>3 DEF Light
<1> QED
  BY <1>5, <1>7, <1>8

LEMMA InstalledLight ==
  ASSUME NEW k, Weighed(k), NEW f \in DmiFile, NEW d \in DmiContent
  PROVE  Weighed(Installed(k, f, d)) /\ Light(Installed(k, f, d))
<1> DEFINE asset == [content |-> d, generation |-> k.generation + 1]
           old == Without(k, {f} \cap Cached(k))
           entries == [old.entries EXCEPT ![f] = asset]
           order == UsedLast(old.order, f, Cached(old))
           bytes == old.bytes + Demand[d]["pixels"]
           more == [entries |-> entries, order |-> order, bytes |-> bytes,
                    generation |-> k.generation + 1]
<1>1. Installed(k, f, d) = Evicted(more)
  BY DEF Installed
<1>2. /\ asset \in Asset /\ asset.content = d /\ k.generation \in Nat /\ asset # NoFile
      /\ Demand[d]["pixels"] \in Nat
  BY DmiConstants DEF Asset, Weighed, CacheShape, Resource
<1>3. Weighed(old) /\ f \notin Cached(old)
  BY WithoutWeighed
<1> HIDE DEF asset, old
<1>4. /\ entries \in [DmiFile -> Asset \cup {NoFile}] /\ entries[f] = asset
      /\ \A g \in DmiFile \ {f} : entries[g] = old.entries[g]
  BY <1>2, <1>3 DEF Weighed, CacheShape
<1>5. order \subseteq (Cached(old) \cup {f}) \X (Cached(old) \cup {f})
  BY <1>3 DEF Weighed, UsedLast
<1> HIDE DEF entries, order
<1>6. /\ CacheShape(more) /\ more.entries = entries /\ more.bytes = bytes
      /\ more.order = order
  BY <1>2, <1>4 DEF CacheShape
<1> HIDE DEF more, bytes
<1>7. Cached(more) = Cached(old) \cup {f}
  BY <1>2, <1>3, <1>4, <1>6 DEF Cached
<1>8. IsFiniteSet(Cached(old)) /\ \A g \in Cached(old) \cup {f} : Pixels(more)[g] \in Int
  <2>1. IsFiniteSet(Cached(old)) /\ \A g \in Cached(more) : Pixels(more)[g] \in Nat
    BY <1>3, <1>6, PixelsOf DEF Weighed
  <2> QED
    BY <1>7, <2>1
<1>9. BytesOf(more, Cached(more)) = Pixels(more)[f] + BytesOf(more, Cached(old))
  BY <1>3, <1>7, <1>8, SumWith DEF BytesOf
<1>10. BytesOf(more, Cached(old)) = BytesOf(old, Cached(old))
  <2>1. \A g \in Cached(old) : more.entries[g] = old.entries[g]
    BY <1>3, <1>4, <1>6 DEF Cached
  <2> QED
    BY <1>3, <1>6, <1>7, <2>1, SamePixels DEF Weighed
<1>11. Pixels(more)[f] = Demand[d]["pixels"]
  BY <1>2, <1>4, <1>6, <1>7, PixelsOf
<1>12. BytesOf(old, Cached(old)) \in Nat /\ old.bytes = BytesOf(old, Cached(old))
  <2>1. \A g \in Cached(old) : Pixels(old)[g] \in Nat
    BY <1>3, PixelsOf DEF Weighed
  <2> QED
    BY <1>3, <1>8, <2>1, SumNat DEF BytesOf, Weighed
<1>13. more.bytes = BytesOf(more, Cached(more))
  BY <1>2, <1>6, <1>9, <1>10, <1>11, <1>12 DEF bytes
<1>14. Weighed(more)
  BY <1>5, <1>6, <1>7, <1>13 DEF Weighed
<1> QED
  BY <1>1, <1>14, EvictedLight

LEMMA TouchedLight ==
  ASSUME NEW k, Weighed(k), Light(k), NEW f \in Cached(k)
  PROVE  Weighed(Touched(k, f)) /\ Light(Touched(k, f))
<1> DEFINE order == UsedLast(k.order, f, Cached(k))
           new == [k EXCEPT !.order = order]
<1>1. Touched(k, f) = new
  BY DEF Touched, Weighed, CacheShape
<1>2. order \subseteq Cached(k) \X Cached(k)
  BY DEF Weighed, UsedLast
<1> HIDE DEF order
<1>3. /\ new.entries = k.entries /\ new.order = order /\ new.bytes = k.bytes
      /\ new.generation = k.generation /\ DOMAIN new = DOMAIN k
  BY DEF Weighed, CacheShape
<1> HIDE DEF new
<1>4. CacheShape(new) /\ Cached(new) = Cached(k)
  BY <1>3 DEF Weighed, CacheShape, Cached
<1>5. BytesOf(new, Cached(new)) = BytesOf(k, Cached(k))
  BY <1>3, <1>4, SamePixels DEF Weighed
<1>6. Weighed(new)
  BY <1>2, <1>3, <1>4, <1>5 DEF Weighed
<1> QED
  BY <1>1, <1>3, <1>4, <1>6 DEF Light

LEMMA CacheStep ==
  DmiInv /\ Weighed(dmiCache) /\ Light(dmiCache) /\ [DmiNext]_dmiVars =>
    Weighed(dmiCache)' /\ Light(dmiCache)'
<1> SUFFICES ASSUME DmiInv, Weighed(dmiCache), Light(dmiCache), [DmiNext]_dmiVars
             PROVE  Weighed(dmiCache)' /\ Light(dmiCache)'
  OBVIOUS
<1>1. CASE UNCHANGED dmiCache
  BY <1>1 DEF Weighed, Light, CacheShape, Cached, BytesOf, Pixels
<1>2. ASSUME NEW c \in IconCall, CacheHit(c), dmiCache' # dmiCache
      PROVE  Weighed(dmiCache)' /\ Light(dmiCache)'
  <2> DEFINE f == dmiCall[c].file
  <2>1. dmiCache' = Touched(dmiCache, f) /\ JobIs(c, "read") /\ Hit(f, dmiJob[c].input)
    BY <1>2 DEF CacheHit
  <2>2. f \in Cached(dmiCache)
    BY <2>1, ReadFacts DEF Hit, Cached
  <2> HIDE DEF f
  <2> QED
    BY <2>1, <2>2, TouchedLight
<1>3. ASSUME NEW c \in IconCall, CacheMiss(c), dmiCache' # dmiCache
      PROVE  Weighed(dmiCache)' /\ Light(dmiCache)'
  <2>1. /\ dmiCache' = Installed(dmiCache, dmiCall[c].file, dmiJob[c].input)
        /\ JobIs(c, "read")
    BY <1>3 DEF CacheMiss
  <2>2. dmiCall[c].file \in DmiFile /\ dmiJob[c].input \in DmiContent
    BY <2>1, ReadFacts
  <2> DEFINE f == dmiCall[c].file
             d == dmiJob[c].input
  <2>3. dmiCache' = Installed(dmiCache, f, d) /\ f \in DmiFile /\ d \in DmiContent
    BY <2>1, <2>2
  <2> HIDE DEF f, d
  <2>4. Weighed(Installed(dmiCache, f, d)) /\ Light(Installed(dmiCache, f, d))
    BY <2>3, InstalledLight
  <2> QED
    BY <2>3, <2>4
<1>4. ASSUME NEW c \in IconCall, JobSteps(c) \/ CallSteps(c), dmiCache' # dmiCache
      PROVE  CacheHit(c) \/ CacheMiss(c)
  BY <1>4, Zenon DEF JobSteps, CallSteps, InputRead, InputGone, LoadBegins, ScanBegins, Admitted,
     AssetAccepted, LoadRefused, LoadErred, Awaited, Compared, ReferencesChecked, UnusedListed,
     Loaded, PhaseOver, CallDropped, TakesNext
<1>5. ASSUME NEW f \in DmiFile, NEW d \in DmiContent \cup {NoFile}, FileChanges(f, d)
      PROVE  UNCHANGED dmiCache
  BY <1>5 DEF FileChanges
<1> QED
  BY <1>1, <1>2, <1>3, <1>4, <1>5 DEF DmiNext, dmiVars

LEMMA CacheBegins == DmiInit => Weighed(dmiCache) /\ Light(dmiCache)
<1> SUFFICES ASSUME DmiInit PROVE Weighed(dmiCache) /\ Light(dmiCache)
  OBVIOUS
<1>1. /\ CacheShape(dmiCache) /\ dmiCache.order = {} /\ dmiCache.bytes = 0
      /\ Cached(dmiCache) = {}
  BY DEF DmiInit, CacheShape, Cached
<1> QED
  BY <1>1, SumEmpty, FS_EmptySet, DmiConstants DEF Weighed, Light, BytesOf

(* What the cache says it occupies is what its entries do, replaced and       *)
(* evicted ones subtracted, and neither limit is exceeded when its lock is    *)
(* free, whatever was loaded, hit, replaced or evicted (DmiCache::install).   *)
THEOREM CacheHonest == DmiSpec => []CacheAccounted
<1>1. Weighed(dmiCache) /\ Light(dmiCache) => CacheAccounted
  BY DEF Weighed, Light, CacheAccounted
<1> QED
  BY <1>1, CacheBegins, CacheStep, DmiSafe, PTL DEF DmiSpec

-----------------------------------------------------------------------------
(* What a scan has been charged is what it holds, and the asset that its job  *)
(* ends with still fits.                                                      *)
HeldBy(call) == {f \in DmiFile : call.assets[f] # NoFile}
Takes(call, r) == [f \in HeldBy(call) |-> Demand[call.assets[f].content][r]]
Taken(call, r) == SumFunctionOnSet(Takes(call, r), HeldBy(call))
Loading == {"queued", "awaiting"}
Paid(call) ==
  call.kind = "scan" => \A r \in Budgeted :
    /\ Taken(call, r) <= Allowance[r]
    /\ call.step \in {"next"} \cup Loading => call.used[r] = Taken(call, r)
Anew(call) == call.kind = "scan" /\ call.step \in Loading => call.assets[call.file] = NoFile
Settled(call) == (call.step = "idle" => call = NoCall) /\ Paid(call) /\ Anew(call)
Affords(c) ==
  Scanning(c) /\ dmiCall[c].step = "awaiting" /\ JobIs(c, "loaded") =>
    \A r \in Budgeted :
      dmiCall[c].used[r] + Demand[dmiJob[c].input.content][r] <= Allowance[r]
ChargeInv == \A c \in IconCall : Settled(dmiCall[c]) /\ Affords(c)

LEMMA TakesType ==
  ASSUME NEW call \in CallRecord, NEW r \in Budgeted
  PROVE  /\ IsFiniteSet(HeldBy(call)) /\ \A f \in HeldBy(call) : Takes(call, r)[f] \in Nat
         /\ Taken(call, r) \in Nat /\ Allowance[r] \in Nat
<1>1. IsFiniteSet(HeldBy(call))
  BY DmiConstants, FS_Subset DEF HeldBy
<1>2. ASSUME NEW f \in HeldBy(call) PROVE Takes(call, r)[f] \in Nat
  <2>1. call.assets[f] \in Asset
    BY DEF HeldBy, CallRecord
  <2>2. call.assets[f].content \in DmiContent /\ r \in Resource
    BY <2>1 DEF Asset, Budgeted, Resource
  <2>3. Demand[call.assets[f].content][r] \in Nat
    BY <2>2, DmiConstants
  <2> QED
    BY <2>3 DEF Takes
<1>3. Taken(call, r) \in Nat
  BY <1>1, <1>2, SumNat DEF Taken
<1> QED
  BY <1>1, <1>2, <1>3, DmiConstants

LEMMA TakenSame ==
  ASSUME NEW call, NEW new, new.assets = call.assets
  PROVE  \A r \in Budgeted : Taken(new, r) = Taken(call, r)
  BY DEF Taken, Takes, HeldBy

LEMMA TakenNone ==
  ASSUME NEW call, \A f \in DmiFile : call.assets[f] = NoFile
  PROVE  \A r \in Budgeted : Taken(call, r) = 0
<1>1. HeldBy(call) = {}
  BY DEF HeldBy
<1> QED
  BY <1>1, SumEmpty DEF Taken

(* A call that keeps what it holds.                                           *)
LEMMA PaidSame ==
  ASSUME NEW call, Paid(call), NEW new, new.assets = call.assets, new.kind = call.kind,
         \/ new.step = "answered"
         \/ new.used = call.used /\ call.step \in {"next"} \cup Loading
  PROVE  Paid(new)
  BY TakenSame DEF Paid, Loading

(* One more asset.                                                            *)
LEMMA TakenMore ==
  ASSUME NEW call \in CallRecord, NEW f \in DmiFile, call.assets[f] = NoFile,
         NEW a \in Asset, NEW new \in CallRecord,
         new.assets = [call.assets EXCEPT ![f] = a]
  PROVE  \A r \in Budgeted : Taken(new, r) = Taken(call, r) + Demand[a.content][r]
<1> TAKE r \in Budgeted
<1>1. /\ new.assets[f] = a /\ \A g \in DmiFile \ {f} : new.assets[g] = call.assets[g]
      /\ a # NoFile
  BY DmiConstants DEF CallRecord
<1>2. HeldBy(new) = HeldBy(call) \cup {f} /\ f \notin HeldBy(call)
  BY <1>1 DEF HeldBy
<1>3. /\ IsFiniteSet(HeldBy(call)) /\ Taken(call, r) \in Nat
      /\ \A g \in HeldBy(call) \cup {f} : Takes(new, r)[g] \in Int
  BY <1>2, TakesType
<1>4. Taken(new, r) = Takes(new, r)[f] + SumFunctionOnSet(Takes(new, r), HeldBy(call))
  BY <1>2, <1>3, SumWith DEF Taken
<1>5. SumFunctionOnSet(Takes(new, r), HeldBy(call)) = Taken(call, r)
  <2>1. \A g \in HeldBy(call) : Takes(new, r)[g] = Takes(call, r)[g]
    <3> TAKE g \in HeldBy(call)
    <3>1. g \in HeldBy(new) /\ new.assets[g] = call.assets[g]
      BY <1>1, <1>2 DEF HeldBy
    <3> QED
      BY <3>1 DEF Takes
  <2> QED
    BY <1>3, <2>1, SumSame DEF Taken
<1>6. Takes(new, r)[f] = Demand[a.content][r]
  BY <1>1, <1>2 DEF Takes
<1>7. Takes(new, r)[f] \in Int
  BY <1>3
<1> QED
  BY <1>3, <1>4, <1>5, <1>6, <1>7

(* What is within the limits that a load of a scan is given.                  *)
LEMMA WithinAffords ==
  ASSUME DmiInv, NEW c \in IconCall, Paid(dmiCall[c]), Scanning(c),
         dmiCall[c].step = "awaiting", NEW d \in DmiContent,
         DimensionsFit(c, d), DescriptionFits(c, d), CountsFit(c, d)
  PROVE  \A r \in Budgeted : dmiCall[c].used[r] + Demand[d][r] <= Allowance[r]
<1> TAKE r \in Budgeted
<1> DEFINE used == dmiCall[c].used[r]
           most == Allowance[r]
<1>1. used = Taken(dmiCall[c], r) /\ used <= most
  BY DEF Paid, Scanning, Loading
<1>2. used \in Nat /\ most \in Nat /\ Ceiling[r] \in Nat /\ Demand[d][r] \in Nat
  BY <1>1, TakesType, CallFacts, DmiConstants DEF Budgeted, Resource
<1>3. Demand[d][r] <= Min({Ceiling[r], Max({0, most - used})})
  BY DEF DimensionsFit, DescriptionFits, CountsFit, Within, Allowed, Remaining, Budgeted
<1> DEFINE left == most - used
<1> HIDE DEF used, most
<1>4. left \in Int /\ left >= 0
  BY <1>1, <1>2
<1>5. Demand[d][r] <= Min({Ceiling[r], Max({0, left})})
  BY <1>3
<1> HIDE DEF left
<1>6. Max({0, left}) = left
  BY <1>4, MaxOfTwo
<1>7. Min({Ceiling[r], left}) <= left /\ Min({Ceiling[r], left}) \in Int
  <2>1. Ceiling[r] \in Int
    BY <1>2
  <2> QED
    BY <1>4, <2>1, MinOfTwo
<1>8. Demand[d][r] <= Min({Ceiling[r], left})
  BY <1>5, <1>6
<1>9. Demand[d][r] <= left
  <2> DEFINE m == Min({Ceiling[r], left})
  <2> HIDE DEF m
  <2> QED
    BY <1>2, <1>4, <1>7, <1>8 DEF m
<1> QED
  BY <1>2, <1>9 DEF used, most, left

(* A step of the call c.                                                      *)
LEMMA ChargeMoves ==
  ASSUME DmiInv, ChargeInv, NEW c \in IconCall, NEW new,
         dmiCall' = [dmiCall EXCEPT ![c] = new],
         \A d \in IconCall \ {c} : dmiJob'[d] = dmiJob[d],
         new.step # "awaiting" \/ JobIs(c, "reading")',
         Settled(new)
  PROVE  ChargeInv'
<1>1. dmiCall'[c] = new /\ \A d \in IconCall \ {c} : dmiCall'[d] = dmiCall[d]
  BY CallFacts
<1>2. Settled(dmiCall[c])' /\ Affords(c)'
  BY <1>1 DEF Affords, JobIs, Settled, Paid, Anew, Taken, Takes, HeldBy
<1>3. ASSUME NEW d \in IconCall \ {c} PROVE Settled(dmiCall[d])' /\ Affords(d)'
  <2>1. dmiCall'[d] = dmiCall[d] /\ dmiJob'[d] = dmiJob[d] /\ Settled(dmiCall[d]) /\ Affords(d)
    BY <1>1 DEF ChargeInv
  <2> QED
    BY <2>1 DEF Affords, JobIs, Scanning
<1> QED
  BY <1>2, <1>3 DEF ChargeInv

(* A step of the job of c.                                                    *)
LEMMA ChargeLoads ==
  ASSUME DmiInv, ChargeInv, NEW c \in IconCall, UNCHANGED dmiCall,
         NEW how \in JobStage, NEW input, Ends(c, how, input),
         how = "loaded" /\ Scanning(c) /\ dmiCall[c].step = "awaiting" =>
           \A r \in Budgeted : dmiCall[c].used[r] + Demand[input.content][r] <= Allowance[r]
  PROVE  ChargeInv'
<1>1. /\ dmiJob'[c].stage = how /\ dmiJob'[c].input = input
      /\ \A d \in IconCall \ {c} : dmiJob'[d] = dmiJob[d]
  BY CallFacts DEF Ends, JobRecord
<1>2. Affords(c)'
  BY <1>1 DEF Affords, JobIs, Scanning
<1>3. ASSUME NEW d \in IconCall \ {c} PROVE Affords(d)'
  BY <1>1 DEF ChargeInv, Affords, JobIs, Scanning
<1>4. \A d \in IconCall : Settled(dmiCall[d])'
  BY DEF ChargeInv
<1> QED
  BY <1>2, <1>3, <1>4 DEF ChargeInv

LEMMA SettledWorking ==
  ASSUME NEW call, Settled(call), call.step = "next", NEW new, new.assets = call.assets,
         new.kind = call.kind, new.used = call.used, new.step = "next" \/ new.step = "answered"
  PROVE  Settled(new)
  BY PaidSame DEF Settled, Anew, Loading

LEMMA SettledNone ==
  ASSUME NEW call, \A f \in DmiFile : call.assets[f] = NoFile, call.step # "idle",
         call.step \notin Loading, call.step = "next" => call.used = NoCall.used
  PROVE  Settled(call)
<1>1. \A r \in Budgeted : Taken(call, r) = 0 /\ Allowance[r] \in Nat /\ NoCall.used[r] = 0
  BY TakenNone, DmiConstants DEF NoCall
<1> QED
  BY <1>1 DEF Settled, Paid, Anew, Loading

LEMMA ChargeStarts ==
  ASSUME DmiInv, ChargeInv, NEW c \in IconCall, UNCHANGED dmiJob,
         NEW new, dmiCall' = [dmiCall EXCEPT ![c] = new], new.step = "next",
         new.used = dmiCall[c].used, new.assets = dmiCall[c].assets, dmiCall[c].step = "idle"
  PROVE  ChargeInv'
<1>1. dmiCall[c] = NoCall
  BY DEF ChargeInv, Settled
<1>2. new.used = NoCall.used /\ \A f \in DmiFile : new.assets[f] = NoFile
  BY <1>1 DEF NoCall
<1>3. Settled(new)
  BY <1>2, SettledNone DEF Loading
<1> QED
  BY <1>3, ChargeMoves

LEMMA ChargeLoadBegins ==
  ASSUME DmiInv, ChargeInv, NEW c \in IconCall, LoadBegins(c)
  PROVE  ChargeInv'
<1>1. PICK files \in SUBSET DmiFile :
        dmiCall' = [dmiCall EXCEPT ![c] =
            [@ EXCEPT !.kind = "load", !.step = "next", !.todo = files, !.sought = files]]
  BY DEF LoadBegins
<1> DEFINE call == dmiCall[c]
           new == [call EXCEPT !.kind = "load", !.step = "next", !.todo = files,
                               !.sought = files]
<1>2. call \in CallRecord /\ call.step = "idle" /\ UNCHANGED dmiJob
  BY CallFacts DEF LoadBegins
<1>3. dmiCall' = [dmiCall EXCEPT ![c] = new]
  BY <1>1
<1> HIDE DEF call
<1>4. new.step = "next" /\ new.used = call.used /\ new.assets = call.assets
  BY <1>2 DEF CallRecord
<1> HIDE DEF new
<1> QED
  BY <1>2, <1>3, <1>4, ChargeStarts DEF call

LEMMA ChargeScanBegins ==
  ASSUME DmiInv, ChargeInv, NEW c \in IconCall, ScanBegins(c)
  PROVE  ChargeInv'
<1>1. PICK found \in Discovered :
        dmiCall' = [dmiCall EXCEPT ![c] =
         [@ EXCEPT !.kind = "scan", !.step = "next", !.phase = "duplicates",
                   !.todo = found, !.sought = found, !.partial = Partial(found)]]
  BY DEF ScanBegins
<1> DEFINE call == dmiCall[c]
           partial == Partial(found)
           new == [call EXCEPT !.kind = "scan", !.step = "next", !.phase = "duplicates",
                     !.todo = found, !.sought = found, !.partial = partial]
<1>2. call \in CallRecord /\ call.step = "idle" /\ UNCHANGED dmiJob
  BY CallFacts DEF ScanBegins
<1>3. dmiCall' = [dmiCall EXCEPT ![c] = new]
  BY <1>1
<1> HIDE DEF call, partial
<1>4. new.step = "next" /\ new.used = call.used /\ new.assets = call.assets
  BY <1>2 DEF CallRecord
<1> HIDE DEF new
<1> QED
  BY <1>2, <1>3, <1>4, ChargeStarts DEF call

LEMMA ChargeFails ==
  ASSUME DmiInv, ChargeInv, NEW c \in IconCall, dmiCall' = [dmiCall EXCEPT ![c] = Failed],
         \A d \in IconCall \ {c} : dmiJob'[d] = dmiJob[d]
  PROVE  ChargeInv'
<1>1. Settled(Failed) /\ Failed.step # "awaiting"
  BY FailedIs, SettledNone DEF Loading
<1> QED
  BY <1>1, ChargeMoves

LEMMA ChargeTakesNext ==
  ASSUME DmiInv, ChargeInv, NEW c \in IconCall, NEW f \in DmiFile, TakesNext(c, f)
  PROVE  ChargeInv'
<1> DEFINE call == dmiCall[c]
           left == call.todo \ {f}
           less == [call EXCEPT !.todo = left]
           new == [less EXCEPT !.file = f, !.step = "queued"]
<1>1. call \in CallRecord /\ call.step = "next" /\ UNCHANGED dmiJob /\ Settled(call)
  BY CallFacts DEF TakesNext, ChargeInv
<1>2. \/ dmiCall' = [dmiCall EXCEPT ![c] = Failed]
      \/ dmiCall' = [dmiCall EXCEPT ![c].todo = @ \ {f}]
      \/ /\ dmiCall' = [dmiCall EXCEPT ![c].todo = @ \ {f}, ![c].file = f, ![c].step = "queued"]
         /\ call.kind = "scan" => call.assets[f] = NoFile
  BY DEF TakesNext, Scanning
<1>3. /\ less \in CallRecord /\ less.step = "next" /\ less.kind = call.kind
      /\ less.assets = call.assets /\ less.used = call.used
  BY <1>1 DEF CallRecord
<1>4. CASE dmiCall' = [dmiCall EXCEPT ![c] = Failed]
  BY <1>1, <1>4, ChargeFails
<1>5. CASE dmiCall' = [dmiCall EXCEPT ![c].todo = @ \ {f}]
  <2>1. dmiCall' = [dmiCall EXCEPT ![c] = less]
    BY <1>5
  <2> HIDE DEF less, call
  <2>2. Settled(less)
    BY <1>1, <1>3, SettledWorking
  <2> QED
    BY <1>1, <1>3, <2>1, <2>2, ChargeMoves
<1>6. CASE /\ dmiCall' = [dmiCall EXCEPT ![c].todo = @ \ {f}, ![c].file = f, ![c].step = "queued"]
           /\ call.kind = "scan" => call.assets[f] = NoFile
  <2>1. dmiCall' = [dmiCall EXCEPT ![c] = new]
    BY <1>6, CallFacts
  <2>2. call.kind = "scan" => call.assets[f] = NoFile
    BY <1>6
  <2> HIDE DEF less, call
  <2>3. /\ new.step = "queued" /\ new.file = f /\ new.kind = call.kind
        /\ new.assets = call.assets /\ new.used = call.used
    BY <1>3 DEF CallRecord
  <2> HIDE DEF new
  <2>4. Settled(new)
    BY <1>1, <2>2, <2>3, PaidSame DEF Settled, Anew, Loading
  <2> QED
    BY <1>1, <2>1, <2>3, <2>4, ChargeMoves
<1> QED
  BY <1>2, <1>4, <1>5, <1>6

LEMMA ChargeAdmitted ==
  ASSUME DmiInv, ChargeInv, NEW c \in IconCall, Admitted(c)
  PROVE  ChargeInv'
<1> DEFINE call == dmiCall[c]
           new == [call EXCEPT !.step = "awaiting"]
<1>1. /\ call \in CallRecord /\ call.step = "queued" /\ Settled(call)
      /\ dmiCall' = [dmiCall EXCEPT ![c] = new]
      /\ dmiJob' = [dmiJob EXCEPT ![c].stage = "reading"]
  BY CallFacts DEF Admitted, ChargeInv
<1> HIDE DEF call
<1>2. /\ new.step = "awaiting" /\ new.file = call.file /\ new.kind = call.kind
      /\ new.assets = call.assets /\ new.used = call.used
  BY <1>1 DEF CallRecord
<1> HIDE DEF new
<1>3. Settled(new)
  BY <1>1, <1>2, PaidSame DEF Settled, Anew, Loading
<1>4. JobIs(c, "reading")' /\ \A d \in IconCall \ {c} : dmiJob'[d] = dmiJob[d]
  BY <1>1, CallFacts DEF JobIs, JobRecord
<1> QED
  BY <1>1, <1>3, <1>4, ChargeMoves

LEMMA ChargeAccepted ==
  ASSUME DmiInv, ChargeInv, NEW c \in IconCall, AssetAccepted(c)
  PROVE  ChargeInv'
<1> DEFINE call == dmiCall[c]
           a == dmiJob[c].input
           g == call.file
           used == Charged(c, a.content)
           assets == [call.assets EXCEPT ![g] = a]
           less == [call EXCEPT !.step = "next", !.file = NoFile]
           new == [less EXCEPT !.used = used, !.assets = assets]
<1>1. /\ call \in CallRecord /\ call.step = "awaiting" /\ g \in DmiFile /\ a \in Asset
      /\ JobIs(c, "loaded") /\ Settled(call) /\ Affords(c)
      /\ dmiJob' = [dmiJob EXCEPT ![c] = [stage |-> "none", input |-> NoFile]]
  BY AwaitedFacts, CallFacts DEF AssetAccepted, ChargeInv
<1>2. dmiCall' = [dmiCall EXCEPT ![c] = new]
  BY DEF AssetAccepted
<1>3. ASSUME call.kind = "scan", NEW r \in Budgeted
      PROVE  /\ used[r] = call.used[r] + Demand[a.content][r] /\ used[r] <= Allowance[r]
             /\ call.assets[g] = NoFile /\ call.used[r] = Taken(call, r)
  BY <1>1, <1>3 DEF Affords, Charged, Scanning, Settled, Anew, Paid, Loading
<1>4. used \in [Budgeted -> Int]
  <2>1. a.content \in DmiContent /\ call.used \in [Budgeted -> Int]
    BY <1>1 DEF Asset, CallRecord
  <2>2. \A r \in Budgeted : Demand[a.content][r] \in Nat
    BY <2>1, DmiConstants DEF Budgeted, Resource
  <2> QED
    BY <2>1, <2>2 DEF Charged
<1> HIDE DEF call, used, a, g
<1>5. assets \in [DmiFile -> Asset \cup {NoFile}]
  BY <1>1 DEF CallRecord
<1>6. less \in CallRecord /\ less.step = "next" /\ less.kind = call.kind
  BY <1>1 DEF CallRecord
<1> HIDE DEF less
<1>7. /\ new \in CallRecord /\ new.step = "next" /\ new.kind = call.kind
      /\ new.used = used /\ new.assets = assets
  BY <1>4, <1>5, <1>6 DEF CallRecord
<1> HIDE DEF new
<1>8. ASSUME new.kind = "scan", NEW r \in Budgeted
      PROVE  Taken(new, r) = used[r] /\ Taken(new, r) <= Allowance[r]
  <2>1. call.assets[g] = NoFile
    BY <1>3, <1>7, <1>8
  <2>2. Taken(new, r) = Taken(call, r) + Demand[a.content][r]
    BY <1>1, <1>7, <2>1, TakenMore
  <2> QED
    BY <1>3, <1>7, <1>8, <2>2
<1>9. Settled(new)
  BY <1>7, <1>8 DEF Settled, Paid, Anew, Loading
<1>10. \A d \in IconCall \ {c} : dmiJob'[d] = dmiJob[d]
  BY <1>1, CallFacts
<1>11. new.step # "awaiting"
  BY <1>7
<1> QED
  BY <1>2, <1>9, <1>10, <1>11, ChargeMoves

LEMMA ChargeRefused ==
  ASSUME DmiInv, ChargeInv, NEW c \in IconCall, LoadRefused(c) \/ LoadErred(c)
  PROVE  ChargeInv'
<1> DEFINE call == dmiCall[c]
           new == [call EXCEPT !.step = "next", !.file = NoFile, !.partial = TRUE]
<1>1. /\ call \in CallRecord /\ call.step = "awaiting" /\ Settled(call)
      /\ \A d \in IconCall \ {c} : dmiJob'[d] = dmiJob[d]
  BY AwaitedFacts, CallFacts DEF LoadRefused, LoadErred, ChargeInv
<1>2. \/ dmiCall' = [dmiCall EXCEPT ![c] = Failed]
      \/ dmiCall' = [dmiCall EXCEPT ![c] = new]
  BY DEF LoadRefused, LoadErred
<1>3. CASE dmiCall' = [dmiCall EXCEPT ![c] = Failed]
  BY <1>1, <1>3, ChargeFails
<1>4. CASE dmiCall' = [dmiCall EXCEPT ![c] = new]
  <2> HIDE DEF call
  <2>1. /\ new.step = "next" /\ new.kind = call.kind
        /\ new.assets = call.assets /\ new.used = call.used
    BY <1>1 DEF CallRecord
  <2> HIDE DEF new
  <2>2. Settled(new)
    BY <1>1, <2>1, PaidSame DEF Settled, Anew, Loading
  <2> QED
    BY <1>1, <1>4, <2>1, <2>2, ChargeMoves
<1> QED
  BY <1>2, <1>3, <1>4

(* A phase of a call is over.                                                 *)
LEMMA ChargeGoesOn ==
  ASSUME DmiInv, ChargeInv, NEW c \in IconCall, dmiCall[c].step = "next", UNCHANGED dmiJob,
         NEW call \in CallRecord, call.assets = dmiCall[c].assets, call.kind = dmiCall[c].kind,
         call.used = dmiCall[c].used, call.step = "next",
         NEW phase, NEW files,
         \/ dmiCall' = [dmiCall EXCEPT ![c] = Answered(call)]
         \/ dmiCall' = [dmiCall EXCEPT ![c] = NextPhase(call, phase, files)]
  PROVE  ChargeInv'
<1> DEFINE answer == Answered(call)
           next == NextPhase(call, phase, files)
<1>1. Settled(dmiCall[c])
  BY DEF ChargeInv
<1>2. answer.step = "answered" /\ answer.kind = call.kind /\ answer.assets = call.assets
  BY DEF Answered, NoCall
<1>3. /\ next.step = "next" /\ next.kind = call.kind /\ next.assets = call.assets
      /\ next.used = call.used
  BY DEF NextPhase, CallRecord
<1>4. dmiCall' = [dmiCall EXCEPT ![c] = answer] \/ dmiCall' = [dmiCall EXCEPT ![c] = next]
  OBVIOUS
<1> HIDE DEF answer, next
<1>5. Settled(answer)
  BY <1>1, <1>2, PaidSame DEF Settled, Anew, Loading
<1>6. Settled(next)
  BY <1>1, <1>3, SettledWorking
<1> QED
  BY <1>2, <1>3, <1>4, <1>5, <1>6, ChargeMoves

LEMMA ChargePhase ==
  ASSUME DmiInv, NEW c \in IconCall, NEW phase, PhaseOver(c, phase)
  PROVE  dmiCall[c] \in CallRecord /\ dmiCall[c].step = "next" /\ UNCHANGED dmiJob
  BY CallFacts DEF PhaseOver

LEMMA ChargePartial ==
  ASSUME NEW c, dmiCall[c] \in CallRecord, dmiCall[c].step = "next", NEW cut \in BOOLEAN,
         NEW call, call = [dmiCall[c] EXCEPT !.partial = @ \/ cut]
  PROVE  /\ call \in CallRecord /\ call.assets = dmiCall[c].assets
         /\ call.kind = dmiCall[c].kind /\ call.used = dmiCall[c].used /\ call.step = "next"
<1> DEFINE old == dmiCall[c]
<1>1. call = [old EXCEPT !.partial = old.partial \/ cut]
  OBVIOUS
<1>2. old \in CallRecord /\ old.step = "next"
  OBVIOUS
<1> HIDE DEF old
<1>3. old.partial \/ cut \in BOOLEAN
  OBVIOUS
<1>4. /\ call \in CallRecord /\ call.assets = old.assets
      /\ call.kind = old.kind /\ call.used = old.used /\ call.step = "next"
  BY <1>1, <1>2, <1>3 DEF CallRecord
<1> QED
  BY <1>4 DEF old

LEMMA ChargeAnswers ==
  ASSUME DmiInv, ChargeInv, NEW c \in IconCall, dmiCall[c] \in CallRecord,
         dmiCall[c].step = "next", UNCHANGED dmiJob,
         dmiCall' = [dmiCall EXCEPT ![c] = Answered(@)]
  PROVE  ChargeInv'
<1>1. dmiCall' = [dmiCall EXCEPT ![c] = Answered(dmiCall[c])]
  OBVIOUS
<1> QED
  BY <1>1, ChargeGoesOn

LEMMA ChargeCompared ==
  ASSUME DmiInv, ChargeInv, NEW c \in IconCall, Compared(c)
  PROVE  ChargeInv'
<1>1. dmiCall[c] \in CallRecord /\ dmiCall[c].step = "next" /\ UNCHANGED dmiJob
  BY ChargePhase DEF Compared
<1>2. PICK cut \in BOOLEAN :
        LET call == [dmiCall[c] EXCEPT !.partial = @ \/ cut] IN
        \/ dmiCall' = [dmiCall EXCEPT ![c] = Answered(call)]
        \/ \E referenced \in SUBSET Present :
             dmiCall' = [dmiCall EXCEPT ![c] = NextPhase(call, "references", referenced)]
  BY DEF Compared
<1> DEFINE call == [dmiCall[c] EXCEPT !.partial = @ \/ cut]
<1>3. /\ call \in CallRecord /\ call.assets = dmiCall[c].assets
      /\ call.kind = dmiCall[c].kind /\ call.used = dmiCall[c].used /\ call.step = "next"
  BY <1>1, ChargePartial
<1> HIDE DEF call
<1>4. CASE dmiCall' = [dmiCall EXCEPT ![c] = Answered(call)]
  BY <1>1, <1>3, <1>4, ChargeGoesOn
<1>5. ASSUME NEW referenced \in SUBSET Present,
             dmiCall' = [dmiCall EXCEPT ![c] = NextPhase(call, "references", referenced)]
      PROVE  ChargeInv'
  BY <1>1, <1>3, <1>5, ChargeGoesOn
<1> QED
  BY <1>2, <1>4, <1>5 DEF call

LEMMA ChargeReferencesChecked ==
  ASSUME DmiInv, ChargeInv, NEW c \in IconCall, ReferencesChecked(c)
  PROVE  ChargeInv'
<1>1. dmiCall[c] \in CallRecord /\ dmiCall[c].step = "next" /\ UNCHANGED dmiJob
  BY ChargePhase DEF ReferencesChecked
<1>2. CASE dmiCall' = [dmiCall EXCEPT ![c] = Answered(@)]
  BY <1>1, <1>2, ChargeAnswers
<1>3. ASSUME NEW found \in Discovered,
             LET call == [dmiCall[c] EXCEPT !.partial = @ \/ Partial(found)] IN
             dmiCall' = [dmiCall EXCEPT ![c] = NextPhase(call, "unused", found)]
      PROVE  ChargeInv'
  <2> DEFINE cut == Partial(found)
             call == [dmiCall[c] EXCEPT !.partial = @ \/ cut]
  <2>1. cut \in BOOLEAN
    BY DEF Partial
  <2>2. dmiCall' = [dmiCall EXCEPT ![c] = NextPhase(call, "unused", found)]
    BY <1>3
  <2> HIDE DEF cut
  <2>3. /\ call \in CallRecord /\ call.assets = dmiCall[c].assets
        /\ call.kind = dmiCall[c].kind /\ call.used = dmiCall[c].used /\ call.step = "next"
    BY <1>1, <2>1, ChargePartial
  <2> HIDE DEF call
  <2> QED
    BY <1>1, <2>2, <2>3, ChargeGoesOn
<1> QED
  BY <1>2, <1>3 DEF ReferencesChecked

LEMMA ChargePhases ==
  ASSUME DmiInv, ChargeInv, NEW c \in IconCall,
         Compared(c) \/ ReferencesChecked(c) \/ UnusedListed(c) \/ Loaded(c)
  PROVE  ChargeInv'
<1>1. CASE UnusedListed(c) \/ Loaded(c)
  <2>1. /\ dmiCall[c] \in CallRecord /\ dmiCall[c].step = "next" /\ UNCHANGED dmiJob
        /\ dmiCall' = [dmiCall EXCEPT ![c] = Answered(@)]
    BY <1>1, ChargePhase DEF UnusedListed, Loaded
  <2> QED
    BY <2>1, ChargeAnswers
<1> QED
  BY <1>1, ChargeCompared, ChargeReferencesChecked

LEMMA ChargeDropped ==
  ASSUME DmiInv, ChargeInv, NEW c \in IconCall, CallDropped(c)
  PROVE  ChargeInv'
<1> DEFINE one == [NoCall EXCEPT !.step = "dropped", !.kind = dmiCall[c].kind]
           new == [one EXCEPT !.file = dmiCall[c].file, !.used = dmiCall[c].used]
<1>1. dmiCall' = [dmiCall EXCEPT ![c] = new] /\ UNCHANGED dmiJob
  BY DEF CallDropped
<1>2. new.step = "dropped" /\ \A f \in DmiFile : new.assets[f] = NoFile
  BY DEF NoCall
<1> HIDE DEF new
<1> QED
  BY <1>1, <1>2, SettledNone, ChargeMoves DEF Loading

LEMMA ChargeJobs ==
  ASSUME DmiInv, ChargeInv, NEW c \in IconCall, JobSteps(c)
  PROVE  ChargeInv'
<1> DEFINE f == dmiCall[c].file
           d == dmiJob[c].input
<1>1. UNCHANGED dmiCall
  BY DEF JobSteps, InputRead, InputGone, CacheHit, CacheMiss
<1>2. ASSUME NEW how \in {"read", "refused", "error"}, NEW input, Ends(c, how, input)
      PROVE  ChargeInv'
  BY <1>1, <1>2, ChargeLoads DEF JobStage
<1>3. CASE InputRead(c) \/ InputGone(c)
  BY <1>2, <1>3 DEF InputRead, InputGone
<1>4. ASSUME NEW input, input.content = d, JobIs(c, "read"), Ends(c, "loaded", input),
             DimensionsFit(c, d), DescriptionFits(c, d), CountsFit(c, d)
      PROVE  ChargeInv'
  <2>1. d \in DmiContent /\ Paid(dmiCall[c])
    BY <1>4, ReadFacts DEF ChargeInv, Settled
  <2>2. Scanning(c) /\ dmiCall[c].step = "awaiting" =>
          \A r \in Budgeted : dmiCall[c].used[r] + Demand[d][r] <= Allowance[r]
    BY <1>4, <2>1, WithinAffords
  <2> QED
    BY <1>1, <1>4, <2>2, ChargeLoads DEF JobStage
<1>5. CASE CacheHit(c)
  <2>1. /\ JobIs(c, "read") /\ dmiCache.entries[f].content = d
        /\ \/ StillFits(c, d) /\ Ends(c, "loaded", dmiCache.entries[f])
           \/ Ends(c, "refused", NoFile)
    BY <1>5 DEF CacheHit, Hit
  <2> QED
    BY <1>2, <1>4, <2>1 DEF StillFits
<1>6. CASE CacheMiss(c)
  <2>1. /\ JobIs(c, "read")
        /\ \/ /\ Decodes(c, d)
              /\ Ends(c, "loaded", [content |-> d, generation |-> dmiCache.generation + 1])
           \/ Ends(c, "refused", NoFile)
    BY <1>6 DEF CacheMiss
  <2> QED
    BY <1>2, <1>4, <2>1 DEF Decodes
<1> QED
  BY <1>3, <1>5, <1>6 DEF JobSteps

LEMMA ChargeStep == DmiInv /\ ChargeInv /\ [DmiNext]_dmiVars => ChargeInv'
<1> SUFFICES ASSUME DmiInv, ChargeInv, [DmiNext]_dmiVars PROVE ChargeInv'
  OBVIOUS
<1>1. CASE UNCHANGED <<dmiCall, dmiJob>>
  BY <1>1 DEF ChargeInv, Affords, JobIs, Scanning
<1>2. ASSUME NEW c \in IconCall, CallSteps(c) PROVE ChargeInv'
  BY <1>2, ChargeLoadBegins, ChargeScanBegins, ChargeAdmitted, ChargeAccepted, ChargeRefused, ChargePhases,
     ChargeDropped, ChargeTakesNext DEF CallSteps
<1>3. ASSUME NEW f \in DmiFile, NEW d \in DmiContent \cup {NoFile}, FileChanges(f, d)
      PROVE  UNCHANGED <<dmiCall, dmiJob>>
  BY <1>3 DEF FileChanges
<1> QED
  BY <1>1, <1>2, <1>3, ChargeJobs DEF DmiNext, dmiVars

LEMMA ChargeBegins == DmiInit => ChargeInv
<1> SUFFICES ASSUME DmiInit, NEW c \in IconCall PROVE Settled(dmiCall[c]) /\ Affords(c)
  BY DEF ChargeInv
<1>1. dmiCall[c] = NoCall /\ NoCall.kind = "none"
  BY DEF DmiInit, NoCall
<1> QED
  BY <1>1 DEF Settled, Paid, Anew, Affords, Scanning

(* What a scan holds is within its allowances, whether a file was decoded for *)
(* it, found in the cache or has been evicted since (AssetScan::load).        *)
THEOREM AllowancesHold == DmiSpec => []AllowancesKept
<1>1. ASSUME ChargeInv PROVE AllowancesKept
  <2> SUFFICES ASSUME NEW c \in IconCall, NEW r \in Budgeted, Scanning(c)
               PROVE  SumFunction([f \in Held(c) |-> Demand[dmiCall[c].assets[f].content][r]])
                        <= Allowance[r]
    BY DEF AllowancesKept
  <2>1. Taken(dmiCall[c], r) <= Allowance[r] /\ Held(c) = HeldBy(dmiCall[c])
    BY <1>1 DEF ChargeInv, Settled, Paid, Scanning, Held, HeldBy
  <2> QED
    BY <2>1 DEF SumFunction, Taken, Takes
<1> QED
  BY <1>1, ChargeBegins, ChargeStep, DmiSafe, PTL DEF DmiSpec

(* All that is claimed of the cache, the jobs and the scans together.         *)
THEOREM AssetsAreAccounted == DmiSpec => []AssetsAccounted
  BY CacheHonest, AllowancesHold, PermitsSuffice, GenerationsUnique, PartialSaysSo, PTL
  DEF AssetsAccounted

-----------------------------------------------------------------------------
(* NativeEvidence: what is read of the artifacts of a run.                    *)

All(A, S) == UNION {A[x] : x \in S}

(* The sizes of sets that share nothing add up to that of their union.        *)
LEMMA SumOfSizes ==
  ASSUME NEW S, IsFiniteSet(S), NEW A, \A x \in S : IsFiniteSet(A[x]),
         \A x, y \in S : x # y => A[x] \cap A[y] = {},
         NEW f, \A x \in S : f[x] = Cardinality(A[x])
  PROVE  /\ IsFiniteSet(All(A, S))
         /\ SumFunctionOnSet(f, S) = Cardinality(All(A, S))
<1> DEFINE all(s) == All(A, s)
           good(s) == IsFiniteSet(all(s)) /\ SumFunctionOnSet(f, s) = Cardinality(all(s))
           B == {s \in SUBSET S : ~good(s)}
<1> SUFFICES ASSUME B # {} PROVE FALSE
  OBVIOUS
<1>1. PICK T \in B : \A U \in SUBSET T : U # T => U \notin B
  <2>1. B \in SUBSET SUBSET S
    OBVIOUS
  <2> HIDE DEF B
  <2> QED
    BY <2>1, Least
<1>2. T # {} /\ IsFiniteSet(T)
  <2>1. all({}) = {}
    BY DEF All
  <2>2. good({})
    BY <2>1, SumEmpty, FS_EmptySet
  <2> QED
    BY <2>2, FS_Subset
<1> DEFINE e == Pick(T)
           U == T \ {e}
<1>3. e \in T /\ e \in S /\ U \in SUBSET S /\ good(U)
  BY <1>1, <1>2, Drawn
<1>4. all(T) = all(U) \cup A[e] /\ all(U) \cap A[e] = {} /\ IsFiniteSet(A[e])
  <2>1. T = U \cup {e} /\ e \notin U
    BY <1>3
  <2> HIDE DEF e, U
  <2>2. all(T) = all(U) \cup A[e]
    BY <2>1 DEF All
  <2>3. \A x \in U : A[x] \cap A[e] = {}
    BY <1>3, <2>1
  <2> QED
    BY <1>3, <2>2, <2>3 DEF All
<1>5. SumFunctionOnSet(f, T) = f[e] + SumFunctionOnSet(f, U)
  BY <1>2, SumDraws
<1>6. f[e] = Cardinality(A[e]) /\ Cardinality(A[e]) \in Nat /\ Cardinality(all(U)) \in Nat
  BY <1>3, <1>4, FS_CardinalityType
<1>7. IsFiniteSet(all(T)) /\ Cardinality(all(T)) = Cardinality(all(U)) + Cardinality(A[e])
  <2> DEFINE u == all(U)
             a == A[e]
  <2>1. IsFiniteSet(u) /\ IsFiniteSet(a) /\ u \cap a = {}
    BY <1>3, <1>4
  <2>2. Cardinality(u) \in Nat /\ Cardinality(a) \in Nat
    BY <1>6
  <2>3. all(T) = u \cup a
    BY <1>4
  <2> HIDE DEF u, a, all, e, U
  <2>4. IsFiniteSet(u \cup a) /\ Cardinality(u \cup a) = Cardinality(u) + Cardinality(a) - Cardinality(u \cap a)
    BY <2>1, FS_Union
  <2>5. Cardinality(u \cap a) = 0
    BY <2>1, FS_EmptySet
  <2> QED
    BY <2>2, <2>3, <2>4, <2>5 DEF u, a
<1>8. good(T)
  <2> HIDE DEF all, e, U
  <2> QED
    BY <1>3, <1>5, <1>6, <1>7
<1> QED
  BY <1>8

(* One more at the end.                                                       *)
IsSeq(s) == s \in Seq(Range(s))

LEMMA SeqFacts ==
  ASSUME NEW s, IsSeq(s) PROVE Len(s) \in Nat /\ DOMAIN s = 1 .. Len(s)
  BY DEF IsSeq

LEMMA OneMore ==
  ASSUME NEW s, IsSeq(s), NEW x
  PROVE  /\ IsSeq(Append(s, x)) /\ Len(Append(s, x)) = Len(s) + 1
         /\ Append(s, x)[Len(s) + 1] = x
         /\ \A i \in DOMAIN s : Append(s, x)[i] = s[i]
         /\ \A i \in DOMAIN Append(s, x) : i = Len(s) + 1 \/ i \in DOMAIN s
<1> DEFINE t == Append(s, x)
           R == Range(s) \cup {x}
<1>1. s \in Seq(R) /\ x \in R
  BY DEF IsSeq
<1>2. t \in Seq(R) /\ Len(t) = Len(s) + 1 /\ DOMAIN t = 1 .. Len(t)
  <2> HIDE DEF R
  <2> QED
    BY <1>1
<1>3. t[Len(s) + 1] = x /\ \A i \in 1 .. Len(s) : t[i] = s[i]
  <2> HIDE DEF R
  <2> QED
    BY <1>1
<1>4. Len(s) \in Nat /\ DOMAIN s = 1 .. Len(s)
  BY SeqFacts
<1> HIDE DEF t
<1>5. \A i \in DOMAIN t : t[i] \in Range(t)
  BY DEF Range
<1>6. t = [i \in 1 .. Len(t) |-> t[i]] /\ Len(t) \in Nat
  BY <1>2, <1>4
<1>7. t \in [1 .. Len(t) -> Range(t)]
  BY <1>2, <1>5, <1>6
<1>8. t \in Seq(Range(t))
  BY <1>6, <1>7
<1> QED
  BY <1>2, <1>3, <1>4, <1>8 DEF t, IsSeq

(* Where a separator stands for the first time an identifier ends.            *)
LEMMA SplitOnce ==
  ASSUME NEW S, Bar \in S, NEW p \in Seq(S), NEW q \in Seq(S), NEW m \in Seq(S), NEW n \in Seq(S),
         Plain(p), Plain(q), p \o <<Bar>> \o m = q \o <<Bar>> \o n
  PROVE  p = q
<1> DEFINE w == p \o <<Bar>> \o m
           v == q \o <<Bar>> \o n
<1>1. w[Len(p) + 1] = Bar /\ (\A k \in 1 .. Len(p) : w[k] = p[k] /\ w[k] # Bar)
  BY DEF Plain
<1>2. v[Len(q) + 1] = Bar /\ (\A k \in 1 .. Len(q) : v[k] = q[k] /\ v[k] # Bar)
  BY DEF Plain
<1>3. w = v
  OBVIOUS
<1>4. Len(p) \in Nat /\ Len(q) \in Nat
  OBVIOUS
<1> HIDE DEF w, v
<1>5. ~(Len(p) < Len(q))
  BY <1>1, <1>2, <1>3, <1>4
<1>6. ~(Len(q) < Len(p))
  BY <1>1, <1>2, <1>3, <1>4
<1>7. Len(p) = Len(q)
  BY <1>4, <1>5, <1>6
<1> QED
  BY <1>1, <1>2, <1>3, <1>7

LEMMA SameRest ==
  ASSUME NEW S, Bar \in S, NEW p \in Seq(S), NEW m \in Seq(S), NEW n \in Seq(S),
         p \o <<Bar>> \o m = p \o <<Bar>> \o n
  PROVE  m = n
<1> DEFINE w == p \o <<Bar>> \o m
           v == p \o <<Bar>> \o n
           z == Len(p) + 1
<1>1. Len(w) = z + Len(m) /\ (\A k \in 1 .. Len(m) : w[z + k] = m[k])
  OBVIOUS
<1>2. Len(v) = z + Len(n) /\ (\A k \in 1 .. Len(n) : v[z + k] = n[k])
  OBVIOUS
<1>3. w = v /\ z \in Nat /\ Len(m) \in Nat /\ Len(n) \in Nat
  OBVIOUS
<1> HIDE DEF w, v, z
<1>4. Len(m) = Len(n)
  BY <1>1, <1>2, <1>3
<1> QED
  BY <1>1, <1>2, <1>3, <1>4

-----------------------------------------------------------------------------
(* Artifacts and phases.                                                      *)
IsRecord(r) ==
  /\ r.wall \in Moment /\ r.world \in Moment
  /\ IsFiniteSet(DOMAIN r.metrics) /\ DOMAIN r.metrics \subseteq Seq(EvPart)

IsParsed(p) ==
  /\ p.kind \in {"byond", "csv", "jsonl"} /\ p.size <= MaxEvFile
  /\ IsFiniteSet(DOMAIN p.records) /\ \A i \in DOMAIN p.records : IsRecord(p.records[i])

IsFile(rows) == rows \in Seq(Range(rows)) /\ \A i \in DOMAIN rows : IsRow(rows[i])

LEMMA SizeType == ASSUME NEW rows, IsFile(rows) PROVE FileSize(rows) \in Nat
<1> DEFINE f == [i \in DOMAIN rows |-> rows[i].bytes]
<1>1. DOMAIN rows = 1 .. Len(rows) /\ Len(rows) \in Nat
  BY DEF IsFile
<1>2. IsFiniteSet(DOMAIN rows)
  BY <1>1, InitialSegment, Zenon
<1>3. \A i \in DOMAIN rows : f[i] \in Nat
  BY DEF IsFile, IsRow
<1>4. DOMAIN f = DOMAIN rows
  OBVIOUS
<1> HIDE DEF f
<1>5. SumFunctionOnSet(f, DOMAIN f) \in Nat
  BY <1>2, <1>3, <1>4, SumNat
<1> QED
  BY <1>5 DEF FileSize, SumFunction, f

LEMMA RecordIs ==
  ASSUME NEW artifact \in ArtifactDescriptor, NEW row, IsRow(row)
  PROVE  IsRecord(ScalarRecord(artifact, row))
<1> DEFINE names == IF artifact.selected = {} THEN DOMAIN row.metrics
                    ELSE artifact.selected \cap DOMAIN row.metrics
           r == ScalarRecord(artifact, row)
<1>1. names \subseteq DOMAIN row.metrics /\ IsFiniteSet(DOMAIN row.metrics)
      /\ DOMAIN row.metrics \subseteq Seq(EvPart)
  BY DEF IsRow
<1>2. IsFiniteSet(names) /\ names \subseteq Seq(EvPart)
  <2> HIDE DEF names
  <2> QED
    BY <1>1, FS_Subset
<1>3. DOMAIN r.metrics = names
  BY DEF ScalarRecord, Restrict
<1>4. r.wall \in Moment /\ r.world \in Moment
  BY DEF ScalarRecord, ClockRead, Moment, IsRow
<1> HIDE DEF r, names
<1>5. IsRecord(r)
  BY <1>2, <1>3, <1>4 DEF IsRecord
<1> QED
  BY <1>5 DEF r

LEMMA ParsedIs ==
  ASSUME NEW artifact \in ArtifactDescriptor, NEW rows, IsFile(rows),
         ~(FileSize(rows) > MaxEvFile)
  PROVE  IsParsed(Parsed(artifact, rows))
<1>1. FileSize(rows) \in Nat /\ MaxEvFile \in Nat
  BY SizeType, EvidenceConstants
<1>2. FileSize(rows) <= MaxEvFile
  BY <1>1
<1>3. IsFiniteSet(Readable(rows)) /\ Readable(rows) \subseteq DOMAIN rows
  <2>1. DOMAIN rows = 1 .. Len(rows) /\ Len(rows) \in Nat
    BY DEF IsFile
  <2>2. IsFiniteSet(DOMAIN rows) /\ Readable(rows) \subseteq DOMAIN rows
    BY <2>1, FS_Interval DEF Readable
  <2> QED
    BY <2>2, FS_Subset
<1>4. \A i \in Readable(rows) : IsRecord(ScalarRecord(artifact, rows[i]))
  BY <1>3, RecordIs DEF IsFile
<1>5. artifact.kind \in {"byond", "csv", "jsonl"}
  BY DEF ArtifactDescriptor
<1> QED
  BY <1>2, <1>3, <1>4, <1>5 DEF IsParsed, Parsed

(* Of phases that were accepted one at most contains a moment.                *)
LEMMA AtMostOne ==
  ASSUME NEW phases \in Seq(PhaseInput), PhasesValid(phases), NEW r, IsRecord(r),
         NEW clock \in {"wall", "world"}
  PROVE  /\ \A i, j \in PhasesAt(r, clock, phases) : i = j
         /\ IsFiniteSet(PhasesAt(r, clock, phases))
         /\ Cardinality(PhasesAt(r, clock, phases)) <= 1
<1> DEFINE at == PhasesAt(r, clock, phases)
<1>1. DOMAIN phases = 1 .. Len(phases) /\ Len(phases) \in Nat /\ at \subseteq DOMAIN phases
  BY DEF PhasesAt
<1>2. ASSUME NEW i \in at, NEW j \in at, i < j
      PROVE  FALSE
  <2> DEFINE a == phases[i][clock]
             b == phases[j][clock]
             v == r[clock]
  <2>1. phases[i] \in PhaseInput /\ phases[j] \in PhaseInput
    BY <1>1
  <2>2. /\ a.start \in Moment /\ a.end \in Moment /\ b.start \in Moment /\ b.end \in Moment
        /\ v \in Moment
    BY <2>1 DEF PhaseInput, IsRecord
  <2>3. Spans(a, v) /\ Spans(b, v)
    BY <1>2 DEF PhasesAt
  <2>4. ~Overlaps(a, b)
    BY <1>1, <1>2 DEF PhasesValid
  <2> HIDE DEF a, b, v
  <2>5. /\ a.start \in Int /\ a.end \in Int /\ b.start \in Int /\ b.end \in Int /\ v \in Int
        /\ a.start <= v /\ v < a.end /\ b.start <= v /\ v < b.end
    BY <2>2, <2>3 DEF Spans, Given, Moment
  <2>6. ~(a.start < b.end /\ b.start < a.end)
    BY <2>3, <2>4 DEF Spans, Overlaps
  <2> QED
    BY <2>5, <2>6
<1>3. \A i, j \in at : i = j
  <2> SUFFICES ASSUME NEW i \in at, NEW j \in at PROVE i = j
    OBVIOUS
  <2>1. i \in Int /\ j \in Int
    BY <1>1
  <2>2. ~(i < j) /\ ~(j < i)
    BY <1>2
  <2> HIDE DEF at
  <2> QED
    BY <2>1, <2>2
<1>4. IsFiniteSet(at)
  <2>1. IsFiniteSet(DOMAIN phases)
    BY <1>1, InitialSegment, Zenon
  <2> QED
    BY <1>1, <2>1, FS_Subset
<1> HIDE DEF at
<1>5. Cardinality(at) <= 1
  <2>1. CASE at = {}
    BY <2>1, FS_EmptySet
  <2>2. CASE at # {}
    <3>1. PICK i : i \in at
      BY <2>2
    <3>2. at = {i}
      BY <1>3, <3>1
    <3>3. Cardinality({i}) = 1
      BY FS_Singleton
    <3> QED
      BY <3>2, <3>3
  <2> QED
    BY <2>1, <2>2
<1> QED
  BY <1>3, <1>4, <1>5 DEF at

(* And one at most is assigned to a record whose clocks agree.                *)
LEMMA OnePhase ==
  ASSUME NEW phases \in Seq(PhaseInput), PhasesValid(phases), NEW r, IsRecord(r),
         ~Ambiguous(r, phases)
  PROVE  \A id, other \in Assigned(r, phases) : id = other
<1> DEFINE wall == PhasesAt(r, "wall", phases)
           world == PhasesAt(r, "world", phases)
<1>1. (\A i, j \in wall : i = j) /\ (\A i, j \in world : i = j)
  BY AtMostOne
<1>2. wall = {} \/ world = {} \/ wall = world
  BY DEF Ambiguous
<1>3. Assigned(r, phases) = {phases[i].id : i \in wall \cup world}
  BY DEF Assigned
<1> HIDE DEF wall, world
<1> QED
  BY <1>1, <1>2, <1>3

LEMMA DistinctPhases ==
  ASSUME NEW phases \in Seq(PhaseInput), PhasesValid(phases),
         NEW i \in DOMAIN phases, NEW j \in DOMAIN phases, phases[i].id = phases[j].id
  PROVE  i = j
<1>1. i \in Int /\ j \in Int
  OBVIOUS
<1>2. ~(i < j) /\ ~(j < i)
  BY DEF PhasesValid
<1> QED
  BY <1>1, <1>2

-----------------------------------------------------------------------------
(* Datasets.                                                                  *)
LEMMA SamplesCounted ==
  ASSUME NEW index, NEW artifact, NEW class, NEW phase, NEW records, NEW rejected, NEW assigned,
         NEW m
  PROVE  SamplesOf(Dataset(index, artifact, class, phase, records, rejected, assigned), m) =
           Cardinality(Samples(records, m))
<1> DEFINE d == Dataset(index, artifact, class, phase, records, rejected, assigned)
<1>1. d.metrics = [k \in MetricsOf(records) |-> NumericSummary(records, k)]
  BY DEF Dataset
<1> HIDE DEF d
<1>2. CASE m \in MetricsOf(records)
  <2>1. d.metrics[m] = NumericSummary(records, m) /\ m \in DOMAIN d.metrics
    BY <1>1, <1>2
  <2> QED
    BY <2>1 DEF SamplesOf, NumericSummary, d
<1>3. CASE m \notin MetricsOf(records)
  <2>1. Samples(records, m) = {}
    BY <1>3 DEF Samples, MetricsOf
  <2>2. m \notin DOMAIN d.metrics
    BY <1>1, <1>3
  <2> QED
    BY <2>1, <2>2, FS_EmptySet DEF SamplesOf, d
<1> QED
  BY <1>2, <1>3

LEMMA OfPhaseIs ==
  ASSUME NEW index, NEW artifact, NEW phases, NEW i
  PROVE  /\ OfPhase(index, artifact, phases, i).accepted = Cardinality(InPhase(artifact, phases, i))
         /\ DOMAIN OfPhase(index, artifact, phases, i).metrics =
              MetricsOf(Restrict(artifact.records, InPhase(artifact, phases, i)))
         /\ \A m : SamplesOf(OfPhase(index, artifact, phases, i), m) =
              Cardinality(InPhase(artifact, phases, i) \cap Samples(artifact.records, m))
<1> DEFINE numbers == InPhase(artifact, phases, i)
           records == Restrict(artifact.records, numbers)
           d == OfPhase(index, artifact, phases, i)
<1>1. d = Dataset(index, artifact, "assigned", phases[i].id, records, 0, Cardinality(numbers))
  BY DEF OfPhase
<1>2. DOMAIN records = numbers /\ \A n \in numbers : records[n] = artifact.records[n]
  BY DEF Restrict
<1>3. \A m : Samples(records, m) = numbers \cap Samples(artifact.records, m)
  <2>1. numbers \subseteq DOMAIN artifact.records
    BY DEF InPhase
  <2> HIDE DEF numbers, records
  <2> QED
    BY <1>2, <2>1 DEF Samples
<1>4. \A m : SamplesOf(d, m) = Cardinality(Samples(records, m))
  <2> HIDE DEF numbers, records, d
  <2> QED
    BY <1>1, SamplesCounted
<1>5. d.accepted = Cardinality(DOMAIN records) /\ DOMAIN d.metrics = MetricsOf(records)
  <2> HIDE DEF numbers, records, d
  <2> QED
    BY <1>1 DEF Dataset
<1> QED
  BY <1>2, <1>3, <1>4, <1>5

LEMMA WholeIs ==
  ASSUME NEW index, NEW artifact, NEW phases, NEW d, d = Whole(index, artifact, phases)
  PROVE  /\ d.artifact = index /\ d.semantics = Semantics(artifact.kind)
         /\ d.classification = Classification(artifact, phases) /\ d.phase = <<"unassigned">>
         /\ d.accepted = Cardinality(DOMAIN artifact.records)
         /\ d.assigned = Cardinality(InSome(artifact, phases))
         /\ d.metrics = [m \in MetricsOf(artifact.records) |-> NumericSummary(artifact.records, m)]
         /\ d.classification # "assigned"
<1>1. Classification(artifact, phases) # "assigned"
  BY DEF Classification
<1>2. /\ d.artifact = index /\ d.semantics = Semantics(artifact.kind)
      /\ d.classification = Classification(artifact, phases) /\ d.phase = <<"unassigned">>
      /\ d.accepted = Cardinality(DOMAIN artifact.records)
      /\ d.assigned = Cardinality(InSome(artifact, phases))
      /\ d.metrics = [m \in MetricsOf(artifact.records) |-> NumericSummary(artifact.records, m)]
  BY DEF Whole, Dataset
<1> QED
  BY <1>1, <1>2
-----------------------------------------------------------------------------
(* The datasets of a run.                                                     *)
LEMMA DatasetsAre ==
  ASSUME NEW parsed, NEW phases, NEW d
  PROVE  d \in DatasetsOf(parsed, phases) <=>
           \E a \in DOMAIN parsed :
             \/ d = Whole(a, parsed[a], phases)
             \/ /\ parsed[a].kind # "byond"
                /\ \E i \in DOMAIN phases :
                     InPhase(parsed[a], phases, i) # {} /\ d = OfPhase(a, parsed[a], phases, i)
  BY DEF DatasetsOf, Datasets

(* What names a dataset.                                                      *)
LEMMA WholeNamed ==
  ASSUME NEW a, NEW p, NEW phases
  PROVE  /\ Whole(a, p, phases).artifact = a
         /\ Whole(a, p, phases).classification # "assigned"
         /\ Whole(a, p, phases).phase = <<"unassigned">>
         /\ Whole(a, p, phases).semantics = Semantics(p.kind)
<1>1. Classification(p, phases) # "assigned"
  BY DEF Classification
<1> QED
  BY <1>1 DEF Whole, Dataset

LEMMA OfPhaseNamed ==
  ASSUME NEW a, NEW p, NEW phases, NEW i
  PROVE  /\ OfPhase(a, p, phases, i).artifact = a
         /\ OfPhase(a, p, phases, i).classification = "assigned"
         /\ OfPhase(a, p, phases, i).phase = phases[i].id
  BY DEF OfPhase, Dataset

IsDataset(d, phases) ==
  /\ DOMAIN d.metrics \subseteq Seq(EvPart)
  /\ IF d.classification = "assigned" THEN \E i \in DOMAIN phases : d.phase = phases[i].id
     ELSE d.phase = <<"unassigned">>

(* The names of metrics are identifiers.                                      *)
LEMMA MetricNames ==
  ASSUME NEW records, NEW numbers \in SUBSET DOMAIN records,
         \A i \in DOMAIN records : IsRecord(records[i])
  PROVE  /\ MetricsOf(records) \subseteq Seq(EvPart)
         /\ MetricsOf(Restrict(records, numbers)) \subseteq Seq(EvPart)
<1>1. \A i \in DOMAIN records : DOMAIN records[i].metrics \subseteq Seq(EvPart)
  BY DEF IsRecord
<1>2. MetricsOf(records) \subseteq Seq(EvPart)
  BY <1>1 DEF MetricsOf
<1> DEFINE part == Restrict(records, numbers)
<1>3. DOMAIN part = numbers /\ \A i \in numbers : part[i] = records[i]
  BY DEF Restrict
<1> HIDE DEF part
<1>4. MetricsOf(part) \subseteq Seq(EvPart)
  BY <1>1, <1>3 DEF MetricsOf
<1> QED
  BY <1>2, <1>4 DEF part

LEMMA DatasetType ==
  ASSUME NEW parsed, NEW phases, \A a \in DOMAIN parsed : IsParsed(parsed[a]),
         NEW d \in DatasetsOf(parsed, phases)
  PROVE  IsDataset(d, phases)
<1>1. PICK a \in DOMAIN parsed :
        \/ d = Whole(a, parsed[a], phases)
        \/ \E i \in DOMAIN phases : d = OfPhase(a, parsed[a], phases, i)
  BY DatasetsAre
<1>2. \A i \in DOMAIN parsed[a].records : IsRecord(parsed[a].records[i])
  BY DEF IsParsed
<1>3. CASE d = Whole(a, parsed[a], phases)
  <2>1. d.metrics = [m \in MetricsOf(parsed[a].records) |-> NumericSummary(parsed[a].records, m)]
        /\ d.classification # "assigned" /\ d.phase = <<"unassigned">>
    BY <1>3, WholeIs
  <2>2. MetricsOf(parsed[a].records) \subseteq Seq(EvPart)
    BY <1>2, MetricNames
  <2> QED
    BY <2>1, <2>2 DEF IsDataset
<1>4. CASE \E i \in DOMAIN phases : d = OfPhase(a, parsed[a], phases, i)
  <2>1. PICK i \in DOMAIN phases : d = OfPhase(a, parsed[a], phases, i)
    BY <1>4
  <2> DEFINE numbers == InPhase(parsed[a], phases, i)
             records == Restrict(parsed[a].records, numbers)
  <2>2. DOMAIN d.metrics = MetricsOf(records)
        /\ d.classification = "assigned" /\ d.phase = phases[i].id
    BY <2>1, OfPhaseIs, OfPhaseNamed
  <2>3. numbers \in SUBSET DOMAIN parsed[a].records
    BY DEF InPhase
  <2>4. MetricsOf(records) \subseteq Seq(EvPart)
    <3> HIDE DEF numbers
    <3> QED
      BY <1>2, <2>3, MetricNames
  <2> HIDE DEF records, numbers
  <2> QED
    BY <2>2, <2>4 DEF IsDataset
<1> QED
  BY <1>1, <1>3, <1>4

(* A dataset is known by its artifact, classification and phase.              *)
LEMMA DatasetNamed ==
  ASSUME NEW parsed, NEW phases \in Seq(PhaseInput), PhasesValid(phases),
         NEW d \in DatasetsOf(parsed, phases), NEW e \in DatasetsOf(parsed, phases),
         d.artifact = e.artifact, d.classification = e.classification, d.phase = e.phase
  PROVE  d = e
<1>1. PICK a \in DOMAIN parsed :
        \/ d = Whole(a, parsed[a], phases)
        \/ \E i \in DOMAIN phases : d = OfPhase(a, parsed[a], phases, i)
  BY DatasetsAre
<1>2. PICK b \in DOMAIN parsed :
        \/ e = Whole(b, parsed[b], phases)
        \/ \E i \in DOMAIN phases : e = OfPhase(b, parsed[b], phases, i)
  BY DatasetsAre
<1>3. d.artifact = a /\ e.artifact = b
  BY <1>1, <1>2, WholeNamed, OfPhaseNamed
<1>4. CASE d = Whole(a, parsed[a], phases)
  <2>1. d.classification # "assigned"
    BY <1>4, WholeNamed
  <2>2. e = Whole(b, parsed[b], phases)
    BY <1>2, <2>1, OfPhaseNamed
  <2> QED
    BY <1>3, <1>4, <2>2
<1>5. CASE \E i \in DOMAIN phases : d = OfPhase(a, parsed[a], phases, i)
  <2>1. PICK i \in DOMAIN phases : d = OfPhase(a, parsed[a], phases, i)
    BY <1>5
  <2>2. d.classification = "assigned" /\ d.phase = phases[i].id
    BY <2>1, OfPhaseNamed
  <2>3. PICK j \in DOMAIN phases : e = OfPhase(b, parsed[b], phases, j)
    <3>1. e.classification = "assigned"
      BY <2>2
    <3>2. Whole(b, parsed[b], phases).classification # "assigned"
      BY WholeNamed
    <3> QED
      BY <1>2, <3>1, <3>2
  <2>4. e.phase = phases[j].id
    BY <2>3, OfPhaseNamed
  <2>5. i = j
    BY <2>2, <2>4, DistinctPhases
  <2> QED
    BY <1>3, <2>1, <2>3, <2>5
<1> QED
  BY <1>1, <1>4, <1>5

(* The parts of an artifact are its busy phases.                              *)
LEMMA PartsAre ==
  ASSUME NEW parsed, NEW phases \in Seq(PhaseInput), NEW a \in DOMAIN parsed,
         NEW whole, whole = Whole(a, parsed[a], phases), NEW d
  PROVE  d \in PartsOf(DatasetsOf(parsed, phases), whole) <=>
           /\ parsed[a].kind # "byond"
           /\ \E i \in DOMAIN phases :
                InPhase(parsed[a], phases, i) # {} /\ d = OfPhase(a, parsed[a], phases, i)
<1>1. whole.artifact = a
  BY WholeNamed
<1>2. ASSUME d \in PartsOf(DatasetsOf(parsed, phases), whole)
      PROVE  /\ parsed[a].kind # "byond"
             /\ \E i \in DOMAIN phases :
                  InPhase(parsed[a], phases, i) # {} /\ d = OfPhase(a, parsed[a], phases, i)
  <2>1. d \in DatasetsOf(parsed, phases) /\ d.artifact = a /\ d.classification = "assigned"
    BY <1>1, <1>2 DEF PartsOf
  <2>2. PICK b \in DOMAIN parsed :
          \/ d = Whole(b, parsed[b], phases)
          \/ /\ parsed[b].kind # "byond"
             /\ \E i \in DOMAIN phases :
                  InPhase(parsed[b], phases, i) # {} /\ d = OfPhase(b, parsed[b], phases, i)
    BY <2>1, DatasetsAre
  <2>3. d # Whole(b, parsed[b], phases)
    BY <2>1, WholeNamed
  <2>4. d.artifact = b
    BY <2>2, <2>3, OfPhaseNamed
  <2> QED
    BY <2>1, <2>2, <2>3, <2>4
<1>3. ASSUME parsed[a].kind # "byond", NEW i \in DOMAIN phases,
             InPhase(parsed[a], phases, i) # {}, d = OfPhase(a, parsed[a], phases, i)
      PROVE  d \in PartsOf(DatasetsOf(parsed, phases), whole)
  <2>1. d \in DatasetsOf(parsed, phases)
    BY <1>3, DatasetsAre
  <2>2. d.artifact = a /\ d.classification = "assigned"
    BY <1>3, OfPhaseNamed
  <2> QED
    BY <1>1, <2>1, <2>2 DEF PartsOf
<1> QED
  BY <1>2, <1>3

(* The datasets of an artifact add up: the records of its phases are sets     *)
(* that share nothing, and so are the samples among them.                     *)
LEMMA AddsUpHere ==
  ASSUME NEW parsed, \A b \in DOMAIN parsed : IsParsed(parsed[b]),
         NEW phases \in Seq(PhaseInput), PhasesValid(phases), ~Conflicting(parsed, phases),
         NEW a \in DOMAIN parsed,
         NEW whole, whole = Whole(a, parsed[a], phases),
         NEW parts, parts = PartsOf(DatasetsOf(parsed, phases), whole),
         parsed[a].kind # "byond"
  PROVE  /\ SumFunctionOnSet([d \in parts |-> d.accepted], parts) = whole.assigned
         /\ \A m \in DOMAIN whole.metrics :
              whole.metrics[m].count - SumFunctionOnSet([d \in parts |-> SamplesOf(d, m)], parts)
                \in 0 .. whole.accepted - whole.assigned
<1> DEFINE records == parsed[a].records
           some == InSome(parsed[a], phases)
           A == [d \in parts |-> {n \in DOMAIN records : d.phase \in Assigned(records[n], phases)}]
           busy == {i \in DOMAIN phases : InPhase(parsed[a], phases, i) # {}}
<1>1. /\ IsFiniteSet(DOMAIN records)
      /\ \A n \in DOMAIN records : \A id, other \in Assigned(records[n], phases) : id = other
  <2>1. \A n \in DOMAIN records : IsRecord(records[n]) /\ ~Ambiguous(records[n], phases)
    BY DEF IsParsed, Conflicting
  <2> QED
    BY <2>1, OnePhase DEF IsParsed
<1>2. \A d \in parts : \E i \in busy : d = OfPhase(a, parsed[a], phases, i)
  BY PartsAre
<1>3. \A i \in busy : OfPhase(a, parsed[a], phases, i) \in parts
  BY PartsAre
<1>4. IsFiniteSet(parts)
  <2> DEFINE h == [i \in busy |-> OfPhase(a, parsed[a], phases, i)]
  <2>1. IsFiniteSet(busy)
    <3>1. DOMAIN phases = 1 .. Len(phases) /\ Len(phases) \in Nat
      OBVIOUS
    <3>2. IsFiniteSet(DOMAIN phases)
      BY <3>1, InitialSegment, Zenon
    <3> QED
      BY <3>2, FS_Subset
  <2> HIDE DEF busy
  <2>2. h \in Surjection(busy, parts)
    BY <1>2, <1>3 DEF Surjection
  <2> QED
    BY <2>1, <2>2, FS_Surjection
<1>5. \A d \in parts : \E i \in busy : d.phase = phases[i].id /\ A[d] = InPhase(parsed[a], phases, i)
                                       /\ d = OfPhase(a, parsed[a], phases, i)
  <2> SUFFICES ASSUME NEW d \in parts
               PROVE  \E i \in busy : d.phase = phases[i].id /\ A[d] = InPhase(parsed[a], phases, i)
                                      /\ d = OfPhase(a, parsed[a], phases, i)
    OBVIOUS
  <2>1. PICK i \in busy : d = OfPhase(a, parsed[a], phases, i)
    BY <1>2
  <2>2. d.phase = phases[i].id
    BY <2>1, OfPhaseNamed
  <2>3. A[d] = InPhase(parsed[a], phases, i)
    BY <2>2 DEF InPhase
  <2> QED
    BY <2>1, <2>2, <2>3
<1>6. \A d \in parts : A[d] \subseteq DOMAIN records
  OBVIOUS
<1>7. \A d, e \in parts : d # e => A[d] \cap A[e] = {}
  <2> SUFFICES ASSUME NEW d \in parts, NEW e \in parts, NEW n \in A[d], n \in A[e]
               PROVE  d = e
    OBVIOUS
  <2>1. d.phase = e.phase
    BY <1>1
  <2>2. PICK i \in busy : d.phase = phases[i].id /\ d = OfPhase(a, parsed[a], phases, i)
    BY <1>5
  <2>3. PICK j \in busy : e.phase = phases[j].id /\ e = OfPhase(a, parsed[a], phases, j)
    BY <1>5
  <2>4. i = j
    BY <2>1, <2>2, <2>3, DistinctPhases
  <2> QED
    BY <2>2, <2>3, <2>4
<1>8. All(A, parts) = some
  <2>1. ASSUME NEW d \in parts, NEW n \in A[d] PROVE n \in some
    BY DEF InSome
  <2>2. ASSUME NEW n \in some PROVE \E d \in parts : n \in A[d]
    <3>1. n \in DOMAIN records /\ Assigned(records[n], phases) # {}
      BY DEF InSome
    <3>2. PICK i \in DOMAIN phases : phases[i].id \in Assigned(records[n], phases)
      BY <3>1 DEF Assigned, PhasesAt
    <3>3. i \in busy
      BY <3>1, <3>2 DEF InPhase
    <3>4. OfPhase(a, parsed[a], phases, i) \in parts
      BY <1>3, <3>3
    <3>5. OfPhase(a, parsed[a], phases, i).phase = phases[i].id
      BY OfPhaseNamed
    <3>6. n \in A[OfPhase(a, parsed[a], phases, i)]
      BY <3>1, <3>2, <3>4, <3>5
    <3> QED
      BY <3>4, <3>6
  <2> HIDE DEF A, some
  <2> QED
    BY <2>1, <2>2 DEF All
<1>9. /\ \A d \in parts : d.accepted = Cardinality(A[d])
      /\ \A d \in parts : \A m : SamplesOf(d, m) = Cardinality(A[d] \cap Samples(records, m))
  <2> SUFFICES ASSUME NEW d \in parts
               PROVE  /\ d.accepted = Cardinality(A[d])
                      /\ \A m : SamplesOf(d, m) = Cardinality(A[d] \cap Samples(records, m))
    OBVIOUS
  <2>1. PICK i \in busy : A[d] = InPhase(parsed[a], phases, i) /\ d = OfPhase(a, parsed[a], phases, i)
    BY <1>5
  <2> HIDE DEF A
  <2>2. /\ d.accepted = Cardinality(InPhase(parsed[a], phases, i))
        /\ \A m : SamplesOf(d, m) = Cardinality(InPhase(parsed[a], phases, i) \cap Samples(records, m))
    BY <2>1, OfPhaseIs
  <2> QED
    BY <2>1, <2>2
<1>10. /\ whole.accepted = Cardinality(DOMAIN records) /\ whole.assigned = Cardinality(some)
       /\ \A m \in DOMAIN whole.metrics : whole.metrics[m].count = Cardinality(Samples(records, m))
  <2>1. /\ whole.accepted = Cardinality(DOMAIN records) /\ whole.assigned = Cardinality(some)
        /\ whole.metrics = [m \in MetricsOf(records) |-> NumericSummary(records, m)]
    BY WholeIs
  <2> QED
    BY <2>1 DEF NumericSummary
<1>11. some \subseteq DOMAIN records
  BY DEF InSome
<1> HIDE DEF A, some, busy
<1>12. SumFunctionOnSet([d \in parts |-> d.accepted], parts) = Cardinality(some)
  <2> DEFINE f == [d \in parts |-> d.accepted]
  <2>1. \A d \in parts : IsFiniteSet(A[d]) /\ f[d] = Cardinality(A[d])
    BY <1>1, <1>6, <1>9, FS_Subset
  <2> HIDE DEF f
  <2>2. SumFunctionOnSet(f, parts) = Cardinality(All(A, parts))
    BY <1>4, <1>7, <2>1, SumOfSizes
  <2> QED
    BY <1>8, <2>2 DEF f
<1>13. ASSUME NEW m \in DOMAIN whole.metrics
       PROVE  whole.metrics[m].count - SumFunctionOnSet([d \in parts |-> SamplesOf(d, m)], parts)
                \in 0 .. whole.accepted - whole.assigned
  <2> DEFINE samples == Samples(records, m)
             C == [d \in parts |-> A[d] \cap samples]
             f == [d \in parts |-> SamplesOf(d, m)]
  <2>1. samples \subseteq DOMAIN records
    BY DEF Samples
  <2>2. \A d \in parts : IsFiniteSet(C[d]) /\ f[d] = Cardinality(C[d])
    <3> HIDE DEF samples
    <3>1. \A d \in parts : C[d] \subseteq DOMAIN records /\ C[d] = A[d] \cap samples /\ f[d] = SamplesOf(d, m)
      BY <2>1
    <3> HIDE DEF C, f
    <3> QED
      BY <1>1, <1>9, <3>1, FS_Subset DEF samples
  <2>3. \A d, e \in parts : d # e => C[d] \cap C[e] = {}
    BY <1>7
  <2>4. All(C, parts) = some \cap samples
    BY <1>8 DEF All
  <2> HIDE DEF C, f
  <2>5. SumFunctionOnSet(f, parts) = Cardinality(some \cap samples)
    <3>1. SumFunctionOnSet(f, parts) = Cardinality(All(C, parts))
      BY <1>4, <2>2, <2>3, SumOfSizes
    <3> QED
      BY <2>4, <3>1
  <2> HIDE DEF samples
  <2>6. /\ IsFiniteSet(samples) /\ Cardinality(samples \ some) = Cardinality(samples) - Cardinality(samples \cap some)
        /\ Cardinality(DOMAIN records \ some) = Cardinality(DOMAIN records) - Cardinality(DOMAIN records \cap some)
        /\ IsFiniteSet(DOMAIN records \ some) /\ IsFiniteSet(some)
    BY <1>1, <1>11, <2>1, FS_Subset, FS_Difference
  <2>7. samples \cap some = some \cap samples /\ DOMAIN records \cap some = some
    BY <1>11
  <2>8. IsFiniteSet(samples \ some) /\ Cardinality(samples \ some) <= Cardinality(DOMAIN records \ some)
    <3>1. samples \ some \in SUBSET (DOMAIN records \ some)
      BY <2>1
    <3> QED
      BY <2>6, <3>1, FS_Subset
  <2>9. /\ Cardinality(samples \ some) \in Nat /\ Cardinality(DOMAIN records \ some) \in Nat
        /\ Cardinality(samples) \in Nat /\ Cardinality(some \cap samples) \in Nat
        /\ Cardinality(some) \in Nat /\ Cardinality(DOMAIN records) \in Nat
    <3>1. IsFiniteSet(some \cap samples)
      BY <2>6, FS_Intersection
    <3> QED
      BY <1>1, <2>6, <2>8, <3>1, FS_CardinalityType
  <2>10. /\ whole.metrics[m].count = Cardinality(samples)
         /\ whole.accepted = Cardinality(DOMAIN records) /\ whole.assigned = Cardinality(some)
    BY <1>10 DEF samples
  <2>11. /\ Cardinality(samples) - Cardinality(some \cap samples) = Cardinality(samples \ some)
         /\ Cardinality(DOMAIN records) - Cardinality(some) = Cardinality(DOMAIN records \ some)
    BY <2>6, <2>7
  <2> DEFINE n == Cardinality(samples \ some)
  <2>12. n \in 0 .. Cardinality(DOMAIN records \ some)
    <3> HIDE DEF n
    <3>1. n \in Nat /\ n <= Cardinality(DOMAIN records \ some)
      BY <2>8, <2>9 DEF n
    <3> QED
      BY <2>9, <3>1
  <2>13. whole.metrics[m].count - SumFunctionOnSet(f, parts) \in 0 .. whole.accepted - whole.assigned
    BY <2>5, <2>10, <2>11, <2>12
  <2> QED
    BY <2>13 DEF f
<1> QED
  BY <1>10, <1>12, <1>13

LEMMA RunAddsUp ==
  ASSUME NEW parsed, \A b \in DOMAIN parsed : IsParsed(parsed[b]),
         NEW phases \in Seq(PhaseInput), PhasesValid(phases), ~Conflicting(parsed, phases),
         NEW whole \in DatasetsOf(parsed, phases), whole.classification # "assigned"
  PROVE  AddsUp(DatasetsOf(parsed, phases), whole)
<1>1. PICK a \in DOMAIN parsed :
        \/ whole = Whole(a, parsed[a], phases)
        \/ \E i \in DOMAIN phases : whole = OfPhase(a, parsed[a], phases, i)
  BY DatasetsAre
<1>2. whole = Whole(a, parsed[a], phases)
  BY <1>1, OfPhaseNamed
<1>3. whole.semantics = Semantics(parsed[a].kind) /\ parsed[a].kind \in {"byond", "csv", "jsonl"}
  BY <1>2, WholeNamed DEF IsParsed
<1> DEFINE parts == PartsOf(DatasetsOf(parsed, phases), whole)
<1>4. CASE parsed[a].kind = "byond"
  <2>1. whole.semantics = "cumulative_snapshot"
    BY <1>3, <1>4 DEF Semantics
  <2>2. parts = {}
    BY <1>2, <1>4, PartsAre
  <2> QED
    BY <2>1, <2>2 DEF AddsUp
<1>5. CASE parsed[a].kind # "byond"
  <2>1. whole.semantics # "cumulative_snapshot"
    BY <1>3, <1>5 DEF Semantics
  <2>2. parts = PartsOf(DatasetsOf(parsed, phases), whole)
    OBVIOUS
  <2> HIDE DEF parts
  <2>3. /\ SumFunctionOnSet([d \in parts |-> d.accepted], parts) = whole.assigned
        /\ \A m \in DOMAIN whole.metrics :
              whole.metrics[m].count - SumFunctionOnSet([d \in parts |-> SamplesOf(d, m)], parts)
                \in 0 .. whole.accepted - whole.assigned
    BY <1>2, <1>5, <2>2, AddsUpHere
  <2>4. /\ SumFunction([d \in parts |-> d.accepted]) = SumFunctionOnSet([d \in parts |-> d.accepted], parts)
        /\ \A m : SumFunction([d \in parts |-> SamplesOf(d, m)]) =
                    SumFunctionOnSet([d \in parts |-> SamplesOf(d, m)], parts)
    BY DEF SumFunction
  <2> QED
    BY <2>1, <2>2, <2>3, <2>4 DEF AddsUp
<1> QED
  BY <1>4, <1>5

-----------------------------------------------------------------------------
(* A comparison.                                                              *)
IsRun(run) ==
  /\ run.phases \in Seq(PhaseInput)
  /\ \A d \in run.datasets : IsDataset(d, run.phases)
  /\ \A d, e \in run.datasets :
       /\ d.artifact = e.artifact /\ d.classification = e.classification /\ d.phase = e.phase
       => d = e
  /\ \A whole \in run.datasets : whole.classification # "assigned" => AddsUp(run.datasets, whole)

LEMMA MeasuredIs ==
  ASSUME NEW runs, NEW at \in Measured(runs)
  PROVE  /\ at[1] \in DOMAIN runs /\ at[2] \in runs[at[1]].datasets /\ at[3] \in DOMAIN at[2].metrics
         /\ at = <<at[1], at[2], at[3]>>
<1>1. PICK i \in DOMAIN runs : \E d \in runs[i].datasets : \E m \in DOMAIN d.metrics : at = <<i, d, m>>
  BY DEF Measured
<1>2. PICK d \in runs[i].datasets : \E m \in DOMAIN d.metrics : at = <<i, d, m>>
  BY <1>1
<1>3. PICK m \in DOMAIN d.metrics : at = <<i, d, m>>
  BY <1>2
<1> QED
  BY <1>3

(* What stands in a key: with no separator in the names of phases, all of it. *)
LEMMA KeyTells ==
  ASSUME NEW runs, \A i \in DOMAIN runs : IsRun(runs[i]) /\ runs[i].phases = runs[1].phases,
         \A i \in DOMAIN runs[1].phases : Plain(runs[1].phases[i].id),
         NEW at \in Measured(runs), NEW other \in Measured(runs), Key(at) = Key(other)
  PROVE  /\ at[3] = other[3] /\ at[2].phase = other[2].phase
         /\ at[2].artifact = other[2].artifact /\ at[2].semantics = other[2].semantics
         /\ at[2].classification = other[2].classification
         /\ at[1] = other[1] => at = other
<1> DEFINE d == at[2]
           e == other[2]
           phases == runs[1].phases
           S == EvPart \cup {Bar, "unassigned"}
<1>1. /\ at[1] \in DOMAIN runs /\ d \in runs[at[1]].datasets /\ at[3] \in DOMAIN d.metrics
      /\ at = <<at[1], d, at[3]>>
      /\ other[1] \in DOMAIN runs /\ e \in runs[other[1]].datasets /\ other[3] \in DOMAIN e.metrics
      /\ other = <<other[1], e, other[3]>>
  BY MeasuredIs
<1>2. /\ d.artifact = e.artifact /\ d.semantics = e.semantics /\ d.classification = e.classification
      /\ d.phase \o <<Bar>> \o at[3] = e.phase \o <<Bar>> \o other[3]
  BY DEF Key
<1>3. IsDataset(d, phases) /\ IsDataset(e, phases)
  BY <1>1 DEF IsRun
<1>4. phases \in Seq(PhaseInput)
  BY <1>1 DEF IsRun
<1> HIDE DEF d, e, phases
<1>5. at[3] \in Seq(EvPart) /\ other[3] \in Seq(EvPart)
  BY <1>1, <1>3 DEF IsDataset
<1>6. at[3] \in Seq(S) /\ other[3] \in Seq(S) /\ Bar \in S
  <2>1. Seq(EvPart) \subseteq Seq(S) /\ Bar \in S
    OBVIOUS
  <2> QED
    BY <1>5, <2>1
<1>7. d.phase = e.phase /\ d.phase \in Seq(S)
  <2>1. CASE d.classification = "assigned"
    <3>1. PICK i \in DOMAIN phases : d.phase = phases[i].id
      BY <1>3, <2>1 DEF IsDataset
    <3>2. PICK j \in DOMAIN phases : e.phase = phases[j].id
      BY <1>2, <1>3, <2>1 DEF IsDataset
    <3>3. phases[i].id \in Seq(EvPart) /\ phases[j].id \in Seq(EvPart)
      <4>1. phases[i] \in PhaseInput /\ phases[j] \in PhaseInput
        BY <1>4
      <4> QED
        BY <4>1 DEF PhaseInput
    <3>4. d.phase \in Seq(S) /\ e.phase \in Seq(S)
      <4>1. Seq(EvPart) \subseteq Seq(S)
        OBVIOUS
      <4> QED
        BY <3>1, <3>2, <3>3, <4>1
    <3>5. Plain(d.phase) /\ Plain(e.phase)
      BY <3>1, <3>2 DEF phases
    <3> HIDE DEF S
    <3>6. d.phase = e.phase
      BY <1>2, <1>6, <3>4, <3>5, SplitOnce
    <3> QED
      BY <3>4, <3>6
  <2>2. CASE d.classification # "assigned"
    <3>1. d.phase = <<"unassigned">> /\ e.phase = <<"unassigned">>
      BY <1>2, <1>3, <2>2 DEF IsDataset
    <3>2. <<"unassigned">> \in Seq(S)
      OBVIOUS
    <3> QED
      BY <3>1, <3>2
  <2> QED
    BY <2>1, <2>2
<1> HIDE DEF S
<1>8. at[3] = other[3]
  BY <1>2, <1>6, <1>7, SameRest
<1>9. ASSUME at[1] = other[1] PROVE at = other
  <2>1. d = e
    BY <1>1, <1>2, <1>7, <1>9 DEF IsRun
  <2> QED
    BY <1>1, <1>8, <1>9, <2>1
<1> QED
  BY <1>2, <1>7, <1>8, <1>9 DEF d, e

(* As many entries as runs, no two of one run: one of every run.              *)
LEMMA OneOfEach ==
  ASSUME NEW n \in Nat, NEW D, NEW h \in [D -> 1 .. n],
         \A x, y \in D : h[x] = h[y] => x = y, Cardinality(D) = n
  PROVE  \A i \in 1 .. n : \E x \in D : h[x] = i
<1>1. h \in Injection(D, 1 .. n)
  BY DEF Injection, IsInjective
<1>2. IsFiniteSet(1 .. n) /\ Cardinality(1 .. n) = n
  BY FS_Interval
<1>3. Cardinality(D) = Cardinality(1 .. n)
  BY <1>2
<1>4. h \in Surjection(D, 1 .. n)
  BY <1>1, <1>2, <1>3, FS_Injection
<1> QED
  BY <1>4 DEF Surjection

Together(runs, D) ==
  /\ \A i \in DOMAIN runs : \E at \in D : at[1] = i
  /\ \A at, other \in D :
       /\ at[1] = other[1] => at = other
       /\ at[3] = other[3] /\ at[2].phase = other[2].phase
       /\ at[2].artifact = other[2].artifact /\ at[2].semantics = other[2].semantics
       /\ at[2].classification = other[2].classification

LEMMA SeriesTogether ==
  ASSUME NEW runs, IsSeq(runs),
         \A i \in DOMAIN runs : IsRun(runs[i]) /\ runs[i].phases = runs[1].phases,
         \A i \in DOMAIN runs[1].phases : Plain(runs[1].phases[i].id),
         NEW k, Cardinality(DOMAIN Series(runs, k)) = Len(runs)
  PROVE  Together(runs, DOMAIN Series(runs, k))
<1> DEFINE D == DOMAIN Series(runs, k)
           h == [at \in D |-> at[1]]
<1>1. D = {x \in Measured(runs) : Key(x) = k}
  BY DEF Series
<1>2. DOMAIN runs = 1 .. Len(runs) /\ Len(runs) \in Nat
  BY SeqFacts
<1>3. \A at \in D : at \in Measured(runs) /\ Key(at) = k /\ at[1] \in DOMAIN runs
  BY <1>1, MeasuredIs
<1> HIDE DEF D
<1>4. \A at, other \in D :
       /\ at[1] = other[1] => at = other
       /\ at[3] = other[3] /\ at[2].phase = other[2].phase
       /\ at[2].artifact = other[2].artifact /\ at[2].semantics = other[2].semantics
       /\ at[2].classification = other[2].classification
  <2> SUFFICES ASSUME NEW at \in D, NEW other \in D
               PROVE  /\ at[1] = other[1] => at = other
                      /\ at[3] = other[3] /\ at[2].phase = other[2].phase
                      /\ at[2].artifact = other[2].artifact /\ at[2].semantics = other[2].semantics
                      /\ at[2].classification = other[2].classification
    OBVIOUS
  <2>1. at \in Measured(runs) /\ other \in Measured(runs) /\ Key(at) = Key(other)
    BY <1>3
  <2> QED
    BY <2>1, KeyTells
<1>5. h \in [D -> 1 .. Len(runs)] /\ \A x, y \in D : h[x] = h[y] => x = y
  BY <1>2, <1>3, <1>4
<1>6. Cardinality(D) = Len(runs)
  BY DEF D
<1>7. \A i \in 1 .. Len(runs) : \E x \in D : h[x] = i
  <2> HIDE DEF h
  <2> QED
    BY <1>2, <1>5, <1>6, OneOfEach
<1>8. Together(runs, D)
  BY <1>2, <1>4, <1>7 DEF Together
<1> QED
  BY <1>8 DEF D

-----------------------------------------------------------------------------
(* A call that reads evidence: what it has, where it is, and the order of     *)
(* the hashes and the records of builds it has read.                          *)
Asking == {"sizing", "reading", "hashing", "deciding", "summarising"}

EvSteps == Asking \cup {"idle", "validating", "comparing", "answered", "failed"}

CallFields == {"step", "call", "total", "parsed", "hash", "record", "runs", "result"}

Request(c) == c.call.runs[Len(c.runs) + 1]

Has(c) ==
  /\ DOMAIN c = CallFields /\ c.step \in EvSteps
  /\ IsSeq(c.parsed) /\ \A a \in DOMAIN c.parsed : IsParsed(c.parsed[a])
  /\ IsSeq(c.runs) /\ \A i \in DOMAIN c.runs : IsRun(c.runs[i])

Here(c) ==
  /\ c.step = "idle" => c.runs = <<>>
  /\ c.step \in Asking \cup {"validating"} => c.call \in EvCalls /\ Len(c.runs) < Len(c.call.runs)
  /\ c.step \in Asking => RequestValid(Request(c))
  /\ c.step \in {"sizing", "reading"} => Len(c.parsed) < Len(Request(c).artifacts)
  /\ c.step = "comparing" => c.call.compares /\ Len(c.runs) = Len(c.call.runs)
  /\ c.step \notin {"idle", "failed"} /\ c.call.compares => Len(c.call.runs) >= 2

Ordered(c, hash) ==
  /\ \A i \in DOMAIN c.runs :
       /\ c.runs[i].hash \in Nat /\ c.runs[i].record \in Nat
       /\ c.runs[i].record # 0 => c.runs[i].hash <= c.runs[i].record /\ c.runs[i].record <= hash
  /\ \A i, j \in DOMAIN c.runs :
       i < j /\ c.runs[i].record # 0 /\ c.runs[j].record # 0 => c.runs[i].record <= c.runs[j].hash
  /\ c.hash \in Nat /\ c.record \in Nat
  /\ c.step \in {"sizing", "reading", "hashing", "deciding"} => c.record = 0
  /\ c.step = "deciding" => c.hash <= hash
  /\ c.step = "summarising" /\ c.record # 0 => c.hash <= c.record /\ c.record <= hash
  /\ c.step = "deciding" \/ (c.step = "summarising" /\ c.record # 0) =>
       \A i \in DOMAIN c.runs : c.runs[i].record # 0 => c.runs[i].record <= c.hash

Sources ==
  /\ DOMAIN evFiles = EvPath /\ \A p \in EvPath : evFiles[p] \in EvContents[p]
  /\ evBuild.hash \in Nat \ {0} /\ evBuild.record \in {0, evBuild.hash}
  /\ DOMAIN evBuild = {"hash", "changes", "record"}

EvInv == Sources /\ Has(evCall) /\ Here(evCall) /\ Ordered(evCall, evBuild.hash) /\ ComparedAlike

LEMMA RequestIs ==
  ASSUME NEW c, Here(c), Has(c), c.step \in Asking \cup {"validating"}
  PROVE  /\ Request(c) \in EvRequest /\ Request(c).phases \in Seq(PhaseInput)
         /\ Request(c).artifacts \in Seq(ArtifactDescriptor)
<1>1. c.call \in EvCalls /\ Len(c.runs) < Len(c.call.runs)
  BY DEF Here
<1>2. c.call.runs \in Seq(EvRequest)
  BY <1>1, EvidenceConstants
<1>3. Len(c.runs) \in Nat
  BY SeqFacts DEF Has
<1>4. Request(c) \in EvRequest
  BY <1>1, <1>2, <1>3 DEF Request
<1> QED
  BY <1>4 DEF EvRequest

LEMMA NextIs ==
  ASSUME Sources, Has(evCall), Here(evCall), evCall.step \in {"sizing", "reading"}
  PROVE  /\ NextArtifact \in ArtifactDescriptor /\ NextArtifact.path \in EvPath
         /\ IsFile(evFiles[NextArtifact.path])
<1>1. Request(evCall).artifacts \in Seq(ArtifactDescriptor)
  BY RequestIs DEF Asking
<1>2. Len(evCall.parsed) < Len(Request(evCall).artifacts)
  BY DEF Here
<1>3. Len(evCall.parsed) \in Nat
  BY SeqFacts DEF Has
<1>4. NextArtifact \in ArtifactDescriptor
  BY <1>1, <1>2, <1>3 DEF NextArtifact, RunRequest, Request
<1>5. NextArtifact.path \in EvPath
  BY <1>4 DEF ArtifactDescriptor
<1>6. evFiles[NextArtifact.path] \in EvContents[NextArtifact.path]
  BY <1>5 DEF Sources
<1>7. IsFile(evFiles[NextArtifact.path])
  BY <1>5, <1>6, EvidenceConstants DEF IsFile
<1> QED
  BY <1>4, <1>5, <1>7

(* A refusal keeps what the call has.                                         *)
LEMMA StepRefuses ==
  ASSUME EvInv, Refuses, UNCHANGED <<evFiles, evBuild>>
  PROVE  EvInv'
<1>1. /\ evCall'.step = "failed" /\ DOMAIN evCall' = CallFields
      /\ evCall'.parsed = evCall.parsed /\ evCall'.runs = evCall.runs /\ evCall'.call = evCall.call
      /\ evCall'.hash = evCall.hash /\ evCall'.record = evCall.record
  BY DEF EvInv, Has, Refuses, Goes, CallFields
<1>2. Sources'
  BY DEF EvInv, Sources
<1>3. Has(evCall')
  BY <1>1 DEF EvInv, Has, EvSteps
<1>4. Here(evCall')
  BY <1>1 DEF Here, Asking
<1>5. Ordered(evCall', evBuild'.hash)
  BY <1>1 DEF EvInv, Ordered
<1>6. ComparedAlike'
  BY <1>1 DEF ComparedAlike
<1> QED
  BY <1>2, <1>3, <1>4, <1>5, <1>6 DEF EvInv

LEMMA StepEvBegins ==
  ASSUME EvInv, EvBegins
  PROVE  EvInv'
<1>1. PICK call \in EvCalls :
        evCall' = [evCall EXCEPT
         !.call = call,
         !.step = IF call.compares => Len(call.runs) \in 2 .. MaxEvRuns
                  THEN "validating" ELSE "failed"]
  BY DEF EvBegins
<1>2. /\ evCall'.call = call /\ DOMAIN evCall' = CallFields
      /\ evCall'.parsed = evCall.parsed /\ evCall'.runs = evCall.runs
      /\ evCall'.hash = evCall.hash /\ evCall'.record = evCall.record
      /\ evCall'.step = IF call.compares => Len(call.runs) \in 2 .. MaxEvRuns
                        THEN "validating" ELSE "failed"
  BY <1>1 DEF EvInv, Has, CallFields
<1>3. evCall.step = "idle"
  BY DEF EvBegins
<1>4. /\ evCall.runs = <<>> /\ Len(evCall.runs) = 0
  BY <1>3 DEF EvInv, Here
<1>5. Sources'
  BY DEF EvInv, Sources, EvBegins
<1>6. Has(evCall')
  BY <1>2 DEF EvInv, Has, EvSteps
<1>7. Here(evCall')
  <2>1. CASE evCall'.step = "failed"
    BY <2>1 DEF Here, Asking
  <2>2. CASE evCall'.step = "validating"
    <3>1. call.compares => Len(call.runs) \in 2 .. MaxEvRuns
      BY <1>2, <2>2
    <3>2. ~call.compares => Len(call.runs) = 1
      BY EvidenceConstants
    <3>3. MaxEvRuns \in Nat
      BY EvidenceConstants
    <3>4. 0 < Len(call.runs) /\ (call.compares => Len(call.runs) >= 2)
      BY <3>1, <3>2, <3>3
    <3> QED
      BY <1>2, <1>4, <2>2, <3>4 DEF Here, Asking
  <2> QED
    BY <1>2, <2>1, <2>2
<1>8. Ordered(evCall', evBuild'.hash)
  BY <1>2 DEF EvInv, Ordered, EvBegins
<1>9. ComparedAlike'
  BY <1>2 DEF ComparedAlike
<1> QED
  BY <1>5, <1>6, <1>7, <1>8, <1>9 DEF EvInv

LEMMA StepEvValidated ==
  ASSUME EvInv, EvValidated
  PROVE  EvInv'
<1>1. CASE Refuses
  BY <1>1, StepRefuses DEF EvValidated
<1>2. CASE /\ RequestValid(RunRequest)
           /\ evCall' = [evCall EXCEPT !.step = "sizing", !.total = 0, !.parsed = <<>>,
                                       !.hash = 0, !.record = 0]
  <2>1. /\ evCall'.step = "sizing" /\ DOMAIN evCall' = CallFields /\ evCall'.call = evCall.call
        /\ evCall'.parsed = <<>> /\ evCall'.runs = evCall.runs
        /\ evCall'.hash = 0 /\ evCall'.record = 0
    BY <1>2 DEF EvInv, Has, CallFields
  <2>2. evCall.step = "validating"
    BY DEF EvValidated
  <2>3. Sources'
    BY DEF EvInv, Sources, EvValidated
  <2>4. Has(evCall')
    <3>1. IsSeq(<<>>) /\ DOMAIN <<>> = {}
      BY DEF IsSeq, Range
    <3> QED
      BY <2>1, <3>1 DEF EvInv, Has, EvSteps, Asking
  <2>5. Here(evCall')
    <3>1. Request(evCall') = RunRequest
      BY <2>1 DEF Request, RunRequest
    <3>2. Len(RunRequest.artifacts) \in 1 .. MaxEvArtifacts /\ MaxEvArtifacts \in Nat
      BY <1>2, EvidenceConstants DEF RequestValid
    <3>3. Len(evCall'.parsed) < Len(RunRequest.artifacts)
      BY <2>1, <3>2
    <3> QED
      BY <1>2, <2>1, <2>2, <3>1, <3>3 DEF EvInv, Here, Asking
  <2>6. Ordered(evCall', evBuild'.hash)
    BY <2>1 DEF EvInv, Ordered, EvValidated
  <2>7. ComparedAlike'
    BY <2>1 DEF ComparedAlike
  <2> QED
    BY <2>3, <2>4, <2>5, <2>6, <2>7 DEF EvInv
<1> QED
  BY <1>1, <1>2 DEF EvValidated

(* A step of a request that has the same hash and record after it.            *)
LEMMA StepOnward ==
  ASSUME EvInv, UNCHANGED <<evFiles, evBuild>>,
         DOMAIN evCall' = CallFields, evCall'.step \in Asking, evCall.step \in Asking,
         evCall'.call = evCall.call, evCall'.runs = evCall.runs,
         IsSeq(evCall'.parsed), \A a \in DOMAIN evCall'.parsed : IsParsed(evCall'.parsed[a]),
         evCall'.step \in {"sizing", "reading"} =>
           Len(evCall'.parsed) < Len(RunRequest.artifacts),
         Ordered(evCall', evBuild'.hash)
  PROVE  EvInv'
<1>1. Sources'
  BY DEF EvInv, Sources
<1>2. Has(evCall')
  BY DEF EvInv, Has, EvSteps
<1>3. Here(evCall')
  <2>1. Request(evCall') = RunRequest /\ Request(evCall) = RunRequest
    BY DEF Request, RunRequest
  <2> QED
    BY <2>1 DEF EvInv, Here, Asking
<1>4. ComparedAlike'
  BY DEF ComparedAlike, Asking
<1> QED
  BY <1>1, <1>2, <1>3, <1>4 DEF EvInv

LEMMA StepEvSized ==
  ASSUME EvInv, EvSized
  PROVE  EvInv'
<1>1. CASE Refuses
  BY <1>1, StepRefuses DEF EvSized
<1>2. CASE ~Refuses
  <2>1. /\ evCall.step = "sizing"
        /\ evCall'.step = "reading" /\ DOMAIN evCall' = CallFields /\ evCall'.call = evCall.call
        /\ evCall'.parsed = evCall.parsed /\ evCall'.runs = evCall.runs
        /\ evCall'.hash = evCall.hash /\ evCall'.record = evCall.record
    BY <1>2 DEF EvInv, Has, CallFields, EvSized
  <2>2. Len(evCall.parsed) < Len(RunRequest.artifacts)
    BY <2>1 DEF EvInv, Here, Request, RunRequest
  <2>3. Ordered(evCall', evBuild'.hash)
    BY <2>1 DEF EvInv, Ordered, EvSized
  <2>4. IsSeq(evCall'.parsed) /\ \A a \in DOMAIN evCall'.parsed : IsParsed(evCall'.parsed[a])
    BY <2>1 DEF EvInv, Has
  <2> QED
    BY <2>1, <2>2, <2>3, <2>4, StepOnward DEF EvSized, Asking
<1> QED
  BY <1>1, <1>2

LEMMA StepEvRead ==
  ASSUME EvInv, EvRead
  PROVE  EvInv'
<1> DEFINE rows == evFiles[NextArtifact.path]
           parsed == Append(evCall.parsed, Parsed(NextArtifact, rows))
<1>1. CASE Refuses
  BY <1>1, StepRefuses DEF EvRead
<1>2. CASE ~Refuses
  <2>1. /\ evCall.step = "reading" /\ ~(FileSize(rows) > MaxEvFile)
        /\ evCall'.step = IF Len(parsed) < Len(RunRequest.artifacts) THEN "sizing" ELSE "hashing"
        /\ DOMAIN evCall' = CallFields /\ evCall'.call = evCall.call
        /\ evCall'.parsed = parsed /\ evCall'.runs = evCall.runs
        /\ evCall'.hash = evCall.hash /\ evCall'.record = evCall.record
    <3> HIDE DEF rows, parsed
    <3>1. /\ evCall.step = "reading" /\ ~(FileSize(rows) > MaxEvFile)
          /\ evCall' = [evCall EXCEPT
               !.parsed = parsed,
               !.step = IF Len(parsed) < Len(RunRequest.artifacts) THEN "sizing" ELSE "hashing"]
      BY <1>2 DEF EvRead, rows, parsed
    <3> QED
      BY <3>1 DEF EvInv, Has, CallFields
  <2>2. NextArtifact \in ArtifactDescriptor /\ IsFile(rows)
    BY <2>1, NextIs DEF EvInv
  <2>3. IsParsed(Parsed(NextArtifact, rows))
    <3> HIDE DEF rows
    <3> QED
      BY <2>1, <2>2, ParsedIs
  <2>4. IsSeq(parsed) /\ \A a \in DOMAIN parsed : IsParsed(parsed[a])
    <3>1. IsSeq(evCall.parsed) /\ \A a \in DOMAIN evCall.parsed : IsParsed(evCall.parsed[a])
      BY DEF EvInv, Has
    <3> DEFINE p == Parsed(NextArtifact, rows)
    <3>2. IsParsed(p)
      BY <2>3
    <3> HIDE DEF p
    <3>3. IsSeq(Append(evCall.parsed, p)) /\ \A a \in DOMAIN Append(evCall.parsed, p) : IsParsed(Append(evCall.parsed, p)[a])
      BY <3>1, <3>2, OneMore
    <3> QED
      BY <3>3 DEF p
  <2> HIDE DEF parsed, rows
  <2>5. Ordered(evCall', evBuild'.hash)
    BY <2>1 DEF EvInv, Ordered, EvRead
  <2> QED
    BY <2>1, <2>4, <2>5, StepOnward DEF EvRead, Asking
<1> QED
  BY <1>1, <1>2

LEMMA StepEvHashed ==
  ASSUME EvInv, EvHashed
  PROVE  EvInv'
<1>1. /\ evCall.step = "hashing" /\ evCall.record = 0
      /\ DOMAIN evCall' = CallFields /\ evCall'.call = evCall.call
      /\ evCall'.parsed = evCall.parsed /\ evCall'.runs = evCall.runs
      /\ evCall'.record = evCall.record
      /\ \/ evCall'.step = "deciding" /\ evCall'.hash = evBuild.hash
         \/ evCall'.step = "summarising" /\ evCall'.hash = evCall.hash
  BY DEF EvInv, Has, CallFields, EvHashed, Goes, Ordered
<1>2. evBuild.hash \in Nat /\ evBuild' = evBuild
  BY DEF EvInv, Sources, EvHashed
<1>3. Ordered(evCall', evBuild'.hash)
  BY <1>1, <1>2 DEF EvInv, Ordered
<1>4. IsSeq(evCall'.parsed) /\ \A a \in DOMAIN evCall'.parsed : IsParsed(evCall'.parsed[a])
  BY <1>1 DEF EvInv, Has
<1> QED
  BY <1>1, <1>3, <1>4, StepOnward DEF EvHashed, Asking

LEMMA StepEvDecided ==
  ASSUME EvInv, EvDecided
  PROVE  EvInv'
<1>1. CASE Refuses
  BY <1>1, StepRefuses DEF EvDecided
<1>2. CASE ~Refuses
  <2>1. /\ evCall.step = "deciding" /\ evCall'.step = "summarising"
        /\ DOMAIN evCall' = CallFields /\ evCall'.call = evCall.call
        /\ evCall'.parsed = evCall.parsed /\ evCall'.runs = evCall.runs
        /\ evCall'.record = evBuild.record /\ evCall'.hash = evCall.hash
    BY <1>2 DEF EvInv, Has, CallFields, EvDecided
  <2>2. evBuild.hash \in Nat /\ evBuild.record \in {0, evBuild.hash} /\ evBuild' = evBuild
    BY DEF EvInv, Sources, EvDecided
  <2>3. evCall.hash <= evBuild.hash
    BY <2>1 DEF EvInv, Ordered
  <2>4. Ordered(evCall', evBuild'.hash)
    BY <2>1, <2>2, <2>3 DEF EvInv, Ordered
  <2>5. IsSeq(evCall'.parsed) /\ \A a \in DOMAIN evCall'.parsed : IsParsed(evCall'.parsed[a])
    BY <2>1 DEF EvInv, Has
  <2> QED
    BY <2>1, <2>4, <2>5, StepOnward DEF EvDecided, Asking
<1> QED
  BY <1>1, <1>2

(* A run that is summarised comes after the runs before it.                   *)
LEMMA OneMoreRun ==
  ASSUME NEW runs, IsSeq(runs), NEW run, NEW hash,
         \A i \in DOMAIN runs :
           /\ IsRun(runs[i]) /\ runs[i].hash \in Nat /\ runs[i].record \in Nat
           /\ runs[i].record # 0 => runs[i].hash <= runs[i].record /\ runs[i].record <= hash,
         \A i, j \in DOMAIN runs :
           i < j /\ runs[i].record # 0 /\ runs[j].record # 0 => runs[i].record <= runs[j].hash,
         IsRun(run), run.hash \in Nat, run.record \in Nat,
         run.record # 0 => /\ run.hash <= run.record /\ run.record <= hash
                           /\ \A i \in DOMAIN runs : runs[i].record # 0 => runs[i].record <= run.hash,
         NEW more, more = Append(runs, run)
  PROVE  /\ IsSeq(more) /\ Len(more) = Len(runs) + 1
         /\ \A i \in DOMAIN more :
              /\ IsRun(more[i]) /\ more[i].hash \in Nat /\ more[i].record \in Nat
              /\ more[i].record # 0 => more[i].hash <= more[i].record /\ more[i].record <= hash
         /\ \A i, j \in DOMAIN more :
              i < j /\ more[i].record # 0 /\ more[j].record # 0 => more[i].record <= more[j].hash
<1>1. /\ IsSeq(more) /\ Len(more) = Len(runs) + 1 /\ more[Len(runs) + 1] = run
      /\ \A i \in DOMAIN runs : more[i] = runs[i]
      /\ \A i \in DOMAIN more : i = Len(runs) + 1 \/ i \in DOMAIN runs
  BY OneMore
<1>2. Len(runs) \in Nat /\ DOMAIN runs = 1 .. Len(runs)
  BY SeqFacts
<1>3. \A i \in DOMAIN more :
        /\ IsRun(more[i]) /\ more[i].hash \in Nat /\ more[i].record \in Nat
        /\ more[i].record # 0 => more[i].hash <= more[i].record /\ more[i].record <= hash
  BY <1>1
<1>4. ASSUME NEW i \in DOMAIN more, NEW j \in DOMAIN more, i < j,
             more[i].record # 0, more[j].record # 0
      PROVE  more[i].record <= more[j].hash
  <2>1. CASE j \in DOMAIN runs
    <3>1. i \in DOMAIN runs
      BY <1>1, <1>2, <1>4, <2>1
    <3> QED
      BY <1>1, <1>4, <2>1, <3>1
  <2>2. CASE j = Len(runs) + 1
    <3>1. i \in DOMAIN runs
      BY <1>1, <1>2, <1>4, <2>2
    <3> QED
      BY <1>1, <1>4, <2>2, <3>1
  <2> QED
    BY <1>1, <2>1, <2>2
<1> QED
  BY <1>1, <1>3, <1>4

LEMMA RunIs ==
  ASSUME NEW parsed, \A a \in DOMAIN parsed : IsParsed(parsed[a]),
         NEW phases \in Seq(PhaseInput), PhasesValid(phases), ~Conflicting(parsed, phases),
         NEW run, run.phases = phases, run.datasets = DatasetsOf(parsed, phases)
  PROVE  IsRun(run)
<1>1. \A d \in DatasetsOf(parsed, phases) : IsDataset(d, phases)
  BY DatasetType
<1>2. \A d, e \in DatasetsOf(parsed, phases) :
       /\ d.artifact = e.artifact /\ d.classification = e.classification /\ d.phase = e.phase
       => d = e
  BY DatasetNamed
<1>3. \A whole \in DatasetsOf(parsed, phases) : whole.classification # "assigned" =>
        AddsUp(DatasetsOf(parsed, phases), whole)
  BY RunAddsUp
<1> QED
  BY <1>1, <1>2, <1>3 DEF IsRun

LEMMA StepEvSummarised ==
  ASSUME EvInv, EvSummarised
  PROVE  EvInv'
<1> DEFINE datasets == DatasetsOf(evCall.parsed, RunRequest.phases)
           run == [record   |-> evCall.record, hash |-> evCall.hash,
                   phases   |-> RunRequest.phases,
                   kinds    |-> [a \in DOMAIN evCall.parsed |-> evCall.parsed[a].kind],
                   datasets |-> datasets]
           last == Len(evCall.runs) + 1 = Len(evCall.call.runs)
           more == Append(evCall.runs, run)
<1>1. CASE Refuses
  BY <1>1, StepRefuses DEF EvSummarised
<1>2. CASE ~Refuses
  <2>1. /\ evCall.step = "summarising" /\ ~Conflicting(evCall.parsed, RunRequest.phases)
        /\ evCall' = [evCall EXCEPT
               !.runs = more,
               !.step = CASE ~last -> "validating"
                          [] last /\ evCall.call.compares -> "comparing"
                          [] OTHER -> "answered"]
    BY <1>2 DEF EvSummarised
  <2>2. run.phases = RunRequest.phases /\ run.datasets = datasets
        /\ run.record = evCall.record /\ run.hash = evCall.hash
    OBVIOUS
  <2>3. RunRequest.phases \in Seq(PhaseInput) /\ PhasesValid(RunRequest.phases)
    <3>1. Request(evCall) = RunRequest
      BY DEF Request, RunRequest
    <3>2. Request(evCall).phases \in Seq(PhaseInput)
      BY <2>1, RequestIs DEF EvInv, Asking
    <3>3. RequestValid(Request(evCall))
      BY <2>1 DEF EvInv, Here, Asking
    <3> QED
      BY <3>1, <3>2, <3>3 DEF RequestValid
  <2>4. \A a \in DOMAIN evCall.parsed : IsParsed(evCall.parsed[a])
    BY DEF EvInv, Has
  <2> HIDE DEF run, last, more
  <2>5. IsRun(run)
    <3>1. run.datasets = DatasetsOf(evCall.parsed, RunRequest.phases)
      BY <2>2
    <3> QED
      BY <2>1, <2>2, <2>3, <2>4, <3>1, RunIs
  <2>6. /\ DOMAIN evCall' = CallFields /\ evCall'.call = evCall.call
        /\ evCall'.parsed = evCall.parsed /\ evCall'.runs = more
        /\ evCall'.record = evCall.record /\ evCall'.hash = evCall.hash
        /\ evCall'.step = CASE ~last -> "validating"
                            [] last /\ evCall.call.compares -> "comparing"
                            [] OTHER -> "answered"
    BY <2>1 DEF EvInv, Has, CallFields
  <2>7. evBuild' = evBuild /\ evFiles' = evFiles
    BY DEF EvSummarised
  <2> DEFINE runs == evCall.runs
  <2>8. /\ IsSeq(runs)
        /\ \A i \in DOMAIN runs :
             /\ IsRun(runs[i]) /\ runs[i].hash \in Nat /\ runs[i].record \in Nat
             /\ runs[i].record # 0 =>
                  runs[i].hash <= runs[i].record /\ runs[i].record <= evBuild.hash
        /\ \A i, j \in DOMAIN runs :
             i < j /\ runs[i].record # 0 /\ runs[j].record # 0 => runs[i].record <= runs[j].hash
    BY DEF EvInv, Has, Ordered
  <2>9. /\ run.hash \in Nat /\ run.record \in Nat
        /\ run.record # 0 =>
             /\ run.hash <= run.record /\ run.record <= evBuild.hash
             /\ \A i \in DOMAIN runs : runs[i].record # 0 => runs[i].record <= run.hash
    BY <2>1, <2>2 DEF EvInv, Ordered
  <2>10. more = Append(runs, run)
    BY DEF more
  <2> DEFINE hash == evBuild.hash
  <2> HIDE DEF runs, hash
  <2>11. /\ IsSeq(more) /\ Len(more) = Len(runs) + 1
         /\ \A i \in DOMAIN more :
              /\ IsRun(more[i]) /\ more[i].hash \in Nat /\ more[i].record \in Nat
              /\ more[i].record # 0 => more[i].hash <= more[i].record /\ more[i].record <= hash
         /\ \A i, j \in DOMAIN more :
              i < j /\ more[i].record # 0 /\ more[j].record # 0 => more[i].record <= more[j].hash
    BY <2>5, <2>8, <2>9, <2>10, OneMoreRun DEF hash
  <2>12. Sources'
    BY <2>7 DEF EvInv, Sources
  <2>13. Has(evCall')
    BY <2>6, <2>11 DEF EvInv, Has, EvSteps
  <2>14. Len(runs) < Len(evCall.call.runs) /\ evCall.call \in EvCalls
         /\ (evCall.call.compares => Len(evCall.call.runs) >= 2)
    BY <2>1 DEF EvInv, Here, Asking, runs
  <2>15. Len(runs) \in Nat /\ Len(evCall.call.runs) \in Nat
    <3>1. evCall.call.runs \in Seq(EvRequest)
      BY <2>14, EvidenceConstants
    <3>2. Len(evCall.call.runs) \in Nat
      BY <3>1
    <3> QED
      BY <2>8, <3>2, SeqFacts
  <2>16. Here(evCall')
    <3>1. CASE ~last
      <4>1. evCall'.step = "validating"
        BY <2>6, <3>1
      <4>2. Len(more) < Len(evCall.call.runs)
        BY <2>11, <2>14, <2>15, <3>1 DEF last, runs
      <4> QED
        BY <2>6, <2>14, <4>1, <4>2 DEF Here, Asking
    <3>2. CASE last
      <4>1. Len(more) = Len(evCall.call.runs)
        BY <2>11, <3>2 DEF last, runs
      <4>2. \/ evCall'.step = "comparing" /\ evCall.call.compares
            \/ evCall'.step = "answered"
        BY <2>6, <3>2
      <4> QED
        BY <2>6, <2>14, <4>1, <4>2 DEF Here, Asking
    <3> QED
      BY <3>1, <3>2
  <2>17. Ordered(evCall', evBuild'.hash)
    <3>1. evCall'.step \in {"validating", "comparing", "answered"}
      BY <2>6
    <3>2. evCall'.hash \in Nat /\ evCall'.record \in Nat
      BY <2>6 DEF EvInv, Ordered
    <3> QED
      BY <2>6, <2>7, <2>11, <3>1, <3>2 DEF Ordered, hash
  <2>18. ComparedAlike'
    <3>1. evCall'.step = "answered" => ~evCall'.call.compares
      BY <2>6
    <3> QED
      BY <3>1 DEF ComparedAlike
  <2> QED
    BY <2>12, <2>13, <2>16, <2>17, <2>18 DEF EvInv
<1> QED
  BY <1>1, <1>2

(* Two runs of one hash and one record: the record was read after the one     *)
(* hash and before the other, so it is of that hash.                          *)
LEMMA OneBuild ==
  ASSUME EvInv, evCall.step = "comparing", Comparable(evCall.runs)
  PROVE  \A i \in DOMAIN evCall.runs :
           /\ evCall.runs[i].hash = evCall.runs[i].record
           /\ evCall.runs[i].record = evCall.runs[1].record
           /\ evCall.runs[i].phases = evCall.runs[1].phases
<1> DEFINE runs == evCall.runs
<1>1. DOMAIN runs = 1 .. Len(runs) /\ Len(runs) \in Nat
  BY SeqFacts DEF EvInv, Has
<1>2. Len(runs) = Len(evCall.call.runs) /\ Len(evCall.call.runs) >= 2
  BY DEF EvInv, Here
<1>3. 1 \in DOMAIN runs /\ 2 \in DOMAIN runs
  BY <1>1, <1>2
<1>4. \A i \in DOMAIN runs :
        /\ runs[i].record # 0 /\ runs[i].record = runs[1].record
        /\ runs[i].hash = runs[1].hash /\ runs[i].phases = runs[1].phases
  BY DEF Comparable
<1>5. /\ runs[1].hash \in Nat /\ runs[1].record \in Nat /\ runs[1].hash <= runs[1].record
      /\ runs[1].record <= runs[2].hash
  <2>1. \A i, j \in DOMAIN runs :
          i < j /\ runs[i].record # 0 /\ runs[j].record # 0 => runs[i].record <= runs[j].hash
    BY DEF EvInv, Ordered
  <2>2. /\ runs[1].hash \in Nat /\ runs[1].record \in Nat
        /\ runs[1].record # 0 => runs[1].hash <= runs[1].record
    BY <1>3 DEF EvInv, Ordered
  <2> HIDE DEF runs
  <2> QED
    BY <1>3, <1>4, <2>1, <2>2
<1>6. runs[1].hash = runs[1].record
  <2> HIDE DEF runs
  <2>1. runs[2].hash = runs[1].hash
    BY <1>3, <1>4
  <2> QED
    BY <1>5, <2>1
<1> HIDE DEF runs
<1>7. \A i \in DOMAIN runs : runs[i].hash = runs[i].record
  BY <1>4, <1>6
<1> QED
  BY <1>4, <1>7 DEF runs

LEMMA StepEvCompared ==
  ASSUME EvInv, EvCompared
  PROVE  EvInv'
<1> DEFINE runs == evCall.runs
           series == [k \in {Key(at) : at \in Measured(runs)} |-> Series(runs, k)]
<1>1. CASE Refuses
  BY <1>1, StepRefuses DEF EvCompared
<1>2. CASE ~Refuses
  <2>1. /\ evCall.step = "comparing" /\ Comparable(runs)
        /\ \A k \in DOMAIN series : Cardinality(DOMAIN series[k]) = Len(runs)
        /\ evCall' = [evCall EXCEPT !.step = "answered", !.result = series]
        /\ evBuild' = evBuild /\ evFiles' = evFiles
    BY <1>2 DEF EvCompared
  <2>2. \A k \in DOMAIN series : series[k] = Series(runs, k)
    OBVIOUS
  <2> HIDE DEF series
  <2>3. /\ DOMAIN evCall' = CallFields /\ evCall'.call = evCall.call
        /\ evCall'.parsed = evCall.parsed /\ evCall'.runs = runs
        /\ evCall'.record = evCall.record /\ evCall'.hash = evCall.hash
        /\ evCall'.step = "answered" /\ evCall'.result = series
    BY <2>1 DEF EvInv, Has, CallFields
  <2>4. Sources'
    BY <2>1 DEF EvInv, Sources
  <2>5. Has(evCall')
    BY <2>3 DEF EvInv, Has, EvSteps
  <2>6. Here(evCall')
    BY <2>1, <2>3 DEF EvInv, Here, Asking
  <2>7. Ordered(evCall', evBuild'.hash)
    BY <2>1, <2>3 DEF EvInv, Ordered
  <2>8. ComparedAlike'
    <3>1. \A i \in DOMAIN runs :
            /\ runs[i].hash = runs[i].record /\ runs[i].record = runs[1].record
            /\ runs[i].phases = runs[1].phases
      BY <2>1, OneBuild
    <3>2. IsSeq(runs) /\ \A i \in DOMAIN runs : IsRun(runs[i])
      BY DEF EvInv, Has
    <3>3. ASSUME \A i \in DOMAIN runs[1].phases : Plain(runs[1].phases[i].id)
          PROVE  \A k \in DOMAIN series : Together(runs, DOMAIN series[k])
      <4> HIDE DEF runs
      <4> SUFFICES ASSUME NEW k \in DOMAIN series PROVE Together(runs, DOMAIN series[k])
        OBVIOUS
      <4>1. series[k] = Series(runs, k) /\ Cardinality(DOMAIN series[k]) = Len(runs)
        BY <2>1, <2>2
      <4> QED
        BY <3>1, <3>2, <3>3, <4>1, SeriesTogether
    <3> HIDE DEF runs
    <3> QED
      BY <2>3, <3>1, <3>3 DEF ComparedAlike, Together
  <2> QED
    BY <2>4, <2>5, <2>6, <2>7, <2>8 DEF EvInv
<1> QED
  BY <1>1, <1>2

LEMMA StepEvFileChanges ==
  ASSUME EvInv, EvFileChanges
  PROVE  EvInv'
<1>1. evCall' = evCall
  BY DEF EvFileChanges
<1>2. evBuild'.hash = evBuild.hash /\ evBuild'.record = evBuild.record
      /\ DOMAIN evBuild' = DOMAIN evBuild
  BY DEF EvFileChanges, EvInv, Sources
<1>3. PICK p \in EvPath : \E rows \in EvContents[p] : evFiles' = [evFiles EXCEPT ![p] = rows]
  BY DEF EvFileChanges
<1>4. Sources'
  BY <1>2, <1>3 DEF EvInv, Sources
<1>5. ComparedAlike'
  BY <1>1 DEF EvInv, ComparedAlike
<1> QED
  BY <1>1, <1>2, <1>4, <1>5 DEF EvInv

LEMMA StepEvRebuilt ==
  ASSUME EvInv, EvRebuilt
  PROVE  EvInv'
<1>1. evCall' = evCall /\ evFiles' = evFiles
  BY DEF EvRebuilt
<1>2. evBuild.hash \in Nat \ {0}
  BY DEF EvInv, Sources
<1>3. evBuild'.hash = evBuild.hash + 1 /\ evBuild'.record \in {0, evBuild.hash + 1}
      /\ DOMAIN evBuild' = {"hash", "changes", "record"}
  BY DEF EvRebuilt
<1>4. Sources'
  BY <1>1, <1>2, <1>3 DEF EvInv, Sources
<1>5. Ordered(evCall, evBuild'.hash)
  BY <1>2, <1>3 DEF EvInv, Ordered
<1>6. ComparedAlike'
  BY <1>1 DEF EvInv, ComparedAlike
<1> QED
  BY <1>1, <1>4, <1>5, <1>6 DEF EvInv

LEMMA EvStep == EvInv /\ [EvNext]_evVars => EvInv'
<1> SUFFICES ASSUME EvInv, [EvNext]_evVars PROVE EvInv'
  OBVIOUS
<1>1. CASE UNCHANGED evVars
  <2>1. evFiles' = evFiles /\ evBuild' = evBuild /\ evCall' = evCall
    BY <1>1 DEF evVars
  <2>2. Sources' /\ ComparedAlike'
    BY <2>1 DEF EvInv, Sources, ComparedAlike
  <2> QED
    BY <2>1, <2>2 DEF EvInv
<1> QED
  BY <1>1, StepEvBegins, StepEvValidated, StepEvSized, StepEvRead, StepEvHashed, StepEvDecided,
     StepEvSummarised, StepEvCompared, StepEvFileChanges, StepEvRebuilt DEF EvNext

LEMMA EvStarts == EvInit => EvInv
<1> SUFFICES ASSUME EvInit PROVE EvInv
  OBVIOUS
<1>1. /\ evCall.step = "idle" /\ DOMAIN evCall = CallFields /\ evCall.runs = <<>>
      /\ evCall.parsed = <<>> /\ evCall.hash = 0 /\ evCall.record = 0
      /\ evCall.call.compares = FALSE
  BY DEF EvInit, NoEvCall, CallFields
<1>2. Sources
  BY DEF EvInit, Sources
<1>3. IsSeq(<<>>) /\ DOMAIN <<>> = {}
  BY DEF IsSeq, Range
<1>4. Has(evCall)
  BY <1>1, <1>3 DEF Has, EvSteps
<1>5. Here(evCall)
  BY <1>1 DEF Here, Asking
<1>6. Ordered(evCall, evBuild.hash)
  BY <1>1, <1>3 DEF Ordered
<1>7. ComparedAlike
  BY <1>1 DEF ComparedAlike
<1> QED
  BY <1>2, <1>4, <1>5, <1>6, <1>7 DEF EvInv

LEMMA EvSafe == EvSpec => []EvInv
  BY EvStarts, EvStep, PTL DEF EvSpec

(* What the invariant says of evidence.                                       *)
LEMMA EvTells == EvInv => EvidenceSound
<1> SUFFICES ASSUME EvInv PROVE EvidenceSound
  OBVIOUS
<1>1. PhasesExclusive
  <2> SUFFICES ASSUME evCall.step = "summarising", NEW a \in DOMAIN evCall.parsed,
                      NEW i \in DOMAIN evCall.parsed[a].records, NEW clock \in {"wall", "world"}
               PROVE  Cardinality(PhasesAt(evCall.parsed[a].records[i], clock, RunRequest.phases)) <= 1
    BY DEF PhasesExclusive
  <2>1. IsRecord(evCall.parsed[a].records[i])
    BY DEF EvInv, Has, IsParsed
  <2>2. Request(evCall) = RunRequest
    BY DEF Request, RunRequest
  <2>3. Request(evCall).phases \in Seq(PhaseInput)
    BY RequestIs DEF EvInv, Asking
  <2>4. RequestValid(Request(evCall))
    BY DEF EvInv, Here, Asking
  <2>5. RunRequest.phases \in Seq(PhaseInput) /\ PhasesValid(RunRequest.phases)
    BY <2>2, <2>3, <2>4 DEF RequestValid
  <2> QED
    BY <2>1, <2>5, AtMostOne
<1>2. CountsAddUp
  BY DEF EvInv, Has, IsRun, CountsAddUp
<1>3. WithinLimits
  BY DEF EvInv, Has, IsParsed, WithinLimits
<1>4. ComparedAlike
  BY DEF EvInv
<1> QED
  BY <1>1, <1>2, <1>3, <1>4 DEF EvidenceSound

(* A summary of evidence adds up, whatever its artifacts, phases and clocks,  *)
(* and however the files change while it is read; and a comparison is of one  *)
(* verified build, of every run once under every key.                         *)
THEOREM EvidenceIsSound == EvSpec => []EvidenceSound
  BY EvSafe, EvTells, PTL

-----------------------------------------------------------------------------
(* DmiMatching: clusters.  What find and union do is told by the sets that    *)
(* the links of a forest do not leave or enter.                               *)
LEMMA LeastNumber ==
  ASSUME NEW B \in SUBSET Nat, B # {}
  PROVE  \E n \in B : \A m \in B : ~(m < n)
<1>1. IsWellFoundedOn(OpToRel(<, Nat), Nat)
  BY NatLessThanWellFounded
<1>2. PICK n \in B : \A m \in B : ~ (<<m, n>> \in OpToRel(<, Nat))
  BY <1>1, WFMin
<1> QED
  BY <1>2 DEF OpToRel

Walker == [parents : Forest, at : Members]

AtRoot(s) == s.parents[s.at] = s.at

Halved(s) ==
  [parents |-> [s.parents EXCEPT ![s.at] = s.parents[s.parents[s.at]]],
   at |-> s.parents[s.parents[s.at]]]

Walks(g, S) == g = [s \in S |-> IF AtRoot(s) THEN s ELSE g[Halved(s)]]

Closed(P, p) == \A m \in Members : m \in P <=> p[m] \in P

LEMMA FoundIs ==
  ASSUME NEW forest, NEW m, NEW g, g = CHOOSE h : Walks(h, Walker)
  PROVE  Found(forest, m) = g[[parents |-> forest, at |-> m]]
  BY DEF Found, Walks, Walker, AtRoot, Halved

(* One step of a walk.                                                        *)
LEMMA HalvedIs ==
  ASSUME NEW s \in Walker, ~AtRoot(s)
  PROVE  /\ Halved(s) \in Walker /\ Halved(s).at < s.at
         /\ \A m \in Members : Halved(s).parents[m] = m <=> s.parents[m] = m
         /\ \A P \in SUBSET Members :
              /\ Closed(P, Halved(s).parents) <=> Closed(P, s.parents)
              /\ Closed(P, s.parents) => (Halved(s).at \in P <=> s.at \in P)
<1> DEFINE p == s.parents
           a == s.at
           b == p[a]
           c == p[b]
           q == [p EXCEPT ![a] = c]
<1>1. /\ p \in [Members -> Members] /\ (\A m \in Members : p[m] <= m) /\ a \in Members
      /\ Members \subseteq Nat
  BY MatchingConstants DEF Walker, Forest
<1>2. /\ b \in Members /\ c \in Members /\ b # a /\ b <= a /\ c <= b
      /\ a \in Nat /\ b \in Nat /\ c \in Nat
  BY <1>1 DEF AtRoot
<1>3. Halved(s).parents = q /\ Halved(s).at = c /\ Halved(s) = [parents |-> q, at |-> c]
  BY DEF Halved
<1> HIDE DEF a, b, c, p
<1>4. q \in [Members -> Members] /\ q[a] = c /\ \A m \in Members : m # a => q[m] = p[m]
  BY <1>1, <1>2
<1> HIDE DEF q
<1>5. c < a
  BY <1>2
<1>6. q \in Forest
  <2>1. \A m \in Members : q[m] <= m
    BY <1>1, <1>4, <1>2, <1>5
  <2> QED
    BY <1>4, <2>1 DEF Forest
<1>7. Halved(s) \in Walker
  BY <1>2, <1>3, <1>6 DEF Walker
<1>8. p[a] = b /\ p[b] = c
  BY DEF b, c
<1>9. \A m \in Members : q[m] = m <=> p[m] = m
  BY <1>2, <1>4, <1>5, <1>8
<1>10. ASSUME NEW P \in SUBSET Members
       PROVE  /\ Closed(P, q) <=> Closed(P, p)
              /\ Closed(P, p) => (c \in P <=> a \in P)
  <2>1. ASSUME Closed(P, p) PROVE c \in P <=> a \in P
    BY <1>2, <1>8, <2>1, <1>1 DEF Closed
  <2>2. ASSUME Closed(P, p) PROVE Closed(P, q)
    BY <1>4, <2>1, <2>2 DEF Closed
  <2>3. ASSUME Closed(P, q) PROVE Closed(P, p)
    <3>1. a \in P <=> c \in P
      BY <1>1, <1>4, <2>3 DEF Closed
    <3>2. b \in P <=> c \in P
      BY <1>2, <1>4, <1>8, <2>3 DEF Closed
    <3>3. a \in P <=> p[a] \in P
      BY <1>8, <3>1, <3>2
    <3> QED
      BY <1>4, <2>3, <3>3 DEF Closed
  <2> QED
    BY <2>1, <2>2, <2>3
<1> QED
  BY <1>3, <1>5, <1>7, <1>9, <1>10 DEF p, a

Below(n) == {s \in Walker : s.at < n}

LEMMA WalkerAt == \A s \in Walker : s.at \in Nat
  BY MatchingConstants DEF Walker

(* Walks agree where both go.                                                 *)
LEMMA WalksAgree ==
  ASSUME NEW n \in Nat, NEW k \in Nat, NEW g, NEW h, Walks(g, Below(n)), Walks(h, Below(k)),
         NEW s \in Walker, s.at < n, s.at < k
  PROVE  g[s] = h[s]
<1> DEFINE both == {x \in Walker : x.at < n /\ x.at < k /\ g[x] # h[x]}
           B == {x.at : x \in both}
<1> SUFFICES ASSUME B # {} PROVE FALSE
  OBVIOUS
<1>1. B \in SUBSET Nat
  BY WalkerAt
<1>2. PICK i \in B : \A j \in B : ~(j < i)
  <2> HIDE DEF B
  <2> QED
    BY <1>1, LeastNumber
<1>3. PICK x \in both : x.at = i
  OBVIOUS
<1>4. x \in Below(n) /\ x \in Below(k) /\ x \in Walker /\ x.at \in Nat
  BY <1>3, WalkerAt DEF Below
<1>5. /\ g[x] = IF AtRoot(x) THEN x ELSE g[Halved(x)]
      /\ h[x] = IF AtRoot(x) THEN x ELSE h[Halved(x)]
  BY <1>4 DEF Walks
<1>6. ~AtRoot(x) /\ g[Halved(x)] # h[Halved(x)]
  BY <1>3, <1>5
<1>7. Halved(x) \in Walker /\ Halved(x).at < x.at
  BY <1>4, <1>6, HalvedIs
<1>8. Halved(x).at \in Nat
  BY <1>7, WalkerAt
<1>9. Halved(x).at < n /\ Halved(x).at < k
  BY <1>3, <1>4, <1>7, <1>8
<1>10. Halved(x) \in both
  BY <1>6, <1>7, <1>9
<1> QED
  BY <1>2, <1>3, <1>7, <1>10

LEMMA WalkBelow == \A n \in Nat : \E g : Walks(g, Below(n))
<1> DEFINE B == {n \in Nat : \A g : ~Walks(g, Below(n))}
<1> SUFFICES ASSUME B # {} PROVE FALSE
  OBVIOUS
<1>1. PICK n \in B : \A m \in B : ~(m < n)
  <2>1. B \in SUBSET Nat
    OBVIOUS
  <2> HIDE DEF B
  <2> QED
    BY <2>1, LeastNumber
<1>2. n # 0
  <2> SUFFICES ASSUME n = 0 PROVE FALSE
    OBVIOUS
  <2>1. Below(n) = {}
    BY WalkerAt DEF Below
  <2>2. Walks([s \in {} |-> s], Below(n))
    BY <2>1 DEF Walks
  <2> QED
    BY <2>2
<1>3. n - 1 \in Nat /\ n - 1 < n
  BY <1>2
<1>4. PICK g : Walks(g, Below(n - 1))
  BY <1>1, <1>3
<1> DEFINE h == [s \in Below(n) |-> IF AtRoot(s) THEN s ELSE g[Halved(s)]]
<1>5. \A s \in Below(n - 1) : g[s] = IF AtRoot(s) THEN s ELSE g[Halved(s)]
  BY <1>4 DEF Walks
<1>6. Below(n - 1) \subseteq Below(n)
  BY <1>3, WalkerAt DEF Below
<1>7. \A s \in Below(n - 1) : h[s] = g[s]
  BY <1>5, <1>6
<1>8. ASSUME NEW s \in Below(n), ~AtRoot(s) PROVE h[s] = h[Halved(s)]
  <2>1. s \in Walker /\ s.at < n /\ s.at \in Nat
    BY WalkerAt DEF Below
  <2>2. Halved(s) \in Walker /\ Halved(s).at < s.at
    BY <1>8, <2>1, HalvedIs
  <2>3. Halved(s).at \in Nat
    BY <2>2, WalkerAt
  <2>4. Halved(s).at < n - 1
    BY <2>1, <2>2, <2>3
  <2>5. Halved(s) \in Below(n - 1)
    BY <2>2, <2>4 DEF Below
  <2>6. h[Halved(s)] = g[Halved(s)]
    BY <1>7, <2>5
  <2> QED
    BY <1>8, <2>6
<1>9. \A s \in Below(n) : h[s] = IF AtRoot(s) THEN s ELSE h[Halved(s)]
  <2>1. \A s \in Below(n) : AtRoot(s) => h[s] = s
    OBVIOUS
  <2> HIDE DEF h
  <2> QED
    BY <1>8, <2>1
<1>10. h = [s \in Below(n) |-> h[s]]
  OBVIOUS
<1> HIDE DEF h
<1>11. h = [s \in Below(n) |-> IF AtRoot(s) THEN s ELSE h[Halved(s)]]
  BY <1>9, <1>10
<1> QED
  BY <1>11 DEF Walks

LEMMA SomeWalk == \E g : Walks(g, Walker)
<1> DEFINE G(n) == CHOOSE g : Walks(g, Below(n))
           w == [s \in Walker |-> G(s.at + 1)[s]]
<1>1. \A n \in Nat : Walks(G(n), Below(n))
  BY WalkBelow
<1> HIDE DEF G
<1>2. ASSUME NEW s \in Walker
      PROVE  w[s] = IF AtRoot(s) THEN s ELSE w[Halved(s)]
  <2>1. s.at \in Nat /\ s.at + 1 \in Nat /\ s.at < s.at + 1
    BY WalkerAt
  <2>2. s \in Below(s.at + 1)
    BY <2>1 DEF Below
  <2>3. G(s.at + 1)[s] = IF AtRoot(s) THEN s ELSE G(s.at + 1)[Halved(s)]
    BY <1>1, <2>1, <2>2 DEF Walks
  <2>4. CASE AtRoot(s)
    BY <2>3, <2>4
  <2>5. CASE ~AtRoot(s)
    <3> DEFINE t == Halved(s)
    <3>1. t \in Walker /\ t.at < s.at
      BY <2>5, HalvedIs
    <3>2. t.at \in Nat
      BY <3>1, WalkerAt
    <3> HIDE DEF t
    <3>3. t.at + 1 \in Nat /\ t.at < t.at + 1 /\ t.at < s.at + 1
      BY <2>1, <3>1, <3>2
    <3>4. G(s.at + 1)[t] = G(t.at + 1)[t]
      BY <1>1, <2>1, <3>1, <3>3, WalksAgree
    <3>5. w[t] = G(t.at + 1)[t] /\ w[s] = G(s.at + 1)[s]
      BY <3>1
    <3> QED
      BY <2>3, <2>5, <3>4, <3>5 DEF t
  <2> QED
    BY <2>4, <2>5
<1>3. w = [s \in Walker |-> w[s]]
  OBVIOUS
<1> HIDE DEF w
<1>4. w = [s \in Walker |-> IF AtRoot(s) THEN s ELSE w[Halved(s)]]
  BY <1>2, <1>3
<1> QED
  BY <1>4 DEF Walks

(* A walk ends at a root, and its links keep what the links before it kept.   *)
Arrives(e, s) ==
  /\ e \in Walker /\ AtRoot(e)
  /\ \A m \in Members : e.parents[m] = m <=> s.parents[m] = m
  /\ \A P \in SUBSET Members :
       /\ Closed(P, e.parents) <=> Closed(P, s.parents)
       /\ Closed(P, s.parents) => (e.at \in P <=> s.at \in P)

LEMMA WalkEnds ==
  ASSUME NEW g, Walks(g, Walker), NEW s \in Walker
  PROVE  Arrives(g[s], s)
<1> DEFINE bad == {x \in Walker : ~Arrives(g[x], x)}
           B == {x.at : x \in bad}
<1> SUFFICES ASSUME B # {} PROVE FALSE
  OBVIOUS
<1>1. B \in SUBSET Nat
  BY WalkerAt
<1>2. PICK i \in B : \A j \in B : ~(j < i)
  <2> HIDE DEF B
  <2> QED
    BY <1>1, LeastNumber
<1>3. PICK x \in bad : x.at = i
  OBVIOUS
<1>4. x \in Walker /\ ~Arrives(g[x], x) /\ g[x] = IF AtRoot(x) THEN x ELSE g[Halved(x)]
  BY DEF Walks
<1>5. ~AtRoot(x)
  BY <1>4 DEF Arrives
<1> DEFINE y == Halved(x)
<1>6. /\ y \in Walker /\ y.at < x.at
      /\ \A m \in Members : y.parents[m] = m <=> x.parents[m] = m
      /\ \A P \in SUBSET Members :
           /\ Closed(P, y.parents) <=> Closed(P, x.parents)
           /\ Closed(P, x.parents) => (y.at \in P <=> x.at \in P)
  BY <1>4, <1>5, HalvedIs
<1>7. g[x] = g[y]
  BY <1>4, <1>5
<1> HIDE DEF y
<1>8. Arrives(g[y], y)
  BY <1>2, <1>3, <1>6
<1>9. Arrives(g[x], x)
  BY <1>6, <1>7, <1>8 DEF Arrives
<1> QED
  BY <1>4, <1>9

LEMMA FoundEnds ==
  ASSUME NEW forest \in Forest, NEW m \in Members
  PROVE  Arrives(Found(forest, m), [parents |-> forest, at |-> m])
<1> DEFINE g == CHOOSE h : Walks(h, Walker)
           s == [parents |-> forest, at |-> m]
<1>1. Walks(g, Walker)
  BY SomeWalk
<1>2. s \in Walker
  BY DEF Walker
<1>3. Found(forest, m) = g[s]
  <2>1. g = CHOOSE h : Walks(h, Walker)
    OBVIOUS
  <2> HIDE DEF g
  <2> QED
    BY <2>1, FoundIs
<1> HIDE DEF g
<1> QED
  BY <1>1, <1>2, <1>3, WalkEnds

(* Two roots are told apart by a set that no link leaves or enters: what only *)
(* one of them is above.                                                      *)
LEMMA RootsApart ==
  ASSUME NEW p \in Forest, NEW r \in Members, NEW q \in Members,
         p[r] = r, p[q] = q, r # q
  PROVE  \E P \in SUBSET Members : Closed(P, p) /\ r \in P /\ q \notin P
<1> DEFINE Down(Q) == r \in Q /\ \A y \in Members : p[y] \in Q => y \in Q
           D == {m \in Members : \A Q \in SUBSET Members : Down(Q) => m \in Q}
<1>1. p \in [Members -> Members]
  BY DEF Forest
<1>2. r \in D /\ D \in SUBSET Members
  OBVIOUS
<1>3. \A y \in Members : p[y] \in D => y \in D
  OBVIOUS
<1>4. ASSUME NEW m \in Members, m \in D, p[m] \notin D PROVE FALSE
  <2> DEFINE E == D \ {m}
  <2>1. m # r
    BY <1>2, <1>4
  <2>2. E \in SUBSET Members /\ r \in E
    BY <1>2, <2>1
  <2>3. ASSUME NEW y \in Members, p[y] \in E PROVE y \in E
    <3>1. p[y] \in D
      BY <2>3
    <3>2. y \in D
      BY <1>3, <3>1
    <3>3. y # m
      BY <1>4, <3>1
    <3> QED
      BY <3>2, <3>3
  <2>4. Down(E)
    <3> HIDE DEF E, D
    <3> QED
      BY <2>2, <2>3
  <2>5. m \in E
    <3> HIDE DEF E
    <3> QED
      BY <1>4, <2>2, <2>4
  <2> QED
    BY <2>5
<1>5. Closed(D, p)
  <2> HIDE DEF D
  <2> QED
    BY <1>3, <1>4 DEF Closed
<1>6. q \notin D
  <2> DEFINE E == Members \ {q}
  <2>1. Down(E) /\ E \in SUBSET Members
    BY <1>1
  <2>2. q \notin E
    OBVIOUS
  <2> HIDE DEF E, Down
  <2> QED
    BY <2>1, <2>2
<1> HIDE DEF D
<1> QED
  BY <1>2, <1>5, <1>6

(* Two members have one root when no such set has only one of them.           *)
OfOne(p, m, n) == \A P \in SUBSET Members : Closed(P, p) => (m \in P <=> n \in P)

LEMMA FoundFacts ==
  ASSUME NEW p \in Forest, NEW m \in Members
  PROVE  /\ Found(p, m) \in Walker /\ Found(p, m).parents \in Forest /\ Found(p, m).at \in Members
         /\ Found(p, m).parents[Found(p, m).at] = Found(p, m).at /\ p[Found(p, m).at] = Found(p, m).at
         /\ \A n \in Members : Found(p, m).parents[n] = n <=> p[n] = n
         /\ \A P \in SUBSET Members :
              /\ Closed(P, Found(p, m).parents) <=> Closed(P, p)
              /\ Closed(P, p) => (Found(p, m).at \in P <=> m \in P)
<1> DEFINE e == Found(p, m)
           s == [parents |-> p, at |-> m]
<1>1. Arrives(e, s)
  BY FoundEnds
<1>2. s.parents = p /\ s.at = m
  OBVIOUS
<1> HIDE DEF e, s
<1>3. e \in Walker /\ AtRoot(e)
  BY <1>1 DEF Arrives
<1>4. e.parents \in Forest /\ e.at \in Members /\ e.parents[e.at] = e.at
  BY <1>3 DEF Walker, AtRoot
<1>5. /\ \A n \in Members : e.parents[n] = n <=> p[n] = n
      /\ \A P \in SUBSET Members :
              /\ Closed(P, e.parents) <=> Closed(P, p)
              /\ Closed(P, p) => (e.at \in P <=> m \in P)
  BY <1>1, <1>2 DEF Arrives
<1> QED
  BY <1>3, <1>4, <1>5 DEF e

LEMMA OneRoot ==
  ASSUME NEW p \in Forest, NEW m \in Members, NEW n \in Members
  PROVE  Found(p, m).at = Found(p, n).at <=> OfOne(p, m, n)
<1> DEFINE a == Found(p, m).at
           b == Found(p, n).at
<1>1. /\ a \in Members /\ b \in Members /\ p[a] = a /\ p[b] = b
      /\ \A P \in SUBSET Members : Closed(P, p) => (a \in P <=> m \in P) /\ (b \in P <=> n \in P)
  BY FoundFacts
<1> HIDE DEF a, b
<1>2. ASSUME a = b PROVE OfOne(p, m, n)
  BY <1>1, <1>2 DEF OfOne
<1>3. ASSUME OfOne(p, m, n), a # b PROVE FALSE
  <2>1. PICK P \in SUBSET Members : Closed(P, p) /\ a \in P /\ b \notin P
    BY <1>1, <1>3, RootsApart
  <2> QED
    BY <1>1, <1>3, <2>1 DEF OfOne
<1> QED
  BY <1>2, <1>3 DEF a, b

(* What a union adds.                                                         *)
LEMMA JoinedIs ==
  ASSUME parents \in Forest, NEW l \in Members, NEW r \in Members
  PROVE  /\ Joined(l, r) \in Forest
         /\ \A P \in SUBSET Members :
              Closed(P, Joined(l, r)) <=> Closed(P, parents) /\ (l \in P <=> r \in P)
<1> DEFINE left == Found(parents, l)
           right == Found(left.parents, r)
           q == right.parents
           a == Max({left.at, right.at})
           b == Min({left.at, right.at})
           J == [q EXCEPT ![a] = b]
<1>1. Joined(l, r) = J
  BY DEF Joined
<1>2. /\ left.parents \in Forest /\ left.at \in Members /\ left.parents[left.at] = left.at
      /\ \A P \in SUBSET Members :
           /\ Closed(P, left.parents) <=> Closed(P, parents)
           /\ Closed(P, parents) => (left.at \in P <=> l \in P)
  BY FoundFacts
<1> HIDE DEF left
<1>3. /\ q \in Forest /\ right.at \in Members /\ q[right.at] = right.at
      /\ \A n \in Members : q[n] = n <=> left.parents[n] = n
      /\ \A P \in SUBSET Members :
           /\ Closed(P, q) <=> Closed(P, left.parents)
           /\ Closed(P, left.parents) => (right.at \in P <=> r \in P)
  BY <1>2, FoundFacts
<1> HIDE DEF right, q
<1>4. q[left.at] = left.at
  BY <1>2, <1>3
<1>5. left.at \in Nat /\ right.at \in Nat /\ Members \subseteq Nat
  BY <1>2, <1>3, MatchingConstants
<1>6. a >= b /\ ((a = left.at /\ b = right.at) \/ (a = right.at /\ b = left.at))
  BY <1>5, MaxOfTwo, MinOfTwo
<1> HIDE DEF a, b
<1>7. a \in Members /\ b \in Members /\ q[a] = a /\ q \in [Members -> Members] /\ \A m \in Members : q[m] <= m
  BY <1>2, <1>3, <1>4, <1>6 DEF Forest
<1>8. J \in [Members -> Members] /\ J[a] = b /\ \A m \in Members : m # a => J[m] = q[m]
  BY <1>7
<1> HIDE DEF J
<1>9. \A m \in Members : J[m] <= m
  BY <1>5, <1>6, <1>7, <1>8
<1>10. J \in Forest
  BY <1>8, <1>9 DEF Forest
<1>11. ASSUME NEW P \in SUBSET Members
       PROVE  Closed(P, J) <=> Closed(P, q) /\ (a \in P <=> b \in P)
  BY <1>7, <1>8 DEF Closed
<1>12. ASSUME NEW P \in SUBSET Members
       PROVE  Closed(P, J) <=> Closed(P, parents) /\ (l \in P <=> r \in P)
  BY <1>2, <1>3, <1>6, <1>11
<1> QED
  BY <1>1, <1>10, <1>12

(* What the forest is worth: the sets it does not cut are those that no       *)
(* joined pair is cut by.                                                     *)
Kept(P, pairs) == \A e \in pairs : e[1] \in P <=> e[2] \in P

Linked ==
  /\ parents \in Forest /\ matched \subseteq Members \X Members
  /\ \A P \in SUBSET Members : Closed(P, parents) <=> Kept(P, matched)

LEMMA LinkedBegins == MatchInit => Linked
<1> SUFFICES ASSUME MatchInit PROVE Linked
  OBVIOUS
<1>1. matched = {} /\ parents = [m \in Members |-> m]
  BY DEF MatchInit
<1>2. parents \in Forest
  BY <1>1, MatchingConstants DEF Forest
<1>3. \A P \in SUBSET Members : Closed(P, parents) /\ Kept(P, matched)
  BY <1>1 DEF Closed, Kept
<1> QED
  BY <1>1, <1>2, <1>3 DEF Linked

LEMMA LinkedStep == Linked /\ [MatchNext]_matchVars => Linked'
<1> SUFFICES ASSUME Linked, [MatchNext]_matchVars PROVE Linked'
  OBVIOUS
<1>1. CASE UNCHANGED <<matched, parents>>
  BY <1>1 DEF Linked, Kept
<1>2. ASSUME NEW l \in Members, NEW r \in Members, Join(l, r) PROVE Linked'
  <2>1. matched' = matched \cup {<<l, r>>} /\ parents' = Joined(l, r)
    BY <1>2 DEF Join
  <2>2. /\ parents' \in Forest
        /\ \A P \in SUBSET Members : Closed(P, parents') <=> Closed(P, parents) /\ (l \in P <=> r \in P)
    BY <2>1, JoinedIs DEF Linked
  <2>3. ASSUME NEW P \in SUBSET Members
        PROVE  Kept(P, matched') <=> Kept(P, matched) /\ (l \in P <=> r \in P)
    <3>1. <<l, r>> \in matched' /\ <<l, r>>[1] = l /\ <<l, r>>[2] = r
      BY <2>1
    <3>2. \A e \in matched' : e \in matched \/ (e[1] = l /\ e[2] = r)
      BY <2>1
    <3>3. matched \subseteq matched'
      BY <2>1
    <3> QED
      BY <3>1, <3>2, <3>3 DEF Kept
  <2>4. \A P \in SUBSET Members : Closed(P, parents') <=> Kept(P, matched')
    BY <2>2, <2>3 DEF Linked
  <2>5. matched' \subseteq Members \X Members
    BY <2>1 DEF Linked
  <2> QED
    BY <2>2, <2>4, <2>5 DEF Linked, Closed
<1>3. ASSUME NEW s \in IconStates, Compare(s) PROVE Linked'
  BY <1>1, <1>3 DEF Compare
<1> QED
  BY <1>1, <1>2, <1>3 DEF MatchNext, matchVars

LEMMA AllLinked == MatchSpec => []Linked
  BY LinkedBegins, LinkedStep, PTL DEF MatchSpec

(* The clusters are then the classes.                                         *)
LEMMA ClassesFollow == Linked => ClustersAreClasses
<1> SUFFICES ASSUME Linked PROVE ClustersAreClasses
  OBVIOUS
<1> DEFINE members == UNION {{p[1], p[2]} : p \in matched}
           Class(root) == {m \in members : Found(parents, m).at = Found(parents, root).at}
           linked == {{p[1], p[2]} : p \in matched}
<1>1. Clusters = {Class(root) : root \in members}
  BY DEF Clusters
<1>2. /\ parents \in Forest /\ matched \subseteq Members \X Members
      /\ \A P \in SUBSET Members : Closed(P, parents) <=> Kept(P, matched)
  BY DEF Linked
<1>3. \A e \in matched : e[1] \in Members /\ e[2] \in Members /\ e[1] \in members /\ e[2] \in members
  BY <1>2
<1>4. members \subseteq Members
  BY <1>3
<1>5. ASSUME NEW e \in matched PROVE Found(parents, e[1]).at = Found(parents, e[2]).at
  <2>1. OfOne(parents, e[1], e[2])
    BY <1>2 DEF OfOne, Kept
  <2> QED
    BY <1>2, <1>3, <2>1, OneRoot
<1>6. ASSUME NEW e \in linked PROVE \E c \in Clusters : e \subseteq c
  <2>1. PICK p \in matched : e = {p[1], p[2]}
    OBVIOUS
  <2>2. p[1] \in Class(p[1]) /\ p[2] \in Class(p[1])
    BY <1>3, <1>5, <2>1
  <2>3. Class(p[1]) \in Clusters
    BY <1>1, <1>3, <2>1
  <2> QED
    BY <2>1, <2>2, <2>3
<1>7. ASSUME NEW c \in Clusters, NEW d \in Clusters, c # d PROVE c \cap d = {}
  <2>1. PICK x \in members, y \in members : c = Class(x) /\ d = Class(y)
    BY <1>1
  <2> QED
    BY <1>7, <2>1
<1>8. ASSUME NEW c \in Clusters, NEW part \in (SUBSET c) \ {{}, c}
      PROVE  \E e \in {f \in linked : f \subseteq c} : e \cap part # {} /\ ~(e \subseteq part)
  <2> SUFFICES ASSUME \A e \in linked : e \subseteq c /\ e \cap part # {} => e \subseteq part PROVE FALSE
    OBVIOUS
  <2>1. PICK root \in members : c = Class(root)
    BY <1>1
  <2>2. part \subseteq c /\ c \subseteq members /\ part \in SUBSET Members
    BY <1>4, <2>1
  <2>3. ASSUME NEW p \in matched, p[1] \in c \/ p[2] \in c PROVE p[1] \in c /\ p[2] \in c
    BY <1>3, <1>5, <2>1, <2>3
  <2>4. Kept(part, matched)
    <3>1. ASSUME NEW p \in matched, p[1] \in part \/ p[2] \in part PROVE p[1] \in part /\ p[2] \in part
      <4>1. p[1] \in c /\ p[2] \in c
        BY <2>2, <2>3, <3>1
      <4>2. {p[1], p[2]} \in linked /\ {p[1], p[2]} \subseteq c /\ {p[1], p[2]} \cap part # {}
        BY <3>1, <4>1
      <4> QED
        BY <4>2
    <3> QED
      BY <3>1 DEF Kept
  <2>5. Closed(part, parents)
    BY <1>2, <2>2, <2>4
  <2>6. PICK x \in part, y \in c : y \notin part
    OBVIOUS
  <2>7. x \in members /\ y \in members /\ x \in Members /\ y \in Members
        /\ Found(parents, x).at = Found(parents, y).at
    BY <1>4, <2>1, <2>2, <2>6
  <2>8. OfOne(parents, x, y)
    BY <1>2, <2>7, OneRoot
  <2> QED
    BY <2>2, <2>5, <2>6, <2>8 DEF OfOne
<1> HIDE DEF members, Class
<1> QED
  BY <1>6, <1>7, <1>8 DEF ClustersAreClasses

-----------------------------------------------------------------------------
(* DmiMatching: transforms.  Every transform is undone by one of them.        *)
Undone(t) ==
  CASE t = "rotate90" -> "rotate270"
    [] t = "rotate270" -> "rotate90"
    [] OTHER -> t

LEMMA UndoneIs ==
  ASSUME NEW t \in Transform
  PROVE  /\ Undone(t) \in Transform /\ Undone(Undone(t)) = t
         /\ Undone(t) = "identity" <=> t = "identity"
  BY DEF Transform, Undone

LEMMA PlaceIs ==
  ASSUME NEW i \in 1 .. 8
  PROVE  (CHOOSE j \in 1 .. 8 : Clockwise[j] = Clockwise[i]) = i
<1>1. \A j \in 1 .. 8 : Clockwise[j] = Clockwise[i] => j = i
  BY DEF Clockwise
<1> QED
  BY <1>1

LEMMA TurnedIs ==
  ASSUME NEW i \in 1 .. 8, NEW e \in Nat
  PROVE  /\ Turned(Clockwise[i], e) = Clockwise[((i - 1 + e) % 8) + 1]
         /\ Flipped(Clockwise[i], e) = Clockwise[((2 * e + 7 - i) % 8) + 1]
  BY PlaceIs DEF Turned, Flipped

Eighth(t, i) ==
  CASE t = "identity" -> i
    [] t = "mirrorHorizontal" -> ((9 - i) % 8) + 1
    [] t = "mirrorVertical" -> ((13 - i) % 8) + 1
    [] t = "rotate90" -> ((i + 1) % 8) + 1
    [] t = "rotate180" -> ((i + 3) % 8) + 1
    [] t = "rotate270" -> ((i + 5) % 8) + 1

LEMMA SentTo ==
  ASSUME NEW i \in 1 .. 8, NEW t \in Transform
  PROVE  TransformDirection(Clockwise[i], t) = Clockwise[Eighth(t, i)]
<1>1. /\ (i - 1 + 2) = i + 1 /\ (i - 1 + 4) = i + 3 /\ (i - 1 + 6) = i + 5
      /\ (2 * 1 + 7 - i) = 9 - i /\ (2 * 3 + 7 - i) = 13 - i
  OBVIOUS
<1>2. /\ Turned(Clockwise[i], 2) = Clockwise[((i + 1) % 8) + 1]
      /\ Turned(Clockwise[i], 4) = Clockwise[((i + 3) % 8) + 1]
      /\ Turned(Clockwise[i], 6) = Clockwise[((i + 5) % 8) + 1]
      /\ Flipped(Clockwise[i], 1) = Clockwise[((9 - i) % 8) + 1]
      /\ Flipped(Clockwise[i], 3) = Clockwise[((13 - i) % 8) + 1]
  <2>1. \A e \in Nat : /\ Turned(Clockwise[i], e) = Clockwise[((i - 1 + e) % 8) + 1]
                        /\ Flipped(Clockwise[i], e) = Clockwise[((2 * e + 7 - i) % 8) + 1]
    BY TurnedIs
  <2>2. 1 \in Nat /\ 2 \in Nat /\ 3 \in Nat /\ 4 \in Nat /\ 6 \in Nat
    OBVIOUS
  <2>3. /\ Turned(Clockwise[i], 2) = Clockwise[((i - 1 + 2) % 8) + 1]
        /\ Turned(Clockwise[i], 4) = Clockwise[((i - 1 + 4) % 8) + 1]
        /\ Turned(Clockwise[i], 6) = Clockwise[((i - 1 + 6) % 8) + 1]
        /\ Flipped(Clockwise[i], 1) = Clockwise[((2 * 1 + 7 - i) % 8) + 1]
        /\ Flipped(Clockwise[i], 3) = Clockwise[((2 * 3 + 7 - i) % 8) + 1]
    BY <2>1, <2>2, Zenon
  <2> QED
    BY <1>1, <2>3
<1> QED
  BY <1>2 DEF TransformDirection, Transform, Eighth

LEMMA EighthIs ==
  ASSUME NEW i \in 1 .. 8, NEW t \in Transform
  PROVE  /\ Eighth(t, i) \in 1 .. 8 /\ Eighth(Undone(t), Eighth(t, i)) = i
         /\ i \in {1, 3, 5, 7} <=> Eighth(t, i) \in {1, 3, 5, 7}
<1>1. ASSUME NEW j \in 1 .. 8
      PROVE  /\ Eighth("identity", j) = j
             /\ Eighth("mirrorHorizontal", j) = IF j = 1 THEN 1 ELSE 10 - j
             /\ Eighth("mirrorVertical", j) = IF j < 6 THEN 6 - j ELSE 14 - j
             /\ Eighth("rotate90", j) = IF j < 7 THEN j + 2 ELSE j - 6
             /\ Eighth("rotate180", j) = IF j < 5 THEN j + 4 ELSE j - 4
             /\ Eighth("rotate270", j) = IF j < 3 THEN j + 6 ELSE j - 2
  <2>1. j = 1 \/ j = 2 \/ j = 3 \/ j = 4 \/ j = 5 \/ j = 6 \/ j = 7 \/ j = 8
    OBVIOUS
  <2> QED
    BY <2>1 DEF Eighth
<1>2. Eighth(t, i) \in 1 .. 8 /\ (i \in {1, 3, 5, 7} <=> Eighth(t, i) \in {1, 3, 5, 7})
  BY <1>1 DEF Transform
<1>3. Eighth(Undone(t), Eighth(t, i)) = i
  <2> DEFINE j == Eighth(t, i)
  <2>1. j \in 1 .. 8
    BY <1>2
  <2>2. CASE t = "identity" \/ t = "mirrorHorizontal" \/ t = "mirrorVertical"
    BY <1>1, <2>1, <2>2 DEF Undone
  <2>3. CASE t = "rotate90" \/ t = "rotate180" \/ t = "rotate270"
    BY <1>1, <2>1, <2>3 DEF Undone
  <2> QED
    BY <2>2, <2>3 DEF Transform
<1> QED
  BY <1>2, <1>3

LEMMA DirectionsAre ==
  /\ Directions(1) = {Clockwise[5]}
  /\ Directions(4) = {Clockwise[i] : i \in {1, 3, 5, 7}}
  /\ Directions(8) = {Clockwise[i] : i \in 1 .. 8}
<1>1. Directions(1) = {Clockwise[5]} /\ Directions(4) = {Clockwise[i] : i \in {1, 3, 5, 7}}
  BY DEF Directions, Clockwise
<1>2. DOMAIN Clockwise = 1 .. 8
  BY DEF Clockwise
<1>3. Directions(8) = {Clockwise[i] : i \in 1 .. 8}
  BY <1>2 DEF Directions, Range
<1> QED
  BY <1>1, <1>3

(* A transform that a state has turns its directions into each other, and so  *)
(* does the one that undoes it.                                               *)
LEMMA DirectionsTurn ==
  ASSUME NEW n \in {1, 4, 8}, NEW t \in Transform
  PROVE  /\ \A d \in Directions(n) : TransformDirection(TransformDirection(d, t), Undone(t)) = d
         /\ (\A d \in Directions(n) : TransformDirection(d, t) \in Directions(n))
              => \A d \in Directions(n) : TransformDirection(d, Undone(t)) \in Directions(n)
<1>1. \A d \in Directions(n) : \E i \in 1 .. 8 : d = Clockwise[i]
  BY DirectionsAre
<1>2. ASSUME NEW d \in Directions(n)
      PROVE  TransformDirection(TransformDirection(d, t), Undone(t)) = d
  <2>1. PICK i \in 1 .. 8 : d = Clockwise[i]
    BY <1>1
  <2>2. Eighth(t, i) \in 1 .. 8 /\ Eighth(Undone(t), Eighth(t, i)) = i
    BY EighthIs
  <2> QED
    BY <2>1, <2>2, SentTo, UndoneIs
<1>3. ASSUME \A d \in Directions(n) : TransformDirection(d, t) \in Directions(n),
             NEW d \in Directions(n)
      PROVE  TransformDirection(d, Undone(t)) \in Directions(n)
  <2>1. CASE n = 1
    <3>1. d = TransformDirection(d, t)
      BY <1>3, <2>1, DirectionsAre
    <3> QED
      BY <1>2, <3>1
  <2>2. CASE n = 4
    <3>1. PICK i \in {1, 3, 5, 7} : d = Clockwise[i]
      BY <2>2, DirectionsAre
    <3>2. i \in 1 .. 8
      OBVIOUS
    <3>3. Eighth(Undone(t), i) \in {1, 3, 5, 7}
      BY <3>2, EighthIs, UndoneIs
    <3> QED
      BY <2>2, <3>1, <3>2, <3>3, SentTo, UndoneIs, DirectionsAre
  <2>3. CASE n = 8
    <3>1. PICK i \in 1 .. 8 : d = Clockwise[i]
      BY <2>3, DirectionsAre
    <3>2. Eighth(Undone(t), i) \in 1 .. 8
      BY EighthIs, UndoneIs
    <3> QED
      BY <2>3, <3>1, <3>2, SentTo, UndoneIs, DirectionsAre
  <2> QED
    BY <2>1, <2>2, <2>3
<1> QED
  BY <1>2, <1>3

-----------------------------------------------------------------------------
(* DmiMatching: frames.                                                       *)
Sideways(t) == t \in {"rotate90", "rotate270"}

Width(t, w, h) == IF Sideways(t) THEN h ELSE w

Height(t, w, h) == IF Sideways(t) THEN w ELSE h

LEMMA CellIs ==
  ASSUME NEW w, NEW h, NEW c
  PROVE  c \in Cells(w, h) <=> c = <<c[1], c[2]>> /\ c[1] \in 0 .. w - 1 /\ c[2] \in 0 .. h - 1
  BY DEF Cells

LEMMA PlaneTurns ==
  ASSUME NEW t \in Transform, NEW w, NEW h
  PROVE  /\ Width(Undone(t), Width(t, w, h), Height(t, w, h)) = w
         /\ Height(Undone(t), Width(t, w, h), Height(t, w, h)) = h
  BY DEF Transform, Undone, Width, Height, Sideways

LEMMA MovedIs ==
  ASSUME NEW t \in Transform, NEW w, NEW h, NEW x, NEW y
  PROVE  /\ t = "identity" => MovedTo(t, w, h, <<x, y>>) = <<x, y>>
         /\ t = "mirrorHorizontal" => MovedTo(t, w, h, <<x, y>>) = <<w - 1 - x, y>>
         /\ t = "mirrorVertical" => MovedTo(t, w, h, <<x, y>>) = <<x, h - 1 - y>>
         /\ t = "rotate90" => MovedTo(t, w, h, <<x, y>>) = <<h - 1 - y, x>>
         /\ t = "rotate180" => MovedTo(t, w, h, <<x, y>>) = <<w - 1 - x, h - 1 - y>>
         /\ t = "rotate270" => MovedTo(t, w, h, <<x, y>>) = <<y, w - 1 - x>>
  BY DEF MovedTo

LEMMA CellsMove ==
  ASSUME NEW t \in Transform, NEW w \in Nat, NEW h \in Nat, NEW c \in Cells(w, h)
  PROVE  /\ MovedTo(t, w, h, c) \in Cells(Width(t, w, h), Height(t, w, h))
         /\ MovedTo(Undone(t), Width(t, w, h), Height(t, w, h), MovedTo(t, w, h, c)) = c
<1>1. PICK x \in 0 .. w - 1, y \in 0 .. h - 1 : c = <<x, y>>
  BY DEF Cells
<1>2. x \in Int /\ y \in Int /\ 0 <= x /\ x <= w - 1 /\ 0 <= y /\ y <= h - 1
  OBVIOUS
<1>3. w - 1 - x \in 0 .. w - 1 /\ h - 1 - y \in 0 .. h - 1
  BY <1>2
<1>4. w - 1 - (w - 1 - x) = x /\ h - 1 - (h - 1 - y) = y
  BY <1>2
<1>5. MovedTo(t, w, h, c) \in Cells(Width(t, w, h), Height(t, w, h))
  BY <1>1, <1>3, MovedIs DEF Transform, Cells, Width, Height, Sideways
<1>6. MovedTo(Undone(t), Width(t, w, h), Height(t, w, h), MovedTo(t, w, h, c)) = c
  <2>1. CASE t = "identity"
    BY <1>1, <2>1, MovedIs DEF Transform, Undone, Width, Height, Sideways
  <2>2. CASE t = "mirrorHorizontal"
    BY <1>1, <1>4, <2>2, MovedIs DEF Transform, Undone, Width, Height, Sideways
  <2>3. CASE t = "mirrorVertical"
    BY <1>1, <1>4, <2>3, MovedIs DEF Transform, Undone, Width, Height, Sideways
  <2>4. CASE t = "rotate90"
    BY <1>1, <1>4, <2>4, MovedIs DEF Transform, Undone, Width, Height, Sideways
  <2>5. CASE t = "rotate180"
    BY <1>1, <1>4, <2>5, MovedIs DEF Transform, Undone, Width, Height, Sideways
  <2>6. CASE t = "rotate270"
    BY <1>1, <1>4, <2>6, MovedIs DEF Transform, Undone, Width, Height, Sideways
  <2> QED
    BY <2>1, <2>2, <2>3, <2>4, <2>5, <2>6 DEF Transform
<1> QED
  BY <1>5, <1>6

LEMMA FrameFacts ==
  ASSUME NEW f, Frame(f)
  PROVE  /\ f.w \in Nat /\ f.h \in Nat /\ f = [w |-> f.w, h |-> f.h, px |-> f.px]
         /\ f.px \in [Cells(f.w, f.h) -> Pixel]
         /\ \A c \in Cells(f.w, f.h) :
              /\ f.px[c].hue \in Nat /\ f.px[c].alpha \in Nat
              /\ f.px[c].alpha = 0 => f.px[c] = Clear
  BY DEF Frame, Pixel

(* A normal frame is left as it is.                                           *)
LEMMA NormalizedIs ==
  ASSUME NEW w \in Nat, NEW h \in Nat, NEW px \in [Cells(w, h) -> Pixel],
         \A c \in Cells(w, h) : px[c].alpha = 0 => px[c] = Clear
  PROVE  Normalized(w, h, px) = [w |-> w, h |-> h, px |-> px] /\ Frame(Normalized(w, h, px))
<1>1. [c \in Cells(w, h) |-> IF px[c].alpha = 0 THEN Clear ELSE px[c]] = px
  OBVIOUS
<1>2. Normalized(w, h, px) = [w |-> w, h |-> h, px |-> px]
  BY <1>1 DEF Normalized
<1> QED
  BY <1>2 DEF Frame

LEMMA TransformedIs ==
  ASSUME NEW t \in Transform, NEW f, Frame(f)
  PROVE  /\ Frame(Transformed(t, f))
         /\ Transformed(t, f).w = Width(t, f.w, f.h) /\ Transformed(t, f).h = Height(t, f.w, f.h)
         /\ \A d \in Cells(f.w, f.h) : Transformed(t, f).px[MovedTo(t, f.w, f.h, d)] = f.px[d]
<1> DEFINE w == Width(t, f.w, f.h)
           h == Height(t, f.w, f.h)
           From(c) == CHOOSE d \in Cells(f.w, f.h) : MovedTo(t, f.w, f.h, d) = c
           px == [c \in Cells(w, h) |-> f.px[From(c)]]
<1>1. Transformed(t, f) = Normalized(w, h, px)
  BY DEF Transformed, Width, Height, Sideways
<1>2. w \in Nat /\ h \in Nat
  BY FrameFacts DEF Width, Height
<1>3. ASSUME NEW c \in Cells(w, h)
      PROVE  From(c) \in Cells(f.w, f.h) /\ MovedTo(t, f.w, f.h, From(c)) = c
  <2> DEFINE d == MovedTo(Undone(t), w, h, c)
  <2>1. d \in Cells(f.w, f.h) /\ MovedTo(t, f.w, f.h, d) = c
    BY <1>2, CellsMove, UndoneIs, PlaneTurns
  <2> QED
    BY <2>1
<1>4. ASSUME NEW d \in Cells(f.w, f.h)
      PROVE  MovedTo(t, f.w, f.h, d) \in Cells(w, h) /\ From(MovedTo(t, f.w, f.h, d)) = d
  <2>1. \A e \in Cells(f.w, f.h) :
          /\ MovedTo(t, f.w, f.h, e) \in Cells(w, h)
          /\ MovedTo(Undone(t), w, h, MovedTo(t, f.w, f.h, e)) = e
    BY CellsMove, FrameFacts
  <2>2. \A e \in Cells(f.w, f.h) : MovedTo(t, f.w, f.h, e) = MovedTo(t, f.w, f.h, d) => e = d
    BY <2>1
  <2> QED
    BY <2>1, <2>2
<1>5. px \in [Cells(w, h) -> Pixel] /\ \A c \in Cells(w, h) : px[c].alpha = 0 => px[c] = Clear
  <2>1. \A c \in Cells(w, h) : px[c] = f.px[From(c)]
    OBVIOUS
  <2>2. \A c \in Cells(w, h) : f.px[From(c)] \in Pixel /\ (f.px[From(c)].alpha = 0 => f.px[From(c)] = Clear)
    BY <1>3, FrameFacts
  <2> HIDE DEF From
  <2> QED
    BY <2>2
<1>6. \A d \in Cells(f.w, f.h) : px[MovedTo(t, f.w, f.h, d)] = f.px[d]
  <2> HIDE DEF From, w, h
  <2> QED
    BY <1>4
<1> HIDE DEF px, w, h
<1>7. Transformed(t, f) = [w |-> w, h |-> h, px |-> px] /\ Frame(Transformed(t, f))
  BY <1>1, <1>2, <1>5, NormalizedIs
<1> QED
  BY <1>6, <1>7 DEF w, h

LEMMA SameFrame ==
  ASSUME NEW f, NEW g, Frame(f), Frame(g), f.w = g.w, f.h = g.h,
         \A c \in Cells(f.w, f.h) : f.px[c] = g.px[c]
  PROVE  f = g
<1>1. /\ f = [w |-> f.w, h |-> f.h, px |-> f.px] /\ f.px \in [Cells(f.w, f.h) -> Pixel]
      /\ g = [w |-> g.w, h |-> g.h, px |-> g.px] /\ g.px \in [Cells(g.w, g.h) -> Pixel]
  BY FrameFacts
<1>2. f.px = g.px
  BY <1>1
<1> QED
  BY <1>1, <1>2

LEMMA TransformedBack ==
  ASSUME NEW t \in Transform, NEW f, Frame(f)
  PROVE  Transformed(Undone(t), Transformed(t, f)) = f
<1> DEFINE g == Transformed(t, f)
           b == Transformed(Undone(t), g)
<1>1. /\ Frame(g) /\ g.w = Width(t, f.w, f.h) /\ g.h = Height(t, f.w, f.h)
      /\ \A d \in Cells(f.w, f.h) : g.px[MovedTo(t, f.w, f.h, d)] = f.px[d]
  BY TransformedIs
<1> HIDE DEF g
<1>2. /\ Frame(b) /\ b.w = f.w /\ b.h = f.h
      /\ \A d \in Cells(g.w, g.h) : b.px[MovedTo(Undone(t), g.w, g.h, d)] = g.px[d]
  BY <1>1, TransformedIs, UndoneIs, PlaneTurns
<1> HIDE DEF b
<1>3. ASSUME NEW d \in Cells(f.w, f.h) PROVE b.px[d] = f.px[d]
  <2> DEFINE c == MovedTo(t, f.w, f.h, d)
  <2>1. c \in Cells(g.w, g.h) /\ MovedTo(Undone(t), g.w, g.h, c) = d
    BY <1>1, CellsMove, FrameFacts
  <2>2. g.px[c] = f.px[d]
    BY <1>1
  <2> HIDE DEF c
  <2> QED
    BY <1>2, <2>1, <2>2
<1>4. b = f
  BY <1>2, <1>3, SameFrame
<1> QED
  BY <1>4 DEF b, g

LEMMA TransformedNot ==
  ASSUME NEW f, Frame(f)
  PROVE  Transformed("identity", f) = f
<1> DEFINE g == Transformed("identity", f)
<1>1. "identity" \in Transform /\ ~Sideways("identity")
  BY DEF Transform, Sideways
<1>2. /\ Frame(g) /\ g.w = f.w /\ g.h = f.h
      /\ \A d \in Cells(f.w, f.h) : g.px[MovedTo("identity", f.w, f.h, d)] = f.px[d]
  BY <1>1, TransformedIs DEF Width, Height
<1> HIDE DEF g
<1>3. ASSUME NEW d \in Cells(f.w, f.h) PROVE g.px[d] = f.px[d]
  <2>1. MovedTo("identity", f.w, f.h, d) = d
    BY <1>1, CellIs DEF MovedTo
  <2> QED
    BY <1>2, <2>1
<1>4. g = f
  BY <1>2, <1>3, SameFrame
<1> QED
  BY <1>4 DEF g

(* The visible part of a frame.                                               *)
Span(S, i, lo, hi) ==
  /\ \A c \in S : lo <= c[i] /\ c[i] <= hi
  /\ \E c \in S : c[i] = lo
  /\ \E c \in S : c[i] = hi

Box(S, b) ==
  /\ b = [x |-> b.x, y |-> b.y, w |-> b.w, h |-> b.h]
  /\ b.x \in Int /\ b.y \in Int /\ b.w \in Int /\ b.h \in Int
  /\ Span(S, 1, b.x, b.x + b.w - 1) /\ Span(S, 2, b.y, b.y + b.h - 1)

LEMMA LowestIs ==
  ASSUME NEW A \in SUBSET Nat, A # {}
  PROVE  Min(A) \in A /\ \A a \in A : Min(A) <= a
<1>1. PICK n \in A : \A m \in A : ~(m < n)
  BY LeastNumber
<1>2. \A m \in A : n <= m
  BY <1>1
<1> QED
  BY <1>2 DEF Min

LEMMA HighestIs ==
  ASSUME NEW k \in Nat, NEW A \in SUBSET (0 .. k), A # {}
  PROVE  Max(A) \in A /\ \A a \in A : a <= Max(A)
<1> DEFINE B == {k - a : a \in A}
<1>1. B \in SUBSET Nat /\ B # {}
  <2>1. \A a \in A : k - a \in Nat
    OBVIOUS
  <2>2. B \subseteq Nat
    BY <2>1
  <2>3. PICK a \in A : TRUE
    OBVIOUS
  <2>4. k - a \in B
    OBVIOUS
  <2> QED
    BY <2>2, <2>4
<1>2. PICK n \in B : \A m \in B : ~(m < n)
  <2> HIDE DEF B
  <2> QED
    BY <1>1, LeastNumber
<1>3. PICK a \in A : n = k - a
  OBVIOUS
<1>4. \A b \in A : k - b \in B
  OBVIOUS
<1> HIDE DEF B
<1>5. \A b \in A : b <= a
  BY <1>2, <1>3, <1>4
<1> QED
  BY <1>5 DEF Max

LEMMA SeenIs ==
  ASSUME NEW f, Frame(f), NEW c
  PROVE  c \in Seen(f) <=> c \in Cells(f.w, f.h) /\ f.px[c].alpha # 0
  BY DEF Seen

LEMMA BoundsAre ==
  ASSUME NEW f, Frame(f), Seen(f) # {}
  PROVE  /\ Box(Seen(f), Bounds(f))
         /\ Bounds(f).x \in Nat /\ Bounds(f).y \in Nat
         /\ Bounds(f).w \in Nat \ {0} /\ Bounds(f).h \in Nat \ {0}
         /\ Bounds(f).x + Bounds(f).w <= f.w /\ Bounds(f).y + Bounds(f).h <= f.h
<1> DEFINE xs == {c[1] : c \in Seen(f)}
           ys == {c[2] : c \in Seen(f)}
<1>1. Bounds(f) = [x |-> Min(xs), y |-> Min(ys), w |-> Max(xs) - Min(xs) + 1, h |-> Max(ys) - Min(ys) + 1]
  BY DEF Bounds
<1>2. f.w \in Nat /\ f.h \in Nat /\ \A c \in Seen(f) : c[1] \in 0 .. f.w - 1 /\ c[2] \in 0 .. f.h - 1
  BY FrameFacts, SeenIs, CellIs
<1>3. /\ xs # {} /\ ys # {} /\ xs \in SUBSET Nat /\ ys \in SUBSET Nat
      /\ xs \in SUBSET (0 .. f.w) /\ ys \in SUBSET (0 .. f.h)
  BY <1>2
<1>4. \A c \in Seen(f) : c[1] \in xs /\ c[2] \in ys
  OBVIOUS
<1>5. (\A x \in xs : \E c \in Seen(f) : c[1] = x) /\ (\A y \in ys : \E c \in Seen(f) : c[2] = y)
  OBVIOUS
<1> HIDE DEF xs, ys
<1>6. /\ Min(xs) \in xs /\ (\A a \in xs : Min(xs) <= a)
      /\ Max(xs) \in xs /\ (\A a \in xs : a <= Max(xs))
      /\ Min(ys) \in ys /\ (\A a \in ys : Min(ys) <= a)
      /\ Max(ys) \in ys /\ (\A a \in ys : a <= Max(ys))
  BY <1>2, <1>3, LowestIs, HighestIs
<1> DEFINE xl == Min(xs)
           xh == Max(xs)
           yl == Min(ys)
           yh == Max(ys)
<1>7. /\ xl \in Nat /\ xh \in Nat /\ yl \in Nat /\ yh \in Nat /\ xl <= xh /\ yl <= yh
      /\ Bounds(f) = [x |-> xl, y |-> yl, w |-> xh - xl + 1, h |-> yh - yl + 1]
  BY <1>1, <1>3, <1>6
<1>8. Span(Seen(f), 1, xl, xh) /\ Span(Seen(f), 2, yl, yh)
  BY <1>4, <1>5, <1>6 DEF Span
<1>9. xh <= f.w - 1 /\ yh <= f.h - 1
  BY <1>2, <1>5, <1>6
<1> HIDE DEF xl, xh, yl, yh
<1>10. /\ Bounds(f).x = xl /\ Bounds(f).y = yl
       /\ Bounds(f).w = xh - xl + 1 /\ Bounds(f).h = yh - yl + 1
       /\ Bounds(f) = [x |-> Bounds(f).x, y |-> Bounds(f).y, w |-> Bounds(f).w, h |-> Bounds(f).h]
  BY <1>7
<1>11. xl + (xh - xl + 1) - 1 = xh /\ yl + (yh - yl + 1) - 1 = yh
  BY <1>7
<1>12. Box(Seen(f), Bounds(f))
  BY <1>7, <1>8, <1>10, <1>11 DEF Box
<1> QED
  BY <1>2, <1>7, <1>9, <1>10, <1>12

LEMMA OneSpan ==
  ASSUME NEW S, NEW i, NEW lo \in Int, NEW hi \in Int, NEW l \in Int, NEW h \in Int,
         Span(S, i, lo, hi), Span(S, i, l, h)
  PROVE  lo = l /\ hi = h
<1>1. PICK c \in S : c[i] = lo
  BY DEF Span
<1>2. PICK d \in S : d[i] = hi
  BY DEF Span
<1>3. PICK e \in S : e[i] = l
  BY DEF Span
<1>4. PICK g \in S : g[i] = h
  BY DEF Span
<1>5. l <= c[i] /\ lo <= e[i] /\ d[i] <= h /\ g[i] <= hi
  BY DEF Span
<1> QED
  BY <1>1, <1>2, <1>3, <1>4, <1>5

LEMMA OneBox ==
  ASSUME NEW S, NEW a, NEW b, Box(S, a), Box(S, b)
  PROVE  a = b
<1>1. /\ a = [x |-> a.x, y |-> a.y, w |-> a.w, h |-> a.h]
      /\ a.x \in Int /\ a.y \in Int /\ a.w \in Int /\ a.h \in Int
      /\ Span(S, 1, a.x, a.x + a.w - 1) /\ Span(S, 2, a.y, a.y + a.h - 1)
  BY DEF Box
<1>2. /\ b = [x |-> b.x, y |-> b.y, w |-> b.w, h |-> b.h]
      /\ b.x \in Int /\ b.y \in Int /\ b.w \in Int /\ b.h \in Int
      /\ Span(S, 1, b.x, b.x + b.w - 1) /\ Span(S, 2, b.y, b.y + b.h - 1)
  BY DEF Box
<1>3. /\ a.x + a.w - 1 \in Int /\ a.y + a.h - 1 \in Int
      /\ b.x + b.w - 1 \in Int /\ b.y + b.h - 1 \in Int
  BY <1>1, <1>2
<1>4. a.x = b.x /\ a.x + a.w - 1 = b.x + b.w - 1 /\ a.y = b.y /\ a.y + a.h - 1 = b.y + b.h - 1
  BY <1>1, <1>2, <1>3, OneSpan
<1>5. a.w = b.w /\ a.h = b.h
  BY <1>1, <1>2, <1>4
<1> QED
  BY <1>1, <1>2, <1>4, <1>5

(* Cells that are moved span what they did, the other way round when they are *)
(* mirrored.                                                                  *)
LEMMA SpanKept ==
  ASSUME NEW S, NEW T, NEW i, NEW j, NEW lo \in Int, NEW hi \in Int, Span(S, i, lo, hi),
         \A c \in S : \E d \in T : d[j] = c[i], \A d \in T : \E c \in S : d[j] = c[i]
  PROVE  Span(T, j, lo, hi)
  BY DEF Span

LEMMA SpanMirrored ==
  ASSUME NEW S, NEW T, NEW i, NEW j, NEW lo \in Int, NEW hi \in Int, Span(S, i, lo, hi),
         NEW k \in Int, \A c \in S : c[i] \in Int,
         \A c \in S : \E d \in T : d[j] = k - c[i], \A d \in T : \E c \in S : d[j] = k - c[i]
  PROVE  Span(T, j, k - hi, k - lo)
<1>1. \A d \in T : k - hi <= d[j] /\ d[j] <= k - lo
  <2> TAKE d \in T
  <2>1. PICK c \in S : d[j] = k - c[i]
    OBVIOUS
  <2>2. lo <= c[i] /\ c[i] <= hi /\ c[i] \in Int
    BY DEF Span
  <2> QED
    BY <2>1, <2>2
<1>2. (\E d \in T : d[j] = k - hi) /\ \E d \in T : d[j] = k - lo
  BY DEF Span
<1> QED
  BY <1>1, <1>2 DEF Span

TurnedBox(t, w, h, b) ==
  [x |-> CASE t \in {"identity", "mirrorVertical"} -> b.x
           [] t \in {"mirrorHorizontal", "rotate180"} -> w - b.x - b.w
           [] t = "rotate90" -> h - b.y - b.h
           [] t = "rotate270" -> b.y,
   y |-> CASE t \in {"identity", "mirrorHorizontal"} -> b.y
           [] t \in {"mirrorVertical", "rotate180"} -> h - b.y - b.h
           [] t = "rotate90" -> b.x
           [] t = "rotate270" -> w - b.x - b.w,
   w |-> Width(t, b.w, b.h),
   h |-> Height(t, b.w, b.h)]

LEMMA SeenMoves ==
  ASSUME NEW t \in Transform, NEW f, Frame(f)
  PROVE  /\ \A c \in Seen(f) : MovedTo(t, f.w, f.h, c) \in Seen(Transformed(t, f))
         /\ \A d \in Seen(Transformed(t, f)) : \E c \in Seen(f) : d = MovedTo(t, f.w, f.h, c)
<1> DEFINE g == Transformed(t, f)
           Move(c) == MovedTo(t, f.w, f.h, c)
<1>1. /\ Frame(g) /\ g.w = Width(t, f.w, f.h) /\ g.h = Height(t, f.w, f.h)
      /\ \A d \in Cells(f.w, f.h) : g.px[Move(d)] = f.px[d]
  BY TransformedIs
<1>2. \A d \in Cells(f.w, f.h) : Move(d) \in Cells(g.w, g.h)
  BY <1>1, CellsMove, FrameFacts
<1>3. \A d \in Cells(g.w, g.h) : \E c \in Cells(f.w, f.h) : d = Move(c)
  <2> TAKE d \in Cells(g.w, g.h)
  <2>1. g.w \in Nat /\ g.h \in Nat /\ f.w \in Nat /\ f.h \in Nat
    BY <1>1, FrameFacts
  <2> DEFINE c == MovedTo(Undone(t), g.w, g.h, d)
  <2>2. Width(Undone(t), g.w, g.h) = f.w /\ Height(Undone(t), g.w, g.h) = f.h
    BY <1>1, PlaneTurns
  <2>3. c \in Cells(f.w, f.h) /\ Move(c) = d
    BY <2>1, <2>2, CellsMove, UndoneIs
  <2> QED
    BY <2>3
<1> HIDE DEF g, Move
<1>4. \A c : c \in Seen(f) <=> c \in Cells(f.w, f.h) /\ f.px[c].alpha # 0
  BY SeenIs
<1>5. \A c : c \in Seen(g) <=> c \in Cells(g.w, g.h) /\ g.px[c].alpha # 0
  BY <1>1, SeenIs
<1>6. \A c \in Seen(f) : Move(c) \in Seen(g)
  BY <1>1, <1>2, <1>4, <1>5
<1>7. \A d \in Seen(g) : \E c \in Seen(f) : d = Move(c)
  BY <1>1, <1>3, <1>4, <1>5
<1> QED
  BY <1>6, <1>7 DEF g, Move

LEMMA BoundsTurn ==
  ASSUME NEW t \in Transform, NEW f, Frame(f), Seen(f) # {}
  PROVE  /\ Seen(Transformed(t, f)) # {}
         /\ Bounds(Transformed(t, f)) = TurnedBox(t, f.w, f.h, Bounds(f))
<1> DEFINE S == Seen(f)
           T == Seen(Transformed(t, f))
           b == Bounds(f)
           w == f.w
           h == f.h
           Move(c) == MovedTo(t, w, h, c)
           B == TurnedBox(t, w, h, b)
<1>1. /\ \A c \in S : Move(c) \in T
      /\ \A d \in T : \E c \in S : d = Move(c)
  BY SeenMoves
<1>2. \A c \in S : c = <<c[1], c[2]>> /\ c[1] \in Int /\ c[2] \in Int
  BY SeenIs, CellIs
<1>3. w \in Int /\ h \in Int
  BY FrameFacts
<1>4. /\ b.x \in Int /\ b.y \in Int /\ b.w \in Int /\ b.h \in Int
      /\ Span(S, 1, b.x, b.x + b.w - 1) /\ Span(S, 2, b.y, b.y + b.h - 1)
  BY BoundsAre DEF Box
<1>5. ASSUME NEW c \in S PROVE Move(c) = MovedTo(t, w, h, <<c[1], c[2]>>)
  BY <1>2
<1>6. T # {}
  BY <1>1
<1> HIDE DEF S, T, b, w, h
<1> DEFINE xl == b.x
           xh == b.x + b.w - 1
           yl == b.y
           yh == b.y + b.h - 1
<1>7. xl \in Int /\ xh \in Int /\ yl \in Int /\ yh \in Int
  BY <1>4
<1>8. Span(S, 1, xl, xh) /\ Span(S, 2, yl, yh)
  BY <1>4
<1> HIDE DEF xl, xh, yl, yh
<1>9. ASSUME NEW i \in {1, 2}, NEW j \in {1, 2}, \A c \in S : Move(c)[j] = c[i],
             NEW lo \in Int, NEW hi \in Int, Span(S, i, lo, hi)
      PROVE  Span(T, j, lo, hi)
  <2>1. \A c \in S : \E d \in T : d[j] = c[i]
    BY <1>1, <1>9
  <2>2. \A d \in T : \E c \in S : d[j] = c[i]
    BY <1>1, <1>9
  <2> HIDE DEF Move
  <2> QED
    BY <1>9, <2>1, <2>2, SpanKept
<1>10. ASSUME NEW i \in {1, 2}, NEW j \in {1, 2}, NEW k \in Int, \A c \in S : Move(c)[j] = k - c[i],
              NEW lo \in Int, NEW hi \in Int, Span(S, i, lo, hi)
       PROVE  Span(T, j, k - hi, k - lo)
  <2>1. \A c \in S : \E d \in T : d[j] = k - c[i]
    BY <1>1, <1>10
  <2>2. \A d \in T : \E c \in S : d[j] = k - c[i]
    BY <1>1, <1>10
  <2>3. \A c \in S : c[i] \in Int
    BY <1>2
  <2> HIDE DEF Move
  <2> QED
    BY <1>10, <2>1, <2>2, <2>3, SpanMirrored
<1>11. /\ t \in {"identity", "mirrorVertical"} => \A c \in S : Move(c)[1] = c[1]
       /\ t \in {"identity", "mirrorHorizontal"} => \A c \in S : Move(c)[2] = c[2]
       /\ t \in {"mirrorHorizontal", "rotate180"} => \A c \in S : Move(c)[1] = w - 1 - c[1]
       /\ t \in {"mirrorVertical", "rotate180"} => \A c \in S : Move(c)[2] = h - 1 - c[2]
       /\ t = "rotate90" => \A c \in S : Move(c)[1] = h - 1 - c[2] /\ Move(c)[2] = c[1]
       /\ t = "rotate270" => \A c \in S : Move(c)[1] = c[2] /\ Move(c)[2] = w - 1 - c[1]
  BY DEF MovedTo
<1>12. w - 1 \in Int /\ h - 1 \in Int /\ 1 \in {1, 2} /\ 2 \in {1, 2}
  BY <1>3
<1> HIDE DEF Move
<1>13. /\ t \in {"identity", "mirrorVertical"} => Span(T, 1, xl, xh)
       /\ t \in {"identity", "mirrorHorizontal"} => Span(T, 2, yl, yh)
       /\ t = "rotate90" => Span(T, 2, xl, xh)
       /\ t = "rotate270" => Span(T, 1, yl, yh)
  BY <1>7, <1>8, <1>9, <1>11, <1>12
<1>14. /\ t \in {"mirrorHorizontal", "rotate180"} => Span(T, 1, w - 1 - xh, w - 1 - xl)
       /\ t \in {"mirrorVertical", "rotate180"} => Span(T, 2, h - 1 - yh, h - 1 - yl)
       /\ t = "rotate90" => Span(T, 1, h - 1 - yh, h - 1 - yl)
       /\ t = "rotate270" => Span(T, 2, w - 1 - xh, w - 1 - xl)
  BY <1>7, <1>8, <1>10, <1>11, <1>12
<1>15. /\ w - 1 - xh = w - b.x - b.w /\ w - 1 - xl = (w - b.x - b.w) + b.w - 1
       /\ h - 1 - yh = h - b.y - b.h /\ h - 1 - yl = (h - b.y - b.h) + b.h - 1
  BY <1>3, <1>4 DEF xl, xh, yl, yh
<1>16. B = [x |-> B.x, y |-> B.y, w |-> B.w, h |-> B.h]
  <2>1. \E x, y, v, u : B = [x |-> x, y |-> y, w |-> v, h |-> u]
    BY Zenon DEF TurnedBox
  <2> HIDE DEF B
  <2> QED
    BY <2>1
<1>17. /\ t \in {"identity", "mirrorVertical"} => B.x = b.x /\ B.w = b.w
       /\ t \in {"identity", "mirrorHorizontal"} => B.y = b.y /\ B.h = b.h
       /\ t \in {"mirrorHorizontal", "rotate180"} => B.x = w - b.x - b.w /\ B.w = b.w
       /\ t \in {"mirrorVertical", "rotate180"} => B.y = h - b.y - b.h /\ B.h = b.h
       /\ t = "rotate90" => B.x = h - b.y - b.h /\ B.w = b.h /\ B.y = b.x /\ B.h = b.w
       /\ t = "rotate270" => B.x = b.y /\ B.w = b.h /\ B.y = w - b.x - b.w /\ B.h = b.w
  BY DEF TurnedBox, Width, Height, Sideways
<1> HIDE DEF B
<1>18. B.x \in Int /\ B.y \in Int /\ B.w \in Int /\ B.h \in Int
  BY <1>3, <1>4, <1>17 DEF Transform
<1>19. Span(T, 1, B.x, B.x + B.w - 1)
  BY <1>13, <1>14, <1>15, <1>17 DEF Transform, xl, xh, yl, yh
<1>20. Span(T, 2, B.y, B.y + B.h - 1)
  BY <1>13, <1>14, <1>15, <1>17 DEF Transform, xl, xh, yl, yh
<1>21. Box(T, B)
  BY <1>16, <1>18, <1>19, <1>20 DEF Box
<1>22. Box(T, Bounds(Transformed(t, f)))
  BY <1>6, TransformedIs, BoundsAre DEF T
<1>23. Bounds(Transformed(t, f)) = B
  BY <1>21, <1>22, OneBox
<1> QED
  BY <1>6, <1>23 DEF B, T, w, h, b

(* The bounds are told from those of the turned frame.                        *)
LEMMA BoxTurnsBack ==
  ASSUME NEW t \in Transform, NEW w \in Int, NEW h \in Int, NEW b, NEW c,
         b = [x |-> b.x, y |-> b.y, w |-> b.w, h |-> b.h],
         c = [x |-> c.x, y |-> c.y, w |-> c.w, h |-> c.h],
         b.x \in Int, b.y \in Int, b.w \in Int, b.h \in Int,
         c.x \in Int, c.y \in Int, c.w \in Int, c.h \in Int,
         TurnedBox(t, w, h, b) = TurnedBox(t, w, h, c)
  PROVE  b = c
<1>1. /\ TurnedBox(t, w, h, b).x = TurnedBox(t, w, h, c).x
      /\ TurnedBox(t, w, h, b).y = TurnedBox(t, w, h, c).y
      /\ TurnedBox(t, w, h, b).w = TurnedBox(t, w, h, c).w
      /\ TurnedBox(t, w, h, b).h = TurnedBox(t, w, h, c).h
  OBVIOUS
<1>2. Width(t, b.w, b.h) = Width(t, c.w, c.h) /\ Height(t, b.w, b.h) = Height(t, c.w, c.h)
  BY <1>1 DEF TurnedBox
<1>3. b.w = c.w /\ b.h = c.h
  BY <1>2 DEF Width, Height
<1>4. b.x = c.x /\ b.y = c.y
  BY <1>1, <1>3 DEF TurnedBox, Transform
<1> QED
  BY <1>3, <1>4

(* A sum is that of the same amounts in other places.                         *)
Carries(M, S, T) ==
  /\ \A c \in S : M[c] \in T
  /\ \A c, d \in S : M[c] = M[d] => c = d
  /\ \A e \in T : \E c \in S : e = M[c]

LEMMA SumMoved ==
  ASSUME NEW S, NEW T, NEW M, Carries(M, S, T), IsFiniteSet(T),
         NEW f, NEW g, \A c \in S : g[M[c]] = f[c] /\ f[c] \in Int
  PROVE  IsFiniteSet(S) => SumFunctionOnSet(f, S) = SumFunctionOnSet(g, T)
<1> DEFINE To(s) == {M[c] : c \in s}
           B == {s \in SUBSET S : SumFunctionOnSet(f, s) # SumFunctionOnSet(g, To(s))}
<1> SUFFICES ASSUME IsFiniteSet(S) PROVE SumFunctionOnSet(f, S) = SumFunctionOnSet(g, T)
  OBVIOUS
<1>1. To(S) = T /\ \A s \in SUBSET S : To(s) \in SUBSET T
  BY DEF Carries
<1>2. ASSUME B # {} PROVE FALSE
  <2>1. PICK s \in B : \A u \in SUBSET s : u # s => u \notin B
    <3>1. B \in SUBSET SUBSET S
      OBVIOUS
    <3> HIDE DEF B
    <3> QED
      BY <1>2, <3>1, Least
  <2>2. s # {}
    <3>1. To({}) = {}
      OBVIOUS
    <3>2. SumFunctionOnSet(f, {}) = SumFunctionOnSet(g, To({}))
      BY <3>1, SumEmpty
    <3> HIDE DEF To
    <3> QED
      BY <3>2
  <2>3. PICK p \in s : TRUE
    BY <2>2
  <2> DEFINE u == s \ {p}
  <2>4. SumFunctionOnSet(f, u) = SumFunctionOnSet(g, To(u))
    <3>1. u \in SUBSET s /\ u # s /\ u \in SUBSET S
      OBVIOUS
    <3> HIDE DEF u, To
    <3> QED
      BY <2>1, <3>1
  <2>5. SumFunctionOnSet(f, s) = f[p] + SumFunctionOnSet(f, u)
    <3>1. IsFiniteSet(s) /\ \A c \in s : f[c] \in Int
      BY FS_Subset
    <3> QED
      BY <3>1, SumWithout
  <2>6. To(u) = To(s) \ {M[p]} /\ M[p] \in To(s)
    BY DEF Carries
  <2>7. SumFunctionOnSet(g, To(s)) = g[M[p]] + SumFunctionOnSet(g, To(s) \ {M[p]})
    <3>1. To(s) \in SUBSET T
      BY <1>1
    <3>2. \A e \in To(s) : g[e] \in Int
      OBVIOUS
    <3> HIDE DEF To
    <3>3. IsFiniteSet(To(s))
      BY <3>1, FS_Subset
    <3> QED
      BY <2>6, <3>2, <3>3, SumWithout
  <2>8. SumFunctionOnSet(f, s) # SumFunctionOnSet(g, To(s)) /\ s \in SUBSET S
    OBVIOUS
  <2>9. g[M[p]] = f[p]
    BY <2>3
  <2> HIDE DEF To, u
  <2> QED
    BY <2>4, <2>5, <2>6, <2>7, <2>8, <2>9
<1>3. S \in SUBSET S /\ S \notin B
  BY <1>2
<1>4. SumFunctionOnSet(f, S) = SumFunctionOnSet(g, To(S))
  <2> HIDE DEF To
  <2> QED
    BY <1>3
<1> HIDE DEF To
<1> QED
  BY <1>1, <1>4

LEMMA SizeMoved ==
  ASSUME NEW S, NEW T, NEW M, Carries(M, S, T), IsFiniteSet(S)
  PROVE  IsFiniteSet(T) /\ Cardinality(S) = Cardinality(T)
<1> DEFINE h == [c \in S |-> M[c]]
<1>1. h \in Bijection(S, T)
  BY DEF Carries, Bijection, Injection, Surjection, IsInjective
<1>2. ExistsBijection(S, T)
  BY <1>1 DEF ExistsBijection
<1> QED
  BY <1>2, FS_Bijection

LEMMA CellsFinite ==
  ASSUME NEW w \in Nat, NEW h \in Nat PROVE IsFiniteSet(Cells(w, h))
<1>1. IsFiniteSet(0 .. w - 1) /\ IsFiniteSet(0 .. h - 1)
  BY FS_Interval
<1> QED
  BY <1>1, FS_Product DEF Cells

LEMMA CellsCarried ==
  ASSUME NEW t \in Transform, NEW w \in Nat, NEW h \in Nat
  PROVE  Carries([c \in Cells(w, h) |-> MovedTo(t, w, h, c)], Cells(w, h),
                 Cells(Width(t, w, h), Height(t, w, h)))
<1> DEFINE v == Width(t, w, h)
           u == Height(t, w, h)
           Move(c) == MovedTo(t, w, h, c)
           Back(c) == MovedTo(Undone(t), v, u, c)
<1>1. \A c \in Cells(w, h) : Move(c) \in Cells(v, u) /\ Back(Move(c)) = c
  BY CellsMove
<1>2. v \in Nat /\ u \in Nat
  BY DEF Width, Height
<1>3. \A c \in Cells(v, u) : Back(c) \in Cells(w, h) /\ Move(Back(c)) = c
  BY <1>2, CellsMove, UndoneIs, PlaneTurns
<1> HIDE DEF Move, Back, v, u
<1>4. Carries([c \in Cells(w, h) |-> Move(c)], Cells(w, h), Cells(v, u))
  BY <1>1, <1>3 DEF Carries
<1> QED
  BY <1>4 DEF Move, v, u

LEMMA CellsTell ==
  ASSUME NEW w \in Nat \ {0}, NEW h \in Nat \ {0}, NEW v \in Nat \ {0}, NEW u \in Nat \ {0},
         Cells(w, h) = Cells(v, u)
  PROVE  w = v /\ h = u
<1>1. <<w - 1, h - 1>> \in Cells(w, h) /\ <<v - 1, u - 1>> \in Cells(v, u)
  BY DEF Cells
<1>2. w - 1 \in 0 .. v - 1 /\ h - 1 \in 0 .. u - 1 /\ v - 1 \in 0 .. w - 1 /\ u - 1 \in 0 .. h - 1
  BY <1>1 DEF Cells
<1> QED
  BY <1>2

LEMMA CroppedIs ==
  ASSUME NEW f, Frame(f), Seen(f) # {}
  PROVE  /\ DOMAIN Cropped(f) = Cells(Bounds(f).w, Bounds(f).h)
         /\ Cropped(f) \in [Cells(Bounds(f).w, Bounds(f).h) -> Pixel]
         /\ \A c \in Cells(Bounds(f).w, Bounds(f).h) :
              /\ <<c[1] + Bounds(f).x, c[2] + Bounds(f).y>> \in Cells(f.w, f.h)
              /\ Cropped(f)[c] = f.px[<<c[1] + Bounds(f).x, c[2] + Bounds(f).y>>]
<1> DEFINE b == Bounds(f)
<1>1. Cropped(f) = [c \in Cells(b.w, b.h) |-> f.px[<<c[1] + b.x, c[2] + b.y>>]]
  BY DEF Cropped
<1>2. /\ b.x \in Nat /\ b.y \in Nat /\ b.w \in Nat /\ b.h \in Nat
      /\ b.x + b.w <= f.w /\ b.y + b.h <= f.h /\ f.w \in Nat /\ f.h \in Nat
      /\ f.px \in [Cells(f.w, f.h) -> Pixel]
  BY BoundsAre, FrameFacts
<1> HIDE DEF b
<1>3. ASSUME NEW c \in Cells(b.w, b.h) PROVE <<c[1] + b.x, c[2] + b.y>> \in Cells(f.w, f.h)
  <2>1. c[1] \in 0 .. b.w - 1 /\ c[2] \in 0 .. b.h - 1
    BY CellIs
  <2>2. c[1] + b.x \in 0 .. f.w - 1 /\ c[2] + b.y \in 0 .. f.h - 1
    BY <1>2, <2>1
  <2> QED
    BY <2>2 DEF Cells
<1> QED
  BY <1>1, <1>2, <1>3 DEF b

LEMMA CropTurns ==
  ASSUME NEW t \in Transform, NEW f, Frame(f), Seen(f) # {}
  PROVE  /\ DOMAIN Cropped(Transformed(t, f)) =
              Cells(Width(t, Bounds(f).w, Bounds(f).h), Height(t, Bounds(f).w, Bounds(f).h))
         /\ \A c \in Cells(Bounds(f).w, Bounds(f).h) :
              Cropped(Transformed(t, f))[MovedTo(t, Bounds(f).w, Bounds(f).h, c)] = Cropped(f)[c]
<1> DEFINE b == Bounds(f)
           g == Transformed(t, f)
           e == Bounds(g)
<1>1. e = TurnedBox(t, f.w, f.h, b) /\ Seen(g) # {}
  BY BoundsTurn
<1>2. /\ Frame(g) /\ \A d \in Cells(f.w, f.h) : g.px[MovedTo(t, f.w, f.h, d)] = f.px[d]
  BY TransformedIs
<1>3. /\ b.x \in Nat /\ b.y \in Nat /\ b.w \in Nat /\ b.h \in Nat /\ f.w \in Nat /\ f.h \in Nat
  BY BoundsAre, FrameFacts
<1>4. /\ \A c \in Cells(b.w, b.h) :
           /\ <<c[1] + b.x, c[2] + b.y>> \in Cells(f.w, f.h)
           /\ Cropped(f)[c] = f.px[<<c[1] + b.x, c[2] + b.y>>]
      /\ DOMAIN Cropped(g) = Cells(e.w, e.h)
      /\ \A c \in Cells(e.w, e.h) : Cropped(g)[c] = g.px[<<c[1] + e.x, c[2] + e.y>>]
  BY <1>1, <1>2, CroppedIs
<1>5. e.w = Width(t, b.w, b.h) /\ e.h = Height(t, b.w, b.h)
  BY <1>1 DEF TurnedBox
<1>6. /\ t \in {"identity", "mirrorVertical"} => e.x = b.x
      /\ t \in {"identity", "mirrorHorizontal"} => e.y = b.y
      /\ t \in {"mirrorHorizontal", "rotate180"} => e.x = f.w - b.x - b.w
      /\ t \in {"mirrorVertical", "rotate180"} => e.y = f.h - b.y - b.h
      /\ t = "rotate90" => e.x = f.h - b.y - b.h /\ e.y = b.x
      /\ t = "rotate270" => e.x = b.y /\ e.y = f.w - b.x - b.w
  BY <1>1 DEF TurnedBox
<1> HIDE DEF b, e, g
<1>7. ASSUME NEW c \in Cells(b.w, b.h)
      PROVE  Cropped(g)[MovedTo(t, b.w, b.h, c)] = Cropped(f)[c]
  <2>1. PICK x \in 0 .. b.w - 1, y \in 0 .. b.h - 1 : c = <<x, y>>
    BY DEF Cells
  <2>2. x \in Int /\ y \in Int
    OBVIOUS
  <2> DEFINE m == MovedTo(t, b.w, b.h, c)
           X == x + b.x
           Y == y + b.y
           p == MovedTo(t, f.w, f.h, <<X, Y>>)
  <2>3. m \in Cells(e.w, e.h)
    BY <1>3, <1>5, CellsMove
  <2>4. /\ t = "identity" => m = <<x, y>> /\ p = <<X, Y>>
        /\ t = "mirrorHorizontal" => m = <<b.w - 1 - x, y>> /\ p = <<f.w - 1 - X, Y>>
        /\ t = "mirrorVertical" => m = <<x, b.h - 1 - y>> /\ p = <<X, f.h - 1 - Y>>
        /\ t = "rotate90" => m = <<b.h - 1 - y, x>> /\ p = <<f.h - 1 - Y, X>>
        /\ t = "rotate180" => m = <<b.w - 1 - x, b.h - 1 - y>> /\ p = <<f.w - 1 - X, f.h - 1 - Y>>
        /\ t = "rotate270" => m = <<y, b.w - 1 - x>> /\ p = <<Y, f.w - 1 - X>>
    <3> HIDE DEF X, Y
    <3>1. m = MovedTo(t, b.w, b.h, <<x, y>>)
      BY <2>1
    <3>2. p = MovedTo(t, f.w, f.h, <<X, Y>>)
      OBVIOUS
    <3> HIDE DEF m, p
    <3> QED
      BY <3>1, <3>2, MovedIs
  <2>5. <<m[1] + e.x, m[2] + e.y>> = p
    <3>1. /\ b.w - 1 - x + (f.w - b.x - b.w) = f.w - 1 - X
          /\ b.h - 1 - y + (f.h - b.y - b.h) = f.h - 1 - Y
      BY <1>3, <2>2
    <3>2. x + b.x = X /\ y + b.y = Y
      OBVIOUS
    <3> HIDE DEF m, p, X, Y
    <3> QED
      BY <1>6, <2>4, <3>1, <3>2 DEF Transform
  <2>6. <<X, Y>> \in Cells(f.w, f.h) /\ Cropped(f)[c] = f.px[<<X, Y>>]
    BY <1>4, <2>1
  <2>7. Cropped(g)[m] = g.px[<<m[1] + e.x, m[2] + e.y>>]
    BY <1>4, <2>3
  <2> HIDE DEF m
  <2>8. Cropped(g)[m] = f.px[<<X, Y>>]
    BY <1>2, <2>5, <2>6, <2>7
  <2> QED
    BY <2>6, <2>8 DEF m
<1> QED
  BY <1>4, <1>5, <1>7 DEF b, g

-----------------------------------------------------------------------------
(* DmiMatching: comparison of two frames.                                     *)
Padded(l, r) == Bounds(l) # Bounds(r) \/ l.w # r.w \/ l.h # r.h

Delta(l, r) ==
  SumFunction([c \in DOMAIN Cropped(l) |-> Difference(Cropped(l)[c], Cropped(r)[c])])

LEMMA AlignedBlank ==
  ASSUME NEW l, NEW r, NEW t, Seen(l) = {} \/ Seen(r) = {}
  PROVE  CompareAligned(l, r, t) = IF Seen(l) = Seen(r) THEN "exact" ELSE "different"
  BY DEF CompareAligned

LEMMA AlignedIs ==
  ASSUME NEW l, NEW r, NEW t, Seen(l) # {}, Seen(r) # {}
  PROVE  CompareAligned(l, r, t) =
           IF DOMAIN Cropped(l) # DOMAIN Cropped(r) THEN "different"
           ELSE IF Cropped(l) = Cropped(r)
             THEN IF t # "identity" THEN "transformed"
                  ELSE IF Padded(l, r) THEN "padded" ELSE "exact"
             ELSE IF Recoloured(Cropped(l), Cropped(r)) THEN "palette"
                  ELSE IF Near(Delta(l, r), Cardinality(DOMAIN Cropped(l))) THEN "near"
                  ELSE "different"
<1> DEFINE a == Cropped(l)
           b == Cropped(r)
           delta == SumFunction([c \in DOMAIN a |-> Difference(a[c], b[c])])
           padded == Bounds(l) # Bounds(r) \/ l.w # r.w \/ l.h # r.h
<1>1. CompareAligned(l, r, t) =
        CASE DOMAIN a # DOMAIN b -> "different"
          [] a = b /\ t # "identity" -> "transformed"
          [] a = b /\ t = "identity" -> IF padded THEN "padded" ELSE "exact"
          [] OTHER -> IF Recoloured(a, b) THEN "palette"
                      ELSE IF Near(delta, Cardinality(DOMAIN a)) THEN "near"
                      ELSE "different"
  BY DEF CompareAligned
<1>2. delta = Delta(l, r) /\ (padded <=> Padded(l, r))
  BY DEF Delta, Padded
<1> HIDE DEF a, b, delta, padded
<1>3. CompareAligned(l, r, t) =
        IF DOMAIN a # DOMAIN b THEN "different"
        ELSE IF a = b
          THEN IF t # "identity" THEN "transformed"
               ELSE IF padded THEN "padded" ELSE "exact"
          ELSE IF Recoloured(a, b) THEN "palette"
               ELSE IF Near(delta, Cardinality(DOMAIN a)) THEN "near"
               ELSE "different"
  <2>1. CASE DOMAIN a # DOMAIN b
    BY <1>1, <2>1
  <2>2. CASE DOMAIN a = DOMAIN b /\ a = b
    BY <1>1, <2>2
  <2>3. CASE DOMAIN a = DOMAIN b /\ a # b
    BY <1>1, <2>3
  <2> QED
    BY <2>1, <2>2, <2>3
<1> QED
  BY <1>2, <1>3 DEF a, b

(* What a comparison reads.                                                   *)
LEMMA AlignedAlike ==
  ASSUME NEW l, NEW r, NEW t, NEW f, NEW g, NEW u,
         Seen(l) # {}, Seen(r) # {}, Seen(f) # {}, Seen(g) # {}, t = "identity" <=> u = "identity",
         DOMAIN Cropped(l) = DOMAIN Cropped(r) <=> DOMAIN Cropped(f) = DOMAIN Cropped(g),
         DOMAIN Cropped(l) = DOMAIN Cropped(r) =>
           /\ Cropped(l) = Cropped(r) <=> Cropped(f) = Cropped(g)
           /\ Padded(l, r) <=> Padded(f, g)
           /\ Recoloured(Cropped(l), Cropped(r)) <=> Recoloured(Cropped(f), Cropped(g))
           /\ Delta(l, r) = Delta(f, g)
           /\ Cardinality(DOMAIN Cropped(l)) = Cardinality(DOMAIN Cropped(f))
  PROVE  CompareAligned(l, r, t) = CompareAligned(f, g, u)
  BY AlignedIs

LEMMA DifferenceIs ==
  ASSUME NEW p \in Pixel, NEW q \in Pixel
  PROVE  Difference(p, q) = Difference(q, p) /\ Difference(p, q) \in Nat
<1>1. p.hue \in Nat /\ q.hue \in Nat /\ p.alpha \in Nat /\ q.alpha \in Nat
  BY DEF Pixel
<1>2. /\ Away(p.hue, q.hue) = Away(q.hue, p.hue) /\ Away(p.hue, q.hue) \in Nat
      /\ Away(p.alpha, q.alpha) = Away(q.alpha, p.alpha) /\ Away(p.alpha, q.alpha) \in Nat
  BY <1>1 DEF Away
<1> QED
  BY <1>2 DEF Difference

(* A comparison has the same result the other way round.                      *)
LEMMA AlignedEither ==
  ASSUME NEW l, NEW r, NEW t, Frame(l), Frame(r)
  PROVE  CompareAligned(l, r, t) = CompareAligned(r, l, t)
<1>1. CASE Seen(l) = {} \/ Seen(r) = {}
  BY <1>1, AlignedBlank
<1>2. CASE Seen(l) # {} /\ Seen(r) # {}
  <2> DEFINE a == Cropped(l)
             b == Cropped(r)
  <2>1. a \in [DOMAIN a -> Pixel] /\ b \in [DOMAIN b -> Pixel]
    BY <1>2, CroppedIs
  <2>2. Padded(l, r) <=> Padded(r, l)
    BY DEF Padded
  <2>3. ASSUME DOMAIN a = DOMAIN b
        PROVE  (Recoloured(a, b) <=> Recoloured(b, a)) /\ Delta(l, r) = Delta(r, l)
    <3>1. Recoloured(a, b) <=> Recoloured(b, a)
      <4> HIDE DEF a, b
      <4> QED
        BY <2>3 DEF Recoloured
    <3>2. [c \in DOMAIN a |-> Difference(a[c], b[c])] = [c \in DOMAIN b |-> Difference(b[c], a[c])]
      <4>1. \A c \in DOMAIN a : a[c] \in Pixel /\ b[c] \in Pixel
        BY <2>1, <2>3
      <4>2. \A c \in DOMAIN a : Difference(a[c], b[c]) = Difference(b[c], a[c])
        BY <4>1, DifferenceIs
      <4> HIDE DEF a, b
      <4> QED
        BY <2>3, <4>2
    <3>3. Delta(l, r) = Delta(r, l)
      BY <3>2 DEF Delta
    <3> QED
      BY <3>1, <3>3
  <2> QED
    BY <1>2, <2>2, <2>3, AlignedAlike
<1> QED
  BY <1>1, <1>2

(* What is the same of two pictures and of the same pixels in other places.   *)
LEMMA PicturesAlike ==
  ASSUME NEW S, NEW T, NEW M, Carries(M, S, T), NEW a \in [S -> Pixel], NEW b \in [S -> Pixel],
         NEW f \in [T -> Pixel], NEW g \in [T -> Pixel],
         \A c \in S : f[M[c]] = a[c] /\ g[M[c]] = b[c]
  PROVE  (a = b <=> f = g) /\ (Recoloured(a, b) <=> Recoloured(f, g))
<1>1. /\ \A c \in S : M[c] \in T
      /\ \A e \in T : \E c \in S : e = M[c]
  BY DEF Carries
<1>2. a = b <=> \A c \in S : a[c] = b[c]
  OBVIOUS
<1>3. f = g <=> \A e \in T : f[e] = g[e]
  OBVIOUS
<1>4. a = b <=> f = g
  BY <1>1, <1>2, <1>3
<1>5. Recoloured(a, b) <=>
        /\ \A c, d \in S : a[c] = a[d] <=> b[c] = b[d]
        /\ \A c \in S : a[c].alpha = b[c].alpha
  BY DEF Recoloured
<1>6. Recoloured(f, g) <=>
        /\ \A c, d \in T : f[c] = f[d] <=> g[c] = g[d]
        /\ \A c \in T : f[c].alpha = g[c].alpha
  BY DEF Recoloured
<1>7. (\A c, d \in S : a[c] = a[d] <=> b[c] = b[d]) <=> (\A c, d \in T : f[c] = f[d] <=> g[c] = g[d])
  BY <1>1
<1>8. (\A c \in S : a[c].alpha = b[c].alpha) <=> (\A c \in T : f[c].alpha = g[c].alpha)
  BY <1>1
<1> QED
  BY <1>4, <1>5, <1>6, <1>7, <1>8

LEMMA DeltaMoved ==
  ASSUME NEW S, NEW T, NEW M, Carries(M, S, T), IsFiniteSet(S),
         NEW a \in [S -> Pixel], NEW b \in [S -> Pixel],
         NEW f \in [T -> Pixel], NEW g \in [T -> Pixel],
         \A c \in S : f[M[c]] = a[c] /\ g[M[c]] = b[c]
  PROVE  SumFunction([c \in S |-> Difference(a[c], b[c])]) =
         SumFunction([c \in T |-> Difference(f[c], g[c])])
<1> DEFINE from == [c \in S |-> Difference(a[c], b[c])]
           to == [c \in T |-> Difference(f[c], g[c])]
<1>1. IsFiniteSet(T)
  BY SizeMoved
<1>2. \A c \in S : to[M[c]] = from[c] /\ from[c] \in Int
  BY DifferenceIs DEF Carries
<1>3. DOMAIN from = S /\ DOMAIN to = T
  OBVIOUS
<1> HIDE DEF from, to
<1>4. SumFunctionOnSet(from, S) = SumFunctionOnSet(to, T)
  BY <1>1, <1>2, SumMoved
<1> QED
  BY <1>3, <1>4 DEF SumFunction, from, to

(* ... and the same when both frames are turned.                              *)
LEMMA AlignedTurned ==
  ASSUME NEW t \in Transform, NEW u, NEW l, NEW r, Frame(l), Frame(r)
  PROVE  CompareAligned(Transformed(t, l), Transformed(t, r), u) = CompareAligned(l, r, u)
<1> DEFINE f == Transformed(t, l)
           g == Transformed(t, r)
<1>1. Frame(f) /\ Frame(g)
  BY TransformedIs
<1>2. (Seen(f) = {} <=> Seen(l) = {}) /\ (Seen(g) = {} <=> Seen(r) = {})
  BY SeenMoves
<1>3. CASE Seen(l) = {} \/ Seen(r) = {}
  BY <1>2, <1>3, AlignedBlank
<1>4. CASE Seen(l) # {} /\ Seen(r) # {}
  <2> DEFINE i == Bounds(l)
             j == Bounds(r)
             a == Cropped(l)
             b == Cropped(r)
             c == Cropped(f)
             d == Cropped(g)
  <2>1. /\ i.w \in Nat \ {0} /\ i.h \in Nat \ {0} /\ j.w \in Nat \ {0} /\ j.h \in Nat \ {0}
        /\ a \in [Cells(i.w, i.h) -> Pixel] /\ b \in [Cells(j.w, j.h) -> Pixel]
        /\ c \in [DOMAIN c -> Pixel] /\ d \in [DOMAIN d -> Pixel]
    BY <1>1, <1>2, <1>4, BoundsAre, CroppedIs
  <2>2. /\ DOMAIN c = Cells(Width(t, i.w, i.h), Height(t, i.w, i.h))
        /\ DOMAIN d = Cells(Width(t, j.w, j.h), Height(t, j.w, j.h))
        /\ \A x \in Cells(i.w, i.h) : c[MovedTo(t, i.w, i.h, x)] = a[x]
        /\ \A x \in Cells(j.w, j.h) : d[MovedTo(t, j.w, j.h, x)] = b[x]
    BY <1>4, CropTurns
  <2>3. /\ i = [x |-> i.x, y |-> i.y, w |-> i.w, h |-> i.h]
        /\ j = [x |-> j.x, y |-> j.y, w |-> j.w, h |-> j.h]
        /\ i.x \in Int /\ i.y \in Int /\ i.w \in Int /\ i.h \in Int
        /\ j.x \in Int /\ j.y \in Int /\ j.w \in Int /\ j.h \in Int
    BY <1>4, BoundsAre DEF Box
  <2>4. Bounds(f) = TurnedBox(t, l.w, l.h, i) /\ Bounds(g) = TurnedBox(t, r.w, r.h, j)
    BY <1>4, BoundsTurn
  <2>5. l.w \in Int /\ l.h \in Int /\ r.w \in Int /\ r.h \in Int
    BY FrameFacts
  <2>6. /\ f.w = Width(t, l.w, l.h) /\ f.h = Height(t, l.w, l.h)
        /\ g.w = Width(t, r.w, r.h) /\ g.h = Height(t, r.w, r.h)
    BY TransformedIs
  <2> HIDE DEF i, j, a, b, c, d, f, g
  <2>7. f.w = g.w /\ f.h = g.h <=> l.w = r.w /\ l.h = r.h
    BY <2>6 DEF Width, Height
  <2>8. Padded(l, r) <=> Padded(f, g)
    <3>1. CASE l.w = r.w /\ l.h = r.h
      <4>1. Bounds(f) = Bounds(g) <=> i = j
        BY <2>3, <2>4, <2>5, <3>1, BoxTurnsBack
      <4> QED
        BY <2>7, <3>1, <4>1 DEF Padded, i, j
    <3>2. CASE ~(l.w = r.w /\ l.h = r.h)
      BY <2>7, <3>2 DEF Padded
    <3> QED
      BY <3>1, <3>2
  <2>9. DOMAIN a = Cells(i.w, i.h) /\ DOMAIN b = Cells(j.w, j.h)
    BY <2>1
  <2>10. DOMAIN a = DOMAIN b <=> i.w = j.w /\ i.h = j.h
    BY <2>1, <2>9, CellsTell
  <2>11. DOMAIN c = DOMAIN d <=> i.w = j.w /\ i.h = j.h
    <3> DEFINE v == Width(t, i.w, i.h)
               u1 == Height(t, i.w, i.h)
               v2 == Width(t, j.w, j.h)
               u2 == Height(t, j.w, j.h)
    <3>1. v \in Nat \ {0} /\ u1 \in Nat \ {0} /\ v2 \in Nat \ {0} /\ u2 \in Nat \ {0}
      BY <2>1 DEF Width, Height
    <3>2. v = v2 /\ u1 = u2 <=> i.w = j.w /\ i.h = j.h
      BY DEF Width, Height
    <3> HIDE DEF v, u1, v2, u2
    <3>3. DOMAIN c = Cells(v, u1) /\ DOMAIN d = Cells(v2, u2)
      BY <2>2 DEF v, u1, v2, u2
    <3> QED
      BY <3>1, <3>2, <3>3, CellsTell
  <2>12. ASSUME DOMAIN a = DOMAIN b
         PROVE  /\ a = b <=> c = d
                /\ Recoloured(a, b) <=> Recoloured(c, d)
                /\ Delta(l, r) = Delta(f, g)
                /\ Cardinality(DOMAIN a) = Cardinality(DOMAIN c)
    <3> DEFINE S == Cells(i.w, i.h)
               T == Cells(Width(t, i.w, i.h), Height(t, i.w, i.h))
               M == [x \in S |-> MovedTo(t, i.w, i.h, x)]
    <3>1. i.w = j.w /\ i.h = j.h
      BY <2>10, <2>12
    <3>2. /\ DOMAIN a = S /\ DOMAIN b = S /\ DOMAIN c = T /\ DOMAIN d = T
          /\ a \in [S -> Pixel] /\ b \in [S -> Pixel] /\ c \in [T -> Pixel] /\ d \in [T -> Pixel]
      BY <2>1, <2>2, <3>1
    <3>3. Carries(M, S, T) /\ IsFiniteSet(S)
      BY <2>1, CellsCarried, CellsFinite
    <3>4. \A x \in S : c[M[x]] = a[x] /\ d[M[x]] = b[x]
      BY <2>2, <3>1
    <3> HIDE DEF S, T, M
    <3>5. (a = b <=> c = d) /\ (Recoloured(a, b) <=> Recoloured(c, d))
      BY <3>2, <3>3, <3>4, PicturesAlike
    <3>6. SumFunction([x \in S |-> Difference(a[x], b[x])]) = SumFunction([x \in T |-> Difference(c[x], d[x])])
      BY <3>2, <3>3, <3>4, DeltaMoved
    <3>7. Delta(l, r) = SumFunction([x \in DOMAIN a |-> Difference(a[x], b[x])])
          /\ Delta(f, g) = SumFunction([x \in DOMAIN c |-> Difference(c[x], d[x])])
      BY DEF Delta, a, b, c, d
    <3>8. Delta(l, r) = Delta(f, g)
      BY <3>2, <3>6, <3>7
    <3>9. Cardinality(S) = Cardinality(T)
      BY <3>3, SizeMoved
    <3> QED
      BY <3>2, <3>5, <3>8, <3>9
  <2>13. CompareAligned(l, r, u) = CompareAligned(f, g, u)
    BY <1>2, <1>4, <2>8, <2>10, <2>11, <2>12, AlignedAlike DEF a, b, c, d
  <2> QED
    BY <2>13 DEF f, g
<1> QED
  BY <1>3, <1>4

(* To look at one under a transform is to look at the other under the one     *)
(* that undoes it.                                                            *)
LEMMA AlignedBack ==
  ASSUME NEW t \in Transform, NEW l, NEW r, Frame(l), Frame(r)
  PROVE  CompareAligned(l, Transformed(t, r), t) = CompareAligned(r, Transformed(Undone(t), l), Undone(t))
<1> DEFINE u == Undone(t)
           g == Transformed(t, r)
           f == Transformed(u, l)
<1>1. u \in Transform /\ (u = "identity" <=> t = "identity") /\ Transformed(u, g) = r /\ Frame(g) /\ Frame(f)
  BY UndoneIs, TransformedBack, TransformedIs
<1>2. CompareAligned(Transformed(u, l), Transformed(u, g), t) = CompareAligned(l, g, t)
  BY <1>1, AlignedTurned
<1>3. CompareAligned(f, r, t) = CompareAligned(r, f, t)
  BY <1>1, AlignedEither
<1>4. CompareAligned(r, f, t) = CompareAligned(r, f, u)
  BY <1>1 DEF CompareAligned
<1> QED
  BY <1>1, <1>2, <1>3, <1>4

-----------------------------------------------------------------------------
(* DmiMatching: comparison of two states.                                     *)
LEMMA RanksAre ==
  /\ Rank("exact") = 1 /\ Rank("transformed") = 2 /\ Rank("padded") = 3
  /\ Rank("palette") = 4 /\ Rank("near") = 5 /\ Rank("different") = 6
<1>1. DOMAIN Kinds = 1 .. 6
  BY DEF Kinds
<1>2. /\ Kinds[1] = "exact" /\ Kinds[2] = "transformed" /\ Kinds[3] = "padded"
      /\ Kinds[4] = "palette" /\ Kinds[5] = "near" /\ Kinds[6] = "different"
  BY DEF Kinds
<1>3. \A i, j \in 1 .. 6 : Kinds[i] = Kinds[j] => i = j
  BY DEF Kinds
<1>4. ASSUME NEW i \in 1 .. 6 PROVE (CHOOSE j \in DOMAIN Kinds : Kinds[j] = Kinds[i]) = i
  BY <1>1, <1>3
<1>5. \A i \in 1 .. 6 : Rank(Kinds[i]) = i
  BY <1>4 DEF Rank
<1> QED
  BY <1>2, <1>5

LEMMA KindsRanked == \A i \in 1 .. 6 : Rank(Kinds[i]) = i
<1>1. TAKE i \in 1 .. 6
<1>2. i = 1 \/ i = 2 \/ i = 3 \/ i = 4 \/ i = 5 \/ i = 6
  OBVIOUS
<1> QED
  BY <1>2, RanksAre DEF Kinds

LEMMA AlignedRank ==
  ASSUME NEW l, NEW r, NEW t
  PROVE  Rank(CompareAligned(l, r, t)) \in 1 .. 6
<1>1. CASE Seen(l) = {} \/ Seen(r) = {}
  BY <1>1, AlignedBlank, RanksAre
<1>2. CASE Seen(l) # {} /\ Seen(r) # {}
  BY <1>2, AlignedIs, RanksAre
<1> QED
  BY <1>1, <1>2

LEMMA StateFacts ==
  ASSUME NEW s, IconState(s)
  PROVE  /\ s.dirs \in {1, 4, 8} /\ s.frames \in Nat \ {0}
         /\ \A x \in Shots(s) : /\ x = <<x[1], x[2]>> /\ x[1] \in 1 .. s.frames
                                /\ x[2] \in Directions(s.dirs) /\ Frame(s.px[x])
         /\ \A k \in 1 .. s.frames, d \in Directions(s.dirs) : <<k, d>> \in Shots(s)
         /\ \E x : x \in Shots(s)
<1>1. s.dirs \in {1, 4, 8} /\ s.frames \in Nat \ {0} /\ \A x \in Shots(s) : Frame(s.px[x])
  BY DEF IconState
<1>2. /\ \A x \in Shots(s) : x = <<x[1], x[2]>> /\ x[1] \in 1 .. s.frames /\ x[2] \in Directions(s.dirs)
      /\ \A k \in 1 .. s.frames, d \in Directions(s.dirs) : <<k, d>> \in Shots(s)
  BY DEF Shots
<1>3. \E d : d \in Directions(s.dirs)
  BY <1>1, DirectionsAre
<1>4. 1 \in 1 .. s.frames
  BY <1>1
<1> QED
  BY <1>1, <1>2, <1>3, <1>4

LEMMA ValidBack ==
  ASSUME NEW s, IconState(s), NEW t \in Transform, Valid(s, t)
  PROVE  /\ Valid(s, Undone(t))
         /\ \A d \in Directions(s.dirs) :
              /\ TransformDirection(TransformDirection(d, t), Undone(t)) = d
              /\ TransformDirection(TransformDirection(d, Undone(t)), t) = d
<1>1. s.dirs \in {1, 4, 8}
  BY StateFacts
<1>2. Valid(s, Undone(t)) /\ \A d \in Directions(s.dirs) : TransformDirection(TransformDirection(d, t), Undone(t)) = d
  BY <1>1, DirectionsTurn DEF Valid
<1>3. \A d \in Directions(s.dirs) : TransformDirection(TransformDirection(d, Undone(t)), Undone(Undone(t))) = d
  BY <1>1, UndoneIs, DirectionsTurn
<1> QED
  BY <1>2, <1>3, UndoneIs

LEMMA ValidNot ==
  ASSUME NEW s, IconState(s)
  PROVE  "identity" \in Transform /\ Valid(s, "identity")
  BY DEF Transform, Valid, TransformDirection

LEMMA UnderIs ==
  ASSUME NEW s, IconState(s), NEW t \in Transform, Valid(s, t), NEW x \in Shots(s)
  PROVE  /\ <<x[1], TransformDirection(x[2], Undone(t))>> \in Shots(s)
         /\ Under(t, s, x) = Transformed(t, s.px[<<x[1], TransformDirection(x[2], Undone(t))>>])
         /\ Frame(Under(t, s, x))
<1> DEFINE e == TransformDirection(x[2], Undone(t))
           from == CHOOSE d \in Directions(s.dirs) : TransformDirection(d, t) = x[2]
<1>1. x[1] \in 1 .. s.frames /\ x[2] \in Directions(s.dirs)
  BY StateFacts
<1>2. e \in Directions(s.dirs) /\ TransformDirection(e, t) = x[2]
  BY <1>1, ValidBack DEF Valid
<1>3. \A d \in Directions(s.dirs) : TransformDirection(d, t) = x[2] => d = e
  BY ValidBack
<1>4. from = e
  BY <1>2, <1>3
<1>5. Under(t, s, x) = Transformed(t, s.px[<<x[1], from>>])
  BY DEF Under
<1> HIDE DEF e, from
<1>6. <<x[1], e>> \in Shots(s) /\ Frame(s.px[<<x[1], e>>])
  BY <1>1, <1>2, StateFacts
<1> QED
  BY <1>4, <1>5, <1>6, TransformedIs DEF e

LEMMA StillIs ==
  ASSUME NEW s, IconState(s), NEW x \in Shots(s)
  PROVE  Under("identity", s, x) = s.px[x]
<1>1. TransformDirection(x[2], Undone("identity")) = x[2]
  BY DEF Undone, TransformDirection
<1>2. x = <<x[1], x[2]>> /\ Frame(s.px[x])
  BY StateFacts
<1>3. Under("identity", s, x) = Transformed("identity", s.px[<<x[1], x[2]>>])
  BY <1>1, ValidNot, UnderIs
<1> QED
  BY <1>2, <1>3, TransformedNot

Alike(l, r) == l.dirs = r.dirs /\ l.frames = r.frames

LEMMA AlikeFacts ==
  ASSUME NEW l, NEW r, Alike(l, r)
  PROVE  /\ Shots(l) = Shots(r) /\ Directions(l.dirs) = Directions(r.dirs)
         /\ \A t : Valid(l, t) <=> Valid(r, t)
  BY DEF Alike, Shots, Valid

RanksUnder(l, r, t) == {Rank(CompareAligned(l.px[x], Under(t, r, x), t)) : x \in Shots(l)}

LEMMA UnderRanks ==
  ASSUME NEW l, IconState(l), NEW r, NEW t
  PROVE  /\ CompareUnder(l, r, t) = Max(RanksUnder(l, r, t))
         /\ CompareUnder(l, r, t) \in RanksUnder(l, r, t) /\ CompareUnder(l, r, t) \in 1 .. 6
         /\ \A x \in Shots(l) : Rank(CompareAligned(l.px[x], Under(t, r, x), t)) <= CompareUnder(l, r, t)
<1> DEFINE R == RanksUnder(l, r, t)
<1>1. CompareUnder(l, r, t) = Max(R)
  BY DEF CompareUnder, RanksUnder
<1>2. \A x \in Shots(l) : Rank(CompareAligned(l.px[x], Under(t, r, x), t)) \in R
  BY DEF RanksUnder
<1>3. R \in SUBSET (1 .. 6)
  BY AlignedRank DEF RanksUnder
<1>4. R # {}
  BY <1>2, StateFacts
<1> HIDE DEF R
<1>5. R \in SUBSET (0 .. 6)
  BY <1>3
<1>6. Max(R) \in R /\ \A a \in R : a <= Max(R)
  BY <1>4, <1>5, HighestIs
<1> QED
  BY <1>1, <1>2, <1>3, <1>6 DEF R

LEMMA RanksEither ==
  ASSUME NEW l, NEW r, IconState(l), IconState(r), Alike(l, r), NEW t \in Transform, Valid(r, t)
  PROVE  RanksUnder(l, r, t) \subseteq RanksUnder(r, l, Undone(t))
<1> DEFINE u == Undone(t)
<1>1. u \in Transform /\ Undone(u) = t /\ Valid(l, u) /\ Valid(r, u)
  BY UndoneIs, ValidBack, AlikeFacts
<1> SUFFICES ASSUME NEW x \in Shots(l)
             PROVE  Rank(CompareAligned(l.px[x], Under(t, r, x), t)) \in RanksUnder(r, l, u)
  BY DEF RanksUnder
<1> DEFINE y == <<x[1], TransformDirection(x[2], u)>>
<1>2. x \in Shots(r) /\ x = <<x[1], x[2]>> /\ x[2] \in Directions(l.dirs)
  BY StateFacts, AlikeFacts
<1>3. y \in Shots(r) /\ Under(t, r, x) = Transformed(t, r.px[y])
  BY <1>2, UnderIs
<1>4. y[1] = x[1] /\ TransformDirection(y[2], Undone(u)) = x[2]
  BY <1>1, <1>2, ValidBack, AlikeFacts
<1> HIDE DEF u, y
<1>5. y \in Shots(l)
  BY <1>3, AlikeFacts
<1>6. Under(u, l, y) = Transformed(u, l.px[x])
  BY <1>1, <1>2, <1>4, <1>5, UnderIs
<1>7. Frame(l.px[x]) /\ Frame(r.px[y])
  BY <1>3, StateFacts
<1>8. CompareAligned(l.px[x], Transformed(t, r.px[y]), t) = CompareAligned(r.px[y], Transformed(u, l.px[x]), u)
  BY <1>7, AlignedBack DEF u
<1>9. Rank(CompareAligned(l.px[x], Under(t, r, x), t)) = Rank(CompareAligned(r.px[y], Under(u, l, y), u))
  BY <1>3, <1>6, <1>8
<1> QED
  BY <1>3, <1>9 DEF RanksUnder

LEMMA UnderEither ==
  ASSUME NEW l, NEW r, IconState(l), IconState(r), Alike(l, r), NEW t \in Transform, Valid(r, t)
  PROVE  CompareUnder(l, r, t) = CompareUnder(r, l, Undone(t)) /\ Valid(l, Undone(t))
<1>1. Undone(t) \in Transform /\ Undone(Undone(t)) = t /\ Valid(l, Undone(t)) /\ Alike(r, l)
  BY UndoneIs, ValidBack, AlikeFacts DEF Alike
<1>2. RanksUnder(l, r, t) \subseteq RanksUnder(r, l, Undone(t))
  BY RanksEither
<1>3. RanksUnder(r, l, Undone(t)) \subseteq RanksUnder(l, r, t)
  BY <1>1, RanksEither
<1>4. RanksUnder(l, r, t) = RanksUnder(r, l, Undone(t))
  BY <1>2, <1>3
<1> QED
  BY <1>1, <1>4, UnderRanks

RanksOf(l, r) == {CompareUnder(l, r, t) : t \in {u \in Transform : Valid(r, u)}}

LEMMA StatesRanked ==
  ASSUME NEW l, NEW r, IconState(l), IconState(r), Alike(l, r)
  PROVE  /\ CompareStates(l, r) = Kinds[Min(RanksOf(l, r))]
         /\ Rank(CompareStates(l, r)) = Min(RanksOf(l, r))
         /\ Min(RanksOf(l, r)) \in RanksOf(l, r) /\ Min(RanksOf(l, r)) \in 1 .. 6
         /\ \A t \in Transform : Valid(r, t) => Min(RanksOf(l, r)) <= CompareUnder(l, r, t)
<1> DEFINE R == RanksOf(l, r)
<1>1. CompareStates(l, r) = Kinds[Min(R)]
  BY DEF CompareStates, RanksOf, Alike
<1>2. \A t \in Transform : Valid(r, t) => CompareUnder(l, r, t) \in R
  BY DEF RanksOf
<1>3. R \in SUBSET (1 .. 6)
  BY UnderRanks DEF RanksOf
<1>4. R # {}
  BY <1>2, ValidNot
<1> HIDE DEF R
<1>5. R \in SUBSET Nat
  BY <1>3
<1>6. Min(R) \in R /\ \A a \in R : Min(R) <= a
  BY <1>4, <1>5, LowestIs
<1>7. Min(R) \in 1 .. 6
  BY <1>3, <1>6
<1> QED
  BY <1>1, <1>2, <1>6, <1>7, KindsRanked DEF R

LEMMA StatesEither ==
  ASSUME NEW l, NEW r, IconState(l), IconState(r)
  PROVE  CompareStates(l, r) = CompareStates(r, l)
<1>1. CASE Alike(l, r)
  <2>1. Alike(r, l)
    BY <1>1 DEF Alike
  <2>2. RanksOf(l, r) \subseteq RanksOf(r, l)
    BY <1>1, UnderEither, UndoneIs DEF RanksOf
  <2>3. RanksOf(r, l) \subseteq RanksOf(l, r)
    BY <2>1, UnderEither, UndoneIs DEF RanksOf
  <2>4. RanksOf(l, r) = RanksOf(r, l)
    BY <2>2, <2>3
  <2> QED
    BY <1>1, <2>1, <2>4, StatesRanked
<1>2. CASE ~Alike(l, r)
  BY <1>2 DEF CompareStates, Alike
<1> QED
  BY <1>1, <1>2

(* What is a candidate.                                                       *)
Views(t, s) == [x \in Shots(s) |-> Visible(Under(t, s, x))]

SignaturesUnder(t, s) ==
  LET seen == [x \in Shots(s) |-> Under(t, s, x)]
      crops == [x \in Shots(s) |-> Visible(seen[x])]
  IN {<<"exact", seen>>, <<"cropped", crops>>, <<"palette", PaletteOf(crops)>>}

LEMMA SignaturesHave ==
  ASSUME NEW s, NEW t \in Transform, Valid(s, t)
  PROVE  /\ <<"cropped", Views(t, s)>> \in Signatures(s)
         /\ <<"palette", PaletteOf(Views(t, s))>> \in Signatures(s)
<1> DEFINE seen == [x \in Shots(s) |-> Under(t, s, x)]
           crops == [x \in Shots(s) |-> Visible(seen[x])]
<1>1. Signatures(s) = UNION {SignaturesUnder(u, s) : u \in {v \in Transform : Valid(s, v)}}
  BY DEF Signatures, SignaturesUnder
<1>2. SignaturesUnder(t, s) \subseteq Signatures(s)
  BY <1>1
<1>3. crops = Views(t, s)
  BY DEF Views
<1>4. SignaturesUnder(t, s) = {<<"exact", seen>>, <<"cropped", crops>>, <<"palette", PaletteOf(crops)>>}
  BY DEF SignaturesUnder
<1> HIDE DEF seen, crops
<1> QED
  BY <1>2, <1>3, <1>4

PlacesOf(crops) == UNION {{<<x, c>> : c \in DOMAIN crops[x]} : x \in DOMAIN crops}

LEMMA PlacesAre ==
  ASSUME NEW crops, NEW p
  PROVE  p \in PlacesOf(crops) <=>
           p = <<p[1], p[2]>> /\ p[1] \in DOMAIN crops /\ p[2] \in DOMAIN crops[p[1]]
  BY DEF PlacesOf

LEMMA PaletteSame ==
  ASSUME NEW a, NEW b, DOMAIN a = DOMAIN b, \A x \in DOMAIN a : DOMAIN a[x] = DOMAIN b[x],
         \A x, y \in DOMAIN a : \A c \in DOMAIN a[x], d \in DOMAIN a[y] :
           a[x][c] = a[y][d] <=> b[x][c] = b[y][d],
         \A x \in DOMAIN a : \A c \in DOMAIN a[x] : a[x][c].alpha = b[x][c].alpha
  PROVE  PaletteOf(a) = PaletteOf(b)
<1> DEFINE P == PlacesOf(a)
           Same(crops, p) == {q \in P : crops[q[1]][q[2]] = crops[p[1]][p[2]]}
<1>1. \A p \in P : p[1] \in DOMAIN a /\ p[2] \in DOMAIN a[p[1]]
  BY PlacesAre
<1>2. PlacesOf(b) = P
  <2>1. \A p : p \in PlacesOf(b) <=> p \in P
    BY PlacesAre
  <2> QED
    BY <2>1
<1>3. PaletteOf(a) = [p \in P |-> [same |-> Same(a, p), alpha |-> a[p[1]][p[2]].alpha]]
  BY DEF PaletteOf, PlacesOf
<1>4. PaletteOf(b) = [p \in P |-> [same |-> Same(b, p), alpha |-> b[p[1]][p[2]].alpha]]
  <2>1. PaletteOf(b) = [p \in PlacesOf(b) |->
           [same |-> {q \in PlacesOf(b) : b[q[1]][q[2]] = b[p[1]][p[2]]}, alpha |-> b[p[1]][p[2]].alpha]]
    BY DEF PaletteOf, PlacesOf
  <2> HIDE DEF P
  <2> QED
    BY <1>2, <2>1
<1>5. ASSUME NEW p \in P
      PROVE  Same(a, p) = Same(b, p) /\ a[p[1]][p[2]].alpha = b[p[1]][p[2]].alpha
  <2>1. \A q \in P : a[q[1]][q[2]] = a[p[1]][p[2]] <=> b[q[1]][q[2]] = b[p[1]][p[2]]
    BY <1>1
  <2> HIDE DEF P
  <2> QED
    BY <1>1, <2>1
<1> HIDE DEF P, Same
<1> QED
  BY <1>3, <1>4, <1>5

LEMMA VisibleSame ==
  ASSUME NEW l, NEW r, NEW t, Rank(CompareAligned(l, r, t)) <= 3
  PROVE  Visible(l) = Visible(r)
<1>1. CASE Seen(l) = {} \/ Seen(r) = {}
  <2>1. Seen(l) = {} /\ Seen(r) = {}
    BY <1>1, AlignedBlank, RanksAre
  <2> QED
    BY <2>1 DEF Visible
<1>2. CASE Seen(l) # {} /\ Seen(r) # {}
  <2>1. Cropped(l) = Cropped(r)
    BY <1>2, AlignedIs, RanksAre
  <2> QED
    BY <1>2, <2>1 DEF Visible
<1> QED
  BY <1>1, <1>2

LEMMA VisibleRecoloured ==
  ASSUME NEW l, NEW r, NEW t, Rank(CompareAligned(l, r, t)) <= 4
  PROVE  /\ DOMAIN Visible(l) = DOMAIN Visible(r)
         /\ \A c, d \in DOMAIN Visible(l) : Visible(l)[c] = Visible(l)[d] <=> Visible(r)[c] = Visible(r)[d]
         /\ \A c \in DOMAIN Visible(l) : Visible(l)[c].alpha = Visible(r)[c].alpha
<1>1. CASE Rank(CompareAligned(l, r, t)) <= 3
  <2>1. Visible(l) = Visible(r)
    BY <1>1, VisibleSame
  <2> QED
    BY <2>1
<1>2. CASE Seen(l) = {} \/ Seen(r) = {}
  <2>1. Seen(l) = {} /\ Seen(r) = {}
    BY <1>2, AlignedBlank, RanksAre
  <2> QED
    BY <2>1 DEF Visible
<1>3. CASE Seen(l) # {} /\ Seen(r) # {} /\ ~(Rank(CompareAligned(l, r, t)) <= 3)
  <2>1. DOMAIN Cropped(l) = DOMAIN Cropped(r) /\ Recoloured(Cropped(l), Cropped(r))
    BY <1>3, AlignedIs, RanksAre
  <2>2. Visible(l) = Cropped(l) /\ Visible(r) = Cropped(r)
    BY <1>3 DEF Visible
  <2> QED
    BY <2>1, <2>2 DEF Recoloured
<1> QED
  BY <1>1, <1>2, <1>3

LEMMA ShotsFinite ==
  ASSUME NEW s, IconState(s) PROVE IsFiniteSet(Shots(s))
<1>1. s.dirs \in {1, 4, 8} /\ s.frames \in Nat \ {0}
  BY StateFacts
<1>2. Directions(s.dirs) \subseteq {Clockwise[i] : i \in 1 .. 8}
  BY <1>1, DirectionsAre
<1>3. IsFiniteSet({Clockwise[i] : i \in 1 .. 8})
  <2> DEFINE D == {Clockwise[i] : i \in 1 .. 8}
             h == [i \in 1 .. 8 |-> Clockwise[i]]
  <2>1. IsFiniteSet(1 .. 8)
    <3>1. 8 \in Nat
      OBVIOUS
    <3> QED
      BY <3>1, InitialSegment, Zenon
  <2>2. h \in Surjection(1 .. 8, D)
    BY DEF Surjection
  <2> HIDE DEF D, h
  <2> QED
    BY <2>1, <2>2, FS_Surjection DEF D
<1>4. IsFiniteSet(Directions(s.dirs))
  BY <1>2, <1>3, FS_Subset
<1>5. IsFiniteSet(1 .. s.frames)
  BY <1>1, FS_Interval
<1> QED
  BY <1>4, <1>5, FS_Product DEF Shots

LEMMA MatchesMeet ==
  ASSUME NEW l, NEW r, IconState(l), IconState(r),
         \/ Rank(CompareStates(l, r)) <= 3
         \/ Cardinality(Shots(l)) = 1 /\ Rank(CompareStates(l, r)) <= 4
  PROVE  Candidates(l, r)
<1>1. Alike(l, r)
  <2> SUFFICES ASSUME ~Alike(l, r) PROVE FALSE
    OBVIOUS
  <2>1. CompareStates(l, r) = "different"
    BY DEF CompareStates, Alike
  <2> QED
    BY <2>1, RanksAre
<1>2. PICK t \in Transform : Valid(r, t) /\ CompareUnder(l, r, t) = Rank(CompareStates(l, r))
  <2>1. Rank(CompareStates(l, r)) \in RanksOf(l, r)
    BY <1>1, StatesRanked
  <2> QED
    BY <2>1 DEF RanksOf
<1> DEFINE L(x) == l.px[x]
           R(x) == Under(t, r, x)
<1>3. \A x \in Shots(l) : Rank(CompareAligned(L(x), R(x), t)) <= Rank(CompareStates(l, r))
  BY <1>2, UnderRanks
<1>4. \A x \in Shots(l) : Rank(CompareAligned(L(x), R(x), t)) \in Int
  BY AlignedRank
<1>5. Rank(CompareStates(l, r)) \in Int
  BY <1>1, StatesRanked
<1>6. Shots(r) = Shots(l)
  BY <1>1, AlikeFacts
<1>7. Views("identity", l) = [x \in Shots(l) |-> Visible(L(x))]
  BY StillIs DEF Views
<1>8. Views(t, r) = [x \in Shots(l) |-> Visible(R(x))]
  BY <1>6 DEF Views
<1>9. "identity" \in Transform /\ Valid(l, "identity")
  BY ValidNot
<1> HIDE DEF L, R
<1>10. CASE Rank(CompareStates(l, r)) <= 3
  <2>1. \A x \in Shots(l) : Rank(CompareAligned(L(x), R(x), t)) <= 3
    BY <1>3, <1>4, <1>5, <1>10
  <2>2. \A x \in Shots(l) : Visible(L(x)) = Visible(R(x))
    BY <2>1, VisibleSame
  <2>3. Views("identity", l) = Views(t, r)
    BY <1>7, <1>8, <2>2
  <2>4. <<"cropped", Views("identity", l)>> \in Signatures(l) /\ <<"cropped", Views(t, r)>> \in Signatures(r)
    BY <1>2, <1>9, SignaturesHave
  <2> QED
    BY <2>3, <2>4 DEF Candidates
<1>11. CASE Cardinality(Shots(l)) = 1 /\ Rank(CompareStates(l, r)) <= 4
  <2> DEFINE a == Views("identity", l)
             b == Views(t, r)
  <2>1. \A x, y \in Shots(l) : x = y
    <3>1. IsFiniteSet(Shots(l))
      BY ShotsFinite
    <3>2. \E x : Shots(l) = {x}
      BY <1>11, <3>1, FS_Singleton
    <3> QED
      BY <3>2
  <2>2. \A x \in Shots(l) : Rank(CompareAligned(L(x), R(x), t)) <= 4
    BY <1>3, <1>4, <1>5, <1>11
  <2>3. \A x \in Shots(l) :
          /\ DOMAIN Visible(L(x)) = DOMAIN Visible(R(x))
          /\ \A c, d \in DOMAIN Visible(L(x)) :
               Visible(L(x))[c] = Visible(L(x))[d] <=> Visible(R(x))[c] = Visible(R(x))[d]
          /\ \A c \in DOMAIN Visible(L(x)) : Visible(L(x))[c].alpha = Visible(R(x))[c].alpha
    BY <2>2, VisibleRecoloured
  <2>4. /\ DOMAIN a = Shots(l) /\ DOMAIN b = Shots(l)
        /\ \A x \in Shots(l) : a[x] = Visible(L(x)) /\ b[x] = Visible(R(x))
    BY <1>7, <1>8
  <2> HIDE DEF a, b
  <2>5. PaletteOf(a) = PaletteOf(b)
    <3>1. \A x \in DOMAIN a : DOMAIN a[x] = DOMAIN b[x]
      BY <2>3, <2>4
    <3>2. \A x, y \in DOMAIN a : \A c \in DOMAIN a[x], d \in DOMAIN a[y] :
            a[x][c] = a[y][d] <=> b[x][c] = b[y][d]
      <4> TAKE x, y \in DOMAIN a
      <4>1. x \in Shots(l) /\ y = x
        BY <2>1, <2>4
      <4>2. a[x] = Visible(L(x)) /\ b[x] = Visible(R(x))
        BY <2>4, <4>1
      <4> QED
        BY <2>3, <4>1, <4>2
    <3>3. \A x \in DOMAIN a : \A c \in DOMAIN a[x] : a[x][c].alpha = b[x][c].alpha
      BY <2>3, <2>4
    <3> QED
      BY <2>4, <3>1, <3>2, <3>3, PaletteSame
  <2>6. <<"palette", PaletteOf(a)>> \in Signatures(l) /\ <<"palette", PaletteOf(b)>> \in Signatures(r)
    BY <1>2, <1>9, SignaturesHave DEF a, b
  <2> QED
    BY <2>5, <2>6 DEF Candidates
<1> QED
  BY <1>10, <1>11

(* Copies that are turned.                                                    *)
LEMMA CopyRank ==
  ASSUME NEW f, NEW t
  PROVE  /\ Rank(CompareAligned(f, f, t)) <= 2
         /\ t = "identity" => Rank(CompareAligned(f, f, t)) = 1
<1>1. CASE Seen(f) = {}
  BY <1>1, AlignedBlank, RanksAre
<1>2. CASE Seen(f) # {}
  <2>1. ~Padded(f, f)
    BY DEF Padded
  <2>2. CompareAligned(f, f, t) = IF t # "identity" THEN "transformed" ELSE "exact"
    BY <1>2, <2>1, AlignedIs
  <2> QED
    BY <2>2, RanksAre
<1> QED
  BY <1>1, <1>2

LEMMA SelfIsExact ==
  ASSUME NEW s, IconState(s) PROVE CompareStates(s, s) = "exact"
<1> DEFINE u == "identity"
<1>1. u \in Transform /\ Valid(s, u) /\ Alike(s, s)
  BY ValidNot DEF Alike
<1>2. \A x \in Shots(s) : Rank(CompareAligned(s.px[x], Under(u, s, x), u)) = 1
  BY StillIs, CopyRank
<1>3. CompareUnder(s, s, u) = 1
  <2>1. CompareUnder(s, s, u) \in RanksUnder(s, s, u)
    BY UnderRanks
  <2>2. RanksUnder(s, s, u) \subseteq {1}
    BY <1>2 DEF RanksUnder
  <2> QED
    BY <2>1, <2>2
<1>4. Min(RanksOf(s, s)) <= 1 /\ Min(RanksOf(s, s)) \in 1 .. 6
  BY <1>1, <1>3, StatesRanked
<1>5. Min(RanksOf(s, s)) = 1
  BY <1>4
<1>6. CompareStates(s, s) = Kinds[1]
  BY <1>1, <1>5, StatesRanked
<1> QED
  BY <1>6 DEF Kinds

LEMMA TurnedIsCopy ==
  ASSUME NEW s, IconState(s), NEW t \in Transform, Valid(s, t)
  PROVE  CompareStates(s, [s EXCEPT !.px = [x \in Shots(s) |-> Under(t, s, x)]]) \in {"exact", "transformed"}
<1> DEFINE P == [x \in Shots(s) |-> Under(t, s, x)]
           r == [s EXCEPT !.px = P]
           u == Undone(t)
<1>1. s = [dirs |-> s.dirs, frames |-> s.frames, px |-> s.px]
  BY DEF IconState
<1>2. r = [dirs |-> s.dirs, frames |-> s.frames, px |-> P]
  <2> HIDE DEF P
  <2> QED
    BY <1>1
<1>3. DOMAIN P = Shots(s) /\ \A x \in Shots(s) : P[x] = Under(t, s, x) /\ Frame(P[x])
  BY UnderIs
<1> HIDE DEF P, r
<1>4. r.dirs = s.dirs /\ r.frames = s.frames /\ r.px = P
  BY <1>2
<1>5. Alike(s, r) /\ Shots(r) = Shots(s)
  BY <1>4, AlikeFacts DEF Alike
<1>6. r = [dirs |-> r.dirs, frames |-> r.frames, px |-> r.px]
  BY <1>2, <1>4
<1>7. IconState(r)
  BY <1>3, <1>4, <1>5, <1>6, StateFacts DEF IconState
<1>8. u \in Transform /\ Undone(u) = t /\ Valid(r, u)
  BY <1>5, UndoneIs, ValidBack, AlikeFacts
<1>9. ASSUME NEW x \in Shots(s) PROVE Under(u, r, x) = s.px[x]
  <2> DEFINE y == <<x[1], TransformDirection(x[2], t)>>
  <2>1. x \in Shots(r) /\ x = <<x[1], x[2]>> /\ x[2] \in Directions(s.dirs) /\ Frame(s.px[x])
    BY <1>5, StateFacts
  <2>2. y \in Shots(r) /\ Under(u, r, x) = Transformed(u, r.px[y])
    BY <1>7, <1>8, <2>1, UnderIs
  <2>3. y[1] = x[1] /\ TransformDirection(y[2], u) = x[2]
    BY <2>1, ValidBack
  <2> HIDE DEF y
  <2>4. y \in Shots(s) /\ r.px[y] = Under(t, s, y)
    BY <1>3, <1>4, <1>5, <2>2
  <2>5. Under(t, s, y) = Transformed(t, s.px[x])
    BY <2>1, <2>3, <2>4, UnderIs
  <2> QED
    BY <2>1, <2>2, <2>4, <2>5, TransformedBack
<1>10. \A x \in Shots(s) : Rank(CompareAligned(s.px[x], Under(u, r, x), u)) <= 2
  BY <1>9, CopyRank
<1> HIDE DEF u
<1>11. CompareUnder(s, r, u) <= 2
  <2>1. CompareUnder(s, r, u) \in RanksUnder(s, r, u)
    BY UnderRanks
  <2> QED
    BY <1>10, <2>1 DEF RanksUnder
<1>12. Min(RanksOf(s, r)) <= CompareUnder(s, r, u) /\ Min(RanksOf(s, r)) \in 1 .. 6 /\ CompareUnder(s, r, u) \in 1 .. 6
       /\ CompareStates(s, r) = Kinds[Min(RanksOf(s, r))]
  BY <1>5, <1>7, <1>8, StatesRanked, UnderRanks
<1>13. Min(RanksOf(s, r)) = 1 \/ Min(RanksOf(s, r)) = 2
  BY <1>11, <1>12
<1>14. CompareStates(s, r) \in {"exact", "transformed"}
  <2>1. Kinds[1] = "exact" /\ Kinds[2] = "transformed"
    BY DEF Kinds
  <2> QED
    BY <1>12, <1>13, <2>1
<1> QED
  BY <1>14 DEF r, P

(* Marked pictures.                                                           *)
Spot(i) == <<IF i \in {6, 7, 8} THEN 0 ELSE IF i \in {2, 3, 4} THEN 2 ELSE 1,
             IF i \in {1, 2, 8} THEN 0 ELSE IF i \in {4, 5, 6} THEN 2 ELSE 1>>

Picture(p) ==
  Normalized(3, 3, [c \in Cells(3, 3) |-> [hue |-> 0, alpha |-> IF c = p THEN Opaque ELSE 0]])

Marks(dir, c) ==
  \A side \in {<<"north", 2, 0>>, <<"south", 2, 2>>, <<"west", 1, 0>>, <<"east", 1, 2>>} :
    c[side[2]] = side[3] <=> dir \in {Turned(side[1], e) : e \in {0, 1, 7}}

LEMMA SidesAre ==
  ASSUME NEW i \in 1 .. 8
  PROVE  /\ Clockwise[i] \in {Turned("north", e) : e \in {0, 1, 7}} <=> i \in {8, 1, 2}
         /\ Clockwise[i] \in {Turned("east", e) : e \in {0, 1, 7}} <=> i \in {2, 3, 4}
         /\ Clockwise[i] \in {Turned("south", e) : e \in {0, 1, 7}} <=> i \in {4, 5, 6}
         /\ Clockwise[i] \in {Turned("west", e) : e \in {0, 1, 7}} <=> i \in {6, 7, 8}
<1>1. /\ "north" = Clockwise[1] /\ "east" = Clockwise[3] /\ "south" = Clockwise[5] /\ "west" = Clockwise[7]
      /\ \A j, k \in 1 .. 8 : Clockwise[j] = Clockwise[k] => j = k
  BY DEF Clockwise
<1>2. ASSUME NEW j \in 1 .. 8
      PROVE  /\ Turned(Clockwise[j], 0) = Clockwise[j]
             /\ Turned(Clockwise[j], 1) = Clockwise[IF j = 8 THEN 1 ELSE j + 1]
             /\ Turned(Clockwise[j], 7) = Clockwise[IF j = 1 THEN 8 ELSE j - 1]
  <2>1. j = 1 \/ j = 2 \/ j = 3 \/ j = 4 \/ j = 5 \/ j = 6 \/ j = 7 \/ j = 8
    OBVIOUS
  <2>2. /\ ((j - 1 + 0) % 8) + 1 = j
        /\ ((j - 1 + 1) % 8) + 1 = IF j = 8 THEN 1 ELSE j + 1
        /\ ((j - 1 + 7) % 8) + 1 = IF j = 1 THEN 8 ELSE j - 1
    BY <2>1
  <2>3. 0 \in Nat /\ 1 \in Nat /\ 7 \in Nat
    OBVIOUS
  <2>4. /\ Turned(Clockwise[j], 0) = Clockwise[((j - 1 + 0) % 8) + 1]
        /\ Turned(Clockwise[j], 1) = Clockwise[((j - 1 + 1) % 8) + 1]
        /\ Turned(Clockwise[j], 7) = Clockwise[((j - 1 + 7) % 8) + 1]
    <3>1. \A e \in Nat : Turned(Clockwise[j], e) = Clockwise[((j - 1 + e) % 8) + 1]
      BY TurnedIs
    <3> QED
      BY <2>3, <3>1, Zenon
  <2> QED
    BY <2>2, <2>4
<1> QED
  BY <1>1, <1>2

LEMMA MarksAre ==
  ASSUME NEW i \in 1 .. 8, NEW c \in Cells(3, 3)
  PROVE  Marks(Clockwise[i], c) <=> c = Spot(i)
<1> DEFINE Side(name) == Clockwise[i] \in {Turned(name, e) : e \in {0, 1, 7}}
<1>1. Marks(Clockwise[i], c) <=>
        /\ c[2] = 0 <=> Side("north")
        /\ c[2] = 2 <=> Side("south")
        /\ c[1] = 0 <=> Side("west")
        /\ c[1] = 2 <=> Side("east")
  <2>1. Marks(Clockwise[i], c) <=>
          \A side \in {<<"north", 2, 0>>, <<"south", 2, 2>>, <<"west", 1, 0>>, <<"east", 1, 2>>} :
            c[side[2]] = side[3] <=> Side(side[1])
    BY DEF Marks
  <2> HIDE DEF Side
  <2> QED
    BY <2>1
<1>2. /\ Side("north") <=> i \in {8, 1, 2}
      /\ Side("east") <=> i \in {2, 3, 4}
      /\ Side("south") <=> i \in {4, 5, 6}
      /\ Side("west") <=> i \in {6, 7, 8}
  BY SidesAre
<1> HIDE DEF Side
<1>3. c = <<c[1], c[2]>> /\ c[1] \in 0 .. 2 /\ c[2] \in 0 .. 2
  BY DEF Cells
<1>4. c = Spot(i) <=> c[1] = Spot(i)[1] /\ c[2] = Spot(i)[2]
  BY <1>3 DEF Spot
<1>5. /\ Spot(i)[1] = IF i \in {6, 7, 8} THEN 0 ELSE IF i \in {2, 3, 4} THEN 2 ELSE 1
      /\ Spot(i)[2] = IF i \in {1, 2, 8} THEN 0 ELSE IF i \in {4, 5, 6} THEN 2 ELSE 1
  BY DEF Spot
<1> QED
  BY <1>1, <1>2, <1>3, <1>4, <1>5

LEMMA SpotIn == ASSUME NEW i \in 1 .. 8 PROVE Spot(i) \in Cells(3, 3)
  BY DEF Spot, Cells

LEMMA PictureIs ==
  ASSUME NEW p \in Cells(3, 3)
  PROVE  /\ Frame(Picture(p)) /\ Picture(p).w = 3 /\ Picture(p).h = 3
         /\ \A c \in Cells(3, 3) : Picture(p).px[c] = [hue |-> 0, alpha |-> IF c = p THEN Opaque ELSE 0]
<1> DEFINE px == [c \in Cells(3, 3) |-> [hue |-> 0, alpha |-> IF c = p THEN Opaque ELSE 0]]
<1>1. px \in [Cells(3, 3) -> Pixel]
  <2>1. Opaque \in 0 .. Opaque /\ 0 \in 0 .. Opaque
    BY MatchingConstants
  <2> QED
    BY <2>1 DEF Pixel
<1>2. \A c \in Cells(3, 3) : px[c].alpha = 0 => px[c] = Clear
  BY DEF Clear
<1>3. 3 \in Nat
  OBVIOUS
<1>4. Picture(p) = Normalized(3, 3, px)
  BY DEF Picture
<1>5. \A c \in Cells(3, 3) : px[c] = [hue |-> 0, alpha |-> IF c = p THEN Opaque ELSE 0]
  OBVIOUS
<1> HIDE DEF px
<1>6. Picture(p) = [w |-> 3, h |-> 3, px |-> px] /\ Frame(Picture(p))
  BY <1>1, <1>2, <1>3, <1>4, NormalizedIs
<1> QED
  BY <1>5, <1>6

LEMMA PictureTurns ==
  ASSUME NEW t \in Transform, NEW p \in Cells(3, 3)
  PROVE  Transformed(t, Picture(p)) = Picture(MovedTo(t, 3, 3, p))
<1> DEFINE Move(c) == MovedTo(t, 3, 3, c)
           f == Picture(p)
           g == Transformed(t, f)
           e == Picture(Move(p))
<1>1. 3 \in Nat /\ Width(t, 3, 3) = 3 /\ Height(t, 3, 3) = 3
  BY DEF Width, Height
<1>2. \A c \in Cells(3, 3) : Move(c) \in Cells(3, 3) /\ MovedTo(Undone(t), 3, 3, Move(c)) = c
  BY <1>1, CellsMove
<1>3. Carries([c \in Cells(3, 3) |-> Move(c)], Cells(3, 3), Cells(3, 3))
  BY <1>1, CellsCarried
<1>4. \A d \in Cells(3, 3) : \E c \in Cells(3, 3) : d = Move(c)
  BY <1>3 DEF Carries
<1>5. /\ Frame(f) /\ f.w = 3 /\ f.h = 3
      /\ \A c \in Cells(3, 3) : f.px[c] = [hue |-> 0, alpha |-> IF c = p THEN Opaque ELSE 0]
  BY PictureIs
<1> HIDE DEF f
<1>6. /\ Frame(g) /\ g.w = 3 /\ g.h = 3
      /\ \A c \in Cells(3, 3) : g.px[Move(c)] = f.px[c]
  BY <1>1, <1>5, TransformedIs
<1>7. /\ Frame(e) /\ e.w = 3 /\ e.h = 3
      /\ \A c \in Cells(3, 3) : e.px[c] = [hue |-> 0, alpha |-> IF c = Move(p) THEN Opaque ELSE 0]
  BY <1>2, PictureIs
<1> HIDE DEF g, e
<1>8. ASSUME NEW d \in Cells(3, 3) PROVE g.px[d] = e.px[d]
  <2>1. PICK c \in Cells(3, 3) : d = Move(c)
    BY <1>4
  <2>2. d = Move(p) <=> c = p
    BY <1>2, <2>1
  <2> HIDE DEF Move
  <2> QED
    BY <1>5, <1>6, <1>7, <2>1, <2>2
<1>9. g = e
  BY <1>6, <1>7, <1>8, SameFrame
<1> QED
  BY <1>9 DEF g, e, f

LEMMA SpotMoves ==
  ASSUME NEW i \in 1 .. 8, NEW t \in Transform
  PROVE  MovedTo(t, 3, 3, Spot(i)) = Spot(Eighth(t, i))
<1> DEFINE x == IF i \in {6, 7, 8} THEN 0 ELSE IF i \in {2, 3, 4} THEN 2 ELSE 1
           y == IF i \in {1, 2, 8} THEN 0 ELSE IF i \in {4, 5, 6} THEN 2 ELSE 1
<1>1. Spot(i) = <<x, y>>
  BY DEF Spot
<1>2. MovedTo(t, 3, 3, Spot(i)) = MovedTo(t, 3, 3, <<x, y>>)
  BY <1>1
<1>3. i = 1 \/ i = 2 \/ i = 3 \/ i = 4 \/ i = 5 \/ i = 6 \/ i = 7 \/ i = 8
  OBVIOUS
<1>4. /\ t = "identity" => Spot(Eighth(t, i)) = <<x, y>>
      /\ t = "mirrorHorizontal" => Spot(Eighth(t, i)) = <<2 - x, y>>
      /\ t = "mirrorVertical" => Spot(Eighth(t, i)) = <<x, 2 - y>>
      /\ t = "rotate90" => Spot(Eighth(t, i)) = <<2 - y, x>>
      /\ t = "rotate180" => Spot(Eighth(t, i)) = <<2 - x, 2 - y>>
      /\ t = "rotate270" => Spot(Eighth(t, i)) = <<y, 2 - x>>
  BY <1>3 DEF Spot, Eighth
<1>5. x \in Int /\ y \in Int
  OBVIOUS
<1> HIDE DEF x, y
<1>6. 3 - 1 - x = 2 - x /\ 3 - 1 - y = 2 - y
  BY <1>5
<1>7. /\ t = "identity" => MovedTo(t, 3, 3, <<x, y>>) = <<x, y>>
      /\ t = "mirrorHorizontal" => MovedTo(t, 3, 3, <<x, y>>) = <<2 - x, y>>
      /\ t = "mirrorVertical" => MovedTo(t, 3, 3, <<x, y>>) = <<x, 2 - y>>
      /\ t = "rotate90" => MovedTo(t, 3, 3, <<x, y>>) = <<2 - y, x>>
      /\ t = "rotate180" => MovedTo(t, 3, 3, <<x, y>>) = <<2 - x, 2 - y>>
      /\ t = "rotate270" => MovedTo(t, 3, 3, <<x, y>>) = <<y, 2 - x>>
  BY <1>6, MovedIs
<1> QED
  BY <1>2, <1>4, <1>7 DEF Transform

LEMMA AllPicturesTurn == PicturesTurn
<1> DEFINE mark(dir) == CHOOSE c \in Cells(3, 3) :
             \A side \in {<<"north", 2, 0>>, <<"south", 2, 2>>, <<"west", 1, 0>>, <<"east", 1, 2>>} :
               c[side[2]] = side[3] <=> dir \in {Turned(side[1], e) : e \in {0, 1, 7}}
           marked(dir) == Normalized(3, 3, [c \in Cells(3, 3) |->
                            [hue |-> 0, alpha |-> IF c = mark(dir) THEN Opaque ELSE 0]])
<1>1. ASSUME NEW i \in 1 .. 8 PROVE mark(Clockwise[i]) = Spot(i)
  <2>1. mark(Clockwise[i]) = CHOOSE c \in Cells(3, 3) : Marks(Clockwise[i], c)
    BY DEF Marks
  <2>2. Spot(i) \in Cells(3, 3) /\ \A c \in Cells(3, 3) : Marks(Clockwise[i], c) <=> c = Spot(i)
    BY SpotIn, MarksAre
  <2> HIDE DEF mark
  <2> QED
    BY <2>1, <2>2
<1>2. \A dir : marked(dir) = Picture(mark(dir))
  BY DEF Picture
<1>3. PicturesTurn = (\A dir \in Directions(8), t \in Transform :
                        Transformed(t, marked(dir)) = marked(TransformDirection(dir, t)))
  BY DEF PicturesTurn
<1> HIDE DEF mark, marked
<1>4. ASSUME NEW dir \in Directions(8), NEW t \in Transform
      PROVE  Transformed(t, marked(dir)) = marked(TransformDirection(dir, t))
  <2>1. PICK i \in 1 .. 8 : dir = Clockwise[i]
    BY DirectionsAre
  <2>2. Eighth(t, i) \in 1 .. 8 /\ TransformDirection(dir, t) = Clockwise[Eighth(t, i)]
    BY <2>1, EighthIs, SentTo
  <2>3. marked(dir) = Picture(Spot(i)) /\ marked(TransformDirection(dir, t)) = Picture(Spot(Eighth(t, i)))
    BY <1>1, <1>2, <2>1, <2>2
  <2>4. Transformed(t, Picture(Spot(i))) = Picture(MovedTo(t, 3, 3, Spot(i)))
    BY SpotIn, PictureTurns
  <2> QED
    BY <2>3, <2>4, SpotMoves
<1> QED
  BY <1>3, <1>4

MatchInv == compared \subseteq IconStates /\ Linked

LEMMA MatchBegins == MatchInit => MatchInv
  BY LinkedBegins DEF MatchInit, MatchInv

LEMMA MatchStep == MatchInv /\ [MatchNext]_matchVars => MatchInv'
<1> SUFFICES ASSUME MatchInv, [MatchNext]_matchVars PROVE MatchInv'
  OBVIOUS
<1>1. Linked'
  BY LinkedStep DEF MatchInv
<1>2. ASSUME NEW s \in IconStates, Compare(s) PROVE compared' \subseteq IconStates
  BY <1>2 DEF MatchInv, Compare
<1>3. ASSUME NEW l \in Members, NEW r \in Members, Join(l, r) PROVE compared' \subseteq IconStates
  BY <1>3 DEF MatchInv, Join
<1>4. CASE UNCHANGED matchVars
  BY <1>1, <1>4 DEF MatchInv, matchVars
<1> QED
  BY <1>1, <1>2, <1>3, <1>4 DEF MatchNext, MatchInv

LEMMA InvMatches == MatchInv => MatchingSound
<1> SUFFICES ASSUME MatchInv PROVE MatchingSound
  OBVIOUS
<1>1. compared \subseteq IconStates /\ \A s \in compared : IconState(s)
  BY MatchingConstants DEF MatchInv
<1>2. ASSUME NEW s \in compared PROVE TurnedCopies(s)
  BY <1>1, SelfIsExact, TurnedIsCopy DEF TurnedCopies
<1>3. ASSUME Cardinality(compared) = 2 PROVE NoneMissed(compared)
  <2> DEFINE l == CHOOSE s \in compared : TRUE
             r == CHOOSE s \in compared : s # l
  <2>1. compared # {} /\ \A x : compared # {x}
    <3>1. Cardinality({}) = 0 /\ \A x : Cardinality({x}) = 1
      BY FS_EmptySet, FS_Singleton
    <3>2. ASSUME compared = {} PROVE FALSE
      <4>1. Cardinality(compared) = 0
        BY <3>1, <3>2, Zenon
      <4> QED
        BY <1>3, <4>1
    <3>3. ASSUME NEW x, compared = {x} PROVE FALSE
      <4>1. Cardinality(compared) = 1
        BY <3>1, <3>3, Zenon
      <4> QED
        BY <1>3, <4>1
    <3> QED
      BY <3>2, <3>3, Zenon
  <2>2. l \in compared
    BY <2>1
  <2> HIDE DEF l
  <2>3. r \in compared
    BY <2>1, <2>2
  <2> HIDE DEF r
  <2>4. IconState(l) /\ IconState(r)
    BY <1>1, <2>2, <2>3
  <2>5. CompareStates(l, r) = CompareStates(r, l)
    BY <2>4, StatesEither
  <2>6. ASSUME Rank(CompareStates(l, r)) <=
                 Rank(IF Cardinality(Shots(l)) = 1 THEN "palette" ELSE "padded")
        PROVE  Candidates(l, r)
    BY <2>4, <2>6, MatchesMeet, RanksAre
  <2> QED
    BY <2>5, <2>6 DEF NoneMissed, l, r
<1>4. PicturesTurn
  BY AllPicturesTurn
<1>5. ClustersAreClasses
  BY ClassesFollow DEF MatchInv
<1> QED
  BY <1>2, <1>3, <1>4, <1>5 DEF MatchingSound

(* The comparison and the clusters of dm_find_dmi_duplicates and              *)
(* dm_compare_dmi_states: a comparison says the same in both directions, a    *)
(* turned copy is found, the signatures miss no match, and the clusters are   *)
(* the classes that the pairs generate, whatever the pictures and the pairs.  *)
THEOREM MatchingIsSound == MatchSpec => []MatchingSound
<1>1. MatchSpec => []MatchInv
  BY MatchBegins, MatchStep, PTL DEF MatchSpec
<1> QED
  BY <1>1, InvMatches, PTL
=============================================================================
