------------------------------ MODULE MCSessions ------------------------------
(***************************************************************************)
(* The sessions of a standard runtime; the builds whose records decide     *)
(* what a launch accepts; and the icon tools, which need none of this      *)
(* state; for TLC in one run: a behaviour is of one of them.               *)
(***************************************************************************)
EXTENDS MCRuntimeLifecycle, BuildProvenance, DmiAssets

VARIABLE subject

allVars == <<vars, provVars, dmiVars, subject>>

SessionsInit ==
  /\ Init /\ DmiInit
  /\ \/ subject \in {"runtime", "icons"} /\ ProvInit
     \/ subject = "builds" /\ (ProvInit \/ LegacyInit)
  /\ provKey = CHOOSE k \in Identities : TRUE
  /\ dmiDisk[Min(DmiFile)] = "plain"
  /\ dmiDisk[Max(DmiFile)] = IF dmiPermits = 1 /\ subject = "icons" THEN "wide" ELSE "plain"
  /\ subject # "icons" => dmiPermits = 1

SessionsNext ==
  /\ \/ subject = "runtime" /\ Next /\ UNCHANGED <<provVars, dmiVars>>
     \/ subject = "builds" /\ ProvNext /\ UNCHANGED <<vars, dmiVars>>
     \/ subject = "icons" /\ DmiNext /\ UNCHANGED <<vars, provVars>>
     \/ subject \in {"builds", "icons"} /\ UNCHANGED allVars  \* the calls may be over
  /\ UNCHANGED subject

SessionsSpec == SessionsInit /\ [][SessionsNext]_allVars

Symmetry == Interchangeable \cup Permutations(IconCall)

(* a content that fits twice into every limit, one that fits once, one that *)
(* does not decode                                                          *)
Takes ==
  [d \in DmiContent |->
     [r \in Resource |-> IF d = "wide" /\ r \in {"pixels", "frames"} THEN 2 ELSE 1]]
OfOneFile == [r \in Resource |-> IF r \in {"pixels", "frames"} THEN 2 ELSE 1]
OfOneScan == [r \in Budgeted |-> 2]
=============================================================================
