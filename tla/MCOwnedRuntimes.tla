---------------------------- MODULE MCOwnedRuntimes ----------------------------
(***************************************************************************)
(* TracyCapture and DebuggerSession for TLC, in one run: a behaviour is of *)
(* one of them, chosen at the start.  They meet in `lifecycle` and in the  *)
(* check that a runtime or a debugger session is there, which each of the  *)
(* two modules has as its own environment action.                          *)
(***************************************************************************)
EXTENDS TracyCapture, DebuggerSession, TLC

CONSTANT Subjects   \* which of the two are checked
VARIABLE subject

CONSTANTS b1, b2
FileOf == b1 :> 1 @@ b2 :> 2
\* The first session makes two calls beyond its launch, the second none.
AskedOf == [s \in DebugSessions |-> IF s = 1 THEN 4 ELSE 0]
ReportsOf == [s \in DebugSessions |-> IF s = 1 THEN 1 ELSE 0]

OwnedInit == /\ subject \in Subjects /\ Init /\ DebugInit
             /\ subject = "debugger" => faults = {}
OwnedNext ==
  /\ \/ subject = "tracy" /\ Next /\ UNCHANGED debugVars
     \/ subject = "debugger" /\ DebugNext /\ UNCHANGED vars
  /\ UNCHANGED subject
OwnedSpec == OwnedInit /\ [][OwnedNext]_<<vars, debugVars, subject>>

\* Requests and directories are interchangeable.
Symmetry == Permutations(Calls) \cup Permutations(Dirs)
=============================================================================
