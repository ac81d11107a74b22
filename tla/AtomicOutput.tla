----------------------------- MODULE AtomicOutput -----------------------------
(***************************************************************************)
(* AtomicOutput: how a tool puts its result beside the files of a project. *)
(* A result is written under a private name and renamed over its place; a  *)
(* file that is there is set aside under another private name and put back *)
(* when the rename fails.  A capture is a pair, the trace and its sidecar, *)
(* and the trace is taken back when the sidecar cannot follow it.  Nothing *)
(* keeps two writers from the same place, and any call of the file system  *)
(* may fail.                                                               *)
(*                                                                         *)
(* The content of a file is the writer it is from.                         *)
(***************************************************************************)
EXTENDS Integers, Sequences

CONSTANTS
  Writer,   \* calls of the tools that write a result
  Image,    \* the place of an icon or a map
  Trace,    \* the places of a trace
  Sidecar,  \* and of its sidecar
  Earlier,  \* the content of a file that was there before
  NoOutput  \* no file

Kinds == {"single", "set"}

Places(kind) == IF kind = "set" THEN <<Trace, Sidecar>> ELSE <<Image>>

Place == {Image, Trace, Sidecar}

ASSUME OutputConstants ==
  /\ Image # Trace /\ Image # Sidecar /\ Trace # Sidecar
  /\ Earlier \notin Writer /\ NoOutput \notin Writer \cup {Earlier}

VARIABLES
  outFiles,  \* outFiles[p]: the content of the file at p
  outJob,    \* outJob[w]: how far the writer is and which private files it has
  outSeen    \* outSeen[w]: what was at its places, and whether it was alone and
             \* none of its repairs failed

outVars == <<outFiles, outJob, outSeen>>

Running(w) == outJob[w].step \notin {"idle", "succeeded", "failed", "lost"}

At(w) == Places(outJob[w].kind)[outJob[w].at]

OnLast(w) == outJob[w].at = Len(Places(outJob[w].kind))

Exists(p) == outFiles[p] # NoOutput

-----------------------------------------------------------------------------
(* Steps of a writer *)

NoJob ==
  [kind |-> "single", overwrite |-> FALSE, step |-> "idle", at |-> 1,
   temporary |-> [p \in Place |-> "none"], backup |-> [p \in Place |-> NoOutput]]

Moves(w, step) == outJob' = [outJob EXCEPT ![w].step = step]

(* the error is returned and the temporaries are dropped, which removes     *)
(* them, if it can                                                          *)
Gives(w, seen) ==
  \/ /\ outJob' = [outJob EXCEPT ![w].step = "failed",
                                 ![w].temporary = [p \in Place |-> "none"]]
     /\ outSeen' = seen
  \/ /\ outJob' = [outJob EXCEPT ![w].step = "failed"]
     /\ outSeen' = [seen EXCEPT ![w].repaired = FALSE]

(* ReservedTraceSet::promote: the error of the second commit                *)
CommitFails(w, seen) ==
  \/ outJob[w].at = 1 /\ Gives(w, seen)
  \/ outJob[w].at # 1 /\ Moves(w, "checking") /\ outSeen' = seen

(* a set is never overwritten                                               *)
JobBegins(w, kind, overwrite) ==
  LET others == {v \in Writer \ {w} : outJob[v].step # "idle" /\ outJob[v].kind = kind}
  IN /\ outJob[w].step = "idle"
     /\ overwrite => kind = "single"
     /\ outJob' = [outJob EXCEPT ![w].kind = kind, ![w].overwrite = overwrite,
                                 ![w].step = "reserving"]
     /\ outSeen' = [v \in Writer |->
          IF v = w THEN [outSeen[w] EXCEPT !.found = outFiles,
                                           !.alone = \A o \in others : ~Running(o)]
          ELSE [outSeen[v] EXCEPT !.alone = @ /\ v \notin others]]
     /\ UNCHANGED outFiles

(* PathPolicy::output_path, then a temporary of a new name                  *)
Reserve(w) ==
  /\ outJob[w].step = "reserving"
  /\ \/ /\ Exists(At(w)) => outJob[w].overwrite
        /\ outJob' = [outJob EXCEPT
             ![w].temporary[At(w)] = "empty",
             ![w].step = IF OnLast(w) THEN "writing" ELSE @,
             ![w].at = IF OnLast(w) THEN 1 ELSE @ + 1]
        /\ UNCHANGED outSeen
     \/ Gives(w, outSeen)
  /\ UNCHANGED outFiles

(* by the tool or the collector, to the end and synchronised                *)
Write(w) ==
  /\ outJob[w].step = "writing"
  /\ \/ /\ outJob' = [outJob EXCEPT
             ![w].temporary[At(w)] = "whole",
             ![w].step = IF OnLast(w) THEN "aside" ELSE @,
             ![w].at = IF OnLast(w) THEN 1 ELSE @ + 1]
        /\ UNCHANGED outSeen
     \/ Gives(w, outSeen)
  /\ UNCHANGED outFiles

SetAside(w) ==
  /\ outJob[w].step = "aside"
  /\ \/ /\ outFiles' = [outFiles EXCEPT ![At(w)] = NoOutput]
        /\ outJob' = [outJob EXCEPT ![w].step = "installing",
                                    ![w].backup[At(w)] = outFiles[At(w)]]
        /\ UNCHANGED outSeen
     \/ CommitFails(w, outSeen) /\ UNCHANGED outFiles

(* slip: what was set aside is not put back                                 *)
InstallOrLeave(w) ==
  /\ outJob[w].step = "installing"
  /\ \/ /\ outFiles' = [outFiles EXCEPT ![At(w)] = w]
        /\ outJob' = [outJob EXCEPT ![w].step = "clearing", ![w].temporary[At(w)] = "none"]
        /\ UNCHANGED outSeen
     \/ CommitFails(w, outSeen) /\ UNCHANGED outFiles

Install(w) ==
  /\ outJob[w].step = "installing"
  /\ \/ /\ outFiles' = [outFiles EXCEPT ![At(w)] = w]
        /\ outJob' = [outJob EXCEPT ![w].step = "clearing", ![w].temporary[At(w)] = "none"]
        /\ UNCHANGED outSeen
     \/ /\ outJob[w].backup[At(w)] # NoOutput /\ Moves(w, "restoring")
        /\ UNCHANGED <<outFiles, outSeen>>
     \/ /\ outJob[w].backup[At(w)] = NoOutput /\ CommitFails(w, outSeen)
        /\ UNCHANGED outFiles

Restore(w) ==
  /\ outJob[w].step = "restoring"
  /\ \/ /\ outFiles' = [outFiles EXCEPT ![At(w)] = outJob[w].backup[At(w)]]
        /\ outJob' = [outJob EXCEPT ![w].backup[At(w)] = NoOutput, ![w].step = "restored"]
        /\ UNCHANGED outSeen
     \/ /\ Moves(w, "restored")
        /\ outSeen' = [outSeen EXCEPT ![w].repaired = FALSE]
        /\ UNCHANGED outFiles

Restored(w) ==
  /\ outJob[w].step = "restored"
  /\ CommitFails(w, outSeen)
  /\ UNCHANGED outFiles

(* the backup goes and the installed file is looked up; an error of these   *)
(* is returned although the file is installed                               *)
Clear(w) ==
  /\ outJob[w].step = "clearing"
  /\ \/ /\ outJob' = [outJob EXCEPT
             ![w].backup[At(w)] = NoOutput,
             ![w].step = IF OnLast(w) THEN "succeeded" ELSE "aside",
             ![w].at = IF OnLast(w) THEN @ ELSE @ + 1]
        /\ UNCHANGED outSeen
     \/ CommitFails(w, [outSeen EXCEPT ![w].repaired = FALSE])
  /\ UNCHANGED outFiles

(* the trace is taken back if it is still the one that was installed        *)
Check(w) ==
  /\ outJob[w].step = "checking"
  /\ \/ outFiles[Trace] = w /\ Moves(w, "removing") /\ UNCHANGED outSeen
     \/ outFiles[Trace] # w /\ Gives(w, outSeen)
  /\ UNCHANGED outFiles

RemoveTrace(w) ==
  /\ outJob[w].step = "removing"
  /\ \/ outFiles' = [outFiles EXCEPT ![Trace] = NoOutput] /\ Gives(w, outSeen)
     \/ Gives(w, [outSeen EXCEPT ![w].repaired = FALSE]) /\ UNCHANGED outFiles

(* the server dies: nothing is dropped                                      *)
ServerDies ==
  /\ \E w \in Writer : Running(w)
  /\ outJob' = [w \in Writer |-> [outJob[w] EXCEPT !.step = IF Running(w) THEN "lost" ELSE @]]
  /\ UNCHANGED <<outFiles, outSeen>>

-----------------------------------------------------------------------------
(* Specification *)

OutInit ==
  /\ outFiles \in [Place -> {Earlier, NoOutput}]
  /\ outJob = [w \in Writer |-> NoJob]
  /\ outSeen = [w \in Writer |-> [found |-> outFiles, alone |-> TRUE, repaired |-> TRUE]]

WriterSteps(w) ==
  \/ \E kind \in Kinds, overwrite \in BOOLEAN : JobBegins(w, kind, overwrite)
  \/ Reserve(w) \/ Write(w) \/ SetAside(w) \/ Install(w) \/ Restore(w) \/ Restored(w)
  \/ Clear(w) \/ Check(w) \/ RemoveTrace(w)

OutNext == ServerDies \/ \E w \in Writer : WriterSteps(w)

OutSpec == OutInit /\ [][OutNext]_outVars

-----------------------------------------------------------------------------
(* Properties *)

Undisturbed(w) == outSeen[w].alone /\ outSeen[w].repaired

Own(w) == {Places(outJob[w].kind)[i] : i \in 1 .. Len(Places(outJob[w].kind))}

Leftovers(w) ==
  {p \in Place : outJob[w].temporary[p] # "none" \/ outJob[w].backup[p] # NoOutput}

(* A writer whose place nobody else writes has put its result there and     *)
(* nothing else, or has failed and left everything as it found it, at       *)
(* whichever of its calls it failed, unless a repair failed as well.        *)
AllOrNothing ==
  \A w \in Writer : Undisturbed(w) =>
    /\ outJob[w].step = "succeeded" =>
         Leftovers(w) = {} /\ \A p \in Own(w) : outFiles[p] = w
    /\ outJob[w].step = "failed" =>
         Leftovers(w) = {} /\ \A p \in Own(w) : outFiles[p] = outSeen[w].found[p]

(* A file of before is never lost, although the server dies or the     *)
(* repair fails: it is at its place, in a backup, or replaced.              *)
NothingLost ==
  \A p \in Place, w \in Writer :
    outSeen[w].found[p] = Earlier =>
      Exists(p) \/ \E v \in Writer : outJob[v].backup[p] # NoOutput

(* Whenever somebody looks, a sidecar has the trace it is about beside it.  *)
PairsComplete ==
  \A w \in Writer : Undisturbed(w) /\ outFiles[Sidecar] = w => outFiles[Trace] = w

(* All of them, for TLC.                                                    *)
OutputsKept == AllOrNothing /\ NothingLost /\ PairsComplete
=============================================================================
