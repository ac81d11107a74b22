------------------------------ MODULE MCRecords ------------------------------
(***************************************************************************)
(* JournalRecovery, AtomicOutput, RuntimeOutput and NativeEvidence, the    *)
(* files that are written and read, for TLC in one run: they share no      *)
(* state, a behaviour is of the one chosen at the start.                   *)
(***************************************************************************)
EXTENDS JournalRecovery, AtomicOutput, RuntimeOutput, NativeEvidence, TLC

VARIABLE subject

-----------------------------------------------------------------------------
(* Journals: one server has the roots of all sessions, the other lacks one *)

OwnRoots ==
  LET first == CHOOSE p \in Procs : TRUE
      lost == CHOOSE s \in Sessions : TRUE
  IN [p \in Procs |-> IF p = first THEN Sessions ELSE Sessions \ {lost}]

-----------------------------------------------------------------------------
(* Evidence: the clocks of a row say that it is of time 0 or 1             *)

Unset == [form |-> "none", at |-> 0]
Text(t) == [form |-> "text", at |-> t]
Number(t) == [form |-> "number", at |-> t]

Usage == <<"tick">>
Barred == <<"tick", "|", "tick">>

Record(wall, world, metrics, group) ==
  [wall |-> wall, world |-> world, group |-> group, readable |-> TRUE, bytes |-> 1,
   metrics |-> metrics]

Row(wall, world, value, group) ==
  Record(wall, world, IF value = 0 THEN <<>> ELSE Usage :> value, group)

Early == Row(Text(0), Unset, 2, "a")
Late == Row(Text(1), Unset, 1, "a")
Unreadable == [Late EXCEPT !.readable = FALSE]
Wide == [Late EXCEPT !.bytes = 4]

(* names that bear the separator of keys, in phases and without phases      *)
Apart == <<Record(Text(0), Unset, Barred :> 1, "none"), Record(Text(1), Unset, Usage :> 1, "none")>>
Joined == <<Record(Unset, Unset, Usage :> 1 @@ Barred :> 2, "none")>>

(* nothing, some, one that cannot be read, one too long, too many, two      *)
(* groups, records whose clocks may disagree, and names with separators     *)
FirstFile ==
  {<<>>, <<Early>>, <<Early, Early>>, <<Early, Late>>, <<Late, Unreadable>>, <<Wide>>,
   <<Early, Early, Late>>, <<Early, Row(Text(1), Unset, 0, "b")>>,
   <<Row(Text(1), Number(1), 0, "none"), Row(Text(1), Number(0), 1, "none")>>, Apart}

SecondFile == {<<Early>>, <<Late, Early>>, Joined}

EvidenceFiles == [p \in EvPath |-> IF p = "f1" THEN FirstFile ELSE SecondFile]

GameStarts == <<"game_start">>

Between(start, end) == [start |-> start, end |-> end]
Never == Between(NoClock, NoClock)
First == Between(0, 1)
Second == Between(1, 2)
Both == Between(0, 2)

Phase(id, wall, world) == [id |-> id, wall |-> wall, world |-> world]
Split == <<Phase(GameStarts, First, Never), Phase(<<"late">>, Second, Never)>>
SplitBarred == <<Phase(<<"late">>, First, Never), Phase(<<"late", "|", "tick">>, Second, Never)>>

PhaseLists ==
  {<<>>, Split,
   <<Phase(GameStarts, Second, Between(1, NoClock))>>,
   <<Phase(GameStarts, Between(1, 1), Never)>>,
   <<Phase(GameStarts, First, Never), Phase(GameStarts, Second, Never)>>,
   <<Phase(GameStarts, First, Never), Phase(<<"late">>, Both, Never)>>,
   <<Phase(GameStarts, First, Second), Phase(<<"late">>, Second, First)>>,
   <<Phase(GameStarts, Never, First), Phase(<<"late">>, Second, Second)>>}

Artifact(kind, path) == [kind |-> kind, path |-> path, selected |-> {}]

Asked(artifacts, phases, dmb) == [artifacts |-> artifacts, phases |-> phases, dmb |-> dmb]

Summarises(artifacts, phases) ==
  [compares |-> FALSE, runs |-> <<Asked(artifacts, phases, FALSE)>>]

Compares(runs) == [compares |-> TRUE, runs |-> runs]

EvidenceCalls ==
  {Summarises(<<Artifact(k, "f1")>>, p) : k \in {"csv", "jsonl", "byond"}, p \in PhaseLists}
    \cup {Summarises(<<Artifact("csv", "f1"), Artifact("jsonl", p)>>, <<>>) : p \in EvPath}
    \cup {Compares(<<Asked(<<Artifact("csv", "f1")>>, Split, TRUE),
                     Asked(<<Artifact(k, "f2")>>, p, dmb)>>) :
            k \in {"csv", "jsonl"}, p \in {<<>>, Split}, dmb \in BOOLEAN}
    \cup {Compares(<<Asked(<<Artifact("csv", "f1")>>, SplitBarred, TRUE),
                     Asked(<<Artifact("csv", "f2")>>, SplitBarred, TRUE)>>)}
    \cup {Compares(<<Asked(<<Artifact("csv", "f1")>>, Split, TRUE)>>)}

-----------------------------------------------------------------------------
(* The run *)

RecordsInit ==
  /\ subject \in {"journals", "files", "log", "evidence"}
  /\ Init /\ OutInit /\ LogInit /\ EvInit
  /\ subject # "files" => \A p \in Place : outFiles[p] = NoOutput
  /\ subject # "evidence" => evBuild.record = 0 /\ \A p \in EvPath : evFiles[p] = <<Early>>

Only(s) ==
  /\ subject = s /\ UNCHANGED subject
  /\ s # "journals" => UNCHANGED vars
  /\ s # "files" => UNCHANGED outVars
  /\ s # "log" => UNCHANGED outputVars
  /\ s # "evidence" => UNCHANGED evVars

RecordsNext ==
  \/ Only("journals") /\ Next
  \/ Only("files") /\ (OutNext \/ UNCHANGED outVars)   \* the writers may be done
  \/ Only("log") /\ (LogNext \/ UNCHANGED outputVars)   \* the session may be over
  \/ Only("evidence") /\ (EvNext \/ UNCHANGED evVars)  \* or the call

RecordsSpec ==
  RecordsInit /\ [][RecordsNext]_<<subject, vars, outVars, outputVars, evVars>> /\ Fairness
=============================================================================
