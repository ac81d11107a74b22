---------------------------- MODULE NativeEvidence ----------------------------
(***************************************************************************)
(* NativeEvidence: a summary of the artifacts of one run of a game, and    *)
(* the comparison of several runs.  Artifacts are read one after another,  *)
(* their records assigned to named phases by two clocks, and summarised    *)
(* whole and by phase.  A comparison accepts only runs of one verified     *)
(* build with the same phases and the same metrics.  Files and the build   *)
(* may change while a call reads them.                                     *)
(*                                                                         *)
(* A file is a sequence of rows of so many bytes.  A cell of a clock is a  *)
(* number or a text.  An identifier is a sequence of parts, because the    *)
(* key of a compared metric is put together from identifiers.              *)
(***************************************************************************)
EXTENDS Integers, Sequences, FiniteSets, Functions

CONSTANTS
  EvPath,         \* files that may be artifacts
  EvContents,     \* EvContents[p]: what the file at p may hold, sequences of rows
  EvCalls,        \* calls: [compares, runs], the latter a sequence of requests
  EvPart,         \* the parts of identifiers
  GameStart,      \* the identifier "game_start"
  Bar,            \* the part "|"
  NoClock,        \* a clock, or an end of a range, that is not given
  MaxEvArtifacts, MaxEvRuns, MaxEvRows, MaxEvFile, MaxEvTotal, MaxEvGroups,
                  \* MAX_EVIDENCE_ARTIFACTS, _COMPARISON_RUNS, _ROWS,
                  \* _FILE_BYTES, _TOTAL_BYTES, _GROUPS
  MaxEvChanges    \* bound: changes of files and builds

Moment == Int \cup {NoClock}

PhaseInput ==
  LET ranges == [start : Moment, end : Moment]
  IN [id : Seq(EvPart), wall : ranges, world : ranges]

ArtifactDescriptor ==
  [kind : {"byond", "csv", "jsonl"}, path : EvPath, selected : SUBSET Seq(EvPart)]

EvRequest == [artifacts : Seq(ArtifactDescriptor), phases : Seq(PhaseInput), dmb : BOOLEAN]

(* a row of a file: it can be read or not                                   *)
IsRow(row) ==
  /\ row.wall.at \in Int /\ row.world.at \in Int
  /\ row.bytes \in Nat /\ row.readable \in BOOLEAN
  /\ IsFiniteSet(DOMAIN row.metrics) /\ DOMAIN row.metrics \subseteq Seq(EvPart)

ASSUME EvidenceConstants ==
  /\ \A n \in {MaxEvArtifacts, MaxEvRuns, MaxEvRows, MaxEvFile, MaxEvTotal, MaxEvGroups} :
       n \in Nat \ {0}
  /\ MaxEvChanges \in Nat /\ NoClock \notin Int
  /\ EvCalls \subseteq [compares : BOOLEAN, runs : Seq(EvRequest)]
  /\ \A call \in EvCalls : ~call.compares => Len(call.runs) = 1
  /\ \A p \in EvPath : \A rows \in EvContents[p] :
       rows \in Seq(Range(rows)) /\ \A i \in DOMAIN rows : IsRow(rows[i])

VARIABLES
  evFiles,  \* evFiles[p]: the rows of the file at p
  evBuild,  \* the DMB: its hash, and the verified record of it or 0
  evCall    \* the call: its step, the request it works on and what it has so far

evVars == <<evFiles, evBuild, evCall>>

-----------------------------------------------------------------------------
(* Readers *)

Semantics(kind) ==
  CASE kind = "byond" -> "cumulative_snapshot"
    [] kind = "csv"   -> "interval_series"
    [] kind = "jsonl" -> "event_stream"

(* a number of a CSV cell is held as a floating-point one, and as_i64 is    *)
(* none of those                                                            *)
ClockRead(kind, clock, cell) ==
  IF \/ cell.form = "number" /\ kind # "csv"
     \/ cell.form = "text" /\ clock = "wall"
  THEN cell.at ELSE NoClock

ScalarRecord(artifact, row) ==
  [wall    |-> ClockRead(artifact.kind, "wall", row.wall),
   world   |-> ClockRead(artifact.kind, "world", row.world),
   metrics |-> Restrict(row.metrics,
                 IF artifact.selected = {} THEN DOMAIN row.metrics
                 ELSE artifact.selected \cap DOMAIN row.metrics),
   group   |-> row.group]

FileSize(rows) == SumFunction([i \in DOMAIN rows |-> rows[i].bytes])

Readable(rows) == {i \in DOMAIN rows : rows[i].readable}

(* only a CSV reader goes on after a row that it cannot read                *)
ParseFails(kind, rows) ==
  Len(rows) > MaxEvRows \/ (kind # "csv" /\ Readable(rows) # DOMAIN rows)

(* its records stand under the numbers of their rows                        *)
Parsed(artifact, rows) ==
  [kind     |-> artifact.kind,
   records  |-> [i \in Readable(rows) |-> ScalarRecord(artifact, rows[i])],
   rejected |-> Cardinality(DOMAIN rows \ Readable(rows)),
   size     |-> FileSize(rows)]

-----------------------------------------------------------------------------
(* Phases *)

Given(range) == NoClock \notin {range.start, range.end}

(* slip: the end of a range belongs to it                                   *)
SpansClosed(range, value) ==
  Given(range) /\ value # NoClock /\ range.start <= value /\ value <= range.end

Spans(range, value) ==
  Given(range) /\ value # NoClock /\ range.start <= value /\ value < range.end

Overlaps(a, b) == Given(a) /\ Given(b) /\ a.start < b.end /\ b.start < a.end

PhasesValid(phases) ==
  /\ \A i \in DOMAIN phases, clock \in {"wall", "world"} :
       Given(phases[i][clock]) => phases[i][clock].start < phases[i][clock].end
  /\ \A i, j \in DOMAIN phases : i < j =>
       /\ \A clock \in {"wall", "world"} : ~Overlaps(phases[i][clock], phases[j][clock])
       /\ phases[i].id # phases[j].id

PhasesAt(record, clock, phases) ==
  {i \in DOMAIN phases : Spans(phases[i][clock], record[clock])}

Ambiguous(record, phases) ==
  LET wall == PhasesAt(record, "wall", phases)
      world == PhasesAt(record, "world", phases)
  IN \/ Cardinality(wall) > 1 \/ Cardinality(world) > 1
     \/ wall # {} /\ world # {} /\ wall # world

Assigned(record, phases) ==
  {phases[i].id : i \in PhasesAt(record, "wall", phases) \cup PhasesAt(record, "world", phases)}

-----------------------------------------------------------------------------
(* Summaries *)

RequestValid(request) ==
  /\ Len(request.artifacts) \in 1 .. MaxEvArtifacts
  /\ PhasesValid(request.phases)

Samples(records, metric) == {i \in DOMAIN records : metric \in DOMAIN records[i].metrics}

NumericSummary(records, metric) ==
  LET samples == Samples(records, metric)
  IN [count   |-> Cardinality(samples),
      missing |-> Cardinality(DOMAIN records \ samples),
      total   |-> SumFunction([i \in samples |-> records[i].metrics[metric]])]

MetricsOf(records) == UNION {DOMAIN records[i].metrics : i \in DOMAIN records}

GroupsOf(records) == {records[i].group : i \in DOMAIN records} \ {"none"}

(* summarize_records: one dataset                                           *)
Dataset(index, artifact, classification, phase, records, rejected, assigned) ==
  [artifact       |-> index,
   semantics      |-> Semantics(artifact.kind),
   classification |-> classification,
   phase          |-> phase,
   raw            |-> Cardinality(DOMAIN records) + rejected,
   accepted       |-> Cardinality(DOMAIN records),
   assigned       |-> assigned,
   metrics        |-> [m \in MetricsOf(records) |-> NumericSummary(records, m)],
   groups         |-> [g \in GroupsOf(records) |->
                         Cardinality({i \in DOMAIN records : records[i].group = g})]]

Before(record, clock, phase) ==
  NoClock \notin {record[clock], phase[clock].start} /\ record[clock] < phase[clock].start

PreGame(artifact, phases) ==
  /\ artifact.kind = "byond"
  /\ \E i \in DOMAIN phases :
       /\ phases[i].id = GameStart
       /\ \A n \in DOMAIN artifact.records : \E clock \in {"wall", "world"} :
            Before(artifact.records[n], clock, phases[i])

Classification(artifact, phases) ==
  CASE PreGame(artifact, phases) -> "pre_game_cumulative"
    [] artifact.kind = "csv"     -> "full_interval"
    [] artifact.kind = "jsonl"   -> "full_event_stream"
    [] OTHER                     -> "cumulative_snapshot"

InPhase(artifact, phases, i) ==
  {n \in DOMAIN artifact.records : phases[i].id \in Assigned(artifact.records[n], phases)}

InSome(artifact, phases) ==
  {n \in DOMAIN artifact.records : Assigned(artifact.records[n], phases) # {}}

Whole(index, artifact, phases) ==
  Dataset(index, artifact, Classification(artifact, phases), <<"unassigned">>,
          artifact.records, artifact.rejected, Cardinality(InSome(artifact, phases)))

OfPhase(index, artifact, phases, i) ==
  LET numbers == InPhase(artifact, phases, i)
  IN Dataset(index, artifact, "assigned", phases[i].id, Restrict(artifact.records, numbers),
             0, Cardinality(numbers))

(* the whole of an artifact, and each phase that has records of it          *)
Datasets(index, artifact, phases) ==
  LET busy == {i \in DOMAIN phases : InPhase(artifact, phases, i) # {}}
  IN {Whole(index, artifact, phases)}
     \cup IF artifact.kind = "byond" THEN {}
          ELSE {OfPhase(index, artifact, phases, i) : i \in busy}

-----------------------------------------------------------------------------
(* A call *)

NoEvCall == [step |-> "idle", call |-> [compares |-> FALSE, runs |-> <<>>], total |-> 0,
         parsed |-> <<>>, hash |-> 0, record |-> 0, runs |-> <<>>, result |-> <<>>]

RunRequest == evCall.call.runs[Len(evCall.runs) + 1]

NextArtifact == RunRequest.artifacts[Len(evCall.parsed) + 1]

Goes(step) == evCall' = [evCall EXCEPT !.step = step]

Refuses == Goes("failed")

(* compare_runs, or summarize_run alone                                     *)
EvBegins ==
  /\ evCall.step = "idle"
  /\ \E call \in EvCalls :
       evCall' = [evCall EXCEPT
         !.call = call,
         !.step = IF call.compares => Len(call.runs) \in 2 .. MaxEvRuns
                  THEN "validating" ELSE "failed"]
  /\ UNCHANGED <<evFiles, evBuild>>

EvValidated ==
  /\ evCall.step = "validating"
  /\ \/ ~RequestValid(RunRequest) /\ Refuses
     \/ /\ RequestValid(RunRequest)
        /\ evCall' = [evCall EXCEPT !.step = "sizing", !.total = 0, !.parsed = <<>>,
                                    !.hash = 0, !.record = 0]
  /\ UNCHANGED <<evFiles, evBuild>>

(* the metadata of the next artifact; no file is taken twice                *)
EvSized ==
  LET path == NextArtifact.path
      earlier == {RunRequest.artifacts[i].path : i \in 1 .. Len(evCall.parsed)}
      size == FileSize(evFiles[path])
  IN /\ evCall.step = "sizing"
     /\ IF path \in earlier \/ size > MaxEvFile \/ evCall.total + size > MaxEvTotal
        THEN Refuses
        ELSE evCall' = [evCall EXCEPT !.step = "reading", !.total = @ + size]
     /\ UNCHANGED <<evFiles, evBuild>>

EvRead ==
  LET rows == evFiles[NextArtifact.path]
      parsed == Append(evCall.parsed, Parsed(NextArtifact, rows))
  IN /\ evCall.step = "reading"
     /\ IF FileSize(rows) > MaxEvFile \/ ParseFails(NextArtifact.kind, rows) THEN Refuses
        ELSE evCall' = [evCall EXCEPT
               !.parsed = parsed,
               !.step = IF Len(parsed) < Len(RunRequest.artifacts) THEN "sizing" ELSE "hashing"]
     /\ UNCHANGED <<evFiles, evBuild>>

(* run_identity: the hash of the DMB, then the decision of evaluate_launch  *)
EvHashed ==
  /\ evCall.step = "hashing"
  /\ IF RunRequest.dmb
     THEN evCall' = [evCall EXCEPT !.step = "deciding", !.hash = evBuild.hash]
     ELSE Goes("summarising")
  /\ UNCHANGED <<evFiles, evBuild>>

EvDecided ==
  /\ evCall.step = "deciding"
  /\ \/ evCall' = [evCall EXCEPT !.step = "summarising", !.record = evBuild.record]
     \/ Refuses
  /\ UNCHANGED <<evFiles, evBuild>>

Conflicting(parsed, phases) ==
  \E a \in DOMAIN parsed : \E i \in DOMAIN parsed[a].records :
    Ambiguous(parsed[a].records[i], phases)

DatasetsOf(parsed, phases) ==
  UNION {Datasets(a, parsed[a], phases) : a \in DOMAIN parsed}

EvSummarised ==
  LET datasets == DatasetsOf(evCall.parsed, RunRequest.phases)
      run == [record   |-> evCall.record, hash |-> evCall.hash,
              phases   |-> RunRequest.phases,
              kinds    |-> [a \in DOMAIN evCall.parsed |-> evCall.parsed[a].kind],
              datasets |-> datasets]
      last == Len(evCall.runs) + 1 = Len(evCall.call.runs)
  IN /\ evCall.step = "summarising"
     /\ IF \/ Conflicting(evCall.parsed, RunRequest.phases)
           \/ \E d \in datasets : Cardinality(DOMAIN d.groups) > MaxEvGroups
        THEN Refuses
        ELSE evCall' = [evCall EXCEPT
               !.runs = Append(@, run),
               !.step = CASE ~last -> "validating"
                          [] last /\ evCall.call.compares -> "comparing"
                          [] OTHER -> "answered"]
     /\ UNCHANGED <<evFiles, evBuild>>

-----------------------------------------------------------------------------
(* Comparison *)

Measured(runs) ==
  UNION {UNION {{<<i, d, m>> : m \in DOMAIN d.metrics} : d \in runs[i].datasets} :
           i \in DOMAIN runs}

(* the parts of an identifier may be those that separate identifiers        *)
Key(at) ==
  <<at[2].artifact, at[2].semantics, at[2].classification, at[2].phase \o <<Bar>> \o at[3]>>

(* the means under a key, run by run                                        *)
Series(runs, key) ==
  [at \in {x \in Measured(runs) : Key(x) = key} |-> at[2].metrics[at[3]]]

Comparable(runs) ==
  \A i \in DOMAIN runs :
    /\ runs[i].record # 0
    /\ \A field \in {"record", "hash", "phases", "kinds"} : runs[i][field] = runs[1][field]

EvCompared ==
  LET runs == evCall.runs
      series == [k \in {Key(at) : at \in Measured(runs)} |-> Series(runs, k)]
  IN /\ evCall.step = "comparing"
     /\ IF /\ Comparable(runs)
           /\ \A k \in DOMAIN series : Cardinality(DOMAIN series[k]) = Len(runs)
        THEN evCall' = [evCall EXCEPT !.step = "answered", !.result = series]
        ELSE Refuses
     /\ UNCHANGED <<evFiles, evBuild>>

-----------------------------------------------------------------------------
(* Others, while a call reads *)

Working == evCall.step \notin {"idle", "answered", "failed"}

EvFileChanges ==
  /\ Working /\ evBuild.changes < MaxEvChanges
  /\ \E p \in EvPath : \E rows \in EvContents[p] :
       rows # evFiles[p] /\ evFiles' = [evFiles EXCEPT ![p] = rows]
  /\ evBuild' = [evBuild EXCEPT !.changes = @ + 1]
  /\ UNCHANGED evCall

(* a build, with a verified record of it or none                            *)
EvRebuilt ==
  /\ Working /\ evBuild.changes < MaxEvChanges
  /\ \E verified \in BOOLEAN :
       evBuild' = [hash |-> evBuild.hash + 1, changes |-> evBuild.changes + 1,
                   record |-> IF verified THEN evBuild.hash + 1 ELSE 0]
  /\ UNCHANGED <<evFiles, evCall>>

-----------------------------------------------------------------------------
(* Specification *)

EvInit ==
  /\ evFiles \in {f \in [EvPath -> UNION {EvContents[p] : p \in EvPath}] :
                    \A p \in EvPath : f[p] \in EvContents[p]}
  /\ evBuild \in {[hash |-> 1, changes |-> 0, record |-> r] : r \in {0, 1}}
  /\ evCall = NoEvCall

EvNext ==
  \/ EvBegins \/ EvValidated \/ EvSized \/ EvRead \/ EvHashed \/ EvDecided
  \/ EvSummarised \/ EvCompared \/ EvFileChanges \/ EvRebuilt

EvSpec == EvInit /\ [][EvNext]_evVars

-----------------------------------------------------------------------------
(* Properties *)

(* Phases that were accepted leave no record to two of them on one clock:   *)
(* only the two clocks can disagree.                                        *)
PhasesExclusive ==
  evCall.step = "summarising" =>
    \A a \in DOMAIN evCall.parsed : \A i \in DOMAIN evCall.parsed[a].records :
      \A clock \in {"wall", "world"} :
        Cardinality(PhasesAt(evCall.parsed[a].records[i], clock, RunRequest.phases)) <= 1

(* The datasets of an artifact tell the same story: the phases share out    *)
(* the records that the whole counts as assigned, and each of its samples,  *)
(* and a cumulative snapshot is not spread over phases.                     *)
PartsOf(datasets, whole) ==
  {d \in datasets : d.artifact = whole.artifact /\ d.classification = "assigned"}

SamplesOf(d, metric) == IF metric \in DOMAIN d.metrics THEN d.metrics[metric].count ELSE 0

AddsUp(datasets, whole) ==
  LET parts == PartsOf(datasets, whole)
      spread(m) == SumFunction([d \in parts |-> SamplesOf(d, m)])
  IN IF whole.semantics = "cumulative_snapshot" THEN parts = {}
     ELSE /\ SumFunction([d \in parts |-> d.accepted]) = whole.assigned
          /\ \A m \in DOMAIN whole.metrics :
               whole.metrics[m].count - spread(m) \in 0 .. whole.accepted - whole.assigned

CountsAddUp ==
  \A n \in DOMAIN evCall.runs : \A whole \in evCall.runs[n].datasets :
    whole.classification # "assigned" => AddsUp(evCall.runs[n].datasets, whole)

(* A file that has grown since its size was looked at is not taken.         *)
WithinLimits ==
  \A a \in DOMAIN evCall.parsed : evCall.parsed[a].size <= MaxEvFile

Plain(id) == \A n \in DOMAIN id : id[n] # Bar

(* Runs that are compared are of one verified build; and unless a phase     *)
(* bears the separator of keys in its name, what stands under a key is the  *)
(* same metric of the same phase of every run, once.                        *)
ComparedAlike ==
  evCall.step = "answered" /\ evCall.call.compares =>
    LET runs == evCall.runs  result == evCall.result IN
    /\ \A i \in DOMAIN runs : runs[i].hash = runs[i].record /\ runs[i].record = runs[1].record
    /\ (\A i \in DOMAIN runs[1].phases : Plain(runs[1].phases[i].id)) =>
         \A key \in DOMAIN result :
           /\ \A i \in DOMAIN runs : \E at \in DOMAIN result[key] : at[1] = i
           /\ \A at, other \in DOMAIN result[key] :
                /\ at[1] = other[1] => at = other
                /\ at[3] = other[3] /\ at[2].phase = other[2].phase
                /\ at[2].artifact = other[2].artifact /\ at[2].semantics = other[2].semantics
                /\ at[2].classification = other[2].classification

(* All of them, for TLC.                                                    *)
EvidenceSound == PhasesExclusive /\ CountsAddUp /\ WithinLimits /\ ComparedAlike
=============================================================================
