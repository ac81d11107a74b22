-------------------------- MODULE AnalysisPublication --------------------------
(***************************************************************************)
(* AnalysisPublication: dm_parse_environment.  Requests queue for one      *)
(* parse permit; a blocking worker, which outlives its request, either     *)
(* finds the active snapshot reusable by the metadata of its inputs or     *)
(* reads the files and builds a new one, which the request publishes.      *)
(* The files change meanwhile.                                             *)
(*                                                                         *)
(* One environment, whose sources are Source and whose SpacemanDMM.toml is *)
(* Config.  A content is the number of the edit that wrote it, so that the *)
(* metadata of an entry is its modification time (lengths may agree).      *)
(***************************************************************************)
EXTENDS Integers

CONSTANTS
  Request,      \* calls of dm_parse_environment
  Source,       \* the .dme and the files it includes
  Config,       \* the optional SpacemanDMM.toml
  Deletable,    \* the files that may be deleted
  Settle,       \* MTIME_SETTLE_WINDOW, in ticks of the clock
  Granularity,  \* a file is stamped less than Granularity ticks before its edit
  MaxClock,     \* bound: ticks
  MaxEdits,     \* bound: edits of files
  None,         \* no request, no snapshot
  Gone          \* the content and the modification time of an absent file

Path == Source \cup {Config}

Time == 0 .. MaxClock

Content == (0 .. MaxEdits) \cup {Gone}

ASSUME AnalysisConstants ==
  /\ Config \notin Source
  /\ Deletable \subseteq Path
  /\ Settle \in Nat /\ Granularity \in Nat \ {0}
  /\ MaxClock \in Nat /\ MaxEdits \in Nat
  /\ None \notin Request
  /\ Gone \notin Int

VARIABLES
  \* requests
  pc,         \* pc[r]: the await a request has reached
  answer,     \* answer[r]: how it returned
  \* the server
  permit,     \* holder of the parse mutex
  active,     \* the active snapshot, or None
  generation,
  \* the workers
  stage,      \* stage[r]: what the worker of r does
  candidate,  \* candidate[r]: the active snapshot when it was spawned
  todo,       \* todo[r]: the files it still has to read or stat
  observed,   \* observed[r]: when it began to trust the files
  draft,      \* draft[r]: the snapshot it builds
  held,       \* held[r]: the content of each file when it was checked for reuse
  \* the files
  clock, edits,
  content,    \* content[p]
  mtime       \* mtime[p]

requestVars == <<pc, answer>>
serverVars  == <<permit, active, generation>>
workerVars  == <<stage, candidate, todo, observed, draft, held>>
fileVars    == <<clock, edits, content, mtime>>
vars == <<requestVars, serverVars, workerVars, fileVars>>

-----------------------------------------------------------------------------
(* Snapshots and fingerprints *)

(* read: the contents each file contributed; hasConfig: whether the profile *)
(* lists the configuration as an input; entries and reusable: the           *)
(* fingerprint                                                              *)
Absent == [p \in Path |-> Gone]

NewDraft ==
  [generation |-> 0, read |-> [p \in Path |-> {}], hasConfig |-> FALSE,
   entries |-> Absent, reusable |-> TRUE]

Required(d) == IF d.hasConfig THEN Path ELSE Source

Unsettled(p, at) == mtime[p] >= at - Settle

(* one file of SourceFingerprint::capture_with_discovery *)
Stat(d, p, at) ==
  IF mtime[p] = Gone
  THEN [d EXCEPT !.reusable = @ /\ p \notin Required(d)]
  ELSE [d EXCEPT !.entries[p] = mtime[p], !.reusable = @ /\ ~Unsettled(p, at)]

Reads(d, p) == [d EXCEPT !.read[p] = @ \cup {content[p]}]

Matches(d, e) == d.reusable /\ e.reusable /\ d.entries = e.entries

-----------------------------------------------------------------------------
(* Requests *)

Returns(r, how) ==
  /\ pc' = [pc EXCEPT ![r] = "returned"]
  /\ answer' = [answer EXCEPT ![r] = how]

Releases(r) == permit' = IF permit = r THEN None ELSE permit

WorkerEnds(r) ==
  /\ stage' = [stage EXCEPT ![r] = "none"]
  /\ todo' = [todo EXCEPT ![r] = {}]
  /\ observed' = [observed EXCEPT ![r] = 0]
  /\ held' = [held EXCEPT ![r] = Absent]

Discards(r) ==
  /\ candidate' = [candidate EXCEPT ![r] = None]
  /\ draft' = [draft EXCEPT ![r] = NewDraft]

Begin(r) ==
  /\ pc[r] = "idle"
  /\ pc' = [pc EXCEPT ![r] = "queued"]
  /\ UNCHANGED <<answer, serverVars, workerVars, fileVars>>

Admit(r) ==
  /\ pc[r] = "queued"
  /\ permit = None
  /\ permit' = r
  /\ pc' = [pc EXCEPT ![r] = "admitted"]
  /\ UNCHANGED <<answer, active, generation, workerVars, fileVars>>

Spawn(r) ==
  /\ pc[r] = "admitted"
  /\ candidate' = [candidate EXCEPT ![r] = active]
  /\ stage' = [stage EXCEPT ![r] = "starting"]
  /\ pc' = [pc EXCEPT ![r] = "awaiting"]
  /\ UNCHANGED <<answer, serverVars, todo, observed, draft, held, fileVars>>

(* the deadline passes, or the future is dropped, before the worker is spawned *)
QueueExpires(r) ==
  /\ pc[r] \in {"queued", "admitted"}
  /\ Releases(r)
  /\ Returns(r, "timedOut")
  /\ UNCHANGED <<active, generation, workerVars, fileVars>>

(* slip: a request that gives up takes the permit of its worker along *)
AwaitExpiresReleasing(r) ==
  /\ pc[r] = "awaiting"
  /\ Releases(r)
  /\ Returns(r, "timedOut")
  /\ UNCHANGED <<active, generation, workerVars, fileVars>>

(* the worker keeps the permit *)
AwaitExpires(r) ==
  /\ pc[r] = "awaiting"
  /\ Returns(r, "timedOut")
  /\ UNCHANGED <<serverVars, workerVars, fileVars>>

AcceptReused(r) ==
  /\ pc[r] = "awaiting" /\ stage[r] = "reusing"
  /\ WorkerEnds(r) /\ Discards(r)
  /\ Releases(r)
  /\ Returns(r, "reused")
  /\ UNCHANGED <<active, generation, fileVars>>

AcceptFailed(r) ==
  /\ pc[r] = "awaiting" /\ stage[r] \in {"failed", "none"}
  /\ WorkerEnds(r) /\ Discards(r)
  /\ Releases(r)
  /\ Returns(r, "failed")
  /\ UNCHANGED <<active, generation, fileVars>>

(* slip: the permit is dropped with the result of the worker *)
AcceptBuiltReleasing(r) ==
  /\ pc[r] = "awaiting" /\ stage[r] = "built"
  /\ WorkerEnds(r)
  /\ Releases(r)
  /\ pc' = [pc EXCEPT ![r] = "installing"]
  /\ UNCHANGED <<answer, candidate, active, generation, draft, fileVars>>

AcceptBuilt(r) ==
  /\ pc[r] = "awaiting" /\ stage[r] = "built"
  /\ WorkerEnds(r)
  /\ pc' = [pc EXCEPT ![r] = "installing"]
  /\ UNCHANGED <<answer, candidate, serverVars, draft, fileVars>>

(* publish_analysis, then the permit goes with the returning request *)
Install(r) ==
  /\ pc[r] = "installing"
  /\ generation' = generation + 1
  /\ active' = [draft[r] EXCEPT !.generation = generation + 1]
  /\ Discards(r)
  /\ Releases(r)
  /\ Returns(r, "built")
  /\ UNCHANGED <<stage, todo, observed, held, fileVars>>

InstallExpires(r) ==
  /\ pc[r] = "installing"
  /\ Discards(r)
  /\ Releases(r)
  /\ Returns(r, "timedOut")
  /\ UNCHANGED <<active, generation, stage, todo, observed, held, fileVars>>

-----------------------------------------------------------------------------
(* Workers *)

WorkerStep(r, from, to) ==
  /\ stage[r] = from
  /\ stage' = [stage EXCEPT ![r] = to]
  /\ UNCHANGED <<requestVars, serverVars, candidate, fileVars>>

(* reusable_snapshot is asked unless the call says force *)
Validate(r) ==
  /\ candidate[r] # None
  /\ WorkerStep(r, "starting", "validating")
  /\ todo' = [todo EXCEPT ![r] = Path]
  /\ observed' = [observed EXCEPT ![r] = clock]
  /\ draft' = [draft EXCEPT ![r] = [NewDraft EXCEPT !.hasConfig = candidate[r].hasConfig]]
  /\ held' = [held EXCEPT ![r] = Absent]

ValidateStat(r, p) ==
  /\ p \in todo[r]
  /\ WorkerStep(r, "validating", "validating")
  /\ todo' = [todo EXCEPT ![r] = @ \ {p}]
  /\ draft' = [draft EXCEPT ![r] = Stat(@, p, observed[r])]
  /\ held' = [held EXCEPT ![r][p] = content[p]]
  /\ UNCHANGED observed

Reuse(r) ==
  /\ WorkerStep(r, "validating", "reusing")
  /\ todo[r] = {}
  /\ Matches(candidate[r], draft[r])
  /\ UNCHANGED <<todo, observed, draft, held>>

(* slip: the capture is judged against its own time, not the parse's *)
RebuildUndated(r) ==
  /\ \/ WorkerStep(r, "starting", "configuring")
     \/ /\ WorkerStep(r, "validating", "configuring")
        /\ todo[r] = {} /\ ~Matches(candidate[r], draft[r])
  /\ observed' = [observed EXCEPT ![r] = MaxClock]
  /\ draft' = [draft EXCEPT ![r] = NewDraft]
  /\ UNCHANGED <<todo, held>>

(* build_environment: there is no candidate, it does not match, or force *)
Rebuild(r) ==
  /\ \/ WorkerStep(r, "starting", "configuring")
     \/ /\ WorkerStep(r, "validating", "configuring")
        /\ todo[r] = {} /\ ~Matches(candidate[r], draft[r])
  /\ observed' = [observed EXCEPT ![r] = clock]
  /\ draft' = [draft EXCEPT ![r] = NewDraft]
  /\ UNCHANGED <<todo, held>>

(* autodetect_config *)
ReadConfig(r) ==
  /\ WorkerStep(r, "configuring", "reading")
  /\ draft' = [draft EXCEPT ![r] = Reads(@, Config)]
  /\ todo' = [todo EXCEPT ![r] = Source]
  /\ UNCHANGED <<observed, held>>

ReadSource(r, p) ==
  /\ p \in todo[r]
  /\ content[p] # Gone
  /\ WorkerStep(r, "reading", "reading")
  /\ draft' = [draft EXCEPT ![r] = Reads(@, p)]
  /\ todo' = [todo EXCEPT ![r] = @ \ {p}]
  /\ UNCHANGED <<observed, held>>

(* configured_diagnostic_rules reads the configuration again *)
ReadRules(r) ==
  /\ todo[r] = {}
  /\ WorkerStep(r, "reading", "profiling")
  /\ draft' = [draft EXCEPT ![r] = Reads(@, Config)]
  /\ UNCHANGED <<todo, observed, held>>

(* ProjectProfile::discover decides whether the configuration is an input *)
Discover(r) ==
  /\ WorkerStep(r, "profiling", "capturing")
  /\ draft' = [draft EXCEPT ![r].hasConfig = content[Config] # Gone]
  /\ todo' = [todo EXCEPT ![r] = Path]
  /\ UNCHANGED <<observed, held>>

CaptureStat(r, p) ==
  /\ p \in todo[r]
  /\ WorkerStep(r, "capturing", "capturing")
  /\ draft' = [draft EXCEPT ![r] = Stat(@, p, observed[r])]
  /\ todo' = [todo EXCEPT ![r] = @ \ {p}]
  /\ UNCHANGED <<observed, held>>

Built(r) ==
  /\ todo[r] = {}
  /\ WorkerStep(r, "capturing", "built")
  /\ UNCHANGED <<todo, observed, draft, held>>

Working == {"starting", "validating", "configuring", "reading", "profiling", "capturing"}

(* a missing source, a parser error, a denied read or the worker's own       *)
(* deadline checks                                                           *)
WorkerFails(r) ==
  /\ stage[r] \in Working \ {"capturing"}
  /\ WorkerStep(r, stage[r], "failed")
  /\ UNCHANGED <<todo, observed, draft, held>>

WorkerPanics(r) ==
  /\ stage[r] \in Working
  /\ WorkerEnds(r) /\ Discards(r)
  /\ Releases(r)
  /\ UNCHANGED <<requestVars, active, generation, fileVars>>

(* slip: the permit of a result that nobody takes stays behind *)
ResultForgotten(r) ==
  /\ stage[r] \in {"reusing", "built", "failed"}
  /\ pc[r] = "returned"
  /\ WorkerEnds(r) /\ Discards(r)
  /\ UNCHANGED <<requestVars, serverVars, fileVars>>

ResultDropped(r) ==
  /\ stage[r] \in {"reusing", "built", "failed"}
  /\ pc[r] = "returned"
  /\ WorkerEnds(r) /\ Discards(r)
  /\ Releases(r)
  /\ UNCHANGED <<requestVars, active, generation, fileVars>>

-----------------------------------------------------------------------------
(* The files *)

Write(p) ==
  /\ edits < MaxEdits
  /\ edits' = edits + 1
  /\ content' = [content EXCEPT ![p] = edits + 1]
  /\ \E stamp \in Time :
       /\ clock - Granularity < stamp /\ stamp =< clock
       /\ mtime' = [mtime EXCEPT ![p] = stamp]
  /\ UNCHANGED <<clock, requestVars, serverVars, workerVars>>

Delete(p) ==
  /\ p \in Deletable /\ content[p] # Gone
  /\ edits < MaxEdits
  /\ edits' = edits + 1
  /\ content' = [content EXCEPT ![p] = Gone]
  /\ mtime' = [mtime EXCEPT ![p] = Gone]
  /\ UNCHANGED <<clock, requestVars, serverVars, workerVars>>

Tick ==
  /\ clock < MaxClock
  /\ clock' = clock + 1
  /\ UNCHANGED <<edits, content, mtime, requestVars, serverVars, workerVars>>

-----------------------------------------------------------------------------
Init ==
  /\ pc = [r \in Request |-> "idle"]
  /\ answer = [r \in Request |-> "none"]
  /\ candidate = [r \in Request |-> None]
  /\ permit = None /\ active = None /\ generation = 0
  /\ stage = [r \in Request |-> "none"]
  /\ todo = [r \in Request |-> {}]
  /\ observed = [r \in Request |-> 0]
  /\ draft = [r \in Request |-> NewDraft]
  /\ held = [r \in Request |-> Absent]
  /\ clock = 0 /\ edits = 0
  /\ \E present \in {Source, Path} :
       /\ content = [p \in Path |-> IF p \in present THEN 0 ELSE Gone]
       /\ mtime = [p \in Path |-> IF p \in present THEN 0 ELSE Gone]

Expire(r) == QueueExpires(r) \/ AwaitExpires(r) \/ InstallExpires(r)

Serve(r) ==
  \/ Admit(r) \/ Spawn(r)
  \/ AcceptReused(r) \/ AcceptFailed(r) \/ AcceptBuilt(r) \/ Install(r)

Work(r) ==
  \/ Validate(r) \/ Reuse(r) \/ Rebuild(r)
  \/ ReadConfig(r) \/ ReadRules(r) \/ Discover(r) \/ Built(r)
  \/ \E p \in Path : ValidateStat(r, p) \/ ReadSource(r, p) \/ CaptureStat(r, p)
  \/ WorkerFails(r)

Next ==
  \/ \E r \in Request :
       \/ Begin(r) \/ Serve(r) \/ Expire(r)
       \/ Work(r) \/ WorkerPanics(r) \/ ResultDropped(r)
  \/ \E p \in Path : Write(p) \/ Delete(p)
  \/ Tick

Spec == Init /\ [][Next]_vars

(* The parse mutex is FIFO, tasks are scheduled and the parser terminates;  *)
(* no deadline need ever pass.                                              *)
Fairness ==
  \A r \in Request : SF_vars(Serve(r)) /\ WF_vars(Work(r)) /\ WF_vars(ResultDropped(r))

FairSpec == Spec /\ Fairness

-----------------------------------------------------------------------------
(* Properties *)

Snapshot ==
  [generation : Nat, read : [Path -> SUBSET Content], hasConfig : BOOLEAN,
   entries : [Path -> Time \cup {Gone}], reusable : BOOLEAN]

RequestTypeOK ==
  /\ pc \in [Request -> {"idle", "queued", "admitted", "awaiting", "installing",
                         "returned"}]
  /\ answer \in [Request -> {"none", "reused", "built", "failed", "timedOut"}]
  /\ candidate \in [Request -> Snapshot \cup {None}]
  /\ permit \in Request \cup {None}
  /\ active \in Snapshot \cup {None}
  /\ generation \in Nat
  /\ IF generation = 0 THEN active = None ELSE active.generation = generation

WorkerTypeOK ==
  /\ stage \in [Request -> Working \cup {"none", "reusing", "built", "failed"}]
  /\ todo \in [Request -> SUBSET Path]
  /\ observed \in [Request -> Time]
  /\ draft \in [Request -> Snapshot]
  /\ held \in [Request -> [Path -> Content]]

FileTypeOK ==
  /\ clock \in Time /\ edits \in 0 .. MaxEdits
  /\ content \in [Path -> Content]
  /\ mtime \in [Path -> Time \cup {Gone}]
  /\ \A p \in Path : content[p] = Gone <=> mtime[p] = Gone

(* The type of every variable; a generation counts the publications.        *)
TypeOK == RequestTypeOK /\ WorkerTypeOK /\ FileTypeOK

(* At most one blocking worker exists, those whose requests have timed out  *)
(* or were dropped included.                                                *)
OneWorker ==
  \A r, s \in Request : stage[r] # "none" /\ stage[s] # "none" => r = s

(* Publications are in the order of the builds: a snapshot replaces the one *)
(* that was active when its own worker was spawned, never a newer one.      *)
PublishedInOrder ==
  [][active' # active =>
       \E r \in Request : /\ pc[r] = "installing" /\ answer'[r] = "built"
                          /\ candidate[r] = active]_vars

(* A reused snapshot was built from exactly what its files held when they   *)
(* were checked, whatever was edited during either parse.                   *)
ReuseExact ==
  \A r \in Request : stage[r] = "reusing" =>
    \A p \in Path : candidate[r].read[p] = {held[r][p]}

(* Every parse returns, and the queue moves on after the requests that gave *)
(* up: nobody needs a deadline.                                             *)
ParseReturns ==
  \A r \in Request : pc[r] = "queued" ~> pc[r] = "returned"
===============================================================================
