---------------------- MODULE AnalysisPublication_proofs ----------------------
(***************************************************************************)
(* Theorems of AnalysisPublication, for any requests, files, clock, edits  *)
(* and settle window.                                                      *)
(***************************************************************************)
EXTENDS AnalysisPublication, TLAPS

-----------------------------------------------------------------------------
(* Types *)

LEMMA Domains ==
  /\ Config \in Path /\ Source \subseteq Path
  /\ Gone \notin Int /\ None \notin Request
  /\ Settle \in Nat /\ Granularity \in Nat /\ Granularity > 0
  /\ MaxClock \in Nat /\ MaxEdits \in Nat
  /\ 0 \in Time /\ Time \subseteq Int /\ Gone \in Content
BY AnalysisConstants DEF Path, Time, Content

LEMMA Times == \A t \in Time : t \in Int
BY AnalysisConstants DEF Time

LEMMA NewDraftTyped == NewDraft \in Snapshot
BY Domains DEF NewDraft, Absent, Snapshot

LEMMA ConfigTyped ==
  ASSUME NEW d \in Snapshot, NEW b \in BOOLEAN
  PROVE  [d EXCEPT !.hasConfig = b] \in Snapshot
BY DEF Snapshot

LEMMA GenerationTyped ==
  ASSUME NEW d \in Snapshot, NEW g \in Nat
  PROVE  /\ [d EXCEPT !.generation = g] \in Snapshot
         /\ [d EXCEPT !.generation = g].generation = g
BY DEF Snapshot

LEMMA StatTyped ==
  ASSUME NEW d \in Snapshot, NEW p \in Path, NEW at,
         mtime[p] \in Time \cup {Gone}
  PROVE  Stat(d, p, at) \in Snapshot
BY DEF Stat, Snapshot

LEMMA ReadsTyped ==
  ASSUME NEW d \in Snapshot, NEW p \in Path, content[p] \in Content
  PROVE  Reads(d, p) \in Snapshot
BY DEF Reads, Snapshot

LEMMA DiscardsTyped ==
  ASSUME TypeOK, NEW r \in Request, Discards(r)
  PROVE  draft' \in [Request -> Snapshot] /\ candidate' \in [Request -> Snapshot \cup {None}]
<1>1. draft \in [Request -> Snapshot] /\ candidate \in [Request -> Snapshot \cup {None}]
  BY DEF TypeOK, RequestTypeOK, WorkerTypeOK
<1> QED
  BY <1>1, NewDraftTyped DEF Discards

LEMMA TypeInit == Init => TypeOK
BY Domains, NewDraftTyped
DEF Init, TypeOK, RequestTypeOK, WorkerTypeOK, FileTypeOK, Absent, Working, Content, Time

(* the actions of requests *)
LEMMA TypeRequest ==
  ASSUME TypeOK, NEW r \in Request, Begin(r) \/ Serve(r) \/ Expire(r)
  PROVE  TypeOK'
<1> USE DEF TypeOK, RequestTypeOK, WorkerTypeOK, FileTypeOK, Releases, Returns,
            serverVars, workerVars, fileVars
<1>1. CASE Begin(r)
  BY <1>1 DEF Begin
<1>2. CASE Admit(r)
  BY <1>2 DEF Admit
<1>3. CASE Spawn(r)
  BY <1>3 DEF Spawn, Working
<1>4. CASE QueueExpires(r)
  BY <1>4 DEF QueueExpires
<1>5. CASE AwaitExpires(r)
  BY <1>5 DEF AwaitExpires
<1>6. CASE AcceptReused(r)
  BY <1>6, Domains, NewDraftTyped DEF AcceptReused, WorkerEnds, Discards, Absent
<1>7. CASE AcceptFailed(r)
  BY <1>7, Domains, NewDraftTyped DEF AcceptFailed, WorkerEnds, Discards, Absent
<1>8. CASE AcceptBuilt(r)
  BY <1>8, Domains DEF AcceptBuilt, WorkerEnds, Absent
<1>9. CASE Install(r)
  <2>1. generation' \in Nat /\ generation' # 0
    BY <1>9 DEF Install
  <2>2. active' \in Snapshot /\ active'.generation = generation'
    <3>1. draft[r] \in Snapshot
      OBVIOUS
    <3>2. /\ active' = [draft[r] EXCEPT !.generation = generation + 1]
          /\ generation' = generation + 1
      BY <1>9 DEF Install
    <3> HIDE DEF TypeOK, RequestTypeOK, WorkerTypeOK, FileTypeOK
    <3> QED
      BY <2>1, <3>1, <3>2, GenerationTyped
  <2>3. draft' \in [Request -> Snapshot] /\ candidate' \in [Request -> Snapshot \cup {None}]
    <3>1. Discards(r)
      BY <1>9 DEF Install
    <3> QED
      BY <3>1, DiscardsTyped
  <2> QED BY <1>9, <2>1, <2>2, <2>3 DEF Install
<1>10. CASE InstallExpires(r)
  BY <1>10, NewDraftTyped DEF InstallExpires, Discards
<1> QED BY <1>1, <1>2, <1>3, <1>4, <1>5, <1>6, <1>7, <1>8, <1>9, <1>10 DEF Serve, Expire

(* the actions of workers *)
LEMMA TypeWorker ==
  ASSUME TypeOK, NEW r \in Request, Work(r) \/ WorkerPanics(r) \/ ResultDropped(r)
  PROVE  TypeOK'
<1> USE DEF TypeOK, RequestTypeOK, WorkerTypeOK, FileTypeOK, WorkerStep,
            requestVars, serverVars, fileVars
<1>1. CASE Validate(r)
  <2>1. [NewDraft EXCEPT !.hasConfig = candidate[r].hasConfig] \in Snapshot
    BY <1>1, NewDraftTyped DEF Validate, Snapshot
  <2> QED BY <1>1, <2>1, Domains DEF Validate, Working, Absent
<1>2. CASE Reuse(r)
  BY <1>2 DEF Reuse
<1>3. CASE Rebuild(r)
  BY <1>3, NewDraftTyped DEF Rebuild, Working
<1>4. CASE ReadConfig(r)
  BY <1>4, ReadsTyped, Domains DEF ReadConfig, Working
<1>5. CASE ReadRules(r)
  BY <1>5, ReadsTyped, Domains DEF ReadRules, Working
<1>6. CASE Discover(r)
  <2>1. draft[r] \in Snapshot /\ (content[Config] # Gone) \in BOOLEAN
    OBVIOUS
  <2>2. [draft[r] EXCEPT !.hasConfig = content[Config] # Gone] \in Snapshot
    BY <2>1, ConfigTyped
  <2> QED BY <1>6, <2>2 DEF Discover, Working
<1>7. CASE Built(r)
  BY <1>7 DEF Built
<1>8. ASSUME NEW p \in Path, ValidateStat(r, p)
      PROVE  TypeOK'
  BY <1>8, StatTyped DEF ValidateStat
<1>9. ASSUME NEW p \in Path, ReadSource(r, p)
      PROVE  TypeOK'
  BY <1>9, ReadsTyped DEF ReadSource
<1>10. ASSUME NEW p \in Path, CaptureStat(r, p)
       PROVE  TypeOK'
  BY <1>10, StatTyped DEF CaptureStat
<1>11. CASE WorkerFails(r)
  BY <1>11 DEF WorkerFails
<1>12. CASE WorkerPanics(r)
  BY <1>12, Domains, NewDraftTyped DEF WorkerPanics, WorkerEnds, Discards, Releases, Absent
<1>13. CASE ResultDropped(r)
  BY <1>13, Domains, NewDraftTyped DEF ResultDropped, WorkerEnds, Discards, Releases, Absent
<1> QED BY <1>1, <1>2, <1>3, <1>4, <1>5, <1>6, <1>7, <1>8, <1>9, <1>10, <1>11, <1>12, <1>13
        DEF Work

(* the files, and stuttering *)
LEMMA TypeFile ==
  ASSUME TypeOK, (\E p \in Path : Write(p) \/ Delete(p)) \/ Tick \/ UNCHANGED vars
  PROVE  TypeOK'
<1> USE DEF TypeOK, RequestTypeOK, WorkerTypeOK, FileTypeOK,
            requestVars, serverVars, workerVars
<1>1. ASSUME NEW p \in Path, Write(p)
      PROVE  TypeOK'
  BY <1>1, Domains DEF Write, Content
<1>2. ASSUME NEW p \in Path, Delete(p)
      PROVE  TypeOK'
  BY <1>2, Domains DEF Delete
<1>3. CASE Tick
  BY <1>3, Domains DEF Tick, Time
<1>4. CASE UNCHANGED vars
  BY <1>4 DEF vars, fileVars
<1> QED BY <1>1, <1>2, <1>3, <1>4

LEMMA TypeNext == TypeOK /\ [Next]_vars => TypeOK'
BY TypeRequest, TypeWorker, TypeFile DEF Next

(* Every reachable state is typed, and the active snapshot carries the      *)
(* generation of the last publication.                                      *)
THEOREM Typing == Spec => []TypeOK
BY TypeInit, TypeNext, PTL DEF Spec

-----------------------------------------------------------------------------
(* The permit *)

(* The permit belongs to the request until it spawns its worker, then to    *)
(* the worker, then to the request again until it has published; the        *)
(* candidate stays the active snapshot all that time.                       *)
PermitInv ==
  /\ \A r \in Request : pc[r] \in {"idle", "queued", "admitted", "installing"}
                          => stage[r] = "none"
  /\ \A r \in Request : stage[r] # "none" \/ pc[r] \in {"admitted", "installing"}
                          => permit = r
  /\ \A r \in Request : stage[r] # "none" \/ pc[r] = "installing"
                          => candidate[r] = active

LEMMA PermitRequest ==
  ASSUME TypeOK, PermitInv, NEW r \in Request, Begin(r) \/ Serve(r) \/ Expire(r)
  PROVE  PermitInv'
<1> USE Domains DEF TypeOK, RequestTypeOK, WorkerTypeOK, PermitInv, Releases, Returns,
            serverVars, workerVars
<1>1. CASE Begin(r)
  BY <1>1 DEF Begin
<1>2. CASE Admit(r)
  BY <1>2 DEF Admit
<1>3. CASE Spawn(r)
  BY <1>3 DEF Spawn
<1>4. CASE QueueExpires(r)
  BY <1>4 DEF QueueExpires
<1>5. CASE AwaitExpires(r)
  BY <1>5 DEF AwaitExpires
<1>6. CASE AcceptReused(r)
  BY <1>6 DEF AcceptReused, WorkerEnds, Discards
<1>7. CASE AcceptFailed(r)
  BY <1>7 DEF AcceptFailed, WorkerEnds, Discards
<1>8. CASE AcceptBuilt(r)
  BY <1>8 DEF AcceptBuilt, WorkerEnds
<1>9. CASE Install(r)
  BY <1>9 DEF Install, Discards
<1>10. CASE InstallExpires(r)
  BY <1>10 DEF InstallExpires, Discards
<1> QED BY <1>1, <1>2, <1>3, <1>4, <1>5, <1>6, <1>7, <1>8, <1>9, <1>10 DEF Serve, Expire

(* a worker that goes on has begun and has not ended *)
LEMMA WorkerGoesOn ==
  ASSUME TypeOK, NEW r \in Request, Work(r)
  PROVE  /\ stage[r] # "none"
         /\ stage' = [stage EXCEPT ![r] = stage'[r]]
         /\ UNCHANGED <<requestVars, serverVars, candidate, fileVars>>
<1> USE DEF TypeOK, WorkerTypeOK, WorkerStep
<1>1. CASE Validate(r)
  BY <1>1 DEF Validate
<1>2. CASE Reuse(r)
  BY <1>2 DEF Reuse
<1>3. CASE Rebuild(r)
  BY <1>3 DEF Rebuild
<1>4. CASE ReadConfig(r) \/ ReadRules(r) \/ Discover(r) \/ Built(r)
  BY <1>4 DEF ReadConfig, ReadRules, Discover, Built
<1>5. CASE \E p \in Path : ValidateStat(r, p) \/ ReadSource(r, p) \/ CaptureStat(r, p)
  BY <1>5 DEF ValidateStat, ReadSource, CaptureStat
<1>6. CASE WorkerFails(r)
  BY <1>6 DEF WorkerFails, Working
<1> QED BY <1>1, <1>2, <1>3, <1>4, <1>5, <1>6 DEF Work

LEMMA PermitWorker ==
  ASSUME TypeOK, PermitInv, NEW r \in Request,
         Work(r) \/ WorkerPanics(r) \/ ResultDropped(r)
  PROVE  PermitInv'
<1> USE DEF TypeOK, RequestTypeOK, WorkerTypeOK, PermitInv, requestVars, serverVars
<1>1. CASE Work(r)
  BY <1>1, WorkerGoesOn
<1>2. CASE WorkerPanics(r)
  BY <1>2 DEF WorkerPanics, WorkerEnds, Discards, Releases, Working
<1>3. CASE ResultDropped(r)
  BY <1>3 DEF ResultDropped, WorkerEnds, Discards, Releases
<1> QED BY <1>1, <1>2, <1>3

LEMMA PermitFile ==
  ASSUME TypeOK, PermitInv,
         (\E p \in Path : Write(p) \/ Delete(p)) \/ Tick \/ UNCHANGED vars
  PROVE  PermitInv'
BY DEF PermitInv, Write, Delete, Tick, vars, requestVars, serverVars, workerVars

LEMMA PermitNext == TypeOK /\ PermitInv /\ [Next]_vars => PermitInv'
BY PermitRequest, PermitWorker, PermitFile DEF Next

LEMMA Permitted == Spec => [](TypeOK /\ PermitInv)
<1>1. Init => PermitInv
  BY DEF Init, PermitInv
<1> QED BY <1>1, TypeInit, TypeNext, PermitNext, PTL DEF Spec

(* However many requests time out or are dropped, at most one blocking      *)
(* worker exists.                                                           *)
THEOREM SingleWorker == Spec => []OneWorker
<1>1. PermitInv => OneWorker
  BY DEF PermitInv, OneWorker
<1> QED BY <1>1, Permitted, PTL

(* A snapshot is only ever replaced by one whose build began when it was    *)
(* the active one.                                                          *)
THEOREM OrderedPublication == Spec => PublishedInOrder
<1>1. ASSUME TypeOK, PermitInv, [Next]_vars, active' # active
      PROVE  \E r \in Request : /\ pc[r] = "installing" /\ answer'[r] = "built"
                                /\ candidate[r] = active
  <2>1. PICK r \in Request : Install(r)
    <3>1. ASSUME NEW r \in Request, Work(r)
          PROVE  FALSE
      BY <1>1, <3>1, WorkerGoesOn DEF serverVars
    <3> QED BY <1>1, <3>1
            DEF Next, Begin, Serve, Expire, Admit, Spawn, QueueExpires, AwaitExpires,
                AcceptReused, AcceptFailed, AcceptBuilt, InstallExpires, WorkerPanics,
                ResultDropped, Write, Delete, Tick, vars, serverVars
  <2> QED BY <1>1, <2>1 DEF Install, Returns, PermitInv, TypeOK, RequestTypeOK
<1>2. TypeOK /\ PermitInv /\ [Next]_vars
        => [active' # active =>
              \E r \in Request : /\ pc[r] = "installing" /\ answer'[r] = "built"
                                 /\ candidate[r] = active]_vars
  BY <1>1
<1> QED BY <1>2, Permitted, PTL DEF Spec, PublishedInOrder

-----------------------------------------------------------------------------
(* Reuse *)

(* What the theorem assumes: the configuration is not deleted, and the      *)
(* settle window covers the granularity of modification times.              *)
SettledFiles == Config \notin Deletable /\ Granularity =< Settle + 1

(* The file p that a snapshot d recorded, with modification time m and      *)
(* content c now: its entry was settled at t, and if the entry is still     *)
(* that of the file then so is what d read.                                 *)
SoundEntry(d, p, t, m, c) ==
  /\ d.entries[p] # Gone => d.entries[p] + Settle < t
  /\ p \in Source => d.entries[p] # Gone
  /\ d.entries[p] = m => d.read[p] = {c}

Sound(d) ==
  d.reusable => \A p \in Path : SoundEntry(d, p, clock, mtime[p], content[p])

SnapshotInv(r) ==
  /\ candidate[r] # None => Sound(candidate[r])
  /\ stage[r] = "built" \/ pc[r] = "installing" => Sound(draft[r])

(* A validation compares entries with what it held when it recorded them.   *)
ValidateInv(r) ==
  /\ stage[r] = "validating" =>
       /\ candidate[r] # None
       /\ \A p \in todo[r] : draft[r].entries[p] = Gone
       /\ \A p \in Path \ todo[r] :
            candidate[r].reusable /\ candidate[r].entries[p] = draft[r].entries[p]
              => candidate[r].read[p] = {held[r][p]}
  /\ stage[r] = "reusing" => \A p \in Path : candidate[r].read[p] = {held[r][p]}

(* A file of which nothing was settled after the build began has changed    *)
(* since, or still holds what was read.                                     *)
UnchangedSince(d, p, t, m, c) ==
  /\ m # Gone /\ m + Settle < t => d.read[p] \subseteq {c}
  /\ p = Config /\ m = Gone => d.read[p] \subseteq {c}

Building == {"configuring", "reading", "profiling", "capturing"}

BuildInv(r) ==
  stage[r] \in Building =>
    /\ observed[r] =< clock
    /\ \A p \in Path : UnchangedSince(draft[r], p, observed[r], mtime[p], content[p])
    /\ stage[r] # "configuring" => draft[r].read[Config] # {}
    /\ stage[r] = "reading" => \A p \in Source \ todo[r] : draft[r].read[p] # {}
    /\ stage[r] \in {"profiling", "capturing"} =>
         \A p \in Source : draft[r].read[p] # {}
    /\ stage[r] # "capturing" => draft[r].entries = Absent

CaptureInv(r) ==
  stage[r] = "capturing" =>
    /\ \A p \in todo[r] : draft[r].entries[p] = Gone
    /\ draft[r].reusable =>
         \A p \in Path \ todo[r] :
           SoundEntry(draft[r], p, observed[r], mtime[p], content[p])

RequestInv(r) == SnapshotInv(r) /\ ValidateInv(r) /\ BuildInv(r) /\ CaptureInv(r)

ReuseInv ==
  /\ active # None => Sound(active)
  /\ \A r \in Request : RequestInv(r)

(* What a step of the files does to one file. *)
Moves(p) ==
  \/ mtime'[p] = mtime[p] /\ content'[p] = content[p]
  \/ /\ mtime'[p] \in Time /\ clock - Granularity < mtime'[p]
     /\ content'[p] \in Content
  \/ p # Config /\ mtime'[p] = Gone /\ content'[p] = Gone

LEMMA FileMoves ==
  ASSUME TypeOK, SettledFiles,
         (\E p \in Path : Write(p) \/ Delete(p)) \/ Tick \/ UNCHANGED vars
  PROVE  /\ \A p \in Path : Moves(p)
         /\ clock =< clock'
         /\ UNCHANGED <<requestVars, serverVars, workerVars>>
<1> USE Domains DEF TypeOK, FileTypeOK, Moves
<1>1. ASSUME NEW p \in Path, Write(p)
      PROVE  (\A q \in Path : Moves(q)) /\ UNCHANGED clock
  BY <1>1 DEF Write, Content
<1>2. ASSUME NEW p \in Path, Delete(p)
      PROVE  (\A q \in Path : Moves(q)) /\ UNCHANGED clock
  BY <1>2 DEF Delete, SettledFiles
<1>3. CASE Tick
  BY <1>3 DEF Tick, Time
<1>4. CASE UNCHANGED vars
  BY <1>4 DEF vars, fileVars, Time
<1>5. clock =< clock'
  BY <1>1, <1>2, <1>3, <1>4 DEF Time
<1> QED BY <1>1, <1>2, <1>3, <1>4, <1>5 DEF Write, Delete, Tick, vars

(* A sound entry stays sound: what is written now is stamped too late to be *)
(* taken for a settled entry.                                               *)
LEMMA SoundMoves ==
  ASSUME TypeOK, SettledFiles, NEW d \in Snapshot, NEW p \in Path, Moves(p),
         NEW t \in Int, t =< clock,
         SoundEntry(d, p, t, mtime[p], content[p])
  PROVE  SoundEntry(d, p, t, mtime'[p], content'[p])
<1>1. /\ clock \in Int /\ Settle \in Int /\ Granularity \in Int
      /\ d.entries[p] # Gone => d.entries[p] \in Int
      /\ Granularity =< Settle + 1
  <2>1. d.entries[p] \in Time \cup {Gone}
    BY DEF Snapshot
  <2>2. d.entries[p] # Gone => d.entries[p] \in Int
    BY <2>1, Domains
  <2>3. clock \in Int /\ Granularity =< Settle + 1
    BY Domains DEF TypeOK, FileTypeOK, SettledFiles
  <2> QED BY <2>2, <2>3, Domains
<1>2. CASE mtime'[p] = mtime[p] /\ content'[p] = content[p]
  BY <1>2
<1>3. CASE mtime'[p] \in Time /\ clock - Granularity < mtime'[p]
  <2>1. mtime'[p] \in Int /\ mtime'[p] # Gone
    BY <1>3, Domains
  <2>2. d.entries[p] # mtime'[p]
    BY <1>1, <1>3, <2>1 DEF SoundEntry
  <2> QED BY <2>2 DEF SoundEntry
<1>4. CASE p # Config /\ mtime'[p] = Gone
  BY <1>4 DEF SoundEntry, Path
<1> QED BY <1>2, <1>3, <1>4 DEF Moves

LEMMA SoundLater ==
  ASSUME NEW d \in Snapshot, NEW p \in Path, NEW t \in Int, NEW u \in Int, t =< u,
         NEW m, NEW c, SoundEntry(d, p, t, m, c)
  PROVE  SoundEntry(d, p, u, m, c)
<1>1. d.entries[p] # Gone => d.entries[p] \in Int
  BY Domains DEF Snapshot
<1> QED BY <1>1, Domains DEF SoundEntry

LEMMA UnchangedMoves ==
  ASSUME TypeOK, SettledFiles, NEW d \in Snapshot, NEW p \in Path, Moves(p),
         NEW t \in Int, t =< clock,
         UnchangedSince(d, p, t, mtime[p], content[p])
  PROVE  UnchangedSince(d, p, t, mtime'[p], content'[p])
<1>1. clock \in Int /\ Settle \in Int /\ Granularity \in Int /\ Granularity =< Settle + 1
  BY Domains DEF TypeOK, FileTypeOK, SettledFiles
<1>2. CASE mtime'[p] = mtime[p] /\ content'[p] = content[p]
  BY <1>2
<1>3. CASE mtime'[p] \in Time /\ clock - Granularity < mtime'[p]
  <2>1. mtime'[p] \in Int /\ mtime'[p] # Gone
    BY <1>3, Domains
  <2> QED BY <1>1, <1>3, <2>1 DEF UnchangedSince
<1>4. CASE p # Config /\ mtime'[p] = Gone
  BY <1>4 DEF UnchangedSince
<1> QED BY <1>2, <1>3, <1>4 DEF Moves

LEMMA ReuseFile ==
  ASSUME TypeOK, SettledFiles, ReuseInv,
         (\E p \in Path : Write(p) \/ Delete(p)) \/ Tick \/ UNCHANGED vars
  PROVE  ReuseInv'
<1>1. /\ \A p \in Path : Moves(p)
      /\ clock \in Int /\ clock' \in Int /\ clock =< clock'
      /\ UNCHANGED <<requestVars, serverVars, workerVars>>
  BY FileMoves, TypeFile, Domains DEF TypeOK, FileTypeOK
<1> USE <1>1 DEF requestVars, serverVars, workerVars
<1>2. ASSUME NEW d \in Snapshot,
             d.reusable => \A p \in Path : SoundEntry(d, p, clock, mtime[p], content[p])
      PROVE  d.reusable => \A p \in Path : SoundEntry(d, p, clock', mtime'[p], content'[p])
  <2> SUFFICES ASSUME d.reusable, NEW p \in Path
               PROVE  SoundEntry(d, p, clock', mtime'[p], content'[p])
    OBVIOUS
  <2>1. SoundEntry(d, p, clock, mtime'[p], content'[p])
    BY <1>2, SoundMoves
  <2> QED BY <2>1, SoundLater
<1>3. active' # None => Sound(active)'
  BY <1>2 DEF ReuseInv, Sound, TypeOK, RequestTypeOK
<1>4. ASSUME NEW r \in Request
      PROVE  RequestInv(r)'
  <2>1. SnapshotInv(r)'
    <3>1. candidate[r] # None => candidate[r] \in Snapshot
      BY DEF TypeOK, WorkerTypeOK, RequestTypeOK
    <3>2. draft[r] \in Snapshot
      BY DEF TypeOK, WorkerTypeOK
    <3>3. SnapshotInv(r)
      BY DEF ReuseInv, RequestInv
    <3>4. candidate[r] # None => Sound(candidate[r])'
      BY <1>2, <3>1, <3>3 DEF SnapshotInv, Sound
    <3>5. stage[r] = "built" \/ pc[r] = "installing" => Sound(draft[r])'
      BY <1>2, <3>2, <3>3 DEF SnapshotInv, Sound
    <3> QED BY <3>4, <3>5 DEF SnapshotInv
  <2>2. ValidateInv(r)'
    BY DEF ReuseInv, RequestInv, ValidateInv
  <2>3. ASSUME stage[r] \in Building
        PROVE  /\ draft[r] \in Snapshot /\ observed[r] \in Int /\ observed[r] =< clock
               /\ observed[r] =< clock'
    <3>1. draft[r] \in Snapshot /\ observed[r] \in Time
      BY DEF TypeOK, WorkerTypeOK
    <3>2. observed[r] =< clock
      BY <2>3 DEF ReuseInv, RequestInv, BuildInv
    <3> QED BY <3>1, <3>2, Times
  <2>4. BuildInv(r)'
    <3>1. ASSUME NEW p \in Path, stage[r] \in Building
          PROVE  UnchangedSince(draft[r], p, observed[r], mtime'[p], content'[p])
      BY <2>3, <3>1, UnchangedMoves DEF ReuseInv, RequestInv, BuildInv
    <3> QED BY <2>3, <3>1 DEF ReuseInv, RequestInv, BuildInv
  <2>5. CaptureInv(r)'
    <3>1. ASSUME NEW p \in Path \ todo[r], stage[r] = "capturing", draft[r].reusable
          PROVE  SoundEntry(draft[r], p, observed[r], mtime'[p], content'[p])
      BY <2>3, <3>1, SoundMoves DEF ReuseInv, RequestInv, CaptureInv, Building
    <3> QED BY <3>1 DEF ReuseInv, RequestInv, CaptureInv
  <2> QED BY <2>1, <2>2, <2>4, <2>5 DEF RequestInv
<1> QED BY <1>3, <1>4 DEF ReuseInv

(* What Stat does to the fields of a snapshot. *)
LEMMA StatFields ==
  ASSUME NEW d \in Snapshot, NEW p \in Path, NEW at
  PROVE  /\ Stat(d, p, at).read = d.read
         /\ \A q \in Path \ {p} : Stat(d, p, at).entries[q] = d.entries[q]
         /\ mtime[p] # Gone => Stat(d, p, at).entries[p] = mtime[p]
         /\ mtime[p] = Gone => Stat(d, p, at).entries[p] = d.entries[p]
         /\ Stat(d, p, at).reusable =>
              /\ d.reusable
              /\ IF mtime[p] = Gone THEN p \notin Source ELSE ~Unsettled(p, at)
BY DEF Stat, Snapshot, Required, Path

LEMMA ReadFields ==
  ASSUME NEW d \in Snapshot, NEW p \in Path
  PROVE  /\ Reads(d, p).read = [d.read EXCEPT ![p] = @ \cup {content[p]}]
         /\ Reads(d, p).read[p] = d.read[p] \cup {content[p]}
         /\ \A q \in Path \ {p} : Reads(d, p).read[q] = d.read[q]
         /\ Reads(d, p).entries = d.entries
BY DEF Reads, Snapshot

LEMMA NewDraftFields ==
  /\ \A p \in Path : NewDraft.read[p] = {} /\ NewDraft.entries[p] = Gone
  /\ NewDraft.entries = Absent
BY DEF NewDraft, Absent

(* The settled entry of a file of which everything read is current. *)
LEMMA CaptureSound ==
  ASSUME TypeOK, NEW d \in Snapshot, NEW p \in Path, NEW t \in Int,
         UnchangedSince(d, p, t, mtime[p], content[p]),
         d.read[p] # {}, d.entries[p] = Gone,
         Stat(d, p, t).reusable
  PROVE  SoundEntry(Stat(d, p, t), p, t, mtime[p], content[p])
<1>1. CASE mtime[p] = Gone
  <2>1. p = Config /\ Stat(d, p, t).entries[p] = Gone
    BY <1>1, StatFields DEF Path
  <2>2. d.read[p] = {content[p]}
    BY <1>1, <2>1 DEF UnchangedSince
  <2> QED BY <1>1, <2>1, <2>2, StatFields, Domains, AnalysisConstants DEF SoundEntry
<1>2. CASE mtime[p] # Gone
  <2>1. mtime[p] \in Int /\ Settle \in Int
    <3>1. mtime[p] \in Time
      BY <1>2 DEF TypeOK, FileTypeOK
    <3>2. mtime[p] \in Int
      BY <3>1, Times, Zenon
    <3>3. Settle \in Int
      BY AnalysisConstants
    <3> QED BY <3>2, <3>3
  <2>2. Stat(d, p, t).entries[p] = mtime[p] /\ ~Unsettled(p, t)
    BY <1>2, StatFields
  <2>3. mtime[p] + Settle < t
    BY <2>1, <2>2 DEF Unsettled
  <2>4. d.read[p] = {content[p]}
    BY <1>2, <2>3 DEF UnchangedSince
  <2> QED BY <1>2, <2>2, <2>3, <2>4, StatFields DEF SoundEntry
<1> QED BY <1>1, <1>2

(* A request keeps its part of the invariant while it and the files stay.   *)
Stays(r) ==
  UNCHANGED <<pc[r], stage[r], candidate[r], todo[r], observed[r], draft[r], held[r]>>

LEMMA StayingRequest ==
  ASSUME NEW r \in Request, RequestInv(r), Stays(r), UNCHANGED fileVars
  PROVE  RequestInv(r)'
BY DEF Stays, RequestInv, SnapshotInv, ValidateInv, BuildInv, CaptureInv, Sound, fileVars

(* A request whose worker has nothing to build keeps its part if its        *)
(* candidate is sound.                                                      *)
LEMMA RestingRequest ==
  ASSUME NEW r \in Request,
         (candidate[r] # None => Sound(candidate[r]))',
         (pc[r] = "installing" => Sound(draft[r]))',
         stage'[r] \in {"none", "starting", "failed"}
  PROVE  RequestInv(r)'
BY DEF RequestInv, SnapshotInv, ValidateInv, BuildInv, CaptureInv, Building

LEMMA RequestsOnly ==
  ASSUME ReuseInv, NEW r \in Request, RequestInv(r)',
         UNCHANGED fileVars, (active # None => Sound(active))',
         \A s \in Request \ {r} : Stays(s)
  PROVE  ReuseInv'
BY StayingRequest DEF ReuseInv

LEMMA ReuseWorker ==
  ASSUME TypeOK, PermitInv, ReuseInv, NEW r \in Request, Work(r)
  PROVE  ReuseInv'
<1>1. /\ RequestInv(r)
      /\ draft[r] \in Snapshot /\ observed[r] \in Int /\ clock \in Int
      /\ pc'[r] = pc[r] /\ candidate'[r] = candidate[r]
      /\ UNCHANGED <<active, clock, mtime, content>>
      /\ pc[r] # "installing"
  BY WorkerGoesOn, Domains
  DEF ReuseInv, TypeOK, WorkerTypeOK, FileTypeOK, requestVars, serverVars, fileVars, PermitInv
<1>2. SUFFICES RequestInv(r)'
  <2>1. (active # None => Sound(active))'
    BY <1>1 DEF ReuseInv, Sound
  <2>2. \A s \in Request \ {r} : Stays(s)
    <3> SUFFICES ASSUME NEW s \in Request, s # r PROVE Stays(s)
      OBVIOUS
    <3> USE DEF TypeOK, WorkerTypeOK, Stays, WorkerStep, requestVars
    <3>1. CASE Validate(r)
      BY <3>1 DEF Validate
    <3>2. CASE Reuse(r) \/ Built(r) \/ WorkerFails(r)
      BY <3>2 DEF Reuse, Built, WorkerFails
    <3>3. CASE Rebuild(r)
      BY <3>3 DEF Rebuild
    <3>4. CASE ReadConfig(r) \/ ReadRules(r) \/ Discover(r)
      BY <3>4 DEF ReadConfig, ReadRules, Discover
    <3>5. CASE \E p \in Path : ValidateStat(r, p) \/ ReadSource(r, p) \/ CaptureStat(r, p)
      BY <3>5 DEF ValidateStat, ReadSource, CaptureStat
    <3> QED BY <3>1, <3>2, <3>3, <3>4, <3>5 DEF Work
  <2>3. UNCHANGED fileVars
    BY WorkerGoesOn
  <2> QED BY <2>1, <2>2, <2>3, RequestsOnly
<1>3. ASSUME stage'[r] # "built"
      PROVE  SnapshotInv(r)'
  BY <1>1, <1>3 DEF RequestInv, SnapshotInv, Sound
<1> USE DEF WorkerStep, TypeOK, WorkerTypeOK
<1>4. CASE Validate(r)
  <2>1. /\ stage'[r] = "validating" /\ candidate'[r] # None /\ todo'[r] = Path
        /\ \A p \in Path : draft'[r].entries[p] = Gone
    BY <1>1, <1>4, NewDraftFields, NewDraftTyped DEF Validate, Snapshot
  <2> QED BY <1>3, <2>1 DEF RequestInv, ValidateInv, BuildInv, CaptureInv, Building
<1>5. ASSUME NEW p \in Path, ValidateStat(r, p)
      PROVE  RequestInv(r)'
  <2>1. /\ stage[r] = "validating" /\ stage'[r] = "validating"
        /\ p \in todo[r] /\ todo'[r] = todo[r] \ {p}
        /\ draft'[r] = Stat(draft[r], p, observed[r])
        /\ held'[r] = [held[r] EXCEPT ![p] = content[p]]
        /\ held[r] \in [Path -> Content]
    BY <1>5 DEF ValidateStat
  <2>2. draft'[r].entries[p] = mtime[p] /\ held'[r][p] = content[p]
    BY <1>1, <2>1, StatFields DEF RequestInv, ValidateInv
  <2>3. /\ \A q \in Path \ {p} : draft'[r].entries[q] = draft[r].entries[q]
        /\ \A q \in Path \ {p} : held'[r][q] = held[r][q]
    BY <1>1, <2>1, StatFields
  <2>4. candidate[r].reusable /\ candidate[r].entries[p] = mtime[p]
          => candidate[r].read[p] = {content[p]}
    BY <1>1, <2>1 DEF RequestInv, SnapshotInv, ValidateInv, Sound, SoundEntry
  <2>5. todo[r] \subseteq Path
    BY <1>5 DEF ValidateStat
  <2>6. ValidateInv(r)'
    <3>1. ValidateInv(r) /\ candidate'[r] = candidate[r]
      BY <1>1 DEF RequestInv
    <3>2. ASSUME NEW q \in Path \ todo'[r],
                 candidate[r].reusable, candidate[r].entries[q] = draft'[r].entries[q]
          PROVE  candidate[r].read[q] = {held'[r][q]}
      <4>1. CASE q = p
        BY <2>2, <2>4, <3>2, <4>1
      <4>2. CASE q # p
        BY <2>1, <2>3, <3>1, <3>2, <4>2 DEF ValidateInv
      <4> QED BY <4>1, <4>2
    <3>3. \A q \in todo'[r] : draft'[r].entries[q] = Gone
      BY <2>1, <2>3, <2>5, <3>1 DEF ValidateInv
    <3> QED BY <2>1, <3>1, <3>2, <3>3 DEF ValidateInv
  <2> QED BY <1>3, <2>1, <2>6 DEF RequestInv, BuildInv, CaptureInv, Building
<1>6. CASE Reuse(r)
  <2>1. /\ stage[r] = "validating" /\ stage'[r] = "reusing" /\ todo[r] = {}
        /\ candidate[r].reusable /\ candidate[r].entries = draft[r].entries
        /\ held'[r] = held[r]
    BY <1>6 DEF Reuse, Matches
  <2> QED BY <1>1, <1>3, <2>1 DEF RequestInv, ValidateInv, BuildInv, CaptureInv, Building
<1>7. CASE Rebuild(r)
  <2>1. stage'[r] = "configuring" /\ observed'[r] = clock /\ draft'[r] = NewDraft
    BY <1>7 DEF Rebuild
  <2>2. BuildInv(r)'
    BY <1>1, <2>1, NewDraftFields DEF BuildInv, UnchangedSince
  <2> QED BY <1>3, <2>1, <2>2 DEF RequestInv, ValidateInv, CaptureInv
<1>8. ASSUME NEW p \in Path, p \notin Source \/ p \in todo[r],
             stage[r] \in {"configuring", "reading"},
             stage'[r] \in {"reading", "profiling"},
             draft'[r] = Reads(draft[r], p), observed'[r] = observed[r],
             stage[r] = "configuring" => p = Config /\ stage'[r] = "reading"
                                           /\ todo'[r] = Source,
             stage[r] = "reading" /\ stage'[r] = "reading" => todo'[r] = todo[r] \ {p},
             stage'[r] = "profiling" => stage[r] = "reading" /\ todo[r] = {}
      PROVE  RequestInv(r)'
  <2>1. BuildInv(r)
    BY <1>1 DEF RequestInv
  <2>2. /\ draft'[r].read[p] = draft[r].read[p] \cup {content[p]}
        /\ \A q \in Path \ {p} : draft'[r].read[q] = draft[r].read[q]
        /\ draft'[r].entries = draft[r].entries
    <3>1. /\ Reads(draft[r], p).read[p] = draft[r].read[p] \cup {content[p]}
          /\ \A q \in Path \ {p} : Reads(draft[r], p).read[q] = draft[r].read[q]
          /\ Reads(draft[r], p).entries = draft[r].entries
      BY <1>1, ReadFields
    <3> QED BY <1>8, <3>1
  <2>3. \A q \in Path : UnchangedSince(draft'[r], q, observed[r], mtime[q], content[q])
    <3> TAKE q \in Path
    <3>1. UnchangedSince(draft[r], q, observed[r], mtime[q], content[q])
      BY <1>8, <2>1 DEF BuildInv, Building
    <3>2. CASE q = p
      <4>1. draft'[r].read[p] = draft[r].read[p] \cup {content[p]}
        BY <2>2
      <4> QED BY <3>1, <3>2, <4>1 DEF UnchangedSince
    <3>3. CASE q # p
      <4>1. draft'[r].read[q] = draft[r].read[q]
        BY <2>2, <3>3
      <4> QED BY <3>1, <4>1 DEF UnchangedSince
    <3> QED BY <3>2, <3>3
  <2>4. BuildInv(r)'
    BY <1>1, <1>8, <2>1, <2>2, <2>3, Domains DEF BuildInv, Building
  <2> QED BY <1>3, <1>8, <2>4 DEF RequestInv, ValidateInv, CaptureInv
<1>9. CASE ReadConfig(r)
  BY <1>8, <1>9, AnalysisConstants, Domains DEF ReadConfig
<1>10. ASSUME NEW p \in Path, ReadSource(r, p)
       PROVE  RequestInv(r)'
  BY <1>8, <1>10 DEF ReadSource
<1>11. CASE ReadRules(r)
  BY <1>8, <1>11, AnalysisConstants, Domains DEF ReadRules
<1>12. CASE Discover(r)
  <2>1. /\ stage[r] = "profiling" /\ stage'[r] = "capturing" /\ todo'[r] = Path
        /\ observed'[r] = observed[r]
        /\ draft'[r] = [draft[r] EXCEPT !.hasConfig = content[Config] # Gone]
    BY <1>12 DEF Discover
  <2>2. draft'[r].read = draft[r].read /\ draft'[r].entries = draft[r].entries
    BY <1>1, <2>1 DEF Snapshot
  <2>3. BuildInv(r)
    BY <1>1 DEF RequestInv
  <2>4. BuildInv(r)'
    BY <1>1, <2>1, <2>2, <2>3 DEF BuildInv, Building, UnchangedSince
  <2>5. CaptureInv(r)'
    BY <2>1, <2>2, <2>3 DEF BuildInv, Building, CaptureInv, Absent
  <2> QED BY <1>3, <2>1, <2>4, <2>5 DEF RequestInv, ValidateInv
<1>13. ASSUME NEW p \in Path, CaptureStat(r, p)
       PROVE  RequestInv(r)'
  <2>1. /\ stage[r] = "capturing" /\ stage'[r] = "capturing"
        /\ p \in todo[r] /\ todo[r] \subseteq Path /\ todo'[r] = todo[r] \ {p}
        /\ draft'[r] = Stat(draft[r], p, observed[r]) /\ observed'[r] = observed[r]
    BY <1>13 DEF CaptureStat
  <2>2. BuildInv(r) /\ CaptureInv(r)
    BY <1>1 DEF RequestInv
  <2>3. draft'[r].read = draft[r].read
    BY <1>1, <2>1, StatFields
  <2>4. BuildInv(r)'
    BY <1>1, <2>1, <2>2, <2>3 DEF BuildInv, Building, UnchangedSince
  <2>5. \A q \in Path \ {p} : draft'[r].entries[q] = draft[r].entries[q]
    BY <1>1, <2>1, StatFields
  <2>6. ASSUME draft'[r].reusable, NEW q \in Path \ todo'[r]
        PROVE  SoundEntry(draft'[r], q, observed[r], mtime[q], content[q])
    <3>1. CASE q = p
      <4>1. /\ UnchangedSince(draft[r], p, observed[r], mtime[p], content[p])
            /\ draft[r].read[p] # {} /\ draft[r].entries[p] = Gone
        BY <2>1, <2>2 DEF BuildInv, Building, CaptureInv, Path
      <4> QED BY <1>1, <2>1, <2>6, <3>1, <4>1, CaptureSound
    <3>2. CASE q # p
      <4>1. draft[r].reusable
        BY <1>1, <2>1, <2>6, StatFields
      <4>2. SoundEntry(draft[r], q, observed[r], mtime[q], content[q])
        BY <2>1, <2>2, <2>6, <3>2, <4>1 DEF CaptureInv
      <4> QED BY <2>3, <2>5, <3>2, <4>2 DEF SoundEntry
    <3> QED BY <3>1, <3>2
  <2>7. CaptureInv(r)'
    BY <1>1, <2>1, <2>2, <2>5, <2>6 DEF CaptureInv
  <2> QED BY <1>3, <2>1, <2>4, <2>7 DEF RequestInv, ValidateInv
<1>14. CASE Built(r)
  <2>1. /\ stage[r] = "capturing" /\ todo[r] = {} /\ stage'[r] = "built"
        /\ draft'[r] = draft[r]
    BY <1>14 DEF Built
  <2>2. Sound(draft[r])
    <3> SUFFICES ASSUME draft[r].reusable, NEW p \in Path
                 PROVE  SoundEntry(draft[r], p, clock, mtime[p], content[p])
      BY DEF Sound
    <3>1. SoundEntry(draft[r], p, observed[r], mtime[p], content[p])
      BY <1>1, <2>1 DEF RequestInv, CaptureInv
    <3>2. observed[r] =< clock
      BY <1>1, <2>1 DEF RequestInv, BuildInv, Building
    <3> QED BY <1>1, <3>1, <3>2, SoundLater
  <2>3. SnapshotInv(r)'
    BY <1>1, <2>1, <2>2 DEF RequestInv, SnapshotInv, Sound
  <2> QED BY <2>1, <2>3 DEF RequestInv, ValidateInv, BuildInv, CaptureInv, Building
<1>15. CASE WorkerFails(r)
  <2>1. stage'[r] = "failed"
    BY <1>15 DEF WorkerFails
  <2> QED BY <1>3, <2>1 DEF RequestInv, ValidateInv, BuildInv, CaptureInv, Building
<1> QED BY <1>4, <1>5, <1>6, <1>7, <1>9, <1>10, <1>11, <1>12, <1>13, <1>14, <1>15 DEF Work

LEMMA ReuseRequest ==
  ASSUME TypeOK, PermitInv, ReuseInv, NEW r \in Request,
         Begin(r) \/ Serve(r) \/ Expire(r) \/ WorkerPanics(r) \/ ResultDropped(r)
  PROVE  ReuseInv'
<1>1. RequestInv(r) /\ (active # None => Sound(active))
  BY DEF ReuseInv
<1>2. UNCHANGED fileVars /\ \A s \in Request \ {r} : Stays(s)
  <2> SUFFICES UNCHANGED fileVars /\ \A s \in Request : s # r => Stays(s)
    OBVIOUS
  <2> USE DEF TypeOK, RequestTypeOK, WorkerTypeOK, Stays, Returns, workerVars
  <2>1. CASE Begin(r) \/ Admit(r) \/ QueueExpires(r) \/ AwaitExpires(r)
    BY <2>1 DEF Begin, Admit, QueueExpires, AwaitExpires
  <2>2. CASE Spawn(r)
    BY <2>2 DEF Spawn
  <2>3. CASE AcceptReused(r)
    BY <2>3 DEF AcceptReused, WorkerEnds, Discards
  <2>4. CASE AcceptFailed(r)
    BY <2>4 DEF AcceptFailed, WorkerEnds, Discards
  <2>5. CASE AcceptBuilt(r)
    BY <2>5 DEF AcceptBuilt, WorkerEnds
  <2>6. CASE Install(r) \/ InstallExpires(r)
    BY <2>6 DEF Install, InstallExpires, Discards
  <2>7. CASE WorkerPanics(r)
    BY <2>7 DEF WorkerPanics, WorkerEnds, Discards, requestVars
  <2>8. CASE ResultDropped(r)
    BY <2>8 DEF ResultDropped, WorkerEnds, Discards, requestVars
  <2> QED BY <2>1, <2>2, <2>3, <2>4, <2>5, <2>6, <2>7, <2>8 DEF Serve, Expire
<1>3. UNCHANGED <<clock, mtime, content>>
  BY <1>2 DEF fileVars
<1> USE DEF TypeOK, RequestTypeOK, WorkerTypeOK, Releases, Returns, serverVars, workerVars
<1>4. ASSUME active' = active, RequestInv(r)'
      PROVE  ReuseInv'
  <2>1. (active # None => Sound(active))'
    BY <1>1, <1>3, <1>4 DEF Sound
  <2> QED BY <1>2, <1>4, <2>1, RequestsOnly
<1>5. ASSUME UNCHANGED <<active, stage, candidate, todo, observed, draft, held>>,
             pc'[r] # "installing"
      PROVE  ReuseInv'
  <2>1. RequestInv(r)'
    BY <1>1, <1>3, <1>5
    DEF RequestInv, SnapshotInv, ValidateInv, BuildInv, CaptureInv, Sound
  <2> QED BY <1>4, <1>5, <2>1
<1>6. ASSUME active' = active, stage'[r] = "none", candidate'[r] = None,
             pc'[r] # "installing"
      PROVE  ReuseInv'
  BY <1>4, <1>6, RestingRequest
<1>7. CASE Begin(r) \/ Admit(r) \/ QueueExpires(r) \/ AwaitExpires(r)
  BY <1>5, <1>7 DEF Begin, Admit, QueueExpires, AwaitExpires
<1>8. CASE Spawn(r)
  <2>1. /\ candidate'[r] = active /\ stage'[r] = "starting" /\ active' = active
        /\ pc'[r] = "awaiting"
    BY <1>8 DEF Spawn
  <2>2. (candidate[r] # None => Sound(candidate[r]))'
    BY <1>1, <1>3, <2>1 DEF Sound
  <2> QED BY <1>4, <2>1, <2>2, RestingRequest
<1>9. CASE AcceptReused(r) \/ AcceptFailed(r)
  BY <1>6, <1>9 DEF AcceptReused, AcceptFailed, WorkerEnds, Discards
<1>10. CASE AcceptBuilt(r)
  <2>1. /\ stage[r] = "built" /\ stage'[r] = "none" /\ active' = active
        /\ candidate'[r] = candidate[r] /\ draft'[r] = draft[r]
    BY <1>10 DEF AcceptBuilt, WorkerEnds
  <2>2. /\ (candidate[r] # None => Sound(candidate[r]))'
        /\ Sound(draft[r])'
    BY <1>1, <1>3, <2>1 DEF RequestInv, SnapshotInv, Sound
  <2> QED BY <1>4, <2>1, <2>2, RestingRequest
<1>11. CASE Install(r)
  <2>1. /\ pc[r] = "installing" /\ stage'[r] = "none" /\ candidate'[r] = None
        /\ pc'[r] = "returned"
        /\ active' = [draft[r] EXCEPT !.generation = generation + 1]
    BY <1>11 DEF Install, Discards, PermitInv
  <2>2. draft[r] \in Snapshot /\ Sound(draft[r])
    BY <1>1, <2>1 DEF RequestInv, SnapshotInv
  <2>3. /\ active'.reusable = draft[r].reusable
        /\ active'.entries = draft[r].entries
        /\ active'.read = draft[r].read
    BY <2>1, <2>2 DEF Snapshot
  <2>4. Sound(active)'
    BY <1>3, <2>2, <2>3 DEF Sound, SoundEntry
  <2>5. RequestInv(r)'
    BY <2>1, RestingRequest
  <2> QED BY <1>2, <2>4, <2>5, RequestsOnly
<1>12. CASE InstallExpires(r)
  BY <1>6, <1>12 DEF InstallExpires, Discards, PermitInv
<1>13. CASE WorkerPanics(r) \/ ResultDropped(r)
  <2>1. /\ active' = active /\ stage'[r] = "none" /\ candidate'[r] = None
        /\ stage[r] # "none" /\ pc'[r] = pc[r]
    BY <1>13 DEF WorkerPanics, ResultDropped, WorkerEnds, Discards, requestVars, Working
  <2> QED BY <1>6, <2>1 DEF PermitInv
<1> QED BY <1>7, <1>8, <1>9, <1>10, <1>11, <1>12, <1>13 DEF Serve, Expire

(* When the configuration is never deleted and the settle window covers the *)
(* granularity of the file system, a reused snapshot is exactly what its    *)
(* files held when they were checked: for any edits at any point of any     *)
(* parse, and any number of requests.                                       *)
THEOREM ExactReuse ==
  ASSUME SettledFiles
  PROVE  Spec => []ReuseExact
<1>1. Init => ReuseInv
  BY DEF Init, ReuseInv, RequestInv, SnapshotInv, ValidateInv, BuildInv, CaptureInv, Building
<1>2. TypeOK /\ PermitInv /\ ReuseInv /\ [Next]_vars => ReuseInv'
  BY SettledFiles, ReuseFile, ReuseWorker, ReuseRequest DEF Next
<1>3. ReuseInv => ReuseExact
  BY DEF ReuseInv, RequestInv, ValidateInv, ReuseExact
<1> QED BY <1>1, <1>2, <1>3, Permitted, PTL DEF Spec
===============================================================================
