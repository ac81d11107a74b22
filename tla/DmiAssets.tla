------------------------------ MODULE DmiAssets ------------------------------
(***************************************************************************)
(* DmiAssets: the icon files behind dm_dmi_info, dm_compare_dmi_states,    *)
(* dm_extract_dmi, dm_find_dmi_duplicates and dm_audit_icons.  A call      *)
(* loads one file after the other, each in a blocking job that holds one   *)
(* of few permits; the jobs share a cache of decoded files, whose lock is  *)
(* held while a file is decoded, and a scan has allowances for all it      *)
(* holds.  The files change meanwhile, and a call may be cancelled while   *)
(* its job runs on.                                                        *)
(*                                                                         *)
(* A content is known by what it demands; states are counted and limited   *)
(* like frames and stand under their name.                                 *)
(***************************************************************************)
EXTENDS Integers, FiniteSets, FiniteSetsExt, Functions

CONSTANTS
  IconCall,     \* calls of the tools
  DmiFile,      \* the paths of icon files, numbered in their order
  DmiContent,   \* the contents a file may have
  Unsound,      \* those of them that do not decode
  Demand,       \* Demand[d][r]: what a content takes of a resource
  Ceiling,      \* Ceiling[r]: the limit for one file
  Allowance,    \* Allowance[r]: the limit for the files of one scan
  JobLimits,    \* the values of max_blocking_jobs
  MaxFiles,     \* max_dmi_files, and the bytes of input that end a discovery
  CacheEntries, CacheBytes,
  MaxDmiEdits,  \* bound: changes of files
  NoFile        \* an absent file, an empty slot

Resource == {"file", "pixels", "metadata", "frames", "workspace"}

Budgeted == {"pixels", "metadata", "frames"}

Asset == [content : DmiContent, generation : Nat]

ASSUME DmiConstants ==
  /\ DmiFile \subseteq Nat /\ IsFiniteSet(DmiFile) /\ IsFiniteSet(IconCall)
  /\ Unsound \subseteq DmiContent
  /\ Demand \in [DmiContent -> [Resource -> Nat]]
  /\ Ceiling \in [Resource -> Nat] /\ Allowance \in [Budgeted -> Nat]
  /\ JobLimits \subseteq Nat \ {0} /\ MaxFiles \in Nat /\ MaxDmiEdits \in Nat
  /\ CacheEntries \in Nat /\ CacheBytes \in Nat
  /\ NoFile \notin DmiContent /\ NoFile \notin DmiFile /\ NoFile \notin Asset

VARIABLES
  dmiPermits,         \* max_blocking_jobs of this server
  dmiDisk, dmiEdits,  \* dmiDisk[f]: its content
  dmiCache,
  dmiCall,            \* dmiCall[c]: how far a call is and what it holds
  dmiJob              \* dmiJob[c]: the job it spawned last

dmiVars == <<dmiPermits, dmiDisk, dmiEdits, dmiCache, dmiCall, dmiJob>>

-----------------------------------------------------------------------------
(* Limits *)

Scanning(c) == dmiCall[c].kind = "scan"

Remaining(c, r) == Max({0, Allowance[r] - dmiCall[c].used[r]})

(* the limits a load is given                                               *)
Allowed(c, r) ==
  IF Scanning(c) /\ r \in Budgeted THEN Min({Ceiling[r], Remaining(c, r)}) ELSE Ceiling[r]

Within(c, d, r) == Demand[d][r] <= Allowed(c, r)

(* dimensions: the pixels, before anything is allocated for them            *)
DimensionsFit(c, d) == Within(c, d, "pixels")

DescriptionFits(c, d) == Within(c, d, "metadata")
CountsFit(c, d) == Within(c, d, "frames")
StreamFits(c, d) == Within(c, d, "workspace")

(* description, before it is inflated; preflight_metadata, before it is     *)
(* parsed; bounded_image_stream, before the pixels are decoded              *)
Decodes(c, d) ==
  /\ DimensionsFit(c, d)
  /\ DescriptionFits(c, d) /\ CountsFit(c, d) /\ StreamFits(c, d)
  /\ d \notin Unsound

(* slip: what is cached is taken to fit                                     *)
StillFitsAnyway(c, d) == TRUE

(* validate_metadata of an asset that is cached                             *)
StillFits(c, d) == DimensionsFit(c, d) /\ CountsFit(c, d) /\ DescriptionFits(c, d)

-----------------------------------------------------------------------------
(* The cache: its entries, which of two was used before the other, their    *)
(* bytes and the last generation *)

Cached(k) == {f \in DmiFile : k.entries[f] # NoFile}

Pixels(k) == [f \in Cached(k) |-> Demand[k.entries[f].content]["pixels"]]

BytesOf(k, files) == SumFunctionOnSet(Pixels(k), files)

Hit(f, d) == dmiCache.entries[f] # NoFile /\ dmiCache.entries[f].content = d

(* f is used after all the others                                           *)
UsedLast(order, f, files) ==
  {p \in order : f \notin {p[1], p[2]}} \cup ((files \ {f}) \X {f})

Touched(k, f) == [k EXCEPT !.order = UsedLast(@, f, Cached(k))]

Without(k, files) ==
  [k EXCEPT !.entries = [f \in DmiFile |-> IF f \in files THEN NoFile ELSE @[f]],
            !.order = {p \in @ : {p[1], p[2]} \cap files = {}},
            !.bytes = Max({0, @ - BytesOf(k, files)})]

(* no more of the oldest go than the limits ask                             *)
Evicted(k) ==
  LET oldest == {v \in SUBSET Cached(k) : \A p \in k.order : p[2] \in v => p[1] \in v}
      fits(v) == LET rest == Without(k, v) IN
                 Cardinality(Cached(rest)) <= CacheEntries /\ rest.bytes <= CacheBytes
      enough == {v \in oldest : fits(v) \/ v = Cached(k)}
  IN Without(k, CHOOSE v \in enough : \A w \in enough : w \subseteq v => w = v)

(* a new generation of f replaces the one it had                            *)
Installed(k, f, d) ==
  LET old == Without(k, {f} \cap Cached(k)) IN
  Evicted([entries |-> [old.entries EXCEPT ![f] = [content |-> d, generation |-> k.generation + 1]],
           order |-> UsedLast(old.order, f, Cached(old)),
           bytes |-> old.bytes + Demand[d]["pixels"],
           generation |-> k.generation + 1])

-----------------------------------------------------------------------------
(* Jobs: run_asset_job, read_dmi and DmiCache::load_input *)

Running(c) == dmiJob[c].stage \in {"reading", "read"}

JobIs(c, stage) == dmiJob[c].stage = stage

(* how: with an asset, refused by a limit or the decoder, or by an error    *)
(* that is not of a DMI file                                                *)
Ends(c, how, asset) ==
  dmiJob' = [dmiJob EXCEPT ![c].stage = how, ![c].input = asset]

Admitted(c) ==
  /\ dmiCall[c].step = "queued"
  /\ Cardinality({d \in IconCall : Running(d)}) < dmiPermits
  /\ dmiCall' = [dmiCall EXCEPT ![c].step = "awaiting"]
  /\ dmiJob' = [dmiJob EXCEPT ![c].stage = "reading"]
  /\ UNCHANGED <<dmiDisk, dmiEdits, dmiCache>>

(* the bytes are read and hashed without the lock of the cache              *)
InputRead(c) ==
  LET d == dmiDisk[dmiCall[c].file] IN
  /\ JobIs(c, "reading") /\ d # NoFile
  /\ IF Within(c, d, "file") THEN Ends(c, "read", d) ELSE Ends(c, "refused", NoFile)
  /\ UNCHANGED <<dmiDisk, dmiEdits, dmiCache, dmiCall>>

(* a file that is gone is found by the policy or after it                   *)
InputGone(c) ==
  /\ JobIs(c, "reading") /\ dmiDisk[dmiCall[c].file] = NoFile
  /\ \E how \in {"error", "refused"} : Ends(c, how, NoFile)
  /\ UNCHANGED <<dmiDisk, dmiEdits, dmiCache, dmiCall>>

CacheHit(c) ==
  LET f == dmiCall[c].file  d == dmiJob[c].input IN
  /\ JobIs(c, "read") /\ Hit(f, d)
  /\ \/ /\ StillFits(c, d)
        /\ dmiCache' = Touched(dmiCache, f)
        /\ Ends(c, "loaded", dmiCache.entries[f])
     \/ ~StillFits(c, d) /\ Ends(c, "refused", NoFile) /\ UNCHANGED dmiCache
  /\ UNCHANGED <<dmiDisk, dmiEdits, dmiCall>>

CacheMiss(c) ==
  LET f == dmiCall[c].file  d == dmiJob[c].input IN
  /\ JobIs(c, "read") /\ ~Hit(f, d)
  /\ \/ /\ Decodes(c, d)
        /\ dmiCache' = Installed(dmiCache, f, d)
        /\ Ends(c, "loaded", [content |-> d, generation |-> dmiCache.generation + 1])
     \/ ~Decodes(c, d) /\ Ends(c, "refused", NoFile) /\ UNCHANGED dmiCache
  /\ UNCHANGED <<dmiDisk, dmiEdits, dmiCall>>

-----------------------------------------------------------------------------
(* Calls *)

Present == {f \in DmiFile : dmiDisk[f] # NoFile}

(* discover_dmis_with_policy: what it finds, and whether it left some out   *)
Discovered == {s \in SUBSET Present : Cardinality(s) = Min({MaxFiles, Cardinality(Present)})}

Partial(found) == found # Present

NoCall ==
  [kind |-> "none", step |-> "idle", phase |-> "single", todo |-> {}, file |-> NoFile,
   assets |-> [f \in DmiFile |-> NoFile], used |-> [r \in Budgeted |-> 0],
   partial |-> FALSE, sought |-> {}]

Failed == [NoCall EXCEPT !.step = "failed"]

LoadBegins(c) ==
  /\ dmiCall[c].step = "idle"
  /\ \E files \in SUBSET DmiFile :
       /\ Cardinality(files) \in 1 .. 2
       /\ dmiCall' = [dmiCall EXCEPT ![c] =
            [@ EXCEPT !.kind = "load", !.step = "next", !.todo = files, !.sought = files]]
  /\ UNCHANGED <<dmiDisk, dmiEdits, dmiCache, dmiJob>>

ScanBegins(c) ==
  /\ dmiCall[c].step = "idle"
  /\ \E found \in Discovered :
       dmiCall' = [dmiCall EXCEPT ![c] =
         [@ EXCEPT !.kind = "scan", !.step = "next", !.phase = "duplicates",
                   !.todo = found, !.sought = found, !.partial = Partial(found)]]
  /\ UNCHANGED <<dmiDisk, dmiEdits, dmiCache, dmiJob>>

(* discovered files come in their order, references in that of the code     *)
MayBeNext(c, f) ==
  /\ f \in dmiCall[c].todo
  /\ dmiCall[c].phase = "references" \/ f = Min(dmiCall[c].todo)

(* AssetScan::load begins with the policy; an asset that the scan holds is  *)
(* not loaded again                                                         *)
TakesNext(c, f) ==
  /\ dmiCall[c].step = "next" /\ MayBeNext(c, f)
  /\ \/ /\ Scanning(c) /\ dmiDisk[f] = NoFile
        /\ dmiCall' = [dmiCall EXCEPT ![c] = Failed]
     \/ /\ Scanning(c) /\ dmiDisk[f] # NoFile /\ dmiCall[c].assets[f] # NoFile
        /\ dmiCall' = [dmiCall EXCEPT ![c].todo = @ \ {f}]
     \/ /\ Scanning(c) => dmiDisk[f] # NoFile /\ dmiCall[c].assets[f] = NoFile
        /\ dmiCall' = [dmiCall EXCEPT ![c].todo = @ \ {f}, ![c].file = f, ![c].step = "queued"]
  /\ UNCHANGED <<dmiDisk, dmiEdits, dmiCache, dmiJob>>

Awaited(c, how) ==
  /\ dmiCall[c].step = "awaiting" /\ JobIs(c, how)
  /\ dmiJob' = [dmiJob EXCEPT ![c] = [stage |-> "none", input |-> NoFile]]
  /\ UNCHANGED <<dmiDisk, dmiEdits, dmiCache>>

Charged(c, d) ==
  [r \in Budgeted |-> dmiCall[c].used[r] + IF Scanning(c) THEN Demand[d][r] ELSE 0]

(* the scan accounts for what it will hold                                  *)
AssetAccepted(c) ==
  /\ Awaited(c, "loaded")
  /\ LET a == dmiJob[c].input IN
     dmiCall' = [dmiCall EXCEPT ![c] =
       [@ EXCEPT !.step = "next", !.file = NoFile, !.used = Charged(c, a.content),
                 !.assets = [dmiCall[c].assets EXCEPT ![dmiCall[c].file] = a]]]

(* a scan goes on without the file and says so                              *)
LoadRefused(c) ==
  /\ Awaited(c, "refused")
  /\ dmiCall' = [dmiCall EXCEPT
       ![c] = IF Scanning(c) THEN [@ EXCEPT !.step = "next", !.file = NoFile, !.partial = TRUE]
              ELSE Failed]

LoadErred(c) ==
  /\ Awaited(c, "error")
  /\ dmiCall' = [dmiCall EXCEPT ![c] = Failed]

(* what a call still has when it is over                                    *)
Answered(call) == [NoCall EXCEPT !.kind = call.kind, !.step = "answered", !.assets = call.assets,
                                 !.partial = call.partial, !.sought = call.sought]

PhaseOver(c, phase) ==
  /\ dmiCall[c].step = "next" /\ dmiCall[c].phase = phase /\ dmiCall[c].todo = {}
  /\ UNCHANGED <<dmiDisk, dmiEdits, dmiCache, dmiJob>>

NextPhase(call, phase, files) ==
  [call EXCEPT !.phase = phase, !.todo = files, !.sought = @ \cup files]

(* duplicate_clusters ends; candidates or matches may have been cut.  An    *)
(* audit goes on with the references of the snapshot whose files exist      *)
Compared(c) ==
  /\ PhaseOver(c, "duplicates")
  /\ \E cut \in BOOLEAN :
       LET call == [dmiCall[c] EXCEPT !.partial = @ \/ cut] IN
       \/ dmiCall' = [dmiCall EXCEPT ![c] = Answered(call)]
       \/ \E referenced \in SUBSET Present :
            dmiCall' = [dmiCall EXCEPT ![c] = NextPhase(call, "references", referenced)]

(* include_unused: the files are discovered again                           *)
ReferencesChecked(c) ==
  /\ PhaseOver(c, "references")
  /\ \/ dmiCall' = [dmiCall EXCEPT ![c] = Answered(@)]
     \/ \E found \in Discovered :
          LET call == [dmiCall[c] EXCEPT !.partial = @ \/ Partial(found)] IN
          dmiCall' = [dmiCall EXCEPT ![c] = NextPhase(call, "unused", found)]

UnusedListed(c) ==
  /\ PhaseOver(c, "unused")
  /\ dmiCall' = [dmiCall EXCEPT ![c] = Answered(@)]

(* dm_dmi_info, dm_compare_dmi_states and dm_extract_dmi have what they use *)
Loaded(c) ==
  /\ PhaseOver(c, "single")
  /\ dmiCall' = [dmiCall EXCEPT ![c] = Answered(@)]

(* the caller is gone; the job keeps its permit until it ends               *)
CallDropped(c) ==
  /\ dmiCall[c].step \in {"queued", "awaiting"}
  /\ dmiCall' = [dmiCall EXCEPT ![c] =
       [NoCall EXCEPT !.step = "dropped", !.kind = dmiCall[c].kind,
                      !.file = dmiCall[c].file, !.used = dmiCall[c].used]]
  /\ UNCHANGED <<dmiDisk, dmiEdits, dmiCache, dmiJob>>

FileChanges(f, d) ==
  /\ dmiEdits < MaxDmiEdits /\ dmiDisk[f] # d
  /\ dmiEdits' = dmiEdits + 1
  /\ dmiDisk' = [dmiDisk EXCEPT ![f] = d]
  /\ UNCHANGED <<dmiCache, dmiCall, dmiJob>>

-----------------------------------------------------------------------------
(* Specification *)

DmiInit ==
  /\ dmiPermits \in JobLimits
  /\ dmiDisk \in [DmiFile -> DmiContent]
  /\ dmiEdits = 0
  /\ dmiCache = [entries |-> [f \in DmiFile |-> NoFile], order |-> {},
                 bytes |-> 0, generation |-> 0]
  /\ dmiCall = [c \in IconCall |-> NoCall]
  /\ dmiJob = [c \in IconCall |-> [stage |-> "none", input |-> NoFile]]

JobSteps(c) == InputRead(c) \/ InputGone(c) \/ CacheHit(c) \/ CacheMiss(c)

CallSteps(c) ==
  \/ LoadBegins(c) \/ ScanBegins(c)
  \/ Admitted(c)
  \/ AssetAccepted(c) \/ LoadRefused(c) \/ LoadErred(c)
  \/ Compared(c) \/ ReferencesChecked(c) \/ UnusedListed(c) \/ Loaded(c)
  \/ CallDropped(c)
  \/ \E f \in DmiFile : TakesNext(c, f)

DmiNext ==
  /\ \/ \E c \in IconCall : JobSteps(c) \/ CallSteps(c)
     \/ \E f \in DmiFile, d \in DmiContent \cup {NoFile} : FileChanges(f, d)
  /\ UNCHANGED dmiPermits

DmiSpec == DmiInit /\ [][DmiNext]_dmiVars

-----------------------------------------------------------------------------
(* Properties *)

Held(c) == {f \in DmiFile : dmiCall[c].assets[f] # NoFile}

(* The cache knows what its entries occupy, replaced and evicted ones       *)
(* subtracted, and is within its limits whenever its lock is free.          *)
CacheAccounted ==
  /\ dmiCache.bytes = BytesOf(dmiCache, Cached(dmiCache))
  /\ dmiCache.bytes <= CacheBytes /\ Cardinality(Cached(dmiCache)) <= CacheEntries

(* What a scan holds is within its allowances: a hit in the cache, a        *)
(* content that another call decoded and one evicted meanwhile count alike. *)
AllowancesKept ==
  \A c \in IconCall, r \in Budgeted : Scanning(c) =>
    SumFunction([f \in Held(c) |-> Demand[dmiCall[c].assets[f].content][r]]) <= Allowance[r]

(* No more jobs than permits, those of dropped calls included.              *)
JobsBounded == Cardinality({c \in IconCall : Running(c)}) <= dmiPermits

(* A generation names one content of one file, whoever holds it and         *)
(* whatever the cache has evicted or replaced since.                        *)
GenerationsName ==
  \A c, d \in IconCall : \A f \in Held(c), g \in Held(d) :
    LET a == dmiCall[c].assets[f]  b == dmiCall[d].assets[g] IN
    a.generation = b.generation => f = g /\ a.content = b.content

(* A scan whose answer is not marked partial has looked at every file it    *)
(* sought.                                                                  *)
NothingOmitted ==
  \A c \in IconCall :
    dmiCall[c].step = "answered" /\ ~dmiCall[c].partial =>
      dmiCall[c].sought \subseteq Held(c)

(* All of them, for TLC.                                                    *)
AssetsAccounted ==
  CacheAccounted /\ AllowancesKept /\ JobsBounded /\ GenerationsName /\ NothingOmitted
=============================================================================
