---------------------------- MODULE BuildProvenance ----------------------------
(***************************************************************************)
(* BuildProvenance: what the server knows of where a DMB comes from.       *)
(* dm_compile hashes its inputs before it spawns the compiler and again    *)
(* after, and writes three records: the build, the location of the         *)
(* artifact, the attempt.  rift_compile only writes attempts.  A launch    *)
(* reads the three in one transaction and compares them with the disk.     *)
(*                                                                         *)
(* Calls run concurrently; nothing serializes two builds of one artifact.  *)
(* Files are edited, and the DMB is rebuilt by others, at any time; a      *)
(* changed input never returns to an earlier content, which pre and post   *)
(* comparison are not meant to detect.  A server that ends takes its calls *)
(* with it, and the next one may see another repository identity.  The RSC *)
(* is recorded and compared with the DMB and not told apart from it.       *)
(***************************************************************************)
EXTENDS Integers

CONSTANTS
  Builds,      \* calls of dm_compile and rift_compile
  BuildKinds,  \* subset of {"dm", "rift"}
  Launches,    \* calls of the launch tools
  Identities,        \* repository identities, which determine the artifact key
  MaxEvents,   \* edits, builds by others and restarts
  NoRecord

Attempt == [outcome : {"succeeded", "unverified", "failed"}, at : Nat]

ASSUME ProvenanceConstants ==
  /\ BuildKinds \subseteq {"dm", "rift"} /\ MaxEvents \in Nat /\ NoRecord \notin Attempt

VARIABLES
  provDisk,      \* version of each input; an absent configuration is 0
  provDmb,       \* what the DMB on disk was built from
  provBuilds,    \* builds/<key>
  provLocation,  \* locations/<path>: a key
  provAttempts,  \* attempts/<key>
  provKey,       \* identity this server has found
  provClock,     \* milliseconds
  provEvents,
  provJobs,      \* provJobs[b]: a build call
  provLaunch,    \* provLaunch[l]: a launch call
  provFailed     \* history, by key: whether an unsuccessful attempt was written since
                 \* the build record, and whether it was lost to the attempt of a
                 \* build that overlapped another

provRecords == <<provBuilds, provLocation, provAttempts, provFailed>>
provWorld == <<provDisk, provDmb, provKey, provEvents>>
provVars == <<provWorld, provRecords, provClock, provJobs, provLaunch>>

NoJob == [step |-> "idle", kind |-> "dm", exact |-> FALSE, inputs |-> NoRecord,
          changed |-> FALSE, alone |-> TRUE, ok |-> FALSE,
          outcome |-> "none", at |-> 0, dmb |-> NoRecord]
NoLaunch == [step |-> "idle", status |-> "none", record |-> NoRecord, attempt |-> NoRecord,
             foreign |-> FALSE, inputs |-> NoRecord, failed |-> NoRecord]

Built(inputs, exact) == [inputs |-> inputs, exact |-> exact]
FirstInputs == [source |-> 1, config |-> 0, compiler |-> 1]

Fresh(dmb, location, builds) ==
  /\ provDisk = FirstInputs /\ provClock = 1 /\ provKey \in Identities
  /\ provDmb = dmb /\ provLocation = location /\ provBuilds = builds
  /\ provAttempts = [k \in Identities |-> NoRecord]
  /\ provFailed = [k \in Identities |-> [since |-> FALSE, raced |-> FALSE]]
  /\ provJobs = [b \in Builds |-> NoJob] /\ provLaunch = [l \in Launches |-> NoLaunch]

ProvInit ==
  /\ Fresh(NoRecord, NoRecord, [k \in Identities |-> NoRecord])
  /\ provEvents = 0

(* The state directory holds the record of an older server; no events.     *)
LegacyInit ==
  LET dmb == Built(FirstInputs, TRUE)
      record == [legacy |-> TRUE, inputs |-> FirstInputs, dmb |-> dmb, at |-> 0, alone |-> TRUE]
  IN /\ Fresh(dmb, provKey, [k \in Identities |-> IF k = provKey THEN record ELSE NoRecord])
     /\ provEvents = MaxEvents

Active(b) == provJobs[b].step \notin {"idle", "done"}
Done(b) == provJobs' = [provJobs EXCEPT ![b] = [NoJob EXCEPT !.step = "done"]]

-----------------------------------------------------------------------------
(* the compiler: compile, PreparedBuild::capture *)

PreparedJob(b, kind, exact) ==
  [NoJob EXCEPT !.step = "compile", !.kind = kind, !.exact = exact, !.inputs = provDisk,
                !.alone = \A d \in Builds \ {b} : ~Active(d)]

(* artifact_before and the inputs; rift_compile never proves them complete. *)
Prepare(b) ==
  /\ provJobs[b].step = "idle"
  /\ \E kind \in BuildKinds : \E exact \in {FALSE, kind = "dm"} :
       provJobs' = [c \in Builds |->
         IF c = b THEN PreparedJob(b, kind, exact)
         ELSE IF Active(c) THEN [provJobs[c] EXCEPT !.alone = FALSE]
         ELSE provJobs[c]]
  /\ UNCHANGED <<provWorld, provRecords, provClock, provLaunch>>

(* Every build between its two snapshots of the artifact sees the change. *)
Writes(dmb, jobs) ==
  /\ provDmb' = dmb
  /\ provJobs' = [c \in Builds |->
       IF jobs[c].step \in {"compile", "wrote", "observe"}
       THEN [jobs[c] EXCEPT !.changed = TRUE] ELSE jobs[c]]

CompilerWrites(b) ==
  /\ provJobs[b].step = "compile"
  /\ Writes(Built(provDisk, provJobs[b].exact),
            [provJobs EXCEPT ![b].step = "wrote"])
  /\ UNCHANGED <<provDisk, provKey, provEvents, provRecords, provClock, provLaunch>>

(* The compiler succeeds once it wrote; the build script may have nothing to *)
(* do; either may fail, or be killed, at any point.                          *)
CompilerEnds(b) ==
  /\ provJobs[b].step \in {"compile", "wrote"}
  /\ \E ok \in {FALSE, provJobs[b].step = "wrote" \/ provJobs[b].kind = "rift"} :
       provJobs' = [provJobs EXCEPT ![b].step = "observe", ![b].ok = ok]
  /\ UNCHANGED <<provWorld, provRecords, provClock, provLaunch>>

-----------------------------------------------------------------------------
(* record_compile_provenance and record_rift_provenance *)

(* What rift_compile can find: the exit, the result line of the wrapper and *)
(* the cache marker of its output.                                          *)
Wrappers == [result : {"none", "invalid", "reused", "rebuilt"}, marker : BOOLEAN, force : BOOLEAN]

(* classify_result and validate_rift_result *)
Evidence(job, w) ==
  IF ~job.ok \/ provDmb = NoRecord THEN "failed"
  ELSE IF w.result = "invalid" THEN "insufficient"
  ELSE IF w.result = "rebuilt" THEN IF job.changed THEN "fresh" ELSE "insufficient"
  ELSE IF w.result = "reused" THEN IF ~w.force /\ ~job.changed THEN "cached" ELSE "insufficient"
  ELSE IF job.changed THEN "fresh"
  ELSE IF w.marker /\ ~w.force THEN "cached" ELSE "insufficient"

Attempts(b, outcome, stamp) ==
  provJobs' = [provJobs EXCEPT ![b] = [NoJob EXCEPT
    !.step = "attempt", !.outcome = outcome, !.at = stamp, !.alone = provJobs[b].alone]]

(* slip: the inputs are not hashed again. *)
ProvedBefore(job) == job.exact
(* finish_reason: none *)
Proved(job) == job.exact /\ provDisk = job.inputs

Observe(b) ==
  LET job == provJobs[b] IN
  /\ job.step = "observe"
  /\ \E stamp \in {provClock, provClock + 1} :
       /\ provClock' = stamp
       /\ IF job.kind = "dm"
          THEN IF job.ok /\ job.changed /\ Proved(job)
               THEN provJobs' = [provJobs EXCEPT ![b] = [NoJob EXCEPT
                      !.step = "capture", !.at = stamp, !.inputs = job.inputs,
                      !.alone = job.alone]]
               ELSE IF provDmb = NoRecord THEN Done(b)
               ELSE Attempts(b, IF job.ok THEN "unverified" ELSE "failed", stamp)
          ELSE \E w \in Wrappers :
               IF Evidence(job, w) \in {"fresh", "cached"} THEN Attempts(b, "unverified", stamp)
               ELSE IF provDmb = NoRecord THEN Done(b)
               ELSE Attempts(b, "failed", stamp)
  /\ UNCHANGED <<provWorld, provRecords, provLaunch>>

(* FileIdentity::capture of the DMB, after the inputs were hashed again *)
CaptureOutput(b) ==
  /\ provJobs[b].step = "capture" /\ provDmb # NoRecord
  /\ provJobs' = [provJobs EXCEPT ![b].step = "build", ![b].dmb = provDmb]
  /\ UNCHANGED <<provWorld, provRecords, provClock, provLaunch>>

(* record_success: the build, then its location *)
RecordBuild(b) ==
  /\ provJobs[b].step = "build"
  /\ provBuilds' = [provBuilds EXCEPT ![provKey] =
       [legacy |-> FALSE, inputs |-> provJobs[b].inputs, dmb |-> provJobs[b].dmb,
        at |-> provJobs[b].at, alone |-> provJobs[b].alone]]
  /\ provFailed' = [provFailed EXCEPT ![provKey] = [since |-> FALSE, raced |-> FALSE]]
  /\ provJobs' = [provJobs EXCEPT ![b].step = "location", ![b].inputs = NoRecord,
                                  ![b].dmb = NoRecord]
  /\ UNCHANGED <<provWorld, provLocation, provAttempts, provClock, provLaunch>>

RecordLocation(b) ==
  /\ provJobs[b].step = "location" /\ provLocation' = provKey
  /\ Attempts(b, "succeeded", provJobs[b].at)
  /\ UNCHANGED <<provWorld, provBuilds, provAttempts, provFailed, provClock, provLaunch>>

RecordAttempt(b) ==
  LET job == provJobs[b] IN
  /\ job.step = "attempt"
  /\ provAttempts' = [provAttempts EXCEPT ![provKey] = [outcome |-> job.outcome, at |-> job.at]]
  /\ provFailed' = IF job.outcome = "succeeded"
       THEN [provFailed EXCEPT ![provKey].raced = ~job.alone]
       ELSE [provFailed EXCEPT ![provKey].since = TRUE]
  /\ Done(b)
  /\ UNCHANGED <<provWorld, provBuilds, provLocation, provClock, provLaunch>>

(* A write fails, the generation moved on, the artifact has gone: the call *)
(* returns an error.                                                       *)
BuildFails(b) ==
  /\ provJobs[b].step \in {"observe", "capture", "build", "location", "attempt"}
  /\ Done(b)
  /\ UNCHANGED <<provWorld, provRecords, provClock, provLaunch>>

-----------------------------------------------------------------------------
(* require_launchable_artifact and evaluate_launch *)

Decide(l, status) ==
  provLaunch' = [provLaunch EXCEPT ![l] = [NoLaunch EXCEPT !.step = "decided", !.status = status]]

(* the read transaction *)
ReadRecords(l) ==
  /\ provLaunch[l].step = "idle" /\ provDmb # NoRecord
  /\ IF provLocation = NoRecord THEN Decide(l, "unverified")
     ELSE IF provBuilds[provLocation] = NoRecord THEN Decide(l, "error")
     ELSE provLaunch' = [provLaunch EXCEPT ![l] = [NoLaunch EXCEPT
       !.step = "compare", !.record = provBuilds[provLocation],
       !.attempt = provAttempts[provLocation], !.foreign = provLocation # provKey,
       !.failed = provFailed[provLocation]]]
  /\ UNCHANGED <<provWorld, provRecords, provClock, provJobs>>

(* Sources and configuration; the compiler is not compared any more. *)
SameInputs(a, b) == a.source = b.source /\ a.config = b.config

Overtaken(record, attempt) ==
  attempt # NoRecord /\ attempt.at >= record.at /\ attempt.outcome # "succeeded"

Compare(l) ==
  LET launch == provLaunch[l]
      stale == \/ launch.foreign \/ ~SameInputs(launch.record.inputs, provDisk)
               \/ provDmb # launch.record.dmb
               \/ Overtaken(launch.record, launch.attempt)
  IN
  /\ launch.step = "compare"
  /\ IF stale THEN Decide(l, "stale")
     ELSE IF launch.record.legacy THEN Decide(l, "unverified")
     ELSE provLaunch' = [provLaunch EXCEPT ![l] = [NoLaunch EXCEPT
            !.step = "decided", !.status = "verified", !.inputs = provDisk,
            !.record = launch.record, !.failed = launch.failed]]
  /\ UNCHANGED <<provWorld, provRecords, provClock, provJobs>>

LaunchReturns(l) ==
  /\ provLaunch[l].step = "decided"
  /\ provLaunch' = [provLaunch EXCEPT ![l] = NoLaunch]
  /\ UNCHANGED <<provWorld, provRecords, provClock, provJobs>>

-----------------------------------------------------------------------------
(* the environment *)

Happens == provEvents < MaxEvents /\ provEvents' = provEvents + 1

InputEdited(x) ==
  /\ Happens /\ provDisk' = [provDisk EXCEPT ![x] = @ + 1]
  /\ UNCHANGED <<provDmb, provKey, provRecords, provClock, provJobs, provLaunch>>

(* Another build replaces the DMB; the compiler of a lost server may, too. *)
OutsideBuild ==
  /\ Happens
  /\ Writes(Built(provDisk, FALSE), [b \in Builds |-> [provJobs[b] EXCEPT
       !.alone = @ /\ provJobs[b].step \notin {"wrote", "observe", "capture"}]])
  /\ UNCHANGED <<provDisk, provKey, provRecords, provClock, provLaunch>>

Restart ==
  /\ Happens /\ provKey' \in Identities
  /\ provJobs' = [b \in Builds |-> IF Active(b) THEN [NoJob EXCEPT !.step = "done"] ELSE provJobs[b]]
  /\ provLaunch' = [l \in Launches |-> NoLaunch]
  /\ UNCHANGED <<provDisk, provDmb, provRecords, provClock>>

BuildSteps(b) ==
  \/ Prepare(b) \/ CompilerWrites(b) \/ CompilerEnds(b)
  \/ Observe(b) \/ CaptureOutput(b) \/ RecordBuild(b) \/ RecordLocation(b)
  \/ RecordAttempt(b) \/ BuildFails(b)

LaunchSteps(l) ==
  ReadRecords(l) \/ Compare(l) \/ LaunchReturns(l)

ProvNext ==
  \/ \E b \in Builds : BuildSteps(b)
  \/ \E l \in Launches : LaunchSteps(l)
  \/ \E x \in DOMAIN provDisk : InputEdited(x)
  \/ OutsideBuild \/ Restart

ProvSpec == (ProvInit \/ LegacyInit) /\ [][ProvNext]_provVars

-----------------------------------------------------------------------------
(* Properties *)

Verified(l) == provLaunch[l].step = "decided" /\ provLaunch[l].status = "verified"

(* A launch that is verified has compared a DMB that was compiled from the *)
(* inputs the launch saw, without defines, and after which no compile      *)
(* failed or stayed unverified; whatever was edited, written by others,    *)
(* lost by a restart or left half recorded.  The build alone may not have  *)
(* overlapped another write of the artifact (evaluate_launch).             *)
VerifiedMeansBuilt ==
  \A l \in Launches : Verified(l) =>
    LET launch == provLaunch[l] IN
    /\ SameInputs(launch.record.inputs, launch.inputs)
    /\ launch.record.alone =>
         /\ launch.record.dmb = Built(launch.record.inputs, TRUE)
         /\ launch.failed.since => launch.failed.raced

(* Schema-2 verified direct builds "bind" the compiler, the arguments and  *)
(* the sources to the DMB (docs/provenance.md:21): a launch is not verified *)
(* with a DMB that was compiled from anything else.                        *)
VerifiedBindsInputs ==
  \A l \in Launches : Verified(l) =>
    provLaunch[l].record.dmb = Built(provLaunch[l].record.inputs, TRUE)
=============================================================================
