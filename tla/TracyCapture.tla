----------------------------- MODULE TracyCapture -----------------------------
(***************************************************************************)
(* The profiling session of src/tools/tracy.rs: launch, capture and stop   *)
(* over TracyCaptureState (src/state.rs), the integrity journal and the    *)
(* manifests of an experiment directory.                                   *)
(*                                                                         *)
(* Launch and stop run under `lifecycle`, one at a time: they are the      *)
(* steps of the single operation `op`.  Captures do not take `lifecycle`:  *)
(* each call is a process of its own, and every await of a lock or of the  *)
(* collector is a point where the others run.                              *)
(***************************************************************************)
EXTENDS Naturals, FiniteSets

CONSTANTS Calls,        \* dm_tracy_capture requests, each made at most once
          Keys,         \* (phase, phase_iteration) pairs a caller may name
          Dirs,         \* experiment directories
          MaxSessions,  \* bound: launches that reach the journal
          FaultSets,    \* what may fail together in one behaviour
          FaultyCalls   \* bound: requests of a behaviour with faults

Faulty == {"cleanup", "write", "deadline", "lost", "edit", "standard", "crash"}
ASSUME TracyAssumption ==
  MaxSessions \in Nat /\ FaultyCalls \in Nat /\ FaultSets \subseteq SUBSET Faulty

Session == 1 .. MaxSessions
None == 0

VARIABLES
  launches, \* journals created so far; the last one names the session
  slot,     \* TracyCaptureState
  rt,       \* the owned DreamDaemon, as RuntimeState holds it
  coll,     \* the collector process of each session
  disk,     \* the experiment directories
  files,    \* published traces
  edited,   \* a workspace file was changed by someone else
  op,       \* the launch or stop that holds `lifecycle`
  calls,    \* the capture requests
  faults,   \* what may fail in this behaviour
  overtaken,\* history: (session, key) of captures in flight at a hand-over
  windows   \* history: (session, key) of every window the helper started

vars == <<launches, slot, rt, coll, disk, files, edited, op, calls,
          overtaken, windows, faults>>

-----------------------------------------------------------------------------
(* Values. *)

AKey == CHOOSE k \in Keys : TRUE
NoDir == 0

EmptySlot == [active |-> FALSE, collector |-> None, journal |-> None,
              dir |-> NoDir, snap |-> {}, owned |-> {}, experiment |-> None,
              used |-> {}, records |-> {}, sampler |-> FALSE, wake |-> FALSE]

NoCheck == [base |-> None, snap |-> {}, owned |-> {}]

NoOp == [pc |-> "idle", launching |-> FALSE, id |-> None, dir |-> NoDir,
         prior |-> None, check |-> NoCheck, bad |-> FALSE,
         cleanup |-> FALSE, profiled |-> FALSE, unconfirmed |-> FALSE,
         experiment |-> None, records |-> {}]

NoCall == [pc |-> "idle", key |-> AKey, col |-> None, port |-> FALSE,
           exp |-> None, check |-> NoCheck, result |-> "none"]

StoppedRuntime == [running |-> FALSE, kind |-> "none", dirty |-> FALSE]
StuckRuntime == [running |-> FALSE, kind |-> "tracy", dirty |-> TRUE]
Unused == [journal |-> None, status |-> "none", bases |-> {},
          launched |-> FALSE, complete |-> None, captures |-> {}]

(***************************************************************************)
(* What `git status` and the snapshot see of the session: published        *)
(* traces, the temporaries of reserved outputs and a foreign edit.         *)
(***************************************************************************)
Reserved(c) ==
  calls[c].pc \in {"begin", "sent", "window", "answered", "publish"}
Workspace == files \cup [temporary : {c \in Calls : Reserved(c)}]
                   \cup (IF edited THEN [edit : {TRUE}] ELSE {})

\* compare_snapshots: anything added or deleted outside the owned paths.
Violates(check) == (Workspace \ check.owned) # (check.snap \ check.owned)

\* checkpoint_integrity first clones the baseline and the owned paths ...
ReadCheck == [base |-> slot.journal, snap |-> slot.snap, owned |-> slot.owned]

\* ... and, once compared, records into whatever journal the slot then holds.
RecordCheck(check) ==
  disk' = IF slot.journal = None THEN disk
          ELSE [disk EXCEPT ![slot.dir].bases = @ \cup {check.base}]

Init ==
  /\ launches = 0
  /\ slot = EmptySlot
  /\ rt = StoppedRuntime
  /\ coll = [s \in Session |-> "none"]
  /\ disk = [d \in Dirs |-> Unused]
  /\ files = {} /\ edited = FALSE
  /\ op = NoOp
  /\ calls = [c \in Calls |-> NoCall]
  /\ overtaken = {} /\ windows = {}
  /\ faults \in FaultSets

InFlight == {c \in Calls : calls[c].pc \notin {"idle", "done"}}

\* The captures in flight when the slot changes hands.
Overtake == overtaken' =
  overtaken \cup {<<calls[c].exp, calls[c].key>> : c \in InFlight}

Goto(pc) == op' = [op EXCEPT !.pc = pc]
ToCheck(pc) == op' = [op EXCEPT !.pc = pc, !.check = ReadCheck]
ToStop(from) == op' = [from EXCEPT !.pc = "pre_stop", !.check = ReadCheck,
                          !.bad = FALSE, !.cleanup = slot.journal # None]

(***************************************************************************)
(* runtime.stop_game_process: the process dies; a containment cleanup that *)
(* times out leaves the kind and the containment behind.                   *)
(***************************************************************************)
RuntimeStops == rt' = StoppedRuntime
RuntimeSticks == "cleanup" \in faults /\ rt' = StuckRuntime

-----------------------------------------------------------------------------
(* dm_tracy_launch *)

\* IntegrityJournal::create: only a finalized journal is replaced.
MayReplace(d) == disk[d].status # "active"

(***************************************************************************)
(* The checks, the baseline and the journal.                               *)
(***************************************************************************)
LaunchBegin(d) ==
  /\ op.pc = "idle"
  /\ launches < MaxSessions
  /\ ~rt.running
  /\ MayReplace(d)
  /\ launches' = launches + 1
  /\ disk' = [disk EXCEPT ![d].journal = launches + 1, ![d].status = "active",
                          ![d].bases = {}]
  /\ op' = [NoOp EXCEPT !.pc = "pre_launch", !.launching = TRUE, !.dir = d,
                        !.id = launches + 1, !.prior = slot.journal,
                        !.check.snap = Workspace,
                        !.check.base = launches + 1]
  /\ UNCHANGED <<slot, rt, coll, files, edited, calls, overtaken, windows>>

InstalledOver ==                                                \* mutant
  [slot EXCEPT !.journal = op.id, !.dir = op.dir, !.snap = op.check.snap,
               !.owned = {}, !.experiment = None, !.used = {}]
Installed ==
  [slot EXCEPT !.journal = op.id, !.dir = op.dir, !.snap = op.check.snap,
               !.owned = {}, !.experiment = None, !.used = {},
               !.records = {}]

(***************************************************************************)
(* The pre_launch checkpoint.  A violation returns before the slot holds   *)
(* the journal, so nothing cleans up; otherwise the session takes the slot.*)
(***************************************************************************)
LaunchInstall ==
  /\ op.pc = "pre_launch"
  /\ IF Violates(op.check)
     THEN /\ op' = NoOp
          /\ UNCHANGED <<slot, disk, overtaken>>
     ELSE /\ op' = [op EXCEPT !.pc = "run", !.check = NoCheck]
          /\ disk' = [disk EXCEPT ![op.dir].bases = @ \cup {op.id}]
          /\ slot' = Installed
          /\ Overtake
  /\ UNCHANGED <<launches, rt, coll, files, edited, calls, windows>>

\* run_profiled_with_lifecycle, and the memory sampler once it runs.
LaunchRun ==
  /\ op.pc = "run"
  /\ \/ /\ Goto("spawn")
        /\ rt' = [running |-> TRUE, kind |-> "tracy", dirty |-> FALSE]
        /\ slot' = [slot EXCEPT !.sampler = TRUE]
     \/ Goto("failed") /\ UNCHANGED <<rt, slot>>
  /\ UNCHANGED <<launches, coll, disk, files, edited, calls, overtaken, windows>>

\* TracyCollector::spawn; a failure stops the runtime and ignores its result.
LaunchCollector ==
  /\ op.pc = "spawn"
  /\ \/ /\ Goto("connect")
        /\ coll' = [coll EXCEPT ![op.id] = "up"]
        /\ slot' = [slot EXCEPT !.collector = op.id]
        /\ UNCHANGED rt
     \/ /\ Goto("failed")
        /\ RuntimeStops \/ RuntimeSticks
        /\ UNCHANGED <<coll, slot>>
  /\ UNCHANGED <<launches, disk, files, edited, calls, overtaken, windows>>

\* session_start, then the hook's BYOND build, which fails without a stop.
LaunchConnect ==
  /\ op.pc = "connect"
  /\ \/ coll[op.id] = "up" /\ Goto("manifest") /\ UNCHANGED rt
     \/ coll[op.id] = "up" /\ Goto("failed") /\ UNCHANGED rt
     \/ Goto("failed") /\ (RuntimeStops \/ RuntimeSticks)
  /\ UNCHANGED <<launches, slot, coll, disk, files, edited, calls, overtaken,
                 windows>>

\* The launch manifest is never overwritten; the experiment follows it, and
\* the wake sequence if the launch asked for one.
LaunchManifest ==
  /\ op.pc = "manifest"
  /\ \/ /\ ~disk[op.dir].launched
        /\ Goto("wake") \/ ToCheck("post_launch")
        /\ disk' = [disk EXCEPT ![op.dir].launched = TRUE]
        /\ slot' = [slot EXCEPT !.experiment = op.id]
     \/ /\ disk[op.dir].launched \/ "write" \in faults
        /\ Goto("failed") /\ UNCHANGED <<disk, slot>>
  /\ UNCHANGED <<launches, rt, coll, files, edited, calls, overtaken, windows>>

(***************************************************************************)
(* The wake sequence: Topic attempts, then an owned DreamSeeker client.    *)
(* Every failure of it stops the session inline before it returns.         *)
(***************************************************************************)
LaunchWake ==
  /\ op.pc = "wake"
  /\ \/ ToCheck("post_launch") /\ UNCHANGED slot
     \/ Goto("client") /\ slot' = [slot EXCEPT !.wake = TRUE]
     \/ ToStop(op) /\ UNCHANGED slot
     \/ Goto("failed") /\ UNCHANGED slot
  /\ UNCHANGED <<launches, rt, coll, disk, files, edited, calls, overtaken,
                 windows>>

LaunchClient ==
  /\ op.pc = "client"
  /\ ToCheck("post_launch") \/ ToStop(op)
  /\ UNCHANGED <<launches, slot, rt, coll, disk, files, edited, calls,
                 overtaken, windows>>

\* The post_launch checkpoint: success makes the session ready.
LaunchReady ==
  /\ op.pc = "post_launch"
  /\ ~Violates(op.check)
  /\ RecordCheck(op.check)
  /\ op' = NoOp
  /\ UNCHANGED <<launches, slot, rt, coll, files, edited, calls, overtaken,
                 windows>>

LaunchDirty ==
  /\ op.pc = "post_launch"
  /\ Violates(op.check)
  /\ Goto("failed")
  /\ UNCHANGED <<launches, slot, rt, coll, disk, files, edited, calls,
                 overtaken, windows>>

\* `launch`: a failure after the slot took a new journal stops the session.
LaunchFailed ==
  /\ op.pc = "failed"
  /\ IF slot.journal \notin {None, op.prior} THEN ToStop(NoOp) ELSE op' = NoOp
  /\ UNCHANGED <<launches, slot, rt, coll, disk, files, edited, calls,
                 overtaken, windows>>
-----------------------------------------------------------------------------
(* dm_tracy_stop: stop_with_lifecycle, also the cleanup of a failed launch *)

\* An inline stop returns to `launch`, which looks at the journal again.
StopReturns == op' = IF op.launching THEN [op EXCEPT !.pc = "failed"] ELSE NoOp

StopBegin ==
  /\ op.pc = "idle"
  /\ ToStop(NoOp)
  /\ UNCHANGED <<launches, slot, rt, coll, disk, files, edited, calls,
                 overtaken, windows>>

StopCheckForgetful ==                                           \* mutant
  /\ op.pc \in {"pre_stop", "post_stop"}
  /\ op' = [op EXCEPT !.pc = IF @ = "pre_stop" THEN "cancel" ELSE "final",
             !.check = NoCheck,
             !.bad = op.check.base # None /\ Violates(op.check)]
  /\ UNCHANGED <<launches, slot, rt, coll, disk, files, edited, calls,
                 overtaken, windows>>

\* A failed checkpoint is remembered: it never prevents the shutdown.
StopCheck ==
  /\ op.pc \in {"pre_stop", "post_stop"}
  /\ LET fails == op.check.base # None /\ Violates(op.check)
     IN /\ op' = [op EXCEPT !.pc = IF @ = "pre_stop" THEN "cancel" ELSE "final",
                            !.check = NoCheck, !.bad = @ \/ fails]
        /\ IF fails \/ op.check.base = None THEN UNCHANGED disk
           ELSE RecordCheck(op.check)
  /\ UNCHANGED <<launches, slot, rt, coll, files, edited, calls, overtaken,
                 windows>>

\* cancel, then at most ten seconds for the active window to end.
StopWaited ==
  /\ op.pc = "cancel"
  /\ slot.collector # None => (~slot.active \/ "deadline" \in faults)
  /\ Goto("collector")
  /\ UNCHANGED <<launches, slot, rt, coll, disk, files, edited, calls,
                 overtaken, windows>>

StopCollectorTrusting ==                                        \* mutant
  /\ op.pc = "collector" /\ Goto("runtime")
  /\ UNCHANGED <<launches, slot, rt, coll, disk, files, edited, calls,
                 overtaken, windows>>

\* collector.stop: the handle is dropped only on a confirmed cleanup.
StopCollector ==
  /\ op.pc = "collector"
  /\ \/ /\ slot' = [slot EXCEPT !.collector = None]
        /\ coll' = IF slot.collector = None THEN coll
                   ELSE [coll EXCEPT ![slot.collector] = "gone"]
        /\ op' = [op EXCEPT !.pc = "runtime", !.unconfirmed = FALSE]
     \/ /\ slot.collector # None /\ "cleanup" \in faults
        /\ coll' = [coll EXCEPT ![slot.collector] = "closing"]
        /\ op' = [op EXCEPT !.pc = "runtime", !.unconfirmed = TRUE]
        /\ UNCHANGED slot
  /\ UNCHANGED <<launches, rt, disk, files, edited, calls, overtaken, windows>>

(***************************************************************************)
(* The wake client, then the runtime if it is a profiled one that runs; a  *)
(* runtime that is down is only cleaned up.  Then the collector's error.   *)
(***************************************************************************)
StopRuntime ==
  /\ op.pc = "runtime"
  /\ slot' = [slot EXCEPT !.wake = FALSE]
  /\ \/ /\ CASE rt.running /\ rt.kind = "tracy" -> RuntimeStops
             [] rt.running /\ rt.kind # "tracy" -> UNCHANGED rt
             [] OTHER -> rt' = [rt EXCEPT !.dirty = FALSE]
        /\ IF op.unconfirmed THEN StopReturns
           ELSE op' = [op EXCEPT !.pc = "take", !.profiled = rt.kind = "tracy"]
     \/ /\ rt.running => rt.kind = "tracy"
        /\ rt.running \/ rt.dirty
        /\ "cleanup" \in faults
        /\ rt' = IF rt.running THEN StuckRuntime ELSE rt
        /\ StopReturns
  /\ UNCHANGED <<launches, coll, disk, files, edited, calls, overtaken, windows>>

\* The sampler, the experiment and the records leave the slot together.
StopTake ==
  /\ op.pc = "take"
  /\ slot' = [slot EXCEPT !.sampler = FALSE, !.experiment = None,
                          !.records = {}]
  /\ IF slot.experiment = None /\ ~op.profiled /\ ~op.cleanup
     THEN StopReturns
     ELSE IF slot.experiment = None THEN ToCheck("post_stop")
     ELSE op' = [op EXCEPT !.pc = "complete", !.records = slot.records,
                           !.experiment = slot.experiment]
  /\ Overtake
  /\ UNCHANGED <<launches, rt, coll, disk, files, edited, calls, windows>>

\* The experiment-complete manifest, never overwritten.
StopManifest ==
  /\ op.pc = "complete"
  /\ \/ /\ ToCheck("post_stop")
        /\ disk' = [disk EXCEPT ![slot.dir].complete = op.experiment,
                                ![slot.dir].captures = op.records]
     \/ "write" \in faults /\ StopReturns /\ UNCHANGED disk
  /\ UNCHANGED <<launches, slot, rt, coll, files, edited, calls, overtaken,
                 windows>>

\* Only two clean checkpoints finalize the journal and release the slot.
StopFinalize ==
  /\ op.pc = "final"
  /\ \/ /\ ~op.bad
        /\ disk' = IF slot.journal = None THEN disk
                   ELSE [disk EXCEPT ![slot.dir].status = "finalized"]
        /\ slot' = [slot EXCEPT !.journal = None, !.snap = {}, !.owned = {}]
     \/ op.bad /\ UNCHANGED <<disk, slot>>
     \/ ~op.bad /\ "write" \in faults /\ UNCHANGED <<disk, slot>>
  /\ StopReturns
  /\ UNCHANGED <<launches, rt, coll, files, edited, calls, overtaken, windows>>
-----------------------------------------------------------------------------
(* dm_tracy_capture: one process per request, without `lifecycle` *)

Step(c, pc) == calls' = [calls EXCEPT ![c].pc = pc]
Leave(c) == calls' = [calls EXCEPT ![c] = [NoCall EXCEPT !.pc = "done"]]
CallOnly == UNCHANGED <<launches, rt, coll, edited, op, overtaken>>

\* The runtime is looked at under its own lock, released before the slot's.
CaptureCall(c, k) ==
  /\ calls[c].pc = "idle"
  /\ faults # {} =>
       Cardinality({x \in Calls : calls[x].pc # "idle"}) < FaultyCalls
  /\ rt.running /\ rt.kind = "tracy"
  /\ calls' = [calls EXCEPT ![c].pc = "collector", ![c].key = k]
  /\ UNCHANGED <<slot, disk, files, windows>> /\ CallOnly

CaptureCollector(c) ==
  /\ calls[c].pc = "collector"
  /\ IF slot.collector = None THEN Leave(c)
     ELSE calls' = [calls EXCEPT ![c].pc = "bind", ![c].col = slot.collector]
  /\ UNCHANGED <<slot, disk, files, windows>> /\ CallOnly

(***************************************************************************)
(* A runtime seen to have exited no longer has a listener port.  The first *)
(* capture binds the experiment's identity and workload.  The checkpoint   *)
(* that follows starts from the baseline and owned paths of this moment.   *)
(***************************************************************************)
CaptureBind(c) ==
  /\ calls[c].pc = "bind"
  /\ IF slot.experiment = None THEN Leave(c)
     ELSE calls' = [calls EXCEPT ![c].pc = "pre_capture",
                       ![c].port = rt.kind = "tracy",
                       ![c].exp = slot.experiment, ![c].check = ReadCheck]
  /\ UNCHANGED <<slot, disk, files, windows>> /\ CallOnly

(***************************************************************************)
(* The checkpoint before the window, which also reserves the outputs, and  *)
(* the one after it, which ends the request either way.                    *)
(***************************************************************************)
CaptureCheck(c) ==
  /\ calls[c].pc \in {"pre_capture", "post_capture"}
  /\ LET none == calls[c].check.base = None
         fails == ~none /\ Violates(calls[c].check)
     IN /\ IF fails \/ none THEN UNCHANGED disk ELSE RecordCheck(calls[c].check)
        /\ IF fails \/ calls[c].pc = "post_capture" THEN Leave(c)
           ELSE calls' = [calls EXCEPT ![c].pc = "begin", ![c].check = NoCheck]
  /\ UNCHANGED <<slot, files, windows>> /\ CallOnly

\* begin_capture: one window at a time, one window per key of an experiment.
MayBeginAgain(key) == key \notin slot.used                      \* mutant
MayBegin(key) == ~slot.active /\ key \notin slot.used

CaptureBegin(c) ==
  /\ calls[c].pc = "begin"
  /\ IF ~MayBegin(calls[c].key) THEN Leave(c) /\ UNCHANGED slot
     ELSE Step(c, "sent") /\ slot' = [slot EXCEPT !.active = TRUE]
  /\ UNCHANGED <<disk, files, windows>> /\ CallOnly

WindowStarts(c) ==
  /\ calls[c].pc = "sent"
  /\ coll[calls[c].col] = "up"
  /\ Step(c, "window")
  /\ windows' = windows \cup {<<calls[c].exp, calls[c].key>>}
  /\ UNCHANGED <<slot, disk, files>> /\ CallOnly

(***************************************************************************)
(* How the window ends: "valid", "invalid" (invalid_capture from the       *)
(* helper or from validate_capture_result), "started" and "early" (other   *)
(* helper errors, which say whether the window had started), or "lost" (a  *)
(* transport error, which says nothing).                                   *)
(***************************************************************************)
WindowEnds(c, result) ==
  /\ CASE result = "early" -> calls[c].pc = "sent"
       [] result = "lost" -> calls[c].pc \in {"sent", "window"}
       [] OTHER -> calls[c].pc = "window"
  /\ coll[calls[c].col] = "up" => result # "lost" \/ "lost" \in faults
  /\ coll[calls[c].col] # "up" => result = "lost"
  /\ calls' = [calls EXCEPT ![c].pc = "answered", ![c].result = result]
  /\ UNCHANGED <<slot, disk, files, windows>> /\ CallOnly

\* finish_capture: the window ends, and its key is used if it had started.
Finished(key, started) ==
  [slot EXCEPT !.active = FALSE,
               !.used = IF started THEN @ \cup {key} ELSE @]

\* A capture that read no port returns here, before finish_capture.
CaptureFinish(c) ==
  /\ calls[c].pc = "answered"
  /\ IF ~calls[c].port THEN Leave(c) /\ UNCHANGED slot
     ELSE /\ slot' = Finished(calls[c].key,
                 calls[c].result \in {"valid", "invalid", "started"})
          /\ IF calls[c].result \in {"valid", "invalid"}
             THEN Step(c, "publish") ELSE Leave(c)
  /\ UNCHANGED <<disk, files, windows>> /\ CallOnly

Trace(c) == [sess |-> calls[c].exp, key |-> calls[c].key,
             valid |-> calls[c].result = "valid"]

\* promote, or promote_diagnostic of an invalid trace; both roll back.
CapturePublish(c) ==
  /\ calls[c].pc = "publish"
  /\ \/ Step(c, "record") /\ files' = files \cup {Trace(c)}
     \/ "write" \in faults /\ Leave(c) /\ UNCHANGED files
  /\ UNCHANGED <<slot, disk, windows>> /\ CallOnly

\* The record and the owned paths, which the last checkpoint reads.
CaptureRecord(c) ==
  /\ calls[c].pc = "record"
  /\ calls' = [calls EXCEPT ![c].pc = "post_capture", ![c].check =
                  [ReadCheck EXCEPT !.owned = @ \cup {Trace(c)}]]
  /\ slot' = [slot EXCEPT !.owned = @ \cup {Trace(c)},
                          !.records = @ \cup {Trace(c)}]
  /\ UNCHANGED <<disk, files, windows>> /\ CallOnly

-----------------------------------------------------------------------------
(* The environment. *)

\* dm_status or another look at the runtime finds that it has exited.
RuntimeExits ==
  /\ rt.running
  /\ rt' = [running |-> FALSE, kind |-> "none", dirty |-> TRUE]
  /\ UNCHANGED <<launches, slot, coll, disk, files, edited, op, calls,
                 overtaken, windows>>

\* The helper exits, or is killed with the last handle to its collector.
CollectorDies(s) ==
  /\ coll[s] = "up"
  /\ "lost" \in faults \/ (slot.collector # s /\ \A c \in Calls : calls[c].col # s)
  /\ coll' = [coll EXCEPT ![s] = "gone"]
  /\ UNCHANGED <<launches, slot, rt, disk, files, edited, op, calls,
                 overtaken, windows>>

Edit ==
  /\ "edit" \in faults /\ ~edited
  /\ edited' = TRUE
  /\ UNCHANGED <<launches, slot, rt, coll, disk, files, op, calls, overtaken,
                 windows>>

\* dm_run and dm_stop take the same runtime, under the same `lifecycle`.
RunStandard ==
  /\ "standard" \in faults
  /\ op.pc = "idle" /\ ~rt.running
  /\ rt' = [running |-> TRUE, kind |-> "standard", dirty |-> FALSE]
  /\ UNCHANGED <<launches, slot, coll, disk, files, edited, op, calls,
                 overtaken, windows>>

StopAnyRuntime ==
  /\ "standard" \in faults
  /\ op.pc = "idle" /\ rt.running
  /\ RuntimeStops \/ ("cleanup" \in faults /\ rt' = [rt EXCEPT
                          !.running = FALSE, !.dirty = TRUE])
  /\ UNCHANGED <<launches, slot, coll, disk, files, edited, op, calls,
                 overtaken, windows>>

\* The server dies; its containments take the processes with them.
Crash ==
  /\ "crash" \in faults
  /\ launches > 0
  /\ slot' = EmptySlot /\ rt' = StoppedRuntime
  /\ coll' = [s \in Session |-> IF coll[s] = "none" THEN "none" ELSE "gone"]
  /\ op' = NoOp
  /\ calls' = [c \in Calls |-> IF c \in InFlight
                  THEN [NoCall EXCEPT !.pc = "done"] ELSE calls[c]]
  /\ overtaken' = overtaken \cup (Session \X Keys)
  /\ UNCHANGED <<launches, disk, files, edited, windows>>

-----------------------------------------------------------------------------
Launch ==
  \/ \E d \in Dirs : LaunchBegin(d)
  \/ LaunchInstall \/ LaunchRun \/ LaunchCollector \/ LaunchConnect
  \/ LaunchManifest \/ LaunchWake \/ LaunchClient
  \/ LaunchReady \/ LaunchDirty \/ LaunchFailed

Stop ==
  \/ StopBegin \/ StopCheck \/ StopWaited \/ StopCollector
  \/ StopRuntime \/ StopTake \/ StopManifest \/ StopFinalize

Results == {"valid", "invalid", "started", "early", "lost"}

Capture(c) ==
  \/ \E k \in Keys : CaptureCall(c, k)
  \/ CaptureCollector(c) \/ CaptureBind(c) \/ CaptureCheck(c) \/ CaptureBegin(c)
  \/ WindowStarts(c)
  \/ \E result \in Results : WindowEnds(c, result)
  \/ CaptureFinish(c) \/ CapturePublish(c) \/ CaptureRecord(c)

Environment ==
  \/ RuntimeExits \/ (\E s \in Session : CollectorDies(s))
  \/ Edit \/ RunStandard \/ StopAnyRuntime \/ Crash

Next ==
  /\ Launch \/ Stop \/ (\E c \in Calls : Capture(c)) \/ Environment
  /\ UNCHANGED faults

Spec == Init /\ [][Next]_vars

-----------------------------------------------------------------------------
(* Properties. *)

SessionOrNone == Session \cup {None}
InWindow(c) == calls[c].pc \in {"sent", "window", "answered"}

(***************************************************************************)
(* Types of the parts of the state that the other properties relate.       *)
(***************************************************************************)
TypeOK ==
  /\ launches \in 0 .. MaxSessions
  /\ slot.collector \in SessionOrNone /\ slot.journal \in SessionOrNone
  /\ slot.experiment \in SessionOrNone
  /\ slot.used \subseteq Keys /\ slot.records \subseteq files
  /\ slot.dir \in Dirs \cup {NoDir} /\ slot.owned \subseteq files
  /\ rt.kind \in {"none", "standard", "tracy"}
  /\ \A s \in Session : coll[s] \in {"none", "up", "closing", "gone"}
  /\ \A d \in Dirs : disk[d].status \in {"none", "active", "finalized"}
  /\ \A c \in Calls : calls[c].col \in SessionOrNone

(***************************************************************************)
(* One capture window at a time: no two requests are between begin_capture *)
(* and finish_capture, across relaunches too, and while one is, the slot   *)
(* says so, which is what a stop waits for.                                *)
(***************************************************************************)
OneWindow ==
  \A c, d \in Calls : InWindow(c) => slot.active /\ (InWindow(d) => c = d)

(***************************************************************************)
(* A key of an experiment gets at most one published trace, by requests of *)
(* one session that race each other; a request that a relaunch has         *)
(* overtaken is the exception.  And windows exclude each other (OneWindow).*)
(***************************************************************************)
Publishes(c) == calls[c].pc = "publish" /\ calls'[c].pc = "record"
Repeats(c) == \E f \in files : f.sess = calls[c].exp /\ f.key = calls[c].key
PublishedOnce ==
  [][/\ OneWindow'
     /\ \A c \in Calls : Publishes(c) /\ Repeats(c) =>
          <<calls[c].exp, calls[c].key>> \in overtaken]_vars

(***************************************************************************)
(* The experiment-complete manifest lists exactly the traces published in  *)
(* the session, except those of captures still in flight when the session  *)
(* changed hands, which it may lack or, from an earlier session, contain.  *)
(***************************************************************************)
ManifestExact ==
  \A d \in Dirs : disk[d].complete # None =>
    LET ofSession == {f \in files : f.sess = disk[d].complete}
        differ == (ofSession \ disk[d].captures)
                  \cup (disk[d].captures \ ofSession)
    IN \A f \in differ : <<f.sess, f.key>> \in overtaken

(***************************************************************************)
(* The journal the slot holds is the unfinished one of its directory: no   *)
(* launch replaces it on disk while the session can still write it.  And a *)
(* journal holds checkpoints against its own session's baseline only,      *)
(* except those of a capture that began in an earlier session: at the      *)
(* latest in the one whose baseline it read.                               *)
(***************************************************************************)
JournalTied ==
  /\ slot.journal # None =>
       /\ disk[slot.dir].journal = slot.journal
       /\ disk[slot.dir].status = "active"
  /\ \A d \in Dirs : \A b \in disk[d].bases :
       b = disk[d].journal \/ \E s \in 1 .. b, k \in Keys : <<s, k>> \in overtaken

(***************************************************************************)
(* Journal and manifest on disk tell of the session that wrote them.       *)
(***************************************************************************)
RecordsTied == ManifestExact /\ JournalTied

(***************************************************************************)
(* Between operations, whatever is left of a session is left with its      *)
(* journal: a finalized or absent journal means that the collector, the    *)
(* profiled runtime, the sampler and the wake client are gone.             *)
(***************************************************************************)
JournalOutlivesProcesses ==
  op.pc = "idle" /\ slot.journal = None =>
    /\ slot.collector = None /\ slot.experiment = None
    /\ ~slot.sampler /\ ~slot.wake
    /\ ~(rt.kind = "tracy" /\ (rt.running \/ rt.dirty))

(***************************************************************************)
(* Once a checkpoint of a stop has failed, that stop goes on to shut down  *)
(* what it owns but leaves the journal unfinished, even if the workspace   *)
(* looks clean at the later checkpoint.                                    *)
(***************************************************************************)
FailedCheckRemembered ==
  [][op.bad => /\ op'.bad \/ op'.pc \in {"idle", "failed", "pre_stop"}
               /\ \A d \in Dirs : disk'[d].status = disk[d].status]_vars

(***************************************************************************)
(* docs/tracy-profiling.md: once a window starts its iteration is          *)
(* consumed.                                                               *)
(***************************************************************************)
WindowConsumed ==
  slot.experiment # None =>
    \A k \in Keys : <<slot.experiment, k>> \in windows =>
      k \in slot.used \/ \E c \in Calls : calls[c].key = k /\ InWindow(c)
=============================================================================
