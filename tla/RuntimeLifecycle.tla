--------------------------- MODULE RuntimeLifecycle ---------------------------
(***************************************************************************)
(* The owned DreamDaemon runtime of the server: dm_run, dm_stop, dm_status,*)
(* dm_wait_for_output and the Tracy launch and stop that share its state,  *)
(* with the integrity journal of a standard session.                       *)
(*                                                                         *)
(* A request is a task between two awaits.  `lifecycle` and `rmutex` are   *)
(* the two tokio mutexes of ServerState that order requests; everything a  *)
(* handler does without releasing `rmutex` and without waiting for another *)
(* party is one action.  Sessions are numbered by the launches that        *)
(* replaced the output log: log s, journal s and process tree s belong     *)
(* together, and log 0 is the log of a server that launched nothing yet.   *)
(***************************************************************************)
EXTENDS Integers, FiniteSets

CONSTANTS
  Request,      \* the concurrent tool calls
  MaxSessions,  \* bound: launches that reach clear_runtime_diagnostics
  LaunchKinds,  \* kinds of launch the environment asks for
  Faults,       \* optional events: see the ASSUME
  Path,         \* protected workspace paths
  Content,      \* contents a protected path can have, Gone included
  Gone,         \* a path that does not exist
  None          \* no request, no kind

Kinds == {"standard", "tracy"}

(* "cleanup": tree termination is not confirmed within two seconds;        *)
(* "create": the journal of a new session cannot be created; "spawn": the  *)
(* process cannot be started; "persist": a journal write fails; "cancel":  *)
(* a request future is dropped; "deadline": an output wait times out.      *)
FaultNames == {"cleanup", "create", "spawn", "persist", "cancel", "deadline"}

ASSUME RuntimeConstants ==
  /\ MaxSessions \in Nat
  /\ LaunchKinds \subseteq Kinds
  /\ Faults \subseteq FaultNames
  /\ Gone \in Content
  /\ None \notin Request \cup Kinds

Session == 1 .. MaxSessions
Log     == 0 .. MaxSessions

VARIABLES
  \* requests
  op,           \* op[t]: the tool a request executes
  pc,           \* pc[t]: the await a request has reached
  obs,          \* obs[t]: the output log it cloned, 0 if none
  armed,        \* armed[t]: its StartupOwnership guard is not yet disarmed
  report,       \* report[t]: what its output wait returned
  lifecycle,    \* holder of ServerState.lifecycle
  rmutex,       \* holder of ServerState.runtime across an await
  \* RuntimeState
  child,        \* session of the child handle, 0 if None
  containment,  \* session of the retained containment, 0 if None
  outputLog,    \* session of the current output log
  kind,         \* published runtime kind (with its ports)
  observer,     \* session of the background observer, 0 if finished
  grace,        \* the observer has seen the exit and lets readers drain
  integrity,    \* session of the retained RuntimeIntegritySession, 0 if None
  summary,      \* status in the retained summary, "none" if None
  monitor,      \* session of the integrity monitor task, 0 if None
  \* output logs, shared with the waiters that cloned them
  running, drained, marker,
  \* the operating system and the disk
  proc,         \* proc[s]: the direct child of session s
  tree,         \* tree[s]: its contained process tree
  journal,      \* journal[s]: the persisted integrity journal
  disk          \* protected workspace content

requestVars == <<op, pc, obs, armed, report, lifecycle, rmutex>>
handleVars  == <<child, containment, outputLog, kind>>
watchVars   == <<observer, grace>>
logVars     == <<running, drained, marker>>
journalVars == <<integrity, summary, monitor, journal>>
vars == <<requestVars, handleVars, watchVars, logVars, journalVars,
          proc, tree, disk>>

-----------------------------------------------------------------------------
(* Integrity journals *)

Terminal == {"clean", "changes", "violation"}

NoJournal == [status |-> "absent", baseline |-> [p \in Path |-> Gone],
              events |-> {}]

OpenedJournal == [status |-> "active", baseline |-> disk, events |-> {}]

ChangeKind(before, after) ==
  IF after = Gone THEN "deleted" ELSE IF before = Gone THEN "added" ELSE "modified"

Mutations(baseline) ==
  {<<p, ChangeKind(baseline[p], disk[p])>> : p \in {q \in Path : disk[q] # baseline[q]}}

Verdict(events) ==
  IF \E e \in events : e[2] = "deleted" THEN "violation"
  ELSE IF events = {} THEN "clean" ELSE "changes"

(* The journal of a session is its document: the events the session has     *)
(* recorded, and the status last persisted.                                 *)
(* observe_now: only the first observation of a (path, kind) is recorded *)
Observed(j) == [j EXCEPT !.events = @ \cup Mutations(j.baseline)]

(* slip: the verdict is taken before the last observation *)
FinalizedEarly(j) == [Observed(j) EXCEPT !.status = Verdict(j.events)]

Finalized(j) == [Observed(j) EXCEPT !.status = Verdict(Observed(j).events)]

ObserveSession ==
  IF integrity = 0 THEN UNCHANGED journal
  ELSE journal' = [journal EXCEPT ![integrity] = Observed(@)]

-----------------------------------------------------------------------------
(* Process handles *)

(* try_wait would return the exit status of the owned child *)
Reaped == child # 0 /\ proc[child] = "exited"

GameRunning == child # 0 /\ ~Reaped

(* request_termination on the containment of session s *)
Terminated(s) ==
  IF s # 0 /\ tree[s] = "alive" THEN [tree EXCEPT ![s] = "dying"] ELSE tree

(* slip: the exit is not published to the log *)
ProbeUnpublished ==
  IF Reaped THEN child' = 0 /\ kind' = None /\ UNCHANGED running
            ELSE UNCHANGED <<child, kind, running>>

(* slip: the published kind outlives the child *)
ProbeKeepsKind ==
  IF Reaped THEN /\ child' = 0
                 /\ running' = [running EXCEPT ![outputLog] = FALSE]
                 /\ UNCHANGED kind
            ELSE UNCHANGED <<child, kind, running>>

(* is_game_running: drops an exited child and publishes it to the log *)
Probe ==
  IF Reaped
  THEN /\ child' = 0
       /\ kind' = None
       /\ running' = [running EXCEPT ![outputLog] = FALSE]
  ELSE UNCHANGED <<child, kind, running>>

(* slip: a natural exit does not terminate the descendants *)
ProbedTreeLeftAlone == tree

ProbedTree == IF Reaped THEN Terminated(containment) ELSE tree

(* the first half of stop_game_process: request, take the child, kill, reap *)
Kill ==
  /\ child' = 0
  /\ proc' = IF child = 0 THEN proc ELSE [proc EXCEPT ![child] = "exited"]
  /\ tree' = Terminated(containment)

(* slip: a termination request counts as a termination *)
SettledOnRequest == containment = 0 \/ tree[containment] # "alive"

(* the containment reports every owned process gone *)
Settled == containment = 0 \/ tree[containment] = "dead"

-----------------------------------------------------------------------------
(* Requests *)

Goto(t, label) == pc' = [pc EXCEPT ![t] = label]

Unlock(t) ==
  /\ lifecycle' = IF lifecycle = t THEN None ELSE lifecycle
  /\ rmutex' = IF rmutex = t THEN None ELSE rmutex

(* The request is answered or dropped; its locals and guards go with it. *)
Return(t) ==
  /\ op' = [op EXCEPT ![t] = "none"]
  /\ Goto(t, "idle")
  /\ obs' = [obs EXCEPT ![t] = 0]
  /\ armed' = [armed EXCEPT ![t] = FALSE]
  /\ report' = [report EXCEPT ![t] = "none"]
  /\ Unlock(t)

(* A failed launch: dm_run answers; the Tracy wrapper, which still holds   *)
(* `lifecycle`, stops what it created before it answers.                   *)
FailLaunch(t) ==
  IF op[t] = "tracy"
  THEN /\ op' = [op EXCEPT ![t] = "tracyStop"]
       /\ Goto(t, "admitted")
       /\ obs' = [obs EXCEPT ![t] = 0]
       /\ armed' = [armed EXCEPT ![t] = FALSE]
       /\ rmutex' = IF rmutex = t THEN None ELSE rmutex
       /\ UNCHANGED <<report, lifecycle>>
  ELSE Return(t)

Finish(t) == IF op[t] \in {"run", "tracy"} THEN FailLaunch(t) ELSE Return(t)

(* the StartupOwnership guard terminates the tree of the launch on drop *)
GuardDropped(t) == IF armed[t] THEN Terminated(obs[t]) ELSE tree

Begin(t, o) ==
  /\ pc[t] = "idle"
  /\ lifecycle = None
  /\ lifecycle' = t
  /\ op' = [op EXCEPT ![t] = o]
  /\ Goto(t, "admitted")
  /\ UNCHANGED <<obs, armed, report, rmutex, handleVars, watchVars, logVars,
                 journalVars, proc, tree, disk>>

BeginRun(t)       == "standard" \in LaunchKinds /\ Begin(t, "run")
BeginTracy(t)     == "tracy" \in LaunchKinds /\ Begin(t, "tracy")
BeginStop(t)      == Begin(t, "stop")
BeginTracyStop(t) == "tracy" \in LaunchKinds /\ Begin(t, "tracyStop")

(* Take the runtime mutex to finish the cleanup of a session whose child   *)
(* is gone and then finalize its journal.                                  *)
EnterCleanup(t, label) ==
  /\ ~GameRunning
  /\ Probe
  /\ tree' = Terminated(containment)
  /\ rmutex' = t
  /\ Goto(t, label)

-----------------------------------------------------------------------------
(* dm_run and the runtime half of dm_tracy_launch *)

RunRefused(t) ==
  /\ pc[t] = "admitted" /\ op[t] \in {"run", "tracy"}
  /\ rmutex = None
  /\ GameRunning
  /\ Return(t)
  /\ UNCHANGED <<handleVars, watchVars, logVars, journalVars, proc, tree, disk>>

RunClears(t) ==
  /\ pc[t] = "admitted" /\ op[t] \in {"run", "tracy"}
  /\ rmutex = None
  /\ EnterCleanup(t, "clearing")
  /\ UNCHANGED <<op, obs, armed, report, lifecycle, containment, outputLog,
                 watchVars, drained, marker, journalVars, proc, disk>>

(* missing DMB, invalid arguments, refused provenance, no DreamDaemon *)
RunRejected(t) ==
  /\ pc[t] = "cleared"
  /\ FailLaunch(t)
  /\ UNCHANGED <<handleVars, watchVars, logVars, journalVars, proc, tree, disk>>

(* clear_runtime_diagnostics: abort the readers of the old log; the new log  *)
(* is born drained and becomes live when a process is published to it        *)
ReplaceLog(s) ==
  /\ s = outputLog + 1
  /\ outputLog' = s

OldLogDrained == drained' = [drained EXCEPT ![outputLog] = TRUE]

RunJournalFails(t) ==
  /\ pc[t] = "cleared" /\ op[t] = "run" /\ "create" \in Faults
  /\ \E s \in Session : ReplaceLog(s)
  /\ OldLogDrained
  /\ observer' = 0 /\ grace' = FALSE
  /\ summary' = "none"
  /\ Return(t)
  /\ UNCHANGED <<child, containment, kind, running, marker, integrity, monitor,
                 journal, proc, tree, disk>>

(* the retained journal is finalized by `let _ =`; a failure goes unnoticed *)
SpawnFailed(t, s) ==
  LET standard == op[t] = "run"
      opened   == IF standard THEN [journal EXCEPT ![s] = OpenedJournal] ELSE journal
      j        == IF standard THEN s ELSE integrity
  IN /\ integrity' = j
     /\ \/ /\ j # 0
           /\ journal' = [opened EXCEPT ![j] = Finalized(@)]
           /\ summary' = journal'[j].status
        \/ /\ j = 0 \/ "persist" \in Faults
           /\ \/ journal' = opened
              \/ j # 0 /\ journal' = [opened EXCEPT ![j] = Observed(@)]
           /\ summary' = "none"

RunSpawnFails(t) ==
  /\ pc[t] = "cleared" /\ "spawn" \in Faults
  /\ \E s \in Session : ReplaceLog(s) /\ SpawnFailed(t, s)
  /\ OldLogDrained
  /\ observer' = 0 /\ grace' = FALSE
  /\ monitor' = 0
  /\ FailLaunch(t)
  /\ UNCHANGED <<child, containment, kind, running, marker, proc, tree, disk>>

(* spawn_runtime_process succeeds under the journal opened just before *)
Spawned(t, s) ==
  /\ ReplaceLog(s)
  /\ child' = s /\ containment' = s
  /\ kind' = IF op[t] = "run" THEN "standard" ELSE "tracy"
  /\ running' = [running EXCEPT ![s] = TRUE]
  /\ drained' = [drained EXCEPT ![outputLog] = TRUE, ![s] = FALSE]
  /\ proc' = [proc EXCEPT ![s] = "alive"]
  /\ summary' = "none"
  /\ IF op[t] = "run"
     THEN integrity' = s /\ journal' = [journal EXCEPT ![s] = OpenedJournal]
     ELSE UNCHANGED <<integrity, journal>>

RunLaunched(t) ==
  /\ pc[t] = "cleared"
  /\ \E s \in Session :
       /\ Spawned(t, s)
       /\ tree' = [tree EXCEPT ![s] = "alive"]
       /\ monitor' = IF op[t] = "run" THEN s ELSE monitor
       /\ observer' = s /\ grace' = FALSE
       /\ obs' = [obs EXCEPT ![t] = s]
       /\ armed' = [armed EXCEPT ![t] = TRUE]
  /\ Goto(t, "settling")
  /\ lifecycle' = IF op[t] = "run" THEN None ELSE lifecycle
  /\ rmutex' = None
  /\ UNCHANGED <<op, report, marker, disk>>

(* set_process_id cannot persist: the guard kills what was just spawned,   *)
(* before any monitor or observer exists                                   *)
RunProcessIdFails(t) ==
  /\ pc[t] = "cleared" /\ op[t] = "run" /\ "persist" \in Faults
  /\ \E s \in Session :
       /\ Spawned(t, s)
       /\ tree' = [tree EXCEPT ![s] = "dying"]
  /\ observer' = 0 /\ grace' = FALSE
  /\ Return(t)
  /\ UNCHANGED <<monitor, marker, disk>>

(* slip: no Arc::ptr_eq check after a wait *)
SameSessionAssumed(t) == t \in Request

SameSession(t) == obs[t] = outputLog

(* the relaunched runtime belongs to somebody else *)
LaunchReplaced(t) ==
  /\ pc[t] \in {"settling", "publishing", "takingDown"}
  /\ rmutex = None
  /\ ~SameSession(t)
  /\ FailLaunch(t)
  /\ tree' = GuardDropped(t)
  /\ UNCHANGED <<handleVars, watchVars, logVars, journalVars, proc, disk>>

(* 250 ms later: the caller may have asked for a readiness marker *)
LaunchSettled(t) ==
  /\ pc[t] = "settling"
  /\ rmutex = None
  /\ SameSession(t) /\ GameRunning
  /\ \/ op[t] = "run" /\ Goto(t, "awaiting")
     \/ Goto(t, "publishing")
  /\ UNCHANGED <<op, obs, armed, report, lifecycle, rmutex, handleVars, watchVars,
                 logVars, journalVars, proc, tree, disk>>

LaunchExitedEarly(t) ==
  /\ pc[t] = "settling"
  /\ rmutex = None
  /\ SameSession(t)
  /\ EnterCleanup(t, "closing")
  /\ UNCHANGED <<op, obs, armed, report, lifecycle, containment, outputLog,
                 watchVars, drained, marker, journalVars, proc, disk>>

(* wait_for_output_value on the cloned log: the three ways it ends *)
WaitMatched(t) == marker[obs[t]]
WaitExited(t)  == ~marker[obs[t]] /\ ~running[obs[t]] /\ drained[obs[t]]
WaitExpired(t) == "deadline" \in Faults /\ ~marker[obs[t]] /\ ~WaitExited(t)

(* slip: the readiness wait looks for the line and the deadline only *)
ReadinessBlind(t) ==
  /\ pc[t] = "awaiting"
  /\ \/ WaitMatched(t) /\ Goto(t, "publishing")
     \/ WaitExpired(t) /\ Goto(t, "unready")
  /\ UNCHANGED <<op, obs, armed, report, lifecycle, rmutex, handleVars, watchVars,
                 logVars, journalVars, proc, tree, disk>>

ReadinessResolved(t) ==
  /\ pc[t] = "awaiting"
  /\ \/ WaitMatched(t) /\ Goto(t, "publishing")
     \/ (WaitExited(t) \/ WaitExpired(t)) /\ Goto(t, "unready")
  /\ UNCHANGED <<op, obs, armed, report, lifecycle, rmutex, handleVars, watchVars,
                 logVars, journalVars, proc, tree, disk>>

UnreadyAdmitted(t) ==
  /\ pc[t] = "unready"
  /\ lifecycle = None
  /\ lifecycle' = t
  /\ Goto(t, "takingDown")
  /\ UNCHANGED <<op, obs, armed, report, rmutex, handleVars, watchVars, logVars,
                 journalVars, proc, tree, disk>>

UnreadyTakedown(t) ==
  /\ pc[t] = "takingDown"
  /\ rmutex = None
  /\ SameSession(t)
  /\ rmutex' = t
  /\ Kill
  /\ Goto(t, "killing")
  /\ UNCHANGED <<op, obs, armed, report, lifecycle, containment, outputLog, kind,
                 watchVars, logVars, journalVars, disk>>

(* "launch_ready" checkpoint, then the guard is disarmed; a Tracy launch goes *)
(* on to its collector, which may fail it                                     *)
LaunchPublished(t) ==
  /\ pc[t] = "publishing"
  /\ rmutex = None
  /\ SameSession(t) /\ GameRunning
  /\ ObserveSession
  /\ summary' = IF integrity = 0 THEN summary ELSE journal[integrity].status
  /\ Return(t) \/ (op[t] = "tracy" /\ FailLaunch(t))
  /\ UNCHANGED <<handleVars, watchVars, logVars, integrity, monitor, proc, tree, disk>>

LaunchPublishFails(t) ==
  /\ pc[t] = "publishing" /\ "persist" \in Faults
  /\ rmutex = None
  /\ SameSession(t) /\ GameRunning /\ integrity # 0
  /\ ObserveSession \/ UNCHANGED journal
  /\ FailLaunch(t)
  /\ tree' = GuardDropped(t)
  /\ UNCHANGED <<handleVars, watchVars, logVars, integrity, summary, monitor, proc,
                 disk>>

LaunchEnded(t) ==
  /\ pc[t] = "publishing"
  /\ rmutex = None
  /\ SameSession(t) /\ ~GameRunning
  /\ Probe
  /\ FailLaunch(t)
  /\ tree' = Terminated(obs[t])
  /\ UNCHANGED <<containment, outputLog, watchVars, drained, marker, journalVars,
                 proc, disk>>

-----------------------------------------------------------------------------
(* Cleanup, shared by every handler *)

(* stop_game_process after finish_runtime_cleanup succeeded *)
KillConfirmed(t) ==
  /\ pc[t] = "killing"
  /\ Settled
  /\ containment' = 0
  /\ kind' = None
  /\ running' = [running EXCEPT ![outputLog] = FALSE]
  /\ drained' = [drained EXCEPT ![outputLog] = TRUE]
  /\ IF op[t] = "tracyStop"
     THEN Return(t)
     ELSE Goto(t, "closing") /\ UNCHANGED <<op, obs, armed, report, lifecycle, rmutex>>
  /\ UNCHANGED <<child, outputLog, watchVars, marker, journalVars, proc, tree, disk>>

(* finalize_standard_integrity after finish_runtime_cleanup succeeded *)
Finalize(t) ==
  /\ pc[t] \in {"clearing", "closing"} /\ op[t] # "tracyStop"
  /\ Settled
  /\ containment' = 0
  /\ IF summary \in Terminal
     THEN UNCHANGED <<summary, monitor, journal>>
     ELSE /\ monitor' = 0
          /\ IF integrity = 0
             THEN UNCHANGED <<summary, journal>>
             ELSE /\ journal' = [journal EXCEPT ![integrity] = Finalized(@)]
                  /\ summary' = journal'[integrity].status
  /\ IF pc[t] = "clearing"
     THEN Goto(t, "cleared") /\ UNCHANGED <<op, obs, armed, report, lifecycle, rmutex>>
     ELSE Finish(t)
  /\ tree' = IF pc[t] = "closing" THEN GuardDropped(t) ELSE tree
  /\ UNCHANGED <<child, outputLog, kind, watchVars, logVars, integrity, proc, disk>>

(* the workspace cannot be read, the journal cannot be written, or the      *)
(* request is dropped meanwhile                                             *)
FinalizeFails(t) ==
  /\ pc[t] \in {"clearing", "closing"} /\ op[t] # "tracyStop"
  /\ Settled
  /\ summary \notin Terminal /\ integrity # 0
  /\ containment' = 0
  /\ monitor' = 0
  /\ ObserveSession \/ UNCHANGED journal
  /\ ("persist" \in Faults /\ Finish(t)) \/ ("cancel" \in Faults /\ Return(t))
  /\ tree' = GuardDropped(t)
  /\ UNCHANGED <<child, outputLog, kind, watchVars, logVars, integrity, summary,
                 proc, disk>>

(* slip: a failed cleanup drops the containment *)
CleanupAbandons(t) ==
  /\ pc[t] \in {"clearing", "closing", "killing"}
  /\ "cleanup" \in Faults
  /\ ~Settled
  /\ containment' = 0
  /\ Finish(t)
  /\ tree' = GuardDropped(t)
  /\ UNCHANGED <<child, outputLog, kind, watchVars, logVars, journalVars, proc, disk>>

(* two seconds passed: the error leaves containment and journal as they are *)
CleanupTimesOut(t) ==
  /\ pc[t] \in {"clearing", "closing", "killing"}
  /\ "cleanup" \in Faults
  /\ ~Settled
  /\ Finish(t)
  /\ tree' = GuardDropped(t)
  /\ UNCHANGED <<handleVars, watchVars, logVars, journalVars, proc, disk>>

-----------------------------------------------------------------------------
(* dm_stop, dm_tracy_stop and server shutdown *)

StopIdle(t) ==
  /\ pc[t] = "admitted" /\ op[t] = "stop"
  /\ rmutex = None
  /\ ~GameRunning /\ integrity = 0 /\ containment = 0
  /\ Return(t)
  /\ UNCHANGED <<handleVars, watchVars, logVars, journalVars, proc, tree, disk>>

StopExited(t) ==
  /\ pc[t] = "admitted" /\ op[t] = "stop"
  /\ rmutex = None
  /\ integrity # 0 \/ containment # 0
  /\ EnterCleanup(t, "closing")
  /\ UNCHANGED <<op, obs, armed, report, lifecycle, containment, outputLog,
                 watchVars, drained, marker, journalVars, proc, disk>>

StopLive(t) ==
  /\ pc[t] = "admitted"
  /\ op[t] = "stop" \/ (op[t] = "tracyStop" /\ kind = "tracy")
  /\ rmutex = None
  /\ GameRunning
  /\ rmutex' = t
  /\ Kill
  /\ Goto(t, "killing")
  /\ UNCHANGED <<op, obs, armed, report, lifecycle, containment, outputLog, kind,
                 watchVars, logVars, journalVars, disk>>

(* a standard runtime is not the Tracy stop's to end *)
TracyStopRefused(t) ==
  /\ pc[t] = "admitted" /\ op[t] = "tracyStop"
  /\ rmutex = None
  /\ GameRunning /\ kind # "tracy"
  /\ Return(t)
  /\ UNCHANGED <<handleVars, watchVars, logVars, journalVars, proc, tree, disk>>

TracyStopExited(t) ==
  /\ pc[t] = "admitted" /\ op[t] = "tracyStop"
  /\ rmutex = None
  /\ EnterCleanup(t, "closing")
  /\ UNCHANGED <<op, obs, armed, report, lifecycle, containment, outputLog,
                 watchVars, drained, marker, journalVars, proc, disk>>

(* finish_runtime_cleanup alone: the standard journal is not touched *)
TracyStopConfirmed(t) ==
  /\ pc[t] = "closing" /\ op[t] = "tracyStop"
  /\ Settled
  /\ containment' = 0
  /\ Return(t)
  /\ UNCHANGED <<child, outputLog, kind, watchVars, logVars, journalVars, proc,
                 tree, disk>>

(* a dropped future, an invalid readiness expression or the shutdown limit *)
Cancel(t) ==
  /\ pc[t] \notin {"idle", "cleared"} /\ "cancel" \in Faults
  /\ Return(t)
  /\ tree' = GuardDropped(t)
  /\ UNCHANGED <<handleVars, watchVars, logVars, journalVars, proc, disk>>

-----------------------------------------------------------------------------
(* dm_status, dm_server_status, dm_topic, dm_wait_for_output *)

StatusRunning(t) ==
  /\ pc[t] = "idle"
  /\ rmutex = None
  /\ GameRunning
  /\ integrity # 0 /\ ObserveSession
  /\ UNCHANGED <<requestVars, handleVars, watchVars, logVars, integrity, summary,
                 monitor, proc, tree, disk>>

StatusExited(t) ==
  /\ pc[t] = "idle"
  /\ rmutex = None
  /\ EnterCleanup(t, "closing")
  /\ op' = [op EXCEPT ![t] = "status"]
  /\ UNCHANGED <<obs, armed, report, lifecycle, containment, outputLog, watchVars,
                 drained, marker, journalVars, proc, disk>>

(* status_summary and topic only refresh the child handle *)
Refresh ==
  /\ rmutex = None
  /\ Reaped
  /\ Probe
  /\ tree' = ProbedTree
  /\ UNCHANGED <<requestVars, containment, outputLog, watchVars, drained, marker,
                 journalVars, proc, disk>>

BeginWait(t) ==
  /\ pc[t] = "idle"
  /\ rmutex = None
  /\ GameRunning \/ proc[outputLog] = "exited"
  /\ Probe
  /\ tree' = ProbedTree
  /\ IF observer = 0 THEN observer' = outputLog /\ grace' = FALSE
                     ELSE UNCHANGED watchVars
  /\ op' = [op EXCEPT ![t] = "wait"]
  /\ obs' = [obs EXCEPT ![t] = outputLog]
  /\ Goto(t, "watching")
  /\ UNCHANGED <<armed, report, lifecycle, rmutex, containment, outputLog, drained,
                 marker, journalVars, proc, disk>>

WaitResolved(t) ==
  /\ pc[t] = "watching"
  /\ \/ WaitMatched(t) /\ report' = [report EXCEPT ![t] = "matched"]
     \/ WaitExited(t) /\ report' = [report EXCEPT ![t] = "exited"]
     \/ WaitExpired(t) /\ report' = [report EXCEPT ![t] = "expired"]
  /\ Goto(t, "reporting")
  /\ UNCHANGED <<op, obs, armed, lifecycle, rmutex, handleVars, watchVars, logVars,
                 journalVars, proc, tree, disk>>

ReportReplaced(t) ==
  /\ pc[t] = "reporting"
  /\ rmutex = None
  /\ ~SameSession(t)
  /\ Return(t)
  /\ UNCHANGED <<handleVars, watchVars, logVars, journalVars, proc, tree, disk>>

ReportRunning(t) ==
  /\ pc[t] = "reporting"
  /\ rmutex = None
  /\ SameSession(t) /\ GameRunning
  /\ ObserveSession \/ ("persist" \in Faults /\ UNCHANGED journal)
  /\ Return(t)
  /\ UNCHANGED <<handleVars, watchVars, logVars, integrity, summary, monitor, proc,
                 tree, disk>>

ReportExited(t) ==
  /\ pc[t] = "reporting"
  /\ rmutex = None
  /\ SameSession(t)
  /\ EnterCleanup(t, "closing")
  /\ UNCHANGED <<op, obs, armed, report, lifecycle, containment, outputLog,
                 watchVars, drained, marker, journalVars, proc, disk>>

-----------------------------------------------------------------------------
(* Background tasks *)

(* the fixed five-second monitor; it ignores errors *)
MonitorTick ==
  /\ monitor # 0
  /\ journal' = [journal EXCEPT ![monitor] = Observed(@)]
  /\ UNCHANGED <<requestVars, handleVars, watchVars, logVars, integrity, summary,
                 monitor, proc, tree, disk>>

(* try_lock found the runtime free and the child gone *)
ObserverSeesExit ==
  /\ observer # 0 /\ ~grace
  /\ rmutex = None
  /\ ~GameRunning
  /\ Probe
  /\ tree' = ProbedTree
  /\ grace' = TRUE
  /\ UNCHANGED <<requestVars, containment, outputLog, observer, drained, marker,
                 journalVars, proc, disk>>

(* slip: the observer ends without draining the log *)
ObserverLeaves ==
  /\ observer # 0 /\ grace
  /\ rmutex = None
  /\ observer' = 0 /\ grace' = FALSE
  /\ UNCHANGED <<requestVars, handleVars, logVars, journalVars, proc, tree, disk>>

(* 100 ms later: abort the readers and stop observing *)
ObserverDrains ==
  /\ observer # 0 /\ grace
  /\ rmutex = None
  /\ drained' = [drained EXCEPT ![outputLog] = TRUE]
  /\ observer' = 0 /\ grace' = FALSE
  /\ UNCHANGED <<requestVars, handleVars, running, marker, journalVars, proc, tree,
                 disk>>

-----------------------------------------------------------------------------
(* The operating system, DreamDaemon and the workspace *)

ChildExits(s) ==
  /\ proc[s] = "alive"
  /\ proc' = [proc EXCEPT ![s] = "exited"]
  /\ UNCHANGED <<requestVars, handleVars, watchVars, logVars, journalVars, tree, disk>>

TreeDies(s) ==
  /\ tree[s] = "dying"
  /\ tree' = [tree EXCEPT ![s] = "dead"]
  /\ proc' = [proc EXCEPT ![s] = "exited"]
  /\ UNCHANGED <<requestVars, handleVars, watchVars, logVars, journalVars, disk>>

(* a reader task appends the awaited line before it ends or is aborted *)
Emit(s) ==
  /\ proc[s] # "none" /\ ~drained[s] /\ ~marker[s]
  /\ marker' = [marker EXCEPT ![s] = TRUE]
  /\ UNCHANGED <<requestVars, handleVars, watchVars, running, drained, journalVars,
                 proc, tree, disk>>

Edit(p, c) ==
  /\ disk[p] # c
  /\ disk' = [disk EXCEPT ![p] = c]
  /\ UNCHANGED <<requestVars, handleVars, watchVars, logVars, journalVars, proc, tree>>

-----------------------------------------------------------------------------
Init ==
  /\ op = [t \in Request |-> "none"]
  /\ pc = [t \in Request |-> "idle"]
  /\ obs = [t \in Request |-> 0]
  /\ armed = [t \in Request |-> FALSE]
  /\ report = [t \in Request |-> "none"]
  /\ lifecycle = None /\ rmutex = None
  /\ child = 0 /\ containment = 0 /\ outputLog = 0 /\ kind = None
  /\ observer = 0 /\ grace = FALSE
  /\ integrity = 0 /\ summary = "none" /\ monitor = 0
  /\ running = [s \in Log |-> FALSE]
  /\ drained = [s \in Log |-> TRUE]
  /\ marker = [s \in Log |-> FALSE]
  /\ proc = [s \in Log |-> "none"]
  /\ tree = [s \in Log |-> "none"]
  /\ journal = [s \in Log |-> NoJournal]
  /\ disk \in [Path -> Content \ {Gone}]

Launching(t) ==
  \/ RunRefused(t) \/ RunClears(t) \/ RunRejected(t) \/ RunJournalFails(t)
  \/ RunSpawnFails(t) \/ RunLaunched(t) \/ RunProcessIdFails(t)
  \/ LaunchReplaced(t) \/ LaunchSettled(t) \/ LaunchExitedEarly(t)
  \/ ReadinessResolved(t) \/ UnreadyAdmitted(t) \/ UnreadyTakedown(t)
  \/ LaunchPublished(t) \/ LaunchPublishFails(t) \/ LaunchEnded(t)

Closing(t) ==
  \/ KillConfirmed(t) \/ Finalize(t) \/ FinalizeFails(t) \/ CleanupTimesOut(t)
  \/ TracyStopConfirmed(t)

Stopping(t) ==
  \/ StopIdle(t) \/ StopExited(t) \/ StopLive(t)
  \/ TracyStopRefused(t) \/ TracyStopExited(t)

Waiting(t) ==
  WaitResolved(t) \/ ReportReplaced(t) \/ ReportRunning(t) \/ ReportExited(t)

Arriving(t) ==
  \/ BeginRun(t) \/ BeginTracy(t) \/ BeginStop(t) \/ BeginTracyStop(t)
  \/ StatusRunning(t) \/ StatusExited(t) \/ BeginWait(t)

(* what a request does once it has been received *)
Progress(t) == Launching(t) \/ Closing(t) \/ Stopping(t) \/ Waiting(t)

Background == MonitorTick \/ ObserverSeesExit \/ ObserverDrains

Environment ==
  \/ \E s \in Session : ChildExits(s) \/ TreeDies(s) \/ Emit(s)
  \/ \E p \in Path, c \in Content : Edit(p, c)

Next ==
  \/ \E t \in Request : Arriving(t) \/ Progress(t) \/ Cancel(t)
  \/ Refresh
  \/ Background
  \/ Environment

Spec == Init /\ [][Next]_vars

(* Both mutexes are FIFO, so a request that can proceed again and again    *)
(* does; the observer's try_lock is retried every 50 ms; a signalled tree  *)
(* dies.                                                                   *)
Fairness ==
  /\ \A t \in Request : SF_vars(Progress(t))
  /\ SF_vars(ObserverSeesExit) /\ SF_vars(ObserverDrains)
  /\ \A s \in Session : WF_vars(TreeDies(s))

FairSpec == Spec /\ Fairness

-----------------------------------------------------------------------------
(* Properties *)

Operations == {"none", "run", "tracy", "stop", "tracyStop", "status", "wait"}

Labels == {"idle", "admitted", "clearing", "cleared", "settling", "awaiting", "unready",
           "takingDown", "publishing", "killing", "closing", "watching", "reporting"}

OutputWaits == {"awaiting", "watching"}

Reports == {"none", "matched", "exited", "expired"}

Trees == {"none", "alive", "dying", "dead"}

Mutation == Path \X {"added", "modified", "deleted"}

Statuses == {"none", "absent", "active"} \cup Terminal

Journal == [status : Statuses, baseline : [Path -> Content], events : SUBSET Mutation]

RequestTypeOK ==
  /\ op \in [Request -> Operations]
  /\ pc \in [Request -> Labels]
  /\ obs \in [Request -> Log]
  /\ armed \in [Request -> BOOLEAN]
  /\ report \in [Request -> Reports]
  /\ lifecycle \in Request \cup {None}
  /\ rmutex \in Request \cup {None}

HandleTypeOK ==
  /\ child \in Log /\ containment \in Log /\ outputLog \in Log
  /\ kind \in Kinds \cup {None}
  /\ observer \in Log /\ grace \in BOOLEAN

SessionTypeOK ==
  /\ running \in [Log -> BOOLEAN]
  /\ drained \in [Log -> BOOLEAN]
  /\ marker \in [Log -> BOOLEAN]
  /\ proc \in [Log -> {"none", "alive", "exited"}]
  /\ tree \in [Log -> Trees]

JournalTypeOK ==
  /\ integrity \in Log /\ summary \in Statuses /\ monitor \in Log
  /\ journal \in [Log -> Journal]
  /\ disk \in [Path -> Content]

(* The type of every variable of the server state and of its environment.   *)
TypeOK == RequestTypeOK /\ HandleTypeOK /\ SessionTypeOK /\ JournalTypeOK

(* A process tree that is not confirmed dead is the tree the server still   *)
(* holds the containment of: neither a natural exit, a failed cleanup, a    *)
(* failed launch, a dropped request nor a relaunch loses it.                *)
OwnershipRetained ==
  \A s \in Log : tree[s] \in {"alive", "dying"} => containment = s

(* A standard journal carries a final verdict only once every process of    *)
(* its session is gone, so no write of the game can follow the verdict.     *)
FinalizedAfterTermination ==
  \A s \in Log : journal[s].status \in Terminal => tree[s] \in {"none", "dead"}

(* At rest the published status agrees with the handle: the log says        *)
(* running, and a kind is published, exactly while a child is owned.        *)
PublishedStatus ==
  rmutex = None => /\ running[outputLog] <=> child # 0
                   /\ kind # None <=> child # 0

(* A log whose readers have ended never says that its process still runs;   *)
(* a wait on such a log could only end by its deadline.                     *)
NoStrandedWait == \A s \in Log : drained[s] => ~running[s]

(* A step of a launch or a wait that started with an older session leaves   *)
(* the runtime that replaced it, its tree, its log and its journal alone.   *)
ReplacementUndisturbed ==
  [][\A t \in Request :
       pc'[t] # pc[t] /\ obs[t] \notin {0, outputLog} =>
         /\ UNCHANGED <<handleVars, integrity, summary, monitor>>
         /\ \A s \in Log \ {obs[t]} : /\ tree'[s] = tree[s]
                                      /\ running'[s] = running[s]
                                      /\ journal'[s] = journal[s]]_vars

(* The journals of all sessions follow the life RuntimeJournal gives them:  *)
(* one opening, growing evidence, one verdict on exactly that evidence.     *)
JournalLife ==
  INSTANCE RuntimeJournal WITH
    Journals <- Log, Evidence <- Mutation,
    status <- [s \in Log |-> journal[s].status],
    events <- [s \in Log |-> journal[s].events]

JournalFollowsLife == JournalLife!Spec

(* A journal with a final verdict is never written again.                   *)
TerminalJournalRetained ==
  [][\A s \in Log : journal[s].status \in Terminal => journal'[s] = journal[s]]_vars

(* A wait, or a launch that waits for its readiness, on a session whose     *)
(* process ended is answered; it has no deadline to fall back on.           *)
ExitIsReported ==
  \A t \in Request :
    pc[t] \in OutputWaits /\ proc[obs[t]] = "exited" ~> pc[t] \notin OutputWaits

(* When the direct child ends, its descendants are terminated too, even if  *)
(* no tool is called again.                                                 *)
DescendantsReleased ==
  \A s \in Session : proc[s] = "exited" ~> tree[s] = "dead"

(* No request is stuck behind a lock, a cleanup or a journal: it returns,   *)
(* or it waits for the output of a process that still runs.                 *)
EveryRequestReturns ==
  \A t \in Request :
    pc[t] # "idle" ~>
      pc[t] = "idle" \/ (pc[t] \in OutputWaits /\ proc[obs[t]] = "alive")
=============================================================================
