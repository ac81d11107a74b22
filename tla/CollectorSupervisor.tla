--------------------------- MODULE CollectorSupervisor ---------------------------
(***************************************************************************)
(* CollectorSupervisor: the process behind a TracyCollector.  One task     *)
(* supervises it: it waits for the child, forces its end when a stop       *)
(* schedule says so, cleans up the containment and publishes a status.     *)
(* Stops run concurrently, each with its own timeout; they share one       *)
(* schedule (a watch channel) and all wait for the status.                 *)
(*                                                                         *)
(* The exchange on the wire is CollectorTransport's; here it may succeed   *)
(* or fail, and the child may exit at any time.  Time is counted in units  *)
(* of 250 ms; at MaxNow every deadline counts as passed.                   *)
(***************************************************************************)
EXTENDS Integers

CONSTANTS
  Stops,       \* calls of stop
  Timeouts,    \* their timeouts
  MaxNow,      \* end of the modelled time
  HasJob,      \* TRUE on Windows: the child is in a job, which can fail
  SupFaults,   \* subset of {"spawn", "terminate", "query", "wait"}
  NoSchedule

ASSUME SupervisorConstants ==
  /\ Timeouts \subseteq Nat \ {0} /\ MaxNow \in Nat /\ HasJob \in BOOLEAN
  /\ SupFaults \subseteq {"spawn", "terminate", "query", "wait"}
  /\ NoSchedule \notin [force : Int, deadline : Int]

VARIABLES
  supNow,
  supWatch,    \* the schedule channel: its value, whether the task has yet to see it
  supTask,     \* the task: phase, schedule it follows, forced, errors
  supTree,     \* the child and the rest of its job
  supStatus,   \* what the task publishes
  supStops,    \* supStops[c]: a call of stop
  supHandle    \* "none", "held" or "dropped": the TracyCollector

supVars == <<supNow, supWatch, supTask, supTree, supStatus, supStops, supHandle>>

SupInit ==
  /\ supNow = 0
  /\ supWatch = [value |-> NoSchedule, unread |-> FALSE]
  /\ supTask = [phase |-> "none", stop |-> NoSchedule, forced |-> FALSE,
                open |-> TRUE, lost |-> FALSE, error |-> FALSE, until |-> 0]
  /\ supTree = [child |-> "none", job |-> "none"]
  /\ supStatus = [running |-> TRUE, error |-> FALSE]
  /\ supStops = [c \in Stops |-> [step |-> "idle", began |-> 0, deadline |-> 0]]
  /\ supHandle = "none"

Passed(t) == supNow >= t \/ supNow = MaxNow
MinOf(a, b) == IF a < b THEN a ELSE b
Confirmed == ~supStatus.running /\ ~supStatus.error
Gone == supTree.child = "reaped" /\ supTree.job \in {"none", "gone"}

-----------------------------------------------------------------------------
(* TracyCollector::spawn; every failure leaves no child *)

SupSpawn ==
  /\ supHandle = "none"
  /\ \/ /\ supHandle' = "held"
        /\ supTask' = [supTask EXCEPT !.phase = "watch"]
        /\ \E job \in {"none"} \cup (IF HasJob THEN {"running"} ELSE {}) :
             supTree' = [child |-> "running", job |-> job]
     \/ /\ "spawn" \in SupFaults /\ supHandle' = "dropped"
        /\ supTree' = [supTree EXCEPT !.child = "reaped"]
        /\ UNCHANGED supTask
  /\ UNCHANGED <<supNow, supWatch, supStatus, supStops>>

-----------------------------------------------------------------------------
(* stop and drop *)

Schedule(t) ==
  [force |-> supNow + t - MinOf(t \div 2, 1), deadline |-> supNow + t]

(* the condition of send_if_modified, and of the task's own reading *)
Replaces(current, next) ==
  \/ current = NoSchedule
  \/ current.deadline <= supNow
  \/ next.force < current.force

StopBegins(c) ==
  /\ supHandle = "held" /\ supStops[c].step = "idle" /\ supNow < MaxNow
  /\ \E t \in Timeouts :
       /\ supStops' = [supStops EXCEPT ![c] =
            [step |-> "waiting", began |-> supNow, deadline |-> supNow + t]]
       /\ supWatch' = IF Replaces(supWatch.value, Schedule(t))
                      THEN [value |-> Schedule(t), unread |-> TRUE] ELSE supWatch
  /\ UNCHANGED <<supNow, supTask, supTree, supStatus, supHandle>>

(* The status is confirmed and the exchange is over, or the time is: which  *)
(* of them stop reports is left out.                                        *)
StopEnds(c) ==
  /\ supStops[c].step = "waiting"
  /\ Confirmed \/ Passed(supStops[c].deadline)
  /\ supStops' = [supStops EXCEPT ![c] = [step |-> "ended", began |-> 0, deadline |-> 0]]
  /\ UNCHANGED <<supNow, supWatch, supTask, supTree, supStatus, supHandle>>

(* The drop schedules the end at once and closes the channel. *)
DropCollector ==
  /\ supHandle = "held" /\ supHandle' = "dropped"
  /\ \A c \in Stops : supStops[c].step # "waiting"
  /\ supWatch' = [value |-> [force |-> supNow, deadline |-> supNow + 1], unread |-> TRUE]
  /\ UNCHANGED <<supNow, supTask, supTree, supStatus, supStops>>

-----------------------------------------------------------------------------
(* supervise_child, while the child runs *)

ForceDue ==
  /\ supTask.stop # NoSchedule /\ ~supTask.forced
  /\ Passed(supTask.stop.force)

ChannelClosed == supHandle = "dropped" /\ ~supWatch.unread

SeesSchedule ==
  /\ supTask.phase = "watch" /\ supTask.open
  /\ \/ /\ supWatch.unread
        /\ supWatch' = [supWatch EXCEPT !.unread = FALSE]
        /\ supTask' = IF Replaces(supTask.stop, supWatch.value)
             THEN [supTask EXCEPT !.stop = supWatch.value, !.forced = FALSE] ELSE supTask
     \/ /\ ChannelClosed
        /\ supTask' = [supTask EXCEPT !.open = FALSE, !.forced = FALSE,
             !.stop = [force |-> supNow, deadline |-> supNow + 1]]
        /\ UNCHANGED supWatch
  /\ UNCHANGED <<supNow, supTree, supStatus, supStops, supHandle>>

Dying(state) == IF state = "running" THEN "dying" ELSE state

(* request_termination and start_kill; generic Unix containment does nothing. *)
Forces ==
  /\ supTask.phase = "watch" /\ ~(supTask.open /\ (supWatch.unread \/ ChannelClosed))
  /\ ForceDue
  /\ supTask' = [supTask EXCEPT !.forced = TRUE]
  /\ \E failed \in {FALSE, HasJob /\ "terminate" \in SupFaults} :
       /\ supStatus' = [supStatus EXCEPT !.error = failed]
       /\ supTree' = [child |-> Dying(supTree.child),
                      job |-> IF failed THEN supTree.job ELSE Dying(supTree.job)]
  /\ UNCHANGED <<supNow, supWatch, supStops, supHandle>>

SeesExit ==
  /\ supTask.phase = "watch" /\ supTree.child = "exited"
  /\ ~(supTask.open /\ (supWatch.unread \/ ChannelClosed)) /\ ~ForceDue
  /\ \E lost \in {FALSE, "wait" \in SupFaults} :
       supTask' = [supTask EXCEPT !.phase = "cleanup", !.lost = lost]
  /\ supTree' = [supTree EXCEPT !.child = "reaped"]
  /\ UNCHANGED <<supNow, supWatch, supStatus, supStops, supHandle>>

-----------------------------------------------------------------------------
(* supervise_child, cleanup *)

CleanupStarts ==
  /\ supTask.phase = "cleanup"
  /\ \E failed \in {FALSE, HasJob /\ "terminate" \in SupFaults} :
       /\ supTask' = [supTask EXCEPT !.phase = "poll", !.error = supTask.lost \/ failed,
            !.until = IF supTask.stop = NoSchedule THEN supNow + 1 ELSE supTask.stop.deadline]
       /\ supTree' = [supTree EXCEPT !.job = IF failed THEN @ ELSE Dying(@)]
  /\ UNCHANGED <<supNow, supWatch, supStatus, supStops, supHandle>>

Publish(error) ==
  /\ supStatus' = [running |-> supTask.lost, error |-> error]
  /\ supTask' = [supTask EXCEPT !.phase = IF error THEN "waiting" ELSE "returned",
                                !.error = error]

(* slip: a cleanup that runs out of time is not an error. *)
PollForgives ==
  /\ supTask.phase = "poll"
  /\ \/ supTree.job \in {"none", "gone"} /\ Publish(supTask.error)
     \/ supTree.job \notin {"none", "gone"} /\ Passed(supTask.until) /\ Publish(supTask.error)
  /\ UNCHANGED <<supNow, supWatch, supTree, supStops, supHandle>>

CleanupPolls ==
  /\ supTask.phase = "poll"
  /\ \/ supTree.job \in {"none", "gone"} /\ Publish(supTask.error)
     \/ supTree.job \notin {"none", "gone"} /\ Passed(supTask.until) /\ Publish(TRUE)
     \/ HasJob /\ "query" \in SupFaults /\ Publish(TRUE)
  /\ UNCHANGED <<supNow, supWatch, supTree, supStops, supHandle>>

(* A failed cleanup is repeated when the schedule changes and given up when *)
(* it is closed; the last handle of a job takes what is left with it.      *)
Retries ==
  /\ supTask.phase = "waiting"
  /\ \/ /\ supWatch.unread
        /\ supWatch' = [supWatch EXCEPT !.unread = FALSE]
        /\ supTask' = [supTask EXCEPT !.phase = "cleanup", !.stop = supWatch.value]
        /\ UNCHANGED supTree
     \/ /\ ChannelClosed
        /\ supTask' = [supTask EXCEPT !.phase = "returned"]
        /\ supTree' = [supTree EXCEPT !.job = Dying(@)]
        /\ UNCHANGED supWatch
  /\ UNCHANGED <<supNow, supStatus, supStops, supHandle>>

-----------------------------------------------------------------------------
(* the environment *)

ProcessesEnd ==
  /\ \/ /\ supTree.child \in {"running", "dying"}
        /\ supTree' = [supTree EXCEPT !.child = "exited"]
     \/ supTree.job \in {"running", "dying"} /\ supTree' = [supTree EXCEPT !.job = "gone"]
  /\ UNCHANGED <<supNow, supWatch, supTask, supStatus, supStops, supHandle>>

SupTick ==
  /\ supHandle # "none" /\ supNow < MaxNow /\ supNow' = supNow + 1
  /\ UNCHANGED <<supWatch, supTask, supTree, supStatus, supStops, supHandle>>

TaskSteps ==
  SeesSchedule \/ Forces \/ SeesExit \/ CleanupStarts \/ CleanupPolls \/ Retries

SupNext ==
  \/ SupSpawn \/ DropCollector \/ TaskSteps \/ ProcessesEnd \/ SupTick
  \/ \E c \in Stops : StopBegins(c) \/ StopEnds(c)

(* The runtime polls the task, time passes, and what was killed dies. *)
SupFairness ==
  /\ WF_supVars(TaskSteps) /\ WF_supVars(SupTick)
  /\ WF_supVars("dying" \in {supTree.child, supTree.job} /\ ProcessesEnd)

-----------------------------------------------------------------------------
(* Properties *)

(* A status that confirms the cleanup, on which stop answers, is never     *)
(* published while a process is left (supervise_child).                    *)
ConfirmedMeansGone == Confirmed => Gone

(* A stop that began when the schedule the task last acted on was over is  *)
(* never left waiting on a task that sleeps after a failed cleanup: its    *)
(* schedule woke the task, or will (send_if_modified, schedule.changed).   *)
NoStopUnheard ==
  supTask.phase = "waiting" /\ ~supWatch.unread =>
    \A c \in Stops : supStops[c].step = "waiting" =>
      supTask.stop # NoSchedule /\ supStops[c].began < supTask.stop.deadline

(* A dropped collector leaves no process behind, whatever stops and failed *)
(* cleanups came before (Drop, the closed schedule channel).               *)
DropKills == (supHandle = "dropped") ~> Gone
=============================================================================
