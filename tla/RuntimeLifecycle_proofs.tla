----------------------- MODULE RuntimeLifecycle_proofs ------------------------
(***************************************************************************)
(* Proofs about RuntimeLifecycle, for any number of requests and sessions: *)
(* for any kinds of launch and every combination of faults, the typing of  *)
(* the state, the retention of process ownership, the order of termination *)
(* and final verdict, and that no request disturbs the session that        *)
(* replaced its own; where cleanups complete, the published status; and    *)
(* for standard sessions, that the journals live as RuntimeJournal says.   *)
(* And about BuildProvenance, which decides on their launches: a verified  *)
(* launch is of a DMB that was built from its inputs.                      *)
(***************************************************************************)
EXTENDS RuntimeLifecycle, BuildProvenance, TLAPS

(* The awaits a request passes while it holds the runtime mutex.            *)
MutexHeld ==
  \A t \in Request :
    pc[t] \in {"clearing", "cleared", "killing", "closing"} => rmutex = t

(* A launch gets past its cleanup only with nothing left to own.            *)
ClearedUnowned == \A t \in Request : pc[t] = "cleared" => containment = 0

(* The retained integrity session is not newer than the current log ...     *)
IntegrityBound == integrity <= outputLog

(* ... so the journal of a session still to come has no verdict.            *)
FreshJournals ==
  \A s \in Log : s > outputLog => journal[s].status \notin Terminal

(* The log of a server that launched nothing has no process tree.           *)
NoTreeZero == tree[0] \in {"none", "dead"}

Owned ==
  /\ OwnershipRetained
  /\ FinalizedAfterTermination
  /\ NoTreeZero
  /\ IntegrityBound
  /\ FreshJournals

Held == MutexHeld /\ ClearedUnowned

Safe == Owned /\ Held

IInv == TypeOK /\ Safe
-----------------------------------------------------------------------------
(* Typing of the helpers *)

(* Log 0 exists, and every session has a log.                               *)
LEMMA Logs == 0 \in Log /\ Session \subseteq Log
BY RuntimeConstants DEF Log, Session

(* An observation adds mutations and leaves the status alone.               *)
LEMMA ObservedJournal ==
  ASSUME TypeOK, NEW j \in Journal
  PROVE  Observed(j) \in Journal /\ Observed(j).status = j.status
<1>1. Mutations(j.baseline) \subseteq Mutation
  BY DEF Mutations, ChangeKind, Mutation
<1> QED
  BY <1>1 DEF Observed, Journal

(* A finalization ends in a verdict.                                        *)
LEMMA FinalizedJournal ==
  ASSUME TypeOK, NEW j \in Journal
  PROVE  Finalized(j) \in Journal /\ Finalized(j).status \in Terminal
<1>1. Observed(j) \in Journal
  BY ObservedJournal
<1>2. Verdict(Observed(j).events) \in Terminal
  BY DEF Verdict, Terminal
<1> QED
  BY <1>1, <1>2 DEF Finalized, Journal, Statuses

(* A new journal is active.                                                 *)
LEMMA OpenedJournalIsActive ==
  ASSUME TypeOK
  PROVE  OpenedJournal \in Journal /\ OpenedJournal.status = "active"
BY DEF TypeOK, JournalTypeOK, OpenedJournal, Journal, Statuses

(* A checkpoint keeps every status.                                         *)
LEMMA ObserveSessionType ==
  ASSUME TypeOK, ObserveSession
  PROVE  /\ journal' \in [Log -> Journal]
         /\ \A s \in Log : journal'[s].status = journal[s].status
BY ObservedJournal DEF ObserveSession, TypeOK, JournalTypeOK

(* The trees f and the current ones are still to be confirmed dead alike.   *)
SameOwnership(f) ==
  \A s \in Log : /\ f[s] \in {"alive", "dying"} <=> tree[s] \in {"alive", "dying"}
                 /\ f[s] \in {"none", "dead"} <=> tree[s] \in {"none", "dead"}

(* A termination request turns one live tree into a dying one.              *)
LEMMA TerminatedType ==
  ASSUME TypeOK, NEW s \in Log
  PROVE  /\ Terminated(s) \in [Log -> Trees]
         /\ SameOwnership(Terminated(s))
BY DEF Terminated, SameOwnership, TypeOK, SessionTypeOK, Trees

(* Dropping StartupOwnership terminates at most the tree of its own launch.  *)
LEMMA GuardDroppedType ==
  ASSUME TypeOK, NEW t \in Request
  PROVE  /\ GuardDropped(t) \in [Log -> Trees]
         /\ SameOwnership(GuardDropped(t))
<1>1. obs[t] \in Log
  BY DEF TypeOK, RequestTypeOK
<1> QED
  BY <1>1, TerminatedType
  DEF GuardDropped, SameOwnership, TypeOK, SessionTypeOK, Trees

(* is_game_running writes a typed handle, kind and running flag.             *)
LEMMA ProbeType ==
  ASSUME TypeOK, Probe
  PROVE  /\ child' \in Log
         /\ kind' \in Kinds \cup {None}
         /\ running' \in [Log -> BOOLEAN]
BY Logs DEF Probe, TypeOK, HandleTypeOK, SessionTypeOK

(* is_game_running terminates at most the retained containment's tree.       *)
LEMMA ProbedTreeType ==
  ASSUME TypeOK
  PROVE  /\ ProbedTree \in [Log -> Trees]
         /\ SameOwnership(ProbedTree)
<1>1. containment \in Log
  BY DEF TypeOK, HandleTypeOK
<1> QED
  BY <1>1, TerminatedType DEF ProbedTree, SameOwnership, TypeOK, SessionTypeOK, Trees

(* stop_game_process kills and reaps the child and requests termination.     *)
LEMMA KillType ==
  ASSUME TypeOK, Kill
  PROVE  /\ child' \in Log
         /\ proc' \in [Log -> {"none", "alive", "exited"}]
         /\ tree' \in [Log -> Trees]
         /\ SameOwnership(tree')
<1>1. containment \in Log
  BY DEF TypeOK, HandleTypeOK
<1>2. child' = 0 /\ tree' = Terminated(containment)
  BY DEF Kill
<1>3. proc' \in [Log -> {"none", "alive", "exited"}]
  BY DEF Kill, TypeOK, SessionTypeOK
<1> QED
  BY <1>1, <1>2, <1>3, TerminatedType, Logs

(* A request moves and its mutex guards go only with it.                    *)
Moved(t) ==
  /\ \A u \in Request \ {t} : pc'[u] = pc[u]
  /\ rmutex' = rmutex \/ (rmutex = t /\ rmutex' = None)

Calm == {"idle", "admitted", "settling", "awaiting", "unready", "takingDown",
         "publishing", "watching", "reporting"}

(* An answered or dropped request is idle and holds neither mutex.           *)
LEMMA ReturnType ==
  ASSUME TypeOK, NEW t \in Request, Return(t)
  PROVE  RequestTypeOK' /\ Moved(t) /\ pc'[t] \in Calm
<1>1. RequestTypeOK'
  BY Logs DEF TypeOK, RequestTypeOK, Return, Goto, Unlock, Operations, Labels, Reports
<1>2. Moved(t) /\ pc'[t] \in Calm
  BY DEF TypeOK, RequestTypeOK, Return, Goto, Unlock, Moved, Calm
<1> QED
  BY <1>1, <1>2

(* A failed launch answers, or enters the Tracy stop still under `lifecycle`. *)
LEMMA FailLaunchType ==
  ASSUME TypeOK, NEW t \in Request, FailLaunch(t)
  PROVE  RequestTypeOK' /\ Moved(t) /\ pc'[t] \in Calm
<1>1. CASE op[t] = "tracy"
  <2>1. RequestTypeOK'
    <3>1. /\ op' = [op EXCEPT ![t] = "tracyStop"] /\ pc' = [pc EXCEPT ![t] = "admitted"]
          /\ obs' = [obs EXCEPT ![t] = 0] /\ armed' = [armed EXCEPT ![t] = FALSE]
          /\ UNCHANGED <<report, lifecycle>> /\ rmutex' \in {rmutex, None}
      BY <1>1 DEF FailLaunch, Goto
    <3>2. op' \in [Request -> Operations] /\ pc' \in [Request -> Labels]
      BY <3>1 DEF TypeOK, RequestTypeOK, Operations, Labels
    <3>3. obs' \in [Request -> Log] /\ armed' \in [Request -> BOOLEAN]
      BY <3>1, Logs DEF TypeOK, RequestTypeOK
    <3> QED
      BY <3>1, <3>2, <3>3 DEF TypeOK, RequestTypeOK
  <2>2. Moved(t) /\ pc'[t] \in Calm
    BY <1>1 DEF TypeOK, RequestTypeOK, FailLaunch, Goto, Moved, Calm
  <2> QED
    BY <2>1, <2>2
<1>2. CASE op[t] # "tracy"
  BY <1>2, ReturnType DEF FailLaunch
<1> QED
  BY <1>1, <1>2

(* The end of a handler leaves the awaits that are made under the mutex.     *)
LEMMA FinishType ==
  ASSUME TypeOK, NEW t \in Request, Finish(t)
  PROVE  RequestTypeOK' /\ Moved(t) /\ pc'[t] \in Calm
BY ReturnType, FailLaunchType DEF Finish

(* A handler that takes the runtime mutex for a cleanup is its only holder.  *)
LEMMA EnterCleanupType ==
  ASSUME TypeOK, NEW t \in Request, NEW label \in Labels, EnterCleanup(t, label)
  PROVE  /\ child' \in Log
         /\ kind' \in Kinds \cup {None}
         /\ running' \in [Log -> BOOLEAN]
         /\ tree' \in [Log -> Trees]
         /\ SameOwnership(tree')
         /\ rmutex' = t
         /\ pc' = [pc EXCEPT ![t] = label]
<1>1. containment \in Log
  BY DEF TypeOK, HandleTypeOK
<1>2. Probe /\ tree' = Terminated(containment) /\ rmutex' = t
      /\ pc' = [pc EXCEPT ![t] = label]
  BY DEF EnterCleanup, Goto
<1> QED
  BY <1>1, <1>2, ProbeType, TerminatedType

(* A spawn replaces the log and opens the journal of a standard session.     *)
LEMMA SpawnedType ==
  ASSUME TypeOK, NEW t \in Request, NEW s \in Session, Spawned(t, s)
  PROVE  /\ child' = s /\ containment' = s /\ outputLog' = s /\ s > outputLog
         /\ kind' \in Kinds
         /\ running' \in [Log -> BOOLEAN] /\ drained' \in [Log -> BOOLEAN]
         /\ proc' \in [Log -> {"none", "alive", "exited"}]
         /\ summary' \in Statuses /\ integrity' \in {integrity, s}
         /\ journal' \in [Log -> Journal]
         /\ \A x \in Log : /\ x # s => journal'[x] = journal[x]
                           /\ journal'[x].status \in {journal[x].status, "active"}
<1>1. s \in Log /\ outputLog \in Int
  BY Logs, RuntimeConstants DEF TypeOK, HandleTypeOK, Log
<1>2. child' = s /\ containment' = s /\ outputLog' = s /\ s > outputLog
  BY <1>1 DEF Spawned, ReplaceLog
<1>3. /\ kind' \in Kinds
      /\ running' \in [Log -> BOOLEAN] /\ drained' \in [Log -> BOOLEAN]
      /\ proc' \in [Log -> {"none", "alive", "exited"}]
  BY <1>1 DEF Spawned, Kinds, TypeOK, SessionTypeOK, HandleTypeOK
<1>4. summary' \in Statuses /\ integrity' \in {integrity, s}
  BY DEF Spawned, Statuses
<1>5. CASE op[t] = "run"
  <2>1. journal' = [journal EXCEPT ![s] = OpenedJournal]
    BY <1>5 DEF Spawned
  <2> QED
    BY <1>1, <1>2, <1>3, <1>4, <2>1, OpenedJournalIsActive DEF TypeOK, JournalTypeOK
<1>6. CASE op[t] # "run"
  <2>1. journal' = journal
    BY <1>6 DEF Spawned
  <2> QED
    BY <1>2, <1>3, <1>4, <2>1 DEF TypeOK, JournalTypeOK
<1> QED
  BY <1>5, <1>6

-----------------------------------------------------------------------------
(* Every step keeps the types.                                              *)
LEMMA TypeStep == TypeOK /\ [Next]_vars => TypeOK'
<1> SUFFICES ASSUME TypeOK, [Next]_vars PROVE TypeOK'
  OBVIOUS
<1>1. ASSUME NEW t \in Request, Arriving(t) PROVE TypeOK'
  <2>1. CASE BeginRun(t)
    BY <2>1
    DEF BeginRun, Begin, Goto, handleVars, watchVars, logVars, journalVars,
        TypeOK, RequestTypeOK, HandleTypeOK, SessionTypeOK, JournalTypeOK,
        Operations, Labels
  <2>2. CASE BeginTracy(t)
    BY <2>2
    DEF BeginTracy, Begin, Goto, handleVars, watchVars, logVars, journalVars,
        TypeOK, RequestTypeOK, HandleTypeOK, SessionTypeOK, JournalTypeOK,
        Operations, Labels
  <2>3. CASE BeginStop(t)
    BY <2>3
    DEF BeginStop, Begin, Goto, handleVars, watchVars, logVars, journalVars,
        TypeOK, RequestTypeOK, HandleTypeOK, SessionTypeOK, JournalTypeOK,
        Operations, Labels
  <2>4. CASE BeginTracyStop(t)
    BY <2>4
    DEF BeginTracyStop, Begin, Goto, handleVars, watchVars, logVars,
        journalVars, TypeOK, RequestTypeOK, HandleTypeOK, SessionTypeOK,
        JournalTypeOK, Operations, Labels
  <2>5. CASE StatusRunning(t)
    BY <2>5, ObserveSessionType
    DEF StatusRunning, requestVars, handleVars, watchVars, logVars, TypeOK,
        RequestTypeOK, HandleTypeOK, SessionTypeOK, JournalTypeOK
  <2>6. CASE StatusExited(t)
    BY <2>6, EnterCleanupType
    DEF StatusExited, watchVars, journalVars, TypeOK, RequestTypeOK,
        HandleTypeOK, SessionTypeOK, JournalTypeOK, Operations, Labels
  <2>7. CASE BeginWait(t)
    BY <2>7, ProbeType, ProbedTreeType, Logs
    DEF BeginWait, watchVars, Goto, journalVars, TypeOK, RequestTypeOK,
        HandleTypeOK, SessionTypeOK, JournalTypeOK, Operations, Labels
  <2> QED
    BY <1>1, <2>1, <2>2, <2>3, <2>4, <2>5, <2>6, <2>7 DEF Arriving
<1>2. ASSUME NEW t \in Request, Launching(t) PROVE TypeOK'
  <2>1. CASE RunRefused(t)
    BY <2>1, ReturnType
    DEF RunRefused, handleVars, watchVars, logVars, journalVars, TypeOK,
        RequestTypeOK, HandleTypeOK, SessionTypeOK, JournalTypeOK
  <2>2. CASE RunClears(t)
    BY <2>2, EnterCleanupType
    DEF RunClears, watchVars, journalVars, TypeOK, RequestTypeOK, HandleTypeOK,
        SessionTypeOK, JournalTypeOK, Labels
  <2>3. CASE RunRejected(t)
    BY <2>3, FailLaunchType
    DEF RunRejected, handleVars, watchVars, logVars, journalVars, TypeOK,
        RequestTypeOK, HandleTypeOK, SessionTypeOK, JournalTypeOK
  <2>4. CASE RunJournalFails(t)
    BY <2>4, ReturnType, Logs
    DEF RunJournalFails, ReplaceLog, OldLogDrained, TypeOK, RequestTypeOK,
        HandleTypeOK, SessionTypeOK, JournalTypeOK, Statuses, Terminal, Journal
  <2>5. CASE RunSpawnFails(t)
    <3>1. PICK s \in Session : ReplaceLog(s) /\ SpawnFailed(t, s)
      BY <2>5 DEF RunSpawnFails
    <3> DEFINE opened == IF op[t] = "run" THEN [journal EXCEPT ![s] = OpenedJournal]
                                          ELSE journal
               j == IF op[t] = "run" THEN s ELSE integrity
    <3>2. opened \in [Log -> Journal] /\ j \in Log /\ s \in Log
      BY Logs, OpenedJournalIsActive DEF TypeOK, JournalTypeOK
    <3>3. opened[j] \in Journal
      BY <3>2
    <3>4. Finalized(opened[j]) \in Journal /\ Observed(opened[j]) \in Journal
      BY <3>3, FinalizedJournal, ObservedJournal
    <3>5. journal' \in [Log -> Journal] /\ summary' \in Statuses /\ integrity' \in Log
      <4>1. integrity' = j
        BY <3>1 DEF SpawnFailed
      <4>2. \E f \in {Finalized(opened[j]), Observed(opened[j]), opened[j]} :
              journal' = [opened EXCEPT ![j] = f]
        BY <3>1, <3>2 DEF SpawnFailed
      <4>3. journal' \in [Log -> Journal]
        BY <3>2, <3>3, <3>4, <4>2
      <4>4. summary' = journal'[j].status \/ summary' = "none"
        BY <3>1 DEF SpawnFailed
      <4> QED
        BY <3>2, <4>1, <4>3, <4>4 DEF Journal, Statuses
    <3>6. RequestTypeOK'
      BY <2>5, FailLaunchType DEF RunSpawnFails
    <3>7. outputLog' \in Log /\ drained' \in [Log -> BOOLEAN]
      BY <2>5, <3>1, <3>2
      DEF RunSpawnFails, ReplaceLog, OldLogDrained, TypeOK, SessionTypeOK
    <3> QED
      BY <2>5, <3>5, <3>6, <3>7, Logs
      DEF RunSpawnFails, TypeOK, HandleTypeOK, SessionTypeOK, JournalTypeOK
  <2>6. CASE RunLaunched(t)
    <3>1. PICK s \in Session : /\ Spawned(t, s)
                              /\ tree' = [tree EXCEPT ![s] = "alive"]
                              /\ monitor' \in {s, monitor}
                              /\ observer' = s
                              /\ obs' = [obs EXCEPT ![t] = s]
      BY <2>6 DEF RunLaunched
    <3>2. s \in Log
      BY Logs
    <3>3. armed' \in [Request -> BOOLEAN] /\ grace' \in BOOLEAN
      BY <2>6 DEF RunLaunched, TypeOK, RequestTypeOK
    <3>4. RequestTypeOK' /\ HandleTypeOK'
      <4>1. RequestTypeOK'
        BY <2>6, <3>1, <3>2, <3>3 DEF RunLaunched, Goto, TypeOK, RequestTypeOK, Labels
      <4>2. HandleTypeOK'
        BY <3>1, <3>2, <3>3, SpawnedType DEF HandleTypeOK
      <4> QED
        BY <4>1, <4>2
    <3>5. SessionTypeOK'
      BY <2>6, <3>1, <3>2, SpawnedType DEF RunLaunched, TypeOK, SessionTypeOK, Trees
    <3>6. JournalTypeOK'
      BY <2>6, <3>1, <3>2, SpawnedType DEF RunLaunched, TypeOK, JournalTypeOK
    <3> QED
      BY <3>4, <3>5, <3>6 DEF TypeOK
  <2>7. CASE RunProcessIdFails(t)
    <3>1. PICK s \in Session : Spawned(t, s) /\ tree' = [tree EXCEPT ![s] = "dying"]
      BY <2>7 DEF RunProcessIdFails
    <3>2. s \in Log
      BY Logs
    <3>3. RequestTypeOK'
      BY <2>7, ReturnType DEF RunProcessIdFails
    <3>4. HandleTypeOK'
      BY <2>7, <3>1, <3>2, SpawnedType, Logs DEF RunProcessIdFails, HandleTypeOK
    <3>5. SessionTypeOK'
      BY <2>7, <3>1, <3>2, SpawnedType
      DEF RunProcessIdFails, TypeOK, SessionTypeOK, Trees
    <3>6. JournalTypeOK'
      BY <2>7, <3>1, <3>2, SpawnedType DEF RunProcessIdFails, TypeOK, JournalTypeOK
    <3> QED
      BY <3>3, <3>4, <3>5, <3>6 DEF TypeOK
  <2>8. CASE LaunchReplaced(t)
    BY <2>8, FailLaunchType, GuardDroppedType
    DEF LaunchReplaced, handleVars, watchVars, logVars, journalVars, TypeOK,
        RequestTypeOK, HandleTypeOK, SessionTypeOK, JournalTypeOK
  <2>9. CASE LaunchSettled(t)
    BY <2>9
    DEF LaunchSettled, Goto, handleVars, watchVars, logVars, journalVars,
        TypeOK, RequestTypeOK, HandleTypeOK, SessionTypeOK, JournalTypeOK,
        Labels
  <2>10. CASE LaunchExitedEarly(t)
    BY <2>10, EnterCleanupType
    DEF LaunchExitedEarly, watchVars, journalVars, TypeOK, RequestTypeOK,
        HandleTypeOK, SessionTypeOK, JournalTypeOK, Labels
  <2>11. CASE ReadinessResolved(t)
    BY <2>11
    DEF ReadinessResolved, Goto, handleVars, watchVars, logVars, journalVars,
        TypeOK, RequestTypeOK, HandleTypeOK, SessionTypeOK, JournalTypeOK,
        Labels
  <2>12. CASE UnreadyAdmitted(t)
    BY <2>12
    DEF UnreadyAdmitted, Goto, handleVars, watchVars, logVars, journalVars,
        TypeOK, RequestTypeOK, HandleTypeOK, SessionTypeOK, JournalTypeOK,
        Labels
  <2>13. CASE UnreadyTakedown(t)
    BY <2>13, KillType
    DEF UnreadyTakedown, Goto, watchVars, logVars, journalVars, TypeOK,
        RequestTypeOK, HandleTypeOK, SessionTypeOK, JournalTypeOK, Labels
  <2>14. CASE LaunchPublished(t)
    BY <2>14, ObserveSessionType, ReturnType, FailLaunchType, Logs
    DEF LaunchPublished, handleVars, watchVars, logVars, TypeOK, RequestTypeOK,
        HandleTypeOK, SessionTypeOK, JournalTypeOK, Statuses, Terminal, Journal
  <2>15. CASE LaunchPublishFails(t)
    BY <2>15, ObserveSessionType, FailLaunchType, GuardDroppedType
    DEF LaunchPublishFails, handleVars, watchVars, logVars, TypeOK,
        RequestTypeOK, HandleTypeOK, SessionTypeOK, JournalTypeOK
  <2>16. CASE LaunchEnded(t)
    BY <2>16, ProbeType, FailLaunchType, TerminatedType
    DEF LaunchEnded, watchVars, journalVars, TypeOK, RequestTypeOK,
        HandleTypeOK, SessionTypeOK, JournalTypeOK
  <2> QED
    BY <1>2, <2>1, <2>2, <2>3, <2>4, <2>5, <2>6, <2>7, <2>8, <2>9, <2>10,
       <2>11, <2>12, <2>13, <2>14, <2>15, <2>16 DEF Launching
<1>3. ASSUME NEW t \in Request, Closing(t) PROVE TypeOK'
  <2>1. CASE KillConfirmed(t)
    BY <2>1, ReturnType, Logs
    DEF KillConfirmed, Goto, watchVars, journalVars, TypeOK, RequestTypeOK,
        HandleTypeOK, SessionTypeOK, JournalTypeOK, Labels, Kinds
  <2>2. CASE Finalize(t)
    <3>1. RequestTypeOK'
      <4>1. CASE pc[t] = "clearing"
        BY <2>2, <4>1 DEF Finalize, Goto, TypeOK, RequestTypeOK, Labels
      <4>2. CASE pc[t] # "clearing"
        BY <2>2, <4>2, FinishType DEF Finalize
      <4> QED
        BY <4>1, <4>2
    <3>2. HandleTypeOK'
      BY <2>2, Logs DEF Finalize, watchVars, TypeOK, HandleTypeOK
    <3>3. SessionTypeOK'
      BY <2>2, GuardDroppedType DEF Finalize, logVars, TypeOK, SessionTypeOK
    <3>4. JournalTypeOK'
      <4>1. journal' \in [Log -> Journal]
        BY <2>2, FinalizedJournal DEF Finalize, TypeOK, JournalTypeOK
      <4>2. summary' \in Statuses
        BY <2>2, <4>1 DEF Finalize, TypeOK, JournalTypeOK, Journal
      <4> QED
        BY <2>2, <4>1, <4>2, Logs DEF Finalize, TypeOK, JournalTypeOK
    <3> QED
      BY <3>1, <3>2, <3>3, <3>4 DEF TypeOK
  <2>3. CASE FinalizeFails(t)
    BY <2>3, ObserveSessionType, FinishType, ReturnType, GuardDroppedType, Logs
    DEF FinalizeFails, Terminal, watchVars, logVars, TypeOK, RequestTypeOK,
        HandleTypeOK, SessionTypeOK, JournalTypeOK
  <2>4. CASE CleanupTimesOut(t)
    BY <2>4, FinishType, GuardDroppedType
    DEF CleanupTimesOut, handleVars, watchVars, logVars, journalVars, TypeOK,
        RequestTypeOK, HandleTypeOK, SessionTypeOK, JournalTypeOK
  <2>5. CASE TracyStopConfirmed(t)
    BY <2>5, ReturnType, Logs
    DEF TracyStopConfirmed, watchVars, logVars, journalVars, TypeOK,
        RequestTypeOK, HandleTypeOK, SessionTypeOK, JournalTypeOK
  <2> QED
    BY <1>3, <2>1, <2>2, <2>3, <2>4, <2>5 DEF Closing
<1>4. ASSUME NEW t \in Request, Stopping(t) PROVE TypeOK'
  <2>1. CASE StopIdle(t)
    BY <2>1, ReturnType, Logs
    DEF StopIdle, handleVars, watchVars, logVars, journalVars, TypeOK,
        RequestTypeOK, HandleTypeOK, SessionTypeOK, JournalTypeOK
  <2>2. CASE StopExited(t)
    BY <2>2, EnterCleanupType
    DEF StopExited, watchVars, journalVars, TypeOK, RequestTypeOK,
        HandleTypeOK, SessionTypeOK, JournalTypeOK, Labels
  <2>3. CASE StopLive(t)
    BY <2>3, KillType
    DEF StopLive, Goto, watchVars, logVars, journalVars, TypeOK, RequestTypeOK,
        HandleTypeOK, SessionTypeOK, JournalTypeOK, Labels
  <2>4. CASE TracyStopRefused(t)
    BY <2>4, ReturnType
    DEF TracyStopRefused, handleVars, watchVars, logVars, journalVars, TypeOK,
        RequestTypeOK, HandleTypeOK, SessionTypeOK, JournalTypeOK
  <2>5. CASE TracyStopExited(t)
    BY <2>5, EnterCleanupType
    DEF TracyStopExited, watchVars, journalVars, TypeOK, RequestTypeOK,
        HandleTypeOK, SessionTypeOK, JournalTypeOK, Labels
  <2> QED
    BY <1>4, <2>1, <2>2, <2>3, <2>4, <2>5 DEF Stopping
<1>5. ASSUME NEW t \in Request, Waiting(t) PROVE TypeOK'
  <2>1. CASE WaitResolved(t)
    BY <2>1
    DEF WaitResolved, Goto, handleVars, watchVars, logVars, journalVars,
        TypeOK, RequestTypeOK, HandleTypeOK, SessionTypeOK, JournalTypeOK,
        Labels, Reports
  <2>2. CASE ReportReplaced(t)
    BY <2>2, ReturnType
    DEF ReportReplaced, handleVars, watchVars, logVars, journalVars, TypeOK,
        RequestTypeOK, HandleTypeOK, SessionTypeOK, JournalTypeOK
  <2>3. CASE ReportRunning(t)
    BY <2>3, ObserveSessionType, ReturnType
    DEF ReportRunning, handleVars, watchVars, logVars, TypeOK, RequestTypeOK,
        HandleTypeOK, SessionTypeOK, JournalTypeOK
  <2>4. CASE ReportExited(t)
    BY <2>4, EnterCleanupType
    DEF ReportExited, watchVars, journalVars, TypeOK, RequestTypeOK,
        HandleTypeOK, SessionTypeOK, JournalTypeOK, Labels
  <2> QED
    BY <1>5, <2>1, <2>2, <2>3, <2>4 DEF Waiting
<1>6. ASSUME NEW t \in Request, Cancel(t) PROVE TypeOK'
  BY <1>6, ReturnType, GuardDroppedType
  DEF Cancel, handleVars, watchVars, logVars, journalVars, TypeOK,
      RequestTypeOK, HandleTypeOK, SessionTypeOK, JournalTypeOK
<1>7. CASE Refresh
  BY <1>7, ProbeType, ProbedTreeType
  DEF Refresh, requestVars, watchVars, journalVars, TypeOK, RequestTypeOK,
      HandleTypeOK, SessionTypeOK, JournalTypeOK
<1>8. CASE MonitorTick
  BY <1>8, ObservedJournal
  DEF MonitorTick, requestVars, handleVars, watchVars, logVars, TypeOK,
      RequestTypeOK, HandleTypeOK, SessionTypeOK, JournalTypeOK
<1>9. CASE ObserverSeesExit
  BY <1>9, ProbeType, ProbedTreeType
  DEF ObserverSeesExit, requestVars, journalVars, TypeOK, RequestTypeOK,
      HandleTypeOK, SessionTypeOK, JournalTypeOK
<1>10. CASE ObserverDrains
  BY <1>10, Logs
  DEF ObserverDrains, requestVars, handleVars, journalVars, TypeOK,
      RequestTypeOK, HandleTypeOK, SessionTypeOK, JournalTypeOK
<1>11. ASSUME NEW s \in Session, ChildExits(s) PROVE TypeOK'
  BY <1>11, Logs
  DEF ChildExits, requestVars, handleVars, watchVars, logVars, journalVars,
      TypeOK, RequestTypeOK, HandleTypeOK, SessionTypeOK, JournalTypeOK
<1>12. ASSUME NEW s \in Session, TreeDies(s) PROVE TypeOK'
  BY <1>12, Logs
  DEF TreeDies, requestVars, handleVars, watchVars, logVars, journalVars,
      TypeOK, RequestTypeOK, HandleTypeOK, SessionTypeOK, JournalTypeOK, Trees
<1>13. ASSUME NEW s \in Session, Emit(s) PROVE TypeOK'
  BY <1>13, Logs
  DEF Emit, requestVars, handleVars, watchVars, journalVars, TypeOK,
      RequestTypeOK, HandleTypeOK, SessionTypeOK, JournalTypeOK
<1>14. ASSUME NEW p \in Path, NEW c \in Content, Edit(p, c) PROVE TypeOK'
  BY <1>14
  DEF Edit, requestVars, handleVars, watchVars, logVars, journalVars, TypeOK,
      RequestTypeOK, HandleTypeOK, SessionTypeOK, JournalTypeOK
<1>15. CASE UNCHANGED vars
  BY <1>15
  DEF TypeOK, RequestTypeOK, HandleTypeOK, SessionTypeOK, JournalTypeOK, vars,
      requestVars, handleVars, watchVars, logVars, journalVars
<1>16. CASE Background
  BY <1>16, <1>8, <1>9, <1>10 DEF Background
<1>17. CASE Environment
  BY <1>17, <1>11, <1>12, <1>13, <1>14 DEF Environment
<1>18. CASE \E t \in Request : Arriving(t) \/ Progress(t) \/ Cancel(t)
  BY <1>18, <1>1, <1>2, <1>3, <1>4, <1>5, <1>6 DEF Progress
<1> QED
  BY <1>7, <1>15, <1>16, <1>17, <1>18 DEF Next

(* The initial states are typed.                                             *)
LEMMA InitTypes == Init => TypeOK
<1> SUFFICES ASSUME Init PROVE TypeOK
  OBVIOUS
<1>1. RequestTypeOK
  BY Logs DEF Init, RequestTypeOK, Operations, Labels, Reports
<1>2. HandleTypeOK
  BY Logs DEF Init, HandleTypeOK
<1>3. SessionTypeOK
  BY DEF Init, SessionTypeOK, Trees
<1>4. JournalTypeOK
  <2>1. NoJournal \in Journal
    BY RuntimeConstants DEF NoJournal, Journal, Statuses
  <2> QED
    BY <2>1, Logs DEF Init, JournalTypeOK, Statuses
<1> QED
  BY <1>1, <1>2, <1>3, <1>4 DEF TypeOK

(* Every reachable state has its types.                                      *)
THEOREM Typing == Spec => []TypeOK
BY InitTypes, TypeStep, PTL DEF Spec

-----------------------------------------------------------------------------
(* Ownership and the runtime mutex                                           *)

(* Nothing that ownership depends on is touched.                             *)
KeptOwnership ==
  /\ containment' = containment /\ outputLog' = outputLog /\ integrity' = integrity
  /\ SameOwnership(tree')
  /\ \A s \in Log : journal'[s].status = journal[s].status

(* A step that changes no journal status, drops no containment and revives   *)
(* no tree keeps every ownership fact.                                        *)
LEMMA OwnershipKept ==
  ASSUME TypeOK, Owned, KeptOwnership
  PROVE  Owned'
BY Logs DEF Owned, KeptOwnership, SameOwnership, OwnershipRetained, IntegrityBound,
            FinalizedAfterTermination, FreshJournals, NoTreeZero

(* Nothing is left to own: every tree is dead or never existed.              *)
AllDead == \A s \in Log : tree[s] \in {"none", "dead"}

(* After a confirmed cleanup no process of any session is left, because the  *)
(* only tree that could be left is the one the containment reports on.       *)
LEMMA SettledMeansDead ==
  ASSUME TypeOK, Owned, Settled
  PROVE  AllDead
<1> SUFFICES ASSUME NEW s \in Log, tree[s] \notin {"none", "dead"} PROVE FALSE
  BY DEF AllDead
<1>1. tree[s] \in {"alive", "dying"}
  BY DEF TypeOK, SessionTypeOK, Trees
<1>2. containment = s
  BY <1>1 DEF Owned, OwnershipRetained
<1>3. s # 0
  BY <1>1 DEF Owned, NoTreeZero
<1> QED
  BY <1>1, <1>2, <1>3 DEF Settled

(* With every tree dead the containment may be dropped and the retained      *)
(* session may receive its verdict.                                          *)
LEMMA OwnershipReleased ==
  ASSUME TypeOK, Owned, AllDead, containment' = 0, SameOwnership(tree'),
         integrity' = integrity, outputLog' = outputLog,
         \A s \in Log : s # integrity => journal'[s].status = journal[s].status
  PROVE  Owned'
<1>1. \A s \in Log : tree'[s] \in {"none", "dead"}
  BY DEF AllDead, SameOwnership
<1>2. OwnershipRetained' /\ FinalizedAfterTermination' /\ NoTreeZero'
  BY <1>1, Logs DEF OwnershipRetained, FinalizedAfterTermination, NoTreeZero
<1>3. IntegrityBound'
  BY DEF Owned, IntegrityBound
<1>4. \A s \in Log : s > outputLog => s # integrity
  BY RuntimeConstants
  DEF Owned, IntegrityBound, TypeOK, HandleTypeOK, JournalTypeOK, Log
<1>5. FreshJournals'
  BY <1>4 DEF Owned, FreshJournals
<1> QED
  BY <1>2, <1>3, <1>5 DEF Owned

(* A request that leaves the awaits under the mutex frees the mutex at most. *)
LEMMA HeldAfterMove ==
  ASSUME TypeOK, NEW t \in Request, Held, Moved(t), pc'[t] \in Calm,
         containment' \in {containment, 0}
  PROVE  Held'
BY DEF Held, MutexHeld, ClearedUnowned, Moved, Calm

(* A request that finds the mutex free is the only one under it.             *)
LEMMA HeldAfterEntry ==
  ASSUME TypeOK, NEW t \in Request, Held, rmutex = None, rmutex' = t,
         NEW label \in {"clearing", "closing", "killing"},
         pc' = [pc EXCEPT ![t] = label]
  PROVE  Held'
<1>1. \A u \in Request : pc[u] \notin {"clearing", "cleared", "killing", "closing"}
  BY RuntimeConstants DEF Held, MutexHeld
<1> QED
  BY <1>1 DEF Held, MutexHeld, ClearedUnowned, TypeOK, RequestTypeOK

(* A launch after a confirmed cleanup owns the one live tree.                *)
LEMMA OwnershipSpawned ==
  ASSUME TypeOK, Owned, AllDead, NEW t \in Request, NEW s \in Session, Spawned(t, s),
         NEW state \in {"alive", "dying"}, tree' = [tree EXCEPT ![s] = state]
  PROVE  Owned'
<1>1. s \in Log /\ s \in Int /\ s # 0 /\ outputLog \in Int /\ integrity \in Int
  BY Logs, RuntimeConstants DEF TypeOK, HandleTypeOK, JournalTypeOK, Log, Session
<1>2. \A x \in Log : x # s => tree'[x] \in {"none", "dead"}
  BY <1>1 DEF AllDead, TypeOK, SessionTypeOK
<1>3. containment' = s /\ outputLog' = s /\ s > outputLog /\ integrity' \in {integrity, s}
  BY SpawnedType
<1>4. OwnershipRetained' /\ NoTreeZero'
  BY <1>1, <1>2, <1>3, Logs DEF OwnershipRetained, NoTreeZero
<1>5. IntegrityBound'
  BY <1>1, <1>3 DEF Owned, IntegrityBound
<1>6. journal'[s].status \notin Terminal
  BY <1>1, <1>3, SpawnedType DEF Owned, FreshJournals, Terminal
<1>7. FinalizedAfterTermination'
  BY <1>2, <1>6 DEF FinalizedAfterTermination
<1>8. FreshJournals'
  BY <1>1, <1>3, SpawnedType, RuntimeConstants DEF Owned, FreshJournals, Log
<1> QED
  BY <1>4, <1>5, <1>7, <1>8 DEF Owned

-----------------------------------------------------------------------------
(* The inductive step                                                        *)

(* Every step keeps ownership and the discipline of the runtime mutex.       *)
LEMMA SafeStep == TypeOK /\ Safe /\ [Next]_vars => Safe'
<1> SUFFICES ASSUME TypeOK, Owned, Held, [Next]_vars PROVE Owned' /\ Held'
  BY DEF Safe
<1>0. TypeOK'
  BY TypeStep
<1>1. ASSUME NEW t \in Request, Arriving(t) PROVE Owned' /\ Held'
  <2>1. CASE BeginRun(t)
    <3>1. Owned'
      BY <2>1, OwnershipKept
      DEF BeginRun, handleVars, watchVars, logVars, journalVars, Begin,
          KeptOwnership, SameOwnership, TypeOK, HandleTypeOK
    <3>2. Held'
      BY <2>1, HeldAfterMove
      DEF BeginRun, Begin, Goto, handleVars, watchVars, logVars, journalVars,
          Moved, Calm, TypeOK, RequestTypeOK
    <3> QED
      BY <3>1, <3>2
  <2>2. CASE BeginTracy(t)
    <3>1. Owned'
      BY <2>2, OwnershipKept
      DEF BeginTracy, handleVars, watchVars, logVars, journalVars, Begin,
          KeptOwnership, SameOwnership, TypeOK, HandleTypeOK
    <3>2. Held'
      BY <2>2, HeldAfterMove
      DEF BeginTracy, Begin, Goto, handleVars, watchVars, logVars, journalVars,
          Moved, Calm, TypeOK, RequestTypeOK
    <3> QED
      BY <3>1, <3>2
  <2>3. CASE BeginStop(t)
    <3>1. Owned'
      BY <2>3, OwnershipKept
      DEF BeginStop, handleVars, watchVars, logVars, journalVars, Begin,
          KeptOwnership, SameOwnership, TypeOK, HandleTypeOK
    <3>2. Held'
      BY <2>3, HeldAfterMove
      DEF BeginStop, Begin, Goto, handleVars, watchVars, logVars, journalVars,
          Moved, Calm, TypeOK, RequestTypeOK
    <3> QED
      BY <3>1, <3>2
  <2>4. CASE BeginTracyStop(t)
    <3>1. Owned'
      BY <2>4, OwnershipKept
      DEF BeginTracyStop, handleVars, watchVars, logVars, journalVars, Begin,
          KeptOwnership, SameOwnership, TypeOK, HandleTypeOK
    <3>2. Held'
      BY <2>4, HeldAfterMove
      DEF BeginTracyStop, Begin, Goto, handleVars, watchVars, logVars,
          journalVars, Moved, Calm, TypeOK, RequestTypeOK
    <3> QED
      BY <3>1, <3>2
  <2>5. CASE StatusRunning(t)
    <3>1. Owned'
      BY <2>5, ObserveSessionType, OwnershipKept
      DEF StatusRunning, requestVars, handleVars, watchVars, logVars,
          KeptOwnership, SameOwnership, TypeOK, HandleTypeOK
    <3>2. Held'
      BY <2>5
      DEF StatusRunning, requestVars, handleVars, watchVars, logVars, Held,
          MutexHeld, ClearedUnowned
    <3> QED
      BY <3>1, <3>2
  <2>6. CASE StatusExited(t)
    <3>1. Owned'
      BY <2>6, EnterCleanupType, OwnershipKept
      DEF StatusExited, watchVars, journalVars, KeptOwnership, SameOwnership,
          TypeOK, HandleTypeOK, Labels
    <3>2. Held'
      BY <2>6, EnterCleanupType, HeldAfterEntry
      DEF StatusExited, watchVars, journalVars, Labels
    <3> QED
      BY <3>1, <3>2
  <2>7. CASE BeginWait(t)
    <3>1. Owned'
      BY <2>7, ProbedTreeType, OwnershipKept
      DEF BeginWait, watchVars, journalVars, KeptOwnership, SameOwnership,
          TypeOK, HandleTypeOK
    <3>2. Held'
      BY <2>7, HeldAfterMove
      DEF BeginWait, watchVars, Goto, journalVars, Moved, Calm, TypeOK,
          RequestTypeOK
    <3> QED
      BY <3>1, <3>2
  <2> QED
    BY <1>1, <2>1, <2>2, <2>3, <2>4, <2>5, <2>6, <2>7 DEF Arriving
<1>2. ASSUME NEW t \in Request, Launching(t) PROVE Owned' /\ Held'
  <2>0. pc[t] = "cleared" => AllDead /\ \A u \in Request \ {t} :
               pc[u] \notin {"clearing", "cleared", "killing", "closing"}
    <3>1. pc[t] = "cleared" => Settled
      BY DEF Held, ClearedUnowned, Settled
    <3> QED
      BY <3>1, SettledMeansDead DEF Held, MutexHeld
  <2>1. CASE RunRefused(t)
    <3>1. Owned'
      BY <2>1, OwnershipKept
      DEF RunRefused, handleVars, watchVars, logVars, journalVars,
          KeptOwnership, SameOwnership, TypeOK, HandleTypeOK
    <3>2. Held'
      BY <2>1, ReturnType, HeldAfterMove
      DEF RunRefused, handleVars, watchVars, logVars, journalVars
    <3> QED
      BY <3>1, <3>2
  <2>2. CASE RunClears(t)
    <3>1. Owned'
      BY <2>2, EnterCleanupType, OwnershipKept
      DEF RunClears, watchVars, journalVars, KeptOwnership, SameOwnership,
          TypeOK, HandleTypeOK, Labels
    <3>2. Held'
      BY <2>2, EnterCleanupType, HeldAfterEntry
      DEF RunClears, watchVars, journalVars, Labels
    <3> QED
      BY <3>1, <3>2
  <2>3. CASE RunRejected(t)
    <3>1. Owned'
      BY <2>3, OwnershipKept
      DEF RunRejected, handleVars, watchVars, logVars, journalVars,
          KeptOwnership, SameOwnership, TypeOK, HandleTypeOK
    <3>2. Held'
      BY <2>3, FailLaunchType, HeldAfterMove
      DEF RunRejected, handleVars, watchVars, logVars, journalVars
    <3> QED
      BY <3>1, <3>2
  <2>4. CASE RunJournalFails(t)
    <3>1. outputLog' > outputLog /\ outputLog' \in Int
      BY <2>4, RuntimeConstants
      DEF RunJournalFails, ReplaceLog, TypeOK, HandleTypeOK, Log
    <3>2. /\ tree' = tree /\ journal' = journal
          /\ integrity' = integrity /\ containment' = containment
      BY <2>4 DEF RunJournalFails
    <3>3. integrity \in Int /\ outputLog \in Int /\ Log \subseteq Int
      BY RuntimeConstants DEF TypeOK, HandleTypeOK, JournalTypeOK, Log
    <3>4. IntegrityBound' /\ FreshJournals'
      BY <3>1, <3>2, <3>3 DEF Owned, IntegrityBound, FreshJournals
    <3>5. Owned'
      BY <3>2, <3>4
      DEF Owned, OwnershipRetained, FinalizedAfterTermination, NoTreeZero
    <3>6. Held'
      BY <2>4, ReturnType, HeldAfterMove DEF RunJournalFails
    <3> QED
      BY <3>5, <3>6
  <2>5. CASE RunSpawnFails(t)
    <3>1. PICK s \in Session :
            /\ ReplaceLog(s)
            /\ integrity' = IF op[t] = "run" THEN s ELSE integrity
            /\ \A x \in Log : x > s => journal'[x] = journal[x]
      <4>1. PICK s \in Session : ReplaceLog(s) /\ SpawnFailed(t, s)
        BY <2>5 DEF RunSpawnFails
      <4>2. integrity' = IF op[t] = "run" THEN s ELSE integrity
        BY <4>1 DEF SpawnFailed
      <4>3. \A x \in Log : x > s => x # s /\ x # integrity
        BY <4>1, RuntimeConstants
        DEF ReplaceLog, Owned, IntegrityBound, TypeOK, HandleTypeOK, JournalTypeOK,
            Log
      <4>4. \A x \in Log : x > s => journal'[x] = journal[x]
        BY <4>1, <4>3 DEF SpawnFailed, TypeOK, JournalTypeOK
      <4> QED
        BY <4>1, <4>2, <4>4
    <3>2. /\ outputLog \in Int /\ outputLog' = s /\ s = outputLog + 1
          /\ integrity' \in {s, integrity} /\ integrity \in Int
      BY <3>1, RuntimeConstants
      DEF ReplaceLog, TypeOK, HandleTypeOK, JournalTypeOK, Log
    <3>3. IntegrityBound'
      BY <3>2 DEF Owned, IntegrityBound
    <3>4. FreshJournals'
      BY <3>1, <3>2, RuntimeConstants DEF Owned, FreshJournals, Log
    <3>5. tree' = tree /\ AllDead
      BY <2>5, <2>0 DEF RunSpawnFails
    <3>6. OwnershipRetained' /\ FinalizedAfterTermination' /\ NoTreeZero'
      BY <3>5, Logs
      DEF AllDead, OwnershipRetained, FinalizedAfterTermination, NoTreeZero
    <3>7. Held'
      BY <2>5, FailLaunchType, HeldAfterMove DEF RunSpawnFails
    <3> QED
      BY <3>3, <3>4, <3>6, <3>7 DEF Owned
  <2>6. CASE RunLaunched(t)
    <3>1. PICK s \in Session : Spawned(t, s) /\ tree' = [tree EXCEPT ![s] = "alive"]
      BY <2>6 DEF RunLaunched
    <3>2. Owned'
      BY <2>6, <2>0, <3>1, OwnershipSpawned DEF RunLaunched
    <3>3. Held'
      BY <2>6, <2>0
      DEF RunLaunched, Goto, Held, MutexHeld, ClearedUnowned, TypeOK, RequestTypeOK
    <3> QED
      BY <3>2, <3>3
  <2>7. CASE RunProcessIdFails(t)
    <3>1. PICK s \in Session : Spawned(t, s) /\ tree' = [tree EXCEPT ![s] = "dying"]
      BY <2>7 DEF RunProcessIdFails
    <3>2. Owned'
      BY <2>7, <2>0, <3>1, OwnershipSpawned DEF RunProcessIdFails
    <3>3. Held'
      BY <2>7, <2>0, ReturnType
      DEF RunProcessIdFails, Moved, Calm, Held, MutexHeld, ClearedUnowned
    <3> QED
      BY <3>2, <3>3
  <2>8. CASE LaunchReplaced(t)
    <3>1. Owned'
      BY <2>8, GuardDroppedType, OwnershipKept
      DEF LaunchReplaced, handleVars, watchVars, logVars, journalVars,
          KeptOwnership, SameOwnership, TypeOK, HandleTypeOK
    <3>2. Held'
      BY <2>8, FailLaunchType, HeldAfterMove
      DEF LaunchReplaced, handleVars, watchVars, logVars, journalVars
    <3> QED
      BY <3>1, <3>2
  <2>9. CASE LaunchSettled(t)
    <3>1. Owned'
      BY <2>9, OwnershipKept
      DEF LaunchSettled, handleVars, watchVars, logVars, journalVars,
          KeptOwnership, SameOwnership, TypeOK, HandleTypeOK
    <3>2. Held'
      BY <2>9, HeldAfterMove
      DEF LaunchSettled, Goto, handleVars, watchVars, logVars, journalVars,
          Moved, Calm, TypeOK, RequestTypeOK
    <3> QED
      BY <3>1, <3>2
  <2>10. CASE LaunchExitedEarly(t)
    <3>1. Owned'
      BY <2>10, EnterCleanupType, OwnershipKept
      DEF LaunchExitedEarly, watchVars, journalVars, KeptOwnership,
          SameOwnership, TypeOK, HandleTypeOK, Labels
    <3>2. Held'
      BY <2>10, EnterCleanupType, HeldAfterEntry
      DEF LaunchExitedEarly, watchVars, journalVars, Labels
    <3> QED
      BY <3>1, <3>2
  <2>11. CASE ReadinessResolved(t)
    <3>1. Owned'
      BY <2>11, OwnershipKept
      DEF ReadinessResolved, handleVars, watchVars, logVars, journalVars,
          KeptOwnership, SameOwnership, TypeOK, HandleTypeOK
    <3>2. Held'
      BY <2>11, HeldAfterMove
      DEF ReadinessResolved, Goto, handleVars, watchVars, logVars, journalVars,
          Moved, Calm, TypeOK, RequestTypeOK
    <3> QED
      BY <3>1, <3>2
  <2>12. CASE UnreadyAdmitted(t)
    <3>1. Owned'
      BY <2>12, OwnershipKept
      DEF UnreadyAdmitted, handleVars, watchVars, logVars, journalVars,
          KeptOwnership, SameOwnership, TypeOK, HandleTypeOK
    <3>2. Held'
      BY <2>12, HeldAfterMove
      DEF UnreadyAdmitted, Goto, handleVars, watchVars, logVars, journalVars,
          Moved, Calm, TypeOK, RequestTypeOK
    <3> QED
      BY <3>1, <3>2
  <2>13. CASE UnreadyTakedown(t)
    <3>1. Owned'
      BY <2>13, KillType, OwnershipKept
      DEF UnreadyTakedown, watchVars, logVars, journalVars, KeptOwnership,
          SameOwnership, TypeOK, HandleTypeOK
    <3>2. Held'
      BY <2>13, HeldAfterEntry
      DEF UnreadyTakedown, Goto, watchVars, logVars, journalVars
    <3> QED
      BY <3>1, <3>2
  <2>14. CASE LaunchPublished(t)
    <3>1. Owned'
      BY <2>14, ObserveSessionType, OwnershipKept
      DEF LaunchPublished, handleVars, watchVars, logVars, KeptOwnership,
          SameOwnership, TypeOK, HandleTypeOK
    <3>2. Held'
      BY <2>14, ReturnType, FailLaunchType, HeldAfterMove
      DEF LaunchPublished, handleVars, watchVars, logVars
    <3> QED
      BY <3>1, <3>2
  <2>15. CASE LaunchPublishFails(t)
    <3>1. Owned'
      BY <2>15, GuardDroppedType, ObserveSessionType, OwnershipKept
      DEF LaunchPublishFails, handleVars, watchVars, logVars, KeptOwnership,
          SameOwnership, TypeOK, HandleTypeOK
    <3>2. Held'
      BY <2>15, FailLaunchType, HeldAfterMove
      DEF LaunchPublishFails, handleVars, watchVars, logVars
    <3> QED
      BY <3>1, <3>2
  <2>16. CASE LaunchEnded(t)
    <3>1. Owned'
      <4>1. obs[t] \in Log
        BY DEF TypeOK, RequestTypeOK
      <4>2. KeptOwnership
        BY <2>16, <4>1, TerminatedType DEF LaunchEnded, journalVars, KeptOwnership
      <4> QED
        BY <4>2, OwnershipKept
    <3>2. Held'
      BY <2>16, FailLaunchType, HeldAfterMove
      DEF LaunchEnded, watchVars, journalVars
    <3> QED
      BY <3>1, <3>2
  <2> QED
    BY <1>2, <2>1, <2>2, <2>3, <2>4, <2>5, <2>6, <2>7, <2>8, <2>9, <2>10,
       <2>11, <2>12, <2>13, <2>14, <2>15, <2>16 DEF Launching
<1>3. ASSUME NEW t \in Request, Closing(t) PROVE Owned' /\ Held'
  <2>1. CASE KillConfirmed(t)
    <3>1. Owned'
      BY <2>1, SettledMeansDead, OwnershipReleased
      DEF KillConfirmed, journalVars, SameOwnership
    <3>2. CASE op[t] = "tracyStop"
      BY <2>1, <3>1, <3>2, ReturnType, HeldAfterMove DEF KillConfirmed
    <3>3. CASE op[t] # "tracyStop"
      BY <2>1, <3>1, <3>3
      DEF KillConfirmed, Goto, Held, MutexHeld, ClearedUnowned, TypeOK, RequestTypeOK
    <3> QED
      BY <3>2, <3>3, <3>1
  <2>2. CASE Finalize(t)
    <3>1. SameOwnership(tree')
      BY <2>2, GuardDroppedType DEF Finalize, SameOwnership
    <3>2. Owned'
      BY <2>2, <3>1, SettledMeansDead, OwnershipReleased
      DEF Finalize, TypeOK, JournalTypeOK
    <3>3. CASE pc[t] = "clearing"
      BY <2>2, <3>2, <3>3
      DEF Finalize, Goto, Held, MutexHeld, ClearedUnowned, TypeOK, RequestTypeOK
    <3>4. CASE pc[t] # "clearing"
      BY <2>2, <3>2, <3>4, FinishType, HeldAfterMove DEF Finalize
    <3> QED
      BY <3>3, <3>4, <3>2
  <2>3. CASE FinalizeFails(t)
    <3>1. SameOwnership(tree')
      BY <2>3, GuardDroppedType DEF FinalizeFails
    <3>2. \A s \in Log : journal'[s].status = journal[s].status
      BY <2>3, ObserveSessionType DEF FinalizeFails
    <3>3. Owned'
      BY <2>3, <3>1, <3>2, SettledMeansDead, OwnershipReleased
      DEF FinalizeFails, watchVars, logVars
    <3>4. Held'
      BY <2>3, FinishType, ReturnType, HeldAfterMove DEF FinalizeFails
    <3> QED
      BY <3>3, <3>4
  <2>4. CASE CleanupTimesOut(t)
    <3>1. Owned'
      BY <2>4, GuardDroppedType, OwnershipKept
      DEF CleanupTimesOut, handleVars, watchVars, logVars, journalVars,
          KeptOwnership, SameOwnership, TypeOK, HandleTypeOK
    <3>2. Held'
      BY <2>4, FinishType, HeldAfterMove
      DEF CleanupTimesOut, handleVars, watchVars, logVars, journalVars
    <3> QED
      BY <3>1, <3>2
  <2>5. CASE TracyStopConfirmed(t)
    <3>1. Owned'
      BY <2>5, SettledMeansDead, OwnershipReleased
      DEF TracyStopConfirmed, journalVars, SameOwnership
    <3>2. Held'
      BY <2>5, ReturnType, HeldAfterMove DEF TracyStopConfirmed
    <3> QED
      BY <3>1, <3>2
  <2> QED
    BY <1>3, <2>1, <2>2, <2>3, <2>4, <2>5 DEF Closing
<1>4. ASSUME NEW t \in Request, Stopping(t) PROVE Owned' /\ Held'
  <2>1. CASE StopIdle(t)
    <3>1. Owned'
      BY <2>1, OwnershipKept
      DEF StopIdle, handleVars, watchVars, logVars, journalVars, KeptOwnership,
          SameOwnership, TypeOK, HandleTypeOK
    <3>2. Held'
      BY <2>1, ReturnType, HeldAfterMove
      DEF StopIdle, handleVars, watchVars, logVars, journalVars
    <3> QED
      BY <3>1, <3>2
  <2>2. CASE StopExited(t)
    <3>1. Owned'
      BY <2>2, EnterCleanupType, OwnershipKept
      DEF StopExited, watchVars, journalVars, KeptOwnership, SameOwnership,
          TypeOK, HandleTypeOK, Labels
    <3>2. Held'
      BY <2>2, EnterCleanupType, HeldAfterEntry
      DEF StopExited, watchVars, journalVars, Labels
    <3> QED
      BY <3>1, <3>2
  <2>3. CASE StopLive(t)
    <3>1. Owned'
      BY <2>3, KillType, OwnershipKept
      DEF StopLive, watchVars, logVars, journalVars, KeptOwnership,
          SameOwnership, TypeOK, HandleTypeOK
    <3>2. Held'
      BY <2>3, HeldAfterEntry
      DEF StopLive, Goto, watchVars, logVars, journalVars
    <3> QED
      BY <3>1, <3>2
  <2>4. CASE TracyStopRefused(t)
    <3>1. Owned'
      BY <2>4, OwnershipKept
      DEF TracyStopRefused, handleVars, watchVars, logVars, journalVars,
          KeptOwnership, SameOwnership, TypeOK, HandleTypeOK
    <3>2. Held'
      BY <2>4, ReturnType, HeldAfterMove
      DEF TracyStopRefused, handleVars, watchVars, logVars, journalVars
    <3> QED
      BY <3>1, <3>2
  <2>5. CASE TracyStopExited(t)
    <3>1. Owned'
      BY <2>5, EnterCleanupType, OwnershipKept
      DEF TracyStopExited, watchVars, journalVars, KeptOwnership,
          SameOwnership, TypeOK, HandleTypeOK, Labels
    <3>2. Held'
      BY <2>5, EnterCleanupType, HeldAfterEntry
      DEF TracyStopExited, watchVars, journalVars, Labels
    <3> QED
      BY <3>1, <3>2
  <2> QED
    BY <1>4, <2>1, <2>2, <2>3, <2>4, <2>5 DEF Stopping
<1>5. ASSUME NEW t \in Request, Waiting(t) PROVE Owned' /\ Held'
  <2>1. CASE WaitResolved(t)
    <3>1. Owned'
      BY <2>1, OwnershipKept
      DEF WaitResolved, handleVars, watchVars, logVars, journalVars,
          KeptOwnership, SameOwnership, TypeOK, HandleTypeOK
    <3>2. Held'
      BY <2>1, HeldAfterMove
      DEF WaitResolved, Goto, handleVars, watchVars, logVars, journalVars,
          Moved, Calm, TypeOK, RequestTypeOK
    <3> QED
      BY <3>1, <3>2
  <2>2. CASE ReportReplaced(t)
    <3>1. Owned'
      BY <2>2, OwnershipKept
      DEF ReportReplaced, handleVars, watchVars, logVars, journalVars,
          KeptOwnership, SameOwnership, TypeOK, HandleTypeOK
    <3>2. Held'
      BY <2>2, ReturnType, HeldAfterMove
      DEF ReportReplaced, handleVars, watchVars, logVars, journalVars
    <3> QED
      BY <3>1, <3>2
  <2>3. CASE ReportRunning(t)
    <3>1. Owned'
      BY <2>3, ObserveSessionType, OwnershipKept
      DEF ReportRunning, handleVars, watchVars, logVars, KeptOwnership,
          SameOwnership, TypeOK, HandleTypeOK
    <3>2. Held'
      BY <2>3, ReturnType, HeldAfterMove
      DEF ReportRunning, handleVars, watchVars, logVars
    <3> QED
      BY <3>1, <3>2
  <2>4. CASE ReportExited(t)
    <3>1. Owned'
      BY <2>4, EnterCleanupType, OwnershipKept
      DEF ReportExited, watchVars, journalVars, KeptOwnership, SameOwnership,
          TypeOK, HandleTypeOK, Labels
    <3>2. Held'
      BY <2>4, EnterCleanupType, HeldAfterEntry
      DEF ReportExited, watchVars, journalVars, Labels
    <3> QED
      BY <3>1, <3>2
  <2> QED
    BY <1>5, <2>1, <2>2, <2>3, <2>4 DEF Waiting
<1>6. ASSUME NEW t \in Request, Cancel(t) PROVE Owned' /\ Held'
  <2>1. Owned'
    BY <1>6, GuardDroppedType, OwnershipKept
    DEF Cancel, handleVars, watchVars, logVars, journalVars, KeptOwnership,
        SameOwnership, TypeOK, HandleTypeOK
  <2>2. Held'
    BY <1>6, ReturnType, HeldAfterMove
    DEF Cancel, handleVars, watchVars, logVars, journalVars
  <2> QED
    BY <2>1, <2>2
<1>7. CASE Refresh
  <2>1. Owned'
    BY <1>7, ProbedTreeType, OwnershipKept
    DEF Refresh, requestVars, watchVars, journalVars, KeptOwnership,
        SameOwnership, TypeOK, HandleTypeOK
  <2>2. Held'
    BY <1>7
    DEF Refresh, requestVars, watchVars, journalVars, Held, MutexHeld,
        ClearedUnowned
  <2> QED
    BY <2>1, <2>2
<1>8. CASE MonitorTick
  <2>1. Owned'
    <3>1. /\ tree' = tree /\ containment' = containment
          /\ outputLog' = outputLog /\ integrity' = integrity
      BY <1>8 DEF MonitorTick, handleVars
    <3>2. \A s \in Log : journal'[s].status = journal[s].status
      BY <1>8, ObservedJournal DEF MonitorTick, TypeOK, JournalTypeOK
    <3> QED
      BY <3>1, <3>2, OwnershipKept DEF KeptOwnership, SameOwnership
  <2>2. Held'
    BY <1>8
    DEF MonitorTick, requestVars, handleVars, watchVars, logVars, Held,
        MutexHeld, ClearedUnowned
  <2> QED
    BY <2>1, <2>2
<1>9. CASE ObserverSeesExit
  <2>1. Owned'
    BY <1>9, ProbedTreeType, OwnershipKept
    DEF ObserverSeesExit, requestVars, journalVars, KeptOwnership,
        SameOwnership, TypeOK, HandleTypeOK
  <2>2. Held'
    BY <1>9
    DEF ObserverSeesExit, requestVars, journalVars, Held, MutexHeld,
        ClearedUnowned
  <2> QED
    BY <2>1, <2>2
<1>10. CASE ObserverDrains
  <2>1. Owned'
    BY <1>10, OwnershipKept
    DEF ObserverDrains, requestVars, handleVars, journalVars, KeptOwnership,
        SameOwnership, TypeOK, HandleTypeOK
  <2>2. Held'
    BY <1>10
    DEF ObserverDrains, requestVars, handleVars, journalVars, Held, MutexHeld,
        ClearedUnowned
  <2> QED
    BY <2>1, <2>2
<1>11. ASSUME NEW s \in Session, ChildExits(s) PROVE Owned' /\ Held'
  <2>1. Owned'
    BY <1>11, OwnershipKept
    DEF ChildExits, requestVars, handleVars, watchVars, logVars, journalVars,
        KeptOwnership, SameOwnership, TypeOK, HandleTypeOK
  <2>2. Held'
    BY <1>11
    DEF ChildExits, requestVars, handleVars, watchVars, logVars, journalVars,
        Held, MutexHeld, ClearedUnowned
  <2> QED
    BY <2>1, <2>2
<1>12. ASSUME NEW s \in Session, TreeDies(s) PROVE Owned' /\ Held'
  <2>1. Owned'
    BY <1>12, Logs
    DEF TreeDies, handleVars, journalVars, Owned, OwnershipRetained, NoTreeZero,
        IntegrityBound,
        FinalizedAfterTermination, FreshJournals, TypeOK, SessionTypeOK
  <2>2. Held'
    BY <1>12 DEF TreeDies, requestVars, handleVars, Held, MutexHeld, ClearedUnowned
  <2> QED
    BY <2>1, <2>2
<1>13. ASSUME NEW s \in Session, Emit(s) PROVE Owned' /\ Held'
  <2>1. Owned'
    BY <1>13, OwnershipKept
    DEF Emit, requestVars, handleVars, watchVars, journalVars, KeptOwnership,
        SameOwnership, TypeOK, HandleTypeOK
  <2>2. Held'
    BY <1>13
    DEF Emit, requestVars, handleVars, watchVars, journalVars, Held, MutexHeld,
        ClearedUnowned
  <2> QED
    BY <2>1, <2>2
<1>14. ASSUME NEW p \in Path, NEW c \in Content, Edit(p, c) PROVE Owned' /\ Held'
  <2>1. Owned'
    BY <1>14, OwnershipKept
    DEF Edit, requestVars, handleVars, watchVars, logVars, journalVars,
        KeptOwnership, SameOwnership, TypeOK, HandleTypeOK
  <2>2. Held'
    BY <1>14
    DEF Edit, requestVars, handleVars, watchVars, logVars, journalVars, Held,
        MutexHeld, ClearedUnowned
  <2> QED
    BY <2>1, <2>2
<1>15. CASE UNCHANGED vars
  <2>1. Owned'
    BY <1>15, OwnershipKept
    DEF KeptOwnership, SameOwnership, vars, handleVars, journalVars
  <2>2. Held'
    BY <1>15 DEF Held, MutexHeld, ClearedUnowned, vars, requestVars, handleVars
  <2> QED
    BY <2>1, <2>2
<1>16. CASE Background
  BY <1>16, <1>8, <1>9, <1>10 DEF Background
<1>17. CASE Environment
  BY <1>17, <1>11, <1>12, <1>13, <1>14 DEF Environment
<1>18. CASE \E t \in Request : Arriving(t) \/ Progress(t) \/ Cancel(t)
  BY <1>18, <1>1, <1>2, <1>3, <1>4, <1>5, <1>6 DEF Progress
<1> QED
  BY <1>7, <1>15, <1>16, <1>17, <1>18 DEF Next

(* The strengthening is an invariant of every instance.                      *)
THEOREM Invariance == Spec => []IInv
<1>1. Init => IInv
  <2>1. Init => TypeOK
    BY InitTypes
  <2>2. Init => Safe
    BY Logs DEF Init, Safe, Owned, Held, OwnershipRetained, FinalizedAfterTermination,
                NoTreeZero, IntegrityBound, FreshJournals, MutexHeld, ClearedUnowned,
                NoJournal, Terminal
  <2> QED
    BY <2>1, <2>2 DEF IInv
<1>2. IInv /\ [Next]_vars => IInv'
  BY TypeStep, SafeStep DEF IInv
<1> QED
  BY <1>1, <1>2, PTL DEF Spec

(* No process tree that may still run is ever without its containment.       *)
THEOREM Ownership == Spec => []OwnershipRetained
<1>1. IInv => OwnershipRetained
  BY DEF IInv, Safe, Owned
<1> QED
  BY <1>1, Invariance, PTL

(* No journal carries a verdict before its session's processes are gone.     *)
THEOREM VerdictAfterTermination == Spec => []FinalizedAfterTermination
<1>1. IInv => FinalizedAfterTermination
  BY DEF IInv, Safe, Owned
<1> QED
  BY <1>1, Invariance, PTL

-----------------------------------------------------------------------------
(* The log a request cloned                                                  *)

(* The awaits of a request that has not launched or observed a session.      *)
Unbound == {"idle", "admitted", "clearing", "cleared"}

(* A request keeps a log only past its launch or the start of its wait, and  *)
(* under the runtime mutex that log is the current one.                      *)
Bound(t) ==
  /\ obs[t] # 0 => pc[t] \notin Unbound
  /\ pc[t] \in {"killing", "closing"} => obs[t] \in {0, outputLog}

Bindings == \A t \in Request : Bound(t)

(* No other request moves.                                                   *)
Alone(t) == \A u \in Request \ {t} : pc'[u] = pc[u] /\ obs'[u] = obs[u]

(* Nothing that belongs to another session than the one t cloned changes.    *)
LeavesOthers(t) ==
  /\ UNCHANGED <<handleVars, integrity, summary, monitor>>
  /\ \A s \in Log \ {obs[t]} : /\ tree'[s] = tree[s]
                               /\ running'[s] = running[s]
                               /\ journal'[s] = journal[s]

(* A step of t alone, on the current session or with respect to the others.  *)
Respectful(t) ==
  /\ Alone(t)
  /\ obs[t] \in {0, outputLog} \/ LeavesOthers(t)

(* What ReplacementUndisturbed says of one step.                             *)
Undisturbed ==
  \A t \in Request : pc'[t] # pc[t] /\ obs[t] \notin {0, outputLog} => LeavesOthers(t)

(* A step that replaces no log keeps every binding but, perhaps, its own.    *)
LEMMA RespectfulStep ==
  ASSUME TypeOK, Bindings, NEW t \in Request, Respectful(t), Bound(t)',
         outputLog' = outputLog
  PROVE  Bindings' /\ Undisturbed
BY DEF Bindings, Bound, Respectful, Alone, Undisturbed

(* The log is replaced under the mutex, so nobody is in a cleanup.           *)
LEMMA ReplacingStep ==
  ASSUME TypeOK, Held, Bindings, NEW t \in Request, Respectful(t), Bound(t)',
         pc[t] = "cleared"
  PROVE  Bindings' /\ Undisturbed
<1>1. \A u \in Request \ {t} : pc[u] \notin {"killing", "closing"}
  BY RuntimeConstants DEF Held, MutexHeld
<1> QED
  BY <1>1 DEF Bindings, Bound, Respectful, Alone, Undisturbed

(* A step of no request respects them all.                                   *)
LEMMA QuietStep ==
  ASSUME Bindings, UNCHANGED <<pc, obs, outputLog>>
  PROVE  Bindings' /\ Undisturbed
BY DEF Bindings, Bound, Undisturbed

(* An answered request forgets its log.                                      *)
LEMMA ReturnForgets ==
  ASSUME TypeOK, NEW t \in Request, Return(t)
  PROVE  Alone(t) /\ Bound(t)'
BY DEF TypeOK, RequestTypeOK, Return, Goto, Alone, Bound

LEMMA FailLaunchForgets ==
  ASSUME TypeOK, NEW t \in Request, FailLaunch(t)
  PROVE  Alone(t) /\ Bound(t)'
BY ReturnForgets DEF TypeOK, RequestTypeOK, FailLaunch, Goto, Alone, Bound

LEMMA FinishForgets ==
  ASSUME TypeOK, NEW t \in Request, Finish(t)
  PROVE  Alone(t) /\ Bound(t)'
BY ReturnForgets, FailLaunchForgets DEF Finish

(* Dropping StartupOwnership reaches no other tree than the launch's own.    *)
LEMMA GuardDroppedElsewhere ==
  ASSUME TypeOK, NEW t \in Request, NEW s \in Log \ {obs[t]}
  PROVE  GuardDropped(t)[s] = tree[s]
BY DEF TypeOK, SessionTypeOK, GuardDropped, Terminated

(* Every step keeps the bindings and leaves replaced sessions alone.         *)
LEMMA BindingStep == TypeOK /\ Held /\ Bindings /\ [Next]_vars => Bindings' /\ Undisturbed
<1> SUFFICES ASSUME TypeOK, Held, Bindings, [Next]_vars PROVE Bindings' /\ Undisturbed
  OBVIOUS
<1> USE DEF Respectful
<1>1. ASSUME NEW t \in Request, Arriving(t) PROVE Bindings' /\ Undisturbed
  <2>a. obs[t] # 0 => pc[t] \notin Unbound
    BY DEF Bindings, Bound
  <2>b. pc[t] \in {"killing", "closing"} => obs[t] \in {0, outputLog}
    BY DEF Bindings, Bound
  <2>1. CASE BeginRun(t)
    <3>1. Respectful(t)
      BY <2>1, <2>a
      DEF BeginRun, Begin, handleVars, Goto, Alone, Unbound, TypeOK, RequestTypeOK
    <3>2. Bound(t)'
      BY <2>1, <2>a
      DEF BeginRun, Begin, handleVars, Goto, Bound, Unbound, TypeOK, RequestTypeOK
    <3>3. outputLog' = outputLog
      BY <2>1 DEF BeginRun, handleVars, Begin
    <3> QED
      BY <3>1, <3>2, <3>3, RespectfulStep
  <2>2. CASE BeginTracy(t)
    <3>1. Respectful(t)
      BY <2>2, <2>a
      DEF BeginTracy, Begin, handleVars, Goto, Alone, Unbound, TypeOK, RequestTypeOK
    <3>2. Bound(t)'
      BY <2>2, <2>a
      DEF BeginTracy, Begin, handleVars, Goto, Bound, Unbound, TypeOK, RequestTypeOK
    <3>3. outputLog' = outputLog
      BY <2>2 DEF BeginTracy, handleVars, Begin
    <3> QED
      BY <3>1, <3>2, <3>3, RespectfulStep
  <2>3. CASE BeginStop(t)
    <3>1. Respectful(t)
      BY <2>3, <2>a
      DEF BeginStop, Begin, handleVars, Goto, Alone, Unbound, TypeOK, RequestTypeOK
    <3>2. Bound(t)'
      BY <2>3, <2>a
      DEF BeginStop, Begin, handleVars, Goto, Bound, Unbound, TypeOK, RequestTypeOK
    <3>3. outputLog' = outputLog
      BY <2>3 DEF BeginStop, handleVars, Begin
    <3> QED
      BY <3>1, <3>2, <3>3, RespectfulStep
  <2>4. CASE BeginTracyStop(t)
    <3>1. Respectful(t)
      BY <2>4, <2>a
      DEF BeginTracyStop, Begin, handleVars, Goto, Alone, Unbound, TypeOK,
          RequestTypeOK
    <3>2. Bound(t)'
      BY <2>4, <2>a
      DEF BeginTracyStop, Begin, handleVars, Goto, Bound, Unbound, TypeOK,
          RequestTypeOK
    <3>3. outputLog' = outputLog
      BY <2>4 DEF BeginTracyStop, handleVars, Begin
    <3> QED
      BY <3>1, <3>2, <3>3, RespectfulStep
  <2>5. CASE StatusRunning(t)
    BY <2>5, QuietStep DEF StatusRunning, requestVars, handleVars
  <2>6. CASE StatusExited(t)
    <3>1. Respectful(t)
      BY <2>6, <2>a
      DEF StatusExited, EnterCleanup, handleVars, Goto, Alone, Unbound, TypeOK,
          RequestTypeOK
    <3>2. Bound(t)'
      BY <2>6, <2>a
      DEF StatusExited, EnterCleanup, handleVars, Goto, Bound, Unbound, TypeOK,
          RequestTypeOK
    <3>3. outputLog' = outputLog
      BY <2>6 DEF StatusExited, handleVars, EnterCleanup
    <3> QED
      BY <3>1, <3>2, <3>3, RespectfulStep
  <2>7. CASE BeginWait(t)
    <3>1. Respectful(t)
      BY <2>7, <2>a DEF BeginWait, Goto, Alone, Unbound, TypeOK, RequestTypeOK
    <3>2. Bound(t)'
      BY <2>7 DEF BeginWait, Goto, Bound, Unbound, TypeOK, RequestTypeOK
    <3>3. outputLog' = outputLog
      BY <2>7 DEF BeginWait
    <3> QED
      BY <3>1, <3>2, <3>3, RespectfulStep
  <2> QED
    BY <1>1, <2>1, <2>2, <2>3, <2>4, <2>5, <2>6, <2>7 DEF Arriving
<1>2. ASSUME NEW t \in Request, Launching(t) PROVE Bindings' /\ Undisturbed
  <2>a. obs[t] # 0 => pc[t] \notin Unbound
    BY DEF Bindings, Bound
  <2>b. pc[t] \in {"killing", "closing"} => obs[t] \in {0, outputLog}
    BY DEF Bindings, Bound
  <2>1. CASE RunRefused(t)
    <3>1. Respectful(t)
      BY <2>1, <2>a, <2>b, ReturnForgets DEF RunRefused, Unbound
    <3>2. Bound(t)'
      BY <2>1, ReturnForgets DEF RunRefused
    <3>3. outputLog' = outputLog
      BY <2>1 DEF RunRefused, handleVars
    <3> QED
      BY <3>1, <3>2, <3>3, RespectfulStep
  <2>2. CASE RunClears(t)
    <3>1. Respectful(t)
      BY <2>2, <2>a
      DEF RunClears, EnterCleanup, handleVars, Goto, Alone, Unbound, TypeOK,
          RequestTypeOK
    <3>2. Bound(t)'
      BY <2>2, <2>a
      DEF RunClears, EnterCleanup, handleVars, Goto, Bound, Unbound, TypeOK,
          RequestTypeOK
    <3>3. outputLog' = outputLog
      BY <2>2 DEF RunClears, handleVars, EnterCleanup
    <3> QED
      BY <3>1, <3>2, <3>3, RespectfulStep
  <2>3. CASE RunRejected(t)
    <3>1. Respectful(t)
      BY <2>3, <2>a, <2>b, FailLaunchForgets DEF RunRejected, Unbound
    <3>2. Bound(t)'
      BY <2>3, FailLaunchForgets DEF RunRejected
    <3>3. outputLog' = outputLog
      BY <2>3 DEF RunRejected, handleVars
    <3> QED
      BY <3>1, <3>2, <3>3, RespectfulStep
  <2>4. CASE RunJournalFails(t)
    <3>1. Respectful(t)
      BY <2>4, <2>a, <2>b, ReturnForgets DEF RunJournalFails, Unbound
    <3>2. Bound(t)'
      BY <2>4, ReturnForgets DEF RunJournalFails
    <3> QED
      BY <2>4, <3>1, <3>2, ReplacingStep DEF RunJournalFails
  <2>5. CASE RunSpawnFails(t)
    <3>1. Respectful(t)
      BY <2>5, <2>a, <2>b, FailLaunchForgets DEF RunSpawnFails, Unbound
    <3>2. Bound(t)'
      BY <2>5, FailLaunchForgets DEF RunSpawnFails
    <3> QED
      BY <2>5, <3>1, <3>2, ReplacingStep DEF RunSpawnFails
  <2>6. CASE RunLaunched(t)
    <3>1. PICK s \in Session : obs' = [obs EXCEPT ![t] = s]
      BY <2>6 DEF RunLaunched
    <3>2. Respectful(t)
      BY <2>6, <3>1, <2>a DEF RunLaunched, Goto, Alone, Unbound, TypeOK, RequestTypeOK
    <3>3. Bound(t)'
      BY <2>6 DEF RunLaunched, Goto, Bound, Unbound, TypeOK, RequestTypeOK
    <3> QED
      BY <2>6, <3>2, <3>3, ReplacingStep DEF RunLaunched
  <2>7. CASE RunProcessIdFails(t)
    <3>1. Respectful(t)
      BY <2>7, <2>a, <2>b, ReturnForgets DEF RunProcessIdFails, Unbound
    <3>2. Bound(t)'
      BY <2>7, ReturnForgets DEF RunProcessIdFails
    <3> QED
      BY <2>7, <3>1, <3>2, ReplacingStep DEF RunProcessIdFails
  <2>8. CASE LaunchReplaced(t)
    <3>1. Respectful(t)
      BY <2>8, FailLaunchForgets, GuardDroppedElsewhere
      DEF LaunchReplaced, handleVars, logVars, journalVars, LeavesOthers
    <3>2. Bound(t)'
      BY <2>8, FailLaunchForgets DEF LaunchReplaced
    <3>3. outputLog' = outputLog
      BY <2>8 DEF LaunchReplaced, handleVars
    <3> QED
      BY <3>1, <3>2, <3>3, RespectfulStep
  <2>9. CASE LaunchSettled(t)
    <3>1. Respectful(t)
      BY <2>9
      DEF LaunchSettled, handleVars, SameSession, Goto, Alone, TypeOK, RequestTypeOK
    <3>2. Bound(t)'
      BY <2>9
      DEF LaunchSettled, handleVars, SameSession, Goto, Bound, Unbound, TypeOK,
          RequestTypeOK
    <3>3. outputLog' = outputLog
      BY <2>9 DEF LaunchSettled, handleVars
    <3> QED
      BY <3>1, <3>2, <3>3, RespectfulStep
  <2>10. CASE LaunchExitedEarly(t)
    <3>1. Respectful(t)
      BY <2>10
      DEF LaunchExitedEarly, EnterCleanup, handleVars, SameSession, Goto, Alone,
          TypeOK, RequestTypeOK
    <3>2. Bound(t)'
      BY <2>10
      DEF LaunchExitedEarly, EnterCleanup, handleVars, SameSession, Goto, Bound,
          Unbound, TypeOK, RequestTypeOK
    <3>3. outputLog' = outputLog
      BY <2>10 DEF LaunchExitedEarly, handleVars, EnterCleanup
    <3> QED
      BY <3>1, <3>2, <3>3, RespectfulStep
  <2>11. CASE ReadinessResolved(t)
    <3>1. Respectful(t)
      BY <2>11
      DEF ReadinessResolved, handleVars, logVars, journalVars, LeavesOthers, Goto,
          Alone, TypeOK, RequestTypeOK
    <3>2. Bound(t)'
      BY <2>11, <2>a
      DEF ReadinessResolved, handleVars, Goto, Bound, Unbound, TypeOK, RequestTypeOK
    <3>3. outputLog' = outputLog
      BY <2>11 DEF ReadinessResolved, handleVars
    <3> QED
      BY <3>1, <3>2, <3>3, RespectfulStep
  <2>12. CASE UnreadyAdmitted(t)
    <3>1. Respectful(t)
      BY <2>12
      DEF UnreadyAdmitted, handleVars, logVars, journalVars, LeavesOthers, Goto,
          Alone, TypeOK, RequestTypeOK
    <3>2. Bound(t)'
      BY <2>12, <2>a
      DEF UnreadyAdmitted, handleVars, Goto, Bound, Unbound, TypeOK, RequestTypeOK
    <3>3. outputLog' = outputLog
      BY <2>12 DEF UnreadyAdmitted, handleVars
    <3> QED
      BY <3>1, <3>2, <3>3, RespectfulStep
  <2>13. CASE UnreadyTakedown(t)
    <3>1. Respectful(t)
      BY <2>13
      DEF UnreadyTakedown, handleVars, SameSession, Goto, Alone, TypeOK, RequestTypeOK
    <3>2. Bound(t)'
      BY <2>13
      DEF UnreadyTakedown, handleVars, SameSession, Goto, Bound, Unbound, TypeOK,
          RequestTypeOK
    <3>3. outputLog' = outputLog
      BY <2>13 DEF UnreadyTakedown, handleVars
    <3> QED
      BY <3>1, <3>2, <3>3, RespectfulStep
  <2>14. CASE LaunchPublished(t)
    <3>1. Respectful(t)
      BY <2>14, ReturnForgets, FailLaunchForgets DEF LaunchPublished, SameSession
    <3>2. Bound(t)'
      BY <2>14, ReturnForgets, FailLaunchForgets DEF LaunchPublished
    <3>3. outputLog' = outputLog
      BY <2>14 DEF LaunchPublished, handleVars
    <3> QED
      BY <3>1, <3>2, <3>3, RespectfulStep
  <2>15. CASE LaunchPublishFails(t)
    <3>1. Respectful(t)
      BY <2>15, FailLaunchForgets DEF LaunchPublishFails, SameSession
    <3>2. Bound(t)'
      BY <2>15, FailLaunchForgets DEF LaunchPublishFails
    <3>3. outputLog' = outputLog
      BY <2>15 DEF LaunchPublishFails, handleVars
    <3> QED
      BY <3>1, <3>2, <3>3, RespectfulStep
  <2>16. CASE LaunchEnded(t)
    <3>1. Respectful(t)
      BY <2>16, FailLaunchForgets DEF LaunchEnded, SameSession
    <3>2. Bound(t)'
      BY <2>16, FailLaunchForgets DEF LaunchEnded
    <3>3. outputLog' = outputLog
      BY <2>16 DEF LaunchEnded, handleVars
    <3> QED
      BY <3>1, <3>2, <3>3, RespectfulStep
  <2> QED
    BY <1>2, <2>1, <2>2, <2>3, <2>4, <2>5, <2>6, <2>7, <2>8, <2>9, <2>10, <2>11,
       <2>12, <2>13, <2>14, <2>15, <2>16
    DEF Launching
<1>3. ASSUME NEW t \in Request, Closing(t) PROVE Bindings' /\ Undisturbed
  <2>a. obs[t] # 0 => pc[t] \notin Unbound
    BY DEF Bindings, Bound
  <2>b. pc[t] \in {"killing", "closing"} => obs[t] \in {0, outputLog}
    BY DEF Bindings, Bound
  <2>1. CASE KillConfirmed(t)
    <3>1. obs[t] \in {0, outputLog} /\ outputLog' = outputLog
      BY <2>1, <2>b DEF KillConfirmed
    <3>2. CASE op[t] = "tracyStop"
      BY <2>1, <3>1, <3>2, ReturnForgets, RespectfulStep DEF KillConfirmed
    <3>3. CASE op[t] # "tracyStop"
      <4>1. Alone(t)
        BY <2>1, <3>3 DEF KillConfirmed, Goto, Alone, TypeOK, RequestTypeOK
      <4>2. Bound(t)'
        BY <2>1, <3>1, <3>3
        DEF KillConfirmed, Goto, Bound, Unbound, TypeOK, RequestTypeOK
      <4> QED
        BY <3>1, <4>1, <4>2, RespectfulStep
    <3> QED
      BY <3>2, <3>3
  <2>2. CASE Finalize(t)
    <3>1. obs[t] \in {0, outputLog} /\ outputLog' = outputLog
      BY <2>2, <2>a, <2>b DEF Finalize, Unbound
    <3>2. CASE pc[t] = "clearing"
      <4>1. Alone(t)
        BY <2>2, <3>2 DEF Finalize, Goto, Alone, TypeOK, RequestTypeOK
      <4>2. Bound(t)'
        BY <2>2, <2>a, <3>2 DEF Finalize, Goto, Bound, Unbound, TypeOK, RequestTypeOK
      <4> QED
        BY <3>1, <4>1, <4>2, RespectfulStep
    <3>3. CASE pc[t] # "clearing"
      BY <2>2, <3>1, <3>3, FinishForgets, RespectfulStep DEF Finalize
    <3> QED
      BY <3>2, <3>3
  <2>3. CASE FinalizeFails(t)
    <3>1. obs[t] \in {0, outputLog} /\ outputLog' = outputLog
      BY <2>3, <2>a, <2>b DEF FinalizeFails, Unbound
    <3>2. Alone(t) /\ Bound(t)'
      BY <2>3, FinishForgets, ReturnForgets DEF FinalizeFails
    <3> QED
      BY <3>1, <3>2, RespectfulStep
  <2>4. CASE CleanupTimesOut(t)
    <3>1. Respectful(t)
      BY <2>4, FinishForgets, GuardDroppedElsewhere
      DEF CleanupTimesOut, handleVars, logVars, journalVars, LeavesOthers
    <3>2. Bound(t)'
      BY <2>4, FinishForgets DEF CleanupTimesOut
    <3>3. outputLog' = outputLog
      BY <2>4 DEF CleanupTimesOut, handleVars
    <3> QED
      BY <3>1, <3>2, <3>3, RespectfulStep
  <2>5. CASE TracyStopConfirmed(t)
    <3>1. Respectful(t)
      BY <2>5, <2>a, <2>b, ReturnForgets DEF TracyStopConfirmed, Unbound
    <3>2. Bound(t)'
      BY <2>5, ReturnForgets DEF TracyStopConfirmed
    <3>3. outputLog' = outputLog
      BY <2>5 DEF TracyStopConfirmed, handleVars
    <3> QED
      BY <3>1, <3>2, <3>3, RespectfulStep
  <2> QED
    BY <1>3, <2>1, <2>2, <2>3, <2>4, <2>5 DEF Closing
<1>4. ASSUME NEW t \in Request, Stopping(t) PROVE Bindings' /\ Undisturbed
  <2>a. obs[t] # 0 => pc[t] \notin Unbound
    BY DEF Bindings, Bound
  <2>b. pc[t] \in {"killing", "closing"} => obs[t] \in {0, outputLog}
    BY DEF Bindings, Bound
  <2>1. CASE StopIdle(t)
    <3>1. Respectful(t)
      BY <2>1, <2>a, <2>b, ReturnForgets DEF StopIdle, Unbound
    <3>2. Bound(t)'
      BY <2>1, ReturnForgets DEF StopIdle
    <3>3. outputLog' = outputLog
      BY <2>1 DEF StopIdle, handleVars
    <3> QED
      BY <3>1, <3>2, <3>3, RespectfulStep
  <2>2. CASE StopExited(t)
    <3>1. Respectful(t)
      BY <2>2, <2>a
      DEF StopExited, EnterCleanup, handleVars, Goto, Alone, Unbound, TypeOK,
          RequestTypeOK
    <3>2. Bound(t)'
      BY <2>2, <2>a
      DEF StopExited, EnterCleanup, handleVars, Goto, Bound, Unbound, TypeOK,
          RequestTypeOK
    <3>3. outputLog' = outputLog
      BY <2>2 DEF StopExited, handleVars, EnterCleanup
    <3> QED
      BY <3>1, <3>2, <3>3, RespectfulStep
  <2>3. CASE StopLive(t)
    <3>1. Respectful(t)
      BY <2>3, <2>a
      DEF StopLive, handleVars, Goto, Alone, Unbound, TypeOK, RequestTypeOK
    <3>2. Bound(t)'
      BY <2>3, <2>a
      DEF StopLive, handleVars, Goto, Bound, Unbound, TypeOK, RequestTypeOK
    <3>3. outputLog' = outputLog
      BY <2>3 DEF StopLive, handleVars
    <3> QED
      BY <3>1, <3>2, <3>3, RespectfulStep
  <2>4. CASE TracyStopRefused(t)
    <3>1. Respectful(t)
      BY <2>4, <2>a, <2>b, ReturnForgets DEF TracyStopRefused, Unbound
    <3>2. Bound(t)'
      BY <2>4, ReturnForgets DEF TracyStopRefused
    <3>3. outputLog' = outputLog
      BY <2>4 DEF TracyStopRefused, handleVars
    <3> QED
      BY <3>1, <3>2, <3>3, RespectfulStep
  <2>5. CASE TracyStopExited(t)
    <3>1. Respectful(t)
      BY <2>5, <2>a
      DEF TracyStopExited, EnterCleanup, handleVars, Goto, Alone, Unbound, TypeOK,
          RequestTypeOK
    <3>2. Bound(t)'
      BY <2>5, <2>a
      DEF TracyStopExited, EnterCleanup, handleVars, Goto, Bound, Unbound, TypeOK,
          RequestTypeOK
    <3>3. outputLog' = outputLog
      BY <2>5 DEF TracyStopExited, handleVars, EnterCleanup
    <3> QED
      BY <3>1, <3>2, <3>3, RespectfulStep
  <2> QED
    BY <1>4, <2>1, <2>2, <2>3, <2>4, <2>5 DEF Stopping
<1>5. ASSUME NEW t \in Request, Waiting(t) PROVE Bindings' /\ Undisturbed
  <2>a. obs[t] # 0 => pc[t] \notin Unbound
    BY DEF Bindings, Bound
  <2>b. pc[t] \in {"killing", "closing"} => obs[t] \in {0, outputLog}
    BY DEF Bindings, Bound
  <2>1. CASE WaitResolved(t)
    <3>1. Respectful(t)
      BY <2>1
      DEF WaitResolved, handleVars, logVars, journalVars, LeavesOthers, Goto, Alone,
          TypeOK, RequestTypeOK
    <3>2. Bound(t)'
      BY <2>1, <2>a
      DEF WaitResolved, handleVars, Goto, Bound, Unbound, TypeOK, RequestTypeOK
    <3>3. outputLog' = outputLog
      BY <2>1 DEF WaitResolved, handleVars
    <3> QED
      BY <3>1, <3>2, <3>3, RespectfulStep
  <2>2. CASE ReportReplaced(t)
    <3>1. LeavesOthers(t)
      BY <2>2 DEF ReportReplaced, handleVars, logVars, journalVars, LeavesOthers
    <3>2. outputLog' = outputLog
      BY <2>2 DEF ReportReplaced, handleVars
    <3> QED
      BY <2>2, <3>1, <3>2, ReturnForgets, RespectfulStep DEF ReportReplaced
  <2>3. CASE ReportRunning(t)
    <3>1. Respectful(t)
      BY <2>3, ReturnForgets DEF ReportRunning, SameSession
    <3>2. Bound(t)'
      BY <2>3, ReturnForgets DEF ReportRunning
    <3>3. outputLog' = outputLog
      BY <2>3 DEF ReportRunning, handleVars
    <3> QED
      BY <3>1, <3>2, <3>3, RespectfulStep
  <2>4. CASE ReportExited(t)
    <3>1. Respectful(t)
      BY <2>4
      DEF ReportExited, EnterCleanup, handleVars, SameSession, Goto, Alone, TypeOK,
          RequestTypeOK
    <3>2. Bound(t)'
      BY <2>4
      DEF ReportExited, EnterCleanup, handleVars, SameSession, Goto, Bound, Unbound,
          TypeOK, RequestTypeOK
    <3>3. outputLog' = outputLog
      BY <2>4 DEF ReportExited, handleVars, EnterCleanup
    <3> QED
      BY <3>1, <3>2, <3>3, RespectfulStep
  <2> QED
    BY <1>5, <2>1, <2>2, <2>3, <2>4 DEF Waiting
<1>6. ASSUME NEW t \in Request, Cancel(t) PROVE Bindings' /\ Undisturbed
  <2>1. LeavesOthers(t)
    BY <1>6, GuardDroppedElsewhere
    DEF Cancel, handleVars, logVars, journalVars, LeavesOthers
  <2>2. outputLog' = outputLog
    BY <1>6 DEF Cancel, handleVars
  <2> QED
    BY <1>6, <2>1, <2>2, ReturnForgets, RespectfulStep DEF Cancel
<1>7. CASE Refresh
  BY <1>7, QuietStep DEF Refresh, requestVars
<1>8. CASE Background
  BY <1>8, QuietStep
  DEF Background, MonitorTick, ObserverSeesExit, ObserverDrains, requestVars,
      handleVars
<1>9. CASE Environment
  BY <1>9, QuietStep
  DEF Environment, ChildExits, TreeDies, Emit, Edit, requestVars, handleVars
<1>10. CASE UNCHANGED vars
  BY <1>10, QuietStep DEF vars, requestVars, handleVars
<1> QED
  BY <1>1, <1>2, <1>3, <1>4, <1>5, <1>6, <1>7, <1>8, <1>9, <1>10 DEF Next, Progress

(* No launch and no wait disturbs the runtime that replaced its own.         *)
THEOREM Replacement == Spec => ReplacementUndisturbed
<1>1. Init => Bindings
  BY DEF Init, Bindings, Bound
<1>2. IInv /\ Bindings /\ [Next]_vars => Bindings'
  BY BindingStep DEF IInv, Safe
<1>3. IInv /\ Bindings /\ [Next]_vars =>
        [\A t \in Request :
           pc'[t] # pc[t] /\ obs[t] \notin {0, outputLog} =>
             /\ UNCHANGED <<handleVars, integrity, summary, monitor>>
             /\ \A s \in Log \ {obs[t]} : /\ tree'[s] = tree[s]
                                          /\ running'[s] = running[s]
                                          /\ journal'[s] = journal[s]]_vars
  BY BindingStep DEF IInv, Safe, Undisturbed, LeavesOthers
<1> QED
  BY <1>1, <1>2, <1>3, Invariance, PTL DEF Spec, ReplacementUndisturbed

-----------------------------------------------------------------------------
(* The published status                                                      *)

(* No cleanup is given up half way: terminations are confirmed in time and   *)
(* no request is dropped.  Without this a stopped session keeps saying that  *)
(* it runs (CleanupTimesOut or Cancel after StopLive).                       *)
CleanupsComplete == {"cleanup", "cancel"} \cap Faults = {}

(* The runtime mutex is kept over an await only with no child to own.        *)
MutexIdlesHandle == rmutex # None => child = 0

(* Only the current log can say that its process runs.                       *)
OldLogsSilent == \A s \in Log : s # outputLog => ~running[s]

(* Between the kill and its confirmation the old status is still published;  *)
(* otherwise log, kind and handle agree.                                     *)
Agreed ==
  (\A t \in Request : pc[t] # "killing") =>
    /\ running[outputLog] <=> child # 0
    /\ kind # None <=> child # 0

(* An observer waits for the readers only after it has seen the exit.        *)
GraceAfterExit == grace => child = 0

Told == MutexIdlesHandle /\ OldLogsSilent /\ Agreed /\ GraceAfterExit /\ NoStrandedWait

(* While the mutex is free or another request holds it, nobody is killing.   *)
LEMMA NoKiller ==
  ASSUME Held, NEW t \in Request, rmutex = None \/ (rmutex = t /\ pc[t] # "killing")
  PROVE  \A u \in Request : pc[u] # "killing"
BY RuntimeConstants DEF Held, MutexHeld

(* A step that publishes nothing and leaves no kill keeps the status.        *)
LEMMA StatusKept ==
  ASSUME Told, NEW t \in Request, Moved(t), pc[t] # "killing",
         UNCHANGED <<child, outputLog, kind, running, drained>>, grace' => grace
  PROVE  Told'
BY DEF Told, MutexIdlesHandle, OldLogsSilent, Agreed, GraceAfterExit, NoStrandedWait,
       Moved

(* is_game_running publishes an exit to the log, the kind and the handle.    *)
LEMMA StatusProbed ==
  ASSUME TypeOK, Held, Told, rmutex = None, Probe, UNCHANGED <<outputLog, drained>>,
         child' = 0 \/ (rmutex' = None /\ (grace' => grace))
  PROVE  Told'
<1>1. \A u \in Request : pc[u] # "killing"
  BY RuntimeConstants DEF Held, MutexHeld
<1>2. running[outputLog] <=> child # 0
  BY <1>1 DEF Told, Agreed
<1>3. kind # None <=> child # 0
  BY <1>1 DEF Told, Agreed
<1>4. CASE Reaped
  <2>1. child' = 0 /\ kind' = None /\ running' = [running EXCEPT ![outputLog] = FALSE]
    BY <1>4 DEF Probe
  <2>2. \A s \in Log : ~running'[s]
    BY <2>1 DEF Told, OldLogsSilent, TypeOK, SessionTypeOK, HandleTypeOK
  <2> QED
    BY <2>1, <2>2 DEF Told, MutexIdlesHandle, OldLogsSilent, Agreed, GraceAfterExit,
                      NoStrandedWait, TypeOK, HandleTypeOK
<1>5. CASE ~Reaped
  <2>1. UNCHANGED <<child, kind, running>>
    BY <1>5 DEF Probe
  <2> QED
    BY <1>2, <1>3, <2>1 DEF Told, MutexIdlesHandle, OldLogsSilent, Agreed,
                            GraceAfterExit, NoStrandedWait
<1> QED
  BY <1>4, <1>5

(* With no game running is_game_running leaves no child.                     *)
LEMMA ProbedAway ==
  ASSUME Probe, ~GameRunning
  PROVE  child' = 0
BY DEF Probe, GameRunning

(* Taking and killing the child happens under the mutex.                     *)
LEMMA StatusKilled ==
  ASSUME TypeOK, Told, NEW t \in Request, rmutex = None, Kill, Goto(t, "killing"),
         UNCHANGED <<outputLog, kind, running, drained, grace>>
  PROVE  Told'
<1>1. child' = 0 /\ pc'[t] = "killing"
  BY DEF Kill, Goto, TypeOK, RequestTypeOK
<1> QED
  BY <1>1 DEF Told, MutexIdlesHandle, OldLogsSilent, Agreed, GraceAfterExit,
              NoStrandedWait

(* A cleared launch owns nothing and every log is silent.                    *)
LEMMA ClearedSilent ==
  ASSUME TypeOK, Held, Told, NEW t \in Request, pc[t] = "cleared"
  PROVE  /\ child = 0 /\ kind = None /\ rmutex = t
         /\ \A s \in Log : ~running[s]
<1>1. rmutex = t /\ rmutex # None
  BY RuntimeConstants DEF Held, MutexHeld
<1>2. child = 0
  BY <1>1 DEF Told, MutexIdlesHandle
<1>3. \A u \in Request : pc[u] # "killing"
  BY <1>1, NoKiller
<1> QED
  BY <1>1, <1>2, <1>3 DEF Told, Agreed, OldLogsSilent

(* A launch that fails after it replaced the log leaves a silent, drained one. *)
LEMMA StatusReplaced ==
  ASSUME TypeOK, TypeOK', Held, Told, NEW t \in Request, pc[t] = "cleared",
         UNCHANGED <<child, kind, running>>, ~grace'
  PROVE  Told'
<1>1. child = 0 /\ kind = None /\ \A s \in Log : ~running[s]
  BY ClearedSilent
<1>2. outputLog' \in Log
  BY DEF TypeOK, HandleTypeOK
<1> QED
  BY <1>1, <1>2 DEF Told, MutexIdlesHandle, OldLogsSilent, Agreed, GraceAfterExit,
                    NoStrandedWait

(* A spawn publishes the new handle, its kind and its log together.          *)
LEMMA StatusSpawned ==
  ASSUME TypeOK, Held, Told, NEW t \in Request, pc[t] = "cleared",
         NEW s \in Session, Spawned(t, s), rmutex' = None, ~grace'
  PROVE  Told'
<1>1. \A x \in Log : ~running[x]
  BY ClearedSilent
<1>2. s \in Log /\ s # 0 /\ outputLog \in Log /\ s # outputLog
  BY Logs, RuntimeConstants
  DEF TypeOK, HandleTypeOK, Spawned, ReplaceLog, Log, Session
<1>3. child' = s /\ outputLog' = s /\ kind' # None
  BY RuntimeConstants DEF Spawned, ReplaceLog, Kinds
<1>4. running' = [running EXCEPT ![s] = TRUE]
      /\ drained' = [drained EXCEPT ![outputLog] = TRUE, ![s] = FALSE]
  BY DEF Spawned
<1>5. running'[s] /\ ~drained'[s] /\ \A x \in Log : x # s => ~running'[x]
  BY <1>1, <1>2, <1>4 DEF TypeOK, SessionTypeOK
<1> QED
  BY <1>2, <1>3, <1>5 DEF Told, MutexIdlesHandle, OldLogsSilent, Agreed,
                          GraceAfterExit, NoStrandedWait

(* Every step keeps the published status.                                    *)
LEMMA StatusStep ==
  ASSUME CleanupsComplete
  PROVE  TypeOK /\ Held /\ Told /\ [Next]_vars => Told'
<1> SUFFICES ASSUME TypeOK, Held, Told, [Next]_vars PROVE Told'
  OBVIOUS
<1>0. TypeOK'
  BY TypeStep
<1>1. ASSUME NEW t \in Request, Arriving(t) PROVE Told'
  <2>1. CASE BeginRun(t)
    BY <2>1, StatusKept
    DEF BeginRun, Begin, handleVars, watchVars, logVars, Goto, Moved, TypeOK,
        RequestTypeOK
  <2>2. CASE BeginTracy(t)
    BY <2>2, StatusKept
    DEF BeginTracy, Begin, handleVars, watchVars, logVars, Goto, Moved, TypeOK,
        RequestTypeOK
  <2>3. CASE BeginStop(t)
    BY <2>3, StatusKept
    DEF BeginStop, Begin, handleVars, watchVars, logVars, Goto, Moved, TypeOK,
        RequestTypeOK
  <2>4. CASE BeginTracyStop(t)
    BY <2>4, StatusKept
    DEF BeginTracyStop, Begin, handleVars, watchVars, logVars, Goto, Moved, TypeOK,
        RequestTypeOK
  <2>5. CASE StatusRunning(t)
    BY <2>5, StatusKept
    DEF StatusRunning, requestVars, handleVars, watchVars, logVars, Goto, Moved,
        TypeOK, RequestTypeOK
  <2>6. CASE StatusExited(t)
    BY <2>6, ProbedAway, StatusProbed DEF StatusExited, EnterCleanup, watchVars
  <2>7. CASE BeginWait(t)
    BY <2>7, StatusProbed DEF BeginWait, watchVars
  <2> QED
    BY <1>1, <2>1, <2>2, <2>3, <2>4, <2>5, <2>6, <2>7 DEF Arriving
<1>2. ASSUME NEW t \in Request, Launching(t) PROVE Told'
  <2>1. CASE RunRefused(t)
    BY <2>1, ReturnType, StatusKept DEF RunRefused, handleVars, watchVars, logVars
  <2>2. CASE RunClears(t)
    BY <2>2, ProbedAway, StatusProbed DEF RunClears, EnterCleanup, watchVars
  <2>3. CASE RunRejected(t)
    BY <2>3, FailLaunchType, StatusKept
    DEF RunRejected, handleVars, watchVars, logVars
  <2>4. CASE RunJournalFails(t)
    BY <2>4, <1>0, StatusReplaced DEF RunJournalFails
  <2>5. CASE RunSpawnFails(t)
    BY <2>5, <1>0, StatusReplaced DEF RunSpawnFails
  <2>6. CASE RunLaunched(t)
    BY <2>6, StatusSpawned DEF RunLaunched
  <2>7. CASE RunProcessIdFails(t)
    <3>1. rmutex' = None
      BY <2>7, ClearedSilent DEF RunProcessIdFails, Return, Unlock
    <3> QED
      BY <2>7, <3>1, StatusSpawned DEF RunProcessIdFails
  <2>8. CASE LaunchReplaced(t)
    BY <2>8, FailLaunchType, StatusKept
    DEF LaunchReplaced, handleVars, watchVars, logVars
  <2>9. CASE LaunchSettled(t)
    BY <2>9, StatusKept
    DEF LaunchSettled, handleVars, watchVars, logVars, Goto, Moved, TypeOK,
        RequestTypeOK
  <2>10. CASE LaunchExitedEarly(t)
    BY <2>10, ProbedAway, StatusProbed DEF LaunchExitedEarly, EnterCleanup, watchVars
  <2>11. CASE ReadinessResolved(t)
    BY <2>11, StatusKept
    DEF ReadinessResolved, handleVars, watchVars, logVars, Goto, Moved, TypeOK,
        RequestTypeOK
  <2>12. CASE UnreadyAdmitted(t)
    BY <2>12, StatusKept
    DEF UnreadyAdmitted, handleVars, watchVars, logVars, Goto, Moved, TypeOK,
        RequestTypeOK
  <2>13. CASE UnreadyTakedown(t)
    BY <2>13, StatusKilled DEF UnreadyTakedown, watchVars, logVars
  <2>14. CASE LaunchPublished(t)
    BY <2>14, ReturnType, FailLaunchType, StatusKept
    DEF LaunchPublished, handleVars, watchVars, logVars
  <2>15. CASE LaunchPublishFails(t)
    BY <2>15, FailLaunchType, StatusKept
    DEF LaunchPublishFails, handleVars, watchVars, logVars
  <2>16. CASE LaunchEnded(t)
    BY <2>16, ProbedAway, StatusProbed DEF LaunchEnded, watchVars
  <2> QED
    BY <1>2, <2>1, <2>2, <2>3, <2>4, <2>5, <2>6, <2>7, <2>8, <2>9, <2>10, <2>11,
       <2>12, <2>13, <2>14, <2>15, <2>16
    DEF Launching
<1>3. ASSUME NEW t \in Request, Closing(t) PROVE Told'
  <2>1. CASE KillConfirmed(t)
    <3>1. child = 0 /\ rmutex = t /\ rmutex # None
      BY <2>1, RuntimeConstants
      DEF KillConfirmed, Held, MutexHeld, Told, MutexIdlesHandle
    <3>2. outputLog \in Log /\ \A s \in Log : ~running'[s]
      BY <2>1
      DEF KillConfirmed, Told, OldLogsSilent, TypeOK, HandleTypeOK, SessionTypeOK
    <3>3. kind' = None /\ child' = 0 /\ outputLog' = outputLog
      BY <2>1, <3>1 DEF KillConfirmed
    <3> QED
      BY <2>1, <3>1, <3>2, <3>3
      DEF Told, MutexIdlesHandle, OldLogsSilent, Agreed, GraceAfterExit,
          NoStrandedWait
  <2>2. CASE Finalize(t)
    <3>1. CASE pc[t] = "clearing"
      BY <2>2, <3>1, StatusKept
      DEF Finalize, Goto, watchVars, logVars, Moved, TypeOK, RequestTypeOK
    <3>2. CASE pc[t] # "clearing"
      BY <2>2, <3>2, FinishType, StatusKept DEF Finalize, watchVars, logVars
    <3> QED
      BY <3>1, <3>2
  <2>3. CASE FinalizeFails(t)
    BY <2>3, FinishType, ReturnType, StatusKept
    DEF FinalizeFails, handleVars, watchVars, logVars
  <2>4. CASE CleanupTimesOut(t)
    BY <2>4 DEF CleanupTimesOut, CleanupsComplete
  <2>5. CASE TracyStopConfirmed(t)
    BY <2>5, ReturnType, StatusKept
    DEF TracyStopConfirmed, handleVars, watchVars, logVars
  <2> QED
    BY <1>3, <2>1, <2>2, <2>3, <2>4, <2>5 DEF Closing
<1>4. ASSUME NEW t \in Request, Stopping(t) PROVE Told'
  <2>1. CASE StopIdle(t)
    BY <2>1, ReturnType, StatusKept DEF StopIdle, handleVars, watchVars, logVars
  <2>2. CASE StopExited(t)
    BY <2>2, ProbedAway, StatusProbed DEF StopExited, EnterCleanup, watchVars
  <2>3. CASE StopLive(t)
    BY <2>3, StatusKilled DEF StopLive, watchVars, logVars
  <2>4. CASE TracyStopRefused(t)
    BY <2>4, ReturnType, StatusKept
    DEF TracyStopRefused, handleVars, watchVars, logVars
  <2>5. CASE TracyStopExited(t)
    BY <2>5, ProbedAway, StatusProbed DEF TracyStopExited, EnterCleanup, watchVars
  <2> QED
    BY <1>4, <2>1, <2>2, <2>3, <2>4, <2>5 DEF Stopping
<1>5. ASSUME NEW t \in Request, Waiting(t) PROVE Told'
  <2>1. CASE WaitResolved(t)
    BY <2>1, StatusKept
    DEF WaitResolved, handleVars, watchVars, logVars, Goto, Moved, TypeOK,
        RequestTypeOK
  <2>2. CASE ReportReplaced(t)
    BY <2>2, ReturnType, StatusKept DEF ReportReplaced, handleVars, watchVars, logVars
  <2>3. CASE ReportRunning(t)
    BY <2>3, ReturnType, StatusKept DEF ReportRunning, handleVars, watchVars, logVars
  <2>4. CASE ReportExited(t)
    BY <2>4, ProbedAway, StatusProbed DEF ReportExited, EnterCleanup, watchVars
  <2> QED
    BY <1>5, <2>1, <2>2, <2>3, <2>4 DEF Waiting
<1>6. ASSUME NEW t \in Request, Cancel(t) PROVE Told'
  BY <1>6 DEF Cancel, CleanupsComplete
<1>7. CASE Refresh
  BY <1>7, StatusProbed DEF Refresh, requestVars, watchVars
<1>8. CASE MonitorTick
  BY <1>8
  DEF MonitorTick, requestVars, handleVars, watchVars, logVars, Told,
      MutexIdlesHandle,
      OldLogsSilent, Agreed, GraceAfterExit, NoStrandedWait
<1>9. CASE ObserverSeesExit
  BY <1>9, ProbedAway, StatusProbed DEF ObserverSeesExit, requestVars
<1>10. CASE ObserverDrains
  <2>1. \A u \in Request : pc[u] # "killing"
    BY <1>10, RuntimeConstants DEF ObserverDrains, Held, MutexHeld
  <2>2. ~running[outputLog]
    BY <1>10, <2>1 DEF ObserverDrains, Told, Agreed, GraceAfterExit
  <2> QED
    BY <1>10, <2>2
    DEF ObserverDrains, requestVars, handleVars, Told, MutexIdlesHandle,
        OldLogsSilent,
        Agreed, GraceAfterExit, NoStrandedWait
<1>11. CASE Environment
  BY <1>11
  DEF Environment, ChildExits, TreeDies, Emit, Edit, requestVars, handleVars,
      watchVars,
      logVars, Told, MutexIdlesHandle, OldLogsSilent, Agreed, GraceAfterExit,
      NoStrandedWait
<1>12. CASE UNCHANGED vars
  BY <1>12
  DEF vars, requestVars, handleVars, watchVars, logVars, Told, MutexIdlesHandle,
      OldLogsSilent, Agreed, GraceAfterExit, NoStrandedWait
<1> QED
  BY <1>1, <1>2, <1>3, <1>4, <1>5, <1>6, <1>7, <1>8, <1>9, <1>10, <1>11, <1>12
  DEF Next, Progress, Background

(* The status agrees with the handle in every state.                         *)
LEMMA Telling ==
  ASSUME CleanupsComplete
  PROVE  Spec => []Told
<1>1. Init => Told
  BY Logs DEF Init, Told, MutexIdlesHandle, OldLogsSilent, Agreed, GraceAfterExit,
              NoStrandedWait
<1>2. IInv /\ Told /\ [Next]_vars => Told'
  BY StatusStep DEF IInv, Safe
<1> QED
  BY <1>1, <1>2, Invariance, PTL DEF Spec

(* At rest log, kind and handle tell the same story.                         *)
THEOREM Status == CleanupsComplete => (Spec => []PublishedStatus)
<1> SUFFICES ASSUME CleanupsComplete PROVE Spec => []PublishedStatus
  OBVIOUS
<1>1. IInv /\ Told => PublishedStatus
  BY RuntimeConstants DEF IInv, Safe, Held, MutexHeld, Told, Agreed, PublishedStatus
<1> QED
  BY <1>1, Invariance, Telling, PTL

(* No wait is left on a log whose readers have ended.                        *)
THEOREM WaitsEnd == CleanupsComplete => (Spec => []NoStrandedWait)
<1> SUFFICES ASSUME CleanupsComplete PROVE Spec => []NoStrandedWait
  OBVIOUS
<1>1. Told => NoStrandedWait
  BY DEF Told
<1> QED
  BY <1>1, Telling, PTL

-----------------------------------------------------------------------------
(* The life of the integrity journals                                        *)

(* Only standard sessions are launched, and their journals can be created.   *)
(* Without this the journal of an earlier session is finalized again (see    *)
(* the run terminal_journal_rewritten).                                      *)
StandardSessions == "tracy" \notin LaunchKinds /\ "create" \notin Faults

JournalStatus == [s \in Log |-> journal[s].status]
JournalEvents == [s \in Log |-> journal[s].events]

(* No request launches or stops a Tracy runtime, and only a launch replaces  *)
(* a session.                                                                *)
NoTracy ==
  \A t \in Request : /\ op[t] \notin {"tracy", "tracyStop"}
                     /\ pc[t] \in {"clearing", "cleared"} => op[t] = "run"

(* A session still to come has no journal.                                   *)
Unopened ==
  \A s \in Log : s > outputLog => journal[s].status = "absent" /\ journal[s].events = {}

(* The retained summary is final exactly when the retained journal is.       *)
SummaryTrue ==
  /\ integrity # 0 => /\ journal[integrity].status \in {"active"} \cup Terminal
                      /\ summary \in Terminal <=> journal[integrity].status \in Terminal
  /\ integrity = 0 => summary \notin Terminal

(* The monitor and the owned child belong to an active journal, and a launch *)
(* that has cleared the last session finds no monitor.                       *)
WritersActive ==
  /\ monitor # 0 => monitor = integrity /\ journal[integrity].status = "active"
  /\ child # 0 => integrity # 0 /\ journal[integrity].status = "active"
  /\ \A t \in Request : pc[t] = "cleared" => monitor = 0

Kept == NoTracy /\ Unopened /\ SummaryTrue /\ WritersActive /\ MutexIdlesHandle

Lives == [JournalLife!Next]_<<JournalStatus, JournalEvents>>

(* One document is replaced by one that its life allows.                     *)
LEMMA LifeStep ==
  ASSUME TypeOK, NEW j \in Log, NEW d \in Journal, journal' = [journal EXCEPT ![j] = d],
         journal[j].events \subseteq d.events,
         \/ journal[j].status = "active" /\ d.status = "active"
         \/ journal[j].status \in {"absent", "active"} /\ d.status = Verdict(d.events)
         \/ /\ journal[j].status = "absent" /\ d.status = "active"
            /\ d.events = journal[j].events
  PROVE  Lives
<1>1. journal \in [Log -> Journal]
  BY DEF TypeOK, JournalTypeOK
<1>2. /\ JournalStatus' = [JournalStatus EXCEPT ![j] = d.status]
      /\ JournalEvents' = [JournalEvents EXCEPT ![j] = d.events]
  BY <1>1 DEF JournalStatus, JournalEvents
<1>3. /\ JournalStatus[j] = journal[j].status /\ JournalEvents[j] = journal[j].events
      /\ JournalEvents'[j] = d.events
  BY <1>1 DEF JournalStatus, JournalEvents
<1>4. d.events \subseteq Mutation
  BY DEF Journal
<1>5. JournalLife!Grown(j)
  BY <1>2, <1>3, <1>4 DEF JournalLife!Grown, JournalEvents
<1>6. CASE journal[j].status = "active" /\ d.status = "active"
  <2>1. JournalStatus' = JournalStatus
    BY <1>2, <1>3, <1>6 DEF JournalStatus
  <2>2. JournalLife!Record(j)
    BY <1>3, <1>5, <1>6, <2>1 DEF JournalLife!Record, JournalStatus
  <2> QED
    BY <2>2 DEF Lives, JournalLife!Next
<1>7. CASE journal[j].status \in {"absent", "active"} /\ d.status = Verdict(d.events)
  <2>1. Verdict(d.events) = JournalLife!Verdict(d.events)
    BY DEF Verdict, JournalLife!Verdict, JournalLife!Deletion
  <2>2. JournalLife!Close(j) \/ JournalLife!Discard(j)
    BY <1>2, <1>3, <1>5, <1>7, <2>1
    DEF JournalLife!Close, JournalLife!Discard, JournalStatus, JournalEvents
  <2> QED
    BY <2>2 DEF Lives, JournalLife!Next
<1>8. CASE journal[j].status = "absent" /\ d.status = "active" /\ d.events = journal[j].events
  <2>1. JournalEvents' = JournalEvents
    BY <1>2, <1>3, <1>8 DEF JournalEvents
  <2>2. JournalLife!Open(j)
    BY <1>2, <1>3, <1>8, <2>1 DEF JournalLife!Open, JournalStatus, JournalEvents
  <2> QED
    BY <2>2 DEF Lives, JournalLife!Next
<1> QED
  BY <1>6, <1>7, <1>8

(* A step that writes no journal is a stutter of every life.                 *)
LEMMA LifeStutters ==
  ASSUME journal' = journal
  PROVE  Lives
BY DEF Lives, JournalStatus, JournalEvents

(* No handle appears, no log is replaced, and the mutex is taken only        *)
(* without a child.                                                          *)
HandlesKept ==
  /\ outputLog' = outputLog
  /\ child' \in {child, 0}
  /\ rmutex' # None => child' = 0

(* No request becomes a Tracy one, and none has cleared the last session.    *)
RequestsKept ==
  /\ NoTracy'
  /\ \A u \in Request : pc'[u] = "cleared" => pc[u] = "cleared"

(* Without Tracy every failure answers.                                      *)
LEMMA FailuresReturn ==
  ASSUME NoTracy, NEW t \in Request, FailLaunch(t) \/ Finish(t)
  PROVE  Return(t)
BY DEF NoTracy, FailLaunch, Finish

LEMMA ReturnKeeps ==
  ASSUME TypeOK, NoTracy, NEW t \in Request, Return(t)
  PROVE  RequestsKept /\ rmutex' \in {rmutex, None}
BY DEF TypeOK, RequestTypeOK, NoTracy, Return, Goto, Unlock, RequestsKept

(* A step that writes no journal keeps the relation of handles and journals. *)
LEMMA JournalsUntouched ==
  ASSUME Kept, HandlesKept, RequestsKept, UNCHANGED journalVars
  PROVE  Kept' /\ Lives
<1>1. Lives
  BY LifeStutters DEF journalVars
<1> QED
  BY <1>1 DEF Kept, HandlesKept, RequestsKept, journalVars, Unopened, SummaryTrue,
              WritersActive, MutexIdlesHandle

(* So does a checkpoint of an active journal, whether or not it is written.  *)
LEMMA JournalsRecorded ==
  ASSUME TypeOK, Kept, HandlesKept, RequestsKept,
         ObserveSession \/ UNCHANGED journal,
         integrity # 0 => journal[integrity].status = "active",
         integrity' = integrity, monitor' \in {monitor, 0},
         summary' = summary \/ (integrity # 0 /\ summary' = journal[integrity].status)
  PROVE  Kept' /\ Lives
<1>1. journal \in [Log -> Journal] /\ integrity \in Log
  BY DEF TypeOK, JournalTypeOK
<1>2. \A s \in Log : journal'[s].status = journal[s].status
  BY ObserveSessionType
<1>3. \A s \in Log : s # integrity \/ integrity = 0 => journal'[s] = journal[s]
  BY <1>1 DEF ObserveSession
<1>4. Unopened'
  BY <1>1, <1>2, <1>3 DEF Kept, Unopened, HandlesKept, SummaryTrue
<1>5. SummaryTrue' /\ WritersActive'
  BY <1>1, <1>2
  DEF Kept, SummaryTrue, WritersActive, HandlesKept, RequestsKept, Terminal
<1>6. Kept'
  BY <1>4, <1>5 DEF Kept, HandlesKept, RequestsKept, MutexIdlesHandle
<1>7. CASE UNCHANGED journal
  BY <1>6, <1>7, LifeStutters
<1>8. CASE ObserveSession /\ integrity # 0
  <2>1. journal[integrity] \in Journal
    BY <1>1
  <2>2. journal' = [journal EXCEPT ![integrity] = Observed(journal[integrity])]
    BY <1>8 DEF ObserveSession
  <2>3. Observed(journal[integrity]) \in Journal
        /\ Observed(journal[integrity]).status = "active"
    BY <1>8, <2>1, ObservedJournal
  <2>4. journal[integrity].events \subseteq Observed(journal[integrity]).events
    BY <2>1 DEF Observed, Journal
  <2> QED
    BY <1>1, <1>6, <1>8, <2>2, <2>3, <2>4, LifeStep
<1> QED
  BY <1>7, <1>8 DEF ObserveSession

(* A confirmed cleanup closes the retained journal unless it is closed.      *)
LEMMA JournalClosed ==
  ASSUME TypeOK, Kept, NEW t \in Request, rmutex = t, Finalize(t), NoTracy',
         rmutex' \in {rmutex, None}
  PROVE  Kept' /\ Lives
<1>1. journal \in [Log -> Journal] /\ integrity \in Log
  BY DEF TypeOK, JournalTypeOK
<1>2. child = 0 /\ child' = 0 /\ outputLog' = outputLog /\ integrity' = integrity
  BY RuntimeConstants DEF Kept, MutexIdlesHandle, Finalize
<1>3. CASE summary \in Terminal \/ integrity = 0
  <2>1. UNCHANGED <<summary, journal>> /\ monitor' = 0
    BY <1>3 DEF Finalize, Kept, SummaryTrue, WritersActive, Terminal
  <2> QED
    BY <1>2, <2>1, LifeStutters
    DEF Kept, Unopened, SummaryTrue, WritersActive, MutexIdlesHandle
<1>4. CASE summary \notin Terminal /\ integrity # 0
  <2> DEFINE d == Finalized(journal[integrity])
  <2>1. journal' = [journal EXCEPT ![integrity] = d]
    BY <1>4 DEF Finalize
  <2>2. journal[integrity] \in Journal /\ journal[integrity].status = "active"
    BY <1>1, <1>4 DEF Kept, SummaryTrue
  <2>3. d \in Journal /\ d.status \in Terminal
    BY <2>2, FinalizedJournal
  <2>4. journal[integrity].events \subseteq d.events /\ d.status = Verdict(d.events)
    BY <2>2 DEF Finalized, Observed, Journal
  <2> HIDE DEF d
  <2>5. Lives
    BY <1>1, <2>1, <2>2, <2>3, <2>4, LifeStep
  <2>6. /\ journal'[integrity] = d
        /\ \A s \in Log : s # integrity => journal'[s] = journal[s]
    BY <1>1, <2>1
  <2>7. summary' = journal'[integrity].status /\ monitor' = 0
    BY <1>4 DEF Finalize
  <2>8. Unopened'
    BY <1>1, <1>2, <2>2, <2>6 DEF Kept, Unopened
  <2>9. SummaryTrue' /\ WritersActive'
    BY <1>2, <1>4, <2>3, <2>6, <2>7 DEF SummaryTrue, WritersActive
  <2> QED
    BY <1>2, <2>5, <2>8, <2>9 DEF Kept, MutexIdlesHandle
<1> QED
  BY <1>3, <1>4

(* A new journal has observed nothing yet.                                   *)
LEMMA OpenedUnchanged ==
  Mutations(OpenedJournal.baseline) = {} /\ OpenedJournal.events = {}
BY DEF Mutations, OpenedJournal

(* A session whose process cannot be started leaves a journal that was       *)
(* opened and, unless that failed too, closed.                               *)
LEMMA JournalDiscarded ==
  ASSUME TypeOK, Kept, NEW t \in Request, NEW s \in Session,
         pc[t] = "cleared", op[t] = "run", ReplaceLog(s), SpawnFailed(t, s),
         child = 0, child' = 0, monitor' = 0, NoTracy'
  PROVE  Kept' /\ Lives
<1>1. journal \in [Log -> Journal] /\ s \in Log /\ s # 0 /\ s > outputLog
      /\ outputLog' = s /\ s \in Int /\ outputLog \in Int
  BY Logs, RuntimeConstants
  DEF TypeOK, JournalTypeOK, HandleTypeOK, ReplaceLog, Log, Session
<1>2. journal[s].status = "absent" /\ journal[s].events = {}
  BY <1>1 DEF Kept, Unopened
<1>3. OpenedJournal \in Journal /\ OpenedJournal.status = "active"
      /\ OpenedJournal.events = {}
  BY OpenedJournalIsActive, OpenedUnchanged
<1>4. PICK d \in {OpenedJournal, Observed(OpenedJournal), Finalized(OpenedJournal)} :
        /\ journal' = [journal EXCEPT ![s] = d]
        /\ summary' = IF d = Finalized(OpenedJournal) THEN journal'[s].status ELSE "none"
  <2> DEFINE opened == [journal EXCEPT ![s] = OpenedJournal]
  <2>1. opened[s] = OpenedJournal
    BY <1>1
  <2>2. \A e : [opened EXCEPT ![s] = e] = [journal EXCEPT ![s] = e]
    BY <1>1
  <2>3. \/ /\ journal' = [opened EXCEPT ![s] = Finalized(opened[s])]
           /\ summary' = journal'[s].status
        \/ journal' = opened /\ summary' = "none"
        \/ journal' = [opened EXCEPT ![s] = Observed(opened[s])] /\ summary' = "none"
    BY <1>1 DEF SpawnFailed
  <2>4. Finalized(OpenedJournal) \notin {OpenedJournal, Observed(OpenedJournal)}
    BY <1>3, FinalizedJournal, ObservedJournal DEF Terminal
  <2> HIDE DEF opened
  <2>5. CASE journal' = opened /\ summary' = "none"
    BY <2>4, <2>5 DEF opened
  <2>6. CASE /\ journal' = [opened EXCEPT ![s] = Finalized(opened[s])]
             /\ summary' = journal'[s].status
    <3>1. journal' = [journal EXCEPT ![s] = Finalized(OpenedJournal)]
      BY <2>1, <2>2, <2>6
    <3> QED
      BY <2>6, <3>1
  <2>7. CASE journal' = [opened EXCEPT ![s] = Observed(opened[s])] /\ summary' = "none"
    BY <2>1, <2>2, <2>4, <2>7
  <2> QED
    BY <2>3, <2>5, <2>6, <2>7
<1>6. journal' = [journal EXCEPT ![s] = d]
  BY <1>4
<1>7. d \in Journal
  BY <1>3, <1>4, FinalizedJournal, ObservedJournal
<1>8. \/ d.status = "active" /\ d.events = {} /\ summary' = "none"
      \/ d.status = Verdict(d.events) /\ d.status \in Terminal /\ summary' = d.status
  <2>1. Observed(OpenedJournal).status = "active" /\ Observed(OpenedJournal).events = {}
    BY <1>3, ObservedJournal, OpenedUnchanged DEF Observed, Journal
  <2>2. Finalized(OpenedJournal).status = Verdict(Finalized(OpenedJournal).events)
        /\ Finalized(OpenedJournal).status \in Terminal
    BY <1>3, FinalizedJournal, ObservedJournal DEF Finalized, Journal
  <2>3. journal'[s] = d
    BY <1>1, <1>6
  <2> QED
    BY <1>3, <1>4, <2>1, <2>2, <2>3
<1>9. Lives
  BY <1>1, <1>2, <1>6, <1>7, <1>8, LifeStep
<1>10. journal'[s] = d /\ \A x \in Log : x # s => journal'[x] = journal[x]
  BY <1>1, <1>6
<1>11. Unopened'
  BY <1>1, <1>10, RuntimeConstants DEF Kept, Unopened, Log
<1>12. integrity' = s
  BY DEF SpawnFailed
<1>13. SummaryTrue' /\ WritersActive'
  BY <1>1, <1>8, <1>10, <1>12 DEF SummaryTrue, WritersActive, Terminal
<1> QED
  BY <1>9, <1>11, <1>13 DEF Kept, MutexIdlesHandle

(* A spawned standard session opens its journal.                             *)
LEMMA JournalOpened ==
  ASSUME TypeOK, Kept, NEW t \in Request, NEW s \in Session, pc[t] = "cleared",
         op[t] = "run", Spawned(t, s), monitor' \in {monitor, s}, rmutex' = None, NoTracy',
         \A u \in Request : pc'[u] # "cleared"
  PROVE  Kept' /\ Lives
<1>1. journal \in [Log -> Journal] /\ s \in Log /\ s # 0 /\ s > outputLog
      /\ outputLog' = s /\ s \in Int /\ outputLog \in Int
  BY Logs, RuntimeConstants
  DEF TypeOK, JournalTypeOK, HandleTypeOK, Spawned, ReplaceLog, Log, Session
<1>2. journal[s].status = "absent" /\ journal[s].events = {} /\ monitor = 0
  BY <1>1 DEF Kept, Unopened, WritersActive
<1>3. OpenedJournal \in Journal /\ OpenedJournal.status = "active"
      /\ OpenedJournal.events = {}
  BY OpenedJournalIsActive, OpenedUnchanged
<1>4. /\ journal' = [journal EXCEPT ![s] = OpenedJournal]
      /\ integrity' = s /\ child' = s /\ summary' = "none"
  BY DEF Spawned
<1>5. Lives
  BY <1>1, <1>2, <1>3, <1>4, LifeStep
<1>6. journal'[s] = OpenedJournal /\ \A x \in Log : x # s => journal'[x] = journal[x]
  BY <1>1, <1>4
<1>7. Unopened'
  BY <1>1, <1>6, RuntimeConstants DEF Kept, Unopened, Log
<1>8. SummaryTrue' /\ WritersActive'
  BY <1>1, <1>2, <1>3, <1>4, <1>6 DEF SummaryTrue, WritersActive, Terminal
<1> QED
  BY <1>5, <1>7, <1>8 DEF Kept, MutexIdlesHandle

(* Every step of the lifecycle is a step of the journals' life or a stutter. *)
LEMMA JournalStep ==
  ASSUME StandardSessions
  PROVE  TypeOK /\ Held /\ Kept /\ [Next]_vars => Kept' /\ Lives
<1> SUFFICES ASSUME TypeOK, Held, Kept, [Next]_vars PROVE Kept' /\ Lives
  OBVIOUS
<1>0. NoTracy /\ (rmutex # None => child = 0)
  BY DEF Kept, MutexIdlesHandle
<1>1. ASSUME NEW t \in Request, Arriving(t) PROVE Kept' /\ Lives
  <2>1. CASE BeginRun(t)
    <3>1. RequestsKept
      BY <2>1, <1>0
      DEF BeginRun, Begin, Goto, RequestsKept, NoTracy, TypeOK, RequestTypeOK
    <3>2. HandlesKept
      BY <2>1, <1>0 DEF BeginRun, Begin, HandlesKept, handleVars
    <3> QED
      BY <2>1, <3>1, <3>2, JournalsUntouched DEF BeginRun, Begin
  <2>2. CASE BeginTracy(t)
    BY <2>2, <1>0 DEF BeginTracy, NoTracy, StandardSessions
  <2>3. CASE BeginStop(t)
    <3>1. RequestsKept
      BY <2>3, <1>0
      DEF BeginStop, Begin, Goto, RequestsKept, NoTracy, TypeOK, RequestTypeOK
    <3>2. HandlesKept
      BY <2>3, <1>0 DEF BeginStop, Begin, HandlesKept, handleVars
    <3> QED
      BY <2>3, <3>1, <3>2, JournalsUntouched DEF BeginStop, Begin
  <2>4. CASE BeginTracyStop(t)
    BY <2>4, <1>0 DEF BeginTracyStop, NoTracy, StandardSessions
  <2>5. CASE StatusRunning(t)
    <3>1. RequestsKept /\ HandlesKept
      BY <2>5, <1>0
      DEF StatusRunning, requestVars, handleVars, RequestsKept, HandlesKept, NoTracy
    <3>2. journal[integrity].status = "active"
      BY <2>5 DEF StatusRunning, GameRunning, Kept, WritersActive
    <3> QED
      BY <2>5, <3>1, <3>2, JournalsRecorded DEF StatusRunning
  <2>6. CASE StatusExited(t)
    <3>1. RequestsKept
      BY <2>6, <1>0
      DEF StatusExited, EnterCleanup, Goto, RequestsKept, NoTracy, TypeOK,
          RequestTypeOK
    <3>2. HandlesKept
      BY <2>6, ProbedAway DEF StatusExited, EnterCleanup, HandlesKept
    <3> QED
      BY <2>6, <3>1, <3>2, JournalsUntouched DEF StatusExited
  <2>7. CASE BeginWait(t)
    <3>1. RequestsKept
      BY <2>7, <1>0 DEF BeginWait, Goto, RequestsKept, NoTracy, TypeOK, RequestTypeOK
    <3>2. HandlesKept
      BY <2>7 DEF BeginWait, Probe, HandlesKept
    <3> QED
      BY <2>7, <3>1, <3>2, JournalsUntouched DEF BeginWait
  <2> QED
    BY <1>1, <2>1, <2>2, <2>3, <2>4, <2>5, <2>6, <2>7 DEF Arriving
<1>2. ASSUME NEW t \in Request, Launching(t) PROVE Kept' /\ Lives
  <2>1. CASE RunRefused(t)
    <3>1. RequestsKept /\ rmutex' \in {rmutex, None}
      BY <2>1, <1>0, ReturnKeeps DEF RunRefused
    <3> QED
      BY <2>1, <1>0, <3>1, JournalsUntouched DEF RunRefused, HandlesKept, handleVars
  <2>2. CASE RunClears(t)
    <3>1. RequestsKept
      BY <2>2, <1>0
      DEF RunClears, EnterCleanup, Goto, RequestsKept, NoTracy, TypeOK, RequestTypeOK
    <3>2. HandlesKept
      BY <2>2, ProbedAway DEF RunClears, EnterCleanup, HandlesKept
    <3> QED
      BY <2>2, <3>1, <3>2, JournalsUntouched DEF RunClears
  <2>3. CASE RunRejected(t)
    <3>1. RequestsKept /\ rmutex' \in {rmutex, None}
      BY <2>3, <1>0, ReturnKeeps, FailuresReturn DEF RunRejected
    <3> QED
      BY <2>3, <1>0, <3>1, JournalsUntouched DEF RunRejected, HandlesKept, handleVars
  <2>4. CASE RunJournalFails(t)
    BY <2>4 DEF RunJournalFails, StandardSessions
  <2>5. CASE RunSpawnFails(t)
    <3>1. rmutex = t /\ child = 0
      BY <2>5, <1>0, RuntimeConstants DEF RunSpawnFails, Held, MutexHeld
    <3>2. RequestsKept
      BY <2>5, <1>0, FailuresReturn, ReturnKeeps DEF RunSpawnFails
    <3>3. op[t] = "run"
      BY <2>5, <1>0 DEF RunSpawnFails, NoTracy
    <3> QED
      BY <2>5, <3>1, <3>2, <3>3, JournalDiscarded DEF RunSpawnFails, RequestsKept
  <2>6. CASE RunLaunched(t)
    <3>1. NoTracy' /\ rmutex' = None /\ \A u \in Request : pc'[u] # "cleared"
      BY <2>6, <1>0, RuntimeConstants
      DEF RunLaunched, Goto, Held, MutexHeld, NoTracy, TypeOK, RequestTypeOK
    <3>2. op[t] = "run"
      BY <2>6, <1>0 DEF RunLaunched, NoTracy
    <3>3. PICK s \in Session : Spawned(t, s) /\ monitor' = s
      BY <2>6, <3>2 DEF RunLaunched
    <3> QED
      BY <2>6, <3>1, <3>2, <3>3, JournalOpened DEF RunLaunched
  <2>7. CASE RunProcessIdFails(t)
    <3>1. NoTracy'
      BY <2>7, <1>0, ReturnKeeps DEF RunProcessIdFails, RequestsKept
    <3>2. rmutex' = None /\ \A u \in Request : pc'[u] # "cleared"
      BY <2>7, RuntimeConstants
      DEF RunProcessIdFails, Return, Unlock, Goto, Held, MutexHeld, TypeOK,
          RequestTypeOK
    <3>3. PICK s \in Session : Spawned(t, s)
      BY <2>7 DEF RunProcessIdFails
    <3> QED
      BY <2>7, <3>1, <3>2, <3>3, JournalOpened DEF RunProcessIdFails
  <2>8. CASE LaunchReplaced(t)
    <3>1. RequestsKept /\ rmutex' \in {rmutex, None}
      BY <2>8, <1>0, ReturnKeeps, FailuresReturn DEF LaunchReplaced
    <3> QED
      BY <2>8, <1>0, <3>1, JournalsUntouched
      DEF LaunchReplaced, HandlesKept, handleVars
  <2>9. CASE LaunchSettled(t)
    <3>1. RequestsKept
      BY <2>9, <1>0
      DEF LaunchSettled, Goto, RequestsKept, NoTracy, TypeOK, RequestTypeOK
    <3>2. HandlesKept
      BY <2>9, <1>0 DEF LaunchSettled, HandlesKept, handleVars
    <3> QED
      BY <2>9, <3>1, <3>2, JournalsUntouched DEF LaunchSettled
  <2>10. CASE LaunchExitedEarly(t)
    <3>1. RequestsKept
      BY <2>10, <1>0
      DEF LaunchExitedEarly, EnterCleanup, Goto, RequestsKept, NoTracy, TypeOK,
          RequestTypeOK
    <3>2. HandlesKept
      BY <2>10, ProbedAway DEF LaunchExitedEarly, EnterCleanup, HandlesKept
    <3> QED
      BY <2>10, <3>1, <3>2, JournalsUntouched DEF LaunchExitedEarly
  <2>11. CASE ReadinessResolved(t)
    <3>1. RequestsKept
      BY <2>11, <1>0
      DEF ReadinessResolved, Goto, RequestsKept, NoTracy, TypeOK, RequestTypeOK
    <3>2. HandlesKept
      BY <2>11, <1>0 DEF ReadinessResolved, HandlesKept, handleVars
    <3> QED
      BY <2>11, <3>1, <3>2, JournalsUntouched DEF ReadinessResolved
  <2>12. CASE UnreadyAdmitted(t)
    <3>1. RequestsKept
      BY <2>12, <1>0
      DEF UnreadyAdmitted, Goto, RequestsKept, NoTracy, TypeOK, RequestTypeOK
    <3>2. HandlesKept
      BY <2>12, <1>0 DEF UnreadyAdmitted, HandlesKept, handleVars
    <3> QED
      BY <2>12, <3>1, <3>2, JournalsUntouched DEF UnreadyAdmitted
  <2>13. CASE UnreadyTakedown(t)
    <3>1. RequestsKept
      BY <2>13, <1>0
      DEF UnreadyTakedown, Kill, Goto, RequestsKept, NoTracy, TypeOK, RequestTypeOK
    <3>2. HandlesKept
      BY <2>13, <1>0 DEF UnreadyTakedown, Kill, HandlesKept, handleVars
    <3> QED
      BY <2>13, <3>1, <3>2, JournalsUntouched DEF UnreadyTakedown, Kill
  <2>14. CASE LaunchPublished(t)
    <3>1. RequestsKept /\ rmutex' \in {rmutex, None}
      BY <2>14, <1>0, FailuresReturn, ReturnKeeps DEF LaunchPublished
    <3>2. HandlesKept
      BY <2>14, <1>0, <3>1 DEF LaunchPublished, HandlesKept, handleVars
    <3>3. journal[integrity].status = "active"
      BY <2>14 DEF LaunchPublished, GameRunning, Kept, WritersActive
    <3> QED
      BY <2>14, <3>1, <3>2, <3>3, JournalsRecorded DEF LaunchPublished
  <2>15. CASE LaunchPublishFails(t)
    <3>1. RequestsKept /\ rmutex' \in {rmutex, None}
      BY <2>15, <1>0, FailuresReturn, ReturnKeeps DEF LaunchPublishFails
    <3>2. HandlesKept
      BY <2>15, <1>0, <3>1 DEF LaunchPublishFails, HandlesKept, handleVars
    <3>3. journal[integrity].status = "active"
      BY <2>15 DEF LaunchPublishFails, GameRunning, Kept, WritersActive
    <3> QED
      BY <2>15, <3>1, <3>2, <3>3, JournalsRecorded DEF LaunchPublishFails
  <2>16. CASE LaunchEnded(t)
    <3>1. RequestsKept
      BY <2>16, <1>0, FailuresReturn, ReturnKeeps DEF LaunchEnded
    <3>2. HandlesKept
      BY <2>16, ProbedAway DEF LaunchEnded, HandlesKept
    <3> QED
      BY <2>16, <3>1, <3>2, JournalsUntouched DEF LaunchEnded
  <2> QED
    BY <1>2, <2>1, <2>2, <2>3, <2>4, <2>5, <2>6, <2>7, <2>8, <2>9, <2>10, <2>11,
       <2>12, <2>13, <2>14, <2>15, <2>16
    DEF Launching
<1>3. ASSUME NEW t \in Request, Closing(t) PROVE Kept' /\ Lives
  <2>1. CASE KillConfirmed(t)
    <3>1. RequestsKept /\ rmutex' = rmutex
      BY <2>1, <1>0
      DEF KillConfirmed, Goto, RequestsKept, NoTracy, TypeOK, RequestTypeOK
    <3>2. HandlesKept
      BY <2>1, <1>0, <3>1 DEF KillConfirmed, HandlesKept
    <3> QED
      BY <2>1, <3>1, <3>2, JournalsUntouched DEF KillConfirmed
  <2>2. CASE Finalize(t)
    <3>1. rmutex = t
      BY <2>2 DEF Finalize, Held, MutexHeld
    <3>2. NoTracy' /\ rmutex' \in {rmutex, None}
      <4>1. CASE pc[t] = "clearing"
        BY <2>2, <1>0, <4>1 DEF Finalize, Goto, NoTracy, TypeOK, RequestTypeOK
      <4>2. CASE pc[t] # "clearing"
        BY <2>2, <1>0, <4>2, FailuresReturn, ReturnKeeps DEF Finalize, RequestsKept
      <4> QED
        BY <4>1, <4>2
    <3> QED
      BY <2>2, <3>1, <3>2, JournalClosed
  <2>3. CASE FinalizeFails(t)
    <3>1. RequestsKept /\ rmutex' \in {rmutex, None}
      BY <2>3, <1>0, FailuresReturn, ReturnKeeps DEF FinalizeFails
    <3>2. HandlesKept
      BY <2>3, <1>0, <3>1 DEF FinalizeFails, HandlesKept, watchVars, logVars
    <3>3. journal[integrity].status = "active"
      BY <2>3 DEF FinalizeFails, Kept, SummaryTrue
    <3> QED
      BY <2>3, <3>1, <3>2, <3>3, JournalsRecorded DEF FinalizeFails
  <2>4. CASE CleanupTimesOut(t)
    <3>1. RequestsKept /\ rmutex' \in {rmutex, None}
      BY <2>4, <1>0, ReturnKeeps, FailuresReturn DEF CleanupTimesOut
    <3> QED
      BY <2>4, <1>0, <3>1, JournalsUntouched
      DEF CleanupTimesOut, HandlesKept, handleVars
  <2>5. CASE TracyStopConfirmed(t)
    BY <2>5, <1>0 DEF TracyStopConfirmed, NoTracy, StandardSessions
  <2> QED
    BY <1>3, <2>1, <2>2, <2>3, <2>4, <2>5 DEF Closing
<1>4. ASSUME NEW t \in Request, Stopping(t) PROVE Kept' /\ Lives
  <2>1. CASE StopIdle(t)
    <3>1. RequestsKept /\ rmutex' \in {rmutex, None}
      BY <2>1, <1>0, ReturnKeeps DEF StopIdle
    <3> QED
      BY <2>1, <1>0, <3>1, JournalsUntouched DEF StopIdle, HandlesKept, handleVars
  <2>2. CASE StopExited(t)
    <3>1. RequestsKept
      BY <2>2, <1>0
      DEF StopExited, EnterCleanup, Goto, RequestsKept, NoTracy, TypeOK, RequestTypeOK
    <3>2. HandlesKept
      BY <2>2, ProbedAway DEF StopExited, EnterCleanup, HandlesKept
    <3> QED
      BY <2>2, <3>1, <3>2, JournalsUntouched DEF StopExited
  <2>3. CASE StopLive(t)
    <3>1. RequestsKept
      BY <2>3, <1>0
      DEF StopLive, Kill, Goto, RequestsKept, NoTracy, TypeOK, RequestTypeOK
    <3>2. HandlesKept
      BY <2>3, <1>0 DEF StopLive, Kill, HandlesKept, handleVars
    <3> QED
      BY <2>3, <3>1, <3>2, JournalsUntouched DEF StopLive, Kill
  <2>4. CASE TracyStopRefused(t)
    BY <2>4, <1>0 DEF TracyStopRefused, NoTracy, StandardSessions
  <2>5. CASE TracyStopExited(t)
    BY <2>5, <1>0 DEF TracyStopExited, NoTracy, StandardSessions
  <2> QED
    BY <1>4, <2>1, <2>2, <2>3, <2>4, <2>5 DEF Stopping
<1>5. ASSUME NEW t \in Request, Waiting(t) PROVE Kept' /\ Lives
  <2>1. CASE WaitResolved(t)
    <3>1. RequestsKept
      BY <2>1, <1>0
      DEF WaitResolved, Goto, RequestsKept, NoTracy, TypeOK, RequestTypeOK
    <3>2. HandlesKept
      BY <2>1, <1>0 DEF WaitResolved, HandlesKept, handleVars
    <3> QED
      BY <2>1, <3>1, <3>2, JournalsUntouched DEF WaitResolved
  <2>2. CASE ReportReplaced(t)
    <3>1. RequestsKept /\ rmutex' \in {rmutex, None}
      BY <2>2, <1>0, ReturnKeeps DEF ReportReplaced
    <3> QED
      BY <2>2, <1>0, <3>1, JournalsUntouched
      DEF ReportReplaced, HandlesKept, handleVars
  <2>3. CASE ReportRunning(t)
    <3>1. RequestsKept /\ rmutex' \in {rmutex, None}
      BY <2>3, <1>0, ReturnKeeps DEF ReportRunning
    <3>2. HandlesKept
      BY <2>3, <1>0, <3>1 DEF ReportRunning, HandlesKept, handleVars
    <3>3. journal[integrity].status = "active"
      BY <2>3 DEF ReportRunning, GameRunning, Kept, WritersActive
    <3> QED
      BY <2>3, <3>1, <3>2, <3>3, JournalsRecorded DEF ReportRunning
  <2>4. CASE ReportExited(t)
    <3>1. RequestsKept
      BY <2>4, <1>0
      DEF ReportExited, EnterCleanup, Goto, RequestsKept, NoTracy, TypeOK,
          RequestTypeOK
    <3>2. HandlesKept
      BY <2>4, ProbedAway DEF ReportExited, EnterCleanup, HandlesKept
    <3> QED
      BY <2>4, <3>1, <3>2, JournalsUntouched DEF ReportExited
  <2> QED
    BY <1>5, <2>1, <2>2, <2>3, <2>4 DEF Waiting
<1>6. ASSUME NEW t \in Request, Cancel(t) PROVE Kept' /\ Lives
  <2>1. RequestsKept /\ rmutex' \in {rmutex, None}
    BY <1>6, <1>0, ReturnKeeps DEF Cancel
  <2> QED
    BY <1>6, <1>0, <2>1, JournalsUntouched DEF Cancel, HandlesKept, handleVars
<1>7. CASE Refresh
  BY <1>7, <1>0, JournalsUntouched
  DEF Refresh, Probe, requestVars, HandlesKept, RequestsKept, NoTracy
<1>8. CASE MonitorTick
  <2>1. RequestsKept /\ HandlesKept
    BY <1>8, <1>0
    DEF MonitorTick, requestVars, handleVars, HandlesKept, RequestsKept, NoTracy
  <2>2. monitor = integrity /\ journal[integrity].status = "active"
    BY <1>8 DEF MonitorTick, Kept, WritersActive
  <2>3. ObserveSession
    BY <1>8, <2>2 DEF MonitorTick, ObserveSession
  <2> QED
    BY <1>8, <2>1, <2>2, <2>3, JournalsRecorded DEF MonitorTick
<1>9. CASE ObserverSeesExit
  BY <1>9, <1>0, JournalsUntouched
  DEF ObserverSeesExit, Probe, requestVars, HandlesKept, RequestsKept, NoTracy
<1>10. CASE ObserverDrains
  BY <1>10, <1>0, JournalsUntouched
  DEF ObserverDrains, requestVars, handleVars, HandlesKept, RequestsKept, NoTracy
<1>11. CASE Environment
  BY <1>11, <1>0, JournalsUntouched
  DEF Environment, ChildExits, TreeDies, Emit, Edit, requestVars, handleVars,
      HandlesKept, RequestsKept, NoTracy
<1>12. CASE UNCHANGED vars
  BY <1>12, <1>0, JournalsUntouched
  DEF vars, requestVars, handleVars, HandlesKept, RequestsKept, NoTracy
<1> QED
  BY <1>1, <1>2, <1>3, <1>4, <1>5, <1>6, <1>7, <1>8, <1>9, <1>10, <1>11, <1>12
  DEF Next, Progress, Background

(* The lifecycle implements the life RuntimeJournal promises its journals.   *)
THEOREM JournalLives == StandardSessions => (Spec => JournalFollowsLife)
<1> SUFFICES ASSUME StandardSessions PROVE Spec => JournalFollowsLife
  OBVIOUS
<1>1. Init => Kept
  BY Logs
  DEF Init, Kept, NoTracy, Unopened, SummaryTrue, WritersActive, MutexIdlesHandle,
      NoJournal, Terminal
<1>2. Init => JournalLife!Init
  BY DEF Init, JournalLife!Init, NoJournal
<1>3. IInv /\ Kept /\ [Next]_vars => Kept'
  BY JournalStep DEF IInv, Safe
<1>4. IInv /\ Kept /\ [Next]_vars => [JournalLife!Next]_<<JournalStatus, JournalEvents>>
  BY JournalStep DEF IInv, Safe, Lives
<1> QED
  BY <1>1, <1>2, <1>3, <1>4, Invariance, PTL
  DEF Spec, JournalFollowsLife, JournalLife!Spec, JournalStatus, JournalEvents

-----------------------------------------------------------------------------
(* BuildProvenance: the values.                                               *)
Inputs == [source : Nat, config : Nat, compiler : Nat]
Dmb == [inputs : Inputs, exact : BOOLEAN]
JobRecord ==
  [step : {"idle", "compile", "wrote", "observe", "capture", "build", "location", "attempt",
           "done"},
   kind : {"dm", "rift"}, exact : BOOLEAN, inputs : Inputs \cup {NoRecord}, changed : BOOLEAN,
   alone : BOOLEAN, ok : BOOLEAN,
   outcome : {"none", "succeeded", "unverified", "failed"}, at : Nat,
   dmb : Dmb \cup {NoRecord}]
BuildRecord ==
  [legacy : BOOLEAN, inputs : Inputs, dmb : Dmb, at : Nat, alone : BOOLEAN]
FailedRecord == [since : BOOLEAN, raced : BOOLEAN]
ProvTypeOK ==
  /\ provDisk \in Inputs /\ provClock \in Nat /\ provKey \in Identities
  /\ provDmb \in Dmb \cup {NoRecord}
  /\ provBuilds \in [Identities -> BuildRecord \cup {NoRecord}]
  /\ provLocation \in Identities \cup {NoRecord}
  /\ provAttempts \in [Identities -> Attempt \cup {NoRecord}]
  /\ provFailed \in [Identities -> FailedRecord]
  /\ provJobs \in [Builds -> JobRecord]

Earlier(a, b) == a.source <= b.source /\ a.config <= b.config /\ a.compiler <= b.compiler

(* What a build that was alone so far knows of the DMB.                       *)
Read(j) ==
  j.step \in {"compile", "wrote", "observe"} =>
    j.inputs \in Inputs /\ Earlier(j.inputs, provDisk)
Wrote(j) ==
  j.alone /\ (j.step = "wrote" \/ (j.step = "observe" /\ j.ok /\ j.kind = "dm")) =>
    /\ provDmb \in Dmb /\ provDmb.exact = j.exact
    /\ Earlier(j.inputs, provDmb.inputs) /\ Earlier(provDmb.inputs, provDisk)
Caught(j) ==
  /\ j.step \in {"capture", "build"} => j.inputs \in Inputs
  /\ j.step = "build" => j.dmb \in Dmb
  /\ j.alone /\ j.step = "capture" => provDmb = Built(j.inputs, TRUE)
  /\ j.alone /\ j.step = "build" => j.dmb = Built(j.inputs, TRUE)
Succeeded(j) == j.step = "location" \/ (j.step = "attempt" /\ j.outcome = "succeeded")
Falls(j) == j.step = "attempt" /\ j.outcome # "succeeded"
ToldOf(j) ==
  /\ j.at <= provClock
  /\ j.step = "attempt" => j.outcome # "none"
  /\ j.alone /\ Succeeded(j) => ~provFailed[provKey].since
  /\ Falls(j) /\ provBuilds[provKey] # NoRecord /\ provBuilds[provKey].alone =>
       provBuilds[provKey].at <= j.at
JobSound(j) == Read(j) /\ Wrote(j) /\ Caught(j) /\ ToldOf(j)

Apart ==
  \A b, c \in Builds : b # c /\ Active(b) /\ Active(c) => ~provJobs[b].alone

(* What is recorded of a build, and of what followed it.                      *)
BoundTo(record) == record.alone => record.dmb = Built(record.inputs, TRUE)
Judged(record, attempt, failed) ==
  record.alone /\ failed.since /\ ~failed.raced => Overtaken(record, attempt)
RecordSound(k) ==
  provBuilds[k] # NoRecord =>
    /\ BoundTo(provBuilds[k]) /\ provBuilds[k].at <= provClock
    /\ Judged(provBuilds[k], provAttempts[k], provFailed[k])

LaunchSound(l) ==
  LET launch == provLaunch[l] IN
  /\ launch.step = "compare" =>
       BoundTo(launch.record) /\ Judged(launch.record, launch.attempt, launch.failed)
  /\ Verified(l) =>
       /\ BoundTo(launch.record) /\ SameInputs(launch.record.inputs, launch.inputs)
       /\ launch.record.alone /\ launch.failed.since => launch.failed.raced

(* The invariant: overlapping builds know that they overlap; a build that is  *)
(* alone knows the DMB; what it recorded stays bound to its inputs, and an    *)
(* unsuccessful attempt after it is the one a launch reads.                   *)
ProvInv ==
  /\ ProvTypeOK /\ DOMAIN provLaunch = Launches /\ Apart
  /\ \A b \in Builds : JobSound(provJobs[b])
  /\ \A k \in Identities : RecordSound(k)
  /\ \A l \in Launches : LaunchSound(l)

(* One field of a job.                                                        *)
SameData(new, j) ==
  /\ new.kind = j.kind /\ new.exact = j.exact /\ new.inputs = j.inputs
  /\ new.alone = j.alone /\ new.ok = j.ok
  /\ new.outcome = j.outcome /\ new.at = j.at /\ new.dmb = j.dmb
JobStep ==
  {"idle", "compile", "wrote", "observe", "capture", "build", "location", "attempt", "done"}

LEMMA StepSet ==
  ASSUME NEW j \in JobRecord, NEW step \in JobStep
  PROVE  LET new == [j EXCEPT !.step = step] IN
         new \in JobRecord /\ new.step = step /\ SameData(new, j)
  BY DEF JobRecord, JobStep, SameData

LEMMA ChangedSet ==
  ASSUME NEW j \in JobRecord
  PROVE  LET new == [j EXCEPT !.changed = TRUE] IN
         new \in JobRecord /\ new.step = j.step /\ SameData(new, j)
  BY DEF JobRecord, SameData

LEMMA AloneSet ==
  ASSUME NEW j \in JobRecord, NEW b \in BOOLEAN
  PROVE  LET new == [j EXCEPT !.alone = b] IN
         /\ new \in JobRecord /\ new.step = j.step /\ new.alone = b
         /\ new.kind = j.kind /\ new.exact = j.exact /\ new.inputs = j.inputs
         /\ new.ok = j.ok /\ new.outcome = j.outcome /\ new.at = j.at /\ new.dmb = j.dmb
  BY DEF JobRecord

LEMMA NoJobIs ==
  /\ NoJob \in JobRecord /\ NoJob.step = "idle" /\ NoJob.at = 0
  /\ [NoJob EXCEPT !.step = "done"] \in JobRecord
  /\ [NoJob EXCEPT !.step = "done"].step = "done" /\ [NoJob EXCEPT !.step = "done"].at = 0
  BY DEF NoJob, JobRecord

(* A job that is not under way has nothing to say.                            *)
LEMMA OutsideSound ==
  ASSUME NEW j \in JobRecord, j.step \in {"idle", "done"}, j.at <= provClock
  PROVE  JobSound(j)
  BY DEF JobSound, Read, Wrote, Caught, ToldOf, Succeeded, Falls

LEMMA OutsideSoundNext ==
  ASSUME NEW j \in JobRecord, j.step \in {"idle", "done"}, j.at <= provClock'
  PROVE  JobSound(j)'
  BY DEF JobSound, Read, Wrote, Caught, ToldOf, Succeeded, Falls

(* A step of the build b alone.                                               *)
BuildGoes(b) ==
  /\ provJobs' \in [Builds -> JobRecord]
  /\ \A c \in Builds \ {b} : provJobs'[c] = provJobs[c]
  /\ provJobs'[b].step \notin {"idle", "done"} =>
       Active(b) /\ (provJobs'[b].alone => provJobs[b].alone)

LEMMA ApartKeeps ==
  ASSUME Apart, NEW b \in Builds, BuildGoes(b)
  PROVE  Apart'
<1> SUFFICES ASSUME NEW c \in Builds, NEW d \in Builds, c # d, Active(c)', Active(d)'
             PROVE  ~provJobs'[c].alone
  BY DEF Apart
<1>1. Active(c) /\ Active(d) /\ (provJobs'[c].alone => provJobs[c].alone)
  BY DEF BuildGoes, Active
<1> QED
  BY <1>1 DEF Apart

(* A job that stays as it is while others move.                               *)
LEMMA SameJob ==
  ASSUME ProvTypeOK, NEW b \in Builds, JobSound(provJobs[b]), provJobs'[b] = provJobs[b],
         UNCHANGED <<provDisk, provDmb, provKey, provBuilds, provFailed>>,
         provClock' \in Nat, provClock <= provClock'
  PROVE  JobSound(provJobs[b])'
<1>1. provJobs[b].at \in Nat /\ provClock \in Nat
  BY DEF ProvTypeOK, JobRecord
<1>2. Read(provJobs[b])' /\ Wrote(provJobs[b])' /\ Caught(provJobs[b])'
  BY DEF JobSound, Read, Wrote, Caught
<1>3. provJobs'[b].at <= provClock'
  BY <1>1 DEF JobSound, ToldOf
<1>4. ToldOf(provJobs[b])'
  BY <1>3 DEF JobSound, ToldOf, Succeeded, Falls
<1> QED
  BY <1>2, <1>4 DEF JobSound

LEMMA SameRecords ==
  ASSUME ProvTypeOK, UNCHANGED <<provBuilds, provAttempts, provFailed>>,
         provClock' \in Nat, provClock <= provClock', NEW k \in Identities, RecordSound(k)
  PROVE  RecordSound(k)'
<1>1. provClock \in Nat /\ (provBuilds[k] # NoRecord => provBuilds[k].at \in Nat)
  BY DEF ProvTypeOK, BuildRecord
<1>2. provBuilds'[k] # NoRecord => provBuilds'[k].at <= provClock'
  BY <1>1 DEF RecordSound
<1> QED
  BY <1>2 DEF RecordSound, BoundTo, Judged, Overtaken

(* A step of b that records nothing, and knows what it leaves.                *)
LEMMA GoesOn ==
  ASSUME ProvInv, NEW b \in Builds, BuildGoes(b), JobSound(provJobs[b])',
         UNCHANGED <<provWorld, provBuilds, provAttempts, provFailed, provLaunch>>,
         provLocation' \in Identities \cup {NoRecord},
         provClock' \in {provClock, provClock + 1}
  PROVE  ProvInv'
<1>1. provClock \in Nat /\ provClock' \in Nat /\ provClock <= provClock' /\ ProvTypeOK
  BY DEF ProvInv, ProvTypeOK
<1>2. ProvTypeOK'
  BY <1>1 DEF ProvTypeOK, provWorld, BuildGoes
<1>3. Apart'
  BY ApartKeeps DEF ProvInv
<1>4. ASSUME NEW c \in Builds \ {b} PROVE JobSound(provJobs[c])'
  BY <1>1, <1>4, SameJob DEF ProvInv, provWorld, BuildGoes
<1>5. \A k \in Identities : RecordSound(k)'
  BY <1>1, SameRecords DEF ProvInv
<1>6. \A l \in Launches : LaunchSound(l)'
  BY DEF ProvInv, LaunchSound, Verified
<1>7. (DOMAIN provLaunch = Launches)'
  BY DEF ProvInv
<1> QED
  BY <1>2, <1>3, <1>4, <1>5, <1>6, <1>7 DEF ProvInv

LEMMA StepDone ==
  ASSUME ProvInv, NEW b \in Builds, Done(b),
         UNCHANGED <<provWorld, provRecords, provLaunch>>,
         provClock' \in {provClock, provClock + 1}
  PROVE  ProvInv'
<1> DEFINE done == [NoJob EXCEPT !.step = "done"]
<1>1. provJobs \in [Builds -> JobRecord] /\ provClock \in Nat
  BY DEF ProvInv, ProvTypeOK
<1>2. done \in JobRecord /\ done.step = "done" /\ done.at = 0
  BY NoJobIs
<1>3. provJobs' = [provJobs EXCEPT ![b] = done]
  BY DEF Done
<1> HIDE DEF done
<1>4. /\ provJobs'[b] = done /\ provJobs' \in [Builds -> JobRecord]
      /\ \A c \in Builds \ {b} : provJobs'[c] = provJobs[c]
  BY <1>1, <1>2, <1>3
<1>5. BuildGoes(b)
  BY <1>2, <1>4 DEF BuildGoes
<1>6. 0 <= provClock'
  BY <1>1
<1>7. JobSound(done)'
  BY <1>2, <1>6, OutsideSoundNext DEF done
<1>8. JobSound(provJobs[b])'
  BY <1>4, <1>7 DEF done, JobSound, Read, Wrote, Caught, ToldOf, Succeeded, Falls
<1> QED
  BY <1>5, <1>8, GoesOn DEF provRecords, ProvInv, ProvTypeOK

(* The builds.                                                                *)
LEMMA JobFacts ==
  ASSUME ProvInv, NEW b \in Builds
  PROVE  /\ provJobs[b] \in JobRecord /\ JobSound(provJobs[b]) /\ provJobs[b].at \in Nat
         /\ provJobs \in [Builds -> JobRecord] /\ provClock \in Nat /\ provDisk \in Inputs
  BY DEF ProvInv, ProvTypeOK, JobRecord

LEMMA Reflexive ==
  /\ \A a \in Inputs : Earlier(a, a)
  /\ \A a, b \in Inputs : Earlier(a, b) /\ Earlier(b, a) => a = b
  /\ \A a, b, c \in Inputs : Earlier(a, b) /\ Earlier(b, c) => Earlier(a, c)
<1>1. \A a \in Inputs : Earlier(a, a)
  BY DEF Inputs, Earlier
<1>2. ASSUME NEW a \in Inputs, NEW b \in Inputs, Earlier(a, b), Earlier(b, a) PROVE a = b
  <2>1. a.source = b.source /\ a.config = b.config /\ a.compiler = b.compiler
    BY <1>2 DEF Inputs, Earlier
  <2> QED
    BY <2>1 DEF Inputs
<1>3. \A a, b, c \in Inputs : Earlier(a, b) /\ Earlier(b, c) => Earlier(a, c)
  BY DEF Inputs, Earlier
<1> QED
  BY <1>1, <1>2, <1>3

LEMMA StepPrepare ==
  ASSUME ProvInv, NEW b \in Builds, Prepare(b)
  PROVE  ProvInv'
<1>1. PICK tool \in BuildKinds : \E exact \in {FALSE, tool = "dm"} :
        provJobs' = [c \in Builds |->
          IF c = b THEN PreparedJob(b, tool, exact)
          ELSE IF Active(c) THEN [provJobs[c] EXCEPT !.alone = FALSE]
          ELSE provJobs[c]]
  BY DEF Prepare
<1>2. PICK exact \in {FALSE, tool = "dm"} :
        provJobs' = [c \in Builds |->
          IF c = b THEN PreparedJob(b, tool, exact)
          ELSE IF Active(c) THEN [provJobs[c] EXCEPT !.alone = FALSE]
          ELSE provJobs[c]]
  BY <1>1
<1>3. UNCHANGED <<provWorld, provRecords, provClock, provLaunch>>
  BY DEF Prepare
<1>4. tool \in {"dm", "rift"} /\ exact \in BOOLEAN
  BY ProvenanceConstants
<1> DEFINE alone == \A d \in Builds \ {b} : ~Active(d)
           new == [step |-> "compile", kind |-> tool, exact |-> exact, inputs |-> provDisk,
                   changed |-> FALSE, alone |-> alone, ok |-> FALSE,
                   outcome |-> "none", at |-> 0, dmb |-> NoRecord]
<1>5. provJobs'[b] = new
  <2>1. provJobs'[b] = PreparedJob(b, tool, exact)
    BY <1>2
  <2>2. PreparedJob(b, tool, exact) =
          [NoJob EXCEPT !.step = "compile", !.kind = tool, !.exact = exact,
                        !.inputs = provDisk, !.alone = alone]
    BY DEF PreparedJob
  <2> HIDE DEF alone
  <2>3. PreparedJob(b, tool, exact) = new
    BY <2>2 DEF NoJob
  <2> QED
    BY <2>1, <2>3
<1>6. alone \in BOOLEAN
  OBVIOUS
<1>7. \A c \in Builds \ {b} :
        provJobs'[c] = IF Active(c) THEN [provJobs[c] EXCEPT !.alone = FALSE] ELSE provJobs[c]
  BY <1>2
<1>7a. DOMAIN provJobs' = Builds
  BY <1>2
<1>7b. provJobs' = [c \in Builds |-> provJobs'[c]]
  <2>1. provJobs' = [c \in DOMAIN provJobs' |-> provJobs'[c]]
    BY <1>2
  <2> QED
    BY <1>7a, <2>1
<1> HIDE DEF alone
<1>8. new \in JobRecord
  BY <1>4, <1>6, JobFacts DEF JobRecord
<1>9. new.step = "compile" /\ new.alone = alone /\ new.inputs = provDisk /\ new.at = 0
  OBVIOUS
<1> HIDE DEF new
<1>10. JobSound(provJobs[b])'
  <2>1. provDisk \in Inputs /\ Earlier(provDisk, provDisk) /\ 0 <= provClock
    BY JobFacts, Reflexive
  <2> QED
    BY <1>3, <1>5, <1>9, <2>1
    DEF JobSound, Read, Wrote, Caught, ToldOf, Succeeded, Falls, provWorld
<1>11. ASSUME NEW c \in Builds \ {b}
       PROVE  /\ provJobs'[c] \in JobRecord /\ JobSound(provJobs[c])'
              /\ Active(c)' => Active(c) /\ ~provJobs'[c].alone
  <2>1. CASE ~Active(c)
    <3>1. provJobs'[c] = provJobs[c]
      BY <1>7, <2>1
    <3> QED
      BY <1>3, <2>1, <3>1, JobFacts, SameJob DEF ProvInv, Active, provWorld, provRecords
  <2>2. CASE Active(c)
    <3> DEFINE next == [provJobs[c] EXCEPT !.alone = FALSE]
    <3>1. provJobs'[c] = next
      BY <1>7, <2>2
    <3>2. /\ next \in JobRecord /\ next.step = provJobs[c].step /\ ~next.alone
          /\ next.inputs = provJobs[c].inputs /\ next.outcome = provJobs[c].outcome
          /\ next.at = provJobs[c].at /\ next.dmb = provJobs[c].dmb
      BY JobFacts, AloneSet
    <3> HIDE DEF next
    <3>3. JobSound(provJobs[c])'
      BY <1>3, <3>1, <3>2, JobFacts
      DEF JobSound, Read, Wrote, Caught, ToldOf, Succeeded, Falls, provWorld, provRecords
    <3> QED
      BY <2>2, <3>1, <3>2, <3>3
  <2> QED
    BY <2>1, <2>2
<1>12. Apart'
  <2> SUFFICES ASSUME NEW c \in Builds, NEW d \in Builds, c # d, Active(c)', Active(d)'
               PROVE  ~provJobs'[c].alone
    BY DEF Apart
  <2>1. CASE c # b
    BY <1>11, <2>1
  <2>2. CASE c = b
    <3>1. Active(d)
      BY <1>11, <2>2
    <3> QED
      BY <1>5, <1>9, <2>2, <3>1 DEF alone
  <2> QED
    BY <2>1, <2>2
<1>13. provJobs' \in [Builds -> JobRecord]
  BY <1>5, <1>7b, <1>8, <1>11
<1>14. ProvTypeOK' /\ (DOMAIN provLaunch = Launches)'
  BY <1>3, <1>13 DEF ProvInv, ProvTypeOK, provWorld, provRecords
<1>15. \A c \in Builds : JobSound(provJobs[c])'
  BY <1>10, <1>11
<1>16. \A k \in Identities : RecordSound(k)'
  BY <1>3, JobFacts, SameRecords DEF ProvInv, provRecords
<1>17. \A l \in Launches : LaunchSound(l)'
  BY <1>3 DEF ProvInv, LaunchSound, Verified
<1> QED
  BY <1>12, <1>14, <1>15, <1>16, <1>17 DEF ProvInv

(* A build whose DMB changes under it, or by it, is not alone or wrote it.    *)
ArtifactMoves ==
  /\ provJobs' \in [Builds -> JobRecord] /\ provDmb' \in Dmb
  /\ UNCHANGED <<provDisk, provKey, provRecords, provClock, provLaunch>>
  /\ \A b \in Builds :
       LET j == provJobs[b]
           new == provJobs'[b]
       IN /\ new.inputs = j.inputs /\ new.outcome = j.outcome /\ new.at = j.at
          /\ new.dmb = j.dmb /\ new.ok = j.ok /\ new.kind = j.kind /\ new.exact = j.exact
          /\ new.alone => j.alone
          /\ new.step = j.step \/ (j.step = "compile" /\ new.step = "wrote")
          /\ new.step = "wrote" /\ new.alone => provDmb' = Built(provDisk, j.exact)
          /\ new.step \in {"observe", "capture"} => ~new.alone

LEMMA StepArtifact ==
  ASSUME ProvInv, ArtifactMoves
  PROVE  ProvInv'
<1>1. UNCHANGED <<provDisk, provKey, provBuilds, provLocation, provAttempts, provFailed,
                  provClock, provLaunch>>
  BY DEF ArtifactMoves, provRecords
<1>2. Apart'
  BY DEF ArtifactMoves, ProvInv, Apart, Active
<1>3. ASSUME NEW b \in Builds PROVE JobSound(provJobs[b])'
  <2> DEFINE j == provJobs[b]
             new == provJobs'[b]
  <2>1. /\ new.inputs = j.inputs /\ new.outcome = j.outcome /\ new.at = j.at
        /\ new.dmb = j.dmb /\ new.ok = j.ok /\ new.kind = j.kind /\ new.exact = j.exact
        /\ new.alone => j.alone
        /\ new.step = j.step \/ (j.step = "compile" /\ new.step = "wrote")
        /\ new.step = "wrote" /\ new.alone => provDmb' = Built(provDisk, j.exact)
        /\ new.step \in {"observe", "capture"} => ~new.alone
    BY DEF ArtifactMoves
  <2>2. provDisk \in Inputs /\ JobSound(j) /\ Earlier(provDisk, provDisk)
    BY JobFacts, Reflexive
  <2> HIDE DEF j
  <2>3. Read(provJobs[b])'
    BY <1>1, <2>1, <2>2 DEF JobSound, Read
  <2>4. Wrote(provJobs[b])'
    <3>1. new.alone /\ new.step = "wrote" =>
            /\ provDmb' = Built(provDisk, new.exact) /\ provDmb' \in Dmb
            /\ Earlier(new.inputs, provDisk)
      BY <2>1, <2>2 DEF JobSound, Read, ArtifactMoves
    <3>2. /\ Built(provDisk, new.exact).exact = new.exact
          /\ Built(provDisk, new.exact).inputs = provDisk
      BY DEF Built
    <3> QED
      BY <1>1, <2>1, <2>2, <3>1, <3>2 DEF Wrote
  <2>5. Caught(provJobs[b])'
    BY <1>1, <2>1, <2>2 DEF JobSound, Caught
  <2>6. ToldOf(provJobs[b])'
    BY <1>1, <2>1, <2>2 DEF JobSound, ToldOf, Succeeded, Falls
  <2> QED
    BY <2>3, <2>4, <2>5, <2>6 DEF JobSound
<1>4. ProvTypeOK' /\ (DOMAIN provLaunch = Launches)'
  BY <1>1 DEF ProvInv, ProvTypeOK, ArtifactMoves
<1>5. \A k \in Identities : RecordSound(k)'
  BY <1>1 DEF ProvInv, RecordSound
<1>6. \A l \in Launches : LaunchSound(l)'
  BY <1>1 DEF ProvInv, LaunchSound, Verified
<1> QED
  BY <1>2, <1>3, <1>4, <1>5, <1>6 DEF ProvInv

LEMMA StepCompilerWrites ==
  ASSUME ProvInv, NEW b \in Builds, CompilerWrites(b)
  PROVE  ProvInv'
<1> DEFINE mine == [provJobs[b] EXCEPT !.step = "wrote"]
           jobs == [provJobs EXCEPT ![b] = mine]
           dmb == Built(provDisk, provJobs[b].exact)
<1>1. /\ provJobs[b].step = "compile" /\ provDmb' = dmb
      /\ provJobs' = [c \in Builds |->
           IF jobs[c].step \in {"compile", "wrote", "observe"}
           THEN [jobs[c] EXCEPT !.changed = TRUE] ELSE jobs[c]]
      /\ UNCHANGED <<provDisk, provKey, provEvents, provRecords, provClock, provLaunch>>
  BY DEF CompilerWrites, Writes
<1>2. mine \in JobRecord /\ mine.step = "wrote" /\ SameData(mine, provJobs[b])
  BY JobFacts, StepSet DEF JobStep
<1>3. /\ jobs[b] = mine /\ \A c \in Builds \ {b} : jobs[c] = provJobs[c]
      /\ \A c \in Builds : jobs[c] \in JobRecord
  BY <1>2, JobFacts
<1> HIDE DEF mine
<1>4. dmb \in Dmb
  BY JobFacts DEF Built, Dmb, JobRecord
<1> HIDE DEF jobs, dmb
<1>5. ASSUME NEW c \in Builds
      PROVE  /\ provJobs'[c] \in JobRecord /\ provJobs'[c].step = jobs[c].step
             /\ SameData(provJobs'[c], jobs[c])
  <2> DEFINE new == [jobs[c] EXCEPT !.changed = TRUE]
  <2>1. new \in JobRecord /\ new.step = jobs[c].step /\ SameData(new, jobs[c])
    BY <1>3, ChangedSet
  <2>2. provJobs'[c] = new \/ provJobs'[c] = jobs[c]
    BY <1>1
  <2> HIDE DEF new
  <2>3. SameData(jobs[c], jobs[c])
    BY DEF SameData
  <2> QED
    BY <1>3, <2>1, <2>2, <2>3
<1>6. ASSUME NEW c \in Builds
      PROVE  LET j == provJobs[c]
                 new == provJobs'[c]
             IN /\ new.inputs = j.inputs /\ new.outcome = j.outcome /\ new.at = j.at
                /\ new.dmb = j.dmb /\ new.ok = j.ok /\ new.kind = j.kind /\ new.exact = j.exact
                /\ new.alone => j.alone
                /\ new.step = j.step \/ (j.step = "compile" /\ new.step = "wrote")
                /\ new.step = "wrote" /\ new.alone => provDmb' = Built(provDisk, j.exact)
                /\ new.step \in {"observe", "capture"} => ~new.alone
  <2>1. SameData(provJobs'[c], provJobs[c])
    BY <1>2, <1>3, <1>5 DEF SameData
  <2>2. CASE c = b
    BY <1>1, <1>2, <1>3, <1>5, <2>1, <2>2 DEF SameData, dmb
  <2>3. CASE c # b
    <3>1. provJobs'[c].step = provJobs[c].step
      BY <1>3, <1>5, <2>3
    <3>2. provJobs[c].step \in {"wrote", "observe", "capture"} => ~provJobs[c].alone
      BY <1>1, <2>3 DEF ProvInv, Apart, Active
    <3> QED
      BY <2>1, <3>1, <3>2 DEF SameData
  <2> QED
    BY <2>2, <2>3
<1>7. provJobs' \in [Builds -> JobRecord]
  BY <1>1, <1>5
<1>8. ArtifactMoves
  BY <1>1, <1>4, <1>6, <1>7 DEF ArtifactMoves
<1> QED
  BY <1>8, StepArtifact

LEMMA StepOutsideBuild ==
  ASSUME ProvInv, OutsideBuild
  PROVE  ProvInv'
<1> DEFINE StillAlone(c) ==
             provJobs[c].alone /\ provJobs[c].step \notin {"wrote", "observe", "capture"}
           job(c) == [provJobs[c] EXCEPT !.alone = StillAlone(c)]
           jobs == [c \in Builds |-> job(c)]
           dmb == Built(provDisk, FALSE)
<1>1. /\ provDmb' = dmb
      /\ provJobs' = [c \in Builds |->
           IF jobs[c].step \in {"compile", "wrote", "observe"}
           THEN [jobs[c] EXCEPT !.changed = TRUE] ELSE jobs[c]]
      /\ UNCHANGED <<provDisk, provKey, provRecords, provClock, provLaunch>>
  BY DEF OutsideBuild, Writes
<1>2. dmb \in Dmb
  <2>1. provDisk \in Inputs
    BY DEF ProvInv, ProvTypeOK
  <2> QED
    BY <2>1 DEF Built, Dmb
<1> HIDE DEF dmb
<1>3. \A c \in Builds : jobs[c] = job(c)
  OBVIOUS
<1> HIDE DEF jobs
<1>4. ASSUME NEW c \in Builds
      PROVE  LET j == provJobs[c]
                 new == provJobs'[c]
             IN /\ new \in JobRecord
                /\ new.inputs = j.inputs /\ new.outcome = j.outcome /\ new.at = j.at
                /\ new.dmb = j.dmb /\ new.ok = j.ok /\ new.kind = j.kind /\ new.exact = j.exact
                /\ new.step = j.step /\ new.alone = StillAlone(c)
  <2> DEFINE a == StillAlone(c)
             mine == [provJobs[c] EXCEPT !.alone = a]
             new == [mine EXCEPT !.changed = TRUE]
             j == provJobs[c]
  <2>1. provJobs'[c] = new \/ provJobs'[c] = mine
    BY <1>1, <1>3
  <2>2. a \in BOOLEAN /\ j \in JobRecord
    BY JobFacts
  <2> HIDE DEF StillAlone, a
  <2>3. /\ mine \in JobRecord /\ mine.step = j.step /\ mine.alone = a
        /\ mine.kind = j.kind /\ mine.exact = j.exact /\ mine.inputs = j.inputs
        /\ mine.ok = j.ok /\ mine.outcome = j.outcome /\ mine.at = j.at /\ mine.dmb = j.dmb
    BY <2>2, AloneSet
  <2> HIDE DEF mine
  <2>4. new \in JobRecord /\ new.step = mine.step /\ SameData(new, mine)
    BY <2>3, ChangedSet
  <2> HIDE DEF new, j
  <2>5. LET now == provJobs'[c] IN
        /\ now \in JobRecord
        /\ now.inputs = j.inputs /\ now.outcome = j.outcome /\ now.at = j.at
        /\ now.dmb = j.dmb /\ now.ok = j.ok /\ now.kind = j.kind /\ now.exact = j.exact
        /\ now.step = j.step /\ now.alone = a
    BY <2>1, <2>3, <2>4 DEF SameData
  <2> QED
    BY <2>5 DEF a, j
<1>5. provJobs' \in [Builds -> JobRecord]
  BY <1>1, <1>4
<1>6. ASSUME NEW c \in Builds
      PROVE  LET j == provJobs[c]
                 new == provJobs'[c]
             IN /\ new.inputs = j.inputs /\ new.outcome = j.outcome /\ new.at = j.at
                /\ new.dmb = j.dmb /\ new.ok = j.ok /\ new.kind = j.kind /\ new.exact = j.exact
                /\ new.alone => j.alone
                /\ new.step = j.step \/ (j.step = "compile" /\ new.step = "wrote")
                /\ new.step = "wrote" /\ new.alone => provDmb' = Built(provDisk, j.exact)
                /\ new.step \in {"observe", "capture"} => ~new.alone
  <2> DEFINE j == provJobs[c]
             new == provJobs'[c]
  <2>1. /\ new.inputs = j.inputs /\ new.outcome = j.outcome /\ new.at = j.at
        /\ new.dmb = j.dmb /\ new.ok = j.ok /\ new.kind = j.kind /\ new.exact = j.exact
        /\ new.step = j.step /\ new.alone = StillAlone(c)
    BY <1>4
  <2>2. /\ StillAlone(c) => j.alone
        /\ j.step \in {"wrote", "observe", "capture"} => ~StillAlone(c)
    OBVIOUS
  <2> HIDE DEF StillAlone, j, new
  <2>3. /\ new.alone => j.alone
        /\ new.step \in {"wrote", "observe", "capture"} => ~new.alone
    BY <2>1, <2>2
  <2> QED
    BY <2>1, <2>3 DEF j, new
<1>7. /\ provDmb' \in Dmb
      /\ UNCHANGED <<provDisk, provKey, provRecords, provClock, provLaunch>>
  BY <1>1, <1>2
<1>8. ArtifactMoves
  BY <1>5, <1>6, <1>7 DEF ArtifactMoves
<1> QED
  BY <1>8, StepArtifact

(* The job of b becomes new.                                                  *)
LEMMA BuildBecomes ==
  ASSUME ProvInv, NEW b \in Builds, NEW new \in JobRecord,
         provJobs' = [provJobs EXCEPT ![b] = new], Active(b), new.alone => provJobs[b].alone
  PROVE  BuildGoes(b) /\ provJobs'[b] = new
  BY JobFacts DEF BuildGoes

LEMMA StepCompilerEnds ==
  ASSUME ProvInv, NEW b \in Builds, CompilerEnds(b)
  PROVE  ProvInv'
<1> DEFINE j == provJobs[b]
           half == [j EXCEPT !.step = "observe"]
<1>1. /\ j.step \in {"compile", "wrote"} /\ j \in JobRecord /\ JobSound(j) /\ Active(b)
      /\ UNCHANGED <<provWorld, provRecords, provClock, provLaunch>>
  BY JobFacts DEF CompilerEnds, Active
<1>2. PICK ok \in {FALSE, j.step = "wrote" \/ j.kind = "rift"} :
        provJobs' = [provJobs EXCEPT ![b].step = "observe", ![b].ok = ok]
  BY DEF CompilerEnds
<1>3. ok \in BOOLEAN /\ (ok => j.step = "wrote" \/ j.kind = "rift")
  OBVIOUS
<1> DEFINE new == [half EXCEPT !.ok = ok]
<1>4. provJobs' = [provJobs EXCEPT ![b] = new]
  BY <1>2, JobFacts
<1>5. half \in JobRecord /\ half.step = "observe" /\ SameData(half, j)
  BY <1>1, StepSet DEF JobStep
<1> HIDE DEF half
<1>6. /\ new \in JobRecord /\ new.step = "observe" /\ new.ok = ok /\ new.inputs = half.inputs
      /\ new.alone = half.alone /\ new.kind = half.kind /\ new.exact = half.exact
      /\ new.at = half.at
  BY <1>3, <1>5 DEF JobRecord
<1> HIDE DEF new
<1>7. /\ new.inputs = j.inputs /\ new.alone = j.alone /\ new.kind = j.kind
      /\ new.exact = j.exact /\ new.at = j.at
  BY <1>5, <1>6 DEF SameData
<1>8. BuildGoes(b) /\ provJobs'[b] = new
  BY <1>1, <1>4, <1>6, <1>7, BuildBecomes
<1> HIDE DEF j
<1>9. JobSound(provJobs[b])'
  BY <1>1, <1>3, <1>6, <1>7, <1>8
  DEF JobSound, Read, Wrote, Caught, ToldOf, Succeeded, Falls, provWorld
<1> QED
  BY <1>1, <1>8, <1>9, GoesOn DEF provRecords, ProvInv, ProvTypeOK

(* The jobs that Observe leaves.                                              *)
AttemptJob(alone, outcome, at) ==
  [NoJob EXCEPT !.step = "attempt", !.outcome = outcome, !.at = at, !.alone = alone]
CaptureJob(alone, inputs, at) ==
  [NoJob EXCEPT !.step = "capture", !.at = at, !.inputs = inputs, !.alone = alone]

LEMMA AttemptedJob ==
  ASSUME NEW alone \in BOOLEAN, NEW outcome \in {"succeeded", "unverified", "failed"},
         NEW at \in Nat
  PROVE  LET new == AttemptJob(alone, outcome, at)
         IN /\ new \in JobRecord /\ new.step = "attempt" /\ new.outcome = outcome
            /\ new.at = at /\ new.alone = alone
<1> DEFINE one == [NoJob EXCEPT !.step = "attempt"]
           two == [one EXCEPT !.outcome = outcome]
           three == [two EXCEPT !.at = at]
           four == [three EXCEPT !.alone = alone]
<1>1. one \in JobRecord /\ one.step = "attempt"
  BY NoJobIs, StepSet DEF JobStep
<1> HIDE DEF one
<1>2. two \in JobRecord /\ two.step = "attempt" /\ two.outcome = outcome
  BY <1>1 DEF JobRecord
<1> HIDE DEF two
<1>3. /\ three \in JobRecord /\ three.step = "attempt" /\ three.outcome = outcome
      /\ three.at = at
  BY <1>2 DEF JobRecord
<1> HIDE DEF three
<1>4. /\ four \in JobRecord /\ four.step = "attempt" /\ four.outcome = outcome
      /\ four.at = at /\ four.alone = alone
  BY <1>3, AloneSet
<1> QED
  BY <1>4 DEF AttemptJob, one, two, three

LEMMA CapturingJob ==
  ASSUME NEW alone \in BOOLEAN, NEW inputs \in Inputs, NEW at \in Nat
  PROVE  LET new == CaptureJob(alone, inputs, at)
         IN /\ new \in JobRecord /\ new.step = "capture" /\ new.inputs = inputs
            /\ new.at = at /\ new.alone = alone
<1> DEFINE one == [NoJob EXCEPT !.step = "capture"]
           two == [one EXCEPT !.at = at]
           three == [two EXCEPT !.inputs = inputs]
           four == [three EXCEPT !.alone = alone]
<1>1. one \in JobRecord /\ one.step = "capture"
  BY NoJobIs, StepSet DEF JobStep
<1> HIDE DEF one
<1>2. two \in JobRecord /\ two.step = "capture" /\ two.at = at
  BY <1>1 DEF JobRecord
<1> HIDE DEF two
<1>3. /\ three \in JobRecord /\ three.step = "capture" /\ three.inputs = inputs
      /\ three.at = at
  BY <1>2 DEF JobRecord
<1> HIDE DEF three
<1>4. /\ four \in JobRecord /\ four.step = "capture" /\ four.inputs = inputs
      /\ four.at = at /\ four.alone = alone
  BY <1>3, AloneSet
<1> QED
  BY <1>4 DEF CaptureJob, one, two, three

(* Observe: proved inputs are what the compiler read, if it was alone.        *)
LEMMA ReadWhatIsRead ==
  ASSUME ProvInv, NEW b \in Builds, provJobs[b].step = "observe", provJobs[b].ok,
         provJobs[b].kind = "dm", provJobs[b].exact, provDisk = provJobs[b].inputs,
         provJobs[b].alone
  PROVE  provDmb = Built(provJobs[b].inputs, TRUE)
<1>1. /\ provDmb \in Dmb /\ provDmb.exact /\ Earlier(provDisk, provDmb.inputs)
      /\ Earlier(provDmb.inputs, provDisk) /\ provDisk \in Inputs
  BY JobFacts DEF JobSound, Wrote
<1>2. provDmb.inputs = provDisk
  BY <1>1, Reflexive DEF Dmb
<1> QED
  BY <1>1, <1>2 DEF Dmb, Built

LEMMA StepObserve ==
  ASSUME ProvInv, NEW b \in Builds, Observe(b)
  PROVE  ProvInv'
<1> DEFINE j == provJobs[b]
<1>1. /\ j.step = "observe" /\ j \in JobRecord /\ JobSound(j) /\ Active(b)
      /\ UNCHANGED <<provWorld, provRecords, provLaunch>>
  BY JobFacts DEF Observe, Active
<1>2. PICK stamp \in {provClock, provClock + 1} :
        /\ provClock' = stamp
        /\ \/ Done(b) \/ Attempts(b, "unverified", stamp) \/ Attempts(b, "failed", stamp)
           \/ /\ j.kind = "dm" /\ j.ok /\ Proved(j)
              /\ provJobs' = [provJobs EXCEPT ![b] = [NoJob EXCEPT
                      !.step = "capture", !.at = stamp, !.inputs = j.inputs,
                      !.alone = j.alone]]
  BY DEF Observe
<1>3. /\ stamp \in Nat /\ provClock <= stamp /\ provClock \in Nat
      /\ provClock' \in {provClock, provClock + 1}
  BY <1>2, JobFacts
<1>3a. /\ provClock' = stamp
       /\ UNCHANGED <<provDisk, provDmb, provKey, provBuilds, provFailed>>
  BY <1>1, <1>2 DEF provWorld, provRecords
<1>3b. /\ j.alone \in BOOLEAN /\ stamp <= stamp
  BY <1>1, <1>3 DEF JobRecord
<1>4. CASE Done(b)
  BY <1>1, <1>3, <1>4, StepDone
<1>5. ASSUME NEW outcome \in {"unverified", "failed"}, Attempts(b, outcome, stamp) PROVE ProvInv'
  <2> DEFINE new == AttemptJob(j.alone, outcome, stamp)
  <2>1. provJobs' = [provJobs EXCEPT ![b] = new]
    BY <1>5 DEF Attempts, AttemptJob
  <2> HIDE DEF j
  <2>2. new \in JobRecord
    BY <1>3, <1>3b, AttemptedJob
  <2>3. /\ new.step = "attempt" /\ new.alone = j.alone /\ new.outcome = outcome
        /\ new.at = stamp
    BY <1>3, <1>3b, AttemptedJob
  <2> HIDE DEF new
  <2>4. BuildGoes(b) /\ provJobs'[b] = new
    BY <1>1, <2>1, <2>2, <2>3, BuildBecomes DEF j
  <2>5. provBuilds[provKey] # NoRecord => provBuilds[provKey].at <= stamp
    <3>1. provBuilds[provKey] # NoRecord =>
            provBuilds[provKey].at \in Nat /\ provBuilds[provKey].at <= provClock
      BY DEF ProvInv, ProvTypeOK, BuildRecord, RecordSound
    <3> QED
      BY <1>3, <3>1
  <2>6. JobSound(provJobs[b])'
    <3>1. Read(provJobs[b])' /\ Wrote(provJobs[b])' /\ Caught(provJobs[b])'
      BY <1>3a, <2>3, <2>4, <2>5 DEF Read, Wrote, Caught
    <3>2. ToldOf(provJobs[b])'
      BY <1>3a, <1>3b, <2>3, <2>4, <2>5 DEF ToldOf, Succeeded, Falls
    <3> QED
      BY <3>1, <3>2 DEF JobSound
  <2> QED
    BY <1>1, <1>3, <2>4, <2>6, GoesOn DEF provRecords, ProvInv, ProvTypeOK
<1>6. CASE /\ j.kind = "dm" /\ j.ok /\ Proved(j)
           /\ provJobs' = [provJobs EXCEPT ![b] = [NoJob EXCEPT
                   !.step = "capture", !.at = stamp, !.inputs = j.inputs,
                   !.alone = j.alone]]
  <2> DEFINE new == CaptureJob(j.alone, j.inputs, stamp)
  <2>1. provJobs' = [provJobs EXCEPT ![b] = new]
    BY <1>6 DEF CaptureJob
  <2>5. j.inputs \in Inputs /\ (j.alone => provDmb = Built(j.inputs, TRUE))
    BY <1>1, <1>6, ReadWhatIsRead DEF Proved, JobSound, Read
  <2> HIDE DEF j
  <2>2. new \in JobRecord
    BY <1>3, <1>3b, <2>5, CapturingJob
  <2>3. /\ new.step = "capture" /\ new.alone = j.alone /\ new.inputs = j.inputs
        /\ new.at = stamp
    BY <1>3, <1>3b, <2>5, CapturingJob
  <2> HIDE DEF new
  <2>4. BuildGoes(b) /\ provJobs'[b] = new
    BY <1>1, <2>1, <2>2, <2>3, BuildBecomes DEF j
  <2>6. JobSound(provJobs[b])'
    <3>1. Read(provJobs[b])' /\ Wrote(provJobs[b])' /\ Caught(provJobs[b])'
      BY <1>3a, <2>3, <2>4, <2>5 DEF Read, Wrote, Caught
    <3>2. ToldOf(provJobs[b])'
      BY <1>3a, <1>3b, <2>3, <2>4, <2>5 DEF ToldOf, Succeeded, Falls
    <3> QED
      BY <3>1, <3>2 DEF JobSound
  <2> QED
    BY <1>1, <1>3, <2>4, <2>6, GoesOn DEF provRecords, ProvInv, ProvTypeOK
<1> QED
  BY <1>2, <1>4, <1>5, <1>6

LEMMA StepCaptureOutput ==
  ASSUME ProvInv, NEW b \in Builds, CaptureOutput(b)
  PROVE  ProvInv'
<1> DEFINE j == provJobs[b]
           half == [j EXCEPT !.step = "build"]
           new == [half EXCEPT !.dmb = provDmb]
<1>1. /\ j.step = "capture" /\ j \in JobRecord /\ JobSound(j) /\ Active(b) /\ provDmb \in Dmb
      /\ UNCHANGED <<provWorld, provRecords, provClock, provLaunch>>
  BY JobFacts DEF CaptureOutput, Active, ProvInv, ProvTypeOK
<1>2. provJobs' = [provJobs EXCEPT ![b] = new]
  BY JobFacts DEF CaptureOutput
<1>3. half \in JobRecord /\ half.step = "build" /\ SameData(half, j)
  BY <1>1, StepSet DEF JobStep
<1> HIDE DEF half
<1>4. /\ new \in JobRecord /\ new.step = "build" /\ new.dmb = provDmb
      /\ new.inputs = half.inputs /\ new.alone = half.alone /\ new.at = half.at
  BY <1>1, <1>3 DEF JobRecord
<1> HIDE DEF new
<1>5. new.inputs = j.inputs /\ new.alone = j.alone /\ new.at = j.at
  BY <1>3, <1>4 DEF SameData
<1>6. BuildGoes(b) /\ provJobs'[b] = new
  BY <1>1, <1>2, <1>4, <1>5, BuildBecomes
<1> HIDE DEF j
<1>7. JobSound(provJobs[b])'
  BY <1>1, <1>4, <1>5, <1>6
  DEF JobSound, Read, Wrote, Caught, ToldOf, Succeeded, Falls, provWorld
<1> QED
  BY <1>1, <1>6, <1>7, GoesOn DEF provRecords, ProvInv, ProvTypeOK

LEMMA StepRecordLocation ==
  ASSUME ProvInv, NEW b \in Builds, RecordLocation(b)
  PROVE  ProvInv'
<1> DEFINE j == provJobs[b]
           new == AttemptJob(j.alone, "succeeded", j.at)
<1>1. /\ j.step = "location" /\ j \in JobRecord /\ JobSound(j) /\ Active(b)
      /\ j.alone \in BOOLEAN /\ j.at \in Nat
      /\ UNCHANGED <<provWorld, provBuilds, provAttempts, provFailed, provClock, provLaunch>>
  BY JobFacts DEF RecordLocation, Active, JobRecord
<1>2. provJobs' = [provJobs EXCEPT ![b] = new]
  BY DEF RecordLocation, Attempts, AttemptJob
<1>3. provLocation' \in Identities
  BY DEF RecordLocation, ProvInv, ProvTypeOK
<1> HIDE DEF j
<1>4. /\ new \in JobRecord /\ new.step = "attempt" /\ new.outcome = "succeeded"
      /\ new.at = j.at /\ new.alone = j.alone
  BY <1>1, AttemptedJob
<1> HIDE DEF new
<1>5. BuildGoes(b) /\ provJobs'[b] = new
  BY <1>1, <1>2, <1>4, BuildBecomes DEF j
<1>6. JobSound(provJobs[b])'
  BY <1>1, <1>4, <1>5 DEF JobSound, Read, Wrote, Caught, ToldOf, Succeeded, Falls, provWorld
<1> QED
  BY <1>1, <1>3, <1>5, <1>6, GoesOn DEF ProvInv, ProvTypeOK

LEMMA StepBuildFails ==
  ASSUME ProvInv, NEW b \in Builds, BuildFails(b)
  PROVE  ProvInv'
  BY StepDone, JobFacts DEF BuildFails

(* A step of b that writes a record with this server's key.                   *)
KeyWritten(b) ==
  /\ UNCHANGED <<provDisk, provDmb, provKey, provLocation, provClock, provLaunch>>
  /\ provBuilds' \in [Identities -> BuildRecord \cup {NoRecord}]
  /\ provAttempts' \in [Identities -> Attempt \cup {NoRecord}]
  /\ provFailed' \in [Identities -> FailedRecord]
  /\ \A k \in Identities \ {provKey} :
       /\ provBuilds'[k] = provBuilds[k] /\ provAttempts'[k] = provAttempts[k]
       /\ provFailed'[k] = provFailed[k]

LEMMA KeyKeeps ==
  ASSUME ProvInv, NEW b \in Builds, Active(b), BuildGoes(b), KeyWritten(b),
         JobSound(provJobs[b])', RecordSound(provKey)',
         \/ provBuilds'[provKey] = provBuilds[provKey]
         \/ provBuilds'[provKey].alone = provJobs[b].alone
  PROVE  ProvInv'
<1>1. UNCHANGED <<provDisk, provDmb, provKey, provLocation, provClock, provLaunch>>
  BY DEF KeyWritten
<1>2. ProvTypeOK' /\ (DOMAIN provLaunch = Launches)'
  BY <1>1 DEF KeyWritten, BuildGoes, ProvInv, ProvTypeOK
<1>3. Apart'
  BY ApartKeeps DEF ProvInv
<1>4. ASSUME NEW c \in Builds \ {b} PROVE JobSound(provJobs[c])'
  <2>1. provJobs'[c] = provJobs[c] /\ JobSound(provJobs[c])
    BY DEF BuildGoes, ProvInv
  <2>2. Active(c) => ~provJobs[c].alone /\ ~provJobs[b].alone
    BY DEF ProvInv, Apart
  <2>3. Read(provJobs[c])' /\ Wrote(provJobs[c])' /\ Caught(provJobs[c])'
    BY <1>1, <2>1 DEF JobSound, Read, Wrote, Caught
  <2>4. Succeeded(provJobs[c]) \/ Falls(provJobs[c]) => Active(c)
    BY DEF Succeeded, Falls, Active
  <2>5. ToldOf(provJobs[c])'
    BY <1>1, <2>1, <2>2, <2>4 DEF JobSound, ToldOf, Succeeded, Falls
  <2> QED
    BY <2>3, <2>5 DEF JobSound
<1>5. ASSUME NEW k \in Identities PROVE RecordSound(k)'
  <2>1. CASE k = provKey
    BY <1>1, <2>1
  <2>2. CASE k # provKey
    <3>1. /\ provBuilds'[k] = provBuilds[k] /\ provAttempts'[k] = provAttempts[k]
          /\ provFailed'[k] = provFailed[k] /\ provClock' = provClock
      BY <2>2 DEF KeyWritten
    <3> QED
      BY <3>1 DEF ProvInv, RecordSound, BoundTo, Judged, Overtaken
  <2> QED
    BY <2>1, <2>2
<1>6. \A l \in Launches : LaunchSound(l)'
  BY <1>1 DEF ProvInv, LaunchSound, Verified
<1>7. \A c \in Builds : JobSound(provJobs[c])'
  BY <1>4
<1> QED
  BY <1>2, <1>3, <1>5, <1>6, <1>7 DEF ProvInv

LEMMA StepRecordBuild ==
  ASSUME ProvInv, NEW b \in Builds, RecordBuild(b)
  PROVE  ProvInv'
<1> DEFINE j == provJobs[b]
           record == [legacy |-> FALSE, inputs |-> j.inputs, dmb |-> j.dmb, at |-> j.at,
                      alone |-> j.alone]
           none == [since |-> FALSE, raced |-> FALSE]
           half == [j EXCEPT !.step = "location"]
           less == [half EXCEPT !.inputs = NoRecord]
           new == [less EXCEPT !.dmb = NoRecord]
<1>1. /\ j.step = "build" /\ j \in JobRecord /\ JobSound(j) /\ Active(b) /\ provKey \in Identities
      /\ provBuilds' = [provBuilds EXCEPT ![provKey] = record]
      /\ provFailed' = [provFailed EXCEPT ![provKey] = none]
      /\ provJobs' = [provJobs EXCEPT ![b] = new]
      /\ UNCHANGED <<provWorld, provLocation, provAttempts, provClock, provLaunch>>
  BY JobFacts DEF RecordBuild, Active, ProvInv, ProvTypeOK
<1>2. half \in JobRecord /\ half.step = "location" /\ SameData(half, j)
  BY <1>1, StepSet DEF JobStep
<1> HIDE DEF half
<1>3. /\ less \in JobRecord /\ less.step = "location" /\ less.alone = half.alone
      /\ less.at = half.at
  BY <1>2 DEF JobRecord
<1> HIDE DEF less
<1>4. /\ new \in JobRecord /\ new.step = "location" /\ new.alone = less.alone
      /\ new.at = less.at
  BY <1>3 DEF JobRecord
<1> HIDE DEF new
<1>5. new.alone = j.alone /\ new.at = j.at
  BY <1>2, <1>3, <1>4 DEF SameData
<1>6. BuildGoes(b) /\ provJobs'[b] = new
  BY <1>1, <1>4, <1>5, BuildBecomes
<1>7. /\ j.inputs \in Inputs /\ j.dmb \in Dmb /\ j.at \in Nat /\ j.alone \in BOOLEAN
      /\ j.at <= provClock /\ (j.alone => j.dmb = Built(j.inputs, TRUE))
  BY <1>1 DEF JobSound, Caught, ToldOf, JobRecord
<1> HIDE DEF j
<1>8. /\ record \in BuildRecord /\ record.at = j.at /\ record.alone = j.alone /\ BoundTo(record)
  BY <1>7 DEF BuildRecord, BoundTo
<1>9. none \in FailedRecord /\ none.since = FALSE
  BY DEF FailedRecord
<1> HIDE DEF record, none
<1>10. /\ provBuilds' \in [Identities -> BuildRecord \cup {NoRecord}]
       /\ provFailed' \in [Identities -> FailedRecord]
       /\ provBuilds'[provKey] = record /\ provFailed'[provKey] = none
       /\ \A k \in Identities \ {provKey} :
            provBuilds'[k] = provBuilds[k] /\ provFailed'[k] = provFailed[k]
  BY <1>1, <1>8, <1>9 DEF ProvInv, ProvTypeOK
<1>11. KeyWritten(b)
  BY <1>1, <1>10 DEF KeyWritten, ProvInv, ProvTypeOK, provWorld
<1>12. RecordSound(provKey)'
  BY <1>1, <1>7, <1>8, <1>9, <1>10 DEF RecordSound, BoundTo, Judged, provWorld
<1>13. JobSound(provJobs[b])'
  BY <1>1, <1>4, <1>5, <1>6, <1>7, <1>9, <1>10
  DEF JobSound, Read, Wrote, Caught, ToldOf, Succeeded, Falls, provWorld
<1> QED
  BY <1>1, <1>6, <1>8, <1>10, <1>11, <1>12, <1>13, KeyKeeps DEF j

LEMMA StepRecordAttempt ==
  ASSUME ProvInv, NEW b \in Builds, RecordAttempt(b)
  PROVE  ProvInv'
<1> DEFINE j == provJobs[b]
           attempt == [outcome |-> j.outcome, at |-> j.at]
           old == provFailed[provKey]
           failed == IF j.outcome = "succeeded" THEN [old EXCEPT !.raced = ~j.alone]
                     ELSE [old EXCEPT !.since = TRUE]
           done == [NoJob EXCEPT !.step = "done"]
<1>1. /\ j.step = "attempt" /\ j \in JobRecord /\ JobSound(j) /\ Active(b) /\ provKey \in Identities
      /\ provAttempts' = [provAttempts EXCEPT ![provKey] = attempt]
      /\ provJobs' = [provJobs EXCEPT ![b] = done]
      /\ UNCHANGED <<provWorld, provBuilds, provLocation, provClock, provLaunch>>
  BY JobFacts DEF RecordAttempt, Active, ProvInv, ProvTypeOK, Done
<1>2. provFailed' = [provFailed EXCEPT ![provKey] = failed]
  BY DEF RecordAttempt
<1>3. provFailed \in [Identities -> FailedRecord] /\ old \in FailedRecord
  BY <1>1 DEF ProvInv, ProvTypeOK
<1>4. done \in JobRecord /\ done.step = "done" /\ done.at = 0
  BY NoJobIs
<1> HIDE DEF done
<1>5. BuildGoes(b) /\ provJobs'[b] = done
  BY <1>1, <1>4, JobFacts DEF BuildGoes
<1>6. JobSound(provJobs[b])'
  <2>1. 0 <= provClock'
    BY <1>1, JobFacts
  <2> QED
    BY <1>4, <1>5, <2>1 DEF JobSound, Read, Wrote, Caught, ToldOf, Succeeded, Falls
<1>7. j.at \in Nat /\ j.alone \in BOOLEAN /\ j.outcome \in {"succeeded", "unverified", "failed"}
  BY <1>1 DEF JobRecord, JobSound, ToldOf
<1>8. j.alone /\ j.outcome = "succeeded" => ~old.since
  BY <1>1 DEF JobSound, ToldOf, Succeeded
<1>9. LET build == provBuilds[provKey] IN
      j.outcome # "succeeded" /\ build # NoRecord /\ build.alone => build.at <= j.at
  BY <1>1 DEF JobSound, ToldOf, Falls
<1> HIDE DEF j, old
<1>10. attempt \in Attempt /\ attempt.at = j.at /\ attempt.outcome = j.outcome
  BY <1>7 DEF Attempt
<1>11. attempt # NoRecord
  BY <1>10, ProvenanceConstants
<1> HIDE DEF attempt
<1>12. /\ failed \in FailedRecord
       /\ j.outcome = "succeeded" => failed.since = old.since /\ failed.raced = ~j.alone
  <2>1. CASE j.outcome = "succeeded"
    <3> DEFINE raced == ~j.alone
    <3>1. raced \in BOOLEAN /\ failed = [old EXCEPT !.raced = raced]
      BY <2>1
    <3> HIDE DEF raced, failed
    <3>2. failed \in FailedRecord /\ failed.since = old.since /\ failed.raced = raced
      BY <1>3, <3>1 DEF FailedRecord
    <3> QED
      BY <3>2 DEF raced
  <2>2. CASE j.outcome # "succeeded"
    BY <1>3, <2>2 DEF FailedRecord
  <2> QED
    BY <2>1, <2>2
<1> HIDE DEF failed
<1>13. /\ provAttempts' \in [Identities -> Attempt \cup {NoRecord}]
       /\ provFailed' \in [Identities -> FailedRecord]
       /\ provAttempts'[provKey] = attempt /\ provFailed'[provKey] = failed
       /\ \A k \in Identities \ {provKey} :
            provAttempts'[k] = provAttempts[k] /\ provFailed'[k] = provFailed[k]
  BY <1>1, <1>2, <1>3, <1>10, <1>12 DEF ProvInv, ProvTypeOK
<1>14. KeyWritten(b)
  BY <1>1, <1>13 DEF KeyWritten, ProvInv, ProvTypeOK, provWorld
<1>15. RecordSound(provKey)'
  <2> DEFINE build == provBuilds[provKey]
  <2>1. build # NoRecord => BoundTo(build) /\ build.at <= provClock /\ build.at \in Nat
    BY <1>1 DEF ProvInv, RecordSound, ProvTypeOK, BuildRecord
  <2>2. build # NoRecord => Judged(build, attempt, failed)
    <3> SUFFICES ASSUME build # NoRecord, build.alone, failed.since, ~failed.raced
                 PROVE  Overtaken(build, attempt)
      BY DEF Judged
    <3>1. j.outcome # "succeeded"
      BY <1>7, <1>8, <1>12
    <3> QED
      BY <1>7, <1>9, <1>10, <1>11, <2>1, <3>1 DEF Overtaken
  <2> QED
    BY <1>1, <1>13, <2>1, <2>2 DEF RecordSound, BoundTo, Judged, Overtaken, provWorld
<1> QED
  BY <1>1, <1>5, <1>6, <1>14, <1>15, KeyKeeps

(* A step of launches alone.                                                  *)
LEMMA LaunchKeeps ==
  ASSUME ProvInv, UNCHANGED <<provWorld, provRecords, provClock, provJobs>>,
         DOMAIN provLaunch' = Launches, \A l \in Launches : LaunchSound(l)'
  PROVE  ProvInv'
<1>1. ProvTypeOK'
  BY DEF ProvInv, ProvTypeOK, provWorld, provRecords
<1>2. Apart'
  BY DEF ProvInv, Apart, Active
<1>3. \A b \in Builds : JobSound(provJobs[b])'
  BY DEF ProvInv, JobSound, Read, Wrote, Caught, ToldOf, Succeeded, Falls, provWorld, provRecords
<1>4. \A k \in Identities : RecordSound(k)'
  BY DEF ProvInv, RecordSound, BoundTo, Judged, Overtaken, provRecords
<1> QED
  BY <1>1, <1>2, <1>3, <1>4 DEF ProvInv

LEMMA LaunchBecomes ==
  ASSUME ProvInv, NEW l \in Launches, NEW new, provLaunch' = [provLaunch EXCEPT ![l] = new]
  PROVE  /\ DOMAIN provLaunch' = Launches /\ provLaunch'[l] = new
         /\ \A m \in Launches \ {l} : LaunchSound(m)'
  BY DEF ProvInv, LaunchSound, Verified

LEMMA LaunchGoes ==
  ASSUME ProvInv, NEW l \in Launches, NEW new, provLaunch' = [provLaunch EXCEPT ![l] = new],
         UNCHANGED <<provWorld, provRecords, provClock, provJobs>>,
         new.step # "compare", ~(new.step = "decided" /\ new.status = "verified")
  PROVE  ProvInv'
<1>1. /\ DOMAIN provLaunch' = Launches /\ provLaunch'[l] = new
      /\ \A m \in Launches \ {l} : LaunchSound(m)'
  BY LaunchBecomes
<1>2. LaunchSound(l)'
  BY <1>1 DEF LaunchSound, Verified
<1> QED
  BY <1>1, <1>2, LaunchKeeps

LEMMA StepDecide ==
  ASSUME ProvInv, NEW l \in Launches, NEW status, status # "verified", Decide(l, status),
         UNCHANGED <<provWorld, provRecords, provClock, provJobs>>
  PROVE  ProvInv'
<1> DEFINE new == [NoLaunch EXCEPT !.step = "decided", !.status = status]
<1>1. new.step = "decided" /\ new.status = status
  BY DEF NoLaunch
<1>2. provLaunch' = [provLaunch EXCEPT ![l] = new]
  BY DEF Decide
<1> HIDE DEF new
<1> QED
  BY <1>1, <1>2, LaunchGoes

LEMMA StepReadRecords ==
  ASSUME ProvInv, NEW l \in Launches, ReadRecords(l)
  PROVE  ProvInv'
<1> DEFINE record == provBuilds[provLocation]
           attempt == provAttempts[provLocation]
           failed == provFailed[provLocation]
           new == [NoLaunch EXCEPT !.step = "compare", !.record = record,
                     !.attempt = attempt, !.foreign = provLocation # provKey, !.failed = failed]
<1>1. UNCHANGED <<provWorld, provRecords, provClock, provJobs>>
  BY DEF ReadRecords
<1>2. CASE provLocation = NoRecord
  BY <1>1, <1>2, StepDecide DEF ReadRecords
<1>3. CASE provLocation # NoRecord /\ record = NoRecord
  BY <1>1, <1>3, StepDecide DEF ReadRecords
<1>4. CASE provLocation # NoRecord /\ record # NoRecord
  <2>1. provLaunch' = [provLaunch EXCEPT ![l] = new]
    BY <1>4 DEF ReadRecords
  <2>2. BoundTo(record) /\ Judged(record, attempt, failed)
    BY <1>4 DEF ProvInv, ProvTypeOK, RecordSound
  <2>3. /\ new.step = "compare" /\ new.record = record /\ new.attempt = attempt
        /\ new.failed = failed
    BY DEF NoLaunch
  <2> HIDE DEF new, record, attempt, failed
  <2>4. /\ DOMAIN provLaunch' = Launches /\ provLaunch'[l] = new
        /\ \A m \in Launches \ {l} : LaunchSound(m)'
    BY <2>1, LaunchBecomes
  <2>5. LaunchSound(l)'
    BY <2>2, <2>3, <2>4 DEF LaunchSound, Verified, BoundTo, Judged, Overtaken
  <2> QED
    BY <1>1, <2>4, <2>5, LaunchKeeps
<1> QED
  BY <1>2, <1>3, <1>4

(* A launch is verified with the record it read, and saw the inputs then.     *)
LEMMA StepCompare ==
  ASSUME ProvInv, NEW l \in Launches, Compare(l)
  PROVE  ProvInv'
<1> DEFINE launch == provLaunch[l]
           stale == \/ launch.foreign \/ ~SameInputs(launch.record.inputs, provDisk)
                    \/ provDmb # launch.record.dmb
                    \/ Overtaken(launch.record, launch.attempt)
           new == [NoLaunch EXCEPT !.step = "decided", !.status = "verified", !.inputs = provDisk,
                     !.record = launch.record, !.failed = launch.failed]
<1>1. UNCHANGED <<provWorld, provRecords, provClock, provJobs>>
  BY DEF Compare
<1>2. CASE stale \/ launch.record.legacy
  BY <1>1, <1>2, StepDecide DEF Compare
<1>3. CASE ~stale /\ ~launch.record.legacy
  <2>1. provLaunch' = [provLaunch EXCEPT ![l] = new]
    BY <1>3 DEF Compare
  <2>2. /\ BoundTo(launch.record) /\ Judged(launch.record, launch.attempt, launch.failed)
        /\ SameInputs(launch.record.inputs, provDisk)
        /\ ~Overtaken(launch.record, launch.attempt)
    BY <1>3 DEF Compare, ProvInv, LaunchSound
  <2>3. /\ new.step = "decided" /\ new.record = launch.record /\ new.inputs = provDisk
        /\ new.failed = launch.failed
    BY DEF NoLaunch
  <2>4. launch.record.alone /\ launch.failed.since => launch.failed.raced
    BY <2>2 DEF Judged
  <2> HIDE DEF new, launch
  <2>5. /\ DOMAIN provLaunch' = Launches /\ provLaunch'[l] = new
        /\ \A m \in Launches \ {l} : LaunchSound(m)'
    BY <2>1, LaunchBecomes
  <2>6. LaunchSound(l)'
    BY <2>2, <2>3, <2>4, <2>5 DEF LaunchSound, Verified, BoundTo, SameInputs
  <2> QED
    BY <1>1, <2>5, <2>6, LaunchKeeps
<1> QED
  BY <1>2, <1>3

LEMMA StepLaunchReturns ==
  ASSUME ProvInv, NEW l \in Launches, LaunchReturns(l)
  PROVE  ProvInv'
<1>1. NoLaunch.step = "idle"
  BY DEF NoLaunch
<1> QED
  BY <1>1, LaunchGoes DEF LaunchReturns

(* Versions only grow.                                                        *)
LEMMA DiskGrows ==
  ASSUME provDisk \in Inputs, NEW x \in DOMAIN provDisk,
         provDisk' = [provDisk EXCEPT ![x] = @ + 1]
  PROVE  provDisk' \in Inputs /\ Earlier(provDisk, provDisk')
<1>1. x \in {"source", "config", "compiler"}
  BY DEF Inputs
<1>2. CASE x = "source"
  BY <1>2 DEF Inputs, Earlier
<1>3. CASE x = "config"
  BY <1>3 DEF Inputs, Earlier
<1>4. CASE x = "compiler"
  BY <1>4 DEF Inputs, Earlier
<1> QED
  BY <1>1, <1>2, <1>3, <1>4

LEMMA EarlierTransitive ==
  ASSUME NEW a \in Inputs, NEW b \in Inputs, NEW c \in Inputs, Earlier(a, b), Earlier(b, c)
  PROVE  Earlier(a, c)
  BY DEF Inputs, Earlier

LEMMA StepInputEdited ==
  ASSUME ProvInv, NEW x \in DOMAIN provDisk, InputEdited(x)
  PROVE  ProvInv'
<1>1. UNCHANGED <<provDmb, provKey, provRecords, provClock, provJobs, provLaunch>>
  BY DEF InputEdited
<1>2. /\ provDisk \in Inputs /\ provDisk' \in Inputs /\ Earlier(provDisk, provDisk')
  BY DiskGrows DEF InputEdited, ProvInv, ProvTypeOK
<1>3. ProvTypeOK' /\ (DOMAIN provLaunch = Launches)'
  BY <1>1, <1>2 DEF ProvInv, ProvTypeOK, provRecords
<1>4. Apart'
  BY <1>1 DEF ProvInv, Apart, Active
<1>5. ASSUME NEW b \in Builds PROVE JobSound(provJobs[b])'
  <2> DEFINE j == provJobs[b]
  <2>1. JobSound(j) /\ provJobs'[b] = j /\ j \in JobRecord
    BY <1>1 DEF ProvInv, ProvTypeOK
  <2>2. Read(j)'
    BY <1>2, <2>1, EarlierTransitive DEF JobSound, Read
  <2>3. Wrote(j)'
    <3> SUFFICES ASSUME j.alone,
                        j.step = "wrote" \/ (j.step = "observe" /\ j.ok /\ j.kind = "dm")
                 PROVE  /\ provDmb \in Dmb /\ provDmb.exact = j.exact
                        /\ Earlier(j.inputs, provDmb.inputs) /\ Earlier(provDmb.inputs, provDisk')
      BY <1>1, <2>1 DEF Wrote
    <3>1. /\ provDmb \in Dmb /\ provDmb.exact = j.exact
          /\ Earlier(j.inputs, provDmb.inputs) /\ Earlier(provDmb.inputs, provDisk)
      BY <2>1 DEF JobSound, Wrote
    <3>2. provDmb.inputs \in Inputs
      BY <3>1 DEF Dmb
    <3> QED
      BY <1>2, <3>1, <3>2, EarlierTransitive
  <2>4. Caught(j)' /\ ToldOf(j)'
    BY <1>1, <2>1 DEF JobSound, Caught, ToldOf, Succeeded, Falls, provRecords
  <2> QED
    BY <2>2, <2>3, <2>4 DEF JobSound
<1>6. \A k \in Identities : RecordSound(k)'
  BY <1>1 DEF ProvInv, RecordSound, BoundTo, Judged, Overtaken, provRecords
<1>7. \A l \in Launches : LaunchSound(l)'
  BY <1>1 DEF ProvInv, LaunchSound, Verified
<1> QED
  BY <1>3, <1>4, <1>5, <1>6, <1>7 DEF ProvInv

LEMMA StepRestart ==
  ASSUME ProvInv, Restart
  PROVE  ProvInv'
<1> DEFINE done == [NoJob EXCEPT !.step = "done"]
<1>1. /\ UNCHANGED <<provDisk, provDmb, provRecords, provClock>> /\ provKey' \in Identities
      /\ provJobs' = [b \in Builds |-> IF Active(b) THEN done ELSE provJobs[b]]
      /\ provLaunch' = [l \in Launches |-> NoLaunch]
  BY DEF Restart
<1>2. done \in JobRecord /\ done.step = "done" /\ done.at = 0
  BY NoJobIs
<1> HIDE DEF done
<1>3. provJobs' \in [Builds -> JobRecord]
  BY <1>1, <1>2 DEF ProvInv, ProvTypeOK
<1>4. ProvTypeOK' /\ (DOMAIN provLaunch = Launches)'
  BY <1>1, <1>3 DEF ProvInv, ProvTypeOK, provRecords
<1>5. ASSUME NEW b \in Builds
      PROVE  provJobs'[b].step \in {"idle", "done"} /\ provJobs'[b].at <= provClock'
  BY <1>1, <1>2, JobFacts DEF Active, ProvInv, ProvTypeOK, JobSound, ToldOf
<1>6. Apart'
  BY <1>5 DEF Apart, Active
<1>7. \A b \in Builds : JobSound(provJobs[b])'
  BY <1>5 DEF JobSound, Read, Wrote, Caught, ToldOf, Succeeded, Falls
<1>8. \A k \in Identities : RecordSound(k)'
  BY <1>1 DEF ProvInv, RecordSound, BoundTo, Judged, Overtaken, provRecords
<1>9. NoLaunch.step = "idle"
  BY DEF NoLaunch
<1>10. \A l \in Launches : LaunchSound(l)'
  BY <1>1, <1>9 DEF LaunchSound, Verified
<1> QED
  BY <1>4, <1>6, <1>7, <1>8, <1>10 DEF ProvInv

LEMMA InitInv == ProvInit \/ LegacyInit => ProvInv
<1> DEFINE dmb == Built(FirstInputs, TRUE)
           record == [legacy |-> TRUE, inputs |-> FirstInputs, dmb |-> dmb, at |-> 0,
                      alone |-> TRUE]
           quiet == [since |-> FALSE, raced |-> FALSE]
<1> SUFFICES ASSUME ProvInit \/ LegacyInit PROVE ProvInv
  OBVIOUS
<1>1. FirstInputs \in Inputs /\ dmb \in Dmb
  BY DEF FirstInputs, Inputs, Built, Dmb
<1>2. /\ record \in BuildRecord /\ BoundTo(record) /\ record.at = 0
  BY <1>1 DEF BuildRecord, BoundTo
<1>3. quiet \in FailedRecord /\ ~quiet.since
  BY DEF FailedRecord
<1>4. /\ provDisk = FirstInputs /\ provClock = 1 /\ provKey \in Identities
      /\ provDmb \in {NoRecord, dmb} /\ provLocation \in Identities \cup {NoRecord}
      /\ provAttempts = [k \in Identities |-> NoRecord]
      /\ provFailed = [k \in Identities |-> quiet]
      /\ provJobs = [b \in Builds |-> NoJob] /\ provLaunch = [l \in Launches |-> NoLaunch]
  BY DEF ProvInit, LegacyInit, Fresh
<1>5. \/ provBuilds = [k \in Identities |-> NoRecord]
      \/ provBuilds = [k \in Identities |-> IF k = provKey THEN record ELSE NoRecord]
  BY DEF ProvInit, LegacyInit, Fresh
<1> HIDE DEF record, dmb, quiet
<1>6. \A k \in Identities : provBuilds[k] \in {NoRecord, record}
  BY <1>5
<1>7. provBuilds \in [Identities -> BuildRecord \cup {NoRecord}]
  BY <1>2, <1>5
<1>8. ProvTypeOK
  BY <1>1, <1>3, <1>4, <1>7, NoJobIs DEF ProvTypeOK
<1>9. DOMAIN provLaunch = Launches /\ Apart
  BY <1>4, NoJobIs DEF Apart, Active
<1>10. ASSUME NEW b \in Builds PROVE JobSound(provJobs[b])
  <2>1. /\ provJobs[b] \in JobRecord /\ provJobs[b].step = "idle"
        /\ provJobs[b].at <= provClock
    BY <1>4, NoJobIs
  <2> QED
    BY <2>1, OutsideSound
<1>11. ASSUME NEW k \in Identities PROVE RecordSound(k)
  BY <1>2, <1>3, <1>4, <1>6 DEF RecordSound, Judged
<1>12. NoLaunch.step = "idle"
  BY DEF NoLaunch
<1>13. \A l \in Launches : LaunchSound(l)
  BY <1>4, <1>12 DEF LaunchSound, Verified
<1> QED
  BY <1>8, <1>9, <1>10, <1>11, <1>13 DEF ProvInv

LEMMA StepStutters == ASSUME ProvInv, UNCHANGED provVars PROVE ProvInv'
<1>1. UNCHANGED <<provWorld, provRecords, provClock, provJobs, provLaunch>>
  BY DEF provVars
<1> QED
  BY <1>1, LaunchKeeps DEF ProvInv, LaunchSound, Verified

LEMMA StepProv == ProvInv /\ [ProvNext]_provVars => ProvInv'
<1> SUFFICES ASSUME ProvInv, [ProvNext]_provVars PROVE ProvInv'
  OBVIOUS
<1>1. ASSUME NEW b \in Builds, BuildSteps(b) PROVE ProvInv'
  BY <1>1, StepPrepare, StepCompilerWrites, StepCompilerEnds, StepObserve, StepCaptureOutput,
     StepRecordBuild, StepRecordLocation, StepRecordAttempt, StepBuildFails DEF BuildSteps
<1>2. ASSUME NEW l \in Launches, LaunchSteps(l) PROVE ProvInv'
  BY <1>2, StepReadRecords, StepCompare, StepLaunchReturns DEF LaunchSteps
<1>3. ASSUME NEW x \in DOMAIN provDisk, InputEdited(x) PROVE ProvInv'
  BY <1>3, StepInputEdited
<1>4. CASE OutsideBuild
  BY <1>4, StepOutsideBuild
<1>5. CASE Restart
  BY <1>5, StepRestart
<1>6. CASE UNCHANGED provVars
  BY <1>6, StepStutters
<1> QED
  BY <1>1, <1>2, <1>3, <1>4, <1>5, <1>6 DEF ProvNext

LEMMA SoundIsBuilt == ProvInv => VerifiedMeansBuilt
  BY DEF ProvInv, LaunchSound, BoundTo, VerifiedMeansBuilt

(* A launch that is verified compared a DMB that its record binds to inputs   *)
(* which the launch saw unchanged, and no compile failed or stayed unverified *)
(* after that record; for any number of builds, launches and identities, any  *)
(* edits and restarts (evaluate_launch, record_success).                      *)
THEOREM VerifiedIsBuilt == ProvSpec => []VerifiedMeansBuilt
<1>1. ProvSpec => []ProvInv
  BY InitInv, StepProv, PTL DEF ProvSpec
<1> QED
  BY <1>1, SoundIsBuilt, PTL
=============================================================================
