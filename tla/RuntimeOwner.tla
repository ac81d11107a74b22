------------------------------ MODULE RuntimeOwner ------------------------------
(***************************************************************************)
(* RuntimeOwner: who kills the processes of a game runtime on Unix.  A     *)
(* guardian process leads the process group of the runtime and waits for   *)
(* the end of a pipe whose write end (the lease) is held by the server,    *)
(* and by a fork of it until that executes the runtime.  When the lease is *)
(* gone, by request or because the server died, the guardian kills its own *)
(* group.  The server may do so too, and the group identity is reserved    *)
(* until it reaps the guardian; after that it may name strangers.          *)
(***************************************************************************)
CONSTANT OwnerFaults   \* subset of {"late", "spawn", "kill", "scan", "loss"}

ASSUME OwnerConstants == OwnerFaults \subseteq {"late", "spawn", "kill", "scan", "loss"}

VARIABLES
  ownServer,    \* what the server is doing, "lost" once it has died
  ownLease,     \* holders of the write end of the guardian's pipe
  ownGuardian,  \* "none", "starting", "ready", "waiting", "zombie", "reaped"
  ownGroup,     \* the runtime child and its descendant
  ownSignal,    \* what the last signal of the server to the group met
  ownAnswer     \* last answer of is_terminated

ownVars == <<ownServer, ownLease, ownGuardian, ownGroup, ownSignal, ownAnswer>>

Members == {"child", "descendant"}

OwnerInit ==
  /\ ownServer = "idle" /\ ownLease = {} /\ ownGuardian = "none"
  /\ ownGroup = [m \in Members |-> "none"]
  /\ ownSignal = "none" /\ ownAnswer = FALSE

GuardianLives == ownGuardian \in {"starting", "ready", "waiting"}
\* The guardian keeps the identity of the group until it is reaped.
Reserved == ownGuardian \notin {"none", "reaped"}

(* The group after SIGKILL to all of it; a process dies some time later. *)
Signalled == [m \in Members |-> 
                IF ownGroup[m] \in {"joined", "running"} THEN "dying" ELSE ownGroup[m]]

-----------------------------------------------------------------------------
(* the guardian: dispatch, KillGroup *)

GuardianReady ==
  /\ ownGuardian = "starting" /\ ownGuardian' = "ready"
  /\ UNCHANGED <<ownServer, ownLease, ownGroup, ownSignal, ownAnswer>>

(* End of the pipe: the drop of KillGroup kills the group, itself included. *)
GuardianKills ==
  /\ ownGuardian \in {"ready", "waiting"} /\ ownLease = {}
  /\ ownGuardian' = "zombie" /\ ownGroup' = Signalled
  /\ UNCHANGED <<ownServer, ownLease, ownSignal, ownAnswer>>

(* A dead server's guardian is reaped by init. *)
InitReaps ==
  /\ ownServer = "lost" /\ ownGuardian = "zombie"
  /\ ownGuardian' = "reaped"
  /\ UNCHANGED <<ownServer, ownLease, ownGroup, ownSignal, ownAnswer>>

-----------------------------------------------------------------------------
(* RuntimeOwner::start, spawn_with_executable *)

StartGuardian ==
  /\ ownServer = "idle"
  /\ \/ /\ ownGuardian' = "starting" /\ ownLease' = {"server"}
        /\ ownServer' = "ready_wait"
     \/ /\ "spawn" \in OwnerFaults /\ ownServer' = "failed"
        /\ UNCHANGED <<ownGuardian, ownLease>>
  /\ UNCHANGED <<ownGroup, ownSignal, ownAnswer>>

(* The ready byte, or two seconds without it: the owner is dropped. *)
AwaitReady ==
  /\ ownServer = "ready_wait"
  /\ \/ /\ ownGuardian = "ready" /\ ownGuardian' = "waiting" /\ ownServer' = "fork"
     \/ /\ "late" \in OwnerFaults /\ ownServer' = "drop"
        /\ UNCHANGED ownGuardian
  /\ UNCHANGED <<ownLease, ownGroup, ownSignal, ownAnswer>>

(* slip: the fork does not hold the lease. *)
ForkWithoutLease ==
  /\ ownServer = "fork"
  /\ ownGroup' = [ownGroup EXCEPT !["child"] = "forked"] /\ ownServer' = "exec_wait"
  /\ UNCHANGED <<ownLease, ownGuardian, ownSignal, ownAnswer>>

Fork ==
  /\ ownServer = "fork"
  /\ ownGroup' = [ownGroup EXCEPT !["child"] = "forked"]
  /\ ownLease' = ownLease \cup {"fork"} /\ ownServer' = "exec_wait"
  /\ UNCHANGED <<ownGuardian, ownSignal, ownAnswer>>

(* pre_exec and exec: the child joins the group, then loses the lease; it  *)
(* ends if there is no group to join or nothing to execute.                *)
Joins ==
  /\ ownGroup["child"] = "forked"
  /\ \/ /\ Reserved
        /\ ownGroup' = [ownGroup EXCEPT !["child"] = "joined"]
        /\ UNCHANGED ownLease
     \/ /\ ~Reserved \/ "spawn" \in OwnerFaults
        /\ ownGroup' = [ownGroup EXCEPT !["child"] = "dead"]
        /\ ownLease' = ownLease \ {"fork"}
  /\ UNCHANGED <<ownServer, ownGuardian, ownSignal, ownAnswer>>

Executes ==
  /\ ownGroup["child"] = "joined"
  /\ ownGroup' = [ownGroup EXCEPT !["child"] = "running"]
  /\ ownLease' = ownLease \ {"fork"}
  /\ UNCHANGED <<ownServer, ownGuardian, ownSignal, ownAnswer>>

(* Command::spawn returns when the child has executed or failed to. *)
Spawned ==
  /\ ownServer = "exec_wait" /\ "fork" \notin ownLease
  /\ ownServer' = IF ownGroup["child"] = "dead" THEN "drop" ELSE "owned"
  /\ ownGroup["child"] \notin {"forked", "joined"}
  /\ UNCHANGED <<ownLease, ownGuardian, ownGroup, ownSignal, ownAnswer>>

-----------------------------------------------------------------------------
(* request_termination, is_terminated, terminate and drop *)

(* The lease is given up, then the group is killed unless it was reaped. *)
RequestTermination ==
  /\ ownLease' = ownLease \ {"server"}
  /\ \/ /\ ownGuardian # "reaped"
        /\ ownSignal' = IF Reserved THEN "group" ELSE "stranger"
        /\ ownGroup' = Signalled
        /\ ownGuardian' = IF GuardianLives THEN "zombie" ELSE ownGuardian
     \/ /\ ownGuardian = "reaped" \/ "kill" \in OwnerFaults
        /\ UNCHANGED <<ownSignal, ownGroup, ownGuardian>>

(* group_stopped, with the guardian a zombie that still holds the identity *)
GroupStopped ==
  /\ ownGuardian = "zombie"
  /\ \A m \in Members : ownGroup[m] \in {"none", "dead"}

IsTerminated ==
  \/ ownGuardian = "reaped" /\ ownAnswer' = TRUE /\ UNCHANGED ownGuardian
  \/ GroupStopped /\ ownAnswer' = TRUE /\ ownGuardian' = "reaped"
  \/ /\ ownGuardian # "reaped" /\ (~GroupStopped \/ "scan" \in OwnerFaults)
     /\ ownAnswer' = FALSE /\ UNCHANGED ownGuardian

RequestsEnd ==
  /\ ownServer = "owned" /\ RequestTermination
  /\ UNCHANGED <<ownServer, ownAnswer>>

Probe ==
  /\ ownServer = "owned" /\ IsTerminated
  /\ UNCHANGED <<ownServer, ownLease, ownGroup, ownSignal>>

LetGo ==
  /\ ownServer = "owned" /\ ownServer' = "drop"
  /\ UNCHANGED <<ownLease, ownGuardian, ownGroup, ownSignal, ownAnswer>>

(* Drop: terminate, for two seconds at most, then a thread that reaps. *)
DropRequests ==
  /\ ownServer = "drop" /\ RequestTermination /\ ownServer' = "drop_wait"
  /\ UNCHANGED ownAnswer

DropWaits ==
  /\ ownServer = "drop_wait"
  /\ \/ /\ IsTerminated /\ ownAnswer' /\ ownServer' = "dropped"
        /\ UNCHANGED <<ownLease, ownGroup, ownSignal>>
     \/ /\ "kill" \in OwnerFaults \/ "scan" \in OwnerFaults
        /\ ownServer' = "reaping"
        /\ UNCHANGED <<ownLease, ownGuardian, ownGroup, ownSignal, ownAnswer>>

ThreadReaps ==
  /\ ownServer = "reaping" /\ ownGuardian = "zombie"
  /\ ownServer' = "dropped" /\ ownGuardian' = "reaped"
  /\ UNCHANGED <<ownLease, ownGroup, ownSignal, ownAnswer>>

-----------------------------------------------------------------------------
(* the environment *)

ServerLost ==
  /\ "loss" \in OwnerFaults /\ ownServer \notin {"idle", "failed", "dropped", "lost"}
  /\ ownServer' = "lost" /\ ownLease' = ownLease \ {"server"}
  /\ UNCHANGED <<ownGuardian, ownGroup, ownSignal, ownAnswer>>

Dies(m) ==
  /\ ownGroup[m] = "dying" /\ ownGroup' = [ownGroup EXCEPT ![m] = "dead"]
  /\ ownLease' = IF m = "child" THEN ownLease \ {"fork"} ELSE ownLease
  /\ UNCHANGED <<ownServer, ownGuardian, ownSignal, ownAnswer>>

MemberMoves ==
  /\ ownGroup["child"] = "running"
  /\ \/ ownGroup' = [ownGroup EXCEPT !["child"] = "dead"]
     \/ /\ ownGroup["descendant"] = "none"
        /\ ownGroup' = [ownGroup EXCEPT !["descendant"] = "running"]
  /\ UNCHANGED <<ownServer, ownLease, ownGuardian, ownSignal, ownAnswer>>

OwnerNext ==
  \/ StartGuardian \/ GuardianReady \/ GuardianKills \/ InitReaps \/ AwaitReady
  \/ Fork \/ Joins \/ Executes \/ Spawned \/ RequestsEnd \/ Probe \/ LetGo
  \/ DropRequests \/ DropWaits \/ ThreadReaps \/ ServerLost \/ MemberMoves
  \/ \E m \in Members : Dies(m)

(* The kernel runs the guardian and the fork and delivers the signals; the *)
(* server, which may be lost, owes nothing but what a drop has begun.      *)
OwnerFairness ==
  /\ WF_ownVars(GuardianReady) /\ WF_ownVars(GuardianKills)
  /\ WF_ownVars(Joins) /\ WF_ownVars(Executes)
  /\ \A m \in Members : WF_ownVars(Dies(m))

-----------------------------------------------------------------------------
(* Properties *)

(* The server never signals a group identity that may be another's, and a  *)
(* runtime it reports terminated has no process left (request_termination, *)
(* is_terminated: the guardian is reaped last).                            *)
GroupOwned ==
  /\ ownSignal # "stranger"
  /\ ownAnswer => \A m \in Members : ownGroup[m] \in {"none", "dead"}

(* Once the lease is gone, because the server died at any point of a       *)
(* launch or of a stop, or by its request, the whole group dies (KillGroup, *)
(* the lease that the fork inherits).                                      *)
Orphaned == ownGuardian # "none" /\ "server" \notin ownLease
GroupGone == \A m \in Members : ownGroup[m] \in {"none", "dead"}

LossKills == Orphaned ~> GroupGone
=============================================================================
