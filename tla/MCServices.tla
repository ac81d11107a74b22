------------------------------ MODULE MCServices ------------------------------
(***************************************************************************)
(* The services under the tools, for TLC in one run: the private store,    *)
(* the collector's transport and helper, and the three ways in which the   *)
(* server keeps a process.  They share no state: a behaviour is of the one *)
(* chosen at the start.                                                    *)
(***************************************************************************)
EXTENDS PrivateState, CollectorTransport, ContainedProcess, RuntimeOwner,
        CollectorSupervisor, TracyHelper

CONSTANT Subjects   \* which of them are checked
VARIABLE subject

ServicesInit ==
  /\ subject \in Subjects
  /\ Init /\ WireInit /\ OwnerInit /\ SupInit /\ ToolInit /\ HelperInit

Only(s) ==
  /\ subject = s /\ UNCHANGED subject
  /\ s # "store" => UNCHANGED vars
  /\ s # "wire" => UNCHANGED wireVars
  /\ s # "tool" => UNCHANGED toolVars
  /\ s # "owner" => UNCHANGED ownVars
  /\ s # "supervisor" => UNCHANGED supVars
  /\ s # "helper" => UNCHANGED hlpVars

ServicesNext ==
  \/ Only("store") /\ Next
  \/ Only("wire") /\ WireNext
  \/ Only("tool") /\ ToolNext
  \/ Only("owner") /\ OwnerNext
  \/ Only("supervisor") /\ SupNext
  \/ Only("helper") /\ HelperNext

ServicesSpec ==
  /\ ServicesInit
  /\ [][ServicesNext]_<<subject, vars, wireVars, toolVars, ownVars, supVars, hlpVars>>
  /\ Fairness
  /\ \A c \in Caller : SF_wireVars(Advance(c))
  /\ WF_wireVars(Read)
  /\ ToolFairness /\ OwnerFairness /\ SupFairness /\ HelperFairness

(* Nothing outlives its owner unnoticed: TreeReleased and OutputAccounted   *)
(* of a tool's process, GroupOwned of a runtime, ConfirmedMeansGone and     *)
(* NoStopUnheard of the collector.                                          *)
ProcessesReleased ==
  TreeReleased /\ OutputAccounted /\ GroupOwned /\ ConfirmedMeansGone /\ NoStopUnheard

(* The producer is drained by the worker that one thread owns: BackendOwned *)
(* and DrainHeld of the helper.                                             *)
ProducerDrained == BackendOwned /\ DrainHeld

(* What was asked to end ends: ToolReturns of a tool's call, LossKills of a *)
(* runtime whose server is gone, DropKills of a dropped collector,          *)
(* HelperEnds of the helper, stated as one: a behaviour is of one subject.  *)
ProcessesReturn ==
  (\/ subject = "tool" /\ toolStep = "check"
   \/ subject = "owner" /\ Orphaned
   \/ subject = "supervisor" /\ supHandle = "dropped"
   \/ subject = "helper" /\ hlpMain.eof)
  ~>
  (\/ subject = "tool" /\ ToolAnswered
   \/ subject = "owner" /\ GroupGone
   \/ subject = "supervisor" /\ Gone
   \/ subject = "helper" /\ hlpMain.step = "exited")
=============================================================================
