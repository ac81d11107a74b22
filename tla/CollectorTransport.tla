-------------------------- MODULE CollectorTransport --------------------------
(***************************************************************************)
(* CollectorTransport: requests of several callers multiplexed over the    *)
(* stdin and stdout of one collector process.  A caller owns the writer    *)
(* while it registers and writes its frame; a reader task hands each       *)
(* response to the caller registered under its id.  A request has one      *)
(* deadline over all its awaits and may be dropped at any of them.         *)
(*                                                                         *)
(* The pipe is a stage per frame, and responses are a set: the helper may  *)
(* answer in any order.                                                    *)
(***************************************************************************)
EXTENDS Integers, FiniteSets

CONSTANTS
  Caller,        \* the tasks that issue requests
  IdLimit,       \* the last request id is IdLimit - 1 (u64::MAX in the code)
  MaxPending,    \* MAX_PENDING_REQUESTS
  MaxAbandoned,  \* MAX_ABANDONED_REQUESTS
  WireFaults,        \* subset of WireFaultNames
  Nothing           \* no caller, no document

(* "deadline": a request's deadline passes or its future is dropped;       *)
(* "rogue": the helper sends a response it does not owe, or no response.   *)
WireFaultNames == {"deadline", "rogue"}

Id == 1 .. (IdLimit - 1)

Failed == 0

ASSUME TransportConstants ==
  /\ IdLimit \in Nat \ {0} /\ MaxPending \in Nat /\ MaxAbandoned \in Nat
  /\ WireFaults \subseteq WireFaultNames
  /\ Nothing \notin Caller \cup Id \cup {Failed}

VARIABLES
  pc,          \* pc[c]: the await a caller has reached
  id,          \* id[c]: its request id
  result,      \* result[c]: what the last request of c returned, Nothing before
  \* the transport
  nextId,
  writer,      \* holder of the writer mutex
  open,        \* the writer has not been taken by close_writer
  pending,     \* ids registered with a sender
  abandoned,   \* ids whose caller has gone while a response may still come
  terminal,    \* why the transport failed, "none" while it has not
  reader,      \* the reader task runs
  channel,     \* channel[i]: what was sent to the caller of request i
  \* the helper and its pipes
  frame,       \* frame[i]: "none", "partial", "whole" or "answered"
  stdout,      \* ids of the responses not yet read
  helper,      \* the helper process runs
  misbehaved   \* the helper has sent something it did not owe

callerVars   == <<pc, id, result>>
registryVars == <<pending, abandoned, terminal, channel>>
helperVars   == <<frame, stdout, helper, misbehaved>>
wireVars == <<callerVars, nextId, writer, open, registryVars, reader, helperVars>>

-----------------------------------------------------------------------------
(* The registry *)

(* fail_transport: the first failure answers every registered caller *)
Fail(why) ==
  IF terminal # "none" THEN UNCHANGED registryVars
  ELSE /\ terminal' = why
       /\ pending' = {}
       /\ abandoned' = {}
       /\ channel' = [i \in Id |-> IF i \in pending THEN Failed ELSE channel[i]]

Register(i) ==
  /\ pending' = pending \cup {i}
  /\ UNCHANGED <<abandoned, terminal, channel>>

(* slip: a caller that gives up leaves no trace of its id *)
AbandonForgets(i) ==
  /\ pending' = pending \ {i}
  /\ UNCHANGED <<abandoned, terminal, channel>>

Overflows(i) == i \in pending /\ Cardinality(abandoned) = MaxAbandoned

(* RequestGuard dropped after a complete frame: the late response is expected *)
Abandon(i) ==
  IF i \notin pending THEN UNCHANGED registryVars
  ELSE /\ pending' = pending \ {i}
       /\ abandoned' = abandoned \cup {i}
       /\ UNCHANGED <<terminal, channel>>

(* slip: the response goes to the oldest registered caller *)
DeliverOldest(i) ==
  IF pending = {} THEN Fail("unknown")
  ELSE LET o == CHOOSE o \in pending : \A p \in pending : o <= p
       IN /\ pending' = pending \ {o}
          /\ channel' = [channel EXCEPT ![o] = i]
          /\ UNCHANGED <<abandoned, terminal>>

(* the reader task takes the document with id i *)
Deliver(i) ==
  IF i \in pending
  THEN /\ pending' = pending \ {i}
       /\ channel' = [channel EXCEPT ![i] = i]
       /\ UNCHANGED <<abandoned, terminal>>
  ELSE IF i \in abandoned
  THEN abandoned' = abandoned \ {i} /\ UNCHANGED <<pending, terminal, channel>>
  ELSE Fail("unknown")

-----------------------------------------------------------------------------
(* Requests *)

Move(c, label) == pc' = [pc EXCEPT ![c] = label]

Returned(c, r) ==
  /\ Move(c, "idle")
  /\ result' = [result EXCEPT ![c] = r]
  /\ UNCHANGED id

TakeId ==
  /\ nextId < IdLimit
  /\ nextId' = nextId + 1

RequestBegins(c) ==
  /\ pc[c] = "idle" /\ terminal # "dropped"
  /\ TakeId
  /\ id' = [id EXCEPT ![c] = nextId]
  /\ result' = [result EXCEPT ![c] = Nothing]
  /\ Move(c, "locking")
  /\ UNCHANGED <<writer, open, registryVars, reader, helperVars>>

(* an oversized request has already consumed its id *)
RequestTooLarge(c) ==
  /\ pc[c] = "idle" /\ terminal # "dropped"
  /\ TakeId
  /\ id' = [id EXCEPT ![c] = nextId]
  /\ result' = [result EXCEPT ![c] = Failed]
  /\ UNCHANGED <<pc, writer, open, registryVars, reader, helperVars>>

LockExpires(c) ==
  /\ pc[c] = "locking" /\ "deadline" \in WireFaults
  /\ Returned(c, Failed)
  /\ UNCHANGED <<nextId, writer, open, registryVars, reader, helperVars>>

(* slip: a failed transport still accepts a request *)
RefusesUnlessClosed == ~open \/ Cardinality(pending) = MaxPending

Refuses == ~open \/ terminal # "none" \/ Cardinality(pending) = MaxPending

Refused(c) ==
  /\ pc[c] = "locking"
  /\ writer = Nothing
  /\ Refuses
  /\ Returned(c, Failed)
  /\ UNCHANGED <<nextId, writer, open, registryVars, reader, helperVars>>

WriteBegins(c) ==
  /\ pc[c] = "locking"
  /\ writer = Nothing
  /\ ~Refuses
  /\ writer' = c
  /\ Register(id[c])
  /\ frame' = [frame EXCEPT ![id[c]] = "partial"]
  /\ Move(c, "writing")
  /\ UNCHANGED <<id, result, nextId, open, reader, stdout, helper, misbehaved>>

WriteCompletes(c) ==
  /\ pc[c] = "writing"
  /\ helper
  /\ frame' = [frame EXCEPT ![id[c]] = "whole"]
  /\ writer' = Nothing
  /\ Move(c, "waiting")
  /\ UNCHANGED <<id, result, nextId, open, registryVars, reader, stdout, helper,
                 misbehaved>>

(* slip: an abandoned frame only releases the writer *)
WriteAbandonedUnlocked(c) ==
  /\ pc[c] = "writing"
  /\ ~helper \/ "deadline" \in WireFaults
  /\ writer' = Nothing
  /\ Move(c, "unlocking")
  /\ UNCHANGED <<id, result, nextId, open, registryVars, reader, helperVars>>

(* the guard of an incomplete frame is dropped before the writer *)
WriteAbandoned(c) ==
  /\ pc[c] = "writing"
  /\ ~helper \/ "deadline" \in WireFaults
  /\ Fail("torn")
  /\ Move(c, "unlocking")
  /\ UNCHANGED <<id, result, nextId, writer, open, reader, helperVars>>

WriteUnlocks(c) ==
  /\ pc[c] = "unlocking"
  /\ writer' = IF writer = c THEN Nothing ELSE writer
  /\ Returned(c, Failed)
  /\ UNCHANGED <<nextId, open, registryVars, reader, helperVars>>

Received(c) ==
  /\ pc[c] = "waiting"
  /\ channel[id[c]] # Nothing
  /\ Returned(c, channel[id[c]])
  /\ UNCHANGED <<nextId, writer, open, registryVars, reader, helperVars>>

WaitExpires(c) ==
  /\ pc[c] = "waiting" /\ "deadline" \in WireFaults
  /\ ~Overflows(id[c])
  /\ Abandon(id[c])
  /\ Returned(c, Failed)
  /\ UNCHANGED <<nextId, writer, open, reader, helperVars>>

(* the guard unlocks the registry before it fails the transport *)
WaitOverflows(c) ==
  /\ pc[c] = "waiting" /\ "deadline" \in WireFaults
  /\ Overflows(id[c])
  /\ pending' = pending \ {id[c]}
  /\ Move(c, "overflowing")
  /\ UNCHANGED <<id, result, nextId, writer, open, abandoned, terminal, channel, reader,
                 helperVars>>

OverflowFails(c) ==
  /\ pc[c] = "overflowing"
  /\ Fail("capacity")
  /\ Returned(c, Failed)
  /\ UNCHANGED <<nextId, writer, open, reader, helperVars>>

(* close_writer, part of a collector stop *)
CloseWriter ==
  /\ writer = Nothing
  /\ open
  /\ open' = FALSE
  /\ UNCHANGED <<callerVars, nextId, writer, registryVars, reader, helperVars>>

(* the last clone of the transport, or its collector, is dropped *)
TransportDropped ==
  /\ \A c \in Caller : pc[c] = "idle"
  /\ terminal = "none"
  /\ Fail("dropped")
  /\ UNCHANGED <<callerVars, nextId, writer, open, reader, helperVars>>

-----------------------------------------------------------------------------
(* The reader task; a failed transport ends it *)

ReaderDelivers(i) ==
  /\ reader /\ terminal = "none"
  /\ i \in stdout
  /\ stdout' = stdout \ {i}
  /\ Deliver(i)
  /\ reader' = (terminal' = "none")
  /\ UNCHANGED <<callerVars, nextId, writer, open, frame, helper, misbehaved>>

ReaderStops ==
  /\ reader /\ terminal # "none"
  /\ reader' = FALSE
  /\ UNCHANGED <<callerVars, nextId, writer, open, registryVars, helperVars>>

(* slip: the end of stdout ends the reader alone *)
ReaderLeaves ==
  /\ reader /\ terminal = "none"
  /\ ~helper /\ stdout = {}
  /\ reader' = FALSE
  /\ UNCHANGED <<callerVars, nextId, writer, open, registryVars, helperVars>>

ReaderFindsEnd ==
  /\ reader /\ terminal = "none"
  /\ ~helper /\ stdout = {}
  /\ Fail("closed")
  /\ reader' = FALSE
  /\ UNCHANGED <<callerVars, nextId, writer, open, helperVars>>

(* oversized, unparsable, of another schema or without an id *)
ReaderRejects ==
  /\ reader /\ terminal = "none"
  /\ "rogue" \in WireFaults
  /\ misbehaved' = TRUE
  /\ Fail("invalid")
  /\ reader' = FALSE
  /\ UNCHANGED <<callerVars, nextId, writer, open, frame, stdout, helper>>

-----------------------------------------------------------------------------
(* The helper *)

HelperAnswers(i) ==
  /\ helper
  /\ frame[i] = "whole"
  /\ frame' = [frame EXCEPT ![i] = "answered"]
  /\ stdout' = stdout \cup {i}
  /\ UNCHANGED <<callerVars, nextId, writer, open, registryVars, reader, helper,
                 misbehaved>>

HelperMisbehaves(i) ==
  /\ helper /\ "rogue" \in WireFaults
  /\ i \notin stdout
  /\ stdout' = stdout \cup {i}
  /\ misbehaved' = TRUE
  /\ UNCHANGED <<callerVars, nextId, writer, open, registryVars, reader, frame, helper>>

HelperExits ==
  /\ helper
  /\ helper' = FALSE
  /\ UNCHANGED <<callerVars, nextId, writer, open, registryVars, reader, frame, stdout,
                 misbehaved>>

-----------------------------------------------------------------------------
WireInit ==
  /\ pc = [c \in Caller |-> "idle"]
  /\ id = [c \in Caller |-> 0]
  /\ result = [c \in Caller |-> Nothing]
  /\ nextId = 1
  /\ writer = Nothing /\ open = TRUE
  /\ pending = {} /\ abandoned = {} /\ terminal = "none"
  /\ reader = TRUE
  /\ channel = [i \in Id |-> Nothing]
  /\ frame = [i \in Id |-> "none"]
  /\ stdout = {} /\ helper = TRUE /\ misbehaved = FALSE

Advance(c) ==
  \/ Refused(c) \/ WriteBegins(c) \/ WriteAbandoned(c) \/ WriteUnlocks(c)
  \/ Received(c) \/ OverflowFails(c)

Expire(c) == LockExpires(c) \/ WaitExpires(c) \/ WaitOverflows(c)

Read == (\E i \in Id : ReaderDelivers(i)) \/ ReaderStops \/ ReaderFindsEnd

Helper ==
  \/ \E i \in Id : HelperAnswers(i) \/ HelperMisbehaves(i)
  \/ HelperExits

WireNext ==
  \/ \E c \in Caller :
       \/ RequestBegins(c) \/ RequestTooLarge(c)
       \/ Advance(c) \/ WriteCompletes(c) \/ Expire(c)
  \/ CloseWriter \/ TransportDropped
  \/ Read \/ ReaderRejects
  \/ Helper

WireSpec == WireInit /\ [][WireNext]_wireVars

(* The writer mutex is FIFO and the tasks are always scheduled; nothing is  *)
(* assumed of deadlines, nor of the helper: it may read and answer nothing. *)
WireFairSpec == WireSpec /\ (\A c \in Caller : SF_wireVars(Advance(c))) /\ WF_wireVars(Read)

-----------------------------------------------------------------------------
(* Properties *)

Terminals == {"none", "torn", "capacity", "unknown", "dropped", "closed",
              "invalid"}

Document == Id \cup {Failed, Nothing}

CallerTypeOK ==
  /\ pc \in [Caller -> {"idle", "locking", "writing", "unlocking", "waiting",
                     "overflowing"}]
  /\ id \in [Caller -> Id \cup {0}]
  /\ \A c \in Caller : pc[c] # "idle" => id[c] \in Id
  /\ result \in [Caller -> Document]
  /\ nextId \in 1 .. IdLimit

TransportTypeOK ==
  /\ writer \in Caller \cup {Nothing} /\ open \in BOOLEAN
  /\ pending \subseteq Id /\ abandoned \subseteq Id
  /\ terminal \in Terminals
  /\ reader \in BOOLEAN
  /\ channel \in [Id -> Document]

HelperTypeOK ==
  /\ frame \in [Id -> {"none", "partial", "whole", "answered"}]
  /\ stdout \subseteq Id
  /\ helper \in BOOLEAN /\ misbehaved \in BOOLEAN

(* The type of every variable of the transport, its callers and its helper;  *)
(* ids end before the counter overflows.                                     *)
WireTypeOK == CallerTypeOK /\ TransportTypeOK /\ HelperTypeOK

(* A request returns the response to its own id or an error, whatever the   *)
(* order of the responses and whoever gave up meanwhile.                     *)
OwnResponse == \A c \in Caller : result[c] \in {id[c], Failed, Nothing}

(* Frames never run into each other: while one is incomplete, in progress   *)
(* or abandoned by its caller, no other is begun.                           *)
FramesWhole ==
  \A i, j \in Id : frame[i] = "partial" /\ frame[j] = "partial" => i = j

(* While the abandoned ids fit their limit, a helper that answers each       *)
(* complete frame once, however late, never makes the transport fail for an  *)
(* unknown or duplicate response.                                            *)
LateResponseTolerated ==
  [][terminal' = "unknown" /\ terminal # "unknown" =>
       misbehaved \/ \E c \in Caller : pc[c] = "overflowing"]_wireVars

(* A caller that waits has been sent its answer, or is registered in a       *)
(* transport that has not failed and whose reader runs: neither a response   *)
(* nor a failure can pass it by.                                             *)
WaiterReachable ==
  \A c \in Caller :
    pc[c] = "waiting" /\ channel[id[c]] = Nothing =>
      terminal = "none" /\ reader /\ id[c] \in pending

(* The registry keeps its limits, an id is in at most one of its sets, and a *)
(* failed transport keeps none.                                              *)
RegistryBounded ==
  /\ Cardinality(pending) <= MaxPending
  /\ Cardinality(abandoned) <= MaxAbandoned
  /\ pending \cap abandoned = {}
  /\ terminal # "none" => pending = {} /\ abandoned = {}

(* When the helper is gone, every request in flight returns without waiting *)
(* for its deadline.                                                         *)
HelperLossReturns ==
  \A c \in Caller : pc[c] # "idle" /\ ~helper ~> pc[c] = "idle"
=============================================================================
