---------------------- MODULE CollectorTransport_proofs ----------------------
(***************************************************************************)
(* Proofs about CollectorTransport for any set of callers, any limits and  *)
(* any faults.                                                             *)
(***************************************************************************)
EXTENDS CollectorTransport, FiniteSetTheorems, TLAPS

(* Callers, ids and the counter keep their types in every step.             *)
LEMMA CallerTypeStep == WireTypeOK /\ [WireNext]_wireVars => CallerTypeOK'
<1>. SUFFICES ASSUME WireTypeOK, [WireNext]_wireVars PROVE CallerTypeOK'
  OBVIOUS
<1>. CallerTypeOK /\ channel \in [Id -> Document] /\ IdLimit \in Nat
  BY TransportConstants DEF WireTypeOK, TransportTypeOK
<1>. USE DEF CallerTypeOK
<1>1. ASSUME NEW c \in Caller, RequestBegins(c) PROVE CallerTypeOK'
  BY <1>1 DEF RequestBegins, TakeId, Move, Document, Id
<1>2. ASSUME NEW c \in Caller, RequestTooLarge(c) PROVE CallerTypeOK'
  BY <1>2 DEF RequestTooLarge, TakeId, Document, Id
<1>3. ASSUME NEW c \in Caller, Received(c) PROVE CallerTypeOK'
  BY <1>3 DEF Received, Returned, Move
<1>4. ASSUME NEW c \in Caller,
             LockExpires(c) \/ Refused(c) \/ WriteUnlocks(c) \/ WaitExpires(c)
             \/ OverflowFails(c)
      PROVE  CallerTypeOK'
  BY <1>4 DEF LockExpires, Refused, WriteUnlocks, WaitExpires, OverflowFails, Returned, Move, Document
<1>5. ASSUME NEW c \in Caller,
             WriteBegins(c) \/ WriteCompletes(c) \/ WriteAbandoned(c) \/ WaitOverflows(c)
      PROVE  CallerTypeOK'
  BY <1>5 DEF WriteBegins, WriteCompletes, WriteAbandoned, WaitOverflows, Move
<1>6. ASSUME CloseWriter \/ TransportDropped \/ Read \/ ReaderRejects \/ Helper
             \/ UNCHANGED wireVars
      PROVE  CallerTypeOK'
  BY <1>6 DEF CloseWriter, TransportDropped, Read, ReaderDelivers, ReaderStops,
              ReaderFindsEnd, ReaderRejects, Helper, HelperAnswers, HelperMisbehaves,
              HelperExits, callerVars, wireVars
<1>. QED
  BY <1>1, <1>2, <1>3, <1>4, <1>5, <1>6 DEF WireNext, Advance, Expire

(* A failure keeps the registry typed.                                      *)
LEMMA FailTyped ==
  ASSUME WireTypeOK, NEW why \in Terminals, Fail(why)
  PROVE  pending' \subseteq Id /\ abandoned' \subseteq Id /\ terminal' \in Terminals
         /\ channel' \in [Id -> Document]
BY DEF Fail, WireTypeOK, TransportTypeOK, registryVars, Document

(* The registry, the writer and the reader keep their types in every step.  *)
LEMMA TransportTypeStep == WireTypeOK /\ [WireNext]_wireVars => TransportTypeOK'
<1>. SUFFICES ASSUME WireTypeOK, [WireNext]_wireVars PROVE TransportTypeOK'
  OBVIOUS
<1>. TransportTypeOK /\ (\A c \in Caller : pc[c] # "idle" => id[c] \in Id)
  BY DEF WireTypeOK, CallerTypeOK
<1>. USE DEF TransportTypeOK
<1>1. ASSUME NEW c \in Caller,
             RequestBegins(c) \/ RequestTooLarge(c) \/ LockExpires(c) \/ Refused(c)
             \/ WriteCompletes(c) \/ WriteUnlocks(c) \/ Received(c)
      PROVE  TransportTypeOK'
  BY <1>1 DEF RequestBegins, RequestTooLarge, LockExpires, Refused, WriteCompletes,
              WriteUnlocks, Received, registryVars
<1>2. ASSUME NEW c \in Caller, WriteBegins(c) PROVE TransportTypeOK'
  BY <1>2 DEF WriteBegins, Register
<1>3. ASSUME NEW c \in Caller, WriteAbandoned(c) PROVE TransportTypeOK'
  BY <1>3, FailTyped DEF WriteAbandoned, Terminals
<1>4. ASSUME NEW c \in Caller, WaitExpires(c) \/ WaitOverflows(c) \/ OverflowFails(c)
      PROVE  TransportTypeOK'
  BY <1>4, FailTyped DEF WaitExpires, WaitOverflows, OverflowFails, Abandon, Terminals,
                         registryVars
<1>5. ASSUME CloseWriter \/ TransportDropped PROVE TransportTypeOK'
  BY <1>5, FailTyped DEF CloseWriter, TransportDropped, Terminals, registryVars
<1>6. ASSUME NEW i \in Id, ReaderDelivers(i) PROVE TransportTypeOK'
  <2>1. CASE i \in pending
    BY <1>6, <2>1 DEF ReaderDelivers, Deliver, Document
  <2>2. CASE i \notin pending
    BY <1>6, <2>2, FailTyped DEF ReaderDelivers, Deliver, Terminals
  <2>. QED  BY <2>1, <2>2
<1>7. ASSUME ReaderStops \/ ReaderFindsEnd \/ ReaderRejects PROVE TransportTypeOK'
  BY <1>7, FailTyped DEF ReaderStops, ReaderFindsEnd, ReaderRejects, Terminals, registryVars
<1>8. ASSUME Helper \/ UNCHANGED wireVars PROVE TransportTypeOK'
  BY <1>8 DEF Helper, HelperAnswers, HelperMisbehaves, HelperExits, registryVars, wireVars
<1>. QED
  BY <1>1, <1>2, <1>3, <1>4, <1>5, <1>6, <1>7, <1>8 DEF WireNext, Advance, Expire, Read

(* Frames and responses keep their types in every step.                     *)
LEMMA HelperTypeStep == WireTypeOK /\ [WireNext]_wireVars => HelperTypeOK'
<1>. SUFFICES ASSUME WireTypeOK, [WireNext]_wireVars PROVE HelperTypeOK'
  OBVIOUS
<1>. HelperTypeOK
  BY DEF WireTypeOK
<1>. USE DEF HelperTypeOK
<1>1. ASSUME NEW c \in Caller, WriteBegins(c) \/ WriteCompletes(c) PROVE HelperTypeOK'
  BY <1>1 DEF WriteBegins, WriteCompletes
<1>2. ASSUME NEW c \in Caller,
             RequestBegins(c) \/ RequestTooLarge(c) \/ LockExpires(c) \/ Refused(c)
             \/ WriteAbandoned(c) \/ WriteUnlocks(c) \/ Received(c) \/ WaitExpires(c)
             \/ WaitOverflows(c) \/ OverflowFails(c)
      PROVE  HelperTypeOK'
  BY <1>2 DEF RequestBegins, RequestTooLarge, LockExpires, Refused, WriteAbandoned,
              WriteUnlocks, Received, WaitExpires, WaitOverflows, OverflowFails, helperVars
<1>3. ASSUME CloseWriter \/ TransportDropped \/ Read \/ ReaderRejects PROVE HelperTypeOK'
  BY <1>3 DEF CloseWriter, TransportDropped, Read, ReaderDelivers, ReaderStops,
              ReaderFindsEnd, ReaderRejects, helperVars
<1>4. ASSUME Helper \/ UNCHANGED wireVars PROVE HelperTypeOK'
  BY <1>4 DEF Helper, HelperAnswers, HelperMisbehaves, HelperExits, helperVars, wireVars
<1>. QED
  BY <1>1, <1>2, <1>3, <1>4 DEF WireNext, Advance, Expire

(* A new transport is typed.                                                *)
LEMMA InitTyped == WireInit => WireTypeOK
<1>. SUFFICES ASSUME WireInit PROVE WireTypeOK
  OBVIOUS
<1>1. CallerTypeOK
  BY TransportConstants DEF WireInit, CallerTypeOK, Document, Id
<1>2. TransportTypeOK
  BY DEF WireInit, TransportTypeOK, Document, Terminals
<1>3. HelperTypeOK
  BY DEF WireInit, HelperTypeOK
<1>. QED
  BY <1>1, <1>2, <1>3 DEF WireTypeOK

(* The type of every variable of the transport, its callers and its helper, *)
(* in every reachable state: no request id overflows.                       *)
THEOREM Typing == WireSpec => []WireTypeOK
<1>1. WireInit => WireTypeOK
  BY InitTyped
<1>2. WireTypeOK /\ [WireNext]_wireVars => WireTypeOK'
  BY CallerTypeStep, TransportTypeStep, HelperTypeStep DEF WireTypeOK
<1>. QED
  BY <1>1, <1>2, PTL DEF WireSpec

-----------------------------------------------------------------------------
(* Ids: every id taken is below the counter and no two callers share one.   *)

IdsTaken == \A c \in Caller : id[c] < nextId

IdsDistinct == \A c, d \in Caller : id[c] = id[d] /\ id[c] # 0 => c = d

IdInv == WireTypeOK /\ IdsTaken /\ IdsDistinct

(* A new id is the counter, above every id of another caller.               *)
LEMMA IdStep == IdInv /\ [WireNext]_wireVars => IdInv'
<1>. SUFFICES ASSUME IdInv, [WireNext]_wireVars PROVE IdsTaken' /\ IdsDistinct'
  BY CallerTypeStep, TransportTypeStep, HelperTypeStep DEF IdInv, WireTypeOK
<1>. CallerTypeOK /\ IdLimit \in Nat /\ IdsTaken /\ IdsDistinct
  BY TransportConstants DEF IdInv, WireTypeOK
<1>. USE DEF IdsTaken, IdsDistinct
<1>1. ASSUME NEW c \in Caller, TakeId, id' = [id EXCEPT ![c] = nextId]
      PROVE  IdsTaken' /\ IdsDistinct'
  BY <1>1 DEF TakeId, CallerTypeOK, Id
<1>2. ASSUME UNCHANGED <<id, nextId>> PROVE IdsTaken' /\ IdsDistinct'
  BY <1>2
<1>3. ASSUME NEW c \in Caller, Advance(c) \/ WriteCompletes(c) \/ Expire(c)
      PROVE  UNCHANGED <<id, nextId>>
  BY <1>3 DEF Advance, Expire, WriteCompletes, LockExpires, Refused, WriteBegins,
              WriteAbandoned, WriteUnlocks, Received, WaitExpires, WaitOverflows,
              OverflowFails, Returned
<1>4. ASSUME CloseWriter \/ TransportDropped \/ Read \/ ReaderRejects \/ Helper
             \/ UNCHANGED wireVars
      PROVE  UNCHANGED <<id, nextId>>
  BY <1>4 DEF CloseWriter, TransportDropped, Read, ReaderDelivers, ReaderStops,
              ReaderFindsEnd, ReaderRejects, Helper, HelperAnswers, HelperMisbehaves,
              HelperExits, callerVars, wireVars
<1>. QED
  BY <1>1, <1>2, <1>3, <1>4 DEF WireNext, RequestBegins, RequestTooLarge

-----------------------------------------------------------------------------
(* Frames: only the caller that holds the writer may have one incomplete,   *)
(* and one left incomplete has failed the transport.                        *)

FreshIds == \A i \in Id : i >= nextId => frame[i] = "none"

StageFrame ==
  \A c \in Caller : /\ pc[c] = "locking" => frame[id[c]] = "none"
                    /\ pc[c] = "writing" => frame[id[c]] = "partial"

WriterHeld == \A c \in Caller : pc[c] \in {"writing", "unlocking"} => writer = c

PartialOwned ==
  \A i \in Id : frame[i] = "partial" /\ terminal = "none" =>
    \E c \in Caller : pc[c] = "writing" /\ id[c] = i

FrameInv == IdInv /\ FreshIds /\ StageFrame /\ WriterHeld /\ PartialOwned /\ FramesWhole

(* A failure never revives a transport.                                     *)
LEMMA FailFails ==
  ASSUME NEW why \in Terminals \ {"none"}, Fail(why)
  PROVE  terminal' # "none"
BY DEF Fail, registryVars

(* A frame begins when no other is incomplete, and ends incomplete only     *)
(* with the transport.                                                      *)
LEMMA FrameStep == FrameInv /\ [WireNext]_wireVars => FrameInv'
<1>. SUFFICES ASSUME FrameInv, [WireNext]_wireVars
              PROVE  FreshIds' /\ StageFrame' /\ WriterHeld' /\ PartialOwned'
                     /\ FramesWhole'
  BY IdStep DEF FrameInv
<1>. DEFINE Goal == FreshIds' /\ StageFrame' /\ WriterHeld' /\ PartialOwned'
                    /\ FramesWhole'
<1>. IdsTaken /\ IdsDistinct /\ CallerTypeOK /\ HelperTypeOK
     /\ writer \in Caller \cup {Nothing}
     /\ IdLimit \in Nat /\ Nothing \notin Caller
     /\ FreshIds /\ StageFrame /\ WriterHeld /\ PartialOwned /\ FramesWhole
  BY TransportConstants DEF FrameInv, IdInv, WireTypeOK, TransportTypeOK
<1>. USE DEF FreshIds, StageFrame, WriterHeld, PartialOwned, FramesWhole
<1>1. ASSUME NEW c \in Caller, RequestBegins(c) PROVE Goal
  BY <1>1 DEF RequestBegins, TakeId, Move, CallerTypeOK, Id, registryVars, helperVars
<1>2. ASSUME NEW c \in Caller, RequestTooLarge(c) PROVE Goal
  BY <1>2 DEF RequestTooLarge, TakeId, CallerTypeOK, Id, registryVars, helperVars
<1>3. ASSUME NEW c \in Caller, LockExpires(c) \/ Refused(c) \/ Received(c) PROVE Goal
  BY <1>3 DEF LockExpires, Refused, Received, Returned, Move, CallerTypeOK, registryVars,
              helperVars
<1>4. ASSUME NEW c \in Caller, WriteBegins(c) PROVE Goal
  <2>1. \A i \in Id : frame[i] # "partial"
    BY <1>4 DEF WriteBegins, Refuses
  <2>2. id[c] \in Id /\ id[c] < nextId
    BY <1>4 DEF WriteBegins, CallerTypeOK, IdsTaken
  <2>3. \A d \in Caller \ {c} : id[d] # id[c]
    BY <2>2 DEF Id, IdsDistinct
  <2>4. /\ pc' = [pc EXCEPT ![c] = "writing"] /\ UNCHANGED <<id, nextId>>
        /\ frame' = [frame EXCEPT ![id[c]] = "partial"]
        /\ writer = Nothing /\ writer' = c
    BY <1>4 DEF WriteBegins, Move
  <2>5. FreshIds'
    BY <2>2, <2>4 DEF HelperTypeOK, CallerTypeOK, Id
  <2>6. StageFrame' /\ PartialOwned' /\ FramesWhole'
    BY <2>1, <2>2, <2>3, <2>4 DEF HelperTypeOK, CallerTypeOK
  <2>7. WriterHeld'
    BY <2>4 DEF CallerTypeOK
  <2>. QED
    BY <2>5, <2>6, <2>7
<1>5. ASSUME NEW c \in Caller, WriteCompletes(c) PROVE Goal
  <2>1. id[c] \in Id /\ id[c] < nextId /\ writer = c
    BY <1>5 DEF WriteCompletes, CallerTypeOK, IdsTaken
  <2>2. \A d \in Caller \ {c} : id[d] # id[c]
    BY <2>1 DEF Id, IdsDistinct
  <2>3. /\ pc[c] = "writing" /\ pc' = [pc EXCEPT ![c] = "waiting"]
        /\ frame' = [frame EXCEPT ![id[c]] = "whole"]
        /\ UNCHANGED <<id, nextId, terminal>>
    BY <1>5 DEF WriteCompletes, Move, registryVars
  <2>4. FreshIds'
    BY <2>1, <2>3 DEF HelperTypeOK, CallerTypeOK, Id
  <2>5. StageFrame' /\ PartialOwned' /\ FramesWhole'
    BY <2>1, <2>2, <2>3 DEF HelperTypeOK, CallerTypeOK
  <2>6. WriterHeld'
    BY <2>1, <2>3 DEF CallerTypeOK
  <2>. QED
    BY <2>4, <2>5, <2>6
<1>6. ASSUME NEW c \in Caller, WriteAbandoned(c) PROVE Goal
  <2>1. terminal' # "none"
    BY <1>6, FailFails DEF WriteAbandoned, Terminals
  <2>. QED
    BY <1>6, <2>1 DEF WriteAbandoned, Move, CallerTypeOK, helperVars
<1>7. ASSUME NEW c \in Caller, WriteUnlocks(c) PROVE Goal
  BY <1>7 DEF WriteUnlocks, Returned, Move, CallerTypeOK, registryVars, helperVars
<1>8. ASSUME NEW c \in Caller, WaitExpires(c) \/ WaitOverflows(c) \/ OverflowFails(c)
      PROVE  Goal
  <2>1. terminal' = terminal \/ terminal' # "none"
    BY <1>8, FailFails
       DEF WaitExpires, WaitOverflows, OverflowFails, Abandon, Terminals, registryVars
  <2>. QED
    BY <1>8, <2>1 DEF WaitExpires, WaitOverflows, OverflowFails, Returned, Move,
                      CallerTypeOK, helperVars
<1>9. ASSUME CloseWriter \/ TransportDropped \/ Read \/ ReaderRejects PROVE Goal
  <2>1. terminal' = terminal \/ terminal' # "none"
    BY <1>9, FailFails DEF CloseWriter, TransportDropped, Read, ReaderDelivers, Deliver,
         ReaderStops, ReaderFindsEnd, ReaderRejects, Terminals, registryVars
  <2>2. UNCHANGED <<pc, id, nextId, writer, frame>>
    BY <1>9 DEF CloseWriter, TransportDropped, Read, ReaderDelivers, ReaderStops,
         ReaderFindsEnd, ReaderRejects, callerVars, helperVars
  <2>. QED
    BY <2>1, <2>2
<1>10. ASSUME NEW i \in Id, HelperAnswers(i) PROVE Goal
  BY <1>10 DEF HelperAnswers, CallerTypeOK, HelperTypeOK, callerVars, registryVars
<1>11. ASSUME NEW i \in Id, HelperMisbehaves(i) PROVE Goal
  BY <1>11 DEF HelperMisbehaves, callerVars, registryVars
<1>12. ASSUME HelperExits \/ UNCHANGED wireVars PROVE Goal
  BY <1>12 DEF HelperExits, callerVars, registryVars, helperVars, wireVars
<1>. QED
  BY <1>1, <1>2, <1>3, <1>4, <1>5, <1>6, <1>7, <1>8, <1>9, <1>10, <1>11, <1>12
     DEF WireNext, Advance, Expire, Helper

(* Frames never run into each other on the stdin of the helper.             *)
THEOREM WholeFrames == WireSpec => []FramesWhole
<1>1. WireInit => FrameInv
  BY InitTyped DEF WireInit, FrameInv, IdInv, IdsTaken, IdsDistinct, FreshIds, StageFrame,
                       WriterHeld, PartialOwned, FramesWhole
<1>2. FrameInv => FramesWhole
  BY DEF FrameInv
<1>. QED
  BY <1>1, <1>2, FrameStep, PTL DEF WireSpec

-----------------------------------------------------------------------------
(* The registry: an id is registered when its frame begins, so a new        *)
(* registration finds its id in neither set.                                *)

RegisteredBegun == \A i \in pending \cup abandoned : frame[i] # "none"

RegistryInv == FrameInv /\ RegisteredBegun /\ RegistryBounded

(* There are finitely many ids.                                             *)
LEMMA IdsFinite == ASSUME NEW S, S \subseteq Id PROVE IsFiniteSet(S)
<1>1. IsFiniteSet(Id)
  BY TransportConstants, FS_Interval DEF Id
<1>. QED
  BY <1>1, FS_Subset

(* A failure empties the registry, or finds it empty.                       *)
LEMMA FailEmpties ==
  ASSUME RegistryInv, NEW why \in Terminals \ {"none"}, Fail(why)
  PROVE  pending' = {} /\ abandoned' = {} /\ terminal' # "none"
BY DEF Fail, registryVars, RegistryInv, RegistryBounded

(* An empty registry is within its limits.                                  *)
LEMMA EmptyBounded ==
  ASSUME pending' = {}, abandoned' = {}
  PROVE  RegistryBounded' /\ RegisteredBegun'
<1>1. Cardinality(pending') = 0 /\ Cardinality(abandoned') = 0
  BY FS_EmptySet
<1>. QED
  BY <1>1, TransportConstants DEF RegistryBounded, RegisteredBegun

(* Only a caller that registers adds to `pending`, and only one that gives  *)
(* up to `abandoned`; both check the limit first.                           *)
LEMMA RegistryStep == RegistryInv /\ [WireNext]_wireVars => RegistryInv'
<1>. SUFFICES ASSUME RegistryInv, [WireNext]_wireVars PROVE RegisteredBegun' /\ RegistryBounded'
  BY FrameStep DEF RegistryInv
<1>. DEFINE Goal == RegisteredBegun' /\ RegistryBounded'
<1>. /\ RegisteredBegun /\ RegistryBounded
     /\ pending \subseteq Id /\ abandoned \subseteq Id
     /\ MaxPending \in Nat /\ MaxAbandoned \in Nat
     /\ CallerTypeOK /\ HelperTypeOK /\ StageFrame
  BY TransportConstants
     DEF RegistryInv, FrameInv, IdInv, WireTypeOK, TransportTypeOK
<1>. IsFiniteSet(pending) /\ IsFiniteSet(abandoned)
  BY IdsFinite
<1>. USE DEF RegisteredBegun, RegistryBounded
<1>1. ASSUME UNCHANGED <<pending, abandoned, terminal, frame>> PROVE Goal
  BY <1>1
<1>2. ASSUME pending' = {}, abandoned' = {} PROVE Goal
  BY <1>2, EmptyBounded
<1>3. ASSUME NEW c \in Caller, WriteBegins(c) PROVE Goal
  <2>1. /\ pending' = pending \cup {id[c]} /\ UNCHANGED <<abandoned, terminal>>
        /\ frame' = [frame EXCEPT ![id[c]] = "partial"]
        /\ terminal = "none" /\ Cardinality(pending) # MaxPending
    BY <1>3 DEF WriteBegins, Refuses, Register
  <2>2. id[c] \in Id /\ id[c] \notin pending /\ id[c] \notin abandoned
    BY <1>3 DEF WriteBegins, StageFrame, CallerTypeOK
  <2>3. Cardinality(pending') = Cardinality(pending) + 1
    BY <2>1, <2>2, FS_AddElement
  <2>4. Cardinality(pending) \in Nat
    BY FS_CardinalityType
  <2>. QED
    BY <2>1, <2>2, <2>3, <2>4 DEF HelperTypeOK
<1>4. ASSUME NEW c \in Caller, WriteCompletes(c) PROVE Goal
  BY <1>4 DEF WriteCompletes, CallerTypeOK, HelperTypeOK, registryVars
<1>5. ASSUME NEW c \in Caller, WriteAbandoned(c) PROVE Goal
  BY <1>5, <1>2, FailEmpties DEF WriteAbandoned, Terminals
<1>6. ASSUME NEW c \in Caller, WaitExpires(c) PROVE Goal
  <2>1. CASE id[c] \notin pending
    BY <1>6, <2>1, <1>1 DEF WaitExpires, Abandon, registryVars, helperVars
  <2>2. CASE id[c] \in pending
    <3>1. /\ pending' = pending \ {id[c]} /\ abandoned' = abandoned \cup {id[c]}
          /\ UNCHANGED <<terminal, frame>> /\ Cardinality(abandoned) # MaxAbandoned
      BY <1>6, <2>2 DEF WaitExpires, Overflows, Abandon, helperVars
    <3>2. /\ Cardinality(pending') = Cardinality(pending) - 1
          /\ Cardinality(abandoned') = Cardinality(abandoned) + 1
      BY <3>1, <2>2, FS_AddElement, FS_RemoveElement
    <3>3. Cardinality(pending) \in Nat /\ Cardinality(abandoned) \in Nat
      BY FS_CardinalityType
    <3>. QED
      BY <3>1, <3>2, <3>3, <2>2
  <2>. QED
    BY <2>1, <2>2
<1>12. ASSUME NEW c \in Caller, WaitOverflows(c) PROVE Goal
  <2>1. /\ pending' = pending \ {id[c]} /\ UNCHANGED <<abandoned, terminal, frame>>
        /\ id[c] \in pending
    BY <1>12 DEF WaitOverflows, Overflows, helperVars
  <2>2. Cardinality(pending') = Cardinality(pending) - 1 /\ Cardinality(pending) \in Nat
    BY <2>1, FS_RemoveElement, FS_CardinalityType
  <2>. QED
    BY <2>1, <2>2
<1>13. ASSUME NEW c \in Caller, OverflowFails(c) PROVE Goal
  BY <1>13, <1>2, FailEmpties DEF OverflowFails, Terminals
<1>7. ASSUME NEW i \in Id, ReaderDelivers(i) PROVE Goal
  <2>1. CASE i \in pending
    <3>1. /\ pending' = pending \ {i} /\ UNCHANGED <<abandoned, terminal, frame>>
          /\ terminal = "none"
      BY <1>7, <2>1 DEF ReaderDelivers, Deliver
    <3>2. Cardinality(pending') = Cardinality(pending) - 1 /\ Cardinality(pending) \in Nat
      BY <3>1, <2>1, FS_RemoveElement, FS_CardinalityType
    <3>. QED
      BY <3>1, <3>2
  <2>2. CASE i \notin pending /\ i \in abandoned
    <3>1. /\ abandoned' = abandoned \ {i} /\ UNCHANGED <<pending, terminal, frame>>
          /\ terminal = "none"
      BY <1>7, <2>2 DEF ReaderDelivers, Deliver
    <3>2. Cardinality(abandoned') = Cardinality(abandoned) - 1
          /\ Cardinality(abandoned) \in Nat
      BY <3>1, <2>2, FS_RemoveElement, FS_CardinalityType
    <3>. QED
      BY <3>1, <3>2
  <2>3. CASE i \notin pending /\ i \notin abandoned
    BY <1>7, <2>3, <1>2, FailEmpties DEF ReaderDelivers, Deliver, Terminals
  <2>. QED
    BY <2>1, <2>2, <2>3
<1>8. ASSUME TransportDropped \/ ReaderFindsEnd \/ ReaderRejects PROVE Goal
  BY <1>8, <1>2, FailEmpties DEF TransportDropped, ReaderFindsEnd, ReaderRejects, Terminals
<1>9. ASSUME NEW c \in Caller,
             RequestBegins(c) \/ RequestTooLarge(c) \/ LockExpires(c) \/ Refused(c)
             \/ WriteUnlocks(c) \/ Received(c)
      PROVE  Goal
  BY <1>9, <1>1 DEF RequestBegins, RequestTooLarge, LockExpires, Refused, WriteUnlocks, Received,
                    registryVars, helperVars
<1>10. ASSUME NEW i \in Id, HelperAnswers(i) PROVE Goal
  BY <1>10 DEF HelperAnswers, HelperTypeOK, registryVars
<1>11. ASSUME CloseWriter \/ ReaderStops \/ HelperExits \/ UNCHANGED wireVars
              \/ \E i \in Id : HelperMisbehaves(i)
       PROVE  Goal
  BY <1>11, <1>1 DEF CloseWriter, ReaderStops, HelperExits, HelperMisbehaves, registryVars,
                     helperVars, wireVars
<1>. QED
  BY <1>3, <1>4, <1>5, <1>6, <1>7, <1>8, <1>9, <1>10, <1>11, <1>12, <1>13
     DEF WireNext, Advance, Expire, Read, Helper

(* The registry keeps its limits and a failed transport keeps no request.   *)
THEOREM BoundedRegistry == WireSpec => []RegistryBounded
<1>1. WireInit => RegistryInv
  BY InitTyped, FS_EmptySet, TransportConstants
     DEF WireInit, RegistryInv, FrameInv, IdInv, IdsTaken, IdsDistinct, FreshIds, StageFrame,
         WriterHeld, PartialOwned, FramesWhole, RegisteredBegun, RegistryBounded
<1>2. RegistryInv => RegistryBounded
  BY DEF RegistryInv
<1>. QED
  BY <1>1, <1>2, RegistryStep, PTL DEF WireSpec

-----------------------------------------------------------------------------
(* Responses: a helper that has not misbehaved owes each one to a caller    *)
(* that is registered or that has left its id behind.                       *)

Overflowing == \E c \in Caller : pc[c] = "overflowing"

Expected ==
  ~misbehaved /\ terminal = "none" /\ ~Overflowing =>
    \A i \in Id : frame[i] \in {"partial", "whole"} \/ i \in stdout =>
      i \in pending \cup abandoned

AnsweredOnce == ~misbehaved => \A i \in stdout : frame[i] = "answered"

LateInv == RegistryInv /\ Expected /\ AnsweredOnce

(* A caller whose guard overflows stays so until it fails the transport.    *)
LEMMA OverflowKept ==
  ASSUME LateInv, Overflowing, WireNext
  PROVE  Overflowing' \/ terminal' # "none"
<1>. CallerTypeOK
  BY DEF LateInv, RegistryInv, FrameInv, IdInv, WireTypeOK
<1>. PICK o \in Caller : pc[o] = "overflowing"
  BY DEF Overflowing
<1>1. ASSUME NEW c \in Caller,
             RequestBegins(c) \/ WriteBegins(c) \/ WriteCompletes(c) \/ WriteAbandoned(c)
             \/ WaitOverflows(c)
      PROVE  pc'[o] = "overflowing"
  BY <1>1 DEF RequestBegins, WriteBegins, WriteCompletes, WriteAbandoned, WaitOverflows, Move,
              CallerTypeOK
<1>2. ASSUME NEW c \in Caller,
             LockExpires(c) \/ Refused(c) \/ WriteUnlocks(c) \/ Received(c) \/ WaitExpires(c)
      PROVE  pc'[o] = "overflowing"
  BY <1>2 DEF LockExpires, Refused, WriteUnlocks, Received, WaitExpires, Returned, Move,
              CallerTypeOK
<1>3. ASSUME NEW c \in Caller, OverflowFails(c) PROVE terminal' # "none"
  BY <1>3, FailFails DEF OverflowFails, Terminals
<1>4. ASSUME CloseWriter \/ TransportDropped \/ Read \/ ReaderRejects \/ Helper
             \/ \E c \in Caller : RequestTooLarge(c)
      PROVE  pc' = pc
  BY <1>4 DEF CloseWriter, TransportDropped, Read, ReaderDelivers, ReaderStops,
              ReaderFindsEnd, ReaderRejects, Helper, HelperAnswers, HelperMisbehaves,
              HelperExits, RequestTooLarge, callerVars
<1>. QED
  BY <1>1, <1>2, <1>3, <1>4 DEF WireNext, Advance, Expire, Overflowing

(* A response is sent once, for a frame that stays answered.                *)
LEMMA AnsweredStep == LateInv /\ [WireNext]_wireVars => AnsweredOnce'
<1>. SUFFICES ASSUME LateInv, [WireNext]_wireVars PROVE AnsweredOnce'
  OBVIOUS
<1>. AnsweredOnce /\ CallerTypeOK /\ HelperTypeOK /\ StageFrame
  BY DEF LateInv, RegistryInv, FrameInv, IdInv, WireTypeOK
<1>. USE DEF AnsweredOnce
<1>1. ASSUME NEW c \in Caller, WriteBegins(c) PROVE AnsweredOnce'
  <2>1. frame[id[c]] = "none" /\ id[c] \in Id
    BY <1>1 DEF WriteBegins, CallerTypeOK, StageFrame
  <2>. QED
    BY <1>1, <2>1 DEF WriteBegins, HelperTypeOK
<1>2. ASSUME NEW c \in Caller, WriteCompletes(c) PROVE AnsweredOnce'
  <2>1. frame[id[c]] = "partial" /\ id[c] \in Id
    BY <1>2 DEF WriteCompletes, CallerTypeOK, StageFrame
  <2>. QED
    BY <1>2, <2>1 DEF WriteCompletes, HelperTypeOK
<1>3. ASSUME NEW i \in Id, HelperAnswers(i) PROVE AnsweredOnce'
  BY <1>3 DEF HelperAnswers, HelperTypeOK
<1>4. ASSUME ReaderRejects \/ (\E i \in Id : HelperMisbehaves(i)) PROVE AnsweredOnce'
  BY <1>4 DEF ReaderRejects, HelperMisbehaves
<1>5. ASSUME NEW c \in Caller,
             RequestBegins(c) \/ RequestTooLarge(c) \/ LockExpires(c) \/ Refused(c)
             \/ WriteAbandoned(c) \/ WriteUnlocks(c) \/ Received(c) \/ WaitExpires(c)
             \/ WaitOverflows(c) \/ OverflowFails(c)
      PROVE  AnsweredOnce'
  BY <1>5 DEF RequestBegins, RequestTooLarge, LockExpires, Refused, WriteAbandoned, WriteUnlocks,
              Received, WaitExpires, WaitOverflows, OverflowFails, helperVars
<1>6. ASSUME CloseWriter \/ TransportDropped \/ Read \/ HelperExits \/ UNCHANGED wireVars
      PROVE  AnsweredOnce'
  BY <1>6 DEF CloseWriter, TransportDropped, Read, ReaderDelivers, ReaderStops,
              ReaderFindsEnd, HelperExits, helperVars, wireVars
<1>. QED
  BY <1>1, <1>2, <1>3, <1>4, <1>5, <1>6 DEF WireNext, Advance, Expire, Helper

(* What a helper owes stays expected by somebody.                           *)
LEMMA ExpectedStep == LateInv /\ [WireNext]_wireVars => Expected'
<1>. SUFFICES ASSUME LateInv, [WireNext]_wireVars PROVE Expected'
  OBVIOUS
<1>. /\ Expected /\ AnsweredOnce /\ CallerTypeOK /\ HelperTypeOK /\ StageFrame
     /\ pending \subseteq Id /\ abandoned \subseteq Id
  BY DEF LateInv, RegistryInv, FrameInv, IdInv, WireTypeOK, TransportTypeOK
<1>. USE DEF Expected
<1>1. CASE terminal' # "none"
  BY <1>1
<1>2. CASE Overflowing /\ WireNext
  BY <1>2, OverflowKept
<1>3. CASE UNCHANGED wireVars
  BY <1>3 DEF wireVars, callerVars, registryVars, helperVars, Overflowing
<1>4. SUFFICES ASSUME ~Overflowing, WireNext PROVE Expected'
  BY <1>2, <1>3
<1>5. ASSUME UNCHANGED <<frame, stdout, misbehaved, registryVars>> PROVE Expected'
  BY <1>4, <1>5 DEF registryVars
<1>6. ASSUME NEW c \in Caller, WriteBegins(c) PROVE Expected'
  <2>1. /\ pending' = pending \cup {id[c]} /\ UNCHANGED <<abandoned, terminal>>
        /\ frame' = [frame EXCEPT ![id[c]] = "partial"]
        /\ UNCHANGED <<stdout, misbehaved>>
    BY <1>6 DEF WriteBegins, Register
  <2>. QED
    BY <1>4, <2>1 DEF HelperTypeOK
<1>7. ASSUME NEW c \in Caller, WriteCompletes(c) PROVE Expected'
  <2>1. frame[id[c]] = "partial" /\ id[c] \in Id
    BY <1>7 DEF WriteCompletes, CallerTypeOK, StageFrame
  <2>. QED
    BY <1>4, <1>7, <2>1 DEF WriteCompletes, HelperTypeOK, registryVars
<1>8. ASSUME NEW c \in Caller, WaitExpires(c) PROVE Expected'
  BY <1>4, <1>8 DEF WaitExpires, Abandon, registryVars, helperVars
<1>9. ASSUME NEW c \in Caller, WaitOverflows(c) PROVE Expected'
  BY <1>9 DEF WaitOverflows, Move, Overflowing, CallerTypeOK
<1>10. ASSUME NEW i \in Id, ReaderDelivers(i) PROVE Expected'
  <2>1. CASE i \in pending \cup abandoned
    <3>1. /\ UNCHANGED <<frame, misbehaved, terminal>>
          /\ i \in stdout /\ stdout' = stdout \ {i}
          /\ (pending \cup abandoned) \ {i} \subseteq pending' \cup abandoned'
      BY <1>10, <2>1 DEF ReaderDelivers, Deliver
    <3>2. ~misbehaved => frame[i] = "answered"
      BY <3>1 DEF AnsweredOnce
    <3>. QED
      BY <1>4, <3>1, <3>2
  <2>2. CASE i \notin pending \cup abandoned
    BY <1>1, <1>10, <2>2, FailFails DEF ReaderDelivers, Deliver, Terminals
  <2>. QED
    BY <2>1, <2>2
<1>11. ASSUME NEW c \in Caller, WriteAbandoned(c) \/ OverflowFails(c) PROVE Expected'
  BY <1>1, <1>11, FailFails DEF WriteAbandoned, OverflowFails, Terminals
<1>12. ASSUME TransportDropped \/ ReaderFindsEnd \/ ReaderRejects PROVE Expected'
  BY <1>1, <1>12, FailFails DEF TransportDropped, ReaderFindsEnd, ReaderRejects, Terminals
<1>13. ASSUME NEW c \in Caller,
              RequestBegins(c) \/ RequestTooLarge(c) \/ LockExpires(c) \/ Refused(c)
              \/ WriteUnlocks(c) \/ Received(c)
       PROVE  Expected'
  BY <1>5, <1>13 DEF RequestBegins, RequestTooLarge, LockExpires, Refused, WriteUnlocks, Received,
                     helperVars
<1>14. ASSUME NEW i \in Id, HelperAnswers(i) PROVE Expected'
  BY <1>4, <1>14 DEF HelperAnswers, HelperTypeOK, registryVars
<1>15. ASSUME NEW i \in Id, HelperMisbehaves(i) PROVE Expected'
  BY <1>15 DEF HelperMisbehaves
<1>16. ASSUME CloseWriter \/ ReaderStops \/ HelperExits PROVE Expected'
  BY <1>5, <1>16 DEF CloseWriter, ReaderStops, HelperExits, helperVars
<1>. QED
  BY <1>4, <1>6, <1>7, <1>8, <1>9, <1>10, <1>11, <1>12, <1>13, <1>14, <1>15, <1>16
     DEF WireNext, Advance, Expire, Read, Helper

(* A response that finds neither its caller nor its id was not owed, or its *)
(* caller is about to fail the transport for the capacity.                  *)
LEMMA UnknownUnowed ==
  ASSUME LateInv, WireNext, terminal' = "unknown", terminal # "unknown"
  PROVE  misbehaved \/ Overflowing
<1>1. ASSUME NEW why \in Terminals \ {"unknown"}, Fail(why) PROVE FALSE
  BY <1>1 DEF Fail, registryVars
<1>2. ASSUME UNCHANGED terminal PROVE FALSE
  BY <1>2
<1>3. ASSUME NEW c \in Caller, Advance(c) \/ WriteCompletes(c) \/ Expire(c) PROVE FALSE
  BY <1>1, <1>2, <1>3
     DEF Advance, Expire, WriteCompletes, LockExpires, Refused, WriteBegins, Register,
         WriteAbandoned, WriteUnlocks, Received, WaitExpires, Abandon, WaitOverflows,
         OverflowFails, Terminals, registryVars
<1>4. ASSUME TransportDropped \/ ReaderFindsEnd \/ ReaderRejects PROVE FALSE
  BY <1>1, <1>4 DEF TransportDropped, ReaderFindsEnd, ReaderRejects, Terminals
<1>5. ASSUME CloseWriter \/ ReaderStops \/ Helper
             \/ \E c \in Caller : RequestBegins(c) \/ RequestTooLarge(c)
      PROVE  FALSE
  BY <1>2, <1>5 DEF CloseWriter, ReaderStops, Helper, HelperAnswers, HelperMisbehaves,
                    HelperExits, RequestBegins, RequestTooLarge, registryVars
<1>6. ASSUME NEW i \in Id, ReaderDelivers(i), ~misbehaved, ~Overflowing PROVE FALSE
  <2>1. i \in pending \cup abandoned
    BY <1>6 DEF ReaderDelivers, LateInv, Expected
  <2>. QED
    BY <1>2, <1>6, <2>1 DEF ReaderDelivers, Deliver
<1>. QED
  BY <1>3, <1>4, <1>5, <1>6 DEF WireNext, Read

(* A late response never fails the transport of a well-behaved helper while *)
(* the abandoned ids fit their limit.                                       *)
THEOREM LateResponses == WireSpec => LateResponseTolerated
<1>1. WireInit => LateInv
  BY InitTyped, FS_EmptySet, TransportConstants
     DEF WireInit, LateInv, RegistryInv, FrameInv, IdInv, IdsTaken, IdsDistinct, FreshIds,
         StageFrame, WriterHeld, PartialOwned, FramesWhole, RegisteredBegun,
         RegistryBounded, Expected, AnsweredOnce
<1>2. LateInv /\ [WireNext]_wireVars => LateInv'
  BY RegistryStep, ExpectedStep, AnsweredStep DEF LateInv
<1>3. LateInv /\ [WireNext]_wireVars =>
        [terminal' = "unknown" /\ terminal # "unknown" =>
           misbehaved \/ \E c \in Caller : pc[c] = "overflowing"]_wireVars
  BY UnknownUnowed DEF Overflowing
<1>. QED
  BY <1>1, <1>2, <1>3, PTL DEF WireSpec, LateResponseTolerated

-----------------------------------------------------------------------------
(* Answers: what is sent to the caller of an id is its response or a        *)
(* failure, and a caller that has been sent nothing is still registered.    *)

OwnChannel == \A i \in Id : channel[i] \in {i, Failed, Nothing}

Reachable ==
  \A c \in Caller :
    pc[c] \in {"writing", "waiting"} /\ channel[id[c]] = Nothing =>
      terminal = "none" /\ id[c] \in pending

ReaderRuns == terminal = "none" => reader

AnswerInv == RegistryInv /\ OwnChannel /\ OwnResponse /\ Reachable /\ ReaderRuns

(* A failure answers every registered caller.                               *)
LEMMA FailAnswers ==
  ASSUME AnswerInv, NEW why \in Terminals \ {"none"}, Fail(why)
  PROVE  /\ terminal' # "none" /\ OwnChannel'
         /\ \A i \in Id : channel[i] # Nothing \/ i \in pending => channel'[i] # Nothing
<1>. /\ OwnChannel /\ channel \in [Id -> Document] /\ Nothing # Failed
     /\ terminal # "none" => pending = {}
  BY TransportConstants
     DEF AnswerInv, RegistryInv, RegistryBounded, FrameInv, IdInv, WireTypeOK, TransportTypeOK
<1>. QED
  BY DEF Fail, registryVars, OwnChannel

(* The callers that wait stay the same or fewer and keep their ids.         *)
NoNewWaiter ==
  \A c \in Caller : pc'[c] \in {"writing", "waiting"} =>
    pc[c] \in {"writing", "waiting"} /\ id'[c] = id[c]

(* A step that leaves the registry alone, or fails the transport, keeps     *)
(* every waiter reachable.                                                  *)
LEMMA Unreached ==
  ASSUME AnswerInv, NoNewWaiter,
         \/ UNCHANGED registryVars
         \/ \E why \in Terminals \ {"none"} : Fail(why)
  PROVE  OwnChannel' /\ Reachable'
<1>. /\ OwnChannel /\ Reachable
     /\ \A c \in Caller : pc[c] # "idle" => id[c] \in Id
  BY DEF AnswerInv, RegistryInv, FrameInv, IdInv, WireTypeOK, CallerTypeOK
<1>1. CASE UNCHANGED registryVars
  BY <1>1 DEF registryVars, OwnChannel, Reachable, NoNewWaiter
<1>2. ASSUME NEW why \in Terminals \ {"none"}, Fail(why) PROVE OwnChannel' /\ Reachable'
  <2>1. /\ OwnChannel'
        /\ \A i \in Id : channel[i] # Nothing \/ i \in pending => channel'[i] # Nothing
    BY <1>2, FailAnswers
  <2>2. \A c \in Caller : pc'[c] \in {"writing", "waiting"} => channel'[id'[c]] # Nothing
    BY <2>1 DEF Reachable, NoNewWaiter
  <2>. QED
    BY <2>1, <2>2 DEF Reachable
<1>. QED
  BY <1>1, <1>2

(* A response goes to the caller of its own id, a failure to all.           *)
LEMMA AnswerStep == AnswerInv /\ [WireNext]_wireVars => AnswerInv'
<1>. SUFFICES ASSUME AnswerInv, [WireNext]_wireVars
              PROVE  OwnChannel' /\ OwnResponse' /\ Reachable' /\ ReaderRuns'
  BY RegistryStep DEF AnswerInv
<1>. DEFINE Goal == OwnChannel' /\ OwnResponse' /\ Reachable' /\ ReaderRuns'
<1>. /\ OwnChannel /\ OwnResponse /\ Reachable /\ ReaderRuns /\ CallerTypeOK /\ IdsDistinct
     /\ pending \subseteq Id /\ channel \in [Id -> Document]
     /\ Nothing # Failed /\ Nothing \notin Id
  BY TransportConstants
     DEF AnswerInv, RegistryInv, FrameInv, IdInv, WireTypeOK, TransportTypeOK
<1>1. ASSUME NEW c \in Caller, RequestBegins(c) PROVE Goal
  <2>1. NoNewWaiter
    BY <1>1 DEF RequestBegins, Move, NoNewWaiter, CallerTypeOK
  <2>2. UNCHANGED registryVars /\ OwnResponse' /\ ReaderRuns'
    BY <1>1 DEF RequestBegins, OwnResponse, ReaderRuns, registryVars, CallerTypeOK
  <2>. QED
    BY <2>1, <2>2, Unreached
<1>2. ASSUME NEW c \in Caller, RequestTooLarge(c) PROVE Goal
  <2>1. NoNewWaiter
    BY <1>2 DEF RequestTooLarge, NoNewWaiter, CallerTypeOK
  <2>2. UNCHANGED registryVars /\ OwnResponse' /\ ReaderRuns'
    BY <1>2 DEF RequestTooLarge, OwnResponse, ReaderRuns, registryVars, CallerTypeOK
  <2>. QED
    BY <2>1, <2>2, Unreached
<1>3. ASSUME NEW c \in Caller, NEW r \in {Failed, id[c], Nothing}, Returned(c, r)
      PROVE  NoNewWaiter /\ OwnResponse'
  BY <1>3 DEF Returned, Move, NoNewWaiter, OwnResponse, CallerTypeOK
<1>4. ASSUME NEW c \in Caller, LockExpires(c) \/ Refused(c) \/ WriteUnlocks(c) PROVE Goal
  <2>1. NoNewWaiter /\ OwnResponse'
    BY <1>4, <1>3 DEF LockExpires, Refused, WriteUnlocks
  <2>2. UNCHANGED registryVars /\ ReaderRuns'
    BY <1>4 DEF LockExpires, Refused, WriteUnlocks, ReaderRuns, registryVars
  <2>. QED
    BY <2>1, <2>2, Unreached
<1>5. ASSUME NEW c \in Caller, Received(c) PROVE Goal
  <2>1. id[c] \in Id /\ channel[id[c]] \in {Failed, id[c], Nothing}
    BY <1>5 DEF Received, CallerTypeOK, OwnChannel
  <2>2. NoNewWaiter /\ OwnResponse'
    BY <1>5, <1>3, <2>1 DEF Received
  <2>3. UNCHANGED registryVars /\ ReaderRuns'
    BY <1>5 DEF Received, ReaderRuns, registryVars
  <2>. QED
    BY <2>2, <2>3, Unreached
<1>6. ASSUME NEW c \in Caller, WriteBegins(c) PROVE Goal
  <2>1. /\ pc' = [pc EXCEPT ![c] = "writing"]
        /\ pending' = pending \cup {id[c]}
        /\ UNCHANGED <<id, result, channel, terminal, reader>>
        /\ terminal = "none"
    BY <1>6 DEF WriteBegins, Move, Register, Refuses
  <2>. QED
    BY <2>1 DEF OwnChannel, OwnResponse, Reachable, ReaderRuns, CallerTypeOK
<1>7. ASSUME NEW c \in Caller, WriteCompletes(c) PROVE Goal
  <2>1. NoNewWaiter
    BY <1>7 DEF WriteCompletes, Move, NoNewWaiter, CallerTypeOK
  <2>2. UNCHANGED registryVars /\ OwnResponse' /\ ReaderRuns'
    BY <1>7 DEF WriteCompletes, OwnResponse, ReaderRuns, registryVars
  <2>. QED
    BY <2>1, <2>2, Unreached
<1>8. ASSUME NEW c \in Caller, WriteAbandoned(c) PROVE Goal
  <2>1. NoNewWaiter
    BY <1>8 DEF WriteAbandoned, Move, NoNewWaiter, CallerTypeOK
  <2>2. OwnResponse' /\ ReaderRuns'
    BY <1>8, FailFails DEF WriteAbandoned, OwnResponse, ReaderRuns, Terminals
  <2>. QED
    BY <1>8, <2>1, <2>2, Unreached DEF WriteAbandoned, Terminals
<1>9. ASSUME NEW c \in Caller, WaitExpires(c) PROVE Goal
  <2>1. NoNewWaiter /\ OwnResponse'
    BY <1>9, <1>3 DEF WaitExpires
  <2>2. CASE id[c] \in pending
    <3>1. /\ pending' = pending \ {id[c]} /\ UNCHANGED <<terminal, channel, reader, id>>
          /\ pc' = [pc EXCEPT ![c] = "idle"] /\ id[c] \in Id
      BY <1>9, <2>2 DEF WaitExpires, Abandon, Returned, Move, CallerTypeOK
    <3>2. \A d \in Caller \ {c} : id[d] # id[c]
      BY <3>1 DEF IdsDistinct, Id
    <3>. QED
      BY <2>1, <3>1, <3>2 DEF OwnChannel, Reachable, ReaderRuns, CallerTypeOK
  <2>3. CASE id[c] \notin pending
    BY <1>9, <2>1, <2>3, Unreached DEF WaitExpires, Abandon, ReaderRuns, registryVars
  <2>. QED
    BY <2>2, <2>3
<1>13. ASSUME NEW c \in Caller, WaitOverflows(c) PROVE Goal
  <2>1. /\ pending' = pending \ {id[c]}
        /\ UNCHANGED <<terminal, channel, reader, id, result>>
        /\ pc' = [pc EXCEPT ![c] = "overflowing"] /\ id[c] \in Id
    BY <1>13 DEF WaitOverflows, Move, CallerTypeOK
  <2>2. \A d \in Caller \ {c} : id[d] # id[c]
    BY <2>1 DEF IdsDistinct, Id
  <2>. QED
    BY <2>1, <2>2 DEF OwnChannel, OwnResponse, Reachable, ReaderRuns, CallerTypeOK
<1>14. ASSUME NEW c \in Caller, OverflowFails(c) PROVE Goal
  <2>1. NoNewWaiter /\ OwnResponse'
    BY <1>14, <1>3 DEF OverflowFails
  <2>. QED
    BY <1>14, <2>1, Unreached, FailFails DEF OverflowFails, Terminals, ReaderRuns
<1>10. ASSUME NEW i \in Id, ReaderDelivers(i) PROVE Goal
  <2>1. NoNewWaiter /\ OwnResponse' /\ ReaderRuns'
    BY <1>10 DEF ReaderDelivers, callerVars, NoNewWaiter, OwnResponse, ReaderRuns
  <2>2. CASE i \in pending
    <3>1. /\ pending' = pending \ {i} /\ channel' = [channel EXCEPT ![i] = i]
          /\ UNCHANGED <<terminal, pc, id>>
      BY <1>10, <2>2 DEF ReaderDelivers, Deliver, callerVars
    <3>. QED
      BY <2>1, <3>1 DEF OwnChannel, Reachable, CallerTypeOK
  <2>3. CASE i \notin pending /\ i \in abandoned
    BY <1>10, <2>1, <2>3 DEF ReaderDelivers, Deliver, callerVars, OwnChannel, Reachable
  <2>4. CASE i \notin pending /\ i \notin abandoned
    BY <1>10, <2>1, <2>4, Unreached DEF ReaderDelivers, Deliver, Terminals
  <2>. QED
    BY <2>2, <2>3, <2>4
<1>11. ASSUME TransportDropped \/ ReaderFindsEnd \/ ReaderRejects PROVE Goal
  <2>1. NoNewWaiter /\ OwnResponse'
    BY <1>11 DEF TransportDropped, ReaderFindsEnd, ReaderRejects, callerVars, NoNewWaiter,
                 OwnResponse
  <2>2. PICK why \in Terminals \ {"none"} : Fail(why)
    BY <1>11 DEF TransportDropped, ReaderFindsEnd, ReaderRejects, Terminals
  <2>. QED
    BY <2>1, <2>2, Unreached, FailFails DEF ReaderRuns
<1>12. ASSUME CloseWriter \/ ReaderStops \/ Helper \/ UNCHANGED wireVars PROVE Goal
  <2>1. NoNewWaiter /\ OwnResponse' /\ UNCHANGED registryVars
    BY <1>12 DEF CloseWriter, ReaderStops, Helper, HelperAnswers, HelperMisbehaves,
                 HelperExits, wireVars, callerVars, NoNewWaiter, OwnResponse
  <2>2. ReaderRuns'
    BY <1>12 DEF CloseWriter, ReaderStops, Helper, HelperAnswers, HelperMisbehaves,
                 HelperExits, wireVars, registryVars, ReaderRuns
  <2>. QED
    BY <2>1, <2>2, Unreached
<1>. QED
  BY <1>1, <1>2, <1>4, <1>5, <1>6, <1>7, <1>8, <1>9, <1>10, <1>11, <1>12, <1>13, <1>14
     DEF WireNext, Advance, Expire, Read

(* A new transport has answered nobody and nobody waits.                    *)
LEMMA InitAnswers == WireInit => AnswerInv
BY InitTyped, FS_EmptySet, TransportConstants
   DEF WireInit, AnswerInv, RegistryInv, FrameInv, IdInv, IdsTaken, IdsDistinct, FreshIds,
       StageFrame, WriterHeld, PartialOwned, FramesWhole, RegisteredBegun, RegistryBounded,
       OwnChannel, OwnResponse, Reachable, ReaderRuns

(* No request ever returns the response to another one.                     *)
THEOREM OwnResponses == WireSpec => []OwnResponse
<1>1. AnswerInv => OwnResponse
  BY DEF AnswerInv
<1>. QED
  BY <1>1, InitAnswers, AnswerStep, PTL DEF WireSpec

(* Neither a response nor a failure ever passes a waiting caller by.        *)
THEOREM ReachableWaiters == WireSpec => []WaiterReachable
<1>1. AnswerInv => WaiterReachable
  BY DEF AnswerInv, WaiterReachable, Reachable, ReaderRuns
<1>. QED
  BY <1>1, InitAnswers, AnswerStep, PTL DEF WireSpec

=============================================================================
