-------------------------- MODULE OwnedRuntimes_proofs --------------------------
(***************************************************************************)
(* Theorems about the two components that own a DreamDaemon beside dm_run: *)
(* the profiling session (TracyCapture) and the debugger (DebuggerSession).*)
(*                                                                         *)
(* TracyCapture.  Each of its four properties follows from TracyInv, the   *)
(* inductive invariant below.  Its steps fall into frames, and a frame is  *)
(* shown once to keep the invariant: QuietOp (the steps of a launch or a   *)
(* stop that neither open nor close a session), PlainCall and MovingCall   *)
(* (the steps of a capture request) and Beside (the environment).  Only    *)
(* the steps that create or take a journal, the experiment or a trace are  *)
(* treated one by one.                                                     *)
(*                                                                         *)
(* DebuggerSession.  Both of its properties follow from DebugInv: of the   *)
(* one session the calls can reach (Live) it says, with the call o, the    *)
(* session's fields x, the stream q and the target t, that no report is    *)
(* missing (Whole), that no more than one request is out and the answer in *)
(* the stream is that call's (Matched), and how far a replacement has come *)
(* with the target's breakpoints (Phased, Followed); together Sound.  Each *)
(* step is shown to keep Sound as a fact about these values, and CallGoes, *)
(* TargetGoes and OtherGoes carry it to the state.                         *)
(***************************************************************************)
EXTENDS TracyCapture, DebuggerSession, SequenceTheorems, FiniteSetTheorems, TLAPS

-----------------------------------------------------------------------------
(* What the parts of the state are.                                          *)
Named == Keys \cup {AKey}
TraceRecord == [sess : Session, key : Keys, valid : BOOLEAN]
Things == TraceRecord \cup [temporary : Calls] \cup [edit : {TRUE}]
CheckRecord == [base : SessionOrNone, snap : SUBSET Things, owned : SUBSET Things]
SlotRecord ==
  [active : BOOLEAN, collector : SessionOrNone, journal : SessionOrNone,
   dir : Dirs \cup {NoDir}, snap : SUBSET Things, owned : SUBSET Things,
   experiment : SessionOrNone, used : SUBSET Keys, records : SUBSET TraceRecord,
   sampler : BOOLEAN, wake : BOOLEAN]
RuntimeRecord == [running : BOOLEAN, kind : {"none", "standard", "tracy"}, dirty : BOOLEAN]
DiskRecord ==
  [journal : SessionOrNone, status : {"none", "active", "finalized"},
   bases : SUBSET SessionOrNone, launched : BOOLEAN, complete : SessionOrNone,
   captures : SUBSET TraceRecord]

Starting == {"run", "spawn", "connect", "manifest", "wake", "client", "post_launch"}
Closing == {"cancel", "collector", "runtime", "take", "complete", "post_stop", "final"}
OpLabels == {"idle", "pre_launch", "failed", "pre_stop"} \cup Starting \cup Closing
OpRecord ==
  [pc : OpLabels, launching : BOOLEAN, id : SessionOrNone, dir : Dirs \cup {NoDir},
   prior : SessionOrNone, check : CheckRecord, bad : BOOLEAN, cleanup : BOOLEAN,
   profiled : BOOLEAN, unconfirmed : BOOLEAN, experiment : SessionOrNone,
   records : SUBSET TraceRecord]
Bound == {"pre_capture", "begin", "sent", "window", "answered", "publish", "record",
          "post_capture"}
CallLabels == {"idle", "collector", "bind", "done"} \cup Bound
CallRecord ==
  [pc : CallLabels, key : Named, col : SessionOrNone, port : BOOLEAN,
   exp : SessionOrNone, check : CheckRecord, result : Results \cup {"none"}]

TracyTypeOK ==
  /\ launches \in 0 .. MaxSessions
  /\ slot \in SlotRecord /\ rt \in RuntimeRecord /\ op \in OpRecord
  /\ disk \in [Dirs -> DiskRecord] /\ files \in SUBSET TraceRecord
  /\ edited \in BOOLEAN
  /\ calls \in [Calls -> CallRecord]

Passed(c) == <<calls[c].exp, calls[c].key>> \in overtaken
OldTrace(f) == <<f.sess, f.key>> \in overtaken
LateBase(b) == \E s \in 1 .. b, k \in Keys : <<s, k>> \in overtaken
IsBound(c) == calls[c].pc \in Bound

(* The profiler's processes go before the journal does: what a stop has       *)
(* reached says what is gone, and a failed checkpoint is known to stops only. *)
ProfilerGone == ~(rt.kind = "tracy" /\ (rt.running \/ rt.dirty))
NothingLeft == slot.collector = None /\ slot.experiment = None
               /\ ~slot.sampler /\ ~slot.wake /\ ProfilerGone
Held ==
  /\ slot.journal = None => NothingLeft
  /\ op.pc \in Starting => slot.journal = op.id
  /\ op.pc = "runtime" /\ ~op.unconfirmed => slot.collector = None
  /\ op.pc \in {"take", "complete", "post_stop", "final"} =>
       slot.collector = None /\ ~slot.wake /\ ProfilerGone
  /\ op.pc \in {"complete", "post_stop", "final"} =>
       ~slot.sampler /\ slot.experiment = None
  /\ op.bad => op.pc \in Closing \cup {"failed"}

(* Sessions are numbered by their journals; a request belongs to a session   *)
(* from the moment it binds the experiment's identity to the moment it ends. *)
Numbered ==
  /\ slot.journal <= launches /\ slot.experiment \in {None, slot.journal}
  /\ op.launching => op.id = launches /\ op.id # None
  /\ op.pc \in Starting \cup {"pre_launch"} => op.launching
  /\ \A c \in Calls : /\ calls[c].pc \in Bound \cup {"collector", "bind"} => calls[c].key \in Keys
                      /\ IsBound(c) => calls[c].exp \in 1 .. launches
                      /\ ~IsBound(c) => calls[c].exp = None
  /\ \A f \in files : f.sess <= launches
  /\ \A d \in Dirs : disk[d].complete <= launches
  /\ op.experiment <= launches

(* Until its launch manifest is written nothing names the new session.       *)
Unopened == {"pre_launch", "run", "spawn", "connect", "manifest"}
Fresh ==
  op.pc \in Unopened =>
    /\ slot.experiment # op.id /\ op.experiment # op.id
    /\ op.pc \in {"run", "spawn", "connect", "manifest"} => slot.experiment = None
    /\ \A c \in Calls : calls[c].exp # op.id
    /\ \A f \in files : f.sess # op.id
    /\ \A d \in Dirs : disk[d].complete # op.id

(* A checkpoint's baseline is of the session in the slot, or of one that a   *)
(* hand-over has taken from a request that is still in flight.               *)
BaseSound(c) ==
  calls[c].check.base # None =>
    /\ calls[c].exp <= calls[c].check.base
    /\ \/ calls[c].check.base = slot.journal \/ slot.journal = None
       \/ LateBase(calls[c].check.base)
Tied ==
  /\ slot.journal # None => slot.dir \in Dirs
  /\ op.pc = "pre_launch" =>
       /\ op.dir \in Dirs /\ disk[op.dir].journal = op.id /\ disk[op.dir].status = "active"
       /\ slot.journal < op.id
  /\ op.pc \in {"post_launch", "pre_stop", "post_stop"} => op.check.base = slot.journal
  /\ op.pc = "complete" => slot.journal # None
  /\ \A d \in Dirs : None \notin disk[d].bases
  /\ \A c \in Calls : IsBound(c) => calls[c].exp <= slot.journal \/ slot.journal = None
  /\ \A c \in Calls : calls[c].pc \in {"pre_capture", "post_capture"} => BaseSound(c)
  /\ JournalTied

(* Every trace of the open session is recorded, or about to be by the        *)
(* request that published it, or was overtaken; the completed ones agree.    *)
Exact(d) ==
  disk[d].complete # None =>
    /\ \A f \in files : f.sess = disk[d].complete => OldTrace(f) \/ f \in disk[d].captures
    /\ \A f \in disk[d].captures :
         f \in files /\ (OldTrace(f) \/ f.sess = disk[d].complete)
Manifested ==
  /\ \A c \in Calls : IsBound(c) => Passed(c) \/ calls[c].exp = slot.experiment
  /\ \A c \in Calls : calls[c].pc = "record" => Trace(c) \in files
  /\ \A f \in files :
       \/ OldTrace(f) \/ f.sess # slot.experiment \/ f \in slot.records
       \/ \E c \in Calls : calls[c].pc = "record" /\ Trace(c) = f
  /\ \A f \in slot.records : f \in files /\ (OldTrace(f) \/ f.sess = slot.experiment)
  /\ op.pc = "complete" =>
       /\ op.experiment # None
       /\ \A f \in files : f.sess = op.experiment => OldTrace(f) \/ f \in op.records
       /\ \A f \in op.records : f \in files /\ (OldTrace(f) \/ f.sess = op.experiment)
  /\ \A d \in Dirs : disk[d].complete # None => disk[d].complete # slot.experiment
  /\ \A d \in Dirs : Exact(d)

(* A key is free while its window is open and used from then on; whoever is  *)
(* left to publish holds it alone, unless a hand-over came between.          *)
Once ==
  /\ OneWindow
  /\ \A f \in files : OldTrace(f) \/ f.sess # slot.experiment \/ f.key \in slot.used
  /\ \A c \in Calls : calls[c].pc = "publish" => Passed(c) \/ calls[c].key \in slot.used
  /\ \A c \in Calls : InWindow(c) => Passed(c) \/ calls[c].key \notin slot.used
  /\ \A c, d \in Calls :
       calls[c].pc = "publish" /\ calls[d].pc = "publish" /\ c # d
       /\ calls[c].exp = calls[d].exp /\ calls[c].key = calls[d].key => Passed(c)
  /\ \A c \in Calls : calls[c].pc = "publish" /\ Repeats(c) => Passed(c)

TracyInv == TracyTypeOK /\ Held /\ Numbered /\ Fresh /\ Tied /\ Manifested /\ Once

-----------------------------------------------------------------------------
(* Updates of records keep their type.                                       *)

LEMMA OpField ==
  ASSUME NEW o \in OpRecord
  PROVE  /\ \A v \in OpLabels : [o EXCEPT !.pc = v] \in OpRecord
         /\ \A v \in CheckRecord : [o EXCEPT !.check = v] \in OpRecord
         /\ \A v \in BOOLEAN : /\ [o EXCEPT !.bad = v] \in OpRecord
                               /\ [o EXCEPT !.cleanup = v] \in OpRecord
                               /\ [o EXCEPT !.profiled = v] \in OpRecord
                               /\ [o EXCEPT !.unconfirmed = v] \in OpRecord
                               /\ [o EXCEPT !.launching = v] \in OpRecord
         /\ \A v \in SUBSET TraceRecord : [o EXCEPT !.records = v] \in OpRecord
         /\ \A v \in SessionOrNone : /\ [o EXCEPT !.experiment = v] \in OpRecord
                                     /\ [o EXCEPT !.id = v] \in OpRecord
                                     /\ [o EXCEPT !.prior = v] \in OpRecord
         /\ \A v \in Dirs \cup {NoDir} : [o EXCEPT !.dir = v] \in OpRecord
BY DEF OpRecord

LEMMA SlotField ==
  ASSUME NEW o \in SlotRecord
  PROVE  /\ \A v \in SessionOrNone : /\ [o EXCEPT !.journal = v] \in SlotRecord
                                     /\ [o EXCEPT !.collector = v] \in SlotRecord
                                     /\ [o EXCEPT !.experiment = v] \in SlotRecord
         /\ \A v \in BOOLEAN : /\ [o EXCEPT !.active = v] \in SlotRecord
                               /\ [o EXCEPT !.sampler = v] \in SlotRecord
                               /\ [o EXCEPT !.wake = v] \in SlotRecord
         /\ \A v \in SUBSET Things : /\ [o EXCEPT !.snap = v] \in SlotRecord
                                     /\ [o EXCEPT !.owned = v] \in SlotRecord
         /\ \A v \in SUBSET Keys : [o EXCEPT !.used = v] \in SlotRecord
         /\ \A v \in SUBSET TraceRecord : [o EXCEPT !.records = v] \in SlotRecord
         /\ \A v \in Dirs \cup {NoDir} : [o EXCEPT !.dir = v] \in SlotRecord
BY DEF SlotRecord

LEMMA DiskField ==
  ASSUME NEW o \in DiskRecord
  PROVE  /\ \A v \in SessionOrNone : /\ [o EXCEPT !.journal = v] \in DiskRecord
                                     /\ [o EXCEPT !.complete = v] \in DiskRecord
         /\ \A v \in {"none", "active", "finalized"} : [o EXCEPT !.status = v] \in DiskRecord
         /\ \A v \in SUBSET SessionOrNone : [o EXCEPT !.bases = v] \in DiskRecord
         /\ \A v \in BOOLEAN : [o EXCEPT !.launched = v] \in DiskRecord
         /\ \A v \in SUBSET TraceRecord : [o EXCEPT !.captures = v] \in DiskRecord
BY DEF DiskRecord

LEMMA CallField ==
  ASSUME NEW o \in CallRecord
  PROVE  /\ \A v \in CallLabels : [o EXCEPT !.pc = v] \in CallRecord
         /\ \A v \in Named : [o EXCEPT !.key = v] \in CallRecord
         /\ \A v \in SessionOrNone : /\ [o EXCEPT !.col = v] \in CallRecord
                                     /\ [o EXCEPT !.exp = v] \in CallRecord
         /\ \A v \in BOOLEAN : [o EXCEPT !.port = v] \in CallRecord
         /\ \A v \in CheckRecord : [o EXCEPT !.check = v] \in CallRecord
         /\ \A v \in Results \cup {"none"} : [o EXCEPT !.result = v] \in CallRecord
BY DEF CallRecord

LEMMA Empty ==
  /\ NoOp \in OpRecord /\ NoOp.pc = "idle" /\ NoOp.launching = FALSE /\ NoOp.id = None
  /\ NoOp.bad = FALSE /\ NoOp.experiment = None /\ NoOp.records = {}
  /\ NoOp.check = NoCheck /\ NoCheck \in CheckRecord /\ NoCheck.base = None
  /\ EmptySlot \in SlotRecord
  /\ Unused \in DiskRecord /\ NoCall \in CallRecord
  /\ NoCall.check = NoCheck /\ NoCall.exp = None
  /\ None \in SessionOrNone /\ None \notin Session
<1>1. NoCheck \in CheckRecord
  BY DEF NoCheck, CheckRecord, SessionOrNone
<1>2. NoOp \in OpRecord
  BY <1>1 DEF NoOp, OpRecord, OpLabels, SessionOrNone
<1>3. EmptySlot \in SlotRecord
  BY DEF EmptySlot, SlotRecord, SessionOrNone
<1>4. Unused \in DiskRecord
  BY DEF Unused, DiskRecord, SessionOrNone
<1>5. NoCall \in CallRecord
  BY <1>1 DEF NoCall, CallRecord, CallLabels, Named, SessionOrNone
<1> QED
  BY <1>1, <1>2, <1>3, <1>4, <1>5
  DEF NoOp, NoCheck, NoCall, SessionOrNone, Session, None

(* What a step makes of the operation that holds `lifecycle`.                *)
Continues(label) ==
  /\ op' \in OpRecord /\ op'.pc = label
  /\ op'.launching = op.launching /\ op'.id = op.id /\ op'.dir = op.dir
  /\ op'.experiment = op.experiment /\ op'.records = op.records

LEMMA Seen ==
  ASSUME TracyTypeOK
  PROVE  Workspace \in SUBSET Things /\ ReadCheck \in CheckRecord
         /\ ReadCheck.base = slot.journal
<1>1. Workspace \in SUBSET Things
  <2>1. [temporary : {c \in Calls : Reserved(c)}] \subseteq [temporary : Calls]
    OBVIOUS
  <2> QED
    BY <2>1 DEF TracyTypeOK, Workspace, Things
<1> QED
  BY <1>1 DEF TracyTypeOK, SlotRecord, ReadCheck, CheckRecord

LEMMA Going ==
  ASSUME TracyTypeOK, NEW label \in OpLabels, Goto(label)
  PROVE  Continues(label) /\ op'.bad = op.bad /\ op'.unconfirmed = op.unconfirmed
         /\ op'.check = op.check
<1>1. op \in OpRecord /\ op' = [op EXCEPT !.pc = label]
  BY DEF TracyTypeOK, Goto
<1>2. op' \in OpRecord
  BY <1>1, OpField
<1> QED
  BY <1>1, <1>2 DEF Continues, OpRecord

LEMMA CheckSet ==
  ASSUME NEW o \in OpRecord, NEW label \in OpLabels, NEW k \in CheckRecord
  PROVE  [o EXCEPT !.pc = label, !.check = k] \in OpRecord
<1> DEFINE m == [o EXCEPT !.pc = label]
<1>1. m \in OpRecord
  BY OpField
<1>2. [o EXCEPT !.pc = label, !.check = k] = [m EXCEPT !.check = k]
  OBVIOUS
<1> HIDE DEF m
<1> QED
  BY <1>1, <1>2, OpField

LEMMA Checking ==
  ASSUME TracyTypeOK, NEW label \in OpLabels, ToCheck(label)
  PROVE  Continues(label) /\ op'.bad = op.bad /\ op'.unconfirmed = op.unconfirmed
         /\ op'.check.base = slot.journal
<1>1. op' \in OpRecord
  BY CheckSet, Seen DEF TracyTypeOK, ToCheck
<1> QED
  BY <1>1, Seen DEF TracyTypeOK, ToCheck, Continues, OpRecord

LEMMA StopSet ==
  ASSUME NEW o \in OpRecord, NEW label \in OpLabels, NEW k \in CheckRecord,
         NEW bad \in BOOLEAN, NEW cleanup \in BOOLEAN
  PROVE  [o EXCEPT !.pc = label, !.check = k, !.bad = bad, !.cleanup = cleanup] \in OpRecord
<1> DEFINE m == [o EXCEPT !.pc = label, !.check = k]
           n == [m EXCEPT !.bad = bad]
<1>1. m \in OpRecord
  BY CheckSet
<1>2. [o EXCEPT !.pc = label, !.check = k, !.bad = bad, !.cleanup = cleanup]
      = [n EXCEPT !.cleanup = cleanup]
  OBVIOUS
<1> HIDE DEF m
<1>3. n \in OpRecord
  BY <1>1, OpField
<1> HIDE DEF n
<1> QED
  BY <1>2, <1>3, OpField

LEMMA Stopping ==
  ASSUME TracyTypeOK, NEW o \in OpRecord, ToStop(o)
  PROVE  /\ op' \in OpRecord /\ op'.pc = "pre_stop" /\ op'.bad = FALSE
         /\ op'.check.base = slot.journal
         /\ op'.launching = o.launching /\ op'.id = o.id /\ op'.dir = o.dir
         /\ op'.experiment = o.experiment /\ op'.records = o.records
<1>0. "pre_stop" \in OpLabels /\ (slot.journal # None) \in BOOLEAN
  BY DEF OpLabels
<1>1. op' \in OpRecord
  BY <1>0, StopSet, Seen DEF ToStop
<1> QED
  BY <1>1, Seen DEF ToStop, OpRecord

LEMMA Returning ==
  ASSUME TracyTypeOK, StopReturns
  PROVE  \/ op' = NoOp
         \/ op.launching /\ Continues("failed") /\ op'.bad = op.bad
<1>1. CASE op.launching
  <2>1. Goto("failed") /\ "failed" \in OpLabels
    BY <1>1 DEF StopReturns, Goto, OpLabels
  <2> QED
    BY <1>1, <2>1, Going
<1> QED
  BY <1>1 DEF StopReturns

(* What a step makes of a request; the others stay where they are.           *)
CallAt(c, label) ==
  /\ calls' \in [Calls -> CallRecord] /\ calls'[c].pc = label
  /\ \A d \in Calls : d # c => calls'[d] = calls[d]
SameCapture(c) ==
  calls'[c].key = calls[c].key /\ calls'[c].exp = calls[c].exp

LEMMA CallSet ==
  ASSUME TracyTypeOK, NEW c \in Calls, NEW r \in CallRecord,
         calls' = [calls EXCEPT ![c] = r]
  PROVE  CallAt(c, r.pc) /\ calls'[c] = r
BY DEF TracyTypeOK, CallAt

LEMMA Stepping ==
  ASSUME TracyTypeOK, NEW c \in Calls, NEW label \in CallLabels, Step(c, label)
  PROVE  CallAt(c, label) /\ SameCapture(c)
         /\ calls'[c].check = calls[c].check /\ calls'[c].result = calls[c].result
<1> DEFINE r == [calls[c] EXCEPT !.pc = label]
<1>0. calls[c] \in CallRecord
  BY DEF TracyTypeOK
<1>1. r \in CallRecord
  BY <1>0, CallField
<1>2. r.pc = label /\ r.key = calls[c].key /\ r.exp = calls[c].exp
      /\ r.check = calls[c].check /\ r.result = calls[c].result
  BY <1>0 DEF CallRecord
<1>3. calls' = [calls EXCEPT ![c] = r]
  BY DEF Step, TracyTypeOK
<1> HIDE DEF r
<1>r. CallAt(c, r.pc) /\ calls'[c] = r
  BY <1>1, <1>3, CallSet
<1> QED
  BY <1>r, <1>2 DEF SameCapture

LEMMA Leaving ==
  ASSUME TracyTypeOK, NEW c \in Calls, Leave(c)
  PROVE  CallAt(c, "done") /\ calls'[c].exp = None
<1> DEFINE r == [NoCall EXCEPT !.pc = "done"]
<1>1. r \in CallRecord
  BY CallField, Empty DEF CallLabels
<1>2. r.pc = "done" /\ r.exp = None
  BY DEF NoCall
<1>3. calls' = [calls EXCEPT ![c] = r]
  BY DEF Leave
<1> HIDE DEF r
<1>r. CallAt(c, r.pc) /\ calls'[c] = r
  BY <1>1, <1>3, CallSet
<1> QED
  BY <1>r, <1>2

(* A request's pc moves with one other field.                                *)
LEMMA Called ==
  ASSUME TracyTypeOK, NEW c \in Calls, NEW k \in Keys,
         calls' = [calls EXCEPT ![c].pc = "collector", ![c].key = k]
  PROVE  CallAt(c, "collector") /\ calls'[c].key = k /\ calls'[c].exp = calls[c].exp
<1> DEFINE m == [calls[c] EXCEPT !.pc = "collector"]
           r == [m EXCEPT !.key = k]
<1>0. calls[c] \in CallRecord
  BY DEF TracyTypeOK
<1>m. m \in CallRecord
  BY <1>0, CallField DEF CallLabels, Bound
<1>1. m \in CallRecord /\ m.pc = "collector" /\ m.exp = calls[c].exp
  BY <1>0, <1>m DEF CallRecord
<1>2. calls' = [calls EXCEPT ![c] = r]
  OBVIOUS
<1> HIDE DEF m
<1>3. r \in CallRecord
  BY <1>1, CallField DEF Named
<1>4. r.pc = "collector" /\ r.key = k /\ r.exp = calls[c].exp
  BY <1>1 DEF CallRecord
<1> HIDE DEF r
<1>r. CallAt(c, r.pc) /\ calls'[c] = r
  BY <1>1, <1>2, <1>3, CallSet
<1> QED
  BY <1>r, <1>4

LEMMA CollectorSeen ==
  ASSUME TracyTypeOK, NEW c \in Calls,
         calls' = [calls EXCEPT ![c].pc = "bind", ![c].col = slot.collector]
  PROVE  CallAt(c, "bind") /\ SameCapture(c)
<1> DEFINE m == [calls[c] EXCEPT !.pc = "bind"]
           r == [m EXCEPT !.col = slot.collector]
<1>0. calls[c] \in CallRecord /\ slot.collector \in SessionOrNone
  BY DEF TracyTypeOK, SlotRecord
<1>m. m \in CallRecord
  BY <1>0, CallField DEF CallLabels, Bound
<1>1. m \in CallRecord /\ m.pc = "bind" /\ m.exp = calls[c].exp /\ m.key = calls[c].key
  BY <1>0, <1>m DEF CallRecord
<1>2. calls' = [calls EXCEPT ![c] = r]
  OBVIOUS
<1> HIDE DEF m
<1>3. r \in CallRecord
  BY <1>0, <1>1, CallField
<1>4. r.pc = "bind" /\ r.key = calls[c].key /\ r.exp = calls[c].exp
  BY <1>1 DEF CallRecord
<1> HIDE DEF r
<1>r. CallAt(c, r.pc) /\ calls'[c] = r
  BY <1>1, <1>2, <1>3, CallSet
<1> QED
  BY <1>r, <1>4 DEF SameCapture

LEMMA CheckRead ==
  ASSUME TracyTypeOK, NEW c \in Calls, NEW label \in CallLabels, NEW k \in CheckRecord,
         calls' = [calls EXCEPT ![c].pc = label, ![c].check = k]
  PROVE  CallAt(c, label) /\ SameCapture(c) /\ calls'[c].check = k
<1> DEFINE m == [calls[c] EXCEPT !.pc = label]
           r == [m EXCEPT !.check = k]
<1>0. calls[c] \in CallRecord
  BY DEF TracyTypeOK
<1>m. m \in CallRecord
  BY <1>0, CallField DEF CallLabels, Bound
<1>1. m \in CallRecord /\ m.pc = label /\ m.exp = calls[c].exp /\ m.key = calls[c].key
  BY <1>0, <1>m DEF CallRecord
<1>2. calls' = [calls EXCEPT ![c] = r]
  OBVIOUS
<1> HIDE DEF m
<1>3. r \in CallRecord
  BY <1>1, CallField
<1>4. r.pc = label /\ r.key = calls[c].key /\ r.exp = calls[c].exp /\ r.check = k
  BY <1>1 DEF CallRecord
<1> HIDE DEF r
<1>r. CallAt(c, r.pc) /\ calls'[c] = r
  BY <1>1, <1>2, <1>3, CallSet
<1> QED
  BY <1>r, <1>4 DEF SameCapture

LEMMA Ended ==
  ASSUME TracyTypeOK, NEW c \in Calls, NEW answer \in Results,
         calls' = [calls EXCEPT ![c].pc = "answered", ![c].result = answer]
  PROVE  CallAt(c, "answered") /\ SameCapture(c)
<1> DEFINE m == [calls[c] EXCEPT !.pc = "answered"]
           r == [m EXCEPT !.result = answer]
<1>0. calls[c] \in CallRecord
  BY DEF TracyTypeOK
<1>m. m \in CallRecord
  BY <1>0, CallField DEF CallLabels, Bound
<1>1. m \in CallRecord /\ m.pc = "answered" /\ m.exp = calls[c].exp /\ m.key = calls[c].key
  BY <1>0, <1>m DEF CallRecord
<1>2. calls' = [calls EXCEPT ![c] = r]
  OBVIOUS
<1> HIDE DEF m
<1>3. r \in CallRecord
  BY <1>1, CallField
<1>4. r.pc = "answered" /\ r.key = calls[c].key /\ r.exp = calls[c].exp
  BY <1>1 DEF CallRecord
<1> HIDE DEF r
<1>r. CallAt(c, r.pc) /\ calls'[c] = r
  BY <1>1, <1>2, <1>3, CallSet
<1> QED
  BY <1>r, <1>4 DEF SameCapture

LEMMA Binding ==
  ASSUME TracyTypeOK, NEW c \in Calls,
         calls' = [calls EXCEPT ![c].pc = "pre_capture", ![c].port = rt.kind = "tracy",
                                ![c].exp = slot.experiment, ![c].check = ReadCheck]
  PROVE  /\ CallAt(c, "pre_capture") /\ calls'[c].key = calls[c].key
         /\ calls'[c].exp = slot.experiment /\ calls'[c].check.base = slot.journal
<1> DEFINE m == [calls[c] EXCEPT !.pc = "pre_capture"]
           n == [m EXCEPT !.port = rt.kind = "tracy"]
           o == [n EXCEPT !.exp = slot.experiment]
           r == [o EXCEPT !.check = ReadCheck]
<1>0. calls[c] \in CallRecord /\ slot.experiment \in SessionOrNone
      /\ (rt.kind = "tracy") \in BOOLEAN
  BY DEF TracyTypeOK, SlotRecord
<1>m. m \in CallRecord
  BY <1>0, CallField DEF CallLabels, Bound
<1>1. m \in CallRecord /\ m.pc = "pre_capture" /\ m.key = calls[c].key
  BY <1>0, <1>m DEF CallRecord
<1>2. calls' = [calls EXCEPT ![c] = r]
  OBVIOUS
<1> HIDE DEF m
<1>n. n \in CallRecord
  BY <1>0, <1>1, CallField
<1>3. n \in CallRecord /\ n.pc = "pre_capture" /\ n.key = calls[c].key
  BY <1>1, <1>n DEF CallRecord
<1> HIDE DEF n
<1>o. o \in CallRecord
  BY <1>0, <1>3, CallField
<1>4. o \in CallRecord /\ o.pc = "pre_capture" /\ o.key = calls[c].key
      /\ o.exp = slot.experiment
  BY <1>3, <1>o DEF CallRecord
<1> HIDE DEF o
<1>5. r \in CallRecord
  BY <1>4, CallField, Seen
<1>6. r.pc = "pre_capture" /\ r.key = calls[c].key /\ r.exp = slot.experiment
      /\ r.check = ReadCheck
  BY <1>4 DEF CallRecord
<1> HIDE DEF r
<1>r. CallAt(c, r.pc) /\ calls'[c] = r
  BY <1>1, <1>2, <1>5, CallSet
<1> QED
  BY <1>r, <1>6, Seen

(* What a step leaves of the slot and of the directories.                    *)
SlotKept ==
  /\ slot' \in SlotRecord
  /\ slot'.journal = slot.journal /\ slot'.dir = slot.dir
  /\ slot'.experiment = slot.experiment /\ slot'.used = slot.used
  /\ slot'.records = slot.records /\ slot'.active = slot.active

DiskKept ==
  /\ disk' \in [Dirs -> DiskRecord]
  /\ \A d \in Dirs : /\ disk'[d].journal = disk[d].journal /\ disk'[d].status = disk[d].status
                     /\ disk'[d].complete = disk[d].complete
                     /\ disk'[d].captures = disk[d].captures
BasesGain(b) ==
  \A d \in Dirs : \A x \in disk'[d].bases :
    x \in disk[d].bases \/ (x = b /\ d = slot.dir /\ slot.journal # None)
BasesKept == \A d \in Dirs : disk'[d].bases = disk[d].bases

LEMMA Recording ==
  ASSUME TracyTypeOK, slot.journal # None => slot.dir \in Dirs,
         NEW k \in CheckRecord, RecordCheck(k)
  PROVE  DiskKept /\ BasesGain(k.base)
<1>1. CASE slot.journal = None
  BY <1>1 DEF RecordCheck, DiskKept, BasesGain, TracyTypeOK
<1>2. CASE slot.journal # None
  <2> DEFINE r == [disk[slot.dir] EXCEPT !.bases = @ \cup {k.base}]
  <2>1. slot.dir \in Dirs /\ disk[slot.dir] \in DiskRecord /\ k.base \in SessionOrNone
    BY <1>2 DEF TracyTypeOK, CheckRecord
  <2>2. disk[slot.dir].bases \cup {k.base} \in SUBSET SessionOrNone
    BY <2>1 DEF DiskRecord
  <2>3. r \in DiskRecord
    BY <2>1, <2>2, DiskField
  <2>4. /\ r.journal = disk[slot.dir].journal /\ r.status = disk[slot.dir].status
        /\ r.complete = disk[slot.dir].complete /\ r.captures = disk[slot.dir].captures
        /\ r.bases = disk[slot.dir].bases \cup {k.base}
    BY <2>1 DEF DiskRecord
  <2>5. disk' = [disk EXCEPT ![slot.dir] = r]
    BY <1>2 DEF RecordCheck
  <2> HIDE DEF r
  <2> QED
    BY <1>2, <2>1, <2>3, <2>4, <2>5 DEF DiskKept, BasesGain, TracyTypeOK
<1> QED
  BY <1>1, <1>2

LEMMA SlotStays ==
  ASSUME TracyTypeOK, slot' = slot
  PROVE  SlotKept
BY DEF TracyTypeOK, SlotKept

LEMMA SlotSampler ==
  ASSUME TracyTypeOK, NEW v \in BOOLEAN, slot' = [slot EXCEPT !.sampler = v]
  PROVE  SlotKept /\ slot'.sampler = v /\ slot'.collector = slot.collector
         /\ slot'.wake = slot.wake
<1>1. slot \in SlotRecord /\ slot' \in SlotRecord
  BY SlotField DEF TracyTypeOK
<1> QED
  BY <1>1 DEF SlotKept, SlotRecord

LEMMA SlotWake ==
  ASSUME TracyTypeOK, NEW v \in BOOLEAN, slot' = [slot EXCEPT !.wake = v]
  PROVE  SlotKept /\ slot'.wake = v /\ slot'.collector = slot.collector
         /\ slot'.sampler = slot.sampler
<1>1. slot \in SlotRecord /\ slot' \in SlotRecord
  BY SlotField DEF TracyTypeOK
<1> QED
  BY <1>1 DEF SlotKept, SlotRecord

LEMMA SlotCollector ==
  ASSUME TracyTypeOK, NEW v \in SessionOrNone, slot' = [slot EXCEPT !.collector = v]
  PROVE  SlotKept /\ slot'.collector = v /\ slot'.sampler = slot.sampler
         /\ slot'.wake = slot.wake
<1>1. slot \in SlotRecord /\ slot' \in SlotRecord
  BY SlotField DEF TracyTypeOK
<1> QED
  BY <1>1 DEF SlotKept, SlotRecord

LEMMA DiskStays ==
  ASSUME TracyTypeOK, disk' = disk
  PROVE  DiskKept /\ \A b : BasesGain(b)
BY DEF TracyTypeOK, DiskKept, BasesGain

(* The steps of an operation that neither open nor close a session.          *)
Opened == {"run", "spawn", "connect", "manifest"}
QuietOp ==
  /\ SlotKept /\ DiskKept /\ BasesGain(slot.journal)
  /\ rt' \in RuntimeRecord
  /\ UNCHANGED <<launches, files, edited, calls, overtaken>>
  /\ op' \in OpRecord
  /\ op'.pc \notin {"pre_launch", "complete"}
  /\ op'.pc \in {"post_launch", "pre_stop", "post_stop"} => op'.check.base = slot.journal
  /\ op'.experiment \in {op.experiment, None}
  /\ op'.launching => op.launching /\ op'.id = op.id
  /\ op'.pc \in Starting => op'.launching
  /\ op'.pc \in Opened => op.pc \in Opened /\ op'.experiment = op.experiment
                          /\ op'.id = op.id

LEMMA RunStep ==
  ASSUME TracyInv, LaunchRun
  PROVE  QuietOp /\ Held'
<1>0. /\ TracyTypeOK /\ Held /\ Numbered /\ op.pc = "run" /\ op.launching
      /\ op.bad = FALSE
  BY DEF TracyInv, Numbered, Held, LaunchRun, Starting, Closing, TracyTypeOK, OpRecord
<1>1. DiskKept /\ BasesGain(slot.journal) /\ UNCHANGED <<launches, files, edited, calls, overtaken>>
  BY <1>0, DiskStays DEF LaunchRun
<1>2. CASE Goto("spawn") /\ rt' = [running |-> TRUE, kind |-> "tracy", dirty |-> FALSE]
           /\ slot' = [slot EXCEPT !.sampler = TRUE]
  <2>1. Continues("spawn") /\ op'.bad = op.bad /\ op'.check = op.check
    BY <1>0, <1>2, Going DEF OpLabels, Starting
  <2>2. SlotKept
    BY <1>0, <1>2, SlotSampler
  <2>3. rt' \in RuntimeRecord
    BY <1>2 DEF RuntimeRecord
  <2>4. QuietOp
    BY <1>0, <1>1, <2>1, <2>2, <2>3 DEF QuietOp, Continues, Opened, Starting
  <2>5. Held'
    BY <1>0, <2>1, <2>2, Empty
    DEF Held, SlotKept, Continues, Starting, Closing, Numbered
  <2> QED
    BY <2>4, <2>5
<1>3. CASE Goto("failed") /\ UNCHANGED <<rt, slot>>
  <2>1. Continues("failed") /\ op'.bad = op.bad /\ op'.check = op.check
    BY <1>0, <1>3, Going DEF OpLabels
  <2>2. SlotKept
    BY <1>0, <1>3, SlotStays
  <2>3. rt' \in RuntimeRecord
    BY <1>0, <1>3 DEF TracyTypeOK
  <2>4. QuietOp
    BY <1>0, <1>1, <2>1, <2>2, <2>3 DEF QuietOp, Continues, Opened, Starting
  <2>5. Held'
    BY <1>0, <1>3, <2>1
    DEF Held, Continues, Starting, Closing, NothingLeft, ProfilerGone
  <2> QED
    BY <2>4, <2>5
<1> QED
  BY <1>2, <1>3 DEF LaunchRun

Around ==
  /\ SlotKept /\ DiskKept /\ BasesGain(slot.journal)
  /\ rt' \in RuntimeRecord
  /\ UNCHANGED <<launches, files, edited, calls, overtaken>>

LEMMA Continuing ==
  ASSUME TracyInv, Around, NEW label, Continues(label),
         label \notin {"pre_launch", "complete"},
         label \in {"post_launch", "pre_stop", "post_stop"} => op'.check.base = slot.journal,
         label \in Starting => op.launching,
         label \in Opened => op.pc \in Opened
  PROVE  QuietOp
BY DEF Around, QuietOp, Continues

LEMMA Ending ==
  ASSUME TracyInv, Around, op' = NoOp
  PROVE  QuietOp
BY Empty DEF Around, QuietOp, Starting, Opened

LEMMA StopAfter ==
  ASSUME TracyInv, Around, ToStop(op) \/ ToStop(NoOp)
  PROVE  QuietOp /\ op'.pc = "pre_stop" /\ op'.bad = FALSE
<1>0. TracyTypeOK /\ op \in OpRecord /\ NoOp \in OpRecord
  BY Empty DEF TracyInv, TracyTypeOK
<1>1. CASE ToStop(op)
  <2>1. /\ op' \in OpRecord /\ op'.pc = "pre_stop" /\ op'.bad = FALSE
        /\ op'.check.base = slot.journal /\ Continues("pre_stop")
    BY <1>0, <1>1, Stopping DEF Continues
  <2> QED
    BY <2>1, Continuing DEF Starting, Opened
<1>2. CASE ToStop(NoOp)
  <2>1. /\ op' \in OpRecord /\ op'.pc = "pre_stop" /\ op'.bad = FALSE
        /\ op'.check.base = slot.journal /\ op'.launching = FALSE
        /\ op'.experiment = None
    BY <1>0, <1>2, Stopping, Empty
  <2> QED
    BY <2>1 DEF Around, QuietOp, Starting, Opened
<1> QED
  BY <1>1, <1>2

LEMMA ReturnsQuietly ==
  ASSUME TracyInv, Around, StopReturns
  PROVE  QuietOp /\ op'.pc \in {"idle", "failed"} /\ (op'.bad => op'.pc = "failed")
<1>1. TracyTypeOK
  BY DEF TracyInv
<1>2. CASE op' = NoOp
  BY <1>2, Ending, Empty
<1>3. CASE op.launching /\ Continues("failed") /\ op'.bad = op.bad
  <2>1. QuietOp
    BY <1>3, Continuing DEF Starting, Opened
  <2> QED
    BY <1>3, <2>1 DEF Continues
<1> QED
  BY <1>1, <1>2, <1>3, Returning

(* What the cleanup keeps when a step leaves the profiler's processes alone. *)
LEMMA HeldStill ==
  ASSUME Held, SlotKept, slot'.collector = slot.collector, slot'.sampler = slot.sampler,
         slot'.wake = slot.wake, rt' = rt,
         op'.pc \in Starting => slot.journal = op'.id,
         op'.pc = "runtime" /\ ~op'.unconfirmed => slot.collector = None,
         op'.pc \in {"take", "complete", "post_stop", "final"} =>
           slot.collector = None /\ ~slot.wake /\ ProfilerGone,
         op'.pc \in {"complete", "post_stop", "final"} =>
           ~slot.sampler /\ slot.experiment = None,
         op'.bad => op'.pc \in Closing \cup {"failed"}
  PROVE  Held'
BY DEF Held, SlotKept, NothingLeft, ProfilerGone, Closing

LEMMA InStarting ==
  ASSUME TracyInv, op.pc \in Starting
  PROVE  /\ TracyTypeOK /\ op.launching /\ op.bad = FALSE
         /\ slot.journal = op.id /\ slot.journal # None /\ slot.dir \in Dirs
<1>1. op.bad \in BOOLEAN /\ op.launching
  BY DEF TracyInv, TracyTypeOK, OpRecord, Numbered
<1>2. op.bad = FALSE
  BY <1>1 DEF TracyInv, Held, Starting, Closing
<1> QED
  BY <1>1, <1>2 DEF TracyInv, Held, Numbered, Tied

LEMMA HeldBusy ==
  ASSUME SlotKept, slot.journal # None, ~op'.bad, op'.pc \notin Closing,
         op'.pc \in Starting => slot.journal = op'.id
  PROVE  Held'
BY DEF Held, SlotKept, Starting, Closing

(* The same for a step of a launch that goes on, fails or stops inline.      *)
LEMMA LaunchGoes ==
  ASSUME TracyInv, op.pc \in Starting, Around, NEW label, Continues(label),
         label \in Starting \cup {"failed", "pre_stop"}, op'.bad = op.bad,
         label \in {"post_launch", "pre_stop"} => op'.check.base = slot.journal,
         label \in Opened => op.pc \in Opened
  PROVE  QuietOp /\ Held'
<1>1. QuietOp
  BY InStarting, Continuing DEF Starting
<1>2. Held'
  BY InStarting, HeldBusy DEF Around, Continues, Starting, Closing
<1> QED
  BY <1>1, <1>2

LEMMA LaunchStops ==
  ASSUME TracyInv, op.pc \in Starting, Around, ToStop(op)
  PROVE  QuietOp /\ Held'
<1>1. QuietOp /\ op'.pc = "pre_stop" /\ op'.bad = FALSE
  BY StopAfter
<1>2. Held'
  BY <1>1, InStarting, HeldBusy DEF Around, Starting, Closing
<1> QED
  BY <1>1, <1>2

LEMMA RuntimeStopped ==
  ASSUME RuntimeStops \/ RuntimeSticks
  PROVE  rt' \in RuntimeRecord
<1>1. StoppedRuntime \in RuntimeRecord /\ StuckRuntime \in RuntimeRecord
  BY DEF StoppedRuntime, StuckRuntime, RuntimeRecord
<1> QED
  BY <1>1 DEF RuntimeStops, RuntimeSticks

LEMMA CollectorStep ==
  ASSUME TracyInv, LaunchCollector
  PROVE  QuietOp /\ Held'
<1>0. op.pc \in Starting /\ op.pc \in Opened
  BY DEF LaunchCollector, Starting, Opened
<1>1. TracyTypeOK /\ op.id \in SessionOrNone
  BY <1>0, InStarting DEF TracyTypeOK, OpRecord
<1>2. DiskKept /\ BasesGain(slot.journal)
      /\ UNCHANGED <<launches, files, edited, calls, overtaken>>
  BY <1>1, DiskStays DEF LaunchCollector
<1>3. CASE Goto("connect") /\ slot' = [slot EXCEPT !.collector = op.id] /\ UNCHANGED rt
  <2>1. Continues("connect") /\ op'.bad = op.bad
    BY <1>1, <1>3, Going DEF OpLabels, Starting
  <2>2. Around
    BY <1>1, <1>2, <1>3, SlotCollector DEF Around, TracyTypeOK
  <2> QED
    BY <1>0, <2>1, <2>2, LaunchGoes DEF Starting
<1>4. CASE Goto("failed") /\ (RuntimeStops \/ RuntimeSticks) /\ UNCHANGED slot
  <2>1. Continues("failed") /\ op'.bad = op.bad
    BY <1>1, <1>4, Going DEF OpLabels
  <2>2. Around
    BY <1>1, <1>2, <1>4, SlotStays, RuntimeStopped DEF Around
  <2> QED
    BY <1>0, <2>1, <2>2, LaunchGoes DEF Opened
<1> QED
  BY <1>3, <1>4 DEF LaunchCollector

LEMMA ConnectStep ==
  ASSUME TracyInv, LaunchConnect
  PROVE  QuietOp /\ Held'
<1>0. op.pc \in Starting /\ op.pc \in Opened
  BY DEF LaunchConnect, Starting, Opened
<1>1. TracyTypeOK
  BY <1>0, InStarting
<1>2. rt' \in RuntimeRecord
  BY <1>1, RuntimeStopped DEF LaunchConnect, TracyTypeOK
<1>3. Around
  BY <1>1, <1>2, DiskStays, SlotStays DEF Around, LaunchConnect
<1>4. CASE Goto("manifest")
  <2>1. Continues("manifest") /\ op'.bad = op.bad
    BY <1>1, <1>4, Going DEF OpLabels, Starting
  <2> QED
    BY <1>0, <1>3, <2>1, LaunchGoes DEF Starting
<1>5. CASE Goto("failed")
  <2>1. Continues("failed") /\ op'.bad = op.bad
    BY <1>1, <1>5, Going DEF OpLabels
  <2> QED
    BY <1>0, <1>3, <2>1, LaunchGoes DEF Opened
<1> QED
  BY <1>4, <1>5 DEF LaunchConnect

LEMMA WakeStep ==
  ASSUME TracyInv, LaunchWake
  PROVE  QuietOp /\ Held'
<1>0. op.pc \in Starting
  BY DEF LaunchWake, Starting
<1>1. TracyTypeOK
  BY <1>0, InStarting
<1>2. SlotKept
  BY <1>1, SlotStays, SlotWake DEF LaunchWake
<1>3. Around
  BY <1>1, <1>2, DiskStays DEF Around, LaunchWake, TracyTypeOK
<1>4. CASE ToCheck("post_launch")
  <2>1. Continues("post_launch") /\ op'.bad = op.bad /\ op'.check.base = slot.journal
    BY <1>1, <1>4, Checking DEF OpLabels, Starting
  <2> QED
    BY <1>0, <1>3, <2>1, LaunchGoes DEF Starting, Opened
<1>5. CASE Goto("client")
  <2>1. Continues("client") /\ op'.bad = op.bad
    BY <1>1, <1>5, Going DEF OpLabels, Starting
  <2> QED
    BY <1>0, <1>3, <2>1, LaunchGoes DEF Starting, Opened
<1>6. CASE Goto("failed")
  <2>1. Continues("failed") /\ op'.bad = op.bad
    BY <1>1, <1>6, Going DEF OpLabels
  <2> QED
    BY <1>0, <1>3, <2>1, LaunchGoes DEF Opened
<1> QED
  BY <1>0, <1>3, <1>4, <1>5, <1>6, LaunchStops DEF LaunchWake

LEMMA ClientStep ==
  ASSUME TracyInv, LaunchClient
  PROVE  QuietOp /\ Held'
<1>0. op.pc \in Starting
  BY DEF LaunchClient, Starting
<1>1. TracyTypeOK
  BY <1>0, InStarting
<1>3. Around
  BY <1>1, DiskStays, SlotStays DEF Around, LaunchClient, TracyTypeOK
<1>4. CASE ToCheck("post_launch")
  <2>1. Continues("post_launch") /\ op'.bad = op.bad /\ op'.check.base = slot.journal
    BY <1>1, <1>4, Checking DEF OpLabels, Starting
  <2> QED
    BY <1>0, <1>3, <2>1, LaunchGoes DEF Starting, Opened
<1> QED
  BY <1>0, <1>3, <1>4, LaunchStops DEF LaunchClient

LEMMA ReadyStep ==
  ASSUME TracyInv, LaunchReady
  PROVE  QuietOp /\ Held'
<1>0. op.pc \in Starting /\ op.check.base = slot.journal
  BY DEF LaunchReady, Starting, TracyInv, Tied
<1>1. TracyTypeOK /\ slot.journal # None /\ slot.dir \in Dirs /\ op.check \in CheckRecord
  BY <1>0, InStarting DEF TracyTypeOK, OpRecord
<1>2. DiskKept /\ BasesGain(slot.journal)
  BY <1>0, <1>1, Recording DEF LaunchReady
<1>3. Around
  BY <1>1, <1>2, SlotStays DEF Around, LaunchReady, TracyTypeOK
<1>4. op' = NoOp
  BY DEF LaunchReady
<1>5. Held'
  BY <1>1, <1>3, <1>4, HeldBusy, Empty DEF Around, Starting, Closing
<1> QED
  BY <1>3, <1>4, <1>5, Ending

LEMMA DirtyStep ==
  ASSUME TracyInv, LaunchDirty
  PROVE  QuietOp /\ Held'
<1>0. op.pc \in Starting
  BY DEF LaunchDirty, Starting
<1>1. TracyTypeOK
  BY <1>0, InStarting
<1>3. Around
  BY <1>1, DiskStays, SlotStays DEF Around, LaunchDirty, TracyTypeOK
<1>4. Continues("failed") /\ op'.bad = op.bad
  BY <1>1, Going DEF OpLabels, LaunchDirty
<1> QED
  BY <1>0, <1>3, <1>4, LaunchGoes DEF Opened

LEMMA FailedStep ==
  ASSUME TracyInv, LaunchFailed
  PROVE  QuietOp /\ Held'
<1>1. TracyTypeOK /\ Held
  BY DEF TracyInv
<1>2. Around
  BY <1>1, DiskStays, SlotStays DEF Around, LaunchFailed, TracyTypeOK
<1>3. QuietOp /\ op'.pc \in {"idle", "pre_stop"} /\ ~op'.bad
  BY <1>2, StopAfter, Ending, Empty DEF LaunchFailed
<1>4. Held'
  BY <1>1, <1>2, <1>3, HeldStill DEF Around, LaunchFailed, Starting, Closing
<1> QED
  BY <1>3, <1>4

LEMMA BeginStopStep ==
  ASSUME TracyInv, StopBegin
  PROVE  QuietOp /\ Held'
<1>1. TracyTypeOK /\ Held
  BY DEF TracyInv
<1>2. Around
  BY <1>1, DiskStays, SlotStays DEF Around, StopBegin, TracyTypeOK
<1>3. QuietOp /\ op'.pc = "pre_stop" /\ op'.bad = FALSE
  BY <1>2, StopAfter DEF StopBegin
<1>4. Held'
  BY <1>1, <1>2, <1>3, HeldStill DEF Around, StopBegin, Starting
<1> QED
  BY <1>3, <1>4

LEMMA StopChecked ==
  ASSUME NEW o \in OpRecord, NEW label \in OpLabels, NEW bad \in BOOLEAN
  PROVE  /\ [o EXCEPT !.pc = label, !.check = NoCheck, !.bad = bad] \in OpRecord
<1> DEFINE m == [o EXCEPT !.pc = label, !.check = NoCheck]
<1>1. m \in OpRecord
  BY CheckSet, Empty
<1>2. [o EXCEPT !.pc = label, !.check = NoCheck, !.bad = bad] = [m EXCEPT !.bad = bad]
  OBVIOUS
<1> HIDE DEF m
<1> QED
  BY <1>1, <1>2, OpField

LEMMA StopCheckStep ==
  ASSUME TracyInv, StopCheck
  PROVE  QuietOp /\ Held'
<1> DEFINE fails == op.check.base # None /\ Violates(op.check)
           label == IF op.pc = "pre_stop" THEN "cancel" ELSE "final"
<1>1. /\ TracyTypeOK /\ Held /\ op \in OpRecord /\ op.check \in CheckRecord
      /\ op.bad \in BOOLEAN /\ op.check.base = slot.journal
      /\ slot.journal # None => slot.dir \in Dirs
      /\ op.pc \in {"pre_stop", "post_stop"}
  BY DEF TracyInv, TracyTypeOK, OpRecord, Tied, StopCheck
<1>2. DiskKept /\ BasesGain(slot.journal)
  <2>1. disk' = disk \/ RecordCheck(op.check)
    BY DEF StopCheck
  <2> QED
    BY <1>1, <2>1, DiskStays, Recording
<1>3. Around
  BY <1>1, <1>2, SlotStays DEF Around, StopCheck, TracyTypeOK
<1>4. op' = [op EXCEPT !.pc = label, !.check = NoCheck, !.bad = op.bad \/ fails]
  BY <1>1 DEF StopCheck, OpRecord
<1>5. label \in OpLabels /\ label \in {"cancel", "final"}
      /\ (label = "final" <=> op.pc = "post_stop") /\ (op.bad \/ fails) \in BOOLEAN
  BY <1>1 DEF OpLabels, Closing
<1> HIDE DEF label, fails
<1>6. op' \in OpRecord
  BY <1>1, <1>4, <1>5, StopChecked
<1>7. Continues(label)
  BY <1>1, <1>4, <1>6 DEF Continues, OpRecord
<1>8. QuietOp
  BY <1>3, <1>5, <1>7, Continuing DEF Starting, Opened
<1>9. Held'
  BY <1>1, <1>3, <1>5, <1>7, HeldStill
  DEF Around, StopCheck, Starting, Closing, Continues, Held
<1> QED
  BY <1>8, <1>9

LEMMA WaitedStep ==
  ASSUME TracyInv, StopWaited
  PROVE  QuietOp /\ Held'
<1>1. TracyTypeOK /\ Held
  BY DEF TracyInv
<1>2. Around
  BY <1>1, DiskStays, SlotStays DEF Around, StopWaited, TracyTypeOK
<1>3. Continues("collector") /\ op'.bad = op.bad
  BY <1>1, Going DEF OpLabels, Closing, StopWaited
<1>4. QuietOp
  BY <1>2, <1>3, Continuing DEF Starting, Opened
<1>5. Held'
  BY <1>1, <1>2, <1>3, HeldStill DEF Around, StopWaited, Starting, Closing, Continues
<1> QED
  BY <1>4, <1>5

LEMMA ClosedCollector ==
  ASSUME NEW o \in OpRecord, NEW v \in BOOLEAN
  PROVE  [o EXCEPT !.pc = "runtime", !.unconfirmed = v] \in OpRecord
<1> DEFINE m == [o EXCEPT !.pc = "runtime"]
<1>1. m \in OpRecord
  BY OpField DEF OpLabels, Closing
<1>2. [o EXCEPT !.pc = "runtime", !.unconfirmed = v] = [m EXCEPT !.unconfirmed = v]
  OBVIOUS
<1> HIDE DEF m
<1> QED
  BY <1>1, <1>2, OpField

LEMMA StopCollectorStep ==
  ASSUME TracyInv, StopCollector
  PROVE  QuietOp /\ Held'
<1>1. TracyTypeOK /\ Held /\ op \in OpRecord /\ op.pc = "collector"
  BY DEF TracyInv, TracyTypeOK, StopCollector
<1>2. CASE slot' = [slot EXCEPT !.collector = None]
           /\ op' = [op EXCEPT !.pc = "runtime", !.unconfirmed = FALSE]
  <2>1. SlotKept /\ slot'.collector = None /\ slot'.sampler = slot.sampler
        /\ slot'.wake = slot.wake
    BY <1>1, <1>2, SlotCollector, Empty
  <2>2. op' \in OpRecord
    BY <1>1, <1>2, ClosedCollector
  <2>3. Continues("runtime") /\ op'.bad = op.bad
    BY <1>1, <1>2, <2>2 DEF Continues, OpRecord
  <2>4. Around
    BY <1>1, <2>1, DiskStays DEF Around, StopCollector, TracyTypeOK
  <2>5. QuietOp
    BY <2>3, <2>4, Continuing DEF Starting, Opened
  <2>6. Held'
    BY <1>1, <2>1, <2>3
    DEF StopCollector, Held, SlotKept, NothingLeft, ProfilerGone, Continues, Starting,
        Closing
  <2> QED
    BY <2>5, <2>6
<1>3. CASE slot' = slot /\ op' = [op EXCEPT !.pc = "runtime", !.unconfirmed = TRUE]
  <2>1. SlotKept
    BY <1>1, <1>3, SlotStays
  <2>2. op' \in OpRecord
    BY <1>1, <1>3, ClosedCollector
  <2>3. Continues("runtime") /\ op'.bad = op.bad /\ op'.unconfirmed = TRUE
    BY <1>1, <1>3, <2>2 DEF Continues, OpRecord
  <2>4. Around
    BY <1>1, <2>1, DiskStays DEF Around, StopCollector, TracyTypeOK
  <2>5. QuietOp
    BY <2>3, <2>4, Continuing DEF Starting, Opened
  <2>6. Held'
    BY <1>1, <1>3, <2>1, <2>3, HeldStill
    DEF StopCollector, Continues, Starting, Closing
  <2> QED
    BY <2>5, <2>6
<1> QED
  BY <1>2, <1>3 DEF StopCollector

LEMMA TakeNext ==
  ASSUME NEW o \in OpRecord, NEW v \in BOOLEAN
  PROVE  [o EXCEPT !.pc = "take", !.profiled = v] \in OpRecord
<1> DEFINE m == [o EXCEPT !.pc = "take"]
<1>1. m \in OpRecord
  BY OpField DEF OpLabels, Closing
<1>2. [o EXCEPT !.pc = "take", !.profiled = v] = [m EXCEPT !.profiled = v]
  OBVIOUS
<1> HIDE DEF m
<1> QED
  BY <1>1, <1>2, OpField

(* Whatever StopRuntime does to the runtime, none of the profiler's is left  *)
(* running unless its cleanup failed, and then the stop returns.             *)
LEMMA StopRuntimeStep ==
  ASSUME TracyInv, StopRuntime
  PROVE  QuietOp /\ Held'
<1>1. TracyTypeOK /\ Held /\ op \in OpRecord /\ op.pc = "runtime" /\ rt \in RuntimeRecord
  BY DEF TracyInv, TracyTypeOK, StopRuntime
<1>2. SlotKept /\ slot'.wake = FALSE /\ slot'.collector = slot.collector
      /\ slot'.sampler = slot.sampler
  BY <1>1, SlotWake DEF StopRuntime
<1>3. CASE /\ CASE rt.running /\ rt.kind = "tracy" -> RuntimeStops
                [] rt.running /\ rt.kind # "tracy" -> UNCHANGED rt
                [] OTHER -> rt' = [rt EXCEPT !.dirty = FALSE]
           /\ IF op.unconfirmed THEN StopReturns
              ELSE op' = [op EXCEPT !.pc = "take", !.profiled = rt.kind = "tracy"]
  <2>1. rt' \in RuntimeRecord /\ ProfilerGone'
    <3>1. CASE rt.running /\ rt.kind = "tracy"
      BY <1>3, <3>1, RuntimeStopped DEF RuntimeStops, StoppedRuntime, ProfilerGone
    <3>2. CASE rt.running /\ rt.kind # "tracy"
      BY <1>1, <1>3, <3>2 DEF ProfilerGone
    <3>3. CASE ~rt.running
      <4>1. rt' = [rt EXCEPT !.dirty = FALSE]
        BY <1>3, <3>3
      <4> QED
        BY <1>1, <3>3, <4>1 DEF RuntimeRecord, ProfilerGone
    <3> QED
      BY <3>1, <3>2, <3>3
  <2>2. Around
    BY <1>1, <1>2, <2>1, DiskStays DEF Around, StopRuntime
  <2>3. CASE op.unconfirmed /\ StopReturns
    <3>1. QuietOp /\ op'.pc \in {"idle", "failed"} /\ (op'.bad => op'.pc = "failed")
      BY <2>2, <2>3, ReturnsQuietly
    <3>2. Held'
      BY <1>1, <1>2, <2>1, <3>1 DEF Held, SlotKept, NothingLeft, Starting, Closing
    <3> QED
      BY <3>1, <3>2
  <2>4. CASE ~op.unconfirmed /\ op' = [op EXCEPT !.pc = "take", !.profiled = rt.kind = "tracy"]
    <3>1. op' \in OpRecord
      BY <1>1, <2>4, TakeNext
    <3>2. Continues("take")
      BY <1>1, <2>4, <3>1 DEF Continues, OpRecord
    <3>3. QuietOp
      BY <2>2, <3>2, Continuing DEF Starting, Opened
    <3>4. Held'
      BY <1>1, <1>2, <2>1, <2>4, <3>2
      DEF Held, SlotKept, NothingLeft, Starting, Closing, Continues
    <3> QED
      BY <3>3, <3>4
  <2> QED
    BY <1>3, <2>3, <2>4
<1>4. CASE /\ rt.running => rt.kind = "tracy"
           /\ rt' = IF rt.running THEN StuckRuntime ELSE rt
           /\ StopReturns
  <2>1. rt' \in RuntimeRecord
    BY <1>1, <1>4 DEF StuckRuntime, RuntimeRecord
  <2>2. Around
    BY <1>1, <1>2, <2>1, DiskStays DEF Around, StopRuntime
  <2>3. QuietOp /\ op'.pc \in {"idle", "failed"} /\ (op'.bad => op'.pc = "failed")
    BY <1>4, <2>2, ReturnsQuietly
  <2>4. slot.journal = None => ProfilerGone'
    BY <1>1, <1>4 DEF Held, NothingLeft, ProfilerGone
  <2>5. Held'
    BY <1>1, <1>2, <2>3, <2>4 DEF Held, SlotKept, NothingLeft, Starting, Closing
  <2> QED
    BY <2>3, <2>5
<1> QED
  BY <1>3, <1>4 DEF StopRuntime

(* All of them at once.                                                      *)
Quietly ==
  \/ LaunchRun \/ LaunchCollector \/ LaunchConnect \/ LaunchWake \/ LaunchClient
  \/ LaunchReady \/ LaunchDirty \/ LaunchFailed
  \/ StopBegin \/ StopCheck \/ StopWaited \/ StopCollector \/ StopRuntime

LEMMA QuietStep ==
  ASSUME TracyInv, Quietly
  PROVE  QuietOp /\ Held'
BY RunStep, CollectorStep, ConnectStep, WakeStep, ClientStep, ReadyStep, DirtyStep,
   FailedStep, BeginStopStep, StopCheckStep, WaitedStep, StopCollectorStep,
   StopRuntimeStep DEF Quietly

(* A quiet step keeps what relates journals, traces and requests.            *)
LEMMA QuietNumbered ==
  ASSUME TracyInv, QuietOp
  PROVE  TracyTypeOK' /\ Numbered' /\ Fresh'
<1>1. TracyTypeOK'
  BY DEF TracyInv, TracyTypeOK, QuietOp, SlotKept, DiskKept
<1>2. Numbered'
  <2>1. /\ slot'.journal <= launches' /\ slot'.experiment \in {None, slot'.journal}
        /\ op'.launching => op'.id = launches' /\ op'.id # None
        /\ op'.pc \in Starting \cup {"pre_launch"} => op'.launching
    BY DEF TracyInv, Numbered, QuietOp, SlotKept
  <2>2. op'.experiment <= launches'
    BY DEF TracyInv, TracyTypeOK, Numbered, QuietOp, None
  <2>3. \A c \in Calls :
          /\ calls'[c].pc \in Bound \cup {"collector", "bind"} => calls'[c].key \in Keys
          /\ IsBound(c)' => calls'[c].exp \in 1 .. launches'
          /\ ~IsBound(c)' => calls'[c].exp = None
    BY DEF TracyInv, Numbered, QuietOp, IsBound
  <2>4. /\ \A f \in files' : f.sess <= launches'
        /\ \A d \in Dirs : disk'[d].complete <= launches'
    BY DEF TracyInv, Numbered, QuietOp, DiskKept
  <2> QED
    BY <2>1, <2>2, <2>3, <2>4 DEF Numbered
<1>3. Fresh'
  BY DEF TracyInv, Fresh, QuietOp, SlotKept, DiskKept, Unopened, Opened
<1> QED
  BY <1>1, <1>2, <1>3

LEMMA QuietTied ==
  ASSUME TracyInv, QuietOp
  PROVE  Tied'
<1>1. /\ slot'.journal # None => slot'.dir \in Dirs
      /\ op'.pc # "pre_launch"
      /\ op'.pc \in {"post_launch", "pre_stop", "post_stop"} => op'.check.base = slot'.journal
      /\ op'.pc # "complete"
  BY DEF TracyInv, Tied, QuietOp, SlotKept
<1>2. \A d \in Dirs : None \notin disk'[d].bases
  BY DEF TracyInv, Tied, QuietOp, BasesGain
<1>3. \A c \in Calls : IsBound(c)' => calls'[c].exp <= slot'.journal \/ slot'.journal = None
  BY DEF TracyInv, Tied, QuietOp, SlotKept, IsBound
<1>5. \A c \in Calls : calls'[c].pc \in {"pre_capture", "post_capture"} => BaseSound(c)'
  BY DEF TracyInv, Tied, QuietOp, SlotKept, BaseSound, LateBase
<1>4. JournalTied'
  <2>1. slot'.journal # None => /\ disk'[slot'.dir].journal = slot'.journal
                                /\ disk'[slot'.dir].status = "active"
    BY <1>1 DEF TracyInv, Tied, JournalTied, QuietOp, SlotKept, DiskKept
  <2>2. \A d \in Dirs : \A b \in disk'[d].bases : b = disk'[d].journal \/ LateBase(b)'
    BY DEF TracyInv, Tied, JournalTied, QuietOp, SlotKept, DiskKept, BasesGain,
           LateBase
  <2> QED
    BY <2>1, <2>2 DEF JournalTied, LateBase
<1> QED
  BY <1>1, <1>2, <1>3, <1>4, <1>5 DEF Tied

LEMMA QuietRecords ==
  ASSUME TracyInv, QuietOp
  PROVE  Manifested' /\ Once'
<1>1. Manifested'
  <2>1. /\ \A c \in Calls : IsBound(c)' => Passed(c)' \/ calls'[c].exp = slot'.experiment
        /\ op'.pc # "complete"
    BY DEF TracyInv, Manifested, QuietOp, SlotKept, IsBound, Passed
  <2>2. /\ \A c \in Calls : calls'[c].pc = "record" => Trace(c)' \in files'
        /\ \A f \in files' :
             \/ OldTrace(f)' \/ f.sess # slot'.experiment \/ f \in slot'.records
             \/ \E c \in Calls : calls'[c].pc = "record" /\ Trace(c)' = f
        /\ \A f \in slot'.records :
             f \in files' /\ (OldTrace(f)' \/ f.sess = slot'.experiment)
    BY DEF TracyInv, Manifested, QuietOp, SlotKept, OldTrace, Trace
  <2>3. \A d \in Dirs : disk'[d].complete # None => disk'[d].complete # slot'.experiment
    BY DEF TracyInv, Manifested, QuietOp, SlotKept, DiskKept
  <2>4. \A d \in Dirs : Exact(d)'
    BY DEF TracyInv, Manifested, Exact, QuietOp, DiskKept, OldTrace
  <2> QED
    BY <2>1, <2>2, <2>3, <2>4 DEF Manifested
<1>2. Once'
  BY DEF TracyInv, Once, OneWindow, InWindow, QuietOp, SlotKept, Passed, OldTrace,
         Repeats
<1> QED
  BY <1>1, <1>2

-----------------------------------------------------------------------------
(* What opens and closes a session                                           *)

LEMMA BeginEffect ==
  ASSUME TracyInv, NEW d \in Dirs, LaunchBegin(d)
  PROVE  /\ launches' = launches + 1 /\ launches' \in Session
         /\ op' \in OpRecord /\ op'.pc = "pre_launch" /\ op'.launching = TRUE
         /\ op'.id = launches' /\ op'.dir = d /\ op'.experiment = None /\ op'.bad = FALSE
         /\ disk' \in [Dirs -> DiskRecord]
         /\ disk'[d].journal = launches' /\ disk'[d].status = "active"
         /\ disk'[d].bases = {}
         /\ \A x \in Dirs : x # d => disk'[x] = disk[x]
         /\ \A x \in Dirs : disk'[x].complete = disk[x].complete
                            /\ disk'[x].captures = disk[x].captures
<1>0. /\ TracyTypeOK /\ disk[d] \in DiskRecord /\ slot.journal \in SessionOrNone
      /\ launches' = launches + 1 /\ launches' \in Session /\ launches' \in SessionOrNone
      /\ d \in Dirs \cup {NoDir}
  BY TracyAssumption
  DEF TracyInv, TracyTypeOK, SlotRecord, LaunchBegin, Session, SessionOrNone
<1>1. op' \in OpRecord /\ op'.pc = "pre_launch" /\ op'.launching = TRUE
      /\ op'.id = launches' /\ op'.dir = d /\ op'.experiment = None /\ op'.bad = FALSE
  <2> DEFINE k0 == [NoCheck EXCEPT !.snap = Workspace]
             k == [k0 EXCEPT !.base = launches']
             o1 == [NoOp EXCEPT !.pc = "pre_launch"]
             o2 == [o1 EXCEPT !.launching = TRUE]
             o3 == [o2 EXCEPT !.dir = d]
             o4 == [o3 EXCEPT !.id = launches']
             o5 == [o4 EXCEPT !.prior = slot.journal]
             o6 == [o5 EXCEPT !.check = k]
  <2>1. k0 \in CheckRecord
    BY <1>0, Seen, Empty DEF CheckRecord
  <2>2. k \in CheckRecord
    BY <1>0, <2>1 DEF CheckRecord
  <2>3. op' = o6
    <3>1. op' = [NoOp EXCEPT !.pc = "pre_launch", !.launching = TRUE, !.dir = d,
                             !.id = launches', !.prior = slot.journal,
                             !.check.snap = Workspace, !.check.base = launches']
      BY <1>0 DEF LaunchBegin
    <3>2. o5.check = NoCheck
      BY DEF NoOp
    <3>3. op' = [o5 EXCEPT !.check.snap = Workspace, !.check.base = launches']
      BY <3>1
    <3> HIDE DEF o5
    <3>4. [o5 EXCEPT !.check.snap = Workspace, !.check.base = launches']
          = [o5 EXCEPT !.check = [[o5.check EXCEPT !.snap = Workspace] EXCEPT !.base = launches']]
      OBVIOUS
    <3> QED
      BY <3>2, <3>3, <3>4
  <2>4. NoOp.bad = FALSE /\ NoOp.experiment = None /\ NoOp \in OpRecord
    BY Empty
  <2> HIDE DEF k, k0
  <2>5. o1 \in OpRecord
    BY <2>4, OpField DEF OpLabels
  <2>6. o1.pc = "pre_launch" /\ o1.bad = FALSE /\ o1.experiment = None
    BY <2>4 DEF OpRecord
  <2> HIDE DEF o1
  <2>7. o2 \in OpRecord
    BY <2>5, OpField
  <2>8. o2.pc = "pre_launch" /\ o2.bad = FALSE /\ o2.experiment = None /\ o2.launching = TRUE
    BY <2>5, <2>6 DEF OpRecord
  <2> HIDE DEF o2
  <2>9. o3 \in OpRecord
    BY <1>0, <2>7, OpField
  <2>10. /\ o3.pc = "pre_launch" /\ o3.bad = FALSE /\ o3.experiment = None
         /\ o3.launching = TRUE /\ o3.dir = d
    BY <2>7, <2>8 DEF OpRecord
  <2> HIDE DEF o3
  <2>11. o4 \in OpRecord
    BY <1>0, <2>9, OpField
  <2>12. /\ o4.pc = "pre_launch" /\ o4.bad = FALSE /\ o4.experiment = None
         /\ o4.launching = TRUE /\ o4.dir = d /\ o4.id = launches'
    BY <2>9, <2>10 DEF OpRecord
  <2> HIDE DEF o4
  <2>13. o5 \in OpRecord
    BY <1>0, <2>11, OpField
  <2>14. /\ o5.pc = "pre_launch" /\ o5.bad = FALSE /\ o5.experiment = None
         /\ o5.launching = TRUE /\ o5.dir = d /\ o5.id = launches'
    BY <2>11, <2>12 DEF OpRecord
  <2> HIDE DEF o5
  <2>15. o6 \in OpRecord
    BY <2>2, <2>13, OpField
  <2>16. /\ o6.pc = "pre_launch" /\ o6.bad = FALSE /\ o6.experiment = None
         /\ o6.launching = TRUE /\ o6.dir = d /\ o6.id = launches'
    BY <2>13, <2>14 DEF OpRecord
  <2> HIDE DEF o6
  <2> QED
    BY <2>3, <2>15, <2>16
<1>2. /\ disk' \in [Dirs -> DiskRecord]
      /\ disk'[d].journal = launches' /\ disk'[d].status = "active" /\ disk'[d].bases = {}
      /\ \A x \in Dirs : x # d => disk'[x] = disk[x]
      /\ disk'[d].complete = disk[d].complete /\ disk'[d].captures = disk[d].captures
  <2> DEFINE r1 == [disk[d] EXCEPT !.journal = launches']
             r2 == [r1 EXCEPT !.status = "active"]
             r3 == [r2 EXCEPT !.bases = {}]
  <2>1. disk' = [disk EXCEPT ![d] = r3]
    BY <1>0 DEF LaunchBegin
  <2>2. r1 \in DiskRecord
    BY <1>0, DiskField
  <2>3. r1.journal = launches' /\ r1.complete = disk[d].complete
        /\ r1.captures = disk[d].captures
    BY <1>0 DEF DiskRecord
  <2> HIDE DEF r1
  <2>4. r2 \in DiskRecord
    BY <2>2, DiskField
  <2>5. r2.journal = launches' /\ r2.status = "active" /\ r2.complete = disk[d].complete
        /\ r2.captures = disk[d].captures
    BY <2>2, <2>3 DEF DiskRecord
  <2> HIDE DEF r2
  <2>6. r3 \in DiskRecord
    BY <2>4, DiskField
  <2>7. /\ r3.journal = launches' /\ r3.status = "active" /\ r3.complete = disk[d].complete
        /\ r3.captures = disk[d].captures /\ r3.bases = {}
    BY <2>4, <2>5 DEF DiskRecord
  <2> HIDE DEF r3
  <2> QED
    BY <1>0, <2>1, <2>6, <2>7 DEF TracyTypeOK
<1> QED
  BY <1>0, <1>1, <1>2

LEMMA BeginStep ==
  ASSUME TracyInv, NEW d \in Dirs, LaunchBegin(d)
  PROVE  TracyInv'
<1>1. /\ launches' = launches + 1 /\ launches' \in Session
      /\ op' \in OpRecord /\ op'.pc = "pre_launch" /\ op'.launching = TRUE
      /\ op'.id = launches' /\ op'.dir = d /\ op'.experiment = None /\ op'.bad = FALSE
      /\ disk' \in [Dirs -> DiskRecord]
      /\ disk'[d].journal = launches' /\ disk'[d].status = "active" /\ disk'[d].bases = {}
      /\ \A x \in Dirs : x # d => disk'[x] = disk[x]
      /\ \A x \in Dirs : disk'[x].complete = disk[x].complete
                         /\ disk'[x].captures = disk[x].captures
  BY BeginEffect
<1>2. UNCHANGED <<slot, rt, files, edited, calls, overtaken>> /\ disk[d].status # "active"
  BY DEF LaunchBegin, MayReplace
<1>3. TracyTypeOK /\ launches \in Nat /\ launches' \in 0 .. MaxSessions
  BY <1>1, TracyAssumption DEF TracyInv, TracyTypeOK, Session
<1>4. TracyTypeOK'
  BY <1>1, <1>2, <1>3 DEF TracyTypeOK
<1>5. Held'
  BY <1>1, <1>2 DEF TracyInv, Held, NothingLeft, ProfilerGone, Starting
<1>6. /\ slot.journal \in 0 .. launches
      /\ \A c \in Calls : calls[c].exp \in 0 .. launches
      /\ \A f \in files : f.sess \in 0 .. launches
      /\ \A x \in Dirs : disk[x].complete \in 0 .. launches
      /\ slot.experiment \in 0 .. launches
  <2>1. \A c \in Calls : calls[c].exp \in 0 .. launches
    BY <1>3 DEF TracyInv, Numbered, None
  <2>2. \A f \in files : f.sess \in Session
    BY DEF TracyInv, TracyTypeOK, TraceRecord
  <2>3. \A x \in Dirs : disk[x].complete \in SessionOrNone
    BY DEF TracyInv, TracyTypeOK, DiskRecord
  <2>4. slot.journal \in SessionOrNone
    BY DEF TracyInv, TracyTypeOK, SlotRecord
  <2> QED
    BY <1>3, <2>1, <2>2, <2>3, <2>4, TracyAssumption
    DEF TracyInv, Numbered, SessionOrNone, Session, None
<1>7. Numbered'
  <2>1. \A c \in Calls : IsBound(c)' = IsBound(c)
    BY <1>2 DEF IsBound
  <2>2. \A c \in Calls :
          /\ calls'[c].pc \in Bound \cup {"collector", "bind"} => calls'[c].key \in Keys
          /\ IsBound(c)' => calls'[c].exp \in 1 .. launches'
          /\ ~IsBound(c)' => calls'[c].exp = None
    BY <1>1, <1>2, <1>3, <2>1 DEF TracyInv, Numbered
  <2>3. /\ slot'.journal <= launches' /\ slot'.experiment \in {None, slot'.journal}
        /\ \A f \in files' : f.sess <= launches'
        /\ \A x \in Dirs : disk'[x].complete <= launches'
    BY <1>1, <1>2, <1>3, <1>6 DEF TracyInv, Numbered
  <2>4. op'.experiment <= launches' /\ op'.id # None
    BY <1>1, <1>3 DEF None
  <2> QED
    BY <1>1, <2>2, <2>3, <2>4 DEF Numbered, Starting
<1>8. Fresh'
  BY <1>1, <1>2, <1>3, <1>6 DEF Fresh, None
<1>9. Tied'
  <2>1. slot.journal # None => slot.dir # d
    BY <1>2 DEF TracyInv, Tied, JournalTied
  <2>2. JournalTied'
    BY <1>1, <1>2, <2>1 DEF TracyInv, Tied, JournalTied
  <2>3. \A x \in Dirs : None \notin disk'[x].bases
    BY <1>1 DEF TracyInv, Tied
  <2>4. /\ \A c \in Calls : IsBound(c)' =>
             calls'[c].exp <= slot'.journal \/ slot'.journal = None
        /\ \A c \in Calls : calls'[c].pc \in {"pre_capture", "post_capture"} => BaseSound(c)'
    BY <1>2 DEF TracyInv, Tied, IsBound, BaseSound, LateBase
  <2> QED
    BY <1>1, <1>2, <1>3, <1>6, <2>2, <2>3, <2>4 DEF Tied, TracyInv
<1>10. Manifested'
  <2>1. \A x \in Dirs : Exact(x)'
    BY <1>1, <1>2 DEF TracyInv, Manifested, Exact, OldTrace
  <2> QED
    BY <1>1, <1>2, <2>1 DEF TracyInv, Manifested, IsBound, Passed, OldTrace, Trace
<1>11. Once'
  BY <1>2 DEF TracyInv, Once, OneWindow, InWindow, Passed, OldTrace, Repeats
<1> QED
  BY <1>4, <1>5, <1>7, <1>8, <1>9, <1>10, <1>11 DEF TracyInv

(* Whoever is in flight at a hand-over is remembered.                        *)
LEMMA Overtaking ==
  ASSUME TracyInv, Overtake
  PROVE  /\ overtaken \subseteq overtaken'
         /\ \A c \in Calls : calls[c].pc \notin {"idle", "done"} =>
              <<calls[c].exp, calls[c].key>> \in overtaken'
BY DEF Overtake, InFlight

LEMMA InstallSet ==
  ASSUME NEW o \in SlotRecord, NEW id \in SessionOrNone, NEW d \in Dirs,
         NEW snap \in SUBSET Things
  PROVE  /\ [o EXCEPT !.journal = id, !.dir = d, !.snap = snap, !.owned = {},
                      !.experiment = None, !.used = {}, !.records = {}] \in SlotRecord
<1> DEFINE o1 == [o EXCEPT !.journal = id]
           o2 == [o1 EXCEPT !.dir = d]
           o3 == [o2 EXCEPT !.snap = snap]
           o4 == [o3 EXCEPT !.owned = {}]
           o5 == [o4 EXCEPT !.experiment = None]
           o6 == [o5 EXCEPT !.used = {}]
<1>0. [o EXCEPT !.journal = id, !.dir = d, !.snap = snap, !.owned = {},
                !.experiment = None, !.used = {}, !.records = {}] = [o6 EXCEPT !.records = {}]
  OBVIOUS
<1>1. o1 \in SlotRecord
  BY SlotField
<1> HIDE DEF o1
<1>2. o2 \in SlotRecord
  BY <1>1, SlotField
<1> HIDE DEF o2
<1>3. o3 \in SlotRecord
  BY <1>2, SlotField
<1> HIDE DEF o3
<1>4. o4 \in SlotRecord
  BY <1>3, SlotField
<1> HIDE DEF o4
<1>5. o5 \in SlotRecord
  BY <1>4, SlotField, Empty
<1> HIDE DEF o5
<1>6. o6 \in SlotRecord
  BY <1>5, SlotField
<1> HIDE DEF o6
<1> QED
  BY <1>0, <1>6, SlotField

LEMMA InstallStep ==
  ASSUME TracyInv, LaunchInstall, ~Violates(op.check)
  PROVE  TracyInv'
<1>0. /\ TracyTypeOK /\ op \in OpRecord /\ slot \in SlotRecord /\ op.pc = "pre_launch"
      /\ op.id = launches /\ op.id # None /\ op.id \in SessionOrNone
      /\ op.dir \in Dirs /\ op.check.snap \in SUBSET Things
      /\ disk[op.dir].journal = op.id /\ disk[op.dir].status = "active"
      /\ op.bad = FALSE /\ launches \in Nat
  <2>1. op.bad \in BOOLEAN
    BY DEF TracyInv, TracyTypeOK, OpRecord
  <2>2. op.bad = FALSE
    BY <2>1 DEF TracyInv, Held, Closing, LaunchInstall
  <2> QED
    BY <2>2
    DEF TracyInv, TracyTypeOK, Numbered, Tied, LaunchInstall, OpRecord, CheckRecord
<1>1. /\ slot' \in SlotRecord
      /\ slot'.journal = op.id /\ slot'.dir = op.dir /\ slot'.experiment = None
      /\ slot'.used = {} /\ slot'.records = {} /\ slot'.active = slot.active
      /\ slot'.collector = slot.collector
  <2>1. slot' = [slot EXCEPT !.journal = op.id, !.dir = op.dir, !.snap = op.check.snap,
                   !.owned = {}, !.experiment = None, !.used = {}, !.records = {}]
    BY DEF LaunchInstall, Installed
  <2>2. slot' \in SlotRecord
    BY <1>0, <2>1, InstallSet
  <2> QED
    BY <1>0, <2>1, <2>2 DEF SlotRecord
<1>2. Overtake /\ UNCHANGED <<launches, rt, files, edited, calls>>
  BY DEF LaunchInstall
<1>3. op' = [op EXCEPT !.pc = "run", !.check = NoCheck] /\ op' \in OpRecord
  <2>1. op' = [op EXCEPT !.pc = "run", !.check = NoCheck]
    BY DEF LaunchInstall
  <2>2. "run" \in OpLabels
    BY DEF OpLabels, Starting
  <2> QED
    BY <1>0, <2>1, <2>2, CheckSet, Empty
<1>4. Continues("run") /\ op'.bad = FALSE
  BY <1>0, <1>3 DEF Continues, OpRecord
<1>5. /\ disk' \in [Dirs -> DiskRecord]
      /\ \A d \in Dirs : /\ disk'[d].journal = disk[d].journal
                         /\ disk'[d].status = disk[d].status
                         /\ disk'[d].complete = disk[d].complete
                         /\ disk'[d].captures = disk[d].captures
                         /\ \A b \in disk'[d].bases :
                              b \in disk[d].bases \/ (d = op.dir /\ b = op.id)
  <2> DEFINE r == [disk[op.dir] EXCEPT !.bases = @ \cup {op.id}]
  <2>1. disk[op.dir] \in DiskRecord
    BY <1>0 DEF TracyTypeOK
  <2>2. disk[op.dir].bases \cup {op.id} \in SUBSET SessionOrNone
    BY <1>0, <2>1 DEF DiskRecord
  <2>3. r \in DiskRecord
    BY <2>1, <2>2, DiskField
  <2>4. /\ r.journal = disk[op.dir].journal /\ r.status = disk[op.dir].status
        /\ r.complete = disk[op.dir].complete /\ r.captures = disk[op.dir].captures
        /\ r.bases = disk[op.dir].bases \cup {op.id}
    BY <2>1 DEF DiskRecord
  <2>5. disk' = [disk EXCEPT ![op.dir] = r]
    BY DEF LaunchInstall
  <2> HIDE DEF r
  <2> QED
    BY <1>0, <2>1, <2>3, <2>4, <2>5 DEF TracyTypeOK
<1>6. /\ overtaken \subseteq overtaken'
      /\ \A c \in Calls : calls[c].pc \notin {"idle", "done"} => Passed(c)'
  BY <1>2, Overtaking DEF Passed
<1>7. TracyTypeOK'
  BY <1>0, <1>1, <1>2, <1>3, <1>5 DEF TracyTypeOK
<1>8. Held'
  BY <1>0, <1>1, <1>4 DEF Held, Continues, Starting
<1>9. Numbered'
  <2>1. \A c \in Calls :
          /\ calls'[c].pc \in Bound \cup {"collector", "bind"} => calls'[c].key \in Keys
          /\ IsBound(c)' => calls'[c].exp \in 1 .. launches'
          /\ ~IsBound(c)' => calls'[c].exp = None
    BY <1>2 DEF TracyInv, Numbered, IsBound
  <2>2. /\ slot'.journal <= launches' /\ slot'.experiment \in {None, slot'.journal}
        /\ op'.launching /\ op'.id = launches' /\ op'.id # None
    BY <1>0, <1>1, <1>2, <1>4 DEF Continues, TracyInv, Numbered
  <2>3. \A f \in files' : f.sess <= launches'
    BY <1>2 DEF TracyInv, Numbered
  <2>5. op'.experiment <= launches'
    BY <1>2, <1>4 DEF TracyInv, Numbered, Continues
  <2>4. \A d \in Dirs : disk'[d].complete <= launches'
    BY <1>2, <1>5 DEF TracyInv, Numbered
  <2> QED
    BY <2>1, <2>2, <2>3, <2>4, <2>5 DEF Numbered
<1>10. Fresh'
  BY <1>0, <1>1, <1>2, <1>4, <1>5 DEF TracyInv, Fresh, Continues, Unopened, Opened
<1>11. Tied'
  <2>1. \A d \in Dirs : None \notin disk'[d].bases
    BY <1>0, <1>5 DEF TracyInv, Tied
  <2>2. \A c \in Calls : IsBound(c)' => calls'[c].exp <= slot'.journal
    BY <1>0, <1>1, <1>2 DEF TracyInv, Numbered, IsBound
  <2>3. ASSUME NEW c \in Calls, calls[c].pc \in {"pre_capture", "post_capture"}
        PROVE  BaseSound(c)'
    <3>1. /\ calls[c].exp \in 1 .. launches /\ calls[c].key \in Keys
          /\ calls[c].check.base \in SessionOrNone /\ Passed(c)'
      BY <1>0, <1>6, <2>3
      DEF TracyInv, Numbered, IsBound, Bound, TracyTypeOK, CallRecord, CheckRecord
    <3>2. calls[c].check.base # None => calls[c].exp <= calls[c].check.base
      BY <2>3 DEF TracyInv, Tied, BaseSound
    <3>4. calls[c].check.base # None => calls[c].exp \in 1 .. calls[c].check.base
      BY <1>0, <3>1, <3>2, TracyAssumption DEF SessionOrNone, Session, None
    <3>5. <<calls[c].exp, calls[c].key>> \in overtaken'
      BY <1>2, <3>1 DEF Passed
    <3>3. calls[c].check.base # None => LateBase(calls[c].check.base)'
      BY <1>2, <3>1, <3>4, <3>5 DEF LateBase
    <3> QED
      BY <1>2, <3>2, <3>3 DEF BaseSound, LateBase
  <2>4. JournalTied'
    <3>0. /\ op.dir \in Dirs /\ disk[op.dir].journal = op.id /\ disk[op.dir].status = "active"
          /\ slot'.journal = op.id /\ slot'.dir = op.dir
      BY <1>0, <1>1
    <3>3. \A d \in Dirs : /\ disk'[d].journal = disk[d].journal
                          /\ disk'[d].status = disk[d].status
                          /\ \A b \in disk'[d].bases :
                               b \in disk[d].bases \/ (d = op.dir /\ b = op.id)
      BY <1>5
    <3>4. \A d \in Dirs : \A b \in disk[d].bases :
            b = disk[d].journal \/ \E s \in 1 .. b, k \in Keys : <<s, k>> \in overtaken
      BY DEF TracyInv, Tied, JournalTied
    <3>1. \A d \in Dirs : \A b \in disk'[d].bases :
            b = disk'[d].journal \/ \E s \in 1 .. b, k \in Keys : <<s, k>> \in overtaken'
      BY <1>6, <3>0, <3>3, <3>4
    <3>2. disk'[slot'.dir].journal = slot'.journal /\ disk'[slot'.dir].status = "active"
      BY <3>0, <3>3
    <3> QED
      BY <3>1, <3>2 DEF JournalTied
  <2> QED
    BY <1>0, <1>1, <1>2, <1>4, <2>1, <2>2, <2>3, <2>4 DEF Tied, Continues
<1>12. Manifested'
  <2>0. None \notin Session
    BY Empty
  <2>1. /\ \A c \in Calls : IsBound(c)' => Passed(c)'
        /\ \A c \in Calls : calls'[c].pc = "record" => Trace(c)' \in files'
    BY <1>2, <1>6 DEF TracyInv, Manifested, IsBound, Bound, Trace
  <2>2. \A f \in files' : f.sess # slot'.experiment
    BY <1>0, <1>1, <1>2, <2>0 DEF TracyTypeOK, TraceRecord
  <2>3. \A d \in Dirs : Exact(d)'
    BY <1>2, <1>5, <1>6 DEF TracyInv, Manifested, Exact, OldTrace
  <2> QED
    BY <1>1, <1>4, <2>1, <2>2, <2>3 DEF Manifested, Continues
<1>13. Once'
  <2>0. None \notin Session
    BY Empty
  <2>1. OneWindow'
    BY <1>1, <1>2 DEF TracyInv, Once, OneWindow, InWindow
  <2>2. \A f \in files' : f.sess # slot'.experiment
    BY <1>0, <1>1, <1>2, <2>0 DEF TracyTypeOK, TraceRecord
  <2>3. \A c \in Calls : calls'[c].pc \notin {"idle", "done"} => Passed(c)'
    BY <1>2, <1>6
  <2> QED
    BY <2>1, <2>2, <2>3 DEF Once, InWindow
<1> QED
  BY <1>7, <1>8, <1>9, <1>10, <1>11, <1>12, <1>13 DEF TracyInv

LEMMA SlotExperiment ==
  ASSUME TracyTypeOK, NEW v \in SessionOrNone, slot' = [slot EXCEPT !.experiment = v]
  PROVE  /\ slot' \in SlotRecord
         /\ slot'.journal = slot.journal /\ slot'.dir = slot.dir
         /\ slot'.experiment = v /\ slot'.used = slot.used
         /\ slot'.records = slot.records /\ slot'.active = slot.active
<1>1. slot \in SlotRecord /\ slot' \in SlotRecord
  BY SlotField DEF TracyTypeOK
<1> QED
  BY <1>1 DEF SlotRecord

LEMMA ManifestStep ==
  ASSUME TracyInv, LaunchManifest
  PROVE  TracyInv'
<1>0. /\ op.pc = "manifest" /\ op.pc \in Starting /\ op.pc \in Opened
      /\ TracyTypeOK /\ op.launching /\ op.bad = FALSE /\ op \in OpRecord
      /\ slot.journal = op.id /\ slot.journal # None /\ slot.dir \in Dirs
      /\ op.id = launches /\ op.id \in SessionOrNone
  BY InStarting
  DEF LaunchManifest, Starting, Opened, TracyTypeOK, OpRecord, TracyInv, Numbered
<1>1. CASE Goto("failed") /\ UNCHANGED <<disk, slot>>
  <2>1. Continues("failed") /\ op'.bad = op.bad
    BY <1>0, <1>1, Going DEF OpLabels
  <2>2. Around
    BY <1>0, <1>1, DiskStays, SlotStays DEF Around, LaunchManifest, TracyTypeOK
  <2> QED
    BY <1>0, <2>1, <2>2, LaunchGoes, QuietNumbered, QuietTied, QuietRecords
    DEF Opened, TracyInv
<1>2. CASE /\ Goto("wake") \/ ToCheck("post_launch")
           /\ disk' = [disk EXCEPT ![op.dir].launched = TRUE]
           /\ slot' = [slot EXCEPT !.experiment = op.id]
  <2>1. UNCHANGED <<launches, rt, files, edited, calls, overtaken>>
    BY DEF LaunchManifest
  <2>2. /\ slot' \in SlotRecord
        /\ slot'.journal = slot.journal /\ slot'.dir = slot.dir
        /\ slot'.experiment = op.id /\ slot'.used = slot.used
        /\ slot'.records = slot.records /\ slot'.active = slot.active
    BY <1>0, <1>2, SlotExperiment
  <2>3. PICK label \in {"wake", "post_launch"} :
          /\ Continues(label) /\ op'.bad = op.bad
          /\ label = "post_launch" => op'.check.base = slot.journal
    BY <1>0, <1>2, Going, Checking DEF OpLabels, Starting
  <2>4. /\ disk' \in [Dirs -> DiskRecord]
        /\ \A d \in Dirs : /\ disk'[d].journal = disk[d].journal
                           /\ disk'[d].status = disk[d].status
                           /\ disk'[d].complete = disk[d].complete
                           /\ disk'[d].captures = disk[d].captures
                           /\ disk'[d].bases = disk[d].bases
    <3>1. CASE op.dir \in Dirs
      <4> DEFINE r == [disk[op.dir] EXCEPT !.launched = TRUE]
      <4>1. disk[op.dir] \in DiskRecord
        BY <1>0, <3>1 DEF TracyTypeOK
      <4>2. r \in DiskRecord
        BY <4>1, DiskField
      <4>3. /\ r.journal = disk[op.dir].journal /\ r.status = disk[op.dir].status
            /\ r.complete = disk[op.dir].complete /\ r.captures = disk[op.dir].captures
            /\ r.bases = disk[op.dir].bases
        BY <4>1 DEF DiskRecord
      <4>4. disk' = [disk EXCEPT ![op.dir] = r]
        BY <1>2
      <4> HIDE DEF r
      <4> QED
        BY <1>0, <3>1, <4>1, <4>2, <4>3, <4>4 DEF TracyTypeOK
    <3>2. CASE op.dir \notin Dirs
      <4>1. disk' = disk
        BY <1>0, <1>2, <3>2 DEF TracyTypeOK
      <4> QED
        BY <1>0, <4>1 DEF TracyTypeOK
    <3> QED
      BY <3>1, <3>2
  <2>5. TracyTypeOK'
    BY <1>0, <2>1, <2>2, <2>3, <2>4 DEF TracyTypeOK, Continues
  <2>6. Held'
    BY <1>0, <2>2, <2>3 DEF Held, Continues, Starting
  <2>7. /\ slot.experiment = None
        /\ \A c \in Calls : calls[c].exp # op.id
        /\ \A f \in files : f.sess # op.id
        /\ \A d \in Dirs : disk[d].complete # op.id
    BY <1>0 DEF TracyInv, Fresh, Unopened
  <2>8. Numbered'
    <3>1. \A c \in Calls :
            /\ calls'[c].pc \in Bound \cup {"collector", "bind"} => calls'[c].key \in Keys
            /\ IsBound(c)' => calls'[c].exp \in 1 .. launches'
            /\ ~IsBound(c)' => calls'[c].exp = None
      BY <2>1 DEF TracyInv, Numbered, IsBound
    <3>2. /\ slot'.journal <= launches' /\ slot'.experiment \in {None, slot'.journal}
          /\ op'.launching /\ op'.id = launches' /\ op'.id # None
      BY <1>0, <2>1, <2>2, <2>3 DEF Continues, TracyInv, Numbered
    <3>3. /\ \A f \in files' : f.sess <= launches'
          /\ \A d \in Dirs : disk'[d].complete <= launches'
          /\ op'.experiment <= launches'
      BY <2>1, <2>3, <2>4 DEF TracyInv, Numbered, Continues
    <3> QED
      BY <3>1, <3>2, <3>3 DEF Numbered
  <2>9. Fresh'
    BY <2>3 DEF Fresh, Continues, Unopened
  <2>10. Tied'
    <3>1. JournalTied'
      BY <2>1, <2>2, <2>4 DEF TracyInv, Tied, JournalTied
    <3>2. \A c \in Calls : calls'[c].pc \in {"pre_capture", "post_capture"} => BaseSound(c)'
      BY <2>1, <2>2 DEF TracyInv, Tied, BaseSound, LateBase
    <3>3. /\ \A c \in Calls : IsBound(c)' =>
               calls'[c].exp <= slot'.journal \/ slot'.journal = None
          /\ \A d \in Dirs : None \notin disk'[d].bases
      BY <2>1, <2>2, <2>4 DEF TracyInv, Tied, IsBound
    <3> QED
      BY <1>0, <2>2, <2>3, <3>1, <3>2, <3>3 DEF Tied, Continues
  <2>11. Manifested'
    <3>1. \A c \in Calls : IsBound(c)' => Passed(c)'
      BY <2>1, <2>7 DEF TracyInv, Manifested, Numbered, IsBound, Passed, None
    <3>2. \A c \in Calls : calls'[c].pc = "record" => Trace(c)' \in files'
      BY <2>1 DEF TracyInv, Manifested, Trace
    <3>3. \A f \in files' : f.sess # slot'.experiment
      BY <2>1, <2>2, <2>7
    <3>6. \A f \in files : f.sess # None
      BY <1>0, Empty DEF TracyTypeOK, TraceRecord
    <3>4. \A f \in slot'.records : f \in files' /\ OldTrace(f)'
      BY <2>1, <2>2, <2>7, <3>6 DEF TracyInv, Manifested, OldTrace
    <3>5. \A d \in Dirs : Exact(d)'
      BY <2>1, <2>4 DEF TracyInv, Manifested, Exact, OldTrace
    <3> QED
      BY <2>2, <2>3, <2>4, <2>7, <3>1, <3>2, <3>3, <3>4, <3>5
      DEF Manifested, Continues
  <2>12. Once'
    BY <2>1, <2>2, <2>7
    DEF TracyInv, Once, OneWindow, InWindow, Passed, OldTrace, Repeats
  <2> QED
    BY <2>5, <2>6, <2>8, <2>9, <2>10, <2>11, <2>12 DEF TracyInv
<1> QED
  BY <1>1, <1>2 DEF LaunchManifest

LEMMA QuietKeeps ==
  ASSUME TracyInv, QuietOp, Held'
  PROVE  TracyInv'
BY QuietNumbered, QuietTied, QuietRecords DEF TracyInv

LEMMA RefusedStep ==
  ASSUME TracyInv, LaunchInstall, Violates(op.check)
  PROVE  TracyInv'
<1>1. TracyTypeOK /\ Held /\ op' = NoOp /\ UNCHANGED <<slot, disk, rt>>
  BY DEF TracyInv, LaunchInstall
<1>2. Around
  BY <1>1, DiskStays, SlotStays DEF Around, LaunchInstall, TracyTypeOK
<1>3. Held'
  BY <1>1, <1>2, HeldStill, Empty DEF Around, Starting
<1> QED
  BY <1>1, <1>2, <1>3, Ending, QuietKeeps

LEMMA TakenSet ==
  ASSUME NEW o \in SlotRecord
  PROVE  [o EXCEPT !.sampler = FALSE, !.experiment = None, !.records = {}] \in SlotRecord
<1> DEFINE o1 == [o EXCEPT !.sampler = FALSE]
           o2 == [o1 EXCEPT !.experiment = None]
<1>0. [o EXCEPT !.sampler = FALSE, !.experiment = None, !.records = {}]
      = [o2 EXCEPT !.records = {}]
  OBVIOUS
<1>1. o1 \in SlotRecord
  BY SlotField
<1> HIDE DEF o1
<1>2. o2 \in SlotRecord
  BY <1>1, SlotField, Empty
<1> HIDE DEF o2
<1> QED
  BY <1>0, <1>2, SlotField

LEMMA CompleteSet ==
  ASSUME NEW o \in OpRecord, NEW r \in SUBSET TraceRecord, NEW e \in SessionOrNone
  PROVE  [o EXCEPT !.pc = "complete", !.records = r, !.experiment = e] \in OpRecord
<1> DEFINE o1 == [o EXCEPT !.pc = "complete"]
           o2 == [o1 EXCEPT !.records = r]
<1>0. [o EXCEPT !.pc = "complete", !.records = r, !.experiment = e]
      = [o2 EXCEPT !.experiment = e]
  OBVIOUS
<1>1. o1 \in OpRecord
  BY OpField DEF OpLabels, Closing
<1> HIDE DEF o1
<1>2. o2 \in OpRecord
  BY <1>1, OpField
<1> HIDE DEF o2
<1> QED
  BY <1>0, <1>2, OpField

(* What the stop takes out of the slot, and what it does with it.            *)
LEMMA TakeEffect ==
  ASSUME TracyInv, StopTake
  PROVE  /\ slot' \in SlotRecord
         /\ slot'.journal = slot.journal /\ slot'.dir = slot.dir
         /\ slot'.used = slot.used /\ slot'.active = slot.active
         /\ slot'.collector = slot.collector /\ slot'.wake = slot.wake
         /\ slot'.sampler = FALSE /\ slot'.experiment = None /\ slot'.records = {}
         /\ \/ op' = NoOp
            \/ op.launching /\ Continues("failed")
            \/ Continues("post_stop") /\ op'.check.base = slot.journal
            \/ /\ op' \in OpRecord /\ op'.pc = "complete"
               /\ op'.launching = op.launching /\ op'.id = op.id
               /\ op'.experiment = slot.experiment /\ op'.records = slot.records
               /\ slot.experiment # None
<1>0. TracyTypeOK /\ op \in OpRecord /\ slot \in SlotRecord
  BY DEF TracyInv, TracyTypeOK
<1>1. slot' = [slot EXCEPT !.sampler = FALSE, !.experiment = None, !.records = {}]
  BY DEF StopTake
<1>2. slot' \in SlotRecord
  BY <1>0, <1>1, TakenSet
<1>3. CASE StopReturns
  BY <1>0, <1>1, <1>2, <1>3, Returning DEF SlotRecord
<1>4. CASE ToCheck("post_stop")
  <2>1. "post_stop" \in OpLabels
    BY DEF OpLabels, Closing
  <2>2. Continues("post_stop") /\ op'.check.base = slot.journal
    BY <1>0, <1>4, <2>1, Checking
  <2> QED
    BY <1>0, <1>1, <1>2, <2>2 DEF SlotRecord
<1>5. CASE /\ slot.experiment # None
           /\ op' = [op EXCEPT !.pc = "complete", !.records = slot.records,
                               !.experiment = slot.experiment]
  <2>1. slot.records \in SUBSET TraceRecord /\ slot.experiment \in SessionOrNone
    BY <1>0 DEF SlotRecord
  <2>2. op' \in OpRecord
    BY <1>0, <1>5, <2>1, CompleteSet
  <2>3. /\ op'.pc = "complete" /\ op'.launching = op.launching /\ op'.id = op.id
        /\ op'.experiment = slot.experiment /\ op'.records = slot.records
    BY <1>0, <1>5, <2>2 DEF OpRecord
  <2> QED
    BY <1>0, <1>1, <1>2, <1>5, <2>2, <2>3 DEF SlotRecord
<1> QED
  BY <1>3, <1>4, <1>5 DEF StopTake

LEMMA TakeStep ==
  ASSUME TracyInv, StopTake
  PROVE  TracyInv'
<1>0. TracyTypeOK /\ Held /\ op.pc = "take" /\ op \in OpRecord
  BY DEF TracyInv, TracyTypeOK, StopTake
<1>1. /\ slot' \in SlotRecord
      /\ slot'.journal = slot.journal /\ slot'.dir = slot.dir
      /\ slot'.used = slot.used /\ slot'.active = slot.active
      /\ slot'.collector = slot.collector /\ slot'.wake = slot.wake
      /\ slot'.sampler = FALSE /\ slot'.experiment = None /\ slot'.records = {}
  BY TakeEffect
<1>2. /\ op' \in OpRecord /\ op'.pc \in {"idle", "failed", "post_stop", "complete"}
      /\ op'.launching => op.launching /\ op'.id = op.id
      /\ op'.experiment \in {None, op.experiment, slot.experiment}
      /\ op'.pc = "post_stop" => op'.check.base = slot.journal
      /\ op'.pc = "complete" => /\ op'.experiment = slot.experiment
                                /\ op'.records = slot.records /\ slot.experiment # None
      /\ op'.bad => op'.pc # "idle"
  <2>1. CASE op' = NoOp
    BY <2>1, Empty
  <2>2. CASE op.launching /\ Continues("failed")
    BY <2>2 DEF Continues
  <2>3. CASE Continues("post_stop") /\ op'.check.base = slot.journal
    BY <2>3 DEF Continues
  <2> QED
    BY <2>1, <2>2, <2>3, TakeEffect
<1>3. UNCHANGED <<launches, rt, disk, files, edited, calls>>
  BY DEF StopTake
<1>4. /\ overtaken \subseteq overtaken'
      /\ \A c \in Calls : calls[c].pc \notin {"idle", "done"} => Passed(c)'
  BY <1>3, Overtaking DEF Passed, StopTake
<1>5. TracyTypeOK'
  BY <1>0, <1>1, <1>2, <1>3 DEF TracyTypeOK
<1>6. Held'
  BY <1>0, <1>1, <1>2, <1>3 DEF Held, NothingLeft, ProfilerGone, Starting, Closing
<1>n. /\ slot.journal \in SessionOrNone /\ slot.experiment \in {None, slot.journal}
      /\ slot.experiment <= launches
  BY <1>0 DEF TracyInv, TracyTypeOK, SlotRecord, Numbered, None
<1>7. Numbered'
  <2>1. \A c \in Calls :
          /\ calls'[c].pc \in Bound \cup {"collector", "bind"} => calls'[c].key \in Keys
          /\ IsBound(c)' => calls'[c].exp \in 1 .. launches'
          /\ ~IsBound(c)' => calls'[c].exp = None
    BY <1>3 DEF TracyInv, Numbered, IsBound
  <2>2. /\ slot'.journal <= launches' /\ slot'.experiment \in {None, slot'.journal}
        /\ op'.launching => op'.id = launches' /\ op'.id # None
        /\ op'.pc \in Starting \cup {"pre_launch"} => op'.launching
    BY <1>1, <1>2, <1>3 DEF TracyInv, Numbered, Starting
  <2>3. op'.experiment <= launches'
    BY <1>0, <1>2, <1>3, <1>n DEF TracyInv, TracyTypeOK, Numbered, None
  <2>4. /\ \A f \in files' : f.sess <= launches'
        /\ \A d \in Dirs : disk'[d].complete <= launches'
    BY <1>3 DEF TracyInv, Numbered
  <2> QED
    BY <2>1, <2>2, <2>3, <2>4 DEF Numbered
<1>8. Fresh'
  BY <1>2 DEF Fresh, Unopened
<1>9. Tied'
  <2>1. JournalTied'
    BY <1>1, <1>3, <1>4 DEF TracyInv, Tied, JournalTied
  <2>2. \A c \in Calls : calls'[c].pc \in {"pre_capture", "post_capture"} => BaseSound(c)'
    BY <1>1, <1>3, <1>4 DEF TracyInv, Tied, BaseSound, LateBase
  <2>3. /\ \A c \in Calls : IsBound(c)' =>
             calls'[c].exp <= slot'.journal \/ slot'.journal = None
        /\ \A d \in Dirs : None \notin disk'[d].bases
        /\ slot'.journal # None => slot'.dir \in Dirs
    BY <1>1, <1>3 DEF TracyInv, Tied, IsBound
  <2>4. op'.pc = "complete" => slot'.journal # None
    BY <1>1, <1>2, <1>n
  <2> QED
    BY <1>1, <1>2, <2>1, <2>2, <2>3, <2>4 DEF Tied
<1>10. Manifested'
  <2>1. /\ \A c \in Calls : IsBound(c)' => Passed(c)'
        /\ \A c \in Calls : calls'[c].pc = "record" => Trace(c)' \in files' /\ Passed(c)'
    BY <1>3, <1>4 DEF TracyInv, Manifested, IsBound, Bound, Trace
  <2>2. \A f \in files' : f.sess # slot'.experiment
    BY <1>0, <1>1, <1>3, Empty DEF TracyTypeOK, TraceRecord
  <2>3. op'.pc = "complete" =>
          /\ op'.experiment # None
          /\ \A f \in files' : f.sess = op'.experiment => OldTrace(f)' \/ f \in op'.records
          /\ \A f \in op'.records : f \in files' /\ (OldTrace(f)' \/ f.sess = op'.experiment)
    <3> SUFFICES ASSUME op'.pc = "complete"
                 PROVE  /\ op'.experiment # None
                        /\ \A f \in files' : f.sess = op'.experiment =>
                             OldTrace(f)' \/ f \in op'.records
                        /\ \A f \in op'.records :
                             f \in files' /\ (OldTrace(f)' \/ f.sess = op'.experiment)
      OBVIOUS
    <3>1. op'.experiment = slot.experiment /\ op'.records = slot.records
          /\ slot.experiment # None
      BY <1>2
    <3>2. ASSUME NEW f \in files, f.sess = slot.experiment
          PROVE  OldTrace(f)' \/ f \in slot.records
      <4>1. CASE \E c \in Calls : calls[c].pc = "record" /\ Trace(c) = f
        <5> PICK c \in Calls : calls[c].pc = "record" /\ Trace(c) = f
          BY <4>1
        <5>1. f.sess = calls[c].exp /\ f.key = calls[c].key
          BY DEF Trace
        <5>2. <<calls[c].exp, calls[c].key>> \in overtaken'
          BY <1>3, <1>4 DEF Passed
        <5> QED
          BY <5>1, <5>2 DEF OldTrace
      <4> QED
        BY <1>4, <3>2, <4>1 DEF TracyInv, Manifested, OldTrace
    <3>3. \A f \in slot.records : f \in files /\ (OldTrace(f)' \/ f.sess = slot.experiment)
      BY <1>4 DEF TracyInv, Manifested, OldTrace
    <3> QED
      BY <1>3, <3>1, <3>2, <3>3
  <2>4. \A d \in Dirs : Exact(d)'
    BY <1>3, <1>4 DEF TracyInv, Manifested, Exact, OldTrace
  <2> QED
    BY <1>1, <1>2, <2>1, <2>2, <2>3, <2>4 DEF Manifested
<1>11. Once'
  <2>1. OneWindow'
    BY <1>1, <1>3 DEF TracyInv, Once, OneWindow, InWindow
  <2>2. \A f \in files' : f.sess # slot'.experiment
    BY <1>0, <1>1, <1>3, Empty DEF TracyTypeOK, TraceRecord
  <2>3. \A c \in Calls : calls'[c].pc \notin {"idle", "done"} => Passed(c)'
    BY <1>3, <1>4
  <2> QED
    BY <2>1, <2>2, <2>3 DEF Once, InWindow
<1> QED
  BY <1>5, <1>6, <1>7, <1>8, <1>9, <1>10, <1>11 DEF TracyInv

LEMMA CompleteEffect ==
  ASSUME TracyInv, StopManifest, op' # NoOp, op'.pc # "failed"
  PROVE  /\ Continues("post_stop") /\ op'.check.base = slot.journal /\ op'.bad = op.bad
         /\ disk' \in [Dirs -> DiskRecord]
         /\ slot.dir \in Dirs
         /\ disk'[slot.dir].complete = op.experiment /\ disk'[slot.dir].captures = op.records
         /\ \A d \in Dirs : /\ disk'[d].journal = disk[d].journal
                            /\ disk'[d].status = disk[d].status
                            /\ disk'[d].bases = disk[d].bases
                            /\ d # slot.dir => disk'[d] = disk[d]
<1>0. /\ TracyTypeOK /\ slot.dir \in Dirs /\ op \in OpRecord
      /\ op.experiment \in SessionOrNone /\ op.records \in SUBSET TraceRecord
  BY DEF TracyInv, TracyTypeOK, Tied, StopManifest, OpRecord
<1>1. /\ ToCheck("post_stop")
      /\ disk' = [disk EXCEPT ![slot.dir].complete = op.experiment,
                              ![slot.dir].captures = op.records]
  <2>1. ~StopReturns
    BY <1>0, Returning DEF Continues
  <2> QED
    BY <2>1 DEF StopManifest
<1>2. Continues("post_stop") /\ op'.check.base = slot.journal /\ op'.bad = op.bad
  BY <1>0, <1>1, Checking DEF OpLabels, Closing
<1> DEFINE q == disk[slot.dir]
           m == [q EXCEPT !.complete = op.experiment]
           r == [m EXCEPT !.captures = op.records]
<1>3. disk' = [disk EXCEPT ![slot.dir] = r]
  BY <1>1
<1>4. q \in DiskRecord
  BY <1>0 DEF TracyTypeOK
<1>5. m \in DiskRecord
  BY <1>0, <1>4, DiskField
<1>6. /\ m.complete = op.experiment
      /\ m.journal = q.journal /\ m.status = q.status /\ m.bases = q.bases
  BY <1>4 DEF DiskRecord
<1> HIDE DEF m
<1>7. r \in DiskRecord
  BY <1>0, <1>5, DiskField
<1>8. /\ r.complete = op.experiment /\ r.captures = op.records
      /\ r.journal = q.journal /\ r.status = q.status /\ r.bases = q.bases
  BY <1>5, <1>6 DEF DiskRecord
<1> HIDE DEF r
<1> QED
  BY <1>0, <1>2, <1>3, <1>7, <1>8 DEF TracyTypeOK

LEMMA CompleteStep ==
  ASSUME TracyInv, StopManifest
  PROVE  TracyInv'
<1>0. TracyTypeOK /\ Held /\ op.pc = "complete" /\ op \in OpRecord
  BY DEF TracyInv, TracyTypeOK, StopManifest
<1>1. CASE op' = NoOp \/ op'.pc = "failed"
  <2>0. StopReturns /\ UNCHANGED disk
    <3>1. ~ToCheck("post_stop")
      BY <1>0, <1>1, Checking, Empty DEF Continues, OpLabels, Closing
    <3> QED
      BY <3>1 DEF StopManifest
  <2>1. Around
    BY <1>0, <2>0, DiskStays, SlotStays DEF Around, StopManifest, TracyTypeOK
  <2>2. QuietOp /\ op'.pc \in {"idle", "failed"} /\ (op'.bad => op'.pc = "failed")
    BY <2>0, <2>1, ReturnsQuietly
  <2>3. Held'
    BY <1>0, <2>1, <2>2, HeldStill DEF StopManifest, Around, Starting
  <2> QED
    BY <2>2, <2>3, QuietKeeps
<1>2. CASE op' # NoOp /\ op'.pc # "failed"
  <2>1. Continues("post_stop") /\ op'.check.base = slot.journal /\ op'.bad = op.bad
    BY <1>2, CompleteEffect
  <2>2. /\ disk' \in [Dirs -> DiskRecord] /\ slot.dir \in Dirs
        /\ disk'[slot.dir].complete = op.experiment
        /\ disk'[slot.dir].captures = op.records
        /\ \A d \in Dirs : /\ disk'[d].journal = disk[d].journal
                           /\ disk'[d].status = disk[d].status
                           /\ disk'[d].bases = disk[d].bases
                           /\ d # slot.dir => disk'[d] = disk[d]
    BY <1>2, CompleteEffect
  <2>3. UNCHANGED <<launches, slot, rt, files, edited, calls, overtaken>>
    BY DEF StopManifest
  <2>4. TracyTypeOK'
    BY <1>0, <2>1, <2>2, <2>3 DEF TracyTypeOK, Continues
  <2>5. Held'
    BY <1>0, <2>1, <2>3
    DEF Held, Continues, NothingLeft, ProfilerGone, Starting, Closing
  <2>6. Numbered'
    <3>1. \A c \in Calls :
            /\ calls'[c].pc \in Bound \cup {"collector", "bind"} => calls'[c].key \in Keys
            /\ IsBound(c)' => calls'[c].exp \in 1 .. launches'
            /\ ~IsBound(c)' => calls'[c].exp = None
      BY <2>3 DEF TracyInv, Numbered, IsBound
    <3>2. /\ slot'.journal <= launches' /\ slot'.experiment \in {None, slot'.journal}
          /\ op'.launching => op'.id = launches' /\ op'.id # None
          /\ op'.pc \in Starting \cup {"pre_launch"} => op'.launching
          /\ op'.experiment <= launches'
          /\ \A f \in files' : f.sess <= launches'
      BY <2>1, <2>3 DEF TracyInv, Numbered, Continues, Starting
    <3>3. \A d \in Dirs : disk'[d].complete <= launches'
      BY <2>2, <2>3 DEF TracyInv, Numbered
    <3> QED
      BY <3>1, <3>2, <3>3 DEF Numbered
  <2>7. Fresh'
    BY <2>1 DEF Fresh, Unopened, Continues
  <2>8. Tied'
    <3>1. JournalTied'
      BY <2>2, <2>3 DEF TracyInv, Tied, JournalTied
    <3>2. /\ \A c \in Calls : calls'[c].pc \in {"pre_capture", "post_capture"} => BaseSound(c)'
          /\ \A c \in Calls : IsBound(c)' =>
               calls'[c].exp <= slot'.journal \/ slot'.journal = None
      BY <2>3 DEF TracyInv, Tied, BaseSound, LateBase, IsBound
    <3>3. \A d \in Dirs : None \notin disk'[d].bases
      BY <2>2 DEF TracyInv, Tied
    <3> QED
      BY <2>1, <2>2, <2>3, <3>1, <3>2, <3>3 DEF Tied, Continues
  <2>9. Manifested'
    <3>1. /\ \A c \in Calls : IsBound(c)' => Passed(c)' \/ calls'[c].exp = slot'.experiment
          /\ \A c \in Calls : calls'[c].pc = "record" => Trace(c)' \in files'
          /\ \A f \in files' :
               \/ OldTrace(f)' \/ f.sess # slot'.experiment \/ f \in slot'.records
               \/ \E c \in Calls : calls'[c].pc = "record" /\ Trace(c)' = f
          /\ \A f \in slot'.records :
               f \in files' /\ (OldTrace(f)' \/ f.sess = slot'.experiment)
      BY <2>3 DEF TracyInv, Manifested, IsBound, Passed, OldTrace, Trace
    <3>2. /\ op.experiment # None /\ slot.experiment = None
          /\ \A f \in files : f.sess = op.experiment => OldTrace(f) \/ f \in op.records
          /\ \A f \in op.records : f \in files /\ (OldTrace(f) \/ f.sess = op.experiment)
      BY <1>0 DEF TracyInv, Manifested, Held
    <3>3. \A d \in Dirs : disk'[d].complete # None => disk'[d].complete # slot'.experiment
      BY <2>3, <3>2
    <3>4. \A d \in Dirs : Exact(d)'
      BY <2>2, <2>3, <3>2 DEF TracyInv, Manifested, Exact, OldTrace
    <3> QED
      BY <2>1, <3>1, <3>3, <3>4 DEF Manifested, Continues
  <2>10. Once'
    BY <2>3 DEF TracyInv, Once, OneWindow, InWindow, Passed, OldTrace, Repeats
  <2> QED
    BY <2>4, <2>5, <2>6, <2>7, <2>8, <2>9, <2>10 DEF TracyInv
<1> QED
  BY <1>1, <1>2

LEMMA ReleasedSet ==
  ASSUME NEW o \in SlotRecord
  PROVE  LET n == [o EXCEPT !.journal = None, !.snap = {}, !.owned = {}]
         IN /\ n \in SlotRecord /\ n.journal = None /\ n.dir = o.dir
            /\ n.experiment = o.experiment /\ n.used = o.used /\ n.records = o.records
            /\ n.active = o.active /\ n.collector = o.collector /\ n.sampler = o.sampler
            /\ n.wake = o.wake
<1> DEFINE o1 == [o EXCEPT !.journal = None]
           o2 == [o1 EXCEPT !.snap = {}]
           n == [o EXCEPT !.journal = None, !.snap = {}, !.owned = {}]
<1>0. n = [o2 EXCEPT !.owned = {}]
  OBVIOUS
<1>1. o1 \in SlotRecord
  BY SlotField, Empty
<1> HIDE DEF o1
<1>2. o2 \in SlotRecord
  BY <1>1, SlotField
<1> HIDE DEF o2
<1>3. n \in SlotRecord
  BY <1>0, <1>2, SlotField
<1>4. /\ n.journal = None /\ n.dir = o.dir
      /\ n.experiment = o.experiment /\ n.used = o.used /\ n.records = o.records
      /\ n.active = o.active /\ n.collector = o.collector /\ n.sampler = o.sampler
      /\ n.wake = o.wake
  BY DEF SlotRecord
<1> QED
  BY <1>3, <1>4

LEMMA FinalStep ==
  ASSUME TracyInv, StopFinalize
  PROVE  TracyInv'
<1>0. /\ TracyTypeOK /\ Held /\ op.pc = "final" /\ op \in OpRecord /\ StopReturns
      /\ slot \in SlotRecord
  BY DEF TracyInv, TracyTypeOK, StopFinalize
<1>1. CASE UNCHANGED <<disk, slot>>
  <2>1. Around
    BY <1>0, <1>1, DiskStays, SlotStays DEF Around, StopFinalize, TracyTypeOK
  <2>2. QuietOp /\ op'.pc \in {"idle", "failed"} /\ (op'.bad => op'.pc = "failed")
    BY <1>0, <2>1, ReturnsQuietly
  <2>3. Held'
    BY <1>0, <1>1, <2>1, <2>2, HeldStill DEF StopFinalize, Around, Starting
  <2> QED
    BY <2>2, <2>3, QuietKeeps
<1>2. CASE /\ disk' = IF slot.journal = None THEN disk
                      ELSE [disk EXCEPT ![slot.dir].status = "finalized"]
           /\ slot' = [slot EXCEPT !.journal = None, !.snap = {}, !.owned = {}]
  <2>1. /\ slot' \in SlotRecord /\ slot'.journal = None /\ slot'.dir = slot.dir
        /\ slot'.experiment = slot.experiment /\ slot'.used = slot.used
        /\ slot'.records = slot.records /\ slot'.active = slot.active
        /\ slot'.collector = slot.collector /\ slot'.sampler = slot.sampler
        /\ slot'.wake = slot.wake
    BY <1>0, <1>2, ReleasedSet
  <2>2. UNCHANGED <<launches, rt, files, edited, calls, overtaken>>
    BY DEF StopFinalize
  <2>3. /\ op' \in OpRecord /\ op'.pc \in {"idle", "failed"}
        /\ op'.launching => op.launching /\ op'.id = op.id
        /\ op'.experiment \in {op.experiment, None}
        /\ op'.bad => op'.pc = "failed"
    BY <1>0, Returning, Empty DEF Continues
  <2>4. /\ disk' \in [Dirs -> DiskRecord]
        /\ \A d \in Dirs : /\ disk'[d].journal = disk[d].journal
                           /\ disk'[d].complete = disk[d].complete
                           /\ disk'[d].captures = disk[d].captures
                           /\ disk'[d].bases = disk[d].bases
    <3>1. CASE slot.journal = None
      <4>1. disk' = disk
        BY <1>2, <3>1
      <4> QED
        BY <1>0, <4>1 DEF TracyTypeOK
    <3>2. CASE slot.journal # None
      <4> DEFINE r == [disk[slot.dir] EXCEPT !.status = "finalized"]
      <4>1. slot.dir \in Dirs /\ disk[slot.dir] \in DiskRecord
        BY <1>0, <3>2 DEF TracyInv, Tied, TracyTypeOK
      <4>2. r \in DiskRecord
        BY <4>1, DiskField
      <4>3. /\ r.journal = disk[slot.dir].journal /\ r.complete = disk[slot.dir].complete
            /\ r.captures = disk[slot.dir].captures /\ r.bases = disk[slot.dir].bases
        BY <4>1 DEF DiskRecord
      <4>4. disk' = [disk EXCEPT ![slot.dir] = r]
        BY <1>2, <3>2
      <4> HIDE DEF r
      <4> QED
        BY <1>0, <4>1, <4>2, <4>3, <4>4 DEF TracyTypeOK
    <3> QED
      BY <3>1, <3>2
  <2>5. /\ slot.experiment = None /\ slot.collector = None /\ ~slot.sampler /\ ~slot.wake
        /\ ProfilerGone
    BY <1>0 DEF Held
  <2>6. TracyTypeOK'
    BY <1>0, <2>1, <2>2, <2>3, <2>4 DEF TracyTypeOK
  <2>7. Held'
    BY <2>1, <2>2, <2>3, <2>5 DEF Held, NothingLeft, ProfilerGone, Starting, Closing
  <2>8. Numbered'
    <3>1. \A c \in Calls :
            /\ calls'[c].pc \in Bound \cup {"collector", "bind"} => calls'[c].key \in Keys
            /\ IsBound(c)' => calls'[c].exp \in 1 .. launches'
            /\ ~IsBound(c)' => calls'[c].exp = None
      BY <2>2 DEF TracyInv, Numbered, IsBound
    <3>2. /\ slot'.journal <= launches' /\ slot'.experiment \in {None, slot'.journal}
          /\ op'.launching => op'.id = launches' /\ op'.id # None
          /\ op'.pc \in Starting \cup {"pre_launch"} => op'.launching
          /\ op'.experiment <= launches'
      BY <1>0, <2>1, <2>2, <2>3, <2>5
      DEF TracyInv, TracyTypeOK, Numbered, Starting, None
    <3>3. /\ \A d \in Dirs : disk'[d].complete <= launches'
          /\ \A f \in files' : f.sess <= launches'
      BY <2>2, <2>4 DEF TracyInv, Numbered
    <3> QED
      BY <3>1, <3>2, <3>3 DEF Numbered
  <2>9. Fresh'
    BY <2>3 DEF Fresh, Unopened
  <2>10. Tied'
    <3>1. JournalTied'
      BY <2>1, <2>2, <2>4 DEF TracyInv, Tied, JournalTied
    <3>2. \A c \in Calls : calls'[c].pc \in {"pre_capture", "post_capture"} => BaseSound(c)'
      BY <2>1, <2>2 DEF TracyInv, Tied, BaseSound
    <3>3. \A d \in Dirs : None \notin disk'[d].bases
      BY <2>4 DEF TracyInv, Tied
    <3> QED
      BY <2>1, <2>3, <3>1, <3>2, <3>3 DEF Tied
  <2>11. Manifested'
    <3>1. /\ \A c \in Calls : IsBound(c)' => Passed(c)' \/ calls'[c].exp = slot'.experiment
          /\ \A c \in Calls : calls'[c].pc = "record" => Trace(c)' \in files'
      BY <2>1, <2>2 DEF TracyInv, Manifested, IsBound, Passed, Trace
    <3>2. \A f \in slot'.records : f \in files' /\ (OldTrace(f)' \/ f.sess = slot'.experiment)
      BY <2>1, <2>2 DEF TracyInv, Manifested, OldTrace
    <3>5. \A f \in files' : f.sess # slot'.experiment
      BY <1>0, <2>1, <2>2, <2>5, Empty DEF TracyTypeOK, TraceRecord
    <3>3. \A d \in Dirs : disk'[d].complete # None => disk'[d].complete # slot'.experiment
      BY <2>1, <2>5
    <3>4. \A d \in Dirs : Exact(d)'
      BY <2>2, <2>4 DEF TracyInv, Manifested, Exact, OldTrace
    <3> QED
      BY <2>3, <3>1, <3>2, <3>3, <3>4, <3>5 DEF Manifested
  <2>12. Once'
    BY <2>1, <2>2 DEF TracyInv, Once, OneWindow, InWindow, Passed, OldTrace, Repeats
  <2> QED
    BY <2>6, <2>7, <2>8, <2>9, <2>10, <2>11, <2>12 DEF TracyInv
<1> QED
  BY <1>1, <1>2 DEF StopFinalize

(* A crash leaves the directories and the traces; nobody is in flight.       *)
LEMMA CrashStep ==
  ASSUME TracyInv, Crash
  PROVE  TracyInv'
<1>0. TracyTypeOK /\ UNCHANGED <<launches, disk, files, edited>>
      /\ slot' = EmptySlot /\ rt' = StoppedRuntime /\ op' = NoOp
  BY DEF TracyInv, Crash
<1>1. /\ calls' \in [Calls -> CallRecord]
      /\ \A c \in Calls : calls'[c].pc \in {"idle", "done"} /\ calls'[c].exp = None
  <2> DEFINE r == [NoCall EXCEPT !.pc = "done"]
  <2>1. r \in CallRecord
    BY CallField, Empty DEF CallLabels
  <2>2. r.pc = "done" /\ r.exp = None
    BY DEF NoCall
  <2>3. calls' = [c \in Calls |-> IF c \in InFlight THEN r ELSE calls[c]]
    BY DEF Crash
  <2> HIDE DEF r
  <2>4. \A c \in Calls : c \notin InFlight => calls[c].pc \in {"idle", "done"}
                                              /\ calls[c].exp = None
    BY DEF InFlight, TracyInv, Numbered, IsBound, Bound
  <2> QED
    BY <1>0, <2>1, <2>2, <2>3, <2>4 DEF TracyTypeOK
<1>2. overtaken \subseteq overtaken' /\ \A f \in files' : OldTrace(f)'
  BY <1>0 DEF Crash, OldTrace, TracyTypeOK, TraceRecord
<1>3. /\ slot'.journal = None /\ slot'.collector = None /\ slot'.experiment = None
      /\ slot'.sampler = FALSE /\ slot'.wake = FALSE /\ slot'.records = {}
      /\ slot' \in SlotRecord
  BY <1>0, Empty DEF EmptySlot
<1>4. rt' \in RuntimeRecord /\ ProfilerGone'
  BY <1>0 DEF StoppedRuntime, RuntimeRecord, ProfilerGone
<1>5. op' \in OpRecord /\ op'.pc = "idle" /\ op'.launching = FALSE /\ op'.experiment = None
      /\ op'.bad = FALSE
  BY <1>0, Empty
<1>6. TracyTypeOK'
  BY <1>0, <1>1, <1>3, <1>4, <1>5 DEF TracyTypeOK
<1>7. Held'
  BY <1>3, <1>4, <1>5 DEF Held, NothingLeft, Starting
<1>8. Numbered' /\ Fresh'
  <2>1. launches' \in Nat /\ None <= launches'
    BY <1>0, TracyAssumption DEF TracyTypeOK, None
  <2>2. /\ \A f \in files' : f.sess <= launches'
        /\ \A d \in Dirs : disk'[d].complete <= launches'
    BY <1>0 DEF TracyInv, Numbered
  <2>3. \A c \in Calls : /\ calls'[c].pc \notin Bound \cup {"collector", "bind"}
                         /\ ~IsBound(c)' /\ calls'[c].exp = None
    BY <1>1 DEF Bound, IsBound
  <2> QED
    BY <1>3, <1>5, <2>1, <2>2, <2>3 DEF Numbered, Fresh, Starting, Unopened
<1>9. Tied'
  <2>1. JournalTied'
    BY <1>0, <1>2, <1>3 DEF TracyInv, Tied, JournalTied
  <2>2. \A d \in Dirs : None \notin disk'[d].bases
    BY <1>0 DEF TracyInv, Tied
  <2> QED
    BY <1>1, <1>3, <1>5, <2>1, <2>2 DEF Tied
<1>10. Manifested'
  <2>1. \A d \in Dirs : Exact(d)'
    BY <1>0, <1>2 DEF TracyInv, Manifested, Exact, OldTrace
  <2> QED
    BY <1>1, <1>2, <1>3, <1>5, <2>1 DEF Manifested, IsBound, Bound
<1>11. Once'
  BY <1>1, <1>2, <1>3 DEF Once, OneWindow, InWindow
<1> QED
  BY <1>6, <1>7, <1>8, <1>9, <1>10, <1>11 DEF TracyInv

(* Whatever happens beside the session.                                      *)
Beside ==
  /\ UNCHANGED <<launches, slot, disk, files, op, calls, overtaken>>
  /\ rt' \in RuntimeRecord /\ edited' \in BOOLEAN

LEMMA BesideKeeps ==
  ASSUME TracyInv, Beside, ProfilerGone => ProfilerGone'
  PROVE  TracyInv'
<1>1. TracyTypeOK' /\ Held'
  BY DEF TracyInv, TracyTypeOK, Held, NothingLeft, Beside
<1>2. Numbered' /\ Fresh'
  BY DEF TracyInv, Numbered, Fresh, Beside, IsBound
<1>3. Tied'
  BY DEF TracyInv, Tied, JournalTied, Beside, IsBound, BaseSound, LateBase
<1>4. Manifested'
  BY DEF TracyInv, Manifested, Exact, Beside, IsBound, Passed, OldTrace, Trace
<1>5. Once'
  BY DEF TracyInv, Once, OneWindow, InWindow, Beside, Passed, OldTrace, Repeats
<1> QED
  BY <1>1, <1>2, <1>3, <1>4, <1>5 DEF TracyInv

LEMMA EnvironmentStep ==
  ASSUME TracyInv, Environment \/ UNCHANGED vars
  PROVE  TracyInv'
<1>0. rt \in RuntimeRecord /\ edited \in BOOLEAN /\ StoppedRuntime \in RuntimeRecord
  BY DEF TracyInv, TracyTypeOK, StoppedRuntime, RuntimeRecord
<1>1. CASE RuntimeExits
  BY <1>0, <1>1, BesideKeeps DEF RuntimeExits, Beside, RuntimeRecord, ProfilerGone
<1>2. CASE \E s \in Session : CollectorDies(s)
  BY <1>0, <1>2, BesideKeeps DEF CollectorDies, Beside, ProfilerGone
<1>3. CASE Edit
  BY <1>0, <1>3, BesideKeeps DEF Edit, Beside, ProfilerGone
<1>4. CASE RunStandard
  BY <1>0, <1>4, BesideKeeps DEF RunStandard, Beside, RuntimeRecord, ProfilerGone
<1>5. CASE StopAnyRuntime
  <2>1. rt' \in RuntimeRecord /\ (ProfilerGone => ProfilerGone')
    BY <1>0, <1>5
    DEF StopAnyRuntime, RuntimeStops, StoppedRuntime, RuntimeRecord, ProfilerGone
  <2> QED
    BY <1>0, <1>5, <2>1, BesideKeeps DEF StopAnyRuntime, Beside
<1>6. CASE UNCHANGED vars
  BY <1>0, <1>6, BesideKeeps DEF vars, Beside, ProfilerGone
<1> QED
  BY <1>1, <1>2, <1>3, <1>4, <1>5, <1>6, CrashStep DEF Environment

-----------------------------------------------------------------------------
(* The capture requests                                                      *)

(* Checkpoints of a request add to the open journal a base that may be late. *)
SoundGain ==
  /\ DiskKept
  /\ \A d \in Dirs : \A x \in disk'[d].bases :
       \/ x \in disk[d].bases
       \/ /\ d = slot.dir /\ slot.journal # None /\ x # None
          /\ x = slot.journal \/ LateBase(x)

(* A step that opens, closes and publishes nothing.                          *)
PlainCall(c) ==
  /\ UNCHANGED <<launches, slot, rt, files, edited, op, overtaken>> /\ SoundGain
  /\ calls' \in [Calls -> CallRecord]
  /\ \A d \in Calls : d # c => calls'[d] = calls[d]
  /\ calls[c].pc # "record" /\ calls'[c].pc \notin {"record", "publish"}
  /\ InWindow(c)' => InWindow(c)
  /\ calls'[c].pc \in Bound \cup {"collector", "bind"} => calls'[c].key \in Keys
  /\ IsBound(c)' => \/ IsBound(c) /\ SameCapture(c)
                    \/ /\ calls'[c].exp = slot.experiment /\ slot.experiment # None
                       /\ ~InWindow(c)'
  /\ ~IsBound(c)' => calls'[c].exp = None
  /\ calls'[c].pc \in {"pre_capture", "post_capture"} => BaseSound(c)'

LEMMA PlainKeeps ==
  ASSUME TracyInv, NEW c \in Calls, PlainCall(c)
  PROVE  TracyInv'
<1>0. TracyTypeOK /\ UNCHANGED <<launches, slot, rt, files, edited, op, overtaken>>
      /\ DiskKept
  BY DEF TracyInv, PlainCall, SoundGain
<1>1. TracyTypeOK'
  BY <1>0 DEF TracyTypeOK, PlainCall, DiskKept
<1>2. Held'
  BY <1>0 DEF TracyInv, Held, NothingLeft, ProfilerGone
<1>e. slot.experiment # None => slot.experiment \in 1 .. launches
                                /\ slot.experiment = slot.journal
  BY <1>0, TracyAssumption
  DEF TracyInv, TracyTypeOK, SlotRecord, Numbered, SessionOrNone, Session, None
<1>3. Numbered'
  <2>1. \A d \in Calls :
          /\ calls'[d].pc \in Bound \cup {"collector", "bind"} => calls'[d].key \in Keys
          /\ IsBound(d)' => calls'[d].exp \in 1 .. launches'
          /\ ~IsBound(d)' => calls'[d].exp = None
    <3>1. \A d \in Calls :
            /\ calls[d].pc \in Bound \cup {"collector", "bind"} => calls[d].key \in Keys
            /\ IsBound(d) => calls[d].exp \in 1 .. launches
            /\ ~IsBound(d) => calls[d].exp = None
      BY DEF TracyInv, Numbered
    <3> QED
      BY <1>0, <1>e, <3>1 DEF PlainCall, IsBound, SameCapture
  <2>2. \A d \in Dirs : disk'[d].complete <= launches'
    BY <1>0 DEF TracyInv, Numbered, DiskKept
  <2> QED
    BY <1>0, <2>1, <2>2 DEF TracyInv, Numbered
<1>4. Fresh'
  <2> SUFFICES ASSUME op.pc \in Unopened
               PROVE  Fresh'
    BY <1>0 DEF Fresh
  <2>1. /\ slot.experiment # op.id /\ op.id # None
        /\ \A d \in Calls : calls[d].exp # op.id
    BY DEF TracyInv, Fresh, Numbered, Unopened, Starting
  <2>2. \A d \in Calls : calls'[d].exp # op.id
    BY <2>1 DEF PlainCall, SameCapture
  <2> QED
    BY <1>0, <2>2 DEF TracyInv, Fresh, DiskKept
<1>5. Tied'
  <2>1. JournalTied'
    <3>1. \A d \in Dirs : \A x \in disk'[d].bases :
            x \in disk[d].bases \/ x = disk[d].journal \/ LateBase(x)
      BY DEF PlainCall, SoundGain, TracyInv, Tied, JournalTied
    <3>2. \A d \in Dirs : \A b \in disk'[d].bases :
            b = disk'[d].journal \/ \E s \in 1 .. b, k \in Keys : <<s, k>> \in overtaken'
      BY <1>0, <3>1 DEF TracyInv, Tied, JournalTied, DiskKept, LateBase
    <3>3. slot'.journal # None => /\ disk'[slot'.dir].journal = slot'.journal
                                  /\ disk'[slot'.dir].status = "active"
      BY <1>0 DEF TracyInv, Tied, JournalTied, DiskKept
    <3> QED
      BY <3>2, <3>3 DEF JournalTied
  <2>2. \A d \in Dirs : None \notin disk'[d].bases
    BY DEF TracyInv, Tied, PlainCall, SoundGain
  <2>3. \A d \in Calls : IsBound(d)' =>
          calls'[d].exp <= slot'.journal \/ slot'.journal = None
    BY <1>0, <1>e DEF TracyInv, Tied, PlainCall, IsBound, SameCapture
  <2>4. \A d \in Calls : calls'[d].pc \in {"pre_capture", "post_capture"} => BaseSound(d)'
    BY <1>0 DEF TracyInv, Tied, PlainCall, BaseSound, LateBase
  <2>5. /\ slot'.journal # None => slot'.dir \in Dirs
        /\ op'.pc = "pre_launch" =>
             /\ op'.dir \in Dirs /\ disk'[op'.dir].journal = op'.id
             /\ disk'[op'.dir].status = "active" /\ slot'.journal < op'.id
        /\ op'.pc \in {"post_launch", "pre_stop", "post_stop"} =>
             op'.check.base = slot'.journal
        /\ op'.pc = "complete" => slot'.journal # None
    BY <1>0 DEF TracyInv, Tied, DiskKept
  <2> QED
    BY <2>1, <2>2, <2>3, <2>4, <2>5 DEF Tied
<1>6. Manifested'
  <2>1. \A d \in Calls : IsBound(d)' => Passed(d)' \/ calls'[d].exp = slot'.experiment
    BY <1>0 DEF TracyInv, Manifested, PlainCall, IsBound, SameCapture, Passed
  <2>2. \A d \in Calls : calls[d].pc = "record" =>
          calls'[d].pc = "record" /\ Trace(d)' = Trace(d)
    BY DEF PlainCall, Trace
  <2>3. \A d \in Calls : calls'[d].pc = "record" => calls[d].pc = "record"
    BY DEF PlainCall
  <2>4. \A d \in Calls : calls'[d].pc = "record" => Trace(d)' \in files'
    BY <1>0, <2>2, <2>3 DEF TracyInv, Manifested
  <2>5. \A f \in files' :
          \/ OldTrace(f)' \/ f.sess # slot'.experiment \/ f \in slot'.records
          \/ \E d \in Calls : calls'[d].pc = "record" /\ Trace(d)' = f
    BY <1>0, <2>2 DEF TracyInv, Manifested, OldTrace
  <2>6. \A d \in Dirs : Exact(d)'
    BY <1>0 DEF TracyInv, Manifested, Exact, OldTrace, DiskKept
  <2>7. /\ \A f \in slot'.records : f \in files' /\ (OldTrace(f)' \/ f.sess = slot'.experiment)
        /\ op'.pc = "complete" =>
             /\ op'.experiment # None
             /\ \A f \in files' : f.sess = op'.experiment => OldTrace(f)' \/ f \in op'.records
             /\ \A f \in op'.records : f \in files' /\ (OldTrace(f)' \/ f.sess = op'.experiment)
        /\ \A d \in Dirs : disk'[d].complete # None => disk'[d].complete # slot'.experiment
    BY <1>0 DEF TracyInv, Manifested, OldTrace, DiskKept
  <2> QED
    BY <2>1, <2>4, <2>5, <2>6, <2>7 DEF Manifested
<1>7. Once'
  <2>1. \A d \in Calls : InWindow(d)' => /\ InWindow(d) /\ calls'[d].exp = calls[d].exp
                                         /\ calls'[d].key = calls[d].key
    BY DEF PlainCall, InWindow, SameCapture, IsBound, Bound
  <2>2. \A d \in Calls : calls'[d].pc = "publish" => calls'[d] = calls[d]
    BY DEF PlainCall
  <2>3. OneWindow'
    BY <1>0, <2>1 DEF TracyInv, Once, OneWindow
  <2>4. /\ \A f \in files' : OldTrace(f)' \/ f.sess # slot'.experiment \/ f.key \in slot'.used
        /\ \A d \in Calls : InWindow(d)' => Passed(d)' \/ calls'[d].key \notin slot'.used
    BY <1>0, <2>1 DEF TracyInv, Once, OldTrace, Passed
  <2>5. /\ \A d \in Calls : calls'[d].pc = "publish" => Passed(d)' \/ calls'[d].key \in slot'.used
        /\ \A d \in Calls : calls'[d].pc = "publish" /\ Repeats(d)' => Passed(d)'
        /\ \A a, b \in Calls :
             calls'[a].pc = "publish" /\ calls'[b].pc = "publish" /\ a # b
             /\ calls'[a].exp = calls'[b].exp /\ calls'[a].key = calls'[b].key => Passed(a)'
    BY <1>0, <2>2 DEF TracyInv, Once, Passed, Repeats
  <2> QED
    BY <2>3, <2>4, <2>5 DEF Once
<1> QED
  BY <1>1, <1>2, <1>3, <1>4, <1>5, <1>6, <1>7 DEF TracyInv

LEMMA QuietDisk ==
  ASSUME TracyInv, disk' = disk
  PROVE  SoundGain
BY DiskStays DEF TracyInv, SoundGain

LEMMA LeavesPlainly ==
  ASSUME TracyInv, NEW c \in Calls, Leave(c), calls[c].pc # "record", SoundGain,
         UNCHANGED <<launches, slot, rt, files, edited, op, overtaken>>
  PROVE  TracyInv'
<1>1. CallAt(c, "done") /\ calls'[c].exp = None
  BY Leaving DEF TracyInv
<1>2. PlainCall(c)
  BY <1>1 DEF PlainCall, CallAt, InWindow, IsBound, Bound
<1> QED
  BY <1>2, PlainKeeps

LEMMA GoesPlainly ==
  ASSUME TracyInv, NEW c \in Calls, NEW label, CallAt(c, label), SameCapture(c),
         IsBound(c), calls[c].pc # "record",
         label \in {"begin", "sent", "window", "answered"},
         label \in {"sent", "window", "answered"} => InWindow(c), SoundGain,
         UNCHANGED <<launches, slot, rt, files, edited, op, overtaken>>
  PROVE  TracyInv'
<1>1. calls[c].key \in Keys
  BY DEF TracyInv, Numbered, IsBound
<1>2. PlainCall(c)
  BY <1>1 DEF PlainCall, CallAt, SameCapture, InWindow, IsBound, Bound
<1> QED
  BY <1>2, PlainKeeps

LEMMA RequestStep ==
  ASSUME TracyInv, NEW c \in Calls, NEW key \in Keys, CaptureCall(c, key)
  PROVE  TracyInv'
<1>0. TracyTypeOK /\ calls[c].exp = None
  BY DEF TracyInv, Numbered, CaptureCall, IsBound, Bound
<1>1. CallAt(c, "collector") /\ calls'[c].key = key /\ calls'[c].exp = None
  BY <1>0, Called DEF CaptureCall
<1>2. SoundGain /\ UNCHANGED <<launches, slot, rt, files, edited, op, overtaken>>
  BY QuietDisk DEF CaptureCall, CallOnly
<1>3. PlainCall(c)
  BY <1>1, <1>2 DEF CaptureCall, PlainCall, CallAt, InWindow, IsBound, Bound
<1> QED
  BY <1>3, PlainKeeps

LEMMA CollectorLookStep ==
  ASSUME TracyInv, NEW c \in Calls, CaptureCollector(c)
  PROVE  TracyInv'
<1>0. TracyTypeOK /\ calls[c].exp = None /\ calls[c].key \in Keys
  BY DEF TracyInv, Numbered, CaptureCollector, IsBound, Bound
<1>2. SoundGain /\ UNCHANGED <<launches, slot, rt, files, edited, op, overtaken>>
  BY QuietDisk DEF CaptureCollector, CallOnly
<1>1. CASE calls' = [calls EXCEPT ![c].pc = "bind", ![c].col = slot.collector]
  <2>1. CallAt(c, "bind") /\ SameCapture(c)
    BY <1>0, <1>1, CollectorSeen
  <2>2. PlainCall(c)
    BY <1>0, <1>2, <2>1
    DEF CaptureCollector, PlainCall, CallAt, SameCapture, InWindow, IsBound, Bound
  <2> QED
    BY <2>2, PlainKeeps
<1> QED
  BY <1>1, <1>2, LeavesPlainly DEF CaptureCollector

LEMMA BindStep ==
  ASSUME TracyInv, NEW c \in Calls, CaptureBind(c)
  PROVE  TracyInv'
<1>0. TracyTypeOK /\ calls[c].key \in Keys
  BY DEF TracyInv, Numbered, CaptureBind
<1>2. SoundGain /\ UNCHANGED <<launches, slot, rt, files, edited, op, overtaken>>
  BY QuietDisk DEF CaptureBind, CallOnly
<1>1. CASE /\ slot.experiment # None
           /\ calls' = [calls EXCEPT ![c].pc = "pre_capture", ![c].port = rt.kind = "tracy",
                                     ![c].exp = slot.experiment, ![c].check = ReadCheck]
  <2>1. /\ CallAt(c, "pre_capture") /\ calls'[c].key = calls[c].key
        /\ calls'[c].exp = slot.experiment /\ calls'[c].check.base = slot.journal
    BY <1>0, <1>1, Binding
  <2>3. slot.experiment = slot.journal /\ slot.journal \in Nat
    BY <1>0, <1>1, TracyAssumption
    DEF TracyInv, Numbered, TracyTypeOK, SlotRecord, SessionOrNone, Session, None
  <2>4. BaseSound(c)'
    BY <1>2, <2>1, <2>3 DEF BaseSound
  <2>2. PlainCall(c)
    BY <1>0, <1>1, <1>2, <2>1, <2>4
    DEF CaptureBind, PlainCall, CallAt, InWindow, IsBound, Bound
  <2> QED
    BY <2>2, PlainKeeps
<1> QED
  BY <1>1, <1>2, LeavesPlainly DEF CaptureBind

LEMMA CheckGain ==
  ASSUME TracyInv, NEW c \in Calls, calls[c].pc \in {"pre_capture", "post_capture"},
         calls[c].check.base # None, RecordCheck(calls[c].check)
  PROVE  SoundGain
<1>1. /\ TracyTypeOK /\ (slot.journal # None => slot.dir \in Dirs)
      /\ calls[c].check \in CheckRecord
  BY DEF TracyInv, TracyTypeOK, CallRecord, Tied
<1>2. DiskKept /\ BasesGain(calls[c].check.base)
  BY <1>1, Recording
<1>3. calls[c].check.base = slot.journal \/ slot.journal = None
      \/ LateBase(calls[c].check.base)
  BY DEF TracyInv, Tied, BaseSound
<1> QED
  BY <1>2, <1>3 DEF SoundGain, BasesGain

LEMMA CheckStep ==
  ASSUME TracyInv, NEW c \in Calls, CaptureCheck(c)
  PROVE  TracyInv'
<1> DEFINE none == calls[c].check.base = None
           fails == ~none /\ Violates(calls[c].check)
<1>0. /\ calls[c].pc \in {"pre_capture", "post_capture"} /\ IsBound(c)
      /\ UNCHANGED <<launches, slot, rt, files, edited, op, overtaken>>
      /\ IF fails \/ none THEN UNCHANGED disk ELSE RecordCheck(calls[c].check)
      /\ \/ Leave(c)
         \/ calls' = [calls EXCEPT ![c].pc = "begin", ![c].check = NoCheck]
  BY DEF CaptureCheck, CallOnly, IsBound, Bound
<1>1. SoundGain
  BY <1>0, QuietDisk, CheckGain
<1>2. CASE Leave(c)
  BY <1>0, <1>1, <1>2, LeavesPlainly
<1>3. CASE calls' = [calls EXCEPT ![c].pc = "begin", ![c].check = NoCheck]
  <2>1. TracyTypeOK /\ "begin" \in CallLabels
    BY DEF TracyInv, CallLabels, Bound
  <2>2. CallAt(c, "begin") /\ SameCapture(c)
    BY <1>3, <2>1, CheckRead, Empty
  <2> QED
    BY <1>0, <1>1, <2>2, GoesPlainly
<1> QED
  BY <1>0, <1>2, <1>3

LEMMA WindowStep ==
  ASSUME TracyInv, NEW c \in Calls, WindowStarts(c)
  PROVE  TracyInv'
<1>1. CallAt(c, "window") /\ SameCapture(c)
  BY Stepping DEF TracyInv, WindowStarts, CallLabels, Bound
<1>2. SoundGain /\ UNCHANGED <<launches, slot, rt, files, edited, op, overtaken>>
  BY QuietDisk DEF WindowStarts, CallOnly
<1>3. IsBound(c) /\ InWindow(c) /\ calls[c].pc # "record"
  BY DEF WindowStarts, IsBound, Bound, InWindow
<1> QED
  BY <1>1, <1>2, <1>3, GoesPlainly

LEMMA EndStep ==
  ASSUME TracyInv, NEW c \in Calls, NEW answer \in Results, WindowEnds(c, answer)
  PROVE  TracyInv'
<1>0. calls[c].pc \in {"sent", "window"}
  BY DEF WindowEnds
<1>1. CallAt(c, "answered") /\ SameCapture(c)
  BY Ended DEF TracyInv, WindowEnds
<1>2. SoundGain /\ UNCHANGED <<launches, slot, rt, files, edited, op, overtaken>>
  BY QuietDisk DEF WindowEnds, CallOnly
<1>3. IsBound(c) /\ InWindow(c) /\ calls[c].pc # "record"
  BY <1>0 DEF IsBound, Bound, InWindow
<1> QED
  BY <1>1, <1>2, <1>3, GoesPlainly

(* The steps that open and close a window, and what they change of the slot. *)
Windowed ==
  /\ slot' \in SlotRecord
  /\ slot'.journal = slot.journal /\ slot'.dir = slot.dir
  /\ slot'.experiment = slot.experiment /\ slot'.collector = slot.collector
  /\ slot'.sampler = slot.sampler /\ slot'.wake = slot.wake

LEMMA HeldWindowed ==
  ASSUME Held, Windowed, UNCHANGED <<rt, op>>
  PROVE  Held'
BY DEF Held, Windowed, NothingLeft, ProfilerGone

LEMMA SlotActive ==
  ASSUME TracyTypeOK, slot' = [slot EXCEPT !.active = TRUE]
  PROVE  Windowed /\ slot'.active = TRUE /\ slot'.used = slot.used
         /\ slot'.records = slot.records
<1>1. slot \in SlotRecord /\ slot' \in SlotRecord
  BY SlotField DEF TracyTypeOK
<1> QED
  BY <1>1 DEF Windowed, SlotRecord

LEMMA SlotFinished ==
  ASSUME TracyTypeOK, NEW key \in Keys, NEW started \in BOOLEAN,
         slot' = Finished(key, started)
  PROVE  Windowed /\ slot'.active = FALSE /\ slot'.records = slot.records
         /\ slot'.used = (IF started THEN slot.used \cup {key} ELSE slot.used)
<1> DEFINE m == [slot EXCEPT !.active = FALSE]
           u == IF started THEN slot.used \cup {key} ELSE slot.used
<1>0. slot \in SlotRecord /\ slot.used \in SUBSET Keys
  BY DEF TracyTypeOK, SlotRecord
<1>1. slot' = [m EXCEPT !.used = u]
  <2>1. slot' = [slot EXCEPT !.active = FALSE, !.used = u]
    BY DEF Finished
  <2> HIDE DEF u
  <2> QED
    BY <2>1
<1>2. m \in SlotRecord
  BY <1>0, SlotField
<1>3. /\ m.journal = slot.journal /\ m.dir = slot.dir
      /\ m.experiment = slot.experiment /\ m.collector = slot.collector
      /\ m.sampler = slot.sampler /\ m.wake = slot.wake
      /\ m.active = FALSE /\ m.records = slot.records
  BY <1>0 DEF SlotRecord
<1>4. u \in SUBSET Keys
  BY <1>0
<1> HIDE DEF m, u
<1>5. slot' \in SlotRecord
  BY <1>1, <1>2, <1>4, SlotField
<1>6. Windowed /\ slot'.active = FALSE /\ slot'.records = slot.records /\ slot'.used = u
  BY <1>1, <1>2, <1>3, <1>5 DEF Windowed, SlotRecord
<1> QED
  BY <1>6 DEF u

(* A request that only moves on keeps what ties records to sessions.         *)
MovingCall(c) ==
  /\ Windowed
  /\ UNCHANGED <<launches, rt, edited, op, overtaken, disk, files>>
  /\ slot'.records = slot.records
  /\ calls' \in [Calls -> CallRecord]
  /\ \A d \in Calls : d # c => calls'[d] = calls[d]
  /\ IsBound(c)
  /\ calls[c].pc # "record" /\ calls'[c].pc \notin {"record", "pre_capture", "post_capture"}
  /\ calls'[c].pc \notin {"collector", "bind"}
  /\ IsBound(c)' => SameCapture(c)
  /\ ~IsBound(c)' => calls'[c].exp = None

LEMMA MovingKeeps ==
  ASSUME TracyInv, NEW c \in Calls, MovingCall(c)
  PROVE  TracyTypeOK' /\ Held' /\ Numbered' /\ Fresh' /\ Tied' /\ Manifested'
<1>0. /\ TracyTypeOK /\ Windowed
      /\ UNCHANGED <<launches, rt, edited, op, overtaken, disk, files>>
  BY DEF TracyInv, MovingCall
<1>1. TracyTypeOK'
  BY <1>0 DEF TracyTypeOK, MovingCall, Windowed
<1>2. Held'
  BY <1>0, HeldWindowed DEF TracyInv
<1>3. Numbered'
  <2>1. \A d \in Calls :
          /\ calls'[d].pc \in Bound \cup {"collector", "bind"} => calls'[d].key \in Keys
          /\ IsBound(d)' => calls'[d].exp \in 1 .. launches'
          /\ ~IsBound(d)' => calls'[d].exp = None
    BY <1>0 DEF TracyInv, Numbered, MovingCall, IsBound, SameCapture
  <2> QED
    BY <1>0, <2>1 DEF TracyInv, Numbered, Windowed
<1>4. Fresh'
  <2> SUFFICES ASSUME op.pc \in Unopened
               PROVE  Fresh'
    BY <1>0 DEF Fresh
  <2>1. op.id # None /\ \A d \in Calls : calls[d].exp # op.id
    BY DEF TracyInv, Fresh, Numbered, Unopened, Starting
  <2>2. \A d \in Calls : calls'[d].exp # op.id
    BY <2>1 DEF MovingCall, SameCapture
  <2> QED
    BY <1>0, <2>2 DEF TracyInv, Fresh, Windowed
<1>5. Tied'
  <2>1. JournalTied'
    BY <1>0 DEF TracyInv, Tied, JournalTied, Windowed
  <2>2. \A d \in Calls : calls'[d].pc \in {"pre_capture", "post_capture"} => BaseSound(d)'
    BY <1>0 DEF TracyInv, Tied, MovingCall, BaseSound, LateBase, Windowed
  <2>3. \A d \in Calls : IsBound(d)' =>
          calls'[d].exp <= slot'.journal \/ slot'.journal = None
    BY <1>0 DEF TracyInv, Tied, MovingCall, IsBound, SameCapture, Windowed
  <2> QED
    BY <1>0, <2>1, <2>2, <2>3 DEF TracyInv, Tied, Windowed
<1>6. Manifested'
  <2>1. \A d \in Calls : IsBound(d)' => Passed(d)' \/ calls'[d].exp = slot'.experiment
    BY <1>0
    DEF TracyInv, Manifested, MovingCall, IsBound, SameCapture, Passed, Windowed
  <2>2. \A d \in Calls : calls[d].pc = "record" =>
          calls'[d].pc = "record" /\ Trace(d)' = Trace(d)
    BY DEF MovingCall, Trace
  <2>3. \A d \in Calls : calls'[d].pc = "record" => calls[d].pc = "record"
    BY DEF MovingCall
  <2>4. \A d \in Calls : calls'[d].pc = "record" => Trace(d)' \in files'
    BY <1>0, <2>2, <2>3 DEF TracyInv, Manifested
  <2>5. \A f \in files' :
          \/ OldTrace(f)' \/ f.sess # slot'.experiment \/ f \in slot'.records
          \/ \E d \in Calls : calls'[d].pc = "record" /\ Trace(d)' = f
    BY <1>0, <2>2 DEF TracyInv, Manifested, OldTrace, Windowed, MovingCall
  <2>6. \A d \in Dirs : Exact(d)'
    BY <1>0 DEF TracyInv, Manifested, Exact, OldTrace
  <2>7. \A f \in slot'.records : f \in files' /\ (OldTrace(f)' \/ f.sess = slot'.experiment)
    BY <1>0 DEF TracyInv, Manifested, OldTrace, Windowed, MovingCall
  <2>8. op'.pc = "complete" =>
          /\ op'.experiment # None
          /\ \A f \in files' : f.sess = op'.experiment => OldTrace(f)' \/ f \in op'.records
          /\ \A f \in op'.records : f \in files' /\ (OldTrace(f)' \/ f.sess = op'.experiment)
    BY <1>0 DEF TracyInv, Manifested, OldTrace
  <2>9. \A d \in Dirs : disk'[d].complete # None => disk'[d].complete # slot'.experiment
    BY <1>0 DEF TracyInv, Manifested, Windowed
  <2> QED
    BY <2>1, <2>4, <2>5, <2>6, <2>7, <2>8, <2>9 DEF Manifested
<1> QED
  BY <1>1, <1>2, <1>3, <1>4, <1>5, <1>6

LEMMA BeginWindowStep ==
  ASSUME TracyInv, NEW c \in Calls, CaptureBegin(c)
  PROVE  TracyInv'
<1>0. TracyTypeOK /\ calls[c].pc = "begin"
      /\ UNCHANGED <<launches, rt, edited, op, overtaken, disk, files>>
  BY DEF TracyInv, CaptureBegin, CallOnly
<1>1. CASE Leave(c) /\ UNCHANGED slot
  BY <1>0, <1>1, QuietDisk, LeavesPlainly
<1>2. CASE /\ MayBegin(calls[c].key) /\ Step(c, "sent")
           /\ slot' = [slot EXCEPT !.active = TRUE]
  <2>1. CallAt(c, "sent") /\ SameCapture(c)
    BY <1>0, <1>2, Stepping DEF CallLabels, Bound
  <2>2. Windowed /\ slot'.active = TRUE /\ slot'.used = slot.used
        /\ slot'.records = slot.records
    BY <1>0, <1>2, SlotActive
  <2>3. MovingCall(c)
    BY <1>0, <2>1, <2>2 DEF MovingCall, CallAt, IsBound, Bound
  <2>4. \A d \in Calls : ~InWindow(d) /\ (InWindow(d)' => d = c)
    BY <1>2, <2>1 DEF MayBegin, TracyInv, Once, OneWindow, InWindow, CallAt
  <2>5. Once'
    <3>1. OneWindow'
      BY <2>2, <2>4 DEF OneWindow
    <3>2. \A f \in files' : OldTrace(f)' \/ f.sess # slot'.experiment \/ f.key \in slot'.used
      BY <1>0, <2>2 DEF TracyInv, Once, OldTrace, Windowed
    <3>3. \A d \in Calls : InWindow(d)' => Passed(d)' \/ calls'[d].key \notin slot'.used
      BY <1>2, <2>1, <2>2, <2>4 DEF MayBegin, SameCapture
    <3>4. \A d \in Calls : calls'[d].pc = "publish" => calls'[d] = calls[d]
      BY <2>1 DEF CallAt
    <3>5. /\ \A d \in Calls : calls'[d].pc = "publish" => Passed(d)' \/ calls'[d].key \in slot'.used
          /\ \A d \in Calls : calls'[d].pc = "publish" /\ Repeats(d)' => Passed(d)'
          /\ \A a, b \in Calls :
               calls'[a].pc = "publish" /\ calls'[b].pc = "publish" /\ a # b
               /\ calls'[a].exp = calls'[b].exp /\ calls'[a].key = calls'[b].key => Passed(a)'
      BY <1>0, <2>2, <3>4 DEF TracyInv, Once, Passed, Repeats
    <3> QED
      BY <3>1, <3>2, <3>3, <3>5 DEF Once
  <2> QED
    BY <2>3, <2>5, MovingKeeps DEF TracyInv
<1> QED
  BY <1>1, <1>2 DEF CaptureBegin

LEMMA FinishStep ==
  ASSUME TracyInv, NEW c \in Calls, CaptureFinish(c)
  PROVE  TracyInv'
<1> DEFINE started == calls[c].result \in {"valid", "invalid", "started"}
<1>0. TracyTypeOK /\ calls[c].pc = "answered" /\ calls[c].key \in Keys
      /\ UNCHANGED <<launches, rt, edited, op, overtaken, disk, files>>
  BY DEF TracyInv, CaptureFinish, CallOnly, Numbered, Bound
<1>1. CASE Leave(c) /\ UNCHANGED slot
  BY <1>0, <1>1, QuietDisk, LeavesPlainly
<1>2. CASE /\ slot' = Finished(calls[c].key, started)
           /\ IF calls[c].result \in {"valid", "invalid"}
              THEN Step(c, "publish") ELSE Leave(c)
  <2>1. Windowed /\ slot'.active = FALSE /\ slot'.records = slot.records
        /\ slot'.used = (IF started THEN slot.used \cup {calls[c].key} ELSE slot.used)
    <3>1. started \in BOOLEAN /\ slot' = Finished(calls[c].key, started)
      BY <1>2
    <3> HIDE DEF started
    <3> QED
      BY <1>0, <3>1, SlotFinished
  <2>2. /\ calls' \in [Calls -> CallRecord]
        /\ \A d \in Calls : d # c => calls'[d] = calls[d]
        /\ \/ calls'[c].pc = "publish" /\ SameCapture(c) /\ started
           \/ calls'[c].pc = "done" /\ calls'[c].exp = None
    <3>1. CASE calls[c].result \in {"valid", "invalid"}
      BY <1>0, <1>2, <3>1, Stepping DEF CallLabels, Bound, CallAt
    <3>2. CASE calls[c].result \notin {"valid", "invalid"}
      BY <1>0, <1>2, <3>2, Leaving DEF CallAt
    <3> QED
      BY <3>1, <3>2
  <2> HIDE DEF started
  <2>3. MovingCall(c)
    BY <1>0, <2>1, <2>2 DEF MovingCall, IsBound, Bound
  <2>4. \A d \in Calls : ~InWindow(d)'
    <3>1. InWindow(c)
      BY <1>0 DEF InWindow
    <3>2. \A d \in Calls : InWindow(d) => d = c
      BY <3>1 DEF TracyInv, Once, OneWindow
    <3> QED
      BY <2>2, <3>2 DEF InWindow
  <2>5. slot.used \subseteq slot'.used
    BY <2>1
  <2>6. Passed(c) \/ calls[c].key \notin slot.used
    BY <1>0 DEF TracyInv, Once, InWindow
  <2>7. \A d \in Calls : d # c /\ calls'[d].pc = "publish" => Passed(d) \/ calls[d].key \in slot.used
    BY <2>2 DEF TracyInv, Once
  <2>8. Once'
    <3>1. OneWindow'
      BY <2>4 DEF OneWindow
    <3>2. \A f \in files' : OldTrace(f)' \/ f.sess # slot'.experiment \/ f.key \in slot'.used
      BY <1>0, <2>1, <2>5 DEF TracyInv, Once, OldTrace, Windowed
    <3>3. \A d \in Calls : calls'[d].pc = "publish" => Passed(d)' \/ calls'[d].key \in slot'.used
      <4>1. calls'[c].pc = "publish" => calls'[c].key \in slot'.used
        BY <2>1, <2>2 DEF SameCapture
      <4>2. \A d \in Calls : d # c /\ calls'[d].pc = "publish" =>
              Passed(d)' \/ calls'[d].key \in slot'.used
        BY <1>0, <2>2, <2>5, <2>7 DEF Passed
      <4> QED
        BY <4>1, <4>2
    <3>4. \A d \in Calls : calls'[d].pc = "publish" /\ Repeats(d)' => Passed(d)'
      <4>1. ASSUME calls'[c].pc = "publish", Repeats(c)'
            PROVE  Passed(c)'
        <5>1. calls'[c].exp = calls[c].exp /\ calls'[c].key = calls[c].key
          BY <2>2, <4>1 DEF SameCapture
        <5> PICK f \in files : f.sess = calls[c].exp /\ f.key = calls[c].key
          BY <1>0, <4>1, <5>1 DEF Repeats
        <5>2. OldTrace(f) => Passed(c)
          BY DEF OldTrace, Passed
        <5>3. Passed(c) \/ calls[c].exp = slot.experiment
          BY <1>0 DEF TracyInv, Manifested, IsBound, Bound
        <5>4. Passed(c)
          BY <2>6, <5>2, <5>3 DEF TracyInv, Once
        <5> QED
          BY <1>0, <5>1, <5>4 DEF Passed
      <4>2. \A d \in Calls : d # c /\ calls'[d].pc = "publish" /\ Repeats(d)' => Passed(d)'
        BY <1>0, <2>2 DEF TracyInv, Once, Passed, Repeats
      <4> QED
        BY <4>1, <4>2
    <3>5. \A a, b \in Calls :
            calls'[a].pc = "publish" /\ calls'[b].pc = "publish" /\ a # b
            /\ calls'[a].exp = calls'[b].exp /\ calls'[a].key = calls'[b].key => Passed(a)'
      <4>1. ASSUME NEW a \in Calls, a # c, calls'[a].pc = "publish", calls'[c].pc = "publish",
                   calls'[a].exp = calls'[c].exp, calls'[a].key = calls'[c].key
            PROVE  Passed(a)' /\ Passed(c)'
        <5>1. calls'[c].exp = calls[c].exp /\ calls'[c].key = calls[c].key
              /\ calls'[a] = calls[a]
          BY <2>2, <4>1 DEF SameCapture
        <5>2. Passed(a) <=> Passed(c)
          BY <4>1, <5>1 DEF Passed
        <5>3. Passed(a)
          BY <2>6, <2>7, <4>1, <5>1, <5>2
        <5> QED
          BY <1>0, <5>1, <5>2, <5>3 DEF Passed
      <4>2. \A a, b \in Calls :
              a # c /\ b # c /\ calls'[a].pc = "publish" /\ calls'[b].pc = "publish" /\ a # b
              /\ calls'[a].exp = calls'[b].exp /\ calls'[a].key = calls'[b].key => Passed(a)'
        BY <1>0, <2>2 DEF TracyInv, Once, Passed
      <4> QED
        BY <4>1, <4>2
    <3> QED
      BY <2>4, <3>1, <3>2, <3>3, <3>4, <3>5 DEF Once
  <2> QED
    BY <2>3, <2>8, MovingKeeps DEF TracyInv
<1> QED
  BY <1>1, <1>2 DEF CaptureFinish

(* The published trace is the one of the request, which now has to record it. *)
LEMMA PublishStep ==
  ASSUME TracyInv, NEW c \in Calls, CapturePublish(c)
  PROVE  TracyInv'
<1>0. TracyTypeOK /\ calls[c].pc = "publish" /\ calls[c].key \in Keys
      /\ calls[c].exp \in 1 .. launches /\ IsBound(c)
      /\ UNCHANGED <<launches, slot, rt, edited, op, overtaken, disk>>
  BY DEF TracyInv, CapturePublish, CallOnly, Numbered, Bound, IsBound
<1>1. CASE Leave(c) /\ UNCHANGED files
  BY <1>0, <1>1, QuietDisk, LeavesPlainly
<1>2. CASE Step(c, "record") /\ files' = files \cup {Trace(c)}
  <2>1. CallAt(c, "record") /\ SameCapture(c) /\ calls'[c].result = calls[c].result
    BY <1>0, <1>2, Stepping DEF CallLabels, Bound
  <2>2. /\ Trace(c).sess = calls[c].exp /\ Trace(c).key = calls[c].key
        /\ (OldTrace(Trace(c)) <=> Passed(c)) /\ Trace(c)' = Trace(c)
    BY <2>1 DEF Trace, OldTrace, Passed, SameCapture
  <2>3. Trace(c) \in TraceRecord
    BY <1>0, TracyAssumption DEF Trace, TraceRecord, TracyTypeOK, Session
  <2>4. TracyTypeOK'
    BY <1>0, <1>2, <2>1, <2>3 DEF TracyTypeOK, CallAt
  <2>5. Held'
    BY <1>0 DEF TracyInv, Held, NothingLeft, ProfilerGone
  <2>6. Numbered'
    <3>1. \A d \in Calls :
            /\ calls'[d].pc \in Bound \cup {"collector", "bind"} => calls'[d].key \in Keys
            /\ IsBound(d)' => calls'[d].exp \in 1 .. launches'
            /\ ~IsBound(d)' => calls'[d].exp = None
      BY <1>0, <2>1 DEF TracyInv, Numbered, CallAt, IsBound, SameCapture, Bound
    <3>2. \A f \in files' : f.sess <= launches'
      BY <1>0, <1>2, <2>2 DEF TracyInv, Numbered
    <3> QED
      BY <1>0, <3>1, <3>2 DEF TracyInv, Numbered
  <2>7. Fresh'
    <3> SUFFICES ASSUME op.pc \in Unopened
                 PROVE  Fresh'
      BY <1>0 DEF Fresh
    <3>1. /\ \A d \in Calls : calls[d].exp # op.id
          /\ \A f \in files : f.sess # op.id
      BY DEF TracyInv, Fresh
    <3>2. /\ \A d \in Calls : calls'[d].exp # op.id
          /\ \A f \in files' : f.sess # op.id
      BY <1>2, <2>1, <2>2, <3>1 DEF CallAt, SameCapture
    <3> QED
      BY <1>0, <3>2 DEF TracyInv, Fresh
  <2>8. Tied'
    <3>1. JournalTied'
      BY <1>0 DEF TracyInv, Tied, JournalTied
    <3>2. \A d \in Calls : calls'[d].pc \in {"pre_capture", "post_capture"} => BaseSound(d)'
      BY <1>0, <2>1 DEF TracyInv, Tied, CallAt, BaseSound, LateBase
    <3>3. \A d \in Calls : IsBound(d)' =>
            calls'[d].exp <= slot'.journal \/ slot'.journal = None
      BY <1>0, <2>1 DEF TracyInv, Tied, CallAt, IsBound, SameCapture
    <3> QED
      BY <1>0, <3>1, <3>2, <3>3 DEF TracyInv, Tied
  <2>e. Passed(c) \/ calls[c].exp = slot.experiment
    BY <1>0 DEF TracyInv, Manifested
  <2>9. Manifested'
    <3>1. \A d \in Calls : IsBound(d)' => Passed(d)' \/ calls'[d].exp = slot'.experiment
      BY <1>0, <2>1 DEF TracyInv, Manifested, CallAt, IsBound, SameCapture, Passed
    <3>2. \A d \in Calls : d # c => Trace(d)' = Trace(d)
      BY <2>1 DEF CallAt, Trace
    <3>3. \A d \in Calls : calls'[d].pc = "record" => Trace(d)' \in files'
      BY <1>2, <2>1, <2>2, <3>2 DEF TracyInv, Manifested, CallAt
    <3>4. \A f \in files' :
            \/ OldTrace(f)' \/ f.sess # slot'.experiment \/ f \in slot'.records
            \/ \E d \in Calls : calls'[d].pc = "record" /\ Trace(d)' = f
      <4>1. ASSUME NEW f \in files
            PROVE  \/ OldTrace(f)' \/ f.sess # slot'.experiment \/ f \in slot'.records
                   \/ \E d \in Calls : calls'[d].pc = "record" /\ Trace(d)' = f
        <5>1. CASE \E d \in Calls : calls[d].pc = "record" /\ Trace(d) = f
          <6> PICK d \in Calls : calls[d].pc = "record" /\ Trace(d) = f
            BY <5>1
          <6>1. d # c
            BY <1>0
          <6> QED
            BY <2>1, <3>2, <6>1 DEF CallAt
        <5> QED
          BY <1>0, <5>1 DEF TracyInv, Manifested, OldTrace
      <4>2. calls'[c].pc = "record" /\ Trace(c)' = Trace(c)
        BY <2>1, <2>2 DEF CallAt
      <4> QED
        BY <1>2, <4>1, <4>2
    <3>5. \A d \in Dirs : Exact(d)'
      <4> SUFFICES ASSUME NEW d \in Dirs, disk[d].complete # None
                   PROVE  Exact(d)'
        BY <1>0 DEF Exact
      <4>1. Exact(d) /\ disk[d].complete # slot.experiment
        BY DEF TracyInv, Manifested
      <4>2. Trace(c).sess = disk[d].complete => OldTrace(Trace(c))
        BY <2>2, <2>e, <4>1
      <4> QED
        BY <1>0, <1>2, <4>1, <4>2 DEF Exact, OldTrace
    <3>6. \A f \in slot'.records : f \in files' /\ (OldTrace(f)' \/ f.sess = slot'.experiment)
      BY <1>0, <1>2 DEF TracyInv, Manifested, OldTrace
    <3>7. op'.pc = "complete" =>
            /\ op'.experiment # None
            /\ \A f \in files' : f.sess = op'.experiment => OldTrace(f)' \/ f \in op'.records
            /\ \A f \in op'.records : f \in files' /\ (OldTrace(f)' \/ f.sess = op'.experiment)
      <4> SUFFICES ASSUME op.pc = "complete"
                   PROVE  /\ op.experiment # None
                          /\ \A f \in files' : f.sess = op.experiment => OldTrace(f) \/ f \in op.records
                          /\ \A f \in op.records : f \in files' /\ (OldTrace(f) \/ f.sess = op.experiment)
        BY <1>0 DEF OldTrace
      <4>1. /\ op.experiment # None
            /\ \A f \in files : f.sess = op.experiment => OldTrace(f) \/ f \in op.records
            /\ \A f \in op.records : f \in files /\ (OldTrace(f) \/ f.sess = op.experiment)
        BY DEF TracyInv, Manifested
      <4>2. slot.experiment = None
        BY DEF TracyInv, Held
      <4>3. OldTrace(Trace(c))
        <5>1. calls[c].exp # None
          BY <1>0 DEF None
        <5> QED
          BY <2>2, <2>e, <4>2, <5>1
      <4> QED
        BY <1>2, <4>1, <4>3
    <3>8. \A d \in Dirs : disk'[d].complete # None => disk'[d].complete # slot'.experiment
      BY <1>0 DEF TracyInv, Manifested
    <3> QED
      BY <3>1, <3>3, <3>4, <3>5, <3>6, <3>7, <3>8 DEF Manifested
  <2>10. Once'
    <3>1. \A d \in Calls : InWindow(d)' => InWindow(d) /\ calls'[d] = calls[d]
      BY <2>1 DEF CallAt, InWindow
    <3>2. \A d \in Calls : calls'[d].pc = "publish" => d # c /\ calls'[d] = calls[d]
      BY <2>1 DEF CallAt
    <3>3. OneWindow'
      BY <1>0, <3>1 DEF TracyInv, Once, OneWindow
    <3>4. \A f \in files' : OldTrace(f)' \/ f.sess # slot'.experiment \/ f.key \in slot'.used
      <4>1. OldTrace(Trace(c)) \/ Trace(c).key \in slot.used
        BY <1>0, <2>2 DEF TracyInv, Once
      <4> QED
        BY <1>0, <1>2, <4>1 DEF TracyInv, Once, OldTrace
    <3>5. /\ \A d \in Calls : calls'[d].pc = "publish" => Passed(d)' \/ calls'[d].key \in slot'.used
          /\ \A d \in Calls : InWindow(d)' => Passed(d)' \/ calls'[d].key \notin slot'.used
          /\ \A a, b \in Calls :
               calls'[a].pc = "publish" /\ calls'[b].pc = "publish" /\ a # b
               /\ calls'[a].exp = calls'[b].exp /\ calls'[a].key = calls'[b].key => Passed(a)'
      BY <1>0, <3>1, <3>2 DEF TracyInv, Once, Passed
    <3>6. ASSUME NEW d \in Calls, calls'[d].pc = "publish", Repeats(d)'
          PROVE  Passed(d)'
      <4>1. d # c /\ calls'[d] = calls[d] /\ calls[d].pc = "publish"
        BY <3>2, <3>6
      <4>2. PICK f \in files' : f.sess = calls[d].exp /\ f.key = calls[d].key
        BY <3>6, <4>1 DEF Repeats
      <4>3. CASE f \in files
        BY <1>0, <4>1, <4>2, <4>3 DEF TracyInv, Once, Repeats, Passed
      <4>4. CASE f = Trace(c)
        <5>1. calls[d].exp = calls[c].exp /\ calls[d].key = calls[c].key
          BY <2>2, <4>2, <4>4
        <5>2. Passed(d)
          BY <1>0, <4>1, <5>1 DEF TracyInv, Once
        <5> QED
          BY <1>0, <4>1, <5>2 DEF Passed
      <4> QED
        BY <1>2, <4>2, <4>3, <4>4
    <3> QED
      BY <3>3, <3>4, <3>5, <3>6 DEF Once
  <2> QED
    BY <2>4, <2>5, <2>6, <2>7, <2>8, <2>9, <2>10 DEF TracyInv
<1> QED
  BY <1>1, <1>2 DEF CapturePublish

LEMMA SlotRecorded ==
  ASSUME TracyTypeOK, NEW t \in TraceRecord,
         slot' = [slot EXCEPT !.owned = @ \cup {t}, !.records = @ \cup {t}]
  PROVE  Windowed /\ slot'.active = slot.active /\ slot'.used = slot.used
         /\ slot'.records = slot.records \cup {t}
<1> DEFINE m == [slot EXCEPT !.owned = slot.owned \cup {t}]
<1>0. slot \in SlotRecord /\ slot.records \cup {t} \in SUBSET TraceRecord
      /\ slot.owned \cup {t} \in SUBSET Things
  BY DEF TracyTypeOK, SlotRecord, Things
<1>1. slot' = [m EXCEPT !.records = slot.records \cup {t}]
  BY <1>0 DEF SlotRecord
<1>2. m \in SlotRecord
  BY <1>0, SlotField
<1>3. /\ m.journal = slot.journal /\ m.dir = slot.dir
      /\ m.experiment = slot.experiment /\ m.collector = slot.collector
      /\ m.sampler = slot.sampler /\ m.wake = slot.wake
      /\ m.active = slot.active /\ m.used = slot.used
  BY <1>0 DEF SlotRecord
<1> HIDE DEF m
<1>4. slot' \in SlotRecord
  BY <1>0, <1>1, <1>2, SlotField
<1> QED
  BY <1>1, <1>2, <1>3, <1>4 DEF Windowed, SlotRecord

LEMMA RecordStep ==
  ASSUME TracyInv, NEW c \in Calls, CaptureRecord(c)
  PROVE  TracyInv'
<1>0. TracyTypeOK /\ calls[c].pc = "record" /\ calls[c].key \in Keys
      /\ calls[c].exp \in 1 .. launches /\ IsBound(c)
      /\ UNCHANGED <<launches, rt, edited, op, overtaken, disk, files>>
  BY DEF TracyInv, CaptureRecord, CallOnly, Numbered, Bound, IsBound
<1>1. Trace(c) \in TraceRecord
  BY <1>0, TracyAssumption DEF Trace, TraceRecord, TracyTypeOK, Session
<1>2. /\ CallAt(c, "post_capture") /\ SameCapture(c)
      /\ calls'[c].check.base = slot.journal
  <2> DEFINE k == [ReadCheck EXCEPT !.owned = @ \cup {Trace(c)}]
  <2>1. k \in CheckRecord /\ k.base = slot.journal
    BY <1>0, <1>1, Seen DEF CheckRecord, Things
  <2>2. calls' = [calls EXCEPT ![c].pc = "post_capture", ![c].check = k]
    BY DEF CaptureRecord
  <2>3. "post_capture" \in CallLabels
    BY DEF CallLabels, Bound
  <2> HIDE DEF k
  <2> QED
    BY <1>0, <2>1, <2>2, <2>3, CheckRead
<1>3. Windowed /\ slot'.active = slot.active /\ slot'.used = slot.used
      /\ slot'.records = slot.records \cup {Trace(c)}
  BY <1>0, <1>1, SlotRecorded DEF CaptureRecord
<1>4. /\ Trace(c).sess = calls[c].exp /\ Trace(c).key = calls[c].key
      /\ (OldTrace(Trace(c)) <=> Passed(c)) /\ Trace(c) \in files
      /\ Passed(c) \/ calls[c].exp = slot.experiment
  BY <1>0 DEF Trace, OldTrace, Passed, TracyInv, Manifested
<1>5. TracyTypeOK'
  BY <1>0, <1>2, <1>3 DEF TracyTypeOK, CallAt, Windowed
<1>6. Held'
  BY <1>0, <1>3, HeldWindowed DEF TracyInv
<1>7. Numbered'
  <2>1. \A d \in Calls :
          /\ calls'[d].pc \in Bound \cup {"collector", "bind"} => calls'[d].key \in Keys
          /\ IsBound(d)' => calls'[d].exp \in 1 .. launches'
          /\ ~IsBound(d)' => calls'[d].exp = None
    BY <1>0, <1>2 DEF TracyInv, Numbered, CallAt, IsBound, SameCapture, Bound
  <2> QED
    BY <1>0, <1>3, <2>1 DEF TracyInv, Numbered, Windowed
<1>8. Fresh'
  <2> SUFFICES ASSUME op.pc \in Unopened
               PROVE  Fresh'
    BY <1>0 DEF Fresh
  <2>1. \A d \in Calls : calls'[d].exp # op.id
    BY <1>2 DEF TracyInv, Fresh, CallAt, SameCapture
  <2> QED
    BY <1>0, <1>3, <2>1 DEF TracyInv, Fresh, Windowed
<1>9. Tied'
  <2>1. JournalTied'
    BY <1>0, <1>3 DEF TracyInv, Tied, JournalTied, Windowed
  <2>2. BaseSound(c)'
    BY <1>0, <1>2, <1>3 DEF TracyInv, Tied, BaseSound, SameCapture, Windowed
  <2>3. \A d \in Calls : calls'[d].pc \in {"pre_capture", "post_capture"} => BaseSound(d)'
    BY <1>0, <1>2, <1>3, <2>2
    DEF TracyInv, Tied, CallAt, BaseSound, LateBase, Windowed
  <2>4. \A d \in Calls : IsBound(d)' =>
          calls'[d].exp <= slot'.journal \/ slot'.journal = None
    BY <1>0, <1>2, <1>3 DEF TracyInv, Tied, CallAt, IsBound, SameCapture, Windowed
  <2> QED
    BY <1>0, <1>3, <2>1, <2>3, <2>4 DEF TracyInv, Tied, Windowed
<1>10. Manifested'
  <2>1. \A d \in Calls : IsBound(d)' => Passed(d)' \/ calls'[d].exp = slot'.experiment
    BY <1>0, <1>2, <1>3
    DEF TracyInv, Manifested, CallAt, IsBound, SameCapture, Passed, Windowed
  <2>2. \A d \in Calls : d # c => calls'[d] = calls[d] /\ Trace(d)' = Trace(d)
    BY <1>2 DEF CallAt, Trace
  <2>3. \A d \in Calls : calls'[d].pc = "record" => Trace(d)' \in files'
    BY <1>0, <1>2, <2>2 DEF TracyInv, Manifested, CallAt
  <2>4. ASSUME NEW f \in files
        PROVE  \/ OldTrace(f)' \/ f.sess # slot'.experiment \/ f \in slot'.records
               \/ \E d \in Calls : calls'[d].pc = "record" /\ Trace(d)' = f
    <3>1. CASE \E d \in Calls : calls[d].pc = "record" /\ Trace(d) = f
      <4> PICK d \in Calls : calls[d].pc = "record" /\ Trace(d) = f
        BY <3>1
      <4>1. CASE d = c
        BY <1>3, <4>1
      <4>2. CASE d # c
        BY <2>2, <4>2
      <4> QED
        BY <4>1, <4>2
    <3> QED
      BY <1>0, <1>3, <3>1 DEF TracyInv, Manifested, OldTrace, Windowed
  <2>5. \A f \in slot'.records : f \in files' /\ (OldTrace(f)' \/ f.sess = slot'.experiment)
    <3>1. \A f \in slot.records : f \in files /\ (OldTrace(f) \/ f.sess = slot.experiment)
      BY DEF TracyInv, Manifested
    <3> QED
      BY <1>0, <1>3, <1>4, <3>1 DEF OldTrace, Windowed
  <2>6. \A d \in Dirs : Exact(d)'
    BY <1>0 DEF TracyInv, Manifested, Exact, OldTrace
  <2>7. op'.pc = "complete" =>
          /\ op'.experiment # None
          /\ \A f \in files' : f.sess = op'.experiment => OldTrace(f)' \/ f \in op'.records
          /\ \A f \in op'.records : f \in files' /\ (OldTrace(f)' \/ f.sess = op'.experiment)
    BY <1>0 DEF TracyInv, Manifested, OldTrace
  <2>8. \A d \in Dirs : disk'[d].complete # None => disk'[d].complete # slot'.experiment
    BY <1>0, <1>3 DEF TracyInv, Manifested, Windowed
  <2>9. \A f \in files' :
          \/ OldTrace(f)' \/ f.sess # slot'.experiment \/ f \in slot'.records
          \/ \E d \in Calls : calls'[d].pc = "record" /\ Trace(d)' = f
    BY <1>0, <2>4
  <2> QED
    BY <2>1, <2>3, <2>5, <2>6, <2>7, <2>8, <2>9 DEF Manifested
<1>11. Once'
  <2>1. \A d \in Calls : InWindow(d)' => InWindow(d) /\ calls'[d] = calls[d]
    BY <1>2 DEF CallAt, InWindow
  <2>2. \A d \in Calls : calls'[d].pc = "publish" => calls'[d] = calls[d]
    BY <1>2 DEF CallAt
  <2>3. OneWindow'
    BY <1>3, <2>1 DEF TracyInv, Once, OneWindow
  <2>4. /\ \A f \in files' : OldTrace(f)' \/ f.sess # slot'.experiment \/ f.key \in slot'.used
        /\ \A d \in Calls : InWindow(d)' => Passed(d)' \/ calls'[d].key \notin slot'.used
    BY <1>0, <1>3, <2>1 DEF TracyInv, Once, OldTrace, Passed, Windowed
  <2>5. /\ \A d \in Calls : calls'[d].pc = "publish" => Passed(d)' \/ calls'[d].key \in slot'.used
        /\ \A d \in Calls : calls'[d].pc = "publish" /\ Repeats(d)' => Passed(d)'
        /\ \A a, b \in Calls :
             calls'[a].pc = "publish" /\ calls'[b].pc = "publish" /\ a # b
             /\ calls'[a].exp = calls'[b].exp /\ calls'[a].key = calls'[b].key => Passed(a)'
    BY <1>0, <1>3, <2>2 DEF TracyInv, Once, Passed, Repeats
  <2> QED
    BY <2>3, <2>4, <2>5 DEF Once
<1> QED
  BY <1>5, <1>6, <1>7, <1>8, <1>9, <1>10, <1>11 DEF TracyInv

LEMMA CaptureStep ==
  ASSUME TracyInv, NEW c \in Calls, Capture(c)
  PROVE  TracyInv'
<1>1. CASE \E k \in Keys : CaptureCall(c, k)
  BY <1>1, RequestStep
<1>2. CASE \E result \in Results : WindowEnds(c, result)
  BY <1>2, EndStep
<1> QED
  BY <1>1, <1>2, CollectorLookStep, BindStep, CheckStep, BeginWindowStep, WindowStep,
     FinishStep, PublishStep, RecordStep DEF Capture

LEMMA TracyInit ==
  ASSUME Init
  PROVE  TracyInv
<1>1. /\ launches = 0 /\ slot = EmptySlot /\ rt = StoppedRuntime /\ op = NoOp
      /\ disk = [d \in Dirs |-> Unused] /\ files = {} /\ edited = FALSE
      /\ calls = [c \in Calls |-> NoCall] /\ overtaken = {}
  BY DEF Init
<1>2. /\ slot.journal = None /\ slot.collector = None /\ slot.experiment = None
      /\ slot.sampler = FALSE /\ slot.wake = FALSE /\ slot.records = {} /\ slot.active = FALSE
      /\ slot \in SlotRecord
  BY <1>1, Empty DEF EmptySlot
<1>3. /\ op \in OpRecord /\ op.pc = "idle" /\ op.launching = FALSE /\ op.bad = FALSE
      /\ op.experiment = None
  BY <1>1, Empty
<1>4. \A c \in Calls : /\ calls[c] \in CallRecord /\ calls[c].pc = "idle"
                       /\ calls[c].exp = None
  BY <1>1, Empty DEF NoCall
<1>5. \A d \in Dirs : /\ disk[d] \in DiskRecord /\ disk[d].bases = {}
                      /\ disk[d].complete = None
  BY <1>1, Empty DEF Unused
<1>6. rt \in RuntimeRecord /\ ProfilerGone
  BY <1>1 DEF StoppedRuntime, RuntimeRecord, ProfilerGone
<1>7. TracyTypeOK
  <2>1. disk \in [Dirs -> DiskRecord]
    BY <1>1, Empty
  <2>2. calls \in [Calls -> CallRecord]
    BY <1>1, Empty
  <2>0. launches = 0 /\ files = {} /\ edited = FALSE
    BY <1>1
  <2>3. launches \in 0 .. MaxSessions /\ files \in SUBSET TraceRecord /\ edited \in BOOLEAN
    <3>1. MaxSessions \in Nat
      BY TracyAssumption
    <3>2. 0 \in 0 .. MaxSessions /\ {} \in SUBSET TraceRecord /\ FALSE \in BOOLEAN
      BY <3>1
    <3> QED
      BY <2>0, <3>2
  <2>4. slot \in SlotRecord /\ op \in OpRecord /\ rt \in RuntimeRecord
    BY <1>2, <1>3, <1>6
  <2> QED
    BY <2>1, <2>2, <2>3, <2>4 DEF TracyTypeOK
<1>8. Held /\ Fresh
  BY <1>2, <1>3, <1>6 DEF Held, NothingLeft, Fresh, Starting, Unopened
<1>9. Numbered
  BY <1>1, <1>2, <1>3, <1>4, <1>5 DEF Numbered, Starting, Bound, IsBound, None
<1>10. Tied
  BY <1>2, <1>3, <1>4, <1>5 DEF Tied, JournalTied, IsBound, Bound
<1>11. Manifested /\ Once
  BY <1>1, <1>2, <1>3, <1>4, <1>5
  DEF Manifested, Once, OneWindow, InWindow, Exact, IsBound, Bound
<1> QED
  BY <1>7, <1>8, <1>9, <1>10, <1>11 DEF TracyInv

LEMMA TracyKeeps ==
  ASSUME TracyInv, [Next]_vars
  PROVE  TracyInv'
<1>1. CASE Launch
  BY <1>1, BeginStep, InstallStep, RefusedStep, ManifestStep, QuietStep, QuietKeeps
  DEF Launch, Quietly
<1>2. CASE Stop
  BY <1>2, TakeStep, CompleteStep, FinalStep, QuietStep, QuietKeeps DEF Stop, Quietly
<1>3. CASE \E c \in Calls : Capture(c)
  BY <1>3, CaptureStep
<1> QED
  BY <1>1, <1>2, <1>3, EnvironmentStep DEF Next

LEMMA TracyInvariant == Spec => []TracyInv
<1>1. Init => TracyInv
  BY TracyInit
<1>2. TracyInv /\ [Next]_vars => TracyInv'
  BY TracyKeeps
<1> QED
  BY <1>1, <1>2, PTL DEF Spec

(***************************************************************************)
(* The journal and the manifests on disk tell of the session that wrote    *)
(* them: the experiment-complete manifest lists exactly that session's     *)
(* published traces, and no checkpoint reaches another session's journal,  *)
(* but for captures that a launch or a stop overtook (stop_with_lifecycle, *)
(* checkpoint_integrity).                                                  *)
(***************************************************************************)
THEOREM RecordsOfTheirSession == Spec => []RecordsTied
<1>1. TracyInv => RecordsTied
  <2> SUFFICES ASSUME TracyInv
               PROVE  RecordsTied
    OBVIOUS
  <2>1. JournalTied
    BY DEF TracyInv, Tied
  <2>2. \A d \in Dirs : Exact(d)
    BY DEF TracyInv, Manifested
  <2>3. ManifestExact
    BY <2>2 DEF ManifestExact, Exact, OldTrace
  <2> QED
    BY <2>1, <2>3 DEF RecordsTied
<1> QED
  BY <1>1, TracyInvariant, PTL

(***************************************************************************)
(* Between operations a session without an open journal has left nothing:  *)
(* collector, profiled runtime, sampler and wake client are gone, whatever *)
(* failed on the way (stop_with_lifecycle releases the journal last).      *)
(***************************************************************************)
THEOREM ProcessesGoFirst == Spec => []JournalOutlivesProcesses
<1>1. TracyInv => JournalOutlivesProcesses
  BY DEF TracyInv, Held, NothingLeft, ProfilerGone, JournalOutlivesProcesses
<1> QED
  BY <1>1, TracyInvariant, PTL

(***************************************************************************)
(* At most one capture window at a time, and at most one published trace   *)
(* per phase and iteration of an experiment, for any number of racing      *)
(* requests (begin_capture, finish_capture), overtaken ones excepted.      *)
(***************************************************************************)
THEOREM OneTracePerKey == Spec => PublishedOnce
<1> DEFINE A == /\ OneWindow'
                /\ \A c \in Calls : Publishes(c) /\ Repeats(c) =>
                     <<calls[c].exp, calls[c].key>> \in overtaken
<1>1. TracyInv /\ TracyInv' => A
  BY DEF TracyInv, Once, Publishes, Passed
<1>2. TracyInv /\ TracyInv' /\ [Next]_vars => [A]_vars
  BY <1>1
<1> HIDE DEF A
<1>3. Spec => [][A]_vars
  BY <1>2, TracyInvariant, PTL DEF Spec
<1> QED
  BY <1>3 DEF PublishedOnce, A

(* A step that has seen a failed checkpoint keeps it and every status.       *)
StatusKept == \A d \in Dirs : disk'[d].status = disk[d].status
Remembers == op'.bad \/ op'.pc \in {"idle", "failed", "pre_stop"}

LEMMA StatusStays ==
  ASSUME TracyTypeOK, disk' = disk
  PROVE  StatusKept
BY DEF StatusKept

LEMMA CaptureRemembers ==
  ASSUME TracyInv, NEW c \in Calls, Capture(c)
  PROVE  op' = op /\ StatusKept
<1>1. CASE CaptureCheck(c)
  <2>1. TracyTypeOK /\ (slot.journal # None => slot.dir \in Dirs)
        /\ calls[c].check \in CheckRecord
    BY DEF TracyInv, TracyTypeOK, CallRecord, Tied
  <2>2. disk' = disk \/ RecordCheck(calls[c].check)
    BY <1>1 DEF CaptureCheck
  <2>3. StatusKept
    BY <2>1, <2>2, Recording DEF StatusKept, DiskKept
  <2> QED
    BY <1>1, <2>3 DEF CaptureCheck, CallOnly
<1>2. CASE ~CaptureCheck(c)
  <2>1. op' = op /\ disk' = disk
    BY <1>2 DEF Capture, CaptureCall, CaptureCollector, CaptureBind, CaptureBegin,
                WindowStarts, WindowEnds, CaptureFinish, CapturePublish, CaptureRecord, CallOnly
  <2> QED
    BY <2>1 DEF StatusKept
<1> QED
  BY <1>1, <1>2

LEMMA StopRemembers ==
  ASSUME TracyInv, Stop, op.bad
  PROVE  Remembers /\ StatusKept
<1>0. TracyTypeOK /\ Held /\ op \in OpRecord /\ op.pc \in Closing \cup {"failed"}
  BY DEF TracyInv, TracyTypeOK, Held
<1>r. StopReturns => Remembers
  BY <1>0, Returning, Empty DEF Continues, Remembers
<1>1. CASE StopBegin
  BY <1>0, <1>1 DEF StopBegin, Closing
<1>2. CASE StopCheck
  <2>1. QuietOp
    BY <1>2, QuietStep DEF Quietly
  <2>2. op' = [op EXCEPT !.pc = IF @ = "pre_stop" THEN "cancel" ELSE "final",
                         !.check = NoCheck,
                         !.bad = @ \/ (op.check.base # None /\ Violates(op.check))]
    BY <1>2 DEF StopCheck
  <2>3. op'.bad
    BY <1>0, <2>2 DEF OpRecord
  <2> QED
    BY <2>1, <2>3 DEF Remembers, StatusKept, QuietOp, DiskKept
<1>3. CASE StopWaited
  <2>1. op'.bad = op.bad
    BY <1>0, <1>3, Going DEF StopWaited, OpLabels, Closing
  <2> QED
    BY <1>0, <1>3, <2>1, StatusStays DEF StopWaited, Remembers
<1>4. CASE StopCollector
  <2>1. op'.bad = op.bad
    BY <1>0, <1>4 DEF StopCollector, OpRecord
  <2> QED
    BY <1>0, <1>4, <2>1, StatusStays DEF StopCollector, Remembers
<1>5. CASE StopRuntime
  <2>1. CASE op' = [op EXCEPT !.pc = "take", !.profiled = rt.kind = "tracy"]
    <3>1. op'.bad = op.bad
      BY <1>0, <2>1 DEF OpRecord
    <3> QED
      BY <1>0, <1>5, <3>1, StatusStays DEF StopRuntime, Remembers
  <2> QED
    BY <1>0, <1>5, <1>r, <2>1, StatusStays DEF StopRuntime
<1>6. CASE StopTake
  <2>1. CASE ToCheck("post_stop")
    <3>1. op'.bad = op.bad
      BY <1>0, <2>1, Checking DEF OpLabels, Closing
    <3> QED
      BY <1>0, <1>6, <3>1, StatusStays DEF StopTake, Remembers
  <2>2. CASE op' = [op EXCEPT !.pc = "complete", !.records = slot.records,
                              !.experiment = slot.experiment]
    <3>1. op'.bad = op.bad
      BY <1>0, <2>2 DEF OpRecord
    <3> QED
      BY <1>0, <1>6, <3>1, StatusStays DEF StopTake, Remembers
  <2> QED
    BY <1>0, <1>6, <1>r, <2>1, <2>2, StatusStays DEF StopTake
<1>7. CASE StopManifest
  <2>1. CASE op' # NoOp /\ op'.pc # "failed"
    BY <1>7, <2>1, CompleteEffect DEF Remembers, StatusKept
  <2>2. CASE op' = NoOp \/ op'.pc = "failed"
    <3>0. op'.pc # "post_stop" /\ "post_stop" \in OpLabels
      BY <2>2, Empty DEF OpLabels, Closing
    <3>1. ~ToCheck("post_stop")
      BY <1>0, <3>0, Checking DEF Continues
    <3> QED
      BY <1>0, <1>7, <1>r, <3>1, StatusStays DEF StopManifest
  <2> QED
    BY <2>1, <2>2
<1>8. CASE StopFinalize
  BY <1>0, <1>8, <1>r, StatusStays DEF StopFinalize
<1> QED
  BY <1>1, <1>2, <1>3, <1>4, <1>5, <1>6, <1>7, <1>8 DEF Stop

LEMMA FailureRemembered ==
  ASSUME TracyInv, [Next]_vars, op.bad
  PROVE  Remembers /\ StatusKept
<1>0. TracyTypeOK /\ op.pc \in Closing \cup {"failed"}
  BY DEF TracyInv, Held
<1>1. CASE Launch
  <2>1. LaunchFailed
    BY <1>0, <1>1, Zenon
    DEF Launch, LaunchBegin, LaunchInstall, LaunchRun, LaunchCollector, LaunchConnect,
        LaunchManifest, LaunchWake, LaunchClient, LaunchReady, LaunchDirty, Closing
  <2>2. op'.pc \in {"idle", "pre_stop"}
    BY <1>0, <2>1, Stopping, Empty DEF LaunchFailed
  <2>3. disk' = disk
    BY <2>1 DEF LaunchFailed
  <2>4. StatusKept
    BY <1>0, <2>3, StatusStays
  <2> QED
    BY <2>2, <2>4 DEF Remembers
<1>2. CASE Stop
  BY <1>2, StopRemembers
<1>3. CASE \E c \in Calls : Capture(c)
  BY <1>3, CaptureRemembers DEF Remembers
<1>4. CASE Environment \/ UNCHANGED vars
  <2>1. disk' = disk /\ (op' = op \/ op' = NoOp)
    BY <1>4
    DEF Environment, RuntimeExits, CollectorDies, Edit, RunStandard, StopAnyRuntime,
                Crash, vars
  <2> QED
    BY <1>0, <2>1, Empty, StatusStays DEF Remembers
<1> QED
  BY <1>1, <1>2, <1>3, <1>4 DEF Next

(***************************************************************************)
(* A stop that has seen a failed checkpoint never finalizes a journal:     *)
(* until it returns it remembers the failure, and no journal's status      *)
(* changes while it does (the errors stop_with_lifecycle collects).        *)
(***************************************************************************)
THEOREM FailuresStayOpen == Spec => FailedCheckRemembered
<1> DEFINE A == op.bad => /\ op'.bad \/ op'.pc \in {"idle", "failed", "pre_stop"}
                          /\ \A d \in Dirs : disk'[d].status = disk[d].status
<1>1. TracyInv /\ [Next]_vars => A
  BY FailureRemembered DEF Remembers, StatusKept
<1>2. TracyInv /\ [Next]_vars => [A]_vars
  BY <1>1
<1> HIDE DEF A
<1>3. Spec => [][A]_vars
  BY <1>2, TracyInvariant, PTL DEF Spec
<1> QED
  BY <1>3 DEF FailedCheckRemembered, A

-----------------------------------------------------------------------------
(* The debugger.  What the parts of its state are.                           *)
FrameRecord ==
  [kind : {"report", "disconnect", "stddef", "ack", "query", "offset", "unset", "set"},
   number : Nat, ok : BOOLEAN]
AskRecord ==
  [kind : {"stddef", "configured", "query", "control", "catch", "offset", "unset", "set",
           "disconnect"},
   points : SUBSET Points, number : Nat]
EventRecord == [seq : Nat, kind : {"report", "disconnect"}]
ConnectionRecord ==
  [asked : Nat, pending : Seq(FrameRecord), torn : BOOLEAN, seq : Nat,
   ring : Seq(EventRecord), dropped : Nat, active : SUBSET Points,
   recorded : Seq(FrameRecord), late : BOOLEAN, stale : BOOLEAN, broken : BOOLEAN]
TargetRecord ==
  [host : {"none", "alive", "dead"}, inbox : Seq(AskRecord), points : SUBSET Points,
   reports : Nat]
DebugLabels ==
  {"idle", "accept", "stddef", "configure", "configured", "query", "control", "replace",
   "offset", "unset", "set", "wait"}
DebugOpRecord ==
  [pc : DebugLabels, ses : DebugSessions \cup {NoDebug}, asked : Nat,
   remove : SUBSET Points, resolve : SUBSET Points, add : SUBSET Points,
   point : SUBSET Points, installed : SUBSET Points, after : Nat,
   kinds : SUBSET {"report", "disconnect"}]

DebugTypeOK ==
  /\ dbgSlot \in DebugSessions \cup {NoDebug}
  /\ dbgOp \in DebugOpRecord
  /\ dbgSes \in [DebugSessions -> ConnectionRecord]
  /\ dbgStream \in [DebugSessions -> Seq(FrameRecord)]
  /\ dbgTarget \in [DebugSessions -> TargetRecord]
  /\ dbgStop \in [DebugSessions -> {"no", "asked", "disconnected", "done"}]
  /\ dbgRuntime \in BOOLEAN

(* The slot's lock and `lifecycle` leave one session to the calls: the one    *)
(* in the slot, or the one a launch is about to put there.                    *)
Live(s) == s = dbgSlot \/ (Launching /\ s = S)
Locked ==
  /\ Unlocked => S = NoDebug
  /\ Launching => dbgSlot = NoDebug /\ S \in DebugSessions /\ ~dbgRuntime
  /\ ~Unlocked /\ ~Launching => S = dbgSlot /\ dbgSlot # NoDebug
  /\ dbgRuntime => dbgSlot = NoDebug /\ Unlocked
Spawned ==
  \A s \in DebugSessions :
    /\ dbgTarget[s].host = "alive" => Live(s) \/ dbgStop[s] # "no"
    /\ Live(s) => dbgTarget[s].host # "none" /\ dbgStop[s] = "no"
    /\ dbgTarget[s].host = "none" =>
         /\ dbgTarget[s] = NoTarget /\ dbgSes[s] = NoSession
         /\ dbgStream[s] = <<>> /\ dbgStop[s] = "no"

(* What was reported: the numbers of the reports in the stream go on from    *)
(* those the session has, without a gap; and a Disconnect ends the stream.    *)
IsAnswer(frame) == ~IsReport(frame) /\ frame.kind # "disconnect"
Reported(q, n, r) ==
  /\ n <= r
  /\ \A i \in 1 .. Len(q) : IsReport(q[i]) => q[i].number \in n + 1 .. r
  /\ \A m \in n + 1 .. r : \E i \in 1 .. Len(q) : IsReport(q[i]) /\ q[i].number = m
  /\ \A i, j \in 1 .. Len(q) :
       IsReport(q[i]) /\ IsReport(q[j]) /\ i < j => q[i].number < q[j].number
NoDisconnect(q) == \A i \in 1 .. Len(q) : q[i].kind # "disconnect"
Ends(q, h) == \A i \in 1 .. Len(q) : q[i].kind = "disconnect" => i = Len(q) /\ h = "dead"
Kept(r, p, c, q, n, h) ==
  /\ \A i \in 1 .. Len(r) : r[i].number = i
  /\ \A i \in 1 .. Len(p) : IsReport(p[i]) /\ p[i].number = Len(r) + i
  /\ Reported(q, Len(r) + Len(p), n)
  /\ Ends(q, h)
  /\ c \in {Len(r), Len(r) + 1}
  /\ c = Len(r) + 1 => h = "dead" /\ NoDisconnect(q)
Whole(x, q, t) ==
  /\ Kept(x.recorded, x.pending, Len(x.ring) + x.dropped, q, t.reports, t.host)
  /\ Len(x.ring) <= RingSize
  /\ \A i \in 1 .. Len(t.inbox) : t.inbox[i].kind # "disconnect"

(* At most one request is out, the one the call that reads has asked, unless  *)
(* a request of the session timed out or the connection lost its framing:     *)
(* o is the call, q the stream, b the target's inbox and h its host.          *)
Reads(o) == o.pc \notin {"idle", "accept", "configure", "replace", "wait"}
Silent(q) == \A i \in 1 .. Len(q) : ~IsAnswer(q[i])
Unasked(b, h) == h = "alive" => \A i \in 1 .. Len(b) : b[i].kind = "catch"
Paired(o, q, b, h) ==
  /\ \A i \in 1 .. Len(q) :
       IsAnswer(q[i]) => /\ Reads(o) /\ q[i].number = o.asked
                         /\ q[i].kind = AnswerKind(o.pc) /\ Unasked(b, h)
  /\ \A i, j \in 1 .. Len(q) : IsAnswer(q[i]) /\ IsAnswer(q[j]) => i = j
  /\ h = "alive" =>
       /\ \A i \in 1 .. Len(b) :
            b[i].kind # "catch" => /\ Reads(o) /\ b[i].number = o.asked
                                   /\ b[i].kind = o.pc /\ Silent(q)
       /\ \A i, j \in 1 .. Len(b) : b[i].kind # "catch" /\ b[j].kind # "catch" => i = j
Matched(o, x, q, t) ==
  (x.stale => x.late) /\ (~x.late /\ ~x.torn => Paired(o, q, t.inbox, t.host))

(* How far a replacement has come with the target's breakpoints, v.           *)
Replacing(o) == o.pc \in {"replace", "offset", "unset", "set"}
Phased(o) ==
  /\ o.pc = "offset" \/ (o.pc = "replace" /\ (o.resolve # {} \/ o.remove # {})) =>
       o.installed = {}
  /\ o.pc = "unset" => o.resolve = {} /\ o.installed = {}
  /\ o.pc = "set" => o.resolve = {} /\ o.remove = {} /\ \E p \in o.add : o.point = {p}
Placing(o, b, h) ==
  h = "alive" => \A i \in 1 .. Len(b) :
    b[i].kind \in {"set", "unset"} => o.pc = b[i].kind /\ b[i].points = o.point
Halfway(o, v) == v \ o.add = o.remove \cup o.installed
Carried(o, q, v) ==
  IF Silent(q) THEN Halfway(o, v)
  ELSE \/ o.pc = "unset" /\ v \ o.add = o.remove \ o.point
       \/ /\ o.pc = "set"
          /\ \A i \in 1 .. Len(q) : IsAnswer(q[i]) =>
               v \ (o.add \ o.point) = o.installed \cup (IF q[i].ok THEN o.point ELSE {})
Untouched(o) == ~Replacing(o) \/ o.pc = "offset" \/ (o.pc = "replace" /\ o.resolve # {})
Followed(o, x, q, t) ==
  ~x.late /\ ~x.broken =>
    /\ Placing(o, t.inbox, t.host)
    /\ Untouched(o) => t.points = x.active
    /\ o.pc \in {"replace", "offset"} => Halfway(o, t.points)
    /\ o.pc \in {"unset", "set"} /\ ~x.torn => Carried(o, q, t.points)

Sound(o, x, q, t) ==
  /\ Whole(x, q, t) /\ Matched(o, x, q, t) /\ Phased(o) /\ Followed(o, x, q, t)
DebugInv ==
  /\ DebugTypeOK /\ Locked /\ Spawned
  /\ \A s \in DebugSessions :
       Live(s) => Sound(dbgOp, dbgSes[s], dbgStream[s], dbgTarget[s])

-----------------------------------------------------------------------------
(* Updates of the debugger's records, and of its streams.                    *)

LEMMA ConnectionField ==
  ASSUME NEW x \in ConnectionRecord
  PROVE  /\ \A v \in Nat : /\ [x EXCEPT !.asked = v] \in ConnectionRecord
                           /\ [x EXCEPT !.seq = v] \in ConnectionRecord
                           /\ [x EXCEPT !.dropped = v] \in ConnectionRecord
         /\ \A v \in Seq(FrameRecord) : /\ [x EXCEPT !.pending = v] \in ConnectionRecord
                                        /\ [x EXCEPT !.recorded = v] \in ConnectionRecord
         /\ \A v \in Seq(EventRecord) : [x EXCEPT !.ring = v] \in ConnectionRecord
         /\ \A v \in SUBSET Points : [x EXCEPT !.active = v] \in ConnectionRecord
         /\ \A v \in BOOLEAN : /\ [x EXCEPT !.torn = v] \in ConnectionRecord
                               /\ [x EXCEPT !.late = v] \in ConnectionRecord
                               /\ [x EXCEPT !.stale = v] \in ConnectionRecord
                               /\ [x EXCEPT !.broken = v] \in ConnectionRecord
BY DEF ConnectionRecord

LEMMA TargetField ==
  ASSUME NEW t \in TargetRecord
  PROVE  /\ \A v \in {"none", "alive", "dead"} : [t EXCEPT !.host = v] \in TargetRecord
         /\ \A v \in Seq(AskRecord) : [t EXCEPT !.inbox = v] \in TargetRecord
         /\ \A v \in SUBSET Points : [t EXCEPT !.points = v] \in TargetRecord
         /\ \A v \in Nat : [t EXCEPT !.reports = v] \in TargetRecord
BY DEF TargetRecord

LEMMA DebugOpField ==
  ASSUME NEW o \in DebugOpRecord
  PROVE  /\ \A v \in DebugLabels : [o EXCEPT !.pc = v] \in DebugOpRecord
         /\ \A v \in DebugSessions \cup {NoDebug} : [o EXCEPT !.ses = v] \in DebugOpRecord
         /\ \A v \in Nat : /\ [o EXCEPT !.asked = v] \in DebugOpRecord
                           /\ [o EXCEPT !.after = v] \in DebugOpRecord
         /\ \A v \in SUBSET Points : /\ [o EXCEPT !.remove = v] \in DebugOpRecord
                                     /\ [o EXCEPT !.resolve = v] \in DebugOpRecord
                                     /\ [o EXCEPT !.add = v] \in DebugOpRecord
                                     /\ [o EXCEPT !.point = v] \in DebugOpRecord
                                     /\ [o EXCEPT !.installed = v] \in DebugOpRecord
         /\ \A v \in SUBSET {"report", "disconnect"} : [o EXCEPT !.kinds = v] \in DebugOpRecord
BY DEF DebugOpRecord

LEMMA NothingYet ==
  /\ NoSession \in ConnectionRecord /\ NoTarget \in TargetRecord /\ Gone \in TargetRecord
  /\ NoDebugOp \in DebugOpRecord
  /\ NoDebugOp.pc = "idle" /\ NoDebugOp.ses = NoDebug
  /\ Gone.host = "dead" /\ NoTarget.host = "none"
<1>1. \A X : <<>> \in Seq(X)
  BY EmptySeq
<1>2. NoSession \in ConnectionRecord
  BY <1>1 DEF NoSession, ConnectionRecord
<1>3. NoTarget \in TargetRecord
  BY <1>1 DEF NoTarget, TargetRecord
<1>4. Gone \in TargetRecord
  BY <1>3, TargetField DEF Gone
<1>5. NoDebugOp \in DebugOpRecord
  BY DEF NoDebugOp, DebugOpRecord, DebugLabels
<1> QED
  BY <1>2, <1>3, <1>4, <1>5 DEF NoDebugOp, Gone, NoTarget, TargetRecord

LEMMA Appended ==
  ASSUME NEW X, NEW q \in Seq(X), NEW f \in X
  PROVE  /\ Append(q, f) \in Seq(X) /\ Len(Append(q, f)) = Len(q) + 1 /\ Len(q) \in Nat
         /\ \A i \in 1 .. Len(q) : Append(q, f)[i] = q[i]
         /\ Append(q, f)[Len(q) + 1] = f
         /\ 1 .. Len(q) + 1 = (1 .. Len(q)) \cup {Len(q) + 1}
<1>1. Len(q) \in Nat
  BY LenProperties
<1> QED
  BY <1>1, AppendProperties

LEMMA Taken ==
  ASSUME NEW X, NEW q \in Seq(X), q # <<>>
  PROVE  /\ Head(q) \in X /\ Head(q) = q[1] /\ Tail(q) \in Seq(X)
         /\ Len(q) \in Nat \ {0} /\ Len(Tail(q)) = Len(q) - 1
         /\ \A i \in 1 .. Len(Tail(q)) : Tail(q)[i] = q[i + 1] /\ i + 1 \in 1 .. Len(q)
         /\ \A i \in 1 .. Len(q) : i = 1 \/ (i - 1 \in 1 .. Len(Tail(q))
                                             /\ Tail(q)[i - 1] = q[i])
<1>1. Len(q) \in Nat \ {0}
  BY EmptySeq
<1>2. /\ Tail(q) \in Seq(X) /\ Len(Tail(q)) = Len(q) - 1
      /\ \A i \in 1 .. Len(Tail(q)) : Tail(q)[i] = q[i + 1]
  BY HeadTailProperties
<1>3. \A i \in 1 .. Len(q) : i = 1 \/ i - 1 \in 1 .. Len(Tail(q))
  BY <1>1, <1>2
<1>4. \A i \in 1 .. Len(q) : i = 1 \/ Tail(q)[i - 1] = q[i]
  <2> TAKE i \in 1 .. Len(q)
  <2>1. CASE i # 1
    <3>1. i - 1 \in 1 .. Len(Tail(q)) /\ (i - 1) + 1 = i
      BY <1>3, <2>1, <1>1
    <3> QED
      BY <3>1, <1>2
  <2> QED
    BY <2>1
<1>5. Head(q) = q[1] /\ Head(q) \in X
  BY HeadTailProperties
<1> QED
  BY <1>1, <1>2, <1>3, <1>4, <1>5

LEMMA ReportTaken ==
  ASSUME NEW q \in Seq(FrameRecord), NEW n \in Nat, NEW r \in Nat, Reported(q, n, r),
         q # <<>>, IsReport(Head(q))
  PROVE  Head(q).number = n + 1 /\ Reported(Tail(q), n + 1, r)
<1> USE Taken
<1>1. \A i \in 1 .. Len(q) : IsReport(q[i]) => q[i].number \in n + 1 .. r
  BY DEF Reported
<1>2. 1 \in 1 .. Len(q) /\ Head(q) = q[1]
  OBVIOUS
<1>3. q[1].number \in n + 1 .. r
  BY <1>1, <1>2
<1>4. n + 1 \in n + 1 .. r
  BY <1>3
<1>5. PICK i \in 1 .. Len(q) : IsReport(q[i]) /\ q[i].number = n + 1
  BY <1>4 DEF Reported
<1>6. i = 1
  <2> SUFFICES ASSUME 1 < i PROVE FALSE
    BY <1>2
  <2>1. q[1].number < q[i].number
    BY <1>2, <1>5 DEF Reported
  <2> QED
    BY <2>1, <1>3, <1>5
<1>7. q[1].number = n + 1
  BY <1>5, <1>6
<1>8. n + 1 <= r
  BY <1>4
<1>9. \A j \in 1 .. Len(Tail(q)) : IsReport(Tail(q)[j]) => Tail(q)[j].number \in (n + 1) + 1 .. r
  <2> TAKE j \in 1 .. Len(Tail(q))
  <2>1. Tail(q)[j] = q[j + 1] /\ j + 1 \in 1 .. Len(q) /\ 1 < j + 1
    OBVIOUS
  <2>2. IsReport(q[j + 1]) => q[1].number < q[j + 1].number /\ q[j + 1].number \in n + 1 .. r
    BY <1>1, <1>2, <2>1 DEF Reported
  <2>3. IsReport(q[j + 1]) => q[j + 1].number \in (n + 1) + 1 .. r
    BY <2>2, <1>7
  <2> QED
    BY <2>1, <2>3
<1>10. \A m \in (n + 1) + 1 .. r :
         \E j \in 1 .. Len(Tail(q)) : IsReport(Tail(q)[j]) /\ Tail(q)[j].number = m
  <2> TAKE m \in (n + 1) + 1 .. r
  <2>0. m \in n + 1 .. r /\ m # n + 1
    OBVIOUS
  <2>1. PICK j \in 1 .. Len(q) : IsReport(q[j]) /\ q[j].number = m
    BY <2>0 DEF Reported
  <2>2. j # 1
    BY <2>0, <2>1, <1>7
  <2> QED
    BY <2>1, <2>2
<1>11. \A j, k \in 1 .. Len(Tail(q)) :
         IsReport(Tail(q)[j]) /\ IsReport(Tail(q)[k]) /\ j < k
           => Tail(q)[j].number < Tail(q)[k].number
  <2> TAKE j, k \in 1 .. Len(Tail(q))
  <2>1. /\ Tail(q)[j] = q[j + 1] /\ j + 1 \in 1 .. Len(q)
        /\ Tail(q)[k] = q[k + 1] /\ k + 1 \in 1 .. Len(q)
    OBVIOUS
  <2>2. j < k => j + 1 < k + 1
    BY Taken
  <2> QED
    BY <2>1, <2>2 DEF Reported
<1> QED
  BY <1>2, <1>7, <1>8, <1>9, <1>10, <1>11 DEF Reported

LEMMA OtherTaken ==
  ASSUME NEW q \in Seq(FrameRecord), NEW n \in Nat, NEW r \in Nat, Reported(q, n, r),
         q # <<>>, ~IsReport(Head(q))
  PROVE  Reported(Tail(q), n, r)
<1> USE Taken
<1>1. ~IsReport(q[1])
  OBVIOUS
<1>2. \A j \in 1 .. Len(Tail(q)) : IsReport(Tail(q)[j]) => Tail(q)[j].number \in n + 1 .. r
  BY DEF Reported
<1>3. \A m \in n + 1 .. r :
         \E j \in 1 .. Len(Tail(q)) : IsReport(Tail(q)[j]) /\ Tail(q)[j].number = m
  <2> TAKE m \in n + 1 .. r
  <2>1. PICK j \in 1 .. Len(q) : IsReport(q[j]) /\ q[j].number = m
    BY DEF Reported
  <2>2. j # 1
    BY <2>1, <1>1
  <2> QED
    BY <2>1, <2>2
<1>4. \A j, k \in 1 .. Len(Tail(q)) :
         IsReport(Tail(q)[j]) /\ IsReport(Tail(q)[k]) /\ j < k
           => Tail(q)[j].number < Tail(q)[k].number
  <2> TAKE j, k \in 1 .. Len(Tail(q))
  <2>1. /\ Tail(q)[j] = q[j + 1] /\ j + 1 \in 1 .. Len(q)
        /\ Tail(q)[k] = q[k + 1] /\ k + 1 \in 1 .. Len(q)
    OBVIOUS
  <2>2. j < k => j + 1 < k + 1
    BY Taken
  <2> QED
    BY <2>1, <2>2 DEF Reported
<1> QED
  BY <1>2, <1>3, <1>4 DEF Reported

LEMMA ReportAppended ==
  ASSUME NEW q \in Seq(FrameRecord), NEW n \in Nat, NEW r \in Nat, Reported(q, n, r),
         NEW f \in FrameRecord, IsReport(f), f.number = r + 1
  PROVE  Reported(Append(q, f), n, r + 1)
<1> USE Appended
<1>1. n <= r /\ n <= r + 1
  BY DEF Reported
<1>2. \A i \in 1 .. Len(q) : IsReport(q[i]) => q[i].number \in n + 1 .. r
  BY DEF Reported
<1>3. \A i \in 1 .. Len(q) + 1 :
        IsReport(Append(q, f)[i]) => Append(q, f)[i].number \in n + 1 .. r + 1
  <2> TAKE i \in 1 .. Len(q) + 1
  <2>1. CASE i = Len(q) + 1
    <3>1. r + 1 \in n + 1 .. r + 1
      BY <1>1
    <3> QED
      BY <2>1, <3>1
  <2>2. CASE i \in 1 .. Len(q)
    BY <2>2, <1>2
  <2> QED
    BY <2>1, <2>2
<1>4. \A m \in n + 1 .. r + 1 :
         \E i \in 1 .. Len(q) + 1 : IsReport(Append(q, f)[i]) /\ Append(q, f)[i].number = m
  <2> TAKE m \in n + 1 .. r + 1
  <2>1. CASE m = r + 1
    BY <2>1
  <2>2. CASE m \in n + 1 .. r
    <3>1. PICK i \in 1 .. Len(q) : IsReport(q[i]) /\ q[i].number = m
      BY <2>2 DEF Reported
    <3> QED
      BY <3>1
  <2> QED
    BY <2>1, <2>2
<1>5. \A i, j \in 1 .. Len(q) + 1 :
         IsReport(Append(q, f)[i]) /\ IsReport(Append(q, f)[j]) /\ i < j
           => Append(q, f)[i].number < Append(q, f)[j].number
  <2> TAKE i, j \in 1 .. Len(q) + 1
  <2> HAVE IsReport(Append(q, f)[i]) /\ IsReport(Append(q, f)[j]) /\ i < j
  <2>1. i \in 1 .. Len(q) /\ Append(q, f)[i] = q[i]
    OBVIOUS
  <2>2. CASE j = Len(q) + 1
    <3>1. q[i].number \in n + 1 .. r
      BY <2>1, <1>2
    <3>2. Append(q, f)[j].number = r + 1
      BY <2>2
    <3> QED
      BY <2>1, <3>1, <3>2
  <2>3. CASE j \in 1 .. Len(q)
    BY <2>1, <2>3 DEF Reported
  <2> QED
    BY <2>2, <2>3
<1>6. Len(Append(q, f)) = Len(q) + 1
  OBVIOUS
<1> QED
  BY ONLY <1>1, <1>3, <1>4, <1>5, <1>6 DEF Reported

LEMMA OtherAppended ==
  ASSUME NEW q \in Seq(FrameRecord), NEW n \in Nat, NEW r \in Nat, Reported(q, n, r),
         NEW f \in FrameRecord, ~IsReport(f)
  PROVE  Reported(Append(q, f), n, r)
<1> USE Appended
<1>1. \A i \in 1 .. Len(q) + 1 : IsReport(Append(q, f)[i]) =>
        i \in 1 .. Len(q) /\ Append(q, f)[i] = q[i]
  OBVIOUS
<1>2. \A m \in n + 1 .. r :
         \E i \in 1 .. Len(q) + 1 : IsReport(Append(q, f)[i]) /\ Append(q, f)[i].number = m
  <2> TAKE m \in n + 1 .. r
  <2>1. PICK i \in 1 .. Len(q) : IsReport(q[i]) /\ q[i].number = m
    BY DEF Reported
  <2> QED
    BY <2>1
<1> QED
  BY <1>1, <1>2 DEF Reported

-----------------------------------------------------------------------------
(* What the steps of a call and of the target make of a session's events:    *)
(* r are the reports recorded, p those set aside, c counts the ring and what *)
(* it dropped, q is the stream, n the number of the last report.             *)
LEMMA FrameSkipped ==
  ASSUME NEW q \in Seq(FrameRecord), NEW h, Ends(q, h), q # <<>>
  PROVE  /\ NoDisconnect(q) => NoDisconnect(Tail(q))
         /\ Ends(Tail(q), h)
         /\ Head(q).kind = "disconnect" =>
              Tail(q) = <<>> /\ h = "dead" /\ NoDisconnect(Tail(q)) /\ ~NoDisconnect(q)
<1> DEFINE z == Tail(q)
<1>1. \A i \in 1 .. Len(q) : q[i].kind = "disconnect" => i = Len(q) /\ h = "dead"
  BY DEF Ends
<1>2. /\ Head(q) = q[1] /\ z \in Seq(FrameRecord)
      /\ Len(q) \in Nat \ {0} /\ Len(z) = Len(q) - 1
      /\ \A i \in 1 .. Len(z) : z[i] = q[i + 1] /\ i + 1 \in 1 .. Len(q)
  BY Taken
<1> HIDE DEF z
<1>3. ASSUME NEW i \in 1 .. Len(z), z[i].kind = "disconnect"
      PROVE  i = Len(z) /\ h = "dead"
  <2>1. i + 1 = Len(q) /\ h = "dead"
    BY <1>1, <1>2, <1>3
  <2> QED
    BY <2>1, <1>2
<1>4. NoDisconnect(q) => NoDisconnect(z)
  BY <1>2 DEF NoDisconnect
<1>5. ASSUME Head(q).kind = "disconnect"
      PROVE  z = <<>> /\ h = "dead" /\ NoDisconnect(z) /\ ~NoDisconnect(q)
  <2>1. 1 \in 1 .. Len(q) /\ q[1].kind = "disconnect"
    BY <1>2, <1>5
  <2>2. 1 = Len(q) /\ h = "dead"
    BY <1>1, <2>1
  <2>3. Len(z) = 0
    BY <1>2, <2>2
  <2>4. z = <<>>
    BY <1>2, <2>3, EmptySeq
  <2>5. NoDisconnect(z)
    BY <2>3 DEF NoDisconnect
  <2> QED
    BY <2>1, <2>2, <2>4, <2>5 DEF NoDisconnect
<1> QED
  BY <1>3, <1>4, <1>5 DEF z, Ends

LEMMA KeptSkips ==
  ASSUME NEW r \in Seq(FrameRecord), NEW p \in Seq(FrameRecord), NEW c \in Nat,
         NEW q \in Seq(FrameRecord), NEW n \in Nat, NEW h, Kept(r, p, c, q, n, h),
         q # <<>>, ~IsReport(Head(q))
  PROVE  Kept(r, p, c, Tail(q), n, h)
<1>1. Len(r) + Len(p) \in Nat
  BY LenProperties
<1>2. Reported(Tail(q), Len(r) + Len(p), n)
  BY <1>1, OtherTaken DEF Kept
<1> QED
  BY <1>2, FrameSkipped DEF Kept

(* A request sets a report aside ...                                         *)
LEMMA KeptAside ==
  ASSUME NEW r \in Seq(FrameRecord), NEW p \in Seq(FrameRecord), NEW c \in Nat,
         NEW q \in Seq(FrameRecord), NEW n \in Nat, NEW h, Kept(r, p, c, q, n, h),
         q # <<>>, IsReport(Head(q))
  PROVE  Kept(r, Append(p, Head(q)), c, Tail(q), n, h)
<1> DEFINE m == Len(r) + Len(p)
           y == Append(p, Head(q))
<1>1. m \in Nat /\ Len(r) \in Nat /\ Len(p) \in Nat
  BY LenProperties
<1>2. Head(q).number = m + 1 /\ Reported(Tail(q), m + 1, n)
  BY <1>1, ReportTaken DEF Kept
<1>3. /\ Len(y) = Len(p) + 1
      /\ \A i \in 1 .. Len(p) : y[i] = p[i]
      /\ y[Len(p) + 1] = Head(q)
      /\ 1 .. Len(p) + 1 = (1 .. Len(p)) \cup {Len(p) + 1}
  BY Taken, Appended
<1>4. \A i \in 1 .. Len(p) : IsReport(p[i]) /\ p[i].number = Len(r) + i
  BY DEF Kept
<1>5. m + 1 = Len(r) + (Len(p) + 1)
  BY <1>1
<1> HIDE DEF y
<1>6. \A i \in 1 .. Len(y) : IsReport(y[i]) /\ y[i].number = Len(r) + i
  <2> TAKE i \in 1 .. Len(y)
  <2>1. CASE i \in 1 .. Len(p)
    BY <2>1, <1>3, <1>4
  <2>2. CASE i = Len(p) + 1
    BY <2>2, <1>2, <1>3, <1>5
  <2> QED
    BY <1>3, <2>1, <2>2
<1>7. Reported(Tail(q), Len(r) + Len(y), n)
  BY <1>2, <1>3, <1>5
<1>8. Kept(r, y, c, Tail(q), n, h)
  BY <1>6, <1>7, FrameSkipped DEF Kept
<1> QED
  BY <1>8 DEF y

(* ... and a wait records the next event: the ring grows or drops its first.  *)
LEMMA KeptRecordsAside ==
  ASSUME NEW r \in Seq(FrameRecord), NEW p \in Seq(FrameRecord), NEW c \in Nat,
         NEW q \in Seq(FrameRecord), NEW n \in Nat, NEW h, Kept(r, p, c, q, n, h),
         p # <<>>
  PROVE  Kept(Append(r, Head(p)), Tail(p), c + 1, q, n, h)
<1> DEFINE y == Append(r, Head(p))
           z == Tail(p)
<1>1. /\ Len(r) \in Nat /\ Len(p) \in Nat \ {0} /\ Head(p) = p[1] /\ Head(p) \in FrameRecord
      /\ Len(z) = Len(p) - 1
      /\ \A i \in 1 .. Len(z) : z[i] = p[i + 1] /\ i + 1 \in 1 .. Len(p)
  BY LenProperties, Taken
<1>2. /\ Len(y) = Len(r) + 1
      /\ \A i \in 1 .. Len(r) : y[i] = r[i]
      /\ y[Len(r) + 1] = p[1]
      /\ 1 .. Len(r) + 1 = (1 .. Len(r)) \cup {Len(r) + 1}
  BY <1>1, Appended
<1>3. \A i \in 1 .. Len(p) : IsReport(p[i]) /\ p[i].number = Len(r) + i
  BY DEF Kept
<1>4. \A i \in 1 .. Len(r) : r[i].number = i
  BY DEF Kept
<1> HIDE DEF y, z
<1>5. p[1].number = Len(r) + 1
  BY <1>1, <1>3
<1>6. \A i \in 1 .. Len(y) : y[i].number = i
  <2> TAKE i \in 1 .. Len(y)
  <2>1. CASE i \in 1 .. Len(r)
    BY <2>1, <1>2, <1>4
  <2>2. CASE i = Len(r) + 1
    BY <2>2, <1>2, <1>5
  <2> QED
    BY <1>2, <2>1, <2>2
<1>7. \A i \in 1 .. Len(z) : IsReport(z[i]) /\ z[i].number = Len(y) + i
  <2> TAKE i \in 1 .. Len(z)
  <2>1. z[i] = p[i + 1] /\ i + 1 \in 1 .. Len(p)
    BY <1>1
  <2>2. IsReport(p[i + 1]) /\ p[i + 1].number = Len(r) + (i + 1)
    BY <2>1, <1>3
  <2>3. Len(r) + (i + 1) = (Len(r) + 1) + i
    BY <1>1
  <2> QED
    BY <2>1, <2>2, <2>3, <1>2
<1>8. Len(y) + Len(z) = Len(r) + Len(p)
  BY <1>1, <1>2
<1>9. /\ c + 1 \in {Len(y), Len(y) + 1}
      /\ c + 1 = Len(y) + 1 <=> c = Len(r) + 1
  <2>1. c \in {Len(r), Len(r) + 1}
    BY DEF Kept
  <2> QED
    BY <2>1, <1>1, <1>2
<1>10. Kept(y, z, c + 1, q, n, h)
  BY <1>6, <1>7, <1>8, <1>9 DEF Kept
<1> QED
  BY <1>10 DEF y, z

LEMMA KeptRecords ==
  ASSUME NEW r \in Seq(FrameRecord), NEW p \in Seq(FrameRecord), NEW c \in Nat,
         NEW q \in Seq(FrameRecord), NEW n \in Nat, NEW h, Kept(r, p, c, q, n, h),
         Len(p) = 0, q # <<>>, IsReport(Head(q))
  PROVE  Kept(Append(r, Head(q)), p, c + 1, Tail(q), n, h)
<1> DEFINE y == Append(r, Head(q))
<1>0. Len(r) \in Nat
  BY LenProperties
<1>1. Len(p) = 0 /\ Len(r) + Len(p) = Len(r)
  <2>1. Len(p) = 0
    BY Zenon
  <2> QED
    BY ONLY <1>0, <2>1
<1>2. Reported(q, Len(r), n)
  BY <1>1 DEF Kept
<1>3. Head(q).number = Len(r) + 1 /\ Reported(Tail(q), Len(r) + 1, n)
  BY <1>0, <1>2, ReportTaken
<1>4. /\ Len(y) = Len(r) + 1
      /\ \A i \in 1 .. Len(r) : y[i] = r[i]
      /\ y[Len(r) + 1] = Head(q)
      /\ 1 .. Len(r) + 1 = (1 .. Len(r)) \cup {Len(r) + 1}
  BY Taken, Appended
<1>5. \A i \in 1 .. Len(r) : r[i].number = i
  BY DEF Kept
<1> HIDE DEF y
<1>6. \A i \in 1 .. Len(y) : y[i].number = i
  <2> TAKE i \in 1 .. Len(y)
  <2>1. CASE i \in 1 .. Len(r)
    BY <2>1, <1>4, <1>5
  <2>2. CASE i = Len(r) + 1
    BY <2>2, <1>3, <1>4
  <2> QED
    BY <1>4, <2>1, <2>2
<1>7. Reported(Tail(q), Len(y) + Len(p), n)
  <2>1. Len(y) + Len(p) = Len(r) + 1
    BY <1>0, <1>1, <1>4
  <2> QED
    BY <2>1, <1>3
<1>8. /\ c + 1 \in {Len(y), Len(y) + 1}
      /\ c + 1 = Len(y) + 1 <=> c = Len(r) + 1
  <2>1. c \in {Len(r), Len(r) + 1}
    BY DEF Kept
  <2> QED
    BY <2>1, <1>0, <1>4
<1>9. Ends(Tail(q), h) /\ (NoDisconnect(q) => NoDisconnect(Tail(q)))
  <2>1. Ends(q, h)
    BY DEF Kept
  <2> QED
    BY <2>1, FrameSkipped
<1>10. c + 1 = Len(y) + 1 => h = "dead" /\ NoDisconnect(Tail(q))
  BY <1>8, <1>9 DEF Kept
<1>11. \A i \in 1 .. Len(p) : IsReport(p[i]) /\ p[i].number = Len(y) + i
  BY <1>1
<1>12. Kept(y, p, c + 1, Tail(q), n, h)
  BY <1>6, <1>7, <1>8, <1>9, <1>10, <1>11 DEF Kept
<1> QED
  BY <1>12 DEF y

LEMMA KeptDisconnects ==
  ASSUME NEW r \in Seq(FrameRecord), NEW p \in Seq(FrameRecord), NEW c \in Nat,
         NEW q \in Seq(FrameRecord), NEW n \in Nat, NEW h, Kept(r, p, c, q, n, h),
         q # <<>>, Head(q).kind = "disconnect"
  PROVE  Kept(r, p, c + 1, Tail(q), n, h)
<1>1. Kept(r, p, c, Tail(q), n, h)
  BY KeptSkips DEF IsReport
<1>2. h = "dead" /\ NoDisconnect(Tail(q)) /\ ~NoDisconnect(q)
  BY FrameSkipped DEF Kept
<1>3. c = Len(r)
  BY <1>2 DEF Kept
<1> QED
  BY <1>1, <1>2, <1>3 DEF Kept

(* The target answers, reports or ends its stream.                           *)
LEMMA KeptGrows ==
  ASSUME NEW r \in Seq(FrameRecord), NEW p \in Seq(FrameRecord), NEW c \in Nat,
         NEW q \in Seq(FrameRecord), NEW n \in Nat, NEW h, Kept(r, p, c, q, n, h),
         NEW f \in FrameRecord, NEW m \in Nat, NEW k, h # "dead",
         \/ IsReport(f) /\ f.number = n + 1 /\ m = n + 1
         \/ ~IsReport(f) /\ m = n /\ (f.kind = "disconnect" => k = "dead")
  PROVE  Kept(r, p, c, Append(q, f), m, k)
<1>1. Len(r) + Len(p) \in Nat
  BY LenProperties
<1>2. NoDisconnect(q)
  BY DEF Kept, Ends, NoDisconnect
<1>3. Reported(Append(q, f), Len(r) + Len(p), m)
  <2>0. Reported(q, Len(r) + Len(p), n)
    BY DEF Kept
  <2>1. CASE IsReport(f)
    BY <2>0, <2>1, <1>1, ReportAppended
  <2>2. CASE ~IsReport(f)
    BY <2>0, <2>2, <1>1, OtherAppended
  <2> QED
    BY <2>1, <2>2
<1>4. Ends(Append(q, f), k)
  <2> SUFFICES ASSUME NEW i \in 1 .. Len(Append(q, f)), Append(q, f)[i].kind = "disconnect"
               PROVE  i = Len(Append(q, f)) /\ k = "dead"
    BY DEF Ends
  <2>1. CASE i \in 1 .. Len(q)
    BY <2>1, <1>2, Appended DEF NoDisconnect
  <2>2. CASE i = Len(q) + 1
    BY <2>2, Appended DEF IsReport
  <2> QED
    BY <2>1, <2>2, Appended
<1>5. c # Len(r) + 1
  BY DEF Kept
<1> QED
  BY <1>3, <1>4, <1>5 DEF Kept

LEMMA KeptDead ==
  ASSUME NEW r, NEW p, NEW c, NEW q, NEW n, NEW h, Kept(r, p, c, q, n, h)
  PROVE  Kept(r, p, c, q, n, "dead")
BY DEF Kept, Ends

-----------------------------------------------------------------------------
(* Requests and answers.                                                     *)
LEMMA AnswerAlone ==
  ASSUME NEW o, NEW q \in Seq(FrameRecord), NEW b, NEW h, Paired(o, q, b, h),
         q # <<>>, IsAnswer(Head(q))
  PROVE  /\ Reads(o) /\ Head(q).number = o.asked /\ Head(q).kind = AnswerKind(o.pc)
         /\ Silent(Tail(q)) /\ Unasked(b, h) /\ ~Silent(q)
<1> DEFINE z == Tail(q)
<1>1. /\ Head(q) = q[1] /\ 1 \in 1 .. Len(q) /\ Len(z) \in Nat
      /\ \A i \in 1 .. Len(z) : z[i] = q[i + 1] /\ i + 1 \in 1 .. Len(q) /\ i + 1 # 1
  BY Taken
<1> HIDE DEF z
<1>2. /\ Reads(o) /\ q[1].number = o.asked /\ q[1].kind = AnswerKind(o.pc)
      /\ Unasked(b, h) /\ ~Silent(q)
  BY <1>1 DEF Paired, Silent
<1>3. \A i \in 1 .. Len(z) : ~IsAnswer(z[i])
  <2> TAKE i \in 1 .. Len(z)
  <2>1. ~IsAnswer(q[i + 1])
    BY <1>1 DEF Paired
  <2> QED
    BY <2>1, <1>1
<1> QED
  BY <1>1, <1>2, <1>3 DEF z, Silent

LEMMA EventTaken ==
  ASSUME NEW q \in Seq(FrameRecord), q # <<>>, ~IsAnswer(Head(q))
  PROVE  /\ Silent(q) <=> Silent(Tail(q))
         /\ \A o, b, h : Paired(o, q, b, h) => Paired(o, Tail(q), b, h)
         /\ \A o, v : Carried(o, q, v) => Carried(o, Tail(q), v)
<1> DEFINE z == Tail(q)
<1>1. /\ Head(q) = q[1] /\ Len(z) \in Nat
      /\ \A i \in 1 .. Len(z) : z[i] = q[i + 1] /\ i + 1 \in 1 .. Len(q)
      /\ \A i \in 1 .. Len(q) : i = 1 \/ (i - 1 \in 1 .. Len(z) /\ z[i - 1] = q[i])
      /\ \A i, j \in 1 .. Len(z) : i + 1 = j + 1 => i = j
  BY Taken
<1> HIDE DEF z
<1>2. Silent(q) <=> Silent(z)
  BY <1>1 DEF Silent
<1>3. ASSUME NEW o, NEW b, NEW h, Paired(o, q, b, h)
      PROVE  Paired(o, z, b, h)
  <2>1. \A i \in 1 .. Len(z) :
          IsAnswer(z[i]) => /\ Reads(o) /\ z[i].number = o.asked
                            /\ z[i].kind = AnswerKind(o.pc) /\ Unasked(b, h)
    BY <1>1, <1>3 DEF Paired
  <2>2. \A i, j \in 1 .. Len(z) : IsAnswer(z[i]) /\ IsAnswer(z[j]) => i = j
    <3> TAKE i, j \in 1 .. Len(z)
    <3> HAVE IsAnswer(z[i]) /\ IsAnswer(z[j])
    <3>1. i + 1 = j + 1
      BY <1>1, <1>3 DEF Paired
    <3> QED
      BY <3>1, <1>1
  <2> QED
    BY <2>1, <2>2, <1>2, <1>3 DEF Paired
<1>4. ASSUME NEW o, NEW v, Carried(o, q, v)
      PROVE  Carried(o, z, v)
  BY <1>1, <1>2, <1>4 DEF Carried
<1> QED
  BY <1>2, <1>3, <1>4 DEF z

LEMMA NoneOut ==
  ASSUME NEW o, NEW q, NEW b, NEW h
  PROVE  /\ Paired(o, q, b, h) /\ ~Reads(o) => Silent(q) /\ Unasked(b, h)
         /\ Silent(q) /\ Unasked(b, h) => Paired(o, q, b, h)
BY DEF Paired, Silent, Unasked

LEMMA AskSent ==
  ASSUME NEW o, NEW q, NEW b \in Seq(AskRecord), NEW h, Silent(q), Unasked(b, h),
         NEW a \in AskRecord, Reads(o), a.number = o.asked, a.kind = o.pc
  PROVE  Paired(o, q, Append(b, a), h)
<1> DEFINE c == Append(b, a)
<1>1. /\ Len(c) = Len(b) + 1 /\ \A i \in 1 .. Len(b) : c[i] = b[i]
      /\ c[Len(b) + 1] = a /\ 1 .. Len(b) + 1 = (1 .. Len(b)) \cup {Len(b) + 1}
  BY Appended
<1> HIDE DEF c
<1>2. h = "alive" => \A i \in 1 .. Len(c) : c[i].kind # "catch" => i = Len(b) + 1
  BY <1>1 DEF Unasked
<1>3. Paired(o, q, c, h)
  BY <1>1, <1>2 DEF Paired, Silent
<1> QED
  BY <1>3 DEF c

LEMMA CatchSent ==
  ASSUME NEW b \in Seq(AskRecord), NEW h, Unasked(b, h), NEW a \in AskRecord, a.kind = "catch"
  PROVE  Unasked(Append(b, a), h)
BY Appended DEF Unasked

LEMMA InboxOpen ==
  ASSUME NEW b \in Seq(AskRecord), NEW a \in AskRecord, a.kind # "disconnect",
         \A i \in 1 .. Len(b) : b[i].kind # "disconnect"
  PROVE  \A i \in 1 .. Len(Append(b, a)) : Append(b, a)[i].kind # "disconnect"
BY Appended

LEMMA PlacingSent ==
  ASSUME NEW o, NEW m, NEW b \in Seq(AskRecord), NEW h, Placing(o, b, h), ~Reads(o),
         NEW a \in AskRecord,
         a.kind \in {"set", "unset"} => m.pc = a.kind /\ a.points = m.point
  PROVE  Placing(m, Append(b, a), h)
<1> DEFINE c == Append(b, a)
<1>1. /\ Len(c) = Len(b) + 1 /\ \A i \in 1 .. Len(b) : c[i] = b[i]
      /\ c[Len(b) + 1] = a /\ 1 .. Len(b) + 1 = (1 .. Len(b)) \cup {Len(b) + 1}
  BY Appended
<1> HIDE DEF c
<1>2. h = "alive" => \A i \in 1 .. Len(b) : b[i].kind \notin {"set", "unset"}
  BY DEF Placing, Reads
<1>3. Placing(m, c, h)
  BY <1>1, <1>2 DEF Placing
<1> QED
  BY <1>3 DEF c

LEMMA PlacingNone ==
  ASSUME NEW o, NEW m, NEW b, NEW h, Placing(o, b, h), o.pc \notin {"set", "unset"}
  PROVE  Placing(m, b, h)
BY DEF Placing

(* The target takes the first request of its inbox.                          *)
LEMMA RequestTaken ==
  ASSUME NEW b \in Seq(AskRecord), b # <<>>
  PROVE  /\ \A o, h : Placing(o, b, h) => Placing(o, Tail(b), h)
         /\ (\A i \in 1 .. Len(b) : b[i].kind # "disconnect") =>
              /\ Head(b).kind # "disconnect"
              /\ \A i \in 1 .. Len(Tail(b)) : Tail(b)[i].kind # "disconnect"
         /\ \A o : Placing(o, b, "alive") /\ Head(b).kind \in {"set", "unset"} =>
              o.pc = Head(b).kind /\ Head(b).points = o.point
BY Taken DEF Placing

LEMMA CatchTaken ==
  ASSUME NEW o, NEW q, NEW b \in Seq(AskRecord), NEW h, Paired(o, q, b, h), b # <<>>,
         Head(b).kind = "catch"
  PROVE  Paired(o, q, Tail(b), h)
<1> DEFINE c == Tail(b)
<1>1. /\ Len(c) \in Nat
      /\ \A i \in 1 .. Len(c) : c[i] = b[i + 1] /\ i + 1 \in 1 .. Len(b)
      /\ \A i, j \in 1 .. Len(c) : i + 1 = j + 1 => i = j
  BY Taken
<1> HIDE DEF c
<1>2. Unasked(b, h) => Unasked(c, h)
  BY <1>1 DEF Unasked
<1>3. ASSUME h = "alive"
      PROVE  /\ \A i \in 1 .. Len(c) :
                  c[i].kind # "catch" => /\ Reads(o) /\ c[i].number = o.asked
                                         /\ c[i].kind = o.pc /\ Silent(q)
             /\ \A i, j \in 1 .. Len(c) : c[i].kind # "catch" /\ c[j].kind # "catch" => i = j
  <2>1. \A i \in 1 .. Len(b) :
          b[i].kind # "catch" => /\ Reads(o) /\ b[i].number = o.asked
                                 /\ b[i].kind = o.pc /\ Silent(q)
    BY <1>3 DEF Paired
  <2>2. \A i, j \in 1 .. Len(b) : b[i].kind # "catch" /\ b[j].kind # "catch" => i = j
    BY <1>3 DEF Paired
  <2>3. \A i \in 1 .. Len(c) :
          c[i].kind # "catch" => /\ Reads(o) /\ c[i].number = o.asked
                                 /\ c[i].kind = o.pc /\ Silent(q)
    BY ONLY <1>1, <2>1
  <2>4. \A i, j \in 1 .. Len(c) : c[i].kind # "catch" /\ c[j].kind # "catch" => i = j
    BY ONLY <1>1, <2>2
  <2> QED
    BY ONLY <2>3, <2>4
<1>4. Paired(o, q, c, h)
  BY <1>2, <1>3 DEF Paired
<1> QED
  BY <1>4 DEF c

LEMMA RequestAnswered ==
  ASSUME NEW o, NEW q \in Seq(FrameRecord), NEW b \in Seq(AskRecord),
         Paired(o, q, b, "alive"), b # <<>>, Head(b).kind # "catch",
         NEW f \in FrameRecord, IsAnswer(f), f.number = Head(b).number,
         f.kind = AnswerKind(Head(b).kind)
  PROVE  /\ Silent(q) /\ Head(b).kind = o.pc /\ ~Silent(Append(q, f))
         /\ \A i \in 1 .. Len(Append(q, f)) : IsAnswer(Append(q, f)[i]) => Append(q, f)[i] = f
         /\ Paired(o, Append(q, f), Tail(b), "alive")
<1> DEFINE c == Tail(b)
           z == Append(q, f)
<1>1. /\ Head(b) = b[1] /\ 1 \in 1 .. Len(b) /\ Len(c) \in Nat
      /\ \A i \in 1 .. Len(c) : c[i] = b[i + 1] /\ i + 1 \in 1 .. Len(b) /\ i + 1 # 1
  BY Taken
<1>2. /\ Len(z) = Len(q) + 1 /\ \A i \in 1 .. Len(q) : z[i] = q[i]
      /\ z[Len(q) + 1] = f /\ 1 .. Len(q) + 1 = (1 .. Len(q)) \cup {Len(q) + 1}
      /\ Len(q) + 1 \in 1 .. Len(q) + 1
  BY Appended
<1> HIDE DEF c, z
<1>3. /\ Silent(q) /\ Reads(o) /\ Head(b).number = o.asked /\ Head(b).kind = o.pc
  BY <1>1 DEF Paired
<1>4. Unasked(c, "alive")
  <2> SUFFICES ASSUME NEW i \in 1 .. Len(c) PROVE c[i].kind = "catch"
    BY DEF Unasked
  <2>1. b[i + 1].kind = "catch"
    BY <1>1 DEF Paired
  <2> QED
    BY <2>1, <1>1
<1>5. \A i \in 1 .. Len(z) : IsAnswer(z[i]) => i = Len(q) + 1
  BY <1>2, <1>3 DEF Silent
<1>6. \A i \in 1 .. Len(z) : IsAnswer(z[i]) => z[i] = f
  BY <1>2, <1>5
<1>7. ~Silent(z)
  BY <1>2 DEF Silent
<1>8. Paired(o, z, c, "alive")
  BY <1>3, <1>4, <1>5, <1>6 DEF Paired, Unasked
<1> QED
  BY <1>3, <1>6, <1>7, <1>8 DEF c, z

LEMMA EventArrives ==
  ASSUME NEW q \in Seq(FrameRecord), NEW f \in FrameRecord, ~IsAnswer(f)
  PROVE  /\ Silent(q) <=> Silent(Append(q, f))
         /\ \A o, b, h : Paired(o, q, b, h) => Paired(o, Append(q, f), b, h)
         /\ \A o, v : Carried(o, q, v) => Carried(o, Append(q, f), v)
<1> DEFINE z == Append(q, f)
<1>1. /\ Len(z) = Len(q) + 1 /\ \A i \in 1 .. Len(q) : z[i] = q[i]
      /\ z[Len(q) + 1] = f /\ 1 .. Len(q) + 1 = (1 .. Len(q)) \cup {Len(q) + 1}
  BY Appended
<1> HIDE DEF z
<1>2. \A i \in 1 .. Len(z) : IsAnswer(z[i]) => i \in 1 .. Len(q) /\ z[i] = q[i]
  BY <1>1
<1>3. Silent(q) <=> Silent(z)
  BY <1>1, <1>2 DEF Silent
<1>4. ASSUME NEW o, NEW b, NEW h, Paired(o, q, b, h)
      PROVE  Paired(o, z, b, h)
  BY <1>2, <1>3, <1>4 DEF Paired
<1>5. ASSUME NEW o, NEW v, Carried(o, q, v)
      PROVE  Carried(o, z, v)
  BY <1>2, <1>3, <1>5 DEF Carried
<1> QED
  BY <1>3, <1>4, <1>5 DEF z

LEMMA PairedDead ==
  ASSUME NEW o, NEW q, NEW b, NEW h, NEW c, Paired(o, q, b, h)
  PROVE  Paired(o, q, c, "dead") /\ Placing(o, c, "dead")
BY DEF Paired, Placing, Unasked

-----------------------------------------------------------------------------
(* The session the calls work on, and what they leave alone.                 *)
LEMMA Holder ==
  ASSUME DebugInv, ~Unlocked
  PROVE  /\ S \in DebugSessions /\ Live(S)
         /\ dbgOp \in DebugOpRecord /\ dbgSes[S] \in ConnectionRecord
         /\ dbgStream[S] \in Seq(FrameRecord) /\ dbgTarget[S] \in TargetRecord
         /\ Sound(dbgOp, dbgSes[S], dbgStream[S], dbgTarget[S])
         /\ dbgTarget[S].host # "none"
<1>1. DebugTypeOK /\ Locked /\ Spawned
  BY DEF DebugInv
<1>2. S \in DebugSessions /\ Live(S)
  BY <1>1 DEF Locked, Live, DebugTypeOK
<1>3. Sound(dbgOp, dbgSes[S], dbgStream[S], dbgTarget[S])
  BY <1>2 DEF DebugInv
<1> QED
  BY <1>1, <1>2, <1>3 DEF DebugTypeOK, Spawned

LEMMA InSlot ==
  ASSUME DebugInv, Unlocked, dbgSlot # NoDebug
  PROVE  /\ dbgSlot \in DebugSessions /\ Live(dbgSlot)
         /\ dbgOp \in DebugOpRecord /\ dbgSes[dbgSlot] \in ConnectionRecord
         /\ dbgStream[dbgSlot] \in Seq(FrameRecord) /\ dbgTarget[dbgSlot] \in TargetRecord
         /\ Sound(dbgOp, dbgSes[dbgSlot], dbgStream[dbgSlot], dbgTarget[dbgSlot])
         /\ dbgTarget[dbgSlot].host # "none" /\ ~dbgRuntime
<1>1. DebugTypeOK /\ Locked /\ Spawned
  BY DEF DebugInv
<1>2. dbgSlot \in DebugSessions /\ Live(dbgSlot)
  BY <1>1 DEF Live, DebugTypeOK
<1>3. Sound(dbgOp, dbgSes[dbgSlot], dbgStream[dbgSlot], dbgTarget[dbgSlot])
  BY <1>2 DEF DebugInv
<1> QED
  BY <1>1, <1>2, <1>3 DEF DebugTypeOK, Spawned, Locked

Only(s) ==
  /\ dbgSes' \in [DebugSessions -> ConnectionRecord]
  /\ dbgStream' \in [DebugSessions -> Seq(FrameRecord)]
  /\ dbgTarget' \in [DebugSessions -> TargetRecord]
  /\ \A u \in DebugSessions : u # s =>
       /\ dbgSes'[u] = dbgSes[u] /\ dbgStream'[u] = dbgStream[u]
       /\ dbgTarget'[u] = dbgTarget[u]

LEMMA OneLive ==
  ASSUME DebugInv, NEW s \in DebugSessions, Live(s)
  PROVE  \A u \in DebugSessions : Live(u) => u = s
BY DEF DebugInv, Locked, Live, DebugSessions, NoDebug

LEMMA LiveKeeps ==
  ASSUME DebugInv, NEW s \in DebugSessions, Live(s), Only(s),
         dbgSlot' \in DebugSessions \cup {NoDebug}, dbgOp' \in DebugOpRecord,
         UNCHANGED <<dbgStop, dbgRuntime>>, Locked', Live(s)',
         dbgTarget'[s].host # "none",
         Sound(dbgOp', dbgSes'[s], dbgStream'[s], dbgTarget'[s])
  PROVE  DebugInv'
<1>1. DebugTypeOK'
  BY DEF DebugInv, DebugTypeOK, Only
<1>2. \A u \in DebugSessions : Live(u)' => u = s
  BY DEF Locked, Live, DebugSessions, NoDebug
<1>3. Spawned'
  BY <1>2, OneLive DEF DebugInv, Spawned, Only
<1> QED
  BY <1>1, <1>2, <1>3 DEF DebugInv

LEMMA CallGoes ==
  ASSUME DebugInv, NEW s \in DebugSessions, Live(s), Only(s),
         UNCHANGED <<dbgSlot, dbgStop, dbgRuntime>>, dbgTarget'[s].host # "none",
         \/ dbgOp' = NoDebugOp /\ ~Launching
         \/ dbgOp' = dbgOp
         \/ /\ dbgOp' \in DebugOpRecord /\ dbgOp'.ses = s /\ dbgOp'.pc # "idle"
            /\ Launching' <=> Launching,
         Sound(dbgOp', dbgSes'[s], dbgStream'[s], dbgTarget'[s])
  PROVE  DebugInv'
<1>1. Locked /\ dbgOp \in DebugOpRecord /\ dbgSlot \in DebugSessions \cup {NoDebug}
  BY DEF DebugInv, DebugTypeOK
<1>2. dbgSlot' = dbgSlot /\ dbgRuntime' = dbgRuntime
  OBVIOUS
<1>3. NoDebugOp \in DebugOpRecord /\ NoDebugOp.pc = "idle" /\ NoDebugOp.ses = NoDebug
  BY NothingYet
<1>4. dbgOp' \in DebugOpRecord
  BY <1>1, <1>3
<1>5. CASE dbgOp' = NoDebugOp /\ ~Launching
  <2>1. s = dbgSlot /\ ~Launching' /\ Unlocked' /\ S' = NoDebug
    BY <1>3, <1>5 DEF Live, Launching, Unlocked, S
  <2>2. Live(s)' /\ Locked'
    BY <1>1, <1>2, <2>1 DEF Live, Locked
  <2> QED
    BY <1>1, <1>2, <1>4, <2>2, LiveKeeps
<1>6. CASE dbgOp' = dbgOp
  <2>1. Live(s)' /\ Locked'
    BY <1>1, <1>2, <1>6 DEF Live, Locked, Launching, Unlocked, S
  <2> QED
    BY <1>1, <1>2, <1>4, <2>1, LiveKeeps
<1>7. CASE /\ dbgOp' \in DebugOpRecord /\ dbgOp'.ses = s /\ dbgOp'.pc # "idle"
           /\ Launching' <=> Launching
  <2>1. ~Unlocked' /\ S' = s
    BY <1>7 DEF Unlocked, S
  <2>2. Launching => ~Unlocked
    BY DEF Launching, Unlocked
  <2>3. Live(s)'
    BY <1>2, <1>7, <2>1 DEF Live
  <2>4. Launching => s = S
    BY <1>1 DEF Locked, Live, DebugSessions, NoDebug
  <2>5. ~Launching => s = dbgSlot /\ dbgSlot # NoDebug
    BY DEF Live, DebugSessions, NoDebug
  <2>6. Locked'
    BY <1>1, <1>2, <1>7, <2>1, <2>2, <2>4, <2>5 DEF Locked
  <2> QED
    BY <1>1, <1>2, <1>4, <2>3, <2>6, LiveKeeps
<1> QED
  BY <1>5, <1>6, <1>7

(* Values: what a step makes of the session's parts is sound again.          *)
LEMMA SoundIdle ==
  ASSUME NEW o, NEW m, NEW x, NEW y, NEW q, NEW z, NEW t, Sound(o, x, q, t),
         Untouched(o), o.pc \notin {"unset", "set"}, ~Replacing(m), Whole(y, z, t),
         Matched(m, y, z, t),
         x.late => y.late, x.broken => y.broken, y.active = x.active
  PROVE  Sound(m, y, z, t)
<1>1. Phased(m)
  BY DEF Phased, Replacing
<1>2. ASSUME ~y.late, ~y.broken
      PROVE  Placing(m, t.inbox, t.host) /\ t.points = y.active
  BY <1>2, PlacingNone DEF Sound, Followed
<1>3. Followed(m, y, z, t)
  BY <1>2 DEF Followed, Replacing
<1> QED
  BY <1>1, <1>3 DEF Sound

LEMMA SoundFails ==
  ASSUME NEW o, NEW x, NEW y, NEW q, NEW z, NEW t, Sound(o, x, q, t), Reads(o),
         Whole(y, z, t), Matched(NoDebugOp, y, z, t),
         x.late => y.late, x.broken \/ o.pc \in {"unset", "set"} => y.broken,
         y.active = x.active
  PROVE  Sound(NoDebugOp, y, z, t)
<1>1. Phased(NoDebugOp) /\ ~Replacing(NoDebugOp)
  BY NothingYet DEF Phased, Replacing
<1>2. Reads(o) /\ o.pc \notin {"unset", "set"} => Untouched(o)
  BY DEF Untouched, Reads, Replacing
<1>3. Followed(NoDebugOp, y, z, t)
  <2>1. CASE o.pc \in {"unset", "set"}
    BY <2>1 DEF Followed
  <2>2. CASE o.pc \notin {"unset", "set"}
    BY <2>2, <1>1, <1>2, SoundIdle DEF Sound
  <2> QED
    BY <2>1, <2>2
<1> QED
  BY <1>1, <1>3 DEF Sound

LEMMA SoundSkips ==
  ASSUME NEW o, NEW x, NEW y, NEW q \in Seq(FrameRecord), NEW t, Sound(o, x, q, t),
         q # <<>>, ~IsAnswer(Head(q)), Whole(y, Tail(q), t),
         y.late = x.late, y.torn = x.torn, y.stale = x.stale, y.broken = x.broken,
         y.active = x.active
  PROVE  Sound(o, y, Tail(q), t)
<1>1. Matched(o, y, Tail(q), t)
  BY EventTaken DEF Sound, Matched
<1>2. Followed(o, y, Tail(q), t)
  BY EventTaken DEF Sound, Followed
<1> QED
  BY <1>1, <1>2 DEF Sound

LEMMA WholeSame ==
  ASSUME NEW x, NEW y, NEW q, NEW t, Whole(x, q, t), y.recorded = x.recorded,
         y.pending = x.pending, y.ring = x.ring, y.dropped = x.dropped
  PROVE  Whole(y, q, t)
BY DEF Whole

LEMMA Counts ==
  ASSUME NEW x \in ConnectionRecord
  PROVE  /\ x.recorded \in Seq(FrameRecord) /\ x.pending \in Seq(FrameRecord)
         /\ x.ring \in Seq(EventRecord) /\ x.dropped \in Nat /\ Len(x.ring) \in Nat
         /\ Len(x.ring) + x.dropped \in Nat
<1>1. /\ x.recorded \in Seq(FrameRecord) /\ x.pending \in Seq(FrameRecord)
      /\ x.ring \in Seq(EventRecord) /\ x.dropped \in Nat
  BY DEF ConnectionRecord
<1>2. Len(x.ring) \in Nat
  BY <1>1, LenProperties
<1> QED
  BY <1>1, <1>2

LEMMA TargetParts ==
  ASSUME NEW t \in TargetRecord
  PROVE  /\ t.host \in {"none", "alive", "dead"} /\ t.inbox \in Seq(AskRecord)
         /\ t.points \in SUBSET Points /\ t.reports \in Nat
BY DEF TargetRecord

LEMMA WholeSkips ==
  ASSUME NEW x \in ConnectionRecord, NEW q \in Seq(FrameRecord), NEW t \in TargetRecord,
         Whole(x, q, t), q # <<>>, ~IsReport(Head(q))
  PROVE  Whole(x, Tail(q), t)
BY KeptSkips, Counts, TargetParts DEF Whole

LEMMA Setting ==
  ASSUME DebugInv, NEW s \in DebugSessions, NEW y \in ConnectionRecord,
         NEW z \in Seq(FrameRecord), NEW w \in TargetRecord,
         dbgSes' = [dbgSes EXCEPT ![s] = y] \/ (dbgSes' = dbgSes /\ y = dbgSes[s]),
         dbgStream' = [dbgStream EXCEPT ![s] = z] \/ (dbgStream' = dbgStream /\ z = dbgStream[s]),
         dbgTarget' = [dbgTarget EXCEPT ![s] = w] \/ (dbgTarget' = dbgTarget /\ w = dbgTarget[s])
  PROVE  Only(s) /\ dbgSes'[s] = y /\ dbgStream'[s] = z /\ dbgTarget'[s] = w
<1>1. /\ dbgSes \in [DebugSessions -> ConnectionRecord]
      /\ dbgStream \in [DebugSessions -> Seq(FrameRecord)]
      /\ dbgTarget \in [DebugSessions -> TargetRecord]
  BY DEF DebugInv, DebugTypeOK
<1>2. /\ dbgSes' \in [DebugSessions -> ConnectionRecord] /\ dbgSes'[s] = y
      /\ \A u \in DebugSessions : u # s => dbgSes'[u] = dbgSes[u]
  BY <1>1
<1>3. /\ dbgStream' \in [DebugSessions -> Seq(FrameRecord)] /\ dbgStream'[s] = z
      /\ \A u \in DebugSessions : u # s => dbgStream'[u] = dbgStream[u]
  BY <1>1
<1>4. /\ dbgTarget' \in [DebugSessions -> TargetRecord] /\ dbgTarget'[s] = w
      /\ \A u \in DebugSessions : u # s => dbgTarget'[u] = dbgTarget[u]
  BY <1>1
<1> QED
  BY <1>2, <1>3, <1>4 DEF Only

(* The fields of a connection that a step leaves alone.                      *)
SameState(x, y) ==
  /\ y.late = x.late /\ y.torn = x.torn /\ y.stale = x.stale
  /\ y.broken = x.broken /\ y.active = x.active

LEMMA ReadReportStep ==
  ASSUME DebugInv, ReadReport
  PROVE  DebugInv'
<1> DEFINE x == dbgSes[S]
           q == dbgStream[S]
           t == dbgTarget[S]
           y == [x EXCEPT !.pending = Append(x.pending, Head(q))]
<1>0. ~Unlocked /\ ~dbgSes[S].torn
  BY DEF ReadReport, Reading, Unlocked
<1>1. /\ S \in DebugSessions /\ Live(S) /\ dbgOp \in DebugOpRecord
      /\ x \in ConnectionRecord /\ q \in Seq(FrameRecord) /\ t \in TargetRecord
      /\ Sound(dbgOp, x, q, t) /\ t.host # "none"
  BY <1>0, Holder
<1>2. q # <<>> /\ IsReport(Head(q))
  BY DEF ReadReport
<1>3. /\ dbgSes' = [dbgSes EXCEPT ![S] = y]
      /\ dbgStream' = [dbgStream EXCEPT ![S] = Tail(q)]
      /\ UNCHANGED <<dbgSlot, dbgOp, dbgTarget, dbgStop, dbgRuntime>>
  BY <1>1 DEF ReadReport, KeepReport, DebugInv, DebugTypeOK
<1> HIDE DEF x, q, t
<1>4. Append(x.pending, Head(q)) \in Seq(FrameRecord) /\ Tail(q) \in Seq(FrameRecord)
  BY <1>1, <1>2, Taken, Counts, Appended
<1>5. y \in ConnectionRecord
  BY <1>1, <1>4, ConnectionField
<1>6. /\ y.pending = Append(x.pending, Head(q))
      /\ y.recorded = x.recorded /\ y.ring = x.ring /\ y.dropped = x.dropped
      /\ SameState(x, y)
  BY <1>1 DEF ConnectionRecord, SameState
<1> HIDE DEF y
<1>7. Whole(y, Tail(q), t)
  <2>1. Whole(x, q, t)
    BY <1>1 DEF Sound
  <2>2. Kept(x.recorded, Append(x.pending, Head(q)), Len(x.ring) + x.dropped, Tail(q),
             t.reports, t.host)
    BY <2>1, <1>1, <1>2, KeptAside, Counts, TargetParts DEF Whole
  <2> QED
    BY <2>1, <2>2, <1>6 DEF Whole
<1>8. ~IsAnswer(Head(q))
  BY <1>2 DEF IsAnswer
<1>9. Sound(dbgOp, y, Tail(q), t)
  BY <1>1, <1>2, <1>6, <1>7, <1>8, SoundSkips DEF SameState
<1>10. /\ Only(S) /\ dbgSes'[S] = y /\ dbgStream'[S] = Tail(q) /\ dbgTarget'[S] = t
  BY <1>1, <1>3, <1>4, <1>5, Setting DEF t
<1>11. dbgOp' = dbgOp /\ UNCHANGED <<dbgSlot, dbgStop, dbgRuntime>>
  BY <1>3
<1> QED
  BY <1>1, <1>9, <1>10, <1>11, CallGoes

LEMMA FailedSet ==
  ASSUME NEW x \in ConnectionRecord
  PROVE  /\ FailReplace(x) \in ConnectionRecord
         /\ LET y == FailReplace(x)
            IN  /\ y.recorded = x.recorded /\ y.pending = x.pending
                /\ y.ring = x.ring /\ y.dropped = x.dropped
                /\ y.late = x.late /\ y.torn = x.torn /\ y.stale = x.stale
                /\ y.active = x.active
                /\ y.broken = (x.broken \/ dbgOp.pc \in {"unset", "set"})
<1>1. (x.broken \/ dbgOp.pc \in {"unset", "set"}) \in BOOLEAN
  BY DEF ConnectionRecord
<1>2. FailReplace(x) \in ConnectionRecord
  BY <1>1, ConnectionField DEF FailReplace
<1> QED
  BY <1>2 DEF FailReplace, ConnectionRecord

LEMMA ReadFailsStep ==
  ASSUME DebugInv, ReadFails
  PROVE  DebugInv'
<1> DEFINE x == dbgSes[S]
           q == dbgStream[S]
           t == dbgTarget[S]
           f == FailReplace(x)
<1>0. ~Unlocked /\ ~Launching /\ Reads(dbgOp)
  BY DEF ReadFails, Reading, Unlocked, Reads
<1>1. /\ S \in DebugSessions /\ Live(S) /\ dbgOp \in DebugOpRecord
      /\ x \in ConnectionRecord /\ q \in Seq(FrameRecord) /\ t \in TargetRecord
      /\ Sound(dbgOp, x, q, t) /\ t.host # "none"
  BY <1>0, Holder
<1>2. /\ f \in ConnectionRecord
      /\ f.recorded = x.recorded /\ f.pending = x.pending
      /\ f.ring = x.ring /\ f.dropped = x.dropped
      /\ f.late = x.late /\ f.torn = x.torn /\ f.stale = x.stale
      /\ f.active = x.active
      /\ f.broken = (x.broken \/ dbgOp.pc \in {"unset", "set"})
  BY <1>1, FailedSet
<1>3. dbgOp' = NoDebugOp /\ UNCHANGED <<dbgSlot, dbgStop, dbgRuntime>> /\ dbgTarget' = dbgTarget
  BY DEF ReadFails, Unlock
<1>4. ASSUME NEW y \in ConnectionRecord, NEW z \in Seq(FrameRecord),
             dbgSes' = [dbgSes EXCEPT ![S] = y],
             dbgStream' = [dbgStream EXCEPT ![S] = z] \/ (dbgStream' = dbgStream /\ z = q),
             Sound(NoDebugOp, y, z, t)
      PROVE  DebugInv'
  <2>1. /\ Only(S) /\ dbgSes'[S] = y /\ dbgStream'[S] = z /\ dbgTarget'[S] = t
    BY <1>1, <1>3, <1>4, Setting
  <2> QED
    BY <1>0, <1>1, <1>3, <1>4, <2>1, CallGoes
<1>5. Whole(x, q, t) /\ Matched(dbgOp, x, q, t)
  BY <1>1 DEF Sound
<1>6. CASE /\ q # <<>> /\ Head(q).kind = "disconnect"
           /\ dbgStream' = [dbgStream EXCEPT ![S] = Tail(q)]
           /\ dbgSes' = [dbgSes EXCEPT ![S] = f]
  <2> HIDE DEF x, q, t, f
  <2>1. Tail(q) \in Seq(FrameRecord) /\ ~IsAnswer(Head(q)) /\ ~IsReport(Head(q))
    BY <1>1, <1>6, Taken DEF IsAnswer, IsReport
  <2>2. Whole(f, Tail(q), t)
    BY <1>1, <1>2, <1>5, <1>6, <2>1, WholeSkips, WholeSame
  <2>3. t.host = "dead" /\ Tail(q) = <<>>
    <3>1. Ends(q, t.host)
      BY <1>5 DEF Whole, Kept
    <3>2. q \in Seq(FrameRecord) /\ q # <<>> /\ Head(q).kind = "disconnect"
      BY <1>1, <1>6
    <3> QED
      BY <3>1, <3>2, FrameSkipped
  <2>4. Silent(Tail(q)) /\ Unasked(t.inbox, t.host)
    <3>1. Len(Tail(q)) = 0
      BY <2>3, EmptySeq
    <3> QED
      BY <2>3, <3>1 DEF Silent, Unasked
  <2>5. Matched(NoDebugOp, f, Tail(q), t)
    BY <2>4, <1>2, <1>5, NoneOut DEF Matched
  <2>6. Sound(NoDebugOp, f, Tail(q), t)
    BY <2>2, <2>5, <1>0, <1>1, <1>2, SoundFails
  <2> QED
    BY <1>2, <1>4, <1>6, <2>1, <2>6
<1>7. CASE /\ x.torn \/ Closed
           /\ dbgSes' = [dbgSes EXCEPT ![S] = f] /\ dbgStream' = dbgStream
  <2>0. Closed => t.host = "dead" /\ q = <<>>
    BY DEF Closed
  <2> HIDE DEF x, q, t, f
  <2>1. Whole(f, q, t)
    BY <1>2, <1>5, WholeSame
  <2>2. Closed => Silent(q) /\ Unasked(t.inbox, t.host)
    BY <2>0 DEF Silent, Unasked
  <2>3. Matched(NoDebugOp, f, q, t)
    BY <2>2, <1>2, <1>5, <1>7, NoneOut DEF Matched
  <2>4. Sound(NoDebugOp, f, q, t)
    BY <2>1, <2>3, <1>0, <1>1, <1>2, SoundFails
  <2> QED
    BY <1>1, <1>2, <1>4, <1>7, <2>4
<1>8. CASE dbgSes' = [dbgSes EXCEPT ![S] = TimedOut(x)] /\ dbgStream' = dbgStream
  <2> DEFINE g == [f EXCEPT !.late = TRUE]
             y == [g EXCEPT !.torn = x.torn \/ q # <<>>]
  <2>1. dbgSes' = [dbgSes EXCEPT ![S] = y]
    BY <1>8 DEF TimedOut
  <2> HIDE DEF x, q, t, f
  <2>2. g \in ConnectionRecord /\ (x.torn \/ q # <<>>) \in BOOLEAN
    BY <1>1, <1>2, ConnectionField DEF ConnectionRecord
  <2>3. /\ g.recorded = f.recorded /\ g.pending = f.pending /\ g.late
        /\ g.ring = f.ring /\ g.dropped = f.dropped
        /\ g.stale = f.stale /\ g.active = f.active /\ g.broken = f.broken
    BY <1>2 DEF ConnectionRecord
  <2> HIDE DEF g
  <2>4. y \in ConnectionRecord
    BY <2>2, ConnectionField
  <2>5. /\ y.recorded = x.recorded /\ y.pending = x.pending /\ y.late
        /\ y.ring = x.ring /\ y.dropped = x.dropped
        /\ y.stale = x.stale /\ y.active = x.active /\ y.broken = f.broken
    BY <2>2, <2>3, <1>2 DEF ConnectionRecord
  <2> HIDE DEF y
  <2>6. Whole(y, q, t)
    BY <2>5, <1>5, WholeSame
  <2>7. Matched(NoDebugOp, y, q, t)
    BY <2>5 DEF Matched
  <2>8. Sound(NoDebugOp, y, q, t)
    BY <2>5, <2>6, <2>7, <1>0, <1>1, <1>2, SoundFails
  <2> QED
    BY <1>1, <1>4, <1>8, <2>1, <2>4, <2>8
<1>9. \/ /\ dbgStream[S] # <<>> /\ Head(dbgStream[S]).kind = "disconnect"
         /\ dbgStream' = [dbgStream EXCEPT ![S] = Tail(dbgStream[S])]
         /\ dbgSes' = [dbgSes EXCEPT ![S] = FailReplace(dbgSes[S])]
      \/ /\ dbgSes[S].torn \/ Closed
         /\ dbgSes' = [dbgSes EXCEPT ![S] = FailReplace(dbgSes[S])]
         /\ dbgStream' = dbgStream
      \/ dbgSes' = [dbgSes EXCEPT ![S] = TimedOut(dbgSes[S])] /\ dbgStream' = dbgStream
  BY DEF ReadFails
<1> QED
  BY <1>6, <1>7, <1>8, <1>9

(* A frame that is no event is an answer: of the call that reads, if no       *)
(* earlier one of the session had timed out; then nothing else is out.       *)
LEMMA JudgedSet ==
  ASSUME NEW x \in ConnectionRecord
  PROVE  /\ Judged(x) \in ConnectionRecord
         /\ LET y == Judged(x)
            IN  /\ y.recorded = x.recorded /\ y.pending = x.pending
                /\ y.ring = x.ring /\ y.dropped = x.dropped
                /\ y.late = x.late /\ y.torn = x.torn
                /\ y.stale = (x.stale \/ Answer.number # dbgOp.asked)
                /\ y.active = x.active /\ y.broken = x.broken
<1>1. (x.stale \/ Answer.number # dbgOp.asked) \in BOOLEAN
  BY DEF ConnectionRecord
<1>2. Judged(x) \in ConnectionRecord
  BY <1>1, ConnectionField DEF Judged
<1> QED
  BY <1>2 DEF Judged, ConnectionRecord

LEMMA Judging ==
  ASSUME DebugInv, AnswerTaken, NEW x, NEW q, NEW t,
         x = dbgSes[S], q = dbgStream[S], t = dbgTarget[S],
         NEW y, y.recorded = x.recorded, y.pending = x.pending,
         y.ring = x.ring, y.dropped = x.dropped, y.late = x.late, y.torn = x.torn,
         y.stale = (x.stale \/ Answer.number # dbgOp.asked)
  PROVE  /\ Whole(y, Tail(q), t)
         /\ \A m : Matched(m, y, Tail(q), t)
         /\ ~x.late => Paired(dbgOp, q, t.inbox, t.host)
         /\ ~x.late => Unasked(t.inbox, t.host) /\ Answer.kind = AnswerKind(dbgOp.pc)
         /\ ~Silent(q) /\ ~x.torn /\ Reads(dbgOp) /\ Answer = q[1] /\ 1 \in 1 .. Len(q)
         /\ IsAnswer(q[1])
<1>0. ~Unlocked /\ Reads(dbgOp)
  BY DEF AnswerTaken, Reading, Unlocked, Reads
<1>1. /\ x \in ConnectionRecord /\ q \in Seq(FrameRecord) /\ t \in TargetRecord
      /\ Sound(dbgOp, x, q, t)
  BY <1>0, Holder
<1>2. /\ ~x.torn /\ q # <<>> /\ Answer = Head(q) /\ IsAnswer(Head(q)) /\ ~IsReport(Head(q))
  BY DEF AnswerTaken, Answer, IsAnswer
<1>3. Whole(x, q, t) /\ Matched(dbgOp, x, q, t)
  BY <1>1 DEF Sound
<1>4. Whole(y, Tail(q), t)
  BY <1>1, <1>2, <1>3, WholeSkips, WholeSame
<1>5. ASSUME ~x.late
      PROVE  /\ Paired(dbgOp, q, t.inbox, t.host) /\ Unasked(t.inbox, t.host)
             /\ Answer.number = dbgOp.asked /\ Answer.kind = AnswerKind(dbgOp.pc)
             /\ Silent(Tail(q))
  <2>1. Paired(dbgOp, q, t.inbox, t.host)
    BY <1>2, <1>3, <1>5 DEF Matched
  <2> QED
    BY <2>1, <1>1, <1>2, AnswerAlone
<1>6. ASSUME NEW m PROVE Matched(m, y, Tail(q), t)
  <2>1. y.stale => y.late
    BY <1>3, <1>5 DEF Matched
  <2>2. ~y.late => Paired(m, Tail(q), t.inbox, t.host)
    BY <1>5, NoneOut
  <2> QED
    BY <2>1, <2>2 DEF Matched
<1>7. Head(q) = q[1] /\ 1 \in 1 .. Len(q)
  BY <1>1, <1>2, Taken
<1>8. ~Silent(q) /\ IsAnswer(q[1])
  BY <1>2, <1>7 DEF Silent
<1> QED
  BY <1>0, <1>2, <1>4, <1>5, <1>6, <1>7, <1>8

LEMMA ReadRefusedStep ==
  ASSUME DebugInv, ReadRefused
  PROVE  DebugInv'
<1> DEFINE x == dbgSes[S]
           q == dbgStream[S]
           t == dbgTarget[S]
           j == Judged(x)
           y == FailReplace(j)
<1>0. ~Unlocked /\ ~Launching /\ Reads(dbgOp) /\ AnswerTaken
  BY DEF ReadRefused, AnswerTaken, Reading, Unlocked, Reads
<1>1. /\ S \in DebugSessions /\ Live(S) /\ dbgOp \in DebugOpRecord
      /\ x \in ConnectionRecord /\ q \in Seq(FrameRecord) /\ t \in TargetRecord
      /\ Sound(dbgOp, x, q, t) /\ t.host # "none"
  BY <1>0, Holder
<1>2. j \in ConnectionRecord
  BY <1>1, JudgedSet
<1>3. /\ j.recorded = x.recorded /\ j.pending = x.pending
      /\ j.ring = x.ring /\ j.dropped = x.dropped /\ j.late = x.late /\ j.torn = x.torn
      /\ j.stale = (x.stale \/ Answer.number # dbgOp.asked)
      /\ j.active = x.active /\ j.broken = x.broken
  BY <1>1, JudgedSet
<1>4. /\ dbgOp' = NoDebugOp /\ UNCHANGED <<dbgSlot, dbgStop, dbgRuntime>>
      /\ dbgTarget' = dbgTarget
      /\ dbgSes' = [dbgSes EXCEPT ![S] = y]
      /\ dbgStream' = [dbgStream EXCEPT ![S] = Tail(q)]
  BY DEF ReadRefused, Unlock
<1> HIDE DEF j
<1>5. y \in ConnectionRecord
  BY <1>2, FailedSet
<1>6. /\ y.recorded = j.recorded /\ y.pending = j.pending
      /\ y.ring = j.ring /\ y.dropped = j.dropped
      /\ y.late = j.late /\ y.torn = j.torn /\ y.stale = j.stale
      /\ y.active = j.active /\ y.broken = (j.broken \/ dbgOp.pc \in {"unset", "set"})
  BY <1>2, FailedSet
<1> HIDE DEF y
<1>7. Whole(y, Tail(q), t) /\ Matched(NoDebugOp, y, Tail(q), t)
  BY <1>0, <1>3, <1>6, Judging
<1>8. Sound(NoDebugOp, y, Tail(q), t)
  BY <1>0, <1>1, <1>3, <1>6, <1>7, SoundFails
<1>9. q # <<>> /\ Tail(q) \in Seq(FrameRecord)
  BY <1>0, <1>1, Taken DEF AnswerTaken
<1>10. /\ Only(S) /\ dbgSes'[S] = y /\ dbgStream'[S] = Tail(q) /\ dbgTarget'[S] = t
  BY <1>1, <1>4, <1>5, <1>9, Setting
<1> QED
  BY <1>0, <1>1, <1>4, <1>8, <1>10, CallGoes

(* Where a replacement stands after an answer it accepts.                    *)
LEMMA UnsetTaken ==
  ASSUME NEW o, NEW m, NEW x, NEW q, NEW t, Sound(o, x, q, t), ~x.torn,
         ~Silent(q), o.pc = "unset", m.pc = "replace", m.resolve = o.resolve,
         m.remove = o.remove \ o.point, m.add = o.add, m.installed = o.installed,
         ~x.late => Unasked(t.inbox, t.host),
         NEW y, NEW z, Whole(y, z, t), Matched(m, y, z, t),
         y.late = x.late, y.broken = x.broken, y.active = x.active
  PROVE  Sound(m, y, z, t)
<1>1. Phased(o) /\ Followed(o, x, q, t)
  BY DEF Sound
<1>2. o.resolve = {} /\ o.installed = {}
  BY <1>1 DEF Phased
<1>3. Phased(m)
  BY <1>2 DEF Phased
<1>4. ASSUME ~x.late, ~x.broken
      PROVE  Placing(m, t.inbox, t.host) /\ Halfway(m, t.points)
  <2>1. Placing(m, t.inbox, t.host)
    BY <1>4 DEF Placing, Unasked
  <2>2. Carried(o, q, t.points)
    BY <1>1, <1>4 DEF Followed
  <2>3. t.points \ o.add = o.remove \ o.point
    BY <2>2 DEF Carried
  <2> QED
    BY <2>1, <2>3, <1>2 DEF Halfway
<1>5. ~Untouched(m)
  BY <1>2 DEF Untouched, Replacing
<1>6. Followed(m, y, z, t)
  BY <1>4, <1>5 DEF Followed
<1> QED
  BY <1>3, <1>6 DEF Sound

LEMMA SetTaken ==
  ASSUME NEW o, NEW m, NEW x, NEW q, NEW t, Sound(o, x, q, t), ~x.torn,
         1 \in 1 .. Len(q), IsAnswer(q[1]), ~Silent(q),
         o.pc = "set", m.pc = "replace", m.resolve = o.resolve,
         m.remove = o.remove, m.add = o.add \ o.point,
         ~x.late => Unasked(t.inbox, t.host)
                    /\ m.installed = o.installed \cup (IF q[1].ok THEN o.point ELSE {}),
         NEW y, NEW z, Whole(y, z, t), Matched(m, y, z, t),
         y.late = x.late, y.broken = x.broken, y.active = x.active
  PROVE  Sound(m, y, z, t)
<1>1. Phased(o) /\ Followed(o, x, q, t)
  BY DEF Sound
<1>2. o.resolve = {} /\ o.remove = {}
  BY <1>1 DEF Phased
<1>3. Phased(m)
  BY <1>2 DEF Phased
<1>4. ASSUME ~x.late, ~x.broken
      PROVE  Placing(m, t.inbox, t.host) /\ Halfway(m, t.points)
  <2>1. Placing(m, t.inbox, t.host)
    BY <1>4 DEF Placing, Unasked
  <2>2. Carried(o, q, t.points)
    BY <1>1, <1>4 DEF Followed
  <2>3. t.points \ (o.add \ o.point) = o.installed \cup (IF q[1].ok THEN o.point ELSE {})
    BY <2>2 DEF Carried
  <2> QED
    BY <2>1, <2>3, <1>2, <1>4 DEF Halfway
<1>5. ~Untouched(m)
  BY <1>2 DEF Untouched, Replacing
<1>6. Followed(m, y, z, t)
  BY <1>4, <1>5 DEF Followed
<1> QED
  BY <1>3, <1>6 DEF Sound

LEMMA OffsetTaken ==
  ASSUME NEW o, NEW m, NEW x, NEW q, NEW t, Sound(o, x, q, t),
         o.pc = "offset", m.pc = "replace", m.remove = o.remove, m.add = o.add,
         m.installed = o.installed,
         NEW y, NEW z, Whole(y, z, t), Matched(m, y, z, t),
         y.late = x.late, y.broken = x.broken, y.active = x.active
  PROVE  Sound(m, y, z, t)
<1>1. Phased(o) /\ Followed(o, x, q, t)
  BY DEF Sound
<1>2. Phased(m)
  BY <1>1 DEF Phased
<1>3. Placing(o, t.inbox, t.host) => Placing(m, t.inbox, t.host)
  BY PlacingNone
<1>4. Followed(m, y, z, t)
  BY <1>1, <1>3 DEF Followed, Untouched, Halfway
<1> QED
  BY <1>2, <1>4 DEF Sound

LEMMA ConfigureOp ==
  ASSUME NEW o \in DebugOpRecord, NEW v \in DebugLabels, NEW m, m = [o EXCEPT !.pc = v]
  PROVE  /\ m \in DebugOpRecord /\ m.pc = v /\ m.ses = o.ses
         /\ m.resolve = o.resolve /\ m.remove = o.remove /\ m.add = o.add
         /\ m.installed = o.installed
<1>1. m \in DebugOpRecord
  BY DebugOpField
<1> QED
  BY <1>1 DEF DebugOpRecord

LEMMA OffsetOp ==
  ASSUME NEW o \in DebugOpRecord, NEW m,
         m = [o EXCEPT !.pc = "replace", !.resolve = o.resolve \ o.point]
  PROVE  /\ m \in DebugOpRecord /\ m.pc = "replace" /\ m.ses = o.ses
         /\ m.remove = o.remove /\ m.add = o.add /\ m.installed = o.installed
<1> DEFINE r == [o EXCEPT !.pc = "replace"]
<1> DEFINE v == o.resolve \ o.point
<1>1. m = [r EXCEPT !.resolve = v]
  OBVIOUS
<1>2. "replace" \in DebugLabels /\ v \in SUBSET Points
  BY DEF DebugOpRecord, DebugLabels
<1>3. /\ r \in DebugOpRecord /\ r.pc = "replace" /\ r.ses = o.ses
      /\ r.remove = o.remove /\ r.add = o.add /\ r.installed = o.installed
  BY <1>2, ConfigureOp
<1> HIDE DEF r
<1>4. m \in DebugOpRecord
  <2> HIDE DEF v
  <2>1. \A k : k = [r EXCEPT !.resolve = v] => k \in DebugOpRecord
    BY ONLY <1>2, <1>3, DebugOpField
  <2> QED
    BY ONLY <1>1, <2>1
<1> QED
  BY <1>1, <1>3, <1>4 DEF DebugOpRecord

LEMMA UnsetOp ==
  ASSUME NEW o \in DebugOpRecord, NEW m,
         m = [o EXCEPT !.pc = "replace", !.remove = o.remove \ o.point]
  PROVE  /\ m \in DebugOpRecord /\ m.pc = "replace" /\ m.ses = o.ses
         /\ m.resolve = o.resolve /\ m.remove = o.remove \ o.point
         /\ m.add = o.add /\ m.installed = o.installed
<1> DEFINE r == [o EXCEPT !.pc = "replace"]
<1> DEFINE v == o.remove \ o.point
<1>1. m = [r EXCEPT !.remove = v]
  OBVIOUS
<1>2. "replace" \in DebugLabels /\ v \in SUBSET Points
  BY DEF DebugOpRecord, DebugLabels
<1>3. /\ r \in DebugOpRecord /\ r.pc = "replace" /\ r.ses = o.ses
      /\ r.resolve = o.resolve /\ r.add = o.add /\ r.installed = o.installed
  BY <1>2, ConfigureOp
<1> HIDE DEF r
<1>4. m \in DebugOpRecord
  <2> HIDE DEF v
  <2>1. \A k : k = [r EXCEPT !.remove = v] => k \in DebugOpRecord
    BY ONLY <1>2, <1>3, DebugOpField
  <2> QED
    BY ONLY <1>1, <2>1
<1> QED
  BY <1>1, <1>3, <1>4 DEF DebugOpRecord

SetDone(o, d, v) == [o EXCEPT !.pc = "replace", !.add = d, !.installed = v]

LEMMA SetOp ==
  ASSUME NEW o \in DebugOpRecord, NEW v \in SUBSET Points, NEW d \in SUBSET Points
  PROVE  /\ SetDone(o, d, v) \in DebugOpRecord
         /\ SetDone(o, d, v).pc = "replace" /\ SetDone(o, d, v).ses = o.ses
         /\ SetDone(o, d, v).resolve = o.resolve /\ SetDone(o, d, v).remove = o.remove
         /\ SetDone(o, d, v).add = d /\ SetDone(o, d, v).installed = v
<1> DEFINE r == [o EXCEPT !.pc = "replace"]
           k == [r EXCEPT !.add = d]
<1> DEFINE m == SetDone(o, d, v)
<1>1. m = [k EXCEPT !.installed = v]
  BY DEF SetDone
<1> HIDE DEF m
<1>2. "replace" \in DebugLabels 
  BY DEF DebugOpRecord, DebugLabels
<1>3. /\ r \in DebugOpRecord /\ r.pc = "replace" /\ r.ses = o.ses
      /\ r.resolve = o.resolve /\ r.remove = o.remove
  BY <1>2, ConfigureOp
<1> HIDE DEF r
<1>4. k \in DebugOpRecord
  BY <1>2, <1>3, DebugOpField
<1>5. /\ k.pc = "replace" /\ k.ses = o.ses /\ k.resolve = o.resolve
      /\ k.remove = o.remove /\ k.add = d
  BY <1>3, <1>4 DEF DebugOpRecord
<1> HIDE DEF k
<1>6. m \in DebugOpRecord
  <2>1. \A j : j = [k EXCEPT !.installed = v] => j \in DebugOpRecord
    BY ONLY v \in SUBSET Points, <1>4, DebugOpField
  <2> QED
    BY ONLY <1>1, <2>1
<1>7. /\ m.pc = "replace" /\ m.ses = o.ses /\ m.resolve = o.resolve
      /\ m.remove = o.remove /\ m.add = d /\ m.installed = v
  BY <1>1, <1>4, <1>5 DEF DebugOpRecord
<1> QED
  BY <1>6, <1>7 DEF m

LEMMA ReadAnswerStep ==
  ASSUME DebugInv, ReadAnswer
  PROVE  DebugInv'
<1> DEFINE x == dbgSes[S]
           q == dbgStream[S]
           t == dbgTarget[S]
           y == Judged(x)
           o == dbgOp
<1>0. ~Unlocked /\ Reads(dbgOp) /\ AnswerTaken /\ (Accepted \/ dbgOp.pc = "set")
  BY DEF ReadAnswer, AnswerTaken, Reading, Unlocked, Reads
<1>1. /\ S \in DebugSessions /\ Live(S) /\ dbgOp \in DebugOpRecord
      /\ x \in ConnectionRecord /\ q \in Seq(FrameRecord) /\ t \in TargetRecord
      /\ Sound(dbgOp, x, q, t) /\ t.host # "none"
  BY <1>0, Holder
<1>2. y \in ConnectionRecord
  BY <1>1, JudgedSet
<1>3. /\ y.recorded = x.recorded /\ y.pending = x.pending
      /\ y.ring = x.ring /\ y.dropped = x.dropped /\ y.late = x.late /\ y.torn = x.torn
      /\ y.stale = (x.stale \/ Answer.number # dbgOp.asked)
      /\ y.active = x.active /\ y.broken = x.broken
  BY <1>1, JudgedSet
<1>4. /\ dbgOp' = Continued /\ UNCHANGED <<dbgStop, dbgRuntime>>
      /\ dbgTarget' = dbgTarget
      /\ dbgSes' = [dbgSes EXCEPT ![S] = y]
      /\ dbgStream' = [dbgStream EXCEPT ![S] = Tail(q)]
      /\ dbgOp.pc = "configured" => dbgSlot' = S
      /\ dbgOp.pc # "configured" => dbgSlot' = dbgSlot
  BY DEF ReadAnswer
<1> HIDE DEF y
<1>5. /\ Whole(y, Tail(q), t) /\ \A m : Matched(m, y, Tail(q), t)
      /\ ~x.late => Unasked(t.inbox, t.host) /\ Answer.kind = AnswerKind(dbgOp.pc)
      /\ ~Silent(q) /\ ~x.torn /\ Answer = q[1] /\ 1 \in 1 .. Len(q) /\ IsAnswer(q[1])
  BY <1>0, <1>3, Judging
<1>6. q # <<>> /\ Tail(q) \in Seq(FrameRecord)
  BY <1>0, <1>1, Taken DEF AnswerTaken
<1>7. /\ Only(S) /\ dbgSes'[S] = y /\ dbgStream'[S] = Tail(q) /\ dbgTarget'[S] = t
  BY <1>1, <1>2, <1>4, <1>6, Setting
<1>8. dbgOp.pc \in {"query", "control", "configured", "stddef", "offset", "unset", "set"}
  BY <1>0, <1>1 DEF Reads, DebugOpRecord, DebugLabels
<1>9. ASSUME dbgOp.pc \in {"query", "control", "configured"}
      PROVE  dbgOp' = NoDebugOp /\ Sound(NoDebugOp, y, Tail(q), t)
  <2>1. dbgOp' = NoDebugOp
    BY <1>4, <1>9 DEF Continued
  <2>2. Untouched(dbgOp) /\ ~Replacing(NoDebugOp)
    BY <1>9, NothingYet DEF Untouched, Replacing
  <2> QED
    BY <2>1, <2>2, <1>1, <1>3, <1>5, <1>9, SoundIdle
<1>10. CASE dbgOp.pc \in {"query", "control"}
  <2>1. ~Launching /\ UNCHANGED <<dbgSlot, dbgStop, dbgRuntime>>
    BY <1>4, <1>10 DEF Launching
  <2> QED
    BY <1>1, <1>7, <1>9, <1>10, <2>1, CallGoes
<1>11. CASE dbgOp.pc = "configured"
  <2>1. dbgOp' = NoDebugOp /\ dbgSlot' = S /\ UNCHANGED <<dbgStop, dbgRuntime>>
    BY <1>4, <1>9, <1>11
  <2>2. ~dbgRuntime
    BY <1>11 DEF DebugInv, Locked, Launching
  <2>3. NoDebugOp.pc = "idle" /\ NoDebugOp.ses = NoDebug /\ NoDebugOp \in DebugOpRecord
    BY NothingYet
  <2>4. S' = NoDebug /\ Unlocked' /\ ~Launching'
    BY <2>1, <2>3 DEF Unlocked, Launching, S
  <2>5. Locked'
    BY <2>1, <2>2, <2>4 DEF Locked
  <2>6. Sound(dbgOp', dbgSes'[S], dbgStream'[S], dbgTarget'[S]) /\ dbgTarget'[S].host # "none"
    BY <1>1, <1>7, <1>9, <1>11
  <2>7. PICK s \in DebugSessions : s = S
    BY <1>1
  <2>8. /\ Live(s) /\ Only(s) /\ dbgSlot' = s /\ dbgTarget'[s].host # "none"
        /\ Sound(dbgOp', dbgSes'[s], dbgStream'[s], dbgTarget'[s])
    BY <1>1, <1>7, <2>1, <2>6, <2>7
  <2>9. dbgSlot' \in DebugSessions /\ dbgOp' \in DebugOpRecord /\ Live(s)'
    BY <2>1, <2>3, <2>8 DEF Live
  <2> QED
    BY <2>1, <2>5, <2>8, <2>9, LiveKeeps
<1>12. ASSUME NEW m \in DebugOpRecord, dbgOp' = m, m.ses = S, m.pc # "idle",
              m.pc \in {"accept", "stddef", "configure", "configured"} <=> Launching,
              dbgOp.pc # "configured", Sound(m, y, Tail(q), t)
       PROVE  DebugInv'
  <2>1. UNCHANGED <<dbgSlot, dbgStop, dbgRuntime>> /\ (Launching' <=> Launching)
    BY <1>4, <1>12 DEF Launching
  <2> QED
    BY <1>1, <1>7, <1>12, <2>1, CallGoes
<1>13. CASE dbgOp.pc = "stddef"
  <2> DEFINE m == [dbgOp EXCEPT !.pc = "configure"]
  <2>1. dbgOp' = m
    BY <1>4, <1>13 DEF Continued
  <2>2. m \in DebugOpRecord /\ m.pc = "configure" /\ m.ses = S
    <3>1. "configure" \in DebugLabels
      BY DEF DebugLabels
    <3> QED
      BY <3>1, <1>1, ConfigureOp DEF S
  <2> HIDE DEF m
  <2>3. Untouched(dbgOp) /\ ~Replacing(m)
    BY <1>13, <2>2 DEF Untouched, Replacing
  <2>4. Sound(m, y, Tail(q), t)
    BY <2>3, <1>1, <1>3, <1>5, <1>13, SoundIdle
  <2> QED
    BY <1>12, <1>13, <2>1, <2>2, <2>4 DEF Launching
<1>14. CASE dbgOp.pc = "offset"
  <2> DEFINE m == [dbgOp EXCEPT !.pc = "replace", !.resolve = dbgOp.resolve \ dbgOp.point]
  <2>1. dbgOp' = m
    BY <1>4, <1>14 DEF Continued
  <2>2. /\ m \in DebugOpRecord /\ m.pc = "replace" /\ m.ses = S
        /\ m.remove = dbgOp.remove /\ m.add = dbgOp.add /\ m.installed = dbgOp.installed
    BY <1>1, OffsetOp DEF S
  <2> HIDE DEF m
  <2>3. Sound(m, y, Tail(q), t)
    BY <2>2, <1>1, <1>3, <1>5, <1>14, OffsetTaken
  <2> QED
    BY <1>12, <1>14, <2>1, <2>2, <2>3 DEF Launching
<1>15. CASE dbgOp.pc = "unset"
  <2> DEFINE m == [dbgOp EXCEPT !.pc = "replace", !.remove = dbgOp.remove \ dbgOp.point]
  <2>1. dbgOp' = m
    BY <1>4, <1>15 DEF Continued
  <2>2. /\ m \in DebugOpRecord /\ m.pc = "replace" /\ m.ses = S
        /\ m.resolve = dbgOp.resolve /\ m.remove = dbgOp.remove \ dbgOp.point
        /\ m.add = dbgOp.add /\ m.installed = dbgOp.installed
    BY <1>1, UnsetOp DEF S
  <2> HIDE DEF m
  <2>3. Sound(m, y, Tail(q), t)
    BY <2>2, <1>1, <1>3, <1>5, <1>15, UnsetTaken
  <2> QED
    BY <1>12, <1>15, <2>1, <2>2, <2>3 DEF Launching
<1>16. CASE dbgOp.pc = "set"
  <2> DEFINE v == IF Accepted /\ Answer.ok THEN dbgOp.installed \cup dbgOp.point
                                          ELSE dbgOp.installed
             d == dbgOp.add \ dbgOp.point
             m == SetDone(dbgOp, d, v)
  <2>1. dbgOp' = m
    BY <1>4, <1>16 DEF Continued, SetDone
  <2>2. v \in SUBSET Points
    BY <1>1 DEF DebugOpRecord
  <2>3. ~x.late => v = dbgOp.installed \cup (IF q[1].ok THEN dbgOp.point ELSE {})
    BY <1>5, <1>16 DEF Accepted, Expected, AnswerKind
  <2> HIDE DEF v
  <2>4. /\ m \in DebugOpRecord /\ m.pc = "replace" /\ m.ses = S
        /\ m.resolve = dbgOp.resolve /\ m.remove = dbgOp.remove
        /\ m.add = d /\ m.installed = v
    <3>1. dbgOp \in DebugOpRecord /\ dbgOp.ses = S
      BY <1>1 DEF S
    <3>2. d \in SUBSET Points
      BY <1>1 DEF DebugOpRecord
    <3> HIDE DEF d
    <3> QED
      BY <3>1, <3>2, <2>2, SetOp
  <2> HIDE DEF m
  <2>5. Sound(m, y, Tail(q), t)
    BY <2>3, <2>4, <1>1, <1>3, <1>5, <1>16, SetTaken
  <2> QED
    BY <1>12, <1>16, <2>1, <2>4, <2>5 DEF Launching
<1> QED
  BY <1>8, <1>10, <1>11, <1>13, <1>14, <1>15, <1>16

-----------------------------------------------------------------------------
(* A request is sent: it is the only one out.                                *)
Asked(o, s, n, points) == [o EXCEPT !.ses = s, !.asked = n, !.point = points]

LEMMA AskedOp ==
  ASSUME NEW o \in DebugOpRecord, NEW s \in DebugSessions, NEW n \in Nat,
         NEW points \in SUBSET Points
  PROVE  /\ Asked(o, s, n, points) \in DebugOpRecord
         /\ Asked(o, s, n, points).pc = o.pc /\ Asked(o, s, n, points).ses = s
         /\ Asked(o, s, n, points).asked = n /\ Asked(o, s, n, points).point = points
         /\ Asked(o, s, n, points).resolve = o.resolve
         /\ Asked(o, s, n, points).remove = o.remove
         /\ Asked(o, s, n, points).add = o.add
         /\ Asked(o, s, n, points).installed = o.installed
<1> DEFINE r == [o EXCEPT !.ses = s]
           k == [r EXCEPT !.asked = n]
           m == Asked(o, s, n, points)
<1>1. m = [k EXCEPT !.point = points]
  BY DEF Asked
<1> HIDE DEF m
<1>2. s \in DebugSessions \cup {NoDebug}
  OBVIOUS
<1>3. /\ r \in DebugOpRecord /\ r.pc = o.pc /\ r.ses = s /\ r.resolve = o.resolve
      /\ r.remove = o.remove /\ r.add = o.add /\ r.installed = o.installed
  <2>1. r \in DebugOpRecord
    BY <1>2, DebugOpField
  <2> QED
    BY <2>1 DEF DebugOpRecord
<1> HIDE DEF r
<1>4. /\ k \in DebugOpRecord /\ k.pc = o.pc /\ k.ses = s /\ k.resolve = o.resolve
      /\ k.remove = o.remove /\ k.add = o.add /\ k.installed = o.installed /\ k.asked = n
  <2>1. k \in DebugOpRecord
    BY <1>3, DebugOpField
  <2> QED
    BY <2>1, <1>3 DEF DebugOpRecord
<1> HIDE DEF k
<1>5. m \in DebugOpRecord
  BY <1>1, <1>4, DebugOpField
<1>6. /\ m.pc = o.pc /\ m.ses = s /\ m.asked = n /\ m.point = points
      /\ m.resolve = o.resolve /\ m.remove = o.remove /\ m.add = o.add
      /\ m.installed = o.installed
  BY <1>1, <1>4, <1>5 DEF DebugOpRecord
<1> QED
  BY <1>5, <1>6 DEF m

LEMMA CallOp ==
  ASSUME NEW v \in DebugLabels, dbgSlot \in DebugSessions
  PROVE  /\ Call(v) \in DebugOpRecord /\ Call(v).pc = v /\ Call(v).ses = dbgSlot
         /\ Call(v).resolve = {} /\ Call(v).remove = {} /\ Call(v).add = {}
         /\ Call(v).installed = {}
<1> DEFINE r == [NoDebugOp EXCEPT !.pc = v]
<1>1. Call(v) = [r EXCEPT !.ses = dbgSlot]
  BY DEF Call
<1>2. /\ r \in DebugOpRecord /\ r.pc = v
      /\ r.resolve = NoDebugOp.resolve /\ r.remove = NoDebugOp.remove
      /\ r.add = NoDebugOp.add /\ r.installed = NoDebugOp.installed
  BY NothingYet, ConfigureOp
<1>3. /\ NoDebugOp.resolve = {} /\ NoDebugOp.remove = {} /\ NoDebugOp.add = {}
      /\ NoDebugOp.installed = {}
  BY DEF NoDebugOp
<1> HIDE DEF r
<1>4. Call(v) \in DebugOpRecord
  BY <1>1, <1>2, DebugOpField
<1> QED
  BY <1>1, <1>2, <1>3, <1>4 DEF DebugOpRecord

(* What a send does to the session's parts.                                  *)
Sent(t, a) == [t EXCEPT !.inbox = Append(t.inbox, a)]
AskedOnce(x) == [x EXCEPT !.asked = x.asked + 1]

LEMMA SentSet ==
  ASSUME NEW t \in TargetRecord, NEW a \in AskRecord
  PROVE  /\ Sent(t, a) \in TargetRecord /\ Sent(t, a).inbox = Append(t.inbox, a)
         /\ Sent(t, a).host = t.host /\ Sent(t, a).points = t.points
         /\ Sent(t, a).reports = t.reports
<1>1. Append(t.inbox, a) \in Seq(AskRecord)
  BY TargetParts, Appended
<1>2. Sent(t, a) \in TargetRecord
  BY <1>1, TargetField DEF Sent
<1> QED
  BY <1>2 DEF Sent, TargetRecord

LEMMA AskedSet ==
  ASSUME NEW x \in ConnectionRecord
  PROVE  /\ AskedOnce(x) \in ConnectionRecord /\ x.asked + 1 \in Nat
         /\ AskedOnce(x).recorded = x.recorded /\ AskedOnce(x).pending = x.pending
         /\ AskedOnce(x).ring = x.ring /\ AskedOnce(x).dropped = x.dropped
         /\ SameState(x, AskedOnce(x))
<1>1. x.asked + 1 \in Nat
  BY DEF ConnectionRecord
<1>2. AskedOnce(x) \in ConnectionRecord
  BY <1>1, ConnectionField DEF AskedOnce
<1> QED
  BY <1>1, <1>2 DEF AskedOnce, ConnectionRecord, SameState

LEMMA WholeSent ==
  ASSUME NEW x \in ConnectionRecord, NEW q, NEW t \in TargetRecord, Whole(x, q, t),
         NEW a \in AskRecord, a.kind # "disconnect"
  PROVE  Whole(AskedOnce(x), q, Sent(t, a))
<1> DEFINE y == AskedOnce(x)
           w == Sent(t, a)
<1>1. /\ w.inbox = Append(t.inbox, a) /\ w.host = t.host /\ w.reports = t.reports
      /\ y.recorded = x.recorded /\ y.pending = x.pending
      /\ y.ring = x.ring /\ y.dropped = x.dropped
      /\ t.inbox \in Seq(AskRecord)
  BY SentSet, AskedSet, TargetParts
<1> HIDE DEF y, w
<1>2. \A i \in 1 .. Len(t.inbox) : t.inbox[i].kind # "disconnect"
  BY DEF Whole
<1>3. \A i \in 1 .. Len(w.inbox) : w.inbox[i].kind # "disconnect"
  BY <1>1, <1>2, InboxOpen
<1>4. Whole(y, q, w)
  BY <1>1, <1>3 DEF Whole
<1> QED
  BY <1>4 DEF y, w

LEMMA AskSound ==
  ASSUME NEW o, NEW m, NEW x \in ConnectionRecord, NEW q, NEW t \in TargetRecord,
         Sound(o, x, q, t), ~Reads(o), Reads(m),
         NEW a \in AskRecord, a.kind # "disconnect", a.number = m.asked, a.kind = m.pc,
         a.kind \in {"unset", "set"} => a.points = m.point, Phased(m),
         Untouched(m) => Untouched(o),
         m.pc \in {"offset", "unset", "set"} =>
           /\ o.pc = "replace" /\ m.remove = o.remove /\ m.add = o.add
           /\ m.installed = o.installed,
         m.pc # "replace"
  PROVE  Sound(m, AskedOnce(x), q, Sent(t, a))
<1> DEFINE y == AskedOnce(x)
           w == Sent(t, a)
<1>1. /\ w \in TargetRecord /\ w.inbox = Append(t.inbox, a) /\ w.host = t.host
      /\ w.points = t.points /\ y \in ConnectionRecord /\ SameState(x, y)
      /\ t.inbox \in Seq(AskRecord)
  BY SentSet, AskedSet, TargetParts
<1>2. Whole(y, q, w)
  BY WholeSent DEF Sound
<1> HIDE DEF y, w
<1>3. ASSUME ~x.late, ~x.torn
      PROVE  Silent(q) /\ Paired(m, q, w.inbox, w.host)
  <2>1. Paired(o, q, t.inbox, t.host)
    BY <1>3 DEF Sound, Matched
  <2>2. Silent(q) /\ Unasked(t.inbox, t.host)
    BY <2>1, NoneOut
  <2> QED
    BY <2>2, <1>1, AskSent
<1>4. Matched(m, y, q, w)
  BY <1>1, <1>3 DEF Sound, Matched, SameState
<1>5. ASSUME ~x.late, ~x.broken
      PROVE  /\ Placing(m, w.inbox, w.host)
             /\ Untouched(m) => w.points = y.active
             /\ m.pc \in {"offset", "unset", "set"} => Halfway(m, w.points)
  <2>1. Followed(o, x, q, t)
    BY DEF Sound
  <2>2. Placing(o, t.inbox, t.host) /\ (Untouched(o) => t.points = x.active)
    BY <2>1, <1>5 DEF Followed
  <2>3. Placing(m, w.inbox, w.host)
    BY <2>2, <1>1, PlacingSent
  <2>4. Untouched(m) => w.points = y.active
    BY <2>2, <1>1 DEF SameState
  <2>5. o.pc = "replace" => Halfway(o, t.points)
    BY <2>1, <1>5 DEF Followed
  <2> QED
    BY <2>3, <2>4, <2>5, <1>1 DEF Halfway
<1>6. Followed(m, y, q, w)
  BY <1>1, <1>3, <1>5 DEF Followed, SameState, Carried
<1> QED
  BY <1>2, <1>4, <1>6 DEF Sound, y, w

(* The calls that ask.                                                       *)
LEMMA AskGoes ==
  ASSUME DebugInv, NEW s \in DebugSessions, Live(s), dbgTarget[s].host # "none",
         NEW m \in DebugOpRecord, NEW points \in SUBSET Points,
         Sound(dbgOp, dbgSes[s], dbgStream[s], dbgTarget[s]), ~Reads(dbgOp),
         Write(s, m.pc, points),
         dbgSes' = [dbgSes EXCEPT ![s].asked = @ + 1],
         dbgOp' = m, m.ses = s, m.asked = dbgSes[s].asked + 1,
         UNCHANGED <<dbgSlot, dbgStream, dbgStop, dbgRuntime>>,
         m.pc \in {"stddef", "configured", "query", "control", "offset", "unset", "set"},
         m.pc \in {"stddef", "configured"} <=> Launching,
         ~Replacing(m) => Untouched(dbgOp),
         m.pc \in {"offset", "unset", "set"} =>
           /\ dbgOp.pc = "replace" /\ m.remove = dbgOp.remove /\ m.add = dbgOp.add
           /\ m.installed = dbgOp.installed /\ m.resolve = dbgOp.resolve
           /\ m.point = points,
         m.pc = "offset" => dbgOp.resolve # {},
         m.pc = "unset" => dbgOp.resolve = {} /\ dbgOp.remove # {},
         m.pc = "set" =>
           dbgOp.resolve = {} /\ dbgOp.remove = {} /\ \E p \in dbgOp.add : points = {p}
  PROVE  DebugInv'
<1> DEFINE x == dbgSes[s]
           t == dbgTarget[s]
           n == x.asked + 1
           a == [kind |-> m.pc, points |-> points, number |-> n]
<1>1. /\ x \in ConnectionRecord /\ t \in TargetRecord /\ dbgStream[s] \in Seq(FrameRecord)
  BY DEF DebugInv, DebugTypeOK
<1>2. n \in Nat /\ AskedOnce(x) \in ConnectionRecord
  BY <1>1, AskedSet
<1>3. dbgSes' = [dbgSes EXCEPT ![s] = AskedOnce(x)]
  BY DEF AskedOnce
<1>4. dbgTarget' = [dbgTarget EXCEPT ![s] = Sent(t, a)]
  BY DEF Write, Sent
<1>5. a \in AskRecord /\ a.kind = m.pc /\ a.points = points /\ a.number = n
  BY <1>2 DEF AskRecord
<1>6. dbgOp' = m /\ m.asked = n /\ t.host # "none"
  OBVIOUS
<1>7. Sound(dbgOp, x, dbgStream[s], t)
  OBVIOUS
<1> HIDE DEF n, a, x, t
<1>9. Phased(m)
  <2>1. Phased(dbgOp)
    BY <1>7 DEF Sound
  <2>2. CASE m.pc = "offset" \/ m.pc = "unset"
    BY <2>1, <2>2 DEF Phased
  <2>3. CASE m.pc = "set"
    BY <2>1, <2>3 DEF Phased
  <2>4. CASE m.pc \notin {"offset", "unset", "set"}
    BY <2>4 DEF Phased
  <2> QED
    BY <2>2, <2>3, <2>4
<1>10. Untouched(m) => Untouched(dbgOp)
  BY DEF Untouched, Replacing
<1>11. Reads(m) /\ m.pc # "replace" /\ m.pc # "idle"
  BY DEF Reads
<1>12. Sound(m, AskedOnce(x), dbgStream[s], Sent(t, a))
  <2>1. /\ a.kind # "disconnect" /\ a.number = m.asked /\ a.kind = m.pc
        /\ a.kind \in {"unset", "set"} => a.points = m.point
    BY <1>5, <1>6
  <2>2. m.pc \in {"offset", "unset", "set"} =>
           /\ dbgOp.pc = "replace" /\ m.remove = dbgOp.remove /\ m.add = dbgOp.add
           /\ m.installed = dbgOp.installed
    OBVIOUS
  <2> QED
    BY <2>1, <2>2, <1>1, <1>5, <1>7, <1>9, <1>10, <1>11, AskSound
<1>13. Sent(t, a) \in TargetRecord /\ Sent(t, a).host # "none"
  <2>1. t \in TargetRecord /\ a \in AskRecord /\ t.host # "none"
    BY <1>1, <1>5, <1>6
  <2>2. Sent(t, a) \in TargetRecord /\ Sent(t, a).host = t.host
    BY ONLY <2>1, SentSet
  <2> QED
    BY <2>1, <2>2
<1>14. /\ Only(s) /\ dbgSes'[s] = AskedOnce(x) /\ dbgStream'[s] = dbgStream[s]
       /\ dbgTarget'[s] = Sent(t, a)
  <2> DEFINE y == AskedOnce(x)
             w == Sent(t, a)
             q == dbgStream[s]
  <2>1. /\ dbgStream' = dbgStream /\ q = dbgStream[s] /\ q \in Seq(FrameRecord)
        /\ y \in ConnectionRecord /\ w \in TargetRecord
    BY <1>1, <1>2, <1>13
  <2>2. dbgSes' = [dbgSes EXCEPT ![s] = y] /\ dbgTarget' = [dbgTarget EXCEPT ![s] = w]
    BY <1>3, <1>4
  <2> HIDE DEF y, w, q
  <2>3. /\ Only(s) /\ dbgSes'[s] = y /\ dbgStream'[s] = q /\ dbgTarget'[s] = w
    BY ONLY DebugInv, s \in DebugSessions, <2>1, <2>2, Setting
  <2> QED
    BY <2>3 DEF y, w, q
<1>15. UNCHANGED <<dbgSlot, dbgStop, dbgRuntime>> /\ (Launching' <=> Launching)
  BY <1>6 DEF Launching
<1>16. dbgOp' \in DebugOpRecord /\ dbgOp'.ses = s /\ dbgOp'.pc # "idle"
  BY <1>6, <1>11
<1>17. Sound(dbgOp', dbgSes'[s], dbgStream'[s], dbgTarget'[s])
  BY <1>6, <1>12, <1>14
<1>18. dbgTarget'[s].host # "none"
  BY <1>13, <1>14
<1> QED
  BY <1>14, <1>15, <1>16, <1>17, <1>18, CallGoes

LEMMA AskingGoes ==
  ASSUME DebugInv, NEW s \in DebugSessions, Live(s), dbgTarget[s].host # "none",
         NEW o \in DebugOpRecord, NEW points \in SUBSET Points,
         Sound(dbgOp, dbgSes[s], dbgStream[s], dbgTarget[s]), ~Reads(dbgOp),
         Ask(s, o, o.pc, points),
         UNCHANGED <<dbgSlot, dbgStream, dbgStop, dbgRuntime>>,
         o.pc \in {"stddef", "configured", "query", "control", "offset", "unset", "set"},
         o.pc \in {"stddef", "configured"} <=> Launching,
         ~Replacing(o) => Untouched(dbgOp),
         o.pc \in {"offset", "unset", "set"} =>
           /\ dbgOp.pc = "replace" /\ o.remove = dbgOp.remove /\ o.add = dbgOp.add
           /\ o.installed = dbgOp.installed /\ o.resolve = dbgOp.resolve,
         o.pc = "offset" => dbgOp.resolve # {},
         o.pc = "unset" => dbgOp.resolve = {} /\ dbgOp.remove # {},
         o.pc = "set" =>
           dbgOp.resolve = {} /\ dbgOp.remove = {} /\ \E p \in dbgOp.add : points = {p}
  PROVE  DebugInv'
<1> DEFINE n == dbgSes[s].asked + 1
           m == Asked(o, s, n, points)
<1>1. dbgSes[s] \in ConnectionRecord
  BY DEF DebugInv, DebugTypeOK
<1>2. n \in Nat
  BY <1>1, AskedSet
<1>3. /\ Write(s, o.pc, points) /\ dbgSes' = [dbgSes EXCEPT ![s].asked = @ + 1]
      /\ dbgOp' = m
  BY DEF Ask, Asked
<1>4. n = dbgSes[s].asked + 1
  OBVIOUS
<1> HIDE DEF n
<1>5. /\ m \in DebugOpRecord /\ m.pc = o.pc /\ m.ses = s /\ m.asked = n
      /\ m.point = points /\ m.resolve = o.resolve /\ m.remove = o.remove
      /\ m.add = o.add /\ m.installed = o.installed
  BY <1>2, AskedOp
<1> HIDE DEF m
<1>6. ~Replacing(m) => Untouched(dbgOp)
  BY <1>5 DEF Replacing
<1>7. /\ Write(s, m.pc, points) /\ m.asked = dbgSes[s].asked + 1
  BY <1>3, <1>4, <1>5
<1> QED
  BY <1>3, <1>5, <1>6, <1>7, AskGoes

LEMMA AcceptStep ==
  ASSUME DebugInv, Accept
  PROVE  DebugInv'
<1> DEFINE o == [dbgOp EXCEPT !.pc = "stddef"]
<1>1. dbgOp.pc = "accept"
  BY DEF Accept
<1>2. ~Unlocked /\ Launching /\ ~Reads(dbgOp) /\ Untouched(dbgOp)
  BY <1>1 DEF Unlocked, Launching, Reads, Untouched, Replacing
<1>3. /\ S \in DebugSessions /\ Live(S) /\ dbgTarget[S].host # "none"
      /\ dbgOp \in DebugOpRecord
      /\ Sound(dbgOp, dbgSes[S], dbgStream[S], dbgTarget[S])
  BY <1>2, Holder
<1>4. o \in DebugOpRecord /\ o.pc = "stddef"
  BY <1>3, ConfigureOp DEF DebugLabels
<1>5. Ask(S, o, o.pc, {}) /\ UNCHANGED <<dbgSlot, dbgStream, dbgStop, dbgRuntime>>
  BY <1>4 DEF Accept
<1> HIDE DEF o
<1>6. {} \in SUBSET Points
  OBVIOUS
<1> QED
  BY <1>2, <1>3, <1>4, <1>5, <1>6, AskingGoes

LEMMA ConfigureStep ==
  ASSUME DebugInv, Configure
  PROVE  DebugInv'
<1> DEFINE n == dbgSes[S].asked + 1
           o == [dbgOp EXCEPT !.pc = "configured"]
           m == [o EXCEPT !.asked = n]
<1>1. dbgOp.pc = "configure"
  BY DEF Configure
<1>2. ~Unlocked /\ Launching /\ ~Reads(dbgOp) /\ Untouched(dbgOp)
  BY <1>1 DEF Unlocked, Launching, Reads, Untouched, Replacing
<1>3. /\ S \in DebugSessions /\ Live(S) /\ dbgTarget[S].host # "none"
      /\ dbgOp \in DebugOpRecord /\ dbgSes[S] \in ConnectionRecord
      /\ Sound(dbgOp, dbgSes[S], dbgStream[S], dbgTarget[S])
  BY <1>2, Holder
<1>4. o \in DebugOpRecord /\ o.pc = "configured" /\ o.ses = S
  BY <1>3, ConfigureOp DEF DebugLabels, S
<1>5. n \in Nat /\ n = dbgSes[S].asked + 1
  BY <1>3, AskedSet
<1>6. /\ Write(S, "configured", {}) /\ dbgSes' = [dbgSes EXCEPT ![S].asked = @ + 1]
      /\ dbgOp' = m
      /\ UNCHANGED <<dbgSlot, dbgStream, dbgStop, dbgRuntime>>
  BY DEF Configure
<1> HIDE DEF o, n
<1>7. m \in DebugOpRecord
  BY <1>4, <1>5, DebugOpField
<1>8. m.pc = "configured" /\ m.ses = S /\ m.asked = n
  BY <1>4, <1>7 DEF DebugOpRecord
<1> HIDE DEF m
<1>9. {} \in SUBSET Points /\ Write(S, m.pc, {}) /\ m.asked = dbgSes[S].asked + 1
  BY <1>5, <1>6, <1>8
<1> QED
  BY <1>2, <1>3, <1>6, <1>7, <1>8, <1>9, AskGoes

LEMMA QueryStep ==
  ASSUME DebugInv, Query \/ Control
  PROVE  DebugInv'
<1>1. Unlocked /\ dbgSlot # NoDebug /\ ~Launching /\ ~Reads(dbgOp) /\ Untouched(dbgOp)
  BY DEF Query, Control, MayAsk, Unlocked, Launching, Reads, Untouched, Replacing
<1>2. /\ dbgSlot \in DebugSessions /\ Live(dbgSlot) /\ dbgTarget[dbgSlot].host # "none"
      /\ Sound(dbgOp, dbgSes[dbgSlot], dbgStream[dbgSlot], dbgTarget[dbgSlot])
  BY <1>1, InSlot
<1>3. PICK v \in {"query", "control"} :
        /\ Ask(dbgSlot, Call(v), v, {})
        /\ UNCHANGED <<dbgSlot, dbgStream, dbgStop, dbgRuntime>>
  BY DEF Query, Control
<1> DEFINE o == Call(v)
<1>4. v \in DebugLabels /\ v \notin {"stddef", "configured", "offset", "unset", "set"}
  BY DEF DebugLabels
<1>5. o \in DebugOpRecord /\ o.pc = v
  BY <1>2, <1>4, CallOp
<1>6. {} \in SUBSET Points /\ Ask(dbgSlot, o, o.pc, {})
  BY <1>3, <1>5
<1> HIDE DEF o
<1> QED
  BY <1>1, <1>2, <1>3, <1>4, <1>5, <1>6, AskingGoes

LEMMA ReplaceNextStep ==
  ASSUME DebugInv, ReplaceNext
  PROVE  DebugInv'
<1>1. dbgOp.pc = "replace"
  BY DEF ReplaceNext
<1>2. ~Unlocked /\ ~Launching /\ ~Reads(dbgOp)
  BY <1>1 DEF Unlocked, Launching, Reads
<1>3. /\ S \in DebugSessions /\ Live(S) /\ dbgTarget[S].host # "none"
      /\ dbgOp \in DebugOpRecord
      /\ Sound(dbgOp, dbgSes[S], dbgStream[S], dbgTarget[S])
  BY <1>2, Holder
<1>4. PICK v \in {"offset", "unset", "set"}, p \in Points :
        /\ Ask(S, [dbgOp EXCEPT !.pc = v], v, {p})
        /\ v = "offset" => dbgOp.resolve # {}
        /\ v = "unset" => dbgOp.resolve = {} /\ dbgOp.remove # {}
        /\ v = "set" => dbgOp.resolve = {} /\ dbgOp.remove = {} /\ p \in dbgOp.add
  <2>1. /\ dbgOp.resolve \in SUBSET Points /\ dbgOp.remove \in SUBSET Points
        /\ dbgOp.add \in SUBSET Points
    BY <1>3 DEF DebugOpRecord
  <2> QED
    BY <2>1 DEF ReplaceNext
<1> DEFINE o == [dbgOp EXCEPT !.pc = v]
<1>5. /\ o \in DebugOpRecord /\ o.pc = v /\ o.resolve = dbgOp.resolve
      /\ o.remove = dbgOp.remove /\ o.add = dbgOp.add /\ o.installed = dbgOp.installed
  <2>1. v \in DebugLabels
    BY DEF DebugLabels
  <2> QED
    BY <2>1, <1>3, ConfigureOp
<1>6. {p} \in SUBSET Points /\ Ask(S, o, o.pc, {p})
  BY <1>4, <1>5
<1> HIDE DEF o
<1>7. Replacing(o) /\ o.pc \notin {"stddef", "configured"}
  BY <1>5 DEF Replacing
<1>8. UNCHANGED <<dbgSlot, dbgStream, dbgStop, dbgRuntime>>
  BY DEF ReplaceNext
<1>9. o.pc = "set" => dbgOp.resolve = {} /\ dbgOp.remove = {} /\ \E e \in dbgOp.add : {p} = {e}
  BY <1>4, <1>5
<1> QED
  BY <1>1, <1>2, <1>3, <1>4, <1>5, <1>6, <1>7, <1>8, <1>9, AskingGoes

LEMMA CatchStep ==
  ASSUME DebugInv, CatchRuntimes
  PROVE  DebugInv'
<1> DEFINE s == dbgSlot
           x == dbgSes[s]
           q == dbgStream[s]
           t == dbgTarget[s]
           a == [kind |-> "catch", points |-> {}, number |-> x.asked + 1]
           y == AskedOnce(x)
           w == Sent(t, a)
<1>1. Unlocked /\ dbgSlot # NoDebug /\ ~Reads(dbgOp)
  BY DEF CatchRuntimes, MayAsk, Unlocked, Reads
<1>2. /\ s \in DebugSessions /\ Live(s) /\ t.host # "none" /\ Sound(dbgOp, x, q, t)
      /\ x \in ConnectionRecord /\ q \in Seq(FrameRecord) /\ t \in TargetRecord
  BY <1>1, InSlot
<1>3. /\ dbgSes' = [dbgSes EXCEPT ![s] = y] /\ dbgTarget' = [dbgTarget EXCEPT ![s] = w]
      /\ UNCHANGED <<dbgSlot, dbgOp, dbgStream, dbgStop, dbgRuntime>>
  BY DEF CatchRuntimes, Send, Write, AskedOnce, Sent
<1>4. y \in ConnectionRecord /\ x.asked + 1 \in Nat /\ SameState(x, y)
  BY <1>2, AskedSet
<1>5. a \in AskRecord /\ a.kind = "catch"
  BY <1>4 DEF AskRecord
<1> HIDE DEF a
<1>6. /\ w \in TargetRecord /\ w.inbox = Append(t.inbox, a) /\ w.host = t.host
      /\ w.points = t.points /\ t.inbox \in Seq(AskRecord)
  BY <1>2, <1>5, SentSet, TargetParts
<1>7. Whole(y, q, w)
  <2>1. Whole(x, q, t) /\ a.kind # "disconnect"
    BY <1>2, <1>5 DEF Sound
  <2> QED
    BY <2>1, <1>2, <1>5, WholeSent
<1>8. q \in Seq(FrameRecord) /\ t.host # "none" /\ Sound(dbgOp, x, q, t)
  BY <1>2
<1> HIDE DEF y, w, x, q, t
<1>9. Matched(dbgOp, y, q, w)
  <2>1. Matched(dbgOp, x, q, t)
    BY <1>8 DEF Sound
  <2>2. ASSUME ~x.late, ~x.torn PROVE Paired(dbgOp, q, w.inbox, w.host)
    <3>1. Silent(q) /\ Unasked(t.inbox, t.host)
      BY <1>1, <2>1, <2>2, NoneOut DEF Matched
    <3>2. Unasked(w.inbox, w.host)
      BY <3>1, <1>5, <1>6, CatchSent
    <3> QED
      BY <3>1, <3>2, NoneOut
  <2> QED
    BY <2>1, <2>2, <1>4 DEF Matched, SameState
<1>10. Followed(dbgOp, y, q, w)
  <2>1. Followed(dbgOp, x, q, t)
    BY <1>8 DEF Sound
  <2>2. Placing(dbgOp, t.inbox, t.host) => Placing(dbgOp, w.inbox, w.host)
    <3>1. a.kind \notin {"set", "unset"}
      BY <1>5
    <3> QED
      BY <3>1, <1>1, <1>5, <1>6, PlacingSent
  <2> QED
    BY <2>1, <2>2, <1>4, <1>6 DEF Followed, SameState
<1>11. Sound(dbgOp, y, q, w)
  BY <1>7, <1>8, <1>9, <1>10 DEF Sound
<1>12. /\ Only(s) /\ dbgSes'[s] = y /\ dbgStream'[s] = q /\ dbgTarget'[s] = w
  BY <1>2, <1>3, <1>4, <1>6, <1>8, Setting DEF x, q, t
<1>13. /\ Sound(dbgOp', dbgSes'[s], dbgStream'[s], dbgTarget'[s])
       /\ dbgTarget'[s].host # "none"
  BY <1>3, <1>6, <1>8, <1>11, <1>12
<1>14. dbgOp' = dbgOp /\ UNCHANGED <<dbgSlot, dbgStop, dbgRuntime>>
  BY <1>3
<1> QED
  BY <1>2, <1>12, <1>13, <1>14, CallGoes

(* A replacement, and the wait for an event, begin between calls.            *)
LEMMA CallBegins ==
  ASSUME DebugInv, Unlocked, dbgSlot # NoDebug, dbgOp' \in DebugOpRecord,
         dbgOp'.pc \in {"replace", "wait"}, dbgOp'.ses = dbgSlot,
         dbgOp'.pc = "replace" =>
           /\ dbgOp'.installed = {} /\ dbgOp'.resolve \subseteq dbgOp'.add
           /\ dbgOp'.remove = dbgSes[dbgSlot].active \ dbgOp'.add,
         UNCHANGED <<dbgSlot, dbgSes, dbgStream, dbgTarget, dbgStop, dbgRuntime>>
  PROVE  DebugInv'
<1> DEFINE s == dbgSlot
           o == dbgOp
           m == dbgOp'
           x == dbgSes[s]
           q == dbgStream[s]
           t == dbgTarget[s]
<1>1. /\ s \in DebugSessions /\ Live(s) /\ t.host # "none" /\ Sound(o, x, q, t)
      /\ x \in ConnectionRecord /\ q \in Seq(FrameRecord) /\ t \in TargetRecord
  BY InSlot
<1>2. ~Launching /\ ~Reads(o) /\ ~Replacing(o) /\ Untouched(o) /\ o.pc \notin {"set", "unset"}
  BY DEF Unlocked, Launching, Reads, Replacing, Untouched
<1>3. ~Reads(m) /\ m.pc \notin {"unset", "set", "offset", "idle"} /\ ~Launching'
  BY DEF Reads, Launching
<1>4. /\ dbgSes' = dbgSes /\ dbgStream' = dbgStream /\ dbgTarget' = dbgTarget
      /\ UNCHANGED <<dbgSlot, dbgStop, dbgRuntime>>
      /\ m \in DebugOpRecord /\ m.ses = s
  OBVIOUS
<1>5. m.pc = "replace" =>
         m.installed = {} /\ m.remove = x.active \ m.add
  OBVIOUS
<1>6. /\ Only(s) /\ dbgSes'[s] = x /\ dbgStream'[s] = q /\ dbgTarget'[s] = t
  BY <1>1, <1>4, Setting
<1> HIDE DEF m, x, q, t, o
<1>7. Matched(m, x, q, t)
  BY <1>1, <1>2, <1>3, NoneOut DEF Sound, Matched
<1>8. Phased(m)
  BY <1>3, <1>5 DEF Phased
<1>9. Followed(m, x, q, t)
  <2>1. ASSUME ~x.late, ~x.broken
        PROVE  Placing(m, t.inbox, t.host) /\ t.points = x.active
    BY <2>1, <1>1, <1>2, PlacingNone DEF Sound, Followed
  <2>2. m.pc = "replace" => (t.points = x.active => Halfway(m, t.points))
    BY <1>5 DEF Halfway
  <2> QED
    BY <2>1, <2>2, <1>3 DEF Followed
<1>10. Sound(m, x, q, t)
  BY <1>1, <1>7, <1>8, <1>9 DEF Sound
<1>11. Sound(m, dbgSes'[s], dbgStream'[s], dbgTarget'[s]) /\ dbgTarget'[s].host # "none"
  BY <1>1, <1>6, <1>10
<1>12. /\ dbgOp' \in DebugOpRecord /\ dbgOp'.ses = s /\ dbgOp'.pc # "idle"
       /\ Sound(dbgOp', dbgSes'[s], dbgStream'[s], dbgTarget'[s])
       /\ (Launching' <=> Launching)
  BY <1>2, <1>3, <1>4, <1>11 DEF m
<1> QED
  BY <1>1, <1>4, <1>6, <1>11, <1>12, CallGoes

LEMMA ReplacementStep ==
  ASSUME DebugInv, NEW f, NEW desired \in SUBSET Points,
         SetFunctionBreakpoints(desired) \/ SetBreakpoints(f, desired)
  PROVE  DebugInv'
<1>1. Unlocked /\ dbgSlot # NoDebug
  BY DEF SetFunctionBreakpoints, SetBreakpoints, MayAsk
<1>2. dbgSlot \in DebugSessions /\ dbgSes[dbgSlot] \in ConnectionRecord
  BY <1>1, InSlot
<1>3. PICK resolve \in {{}, desired} :
        /\ dbgOp' = Replacement(desired, resolve)
        /\ UNCHANGED <<dbgSlot, dbgSes, dbgStream, dbgTarget, dbgStop, dbgRuntime>>
  BY DEF SetFunctionBreakpoints, SetBreakpoints
<1> DEFINE gone == Removed(desired)
           c == Call("replace")
           r == [c EXCEPT !.resolve = resolve]
           k == [r EXCEPT !.add = desired]
           m == [k EXCEPT !.remove = gone]
<1>4. dbgOp' = m
  BY <1>3 DEF Replacement
<1>5. gone \in SUBSET Points /\ gone = dbgSes[dbgSlot].active \ desired
  BY <1>2 DEF Removed, ConnectionRecord
<1>6. resolve \in SUBSET Points /\ resolve \subseteq desired
  OBVIOUS
<1>7. /\ c \in DebugOpRecord /\ c.pc = "replace" /\ c.ses = dbgSlot /\ c.installed = {}
  BY <1>2, CallOp DEF DebugLabels
<1> HIDE DEF gone, c
<1>8. r \in DebugOpRecord
  BY <1>6, <1>7, DebugOpField
<1>9. r.pc = "replace" /\ r.ses = dbgSlot /\ r.installed = {} /\ r.resolve = resolve
  BY <1>7, <1>8 DEF DebugOpRecord
<1> HIDE DEF r
<1>10. k \in DebugOpRecord
  BY <1>8, DebugOpField
<1>11. /\ k.pc = "replace" /\ k.ses = dbgSlot /\ k.installed = {} /\ k.resolve = resolve
       /\ k.add = desired
  BY <1>9, <1>10 DEF DebugOpRecord
<1> HIDE DEF k
<1>12. m \in DebugOpRecord
  BY <1>5, <1>10, DebugOpField
<1>13. /\ m.pc = "replace" /\ m.ses = dbgSlot /\ m.installed = {} /\ m.resolve = resolve
       /\ m.add = desired /\ m.remove = gone
  BY <1>11, <1>12 DEF DebugOpRecord
<1> HIDE DEF m
<1> QED
  BY <1>1, <1>3, <1>4, <1>5, <1>6, <1>12, <1>13, CallBegins

LEMMA WaitBeginStep ==
  ASSUME DebugInv, NEW kinds \in SUBSET {"report", "disconnect"}, WaitBegin(kinds)
  PROVE  DebugInv'
<1>1. Unlocked /\ dbgSlot # NoDebug
  BY DEF WaitBegin
<1>2. dbgSlot \in DebugSessions /\ dbgSes[dbgSlot] \in ConnectionRecord
  BY <1>1, InSlot
<1>3. PICK after \in {0, dbgSes[dbgSlot].seq} :
        dbgOp' = [Call("wait") EXCEPT !.after = after, !.kinds = kinds]
  BY DEF WaitBegin
<1>4. UNCHANGED <<dbgSlot, dbgSes, dbgStream, dbgTarget, dbgStop, dbgRuntime>>
  BY DEF WaitBegin
<1> DEFINE c == Call("wait")
           k == [c EXCEPT !.after = after]
           m == [k EXCEPT !.kinds = kinds]
<1>5. dbgOp' = m
  BY <1>3
<1>6. after \in Nat
  BY <1>2 DEF ConnectionRecord
<1>7. c \in DebugOpRecord /\ c.pc = "wait" /\ c.ses = dbgSlot
  BY <1>2, CallOp DEF DebugLabels
<1> HIDE DEF c
<1>8. k \in DebugOpRecord
  BY <1>6, <1>7, DebugOpField
<1>9. k.pc = "wait" /\ k.ses = dbgSlot
  BY <1>7, <1>8 DEF DebugOpRecord
<1> HIDE DEF k
<1>10. m \in DebugOpRecord
  BY <1>8, DebugOpField
<1>11. m.pc = "wait" /\ m.ses = dbgSlot
  BY <1>9, <1>10 DEF DebugOpRecord
<1> HIDE DEF m
<1> QED
  BY <1>1, <1>4, <1>5, <1>10, <1>11, CallBegins

LEMMA RecordActiveStep ==
  ASSUME DebugInv, RecordActive
  PROVE  DebugInv'
<1> DEFINE x == dbgSes[S]
           q == dbgStream[S]
           t == dbgTarget[S]
           y == [x EXCEPT !.active = dbgOp.installed]
<1>0. /\ dbgOp.pc = "replace"
      /\ dbgOp.resolve = {} /\ dbgOp.remove = {} /\ dbgOp.add = {}
  BY DEF RecordActive
<1>1. ~Unlocked /\ ~Launching /\ ~Reads(dbgOp)
  BY <1>0 DEF Unlocked, Launching, Reads
<1>2. /\ S \in DebugSessions /\ Live(S) /\ dbgOp \in DebugOpRecord
      /\ x \in ConnectionRecord /\ q \in Seq(FrameRecord) /\ t \in TargetRecord
      /\ Sound(dbgOp, x, q, t) /\ t.host # "none"
  BY <1>1, Holder
<1>3. y \in ConnectionRecord
  <2>1. dbgOp.installed \in SUBSET Points
    BY <1>2 DEF DebugOpRecord
  <2> QED
    BY <2>1, <1>2, ConnectionField
<1>4. /\ y.recorded = x.recorded /\ y.pending = x.pending /\ y.ring = x.ring
      /\ y.dropped = x.dropped /\ y.late = x.late /\ y.torn = x.torn
      /\ y.stale = x.stale /\ y.broken = x.broken /\ y.active = dbgOp.installed
  BY <1>2 DEF ConnectionRecord
<1>5. /\ dbgOp' = NoDebugOp /\ UNCHANGED <<dbgSlot, dbgStop, dbgRuntime>>
      /\ dbgSes' = [dbgSes EXCEPT ![S] = y] /\ dbgStream' = dbgStream
      /\ dbgTarget' = dbgTarget
  BY DEF RecordActive, Unlock
<1>6. /\ Only(S) /\ dbgSes'[S] = y /\ dbgStream'[S] = q /\ dbgTarget'[S] = t
  BY <1>2, <1>3, <1>5, Setting
<1> HIDE DEF y, x, q, t
<1>7. Whole(y, q, t)
  BY <1>2, <1>4, WholeSame DEF Sound
<1>8. Matched(NoDebugOp, y, q, t)
  BY <1>1, <1>2, <1>4, NoneOut DEF Sound, Matched
<1>9. Phased(NoDebugOp) /\ ~Replacing(NoDebugOp) /\ NoDebugOp.pc \notin {"offset", "replace"}
  BY NothingYet DEF Phased, Replacing
<1>10. Followed(NoDebugOp, y, q, t)
  <2>1. ASSUME ~x.late, ~x.broken
        PROVE  Placing(NoDebugOp, t.inbox, t.host) /\ t.points = y.active
    <3>1. Placing(dbgOp, t.inbox, t.host) /\ Halfway(dbgOp, t.points)
      BY <2>1, <1>0, <1>2 DEF Sound, Followed
    <3>2. Placing(NoDebugOp, t.inbox, t.host)
      BY <3>1, <1>0, PlacingNone
    <3> QED
      BY <3>1, <3>2, <1>0, <1>4 DEF Halfway
  <2> QED
    BY <2>1, <1>4, <1>9 DEF Followed, Replacing
<1>11. Sound(NoDebugOp, y, q, t)
  BY <1>7, <1>8, <1>9, <1>10 DEF Sound
<1> QED
  BY <1>1, <1>2, <1>5, <1>6, <1>11, CallGoes

(* The wait for an event.                                                    *)
LEMMA WaitSound ==
  ASSUME NEW o, NEW m, NEW x, NEW y, NEW q \in Seq(FrameRecord), NEW z, NEW t,
         Sound(o, x, q, t), o.pc = "wait", m.pc \in {"idle", "wait"},
         z = q \/ (q # <<>> /\ z = Tail(q)), Whole(y, z, t),
         x.torn => y.torn,
         y.late = x.late, y.stale = x.stale, y.broken = x.broken, y.active = x.active
  PROVE  Sound(m, y, z, t)
<1>1. ~Reads(o) /\ Untouched(o) /\ o.pc \notin {"unset", "set"} /\ ~Replacing(m)
  BY DEF Reads, Untouched, Replacing
<1>2. Matched(o, x, q, t)
  BY DEF Sound
<1>3. ASSUME ~y.late, ~y.torn PROVE Paired(m, z, t.inbox, t.host)
  <2>1. Silent(q) /\ Unasked(t.inbox, t.host)
    BY <1>1, <1>2, <1>3, NoneOut DEF Matched
  <2>2. q # <<>> => ~IsAnswer(Head(q))
    BY <2>1, Taken DEF Silent
  <2>3. q # <<>> => Silent(Tail(q))
    BY <2>1, <2>2, EventTaken
  <2>4. Silent(z)
    BY <2>1, <2>3
  <2> QED
    BY <2>1, <2>4, NoneOut
<1>4. Matched(m, y, z, t)
  BY <1>2, <1>3 DEF Matched
<1> QED
  BY <1>1, <1>4, SoundIdle

LEMMA WaitEndsStep ==
  ASSUME DebugInv, WaitEnds
  PROVE  DebugInv'
<1> DEFINE x == dbgSes[S]
           q == dbgStream[S]
           t == dbgTarget[S]
           e == [x EXCEPT !.torn = x.torn \/ q # <<>>]
<1>0. dbgOp.pc = "wait"
  BY DEF WaitEnds
<1>1. ~Unlocked /\ ~Launching
  BY <1>0 DEF Unlocked, Launching
<1>2. /\ S \in DebugSessions /\ Live(S) /\ dbgOp \in DebugOpRecord
      /\ x \in ConnectionRecord /\ q \in Seq(FrameRecord) /\ t \in TargetRecord
      /\ Sound(dbgOp, x, q, t) /\ t.host # "none"
  BY <1>1, Holder
<1>3. /\ dbgOp' = NoDebugOp /\ UNCHANGED <<dbgSlot, dbgStop, dbgRuntime>>
      /\ dbgSes' = [dbgSes EXCEPT ![S] = e] \/ dbgSes' = dbgSes
      /\ dbgStream' = dbgStream /\ dbgTarget' = dbgTarget
  BY DEF WaitEnds, Unlock
<1>4. e \in ConnectionRecord
  <2>1. (x.torn \/ q # <<>>) \in BOOLEAN
    BY <1>2 DEF ConnectionRecord
  <2> QED
    BY <2>1, <1>2, ConnectionField
<1>5. /\ e.recorded = x.recorded /\ e.pending = x.pending /\ e.ring = x.ring
      /\ e.dropped = x.dropped /\ e.late = x.late /\ (x.torn => e.torn)
      /\ e.stale = x.stale /\ e.broken = x.broken /\ e.active = x.active
  BY <1>2 DEF ConnectionRecord
<1> HIDE DEF e
<1>6. PICK y \in {x, e} :
        dbgSes' = [dbgSes EXCEPT ![S] = y] \/ (dbgSes' = dbgSes /\ y = x)
  BY <1>3
<1>7. y \in ConnectionRecord
  BY <1>2, <1>4
<1>8. /\ Only(S) /\ dbgSes'[S] = y /\ dbgStream'[S] = q /\ dbgTarget'[S] = t
  BY <1>2, <1>3, <1>6, <1>7, Setting
<1> HIDE DEF x, q, t
<1>9. /\ y.recorded = x.recorded /\ y.pending = x.pending /\ y.ring = x.ring
      /\ y.dropped = x.dropped /\ y.late = x.late /\ (x.torn => y.torn)
      /\ y.stale = x.stale /\ y.broken = x.broken /\ y.active = x.active
  BY <1>5
<1>10. Whole(y, q, t)
  BY <1>2, <1>9, WholeSame DEF Sound
<1>11. NoDebugOp.pc = "idle"
  BY NothingYet
<1>12. Sound(NoDebugOp, y, q, t)
  BY <1>0, <1>2, <1>9, <1>10, <1>11, WaitSound
<1> QED
  BY <1>1, <1>2, <1>3, <1>8, <1>12, CallGoes

(* The ring: the count of what it had to drop goes on where it is full.      *)
LEMMA RingTurns ==
  ASSUME NEW g \in Seq(EventRecord), NEW d \in Nat, Len(g) <= RingSize,
         NEW v \in EventRecord
  PROVE  LET full == Len(g) >= RingSize
             ring == Append(IF full THEN Tail(g) ELSE g, v)
             dropped == IF full THEN d + 1 ELSE d
         IN  /\ ring \in Seq(EventRecord) /\ dropped \in Nat
             /\ Len(ring) <= RingSize /\ Len(ring) + dropped = Len(g) + d + 1
<1>1. RingSize \in Nat \ {0} /\ Len(g) \in Nat
  BY DebuggerAssumption, LenProperties
<1>2. CASE Len(g) >= RingSize
  <2>1. g # <<>>
    BY <1>1, <1>2, EmptySeq
  <2>2. Tail(g) \in Seq(EventRecord) /\ Len(Tail(g)) = Len(g) - 1
    BY <2>1, Taken
  <2> DEFINE h == Tail(g)
  <2> HIDE DEF h
  <2>3. h \in Seq(EventRecord) /\ Len(h) = Len(g) - 1
    BY <2>2 DEF h
  <2>4. Append(h, v) \in Seq(EventRecord) /\ Len(Append(h, v)) = Len(h) + 1
    BY <2>3, Appended
  <2>5. Len(Append(h, v)) = Len(g)
    BY <1>1, <2>3, <2>4
  <2> QED
    BY <1>1, <1>2, <2>4, <2>5 DEF h
<1>3. CASE ~(Len(g) >= RingSize)
  <2>1. Append(g, v) \in Seq(EventRecord) /\ Len(Append(g, v)) = Len(g) + 1
    BY Appended
  <2> QED
    BY <1>1, <1>3, <2>1
<1> QED
  BY <1>2, <1>3

LEMMA RecordedSet ==
  ASSUME NEW x \in ConnectionRecord, NEW f \in FrameRecord,
         IsReport(f) \/ f.kind = "disconnect", Len(x.ring) <= RingSize
  PROVE  /\ Recorded(x, f) \in ConnectionRecord /\ Recorded(x, f).pending = x.pending
         /\ SameState(x, Recorded(x, f))
         /\ Recorded(x, f).recorded =
              IF IsReport(f) THEN Append(x.recorded, f) ELSE x.recorded
         /\ Len(Recorded(x, f).ring) + Recorded(x, f).dropped = Len(x.ring) + x.dropped + 1
         /\ Len(Recorded(x, f).ring) <= RingSize
<1> DEFINE v == [seq |-> x.seq + 1, kind |-> f.kind]
           full == Len(x.ring) >= RingSize
           g == Append(IF full THEN Tail(x.ring) ELSE x.ring, v)
           d == IF full THEN x.dropped + 1 ELSE x.dropped
           r == IF IsReport(f) THEN Append(x.recorded, f) ELSE x.recorded
           n == x.seq + 1
           a == [x EXCEPT !.seq = n]
           b == [a EXCEPT !.ring = g]
           c == [b EXCEPT !.dropped = d]
           y == [c EXCEPT !.recorded = r]
<1>1. Recorded(x, f) = y
  BY DEF Recorded
<1>2. n \in Nat /\ v \in EventRecord
  <2>1. n \in Nat /\ f.kind \in {"report", "disconnect"}
    BY DEF ConnectionRecord, IsReport
  <2> QED
    BY <2>1 DEF EventRecord
<1>3. /\ g \in Seq(EventRecord) /\ d \in Nat
      /\ Len(g) <= RingSize /\ Len(g) + d = Len(x.ring) + x.dropped + 1
  <2> HIDE DEF v
  <2>1. x.ring \in Seq(EventRecord) /\ x.dropped \in Nat
    BY Counts
  <2> QED
    BY <2>1, <1>2, RingTurns
<1>4. r \in Seq(FrameRecord)
  BY Counts, Appended
<1> HIDE DEF g, d, r, n
<1>5. a \in ConnectionRecord
  BY <1>2, ConnectionField
<1>6. /\ a.recorded = x.recorded /\ a.pending = x.pending /\ a.ring = x.ring
      /\ a.dropped = x.dropped /\ SameState(x, a)
  BY <1>5 DEF ConnectionRecord, SameState
<1> HIDE DEF a
<1>7. b \in ConnectionRecord
  BY <1>3, <1>5, ConnectionField
<1>8. /\ b.recorded = x.recorded /\ b.pending = x.pending /\ b.ring = g
      /\ b.dropped = x.dropped /\ SameState(x, b)
  BY <1>5, <1>6, <1>7 DEF ConnectionRecord, SameState
<1> HIDE DEF b
<1>9. c \in ConnectionRecord
  BY <1>3, <1>7, ConnectionField
<1>10. /\ c.recorded = x.recorded /\ c.pending = x.pending /\ c.ring = g
       /\ c.dropped = d /\ SameState(x, c)
  BY <1>7, <1>8, <1>9 DEF ConnectionRecord, SameState
<1> HIDE DEF c
<1>11. y \in ConnectionRecord
  BY <1>4, <1>9, ConnectionField
<1>12. /\ y.recorded = r /\ y.pending = x.pending /\ y.ring = g
       /\ y.dropped = d /\ SameState(x, y)
  BY <1>9, <1>10, <1>11 DEF ConnectionRecord, SameState
<1> HIDE DEF y
<1>13. Len(y.ring) + y.dropped = Len(x.ring) + x.dropped + 1 /\ Len(y.ring) <= RingSize
  BY <1>3, <1>12
<1> QED
  BY <1>1, <1>11, <1>12, <1>13 DEF r

LEMMA WaitReadsStep ==
  ASSUME DebugInv, WaitReads
  PROVE  DebugInv'
<1> DEFINE x == dbgSes[S]
           q == dbgStream[S]
           t == dbgTarget[S]
<1>0. dbgOp.pc = "wait"
  BY DEF WaitReads
<1>1. ~Unlocked /\ ~Launching
  BY <1>0 DEF Unlocked, Launching
<1>2. /\ S \in DebugSessions /\ Live(S) /\ dbgOp \in DebugOpRecord
      /\ x \in ConnectionRecord /\ q \in Seq(FrameRecord) /\ t \in TargetRecord
      /\ Sound(dbgOp, x, q, t) /\ t.host # "none"
  BY <1>1, Holder
<1>3. Whole(x, q, t)
  BY <1>2 DEF Sound
<1>4. Len(x.ring) <= RingSize
  BY <1>3 DEF Whole
<1>5. /\ x.recorded \in Seq(FrameRecord) /\ x.pending \in Seq(FrameRecord)
      /\ Len(x.ring) + x.dropped \in Nat /\ t.reports \in Nat
  BY <1>2, Counts, TargetParts
<1>6. Kept(x.recorded, x.pending, Len(x.ring) + x.dropped, q, t.reports, t.host)
  BY <1>3 DEF Whole
<1>7. /\ dbgOp' \in {NoDebugOp, dbgOp} /\ UNCHANGED <<dbgSlot, dbgStop, dbgRuntime>>
      /\ dbgTarget' = dbgTarget
  BY DEF WaitReads, Unlock
<1>8. ASSUME NEW y \in ConnectionRecord, NEW z \in Seq(FrameRecord),
             dbgSes' = [dbgSes EXCEPT ![S] = y],
             \/ dbgStream' = [dbgStream EXCEPT ![S] = z] /\ q # <<>> /\ z = Tail(q)
             \/ dbgStream' = dbgStream /\ z = q,
             Whole(y, z, t), SameState(x, y)
      PROVE  DebugInv'
  <2>1. /\ Only(S) /\ dbgSes'[S] = y /\ dbgStream'[S] = z /\ dbgTarget'[S] = t
    BY <1>2, <1>7, <1>8, Setting
  <2>2. dbgOp'.pc \in {"idle", "wait"}
    BY <1>0, <1>7, NothingYet
  <2>3. z = q \/ (q # <<>> /\ z = Tail(q))
    BY <1>8
  <2>4. Sound(dbgOp', y, z, t)
    <3> DEFINE m == dbgOp'
    <3>1. m.pc \in {"idle", "wait"}
      BY <2>2
    <3> HIDE DEF m, x, q, t
    <3>2. Sound(m, y, z, t)
      BY <3>1, <2>3, <1>0, <1>2, <1>8, WaitSound DEF SameState
    <3> QED
      BY <3>2 DEF m
  <2> QED
    BY <1>1, <1>2, <1>7, <2>1, <2>4, CallGoes
<1>9. CASE x.pending # <<>>
  <2> DEFINE f == Head(x.pending)
             v == Tail(x.pending)
             rest == [x EXCEPT !.pending = v]
             y == Recorded(rest, f)
  <2>1. f \in FrameRecord /\ v \in Seq(FrameRecord) /\ IsReport(f)
    <3>1. f \in FrameRecord /\ v \in Seq(FrameRecord) /\ f = x.pending[1]
          /\ Len(x.pending) \in Nat \ {0}
      BY <1>5, <1>9, Taken
    <3>2. \A i \in 1 .. Len(x.pending) : IsReport(x.pending[i])
      BY <1>6 DEF Kept
    <3>3. 1 \in 1 .. Len(x.pending)
      BY <3>1
    <3> QED
      BY <3>1, <3>2, <3>3
  <2>2. dbgSes' = [dbgSes EXCEPT ![S] = y] /\ dbgStream' = dbgStream
    <3> HIDE DEF x, q, t
    <3>1. NextEvent(x) = f
      BY <1>9 DEF NextEvent
    <3> QED
      BY <3>1, <2>1, <1>9 DEF WaitReads, x
  <2> HIDE DEF v, f
  <2>3. rest \in ConnectionRecord
    BY <2>1, <1>2, ConnectionField
  <2>4. /\ rest.recorded = x.recorded /\ rest.pending = v /\ rest.ring = x.ring
        /\ rest.dropped = x.dropped /\ SameState(x, rest)
    BY <1>2, <2>3 DEF ConnectionRecord, SameState
  <2> HIDE DEF rest
  <2>5. /\ y \in ConnectionRecord /\ y.pending = v /\ SameState(rest, y)
        /\ y.recorded = Append(x.recorded, f)
        /\ Len(y.ring) + y.dropped = Len(x.ring) + x.dropped + 1
        /\ Len(y.ring) <= RingSize
    BY <1>4, <2>1, <2>3, <2>4, RecordedSet
  <2> HIDE DEF y
  <2>6. Kept(Append(x.recorded, f), v, Len(x.ring) + x.dropped + 1, q, t.reports, t.host)
    BY <1>2, <1>5, <1>6, <1>9, KeptRecordsAside DEF f, v
  <2>7. Whole(y, q, t)
    BY <1>3, <2>5, <2>6 DEF Whole
  <2>8. SameState(x, y)
    BY <2>4, <2>5 DEF SameState
  <2> QED
    BY <1>2, <1>8, <2>2, <2>5, <2>7, <2>8
<1>10. CASE x.pending = <<>>
  <2> DEFINE f == Head(q)
             y == Recorded(x, f)
             k == [x EXCEPT !.seq = x.seq + 1]
  <2>1. q # <<>>
    BY <1>10 DEF WaitReads
  <2>2. f \in FrameRecord /\ Tail(q) \in Seq(FrameRecord)
    BY <1>2, <2>1, Taken
  <2>3. /\ dbgStream' = [dbgStream EXCEPT ![S] = Tail(q)]
        /\ IsReport(f) \/ f.kind = "disconnect" => dbgSes' = [dbgSes EXCEPT ![S] = y]
        /\ ~IsReport(f) /\ f.kind # "disconnect" => dbgSes' = [dbgSes EXCEPT ![S] = k]
    <3> HIDE DEF x
    <3>1. NextEvent(x) = f
      BY <1>10 DEF NextEvent
    <3> QED
      BY <3>1, <1>10 DEF WaitReads, x
  <2> HIDE DEF f
  <2>4. CASE IsReport(f) \/ f.kind = "disconnect"
    <3>1. /\ y \in ConnectionRecord /\ y.pending = x.pending /\ SameState(x, y)
          /\ y.recorded = IF IsReport(f) THEN Append(x.recorded, f) ELSE x.recorded
          /\ Len(y.ring) + y.dropped = Len(x.ring) + x.dropped + 1
          /\ Len(y.ring) <= RingSize
      BY <1>2, <1>4, <2>2, <2>4, RecordedSet
    <3> HIDE DEF y
    <3>2. Kept(y.recorded, y.pending, Len(x.ring) + x.dropped + 1, Tail(q), t.reports, t.host)
      <4> DEFINE r == x.recorded
                 p == x.pending
                 c == Len(x.ring) + x.dropped
                 n == t.reports
                 h == t.host
      <4>1. Len(p) = 0
        BY <1>10
      <4>2. /\ r \in Seq(FrameRecord) /\ p \in Seq(FrameRecord) /\ c \in Nat /\ n \in Nat
            /\ Kept(r, p, c, q, n, h) /\ q \in Seq(FrameRecord)
        BY <1>2, <1>5, <1>6
      <4> HIDE DEF r, p, c, n, h, q
      <4>3. IsReport(f) => Kept(Append(r, f), p, c + 1, Tail(q), n, h)
        BY <4>1, <4>2, <2>1, KeptRecords DEF f
      <4>4. f.kind = "disconnect" => Kept(r, p, c + 1, Tail(q), n, h)
        BY <4>2, <2>1, KeptDisconnects DEF f
      <4> QED
        BY <4>3, <4>4, <3>1, <2>4 DEF r, p, c, n, h
    <3>3. Whole(y, Tail(q), t)
      BY <1>3, <3>1, <3>2 DEF Whole
    <3> QED
      BY <1>8, <2>1, <2>2, <2>3, <2>4, <3>1, <3>3
  <2>5. CASE ~IsReport(f) /\ f.kind # "disconnect"
    <3>1. k \in ConnectionRecord
      <4>1. x.seq + 1 \in Nat
        BY <1>2 DEF ConnectionRecord
      <4> QED
        BY <4>1, <1>2, ConnectionField
    <3>2. /\ k.recorded = x.recorded /\ k.pending = x.pending /\ k.ring = x.ring
          /\ k.dropped = x.dropped /\ SameState(x, k)
      BY <1>2, <3>1 DEF ConnectionRecord, SameState
    <3> HIDE DEF k
    <3>3. Whole(k, Tail(q), t)
      BY <1>2, <1>3, <2>1, <2>5, <3>2, WholeSkips, WholeSame DEF f
    <3> QED
      BY <1>8, <2>1, <2>2, <2>3, <2>5, <3>1, <3>2, <3>3
  <2> QED
    BY <2>4, <2>5
<1> QED
  BY <1>9, <1>10

-----------------------------------------------------------------------------
(* A session comes and goes.                                                 *)
LEMMA NothingLives ==
  ASSUME DebugTypeOK', Locked', Spawned',
         \A u \in DebugSessions : ~Live(u)'
  PROVE  DebugInv'
BY DEF DebugInv

LEMMA LaunchFailsStep ==
  ASSUME DebugInv, LaunchFails
  PROVE  DebugInv'
<1>1. /\ Launching /\ dbgOp' = NoDebugOp
      /\ dbgTarget' = [dbgTarget EXCEPT ![S] = Gone]
      /\ dbgSes' = [dbgSes EXCEPT ![S] = NoSession]
      /\ dbgStream' = [dbgStream EXCEPT ![S] = <<>>]
      /\ UNCHANGED <<dbgSlot, dbgStop, dbgRuntime>>
  BY DEF LaunchFails, FailLaunch, Unlock
<1>2. DebugTypeOK /\ Locked /\ Spawned
  BY DEF DebugInv
<1>3. S \in DebugSessions /\ dbgSlot = NoDebug /\ ~dbgRuntime /\ Live(S)
  BY <1>1, <1>2 DEF Locked, Live
<1>4. /\ NoDebugOp \in DebugOpRecord /\ Gone \in TargetRecord /\ NoSession \in ConnectionRecord
      /\ NoDebugOp.pc = "idle" /\ NoDebugOp.ses = NoDebug /\ Gone.host = "dead"
  BY NothingYet
<1>5. <<>> \in Seq(FrameRecord)
  BY EmptySeq
<1>6. Unlocked' /\ ~Launching' /\ S' = NoDebug
  BY <1>1, <1>4 DEF Unlocked, Launching, S
<1>7. DebugTypeOK'
  <2>1. Only(S)
    BY <1>1, <1>3, <1>4, <1>5, Setting
  <2> QED
    BY <2>1, <1>1, <1>2, <1>4 DEF Only, DebugTypeOK
<1>8. Locked'
  BY <1>1, <1>3, <1>6 DEF Locked
<1>9. \A u \in DebugSessions : ~Live(u)'
  BY <1>1, <1>3, <1>6 DEF Live, DebugSessions, NoDebug
<1>10. /\ Only(S) /\ dbgTarget'[S] = Gone
  BY <1>1, <1>3, <1>4, <1>5, Setting
<1>11. \A u \in DebugSessions : u # S => ~Live(u)
  BY <1>3, OneLive
<1>12. Spawned'
  <2>1. PICK s \in DebugSessions : s = S
    BY <1>3
  <2>2. /\ dbgTarget'[s].host = "dead" /\ \A u \in DebugSessions : u # s => ~Live(u)
        /\ Only(s) /\ dbgStop' = dbgStop
    BY <1>1, <1>4, <1>10, <1>11, <2>1
  <2>3. ASSUME NEW u \in DebugSessions
        PROVE /\ dbgTarget'[u].host = "alive" => dbgStop'[u] # "no"
              /\ dbgTarget'[u].host = "none" =>
                   /\ dbgTarget'[u] = NoTarget /\ dbgSes'[u] = NoSession
                   /\ dbgStream'[u] = <<>> /\ dbgStop'[u] = "no"
    <3>1. CASE u = s
      BY <2>2, <3>1
    <3>2. CASE u # s
      BY <2>2, <3>2, <1>2 DEF Spawned, Only
    <3> QED
      BY <3>1, <3>2
  <2> QED
    BY <2>3, <1>9 DEF Spawned
<1> QED
  BY <1>7, <1>8, <1>9, <1>12, NothingLives

LEMMA RunsBeside ==
  ASSUME DebugInv, RunBeside \/ RunEnds
  PROVE  DebugInv'
<1>1. /\ UNCHANGED <<dbgSlot, dbgOp, dbgSes, dbgStream, dbgTarget, dbgStop>>
      /\ dbgRuntime' \in BOOLEAN
      /\ dbgRuntime' => Unlocked /\ dbgSlot = NoDebug
  BY DEF RunBeside, RunEnds
<1>2. DebugTypeOK /\ Locked /\ Spawned
  BY DEF DebugInv
<1>3. /\ \A u \in DebugSessions : Live(u)' <=> Live(u)
      /\ (Unlocked' <=> Unlocked) /\ (Launching' <=> Launching) /\ S' = S
  BY <1>1 DEF Live, Unlocked, Launching, S
<1>4. DebugTypeOK' /\ Spawned'
  BY <1>1, <1>2, <1>3 DEF DebugTypeOK, Spawned
<1>5. Unlocked => ~Launching
  BY DEF Unlocked, Launching
<1>6. Locked'
  BY <1>1, <1>2, <1>3, <1>5 DEF Locked
<1> QED
  BY <1>1, <1>3, <1>4, <1>6 DEF DebugInv

LEMMA DebugLaunchStep ==
  ASSUME DebugInv, DebugLaunch
  PROVE  DebugInv'
<1>1. PICK s \in DebugSessions :
        /\ dbgTarget[s].host = "none"
        /\ dbgTarget' = [dbgTarget EXCEPT ![s].host = "alive"]
        /\ dbgOp' = [NoDebugOp EXCEPT !.pc = "accept", !.ses = s]
  BY DEF DebugLaunch, Unspawned
<1>2. /\ Unlocked /\ dbgSlot = NoDebug /\ ~dbgRuntime
      /\ UNCHANGED <<dbgSlot, dbgSes, dbgStream, dbgStop, dbgRuntime>>
  BY DEF DebugLaunch, MayLaunch
<1>3. DebugTypeOK /\ Locked /\ Spawned
  BY DEF DebugInv
<1> DEFINE w == [NoTarget EXCEPT !.host = "alive"]
           r == [NoDebugOp EXCEPT !.pc = "accept"]
           m == [r EXCEPT !.ses = s]
<1>4. /\ dbgTarget[s] = NoTarget /\ dbgSes[s] = NoSession /\ dbgStream[s] = <<>>
      /\ dbgStop[s] = "no"
  BY <1>1, <1>3 DEF Spawned
<1>5. dbgTarget' = [dbgTarget EXCEPT ![s] = w]
  BY <1>1, <1>4
<1>6. dbgOp' = m
  BY <1>1
<1>7. r \in DebugOpRecord /\ r.pc = "accept"
  BY NothingYet, ConfigureOp DEF DebugLabels
<1>8. /\ w \in TargetRecord /\ w.host = "alive" /\ w.inbox = <<>> /\ w.points = {}
      /\ w.reports = 0
  <2>1. w \in TargetRecord
    BY NothingYet, TargetField
  <2> QED
    BY <2>1 DEF NoTarget
<1> HIDE DEF w, r
<1>9. m \in DebugOpRecord
  <2>1. s \in DebugSessions \cup {NoDebug}
    OBVIOUS
  <2> QED
    BY <2>1, <1>7, DebugOpField
<1>10. m.pc = "accept" /\ m.ses = s
  BY <1>7, <1>9 DEF DebugOpRecord
<1> HIDE DEF m
<1>11. ~Unlocked' /\ Launching' /\ S' = s
  BY <1>6, <1>10 DEF Unlocked, Launching, S
<1>12. \A u \in DebugSessions : (Live(u)' <=> u = s) /\ ~Live(u)
  BY <1>2, <1>11 DEF Live, DebugSessions, NoDebug, Unlocked, Launching
<1>13. Only(s) /\ dbgTarget'[s] = w
  <2>1. dbgSes[s] \in ConnectionRecord /\ dbgStream[s] \in Seq(FrameRecord)
    BY <1>3 DEF DebugTypeOK
  <2>2. dbgSes' = dbgSes /\ dbgStream' = dbgStream
    BY <1>2
  <2> QED
    BY <2>1, <2>2, <1>5, <1>8, Setting
<1>14. DebugTypeOK'
  BY <1>2, <1>3, <1>6, <1>9, <1>13 DEF DebugTypeOK, Only
<1>15. Locked'
  BY <1>2, <1>11 DEF Locked
<1>16. Spawned'
  <2>1. ASSUME NEW u \in DebugSessions
        PROVE /\ dbgTarget'[u].host = "alive" => u = s \/ dbgStop'[u] # "no"
              /\ u = s => dbgTarget'[u].host # "none" /\ dbgStop'[u] = "no"
              /\ dbgTarget'[u].host = "none" =>
                   /\ dbgTarget'[u] = NoTarget /\ dbgSes'[u] = NoSession
                   /\ dbgStream'[u] = <<>> /\ dbgStop'[u] = "no"
    <3>1. CASE u = s
      BY <3>1, <1>2, <1>4, <1>8, <1>13
    <3>2. CASE u # s
      BY <3>2, <1>2, <1>3, <1>12, <1>13 DEF Spawned, Only
    <3> QED
      BY <3>1, <3>2
  <2> QED
    BY <2>1, <1>12 DEF Spawned
<1>17. Sound(m, NoSession, <<>>, w)
  <2>1. /\ NoSession.recorded = <<>> /\ NoSession.pending = <<>> /\ NoSession.ring = <<>>
        /\ NoSession.dropped = 0 /\ ~NoSession.stale /\ NoSession.active = {}
    BY DEF NoSession
  <2>2. Len(<<>>) = 0
    BY EmptySeq
  <2>3. RingSize \in Nat \ {0}
    BY DebuggerAssumption
  <2>4. Whole(NoSession, <<>>, w)
    <3>1. Reported(<<>>, 0, 0) /\ Ends(<<>>, "alive")
      BY <2>2 DEF Reported, Ends
    <3>2. Kept(<<>>, <<>>, 0, <<>>, 0, "alive")
      BY <2>2, <3>1 DEF Kept
    <3> QED
      BY <3>2, <2>1, <2>2, <2>3, <1>8 DEF Whole
  <2>5. Silent(<<>>) /\ Unasked(w.inbox, w.host)
    BY <2>2, <1>8 DEF Silent, Unasked
  <2>6. Matched(m, NoSession, <<>>, w)
    BY <2>1, <2>5, NoneOut DEF Matched
  <2>7. Phased(m) /\ ~Replacing(m)
    BY <1>10 DEF Phased, Replacing
  <2>8. Placing(m, w.inbox, w.host)
    BY <2>2, <1>8 DEF Placing
  <2>9. Followed(m, NoSession, <<>>, w)
    BY <2>1, <2>7, <2>8, <1>8 DEF Followed, Replacing
  <2> QED
    BY <2>4, <2>6, <2>7, <2>9 DEF Sound
<1>18. Sound(dbgOp', dbgSes'[s], dbgStream'[s], dbgTarget'[s])
  BY <1>2, <1>4, <1>6, <1>13, <1>17
<1> QED
  BY <1>12, <1>14, <1>15, <1>16, <1>18 DEF DebugInv

LEMMA DebugStopStep ==
  ASSUME DebugInv, DebugStop
  PROVE  DebugInv'
<1>1. Unlocked /\ dbgSlot # NoDebug
  BY DEF DebugStop
<1> DEFINE s == dbgSlot
           x == dbgSes[s]
           t == dbgTarget[s]
           a == [kind |-> "disconnect", points |-> {}, number |-> x.asked + 1]
           y == [NoSession EXCEPT !.torn = x.torn]
           w == Sent(t, a)
<1>2. /\ s \in DebugSessions /\ Live(s) /\ t.host # "none"
      /\ x \in ConnectionRecord /\ t \in TargetRecord /\ dbgStream[s] \in Seq(FrameRecord)
      /\ ~dbgRuntime
  BY <1>1, InSlot
<1>3. /\ dbgStop' = [dbgStop EXCEPT ![s] = "asked"] /\ dbgSlot' = NoDebug
      /\ dbgTarget' = [dbgTarget EXCEPT ![s] = w]
      /\ dbgSes' = [dbgSes EXCEPT ![s] = y]
      /\ UNCHANGED <<dbgOp, dbgStream, dbgRuntime>>
  BY DEF DebugStop, Write, Sent
<1>4. y \in ConnectionRecord
  <2>1. x.torn \in BOOLEAN
    BY <1>2 DEF ConnectionRecord
  <2> QED
    BY <2>1, NothingYet, ConnectionField
<1>5. a \in AskRecord
  <2>1. x.asked + 1 \in Nat
    BY <1>2, AskedSet
  <2> QED
    BY <2>1 DEF AskRecord
<1> HIDE DEF a, y
<1>6. w \in TargetRecord /\ w.host = t.host
  BY <1>2, <1>5, SentSet
<1> HIDE DEF w
<1>7. PICK v \in DebugSessions : v = s
  BY <1>2
<1>8. Only(v) /\ dbgTarget'[v].host # "none"
  <2> DEFINE q == dbgStream[v]
  <2>1. /\ dbgStream' = dbgStream /\ q = dbgStream[v] /\ q \in Seq(FrameRecord)
        /\ dbgTarget' = [dbgTarget EXCEPT ![v] = w] /\ dbgSes' = [dbgSes EXCEPT ![v] = y]
        /\ w.host # "none"
    BY <1>2, <1>3, <1>6, <1>7
  <2> HIDE DEF q
  <2> QED
    BY <2>1, <1>4, <1>6, Setting
<1>9. DebugTypeOK /\ Locked /\ Spawned
  BY DEF DebugInv
<1>10. /\ dbgStop' \in [DebugSessions -> {"no", "asked", "disconnected", "done"}]
       /\ dbgStop'[v] = "asked" /\ \A u \in DebugSessions : u # v => dbgStop'[u] = dbgStop[u]
  BY <1>3, <1>7, <1>9 DEF DebugTypeOK
<1>11. DebugTypeOK'
  BY <1>3, <1>8, <1>9, <1>10 DEF DebugTypeOK, Only
<1>12. Unlocked' /\ ~Launching' /\ S' = NoDebug
  BY <1>1, <1>3, <1>9 DEF Unlocked, Launching, S, Locked
<1>13. Locked'
  BY <1>2, <1>3, <1>12 DEF Locked
<1>14. /\ \A u \in DebugSessions : ~Live(u)'
       /\ \A u \in DebugSessions : u # v => ~Live(u)
  BY <1>1, <1>3, <1>7, <1>12 DEF Live, DebugSessions, NoDebug, Launching, Unlocked
<1>15. Spawned'
  <2>1. ASSUME NEW u \in DebugSessions
        PROVE /\ dbgTarget'[u].host = "alive" => dbgStop'[u] # "no"
              /\ dbgTarget'[u].host = "none" =>
                   /\ dbgTarget'[u] = NoTarget /\ dbgSes'[u] = NoSession
                   /\ dbgStream'[u] = <<>> /\ dbgStop'[u] = "no"
    <3>1. CASE u = v
      BY <3>1, <1>8, <1>10
    <3>2. CASE u # v
      BY <3>2, <1>8, <1>9, <1>10, <1>14 DEF Spawned, Only
    <3> QED
      BY <3>1, <3>2
  <2> QED
    BY <2>1, <1>14 DEF Spawned
<1> QED
  BY <1>11, <1>13, <1>14, <1>15, NothingLives

(* A session out of the slot.                                                *)
LEMMA OtherGoes ==
  ASSUME DebugInv, NEW s \in DebugSessions, ~Live(s), Only(s),
         UNCHANGED <<dbgSlot, dbgOp, dbgRuntime>>,
         dbgStop' \in [DebugSessions -> {"no", "asked", "disconnected", "done"}],
         \A u \in DebugSessions : u # s => dbgStop'[u] = dbgStop[u],
         dbgTarget'[s].host # "none",
         dbgTarget'[s].host = "alive" => dbgStop'[s] # "no"
  PROVE  DebugInv'
<1>1. DebugTypeOK /\ Locked /\ Spawned
  BY DEF DebugInv
<1>2. DebugTypeOK'
  BY <1>1 DEF DebugTypeOK, Only
<1>3. /\ \A u \in DebugSessions : (Live(u)' <=> Live(u)) /\ (Live(u) => u # s)
      /\ (Unlocked' <=> Unlocked) /\ (Launching' <=> Launching) /\ S' = S
  BY DEF Live, Unlocked, Launching, S
<1>4. Locked'
  BY <1>1, <1>3 DEF Locked
<1>5. Spawned'
  <2>1. ASSUME NEW u \in DebugSessions
        PROVE /\ dbgTarget'[u].host = "alive" => Live(u) \/ dbgStop'[u] # "no"
              /\ Live(u) => dbgTarget'[u].host # "none" /\ dbgStop'[u] = "no"
              /\ dbgTarget'[u].host = "none" =>
                   /\ dbgTarget'[u] = NoTarget /\ dbgSes'[u] = NoSession
                   /\ dbgStream'[u] = <<>> /\ dbgStop'[u] = "no"
    <3>1. CASE u = s
      BY <3>1, <1>3
    <3>2. CASE u # s
      BY <3>2, <1>1 DEF Spawned, Only
    <3> QED
      BY <3>1, <3>2
  <2> QED
    BY <2>1, <1>3 DEF Spawned
<1>6. \A u \in DebugSessions :
        Live(u) => Sound(dbgOp', dbgSes'[u], dbgStream'[u], dbgTarget'[u])
  BY <1>3 DEF DebugInv, Only
<1> QED
  BY <1>2, <1>3, <1>4, <1>5, <1>6 DEF DebugInv

LEMMA StopGoes ==
  ASSUME DebugInv, NEW s \in DebugSessions, StopStep(s)
  PROVE  DebugInv'
<1>1. DebugTypeOK /\ Locked /\ Spawned
  BY DEF DebugInv
<1>2. dbgStop[s] \in {"asked", "disconnected"}
  BY DEF StopStep, StopSkips, StopDisconnects, StopKills
<1>3. ~Live(s) /\ dbgTarget[s].host # "none"
  BY <1>1, <1>2 DEF Spawned
<1>4. /\ dbgSes[s] \in ConnectionRecord /\ dbgStream[s] \in Seq(FrameRecord)
      /\ dbgTarget[s] \in TargetRecord
  BY <1>1 DEF DebugTypeOK
<1>5. CASE StopSkips(s)
  <2> DEFINE z == Tail(dbgStream[s])
  <2>1. /\ dbgStream' = [dbgStream EXCEPT ![s] = z]
        /\ UNCHANGED <<dbgSlot, dbgOp, dbgSes, dbgTarget, dbgStop, dbgRuntime>>
        /\ z \in Seq(FrameRecord)
    BY <1>4, <1>5, Taken DEF StopSkips
  <2> HIDE DEF z
  <2>2. dbgSes' = dbgSes /\ dbgTarget' = dbgTarget /\ dbgStop' = dbgStop
    BY <2>1
  <2>3. Only(s) /\ dbgTarget'[s] = dbgTarget[s]
    BY <1>4, <2>1, <2>2, Setting
  <2> QED
    BY <1>1, <1>2, <1>3, <2>1, <2>2, <2>3, OtherGoes DEF DebugTypeOK
<1>6. CASE StopDisconnects(s)
  <2>1. /\ dbgStop' = [dbgStop EXCEPT ![s] = "disconnected"]
        /\ UNCHANGED <<dbgSlot, dbgOp, dbgRuntime>>
        /\ dbgSes' = dbgSes /\ dbgTarget' = dbgTarget /\ dbgStream' = dbgStream
    BY <1>6 DEF StopDisconnects
  <2>2. Only(s) /\ dbgTarget'[s] = dbgTarget[s]
    BY <1>4, <2>1, Setting
  <2>3. /\ dbgStop' \in [DebugSessions -> {"no", "asked", "disconnected", "done"}]
        /\ dbgStop'[s] # "no" /\ \A u \in DebugSessions : u # s => dbgStop'[u] = dbgStop[u]
    BY <1>1, <2>1 DEF DebugTypeOK
  <2> QED
    BY <1>3, <2>1, <2>2, <2>3, OtherGoes
<1>7. CASE StopKills(s)
  <2>1. /\ dbgStop' = [dbgStop EXCEPT ![s] = "done"]
        /\ dbgTarget' = [dbgTarget EXCEPT ![s] = Gone]
        /\ dbgStream' = [dbgStream EXCEPT ![s] = <<>>]
        /\ dbgSes' = [dbgSes EXCEPT ![s] = NoSession]
        /\ UNCHANGED <<dbgSlot, dbgOp, dbgRuntime>>
    BY <1>7 DEF StopKills
  <2>2. /\ Gone \in TargetRecord /\ NoSession \in ConnectionRecord /\ Gone.host = "dead"
        /\ <<>> \in Seq(FrameRecord)
    BY NothingYet, EmptySeq
  <2>3. Only(s) /\ dbgTarget'[s] = Gone
    BY <2>1, <2>2, Setting
  <2>4. /\ dbgStop' \in [DebugSessions -> {"no", "asked", "disconnected", "done"}]
        /\ dbgStop'[s] # "no" /\ \A u \in DebugSessions : u # s => dbgStop'[u] = dbgStop[u]
    BY <1>1, <2>1 DEF DebugTypeOK
  <2> QED
    BY <1>3, <2>1, <2>2, <2>3, <2>4, OtherGoes
<1> QED
  BY <1>5, <1>6, <1>7 DEF StopStep

-----------------------------------------------------------------------------
(* The target moves.                                                         *)
LEMMA TargetGoes ==
  ASSUME DebugInv, NEW s \in DebugSessions, dbgTarget[s].host = "alive",
         NEW z \in Seq(FrameRecord), NEW w \in TargetRecord, w.host # "none",
         dbgTarget' = [dbgTarget EXCEPT ![s] = w],
         dbgStream' = [dbgStream EXCEPT ![s] = z] \/ (dbgStream' = dbgStream /\ z = dbgStream[s]),
         UNCHANGED <<dbgSlot, dbgOp, dbgSes, dbgStop, dbgRuntime>>,
         Live(s) => Sound(dbgOp, dbgSes[s], z, w)
  PROVE  DebugInv'
<1> DEFINE x == dbgSes[s]
<1>1. DebugTypeOK /\ Spawned
  BY DEF DebugInv
<1>2. x \in ConnectionRecord /\ dbgSes' = dbgSes /\ x = dbgSes[s]
  BY <1>1 DEF DebugTypeOK
<1>3. dbgOp' = dbgOp /\ UNCHANGED <<dbgSlot, dbgStop, dbgRuntime>>
  OBVIOUS
<1> HIDE DEF x
<1>4. Only(s) /\ dbgSes'[s] = x /\ dbgStream'[s] = z /\ dbgTarget'[s] = w
  BY <1>2, Setting
<1>5. CASE Live(s)
  <2>1. /\ dbgTarget'[s].host # "none"
        /\ Sound(dbgOp', dbgSes'[s], dbgStream'[s], dbgTarget'[s])
    BY <1>2, <1>3, <1>4, <1>5
  <2> QED
    BY <1>3, <1>4, <1>5, <2>1, CallGoes
<1>6. CASE ~Live(s)
  <2>1. dbgStop' = dbgStop /\ dbgStop[s] # "no" /\ dbgTarget'[s].host # "none"
    BY <1>1, <1>4, <1>6 DEF Spawned
  <2>2. /\ dbgStop' \in [DebugSessions -> {"no", "asked", "disconnected", "done"}]
        /\ dbgStop'[s] # "no" /\ \A u \in DebugSessions : u # s => dbgStop'[u] = dbgStop[u]
    BY <1>1, <2>1 DEF DebugTypeOK
  <2> QED
    BY <1>3, <1>4, <1>6, <2>1, <2>2, OtherGoes
<1> QED
  BY <1>5, <1>6

LEMMA ReportSound ==
  ASSUME NEW o, NEW x \in ConnectionRecord, NEW q \in Seq(FrameRecord),
         NEW t \in TargetRecord, Sound(o, x, q, t), t.host = "alive",
         NEW f \in FrameRecord, IsReport(f), f.number = t.reports + 1,
         NEW w, w.host = "alive", w.inbox = t.inbox, w.points = t.points,
         w.reports = t.reports + 1
  PROVE  Sound(o, x, Append(q, f), w)
<1>1. Whole(x, Append(q, f), w)
  <2> DEFINE r == x.recorded
             p == x.pending
             c == Len(x.ring) + x.dropped
             n == t.reports
             m == w.reports
  <2>1. /\ r \in Seq(FrameRecord) /\ p \in Seq(FrameRecord) /\ c \in Nat /\ n \in Nat
        /\ Kept(r, p, c, q, n, "alive") /\ m = n + 1 /\ m \in Nat /\ f.number = n + 1
    BY Counts, TargetParts DEF Sound, Whole
  <2> HIDE DEF r, p, c, n, m
  <2>2. Kept(r, p, c, Append(q, f), m, "alive")
    BY <2>1, KeptGrows
  <2> QED
    BY <2>2 DEF Sound, Whole, r, p, c, m
<1>2. ~IsAnswer(f)
  BY DEF IsAnswer
<1>3. Matched(o, x, Append(q, f), w)
  BY <1>2, EventArrives DEF Sound, Matched
<1>4. Followed(o, x, Append(q, f), w)
  BY <1>2, EventArrives DEF Sound, Followed
<1> QED
  BY <1>1, <1>3, <1>4 DEF Sound

LEMMA ExitSound ==
  ASSUME NEW o, NEW x \in ConnectionRecord, NEW q \in Seq(FrameRecord),
         NEW t \in TargetRecord, Sound(o, x, q, t), t.host = "alive",
         NEW z,
         \/ z = q
         \/ \E f \in FrameRecord : f.kind = "disconnect" /\ z = Append(q, f),
         NEW w, w.host = "dead", w.inbox = <<>>, w.points = t.points,
         w.reports = t.reports
  PROVE  Sound(o, x, z, w)
<1>1. Whole(x, z, w)
  <2> DEFINE r == x.recorded
             p == x.pending
             c == Len(x.ring) + x.dropped
             n == t.reports
  <2>1. /\ r \in Seq(FrameRecord) /\ p \in Seq(FrameRecord) /\ c \in Nat /\ n \in Nat
        /\ Kept(r, p, c, q, n, "alive") /\ w.reports = n
    BY Counts, TargetParts DEF Sound, Whole
  <2> HIDE DEF r, p, c, n
  <2>2. Kept(r, p, c, q, n, "dead")
    BY <2>1, KeptDead
  <2>3. ASSUME NEW f \in FrameRecord, f.kind = "disconnect"
        PROVE  Kept(r, p, c, Append(q, f), n, "dead")
    BY <2>1, <2>3, KeptGrows DEF IsReport
  <2>4. Kept(r, p, c, z, n, "dead")
    BY <2>2, <2>3
  <2>5. Len(w.inbox) = 0
    BY EmptySeq
  <2> QED
    BY <2>1, <2>4, <2>5 DEF Sound, Whole, r, p, c
<1>2. /\ \A b, h : Paired(o, q, b, h) => Paired(o, z, b, h)
      /\ \A v : Carried(o, q, v) => Carried(o, z, v)
  <2>1. ASSUME NEW f \in FrameRecord, f.kind = "disconnect", z = Append(q, f)
        PROVE  /\ \A b, h : Paired(o, q, b, h) => Paired(o, z, b, h)
               /\ \A v : Carried(o, q, v) => Carried(o, z, v)
    <3>1. ~IsAnswer(f)
      BY <2>1 DEF IsAnswer
    <3> QED
      BY <3>1, <2>1, EventArrives
  <2> QED
    BY <2>1
<1>3. Matched(o, x, z, w)
  BY <1>2, PairedDead DEF Sound, Matched
<1>4. Followed(o, x, z, w)
  <2>1. Placing(o, w.inbox, w.host)
    BY DEF Placing
  <2> QED
    BY <1>2, <2>1 DEF Sound, Followed
<1> QED
  BY <1>1, <1>3, <1>4 DEF Sound

(* What the target's breakpoints become when it takes a request.             *)
Obeyed(ask, v, u, ok) ==
  /\ ask.kind \notin {"set", "unset"} => u = v
  /\ ask.kind = "unset" => u = v \ ask.points
  /\ ask.kind = "set" => IF ok THEN u = v \cup ask.points
                               ELSE u = v /\ ~(ask.points \subseteq v)

(* What TargetTakes does, apart from which request it is.                    *)
Put(s, w) == dbgTarget' = [dbgTarget EXCEPT ![s] = w]
Replied(s, ask, ok) ==
  dbgStream' = [dbgStream EXCEPT ![s] =
                  Append(@, Frame(AnswerKind(ask.kind), ask.number, ok))]
Took(s, t, b, ask) ==
  \E w \in TargetRecord :
    /\ Put(s, w) /\ w.inbox = Tail(b) /\ w.host = "alive" /\ w.reports = t.reports
    /\ \/ ask.kind = "catch" /\ w.points = t.points /\ dbgStream' = dbgStream
       \/ /\ ask.kind # "catch"
          /\ \E ok \in BOOLEAN :
               Obeyed(ask, t.points, w.points, ok) /\ Replied(s, ask, ok)

LEMMA TookAnswered ==
  ASSUME NEW s, NEW t, NEW b, NEW ask, NEW w \in TargetRecord,
         Put(s, w), w.inbox = Tail(b), w.host = "alive",
         w.reports = t.reports, ask.kind # "catch", NEW ok \in BOOLEAN,
         Obeyed(ask, t.points, w.points, ok), Replied(s, ask, ok)
  PROVE  Took(s, t, b, ask)
BY DEF Took

LEMMA TookSilently ==
  ASSUME NEW s, NEW t, NEW b, NEW ask, NEW w \in TargetRecord,
         Put(s, w), w.inbox = Tail(b), w.host = "alive",
         w.reports = t.reports, ask.kind = "catch", w.points = t.points,
         dbgStream' = dbgStream
  PROVE  Took(s, t, b, ask)
BY DEF Took

LEMMA Takes ==
  ASSUME NEW s, TargetTakes(s), dbgTarget[s] \in TargetRecord,
         NEW t, t = dbgTarget[s], NEW b, b = t.inbox, NEW ask, ask = Head(b)
  PROVE  t.host = "alive" /\ b # <<>> /\ ask \in AskRecord /\ Took(s, t, b, ask)
<1> DEFINE c == [t EXCEPT !.inbox = Tail(b)]
           After(v) == [c EXCEPT !.points = v]
<1>1. t.host = "alive" /\ b # <<>>
  BY DEF TargetTakes
<1>2. b \in Seq(AskRecord) /\ t.points \in SUBSET Points
  BY TargetParts
<1>3. ask \in AskRecord /\ Tail(b) \in Seq(AskRecord)
  BY <1>1, <1>2, Taken
<1>4. c \in TargetRecord
  BY <1>3, TargetField
<1>5. /\ c.inbox = Tail(b) /\ c.host = "alive" /\ c.reports = t.reports
      /\ c.points = t.points
  BY <1>1, <1>4 DEF TargetRecord
<1>6. \/ ask.kind = "offset" /\ Put(s, c) /\ Replied(s, ask, FALSE)
      \/ ask.kind = "set" /\ ~(ask.points \subseteq c.points) /\ Put(s, c) /\ Replied(s, ask, FALSE)
      \/ /\ ask.kind = "set"
         /\ Put(s, [c EXCEPT !.points = c.points \cup ask.points]) /\ Replied(s, ask, TRUE)
      \/ /\ ask.kind = "unset"
         /\ Put(s, [c EXCEPT !.points = c.points \ ask.points])
         /\ Replied(s, ask, ask.points \subseteq c.points)
      \/ ask.kind \notin {"set", "unset", "catch"} /\ Put(s, c) /\ Replied(s, ask, TRUE)
      \/ ask.kind = "catch" /\ Put(s, c) /\ dbgStream' = dbgStream
  BY DEF TargetTakes, Put, Replied
<1> HIDE DEF c
<1>7. ASSUME NEW v \in SUBSET Points
      PROVE  /\ After(v) \in TargetRecord /\ After(v).inbox = Tail(b)
             /\ After(v).host = "alive" /\ After(v).reports = t.reports
             /\ After(v).points = v
  <2>1. After(v) \in TargetRecord
    BY <1>4, TargetField
  <2> QED
    BY <2>1, <1>4, <1>5 DEF TargetRecord
<1>9. CASE /\ ask.kind \notin {"set", "unset", "catch"} /\ Put(s, c)
           /\ Replied(s, ask, TRUE) \/ Replied(s, ask, FALSE)
  <2>1. \A ok : Obeyed(ask, t.points, c.points, ok)
    BY <1>5, <1>9 DEF Obeyed
  <2> QED
    BY <1>1, <1>3, <1>4, <1>5, <1>9, <2>1, TookAnswered
<1>10. CASE /\ ask.kind = "set" /\ ~(ask.points \subseteq c.points) /\ Put(s, c)
            /\ Replied(s, ask, FALSE)
  <2>1. Obeyed(ask, t.points, c.points, FALSE)
    BY <1>5, <1>10 DEF Obeyed
  <2> QED
    BY <1>1, <1>3, <1>4, <1>5, <1>10, <2>1, TookAnswered
<1>11. CASE /\ ask.kind = "set" /\ Replied(s, ask, TRUE)
            /\ Put(s, [c EXCEPT !.points = c.points \cup ask.points])
  <2> DEFINE v == t.points \cup ask.points
             w == After(v)
  <2>1. v \in SUBSET Points
    BY <1>2, <1>3 DEF AskRecord
  <2>2. Put(s, w)
    BY <1>5, <1>11
  <2>3. Obeyed(ask, t.points, v, TRUE)
    BY <1>11 DEF Obeyed
  <2>4. /\ w \in TargetRecord /\ w.inbox = Tail(b) /\ w.host = "alive"
        /\ w.reports = t.reports /\ w.points = v
    BY <2>1, <1>7
  <2> HIDE DEF w, v
  <2>5. Obeyed(ask, t.points, w.points, TRUE)
    BY <2>3, <2>4
  <2>6. ask.kind # "catch" /\ Replied(s, ask, TRUE)
    BY <1>11
  <2> QED
    BY <1>1, <1>3, <2>2, <2>4, <2>5, <2>6, TookAnswered
<1>12. CASE /\ ask.kind = "unset" /\ Replied(s, ask, ask.points \subseteq c.points)
            /\ Put(s, [c EXCEPT !.points = c.points \ ask.points])
  <2> DEFINE v == t.points \ ask.points
             w == After(v)
             ok == ask.points \subseteq c.points
  <2>1. v \in SUBSET Points
    BY <1>2
  <2>2. Put(s, w)
    BY <1>5, <1>12
  <2>3. \A e : Obeyed(ask, t.points, v, e)
    BY <1>12 DEF Obeyed
  <2>4. /\ w \in TargetRecord /\ w.inbox = Tail(b) /\ w.host = "alive"
        /\ w.reports = t.reports /\ w.points = v
    BY <2>1, <1>7
  <2>5. ok \in BOOLEAN
    OBVIOUS
  <2>6. Replied(s, ask, ok)
    BY <1>12
  <2>7. ask.kind # "catch"
    BY <1>12
  <2> HIDE DEF w, v, ok
  <2>8. Obeyed(ask, t.points, w.points, ok)
    BY <2>3, <2>4
  <2> QED
    BY <1>1, <1>3, <2>2, <2>4, <2>5, <2>6, <2>7, <2>8, TookAnswered
<1>13. CASE ask.kind = "catch" /\ Put(s, c) /\ dbgStream' = dbgStream
  BY <1>1, <1>3, <1>4, <1>5, <1>13, TookSilently
<1>14. Took(s, t, b, ask)
  BY <1>6, <1>9, <1>10, <1>11, <1>12, <1>13
<1> QED
  BY <1>1, <1>3, <1>14

LEMMA CatchSound ==
  ASSUME NEW o, NEW x, NEW q, NEW t \in TargetRecord, Sound(o, x, q, t), t.host = "alive",
         t.inbox # <<>>, Head(t.inbox).kind = "catch",
         NEW w, w.inbox = Tail(t.inbox), w.host = "alive", w.reports = t.reports,
         w.points = t.points
  PROVE  Sound(o, x, q, w)
<1>1. t.inbox \in Seq(AskRecord)
  BY TargetParts
<1>2. Whole(x, q, w)
  BY <1>1, RequestTaken DEF Sound, Whole
<1>3. Matched(o, x, q, w)
  BY <1>1, CatchTaken DEF Sound, Matched
<1>4. Followed(o, x, q, w)
  BY <1>1, RequestTaken DEF Sound, Followed
<1> QED
  BY <1>2, <1>3, <1>4 DEF Sound

LEMMA TakeSound ==
  ASSUME NEW o, NEW x \in ConnectionRecord, NEW q \in Seq(FrameRecord),
         NEW t \in TargetRecord, Sound(o, x, q, t), t.host = "alive",
         NEW b, b = t.inbox, b # <<>>, NEW ask, ask = Head(b), ask.kind # "catch",
         NEW f \in FrameRecord, f.kind = AnswerKind(ask.kind), f.number = ask.number,
         f.ok \in BOOLEAN,
         NEW w, w.inbox = Tail(b), w.host = "alive", w.reports = t.reports,
         Obeyed(ask, t.points, w.points, f.ok)
  PROVE  Sound(o, x, Append(q, f), w)
<1> DEFINE z == Append(q, f)
<1>1. b \in Seq(AskRecord) /\ ask \in AskRecord
  BY TargetParts, Taken
<1>2. \A i \in 1 .. Len(b) : b[i].kind # "disconnect"
  BY DEF Sound, Whole
<1>3. ask.kind # "disconnect" /\ \A i \in 1 .. Len(Tail(b)) : Tail(b)[i].kind # "disconnect"
  BY <1>1, <1>2, RequestTaken
<1>4. IsAnswer(f) /\ ~IsReport(f) /\ f.kind # "disconnect"
  BY <1>1, <1>3 DEF IsAnswer, IsReport, AskRecord, AnswerKind
<1>5. Whole(x, z, w)
  <2> DEFINE r == x.recorded
             p == x.pending
             c == Len(x.ring) + x.dropped
             n == t.reports
  <2>1. /\ r \in Seq(FrameRecord) /\ p \in Seq(FrameRecord) /\ c \in Nat /\ n \in Nat
        /\ Kept(r, p, c, q, n, "alive") /\ w.reports = n
    BY Counts, TargetParts DEF Sound, Whole
  <2> HIDE DEF r, p, c, n
  <2>2. Kept(r, p, c, Append(q, f), n, "alive")
    BY <2>1, <1>4, KeptGrows
  <2> QED
    BY <2>1, <2>2, <1>3 DEF Sound, Whole, r, p, c
<1>6. ASSUME ~x.late, ~x.torn
      PROVE  /\ Silent(q) /\ ask.kind = o.pc /\ ~Silent(z)
             /\ \A i \in 1 .. Len(z) : IsAnswer(z[i]) => z[i] = f
             /\ Paired(o, z, w.inbox, w.host)
  <2>1. Paired(o, q, b, "alive")
    BY <1>6 DEF Sound, Matched
  <2>2. /\ b \in Seq(AskRecord) /\ b # <<>> /\ Head(b).kind # "catch"
        /\ f.number = Head(b).number /\ f.kind = AnswerKind(Head(b).kind)
    BY <1>1
  <2>3. /\ Silent(q) /\ Head(b).kind = o.pc /\ ~Silent(Append(q, f))
        /\ \A i \in 1 .. Len(Append(q, f)) : IsAnswer(Append(q, f)[i]) => Append(q, f)[i] = f
        /\ Paired(o, Append(q, f), Tail(b), "alive")
    BY ONLY <2>1, <2>2, <1>4, q \in Seq(FrameRecord), f \in FrameRecord,
       RequestAnswered
  <2> QED
    BY <2>3
<1> HIDE DEF z
<1>7. Matched(o, x, z, w)
  BY <1>6 DEF Sound, Matched
<1>8. ASSUME ~x.late, ~x.broken
      PROVE  /\ Placing(o, w.inbox, w.host)
             /\ ask.kind \in {"set", "unset"} => o.pc = ask.kind /\ ask.points = o.point
  <2>1. Placing(o, b, "alive")
    BY <1>8 DEF Sound, Followed
  <2> QED
    BY <2>1, <1>1, RequestTaken
<1>9. ASSUME ~x.late, ~x.broken, o.pc \notin {"unset", "set"}
      PROVE  w.points = t.points
  BY <1>8, <1>9 DEF Obeyed
<1>10. ASSUME ~x.late, ~x.broken, ~x.torn, o.pc \in {"unset", "set"}
       PROVE  Carried(o, z, w.points)
  <2>1. /\ Silent(q) /\ ask.kind = o.pc /\ ~Silent(z)
        /\ \A i \in 1 .. Len(z) : IsAnswer(z[i]) => z[i] = f
    BY <1>6, <1>10
  <2>2. ask.points = o.point
    BY <2>1, <1>8, <1>10
  <2>3. Carried(o, q, t.points) /\ Phased(o)
    BY <1>10 DEF Sound, Followed
  <2>4. t.points \ o.add = o.remove \cup o.installed
    BY <2>1, <2>3 DEF Carried, Halfway
  <2>5. CASE o.pc = "unset"
    <3>1. w.points = t.points \ o.point /\ o.installed = {}
      BY <2>1, <2>2, <2>3, <2>5 DEF Obeyed, Phased
    <3>2. w.points \ o.add = o.remove \ o.point
      BY <3>1, <2>4
    <3> QED
      BY <3>2, <2>1, <2>5 DEF Carried
  <2>6. CASE o.pc = "set"
    <3>1. PICK p \in o.add : o.point = {p}
      BY <2>3, <2>6 DEF Phased
    <3>2. o.remove = {}
      BY <2>3, <2>6 DEF Phased
    <3>3. /\ f.ok => w.points = t.points \cup {p}
          /\ ~f.ok => w.points = t.points /\ p \notin t.points
      BY <2>1, <2>2, <2>6, <3>1 DEF Obeyed
    <3>4. w.points \ (o.add \ {p}) = o.installed \cup (IF f.ok THEN {p} ELSE {})
      BY <3>1, <3>2, <3>3, <2>4
    <3>5. \A i \in 1 .. Len(z) : IsAnswer(z[i]) =>
            w.points \ (o.add \ o.point) = o.installed \cup (IF z[i].ok THEN o.point ELSE {})
      BY <2>1, <3>1, <3>4
    <3> QED
      BY <3>5, <2>1, <2>6 DEF Carried
  <2> QED
    BY <1>10, <2>5, <2>6
<1>11. Followed(o, x, z, w)
  <2>1. ASSUME ~x.late, ~x.broken
        PROVE  /\ Untouched(o) => w.points = x.active
               /\ o.pc \in {"replace", "offset"} => Halfway(o, w.points)
    <3>1. /\ Untouched(o) => t.points = x.active
          /\ o.pc \in {"replace", "offset"} => Halfway(o, t.points)
      BY <2>1 DEF Sound, Followed
    <3>2. Untouched(o) => o.pc \notin {"unset", "set"}
      BY DEF Untouched, Replacing
    <3> QED
      BY <2>1, <3>1, <3>2, <1>9
  <2> QED
    BY <2>1, <1>8, <1>10 DEF Followed
<1>12. Phased(o)
  BY DEF Sound
<1> QED
  BY <1>5, <1>7, <1>11, <1>12 DEF Sound, z

LEMMA TakesStep ==
  ASSUME DebugInv, NEW s \in DebugSessions, TargetTakes(s)
  PROVE  DebugInv'
<1> DEFINE t == dbgTarget[s]
           b == t.inbox
           ask == Head(b)
           x == dbgSes[s]
           q == dbgStream[s]
<1>1. /\ t \in TargetRecord /\ x \in ConnectionRecord /\ q \in Seq(FrameRecord)
      /\ Live(s) => Sound(dbgOp, x, q, t)
  BY DEF DebugInv, DebugTypeOK
<1>2. t.host = "alive" /\ b # <<>> /\ ask \in AskRecord /\ Took(s, t, b, ask)
  BY <1>1, Takes
<1>3. UNCHANGED <<dbgSlot, dbgOp, dbgSes, dbgStop, dbgRuntime>>
  BY DEF TargetTakes
<1>4. PICK w \in TargetRecord :
        /\ Put(s, w) /\ w.inbox = Tail(b) /\ w.host = "alive" /\ w.reports = t.reports
        /\ \/ ask.kind = "catch" /\ w.points = t.points /\ dbgStream' = dbgStream
           \/ /\ ask.kind # "catch"
              /\ \E ok \in BOOLEAN :
                   Obeyed(ask, t.points, w.points, ok) /\ Replied(s, ask, ok)
  BY <1>2 DEF Took
<1>5. dbgTarget' = [dbgTarget EXCEPT ![s] = w] /\ w.host # "none"
  BY <1>4 DEF Put
<1>6. CASE ask.kind = "catch" /\ w.points = t.points /\ dbgStream' = dbgStream
  <2>1. Live(s) => Sound(dbgOp, x, q, w)
    BY <1>1, <1>2, <1>4, <1>6, CatchSound
  <2> QED
    BY <1>1, <1>2, <1>3, <1>5, <1>6, <2>1, TargetGoes
<1>7. ASSUME ask.kind # "catch", NEW ok \in BOOLEAN,
             Obeyed(ask, t.points, w.points, ok), Replied(s, ask, ok)
      PROVE  DebugInv'
  <2> DEFINE f == Frame(AnswerKind(ask.kind), ask.number, ok)
  <2>1. f \in FrameRecord /\ f.kind = AnswerKind(ask.kind) /\ f.number = ask.number
        /\ f.ok = ok
    BY <1>2, <1>7 DEF Frame, FrameRecord, AskRecord, AnswerKind
  <2>2. dbgStream' = [dbgStream EXCEPT ![s] = Append(q, f)]
    BY <1>7 DEF Replied
  <2> HIDE DEF f
  <2>3. Append(q, f) \in Seq(FrameRecord)
    BY <1>1, <2>1, Appended
  <2> HIDE DEF b, ask, x, q, t
  <2>4. ASSUME Live(s) PROVE Sound(dbgOp, x, Append(q, f), w)
    <3>1. f.ok \in BOOLEAN /\ Obeyed(ask, t.points, w.points, f.ok) /\ ask.kind # "catch"
      BY <1>7, <2>1
    <3>2. b = t.inbox /\ ask = Head(b)
      BY DEF b, ask
    <3> QED
      BY <3>1, <3>2, <2>1, <2>4, <1>1, <1>2, <1>4, TakeSound
  <2> QED
    BY <1>2, <1>3, <1>5, <2>2, <2>3, <2>4, TargetGoes DEF x, t
<1> QED
  BY <1>4, <1>6, <1>7

LEMMA TargetMoves ==
  ASSUME DebugInv, NEW s \in DebugSessions, TargetStep(s)
  PROVE  DebugInv'
<1> DEFINE t == dbgTarget[s]
           x == dbgSes[s]
           q == dbgStream[s]
<1>1. /\ t \in TargetRecord /\ x \in ConnectionRecord /\ q \in Seq(FrameRecord)
      /\ Live(s) => Sound(dbgOp, x, q, t)
  BY DEF DebugInv, DebugTypeOK
<1>2. CASE TargetReports(s)
  <2> DEFINE f == Frame("report", t.reports + 1, TRUE)
             w == [t EXCEPT !.reports = t.reports + 1]
  <2>1. /\ t.host = "alive" /\ dbgTarget' = [dbgTarget EXCEPT ![s] = w]
        /\ dbgStream' = [dbgStream EXCEPT ![s] = Append(q, f)]
        /\ UNCHANGED <<dbgSlot, dbgOp, dbgSes, dbgStop, dbgRuntime>>
    BY <1>2 DEF TargetReports
  <2>2. t.reports + 1 \in Nat
    BY <1>1, TargetParts
  <2>3. w \in TargetRecord
    BY <1>1, <2>2, TargetField
  <2>4. w.host = "alive" /\ w.inbox = t.inbox /\ w.points = t.points
        /\ w.reports = t.reports + 1
    BY <1>1, <2>1 DEF TargetRecord
  <2>5. f \in FrameRecord /\ IsReport(f) /\ f.number = t.reports + 1
    BY <2>2 DEF Frame, FrameRecord, IsReport
  <2> HIDE DEF f, w
  <2>6. Append(q, f) \in Seq(FrameRecord)
    BY <1>1, <2>5, Appended
  <2>7. Live(s) => Sound(dbgOp, x, Append(q, f), w)
    BY <1>1, <2>1, <2>4, <2>5, ReportSound
  <2> QED
    BY <2>1, <2>3, <2>4, <2>6, <2>7, TargetGoes
<1>3. CASE TargetExits(s)
  <2> DEFINE f == Frame("disconnect", 0, TRUE)
             d == [t EXCEPT !.host = "dead"]
             w == [d EXCEPT !.inbox = <<>>]
  <2>1. /\ t.host = "alive"
        /\ \/ dbgStream' = [dbgStream EXCEPT ![s] = Append(q, f)]
           \/ dbgStream' = dbgStream
        /\ UNCHANGED <<dbgSlot, dbgOp, dbgSes, dbgStop, dbgRuntime>>
    BY <1>3 DEF TargetExits
  <2>2. dbgTarget' = [dbgTarget EXCEPT ![s] = w]
    <3>1. dbgTarget \in [DebugSessions -> TargetRecord]
      BY DEF DebugInv, DebugTypeOK
    <3> QED
      BY <3>1, <1>3 DEF TargetExits, KillHost
  <2>3. d \in TargetRecord /\ <<>> \in Seq(AskRecord)
    BY <1>1, TargetField, EmptySeq
  <2>4. d.host = "dead" /\ d.points = t.points /\ d.reports = t.reports
    BY <1>1 DEF TargetRecord
  <2> HIDE DEF d
  <2>5. w \in TargetRecord
    BY <2>3, TargetField
  <2>6. w.host = "dead" /\ w.inbox = <<>> /\ w.points = t.points /\ w.reports = t.reports
    BY <2>3, <2>4 DEF TargetRecord
  <2>7. f \in FrameRecord /\ f.kind = "disconnect"
    BY DEF Frame, FrameRecord
  <2> HIDE DEF f, w
  <2>8. Append(q, f) \in Seq(FrameRecord)
    BY <1>1, <2>7, Appended
  <2>9. PICK z \in Seq(FrameRecord) :
          /\ z = q \/ z = Append(q, f)
          /\ dbgStream' = [dbgStream EXCEPT ![s] = z] \/ (dbgStream' = dbgStream /\ z = q)
    BY <1>1, <2>1, <2>8
  <2>10. Live(s) => Sound(dbgOp, x, z, w)
    BY <1>1, <2>1, <2>6, <2>7, <2>9, ExitSound
  <2> QED
    BY <2>1, <2>2, <2>5, <2>6, <2>9, <2>10, TargetGoes
<1> QED
  BY <1>2, <1>3, TakesStep DEF TargetStep

-----------------------------------------------------------------------------
LEMMA DebugBegins ==
  ASSUME DebugInit
  PROVE  DebugInv
<1>1. /\ NoTarget \in TargetRecord /\ NoSession \in ConnectionRecord
      /\ NoDebugOp \in DebugOpRecord /\ NoTarget.host = "none"
      /\ NoDebugOp.pc = "idle" /\ NoDebugOp.ses = NoDebug /\ <<>> \in Seq(FrameRecord)
  BY NothingYet, EmptySeq
<1>2. DebugTypeOK
  BY <1>1 DEF DebugInit, DebugTypeOK
<1>3. Unlocked /\ ~Launching /\ S = NoDebug /\ dbgSlot = NoDebug /\ ~dbgRuntime
  BY <1>1 DEF DebugInit, Unlocked, Launching, S
<1>4. Locked
  BY <1>3 DEF Locked
<1>5. \A s \in DebugSessions : ~Live(s)
  BY <1>3 DEF Live, DebugSessions, NoDebug
<1>6. Spawned
  BY <1>1, <1>5 DEF DebugInit, Spawned
<1> QED
  BY <1>2, <1>4, <1>5, <1>6 DEF DebugInv

LEMMA DebugSteps ==
  ASSUME DebugInv, [DebugNext]_debugVars
  PROVE  DebugInv'
<1>1. CASE UNCHANGED debugVars
  <2>1. /\ dbgSlot' = dbgSlot /\ dbgOp' = dbgOp /\ dbgSes' = dbgSes
        /\ dbgStream' = dbgStream /\ dbgTarget' = dbgTarget /\ dbgStop' = dbgStop
        /\ dbgRuntime' = dbgRuntime
    BY <1>1 DEF debugVars
  <2>2. /\ \A u \in DebugSessions : Live(u)' <=> Live(u)
        /\ (Unlocked' <=> Unlocked) /\ (Launching' <=> Launching) /\ S' = S
    BY <2>1 DEF Live, Unlocked, Launching, S
  <2>3. DebugTypeOK' /\ Spawned' /\ Locked'
    BY <2>1, <2>2 DEF DebugInv, DebugTypeOK, Spawned, Locked
  <2> QED
    BY <2>1, <2>2, <2>3 DEF DebugInv
<1>2. CASE Begins
  <2>1. ASSUME NEW desired \in SUBSET Points, SetFunctionBreakpoints(desired)
        PROVE  DebugInv'
    BY <2>1, ReplacementStep
  <2>2. ASSUME NEW f \in AllFiles, NEW desired \in SUBSET Points,
               SetBreakpoints(f, desired)
        PROVE  DebugInv'
    BY <2>2, ReplacementStep
  <2>3. ASSUME NEW kinds \in {{"report", "disconnect"}, {"disconnect"}}, WaitBegin(kinds)
        PROVE  DebugInv'
    <3>1. kinds \in SUBSET {"report", "disconnect"}
      OBVIOUS
    <3> QED
      BY <3>1, <2>3, WaitBeginStep
  <2> QED
    BY <1>2, <2>1, <2>2, <2>3, DebugLaunchStep, QueryStep, CatchStep, DebugStopStep
       DEF Begins
<1>3. CASE CallStep
  BY <1>3, ReadReportStep, ReadFailsStep, ReadRefusedStep, LaunchFailsStep,
     ReadAnswerStep,
     AcceptStep, ConfigureStep, ReplaceNextStep, RecordActiveStep, WaitReadsStep,
     WaitEndsStep
     DEF CallStep
<1>4. CASE RunBeside \/ RunEnds
  BY <1>4, RunsBeside
<1>5. ASSUME NEW s \in DebugSessions, StopStep(s) \/ TargetStep(s)
      PROVE  DebugInv'
  BY <1>5, StopGoes, TargetMoves
<1> QED
  BY <1>1, <1>2, <1>3, <1>4, <1>5 DEF DebugNext

(* The debugger keeps its invariant.                                         *)
THEOREM DebugSound == DebugSpec => []DebugInv
<1>1. DebugInit => DebugInv
  BY DebugBegins
<1>2. DebugInv /\ [DebugNext]_debugVars => DebugInv'
  BY DebugSteps
<1> QED
  BY <1>1, <1>2, PTL DEF DebugSpec

-----------------------------------------------------------------------------
(* What the session tells of its target.                                     *)
LEMMA AllKept ==
  ASSUME NEW r \in Seq(FrameRecord), NEW p \in Seq(FrameRecord), NEW c, NEW n, NEW h,
         NEW q \in Seq(FrameRecord), Kept(r, p, c, q, n, h)
  PROVE  LET read == r \o p
             left == {i \in 1 .. Len(q) : IsReport(q[i])}
         IN  /\ Len(read) <= n
             /\ \A i \in 1 .. Len(read) : read[i].number = i
             /\ {q[i].number : i \in left} = Len(read) + 1 .. n
             /\ \A i, j \in left : i < j => q[i].number < q[j].number
             /\ c \in {Len(r), Len(r) + 1}
<1> DEFINE a == Len(r)
           b == Len(p)
           l == a + b
           left == {i \in 1 .. Len(q) : IsReport(q[i])}
<1>1. a \in Nat /\ b \in Nat /\ Len(q) \in Nat
  BY LenProperties
<1>2. /\ r \o p \in Seq(FrameRecord) /\ Len(r \o p) = l
      /\ \A i \in 1 .. l : (r \o p)[i] = IF i <= a THEN r[i] ELSE p[i - a]
  BY ConcatProperties
<1>3. Reported(q, l, n) /\ c \in {a, a + 1}
  BY DEF Kept
<1>4. /\ \A i \in 1 .. a : r[i].number = i
      /\ \A i \in 1 .. b : p[i].number = a + i
  BY DEF Kept
<1>5. ASSUME NEW i \in 1 .. l PROVE (r \o p)[i].number = i
  <2>1. CASE i <= a
    <3>1. i \in 1 .. a /\ (r \o p)[i] = r[i]
      BY <1>1, <1>2, <2>1
    <3> QED
      BY <3>1, <1>4
  <2>2. CASE ~(i <= a)
    <3> DEFINE j == i - a
    <3>1. j \in 1 .. b /\ (r \o p)[i] = p[j] /\ a + j = i
      BY <1>1, <1>2, <2>2
    <3> HIDE DEF j
    <3> QED
      BY <3>1, <1>4
  <2> QED
    BY <2>1, <2>2
<1>6. {q[i].number : i \in left} = l + 1 .. n
  <2>1. \A i \in left : q[i].number \in l + 1 .. n
    BY <1>3 DEF Reported
  <2>2. \A m \in l + 1 .. n : \E i \in left : q[i].number = m
    BY <1>3 DEF Reported
  <2> HIDE DEF left, l
  <2> QED
    BY <2>1, <2>2
<1>7. \A i, j \in left : i < j => q[i].number < q[j].number
  BY <1>3 DEF Reported
<1>8. l <= n
  BY <1>3 DEF Reported
<1> QED
  BY <1>2, <1>3, <1>5, <1>6, <1>7, <1>8

LEMMA FaithfulHere ==
  ASSUME DebugInv
  PROVE  SessionFaithful
<1>1. ASSUME NEW s \in {dbgSlot} \cap DebugSessions
      PROVE  EventsKept(s) /\ OwnAnswers(s)
  <2> DEFINE x == dbgSes[s]
             q == dbgStream[s]
             t == dbgTarget[s]
  <2>1. /\ x \in ConnectionRecord /\ q \in Seq(FrameRecord) /\ Sound(dbgOp, x, q, t)
    BY DEF DebugInv, DebugTypeOK, Live
  <2>2. x.recorded \in Seq(FrameRecord) /\ x.pending \in Seq(FrameRecord)
    BY <2>1, Counts
  <2>3. /\ Kept(x.recorded, x.pending, Len(x.ring) + x.dropped, q, t.reports, t.host)
        /\ Len(x.ring) <= RingSize
    BY <2>1 DEF Sound, Whole
  <2>4. OwnAnswers(s)
    BY <2>1 DEF OwnAnswers, Sound, Matched
  <2>5. EventsKept(s)
    <3> DEFINE r == x.recorded
               p == x.pending
               c == Len(x.ring) + x.dropped
               n == t.reports
               h == t.host
               read == r \o p
               left == {i \in 1 .. Len(q) : IsReport(q[i])}
    <3>1. /\ r \in Seq(FrameRecord) /\ p \in Seq(FrameRecord) /\ q \in Seq(FrameRecord)
          /\ Kept(r, p, c, q, n, h)
      BY <2>1, <2>2, <2>3
    <3>2. /\ Len(read) <= n
          /\ \A i \in 1 .. Len(read) : read[i].number = i
          /\ {q[i].number : i \in left} = Len(read) + 1 .. n
          /\ \A i, j \in left : i < j => q[i].number < q[j].number
          /\ c \in {Len(r), Len(r) + 1}
      <4> HIDE DEF r, p, c, q, n, h
      <4> QED
        BY <3>1, AllKept
    <3> QED
      BY <3>2, <2>3 DEF EventsKept
  <2> QED
    BY <2>4, <2>5
<1>2. ASSUME NEW s \in {dbgSlot} \cap DebugSessions, s # dbgOp.ses,
             ~dbgSes[s].late, ~dbgSes[s].broken
      PROVE  dbgSes[s].active = dbgTarget[s].points
  <2>1. Live(s) /\ Sound(dbgOp, dbgSes[s], dbgStream[s], dbgTarget[s])
    BY DEF DebugInv, Live
  <2>2. Unlocked
    BY <1>2 DEF DebugInv, Locked, S, DebugSessions, NoDebug
  <2>3. Untouched(dbgOp)
    BY <2>2 DEF Unlocked, Untouched, Replacing
  <2> QED
    BY <1>2, <2>1, <2>3 DEF Sound, Followed
<1> QED
  BY <1>1, <1>2 DEF SessionFaithful, ConnectionFaithful, ActiveIsSet

LEMMA OnceHere ==
  ASSUME DebugInv
  PROVE  OwnedOnce
<1> DEFINE A == {s \in Hosts : dbgStop[s] = "no"}
<1>1. Locked /\ Spawned
  BY DEF DebugInv
<1>2. \A s \in Hosts : s \in {dbgSlot, S} \/ dbgStop[s] # "no"
  BY <1>1 DEF Hosts, Spawned, Live
<1>3. \A s \in A : s \in DebugSessions /\ Live(s)
  BY <1>1 DEF Hosts, Spawned
<1>4. CASE A = {}
  BY <1>2, <1>4, FS_EmptySet DEF OwnedOnce
<1>5. CASE A # {}
  <2>1. PICK s \in A : TRUE
    BY <1>5
  <2>2. A = {s}
    BY <1>3, <2>1, OneLive
  <2>3. ~dbgRuntime
    BY <1>1, <1>3, <2>1 DEF Locked, Live, Launching, Unlocked, DebugSessions, NoDebug
  <2>4. Cardinality(A) = 1
    BY <2>2, FS_Singleton
  <2> QED
    BY <1>2, <2>3, <2>4 DEF OwnedOnce
<1> QED
  BY <1>4, <1>5

(***************************************************************************)
(* Whoever reads the stream, no report is lost, repeated or reordered, no  *)
(* call takes another's answer unless a request of the session had timed   *)
(* out, and between calls the recorded breakpoints are the target's.       *)
(***************************************************************************)
THEOREM FaithfulSession == DebugSpec => []SessionFaithful
<1>1. DebugInv => SessionFaithful
  BY FaithfulHere
<1> QED
  BY <1>1, DebugSound, PTL

(***************************************************************************)
(* At most one game process lives, outside a debugger stop.                *)
(***************************************************************************)
THEOREM OneOwnedProcess == DebugSpec => []OwnedOnce
<1>1. DebugInv => OwnedOnce
  BY OnceHere
<1> QED
  BY <1>1, DebugSound, PTL

=============================================================================
