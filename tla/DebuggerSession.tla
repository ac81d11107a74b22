---------------------------- MODULE DebuggerSession ----------------------------
(***************************************************************************)
(* The auxtools debugger of src/spaceman/debugger.rs and                   *)
(* src/tools/debugger.rs: one owned host process, one framed connection,   *)
(* the requests that share it under the slot's lock, the ring of events    *)
(* and the breakpoints the session believes are set.                       *)
(*                                                                         *)
(* The target (the host with the auxtools library) is external: it takes   *)
(* requests in order, answers each but CatchRuntimes once, late or never,  *)
(* reports events at any time and may exit.  What the code retains of an   *)
(* answer is its kind; the number of its request is kept beside it so that *)
(* a late answer can be told from the one that was asked for.              *)
(***************************************************************************)
EXTENDS Naturals, Sequences, FiniteSets

CONSTANTS Points,       \* instructions a breakpoint can be set on
          PointFile,    \* the source file of each of them
          DebugLaunches,\* bound: debugger launches that spawn a host
          MaxAsked,     \* bound: requests of each session before its last call
          MaxReports,   \* bound: events each target reports
          RingSize      \* ServerLimits.max_debug_events

ASSUME DebuggerAssumption ==
  /\ DebugLaunches \in Nat
  /\ MaxAsked \in [1 .. DebugLaunches -> Nat]
  /\ MaxReports \in [1 .. DebugLaunches -> Nat]
  /\ RingSize \in Nat \ {0}

DebugSessions == 1 .. DebugLaunches
NoDebug == 0

VARIABLES
  dbgSlot,   \* ServerState.debugger: the session in the slot
  dbgOp,     \* the call that holds the slot's lock
  dbgSes,    \* DebuggerSession and its AuxConnection
  dbgStream, \* frames the target wrote and nobody read yet
  dbgTarget, \* the target: its host process, requests it has not taken, breakpoints
  dbgStop,   \* dm_debug_stop of a session that left the slot
  dbgRuntime \* a DreamDaemon of dm_run or dm_tracy_launch runs

debugVars == <<dbgSlot, dbgOp, dbgSes, dbgStream, dbgTarget, dbgStop,
               dbgRuntime>>

\* Notification and BreakpointHit, whatever the reason.
IsReport(frame) == frame.kind = "report"

NoSession == [asked |-> 0, pending |-> <<>>, torn |-> FALSE,
              seq |-> 0, ring |-> <<>>, dropped |-> 0, active |-> {},
              recorded |-> <<>>, late |-> FALSE, stale |-> FALSE,
              broken |-> FALSE]
NoTarget == [host |-> "none", inbox |-> <<>>, points |-> {}, reports |-> 0]
NoDebugOp == [pc |-> "idle", ses |-> NoDebug, asked |-> 0, remove |-> {},
              resolve |-> {}, add |-> {}, point |-> {}, installed |-> {},
              after |-> 0, kinds |-> {}]

DebugInit ==
  /\ dbgSlot = NoDebug /\ dbgOp = NoDebugOp
  /\ dbgSes = [s \in DebugSessions |-> NoSession]
  /\ dbgStream = [s \in DebugSessions |-> <<>>]
  /\ dbgTarget = [s \in DebugSessions |-> NoTarget]
  /\ dbgStop = [s \in DebugSessions |-> "no"]
  /\ dbgRuntime = FALSE

Unlocked == dbgOp.pc = "idle"
Launching == dbgOp.pc \in {"accept", "stddef", "configure", "configured"}
S == dbgOp.ses   \* the session of the call that holds the lock

-----------------------------------------------------------------------------
(* AuxConnection: a request is a send and reads until an answer. *)

Write(s, kind, points) ==
  dbgTarget' = [dbgTarget EXCEPT ![s].inbox =
    Append(@, [kind |-> kind, points |-> points, number |-> dbgSes[s].asked + 1])]

\* From here the call waits for the answer of request op.asked.
Ask(s, op, kind, points) ==
  /\ Write(s, kind, points)
  /\ dbgSes' = [dbgSes EXCEPT ![s].asked = @ + 1]
  /\ dbgOp' = [op EXCEPT !.ses = s, !.asked = dbgSes[s].asked + 1, !.point = points]

Reading == dbgOp.pc \notin {"idle", "accept", "configure", "replace", "wait"}

\* What `let AuxResponse::X = response else` accepts in each call.
Expected == CASE dbgOp.pc \in {"configured", "control"} -> "ack"
              [] OTHER -> dbgOp.pc

\* What a dead host wrote is read first, then the end of the stream.
Closed == dbgTarget[S].host = "dead" /\ dbgStream[S] = <<>>

\* A call that fails or ends gives the lock back.
Unlock == dbgOp' = NoDebugOp
FailReplace(ses) == [ses EXCEPT !.broken =
                       @ \/ dbgOp.pc \in {"unset", "set"}]
KillHost(s) == [dbgTarget EXCEPT ![s].host = "dead", ![s].inbox = <<>>]
Gone == [NoTarget EXCEPT !.host = "dead"]

\* A launch that fails drops its connection and its host.
FailLaunch ==
  /\ dbgTarget' = [dbgTarget EXCEPT ![S] = Gone]
  /\ dbgSes' = [dbgSes EXCEPT ![S] = NoSession]
  /\ dbgStream' = [dbgStream EXCEPT ![S] = <<>>]

\* request(): an event met while reading an answer is kept for later ...
KeepReport(ses) == Append(ses.pending, Head(dbgStream[S]))
ReadReport ==
  /\ Reading /\ ~dbgSes[S].torn
  /\ dbgStream[S] # <<>> /\ IsReport(Head(dbgStream[S]))
  /\ dbgSes' = [dbgSes EXCEPT ![S].pending = KeepReport(dbgSes[S])]
  /\ dbgStream' = [dbgStream EXCEPT ![S] = Tail(@)]
  /\ UNCHANGED <<dbgSlot, dbgOp, dbgTarget, dbgStop, dbgRuntime>>

(***************************************************************************)
(* ... Disconnect, an I/O error, a bad length and a timeout fail the call. *)
(* A timeout finds no frame, or a frame whose head it has already taken    *)
(* off the stream: then the connection has lost its framing.               *)
(***************************************************************************)
TimedOut(ses) == [FailReplace(ses) EXCEPT
                    !.late = TRUE, !.torn = ses.torn \/ dbgStream[S] # <<>>]
ReadFails ==
  /\ Reading /\ ~Launching
  /\ \/ /\ dbgStream[S] # <<>> /\ Head(dbgStream[S]).kind = "disconnect"
        /\ ~dbgSes[S].torn
        /\ dbgStream' = [dbgStream EXCEPT ![S] = Tail(@)]
        /\ dbgSes' = [dbgSes EXCEPT ![S] = FailReplace(@)]
     \/ /\ dbgSes[S].torn \/ Closed
        /\ dbgSes' = [dbgSes EXCEPT ![S] = FailReplace(@)]
        /\ UNCHANGED dbgStream
     \/ /\ dbgSes' = [dbgSes EXCEPT ![S] = TimedOut(@)]
        /\ UNCHANGED dbgStream
  /\ Unlock
  /\ UNCHANGED <<dbgSlot, dbgTarget, dbgStop, dbgRuntime>>

(***************************************************************************)
(* The first frame that is no event is taken for the answer.  An answer of *)
(* another kind fails its call, except that of BreakpointSet, which is     *)
(* then only not verified.                                                 *)
(***************************************************************************)
Answer == Head(dbgStream[S])
AnswerTaken == /\ Reading /\ ~dbgSes[S].torn /\ dbgStream[S] # <<>>
               /\ ~IsReport(Answer) /\ Answer.kind # "disconnect"
Accepted == Answer.kind = Expected /\ (dbgOp.pc \in {"unset", "offset"} => Answer.ok)
Judged(ses) == [ses EXCEPT !.stale = @ \/ Answer.number # dbgOp.asked]

ReadRefused ==
  /\ AnswerTaken /\ ~Accepted /\ dbgOp.pc # "set" /\ ~Launching
  /\ dbgStream' = [dbgStream EXCEPT ![S] = Tail(@)]
  /\ dbgSes' = [dbgSes EXCEPT ![S] = FailReplace(Judged(@))]
  /\ Unlock
  /\ UNCHANGED <<dbgSlot, dbgTarget, dbgStop, dbgRuntime>>

\* Where a call goes on after an answer it accepts.
Continued ==
  CASE dbgOp.pc \in {"query", "control", "configured"} -> NoDebugOp
    [] dbgOp.pc = "stddef" -> [dbgOp EXCEPT !.pc = "configure"]
    [] dbgOp.pc = "offset" ->
         [dbgOp EXCEPT !.pc = "replace", !.resolve = @ \ dbgOp.point]
    [] dbgOp.pc = "unset" ->
         [dbgOp EXCEPT !.pc = "replace", !.remove = @ \ dbgOp.point]
    [] dbgOp.pc = "set" ->
         [dbgOp EXCEPT !.pc = "replace", !.add = @ \ dbgOp.point,
            !.installed = IF Accepted /\ Answer.ok THEN @ \cup dbgOp.point ELSE @]

ReadAnswer ==
  /\ AnswerTaken /\ (Accepted \/ dbgOp.pc = "set")
  /\ dbgStream' = [dbgStream EXCEPT ![S] = Tail(@)]
  /\ dbgSes' = [dbgSes EXCEPT ![S] = Judged(@)]
  /\ dbgOp' = Continued
  /\ dbgSlot' = IF dbgOp.pc = "configured" THEN S ELSE dbgSlot
  /\ UNCHANGED <<dbgTarget, dbgStop, dbgRuntime>>

-----------------------------------------------------------------------------
(* dm_debug_launch: `lifecycle` and the slot are held from the first check *)
(* to the last assignment, so a launch is the call that holds the lock.    *)

Unspawned == {s \in DebugSessions : dbgTarget[s].host = "none"}

MayLaunch == ~dbgRuntime /\ dbgSlot = NoDebug

DebugLaunch ==
  /\ Unlocked /\ MayLaunch
  /\ \E s \in Unspawned :
       /\ \A y \in Unspawned : s <= y
       /\ dbgTarget' = [dbgTarget EXCEPT ![s].host = "alive"]
       /\ dbgOp' = [NoDebugOp EXCEPT !.pc = "accept", !.ses = s]
  /\ UNCHANGED <<dbgSlot, dbgSes, dbgStream, dbgStop, dbgRuntime>>

Accept == /\ dbgOp.pc = "accept" /\ dbgTarget[S].host = "alive"
          /\ Ask(S, [dbgOp EXCEPT !.pc = "stddef"], "stddef", {})
          /\ UNCHANGED <<dbgSlot, dbgStream, dbgStop, dbgRuntime>>

Configure ==
  /\ dbgOp.pc = "configure"
  /\ Write(S, "configured", {})
  /\ dbgSes' = [dbgSes EXCEPT ![S].asked = @ + 1]
  /\ dbgOp' = [dbgOp EXCEPT !.pc = "configured", !.asked = dbgSes[S].asked + 1]
  /\ UNCHANGED <<dbgSlot, dbgStream, dbgStop, dbgRuntime>>

(***************************************************************************)
(* The host exits before it connects, the startup or an answer times out,  *)
(* or an answer is of another kind: the process is killed, or dies with    *)
(* its dropped handle.                                                     *)
(***************************************************************************)
LaunchLeavesHost ==                                             \* mutant
  /\ Launching /\ Unlock
  /\ UNCHANGED <<dbgSlot, dbgSes, dbgStream, dbgTarget, dbgStop, dbgRuntime>>
LaunchFails ==
  /\ Launching /\ FailLaunch /\ Unlock
  /\ UNCHANGED <<dbgSlot, dbgStop, dbgRuntime>>

\* dm_run and dm_tracy_launch look at the slot under `lifecycle`.
RunBeside ==
  /\ Unlocked /\ ~dbgRuntime /\ dbgSlot = NoDebug
  /\ dbgRuntime' = TRUE
  /\ UNCHANGED <<dbgSlot, dbgOp, dbgSes, dbgStream, dbgTarget, dbgStop>>

RunEnds ==
  /\ dbgRuntime /\ dbgRuntime' = FALSE
  /\ UNCHANGED <<dbgSlot, dbgOp, dbgSes, dbgStream, dbgTarget, dbgStop>>

-----------------------------------------------------------------------------
(* Calls on an installed session; each takes the slot's lock. *)

MayAsk == /\ Unlocked /\ dbgSlot # NoDebug
          /\ dbgSes[dbgSlot].asked < MaxAsked[dbgSlot]
Call(pc) == [NoDebugOp EXCEPT !.pc = pc, !.ses = dbgSlot]

\* A request nobody waits for.
Send(kind) ==
  /\ Write(dbgSlot, kind, {})
  /\ dbgSes' = [dbgSes EXCEPT ![dbgSlot].asked = @ + 1]
  /\ UNCHANGED dbgOp

\* threads, stack_trace, scopes, variables, evaluate
Query == /\ MayAsk /\ Ask(dbgSlot, Call("query"), "query", {})
         /\ UNCHANGED <<dbgSlot, dbgStream, dbgStop, dbgRuntime>>

\* pause, continue, step_in, step_over, step_out
Control == /\ MayAsk /\ Ask(dbgSlot, Call("control"), "control", {})
           /\ UNCHANGED <<dbgSlot, dbgStream, dbgStop, dbgRuntime>>

\* set_exception_breakpoints sends and reads nothing.
CatchRuntimes == /\ MayAsk /\ Send("catch")
                 /\ UNCHANGED <<dbgSlot, dbgStream, dbgStop, dbgRuntime>>

(***************************************************************************)
(* set_function_breakpoints names its instructions, set_breakpoints those  *)
(* of lines of one file, which the target resolves first.  Both replace    *)
(* the whole active set: what is not desired is unset one by one, what is  *)
(* desired set one by one, and the set recorded only at the end.  (A call  *)
(* whose snapshot is of another generation than the session is refused and *)
(* changes nothing: it is not a step.)                                     *)
(***************************************************************************)
AllFiles == {PointFile[p] : p \in Points}
InFile(f) == {p \in Points : PointFile[p] = f}
RemovedNone(desired) == {}                   \* mutant
Removed(desired) == dbgSes[dbgSlot].active \ desired
Replacement(desired, resolve) ==
  [Call("replace") EXCEPT !.resolve = resolve, !.add = desired,
                          !.remove = Removed(desired)]
SetFunctionBreakpoints(desired) ==
  /\ MayAsk
  /\ dbgOp' = Replacement(desired, {})
  /\ UNCHANGED <<dbgSlot, dbgSes, dbgStream, dbgTarget, dbgStop, dbgRuntime>>
SetBreakpoints(f, desired) ==
  /\ MayAsk
  /\ desired \subseteq InFile(f)
  /\ dbgOp' = Replacement(desired, desired)
  /\ UNCHANGED <<dbgSlot, dbgSes, dbgStream, dbgTarget, dbgStop, dbgRuntime>>

ReplaceNext ==
  /\ dbgOp.pc = "replace"
  /\ \/ \E p \in dbgOp.resolve : Ask(S, [dbgOp EXCEPT !.pc = "offset"], "offset", {p})
     \/ /\ dbgOp.resolve = {}
        /\ \E p \in dbgOp.remove : Ask(S, [dbgOp EXCEPT !.pc = "unset"], "unset", {p})
     \/ /\ dbgOp.resolve \cup dbgOp.remove = {}
        /\ \E p \in dbgOp.add : Ask(S, [dbgOp EXCEPT !.pc = "set"], "set", {p})
  /\ UNCHANGED <<dbgSlot, dbgStream, dbgStop, dbgRuntime>>

RecordActive ==
  /\ dbgOp.pc = "replace" /\ dbgOp.resolve \cup dbgOp.remove \cup dbgOp.add = {}
  /\ dbgSes' = [dbgSes EXCEPT ![S].active = dbgOp.installed]
  /\ Unlock
  /\ UNCHANGED <<dbgSlot, dbgStream, dbgTarget, dbgStop, dbgRuntime>>

-----------------------------------------------------------------------------
(* wait_for_event *)

Matches(event, op) == event.seq > op.after /\ event.kind \in op.kinds
Retained(op) == \E i \in 1 .. Len(dbgSes[op.ses].ring) : Matches(dbgSes[op.ses].ring[i], op)

\* A retained event answers at once and changes nothing.  A client asks for the
\* first event or for one after the last it knows.
WaitBegin(kinds) ==
  /\ Unlocked /\ dbgSlot # NoDebug
  /\ \E after \in {0, dbgSes[dbgSlot].seq} :
       /\ dbgOp' = [Call("wait") EXCEPT !.after = after, !.kinds = kinds]
       /\ ~Retained(dbgOp')
  /\ UNCHANGED <<dbgSlot, dbgSes, dbgStream, dbgTarget, dbgStop, dbgRuntime>>

\* debugger_event, and the ring that keeps the last RingSize of them.
Recorded(ses, frame) ==
  LET event == [seq |-> ses.seq + 1, kind |-> frame.kind]
      full == Len(ses.ring) >= RingSize
  IN [ses EXCEPT !.seq = @ + 1,
        !.ring = Append(IF full THEN Tail(@) ELSE @, event),
        !.dropped = IF full THEN @ + 1 ELSE @,
        !.recorded = IF IsReport(frame) THEN Append(@, frame) ELSE @]

\* next_event: the events that requests met come first.
NextEvent(ses) ==
  IF ses.pending # <<>> THEN Head(ses.pending) ELSE Head(dbgStream[S])

WaitReads ==
  /\ dbgOp.pc = "wait"
  /\ dbgSes[S].pending # <<>> \/ (dbgStream[S] # <<>> /\ ~dbgSes[S].torn)
  /\ LET ses == dbgSes[S]
         frame == NextEvent(ses)
         kept == ses.pending # <<>> /\ frame = Head(ses.pending)
         rest == IF kept THEN [ses EXCEPT !.pending = Tail(@)] ELSE ses
         event == IsReport(frame) \/ frame.kind = "disconnect"
     IN
       /\ dbgStream' = IF kept THEN dbgStream ELSE [dbgStream EXCEPT ![S] = Tail(@)]
       /\ dbgSes' = [dbgSes EXCEPT ![S] =
            IF event THEN Recorded(rest, frame) ELSE [rest EXCEPT !.seq = @ + 1]]
       /\ IF event /\ ~Matches([seq |-> ses.seq + 1, kind |-> frame.kind], dbgOp)
          THEN UNCHANGED dbgOp ELSE Unlock
  /\ UNCHANGED <<dbgSlot, dbgTarget, dbgStop, dbgRuntime>>

\* The deadline, which may find half a frame, or an error of the stream.
WaitEnds ==
  /\ dbgOp.pc = "wait"
  /\ \/ dbgSes' = [dbgSes EXCEPT ![S].torn = @ \/ dbgStream[S] # <<>>]
     \/ /\ dbgSes[S].torn \/ Closed
        /\ UNCHANGED dbgSes
  /\ dbgSes[S].pending = <<>>
  /\ Unlock
  /\ UNCHANGED <<dbgSlot, dbgStream, dbgTarget, dbgStop, dbgRuntime>>

-----------------------------------------------------------------------------
(* dm_debug_stop takes the session out of the slot, without `lifecycle`,   *)
(* and then disconnects, kills and waits outside the lock.  Of a session   *)
(* out of the slot only its connection still matters.                      *)

DebugStop ==
  /\ Unlocked /\ dbgSlot # NoDebug
  /\ dbgStop' = [dbgStop EXCEPT ![dbgSlot] = "asked"]
  /\ Write(dbgSlot, "disconnect", {})
  /\ dbgSes' = [dbgSes EXCEPT ![dbgSlot] = [NoSession EXCEPT !.torn = dbgSes[dbgSlot].torn]]
  /\ dbgSlot' = NoDebug
  /\ UNCHANGED <<dbgOp, dbgStream, dbgRuntime>>

\* disconnect(): events are skipped; any answer, error or timeout ends it.
StopSkips(s) ==
  /\ dbgStop[s] = "asked" /\ ~dbgSes[s].torn
  /\ dbgStream[s] # <<>> /\ IsReport(Head(dbgStream[s]))
  /\ dbgStream' = [dbgStream EXCEPT ![s] = Tail(@)]
  /\ UNCHANGED <<dbgSlot, dbgOp, dbgSes, dbgTarget, dbgStop, dbgRuntime>>
StopDisconnects(s) ==
  /\ dbgStop[s] = "asked"
  /\ dbgStop' = [dbgStop EXCEPT ![s] = "disconnected"]
  /\ UNCHANGED <<dbgSlot, dbgOp, dbgSes, dbgStream, dbgTarget, dbgRuntime>>
StopKills(s) ==
  /\ dbgStop[s] = "disconnected"
  /\ dbgStop' = [dbgStop EXCEPT ![s] = "done"]
  /\ dbgTarget' = [dbgTarget EXCEPT ![s] = Gone]
  /\ dbgStream' = [dbgStream EXCEPT ![s] = <<>>]
  /\ dbgSes' = [dbgSes EXCEPT ![s] = NoSession]
  /\ UNCHANGED <<dbgSlot, dbgOp, dbgRuntime>>

-----------------------------------------------------------------------------
(* The target. *)

Frame(kind, number, ok) == [kind |-> kind, number |-> number, ok |-> ok]
AnswerKind(kind) == IF kind \in {"configured", "control"} THEN "ack" ELSE kind

\* Offset may find nothing and a new breakpoint be refused; one that is set is
\* found again by BreakpointSet and by BreakpointUnset.
TargetTakes(s) ==
  /\ dbgTarget[s].host = "alive" /\ dbgTarget[s].inbox # <<>>
  /\ LET t == [dbgTarget[s] EXCEPT !.inbox = Tail(@)]
         ask == Head(dbgTarget[s].inbox)
         Reply(target, ok) ==
           /\ dbgTarget' = [dbgTarget EXCEPT ![s] = target]
           /\ dbgStream' = [dbgStream EXCEPT ![s] =
                Append(@, Frame(AnswerKind(ask.kind), ask.number, ok))]
     IN
       \/ ask.kind = "offset" /\ Reply(t, FALSE)
       \/ ask.kind = "set" /\ ~(ask.points \subseteq t.points) /\ Reply(t, FALSE)
       \/ ask.kind = "set" /\ Reply([t EXCEPT !.points = @ \cup ask.points], TRUE)
       \/ /\ ask.kind = "unset"
          /\ Reply([t EXCEPT !.points = @ \ ask.points], ask.points \subseteq t.points)
       \/ ask.kind \notin {"set", "unset", "catch"} /\ Reply(t, TRUE)
       \/ /\ ask.kind = "catch"
          /\ dbgTarget' = [dbgTarget EXCEPT ![s] = t]
          /\ UNCHANGED dbgStream
  /\ UNCHANGED <<dbgSlot, dbgOp, dbgSes, dbgStop, dbgRuntime>>

Connected(s) == ~(dbgOp.pc = "accept" /\ s = S)

TargetReports(s) ==
  /\ dbgTarget[s].host = "alive" /\ Connected(s)
  /\ dbgTarget[s].reports < MaxReports[s]
  /\ dbgTarget' = [dbgTarget EXCEPT ![s].reports = @ + 1]
  /\ dbgStream' = [dbgStream EXCEPT ![s] =
       Append(@, Frame("report", dbgTarget[s].reports + 1, TRUE))]
  /\ UNCHANGED <<dbgSlot, dbgOp, dbgSes, dbgStop, dbgRuntime>>

\* The host exits, with or without a Disconnect.
TargetExits(s) ==
  /\ dbgTarget[s].host = "alive"
  /\ dbgTarget' = KillHost(s)
  /\ \/ /\ Connected(s)
        /\ dbgStream' = [dbgStream EXCEPT ![s] = Append(@, Frame("disconnect", 0, TRUE))]
     \/ UNCHANGED dbgStream
  /\ UNCHANGED <<dbgSlot, dbgOp, dbgSes, dbgStop, dbgRuntime>>

-----------------------------------------------------------------------------
Begins ==
  \/ DebugLaunch \/ Query \/ Control \/ CatchRuntimes \/ DebugStop
  \/ \E desired \in SUBSET Points : SetFunctionBreakpoints(desired)
  \/ \E f \in AllFiles, desired \in SUBSET Points : SetBreakpoints(f, desired)
  \/ \E kinds \in {{"report", "disconnect"}, {"disconnect"}} : WaitBegin(kinds)
CallStep == ReadReport \/ ReadFails \/ ReadRefused \/ LaunchFails \/ ReadAnswer \/ Accept
            \/ Configure \/ ReplaceNext \/ RecordActive \/ WaitReads \/ WaitEnds
StopStep(s) == StopSkips(s) \/ StopDisconnects(s) \/ StopKills(s)
TargetStep(s) == TargetTakes(s) \/ TargetReports(s) \/ TargetExits(s)
DebugNext ==
  \/ Begins \/ CallStep \/ RunBeside \/ RunEnds
  \/ \E s \in DebugSessions : StopStep(s) \/ TargetStep(s)

DebugSpec == DebugInit /\ [][DebugNext]_debugVars

-----------------------------------------------------------------------------
(***************************************************************************)
(* No call loses, repeats or reorders what the target reports, whoever     *)
(* reads the stream: the reports recorded so far, those a request set      *)
(* aside and those still in the stream are all of them, in their order,    *)
(* and the ring with the count of dropped events accounts for the recorded *)
(* ones.  And a call takes an answer that is not its own only after a      *)
(* request of the session had timed out.                                   *)
(***************************************************************************)
EventsKept(s) ==
  LET ses == dbgSes[s]
      read == ses.recorded \o ses.pending
      stream == dbgStream[s]
      left == {i \in 1 .. Len(stream) : IsReport(stream[i])}
  IN /\ Len(read) <= dbgTarget[s].reports
     /\ \A i \in 1 .. Len(read) : read[i].number = i
     /\ {stream[i].number : i \in left} = Len(read) + 1 .. dbgTarget[s].reports
     /\ \A i, j \in left : i < j => stream[i].number < stream[j].number
     /\ Len(ses.ring) <= RingSize
     /\ Len(ses.ring) + ses.dropped \in {Len(ses.recorded), Len(ses.recorded) + 1}
OwnAnswers(s) == dbgSes[s].stale => dbgSes[s].late
ConnectionFaithful ==
  \A s \in {dbgSlot} \cap DebugSessions : EventsKept(s) /\ OwnAnswers(s)

(***************************************************************************)
(* Between calls the breakpoints the session has recorded are those of the *)
(* target, unless a request timed out or a replacement failed halfway.     *)
(***************************************************************************)
ActiveIsSet ==
  \A s \in {dbgSlot} \cap DebugSessions :
    (s # dbgOp.ses /\ ~dbgSes[s].late /\ ~dbgSes[s].broken)
      => dbgSes[s].active = dbgTarget[s].points

(***************************************************************************)
(* What the session tells of its target is so: both of them, for TLC.      *)
(***************************************************************************)
SessionFaithful == ConnectionFaithful /\ ActiveIsSet

(***************************************************************************)
(* At most one game process lives, outside a debugger stop: launches of    *)
(* either kind exclude each other, and a failed launch leaves no host.     *)
(***************************************************************************)
Hosts == {s \in DebugSessions : dbgTarget[s].host = "alive"}
OwnedOnce ==
  /\ \A s \in Hosts : s \in {dbgSlot, S} \/ dbgStop[s] # "no"
  /\ Cardinality({s \in Hosts : dbgStop[s] = "no"}) + (IF dbgRuntime THEN 1 ELSE 0) <= 1

(***************************************************************************)
(* Only one runtime can be active (README): violated while a stop that has *)
(* left the slot waits for its target and another launch begins.           *)
(***************************************************************************)
OneRuntime == Cardinality(Hosts) + (IF dbgRuntime THEN 1 ELSE 0) <= 1
================================================================================
