------------------------------ MODULE TracyHelper ------------------------------
(***************************************************************************)
(* TracyHelper: the session mode of the native helper.  The main loop      *)
(* reads one request at a time; a capture window runs in a thread of its   *)
(* own.  Both use one backend, whose worker drains the producer between    *)
(* the windows and records in them.  The session's mutex guards its state, *)
(* not the backend: a step that uses the backend lasts, and the state is   *)
(* read and written at its ends.                                           *)
(***************************************************************************)
EXTENDS Integers

CONSTANTS
  Windows,       \* requests capture_window
  MaxAttempts,   \* maximum_attach_attempts
  MaxWindows,    \* maximum_capture_count
  HelperFaults   \* subset of {"transient", "fatal", "health", "trace"}

ASSUME HelperConstants ==
  /\ MaxAttempts \in Nat \ {0} /\ MaxWindows \in Nat
  /\ HelperFaults \subseteq {"transient", "fatal", "health", "trace"}

VARIABLES
  hlpSession,   \* CollectorSession: what its mutex guards
  hlpWorker,    \* the backend's worker: "none", "broken", "drain" or "capture"
  hlpMain,      \* the main loop: step, attempt, whether its input has ended
  hlpWindow,    \* hlpWindow[w]: thread of a window: step, attempt, result
  hlpTouched,   \* a status has used the backend beside a window
  hlpOvertaken  \* a window has begun while stop waits for another

hlpVars == <<hlpSession, hlpWorker, hlpMain, hlpWindow, hlpTouched, hlpOvertaken>>

HelperInit ==
  /\ hlpSession = [phase |-> "stopped", active |-> FALSE, cancelled |-> FALSE,
                   attached |-> FALSE, count |-> 0, recovery |-> FALSE]
  /\ hlpWorker = "none"
  /\ hlpMain = [step |-> "read", attempt |-> 0, eof |-> FALSE]
  /\ hlpWindow = [w \in Windows |-> [step |-> "none", attempt |-> 0, result |-> "none"]]
  /\ hlpTouched = FALSE /\ hlpOvertaken = FALSE

Fault(kind) == {FALSE} \cup {(kind \in HelperFaults)}

WindowUses(w) ==
  hlpWindow[w].step \in {"detach", "attach", "window", "write", "release", "drain",
                         "health", "restore", "redrain", "rehealth"}
MainUses == hlpMain.step \in {"attach", "readiness", "detach"}

-----------------------------------------------------------------------------
(* CollectorSession::attach: one attempt.  What a failed one leaves of the *)
(* worker is detached before the next.                                     *)

Attached(purpose) ==
  /\ hlpWorker' = purpose
  /\ hlpSession' = [hlpSession EXCEPT !.attached = TRUE]

AttachFails(attempt, again) ==
  /\ hlpSession' = [hlpSession EXCEPT !.attached = FALSE]
  /\ \/ again /\ attempt < MaxAttempts /\ "transient" \in HelperFaults /\ hlpWorker' = "none"
     \/ /\ ~again /\ hlpWorker' = "broken"
        /\ "fatal" \in HelperFaults \/ ("transient" \in HelperFaults /\ attempt = MaxAttempts)

-----------------------------------------------------------------------------
(* CollectorSession::capture *)

Goes(w, step) == hlpWindow' = [hlpWindow EXCEPT ![w].step = step, ![w].attempt = 1]
Answers(w, result) ==
  hlpWindow' = [hlpWindow EXCEPT ![w] = [step |-> "answered", attempt |-> 0, result |-> result]]

WindowBegins(w) ==
  LET refused == \/ hlpSession.active \/ hlpSession.phase # "draining"
                 \/ hlpSession.count >= MaxWindows
  IN
  /\ hlpWindow[w].step = "asked"
  /\ \/ refused /\ Answers(w, "refused") /\ UNCHANGED <<hlpSession, hlpOvertaken>>
     \/ /\ ~refused /\ Goes(w, "detach")
        /\ hlpSession' = [hlpSession EXCEPT !.active = TRUE, !.cancelled = FALSE,
                                            !.phase = "connecting"]
        /\ hlpOvertaken' = (hlpOvertaken \/ hlpMain.step \in {"waiting", "detach"})
  /\ UNCHANGED <<hlpWorker, hlpMain, hlpTouched>>

AfterDetach == [detach |-> "attach", release |-> "drain", restore |-> "redrain"]

(* The drain worker goes, and the one of the window after it, or after an  *)
(* error in any step: restore_drain_worker.                                *)
Detaches(w) ==
  /\ hlpWindow[w].step \in {"detach", "release", "restore"}
  /\ hlpWorker' = "none"
  /\ hlpSession' = [hlpSession EXCEPT !.attached = FALSE,
       !.phase = IF hlpWindow[w].step = "detach" THEN @ ELSE "restoring"]
  /\ Goes(w, AfterDetach[hlpWindow[w].step])
  /\ UNCHANGED <<hlpMain, hlpTouched, hlpOvertaken>>

CaptureAttached(w) ==
  /\ hlpWindow[w].step = "attach" /\ Goes(w, "window")
  /\ hlpWorker' = "capture"
  /\ hlpSession' = [hlpSession EXCEPT !.attached = TRUE, !.phase = "capturing"]
  /\ UNCHANGED <<hlpMain, hlpTouched, hlpOvertaken>>

DrainAttached(w) ==
  /\ hlpWindow[w].step \in {"drain", "redrain"}
  /\ Goes(w, IF hlpWindow[w].step = "drain" THEN "health" ELSE "rehealth")
  /\ Attached("drain")
  /\ UNCHANGED <<hlpMain, hlpTouched, hlpOvertaken>>

AttachRetried(w) ==
  /\ hlpWindow[w].step \in {"attach", "drain", "redrain"}
  /\ AttachFails(hlpWindow[w].attempt, TRUE)
  /\ hlpWindow' = [hlpWindow EXCEPT ![w].attempt = IF @ < MaxAttempts THEN @ + 1 ELSE @]
  /\ UNCHANGED <<hlpMain, hlpTouched, hlpOvertaken>>

AttachFailed(w) ==
  /\ hlpWindow[w].step \in {"attach", "drain"}
  /\ AttachFails(hlpWindow[w].attempt, FALSE) /\ Goes(w, "restore")
  /\ UNCHANGED <<hlpMain, hlpTouched, hlpOvertaken>>

(* The window ends, is cancelled, or loses its client or its telemetry. *)
WindowEnds(w) ==
  /\ hlpWindow[w].step = "window"
  /\ \/ Goes(w, "write")
     \/ (hlpSession.cancelled \/ "health" \in HelperFaults) /\ Goes(w, "restore")
  /\ UNCHANGED <<hlpSession, hlpWorker, hlpMain, hlpTouched, hlpOvertaken>>

(* write_trace: what is not opened or too large is an error, what fails    *)
(* validate_capture is a result.                                           *)
TraceWritten(w) ==
  /\ hlpWindow[w].step = "write"
  /\ \/ /\ \E invalid \in Fault("trace") :
             hlpWindow' = [hlpWindow EXCEPT ![w].step = "release",
               ![w].result = IF invalid THEN "invalid" ELSE "valid"]
        /\ hlpSession' = [hlpSession EXCEPT !.phase = "validating"]
     \/ "trace" \in HelperFaults /\ Goes(w, "restore") /\ UNCHANGED hlpSession
  /\ UNCHANGED <<hlpWorker, hlpMain, hlpTouched, hlpOvertaken>>

(* wait_for_queue_health after the drain worker is back *)
HealthAwaited(w) ==
  /\ hlpWindow[w].step \in {"health", "rehealth"}
  /\ hlpSession' = [hlpSession EXCEPT !.active = FALSE, !.phase = "draining",
       !.count = IF hlpWindow[w].step = "health" THEN @ + 1 ELSE @]
  /\ Answers(w, IF hlpWindow[w].step = "health" THEN hlpWindow[w].result ELSE "recovered")
  /\ UNCHANGED <<hlpWorker, hlpMain, hlpTouched, hlpOvertaken>>

HealthMissed(w) ==
  /\ hlpWindow[w].step = "health" /\ "health" \in HelperFaults
  /\ Goes(w, "restore")
  /\ UNCHANGED <<hlpSession, hlpWorker, hlpMain, hlpTouched, hlpOvertaken>>

(* restore_drain_worker fails. *)
DrainLost ==
  [hlpSession EXCEPT !.active = FALSE, !.phase = "failed", !.recovery = TRUE]

RestoreFails(w) ==
  /\ \/ /\ hlpWindow[w].step = "redrain"
        /\ \/ "fatal" \in HelperFaults
           \/ "transient" \in HelperFaults /\ hlpWindow[w].attempt = MaxAttempts
        /\ hlpWorker' = "broken"
        /\ hlpSession' = [DrainLost EXCEPT !.attached = FALSE]
     \/ /\ hlpWindow[w].step = "rehealth" /\ "health" \in HelperFaults
        /\ hlpSession' = DrainLost
        /\ UNCHANGED hlpWorker
  /\ Answers(w, "lost")
  /\ UNCHANGED <<hlpMain, hlpTouched, hlpOvertaken>>

WindowSteps(w) ==
  \/ WindowBegins(w) \/ Detaches(w) \/ CaptureAttached(w) \/ DrainAttached(w)
  \/ AttachRetried(w) \/ AttachFailed(w) \/ WindowEnds(w) \/ TraceWritten(w)
  \/ HealthAwaited(w) \/ HealthMissed(w) \/ RestoreFails(w)

-----------------------------------------------------------------------------
(* run_session, CollectorSession::start, status, cancel and stop *)

MainAt(step) == hlpMain.step = step
MainGoes(step) == hlpMain' = [hlpMain EXCEPT !.step = step, !.attempt = 1]
\* After an answer the next request is read, after the end of the input none.
MainAnswers == MainGoes(IF hlpMain.eof THEN "join" ELSE "read")

StartBegins ==
  /\ MainAt("read") /\ hlpSession.phase = "stopped"
  /\ MainGoes("attach") /\ hlpSession' = [hlpSession EXCEPT !.phase = "starting"]
  /\ UNCHANGED <<hlpWorker, hlpWindow, hlpTouched, hlpOvertaken>>

StartAttaches ==
  /\ MainAt("attach")
  /\ \/ Attached("drain") /\ MainGoes("readiness")
     \/ /\ AttachFails(hlpMain.attempt, TRUE)
        /\ hlpMain' = [hlpMain EXCEPT !.attempt = IF @ < MaxAttempts THEN @ + 1 ELSE @]
     \/ /\ AttachFails(hlpMain.attempt, FALSE) /\ hlpMain' = [hlpMain EXCEPT !.step = "refuse"]
  /\ UNCHANGED <<hlpWindow, hlpTouched, hlpOvertaken>>

StartRefused ==
  /\ MainAt("refuse") /\ MainAnswers
  /\ hlpSession' = [hlpSession EXCEPT !.phase = "failed"]
  /\ UNCHANGED <<hlpWorker, hlpWindow, hlpTouched, hlpOvertaken>>

(* Progress and telemetry, or not: the worker goes, `attached` stays. *)
StartReady ==
  /\ MainAt("readiness") /\ MainAnswers
  /\ \/ /\ hlpSession' = [hlpSession EXCEPT !.phase = "draining"]
        /\ UNCHANGED hlpWorker
     \/ /\ "health" \in HelperFaults
        /\ hlpWorker' = "none" /\ hlpSession' = [hlpSession EXCEPT !.phase = "failed"]
  /\ UNCHANGED <<hlpWindow, hlpTouched, hlpOvertaken>>

WindowAsked(w) ==
  /\ MainAt("read") /\ hlpWindow[w].step = "none"
  /\ hlpWindow' = [hlpWindow EXCEPT ![w].step = "asked"]
  /\ UNCHANGED <<hlpSession, hlpWorker, hlpMain, hlpTouched, hlpOvertaken>>

(* slip: status asks the backend whoever uses it. *)
StatusAlways ==
  /\ MainAt("read")
  /\ hlpTouched' = (hlpTouched \/ (hlpSession.attached /\ \E w \in Windows : WindowUses(w)))
  /\ UNCHANGED <<hlpSession, hlpWorker, hlpMain, hlpWindow, hlpOvertaken>>

Status ==
  /\ MainAt("read")
  /\ hlpTouched' = (hlpTouched \/ (hlpSession.attached /\ ~hlpSession.active
                                    /\ \E w \in Windows : WindowUses(w)))
  /\ UNCHANGED <<hlpSession, hlpWorker, hlpMain, hlpWindow, hlpOvertaken>>

Cancel ==
  /\ MainAt("read") /\ hlpSession.active
  /\ hlpSession' = [hlpSession EXCEPT !.cancelled = TRUE]
  /\ UNCHANGED <<hlpWorker, hlpMain, hlpWindow, hlpTouched, hlpOvertaken>>

(* session_stop, or the end of the input *)
StopAsked ==
  /\ MainAt("read")
  /\ \E eof \in BOOLEAN :
       LET step == IF hlpSession.phase # "stopped" THEN "waiting"
                   ELSE IF eof THEN "join" ELSE "read"
       IN hlpMain' = [step |-> step, attempt |-> 1, eof |-> eof]
  /\ hlpSession' = IF hlpSession.phase = "stopped" THEN hlpSession
       ELSE [hlpSession EXCEPT !.phase = "stopping", !.cancelled = TRUE]
  /\ UNCHANGED <<hlpWorker, hlpWindow, hlpTouched, hlpOvertaken>>

StopWaits ==
  /\ MainAt("waiting")
  /\ \/ ~hlpSession.active /\ MainGoes("detach") /\ UNCHANGED hlpSession
     \/ /\ hlpSession.active /\ MainAnswers
        /\ hlpSession' = [hlpSession EXCEPT !.phase = "failed"]
  /\ UNCHANGED <<hlpWorker, hlpWindow, hlpTouched, hlpOvertaken>>

StopDetaches ==
  /\ MainAt("detach") /\ MainAnswers
  /\ hlpWorker' = "none"
  /\ hlpSession' = [hlpSession EXCEPT !.attached = FALSE, !.phase = "stopped"]
  /\ UNCHANGED <<hlpWindow, hlpTouched, hlpOvertaken>>

(* Every thread is joined before the process ends. *)
Exits ==
  /\ MainAt("join") /\ \A w \in Windows : hlpWindow[w].step \in {"none", "answered"}
  /\ MainGoes("exited")
  /\ UNCHANGED <<hlpSession, hlpWorker, hlpWindow, hlpTouched, hlpOvertaken>>

MainSteps ==
  StartAttaches \/ StartRefused \/ StartReady \/ StopWaits \/ StopDetaches \/ Exits

HelperNext ==
  \/ MainSteps \/ StartBegins \/ Status \/ Cancel \/ StopAsked
  \/ \E w \in Windows : WindowAsked(w) \/ WindowSteps(w)

(* Every thread runs; what it waits for in the backend has a deadline. *)
HelperFairness ==
  /\ WF_hlpVars(MainSteps)
  /\ \A w \in Windows : WF_hlpVars(WindowSteps(w))

-----------------------------------------------------------------------------
(* Properties *)

(* Two threads never use the backend at once, which no mutex guards: not    *)
(* two windows, nor a window and start, status or stop.  The one exception  *)
(* is a second window whose thread begins while stop waits for the first:   *)
(* the first one sets the phase back to draining (collector.cpp:137).  *)
BackendOwned ==
  ~hlpOvertaken =>
    /\ ~hlpTouched
    /\ \A v, w \in Windows : WindowUses(v) /\ WindowUses(w) => v = w
    /\ \A w \in Windows : ~(MainUses /\ WindowUses(w))

(* A session that says it drains has a worker that drains, whatever failed  *)
(* and was restored, unless stop has just taken it: the producer's queue is *)
(* never left to fill unnoticed (restore_drain_worker).                     *)
DrainHeld ==
  hlpSession.phase = "draining" /\ ~hlpSession.active /\ ~hlpOvertaken =>
    hlpWorker = "drain" /\ hlpSession.attached

(* At the end of its input the helper stops, answers what it was asked and  *)
(* ends, although a window is under way and its stop has timed out.         *)
HelperEnds == hlpMain.eof ~> hlpMain.step = "exited"
=============================================================================
