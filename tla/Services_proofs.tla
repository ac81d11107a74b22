-------------------------- MODULE Services_proofs --------------------------
(***************************************************************************)
(* What TLAPS proves of the services that keep a process: the native       *)
(* helper's session (ProducerDrained), and a tool's process, the owner of  *)
(* a runtime and the collector's supervisor (ProcessesReleased), for any   *)
(* number of windows, streams, bytes and stops, every limit and all faults *)
(* at once.  Each service has an inductive invariant of its own, proved    *)
(* over its own steps; the last section puts them under ServicesSpec.      *)
(***************************************************************************)
EXTENDS MCServices, SequenceTheorems, TLAPS

-----------------------------------------------------------------------------
(* The native helper                                                         *)

(* The steps of a window's thread that use the backend.                      *)
Using == {"detach", "attach", "window", "write", "release", "drain", "health", "restore",
          "redrain", "rehealth"}

Phases == {"stopped", "starting", "draining", "connecting", "capturing", "validating",
           "restoring", "stopping", "failed"}
MainLabels == {"read", "attach", "refuse", "readiness", "waiting", "detach", "join",
               "exited"}
Results == {"none", "refused", "valid", "invalid", "recovered", "lost"}

SessionRecord == [phase : Phases, active : BOOLEAN, cancelled : BOOLEAN,
                  attached : BOOLEAN, count : Int, recovery : BOOLEAN]
MainRecord == [step : MainLabels, attempt : Int, eof : BOOLEAN]
WindowRecord == [step : Using \cup {"none", "asked", "answered"}, attempt : Int,
                 result : Results]

SessionTypeOK ==
  /\ hlpSession \in SessionRecord
  /\ hlpMain \in MainRecord
  /\ hlpWindow \in [Windows -> WindowRecord]

(* The session is active for exactly the one window that uses the backend.   *)
OneUser ==
  /\ \A w \in Windows : WindowUses(w) => hlpSession.active
  /\ \A v, w \in Windows : WindowUses(v) /\ WindowUses(w) => v = w

(* What start, stop and a window leave of the phase and the worker, as long  *)
(* as no window has overtaken a stop.                                        *)
MainApart ==
  ~hlpOvertaken =>
    /\ hlpSession.active => hlpSession.phase \notin {"stopped", "starting", "draining"}
    /\ hlpMain.step \in {"attach", "readiness", "refuse"} => hlpSession.phase = "starting"
    /\ hlpMain.step = "detach" => ~hlpSession.active
    /\ hlpMain.step = "readiness" => hlpWorker = "drain" /\ hlpSession.attached
    /\ \A w \in Windows : hlpWindow[w].step \in {"health", "rehealth"} =>
                            hlpWorker = "drain" /\ hlpSession.attached

HelperInv == SessionTypeOK /\ OneUser /\ MainApart /\ ~hlpTouched /\ DrainHeld

LEMMA HelperStarts == HelperInit => HelperInv
BY DEF HelperInit, HelperInv, SessionTypeOK, OneUser, MainApart, DrainHeld, WindowUses,
       Using, SessionRecord, MainRecord, WindowRecord, Phases, MainLabels, Results

(* The thread of w moves alone, to the given label.                          *)
WindowAt(w, label) ==
  /\ hlpWindow' \in [Windows -> WindowRecord]
  /\ hlpWindow'[w].step = label
  /\ \A v \in Windows : v # w => hlpWindow'[v] = hlpWindow[v]

LEMMA Restarted ==
  ASSUME NEW old \in WindowRecord, NEW label \in Using
  PROVE  /\ [old EXCEPT !.step = label, !.attempt = 1] \in WindowRecord
         /\ [old EXCEPT !.step = label, !.attempt = 1].step = label
<1> DEFINE mid == [old EXCEPT !.step = label]
<1>1. mid \in WindowRecord /\ mid.step = label
  BY DEF WindowRecord
<1>2. [old EXCEPT !.step = label, !.attempt = 1] = [mid EXCEPT !.attempt = 1]
  OBVIOUS
<1> HIDE DEF mid
<1>3. [mid EXCEPT !.attempt = 1] \in WindowRecord /\ [mid EXCEPT !.attempt = 1].step = label
  BY <1>1 DEF WindowRecord
<1> QED
  BY <1>2, <1>3

LEMMA GoesAlone ==
  ASSUME SessionTypeOK, NEW w \in Windows, NEW label \in Using, Goes(w, label)
  PROVE  WindowAt(w, label)
<1> DEFINE d == [hlpWindow[w] EXCEPT !.step = label, !.attempt = 1]
<1>1. hlpWindow' = [hlpWindow EXCEPT ![w] = d]
  BY DEF Goes, SessionTypeOK
<1>2. hlpWindow[w] \in WindowRecord
  BY DEF SessionTypeOK
<1>4. d \in WindowRecord /\ d.step = label
  BY <1>2, Restarted
<1> HIDE DEF d
<1> QED
  BY <1>1, <1>4 DEF SessionTypeOK, WindowAt

LEMMA AnswersAlone ==
  ASSUME SessionTypeOK, NEW w \in Windows, NEW answer \in Results, Answers(w, answer)
  PROVE  WindowAt(w, "answered")
<1>1. [step |-> "answered", attempt |-> 0, result |-> answer] \in WindowRecord
  BY DEF WindowRecord
<1> QED
  BY <1>1 DEF SessionTypeOK, Answers, WindowAt

(* What a step does to the session, and to the label of the main loop.        *)
SessionAt(phase, active, attached) ==
  /\ hlpSession' \in SessionRecord
  /\ hlpSession'.phase = phase /\ hlpSession'.active = active
  /\ hlpSession'.attached = attached

LEMMA PhaseSet ==
  ASSUME SessionTypeOK, NEW phase \in Phases,
         hlpSession' = [hlpSession EXCEPT !.phase = phase]
  PROVE  SessionAt(phase, hlpSession.active, hlpSession.attached)
BY DEF SessionTypeOK, SessionRecord, SessionAt

LEMMA AttachedSet ==
  ASSUME SessionTypeOK, NEW attached \in BOOLEAN,
         hlpSession' = [hlpSession EXCEPT !.attached = attached]
  PROVE  SessionAt(hlpSession.phase, hlpSession.active, attached)
BY DEF SessionTypeOK, SessionRecord, SessionAt

LEMMA SessionKept ==
  ASSUME SessionTypeOK, hlpSession' = hlpSession
  PROVE  SessionAt(hlpSession.phase, hlpSession.active, hlpSession.attached)
BY DEF SessionTypeOK, SessionAt

MainNow(label) == hlpMain' \in MainRecord /\ hlpMain'.step = label

LEMMA MainGone ==
  ASSUME SessionTypeOK, NEW label \in MainLabels, MainGoes(label)
  PROVE  MainNow(label)
<1>1. hlpMain' = [step |-> label, attempt |-> 1, eof |-> hlpMain.eof]
  BY DEF SessionTypeOK, MainRecord, MainGoes
<1> QED
  BY <1>1 DEF SessionTypeOK, MainRecord, MainNow

LEMMA MainAnswered ==
  ASSUME SessionTypeOK, MainAnswers
  PROVE  MainNow("read") \/ MainNow("join")
BY MainGone DEF MainAnswers, MainLabels

(* A window that uses the backend keeps using it or answers; the main loop   *)
(* is then elsewhere, unless a stop was overtaken.                           *)
LEMMA WindowFrame ==
  ASSUME HelperInv, NEW w \in Windows, WindowUses(w),
         NEW label \in Using \cup {"answered"}, WindowAt(w, label),
         UNCHANGED <<hlpMain, hlpTouched, hlpOvertaken>>,
         hlpSession' \in SessionRecord,
         hlpSession'.active = (label # "answered"),
         label # "answered" /\ hlpSession.phase \notin {"stopped", "starting", "draining"} =>
           hlpSession'.phase \notin {"stopped", "starting", "draining"},
         label \in {"health", "rehealth"} => hlpWorker' = "drain" /\ hlpSession'.attached,
         label = "answered" /\ ~hlpOvertaken /\ hlpSession'.phase = "draining" =>
           hlpWorker' = "drain" /\ hlpSession'.attached
  PROVE  HelperInv'
<1>1. hlpSession.active /\ \A v \in Windows : v # w => ~WindowUses(v)
  BY DEF HelperInv, OneUser
<1>2. \A v \in Windows : v # w => WindowUses(v)' = WindowUses(v)
  BY DEF WindowAt, WindowUses
<1>3. WindowUses(w)' <=> label # "answered"
  BY DEF WindowAt, WindowUses, Using
<1>4. OneUser'
  BY <1>1, <1>2, <1>3 DEF OneUser
<1>5. ~hlpOvertaken => /\ hlpSession.phase \notin {"stopped", "starting", "draining"}
                      /\ hlpMain.step \notin {"attach", "readiness", "refuse", "detach"}
  BY <1>1 DEF HelperInv, MainApart
<1>6. MainApart'
  BY <1>1, <1>2, <1>5 DEF MainApart, WindowAt, WindowUses
<1>7. DrainHeld'
  BY <1>5 DEF DrainHeld
<1> QED
  BY <1>4, <1>6, <1>7 DEF HelperInv, SessionTypeOK, WindowAt

(* A step of the main loop leaves the windows alone, and an active session    *)
(* to its window.                                                             *)
LEMMA MainFrame ==
  ASSUME HelperInv, hlpWindow' = hlpWindow, hlpOvertaken' = hlpOvertaken, ~hlpTouched',
         NEW phase, NEW attached, SessionAt(phase, hlpSession.active, attached),
         NEW label, MainNow(label),
         ~hlpOvertaken =>
           /\ hlpSession.active =>
                /\ phase \notin {"stopped", "starting", "draining"}
                /\ attached = hlpSession.attached /\ hlpWorker' = hlpWorker
           /\ label \in {"attach", "readiness", "refuse"} => phase = "starting"
           /\ label = "detach" => ~hlpSession.active
           /\ label = "readiness" => hlpWorker' = "drain" /\ attached
           /\ ~hlpSession.active /\ phase = "draining" => hlpWorker' = "drain" /\ attached
  PROVE  HelperInv'
<1>1. SessionTypeOK'
  BY DEF HelperInv, SessionTypeOK, SessionAt, MainNow
<1>2. \A w \in Windows : WindowUses(w)' = WindowUses(w)
  BY DEF WindowUses
<1>3. OneUser'
  BY <1>2 DEF HelperInv, OneUser, SessionAt
<1>4. \A w \in Windows : hlpWindow[w].step \in {"health", "rehealth"} => hlpSession.active
  BY DEF HelperInv, OneUser, WindowUses
<1>5. MainApart'
  BY <1>4 DEF HelperInv, MainApart, SessionAt, MainNow
<1>6. DrainHeld'
  BY DEF DrainHeld, SessionAt
<1> QED
  BY <1>1, <1>3, <1>5, <1>6 DEF HelperInv

LEMMA HelperStep == HelperInv /\ [HelperNext]_hlpVars => HelperInv'
<1> SUFFICES ASSUME HelperInv, [HelperNext]_hlpVars PROVE HelperInv'
  OBVIOUS
<1>0. SessionTypeOK /\ OneUser /\ MainApart /\ ~hlpTouched /\ DrainHeld
  BY DEF HelperInv
<1>1. ASSUME NEW w \in Windows, WindowSteps(w) PROVE HelperInv'
  <2>1. CASE WindowBegins(w)
    <3>1. CASE Answers(w, "refused") /\ UNCHANGED <<hlpSession, hlpOvertaken>>
      <4>1. WindowAt(w, "answered")
        BY <1>0, <3>1, AnswersAlone DEF Results
      <4>2. \A v \in Windows : WindowUses(v)' = WindowUses(v)
        BY <2>1, <4>1 DEF WindowBegins, WindowAt, WindowUses
      <4>3. \A v \in Windows : hlpWindow'[v].step \in {"health", "rehealth"} =>
                                 hlpWindow[v].step \in {"health", "rehealth"}
        BY <4>1 DEF WindowAt
      <4> QED
        BY <1>0, <2>1, <3>1, <4>1, <4>2, <4>3
        DEF WindowBegins, HelperInv, SessionTypeOK, OneUser, MainApart, DrainHeld,
            WindowAt
    <3>2. CASE /\ Goes(w, "detach") /\ ~hlpSession.active /\ hlpSession.phase = "draining"
               /\ hlpSession' = [hlpSession EXCEPT !.active = TRUE, !.cancelled = FALSE,
                                                   !.phase = "connecting"]
               /\ hlpOvertaken' = (hlpOvertaken \/ hlpMain.step \in {"waiting", "detach"})
      <4>1. WindowAt(w, "detach")
        BY <1>0, <3>2, GoesAlone DEF Using
      <4>2. /\ hlpSession' \in SessionRecord /\ hlpSession'.active
            /\ hlpSession'.phase = "connecting"
        BY <1>0, <3>2 DEF SessionTypeOK, SessionRecord, Phases
      <4>3. \A v \in Windows : ~WindowUses(v)
        BY <1>0, <3>2 DEF OneUser
      <4>4. \A v \in Windows : WindowUses(v)' => v = w
        BY <4>1, <4>3 DEF WindowAt, WindowUses
      <4>5. OneUser'
        BY <4>2, <4>4 DEF OneUser
      <4>6. ~hlpOvertaken' => ~hlpOvertaken /\ hlpMain.step \notin {"waiting", "detach"}
        BY <2>1, <3>2 DEF WindowBegins
      <4>7. MainApart'
        BY <1>0, <2>1, <3>2, <4>1, <4>2, <4>4, <4>6
        DEF WindowBegins, MainApart, WindowAt, WindowUses
      <4> QED
        BY <1>0, <2>1, <4>1, <4>2, <4>5, <4>7
        DEF WindowBegins, HelperInv, SessionTypeOK, DrainHeld, WindowAt
    <3> QED
      BY <2>1, <3>1, <3>2 DEF WindowBegins
  <2>2. CASE Detaches(w)
    <3>1. CASE hlpWindow[w].step = "detach"
      <4>1. WindowAt(w, "attach") /\ WindowUses(w)
        BY <1>0, <2>2, <3>1, GoesAlone DEF Detaches, AfterDetach, Using, WindowUses
      <4>2. /\ hlpSession' \in SessionRecord /\ hlpSession'.active = hlpSession.active
            /\ hlpSession'.phase = hlpSession.phase
        BY <1>0, <2>2, <3>1 DEF Detaches, SessionTypeOK, SessionRecord
      <4> QED
        BY <1>0, <2>2, <4>1, <4>2, WindowFrame DEF Detaches, Using, OneUser
    <3>2. CASE hlpWindow[w].step \in {"release", "restore"}
      <4>1. WindowUses(w) /\ (WindowAt(w, "drain") \/ WindowAt(w, "redrain"))
        BY <1>0, <2>2, <3>2, GoesAlone DEF Detaches, AfterDetach, Using, WindowUses
      <4>2. /\ hlpSession' \in SessionRecord /\ hlpSession'.active = hlpSession.active
            /\ hlpSession'.phase = "restoring"
        BY <1>0, <2>2, <3>2 DEF Detaches, SessionTypeOK, SessionRecord, Phases
      <4> QED
        BY <1>0, <2>2, <4>1, <4>2, WindowFrame DEF Detaches, Using, OneUser
    <3> QED
      BY <2>2, <3>1, <3>2 DEF Detaches
  <2>3. CASE CaptureAttached(w)
    <3>1. WindowUses(w) /\ WindowAt(w, "window")
      BY <1>0, <2>3, GoesAlone DEF CaptureAttached, Using, WindowUses
    <3>2. /\ hlpSession' \in SessionRecord /\ hlpSession'.active = hlpSession.active
          /\ hlpSession'.phase = "capturing"
      BY <1>0, <2>3 DEF CaptureAttached, SessionTypeOK, SessionRecord, Phases
    <3> QED
      BY <1>0, <2>3, <3>1, <3>2, WindowFrame DEF CaptureAttached, Using, OneUser
  <2>4. CASE DrainAttached(w)
    <3>1. WindowUses(w) /\ (WindowAt(w, "health") \/ WindowAt(w, "rehealth"))
      BY <1>0, <2>4, GoesAlone DEF DrainAttached, Using, WindowUses
    <3>2. /\ hlpSession' \in SessionRecord /\ hlpSession'.active = hlpSession.active
          /\ hlpSession'.phase = hlpSession.phase /\ hlpSession'.attached
          /\ hlpWorker' = "drain"
      BY <1>0, <2>4 DEF DrainAttached, Attached, SessionTypeOK, SessionRecord
    <3> QED
      BY <1>0, <2>4, <3>1, <3>2, WindowFrame DEF DrainAttached, Using, OneUser
  <2>5. CASE AttachRetried(w)
    <3> DEFINE again == IF hlpWindow[w].attempt < MaxAttempts
                        THEN hlpWindow[w].attempt + 1 ELSE hlpWindow[w].attempt
               d == [hlpWindow[w] EXCEPT !.attempt = again]
    <3>1. hlpWindow' = [hlpWindow EXCEPT ![w] = d]
      BY <2>5 DEF AttachRetried
    <3>2. d \in WindowRecord /\ d.step = hlpWindow[w].step
      BY <1>0 DEF SessionTypeOK, WindowRecord
    <3> HIDE DEF d
    <3>3. WindowUses(w) /\ WindowAt(w, hlpWindow[w].step)
      BY <1>0, <2>5, <3>1, <3>2 DEF AttachRetried, SessionTypeOK, WindowAt, WindowUses
    <3>4. /\ hlpSession' \in SessionRecord /\ hlpSession'.active = hlpSession.active
          /\ hlpSession'.phase = hlpSession.phase
      BY <1>0, <2>5 DEF AttachRetried, AttachFails, SessionTypeOK, SessionRecord
    <3>5. hlpWindow[w].step \in {"attach", "drain", "redrain"}
      BY <2>5 DEF AttachRetried
    <3> QED
      BY <1>0, <2>5, <3>3, <3>4, <3>5, WindowFrame DEF AttachRetried, Using, OneUser
  <2>6. CASE AttachFailed(w)
    <3>1. WindowUses(w) /\ WindowAt(w, "restore")
      BY <1>0, <2>6, GoesAlone DEF AttachFailed, Using, WindowUses
    <3>2. /\ hlpSession' \in SessionRecord /\ hlpSession'.active = hlpSession.active
          /\ hlpSession'.phase = hlpSession.phase
      BY <1>0, <2>6 DEF AttachFailed, AttachFails, SessionTypeOK, SessionRecord
    <3> QED
      BY <1>0, <2>6, <3>1, <3>2, WindowFrame DEF AttachFailed, Using, OneUser
  <2>7. CASE WindowEnds(w)
    <3>1. WindowUses(w) /\ (WindowAt(w, "write") \/ WindowAt(w, "restore"))
      BY <1>0, <2>7, GoesAlone DEF WindowEnds, Using, WindowUses
    <3> QED
      BY <1>0, <2>7, <3>1, WindowFrame DEF WindowEnds, Using, OneUser, SessionTypeOK
  <2>8. CASE TraceWritten(w)
    <3>1. CASE /\ \E invalid \in Fault("trace") :
                    hlpWindow' = [hlpWindow EXCEPT ![w].step = "release",
                      ![w].result = IF invalid THEN "invalid" ELSE "valid"]
               /\ hlpSession' = [hlpSession EXCEPT !.phase = "validating"]
      <4>1. PICK answer \in {"invalid", "valid"} :
              hlpWindow' = [hlpWindow EXCEPT ![w].step = "release", ![w].result = answer]
        BY <3>1
      <4> DEFINE d == [hlpWindow[w] EXCEPT !.step = "release", !.result = answer]
      <4>6. hlpWindow[w] \in WindowRecord
        BY <1>0 DEF SessionTypeOK
      <4>2. hlpWindow' = [hlpWindow EXCEPT ![w] = d]
        BY <4>1
      <4>3. d \in WindowRecord /\ d.step = "release"
        BY <4>6 DEF WindowRecord, Using, Results
      <4> HIDE DEF d
      <4>4. WindowUses(w) /\ WindowAt(w, "release")
        BY <1>0, <2>8, <4>2, <4>3
        DEF TraceWritten, SessionTypeOK, WindowAt, WindowUses
      <4>5. /\ hlpSession' \in SessionRecord /\ hlpSession'.active = hlpSession.active
            /\ hlpSession'.phase = "validating"
        BY <1>0, <3>1 DEF SessionTypeOK, SessionRecord, Phases
      <4> QED
        BY <1>0, <2>8, <4>4, <4>5, WindowFrame DEF TraceWritten, Using, OneUser
    <3>2. CASE Goes(w, "restore") /\ UNCHANGED hlpSession
      <4>1. WindowUses(w) /\ WindowAt(w, "restore")
        BY <1>0, <2>8, <3>2, GoesAlone DEF TraceWritten, Using, WindowUses
      <4> QED
        BY <1>0, <2>8, <3>2, <4>1, WindowFrame
        DEF TraceWritten, Using, OneUser, SessionTypeOK
    <3> QED
      BY <2>8, <3>1, <3>2 DEF TraceWritten
  <2>9. CASE HealthAwaited(w)
    <3>1. hlpWindow[w].result \in Results /\ "recovered" \in Results
      BY <1>0 DEF SessionTypeOK, WindowRecord, Results
    <3>2. WindowUses(w) /\ WindowAt(w, "answered")
      BY <1>0, <2>9, <3>1, AnswersAlone DEF HealthAwaited, WindowUses
    <3> DEFINE count == IF hlpWindow[w].step = "health" THEN hlpSession.count + 1
                        ELSE hlpSession.count
    <3>5. hlpSession' = [hlpSession EXCEPT !.active = FALSE, !.phase = "draining",
                                           !.count = count]
      BY <2>9 DEF HealthAwaited
    <3>6. count \in Int
      BY <1>0 DEF SessionTypeOK, SessionRecord
    <3> HIDE DEF count
    <3>3. /\ hlpSession' \in SessionRecord /\ hlpSession'.active = FALSE
          /\ hlpSession'.phase = "draining" /\ hlpSession'.attached = hlpSession.attached
      BY <1>0, <3>5, <3>6 DEF SessionTypeOK, SessionRecord, Phases
    <3>4. ~hlpOvertaken => hlpWorker = "drain" /\ hlpSession.attached
      BY <1>0, <2>9 DEF HealthAwaited, MainApart
    <3>7. UNCHANGED <<hlpWorker, hlpMain, hlpTouched, hlpOvertaken>>
      BY <2>9 DEF HealthAwaited
    <3> QED
      BY <3>2, <3>3, <3>4, <3>7, WindowFrame
  <2>10. CASE HealthMissed(w)
    <3>1. WindowUses(w) /\ WindowAt(w, "restore")
      BY <1>0, <2>10, GoesAlone DEF HealthMissed, Using, WindowUses
    <3> QED
      BY <1>0, <2>10, <3>1, WindowFrame
      DEF HealthMissed, Using, OneUser, SessionTypeOK
  <2>11. CASE RestoreFails(w)
    <3>1. WindowUses(w) /\ WindowAt(w, "answered")
      BY <1>0, <2>11, AnswersAlone DEF RestoreFails, WindowUses, Results
    <3>2. DrainLost \in SessionRecord /\ ~DrainLost.active /\ DrainLost.phase = "failed"
      BY <1>0 DEF DrainLost, SessionTypeOK, SessionRecord, Phases
    <3>3. /\ hlpSession' \in SessionRecord /\ hlpSession'.active = FALSE
          /\ hlpSession'.phase = "failed"
      BY <2>11, <3>2 DEF RestoreFails, SessionRecord
    <3> QED
      BY <1>0, <2>11, <3>1, <3>3, WindowFrame DEF RestoreFails
  <2> QED
    BY <1>1, <2>1, <2>2, <2>3, <2>4, <2>5, <2>6, <2>7, <2>8, <2>9, <2>10, <2>11
    DEF WindowSteps
<1>2. ASSUME NEW w \in Windows, WindowAsked(w) PROVE HelperInv'
  <2> DEFINE d == [hlpWindow[w] EXCEPT !.step = "asked"]
  <2>1. hlpWindow' = [hlpWindow EXCEPT ![w] = d]
    BY <1>2 DEF WindowAsked
  <2>2. d \in WindowRecord /\ d.step = "asked"
    BY <1>0 DEF SessionTypeOK, WindowRecord
  <2> HIDE DEF d
  <2>3. WindowAt(w, "asked")
    BY <1>0, <2>1, <2>2 DEF SessionTypeOK, WindowAt
  <2>4. \A v \in Windows : WindowUses(v)' = WindowUses(v)
    BY <1>2, <2>3 DEF WindowAsked, WindowAt, WindowUses
  <2>5. \A v \in Windows : hlpWindow'[v].step \in {"health", "rehealth"} =>
                             hlpWindow[v].step \in {"health", "rehealth"}
    BY <2>3 DEF WindowAt
  <2> QED
    BY <1>0, <1>2, <2>3, <2>4, <2>5
    DEF WindowAsked, HelperInv, SessionTypeOK, OneUser, MainApart, DrainHeld, WindowAt
<1>3. CASE StartBegins
  <2>1. SessionAt("starting", hlpSession.active, hlpSession.attached)
    BY <1>0, <1>3, PhaseSet DEF StartBegins, Phases
  <2>2. MainNow("attach")
    BY <1>0, <1>3, MainGone DEF StartBegins, MainLabels
  <2>3. ~hlpOvertaken => ~hlpSession.active
    BY <1>0, <1>3 DEF StartBegins, MainApart
  <2> QED
    BY <1>0, <1>3, <2>1, <2>2, <2>3, MainFrame DEF StartBegins
<1>4. CASE StartAttaches
  <2>1. ~hlpOvertaken => hlpSession.phase = "starting" /\ ~hlpSession.active
    BY <1>0, <1>4 DEF StartAttaches, MainAt, MainApart
  <2>2. CASE Attached("drain") /\ MainGoes("readiness")
    <3>1. SessionAt(hlpSession.phase, hlpSession.active, TRUE)
      BY <1>0, <2>2, AttachedSet DEF Attached
    <3>2. MainNow("readiness")
      BY <1>0, <2>2, MainGone DEF MainLabels
    <3> QED
      BY <1>0, <1>4, <2>1, <2>2, <3>1, <3>2, MainFrame DEF StartAttaches, Attached
  <2>3. CASE /\ AttachFails(hlpMain.attempt, TRUE)
             /\ hlpMain' = [hlpMain EXCEPT !.attempt = IF @ < MaxAttempts THEN @ + 1 ELSE @]
    <3>1. SessionAt(hlpSession.phase, hlpSession.active, FALSE)
      BY <1>0, <2>3, AttachedSet DEF AttachFails
    <3>2. MainNow("attach")
      BY <1>0, <1>4, <2>3
      DEF StartAttaches, MainAt, SessionTypeOK, MainRecord, MainNow, MainLabels
    <3> QED
      BY <1>0, <1>4, <2>1, <3>1, <3>2, MainFrame DEF StartAttaches
  <2>4. CASE /\ AttachFails(hlpMain.attempt, FALSE)
             /\ hlpMain' = [hlpMain EXCEPT !.step = "refuse"]
    <3>1. SessionAt(hlpSession.phase, hlpSession.active, FALSE)
      BY <1>0, <2>4, AttachedSet DEF AttachFails
    <3>2. MainNow("refuse")
      BY <1>0, <2>4 DEF SessionTypeOK, MainRecord, MainNow, MainLabels
    <3> QED
      BY <1>0, <1>4, <2>1, <3>1, <3>2, MainFrame DEF StartAttaches
  <2> QED
    BY <1>4, <2>2, <2>3, <2>4 DEF StartAttaches
<1>5. CASE StartRefused
  <2>1. SessionAt("failed", hlpSession.active, hlpSession.attached)
    BY <1>0, <1>5, PhaseSet DEF StartRefused, Phases
  <2>2. MainNow("read") \/ MainNow("join")
    BY <1>0, <1>5, MainAnswered DEF StartRefused
  <2> QED
    BY <1>0, <1>5, <2>1, <2>2, MainFrame DEF StartRefused
<1>6. CASE StartReady
  <2>1. MainNow("read") \/ MainNow("join")
    BY <1>0, <1>6, MainAnswered DEF StartReady
  <2>2. ~hlpOvertaken => ~hlpSession.active /\ hlpWorker = "drain" /\ hlpSession.attached
    BY <1>0, <1>6 DEF StartReady, MainAt, MainApart
  <2>3. \/ /\ SessionAt("draining", hlpSession.active, hlpSession.attached)
           /\ hlpWorker' = hlpWorker
        \/ SessionAt("failed", hlpSession.active, hlpSession.attached)
    BY <1>0, <1>6, PhaseSet DEF StartReady, Phases
  <2> QED
    BY <1>0, <1>6, <2>1, <2>2, <2>3, MainFrame DEF StartReady
<1>7. CASE Status
  <2>1. SessionAt(hlpSession.phase, hlpSession.active, hlpSession.attached)
    BY <1>0, <1>7, SessionKept DEF Status
  <2>2. MainNow("read")
    BY <1>0, <1>7 DEF Status, MainAt, SessionTypeOK, MainNow
  <2>3. ~hlpTouched'
    BY <1>0, <1>7 DEF Status, OneUser
  <2> QED
    BY <1>0, <1>7, <2>1, <2>2, <2>3, MainFrame DEF Status, MainApart, DrainHeld
<1>8. CASE Cancel
  <2>1. SessionAt(hlpSession.phase, hlpSession.active, hlpSession.attached)
    BY <1>0, <1>8 DEF Cancel, SessionTypeOK, SessionRecord, SessionAt
  <2>2. MainNow("read")
    BY <1>0, <1>8 DEF Cancel, MainAt, SessionTypeOK, MainNow
  <2> QED
    BY <1>0, <1>8, <2>1, <2>2, MainFrame DEF Cancel, MainApart, DrainHeld
<1>9. CASE StopAsked
  <2>1. \/ /\ SessionAt("stopping", hlpSession.active, hlpSession.attached)
           /\ hlpSession.phase # "stopped"
        \/ /\ SessionAt(hlpSession.phase, hlpSession.active, hlpSession.attached)
           /\ hlpSession.phase = "stopped"
    BY <1>0, <1>9 DEF StopAsked, SessionTypeOK, SessionRecord, SessionAt, Phases
  <2>2. MainNow("waiting") \/ MainNow("join") \/ MainNow("read")
    BY <1>9 DEF StopAsked, MainRecord, MainNow, MainLabels
  <2> QED
    BY <1>0, <1>9, <2>1, <2>2, MainFrame DEF StopAsked, MainApart, DrainHeld
<1>10. CASE StopWaits
  <2>1. CASE ~hlpSession.active /\ MainGoes("detach") /\ UNCHANGED hlpSession
    <3>1. SessionAt(hlpSession.phase, hlpSession.active, hlpSession.attached)
      BY <1>0, <2>1, SessionKept
    <3>2. MainNow("detach")
      BY <1>0, <2>1, MainGone DEF MainLabels
    <3> QED
      BY <1>0, <1>10, <2>1, <3>1, <3>2, MainFrame DEF StopWaits, DrainHeld
  <2>2. CASE MainAnswers /\ hlpSession' = [hlpSession EXCEPT !.phase = "failed"]
    <3>1. SessionAt("failed", hlpSession.active, hlpSession.attached)
      BY <1>0, <2>2, PhaseSet DEF Phases
    <3>2. MainNow("read") \/ MainNow("join")
      BY <1>0, <2>2, MainAnswered
    <3> QED
      BY <1>0, <1>10, <3>1, <3>2, MainFrame DEF StopWaits
  <2> QED
    BY <1>10, <2>1, <2>2 DEF StopWaits
<1>11. CASE StopDetaches
  <2>1. SessionAt("stopped", hlpSession.active, hlpSession'.attached)
    BY <1>0, <1>11 DEF StopDetaches, SessionTypeOK, SessionRecord, SessionAt, Phases
  <2>2. MainNow("read") \/ MainNow("join")
    BY <1>0, <1>11, MainAnswered DEF StopDetaches
  <2>3. ~hlpOvertaken => ~hlpSession.active
    BY <1>0, <1>11 DEF StopDetaches, MainAt, MainApart
  <2>4. /\ hlpWindow' = hlpWindow /\ hlpOvertaken' = hlpOvertaken
        /\ ~hlpTouched'
    BY <1>0, <1>11 DEF StopDetaches
  <2>5. CASE MainNow("read")
    BY <2>1, <2>3, <2>4, <2>5, MainFrame
  <2>6. CASE MainNow("join")
    BY <2>1, <2>3, <2>4, <2>6, MainFrame
  <2> QED
    BY <2>2, <2>5, <2>6
<1>12. CASE Exits
  <2>1. SessionAt(hlpSession.phase, hlpSession.active, hlpSession.attached)
    BY <1>0, <1>12, SessionKept DEF Exits
  <2>2. MainNow("exited")
    BY <1>0, <1>12, MainGone DEF Exits, MainLabels
  <2> QED
    BY <1>0, <1>12, <2>1, <2>2, MainFrame DEF Exits, MainApart, DrainHeld
<1>13. CASE UNCHANGED hlpVars
  BY <1>13
  DEF hlpVars, HelperInv, SessionTypeOK, OneUser, MainApart, DrainHeld, WindowUses
<1> QED
  BY <1>1, <1>2, <1>3, <1>4, <1>5, <1>6, <1>7, <1>8, <1>9, <1>10, <1>11, <1>12, <1>13
  DEF HelperNext, MainSteps

LEMMA HelperDrained == HelperInv => BackendOwned /\ DrainHeld
BY DEF HelperInv, OneUser, MainApart, BackendOwned, MainUses

-----------------------------------------------------------------------------
(* The owner of a runtime on Unix                                            *)

(* The server may still ask the guardian of a runtime it has launched.       *)
Asking == {"owned", "drop", "drop_wait"}

OwnerTypeOK ==
  /\ ownGroup \in [Members -> {"none", "forked", "joined", "running", "dying", "dead"}]
  /\ ownAnswer \in BOOLEAN

(* What makes the answer and the signal right: the group's identity is       *)
(* reserved as long as the server signals it, unless it has seen the group   *)
(* empty and reaped the guardian itself.                                     *)
OwnerInv ==
  /\ OwnerTypeOK
  /\ ownServer \in {"ready_wait", "fork", "exec_wait"} =>
       ownGuardian \notin {"none", "reaped"}
  /\ ownServer \in Asking => ownGuardian # "none"
  /\ ownServer \in Asking /\ ownGuardian = "reaped" => GroupGone
  /\ ownAnswer => ownServer \in Asking \cup {"reaping", "dropped", "lost"}
  /\ GroupOwned

LEMMA OwnerStarts == OwnerInit => OwnerInv
BY DEF OwnerInit, OwnerInv, OwnerTypeOK, GroupOwned, GroupGone, Asking, Members

LEMMA GroupSignalled ==
  ASSUME OwnerTypeOK
  PROVE  /\ Signalled \in [Members -> {"none", "forked", "joined", "running", "dying", "dead"}]
         /\ GroupGone => Signalled = ownGroup
BY DEF OwnerTypeOK, Signalled, GroupGone, Members

LEMMA TerminationRequested ==
  ASSUME OwnerInv, ownServer \in Asking, RequestTermination,
         UNCHANGED ownAnswer, ownServer' \in Asking
  PROVE  OwnerInv'
<1>1. CASE UNCHANGED <<ownSignal, ownGroup, ownGuardian>>
  BY <1>1 DEF OwnerInv, OwnerTypeOK, GroupOwned, GroupGone, Asking
<1>2. CASE /\ ownGuardian # "reaped"
           /\ ownSignal' = IF Reserved THEN "group" ELSE "stranger"
           /\ ownGroup' = Signalled
           /\ ownGuardian' = IF GuardianLives THEN "zombie" ELSE ownGuardian
  <2>1. Reserved
    BY <1>2 DEF Reserved, OwnerInv
  <2>2. ownGuardian' \notin {"none", "reaped"} /\ ownSignal' # "stranger"
    BY <1>2, <2>1 DEF Reserved
  <2>3. OwnerTypeOK' /\ (GroupGone => ownGroup' = ownGroup)
    BY <1>2, GroupSignalled DEF OwnerInv, OwnerTypeOK
  <2> QED
    BY <2>2, <2>3 DEF OwnerInv, GroupOwned, GroupGone, Asking
<1> QED
  BY <1>1, <1>2 DEF RequestTermination

(* A probe answers that nothing is left only when nothing is.                *)
LEMMA Probed ==
  ASSUME OwnerInv, ownServer \in Asking, IsTerminated,
         UNCHANGED <<ownGroup, ownSignal>>, ownServer' \in Asking \cup {"dropped"}
  PROVE  OwnerInv'
<1>1. ownAnswer' \in BOOLEAN /\ (ownAnswer' => GroupGone)
  BY DEF IsTerminated, GroupStopped, OwnerInv, GroupGone
<1>2. ownGuardian' # "none" /\ (ownGuardian' = "reaped" => GroupGone)
  BY DEF IsTerminated, GroupStopped, OwnerInv, GroupGone
<1> QED
  BY <1>1, <1>2 DEF OwnerInv, OwnerTypeOK, GroupOwned, GroupGone, Asking

LEMMA OwnerStep == OwnerInv /\ [OwnerNext]_ownVars => OwnerInv'
<1> SUFFICES ASSUME OwnerInv, [OwnerNext]_ownVars PROVE OwnerInv'
  OBVIOUS
<1>0. OwnerTypeOK
  BY DEF OwnerInv
<1>1. CASE StartGuardian
  BY <1>1 DEF StartGuardian, OwnerInv, OwnerTypeOK, GroupOwned, GroupGone, Asking
<1>2. CASE GuardianReady
  BY <1>2 DEF GuardianReady, OwnerInv, OwnerTypeOK, GroupOwned, GroupGone, Asking
<1>3. CASE GuardianKills
  <2>1. OwnerTypeOK' /\ (GroupGone => ownGroup' = ownGroup)
    BY <1>0, <1>3, GroupSignalled DEF GuardianKills, OwnerTypeOK
  <2> QED
    BY <1>3, <2>1 DEF GuardianKills, OwnerInv, GroupOwned, GroupGone, Asking
<1>4. CASE InitReaps
  BY <1>4 DEF InitReaps, OwnerInv, OwnerTypeOK, GroupOwned, GroupGone, Asking
<1>5. CASE AwaitReady
  BY <1>5 DEF AwaitReady, OwnerInv, OwnerTypeOK, GroupOwned, GroupGone, Asking
<1>6. CASE Fork
  <2>1. OwnerTypeOK'
    BY <1>0, <1>6 DEF Fork, OwnerTypeOK, Members
  <2> QED
    BY <1>6, <2>1 DEF Fork, OwnerInv, GroupOwned, GroupGone, Asking
<1>7. CASE Joins
  <2>1. OwnerTypeOK'
    BY <1>0, <1>7 DEF Joins, OwnerTypeOK, Members
  <2>2. ~GroupGone
    BY <1>7 DEF Joins, GroupGone, Members
  <2> QED
    BY <1>7, <2>1, <2>2 DEF Joins, OwnerInv, GroupOwned, GroupGone, Asking
<1>8. CASE Executes
  <2>1. OwnerTypeOK'
    BY <1>0, <1>8 DEF Executes, OwnerTypeOK, Members
  <2>2. ~GroupGone
    BY <1>8 DEF Executes, GroupGone, Members
  <2> QED
    BY <1>8, <2>1, <2>2 DEF Executes, OwnerInv, GroupOwned, GroupGone, Asking
<1>9. CASE Spawned
  BY <1>9 DEF Spawned, OwnerInv, OwnerTypeOK, GroupOwned, GroupGone, Asking
<1>10. CASE RequestsEnd
  BY <1>10, TerminationRequested DEF RequestsEnd, Asking
<1>11. CASE Probe
  BY <1>11, Probed DEF Probe, Asking
<1>12. CASE LetGo
  BY <1>12 DEF LetGo, OwnerInv, OwnerTypeOK, GroupOwned, GroupGone, Asking
<1>13. CASE DropRequests
  BY <1>13, TerminationRequested DEF DropRequests, Asking
<1>14. CASE DropWaits
  <2>1. CASE IsTerminated /\ ownServer' = "dropped" /\ UNCHANGED <<ownGroup, ownSignal>>
    BY <1>14, <2>1, Probed DEF DropWaits, Asking
  <2>2. CASE ownServer' = "reaping" /\ UNCHANGED <<ownGuardian, ownGroup, ownSignal, ownAnswer>>
    BY <1>14, <2>2 DEF OwnerInv, OwnerTypeOK, GroupOwned, GroupGone, Asking, DropWaits
  <2> QED
    BY <1>14, <2>1, <2>2 DEF DropWaits
<1>15. CASE ThreadReaps
  BY <1>15 DEF ThreadReaps, OwnerInv, OwnerTypeOK, GroupOwned, GroupGone, Asking
<1>16. CASE ServerLost
  BY <1>16 DEF ServerLost, OwnerInv, OwnerTypeOK, GroupOwned, GroupGone, Asking
<1>17. CASE MemberMoves
  <2>1. OwnerTypeOK'
    BY <1>0, <1>17 DEF MemberMoves, OwnerTypeOK, Members
  <2>2. ~GroupGone
    BY <1>17 DEF MemberMoves, GroupGone, Members
  <2> QED
    BY <1>17, <2>1, <2>2 DEF MemberMoves, OwnerInv, GroupOwned, GroupGone, Asking
<1>18. ASSUME NEW m \in Members, Dies(m) PROVE OwnerInv'
  <2>1. OwnerTypeOK'
    BY <1>0, <1>18 DEF Dies, OwnerTypeOK
  <2>2. ~GroupGone
    BY <1>18 DEF Dies, GroupGone
  <2> QED
    BY <1>18, <2>1, <2>2 DEF Dies, OwnerInv, GroupOwned, GroupGone, Asking
<1>19. CASE UNCHANGED ownVars
  BY <1>19 DEF ownVars, OwnerInv, OwnerTypeOK, GroupOwned, GroupGone
<1> QED
  BY <1>1, <1>2, <1>3, <1>4, <1>5, <1>6, <1>7, <1>8, <1>9, <1>10, <1>11, <1>12, <1>13,
     <1>14, <1>15, <1>16, <1>17, <1>18, <1>19 DEF OwnerNext

-----------------------------------------------------------------------------
(* The collector's supervisor                                                *)

Schedules == [force : Int, deadline : Int]
TaskPhases == {"none", "watch", "cleanup", "poll", "waiting", "returned"}
TaskRecord == [phase : TaskPhases, stop : Schedules \cup {NoSchedule},
               forced : BOOLEAN, open : BOOLEAN, lost : BOOLEAN, error : BOOLEAN,
               until : Int]
WatchRecord == [value : Schedules \cup {NoSchedule}, unread : BOOLEAN]
TreeRecord == [child : {"none", "running", "dying", "exited", "reaped"},
               job : {"none", "running", "dying", "gone"}]
StatusRecord == [running : BOOLEAN, error : BOOLEAN]
StopRecord == [step : {"idle", "waiting", "ended"}, began : Int, deadline : Int]

SupTypeOK ==
  /\ supNow \in Int
  /\ supWatch \in WatchRecord
  /\ supTask \in TaskRecord
  /\ supTree \in TreeRecord
  /\ supStatus \in StatusRecord
  /\ supStops \in [Stops -> StopRecord]

(* Where the task is tells what it has published and whether the child is    *)
(* reaped.                                                                   *)
TaskHonest ==
  /\ supTask.phase \in {"none", "watch"} => supStatus.running
  /\ supTask.phase \notin {"none", "watch"} => supTree.child = "reaped"
  /\ Confirmed => supTask.phase = "returned" /\ Gone
  /\ supHandle = "none" => supTask.phase = "none"

SupInv == SupTypeOK /\ TaskHonest

LEMMA SupStarts == SupInit => SupInv
BY DEF SupInit, SupInv, SupTypeOK, TaskHonest, Confirmed, Gone, TaskRecord, TaskPhases,
       WatchRecord, TreeRecord, StatusRecord, StopRecord

(* Updates of the task's record in more than one field.                      *)
LEMMA TaskFollows ==
  ASSUME NEW old \in TaskRecord, NEW next \in Schedules \cup {NoSchedule}
  PROVE  /\ [old EXCEPT !.stop = next, !.forced = FALSE] \in TaskRecord
         /\ [old EXCEPT !.stop = next, !.forced = FALSE].phase = old.phase
         /\ [old EXCEPT !.stop = next, !.forced = FALSE].stop = next
<1> DEFINE mid == [old EXCEPT !.stop = next]
<1>1. mid \in TaskRecord /\ mid.phase = old.phase /\ mid.stop = next
  BY DEF TaskRecord
<1>2. [old EXCEPT !.stop = next, !.forced = FALSE] = [mid EXCEPT !.forced = FALSE]
  OBVIOUS
<1> HIDE DEF mid
<1>3. /\ [mid EXCEPT !.forced = FALSE] \in TaskRecord
      /\ [mid EXCEPT !.forced = FALSE].phase = mid.phase
      /\ [mid EXCEPT !.forced = FALSE].stop = mid.stop
  BY <1>1 DEF TaskRecord
<1> QED
  BY <1>1, <1>2, <1>3

LEMMA TaskCloses ==
  ASSUME NEW old \in TaskRecord, NEW next \in Schedules
  PROVE  /\ [old EXCEPT !.open = FALSE, !.forced = FALSE, !.stop = next] \in TaskRecord
         /\ [old EXCEPT !.open = FALSE, !.forced = FALSE, !.stop = next].phase = old.phase
<1> DEFINE mid == [old EXCEPT !.open = FALSE]
           far == [mid EXCEPT !.forced = FALSE]
<1>1. mid \in TaskRecord /\ mid.phase = old.phase
  BY DEF TaskRecord
<1>2. [old EXCEPT !.open = FALSE, !.forced = FALSE, !.stop = next] = [far EXCEPT !.stop = next]
  OBVIOUS
<1> HIDE DEF mid
<1>3. far \in TaskRecord /\ far.phase = mid.phase
  BY <1>1 DEF TaskRecord
<1> HIDE DEF far
<1>4. [far EXCEPT !.stop = next] \in TaskRecord /\ [far EXCEPT !.stop = next].phase = far.phase
  BY <1>3 DEF TaskRecord
<1> QED
  BY <1>1, <1>2, <1>3, <1>4

LEMMA TaskExits ==
  ASSUME NEW old \in TaskRecord, NEW lost \in BOOLEAN
  PROVE  /\ [old EXCEPT !.phase = "cleanup", !.lost = lost] \in TaskRecord
         /\ [old EXCEPT !.phase = "cleanup", !.lost = lost].phase = "cleanup"
         /\ [old EXCEPT !.phase = "cleanup", !.lost = lost].stop = old.stop
<1> DEFINE mid == [old EXCEPT !.phase = "cleanup"]
<1>1. mid \in TaskRecord /\ mid.phase = "cleanup" /\ mid.stop = old.stop
  BY DEF TaskRecord, TaskPhases
<1>2. [old EXCEPT !.phase = "cleanup", !.lost = lost] = [mid EXCEPT !.lost = lost]
  OBVIOUS
<1> HIDE DEF mid
<1>3. /\ [mid EXCEPT !.lost = lost] \in TaskRecord
      /\ [mid EXCEPT !.lost = lost].phase = mid.phase
      /\ [mid EXCEPT !.lost = lost].stop = mid.stop
  BY <1>1 DEF TaskRecord
<1> QED
  BY <1>1, <1>2, <1>3

Polling(old, error, until) == [old EXCEPT !.phase = "poll", !.error = error, !.until = until]
Ending(old, phase, error) == [old EXCEPT !.phase = phase, !.error = error]

LEMMA TaskPolls ==
  ASSUME NEW old \in TaskRecord, NEW error \in BOOLEAN, NEW until \in Int
  PROVE  /\ Polling(old, error, until) \in TaskRecord
         /\ Polling(old, error, until).phase = "poll"
         /\ Polling(old, error, until).stop = old.stop
<1> DEFINE mid == [old EXCEPT !.phase = "poll"]
           far == [mid EXCEPT !.error = error]
<1>1. mid \in TaskRecord /\ mid.phase = "poll" /\ mid.stop = old.stop
  BY DEF TaskRecord, TaskPhases
<1>2. Polling(old, error, until) = [far EXCEPT !.until = until]
  BY DEF Polling
<1> HIDE DEF mid
<1>3. far \in TaskRecord /\ far.phase = mid.phase /\ far.stop = mid.stop
  BY <1>1 DEF TaskRecord
<1> HIDE DEF far
<1>4. /\ [far EXCEPT !.until = until] \in TaskRecord
      /\ [far EXCEPT !.until = until].phase = far.phase
      /\ [far EXCEPT !.until = until].stop = far.stop
  BY <1>3 DEF TaskRecord
<1> QED
  BY <1>1, <1>2, <1>3, <1>4

LEMMA TaskPublishes ==
  ASSUME NEW old \in TaskRecord, NEW phase \in TaskPhases, NEW error \in BOOLEAN
  PROVE  /\ Ending(old, phase, error) \in TaskRecord
         /\ Ending(old, phase, error).phase = phase
         /\ Ending(old, phase, error).stop = old.stop
<1> DEFINE mid == [old EXCEPT !.phase = phase]
<1>1. mid \in TaskRecord /\ mid.phase = phase /\ mid.stop = old.stop
  BY DEF TaskRecord
<1>2. Ending(old, phase, error) = [mid EXCEPT !.error = error]
  BY DEF Ending
<1> HIDE DEF mid
<1>3. /\ [mid EXCEPT !.error = error] \in TaskRecord
      /\ [mid EXCEPT !.error = error].phase = mid.phase
      /\ [mid EXCEPT !.error = error].stop = mid.stop
  BY <1>1 DEF TaskRecord
<1> QED
  BY <1>1, <1>2, <1>3

LEMMA TaskRetries ==
  ASSUME NEW old \in TaskRecord, NEW next \in Schedules \cup {NoSchedule}
  PROVE  /\ [old EXCEPT !.phase = "cleanup", !.stop = next] \in TaskRecord
         /\ [old EXCEPT !.phase = "cleanup", !.stop = next].phase = "cleanup"
         /\ [old EXCEPT !.phase = "cleanup", !.stop = next].stop = next
<1> DEFINE mid == [old EXCEPT !.phase = "cleanup"]
<1>1. mid \in TaskRecord /\ mid.phase = "cleanup"
  BY DEF TaskRecord, TaskPhases
<1>2. [old EXCEPT !.phase = "cleanup", !.stop = next] = [mid EXCEPT !.stop = next]
  OBVIOUS
<1> HIDE DEF mid
<1>3. /\ [mid EXCEPT !.stop = next] \in TaskRecord
      /\ [mid EXCEPT !.stop = next].phase = mid.phase
      /\ [mid EXCEPT !.stop = next].stop = next
  BY <1>1 DEF TaskRecord
<1> QED
  BY <1>1, <1>2, <1>3

(* What a step leaves of the task and of what it supervises.                 *)
TaskAt(phase, stop) ==
  supTask' \in TaskRecord /\ supTask'.phase = phase /\ supTask'.stop = stop

LEMMA TaskKept ==
  ASSUME SupTypeOK, supTask' = supTask
  PROVE  TaskAt(supTask.phase, supTask.stop)
BY DEF SupTypeOK, TaskAt

LEMMA ScheduleTyped ==
  ASSUME SupTypeOK, NEW t \in Timeouts
  PROVE  Schedule(t) \in Schedules
<1>1. t \in Nat /\ t \div 2 \in Int
  BY SupervisorConstants
<1>2. MinOf(t \div 2, 1) \in Int
  BY <1>1 DEF MinOf
<1> QED
  BY <1>1, <1>2 DEF Schedule, Schedules, SupTypeOK

LEMMA JobDying ==
  ASSUME SupTypeOK
  PROVE  /\ Dying(supTree.child) \in {"none", "dying", "exited", "reaped"}
         /\ Dying(supTree.job) \in {"none", "dying", "gone"}
         /\ supTree.job \in {"none", "gone"} => Dying(supTree.job) = supTree.job
         /\ supTree.child = "reaped" => Dying(supTree.child) = "reaped"
BY DEF SupTypeOK, TreeRecord, Dying

(* The steps that leave the task, the status and the tree alone.             *)
LEMMA StopBeginsTyped ==
  ASSUME SupTypeOK, NEW c \in Stops, StopBegins(c)
  PROVE  SupTypeOK'
<1>1. PICK t \in Timeouts :
        /\ supStops' = [supStops EXCEPT ![c] =
             [step |-> "waiting", began |-> supNow, deadline |-> supNow + t]]
        /\ supWatch' = IF Replaces(supWatch.value, Schedule(t))
                       THEN [value |-> Schedule(t), unread |-> TRUE] ELSE supWatch
  BY DEF StopBegins
<1>2. supWatch' \in WatchRecord
  BY <1>1, ScheduleTyped DEF SupTypeOK, WatchRecord
<1>3. t \in Int
  BY SupervisorConstants
<1>4. [step |-> "waiting", began |-> supNow, deadline |-> supNow + t] \in StopRecord
  BY <1>3 DEF SupTypeOK, StopRecord
<1> QED
  BY <1>1, <1>2, <1>4 DEF StopBegins, SupTypeOK

LEMMA StopEndsTyped ==
  ASSUME SupTypeOK, NEW c \in Stops, StopEnds(c)
  PROVE  SupTypeOK'
<1>1. [step |-> "ended", began |-> 0, deadline |-> 0] \in StopRecord
  BY DEF StopRecord
<1> QED
  BY <1>1 DEF StopEnds, SupTypeOK

LEMMA DropTyped ==
  ASSUME SupTypeOK, DropCollector
  PROVE  SupTypeOK'
<1>1. [force |-> supNow, deadline |-> supNow + 1] \in Schedules
  BY DEF SupTypeOK, Schedules
<1>2. supWatch' \in WatchRecord
  BY <1>1 DEF DropCollector, WatchRecord
<1> QED
  BY <1>2 DEF DropCollector, SupTypeOK

(* Each step of the task, by what it leaves: its phase, the schedule it      *)
(* follows, the child, the status.                                           *)
LEMMA SeesScheduleLeaves ==
  ASSUME SupTypeOK, SeesSchedule
  PROVE  /\ SupTypeOK' /\ supTask'.phase = "watch"
         /\ UNCHANGED <<supTree, supStatus, supHandle>>
<1>0. supTask \in TaskRecord /\ supWatch \in WatchRecord
  BY DEF SupTypeOK
<1>1. CASE /\ supWatch.unread
           /\ supWatch' = [supWatch EXCEPT !.unread = FALSE]
           /\ supTask' = IF Replaces(supTask.stop, supWatch.value)
                THEN [supTask EXCEPT !.stop = supWatch.value, !.forced = FALSE] ELSE supTask
  <2>1. supWatch.value \in Schedules \cup {NoSchedule} /\ supWatch' \in WatchRecord
    BY <1>0, <1>1 DEF WatchRecord
  <2>2. supTask' \in TaskRecord /\ supTask'.phase = supTask.phase
    BY <1>0, <1>1, <2>1, TaskFollows
  <2> QED
    BY <2>1, <2>2 DEF SeesSchedule, SupTypeOK
<1>2. CASE /\ supTask' = [supTask EXCEPT !.open = FALSE, !.forced = FALSE,
                !.stop = [force |-> supNow, deadline |-> supNow + 1]]
           /\ UNCHANGED supWatch
  <2>1. [force |-> supNow, deadline |-> supNow + 1] \in Schedules
    BY DEF SupTypeOK, Schedules
  <2>2. supTask' \in TaskRecord /\ supTask'.phase = supTask.phase
    BY <1>0, <1>2, <2>1, TaskCloses
  <2> QED
    BY <1>2, <2>2 DEF SeesSchedule, SupTypeOK
<1> QED
  BY <1>1, <1>2 DEF SeesSchedule

LEMMA ForcesLeaves ==
  ASSUME SupTypeOK, Forces
  PROVE  /\ SupTypeOK' /\ TaskAt("watch", supTask.stop)
         /\ supStatus'.running = supStatus.running
         /\ UNCHANGED <<supNow, supWatch, supStops, supHandle>>
<1>1. PICK failed \in BOOLEAN :
        /\ supStatus' = [supStatus EXCEPT !.error = failed]
        /\ supTree' = [child |-> Dying(supTree.child),
                       job |-> IF failed THEN supTree.job ELSE Dying(supTree.job)]
  BY SupervisorConstants DEF Forces
<1>2. supTree' \in TreeRecord
  BY <1>1, JobDying DEF SupTypeOK, TreeRecord
<1>3. supStatus' \in StatusRecord /\ supStatus'.running = supStatus.running
  BY <1>1 DEF SupTypeOK, StatusRecord
<1>4. TaskAt("watch", supTask.stop)
  BY DEF Forces, SupTypeOK, TaskRecord, TaskAt
<1> QED
  BY <1>2, <1>3, <1>4 DEF Forces, SupTypeOK, TaskAt

LEMMA SeesExitLeaves ==
  ASSUME SupTypeOK, SeesExit
  PROVE  /\ SupTypeOK' /\ TaskAt("cleanup", supTask.stop)
         /\ supTree'.child = "reaped"
         /\ UNCHANGED <<supNow, supWatch, supStatus, supStops, supHandle>>
<1>3. PICK lost \in BOOLEAN : supTask' = [supTask EXCEPT !.phase = "cleanup", !.lost = lost]
  <2>0. \E lost \in {FALSE, "wait" \in SupFaults} :
          supTask' = [supTask EXCEPT !.phase = "cleanup", !.lost = lost]
    BY DEF SeesExit
  <2>1. CASE "wait" \in SupFaults
    <3>1. ("wait" \in SupFaults) = TRUE
      BY <2>1
    <3> QED
      BY <2>0, <3>1
  <2>2. CASE "wait" \notin SupFaults
    <3>1. ("wait" \in SupFaults) = FALSE
      BY <2>2
    <3> QED
      BY <2>0, <3>1
  <2> QED
    BY <2>1, <2>2
<1>1. TaskAt("cleanup", supTask.stop)
  BY <1>3, TaskExits DEF SupTypeOK, TaskAt
<1>2. supTree' \in TreeRecord /\ supTree'.child = "reaped"
  BY DEF SeesExit, SupTypeOK, TreeRecord
<1> QED
  BY <1>1, <1>2 DEF SeesExit, SupTypeOK, TaskAt

LEMMA CleanupStartsLeaves ==
  ASSUME SupTypeOK, CleanupStarts
  PROVE  /\ SupTypeOK' /\ TaskAt("poll", supTask.stop)
         /\ supTree'.child = supTree.child
         /\ UNCHANGED <<supNow, supWatch, supStatus, supStops, supHandle>>
<1> DEFINE until == IF supTask.stop = NoSchedule THEN supNow + 1 ELSE supTask.stop.deadline
<1>1. PICK failed \in BOOLEAN :
        /\ supTask' = [supTask EXCEPT !.phase = "poll", !.error = supTask.lost \/ failed,
                         !.until = until]
        /\ supTree' = [supTree EXCEPT !.job = IF failed THEN @ ELSE Dying(@)]
  BY SupervisorConstants DEF CleanupStarts
<1>2. until \in Int
  BY DEF SupTypeOK, TaskRecord, Schedules
<1> DEFINE error == supTask.lost \/ failed
<1>3. error \in BOOLEAN
  OBVIOUS
<1>8. supTask' = Polling(supTask, error, until)
  BY <1>1 DEF Polling
<1> HIDE DEF until, error
<1>9. supTask \in TaskRecord
  BY DEF SupTypeOK
<1>10. /\ Polling(supTask, error, until) \in TaskRecord
       /\ Polling(supTask, error, until).phase = "poll"
       /\ Polling(supTask, error, until).stop = supTask.stop
  BY <1>2, <1>3, <1>9, TaskPolls
<1>4. TaskAt("poll", supTask.stop)
  BY <1>8, <1>10 DEF TaskAt
<1> DEFINE job == IF failed THEN supTree.job ELSE Dying(supTree.job)
<1>5. job \in {"none", "running", "dying", "gone"}
  BY JobDying DEF SupTypeOK, TreeRecord
<1>6. supTree' = [supTree EXCEPT !.job = job]
  BY <1>1
<1> HIDE DEF job
<1>7. supTree' \in TreeRecord /\ supTree'.child = supTree.child
  BY <1>5, <1>6 DEF SupTypeOK, TreeRecord
<1> QED
  BY <1>4, <1>7 DEF CleanupStarts, SupTypeOK, TaskAt

LEMMA Published ==
  ASSUME SupTypeOK, NEW error \in BOOLEAN, Publish(error)
  PROVE  /\ supStatus' \in StatusRecord /\ (supStatus'.error <=> error)
         /\ TaskAt(IF error THEN "waiting" ELSE "returned", supTask.stop)
<1>1. supTask \in TaskRecord /\ supTask.lost \in BOOLEAN
  BY DEF SupTypeOK, TaskRecord
<1> DEFINE phase == IF error THEN "waiting" ELSE "returned"
<1>2. phase \in TaskPhases
  BY DEF TaskPhases
<1>3. supTask' = Ending(supTask, phase, error)
  BY DEF Publish, Ending
<1> HIDE DEF phase
<1>5. /\ Ending(supTask, phase, error) \in TaskRecord
      /\ Ending(supTask, phase, error).phase = phase
      /\ Ending(supTask, phase, error).stop = supTask.stop
  BY <1>1, <1>2, TaskPublishes
<1>4. TaskAt(phase, supTask.stop)
  BY <1>3, <1>5 DEF TaskAt
<1> QED
  BY <1>1, <1>4 DEF Publish, StatusRecord, phase

LEMMA CleanupPollsLeaves ==
  ASSUME SupTypeOK, CleanupPolls
  PROVE  /\ SupTypeOK' /\ TaskAt(supTask'.phase, supTask.stop)
         /\ \/ supTask'.phase = "waiting" /\ supStatus'.error
            \/ supTask'.phase = "returned" /\ supTree.job \in {"none", "gone"}
         /\ UNCHANGED <<supNow, supWatch, supTree, supStops, supHandle>>
<1>1. PICK error \in BOOLEAN : /\ Publish(error)
                               /\ ~error => supTree.job \in {"none", "gone"}
  <2>1. supTask.error \in BOOLEAN
    BY DEF SupTypeOK, TaskRecord
  <2> QED
    BY <2>1 DEF CleanupPolls
<1>2. /\ supStatus' \in StatusRecord /\ (supStatus'.error <=> error)
      /\ TaskAt(IF error THEN "waiting" ELSE "returned", supTask.stop)
  BY <1>1, Published
<1> QED
  BY <1>1, <1>2 DEF CleanupPolls, SupTypeOK, TaskAt

LEMMA RetriesLeaves ==
  ASSUME SupTypeOK, Retries
  PROVE  /\ SupTypeOK'
         /\ \/ supTask'.phase = "cleanup" /\ UNCHANGED supTree
            \/ supTask'.phase = "returned" /\ supTree'.child = supTree.child
         /\ UNCHANGED <<supStatus, supHandle>>
<1>0. supTask \in TaskRecord /\ supWatch \in WatchRecord
  BY DEF SupTypeOK
<1>1. CASE /\ supWatch' = [supWatch EXCEPT !.unread = FALSE]
           /\ supTask' = [supTask EXCEPT !.phase = "cleanup", !.stop = supWatch.value]
           /\ UNCHANGED supTree
  <2>1. supWatch.value \in Schedules \cup {NoSchedule} /\ supWatch' \in WatchRecord
    BY <1>0, <1>1 DEF WatchRecord
  <2>2. supTask' \in TaskRecord /\ supTask'.phase = "cleanup"
    BY <1>0, <1>1, <2>1, TaskRetries
  <2> QED
    BY <1>1, <2>1, <2>2 DEF Retries, SupTypeOK
<1>2. CASE /\ supTask' = [supTask EXCEPT !.phase = "returned"]
           /\ supTree' = [supTree EXCEPT !.job = Dying(@)]
           /\ UNCHANGED supWatch
  <2>1. supTask' \in TaskRecord /\ supTask'.phase = "returned"
    BY <1>0, <1>2 DEF TaskRecord, TaskPhases
  <2>2. supTree' \in TreeRecord /\ supTree'.child = supTree.child
    BY <1>2, JobDying DEF SupTypeOK, TreeRecord
  <2> QED
    BY <1>2, <2>1, <2>2 DEF Retries, SupTypeOK
<1> QED
  BY <1>1, <1>2 DEF Retries

LEMMA SupStep == SupInv /\ [SupNext]_supVars => SupInv'
<1> SUFFICES ASSUME SupInv, [SupNext]_supVars PROVE SupInv'
  OBVIOUS
<1>0. SupTypeOK /\ TaskHonest
  BY DEF SupInv
<1>1. CASE SupSpawn
  <2>1. supTask.phase = "none"
    BY <1>0, <1>1 DEF SupSpawn, TaskHonest
  <2>2. CASE /\ supHandle' = "held" /\ supTask' = [supTask EXCEPT !.phase = "watch"]
             /\ \E job \in {"none"} \cup (IF HasJob THEN {"running"} ELSE {}) :
                  supTree' = [child |-> "running", job |-> job]
    <3>1. supTask' \in TaskRecord /\ supTask'.phase = "watch"
      BY <1>0, <2>2 DEF SupTypeOK, TaskRecord, TaskPhases
    <3>2. supTree' \in TreeRecord
      BY <2>2 DEF TreeRecord
    <3>3. supStatus.running
      BY <1>0, <2>1 DEF TaskHonest
    <3> QED
      BY <1>0, <1>1, <2>2, <3>1, <3>2, <3>3
      DEF SupSpawn, SupInv, SupTypeOK, TaskHonest, Confirmed
  <2>3. CASE /\ supHandle' = "dropped" /\ supTree' = [supTree EXCEPT !.child = "reaped"]
             /\ UNCHANGED supTask
    <3>1. supTree' \in TreeRecord
      BY <1>0, <2>3 DEF SupTypeOK, TreeRecord
    <3>2. supStatus.running
      BY <1>0, <2>1 DEF TaskHonest
    <3> QED
      BY <1>0, <1>1, <2>1, <2>3, <3>1, <3>2
      DEF SupSpawn, SupInv, SupTypeOK, TaskHonest, Confirmed
  <2> QED
    BY <1>1, <2>2, <2>3 DEF SupSpawn
<1>2. CASE DropCollector
  BY <1>0, <1>2, DropTyped DEF DropCollector, SupInv, TaskHonest, Confirmed, Gone
<1>3. CASE SeesSchedule
  <2>1. supTask.phase = "watch" /\ supHandle # "none"
    BY <1>0, <1>3 DEF SeesSchedule, TaskHonest
  <2> QED
    BY <1>0, <1>3, <2>1, SeesScheduleLeaves DEF SupInv, TaskHonest, Confirmed, Gone
<1>4. CASE Forces
  <2>1. supTask.phase = "watch" /\ supHandle # "none"
    BY <1>0, <1>4 DEF Forces, TaskHonest
  <2> QED
    BY <1>0, <1>4, <2>1, ForcesLeaves DEF SupInv, TaskHonest, TaskAt, Confirmed
<1>5. CASE SeesExit
  <2>1. supTask.phase = "watch" /\ supHandle # "none"
    BY <1>0, <1>5 DEF SeesExit, TaskHonest
  <2> QED
    BY <1>0, <1>5, <2>1, SeesExitLeaves DEF SupInv, TaskHonest, TaskAt, Confirmed
<1>6. CASE CleanupStarts
  <2>1. supTask.phase = "cleanup" /\ supHandle # "none"
    BY <1>0, <1>6 DEF CleanupStarts, TaskHonest
  <2> QED
    BY <1>0, <1>6, <2>1, CleanupStartsLeaves DEF SupInv, TaskHonest, TaskAt, Confirmed
<1>7. CASE CleanupPolls
  <2>1. supTask.phase = "poll" /\ supHandle # "none"
    BY <1>0, <1>7 DEF CleanupPolls, TaskHonest
  <2> QED
    BY <1>0, <1>7, <2>1, CleanupPollsLeaves DEF SupInv, TaskHonest, Confirmed, Gone
<1>8. CASE Retries
  <2>1. supTask.phase = "waiting" /\ supHandle # "none"
    BY <1>0, <1>8 DEF Retries, TaskHonest
  <2> QED
    BY <1>0, <1>8, <2>1, RetriesLeaves DEF SupInv, TaskHonest, Confirmed
<1>9. CASE ProcessesEnd
  <2>1. supTree' \in TreeRecord
    BY <1>0, <1>9 DEF ProcessesEnd, SupTypeOK, TreeRecord
  <2>2. supTree.child = "reaped" => supTree'.child = "reaped"
    BY <1>0, <1>9 DEF ProcessesEnd, SupTypeOK, TreeRecord
  <2>3. Gone => Gone'
    BY <1>0, <1>9 DEF ProcessesEnd, Gone, SupTypeOK, TreeRecord
  <2> QED
    BY <1>0, <1>9, <2>1, <2>2, <2>3
    DEF ProcessesEnd, SupInv, SupTypeOK, TaskHonest, Confirmed
<1>10. CASE SupTick
  BY <1>0, <1>10 DEF SupTick, SupInv, SupTypeOK, TaskHonest, Confirmed, Gone
<1>11. ASSUME NEW c \in Stops, StopBegins(c) PROVE SupInv'
  BY <1>0, <1>11, StopBeginsTyped DEF StopBegins, SupInv, TaskHonest, Confirmed, Gone
<1>12. ASSUME NEW c \in Stops, StopEnds(c) PROVE SupInv'
  BY <1>0, <1>12, StopEndsTyped DEF StopEnds, SupInv, TaskHonest, Confirmed, Gone
<1>13. CASE UNCHANGED supVars
  BY <1>0, <1>13 DEF supVars, SupInv, SupTypeOK, TaskHonest, Confirmed, Gone
<1> QED
  BY <1>1, <1>2, <1>3, <1>4, <1>5, <1>6, <1>7, <1>8, <1>9, <1>10, <1>11, <1>12, <1>13
  DEF SupNext, TaskSteps

LEMMA SupHonest == SupInv => ConfirmedMeansGone
BY DEF SupInv, TaskHonest, ConfirmedMeansGone

-----------------------------------------------------------------------------
(* All stops use one timeout, as the tools do.                               *)
OneTimeout == \A t, u \in Timeouts : t = u

(* A schedule of a stop that has begun.                                      *)
Begun(schedule) ==
  \E t \in Timeouts : /\ schedule.force = schedule.deadline - MinOf(t \div 2, 1)
                      /\ schedule.deadline <= supNow + t

(* What the channel holds, the task follows, or will as it has nothing left  *)
(* to follow; a stop that waits began before the channel's deadline.         *)
Heard ==
  /\ supHandle = "none" =>
       /\ supWatch.value = NoSchedule /\ ~supWatch.unread
       /\ supTask.stop = NoSchedule
  /\ supHandle # "held" => \A c \in Stops : supStops[c].step # "waiting"
  /\ supHandle = "held" =>
       /\ supWatch.value # NoSchedule => Begun(supWatch.value)
       /\ ~supWatch.unread => supTask.stop = supWatch.value
       /\ supWatch.unread => /\ supWatch.value # NoSchedule
                             /\ \/ supTask.stop = NoSchedule
                                \/ supTask.stop.deadline <= supNow
       /\ \A c \in Stops : supStops[c].step = "waiting" =>
            /\ supWatch.value # NoSchedule
            /\ supStops[c].began < supWatch.value.deadline
            /\ supStops[c].began <= supNow

LEMMA HeardStarts == SupInit => Heard
BY DEF SupInit, Heard

(* The task neither reads the channel nor takes another schedule.            *)
LEMMA NothingHeard ==
  ASSUME SupTypeOK, Heard, supTask'.stop = supTask.stop,
         UNCHANGED <<supNow, supWatch, supStops, supHandle>>
  PROVE  Heard'
BY DEF Heard, Begun

(* The task takes what the channel holds.                                    *)
LEMMA ScheduleHeard ==
  ASSUME SupTypeOK, Heard, supHandle # "none",
         supHandle = "held" => /\ supTask'.stop = supWatch.value /\ supWatch.unread
                               /\ supWatch' = [supWatch EXCEPT !.unread = FALSE],
         UNCHANGED <<supNow, supStops, supHandle>>
  PROVE  Heard'
<1>1. supHandle = "held" => supWatch'.value = supWatch.value /\ ~supWatch'.unread
  BY DEF SupTypeOK, WatchRecord
<1> QED
  BY <1>1 DEF Heard, Begun

LEMMA TimeHeard ==
  ASSUME SupTypeOK, SupTypeOK', Heard, SupTick
  PROVE  Heard'
<1>1. supNow <= supNow'
  BY DEF SupTick, SupTypeOK
<1>2. supWatch.value \in Schedules /\ Begun(supWatch.value) => Begun(supWatch.value)'
  <2>1. SUFFICES ASSUME supWatch.value \in Schedules, NEW t \in Timeouts,
                        supWatch.value.force = supWatch.value.deadline - MinOf(t \div 2, 1),
                        supWatch.value.deadline <= supNow + t
                 PROVE  supWatch.value.deadline <= supNow' + t
    BY DEF SupTick, Begun
  <2>2. t \in Int /\ supWatch.value.deadline \in Int
    BY <2>1, SupervisorConstants DEF Schedules
  <2> QED
    BY <1>1, <2>1, <2>2 DEF SupTypeOK
<1>3. supWatch.value # NoSchedule => supWatch.value \in Schedules
  BY DEF SupTypeOK, WatchRecord
<1>4. supTask.stop # NoSchedule => supTask.stop \in Schedules
  BY DEF SupTypeOK, TaskRecord
<1>5. \A c \in Stops : supStops[c].began \in Int
  BY DEF SupTypeOK, StopRecord
<1>6. supTask.stop # NoSchedule => supTask.stop.deadline \in Int
  BY <1>4 DEF Schedules
<1> QED
  BY <1>1, <1>2, <1>3, <1>5, <1>6 DEF SupTick, Heard, SupTypeOK

LEMMA StopHeard ==
  ASSUME OneTimeout, SupTypeOK, Heard, NEW c \in Stops, StopBegins(c)
  PROVE  Heard'
<1>1. PICK t \in Timeouts :
        /\ supStops' = [supStops EXCEPT ![c] =
             [step |-> "waiting", began |-> supNow, deadline |-> supNow + t]]
        /\ supWatch' = IF Replaces(supWatch.value, Schedule(t))
                       THEN [value |-> Schedule(t), unread |-> TRUE] ELSE supWatch
  BY DEF StopBegins
<1>2. t \in Nat \ {0} /\ t \div 2 \in Int /\ MinOf(t \div 2, 1) \in Int
  <2>1. t \in Nat \ {0} /\ t \div 2 \in Int
    BY SupervisorConstants
  <2> QED
    BY <2>1 DEF MinOf
<1>3. /\ Schedule(t) \in Schedules /\ Schedule(t) # NoSchedule
      /\ Schedule(t).deadline = supNow + t
      /\ Schedule(t).force = supNow + t - MinOf(t \div 2, 1)
  BY ScheduleTyped, SupervisorConstants DEF Schedule, Schedules
<1>4. Begun(Schedule(t))
  BY <1>2, <1>3 DEF Begun, SupTypeOK
<1>5. /\ supWatch.value \in Schedules \cup {NoSchedule}
      /\ supTask.stop \in Schedules \cup {NoSchedule}
  BY DEF SupTypeOK, WatchRecord, TaskRecord
<1>6. /\ supHandle = "held" /\ supHandle' = "held" /\ supNow' = supNow /\ supTask' = supTask
  BY DEF StopBegins
<1>7. \A d \in Stops : supStops[d].began \in Int
  BY DEF SupTypeOK, StopRecord
<1>8. \A d \in Stops : d # c => supStops'[d] = supStops[d]
  BY <1>1
<1>9. supStops'[c].step = "waiting" /\ supStops'[c].began = supNow
  BY <1>1 DEF SupTypeOK
<1>10. CASE Replaces(supWatch.value, Schedule(t))
  <2>1. supWatch'.value = Schedule(t) /\ supWatch'.unread
    BY <1>1, <1>10
  <2>2. supWatch.value # NoSchedule => supWatch.value.deadline <= supNow
    <3>1. SUFFICES ASSUME supWatch.value # NoSchedule,
                          Schedule(t).force < supWatch.value.force
                   PROVE  FALSE
      BY <1>10 DEF Replaces
    <3>2. PICK u \in Timeouts :
            /\ supWatch.value.force = supWatch.value.deadline - MinOf(u \div 2, 1)
            /\ supWatch.value.deadline <= supNow + u
      BY <1>6, <3>1 DEF Heard, Begun
    <3>3. u = t
      BY DEF OneTimeout
    <3>4. supWatch.value.deadline \in Int /\ supNow \in Int
      BY <1>5, <3>1 DEF Schedules, SupTypeOK
    <3> QED
      BY <1>2, <1>3, <3>1, <3>2, <3>3, <3>4
  <2>3. supTask.stop = NoSchedule \/ supTask.stop.deadline <= supNow
    BY <1>6, <2>2 DEF Heard
  <2>4. \A d \in Stops : supStops'[d].step = "waiting" =>
          supStops'[d].began < supNow + t /\ supStops'[d].began <= supNow
    BY <1>2, <1>6, <1>7, <1>8, <1>9 DEF Heard, SupTypeOK
  <2>5. Begun(supWatch'.value)
    BY <1>4, <2>1
  <2> QED
    BY <1>3, <1>6, <2>1, <2>3, <2>4, <2>5 DEF Heard, Begun
<1>11. CASE ~Replaces(supWatch.value, Schedule(t))
  <2>1. supWatch' = supWatch
    BY <1>1, <1>11
  <2>2. supWatch.value # NoSchedule /\ ~(supWatch.value.deadline <= supNow)
    BY <1>11 DEF Replaces
  <2>3. supWatch.value.deadline \in Int /\ supNow \in Int
    BY <1>5, <2>2 DEF Schedules, SupTypeOK
  <2>4. \A d \in Stops : supStops'[d].step = "waiting" =>
          /\ supStops'[d].began < supWatch.value.deadline
          /\ supStops'[d].began <= supNow
    BY <1>6, <1>8, <1>9, <2>2, <2>3 DEF Heard
  <2> QED
    BY <1>6, <2>1, <2>2, <2>4 DEF Heard, Begun
<1> QED
  BY <1>10, <1>11

LEMMA HeardStep == OneTimeout /\ SupInv /\ Heard /\ [SupNext]_supVars => Heard'
<1> SUFFICES ASSUME OneTimeout, SupInv, Heard, [SupNext]_supVars PROVE Heard'
  OBVIOUS
<1>0. SupTypeOK /\ SupTypeOK' /\ TaskHonest
  BY SupStep DEF SupInv
<1>1. CASE SupSpawn
  <2>1. supTask'.stop = supTask.stop
    BY <1>0, <1>1 DEF SupSpawn, SupTypeOK, TaskRecord
  <2> QED
    BY <1>1, <2>1 DEF SupSpawn, Heard
<1>2. CASE DropCollector
  BY <1>2 DEF DropCollector, Heard
<1>3. CASE SeesSchedule
  <2>0. supHandle # "none"
    BY <1>0, <1>3 DEF SeesSchedule, TaskHonest
  <2>1. CASE supHandle = "held"
    <3>1. /\ supWatch.unread /\ supWatch' = [supWatch EXCEPT !.unread = FALSE]
          /\ supTask' = IF Replaces(supTask.stop, supWatch.value)
               THEN [supTask EXCEPT !.stop = supWatch.value, !.forced = FALSE] ELSE supTask
      BY <1>3, <2>1 DEF SeesSchedule, ChannelClosed
    <3>2. Replaces(supTask.stop, supWatch.value)
      BY <2>1, <3>1 DEF Heard, Replaces
    <3>3. supWatch.value \in Schedules \cup {NoSchedule} /\ supTask \in TaskRecord
      BY <1>0 DEF SupTypeOK, WatchRecord
    <3>4. supTask'.stop = supWatch.value
      BY <3>1, <3>2, <3>3, TaskFollows
    <3> QED
      BY <1>0, <1>3, <2>0, <3>1, <3>4, ScheduleHeard DEF SeesSchedule
  <2>2. CASE supHandle # "held"
    BY <1>0, <1>3, <2>0, <2>2, ScheduleHeard DEF SeesSchedule
  <2> QED
    BY <2>1, <2>2
<1>4. CASE Forces
  BY <1>0, <1>4, ForcesLeaves, NothingHeard DEF TaskAt
<1>5. CASE SeesExit
  BY <1>0, <1>5, SeesExitLeaves, NothingHeard DEF TaskAt
<1>6. CASE CleanupStarts
  BY <1>0, <1>6, CleanupStartsLeaves, NothingHeard DEF TaskAt
<1>7. CASE CleanupPolls
  BY <1>0, <1>7, CleanupPollsLeaves, NothingHeard DEF TaskAt
<1>8. CASE Retries
  <2>0. supHandle # "none"
    BY <1>0, <1>8 DEF Retries, TaskHonest
  <2>1. CASE supHandle = "held"
    <3>1. /\ supWatch.unread /\ supWatch' = [supWatch EXCEPT !.unread = FALSE]
          /\ supTask' = [supTask EXCEPT !.phase = "cleanup", !.stop = supWatch.value]
      BY <1>8, <2>1 DEF Retries, ChannelClosed
    <3>2. supWatch.value \in Schedules \cup {NoSchedule} /\ supTask \in TaskRecord
      BY <1>0 DEF SupTypeOK, WatchRecord
    <3>3. supTask'.stop = supWatch.value
      BY <3>1, <3>2, TaskRetries
    <3> QED
      BY <1>0, <1>8, <2>0, <3>1, <3>3, ScheduleHeard DEF Retries
  <2>2. CASE supHandle # "held"
    BY <1>0, <1>8, <2>0, <2>2, ScheduleHeard DEF Retries
  <2> QED
    BY <2>1, <2>2
<1>9. CASE ProcessesEnd
  BY <1>0, <1>9, NothingHeard DEF ProcessesEnd
<1>10. CASE SupTick
  BY <1>0, <1>10, TimeHeard
<1>11. ASSUME NEW c \in Stops, StopBegins(c) PROVE Heard'
  BY <1>0, <1>11, StopHeard
<1>12. ASSUME NEW c \in Stops, StopEnds(c) PROVE Heard'
  <2>1. \A d \in Stops : supStops'[d].step = "waiting" => supStops'[d] = supStops[d]
    BY <1>0, <1>12 DEF StopEnds, SupTypeOK
  <2>2. \A d \in Stops : supStops'[d].step = "waiting" => supStops[d].step = "waiting"
    BY <2>1
  <2> QED
    BY <1>12, <2>1, <2>2 DEF StopEnds, Heard, Begun
<1>13. CASE UNCHANGED supVars
  BY <1>0, <1>13, NothingHeard DEF supVars
<1> QED
  BY <1>1, <1>2, <1>3, <1>4, <1>5, <1>6, <1>7, <1>8, <1>9, <1>10, <1>11, <1>12, <1>13
  DEF SupNext, TaskSteps

LEMMA SupHeard == SupInv /\ Heard => NoStopUnheard
BY DEF SupInv, SupTypeOK, TaskHonest, Heard, NoStopUnheard

-----------------------------------------------------------------------------
(* A tool's process: the bytes of a stream between two positions             *)

Interval(a, b) == [i \in 1..(b - a) |-> a + i]

LEMMA IntervalSeq ==
  ASSUME NEW a \in Nat, NEW b \in Nat, a <= b
  PROVE  /\ Interval(a, b) \in Seq(Nat)
         /\ Len(Interval(a, b)) = b - a
         /\ \A i \in 1..(b - a) : Interval(a, b)[i] = a + i
<1>1. b - a \in Nat
  OBVIOUS
<1>2. Interval(a, b) \in [1..(b - a) -> Nat]
  BY DEF Interval
<1>3. Interval(a, b) \in Seq(Nat)
  BY <1>1, <1>2, SeqDef
<1>4. DOMAIN Interval(a, b) = 1..(b - a)
  BY DEF Interval
<1>5. Len(Interval(a, b)) = b - a
  BY <1>1, <1>3, <1>4, LenProperties
<1> QED
  BY <1>3, <1>5 DEF Interval

LEMMA IntervalIs ==
  ASSUME NEW a \in Nat, NEW b \in Nat, a <= b, NEW q \in Seq(Nat), Len(q) = b - a,
         \A i \in 1..(b - a) : q[i] = a + i
  PROVE  q = Interval(a, b)
<1> DEFINE r == Interval(a, b)
<1>1. r \in Seq(Nat) /\ Len(r) = b - a /\ \A i \in 1..(b - a) : r[i] = a + i
  BY IntervalSeq
<1> HIDE DEF r
<1>2. Len(q) = Len(r) /\ \A i \in 1..Len(q) : q[i] = r[i]
  BY <1>1
<1>3. q = r
  BY <1>1, <1>2, SeqEqual
<1> QED
  BY <1>3 DEF r

LEMMA IntervalNil ==
  ASSUME NEW a \in Nat
  PROVE  Interval(a, a) = <<>>
<1>1. Interval(a, a) \in Seq(Nat) /\ Len(Interval(a, a)) = 0
  BY IntervalSeq
<1> QED
  BY <1>1, EmptySeq

LEMMA IntervalDrop ==
  ASSUME NEW a \in Nat, NEW b \in Nat, a <= b, NEW n \in Nat, n <= b - a
  PROVE  Drop(Interval(a, b), n) = Interval(a + n, b)
<1> DEFINE q == Interval(a, b)
           d == SubSeq(q, n + 1, Len(q))
<1>1. q \in Seq(Nat) /\ Len(q) = b - a /\ \A i \in 1..(b - a) : q[i] = a + i
  BY IntervalSeq
<1> HIDE DEF q
<1>2. \A i \in (n + 1)..Len(q) : q[i] \in Nat
  BY <1>1
<1>3. /\ d \in Seq(Nat)
      /\ Len(d) = IF n + 1 <= Len(q) THEN Len(q) - (n + 1) + 1 ELSE 0
      /\ \A i \in 1..(Len(q) - (n + 1) + 1) : d[i] = q[(n + 1) + i - 1]
  BY <1>1, <1>2, SubSeqProperties
<1> HIDE DEF d
<1>4. Len(d) = b - (a + n) /\ a + n \in Nat /\ a + n <= b
  BY <1>1, <1>3
<1>5. \A i \in 1..(b - (a + n)) : d[i] = (a + n) + i
  <2>1. SUFFICES ASSUME NEW i \in 1..(b - (a + n)) PROVE d[i] = (a + n) + i
    OBVIOUS
  <2>2. i \in 1..(Len(q) - (n + 1) + 1) /\ (n + 1) + i - 1 = n + i /\ n + i \in 1..(b - a)
    BY <1>1
  <2> QED
    BY <1>1, <1>3, <2>2
<1>6. d = Interval(a + n, b)
  BY <1>3, <1>4, <1>5, IntervalIs
<1> QED
  BY <1>6 DEF Drop, q, d

LEMMA IntervalJoin ==
  ASSUME NEW a \in Nat, NEW b \in Nat, NEW c \in Nat, a <= b, b <= c
  PROVE  Interval(a, b) \o Interval(b, c) = Interval(a, c)
<1> DEFINE q == Interval(a, b)
           r == Interval(b, c)
           j == q \o r
<1>1. q \in Seq(Nat) /\ Len(q) = b - a /\ \A i \in 1..(b - a) : q[i] = a + i
  BY IntervalSeq
<1>2. r \in Seq(Nat) /\ Len(r) = c - b /\ \A i \in 1..(c - b) : r[i] = b + i
  BY IntervalSeq
<1> HIDE DEF q, r
<1>3. /\ j \in Seq(Nat) /\ Len(j) = Len(q) + Len(r)
      /\ \A i \in 1..(Len(q) + Len(r)) :
           j[i] = IF i <= Len(q) THEN q[i] ELSE r[i - Len(q)]
  BY <1>1, <1>2, ConcatProperties
<1> HIDE DEF j
<1>4. \A i \in 1..(c - a) : j[i] = a + i
  <2>1. SUFFICES ASSUME NEW i \in 1..(c - a) PROVE j[i] = a + i
    OBVIOUS
  <2>2. CASE i <= b - a
    BY <1>1, <1>2, <1>3, <2>2
  <2>3. CASE ~(i <= b - a)
    <3>1. i - (b - a) \in 1..(c - b) /\ b + (i - (b - a)) = a + i
      BY <2>3
    <3> QED
      BY <1>1, <1>2, <1>3, <2>3, <3>1
  <2> QED
    BY <2>2, <2>3
<1>6. Len(j) = c - a /\ a <= c
  BY <1>1, <1>2, <1>3
<1>5. j = Interval(a, c)
  BY <1>3, <1>4, <1>6, IntervalIs
<1> QED
  BY <1>5 DEF q, r, j

-----------------------------------------------------------------------------
(* What TailBuffer keeps of a stream is its last TailSize bytes.             *)

TailRecord == [bytes : Seq(Nat), truncated : Nat]
Taken(tail) == tail.truncated + Len(tail.bytes)
Kept(tail) ==
  /\ tail.bytes = Interval(tail.truncated, Taken(tail))
  /\ Len(tail.bytes) = IF Taken(tail) < TailSize THEN Taken(tail) ELSE TailSize

LEMMA TailPushed ==
  ASSUME NEW tail \in TailRecord, Kept(tail), NEW b \in Nat, Taken(tail) < b
  PROVE  LET chunk == Interval(Taken(tail), b) IN
         /\ Push(tail, chunk) \in TailRecord
         /\ Kept(Push(tail, chunk))
         /\ Taken(Push(tail, chunk)) = b
<1> DEFINE t == tail.truncated
           a == Taken(tail)
           chunk == Interval(a, b)
           overflow == Len(tail.bytes) + Len(chunk) - TailSize
<1>0. TailSize \in Nat \ {0}
  BY ContainedProcessConstants
<1>1. /\ t \in Nat /\ a \in Nat /\ t <= a /\ Len(tail.bytes) = a - t
      /\ tail.bytes = Interval(t, a) /\ a - t = IF a < TailSize THEN a ELSE TailSize
      /\ a < b
  BY DEF TailRecord, Taken, Kept
<1> HIDE DEF t, a
<1>9. a <= b
  BY <1>1
<1>2. chunk \in Seq(Nat) /\ Len(chunk) = b - a
  BY <1>1, <1>9, IntervalSeq
<1> HIDE DEF chunk
<1>3. overflow = b - t - TailSize
  BY <1>0, <1>1, <1>2
<1> HIDE DEF overflow
<1>4. SUFFICES /\ Push(tail, chunk) \in TailRecord
               /\ Kept(Push(tail, chunk))
               /\ Taken(Push(tail, chunk)) = b
  BY DEF chunk, a
\* Each case leaves the bytes from some position on.
<1>5. ASSUME NEW u \in Nat, u <= b, b - u = IF b < TailSize THEN b ELSE TailSize,
             NEW new, new = [bytes |-> Interval(u, b), truncated |-> u]
      PROVE  new \in TailRecord /\ Kept(new) /\ Taken(new) = b
  <2>1. Interval(u, b) \in Seq(Nat) /\ Len(Interval(u, b)) = b - u
    BY <1>5, IntervalSeq
  <2>2. Taken(new) = b
    BY <1>5, <2>1 DEF Taken
  <2> QED
    BY <1>5, <2>1, <2>2 DEF TailRecord, Kept
<1>6. CASE b - a >= TailSize
  <2>1. (b - a) - TailSize \in Nat /\ (b - a) - TailSize <= b - a
    BY <1>0, <1>1, <1>6
  <2>2. a + ((b - a) - TailSize) = b - TailSize
    BY <1>0, <1>1
  <2>3. Drop(chunk, Len(chunk) - TailSize) = Interval(b - TailSize, b)
    BY <1>1, <1>2, <2>1, <2>2, IntervalDrop DEF chunk
  <2>4. t + overflow = b - TailSize
    BY <1>0, <1>1, <1>3
  <2>5. Push(tail, chunk) = [bytes |-> Interval(b - TailSize, b), truncated |-> b - TailSize]
    BY <1>2, <1>6, <2>3, <2>4 DEF Push, overflow, t
  <2> QED
    BY <1>0, <1>1, <1>5, <1>6, <2>5
<1>7. CASE b - a < TailSize /\ overflow > 0
  <2>1. overflow \in Nat /\ overflow <= a - t /\ t + overflow = b - TailSize
    BY <1>0, <1>1, <1>3, <1>7
  <2>2. Drop(tail.bytes, overflow) = Interval(b - TailSize, a)
    BY <1>1, <2>1, IntervalDrop
  <2>3. b - TailSize \in Nat /\ b - TailSize <= a
    BY <1>0, <1>1, <1>7, <2>1
  <2>6. Interval(b - TailSize, a) \o Interval(a, b) = Interval(b - TailSize, b)
    BY <1>1, <1>9, <2>3, IntervalJoin
  <2>4. Drop(tail.bytes, overflow) \o chunk = Interval(b - TailSize, b)
    BY <2>2, <2>6 DEF chunk
  <2>7. ~(Len(chunk) >= TailSize)
    BY <1>0, <1>2, <1>7
  <2>8. Push(tail, chunk) = [bytes |-> Drop(tail.bytes, overflow) \o chunk,
                             truncated |-> t + overflow]
    BY <1>7, <2>7 DEF Push, overflow, t
  <2>5. Push(tail, chunk) = [bytes |-> Interval(b - TailSize, b), truncated |-> b - TailSize]
    BY <2>1, <2>4, <2>8
  <2> QED
    BY <1>0, <1>1, <1>5, <1>7, <2>3, <2>5
<1>8. CASE b - a < TailSize /\ ~(overflow > 0)
  <2>5. Interval(t, a) \o Interval(a, b) = Interval(t, b)
    BY <1>1, <1>9, IntervalJoin
  <2>1. tail.bytes \o chunk = Interval(t, b)
    BY <1>1, <2>5 DEF chunk
  <2>6. ~(Len(chunk) >= TailSize)
    BY <1>0, <1>2, <1>8
  <2>2. tail = [bytes |-> tail.bytes, truncated |-> t]
    BY DEF TailRecord, t
  <2>7. Push(tail, chunk) = [tail EXCEPT !.bytes = tail.bytes \o chunk]
    BY <1>8, <2>6 DEF Push, overflow
  <2>3. Push(tail, chunk) = [bytes |-> Interval(t, b), truncated |-> t]
    BY <2>1, <2>2, <2>7
  <2>4. b - t = IF b < TailSize THEN b ELSE TailSize
    BY <1>0, <1>1, <1>3, <1>8
  <2> QED
    BY <1>1, <1>5, <2>3, <2>4
<1> QED
  BY <1>0, <1>1, <1>3, <1>6, <1>7, <1>8

-----------------------------------------------------------------------------
(* Every byte of a stream is, in its order, in the tail or pushed out of it, *)
(* in a chunk of the channel, held by the reader or still in the pipe.       *)

ChunkRecord == [stream : Streams, bytes : Seq(Nat)]
PipeRecord == [written : Nat, read : Nat, held : Seq(Nat),
               reader : {"on", "ended", "aborted"}, tail : TailRecord]

(* marks[k] is the position in stream s after the first k chunks of queue.   *)
Marks(p, queue, s, marks) ==
  /\ marks[0] = Taken(p.tail)
  /\ marks[Len(queue)] = p.read - Len(p.held)
  /\ \A k \in 0..Len(queue) : marks[k] <= p.read
  /\ \A k \in 1..Len(queue) :
       IF queue[k].stream = s
       THEN marks[k - 1] < marks[k] /\ queue[k].bytes = Interval(marks[k - 1], marks[k])
       ELSE marks[k] = marks[k - 1]

Piped(p, queue, s) == \E marks \in [0..Len(queue) -> Nat] : Marks(p, queue, s, marks)

StreamKept(p, queue, s) ==
  /\ Kept(p.tail)
  /\ Len(p.held) <= p.read /\ p.held = Interval(p.read - Len(p.held), p.read)
  /\ p.read <= p.written
  /\ Piped(p, queue, s)
  /\ p.reader = "ended" => p.held = <<>> /\ p.read = p.written

OutputKept ==
  /\ toolPipes \in [Streams -> PipeRecord] /\ toolChannel \in Seq(ChunkRecord)
  /\ \A s \in Streams : StreamKept(toolPipes[s], toolChannel, s)
  /\ \A s \in Streams : toolPipes[s].reader = "ended" => ~Alive /\ toolStep # "idle"
  /\ toolDrained =>
       /\ toolStep \in {"stdin", "done"}
       /\ \A s \in Streams : /\ toolPipes[s].reader = "ended"
                             /\ Taken(toolPipes[s].tail) = toolPipes[s].written

ToolTree == [platform : {"windows", "unix"}, job : BOOLEAN,
             child : {"unborn", "running", "exited", "killed"},
             descendant : {"none", "running", "gone"}]

TreeKept ==
  /\ toolTree \in ToolTree
  /\ toolStep = "idle" => ~Alive
  /\ TreeReleased

ToolInv == OutputKept /\ TreeKept

LEMMA ToolStarts == ToolInit => ToolInv
<1> SUFFICES ASSUME ToolInit PROVE ToolInv
  OBVIOUS
<1>1. TreeKept
  BY DEF ToolInit, TreeKept, ToolTree, TreeReleased, Alive
<1> DEFINE p == [written |-> 0, read |-> 0, held |-> <<>>, reader |-> "on", tail |-> EmptyTail]
           marks == [k \in 0..0 |-> 0]
<1>2. /\ <<>> \in Seq(Nat) /\ Len(<<>>) = 0 /\ <<>> \in Seq(ChunkRecord)
      /\ Interval(0, 0) = <<>>
  BY IntervalNil
<1>3. TailSize \in Nat \ {0}
  BY ContainedProcessConstants
<1>4. EmptyTail \in TailRecord /\ Taken(EmptyTail) = 0 /\ Kept(EmptyTail)
  BY <1>2, <1>3 DEF EmptyTail, TailRecord, Taken, Kept
<1>5. p \in PipeRecord
  BY <1>2, <1>4 DEF PipeRecord
<1>6. ASSUME NEW s \in Streams PROVE StreamKept(p, <<>>, s)
  <2>1. marks \in [0..Len(<<>>) -> Nat] /\ Marks(p, <<>>, s, marks)
    BY <1>2, <1>4 DEF Marks
  <2>2. Piped(p, <<>>, s)
    BY <2>1 DEF Piped
  <2> QED
    BY <1>2, <1>4, <2>2 DEF StreamKept
<1>7. toolPipes = [s \in Streams |-> p] /\ toolChannel = <<>> /\ ~toolDrained
  BY DEF ToolInit
<1>8. p.reader = "on"
  OBVIOUS
<1> HIDE DEF p
<1>9. OutputKept
  BY <1>2, <1>5, <1>6, <1>7, <1>8 DEF OutputKept
<1> QED
  BY <1>1, <1>9 DEF ToolInv

LEMMA ToolAccounts == ToolInv => TreeReleased /\ OutputAccounted
<1> SUFFICES ASSUME ToolInv, toolStep = "done", NEW s \in Streams
             PROVE  LET p == toolPipes[s]
                        taken == p.tail.truncated + Len(p.tail.bytes) IN
                    /\ p.tail.bytes = [i \in 1..Len(p.tail.bytes) |-> p.tail.truncated + i]
                    /\ taken <= p.written
                    /\ Len(p.tail.bytes) = IF taken < TailSize THEN taken ELSE TailSize
                    /\ toolDrained => taken = p.written
  BY DEF ToolInv, TreeKept, OutputAccounted
<1> DEFINE p == toolPipes[s]
<1>1. p \in PipeRecord /\ StreamKept(p, toolChannel, s) /\ toolChannel \in Seq(ChunkRecord)
  BY DEF ToolInv, OutputKept
<1>2. toolDrained => Taken(p.tail) = p.written
  BY DEF ToolInv, OutputKept
<1> HIDE DEF p
<1>3. p.tail \in TailRecord /\ p.read \in Nat /\ p.written \in Nat
  BY <1>1 DEF PipeRecord
<1>4. PICK marks \in [0..Len(toolChannel) -> Nat] : Marks(p, toolChannel, s, marks)
  BY <1>1 DEF StreamKept, Piped
<1>5. 0 \in 0..Len(toolChannel)
  BY <1>1
<1>6. Taken(p.tail) <= p.read
  BY <1>4, <1>5 DEF Marks
<1>7. p.tail.truncated \in Nat /\ Len(p.tail.bytes) \in Nat
  BY <1>3 DEF TailRecord
<1>8. Taken(p.tail) - p.tail.truncated = Len(p.tail.bytes)
  BY <1>7 DEF Taken
<1>9. p.tail.bytes = [i \in 1..Len(p.tail.bytes) |-> p.tail.truncated + i]
  BY <1>1, <1>8 DEF StreamKept, Kept, Interval
<1>10. Taken(p.tail) <= p.written
  BY <1>1, <1>3, <1>6, <1>7 DEF StreamKept, Taken
<1>11. Len(p.tail.bytes) = IF Taken(p.tail) < TailSize THEN Taken(p.tail) ELSE TailSize
  BY <1>1 DEF StreamKept, Kept
<1> QED
  BY <1>2, <1>9, <1>10, <1>11 DEF Taken, p

LEMMA TreeDied ==
  ASSUME NEW tree \in ToolTree
  PROVE  /\ Died(tree) \in ToolTree
         /\ Died(tree).child # "running" /\ Died(tree).platform = tree.platform
         /\ Died(tree).descendant = "running" =>
              tree.descendant = "running" /\ tree.platform # "windows"
<1> DEFINE child == IF tree.child = "running" THEN "killed" ELSE tree.child
           descendant == IF tree.descendant = "running" /\ tree.platform = "windows"
                         THEN "gone" ELSE tree.descendant
           mid == [tree EXCEPT !.child = child]
<1>1. /\ child \in {"unborn", "running", "exited", "killed"} /\ child # "running"
      /\ descendant \in {"none", "running", "gone"}
      /\ descendant = "running" => tree.descendant = "running" /\ tree.platform # "windows"
  BY DEF ToolTree
<1>2. Died(tree) = [tree EXCEPT !.child = child, !.descendant = descendant]
  BY DEF Died
<1> HIDE DEF child, descendant
<1>3. mid \in ToolTree /\ mid.child = child /\ mid.platform = tree.platform
  BY <1>1 DEF ToolTree
<1>4. Died(tree) = [mid EXCEPT !.descendant = descendant]
  BY <1>2
<1> HIDE DEF mid
<1>5. /\ Died(tree) \in ToolTree /\ Died(tree).child = child
      /\ Died(tree).platform = tree.platform /\ Died(tree).descendant = descendant
  BY <1>1, <1>3, <1>4 DEF ToolTree
<1> QED
  BY <1>1, <1>5

(* A step that leaves the output alone and lets nothing come alive.          *)
LEMMA ToolFrame ==
  ASSUME ToolInv, UNCHANGED <<toolPipes, toolChannel, toolDrained>>,
         toolTree' \in ToolTree, Alive' => Alive \/ toolStep = "idle",
         toolStep' # "idle", toolDrained => toolStep' \in {"stdin", "done"},
         TreeReleased'
  PROVE  ToolInv'
<1>1. OutputKept'
  BY DEF ToolInv, OutputKept
<1> QED
  BY <1>1 DEF ToolInv, TreeKept

(* A step of one stream before the drain has seen the channel closed.        *)
LEMMA StreamFrame ==
  ASSUME ToolInv, NEW s \in Streams, NEW p \in PipeRecord,
         toolPipes' = [toolPipes EXCEPT ![s] = p],
         toolChannel' \in Seq(ChunkRecord), StreamKept(p, toolChannel', s),
         \A r \in Streams : r # s => Piped(toolPipes[r], toolChannel', r),
         p.reader = "ended" => ~Alive,
         UNCHANGED <<toolTree, toolDrained>>, ~toolDrained,
         toolStep' \notin {"idle", "done"}, toolStep # "idle"
  PROVE  ToolInv'
<1>1. toolPipes' \in [Streams -> PipeRecord] /\ toolPipes'[s] = p
      /\ \A r \in Streams : r # s => toolPipes'[r] = toolPipes[r]
  BY DEF ToolInv, OutputKept
<1>2. ASSUME NEW r \in Streams PROVE StreamKept(toolPipes'[r], toolChannel', r)
  <2>1. CASE r = s
    BY <1>1, <2>1
  <2>2. CASE r # s
    BY <1>1, <2>2 DEF ToolInv, OutputKept, StreamKept
  <2> QED
    BY <2>1, <2>2
<1>3. ASSUME NEW r \in Streams, toolPipes'[r].reader = "ended" PROVE ~Alive'
  BY <1>1, <1>3 DEF ToolInv, OutputKept, Alive
<1>4. OutputKept'
  BY <1>1, <1>2, <1>3 DEF OutputKept
<1>5. TreeKept'
  BY DEF ToolInv, TreeKept, TreeReleased
<1> QED
  BY <1>4, <1>5 DEF ToolInv

-----------------------------------------------------------------------------
(* The process prints.                                                       *)
LEMMA PrintsKept ==
  ASSUME ToolInv, NEW s \in Streams, Prints(s)
  PROVE  ToolInv'
<1> DEFINE old == toolPipes[s]
           p == [old EXCEPT !.written = old.written + 1]
<1>1. /\ old \in PipeRecord /\ StreamKept(old, toolChannel, s)
      /\ toolChannel \in Seq(ChunkRecord)
  BY DEF ToolInv, OutputKept
<1>2. toolPipes' = [toolPipes EXCEPT ![s] = p]
  BY DEF Prints
<1>3. old.reader # "ended" /\ ~toolDrained
  BY DEF ToolInv, OutputKept, Prints
<1> HIDE DEF old
<1>4. /\ p \in PipeRecord /\ p.written = old.written + 1 /\ p.read = old.read
      /\ p.held = old.held /\ p.reader = old.reader /\ p.tail = old.tail
  BY <1>1 DEF PipeRecord
<1> HIDE DEF p
<1>5. Piped(p, toolChannel, s)
  BY <1>1, <1>4 DEF StreamKept, Piped, Marks
<1>6. StreamKept(p, toolChannel, s)
  <2>1. old.read \in Nat /\ old.written \in Nat
    BY <1>1 DEF PipeRecord
  <2> QED
    BY <1>1, <1>3, <1>4, <1>5, <2>1 DEF StreamKept
<1>7. \A r \in Streams : Piped(toolPipes[r], toolChannel, r)
  BY DEF ToolInv, OutputKept, StreamKept
<1> QED
  BY <1>1, <1>2, <1>3, <1>4, <1>6, <1>7, StreamFrame DEF Prints, Called

(* The reader takes what the pipe holds.                                     *)
LEMMA ReadKept ==
  ASSUME ToolInv, NEW s \in Streams, ReaderMoves(s),
         toolPipes[s].held = <<>>, toolPipes[s].read < toolPipes[s].written,
         toolPipes' = [toolPipes EXCEPT
             ![s].held = [i \in 1..(toolPipes[s].written - toolPipes[s].read)
                            |-> toolPipes[s].read + i],
             ![s].read = toolPipes[s].written],
         UNCHANGED toolChannel
  PROVE  ToolInv'
<1> DEFINE old == toolPipes[s]
           held == Interval(old.read, old.written)
           mid == [old EXCEPT !.held = held]
           p == [mid EXCEPT !.read = old.written]
<1>1. /\ old \in PipeRecord /\ StreamKept(old, toolChannel, s)
      /\ toolChannel \in Seq(ChunkRecord)
  BY DEF ToolInv, OutputKept
<1>2. toolPipes' = [toolPipes EXCEPT ![s] = p]
  BY DEF Interval
<1>3. old.reader = "on" /\ old.held = <<>> /\ old.read < old.written
  BY DEF ReaderMoves
<1>4. ~toolDrained
  BY <1>3 DEF ToolInv, OutputKept
<1> HIDE DEF old
<1>5. old.read \in Nat /\ old.written \in Nat /\ old.read <= old.written
  BY <1>1, <1>3 DEF PipeRecord
<1>6. held \in Seq(Nat) /\ Len(held) = old.written - old.read
  BY <1>5, IntervalSeq
<1> HIDE DEF held
<1>7. /\ mid \in PipeRecord /\ mid.held = held /\ mid.written = old.written
      /\ mid.reader = old.reader /\ mid.tail = old.tail
  BY <1>1, <1>6 DEF PipeRecord
<1> HIDE DEF mid
<1>8. /\ p \in PipeRecord /\ p.held = held /\ p.written = old.written
      /\ p.reader = old.reader /\ p.tail = old.tail /\ p.read = old.written
  BY <1>5, <1>7 DEF PipeRecord
<1> HIDE DEF p
<1>9. p.read - Len(p.held) = old.read /\ old.read - Len(old.held) = old.read
  BY <1>3, <1>5, <1>6, <1>8
<1>10. Piped(p, toolChannel, s)
  <2>1. PICK marks \in [0..Len(toolChannel) -> Nat] : Marks(old, toolChannel, s, marks)
    BY <1>1 DEF StreamKept, Piped
  <2>2. \A k \in 0..Len(toolChannel) : marks[k] <= p.read
    <3>1. \A k \in 0..Len(toolChannel) : marks[k] \in Nat /\ marks[k] <= old.read
      BY <2>1 DEF Marks
    <3> QED
      BY <1>5, <1>8, <3>1
  <2>3. Marks(p, toolChannel, s, marks)
    BY <1>8, <1>9, <2>1, <2>2 DEF Marks
  <2> QED
    BY <2>3 DEF Piped
<1>11. StreamKept(p, toolChannel, s)
  <2>1. p.held = Interval(p.read - Len(p.held), p.read)
    BY <1>8, <1>9 DEF held
  <2>2. Len(p.held) <= p.read /\ p.read <= p.written
    BY <1>5, <1>6, <1>8
  <2> QED
    BY <1>1, <1>3, <1>8, <1>10, <2>1, <2>2 DEF StreamKept
<1>12. \A r \in Streams : Piped(toolPipes[r], toolChannel, r)
  BY DEF ToolInv, OutputKept, StreamKept
<1> QED
  BY <1>1, <1>2, <1>3, <1>4, <1>8, <1>11, <1>12, StreamFrame DEF ReaderMoves, Called

(* The reader sees the end of the stream.                                    *)
LEMMA EndKept ==
  ASSUME ToolInv, NEW s \in Streams, ReaderMoves(s),
         toolPipes[s].held = <<>>, toolPipes[s].read = toolPipes[s].written, ~Alive,
         toolPipes' = [toolPipes EXCEPT ![s].reader = "ended"],
         UNCHANGED toolChannel
  PROVE  ToolInv'
<1> DEFINE old == toolPipes[s]
           p == [old EXCEPT !.reader = "ended"]
<1>1. /\ old \in PipeRecord /\ StreamKept(old, toolChannel, s)
      /\ toolChannel \in Seq(ChunkRecord)
  BY DEF ToolInv, OutputKept
<1>2. toolPipes' = [toolPipes EXCEPT ![s] = p]
  OBVIOUS
<1>3. old.reader = "on" /\ old.held = <<>> /\ old.read = old.written
  BY DEF ReaderMoves
<1>4. ~toolDrained
  BY <1>3 DEF ToolInv, OutputKept
<1> HIDE DEF old
<1>5. /\ p \in PipeRecord /\ p.written = old.written /\ p.read = old.read
      /\ p.held = old.held /\ p.tail = old.tail
  BY <1>1 DEF PipeRecord
<1> HIDE DEF p
<1>6. Piped(p, toolChannel, s)
  BY <1>1, <1>5 DEF StreamKept, Piped, Marks
<1>7. StreamKept(p, toolChannel, s)
  BY <1>1, <1>3, <1>5, <1>6 DEF StreamKept
<1>8. \A r \in Streams : Piped(toolPipes[r], toolChannel, r)
  BY DEF ToolInv, OutputKept, StreamKept
<1> QED
  BY <1>1, <1>2, <1>4, <1>5, <1>7, <1>8, StreamFrame DEF ReaderMoves, Called

(* The reader sends what it holds.                                           *)
LEMMA SentMarks ==
  ASSUME NEW queue \in Seq(ChunkRecord), NEW chunk \in ChunkRecord, NEW r \in Streams,
         NEW p \in PipeRecord, NEW old \in PipeRecord,
         Piped(old, queue, r), p.tail = old.tail, p.read = old.read,
         IF chunk.stream = r
         THEN /\ old.held # <<>> /\ chunk.bytes = Interval(old.read - Len(old.held), old.read)
              /\ p.held = <<>>
         ELSE p.held = old.held
  PROVE  Piped(p, Append(queue, chunk), r)
<1> DEFINE n == Len(queue)
           more == Append(queue, chunk)
<1>1. /\ n \in Nat /\ Len(more) = n + 1 /\ more[n + 1] = chunk
      /\ \A k \in 1..n : more[k] = queue[k]
  OBVIOUS
<1>2. PICK marks \in [0..n -> Nat] : Marks(old, queue, r, marks)
  BY DEF Piped
<1> HIDE DEF n, more
<1> DEFINE last == p.read - Len(p.held)
           longer == [k \in 0..(n + 1) |-> IF k <= n THEN marks[k] ELSE last]
<1>3. /\ p.read \in Nat /\ Len(p.held) \in Nat /\ Len(old.held) \in Nat
      /\ old.held # <<>> => Len(old.held) > 0
  BY EmptySeq DEF PipeRecord
<1>4. marks[n] = old.read - Len(old.held) /\ marks[n] \in Nat /\ marks[n] <= p.read
  BY <1>1, <1>2 DEF Marks, n
<1>5. last \in Nat /\ last <= p.read
  BY <1>3, <1>4
<1>6. IF chunk.stream = r
      THEN marks[n] < last /\ chunk.bytes = Interval(marks[n], last)
      ELSE last = marks[n]
  <2>1. CASE chunk.stream = r
    <3>1. Len(p.held) = 0
      BY <2>1
    <3>2. last = p.read
      BY <1>3, <3>1
    <3>3. marks[n] < last
      BY <1>3, <1>4, <2>1, <3>2
    <3> QED
      BY <1>4, <2>1, <3>2, <3>3
  <2>2. CASE chunk.stream # r
    BY <1>4, <2>2
  <2> QED
    BY <2>1, <2>2
<1> HIDE DEF last
<1>7. longer \in [0..(n + 1) -> Nat]
  BY <1>1, <1>2, <1>5
<1>8. longer[n + 1] = last /\ \A k \in 0..n : longer[k] = marks[k]
  BY <1>1
<1> HIDE DEF longer
<1>9. \A k \in 0..(n + 1) : longer[k] <= p.read
  BY <1>1, <1>2, <1>5, <1>8 DEF Marks, n
<1>10. longer[0] = Taken(p.tail)
  BY <1>1, <1>2, <1>8 DEF Marks
<1>11. ASSUME NEW k \in 1..(n + 1)
       PROVE  IF more[k].stream = r
              THEN longer[k - 1] < longer[k]
                   /\ more[k].bytes = Interval(longer[k - 1], longer[k])
              ELSE longer[k] = longer[k - 1]
  <2>1. CASE k = n + 1
    <3>1. k - 1 = n /\ n \in 0..n
      BY <1>1, <2>1
    <3> QED
      BY <1>1, <1>6, <1>8, <2>1, <3>1
  <2>2. CASE k # n + 1
    <3>1. k \in 1..n /\ k \in 0..n /\ k - 1 \in 0..n
      BY <1>1, <2>2
    <3> QED
      BY <1>1, <1>2, <1>8, <3>1 DEF Marks, n
  <2> QED
    BY <2>1, <2>2
<1>12. Marks(p, more, r, longer)
  BY <1>1, <1>8, <1>9, <1>10, <1>11 DEF Marks, last
<1> QED
  BY <1>1, <1>7, <1>12 DEF Piped, more

LEMMA SendKept ==
  ASSUME ToolInv, NEW s \in Streams, ReaderMoves(s), toolPipes[s].held # <<>>,
         toolChannel' = Append(toolChannel,
                               [stream |-> s, bytes |-> toolPipes[s].held]),
         toolPipes' = [toolPipes EXCEPT ![s].held = <<>>]
  PROVE  ToolInv'
<1> DEFINE old == toolPipes[s]
           p == [old EXCEPT !.held = <<>>]
           chunk == [stream |-> s, bytes |-> old.held]
<1>1. /\ old \in PipeRecord /\ StreamKept(old, toolChannel, s)
      /\ toolChannel \in Seq(ChunkRecord)
  BY DEF ToolInv, OutputKept
<1>2. toolPipes' = [toolPipes EXCEPT ![s] = p]
  OBVIOUS
<1>3. toolChannel' = Append(toolChannel, chunk) /\ old.held # <<>>
  OBVIOUS
<1>4. old.reader = "on"
  BY DEF ReaderMoves
<1>5. ~toolDrained
  BY <1>4 DEF ToolInv, OutputKept
<1>6. \A r \in Streams : toolPipes[r] \in PipeRecord /\ Piped(toolPipes[r], toolChannel, r)
  BY DEF ToolInv, OutputKept, StreamKept
<1> HIDE DEF old
<1>7. chunk \in ChunkRecord /\ chunk.stream = s /\ chunk.bytes = old.held
  BY <1>1 DEF ChunkRecord, PipeRecord
<1> DEFINE nothing == <<>>
<1>14. nothing \in Seq(Nat) /\ p = [old EXCEPT !.held = nothing]
  BY EmptySeq
<1> HIDE DEF p, nothing
<1>15. /\ p \in PipeRecord /\ p.written = old.written /\ p.read = old.read
       /\ p.held = nothing /\ p.tail = old.tail /\ p.reader = old.reader
  BY <1>1, <1>14 DEF PipeRecord
<1>8. /\ p \in PipeRecord /\ p.written = old.written /\ p.read = old.read
      /\ p.held = <<>> /\ p.tail = old.tail /\ p.reader = old.reader
  BY <1>15 DEF nothing
<1> HIDE DEF p, chunk
<1>9. toolChannel' \in Seq(ChunkRecord)
  BY <1>1, <1>3, <1>7
<1>10. Piped(p, toolChannel', s)
  BY <1>1, <1>3, <1>7, <1>8, SentMarks DEF StreamKept
<1>11. \A r \in Streams : r # s => Piped(toolPipes[r], toolChannel', r)
  BY <1>1, <1>3, <1>6, <1>7, SentMarks
<1>12. p.held = Interval(p.read - Len(p.held), p.read) /\ Len(p.held) <= p.read
  <2>1. p.read \in Nat
    BY <1>8 DEF PipeRecord
  <2>2. Len(p.held) = 0 /\ p.read - 0 = p.read
    BY <1>8, <2>1
  <2> QED
    BY <1>8, <2>1, <2>2, IntervalNil
<1>13. StreamKept(p, toolChannel', s)
  BY <1>1, <1>4, <1>8, <1>10, <1>12 DEF StreamKept
<1> QED
  BY <1>1, <1>2, <1>4, <1>5, <1>8, <1>9, <1>11, <1>13, StreamFrame
  DEF ReaderMoves, Called

(* The loop takes the first chunk of the channel into the tail.              *)
LEMMA HeadMarks ==
  ASSUME NEW queue \in Seq(ChunkRecord), queue # <<>>, NEW r \in Streams,
         NEW old \in PipeRecord, Piped(old, queue, r)
  PROVE  \E b \in Nat :
           /\ IF Head(queue).stream = r
              THEN /\ Taken(old.tail) < b
                   /\ Head(queue).bytes = Interval(Taken(old.tail), b)
              ELSE b = Taken(old.tail)
           /\ \A p \in PipeRecord :
                Taken(p.tail) = b /\ p.read = old.read /\ p.held = old.held =>
                  Piped(p, Tail(queue), r)
<1> DEFINE n == Len(queue)
           less == Tail(queue)
<1>1. /\ n \in Nat \ {0} /\ Len(less) = n - 1
      /\ \A k \in 1..(n - 1) : less[k] = queue[k + 1]
      /\ Head(queue) = queue[1]
  BY EmptySeq, HeadTailProperties
<1>2. PICK marks \in [0..n -> Nat] : Marks(old, queue, r, marks)
  BY DEF Piped
<1> HIDE DEF n, less
<1> DEFINE shifted == [k \in 0..(n - 1) |-> marks[k + 1]]
<1>3. shifted \in [0..(n - 1) -> Nat]
  BY <1>1, <1>2
<1>4. \A k \in 0..(n - 1) : shifted[k] = marks[k + 1] /\ k + 1 \in 0..n
  BY <1>1
<1> HIDE DEF shifted
<1>5. 1 \in 1..n /\ 1 \in 0..n /\ 1 - 1 = 0
  BY <1>1
<1>6. IF Head(queue).stream = r
      THEN /\ Taken(old.tail) < marks[1]
           /\ Head(queue).bytes = Interval(Taken(old.tail), marks[1])
      ELSE marks[1] = Taken(old.tail)
  BY <1>1, <1>2, <1>5 DEF Marks, n
<1>7. ASSUME NEW p \in PipeRecord, Taken(p.tail) = marks[1], p.read = old.read,
             p.held = old.held
      PROVE  Piped(p, less, r)
  <2>1. shifted[0] = Taken(p.tail)
    BY <1>1, <1>4, <1>7
  <2>2. shifted[n - 1] = p.read - Len(p.held)
    <3>1. n - 1 \in 0..(n - 1) /\ (n - 1) + 1 = n
      BY <1>1
    <3>2. marks[n] = old.read - Len(old.held)
      BY <1>2 DEF Marks, n
    <3> QED
      BY <1>4, <1>7, <3>1, <3>2
  <2>3. \A k \in 0..(n - 1) : shifted[k] <= p.read
    BY <1>2, <1>4, <1>7 DEF Marks, n
  <2>4. ASSUME NEW k \in 1..(n - 1)
        PROVE  IF less[k].stream = r
               THEN shifted[k - 1] < shifted[k]
                    /\ less[k].bytes = Interval(shifted[k - 1], shifted[k])
               ELSE shifted[k] = shifted[k - 1]
    <3>1. /\ k \in 0..(n - 1) /\ k - 1 \in 0..(n - 1) /\ k + 1 \in 1..n
          /\ (k - 1) + 1 = k /\ (k + 1) - 1 = k
      BY <1>1
    <3>2. shifted[k] = marks[k + 1] /\ shifted[k - 1] = marks[k] /\ less[k] = queue[k + 1]
      BY <1>1, <1>4, <3>1
    <3>3. IF queue[k + 1].stream = r
          THEN marks[k] < marks[k + 1] /\ queue[k + 1].bytes = Interval(marks[k], marks[k + 1])
          ELSE marks[k + 1] = marks[k]
      <4>1. \A j \in 1..n :
              IF queue[j].stream = r
              THEN marks[j - 1] < marks[j] /\ queue[j].bytes = Interval(marks[j - 1], marks[j])
              ELSE marks[j] = marks[j - 1]
        BY <1>2 DEF Marks, n
      <4> QED
        BY <3>1, <4>1
    <3> QED
      BY <3>2, <3>3
  <2>5. Marks(p, less, r, shifted)
    BY <1>1, <2>1, <2>2, <2>3, <2>4 DEF Marks
  <2> QED
    BY <1>1, <1>3, <2>5 DEF Piped
<1>8. marks[1] \in Nat
  BY <1>2, <1>5
<1> QED
  BY <1>6, <1>7, <1>8 DEF less

LEMMA PushKept ==
  ASSUME ToolInv, toolChannel # <<>>, PushHead, UNCHANGED <<toolTree, toolDrained>>,
         ~toolDrained, toolStep' \notin {"idle", "done"}, toolStep # "idle"
  PROVE  ToolInv'
<1>0. toolChannel \in Seq(ChunkRecord) /\ toolPipes \in [Streams -> PipeRecord]
  BY DEF ToolInv, OutputKept
<1> DEFINE chunk == Head(toolChannel)
           s == chunk.stream
           old == toolPipes[s]
           tail == Push(old.tail, chunk.bytes)
           p == [old EXCEPT !.tail = tail]
<1>1. chunk \in ChunkRecord /\ Tail(toolChannel) \in Seq(ChunkRecord)
  BY <1>0, HeadTailProperties
<1>2. s \in Streams
  BY <1>1 DEF ChunkRecord
<1>3. toolChannel' = Tail(toolChannel) /\ toolPipes' = [toolPipes EXCEPT ![s] = p]
  BY DEF PushHead
<1>4. old \in PipeRecord /\ StreamKept(old, toolChannel, s)
  BY <1>2 DEF ToolInv, OutputKept
<1>5. PICK b \in Nat :
        /\ Taken(old.tail) < b /\ chunk.bytes = Interval(Taken(old.tail), b)
        /\ \A q \in PipeRecord :
             Taken(q.tail) = b /\ q.read = old.read /\ q.held = old.held =>
               Piped(q, Tail(toolChannel), s)
  <2>1. Piped(old, toolChannel, s)
    BY <1>4 DEF StreamKept
  <2> QED
    BY <1>0, <1>2, <1>4, <2>1, HeadMarks
<1>6. ASSUME NEW r \in Streams, r # s PROVE Piped(toolPipes[r], Tail(toolChannel), r)
  <2>1. Piped(toolPipes[r], toolChannel, r) /\ toolPipes[r] \in PipeRecord
    BY DEF ToolInv, OutputKept, StreamKept
  <2>2. chunk.stream # r
    BY <1>6
  <2> QED
    BY <1>0, <2>1, <2>2, HeadMarks
<1>7. old.reader = "ended" => ~Alive
  BY <1>2 DEF ToolInv, OutputKept
<1> HIDE DEF chunk, s, old
<1>8. tail \in TailRecord /\ Kept(tail) /\ Taken(tail) = b
  <2>1. old.tail \in TailRecord /\ Kept(old.tail)
    BY <1>4 DEF PipeRecord, StreamKept
  <2> QED
    BY <1>5, <2>1, TailPushed
<1> HIDE DEF tail
<1>9. /\ p \in PipeRecord /\ p.written = old.written /\ p.read = old.read
      /\ p.held = old.held /\ p.tail = tail /\ p.reader = old.reader
  BY <1>4, <1>8 DEF PipeRecord
<1> HIDE DEF p
<1>10. Piped(p, toolChannel', s)
  BY <1>3, <1>5, <1>8, <1>9
<1>11. StreamKept(p, toolChannel', s)
  BY <1>4, <1>8, <1>9, <1>10 DEF StreamKept
<1> QED
  BY <1>1, <1>2, <1>3, <1>6, <1>7, <1>9, <1>11, StreamFrame

(* The drain's deadline passes: the readers that have not ended are aborted. *)
LEMMA AbortKept ==
  ASSUME ToolInv, ~toolDrained, UNCHANGED <<toolTree, toolChannel, toolDrained>>,
         toolStep' = "stdin", toolStep # "idle",
         toolPipes' = [s \in Streams |-> [toolPipes[s] EXCEPT
             !.reader = IF @ = "on" THEN "aborted" ELSE @]]
  PROVE  ToolInv'
<1>1. ASSUME NEW s \in Streams
      PROVE  /\ toolPipes'[s] \in PipeRecord /\ StreamKept(toolPipes'[s], toolChannel', s)
             /\ toolPipes'[s].reader = "ended" => toolPipes[s].reader = "ended"
  <2> DEFINE old == toolPipes[s]
             state == IF old.reader = "on" THEN "aborted" ELSE old.reader
             p == [old EXCEPT !.reader = state]
  <2>1. old \in PipeRecord /\ StreamKept(old, toolChannel, s) /\ toolPipes'[s] = p
    BY DEF ToolInv, OutputKept
  <2>2. state \in {"on", "ended", "aborted"} /\ (state = "ended" => old.reader = "ended")
    BY <2>1 DEF PipeRecord
  <2> HIDE DEF old, state
  <2>3. /\ p \in PipeRecord /\ p.written = old.written /\ p.read = old.read
        /\ p.held = old.held /\ p.tail = old.tail /\ p.reader = state
    BY <2>1, <2>2 DEF PipeRecord
  <2> HIDE DEF p
  <2>4. Piped(p, toolChannel, s)
    BY <2>1, <2>3 DEF StreamKept, Piped, Marks
  <2>5. StreamKept(p, toolChannel, s)
    BY <2>1, <2>2, <2>3, <2>4 DEF StreamKept
  <2> QED
    BY <2>1, <2>2, <2>3, <2>5 DEF old
<1>2. toolPipes' \in [Streams -> PipeRecord]
  BY <1>1
<1>3. OutputKept'
  BY <1>1, <1>2 DEF ToolInv, OutputKept, Alive
<1> QED
  BY <1>3 DEF ToolInv, TreeKept, TreeReleased

(* The drain sees the channel closed: nothing is left between pipe and tail. *)
LEMMA ClosedKept ==
  ASSUME ToolInv, Closed, toolDrained', toolStep' = "stdin", toolStep # "idle",
         UNCHANGED <<toolTree, toolPipes, toolChannel>>
  PROVE  ToolInv'
<1>1. ASSUME NEW s \in Streams
      PROVE  /\ toolPipes[s].reader = "ended"
             /\ Taken(toolPipes[s].tail) = toolPipes[s].written
  <2> DEFINE p == toolPipes[s]
  <2>1. p \in PipeRecord /\ StreamKept(p, toolChannel, s) /\ p.reader = "ended"
    BY DEF ToolInv, OutputKept, Closed
  <2>2. toolChannel = <<>> /\ Len(toolChannel) = 0
    BY DEF Closed
  <2> HIDE DEF p
  <2>3. PICK marks : Marks(p, toolChannel, s, marks)
    BY <2>1 DEF StreamKept, Piped
  <2>4. Taken(p.tail) = p.read - Len(p.held)
    BY <2>2, <2>3 DEF Marks
  <2>5. p.held = <<>> /\ p.read = p.written /\ p.read \in Nat
    BY <2>1 DEF StreamKept, PipeRecord
  <2>6. Len(p.held) = 0
    BY <2>5
  <2> QED
    BY <2>1, <2>4, <2>5, <2>6 DEF p
<1>2. OutputKept'
  BY <1>1 DEF ToolInv, OutputKept, Alive
<1> QED
  BY <1>2 DEF ToolInv, TreeKept, TreeReleased

-----------------------------------------------------------------------------
LEMMA KillKept ==
  ASSUME ToolInv, NEW reason, Kill(reason), toolStep \in {"check", "select"},
         UNCHANGED <<toolPipes, toolChannel, toolDrained>>
  PROVE  ToolInv'
<1>1. toolTree \in ToolTree /\ ~toolDrained
  BY DEF ToolInv, TreeKept, OutputKept
<1>2. toolTree' = Died(toolTree) /\ toolStep' \in {"done", "finish"}
  BY DEF Kill
<1>3. /\ toolTree' \in ToolTree /\ toolTree'.child # "running"
      /\ toolTree'.platform = "windows" => toolTree'.descendant # "running"
      /\ toolTree'.descendant = "running" => toolTree.descendant = "running"
  BY <1>1, <1>2, TreeDied
<1>4. Alive' => Alive
  BY <1>3 DEF Alive
<1> QED
  BY <1>1, <1>2, <1>3, <1>4, ToolFrame DEF TreeReleased

LEMMA ToolStep == ToolInv /\ [ToolNext]_toolVars => ToolInv'
<1> SUFFICES ASSUME ToolInv, [ToolNext]_toolVars PROVE ToolInv'
  OBVIOUS
<1>0. /\ toolTree \in ToolTree
      /\ toolDrained => toolStep \in {"stdin", "done"}
      /\ TreeReleased
  BY DEF ToolInv, TreeKept, OutputKept
<1>1. CASE ToolStart
  <2>0. ~toolDrained /\ toolStep = "idle"
    BY <1>0, <1>1 DEF ToolStart
  <2>1. PICK platform \in Platforms, job \in BOOLEAN :
          LET born == [platform |-> platform, job |-> job,
                       child |-> "running", descendant |-> "none"] IN
          \/ toolTree' = born /\ toolStep' = "check"
          \/ toolTree' = toolTree /\ toolStep' = "done"
          \/ toolTree' = Died(born) /\ toolStep' = "done"
    BY <1>1 DEF ToolStart
  <2> DEFINE born == [platform |-> platform, job |-> job,
                      child |-> "running", descendant |-> "none"]
  <2>2. born \in ToolTree
    BY ContainedProcessConstants DEF ToolTree
  <2>3. UNCHANGED <<toolPipes, toolChannel, toolDrained>>
    BY <1>1 DEF ToolStart
  <2> HIDE DEF born
  <2>4. CASE toolTree' = born /\ toolStep' = "check"
    BY <2>0, <2>2, <2>3, <2>4, ToolFrame DEF TreeReleased
  <2>5. CASE toolTree' = toolTree /\ toolStep' = "done"
    <3>1. ~Alive
      BY <2>0 DEF ToolInv, TreeKept
    <3> QED
      BY <1>0, <2>0, <2>3, <2>5, <3>1, ToolFrame DEF TreeReleased, Alive
  <2>6. CASE toolTree' = Died(born) /\ toolStep' = "done"
    <3>1. /\ toolTree' \in ToolTree /\ toolTree'.child # "running"
          /\ toolTree'.platform = "windows" => toolTree'.descendant # "running"
      BY <2>2, <2>6, TreeDied
    <3> QED
      BY <2>0, <2>3, <2>6, <3>1, ToolFrame DEF TreeReleased
  <2> QED
    BY <2>1, <2>4, <2>5, <2>6 DEF born
<1>2. CASE Check
  <2>1. CASE \E reason \in {"wall_timeout", "idle_timeout"} : Kill(reason)
    BY <1>2, <2>1, KillKept DEF Check
  <2>2. CASE toolStep' = "select" /\ UNCHANGED toolTree
    BY <1>0, <1>2, <2>2, ToolFrame DEF Check, TreeReleased, Alive
  <2> QED
    BY <1>2, <2>1, <2>2 DEF Check
<1>3. CASE SelectExit
  BY <1>0, <1>3, ToolFrame DEF SelectExit, TreeReleased, Alive
<1>4. CASE SelectOutput
  <2>1. ~toolDrained /\ toolStep' = "check"
    BY <1>0, <1>4 DEF SelectOutput, Again
  <2> QED
    BY <1>4, <2>1, PushKept DEF SelectOutput
<1>5. CASE SelectCancel
  BY <1>5, KillKept DEF SelectCancel
<1>6. CASE SelectPoll
  BY <1>0, <1>6, ToolFrame DEF SelectPoll, Again, TreeReleased, Alive
<1>7. CASE StartDrain
  <2>1. toolTree' \in ToolTree
    BY <1>0, <1>7, TreeDied DEF StartDrain
  <2>2. Alive' => Alive
    BY <1>0, <1>7, TreeDied DEF StartDrain, Alive
  <2> QED
    BY <1>0, <1>7, <2>1, <2>2, ToolFrame DEF StartDrain, TreeReleased
<1>8. CASE Drain
  <2>1. ~toolDrained
    BY <1>0, <1>8 DEF Drain
  <2>2. CASE toolChannel # <<>> /\ PushHead /\ UNCHANGED <<toolStep, toolDrained>>
    BY <1>8, <2>1, <2>2, PushKept DEF Drain
  <2>3. CASE Closed /\ toolStep' = "stdin" /\ toolDrained' = TRUE
             /\ UNCHANGED <<toolPipes, toolChannel>>
    BY <1>8, <2>3, ClosedKept DEF Drain
  <2>4. CASE /\ toolStep' = "stdin"
             /\ toolPipes' = [s \in Streams |-> [toolPipes[s] EXCEPT
                  !.reader = IF @ = "on" THEN "aborted" ELSE @]]
             /\ UNCHANGED <<toolChannel, toolDrained>>
    BY <1>8, <2>1, <2>4, AbortKept DEF Drain
  <2> QED
    BY <1>8, <2>2, <2>3, <2>4 DEF Drain
<1>9. CASE ToolAnswers
  <2>1. /\ toolTree' \in ToolTree /\ toolTree'.child # "running"
        /\ toolTree'.platform = "windows" => toolTree'.descendant # "running"
        /\ toolTree'.descendant = "running" => toolTree.descendant = "running"
    BY <1>0, <1>9, TreeDied DEF ToolAnswers
  <2>2. Alive' => Alive
    BY <2>1 DEF Alive
  <2> QED
    BY <1>9, <2>1, <2>2, ToolFrame DEF ToolAnswers, TreeReleased
<1>10. CASE ToolTick
  BY <1>0, <1>10, ToolFrame DEF ToolTick, TreeReleased, Alive
<1>11. CASE Forks
  <2>1. toolTree' \in ToolTree /\ Alive
    BY <1>0, <1>11 DEF Forks, ToolTree, Alive
  <2> QED
    BY <1>0, <1>11, <2>1, ToolFrame DEF Forks, Called, TreeReleased
<1>12. CASE Ends
  <2>1. toolTree' \in ToolTree /\ Alive
    BY <1>0, <1>12 DEF Ends, ToolTree, Alive
  <2> QED
    BY <1>0, <1>12, <2>1, ToolFrame DEF Ends, Called, TreeReleased
<1>13. CASE InputMoves
  BY <1>0, <1>13, ToolFrame DEF InputMoves, Called, TreeReleased, Alive
<1>14. CASE CancelRequested
  BY <1>0, <1>14, ToolFrame DEF CancelRequested, TreeReleased, Alive
<1>15. ASSUME NEW s \in Streams, Prints(s) PROVE ToolInv'
  BY <1>15, PrintsKept
<1>16. ASSUME NEW s \in Streams, ReaderMoves(s) PROVE ToolInv'
  <2>1. CASE /\ toolPipes[s].held = <<>> /\ toolPipes[s].read < toolPipes[s].written
             /\ toolPipes' = [toolPipes EXCEPT
                  ![s].held = [i \in 1..(toolPipes[s].written - toolPipes[s].read)
                                 |-> toolPipes[s].read + i],
                  ![s].read = toolPipes[s].written]
             /\ UNCHANGED toolChannel
    BY <1>16, <2>1, ReadKept
  <2>2. CASE /\ toolPipes[s].held # <<>>
             /\ toolChannel' = Append(toolChannel,
                                      [stream |-> s, bytes |-> toolPipes[s].held])
             /\ toolPipes' = [toolPipes EXCEPT ![s].held = <<>>]
    BY <1>16, <2>2, SendKept
  <2>3. CASE /\ toolPipes[s].held = <<>> /\ toolPipes[s].read = toolPipes[s].written
             /\ ~Alive /\ toolPipes' = [toolPipes EXCEPT ![s].reader = "ended"]
             /\ UNCHANGED toolChannel
    BY <1>16, <2>3, EndKept
  <2> QED
    BY <1>16, <2>1, <2>2, <2>3 DEF ReaderMoves
<1>17. CASE UNCHANGED toolVars
  BY <1>17 DEF toolVars, ToolInv, OutputKept, TreeKept, TreeReleased, Alive
<1> QED
  BY <1>1, <1>2, <1>3, <1>4, <1>5, <1>6, <1>7, <1>8, <1>9, <1>10, <1>11, <1>12, <1>13,
     <1>14, <1>15, <1>16, <1>17 DEF ToolNext, CallSteps

-----------------------------------------------------------------------------
(* The services together                                                     *)

ServicesInv == HelperInv /\ OwnerInv /\ SupInv /\ ToolInv

LEMMA ServicesStart == ServicesInit => ServicesInv /\ Heard
BY HelperStarts, OwnerStarts, SupStarts, HeardStarts, ToolStarts
DEF ServicesInit, ServicesInv

(* A step of one service leaves the others alone.                            *)
ServicesVars == <<subject, vars, wireVars, toolVars, ownVars, supVars, hlpVars>>

LEMMA ServicesApart ==
  ASSUME [ServicesNext]_ServicesVars
  PROVE  /\ [HelperNext]_hlpVars /\ [OwnerNext]_ownVars
         /\ [SupNext]_supVars /\ [ToolNext]_toolVars
<1>1. CASE Only("store") \/ Only("wire")
  BY <1>1 DEF Only
<1>2. CASE Only("tool") /\ ToolNext
  BY <1>2 DEF Only
<1>3. CASE Only("owner") /\ OwnerNext
  BY <1>3 DEF Only
<1>4. CASE Only("supervisor") /\ SupNext
  BY <1>4 DEF Only
<1>5. CASE Only("helper") /\ HelperNext
  BY <1>5 DEF Only
<1>6. CASE UNCHANGED ServicesVars
  BY <1>6 DEF ServicesVars
<1> QED
  BY <1>1, <1>2, <1>3, <1>4, <1>5, <1>6 DEF ServicesNext

LEMMA ServicesStep == ServicesInv /\ [ServicesNext]_ServicesVars => ServicesInv'
BY ServicesApart, HelperStep, OwnerStep, SupStep, ToolStep DEF ServicesInv

(* The backend of the native helper is used by one thread at a time and a    *)
(* session that says it drains has its drain worker attached, for any number *)
(* of windows, attempts and faults (BackendOwned, DrainHeld): the session    *)
(* is active for exactly the window that uses the backend.                   *)
THEOREM Drained == ServicesSpec => []ProducerDrained
<1>1. ServicesInit => ServicesInv
  BY ServicesStart
<1>2. ServicesInv /\ [ServicesNext]_ServicesVars => ServicesInv'
  BY ServicesStep
<1>3. ServicesInv => ProducerDrained
  BY HelperDrained DEF ServicesInv, ProducerDrained
<1> QED
  BY <1>1, <1>2, <1>3, PTL DEF ServicesSpec, ServicesVars

(* Whatever the stops are, a tool's call answers with its tree ended and its *)
(* output accounted for byte by byte, a runtime's owner signals no stranger  *)
(* and reports nothing that still runs, and a collector whose cleanup is     *)
(* confirmed is gone (TreeReleased, OutputAccounted, GroupOwned,             *)
(* ConfirmedMeansGone).                                                      *)
THEOREM Contained ==
  ServicesSpec => [](TreeReleased /\ OutputAccounted /\ GroupOwned /\ ConfirmedMeansGone)
<1>1. ServicesInit => ServicesInv
  BY ServicesStart
<1>2. ServicesInv /\ [ServicesNext]_ServicesVars => ServicesInv'
  BY ServicesStep
<1>3. ServicesInv => TreeReleased /\ OutputAccounted /\ GroupOwned /\ ConfirmedMeansGone
  BY ToolAccounts, SupHonest DEF ServicesInv, OwnerInv
<1> QED
  BY <1>1, <1>2, <1>3, PTL DEF ServicesSpec, ServicesVars

(* With them, no stop of a collector is left waiting on a supervisor that    *)
(* sleeps on an older schedule (NoStopUnheard), when all stops use one       *)
(* timeout, as collector.stop(Duration::from_secs(10)) does in the tools.    *)
THEOREM Released == OneTimeout => (ServicesSpec => []ProcessesReleased)
<1> SUFFICES ASSUME OneTimeout PROVE ServicesSpec => []ProcessesReleased
  OBVIOUS
<1>1. ServicesInit => ServicesInv /\ Heard
  BY ServicesStart
<1>2. ServicesInv /\ Heard /\ [ServicesNext]_ServicesVars => ServicesInv' /\ Heard'
  <2>1. ServicesInv /\ [ServicesNext]_ServicesVars => ServicesInv'
    BY ServicesStep
  <2>2. ServicesInv /\ Heard /\ [ServicesNext]_ServicesVars => Heard'
    BY ServicesApart, HeardStep DEF ServicesInv
  <2> QED
    BY <2>1, <2>2
<1>3. ServicesInv /\ Heard => ProcessesReleased
  BY ToolAccounts, SupHonest, SupHeard DEF ServicesInv, OwnerInv, ProcessesReleased
<1> QED
  BY <1>1, <1>2, <1>3, PTL DEF ServicesSpec, ServicesVars
=============================================================================
