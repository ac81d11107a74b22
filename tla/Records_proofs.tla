---------------------------- MODULE Records_proofs ----------------------------
(***************************************************************************)
(* Theorems about the journals that several servers keep in one state      *)
(* directory (JournalRecovery), for any number of servers and sessions;    *)
(* about the output log of a runtime (RuntimeOutput), for any limits and   *)
(* waiters: from "The output log" on; and about files that are written     *)
(* beside their places (AtomicOutput), for any number of writers: from     *)
(* "Files written beside their places" on.                                 *)
(*                                                                         *)
(* Below is the store: StoreSound is the invariant of PrivateState_proofs, *)
(* and every step here is one of its steps (SameSteps), so that a record   *)
(* changes only where a write installs its document (ShelfChange).  On top *)
(* of it RecoveryInv says of each server what it has in hand in its phase  *)
(* (InHand, MarkSound), that whoever is inside a journal holds its lock    *)
(* (Exclusive), and that a marked journal has no owner for good            *)
(* (MarkedForGood).  A step of the program of a server writes no record    *)
(* and takes no lock of another: Goes(p), which GoesKeeps shows once to    *)
(* keep the invariant.  A step of a write changes only the record whose    *)
(* lock its server holds: WriteFrame, WriteKeeps.  OwedInv adds what a     *)
(* starting server has still to examine.                                   *)
(***************************************************************************)
EXTENDS JournalRecovery, RuntimeOutput, AtomicOutput, FiniteSetTheorems,
        SequenceTheorems, WellFoundedInduction, TLAPS

P == INSTANCE PrivateState_proofs WITH Names <- Sessions, Docs <- Journal

-----------------------------------------------------------------------------
(* JournalRecovery: what a server has in hand, by its phase.                 *)
Shelf == [s \in Sessions |-> Kept(s)]
Examining == {"try", "reread", "mark", "marking"}
Marking == {"mark", "marking"}
Writes(p) == call[p].step # "idle"
Quiet == {"down", "list", "next", "try", "reread", "mark", "serving"}

RecoveryTypeOK ==
  /\ phase \in [Procs -> Phases]
  /\ pending \in [Procs -> SUBSET Sessions]
  /\ entry \in [Procs -> Sessions \cup {None}]
  /\ document \in [Procs -> Journal \cup {None}]
  /\ liveness \in [Sessions -> Procs \cup {None}]
  /\ created \subseteq Sessions
  /\ summaries \in [Procs -> SUBSET Sessions]
  /\ owed \in [Procs -> SUBSET Sessions]
  /\ Shelf \in [Sessions -> Journal \cup {Absent}]

(* The journal of a session is in the file of its name.                      *)
Named ==
  \A s \in Sessions : Shelf[s] # Absent => Shelf[s].session = s /\ s \in created

(* What p has read, has written or is about to write.                        *)
InHand(p) ==
  /\ phase[p] \in Quiet => ~Writes(p)
  /\ phase[p] \in {"marking", "creating", "observing", "finalizing"} => Writes(p)
  /\ phase[p] \in {"down", "list", "next"} => document[p] = None
  /\ phase[p] \in {"observing", "finalizing", "sealing"} => document[p] # None
  /\ document[p] # None => document[p].session \in created
  /\ phase[p] \in Examining =>
       /\ entry[p] \in pending[p] /\ document[p] # None /\ document[p].session = entry[p]
  /\ phase[p] \in Marking => entry[p] \in Authorized[p] /\ document[p].status = "recovered"
  /\ phase[p] \notin Recovering /\ document[p] # None => document[p].status # "recovered"
  /\ phase[p] = "sealing" => document[p].status = "final"
  /\ phase[p] = "creating" =>
       /\ call[p].target \in created
       /\ call[p].doc \in Journal
       /\ call[p].doc.session = call[p].target /\ call[p].doc.status = "active"
       /\ document[p] # None => document[p].session # call[p].target
  /\ Writes(p) /\ phase[p] # "creating" =>
       call[p].target = document[p].session /\ call[p].doc = document[p]

(* The session whose liveness lock p holds for what it does.                 *)
Claims(p, s) ==
  \/ phase[p] \in {"reread", "mark", "marking"} /\ entry[p] = s
  \/ Owns(p, s)
  \/ phase[p] = "creating" /\ call[p].target = s
Exclusive == \A p \in Procs, s \in Sessions : Claims(p, s) => liveness[s] = p

(* A marked journal has no owner, and will have none.                        *)
Ownerless(s) ==
  \A p \in Procs : ~Owns(p, s) /\ ~(phase[p] = "creating" /\ call[p].target = s)
MarkedForGood ==
  \A s \in Sessions : Shelf[s] # Absent /\ Shelf[s].status = "recovered" => Ownerless(s)

(* Until it is marked, the journal is as p has read it under its lock.       *)
Installed(p) == call[p].step \in {"discard", "ok"}
MarkSound(p) ==
  phase[p] \in Marking =>
    /\ \A q \in Procs : entry[p] \notin summaries[q] \cap Authorized[q]
    /\ Installed(p) => Shelf[entry[p]] = document[p]
    /\ ~Installed(p) /\ call[p].step # "err" =>
         /\ Shelf[entry[p]] # Absent /\ Shelf[entry[p]].status = "active"
         /\ Shelf[entry[p]].events = document[p].events

Reported ==
  \A p \in Procs : \A s \in summaries[p] \cap Authorized[p] :
    Shelf[s] # Absent /\ Shelf[s].status = "recovered"

RecoveryInv ==
  /\ RecoveryTypeOK /\ Named /\ Exclusive /\ MarkedForGood /\ Reported /\ ReportedOnce
  /\ \A p \in Procs : InHand(p) /\ MarkSound(p)

(* What was abandoned when p listed the journals is before it or marked.     *)
Orphan(s) == Shelf[s] # Absent /\ Ownerless(s)
Finished(s) == Shelf[s].status # "active"
Owing(p) ==
  /\ \A s \in pending[p] : Shelf[s] # Absent
  /\ \A s \in owed[p] : s \in Authorized[p] /\ Orphan(s)
  /\ phase[p] \in {"next"} \cup Examining => \A s \in owed[p] : s \in pending[p] \/ Finished(s)
  /\ phase[p] \notin Recovering \cup {"down"} => \A s \in owed[p] : Finished(s)
  /\ phase[p] \in {"down", "list"} => owed[p] = {}
OwedInv == \A p \in Procs : Owing(p) /\ call[p].step # "err"

-----------------------------------------------------------------------------
(* The store underneath: its steps are those that PrivateState_proofs is     *)
(* about, and of the records only an install changes one.                    *)
LEMMA StoreParameters == P!StoreConstants
  BY RecoveryConstants
  DEF Store!FaultNames, P!FaultNames, Store!Files, P!Files, Store!Content, P!Content

LEMMA SameRecord == \A s \in Sessions : Kept(s) = P!Record(s)
  BY DEF Kept, Store!Record, P!Record, Store!SetAsideBy, P!SetAsideBy

LEMMA SameRecordNext == \A s \in Sessions : Kept(s)' = P!Record(s)'
  BY DEF Kept, Store!Record, P!Record, Store!SetAsideBy, P!SetAsideBy

LEMMA ShelfIsShown == Shelf = P!Shown /\ Shelf' = P!Shown'
  BY SameRecord, SameRecordNext DEF Shelf, P!Shown

LEMMA SameSteps ==
  ASSUME NEW p \in Procs
  PROVE  /\ Store!Init = P!Init
         /\ \A n, d : Store!BeginWrite(p, n, d) => P!BeginWrite(p, n, d)
         /\ Store!Return(p) => P!Return(p)
         /\ Store!Crash(p) => P!Crash(p)
         /\ Store!Fill(p) => P!Fill(p)
         /\ Store!SetAside(p) => P!SetAside(p)
         /\ Store!Install(p) => P!Install(p)
         /\ Store!Discard(p) => P!Discard(p)
<1> USE DEF Store!GiveUp, P!GiveUp, Store!Finish, P!Finish, Store!Spare, P!Spare,
            Store!Free, P!Free, Store!Answer, P!Answer, Store!NoCall, P!NoCall
<1>1. Store!Init = P!Init
  BY DEF Store!Init, P!Init, Store!Files, P!Files
<1>2. \A n, d : Store!BeginWrite(p, n, d) => P!BeginWrite(p, n, d)
  BY DEF Store!BeginWrite, P!BeginWrite
<1>3. Store!Return(p) => P!Return(p)
  BY DEF Store!Return, P!Return, Store!Answered, P!Answered
<1>4. Store!Crash(p) => P!Crash(p)
  BY DEF Store!Crash, P!Crash, Store!Writing, P!Writing
<1>5. Store!Fill(p) => P!Fill(p)
  BY DEF Store!Fill, P!Fill
<1>6. Store!SetAside(p) => P!SetAside(p)
  BY DEF Store!SetAside, P!SetAside
<1>7. Store!Install(p) => P!Install(p)
  BY DEF Store!Install, P!Install, Store!Restored, P!Restored
<1>8. Store!Discard(p) => P!Discard(p)
  BY DEF Store!Discard, P!Discard
<1> QED
  BY <1>1, <1>2, <1>3, <1>4, <1>5, <1>6, <1>7, <1>8

(* The answer to a step of the store by p. *)
StoreVars == <<files, opLock, call>>
LEMMA StoreStep ==
  ASSUME NEW p \in Procs,
         \/ \E n \in Sessions, d \in Journal : P!BeginWrite(p, n, d)
         \/ P!Return(p) \/ P!Crash(p) \/ P!Fill(p) \/ P!SetAside(p) \/ P!Install(p)
         \/ P!Discard(p) \/ UNCHANGED StoreVars
  PROVE  [P!Next]_P!vars
  BY DEF P!Next, P!vars, StoreVars

(* Only an install changes a record: to the document of the call, and the call *)
(* goes on to discard the backup.                                              *)
Installs(p) == call[p].step = "install" /\ call'[p].step = "discard"
LEMMA ShelfChange ==
  ASSUME P!Survivable, P!IInv, [P!Next]_P!vars, NEW p \in Procs,
         \A q \in Procs \ {p} : call'[q] = call[q],
         call'[p].step = "discard" => call[p].step \in {"install", "discard"}
  PROVE  \/ Shelf' = Shelf /\ ~Installs(p)
         \/ /\ Installs(p)
            /\ Shelf' = [Shelf EXCEPT ![call[p].target] = call[p].doc]
<1>1. [P!Registers!Next]_<<P!Shown, P!Requests>>
  BY P!Simulation, StoreParameters
<1>2. \A q \in Procs \ {p} : P!Requests'[q] = P!Requests[q]
  BY DEF P!Requests, P!Request
<1>3. /\ P!Requests[p] = P!Request(call[p])
      /\ P!Requests'[p] = P!Request(call'[p])
  BY DEF P!Requests, P!Request
<1>4. Installs(p) => P!Requests[p].at = "asked" /\ P!Requests'[p].at = "installed"
  BY <1>3 DEF Installs, P!Request, P!Stage
<1>5. CASE UNCHANGED <<P!Shown, P!Requests>>
  BY <1>4, <1>5, ShelfIsShown
<1>6. CASE P!Registers!Next
  <2> DEFINE R == P!Requests
             Same == P!Shown' = P!Shown
             MovesOn(q, at) == \A r \in Procs : R'[r].at = IF r = q THEN at ELSE R[r].at
  <2>2. PICK q \in Procs :
          \/ \E n \in Sessions, d \in Journal :
               P!Registers!Ask(q, n, d) \/ P!Registers!Refuse(q, n, d)
          \/ P!Registers!Install(q) \/ P!Registers!Confirm(q) \/ P!Registers!Fail(q)
          \/ P!Registers!Return(q) \/ P!Registers!Crash(q)
    BY <1>6 DEF P!Registers!Next
  <2>3. CASE ~P!Registers!Install(q)
    <3>1. Same
      BY <2>2, <2>3
      DEF P!Registers!Ask, P!Registers!Refuse, P!Registers!Confirm, P!Registers!Fail,
          P!Registers!Return, P!Registers!Crash, P!Shown
    <3>2. \A c : LET F == [R EXCEPT ![q] = c] IN
                  F[q] = c /\ \A r \in Procs \ {q} : F[r] = R[r]
      BY DEF P!Requests
    <3>3. ASSUME NEW c, R' = [R EXCEPT ![q] = c], c.at # "installed"
          PROVE  R'[p].at = R[p].at \/ R'[p].at # "installed"
      BY <3>2, <3>3
    <3>4. R'[p].at = R[p].at \/ R'[p].at # "installed"
      <4>1. CASE \E n \in Sessions, d \in Journal :
                   P!Registers!Ask(q, n, d) \/ P!Registers!Refuse(q, n, d)
        <5>1. PICK n \in Sessions, d \in Journal :
                P!Registers!Ask(q, n, d) \/ P!Registers!Refuse(q, n, d)
          BY <4>1
        <5> DEFINE c == P!Registers!Asking(n, d)
        <5>2. R' = [R EXCEPT ![q] = c] \/ R' = [R EXCEPT ![q] = [c EXCEPT !.at = "err"]]
          BY <5>1 DEF P!Registers!Ask, P!Registers!Refuse, P!Requests
        <5>3. c.at # "installed" /\ [c EXCEPT !.at = "err"].at # "installed"
          BY DEF P!Registers!Asking
        <5> QED
          BY <3>3, <5>2, <5>3
      <4>2. CASE P!Registers!Confirm(q) \/ P!Registers!Fail(q)
        <5>1. \E at \in {"ok", "err"} : R' = [R EXCEPT ![q] = [R[q] EXCEPT !.at = at]]
          BY <4>2
          DEF P!Registers!Confirm, P!Registers!Fail, P!Registers!Advance, P!Requests
        <5>2. R[q] = P!Request(call[q])
          BY DEF P!Requests
        <5>3. \A at \in {"ok", "err"} : [R[q] EXCEPT !.at = at].at = at
          BY <5>2 DEF P!Request
        <5> QED
          BY <3>3, <5>1, <5>3
      <4>3. CASE P!Registers!Return(q) \/ P!Registers!Crash(q)
        <5>1. R' = [R EXCEPT ![q] = P!Registers!Quiet]
          BY <4>3 DEF P!Registers!Return, P!Registers!Crash, P!Requests
        <5>2. P!Registers!Quiet.at # "installed"
          BY DEF P!Registers!Quiet
        <5> QED
          BY <3>3, <5>1, <5>2
      <4> QED
        BY <2>2, <2>3, <4>1, <4>2, <4>3
    <3> QED
      BY <1>4, <3>1, <3>4, ShelfIsShown
  <2>4. CASE P!Registers!Install(q)
    <3>0. R[q] = P!Request(call[q])
      BY DEF P!Requests
    <3>1. /\ R[q].at = "asked" /\ R'[q].at = "installed"
          /\ P!Shown' = [P!Shown EXCEPT ![R[q].name] = R[q].doc]
      <4>1. R[q].at = "asked" /\ P!Shown' = [P!Shown EXCEPT ![R[q].name] = R[q].doc]
        BY <2>4 DEF P!Registers!Install, P!Requests, P!Shown
      <4>2. R' = [R EXCEPT ![q] = [R[q] EXCEPT !.at = "installed"]]
        BY <2>4 DEF P!Registers!Install, P!Registers!Advance, P!Requests
      <4>3. R'[q] = [R[q] EXCEPT !.at = "installed"]
        BY <4>2 DEF P!Requests
      <4>4. [R[q] EXCEPT !.at = "installed"].at = "installed"
        BY <3>0 DEF P!Request
      <4> QED
        BY <4>1, <4>3, <4>4
    <3>2. q = p
      <4>1. R'[q] # R[q]
        BY <3>1
      <4> QED
        BY <1>2, <4>1
    <3>3. /\ call[p].step \in {"fill", "set_aside", "install"} /\ call'[p].step = "discard"
          /\ R[p].name = call[p].target /\ R[p].doc = call[p].doc
      <4>1. \A step \in P!Writing \cup P!Answered \cup {"idle", "reading"} :
              /\ P!Stage(step) = "asked" => step \in {"fill", "set_aside", "install"}
              /\ P!Stage(step) = "installed" => step = "discard"
              /\ P!Stage(step) = "none" => step \in {"idle", "reading"}
        BY DEF P!Stage, P!Writing, P!Answered
      <4>2. /\ call[p].step \in P!Writing \cup P!Answered \cup {"idle", "reading"}
            /\ call'[p].step \in P!Writing \cup P!Answered \cup {"idle", "reading"}
        BY P!TypeStep, StoreParameters DEF P!IInv, P!TypeOK, P!Calls
      <4>3. P!Request(call[p]).at = "asked" /\ P!Request(call'[p]).at = "installed"
        BY <1>3, <3>1, <3>2
      <4>4. P!Stage(call[p].step) = "asked" /\ P!Stage(call'[p].step) = "installed"
        BY <4>3 DEF P!Request
      <4>5. P!Request(call[p]).name = call[p].target /\ P!Request(call[p]).doc = call[p].doc
        BY <4>4 DEF P!Request
      <4> QED
        BY <1>3, <3>2, <4>1, <4>2, <4>4, <4>5
    <3> QED
      BY <3>1, <3>2, <3>3, ShelfIsShown DEF Installs
  <2> QED
    BY <2>3, <2>4
<1> QED
  BY <1>1, <1>5, <1>6

(* What the steps of the store leave in the call of p, and of the others.    *)
OthersCalls(p) == \A q \in Procs \ {p} : call'[q] = call[q]
NoReads == \A p \in Procs : call[p].step # "reading"
StoreSound == P!Removable /\ P!IInv /\ P!Tidy /\ NoReads

LEMMA Survives == P!Removable => P!Survivable
  BY DEF P!Removable, P!Survivable

LEMMA CallBegins ==
  ASSUME StoreSound, NEW p \in Procs, NEW n \in Sessions, NEW d \in Journal,
         Store!BeginWrite(p, n, d)
  PROVE  /\ call[p].step = "idle" /\ OthersCalls(p) /\ Shelf' = Shelf
         /\ call'[p].step \in {"fill", "err"} /\ call'[p].target = n /\ call'[p].doc = d
         /\ call'[p].step = "err" => "begin" \in Faults
         /\ [P!Next]_P!vars /\ NoReads'
<1>1. P!BeginWrite(p, n, d)
  BY SameSteps
<1>2. [P!Next]_P!vars
  BY <1>1, StoreStep
<1>3. call \in [Procs -> P!Calls]
  BY DEF StoreSound, P!IInv, P!TypeOK
<1>4. ASSUME NEW c, call' = [call EXCEPT ![p] = c] PROVE call'[p] = c /\ OthersCalls(p)
  BY <1>3, <1>4 DEF OthersCalls
<1> DEFINE err == [P!NoCall EXCEPT !.step = "err", !.target = n, !.doc = d]
           fill(t) == [P!NoCall EXCEPT !.step = "fill", !.target = n, !.doc = d, !.temp = t]
<1>5. /\ err.step = "err" /\ err.target = n /\ err.doc = d
      /\ \A t : fill(t).step = "fill" /\ fill(t).target = n /\ fill(t).doc = d
  BY DEF P!NoCall
<1>6. /\ call[p].step = "idle"
      /\ \/ "begin" \in Faults /\ call' = [call EXCEPT ![p] = err]
         \/ \E t : call' = [call EXCEPT ![p] = fill(t)]
  BY <1>1 DEF P!BeginWrite
<1> HIDE DEF err, fill
<1>7. /\ call[p].step = "idle" /\ OthersCalls(p)
      /\ call'[p].step \in {"fill", "err"} /\ call'[p].target = n /\ call'[p].doc = d
      /\ call'[p].step = "err" => "begin" \in Faults
  BY <1>4, <1>5, <1>6
<1>8. Shelf' = Shelf
  BY <1>2, <1>7, ShelfChange, Survives DEF StoreSound, OthersCalls, Installs
<1>9. NoReads'
  BY <1>7 DEF StoreSound, NoReads, OthersCalls
<1> QED
  BY <1>2, <1>7, <1>8, <1>9

LEMMA CallReturns ==
  ASSUME StoreSound, NEW p \in Procs, Store!Return(p) \/ Store!Crash(p)
  PROVE  /\ call[p].step \in {"ok", "err"} /\ OthersCalls(p) /\ Shelf' = Shelf
         /\ call'[p].step = "idle" /\ [P!Next]_P!vars /\ NoReads'
<1>1. P!Return(p) \/ P!Crash(p)
  BY SameSteps
<1>2. [P!Next]_P!vars
  BY <1>1, StoreStep
<1>3. call \in [Procs -> P!Calls]
  BY DEF StoreSound, P!IInv, P!TypeOK
<1>4. call' = [call EXCEPT ![p] = P!NoCall] /\ P!NoCall.step = "idle"
  BY <1>1 DEF P!Return, P!Crash, P!NoCall
<1>5. OthersCalls(p) /\ call'[p].step = "idle"
  BY <1>3, <1>4 DEF OthersCalls
<1>6. call[p].step \in {"ok", "err"}
  BY <1>1, <1>3
  DEF P!Return, P!Crash, P!Calls, P!Answered, P!Writing, StoreSound, NoReads,
      P!Removable
<1>7. Shelf' = Shelf
  BY <1>2, <1>5, ShelfChange, Survives DEF StoreSound, OthersCalls, Installs
<1>8. NoReads'
  BY <1>5 DEF StoreSound, NoReads, OthersCalls
<1> QED
  BY <1>2, <1>5, <1>6, <1>7, <1>8

(* The steps of a write: what they leave in the call, and in the record when  *)
(* they install it.                                                           *)
Advanced(p) ==
  /\ call[p].step \in P!Writing /\ OthersCalls(p)
  /\ call'[p].target = call[p].target /\ call'[p].doc = call[p].doc
  /\ call'[p].step \in P!Writing \cup P!Answered
  /\ call'[p].step = "discard" => call[p].step = "install"
  /\ call'[p].step = "ok" => call[p].step = "discard"
  /\ call[p].step = "discard" => call'[p].step \in P!Answered
  /\ call'[p].step = "err" => Faults # {}

LEMMA CallAdvances ==
  ASSUME StoreSound, NEW p \in Procs, WriteStep(p)
  PROVE  /\ Advanced(p) /\ [P!Next]_P!vars /\ NoReads'
         /\ \/ Shelf' = Shelf /\ ~Installs(p)
            \/ /\ Installs(p)
               /\ Shelf' = [Shelf EXCEPT ![call[p].target] = call[p].doc]
<1>1. P!Fill(p) \/ P!SetAside(p) \/ P!Install(p) \/ P!Discard(p)
  BY SameSteps DEF WriteStep
<1>2. [P!Next]_P!vars
  BY <1>1, StoreStep
<1>3. call \in [Procs -> P!Calls] /\ call[p] \in P!Calls
  BY DEF StoreSound, P!IInv, P!TypeOK
<1>4. ASSUME NEW c, call' = [call EXCEPT ![p] = c] PROVE call'[p] = c /\ OthersCalls(p)
  BY <1>3, <1>4 DEF OthersCalls
<1>5. \A r : /\ P!Answer(p, r).step = r /\ P!Answer(p, r).target = call[p].target
             /\ P!Answer(p, r).doc = call[p].doc
  BY DEF P!Answer, P!NoCall
<1>6. \A F : P!GiveUp(p, F) => call' = [call EXCEPT ![p] = P!Answer(p, "err")]
  BY DEF P!GiveUp, P!Finish
<1> DEFINE to(step) == [call[p] EXCEPT !.step = step]
           with(b) == [call[p] EXCEPT !.step = "install", !.backup = b]
<1>7. /\ \A s : /\ to(s).step = s /\ to(s).target = call[p].target /\ to(s).doc = call[p].doc
      /\ \A b : /\ with(b).step = "install" /\ with(b).target = call[p].target
                /\ with(b).doc = call[p].doc
  BY <1>3 DEF P!Calls
<1>8. \/ /\ call[p].step = "fill"
         /\ call' = [call EXCEPT ![p] = to("set_aside")]
      \/ /\ call[p].step = "set_aside"
         /\ \/ call' = [call EXCEPT ![p] = to("install")]
            \/ \E b : call' = [call EXCEPT ![p] = with(b)]
      \/ /\ call[p].step = "install"
         /\ call' = [call EXCEPT ![p] = to("discard")]
      \/ /\ call[p].step = "discard"
         /\ call' = [call EXCEPT ![p] = P!Answer(p, "ok")]
      \/ /\ call[p].step \in {"fill", "set_aside", "install", "discard"} /\ Faults # {}
         /\ call' = [call EXCEPT ![p] = P!Answer(p, "err")]
  <2>1. CASE P!Fill(p)
    BY <2>1, <1>6 DEF P!Fill
  <2>2. CASE P!SetAside(p)
    BY <2>2, <1>6 DEF P!SetAside
  <2>3. CASE P!Install(p)
    BY <2>3, <1>6 DEF P!Install
  <2>4. CASE P!Discard(p)
    BY <2>4 DEF P!Discard, P!Finish
  <2> QED
    BY <1>1, <2>1, <2>2, <2>3, <2>4
<1> HIDE DEF to, with
<1>9. Advanced(p)
  BY <1>4, <1>5, <1>7, <1>8 DEF Advanced, P!Writing, P!Answered
<1>10. \/ Shelf' = Shelf /\ ~Installs(p)
       \/ /\ Installs(p)
          /\ Shelf' = [Shelf EXCEPT ![call[p].target] = call[p].doc]
  BY <1>2, <1>9, ShelfChange, Survives
  DEF StoreSound, Advanced, OthersCalls
<1>11. NoReads'
  BY <1>9 DEF StoreSound, NoReads, Advanced, OthersCalls, P!Writing, P!Answered
<1> QED
  BY <1>2, <1>9, <1>10, <1>11

-----------------------------------------------------------------------------
(* A step of p's program: it writes no record, leaves the others alone, and   *)
(* takes no lock that another holds.                                          *)
SameFor(q) ==
  /\ phase'[q] = phase[q] /\ pending'[q] = pending[q] /\ entry'[q] = entry[q]
  /\ document'[q] = document[q] /\ call'[q] = call[q]
  /\ summaries'[q] = summaries[q] /\ owed'[q] = owed[q]
OwnOrNew(p, s) == Owns(p, s) \/ (phase[p] = "creating" /\ call[p].target = s)
Goes(p) ==
  /\ \A q \in Procs \ {p} : SameFor(q)
  /\ Shelf' = Shelf /\ created \subseteq created'
  /\ \A s \in Sessions : liveness'[s] # liveness[s] =>
       liveness[s] \in {p, None} \/ s \notin created
  /\ \A s \in Sessions : Claims(p, s)' => liveness'[s] = p
  /\ \A s \in Sessions : OwnOrNew(p, s)' => OwnOrNew(p, s) \/ s \notin created
  /\ \A s \in summaries'[p] \cap Authorized[p] :
       s \in summaries[p] \/ (phase[p] = "marking" /\ s = entry[p] /\ call[p].step = "ok")
  /\ RecoveryTypeOK' /\ InHand(p)' /\ MarkSound(p)'

(* What a step does in the store. *)
MovesOn(p) ==
  [P!Next]_P!vars /\ NoReads' /\ (Faults = {} /\ call[p].step # "err" => call'[p].step # "err")

LEMMA NoneApart == None \notin Procs /\ None \notin Sessions /\ None \notin Journal
  BY RecoveryConstants DEF Store!Files, Store!Content

LEMMA SameInHand ==
  ASSUME NEW q \in Procs, SameFor(q), created \subseteq created', InHand(q)
  PROVE  InHand(q)'
  BY DEF SameFor, InHand, Writes

LEMMA SameClaims ==
  ASSUME NEW q \in Procs, SameFor(q), NEW s \in Sessions
  PROVE  Claims(q, s)' = Claims(q, s) /\ OwnOrNew(q, s)' = OwnOrNew(q, s)
  BY DEF SameFor, Claims, Owns, OwnOrNew

(* What a server claims has been created. *)
LEMMA ClaimsCreated ==
  ASSUME RecoveryInv, NEW p \in Procs, NEW s \in Sessions, Claims(p, s) \/ OwnOrNew(p, s)
  PROVE  s \in created
  BY DEF RecoveryInv, InHand, Claims, OwnOrNew, Owns, Examining

LEMMA GoesExclusive ==
  ASSUME RecoveryInv, NEW p \in Procs, Goes(p)
  PROVE  Exclusive'
<1> SUFFICES ASSUME NEW q \in Procs, NEW s \in Sessions, Claims(q, s)'
             PROVE  liveness'[s] = q
  BY DEF Exclusive
<1>1. CASE q = p
  BY <1>1 DEF Goes
<1>2. CASE q # p
  <2>1. Claims(q, s)
    BY <1>2, SameClaims DEF Goes
  <2>2. liveness[s] = q /\ s \in created
    BY <2>1, ClaimsCreated DEF RecoveryInv, Exclusive
  <2> QED
    BY <1>2, <2>2, NoneApart DEF Goes
<1> QED
  BY <1>1, <1>2

(* What nobody owns is not taken by a step of p's program. *)
LEMMA GoesOwnerless ==
  ASSUME RecoveryInv, NEW p \in Procs, Goes(p), NEW s \in Sessions, s \in created,
         Ownerless(s)
  PROVE  Ownerless(s)'
<1>1. \A q \in Procs : ~OwnOrNew(q, s)
  BY DEF Ownerless, OwnOrNew
<1>2. \A q \in Procs : ~OwnOrNew(q, s)'
  <2> SUFFICES ASSUME NEW q \in Procs PROVE ~OwnOrNew(q, s)'
    OBVIOUS
  <2>1. CASE q = p
    BY <1>1, <2>1 DEF Goes
  <2>2. CASE q # p
    BY <1>1, <2>2, SameClaims DEF Goes
  <2> QED
    BY <2>1, <2>2
<1> QED
  BY <1>2 DEF Ownerless, OwnOrNew

LEMMA GoesReported ==
  ASSUME RecoveryInv, NEW p \in Procs, Goes(p)
  PROVE  Reported' /\ ReportedOnce' /\ \A q \in Procs : MarkSound(q)'
<1>1. \A q \in Procs \ {p} : summaries'[q] = summaries[q]
  BY DEF Goes, SameFor
<1>2. \A s \in summaries'[p] \cap Authorized[p] :
        \/ s \in summaries[p]
        \/ /\ phase[p] = "marking" /\ s = entry[p] /\ call[p].step = "ok"
  BY DEF Goes
<1>3. phase[p] = "marking" /\ call[p].step = "ok" =>
        /\ Shelf[entry[p]] # Absent /\ Shelf[entry[p]].status = "recovered"
        /\ \A q \in Procs : entry[p] \notin summaries[q] \cap Authorized[q]
  <2> SUFFICES ASSUME phase[p] = "marking", call[p].step = "ok"
               PROVE  /\ Shelf[entry[p]] # Absent /\ Shelf[entry[p]].status = "recovered"
                      /\ \A q \in Procs : entry[p] \notin summaries[q] \cap Authorized[q]
    OBVIOUS
  <2>1. MarkSound(p) /\ InHand(p) /\ document[p] \in Journal \cup {None}
    BY DEF RecoveryInv, RecoveryTypeOK
  <2>2. Shelf[entry[p]] = document[p] /\ document[p].status = "recovered" /\ document[p] # None
        /\ \A q \in Procs : entry[p] \notin summaries[q] \cap Authorized[q]
    BY <2>1 DEF MarkSound, InHand, Marking, Installed, Examining
  <2> QED
    BY <2>1, <2>2, RecoveryConstants
<1>4. Reported'
  <2>1. Shelf' = Shelf /\ Reported
    BY DEF Goes, RecoveryInv
  <2> QED
    BY <1>1, <1>2, <1>3, <2>1 DEF Reported
<1>5. ReportedOnce'
  <2>1. ReportedOnce
    BY DEF RecoveryInv
  <2> SUFFICES ASSUME NEW q \in Procs, NEW r \in Procs, q # r, NEW s,
                      s \in summaries'[q], s \in summaries'[r], s \in Authorized[q],
                      s \in Authorized[r]
               PROVE  FALSE
    BY DEF ReportedOnce
  <2>2. CASE q # p /\ r # p
    BY <1>1, <2>1, <2>2 DEF ReportedOnce
  <2>3. CASE q = p
    BY <1>1, <1>2, <1>3, <2>1, <2>3 DEF ReportedOnce
  <2>4. CASE r = p
    BY <1>1, <1>2, <1>3, <2>1, <2>4 DEF ReportedOnce
  <2> QED
    BY <2>2, <2>3, <2>4
<1>6. ASSUME NEW q \in Procs PROVE MarkSound(q)'
  <2>1. CASE q = p
    BY <2>1 DEF Goes
  <2>2. CASE q # p
    <3>1. SameFor(q) /\ MarkSound(q) /\ Shelf' = Shelf /\ InHand(q)
      BY <2>2 DEF Goes, RecoveryInv
    <3>2. phase[q] \in Marking /\ phase[p] = "marking" => entry[q] # entry[p]
      <4>1. phase[q] \in Marking => Claims(q, entry[q]) /\ entry[q] \in Sessions
        BY <3>1 DEF Claims, Marking, InHand, Examining, RecoveryInv, RecoveryTypeOK
      <4>2. phase[p] = "marking" => Claims(p, entry[p])
        BY DEF Claims
      <4> QED
        BY <4>1, <4>2, <2>2 DEF RecoveryInv, Exclusive
    <3>3. phase[q] \in Marking =>
            \A r \in Procs : entry[q] \notin summaries'[r] \cap Authorized[r]
      BY <3>1, <3>2, <1>1, <1>2 DEF MarkSound
    <3> QED
      BY <3>1, <3>3 DEF MarkSound, SameFor, Installed
  <2> QED
    BY <2>1, <2>2
<1> QED
  BY <1>4, <1>5, <1>6

LEMMA GoesKeeps ==
  ASSUME RecoveryInv, NEW p \in Procs, Goes(p)
  PROVE  RecoveryInv'
<1>1. Shelf' = Shelf /\ created \subseteq created'
  BY DEF Goes
<1>2. Named'
  BY <1>1 DEF Named, RecoveryInv
<1>3. MarkedForGood'
  BY <1>1, GoesOwnerless DEF MarkedForGood, Named, RecoveryInv
<1>4. \A q \in Procs : InHand(q)'
  BY <1>1, SameInHand DEF Goes, RecoveryInv
<1> QED
  BY <1>2, <1>3, <1>4, GoesExclusive, GoesReported DEF RecoveryInv, Goes

-----------------------------------------------------------------------------
(* A step of a write: the record it may change is one that p has claimed.     *)
Written(p) ==
  /\ call[p].target \in Sessions /\ call[p].doc \in Journal
  /\ call[p].doc.session = call[p].target /\ call[p].target \in created
  /\ Claims(p, call[p].target)
  /\ phase[p] \in Marking =>
       call[p].target = entry[p] /\ call[p].doc = document[p]
       /\ call[p].doc.status = "recovered" /\ ~OwnOrNew(p, call[p].target)
  /\ phase[p] \notin Marking => OwnOrNew(p, call[p].target) /\ call[p].doc.status # "recovered"

LEMMA WritesItsOwn ==
  ASSUME RecoveryInv, NEW p \in Procs, Writes(p)
  PROVE  Written(p)
<1>1. InHand(p) /\ document[p] \in Journal \cup {None} /\ phase[p] \in Phases
  BY DEF RecoveryInv, RecoveryTypeOK
<1>2. phase[p] \in {"marking", "creating", "observing", "finalizing", "sealing"}
  BY <1>1 DEF InHand, Quiet, Phases, Recovering
<1>3. CASE phase[p] = "marking"
  <2>1. /\ document[p] # None /\ document[p].session = entry[p] /\ document[p].session \in created
        /\ document[p].status = "recovered"
        /\ call[p].target = document[p].session /\ call[p].doc = document[p]
    BY <1>1, <1>3 DEF InHand, Examining, Marking
  <2>2. document[p].session \in Sessions
    BY <1>1, <2>1 DEF Journal
  <2> QED
    BY <1>1, <1>3, <2>1, <2>2 DEF Written, Claims, OwnOrNew, Owns, Marking, Recovering
<1>4. CASE phase[p] = "creating"
  <2>1. /\ call[p].target \in created /\ call[p].doc \in Journal
        /\ call[p].doc.session = call[p].target /\ call[p].doc.status = "active"
    BY <1>1, <1>4 DEF InHand
  <2>2. created \subseteq Sessions
    BY DEF RecoveryInv, RecoveryTypeOK
  <2> QED
    BY <1>4, <2>1, <2>2 DEF Written, Claims, OwnOrNew, Marking
<1>5. CASE phase[p] \in {"observing", "finalizing", "sealing"}
  <2>1. /\ document[p] # None /\ document[p].session \in created
        /\ document[p].status # "recovered"
        /\ call[p].target = document[p].session /\ call[p].doc = document[p]
    BY <1>1, <1>5 DEF InHand, Recovering
  <2>2. document[p].session \in Sessions
    BY <1>1, <2>1 DEF Journal
  <2> QED
    BY <1>1, <1>5, <2>1, <2>2 DEF Written, Claims, OwnOrNew, Owns, Marking, Recovering
<1> QED
  BY <1>2, <1>3, <1>4, <1>5

(* What changes in a write step, and what it changes it to. *)
WriteFrame(p) ==
  /\ Advanced(p)
  /\ UNCHANGED <<phase, recoveryVars, document, liveness, created>>
  /\ \/ Shelf' = Shelf /\ ~Installs(p)
     \/ Installs(p) /\ Shelf' = [Shelf EXCEPT ![call[p].target] = call[p].doc]

LEMMA WriteCalls ==
  ASSUME RecoveryInv, NEW p \in Procs, WriteFrame(p), NEW q \in Procs
  PROVE  /\ Writes(q)' = Writes(q)
         /\ call'[q].target = call[q].target /\ call'[q].doc = call[q].doc
<1>1. CASE q = p
  BY <1>1 DEF WriteFrame, Advanced, Writes, P!Writing, P!Answered
<1>2. CASE q # p
  BY <1>2 DEF WriteFrame, Advanced, OthersCalls, Writes
<1> QED
  BY <1>1, <1>2

LEMMA WriteOwns ==
  ASSUME RecoveryInv, NEW p \in Procs, WriteFrame(p), NEW q \in Procs, NEW s \in Sessions
  PROVE  Claims(q, s)' = Claims(q, s) /\ OwnOrNew(q, s)' = OwnOrNew(q, s)
  BY WriteCalls DEF Claims, Owns, OwnOrNew, WriteFrame, recoveryVars

(* The record of p's write is claimed by no other server. *)
LEMMA WriteAlone ==
  ASSUME RecoveryInv, NEW p \in Procs, Writes(p), NEW q \in Procs \ {p}
  PROVE  /\ ~Claims(q, call[p].target) /\ ~OwnOrNew(q, call[p].target)
         /\ phase[q] \in Marking => entry[q] # call[p].target
<1>1. Written(p)
  BY WritesItsOwn
<1>2. liveness[call[p].target] = p
  BY <1>1 DEF Written, RecoveryInv, Exclusive
<1>3. ~Claims(q, call[p].target)
  BY <1>1, <1>2 DEF Written, RecoveryInv, Exclusive
<1> QED
  BY <1>3 DEF Claims, OwnOrNew, Marking

LEMMA WriteInHand ==
  ASSUME RecoveryInv, NEW p \in Procs, WriteFrame(p), NEW q \in Procs
  PROVE  InHand(q)'
<1>1. InHand(q)
  BY DEF RecoveryInv
<1>2. /\ phase'[q] = phase[q] /\ pending'[q] = pending[q] /\ entry'[q] = entry[q]
      /\ document'[q] = document[q] /\ created' = created
  BY DEF WriteFrame, recoveryVars
<1> QED
  BY <1>1, <1>2, WriteCalls DEF InHand

LEMMA WriteMarkSound ==
  ASSUME RecoveryInv, NEW p \in Procs, Writes(p), WriteFrame(p), NEW q \in Procs
  PROVE  MarkSound(q)'
<1>1. MarkSound(q) /\ Written(p) /\ Shelf \in [Sessions -> Journal \cup {Absent}]
  BY WritesItsOwn DEF RecoveryInv, RecoveryTypeOK
<1>2. /\ phase'[q] = phase[q] /\ entry'[q] = entry[q] /\ document'[q] = document[q]
      /\ summaries' = summaries
  BY DEF WriteFrame, recoveryVars
<1>3. CASE q = p
  <2>1. CASE Installs(p)
    <3>1. Shelf'[call[p].target] = call[p].doc
      BY <1>1, <2>1 DEF WriteFrame, Written
    <3> QED
      BY <1>1, <1>2, <1>3, <2>1, <3>1 DEF MarkSound, Installed, Installs, Written
  <2>2. CASE ~Installs(p)
    <3>1. Shelf' = Shelf
      BY <2>2 DEF WriteFrame
    <3>2. Installed(p)' => Installed(p)
      BY <2>2 DEF Installed, Installs, WriteFrame, Advanced
    <3>3. ~Installed(p)' /\ call'[p].step # "err" => ~Installed(p) /\ call[p].step # "err"
      BY DEF Installed, WriteFrame, Advanced, P!Writing, P!Answered
    <3> QED
      BY <1>1, <1>2, <1>3, <3>1, <3>2, <3>3 DEF MarkSound
  <2> QED
    BY <2>1, <2>2
<1>4. CASE q # p
  <2>1. phase[q] \in Marking => Shelf'[entry[q]] = Shelf[entry[q]]
    <3>1. phase[q] \in Marking => entry[q] # call[p].target /\ entry[q] \in Sessions
      BY <1>4, WriteAlone
      DEF RecoveryInv, RecoveryTypeOK, InHand, Marking, Examining
    <3> QED
      BY <1>1, <3>1 DEF WriteFrame, Written
  <2>2. call'[q] = call[q]
    BY <1>4 DEF WriteFrame, Advanced, OthersCalls
  <2> QED
    BY <1>1, <1>2, <2>1, <2>2 DEF MarkSound, Installed
<1> QED
  BY <1>3, <1>4

LEMMA WriteKeeps ==
  ASSUME RecoveryInv, NEW p \in Procs, Writes(p), WriteFrame(p)
  PROVE  RecoveryInv'
<1>1. Written(p) /\ Shelf \in [Sessions -> Journal \cup {Absent}]
  BY WritesItsOwn DEF RecoveryInv, RecoveryTypeOK
<1>2. \A s \in Sessions :
        \/ Shelf'[s] = Shelf[s]
        \/ s = call[p].target /\ Shelf'[s] = call[p].doc
  BY <1>1 DEF WriteFrame
<1>3. call[p].doc # Absent
  BY <1>1, RecoveryConstants DEF Written
<1>4. RecoveryTypeOK'
  <2>1. Shelf' \in [Sessions -> Journal \cup {Absent}]
    BY <1>1 DEF WriteFrame, Written
  <2> QED
    BY <2>1 DEF RecoveryInv, RecoveryTypeOK, WriteFrame, recoveryVars
<1>5. Named'
  BY <1>1, <1>2 DEF Named, Written, RecoveryInv, WriteFrame
<1>6. Exclusive'
  BY WriteOwns DEF Exclusive, RecoveryInv, WriteFrame
<1>7. MarkedForGood'
  <2> SUFFICES ASSUME NEW s \in Sessions, Shelf'[s] # Absent, Shelf'[s].status = "recovered",
                      NEW q \in Procs
               PROVE  ~OwnOrNew(q, s)'
    BY DEF MarkedForGood, Ownerless, OwnOrNew
  <2>1. CASE Shelf'[s] = Shelf[s]
    <3>1. Ownerless(s)
      BY <2>1 DEF RecoveryInv, MarkedForGood
    <3> QED
      BY <3>1, WriteOwns DEF Ownerless, OwnOrNew
  <2>2. CASE s = call[p].target /\ Shelf'[s] = call[p].doc
    <3>1. phase[p] \in Marking /\ ~OwnOrNew(p, s)
      BY <1>1, <2>2 DEF Written
    <3> QED
      BY <2>2, <3>1, WriteAlone, WriteOwns
  <2> QED
    BY <1>2, <2>1, <2>2
<1>8. Reported'
  <2> SUFFICES ASSUME NEW q \in Procs, NEW s \in summaries[q] \cap Authorized[q]
               PROVE  Shelf'[s] # Absent /\ Shelf'[s].status = "recovered"
    BY DEF Reported, WriteFrame, recoveryVars
  <2>1. Shelf[s] # Absent /\ Shelf[s].status = "recovered" /\ s \in Sessions
    BY DEF RecoveryInv, RecoveryTypeOK, Reported
  <2>2. Ownerless(s)
    BY <2>1 DEF RecoveryInv, MarkedForGood
  <2>3. s = call[p].target => call[p].doc.status = "recovered"
    BY <1>1, <2>2 DEF Written, Ownerless, OwnOrNew
  <2> QED
    BY <1>2, <1>3, <2>1, <2>3
<1>9. ReportedOnce'
  BY DEF RecoveryInv, ReportedOnce, WriteFrame, recoveryVars
<1> QED
  BY <1>4, <1>5, <1>6, <1>7, <1>8, <1>9, WriteInHand, WriteMarkSound DEF RecoveryInv

(* The verdict: what a recovery marks has none, and every event of its owner. *)
LEMMA WriteStands ==
  ASSUME RecoveryInv, NEW p \in Procs, Writes(p), WriteFrame(p), NEW s \in Sessions,
         Shelf'[s] # Absent, Shelf'[s].status = "recovered",
         Shelf[s] = Absent \/ Shelf[s].status # "recovered"
  PROVE  Shelf[s] # Absent /\ Shelf[s].status = "active" /\ Shelf[s].events = Shelf'[s].events
<1>1. Written(p) /\ MarkSound(p)
  BY WritesItsOwn DEF RecoveryInv
<1>2. Installs(p) /\ s = call[p].target /\ Shelf'[s] = call[p].doc
  BY <1>1 DEF WriteFrame, Written, RecoveryInv, RecoveryTypeOK
<1>3. phase[p] \in Marking /\ s = entry[p] /\ call[p].doc = document[p]
  BY <1>1, <1>2 DEF Written
<1> QED
  BY <1>1, <1>2, <1>3 DEF MarkSound, Installs, Installed

-----------------------------------------------------------------------------
(* The steps of a recovery.                                                   *)
LEMMA Untouched ==
  ASSUME UNCHANGED storeVars
  PROVE  Shelf' = Shelf /\ call' = call /\ [P!Next]_P!vars /\ (NoReads => NoReads')
  BY DEF storeVars, Shelf, Kept, Store!Record, Store!SetAsideBy, P!vars, NoReads

(* While nobody is inside the store, the files are the records. *)
LEMMA AtRest ==
  ASSUME StoreSound, opLock = None
  PROVE  /\ \A s \in Sessions : files[s] = Shelf[s] /\ files[s] # Torn
         /\ \A f \in Store!Files : files[f] # Absent => f \in Sessions
<1>1. \A s \in Sessions : files[s] = Shelf[s]
  BY P!RecordOf, StoreParameters, SameRecord DEF Shelf
<1>2. \A s \in Sessions : files[s] # Torn
  BY DEF StoreSound, P!IInv, P!WholeRecords
<1>3. \A f \in Temporaries \cup Backups : files[f] = Absent
  BY NoneApart DEF StoreSound, P!Tidy
<1> QED
  BY <1>1, <1>2, <1>3 DEF Store!Files

(* A phase in which nothing is claimed and nothing marked. *)
Loose(p) ==
  \/ phase'[p] \in {"list", "next", "try"}
  \/ phase'[p] \in {"down", "serving"} /\ document'[p] = None
LEMMA LooseClaims ==
  ASSUME NEW p \in Procs, Loose(p)
  PROVE  /\ \A s \in Sessions : ~Claims(p, s)' /\ ~OwnOrNew(p, s)'
         /\ MarkSound(p)'
<1>1. \A s \in Sessions : ~Owns(p, s)'
  BY DEF Loose, Owns, Recovering
<1> QED
  BY <1>1 DEF Loose, MarkSound, Marking, Claims, OwnOrNew

LEMMA GoesStart ==
  ASSUME RecoveryInv, NEW p \in Procs, Start(p)
  PROVE  Goes(p)
<1>1. /\ phase[p] = "down" /\ phase' = [phase EXCEPT ![p] = "list"]
      /\ UNCHANGED <<pending, entry, summaries, owed, document, liveness, created, call>>
      /\ Shelf' = Shelf
  BY Untouched DEF Start, Goto, recoveryVars
<1>2. RecoveryTypeOK /\ InHand(p)
  BY DEF RecoveryInv
<1>3. phase'[p] = "list" /\ \A q \in Procs \ {p} : SameFor(q)
  BY <1>1, <1>2 DEF SameFor, RecoveryTypeOK
<1>4. RecoveryTypeOK'
  BY <1>1, <1>2 DEF RecoveryTypeOK, Phases, Recovering
<1>5. InHand(p)'
  BY <1>1, <1>2, <1>3 DEF InHand, Quiet, Writes, Examining, Marking, Recovering
<1> QED
  BY <1>1, <1>3, <1>4, <1>5, LooseClaims DEF Goes, Loose

LEMMA GoesList ==
  ASSUME StoreSound, RecoveryInv, NEW p \in Procs, List(p)
  PROVE  Goes(p)
<1>1. /\ phase[p] = "list" /\ opLock = None
      /\ UNCHANGED <<liveness, created, call>> /\ Shelf' = Shelf
      /\ owed' = [owed EXCEPT ![p] = Abandoned(p)]
  BY Untouched DEF List
<1>2. RecoveryTypeOK /\ InHand(p)
  BY DEF RecoveryInv
<1>3. Listed \in SUBSET Sessions /\ Abandoned(p) \in SUBSET Sessions
  BY <1>1, AtRest, RecoveryConstants DEF Listed, Abandoned
<1>4. \/ /\ pending' = [pending EXCEPT ![p] = Listed]
         /\ phase' = [phase EXCEPT ![p] = "next"]
         /\ UNCHANGED <<entry, summaries, document>>
      \/ Abort(p)
  BY DEF List, Goto
<1>5. \A q \in Procs \ {p} : SameFor(q)
  BY <1>1, <1>2, <1>4 DEF SameFor, RecoveryTypeOK, Abort, Goto
<1>6. RecoveryTypeOK'
  BY <1>1, <1>2, <1>3, <1>4 DEF RecoveryTypeOK, Abort, Goto, Phases, Recovering
<1>7. /\ phase'[p] \in {"next", "serving"} /\ document'[p] = None
      /\ summaries'[p] \subseteq summaries[p]
  BY <1>1, <1>2, <1>4 DEF Abort, Goto, RecoveryTypeOK, InHand
<1>8. InHand(p)'
  BY <1>1, <1>2, <1>7 DEF InHand, Quiet, Writes, Examining, Marking, Recovering
<1> QED
  BY <1>1, <1>5, <1>6, <1>7, <1>8, LooseClaims DEF Goes, Loose

LEMMA GoesExamine ==
  ASSUME StoreSound, RecoveryInv, NEW p \in Procs, Examine(p)
  PROVE  Goes(p)
<1>1. /\ phase[p] = "next" /\ opLock = None
      /\ UNCHANGED <<liveness, created, call, owed>> /\ Shelf' = Shelf
  BY Untouched DEF Examine
<1>2. RecoveryTypeOK /\ InHand(p) /\ Named
  BY DEF RecoveryInv
<1>3. PICK f \in pending[p] :
        \/ Abort(p)
        \/ Skip(p, f) /\ UNCHANGED summaries
        \/ /\ Active(files[f])
           /\ entry' = [entry EXCEPT ![p] = f]
           /\ document' = [document EXCEPT ![p] = files[f]]
           /\ phase' = [phase EXCEPT ![p] = "try"]
           /\ UNCHANGED <<pending, summaries>>
  BY DEF Examine, Foremost, Goto
<1>4. f \in Sessions /\ files[f] = Shelf[f]
  BY <1>1, <1>2, AtRest DEF RecoveryTypeOK
<1>5. CASE Abort(p)
  <2>1. \A q \in Procs \ {p} : SameFor(q)
    BY <1>1, <1>2, <1>5 DEF SameFor, RecoveryTypeOK, Abort, Goto
  <2>2. RecoveryTypeOK'
    BY <1>1, <1>2, <1>5 DEF RecoveryTypeOK, Abort, Goto, Phases, Recovering
  <2>3. phase'[p] = "serving" /\ document'[p] = None /\ summaries'[p] = {}
    BY <1>2, <1>5 DEF Abort, Goto, RecoveryTypeOK
  <2>4. InHand(p)'
    BY <1>1, <1>2, <2>3 DEF InHand, Quiet, Writes, Examining, Marking, Recovering
  <2> QED
    BY <1>1, <2>1, <2>2, <2>3, <2>4, LooseClaims DEF Goes, Loose
<1>6. CASE Skip(p, f) /\ UNCHANGED summaries
  <2>1. \A q \in Procs \ {p} : SameFor(q)
    BY <1>1, <1>2, <1>6 DEF SameFor, RecoveryTypeOK, Skip
  <2>2. RecoveryTypeOK'
    BY <1>1, <1>2, <1>6 DEF RecoveryTypeOK, Skip
  <2>3. phase'[p] = "next" /\ document'[p] = None /\ summaries'[p] = summaries[p]
    BY <1>1, <1>2, <1>6 DEF Skip, InHand
  <2>4. InHand(p)'
    BY <1>1, <1>2, <2>3 DEF InHand, Quiet, Writes, Examining, Marking, Recovering
  <2> QED
    BY <1>1, <2>1, <2>2, <2>3, <2>4, LooseClaims DEF Goes, Loose
<1>7. CASE /\ Active(files[f])
           /\ entry' = [entry EXCEPT ![p] = f]
           /\ document' = [document EXCEPT ![p] = files[f]]
           /\ phase' = [phase EXCEPT ![p] = "try"]
           /\ UNCHANGED <<pending, summaries>>
  <2>1. \A q \in Procs \ {p} : SameFor(q)
    BY <1>1, <1>2, <1>7 DEF SameFor, RecoveryTypeOK
  <2>2. files[f] \in Journal
    BY <1>7 DEF Active
  <2>3. RecoveryTypeOK'
    BY <1>1, <1>2, <1>4, <1>7, <2>2 DEF RecoveryTypeOK, Phases, Recovering
  <2>4. /\ phase'[p] = "try" /\ document'[p] = Shelf[f] /\ summaries'[p] = summaries[p]
        /\ entry'[p] = f /\ pending'[p] = pending[p]
    BY <1>2, <1>4, <1>7 DEF RecoveryTypeOK
  <2>5. Shelf[f] # Absent /\ Shelf[f] # None
    BY <1>4, <2>2, RecoveryConstants, NoneApart
  <2>6. Shelf[f].session = f /\ f \in created
    BY <1>2, <1>4, <2>5 DEF Named
  <2>7. InHand(p)'
    BY <1>1, <1>2, <2>4, <2>5, <2>6
    DEF InHand, Quiet, Writes, Examining, Marking, Recovering
  <2> QED
    BY <1>1, <2>1, <2>3, <2>4, <2>7, LooseClaims DEF Goes, Loose
<1> QED
  BY <1>3, <1>5, <1>6, <1>7

LEMMA GoesTryLiveness ==
  ASSUME StoreSound, RecoveryInv, NEW p \in Procs, TryLiveness(p)
  PROVE  Goes(p)
<1> DEFINE s == document[p].session
<1>1. /\ phase[p] = "try" /\ Shelf' = Shelf
      /\ UNCHANGED <<summaries, created, call>>
  BY Untouched DEF TryLiveness
<1>2. RecoveryTypeOK /\ InHand(p)
  BY DEF RecoveryInv
<1>3. /\ entry[p] = s /\ s \in created /\ s \in Sessions /\ document[p] # None
      /\ entry[p] \in pending[p]
  BY <1>1, <1>2 DEF InHand, Examining, RecoveryTypeOK
<1>4. \/ /\ liveness[s] = None /\ liveness' = [liveness EXCEPT ![s] = p]
         /\ phase' = [phase EXCEPT ![p] = "reread"]
         /\ UNCHANGED <<pending, entry, document, owed>>
      \/ /\ owed' = [owed EXCEPT ![p] = @ \ {entry[p]}]
         /\ Done(p) /\ UNCHANGED liveness
  BY DEF TryLiveness, Goto
<1>5. \A q \in Procs \ {p} : SameFor(q)
  BY <1>1, <1>2, <1>4 DEF SameFor, RecoveryTypeOK, Done, Goto
<1>6. RecoveryTypeOK'
  <2>1. liveness' \in [Sessions -> Procs \cup {None}]
    BY <1>2, <1>4 DEF RecoveryTypeOK
  <2>2. /\ phase' \in [Procs -> Phases] /\ pending' \in [Procs -> SUBSET Sessions]
        /\ entry' \in [Procs -> Sessions \cup {None}]
        /\ document' \in [Procs -> Journal \cup {None}]
        /\ owed' \in [Procs -> SUBSET Sessions]
    BY <1>2, <1>4 DEF RecoveryTypeOK, Done, Goto, Phases, Recovering
  <2> QED
    BY <1>1, <1>2, <2>1, <2>2 DEF RecoveryTypeOK
<1>7. CASE UNCHANGED liveness /\ Done(p)
  <2>1. phase'[p] = "next" /\ document'[p] = None
    BY <1>2, <1>7 DEF Done, Goto, RecoveryTypeOK
  <2>2. InHand(p)'
    BY <1>1, <1>2, <2>1 DEF InHand, Quiet, Writes, Examining, Marking, Recovering
  <2> QED
    BY <1>1, <1>5, <1>6, <1>7, <2>1, <2>2, LooseClaims DEF Goes, Loose
<1>8. CASE /\ liveness[s] = None /\ liveness' = [liveness EXCEPT ![s] = p]
           /\ phase' = [phase EXCEPT ![p] = "reread"]
           /\ UNCHANGED <<pending, entry, document, owed>>
  <2>1. phase'[p] = "reread" /\ liveness'[s] = p
    BY <1>2, <1>3, <1>8 DEF RecoveryTypeOK
  <2>2. \A r \in Sessions : /\ Claims(p, r)' => r = s
                            /\ ~OwnOrNew(p, r)'
    BY <1>3, <1>8, <2>1 DEF Claims, OwnOrNew, Owns, Recovering
  <2>3. InHand(p)'
    BY <1>1, <1>2, <1>3, <1>8, <2>1
    DEF InHand, Quiet, Writes, Examining, Marking, Recovering
  <2>4. \A r \in Sessions : liveness'[r] # liveness[r] => liveness[r] \in {p, None}
    BY <1>2, <1>8 DEF RecoveryTypeOK
  <2>5. MarkSound(p)'
    BY <2>1 DEF MarkSound, Marking
  <2> QED
    BY <1>1, <1>5, <1>6, <2>1, <2>2, <2>3, <2>4, <2>5 DEF Goes
<1> QED
  BY <1>4, <1>7, <1>8

(* What a server in the middle of an entry knows. *)
LEMMA Entry ==
  ASSUME RecoveryInv, NEW p \in Procs, phase[p] \in {"reread", "mark", "marking"}
  PROVE  /\ entry[p] \in Sessions /\ entry[p] \in pending[p] /\ entry[p] \in created
         /\ document[p] \in Journal /\ document[p].session = entry[p]
         /\ liveness[entry[p]] = p
<1>1. RecoveryTypeOK /\ InHand(p) /\ Exclusive
  BY DEF RecoveryInv
<1>2. /\ document[p] \in Journal /\ document[p].session = entry[p]
      /\ entry[p] \in pending[p] /\ entry[p] \in created /\ entry[p] \in Sessions
  BY <1>1 DEF InHand, Examining, RecoveryTypeOK
<1> QED
  BY <1>1, <1>2 DEF Exclusive, Claims

(* p leaves its entry, and drops its lock. *)
Drops(p) ==
  /\ liveness' = [liveness EXCEPT ![entry[p]] = None]
  /\ UNCHANGED created /\ Shelf' = Shelf /\ ~Writes(p)'
  /\ Done(p) \/ Abort(p)
  /\ owed' = owed /\ OthersCalls(p)
  /\ \/ Abort(p) \/ UNCHANGED summaries
     \/ /\ Report(p)
        /\ \/ entry[p] \notin Authorized[p]
           \/ phase[p] = "marking" /\ call[p].step = "ok"
LEMMA GoesDrops ==
  ASSUME RecoveryInv, NEW p \in Procs, phase[p] \in {"reread", "marking"}, Drops(p)
  PROVE  Goes(p)
<1>1. /\ RecoveryTypeOK /\ InHand(p) /\ entry[p] \in Sessions /\ liveness[entry[p]] = p
  BY Entry DEF RecoveryInv
<1>2. \A q \in Procs \ {p} : SameFor(q)
  BY <1>1 DEF Drops, SameFor, RecoveryTypeOK, Done, Abort, Report, Goto, OthersCalls
<1>3. RecoveryTypeOK'
  BY <1>1 DEF Drops, RecoveryTypeOK, Done, Abort, Report, Goto, Phases, Recovering
<1>4. phase'[p] \in {"next", "serving"} /\ document'[p] = None
  BY <1>1 DEF Drops, Done, Abort, Goto, RecoveryTypeOK
<1>5. \A s \in summaries'[p] \cap Authorized[p] :
        s \in summaries[p] \/ (phase[p] = "marking" /\ s = entry[p] /\ call[p].step = "ok")
  BY <1>1 DEF Drops, Abort, Report, RecoveryTypeOK
<1>6. InHand(p)'
  BY <1>1, <1>4 DEF Drops, InHand, Quiet, Writes, Examining, Marking, Recovering
<1>7. \A s \in Sessions : liveness'[s] # liveness[s] => liveness[s] = p
  BY <1>1 DEF Drops, RecoveryTypeOK
<1> QED
  BY <1>2, <1>3, <1>4, <1>5, <1>6, <1>7, LooseClaims DEF Goes, Loose, Drops

LEMMA GoesReread ==
  ASSUME StoreSound, RecoveryInv, NEW p \in Procs, Reread(p)
  PROVE  Goes(p)
<1> DEFINE current == Shelf[entry[p]]
<1>1. /\ phase[p] = "reread" /\ opLock = None /\ Shelf' = Shelf
      /\ UNCHANGED <<owed, created, call>>
  BY Untouched DEF Reread
<1>2. /\ RecoveryTypeOK /\ InHand(p) /\ Named /\ Reported
  BY DEF RecoveryInv
<1>3. /\ entry[p] \in Sessions /\ entry[p] \in pending[p] /\ entry[p] \in created
      /\ document[p].session = entry[p] /\ liveness[entry[p]] = p
  BY <1>1, Entry
<1>4. files[entry[p]] = current
  BY <1>1, <1>3, AtRest
<1>5. current \in Journal => current # Absent /\ current.session = entry[p]
  BY <1>2, <1>3, RecoveryConstants DEF Named
<1>6. ~Writes(p)' /\ OthersCalls(p)
  BY <1>1, <1>2 DEF InHand, Quiet, Writes, OthersCalls
<1>7. \/ Drops(p)
      \/ /\ current \in Journal /\ current.status = "active" /\ entry[p] \in Authorized[p]
         /\ document' = [document EXCEPT ![p] = [current EXCEPT !.status = "recovered"]]
         /\ phase' = [phase EXCEPT ![p] = "mark"]
         /\ UNCHANGED <<pending, entry, summaries, liveness>>
  <2>1. CASE /\ \/ Abort(p)
                \/ Done(p) /\ UNCHANGED summaries
                \/ entry[p] \notin Authorized[p] /\ Report(p) /\ Done(p)
             /\ Release(p)
    <3>1. liveness' = [liveness EXCEPT ![entry[p]] = None]
      BY <1>3, <2>1 DEF Release
    <3>2. /\ Done(p) \/ Abort(p)
          /\ \/ Abort(p) \/ UNCHANGED summaries
             \/ Report(p) /\ entry[p] \notin Authorized[p]
      BY <2>1
    <3> QED
      BY <1>1, <1>6, <3>1, <3>2 DEF Drops
  <2>2. CASE /\ Active(current) /\ current.session \in Authorized[p]
             /\ document' = [document EXCEPT ![p] = [current EXCEPT !.status = "recovered"]]
             /\ phase' = [phase EXCEPT ![p] = "mark"]
             /\ UNCHANGED <<pending, entry, summaries, liveness>>
    BY <1>5, <2>2 DEF Active
  <2>3. Active(current) => current.session = entry[p]
    BY <1>5 DEF Active
  <2> QED
    BY <1>4, <2>1, <2>2, <2>3 DEF Reread, Goto
<1>8. CASE /\ current \in Journal /\ current.status = "active" /\ entry[p] \in Authorized[p]
           /\ document' = [document EXCEPT ![p] = [current EXCEPT !.status = "recovered"]]
           /\ phase' = [phase EXCEPT ![p] = "mark"]
           /\ UNCHANGED <<pending, entry, summaries, liveness>>
  <2> DEFINE d == [current EXCEPT !.status = "recovered"]
  <2>1. /\ d \in Journal /\ d.session = entry[p] /\ d.status = "recovered"
        /\ d.events = current.events /\ d # None
    BY <1>5, <1>8, NoneApart DEF Journal
  <2> HIDE DEF d
  <2>2. phase'[p] = "mark" /\ document'[p] = d
    BY <1>2, <1>8 DEF RecoveryTypeOK, d
  <2>3. \A q \in Procs \ {p} : SameFor(q)
    BY <1>1, <1>2, <1>8 DEF SameFor, RecoveryTypeOK
  <2>4. RecoveryTypeOK'
    <3>1. document' \in [Procs -> Journal \cup {None}]
      BY <1>2, <1>8, <2>1 DEF RecoveryTypeOK, d
    <3>2. phase' \in [Procs -> Phases]
      BY <1>2, <1>8 DEF RecoveryTypeOK, Phases, Recovering
    <3>3. UNCHANGED <<pending, entry, summaries, liveness, owed, created>>
      BY <1>1, <1>8
    <3> QED
      BY <1>1, <1>2, <3>1, <3>2, <3>3 DEF RecoveryTypeOK
  <2>5. InHand(p)'
    <3>1. /\ entry'[p] = entry[p] /\ pending'[p] = pending[p] /\ entry[p] \in Authorized[p]
          /\ call'[p] = call[p] /\ created' = created /\ phase[p] = "reread"
      BY <1>1, <1>8
    <3> QED
      BY <1>2, <1>3, <2>1, <2>2, <3>1
      DEF InHand, Quiet, Writes, Examining, Marking, Recovering
  <2>6. MarkSound(p)'
    <3>1. \A q \in Procs : entry[p] \notin summaries[q] \cap Authorized[q]
      BY <1>2, <1>8 DEF Reported
    <3>2. ~Installed(p)'
      BY <1>6 DEF Installed, Writes
    <3> QED
      BY <1>1, <1>5, <1>8, <2>1, <2>2, <3>1, <3>2 DEF MarkSound
  <2>7. \A r \in Sessions : (Claims(p, r)' => r = entry[p]) /\ ~OwnOrNew(p, r)'
    BY <1>8, <2>2 DEF Claims, OwnOrNew, Owns, Recovering
  <2> QED
    BY <1>1, <1>3, <1>8, <2>2, <2>3, <2>4, <2>5, <2>6, <2>7 DEF Goes
<1> QED
  BY <1>1, <1>7, <1>8, GoesDrops

LEMMA GoesMark ==
  ASSUME StoreSound, RecoveryInv, NEW p \in Procs, Mark(p)
  PROVE  Goes(p) /\ MovesOn(p)
<1>1. /\ phase[p] = "mark" /\ Store!BeginWrite(p, entry[p], document[p])
      /\ phase' = [phase EXCEPT ![p] = "marking"]
      /\ UNCHANGED <<pending, entry, summaries, owed, document, liveness, created>>
  BY DEF Mark, Goto, recoveryVars
<1>2. /\ RecoveryTypeOK /\ InHand(p) /\ MarkSound(p)
  BY DEF RecoveryInv
<1>3. /\ entry[p] \in Sessions /\ document[p] \in Journal /\ liveness[entry[p]] = p
      /\ document[p].session = entry[p]
  BY <1>1, Entry
<1>4. /\ call[p].step = "idle" /\ OthersCalls(p) /\ Shelf' = Shelf
      /\ call'[p].step \in {"fill", "err"} /\ call'[p].target = entry[p]
      /\ call'[p].doc = document[p] /\ MovesOn(p)
  BY <1>1, <1>3, CallBegins DEF MovesOn
<1>5. phase'[p] = "marking" /\ \A q \in Procs \ {p} : SameFor(q)
  BY <1>1, <1>2, <1>4 DEF SameFor, RecoveryTypeOK, OthersCalls
<1>6. RecoveryTypeOK'
  BY <1>1, <1>2, <1>4 DEF RecoveryTypeOK, Phases, Recovering
<1>7. InHand(p)'
  BY <1>1, <1>2, <1>3, <1>4, <1>5
  DEF InHand, Quiet, Writes, Examining, Marking, Recovering
<1>8. MarkSound(p)'
  BY <1>1, <1>2, <1>4, <1>5 DEF MarkSound, Marking, Installed
<1>9. \A r \in Sessions : (Claims(p, r)' => r = entry[p]) /\ ~OwnOrNew(p, r)'
  BY <1>1, <1>5 DEF Claims, OwnOrNew, Owns, Recovering
<1> QED
  BY <1>1, <1>3, <1>4, <1>5, <1>6, <1>7, <1>8, <1>9 DEF Goes

LEMMA GoesMarked ==
  ASSUME StoreSound, RecoveryInv, NEW p \in Procs, Marked(p)
  PROVE  Goes(p)
<1>1. /\ phase[p] = "marking" /\ Store!Return(p) /\ Release(p)
      /\ \/ call[p].step = "ok" /\ Report(p) /\ Done(p)
         \/ Abort(p)
      /\ UNCHANGED <<owed, created>>
  BY DEF Marked
<1>2. document[p].session = entry[p]
  BY <1>1, Entry
<1>3. OthersCalls(p) /\ Shelf' = Shelf /\ ~Writes(p)'
  BY <1>1, CallReturns DEF Writes
<1>4. Drops(p)
  <2>1. liveness' = [liveness EXCEPT ![entry[p]] = None]
    BY <1>1, <1>2 DEF Release
  <2>2. /\ Done(p) \/ Abort(p)
        /\ Abort(p) \/ (Report(p) /\ phase[p] = "marking" /\ call[p].step = "ok")
    BY <1>1
  <2> QED
    BY <1>1, <1>3, <2>1, <2>2 DEF Drops
<1> QED
  BY <1>1, <1>4, GoesDrops

LEMMA GoesRecovered ==
  ASSUME RecoveryInv, NEW p \in Procs, Recovered(p)
  PROVE  Goes(p)
<1>1. /\ phase[p] = "next" /\ phase' = [phase EXCEPT ![p] = "serving"]
      /\ UNCHANGED <<pending, entry, summaries, owed, document, liveness, created, call>>
      /\ Shelf' = Shelf
  BY Untouched DEF Recovered, Goto, recoveryVars
<1>2. RecoveryTypeOK /\ InHand(p)
  BY DEF RecoveryInv
<1>3. /\ phase'[p] = "serving" /\ document'[p] = None /\ \A q \in Procs \ {p} : SameFor(q)
  BY <1>1, <1>2 DEF SameFor, RecoveryTypeOK, InHand
<1>4. RecoveryTypeOK'
  BY <1>1, <1>2 DEF RecoveryTypeOK, Phases, Recovering
<1>5. InHand(p)'
  BY <1>1, <1>2, <1>3 DEF InHand, Quiet, Writes, Examining, Marking, Recovering
<1> QED
  BY <1>1, <1>3, <1>4, <1>5, LooseClaims DEF Goes, Loose

-----------------------------------------------------------------------------
(* The steps of a session.                                                    *)
Session == {"serving", "observing", "finalizing", "sealing"}

(* A step of a session that keeps its journal's lock. *)
Holds(p) ==
  /\ phase[p] \in Session /\ phase'[p] \in Session
  /\ document'[p] = document[p]
     \/ (document'[p] # None /\ document[p] # None
         /\ document'[p].session = document[p].session)
  /\ \A q \in Procs \ {p} : phase'[q] = phase[q] /\ document'[q] = document[q]
  /\ OthersCalls(p) /\ Shelf' = Shelf
  /\ UNCHANGED <<pending, entry, summaries, owed, liveness, created>>
LEMMA GoesHolds ==
  ASSUME RecoveryInv, NEW p \in Procs, Holds(p), RecoveryTypeOK', InHand(p)'
  PROVE  Goes(p)
<1>1. \A q \in Procs \ {p} : SameFor(q)
  BY DEF Holds, SameFor, OthersCalls
<1>2. \A s \in Sessions : Owns(p, s)' = Owns(p, s)
  BY DEF Holds, Owns, Session, Recovering
<1>3. \A s \in Sessions : (Claims(p, s)' => Claims(p, s)) /\ (OwnOrNew(p, s)' => OwnOrNew(p, s))
  BY <1>2 DEF Holds, Claims, OwnOrNew, Session
<1>4. MarkSound(p)'
  BY DEF MarkSound, Holds, Session, Marking
<1> QED
  BY <1>1, <1>3, <1>4 DEF Goes, Holds, RecoveryInv, Exclusive

LEMMA GoesObserve ==
  ASSUME StoreSound, RecoveryInv, NEW p \in Procs, NEW next \in {"observing", "finalizing"},
         Observe(p, next)
  PROVE  Goes(p) /\ MovesOn(p)
<1>1. PICK e \in document[p].events .. MaxEvents :
        /\ phase[p] = "serving" /\ document[p] # None
        /\ document' = [document EXCEPT ![p] = [document[p] EXCEPT !.events = e]]
        /\ Store!BeginWrite(p, [document[p] EXCEPT !.events = e].session,
                            [document[p] EXCEPT !.events = e])
        /\ phase' = [phase EXCEPT ![p] = next]
        /\ UNCHANGED <<pending, entry, summaries, owed, liveness, created>>
  BY DEF Observe, Goto, recoveryVars
<1> DEFINE d == [document[p] EXCEPT !.events = e]
<1>2. RecoveryTypeOK /\ InHand(p) /\ document[p] \in Journal
  BY <1>1 DEF RecoveryInv, RecoveryTypeOK
<1>3. /\ d \in Journal /\ d.session = document[p].session /\ d.status = document[p].status
      /\ d # None /\ d.session \in Sessions
  BY <1>1, <1>2, NoneApart, RecoveryConstants DEF Journal
<1>4. Store!BeginWrite(p, d.session, d) /\ document' = [document EXCEPT ![p] = d]
  BY <1>1
<1> HIDE DEF d
<1>5. /\ OthersCalls(p) /\ Shelf' = Shelf
      /\ call'[p].step \in {"fill", "err"} /\ call'[p].target = d.session /\ call'[p].doc = d
      /\ MovesOn(p)
  BY <1>3, <1>4, CallBegins DEF MovesOn
<1>6. /\ phase[p] = "serving" /\ phase' = [phase EXCEPT ![p] = next] /\ document[p] # None
      /\ UNCHANGED <<pending, entry, summaries, owed, liveness, created>>
  BY <1>1
<1>7. phase'[p] = next /\ document'[p] = d
  BY <1>2, <1>4, <1>6 DEF RecoveryTypeOK
<1>8. RecoveryTypeOK'
  BY <1>2, <1>3, <1>4, <1>5, <1>6 DEF RecoveryTypeOK, Phases
<1>9. InHand(p)'
  BY <1>2, <1>3, <1>5, <1>6, <1>7
  DEF InHand, Quiet, Writes, Examining, Marking, Recovering
<1>10. Holds(p)
  BY <1>2, <1>3, <1>4, <1>5, <1>6, <1>7 DEF Holds, Session, RecoveryTypeOK
<1> QED
  BY <1>5, <1>8, <1>9, <1>10, GoesHolds

LEMMA GoesSeal ==
  ASSUME StoreSound, RecoveryInv, NEW p \in Procs, Seal(p)
  PROVE  Goes(p)
<1> DEFINE d == [document[p] EXCEPT !.status = "final"]
<1>1. /\ phase[p] = "finalizing" /\ Store!Return(p)
      /\ document' = [document EXCEPT ![p] = d]
      /\ phase' = [phase EXCEPT ![p] = "sealing"]
      /\ UNCHANGED <<pending, entry, summaries, owed, liveness, created>>
  BY DEF Seal, Goto, recoveryVars
<1>2. RecoveryTypeOK /\ InHand(p) /\ document[p] \in Journal /\ document[p] # None
  BY <1>1 DEF RecoveryInv, RecoveryTypeOK, InHand
<1>3. d \in Journal /\ d.session = document[p].session /\ d.status = "final" /\ d # None
  BY <1>2, NoneApart DEF Journal
<1> HIDE DEF d
<1>4. OthersCalls(p) /\ Shelf' = Shelf /\ ~Writes(p)'
  BY <1>1, CallReturns DEF Writes
<1>5. phase'[p] = "sealing" /\ document'[p] = d
  BY <1>1, <1>2 DEF RecoveryTypeOK
<1>6. RecoveryTypeOK'
  BY <1>1, <1>2, <1>3, <1>4 DEF RecoveryTypeOK, Phases
<1>7. InHand(p)'
  BY <1>1, <1>2, <1>3, <1>4, <1>5
  DEF InHand, Quiet, Writes, Examining, Marking, Recovering
<1>8. Holds(p)
  BY <1>1, <1>2, <1>3, <1>4, <1>5 DEF Holds, Session, RecoveryTypeOK
<1> QED
  BY <1>6, <1>7, <1>8, GoesHolds

LEMMA GoesSealWrite ==
  ASSUME StoreSound, RecoveryInv, NEW p \in Procs, SealWrite(p)
  PROVE  Goes(p) /\ MovesOn(p)
<1>1. /\ phase[p] = "sealing" /\ Store!BeginWrite(p, document[p].session, document[p])
      /\ UNCHANGED <<phase, pending, entry, summaries, owed, document, liveness, created>>
  BY DEF SealWrite, recoveryVars
<1>2. RecoveryTypeOK /\ InHand(p) /\ document[p] \in Journal /\ document[p].session \in Sessions
      /\ document[p] # None
  BY <1>1 DEF RecoveryInv, RecoveryTypeOK, InHand, Journal
<1>3. /\ OthersCalls(p) /\ Shelf' = Shelf
      /\ call'[p].step \in {"fill", "err"} /\ call'[p].target = document[p].session
      /\ call'[p].doc = document[p] /\ MovesOn(p)
  BY <1>1, <1>2, CallBegins DEF MovesOn
<1>4. RecoveryTypeOK'
  BY <1>1, <1>2, <1>3 DEF RecoveryTypeOK
<1>5. InHand(p)'
  BY <1>1, <1>2, <1>3 DEF InHand, Quiet, Writes, Examining, Marking, Recovering
<1>6. Holds(p)
  BY <1>1, <1>3 DEF Holds, Session
<1> QED
  BY <1>3, <1>4, <1>5, <1>6, GoesHolds

LEMMA GoesPersisted ==
  ASSUME StoreSound, RecoveryInv, NEW p \in Procs, Persisted(p)
  PROVE  Goes(p)
<1>1. /\ phase[p] \in {"observing", "sealing", "finalizing"} /\ Store!Return(p)
      /\ phase' = [phase EXCEPT ![p] = "serving"]
      /\ UNCHANGED <<pending, entry, summaries, owed, document, liveness, created>>
  BY DEF Persisted, Goto, recoveryVars
<1>2. RecoveryTypeOK /\ InHand(p)
  BY DEF RecoveryInv
<1>3. OthersCalls(p) /\ Shelf' = Shelf /\ ~Writes(p)'
  BY <1>1, CallReturns DEF Writes
<1>4. phase'[p] = "serving"
  BY <1>1, <1>2 DEF RecoveryTypeOK
<1>5. RecoveryTypeOK'
  BY <1>1, <1>2, <1>3 DEF RecoveryTypeOK, Phases
<1>6. InHand(p)'
  BY <1>1, <1>2, <1>3, <1>4
  DEF InHand, Quiet, Writes, Examining, Marking, Recovering
<1>7. Holds(p)
  BY <1>1, <1>2, <1>3, <1>4 DEF Holds, Session, RecoveryTypeOK
<1> QED
  BY <1>5, <1>6, <1>7, GoesHolds

LEMMA GoesCreate ==
  ASSUME StoreSound, RecoveryInv, NEW p \in Procs, Create(p)
  PROVE  Goes(p) /\ MovesOn(p)
<1>1. PICK s \in Authorized[p] \ created :
        /\ phase[p] = "serving" /\ phase' = [phase EXCEPT ![p] = "creating"]
        /\ created' = created \cup {s} /\ liveness' = [liveness EXCEPT ![s] = p]
        /\ Store!BeginWrite(p, s, [session |-> s, status |-> "active", events |-> 0])
        /\ UNCHANGED <<pending, entry, summaries, owed, document>>
  BY DEF Create, Goto, recoveryVars
<1> DEFINE d == [session |-> s, status |-> "active", events |-> 0]
<1>2. RecoveryTypeOK /\ InHand(p) /\ Exclusive
  BY DEF RecoveryInv
<1>3. /\ s \in Sessions /\ d \in Journal /\ d.session = s /\ d.status = "active"
  BY RecoveryConstants DEF Journal
<1>4. Store!BeginWrite(p, s, d)
  BY <1>1
<1> HIDE DEF d
<1>5. /\ call[p].step = "idle" /\ OthersCalls(p) /\ Shelf' = Shelf
      /\ call'[p].step \in {"fill", "err"} /\ call'[p].target = s /\ call'[p].doc = d
      /\ MovesOn(p)
  BY <1>3, <1>4, CallBegins DEF MovesOn
<1>6. /\ phase[p] = "serving" /\ phase' = [phase EXCEPT ![p] = "creating"]
      /\ created' = created \cup {s} /\ liveness' = [liveness EXCEPT ![s] = p]
      /\ UNCHANGED <<pending, entry, summaries, owed, document>>
  BY <1>1
<1>7. phase'[p] = "creating" /\ liveness'[s] = p
  BY <1>2, <1>3, <1>6 DEF RecoveryTypeOK
<1>8. \A q \in Procs \ {p} : SameFor(q)
  BY <1>2, <1>5, <1>6 DEF SameFor, RecoveryTypeOK, OthersCalls
<1>9. RecoveryTypeOK'
  BY <1>2, <1>3, <1>5, <1>6 DEF RecoveryTypeOK, Phases
<1>10. InHand(p)'
  <2>1. document[p] # None => document[p].session \in created /\ document[p].session # s
    BY <1>2 DEF InHand
  <2>2. document[p] # None => document[p].status # "recovered"
    BY <1>2, <1>6 DEF InHand, Recovering
  <2> QED
    BY <1>3, <1>5, <1>6, <1>7, <2>1, <2>2
    DEF InHand, Quiet, Writes, Examining, Marking, Recovering
<1>11. MarkSound(p)'
  BY <1>7 DEF MarkSound, Marking
<1>12. \A r \in Sessions : Owns(p, r)' => Owns(p, r) /\ liveness[r] = p /\ r # s
  <2> SUFFICES ASSUME NEW r \in Sessions, Owns(p, r)'
               PROVE  Owns(p, r) /\ liveness[r] = p /\ r # s
    OBVIOUS
  <2>1. Owns(p, r)
    BY <1>6 DEF Owns, Recovering
  <2>2. r \in created
    BY <2>1, ClaimsCreated DEF OwnOrNew
  <2> QED
    BY <1>2, <2>1, <2>2 DEF Exclusive, Claims
<1>13. \A r \in Sessions : /\ Claims(p, r)' => Owns(p, r)' \/ r = s
                           /\ OwnOrNew(p, r)' => Owns(p, r)' \/ r = s
  BY <1>5, <1>7 DEF Claims, OwnOrNew
<1>14. \A r \in Sessions : r # s => liveness'[r] = liveness[r]
  BY <1>2, <1>6 DEF RecoveryTypeOK
<1>15. \A r \in Sessions : Claims(p, r)' => liveness'[r] = p
  BY <1>7, <1>12, <1>13, <1>14
<1>16. \A r \in Sessions : OwnOrNew(p, r)' => OwnOrNew(p, r) \/ r \notin created
  BY <1>12, <1>13 DEF OwnOrNew
<1> QED
  BY <1>5, <1>6, <1>8, <1>9, <1>10, <1>11, <1>14, <1>15, <1>16 DEF Goes

LEMMA GoesCreated ==
  ASSUME StoreSound, RecoveryInv, NEW p \in Procs, Created(p)
  PROVE  Goes(p)
<1> DEFINE s == call[p].target
           kept == [r \in Sessions |->
             IF document[p] # None /\ r = document[p].session THEN None ELSE liveness[r]]
<1>1. /\ phase[p] = "creating" /\ Store!Return(p)
      /\ phase' = [phase EXCEPT ![p] = "serving"]
      /\ UNCHANGED <<pending, entry, summaries, owed, created>>
      /\ \/ document' = [document EXCEPT ![p] = call[p].doc] /\ liveness' = kept
         \/ liveness' = [liveness EXCEPT ![s] = None] /\ UNCHANGED document
  BY DEF Created, Goto, recoveryVars
<1>2. RecoveryTypeOK /\ InHand(p) /\ Exclusive
  BY DEF RecoveryInv
<1>3. /\ s \in created /\ s \in Sessions /\ call[p].doc \in Journal /\ call[p].doc.session = s
      /\ call[p].doc.status = "active" /\ call[p].doc # None
      /\ document[p] # None => document[p].session # s
  BY <1>1, <1>2, NoneApart DEF InHand, RecoveryTypeOK
<1>4. OthersCalls(p) /\ Shelf' = Shelf /\ ~Writes(p)'
  BY <1>1, CallReturns DEF Writes
<1>5. phase'[p] = "serving"
  BY <1>1, <1>2 DEF RecoveryTypeOK
<1>6. /\ liveness[s] = p
      /\ document[p] # None => liveness[document[p].session] = p
  <2>1. Claims(p, s)
    BY <1>1 DEF Claims
  <2>2. document[p] # None => Claims(p, document[p].session) /\ document[p].session \in Sessions
    BY <1>1, <1>2 DEF Claims, Owns, Recovering, RecoveryTypeOK, InHand
  <2> QED
    BY <1>2, <1>3, <2>1, <2>2 DEF Exclusive
<1>7. /\ liveness' \in [Sessions -> Procs \cup {None}]
      /\ document' \in [Procs -> Journal \cup {None}]
      /\ \A r \in Sessions : liveness'[r] # liveness[r] => liveness[r] = p
      /\ \A q \in Procs \ {p} : document'[q] = document[q]
  BY <1>1, <1>2, <1>3, <1>6 DEF RecoveryTypeOK
<1>8. /\ document'[p] = call[p].doc \/ document'[p] = document[p]
      /\ document'[p] # None => liveness'[document'[p].session] = p
  <2>1. CASE document' = [document EXCEPT ![p] = call[p].doc] /\ liveness' = kept
    <3>1. document'[p] = call[p].doc
      BY <1>2, <2>1 DEF RecoveryTypeOK
    <3> QED
      BY <1>3, <1>6, <2>1, <3>1
  <2>2. CASE liveness' = [liveness EXCEPT ![s] = None] /\ UNCHANGED document
    <3>1. document[p] # None => document[p].session \in Sessions
      BY <1>2 DEF RecoveryTypeOK, InHand
    <3> QED
      BY <1>2, <1>3, <1>6, <2>2, <3>1 DEF RecoveryTypeOK
  <2> QED
    BY <1>1, <2>1, <2>2
<1>9. \A q \in Procs \ {p} : SameFor(q)
  BY <1>1, <1>2, <1>4, <1>7 DEF SameFor, RecoveryTypeOK, OthersCalls
<1>10. RecoveryTypeOK'
  BY <1>1, <1>2, <1>4, <1>7 DEF RecoveryTypeOK, Phases
<1>11. InHand(p)'
  <2>1. document'[p] # None => document'[p].session \in created /\ document'[p].status # "recovered"
    BY <1>1, <1>2, <1>3, <1>8 DEF InHand, Recovering
  <2> QED
    BY <1>1, <1>4, <1>5, <2>1 DEF InHand, Quiet, Examining, Marking, Recovering
<1>12. MarkSound(p)'
  BY <1>5 DEF MarkSound, Marking
<1>13. \A r \in Sessions : (Claims(p, r)' => liveness'[r] = p) /\ (OwnOrNew(p, r)' => OwnOrNew(p, r))
  <2>1. \A r \in Sessions : /\ Claims(p, r)' => document'[p] # None /\ r = document'[p].session
                            /\ OwnOrNew(p, r)' => document'[p] # None /\ r = document'[p].session
    BY <1>5 DEF Claims, OwnOrNew, Owns
  <2>2. \A r \in Sessions : document[p] # None /\ r = document[p].session => OwnOrNew(p, r)
    BY <1>1 DEF OwnOrNew, Owns, Recovering
  <2>3. OwnOrNew(p, s)
    BY <1>1 DEF OwnOrNew
  <2> QED
    BY <1>3, <1>8, <2>1, <2>2, <2>3
<1> QED
  BY <1>1, <1>4, <1>7, <1>9, <1>10, <1>11, <1>12, <1>13 DEF Goes

LEMMA GoesExit ==
  ASSUME StoreSound, RecoveryInv, NEW p \in Procs, Exit(p)
  PROVE  Goes(p) /\ MovesOn(p) /\ pending'[p] = {} /\ owed'[p] = {} /\ phase'[p] = "down"
<1>1. /\ phase' = [phase EXCEPT ![p] = "down"]
      /\ liveness' = [s \in Sessions |-> IF liveness[s] = p THEN None ELSE liveness[s]]
      /\ document' = [document EXCEPT ![p] = None]
      /\ pending' = [pending EXCEPT ![p] = {}]
      /\ entry' = [entry EXCEPT ![p] = None]
      /\ summaries' = [summaries EXCEPT ![p] = {}]
      /\ owed' = [owed EXCEPT ![p] = {}]
      /\ UNCHANGED created
  BY DEF Exit, Goto
<1>2. RecoveryTypeOK
  BY DEF RecoveryInv
<1>3. OthersCalls(p) /\ Shelf' = Shelf /\ call'[p].step = "idle" /\ [P!Next]_P!vars /\ NoReads'
  <2>1. CASE call[p].step = "idle" /\ UNCHANGED storeVars
    BY <2>1, Untouched DEF OthersCalls, StoreSound
  <2>2. CASE Store!Crash(p)
    BY <2>2, CallReturns
  <2> QED
    BY <2>1, <2>2 DEF Exit
<1>4. /\ phase'[p] = "down" /\ document'[p] = None /\ summaries'[p] = {} /\ owed'[p] = {}
      /\ entry'[p] = None /\ pending'[p] = {}
  BY <1>1, <1>2 DEF RecoveryTypeOK
<1>5. \A q \in Procs \ {p} : SameFor(q)
  BY <1>1, <1>2, <1>3 DEF SameFor, RecoveryTypeOK, OthersCalls
<1>6. RecoveryTypeOK'
  BY <1>1, <1>2, <1>3 DEF RecoveryTypeOK, Phases
<1>7. InHand(p)'
  BY <1>3, <1>4 DEF InHand, Quiet, Writes, Examining, Marking, Recovering
<1>8. \A s \in Sessions : liveness'[s] # liveness[s] => liveness[s] = p
  BY <1>1
<1> QED
  BY <1>1, <1>3, <1>4, <1>5, <1>6, <1>7, <1>8, LooseClaims DEF Goes, Loose, MovesOn

-----------------------------------------------------------------------------
(* Every step.                                                                *)
LEMMA ProgramGoes ==
  ASSUME StoreSound, RecoveryInv, NEW p \in Procs,
         Start(p) \/ Recover(p) \/ Serve(p) \/ Exit(p)
  PROVE  Goes(p) /\ MovesOn(p)
<1>1. CASE Start(p) \/ List(p) \/ Examine(p) \/ TryLiveness(p) \/ Reread(p) \/ Recovered(p)
  <2>1. Goes(p)
    BY <1>1, GoesStart, GoesList, GoesExamine, GoesTryLiveness, GoesReread,
       GoesRecovered
  <2>2. UNCHANGED storeVars
    BY <1>1 DEF Start, List, Examine, TryLiveness, Reread, Recovered
  <2>3. MovesOn(p)
    BY <2>2, Untouched DEF MovesOn, StoreSound
  <2> QED
    BY <2>1, <2>3
<1>2. CASE Marked(p) \/ Created(p) \/ Seal(p) \/ Persisted(p)
  <2>1. Goes(p)
    BY <1>2, GoesMarked, GoesCreated, GoesSeal, GoesPersisted
  <2>2. Store!Return(p)
    BY <1>2 DEF Marked, Created, Seal, Persisted
  <2>3. MovesOn(p)
    BY <2>2, CallReturns DEF MovesOn
  <2> QED
    BY <2>1, <2>3
<1>3. CASE \/ Mark(p) \/ Create(p) \/ Observe(p, "observing") \/ Observe(p, "finalizing")
           \/ SealWrite(p) \/ Exit(p)
  BY <1>3, GoesMark, GoesCreate, GoesObserve, GoesSealWrite, GoesExit
<1> QED
  BY <1>1, <1>2, <1>3 DEF Recover, Serve

LEMMA WriteGoes ==
  ASSUME StoreSound, NEW p \in Procs, WriteStep(p)
  PROVE  Writes(p) /\ WriteFrame(p) /\ MovesOn(p)
<1>1. UNCHANGED <<phase, recoveryVars, document, liveness, created>>
  BY DEF WriteStep
<1>2. /\ Advanced(p) /\ [P!Next]_P!vars /\ NoReads'
      /\ \/ Shelf' = Shelf /\ ~Installs(p)
         \/ Installs(p) /\ Shelf' = [Shelf EXCEPT ![call[p].target] = call[p].doc]
  BY CallAdvances
<1>3. MovesOn(p)
  BY <1>2 DEF MovesOn, Advanced
<1>4. Writes(p)
  BY <1>2 DEF Advanced, Writes, P!Writing
<1> QED
  BY <1>1, <1>2, <1>3, <1>4 DEF WriteFrame

LEMMA StillKeeps ==
  ASSUME StoreSound, RecoveryInv, UNCHANGED vars
  PROVE  RecoveryInv' /\ [P!Next]_P!vars /\ NoReads' /\ Shelf' = Shelf
<1>1. /\ UNCHANGED storeVars
      /\ UNCHANGED <<phase, pending, entry, summaries, owed, document, liveness, created>>
  BY DEF vars, recoveryVars
<1>2. Shelf' = Shelf /\ call' = call /\ [P!Next]_P!vars /\ NoReads'
  BY <1>1, Untouched DEF StoreSound
<1>3. \A p \in Procs : InHand(p)' /\ MarkSound(p)'
  BY <1>1, <1>2 DEF RecoveryInv, InHand, MarkSound, Writes, Installed
<1>4. RecoveryTypeOK' /\ Named' /\ Exclusive' /\ MarkedForGood' /\ Reported' /\ ReportedOnce'
  BY <1>1, <1>2
  DEF RecoveryInv, RecoveryTypeOK, Named, Exclusive, MarkedForGood, Reported,
      ReportedOnce,
      Claims, Owns, Ownerless
<1> QED
  BY <1>2, <1>3, <1>4 DEF RecoveryInv

LEMMA StoreKeeps ==
  ASSUME StoreSound, [P!Next]_P!vars, NoReads'
  PROVE  StoreSound'
<1>1. P!IInv' /\ P!Tidy'
  BY P!IInvStep, P!TidyStep, StoreParameters DEF StoreSound
<1> QED
  BY <1>1 DEF StoreSound, P!Removable

LEMMA RecoveryStep ==
  ASSUME StoreSound, RecoveryInv, [Next]_vars
  PROVE  StoreSound' /\ RecoveryInv'
<1>1. CASE UNCHANGED vars
  BY <1>1, StillKeeps, StoreKeeps
<1>2. ASSUME NEW p \in Procs, Start(p) \/ Recover(p) \/ Serve(p) \/ Exit(p)
      PROVE  StoreSound' /\ RecoveryInv'
  BY <1>2, ProgramGoes, GoesKeeps, StoreKeeps DEF MovesOn
<1>3. ASSUME NEW p \in Procs, WriteStep(p)
      PROVE  StoreSound' /\ RecoveryInv'
  BY <1>3, WriteGoes, WriteKeeps, StoreKeeps DEF MovesOn
<1> QED
  BY <1>1, <1>2, <1>3 DEF Next

LEMMA RecoveryInit ==
  ASSUME P!Removable, Init
  PROVE  StoreSound /\ RecoveryInv
<1>1. P!Init
  BY SameSteps
  DEF Init, Store!Init, P!Init, Store!Files, P!Files, Store!NoCall, P!NoCall
<1>2. \A p \in Procs : call[p] = P!NoCall /\ call[p].step = "idle"
  BY <1>1 DEF P!Init, P!NoCall
<1>3. files = [f \in P!Files |-> Absent] /\ opLock = None
  BY <1>1 DEF P!Init
<1>4. StoreSound
  <2>1. P!IInv
    BY <1>1, P!IInvInit, StoreParameters
  <2>2. P!Tidy
    BY <1>2, <1>3 DEF P!Tidy, P!Files, P!NoCall
  <2> QED
    BY <1>2, <2>1, <2>2 DEF StoreSound, NoReads
<1>5. Shelf = [s \in Sessions |-> Absent]
  BY <1>3, <1>4, AtRest DEF Shelf, P!Files, Store!Files
<1>6. /\ phase = [p \in Procs |-> "down"] /\ pending = [p \in Procs |-> {}]
      /\ entry = [p \in Procs |-> None] /\ document = [p \in Procs |-> None]
      /\ liveness = [s \in Sessions |-> None] /\ created = {}
      /\ summaries = [p \in Procs |-> {}] /\ owed = [p \in Procs |-> {}]
  BY DEF Init
<1>7. RecoveryTypeOK
  BY <1>5, <1>6 DEF RecoveryTypeOK, Phases
<1>8. Named /\ MarkedForGood
  BY <1>5 DEF Named, MarkedForGood
<1>9. Exclusive /\ Reported /\ ReportedOnce
  BY <1>6 DEF Exclusive, Claims, Owns, Reported, ReportedOnce
<1>10. \A p \in Procs : InHand(p) /\ MarkSound(p)
  BY <1>2, <1>6 DEF InHand, MarkSound, Writes, Quiet, Examining, Marking, Recovering
<1> QED
  BY <1>4, <1>7, <1>8, <1>9, <1>10 DEF RecoveryInv

(* The journals on disk and what the servers have in hand agree, and of      *)
(* several servers that start together one reports an interrupted journal.   *)
THEOREM Recoverable ==
  ASSUME P!Removable PROVE Spec => [](StoreSound /\ RecoveryInv)
<1>1. Init => StoreSound /\ RecoveryInv
  BY RecoveryInit
<1>2. (StoreSound /\ RecoveryInv) /\ [Next]_vars => (StoreSound /\ RecoveryInv)'
  BY RecoveryStep
<1> QED
  BY <1>1, <1>2, PTL DEF Spec

(* Recovery never marks the journal of a living session, and of the servers  *)
(* that start together one reports an interrupted journal, whatever file     *)
(* operation of a write fails before its removals.                           *)
THEOREM LiveJournals ==
  ASSUME P!Removable PROVE Spec => [](LiveJournalUntouched /\ ReportedOnce)
<1>1. ASSUME RecoveryInv PROVE LiveJournalUntouched /\ ReportedOnce
  <2>1. \A s \in Sessions : Shelf[s] = Kept(s) /\ Shelf[s] \in Journal \cup {Absent}
    BY <1>1 DEF Shelf, RecoveryInv, RecoveryTypeOK
  <2>2. LiveJournalUntouched
    BY <1>1, <2>1, RecoveryConstants
    DEF LiveJournalUntouched, RecoveryInv, MarkedForGood, Ownerless, Status
  <2> QED
    BY <1>1, <2>2 DEF RecoveryInv
<1> QED
  BY <1>1, Recoverable, PTL

(* Recovery marks a journal that has no verdict, with every event that its   *)
(* owner persisted: a session that ends between the first read and the lock  *)
(* is read again under it.                                                   *)
THEOREM Verdicts ==
  ASSUME P!Removable PROVE Spec => VerdictStands
<1> DEFINE Step == \A s \in Sessions :
       Status(Kept(s)) # "recovered" /\ Status(Kept(s))' = "recovered"
         => Status(Kept(s)) = "active" /\ Kept(s).events = Kept(s)'.events
<1>1. ASSUME StoreSound, RecoveryInv, [Next]_vars PROVE [Step]_vars
  <2> SUFFICES ASSUME NEW s \in Sessions,
                      Status(Kept(s)) # "recovered", Status(Kept(s))' = "recovered"
               PROVE  Status(Kept(s)) = "active" /\ Kept(s).events = Kept(s)'.events
    OBVIOUS
  <2>1. /\ Shelf[s] = Kept(s) /\ Shelf'[s] = Kept(s)'
        /\ Shelf[s] \in Journal \cup {Absent} /\ Shelf'[s] \in Journal \cup {Absent}
        /\ Absent \notin Journal
    <3>1. RecoveryInv'
      BY <1>1, RecoveryStep
    <3> QED
      BY <1>1, <3>1, RecoveryConstants DEF Shelf, RecoveryInv, RecoveryTypeOK
  <2>2. Shelf' # Shelf
    BY <2>1 DEF Status
  <2>3. PICK p \in Procs : WriteStep(p)
    <3>1. ~UNCHANGED vars
      BY <1>1, <2>2, StillKeeps
    <3>2. \A p \in Procs : ~(Start(p) \/ Recover(p) \/ Serve(p) \/ Exit(p))
      BY <1>1, <2>2, ProgramGoes DEF Goes
    <3> QED
      BY <1>1, <3>1, <3>2 DEF Next
  <2>4. Writes(p) /\ WriteFrame(p)
    BY <1>1, <2>3, WriteGoes
  <2>5. /\ Shelf'[s] # Absent /\ Shelf'[s].status = "recovered"
        /\ Shelf[s] = Absent \/ Shelf[s].status # "recovered"
    BY <2>1 DEF Status
  <2>6. Shelf[s] # Absent /\ Shelf[s].status = "active" /\ Shelf[s].events = Shelf'[s].events
    BY <1>1, <2>4, <2>5, WriteStands
  <2> QED
    BY <2>1, <2>6 DEF Status
<1>2. (StoreSound /\ RecoveryInv) /\ [Next]_vars => [Step]_vars
  BY <1>1
<1> HIDE DEF Step
<1>3. Spec => [][Step]_vars
  BY <1>2, Recoverable, PTL DEF Spec
<1> QED
  BY <1>3 DEF Step, VerdictStands

-----------------------------------------------------------------------------
(* What a starting server owes, when no operation of the store fails and the  *)
(* directory holds at most ListLimit records.                                 *)
RecoveryUndisturbed ==
  /\ Faults = {} /\ ~TornWrites
  /\ IsFiniteSet(Sessions) /\ Cardinality(Sessions) <= ListLimit

LEMMA UndisturbedRemoves == RecoveryUndisturbed => P!Removable
  BY DEF RecoveryUndisturbed, P!Removable

(* A record that is there stays there. *)
LEMMA WriteFinishes ==
  ASSUME RecoveryInv, NEW p \in Procs, Writes(p), WriteFrame(p), NEW s \in Sessions,
         Orphan(s)
  PROVE  Orphan(s)' /\ (Finished(s) => Finished(s)')
<1>1. Written(p) /\ Shelf \in [Sessions -> Journal \cup {Absent}]
  BY WritesItsOwn DEF RecoveryInv, RecoveryTypeOK
<1>2. Shelf'[s] = Shelf[s] \/ (s = call[p].target /\ Shelf'[s] = call[p].doc)
  BY <1>1 DEF WriteFrame
<1>3. call[p].doc # Absent
  BY <1>1, RecoveryConstants DEF Written
<1>4. s = call[p].target => call[p].doc.status = "recovered"
  BY <1>1 DEF Written, Orphan, Ownerless, OwnOrNew
<1>5. Ownerless(s)'
  BY WriteOwns DEF Orphan, Ownerless, OwnOrNew
<1> QED
  BY <1>2, <1>3, <1>4, <1>5 DEF Orphan, Finished

LEMMA OwedWrite ==
  ASSUME RecoveryInv, OwedInv, NEW p \in Procs, Writes(p), WriteFrame(p)
  PROVE  \A q \in Procs : Owing(q)'
<1> SUFFICES ASSUME NEW q \in Procs PROVE Owing(q)'
  OBVIOUS
<1>1. Owing(q) /\ pending[q] \subseteq Sessions /\ owed[q] \subseteq Sessions
  BY DEF OwedInv, RecoveryInv, RecoveryTypeOK
<1>2. phase' = phase /\ pending' = pending /\ owed' = owed
  BY DEF WriteFrame, recoveryVars
<1>3. \A s \in owed[q] : Orphan(s)' /\ (Finished(s) => Finished(s)')
  BY <1>1, WriteFinishes DEF Owing
<1>4. \A s \in pending[q] : Shelf'[s] # Absent
  <2>1. Written(p) /\ Shelf \in [Sessions -> Journal \cup {Absent}]
    BY WritesItsOwn DEF RecoveryInv, RecoveryTypeOK
  <2>2. call[p].doc # Absent
    BY <2>1, RecoveryConstants DEF Written
  <2> QED
    BY <1>1, <2>1, <2>2 DEF Owing, WriteFrame
<1> QED
  BY <1>1, <1>2, <1>3, <1>4 DEF Owing

(* A step of p's program leaves what the others owe; p itself still has, or   *)
(* has finished, what it owes.                                                *)
Settles(p) ==
  /\ \A s \in pending'[p] : Shelf[s] # Absent
  /\ \A s \in owed'[p] : s \in Authorized[p] /\ Orphan(s)
  /\ phase'[p] \in {"next"} \cup Examining => \A s \in owed'[p] : s \in pending'[p] \/ Finished(s)
  /\ phase'[p] \notin Recovering \cup {"down"} => \A s \in owed'[p] : Finished(s)
  /\ phase'[p] \in {"down", "list"} => owed'[p] = {}
LEMMA OwedGoes ==
  ASSUME RecoveryInv, OwedInv, NEW p \in Procs, Goes(p), Settles(p)
  PROVE  \A q \in Procs : Owing(q)'
<1>1. Shelf' = Shelf
  BY DEF Goes
<1>2. \A s \in Sessions : Orphan(s) => Orphan(s)'
  BY <1>1, GoesOwnerless DEF Orphan, RecoveryInv, Named
<1>3. Authorized \in [Procs -> SUBSET Sessions]
  BY RecoveryConstants
<1>4. ASSUME NEW q \in Procs \ {p} PROVE Owing(q)'
  <2>1. Owing(q) /\ SameFor(q)
    BY DEF OwedInv, Goes
  <2> QED
    BY <1>1, <1>2, <1>3, <2>1 DEF Owing, SameFor, Finished
<1>5. Owing(p)'
  BY <1>1, <1>2, <1>3 DEF Settles, Owing, Finished
<1> QED
  BY <1>4, <1>5

LEMMA SettlesStart ==
  ASSUME RecoveryInv, OwedInv, NEW p \in Procs, Start(p)
  PROVE  Settles(p)
<1>1. phase[p] = "down" /\ phase'[p] = "list" /\ pending' = pending /\ owed' = owed
  BY DEF Start, Goto, recoveryVars, RecoveryInv, RecoveryTypeOK
<1>2. Owing(p)
  BY DEF OwedInv
<1> QED
  BY <1>1, <1>2 DEF Settles, Owing, Examining, Recovering

LEMMA SettlesList ==
  ASSUME RecoveryUndisturbed, StoreSound, RecoveryInv, NEW p \in Procs, List(p)
  PROVE  Settles(p)
<1>1. opLock = None /\ owed' = [owed EXCEPT ![p] = Abandoned(p)]
  BY DEF List
<1>2. Listed = {s \in Sessions : Shelf[s] # Absent}
  BY <1>1, AtRest DEF Listed, Store!Files
<1>3. Cardinality(Listed) <= ListLimit
  <2>1. IsFiniteSet(Sessions) /\ Cardinality(Sessions) <= ListLimit
    BY DEF RecoveryUndisturbed
  <2>2. /\ IsFiniteSet(Listed) /\ Cardinality(Listed) <= Cardinality(Sessions)
    BY <1>2, <2>1, FS_Subset
  <2>3. Cardinality(Listed) \in Nat /\ Cardinality(Sessions) \in Nat /\ ListLimit \in Nat
    BY <2>1, <2>2, FS_CardinalityType, RecoveryConstants
  <2> QED
    BY <2>1, <2>2, <2>3
<1>4. pending' = [pending EXCEPT ![p] = Listed] /\ phase' = [phase EXCEPT ![p] = "next"]
  <2>1. Cardinality(Listed) \in Nat /\ ListLimit \in Nat
    BY <1>2, FS_Subset, FS_CardinalityType, RecoveryConstants DEF RecoveryUndisturbed
  <2> QED
    BY <1>3, <2>1 DEF List, Goto
<1>5. pending'[p] = Listed /\ owed'[p] = Abandoned(p) /\ phase'[p] = "next"
  BY <1>1, <1>4 DEF RecoveryInv, RecoveryTypeOK
<1>6. \A s \in Abandoned(p) : s \in Listed /\ s \in Authorized[p] /\ Orphan(s)
  <2> SUFFICES ASSUME NEW s \in Abandoned(p)
               PROVE  s \in Listed /\ s \in Authorized[p] /\ Orphan(s)
    OBVIOUS
  <2>1. s \in Authorized[p] /\ s \in Sessions /\ files[s] \in Journal /\ liveness[s] = None
    BY RecoveryConstants DEF Abandoned, Active
  <2>2. Shelf[s] # Absent
    BY <1>1, <2>1, AtRest, RecoveryConstants
  <2>3. Ownerless(s)
    BY <2>1, NoneApart DEF Ownerless, RecoveryInv, Exclusive, Claims
  <2> QED
    BY <1>2, <2>1, <2>2, <2>3 DEF Orphan
<1> QED
  BY <1>2, <1>5, <1>6 DEF Settles, Examining, Recovering

LEMMA SettlesExamine ==
  ASSUME StoreSound, RecoveryInv, OwedInv, NEW p \in Procs, Examine(p)
  PROVE  Settles(p)
<1>1. phase[p] = "next" /\ opLock = None /\ owed' = owed
  BY DEF Examine
<1>2. Owing(p) /\ RecoveryTypeOK
  BY DEF OwedInv, RecoveryInv
<1>3. PICK f \in pending[p] :
        \/ files[f] \in {Absent, Torn} /\ Abort(p)
        \/ files[f] \in Journal /\ ~Active(files[f]) /\ Skip(p, f)
        \/ pending' = pending /\ phase' = [phase EXCEPT ![p] = "try"]
  BY DEF Examine, Foremost, Goto
<1>4. f \in Sessions /\ files[f] = Shelf[f] /\ Shelf[f] # Absent /\ files[f] # Torn
  BY <1>1, <1>2, AtRest DEF RecoveryTypeOK, Owing
<1>5. CASE files[f] \in Journal /\ ~Active(files[f]) /\ Skip(p, f)
  <2>1. pending'[p] = pending[p] \ {f} /\ phase'[p] = "next" /\ Finished(f)
    BY <1>1, <1>2, <1>4, <1>5 DEF Skip, RecoveryTypeOK, Finished, Active
  <2> QED
    BY <1>1, <1>2, <2>1 DEF Settles, Owing, Examining, Recovering
<1>6. CASE pending' = pending /\ phase' = [phase EXCEPT ![p] = "try"]
  <2>1. phase'[p] = "try"
    BY <1>2, <1>6 DEF RecoveryTypeOK
  <2> QED
    BY <1>1, <1>2, <1>6, <2>1 DEF Settles, Owing, Examining, Recovering
<1> QED
  BY <1>3, <1>4, <1>5, <1>6

LEMMA SettlesTryLiveness ==
  ASSUME RecoveryInv, OwedInv, NEW p \in Procs, TryLiveness(p)
  PROVE  Settles(p)
<1>1. /\ phase[p] = "try"
      /\ \/ phase' = [phase EXCEPT ![p] = "reread"] /\ pending' = pending /\ owed' = owed
         \/ owed' = [owed EXCEPT ![p] = @ \ {entry[p]}] /\ Done(p)
  BY DEF TryLiveness, Goto
<1>2. Owing(p) /\ RecoveryTypeOK
  BY DEF OwedInv, RecoveryInv
<1>3. CASE phase' = [phase EXCEPT ![p] = "reread"] /\ pending' = pending /\ owed' = owed
  <2>1. phase'[p] = "reread"
    BY <1>2, <1>3 DEF RecoveryTypeOK
  <2> QED
    BY <1>1, <1>2, <1>3, <2>1 DEF Settles, Owing, Examining, Recovering
<1>4. CASE owed' = [owed EXCEPT ![p] = @ \ {entry[p]}] /\ Done(p)
  <2>1. /\ owed'[p] = owed[p] \ {entry[p]} /\ pending'[p] = pending[p] \ {entry[p]}
        /\ phase'[p] = "next"
    BY <1>2, <1>4 DEF Done, Goto, RecoveryTypeOK
  <2> QED
    BY <1>1, <1>2, <2>1 DEF Settles, Owing, Examining, Recovering
<1> QED
  BY <1>1, <1>3, <1>4

(* p is done with an entry that it does not owe or that is finished. *)
LEMMA SettlesDone ==
  ASSUME RecoveryInv, OwedInv, NEW p \in Procs, phase[p] \in Examining, Done(p), owed' = owed,
         entry[p] \notin owed[p] \/ Finished(entry[p])
  PROVE  Settles(p)
<1>1. Owing(p) /\ RecoveryTypeOK
  BY DEF OwedInv, RecoveryInv
<1>2. pending'[p] = pending[p] \ {entry[p]} /\ phase'[p] = "next"
  BY <1>1 DEF Done, Goto, RecoveryTypeOK
<1> QED
  BY <1>1, <1>2 DEF Settles, Owing, Examining, Recovering

LEMMA SettlesReread ==
  ASSUME StoreSound, RecoveryInv, OwedInv, NEW p \in Procs, Reread(p)
  PROVE  Settles(p)
<1> DEFINE current == files[entry[p]]
<1>1. /\ phase[p] = "reread" /\ opLock = None /\ owed' = owed
      /\ \/ current \in {Absent, Torn}
         \/ current \in Journal /\ ~Active(current) /\ Done(p)
         \/ current \in Journal /\ current.session \notin Authorized[p] /\ Done(p)
         \/ pending' = pending /\ phase' = [phase EXCEPT ![p] = "mark"]
  BY DEF Reread, Goto, Active
<1>2. Owing(p) /\ RecoveryTypeOK /\ Named
  BY DEF OwedInv, RecoveryInv
<1>3. /\ entry[p] \in Sessions /\ entry[p] \in pending[p]
      /\ current = Shelf[entry[p]] /\ current \notin {Absent, Torn}
      /\ current.session = entry[p]
  BY <1>1, <1>2, Entry, AtRest DEF Owing, Named
<1>4. CASE current \in Journal /\ ~Active(current) /\ Done(p)
  BY <1>1, <1>3, <1>4, SettlesDone DEF Finished, Active, Examining
<1>5. CASE current \in Journal /\ current.session \notin Authorized[p] /\ Done(p)
  <2>1. entry[p] \notin owed[p]
    BY <1>2, <1>3, <1>5 DEF Owing
  <2> QED
    BY <1>1, <1>5, <2>1, SettlesDone DEF Examining
<1>6. CASE pending' = pending /\ phase' = [phase EXCEPT ![p] = "mark"]
  <2>1. phase'[p] = "mark"
    BY <1>2, <1>6 DEF RecoveryTypeOK
  <2> QED
    BY <1>1, <1>2, <1>6, <2>1 DEF Settles, Owing, Examining, Recovering
<1> QED
  BY <1>1, <1>3, <1>4, <1>5, <1>6

LEMMA SettlesMark ==
  ASSUME RecoveryInv, OwedInv, NEW p \in Procs, Mark(p)
  PROVE  Settles(p)
<1>1. phase[p] = "mark" /\ phase'[p] = "marking" /\ pending' = pending /\ owed' = owed
  BY DEF Mark, Goto, recoveryVars, RecoveryInv, RecoveryTypeOK
<1>2. Owing(p)
  BY DEF OwedInv
<1> QED
  BY <1>1, <1>2 DEF Settles, Owing, Examining, Recovering

LEMMA SettlesMarked ==
  ASSUME RecoveryInv, OwedInv, NEW p \in Procs, Marked(p)
  PROVE  Settles(p)
<1>1. call[p].step # "err" /\ InHand(p) /\ MarkSound(p)
  BY DEF OwedInv, RecoveryInv
<1>2. phase[p] = "marking" /\ call[p].step = "ok" /\ Done(p) /\ owed' = owed
  BY <1>1 DEF Marked
<1>3. Finished(entry[p])
  BY <1>1, <1>2 DEF InHand, MarkSound, Marking, Installed, Finished
<1> QED
  BY <1>2, <1>3, SettlesDone DEF Examining

LEMMA SettlesRecovered ==
  ASSUME RecoveryInv, OwedInv, NEW p \in Procs, Recovered(p)
  PROVE  Settles(p)
<1>1. /\ phase[p] = "next" /\ pending[p] = {} /\ phase'[p] = "serving"
      /\ pending' = pending /\ owed' = owed
  BY DEF Recovered, Goto, recoveryVars, RecoveryInv, RecoveryTypeOK
<1>2. Owing(p)
  BY DEF OwedInv
<1> QED
  BY <1>1, <1>2 DEF Settles, Owing, Examining, Recovering

LEMMA SettlesServe ==
  ASSUME RecoveryInv, OwedInv, NEW p \in Procs, Serve(p)
  PROVE  Settles(p)
<1> DEFINE Busy == {"serving", "creating", "observing", "finalizing", "sealing"}
<1>1. /\ phase[p] \in Busy /\ pending' = pending /\ owed' = owed
      /\ phase' = phase \/ \E where \in Busy : phase' = [phase EXCEPT ![p] = where]
  BY DEF Serve, Create, Created, Observe, Seal, SealWrite, Persisted, Goto,
         recoveryVars
<1>2. Owing(p) /\ phase \in [Procs -> Phases]
  BY DEF OwedInv, RecoveryInv, RecoveryTypeOK
<1>3. phase'[p] \in Busy
  BY <1>1, <1>2
<1> QED
  BY <1>1, <1>2, <1>3 DEF Settles, Owing, Examining, Recovering

LEMMA OwedStep ==
  ASSUME RecoveryUndisturbed, StoreSound, RecoveryInv, OwedInv, [Next]_vars
  PROVE  OwedInv'
<1>1. CASE UNCHANGED vars
  <2>1. Shelf' = Shelf
    BY <1>1, StillKeeps
  <2>2. UNCHANGED <<phase, pending, owed, document, call>>
    BY <1>1 DEF vars, recoveryVars, storeVars
  <2> QED
    BY <2>1, <2>2 DEF OwedInv, Owing, Orphan, Ownerless, Owns, Finished
<1>2. ASSUME NEW p \in Procs, Start(p) \/ Recover(p) \/ Serve(p) \/ Exit(p)
      PROVE  OwedInv'
  <2>1. Goes(p) /\ MovesOn(p)
    BY <1>2, ProgramGoes
  <2>2. Settles(p)
    <3>1. CASE Exit(p)
      <4>1. pending'[p] = {} /\ owed'[p] = {} /\ phase'[p] = "down"
        BY <3>1, GoesExit
      <4> QED
        BY <4>1 DEF Settles
    <3> QED
      BY <1>2, <3>1, SettlesStart, SettlesList, SettlesExamine, SettlesTryLiveness,
         SettlesReread, SettlesMark, SettlesMarked, SettlesRecovered, SettlesServe DEF Recover
  <2>3. \A q \in Procs : call'[q].step # "err"
    BY <2>1 DEF Goes, SameFor, MovesOn, OwedInv, RecoveryUndisturbed
  <2> QED
    BY <2>1, <2>2, <2>3, OwedGoes DEF OwedInv
<1>3. ASSUME NEW p \in Procs, WriteStep(p)
      PROVE  OwedInv'
  <2>1. Writes(p) /\ WriteFrame(p) /\ MovesOn(p)
    BY <1>3, WriteGoes
  <2>2. \A q \in Procs : call'[q].step # "err"
    BY <2>1 DEF WriteFrame, Advanced, OthersCalls, MovesOn, OwedInv, RecoveryUndisturbed
  <2> QED
    BY <2>1, <2>2, OwedWrite DEF OwedInv
<1> QED
  BY <1>1, <1>2, <1>3 DEF Next

LEMMA OwedInit ==
  ASSUME Init
  PROVE  OwedInv
<1>1. /\ phase = [p \in Procs |-> "down"] /\ pending = [p \in Procs |-> {}]
      /\ owed = [p \in Procs |-> {}]
  BY DEF Init
<1>2. \A p \in Procs : call[p].step = "idle"
  BY DEF Init, Store!Init, Store!NoCall
<1> QED
  BY <1>1, <1>2 DEF OwedInv, Owing

(* Recovery marks abandoned journals only, every one that it may mark, and   *)
(* one of the servers that start together reports each.                      *)
THEOREM Recovery ==
  ASSUME RecoveryUndisturbed PROVE Spec => []AbandonedRecovered
<1> DEFINE Inv == StoreSound /\ RecoveryInv /\ OwedInv
<1>1. Init => Inv
  BY RecoveryInit, OwedInit, UndisturbedRemoves
<1>2. Inv /\ [Next]_vars => Inv'
  BY RecoveryStep, OwedStep
<1>3. ASSUME Inv PROVE AbandonedRecovered
  <2>0. \A s \in Sessions : Shelf[s] = Kept(s) /\ Shelf[s] \in Journal \cup {Absent}
    BY <1>3 DEF Shelf, RecoveryInv, RecoveryTypeOK
  <2>1. LiveJournalUntouched
    BY <1>3, <2>0, RecoveryConstants
    DEF LiveJournalUntouched, RecoveryInv, MarkedForGood, Ownerless, Status
  <2>2. RestartRecovers
    <3> SUFFICES ASSUME NEW p \in Procs, phase[p] \notin Recovering \cup {"down"},
                        NEW s \in owed[p]
                 PROVE  ~Active(Kept(s))
      BY DEF RestartRecovers
    <3>1. s \in Sessions /\ Finished(s)
      BY <1>3 DEF OwedInv, Owing, RecoveryInv, RecoveryTypeOK
    <3> QED
      BY <2>0, <3>1 DEF Finished, Active
  <2>3. ReportedOnce
    BY <1>3 DEF RecoveryInv
  <2> QED
    BY <2>1, <2>2, <2>3 DEF AbandonedRecovered
<1> HIDE DEF Inv
<1> QED
  BY <1>1, <1>2, <1>3, PTL DEF Spec

-----------------------------------------------------------------------------
(* The output log.  LogInv follows each number from what the runtime wrote    *)
(* (Streamed) over the line a reader has so far (Following) into the entries  *)
(* (Whole).  Below, each action is shown to keep it: those of one reader as   *)
(* ReaderMoves, those of one waiter as WaiterMoves.                           *)
LineRecord == [text : Seq(Nat), cut : BOOLEAN]
EntryRecord == [text : Seq(Nat), behind : BOOLEAN, sequence : Nat]
LogRecord == [entries : Seq(EntryRecord), next : Nat, running : BOOLEAN, drained : BOOLEAN]
ReaderRecord == [offset : Nat, line : LineRecord, alive : BOOLEAN, behind : BOOLEAN]
WaitRecord ==
  [step : {"marking", "reading", "sleeping", "answered"}, moved : BOOLEAN, due : BOOLEAN]
LogTypeOK ==
  /\ logBuffer \in LogRecord
  /\ logSource \in [Stream -> Seq(Nat)]
  /\ logReader \in [Stream -> ReaderRecord]
  /\ logTarget \in [lines : Nat, pieces : Nat, open : Stream \cup {"none"}, rewrites : Nat]
  /\ logWait \in [Waiter -> WaitRecord]

(* Each line is in one stream, from one Newline to the next.                  *)
Streamed(s) ==
  LET src == logSource[s] IN
  /\ \A i \in 1 .. Len(src) - 1 :
       src[i] # Newline /\ src[i + 1] # Newline => src[i] = src[i + 1]
  /\ logTarget.open = s => src # <<>> /\ src[Len(src)] = logTarget.lines
  /\ logTarget.open # s /\ src # <<>> => src[Len(src)] = Newline

(* What a reader has of a line is of the line that it is in.                  *)
Following(s) ==
  LET src == logSource[s]
      r == logReader[s]
  IN /\ Len(r.line.text) < LineBytes
     /\ r.offset = 0 => r.line.text = <<>>
     /\ ~r.behind =>
          /\ r.offset <= Len(src)
          /\ \A j \in DOMAIN r.line.text :
               src[r.offset] # Newline /\ r.line.text[j] = src[r.offset]

Numbered(entries, next) ==
  /\ \A i \in DOMAIN entries : entries[i].sequence = next - Len(entries) + i - 1
  /\ Len(entries) <= LogCapacity /\ Bytes(entries) <= LogBytes
EndOf(log) == Numbered(log.entries, log.next)

OneLine(text) ==
  \A i, j \in DOMAIN text : text[i] # Newline /\ text[j] # Newline => text[i] = text[j]
WholeEntry(e) == ~e.behind => OneLine(e.text) /\ Len(e.text) <= LineBytes
Whole(log) == \A i \in DOMAIN log.entries : WholeEntry(log.entries[i])

(* A waiter whose deadline has passed does not sleep.                         *)
AwakeWhenDue == \A w \in Waiter : logWait[w].step = "sleeping" => ~logWait[w].due

LogInv ==
  /\ LogTypeOK /\ EndOf(logBuffer) /\ Whole(logBuffer)
  /\ \A s \in Stream : Streamed(s) /\ Following(s)
  /\ AwakeWhenDue /\ NoLostWakeup

(* Sequences.                                                                 *)
LEMMA Appended ==
  ASSUME NEW T, NEW q \in Seq(T), NEW x \in T
  PROVE  /\ Append(q, x) \in Seq(T) /\ Len(Append(q, x)) = Len(q) + 1
         /\ Append(q, x)[Len(q) + 1] = x /\ Append(q, x) # <<>>
         /\ \A i \in 1 .. Len(q) : Append(q, x)[i] = q[i]
         /\ DOMAIN Append(q, x) = 1 .. Len(q) + 1 /\ DOMAIN q = 1 .. Len(q) /\ Len(q) \in Nat
  OBVIOUS

LEMMA Ended ==
  ASSUME NEW T, NEW q \in Seq(T), NEW n \in 0 .. Len(q)
  PROVE  LET rest == SubSeq(q, n + 1, Len(q)) IN
         /\ rest \in Seq(T) /\ Len(rest) = Len(q) - n
         /\ \A i \in 1 .. Len(rest) : rest[i] = q[i + n]
<1> DEFINE rest == SubSeq(q, n + 1, Len(q))
<1>1. rest \in Seq(T) /\ Len(rest) = Len(q) - n
  OBVIOUS
<1>2. \A i \in 1 .. Len(rest) : rest[i] = q[i + n]
  BY <1>1
<1> QED
  BY <1>1, <1>2

(* Trimmed: the longest end within the limit has a least start.               *)
LEMMA LeastIsIn ==
  ASSUME NEW S \in SUBSET Nat, S # {}
  PROVE  Min(S) \in S
<1>1. IsWellFoundedOn(OpToRel(<, Nat), Nat)
  BY NatLessThanWellFounded
<1>2. \E x \in S : \A y \in S : ~(<<y, x>> \in OpToRel(<, Nat))
  BY <1>1, WFMin
<1>3. \A x, y \in Nat : <<y, x>> \in OpToRel(<, Nat) <=> y < x
  BY DEF OpToRel
<1>4. PICK x \in S : \A y \in S : ~(<<y, x>> \in OpToRel(<, Nat))
  BY <1>2
<1>5. \A y \in S : ~(y < x)
  BY <1>3, <1>4
<1>6. \A y \in S : x <= y
  BY <1>5
<1> QED
  BY <1>6 DEF Min

(* Nothing has no bytes.                                                      *)
LEMMA NoBytes == Bytes(<<>>) = 0
<1> DEFINE F(iter) ==
      [s \in SUBSET {} |->
         IF s = {} THEN 0
         ELSE Len(<<>>[CHOOSE x \in s : TRUE].text) + iter[s \ {CHOOSE x \in s : TRUE}]]
<1>1. DOMAIN <<>> = {}
  OBVIOUS
<1>2. \E iter : iter = F(iter)
  <2>1. [s \in SUBSET {} |-> 0] = F([s \in SUBSET {} |-> 0])
    OBVIOUS
  <2> QED
    BY <2>1
<1>3. (CHOOSE iter : iter = F(iter))[{}] = 0
  BY <1>2
<1> QED
  BY <1>1, <1>3 DEF Bytes, MapThenSumSet, MapThenFoldSet

(* Trimmed drops from the front until the rest fits.                          *)
LEMMA TrimmedIsTheEnd ==
  ASSUME NEW T, NEW entries \in Seq(T)
  PROVE  /\ \E n \in 0 .. Len(entries) : Trimmed(entries) = SubSeq(entries, n + 1, Len(entries))
         /\ Bytes(Trimmed(entries)) <= LogBytes
<1> DEFINE rest(n) == SubSeq(entries, n + 1, Len(entries))
           Short == {n \in 0 .. Len(entries) : Bytes(rest(n)) <= LogBytes}
<1>1. Len(entries) \in Nat /\ rest(Len(entries)) = <<>>
  OBVIOUS
<1>2. Len(entries) \in Short
  <2>1. Bytes(rest(Len(entries))) = 0
    BY <1>1, NoBytes
  <2> QED
    BY <1>1, <2>1, OutputLogConstants
<1>3. Min(Short) \in Short
  <2>1. Short \in SUBSET Nat
    BY <1>1
  <2> QED
    BY <1>2, <2>1, LeastIsIn
<1>4. Trimmed(entries) = rest(Min(Short))
  BY DEF Trimmed
<1> QED
  BY <1>3, <1>4

(* What is pushed for the line of r, at the end of what is kept.              *)
NewEntry(log, r) == [text |-> LineText(r.line), behind |-> r.behind, sequence |-> log.next]

(* A push keeps the numbers without a gap and both limits.                    *)
LEMMA PushedLog ==
  ASSUME NEW log \in LogRecord, EndOf(log), NEW r \in ReaderRecord
  PROVE  /\ Pushed(log, r) \in LogRecord /\ EndOf(Pushed(log, r))
         /\ Pushed(log, r).running = log.running /\ Pushed(log, r).drained = log.drained
         /\ \A i \in DOMAIN Pushed(log, r).entries :
              LET e == Pushed(log, r).entries[i] IN
              e = NewEntry(log, r) \/ \E k \in DOMAIN log.entries : e = log.entries[k]
<1> DEFINE room == IF Len(log.entries) >= LogCapacity THEN Tail(log.entries) ELSE log.entries
           new == NewEntry(log, r)
           all == Append(room, new)
<1>1. log.entries \in Seq(EntryRecord) /\ log.next \in Nat
  BY DEF LogRecord
<1>2. new \in EntryRecord /\ new.sequence = log.next
  <2>1. LineText(r.line) \in Seq(Nat)
    BY DEF LineText, ReaderRecord, LineRecord, Newline
  <2> QED
    BY <1>1, <2>1 DEF NewEntry, EntryRecord, ReaderRecord
<1> HIDE DEF new
<1>3. /\ room \in Seq(EntryRecord) /\ Len(room) \in Nat /\ Len(room) < LogCapacity
      /\ \A i \in DOMAIN room :
           /\ \E k \in DOMAIN log.entries : room[i] = log.entries[k]
           /\ room[i].sequence = log.next - Len(room) + i - 1
  <2>1. /\ Len(log.entries) <= LogCapacity /\ LogCapacity \in Nat \ {0}
        /\ \A i \in 1 .. Len(log.entries) :
             log.entries[i].sequence = log.next - Len(log.entries) + i - 1
    BY <1>1, OutputLogConstants DEF EndOf, Numbered
  <2>2. CASE Len(log.entries) >= LogCapacity
    <3>1. log.entries # <<>>
      BY <1>1, <2>1, <2>2
    <3>2. /\ room = Tail(log.entries) /\ room \in Seq(EntryRecord)
          /\ Len(room) = Len(log.entries) - 1
          /\ \A i \in 1 .. Len(room) : room[i] = log.entries[i + 1]
      BY <1>1, <2>2, <3>1
    <3>3. \A i \in 1 .. Len(room) :
            /\ i + 1 \in DOMAIN log.entries
            /\ room[i].sequence = log.next - Len(log.entries) + (i + 1) - 1
      BY <1>1, <2>1, <3>2
    <3>4. /\ DOMAIN room = 1 .. Len(room) /\ Len(room) \in Nat /\ Len(room) < LogCapacity
      BY <1>1, <2>1, <3>1, <3>2
    <3> HIDE DEF room
    <3>5. \A i \in 1 .. Len(room) :
            log.next - Len(log.entries) + (i + 1) - 1 = log.next - Len(room) + i - 1
      BY <1>1, <3>2
    <3> QED
      BY <3>2, <3>3, <3>4, <3>5
  <2>3. CASE ~(Len(log.entries) >= LogCapacity)
    <3>1. room = log.entries
      BY <2>3
    <3> HIDE DEF room
    <3>2. room \in Seq(EntryRecord) /\ Len(room) \in Nat /\ DOMAIN room = 1 .. Len(room)
      BY <1>1, <3>1
    <3>3. Len(room) < LogCapacity
      BY <2>1, <2>3, <3>1, <3>2
    <3>4. \A i \in 1 .. Len(room) :
            /\ \E k \in DOMAIN log.entries : room[i] = log.entries[k]
            /\ room[i].sequence = log.next - Len(room) + i - 1
      BY <2>1, <3>1, <3>2
    <3> QED
      BY <3>2, <3>3, <3>4
  <2> QED
    BY <2>2, <2>3
<1> HIDE DEF room
<1>4. /\ all \in Seq(EntryRecord) /\ Len(all) = Len(room) + 1 /\ Len(all) <= LogCapacity
      /\ \A i \in 1 .. Len(all) :
           /\ all[i] = new \/ \E k \in DOMAIN log.entries : all[i] = log.entries[k]
           /\ all[i].sequence = log.next + 1 - Len(all) + i - 1
  <2>1. /\ all \in Seq(EntryRecord) /\ Len(all) = Len(room) + 1
        /\ \A i \in 1 .. Len(room) : all[i] = room[i]
        /\ all[Len(room) + 1] = new
    BY <1>2, <1>3
  <2>2. LogCapacity \in Nat
    BY OutputLogConstants
  <2>3. ASSUME NEW i \in 1 .. Len(all)
        PROVE  /\ all[i] = new \/ \E k \in DOMAIN log.entries : all[i] = log.entries[k]
               /\ all[i].sequence = log.next + 1 - Len(all) + i - 1
    <3>1. CASE i \in 1 .. Len(room)
      BY <1>1, <1>3, <2>1, <3>1
    <3>2. CASE i = Len(room) + 1
      BY <1>1, <1>2, <1>3, <2>1, <3>2
    <3> QED
      BY <1>3, <2>1, <3>1, <3>2
  <2> QED
    BY <1>3, <2>1, <2>2, <2>3
<1> HIDE DEF all
<1>5. PICK n \in 0 .. Len(all) : Trimmed(all) = SubSeq(all, n + 1, Len(all))
  BY <1>4, TrimmedIsTheEnd
<1> DEFINE kept == Trimmed(all)
<1>6. /\ kept \in Seq(EntryRecord) /\ Len(kept) = Len(all) - n
      /\ \A i \in 1 .. Len(kept) : kept[i] = all[i + n]
  <2> DEFINE last == SubSeq(all, n + 1, Len(all))
  <2>1. all \in Seq(EntryRecord)
    BY <1>4
  <2>2. /\ last \in Seq(EntryRecord) /\ Len(last) = Len(all) - n
        /\ \A i \in 1 .. Len(last) : last[i] = all[i + n]
    BY <2>1, Ended
  <2>3. kept = last
    BY <1>5
  <2> HIDE DEF kept, last
  <2> QED
    BY <2>2, <2>3
<1>7. Bytes(kept) <= LogBytes
  BY <1>4, TrimmedIsTheEnd
<1> HIDE DEF kept
<1>8. Pushed(log, r) = [log EXCEPT !.entries = kept, !.next = log.next + 1]
  BY DEF Pushed, kept, all, room, new, NewEntry
<1>8a. Pushed(log, r) = [entries |-> kept, next |-> log.next + 1,
                         running |-> log.running, drained |-> log.drained]
  BY <1>8 DEF LogRecord
<1>9. /\ Pushed(log, r).entries = kept /\ Pushed(log, r).next = log.next + 1
      /\ Pushed(log, r).running = log.running /\ Pushed(log, r).drained = log.drained
      /\ Pushed(log, r) \in LogRecord
  BY <1>1, <1>6, <1>8a DEF LogRecord
<1>10. \A i \in 1 .. Len(kept) :
         /\ kept[i] = new \/ \E k \in DOMAIN log.entries : kept[i] = log.entries[k]
         /\ kept[i].sequence = log.next + 1 - Len(kept) + i - 1
  <2> SUFFICES ASSUME NEW i \in 1 .. Len(kept)
               PROVE  /\ kept[i] = new \/ \E k \in DOMAIN log.entries : kept[i] = log.entries[k]
                      /\ kept[i].sequence = log.next + 1 - Len(kept) + i - 1
    OBVIOUS
  <2>1. i + n \in 1 .. Len(all) /\ kept[i] = all[i + n]
    <3>1. kept[i] = all[i + n]
      BY <1>6
    <3>2. i \in Int /\ 1 <= i /\ i <= Len(all) - n
      BY <1>6
    <3>3. n \in Int /\ 0 <= n /\ Len(all) \in Int
      BY <1>4, <1>5
    <3> QED
      BY <3>1, <3>2, <3>3
  <2>2. all[i + n].sequence = log.next + 1 - Len(all) + (i + n) - 1
    BY <1>4, <2>1
  <2>3. log.next + 1 - Len(all) + (i + n) - 1 = log.next + 1 - Len(kept) + i - 1
    BY <1>1, <1>3, <1>4, <1>5, <1>6
  <2> QED
    BY <1>4, <2>1, <2>2, <2>3
<1>11. EndOf(Pushed(log, r))
  <2>1. Len(kept) <= LogCapacity /\ DOMAIN kept = 1 .. Len(kept)
    BY <1>3, <1>4, <1>5, <1>6, OutputLogConstants
  <2>2. \A i \in DOMAIN kept : kept[i].sequence = (log.next + 1) - Len(kept) + i - 1
    <3>1. \A i \in 1 .. Len(kept) :
            log.next + 1 - Len(kept) + i - 1 = (log.next + 1) - Len(kept) + i - 1
      BY <1>1, <1>6
    <3> QED
      BY <1>10, <2>1, <3>1
  <2>3. Numbered(kept, log.next + 1)
    BY <1>7, <2>1, <2>2 DEF Numbered
  <2> QED
    BY <1>9, <2>3 DEF EndOf
<1> QED
  BY <1>6, <1>9, <1>10, <1>11 DEF new

(* What is pushed is one line, if the reader was in step with its stream.     *)
LEMMA PushedWhole ==
  ASSUME LogInv, NEW s \in Stream
  PROVE  Whole(Pushed(logBuffer, logReader[s]))
<1> DEFINE r == logReader[s]
           text == r.line.text
<1>1. /\ r \in ReaderRecord /\ Following(s) /\ logBuffer \in LogRecord /\ EndOf(logBuffer)
      /\ Whole(logBuffer) /\ text \in Seq(Nat) /\ LineBytes \in Nat /\ Len(text) < LineBytes
  BY OutputLogConstants DEF LogInv, LogTypeOK, ReaderRecord, LineRecord, Following
<1>2. WholeEntry(NewEntry(logBuffer, r))
  <2> SUFFICES ASSUME ~r.behind
               PROVE  OneLine(LineText(r.line)) /\ Len(LineText(r.line)) <= LineBytes
    BY DEF WholeEntry, NewEntry
  <2>1. \A j \in DOMAIN text : text[j] = logSource[s][r.offset]
    BY <1>1 DEF Following
  <2>2. CASE LineText(r.line) = text
    BY <1>1, <2>1, <2>2 DEF OneLine
  <2>3. CASE LineText(r.line) = Append(text, Newline)
    <3> DEFINE longer == Append(text, Newline)
    <3>1. /\ Len(longer) = Len(text) + 1 /\ longer[Len(text) + 1] = Newline
          /\ \A j \in 1 .. Len(text) : longer[j] = text[j]
          /\ DOMAIN longer = 1 .. Len(text) + 1 /\ DOMAIN text = 1 .. Len(text)
          /\ Len(text) \in Nat
      BY <1>1, Appended DEF Newline
    <3> HIDE DEF longer
    <3>2. \A j \in DOMAIN longer : longer[j] # Newline => longer[j] = logSource[s][r.offset]
      <4> SUFFICES ASSUME NEW j \in DOMAIN longer, longer[j] # Newline
                   PROVE  longer[j] = logSource[s][r.offset]
        OBVIOUS
      <4>1. j \in 1 .. Len(text)
        BY <3>1
      <4> QED
        BY <2>1, <3>1, <4>1
    <3>3. Len(longer) <= LineBytes
      BY <1>1, <3>1
    <3>4. LineText(r.line) = longer
      BY <2>3 DEF longer
    <3> QED
      BY <3>2, <3>3, <3>4 DEF OneLine
  <2> QED
    BY <2>2, <2>3 DEF LineText
<1> QED
  BY <1>1, <1>2, PushedLog DEF Whole

(* A change of the log is sent to those who watch it.                         *)
LEMMA ChangesWaits ==
  ASSUME LogInv, NEW log, Changes(log)
  PROVE  /\ logBuffer' = log /\ logWait' \in [Waiter -> WaitRecord]
         /\ AwakeWhenDue' /\ NoLostWakeup'
<1>1. /\ logBuffer' = log
      /\ logWait' = [w \in Waiter |->
           [logWait[w] EXCEPT !.moved = @ \/ (log # logBuffer /\ Watches(w))]]
  BY DEF Changes
<1>2. logWait \in [Waiter -> WaitRecord] /\ AwakeWhenDue /\ NoLostWakeup
  BY DEF LogInv, LogTypeOK
<1>3. \A w \in Waiter :
        /\ logWait'[w] \in WaitRecord
        /\ logWait'[w].step = logWait[w].step /\ logWait'[w].due = logWait[w].due
        /\ logWait'[w].moved = (logWait[w].moved \/ (log # logBuffer /\ Watches(w)))
  <2> SUFFICES ASSUME NEW w \in Waiter
               PROVE  /\ logWait'[w] \in WaitRecord
                      /\ logWait'[w].step = logWait[w].step /\ logWait'[w].due = logWait[w].due
                      /\ logWait'[w].moved = (logWait[w].moved \/ (log # logBuffer /\ Watches(w)))
    OBVIOUS
  <2> DEFINE m == logWait[w].moved \/ (log # logBuffer /\ Watches(w))
  <2>1. logWait'[w] = [logWait[w] EXCEPT !.moved = m]
    BY <1>1
  <2>2. logWait[w] \in WaitRecord /\ m \in BOOLEAN
    BY <1>2
  <2> HIDE DEF m
  <2>3. /\ logWait'[w] \in WaitRecord
        /\ logWait'[w].step = logWait[w].step /\ logWait'[w].due = logWait[w].due
        /\ logWait'[w].moved = m
    BY <2>1, <2>2 DEF WaitRecord
  <2> QED
    BY <2>3 DEF m
<1>4. AwakeWhenDue'
  BY <1>2, <1>3 DEF AwakeWhenDue
<1>5. NoLostWakeup'
  <2> SUFFICES ASSUME NEW w \in Waiter, logWait'[w].step = "sleeping", ~logWait'[w].moved
               PROVE  ~Matches(logBuffer') /\ ~Over(logBuffer')
    BY DEF NoLostWakeup, Matches, Over
  <2>1. Watches(w)
    BY <1>2, <1>3 DEF Watches, AwakeWhenDue
  <2>2. log = logBuffer /\ ~logWait[w].moved /\ logWait[w].step = "sleeping"
    BY <1>3, <2>1
  <2> QED
    BY <1>1, <1>2, <2>2 DEF NoLostWakeup
<1>6. logWait' \in [Waiter -> WaitRecord]
  BY <1>1, <1>3
<1> QED
  BY <1>1, <1>4, <1>5, <1>6

(* The line of a reader becomes an entry.                                     *)
LEMMA PushKeeps ==
  ASSUME LogInv, NEW s \in Stream, Changes(Pushed(logBuffer, logReader[s]))
  PROVE  /\ logBuffer' \in LogRecord /\ EndOf(logBuffer') /\ Whole(logBuffer')
         /\ logWait' \in [Waiter -> WaitRecord] /\ AwakeWhenDue' /\ NoLostWakeup'
<1>1. logBuffer \in LogRecord /\ EndOf(logBuffer) /\ logReader[s] \in ReaderRecord
  BY DEF LogInv, LogTypeOK
<1> QED
  BY <1>1, PushedLog, PushedWhole, ChangesWaits

(* The streams and readers that a step leaves alone.                          *)
Beside(s) ==
  /\ logSource'[s] = logSource[s] /\ logReader'[s] = logReader[s]
  /\ logTarget'.open = s <=> logTarget.open = s
  /\ logTarget.open = s => logTarget'.lines = logTarget.lines
(* A stream and its reader stay in step while neither moves.                  *)
LEMMA BesideKeeps ==
  ASSUME NEW s \in Stream, Beside(s)
  PROVE  (Streamed(s) => Streamed(s)') /\ (Following(s) => Following(s)')
  BY DEF Beside, Streamed, Following

(* The runtime writes a piece: of the open line, or its Newline.              *)
LEMMA StepSpeaks ==
  ASSUME LogInv, NEW s \in Stream, Speaks(s)
  PROVE  LogInv'
<1>1. LogTypeOK /\ Streamed(s) /\ Following(s)
  BY DEF LogInv
<1> DEFINE src == logSource[s]
           T == [lines : Nat, pieces : Nat, open : Stream \cup {"none"}, rewrites : Nat]
<1>2. logTarget \in T /\ src \in Seq(Nat) /\ logTarget.lines \in Nat /\ logTarget.pieces \in Nat
  BY <1>1 DEF LogTypeOK
<1> DEFINE lines == logTarget.lines
           pieces == logTarget.pieces
           Says(piece, open) ==
             \/ logTarget.open = "none" /\ piece = lines + 1 /\ open = s
             \/ logTarget.open = s /\ piece = lines /\ open = s
             \/ logTarget.open = s /\ piece = Newline /\ open = "none"
<1>5. "none" \notin Stream
  BY DEF Stream
<1>3. PICK piece \in Nat :
        /\ Puts(s, <<piece>>) /\ logTarget' \in T
        /\ Says(piece, logTarget'.open)
        /\ logTarget'.lines = IF logTarget.open = "none" THEN lines + 1 ELSE lines
  <2>1. CASE /\ logTarget.open = "none" /\ Puts(s, <<lines + 1>>)
             /\ logTarget' = [logTarget EXCEPT !.lines = @ + 1, !.pieces = @ + 1, !.open = s]
    <3> DEFINE l == lines + 1
               n == pieces + 1
               begun == [logTarget EXCEPT !.lines = l]
               counted == [begun EXCEPT !.pieces = n]
    <3>1. l \in Nat /\ n \in Nat /\ s \in Stream \cup {"none"}
      BY <1>2
    <3>2. logTarget' = [counted EXCEPT !.open = s]
      BY <1>2, <2>1
    <3> HIDE DEF l, n
    <3>3. begun \in T /\ begun.lines = l
      BY <1>2, <3>1
    <3> HIDE DEF begun
    <3>4. counted \in T /\ counted.lines = l
      BY <3>1, <3>3
    <3> HIDE DEF counted
    <3>5. logTarget' \in T /\ logTarget'.lines = l /\ logTarget'.open = s
      BY <3>1, <3>2, <3>4
    <3> QED
      BY <2>1, <3>1, <3>5 DEF l
  <2>2. CASE /\ logTarget.open = s /\ Puts(s, <<lines>>)
             /\ logTarget' = [logTarget EXCEPT !.pieces = @ + 1]
    <3>1. logTarget' \in T /\ logTarget'.lines = lines /\ logTarget'.open = s
      BY <1>2, <2>2
    <3> QED
      BY <1>2, <1>5, <2>2, <3>1
  <2>3. CASE /\ logTarget.open = s /\ Puts(s, <<Newline>>)
             /\ logTarget' = [logTarget EXCEPT !.open = "none"]
    <3>1. logTarget' \in T /\ logTarget'.lines = lines /\ logTarget'.open = "none"
      BY <1>2, <2>3
    <3> QED
      BY <1>2, <1>5, <2>3, <3>1 DEF Newline
  <2> QED
    BY <2>1, <2>2, <2>3 DEF Speaks
<1>4. /\ logTarget' \in T
      /\ \/ /\ logTarget.open = "none" /\ piece = logTarget.lines + 1
            /\ logTarget'.open = s /\ logTarget'.lines = logTarget.lines + 1
         \/ /\ logTarget.open = s /\ piece = logTarget.lines
            /\ logTarget'.open = s /\ logTarget'.lines = logTarget.lines
         \/ /\ logTarget.open = s /\ piece = Newline /\ logTarget'.open = "none"
            /\ logTarget'.lines = logTarget.lines
  BY <1>2, <1>3, <1>5 DEF Newline
<1>4a. UNCHANGED <<logBuffer, logReader, logWait>>
  BY DEF Speaks
<1> HIDE DEF T, Says
<1>6. /\ logSource' \in [Stream -> Seq(Nat)] /\ logSource'[s] = Append(src, piece)
      /\ \A q \in Stream \ {s} : logSource'[q] = logSource[q]
  BY <1>1, <1>2, <1>3 DEF Puts, LogTypeOK
<1>7. /\ Len(Append(src, piece)) = Len(src) + 1 /\ Append(src, piece)[Len(src) + 1] = piece
      /\ \A i \in 1 .. Len(src) : Append(src, piece)[i] = src[i]
      /\ Append(src, piece) # <<>> /\ Len(src) \in Nat /\ (src = <<>> <=> Len(src) = 0)
  <2>1. src \in Seq(Nat) /\ piece \in Nat
    BY <1>2, <1>3
  <2> QED
    BY <2>1
<1>8. Streamed(s)'
  <2>1. src # <<>> => \/ src[Len(src)] = Newline
                      \/ logTarget.open = s /\ src[Len(src)] = logTarget.lines
    BY <1>1 DEF Streamed
  <2>2. src # <<>> /\ src[Len(src)] # Newline /\ piece # Newline => src[Len(src)] = piece
    BY <1>4, <1>5, <2>1
  <2>3. \A i \in 1 .. Len(src) - 1 :
          src[i] # Newline /\ src[i + 1] # Newline => src[i] = src[i + 1]
    BY <1>1 DEF Streamed
  <2> DEFINE new == Append(src, piece)
  <2>4. ASSUME NEW i \in 1 .. Len(new) - 1, new[i] # Newline, new[i + 1] # Newline
        PROVE  new[i] = new[i + 1]
    <3>1. CASE i \in 1 .. Len(src) - 1
      BY <1>7, <2>3, <2>4, <3>1
    <3>2. CASE i = Len(src)
      BY <1>7, <2>2, <2>4, <3>2
    <3> QED
      BY <1>7, <3>1, <3>2
  <2>5. /\ logTarget'.open = s => new[Len(new)] = logTarget'.lines
        /\ logTarget'.open # s => new[Len(new)] = Newline
    BY <1>4, <1>5, <1>7
  <2> HIDE DEF new
  <2>6. logSource'[s] = new /\ new # <<>>
    BY <1>6, <1>7 DEF new
  <2> QED
    BY <2>4, <2>5, <2>6 DEF Streamed
<1>9. Following(s)'
  <2>1. logReader[s] \in ReaderRecord /\ logReader'[s] = logReader[s]
    BY <1>1, <1>4a DEF LogTypeOK
  <2>2. logReader[s].offset \in Nat /\ logReader[s].line.text \in Seq(Nat)
    BY <2>1 DEF ReaderRecord, LineRecord
  <2>3. \A j \in DOMAIN logReader[s].line.text : logReader[s].offset # 0
    BY <1>1, <2>2 DEF Following
  <2> DEFINE o == logReader[s].offset
  <2>4. o <= Len(src) => o <= Len(logSource'[s]) /\ (o # 0 => logSource'[s][o] = src[o])
    BY <1>6, <1>7, <2>2
  <2> HIDE DEF o, src
  <2> QED
    BY <1>1, <2>1, <2>3, <2>4 DEF Following, o, src
<1>10. \A q \in Stream \ {s} : Streamed(q)' /\ Following(q)'
  <2> SUFFICES ASSUME NEW q \in Stream \ {s} PROVE Streamed(q)' /\ Following(q)'
    OBVIOUS
  <2>1. Beside(q)
    BY <1>4, <1>4a, <1>5, <1>6 DEF Beside
  <2> QED
    BY <2>1, BesideKeeps DEF LogInv
<1>11. /\ LogTypeOK' /\ EndOf(logBuffer') /\ Whole(logBuffer') /\ AwakeWhenDue' /\ NoLostWakeup'
  BY <1>4, <1>4a, <1>6
  DEF T, LogInv, LogTypeOK, AwakeWhenDue, NoLostWakeup, Matches, Over
<1> QED
  BY <1>8, <1>9, <1>10, <1>11 DEF LogInv

(* Its file is empty: a reader past the start is behind.                      *)
LEMMA StepTruncates ==
  ASSUME LogInv, Truncates
  PROVE  LogInv'
<1> DEFINE T == [lines : Nat, pieces : Nat, open : Stream \cup {"none"}, rewrites : Nat]
           r == logReader["file"]
<1>1. LogTypeOK /\ "file" \in Stream /\ Following("file")
  BY DEF LogInv, Stream
<1>2. /\ logTarget' = [logTarget EXCEPT !.rewrites = @ + 1,
                                        !.open = IF @ = "file" THEN "none" ELSE @]
      /\ logSource' = [logSource EXCEPT !["file"] = <<>>]
      /\ logReader' = [logReader EXCEPT !["file"].behind = r.offset > 0]
      /\ UNCHANGED <<logBuffer, logWait>>
  BY DEF Truncates
<1>3. /\ logTarget' \in T /\ logTarget'.lines = logTarget.lines
      /\ logTarget'.open = IF logTarget.open = "file" THEN "none" ELSE logTarget.open
  <2>1. logTarget \in T
    BY <1>1 DEF LogTypeOK
  <2>2. logTarget' = [lines |-> logTarget.lines, pieces |-> logTarget.pieces,
                      open |-> IF logTarget.open = "file" THEN "none" ELSE logTarget.open,
                      rewrites |-> logTarget.rewrites + 1]
    BY <1>2, <2>1
  <2> QED
    BY <2>1, <2>2
<1>4. /\ logSource' \in [Stream -> Seq(Nat)] /\ logSource'["file"] = <<>>
      /\ \A q \in Stream \ {"file"} : logSource'[q] = logSource[q]
  BY <1>1, <1>2 DEF LogTypeOK
<1>5. /\ r \in ReaderRecord /\ logReader'["file"] = [r EXCEPT !.behind = r.offset > 0]
      /\ \A q \in Stream \ {"file"} : logReader'[q] = logReader[q]
  BY <1>1, <1>2 DEF LogTypeOK
<1>6. /\ logReader'["file"] \in ReaderRecord /\ logReader'["file"].line = r.line
      /\ logReader'["file"].offset = r.offset /\ (logReader'["file"].behind <=> r.offset > 0)
  <2> DEFINE b == r.offset > 0
  <2>1. b \in BOOLEAN
    OBVIOUS
  <2>2. logReader'["file"] = [r EXCEPT !.behind = b]
    BY <1>5
  <2> HIDE DEF b
  <2>3. /\ logReader'["file"] \in ReaderRecord /\ logReader'["file"].line = r.line
        /\ logReader'["file"].offset = r.offset /\ logReader'["file"].behind = b
    BY <1>5, <2>1, <2>2 DEF ReaderRecord
  <2> QED
    BY <2>3 DEF b
<1>7. logReader' \in [Stream -> ReaderRecord]
  BY <1>1, <1>2, <1>5, <1>6 DEF LogTypeOK
<1>8. Streamed("file")'
  BY <1>3, <1>4, <1>1 DEF Streamed, Stream
<1>9. Following("file")'
  <2>1. r.offset \in Nat /\ r.line.text \in Seq(Nat)
    BY <1>5 DEF ReaderRecord, LineRecord
  <2>3. ~logReader'["file"].behind => r.offset = 0
    <3>1. logReader'["file"].behind <=> r.offset > 0
      BY <1>6
    <3>2. ~(r.offset > 0) => r.offset = 0
      BY <2>1
    <3> HIDE DEF r
    <3> QED
      BY <3>1, <3>2
  <2>2. r.offset = 0 => r.line.text = <<>>
    BY <1>1 DEF Following
  <2>4. r.offset = 0 => r.offset <= Len(logSource'["file"]) /\ DOMAIN r.line.text = {}
    BY <1>4, <2>2
  <2> QED
    BY <1>1, <1>6, <2>2, <2>3, <2>4 DEF Following
<1>10. \A q \in Stream \ {"file"} : Streamed(q)' /\ Following(q)'
  <2> SUFFICES ASSUME NEW q \in Stream \ {"file"} PROVE Streamed(q)' /\ Following(q)'
    OBVIOUS
  <2>1. Beside(q)
    BY <1>3, <1>4, <1>5 DEF Beside, Stream
  <2> QED
    BY <2>1, BesideKeeps DEF LogInv
<1>11. LogTypeOK' /\ EndOf(logBuffer') /\ Whole(logBuffer') /\ AwakeWhenDue' /\ NoLostWakeup'
  BY <1>2, <1>3, <1>4, <1>7
  DEF LogInv, LogTypeOK, AwakeWhenDue, NoLostWakeup, Matches, Over
<1> QED
  BY <1>8, <1>9, <1>10, <1>11 DEF LogInv

(* A step of the reader of s alone.                                           *)
ReaderMoves(s) ==
  /\ UNCHANGED <<logSource, logTarget>>
  /\ logReader' \in [Stream -> ReaderRecord]
  /\ \A q \in Stream \ {s} : logReader'[q] = logReader[q]
  /\ Following(s)'
  /\ \/ UNCHANGED <<logBuffer, logWait>>
     \/ Changes(Pushed(logBuffer, logReader[s])) \/ Changes(logBuffer)
(* What a reader's own step has to show to keep LogInv.                       *)
LEMMA StepReader ==
  ASSUME LogInv, NEW s \in Stream, ReaderMoves(s)
  PROVE  LogInv'
<1>1. /\ logBuffer' \in LogRecord /\ EndOf(logBuffer') /\ Whole(logBuffer')
      /\ logWait' \in [Waiter -> WaitRecord] /\ AwakeWhenDue' /\ NoLostWakeup'
  <2>1. CASE UNCHANGED <<logBuffer, logWait>>
    BY <2>1 DEF LogInv, LogTypeOK, AwakeWhenDue, NoLostWakeup, Matches, Over
  <2>2. CASE Changes(logBuffer)
    BY <2>2, ChangesWaits DEF LogInv, LogTypeOK
  <2>3. CASE Changes(Pushed(logBuffer, logReader[s]))
    BY <2>3, PushKeeps
  <2> QED
    BY <2>1, <2>2, <2>3 DEF ReaderMoves
<1>2. \A q \in Stream \ {s} : Beside(q)
  BY DEF ReaderMoves, Beside
<1>3. Streamed(s)'
  BY DEF ReaderMoves, LogInv, Streamed
<1>4. LogTypeOK'
  BY <1>1 DEF ReaderMoves, LogInv, LogTypeOK
<1>5. \A q \in Stream : Streamed(q)' /\ Following(q)'
  BY <1>2, <1>3, BesideKeeps DEF ReaderMoves, LogInv
<1> QED
  BY <1>1, <1>4, <1>5 DEF LogInv

(* A line with one more piece, within its limit, or cut.                      *)
LEMMA ExtendedLine ==
  ASSUME NEW line \in LineRecord, NEW piece \in Nat, Len(line.text) < LineBytes
  PROVE  LET now == Extended(line, piece) IN
         /\ now \in LineRecord /\ Len(now.text) < LineBytes
         /\ \A j \in DOMAIN now.text :
              now.text[j] = piece \/ \E k \in DOMAIN line.text : now.text[j] = line.text[k]
<1> DEFINE now == Extended(line, piece)
           longer == Append(line.text, piece)
<1>1. line.text \in Seq(Nat) /\ Len(line.text) \in Nat /\ LineBytes \in Nat
  BY OutputLogConstants DEF LineRecord
<1>2. CASE Len(line.text) < LineBytes - 1
  <2>1. /\ longer \in Seq(Nat) /\ Len(longer) = Len(line.text) + 1
        /\ \A j \in DOMAIN longer :
             longer[j] = piece \/ \E k \in DOMAIN line.text : longer[j] = line.text[k]
    BY <1>1
  <2>2. now = [line EXCEPT !.text = longer]
    BY <1>2 DEF Extended
  <2> HIDE DEF now, longer
  <2>3. now \in LineRecord /\ now.text = longer
    BY <2>1, <2>2 DEF LineRecord
  <2> QED
    BY <1>1, <1>2, <2>1, <2>3 DEF now
<1>3. CASE ~(Len(line.text) < LineBytes - 1)
  <2>1. now = [line EXCEPT !.cut = TRUE]
    BY <1>3 DEF Extended
  <2> HIDE DEF now
  <2>2. now \in LineRecord /\ now.text = line.text
    BY <2>1 DEF LineRecord
  <2> QED
    BY <2>2 DEF now
<1> QED
  BY <1>2, <1>3

(* A reader with the line as it was, or with another one.                     *)
LEMMA SameFollowing ==
  ASSUME NEW s \in Stream, Following(s), logSource'[s] = logSource[s],
         logReader'[s].offset = logReader[s].offset,
         logReader'[s].line = logReader[s].line,
         logReader'[s].behind = logReader[s].behind
  PROVE  Following(s)'
  BY DEF Following

(* Readers with one or two fields changed.                                    *)
LEMMA LineSet ==
  ASSUME NEW r \in ReaderRecord, NEW line \in LineRecord
  PROVE  LET now == [r EXCEPT !.line = line] IN
         /\ now \in ReaderRecord /\ now.line = line
         /\ now.offset = r.offset /\ now.behind = r.behind
  BY DEF ReaderRecord

LEMMA ReaderSet ==
  ASSUME LogTypeOK, NEW s \in Stream, NEW n \in Nat, NEW line \in LineRecord,
         logReader' = [logReader EXCEPT ![s].offset = n, ![s].line = line]
  PROVE  /\ logReader' \in [Stream -> ReaderRecord]
         /\ \A q \in Stream \ {s} : logReader'[q] = logReader[q]
         /\ logReader'[s].offset = n /\ logReader'[s].line = line
         /\ logReader'[s].behind = logReader[s].behind
<1> DEFINE moved == [logReader EXCEPT ![s].offset = n]
<1>1. logReader \in [Stream -> ReaderRecord]
  BY DEF LogTypeOK
<1>2. logReader' = [moved EXCEPT ![s].line = line]
  BY <1>1
<1>3. /\ moved \in [Stream -> ReaderRecord] /\ moved[s].offset = n
      /\ moved[s].behind = logReader[s].behind
      /\ \A q \in Stream \ {s} : moved[q] = logReader[q]
  BY <1>1 DEF ReaderRecord
<1>4. moved[s] \in ReaderRecord
  BY <1>3
<1> HIDE DEF moved
<1>5. DOMAIN moved = Stream /\ DOMAIN logReader' = Stream
  BY <1>2, <1>3
<1>6. /\ logReader'[s] = [moved[s] EXCEPT !.line = line]
      /\ \A q \in Stream \ {s} : logReader'[q] = moved[q]
  BY <1>2, <1>5
<1>7. /\ logReader'[s] \in ReaderRecord /\ logReader'[s].line = line
      /\ logReader'[s].offset = n /\ logReader'[s].behind = logReader[s].behind
  <2> DEFINE now == [moved[s] EXCEPT !.line = line]
  <2>1. /\ now \in ReaderRecord /\ now.line = line
        /\ now.offset = moved[s].offset /\ now.behind = moved[s].behind
    BY <1>4, LineSet
  <2>2. logReader'[s] = now
    BY <1>6
  <2> HIDE DEF now
  <2> QED
    BY <1>3, <2>1, <2>2
<1>8. logReader' \in [Stream -> ReaderRecord]
  BY <1>2, <1>3, <1>5, <1>7
<1> QED
  BY <1>3, <1>6, <1>7, <1>8

LEMMA NoLine == EmptyLine \in LineRecord /\ EmptyLine.text = <<>>
  BY DEF EmptyLine, LineRecord

(* A reader takes the next piece: the end of its line, or more of it.         *)
LEMMA StepReads ==
  ASSUME LogInv, NEW s \in Stream, Reads(s)
  PROVE  LogInv'
<1> DEFINE r == logReader[s]
           src == logSource[s]
           piece == src[r.offset + 1]
           n == r.offset + 1
<1>1. /\ LogTypeOK /\ Streamed(s) /\ Following(s) /\ r \in ReaderRecord /\ src \in Seq(Nat)
      /\ UNCHANGED <<logSource, logTarget>>
  BY DEF LogInv, LogTypeOK, Reads
<1>2. /\ r.offset \in Nat /\ r.line \in LineRecord /\ n \in Nat /\ n # 0
      /\ n \in 1 .. Len(src) /\ piece \in Nat /\ LineBytes \in Nat \ {0}
  <2>1. r.offset \in Nat /\ r.line \in LineRecord /\ Len(src) \in Nat /\ Len(src) - r.offset > 0
    BY <1>1 DEF ReaderRecord, Reads, Unread
  <2>2. n \in 1 .. Len(src)
    BY <2>1
  <2>3. piece \in Nat
    BY <1>1, <2>2
  <2>4. n \in Nat /\ n # 0
    BY <2>1
  <2>5. LineBytes \in Nat \ {0}
    BY OutputLogConstants
  <2> HIDE DEF r, piece, n
  <2> QED
    BY <2>1, <2>2, <2>3, <2>4, <2>5
<1>3. CASE /\ piece = Newline /\ Changes(Pushed(logBuffer, r))
           /\ logReader' = [logReader EXCEPT ![s].offset = n, ![s].line = EmptyLine]
  <2>1. /\ logReader' \in [Stream -> ReaderRecord]
        /\ \A q \in Stream \ {s} : logReader'[q] = logReader[q]
        /\ logReader'[s].offset = n /\ logReader'[s].line = EmptyLine
        /\ logReader'[s].behind = r.behind
    BY <1>1, <1>2, <1>3, ReaderSet, NoLine
  <2>2. Following(s)'
    <3>1. /\ logReader'[s].line.text = <<>> /\ Len(<<>>) < LineBytes /\ n <= Len(src)
          /\ DOMAIN <<>> = {}
      BY <1>2, <2>1, NoLine
    <3> QED
      BY <1>1, <1>2, <2>1, <3>1 DEF Following
  <2> QED
    BY <1>1, <1>3, <2>1, <2>2, StepReader DEF ReaderMoves
<1>4. CASE /\ piece # Newline /\ UNCHANGED <<logBuffer, logWait>>
           /\ logReader' = [logReader EXCEPT ![s].offset = n,
                                             ![s].line = Extended(r.line, piece)]
  <2> DEFINE now == Extended(r.line, piece)
  <2>1. Len(r.line.text) < LineBytes
    BY <1>1 DEF Following
  <2>2. /\ now \in LineRecord /\ Len(now.text) < LineBytes
        /\ \A j \in DOMAIN now.text :
             now.text[j] = piece \/ \E k \in DOMAIN r.line.text : now.text[j] = r.line.text[k]
    BY <1>2, <2>1, ExtendedLine
  <2>3. logReader' = [logReader EXCEPT ![s].offset = n, ![s].line = now]
    BY <1>4
  <2> HIDE DEF now
  <2>4. /\ logReader' \in [Stream -> ReaderRecord]
        /\ \A q \in Stream \ {s} : logReader'[q] = logReader[q]
        /\ logReader'[s].offset = n /\ logReader'[s].line = now
        /\ logReader'[s].behind = r.behind
    BY <1>1, <1>2, <2>2, <2>3, ReaderSet
  <2>5. ASSUME ~r.behind, NEW k \in DOMAIN r.line.text PROVE r.line.text[k] = piece
    <3>1. r.line.text[k] = src[r.offset] /\ src[r.offset] # Newline /\ r.offset <= Len(src)
      BY <1>1, <2>5 DEF Following
    <3>2. r.offset # 0
      <4> SUFFICES ASSUME r.offset = 0 PROVE FALSE
        OBVIOUS
      <4>1. r.line.text = <<>>
        BY <1>1 DEF Following
      <4> QED
        BY <2>5, <4>1
    <3>3. r.offset \in 1 .. Len(src) - 1
      BY <1>1, <1>2, <3>1, <3>2
    <3> QED
      BY <1>1, <1>4, <3>1, <3>3 DEF Streamed
  <2>6. Following(s)'
    <3>1. ~r.behind => \A j \in DOMAIN now.text : now.text[j] = piece
      BY <2>2, <2>5
    <3>2. n <= Len(src)
      BY <1>2
    <3> HIDE DEF n
    <3> QED
      BY <1>1, <1>2, <1>4, <2>2, <2>4, <3>1, <3>2 DEF Following, n
  <2> QED
    BY <1>1, <1>4, <2>4, <2>6, StepReader DEF ReaderMoves
<1> QED
  BY <1>3, <1>4 DEF Reads

(* The file is shorter than the offset: the reader starts anew.               *)
LEMMA StepReadsEnd ==
  ASSUME LogInv, ReadsEnd
  PROVE  LogInv'
<1> DEFINE again == [logReader EXCEPT !["file"].offset = 0]
           empty == [again EXCEPT !["file"].line = EmptyLine]
<1>1. /\ LogTypeOK /\ "file" \in Stream /\ logReader \in [Stream -> ReaderRecord]
      /\ UNCHANGED <<logBuffer, logSource, logTarget, logWait>>
  BY DEF LogInv, LogTypeOK, Stream, ReadsEnd
<1>2. logReader' = [empty EXCEPT !["file"].behind = FALSE]
  BY <1>1 DEF ReadsEnd
<1>3. /\ again \in [Stream -> ReaderRecord] /\ again["file"].offset = 0
      /\ \A q \in Stream \ {"file"} : again[q] = logReader[q]
  BY <1>1 DEF ReaderRecord
<1> HIDE DEF again
<1>4. /\ empty \in [Stream -> ReaderRecord] /\ empty["file"].offset = 0
      /\ empty["file"].line = EmptyLine
      /\ \A q \in Stream \ {"file"} : empty[q] = logReader[q]
  BY <1>1, <1>3, NoLine DEF ReaderRecord
<1> HIDE DEF empty
<1>5. /\ logReader' \in [Stream -> ReaderRecord] /\ logReader'["file"].offset = 0
      /\ logReader'["file"].line = EmptyLine
      /\ \A q \in Stream \ {"file"} : logReader'[q] = logReader[q]
  BY <1>1, <1>2, <1>4 DEF ReaderRecord
<1>6. Following("file")'
  <2>1. /\ logReader'["file"].line.text = <<>> /\ Len(<<>>) < LineBytes /\ DOMAIN <<>> = {}
        /\ logSource'["file"] \in Seq(Nat) /\ 0 <= Len(logSource'["file"])
    BY <1>1, <1>5, NoLine, OutputLogConstants DEF LogTypeOK
  <2> QED
    BY <1>5, <2>1 DEF Following
<1> QED
  BY <1>1, <1>5, <1>6, StepReader DEF ReaderMoves

(* The pipe ends: the rest is an entry.                                       *)
LEMMA StepPipeEnds ==
  ASSUME LogInv, PipeEnds
  PROVE  LogInv'
<1> DEFINE r == logReader["pipe"]
           stopped == [logReader EXCEPT !["pipe"].alive = FALSE]
<1>1. /\ LogTypeOK /\ "pipe" \in Stream /\ logReader \in [Stream -> ReaderRecord]
      /\ UNCHANGED <<logSource, logTarget>> /\ Following("pipe")
      /\ Changes(logBuffer) \/ Changes(Pushed(logBuffer, r))
  BY DEF LogInv, LogTypeOK, Stream, PipeEnds
<1>2. logReader' = [stopped EXCEPT !["pipe"].line = EmptyLine]
  BY <1>1 DEF PipeEnds
<1>3. /\ stopped \in [Stream -> ReaderRecord] /\ stopped["pipe"].offset = r.offset
      /\ stopped["pipe"].behind = r.behind
      /\ \A q \in Stream \ {"pipe"} : stopped[q] = logReader[q]
  BY <1>1 DEF ReaderRecord
<1> HIDE DEF stopped
<1>4. /\ logReader' \in [Stream -> ReaderRecord] /\ logReader'["pipe"].line = EmptyLine
      /\ logReader'["pipe"].offset = r.offset /\ logReader'["pipe"].behind = r.behind
      /\ \A q \in Stream \ {"pipe"} : logReader'[q] = logReader[q]
  BY <1>1, <1>2, <1>3, NoLine DEF ReaderRecord
<1>5. Following("pipe")'
  <2>1. /\ logReader'["pipe"].line.text = <<>> /\ Len(<<>>) < LineBytes /\ DOMAIN <<>> = {}
    BY <1>4, NoLine, OutputLogConstants
  <2> QED
    BY <1>1, <1>4, <2>1 DEF Following
<1> QED
  BY <1>1, <1>4, <1>5, StepReader DEF ReaderMoves

(* Readers that are aborted.                                                  *)
LEMMA AliveSet ==
  ASSUME NEW r \in ReaderRecord, NEW b \in BOOLEAN
  PROVE  LET now == [r EXCEPT !.alive = b] IN
         /\ now \in ReaderRecord /\ now.line = r.line
         /\ now.offset = r.offset /\ now.behind = r.behind
  BY DEF ReaderRecord

LEMMA StepAbortLands ==
  ASSUME LogInv, NEW s \in Stream, AbortLands(s)
  PROVE  LogInv'
<1>1. /\ logReader[s] \in ReaderRecord /\ logReader \in [Stream -> ReaderRecord]
      /\ Following(s) /\ logReader' = [logReader EXCEPT ![s].alive = FALSE]
      /\ UNCHANGED <<logBuffer, logSource, logTarget, logWait>>
  BY DEF LogInv, LogTypeOK, AbortLands
<1>2. /\ logReader'[s] = [logReader[s] EXCEPT !.alive = FALSE]
      /\ \A q \in Stream \ {s} : logReader'[q] = logReader[q]
  BY <1>1
<1>3. /\ logReader'[s] \in ReaderRecord /\ logReader'[s].line = logReader[s].line
      /\ logReader'[s].offset = logReader[s].offset /\ logReader'[s].behind = logReader[s].behind
  BY <1>1, <1>2, AliveSet
<1>4. logReader' \in [Stream -> ReaderRecord]
  BY <1>1, <1>3
<1>5. Following(s)'
  BY <1>1, <1>3, SameFollowing
<1> QED
  BY <1>1, <1>2, <1>4, <1>5, StepReader DEF ReaderMoves

(* The status of the process.                                                 *)
LEMMA StatusKeeps ==
  ASSUME LogInv, NEW log \in LogRecord, Changes(log),
         log.entries = logBuffer.entries, log.next = logBuffer.next
  PROVE  /\ logBuffer' \in LogRecord /\ EndOf(logBuffer') /\ Whole(logBuffer')
         /\ logWait' \in [Waiter -> WaitRecord] /\ AwakeWhenDue' /\ NoLostWakeup'
<1>1. logBuffer' = log
  BY DEF Changes
<1>2. EndOf(logBuffer') /\ Whole(logBuffer')
  BY <1>1 DEF LogInv, EndOf, Whole
<1> QED
  BY <1>1, <1>2, ChangesWaits

(* The exit is published, and the readers are aborted after it.               *)
LEMMA StepExitPublished ==
  ASSUME LogInv, ExitPublished
  PROVE  LogInv'
<1> DEFINE log == [logBuffer EXCEPT !.running = FALSE]
<1>1. /\ LogTypeOK /\ logBuffer \in LogRecord /\ Changes(log)
      /\ UNCHANGED <<logSource, logReader, logTarget>>
  BY DEF LogInv, LogTypeOK, ExitPublished
<1>2. log \in LogRecord /\ log.entries = logBuffer.entries /\ log.next = logBuffer.next
  BY <1>1 DEF LogRecord
<1> HIDE DEF log
<1>3. /\ logBuffer' \in LogRecord /\ EndOf(logBuffer') /\ Whole(logBuffer')
      /\ logWait' \in [Waiter -> WaitRecord] /\ AwakeWhenDue' /\ NoLostWakeup'
  BY <1>1, <1>2, StatusKeeps
<1>4. \A q \in Stream : Streamed(q)' /\ Following(q)'
  BY <1>1, BesideKeeps DEF LogInv, Beside
<1> QED
  BY <1>1, <1>3, <1>4 DEF LogInv, LogTypeOK

LEMMA StepReadersAborted ==
  ASSUME LogInv, ReadersAborted
  PROVE  LogInv'
<1> DEFINE log == [logBuffer EXCEPT !.drained = TRUE]
<1>1. /\ LogTypeOK /\ logBuffer \in LogRecord /\ Changes(log)
      /\ UNCHANGED <<logSource, logTarget>> /\ logReader \in [Stream -> ReaderRecord]
  BY DEF LogInv, LogTypeOK, ReadersAborted
<1>2. log \in LogRecord /\ log.entries = logBuffer.entries /\ log.next = logBuffer.next
  BY <1>1 DEF LogRecord
<1> HIDE DEF log
<1>3. /\ logBuffer' \in LogRecord /\ EndOf(logBuffer') /\ Whole(logBuffer')
      /\ logWait' \in [Waiter -> WaitRecord] /\ AwakeWhenDue' /\ NoLostWakeup'
  BY <1>1, <1>2, StatusKeeps
<1>4. PICK running \in SUBSET Stream :
        logReader' = [s \in Stream |-> [logReader[s] EXCEPT !.alive = @ /\ s \in running]]
  BY DEF ReadersAborted
<1>5. ASSUME NEW s \in Stream
      PROVE  /\ logReader'[s] \in ReaderRecord /\ logReader'[s].line = logReader[s].line
             /\ logReader'[s].offset = logReader[s].offset
             /\ logReader'[s].behind = logReader[s].behind
  <2> DEFINE b == logReader[s].alive /\ s \in running
  <2>1. b \in BOOLEAN /\ logReader[s] \in ReaderRecord
    BY <1>1
  <2>2. logReader'[s] = [logReader[s] EXCEPT !.alive = b]
    BY <1>4
  <2> HIDE DEF b
  <2> QED
    BY <2>1, <2>2, AliveSet
<1>6. logReader' \in [Stream -> ReaderRecord]
  BY <1>4, <1>5
<1>7. \A s \in Stream : Streamed(s)' /\ Following(s)'
  <2> SUFFICES ASSUME NEW s \in Stream PROVE Streamed(s)' /\ Following(s)'
    OBVIOUS
  <2>1. Streamed(s) /\ Following(s)
    BY DEF LogInv
  <2>2. Following(s)'
    BY <1>1, <1>5, <2>1, SameFollowing
  <2>3. Streamed(s)'
    BY <1>1, <2>1 DEF Streamed
  <2> QED
    BY <2>2, <2>3
<1> QED
  BY <1>1, <1>3, <1>6, <1>7 DEF LogInv, LogTypeOK

(* A step of the waiter w alone.                                              *)
WaiterMoves(w) ==
  /\ UNCHANGED <<logBuffer, logSource, logReader, logTarget>>
  /\ logWait' \in [Waiter -> WaitRecord]
  /\ \A v \in Waiter \ {w} : logWait'[v] = logWait[v]
  /\ logWait'[w].step = "sleeping" =>
       ~logWait'[w].due /\ ~Matches(logBuffer) /\ ~Over(logBuffer)

(* What a waiter's own step has to show to keep LogInv.                       *)
LEMMA StepWaiter ==
  ASSUME LogInv, NEW w \in Waiter, WaiterMoves(w)
  PROVE  LogInv'
<1>1. UNCHANGED <<logBuffer, logSource, logReader, logTarget>>
  BY DEF WaiterMoves
<1>2. NoLostWakeup'
  BY <1>1 DEF WaiterMoves, LogInv, NoLostWakeup, Matches, Over
<1>3. AwakeWhenDue'
  BY DEF WaiterMoves, LogInv, AwakeWhenDue
<1>4. \A q \in Stream : Streamed(q)' /\ Following(q)'
  BY <1>1, BesideKeeps DEF LogInv, Beside
<1>5. LogTypeOK' /\ EndOf(logBuffer') /\ Whole(logBuffer')
  BY <1>1 DEF WaiterMoves, LogInv, LogTypeOK
<1> QED
  BY <1>2, <1>3, <1>4, <1>5 DEF LogInv

(* The steps of a wait.                                                       *)
LEMMA WaitSet ==
  ASSUME NEW r \in WaitRecord, NEW step \in {"marking", "reading", "sleeping", "answered"},
         NEW b \in BOOLEAN
  PROVE  LET now == [[r EXCEPT !.step = step] EXCEPT !.moved = b] IN
         now \in WaitRecord /\ now.step = step /\ now.due = r.due
<1> DEFINE half == [r EXCEPT !.step = step]
<1>1. half \in WaitRecord /\ half.step = step /\ half.due = r.due
  BY DEF WaitRecord
<1> HIDE DEF half
<1>2. LET now == [half EXCEPT !.moved = b] IN
      now \in WaitRecord /\ now.step = step /\ now.due = r.due
  BY <1>1 DEF WaitRecord
<1> QED
  BY <1>2 DEF half

LEMMA StepWaits ==
  ASSUME LogInv, NEW w \in Waiter, WaitSteps(w)
  PROVE  LogInv'
<1> DEFINE r == logWait[w]
           Steps == {"marking", "reading", "sleeping", "answered"}
<1>1. /\ r \in WaitRecord /\ logWait \in [Waiter -> WaitRecord]
      /\ AwakeWhenDue
  BY DEF LogInv, LogTypeOK
<1>2. UNCHANGED <<logBuffer, logSource, logReader, logTarget>>
  BY DEF WaitSteps, Marks, Looks, Wakes, ComesDue
<1>3. ASSUME NEW now \in WaitRecord, logWait' = [logWait EXCEPT ![w] = now],
             now.step = "sleeping" => ~now.due /\ ~Matches(logBuffer) /\ ~Over(logBuffer)
      PROVE  LogInv'
  <2>1. WaiterMoves(w)
    BY <1>1, <1>2, <1>3 DEF WaiterMoves
  <2> QED
    BY <2>1, StepWaiter
<1>4. CASE Marks(w) \/ Wakes(w)
  <2>1. PICK step \in {"marking", "reading"} :
          logWait' = [logWait EXCEPT ![w].step = step, ![w].moved = FALSE]
    BY <1>4 DEF Marks, Wakes, Noticed
  <2> DEFINE half == [r EXCEPT !.step = step]
             now == [half EXCEPT !.moved = FALSE]
  <2>2. logWait' = [logWait EXCEPT ![w] = now]
    BY <1>1, <2>1
  <2>3. now \in WaitRecord /\ now.step = step
    <3>1. half \in WaitRecord /\ half.step = step
      BY <1>1 DEF WaitRecord
    <3> HIDE DEF half
    <3> QED
      BY <3>1 DEF WaitRecord
  <2> HIDE DEF now
  <2>4. now.step # "sleeping"
    BY <2>3
  <2> QED
    BY <1>3, <2>2, <2>3, <2>4
<1>5. CASE Looks(w)
  <2> DEFINE step == IF Matches(logBuffer) \/ Over(logBuffer) \/ r.due
                     THEN "answered" ELSE "sleeping"
             now == [r EXCEPT !.step = step]
  <2>1. logWait' = [logWait EXCEPT ![w] = now]
    BY <1>1, <1>5 DEF Looks
  <2>2. /\ step \in Steps
        /\ step = "sleeping" => ~r.due /\ ~Matches(logBuffer) /\ ~Over(logBuffer)
    OBVIOUS
  <2> HIDE DEF step
  <2>3. now \in WaitRecord /\ now.step = step /\ now.due = r.due
    BY <1>1, <2>2 DEF WaitRecord
  <2> HIDE DEF now
  <2> QED
    BY <1>3, <2>1, <2>2, <2>3
<1>6. CASE ComesDue(w)
  <2> DEFINE step == IF r.step = "sleeping" THEN "marking" ELSE r.step
             late == [r EXCEPT !.due = TRUE]
             now == [[late EXCEPT !.step = step] EXCEPT !.moved = FALSE]
  <2>1. logWait' = [logWait EXCEPT ![w].due = TRUE, ![w].moved = FALSE, ![w].step = step]
    BY <1>1, <1>6 DEF ComesDue
  <2>2. step \in Steps /\ step # "sleeping"
    BY <1>1 DEF WaitRecord
  <2> HIDE DEF step
  <2>3. logWait' = [logWait EXCEPT ![w] = now]
    BY <1>1, <2>1 DEF WaitRecord
  <2>4. late \in WaitRecord
    BY <1>1 DEF WaitRecord
  <2> HIDE DEF late
  <2>5. now \in WaitRecord /\ now.step = step
    BY <2>2, <2>4, WaitSet
  <2> HIDE DEF now
  <2> QED
    BY <1>3, <2>2, <2>3, <2>5
<1> QED
  BY <1>4, <1>5, <1>6 DEF WaitSteps

(* Every step keeps LogInv, and it holds at the start.                        *)
LEMMA StepLog ==
  LogInv /\ [LogNext]_outputVars => LogInv'
<1> SUFFICES ASSUME LogInv, [LogNext]_outputVars PROVE LogInv'
  OBVIOUS
<1>1. CASE UNCHANGED outputVars
  BY <1>1, BesideKeeps
  DEF outputVars, LogInv, LogTypeOK, Beside, EndOf, Whole, AwakeWhenDue, NoLostWakeup,
      Matches, Over
<1>2. CASE Truncates
  BY <1>2, StepTruncates
<1>3. CASE ReadsEnd
  BY <1>3, StepReadsEnd
<1>4. CASE PipeEnds
  BY <1>4, StepPipeEnds
<1>5. CASE ExitPublished
  BY <1>5, StepExitPublished
<1>6. CASE ReadersAborted
  BY <1>6, StepReadersAborted
<1>7. ASSUME NEW s \in Stream, Speaks(s) \/ Reads(s) \/ AbortLands(s) PROVE LogInv'
  BY <1>7, StepSpeaks, StepReads, StepAbortLands
<1>8. ASSUME NEW w \in Waiter, WaitSteps(w) PROVE LogInv'
  BY <1>8, StepWaits
<1> QED
  BY <1>1, <1>2, <1>3, <1>4, <1>5, <1>6, <1>7, <1>8 DEF LogNext

LEMMA InitLog == LogInit => LogInv
<1> SUFFICES ASSUME LogInit PROVE LogInv
  OBVIOUS
<1>1. LogTypeOK
  BY NoLine DEF LogInit, LogTypeOK, LogRecord, ReaderRecord, WaitRecord, Stream
<1>2. EndOf(logBuffer) /\ Whole(logBuffer)
  <2>1. logBuffer.entries = <<>> /\ logBuffer.next = 1 /\ DOMAIN <<>> = {} /\ Len(<<>>) = 0
    BY DEF LogInit
  <2>2. Numbered(<<>>, 1)
    BY <2>1, NoBytes, OutputLogConstants DEF Numbered
  <2> QED
    BY <2>1, <2>2 DEF EndOf, Whole
<1>3. \A s \in Stream : Streamed(s) /\ Following(s)
  <2> SUFFICES ASSUME NEW s \in Stream PROVE Streamed(s) /\ Following(s)
    OBVIOUS
  <2>1. /\ logSource[s] = <<>> /\ logReader[s].line = EmptyLine /\ logReader[s].offset = 0
        /\ logTarget.open = "none" /\ s # "none"
    BY DEF LogInit, Stream
  <2>2. logReader[s].line.text = <<>> /\ DOMAIN <<>> = {} /\ Len(<<>>) = 0
    BY <2>1, NoLine
  <2>3. Streamed(s)
    BY <2>1, <2>2 DEF Streamed
  <2>4. Following(s)
    BY <2>1, <2>2, OutputLogConstants DEF Following
  <2> QED
    BY <2>3, <2>4
<1>4. AwakeWhenDue /\ NoLostWakeup
  BY DEF LogInit, AwakeWhenDue, NoLostWakeup
<1> QED
  BY <1>1, <1>2, <1>3, <1>4 DEF LogInv

(* One line is one number beside Newline.                                     *)
LEMMA OneNumber ==
  ASSUME NEW text \in Seq(Nat), OneLine(text)
  PROVE  Cardinality(ToSet(text) \ {Newline}) <= 1
<1> DEFINE numbers == ToSet(text) \ {Newline}
<1>1. CASE numbers = {}
  <2>1. Cardinality({}) = 0
    BY FS_EmptySet
  <2>2. Cardinality(numbers) = 0
    BY <1>1, <2>1
  <2> QED
    BY <2>2
<1>2. CASE numbers # {}
  <2>1. PICK x \in numbers : TRUE
    BY <1>2
  <2>2. numbers = {x}
    BY <2>1 DEF OneLine, ToSet
  <2>3. Cardinality({x}) = 1
    BY FS_Singleton
  <2>4. Cardinality(numbers) = 1
    BY <2>2, <2>3
  <2> QED
    BY <2>4
<1> QED
  BY <1>1, <1>2

(* The log that RuntimeOutput keeps is the end of what was captured, its      *)
(* entries are whole lines, and no waiter sleeps through what answers it.     *)
THEOREM Followed == LogSpec => []LogFollowed
<1>1. LogInv => LogFollowed
  <2> SUFFICES ASSUME LogInv PROVE LogFollowed
    OBVIOUS
  <2>1. LogIsTheEnd
    BY DEF LogInv, EndOf, Numbered, LogIsTheEnd
  <2>2. LinesWhole
    <3> SUFFICES ASSUME NEW i \in DOMAIN logBuffer.entries, ~logBuffer.entries[i].behind
                 PROVE  /\ Cardinality(ToSet(logBuffer.entries[i].text) \ {Newline}) <= 1
                        /\ Len(logBuffer.entries[i].text) <= LineBytes
      BY DEF LinesWhole
    <3> DEFINE text == logBuffer.entries[i].text
    <3>1. text \in Seq(Nat)
      <4>1. logBuffer \in LogRecord
        BY DEF LogInv, LogTypeOK
      <4>2. logBuffer.entries \in Seq(EntryRecord)
        BY <4>1 DEF LogRecord
      <4>3. logBuffer.entries[i] \in EntryRecord
        BY <4>2
      <4> QED
        BY <4>3 DEF EntryRecord
    <3>2. OneLine(text) /\ Len(text) <= LineBytes
      BY DEF LogInv, Whole, WholeEntry
    <3> HIDE DEF text
    <3>3. Cardinality(ToSet(text) \ {Newline}) <= 1
      BY <3>1, <3>2, OneNumber
    <3> QED
      BY <3>2, <3>3 DEF text
  <2> QED
    BY <2>1, <2>2 DEF LogInv, LogFollowed
<1> QED
  BY <1>1, InitLog, StepLog, PTL DEF LogSpec

-----------------------------------------------------------------------------
(* Files written beside their places.  OutInv says of each writer what is at *)
(* its places and in its private files in its step, and that no two hold the *)
(* file of before; it is inductive for any number of writers.                *)

Contents == Writer \cup {Earlier, NoOutput}

JobSteps ==
  {"idle", "reserving", "writing", "aside", "installing", "restoring", "restored",
   "clearing", "checking", "removing", "succeeded", "failed", "lost"}

(* where a writer has reserved all its places and may still touch them      *)
Past ==
  {"writing", "aside", "installing", "restoring", "restored", "clearing",
   "checking", "removing"}

PrivateFiles == [Place -> {"none", "empty", "whole"}]

Jobs ==
  [kind : Kinds, overwrite : BOOLEAN, step : JobSteps, at : {1, 2},
   temporary : PrivateFiles, backup : [Place -> Contents]]

Seens == [found : [Place -> Contents], alone : BOOLEAN, repaired : BOOLEAN]

OutTypeOK ==
  /\ outFiles \in [Place -> Contents]
  /\ outJob \in [Writer -> Jobs]
  /\ outSeen \in [Writer -> Seens]

-----------------------------------------------------------------------------
(* The invariant *)

(* An icon has one place and is not taken back; private files belong to the *)
(* places of the writer.                                                    *)
Bounded(w) ==
  /\ outJob[w].kind = "single" =>
       /\ outJob[w].at = 1 /\ outJob[w].step \notin {"checking", "removing"}
       /\ \A p \in {Trace, Sidecar} :
            outJob[w].temporary[p] = "none" /\ outJob[w].backup[p] = NoOutput
       /\ outJob[w].step \in {"reserving", "writing", "aside"} =>
            outJob[w].backup[Image] = NoOutput
       /\ outJob[w].step = "restoring" => outJob[w].backup[Image] # NoOutput
  /\ outJob[w].kind = "set" =>
       /\ outJob[w].temporary[Image] = "none" /\ outJob[w].backup[Image] = NoOutput
       /\ outJob[w].step \in {"checking", "removing"} => outJob[w].at = 2
       /\ ~outJob[w].overwrite
  /\ outJob[w].step = "idle" => outJob[w] = NoJob

(* What a writer has not written does not have its content.                 *)
Foreign(w, p) ==
  \/ outJob[w].step = "idle"
  \/ outJob[w].kind = "single" /\ p # Image
  \/ outJob[w].kind = "set" /\ p = Image

Origin ==
  \A w \in Writer, p \in Place :
    /\ outSeen[w].found[p] # w
    /\ Foreign(w, p) => outFiles[p] # w /\ \A v \in Writer : outJob[v].backup[p] # w

(* A trace or a sidecar of before keeps every set from reserving, and stays.*)
Reserved ==
  \A w \in Writer :
    /\ outJob[w].backup[Trace] # Earlier /\ outJob[w].backup[Sidecar] # Earlier
    /\ outJob[w].kind = "set" =>
         /\ outJob[w].step \in Past => outFiles[Trace] # Earlier /\ outFiles[Sidecar] # Earlier
         /\ outJob[w].step = "reserving" /\ outJob[w].at = 2 => outFiles[Trace] # Earlier

FoundKept ==
  \A w \in Writer, p \in {Trace, Sidecar} :
    outSeen[w].found[p] = Earlier => outFiles[p] = Earlier

(* An icon of before is replaced or in a backup that is not about to go.    *)
ImageKept ==
  (\E w \in Writer : outSeen[w].found[Image] = Earlier) =>
    \/ outFiles[Image] # NoOutput
    \/ \E v \in Writer : outJob[v].backup[Image] # NoOutput /\ outJob[v].step # "clearing"

(* Beside a writer that is alone no other of its kind runs.                 *)
Alone ==
  \A w, v \in Writer :
    /\ w # v /\ outSeen[w].alone /\ outJob[w].kind = outJob[v].kind
    /\ outJob[w].step # "idle" /\ outJob[v].step # "idle"
    => ~Running(v)

(* What an undisturbed writer of an icon has done so far                    *)
IconShape(w) ==
  LET j == outJob[w]  now == outFiles[Image]  found == outSeen[w].found[Image] IN
  /\ j.step \in {"reserving", "writing", "aside", "restored"} =>
       now = found /\ j.backup[Image] = NoOutput
  /\ j.step \in {"installing", "restoring"} => now = NoOutput /\ j.backup[Image] = found
  /\ j.step = "clearing" => now = w /\ j.temporary[Image] = "none"
  /\ j.step = "succeeded" =>
       now = w /\ j.temporary[Image] = "none" /\ j.backup[Image] = NoOutput
  /\ j.step = "failed" =>
       now = found /\ j.temporary[Image] = "none" /\ j.backup[Image] = NoOutput

(* and of a pair: its places were free, so it never sets anything aside     *)
PairShape(w) ==
  LET j == outJob[w]  found == outSeen[w].found
      trace == outFiles[Trace]  sidecar == outFiles[Sidecar] IN
  /\ j.step \notin {"idle", "lost"} => j.backup[Trace] = NoOutput /\ j.backup[Sidecar] = NoOutput
  /\ j.step \in {"reserving", "failed"} => trace = found[Trace] /\ sidecar = found[Sidecar]
  /\ j.step = "reserving" /\ j.at = 2 => found[Trace] = NoOutput
  /\ j.step \in Past => found[Trace] = NoOutput /\ found[Sidecar] = NoOutput
  /\ j.step \notin {"restoring", "restored"}
  /\ j.step = "writing" => trace = NoOutput /\ sidecar = NoOutput
  /\ j.step \in {"aside", "installing"} =>
       /\ sidecar = NoOutput
       /\ j.at = 1 => trace = NoOutput
       /\ j.at = 2 => trace = w /\ j.temporary[Trace] = "none"
  /\ j.step = "clearing" =>
       /\ trace = w /\ j.temporary[Trace] = "none"
       /\ j.at = 1 => sidecar = NoOutput
       /\ j.at = 2 => sidecar = w /\ j.temporary[Sidecar] = "none"
  /\ j.step \in {"checking", "removing"} => trace = w /\ sidecar = NoOutput
  /\ j.step = "succeeded" => trace = w /\ sidecar = w
  /\ j.step \in {"succeeded", "failed"} =>
       j.temporary[Trace] = "none" /\ j.temporary[Sidecar] = "none"

Shape(w) ==
  Undisturbed(w) =>
    /\ outJob[w].kind = "single" => IconShape(w)
    /\ outJob[w].kind = "set" => PairShape(w)

OutInv ==
  /\ OutTypeOK
  /\ \A w \in Writer : Bounded(w)
  /\ Origin /\ Reserved /\ FoundKept /\ ImageKept /\ Alone
  /\ \A w \in Writer : Shape(w)
  /\ PairsComplete

-----------------------------------------------------------------------------
(* Facts about places *)

(* A writer is at the image, the trace or the sidecar, by its kind.         *)
LEMMA PlaceFacts ==
  ASSUME OutTypeOK, NEW w \in Writer, Bounded(w)
  PROVE  /\ outJob[w].kind \in {"single", "set"}
         /\ outJob[w].kind = "single" =>
              At(w) = Image /\ OnLast(w) /\ Own(w) = {Image} /\ outJob[w].at = 1
         /\ outJob[w].kind = "set" =>
              /\ outJob[w].at = 1 => At(w) = Trace /\ ~OnLast(w)
              /\ outJob[w].at = 2 => At(w) = Sidecar /\ OnLast(w)
              /\ Own(w) = {Trace, Sidecar}
         /\ outJob[w].at \in {1, 2}
         /\ At(w) \in Place
<1>1. outJob[w] \in Jobs
  BY DEF OutTypeOK
<1>2. outJob[w].kind \in {"single", "set"} /\ outJob[w].at \in {1, 2}
  BY <1>1 DEF Jobs, Kinds
<1>3. CASE outJob[w].kind = "single"
  <2>1. Places(outJob[w].kind) = <<Image>>
    BY <1>3 DEF Places
  <2>2. outJob[w].at = 1
    BY <1>3 DEF Bounded
  <2> QED
    BY <1>2, <1>3, <2>1, <2>2 DEF At, OnLast, Own, Place
<1>4. CASE outJob[w].kind = "set"
  <2>1. Places(outJob[w].kind) = <<Trace, Sidecar>>
    BY <1>4 DEF Places
  <2>2. Len(<<Trace, Sidecar>>) = 2 /\ 1 .. 2 = {1, 2}
    OBVIOUS
  <2>3. <<Trace, Sidecar>>[1] = Trace /\ <<Trace, Sidecar>>[2] = Sidecar
    OBVIOUS
  <2>4. Own(w) = {Trace, Sidecar}
    BY <2>1, <2>2, <2>3 DEF Own
  <2>5. ASSUME outJob[w].at = 1 PROVE At(w) = Trace /\ ~OnLast(w)
    BY <2>1, <2>2, <2>3, <2>5 DEF At, OnLast
  <2>6. ASSUME outJob[w].at = 2 PROVE At(w) = Sidecar /\ OnLast(w)
    BY <2>1, <2>2, <2>3, <2>6 DEF At, OnLast
  <2> QED
    BY <1>2, <1>4, <2>4, <2>5, <2>6 DEF Place
<1> QED
  BY <1>2, <1>3, <1>4

-----------------------------------------------------------------------------
(* What every step of a writer at work respects *)

(* The other writers and what this one found stay as they are.              *)
FrameJobs(w) ==
  /\ Running(w) /\ outJob'[w].step \notin {"idle", "lost"}
  /\ \A v \in Writer \ {w} : outJob'[v] = outJob[v] /\ outSeen'[v] = outSeen[v]
  /\ outJob'[w].kind = outJob[w].kind
  /\ outSeen'[w].found = outSeen[w].found /\ outSeen'[w].alone = outSeen[w].alone
  /\ outSeen'[w].repaired => outSeen[w].repaired

(* Files change at its places only, to its own content, a backup or none,   *)
(* and only after it has reserved them.                                     *)
FrameFiles(w) ==
  /\ outJob[w].kind = "single" =>
       outFiles'[Trace] = outFiles[Trace] /\ outFiles'[Sidecar] = outFiles[Sidecar]
  /\ outJob[w].kind = "set" => outFiles'[Image] = outFiles[Image]
  /\ \A p \in Place :
       /\ outFiles'[p] \in {outFiles[p], NoOutput, w, outJob[w].backup[p]}
       /\ outJob'[w].backup[p] \in {outJob[w].backup[p], NoOutput, outFiles[p]}
  /\ outJob[w].step \notin Past =>
       outFiles' = outFiles /\ outJob'[w].backup = outJob[w].backup
  /\ outJob[w].kind = "set" =>
       /\ outJob'[w].step \in Past =>
            \/ outJob[w].step \in Past
            \/ /\ outJob[w].step = "reserving" /\ outJob[w].at = 2
               /\ outFiles[Sidecar] = NoOutput
       /\ outJob'[w].step = "reserving" /\ outJob'[w].at = 2 =>
            outFiles[Trace] = NoOutput

(* An icon that is set aside is in a backup that is not about to go.        *)
FrameImage(w) ==
  outJob[w].kind = "single" =>
    /\ outFiles'[Image] = NoOutput =>
         \/ outFiles[Image] = NoOutput
         \/ outJob'[w].backup[Image] # NoOutput /\ outJob'[w].step # "clearing"
    /\ outJob[w].backup[Image] # NoOutput /\ outJob[w].step # "clearing" =>
         \/ outFiles'[Image] # NoOutput
         \/ outJob'[w].backup[Image] # NoOutput /\ outJob'[w].step # "clearing"

Framed(w) ==
  OutTypeOK' /\ Bounded(w)' /\ FrameJobs(w) /\ FrameFiles(w) /\ FrameImage(w)
  /\ Shape(w)'

-----------------------------------------------------------------------------
(* The steps of a writer *)

(* A step of w is one to another record of w.                               *)
LEMMA Updated ==
  ASSUME OutTypeOK, NEW w \in Writer, NEW j \in Jobs, outJob' = [outJob EXCEPT ![w] = j]
  PROVE  /\ outJob' \in [Writer -> Jobs] /\ outJob'[w] = j
         /\ \A v \in Writer \ {w} : outJob'[v] = outJob[v]
BY DEF OutTypeOK

LEMMA MovesFacts ==
  ASSUME OutTypeOK, NEW w \in Writer, NEW s \in JobSteps, Moves(w, s)
  PROVE  /\ outJob' \in [Writer -> Jobs]
         /\ \A v \in Writer \ {w} : outJob'[v] = outJob[v]
         /\ outJob'[w].step = s /\ outJob'[w].kind = outJob[w].kind
         /\ outJob'[w].overwrite = outJob[w].overwrite
         /\ outJob'[w].at = outJob[w].at /\ outJob'[w].temporary = outJob[w].temporary
         /\ outJob'[w].backup = outJob[w].backup
<1>1. /\ outJob'[w] = [outJob[w] EXCEPT !.step = s]
      /\ outJob' = [outJob EXCEPT ![w] = outJob'[w]]
  BY DEF OutTypeOK, Moves
<1>2. outJob[w] \in Jobs
  BY DEF OutTypeOK
<1>3. outJob'[w] \in Jobs
  BY <1>1, <1>2 DEF Jobs
<1> QED
  BY <1>1, <1>2, <1>3, Updated DEF Jobs

(* An error leaves everything but the step, the temporaries and the note    *)
(* that a repair failed.                                                    *)
LEMMA GivesFacts ==
  ASSUME OutTypeOK, NEW w \in Writer, NEW seen \in [Writer -> Seens], Gives(w, seen)
  PROVE  /\ outJob' \in [Writer -> Jobs] /\ outSeen' \in [Writer -> Seens]
         /\ \A v \in Writer \ {w} : outJob'[v] = outJob[v] /\ outSeen'[v] = seen[v]
         /\ outJob'[w].step = "failed" /\ outJob'[w].kind = outJob[w].kind
         /\ outJob'[w].overwrite = outJob[w].overwrite
         /\ outJob'[w].at = outJob[w].at /\ outJob'[w].backup = outJob[w].backup
         /\ outSeen'[w].found = seen[w].found /\ outSeen'[w].alone = seen[w].alone
         /\ outSeen'[w].repaired =>
              seen[w].repaired /\ \A p \in Place : outJob'[w].temporary[p] = "none"
         /\ \A p \in Place : outJob'[w].temporary[p] \in {outJob[w].temporary[p], "none"}
<1>1. CASE /\ outJob' = [outJob EXCEPT ![w].step = "failed",
                                       ![w].temporary = [p \in Place |-> "none"]]
           /\ outSeen' = seen
  <2> DEFINE none == [p \in Place |-> "none"]
  <2>1. none \in PrivateFiles /\ \A p \in Place : none[p] = "none"
    BY DEF PrivateFiles
  <2>2. outJob' = [outJob EXCEPT ![w].step = "failed", ![w].temporary = none]
    BY <1>1
  <2> HIDE DEF none
  <2>3. /\ outJob'[w] = [outJob[w] EXCEPT !.step = "failed", !.temporary = none]
        /\ outJob' = [outJob EXCEPT ![w] = outJob'[w]]
    BY <2>2 DEF OutTypeOK
  <2>4. outJob[w] \in Jobs
    BY DEF OutTypeOK
  <2>5. outJob'[w] \in Jobs
    BY <2>1, <2>3, <2>4 DEF Jobs, JobSteps
  <2>6. /\ outJob'[w].step = "failed" /\ outJob'[w].kind = outJob[w].kind
        /\ outJob'[w].overwrite = outJob[w].overwrite
        /\ outJob'[w].at = outJob[w].at /\ outJob'[w].backup = outJob[w].backup
        /\ outJob'[w].temporary = none
    BY <2>3, <2>4 DEF Jobs
  <2>7. /\ outJob' \in [Writer -> Jobs]
        /\ \A v \in Writer \ {w} : outJob'[v] = outJob[v]
    BY <2>3, <2>5, Updated
  <2> QED
    BY <1>1, <2>1, <2>6, <2>7 DEF Seens
<1>2. CASE Moves(w, "failed") /\ outSeen' = [seen EXCEPT ![w].repaired = FALSE]
  <2>1. outSeen' \in [Writer -> Seens]
    BY <1>2 DEF Seens
  <2>2. \A v \in Writer \ {w} : outSeen'[v] = seen[v]
    BY <1>2
  <2>3. /\ outSeen'[w].found = seen[w].found /\ outSeen'[w].alone = seen[w].alone
        /\ ~outSeen'[w].repaired
    BY <1>2 DEF Seens
  <2>4. "failed" \in JobSteps
    BY DEF JobSteps
  <2> QED
    BY <1>2, <2>1, <2>2, <2>3, <2>4, MovesFacts
<1> QED
  BY <1>1, <1>2 DEF Gives, Moves

(* The error of a first commit ends the job, that of a second one leads to  *)
(* the check of what was installed.                                         *)
LEMMA Noted ==
  ASSUME OutTypeOK, NEW w \in Writer
  PROVE  LET noted == [outSeen EXCEPT ![w].repaired = FALSE] IN
         /\ noted \in [Writer -> Seens] /\ outSeen \in [Writer -> Seens]
         /\ \A v \in Writer \ {w} : noted[v] = outSeen[v]
         /\ noted[w].found = outSeen[w].found /\ noted[w].alone = outSeen[w].alone
         /\ ~noted[w].repaired
<1> DEFINE noted == [outSeen EXCEPT ![w].repaired = FALSE]
<1>1. noted \in [Writer -> Seens] /\ outSeen \in [Writer -> Seens]
  BY DEF OutTypeOK, Seens
<1>2. \A v \in Writer \ {w} : noted[v] = outSeen[v]
  BY DEF OutTypeOK
<1>3. /\ noted[w].found = outSeen[w].found /\ noted[w].alone = outSeen[w].alone
      /\ ~noted[w].repaired
  BY DEF OutTypeOK, Seens
<1> QED
  BY <1>1, <1>2, <1>3

Advance(w, s, c) ==
  outJob' = [outJob EXCEPT
    ![w].temporary[At(w)] = c,
    ![w].step = IF OnLast(w) THEN s ELSE @,
    ![w].at = IF OnLast(w) THEN 1 ELSE @ + 1]

(* A job whose temporary at the present place changes goes to the next      *)
(* place, or to the next step s when this was the last.                     *)
LEMMA Advances ==
  ASSUME OutTypeOK, NEW w \in Writer, Bounded(w), NEW s \in JobSteps,
         NEW c \in {"empty", "whole"}, Advance(w, s, c)
  PROVE  /\ outJob' \in [Writer -> Jobs]
         /\ \A v \in Writer \ {w} : outJob'[v] = outJob[v]
         /\ OnLast(w) => outJob'[w].step = s /\ outJob'[w].at = 1
         /\ ~OnLast(w) =>
              outJob'[w].step = outJob[w].step /\ outJob[w].at = 1 /\ outJob'[w].at = 2
         /\ outJob'[w].kind = outJob[w].kind /\ outJob'[w].overwrite = outJob[w].overwrite
         /\ outJob'[w].backup = outJob[w].backup
         /\ \A p \in Place \ {At(w)} : outJob'[w].temporary[p] = outJob[w].temporary[p]
<1> DEFINE st == IF OnLast(w) THEN s ELSE outJob[w].step
           a == IF OnLast(w) THEN 1 ELSE outJob[w].at + 1
           t == [outJob[w].temporary EXCEPT ![At(w)] = c]
<1>1. outJob[w] \in Jobs
  BY DEF OutTypeOK
<1>2. st \in JobSteps /\ t \in PrivateFiles
  BY <1>1 DEF Jobs, PrivateFiles
<1>3. a \in {1, 2} /\ (~OnLast(w) => outJob[w].at = 1 /\ a = 2)
  BY PlaceFacts
<1>4. /\ outJob'[w] = [outJob[w] EXCEPT !.temporary = t, !.step = st, !.at = a]
      /\ outJob' = [outJob EXCEPT ![w] = outJob'[w]]
  BY <1>1 DEF OutTypeOK, Advance
<1>5. \A p \in Place \ {At(w)} : t[p] = outJob[w].temporary[p]
  BY <1>1 DEF Jobs, PrivateFiles
<1>6. (OnLast(w) => st = s /\ a = 1) /\ (~OnLast(w) => st = outJob[w].step)
  OBVIOUS
<1> HIDE DEF st, a, t
<1>7. outJob'[w] \in Jobs
  BY <1>1, <1>2, <1>3, <1>4 DEF Jobs
<1>8. /\ outJob'[w].step = st /\ outJob'[w].at = a /\ outJob'[w].temporary = t
      /\ outJob'[w].kind = outJob[w].kind /\ outJob'[w].overwrite = outJob[w].overwrite
      /\ outJob'[w].backup = outJob[w].backup
  BY <1>1, <1>4 DEF Jobs
<1> QED
  BY <1>3, <1>4, <1>5, <1>6, <1>7, <1>8, Updated

LEMMA ReserveStep ==
  ASSUME OutInv, NEW w \in Writer, Reserve(w)
  PROVE  Framed(w)
<1>1. OutTypeOK /\ Bounded(w) /\ Shape(w)
  BY DEF OutInv
<1>2. outFiles' = outFiles /\ outJob[w].step = "reserving"
  BY DEF Reserve
<1>3. CASE Gives(w, outSeen)
  <2>1. OutTypeOK' /\ Bounded(w)' /\ FrameJobs(w)
    BY <1>1, <1>2, <1>3, GivesFacts DEF OutTypeOK, Bounded, FrameJobs, Running, Place
  <2>2. FrameFiles(w) /\ FrameImage(w)
    BY <1>1, <1>2, <1>3, GivesFacts DEF OutTypeOK, FrameFiles, FrameImage, Past
  <2>3. Shape(w)'
    BY <1>1, <1>2, <1>3, GivesFacts
    DEF OutTypeOK, Shape, Undisturbed, IconShape, PairShape, Past, Place
  <2> QED
    BY <2>1, <2>2, <2>3 DEF Framed
<1>4. CASE /\ Exists(At(w)) => outJob[w].overwrite
           /\ Advance(w, "writing", "empty")
           /\ UNCHANGED outSeen
  <2>1. /\ outJob' \in [Writer -> Jobs]
        /\ \A v \in Writer \ {w} : outJob'[v] = outJob[v]
        /\ OnLast(w) => outJob'[w].step = "writing" /\ outJob'[w].at = 1
        /\ ~OnLast(w) =>
             outJob'[w].step = "reserving" /\ outJob[w].at = 1 /\ outJob'[w].at = 2
        /\ outJob'[w].kind = outJob[w].kind /\ outJob'[w].overwrite = outJob[w].overwrite
        /\ outJob'[w].backup = outJob[w].backup
        /\ \A p \in Place \ {At(w)} : outJob'[w].temporary[p] = outJob[w].temporary[p]
    BY <1>1, <1>2, <1>4, Advances DEF JobSteps
  <2>2. OutTypeOK' /\ FrameJobs(w)
    BY <1>1, <1>2, <1>4, <2>1 DEF OutTypeOK, FrameJobs, Running
  <2>3. Bounded(w)'
    BY <1>1, <1>2, <2>1, PlaceFacts, OutputConstants DEF Bounded, Place
  <2>4. FrameFiles(w) /\ FrameImage(w)
    BY <1>1, <1>2, <1>4, <2>1, PlaceFacts
    DEF OutTypeOK, FrameFiles, FrameImage, Past, Place, Exists, Bounded
  <2>5. Shape(w)'
    BY <1>1, <1>2, <1>4, <2>1, PlaceFacts
    DEF OutTypeOK, Shape, Undisturbed, IconShape, PairShape, Past, Place, Exists, Bounded
  <2> QED
    BY <2>2, <2>3, <2>4, <2>5 DEF Framed
<1> QED
  BY <1>3, <1>4 DEF Reserve, Advance

LEMMA WritesStep ==
  ASSUME OutInv, NEW w \in Writer, Write(w)
  PROVE  Framed(w)
<1>1. OutTypeOK /\ Bounded(w) /\ Shape(w)
  BY DEF OutInv
<1>2. outFiles' = outFiles /\ outJob[w].step = "writing"
  BY DEF Write
<1>3. CASE Gives(w, outSeen)
  <2>1. OutTypeOK' /\ Bounded(w)' /\ FrameJobs(w)
    BY <1>1, <1>2, <1>3, GivesFacts DEF OutTypeOK, Bounded, FrameJobs, Running, Place
  <2>2. FrameFiles(w) /\ FrameImage(w)
    BY <1>1, <1>2, <1>3, GivesFacts DEF OutTypeOK, FrameFiles, FrameImage, Past
  <2>3. Shape(w)'
    BY <1>1, <1>2, <1>3, GivesFacts
    DEF OutTypeOK, Shape, Undisturbed, IconShape, PairShape, Past, Place
  <2> QED
    BY <2>1, <2>2, <2>3 DEF Framed
<1>4. CASE /\ Advance(w, "aside", "whole")
           /\ UNCHANGED outSeen
  <2>1. /\ outJob' \in [Writer -> Jobs]
        /\ \A v \in Writer \ {w} : outJob'[v] = outJob[v]
        /\ OnLast(w) => outJob'[w].step = "aside" /\ outJob'[w].at = 1
        /\ ~OnLast(w) =>
             outJob'[w].step = "writing" /\ outJob[w].at = 1 /\ outJob'[w].at = 2
        /\ outJob'[w].kind = outJob[w].kind /\ outJob'[w].overwrite = outJob[w].overwrite
        /\ outJob'[w].backup = outJob[w].backup
        /\ \A p \in Place \ {At(w)} : outJob'[w].temporary[p] = outJob[w].temporary[p]
    BY <1>1, <1>2, <1>4, Advances DEF JobSteps
  <2>2. OutTypeOK' /\ FrameJobs(w)
    BY <1>1, <1>2, <1>4, <2>1 DEF OutTypeOK, FrameJobs, Running
  <2>3. Bounded(w)'
    BY <1>1, <1>2, <2>1, PlaceFacts, OutputConstants DEF Bounded, Place
  <2>4. FrameFiles(w) /\ FrameImage(w)
    BY <1>1, <1>2, <1>4, <2>1 DEF OutTypeOK, FrameFiles, FrameImage, Past
  <2>5. Shape(w)'
    BY <1>1, <1>2, <1>4, <2>1, PlaceFacts
    DEF OutTypeOK, Shape, Undisturbed, IconShape, PairShape, Past, Place, Bounded
  <2> QED
    BY <2>2, <2>3, <2>4, <2>5 DEF Framed
<1> QED
  BY <1>3, <1>4 DEF Write, Advance
(* An error of a commit ends the job at the first place, and leads to the   *)
(* check of what was installed at the second.                               *)
LEMMA CommitFailsStep ==
  ASSUME OutInv, NEW w \in Writer, NEW seen \in [Writer -> Seens], CommitFails(w, seen),
         outFiles' = outFiles,
         \A v \in Writer \ {w} : seen[v] = outSeen[v],
         seen[w].found = outSeen[w].found, seen[w].alone = outSeen[w].alone,
         seen[w].repaired => outSeen[w].repaired,
         \/ outJob[w].step \in {"aside", "restored"}
         \/ outJob[w].step = "installing" /\ outJob[w].backup[At(w)] = NoOutput
         \/ outJob[w].step = "clearing" /\ ~seen[w].repaired
  PROVE  Framed(w)
<1>1. OutTypeOK /\ Bounded(w) /\ Shape(w)
  BY DEF OutInv
<1>2. outJob[w].step \in {"aside", "restored", "installing", "clearing"}
  OBVIOUS
<1>3. CASE outJob[w].at = 1 /\ Gives(w, seen)
  <2>1. OutTypeOK' /\ Bounded(w)' /\ FrameJobs(w)
    BY <1>1, <1>2, <1>3, GivesFacts DEF OutTypeOK, Bounded, FrameJobs, Running, Place
  <2>2. FrameFiles(w) /\ FrameImage(w)
    BY <1>1, <1>2, <1>3, GivesFacts DEF OutTypeOK, FrameFiles, FrameImage, Past
  <2>3. Shape(w)'
    BY <1>1, <1>2, <1>3, GivesFacts, PlaceFacts
    DEF OutTypeOK, Shape, Undisturbed, IconShape, PairShape, Past, Place
  <2> QED
    BY <2>1, <2>2, <2>3 DEF Framed
<1>4. CASE outJob[w].at # 1 /\ Moves(w, "checking") /\ outSeen' = seen
  <2>1. "checking" \in JobSteps
    BY DEF JobSteps
  <2>2. outJob[w].kind = "set" /\ outJob[w].at = 2
    BY <1>1, <1>4, PlaceFacts
  <2>3. OutTypeOK' /\ Bounded(w)' /\ FrameJobs(w)
    BY <1>1, <1>2, <1>4, <2>1, <2>2, MovesFacts
    DEF OutTypeOK, Bounded, FrameJobs, Running, Place
  <2>4. FrameFiles(w) /\ FrameImage(w)
    BY <1>1, <1>2, <1>4, <2>1, <2>2, MovesFacts
    DEF OutTypeOK, FrameFiles, FrameImage, Past
  <2>5. Shape(w)'
    BY <1>1, <1>2, <1>4, <2>1, <2>2, MovesFacts
    DEF OutTypeOK, Shape, Undisturbed, IconShape, PairShape, Past, Place
  <2> QED
    BY <2>3, <2>4, <2>5 DEF Framed
<1> QED
  BY <1>3, <1>4 DEF CommitFails

LEMMA SetAsideStep ==
  ASSUME OutInv, NEW w \in Writer, SetAside(w)
  PROVE  Framed(w)
<1>1. OutTypeOK /\ Bounded(w) /\ Shape(w) /\ outJob[w] \in Jobs /\ At(w) \in Place
  BY PlaceFacts DEF OutInv, OutTypeOK
<1>2. outJob[w].step = "aside"
  BY DEF SetAside
<1>3. CASE /\ outFiles' = [outFiles EXCEPT ![At(w)] = NoOutput]
           /\ outJob' = [outJob EXCEPT ![w].step = "installing",
                                       ![w].backup[At(w)] = outFiles[At(w)]]
           /\ UNCHANGED outSeen
  <2> DEFINE b == [outJob[w].backup EXCEPT ![At(w)] = outFiles[At(w)]]
  <2>1. b \in [Place -> Contents] /\ outFiles' \in [Place -> Contents]
    BY <1>1, <1>3 DEF Jobs, OutTypeOK, Contents
  <2>2. /\ b[At(w)] = outFiles[At(w)] /\ outFiles'[At(w)] = NoOutput
        /\ \A p \in Place \ {At(w)} : b[p] = outJob[w].backup[p] /\ outFiles'[p] = outFiles[p]
    BY <1>1, <1>3 DEF Jobs, OutTypeOK
  <2>3. /\ outJob'[w] = [outJob[w] EXCEPT !.step = "installing", !.backup = b]
        /\ outJob' = [outJob EXCEPT ![w] = outJob'[w]]
    BY <1>1, <1>3 DEF OutTypeOK
  <2> HIDE DEF b
  <2>4. outJob'[w] \in Jobs
    BY <1>1, <2>1, <2>3 DEF Jobs, JobSteps
  <2>5. /\ outJob'[w].step = "installing" /\ outJob'[w].backup = b
        /\ outJob'[w].kind = outJob[w].kind /\ outJob'[w].at = outJob[w].at
        /\ outJob'[w].overwrite = outJob[w].overwrite
        /\ outJob'[w].temporary = outJob[w].temporary
    BY <1>1, <2>3 DEF Jobs
  <2>6. /\ outJob' \in [Writer -> Jobs]
        /\ \A v \in Writer \ {w} : outJob'[v] = outJob[v]
    BY <1>1, <2>3, <2>4, Updated
  <2>7. OutTypeOK' /\ FrameJobs(w)
    BY <1>1, <1>2, <1>3, <2>1, <2>5, <2>6 DEF OutTypeOK, FrameJobs, Running
  <2>8. Bounded(w)'
    BY <1>1, <1>2, <2>2, <2>5, PlaceFacts, OutputConstants DEF Bounded, Place
  <2>9. FrameFiles(w) /\ FrameImage(w)
    BY <1>1, <1>2, <2>2, <2>5, PlaceFacts, OutputConstants
    DEF FrameFiles, FrameImage, Past, Place, Bounded
  <2>10. Shape(w)'
    <3>1. SUFFICES ASSUME Undisturbed(w)'
                   PROVE  /\ outJob[w].kind = "single" => IconShape(w)'
                          /\ outJob[w].kind = "set" => PairShape(w)'
      BY <2>5 DEF Shape
    <3>2. Undisturbed(w) /\ outSeen'[w] = outSeen[w]
      BY <1>3, <3>1 DEF Undisturbed
    <3>3. ASSUME outJob[w].kind = "single" PROVE IconShape(w)'
      BY <1>1, <1>2, <2>2, <2>5, <3>2, <3>3, PlaceFacts DEF Shape, IconShape
    <3>4. ASSUME outJob[w].kind = "set", outJob[w].at = 1 PROVE PairShape(w)'
      BY <1>1, <1>2, <2>2, <2>5, <3>2, <3>4, PlaceFacts, OutputConstants
      DEF Shape, PairShape, Past, Place
    <3>5. ASSUME outJob[w].kind = "set", outJob[w].at = 2 PROVE PairShape(w)'
      BY <1>1, <1>2, <2>2, <2>5, <3>2, <3>5, PlaceFacts, OutputConstants
      DEF Shape, PairShape, Past, Place
    <3> QED
      BY <1>1, <3>3, <3>4, <3>5, PlaceFacts
  <2> QED
    BY <2>7, <2>8, <2>9, <2>10 DEF Framed
<1>4. CASE CommitFails(w, outSeen) /\ UNCHANGED outFiles
  BY <1>1, <1>2, <1>4, CommitFailsStep DEF OutTypeOK
<1> QED
  BY <1>3, <1>4 DEF SetAside

LEMMA InstallStep ==
  ASSUME OutInv, NEW w \in Writer, Install(w)
  PROVE  Framed(w)
<1>1. OutTypeOK /\ Bounded(w) /\ Shape(w) /\ outJob[w] \in Jobs /\ At(w) \in Place
  BY PlaceFacts DEF OutInv, OutTypeOK
<1>2. outJob[w].step = "installing"
  BY DEF Install
<1>3. CASE /\ outFiles' = [outFiles EXCEPT ![At(w)] = w]
           /\ outJob' = [outJob EXCEPT ![w].step = "clearing",
                                       ![w].temporary[At(w)] = "none"]
           /\ UNCHANGED outSeen
  <2> DEFINE t == [outJob[w].temporary EXCEPT ![At(w)] = "none"]
  <2>1. t \in PrivateFiles /\ outFiles' \in [Place -> Contents]
    BY <1>1, <1>3 DEF Jobs, OutTypeOK, Contents, PrivateFiles
  <2>2. /\ t[At(w)] = "none" /\ outFiles'[At(w)] = w
        /\ \A p \in Place \ {At(w)} : t[p] = outJob[w].temporary[p] /\ outFiles'[p] = outFiles[p]
    BY <1>1, <1>3 DEF Jobs, OutTypeOK, PrivateFiles
  <2>3. /\ outJob'[w] = [outJob[w] EXCEPT !.step = "clearing", !.temporary = t]
        /\ outJob' = [outJob EXCEPT ![w] = outJob'[w]]
    BY <1>1, <1>3 DEF OutTypeOK
  <2> HIDE DEF t
  <2>4. outJob'[w] \in Jobs
    BY <1>1, <2>1, <2>3 DEF Jobs, JobSteps
  <2>5. /\ outJob'[w].step = "clearing" /\ outJob'[w].temporary = t
        /\ outJob'[w].kind = outJob[w].kind /\ outJob'[w].at = outJob[w].at
        /\ outJob'[w].overwrite = outJob[w].overwrite
        /\ outJob'[w].backup = outJob[w].backup
    BY <1>1, <2>3 DEF Jobs
  <2>6. /\ outJob' \in [Writer -> Jobs]
        /\ \A v \in Writer \ {w} : outJob'[v] = outJob[v]
    BY <1>1, <2>3, <2>4, Updated
  <2>7. OutTypeOK' /\ FrameJobs(w)
    BY <1>1, <1>2, <1>3, <2>1, <2>5, <2>6 DEF OutTypeOK, FrameJobs, Running
  <2>8. Bounded(w)'
    BY <1>1, <1>2, <2>2, <2>5, PlaceFacts, OutputConstants DEF Bounded, Place
  <2>9. FrameFiles(w) /\ FrameImage(w)
    BY <1>1, <1>2, <2>2, <2>5, PlaceFacts, OutputConstants
    DEF FrameFiles, FrameImage, Past, Place
  <2>10. Shape(w)'
    <3>1. SUFFICES ASSUME Undisturbed(w)'
                   PROVE  /\ outJob[w].kind = "single" => IconShape(w)'
                          /\ outJob[w].kind = "set" => PairShape(w)'
      BY <2>5 DEF Shape
    <3>2. Undisturbed(w) /\ outSeen'[w] = outSeen[w]
      BY <1>3, <3>1 DEF Undisturbed
    <3>3. ASSUME outJob[w].kind = "single" PROVE IconShape(w)'
      BY <1>1, <1>2, <2>2, <2>5, <3>2, <3>3, PlaceFacts DEF Shape, IconShape
    <3>4. ASSUME outJob[w].kind = "set", outJob[w].at = 1 PROVE PairShape(w)'
      BY <1>1, <1>2, <2>2, <2>5, <3>2, <3>4, PlaceFacts, OutputConstants
      DEF Shape, PairShape, Past, Place
    <3>5. ASSUME outJob[w].kind = "set", outJob[w].at = 2 PROVE PairShape(w)'
      BY <1>1, <1>2, <2>2, <2>5, <3>2, <3>5, PlaceFacts, OutputConstants
      DEF Shape, PairShape, Past, Place
    <3> QED
      BY <1>1, <3>3, <3>4, <3>5, PlaceFacts
  <2> QED
    BY <2>7, <2>8, <2>9, <2>10 DEF Framed
<1>4. CASE /\ outJob[w].backup[At(w)] # NoOutput /\ Moves(w, "restoring")
           /\ UNCHANGED <<outFiles, outSeen>>
  <2>1. "restoring" \in JobSteps
    BY DEF JobSteps
  <2>2. OutTypeOK' /\ Bounded(w)' /\ FrameJobs(w)
    BY <1>1, <1>2, <1>4, <2>1, MovesFacts, PlaceFacts
    DEF OutTypeOK, Bounded, FrameJobs, Running
  <2>3. FrameFiles(w) /\ FrameImage(w)
    BY <1>1, <1>2, <1>4, <2>1, MovesFacts DEF OutTypeOK, FrameFiles, FrameImage, Past
  <2>4. Shape(w)'
    BY <1>1, <1>2, <1>4, <2>1, MovesFacts, PlaceFacts
    DEF OutTypeOK, Shape, Undisturbed, IconShape, PairShape, Past
  <2> QED
    BY <2>2, <2>3, <2>4 DEF Framed
<1>5. CASE outJob[w].backup[At(w)] = NoOutput /\ CommitFails(w, outSeen) /\ UNCHANGED outFiles
  BY <1>1, <1>2, <1>5, CommitFailsStep DEF OutTypeOK
<1> QED
  BY <1>3, <1>4, <1>5 DEF Install
LEMMA RestoreStep ==
  ASSUME OutInv, NEW w \in Writer, Restore(w)
  PROVE  Framed(w)
<1>1. OutTypeOK /\ Bounded(w) /\ Shape(w) /\ outJob[w] \in Jobs /\ At(w) \in Place
  BY PlaceFacts DEF OutInv, OutTypeOK
<1>2. outJob[w].step = "restoring"
  BY DEF Restore
<1>3. CASE /\ outFiles' = [outFiles EXCEPT ![At(w)] = outJob[w].backup[At(w)]]
           /\ outJob' = [outJob EXCEPT ![w].backup[At(w)] = NoOutput,
                                       ![w].step = "restored"]
           /\ UNCHANGED outSeen
  <2> DEFINE b == [outJob[w].backup EXCEPT ![At(w)] = NoOutput]
  <2>1. b \in [Place -> Contents] /\ outFiles' \in [Place -> Contents]
    BY <1>1, <1>3 DEF Jobs, OutTypeOK, Contents
  <2>2. /\ b[At(w)] = NoOutput /\ outFiles'[At(w)] = outJob[w].backup[At(w)]
        /\ \A p \in Place \ {At(w)} : b[p] = outJob[w].backup[p] /\ outFiles'[p] = outFiles[p]
    BY <1>1, <1>3 DEF Jobs, OutTypeOK
  <2>3. /\ outJob'[w] = [outJob[w] EXCEPT !.step = "restored", !.backup = b]
        /\ outJob' = [outJob EXCEPT ![w] = outJob'[w]]
    BY <1>1, <1>3 DEF OutTypeOK
  <2> HIDE DEF b
  <2>4. outJob'[w] \in Jobs
    BY <1>1, <2>1, <2>3 DEF Jobs, JobSteps
  <2>5. /\ outJob'[w].step = "restored" /\ outJob'[w].backup = b
        /\ outJob'[w].kind = outJob[w].kind /\ outJob'[w].at = outJob[w].at
        /\ outJob'[w].overwrite = outJob[w].overwrite
        /\ outJob'[w].temporary = outJob[w].temporary
    BY <1>1, <2>3 DEF Jobs
  <2>6. /\ outJob' \in [Writer -> Jobs]
        /\ \A v \in Writer \ {w} : outJob'[v] = outJob[v]
    BY <1>1, <2>3, <2>4, Updated
  <2>7. OutTypeOK' /\ FrameJobs(w)
    BY <1>1, <1>2, <1>3, <2>1, <2>5, <2>6 DEF OutTypeOK, FrameJobs, Running
  <2>8. Bounded(w)'
    BY <1>1, <1>2, <2>2, <2>5, PlaceFacts, OutputConstants DEF Bounded, Place
  <2>9. FrameFiles(w) /\ FrameImage(w)
    BY <1>1, <1>2, <2>2, <2>5, PlaceFacts, OutputConstants
    DEF FrameFiles, FrameImage, Past, Place, Bounded
  <2>10. Shape(w)'
    <3>1. SUFFICES ASSUME Undisturbed(w)'
                   PROVE  /\ outJob[w].kind = "single" => IconShape(w)'
                          /\ outJob[w].kind = "set" => PairShape(w)'
      BY <2>5 DEF Shape
    <3>2. Undisturbed(w) /\ outSeen'[w] = outSeen[w]
      BY <1>3, <3>1 DEF Undisturbed
    <3>3. ASSUME outJob[w].kind = "single" PROVE IconShape(w)'
      BY <1>1, <1>2, <2>2, <2>5, <3>2, <3>3, PlaceFacts DEF Shape, IconShape
    <3>4. outJob[w].kind # "set"
      BY <1>1, <1>2, <3>2 DEF Shape, PairShape
    <3> QED
      BY <3>3, <3>4
  <2> QED
    BY <2>7, <2>8, <2>9, <2>10 DEF Framed
<1>4. CASE /\ Moves(w, "restored")
           /\ outSeen' = [outSeen EXCEPT ![w].repaired = FALSE]
           /\ UNCHANGED outFiles
  <2>1. "restored" \in JobSteps
    BY DEF JobSteps
  <2>2. OutTypeOK' /\ Bounded(w)' /\ FrameJobs(w)
    BY <1>1, <1>2, <1>4, <2>1, MovesFacts, Noted
    DEF OutTypeOK, Bounded, FrameJobs, Running
  <2>3. FrameFiles(w) /\ FrameImage(w)
    BY <1>1, <1>2, <1>4, <2>1, MovesFacts DEF OutTypeOK, FrameFiles, FrameImage, Past
  <2>4. Shape(w)'
    BY <1>1, <1>4, Noted DEF Shape, Undisturbed
  <2> QED
    BY <2>2, <2>3, <2>4 DEF Framed
<1> QED
  BY <1>3, <1>4 DEF Restore

LEMMA RestoredStep ==
  ASSUME OutInv, NEW w \in Writer, Restored(w)
  PROVE  Framed(w)
BY CommitFailsStep DEF Restored, OutInv, OutTypeOK

LEMMA ClearStep ==
  ASSUME OutInv, NEW w \in Writer, Clear(w)
  PROVE  Framed(w)
<1>1. OutTypeOK /\ Bounded(w) /\ Shape(w) /\ outJob[w] \in Jobs /\ At(w) \in Place
  BY PlaceFacts DEF OutInv, OutTypeOK
<1>2. outJob[w].step = "clearing" /\ outFiles' = outFiles
  BY DEF Clear
<1>3. CASE /\ outJob' = [outJob EXCEPT
                ![w].backup[At(w)] = NoOutput,
                ![w].step = IF OnLast(w) THEN "succeeded" ELSE "aside",
                ![w].at = IF OnLast(w) THEN @ ELSE @ + 1]
           /\ UNCHANGED outSeen
  <2> DEFINE b == [outJob[w].backup EXCEPT ![At(w)] = NoOutput]
             s == IF OnLast(w) THEN "succeeded" ELSE "aside"
             a == IF OnLast(w) THEN outJob[w].at ELSE outJob[w].at + 1
  <2>1. /\ b \in [Place -> Contents] /\ b[At(w)] = NoOutput
        /\ \A p \in Place \ {At(w)} : b[p] = outJob[w].backup[p]
    BY <1>1 DEF Jobs, Contents
  <2>2. /\ s \in JobSteps /\ a \in {1, 2}
        /\ OnLast(w) => s = "succeeded" /\ a = outJob[w].at
        /\ ~OnLast(w) => s = "aside" /\ outJob[w].at = 1 /\ a = 2
    BY <1>1, PlaceFacts DEF JobSteps
  <2>3. /\ outJob'[w] = [outJob[w] EXCEPT !.backup = b, !.step = s, !.at = a]
        /\ outJob' = [outJob EXCEPT ![w] = outJob'[w]]
    BY <1>1, <1>3 DEF OutTypeOK
  <2> HIDE DEF b, s, a
  <2>4. outJob'[w] \in Jobs
    BY <1>1, <2>1, <2>2, <2>3 DEF Jobs
  <2>5. /\ outJob'[w].step = s /\ outJob'[w].backup = b /\ outJob'[w].at = a
        /\ outJob'[w].kind = outJob[w].kind
        /\ outJob'[w].overwrite = outJob[w].overwrite
        /\ outJob'[w].temporary = outJob[w].temporary
    BY <1>1, <2>3 DEF Jobs
  <2>6. /\ outJob' \in [Writer -> Jobs]
        /\ \A v \in Writer \ {w} : outJob'[v] = outJob[v]
    BY <1>1, <2>3, <2>4, Updated
  <2>7. OutTypeOK' /\ FrameJobs(w)
    BY <1>1, <1>2, <1>3, <2>2, <2>5, <2>6 DEF OutTypeOK, FrameJobs, Running
  <2>8. Bounded(w)'
    BY <1>1, <1>2, <2>1, <2>2, <2>5, PlaceFacts, OutputConstants DEF Bounded, Place
  <2>9. FrameFiles(w) /\ FrameImage(w)
    BY <1>1, <1>2, <2>1, <2>2, <2>5, PlaceFacts DEF FrameFiles, FrameImage, Past
  <2>10. Shape(w)'
    <3>1. SUFFICES ASSUME Undisturbed(w)'
                   PROVE  /\ outJob[w].kind = "single" => IconShape(w)'
                          /\ outJob[w].kind = "set" => PairShape(w)'
      BY <2>5 DEF Shape
    <3>2. Undisturbed(w) /\ outSeen'[w] = outSeen[w]
      BY <1>3, <3>1 DEF Undisturbed
    <3>3. ASSUME outJob[w].kind = "single" PROVE IconShape(w)'
      BY <1>1, <1>2, <2>1, <2>2, <2>5, <3>2, <3>3, PlaceFacts DEF Shape, IconShape
    <3>4. ASSUME outJob[w].kind = "set", outJob[w].at = 1 PROVE PairShape(w)'
      BY <1>1, <1>2, <2>1, <2>2, <2>5, <3>2, <3>4, PlaceFacts, OutputConstants
      DEF Shape, PairShape, Past, Place
    <3>5. ASSUME outJob[w].kind = "set", outJob[w].at = 2 PROVE PairShape(w)'
      BY <1>1, <1>2, <2>1, <2>2, <2>5, <3>2, <3>5, PlaceFacts, OutputConstants
      DEF Shape, PairShape, Past, Place
    <3> QED
      BY <1>1, <3>3, <3>4, <3>5, PlaceFacts
  <2> QED
    BY <2>7, <2>8, <2>9, <2>10 DEF Framed
<1>4. CASE CommitFails(w, [outSeen EXCEPT ![w].repaired = FALSE])
  <2> DEFINE seen == [outSeen EXCEPT ![w].repaired = FALSE]
  <2>1. /\ seen \in [Writer -> Seens] /\ \A v \in Writer \ {w} : seen[v] = outSeen[v]
        /\ seen[w].found = outSeen[w].found /\ seen[w].alone = outSeen[w].alone
        /\ ~seen[w].repaired
    BY <1>1, Noted
  <2> HIDE DEF seen
  <2>2. CommitFails(w, seen)
    BY <1>4 DEF seen
  <2> QED
    BY <1>2, <2>1, <2>2, CommitFailsStep
<1> QED
  BY <1>3, <1>4 DEF Clear

(* What was found on the trace is not changed between a check and the       *)
(* removal when the writer is alone.                                        *)
LEMMA CheckStep ==
  ASSUME OutInv, NEW w \in Writer, Check(w)
  PROVE  Framed(w)
<1>1. OutTypeOK /\ Bounded(w) /\ Shape(w)
  BY DEF OutInv
<1>2. outJob[w].step = "checking" /\ outFiles' = outFiles
  BY DEF Check
<1>3. outJob[w].kind = "set" /\ outJob[w].at = 2
  BY <1>1, <1>2, PlaceFacts DEF Bounded
<1>4. CASE outFiles[Trace] = w /\ Moves(w, "removing") /\ UNCHANGED outSeen
  <2>1. "removing" \in JobSteps
    BY DEF JobSteps
  <2>2. OutTypeOK' /\ Bounded(w)' /\ FrameJobs(w)
    BY <1>1, <1>2, <1>3, <1>4, <2>1, MovesFacts
    DEF OutTypeOK, Bounded, FrameJobs, Running
  <2>3. FrameFiles(w) /\ FrameImage(w)
    BY <1>1, <1>2, <1>3, <1>4, <2>1, MovesFacts
    DEF OutTypeOK, FrameFiles, FrameImage, Past
  <2>4. Shape(w)'
    BY <1>1, <1>2, <1>3, <1>4, <2>1, MovesFacts
    DEF OutTypeOK, Shape, Undisturbed, PairShape, Past
  <2> QED
    BY <2>2, <2>3, <2>4 DEF Framed
<1>5. CASE outFiles[Trace] # w /\ Gives(w, outSeen)
  <2>1. OutTypeOK' /\ Bounded(w)' /\ FrameJobs(w)
    BY <1>1, <1>2, <1>3, <1>5, GivesFacts DEF OutTypeOK, Bounded, FrameJobs, Running, Place
  <2>2. FrameFiles(w) /\ FrameImage(w)
    BY <1>1, <1>2, <1>3, <1>5, GivesFacts DEF OutTypeOK, FrameFiles, FrameImage, Past
  <2>3. Shape(w)'
    BY <1>1, <1>2, <1>3, <1>5, GivesFacts DEF OutTypeOK, Shape, Undisturbed, PairShape
  <2> QED
    BY <2>1, <2>2, <2>3 DEF Framed
<1> QED
  BY <1>4, <1>5 DEF Check

LEMMA RemoveTraceStep ==
  ASSUME OutInv, NEW w \in Writer, RemoveTrace(w)
  PROVE  Framed(w)
<1>1. OutTypeOK /\ Bounded(w) /\ Shape(w)
  BY DEF OutInv
<1>2. outJob[w].step = "removing"
  BY DEF RemoveTrace
<1>3. outJob[w].kind = "set" /\ outJob[w].at = 2
  BY <1>1, <1>2, PlaceFacts DEF Bounded
<1>4. CASE outFiles' = [outFiles EXCEPT ![Trace] = NoOutput] /\ Gives(w, outSeen)
  <2>1. /\ outFiles' \in [Place -> Contents] /\ outFiles'[Trace] = NoOutput
        /\ outFiles'[Image] = outFiles[Image] /\ outFiles'[Sidecar] = outFiles[Sidecar]
    BY <1>1, <1>4, OutputConstants DEF OutTypeOK, Place, Contents
  <2>2. OutTypeOK' /\ Bounded(w)' /\ FrameJobs(w)
    BY <1>1, <1>2, <1>3, <1>4, <2>1, GivesFacts
    DEF OutTypeOK, Bounded, FrameJobs, Running, Place
  <2>3. FrameFiles(w) /\ FrameImage(w)
    BY <1>1, <1>2, <1>3, <1>4, <2>1, GivesFacts
    DEF OutTypeOK, FrameFiles, FrameImage, Past, Place
  <2>4. Shape(w)'
    BY <1>1, <1>2, <1>3, <1>4, <2>1, GivesFacts
    DEF OutTypeOK, Shape, Undisturbed, PairShape, Past, Place
  <2> QED
    BY <2>2, <2>3, <2>4 DEF Framed
<1>5. CASE Gives(w, [outSeen EXCEPT ![w].repaired = FALSE]) /\ UNCHANGED outFiles
  <2> DEFINE seen == [outSeen EXCEPT ![w].repaired = FALSE]
  <2>1. /\ seen \in [Writer -> Seens] /\ \A v \in Writer \ {w} : seen[v] = outSeen[v]
        /\ seen[w].found = outSeen[w].found /\ seen[w].alone = outSeen[w].alone
        /\ ~seen[w].repaired
    BY <1>1, Noted
  <2> HIDE DEF seen
  <2>2. Gives(w, seen)
    BY <1>5 DEF seen
  <2>3. OutTypeOK' /\ Bounded(w)' /\ FrameJobs(w)
    BY <1>1, <1>2, <1>3, <1>5, <2>1, <2>2, GivesFacts
    DEF OutTypeOK, Bounded, FrameJobs, Running, Place
  <2>4. FrameFiles(w) /\ FrameImage(w)
    BY <1>1, <1>2, <1>3, <1>5, <2>1, <2>2, GivesFacts
    DEF OutTypeOK, FrameFiles, FrameImage, Past
  <2>5. Shape(w)'
    BY <1>1, <2>1, <2>2, GivesFacts DEF Shape, Undisturbed
  <2> QED
    BY <2>3, <2>4, <2>5 DEF Framed
<1> QED
  BY <1>4, <1>5 DEF RemoveTrace
-----------------------------------------------------------------------------
(* The invariant is inductive *)

(* What a step of one writer leaves of the others                           *)
LEMMA OthersKept ==
  ASSUME OutInv, NEW w \in Writer, Framed(w), NEW v \in Writer, v # w
  PROVE  Bounded(v)' /\ Shape(v)'
<1>1. /\ OutTypeOK /\ Bounded(v) /\ Shape(v) /\ Alone
      /\ outJob'[v] = outJob[v] /\ outSeen'[v] = outSeen[v]
      /\ Running(w) /\ FrameFiles(w)
  BY DEF OutInv, Framed, FrameJobs
<1>2. Bounded(v)'
  BY <1>1 DEF Bounded
<1>3. CASE outJob[v].step = "idle"
  <2>1. outJob'[v].kind = "single" /\ outJob'[v].step = "idle"
    BY <1>1, <1>3 DEF Bounded, NoJob
  <2>2. IconShape(v)'
    BY <2>1 DEF IconShape
  <2> QED
    BY <1>2, <2>1, <2>2 DEF Shape
<1>4. CASE outJob[v].step # "idle"
  <2>1. SUFFICES ASSUME Undisturbed(v)
                 PROVE  Shape(v)'
    BY <1>1, <1>2 DEF Shape, Undisturbed
  <2>2. outJob[v].kind # outJob[w].kind
    <3>1. outJob[w].step # "idle"
      BY <1>1 DEF Running
    <3> QED
      BY <1>1, <1>4, <2>1, <3>1 DEF Alone, Undisturbed
  <2>3. CASE outJob[v].kind = "single"
    <3>1. outJob[w].kind = "set"
      BY <1>1, <2>2, <2>3 DEF OutTypeOK, Jobs, Kinds
    <3>2. outFiles'[Image] = outFiles[Image]
      BY <1>1, <3>1 DEF FrameFiles
    <3> QED
      BY <1>1, <2>1, <2>3, <3>2 DEF Shape, IconShape, Undisturbed
  <2>4. CASE outJob[v].kind = "set"
    <3>1. outJob[w].kind = "single"
      BY <1>1, <2>2, <2>4 DEF OutTypeOK, Jobs, Kinds
    <3>2. outFiles'[Trace] = outFiles[Trace] /\ outFiles'[Sidecar] = outFiles[Sidecar]
      BY <1>1, <3>1 DEF FrameFiles
    <3> QED
      BY <1>1, <2>1, <2>4, <3>2 DEF Shape, PairShape, Undisturbed
  <2> QED
    BY <1>1, <2>3, <2>4 DEF OutTypeOK, Jobs, Kinds
<1> QED
  BY <1>2, <1>3, <1>4

LEMMA OriginKept ==
  ASSUME OutInv, NEW w \in Writer, Framed(w)
  PROVE  Origin'
<1>1. /\ OutTypeOK /\ Origin /\ FrameFiles(w) /\ Running(w)
      /\ \A v \in Writer \ {w} : outJob'[v] = outJob[v] /\ outSeen'[v] = outSeen[v]
      /\ outSeen'[w].found = outSeen[w].found /\ outJob'[w].kind = outJob[w].kind
      /\ outJob'[w].step # "idle" /\ outJob[w].step # "idle"
  BY DEF OutInv, Framed, FrameJobs, Running
<1>2. SUFFICES ASSUME NEW u \in Writer, NEW p \in Place
               PROVE  /\ outSeen'[u].found[p] # u
                      /\ Foreign(u, p)' =>
                           outFiles'[p] # u /\ \A v \in Writer : outJob'[v].backup[p] # u
  BY DEF Origin
<1>3. outSeen'[u].found[p] # u
  BY <1>1 DEF Origin
<1>4. ASSUME Foreign(u, p)'
      PROVE  outFiles'[p] # u /\ \A v \in Writer : outJob'[v].backup[p] # u
  <2>1. Foreign(u, p)
    BY <1>1, <1>4 DEF Foreign
  <2>2. outFiles[p] # u /\ \A v \in Writer : outJob[v].backup[p] # u
    BY <1>1, <2>1 DEF Origin
  <2>3. outFiles'[p] # u
    <3>1. CASE u # w
      BY <1>1, <2>2, <3>1, OutputConstants DEF FrameFiles
    <3>2. CASE u = w
      BY <1>1, <2>1, <2>2, <3>2 DEF FrameFiles, Foreign, Place
    <3> QED
      BY <3>1, <3>2
  <2>4. \A v \in Writer : outJob'[v].backup[p] # u
    BY <1>1, <2>2, OutputConstants DEF FrameFiles
  <2> QED
    BY <2>3, <2>4
<1> QED
  BY <1>3, <1>4

LEMMA ReservedKept ==
  ASSUME OutInv, NEW w \in Writer, Framed(w)
  PROVE  Reserved' /\ FoundKept'
<1>1. /\ OutTypeOK /\ Reserved /\ FoundKept /\ FrameFiles(w)
      /\ \A v \in Writer \ {w} : outJob'[v] = outJob[v] /\ outSeen'[v] = outSeen[v]
      /\ outSeen'[w].found = outSeen[w].found /\ outJob'[w].kind = outJob[w].kind
      /\ Bounded(w)'
  BY DEF OutInv, Framed, FrameJobs
<1>2. outJob[w].kind \in {"single", "set"}
  BY <1>1 DEF OutTypeOK, Jobs, Kinds
<1>3. Trace \in Place /\ Sidecar \in Place
  BY DEF Place
(* a content of before is not put at a place of a pair, and one that is     *)
(* there stays                                                              *)
<1>4. ASSUME NEW p \in {Trace, Sidecar}
      PROVE  (outFiles'[p] = Earlier <=> outFiles[p] = Earlier)
             /\ outJob'[w].backup[p] # Earlier
  <2>1. outJob[w].backup[p] # Earlier /\ p \in Place
    BY <1>1, <1>3 DEF Reserved
  <2>2. CASE outJob[w].kind = "single"
    BY <1>1, <2>1, <2>2, OutputConstants DEF FrameFiles, Bounded
  <2>3. CASE outJob[w].kind = "set" /\ outJob[w].step \notin Past
    BY <1>1, <2>1, <2>3 DEF FrameFiles
  <2>4. CASE outJob[w].kind = "set" /\ outJob[w].step \in Past
    <3>1. outFiles[p] # Earlier
      BY <1>1, <2>4 DEF Reserved
    <3> QED
      BY <1>1, <2>1, <3>1, OutputConstants DEF FrameFiles
  <2> QED
    BY <1>2, <2>2, <2>3, <2>4
<1>5. FoundKept'
  BY <1>1, <1>4 DEF FoundKept
<1>6. ASSUME outJob[w].kind = "set", outJob'[w].step \in Past
      PROVE  outFiles[Trace] # Earlier /\ outFiles[Sidecar] # Earlier
  BY <1>1, <1>6, OutputConstants DEF FrameFiles, Reserved
<1>7. ASSUME outJob[w].kind = "set", outJob'[w].step = "reserving", outJob'[w].at = 2
      PROVE  outFiles[Trace] # Earlier
  BY <1>1, <1>7, OutputConstants DEF FrameFiles
<1>8. Reserved'
  <2>1. SUFFICES ASSUME NEW v \in Writer
                 PROVE  /\ outJob'[v].backup[Trace] # Earlier
                        /\ outJob'[v].backup[Sidecar] # Earlier
                        /\ outJob'[v].kind = "set" =>
                             /\ outJob'[v].step \in Past =>
                                  outFiles'[Trace] # Earlier /\ outFiles'[Sidecar] # Earlier
                             /\ outJob'[v].step = "reserving" /\ outJob'[v].at = 2 =>
                                  outFiles'[Trace] # Earlier
    BY DEF Reserved, Past
  <2>2. CASE v = w
    BY <1>1, <1>4, <1>6, <1>7, <2>2
  <2>3. CASE v # w
    BY <1>1, <1>4, <2>3 DEF Reserved
  <2> QED
    BY <2>2, <2>3
<1> QED
  BY <1>5, <1>8

LEMMA ImageKeptKept ==
  ASSUME OutInv, NEW w \in Writer, Framed(w)
  PROVE  ImageKept'
<1>1. /\ OutTypeOK /\ ImageKept /\ FrameFiles(w) /\ FrameImage(w)
      /\ \A v \in Writer \ {w} : outJob'[v] = outJob[v] /\ outSeen'[v] = outSeen[v]
      /\ outSeen'[w].found = outSeen[w].found /\ Bounded(w)
  BY DEF OutInv, Framed, FrameJobs
<1>2. outJob[w].kind \in {"single", "set"}
  BY <1>1 DEF OutTypeOK, Jobs, Kinds
<1>3. SUFFICES ASSUME outFiles'[Image] = NoOutput,
                      NEW u \in Writer, outSeen'[u].found[Image] = Earlier
               PROVE  \E v \in Writer :
                        outJob'[v].backup[Image] # NoOutput /\ outJob'[v].step # "clearing"
  BY DEF ImageKept
<1>4. \/ outFiles[Image] # NoOutput
      \/ \E v \in Writer : outJob[v].backup[Image] # NoOutput /\ outJob[v].step # "clearing"
  BY <1>1, <1>3 DEF ImageKept
<1>5. CASE outFiles[Image] # NoOutput
  BY <1>1, <1>2, <1>3, <1>5 DEF FrameFiles, FrameImage
<1>6. CASE \E v \in Writer : outJob[v].backup[Image] # NoOutput /\ outJob[v].step # "clearing"
  <2>1. PICK v \in Writer : outJob[v].backup[Image] # NoOutput /\ outJob[v].step # "clearing"
    BY <1>6
  <2>2. CASE v = w
    BY <1>1, <1>2, <1>3, <2>1, <2>2 DEF FrameImage, Bounded
  <2>3. CASE v # w
    BY <1>1, <2>1, <2>3
  <2> QED
    BY <2>2, <2>3
<1> QED
  BY <1>4, <1>5, <1>6

LEMMA AloneKept ==
  ASSUME OutInv, NEW w \in Writer, Framed(w)
  PROVE  Alone'
<1>1. /\ Alone /\ Running(w) /\ outJob[w].step # "idle"
      /\ \A v \in Writer \ {w} : outJob'[v] = outJob[v] /\ outSeen'[v] = outSeen[v]
      /\ outSeen'[w].alone = outSeen[w].alone /\ outJob'[w].kind = outJob[w].kind
  BY DEF OutInv, Framed, FrameJobs, Running
<1>2. SUFFICES ASSUME NEW u \in Writer, NEW v \in Writer, u # v, outSeen'[u].alone,
                      outJob'[u].kind = outJob'[v].kind,
                      outJob'[u].step # "idle", outJob'[v].step # "idle"
               PROVE  ~Running(v)'
  BY DEF Alone
<1>3. CASE v = w
  BY <1>1, <1>2, <1>3 DEF Alone
<1>4. CASE v # w
  <2>1. ~Running(v)
    BY <1>1, <1>2, <1>4 DEF Alone
  <2> QED
    BY <1>1, <1>4, <2>1 DEF Running
<1> QED
  BY <1>3, <1>4

LEMMA PairsKept ==
  ASSUME OutInv, NEW w \in Writer, Framed(w), Origin'
  PROVE  PairsComplete'
<1>1. /\ OutTypeOK /\ OutTypeOK' /\ Alone /\ Running(w) /\ PairsComplete /\ FrameFiles(w)
      /\ Origin /\ Shape(w)' /\ outJob'[w].step \notin {"idle", "lost"}
      /\ \A v \in Writer \ {w} : outJob'[v] = outJob[v] /\ outSeen'[v] = outSeen[v]
  BY DEF OutInv, Framed, FrameJobs
<1>2. SUFFICES ASSUME NEW v \in Writer, Undisturbed(v)', outFiles'[Sidecar] = v
               PROVE  outFiles'[Trace] = v
  BY DEF PairsComplete
<1>3. ~Foreign(v, Sidecar)'
  BY <1>2 DEF Origin, Place
<1>4. outJob'[v].kind = "set" /\ outJob'[v].step # "idle"
  BY <1>1, <1>3, OutputConstants DEF Foreign, OutTypeOK, Jobs, Kinds
<1>5. CASE v = w
  <2>1. PairShape(w)' /\ outSeen'[w].found[Sidecar] # w
    BY <1>1, <1>2, <1>4, <1>5 DEF Shape, Origin, Place
  <2>2. outJob'[w].step \in JobSteps \ {"idle", "lost"}
    BY <1>1 DEF OutTypeOK, Jobs
  <2> QED
    BY <1>2, <1>5, <2>1, <2>2, OutputConstants DEF PairShape, JobSteps
<1>6. CASE v # w
  <2>1. /\ outJob[v].kind = "set" /\ outJob[v].step # "idle" /\ Undisturbed(v)
    BY <1>1, <1>2, <1>4, <1>6 DEF Undisturbed
  <2>2. outJob[w].kind # "set"
    <3>1. outJob[w].step # "idle"
      BY <1>1 DEF Running
    <3> QED
      BY <1>1, <1>6, <2>1, <3>1 DEF Alone, Undisturbed
  <2>3. outFiles'[Trace] = outFiles[Trace] /\ outFiles'[Sidecar] = outFiles[Sidecar]
    BY <1>1, <2>2 DEF FrameFiles, OutTypeOK, Jobs, Kinds
  <2> QED
    BY <1>1, <1>2, <2>1, <2>3 DEF PairsComplete
<1> QED
  BY <1>5, <1>6

LEMMA FramedKept ==
  ASSUME OutInv, NEW w \in Writer, Framed(w)
  PROVE  OutInv'
<1>1. OutTypeOK' /\ Bounded(w)' /\ Shape(w)'
  BY DEF Framed
<1>2. \A v \in Writer : Bounded(v)' /\ Shape(v)'
  BY <1>1, OthersKept
<1>3. Origin' /\ Reserved' /\ FoundKept' /\ ImageKept' /\ Alone'
  BY OriginKept, ReservedKept, ImageKeptKept, AloneKept
<1>4. PairsComplete'
  BY <1>3, PairsKept
<1> QED
  BY <1>1, <1>2, <1>3, <1>4 DEF OutInv
LEMMA BeginsKept ==
  ASSUME OutInv, NEW w \in Writer, NEW kind \in Kinds, NEW overwrite \in BOOLEAN,
         JobBegins(w, kind, overwrite)
  PROVE  OutInv'
<1> DEFINE others == {v \in Writer \ {w} : outJob[v].step # "idle" /\ outJob[v].kind = kind}
           lone == \A o \in others : ~Running(o)
<1>1. /\ OutTypeOK /\ Origin /\ Reserved /\ FoundKept /\ ImageKept /\ Alone /\ PairsComplete
      /\ \A v \in Writer : Bounded(v) /\ Shape(v)
      /\ outJob[w].step = "idle" /\ outJob[w] = NoJob /\ outJob[w] \in Jobs
      /\ outFiles' = outFiles /\ (overwrite => kind = "single")
  BY DEF OutInv, OutTypeOK, Bounded, JobBegins
<1>2. /\ outJob'[w] = [outJob[w] EXCEPT !.kind = kind, !.overwrite = overwrite,
                                        !.step = "reserving"]
      /\ outJob' = [outJob EXCEPT ![w] = outJob'[w]]
  BY <1>1 DEF JobBegins, OutTypeOK
<1>3. /\ outJob'[w] \in Jobs /\ outJob'[w].kind = kind /\ outJob'[w].overwrite = overwrite
      /\ outJob'[w].step = "reserving" /\ outJob'[w].at = outJob[w].at
      /\ outJob'[w].temporary = outJob[w].temporary /\ outJob'[w].backup = outJob[w].backup
  BY <1>1, <1>2 DEF Jobs, JobSteps
<1>4. /\ outJob[w].at = 1
      /\ \A p \in Place : outJob[w].temporary[p] = "none" /\ outJob[w].backup[p] = NoOutput
  BY <1>1 DEF NoJob
<1>5. /\ outJob' \in [Writer -> Jobs]
      /\ \A v \in Writer \ {w} : outJob'[v] = outJob[v]
  BY <1>1, <1>2, <1>3, Updated
<1>6. /\ outSeen' = [v \in Writer |->
            IF v = w THEN [outSeen[w] EXCEPT !.found = outFiles, !.alone = lone]
            ELSE [outSeen[v] EXCEPT !.alone = @ /\ v \notin others]]
      /\ lone \in BOOLEAN /\ \A v \in Writer : (v \notin others) \in BOOLEAN
  BY DEF JobBegins
<1>7. /\ outSeen'[w] = [outSeen[w] EXCEPT !.found = outFiles, !.alone = lone]
      /\ \A v \in Writer \ {w} :
           outSeen'[v] = [outSeen[v] EXCEPT !.alone = @ /\ v \notin others]
  BY <1>6
<1>8. (\A o \in others : ~Running(o)) <=> lone
  OBVIOUS
<1>9. \A v \in Writer \ {w} :
        v \in others <=> outJob[v].step # "idle" /\ outJob[v].kind = kind
  OBVIOUS
<1> HIDE DEF others, lone
<1>10. /\ outSeen'[w] \in Seens /\ outSeen'[w].found = outFiles
       /\ outSeen'[w].alone = lone
       /\ \A v \in Writer \ {w} :
            /\ outSeen'[v] \in Seens /\ outSeen'[v].found = outSeen[v].found
            /\ outSeen'[v].repaired = outSeen[v].repaired
            /\ outSeen'[v].alone => outSeen[v].alone /\ v \notin others
  <2>1. \A v \in Writer : outSeen[v] \in Seens
    BY <1>1 DEF OutTypeOK
  <2>2. outFiles \in [Place -> Contents] /\ lone \in BOOLEAN
    BY <1>1, <1>6 DEF OutTypeOK
  <2>3. /\ outSeen'[w] \in Seens /\ outSeen'[w].found = outFiles
        /\ outSeen'[w].alone = lone
    BY <1>7, <2>1, <2>2 DEF Seens
  <2>4. ASSUME NEW v \in Writer \ {w}
        PROVE  /\ outSeen'[v] \in Seens /\ outSeen'[v].found = outSeen[v].found
               /\ outSeen'[v].repaired = outSeen[v].repaired
               /\ outSeen'[v].alone => outSeen[v].alone /\ v \notin others
    <3> DEFINE a == outSeen[v].alone /\ v \notin others
    <3>1. a \in BOOLEAN /\ (a => outSeen[v].alone /\ v \notin others)
      OBVIOUS
    <3>2. outSeen'[v] = [outSeen[v] EXCEPT !.alone = a]
      BY <1>7
    <3> HIDE DEF a
    <3>3. /\ outSeen'[v] \in Seens /\ outSeen'[v].found = outSeen[v].found
          /\ outSeen'[v].repaired = outSeen[v].repaired /\ outSeen'[v].alone = a
      BY <2>1, <3>1, <3>2 DEF Seens
    <3> QED
      BY <3>1, <3>3
  <2> QED
    BY <2>3, <2>4
<1>11. OutTypeOK'
  BY <1>1, <1>5, <1>6, <1>10 DEF OutTypeOK
<1>12. \A v \in Writer : Bounded(v)'
  <2>1. Bounded(w)'
    BY <1>1, <1>3, <1>4 DEF Bounded, Place
  <2> QED
    BY <1>1, <1>5, <2>1 DEF Bounded
<1>13. Origin'
  <2>1. \A v \in Writer, p \in Place : Foreign(v, p)' => Foreign(v, p)
    BY <1>1, <1>5 DEF Foreign
  <2>2. \A p \in Place : outFiles[p] # w
    BY <1>1 DEF Origin, Foreign
  <2>3. \A v \in Writer : outJob'[v].backup = outJob[v].backup
    BY <1>3, <1>5
  <2> QED
    BY <1>1, <1>10, <2>1, <2>2, <2>3 DEF Origin
<1>14. Reserved' /\ FoundKept'
  BY <1>1, <1>3, <1>4, <1>5, <1>10, OutputConstants DEF Reserved, FoundKept, Past, Place
<1>15. ImageKept'
  BY <1>1, <1>3, <1>4, <1>5, <1>10, OutputConstants DEF ImageKept, Place
<1>16. Alone'
  <2>1. SUFFICES ASSUME NEW u \in Writer, NEW v \in Writer, u # v, outSeen'[u].alone,
                        outJob'[u].kind = outJob'[v].kind,
                        outJob'[u].step # "idle", outJob'[v].step # "idle"
                 PROVE  ~Running(v)'
    BY DEF Alone
  <2>2. CASE u = w
    <3>1. v \in others
      BY <1>3, <1>5, <1>9, <2>1, <2>2
    <3> QED
      BY <1>5, <1>8, <1>10, <2>1, <2>2, <3>1 DEF Running
  <2>3. CASE v = w
    BY <1>3, <1>5, <1>9, <1>10, <2>1, <2>3
  <2>4. CASE u # w /\ v # w
    <3>1. ~Running(v)
      BY <1>1, <1>5, <1>10, <2>1, <2>4 DEF Alone
    <3> QED
      BY <1>5, <2>1, <2>4, <3>1 DEF Running
  <2> QED
    BY <2>2, <2>3, <2>4
<1>17. \A v \in Writer : Shape(v)'
  <2>1. Shape(w)'
    BY <1>1, <1>3, <1>4, <1>10 DEF Shape, IconShape, PairShape, Past, Place
  <2>2. ASSUME NEW v \in Writer \ {w} PROVE Shape(v)'
    <3>1. Undisturbed(v)' => Undisturbed(v)
      BY <1>10 DEF Undisturbed
    <3>2. /\ outJob'[v] = outJob[v] /\ outSeen'[v].found = outSeen[v].found
          /\ outFiles' = outFiles /\ Shape(v)
      BY <1>1, <1>5, <1>10
    <3> QED
      BY <3>1, <3>2 DEF Shape, IconShape, PairShape
  <2> QED
    BY <2>1, <2>2
<1>18. PairsComplete'
  <2>1. outFiles[Sidecar] # w
    BY <1>1 DEF Origin, Foreign, Place
  <2> QED
    BY <1>1, <1>10, <2>1 DEF PairsComplete, Undisturbed
<1> QED
  BY <1>11, <1>12, <1>13, <1>14, <1>15, <1>16, <1>17, <1>18 DEF OutInv

LEMMA DeathKept ==
  ASSUME OutInv, ServerDies
  PROVE  OutInv'
<1>1. /\ OutTypeOK /\ Origin /\ Reserved /\ FoundKept /\ ImageKept /\ PairsComplete
      /\ \A v \in Writer : Bounded(v) /\ Shape(v)
      /\ outFiles' = outFiles /\ outSeen' = outSeen
  BY DEF OutInv, ServerDies
<1>2. \A w \in Writer :
        /\ outJob'[w] \in Jobs
        /\ outJob'[w].step = IF Running(w) THEN "lost" ELSE outJob[w].step
        /\ outJob'[w].kind = outJob[w].kind /\ outJob'[w].overwrite = outJob[w].overwrite
        /\ outJob'[w].at = outJob[w].at /\ outJob'[w].temporary = outJob[w].temporary
        /\ outJob'[w].backup = outJob[w].backup
        /\ ~Running(w) => outJob'[w] = outJob[w]
  <2> TAKE w \in Writer
  <2> DEFINE s == IF Running(w) THEN "lost" ELSE outJob[w].step
  <2>1. outJob[w] \in Jobs /\ s \in JobSteps
    BY <1>1 DEF OutTypeOK, Jobs, JobSteps
  <2>2. outJob'[w] = [outJob[w] EXCEPT !.step = s]
    BY DEF ServerDies
  <2>3. ~Running(w) => s = outJob[w].step
    OBVIOUS
  <2>4. s = IF Running(w) THEN "lost" ELSE outJob[w].step
    OBVIOUS
  <2> HIDE DEF s
  <2>5. /\ outJob'[w] \in Jobs /\ outJob'[w].step = s
        /\ outJob'[w].kind = outJob[w].kind /\ outJob'[w].overwrite = outJob[w].overwrite
        /\ outJob'[w].at = outJob[w].at /\ outJob'[w].temporary = outJob[w].temporary
        /\ outJob'[w].backup = outJob[w].backup
    BY <2>1, <2>2 DEF Jobs
  <2>6. ~Running(w) => outJob'[w] = outJob[w]
    BY <2>1, <2>2, <2>3 DEF Jobs
  <2> QED
    BY <2>4, <2>5, <2>6
<1>3. \A w \in Writer : ~Running(w)' /\ (outJob'[w].step = "idle" <=> outJob[w].step = "idle")
  BY <1>2 DEF Running
<1>4. OutTypeOK'
  <2>1. outJob' = [w \in Writer |-> outJob'[w]]
    BY DEF ServerDies
  <2> QED
    BY <1>1, <1>2, <2>1 DEF OutTypeOK
<1>5. \A w \in Writer : Bounded(w)'
  BY <1>1, <1>2 DEF Bounded, Running
<1>6. Origin'
  <2>1. \A v \in Writer, p \in Place : Foreign(v, p)' => Foreign(v, p)
    BY <1>2, <1>3 DEF Foreign
  <2> QED
    BY <1>1, <1>2, <2>1 DEF Origin
<1>7. Reserved' /\ FoundKept' /\ ImageKept'
  BY <1>1, <1>2, <1>3 DEF Reserved, FoundKept, ImageKept, Past, Running
<1>8. Alone'
  BY <1>3 DEF Alone
<1>9. ASSUME NEW w \in Writer PROVE Shape(w)'
  <2>1. CASE Running(w)
    BY <1>2, <2>1 DEF Shape, IconShape, PairShape, Past
  <2>2. CASE ~Running(w)
    BY <1>1, <1>2, <2>2 DEF Shape, IconShape, PairShape, Undisturbed
  <2> QED
    BY <2>1, <2>2
<1>10. PairsComplete'
  BY <1>1 DEF PairsComplete, Undisturbed
<1> QED
  BY <1>4, <1>5, <1>6, <1>7, <1>8, <1>9, <1>10 DEF OutInv

LEMMA OutInitial ==
  ASSUME OutInit
  PROVE  OutInv
<1>1. /\ outFiles \in [Place -> {Earlier, NoOutput}]
      /\ \A w \in Writer : outJob[w] = NoJob
      /\ \A w \in Writer : outSeen[w] = [found |-> outFiles, alone |-> TRUE, repaired |-> TRUE]
  BY DEF OutInit
<1>2. /\ NoJob.kind = "single" /\ NoJob.step = "idle" /\ NoJob.at = 1
      /\ NoJob.overwrite = FALSE
      /\ \A p \in Place : NoJob.temporary[p] = "none" /\ NoJob.backup[p] = NoOutput
  BY DEF NoJob
<1>3. OutTypeOK
  <2>1. NoJob \in Jobs
    BY DEF NoJob, Jobs, Kinds, JobSteps, PrivateFiles, Contents
  <2>2. outFiles \in [Place -> Contents]
    BY <1>1 DEF Contents
  <2>3. [found |-> outFiles, alone |-> TRUE, repaired |-> TRUE] \in Seens
    BY <2>2 DEF Seens
  <2> QED
    BY <2>1, <2>2, <2>3 DEF OutInit, OutTypeOK
<1>4. \A w \in Writer : Bounded(w)
  BY <1>1, <1>2 DEF Bounded, Place
<1>5. Origin
  BY <1>1, <1>2, OutputConstants DEF Origin
<1>6. Reserved /\ FoundKept /\ ImageKept
  BY <1>1, <1>2, OutputConstants DEF Reserved, FoundKept, ImageKept, Place
<1>7. Alone
  BY <1>1, <1>2 DEF Alone
<1>8. \A w \in Writer : Shape(w)
  BY <1>1, <1>2 DEF Shape, IconShape
<1>9. PairsComplete
  BY <1>1, OutputConstants DEF PairsComplete, Place
<1> QED
  BY <1>3, <1>4, <1>5, <1>6, <1>7, <1>8, <1>9 DEF OutInv

-----------------------------------------------------------------------------
(* The theorem *)

LEMMA OutInductive == OutInv /\ [OutNext]_outVars => OutInv'
<1> SUFFICES ASSUME OutInv, [OutNext]_outVars
             PROVE  OutInv'
  OBVIOUS
<1>1. CASE UNCHANGED outVars
  BY <1>1
  DEF outVars, OutInv, OutTypeOK, Bounded, Origin, Foreign, Reserved, FoundKept, ImageKept,
      Alone, Running, Shape, IconShape, PairShape, Undisturbed, PairsComplete
<1>2. CASE ServerDies
  BY <1>2, DeathKept
<1>3. ASSUME NEW w \in Writer, WriterSteps(w)
      PROVE  OutInv'
  <2>1. CASE \E kind \in Kinds, overwrite \in BOOLEAN : JobBegins(w, kind, overwrite)
    BY <2>1, BeginsKept
  <2>2. CASE Reserve(w)
    BY <2>2, ReserveStep, FramedKept
  <2>3. CASE Write(w)
    BY <2>3, WritesStep, FramedKept
  <2>4. CASE SetAside(w)
    BY <2>4, SetAsideStep, FramedKept
  <2>5. CASE Install(w)
    BY <2>5, InstallStep, FramedKept
  <2>6. CASE Restore(w)
    BY <2>6, RestoreStep, FramedKept
  <2>7. CASE Restored(w)
    BY <2>7, RestoredStep, FramedKept
  <2>8. CASE Clear(w)
    BY <2>8, ClearStep, FramedKept
  <2>9. CASE Check(w)
    BY <2>9, CheckStep, FramedKept
  <2>10. CASE RemoveTrace(w)
    BY <2>10, RemoveTraceStep, FramedKept
  <2> QED
    BY <1>3, <2>1, <2>2, <2>3, <2>4, <2>5, <2>6, <2>7, <2>8, <2>9, <2>10 DEF WriterSteps
<1> QED
  BY <1>1, <1>2, <1>3 DEF OutNext

LEMMA InvKeepsOutputs == OutInv => OutputsKept
<1> SUFFICES ASSUME OutInv
             PROVE  OutputsKept
  OBVIOUS
<1>1. AllOrNothing
  <2>1. SUFFICES ASSUME NEW w \in Writer, Undisturbed(w)
                 PROVE  /\ outJob[w].step = "succeeded" =>
                             Leftovers(w) = {} /\ \A p \in Own(w) : outFiles[p] = w
                        /\ outJob[w].step = "failed" =>
                             /\ Leftovers(w) = {}
                             /\ \A p \in Own(w) : outFiles[p] = outSeen[w].found[p]
    BY DEF AllOrNothing
  <2>2. OutTypeOK /\ Bounded(w) /\ Shape(w)
    BY DEF OutInv
  <2>3. CASE outJob[w].kind = "single"
    BY <2>1, <2>2, <2>3, PlaceFacts DEF Shape, IconShape, Bounded, Leftovers, Place
  <2>4. CASE outJob[w].kind = "set"
    BY <2>1, <2>2, <2>4, PlaceFacts DEF Shape, PairShape, Bounded, Leftovers, Place, Past
  <2> QED
    BY <2>2, <2>3, <2>4, PlaceFacts
<1>2. NothingLost
  <2>1. SUFFICES ASSUME NEW p \in Place, NEW w \in Writer, outSeen[w].found[p] = Earlier
                 PROVE  Exists(p) \/ \E v \in Writer : outJob[v].backup[p] # NoOutput
    BY DEF NothingLost
  <2> QED
    BY <2>1, OutputConstants DEF OutInv, FoundKept, ImageKept, Exists, Place
<1> QED
  BY <1>1, <1>2 DEF OutputsKept, OutInv

(* A writer leaves its result or what it found, a file of before is never   *)
(* lost and a sidecar has its trace, whatever the number of writers and     *)
(* whichever of their calls of the file system fail.                        *)
THEOREM OutputsAreKept == OutSpec => []OutputsKept
<1>1. OutInit => OutInv
  BY OutInitial
<1>2. OutInv /\ [OutNext]_outVars => OutInv'
  BY OutInductive
<1>3. OutInv => OutputsKept
  BY InvKeepsOutputs
<1> QED
  BY <1>1, <1>2, <1>3, PTL DEF OutSpec
=============================================================================
