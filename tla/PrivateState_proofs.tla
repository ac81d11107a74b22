-------------------------- MODULE PrivateState_proofs --------------------------
(***************************************************************************)
(* Proofs about PrivateState for every instance: one holder of the lock,   *)
(* consistent read transactions, no litter, and the implementation of      *)
(* RecordStore.                                                            *)
(***************************************************************************)
EXTENDS PrivateState, TLAPS

(* Who is inside an operation holds the lock, and the other way round. *)
Holding == \A p \in Procs : call[p].step \in Writing \cup {"reading"} <=> opLock = p

WholeRecords == \A n \in Names : files[n] # Torn

(* What the steps of a write have established. *)
WriteShape(p) ==
  /\ call[p].step \in Writing =>
       call[p].target \in Names /\ call[p].doc \in Docs /\ call[p].temp \in Temporaries
  /\ call[p].step \in {"fill", "set_aside"} => call[p].backup = None
  /\ call[p].step \in {"set_aside", "install"} => files[call[p].temp] = call[p].doc
  /\ call[p].step = "install" /\ call[p].backup # None =>
       files[call[p].backup] \in Docs /\ files[call[p].target] = Absent
  /\ call[p].step = "discard" => files[call[p].target] = call[p].doc

ReadsAgree(p) ==
  call[p].step = "reading" =>
    \A n \in Names : call[p].seen[n] # None => call[p].seen[n] = files[n]

IInv ==
  /\ TypeOK /\ Holding /\ WholeRecords
  /\ \A p \in Procs : WriteShape(p) /\ ReadsAgree(p)

-----------------------------------------------------------------------------
(* The directory is typed in every reachable state. *)
LEMMA NoCallTyped == NoCall \in Calls
  BY DEF NoCall, Calls

(* A call that goes on to its next step stays typed. *)
LEMMA Moved ==
  ASSUME NEW c \in Calls, NEW step \in Writing
  PROVE  /\ [c EXCEPT !.step = step] \in Calls
         /\ \A b \in Backups : [c EXCEPT !.step = step, !.backup = b] \in Calls
  BY DEF Calls

LEMMA TypeInit == Init => TypeOK
  BY NoCallTyped DEF Init, TypeOK, Content

LEMMA FinishTyped ==
  ASSUME TypeOK, NEW p \in Procs, NEW r \in Answered, Finish(p, r)
  PROVE  /\ opLock' \in Procs \cup {None}
         /\ call' \in [Procs -> Calls]
<1>1. Answer(p, r) \in Calls
  BY DEF TypeOK, Answer, NoCall, Calls
<1> QED
  BY <1>1 DEF TypeOK, Finish

(* Every step keeps the directory, the lock and the calls typed. *)
LEMMA TypeStep == IInv /\ [Next]_vars => TypeOK'
<1> SUFFICES ASSUME IInv, [Next]_vars PROVE TypeOK'
  OBVIOUS
<1> USE StoreConstants
<1>t. TypeOK
  BY DEF IInv
<1>g. ASSUME NEW p \in Procs, NEW F \in [Files -> Content], GiveUp(p, F) PROVE TypeOK'
  <2>1. files' \in [Files -> Content]
    BY <1>g DEF GiveUp, Content
  <2>2. Finish(p, "err")
    BY <1>g DEF GiveUp
  <2> QED
    BY <2>1, <2>2, <1>t, FinishTyped DEF TypeOK, Answered
<1>1. ASSUME NEW p \in Procs, NEW n \in Names, NEW d \in Docs, BeginWrite(p, n, d) PROVE TypeOK'
  <2>1. CASE opLock = None /\ opLock' = p
    <3>1. PICK t \in Temporaries :
            /\ files' = [files EXCEPT ![t] = Torn]
            /\ call' = [call EXCEPT ![p] =
                 [NoCall EXCEPT !.step = "fill", !.target = n, !.doc = d, !.temp = t]]
      BY <1>1, <2>1 DEF BeginWrite, Free
    <3>2. [NoCall EXCEPT !.step = "fill", !.target = n, !.doc = d, !.temp = t] \in Calls
      BY DEF NoCall, Calls, Writing
    <3> QED
      BY <3>1, <3>2, <2>1, <1>t DEF TypeOK, Content
  <2>2. CASE UNCHANGED <<files, opLock>>
    <3>1. CASE call' = [call EXCEPT ![p] = [NoCall EXCEPT !.step = "err", !.target = n, !.doc = d]]
      <4>1. [NoCall EXCEPT !.step = "err", !.target = n, !.doc = d] \in Calls
        BY DEF NoCall, Calls, Answered
      <4> QED
        BY <4>1, <3>1, <2>2, <1>t DEF TypeOK
    <3>2. CASE opLock = None /\ opLock' = p
      BY <3>2, <2>1
    <3> QED
      BY <1>1, <3>1, <3>2 DEF BeginWrite
  <2> QED
    BY <1>1, <2>1, <2>2 DEF BeginWrite
<1>2. ASSUME NEW p \in Procs, Fill(p) PROVE TypeOK'
  <2>1. CASE GiveUp(p, files)
    BY <2>1, <1>g, <1>t DEF TypeOK
  <2>2. CASE ~GiveUp(p, files)
    <3>1. call[p].doc \in Docs
      BY <1>2 DEF IInv, WriteShape, Fill, Writing
    <3>2. files' \in [Files -> Content]
      BY <1>2, <2>2, <3>1, <1>t DEF Fill, TypeOK, Content
    <3>3. call' \in [Procs -> Calls]
      <4>1. call' = [call EXCEPT ![p].step = "set_aside"]
        BY <1>2, <2>2 DEF Fill
      <4>2. [call[p] EXCEPT !.step = "set_aside"] \in Calls
        BY <1>t, Moved DEF TypeOK, Writing
      <4> QED
        BY <4>1, <4>2, <1>t DEF TypeOK
    <3> QED
      BY <1>2, <2>2, <3>2, <3>3, <1>t DEF Fill, TypeOK
  <2> QED
    BY <2>1, <2>2
<1>3. ASSUME NEW p \in Procs, SetAside(p) PROVE TypeOK'
  <2>1. CASE GiveUp(p, files)
    BY <2>1, <1>g, <1>t DEF TypeOK
  <2>2. CASE ~GiveUp(p, files)
    <3>1. call[p].target \in Names
      BY <1>3 DEF IInv, WriteShape, SetAside, Writing
    <3>2. files' \in [Files -> Content]
      BY <1>3, <2>2, <3>1, <1>t DEF SetAside, TypeOK, Content, Files
    <3>3. call' \in [Procs -> Calls]
      <4>1. PICK c \in Calls : call' = [call EXCEPT ![p] = c]
        <5>1. CASE call' = [call EXCEPT ![p].step = "install"]
          BY <5>1, <1>t, Moved DEF TypeOK, Writing
        <5>2. CASE \E b \in Backups : call' = [call EXCEPT ![p].step = "install", ![p].backup = b]
          BY <5>2, <1>t, Moved DEF TypeOK, Writing
        <5> QED
          BY <1>3, <2>2, <5>1, <5>2 DEF SetAside, Free
      <4> QED
        BY <4>1, <1>t DEF TypeOK
    <3> QED
      BY <1>3, <2>2, <3>2, <3>3, <1>t DEF SetAside, TypeOK
  <2> QED
    BY <2>1, <2>2
<1>4. ASSUME NEW p \in Procs, Install(p) PROVE TypeOK'
  <2>0. /\ call[p].target \in Names /\ call[p].temp \in Temporaries
        /\ call[p].backup # None => call[p].backup \in Backups
    BY <1>4, <1>t DEF IInv, WriteShape, Install, Writing, TypeOK, Calls
  <2>1. CASE GiveUp(p, files)
    BY <2>1, <1>g, <1>t DEF TypeOK
  <2>2. CASE GiveUp(p, Restored(p))
    <3>1. Restored(p) \in [Files -> Content]
      BY <2>0, <1>t DEF Restored, TypeOK, Files, Content
    <3> QED
      BY <2>2, <3>1, <1>g
  <2>3. CASE /\ files' = [files EXCEPT ![call[p].target] = files[call[p].temp],
                                      ![call[p].temp] = Absent]
             /\ call' = [call EXCEPT ![p].step = "discard"]
             /\ UNCHANGED opLock
    <3>1. files[call[p].temp] \in Content
      BY <2>0, <1>t DEF TypeOK, Files
    <3>2. Absent \in Content
      BY DEF Content
    <3>3. files' \in [Files -> Content]
      BY <2>3, <3>1, <3>2, <1>t DEF TypeOK
    <3>4. call' \in [Procs -> Calls]
      BY <2>3, <1>t, Moved DEF TypeOK, Writing
    <3> QED
      BY <2>3, <3>3, <3>4, <1>t DEF TypeOK
  <2> QED
    BY <1>4, <2>1, <2>2, <2>3 DEF Install
<1>5. ASSUME NEW p \in Procs, Discard(p) PROVE TypeOK'
  <2>1. files' \in [Files -> Content]
    BY <1>5, <1>t DEF Discard, TypeOK, Content
  <2>2. PICK r \in Answered : Finish(p, r)
    BY <1>5 DEF Discard, Answered
  <2> QED
    BY <2>1, <2>2, <1>t, FinishTyped DEF TypeOK
<1>6. ASSUME NEW p \in Procs, Return(p) PROVE TypeOK'
  BY <1>6, <1>t, NoCallTyped DEF Return, TypeOK
<1>7. ASSUME NEW p \in Procs, BeginRead(p) PROVE TypeOK'
  BY <1>7, <1>t, NoCallTyped DEF BeginRead, TypeOK, Calls
<1>8. ASSUME NEW p \in Procs, EndRead(p) PROVE TypeOK'
  BY <1>8, <1>t, NoCallTyped DEF EndRead, TypeOK
<1>9. ASSUME NEW p \in Procs, NEW n \in Names, ReadRecord(p, n) PROVE TypeOK'
  <2> DEFINE seen == [call[p].seen EXCEPT ![n] = files[n]]
  <2>a. call[p] \in Calls /\ seen \in [Names -> Content \cup {None}]
    BY <1>t DEF TypeOK, Calls, Files
  <2>b. [call[p] EXCEPT !.seen[n] = files[n]] = [call[p] EXCEPT !.seen = seen]
    OBVIOUS
  <2> HIDE DEF seen
  <2>1. [call[p] EXCEPT !.seen[n] = files[n]] \in Calls
    BY <2>a, <2>b DEF Calls
  <2> QED
    BY <1>9, <1>t, <2>1 DEF ReadRecord, TypeOK
<1>10. ASSUME NEW p \in Procs, Crash(p) PROVE TypeOK'
  BY <1>10, <1>t, NoCallTyped DEF Crash, TypeOK
<1>11. CASE UNCHANGED vars
  BY <1>11, <1>t DEF TypeOK, vars
<1> QED
  BY <1>1, <1>2, <1>3, <1>4, <1>5, <1>6, <1>7, <1>8, <1>9, <1>10, <1>11 DEF Next

-----------------------------------------------------------------------------
(* Only the holder of the lock is inside an operation. *)

LEMMA FinishHolding ==
  ASSUME TypeOK, Holding, NEW p \in Procs, opLock = p, NEW r \in Answered, Finish(p, r)
  PROVE  Holding'
<1>1. call'[p].step = r
  BY DEF Finish, TypeOK, Answer, NoCall
<1>2. \A q \in Procs \ {p} : call'[q] = call[q]
  BY DEF Finish, TypeOK
<1> QED
  BY <1>1, <1>2, StoreConstants DEF Holding, Finish, Answered, Writing

(* The lock is taken by who enters an operation and returned by who leaves. *)
LEMMA HoldingStep == IInv /\ [Next]_vars => Holding'
<1> SUFFICES ASSUME IInv, [Next]_vars PROVE Holding'
  OBVIOUS
<1> USE StoreConstants
<1>t. TypeOK /\ Holding
  BY DEF IInv
<1>g. ASSUME NEW p \in Procs, NEW F, opLock = p, GiveUp(p, F) PROVE Holding'
  BY <1>g, <1>t, FinishHolding DEF GiveUp, Answered
<1>1. ASSUME NEW p \in Procs, NEW n \in Names, NEW d \in Docs, BeginWrite(p, n, d) PROVE Holding'
  <2>1. \A q \in Procs \ {p} : call'[q] = call[q]
    BY <1>1, <1>t DEF BeginWrite, TypeOK
  <2>2. \/ call'[p].step = "err" /\ opLock' = opLock
        \/ call'[p].step = "fill" /\ opLock = None /\ opLock' = p
    <3>1. ASSUME NEW c, call' = [call EXCEPT ![p] = c]
          PROVE  call'[p] = c
      BY <1>t, <3>1 DEF TypeOK
    <3>2. /\ [NoCall EXCEPT !.step = "err", !.target = n, !.doc = d].step = "err"
          /\ \A t : [NoCall EXCEPT !.step = "fill", !.target = n, !.doc = d, !.temp = t].step
                    = "fill"
      BY DEF NoCall
    <3> QED
      BY <1>1, <3>1, <3>2 DEF BeginWrite
  <2>3. call[p].step = "idle"
    BY <1>1 DEF BeginWrite
  <2> QED
    BY <2>1, <2>2, <2>3, <1>t DEF Holding, Writing
<1>2. ASSUME NEW p \in Procs, Fill(p) PROVE Holding'
  <2>1. opLock = p
    BY <1>2, <1>t DEF Fill, Holding, Writing
  <2>2. CASE GiveUp(p, files)
    BY <2>1, <2>2, <1>g
  <2>3. CASE ~GiveUp(p, files)
    BY <1>2, <2>1, <2>3, <1>t DEF Fill, Holding, TypeOK, Calls, Writing
  <2> QED
    BY <2>2, <2>3
<1>3. ASSUME NEW p \in Procs, SetAside(p) PROVE Holding'
  <2>1. opLock = p
    BY <1>3, <1>t DEF SetAside, Holding, Writing
  <2>2. CASE GiveUp(p, files)
    BY <2>1, <2>2, <1>g
  <2>3. CASE ~GiveUp(p, files)
    BY <1>3, <2>1, <2>3, <1>t DEF SetAside, Holding, TypeOK, Calls, Writing
  <2> QED
    BY <2>2, <2>3
<1>4. ASSUME NEW p \in Procs, Install(p) PROVE Holding'
  <2>1. opLock = p
    BY <1>4, <1>t DEF Install, Holding, Writing
  <2>2. CASE GiveUp(p, files) \/ GiveUp(p, Restored(p))
    BY <2>1, <2>2, <1>g
  <2>3. CASE ~GiveUp(p, files) /\ ~GiveUp(p, Restored(p))
    BY <1>4, <2>1, <2>3, <1>t DEF Install, Holding, TypeOK, Calls, Writing
  <2> QED
    BY <2>2, <2>3
<1>5. ASSUME NEW p \in Procs, Discard(p) PROVE Holding'
  <2>1. opLock = p
    BY <1>5, <1>t DEF Discard, Holding, Writing
  <2>2. PICK r \in Answered : Finish(p, r)
    BY <1>5 DEF Discard, Answered
  <2> QED
    BY <2>1, <2>2, <1>t, FinishHolding
<1>6. ASSUME NEW p \in Procs, Return(p) PROVE Holding'
  BY <1>6, <1>t DEF Return, Holding, TypeOK, NoCall, Answered, Writing
<1>7. ASSUME NEW p \in Procs, BeginRead(p) PROVE Holding'
  BY <1>7, <1>t DEF BeginRead, Holding, TypeOK, NoCall, Writing
<1>8. ASSUME NEW p \in Procs, EndRead(p) PROVE Holding'
  BY <1>8, <1>t DEF EndRead, Holding, TypeOK, NoCall, Writing
<1>9. ASSUME NEW p \in Procs, NEW n \in Names, ReadRecord(p, n) PROVE Holding'
  <2>1. \A q \in Procs : call'[q].step = call[q].step
    BY <1>9, <1>t DEF ReadRecord, TypeOK, Calls
  <2> QED
    BY <1>9, <2>1, <1>t DEF ReadRecord, Holding
<1>10. ASSUME NEW p \in Procs, Crash(p) PROVE Holding'
  BY <1>10, <1>t DEF Crash, Holding, TypeOK, NoCall, Writing
<1>11. CASE UNCHANGED vars
  BY <1>11, <1>t DEF Holding, vars
<1> QED
  BY <1>1, <1>2, <1>3, <1>4, <1>5, <1>6, <1>7, <1>8, <1>9, <1>10, <1>11 DEF Next

-----------------------------------------------------------------------------
(* The files of a write are what its steps left there. *)

Sound(p) == WriteShape(p) /\ ReadsAgree(p)

LEMMA Alone ==
  ASSUME IInv, NEW p \in Procs, call[p].step \in Writing, NEW q \in Procs \ {p}
  PROVE  call[q].step \notin Writing \cup {"reading"}
  BY DEF IInv, Holding

LEMMA EndedSound ==
  ASSUME IInv, NEW p \in Procs, call[p].step \in Writing, NEW r \in Answered, Finish(p, r)
  PROVE  \A q \in Procs : Sound(q)'
<1>1. call'[p].step = r
  BY DEF Finish, Answer, NoCall, IInv, TypeOK
<1>2. \A q \in Procs \ {p} : call'[q] = call[q]
  BY DEF Finish, IInv, TypeOK
<1>3. \A q \in Procs : call'[q].step \notin Writing \cup {"reading"}
  BY <1>1, <1>2, Alone DEF Answered, Writing
<1> QED
  BY <1>3 DEF Sound, WriteShape, ReadsAgree, Writing

(* What the writer has established, and what readers have seen, stays true:
   only the holder of the lock changes files.                               *)
LEMMA ContentStep == IInv /\ [Next]_vars => WholeRecords' /\ \A q \in Procs : Sound(q)'
<1> SUFFICES ASSUME IInv, [Next]_vars PROVE WholeRecords' /\ \A q \in Procs : Sound(q)'
  OBVIOUS
<1> USE StoreConstants
<1>t. /\ TypeOK /\ Holding /\ WholeRecords
      /\ \A q \in Procs : Sound(q)
  BY DEF IInv, Sound
<1>f. /\ \A n \in Names : n \in Files /\ n \notin Temporaries /\ n \notin Backups
      /\ \A f \in Temporaries : f \in Files /\ f \notin Names /\ f \notin Backups
      /\ \A f \in Backups : f \in Files /\ f \notin Names /\ f \notin Temporaries
      /\ None \notin Files
  BY DEF Files
<1>d. \A d \in Docs : d # Torn /\ d # Absent
  OBVIOUS
<1>w. ASSUME NEW p \in Procs, call[p].step \in Writing
      PROVE  /\ call[p].target \in Names /\ call[p].doc \in Docs /\ call[p].temp \in Temporaries
             /\ call[p].backup # None => call[p].backup \in Backups
             /\ files \in [Files -> Content]
  BY <1>w, <1>t DEF Sound, WriteShape, TypeOK, Calls
<1>g. ASSUME NEW p \in Procs, call[p].step \in Writing, NEW F \in [Files -> Content],
             \A n \in Names : F[n] # Torn, GiveUp(p, F)
      PROVE  WholeRecords' /\ \A q \in Procs : Sound(q)'
  <2>1. \A n \in Names : files'[n] # Torn
    BY <1>g, <1>f, <1>w DEF GiveUp
  <2>2. Finish(p, "err") /\ "err" \in Answered
    BY <1>g DEF GiveUp, Answered
  <2> QED
    BY <2>1, <2>2, <1>g, EndedSound DEF WholeRecords
<1>1. ASSUME NEW p \in Procs, NEW n \in Names, NEW d \in Docs, BeginWrite(p, n, d)
      PROVE  WholeRecords' /\ \A q \in Procs : Sound(q)'
  <2>1. \A q \in Procs \ {p} : call'[q] = call[q]
    BY <1>1, <1>t DEF BeginWrite, TypeOK
  <2>2. CASE UNCHANGED files /\ call'[p].step = "err"
    BY <2>1, <2>2, <1>t DEF Sound, WholeRecords, WriteShape, ReadsAgree, Writing
  <2>3. CASE /\ opLock = None
             /\ \E t \in Free(Temporaries) :
                  /\ files' = [files EXCEPT ![t] = Torn]
                  /\ call' = [call EXCEPT ![p] =
                       [NoCall EXCEPT !.step = "fill", !.target = n, !.doc = d, !.temp = t]]
    <3>1. PICK t \in Temporaries :
             /\ files' = [files EXCEPT ![t] = Torn]
             /\ call' = [call EXCEPT ![p] =
                  [NoCall EXCEPT !.step = "fill", !.target = n, !.doc = d, !.temp = t]]
      BY <2>3 DEF Free
    <3>2. WholeRecords'
      BY <3>1, <1>t, <1>f DEF WholeRecords, TypeOK
    <3>3. call'[p] = [NoCall EXCEPT !.step = "fill", !.target = n, !.doc = d, !.temp = t]
      BY <3>1, <1>t DEF TypeOK
    <3>4. \A q \in Procs \ {p} : call[q].step \notin Writing \cup {"reading"}
      BY <2>3, <1>t DEF Holding
    <3>5. Sound(p)'
      BY <3>3 DEF Sound, WriteShape, ReadsAgree, NoCall, Writing
    <3>6. \A q \in Procs \ {p} : Sound(q)'
      BY <2>1, <3>4 DEF Sound, WriteShape, ReadsAgree, Writing
    <3> QED
      BY <3>2, <3>5, <3>6
  <2>4. \/ UNCHANGED files /\ call' = [call EXCEPT ![p] = [NoCall EXCEPT !.step = "err", !.target = n, !.doc = d]]
        \/ /\ opLock = None
           /\ \E t \in Free(Temporaries) :
                /\ files' = [files EXCEPT ![t] = Torn]
                /\ call' = [call EXCEPT ![p] =
                     [NoCall EXCEPT !.step = "fill", !.target = n, !.doc = d, !.temp = t]]
    BY <1>1 DEF BeginWrite
  <2>5. ASSUME call' = [call EXCEPT ![p] = [NoCall EXCEPT !.step = "err", !.target = n, !.doc = d]]
        PROVE  call'[p].step = "err"
    BY <2>5, <1>t DEF TypeOK, NoCall
  <2> QED
    BY <2>2, <2>3, <2>4, <2>5
<1>2. ASSUME NEW p \in Procs, Fill(p) PROVE WholeRecords' /\ \A q \in Procs : Sound(q)'
  <2>0. call[p].step = "fill" /\ call[p].step \in Writing
    BY <1>2 DEF Fill, Writing
  <2>1. CASE GiveUp(p, files)
    BY <2>0, <2>1, <1>g, <1>t DEF TypeOK, WholeRecords
  <2>2. CASE /\ files' = [files EXCEPT ![call[p].temp] = call[p].doc]
             /\ call' = [call EXCEPT ![p].step = "set_aside"]
    <3>1. WholeRecords'
      BY <2>0, <2>2, <1>t, <1>f, <1>w DEF WholeRecords
    <3>2. call'[p] = [call[p] EXCEPT !.step = "set_aside"]
      BY <2>2, <1>t DEF TypeOK
    <3>3. files'[call[p].temp] = call[p].doc
      BY <2>0, <2>2, <1>w, <1>f
    <3>4. Sound(p)'
      BY <2>0, <3>2, <3>3, <1>w, <1>t DEF Sound, WriteShape, ReadsAgree, Writing, TypeOK, Calls
    <3>5. \A q \in Procs \ {p} : Sound(q)'
      BY <2>0, <2>2, <1>t, Alone DEF Sound, WriteShape, ReadsAgree, Writing, TypeOK
    <3> QED
      BY <3>1, <3>4, <3>5
  <2> QED
    BY <1>2, <2>1, <2>2 DEF Fill
<1>3. ASSUME NEW p \in Procs, SetAside(p) PROVE WholeRecords' /\ \A q \in Procs : Sound(q)'
  <2>0. call[p].step = "set_aside" /\ call[p].step \in Writing
    BY <1>3 DEF SetAside, Writing
  <2>a. /\ call[p].backup = None /\ files[call[p].temp] = call[p].doc
    BY <2>0, <1>t DEF Sound, WriteShape
  <2>1. CASE GiveUp(p, files)
    BY <2>0, <2>1, <1>g, <1>t DEF TypeOK, WholeRecords
  <2>2. CASE /\ call' = [call EXCEPT ![p].step = "install"]
             /\ UNCHANGED files
    <3>2. call'[p] = [call[p] EXCEPT !.step = "install"]
      BY <2>2, <1>t DEF TypeOK
    <3>4. Sound(p)'
      BY <2>0, <2>2, <2>a, <3>2, <1>w, <1>t DEF Sound, WriteShape, ReadsAgree, Writing, TypeOK, Calls
    <3>5. \A q \in Procs \ {p} : Sound(q)'
      BY <2>0, <2>2, <1>t, Alone DEF Sound, WriteShape, ReadsAgree, Writing, TypeOK
    <3> QED
      BY <2>2, <3>4, <3>5, <1>t DEF WholeRecords
  <2>3. CASE /\ files[call[p].target] # Absent
             /\ \E b \in Free(Backups) :
                  /\ files' = [files EXCEPT ![b] = files[call[p].target], ![call[p].target] = Absent]
                  /\ call' = [call EXCEPT ![p].step = "install", ![p].backup = b]
    <3>1. PICK b \in Backups :
             /\ files' = [files EXCEPT ![b] = files[call[p].target], ![call[p].target] = Absent]
             /\ call' = [call EXCEPT ![p].step = "install", ![p].backup = b]
      BY <2>3 DEF Free
    <3>2. call'[p] = [call[p] EXCEPT !.step = "install", !.backup = b]
      BY <3>1, <1>t DEF TypeOK
    <3>3. files[call[p].target] \in Docs
      BY <2>0, <2>3, <1>w, <1>t, <1>f DEF WholeRecords, Content
    <3>4. /\ files'[b] = files[call[p].target] /\ files'[call[p].target] = Absent
          /\ files'[call[p].temp] = files[call[p].temp]
      BY <2>0, <3>1, <1>w, <1>f
    <3>5. WholeRecords'
      BY <2>0, <3>1, <1>w, <1>t, <1>f DEF WholeRecords
    <3>6. Sound(p)'
      BY <2>0, <2>a, <3>2, <3>3, <3>4, <1>w, <1>t, <1>f DEF Sound, WriteShape, ReadsAgree, Writing, TypeOK, Calls
    <3>7. \A q \in Procs \ {p} : Sound(q)'
      BY <2>0, <3>1, <1>t, Alone DEF Sound, WriteShape, ReadsAgree, Writing, TypeOK
    <3> QED
      BY <3>5, <3>6, <3>7
  <2> QED
    BY <1>3, <2>1, <2>2, <2>3 DEF SetAside
<1>4. ASSUME NEW p \in Procs, Install(p) PROVE WholeRecords' /\ \A q \in Procs : Sound(q)'
  <2>0. call[p].step = "install" /\ call[p].step \in Writing
    BY <1>4 DEF Install, Writing
  <2>a. /\ files[call[p].temp] = call[p].doc
        /\ call[p].backup # None => files[call[p].backup] \in Docs
    BY <2>0, <1>t DEF Sound, WriteShape
  <2>1. CASE GiveUp(p, files)
    BY <2>0, <2>1, <1>g, <1>t DEF TypeOK, WholeRecords
  <2>2. CASE GiveUp(p, Restored(p))
    <3>1. Restored(p) \in [Files -> Content]
      BY <2>0, <1>w, <1>f, <1>t DEF Restored, TypeOK, Content
    <3>2. \A n \in Names : Restored(p)[n] # Torn
      BY <2>0, <2>a, <1>w, <1>f, <1>d, <1>t DEF Restored, WholeRecords
    <3> QED
      BY <2>0, <2>2, <3>1, <3>2, <1>g
  <2>3. CASE /\ files' = [files EXCEPT ![call[p].target] = files[call[p].temp],
                                      ![call[p].temp] = Absent]
             /\ call' = [call EXCEPT ![p].step = "discard"]
    <3>1. call'[p] = [call[p] EXCEPT !.step = "discard"]
      BY <2>3, <1>t DEF TypeOK
    <3>2. files'[call[p].target] = call[p].doc
      BY <2>0, <2>3, <2>a, <1>w, <1>f
    <3>3. WholeRecords'
      BY <2>0, <2>3, <2>a, <1>w, <1>t, <1>f, <1>d DEF WholeRecords
    <3>4. Sound(p)'
      BY <2>0, <3>1, <3>2, <1>w, <1>t DEF Sound, WriteShape, ReadsAgree, Writing, TypeOK, Calls
    <3>5. \A q \in Procs \ {p} : Sound(q)'
      BY <2>0, <2>3, <1>t, Alone DEF Sound, WriteShape, ReadsAgree, Writing, TypeOK
    <3> QED
      BY <3>3, <3>4, <3>5
  <2> QED
    BY <1>4, <2>1, <2>2, <2>3 DEF Install
<1>5. ASSUME NEW p \in Procs, Discard(p) PROVE WholeRecords' /\ \A q \in Procs : Sound(q)'
  <2>0. call[p].step \in Writing
    BY <1>5 DEF Discard, Writing
  <2>1. WholeRecords'
    BY <2>0, <1>5, <1>w, <1>f, <1>t DEF Discard, WholeRecords
  <2>2. PICK r \in Answered : Finish(p, r)
    BY <1>5 DEF Discard, Answered
  <2> QED
    BY <2>0, <2>1, <2>2, EndedSound
<1>6. ASSUME NEW p \in Procs, Return(p) \/ EndRead(p) \/ Crash(p)
      PROVE  WholeRecords' /\ \A q \in Procs : Sound(q)'
  <2>1. UNCHANGED files /\ call' = [call EXCEPT ![p] = NoCall]
    BY <1>6 DEF Return, EndRead, Crash
  <2> QED
    BY <2>1, <1>t DEF Sound, WholeRecords, WriteShape, ReadsAgree, Writing, TypeOK, NoCall
<1>7. ASSUME NEW p \in Procs, BeginRead(p) PROVE WholeRecords' /\ \A q \in Procs : Sound(q)'
  <2>1. UNCHANGED files /\ call' = [call EXCEPT ![p] = [NoCall EXCEPT !.step = "reading"]]
    BY <1>7 DEF BeginRead
  <2> QED
    BY <2>1, <1>t DEF Sound, WholeRecords, WriteShape, ReadsAgree, Writing, TypeOK, NoCall
<1>8. ASSUME NEW p \in Procs, NEW n \in Names, ReadRecord(p, n)
      PROVE  WholeRecords' /\ \A q \in Procs : Sound(q)'
  <2>1. UNCHANGED files /\ call' = [call EXCEPT ![p].seen[n] = files[n]]
    BY <1>8 DEF ReadRecord
  <2>2. call[p].step = "reading"
    BY <1>8 DEF ReadRecord
  <2>3. Sound(p)'
    BY <2>1, <2>2, <1>t DEF Sound, WriteShape, ReadsAgree, Writing, TypeOK, Calls
  <2>4. \A q \in Procs \ {p} : Sound(q)'
    BY <2>1, <1>t DEF Sound, WriteShape, ReadsAgree, Writing, TypeOK
  <2> QED
    BY <2>1, <2>3, <2>4, <1>t DEF WholeRecords
<1>9. CASE UNCHANGED vars
  BY <1>9, <1>t DEF vars, Sound, WholeRecords, WriteShape, ReadsAgree
<1> QED
  BY <1>1, <1>2, <1>3, <1>4, <1>5, <1>6, <1>7, <1>8, <1>9 DEF Next

-----------------------------------------------------------------------------
(* The invariant holds of every instance, whatever fails and wherever a    *)
(* process dies.                                                           *)
LEMMA IInvInit == Init => IInv
  BY TypeInit, StoreConstants
  DEF Init, IInv, Holding, WholeRecords, WriteShape, ReadsAgree, NoCall, Writing, Files

(* The conjuncts above are inductive together. *)
LEMMA IInvStep == IInv /\ [Next]_vars => IInv'
  BY TypeStep, HoldingStep, ContentStep DEF IInv, Sound

(* The invariant of lock_operation and of the steps of write_json_atomic. *)
THEOREM Invariance == Spec => []IInv
  BY IInvInit, IInvStep, PTL DEF Spec

(* Every reachable state of every instance is typed. *)
THEOREM Typing == Spec => []TypeOK
<1>1. IInv => TypeOK
  BY DEF IInv
<1> QED
  BY <1>1, Invariance, PTL

(* A read transaction sees one state of the records, also when processes   *)
(* die while they write.                                                   *)
THEOREM ConsistentReads == Spec => []TransactionIsSnapshot
<1>1. IInv => TransactionIsSnapshot
  <2> SUFFICES ASSUME IInv, NEW p \in Procs, NEW n \in Names,
                      call[p].step = "reading", call[p].seen[n] # None
               PROVE  call[p].seen[n] = Record(n)
    BY DEF TransactionIsSnapshot
  <2>1. opLock = p
    BY DEF IInv, Holding
  <2>2. ~SetAsideBy(opLock, n)
    BY <2>1 DEF SetAsideBy
  <2> QED
    BY <2>2 DEF IInv, ReadsAgree, Record
<1> QED
  BY <1>1, Invariance, PTL

-----------------------------------------------------------------------------
(* PrivateState implements RecordStore. *)

(* Replacing a record is not atomic if a process may die between the two   *)
(* renames, or if a rollback may fail.                                     *)
Survivable == ~TornWrites /\ "restore" \notin Faults

Shown == [n \in Names |-> Record(n)]
Requests == [p \in Procs |-> Request(call[p])]

LEMMA RequestsChange ==
  ASSUME TypeOK, NEW p \in Procs, NEW c, call' = [call EXCEPT ![p] = c]
  PROVE  Requests' = [Requests EXCEPT ![p] = Request(c)]
<1>1. \A q \in Procs : call'[q] = IF q = p THEN c ELSE call[q]
  BY DEF TypeOK
<1>2. \A q \in Procs :
        Request(call'[q]) = IF q = p THEN Request(c) ELSE Request(call[q])
  BY <1>1
<1>3. Requests' = [q \in Procs |-> IF q = p THEN Request(c) ELSE Request(call[q])]
  BY <1>2 DEF Requests
<1> QED
  BY <1>3 DEF Requests

(* the holder of the lock decides which record is set aside *)
LEMMA RecordOf ==
  /\ \A p \in Procs, n \in Names : opLock = p =>
       Record(n) = IF SetAsideBy(p, n) THEN files[call[p].backup] ELSE files[n]
  /\ \A n \in Names : opLock = None => Record(n) = files[n]
  BY StoreConstants DEF Record

LEMMA RecordAfter ==
  /\ \A p \in Procs, n \in Names : opLock' = p =>
       Record(n)' = IF SetAsideBy(p, n)' THEN files'[call'[p].backup] ELSE files'[n]
  /\ \A n \in Names : opLock' = None => Record(n)' = files'[n]
  BY StoreConstants DEF Record, SetAsideBy

(* a step of a process that stays outside changes no record *)
LEMMA RecordsKept ==
  ASSUME IInv, NEW p \in Procs, UNCHANGED <<files, opLock>>,
         \A q \in Procs \ {p} : call'[q] = call[q],
         call[p].step # "install", call'[p].step # "install"
  PROVE  Shown' = Shown
<1>1. ASSUME NEW n \in Names PROVE Record(n)' = Record(n)
  <2>1. CASE opLock \in Procs
    BY <2>1 DEF Record, SetAsideBy
  <2>2. CASE opLock \notin Procs
    BY <2>2 DEF Record, SetAsideBy
  <2> QED
    BY <2>1, <2>2
<1> QED
  BY <1>1 DEF Shown

LEMMA GiveUpFails ==
  ASSUME IInv, NEW p \in Procs, call[p].step \in {"fill", "set_aside", "install"},
         NEW F \in [Files -> Content], GiveUp(p, F), \A n \in Names : F[n] = Record(n)
  PROVE  Shown' = Shown /\ Requests' = [Requests EXCEPT ![p].at = "err"]
<1>t. TypeOK
  BY DEF IInv
<1>1. opLock' = None /\ call' = [call EXCEPT ![p] = Answer(p, "err")]
  BY DEF GiveUp, Finish
<1>2. \A n \in Names : files'[n] = F[n]
  <2>1. call[p].temp \in Temporaries
    BY DEF IInv, WriteShape, Writing
  <2> QED
    BY <2>1, StoreConstants DEF GiveUp, Files
<1>3. Shown' = Shown
  BY <1>1, <1>2, RecordAfter DEF Shown
<1>4. Requests' = [Requests EXCEPT ![p] = Request(Answer(p, "err"))]
  BY <1>1, <1>t, RequestsChange
<1>5. Request(Answer(p, "err")) = [at |-> "err", name |-> call[p].target, doc |-> call[p].doc]
  BY DEF Request, Stage, Answer, NoCall
<1>6. Requests[p] = [at |-> "asked", name |-> call[p].target, doc |-> call[p].doc]
  BY DEF Requests, Request, Stage
<1>7. [Requests[p] EXCEPT !.at = "err"] = Request(Answer(p, "err"))
  BY <1>5, <1>6
<1>8. [Requests EXCEPT ![p].at = "err"] = [Requests EXCEPT ![p] = [Requests[p] EXCEPT !.at = "err"]]
  BY DEF Requests
<1> QED
  BY <1>3, <1>4, <1>7, <1>8

(* a step of p that keeps the records and moves its request to stage *)
LEMMA Advances ==
  ASSUME TypeOK, NEW p \in Procs, NEW c, call' = [call EXCEPT ![p] = c], NEW stage,
         Request(c) = [Requests[p] EXCEPT !.at = stage]
  PROVE  Requests' = [Requests EXCEPT ![p].at = stage]
<1>1. Requests' = [Requests EXCEPT ![p] = Request(c)]
  BY RequestsChange
<1>2. [Requests EXCEPT ![p].at = stage] = [Requests EXCEPT ![p] = [Requests[p] EXCEPT !.at = stage]]
  BY DEF Requests
<1> QED
  BY <1>1, <1>2

(* a step of p that keeps its request *)
LEMMA Stutters ==
  ASSUME TypeOK, NEW p \in Procs, NEW c, call' = [call EXCEPT ![p] = c],
         Request(c) = Request(call[p])
  PROVE  Requests' = Requests
<1>1. Requests' = [Requests EXCEPT ![p] = Request(c)]
  BY RequestsChange
<1> QED
  BY <1>1 DEF Requests

(* Each step of the store is a step of the atomic registers or a stutter. *)
LEMMA Simulation ==
  ASSUME Survivable, IInv, [Next]_vars
  PROVE  [Registers!Next]_<<Shown, Requests>>
<1> DEFINE Quiet == [at |-> "none", name |-> Absent, doc |-> Absent]
           Abstract == [Registers!Next]_<<Shown, Requests>>
<1> USE StoreConstants
<1>t. TypeOK /\ Holding /\ \A p \in Procs : WriteShape(p)
  BY DEF IInv
<1>s. UNCHANGED <<Shown, Requests>> => Abstract
  OBVIOUS
<1>n. ASSUME NEW p \in Procs,
             \/ \E n \in Names, d \in Docs : Registers!Ask(p, n, d) \/ Registers!Refuse(p, n, d)
             \/ Registers!Install(p) \/ Registers!Confirm(p) \/ Registers!Fail(p)
             \/ Registers!Return(p) \/ Registers!Crash(p)
      PROVE  Abstract
  BY <1>n DEF Registers!Next
<1>h. ASSUME NEW p \in Procs, call[p].step \in Writing PROVE opLock = p
  BY <1>h, <1>t DEF Holding
<1>g. ASSUME NEW p \in Procs, call[p].step \in {"fill", "set_aside", "install"},
             NEW F \in [Files -> Content], GiveUp(p, F), \A n \in Names : F[n] = Record(n)
      PROVE  Abstract
  <2>1. Shown' = Shown /\ Requests' = [Requests EXCEPT ![p].at = "err"]
    BY <1>g, GiveUpFails
  <2>2. Requests[p].at = "asked"
    BY <1>g DEF Requests, Request, Stage
  <2>3. Registers!Fail(p)
    BY <2>1, <2>2 DEF Registers!Fail, Registers!Advance, Registers!Pending, Requests, Shown
  <2> QED
    BY <2>3, <1>n
<1>1. ASSUME NEW p \in Procs, NEW n \in Names, NEW d \in Docs, BeginWrite(p, n, d)
      PROVE  Abstract
  <2>0. call[p].step = "idle" /\ Requests[p] = Quiet
    BY <1>1 DEF BeginWrite, Requests, Request, Stage
  <2>1. CASE /\ call' = [call EXCEPT ![p] = [NoCall EXCEPT !.step = "err", !.target = n, !.doc = d]]
             /\ UNCHANGED <<files, opLock>>
    <3> DEFINE c == [NoCall EXCEPT !.step = "err", !.target = n, !.doc = d]
    <3>1. Request(c) = [at |-> "err", name |-> n, doc |-> d]
      BY DEF Request, Stage, NoCall
    <3>2. Requests' = [Requests EXCEPT ![p] = [at |-> "err", name |-> n, doc |-> d]]
      BY <2>1, <3>1, <1>t, RequestsChange
    <3>3. Shown' = Shown
      <4>1. call'[p].step = "err" /\ \A q \in Procs \ {p} : call'[q] = call[q]
        BY <2>1, <1>t DEF TypeOK, NoCall
      <4> QED
        BY <4>1, <2>0, <2>1, RecordsKept
    <3>4. Registers!Refuse(p, n, d)
      BY <2>0, <3>2, <3>3 DEF Registers!Refuse, Registers!Quiet, Registers!Asking, Requests, Shown
    <3> QED
      BY <3>4, <1>n
  <2>2. CASE /\ opLock = None
             /\ \E t \in Free(Temporaries) :
                  /\ files' = [files EXCEPT ![t] = Torn]
                  /\ call' = [call EXCEPT ![p] =
                       [NoCall EXCEPT !.step = "fill", !.target = n, !.doc = d, !.temp = t]]
             /\ opLock' = p
    <3>1. PICK t \in Temporaries :
             /\ files' = [files EXCEPT ![t] = Torn]
             /\ call' = [call EXCEPT ![p] =
                  [NoCall EXCEPT !.step = "fill", !.target = n, !.doc = d, !.temp = t]]
      BY <2>2 DEF Free
    <3> DEFINE c == [NoCall EXCEPT !.step = "fill", !.target = n, !.doc = d, !.temp = t]
    <3>2. Request(c) = [at |-> "asked", name |-> n, doc |-> d]
      BY DEF Request, Stage, NoCall
    <3>3. Requests' = [Requests EXCEPT ![p] = [at |-> "asked", name |-> n, doc |-> d]]
      BY <3>1, <3>2, <1>t, RequestsChange
    <3>4. Shown' = Shown
      <4>1. call'[p].step = "fill"
        BY <3>1, <1>t DEF TypeOK, NoCall
      <4>2. ASSUME NEW m \in Names PROVE Record(m)' = Record(m)
        <5>1. files'[m] = files[m]
          BY <3>1, <1>t DEF TypeOK, Files
        <5>2. Record(m) = files[m]
          BY <2>2, RecordOf
        <5>3. Record(m)' = files'[m]
          BY <2>2, <4>1, RecordAfter DEF SetAsideBy
        <5> QED
          BY <5>1, <5>2, <5>3
      <4> QED
        BY <4>2 DEF Shown
    <3>5. Registers!Ask(p, n, d)
      BY <2>0, <3>3, <3>4 DEF Registers!Ask, Registers!Quiet, Registers!Asking, Requests, Shown
    <3> QED
      BY <3>5, <1>n
  <2> QED
    BY <1>1, <2>1, <2>2 DEF BeginWrite
<1>2. ASSUME NEW p \in Procs, Fill(p) PROVE Abstract
  <2>0. /\ call[p].step = "fill" /\ opLock = p /\ call[p].temp \in Temporaries
        /\ \A n \in Names : Record(n) = files[n]
    <3>1. call[p].step = "fill" /\ call[p].step \in Writing
      BY <1>2 DEF Fill, Writing
    <3> QED
      BY <3>1, <1>h, <1>t, RecordOf DEF SetAsideBy, WriteShape
  <2>1. CASE GiveUp(p, files)
    BY <2>0, <2>1, <1>g, <1>t DEF TypeOK
  <2>2. CASE /\ files' = [files EXCEPT ![call[p].temp] = call[p].doc]
             /\ call' = [call EXCEPT ![p].step = "set_aside"]
             /\ UNCHANGED opLock
    <3>1. call' = [call EXCEPT ![p] = [call[p] EXCEPT !.step = "set_aside"]]
      BY <2>2
    <3>2. Request([call[p] EXCEPT !.step = "set_aside"]) = Request(call[p])
      BY <2>0, <1>t DEF Request, Stage, TypeOK, Calls
    <3>3. Requests' = Requests
      BY <3>1, <3>2, <1>t, Stutters
    <3>4. ASSUME NEW n \in Names PROVE Record(n)' = Record(n)
      <4>1. call'[p].step = "set_aside"
        BY <2>2, <1>t DEF TypeOK, Calls
      <4>2. Record(n)' = files'[n]
        BY <2>0, <2>2, <4>1, RecordAfter DEF SetAsideBy
      <4>3. files'[n] = files[n]
        BY <2>0, <2>2, <1>t DEF TypeOK, Files
      <4> QED
        BY <2>0, <4>2, <4>3
    <3> QED
      BY <3>3, <3>4, <1>s DEF Shown
  <2> QED
    BY <1>2, <2>1, <2>2 DEF Fill
<1>3. ASSUME NEW p \in Procs, SetAside(p) PROVE Abstract
  <2>0. /\ call[p].step = "set_aside" /\ opLock = p
        /\ call[p].target \in Names /\ call[p].backup = None
        /\ \A n \in Names : Record(n) = files[n]
    <3>1. call[p].step = "set_aside" /\ call[p].step \in Writing
      BY <1>3 DEF SetAside, Writing
    <3> QED
      BY <3>1, <1>h, <1>t, RecordOf DEF SetAsideBy, WriteShape
  <2>1. CASE GiveUp(p, files)
    BY <2>0, <2>1, <1>g, <1>t DEF TypeOK
  <2>2. CASE /\ call' = [call EXCEPT ![p].step = "install"]
             /\ UNCHANGED <<files, opLock>>
    <3>1. call' = [call EXCEPT ![p] = [call[p] EXCEPT !.step = "install"]]
      BY <2>2
    <3>2. Request([call[p] EXCEPT !.step = "install"]) = Request(call[p])
      BY <2>0, <1>t DEF Request, Stage, TypeOK, Calls
    <3>3. Requests' = Requests
      BY <3>1, <3>2, <1>t, Stutters
    <3>4. ASSUME NEW n \in Names PROVE Record(n)' = Record(n)
      <4>1. call'[p].backup = None
        BY <2>0, <2>2, <1>t DEF TypeOK, Calls
      <4>2. Record(n)' = files'[n]
        BY <2>0, <2>2, <4>1, RecordAfter DEF SetAsideBy
      <4> QED
        BY <2>0, <2>2, <4>2
    <3> QED
      BY <3>3, <3>4, <1>s DEF Shown
  <2>3. CASE /\ \E b \in Free(Backups) :
                  /\ files' = [files EXCEPT ![b] = files[call[p].target], ![call[p].target] = Absent]
                  /\ call' = [call EXCEPT ![p].step = "install", ![p].backup = b]
             /\ UNCHANGED opLock
    <3>1. PICK b \in Backups :
             /\ files' = [files EXCEPT ![b] = files[call[p].target], ![call[p].target] = Absent]
             /\ call' = [call EXCEPT ![p].step = "install", ![p].backup = b]
      BY <2>3 DEF Free
    <3> DEFINE c == [call[p] EXCEPT !.step = "install", !.backup = b]
    <3>2. call' = [call EXCEPT ![p] = c]
      BY <3>1
    <3>3. Request(c) = Request(call[p])
      BY <2>0, <1>t DEF Request, Stage, TypeOK, Calls
    <3>4. Requests' = Requests
      BY <3>2, <3>3, <1>t, Stutters
    <3>5. ASSUME NEW n \in Names PROVE Record(n)' = Record(n)
      <4>1. /\ call'[p].step = "install" /\ call'[p].backup = b /\ b # None
            /\ call'[p].target = call[p].target
        BY <3>1, <1>t DEF TypeOK, Calls, Files
      <4>2. Record(n)' = IF n = call[p].target THEN files'[b] ELSE files'[n]
        <5>1. SetAsideBy(p, n)' <=> n = call[p].target
          BY <4>1 DEF SetAsideBy
        <5>2. opLock' = p
          BY <2>0, <2>3
        <5> QED
          BY <4>1, <5>1, <5>2, RecordAfter
      <4>3. /\ files'[b] = files[call[p].target]
            /\ n # call[p].target => files'[n] = files[n]
        BY <2>0, <3>1, <1>t DEF TypeOK, Files
      <4> QED
        BY <2>0, <4>2, <4>3
    <3> QED
      BY <3>4, <3>5, <1>s DEF Shown
  <2> QED
    BY <1>3, <2>1, <2>2, <2>3 DEF SetAside
<1>4. ASSUME NEW p \in Procs, Install(p) PROVE Abstract
  <2>0. /\ call[p].step = "install" /\ opLock = p
        /\ call[p].target \in Names /\ call[p].temp \in Temporaries
        /\ call[p].backup # None => call[p].backup \in Backups
        /\ files[call[p].temp] = call[p].doc
        /\ \A n \in Names :
             Record(n) = IF call[p].backup # None /\ n = call[p].target
                         THEN files[call[p].backup] ELSE files[n]
    <3>1. call[p].step = "install" /\ call[p].step \in Writing
      BY <1>4 DEF Install, Writing
    <3>2. opLock = p
      BY <3>1, <1>h
    <3>3. \A n \in Names :
             Record(n) = IF call[p].backup # None /\ n = call[p].target
                         THEN files[call[p].backup] ELSE files[n]
      BY <3>1, <3>2, RecordOf DEF SetAsideBy
    <3> QED
      BY <3>1, <3>2, <3>3, <1>t DEF WriteShape, TypeOK, Calls
  <2>1. CASE GiveUp(p, Restored(p))
    <3>1. Restored(p) \in [Files -> Content]
      BY <2>0, <1>t DEF Restored, TypeOK, Files, Content
    <3>2. ASSUME NEW n \in Names PROVE Restored(p)[n] = Record(n)
      BY <2>0, <1>t DEF Restored, TypeOK, Files
    <3> QED
      BY <2>0, <2>1, <3>1, <3>2, <1>g
  <2>2. CASE /\ files' = [files EXCEPT ![call[p].target] = files[call[p].temp],
                                      ![call[p].temp] = Absent]
             /\ call' = [call EXCEPT ![p].step = "discard"]
             /\ UNCHANGED opLock
    <3>1. call' = [call EXCEPT ![p] = [call[p] EXCEPT !.step = "discard"]]
      BY <2>2
    <3>2. Requests[p] = [at |-> "asked", name |-> call[p].target, doc |-> call[p].doc]
      BY <2>0 DEF Requests, Request, Stage
    <3>3. Request([call[p] EXCEPT !.step = "discard"]) = [Requests[p] EXCEPT !.at = "installed"]
      BY <3>2, <1>t DEF Request, Stage, TypeOK, Calls
    <3>4. Requests' = [Requests EXCEPT ![p].at = "installed"]
      BY <3>1, <3>3, <1>t, Advances
    <3>5. Shown' = [Shown EXCEPT ![call[p].target] = call[p].doc]
      <4>1. ASSUME NEW n \in Names
            PROVE  Record(n)' = IF n = call[p].target THEN call[p].doc ELSE Record(n)
        <5>1. call'[p].step = "discard"
          BY <2>2, <1>t DEF TypeOK, Calls
        <5>2. Record(n)' = files'[n]
          BY <2>0, <2>2, <5>1, RecordAfter DEF SetAsideBy
        <5>3. files'[n] = IF n = call[p].target THEN call[p].doc ELSE files[n]
          BY <2>0, <2>2, <1>t DEF TypeOK, Files
        <5> QED
          BY <2>0, <5>2, <5>3
      <4> QED
        BY <4>1 DEF Shown
    <3>6. Registers!Install(p)
      <4>1. /\ Requests[p].at = "asked"
            /\ Shown' = [Shown EXCEPT ![Requests[p].name] = Requests[p].doc]
        BY <3>2, <3>5
      <4> QED
        BY <3>4, <4>1 DEF Registers!Install, Registers!Advance, Requests, Shown
    <3> QED
      BY <3>6, <1>n
  <2>3. "restore" \notin Faults
    BY DEF Survivable
  <2> QED
    BY <1>4, <2>1, <2>2, <2>3 DEF Install
<1>5. ASSUME NEW p \in Procs, Discard(p) PROVE Abstract
  <2>0. /\ call[p].step = "discard" /\ opLock = p
        /\ call[p].backup # None => call[p].backup \in Backups
        /\ \A n \in Names : Record(n) = files[n]
    <3>1. call[p].step = "discard" /\ call[p].step \in Writing
      BY <1>5 DEF Discard, Writing
    <3> QED
      BY <3>1, <1>h, <1>t, RecordOf DEF SetAsideBy, TypeOK, Calls
  <2>1. PICK r \in Answered : Finish(p, r)
    BY <1>5 DEF Discard, Answered
  <2>2. \A n \in Names : files'[n] = files[n]
    BY <1>5, <2>0, <1>t DEF Discard, TypeOK, Files
  <2>3. Shown' = Shown
    <3>1. opLock' = None
      BY <2>1 DEF Finish
    <3> QED
      BY <2>0, <2>2, <3>1, RecordAfter DEF Shown
  <2>4. Requests[p] = [at |-> "installed", name |-> call[p].target, doc |-> call[p].doc]
    BY <2>0 DEF Requests, Request, Stage
  <2>5. Requests' = [Requests EXCEPT ![p].at = r]
    <3>1. call' = [call EXCEPT ![p] = Answer(p, r)]
      BY <2>1 DEF Finish
    <3>2. Request(Answer(p, r)) = [Requests[p] EXCEPT !.at = r]
      BY <2>4 DEF Request, Stage, Answer, NoCall, Answered
    <3> QED
      BY <3>1, <3>2, <1>t, Advances
  <2>6. Registers!Confirm(p) \/ Registers!Fail(p)
    <3>1. Requests[p].at = "installed"
      BY <2>4
    <3>2. CASE r = "ok"
      BY <2>3, <2>5, <3>1, <3>2 DEF Registers!Confirm, Registers!Advance, Requests, Shown
    <3>3. CASE r = "err"
      BY <2>3, <2>5, <3>1, <3>3
      DEF Registers!Fail, Registers!Advance, Registers!Pending, Requests, Shown
    <3> QED
      BY <3>2, <3>3 DEF Answered
  <2> QED
    BY <2>6, <1>n
<1>6. ASSUME NEW p \in Procs, Return(p) PROVE Abstract
  <2>1. /\ call[p].step \in Answered /\ UNCHANGED <<files, opLock>>
        /\ call' = [call EXCEPT ![p] = NoCall]
    BY <1>6 DEF Return
  <2>2. Shown' = Shown
    <3>1. call'[p].step = "idle" /\ \A q \in Procs \ {p} : call'[q] = call[q]
      BY <2>1, <1>t DEF TypeOK, NoCall
    <3> QED
      BY <2>1, <3>1, RecordsKept DEF Answered
  <2>3. Requests' = [Requests EXCEPT ![p] = Quiet]
    <3>1. Request(NoCall) = Quiet
      BY DEF Request, Stage, NoCall
    <3> QED
      BY <2>1, <3>1, <1>t, RequestsChange
  <2>4. Requests[p].at \in Answered
    BY <2>1 DEF Requests, Request, Stage, Answered
  <2>5. Registers!Return(p)
    BY <2>2, <2>3, <2>4
    DEF Registers!Return, Registers!Answer, Registers!Quiet, Answered, Requests, Shown
  <2> QED
    BY <2>5, <1>n
<1>7. ASSUME NEW p \in Procs,
             \/ BeginRead(p) \/ EndRead(p)
             \/ \E n \in Names : ReadRecord(p, n)
             \/ Crash(p) /\ call[p].step \notin Writing
      PROVE  Abstract
  <2>1. PICK c : /\ call' = [call EXCEPT ![p] = c]
                 /\ c.step \in {"idle", "reading"}
    <3>1. CASE \E n \in Names : ReadRecord(p, n)
      <4>1. PICK n \in Names : ReadRecord(p, n)
        BY <3>1
      <4> DEFINE d == [call[p] EXCEPT !.seen[n] = files[n]]
      <4>2. call' = [call EXCEPT ![p] = d] /\ call[p].step = "reading"
        BY <4>1 DEF ReadRecord
      <4>3. d.step = "reading"
        BY <4>2, <1>t DEF TypeOK, Calls
      <4> QED
        BY <4>2, <4>3
    <3>2. CASE BeginRead(p) \/ EndRead(p) \/ Crash(p)
      BY <1>7, <3>2 DEF BeginRead, EndRead, Crash, NoCall
    <3> QED
      BY <1>7, <3>1, <3>2
  <2>2. call[p].step \notin Writing /\ files' = files
    BY <1>7 DEF BeginRead, EndRead, ReadRecord, Crash, Writing
  <2>3. ASSUME NEW n \in Names PROVE Record(n)' = Record(n)
    <3>1. \A q \in Procs : SetAsideBy(q, n)' <=> (q # p /\ SetAsideBy(q, n))
      BY <2>1, <1>t DEF SetAsideBy, TypeOK
    <3>2. \/ opLock' = opLock
          \/ opLock \in {p, None} /\ opLock' \in {p, None}
      BY <1>7, <1>t DEF BeginRead, EndRead, ReadRecord, Crash, Holding
    <3>3. ~SetAsideBy(p, n)
      BY <2>2 DEF SetAsideBy, Writing
    <3>4. \A q \in Procs \ {p} : call'[q] = call[q]
      BY <2>1, <1>t DEF TypeOK
    <3>5. CASE opLock \in Procs \ {p}
      BY <2>2, <3>1, <3>2, <3>4, <3>5 DEF Record
    <3>6. CASE opLock \in {p, None}
      <4>1. opLock' \in {p, None}
        BY <3>2, <3>6
      <4>2. Record(n) = files[n]
        BY <3>3, <3>6 DEF Record
      <4>3. Record(n)' = files'[n]
        BY <3>1, <4>1 DEF Record, SetAsideBy
      <4> QED
        BY <2>2, <4>2, <4>3
    <3> QED
      BY <3>5, <3>6, <1>t DEF TypeOK
  <2>4. Requests' = [Requests EXCEPT ![p] = Quiet]
    BY <2>1, <1>t, RequestsChange DEF Request, Stage
  <2>5. Registers!Crash(p)
    BY <2>3, <2>4 DEF Registers!Crash, Registers!Quiet, Requests, Shown
  <2> QED
    BY <2>5, <1>n
<1>8. CASE UNCHANGED vars
  BY <1>8, <1>s DEF vars, Shown, Requests, Record, SetAsideBy, Request, Stage
<1>9. ASSUME NEW p \in Procs, Crash(p) PROVE call[p].step \notin Writing
  BY <1>9 DEF Crash, Survivable
<1> QED
  BY <1>1, <1>2, <1>3, <1>4, <1>5, <1>6, <1>7, <1>8, <1>9 DEF Next

(* Every step of a write is a step of an atomic register or none, whatever *)
(* file operation fails, if no process dies inside a write and a rollback  *)
(* succeeds.                                                               *)
THEOREM Implementation ==
  ASSUME Survivable
  PROVE  Spec => AtomicRecords
<1>1. Init => Registers!Init
  BY StoreConstants
  DEF Init, Registers!Init, Registers!Quiet, Record, SetAsideBy, Request, Stage, NoCall, Files
<1>2. IInv /\ [Next]_vars => [Registers!Next]_<<Shown, Requests>>
  BY Simulation
<1> QED
  BY <1>1, <1>2, Invariance, PTL DEF Spec, AtomicRecords, Registers!Spec, Shown, Requests

-----------------------------------------------------------------------------
(* Scratch files belong to the write of the lock's holder. *)

(* No process dies inside a write and no removal or rollback fails. *)
Removable == ~TornWrites /\ Faults \cap {"cleanup", "discard", "restore"} = {}

Tidy ==
  /\ \A f \in Temporaries : files[f] # Absent =>
       /\ opLock \in Procs /\ call[opLock].temp = f
       /\ call[opLock].step \in {"fill", "set_aside", "install"}
  /\ \A f \in Backups : files[f] # Absent =>
       /\ opLock \in Procs /\ call[opLock].backup = f
       /\ call[opLock].step \in {"install", "discard"}

Bare == \A f \in Temporaries \cup Backups : files[f] = Absent

(* Scratch files belong to the holder of the lock and go before it does. *)
LEMMA TidyStep ==
  ASSUME Removable, IInv, Tidy, [Next]_vars
  PROVE  Tidy'
<1> USE StoreConstants
<1>t. TypeOK /\ Holding /\ \A p \in Procs : WriteShape(p)
  BY DEF IInv
<1>f. /\ \A n \in Names : n \in Files /\ n \notin Temporaries /\ n \notin Backups
      /\ \A f \in Temporaries : f \in Files /\ f \notin Names /\ f \notin Backups
      /\ \A f \in Backups : f \in Files /\ f \notin Names /\ f \notin Temporaries
      /\ None \notin Files
  BY DEF Files
<1>r. /\ "cleanup" \notin Faults /\ "discard" \notin Faults /\ "restore" \notin Faults
      /\ ~TornWrites
  BY DEF Removable
<1>b. Bare' => Tidy'
  BY DEF Bare, Tidy
<1>o. ASSUME NEW p \in Procs, call[p].step \in Writing
      PROVE  /\ opLock = p /\ call[p].target \in Names /\ call[p].temp \in Temporaries
             /\ call[p].backup # None => call[p].backup \in Backups
             /\ files \in [Files -> Content]
  BY <1>o, <1>t DEF Holding, WriteShape, TypeOK, Calls
<1>g. ASSUME NEW p \in Procs, call[p].step \in Writing, NEW F \in [Files -> Content], GiveUp(p, F),
             \A f \in (Temporaries \cup Backups) \ {call[p].temp} : F[f] = Absent
      PROVE  Tidy'
  <2>1. files' = [F EXCEPT ![call[p].temp] = Absent]
    BY <1>g, <1>r DEF GiveUp
  <2>2. Bare'
    BY <2>1, <1>g, <1>o, <1>f DEF Bare
  <2> QED
    BY <2>2, <1>b
<1>1. ASSUME NEW p \in Procs, NEW n \in Names, NEW d \in Docs, BeginWrite(p, n, d) PROVE Tidy'
  <2>1. CASE UNCHANGED <<files, opLock>> /\ call' = [call EXCEPT ![p] =
               [NoCall EXCEPT !.step = "err", !.target = n, !.doc = d]]
    <3>1. opLock # p
      BY <1>1, <1>t DEF BeginWrite, Holding, Writing
    <3> QED
      BY <2>1, <3>1, <1>t DEF Tidy, TypeOK
  <2>2. CASE /\ opLock = None
             /\ \E t \in Free(Temporaries) :
                  /\ files' = [files EXCEPT ![t] = Torn]
                  /\ call' = [call EXCEPT ![p] =
                       [NoCall EXCEPT !.step = "fill", !.target = n, !.doc = d, !.temp = t]]
             /\ opLock' = p
    <3>1. PICK t \in Temporaries :
                  /\ files' = [files EXCEPT ![t] = Torn]
                  /\ call' = [call EXCEPT ![p] =
                       [NoCall EXCEPT !.step = "fill", !.target = n, !.doc = d, !.temp = t]]
      BY <2>2 DEF Free
    <3>2. \A f \in Temporaries \cup Backups : files[f] = Absent
      BY <2>2 DEF Tidy
    <3>3. call'[p].step = "fill" /\ call'[p].temp = t
      BY <3>1, <1>t DEF TypeOK, NoCall
    <3>4. \A f \in (Temporaries \cup Backups) \ {t} : files'[f] = Absent
      BY <3>1, <3>2, <1>f, <1>t DEF TypeOK
    <3>5. t \notin Backups
      BY <1>f
    <3> QED
      BY <2>2, <3>3, <3>4, <3>5 DEF Tidy
  <2> QED
    BY <1>1, <2>1, <2>2 DEF BeginWrite
<1>2. ASSUME NEW p \in Procs, Fill(p) PROVE Tidy'
  <2>0. call[p].step = "fill" /\ call[p].step \in Writing
    BY <1>2 DEF Fill, Writing
  <2>1. \A f \in (Temporaries \cup Backups) \ {call[p].temp} : files[f] = Absent
    BY <2>0, <1>o DEF Tidy
  <2>2. CASE GiveUp(p, files)
    BY <2>0, <2>1, <2>2, <1>o, <1>g
  <2>3. CASE /\ files' = [files EXCEPT ![call[p].temp] = call[p].doc]
             /\ call' = [call EXCEPT ![p].step = "set_aside"] /\ UNCHANGED opLock
    <3>1. \A f \in (Temporaries \cup Backups) \ {call[p].temp} : files'[f] = Absent
      BY <2>0, <2>1, <2>3, <1>o, <1>f
    <3>2. opLock' = p /\ call'[p].step = "set_aside" /\ call'[p].temp = call[p].temp
      BY <2>0, <2>3, <1>o, <1>t DEF TypeOK, Calls
    <3> QED
      BY <2>0, <3>1, <3>2, <1>o, <1>f DEF Tidy
  <2> QED
    BY <1>2, <2>2, <2>3 DEF Fill
<1>3. ASSUME NEW p \in Procs, SetAside(p) PROVE Tidy'
  <2>0. call[p].step = "set_aside" /\ call[p].step \in Writing
    BY <1>3 DEF SetAside, Writing
  <2>1. \A f \in (Temporaries \cup Backups) \ {call[p].temp} : files[f] = Absent
    BY <2>0, <1>o DEF Tidy
  <2>2. CASE GiveUp(p, files)
    BY <2>0, <2>1, <2>2, <1>o, <1>g
  <2>3. CASE call' = [call EXCEPT ![p].step = "install"] /\ UNCHANGED <<files, opLock>>
    <3>1. opLock' = p /\ call'[p].step = "install" /\ call'[p].temp = call[p].temp
      BY <2>0, <2>3, <1>o, <1>t DEF TypeOK, Calls
    <3> QED
      BY <2>0, <2>1, <2>3, <3>1, <1>o, <1>f DEF Tidy
  <2>4. CASE /\ \E b \in Free(Backups) :
                  /\ files' = [files EXCEPT ![b] = files[call[p].target], ![call[p].target] = Absent]
                  /\ call' = [call EXCEPT ![p].step = "install", ![p].backup = b]
             /\ UNCHANGED opLock
    <3>1. PICK b \in Backups :
                  /\ files' = [files EXCEPT ![b] = files[call[p].target], ![call[p].target] = Absent]
                  /\ call' = [call EXCEPT ![p].step = "install", ![p].backup = b]
      BY <2>4 DEF Free
    <3>2. \A f \in (Temporaries \cup Backups) \ {call[p].temp, b} : files'[f] = Absent
      BY <2>0, <2>1, <3>1, <1>o, <1>f
    <3>3. /\ opLock' = p /\ call'[p].step = "install" /\ call'[p].temp = call[p].temp
          /\ call'[p].backup = b
      BY <2>0, <2>4, <3>1, <1>o, <1>t DEF TypeOK, Calls
    <3> QED
      BY <2>0, <3>2, <3>3, <1>o, <1>f DEF Tidy
  <2> QED
    BY <1>3, <2>2, <2>3, <2>4 DEF SetAside
<1>4. ASSUME NEW p \in Procs, Install(p) PROVE Tidy'
  <2>0. call[p].step = "install" /\ call[p].step \in Writing
    BY <1>4 DEF Install, Writing
  <2>1. \A f \in (Temporaries \cup Backups) \ {call[p].temp, call[p].backup} : files[f] = Absent
    BY <2>0, <1>o DEF Tidy
  <2>2. CASE GiveUp(p, Restored(p))
    <3>1. Restored(p) \in [Files -> Content]
      BY <2>0, <1>o, <1>f, <1>t DEF Restored, TypeOK, Content
    <3>2. \A f \in (Temporaries \cup Backups) \ {call[p].temp} : Restored(p)[f] = Absent
      BY <2>0, <2>1, <1>o, <1>f DEF Restored
    <3> QED
      BY <2>0, <2>2, <3>1, <3>2, <1>g
  <2>3. CASE /\ files' = [files EXCEPT ![call[p].target] = files[call[p].temp],
                                      ![call[p].temp] = Absent]
             /\ call' = [call EXCEPT ![p].step = "discard"]
             /\ UNCHANGED opLock
    <3>1. \A f \in (Temporaries \cup Backups) \ {call[p].backup} : files'[f] = Absent
      BY <2>0, <2>1, <2>3, <1>o, <1>f
    <3>2. opLock' = p /\ call'[p].step = "discard" /\ call'[p].backup = call[p].backup
      BY <2>0, <2>3, <1>o, <1>t DEF TypeOK, Calls
    <3> QED
      BY <2>0, <3>1, <3>2, <1>o, <1>f DEF Tidy
  <2> QED
    BY <1>4, <2>2, <2>3, <1>r DEF Install
<1>5. ASSUME NEW p \in Procs, Discard(p) PROVE Tidy'
  <2>0. call[p].step = "discard" /\ call[p].step \in Writing
    BY <1>5 DEF Discard, Writing
  <2>1. \A f \in (Temporaries \cup Backups) \ {call[p].backup} : files[f] = Absent
    BY <2>0, <1>o DEF Tidy
  <2>2. files' = IF call[p].backup = None THEN files
                 ELSE [files EXCEPT ![call[p].backup] = Absent]
    BY <1>5, <1>r DEF Discard
  <2>3. Bare'
    BY <2>0, <2>1, <2>2, <1>o, <1>f DEF Bare
  <2> QED
    BY <2>3, <1>b
<1>6. ASSUME NEW p \in Procs,
             Return(p) \/ BeginRead(p) \/ EndRead(p) \/ Crash(p) \/ \E n \in Names : ReadRecord(p, n)
      PROVE  Tidy'
  <2>1. call[p].step \notin Writing /\ files' = files
    BY <1>6, <1>r DEF Return, BeginRead, EndRead, Crash, ReadRecord, Writing, Answered
  <2>2. \A q \in Procs \ {p} : call'[q] = call[q]
    BY <1>6, <1>t DEF Return, BeginRead, EndRead, Crash, ReadRecord, TypeOK
  <2>3. CASE opLock \in Procs \ {p}
    <3>1. opLock' = opLock
      BY <1>6, <1>t, <2>3 DEF Return, BeginRead, EndRead, Crash, ReadRecord, Holding
    <3> QED
      BY <2>1, <2>2, <2>3, <3>1 DEF Tidy
  <2>4. CASE opLock \in {p, None}
    <3>1. Bare
      BY <2>1, <2>4 DEF Tidy, Bare, Writing
    <3> QED
      BY <2>1, <3>1, <1>b DEF Bare
  <2> QED
    BY <2>3, <2>4, <1>t DEF TypeOK
<1>7. CASE UNCHANGED vars
  BY <1>7 DEF vars, Tidy
<1> QED
  BY <1>1, <1>2, <1>3, <1>4, <1>5, <1>6, <1>7 DEF Next

(* A write that fails leaves nothing beside the records, as long as the    *)
(* process lives and the removals on its error paths succeed.              *)
THEOREM NothingLeftBeside ==
  ASSUME Removable
  PROVE  Spec => []NoLitter
<1>1. Init => Tidy
  BY DEF Init, Tidy, Files
<1>2. IInv /\ Tidy /\ [Next]_vars => Tidy'
  BY TidyStep
<1>3. IInv /\ Tidy => NoLitter
  <2> SUFFICES ASSUME IInv, Tidy, \A p \in Procs : call[p].step \notin Writing
               PROVE  Bare
    BY DEF NoLitter, Bare
  <2> QED
    BY DEF Tidy, Bare, Writing
<1> QED
  BY <1>1, <1>2, <1>3, Invariance, PTL DEF Spec
=============================================================================
