----------------------------- MODULE PrivateState -----------------------------
(***************************************************************************)
(* PrivateState: the JSON records that several server processes keep in    *)
(* one directory.  Every operation holds the operation lock, an exclusive  *)
(* lock of the operating system that dies with its holder.  A write fills  *)
(* a temporary file, renames the old record to a backup, renames the       *)
(* temporary file into place and removes the backup.                       *)
(*                                                                         *)
(* A step is one file operation; each may fail where Faults says so, and   *)
(* its process may die between any two.  The content of a file is the      *)
(* document in it, Torn while it is only partly written.  The random names *)
(* of scratch files are drawn from two sets, which bound how many of them  *)
(* may be left behind: the last free one is never given up (Spare).        *)
(***************************************************************************)
CONSTANTS
  Procs,        \* the server processes that share the directory
  Names,        \* record names
  Docs,         \* documents
  Temporaries,  \* names .meridian-tmp-<random>
  Backups,      \* names .meridian-backup-<random>
  Faults,       \* subset of FaultNames
  TornWrites,   \* TRUE if a process may die while it writes
  Absent,       \* no file
  Torn,         \* a file whose content is incomplete
  None          \* no process, no file, not read

(* "begin": the lock, the name or the temporary file; "write", "set_aside",*)
(* "install", "discard", "sync": that step; "restore": the rollback of a   *)
(* failed install; "cleanup": the removal of the temporary file.           *)
FaultNames ==
  {"begin", "write", "set_aside", "install", "restore", "discard", "sync", "cleanup"}

Files == Names \cup Temporaries \cup Backups
Content == Docs \cup {Absent, Torn}

ASSUME StoreConstants ==
  /\ Faults \subseteq FaultNames /\ TornWrites \in BOOLEAN
  /\ Names \cap Temporaries = {} /\ Names \cap Backups = {}
  /\ Temporaries \cap Backups = {}
  /\ None \notin Procs \cup Files \cup Content
  /\ Absent \notin Docs \cup {Torn} \cup Names /\ Torn \notin Docs

VARIABLES
  files,    \* files[f]: what the file holds
  opLock,   \* holder of the operation lock, None if free
  call      \* call[p]: the operation of process p

vars == <<files, opLock, call>>

Writing == {"fill", "set_aside", "install", "discard"}
Answered == {"ok", "err"}

NoCall == [step |-> "idle", target |-> None, doc |-> None, temp |-> None,
           backup |-> None, seen |-> [n \in Names |-> None]]

Answer(p, result) ==
  [NoCall EXCEPT !.step = result, !.target = call[p].target, !.doc = call[p].doc]

Init ==
  /\ files = [f \in Files |-> Absent]
  /\ opLock = None
  /\ call = [p \in Procs |-> NoCall]

Free(S) == {f \in S : files[f] = Absent}
Spare(S) == Free(S) # {}

-----------------------------------------------------------------------------
(* write_json_atomic *)

Finish(p, result) ==
  /\ opLock' = None
  /\ call' = [call EXCEPT ![p] = Answer(p, result)]

(* slip: the error path forgets the temporary file. *)
GiveUpLittering(p, F) == files' = F /\ Finish(p, "err")

(* an error answer after the removal of the temporary file, from files F *)
GiveUp(p, F) ==
  /\ \/ files' = [F EXCEPT ![call[p].temp] = Absent]
     \/ "cleanup" \in Faults /\ Spare(Temporaries) /\ files' = F
  /\ Finish(p, "err")

(* slip: the operation lock is not waited for. *)
BeginWriteUnlocked(p, n, d) ==
  /\ call[p].step = "idle"
  /\ \E t \in Free(Temporaries) :
       /\ files' = [files EXCEPT ![t] = Torn]
       /\ call' = [call EXCEPT ![p] =
            [NoCall EXCEPT !.step = "fill", !.target = n, !.doc = d, !.temp = t]]
  /\ opLock' = p

BeginWrite(p, n, d) ==
  /\ call[p].step = "idle"
  /\ \/ /\ "begin" \in Faults
        /\ call' = [call EXCEPT ![p] = [NoCall EXCEPT !.step = "err", !.target = n, !.doc = d]]
        /\ UNCHANGED <<files, opLock>>
     \/ /\ opLock = None
        /\ \E t \in Free(Temporaries) :
             /\ files' = [files EXCEPT ![t] = Torn]
             /\ call' = [call EXCEPT ![p] =
                  [NoCall EXCEPT !.step = "fill", !.target = n, !.doc = d, !.temp = t]]
        /\ opLock' = p

Fill(p) ==
  /\ call[p].step = "fill"
  /\ \/ /\ files' = [files EXCEPT ![call[p].temp] = call[p].doc]
        /\ call' = [call EXCEPT ![p].step = "set_aside"]
        /\ UNCHANGED opLock
     \/ "write" \in Faults /\ GiveUp(p, files)

SetAside(p) ==
  /\ call[p].step = "set_aside"
  /\ \/ /\ files[call[p].target] = Absent
        /\ call' = [call EXCEPT ![p].step = "install"]
        /\ UNCHANGED <<files, opLock>>
     \/ /\ files[call[p].target] # Absent
        /\ \E b \in Free(Backups) :
             /\ files' = [files EXCEPT ![b] = files[call[p].target], ![call[p].target] = Absent]
             /\ call' = [call EXCEPT ![p].step = "install", ![p].backup = b]
        /\ UNCHANGED opLock
     \/ files[call[p].target] # Absent /\ "set_aside" \in Faults /\ GiveUp(p, files)

(* slip: a failed install leaves the old record set aside. *)
NotRestored(p) ==
  IF call[p].backup = None THEN files ELSE [files EXCEPT ![call[p].backup] = Absent]

Restored(p) ==
  IF call[p].backup = None THEN files
  ELSE [files EXCEPT ![call[p].target] = files[call[p].backup], ![call[p].backup] = Absent]

Install(p) ==
  /\ call[p].step = "install"
  /\ \/ /\ files' = [files EXCEPT ![call[p].target] = files[call[p].temp],
                                  ![call[p].temp] = Absent]
        /\ call' = [call EXCEPT ![p].step = "discard"]
        /\ UNCHANGED opLock
     \/ "install" \in Faults /\ GiveUp(p, Restored(p))
     \/ /\ {"install", "restore"} \subseteq Faults
        /\ call[p].backup # None /\ Spare(Backups)
        /\ GiveUp(p, files)

(* remove the backup, flush the record and read it back *)
Discard(p) ==
  LET swept == IF call[p].backup = None THEN files
               ELSE [files EXCEPT ![call[p].backup] = Absent]
  IN /\ call[p].step = "discard"
     /\ \/ files' = swept /\ Finish(p, "ok")
        \/ "sync" \in Faults /\ files' = swept /\ Finish(p, "err")
        \/ /\ "discard" \in Faults /\ call[p].backup # None /\ Spare(Backups)
           /\ Finish(p, "err")
           /\ UNCHANGED files

Return(p) ==
  /\ call[p].step \in Answered
  /\ call' = [call EXCEPT ![p] = NoCall]
  /\ UNCHANGED <<files, opLock>>

-----------------------------------------------------------------------------
(* read_transaction: several records read under one lock *)

BeginRead(p) ==
  /\ call[p].step = "idle" /\ opLock = None
  /\ opLock' = p
  /\ call' = [call EXCEPT ![p] = [NoCall EXCEPT !.step = "reading"]]
  /\ UNCHANGED files

ReadRecord(p, n) ==
  /\ call[p].step = "reading" /\ call[p].seen[n] = None /\ files[n] # Torn
  /\ call' = [call EXCEPT ![p].seen[n] = files[n]]
  /\ UNCHANGED <<files, opLock>>

EndRead(p) ==
  /\ call[p].step = "reading"
  /\ opLock' = None
  /\ call' = [call EXCEPT ![p] = NoCall]
  /\ UNCHANGED files

-----------------------------------------------------------------------------
(* The death of a process closes its files and with them its lock *)

(* slip: the lock is the existence of its file. *)
CrashHoldingLock(p) ==
  /\ call[p].step # "idle"
  /\ call' = [call EXCEPT ![p] = NoCall]
  /\ UNCHANGED <<files, opLock>>

Crash(p) ==
  /\ call[p].step # "idle"
  /\ call[p].step \in Writing => TornWrites /\ Spare(Temporaries) /\ Spare(Backups)
  /\ opLock' = IF opLock = p THEN None ELSE opLock
  /\ call' = [call EXCEPT ![p] = NoCall]
  /\ UNCHANGED files

Proceed(p) == Fill(p) \/ SetAside(p) \/ Install(p) \/ Discard(p) \/ EndRead(p)

Next ==
  \E p \in Procs :
    \/ \E n \in Names, d \in Docs : BeginWrite(p, n, d)
    \/ Fill(p) \/ SetAside(p) \/ Install(p) \/ Discard(p) \/ Return(p)
    \/ BeginRead(p) \/ EndRead(p)
    \/ \E n \in Names : ReadRecord(p, n)
    \/ Crash(p)

Fairness == \A p \in Procs : WF_vars(Proceed(p))

Spec == Init /\ [][Next]_vars
LiveSpec == Spec /\ Fairness

-----------------------------------------------------------------------------
(* Properties *)

Calls ==
  [step : Writing \cup Answered \cup {"idle", "reading"},
   target : Names \cup {None}, doc : Docs \cup {None},
   temp : Temporaries \cup {None}, backup : Backups \cup {None},
   seen : [Names -> Content \cup {None}]]

TypeOK ==
  /\ files \in [Files -> Content]
  /\ opLock \in Procs \cup {None}
  /\ call \in [Procs -> Calls]

(* The record a reader of the directory is meant to see: while the holder  *)
(* of the lock is between the two renames it is the one set aside.         *)
SetAsideBy(p, n) ==
  call[p].step = "install" /\ call[p].backup # None /\ call[p].target = n

Record(n) ==
  IF opLock \in Procs /\ SetAsideBy(opLock, n) THEN files[call[opLock].backup] ELSE files[n]

Stage(step) ==
  IF step \in {"idle", "reading"} THEN "none"
  ELSE IF step \in {"fill", "set_aside", "install"} THEN "asked"
  ELSE IF step = "discard" THEN "installed"
  ELSE step

Request(c) ==
  IF Stage(c.step) = "none" THEN [at |-> "none", name |-> Absent, doc |-> Absent]
  ELSE [at |-> Stage(c.step), name |-> c.target, doc |-> c.doc]

Registers ==
  INSTANCE RecordStore WITH
    rec <- [n \in Names |-> Record(n)],
    request <- [p \in Procs |-> Request(call[p])]

(* write_json_atomic is an atomic register write for every process that    *)
(* takes the operation lock, whatever interleaving, failed file operation  *)
(* or retry: it installs its document once, answers Ok only after that,    *)
(* and neither loses the previous record nor shows a partial one.          *)
AtomicRecords == Registers!Spec

(* A read transaction sees one state of the records: no write is installed *)
(* between the first and the last record that evaluate_launch reads.       *)
TransactionIsSnapshot ==
  \A p \in Procs, n \in Names :
    call[p].step = "reading" /\ call[p].seen[n] # None => call[p].seen[n] = Record(n)

(* Nothing is left beside the records when no write is under way.  A file  *)
(* that stays would be enumerated with the records by list_records.        *)
NoLitter ==
  (\A p \in Procs : call[p].step \notin Writing)
    => \A f \in Temporaries \cup Backups : files[f] = Absent

(* The operation lock is given back: no operation waits inside it.         *)
LockReturned == \A p \in Procs : opLock = p ~> opLock # p
=============================================================================
