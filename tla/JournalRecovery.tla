---------------------------- MODULE JournalRecovery ----------------------------
(***************************************************************************)
(* JournalRecovery: the integrity journals of several server processes in  *)
(* one private state directory.  A session holds the liveness lock of its  *)
(* journal for as long as it lives; a starting server lists the journals,  *)
(* and marks those that are active and whose lock it can take.             *)
(*                                                                         *)
(* Writes are the steps of PrivateState, reads and enumerations single     *)
(* steps under its lock.  A liveness lock is opened under the operation    *)
(* lock and taken after it is released, in one step here: nothing that     *)
(* another process does in between concerns a liveness lock it would not   *)
(* as well have taken or released before.  An observation is a count of    *)
(* events.  A name of PrivateState is a session: the journal of session s  *)
(* is the file s, and a scratch file is listed like a journal.             *)
(***************************************************************************)
EXTENDS Naturals, FiniteSets

CONSTANTS
  Procs, Sessions,
  Temporaries, Backups, Faults, TornWrites, Absent, Torn, None,
  Authorized,  \* Authorized[p]: sessions whose root p was started with
  MaxEvents,   \* MAX_RUNTIME_EVENTS
  ListLimit    \* the limit recover_unfinished gives to list_records

Journal == [session : Sessions, status : {"active", "final", "recovered"},
            events : 0 .. MaxEvents]

VARIABLES
  files, opLock, call,   \* PrivateState
  phase,      \* phase[p]: where the program of server p is
  pending,    \* pending[p]: entries recover_unfinished has still to examine
  entry,      \* entry[p]: the entry it examines
  document,   \* document[p]: the journal it has read, or the one of its session
  liveness,   \* liveness[s]: holder of the liveness lock of session s
  created,    \* sessions whose id has been drawn
  summaries,  \* summaries[p]: entries reported by the recovery of p
  owed        \* owed[p]: entries that were abandoned when p listed them

Store == INSTANCE PrivateState WITH Names <- Sessions, Docs <- Journal

ASSUME RecoveryConstants ==
  /\ Authorized \in [Procs -> SUBSET Sessions]
  /\ MaxEvents \in Nat /\ ListLimit \in Nat
  /\ Faults \subseteq Store!FaultNames /\ TornWrites \in BOOLEAN
  /\ Sessions \cap Temporaries = {} /\ Sessions \cap Backups = {}
  /\ Temporaries \cap Backups = {}
  /\ None \notin Procs \cup Store!Files \cup Store!Content
  /\ Absent \notin Journal \cup {Torn} \cup Sessions /\ Torn \notin Journal

storeVars    == <<files, opLock, call>>
recoveryVars == <<pending, entry, summaries, owed>>
vars == <<storeVars, phase, recoveryVars, document, liveness, created>>

Recovering == {"list", "next", "try", "reread", "mark", "marking"}
Phases == Recovering \cup
  {"down", "serving", "creating", "observing", "finalizing", "sealing"}

Init ==
  /\ Store!Init
  /\ phase = [p \in Procs |-> "down"]
  /\ pending = [p \in Procs |-> {}]
  /\ entry = [p \in Procs |-> None]
  /\ document = [p \in Procs |-> None]
  /\ liveness = [s \in Sessions |-> None]
  /\ created = {}
  /\ summaries = [p \in Procs |-> {}]
  /\ owed = [p \in Procs |-> {}]

Goto(p, where) == phase' = [phase EXCEPT ![p] = where]

Active(c) == c \in Journal /\ c.status = "active"

-----------------------------------------------------------------------------
(* recover_unfinished, called while the server starts *)

Start(p) ==
  /\ phase[p] = "down"
  /\ Goto(p, "list")
  /\ UNCHANGED <<storeVars, recoveryVars, document, liveness, created>>

(* An error ends the recovery and drops its summaries; the server goes on. *)
Abort(p) ==
  /\ summaries' = [summaries EXCEPT ![p] = {}]
  /\ pending' = [pending EXCEPT ![p] = {}]
  /\ entry' = [entry EXCEPT ![p] = None]
  /\ document' = [document EXCEPT ![p] = None]
  /\ Goto(p, "serving")

Listed == {f \in Store!Files : files[f] # Absent}

Abandoned(p) ==
  {s \in Authorized[p] : Active(files[s]) /\ liveness[s] = None}

List(p) ==
  /\ phase[p] = "list" /\ opLock = None
  /\ owed' = [owed EXCEPT ![p] = Abandoned(p)]
  /\ \/ /\ Cardinality(Listed) <= ListLimit
        /\ pending' = [pending EXCEPT ![p] = Listed]
        /\ Goto(p, "next")
        /\ UNCHANGED <<entry, summaries, document>>
     \/ Cardinality(Listed) > ListLimit /\ Abort(p)
  /\ UNCHANGED <<storeVars, liveness, created>>

(* the entries are sorted: .meridian-backup- before .meridian-tmp- before  *)
(* the hexadecimal names of the journals, and at random within a kind      *)
Foremost(S) ==
  IF S \cap Backups # {} THEN S \cap Backups
  ELSE IF S \cap Temporaries # {} THEN S \cap Temporaries
  ELSE S

(* slip: an entry whose owner lives is tried again. *)
DoneRetrying(p) ==
  /\ entry' = [entry EXCEPT ![p] = None]
  /\ document' = [document EXCEPT ![p] = None]
  /\ Goto(p, "next")
  /\ UNCHANGED pending

Done(p) ==
  /\ pending' = [pending EXCEPT ![p] = @ \ {entry[p]}]
  /\ entry' = [entry EXCEPT ![p] = None]
  /\ document' = [document EXCEPT ![p] = None]
  /\ Goto(p, "next")

Skip(p, f) ==
  /\ pending' = [pending EXCEPT ![p] = @ \ {f}]
  /\ UNCHANGED <<entry, document, phase>>

Examine(p) ==
  /\ phase[p] = "next" /\ opLock = None
  /\ \E f \in Foremost(pending[p]) :
       \/ files[f] \in {Absent, Torn} /\ Abort(p)
       \/ /\ files[f] \in Journal /\ ~Active(files[f])
          /\ Skip(p, f)
          /\ UNCHANGED summaries
       \/ /\ Active(files[f])
          /\ entry' = [entry EXCEPT ![p] = f]
          /\ document' = [document EXCEPT ![p] = files[f]]
          /\ Goto(p, "try")
          /\ UNCHANGED <<pending, summaries>>
  /\ UNCHANGED <<storeVars, owed, liveness, created>>

TryLiveness(p) ==
  LET s == document[p].session
  IN /\ phase[p] = "try" /\ opLock = None
     /\ \/ /\ liveness[s] = None
           /\ liveness' = [liveness EXCEPT ![s] = p]
           /\ Goto(p, "reread")
           /\ UNCHANGED <<pending, entry, document, owed>>
        \/ /\ liveness[s] # None
           /\ owed' = [owed EXCEPT ![p] = @ \ {entry[p]}]
           /\ Done(p)
           /\ UNCHANGED liveness
     /\ UNCHANGED <<storeVars, summaries, created>>

Release(p) ==
  liveness' = [liveness EXCEPT ![document[p].session] = None]

Report(p) == summaries' = [summaries EXCEPT ![p] = @ \cup {entry[p]}]

(* slip: the journal is not read again under its lock. *)
TrustFirstRead(p) ==
  /\ phase[p] = "reread" /\ opLock = None
  /\ document[p].session \in Authorized[p]
  /\ document' = [document EXCEPT ![p].status = "recovered"]
  /\ Goto(p, "mark")
  /\ UNCHANGED <<storeVars, recoveryVars, liveness, created>>

Reread(p) ==
  LET current == files[entry[p]]
  IN /\ phase[p] = "reread" /\ opLock = None
     /\ \/ current \in {Absent, Torn} /\ Release(p) /\ Abort(p)
        \/ current \in Journal /\ ~Active(current) /\ Release(p) /\ Done(p) /\ UNCHANGED summaries
        \/ /\ Active(current) /\ current.session \notin Authorized[p]
           /\ Release(p) /\ Report(p) /\ Done(p)
        \/ /\ Active(current) /\ current.session \in Authorized[p]
           /\ document' = [document EXCEPT ![p] = [current EXCEPT !.status = "recovered"]]
           /\ Goto(p, "mark")
           /\ UNCHANGED <<pending, entry, summaries, liveness>>
     /\ UNCHANGED <<storeVars, owed, created>>

Mark(p) ==
  /\ phase[p] = "mark"
  /\ Store!BeginWrite(p, entry[p], document[p])
  /\ Goto(p, "marking")
  /\ UNCHANGED <<recoveryVars, document, liveness, created>>

Marked(p) ==
  /\ phase[p] = "marking"
  /\ Store!Return(p)
  /\ Release(p)
  /\ \/ call[p].step = "ok" /\ Report(p) /\ Done(p)
     \/ call[p].step = "err" /\ Abort(p)
  /\ UNCHANGED <<owed, created>>

Recovered(p) ==
  /\ phase[p] = "next" /\ pending[p] = {}
  /\ Goto(p, "serving")
  /\ UNCHANGED <<storeVars, recoveryVars, document, liveness, created>>

-----------------------------------------------------------------------------
(* RuntimeIntegritySession *)

(* slip: the journal is written before its liveness lock is taken. *)
CreateUnlocked(p) ==
  /\ phase[p] = "serving"
  /\ \E s \in Authorized[p] \ created :
       /\ created' = created \cup {s}
       /\ Store!BeginWrite(p, s, [session |-> s, status |-> "active", events |-> 0])
  /\ Goto(p, "creating")
  /\ UNCHANGED <<recoveryVars, document, liveness>>

Create(p) ==
  /\ phase[p] = "serving"
  /\ \E s \in Authorized[p] \ created :
       /\ created' = created \cup {s}
       /\ liveness' = [liveness EXCEPT ![s] = p]
       /\ Store!BeginWrite(p, s, [session |-> s, status |-> "active", events |-> 0])
  /\ Goto(p, "creating")
  /\ UNCHANGED <<recoveryVars, document>>

(* the new session takes the place of the one before, whose lock it drops; *)
(* a failed one is dropped itself                                          *)
Created(p) ==
  LET s == call[p].target
  IN /\ phase[p] = "creating"
     /\ Store!Return(p)
     /\ \/ /\ call[p].step = "ok"
           /\ document' = [document EXCEPT ![p] = call[p].doc]
           /\ liveness' = [r \in Sessions |->
                IF document[p] # None /\ r = document[p].session THEN None ELSE liveness[r]]
        \/ /\ call[p].step = "err"
           /\ liveness' = [liveness EXCEPT ![s] = None]
           /\ UNCHANGED document
     /\ Goto(p, "serving")
     /\ UNCHANGED <<recoveryVars, created>>

(* observe_now: compare the workspace with the baseline and persist.  An   *)
(* event beyond the limit is an error before anything is written.          *)
Observe(p, next) ==
  /\ phase[p] = "serving" /\ document[p] # None
  /\ \E e \in document[p].events .. MaxEvents :
       LET observed == [document[p] EXCEPT !.events = e]
       IN /\ e <= document[p].events + 1
          /\ document' = [document EXCEPT ![p] = observed]
          /\ Store!BeginWrite(p, observed.session, observed)
  /\ Goto(p, next)
  /\ UNCHANGED <<recoveryVars, liveness, created>>

(* finalize: an observation, then the verdict if that was persisted *)
Seal(p) ==
  /\ phase[p] = "finalizing" /\ call[p].step = "ok"
  /\ document' = [document EXCEPT ![p].status = "final"]
  /\ Goto(p, "sealing")
  /\ Store!Return(p)
  /\ UNCHANGED <<recoveryVars, liveness, created>>

SealWrite(p) ==
  /\ phase[p] = "sealing" /\ call[p].step = "idle"
  /\ Store!BeginWrite(p, document[p].session, document[p])
  /\ UNCHANGED <<phase, recoveryVars, document, liveness, created>>

Persisted(p) ==
  /\ \/ phase[p] \in {"observing", "sealing"}
     \/ phase[p] = "finalizing" /\ call[p].step = "err"
  /\ Store!Return(p)
  /\ Goto(p, "serving")
  /\ UNCHANGED <<recoveryVars, document, liveness, created>>

-----------------------------------------------------------------------------
(* the steps of a write, and the end of a process *)

WriteStep(p) ==
  /\ Store!Fill(p) \/ Store!SetAside(p) \/ Store!Install(p) \/ Store!Discard(p)
  /\ UNCHANGED <<phase, recoveryVars, document, liveness, created>>

Exit(p) ==
  /\ phase[p] # "down"
  /\ IF call[p].step = "idle" THEN UNCHANGED storeVars ELSE Store!Crash(p)
  /\ liveness' = [s \in Sessions |-> IF liveness[s] = p THEN None ELSE liveness[s]]
  /\ document' = [document EXCEPT ![p] = None]
  /\ pending' = [pending EXCEPT ![p] = {}]
  /\ entry' = [entry EXCEPT ![p] = None]
  /\ summaries' = [summaries EXCEPT ![p] = {}]
  /\ owed' = [owed EXCEPT ![p] = {}]
  /\ Goto(p, "down")
  /\ UNCHANGED created

Recover(p) ==
  List(p) \/ Examine(p) \/ TryLiveness(p) \/ Reread(p) \/ Mark(p) \/ Marked(p) \/ Recovered(p)

Serve(p) ==
  Create(p) \/ Created(p) \/ Observe(p, "observing") \/ Observe(p, "finalizing")
    \/ Seal(p) \/ SealWrite(p) \/ Persisted(p)

Next == \E p \in Procs : Start(p) \/ Recover(p) \/ Serve(p) \/ WriteStep(p) \/ Exit(p)

Fairness ==
  \A p \in Procs : SF_vars(Recover(p)) /\ WF_vars(WriteStep(p))

Spec == Init /\ [][Next]_vars
LiveSpec == Spec /\ Fairness

-----------------------------------------------------------------------------
(* Properties *)

TypeOK ==
  /\ Store!TypeOK
  /\ phase \in [Procs -> Phases]
  /\ pending \in [Procs -> SUBSET Store!Files]
  /\ entry \in [Procs -> Store!Files \cup {None}]
  /\ document \in [Procs -> Journal \cup {None}]
  /\ liveness \in [Sessions -> Procs \cup {None}]
  /\ created \subseteq Sessions
  /\ summaries \in [Procs -> SUBSET Store!Files]
  /\ owed \in [Procs -> SUBSET Sessions]

Kept(s) == Store!Record(s)
Status(c) == IF c \in Journal THEN c.status ELSE "none"

Owns(p, s) ==
  /\ phase[p] \notin Recovering
  /\ document[p] # None /\ document[p].session = s

(* Recovery marks a journal that has no verdict, with every event that its *)
(* owner persisted, even if the owner ended after recovery first read it.  *)
VerdictStands ==
  [][\A s \in Sessions :
       Status(Kept(s)) # "recovered" /\ Status(Kept(s))' = "recovered"
         => Status(Kept(s)) = "active" /\ Kept(s).events = Kept(s)'.events]_vars

(* Of two servers that start together one reports an interrupted journal   *)
(* that both may mark.                                                     *)
ReportedOnce ==
  \A p, q \in Procs : p # q =>
    summaries[p] \cap summaries[q] \cap Authorized[p] \cap Authorized[q] = {}

(* recover_unfinished leaves the journal of a living session alone: what   *)
(* is on disk is what its owner wrote.                                     *)
LiveJournalUntouched ==
  \A p \in Procs, s \in Sessions : Owns(p, s) => Status(Kept(s)) # "recovered"

(* A server that has started leaves no journal active that was abandoned   *)
(* when it looked, unless another process held its lock to recover it.     *)
RestartRecovers ==
  \A p \in Procs :
    phase[p] \notin Recovering \cup {"down"} => \A s \in owed[p] : ~Active(Kept(s))

(* Recovery marks abandoned journals only, all that it may mark, and one of *)
(* the servers reports each.                                                *)
AbandonedRecovered == LiveJournalUntouched /\ RestartRecovers /\ ReportedOnce

(* The start of a server ends, whatever the others do.                     *)
RecoveryEnds ==
  \A p \in Procs : phase[p] \in Recovering ~> phase[p] \notin Recovering
=============================================================================
