---------------------------- MODULE RuntimeJournal ----------------------------
(***************************************************************************)
(* What a standard session promises of its integrity journal: it is opened *)
(* once, collects the mutations it observes while it is active, and ends   *)
(* with the one verdict those mutations call for.  Nothing is withdrawn    *)
(* and nothing is written after the verdict.                               *)
(***************************************************************************)
CONSTANTS
  Journals,   \* journal identities
  Evidence   \* the (path, change) pairs that can be observed

VARIABLES
  status,     \* status[j]: "absent", "active" or a verdict
  events      \* events[j]: the mutations recorded in journal j

Deletion(e) == e[2] = "deleted"

Verdict(E) ==
  IF \E e \in E : Deletion(e) THEN "violation"
  ELSE IF E = {} THEN "clean" ELSE "changes"

Init ==
  /\ status = [j \in Journals |-> "absent"]
  /\ events = [j \in Journals |-> {}]

(* the evidence of j, and of no other, may grow                             *)
Grown(j) ==
  /\ events[j] \subseteq events'[j] /\ events'[j] \subseteq Evidence
  /\ events' = [events EXCEPT ![j] = events'[j]]

Open(j) ==
  /\ status[j] = "absent"
  /\ status' = [status EXCEPT ![j] = "active"]
  /\ UNCHANGED events

Record(j) ==
  /\ status[j] = "active"
  /\ UNCHANGED status
  /\ Grown(j)

Close(j) ==
  /\ status[j] = "active"
  /\ status' = [status EXCEPT ![j] = Verdict(events'[j])]
  /\ Grown(j)

(* a session whose spawn fails opens and closes its journal in one step *)
Discard(j) ==
  /\ status[j] = "absent"
  /\ status' = [status EXCEPT ![j] = Verdict(events'[j])]
  /\ Grown(j)

Next == \E j \in Journals : Open(j) \/ Record(j) \/ Close(j) \/ Discard(j)

Spec == Init /\ [][Next]_<<status, events>>
=============================================================================
