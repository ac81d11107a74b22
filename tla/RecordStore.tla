----------------------------- MODULE RecordStore -----------------------------
(***************************************************************************)
(* What the private state store promises its processes: each record is an  *)
(* atomic register.  A write takes effect at one instant between its call  *)
(* and its reply, "ok" means that it did, "err" leaves open whether it     *)
(* did, and a process that dies leaves each record as it was or as it was  *)
(* to be.  A record that exists never disappears and is never in pieces.   *)
(***************************************************************************)
CONSTANTS
  Procs,    \* the server processes that share the store
  Names,    \* record names
  Docs,     \* documents
  Absent    \* no record

VARIABLES
  rec,      \* rec[n]: the document under name n, or Absent
  request   \* request[p]: what process p has asked for and been told

Pending == {"asked", "installed"}
Answer == {"ok", "err"}

Quiet == [at |-> "none", name |-> Absent, doc |-> Absent]
Asking(n, d) == [at |-> "asked", name |-> n, doc |-> d]

Init ==
  /\ rec \in [Names -> {Absent}]
  /\ request = [p \in Procs |-> Quiet]

Advance(p, stage) == request' = [request EXCEPT ![p].at = stage]

Ask(p, n, d) ==
  /\ request[p] = Quiet
  /\ request' = [request EXCEPT ![p] = Asking(n, d)]
  /\ UNCHANGED rec

Refuse(p, n, d) ==
  /\ request[p] = Quiet
  /\ request' = [request EXCEPT ![p] = [Asking(n, d) EXCEPT !.at = "err"]]
  /\ UNCHANGED rec

Install(p) ==
  /\ request[p].at = "asked"
  /\ rec' = [rec EXCEPT ![request[p].name] = request[p].doc]
  /\ Advance(p, "installed")

Confirm(p) == request[p].at = "installed" /\ Advance(p, "ok") /\ UNCHANGED rec

Fail(p) == request[p].at \in Pending /\ Advance(p, "err") /\ UNCHANGED rec

Return(p) ==
  /\ request[p].at \in Answer
  /\ request' = [request EXCEPT ![p] = Quiet]
  /\ UNCHANGED rec

Crash(p) == request' = [request EXCEPT ![p] = Quiet] /\ UNCHANGED rec

Next ==
  \E p \in Procs :
    \/ \E n \in Names, d \in Docs : Ask(p, n, d) \/ Refuse(p, n, d)
    \/ Install(p) \/ Confirm(p) \/ Fail(p) \/ Return(p) \/ Crash(p)

Spec == Init /\ [][Next]_<<rec, request>>
=============================================================================
