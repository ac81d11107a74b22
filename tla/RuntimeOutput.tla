----------------------------- MODULE RuntimeOutput -----------------------------
(***************************************************************************)
(* RuntimeOutput: the output log of one runtime session, its readers and   *)
(* those who wait for a line.  A pipe and the tail of the log file are     *)
(* read in pieces and put together to lines; the log keeps the last ones   *)
(* within two limits; a waiter reads it again whenever it has changed.     *)
(* The runtime may truncate its log file and write on.                     *)
(*                                                                         *)
(* A stream is a sequence of pieces: the number of the line a piece is of, *)
(* and Newline between them.  A line is the sequence of its pieces, its    *)
(* length their number.                                                    *)
(***************************************************************************)
EXTENDS Integers, Sequences, FiniteSets, FiniteSetsExt, SequencesExt

CONSTANTS
  Waiter,
  Awaited,      \* numbers of the lines a waiter matches
  LogCapacity,  \* OUTPUT_LOG_CAPACITY
  LogBytes,     \* OUTPUT_LOG_MAX_BYTES
  LineBytes,    \* OUTPUT_LINE_MAX_BYTES
  MaxLines,     \* bound: lines that the runtime writes
  MaxPieces,    \* bound: pieces of all of them
  MaxRewrites   \* bound: truncations of the log file

Newline == 0

Stream == {"pipe", "file"}

ASSUME OutputLogConstants ==
  /\ Awaited \subseteq 1 .. MaxLines
  /\ LogCapacity \in Nat \ {0} /\ LineBytes \in Nat \ {0} /\ LogBytes \in Nat
  /\ LineBytes <= LogBytes
  /\ MaxLines \in Nat /\ MaxPieces \in Nat /\ MaxRewrites \in Nat

VARIABLES
  logBuffer,   \* RuntimeOutputBuffer: entries, next_sequence, running, drained
  logSource,   \* logSource[s]: what is in the pipe, and in the file
  logReader,   \* logReader[s]: the offset, the line so far, whether it reads on
  logTarget,   \* the runtime: lines begun, pieces written, the stream of an open
               \* line, rewrites
  logWait      \* logWait[w]: the step of a wait, whether the log has changed since
               \* it marked `changes`, whether its deadline has passed

outputVars == <<logBuffer, logSource, logReader, logTarget, logWait>>

(* w has marked `changes` and may come to sleep on it                       *)
Watches(w) == logWait[w].step \in {"reading", "sleeping"} /\ ~logWait[w].due

-----------------------------------------------------------------------------
(* The log *)

Bytes(entries) == MapThenSumSet(LAMBDA i : Len(entries[i].text), DOMAIN entries)

(* the longest end within the limit of bytes                                *)
Trimmed(entries) ==
  LET rest(n) == SubSeq(entries, n + 1, Len(entries))
  IN rest(Min({n \in 0 .. Len(entries) : Bytes(rest(n)) <= LogBytes}))

(* push_output_line_at: the line of reader r as an entry, under the lock    *)
LineText(line) == IF line.cut THEN Append(line.text, Newline) ELSE line.text

Pushed(log, r) ==
  LET room == IF Len(log.entries) >= LogCapacity THEN Tail(log.entries) ELSE log.entries
      entry == [text |-> LineText(r.line), behind |-> r.behind, sequence |-> log.next]
  IN [log EXCEPT !.entries = Trimmed(Append(room, entry)), !.next = @ + 1]

(* the log, and `changes` sent with every change of it                      *)
Changes(log) ==
  /\ logBuffer' = log
  /\ logWait' = [w \in Waiter |->
       [logWait[w] EXCEPT !.moved = @ \/ (log # logBuffer /\ Watches(w))]]

-----------------------------------------------------------------------------
(* The runtime *)

Puts(s, pieces) == logSource' = [logSource EXCEPT ![s] = @ \o pieces]

Speaks(s) ==
  /\ logBuffer.running
  /\ \/ /\ logTarget.lines < MaxLines /\ logTarget.pieces < MaxPieces
        /\ logTarget.open = "none"
        /\ logTarget' = [logTarget EXCEPT !.lines = @ + 1, !.pieces = @ + 1, !.open = s]
        /\ Puts(s, <<logTarget.lines + 1>>)
     \/ /\ logTarget.open = s /\ logTarget.pieces < MaxPieces
        /\ logTarget' = [logTarget EXCEPT !.pieces = @ + 1]
        /\ Puts(s, <<logTarget.lines>>)
     \/ /\ logTarget.open = s
        /\ logTarget' = [logTarget EXCEPT !.open = "none"]
        /\ Puts(s, <<Newline>>)
  /\ UNCHANGED <<logBuffer, logReader, logWait>>

(* the file is opened anew; what was read of it is not known to be of it    *)
Truncates ==
  /\ logBuffer.running /\ logTarget.rewrites < MaxRewrites
  /\ logTarget' = [logTarget EXCEPT !.rewrites = @ + 1,
                                    !.open = IF @ = "file" THEN "none" ELSE @]
  /\ logSource' = [logSource EXCEPT !["file"] = <<>>]
  /\ logReader' = [logReader EXCEPT !["file"].behind = logReader["file"].offset > 0]
  /\ UNCHANGED <<logBuffer, logWait>>

-----------------------------------------------------------------------------
(* Readers: capture_output_stream and capture_output_file *)

(* the content limit leaves room for the suffix, which is one piece here    *)
Extended(line, piece) ==
  IF Len(line.text) < LineBytes - 1 THEN [line EXCEPT !.text = Append(@, piece)]
  ELSE [line EXCEPT !.cut = TRUE]

EmptyLine == [text |-> <<>>, cut |-> FALSE]

Unread(s) == Len(logSource[s]) - logReader[s].offset

(* the next byte of what was read: each line is pushed under a lock of its  *)
(* own, and an aborted reader may be in the middle                          *)
Reads(s) ==
  LET r == logReader[s]
      piece == logSource[s][r.offset + 1]
  IN /\ r.alive /\ Unread(s) > 0
     /\ \/ /\ piece = Newline
           /\ Changes(Pushed(logBuffer, r))
           /\ logReader' = [logReader EXCEPT ![s].offset = @ + 1, ![s].line = EmptyLine]
        \/ /\ piece # Newline
           /\ logReader' = [logReader EXCEPT ![s].offset = @ + 1,
                                             ![s].line = Extended(@, piece)]
           /\ UNCHANGED <<logBuffer, logWait>>
     /\ UNCHANGED <<logSource, logTarget>>

(* the end of the file: a shorter one was truncated                         *)
ReadsEnd ==
  /\ logReader["file"].alive /\ Unread("file") < 0
  /\ logReader' = [logReader EXCEPT !["file"].offset = 0, !["file"].line = EmptyLine,
                                    !["file"].behind = FALSE]
  /\ UNCHANGED <<logBuffer, logSource, logTarget, logWait>>

(* the pipe is closed: what is left is a line                               *)
PipeEnds ==
  LET r == logReader["pipe"] IN
  /\ ~logBuffer.running /\ r.alive /\ Unread("pipe") = 0
  /\ logReader' = [logReader EXCEPT !["pipe"].alive = FALSE, !["pipe"].line = EmptyLine]
  /\ Changes(IF r.line = EmptyLine THEN logBuffer ELSE Pushed(logBuffer, r))
  /\ UNCHANGED <<logSource, logTarget>>

-----------------------------------------------------------------------------
(* The status of the process: publish_process_status and                    *)
(* abort_runtime_output_tasks                                                *)

ExitPublished ==
  /\ logBuffer.running
  /\ Changes([logBuffer EXCEPT !.running = FALSE])
  /\ UNCHANGED <<logSource, logReader, logTarget>>

(* a reader that is not at an await goes on to its next                     *)
ReadersAborted ==
  /\ ~logBuffer.running /\ ~logBuffer.drained
  /\ Changes([logBuffer EXCEPT !.drained = TRUE])
  /\ \E running \in SUBSET Stream :
       logReader' = [s \in Stream |-> [logReader[s] EXCEPT !.alive = @ /\ s \in running]]
  /\ UNCHANGED <<logSource, logTarget>>

AbortLands(s) ==
  /\ logBuffer.drained /\ logReader[s].alive
  /\ logReader' = [logReader EXCEPT ![s].alive = FALSE]
  /\ UNCHANGED <<logBuffer, logSource, logTarget, logWait>>

-----------------------------------------------------------------------------
(* Waiters: wait_for_output_value *)

Matches(log) ==
  \E i \in DOMAIN log.entries : ToSet(log.entries[i].text) \cap Awaited # {}

Over(log) == ~log.running /\ log.drained

Noticed(w, step) == [logWait EXCEPT ![w].step = step, ![w].moved = FALSE]

(* slip: `changes` is marked when the log has been read                     *)
MarksLater(w) ==
  /\ \/ /\ logWait[w].step = "marking"
        /\ logWait' = [logWait EXCEPT ![w].step = "reading"]
     \/ logWait[w].step = "sleeping" /\ logWait[w].moved /\ logWait' = Noticed(w, "sleeping")
  /\ UNCHANGED <<logBuffer, logSource, logReader, logTarget>>

(* changes.borrow_and_update, before the log is read                        *)
Marks(w) ==
  /\ logWait[w].step = "marking"
  /\ logWait' = Noticed(w, "reading")
  /\ UNCHANGED <<logBuffer, logSource, logReader, logTarget>>

(* everything is decided from one look under the lock                       *)
Looks(w) ==
  /\ logWait[w].step = "reading"
  /\ logWait' = [logWait EXCEPT
       ![w].step = IF Matches(logBuffer) \/ Over(logBuffer) \/ logWait[w].due
                   THEN "answered" ELSE "sleeping"]
  /\ UNCHANGED <<logBuffer, logSource, logReader, logTarget>>

Wakes(w) ==
  /\ logWait[w].step = "sleeping" /\ logWait[w].moved
  /\ logWait' = [logWait EXCEPT ![w].step = "marking", ![w].moved = FALSE]
  /\ UNCHANGED <<logBuffer, logSource, logReader, logTarget>>

(* the deadline passes, at any time, and wakes a waiter                     *)
ComesDue(w) ==
  /\ logWait[w].step # "answered" /\ ~logWait[w].due
  /\ logWait' = [logWait EXCEPT ![w].due = TRUE, ![w].moved = FALSE,
                                ![w].step = IF @ = "sleeping" THEN "marking" ELSE @]
  /\ UNCHANGED <<logBuffer, logSource, logReader, logTarget>>

-----------------------------------------------------------------------------
(* Specification *)

LogInit ==
  /\ logBuffer = [entries |-> <<>>, next |-> 1, running |-> TRUE, drained |-> FALSE]
  /\ logSource = [s \in Stream |-> <<>>]
  /\ logReader = [s \in Stream |-> [offset |-> 0, line |-> EmptyLine, alive |-> TRUE,
                                    behind |-> FALSE]]
  /\ logTarget = [lines |-> 0, pieces |-> 0, open |-> "none", rewrites |-> 0]
  /\ logWait = [w \in Waiter |-> [step |-> "marking", moved |-> FALSE, due |-> FALSE]]

WaitSteps(w) == Marks(w) \/ Looks(w) \/ Wakes(w) \/ ComesDue(w)

LogNext ==
  \/ Truncates \/ ReadsEnd \/ PipeEnds \/ ExitPublished \/ ReadersAborted
  \/ \E s \in Stream : Speaks(s) \/ Reads(s) \/ AbortLands(s)
  \/ \E w \in Waiter : WaitSteps(w)

LogSpec == LogInit /\ [][LogNext]_outputVars

-----------------------------------------------------------------------------
(* Properties *)

(* The log is the end of what was captured: the numbers of its entries have *)
(* no gap and end before the next, and both limits hold.                    *)
LogIsTheEnd ==
  LET entries == logBuffer.entries IN
  /\ \A i \in DOMAIN entries : entries[i].sequence = logBuffer.next - Len(entries) + i - 1
  /\ Len(entries) <= LogCapacity /\ Bytes(entries) <= LogBytes

(* An entry is one line of the runtime, however it was cut into reads and   *)
(* whenever its file was truncated, unless the file had grown past the      *)
(* offset again before it was looked at.                                    *)
LinesWhole ==
  \A i \in DOMAIN logBuffer.entries :
    LET e == logBuffer.entries[i] IN
    ~e.behind => Cardinality(ToSet(e.text) \ {Newline}) <= 1 /\ Len(e.text) <= LineBytes

(* A waiter that sleeps has seen all that would answer it: a line captured  *)
(* or an exit published after its look wakes it.                            *)
NoLostWakeup ==
  \A w \in Waiter :
    logWait[w].step = "sleeping" /\ ~logWait[w].moved =>
      ~Matches(logBuffer) /\ ~Over(logBuffer)

(* All of them, for TLC.                                                    *)
LogFollowed == LogIsTheEnd /\ LinesWhole /\ NoLostWakeup
=============================================================================
