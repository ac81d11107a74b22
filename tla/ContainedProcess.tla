---------------------------- MODULE ContainedProcess ----------------------------
(***************************************************************************)
(* ContainedProcess: one tool process under run_contained_process, with a  *)
(* wall limit, an idle limit, bounded output and optional input.  On       *)
(* Windows the process and its descendants are in a job that is terminated *)
(* and that dies with its handle; elsewhere only the direct child is       *)
(* killed and a descendant may live on with the pipes it inherited.        *)
(*                                                                         *)
(* Time is counted in poll intervals.  The loop reacts at once to what is  *)
(* ready, so time passes (ToolTick) only while nothing is; the readers and *)
(* the process take any time.  A chunk of output is the sequence of its    *)
(* bytes, a byte is its position in the stream.                            *)
(***************************************************************************)
EXTENDS Integers, Sequences

CONSTANTS
  Platforms,    \* subset of {"windows", "unix"}
  Streams,      \* output streams of the process
  WallLimit, IdleLimit, DrainLimit,   \* in poll intervals
  ChannelSize,  \* chunks between the readers and the loop (64 in the code)
  TailSize,     \* bytes kept of a stream (512 KiB)
  StreamBytes,  \* bytes a stream may carry
  ToolFaults    \* subset of {"spawn", "assign", "job"}

ASSUME ContainedProcessConstants ==
  /\ Platforms \subseteq {"windows", "unix"}
  /\ ToolFaults \subseteq {"spawn", "assign", "job"}
  /\ {WallLimit, IdleLimit, DrainLimit, ChannelSize, TailSize, StreamBytes} \subseteq Nat \ {0}

VARIABLES
  toolStep,     \* where the call is
  toolEnd,      \* how it ended: a termination reason or "error"
  toolTree,     \* the platform, whether its job can be terminated, the processes
  toolTime,     \* clock, last progress, start of the current select, drain deadline
  toolPipes,    \* toolPipes[s]: stream s, its reader and its tail
  toolChannel,  \* chunks from the readers to the call
  toolStdin,    \* the task that writes the input
  toolCancel,   \* the cancellation receiver
  toolDrained   \* TRUE if the channel was closed before the drain deadline

toolVars == <<toolStep, toolEnd, toolTree, toolTime, toolPipes, toolChannel,
              toolStdin, toolCancel, toolDrained>>

EmptyTail == [bytes |-> <<>>, truncated |-> 0]

ToolInit ==
  /\ toolStep = "idle" /\ toolEnd = "none"
  /\ toolTree = [platform |-> "unix", job |-> TRUE, child |-> "unborn", descendant |-> "none"]
  /\ toolTime = [now |-> 0, progress |-> 0, selected |-> 0, deadline |-> 0]
  /\ toolPipes = [s \in Streams |->
       [written |-> 0, read |-> 0, held |-> <<>>, reader |-> "on", tail |-> EmptyTail]]
  /\ toolChannel = <<>> /\ toolStdin = "none" /\ toolCancel = "none"
  /\ toolDrained = FALSE

\* Nothing is followed once the call has answered.
Called == toolStep \notin {"idle", "done"}
Alive == "running" \in {toolTree.child, toolTree.descendant}
Drop(q, n) == SubSeq(q, n + 1, Len(q))

(* TailBuffer::push: a chunk at least as long as the tail replaces it, *)
(* another pushes out what no longer fits. *)
Push(tail, chunk) ==
  LET overflow == Len(tail.bytes) + Len(chunk) - TailSize IN
  IF Len(chunk) >= TailSize
  THEN [bytes |-> Drop(chunk, Len(chunk) - TailSize),
        truncated |-> tail.truncated + overflow]
  ELSE IF overflow > 0
  THEN [bytes |-> Drop(tail.bytes, overflow) \o chunk,
        truncated |-> tail.truncated + overflow]
  ELSE [tail EXCEPT !.bytes = @ \o chunk]

-----------------------------------------------------------------------------
(* the process *)

Forks ==
  /\ Called /\ toolTree.child = "running" /\ toolTree.descendant = "none"
  /\ toolTree' = [toolTree EXCEPT !.descendant = "running"]
  /\ UNCHANGED <<toolStep, toolEnd, toolTime, toolPipes, toolChannel, toolStdin,
                 toolCancel, toolDrained>>

Ends ==
  /\ Called
  /\ \/ toolTree.child = "running" /\ toolTree' = [toolTree EXCEPT !.child = "exited"]
     \/ /\ toolTree.descendant = "running"
        /\ toolTree' = [toolTree EXCEPT !.descendant = "gone"]
  /\ UNCHANGED <<toolStep, toolEnd, toolTime, toolPipes, toolChannel, toolStdin,
                 toolCancel, toolDrained>>

Prints(s) ==
  /\ Called /\ Alive /\ toolPipes[s].written < StreamBytes
  /\ toolPipes' = [toolPipes EXCEPT ![s].written = @ + 1]
  /\ UNCHANGED <<toolStep, toolEnd, toolTree, toolTime, toolChannel, toolStdin,
                 toolCancel, toolDrained>>

(* The input is taken as long as someone can read it and fails after that. *)
InputMoves ==
  /\ Called /\ toolStdin = "writing"
  /\ \/ Alive /\ toolStdin' = "written"
     \/ ~Alive /\ toolStdin' = "failed"
  /\ UNCHANGED <<toolStep, toolEnd, toolTree, toolTime, toolPipes, toolChannel,
                 toolCancel, toolDrained>>

CancelRequested ==
  /\ toolStep \in {"check", "select"} /\ toolCancel = "quiet" /\ toolCancel' = "requested"
  /\ UNCHANGED <<toolStep, toolEnd, toolTree, toolTime, toolPipes, toolChannel,
                 toolStdin, toolDrained>>

-----------------------------------------------------------------------------
(* the readers *)

(* read what the pipe holds, send it, or end at the end of the stream *)
ReaderMoves(s) ==
  LET p == toolPipes[s] IN
  /\ Called /\ p.reader = "on"
  /\ \/ /\ p.held = <<>> /\ p.read < p.written
        /\ toolPipes' = [toolPipes EXCEPT
             ![s].held = [i \in 1..(p.written - p.read) |-> p.read + i],
             ![s].read = p.written]
        /\ UNCHANGED toolChannel
     \/ /\ p.held # <<>> /\ Len(toolChannel) < ChannelSize
        /\ toolChannel' = Append(toolChannel, [stream |-> s, bytes |-> p.held])
        /\ toolPipes' = [toolPipes EXCEPT ![s].held = <<>>]
     \/ /\ p.held = <<>> /\ p.read = p.written /\ ~Alive
        /\ toolPipes' = [toolPipes EXCEPT ![s].reader = "ended"]
        /\ UNCHANGED toolChannel
  /\ UNCHANGED <<toolStep, toolEnd, toolTree, toolTime, toolStdin, toolCancel, toolDrained>>

-----------------------------------------------------------------------------
(* run_contained_process *)

(* the tree after its end by the job or by the kill of the child *)
Died(tree) ==
  [tree EXCEPT !.child = IF @ = "running" THEN "killed" ELSE @,
               !.descendant = IF @ = "running" /\ tree.platform = "windows" THEN "gone" ELSE @]

ToolStart ==
  /\ toolStep = "idle"
  /\ \E platform \in Platforms, input \in BOOLEAN, cancel \in {"none", "quiet"},
        job \in BOOLEAN :
       LET born == [platform |-> platform, job |-> job,
                    child |-> "running", descendant |-> "none"] IN
       \/ /\ job \/ (platform = "windows" /\ "job" \in ToolFaults)
          /\ toolTree' = born
          /\ toolStep' = "check"
          /\ toolStdin' = IF input THEN "writing" ELSE "none"
          /\ toolCancel' = cancel
          /\ UNCHANGED toolEnd
       \/ /\ "spawn" \in ToolFaults
          /\ toolStep' = "done" /\ toolEnd' = "spawn_failed"
          /\ UNCHANGED <<toolTree, toolStdin, toolCancel>>
       \/ /\ "assign" \in ToolFaults /\ platform = "windows"
          /\ toolTree' = Died(born)
          /\ toolStep' = "done" /\ toolEnd' = "error"
          /\ UNCHANGED <<toolStdin, toolCancel>>
  /\ UNCHANGED <<toolTime, toolPipes, toolChannel, toolDrained>>

Stuck == toolTree.platform = "windows" /\ ~toolTree.job

(* terminate_child: a job that cannot be terminated fails the call, whose  *)
(* handles then kill what they own.                                        *)
Kill(reason) ==
  /\ toolTree' = Died(toolTree)
  /\ IF Stuck THEN toolStep' = "done" /\ toolEnd' = "error"
     ELSE toolStep' = "finish" /\ toolEnd' = reason

OverWall == toolTime.now >= WallLimit
OverIdle == toolTime.now - toolTime.progress >= IdleLimit

Check ==
  /\ toolStep = "check"
  /\ \/ OverWall /\ Kill("wall_timeout") /\ UNCHANGED toolTime
     \/ ~OverWall /\ OverIdle /\ Kill("idle_timeout") /\ UNCHANGED toolTime
     \/ /\ ~OverWall /\ ~OverIdle
        /\ toolStep' = "select"
        /\ toolTime' = [toolTime EXCEPT !.selected = toolTime.now]
        /\ UNCHANGED <<toolEnd, toolTree>>
  /\ UNCHANGED <<toolPipes, toolChannel, toolStdin, toolCancel, toolDrained>>

(* Back to the limits; processor time of the job counts as progress. *)
Again(progress) ==
  /\ toolStep' = "check"
  /\ \E p \in {progress} \cup (IF toolTree.platform = "windows" THEN {toolTime.now} ELSE {}) :
       toolTime' = [toolTime EXCEPT !.progress = p]

PushHead ==
  LET chunk == Head(toolChannel) IN
  /\ toolChannel' = Tail(toolChannel)
  /\ toolPipes' = [toolPipes EXCEPT ![chunk.stream].tail = Push(@, chunk.bytes)]

SelectExit ==
  /\ toolStep = "select" /\ toolTree.child = "exited"
  /\ toolStep' = "finish" /\ toolEnd' = "exited"
  /\ UNCHANGED <<toolTree, toolTime, toolPipes, toolChannel, toolStdin, toolCancel, toolDrained>>

SelectOutput ==
  /\ toolStep = "select" /\ toolChannel # <<>>
  /\ PushHead /\ Again(toolTime.now)
  /\ UNCHANGED <<toolEnd, toolTree, toolStdin, toolCancel, toolDrained>>

SelectCancel ==
  /\ toolStep = "select" /\ toolCancel = "requested"
  /\ Kill("cancelled")
  /\ UNCHANGED <<toolTime, toolPipes, toolChannel, toolStdin, toolCancel, toolDrained>>

SelectPoll ==
  /\ toolStep = "select" /\ toolTime.now > toolTime.selected
  /\ Again(toolTime.progress)
  /\ UNCHANGED <<toolEnd, toolTree, toolPipes, toolChannel, toolStdin, toolCancel, toolDrained>>

(* terminate what is left of the job, drop the sender, start to drain *)
StartDrain ==
  /\ toolStep = "finish" /\ toolStep' = "drain"
  /\ toolTree' = IF Stuck THEN toolTree ELSE Died(toolTree)
  /\ toolTime' = [toolTime EXCEPT !.deadline = toolTime.now + DrainLimit]
  /\ UNCHANGED <<toolEnd, toolPipes, toolChannel, toolStdin, toolCancel, toolDrained>>

Closed == toolChannel = <<>> /\ \A s \in Streams : toolPipes[s].reader = "ended"

(* drain_output *)
Drain ==
  /\ toolStep = "drain"
  /\ \/ /\ toolTime.now < toolTime.deadline /\ toolChannel # <<>>
        /\ PushHead
        /\ UNCHANGED <<toolStep, toolDrained>>
     \/ /\ toolTime.now < toolTime.deadline /\ Closed
        /\ toolStep' = "stdin" /\ toolDrained' = TRUE
        /\ UNCHANGED <<toolPipes, toolChannel>>
     \/ /\ toolTime.now >= toolTime.deadline
        /\ toolStep' = "stdin"
        /\ toolPipes' = [s \in Streams |-> [toolPipes[s] EXCEPT
             !.reader = IF @ = "on" THEN "aborted" ELSE @]]
        /\ UNCHANGED <<toolChannel, toolDrained>>
  /\ UNCHANGED <<toolEnd, toolTree, toolTime, toolStdin, toolCancel>>

(* The input task is awaited without a limit; its failure fails the call   *)
(* only if the process exited by itself.  The job handle is closed.        *)
ToolAnswers ==
  /\ toolStep = "stdin" /\ toolStdin # "writing"
  /\ toolStep' = "done"
  /\ toolEnd' = IF toolStdin = "failed" /\ toolEnd = "exited" THEN "error" ELSE toolEnd
  /\ toolTree' = Died(toolTree)
  /\ UNCHANGED <<toolTime, toolPipes, toolChannel, toolStdin, toolCancel, toolDrained>>

(* Time passes while the call has nothing to react to. *)
ToolTick ==
  /\ \/ /\ toolStep = "select" /\ toolTime.now = toolTime.selected
        /\ toolTree.child # "exited" /\ toolChannel = <<>> /\ toolCancel # "requested"
     \/ /\ toolStep = "drain" /\ toolTime.now < toolTime.deadline
        /\ toolChannel = <<>> /\ ~Closed
  /\ toolTime' = [toolTime EXCEPT !.now = @ + 1]
  /\ UNCHANGED <<toolStep, toolEnd, toolTree, toolPipes, toolChannel, toolStdin,
                 toolCancel, toolDrained>>

CallSteps ==
  \/ Check \/ SelectExit \/ SelectOutput \/ SelectCancel \/ SelectPoll
  \/ StartDrain \/ Drain \/ ToolAnswers \/ ToolTick

ToolNext ==
  \/ ToolStart \/ CallSteps \/ Forks \/ Ends \/ InputMoves \/ CancelRequested
  \/ \E s \in Streams : Prints(s) \/ ReaderMoves(s)

(* The runtime polls the call and its tasks; nothing makes a process end or *)
(* a living one read its input. *)
ToolFairness ==
  /\ WF_toolVars(CallSteps)
  /\ WF_toolVars(~Alive /\ InputMoves)
  /\ \A s \in Streams : WF_toolVars(ReaderMoves(s))

-----------------------------------------------------------------------------
(* Properties *)

(* Nothing of the tree is alive when the call has answered, except, where  *)
(* there is no job, a descendant (terminate_child, the job handle).        *)
TreeReleased ==
  toolStep = "done" =>
    /\ toolTree.child # "running"
    /\ toolTree.platform = "windows" => toolTree.descendant # "running"

(* What is captured of a stream is a gapless tail of what was taken from   *)
(* it, the rest of that is counted as truncated, and it is the whole       *)
(* stream if the drain saw the channel closed: exit, limits, readers and   *)
(* drain race for the last chunks (TailBuffer, drain_output).              *)
OutputAccounted ==
  toolStep = "done" => \A s \in Streams :
    LET p == toolPipes[s]
        taken == p.tail.truncated + Len(p.tail.bytes) IN
    /\ p.tail.bytes = [i \in 1..Len(p.tail.bytes) |-> p.tail.truncated + i]
    /\ taken <= p.written
    /\ Len(p.tail.bytes) = IF taken < TailSize THEN taken ELSE TailSize
    /\ toolDrained => taken = p.written

(* Every call answers, whatever the process does, unless a descendant that *)
(* no job ended holds an input pipe that it does not read: the limits do   *)
(* not cover the wait for the input task (run_contained_process).          *)
ToolAnswered ==
  \/ toolStep = "done"
  \/ /\ toolStep = "stdin" /\ toolStdin = "writing"
     /\ toolTree.descendant = "running" /\ (toolTree.platform = "unix" \/ Stuck)

ToolReturns == toolStep = "check" ~> ToolAnswered
=============================================================================
