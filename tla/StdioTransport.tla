--------------------------- MODULE StdioTransport ---------------------------
(***************************************************************************)
(* The transport to an MCP server that is a child process                   *)
(* (internal/mcp/transport/stdio.go): a goroutine reads its standard output *)
(* line by line into a bounded channel, one drains its standard error,      *)
(* senders share its standard input under a mutex, and Close ends it all.   *)
(* The three pipes are bounded, so whoever writes may have to wait for      *)
(* whoever reads, across the two processes.                                 *)
(*                                                                         *)
(* A line the child writes is its number; 0 is the error the stream ends    *)
(* with.  The child does one thing at a time.                               *)
(***************************************************************************)
EXTENDS Integers, Sequences

CONSTANTS
  PipeCap,    (* what fits in a pipe                                         *)
  InboxCap,   (* the channel incoming, 16 in the code                        *)
  MaxSends,   (* bound: calls of Send at the same time                       *)
  MaxLines    (* bound: lines of output                                      *)

ASSUME StdioAssumption ==
  /\ {PipeCap, InboxCap} \subseteq Nat \ {0}
  /\ {MaxSends, MaxLines} \subseteq Nat

VARIABLES
  child,      (* "none" in a behaviour without one, "alive" or "dead"        *)
  doing,      (* what the child is writing: "out", "note" or "nothing"     *)
  wrote,      (* lines of output it has written                              *)
  stdin, stdout, stderr,
  outLoop, hand, (* readStdoutLoop and what it has read                         *)
  errLoop,    (* drainStderrLoop                                             *)
  inbox,
  ear,        (* whether somebody still calls Receive                      *)
  heard,      (* what Receive has returned, in its order                    *)
  queued,     (* calls of Send that wait for sendMu                          *)
  writing,    (* one has it and writes                                       *)
  closing     (* how far Close has come                                      *)

childVars == <<child, doing, wrote>>
pipes     == <<stdin, stdout, stderr>>
readers   == <<outLoop, hand, errLoop>>
ears      == <<inbox, ear, heard>>
calling   == <<queued, writing>>
stdioVars == <<childVars, pipes, readers, ears, calling, closing>>

Lines == 1 .. MaxLines
StdioTypeOK ==
  /\ child \in {"none", "alive", "dead"}
  /\ doing \in {"nothing", "out", "note"}
  /\ wrote \in 0 .. MaxLines
  /\ {stdin, stderr} \subseteq 0 .. PipeCap
  /\ stdout \in Seq(Lines) /\ Len(stdout) <= PipeCap
  /\ outLoop \in {"reading", "putting", "ended"} /\ hand \in Lines \union {0}
  /\ errLoop \in {"scanning", "ended"}
  /\ inbox \in Seq(Lines \union {0}) /\ Len(inbox) <= InboxCap
  /\ ear \in BOOLEAN /\ heard \in Seq(Lines \union {0})
  /\ queued \in 0 .. MaxSends /\ writing \in BOOLEAN
  /\ closing \in {"open", "marked", "shut", "killed", "closed"}

StdioInit ==
  /\ child \in {"none", "alive"} /\ doing = "nothing" /\ wrote = 0
  /\ stdin = 0 /\ stdout = <<>> /\ stderr = 0
  /\ outLoop = "reading" /\ hand = 0 /\ errLoop = "scanning"
  /\ inbox = <<>> /\ ear = TRUE /\ heard = <<>>
  /\ queued = 0 /\ writing = FALSE
  /\ closing = "open"

PipesClosed == closing \in {"shut", "killed", "closed"}

-----------------------------------------------------------------------------
(* The child reads its input, and begins to write a line: of output, or of  *)
(* standard error.                                                          *)
ChildReads ==
  /\ child = "alive" /\ doing = "nothing" /\ stdin > 0
  /\ stdin' = stdin - 1
  /\ UNCHANGED <<childVars, stdout, stderr, readers, ears, calling, closing>>
ChildBegins(k) ==
  /\ child = "alive" /\ doing = "nothing"
  /\ k = "out" => wrote < MaxLines
  /\ doing' = k
  /\ UNCHANGED <<child, wrote, pipes, readers, ears, calling, closing>>
(* What it writes has to fit into the pipe.  A line is written as one: of a *)
(* child that dies within a line the loop hands on what it got before the   *)
(* end of the stream (stdio.go:118-130): noise to the client, or the line   *)
(* if only its newline is missing.                                          *)
ChildWrites ==
  /\ child = "alive" /\ doing # "nothing" /\ ~PipesClosed
  /\ IF doing = "out"
     THEN /\ Len(stdout) < PipeCap
          /\ stdout' = Append(stdout, wrote + 1) /\ wrote' = wrote + 1
          /\ UNCHANGED stderr
     ELSE /\ stderr < PipeCap /\ stderr' = stderr + 1
          /\ UNCHANGED <<stdout, wrote>>
  /\ doing' = "nothing"
  /\ UNCHANGED <<child, stdin, readers, ears, calling, closing>>
ChildDies ==
  /\ child = "alive"
  /\ child' = "dead" /\ doing' = "nothing"
  /\ UNCHANGED <<wrote, pipes, readers, ears, calling, closing>>

-----------------------------------------------------------------------------
(* readStdoutLoop: the lines, also a last one without its end, and then the *)
(* error, when the child is gone or the pipe is closed.                     *)
ReadLine ==
  /\ outLoop = "reading" /\ stdout # <<>>
  /\ hand' = Head(stdout) /\ stdout' = Tail(stdout) /\ outLoop' = "putting"
  /\ UNCHANGED <<childVars, stdin, stderr, errLoop, ears, calling, closing>>

ReadFailsAtExit ==
  /\ outLoop = "reading" /\ (child = "dead" \/ PipesClosed)
  /\ hand' = 0 /\ outLoop' = "putting"
  /\ UNCHANGED <<childVars, pipes, errLoop, ears, calling, closing>>
ReadFails ==
  /\ outLoop = "reading" /\ ((child = "dead" /\ stdout = <<>>) \/ PipesClosed)
  /\ hand' = 0 /\ outLoop' = "putting"
  /\ UNCHANGED <<childVars, pipes, errLoop, ears, calling, closing>>

(* Mutant: a plain send on the channel. *)
PutWhenRoom ==
  /\ outLoop = "putting"
  /\ Len(inbox) < InboxCap /\ inbox' = Append(inbox, hand)
  /\ outLoop' = IF hand = 0 THEN "ended" ELSE "reading"
  /\ UNCHANGED <<childVars, pipes, hand, errLoop, ear, heard, calling, closing>>
(* It is put into the channel, or the loop sees that Close was called.      *)
Put ==
  /\ outLoop = "putting"
  /\ \/ /\ Len(inbox) < InboxCap /\ inbox' = Append(inbox, hand)
        /\ outLoop' = IF hand = 0 THEN "ended" ELSE "reading"
     \/ /\ closing # "open" /\ outLoop' = "ended"
        /\ UNCHANGED inbox
  /\ UNCHANGED <<childVars, pipes, hand, errLoop, ear, heard, calling, closing>>

(* drainStderrLoop; a line longer than the scanner takes (64 KB) ends the   *)
(* scan, not only that line.                                                *)
DrainLine ==
  /\ errLoop = "scanning"
  /\ \/ /\ stderr > 0 /\ stderr' = stderr - 1
        /\ errLoop' \in {"scanning", "ended"}
     \/ /\ (child = "dead" /\ stderr = 0) \/ PipesClosed
        /\ errLoop' = "ended" /\ UNCHANGED stderr
  /\ UNCHANGED <<childVars, stdin, stdout, outLoop, hand, ears, calling, closing>>

-----------------------------------------------------------------------------
(* Send looks whether the transport is closed or its context done, takes    *)
(* the mutex, and looks once more.                                          *)
SendBegins ==
  /\ child # "none" /\ closing = "open" /\ queued < MaxSends
  /\ queued' = queued + 1
  /\ UNCHANGED <<childVars, pipes, readers, ears, writing, closing>>
SendLocks ==
  /\ queued > 0 /\ ~writing
  /\ queued' = queued - 1
  /\ writing' \in {FALSE, closing = "open"}
  /\ UNCHANGED <<childVars, pipes, readers, ears, closing>>

(* The write returns when there is room, or the other end or its own is     *)
(* closed.  The context of the call does not end it.                        *)
SendReturns ==
  /\ writing /\ writing' = FALSE
  /\ \/ /\ ~PipesClosed /\ child = "alive" /\ stdin < PipeCap
        /\ stdin' = stdin + 1
     \/ (PipesClosed \/ child = "dead") /\ UNCHANGED stdin
  /\ UNCHANGED <<childVars, stdout, stderr, readers, ears, queued, closing>>

(* Receive, called again until it returns an error: what is in the channel, *)
(* or that Close was called.  The client gives it no deadline.              *)
ReceiveLine ==
  /\ child # "none" /\ ear
  /\ \/ /\ inbox # <<>>
        /\ inbox' = Tail(inbox) /\ heard' = Append(heard, Head(inbox))
        /\ ear' = (Head(inbox) # 0)
     \/ /\ closing # "open" /\ ear' = FALSE
        /\ UNCHANGED <<inbox, heard>>
  /\ UNCHANGED <<childVars, pipes, readers, calling, closing>>
-----------------------------------------------------------------------------
(* Close: mark, close the pipes, kill, and wait for the process and the     *)
(* two goroutines.                                                          *)
CloseStep ==
  /\ child # "none"
  /\ \/ closing = "open" /\ closing' = "marked" /\ UNCHANGED <<child, doing>>
     \/ closing = "marked" /\ closing' = "shut" /\ UNCHANGED <<child, doing>>
     \/ /\ closing = "shut" /\ closing' = "killed"
        /\ child' = "dead" /\ doing' = "nothing"
     \/ /\ closing = "killed" /\ outLoop = "ended" /\ errLoop = "ended"
        /\ closing' = "closed" /\ UNCHANGED <<child, doing>>
  /\ UNCHANGED <<wrote, pipes, readers, ears, calling>>

StdioNext ==
  \/ ChildReads \/ ChildWrites \/ ChildDies
  \/ \E k \in {"out", "note"} : ChildBegins(k)
  \/ ReadLine \/ ReadFails \/ Put \/ DrainLine \/ ReceiveLine
  \/ SendBegins \/ SendLocks \/ SendReturns
  \/ CloseStep

StdioSpec == StdioInit /\ [][StdioNext]_stdioVars

(* The goroutines go on while they can, a line that fits into the pipe is   *)
(* written, and a Close that was begun continues.                           *)
StdioFairness ==
  /\ WF_stdioVars(ReadLine \/ ReadFails) /\ WF_stdioVars(Put)
  /\ WF_stdioVars(DrainLine) /\ WF_stdioVars(ReceiveLine) /\ WF_stdioVars(ChildWrites)
  /\ WF_stdioVars(closing # "open" /\ CloseStep)
  /\ WF_stdioVars(SendLocks) /\ WF_stdioVars(SendReturns)

-----------------------------------------------------------------------------
(* The lines arrive in their order and without a gap, the end of the stream *)
(* once and at the end, and before Close not without every line the child   *)
(* had written: the answer a server gives before it exits is not lost       *)
(* (stdio.go:114-140, 181-197).                                             *)
LinesArrive ==
  \A i \in DOMAIN heard :
    IF heard[i] # 0 THEN heard[i] = i
    ELSE i = Len(heard) /\ (closing = "open" => i = wrote + 1)

(* To who receives from it the transport is one stream of the lines the     *)
(* child writes, which Close stops.                                         *)
EndHeard == heard # <<>> /\ heard[Len(heard)] = 0
LinesHeard == IF EndHeard THEN SubSeq(heard, 1, Len(heard) - 1) ELSE heard
OutputEnd ==
  CASE ear -> "open"
    [] ~ear /\ EndHeard /\ Len(heard) = wrote + 1 -> "whole"
    [] ~ear /\ ~(EndHeard /\ Len(heard) = wrote + 1) -> "cut"
Output == INSTANCE OrderedStream
  WITH Items <- Lines, sent <- [i \in 1 .. wrote |-> i], heard <- LinesHeard,
       end <- OutputEnd, stopped <- (closing # "open")

(* As long as somebody receives, the child is not held up in a write; after *)
(* a line of standard error that is too long it may be, for ever            *)
(* (stdio.go:142-151).  Once Close was called it returns, whatever the      *)
(* child does, and with it every Send, also one whose write the child never *)
(* read.                                                                    *)
AtRest ==
  IF closing = "open" THEN doing = "nothing" \/ ~ear \/ errLoop = "ended"
  ELSE closing = "closed" /\ queued = 0 /\ ~writing
StdioComesToRest == (doing # "nothing" \/ closing # "open") ~> AtRest
=============================================================================
