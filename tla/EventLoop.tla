------------------------------ MODULE EventLoop ------------------------------
(***************************************************************************)
(* The loop of src/epoll/epoll.cpp: standard input and a periodic timer    *)
(* under one level-triggered epoll instance.  Input, timer and the list    *)
(* of ready files are the kernel's.                                        *)
(***************************************************************************)
EXTENDS Naturals, Integers, Sequences, SequencesExt

CONSTANTS
  Chunk,      \* what is typed, in pieces of at most a page
  BufferSize  \* how many pieces handle_stdin reads at once (len)

LoopAssumption == BufferSize \in Nat \ {0}

VARIABLES
  input,    \* the pieces that stand in standard input
  closed,   \* standard input has been closed (end of file)
  ticks,    \* the timer has expired and was not read since
  evs,      \* evs: the handlers still to be called, "stdin" and "timer"
  echoed,   \* the pieces on standard output
  due       \* history: the expirations not announced; -1 once there was an
            \* announcement too many

loopVars == <<input, closed, ticks, evs, echoed, due>>

MaxDue == 1  \* bound: the timer waits until an expiration is announced

(* Both files are registered.                                               *)
Init ==
  /\ input = <<>> /\ closed = FALSE /\ ticks = FALSE
  /\ evs = <<>> /\ echoed = <<>> /\ due = 0

(* The kernel and the user.                                                 *)
Type ==
  /\ ~closed
  /\ \E c \in Chunk \ (ToSet(input) \cup ToSet(echoed)) : input' = Append(input, c)
  /\ UNCHANGED <<closed, ticks, evs, echoed, due>>

CloseInput ==
  /\ ~closed
  /\ closed' = TRUE
  /\ UNCHANGED <<input, ticks, evs, echoed, due>>

Expire ==
  /\ due < MaxDue
  /\ ticks' = TRUE
  /\ due' = IF due = -1 THEN -1 ELSE due + 1
  /\ UNCHANGED <<input, closed, evs, echoed>>

(* The files epoll reports: it does so as long as they can be read.         *)
Ready ==
  (IF input # <<>> \/ closed THEN {"stdin"} ELSE {})
    \cup (IF ticks THEN {"timer"} ELSE {})

(* Mutant of Wait: the loop over evs begins with its second entry.          *)
WaitFromOne ==
  /\ evs = <<>>
  /\ Ready # {}
  /\ \E order \in SetToSeqs(Ready) : evs' = Tail(order)
  /\ UNCHANGED <<input, closed, ticks, echoed, due>>

(* epoll_wait blocks until a file is ready, and reports all (evs has room   *)
(* for four) in some order.                                                 *)
Wait ==
  /\ evs = <<>>
  /\ Ready # {}
  /\ \E order \in SetToSeqs(Ready) : evs' = order
  /\ UNCHANGED <<input, closed, ticks, echoed, due>>

Called(handler) ==
  /\ evs # <<>>
  /\ Head(evs) = handler
  /\ evs' = Tail(evs)

(* What read answers is written; at the end of file that is nothing.        *)
HandleStdin ==
  LET n == IF Len(input) < BufferSize THEN Len(input) ELSE BufferSize
  IN  /\ Called("stdin")
      /\ echoed' = echoed \o SubSeq(input, 1, n)
      /\ input' = SubSeq(input, n + 1, Len(input))
      /\ UNCHANGED <<closed, ticks, due>>

(* The expiration is announced.  The read that should reset the timer asks  *)
(* for one byte; the kernel refuses less than eight, and the timer stays    *)
(* readable.                                                                *)
HandleTimer ==
  /\ Called("timer")
  /\ due' = IF due > 0 THEN due - 1 ELSE -1
  /\ UNCHANGED <<input, closed, ticks, echoed>>

LoopStep == Wait \/ HandleStdin \/ HandleTimer

Next == Type \/ CloseInput \/ Expire \/ LoopStep

Spec == Init /\ [][Next]_loopVars

-----------------------------------------------------------------------------
(* Properties                                                               *)

(* A reader never waits for ever for its input to come back: every piece    *)
(* typed is written, although the timer is always ready once it has expired *)
(* and input longer than the buffer takes several rounds.                   *)
InputEchoed == \A c \in Chunk : c \in ToSet(input) ~> c \in ToSet(echoed)

(* "重制定时器" (reset the timer): an expiration is announced once.            *)
AnnouncedOnce == due >= 0
=============================================================================
