----------------------------- MODULE ModprnPoll -----------------------------
(***************************************************************************)
(* Polled receive on one channel of the MODPRN-02 serial board             *)
(* (src/hw/modprn02/hw_modprn02.c): a program that calls modprn_getch,     *)
(* modprn_getchBuf and modprn_sendBreak in any order after setup_modprn.   *)
(* RTS is raised only while a call waits for a character.                  *)
(*                                                                         *)
(* The chip and the peer are not in the repository.  The peer numbers the  *)
(* characters it sends 1, 2, 3, ...  It sends whenever RTS is up, a call   *)
(* that waits sees to it that this is at most Burst characters, and up to  *)
(* Slack more arrive once RTS is lowered, at any later time.               *)
(*                                                                         *)
(* Two bytes written to the control port are one step: nobody else writes  *)
(* to it, and the chip's other state is not touched by them.               *)
(***************************************************************************)
EXTENDS Sio, Sequences, Functions

CONSTANTS
  FifoDepth,  \* characters the chip holds unread
  Burst,      \* most characters sent before a waiting call lowers RTS
  Slack,      \* most characters that still arrive once RTS is lowered
  MaxSent,    \* bound on the characters the peer sends
  BufSizes    \* sizes of the buffers modprn_getchBuf is given

ASSUME SizeAssumption ==
  /\ FifoDepth \in Nat \ {0} /\ Burst \in Nat \ {0} /\ Slack \in Nat
  /\ MaxSent \in Nat
  /\ BufSizes \subseteq 0..255

VARIABLES
  \* the program
  pc,                  \* where it is
  bufSize, buf_used,   \* of modprn_getchBuf; one character for modprn_getch
  \* the chip
  rts,                 \* bit of write register 5
  fifo,                \* received and unread
  \* the peer
  credit, sent,        \* characters it may still send; characters sent
  \* history
  received,            \* all characters the calls returned
  windowed             \* a call has found RTS down and raised it

progVars == <<bufSize, buf_used, received>>
vars     == <<pc, progVars, rts, fifo, credit, sent, windowed>>

-----------------------------------------------------------------------------
(* The chip.                                                               *)

\* RTS after v has been written to register 5, select byte first.
RtsAfter(v) ==
  LET r == [ptr |-> 0, rts |-> rts, txOn |-> TRUE, brk |-> FALSE, err |-> FALSE]
  IN  Write(Write(r, 5), v).rts

\* What the peer may send once RTS is down.
Drop == IF rts THEN Slack ELSE credit

-----------------------------------------------------------------------------
(* The program.                                                            *)

\* setup_modprn ends by raising RTS, long before the first call.
Setup ==
  /\ pc = "setup" /\ pc' = "idle"
  /\ rts' = RtsAfter(Reg5 + RtsFlag)
  /\ fifo' = <<>>
  /\ credit' = MaxSent
  /\ UNCHANGED <<progVars, sent, windowed>>

Getch ==
  /\ pc = "idle" /\ pc' = "test"
  /\ bufSize' = 1 /\ buf_used' = 0
  /\ UNCHANGED <<rts, fifo, credit, sent, received, windowed>>

GetchBuf(n) ==
  /\ pc = "idle" /\ pc' = "test"
  /\ bufSize' = n /\ buf_used' = 0
  /\ UNCHANGED <<rts, fifo, credit, sent, received, windowed>>

BugTestSkipped ==
  /\ pc = "test" /\ pc' = "raise"
  /\ UNCHANGED <<progVars, rts, fifo, credit, sent, windowed>>

\* A waiting character is read without touching RTS.
Test ==
  /\ pc = "test"
  /\ pc' = IF fifo = <<>> THEN "raise" ELSE "data"
  /\ UNCHANGED <<progVars, rts, fifo, credit, sent, windowed>>

BugNoRaise ==
  /\ pc = "raise" /\ pc' = "poll"
  /\ UNCHANGED <<progVars, rts, fifo, credit, sent, windowed>>

Raise ==
  /\ pc = "raise" /\ pc' = "poll"
  /\ rts' = RtsAfter(Reg5 + RtsFlag)
  /\ credit' = Burst
  /\ windowed' = (windowed \/ ~rts)
  /\ UNCHANGED <<progVars, fifo, sent>>

\* The loop ends when it sees a character.
Poll ==
  /\ pc = "poll" /\ fifo # <<>> /\ pc' = "lower"
  /\ UNCHANGED <<progVars, rts, fifo, credit, sent, windowed>>

Spin == pc = "poll" /\ fifo = <<>> /\ UNCHANGED vars

Lower ==
  /\ pc = "lower" /\ pc' = "data"
  /\ rts' = RtsAfter(Reg5)
  /\ credit' = Drop
  /\ UNCHANGED <<progVars, fifo, sent, windowed>>

\* An empty chip reads as 0.  modprn_getch returns here; modprn_getchBuf,
\* which for one character does the same, looks for more.
Data ==
  /\ pc = "data" /\ pc' = "more"
  /\ received' = Append(received, IF fifo = <<>> THEN 0 ELSE Head(fifo))
  /\ fifo' = IF fifo = <<>> THEN fifo ELSE Tail(fifo)
  /\ buf_used' = buf_used + 1
  /\ UNCHANGED <<bufSize, rts, credit, sent, windowed>>

BugOneMore ==
  /\ pc = "more"
  /\ pc' = IF fifo # <<>> /\ buf_used <= bufSize THEN "data" ELSE "idle"
  /\ UNCHANGED <<progVars, rts, fifo, credit, sent, windowed>>

BugMoreUnseen ==
  /\ pc = "more"
  /\ pc' = IF buf_used < bufSize THEN "data" ELSE "idle"
  /\ UNCHANGED <<progVars, rts, fifo, credit, sent, windowed>>

More ==
  /\ pc = "more"
  /\ pc' = IF fifo # <<>> /\ buf_used < bufSize THEN "data" ELSE "idle"
  /\ UNCHANGED <<progVars, rts, fifo, credit, sent, windowed>>

\* modprn_sendBreak writes register 5 twice, RTS bit off both times.
SendBreak ==
  /\ pc = "idle"
  /\ rts' = RtsAfter(Reg5 + BreakFlag)
  /\ credit' = Drop
  /\ UNCHANGED <<pc, progVars, fifo, sent, windowed>>

Receive == Getch \/ \E n \in BufSizes : GetchBuf(n)

Program ==
  \/ Setup \/ Test \/ Raise \/ Poll \/ Lower \/ Data \/ More

-----------------------------------------------------------------------------
(* The chip and the peer.                                                  *)

\* A character arrives.  In a full fifo it overwrites the last one.
Arrive ==
  /\ pc # "setup"
  /\ credit > 0 /\ sent < MaxSent
  /\ sent' = sent + 1
  /\ credit' = credit - 1
  /\ fifo' = IF Len(fifo) < FifoDepth
             THEN Append(fifo, sent + 1)
             ELSE [fifo EXCEPT ![FifoDepth] = sent + 1]
  /\ UNCHANGED <<pc, progVars, rts, windowed>>

-----------------------------------------------------------------------------

Init ==
  /\ pc = "setup" /\ bufSize = 0 /\ buf_used = 0
  /\ rts = FALSE /\ fifo = <<>>
  /\ credit = 0 /\ sent = 0
  /\ received = <<>> /\ windowed = FALSE

Next == Program \/ Receive \/ SendBreak \/ Spin \/ Arrive

Spec == Init /\ [][Next]_vars

\* The processor runs, the program goes on receiving whatever else it calls,
\* and the peer sends what it has as soon as it may.
FairSpec ==
  Spec /\ WF_vars(Program) /\ SF_vars(Receive) /\ WF_vars(Arrive)

-----------------------------------------------------------------------------
(* Safety.                                                                 *)

\* Types: the fifo holds what the chip can, and every character returned is
\* one that was sent: no call reads a chip that has nothing
\* (modprn_getchBuf's second loop reads before it looks).
TypeOK ==
  /\ pc \in {"setup", "idle", "test", "raise", "poll", "lower", "data", "more"}
  /\ bufSize \in {0, 1} \cup BufSizes /\ buf_used \in Nat
  /\ rts \in BOOLEAN /\ windowed \in BOOLEAN
  /\ fifo \in Seq(1..MaxSent) /\ Len(fifo) <= FifoDepth
  /\ credit \in Nat /\ sent \in 0..MaxSent
  /\ received \in Seq(1..MaxSent)

\* Sent, but neither returned by a call nor waiting in the chip.
Lost == (1..sent) \ (Range(received) \cup Range(fifo))

\* Characters come back in the order they were sent, and once, through every
\* mix of the two calls and of breaks (modprn_getch, modprn_getchBuf).
InOrder ==
  \A i, j \in DOMAIN received : i < j => received[i] < received[j]

\* modprn_getchBuf stores no more than bufSize characters, and one if
\* bufSize is 0.
FitsBuffer == buf_used <= bufSize \/ buf_used = 1

\* Once a call has found RTS down and raised it no character is lost any
\* more, although the call looks for a waiting character and raises RTS in
\* separate steps.  Before, RTS stands as setup_modprn left it, also between
\* calls, and the chip overruns.
KeepsAll == [][Lost' # Lost => ~windowed]_vars

-----------------------------------------------------------------------------
(* Liveness.                                                               *)

\* Everything the peer has to send gets through to the program or is lost
\* by an overrun: RTS is always raised again, after a break too.
GetsThrough == <>(sent = MaxSent /\ fifo = <<>>)
=============================================================================
