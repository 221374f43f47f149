----------------------------- MODULE ModprnIrq -----------------------------
(***************************************************************************)
(* Interrupt-driven receive on channel A of the MODPRN-02 serial board     *)
(* (src/hw/modprn02/hw_modprn02.c), driven by the echo loop of             *)
(* esrc/modprnex01/modprnex01.c: the main program takes characters out of  *)
(* ch_buf, the receive interrupt puts them in, and both program the same   *)
(* SIO through one register pointer.  The RTS line is the only thing that  *)
(* keeps the two apart.                                                    *)
(*                                                                         *)
(* The chip (a Z80 SIO) and the peer at the other end of the line are not  *)
(* in the repository: they do what the driver counts on.  The peer numbers *)
(* the characters it sends 1, 2, 3, ...                                    *)
(*                                                                         *)
(* The interrupt handlers run with interrupts off, so the main program     *)
(* never moves while one is active; the chip and the peer always can.      *)
(*                                                                         *)
(* A definition named Bug... is the one behind it with a mistake: the      *)
(* properties are tried against it.                                        *)
(***************************************************************************)
EXTENDS Sio, Sequences

CONSTANTS
  Depth,      \* SIO_BUF_DEPTH
  FifoDepth,  \* characters the chip holds unread
  Peers,      \* the kinds of peer: most characters sent before RTS is lowered
              \* (burst), most that still arrive afterwards (slack)
  MaxSent,    \* bound on the characters the peer sends
  BootBytes   \* what memory may hold when the program is loaded

ASSUME SizeAssumption ==
  /\ FifoDepth \in Nat \ {0}
  /\ Depth \in Nat /\ FifoDepth <= Depth /\ Depth < 256
  /\ Peers \subseteq [burst : Nat \ {0}, slack : Nat] /\ MaxSent \in Nat
  /\ BootBytes \subseteq 0..255

VARIABLES
  \* the main program
  pc,              \* where it is
  tmp, chbuf,      \* a value read and not yet used; the character taken
  \* shared memory: ch_buf[Channel_A]
  avail, buf, idx,
  \* the interrupt system
  ei,              \* interrupts are enabled
  isr,             \* where the receive handler is
  \* the chip
  ptr, rts, txOn,  \* register pointer; two bits of write register 5
  fifo, overrun,   \* received and unread; the special condition is pending
  txBuf,           \* the character being sent, or NoChar
  \* the peer
  peer,            \* its kind
  cts, credit,     \* it may be sent to; characters it may still send
  sent, echoed,    \* characters sent so far; characters received back
  lost             \* history: characters overwritten in a full chip

mainVars == <<pc, tmp, chbuf>>
bufVars  == <<avail, buf, idx>>
irqVars  == <<ei, isr>>
regVars  == <<ptr, rts, txOn, overrun>>
lineVars == <<peer, cts, sent, echoed, lost>>
vars     == <<mainVars, bufVars, irqVars, regVars, fifo, txBuf, credit, lineVars>>

\* What a step of the processor that does no I/O leaves alone.
noIO == <<irqVars, regVars, fifo, txBuf, credit, lineVars>>

NoChar == -1

-----------------------------------------------------------------------------
(* Output to the SIO's control port.                                       *)

\* The break bit plays no part here.
Chip == [ptr |-> ptr, rts |-> rts, txOn |-> txOn, brk |-> FALSE, err |-> overrun]

\* The chip becomes r; the peer sees RTS move.
hw_outp_ctrl(r) ==
  /\ ptr' = r.ptr /\ rts' = r.rts /\ txOn' = r.txOn /\ overrun' = r.err
  /\ credit' = CASE r.rts /\ ~rts -> peer.burst
                 [] ~r.rts /\ rts -> peer.slack
                 [] OTHER         -> credit

-----------------------------------------------------------------------------
(* The main program.                                                       *)

MainRuns == isr = "idle"

Go(from, to) == MainRuns /\ pc = from /\ pc' = to

\* setup_modprn: sio_init resets the chip and ends by raising RTS ...
SioInit ==
  /\ Go("setup", "clear")
  /\ hw_outp_ctrl([Chip EXCEPT !.ptr = 0, !.rts = TRUE, !.txOn = TRUE, !.err = FALSE])
  /\ fifo' = <<>>
  /\ txBuf' = NoChar
  /\ UNCHANGED <<tmp, chbuf, bufVars, irqVars, lineVars>>

\* ... before the buffer is declared empty.
ClearBuf ==
  /\ Go("clear", "enable")
  /\ avail' = 0
  /\ UNCHANGED <<tmp, chbuf, buf, idx, noIO>>

\* modprn_setupInterrupts and hw_enableInterrupts.
EnableInterrupts ==
  /\ Go("enable", "wait")
  /\ ei' = TRUE
  /\ UNCHANGED <<tmp, chbuf, bufVars, isr, regVars, fifo, txBuf, credit, lineVars>>

\* modprn_int_getch: a step reads or writes shared state once.
Wait ==
  /\ Go("wait", "dec_read")
  /\ avail # 0
  /\ UNCHANGED <<tmp, chbuf, bufVars, noIO>>

Spin == MainRuns /\ pc = "wait" /\ avail = 0 /\ UNCHANGED vars

DecRead ==
  /\ Go("dec_read", "dec_write")
  /\ tmp' = avail
  /\ UNCHANGED <<chbuf, bufVars, noIO>>

DecWrite ==
  /\ Go("dec_write", "idx_read")
  /\ avail' = (tmp - 1) % 256
  /\ UNCHANGED <<tmp, chbuf, buf, idx, noIO>>

IdxRead ==
  /\ Go("idx_read", "take")
  /\ tmp' = idx
  /\ UNCHANGED <<chbuf, bufVars, noIO>>

Take ==
  /\ Go("take", "inc_read")
  /\ chbuf' = IF tmp < Depth THEN buf[tmp] ELSE 0
  /\ UNCHANGED <<tmp, bufVars, noIO>>

IncRead ==
  /\ Go("inc_read", "inc_write")
  /\ tmp' = idx
  /\ UNCHANGED <<chbuf, bufVars, noIO>>

BugIdxDown ==
  /\ Go("inc_write", "test")
  /\ idx' = tmp - 1
  /\ UNCHANGED <<tmp, chbuf, avail, buf, noIO>>

IncWrite ==
  /\ Go("inc_write", "test")
  /\ idx' = (tmp + 1) % 256
  /\ UNCHANGED <<tmp, chbuf, avail, buf, noIO>>

BugAlwaysRaise ==
  /\ Go("test", "rts_select")
  /\ UNCHANGED <<tmp, chbuf, bufVars, noIO>>

Test ==
  /\ Go("test", IF avail = 0 THEN "rts_select" ELSE "out_select")
  /\ UNCHANGED <<tmp, chbuf, bufVars, noIO>>

RtsSelect ==
  /\ Go("rts_select", "rts_write")
  /\ hw_outp_ctrl(Write(Chip, 5))
  /\ UNCHANGED <<tmp, chbuf, bufVars, irqVars, fifo, txBuf, lineVars>>

BugNoRaise ==
  /\ Go("rts_write", "out_select")
  /\ hw_outp_ctrl(Write(Chip, Reg5))
  /\ UNCHANGED <<tmp, chbuf, bufVars, irqVars, fifo, txBuf, lineVars>>

RtsWrite ==
  /\ Go("rts_write", "out_select")
  /\ hw_outp_ctrl(Write(Chip, Reg5 + RtsFlag))
  /\ UNCHANGED <<tmp, chbuf, bufVars, irqVars, fifo, txBuf, lineVars>>

\* modprn_outch: poll until the transmitter is empty and the peer is ready.
OutSelect ==
  /\ Go("out_select", "out_poll")
  /\ hw_outp_ctrl(Write(Chip, 0))
  /\ UNCHANGED <<tmp, chbuf, bufVars, irqVars, fifo, txBuf, lineVars>>

OutPoll ==
  /\ Go("out_poll", IF txBuf = NoChar /\ cts THEN "out_data" ELSE "out_select")
  /\ ptr' = 0
  /\ UNCHANGED <<tmp, chbuf, bufVars, irqVars, rts, txOn, overrun, fifo, txBuf,
                 credit, lineVars>>

OutData ==
  /\ Go("out_data", "wait")
  /\ txBuf' = chbuf
  /\ UNCHANGED <<tmp, chbuf, bufVars, irqVars, regVars, fifo, credit, lineVars>>

MainStep ==
  \/ SioInit \/ ClearBuf \/ EnableInterrupts
  \/ Wait \/ DecRead \/ DecWrite \/ IdxRead \/ Take \/ IncRead \/ IncWrite
  \/ Test \/ RtsSelect \/ RtsWrite
  \/ OutSelect \/ OutPoll \/ OutData

-----------------------------------------------------------------------------
(* The interrupt handlers.                                                 *)

\* The three control bytes of chA_intHandler_rx_charAvail before its loop.
BugRtsKept == Write(Chip, 0)
BugTxOff   == Write(Write(Write(Chip, 5), 0), 0)
LowerRts   == Write(Write(Write(Chip, 5), Reg5), 0)

BugIdxKept ==
  /\ ei /\ isr = "idle"
  /\ fifo # <<>> /\ ~overrun
  /\ hw_outp_ctrl(LowerRts)
  /\ isr' = "read"
  /\ UNCHANGED <<mainVars, bufVars, ei, fifo, txBuf, lineVars>>

\* chA_intHandler_rx_charAvail up to its loop.
CharAvail ==
  /\ ei /\ isr = "idle"
  /\ fifo # <<>> /\ ~overrun
  /\ hw_outp_ctrl(LowerRts)
  /\ idx' = 0
  /\ isr' = "read"
  /\ UNCHANGED <<mainVars, avail, buf, ei, fifo, txBuf, lineVars>>

\* The character goes to buf[avail].  Behind buf's last byte is idx; what is
\* behind that does not belong to channel A.
ReadData ==
  /\ isr = "read"
  /\ LET c == Head(fifo)
     IN  /\ buf' = IF avail < Depth THEN [buf EXCEPT ![avail] = c] ELSE buf
         /\ idx' = IF avail = Depth THEN c ELSE idx
  /\ fifo' = Tail(fifo)
  /\ avail' = (avail + 1) % 256
  /\ isr' = "poll"
  /\ UNCHANGED <<mainVars, ei, regVars, txBuf, credit, lineVars>>

PollMore ==
  /\ isr = "poll"
  /\ ptr' = 0
  /\ isr' = IF fifo # <<>> THEN "read" ELSE "idle"
  /\ credit' = IF rts /\ isr' = "idle" THEN peer.burst ELSE credit
  /\ UNCHANGED <<mainVars, bufVars, ei, rts, txOn, overrun, fifo, txBuf, lineVars>>

\* chA_intHandler_rx_specialCond, taken instead while an error is pending.
SpecialCond ==
  /\ ei /\ isr = "idle"
  /\ fifo # <<>> /\ overrun
  /\ hw_outp_ctrl(Write(Chip, RstErr))
  /\ UNCHANGED <<mainVars, bufVars, irqVars, fifo, txBuf, lineVars>>

Interrupt == CharAvail \/ ReadData \/ PollMore \/ SpecialCond

-----------------------------------------------------------------------------
(* The chip and the peer.                                                  *)

\* A character arrives.  In a full fifo it overwrites the last one.
Arrive ==
  /\ credit > 0 /\ sent < MaxSent
  /\ pc # "setup"
  /\ sent' = sent + 1
  /\ credit' = credit - 1
  /\ IF Len(fifo) < FifoDepth
     THEN fifo' = Append(fifo, sent + 1) /\ UNCHANGED <<overrun, lost>>
     ELSE /\ fifo' = [fifo EXCEPT ![FifoDepth] = sent + 1]
          /\ overrun' = TRUE
          /\ lost' = lost \cup {fifo[FifoDepth]}
  /\ UNCHANGED <<mainVars, bufVars, irqVars, ptr, rts, txOn, txBuf, peer, cts, echoed>>

\* The transmitter, when on, sends its character; the peer may then need a
\* pause.
Shift ==
  /\ txBuf # NoChar /\ txOn
  /\ echoed' = Append(echoed, txBuf)
  /\ txBuf' = NoChar
  /\ cts' \in {cts, FALSE}
  /\ UNCHANGED <<mainVars, bufVars, irqVars, regVars, fifo, credit, peer, sent, lost>>

CtsUp ==
  /\ ~cts
  /\ cts' = TRUE
  /\ UNCHANGED <<mainVars, bufVars, irqVars, regVars, fifo, txBuf, credit,
                 peer, sent, echoed, lost>>

-----------------------------------------------------------------------------

Init ==
  /\ pc = "setup" /\ tmp = 0 /\ chbuf = 0
  /\ avail \in BootBytes /\ idx \in BootBytes
  /\ buf = [i \in 0..(Depth - 1) |-> 0]
  /\ ei = FALSE /\ isr = "idle"
  /\ ptr = 0 /\ rts = FALSE /\ txOn = FALSE
  /\ fifo = <<>> /\ overrun = FALSE /\ txBuf = NoChar
  /\ peer \in Peers /\ cts = TRUE /\ credit = 0
  /\ sent = 0 /\ echoed = <<>> /\ lost = {}

Next == MainStep \/ Spin \/ Interrupt \/ Arrive \/ Shift \/ CtsUp

Spec == Init /\ [][Next]_vars

\* The processor runs, pending interrupts are taken, the transmitter sends,
\* and the peer gets ready again.
FairSpec ==
  /\ Spec
  /\ WF_vars(MainStep) /\ WF_vars(Interrupt)
  /\ WF_vars(Shift) /\ WF_vars(CtsUp)

-----------------------------------------------------------------------------
(* Safety.                                                                 *)

PCs == {"setup", "clear", "enable", "wait", "dec_read", "dec_write",
        "idx_read", "take", "inc_read", "inc_write", "test", "rts_select",
        "rts_write", "out_select", "out_poll", "out_data"}

\* Types: the buffer's counters are bytes, the fifo never holds more than the
\* chip does.
TypeOK ==
  /\ pc \in PCs /\ isr \in {"idle", "read", "poll"} /\ ei \in BOOLEAN
  /\ tmp \in Nat /\ avail \in 0..255
  /\ chbuf \in Nat /\ idx \in Nat /\ buf \in [0..(Depth - 1) -> Nat]
  /\ ptr \in 0..7 /\ rts \in BOOLEAN /\ txOn \in BOOLEAN /\ overrun \in BOOLEAN
  /\ fifo \in Seq(Nat) /\ Len(fifo) <= FifoDepth /\ txBuf \in Nat \cup {NoChar}
  /\ peer \in Peers /\ cts \in BOOLEAN /\ credit \in Nat
  /\ sent \in Nat /\ echoed \in Seq(Nat) /\ lost \subseteq Nat

\* modprn_int_getch between finding a character and having raised RTS.
Taking ==
  pc \in {"dec_read", "dec_write", "idx_read", "take", "inc_read", "inc_write",
          "test", "rts_select", "rts_write"}

\* The peer stops at once when RTS is lowered.
Prompt == peer.slack = 0

\* With a prompt peer RTS works as a lock on ch_buf and on the register
\* pointer: while the main program takes a character apart in several steps,
\* RTS is down, nothing waits in the chip and no receive interrupt is active.
BufferOwned == Prompt /\ Taking => ~rts /\ fifo = <<>> /\ isr = "idle"

\* The peer gets its own characters back in order, each once, and the only
\* ones left out are those the chip itself lost (main of modprnex01.c).
EchoInOrder ==
  \A i \in DOMAIN echoed :
    LET prev == IF i = 1 THEN 0 ELSE echoed[i - 1]
    IN  /\ prev < echoed[i]
        /\ (prev + 1)..(echoed[i] - 1) \subseteq lost

\* That is so whenever the peer is prompt, however large its bursts.
PromptEchoInOrder == Prompt => EchoInOrder

\* The buffer is deep enough for a peer that is not: what is still on its way
\* when RTS goes up again (a burst and twice the slack), and then another
\* burst and its slack.
Fits == 2 * peer.burst + 3 * peer.slack <= Depth

\* No store or load runs outside ch_buf's array (SIO_BUF_DEPTH), which the
\* handler does not check: if the peer is prompt, because RTS is a lock; if it
\* is slow, because the buffer is deep enough.
BufferSafe ==
  Prompt \/ Fits =>
    /\ isr = "read" => avail < Depth
    /\ pc = "take" => tmp < Depth

\* modprn_int_getch never waits for a character while RTS keeps the peer
\* from sending one, although a handler may lower RTS, or lose a byte of
\* the main program's to the wrong register, while it is being raised.
NoWedge ==
  Prompt \/ Fits =>
    (pc = "wait" /\ avail = 0 /\ isr = "idle" /\ fifo = <<>> => rts \/ credit > 0)

-----------------------------------------------------------------------------
(* Liveness.                                                               *)

\* Every character a prompt peer sends comes back to it unless the chip lost
\* it: again and again nothing is under way, so no step of the handshake
\* between RTS, the interrupt, the buffer and the transmitter stalls.
AllEchoed ==
  []<>(Prompt => \A k \in 1..sent : k \in lost \/ \E i \in DOMAIN echoed : echoed[i] = k)

\* The main program empties the buffer, after lost characters too.
Drains == Prompt /\ avail > 0 ~> avail = 0

\* modprn_outch, once called, sends its character.
OutchReturns == pc = "out_select" ~> pc = "wait"
=============================================================================
