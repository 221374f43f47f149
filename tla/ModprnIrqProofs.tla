-------------------------- MODULE ModprnIrqProofs --------------------------
(***************************************************************************)
(* Interrupt-driven receive, for every fifo, buffer and burst.  With a     *)
(* peer that stops at once when RTS is lowered (Prompt), RTS is a lock on  *)
(* the receive buffer and on the chip's register pointer; the transmitter, *)
(* the character in hand, the buffer and the chip hold consecutive pieces  *)
(* of what the peer sent.  With one that stops late the lock is gone, and  *)
(* the bounds of the buffer hold if it is deep enough (Fits).  The types   *)
(* hold for every peer.                                                    *)
(***************************************************************************)
EXTENDS ModprnIrq, SequenceTheorems, TLAPS

\* What RTS, the interrupt and the main program have to do with each other.
\* RTS is up only when the buffer is empty; with RTS down nothing arrives,
\* so once a handler has emptied the chip no other is entered.
Own ==
  /\ isr # "idle" => ei /\ ~rts /\ ~Taking
  /\ ei => pc \notin {"setup", "clear", "enable"}
  /\ ~rts => credit = 0
  /\ isr = "idle" /\ ~rts => fifo = <<>>
  /\ rts /\ pc \notin {"setup", "clear"} => avail = 0
  /\ Taking => ~rts
  /\ pc \in {"rts_select", "rts_write"} => avail = 0
  /\ ptr = IF pc = "rts_write" THEN 5 ELSE 0

-----------------------------------------------------------------------------
(* Lemmas.                                                                 *)

LEMMA WriteReg5 ==
  ASSUME NEW r, r.ptr = 5, NEW v
  PROVE  Write(r, v).ptr = 0 /\ Write(r, v).rts = Bit(v, RtsFlag)
BY DEF Write, Bit

\* The bytes the driver writes to the control port do what it means them to
\* if the register pointer is where it takes it to be.
LEMMA ChipBytes ==
  /\ ptr = 0 => /\ Write(Chip, 0).ptr = 0 /\ Write(Chip, 0).rts = rts
                /\ Write(Chip, 5).ptr = 5 /\ Write(Chip, 5).rts = rts
                /\ Write(Chip, RstErr).ptr = 0 /\ Write(Chip, RstErr).rts = rts
                /\ LowerRts.ptr = 0 /\ LowerRts.rts = FALSE
  /\ ptr = 5 => /\ Write(Chip, Reg5 + RtsFlag).ptr = 0
                /\ Write(Chip, Reg5 + RtsFlag).rts = TRUE
<1>1. Bit(Reg5, RtsFlag) = FALSE /\ Bit(Reg5 + RtsFlag, RtsFlag) = TRUE
  BY DEF Bit, Reg5, RtsFlag
<1>2. 5 % 8 = 5 /\ 0 % 8 = 0 /\ RstErr % 8 = 0
  BY DEF RstErr
<1>3. ASSUME ptr = 0 PROVE LowerRts.ptr = 0 /\ LowerRts.rts = FALSE
  <2>1. PICK a : a = Write(Chip, 5)
    OBVIOUS
  <2>2. PICK b : b = Write(a, Reg5)
    OBVIOUS
  <2>3. a.ptr = 5
    BY <1>2, <1>3, <2>1 DEF Write, Chip
  <2>4. b.ptr = 0 /\ b.rts = FALSE
    BY <1>1, <2>2, <2>3, WriteReg5
  <2>5. LowerRts = Write(b, 0)
    BY <2>1, <2>2 DEF LowerRts
  <2> QED
    BY <1>2, <2>4, <2>5 DEF Write
<1>4. ASSUME ptr = 0
      PROVE  /\ Write(Chip, 0).ptr = 0 /\ Write(Chip, 0).rts = rts
             /\ Write(Chip, 5).ptr = 5 /\ Write(Chip, 5).rts = rts
             /\ Write(Chip, RstErr).ptr = 0 /\ Write(Chip, RstErr).rts = rts
  BY <1>2, <1>4 DEF Write, Chip
<1>5. ASSUME ptr = 5
      PROVE  Write(Chip, Reg5 + RtsFlag).ptr = 0 /\ Write(Chip, Reg5 + RtsFlag).rts = TRUE
  <2>1. Chip.ptr = 5
    BY <1>5 DEF Chip
  <2> QED
    BY <1>1, <2>1, WriteReg5
<1> QED
  BY <1>3, <1>4, <1>5

-----------------------------------------------------------------------------
(* The lock.                                                               *)

LEMMA InitOwn == Init => Own
BY DEF Init, Own, Taking

LEMMA MainKeepsOwn ==
  ASSUME Prompt, Own, MainStep
  PROVE  Own'
<1> USE DEF Own
<1>1. isr = "idle" /\ isr' = "idle"
  BY DEF MainStep, SioInit, ClearBuf, EnableInterrupts, Wait, DecRead, DecWrite, IdxRead,
         Take, IncRead, IncWrite, Test, RtsSelect, RtsWrite, OutSelect, OutPoll, OutData,
         Go, MainRuns, noIO, irqVars
<1>2. CASE SioInit
  BY <1>1, <1>2 DEF SioInit, Go, hw_outp_ctrl, irqVars, bufVars, Taking
<1>3. CASE ClearBuf
  BY <1>1, <1>3 DEF ClearBuf, Go, noIO, irqVars, regVars, Taking
<1>4. CASE EnableInterrupts
  BY <1>1, <1>4 DEF EnableInterrupts, Go, regVars, bufVars, Taking
<1>5. CASE Wait
  BY <1>1, <1>5 DEF Wait, Go, noIO, irqVars, regVars, bufVars, Taking
<1>6. CASE DecRead \/ IdxRead \/ Take \/ IncRead
  BY <1>1, <1>6 DEF DecRead, IdxRead, Take, IncRead, Go, noIO, irqVars, regVars, bufVars,
                    Taking
<1>7. CASE DecWrite \/ IncWrite
  BY <1>1, <1>7 DEF DecWrite, IncWrite, Go, noIO, irqVars, regVars, bufVars, Taking
<1>8. CASE Test
  BY <1>1, <1>8 DEF Test, Go, noIO, irqVars, regVars, bufVars, Taking
<1>9. CASE RtsSelect
  <2>1. /\ pc = "rts_select" /\ pc' = "rts_write" /\ ptr = 0
        /\ UNCHANGED <<avail, ei, fifo>>
    BY <1>9 DEF RtsSelect, Go, irqVars, bufVars
  <2>2. ptr' = 5 /\ rts' = rts /\ credit' = credit
    BY <1>9, <2>1, ChipBytes DEF RtsSelect, hw_outp_ctrl
  <2> QED
    BY <1>1, <2>1, <2>2 DEF Taking
<1>10. CASE RtsWrite
  <2>1. /\ pc = "rts_write" /\ pc' = "out_select" /\ ptr = 5
        /\ UNCHANGED <<avail, ei, fifo>>
    BY <1>10 DEF RtsWrite, Go, irqVars, bufVars
  <2>2. ptr' = 0 /\ rts' = TRUE
    BY <1>10, <2>1, ChipBytes DEF RtsWrite, hw_outp_ctrl
  <2> QED
    BY <1>1, <2>1, <2>2 DEF Taking
<1>11. CASE OutSelect
  <2>1. /\ pc = "out_select" /\ pc' = "out_poll" /\ ptr = 0
        /\ UNCHANGED <<avail, ei, fifo>>
    BY <1>11 DEF OutSelect, Go, irqVars, bufVars
  <2>2. ptr' = 0 /\ rts' = rts /\ credit' = credit
    BY <1>11, <2>1, ChipBytes DEF OutSelect, hw_outp_ctrl
  <2> QED
    BY <1>1, <2>1, <2>2 DEF Taking
<1>12. CASE OutPoll \/ OutData
  BY <1>1, <1>12 DEF OutPoll, OutData, Go, irqVars, regVars, bufVars, Taking
<1> QED
  BY <1>2, <1>3, <1>4, <1>5, <1>6, <1>7, <1>8, <1>9, <1>10, <1>11, <1>12 DEF MainStep

LEMMA InterruptKeepsOwn ==
  ASSUME Prompt, Own, Interrupt
  PROVE  Own'
<1> USE DEF Own
<1>1. pc' = pc /\ ei' = ei
  BY DEF Interrupt, CharAvail, ReadData, PollMore, SpecialCond, mainVars, irqVars
<1>2. CASE CharAvail
  <2>1. ei /\ isr = "idle" /\ fifo # <<>> /\ isr' = "read" /\ avail' = avail
    BY <1>2 DEF CharAvail
  <2>2. rts /\ ~Taking /\ ptr = 0
    BY <2>1 DEF Taking
  <2>3. ptr' = 0 /\ rts' = FALSE /\ credit' = 0
    BY <1>2, <2>2, ChipBytes DEF CharAvail, hw_outp_ctrl, Prompt
  <2> QED
    BY <1>1, <2>1, <2>2, <2>3 DEF Taking
<1>3. CASE ReadData
  BY <1>1, <1>3 DEF ReadData, regVars, Taking
<1>4. CASE PollMore
  <2>1. isr = "poll" /\ UNCHANGED <<avail, rts, fifo>> /\ ptr' = 0
    BY <1>4 DEF PollMore, bufVars
  <2>2. ~rts /\ ~Taking /\ ptr = 0
    BY <2>1 DEF Taking
  <2>3. credit' = credit /\ (isr' = "idle" => fifo = <<>>)
    BY <1>4, <2>2 DEF PollMore
  <2> QED
    BY <1>1, <2>1, <2>2, <2>3 DEF Taking
<1>5. CASE SpecialCond
  <2>1. ei /\ isr = "idle" /\ fifo # <<>> /\ isr' = "idle" /\ UNCHANGED <<avail, fifo>>
    BY <1>5 DEF SpecialCond, irqVars, bufVars
  <2>2. rts /\ ~Taking /\ ptr = 0
    BY <2>1 DEF Taking
  <2>3. ptr' = 0 /\ rts' = rts
    BY <1>5, <2>2, ChipBytes DEF SpecialCond, hw_outp_ctrl
  <2> QED
    BY <1>1, <2>1, <2>2, <2>3 DEF Taking
<1> QED
  BY <1>2, <1>3, <1>4, <1>5 DEF Interrupt

LEMMA NextKeepsOwn ==
  ASSUME Prompt, Own, [Next]_vars
  PROVE  Own'
<1>1. CASE MainStep
  BY <1>1, MainKeepsOwn
<1>2. CASE Interrupt
  BY <1>2, InterruptKeepsOwn
<1>3. CASE Arrive
  BY <1>3 DEF Arrive, Own, Taking, mainVars, bufVars, irqVars
<1>4. CASE Shift \/ CtsUp \/ Spin \/ UNCHANGED vars
  <2>1. UNCHANGED <<pc, avail, ei, isr, ptr, rts, fifo, credit>>
    BY <1>4 DEF Shift, CtsUp, Spin, vars, mainVars, bufVars, irqVars, regVars, lineVars
  <2> QED
    BY <2>1 DEF Own, Taking
<1> QED
  BY <1>1, <1>2, <1>3, <1>4 DEF Next

\* The peer stays of the kind it is.
LEMMA PeerStays == [Next]_vars => peer' = peer
BY DEF Next, MainStep, SioInit, ClearBuf, EnableInterrupts, Wait, DecRead, DecWrite, IdxRead,
       Take, IncRead, IncWrite, Test, RtsSelect, RtsWrite, OutSelect, OutPoll, OutData,
       Spin, Interrupt, CharAvail, ReadData, PollMore, SpecialCond, Arrive, Shift, CtsUp,
       noIO, lineVars, vars

-----------------------------------------------------------------------------
(* The buffer.                                                             *)

\* avail and idx count what a single interrupt has stored: never more than
\* the chip held.  Whenever the main program may wait with RTS down there is
\* something to take.
Stored ==
  /\ avail \in Nat /\ idx \in Nat /\ tmp \in Nat
  /\ fifo \in Seq(Nat) /\ Len(fifo) <= FifoDepth /\ sent \in Nat
  /\ pc \in {"clear", "enable"} => rts
  /\ isr # "idle" => avail + Len(fifo) <= FifoDepth /\ idx = 0
  /\ isr = "read" => fifo # <<>>
  /\ isr = "poll" => avail > 0
  /\ isr = "idle" /\ ~rts /\ pc \in {"wait", "out_select", "out_poll", "out_data"} =>
        avail > 0 /\ avail + idx <= FifoDepth
  /\ pc \in {"dec_read", "dec_write"} => avail > 0 /\ avail + idx <= FifoDepth
  /\ pc \in {"idx_read", "take", "inc_read", "inc_write"} => avail + idx < FifoDepth
  /\ pc = "test" => avail + idx <= FifoDepth
  /\ pc = "dec_write" => tmp = avail
  /\ pc \in {"take", "inc_write"} => tmp = idx

LEMMA InitStored == Init => Stored
<1> SUFFICES ASSUME Init PROVE Stored
  OBVIOUS
<1>1. fifo = <<>> /\ fifo \in Seq(Nat) /\ Len(fifo) = 0
  BY EmptySeq DEF Init
<1>2. avail \in Nat /\ idx \in Nat
  BY SizeAssumption DEF Init
<1> QED
  BY <1>1, <1>2, SizeAssumption DEF Init, Stored

\* Bytes do not wrap where they count stored characters.
LEMMA NoWrap ==
  ASSUME NEW n \in Nat
  PROVE  /\ n > 0 /\ n <= FifoDepth => (n - 1) % 256 = n - 1 /\ n - 1 \in Nat
         /\ n < FifoDepth => (n + 1) % 256 = n + 1
BY SizeAssumption

LEMMA MainKeepsStored ==
  ASSUME Own, Stored, MainStep
  PROVE  Stored'
<1> USE DEF Stored
<1>1. isr = "idle" /\ isr' = "idle" /\ sent' = sent
  BY DEF MainStep, SioInit, ClearBuf, EnableInterrupts, Wait, DecRead, DecWrite, IdxRead,
         Take, IncRead, IncWrite, Test, RtsSelect, RtsWrite, OutSelect, OutPoll, OutData,
         Go, MainRuns, noIO, irqVars, lineVars
<1>2. CASE SioInit
  <2>1. /\ pc' = "clear" /\ rts' = TRUE /\ fifo' = <<>> /\ UNCHANGED <<avail, idx, tmp>>
    BY <1>2 DEF SioInit, Go, hw_outp_ctrl, bufVars
  <2>2. fifo' \in Seq(Nat) /\ Len(fifo') = 0
    BY <2>1, EmptySeq
  <2> QED
    BY <1>1, <2>1, <2>2, SizeAssumption
<1>3. CASE ClearBuf \/ EnableInterrupts
  <2>1. /\ pc \in {"clear", "enable"} /\ pc' \in {"enable", "wait"} /\ avail' \in Nat
        /\ UNCHANGED <<idx, tmp, fifo, rts>>
    BY <1>3 DEF ClearBuf, EnableInterrupts, Go, noIO, regVars, bufVars
  <2> QED
    BY <1>1, <2>1
<1>4. CASE Wait
  <2>1. /\ pc = "wait" /\ pc' = "dec_read" /\ avail # 0
        /\ UNCHANGED <<avail, idx, tmp, fifo, rts>>
    BY <1>4 DEF Wait, Go, noIO, regVars, bufVars
  <2>2. ~rts
    BY <2>1 DEF Own
  <2> QED
    BY <1>1, <2>1, <2>2
<1>5. CASE DecRead
  BY <1>1, <1>5 DEF DecRead, Go, noIO, regVars, bufVars
<1>6. CASE DecWrite
  <2>1. /\ pc = "dec_write" /\ pc' = "idx_read" /\ avail' = (avail - 1) % 256
        /\ UNCHANGED <<idx, tmp, fifo, rts>>
    BY <1>6 DEF DecWrite, Go, noIO, regVars
  <2>2. PICK a \in Nat, i \in Nat : a = avail /\ i = idx
    OBVIOUS
  <2>3. a > 0 /\ a + i <= FifoDepth /\ a <= FifoDepth
    BY <2>1, <2>2, SizeAssumption
  <2>4. avail' = a - 1 /\ a - 1 \in Nat
    BY <2>1, <2>2, <2>3, NoWrap
  <2>5. (a - 1) + i < FifoDepth
    BY <2>3, SizeAssumption
  <2> QED
    BY <1>1, <2>1, <2>2, <2>4, <2>5
<1>7. CASE IdxRead \/ Take \/ IncRead
  BY <1>1, <1>7 DEF IdxRead, Take, IncRead, Go, noIO, regVars, bufVars
<1>8. CASE IncWrite
  <2>1. /\ pc = "inc_write" /\ pc' = "test" /\ idx' = (idx + 1) % 256
        /\ UNCHANGED <<avail, tmp, fifo, rts>>
    BY <1>8 DEF IncWrite, Go, noIO, regVars
  <2>2. PICK a \in Nat, i \in Nat : a = avail /\ i = idx
    OBVIOUS
  <2>3. a + i < FifoDepth /\ i < FifoDepth
    BY <2>1, <2>2, SizeAssumption
  <2>4. idx' = i + 1
    BY <2>1, <2>2, <2>3, NoWrap
  <2>5. a + (i + 1) <= FifoDepth
    BY <2>3, SizeAssumption
  <2> QED
    BY <1>1, <2>1, <2>2, <2>4, <2>5
<1>9. CASE Test
  <2>1. /\ pc = "test" /\ pc' \in {"rts_select", "out_select"}
        /\ pc' = "out_select" => avail # 0
        /\ UNCHANGED <<avail, idx, tmp, fifo, rts>>
    BY <1>9 DEF Test, Go, noIO, regVars, bufVars
  <2> QED
    BY <1>1, <2>1
<1>10. CASE RtsSelect
  BY <1>1, <1>10 DEF RtsSelect, Go, bufVars
<1>11. CASE RtsWrite
  <2>1. /\ pc = "rts_write" /\ pc' = "out_select" /\ UNCHANGED <<avail, idx, tmp, fifo>>
    BY <1>11 DEF RtsWrite, Go, bufVars
  <2>2. rts' = TRUE
    BY <1>11, <2>1, ChipBytes DEF RtsWrite, hw_outp_ctrl, Own
  <2> QED
    BY <1>1, <2>1, <2>2
<1>12. CASE OutSelect \/ OutPoll \/ OutData
  <2>1. /\ pc \in {"out_select", "out_poll", "out_data"}
        /\ pc' \in {"out_select", "out_poll", "out_data", "wait"}
        /\ UNCHANGED <<avail, idx, tmp, fifo>>
    BY <1>12 DEF OutSelect, OutPoll, OutData, Go, bufVars
  <2>2. rts' = rts
    <3>1. CASE OutSelect
      <4>1. ptr = 0
        BY <2>1 DEF Own
      <4> QED
        BY <3>1, <4>1, ChipBytes DEF OutSelect, hw_outp_ctrl
    <3>2. CASE OutPoll \/ OutData
      BY <3>2 DEF OutPoll, OutData, regVars
    <3> QED
      BY <1>12, <3>1, <3>2
  <2> QED
    BY <1>1, <2>1, <2>2
<1> QED
  BY <1>2, <1>3, <1>4, <1>5, <1>6, <1>7, <1>8, <1>9, <1>10, <1>11, <1>12 DEF MainStep

LEMMA InterruptKeepsStored ==
  ASSUME Own, Stored, Interrupt
  PROVE  Stored'
<1> USE DEF Stored
<1>1. UNCHANGED <<pc, tmp, sent>>
  BY DEF Interrupt, CharAvail, ReadData, PollMore, SpecialCond, mainVars, lineVars
<1>2. PICK a \in Nat, n \in Nat : a = avail /\ n = Len(fifo)
  BY LenProperties
<1>3. CASE CharAvail
  <2>1. /\ ei /\ isr = "idle" /\ isr' = "read" /\ fifo # <<>> /\ idx' = 0
        /\ UNCHANGED <<avail, fifo>>
    BY <1>3 DEF CharAvail
  <2>2. avail = 0 /\ ~Taking /\ pc \notin {"clear", "enable"}
    BY <2>1 DEF Own, Taking
  <2>3. avail + Len(fifo) <= FifoDepth
    BY <1>2, <2>2
  <2> QED
    BY <1>1, <2>1, <2>2, <2>3 DEF Taking
<1>4. CASE ReadData
  <2>1. /\ isr = "read" /\ isr' = "poll" /\ fifo # <<>> /\ fifo' = Tail(fifo)
        /\ avail' = (avail + 1) % 256 /\ rts' = rts
        /\ idx' = IF avail = Depth THEN Head(fifo) ELSE idx
    BY <1>4 DEF ReadData, regVars
  <2>2. n > 0 /\ a + n <= FifoDepth
    BY <1>2, <2>1, EmptySeq
  <2>3. fifo' \in Seq(Nat) /\ Len(fifo') = n - 1
    BY <1>2, <2>1, HeadTailProperties
  <2>4. a < FifoDepth /\ a # Depth
    BY <2>2, SizeAssumption
  <2>5. avail' = a + 1 /\ idx' = idx
    BY <1>2, <2>1, <2>4, NoWrap
  <2>6. (a + 1) + (n - 1) <= FifoDepth /\ n - 1 <= FifoDepth /\ a + 1 > 0 /\ a + 1 \in Nat
    BY <2>2, SizeAssumption
  <2>7. ~Taking /\ pc \notin {"clear", "enable"}
    BY <2>1 DEF Own
  <2> QED
    BY <1>1, <1>2, <2>1, <2>3, <2>5, <2>6, <2>7 DEF Taking
<1>5. CASE PollMore
  <2>1. /\ isr = "poll" /\ isr' \in {"read", "idle"} /\ (isr' = "read" => fifo # <<>>)
        /\ UNCHANGED <<avail, idx, fifo, rts>>
    BY <1>5 DEF PollMore, bufVars
  <2>2. ~Taking /\ pc \notin {"clear", "enable"}
    BY <2>1 DEF Own
  <2>3. avail > 0 /\ avail + idx <= FifoDepth
    BY <1>2, <2>1, SizeAssumption
  <2> QED
    BY <1>1, <2>1, <2>2, <2>3 DEF Taking
<1>6. CASE SpecialCond
  <2>1. ei /\ isr = "idle" /\ isr' = "idle" /\ fifo # <<>> /\ UNCHANGED <<avail, idx, fifo>>
    BY <1>6 DEF SpecialCond, irqVars, bufVars
  <2>2. rts /\ ptr = 0
    BY <2>1 DEF Own, Taking
  <2>3. rts' = rts
    BY <1>6, <2>2, ChipBytes DEF SpecialCond, hw_outp_ctrl
  <2> QED
    BY <1>1, <2>1, <2>3
<1> QED
  BY <1>3, <1>4, <1>5, <1>6 DEF Interrupt

\* Characters that arrive meet no handler at work.
LEMMA ArriveKeepsStored ==
  ASSUME Own, Stored, Arrive
  PROVE  Stored'
<1> USE DEF Stored
<1>1. UNCHANGED <<pc, tmp, avail, idx, isr, rts>> /\ sent' = sent + 1
  BY DEF Arrive, mainVars, bufVars, irqVars
<1>2. isr = "idle"
  BY SizeAssumption DEF Arrive, Own
<1>3. fifo' \in Seq(Nat) /\ Len(fifo') <= FifoDepth
  <2>1. sent + 1 \in Nat
    OBVIOUS
  <2>2. CASE Len(fifo) < FifoDepth
    <3>1. fifo' = Append(fifo, sent + 1)
      BY <2>2 DEF Arrive
    <3>2. fifo' \in Seq(Nat) /\ Len(fifo') = Len(fifo) + 1
      BY <2>1, <3>1, AppendProperties
    <3> QED
      BY <2>2, <3>2, LenProperties, SizeAssumption
  <2>3. CASE ~(Len(fifo) < FifoDepth)
    <3>1. fifo' = [fifo EXCEPT ![FifoDepth] = sent + 1]
      BY <2>3 DEF Arrive
    <3>2. FifoDepth \in 1..Len(fifo)
      BY <2>3, LenProperties, SizeAssumption
    <3>3. fifo' \in Seq(Nat) /\ Len(fifo') = Len(fifo)
      BY <2>1, <3>1, <3>2, ExceptSeq
    <3> QED
      BY <3>3
  <2> QED
    BY <2>2, <2>3
<1> QED
  BY <1>1, <1>2, <1>3

LEMMA NextKeepsStored ==
  ASSUME Own, Stored, [Next]_vars
  PROVE  Stored'
<1>1. CASE MainStep
  BY <1>1, MainKeepsStored
<1>2. CASE Interrupt
  BY <1>2, InterruptKeepsStored
<1>3. CASE Arrive
  BY <1>3, ArriveKeepsStored
<1>4. CASE Shift \/ CtsUp \/ Spin \/ UNCHANGED vars
  <2>1. UNCHANGED <<pc, tmp, avail, idx, isr, rts, fifo, sent>>
    BY <1>4 DEF Shift, CtsUp, Spin, vars, mainVars, bufVars, irqVars, regVars, lineVars
  <2> QED
    BY <2>1 DEF Stored
<1> QED
  BY <1>1, <1>2, <1>3, <1>4 DEF Next

\* Both parts of the invariant, for a peer that stops at once.
THEOREM InvHolds == Spec => [](Prompt => Own /\ Stored)
<1>1. Init => (Prompt => Own /\ Stored)
  BY InitOwn, InitStored
<1>2. (Prompt => Own /\ Stored) /\ [Next]_vars => (Prompt => Own /\ Stored)'
  BY NextKeepsOwn, NextKeepsStored, PeerStays DEF Prompt
<1> QED
  BY <1>1, <1>2, PTL DEF Spec

\* If the peer stops at once, RTS is a lock (BufferOwned): while the main
\* program takes a character apart RTS is down, the chip is empty and no
\* handler runs, however many characters a burst has.
THEOREM BufferOwnedHolds == Spec => []BufferOwned
<1>1. (Prompt => Own /\ Stored) => BufferOwned
  BY DEF Own, BufferOwned
<1> QED
  BY <1>1, InvHolds, PTL

-----------------------------------------------------------------------------
(* Types.                                                                  *)

\* A handler that is to read has something to read.
Typed == TypeOK /\ (isr = "read" => fifo # <<>>)

LEMMA WriteType == ASSUME NEW r \in Reg, NEW v \in Nat PROVE Write(r, v) \in Reg
<1>1. v % 8 \in 0..7
  OBVIOUS
<1>2. Write(r, v).ptr \in 0..7
  BY <1>1 DEF Write
<1>3. Bit(v, RtsFlag) \in BOOLEAN /\ Bit(v, 8) \in BOOLEAN /\ Bit(v, BreakFlag) \in BOOLEAN
  BY DEF Bit
<1>4. /\ r.rts \in BOOLEAN /\ r.txOn \in BOOLEAN /\ r.brk \in BOOLEAN /\ r.err \in BOOLEAN
      /\ (r.err /\ ~(r.ptr = 0 /\ (v \div 8) % 8 = RstErr \div 8)) \in BOOLEAN
  BY DEF Reg
<1> QED
  BY <1>1, <1>3, <1>4 DEF Write, Reg

\* Whatever is written to the control port.
LEMMA CtrlTypes ==
  ASSUME TypeOK, NEW r \in Reg, hw_outp_ctrl(r)
  PROVE  /\ ptr' \in 0..7 /\ rts' \in BOOLEAN /\ txOn' \in BOOLEAN /\ overrun' \in BOOLEAN
         /\ credit' \in Nat
<1>1. peer.burst \in Nat /\ peer.slack \in Nat
  BY SizeAssumption DEF TypeOK
<1>2. credit' \in Nat
  BY <1>1 DEF hw_outp_ctrl, TypeOK
<1>3. ptr' = r.ptr /\ rts' = r.rts /\ txOn' = r.txOn /\ overrun' = r.err
  BY DEF hw_outp_ctrl
<1>4. r.ptr \in 0..7 /\ r.rts \in BOOLEAN /\ r.txOn \in BOOLEAN /\ r.err \in BOOLEAN
  BY DEF Reg
<1> QED
  BY <1>2, <1>3, <1>4

LEMMA CtrlBytes ==
  ASSUME TypeOK
  PROVE  /\ Chip \in Reg /\ LowerRts \in Reg
         /\ \A v \in {0, 5, Reg5 + RtsFlag, RstErr} : Write(Chip, v) \in Reg
<1>1. Chip \in Reg
  BY DEF TypeOK, Chip, Reg
<1>2. Reg5 \in Nat /\ Reg5 + RtsFlag \in Nat /\ RstErr \in Nat
  BY DEF Reg5, RtsFlag, RstErr
<1>3. \A v \in {0, 5, Reg5 + RtsFlag, RstErr} : Write(Chip, v) \in Reg
  BY <1>1, <1>2, WriteType
<1>4. LowerRts \in Reg
  <2>1. Write(Write(Chip, 5), Reg5) \in Reg
    BY <1>1, <1>2, WriteType
  <2> QED
    BY <2>1, WriteType DEF LowerRts
<1> QED
  BY <1>1, <1>3, <1>4

LEMMA InitTyped == Init => Typed
<1> SUFFICES ASSUME Init PROVE Typed
  OBVIOUS
<1>1. fifo \in Seq(Nat) /\ Len(fifo) = 0 /\ echoed \in Seq(Nat)
  BY EmptySeq DEF Init
<1>2. avail \in 0..255 /\ idx \in Nat
  BY SizeAssumption DEF Init
<1>3. buf \in [0..(Depth - 1) -> Nat] /\ chbuf \in Nat /\ tmp \in Nat
  <2>1. buf = [i \in 0..(Depth - 1) |-> 0] /\ chbuf = 0 /\ tmp = 0
    BY DEF Init
  <2> QED
    BY <2>1
<1>4. /\ pc \in PCs /\ isr \in {"idle", "read", "poll"} /\ ei \in BOOLEAN
      /\ rts \in BOOLEAN /\ txOn \in BOOLEAN /\ overrun \in BOOLEAN /\ cts \in BOOLEAN
  BY DEF Init, PCs
<1>5. /\ ptr \in 0..7 /\ txBuf \in Nat \cup {NoChar} /\ peer \in Peers /\ credit \in Nat
      /\ sent \in Nat /\ lost \subseteq Nat /\ isr # "read"
  BY DEF Init
<1> QED
  BY <1>1, <1>2, <1>3, <1>4, <1>5, SizeAssumption DEF Typed, TypeOK

LEMMA MainTyped ==
  ASSUME Typed, MainStep
  PROVE  Typed'
<1> USE DEF Typed
<1>1. isr = "idle" /\ isr' = "idle" /\ UNCHANGED lineVars
  BY DEF MainStep, SioInit, ClearBuf, EnableInterrupts, Wait, DecRead, DecWrite, IdxRead,
         Take, IncRead, IncWrite, Test, RtsSelect, RtsWrite, OutSelect, OutPoll, OutData,
         Go, MainRuns, noIO, irqVars
<1>2. CASE SioInit
  <2>1. /\ ptr' \in 0..7 /\ rts' \in BOOLEAN /\ txOn' \in BOOLEAN /\ overrun' \in BOOLEAN
        /\ credit' \in Nat
    <3>1. ptr' = 0 /\ rts' = TRUE /\ txOn' = TRUE /\ overrun' = FALSE
      BY <1>2 DEF SioInit, hw_outp_ctrl, Chip
    <3>2. credit' \in {peer.burst, peer.slack, credit}
      BY <1>2 DEF SioInit, hw_outp_ctrl
    <3>3. peer.burst \in Nat /\ peer.slack \in Nat /\ credit \in Nat
      BY SizeAssumption DEF TypeOK
    <3>4. credit' \in Nat
      BY <3>2, <3>3
    <3>5. ptr' \in 0..7
      BY <3>1
    <3>6. rts' \in BOOLEAN /\ txOn' \in BOOLEAN /\ overrun' \in BOOLEAN
      BY <3>1, Zenon
    <3> QED
      BY <3>4, <3>5, <3>6
  <2>2. fifo' \in Seq(Nat) /\ Len(fifo') <= FifoDepth
    BY <1>2, EmptySeq, SizeAssumption DEF SioInit
  <2>3. /\ pc' \in PCs /\ txBuf' = NoChar /\ ei' = ei
        /\ UNCHANGED <<tmp, chbuf, avail, buf, idx>>
    BY <1>2 DEF SioInit, Go, PCs, bufVars, irqVars
  <2> QED
    BY <1>1, <2>1, <2>2, <2>3 DEF TypeOK, lineVars
<1>3. CASE ClearBuf \/ EnableInterrupts \/ Wait \/ Test
  <2>1. pc' \in PCs
    BY <1>3 DEF ClearBuf, EnableInterrupts, Wait, Test, Go, PCs
  <2>2. /\ avail' \in 0..255 /\ ei' \in BOOLEAN
        /\ UNCHANGED <<tmp, chbuf, buf, idx, regVars, fifo, txBuf, credit>>
    <3>1. avail' \in {avail, 0} /\ ei' \in {ei, TRUE}
      BY <1>3 DEF ClearBuf, EnableInterrupts, Wait, Test, bufVars, noIO, irqVars
    <3>2. UNCHANGED <<tmp, chbuf, buf, idx, regVars, fifo, txBuf, credit>>
      BY <1>3 DEF ClearBuf, EnableInterrupts, Wait, Test, bufVars, noIO
    <3>3. avail' \in 0..255
      BY <3>1 DEF TypeOK
    <3>4. ei' \in BOOLEAN
      BY <3>1 DEF TypeOK
    <3> QED
      BY <3>2, <3>3, <3>4
  <2> QED
    BY <1>1, <2>1, <2>2 DEF TypeOK, regVars, lineVars
<1>4. CASE DecRead \/ DecWrite \/ IdxRead \/ IncRead \/ IncWrite
  <2> tmp \in Nat /\ avail \in 0..255 /\ idx \in Nat
    BY DEF TypeOK
  <2>1. tmp' \in Nat
    <3>1. tmp' \in {tmp, avail, idx}
      BY <1>4 DEF DecRead, DecWrite, IdxRead, IncRead, IncWrite
    <3> QED
      BY <3>1
  <2>2. avail' \in 0..255 /\ idx' \in Nat
    <3>1. /\ avail' \in {avail, (tmp - 1) % 256} /\ idx' \in {idx, (tmp + 1) % 256}
      BY <1>4 DEF DecRead, DecWrite, IdxRead, IncRead, IncWrite, bufVars
    <3>2. (tmp - 1) % 256 \in 0..255 /\ (tmp + 1) % 256 \in Nat
      OBVIOUS
    <3> QED
      BY <3>1, <3>2
  <2>3. pc' \in PCs /\ UNCHANGED <<chbuf, buf, noIO>>
    BY <1>4 DEF DecRead, DecWrite, IdxRead, IncRead, IncWrite, Go, PCs, bufVars
  <2> QED
    BY <1>1, <2>1, <2>2, <2>3 DEF TypeOK, noIO, irqVars, regVars, lineVars
<1>5. CASE Take
  <2>1. chbuf' \in Nat
    <3>1. chbuf' = IF tmp < Depth THEN buf[tmp] ELSE 0
      BY <1>5 DEF Take
    <3>2. tmp \in Nat /\ buf \in [0..(Depth - 1) -> Nat] /\ Depth \in Nat
      BY SizeAssumption DEF TypeOK
    <3>3. tmp < Depth => buf[tmp] \in Nat
      BY <3>2
    <3> QED
      BY <3>1, <3>3
  <2>2. pc' \in PCs /\ UNCHANGED <<tmp, bufVars, noIO>>
    BY <1>5 DEF Take, Go, PCs
  <2> QED
    BY <1>1, <2>1, <2>2 DEF TypeOK, bufVars, noIO, irqVars, regVars, lineVars
<1>6. CASE RtsSelect \/ RtsWrite \/ OutSelect
  <2>1. /\ ptr' \in 0..7 /\ rts' \in BOOLEAN /\ txOn' \in BOOLEAN /\ overrun' \in BOOLEAN
        /\ credit' \in Nat
    BY <1>6, CtrlTypes, CtrlBytes DEF RtsSelect, RtsWrite, OutSelect
  <2>2. pc' \in PCs /\ UNCHANGED <<tmp, chbuf, bufVars, irqVars, fifo, txBuf>>
    BY <1>6 DEF RtsSelect, RtsWrite, OutSelect, Go, PCs
  <2> QED
    BY <1>1, <2>1, <2>2 DEF TypeOK, bufVars, irqVars, lineVars
<1>7. CASE OutPoll \/ OutData
  <2>1. pc' \in PCs
    BY <1>7 DEF OutPoll, OutData, Go, PCs
  <2>2. ptr' \in 0..7 /\ txBuf' \in Nat \cup {NoChar}
    <3>1. ptr' \in {ptr, 0} /\ txBuf' \in {txBuf, chbuf}
      BY <1>7 DEF OutPoll, OutData, regVars
    <3> QED
      BY <3>1 DEF TypeOK
  <2>3. UNCHANGED <<tmp, chbuf, bufVars, irqVars, rts, txOn, overrun, fifo, credit>>
    BY <1>7 DEF OutPoll, OutData, regVars
  <2> QED
    BY <1>1, <2>1, <2>2, <2>3 DEF TypeOK, bufVars, irqVars, lineVars
<1> QED
  BY <1>2, <1>3, <1>4, <1>5, <1>6, <1>7 DEF MainStep

LEMMA InterruptTyped ==
  ASSUME Typed, Interrupt
  PROVE  Typed'
<1> USE DEF Typed
<1>1. UNCHANGED <<mainVars, ei, txBuf, lineVars>>
  BY DEF Interrupt, CharAvail, ReadData, PollMore, SpecialCond, irqVars
<1>2. CASE CharAvail
  <2>1. /\ ptr' \in 0..7 /\ rts' \in BOOLEAN /\ txOn' \in BOOLEAN /\ overrun' \in BOOLEAN
        /\ credit' \in Nat
    BY <1>2, CtrlTypes, CtrlBytes DEF CharAvail
  <2> QED
    BY <1>1, <1>2, <2>1 DEF CharAvail, TypeOK, mainVars, lineVars
<1>3. CASE ReadData
  <2>1. isr = "read" /\ fifo # <<>> /\ fifo' = Tail(fifo)
    BY <1>3 DEF ReadData
  <2>2. Head(fifo) \in Nat /\ fifo' \in Seq(Nat) /\ Len(fifo') <= FifoDepth
    <3>1. fifo \in Seq(Nat) /\ Len(fifo) <= FifoDepth /\ Len(fifo) \in Nat /\ FifoDepth \in Nat
      BY LenProperties, SizeAssumption DEF TypeOK
    <3>2. Head(fifo) \in Nat /\ Tail(fifo) \in Seq(Nat) /\ Len(Tail(fifo)) = Len(fifo) - 1
      BY <2>1, <3>1, HeadTailProperties
    <3> QED
      BY <2>1, <3>1, <3>2
  <2>3. buf' \in [0..(Depth - 1) -> Nat] /\ idx' \in Nat
    BY <1>3, <2>2 DEF ReadData, TypeOK
  <2>4. avail' \in 0..255
    BY <1>3 DEF ReadData, TypeOK
  <2>5. isr' = "poll" /\ UNCHANGED <<regVars, credit>>
    BY <1>3 DEF ReadData
  <2> QED
    BY <1>1, <2>2, <2>3, <2>4, <2>5 DEF TypeOK, mainVars, regVars, lineVars
<1>4. CASE PollMore
  <2>1. credit' \in Nat
    BY <1>4, SizeAssumption DEF PollMore, TypeOK
  <2>2. /\ isr' \in {"read", "idle"} /\ (isr' = "read" => fifo # <<>>) /\ ptr' = 0
        /\ UNCHANGED <<bufVars, rts, txOn, overrun, fifo>>
    BY <1>4 DEF PollMore
  <2> QED
    BY <1>1, <2>1, <2>2 DEF TypeOK, mainVars, bufVars, lineVars
<1>5. CASE SpecialCond
  <2>1. /\ ptr' \in 0..7 /\ rts' \in BOOLEAN /\ txOn' \in BOOLEAN /\ overrun' \in BOOLEAN
        /\ credit' \in Nat
    BY <1>5, CtrlTypes, CtrlBytes DEF SpecialCond
  <2> QED
    BY <1>1, <1>5, <2>1 DEF SpecialCond, TypeOK, mainVars, bufVars, irqVars, lineVars
<1> QED
  BY <1>2, <1>3, <1>4, <1>5 DEF Interrupt

\* What a full or a not full chip does with a character.
LEMMA ArriveFifo ==
  ASSUME Typed, Arrive
  PROVE  /\ fifo' \in Seq(Nat) /\ Len(fifo') <= FifoDepth /\ fifo' # <<>>
         /\ lost' \subseteq Nat /\ overrun' \in BOOLEAN
<1>1. sent + 1 \in Nat
  BY DEF Typed, TypeOK
<1>2. fifo \in Seq(Nat) /\ Len(fifo) <= FifoDepth /\ lost \subseteq Nat /\ overrun \in BOOLEAN
  BY DEF Typed, TypeOK
<1>3. CASE Len(fifo) < FifoDepth
  <2>1. fifo' = Append(fifo, sent + 1) /\ UNCHANGED <<overrun, lost>>
    BY <1>3 DEF Arrive
  <2>2. fifo' \in Seq(Nat) /\ Len(fifo') = Len(fifo) + 1
    BY <1>1, <1>2, <2>1, AppendProperties
  <2>3. fifo' # <<>>
    BY <1>2, <2>2, LenProperties, EmptySeq
  <2> QED
    BY <1>2, <1>3, <2>1, <2>2, <2>3, LenProperties, SizeAssumption
<1>4. CASE ~(Len(fifo) < FifoDepth)
  <2>1. /\ fifo' = [fifo EXCEPT ![FifoDepth] = sent + 1] /\ overrun' = TRUE
        /\ lost' = lost \cup {fifo[FifoDepth]}
    BY <1>4 DEF Arrive
  <2>2. FifoDepth \in 1..Len(fifo)
    BY <1>2, <1>4, LenProperties, SizeAssumption
  <2>3. fifo' \in Seq(Nat) /\ Len(fifo') = Len(fifo)
    BY <1>1, <1>2, <2>1, <2>2, ExceptSeq
  <2>4. fifo[FifoDepth] \in Nat
    BY <1>2, <2>2, ElementOfSeq
  <2>5. fifo' # <<>>
    BY <2>2, <2>3, EmptySeq
  <2> QED
    BY <1>2, <2>1, <2>3, <2>4, <2>5
<1> QED
  BY <1>3, <1>4

LEMMA NextTyped == Typed /\ [Next]_vars => Typed'
<1> SUFFICES ASSUME Typed, [Next]_vars PROVE Typed'
  OBVIOUS
<1>1. CASE MainStep
  BY <1>1, MainTyped
<1>2. CASE Interrupt
  BY <1>2, InterruptTyped
<1>3. CASE Arrive
  <2>1. sent' \in Nat /\ credit' \in Nat
    BY <1>3 DEF Arrive, Typed, TypeOK
  <2> QED
    BY <1>3, <2>1, ArriveFifo
       DEF Arrive, Typed, TypeOK, mainVars, bufVars, irqVars
<1>4. CASE Shift
  <2>1. echoed' \in Seq(Nat)
    BY <1>4, AppendProperties DEF Shift, Typed, TypeOK
  <2>2. txBuf' = NoChar /\ cts' \in BOOLEAN
    BY <1>4 DEF Shift, Typed, TypeOK
  <2>3. UNCHANGED <<mainVars, bufVars, irqVars, regVars, fifo, credit, peer, sent, lost>>
    BY <1>4 DEF Shift
  <2> QED
    BY <2>1, <2>2, <2>3 DEF Typed, TypeOK, mainVars, bufVars, irqVars, regVars
<1>5. CASE CtsUp \/ Spin \/ UNCHANGED vars
  <2>1. cts' \in BOOLEAN
    BY <1>5 DEF CtsUp, Spin, vars, lineVars, Typed, TypeOK
  <2>2. /\ UNCHANGED <<mainVars, bufVars, irqVars, regVars, fifo, txBuf, credit>>
        /\ UNCHANGED <<peer, sent, echoed, lost>>
    BY <1>5 DEF CtsUp, Spin, vars, lineVars
  <2> QED
    BY <2>1, <2>2 DEF Typed, TypeOK, mainVars, bufVars, irqVars, regVars
<1> QED
  BY <1>1, <1>2, <1>3, <1>4, <1>5 DEF Next

\* Type correctness, for every peer.
THEOREM TypeHolds == Spec => []TypeOK
<1>1. Typed => TypeOK
  BY DEF Typed
<1> QED
  BY <1>1, InitTyped, NextTyped, PTL DEF Spec

-----------------------------------------------------------------------------
(* A peer that stops late.                                                 *)

\* What is still on its way to the buffer: in the chip, allowed, and late.
Waiting == Len(fifo)
Late    == IF rts THEN peer.slack ELSE 0
Left    == Waiting + credit + Late
Load    == avail + Left

\* The most that may be left, and the most the buffer may have to hold.
Burst == peer.burst + 2 * peer.slack
Room  == Burst + peer.burst + peer.slack

Raising == pc \in {"rts_select", "rts_write"}
Sending == pc \in {"out_select", "out_poll", "out_data"}
Moving  == pc \in {"idx_read", "take", "inc_read", "inc_write"}

\* The register pointer and RTS, whatever the handlers do to them.
Line ==
  /\ isr # "idle" => ei /\ ~rts /\ ptr = 0
  /\ isr = "read" => Waiting > 0
  /\ ei => pc \notin {"setup", "clear", "enable"}
  /\ ptr \in {0, 2, 5}
  /\ ptr = 2 => pc = "out_select" /\ ~rts
  /\ ptr = 5 => pc = "rts_write"
  /\ pc = "rts_write" /\ ptr # 5 => ~rts
  /\ pc = "setup" => credit = 0 /\ Waiting = 0 /\ ~rts
  /\ pc \in {"clear", "enable"} => rts
  /\ credit <= IF rts THEN peer.burst ELSE peer.slack

\* RTS is raised when the buffer was found empty; by then no more than the
\* slack is left of the last burst.
Cycle ==
  /\ Left <= Burst
  /\ rts /\ Raising => avail = 0
  /\ ~rts /\ isr = "idle" =>
       \/ Waiting + credit <= peer.slack
       \/ avail = 0 /\ (pc \in {"rts_write", "wait"} \/ Sending) /\ ptr # 5
  /\ Raising => Load <= Burst
  /\ pc \notin {"setup", "clear"} => Load <= Room

\* A handler that finds the buffer half read starts again at idx = 0, but the
\* main program may have read idx before.
Index ==
  /\ isr # "idle" => idx = 0
  /\ Raising /\ avail # 0 => idx = 0
  /\ pc \in {"enable", "wait"} \/ Sending => avail = 0 \/ idx + Load <= Room
  /\ pc \in {"dec_read", "dec_write", "test"} => idx + Load <= Room
  /\ pc = "dec_read" => avail # 0
  /\ pc = "dec_write" => tmp # 0 /\ tmp <= avail
  /\ Moving => idx + Load < Room
  /\ pc = "take" => tmp < Room
  /\ pc = "inc_write" => tmp + Load < Room

\* With RTS down there is something to take, or will be.
NoStop ==
  /\ isr = "poll" => avail # 0
  /\ isr = "idle" /\ ~rts /\ (pc = "wait" \/ Sending) => avail # 0 \/ Waiting > 0
  /\ isr = "idle" /\ pc = "rts_write" /\ ptr # 5 => avail # 0 \/ Waiting > 0

\* The inductive invariant for a peer that stops late.
SlowInv == Typed /\ Line /\ Cycle /\ Index /\ NoStop

\* The types of all these.
LEMMA SlowTypes ==
  ASSUME Typed
  PROVE  /\ avail \in Nat /\ avail < 256 /\ idx \in Nat /\ tmp \in Nat /\ credit \in Nat
         /\ Waiting \in Nat /\ Late \in Nat /\ Left \in Nat /\ Load \in Nat
         /\ peer.burst \in Nat /\ peer.slack \in Nat /\ Burst \in Nat /\ Room \in Nat
         /\ Burst <= Room
<1>1. /\ avail \in Nat /\ avail < 256 /\ idx \in Nat /\ tmp \in Nat /\ credit \in Nat
      /\ peer.burst \in Nat /\ peer.slack \in Nat
  BY SizeAssumption DEF Typed, TypeOK
<1>2. Waiting \in Nat
  BY LenProperties DEF Typed, TypeOK, Waiting
<1> QED
  BY <1>1, <1>2 DEF Late, Left, Load, Burst, Room

\* What is written to the control port with the pointer where a handler left
\* it instead of where the main program set it, and the other way round.
LEMMA WrongBytes ==
  /\ ptr \in {0, 2} => /\ Write(Chip, 0).ptr = 0 /\ Write(Chip, 0).rts = rts
                       /\ Write(Chip, RstErr).ptr = 0 /\ Write(Chip, RstErr).rts = rts
  /\ ptr = 0 => Write(Chip, Reg5 + RtsFlag).ptr = 2 /\ Write(Chip, Reg5 + RtsFlag).rts = rts
  /\ ptr = 2 => LowerRts.ptr = 0 /\ LowerRts.rts = rts
  /\ ptr = 5 => /\ Write(Chip, RstErr).ptr = 0 /\ Write(Chip, RstErr).rts = FALSE
                /\ LowerRts.ptr = 0 /\ LowerRts.rts = FALSE
<1>1. /\ 0 % 8 = 0 /\ RstErr % 8 = 0 /\ Reg5 % 8 = 0 /\ (Reg5 + RtsFlag) % 8 = 2
      /\ Bit(RstErr, RtsFlag) = FALSE /\ Bit(5, RtsFlag) = FALSE
  BY DEF RstErr, Reg5, RtsFlag, Bit
<1>2. ASSUME ptr \in {2, 5}
      PROVE  /\ LowerRts.ptr = 0
             /\ (ptr = 5 => LowerRts.rts = FALSE) /\ (ptr = 2 => LowerRts.rts = rts)
  <2>1. PICK a : a = Write(Chip, 5)
    OBVIOUS
  <2>2. PICK b : b = Write(a, Reg5)
    OBVIOUS
  <2>3. a.ptr = 0 /\ (ptr = 5 => a.rts = FALSE) /\ (ptr = 2 => a.rts = rts)
    <3>1. a.ptr = 0
      BY <1>2, <2>1 DEF Write, Chip
    <3>2. ASSUME ptr = 5 PROVE a.rts = FALSE
      BY <1>1, <2>1, <3>2 DEF Write, Chip
    <3>3. ASSUME ptr = 2 PROVE a.rts = rts
      BY <2>1, <3>3 DEF Write, Chip
    <3> QED
      BY <3>1, <3>2, <3>3
  <2>4. b.ptr = 0 /\ b.rts = a.rts
    BY <1>1, <2>2, <2>3 DEF Write
  <2>5. LowerRts = Write(b, 0)
    BY <2>1, <2>2 DEF LowerRts
  <2>6. LowerRts.ptr = 0 /\ LowerRts.rts = b.rts
    BY <1>1, <2>4, <2>5 DEF Write
  <2> QED
    BY <2>3, <2>4, <2>6
<1>3. ASSUME ptr = 5 PROVE Write(Chip, RstErr).ptr = 0 /\ Write(Chip, RstErr).rts = FALSE
  BY <1>1, <1>3 DEF Write, Chip
<1>4. ASSUME ptr \in {0, 2}
      PROVE  /\ Write(Chip, 0).ptr = 0 /\ Write(Chip, 0).rts = rts
             /\ Write(Chip, RstErr).ptr = 0 /\ Write(Chip, RstErr).rts = rts
  BY <1>1, <1>4 DEF Write, Chip
<1>5. ASSUME ptr = 0
      PROVE  Write(Chip, Reg5 + RtsFlag).ptr = 2 /\ Write(Chip, Reg5 + RtsFlag).rts = rts
  BY <1>1, <1>5 DEF Write, Chip
<1> QED
  BY <1>2, <1>3, <1>4, <1>5

\* A step of the main program that moves neither a character nor a line.
Quiet ==
  /\ isr = "idle" /\ isr' = "idle" /\ UNCHANGED <<rts, credit>>
  /\ Waiting' = Waiting /\ peer' = peer

LEMMA QuietLeft ==
  ASSUME Quiet
  PROVE  Late' = Late /\ Left' = Left /\ Burst' = Burst /\ Room' = Room
BY DEF Quiet, Late, Left, Burst, Room

LEMMA InitSlow == Init => SlowInv
<1> SUFFICES ASSUME Init PROVE SlowInv
  OBVIOUS
<1>1. Typed /\ pc = "setup" /\ isr = "idle" /\ ~ei /\ ptr = 0 /\ ~rts /\ credit = 0
  BY InitTyped DEF Init
<1>2. Waiting = 0
  BY EmptySeq DEF Init, Waiting
<1> QED
  BY <1>1, <1>2, SlowTypes
     DEF SlowInv, Line, Cycle, Index, NoStop, Left, Late, Raising, Sending, Moving, Burst

LEMMA MainQuiet ==
  ASSUME SlowInv, MainStep
  PROVE  /\ isr = "idle" /\ isr' = "idle" /\ peer' = peer
         /\ pc \notin {"setup", "rts_write"} => Quiet
<1>1. isr = "idle" /\ isr' = "idle" /\ peer' = peer
  BY DEF MainStep, SioInit, ClearBuf, EnableInterrupts, Wait, DecRead, DecWrite, IdxRead,
         Take, IncRead, IncWrite, Test, RtsSelect, RtsWrite, OutSelect, OutPoll, OutData,
         Go, MainRuns, noIO, irqVars, lineVars
<1>2. ASSUME pc \notin {"setup", "rts_write"} PROVE UNCHANGED <<rts, credit, fifo>>
  <2>1. CASE RtsSelect
    <3>1. pc = "rts_select" /\ ptr = 0
      BY <2>1 DEF RtsSelect, Go, SlowInv, Line
    <3> QED
      BY <2>1, <3>1, ChipBytes DEF RtsSelect, hw_outp_ctrl
  <2>2. CASE OutSelect
    <3>1. pc = "out_select" /\ ptr \in {0, 2}
      BY <2>2 DEF OutSelect, Go, SlowInv, Line
    <3> QED
      BY <2>2, <3>1, WrongBytes DEF OutSelect, hw_outp_ctrl
  <2>3. CASE SioInit \/ RtsWrite
    BY <1>2, <2>3 DEF SioInit, RtsWrite, Go
  <2>4. CASE ~(RtsSelect \/ OutSelect \/ SioInit \/ RtsWrite)
    BY <2>4 DEF MainStep, ClearBuf, EnableInterrupts, Wait, DecRead, DecWrite, IdxRead,
         Take, IncRead, IncWrite, Test, OutPoll, OutData, noIO, regVars
  <2> QED
    BY <2>1, <2>2, <2>3, <2>4
<1> QED
  BY <1>1, <1>2 DEF Quiet, Waiting

LEMMA MainKeepsSlow ==
  ASSUME SlowInv, Fits, MainStep
  PROVE  SlowInv'
<1>1. /\ isr = "idle" /\ isr' = "idle" /\ peer' = peer
      /\ pc \notin {"setup", "rts_write"} => Quiet
  BY MainQuiet
<1>2. Typed' /\ Line /\ Cycle /\ Index /\ NoStop /\ Typed
  BY MainTyped DEF SlowInv
<1>3. Room <= Depth /\ Depth < 256 /\ Depth \in Nat
  BY SizeAssumption, SlowTypes, <1>2 DEF Fits, Room, Burst
<1> HIDE DEF Typed
<1>4. CASE SioInit
  <2>1. /\ pc = "setup" /\ pc' = "clear" /\ ptr' = 0 /\ rts' = TRUE /\ fifo' = <<>>
        /\ UNCHANGED <<avail, idx, tmp, ei>>
    BY <1>4 DEF SioInit, Go, hw_outp_ctrl, bufVars, irqVars
  <2>2. credit' = peer.burst /\ Waiting' = 0
    BY <1>2, <1>4, <2>1, EmptySeq DEF SioInit, hw_outp_ctrl, Line, Waiting
  <2>3. Left' <= Burst'
    <3>1. Left' = peer.burst + peer.slack
      BY <1>1, <1>2, <2>1, <2>2, SlowTypes DEF Left, Late
    <3>2. Burst' = peer.burst + 2 * peer.slack
      BY <1>1 DEF Burst
    <3> QED
      BY <1>2, <3>1, <3>2, SlowTypes
  <2>4. Line'
    BY <1>1, <1>2, <2>1, <2>2, SlowTypes DEF Line
  <2>5. Cycle'
    BY <2>1, <2>3 DEF Cycle, Raising
  <2>6. Index' /\ NoStop'
    BY <1>1, <2>1 DEF Index, NoStop, Raising, Sending, Moving
  <2> QED
    BY <1>2, <2>4, <2>5, <2>6 DEF SlowInv
<1>5. CASE ClearBuf \/ EnableInterrupts
  <2>1. /\ \/ pc = "clear" /\ pc' = "enable" /\ avail' = 0 /\ ei' = ei
           \/ pc = "enable" /\ pc' = "wait" /\ avail' = avail /\ ei' = TRUE
        /\ UNCHANGED <<idx, tmp, ptr>>
    BY <1>5 DEF ClearBuf, EnableInterrupts, Go, noIO, regVars, bufVars, irqVars
  <2>2. Quiet
    BY <1>1, <2>1
  <2>3. Line'
    BY <1>1, <1>2, <2>1, <2>2 DEF Line, Quiet
  <2>4. Load' <= Room'
    BY <1>2, <2>1, <2>2, SlowTypes, QuietLeft DEF Load, Cycle
  <2>5. Cycle'
    BY <1>1, <1>2, <2>1, <2>2, <2>4, QuietLeft DEF Cycle, Raising, Sending, Quiet, Line
  <2>6. Index' /\ NoStop'
    BY <1>1, <1>2, <2>1, <2>2, QuietLeft
       DEF Index, NoStop, Raising, Sending, Moving, Quiet, Line, Load
  <2> QED
    BY <1>2, <2>3, <2>5, <2>6 DEF SlowInv
<1>6. CASE Wait \/ DecRead \/ IdxRead \/ Take \/ IncRead \/ Test
  <2>1. /\ \/ pc = "wait" /\ pc' = "dec_read" /\ avail # 0 /\ tmp' = tmp
           \/ pc = "dec_read" /\ pc' = "dec_write" /\ tmp' = avail
           \/ pc = "idx_read" /\ pc' = "take" /\ tmp' = idx
           \/ pc = "take" /\ pc' = "inc_read" /\ tmp' = tmp
           \/ pc = "inc_read" /\ pc' = "inc_write" /\ tmp' = idx
           \/ pc = "test" /\ pc' = "rts_select" /\ avail = 0 /\ tmp' = tmp
           \/ pc = "test" /\ pc' = "out_select" /\ avail # 0 /\ tmp' = tmp
        /\ UNCHANGED <<avail, idx, ptr, ei>>
    BY <1>6 DEF Wait, DecRead, IdxRead, Take, IncRead, Test, Go, noIO, regVars, bufVars, irqVars
  <2>2. Quiet /\ Left' = Left /\ Load' = Load /\ Burst' = Burst /\ Room' = Room
    BY <1>1, <2>1, QuietLeft DEF Load
  <2>3. Line'
    BY <1>1, <1>2, <2>1, <2>2 DEF Line, Quiet
  <2>4. Load = avail + Left
    BY DEF Load
  <2>5. Cycle'
    BY <1>1, <1>2, <2>1, <2>2, <2>4, SlowTypes DEF Cycle, Raising, Sending, Quiet, Line
  <2>6. Index'
    BY <1>1, <1>2, <2>1, <2>2, <2>4, SlowTypes DEF Index, Raising, Sending, Moving
  <2>7. NoStop'
    BY <1>1, <1>2, <2>1, <2>2 DEF NoStop, Sending, Quiet
  <2> QED
    BY <1>2, <2>3, <2>5, <2>6, <2>7 DEF SlowInv
<1>7. CASE DecWrite
  <2>1. /\ pc = "dec_write" /\ pc' = "idx_read" /\ avail' = (tmp - 1) % 256
        /\ UNCHANGED <<idx, tmp, ptr, ei>>
    BY <1>7 DEF DecWrite, Go, noIO, regVars, irqVars
  <2>2. Quiet /\ Left' = Left /\ Burst' = Burst /\ Room' = Room
    BY <1>1, <2>1, QuietLeft
  <2>3. Line'
    BY <1>1, <1>2, <2>1, <2>2 DEF Line, Quiet
  <2>4. avail' = tmp - 1 /\ tmp <= avail
    <3>1. PICK t \in Nat : t = tmp
      BY <1>2, SlowTypes
    <3>2. t # 0 /\ t < 256
      BY <1>2, <2>1, <3>1, SlowTypes DEF Index
    <3>3. (t - 1) % 256 = t - 1
      BY <3>2
    <3> QED
      BY <1>2, <2>1, <3>1, <3>3 DEF Index
  <2>5. Load' < Load /\ idx' + Load' < Room' /\ Load' <= Room'
    BY <1>2, <2>1, <2>2, <2>4, SlowTypes DEF Load, Index
  <2>6. Cycle'
    BY <1>1, <1>2, <2>1, <2>2, <2>5 DEF Cycle, Raising, Sending, Quiet
  <2>7. Index' /\ NoStop'
    BY <1>1, <2>1, <2>5 DEF Index, NoStop, Raising, Sending, Moving
  <2> QED
    BY <1>2, <2>3, <2>6, <2>7 DEF SlowInv
<1>8. CASE IncWrite
  <2>1. /\ pc = "inc_write" /\ pc' = "test" /\ idx' = (tmp + 1) % 256
        /\ UNCHANGED <<avail, tmp, ptr, ei>>
    BY <1>8 DEF IncWrite, Go, noIO, regVars, irqVars
  <2>2. Quiet /\ Left' = Left /\ Load' = Load /\ Burst' = Burst /\ Room' = Room
    BY <1>1, <2>1, QuietLeft DEF Load
  <2>3. Line'
    BY <1>1, <1>2, <2>1, <2>2 DEF Line, Quiet
  <2>4. idx' + Load <= Room
    <3>1. PICK t \in Nat : t = tmp
      BY <1>2, SlowTypes
    <3>2. t + Load < Room /\ t + 1 < 256
      BY <1>2, <1>3, <2>1, <3>1, SlowTypes DEF Index
    <3>3. (t + 1) % 256 = t + 1
      BY <3>2
    <3> QED
      BY <1>2, <2>1, <3>1, <3>2, <3>3, SlowTypes
  <2>5. Cycle'
    BY <1>1, <1>2, <2>1, <2>2 DEF Cycle, Raising, Sending, Quiet
  <2>6. Index' /\ NoStop'
    BY <1>1, <2>1, <2>2, <2>4 DEF Index, NoStop, Raising, Sending, Moving
  <2> QED
    BY <1>2, <2>3, <2>5, <2>6 DEF SlowInv
<1>9. CASE RtsSelect
  <2>1. pc = "rts_select" /\ pc' = "rts_write" /\ UNCHANGED <<avail, idx, tmp, ei>>
    BY <1>9 DEF RtsSelect, Go, bufVars, irqVars
  <2>2. ptr' = 5
    BY <1>2, <1>9, <2>1, ChipBytes DEF RtsSelect, hw_outp_ctrl, Line
  <2>3. Quiet /\ Left' = Left /\ Load' = Load /\ Burst' = Burst /\ Room' = Room
    BY <1>1, <2>1, QuietLeft DEF Load
  <2>4. Line'
    BY <1>1, <1>2, <2>1, <2>2, <2>3 DEF Line, Quiet
  <2>5. Cycle'
    BY <1>1, <1>2, <2>1, <2>2, <2>3 DEF Cycle, Raising, Sending, Quiet
  <2>6. Index' /\ NoStop'
    BY <1>1, <1>2, <2>1, <2>2, <2>3 DEF Index, NoStop, Raising, Sending, Moving
  <2> QED
    BY <1>2, <2>4, <2>5, <2>6 DEF SlowInv
<1>10. CASE RtsWrite
  <2>1. /\ pc = "rts_write" /\ pc' = "out_select" /\ UNCHANGED <<avail, idx, tmp, ei>>
        /\ Waiting' = Waiting
    BY <1>10 DEF RtsWrite, Go, bufVars, irqVars, Waiting
  <2>2. ptr \in {0, 5} /\ Burst' = Burst /\ Room' = Room
    BY <1>1, <1>2, <2>1 DEF Line, Burst, Room
  <2>3. CASE ptr = 0
    <3>1. ptr' = 2 /\ rts' = rts /\ credit' = credit
      BY <1>10, <2>3, WrongBytes DEF RtsWrite, hw_outp_ctrl
    <3>2. Left' = Left /\ Load' = Load
      BY <1>1, <2>1, <3>1 DEF Left, Late, Load
    <3>3. Line'
      BY <1>1, <1>2, <2>1, <2>3, <3>1 DEF Line
    <3>4. Cycle'
      BY <1>1, <1>2, <2>1, <2>2, <2>3, <3>1, <3>2 DEF Cycle, Raising, Sending
    <3>5. Index'
      BY <1>1, <1>2, <2>1, <2>2, <3>2, SlowTypes DEF Index, Raising, Sending, Moving, Cycle
    <3>6. NoStop'
      BY <1>1, <1>2, <2>1, <2>3, <3>1 DEF NoStop, Sending
    <3> QED
      BY <1>2, <3>3, <3>4, <3>5, <3>6 DEF SlowInv
  <2>4. CASE ptr = 5
    <3>1. ptr' = 0 /\ rts' = TRUE /\ credit' = IF rts THEN credit ELSE peer.burst
      BY <1>10, <2>4, ChipBytes DEF RtsWrite, hw_outp_ctrl
    <3>2. Left' <= Burst /\ Load' <= Room /\ Load' \in Nat
      <4>1. CASE rts
        <5>1. Left' = Left /\ Load' = Load
          BY <1>1, <2>1, <3>1, <4>1 DEF Left, Late, Load
        <5> QED
          BY <1>2, <2>1, <5>1, SlowTypes DEF Cycle
      <4>2. CASE ~rts
        <5>1. Waiting + credit <= peer.slack /\ Waiting <= peer.slack /\ avail + Waiting <= Burst
          BY <1>1, <1>2, <2>1, <2>4, <4>2, SlowTypes DEF Cycle, Raising, Load, Left
        <5>2. Left' = Waiting + peer.burst + peer.slack /\ Load' = avail + Left'
          BY <1>1, <2>1, <3>1, <4>2 DEF Left, Late, Load
        <5> QED
          BY <1>2, <2>1, <5>1, <5>2, SlowTypes DEF Burst, Room
      <4> QED
        BY <4>1, <4>2
    <3>3. Line'
      BY <1>1, <1>2, <2>1, <2>4, <3>1, SlowTypes DEF Line
    <3>4. Cycle'
      BY <1>1, <1>2, <2>1, <2>2, <3>1, <3>2 DEF Cycle, Raising
    <3>5. Index'
      BY <1>1, <1>2, <2>1, <2>2, <3>2, SlowTypes DEF Index, Raising, Sending, Moving
    <3>6. NoStop'
      BY <1>1, <2>1, <3>1 DEF NoStop
    <3> QED
      BY <1>2, <3>3, <3>4, <3>5, <3>6 DEF SlowInv
  <2> QED
    BY <2>2, <2>3, <2>4
<1>11. CASE OutSelect \/ OutPoll \/ OutData
  <2>1. /\ Sending /\ pc' \in {"out_select", "out_poll", "out_data", "wait"}
        /\ UNCHANGED <<avail, idx, tmp, ei>>
    BY <1>11 DEF OutSelect, OutPoll, OutData, Go, bufVars, irqVars, Sending
  <2>2. ptr' = 0
    <3>1. CASE OutSelect
      BY <1>2, <3>1, WrongBytes DEF OutSelect, Go, hw_outp_ctrl, Line
    <3>2. CASE OutPoll
      BY <3>2 DEF OutPoll
    <3>3. CASE OutData
      BY <1>2, <3>3 DEF OutData, Go, regVars, Line
    <3> QED
      BY <1>11, <3>1, <3>2, <3>3
  <2>3. Quiet /\ Left' = Left /\ Load' = Load /\ Burst' = Burst /\ Room' = Room
    BY <1>1, <2>1, QuietLeft DEF Load, Sending
  <2>4. Line'
    BY <1>1, <1>2, <2>1, <2>2, <2>3 DEF Line, Quiet, Sending
  <2>5. Cycle'
    BY <1>1, <1>2, <2>1, <2>2, <2>3 DEF Cycle, Raising, Sending, Quiet
  <2>6. Index' /\ NoStop'
    BY <1>1, <1>2, <2>1, <2>2, <2>3 DEF Index, NoStop, Raising, Sending, Moving, Quiet
  <2> QED
    BY <1>2, <2>4, <2>5, <2>6 DEF SlowInv
<1> QED
  BY <1>4, <1>5, <1>6, <1>7, <1>8, <1>9, <1>10, <1>11 DEF MainStep

LEMMA InterruptKeepsSlow ==
  ASSUME SlowInv, Fits, Interrupt
  PROVE  SlowInv'
<1>1. ei /\ UNCHANGED <<pc, tmp, ei, peer>>
  BY DEF SlowInv, Line, Interrupt, CharAvail, ReadData, PollMore, SpecialCond, mainVars, lineVars,
         irqVars
<1>2. Typed' /\ Typed /\ Line /\ Cycle /\ Index /\ NoStop
  BY InterruptTyped DEF SlowInv
<1>3. Room <= Depth /\ Depth < 256 /\ Depth \in Nat
  BY SizeAssumption, SlowTypes, <1>2 DEF Fits, Room, Burst
<1>4. Burst' = Burst /\ Room' = Room /\ pc \notin {"setup", "clear", "enable"}
  BY <1>1, <1>2 DEF Line, Burst, Room
<1> HIDE DEF Typed
<1>5. CASE CharAvail
  <2>1. /\ isr = "idle" /\ isr' = "read" /\ idx' = 0 /\ avail' = avail
        /\ Waiting' = Waiting /\ Waiting > 0
    BY <1>2, <1>5, EmptySeq, LenProperties DEF CharAvail, Waiting, Typed, TypeOK
  <2>2. ptr' = 0 /\ rts' = FALSE /\ credit' = IF rts THEN peer.slack ELSE credit
    <3>1. ptr \in {0, 2, 5} /\ (ptr = 2 => ~rts)
      BY <1>2 DEF Line
    <3>2. LowerRts.ptr = 0 /\ LowerRts.rts = FALSE
      BY <1>2, <3>1, ChipBytes, WrongBytes DEF Typed, TypeOK
    <3> QED
      BY <1>5, <3>2 DEF CharAvail, hw_outp_ctrl
  <2>3. Left' <= Left /\ Left' \in Nat /\ Load' <= Load /\ Load' \in Nat
    BY <1>1, <1>2, <2>1, <2>2, SlowTypes DEF Left, Late, Load
  <2>4. Line'
    BY <1>1, <1>2, <2>1, <2>2, SlowTypes DEF Line
  <2>5. Cycle'
    BY <1>1, <1>2, <1>4, <2>1, <2>2, <2>3, SlowTypes DEF Cycle, Raising
  <2>6. Index'
    BY <1>1, <1>2, <1>4, <2>1, <2>3, SlowTypes DEF Index, Raising, Sending, Moving, Cycle
  <2>7. NoStop'
    BY <1>2, <2>1 DEF NoStop
  <2> QED
    BY <1>2, <2>4, <2>5, <2>6, <2>7 DEF SlowInv
<1>6. CASE ReadData
  <2>1. /\ isr = "read" /\ isr' = "poll" /\ fifo # <<>> /\ fifo' = Tail(fifo)
        /\ avail' = (avail + 1) % 256 /\ UNCHANGED <<ptr, rts, credit>>
        /\ idx' = IF avail = Depth THEN Head(fifo) ELSE idx
    BY <1>2, <1>6 DEF ReadData, regVars, Typed
  <2>2. Waiting > 0 /\ Waiting' = Waiting - 1
    BY <1>2, <2>1, HeadTailProperties, EmptySeq DEF Waiting, Typed, TypeOK, Line
  <2>3. avail + 1 <= Room /\ avail < Depth
    BY <1>2, <1>3, <1>4, <2>2, SlowTypes DEF Cycle, Load, Left
  <2>4. avail' = avail + 1 /\ idx' = idx
    <3>1. PICK a \in Nat : a = avail
      BY <1>2, SlowTypes
    <3>2. a + 1 < 256
      BY <1>3, <2>3, <3>1
    <3>3. (a + 1) % 256 = a + 1
      BY <3>2
    <3> QED
      BY <1>3, <2>1, <2>3, <3>1, <3>3
  <2>5. Late' = Late /\ credit' = credit
    BY <1>1, <2>1 DEF Late
  <2>6. Left' = Left - 1 /\ Load' = Load
    BY <1>2, <2>2, <2>4, <2>5, SlowTypes DEF Left, Load
  <2>7. Line'
    BY <1>1, <1>2, <2>1, <2>2, SlowTypes DEF Line
  <2>8. Cycle'
    <3>1. ~rts' /\ isr' # "idle"
      BY <1>2, <2>1 DEF Line
    <3>2. Left' <= Burst' /\ (Raising' => Load' <= Burst') /\ Load' <= Room'
      BY <1>1, <1>2, <1>4, <2>6, SlowTypes DEF Cycle, Raising
    <3> QED
      BY <3>1, <3>2 DEF Cycle
  <2>9. Index'
    <3>1. idx = 0 /\ Load <= Room /\ idx' = idx /\ avail' = avail + 1
      BY <1>2, <1>4, <2>1, <2>4 DEF Index, Cycle
    <3>2. UNCHANGED <<pc, tmp, idx, Load, Room>> /\ isr' = "poll"
      BY <1>1, <1>4, <2>1, <2>6, <3>1
    <3>3. avail \in Nat /\ tmp \in Nat /\ Load \in Nat /\ Room \in Nat
      BY <1>2, SlowTypes
    <3> QED
      BY <1>2, <3>1, <3>2, <3>3 DEF Index, Raising, Sending, Moving
  <2>10. NoStop'
    BY <1>2, <2>1, <2>4, SlowTypes DEF NoStop
  <2> QED
    BY <1>2, <2>7, <2>8, <2>9, <2>10 DEF SlowInv
<1>7. CASE PollMore
  <2>1. /\ isr = "poll" /\ isr' \in {"read", "idle"} /\ ptr' = 0 /\ rts' = rts
        /\ Waiting' = Waiting /\ UNCHANGED <<avail, idx>>
    BY <1>7 DEF PollMore, bufVars, Waiting
  <2>2. ~rts /\ credit' = credit /\ credit <= peer.slack
    BY <1>2, <1>7, <2>1 DEF PollMore, Line
  <2>3. IF isr' = "read" THEN Waiting > 0 ELSE Waiting = 0
    BY <1>2, <1>7, EmptySeq, LenProperties DEF PollMore, Waiting, Typed, TypeOK
  <2>4. Left' = Left /\ Load' = Load
    BY <1>1, <2>1, <2>2 DEF Left, Late, Load
  <2>5. Line'
    BY <1>1, <1>2, <2>1, <2>2, <2>3 DEF Line
  <2>6. Cycle'
    BY <1>1, <1>2, <1>4, <2>1, <2>2, <2>3, <2>4, SlowTypes DEF Cycle, Raising
  <2>7. Index'
    BY <1>1, <1>2, <1>4, <2>1, <2>4 DEF Index, Raising, Sending, Moving
  <2>8. NoStop'
    BY <1>2, <2>1 DEF NoStop
  <2> QED
    BY <1>2, <2>5, <2>6, <2>7, <2>8 DEF SlowInv
<1>8. CASE SpecialCond
  <2>1. /\ isr = "idle" /\ isr' = "idle" /\ Waiting' = Waiting /\ Waiting > 0
        /\ UNCHANGED <<avail, idx>>
    BY <1>2, <1>8, EmptySeq, LenProperties
       DEF SpecialCond, Waiting, Typed, TypeOK, bufVars, irqVars
  <2>2. /\ ptr' = 0
        /\ IF ptr = 5 THEN rts' = FALSE /\ credit' = IF rts THEN peer.slack ELSE credit
                      ELSE rts' = rts /\ credit' = credit
    <3>1. ptr \in {0, 2, 5}
      BY <1>2 DEF Line
    <3>2. CASE ptr = 5
      BY <1>8, <3>2, WrongBytes DEF SpecialCond, hw_outp_ctrl
    <3>3. CASE ptr # 5
      BY <1>8, <3>1, <3>3, WrongBytes DEF SpecialCond, hw_outp_ctrl
    <3> QED
      BY <3>2, <3>3
  <2>3. Left' <= Left /\ Left' \in Nat /\ Load' <= Load /\ Load' \in Nat
    BY <1>1, <1>2, <2>1, <2>2, SlowTypes DEF Left, Late, Load
  <2>4. Line'
    BY <1>1, <1>2, <2>1, <2>2, SlowTypes DEF Line
  <2>5. Cycle'
    BY <1>1, <1>2, <1>4, <2>1, <2>2, <2>3, SlowTypes DEF Cycle, Raising, Sending, Line
  <2>6. Index'
    BY <1>1, <1>2, <1>4, <2>1, <2>3, SlowTypes DEF Index, Raising, Sending, Moving
  <2>7. NoStop'
    BY <1>2, <2>1 DEF NoStop
  <2> QED
    BY <1>2, <2>4, <2>5, <2>6, <2>7 DEF SlowInv
<1> QED
  BY <1>5, <1>6, <1>7, <1>8 DEF Interrupt

LEMMA NextKeepsSlow ==
  ASSUME SlowInv, Fits, [Next]_vars
  PROVE  SlowInv'
<1>1. Typed' /\ Typed /\ Line /\ Cycle /\ Index /\ NoStop /\ peer' = peer
  BY NextTyped, PeerStays DEF SlowInv
<1> HIDE DEF Typed
<1>2. CASE MainStep
  BY <1>2, MainKeepsSlow
<1>3. CASE Interrupt
  BY <1>3, InterruptKeepsSlow
<1>4. CASE Arrive
  <2>1. /\ credit > 0 /\ credit' = credit - 1 /\ pc # "setup"
        /\ UNCHANGED <<pc, tmp, avail, idx, ei, isr, ptr, rts>>
    BY <1>4 DEF Arrive, mainVars, bufVars, irqVars
  <2>2. Waiting' \in {Waiting, Waiting + 1} /\ Waiting' > 0
    <3>1. fifo' \in Seq(Nat) /\ fifo' # <<>> /\ fifo \in Seq(Nat) /\ sent + 1 \in Nat
      BY <1>1, <1>4, ArriveFifo DEF Typed, TypeOK
    <3>2. Waiting' > 0
      BY <3>1, EmptySeq, LenProperties DEF Waiting
    <3>3. CASE Len(fifo) < FifoDepth
      BY <1>4, <3>1, <3>3, AppendProperties DEF Arrive, Waiting
    <3>4. CASE ~(Len(fifo) < FifoDepth)
      <4>1. fifo' = [fifo EXCEPT ![FifoDepth] = sent + 1]
        BY <1>4, <3>4 DEF Arrive
      <4>2. FifoDepth \in 1..Len(fifo)
        BY <3>1, <3>4, LenProperties, SizeAssumption
      <4> QED
        BY <3>1, <3>2, <4>1, <4>2, ExceptSeq DEF Waiting
    <3> QED
      BY <3>2, <3>3, <3>4
  <2>3. Waiting' + credit' <= Waiting + credit /\ credit' \in Nat /\ Waiting' \in Nat
    BY <1>1, <2>1, <2>2, SlowTypes
  <2>4. Late' = Late /\ Burst' = Burst /\ Room' = Room
    BY <1>1, <2>1 DEF Late, Burst, Room
  <2>5. Left' <= Left /\ Left' \in Nat /\ Load' <= Load /\ Load' \in Nat
    BY <1>1, <2>1, <2>3, <2>4, SlowTypes DEF Left, Load
  <2>6. Line'
    BY <1>1, <2>1, <2>2, SlowTypes DEF Line
  <2>7. Cycle'
    BY <1>1, <2>1, <2>3, <2>4, <2>5, SlowTypes DEF Cycle, Raising, Sending
  <2>8. Index'
    BY <1>1, <2>1, <2>4, <2>5, SlowTypes DEF Index, Raising, Sending, Moving
  <2>9. NoStop'
    BY <1>1, <2>1, <2>2 DEF NoStop, Sending
  <2> QED
    BY <1>1, <2>6, <2>7, <2>8, <2>9 DEF SlowInv
<1>5. CASE Shift \/ CtsUp \/ Spin \/ UNCHANGED vars
  <2>1. UNCHANGED <<pc, tmp, avail, idx, ei, isr, ptr, rts, fifo, credit>>
    BY <1>5 DEF Shift, CtsUp, Spin, vars, mainVars, bufVars, irqVars, regVars, lineVars
  <2>2. Waiting' = Waiting /\ Left' = Left /\ Load' = Load /\ Burst' = Burst /\ Room' = Room
    BY <1>1, <2>1 DEF Waiting, Left, Late, Load, Burst, Room
  <2> QED
    BY <1>1, <2>1, <2>2 DEF SlowInv, Line, Cycle, Index, NoStop, Raising, Sending, Moving
<1> QED
  BY <1>2, <1>3, <1>4, <1>5 DEF Next

\* The invariant of a peer that stops late, if the buffer is deep enough.
THEOREM SlowHolds == Spec => [](Fits => SlowInv)
<1>1. Init => (Fits => SlowInv)
  BY InitSlow
<1>2. (Fits => SlowInv) /\ [Next]_vars => (Fits => SlowInv)'
  BY NextKeepsSlow, PeerStays DEF Fits
<1> QED
  BY <1>1, <1>2, PTL DEF Spec

\* No store and no load leaves ch_buf's array (BufferSafe): the bound on
\* avail that the handler does not check follows from the lock if the peer
\* stops at once, and from what can be left of its bursts if it does not.
THEOREM BufferSafeHolds == Spec => []BufferSafe
<1>1. Own /\ Stored => BufferSafe
  <2> SUFFICES ASSUME Own, Stored PROVE BufferSafe
    OBVIOUS
  <2>1. PICK a \in Nat, n \in Nat, i \in Nat : a = avail /\ n = Len(fifo) /\ i = idx
    BY LenProperties DEF Stored
  <2>2. ASSUME isr = "read" PROVE avail < Depth
    <3>1. n > 0 /\ a + n <= FifoDepth
      BY <2>1, <2>2, EmptySeq DEF Stored
    <3> QED
      BY <2>1, <3>1, SizeAssumption
  <2>3. ASSUME pc = "take" PROVE tmp < Depth
    <3>1. tmp = i /\ a + i < FifoDepth
      BY <2>1, <2>3 DEF Stored
    <3> QED
      BY <3>1, SizeAssumption
  <2> QED
    BY <2>2, <2>3 DEF BufferSafe
<1>2. Fits /\ SlowInv => BufferSafe
  <2> SUFFICES ASSUME Fits, SlowInv PROVE BufferSafe
    OBVIOUS
  <2>1. Typed /\ Line /\ Cycle /\ Index
    BY DEF SlowInv
  <2>2. Room <= Depth /\ Depth \in Nat
    BY <2>1, SizeAssumption, SlowTypes DEF Fits, Room, Burst
  <2>3. ASSUME isr = "read" PROVE avail < Depth
    <3>1. Waiting > 0 /\ Load <= Room
      BY <2>1, <2>3 DEF Line, Cycle
    <3> QED
      BY <2>1, <2>2, <3>1, SlowTypes DEF Load, Left
  <2>4. ASSUME pc = "take" PROVE tmp < Depth
    BY <2>1, <2>2, <2>4, SlowTypes DEF Index
  <2> QED
    BY <2>3, <2>4 DEF BufferSafe
<1>3. ~(Prompt \/ Fits) => BufferSafe
  BY DEF BufferSafe
<1> QED
  BY <1>1, <1>2, <1>3, InvHolds, SlowHolds, PTL

\* modprn_int_getch never waits with RTS down and nothing to come (NoWedge),
\* overrun or not, and also when a handler at the wrong moment has taken the
\* register pointer away from it.
THEOREM NoWedgeHolds == Spec => []NoWedge
<1>1. Own /\ Stored => NoWedge
  BY DEF Stored, NoWedge
<1>2. SlowInv => NoWedge
  <2>1. SlowInv /\ fifo = <<>> => Waiting = 0
    BY EmptySeq DEF Waiting
  <2> QED
    BY <2>1, SlowTypes DEF SlowInv, NoStop, NoWedge
<1>3. ~(Prompt \/ Fits) => NoWedge
  BY DEF NoWedge
<1> QED
  BY <1>1, <1>2, <1>3, InvHolds, SlowHolds, PTL

-----------------------------------------------------------------------------
(* Pieces of the stream.                                                   *)

\* b comes next after a when only characters of L were sent between them.
Follows(a, b, L) == a < b /\ (a + 1)..(b - 1) \subseteq L

\* f's n places from lo on continue a stream that has come to a.
Piece(a, f, lo, n, L) ==
  \A i \in lo..(lo + n - 1) : Follows(IF i = lo THEN a ELSE f[i - 1], f[i], L)

\* What the stream has come to behind them.
End(a, f, lo, n) == IF n = 0 THEN a ELSE f[lo + n - 1]

LEMMA FollowsMore ==
  ASSUME NEW a, NEW b, NEW L, NEW M, L \subseteq M, Follows(a, b, L)
  PROVE  Follows(a, b, M)
BY DEF Follows

LEMMA PieceMore ==
  ASSUME NEW a, NEW f, NEW lo, NEW n, NEW L, NEW M, L \subseteq M, Piece(a, f, lo, n, L)
  PROVE  Piece(a, f, lo, n, M)
BY FollowsMore DEF Piece

LEMMA PieceEmpty ==
  ASSUME NEW a, NEW f, NEW lo \in Nat, NEW L
  PROVE  Piece(a, f, lo, 0, L) /\ End(a, f, lo, 0) = a
<1>1. lo..(lo + 0 - 1) = {}
  OBVIOUS
<1> QED
  BY <1>1 DEF Piece, End

\* The first of a piece.
LEMMA PieceHead ==
  ASSUME NEW a, NEW f, NEW lo \in Nat, NEW n \in Nat, NEW L,
         Piece(a, f, lo, n + 1, L)
  PROVE  /\ Follows(a, f[lo], L) /\ Piece(f[lo], f, lo + 1, n, L)
         /\ End(f[lo], f, lo + 1, n) = End(a, f, lo, n + 1)
<1>1. Follows(a, f[lo], L)
  <2>1. lo \in lo..(lo + (n + 1) - 1)
    OBVIOUS
  <2> QED
    BY <2>1 DEF Piece
<1>2. ASSUME NEW i \in (lo + 1)..((lo + 1) + n - 1)
      PROVE  Follows(IF i = lo + 1 THEN f[lo] ELSE f[i - 1], f[i], L)
  <2>1. i \in lo..(lo + (n + 1) - 1) /\ i # lo
    OBVIOUS
  <2>2. Follows(f[i - 1], f[i], L)
    BY <2>1 DEF Piece
  <2>3. (IF i = lo + 1 THEN f[lo] ELSE f[i - 1]) = f[i - 1]
    OBVIOUS
  <2> QED
    BY <2>2, <2>3
<1>3. End(f[lo], f, lo + 1, n) = End(a, f, lo, n + 1)
  <2>1. CASE n = 0
    BY <2>1 DEF End
  <2>2. CASE n # 0
    <3>1. (lo + 1) + n - 1 = lo + (n + 1) - 1 /\ n + 1 # 0
      OBVIOUS
    <3> QED
      BY <2>2, <3>1 DEF End
  <2> QED
    BY <2>1, <2>2
<1> QED
  BY <1>1, <1>2, <1>3 DEF Piece

\* g is f with c behind the n places from lo on.
Longer(g, f, lo, n, c) == g[lo + n] = c /\ \A i \in lo..(lo + n - 1) : g[i] = f[i]

\* A piece grows at its end.
LEMMA PieceGrows ==
  ASSUME NEW a, NEW f, NEW g, NEW lo \in Nat, NEW n \in Nat, NEW L, NEW c,
         Piece(a, f, lo, n, L), Follows(End(a, f, lo, n), c, L), Longer(g, f, lo, n, c)
  PROVE  Piece(a, g, lo, n + 1, L) /\ End(a, g, lo, n + 1) = c
<1> USE DEF Longer
<1>1. ASSUME NEW i \in lo..(lo + (n + 1) - 1)
      PROVE  Follows(IF i = lo THEN a ELSE g[i - 1], g[i], L)
  <2>1. CASE i = lo + n
    <3>1. (IF i = lo THEN a ELSE g[i - 1]) = End(a, f, lo, n)
      <4>1. CASE n = 0
        BY <2>1, <4>1 DEF End
      <4>2. CASE n # 0
        <5>1. i # lo /\ i - 1 \in lo..(lo + n - 1) /\ i - 1 = lo + n - 1
          BY <2>1, <4>2
        <5>2. g[i - 1] = f[i - 1]
          BY <5>1
        <5> QED
          BY <4>2, <5>1, <5>2 DEF End
      <4> QED
        BY <4>1, <4>2
    <3> QED
      BY <2>1, <3>1
  <2>2. CASE i # lo + n
    <3>1. i \in lo..(lo + n - 1)
      BY <2>2
    <3>2. Follows(IF i = lo THEN a ELSE f[i - 1], f[i], L)
      BY <3>1 DEF Piece
    <3>3. i # lo => i - 1 \in lo..(lo + n - 1)
      BY <3>1
    <3>4. g[i] = f[i] /\ (i # lo => g[i - 1] = f[i - 1])
      BY <3>1, <3>3
    <3> QED
      BY <3>2, <3>4
  <2> QED
    BY <2>1, <2>2
<1>2. End(a, g, lo, n + 1) = c
  <2>1. n + 1 # 0 /\ lo + (n + 1) - 1 = lo + n
    OBVIOUS
  <2> QED
    BY <2>1 DEF End
<1> QED
  BY <1>1, <1>2 DEF Piece

\* Only the places of a piece matter.
LEMMA PieceSame ==
  ASSUME NEW a, NEW f, NEW g, NEW lo \in Nat, NEW n \in Nat, NEW L,
         Piece(a, f, lo, n, L), \A i \in lo..(lo + n - 1) : g[i] = f[i]
  PROVE  Piece(a, g, lo, n, L) /\ End(a, g, lo, n) = End(a, f, lo, n)
<1>1. ASSUME NEW i \in lo..(lo + n - 1)
      PROVE  Follows(IF i = lo THEN a ELSE g[i - 1], g[i], L)
  <2>1. Follows(IF i = lo THEN a ELSE f[i - 1], f[i], L)
    BY DEF Piece
  <2>2. i # lo => i - 1 \in lo..(lo + n - 1)
    OBVIOUS
  <2>3. g[i] = f[i] /\ (i # lo => g[i - 1] = f[i - 1])
    BY <2>2
  <2> QED
    BY <2>1, <2>3
<1>2. End(a, g, lo, n) = End(a, f, lo, n)
  <2>1. n # 0 => lo + n - 1 \in lo..(lo + n - 1)
    OBVIOUS
  <2> QED
    BY <2>1 DEF End
<1> QED
  BY <1>1, <1>2 DEF Piece

\* The first of a sequence goes, the others move up.
LEMMA TailPiece ==
  ASSUME NEW a, NEW s \in Seq(Nat), s # <<>>, NEW L, Piece(a, s, 1, Len(s), L)
  PROVE  /\ Follows(a, Head(s), L)
         /\ Piece(Head(s), Tail(s), 1, Len(Tail(s)), L)
         /\ End(Head(s), Tail(s), 1, Len(Tail(s))) = End(a, s, 1, Len(s))
<1>1. PICK n \in Nat : Len(s) = n + 1
  <2>1. Len(s) \in Nat /\ Len(s) # 0
    BY EmptySeq
  <2>2. Len(s) - 1 \in Nat /\ Len(s) = (Len(s) - 1) + 1
    BY <2>1
  <2> QED
    BY <2>2
<1>2. /\ Head(s) = s[1] /\ Len(Tail(s)) = n
      /\ \A i \in 1..n : Tail(s)[i] = s[i + 1]
  BY <1>1, HeadTailProperties
<1>3. Piece(a, s, 1, n + 1, L)
  BY <1>1
<1>4. /\ Follows(a, s[1], L) /\ Piece(s[1], s, 2, n, L)
      /\ End(s[1], s, 2, n) = End(a, s, 1, n + 1)
  <2>1. 1 + 1 = 2
    OBVIOUS
  <2> QED
    BY <1>3, <2>1, PieceHead
<1>5. ASSUME NEW i \in 1..n
      PROVE  Follows(IF i = 1 THEN s[1] ELSE Tail(s)[i - 1], Tail(s)[i], L)
  <2>1. i + 1 \in 2..(2 + n - 1)
    OBVIOUS
  <2>2. Follows(IF i + 1 = 2 THEN s[1] ELSE s[(i + 1) - 1], s[i + 1], L)
    BY <1>4, <2>1 DEF Piece
  <2>3. Tail(s)[i] = s[i + 1]
    BY <1>2
  <2>4. i # 1 => Tail(s)[i - 1] = s[(i + 1) - 1]
    <3> SUFFICES ASSUME i # 1 PROVE Tail(s)[i - 1] = s[(i + 1) - 1]
      OBVIOUS
    <3>1. i - 1 \in 1..n /\ (i - 1) + 1 = (i + 1) - 1
      OBVIOUS
    <3> QED
      BY <1>2, <3>1
  <2>5. (i = 1) <=> (i + 1 = 2)
    OBVIOUS
  <2> QED
    BY <2>2, <2>3, <2>4, <2>5
<1>6. End(s[1], Tail(s), 1, n) = End(s[1], s, 2, n)
  <2>1. CASE n = 0
    BY <2>1 DEF End
  <2>2. CASE n # 0
    <3>1. n \in 1..n /\ 1 + n - 1 = n /\ 2 + n - 1 = n + 1
      BY <2>2
    <3>2. Tail(s)[n] = s[n + 1]
      BY <1>2, <3>1
    <3> QED
      BY <2>2, <3>1, <3>2 DEF End
  <2> QED
    BY <2>1, <2>2
<1>7. Piece(s[1], Tail(s), 1, n, L)
  <2>1. 1..(1 + n - 1) = 1..n
    OBVIOUS
  <2> QED
    BY <1>5, <2>1 DEF Piece
<1> QED
  BY <1>1, <1>2, <1>4, <1>6, <1>7

\* t is s, of d numbers, with v as its last.
LastIs(t, s, d, v) ==
  s \in Seq(Nat) /\ Len(s) = d /\ d \in Nat \ {0} /\ t = [s EXCEPT ![d] = v]

\* The last of a sequence is overwritten and counts as lost.
LEMMA Overwritten ==
  ASSUME NEW a \in Nat, NEW s, NEW d, NEW L,
         Piece(a, s, 1, d, L), NEW k \in Nat, End(a, s, 1, d) = k,
         NEW t, LastIs(t, s, d, k + 1), NEW M, M = L \cup {s[d]}
  PROVE  /\ Piece(a, t, 1, d, M)
         /\ End(a, t, 1, d) = k + 1
<1> s \in Seq(Nat) /\ Len(s) = d /\ d \in Nat \ {0}
  BY DEF LastIs
<1>1. d \in 1..d /\ 1..(1 + d - 1) = 1..d /\ 1 + d - 1 = d /\ d # 0
  OBVIOUS
<1>2. s[d] = k /\ s \in [1..d -> Nat]
  BY <1>1, LenProperties DEF End
<1>3. t[d] = k + 1 /\ \A i \in 1..d : i # d => t[i] = s[i]
  BY <1>1, <1>2 DEF LastIs
<1>4. ASSUME NEW i \in 1..d
      PROVE  Follows(IF i = 1 THEN a ELSE t[i - 1], t[i], M)
  <2>1. Follows(IF i = 1 THEN a ELSE s[i - 1], s[i], L)
    BY <1>1 DEF Piece
  <2>2. i # 1 => i - 1 \in 1..d /\ i - 1 # d
    OBVIOUS
  <2>3. i # 1 => t[i - 1] = s[i - 1] /\ s[i - 1] \in Nat
    BY <1>2, <1>3, <2>2
  <2>4. CASE i # d
    <3>1. t[i] = s[i]
      BY <1>3, <2>4
    <3> QED
      BY <2>1, <2>3, <3>1, FollowsMore
  <2>5. CASE i = d
    <3> DEFINE q == IF i = 1 THEN a ELSE s[i - 1]
    <3>1. q \in Nat
      BY <2>3
    <3>2. Follows(q, k, L)
      BY <1>2, <2>1, <2>5
    <3> HIDE DEF q
    <3>3. Follows(q, k + 1, L \cup {k})
      BY <3>1, <3>2 DEF Follows
    <3>4. (IF i = 1 THEN a ELSE t[i - 1]) = q
      BY <2>3 DEF q
    <3> QED
      BY <1>2, <1>3, <2>5, <3>3, <3>4
  <2> QED
    BY <2>4, <2>5
<1>5. End(a, t, 1, d) = k + 1
  BY <1>1, <1>3 DEF End
<1> QED
  BY <1>1, <1>4, <1>5 DEF Piece

-----------------------------------------------------------------------------
(* The stream through the program.                                         *)

\* What has come back, and then what is being sent.
Back  == End(0, echoed, 1, Len(echoed))
Going == IF txBuf = NoChar THEN Back ELSE txBuf

\* The main program has a character in hand.
Held == pc \in {"inc_read", "inc_write", "test", "rts_select", "rts_write",
                "out_select", "out_poll", "out_data"}
InHand == IF Held THEN chbuf ELSE Going

\* The places of buf that are occupied, and what the stream has come to
\* behind them.
Lo    == IF pc \in {"inc_read", "inc_write"} THEN idx + 1 ELSE idx
Count == CASE pc \in {"setup", "clear"}   -> 0
           [] pc \in {"idx_read", "take"} -> avail + 1
           [] OTHER                       -> avail
InBuf == End(InHand, buf, Lo, Count)

Chain ==
  /\ pc = "setup" => sent = 0 /\ echoed = <<>> /\ fifo = <<>> /\ txBuf = NoChar
  /\ pc = "out_data" => txBuf = NoChar
  /\ Piece(0, echoed, 1, Len(echoed), lost)
  /\ txBuf # NoChar => Follows(Back, txBuf, lost)
  /\ Held => Follows(Going, chbuf, lost)
  /\ Piece(InHand, buf, Lo, Count, lost)
  /\ Piece(InBuf, fifo, 1, Len(fifo), lost)
  /\ End(InBuf, fifo, 1, Len(fifo)) = sent

\* The invariant, and what it needs.
Echo == Typed /\ Own /\ Stored /\ Chain

\* The occupied places are buf's.
LEMMA Places ==
  ASSUME Typed, Own, Stored
  PROVE  Lo \in Nat /\ Count \in Nat /\ (Count > 0 => Lo + Count <= Depth)
<1>1. PICK a \in Nat, i \in Nat : a = avail /\ i = idx
  BY DEF Stored
<1>2. Lo \in Nat /\ Count \in Nat
  BY <1>1 DEF Lo, Count
<1>3. ASSUME Count > 0 PROVE Lo + Count <= Depth
  <2>1. pc \notin {"setup", "clear"} /\ Lo + Count <= a + i + 1
    BY <1>1, <1>3 DEF Lo, Count
  <2>2. CASE isr # "idle"
    <3>1. a <= FifoDepth /\ i = 0 /\ ~Taking
      BY <1>1, <2>2, LenProperties, SizeAssumption DEF Stored, Own
    <3>2. Lo + Count = a
      BY <1>1, <2>1, <3>1 DEF Lo, Count, Taking
    <3> QED
      BY <3>1, <3>2, SizeAssumption
  <2>3. CASE isr = "idle" /\ pc \in {"idx_read", "take", "inc_read", "inc_write"}
    <3>1. a + i < FifoDepth
      BY <1>1, <2>3 DEF Stored
    <3> QED
      BY <2>1, <1>1, <3>1, <1>2, SizeAssumption
  <2>4. CASE isr = "idle" /\ pc \notin {"idx_read", "take", "inc_read", "inc_write"}
    <3>1. Lo = i /\ Count = a /\ a > 0
      BY <1>1, <1>3, <2>1, <2>4 DEF Lo, Count
    <3>2. ~rts
      BY <1>1, <2>1, <3>1 DEF Own
    <3>3. pc \notin {"enable", "rts_select", "rts_write"}
      BY <1>1, <3>1, <3>2 DEF Own, Stored
    <3>4. a + i <= FifoDepth
      BY <1>1, <2>1, <2>4, <3>2, <3>3 DEF Stored, Typed, TypeOK, PCs
    <3> QED
      BY <1>1, <3>1, <3>4, SizeAssumption
  <2> QED
    BY <2>2, <2>3, <2>4
<1> QED
  BY <1>2, <1>3

LEMMA EndTypes ==
  ASSUME Typed, Own, Stored
  PROVE  Back \in Nat /\ Going \in Nat /\ InHand \in Nat /\ InBuf \in Nat
<1>1. Back \in Nat
  <2>1. echoed \in Seq(Nat) /\ Len(echoed) \in Nat
    BY LenProperties DEF Typed, TypeOK
  <2>2. Len(echoed) # 0 => 1 + Len(echoed) - 1 \in 1..Len(echoed)
    BY <2>1
  <2>3. Len(echoed) # 0 => echoed[1 + Len(echoed) - 1] \in Nat
    BY <2>1, <2>2, ElementOfSeq
  <2> QED
    BY <2>3 DEF Back, End
<1>2. Going \in Nat
  BY <1>1 DEF Going, Typed, TypeOK
<1>3. InHand \in Nat
  BY <1>2 DEF InHand, Typed, TypeOK
<1>4. InBuf \in Nat
  <2>1. PICK l, n : l = Lo /\ n = Count
    OBVIOUS
  <2>2. l \in Nat /\ n \in Nat /\ (n > 0 => l + n <= Depth)
    BY <2>1, Places
  <2>3. n # 0 => l + n - 1 \in 0..(Depth - 1)
    BY <2>2, SizeAssumption
  <2>4. n # 0 => buf[l + n - 1] \in Nat
    BY <2>3 DEF Typed, TypeOK
  <2> QED
    BY <1>3, <2>1, <2>4 DEF InBuf, End
<1> QED
  BY <1>1, <1>2, <1>3, <1>4

LEMMA InitChain == Init => Chain
<1> SUFFICES ASSUME Init PROVE Chain
  OBVIOUS
<1>1. /\ pc = "setup" /\ sent = 0 /\ echoed = <<>> /\ fifo = <<>> /\ txBuf = NoChar
      /\ idx \in Nat
  BY SizeAssumption DEF Init
<1>2. ~Held /\ Lo = idx /\ Count = 0 /\ Len(fifo) = 0 /\ Len(echoed) = 0
  BY <1>1, EmptySeq DEF Held, Lo, Count
<1>3. 1 \in Nat
  OBVIOUS
<1>4. Back = 0 /\ Piece(0, echoed, 1, Len(echoed), lost)
  BY <1>2, <1>3, PieceEmpty DEF Back
<1>5. InHand = 0
  BY <1>1, <1>2, <1>4 DEF InHand, Going
<1>6. InBuf = 0 /\ Piece(InHand, buf, Lo, Count, lost)
  BY <1>1, <1>2, <1>5, PieceEmpty DEF InBuf
<1>7. Piece(InBuf, fifo, 1, Len(fifo), lost) /\ End(InBuf, fifo, 1, Len(fifo)) = 0
  BY <1>2, <1>3, <1>6, PieceEmpty
<1> QED
  BY <1>1, <1>2, <1>4, <1>6, <1>7 DEF Chain

\* A step that moves no character and occupies no other place.
LEMMA SameChain ==
  ASSUME Chain, UNCHANGED <<chbuf, txBuf, echoed, buf, fifo, sent, lost>>,
         Held' <=> Held, Lo' = Lo, Count' = Count,
         pc' = "setup" => pc = "setup", pc' = "out_data" => txBuf = NoChar
  PROVE  Chain'
<1>1. Back' = Back
  BY DEF Back
<1>2. Going' = Going
  BY <1>1 DEF Going
<1>3. InHand' = InHand
  BY <1>2 DEF InHand
<1>4. InBuf' = InBuf
  BY <1>3 DEF InBuf
<1> QED
  BY <1>1, <1>2, <1>3, <1>4 DEF Chain

\* The steps of the main program that do.
LEMMA TakeChain ==
  ASSUME Echo, Take
  PROVE  Chain'
<1>1. /\ pc = "take" /\ pc' = "inc_read" /\ chbuf' = IF tmp < Depth THEN buf[tmp] ELSE 0
      /\ UNCHANGED <<txBuf, echoed, avail, idx, buf, fifo, sent, lost>>
  BY DEF Take, Go, bufVars, noIO, lineVars
<1>2. PICK a \in Nat, i \in Nat : a = avail /\ i = idx
  BY DEF Echo, Stored
<1>3. tmp = i /\ i < Depth
  BY <1>1, <1>2, SizeAssumption DEF Echo, Stored
<1>4. /\ Lo = i /\ Count = a + 1 /\ ~Held
      /\ Lo' = i + 1 /\ Count' = a /\ Held' /\ chbuf' = buf[i]
  BY <1>1, <1>2, <1>3 DEF Lo, Count, Held
<1>5. Back' = Back /\ Going' = Going /\ InHand = Going /\ InHand' = buf[i]
  BY <1>1, <1>4 DEF Back, Going, InHand
<1>6. PICK h, b, l : h = InHand /\ b = buf /\ l = lost
  OBVIOUS
<1>7. Piece(h, b, i, a + 1, l)
  BY <1>4, <1>6 DEF Echo, Chain
<1>8. /\ Follows(h, b[i], l) /\ Piece(b[i], b, i + 1, a, l)
      /\ End(b[i], b, i + 1, a) = End(h, b, i, a + 1)
  BY <1>7, PieceHead
<1>9. InBuf' = InBuf
  BY <1>1, <1>4, <1>5, <1>6, <1>8 DEF InBuf
<1>10. Piece(InHand', buf', Lo', Count', lost')
  BY <1>1, <1>4, <1>5, <1>6, <1>8
<1>11. Follows(Going', chbuf', lost')
  BY <1>1, <1>4, <1>5, <1>6, <1>8
<1> QED
  BY <1>1, <1>5, <1>9, <1>10, <1>11 DEF Echo, Chain

LEMMA OutDataChain ==
  ASSUME Echo, OutData
  PROVE  Chain'
<1>1. /\ pc = "out_data" /\ pc' = "wait" /\ txBuf' = chbuf
      /\ UNCHANGED <<chbuf, echoed, avail, idx, buf, fifo, sent, lost>>
  BY DEF OutData, Go, bufVars, lineVars
<1>2. txBuf = NoChar /\ chbuf # NoChar /\ Held /\ ~Held'
  BY <1>1 DEF Echo, Chain, Held, Typed, TypeOK, NoChar
<1>3. Lo' = Lo /\ Count' = Count
  BY <1>1 DEF Lo, Count
<1>4. Back' = Back /\ Going = Back /\ InHand' = InHand
  BY <1>1, <1>2 DEF Back, Going, InHand
<1>5. InBuf' = InBuf
  BY <1>1, <1>3, <1>4 DEF InBuf
<1> QED
  BY <1>1, <1>2, <1>3, <1>4, <1>5 DEF Echo, Chain

LEMMA MainChain ==
  ASSUME Echo, MainStep
  PROVE  Chain'
<1>1. CASE Take
  BY <1>1, TakeChain
<1>2. CASE OutData
  BY <1>2, OutDataChain
<1>3. CASE SioInit
  <2>1. /\ pc = "setup" /\ pc' = "clear" /\ fifo' = <<>> /\ txBuf' = NoChar
        /\ UNCHANGED <<chbuf, echoed, avail, idx, buf, sent, lost>>
    BY <1>3 DEF SioInit, Go, bufVars, lineVars
  <2>2. fifo' = fifo /\ txBuf' = txBuf
    BY <2>1 DEF Echo, Chain
  <2>3. (Held' <=> Held) /\ Lo' = Lo /\ Count' = Count
    BY <2>1 DEF Held, Lo, Count
  <2> QED
    BY <2>1, <2>2, <2>3, SameChain DEF Echo
<1>4. CASE ClearBuf
  <2>1. /\ pc = "clear" /\ pc' = "enable" /\ avail' = 0
        /\ UNCHANGED <<chbuf, txBuf, echoed, idx, buf, fifo, sent, lost>>
    BY <1>4 DEF ClearBuf, Go, noIO, lineVars
  <2>2. (Held' <=> Held) /\ Lo' = Lo /\ Count' = Count
    BY <2>1 DEF Held, Lo, Count
  <2> QED
    BY <2>1, <2>2, SameChain DEF Echo
<1>5. CASE DecWrite
  <2>1. /\ pc = "dec_write" /\ pc' = "idx_read" /\ avail' = (tmp - 1) % 256
        /\ UNCHANGED <<chbuf, txBuf, echoed, idx, buf, fifo, sent, lost>>
    BY <1>5 DEF DecWrite, Go, noIO, lineVars
  <2>2. PICK a \in Nat, i \in Nat : a = avail /\ i = idx
    BY DEF Echo, Stored
  <2>3. tmp = a /\ a > 0 /\ a <= FifoDepth
    BY <2>1, <2>2, SizeAssumption DEF Echo, Stored
  <2>4. avail' = a - 1
    BY <2>1, <2>3, NoWrap
  <2>5. (Held' <=> Held) /\ Lo' = Lo /\ Count' = Count
    BY <2>1, <2>2, <2>4 DEF Held, Lo, Count
  <2> QED
    BY <2>1, <2>5, SameChain DEF Echo
<1>6. CASE IncWrite
  <2>1. /\ pc = "inc_write" /\ pc' = "test" /\ idx' = (tmp + 1) % 256
        /\ UNCHANGED <<chbuf, txBuf, echoed, avail, buf, fifo, sent, lost>>
    BY <1>6 DEF IncWrite, Go, noIO, lineVars
  <2>2. PICK a \in Nat, i \in Nat : a = avail /\ i = idx
    BY DEF Echo, Stored
  <2>3. tmp = i /\ i < FifoDepth
    BY <2>1, <2>2, SizeAssumption DEF Echo, Stored
  <2>4. idx' = i + 1
    BY <2>1, <2>3, NoWrap
  <2>5. (Held' <=> Held) /\ Lo' = Lo /\ Count' = Count
    BY <2>1, <2>2, <2>4 DEF Held, Lo, Count
  <2> QED
    BY <2>1, <2>5, SameChain DEF Echo
<1>7. CASE EnableInterrupts \/ Wait \/ DecRead \/ IdxRead \/ IncRead \/ Test
  <2>1. UNCHANGED <<chbuf, txBuf, echoed, avail, idx, buf, fifo, sent, lost>>
    BY <1>7 DEF EnableInterrupts, Wait, DecRead, IdxRead, IncRead, Test, bufVars, noIO,
                lineVars
  <2>2. \/ pc = "enable" /\ pc' = "wait"
        \/ pc = "wait" /\ pc' = "dec_read"
        \/ pc = "dec_read" /\ pc' = "dec_write"
        \/ pc = "idx_read" /\ pc' = "take"
        \/ pc = "inc_read" /\ pc' = "inc_write"
        \/ pc = "test" /\ pc' \in {"rts_select", "out_select"}
    BY <1>7 DEF EnableInterrupts, Wait, DecRead, IdxRead, IncRead, Test, Go
  <2>3. (Held' <=> Held) /\ Lo' = Lo /\ Count' = Count
    BY <2>1, <2>2 DEF Held, Lo, Count
  <2> QED
    BY <2>1, <2>2, <2>3, SameChain DEF Echo
<1>8. CASE RtsSelect \/ RtsWrite \/ OutSelect \/ OutPoll
  <2>1. UNCHANGED <<chbuf, txBuf, echoed, avail, idx, buf, fifo, sent, lost>>
    BY <1>8 DEF RtsSelect, RtsWrite, OutSelect, OutPoll, bufVars, lineVars
  <2>2. \/ pc = "rts_select" /\ pc' = "rts_write"
        \/ pc = "rts_write" /\ pc' = "out_select"
        \/ pc = "out_select" /\ pc' = "out_poll"
        \/ pc = "out_poll" /\ pc' = "out_select"
        \/ pc = "out_poll" /\ pc' = "out_data" /\ txBuf = NoChar
    BY <1>8 DEF RtsSelect, RtsWrite, OutSelect, OutPoll, Go
  <2>3. (Held' <=> Held) /\ Lo' = Lo /\ Count' = Count
    BY <2>1, <2>2 DEF Held, Lo, Count
  <2> QED
    BY <2>1, <2>2, <2>3, SameChain DEF Echo
<1> QED
  BY <1>1, <1>2, <1>3, <1>4, <1>5, <1>6, <1>7, <1>8 DEF MainStep

\* A handler moves the chip's first character behind the buffer's last.
LEMMA ReadDataChain ==
  ASSUME Echo, ReadData
  PROVE  Chain'
<1>1. /\ isr = "read" /\ fifo # <<>> /\ fifo' = Tail(fifo) /\ avail' = (avail + 1) % 256
      /\ buf' = IF avail < Depth THEN [buf EXCEPT ![avail] = Head(fifo)] ELSE buf
      /\ idx' = IF avail = Depth THEN Head(fifo) ELSE idx
      /\ UNCHANGED <<pc, chbuf, txBuf, echoed, sent, lost>>
  BY DEF ReadData, mainVars, lineVars, Echo, Typed
<1>2. PICK a \in Nat, n \in Nat : a = avail /\ n = Len(fifo)
  BY LenProperties DEF Echo, Stored
<1>3. fifo \in Seq(Nat) /\ n > 0 /\ a + n <= FifoDepth /\ idx = 0
  BY <1>1, <1>2, EmptySeq DEF Echo, Stored
<1>4. a < FifoDepth /\ a < Depth /\ a # Depth
  BY <1>3, SizeAssumption
<1>5. avail' = a + 1 /\ idx' = 0
  BY <1>1, <1>2, <1>3, <1>4, NoWrap
<1>6. buf' = [buf EXCEPT ![a] = Head(fifo)] /\ a \in 0..(Depth - 1)
  BY <1>1, <1>2, <1>4, SizeAssumption
<1>7. ~Taking /\ pc \notin {"setup", "clear"}
  BY <1>1 DEF Echo, Own
<1>8. Lo = 0 /\ Count = a /\ Lo' = 0 /\ Count' = a + 1 /\ (Held' <=> Held)
  BY <1>1, <1>2, <1>3, <1>5, <1>7 DEF Lo, Count, Held, Taking
<1>9. Back' = Back /\ Going' = Going /\ InHand' = InHand
  BY <1>1, <1>8 DEF Back, Going, InHand
<1>10. PICK h, k, b, c, s, t, l :
          /\ h = InHand /\ k = InBuf /\ b = buf /\ c = buf' /\ s = fifo /\ t = Tail(fifo)
          /\ l = lost
  OBVIOUS
<1>11. /\ Follows(k, Head(s), l) /\ Piece(Head(s), t, 1, Len(t), l)
       /\ End(Head(s), t, 1, Len(t)) = End(k, s, 1, Len(s))
  <2>1. s \in Seq(Nat) /\ s # <<>> /\ Piece(k, s, 1, Len(s), l) /\ t = Tail(s)
    BY <1>1, <1>3, <1>10 DEF Echo, Chain
  <2> QED
    BY <2>1, TailPiece
<1>12. Piece(h, c, 0, a + 1, l) /\ End(h, c, 0, a + 1) = Head(s)
  <2>1. Piece(h, b, 0, a, l) /\ k = End(h, b, 0, a)
    BY <1>8, <1>10 DEF Echo, Chain, InBuf
  <2>2. b \in [0..(Depth - 1) -> Nat] /\ c = [b EXCEPT ![a] = Head(s)]
    BY <1>6, <1>10 DEF Echo, Typed, TypeOK
  <2>3. c[0 + a] = Head(s) /\ \A i \in 0..(0 + a - 1) : c[i] = b[i]
    BY <1>4, <1>6, <2>2, SizeAssumption
  <2>4. 0 \in Nat
    OBVIOUS
  <2> QED
    <3>1. Longer(c, b, 0, a, Head(s))
      BY <2>3 DEF Longer
    <3> QED
      BY <1>11, <2>1, <2>4, <3>1, PieceGrows
<1>13. InBuf' = Head(s)
  BY <1>8, <1>9, <1>10, <1>12 DEF InBuf
<1>14. /\ Piece(InHand', buf', Lo', Count', lost')
       /\ Piece(InBuf', fifo', 1, Len(fifo'), lost')
       /\ End(InBuf', fifo', 1, Len(fifo')) = sent'
  <2>1. Piece(InHand', buf', Lo', Count', lost')
    BY <1>1, <1>8, <1>9, <1>10, <1>12
  <2>2. fifo' = t /\ lost' = l /\ sent' = sent
    BY <1>1, <1>10
  <2>3. End(k, s, 1, Len(s)) = sent
    BY <1>10 DEF Echo, Chain
  <2> QED
    BY <1>11, <1>13, <2>1, <2>2, <2>3
<1> QED
  BY <1>1, <1>7, <1>8, <1>9, <1>14 DEF Echo, Chain

LEMMA InterruptChain ==
  ASSUME Echo, Interrupt
  PROVE  Chain'
<1>1. CASE ReadData
  BY <1>1, ReadDataChain
<1>2. CASE CharAvail
  <2>1. /\ ei /\ isr = "idle" /\ fifo # <<>> /\ idx' = 0
        /\ UNCHANGED <<pc, chbuf, txBuf, echoed, avail, buf, fifo, sent, lost>>
    BY <1>2 DEF CharAvail, mainVars, lineVars
  <2>2. ~Taking /\ pc \notin {"setup", "clear"} /\ avail = 0
    BY <2>1 DEF Echo, Own, Taking
  <2>3. Count = 0 /\ Count' = 0 /\ Lo' \in Nat /\ (Held' <=> Held)
    BY <2>1, <2>2 DEF Count, Lo, Held, Taking
  <2>4. Back' = Back /\ Going' = Going /\ InHand' = InHand
    BY <2>1, <2>3 DEF Back, Going, InHand
  <2>5. InBuf' = InBuf
    BY <2>3, <2>4 DEF InBuf, End
  <2>6. Piece(InHand', buf', Lo', Count', lost')
    <3>1. PICK h, b, l, m : h = InHand' /\ b = buf' /\ l = lost' /\ m = Lo'
      OBVIOUS
    <3>2. Piece(h, b, m, 0, l)
      BY <2>3, <3>1, PieceEmpty
    <3> QED
      BY <2>3, <3>1, <3>2
  <2> QED
    BY <2>1, <2>2, <2>3, <2>4, <2>5, <2>6 DEF Echo, Chain
<1>3. CASE PollMore \/ SpecialCond
  <2>1. UNCHANGED <<pc, chbuf, txBuf, echoed, avail, idx, buf, fifo, sent, lost>>
    BY <1>3 DEF PollMore, SpecialCond, mainVars, bufVars, lineVars
  <2>2. (Held' <=> Held) /\ Lo' = Lo /\ Count' = Count
    BY <2>1 DEF Held, Lo, Count
  <2>3. pc = "out_data" => txBuf = NoChar
    BY DEF Echo, Chain
  <2> QED
    BY <2>1, <2>2, <2>3, SameChain DEF Echo
<1> QED
  BY <1>1, <1>2, <1>3 DEF Interrupt

\* A character arrives, and another may be lost.
LEMMA ArriveChain ==
  ASSUME Echo, Arrive
  PROVE  Chain'
<1>1. /\ pc # "setup" /\ sent' = sent + 1
      /\ UNCHANGED <<pc, chbuf, txBuf, echoed, avail, idx, buf>>
      /\ IF Len(fifo) < FifoDepth
         THEN fifo' = Append(fifo, sent + 1) /\ lost' = lost
         ELSE fifo' = [fifo EXCEPT ![FifoDepth] = sent + 1] /\ lost' = lost \cup {fifo[FifoDepth]}
  BY DEF Arrive, mainVars, bufVars
<1>2. (Held' <=> Held) /\ Lo' = Lo /\ Count' = Count
  BY <1>1 DEF Held, Lo, Count
<1>3. Back' = Back /\ Going' = Going
  BY <1>1 DEF Back, Going
<1>4. InHand' = InHand
  BY <1>1, <1>2, <1>3 DEF InHand
<1>5. InBuf' = InBuf
  BY <1>1, <1>2, <1>4 DEF InBuf
<1>6. PICK k, s, t, l, m, g, d :
         /\ k = InBuf /\ s = fifo /\ t = fifo' /\ l = lost /\ m = lost' /\ g = sent
         /\ d = Len(fifo)
  OBVIOUS
<1>7. s \in Seq(Nat) /\ d \in Nat /\ d = Len(s) /\ d <= FifoDepth /\ g \in Nat /\ k \in Nat
  BY <1>6, LenProperties, EndTypes DEF Echo, Typed, TypeOK
<1>8. Piece(k, s, 1, d, l) /\ End(k, s, 1, d) = g
  BY <1>6 DEF Echo, Chain
<1>9. l \subseteq m /\ Piece(k, t, 1, Len(t), m) /\ End(k, t, 1, Len(t)) = g + 1
  <2>1. CASE d < FifoDepth
    <3>1. t = Append(s, g + 1) /\ m = l
      BY <1>1, <1>6, <2>1
    <3>2. Len(t) = d + 1 /\ t[1 + d] = g + 1 /\ \A i \in 1..(1 + d - 1) : t[i] = s[i]
      BY <1>7, <3>1, AppendProperties
    <3>3. Follows(g, g + 1, l)
      <4>1. (g + 1)..((g + 1) - 1) = {} /\ g < g + 1
        BY <1>7
      <4> QED
        BY <4>1 DEF Follows
    <3>4. 1 \in Nat
      OBVIOUS
    <3>5. Piece(k, t, 1, d + 1, l) /\ End(k, t, 1, d + 1) = g + 1
      <4>1. Longer(t, s, 1, d, g + 1)
        BY <3>2 DEF Longer
      <4> QED
        BY <1>7, <1>8, <3>3, <3>4, <4>1, PieceGrows
    <3> QED
      BY <3>1, <3>2, <3>5
  <2>2. CASE ~(d < FifoDepth)
    <3>1. d = FifoDepth /\ d \in Nat \ {0}
      BY <1>7, <2>2, SizeAssumption
    <3>2. t = [s EXCEPT ![d] = g + 1] /\ m = l \cup {s[d]}
      BY <1>1, <1>6, <2>2, <3>1
    <3>3. Piece(k, t, 1, d, m) /\ End(k, t, 1, d) = g + 1
      <4>1. LastIs(t, s, d, g + 1)
        BY <1>7, <3>1, <3>2 DEF LastIs
      <4>2. m = l \cup {s[d]}
        BY <3>2
      <4>3. g \in Nat /\ k \in Nat
        BY <1>7
      <4> QED
        BY <1>8, <4>1, <4>2, <4>3, Overwritten
    <3>4. Len(t) = d
      <4>1. d \in 1..Len(s) /\ g + 1 \in Nat
        BY <1>7, <3>1
      <4> QED
        BY <1>7, <3>2, <4>1, ExceptSeq
    <3> QED
      BY <3>2, <3>3, <3>4
  <2> QED
    BY <2>1, <2>2
<1>10. Piece(InBuf', fifo', 1, Len(fifo'), lost') /\ End(InBuf', fifo', 1, Len(fifo')) = sent'
  BY <1>1, <1>5, <1>6, <1>9
<1>11. Piece(0, echoed', 1, Len(echoed'), lost')
  BY <1>1, <1>6, <1>9, PieceMore DEF Echo, Chain
<1>12. Piece(InHand', buf', Lo', Count', lost')
  BY <1>1, <1>2, <1>4, <1>6, <1>9, PieceMore DEF Echo, Chain
<1>13. /\ txBuf' # NoChar => Follows(Back', txBuf', lost')
       /\ Held' => Follows(Going', chbuf', lost')
  BY <1>1, <1>2, <1>3, <1>6, <1>9, FollowsMore DEF Echo, Chain
<1> QED
  BY <1>1, <1>10, <1>11, <1>12, <1>13 DEF Echo, Chain

\* The transmitter's character comes back to the peer.
LEMMA ShiftChain ==
  ASSUME Echo, Shift
  PROVE  Chain'
<1>1. /\ txBuf # NoChar /\ echoed' = Append(echoed, txBuf) /\ txBuf' = NoChar
      /\ UNCHANGED <<pc, chbuf, avail, idx, buf, fifo, sent, lost>>
  BY DEF Shift, mainVars, bufVars
<1>2. (Held' <=> Held) /\ Lo' = Lo /\ Count' = Count /\ pc # "setup"
  BY <1>1 DEF Held, Lo, Count, Echo, Chain
<1>3. PICK e, f, n, c, l : /\ e = echoed /\ f = echoed' /\ n = Len(echoed)
                           /\ c = txBuf /\ l = lost
  OBVIOUS
<1>4. e \in Seq(Nat) /\ n \in Nat /\ n = Len(e) /\ c \in Nat /\ f = Append(e, c)
  BY <1>1, <1>3, LenProperties DEF Echo, Typed, TypeOK
<1>5. Piece(0, e, 1, n, l) /\ Follows(End(0, e, 1, n), c, l)
  BY <1>1, <1>3 DEF Echo, Chain, Back
<1>6. Len(f) = n + 1 /\ f[1 + n] = c /\ \A i \in 1..(1 + n - 1) : f[i] = e[i]
  BY <1>4, AppendProperties
<1>7. Piece(0, f, 1, n + 1, l) /\ End(0, f, 1, n + 1) = c
  <2>1. 1 \in Nat
    OBVIOUS
  <2> QED
    <3>1. Longer(f, e, 1, n, c)
      BY <1>6 DEF Longer
    <3> QED
      BY <1>4, <1>5, <2>1, <3>1, PieceGrows
<1>8. Back' = c /\ Going' = c /\ Going = c
  BY <1>1, <1>3, <1>6, <1>7 DEF Back, Going
<1>9. InHand' = InHand
  BY <1>1, <1>2, <1>8 DEF InHand
<1>10. InBuf' = InBuf
  BY <1>1, <1>2, <1>9 DEF InBuf
<1>11. Piece(0, echoed', 1, Len(echoed'), lost')
  BY <1>1, <1>3, <1>6, <1>7
<1> QED
  BY <1>1, <1>2, <1>8, <1>9, <1>10, <1>11 DEF Echo, Chain

LEMMA NextEcho ==
  ASSUME Prompt, Echo, [Next]_vars
  PROVE  Echo'
<1>1. Typed' /\ Own' /\ Stored'
  BY NextTyped, NextKeepsOwn, NextKeepsStored DEF Echo
<1>2. Chain'
  <2>1. CASE MainStep
    BY <2>1, MainChain
  <2>2. CASE Interrupt
    BY <2>2, InterruptChain
  <2>3. CASE Arrive
    BY <2>3, ArriveChain
  <2>4. CASE Shift
    BY <2>4, ShiftChain
  <2>5. CASE CtsUp \/ Spin \/ UNCHANGED vars
    <3>1. UNCHANGED <<pc, chbuf, txBuf, echoed, avail, idx, buf, fifo, sent, lost>>
      BY <2>5 DEF CtsUp, Spin, vars, mainVars, bufVars, lineVars
    <3>2. (Held' <=> Held) /\ Lo' = Lo /\ Count' = Count
      BY <3>1 DEF Held, Lo, Count
    <3>3. pc = "out_data" => txBuf = NoChar
      BY DEF Echo, Chain
    <3> QED
      BY <3>1, <3>2, <3>3, SameChain DEF Echo
  <2> QED
    BY <2>1, <2>2, <2>3, <2>4, <2>5 DEF Next
<1> QED
  BY <1>1, <1>2 DEF Echo

-----------------------------------------------------------------------------

\* A peer that stops at once when RTS is lowered gets its own characters
\* back in order, each once, and none is left out but those its bursts lost
\* in the chip.
THEOREM PromptEchoHolds == Spec => []PromptEchoInOrder
<1>1. Init => (Prompt => Echo)
  BY InitTyped, InitOwn, InitStored, InitChain DEF Echo
<1>2. (Prompt => Echo) /\ [Next]_vars => (Prompt => Echo)'
  BY NextEcho, PeerStays DEF Prompt
<1>3. (Prompt => Echo) => PromptEchoInOrder
  <2> SUFFICES ASSUME Echo PROVE EchoInOrder
    BY DEF PromptEchoInOrder
  <2>1. echoed \in Seq(Nat) /\ Len(echoed) \in Nat /\ DOMAIN echoed = 1..Len(echoed)
    BY LenProperties DEF Echo, Typed, TypeOK
  <2> SUFFICES ASSUME NEW i \in 1..Len(echoed)
               PROVE  LET prev == IF i = 1 THEN 0 ELSE echoed[i - 1]
                      IN  prev < echoed[i] /\ (prev + 1)..(echoed[i] - 1) \subseteq lost
    BY <2>1 DEF EchoInOrder
  <2>2. i \in 1..(1 + Len(echoed) - 1)
    BY <2>1
  <2>3. Follows(IF i = 1 THEN 0 ELSE echoed[i - 1], echoed[i], lost)
    BY <2>2 DEF Echo, Chain, Piece
  <2> QED
    BY <2>3 DEF Follows
<1> QED
  BY <1>1, <1>2, <1>3, PTL DEF Spec
=============================================================================
