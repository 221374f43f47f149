-------------------------------- MODULE Sio --------------------------------
(***************************************************************************)
(* The control port of one channel of the Z80 SIO, as the driver in        *)
(* src/hw/modprn02/hw_modprn02.c programs it.  The chip is not part of the *)
(* repository.                                                             *)
(***************************************************************************)
EXTENDS Integers

Reg5      == 104          \* reg5_status: 8 data bits, transmitter on
RtsFlag   == 2            \* SIO_REG5_RTS_FLAG
BreakFlag == 16           \* SIO_REG5_BREAK_FLAG
RstErr    == 48           \* SIO_BASIC_CMD_RST_ERR

Bit(v, b) == (v \div b) % 2 = 1

\* The register pointer, three bits of write register 5, and whether an
\* error is pending.
Reg == [ptr : 0..7, rts : BOOLEAN, txOn : BOOLEAN, brk : BOOLEAN, err : BOOLEAN]

\* A byte written to the control port.  With the pointer at 0 it goes to
\* register 0, whose low bits select the register of the next byte.
Write(r, v) ==
  [ptr  |-> IF r.ptr = 0 THEN v % 8 ELSE 0,
   rts  |-> IF r.ptr = 5 THEN Bit(v, RtsFlag) ELSE r.rts,
   txOn |-> IF r.ptr = 5 THEN Bit(v, 8) ELSE r.txOn,
   brk  |-> IF r.ptr = 5 THEN Bit(v, BreakFlag) ELSE r.brk,
   err  |-> r.err /\ ~(r.ptr = 0 /\ (v \div 8) % 8 = RstErr \div 8)]
=============================================================================
