-------------------------- MODULE ModprnPollProofs --------------------------
(***************************************************************************)
(* Polled receive for every size of fifo, burst and overshoot: types,      *)
(* order and buffer bounds hold for any peer; nothing is lost under flow   *)
(* control if the fifo has room for a burst and twice the overshoot.       *)
(***************************************************************************)
EXTENDS ModprnPoll, SequenceTheorems, TLAPS

\* A call reads the chip only where it has seen a character.
DataReady == pc \in {"lower", "data"} => fifo # <<>>

\* There is room in the caller's buffer for the character about to be read.
RoomLeft ==
  /\ FitsBuffer
  /\ pc = "data" => buf_used < bufSize \/ buf_used = 0
  /\ pc \in {"test", "raise", "poll", "lower"} => buf_used = 0

\* What was received and what waits is one increasing sequence of characters
\* already sent.
Ordered ==
  /\ InOrder
  /\ \A i, j \in DOMAIN fifo : i < j => fifo[i] < fifo[j]
  /\ \A i \in DOMAIN received : \A j \in DOMAIN fifo : received[i] < fifo[j]
  /\ \A i \in DOMAIN received : received[i] <= sent
  /\ \A j \in DOMAIN fifo : fifo[j] <= sent

Inv == TypeOK /\ DataReady /\ RoomLeft /\ Ordered

-----------------------------------------------------------------------------
(* Lemmas.                                                                 *)

\* The bytes the driver writes to register 5 do to RTS what it means them to.
LEMMA RtsBytes ==
  /\ RtsAfter(Reg5 + RtsFlag) = TRUE
  /\ RtsAfter(Reg5) = FALSE
  /\ RtsAfter(Reg5 + BreakFlag) = FALSE
<1>1. ASSUME NEW v \in Nat PROVE RtsAfter(v) = Bit(v, RtsFlag)
  BY DEF RtsAfter, Write
<1>2. Bit(Reg5 + RtsFlag, RtsFlag) /\ ~Bit(Reg5, RtsFlag) /\ ~Bit(Reg5 + BreakFlag, RtsFlag)
  BY DEF Bit, Reg5, RtsFlag, BreakFlag
<1>3. Reg5 + RtsFlag \in Nat /\ Reg5 \in Nat /\ Reg5 + BreakFlag \in Nat
  BY DEF Reg5, RtsFlag, BreakFlag
<1> QED
  BY <1>1, <1>2, <1>3 DEF Bit

\* A character that arrives in a full fifo takes the place of the last one.
LEMMA Overwrite ==
  ASSUME NEW S, NEW s \in Seq(S), NEW c \in S, NEW n \in Nat \ {0}, Len(s) = n
  PROVE  /\ [s EXCEPT ![n] = c] \in Seq(S)
         /\ Len([s EXCEPT ![n] = c]) = n
         /\ [s EXCEPT ![n] = c] # <<>>
         /\ \A i \in 1..n : [s EXCEPT ![n] = c][i] = IF i = n THEN c ELSE s[i]
BY ExceptSeq, EmptySeq

\* What the first character leaves behind when it is taken.
LEMMA Popped ==
  ASSUME NEW S, NEW s \in Seq(S), s # <<>>
  PROVE  /\ Head(s) \in S /\ Head(s) = s[1]
         /\ Tail(s) \in Seq(S) /\ Len(Tail(s)) = Len(s) - 1
         /\ Len(s) \in Nat \ {0} /\ 1 \in DOMAIN s
         /\ \A i \in DOMAIN Tail(s) : i + 1 \in DOMAIN s /\ Tail(s)[i] = s[i + 1]
<1>1. Len(s) \in Nat /\ DOMAIN s = 1..Len(s) /\ Len(s) # 0
  BY LenProperties, EmptySeq
<1>2. Tail(s) \in Seq(S) /\ Len(Tail(s)) = Len(s) - 1
  BY HeadTailProperties
<1>3. DOMAIN Tail(s) = 1..Len(Tail(s))
  BY <1>2, LenProperties
<1>4. Head(s) \in S /\ \A i \in 1..Len(Tail(s)) : Tail(s)[i] = s[i + 1]
  BY HeadTailProperties
<1>5. Head(s) = s[1]
  BY SMT
<1> QED
  BY <1>1, <1>2, <1>3, <1>4, <1>5

\* Where a character that arrives goes: to the end of the fifo, in front of
\* it only what waited before.
LEMMA PutLast ==
  ASSUME NEW S, NEW s \in Seq(S), NEW c \in S, NEW n \in Nat \ {0}, Len(s) <= n,
         NEW f, f = IF Len(s) < n THEN Append(s, c) ELSE [s EXCEPT ![n] = c]
  PROVE  /\ f \in Seq(S) /\ f # <<>>
         /\ Len(f) \in 1..n /\ Len(f) <= Len(s) + 1
         /\ f[Len(f)] = c
         /\ \A i \in 1..(Len(f) - 1) : i \in DOMAIN s /\ f[i] = s[i]
<1>1. Len(s) \in Nat /\ DOMAIN s = 1..Len(s)
  BY LenProperties
<1>2. CASE Len(s) < n
  <2>1. f = Append(s, c)
    BY <1>2
  <2>2. /\ f \in Seq(S) /\ f # <<>> /\ Len(f) = Len(s) + 1
        /\ f[Len(s) + 1] = c /\ \A i \in 1..Len(s) : f[i] = s[i]
    BY <2>1, AppendProperties
  <2> QED
    BY <1>1, <1>2, <2>2
<1>3. CASE Len(s) = n
  <2>1. f = [s EXCEPT ![n] = c]
    BY <1>3
  <2>2. /\ f \in Seq(S) /\ f # <<>> /\ Len(f) = n
        /\ \A i \in 1..n : f[i] = IF i = n THEN c ELSE s[i]
    BY <1>3, <2>1, Overwrite
  <2>3. f[n] = c /\ \A i \in 1..(n - 1) : f[i] = s[i]
    BY <2>2
  <2> QED
    BY <1>1, <1>3, <2>2, <2>3
<1>4. Len(s) < n \/ Len(s) = n
  <2>1. PICK k \in Nat : k = Len(s)
    BY <1>1
  <2>2. k <= n => k < n \/ k = n
    OBVIOUS
  <2> QED
    BY <2>1, <2>2
<1> QED
  BY <1>2, <1>3, <1>4

LEMMA Arrived ==
  ASSUME TypeOK, Arrive
  PROVE  /\ fifo' \in Seq(1..MaxSent) /\ fifo' # <<>>
         /\ Len(fifo') \in 1..FifoDepth /\ Len(fifo') <= Len(fifo) + 1
         /\ fifo'[Len(fifo')] = sent + 1
         /\ \A i \in 1..(Len(fifo') - 1) : i \in DOMAIN fifo /\ fifo'[i] = fifo[i]
<1>1. sent + 1 \in 1..MaxSent
  BY SizeAssumption DEF Arrive, TypeOK
<1>2. fifo \in Seq(1..MaxSent) /\ Len(fifo) <= FifoDepth /\ FifoDepth \in Nat \ {0}
  BY SizeAssumption DEF TypeOK
<1>3. fifo' = IF Len(fifo) < FifoDepth THEN Append(fifo, sent + 1)
                                       ELSE [fifo EXCEPT ![FifoDepth] = sent + 1]
  BY DEF Arrive
<1>4. PICK f : f = fifo'
  OBVIOUS
<1>5. PICK s, c, S : s = fifo /\ c = sent + 1 /\ S = 1..MaxSent
  OBVIOUS
<1>6. s \in Seq(S) /\ c \in S /\ Len(s) <= FifoDepth
      /\ f = IF Len(s) < FifoDepth THEN Append(s, c) ELSE [s EXCEPT ![FifoDepth] = c]
  BY <1>1, <1>2, <1>3, <1>4, <1>5
<1>7. /\ f \in Seq(S) /\ f # <<>>
      /\ Len(f) \in 1..FifoDepth /\ Len(f) <= Len(s) + 1
      /\ f[Len(f)] = c
      /\ \A i \in 1..(Len(f) - 1) : i \in DOMAIN s /\ f[i] = s[i]
  BY <1>2, <1>6, PutLast
<1> QED
  BY <1>4, <1>5, <1>7

-----------------------------------------------------------------------------
(* The invariant.                                                          *)

LEMMA InitInv == Init => Inv
<1> SUFFICES ASSUME Init PROVE Inv
  OBVIOUS
<1>1. fifo = <<>> /\ received = <<>> /\ sent = 0
  BY DEF Init
<1>2. fifo \in Seq(1..MaxSent) /\ received \in Seq(1..MaxSent) /\ Len(fifo) = 0
  BY <1>1, EmptySeq
<1>3. DOMAIN fifo = {} /\ DOMAIN received = {}
  BY <1>1
<1>4. TypeOK
  <2>1. rts \in BOOLEAN /\ windowed \in BOOLEAN
    BY Zenon DEF Init
  <2>2. bufSize \in {0, 1} \cup BufSizes /\ buf_used \in Nat /\ credit \in Nat
    BY DEF Init
  <2>3. Len(fifo) <= FifoDepth /\ sent \in 0..MaxSent
    BY <1>1, <1>2, SizeAssumption
  <2>4. pc = "setup"
    BY DEF Init
  <2> QED
    BY <1>2, <2>1, <2>2, <2>3, <2>4 DEF TypeOK
<1>5. DataReady /\ RoomLeft
  BY DEF Init, DataReady, RoomLeft, FitsBuffer
<1>6. Ordered
  BY <1>3 DEF Ordered, InOrder
<1> QED
  BY <1>4, <1>5, <1>6 DEF Inv

LEMMA ArriveKeeps == Inv /\ Arrive => Inv'
<1> SUFFICES ASSUME Inv, Arrive PROVE Inv'
  OBVIOUS
<1> USE SizeAssumption DEF Inv
<1>1. sent \in Nat /\ sent + 1 \in 1..MaxSent /\ sent' = sent + 1
  BY DEF Arrive, TypeOK
<1>2. UNCHANGED <<pc, bufSize, buf_used, received, rts, windowed>>
  BY DEF Arrive, progVars
<1>3. TypeOK'
  <2>1. credit' \in Nat
    BY DEF Arrive, TypeOK
  <2> QED
    BY <1>1, <1>2, <2>1, Arrived DEF TypeOK
<1>4. DataReady' /\ RoomLeft'
  BY <1>2, Arrived DEF DataReady, RoomLeft, FitsBuffer
<1>5. Ordered'
  <2>1. PICK f : f = fifo'
    OBVIOUS
  <2>2. DOMAIN f = 1..Len(f) /\ Len(f) \in Nat
    BY <2>1, Arrived, LenProperties
  <2>3. \A i \in DOMAIN f : i = Len(f) \/ i \in 1..(Len(f) - 1)
    BY <2>2
  <2>4. f[Len(f)] = sent + 1 /\ \A i \in 1..(Len(f) - 1) : i \in DOMAIN fifo /\ f[i] = fifo[i]
    BY <2>1, Arrived
  <2>5. \A i \in DOMAIN fifo : fifo[i] \in Nat /\ fifo[i] <= sent
    BY ElementOfSeq, LenProperties DEF TypeOK, Ordered
  <2>6. \A i \in DOMAIN received : received[i] \in Nat /\ received[i] <= sent
    BY ElementOfSeq, LenProperties DEF TypeOK, Ordered
  <2>7. \A i, j \in DOMAIN f : i < j => f[i] < f[j]
    <3> SUFFICES ASSUME NEW i \in DOMAIN f, NEW j \in DOMAIN f, i < j
                 PROVE  f[i] < f[j]
      OBVIOUS
    <3>1. i \in 1..(Len(f) - 1)
      BY <2>2
    <3>2. CASE j = Len(f)
      BY <1>1, <2>4, <2>5, <3>1, <3>2
    <3>3. CASE j \in 1..(Len(f) - 1)
      BY <2>4, <3>1, <3>3 DEF Ordered
    <3> QED
      BY <2>3, <3>2, <3>3
  <2>8. \A i \in DOMAIN received : \A j \in DOMAIN f : received[i] < f[j]
    BY <1>1, <2>3, <2>4, <2>5, <2>6 DEF Ordered
  <2>9. \A j \in DOMAIN f : f[j] <= sent + 1
    BY <1>1, <2>3, <2>4, <2>5
  <2>10. \A i \in DOMAIN received : received[i] <= sent + 1
    BY <1>1, <2>6
  <2> QED
    BY <1>1, <1>2, <2>1, <2>7, <2>8, <2>9, <2>10 DEF Ordered, InOrder
<1> QED
  BY <1>3, <1>4, <1>5

\* The character taken from the fifo is the next in order.
LEMMA DataKeeps == Inv /\ Data => Inv'
<1> SUFFICES ASSUME Inv, Data PROVE Inv'
  OBVIOUS
<1> USE DEF Inv
<1>1. /\ pc = "data" /\ pc' = "more" /\ buf_used' = buf_used + 1
      /\ UNCHANGED <<bufSize, rts, credit, sent, windowed>>
  BY DEF Data
<1>2. fifo # <<>> /\ fifo \in Seq(1..MaxSent) /\ received \in Seq(1..MaxSent)
  BY <1>1 DEF DataReady, TypeOK
<1>3. PICK c, f, r : c = Head(fifo) /\ f = Tail(fifo) /\ r = Append(received, c)
  OBVIOUS
<1>4. fifo' = f /\ received' = r
  BY <1>2, <1>3 DEF Data
<1>5. /\ c \in 1..MaxSent /\ c = fifo[1]
      /\ f \in Seq(1..MaxSent) /\ Len(f) = Len(fifo) - 1
      /\ Len(fifo) \in Nat \ {0} /\ 1 \in DOMAIN fifo
      /\ \A i \in DOMAIN f : i + 1 \in DOMAIN fifo /\ f[i] = fifo[i + 1]
  BY <1>2, <1>3, Popped
<1>6. /\ r \in Seq(1..MaxSent) /\ Len(r) = Len(received) + 1
      /\ r[Len(received) + 1] = c
      /\ \A i \in 1..Len(received) : r[i] = received[i]
  BY <1>2, <1>3, <1>5, AppendProperties
<1>7. /\ DOMAIN r = 1..Len(r) /\ DOMAIN f = 1..Len(f)
      /\ DOMAIN received = 1..Len(received) /\ Len(received) \in Nat /\ Len(f) \in Nat
  BY <1>2, <1>5, <1>6, LenProperties
<1>8. TypeOK'
  BY <1>1, <1>4, <1>5, <1>6, SizeAssumption DEF TypeOK
<1>9. DataReady' /\ RoomLeft'
  BY <1>1 DEF DataReady, RoomLeft, FitsBuffer, TypeOK
<1>10. Ordered'
  <2>1. \A i \in DOMAIN r : (i \in DOMAIN received /\ r[i] = received[i]) \/ (i = Len(received) + 1 /\ r[i] = c)
    BY <1>6, <1>7
  <2>2. \A i, j \in DOMAIN r : i < j => i \in DOMAIN received /\ r[i] = received[i]
    BY <1>6, <1>7
  <2>3. \A i \in DOMAIN received : received[i] < c
    BY <1>5 DEF Ordered
  <2>4. \A i, j \in DOMAIN r : i < j => r[i] < r[j]
    BY <2>1, <2>2, <2>3 DEF Ordered, InOrder
  <2>5. \A i \in DOMAIN f : i + 1 \in DOMAIN fifo /\ f[i] = fifo[i + 1] /\ 1 < i + 1 /\ i \in Nat
    BY <1>5, <1>7
  <2>6. \A i, j \in DOMAIN f : i < j => f[i] < f[j]
    BY <2>5 DEF Ordered
  <2>7. \A j \in DOMAIN f : c < f[j]
    BY <1>5, <2>5 DEF Ordered
  <2>8. \A i \in DOMAIN r : \A j \in DOMAIN f : r[i] < f[j]
    BY <2>1, <2>5, <2>7 DEF Ordered
  <2>9. \A i \in DOMAIN r : r[i] <= sent
    BY <1>5, <2>1 DEF Ordered
  <2>10. \A j \in DOMAIN f : f[j] <= sent
    BY <2>5 DEF Ordered
  <2> QED
    BY <1>1, <1>4, <2>4, <2>6, <2>8, <2>9, <2>10 DEF Ordered, InOrder
<1> QED
  BY <1>8, <1>9, <1>10

\* The steps that neither take a character nor receive one.
LEMMA OtherKeeps ==
  ASSUME Inv,
         Test \/ Raise \/ Poll \/ Spin \/ Lower \/ More \/ Receive \/ SendBreak
           \/ UNCHANGED vars
  PROVE  Inv'
<1> USE DEF Inv
<1>1. UNCHANGED <<fifo, sent, received>>
  BY DEF Test, Raise, Poll, Spin, Lower, More, Receive, Getch, GetchBuf, SendBreak,
         vars, progVars
<1>2. Ordered'
  BY <1>1 DEF Ordered, InOrder
<1>3. DataReady'
  BY DEF DataReady, Test, Raise, Poll, Spin, Lower, More, Receive, Getch, GetchBuf,
         SendBreak, vars, progVars
<1>4. RoomLeft'
  <2>1. CASE Getch
    BY <2>1 DEF Getch, RoomLeft, FitsBuffer
  <2>2. ASSUME NEW n \in BufSizes, GetchBuf(n) PROVE RoomLeft'
    <3>1. n \in Nat
      BY SizeAssumption
    <3> QED
      BY <2>2, <3>1 DEF GetchBuf, RoomLeft, FitsBuffer
  <2>3. CASE Test \/ Raise \/ Poll \/ Lower \/ More
    <3>1. UNCHANGED <<bufSize, buf_used>>
      BY <2>3 DEF Test, Raise, Poll, Lower, More, progVars
    <3>2. pc' \in {"raise", "poll", "lower"} => pc \in {"test", "raise", "poll", "lower"}
      BY <2>3 DEF Test, Raise, Poll, Lower, More
    <3>3. pc' = "data" => pc \in {"test", "lower"} \/ buf_used < bufSize
      BY <2>3 DEF Test, Raise, Poll, Lower, More
    <3>4. pc' # "test"
      BY <2>3 DEF Test, Raise, Poll, Lower, More
    <3> QED
      BY <3>1, <3>2, <3>3, <3>4 DEF RoomLeft, FitsBuffer
  <2>4. CASE Spin \/ SendBreak \/ UNCHANGED vars
    BY <2>4 DEF Spin, SendBreak, vars, progVars, RoomLeft, FitsBuffer
  <2> QED
    BY <2>1, <2>2, <2>3, <2>4 DEF Receive
<1>5. rts' \in BOOLEAN /\ windowed' \in BOOLEAN
  BY RtsBytes, Zenon DEF TypeOK, Test, Raise, Poll, Spin, Lower, More, Receive, Getch,
         GetchBuf, SendBreak, vars, progVars
<1>6. credit' \in Nat
  BY SizeAssumption DEF TypeOK, Drop, Test, Raise, Poll, Spin, Lower, More, Receive,
         Getch, GetchBuf, SendBreak, vars, progVars
<1>7. pc' \in {"setup", "idle", "test", "raise", "poll", "lower", "data", "more"}
  BY DEF TypeOK, Test, Raise, Poll, Spin, Lower, More, Receive, Getch, GetchBuf,
         SendBreak, vars, progVars
<1>8. bufSize' \in {0, 1} \cup BufSizes /\ buf_used' \in Nat
  BY DEF TypeOK, Test, Raise, Poll, Spin, Lower, More, Receive, Getch, GetchBuf,
         SendBreak, vars, progVars
<1>9. TypeOK'
  BY <1>1, <1>5, <1>6, <1>7, <1>8 DEF TypeOK
<1> QED
  BY <1>2, <1>3, <1>4, <1>9

LEMMA SetupKeeps == Inv /\ Setup => Inv'
<1> SUFFICES ASSUME Inv, Setup PROVE Inv'
  OBVIOUS
<1> USE DEF Inv
<1>1. /\ pc' = "idle" /\ fifo' = <<>> /\ credit' = MaxSent
      /\ UNCHANGED <<bufSize, buf_used, received, sent, windowed>>
  BY DEF Setup, progVars
<1>2. rts' \in BOOLEAN
  BY RtsBytes DEF Setup
<1>3. fifo' \in Seq(1..MaxSent) /\ Len(fifo') = 0
  BY <1>1, EmptySeq
<1>4. DOMAIN fifo' = {}
  BY <1>1
<1>5. TypeOK'
  <2>1. credit' \in Nat /\ Len(fifo') <= FifoDepth
    BY <1>1, <1>3, SizeAssumption
  <2> QED
    BY <1>1, <1>2, <1>3, <2>1 DEF TypeOK
<1>6. DataReady' /\ RoomLeft'
  BY <1>1 DEF DataReady, RoomLeft, FitsBuffer
<1>7. Ordered'
  BY <1>1, <1>4 DEF Ordered, InOrder
<1> QED
  BY <1>5, <1>6, <1>7

LEMMA NextKeeps == Inv /\ [Next]_vars => Inv'
<1> SUFFICES ASSUME Inv, [Next]_vars PROVE Inv'
  OBVIOUS
<1>1. CASE Setup
  BY <1>1, SetupKeeps
<1>2. CASE Data
  BY <1>2, DataKeeps
<1>3. CASE Arrive
  BY <1>3, ArriveKeeps
<1>4. CASE Test \/ Raise \/ Poll \/ Spin \/ Lower \/ More \/ Receive \/ SendBreak
             \/ UNCHANGED vars
  BY <1>4, OtherKeeps
<1> QED
  BY <1>1, <1>2, <1>3, <1>4 DEF Next, Program

\* Types; the chip is never read when it is empty; the order of characters;
\* the bound of the caller's buffer.
THEOREM InvHolds == Spec => []Inv
BY InitInv, NextKeeps, PTL DEF Spec

\* Every character a call returns is one the peer sent, and the state has
\* its types (TypeOK), for every peer and every mix of calls.
THEOREM TypeHolds == Spec => []TypeOK
<1>1. Inv => TypeOK
  BY DEF Inv
<1> QED
  BY <1>1, InvHolds, PTL

\* Characters come back once and in order (InOrder), even from a chip that
\* is overrun.
THEOREM OrderHolds == Spec => []InOrder
<1>1. Inv => InOrder
  BY DEF Inv, Ordered
<1> QED
  BY <1>1, InvHolds, PTL

\* modprn_getchBuf stays in the caller's buffer (FitsBuffer), however fast
\* characters arrive.
THEOREM BufferHolds == Spec => []FitsBuffer
<1>1. Inv => FitsBuffer
  BY DEF Inv, RoomLeft
<1> QED
  BY <1>1, InvHolds, PTL

-----------------------------------------------------------------------------
(* Nothing is lost under flow control.                                     *)

\* What waits in the chip and what may still arrive, in all.
Load == Len(fifo) + credit

\* The chip has room for all that may arrive: an overshoot when a call looks
\* for a character, a burst more when it has raised RTS, a second overshoot
\* when it has lowered it.
Room ==
  /\ ~rts => credit <= Slack
  /\ pc = "raise" /\ ~rts => Load <= Slack
  /\ windowed /\ rts => pc \in {"poll", "lower"} /\ Load <= Slack + Burst
  /\ windowed => pc # "setup" /\ Load <= FifoDepth

LEMMA InitRoom == Init => Room
BY SizeAssumption DEF Init, Room

\* A character more in the chip is one less that may arrive.
LEMMA LoadNeverGrows ==
  ASSUME Inv, Arrive \/ Data
  PROVE  Load' <= Load /\ Load \in Int /\ Load' \in Int
<1>1. Len(fifo) \in Nat /\ credit \in Nat /\ credit - 1 \in Int
  BY LenProperties DEF Inv, TypeOK
<1>2. PICK n \in Nat, c \in Nat : n = Len(fifo) /\ c = credit
  BY <1>1
<1>3. CASE Arrive
  <2>1. PICK m \in Nat : m = Len(fifo') /\ m <= n + 1
    BY <1>2, <1>3, Arrived, SizeAssumption DEF Inv
  <2>2. credit' = c - 1
    BY <1>2, <1>3 DEF Arrive
  <2>3. m + (c - 1) <= n + c
    BY <2>1
  <2> QED
    BY <1>2, <2>1, <2>2, <2>3 DEF Load
<1>4. CASE Data
  <2>1. fifo # <<>> /\ fifo' = Tail(fifo) /\ credit' = c
    BY <1>2, <1>4 DEF Data, Inv, DataReady
  <2>2. Len(fifo') = n - 1
    BY <1>2, <2>1, Popped DEF Inv, TypeOK
  <2>3. (n - 1) + c <= n + c
    OBVIOUS
  <2> QED
    BY <1>2, <2>1, <2>2, <2>3 DEF Load
<1> QED
  BY <1>3, <1>4

LEMMA RoomKeeps ==
  ASSUME Burst + 2 * Slack <= FifoDepth, Inv, Room, [Next]_vars
  PROVE  Room'
<1> USE SizeAssumption
<1>1. PICK n \in Nat, c \in Nat : n = Len(fifo) /\ c = credit
  BY LenProperties DEF Inv, TypeOK
<1>2. CASE Setup
  BY <1>2, RtsBytes DEF Setup, Room
<1>3. CASE Test
  <2>1. /\ pc = "test" /\ pc' \in {"raise", "data"} /\ UNCHANGED <<rts, windowed, credit, fifo>>
        /\ pc' = "raise" => fifo = <<>>
    BY <1>3 DEF Test
  <2>2. pc' = "raise" => n = 0
    BY <1>1, <2>1, EmptySeq
  <2> QED
    BY <1>1, <2>1, <2>2 DEF Room, Load
<1>4. CASE Raise
  <2>1. /\ pc = "raise" /\ pc' = "poll" /\ rts' = TRUE /\ credit' = Burst
        /\ windowed' = (windowed \/ ~rts) /\ UNCHANGED fifo
    BY <1>4, RtsBytes DEF Raise
  <2>2. windowed' => ~rts
    BY <2>1 DEF Room
  <2>3. windowed' => n <= Slack
    BY <1>1, <2>1, <2>2 DEF Room, Load
  <2>4. windowed' => n + Burst <= Slack + Burst /\ n + Burst <= FifoDepth
    BY <2>3
  <2> QED
    BY <1>1, <2>1, <2>4 DEF Room, Load
<1>5. CASE Poll \/ Spin
  BY <1>5 DEF Poll, Spin, Room, Load, vars, progVars
<1>6. CASE Lower
  <2>1. /\ pc = "lower" /\ pc' = "data" /\ rts' = FALSE
        /\ credit' = (IF rts THEN Slack ELSE c) /\ UNCHANGED <<fifo, windowed>>
    BY <1>1, <1>6, RtsBytes DEF Lower, Drop
  <2>2. credit' <= Slack
    BY <1>1, <2>1 DEF Room
  <2>3. windowed => n + (IF rts THEN Slack ELSE c) <= FifoDepth
    BY <1>1 DEF Room, Load
  <2> QED
    BY <1>1, <2>1, <2>2, <2>3 DEF Room, Load
<1>7. CASE Data
  <2>1. pc = "data" /\ pc' = "more" /\ UNCHANGED <<rts, credit, windowed>>
    BY <1>7 DEF Data
  <2>2. Load' <= Load /\ Load \in Int /\ Load' \in Int
    BY <1>7, LoadNeverGrows
  <2> QED
    BY <2>1, <2>2 DEF Room
<1>8. CASE More \/ Receive
  BY <1>8 DEF More, Receive, Getch, GetchBuf, Room, Load, progVars
<1>9. CASE SendBreak
  <2>1. /\ pc = "idle" /\ pc' = "idle" /\ rts' = FALSE
        /\ credit' = (IF rts THEN Slack ELSE c) /\ UNCHANGED <<fifo, windowed>>
    BY <1>1, <1>9, RtsBytes DEF SendBreak, Drop
  <2>2. windowed => ~rts
    BY <2>1 DEF Room
  <2>3. credit' <= Slack
    BY <1>1, <2>1 DEF Room
  <2> QED
    BY <1>1, <2>1, <2>2, <2>3 DEF Room, Load
<1>10. CASE Arrive
  <2>1. UNCHANGED <<pc, rts, windowed>> /\ credit' = c - 1
    BY <1>1, <1>10 DEF Arrive
  <2>2. Load' <= Load /\ Load \in Int /\ Load' \in Int
    BY <1>10, LoadNeverGrows
  <2>3. credit' <= c
    BY <2>1
  <2> QED
    BY <1>1, <2>1, <2>2, <2>3 DEF Room
<1>11. CASE UNCHANGED vars
  BY <1>11 DEF vars, progVars, Room, Load
<1> QED
  BY <1>2, <1>3, <1>4, <1>5, <1>6, <1>7, <1>8, <1>9, <1>10, <1>11 DEF Next, Program

\* With room in the fifo a character that arrives loses none.
LEMMA ArriveLosesNone ==
  ASSUME Inv, Arrive, Len(fifo) < FifoDepth
  PROVE  Lost' = Lost
<1>1. sent' = sent + 1 /\ received' = received /\ fifo' = Append(fifo, sent + 1)
  BY DEF Arrive, progVars
<1>2. sent \in Nat /\ sent + 1 \in 1..MaxSent /\ fifo \in Seq(1..MaxSent)
  BY SizeAssumption DEF Arrive, Inv, TypeOK
<1>3. PICK f, c : f = fifo' /\ c = sent + 1
  OBVIOUS
<1>4. /\ Len(f) = Len(fifo) + 1 /\ f[Len(fifo) + 1] = c /\ f \in Seq(1..MaxSent)
      /\ \A i \in 1..Len(fifo) : f[i] = fifo[i]
  BY <1>1, <1>2, <1>3, AppendProperties
<1>5. DOMAIN f = 1..Len(f) /\ DOMAIN fifo = 1..Len(fifo) /\ Len(fifo) \in Nat
  BY <1>2, <1>4, LenProperties
<1>6. DOMAIN f = DOMAIN fifo \cup {Len(fifo) + 1}
  BY <1>4, <1>5
<1>7. Range(f) = Range(fifo) \cup {c}
  BY <1>4, <1>5, <1>6 DEF Range
<1>8. 1..(sent + 1) = (1..sent) \cup {c} /\ c \notin 1..sent
  BY <1>2, <1>3
<1> QED
  BY <1>1, <1>3, <1>7, <1>8 DEF Lost

\* A character taken from the chip is one returned.
LEMMA DataLosesNone ==
  ASSUME Inv, Data
  PROVE  Lost' = Lost
<1>1. /\ fifo # <<>> /\ fifo \in Seq(1..MaxSent) /\ received \in Seq(1..MaxSent)
      /\ sent' = sent
  BY DEF Data, Inv, DataReady, TypeOK
<1>2. PICK c, f, r : c = Head(fifo) /\ f = Tail(fifo) /\ r = Append(received, c)
  OBVIOUS
<1>3. fifo' = f /\ received' = r
  BY <1>1, <1>2 DEF Data
<1>4. /\ c \in 1..MaxSent /\ c = fifo[1] /\ f \in Seq(1..MaxSent)
      /\ Len(f) = Len(fifo) - 1 /\ Len(fifo) \in Nat \ {0} /\ 1 \in DOMAIN fifo
      /\ \A i \in DOMAIN f : i + 1 \in DOMAIN fifo /\ f[i] = fifo[i + 1]
  BY <1>1, <1>2, Popped
<1>5. /\ r \in Seq(1..MaxSent) /\ Len(r) = Len(received) + 1
      /\ r[Len(received) + 1] = c
      /\ \A i \in 1..Len(received) : r[i] = received[i]
  BY <1>1, <1>2, <1>4, AppendProperties
<1>6. /\ DOMAIN r = 1..Len(r) /\ DOMAIN f = 1..Len(f) /\ DOMAIN fifo = 1..Len(fifo)
      /\ DOMAIN received = 1..Len(received) /\ Len(received) \in Nat
  BY <1>1, <1>4, <1>5, LenProperties
<1>7. Range(r) = Range(received) \cup {c}
  <2>1. DOMAIN r = DOMAIN received \cup {Len(received) + 1}
    BY <1>5, <1>6
  <2> QED
    BY <1>5, <1>6, <2>1 DEF Range
<1>8. Range(fifo) = Range(f) \cup {c}
  <2>1. \A i \in DOMAIN fifo : i = 1 \/ (i - 1 \in DOMAIN f /\ f[i - 1] = fifo[i])
    BY <1>4, <1>6
  <2> QED
    BY <1>4, <2>1 DEF Range
<1> QED
  BY <1>1, <1>3, <1>7, <1>8 DEF Lost

\* Under flow control, no step loses a character.
LEMMA StepKeepsAll ==
  ASSUME Burst + 2 * Slack <= FifoDepth, Inv, Room, [Next]_vars
  PROVE  Lost' # Lost => ~windowed
<1> SUFFICES ASSUME windowed PROVE Lost' = Lost
  OBVIOUS
<1>1. CASE Arrive
  <2>1. PICK n \in Nat, c \in Nat : n = Len(fifo) /\ c = credit
    BY LenProperties DEF Inv, TypeOK
  <2>2. n + c <= FifoDepth /\ c > 0
    BY <1>1, <2>1 DEF Room, Load, Arrive
  <2>3. n < FifoDepth
    BY <2>1, <2>2, SizeAssumption
  <2> QED
    BY <1>1, <2>1, <2>3, ArriveLosesNone
<1>2. CASE Data
  BY <1>2, DataLosesNone
<1>3. CASE Setup
  BY <1>3 DEF Setup, Room
<1>4. CASE Test \/ Raise \/ Poll \/ Spin \/ Lower \/ More \/ Receive \/ SendBreak
             \/ UNCHANGED vars
  <2>1. UNCHANGED <<fifo, sent, received>>
    BY <1>4 DEF Test, Raise, Poll, Spin, Lower, More, Receive, Getch, GetchBuf,
                SendBreak, vars, progVars
  <2> QED
    BY <2>1 DEF Lost
<1> QED
  BY <1>1, <1>2, <1>3, <1>4 DEF Next, Program

\* A fifo with room for a burst and two overshoots loses nothing once flow
\* control is in force (KeepsAll): an overshoot from before may arrive
\* between a call's look at the chip and its raising RTS.
THEOREM KeepsAllHolds ==
  ASSUME Burst + 2 * Slack <= FifoDepth
  PROVE  Spec => KeepsAll
<1>1. Inv /\ Room /\ [Next]_vars => [Lost' # Lost => ~windowed]_vars
  BY StepKeepsAll
<1>2. Init => Room
  BY InitRoom
<1>3. Inv /\ Room /\ [Next]_vars => Room'
  BY RoomKeeps
<1>4. Spec => []Inv
  BY InvHolds
<1> QED
  BY <1>1, <1>2, <1>3, <1>4, PTL DEF Spec, KeepsAll

=============================================================================
