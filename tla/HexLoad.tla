------------------------------ MODULE HexLoad ------------------------------
(***************************************************************************)
(* lsrc/load.c: the linker's Intel-HEX file becomes a .com file.  One      *)
(* record is read a pass; the file is what memory holds from Start on, up  *)
(* to the highest address a record reached.                                *)
(***************************************************************************)
EXTENDS Integers, Sequences, FiniteSetsExt

CONSTANTS
  Start,      \* where a .com file is loaded: 0x100
  MemSize,    \* bytes in memory
  NotWritten  \* no .com file yet

Record == [type : Nat, address : Nat, data : Seq(Nat)]

ASSUME MemoryAssumption == Start \in Nat /\ MemSize \in Nat

VARIABLES
  records,    \* records not read yet: [type, address, data]
  hex,        \* history: the whole file
  memory, uiLastByte,
  com         \* the .com file

hexVars == <<records, hex, memory, uiLastByte, com>>

Zeros == [a \in 0..(MemSize - 1) |-> 0]

End(r) == r.address + Len(r.data)

At(r, a) == r.data[a - r.address + 1]

Covers(r, a) == r.type = 0 /\ a \in r.address..(End(r) - 1)

BugLastRecord(last, r) == End(r)
LastByte(last, r) == IF last < End(r) THEN End(r) ELSE last

\* The record's checksum is not compared, and only type 0 is data; but every
\* record moves the end.
ReadRecord ==
  /\ records # <<>>
  /\ LET r == Head(records)
     IN  /\ memory' = [a \in DOMAIN memory |-> IF Covers(r, a) THEN At(r, a) ELSE memory[a]]
         /\ uiLastByte' = LastByte(uiLastByte, r)
  /\ records' = Tail(records)
  /\ UNCHANGED <<hex, com>>

WriteCom ==
  /\ records = <<>> /\ com = NotWritten
  /\ com' = [i \in 1..(uiLastByte - Start) |-> memory[Start + i - 1]]
  /\ UNCHANGED <<records, hex, memory, uiLastByte>>

\* Linkers put something at or behind Start.
HexInit(files) ==
  /\ hex \in {f \in files : \E i \in DOMAIN f : f[i].type = 0 /\ End(f[i]) > Start}
  /\ records = hex
  /\ memory = Zeros /\ uiLastByte = 0 /\ com = NotWritten

-----------------------------------------------------------------------------

\* The .com file holds, for every address from Start on, the byte the last
\* record gave it, or zero, and no record's byte is missing, in whatever
\* order and however overlapping the linker writes its areas (main).
ImageFaithful ==
  com # NotWritten =>
    LET Writers(a) == {i \in DOMAIN hex : Covers(hex[i], a)}
        reached    == {a \in DOMAIN memory : Writers(a) # {} /\ a >= Start}
    IN  /\ \A a \in reached : a - Start < Len(com)
        /\ \A j \in DOMAIN com :
             LET a == Start + j - 1
             IN  com[j] = IF Writers(a) = {} THEN 0 ELSE At(hex[Max(Writers(a))], a)
=============================================================================
