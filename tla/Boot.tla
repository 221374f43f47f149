-------------------------------- MODULE Boot --------------------------------
(***************************************************************************)
(* From the linker's file to a running program: lsrc/load.c and            *)
(* lsrc/binpak.c bring it to the CP/M machine, src/cpm/cpm0.s starts it,   *)
(* and it sets up what it needs, the editor its heap and the serial        *)
(* example its interrupt vectors.                                          *)
(***************************************************************************)
EXTENDS HexLoad, BinPak, TpaHeap, Vectors

CONSTANT HexFiles    \* what the linker may have written
CONSTANT VecStarts   \* what modprn_setupInterrupts may be called with

\* The records hold bytes and end within memory; the vectors start at a word.
ASSUME FilesAssumption ==
  /\ HexFiles \subseteq Seq(Record)
  /\ \A f \in HexFiles : \A i \in DOMAIN f :
       f[i].data \in Seq(Bytes) /\ End(f[i]) <= MemSize
ASSUME VecAssumption == VecStarts \subseteq {2 * i : i \in 0..127}

VARIABLES
  stage,     \* "load", "pack", "send", "start", "main", "running"
  program,   \* "edit" or "modprnex01"
  handed     \* history: the TPA has been handed over

vars == <<hexVars, packVars, heapVars, vecVars, stage, program, handed>>

Go(from, to) == stage = from /\ stage' = to /\ UNCHANGED program

NoPacket == [bytes |-> <<>>, size |-> 0, sum |-> 0]

Init ==
  /\ HexInit(HexFiles)
  /\ packet = NoPacket /\ stored = Refused
  /\ HeapOff /\ VecInit
  /\ stage = "load" /\ program \in {"edit", "modprnex01"} /\ handed = FALSE

Load ==
  /\ \/ ReadRecord /\ Go("load", "load")
     \/ WriteCom /\ Go("load", "pack")
  /\ UNCHANGED <<packVars, heapVars, vecVars, handed>>

Pack ==
  /\ Go("pack", "send")
  /\ PrintPacket(com)
  /\ UNCHANGED <<hexVars, heapVars, vecVars, handed>>

\* A packet that is refused is sent again.
Send ==
  /\ Download
  /\ Go("send", IF stored' = Refused THEN "send" ELSE "start")
  /\ UNCHANGED <<hexVars, heapVars, vecVars, handed>>

\* CP/M loads the file and jumps to init; the host's files are forgotten.
StartProgram ==
  /\ Go("start", "main")
  /\ CpmStart
  /\ hex' = <<>> /\ records' = <<>> /\ memory' = Zeros /\ uiLastByte' = 0
  /\ com' = NotWritten
  /\ packet' = NoPacket /\ stored' = Refused
  /\ UNCHANGED <<vecVars, handed>>

\* The editor allocates its array of lines and then hands over the TPA.
EditHeap ==
  /\ program = "edit"
  /\ \/ \E size \in Sizes : malloc(size) /\ handed' = handed /\ UNCHANGED <<stage, program>>
     \/ \E b \in live : free(b) /\ handed' = handed /\ UNCHANGED <<stage, program>>
     \/ \E b \in live, size \in Sizes :
          realloc(b, size) /\ handed' = handed /\ UNCHANGED <<stage, program>>
     \/ Go("main", "running") /\ add_tpa_to_sdcc_heap /\ handed' = TRUE
  /\ stage \in {"main", "running"}
  /\ UNCHANGED <<hexVars, packVars, vecVars>>

Serial ==
  /\ program = "modprnex01"
  /\ \/ Go("main", "vectors") /\ hw_setupInterrupts
     \/ Go("vectors", "enable") /\ \E start \in VecStarts : modprn_setupInterrupts(start)
     \/ Go("enable", "running") /\ hw_enableInterrupts
     \/ /\ stage \in {"enable", "running"}
        /\ \E c \in Channels : Arrive(c) \/ Interrupt(c)
        /\ UNCHANGED <<stage, program>>
  /\ UNCHANGED <<hexVars, packVars, heapVars, handed>>

Next == Load \/ Pack \/ Send \/ StartProgram \/ EditHeap \/ Serial

Spec == Init /\ [][Next]_vars

-----------------------------------------------------------------------------

\* HeapSound from the program's start on, with the TPA's bytes counted once
\* it has been handed over.
HeapWhole ==
  stage \in {"main", "vectors", "enable", "running"} => HeapSound(handed)
=============================================================================
