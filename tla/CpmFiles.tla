------------------------------ MODULE CpmFiles ------------------------------
(***************************************************************************)
(* The file functions of src/syslib/cpm_sysfunc.c: a program fills in a    *)
(* file control block, points the DMA address at a buffer and calls BDOS.  *)
(* BDOS itself is not in the repository; it does what doc/bdos_calls.txt   *)
(* and doc/fcb.txt say.                                                    *)
(*                                                                         *)
(* A file is named by its directory entry's 11 bytes, the top bits of      *)
(* which are its attributes.                                               *)
(***************************************************************************)
EXTENDS Integers, Sequences

CONSTANTS
  NoFile,      \* no allocation in a control block, no entry in a directory
  Default      \* the DMA address a program starts with

VARIABLES
  disc,        \* the files on the disc
  cb,          \* the control block (FCB)
  dma,         \* where the DMA address points
  buffer,      \* dma_buffer: four directory entries, or a file's record
  rval         \* what BDOS returned

fileVars == <<disc, cb, dma, buffer, rval>>

Failed == 255

-----------------------------------------------------------------------------
(* Filling in the control block.                                           *)

Upper(c) == IF c \in 97..122 THEN c - 32 ELSE c

\* A field of w bytes: seven bits of each character, in upper case, blanks
\* behind.
Field(s, w) ==
  [i \in 1..w |-> IF i <= Len(s) THEN Upper(s[i] % 128) ELSE 32]

BugNoPad(fname, ftype, f) ==
  [f EXCEPT !.name = [i \in 1..11 |->
     IF i <= Len(fname) THEN Upper(fname[i])
     ELSE IF i > 8 /\ i - 8 <= Len(ftype) THEN Upper(ftype[i - 8]) ELSE @[i]]]

cpm_setFCBname(fname, ftype, f) ==
  [f EXCEPT !.name = Field(fname, 8) \o Field(ftype, 3)]

\* memset(fcb_ptr, 0, sizeof(FCB)).  used stands for EX, S1, S2 and RC.
BugKeepFCB(f) == f
ClearFCB(f) == [name |-> [i \in 1..11 |-> 0], used |-> FALSE, alb |-> NoFile]

BugDMANotSet(where) == UNCHANGED dma
cpm_setDMAAddr(where) == dma' = where

-----------------------------------------------------------------------------
(* BDOS.                                                                   *)

Letters(n) == [i \in 1..11 |-> n[i] % 128]

Match(pattern, n) ==
  \A i \in 1..11 : pattern[i] \in {63, n[i] % 128}

Matching == {n \in disc : Match(cb.name, n)}

\* F_OPEN copies the file's directory entry into the control block.
Open ==
  /\ \/ \E n \in Matching :
          cb' = [name |-> n, used |-> TRUE, alb |-> n] /\ rval' \in {0, 3}
     \/ Matching = {} /\ UNCHANGED cb /\ rval' = Failed
  /\ UNCHANGED <<disc, buffer>>

Close ==
  /\ rval' = IF cb.alb \in disc THEN 0 ELSE Failed
  /\ UNCHANGED <<disc, cb, buffer>>

\* F_SMATCH leaves a directory sector at the DMA address and returns which
\* of its four entries matches; the others belong to other files.
Search ==
  /\ \/ \E n \in Matching, i \in 0..3, other \in disc \cup {NoFile} :
          /\ rval' = i
          /\ buffer' = IF dma = Default THEN buffer
                       ELSE [j \in 0..3 |-> IF j = i THEN n ELSE other]
     \/ Matching = {} /\ rval' = Failed /\ UNCHANGED buffer
  /\ UNCHANGED <<disc, cb>>

Delete ==
  /\ disc' = disc \ Matching
  /\ rval' = IF Matching = {} THEN Failed ELSE 0
  /\ UNCHANGED <<cb, buffer>>

\* F_READRAND of the first record, which a file may not have.
ReadRand ==
  /\ \/ /\ cb.alb \in disc
        /\ rval' = 0
        /\ buffer' = IF dma = Default THEN buffer ELSE [j \in 0..3 |-> <<"record", cb.alb>>]
     \/ rval' \in {1, 4} /\ UNCHANGED buffer
  /\ UNCHANGED <<disc, cb>>

\* The BDOS functions cpm_performFileOp chooses.
Function ==
  [open |-> 15, close |-> 16, firstNameMatch |-> 17, delFile |-> 19, readRandRecord |-> 33]

cpm_performFileOp(fop) ==
  LET func8 == Function[fop]
  IN  \/ func8 = 15 /\ Open
      \/ func8 = 16 /\ Close
      \/ func8 = 17 /\ Search
      \/ func8 = 19 /\ Delete
      \/ func8 = 33 /\ ReadRand
=============================================================================
