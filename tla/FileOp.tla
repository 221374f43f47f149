------------------------------- MODULE FileOp -------------------------------
(***************************************************************************)
(* The file example esrc/fileop/fileop.c on a disc with any files: it      *)
(* opens itself, searches the directory, deletes TEST.TXT and reads its    *)
(* own first record, all through one control block and one buffer.         *)
(***************************************************************************)
EXTENDS CpmFiles

CONSTANT Directory   \* the files a disc may hold

ASSUME NameAssumption == NoFile \notin Directory /\ Default # "dma_buffer"

VARIABLES
  pc,      \* where the program is
  shown,   \* history: the directory entry or record it last printed
  disc0    \* history: the disc before the program ran

vars == <<fileVars, pc, shown, disc0>>

\* "fileop", "com", "f?l??p", "??m", "test" and "txt".
fileop == <<102, 105, 108, 101, 111, 112>>
com    == <<99, 111, 109>>
f_l__p == <<102, 63, 108, 63, 63, 112>>
__m    == <<63, 63, 109>>
test   == <<116, 101, 115, 116>>
txt    == <<116, 120, 116>>

-----------------------------------------------------------------------------
(* The program's steps.                                                    *)

Go(from, to) == pc = from /\ pc' = to

\* The control block is cleared and named.
Prepare(from, to, fname, ftype) ==
  /\ Go(from, to)
  /\ cb' = cpm_setFCBname(fname, ftype, ClearFCB(cb))
  /\ UNCHANGED <<disc, dma, buffer, rval, shown, disc0>>

PointDMA(from, to) ==
  /\ Go(from, to)
  /\ cpm_setDMAAddr("dma_buffer")
  /\ UNCHANGED <<disc, cb, buffer, rval, shown, disc0>>

Call(from, to, fop) ==
  /\ Go(from, to)
  /\ cpm_performFileOp(fop)
  /\ UNCHANGED <<dma, disc0>>

\* print_fcb only shows the block, and a file that was found is closed.
OpenSelf ==
  /\ \/ Call("open", "close", "open") /\ rval' # Failed
     \/ Call("open", "name_search", "open") /\ rval' = Failed
  /\ UNCHANGED shown

CloseSelf == Call("close", "name_search", "close") /\ UNCHANGED shown

SearchAndPrint ==
  /\ Call("search", "name_delete", "firstNameMatch")
  /\ shown' = IF rval' # Failed THEN <<"entry", buffer'[rval']>> ELSE shown

DeleteTest == Call("delete", "name_read", "delFile") /\ UNCHANGED shown

\* What this open returns is overwritten before anyone looks at it.
OpenForRead == Call("open_read", "point_read", "open") /\ UNCHANGED shown

ReadAndPrint ==
  /\ Call("read", "end", "readRandRecord")
  /\ shown' = IF rval' = 0 THEN buffer'[0] ELSE shown

\* A hardware error: BDOS reports it and ends the program.
DiscError ==
  /\ pc \in {"open", "close", "search", "delete", "open_read", "read"}
  /\ pc' = "killed"
  /\ UNCHANGED <<fileVars, shown, disc0>>

Done == pc \in {"end", "killed"} /\ UNCHANGED vars

Init ==
  /\ disc \in SUBSET Directory /\ disc0 = disc
  /\ cb = [name |-> [i \in 1..11 |-> 0], used |-> FALSE, alb |-> NoFile]
  /\ dma = Default
  /\ buffer = [j \in 0..3 |-> NoFile]
  /\ rval = 0
  /\ pc = "name_open" /\ shown = NoFile

Next ==
  \/ Prepare("name_open", "open", fileop, com)
  \/ OpenSelf
  \/ CloseSelf
  \/ Prepare("name_search", "point_search", f_l__p, __m)
  \/ PointDMA("point_search", "search")
  \/ SearchAndPrint
  \/ Prepare("name_delete", "delete", test, txt)
  \/ DeleteTest
  \/ Prepare("name_read", "open_read", fileop, com)
  \/ OpenForRead
  \/ PointDMA("point_read", "read")
  \/ ReadAndPrint
  \/ DiscError
  \/ Done

Spec == Init /\ [][Next]_vars

-----------------------------------------------------------------------------
(* Properties.                                                             *)

\* FCBs BDOS may get: EX, S1, S2 and RC are zero when a file is opened,
\* searched or deleted, and no attribute bit is left of the last file the
\* block belonged to (main, cpm_setFCBname, doc/bdos_calls.txt).
FCBProper ==
  pc \in {"open", "search", "delete", "open_read"} =>
    ~cb.used /\ cb.alb = NoFile /\ \A i \in 1..11 : cb.name[i] \in 32..96

IsTest(n)   == Letters(n) = Field(test, 8) \o Field(txt, 3)
IsFileop(n) == Letters(n) = Field(fileop, 8) \o Field(com, 3)

\* Whatever the disc holds, TEST.TXT and nothing else is deleted from it.
OnlyTestDeleted ==
  /\ disc \subseteq disc0
  /\ \A n \in disc0 \ disc : IsTest(n)
  /\ pc \in {"name_read", "open_read", "point_read", "read", "end"} =>
       \A n \in disc : ~IsTest(n)

\* What is printed is what it claims to be: the entry of a file that the
\* search asked for, or the program's own record; the read shows nothing
\* when the open before it, whose result nobody looks at, failed.
ShownTrue ==
  \/ shown = NoFile
  \/ \E n \in disc : Match(Field(f_l__p, 8) \o Field(__m, 3), n) /\ shown = <<"entry", n>>
  \/ \E n \in disc : IsFileop(n) /\ shown = <<"record", n>>
=============================================================================
