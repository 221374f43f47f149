------------------------------ MODULE TpaHeap ------------------------------
(***************************************************************************)
(* How a program gets its memory: src/cpm/cpm0.s notes where the free part *)
(* of the TPA begins and ends, and add_tpa_to_sdcc_heap of                 *)
(* esrc/edit/edit.c puts it in front of the free list of SDCC's heap, from *)
(* which memory has been allocated before.  The list is in address order   *)
(* no more; malloc, realloc and free (SDCC's, not in the repository) count *)
(* on it.  calloc is malloc and clears what it returns.                    *)
(***************************************************************************)
EXTENDS Integers, Sequences, SequencesExt, FiniteSetsExt

CONSTANTS
  ProgEnd,           \* zzz_progend, behind code, data, heap and stack
  HeapStart, HeapEnd, \* SDCC's own heap
  Bdos,              \* the BDOS entry, found at address 6
  Header,            \* bytes of a struct header
  NextSize,          \* bytes of its first member, all that a used block keeps
  Sizes              \* what is asked of malloc, calloc and realloc: never 0

\* The stack lies between SDCC's heap and zzz_progend, and a program that
\* fits the machine leaves something of the TPA free.
ASSUME MapAssumption ==
  /\ {HeapStart, HeapEnd, ProgEnd, Bdos} \subseteq Nat
  /\ HeapStart < HeapEnd /\ HeapEnd < ProgEnd /\ ProgEnd < Bdos - 1
  /\ Header \in Nat \ {0}
  /\ NextSize \in Nat /\ Sizes \subseteq Nat \ {0}

VARIABLES
  free_tpa_start, free_tpa_end,
  heap_free,         \* __sdcc_heap_free: [from, to] for each free block
  live               \* blocks in use: [from, to, size]

heapVars == <<free_tpa_start, free_tpa_end, heap_free, live>>

\* cpm0.s, before main, and SDCC's gsinit.
BugTpaAtBdos == Bdos + 1
TpaEnd == Bdos - 1

CpmStart ==
  /\ free_tpa_start' = ProgEnd
  /\ free_tpa_end' = TpaEnd
  /\ heap_free' = <<[from |-> HeapStart, to |-> HeapEnd]>>
  /\ live' = {}

BugListDropped(list) == <<[from |-> free_tpa_start, to |-> free_tpa_end]>>

AddTpa(list) == <<[from |-> free_tpa_start, to |-> free_tpa_end]>> \o list

add_tpa_to_sdcc_heap ==
  /\ heap_free' = AddTpa(heap_free)
  /\ UNCHANGED <<free_tpa_start, free_tpa_end, live>>

Length(b) == b.to - b.from

Holds(b, address) == b.from <= address /\ address < b.to

\* What a request takes from a block: at least what free needs for a header.
Total(size) == IF size + NextSize < Header THEN Header ELSE size + NextSize

\* The first block of the list that is large enough, or 0.
FirstFit(list, size) == SelectInSeq(list, LAMBDA f : Length(f) >= Total(size))

\* What is too much stays in the list, in its place, if it can hold a header.
Splits(f, size) == Length(f) >= Total(size) + Header

CutFrom(list, i, size) ==
  IF Splits(list[i], size)
  THEN [list EXCEPT ![i].from = @ + Total(size)]
  ELSE RemoveAt(list, i)

Used(f, size) ==
  [from |-> f.from, size |-> size,
   to |-> IF Splits(f, size) THEN f.from + Total(size) ELSE f.to]

malloc(size) ==
  LET i == FirstFit(heap_free, size)
  IN  /\ i # 0
      /\ heap_free' = CutFrom(heap_free, i, size)
      /\ live' = live \cup {Used(heap_free[i], size)}
      /\ UNCHANGED <<free_tpa_start, free_tpa_end>>

Free(b) == [from |-> b.from, to |-> b.to]

\* List l with its neighbours i and i + 1 made one if they touch.
Joined(l, i) ==
  IF i \in 1..(Len(l) - 1) /\ l[i].to = l[i + 1].from
  THEN RemoveAt([l EXCEPT ![i].to = l[i + 1].to], i + 1)
  ELSE l

\* The block goes before the first one of the list behind it in memory.
Freed(list, b) ==
  LET behind == SelectInSeq(list, LAMBDA f : f.from >= b.from + NextSize)
      i      == IF behind = 0 THEN Len(list) + 1 ELSE behind
  IN  Joined(Joined(InsertAt(list, i, Free(b)), i), i - 1)

free(b) ==
  /\ heap_free' = Freed(heap_free, b)
  /\ live' = live \ {b}
  /\ UNCHANGED <<free_tpa_start, free_tpa_end>>

\* The block stays where it is, or moves down into a free one it touches, if
\* with its free neighbours it is large enough.  If not it moves to a block
\* malloc finds, before it is freed.
realloc(b, size) ==
  LET merged == Freed(heap_free, b)
      i      == SelectInSeq(merged, LAMBDA f : Holds(f, b.from))
      j      == FirstFit(heap_free, size)
      fits   == Length(merged[i]) >= Total(size)
  IN  /\ \/ /\ fits
            /\ heap_free' = CutFrom(merged, i, size)
            /\ live' = (live \ {b}) \cup {Used(merged[i], size)}
         \/ /\ ~fits /\ j # 0
            /\ heap_free' = Freed(CutFrom(heap_free, j, size), b)
            /\ live' = (live \cup {Used(heap_free[j], size)}) \ {b}
      /\ UNCHANGED <<free_tpa_start, free_tpa_end>>

HeapOff == free_tpa_start = 0 /\ free_tpa_end = 0 /\ heap_free = <<>> /\ live = {}

-----------------------------------------------------------------------------

Blocks == ToSet(heap_free) \cup {Free(b) : b \in live}

Within(b, from, to) == from <= b.from /\ b.to <= to

\* Whatever is allocated and freed, before and after the TPA is handed over,
\* no block reaches into the program, its stack or BDOS
\* (add_tpa_to_sdcc_heap, cpm0.s).
HeapApart ==
  \A b \in Blocks : Within(b, HeapStart, HeapEnd) \/ Within(b, ProgEnd, Bdos)

Apart(b, c) == b.to <= c.from \/ c.to <= b.from

\* SDCC's heap and, once it has been handed over, the free part of the TPA.
HeapBytes(handed) ==
  HeapStart..(HeapEnd - 1)
    \cup IF handed THEN free_tpa_start..(free_tpa_end - 1) ELSE {}

\* No two blocks overlap, each in use is as large as was asked, and no byte
\* is ever lost from a list that is out of address order.
HeapSound(handed) ==
  /\ \A b, c \in Blocks : b = c \/ Apart(b, c)
  /\ \A b, c \in live : b = c \/ Apart(b, c)
  /\ \A b \in live : Length(b) >= b.size + NextSize
  /\ \A address \in HeapBytes(handed) : \E b \in Blocks : Holds(b, address)
=============================================================================
