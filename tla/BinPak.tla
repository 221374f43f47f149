------------------------------- MODULE BinPak -------------------------------
(***************************************************************************)
(* lsrc/binpak.c sends a .com file as text to DOWNLOAD on the CP/M         *)
(* machine, with the low byte of its length and the low byte of the sum of *)
(* its bytes at the end.  DOWNLOAD and the line are not in the repository. *)
(***************************************************************************)
EXTENDS Integers, Sequences, SequencesExt

CONSTANTS
  Base,       \* values of a byte
  Refused     \* DOWNLOAD has not taken a file

ASSUME BaseAssumption == Base \in Nat \ {0, 1}

VARIABLES
  packet,     \* what binpak printed: [bytes, size, sum]
  stored      \* the file DOWNLOAD stored

packVars == <<packet, stored>>

Bytes == 0..(Base - 1)

checksum(f) == FoldLeft(LAMBDA x, y : x + y, 0, f)

BugSumOnly(f) == [bytes |-> f, size |-> 0, sum |-> checksum(f) % Base]

\* f_size & 0xFF and checksum & 0xFF.
Packed(f) == [bytes |-> f, size |-> Len(f) % Base, sum |-> checksum(f) % Base]

PrintPacket(f) == packet' = Packed(f) /\ UNCHANGED stored

\* What the line makes of a file: at most one byte is changed, missing or
\* too many.
Received(f) ==
  {f} \cup {[f EXCEPT ![i] = b] : i \in DOMAIN f, b \in Bytes}
      \cup {RemoveAt(f, i) : i \in DOMAIN f}
      \cup {InsertAt(f, i, b) : i \in 1..(Len(f) + 1), b \in Bytes}

\* DOWNLOAD computes both bytes again.
Download ==
  /\ \E f \in Received(packet.bytes) :
       stored' = IF /\ Packed(f).size = packet.size
                    /\ Packed(f).sum = packet.sum
                 THEN f ELSE Refused
  /\ UNCHANGED packet

-----------------------------------------------------------------------------

\* A file with a missing, extra or changed byte is never stored, as main's
\* comment promises of so simple a checksum.
StoredIntact == stored # Refused => stored = packet.bytes
=============================================================================
