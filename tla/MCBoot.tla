------------------------------- MODULE MCBoot -------------------------------
(***************************************************************************)
(* Two data records anywhere around Start, so that they may overlap, leave *)
(* gaps, come in any order or lie partly below it; and an end record.  The *)
(* memory map has room for three blocks in either heap. *)
(***************************************************************************)
EXTENDS Boot

Data(address, data) == [type |-> 0, address |-> address, data |-> data]

DataRecords == {Data(a, d) : a \in 1..5, d \in {<<1>>, <<3>>, <<2, 3>>}}
EndRecord   == [type |-> 1, address |-> 0, data |-> <<>>]

Files == {<<r, EndRecord>> : r \in DataRecords}
         \cup {<<r, s, EndRecord>> : r \in DataRecords, s \in DataRecords}

EvenStarts == {2 * i : i \in 0..127}
=============================================================================
