------------------------------ MODULE MCFileOp ------------------------------
(***************************************************************************)
(* Discs for FileOp: its own file, marked read-only, another the search's  *)
(* wildcards match, the file to delete, and one whose name begins alike.   *)
(***************************************************************************)
EXTENDS FileOp

Name(fname, ftype) == Field(fname, 8) \o Field(ftype, 3)

Own      == [Name(fileop, com) EXCEPT ![9] = 128 + @]
Filter   == Name(<<102, 73, 76, 84, 69, 80>>, <<97, 98, 109>>)
Test     == Name(test, txt)
Tests    == Name(test \o <<115>>, txt)

Files == {Own, Filter, Test, Tests}
=============================================================================
