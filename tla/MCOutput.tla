----------------------------- MODULE MCOutput -----------------------------
(***************************************************************************)
(* cprintf with 7-bit longs and 4-bit ints: as with 32-bit longs and       *)
(* eleven places, both the most negative decimal and the largest octal     *)
(* number need all the places there are.                                   *)
(***************************************************************************)
EXTENDS Output

Powers == [b \in Bases |-> [k \in 0..NUMLTH |-> b ^ k]]

Field(kind, length, width, prec, zero) ==
  [kind |-> kind, length |-> length, width |-> width, prec |-> prec, zero |-> zero]

Conversions ==
  {Field(k, l, w, p, z) : k \in {"d", "u", "o", "x"}, l \in {"", "l"},
                          w \in {-4, 0, 2, 4}, p \in {0, 2}, z \in BOOLEAN}
  \cup {Field("s", "", w, p, FALSE) : w \in {-4, 0, 2}, p \in {0, 2}}

Plain(kind) == [kind |-> kind]

AllFormats ==
  {<<c, Plain("newline")>> : c \in Conversions}
  \cup {<<Plain("char"), Plain("c"), Plain("other"), Plain("newline"), Plain("percent")>>,
        <<Field("s", "", 4, 0, FALSE), Field("d", "", 0, 0, FALSE), Plain("percent")>>}

\* Every byte in each coordinate.
SomeBytes == {0, 9, 10, 99, 100, 255}
AllPositions == {<<c, l>> : c \in 0..255, l \in SomeBytes} \cup {<<c, l>> : c \in SomeBytes, l \in 0..255}
Bytes == 0..255
=============================================================================
