------------------------------- MODULE Output -------------------------------
(***************************************************************************)
(* A program that prints with cprintf and calls the ANSI terminal          *)
(* functions in between: both send their characters to one terminal.  What *)
(* is kept about a call is forgotten when it returns; what the terminal is *)
(* reading is not.                                                         *)
(***************************************************************************)
EXTENDS Cprintf, AnsiTerm

outputVars == <<vars, ansiVars>>

\* The terminal gets what cprintf puts; none of it is an escape character.
PrintStep ==
  /\ asked = <<>>
  /\ Call \/ PutPlain \/ BarePercent \/ Number \/ Convert \/ PutNumber \/ PutString
  /\ term' = Gets(term, [i \in 1..(Len(sent') - Len(sent)) |-> "x"])
  /\ UNCHANGED asked

AnsiStep == Idle /\ asked = <<>> /\ AnsiCall /\ UNCHANGED vars

\* Either kind of call returns.
Forget ==
  /\ Return \/ (Idle /\ UNCHANGED vars)
  /\ term' = [term EXCEPT !.did = <<>>, !.shown = 0]
  /\ asked' = <<>>

OutputInit == Init /\ AnsiInit

OutputNext == PrintStep \/ AnsiStep \/ Forget

OutputSpec == OutputInit /\ [][OutputNext]_outputVars

-----------------------------------------------------------------------------

\* The terminal does exactly what a call means and is then back at text: no
\* character of a command is shown, none of a text taken for a command, for
\* any numbers and attributes (term_ANSI..., cprintf).  Only the screen is
\* never erased before the cursor: it is erased behind it instead.
TerminalObeys ==
  /\ term.mode = "text"
  /\ term.shown = Len(sent)
  /\ \/ term.did = asked
     \/ asked = <<Command("J", <<1>>)>> /\ term.did = <<Command("J", <<0>>)>>
=============================================================================
