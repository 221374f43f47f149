----------------------------- MODULE EditorQuit -----------------------------
(***************************************************************************)
(* Editor with the user at the keyboard: the characters shown at the ":"   *)
(* prompt as the user counts them, and a user who decides to quit and      *)
(* types ESC : q ! CR.  A key the editor refuses with a beep is pressed    *)
(* all the same.                                                           *)
(***************************************************************************)
EXTENDS EditorDoc, SequencesExt

VARIABLES
  typed,   \* history: what is on the prompt line, DEL taking one away
  plan     \* keys of the quitting sequence already pressed; 0 before

quitVars == <<vars, typed, plan>>

Quitting == <<"ESC", ":", "q", "!", "CR">>

QuitInit == Init /\ typed = <<>> /\ plan = 0

\* The prompt line after a step.
TypedNext ==
  typed' = IF ~at_prompt \/ ~at_prompt' THEN <<>>
           ELSE IF p' > p THEN Append(typed, tmp_buf'[p])
           ELSE IF p' < p THEN Front(typed)
           ELSE typed

\* Any key, as long as the user has not decided to quit.
FreeKey == plan = 0 /\ Next /\ TypedNext /\ UNCHANGED plan

\* A key k that the current handler does not refuse.
Accepted(k) ==
  CASE k = "ESC" -> PromptEsc \/ EditEsc
    [] k = ":"   -> ColonCmd
    [] k = "CR"  -> PromptEnter
    [] OTHER     -> PromptChar(k)

Refused(k) ==
  ~at_prompt /\ editor_mode = "CMD" /\ k = "ESC" /\ UNCHANGED vars

\* The user presses the next key of the quitting sequence.
QuitKey ==
  /\ plan < Len(Quitting)
  /\ ~do_exit
  /\ Accepted(Quitting[plan + 1]) \/ Refused(Quitting[plan + 1])
  /\ TypedNext
  /\ plan' = plan + 1

QuitNext == FreeKey \/ QuitKey \/ (Exited /\ UNCHANGED <<typed, plan>>)

\* A user who has begun to quit presses the remaining keys.
QuitSpec ==
  QuitInit /\ [][QuitNext]_quitVars /\ WF_quitVars(plan > 0 /\ QuitKey)

\* The editor ends only when the prompt line reads exactly "q!" as ENTER is
\* pressed, whatever was typed, deleted or left over from earlier commands:
\* the text is not saved, so a wrong exit loses it (handle_colon_cmd).
QuitOnlyOnCommand ==
  [][do_exit' # do_exit => at_prompt /\ typed = <<"q", "!">>]_quitVars

\* From every state a user who types ESC : q ! CR gets out: no mode, no
\* half-typed command and no refused key keeps main's loop from ending.
QuitWorks == plan > 0 ~> do_exit
=============================================================================
