---------------------------- MODULE PromptProofs ----------------------------
(* What Prompt shows for texts, histories and answers of any size: R's     *)
(* question and the readline prompt are there together, every handler keeps *)
(* the assertions of update but where Exposed says so, Escape undoes Tab,  *)
(* and Up and Down undo each other.                                        *)
EXTENDS Prompt, TextEditorProofs

(* What the invariant rests on: the modes there are, and that queries are  *)
(* counted.                                                                *)
Waiting == /\ mode \in Mode
           /\ asking \in Nat
           /\ question \in BOOLEAN
           /\ QuestionIsOnScreen

-----------------------------------------------------------------------------
(* A step that leaves alone what the invariant is about.                     *)
LEMMA Untouched ==
  ASSUME Waiting, UNCHANGED <<mode, question, asking>>
  PROVE  Waiting'
BY DEF Waiting, QuestionIsOnScreen

(* A step that only goes from one mode without a question to another.        *)
LEMMA ModeOnly ==
  ASSUME Waiting, mode # "Readline", mode' \in Mode \ {"Readline"},
         UNCHANGED question, asking' \in Nat
  PROVE  Waiting'
BY DEF Waiting, QuestionIsOnScreen

(* Editing, moving, completing, searching: apply_key of the five modes short *)
(* of what sends something.                                                *)
LEMMA EditingKeeps ==
  ASSUME Waiting,
         \/ EditKey \/ IgnoredKey \/ VerticalKey \/ handle_tab \/ EscapeKey
         \/ AcceptSimple \/ AcceptEffect \/ ContinueLine \/ ExpandBraces
         \/ SearchEdit \/ SearchMove \/ move_selection
  PROVE  Waiting'
BY Untouched DEF EditKey, IgnoredKey, VerticalKey, handle_tab, EscapeKey,
     AcceptSimple, AcceptEffect, ContinueLine, ExpandBraces, SearchEdit,
     SearchMove, move_selection

(* Keys that change the mode: none of them leaves or enters Readline.        *)
LEMMA ModeKeysKeep ==
  ASSUME Waiting,
         \/ EnterMode \/ LeaveMode \/ RecallKey \/ EnterSearch
         \/ SearchCancel \/ SearchSubmit
  PROVE  Waiting'
<1>1. CASE EnterMode \/ LeaveMode \/ EnterSearch \/ SearchCancel
  <2>1. mode # "Readline" /\ mode' \in Mode \ {"Readline"}
    BY <1>1 DEF EnterMode, LeaveMode, EnterSearch, SearchCancel, Mode
  <2>2. UNCHANGED <<question, asking>>
    BY <1>1 DEF EnterMode, LeaveMode, EnterSearch, SearchCancel
  <2> QED BY <2>1, <2>2, ModeOnly DEF Waiting
<1>2. \A e \in Entries : e.mode \in Mode \ {"Readline"}
  BY PromptAssumption DEF Mode
<1>3. CASE RecallKey
  <2>1. mode # "Readline"
    BY <1>3 DEF RecallKey
  <2>2. mode' \in Mode \ {"Readline"}
    BY <1>2, <1>3, <2>1 DEF RecallKey, Recall, Waiting
  <2>3. UNCHANGED <<question, asking>>
    BY <1>3 DEF RecallKey
  <2> QED BY <2>1, <2>2, <2>3, ModeOnly DEF Waiting
<1>4. CASE SearchSubmit
  <2>1. mode # "Readline" /\ mode' \in Mode \ {"Readline"}
    BY <1>2, <1>4 DEF SearchSubmit
  <2>2. UNCHANGED <<question, asking>>
    BY <1>4 DEF SearchSubmit
  <2> QED BY <2>1, <2>2, ModeOnly DEF Waiting
<1> QED BY <1>1, <1>3, <1>4

(* Keys that send something, to R, to claude or as an answer.                *)
LEMMA SendingKeeps ==
  ASSUME Waiting,
         \/ SubmitR \/ SubmitShell \/ SubmitAi \/ SubmitReadline
         \/ AbortReadline \/ Cancel
  PROVE  Waiting'
<1>1. CASE SubmitR \/ SubmitShell \/ SubmitAi \/ Cancel
  <2>1. mode # "Readline" /\ mode' = "Normal" /\ UNCHANGED question
    BY <1>1 DEF SubmitR, SubmitShell, SubmitAi, Cancel, Clear, Fresh
  <2>2. asking' = asking \/ asking' = asking + 1
    BY <1>1 DEF SubmitR, SubmitShell, SubmitAi, Cancel
  <2>3. asking' \in Nat
    BY <2>2 DEF Waiting
  <2> QED BY <2>1, <2>3, ModeOnly DEF Mode
<1>2. CASE SubmitReadline \/ AbortReadline
  <2>1. mode' = "Normal" /\ question' = FALSE /\ UNCHANGED asking
    BY <1>2 DEF SubmitReadline, AbortReadline, Clear
  <2> QED BY <2>1 DEF Waiting, QuestionIsOnScreen, Mode
<1> QED BY <1>1, <1>2

(* Responses: only R's question enters Readline, and Done, which leaves it,  *)
(* does not come while R waits.                                            *)
LEMMA ResponsesKeep ==
  ASSUME Waiting, Response
  PROVE  Waiting'
<1>1. CASE RespondDone
  <2>1. ~question /\ mode' = "Normal" /\ UNCHANGED <<question, asking>>
    BY <1>1 DEF RespondDone, SetMode
  <2> QED BY <2>1 DEF Waiting, QuestionIsOnScreen, Mode
<1>2. CASE RespondReadline
  <2>1. mode' = "Readline" /\ question' = TRUE /\ UNCHANGED asking
    BY <1>2 DEF RespondReadline, SetMode
  <2> QED BY <2>1 DEF Waiting, QuestionIsOnScreen, Mode
<1>3. CASE RespondError \/ RespondSuggestion \/ RespondCompletions
  <2>1. UNCHANGED <<mode, question, asking>>
    BY <1>3 DEF RespondError, RespondSuggestion, RespondCompletions
  <2> QED BY <2>1, Untouched
<1>4. CASE RespondAiDone
  <2>1. UNCHANGED <<mode, question>> /\ asking' \in Nat
    BY <1>4 DEF RespondAiDone, Waiting
  <2> QED BY <2>1 DEF Waiting, QuestionIsOnScreen
<1> QED BY <1>1, <1>2, <1>3, <1>4 DEF Response

-----------------------------------------------------------------------------
(* Waiting is an invariant: no key and no response breaks it. *)
LEMMA WaitingInvariant == Spec => []Waiting
<1>1. Init => Waiting
  <2> SUFFICES ASSUME Init PROVE Waiting
    OBVIOUS
  <2>1. mode = "Normal" /\ question = FALSE /\ asking = 0
    BY DEF Init
  <2> QED BY <2>1 DEF Waiting, QuestionIsOnScreen, Mode
<1>2. Waiting /\ [Next]_vars => Waiting'
  <2> SUFFICES ASSUME Waiting, [Next]_vars PROVE Waiting'
    OBVIOUS
  <2>1. CASE Key
    BY <2>1, EditingKeeps, ModeKeysKeep, SendingKeeps DEF Key
  <2>2. CASE Response
    BY <2>2, ResponsesKeep
  <2>3. CASE TermResize
    BY <2>3, Untouched DEF TermResize, input, outside
  <2>4. CASE UNCHANGED vars
    BY <2>4, Untouched DEF vars, input, outside
  <2> QED BY <2>1, <2>2, <2>3, <2>4 DEF Next
<1> QED BY <1>1, <1>2, PTL DEF Spec

(* R waits for a readline answer exactly while the prompt takes one, for   *)
(* every history, text and order of keys and responses.                    *)
THEOREM QuestionStays == Spec => []QuestionIsOnScreen
<1>1. Waiting => QuestionIsOnScreen
  BY DEF Waiting
<1> QED BY <1>1, WaitingInvariant, PTL

-----------------------------------------------------------------------------
(* The text *)

(* Between keys the cursor is inside the text, but for a search. *)
LEMMA TextIsInside ==
  ASSUME TypeOK, assert_model_invariants, mode # "History_search"
  PROVE  Inside(text)
<1>1. text \in SomeText
  BY DEF TypeOK, SomeText
<1>2. text.cursor_line \in Nat /\ Len(text.lines) \in Nat
  BY <1>1 DEF SomeText
<1>3. text.cursor_line + 1 \in 1..Len(text.lines)
  BY <1>2 DEF assert_model_invariants
<1>4. text.cursor_pos <= current_line(text)
  BY DEF assert_model_invariants
<1> QED  BY <1>1, <1>3, <1>4 DEF Inside

(* And so it is asserted. *)
LEMMA InsideIsAsserted ==
  ASSUME Inside(text'), mode' # "History_search"
  PROVE  assert_model_invariants'
<1>1. /\ text' \in SomeText /\ text'.lines # <<>> /\ Len(text'.lines) \in Nat
      /\ text'.cursor_line \in Nat /\ text'.cursor_line + 1 \in 1..Len(text'.lines)
      /\ text'.cursor_pos \in Nat
      /\ text'.cursor_pos <= current_line(text')
  BY InsideParts
<1>2. text'.cursor_line \in 0..(Len(text'.lines) - 1) /\ text'.cursor_pos >= 0
  BY <1>1
<1>3. current_line(text)' = current_line(text')
  BY DEF current_line
<1> QED  BY <1>1, <1>2, <1>3 DEF assert_model_invariants

(* Another text, with the cursor at its end: recall, search and suggestions *)
LEMMA OtherText ==
  ASSUME NEW t \in SomeText, NEW new \in Seq(Nat), new # <<>>
  PROVE  Inside(move_cursor_to_end([t EXCEPT !.lines = new]))
<1>1. [t EXCEPT !.lines = new] \in SomeText
  BY DEF SomeText
<1> QED  BY <1>1, EndInside

(* Whatever edit a mode's keys make, the cursor stays inside. *)
LEMMA EditsInside ==
  ASSUME NEW t, Inside(t), NEW u \in NormalEdits(t) \cup OtherEdits(t)
  PROVE  Inside(u)
<1>1. ASSUME NEW p \in Pastes
      PROVE  Inside(insert_paste(t, p))
  <2>1. p \in Seq(Nat) /\ p # <<>>
    BY PromptAssumption
  <2> QED  BY <2>1, PasteInside
<1>2. /\ Inside(move_left(t)) /\ Inside(move_right(t))
      /\ Inside(go_to_line_start(t)) /\ Inside(go_to_line_end(t))
      /\ \A v \in go_to_next_word(t) \cup go_to_last_word(t) : Inside(v)
  BY MovesInside
<1>3. /\ \A v \in user_input_char(t) : Inside(v)
      /\ \A v \in user_input_delete(t) : Inside(v)
      /\ Inside(delete_before_cursor(t)) /\ Inside(delete_char_after_cursor(t))
  BY KeysInside
<1>4. Inside(insert_newline(t)) /\ Inside(insert_char(t)) /\ Inside(delete_char(t))
  BY NewlineInside, InsertInside, DeleteInside
<1>5. ASSUME u \in LineEdits(t) PROVE Inside(u)
  BY <1>1, <1>2, <1>3, <1>5 DEF LineEdits
<1> QED  BY <1>3, <1>4, <1>5 DEF NormalEdits, OtherEdits

-----------------------------------------------------------------------------
(* The dropdown *)

(* While only Tabs were pressed since the dropdown was entered, the text   *)
(* they have made is the one before the first of them with the last label in *)
(* the place of its token, and original is that token: what Escape goes back *)
(* to.                                                                     *)
Reverting ==
  /\ completion.explicit /\ tabbed.only
  /\ completion.token_start \in 0..tabbed.from.cursor_pos
  => /\ Inside(tabbed.from)
     /\ tabbed.to = replace_token(tabbed.from, completion.token_start, completion.label)
     /\ completion.original = tabbed.from.cursor_pos - completion.token_start

(* What holds of the dropdown. *)
DropdownInv ==
  /\ completion \in CompletionType
  /\ requested \in BOOLEAN
  /\ tabbed \in [from : Text, to : Text, only : BOOLEAN]
  /\ completion.explicit => completion.kind # "none"
  /\ Reverting

(* A dropdown that was not tabbed into, and no record of Tabs *)
LEMMA NotEntered ==
  ASSUME completion' \in CompletionType, completion'.explicit = FALSE,
         requested' \in BOOLEAN, tabbed' = NoTab
  PROVE  DropdownInv'
<1>1. Blank \in Text
  <2>1. <<0>> \in Seq(Nat)
    OBVIOUS
  <2> QED  BY <2>1 DEF Blank, Text
<1>2. NoTab \in [from : Text, to : Text, only : BOOLEAN]
  BY <1>1 DEF NoTab
<1> QED  BY <1>2 DEF DropdownInv, Reverting

(* A dropdown and its record left alone *)
LEMMA DropdownUntouched ==
  ASSUME DropdownInv, UNCHANGED <<completion, tabbed>>, requested' \in BOOLEAN
  PROVE  DropdownInv'
BY DEF DropdownInv, Reverting

(* NoCompletion and a new dropdown *)
LEMMA Dropdowns ==
  /\ NoCompletion \in CompletionType /\ NoCompletion.explicit = FALSE
  /\ \A k \in {"none", "Backend", "Backslash"}, s \in Int :
       Create(k, s) \in CompletionType /\ Create(k, s).explicit = FALSE
BY DEF NoCompletion, Create, CompletionType

(* What universal_corrections and completion_followup leave: the dropdown  *)
(* itself, none, or one that is new.                                       *)
LEMMA CorrectLeaves ==
  ASSUME NEW cs \in CompletionType, NEW effects \in BOOLEAN, text' \in SomeText,
         requested \in BOOLEAN, Correct(cs, effects)
  PROVE  /\ completion' \in CompletionType
         /\ completion' = cs \/ completion'.explicit = FALSE
         /\ requested' \in BOOLEAN
         /\ tabbed' = IF completion'.explicit THEN tabbed ELSE NoTab
<1>1. PICK c \in filter_completions(cs, text', mode') :
        \/ effects /\ completion' = c /\ requested' = requested
        \/ /\ ~effects
           /\ \E f \in completion_followup(c, text', mode', awaiting_response') :
                completion' = f[1] /\ requested' = (requested \/ f[2])
  BY DEF Correct
<1>2. c = cs \/ c = NoCompletion
  BY <1>1 DEF filter_completions
<1>3. c \in CompletionType
  BY <1>2, Dropdowns
<1>4. text'.cursor_pos \in Nat
  BY DEF SomeText
<1>5. ASSUME NEW f \in completion_followup(c, text', mode', awaiting_response')
      PROVE  /\ f[1] = c \/ f[1] = NoCompletion \/ \E s \in Int : f[1] = Create("Backslash", s)
             /\ f[2] \in BOOLEAN
  <2>1. ASSUME NEW s \in 0..text'.cursor_pos - 2 PROVE s \in Int
    BY <1>4
  <2>2. \/ f = <<NoCompletion, FALSE>> \/ f = <<c, FALSE>> \/ f = <<c, TRUE>>
        \/ \E s \in 0..text'.cursor_pos - 2 : f = <<Create("Backslash", s), FALSE>>
    BY <1>5, Zenon DEF completion_followup
  <2>3. CASE \E s \in 0..text'.cursor_pos - 2 : f = <<Create("Backslash", s), FALSE>>
    BY <2>1, <2>3
  <2>4. CASE f = <<NoCompletion, FALSE>>
    BY <2>4
  <2>5. CASE f = <<c, FALSE>>
    BY <2>5
  <2>6. CASE f = <<c, TRUE>>
    <3>1. f[1] = c
      BY <2>6
    <3>2. f[2] = TRUE
      BY <2>6
    <3> QED  BY <3>1, <3>2
  <2> QED  BY <2>2, <2>3, <2>4, <2>5, <2>6
<1>6. /\ completion' \in CompletionType
      /\ completion' = cs \/ completion'.explicit = FALSE
  BY <1>1, <1>2, <1>3, <1>5, Dropdowns
<1>7. requested' \in BOOLEAN
  BY <1>1, <1>5
<1>8. tabbed' = IF completion'.explicit THEN tabbed ELSE NoTab
  BY DEF Correct
<1> QED  BY <1>6, <1>7, <1>8

(* Keys that end in Correct keep DropdownInv, whether they begin with the  *)
(* dropdown there is, with a dismissed one or with none.                   *)
LEMMA CorrectKeeps ==
  ASSUME DropdownInv, NEW cs \in {completion, dismissed, NoCompletion},
         NEW effects \in BOOLEAN, text' \in SomeText, Correct(cs, effects)
  PROVE  DropdownInv'
<1>1. completion \in CompletionType /\ requested \in BOOLEAN
  BY DEF DropdownInv
<1>2. cs = completion \/ (cs = NoCompletion /\ cs.explicit = FALSE)
  BY Dropdowns DEF dismissed
<1>3. cs \in CompletionType
  BY <1>1, <1>2, Dropdowns
<1>4. /\ completion' \in CompletionType
      /\ completion' = cs \/ completion'.explicit = FALSE
      /\ requested' \in BOOLEAN
      /\ tabbed' = IF completion'.explicit THEN tabbed ELSE NoTab
  BY <1>1, <1>3, CorrectLeaves
<1>5. CASE completion'.explicit = FALSE
  BY <1>4, <1>5, NotEntered
<1>6. CASE completion'.explicit # FALSE
  <2>1. completion' = completion
    BY <1>2, <1>4, <1>6
  <2>2. completion'.explicit \in BOOLEAN
    BY <1>4 DEF CompletionType
  <2>3. tabbed' = tabbed
    BY <1>4, <1>6, <2>2
  <2> QED  BY <1>4, <2>1, <2>3, DropdownUntouched
<1> QED  BY <1>5, <1>6

-----------------------------------------------------------------------------
(* What a step does to the text *)

(* The text after the step is one, and the assertions hold of it if the step *)
(* was not exposed.                                                        *)
TextKept == text' \in SomeText /\ (assert_model_invariants' \/ Exposed)

(* A cursor inside the text, outside of a search *)
LEMMA InsideIsKept ==
  ASSUME Inside(text'), mode' # "History_search"
  PROVE  TextKept
BY InsideIsAsserted DEF TextKept, Inside

(* Text and mode left alone *)
LEMMA TextUntouched ==
  ASSUME TypeOK, assert_model_invariants, UNCHANGED <<text, mode, search>>
  PROVE  TextKept
<1>1. text' \in SomeText
  BY DEF TypeOK, SomeText
<1>2. assert_model_invariants'
  BY DEF assert_model_invariants, current_line
<1> QED  BY <1>1, <1>2 DEF TextKept

(* Keys that edit, move, or do nothing *)
LEMMA EditsKeepText ==
  ASSUME TypeOK, assert_model_invariants,
         EditKey \/ IgnoredKey \/ EnterMode \/ VerticalKey \/ ContinueLine \/ ExpandBraces
  PROVE  TextKept
<1>1. mode # "History_search" /\ mode' # "History_search"
  BY DEF EditKey, IgnoredKey, EnterMode, VerticalKey, ContinueLine, ExpandBraces
<1>2. Inside(text)
  BY <1>1, TextIsInside
<1>3. width \in Nat \ {0} /\ persistent_col \in Nat
  BY PromptAssumption DEF TypeOK
<1>4. ASSUME NEW p \in Nat PROVE target_col(p) \in Nat
  BY <1>3, <1>4, Rows DEF target_col
<1>5. CASE EditKey
  BY <1>1, <1>2, <1>5, EditsInside, InsideIsKept DEF EditKey
<1>6. CASE IgnoredKey \/ EnterMode
  <2>1. text' = text
    BY <1>6 DEF IgnoredKey, EnterMode
  <2> QED  BY <1>1, <1>2, <2>1, InsideIsKept
<1>7. CASE VerticalKey
  <2>1. persistent_col' \in Nat
    BY <1>2, <1>4, <1>7, InsideParts DEF VerticalKey
  <2>2. Inside(text')
    BY <1>2, <1>3, <1>7, <2>1, VerticalInside DEF VerticalKey
  <2> QED  BY <1>1, <2>2, InsideIsKept
<1>8. CASE ContinueLine
  <2>1. PICK indent \in Indents : text' = insert_spaces(indent, insert_newline(text))
    BY <1>8 DEF ContinueLine
  <2>2. indent \in Nat
    BY PromptAssumption
  <2>3. Inside(insert_newline(text))
    BY <1>2, NewlineInside
  <2>4. Inside(text')
    BY <2>1, <2>2, <2>3, InsertInside
  <2> QED  BY <1>1, <2>4, InsideIsKept
<1>9. CASE ExpandBraces
  <2>1. PICK outer \in Indents :
          LET opened == insert_spaces(outer + 2, insert_newline(text))
              closed == insert_spaces(outer, insert_newline(opened))
          IN  /\ persistent_col' = target_col(outer)
              /\ text' = go_to_line_end(move_up(closed, width, persistent_col'))
    BY <1>9 DEF ExpandBraces
  <2> DEFINE opened == insert_spaces(outer + 2, insert_newline(text))
             closed == insert_spaces(outer, insert_newline(opened))
  <2>2. outer \in Nat /\ outer + 2 \in Nat
    BY PromptAssumption
  <2>3. Inside(opened)
    BY <1>2, <2>2, NewlineInside, InsertInside
  <2> HIDE DEF opened
  <2>4. Inside(closed)
    BY <2>2, <2>3, NewlineInside, InsertInside
  <2>5. text' = go_to_line_end(move_up(closed, width, persistent_col'))
        /\ persistent_col' = target_col(outer)
    BY <2>1 DEF opened
  <2> HIDE DEF closed
  <2>6. persistent_col' \in Nat
    BY <1>4, <2>2, <2>5
  <2>7. Inside(move_up(closed, width, persistent_col'))
    BY <1>3, <2>4, <2>6, VerticalInside
  <2>8. Inside(text')
    BY <2>5, <2>7, MovesInside
  <2> QED  BY <1>1, <2>8, InsideIsKept
<1> QED  BY <1>5, <1>6, <1>7, <1>8, <1>9

(* Keys that empty the prompt *)
LEMMA BlanksKeepText ==
  ASSUME \/ LeaveMode \/ SubmitR \/ SubmitShell \/ SubmitAi \/ SubmitReadline
         \/ AbortReadline \/ Cancel \/ SearchCancel
  PROVE  TextKept
<1>1. text' = Blank /\ mode' = "Normal"
  BY DEF LeaveMode, SubmitR, SubmitShell, SubmitAi, SubmitReadline, Clear,
         AbortReadline, Cancel, Fresh, SearchCancel
<1> QED  BY <1>1, BlankInside, InsideIsKept

(* Keys that bring an entry of the history *)
LEMMA EntriesKeepText ==
  ASSUME TypeOK, assert_model_invariants, RecallKey \/ SearchSubmit
  PROVE  TextKept
<1>1. text \in SomeText
  BY DEF TypeOK, SomeText
<1>2. ASSUME NEW e \in Entries
      PROVE  /\ Inside(move_cursor_to_end([text EXCEPT !.lines = e.lines]))
             /\ e.mode # "History_search"
  <2>1. e.lines \in Seq(Nat) /\ e.lines # <<>> /\ e.mode # "History_search"
    BY PromptAssumption
  <2> QED  BY <1>1, <2>1, OtherText
<1>3. CASE \E e \in Entries :
             /\ text' = move_cursor_to_end([text EXCEPT !.lines = e.lines])
             /\ mode' = e.mode
  BY <1>2, <1>3, InsideIsKept
<1>4. CASE RecallKey /\ UNCHANGED <<text, mode>>
  BY <1>4, TextUntouched DEF RecallKey
<1> QED  BY <1>3, <1>4 DEF RecallKey, Recall, SearchSubmit

(* A range of the line replaced *)
LEMMA ReplacingKeepsText ==
  ASSUME Inside(text), mode' # "History_search",
         NEW from \in Int, NEW to \in Int, NEW len \in Nat,
         from <= current_line(text) \/ Exposed,
         text' = replace_range(text, from, to, len)
  PROVE  TextKept
<1>1. text' \in SomeText
  BY ReplaceKeeps
<1>2. CASE from <= current_line(text)
  <2>1. Inside(text')
    BY <1>2, ReplaceKeeps
  <2> QED  BY <2>1, InsideIsKept
<1> QED  BY <1>1, <1>2 DEF TextKept

(* Keys of the dropdown and of backslash commands *)
LEMMA DropdownKeysKeepText ==
  ASSUME TypeOK, DropdownInv, assert_model_invariants,
         handle_tab \/ EscapeKey \/ AcceptSimple \/ AcceptEffect
  PROVE  TextKept
<1>1. mode = "Normal" /\ mode' = "Normal"
  BY DEF handle_tab, EscapeKey, AcceptSimple, AcceptEffect
<1>2. Inside(text)
  BY <1>1, TextIsInside
<1>3. /\ completion.token_start \in Int /\ completion.label \in Nat
      /\ completion.original \in Nat
  BY DEF TypeOK, CompletionType
<1>4. text.cursor_pos \in Nat /\ text.cursor_pos <= current_line(text)
      /\ current_line(text) \in Nat
  BY <1>2, InsideParts
<1>5. completion.kind # "none" =>
        completion.token_start <= current_line(text) \/ Exposed
  BY <1>3, <1>4 DEF Exposed
<1>6. \A l \in Labels : l \in Nat
  BY PromptAssumption
<1>7. CASE handle_tab
  <2>1. PICK label \in Labels : text' = replace_token(text, completion.token_start, label)
    BY <1>7 DEF handle_tab
  <2>2. completion.kind # "none"
    BY <1>7 DEF handle_tab
  <2> QED  BY <1>1, <1>2, <1>3, <1>4, <1>5, <1>6, <2>1, <2>2, ReplacingKeepsText DEF replace_token
<1>8. CASE EscapeKey
  <2>1. CASE completion.explicit
    <3>1. text' = replace_token(text, completion.token_start, completion.original)
      BY <1>8, <2>1 DEF EscapeKey
    <3>2. completion.kind # "none"
      BY <2>1 DEF DropdownInv
    <3> QED  BY <1>1, <1>2, <1>3, <1>4, <1>5, <3>1, <3>2, ReplacingKeepsText DEF replace_token
  <2>2. CASE ~completion.explicit
    <3>1. text' = text
      BY <1>8, <2>2 DEF EscapeKey
    <3> QED  BY <1>1, <1>2, <3>1, InsideIsKept
  <2> QED  BY <2>1, <2>2
<1>9. ASSUME NEW c \in Commands
      PROVE  /\ c[1] \in Int /\ c[2] \in Int
             /\ c[1] <= current_line(text) \/ Exposed
  <2>1. CASE c = <<completion.token_start, completion.label>> /\ MustAccept
    <3>1. completion.kind # "none"
      BY <2>1 DEF MustAccept
    <3> QED  BY <1>3, <1>5, <2>1, <3>1
  <2>2. CASE \E s \in 0..text.cursor_pos - 3 : c = <<s, text.cursor_pos - s>>
    BY <1>4, <2>2
  <2>3. CASE completion.kind = "Backslash" /\ \E l \in Labels : c = <<completion.token_start, l>>
    <3>1. completion.kind # "none"
      BY <2>3
    <3> QED  BY <1>3, <1>5, <1>6, <2>3, <3>1
  <2> QED  BY <1>9, <2>1, <2>2, <2>3 DEF Commands
<1>10. CASE AcceptSimple
  <2>1. PICK c \in Commands : text' = replace_range(text, c[1], text.cursor_pos, 1)
    BY <1>10 DEF AcceptSimple
  <2>2. c[1] \in Int /\ (c[1] <= current_line(text) \/ Exposed)
    BY <1>9
  <2> QED  BY <1>1, <1>2, <1>4, <2>1, <2>2, ReplacingKeepsText
<1>11. CASE AcceptEffect
  <2>1. PICK c \in Commands, path \in Labels :
          text' = text \/ text' = replace_range(text, c[1], c[1] + c[2], path)
    BY <1>11 DEF AcceptEffect
  <2>2. c[1] \in Int /\ c[1] + c[2] \in Int /\ (c[1] <= current_line(text) \/ Exposed)
    BY <1>9
  <2>3. CASE text' = text
    BY <1>1, <1>2, <2>3, InsideIsKept
  <2>4. CASE text' = replace_range(text, c[1], c[1] + c[2], path)
    BY <1>1, <1>2, <1>6, <2>2, <2>4, ReplacingKeepsText
  <2> QED  BY <2>1, <2>3, <2>4
<1> QED  BY <1>7, <1>8, <1>10, <1>11

(* The cursor in the query of a search *)
LEMMA QueryIsKept ==
  ASSUME TypeOK, assert_model_invariants, NEW p \in Nat,
         text' = [text EXCEPT !.cursor_pos = p],
         mode' = "History_search", p <= search'.length
  PROVE  TextKept
<1>1. text \in SomeText
  BY DEF TypeOK, SomeText
<1>2. /\ text' \in SomeText /\ text'.lines = text.lines
      /\ text'.cursor_line = text.cursor_line /\ text'.cursor_pos = p
  BY <1>1 DEF SomeText
<1>3. assert_model_invariants'
  BY <1>2 DEF assert_model_invariants
<1> QED  BY <1>2, <1>3 DEF TextKept

(* Keys of the search *)
LEMMA SearchKeepsText ==
  ASSUME TypeOK, assert_model_invariants,
         EnterSearch \/ SearchEdit \/ SearchMove \/ move_selection
  PROVE  TextKept
<1>1. text.cursor_pos \in Nat /\ search.length \in Nat
  BY DEF TypeOK
<1>2. mode = "History_search" => text.cursor_pos <= search.length
  BY DEF assert_model_invariants
<1>3. CASE EnterSearch
  <2>1. text' = Blank /\ mode' = "History_search" /\ search'.length = 0
    BY <1>3 DEF EnterSearch, FreshSearch
  <2>2. /\ Blank \in SomeText /\ Blank.lines # <<>> /\ Len(Blank.lines) = 1
        /\ Blank.cursor_line = 0 /\ Blank.cursor_pos = 0
    BY BlankInside DEF Inside, Blank
  <2>3. assert_model_invariants'
    BY <2>1, <2>2 DEF assert_model_invariants
  <2> QED  BY <2>1, <2>2, <2>3 DEF TextKept
<1>4. CASE SearchEdit
  <2>1. PICK e \in SearchEdits(search.length, text.cursor_pos) :
          /\ search' \in FreshSearch(e[1])
          /\ text' = [text EXCEPT !.cursor_pos = e[2]]
    BY <1>4 DEF SearchEdit
  <2>2. mode = "History_search" /\ mode' = "History_search"
    BY <1>4 DEF SearchEdit
  <2>3. e[1] \in Nat /\ e[2] \in Nat /\ e[2] <= e[1]
    <3>1. Labels \subseteq Nat  BY PromptAssumption
    <3> QED  BY <1>1, <1>2, <2>2, <3>1 DEF SearchEdits
  <2>4. search'.length = e[1]
    BY <2>1 DEF FreshSearch
  <2> QED  BY <2>1, <2>2, <2>3, <2>4, QueryIsKept
<1>5. CASE SearchMove
  <2>1. PICK p \in 0..search.length : text' = [text EXCEPT !.cursor_pos = p]
    BY <1>5 DEF SearchMove
  <2>2. mode' = "History_search" /\ search' = search
    BY <1>5 DEF SearchMove
  <2>3. p \in Nat /\ p <= search.length
    BY <1>1
  <2> QED  BY <2>1, <2>2, <2>3, QueryIsKept
<1>6. CASE move_selection
  <2>1. mode = "History_search" /\ mode' = mode /\ text' = text
    BY <1>6 DEF move_selection
  <2>2. search \in [length : Nat, matches : Nat, selected : Nat]
    BY DEF TypeOK
  <2>3. search'.length = search.length
    BY <1>6, <2>2 DEF move_selection
  <2>4. text' = [text EXCEPT !.cursor_pos = text.cursor_pos]
    BY <2>1 DEF TypeOK
  <2> QED  BY <1>1, <1>2, <2>1, <2>3, <2>4, QueryIsKept
<1> QED  BY <1>3, <1>4, <1>5, <1>6

(* Responses: one that leaves a search takes the cursor of the query for   *)
(* one of the text.                                                        *)
LEMMA ResponsesKeepText ==
  ASSUME TypeOK, assert_model_invariants, Response
  PROVE  TextKept
<1>1. text \in SomeText /\ pending_suggestion \in Seq(Nat)
  BY DEF TypeOK, SomeText
<1>2. CASE RespondDone \/ RespondReadline
  <2>1. text' = text /\ mode' # "History_search"
    BY <1>2 DEF RespondDone, RespondReadline, SetMode
  <2>2. CASE mode # "History_search"
    BY <2>1, <2>2, TextIsInside, InsideIsKept
  <2>3. CASE mode = "History_search"
    <3>1. CASE text.cursor_pos > 0
      BY <1>1, <2>1, <2>3, <3>1 DEF TextKept, Exposed
    <3>2. CASE ~(text.cursor_pos > 0)
      <4>1. /\ text.cursor_pos = 0 /\ text.cursor_line \in Nat /\ Len(text.lines) \in Nat
            /\ text.lines \in Seq(Nat)
        BY <1>1, <3>2 DEF SomeText
      <4>2. text.cursor_line + 1 \in 1..Len(text.lines)
        BY <4>1 DEF assert_model_invariants
      <4>3. current_line(text) \in Nat
        BY <4>1, <4>2 DEF current_line
      <4>4. Inside(text)
        BY <1>1, <4>1, <4>2, <4>3 DEF Inside
      <4> QED  BY <2>1, <4>4, InsideIsKept
    <3> QED  BY <3>1, <3>2
  <2> QED  BY <2>2, <2>3
<1>3. CASE RespondError \/ RespondSuggestion \/ RespondCompletions
  BY <1>3, TextUntouched DEF RespondError, RespondSuggestion, RespondCompletions
<1>4. CASE RespondAiDone
  <2>1. CASE pending_suggestion = <<>>
    BY <1>4, <2>1, TextUntouched DEF RespondAiDone
  <2>2. CASE pending_suggestion # <<>>
    <3>1. text.lines \in Seq(Nat) /\ text.lines # <<>>
      BY <1>1 DEF SomeText
    <3>2. /\ text.lines \o pending_suggestion \in Seq(Nat)
          /\ text.lines \o pending_suggestion # <<>>
      BY <1>1, <2>2, <3>1
    <3>3. place_suggestion(pending_suggestion) /\ mode' = mode
      BY <1>4, <2>2 DEF RespondAiDone
    <3>4. \/ text' = move_cursor_to_end([text EXCEPT !.lines = pending_suggestion])
          \/ text' = move_cursor_to_end([text EXCEPT !.lines = text.lines \o pending_suggestion])
      BY <3>3 DEF place_suggestion
    <3>5. Inside(text')
      BY <1>1, <2>2, <3>2, <3>4, OtherText
    <3>6. CASE mode # "History_search"
      BY <3>3, <3>5, <3>6, InsideIsKept
    <3>7. CASE mode = "History_search"
      BY <2>2, <3>5, <3>7 DEF TextKept, Exposed, Inside
    <3> QED  BY <3>6, <3>7
  <2> QED  BY <2>1, <2>2
<1> QED  BY <1>2, <1>3, <1>4 DEF Response

(* Every step *)
LEMMA StepKeepsText ==
  ASSUME TypeOK, DropdownInv, Next
  PROVE  TextKept
<1>1. assert_model_invariants
  BY DEF Next
<1>2. CASE Key
  BY <1>1, <1>2, EditsKeepText, BlanksKeepText, EntriesKeepText, DropdownKeysKeepText,
     SearchKeepsText DEF Key
<1>3. CASE TermResize
  BY <1>1, <1>3, TextUntouched DEF TermResize, input
<1> QED  BY <1>1, <1>2, <1>3, ResponsesKeepText DEF Next

-----------------------------------------------------------------------------
(* What a step does to the dropdown *)

(* Tab: the text before the first one is kept in mind, and each label takes  *)
(* the place of the one before.                                            *)
LEMMA TabKeepsDropdown ==
  ASSUME TypeOK, DropdownInv, assert_model_invariants, handle_tab, text' \in SomeText
  PROVE  DropdownInv'
<1> DEFINE ts == completion.token_start
           from == tabbed'.from
<1>1. Inside(text)
  BY TextIsInside DEF handle_tab
<1>2. PICK label \in Labels :
        /\ completion' = SaveAndCycle(label)
        /\ text' = replace_token(text, ts, label)
  BY DEF handle_tab
<1>3. label \in Nat
  BY PromptAssumption
<1>4. completion \in CompletionType /\ ts \in Int
  BY DEF DropdownInv, CompletionType
<1>5. text.cursor_pos \in Nat /\ current_line(text) \in Nat
      /\ text.cursor_pos <= current_line(text)
  BY <1>1, InsideParts
<1>6. TokenLength(text, ts) \in Nat
  BY <1>4, <1>5 DEF TokenLength, Smaller
<1>7. ts \in 0..text.cursor_pos => TokenLength(text, ts) = text.cursor_pos - ts
  BY <1>4, <1>5 DEF TokenLength, Smaller
<1>8. /\ completion' \in CompletionType
      /\ completion'.explicit = TRUE /\ completion'.kind = completion.kind
      /\ completion'.token_start = ts /\ completion'.label = label
      /\ completion'.original = IF completion.explicit THEN completion.original
                                ELSE TokenLength(text, ts)
  BY <1>2, <1>3, <1>4, <1>6 DEF SaveAndCycle, CompletionType
<1>9. completion.kind # "none" /\ requested' = requested
  BY DEF handle_tab
<1>10. /\ tabbed'.from = IF completion.explicit THEN tabbed.from ELSE text
       /\ tabbed'.to = text'
       /\ tabbed'.only = (completion.explicit => tabbed.only /\ text = tabbed.to)
  BY DEF handle_tab
<1>11. tabbed' \in [from : Text, to : Text, only : BOOLEAN]
  <2>1. text \in Text /\ text' \in Text
    BY <1>1, InsideParts DEF SomeText, Text
  <2>2. tabbed.from \in Text
    BY DEF DropdownInv
  <2>3. (completion.explicit => tabbed.only /\ text = tabbed.to) \in BOOLEAN
    OBVIOUS
  <2> QED  BY <2>1, <2>2, <2>3 DEF handle_tab
<1>12. Reverting'
  <2> SUFFICES ASSUME tabbed'.only, ts \in 0..from.cursor_pos
               PROVE  /\ Inside(from)
                      /\ tabbed'.to = replace_token(from, ts, label)
                      /\ completion'.original = from.cursor_pos - ts
    BY <1>8 DEF Reverting
  <2>1. CASE ~completion.explicit
    <3>1. from = text
      BY <1>10, <2>1
    <3>2. completion'.original = text.cursor_pos - ts
      BY <1>7, <1>8, <2>1, <3>1
    <3> QED  BY <1>1, <1>2, <1>10, <3>1, <3>2
  <2>2. CASE completion.explicit
    <3>1. from = tabbed.from /\ tabbed.only /\ text = tabbed.to
      BY <1>10, <2>2
    <3>2. /\ Inside(from)
          /\ tabbed.to = replace_token(from, ts, completion.label)
          /\ completion.original = from.cursor_pos - ts
      BY <2>2, <3>1 DEF DropdownInv, Reverting
    <3>3. completion.label \in Nat
      BY <1>4 DEF CompletionType
    <3>4. ts \in Nat /\ ts <= from.cursor_pos
      BY <1>4, <3>2, InsideParts
    <3> HIDE DEF ts, from
    <3>5. replace_token(replace_token(from, ts, completion.label), ts, label)
            = replace_token(from, ts, label)
      BY <1>3, <3>2, <3>3, <3>4, ReplaceTwice
    <3>6. text' = replace_token(from, ts, label)
      BY <1>2, <3>1, <3>2, <3>5
    <3>7. completion'.original = completion.original
      BY <1>8, <2>2
    <3> QED  BY <1>10, <3>2, <3>6, <3>7
  <2> QED  BY <2>1, <2>2
<1>13. requested' \in BOOLEAN
  BY <1>9 DEF DropdownInv
<1> QED  BY <1>8, <1>9, <1>11, <1>12, <1>13 DEF DropdownInv

(* The keys that end in universal_corrections *)
LEMMA CorrectedKeys ==
  ASSUME DropdownInv, text' \in SomeText,
         \/ EditKey \/ IgnoredKey \/ EnterMode \/ LeaveMode \/ RecallKey \/ VerticalKey
         \/ EscapeKey \/ AcceptSimple \/ SubmitR \/ ContinueLine \/ ExpandBraces
         \/ SubmitShell \/ SubmitAi \/ SubmitReadline \/ AbortReadline
         \/ EnterSearch \/ SearchEdit \/ SearchMove \/ move_selection
         \/ SearchCancel \/ SearchSubmit
  PROVE  DropdownInv'
<1>1. \/ Correct(completion, FALSE) \/ Correct(dismissed, FALSE)
      \/ Correct(NoCompletion, FALSE) \/ Correct(completion, TRUE)
      \/ Correct(NoCompletion, TRUE)
  BY DEF EditKey, IgnoredKey, EnterMode, LeaveMode, RecallKey, VerticalKey, EscapeKey,
         AcceptSimple, SubmitR, ContinueLine, ExpandBraces, SubmitShell, SubmitAi,
         SubmitReadline, AbortReadline, EnterSearch, SearchEdit, SearchMove,
         move_selection, SearchCancel, SearchSubmit, Clear
<1> QED  BY <1>1, CorrectKeeps

(* Every step *)
LEMMA StepKeepsDropdown ==
  ASSUME TypeOK, DropdownInv, Next
  PROVE  DropdownInv'
<1>1. assert_model_invariants
  BY DEF Next
<1>2. text' \in SomeText
  BY StepKeepsText DEF TextKept
<1>3. requested \in BOOLEAN
  BY DEF DropdownInv
<1>4. CASE handle_tab
  BY <1>1, <1>2, <1>4, TabKeepsDropdown
<1>5. CASE AcceptEffect \/ Cancel
  <2>1. completion' = NoCompletion /\ tabbed' = NoTab /\ requested' = requested
    BY <1>5 DEF AcceptEffect, Cancel, Fresh
  <2> QED  BY <1>3, <2>1, Dropdowns, NotEntered
<1>6. CASE RespondDone \/ RespondReadline \/ RespondError \/ RespondSuggestion
           \/ RespondAiDone \/ TermResize
  <2>1. UNCHANGED <<completion, tabbed>> /\ requested' = requested
    BY <1>6 DEF RespondDone, RespondReadline, RespondError, RespondSuggestion,
                RespondAiDone, TermResize, Unmoved, input, outside
  <2> QED  BY <1>3, <2>1, DropdownUntouched
<1>7. CASE RespondCompletions
  <2>1. requested' = FALSE
    BY <1>7 DEF RespondCompletions
  <2>2. PICK n \in 0..MaxToken :
          IF mode = "History_search" THEN completion' = NoCompletion
          ELSE IF completion.explicit THEN completion' = completion
          ELSE completion' \in
                 filter_completions(Create("Backend", text.cursor_pos - n), text, mode)
    BY <1>7 DEF RespondCompletions
  <2>3. tabbed' = IF completion'.explicit THEN tabbed ELSE NoTab
    BY <1>7 DEF RespondCompletions
  <2>4. text.cursor_pos - n \in Int
    BY PromptAssumption DEF TypeOK
  <2>5. \/ completion' = NoCompletion
        \/ completion' = completion /\ completion.explicit
        \/ completion' = Create("Backend", text.cursor_pos - n)
    BY <2>2 DEF filter_completions
  <2>6. CASE completion' = completion /\ completion.explicit
    <3>1. tabbed' = tabbed
      BY <2>3, <2>6
    <3> QED  BY <2>1, <2>6, <3>1, DropdownUntouched
  <2>7. CASE ~(completion' = completion /\ completion.explicit)
    <3>1. completion' \in CompletionType /\ completion'.explicit = FALSE
      BY <2>4, <2>5, <2>7, Dropdowns
    <3>2. tabbed' = NoTab
      BY <2>3, <3>1
    <3> QED  BY <2>1, <3>1, <3>2, NotEntered
  <2> QED  BY <2>6, <2>7
<1> QED  BY <1>2, <1>4, <1>5, <1>6, <1>7, CorrectedKeys DEF Next, Key, Response

-----------------------------------------------------------------------------
(* What a step does to the rest of the model *)

(* The search state *)
LEMMA SearchTyped ==
  ASSUME TypeOK, Next
  PROVE  search' \in [length : Nat, matches : Nat, selected : Nat]
<1> DEFINE Searches == [length : Nat, matches : Nat, selected : Nat]
<1>1. search \in Searches /\ text.cursor_pos \in Nat
  BY DEF TypeOK
<1>2. NoSearch \in Searches
  BY DEF NoSearch
<1>3. ASSUME NEW n \in Nat PROVE FreshSearch(n) \subseteq Searches
  BY DEF FreshSearch, MaxMatches
<1>4. CASE SearchEdit
  <2>1. PICK e \in SearchEdits(search.length, text.cursor_pos) : search' \in FreshSearch(e[1])
    BY <1>4 DEF SearchEdit
  <2>2. text.cursor_pos <= search.length
    BY <1>4 DEF SearchEdit, Next, assert_model_invariants
  <2>3. e[1] \in Nat
    BY <1>1, <2>2, PromptAssumption DEF SearchEdits
  <2> QED  BY <1>3, <2>1, <2>3
<1>5. CASE move_selection
  <2>1. PICK amount \in {-1, 1} :
          search' = IF search.matches = 0 THEN search
                    ELSE [search EXCEPT !.selected =
                            Larger(0, Smaller(search.matches - 1, @ + amount))]
    BY <1>5 DEF move_selection
  <2>2. Larger(0, Smaller(search.matches - 1, search.selected + amount)) \in Nat
    BY <1>1 DEF Larger, Smaller
  <2> QED  BY <1>1, <2>1, <2>2
<1>6. CASE EnterSearch
  BY <1>3, <1>6 DEF EnterSearch
<1>7. CASE Cancel \/ SearchCancel \/ SearchSubmit \/ RespondDone \/ RespondReadline
  <2>1. search' = NoSearch \/ search' = search
    BY <1>7 DEF Cancel, Fresh, SearchCancel, SearchSubmit, RespondDone, RespondReadline, SetMode
  <2> QED  BY <1>1, <1>2, <2>1
<1>8. CASE \/ EditKey \/ IgnoredKey \/ EnterMode \/ LeaveMode \/ RecallKey \/ VerticalKey
           \/ handle_tab \/ EscapeKey \/ AcceptSimple \/ AcceptEffect \/ SubmitR
           \/ ContinueLine \/ ExpandBraces \/ SubmitShell \/ SubmitAi \/ SubmitReadline
           \/ AbortReadline \/ SearchMove \/ RespondError \/ RespondSuggestion
           \/ RespondAiDone \/ RespondCompletions \/ TermResize
  <2>1. search' = search
    BY <1>8 DEF EditKey, IgnoredKey, EnterMode, LeaveMode, RecallKey, VerticalKey,
         handle_tab, EscapeKey, AcceptSimple, AcceptEffect, SubmitR, ContinueLine,
         ExpandBraces, SubmitShell, SubmitAi, SubmitReadline, AbortReadline, Clear,
         SearchMove, RespondError, RespondSuggestion, RespondAiDone,
         RespondCompletions, TermResize, input
  <2> QED  BY <1>1, <2>1
<1> QED  BY <1>4, <1>5, <1>6, <1>7, <1>8 DEF Next, Key, Response

(* The column that Up and Down keep to, and the width *)
LEMMA ColumnsTyped ==
  ASSUME TypeOK, Next
  PROVE  persistent_col' \in Nat /\ width' \in Widths
<1>1. width \in Widths /\ persistent_col \in Nat /\ text.cursor_pos \in Nat
  BY DEF TypeOK
<1>2. ASSUME NEW p \in Nat PROVE target_col(p) \in Nat
  <2>1. width \in Nat \ {0}
    BY <1>1, PromptAssumption
  <2>2. column(width, p) \in 0..(width - 1)
    BY <2>1, Rows
  <2>3. column(width, p) \in Nat
    BY <2>1, <2>2
  <2> QED  BY <1>1, <2>3 DEF target_col
<1>3. CASE VerticalKey
  BY <1>1, <1>2, <1>3 DEF VerticalKey
<1>4. CASE ExpandBraces
  <2>1. PICK outer \in Indents : persistent_col' = target_col(outer)
    BY <1>4 DEF ExpandBraces
  <2>2. outer \in Nat
    BY PromptAssumption
  <2> QED  BY <1>1, <1>2, <1>4, <2>1, <2>2 DEF ExpandBraces
<1>5. CASE TermResize
  BY <1>1, <1>5 DEF TermResize
<1>6. CASE Cancel
  BY <1>1, <1>6 DEF Cancel, Fresh
<1>7. CASE \/ EditKey \/ IgnoredKey \/ EnterMode \/ LeaveMode \/ RecallKey
           \/ handle_tab \/ EscapeKey \/ AcceptSimple \/ AcceptEffect \/ SubmitR
           \/ ContinueLine \/ SubmitShell \/ SubmitAi \/ SubmitReadline
           \/ AbortReadline \/ EnterSearch \/ SearchEdit \/ SearchMove \/ move_selection
           \/ SearchCancel \/ SearchSubmit \/ Response
  <2>1. UNCHANGED <<persistent_col, width>>
    BY <1>7 DEF EditKey, IgnoredKey, EnterMode, LeaveMode, RecallKey, handle_tab,
         EscapeKey, AcceptSimple, AcceptEffect, SubmitR, ContinueLine, SubmitShell,
         SubmitAi, SubmitReadline, AbortReadline, Clear, EnterSearch, SearchEdit,
         SearchMove, move_selection, SearchCancel, SearchSubmit, Plain, Response,
         RespondDone, RespondReadline, RespondError, RespondSuggestion,
         RespondAiDone,
         RespondCompletions, Unmoved, layout
  <2> QED  BY <1>1, <2>1
<1> QED  BY <1>3, <1>4, <1>5, <1>6, <1>7 DEF Next, Key

(* What AI has suggested *)
LEMMA SuggestionTyped ==
  ASSUME TypeOK, Next
  PROVE  pending_suggestion' \in Seq(Nat)
<1>1. pending_suggestion \in Seq(Nat)
  BY DEF TypeOK
<1>2. CASE RespondSuggestion
  <2>1. PICK code \in Pastes :
          pending_suggestion' = IF pending_suggestion = <<>> THEN code
                                ELSE pending_suggestion \o <<0>> \o code
    BY <1>2 DEF RespondSuggestion
  <2>2. code \in Seq(Nat) /\ <<0>> \in Seq(Nat)
    BY PromptAssumption
  <2>3. pending_suggestion \o <<0>> \o code \in Seq(Nat)
    BY <1>1, <2>2
  <2> QED  BY <2>1, <2>2, <2>3
<1>3. CASE pending_suggestion' = <<>> \/ pending_suggestion' = pending_suggestion
  <2>1. <<>> \in Seq(Nat)
    OBVIOUS
  <2> QED  BY <1>1, <1>3, <2>1
<1>4. CASE Key \/ TermResize
  <2>1. pending_suggestion' = <<>> \/ pending_suggestion' = pending_suggestion
    BY <1>4 DEF Key, EditKey, IgnoredKey, EnterMode, LeaveMode, RecallKey, VerticalKey,
         handle_tab, EscapeKey, AcceptSimple, AcceptEffect, SubmitR, ContinueLine,
         ExpandBraces, SubmitShell, SubmitAi, SubmitReadline, AbortReadline, Clear,
         Cancel, Fresh, EnterSearch, SearchEdit, SearchMove, move_selection,
         SearchCancel, SearchSubmit, Plain, TermResize
  <2> QED  BY <1>3, <2>1
<1>5. CASE RespondDone \/ RespondReadline \/ RespondError \/ RespondAiDone \/ RespondCompletions
  BY <1>3, <1>5
  DEF RespondDone, RespondReadline, RespondError, RespondAiDone, RespondCompletions
<1> QED  BY <1>2, <1>4, <1>5 DEF Next, Response

(* The flags *)
LEMMA FlagsTyped ==
  ASSUME TypeOK, Next
  PROVE  vertical' \in BOOLEAN /\ flipping' \in BOOLEAN
         /\ awaiting_response' \in BOOLEAN /\ busy' \in BOOLEAN
<1> USE DEF Key, Response, EditKey, IgnoredKey, EnterMode, LeaveMode, RecallKey, Recall,
         VerticalKey, handle_tab, EscapeKey, AcceptSimple, AcceptEffect, SubmitR,
         ContinueLine, ExpandBraces, SubmitShell, SubmitAi, SubmitReadline,
         AbortReadline, Clear, Cancel, Fresh, EnterSearch, SearchEdit, SearchMove,
         move_selection, SearchCancel, SearchSubmit, Plain, RespondDone,
         RespondReadline, RespondError, RespondSuggestion, RespondAiDone,
         RespondCompletions, TermResize, Unmoved, layout, outside, Next
<1>1. vertical' \in BOOLEAN \/ vertical' = vertical
  OBVIOUS
<1>2. flipping' \in BOOLEAN \/ flipping' = flipping
  OBVIOUS
<1>3. awaiting_response' \in BOOLEAN \/ awaiting_response' = awaiting_response
  OBVIOUS
<1>4. busy' \in BOOLEAN \/ busy' = busy
  OBVIOUS
<1> HIDE DEF Next
<1> QED  BY <1>1, <1>2, <1>3, <1>4 DEF TypeOK

-----------------------------------------------------------------------------
(* Types and the dropdown go together: what is typed into depends on where *)
(* the dropdown began, and the dropdown's text on what was typed.          *)
PromptInv == TypeOK /\ DropdownInv

(* PromptInv is an invariant. *)
LEMMA PromptInvariant == Spec => []PromptInv
<1>1. Init => PromptInv
  <2> SUFFICES ASSUME Init PROVE PromptInv
    OBVIOUS
  <2>1. text = Blank /\ mode = "Normal" /\ search = NoSearch /\ completion = NoCompletion
        /\ persistent_col = 0 /\ width \in Widths /\ pending_suggestion = <<>>
        /\ asking = 0 /\ tabbed = NoTab
    BY DEF Init
  <2>2. vertical = FALSE /\ flipping = FALSE /\ awaiting_response = FALSE
        /\ busy = FALSE /\ question = FALSE /\ requested = FALSE
    BY DEF Init
  <2>3. Blank \in SomeText /\ Blank \in Text
    <3>1. Blank \in SomeText
      BY BlankInside DEF Inside
    <3> QED  BY <3>1 DEF SomeText, Text
  <2>4. NoTab \in [from : Text, to : Text, only : BOOLEAN]
    BY <2>3 DEF NoTab
  <2>5. DropdownInv
    BY <2>1, <2>2, <2>4, Dropdowns DEF DropdownInv, Reverting
  <2>6. text \in [lines : Seq(Nat) \ {<<>>}, cursor_line : Nat, cursor_pos : Nat]
    BY <2>1, <2>3 DEF SomeText
  <2>7. search \in [length : Nat, matches : Nat, selected : Nat] /\ mode \in Mode
    BY <2>1 DEF NoSearch, Mode
  <2>8. pending_suggestion \in Seq(Nat)
    BY <2>1
  <2> QED  BY <2>1, <2>2, <2>5, <2>6, <2>7, <2>8 DEF PromptInv, DropdownInv, TypeOK
<1>2. PromptInv /\ Waiting' /\ [Next]_vars => PromptInv'
  <2> SUFFICES ASSUME PromptInv, Waiting', [Next]_vars PROVE PromptInv'
    OBVIOUS
  <2>1. CASE Next
    <3>1. text' \in SomeText
      BY <2>1, StepKeepsText DEF PromptInv, TextKept
    <3>2. DropdownInv'
      BY <2>1, StepKeepsDropdown DEF PromptInv
    <3>3. search' \in [length : Nat, matches : Nat, selected : Nat]
      BY <2>1, SearchTyped DEF PromptInv
    <3>4. persistent_col' \in Nat /\ width' \in Widths
      BY <2>1, ColumnsTyped DEF PromptInv
    <3>5. pending_suggestion' \in Seq(Nat)
      BY <2>1, SuggestionTyped DEF PromptInv
    <3>6. /\ vertical' \in BOOLEAN /\ flipping' \in BOOLEAN
          /\ awaiting_response' \in BOOLEAN /\ busy' \in BOOLEAN
      BY <2>1, FlagsTyped DEF PromptInv
    <3>7. mode' \in Mode /\ asking' \in Nat /\ question' \in BOOLEAN
      BY DEF Waiting
    <3>8. /\ completion' \in CompletionType /\ requested' \in BOOLEAN
          /\ tabbed' \in [from : Text, to : Text, only : BOOLEAN]
      BY <3>2 DEF DropdownInv
    <3>9. TypeOK'
      BY <3>1, <3>3, <3>4, <3>5, <3>6, <3>7, <3>8 DEF TypeOK, SomeText
    <3> QED  BY <3>2, <3>9 DEF PromptInv
  <2>2. CASE UNCHANGED vars
    BY <2>2 DEF vars, input, layout, outside, PromptInv, TypeOK, DropdownInv, Reverting
  <2> QED  BY <2>1, <2>2
<1> QED  BY <1>1, <1>2, WaitingInvariant, PTL DEF Spec

(* Whatever is typed, recalled, completed and answered, the prompt's model *)
(* keeps its types: its cursor and its lengths never get negative, and it  *)
(* never is without a line.                                                *)
THEOREM PromptTypes == Spec => []TypeOK
<1>1. PromptInv => TypeOK
  BY DEF PromptInv
<1> QED  BY <1>1, PromptInvariant, PTL

(* Every handler of every mode keeps the assertions of update, for every   *)
(* history, paste, label, width and answer, but where the step is exposed. *)
THEOREM AssertionsHold == Spec => FailsOnlyExposed
<1>1. PromptInv /\ [Next]_vars => [assert_model_invariants' \/ Exposed]_vars
  BY StepKeepsText DEF PromptInv, TextKept
<1> QED  BY <1>1, PromptInvariant, PTL DEF Spec, FailsOnlyExposed

(* Escape after any number of Tabs brings back the text and the cursor from  *)
(* before the first one, for every text, token and label.                  *)
THEOREM EscapeRestores == Spec => RevertRestores
<1> DEFINE Restores == EscapeKey /\ completion.explicit /\ tabbed.only /\ text = tabbed.to
                         /\ completion.token_start \in 0..tabbed.from.cursor_pos
                       => text' = tabbed.from
<1>1. PromptInv => Restores
  <2> SUFFICES ASSUME PromptInv, EscapeKey, completion.explicit, tabbed.only,
                      text = tabbed.to,
                      completion.token_start \in 0..tabbed.from.cursor_pos
               PROVE  text' = tabbed.from
    OBVIOUS
  <2> DEFINE from == tabbed.from
             ts == completion.token_start
             original == completion.original
             label == completion.label
  <2>1. /\ Inside(from) /\ text = replace_token(from, ts, label)
        /\ original = from.cursor_pos - ts
    BY DEF PromptInv, DropdownInv, Reverting
  <2>2. label \in Nat /\ original \in Nat
    BY DEF PromptInv, DropdownInv, CompletionType
  <2>3. ts \in Nat /\ ts <= from.cursor_pos
    BY <2>1, InsideParts
  <2>4. text' = replace_token(text, ts, original)
    BY DEF EscapeKey
  <2> HIDE DEF from, ts, original, label
  <2>5. text' = replace_token(from, ts, original)
    BY <2>1, <2>2, <2>3, <2>4, ReplaceTwice
  <2>6. text' = from
    BY <2>1, <2>3, <2>5, ReplaceBack
  <2> QED  BY <2>6 DEF from
<1>2. PromptInv /\ [Next]_vars => [Restores]_vars
  BY <1>1
<1> QED  BY <1>2, PromptInvariant, PTL DEF Spec, RevertRestores

(* Down after Up, and Up after Down, are back at the same cluster, for every *)
(* text, cursor and width of the terminal.                                 *)
THEOREM UpDownUndone == Spec => []UpUndoesDown
<1>1. PromptInv => UpUndoesDown
  <2> SUFFICES ASSUME PromptInv, mode # "History_search", assert_model_invariants
               PROVE  LET col == column(width, text.cursor_pos)
                          above == move_up(text, width, col)
                          below == move_down(text, width, col)
                      IN  /\ above # text => move_down(above, width, col) = text
                          /\ below # text => move_up(below, width, col) = text
    BY DEF UpUndoesDown
  <2>1. Inside(text)
    BY TextIsInside DEF PromptInv
  <2>2. width \in Nat \ {0}
    BY PromptAssumption DEF PromptInv, TypeOK
  <2> QED  BY <2>1, <2>2, DownAfterUp, UpAfterDown
<1> QED  BY <1>1, PromptInvariant, PTL
=============================================================================
