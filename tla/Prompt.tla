------------------------------- MODULE Prompt -------------------------------
(***************************************************************************)
(* The prompt: lib/update.ml with the input modes (lib/normal_mode.ml,     *)
(* shell_mode.ml, ai_mode.ml, readline_mode.ml, history_search.ml) and the *)
(* completion dropdown (lib/completion.ml, completion_controller.ml).      *)
(*                                                                         *)
(* A step is one call of Update.update, on a key or on a response that may *)
(* arrive between any two keys.  update asserts assert_model_invariants    *)
(* before and after; where they fail the program ends, so a state that     *)
(* fails them has no successor.  Which characters are typed, what they     *)
(* match and what R and claude answer is chosen freely.                    *)
(***************************************************************************)
EXTENDS TextEditor

CONSTANTS Widths,     \* effective_width: columns of the terminal less the prompt
          Entries,    \* commands in the history: [mode, lines]
          Pastes,     \* pasted texts, suggested code: lengths of their lines
          Labels,     \* lengths of completion labels
          Indents,    \* indentation of a continued line
          MaxLine,    \* MaxLine[n]: longest line of a text of n lines
          MaxLines,   \* most lines
          MaxToken,   \* bytes of the token R completed
          MaxAsking,  \* AI queries not yet over
          Answers     \* whose responses arrive: "R", "AI", "completions"

ASSUME PromptAssumption ==
  /\ Widths \subseteq Nat \ {0} /\ Widths # {}
  /\ Entries \subseteq [mode : {"Normal", "Shell", "Ai"}, lines : Seq(Nat) \ {<<>>}]
  /\ Pastes \subseteq Seq(Nat) \ {<<>>}
  /\ Labels \subseteq Nat \ {0}
  /\ Indents \subseteq Nat
  /\ {MaxToken, MaxAsking} \subseteq Nat /\ MaxLines \in Nat \ {0}
  /\ MaxLine \in [1..MaxLines -> Nat]
  /\ Answers \subseteq {"R", "AI", "completions"}

VARIABLES text,               \* lines, cursor_line, cursor_pos
          mode,
          search,             \* search_state of History_search
          completion,         \* the dropdown
          vertical,           \* previous_key is Up or Down
          persistent_col,
          flipping,           \* flipping_through_history
          width,
          awaiting_response,
          pending_suggestion, \* its lines, <<>> for None
          busy,               \* a command was submitted whose Done may come
          question,           \* R has asked for a line and waits for it
          asking,             \* AI queries whose Ai_done may come
          requested,          \* R was asked for completions
          tabbed              \* observer: the text before and after Tab

input == <<text, mode, search, completion>>
layout == <<vertical, persistent_col, flipping, width>>
outside == <<busy, question, asking, requested>>
vars == <<input, layout, awaiting_response, pending_suggestion, outside, tabbed>>

Mode == {"Normal", "Readline", "Shell", "Ai", "History_search"}

NoSearch == [length |-> 0, matches |-> 0, selected |-> 0]

(* original and label are lengths; label is the one Tab has put in. *)
CompletionType ==
  [kind : {"none", "Backend", "Backslash"}, token_start : Int,
   explicit : BOOLEAN, original : Nat, label : Nat]

NoCompletion == [kind |-> "none", token_start |-> 0, explicit |-> FALSE,
                 original |-> 0, label |-> 0]

Create(kind, token_start) ==
  [kind |-> kind, token_start |-> token_start, explicit |-> FALSE,
   original |-> 0, label |-> 0]

(* Only Tabs since the dropdown was entered, so far *)
NoTab == [from |-> Blank, to |-> Blank, only |-> FALSE]

TypeOK ==
  /\ text \in [lines : Seq(Nat) \ {<<>>}, cursor_line : Nat, cursor_pos : Nat]
  /\ mode \in Mode
  /\ search \in [length : Nat, matches : Nat, selected : Nat]
  /\ completion \in CompletionType
  /\ vertical \in BOOLEAN
  /\ persistent_col \in Nat
  /\ flipping \in BOOLEAN
  /\ width \in Widths
  /\ awaiting_response \in BOOLEAN
  /\ pending_suggestion \in Seq(Nat)
  /\ busy \in BOOLEAN
  /\ question \in BOOLEAN
  /\ asking \in Nat
  /\ requested \in BOOLEAN
  /\ tabbed \in [from : Text, to : Text, only : BOOLEAN]

assert_model_invariants ==
  /\ text.lines # <<>>
  /\ text.cursor_line \in 0..Len(text.lines) - 1
  /\ text.cursor_pos >= 0
  /\ text.cursor_pos <= IF mode = "History_search" THEN search.length
                        ELSE current_line(text)

(* make: the model of a program that starts, or starts over after Ctrl-C *)
Fresh ==
  /\ text' = Blank
  /\ mode' = "Normal"
  /\ search' = NoSearch
  /\ completion' = NoCompletion
  /\ vertical' = FALSE
  /\ persistent_col' = 0
  /\ flipping' = FALSE
  /\ awaiting_response' = FALSE
  /\ pending_suggestion' = <<>>
  /\ tabbed' = NoTab

Init ==
  /\ text = Blank
  /\ mode = "Normal"
  /\ search = NoSearch
  /\ completion = NoCompletion
  /\ vertical = FALSE
  /\ persistent_col = 0
  /\ flipping = FALSE
  /\ width \in Widths
  /\ awaiting_response = FALSE
  /\ pending_suggestion = <<>>
  /\ busy = FALSE
  /\ question = FALSE
  /\ asking = 0
  /\ requested = FALSE
  /\ tabbed = NoTab

(* The bounds on the text *)
Fits ==
  LET lines == text'.lines IN
  Len(lines) <= MaxLines /\ \A i \in DOMAIN lines : lines[i] <= MaxLine[Len(lines)]

-----------------------------------------------------------------------------
(* Completion_controller *)

(* An open dropdown stays if some label begins with what is typed now, which *)
(* it may or may not; one that was tabbed into stays as it is.             *)
filter_completions(cs, t, m) ==
  IF m = "History_search" \/ cs.kind = "none" THEN {NoCompletion}
  ELSE IF cs.explicit THEN {cs}
  ELSE IF cs.token_start > current_line(t) \/ cs.token_start > t.cursor_pos
  THEN {NoCompletion}
  ELSE {NoCompletion, cs}

(* No token: the dropdown closes.  A backslash token: its commands.  A word:  *)
(* R is asked.                                                                *)
completion_followup(cs, t, m, awaiting) ==
  IF m = "History_search" THEN {<<NoCompletion, FALSE>>}
  ELSE IF awaiting \/ cs.explicit THEN {<<cs, FALSE>>}
  ELSE {<<NoCompletion, FALSE>>}
         \cup {<<Create("Backslash", s), FALSE>> : s \in 0..t.cursor_pos - 2}
         \cup (IF t.cursor_pos >= 2 THEN {<<cs, TRUE>>} ELSE {})

(* universal_corrections, then completion_followup if the key has no effect  *)
Correct(cs, effects) ==
  /\ \E c \in filter_completions(cs, text', mode') :
       \/ effects /\ completion' = c /\ requested' = requested
       \/ /\ ~effects
          /\ \E f \in completion_followup(c, text', mode', awaiting_response') :
               completion' = f[1] /\ requested' = (requested \/ f[2])
  /\ tabbed' = IF completion'.explicit THEN tabbed ELSE NoTab

(* What keys other than Tab, Escape and Enter do first *)
dismissed == IF completion.explicit THEN NoCompletion ELSE completion

(* Every key but the ones of the next line leaves this alone. *)
Plain == /\ vertical' = FALSE
         /\ flipping' = FALSE
         /\ UNCHANGED <<persistent_col, width, pending_suggestion>>

-----------------------------------------------------------------------------
(* Keys that all modes but the search treat alike *)

LineEdits(t) ==
  {t, move_left(t), move_right(t), go_to_line_start(t), go_to_line_end(t),
   delete_before_cursor(t)}
    \cup go_to_next_word(t) \cup go_to_last_word(t)
    \cup {insert_paste(t, p) : p \in Pastes}
    \cup (IF is_empty_input(t) THEN {} ELSE {delete_char_after_cursor(t)})

NormalEdits(t) ==
  LineEdits(t) \cup user_input_char(t) \cup user_input_delete(t)
    \cup {insert_newline(t)}

OtherEdits(t) == LineEdits(t) \cup {insert_char(t), delete_char(t)}

EditKey ==
  /\ mode # "History_search"
  /\ text' \in (IF mode = "Normal" THEN NormalEdits(text) ELSE OtherEdits(text))
  /\ Fits
  /\ Plain
  /\ UNCHANGED <<mode, search, awaiting_response, busy, question, asking>>
  /\ Correct(IF mode = "Ai" THEN completion ELSE dismissed, FALSE)

(* Keys that a mode ignores without closing the dropdown: Tab and Escape,  *)
(* and in a readline answer Up, Down and Ctrl-P.                           *)
IgnoredKey ==
  /\ mode \in {"Readline", "Shell", "Ai"}
  /\ vertical' \in (IF mode = "Readline" THEN BOOLEAN ELSE {FALSE})
  /\ flipping' = FALSE
  /\ UNCHANGED <<text, mode, search, persistent_col, width, awaiting_response,
                 pending_suggestion, busy, question, asking>>
  /\ Correct(completion, FALSE)

(* ";" and ":" in an empty prompt *)
EnterMode ==
  /\ mode = "Normal"
  /\ prompt_is_empty(text)
  /\ mode' \in {"Shell", "Ai"}
  /\ Plain
  /\ UNCHANGED <<text, search, awaiting_response, busy, question, asking>>
  /\ Correct(dismissed, FALSE)

(* set_mode_normal_blank: Ctrl-C, or Backspace or Ctrl-D in an empty prompt *)
LeaveMode ==
  /\ mode \in {"Shell", "Ai"}
  /\ text' = Blank
  /\ mode' = "Normal"
  /\ Plain
  /\ UNCHANGED <<search, awaiting_response, busy, question, asking>>
  /\ \/ Correct(completion, FALSE)
     \/ mode = "Shell" /\ prompt_is_empty(text) /\ Correct(dismissed, FALSE)

(* shift_history: an entry, which brings its mode, or none *)
Recall ==
  \/ /\ \E e \in Entries :
          /\ text' = move_cursor_to_end([text EXCEPT !.lines = e.lines])
          /\ mode' = e.mode
     /\ flipping' = TRUE
  \/ UNCHANGED <<text, mode>> /\ flipping' = FALSE

RecallKey ==
  /\ mode \in {"Normal", "Shell", "Ai"}
  /\ \/ vertical' = FALSE /\ ~(mode = "Normal" /\ awaiting_response)
     \/ vertical' = TRUE /\ (mode = "Normal" => \/ at_first_line(text)
                                                \/ at_last_line(text)
                                                \/ flipping)
  /\ Recall
  /\ UNCHANGED <<search, persistent_col, width, awaiting_response,
                 pending_suggestion, busy, question, asking>>
  /\ Correct(IF mode = "Normal" THEN dismissed ELSE completion, FALSE)

(* Up and Down inside a text of several lines keep to one column. *)
target_col(pos) == IF vertical THEN persistent_col ELSE column(width, pos)

VerticalKey ==
  /\ mode = "Normal"
  /\ ~flipping
  /\ persistent_col' = target_col(text.cursor_pos)
  /\ \/ ~at_first_line(text) /\ text' = move_up(text, width, persistent_col')
     \/ ~at_last_line(text) /\ text' = move_down(text, width, persistent_col')
  /\ vertical' = TRUE
  /\ flipping' = FALSE
  /\ UNCHANGED <<mode, search, width, awaiting_response, pending_suggestion,
                 busy, question, asking>>
  /\ Correct(dismissed, FALSE)

-----------------------------------------------------------------------------
(* Tab and Escape *)

(* Unicode_string.sub of the line up to the cursor *)
TokenLength(t, token_start) ==
  IF token_start < 0 \/ token_start >= t.cursor_pos THEN 0
  ELSE Smaller(t.cursor_pos, current_line(t)) - token_start

(* Variant: the token is saved again at every Tab. *)
SaveEveryTime(label) ==
  [completion EXCEPT !.explicit = TRUE, !.label = label,
                     !.original = TokenLength(text, completion.token_start)]

(* The token is saved when the dropdown is entered. *)
SaveAndCycle(label) ==
  [completion EXCEPT
     !.explicit = TRUE, !.label = label,
     !.original = IF completion.explicit THEN @
                  ELSE TokenLength(text, completion.token_start)]

handle_tab ==
  /\ mode = "Normal"
  /\ completion.kind # "none"
  /\ \E label \in Labels :
       /\ completion.kind = "Backslash" => label >= 3
       /\ completion' = SaveAndCycle(label)
       /\ text' = replace_token(text, completion.token_start, label)
  /\ Fits
  /\ tabbed' = [from |-> IF completion.explicit THEN tabbed.from ELSE text,
                to |-> text',
                only |-> completion.explicit => tabbed.only /\ text = tabbed.to]
  /\ Plain
  /\ UNCHANGED <<mode, search, awaiting_response, busy, question, asking, requested>>

EscapeKey ==
  /\ mode = "Normal"
  /\ text' = IF completion.explicit
             THEN replace_token(text, completion.token_start, completion.original)
             ELSE text
  /\ Fits
  /\ Plain
  /\ UNCHANGED <<mode, search, awaiting_response, busy, question, asking>>
  /\ Correct(NoCompletion, FALSE)

-----------------------------------------------------------------------------
(* Enter *)

(* clear_model_for_submit *)
Clear(waiting) ==
  /\ text' = Blank
  /\ mode' = "Normal"
  /\ awaiting_response' = waiting
  /\ Plain
  /\ UNCHANGED search
  /\ Correct(NoCompletion, TRUE)

MustAccept == completion.explicit /\ completion.kind = "Backslash"

(* Where accept_backslash_completion finds a command, and how long its label *)
(* is: the one Tab has put in; else one that ends at the cursor; else, while  *)
(* a backslash dropdown is open, one that matched when the dropdown was last *)
(* filtered, at the place where it was then.  A label, its backslash       *)
(* included, has three characters at least.                                *)
Commands ==
  IF MustAccept THEN {<<completion.token_start, completion.label>>}
  ELSE {<<s, text.cursor_pos - s>> : s \in 0..text.cursor_pos - 3}
         \cup (IF completion.kind # "Backslash" THEN {}
               ELSE {<<completion.token_start, l>> : l \in {n \in Labels : n >= 3}})

(* A Greek letter takes the place of everything up to the cursor. *)
AcceptSimple ==
  /\ mode = "Normal"
  /\ \E c \in Commands : text' = replace_range(text, c[1], text.cursor_pos, 1)
  /\ Fits
  /\ Plain
  /\ UNCHANGED <<mode, search, awaiting_response, busy, question, asking>>
  /\ Correct(NoCompletion, FALSE)

(* \file and \fzf: a path takes the place of the label, or nothing does.   *)
(* The picker runs at once and blocks the loop.                            *)
AcceptEffect ==
  /\ mode = "Normal"
  /\ \E c \in Commands, path \in Labels :
       text' \in {text, replace_range(text, c[1], c[1] + c[2], path)}
  /\ Fits
  /\ completion' = NoCompletion
  /\ tabbed' = NoTab
  /\ Plain
  /\ UNCHANGED <<mode, search, awaiting_response, busy, question, asking, requested>>

SubmitR ==
  /\ mode = "Normal"
  /\ ~MustAccept
  /\ Clear(TRUE)
  /\ busy' = TRUE
  /\ UNCHANGED <<question, asking>>

(* R_enter.action: the command goes on, and so does the dropdown. *)
ContinueLine ==
  /\ mode = "Normal"
  /\ ~MustAccept
  /\ current_line(text) > 0
  /\ \E indent \in Indents : text' = insert_spaces(indent, insert_newline(text))
  /\ Fits
  /\ Plain
  /\ UNCHANGED <<mode, search, awaiting_response, busy, question, asking>>
  /\ Correct(completion, FALSE)

(* Variant: the line between the braces is left without its indentation,   *)
(* and the cursor is put behind it all the same.                           *)
ExpandBracesBlank ==
  /\ mode = "Normal"
  /\ ~MustAccept
  /\ 0 < text.cursor_pos /\ text.cursor_pos < current_line(text)
  /\ \E outer \in Indents :
       LET closed == insert_spaces(outer, insert_newline(insert_newline(text)))
       IN  /\ persistent_col' = target_col(outer)
           /\ text' = [move_up(closed, width, persistent_col') EXCEPT
                         !.cursor_pos = outer + 2]
  /\ Fits
  /\ vertical' = FALSE
  /\ flipping' = FALSE
  /\ UNCHANGED <<mode, search, width, awaiting_response, pending_suggestion,
                 busy, question, asking>>
  /\ Correct(completion, FALSE)

(* Enter between a pair of brackets *)
ExpandBraces ==
  /\ mode = "Normal"
  /\ ~MustAccept
  /\ 0 < text.cursor_pos /\ text.cursor_pos < current_line(text)
  /\ \E outer \in Indents :
       LET opened == insert_spaces(outer + 2, insert_newline(text))
           closed == insert_spaces(outer, insert_newline(opened))
       IN  /\ persistent_col' = target_col(outer)
           /\ text' = go_to_line_end(move_up(closed, width, persistent_col'))
  /\ Fits
  /\ vertical' = FALSE
  /\ flipping' = FALSE
  /\ UNCHANGED <<mode, search, width, awaiting_response, pending_suggestion,
                 busy, question, asking>>
  /\ Correct(completion, FALSE)

SubmitShell ==
  /\ mode = "Shell"
  /\ Clear(TRUE)
  /\ busy' = TRUE
  /\ UNCHANGED <<question, asking>>

(* A query, or /new, whose notice ends like an answer *)
SubmitAi ==
  /\ mode = "Ai"
  /\ asking < MaxAsking
  /\ Clear(TRUE)
  /\ asking' = asking + 1
  /\ UNCHANGED <<busy, question>>

SubmitReadline ==
  /\ mode = "Readline"
  /\ Clear(TRUE)
  /\ question' = FALSE
  /\ UNCHANGED <<busy, asking>>

(* Ctrl-C: an empty answer; the dropdown is left as it is. *)
AbortReadline ==
  /\ mode = "Readline"
  /\ text' = Blank
  /\ mode' = "Normal"
  /\ question' = FALSE
  /\ Plain
  /\ UNCHANGED <<search, awaiting_response, busy, asking>>
  /\ Correct(completion, TRUE)

(* Ctrl-C while something is awaited *)
Cancel ==
  /\ mode = "Normal"
  /\ awaiting_response
  /\ Fresh
  /\ UNCHANGED <<width, busy, question, asking, requested>>

-----------------------------------------------------------------------------
(* History_search *)

MaxMatches == 2

(* fresh_state: the matches of a query, the first one selected *)
FreshSearch(length) ==
  {[length |-> length, matches |-> n, selected |-> 0] : n \in 0..MaxMatches}

EnterSearch ==
  /\ mode \in {"Normal", "Shell", "Ai"}
  /\ text' = Blank
  /\ mode' = "History_search"
  /\ search' \in FreshSearch(0)
  /\ Plain
  /\ UNCHANGED <<awaiting_response, busy, question, asking>>
  /\ Correct(NoCompletion, FALSE)

(* Edits of the query: its new length and the cursor in it *)
SearchEdits(length, pos) ==
  {<<length + 1, pos + 1>>}
    \cup (IF pos = 0 THEN {<<length, 0>>} ELSE {<<length - 1, pos - 1>>})
    \cup (IF pos >= length THEN {<<length, pos>>} ELSE {<<length - 1, pos>>})
    \cup {<<length - pos, 0>>}
    \cup {<<length + n, pos + n>> : n \in Labels}

SearchEdit ==
  /\ mode = "History_search"
  /\ \E e \in SearchEdits(search.length, text.cursor_pos) :
       /\ e[1] <= MaxLine[1]
       /\ search' \in FreshSearch(e[1])
       /\ text' = [text EXCEPT !.cursor_pos = e[2]]
  /\ Plain
  /\ UNCHANGED <<mode, awaiting_response, busy, question, asking>>
  /\ Correct(completion, FALSE)

SearchMove ==
  /\ mode = "History_search"
  /\ text' \in {[text EXCEPT !.cursor_pos = p] : p \in 0..search.length}
  /\ Plain
  /\ UNCHANGED <<mode, search, awaiting_response, busy, question, asking>>
  /\ Correct(completion, FALSE)

move_selection ==
  /\ mode = "History_search"
  /\ \E amount \in {-1, 1} :
       search' = IF search.matches = 0 THEN search
                 ELSE [search EXCEPT !.selected =
                         Larger(0, Smaller(search.matches - 1, @ + amount))]
  /\ vertical' \in BOOLEAN
  /\ flipping' = FALSE
  /\ UNCHANGED <<text, mode, persistent_col, width, awaiting_response,
                 pending_suggestion, busy, question, asking>>
  /\ Correct(completion, FALSE)

SearchCancel ==
  /\ mode = "History_search"
  /\ text' = Blank
  /\ mode' = "Normal"
  /\ search' = NoSearch
  /\ Plain
  /\ UNCHANGED <<awaiting_response, busy, question, asking>>
  /\ Correct(completion, FALSE)

SearchSubmit ==
  /\ mode = "History_search"
  /\ search.selected < search.matches
  /\ \E e \in Entries :
       /\ text' = move_cursor_to_end([text EXCEPT !.lines = e.lines])
       /\ mode' = e.mode
  /\ search' = NoSearch
  /\ Plain
  /\ UNCHANGED <<awaiting_response, busy, question, asking>>
  /\ Correct(completion, FALSE)

-----------------------------------------------------------------------------
(* Responses *)

Unmoved == UNCHANGED <<completion, layout, requested, tabbed>>

(* The search state goes with the mode that carries it. *)
SetMode(m) ==
  /\ mode' = m
  /\ search' = IF m = "History_search" THEN search ELSE NoSearch

(* The Done of a command may also never come: handle_done keeps it back when *)
(* another command starts, and a key may be faster in the same turn.       *)
RespondDone ==
  /\ busy /\ ~question
  /\ busy' = FALSE
  /\ awaiting_response' = FALSE
  /\ SetMode("Normal")
  /\ Unmoved
  /\ UNCHANGED <<text, pending_suggestion, question, asking>>

(* R asks during a command, but also from its profiles and event handlers. *)
RespondReadline ==
  /\ ~question
  /\ question' = TRUE
  /\ SetMode("Readline")
  /\ Unmoved
  /\ UNCHANGED <<text, awaiting_response, pending_suggestion, busy, asking>>

RespondError ==
  /\ busy
  /\ awaiting_response' = FALSE
  /\ Unmoved
  /\ UNCHANGED <<text, mode, search, pending_suggestion, busy, question, asking>>

RespondSuggestion ==
  /\ asking > 0
  /\ \E code \in Pastes :
       pending_suggestion' = IF pending_suggestion = <<>> THEN code
                             ELSE pending_suggestion \o <<0>> \o code
  /\ Len(pending_suggestion') <= MaxLines
  /\ Unmoved
  /\ UNCHANGED <<text, mode, search, awaiting_response, busy, question, asking>>

(* Code replaces a prompt of white space and goes below anything else. *)
place_suggestion(code) ==
  \/ text' = move_cursor_to_end([text EXCEPT !.lines = code])
  \/ /\ \E i \in DOMAIN text.lines : text.lines[i] > 0
     /\ text' = move_cursor_to_end([text EXCEPT !.lines = @ \o code])

(* Variant: the prompt is freed of whatever mode it is in. *)
RespondAiDoneNormal ==
  /\ asking > 0
  /\ asking' = asking - 1
  /\ awaiting_response' = FALSE
  /\ pending_suggestion' = <<>>
  /\ IF pending_suggestion = <<>> THEN UNCHANGED text
     ELSE place_suggestion(pending_suggestion)
  /\ Fits
  /\ SetMode("Normal")
  /\ Unmoved
  /\ UNCHANGED <<busy, question>>

RespondAiDone ==
  /\ asking > 0
  /\ asking' = asking - 1
  /\ awaiting_response' = FALSE
  /\ pending_suggestion' = <<>>
  /\ IF pending_suggestion = <<>> THEN UNCHANGED text
     ELSE place_suggestion(pending_suggestion)
  /\ Fits
  /\ Unmoved
  /\ UNCHANGED <<mode, search, busy, question>>

(* The token ends at the cursor of now, and is as long as it has bytes. *)
RespondCompletions ==
  /\ requested
  /\ requested' = FALSE
  /\ \E n \in 0..MaxToken :
       IF mode = "History_search" THEN completion' = NoCompletion
       ELSE IF completion.explicit THEN completion' = completion
       ELSE completion' \in
              filter_completions(Create("Backend", text.cursor_pos - n), text, mode)
  /\ tabbed' = IF completion'.explicit THEN tabbed ELSE NoTab
  /\ UNCHANGED <<text, mode, search, layout, awaiting_response,
                 pending_suggestion, busy, question, asking>>

TermResize ==
  /\ width' \in Widths
  /\ UNCHANGED <<input, vertical, persistent_col, flipping, awaiting_response,
                 pending_suggestion, outside, tabbed>>

-----------------------------------------------------------------------------
Key ==
  \/ EditKey \/ IgnoredKey \/ EnterMode \/ LeaveMode \/ RecallKey \/ VerticalKey
  \/ handle_tab \/ EscapeKey \/ AcceptSimple \/ AcceptEffect
  \/ SubmitR \/ ContinueLine \/ ExpandBraces \/ SubmitShell \/ SubmitAi
  \/ SubmitReadline \/ AbortReadline \/ Cancel
  \/ EnterSearch \/ SearchEdit \/ SearchMove \/ move_selection
  \/ SearchCancel \/ SearchSubmit

Response ==
  \/ "R" \in Answers /\ (RespondDone \/ RespondReadline \/ RespondError)
  \/ "AI" \in Answers /\ (RespondSuggestion \/ RespondAiDone)
  \/ "completions" \in Answers /\ RespondCompletions

(* update *)
Next == assert_model_invariants /\ (Key \/ Response \/ TermResize)

Spec == Init /\ [][Next]_vars

-----------------------------------------------------------------------------
(* Properties *)

(* When a step may break the assertions: a response that changes mode or   *)
(* text under the cursor of a search, and a key that applies a dropdown that *)
(* was opened when the cursor was elsewhere.                               *)
Exposed ==
  \/ /\ mode = "History_search"
     /\ text.cursor_pos > 0 \/ pending_suggestion # <<>>
  \/ completion.kind # "none" /\ completion.token_start > current_line(text)

(* Every handler of every mode keeps assert_model_invariants (cursor inside  *)
(* the text, or inside the query), whatever is typed, pasted, recalled,    *)
(* completed, answered or resized in between; there are two exceptions.    *)
FailsOnlyExposed == [][assert_model_invariants' \/ Exposed]_vars

(* Escape after any number of Tabs brings back the text and the cursor from  *)
(* before the first one, if nothing else touched the text since (handle_tab  *)
(* and Escape in normal_mode.ml) and the token began before the cursor.    *)
RevertRestores ==
  [][EscapeKey /\ completion.explicit /\ tabbed.only /\ text = tabbed.to
       /\ completion.token_start \in 0..tabbed.from.cursor_pos
     => text' = tabbed.from]_vars

(* R waits for a readline answer exactly while the prompt takes one: no    *)
(* response, recall, search or cancel moves the prompt away from a question  *)
(* R is blocked in, and no answer is sent that was not asked for.          *)
QuestionIsOnScreen == question <=> mode = "Readline"

(* Up and Down undo each other wherever the text wraps: Down after Up, and *)
(* Up after Down, in the column kept in persistent_col, are back at the same *)
(* cluster (move_up, move_down, internal_to_terminal, terminal_to_internal). *)
UpUndoesDown ==
  LET col == column(width, text.cursor_pos)
      above == move_up(text, width, col)
      below == move_down(text, width, col)
  IN  mode # "History_search" /\ assert_model_invariants =>
        /\ above # text => move_down(above, width, col) = text
        /\ below # text => move_up(below, width, col) = text

-----------------------------------------------------------------------------
(* What the code says of itself and does not do. *)

(* The assertions of update on every model it returns                      *)
(* (assert_model_invariants in frontend_types.ml).                         *)
Asserted == assert_model_invariants

=============================================================================
