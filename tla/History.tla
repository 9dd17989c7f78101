------------------------------- MODULE History -------------------------------
(***************************************************************************)
(* lib/history.ml: the commands a user can recall, and the SQLite table    *)
(* that keeps them from one session to the next.  One process is modelled  *)
(* in full, through several sessions; other processes share the file and   *)
(* only add rows.  CommandLog follows one session's commands from their    *)
(* submission to their end; here a response is only what ends a row.       *)
(*                                                                         *)
(* A text is a sequence of letters; the position of a row is its id.       *)
(* Sqlite3 is external: a statement is done, or fails (the file is locked  *)
(* by another process, the disk is full) and raises an exception, which    *)
(* ends the program through the finally clause of main.ml.                 *)
(***************************************************************************)
EXTENDS Integers, SequencesExt

CONSTANTS Draft,      \* what a user may type: [mode, text]
          Query,      \* texts a user searches for
          MaxHistory, \* max_history
          MaxMatches, \* max_matches of history_search.ml
          MaxRows,    \* rows of the table
          MaxSession  \* sessions of the process

Blank == [mode |-> "r", text |-> <<>>]

ASSUME HistoryAssumption ==
  /\ Blank \in Draft
  /\ \A d \in Draft : d.mode \in {"r", "shell", "ai"}
  /\ {MaxHistory, MaxMatches, MaxRows, MaxSession} \subseteq Nat \ {0}

VARIABLES commands,                 \* the table, oldest row first
          session_id,               \* 0 is any other process
          life,                     \* "running", "closing", "ended"
          nav,                      \* what recall keeps in memory
          active_command_id,        \* a row, or 0
          active_command_had_error,
          prompt,                   \* mode and lines of the input
          unsaved                   \* observer: the newest entry in memory
                                    \* did not get a row

row == <<active_command_id, active_command_had_error>>
vars == <<commands, session_id, life, nav, row, prompt, unsaved>>

NoRow == 0

(* String.trim command = "" *)
IsBlank(text) == \A i \in DOMAIN text : text[i] = " "

Entry == {d \in Draft : ~IsBlank(d.text)}
Status == {"running", "done", "error", "interrupted"}

TypeOK ==
  /\ commands \in Seq([session : 0..MaxSession, entry : Entry, status : Status])
  /\ session_id \in 1..MaxSession
  /\ life \in {"running", "closing", "ended"}
  /\ nav \in [history : Seq(Entry), current_index : Nat,
              saved_prompt : {<<>>} \cup {<<d>> : d \in Draft},
              search_needle : {<<>>} \cup {<<d.text>> : d \in Draft}]
  /\ nav.current_index <= Len(nav.history)
  /\ nav.current_index > 0 => nav.saved_prompt # <<>>
  /\ active_command_id \in 0..Len(commands)
  /\ active_command_had_error \in BOOLEAN
  /\ prompt \in Draft
  /\ unsaved \in BOOLEAN

-----------------------------------------------------------------------------
(* Recall. *)

contains_substring(needle, haystack) ==
  \E i \in 0..(Len(haystack) - Len(needle)) :
    SubSeq(haystack, i + 1, i + Len(needle)) = needle

matches_prompt(needle, text) ==
  needle = <<>> \/ contains_substring(needle[1], text)

nth_newest(history, i) == history[Len(history) - i]

(* Variant: the position is one off. *)
prompt_matches_older(n, p, idx) ==
  /\ idx < Len(n.history)
  /\ p.text = nth_newest(n.history, idx).text

(* The prompt shows the entry at idx, unedited. *)
prompt_matches_entry(n, p, idx) ==
  /\ idx > 0
  /\ idx - 1 < Len(n.history)
  /\ p.text = nth_newest(n.history, idx - 1).text

update_search_needle(n, p) ==
  IF prompt_matches_entry(n, p, n.current_index) THEN n.search_needle
  ELSE <<p.text>>

is_duplicate_of_previous(history, idx) ==
  idx > 0 /\ nth_newest(history, idx) = nth_newest(history, idx - 1)

(* What recall stops at: not a repetition, and with the needle in it. *)
Stops(history, needle, idx) ==
  /\ ~is_duplicate_of_previous(history, idx)
  /\ matches_prompt(needle, nth_newest(history, idx).text)

(* The older entries the walk would stop at, and the newer ones. *)
Older(n, needle) ==
  {i \in n.current_index..(Len(n.history) - 1) : Stops(n.history, needle, i)}

Newer(n, needle) ==
  {i \in 0..(n.current_index - 2) : Stops(n.history, needle, i)}

(* The walk to older entries.  result is a prompt, or nothing. *)
go_back(n, p) ==
  LET needle == update_search_needle(n, p)
      older == Older(n, needle)
  IN [result |-> IF older = {} THEN <<>>
                 ELSE <<nth_newest(n.history, Min(older))>>,
      nav |-> [n EXCEPT !.current_index = IF older = {} THEN Len(n.history)
                                          ELSE Min(older) + 1,
                        !.saved_prompt = IF n.current_index = 0 THEN <<p>> ELSE @,
                        !.search_needle = needle]]

(* The walk to newer entries, which ends at the prompt that was left. *)
go_forwards(n, p) ==
  LET needle == update_search_needle(n, p)
      newer == Newer(n, needle)
  IN [result |-> IF n.current_index = 0 THEN <<>>
                 ELSE IF newer = {} THEN n.saved_prompt
                 ELSE <<nth_newest(n.history, Max(newer))>>,
      nav |-> [n EXCEPT !.current_index = IF newer = {} THEN 0
                                          ELSE Max(newer) + 1,
                        !.search_needle = needle]]

(* String.lowercase_ascii, for the letters in use. *)
lowercase_ascii(text) ==
  [i \in DOMAIN text |-> IF text[i] = "A" THEN "a" ELSE text[i]]

Matches(query, e) ==
  contains_substring(lowercase_ascii(query), lowercase_ascii(e.text))

(* Variant: what was seen is not remembered. *)
Look_repeating(found, e, query, limit) ==
  IF Len(found) < limit /\ Matches(query, e)
  THEN Append(found, e)
  ELSE found

(* One turn of the loop of search_matches. *)
Look(found, e, query, limit) ==
  IF Len(found) < limit /\ e \notin ToSet(found) /\ Matches(query, e)
  THEN Append(found, e)
  ELSE found

(* The newest limit distinct entries with the query in them, in any case. *)
search_matches(history, query, limit) ==
  LET found[i \in 0..Len(history)] ==
        IF i = 0 THEN <<>>
        ELSE Look(found[i - 1], nth_newest(history, i - 1), query, limit)
  IN found[Len(history)]

-----------------------------------------------------------------------------
(* The table. *)

(* Variant: the oldest rows are kept. *)
oldest_from_db(table) ==
  LET last == IF Len(table) > MaxHistory THEN MaxHistory ELSE Len(table)
  IN [i \in 1..last |-> table[i].entry]

(* command_history_from_db: ORDER BY id DESC LIMIT, and turned around. *)
command_history_from_db(table) ==
  LET first == IF Len(table) > MaxHistory THEN Len(table) - MaxHistory + 1 ELSE 1
  IN [i \in 1..(Len(table) - first + 1) |-> table[first + i - 1].entry]

(* The table after finish_active. *)
Finished(status) ==
  IF active_command_id = NoRow THEN commands
  ELSE [commands EXCEPT ![active_command_id].status =
          IF active_command_had_error THEN "error" ELSE status]

(* finish_active, when the statement is done. *)
finish_active(status) ==
  /\ commands' = Finished(status)
  /\ active_command_id' = NoRow
  /\ active_command_had_error' =
       (active_command_id = NoRow /\ active_command_had_error)

(* Recall at the prompt, before the first Up. *)
AtRest(history) ==
  [history |-> history, current_index |-> 0, saved_prompt |-> <<>>,
   search_needle |-> <<>>]

(* The event loop is left, by a key or because a statement has failed: the *)
(* prompt is gone, and so is the place in history, the newest entries of   *)
(* which are in memory.                                                    *)
LeaveLoop(history) ==
  /\ life' = "closing"
  /\ prompt' = Blank
  /\ nav' = AtRest(history)

Init ==
  /\ commands = <<>>
  /\ session_id = 1
  /\ life = "running"
  /\ nav = AtRest(command_history_from_db(commands))
  /\ active_command_id = NoRow
  /\ active_command_had_error = FALSE
  /\ prompt = Blank
  /\ unsaved = FALSE

-----------------------------------------------------------------------------
(* Keys. *)

(* Typing, editing, and every key that empties the prompt: Ctrl-C, the end *)
(* of a search without a match.  Recall stays where it is.                 *)
Type ==
  /\ life = "running"
  /\ \E d \in Draft : prompt' = d
  /\ UNCHANGED <<commands, session_id, life, nav, row, unsaved>>

(* shift_history: the entry brings its mode; no entry, no change. *)
Shift(walk) ==
  /\ life = "running"
  /\ nav' = walk.nav
  /\ prompt' = IF walk.result = <<>> THEN prompt ELSE walk.result[1]
  /\ UNCHANGED <<commands, session_id, life, row, unsaved>>

Up == Shift(go_back(nav, prompt))
Down == Shift(go_forwards(nav, prompt))

(* Enter in the search pager. *)
AcceptMatch ==
  /\ life = "running"
  /\ \E q \in Query :
       \E e \in ToSet(search_matches(nav.history, q, MaxMatches)) : prompt' = e
  /\ UNCHANGED <<commands, session_id, life, nav, row, unsaved>>

(* Variant: the place in history is kept. *)
RememberInPlace(e) ==
  nav' = [nav EXCEPT !.history = Append(@, e), !.saved_prompt = <<>>]

Remember(e) == nav' = AtRest(Append(nav.history, e))

NewRow(e) == [session |-> session_id, entry |-> e, status |-> "running"]

(* Variant: the command before is left as it is. *)
SubmitWithoutFinish ==
  /\ life = "running"
  /\ ~IsBlank(prompt.text)
  /\ Len(commands) < MaxRows
  /\ Remember(prompt)
  /\ commands' = Append(commands, NewRow(prompt))
  /\ active_command_id' = Len(commands) + 1
  /\ active_command_had_error' = FALSE
  /\ prompt' = Blank
  /\ UNCHANGED <<session_id, life, unsaved>>

(* Variant: a statement that failed is only logged. *)
SubmitAnyway ==
  /\ life = "running"
  /\ ~IsBlank(prompt.text)
  /\ Len(commands) < MaxRows
  /\ Remember(prompt)
  /\ \/ /\ commands' = Append(Finished("interrupted"), NewRow(prompt))
        /\ active_command_id' = Len(commands) + 1
        /\ active_command_had_error' = FALSE
     \/ finish_active("interrupted")
  /\ prompt' = Blank
  /\ UNCHANGED <<session_id, life, unsaved>>

(* add_to_history: the row before is closed, the entry goes to memory and  *)
(* then to the table.  Each of the two statements may fail.                *)
Submit ==
  /\ life = "running"
  /\ ~IsBlank(prompt.text)
  /\ Len(commands) < MaxRows
  /\ \/ /\ Remember(prompt)
        /\ commands' = Append(Finished("interrupted"), NewRow(prompt))
        /\ active_command_id' = Len(commands) + 1
        /\ active_command_had_error' = FALSE
        /\ prompt' = Blank
        /\ UNCHANGED <<life, unsaved>>
     \/ /\ active_command_id # NoRow
        /\ LeaveLoop(nav.history)
        /\ UNCHANGED <<commands, row, unsaved>>
     \/ /\ finish_active("interrupted")
        /\ LeaveLoop(Append(nav.history, prompt))
        /\ unsaved' = TRUE
  /\ UNCHANGED session_id

(* A blank line is not remembered. *)
SubmitBlank ==
  /\ life = "running"
  /\ IsBlank(prompt.text)
  /\ prompt' = Blank
  /\ UNCHANGED <<commands, session_id, life, nav, row, unsaved>>

-----------------------------------------------------------------------------
(* Responses, and Ctrl-C while R is at work. *)

(* record_response of something printed, an error or not: its statement *)
(* (there is one when a row is active) may fail.                        *)
RecordOutput ==
  /\ life = "running"
  /\ active_command_had_error' \in {active_command_had_error, TRUE}
  /\ \/ UNCHANGED <<life, nav, prompt>>
     \/ active_command_id # NoRow /\ LeaveLoop(nav.history)
  /\ UNCHANGED <<commands, session_id, active_command_id, unsaved>>

(* record_response of Internal_error, which is output and an end. *)
RecordInternalError ==
  /\ life = "running"
  /\ \/ /\ active_command_id # NoRow
        /\ finish_active("error")
        /\ UNCHANGED <<life, nav, prompt>>
     \/ /\ active_command_had_error' = TRUE
        /\ IF active_command_id = NoRow
           THEN UNCHANGED <<life, nav, prompt>>
           ELSE LeaveLoop(nav.history)
        /\ UNCHANGED <<commands, active_command_id>>
  /\ UNCHANGED <<session_id, unsaved>>

(* record_response of Done, and record_cancel. *)
EndRow ==
  /\ life = "running"
  /\ \/ /\ \E s \in {"done", "interrupted"} : finish_active(s)
        /\ UNCHANGED <<life, nav, prompt>>
     \/ /\ active_command_id # NoRow
        /\ LeaveLoop(nav.history)
        /\ UNCHANGED <<commands, row>>
  /\ UNCHANGED <<session_id, unsaved>>

-----------------------------------------------------------------------------
(* The life of a session, and of others. *)

Quit ==
  /\ life = "running"
  /\ LeaveLoop(nav.history)
  /\ UNCHANGED <<commands, session_id, row, unsaved>>

(* close, in the finally clause: once more, a statement that may fail. *)
Close ==
  /\ life = "closing"
  /\ life' = "ended"
  /\ finish_active("interrupted") \/ UNCHANGED <<commands, row>>
  /\ UNCHANGED <<session_id, nav, prompt, unsaved>>

(* R, or the machine, takes the process down. *)
Crash ==
  /\ life # "ended"
  /\ life' = "ended"
  /\ prompt' = Blank
  /\ nav' = AtRest(nav.history)
  /\ UNCHANGED <<commands, session_id, row, unsaved>>

(* init: nothing is done about rows that a crash has left "running". *)
Restart ==
  /\ life = "ended"
  /\ session_id < MaxSession
  /\ session_id' = session_id + 1
  /\ life' = "running"
  /\ nav' = AtRest(command_history_from_db(commands))
  /\ active_command_id' = NoRow
  /\ active_command_had_error' = FALSE
  /\ prompt' = Blank
  /\ unsaved' = FALSE
  /\ UNCHANGED commands

OtherProcess ==
  /\ Len(commands) < MaxRows
  /\ \E e \in Entry :
       commands' = Append(commands, [session |-> 0, entry |-> e,
                                     status |-> "done"])
  /\ UNCHANGED <<session_id, life, nav, row, prompt, unsaved>>

Next ==
  \/ Type \/ Up \/ Down \/ AcceptMatch \/ Submit \/ SubmitBlank
  \/ RecordOutput \/ RecordInternalError \/ EndRow
  \/ Quit \/ Close \/ Crash \/ Restart \/ OtherProcess

Spec == Init /\ [][Next]_vars

-----------------------------------------------------------------------------
(* Properties *)

(* Of the rows of a session at most one is "running", its last, whatever   *)
(* statement failed and wherever the process died; while the session       *)
(* lives it is the active one, so later responses find the right row.      *)
OneRowIsOpen ==
  /\ \A i \in DOMAIN commands :
       commands[i].session # 0 /\ commands[i].status = "running" =>
         /\ \A j \in DOMAIN commands :
              commands[j].session = commands[i].session => j <= i
         /\ commands[i].session = session_id => active_command_id = i
  /\ active_command_id # NoRow =>
       /\ commands[active_command_id].session = session_id
       /\ commands[active_command_id].status = "running"

(* The rows of the session, and how many of them are from row i on. *)
Mine == {i \in DOMAIN commands : commands[i].session = session_id}
Since(i) == Cardinality({j \in Mine : j >= i})

(* While the program runs, the newest entries in memory are the rows of    *)
(* the session, in order: nothing can be recalled that will be gone after  *)
(* a restart, and no row is missing from recall, also when another process *)
(* writes rows in between and statements fail.                             *)
MemoryIsTable ==
  life = "running" =>
    \A i \in Mine :
      /\ Since(i) <= Len(nav.history)
      /\ commands[i].entry = nth_newest(nav.history, Since(i) - 1)

(* Down after an Up that found something shows what Up replaced, mode and  *)
(* all: the draft, or the entry the walk had stopped at.  The needle, the  *)
(* repetitions and the saved prompt agree in both directions.              *)
DownUndoesUp ==
  LET up == go_back(nav, prompt)
      down == go_forwards(up.nav, up.result[1])
      idx == nav.current_index
  IN /\ up.result # <<>>
     /\ idx = 0 \/ prompt = nth_newest(nav.history, idx - 1)
     => down.result = <<prompt>> /\ down.nav.current_index = idx

(* The place of the newest use of e. *)
NewestUse(e) ==
  CHOOSE i \in DOMAIN nav.history :
    nav.history[i] = e /\ \A j \in DOMAIN nav.history : nav.history[j] = e => j <= i

(* The search pager lists the entries with the query in them once each,    *)
(* by their newest use, and leaves one out only when the list is full of   *)
(* newer ones, whatever limit search_matches is given.                     *)
SearchIsExact ==
  \A q \in Query, limit \in 1..MaxMatches :
    LET found == search_matches(nav.history, q, limit)
        hits == {e \in ToSet(nav.history) : Matches(q, e)}
    IN /\ ToSet(found) \subseteq hits
       /\ \A i, j \in DOMAIN found :
            i < j => NewestUse(found[i]) > NewestUse(found[j])
       /\ \A e \in hits \ ToSet(found) :
            /\ Len(found) = limit
            /\ \A f \in ToSet(found) : NewestUse(f) > NewestUse(e)

(* t is s, with other elements in between. *)
Keeps(s, t) ==
  \E at \in [DOMAIN s -> DOMAIN t] :
    /\ \A i \in DOMAIN s : t[at[i]] = s[i]
    /\ \A i, j \in DOMAIN s : i < j => at[i] < at[j]

(* What can be recalled and has a row. *)
Saved == IF unsaved THEN Front(nav.history) ELSE nav.history

(* What could be recalled before the end of a session, orderly or not, can *)
(* be recalled after the next start, in the same order, less as many of    *)
(* the oldest as the table holds beyond max_history.  Only an entry whose  *)
(* row could not be written is lost, and it was never run.                 *)
RecallSurvivesRestart ==
  [][session_id' # session_id =>
       LET gone == Len(commands) - Len(nav'.history)
       IN Keeps(SubSeq(Saved, gone + 1, Len(Saved)), nav'.history)]_vars

=============================================================================
