----------------------------- MODULE TextEditor -----------------------------
(***************************************************************************)
(* lib/text_editor.ml and the coordinates of lib/frontend_types.ml: what   *)
(* each edit does to the prompt's lines and its cursor.                    *)
(*                                                                         *)
(* A line is its number of grapheme clusters, a text its lines and the     *)
(* cursor (0-based, as in the code).  What an edit does may depend on the  *)
(* characters around the cursor; those operators return the set of texts   *)
(* that some characters lead to.  Clusters are one column wide and are not *)
(* joined by what is put next to them.                                     *)
(***************************************************************************)
EXTENDS Integers, Sequences

Text == [lines : Seq(Nat), cursor_line : Int, cursor_pos : Int]

Blank == [lines |-> <<0>>, cursor_line |-> 0, cursor_pos |-> 0]

Smaller(a, b) == IF a < b THEN a ELSE b
Larger(a, b) == IF a < b THEN b ELSE a

current_line(t) == t.lines[t.cursor_line + 1]

at_line_start(t) == t.cursor_pos = 0
at_line_end(t) == t.cursor_pos >= current_line(t)
at_first_line(t) == t.cursor_line = 0
at_last_line(t) == t.cursor_line >= Len(t.lines) - 1
prompt_is_empty(t) == t.lines = <<0>>
is_empty_input(t) == t.lines = <<0>>

At(t, line, pos) == [t EXCEPT !.cursor_line = line, !.cursor_pos = pos]

(* update_line of the current line, and the cursor in it *)
SetLine(t, len, pos) ==
  [t EXCEPT !.lines[t.cursor_line + 1] = len, !.cursor_pos = pos]

(* The current line replaced by a list of lines *)
Splice(t, inserted) ==
  SubSeq(t.lines, 1, t.cursor_line) \o inserted
    \o SubSeq(t.lines, t.cursor_line + 2, Len(t.lines))

-----------------------------------------------------------------------------
(* Moving *)

move_left(t) ==
  IF ~at_line_start(t) THEN At(t, t.cursor_line, t.cursor_pos - 1)
  ELSE IF ~at_first_line(t) THEN At(t, t.cursor_line - 1, t.lines[t.cursor_line])
  ELSE t

move_right(t) ==
  IF ~at_line_end(t) THEN At(t, t.cursor_line, t.cursor_pos + 1)
  ELSE IF ~at_last_line(t) THEN At(t, t.cursor_line + 1, 0)
  ELSE t

go_to_line_start(t) == At(t, t.cursor_line, 0)
go_to_line_end(t) == At(t, t.cursor_line, current_line(t))
move_cursor_to_end(t) == At(t, Len(t.lines) - 1, t.lines[Len(t.lines)])

(* As far as the first end of a word, which may be anywhere on the line. *)
go_to_next_word(t) ==
  {At(t, t.cursor_line, p) : p \in t.cursor_pos..Larger(t.cursor_pos, current_line(t))}
go_to_last_word(t) == {At(t, t.cursor_line, p) : p \in 0..t.cursor_pos}

(* Wrapping puts clusters width*r .. width*(r+1)-1 on the line's row r, and  *)
(* the position after a full last row on a row of its own.                 *)
column(width, pos) == pos % width
row_start(width, pos) == pos - column(width, pos)

(* The place in column col, or where the row ends, of the row that starts  *)
(* at cluster start of a line of len clusters.                             *)
on_row(width, start, len, col) == start + Smaller(col, Smaller(width, len - start))

move_up(t, width, col) ==
  LET start == row_start(width, t.cursor_pos)
      above == t.lines[t.cursor_line]
  IN  IF start > 0
      THEN At(t, t.cursor_line, on_row(width, start - width, current_line(t), col))
      ELSE IF ~at_first_line(t)
      THEN At(t, t.cursor_line - 1,
              on_row(width, row_start(width, above), above, col))
      ELSE t

(* Variant: the row after a full last row is not one of the line's. *)
move_down_short(t, width, col) ==
  LET start == row_start(width, t.cursor_pos)
  IN  IF start + width < current_line(t)
      THEN At(t, t.cursor_line, on_row(width, start + width, current_line(t), col))
      ELSE IF ~at_last_line(t)
      THEN At(t, t.cursor_line + 1, on_row(width, 0, t.lines[t.cursor_line + 2], col))
      ELSE t

move_down(t, width, col) ==
  LET start == row_start(width, t.cursor_pos)
  IN  IF start + width <= current_line(t)
      THEN At(t, t.cursor_line, on_row(width, start + width, current_line(t), col))
      ELSE IF ~at_last_line(t)
      THEN At(t, t.cursor_line + 1, on_row(width, 0, t.lines[t.cursor_line + 2], col))
      ELSE t

-----------------------------------------------------------------------------
(* Editing *)

insert_char(t) == SetLine(t, current_line(t) + 1, t.cursor_pos + 1)

(* Variant: the start of the line is not looked at. *)
delete_char_unchecked(t) == SetLine(t, current_line(t) - 1, t.cursor_pos - 1)

delete_char(t) ==
  IF ~at_line_start(t) THEN SetLine(t, current_line(t) - 1, t.cursor_pos - 1)
  ELSE IF at_first_line(t) THEN t
  ELSE LET above == t.lines[t.cursor_line]
           up == [t EXCEPT !.lines = Splice(t, <<>>), !.cursor_line = @ - 1]
       IN  SetLine(up, above + current_line(t), above)

insert_newline(t) ==
  [lines |-> Splice(t, <<t.cursor_pos, current_line(t) - t.cursor_pos>>),
   cursor_line |-> t.cursor_line + 1, cursor_pos |-> 0]

(* Spaces typed by the program *)
insert_spaces(count, t) ==
  SetLine(t, current_line(t) + count, t.cursor_pos + count)

(* Variant: the cursor goes as far as the last pasted line does in one line. *)
insert_paste_far(t, paste) ==
  LET n == Len(paste)
      after == current_line(t) - t.cursor_pos
      inserted == IF n = 1
                  THEN <<t.cursor_pos + paste[1] + after>>
                  ELSE <<t.cursor_pos + paste[1]>> \o SubSeq(paste, 2, n - 1)
                         \o <<paste[n] + after>>
  IN  [lines |-> Splice(t, inserted),
       cursor_line |-> t.cursor_line + n - 1,
       cursor_pos |-> t.cursor_pos + paste[n]]

(* paste: the lengths of the pasted lines, at least one *)
insert_paste(t, paste) ==
  LET n == Len(paste)
      after == current_line(t) - t.cursor_pos
      inserted == IF n = 1
                  THEN <<t.cursor_pos + paste[1] + after>>
                  ELSE <<t.cursor_pos + paste[1]>> \o SubSeq(paste, 2, n - 1)
                         \o <<paste[n] + after>>
  IN  [lines |-> Splice(t, inserted),
       cursor_line |-> t.cursor_line + n - 1,
       cursor_pos |-> IF n = 1 THEN t.cursor_pos + paste[1] ELSE paste[n]]

(* A character, a pair around the cursor, or a step over a closing one *)
user_input_char(t) ==
  {insert_char(t), move_left(insert_char(insert_char(t)))}
    \cup (IF at_line_end(t) THEN {} ELSE {move_right(t)})

(* A character or an empty pair around the cursor *)
user_input_delete(t) ==
  {delete_char(t)}
    \cup (IF at_line_start(t) \/ at_line_end(t) THEN {}
          ELSE {delete_char(delete_char(move_right(t)))})

delete_before_cursor(t) ==
  IF at_line_start(t) THEN delete_char(t)
  ELSE SetLine(t, current_line(t) - t.cursor_pos, 0)

delete_char_after_cursor(t) ==
  IF move_right(t) = t THEN t ELSE delete_char(move_right(t))

(* Clusters from..to-1 of the line replaced by len others; from may be off *)
(* the line on either side.                                                *)
replace_range(t, from, to, len) ==
  LET start == Larger(0, from)
      end == Larger(start, to)
      before == Smaller(start, current_line(t))
      after == current_line(t) - Smaller(end, current_line(t))
  IN  SetLine(t, before + len + after, start + len)

replace_token(t, token_start, len) == replace_range(t, token_start, t.cursor_pos, len)

=============================================================================
