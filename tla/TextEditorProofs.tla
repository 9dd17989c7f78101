-------------------------- MODULE TextEditorProofs --------------------------
(***************************************************************************)
(* What the operators of TextEditor do to texts of any size: every edit    *)
(* and every motion keeps a cursor that is inside the text inside it, and  *)
(* Up and Down undo each other at every width.                             *)
(***************************************************************************)
EXTENDS TextEditor, SequenceTheorems, TLAPS

(* A text of at least one line. *)
SomeText == [lines : Seq(Nat) \ {<<>>}, cursor_line : Nat, cursor_pos : Nat]

(* assert_model_invariants, of a text that is edited: the cursor is inside. *)
Inside(t) ==
  /\ t \in SomeText
  /\ t.cursor_line + 1 \in 1..Len(t.lines)
  /\ t.cursor_pos <= current_line(t)

(* What is known of the parts of such a text. *)
LEMMA InsideParts ==
  ASSUME NEW t, Inside(t)
  PROVE  /\ t \in SomeText
         /\ t.lines \in Seq(Nat) /\ t.lines # <<>>
         /\ Len(t.lines) \in Nat /\ Len(t.lines) >= 1
         /\ t.cursor_line \in Nat /\ t.cursor_line + 1 \in 1..Len(t.lines)
         /\ t.cursor_pos \in Nat /\ current_line(t) \in Nat
         /\ t.cursor_pos <= current_line(t)
         /\ \A i \in 1..Len(t.lines) : t.lines[i] \in Nat
BY DEF Inside, SomeText, current_line

-----------------------------------------------------------------------------
(* The building blocks *)

(* The empty prompt *)
LEMMA BlankInside == Inside(Blank)
<1>1. <<0>> \in Seq(Nat) /\ <<0>> # <<>> /\ Len(<<0>>) = 1 /\ <<0>>[1] = 0
  OBVIOUS
<1> QED  BY <1>1 DEF Blank, Inside, SomeText, current_line

(* Texts with the same parts are the same. *)
LEMMA SameText ==
  ASSUME NEW t \in SomeText, NEW u \in SomeText, t.lines = u.lines,
         t.cursor_line = u.cursor_line, t.cursor_pos = u.cursor_pos
  PROVE  t = u
BY DEF SomeText

(* The cursor put on another place, and nothing else *)
LEMMA AtParts ==
  ASSUME NEW t \in SomeText, NEW l \in Nat, NEW p \in Nat
  PROVE  /\ At(t, l, p) \in SomeText
         /\ At(t, l, p).lines = t.lines
         /\ At(t, l, p).cursor_line = l /\ At(t, l, p).cursor_pos = p
BY DEF At, SomeText

(* A place of the text *)
LEMMA AtInside ==
  ASSUME NEW t, Inside(t), NEW l \in Nat, NEW p \in Nat, l + 1 \in 1..Len(t.lines),
         p <= t.lines[l + 1]
  PROVE  Inside(At(t, l, p))
<1>1. t \in SomeText
  BY DEF Inside
<1>2. /\ At(t, l, p) \in SomeText
      /\ At(t, l, p).lines = t.lines
      /\ At(t, l, p).cursor_line = l /\ At(t, l, p).cursor_pos = p
  BY <1>1, AtParts
<1> QED  BY <1>2 DEF Inside, current_line

(* The current line with another length *)
LEMMA SetLineParts ==
  ASSUME NEW t \in SomeText, t.cursor_line + 1 \in 1..Len(t.lines),
         NEW n \in Nat, NEW p \in Nat
  PROVE  /\ SetLine(t, n, p) \in SomeText
         /\ Len(SetLine(t, n, p).lines) = Len(t.lines)
         /\ SetLine(t, n, p).cursor_line = t.cursor_line
         /\ SetLine(t, n, p).cursor_pos = p
         /\ current_line(SetLine(t, n, p)) = n
<1> DEFINE s == [t.lines EXCEPT ![t.cursor_line + 1] = n]
<1>1. t.lines \in Seq(Nat) /\ t.lines # <<>> /\ t.cursor_line + 1 \in DOMAIN t.lines
  BY DEF SomeText
<1>2. s \in Seq(Nat) /\ Len(s) = Len(t.lines) /\ s[t.cursor_line + 1] = n
  BY <1>1
<1>3. s # <<>>
  BY <1>1, <1>2
<1>4. SetLine(t, n, p) = [t EXCEPT !.lines = s, !.cursor_pos = p]
  BY DEF SetLine, SomeText
<1>5. SetLine(t, n, p) = [lines |-> s, cursor_line |-> t.cursor_line, cursor_pos |-> p]
  BY <1>4 DEF SomeText
<1> HIDE DEF s
<1> QED  BY <1>2, <1>3, <1>5 DEF SomeText, current_line, s

(* A line that the cursor fits in *)
LEMMA SetLineInside ==
  ASSUME NEW t \in SomeText, t.cursor_line + 1 \in 1..Len(t.lines),
         NEW n \in Nat, NEW p \in Nat, p <= n
  PROVE  Inside(SetLine(t, n, p))
<1>1. /\ SetLine(t, n, p) \in SomeText
      /\ Len(SetLine(t, n, p).lines) = Len(t.lines)
      /\ SetLine(t, n, p).cursor_line = t.cursor_line
      /\ SetLine(t, n, p).cursor_pos = p
      /\ current_line(SetLine(t, n, p)) = n
  BY SetLineParts
<1> QED  BY <1>1 DEF Inside

(* What is before and what is behind an element of a sequence, with others  *)
(* in its place                                                             *)
LEMMA Replaced ==
  ASSUME NEW s \in Seq(Nat), NEW k \in Nat, k < Len(s), NEW new \in Seq(Nat)
  PROVE  LET r == SubSeq(s, 1, k) \o new \o SubSeq(s, k + 2, Len(s)) IN
         /\ r \in Seq(Nat)
         /\ Len(r) = Len(s) - 1 + Len(new)
         /\ \A i \in 1..k : r[i] = s[i]
         /\ \A i \in 1..Len(new) : r[k + i] = new[i]
<1> DEFINE a == SubSeq(s, 1, k)
           b == SubSeq(s, k + 2, Len(s))
           c == a \o new
           r == c \o b
<1>1. Len(s) \in Nat /\ Len(new) \in Nat
  OBVIOUS
<1>2. a \in Seq(Nat) /\ Len(a) = k /\ \A i \in 1..k : a[i] = s[i]
  <2>1. \A i \in 1..k : s[i] \in Nat
    BY <1>1
  <2> QED  BY <1>1, <2>1, SubSeqProperties
<1>3. b \in Seq(Nat) /\ Len(b) = Len(s) - 1 - k
  <2>1. \A i \in (k + 2)..Len(s) : s[i] \in Nat
    BY <1>1
  <2> QED  BY <1>1, <2>1, SubSeqProperties
<1> HIDE DEF a, b
<1>0. c = a \o new /\ r = c \o b
  OBVIOUS
<1> HIDE DEF c, r
<1>4. /\ c \in Seq(Nat) /\ Len(c) = k + Len(new)
      /\ \A i \in 1..k : c[i] = s[i]
      /\ \A i \in 1..Len(new) : c[k + i] = new[i]
  <2>1. /\ c \in Seq(Nat) /\ Len(c) = Len(a) + Len(new)
        /\ \A i \in 1..(Len(a) + Len(new)) :
             c[i] = IF i <= Len(a) THEN a[i] ELSE new[i - Len(a)]
    BY <1>0, <1>2, ConcatProperties
  <2>2. ASSUME NEW i \in 1..k PROVE c[i] = s[i]
    <3>1. i \in 1..(Len(a) + Len(new)) /\ i <= Len(a)
      BY <1>1, <1>2
    <3> QED  BY <1>2, <2>1, <3>1
  <2>3. ASSUME NEW i \in 1..Len(new) PROVE c[k + i] = new[i]
    <3>1. k + i \in 1..(Len(a) + Len(new)) /\ ~(k + i <= Len(a)) /\ k + i - Len(a) = i
      BY <1>1, <1>2
    <3>2. \A j \in 1..(Len(a) + Len(new)) : ~(j <= Len(a)) => c[j] = new[j - Len(a)]
      BY <2>1
    <3>3. c[k + i] = new[k + i - Len(a)]
      BY <3>1, <3>2
    <3> QED  BY <3>1, <3>3
  <2> QED  BY <1>2, <2>1, <2>2, <2>3
<1>6. /\ r \in Seq(Nat) /\ Len(r) = Len(c) + Len(b)
      /\ \A i \in 1..(Len(c) + Len(b)) : r[i] = IF i <= Len(c) THEN c[i] ELSE b[i - Len(c)]
  <2>1. b \in Seq(Nat) /\ c \in Seq(Nat)
    BY <1>3, <1>4
  <2> QED  BY <1>0, <2>1, ConcatProperties
<1>7. \A i \in 1..(k + Len(new)) : r[i] = c[i]
  <2> SUFFICES ASSUME NEW i \in 1..(k + Len(new)) PROVE r[i] = c[i]
    OBVIOUS
  <2>1. i \in 1..(Len(c) + Len(b)) /\ i <= Len(c)
    BY <1>1, <1>3, <1>4
  <2> QED  BY <1>6, <2>1
<1>8. /\ r \in Seq(Nat) /\ Len(r) = Len(s) - 1 + Len(new)
      /\ \A i \in 1..k : r[i] = s[i]
      /\ \A i \in 1..Len(new) : r[k + i] = new[i]
  <2>1. Len(r) = Len(s) - 1 + Len(new)
    BY <1>1, <1>3, <1>4, <1>6
  <2>2. \A i \in 1..k : r[i] = s[i]
    BY <1>1, <1>4, <1>7
  <2>3. ASSUME NEW i \in 1..Len(new) PROVE r[k + i] = new[i]
    <3>1. k + i \in 1..(k + Len(new))
      BY <1>1
    <3> QED  BY <1>4, <1>7, <3>1
  <2> QED  BY <1>6, <2>1, <2>2, <2>3
<1> QED  BY <1>8 DEF r, c, b, a

(* Lines in the place of the current one *)
LEMMA SpliceParts ==
  ASSUME NEW t, Inside(t), NEW new \in Seq(Nat)
  PROVE  /\ Splice(t, new) \in Seq(Nat)
         /\ Len(Splice(t, new)) = Len(t.lines) - 1 + Len(new)
         /\ \A i \in 1..t.cursor_line : Splice(t, new)[i] = t.lines[i]
         /\ \A i \in 1..Len(new) : Splice(t, new)[t.cursor_line + i] = new[i]
<1>1. t.lines \in Seq(Nat) /\ t.cursor_line \in Nat /\ t.cursor_line < Len(t.lines)
  BY InsideParts
<1> QED  BY <1>1, Replaced DEF Splice

-----------------------------------------------------------------------------
(* Moving *)

(* The motions along a line *)
LEMMA MovesInside ==
  ASSUME NEW t, Inside(t)
  PROVE  /\ Inside(move_left(t)) /\ Inside(move_right(t))
         /\ Inside(go_to_line_start(t)) /\ Inside(go_to_line_end(t))
         /\ \A u \in go_to_next_word(t) \cup go_to_last_word(t) : Inside(u)
<1>1. /\ t.cursor_line \in Nat /\ t.cursor_line + 1 \in 1..Len(t.lines)
      /\ t.cursor_pos \in Nat /\ current_line(t) \in Nat
      /\ t.cursor_pos <= current_line(t) /\ Len(t.lines) \in Nat
      /\ \A i \in 1..Len(t.lines) : t.lines[i] \in Nat
      /\ current_line(t) = t.lines[t.cursor_line + 1]
  BY InsideParts DEF current_line
<1>2. \A p \in 0..current_line(t) : Inside(At(t, t.cursor_line, p))
  BY <1>1, AtInside
<1>3. Inside(move_left(t))
  <2>1. CASE ~at_line_start(t)
    BY <1>1, <1>2, <2>1 DEF move_left, at_line_start
  <2>2. CASE at_line_start(t) /\ ~at_first_line(t)
    <3>1. t.cursor_line - 1 \in Nat /\ t.cursor_line \in 1..Len(t.lines)
      BY <1>1, <2>2 DEF at_first_line
    <3>2. Inside(At(t, t.cursor_line - 1, t.lines[t.cursor_line]))
      BY <1>1, <3>1, AtInside
    <3> QED  BY <2>2, <3>2 DEF move_left
  <2> QED  BY <2>1, <2>2 DEF move_left
<1>4. Inside(move_right(t))
  <2>1. CASE ~at_line_end(t)
    BY <1>1, <1>2, <2>1 DEF move_right, at_line_end
  <2>2. CASE at_line_end(t) /\ ~at_last_line(t)
    <3>1. t.cursor_line + 1 \in Nat /\ t.cursor_line + 1 + 1 \in 1..Len(t.lines)
      BY <1>1, <2>2 DEF at_last_line
    <3>2. Inside(At(t, t.cursor_line + 1, 0))
      BY <1>1, <3>1, AtInside
    <3> QED  BY <2>2, <3>2 DEF move_right
  <2> QED  BY <2>1, <2>2 DEF move_right
<1>5. Inside(go_to_line_start(t)) /\ Inside(go_to_line_end(t))
  BY <1>1, <1>2 DEF go_to_line_start, go_to_line_end
<1>6. \A u \in go_to_next_word(t) \cup go_to_last_word(t) : Inside(u)
  BY <1>1, <1>2 DEF go_to_next_word, go_to_last_word, Larger
<1> QED  BY <1>3, <1>4, <1>5, <1>6

(* The end of a text, wherever its cursor was *)
LEMMA EndInside ==
  ASSUME NEW t \in SomeText
  PROVE  Inside(move_cursor_to_end(t))
<1>1. t.lines \in Seq(Nat) /\ Len(t.lines) \in Nat /\ Len(t.lines) >= 1
  BY DEF SomeText
<1>2. t.lines[Len(t.lines)] \in Nat /\ t.lines # <<>> /\ Len(t.lines) - 1 \in Nat
      /\ Len(t.lines) - 1 + 1 = Len(t.lines)
  BY <1>1 DEF SomeText
<1>3. /\ move_cursor_to_end(t) \in SomeText
      /\ move_cursor_to_end(t).lines = t.lines
      /\ move_cursor_to_end(t).cursor_line = Len(t.lines) - 1
      /\ move_cursor_to_end(t).cursor_pos = t.lines[Len(t.lines)]
  BY <1>2, AtParts DEF move_cursor_to_end
<1> QED  BY <1>1, <1>2, <1>3 DEF Inside, current_line

(* Remainders: what is known of one, and that it is the only one. *)
LEMMA Remainder ==
  ASSUME NEW x \in Nat, NEW w \in Nat \ {0}
  PROVE  /\ x % w \in 0..(w - 1)
         /\ x \div w \in Nat
         /\ x = w * (x \div w) + (x % w)
OBVIOUS

(* A multiple of w with something smaller than w added to it *)
LEMMA RemainderIsOne ==
  ASSUME NEW q \in Nat, NEW w \in Nat \ {0}, NEW r \in 0..(w - 1)
  PROVE  (w * q + r) % w = r
<1> DEFINE x == w * q + r
<1>1. x \in Nat
  OBVIOUS
<1>2. /\ x % w \in 0..(w - 1) /\ x \div w \in Nat
      /\ x = w * (x \div w) + (x % w)
  BY <1>1, Remainder
<1> DEFINE d == x \div w
           m == x % w
<1> HIDE DEF d, m
<1>3. d \in Nat /\ m \in 0..(w - 1) /\ w * q + r = w * d + m
  BY <1>2 DEF d, m
<1>4. w * (q - d) = m - r
  BY <1>3
<1>5. CASE q - d >= 1
  <2>1. w * (q - d) >= w
    BY <1>3, <1>5
  <2> QED  BY <1>3, <1>4, <2>1
<1>6. CASE q - d <= -1
  <2>1. w * (d - q) >= w
    BY <1>3, <1>6
  <2>2. w * (d - q) = r - m
    BY <1>3
  <2> QED  BY <1>3, <2>1, <2>2
<1>7. CASE q = d
  BY <1>3, <1>7 DEF m
<1> QED  BY <1>3, <1>5, <1>6, <1>7

(* Where rows start: the row that holds cluster p. *)
LEMMA Rows ==
  ASSUME NEW w \in Nat \ {0}, NEW p \in Nat
  PROVE  /\ column(w, p) \in 0..(w - 1)
         /\ row_start(w, p) \in Nat
         /\ p = row_start(w, p) + column(w, p)
         /\ \E q \in Nat : row_start(w, p) = w * q
         /\ row_start(w, p) > 0 => row_start(w, p) >= w
         /\ row_start(w, p) <= p
<1>1. /\ p % w \in 0..(w - 1) /\ p \div w \in Nat
      /\ p = w * (p \div w) + (p % w)
  BY Remainder
<1> DEFINE q == p \div w
<1> HIDE DEF q
<1>2. row_start(w, p) = w * q /\ q \in Nat
  BY <1>1 DEF row_start, column, q
<1>3. row_start(w, p) > 0 => row_start(w, p) >= w
  <2> SUFFICES ASSUME w * q > 0 PROVE w * q >= w
    BY <1>2
  <2>1. q >= 1
    BY <1>2
  <2> QED  BY <1>2, <2>1
<1>4. w * q \in Nat
  BY <1>2
<1> QED  BY <1>1, <1>2, <1>3, <1>4 DEF row_start, column

(* One row further up *)
LEMMA RowAbove ==
  ASSUME NEW w \in Int, NEW q \in Int
  PROVE  w * (q - 1) = (w * q) - w
OBVIOUS

(* A place less than w behind a start of a row is on that row. *)
LEMMA OnTheRow ==
  ASSUME NEW w \in Nat \ {0}, NEW q \in Nat, NEW r \in 0..(w - 1)
  PROVE  row_start(w, w * q + r) = w * q /\ column(w, w * q + r) = r
BY RemainderIsOne DEF row_start, column

(* The row a line ends on, of the rows of width w, is the last to start. *)
LEMMA LastRow ==
  ASSUME NEW w \in Nat \ {0}, NEW q \in Nat, NEW n \in Nat,
         w * q <= n, n < w * q + w
  PROVE  row_start(w, n) = w * q
<1>1. n - w * q \in 0..(w - 1) /\ n = w * q + (n - w * q)
  OBVIOUS
<1> QED  BY <1>1, OnTheRow

(* A place on a row of a line is on the line, in the column or at the end   *)
(* of the row.                                                              *)
LEMMA OnRow ==
  ASSUME NEW w \in Nat \ {0}, NEW start \in Nat, NEW len \in Nat, start <= len,
         NEW col \in Nat
  PROVE  /\ on_row(w, start, len, col) \in Nat
         /\ on_row(w, start, len, col) >= start
         /\ on_row(w, start, len, col) <= len
         /\ col <= w /\ start + col <= len => on_row(w, start, len, col) = start + col
         /\ len - start <= col /\ len - start <= w => on_row(w, start, len, col) = len
         /\ on_row(w, start, len, col) <= start + col
BY DEF on_row, Smaller

(* Up and Down, in whatever column *)
LEMMA VerticalInside ==
  ASSUME NEW t, Inside(t), NEW w \in Nat \ {0}, NEW col \in Nat
  PROVE  Inside(move_up(t, w, col)) /\ Inside(move_down(t, w, col))
<1> DEFINE start == row_start(w, t.cursor_pos)
           len == current_line(t)
<1>1. /\ t.cursor_line \in Nat /\ t.cursor_line + 1 \in 1..Len(t.lines)
      /\ t.cursor_pos \in Nat /\ len \in Nat
      /\ t.cursor_pos <= len /\ Len(t.lines) \in Nat
      /\ \A i \in 1..Len(t.lines) : t.lines[i] \in Nat
      /\ len = t.lines[t.cursor_line + 1]
  BY InsideParts DEF current_line
<1>2. start \in Nat /\ start <= t.cursor_pos /\ (start > 0 => start >= w)
  <2>1. t.cursor_pos \in Nat
    BY <1>1
  <2> QED  BY <2>1, Rows
<1> HIDE DEF start, len
<1>3. Inside(move_up(t, w, col))
  <2>1. CASE start > 0
    <3>1. start - w \in Nat /\ start - w <= len
      BY <1>1, <1>2, <2>1
    <3>2. on_row(w, start - w, len, col) \in Nat /\ on_row(w, start - w, len, col) <= len
      BY <1>1, <3>1, OnRow
    <3>3. Inside(At(t, t.cursor_line, on_row(w, start - w, len, col)))
      BY <1>1, <3>2, AtInside
    <3> QED  BY <2>1, <3>3 DEF move_up, start, len
  <2>2. CASE ~(start > 0) /\ ~at_first_line(t)
    <3> DEFINE above == t.lines[t.cursor_line]
    <3>0. t.cursor_line - 1 \in Nat /\ t.cursor_line \in 1..Len(t.lines)
          /\ t.cursor_line - 1 + 1 = t.cursor_line
      BY <1>1, <2>2 DEF at_first_line
    <3>1. above \in Nat
      BY <1>1, <3>0
    <3>2. row_start(w, above) \in Nat /\ row_start(w, above) <= above
      BY <3>1, Rows
    <3> DEFINE p == on_row(w, row_start(w, above), above, col)
    <3>3. p \in Nat /\ p <= above
      BY <3>1, <3>2, OnRow
    <3> HIDE DEF p
    <3>4. Inside(At(t, t.cursor_line - 1, p))
      BY <3>0, <3>1, <3>3, AtInside
    <3> QED  BY <2>2, <3>4 DEF move_up, start, p
  <2> QED  BY <2>1, <2>2 DEF move_up, start
<1>4. Inside(move_down(t, w, col))
  <2>1. CASE start + w <= len
    <3>1. start + w \in Nat
      BY <1>2
    <3>2. on_row(w, start + w, len, col) \in Nat /\ on_row(w, start + w, len, col) <= len
      BY <1>1, <2>1, <3>1, OnRow
    <3>3. Inside(At(t, t.cursor_line, on_row(w, start + w, len, col)))
      BY <1>1, <3>2, AtInside
    <3> QED  BY <2>1, <3>3 DEF move_down, start, len
  <2>2. CASE ~(start + w <= len) /\ ~at_last_line(t)
    <3> DEFINE below == t.lines[t.cursor_line + 2]
    <3>0. t.cursor_line + 1 \in Nat /\ t.cursor_line + 2 \in 1..Len(t.lines)
          /\ t.cursor_line + 1 + 1 = t.cursor_line + 2
      BY <1>1, <2>2 DEF at_last_line
    <3>1. below \in Nat
      BY <1>1, <3>0
    <3> DEFINE p == on_row(w, 0, below, col)
    <3>2. 0 \in Nat /\ 0 <= below
      BY <3>1
    <3>3. p \in Nat /\ p <= below
      BY <3>1, <3>2, OnRow
    <3> HIDE DEF p
    <3>4. Inside(At(t, t.cursor_line + 1, p))
      BY <3>0, <3>1, <3>3, AtInside
    <3> QED  BY <2>2, <3>4 DEF move_down, start, len, p
  <2> QED  BY <2>1, <2>2 DEF move_down, start, len
<1> QED  BY <1>3, <1>4

-----------------------------------------------------------------------------
(* Editing *)

(* Typing, and the program's spaces *)
LEMMA InsertInside ==
  ASSUME NEW t, Inside(t), NEW count \in Nat
  PROVE  Inside(insert_char(t)) /\ Inside(insert_spaces(count, t))
<1>1. /\ t \in SomeText /\ t.cursor_line + 1 \in 1..Len(t.lines)
      /\ t.cursor_pos \in Nat /\ current_line(t) \in Nat
      /\ t.cursor_pos <= current_line(t)
  BY InsideParts
<1>2. /\ current_line(t) + 1 \in Nat /\ t.cursor_pos + 1 \in Nat
      /\ t.cursor_pos + 1 <= current_line(t) + 1
      /\ current_line(t) + count \in Nat /\ t.cursor_pos + count \in Nat
      /\ t.cursor_pos + count <= current_line(t) + count
  BY <1>1
<1> QED  BY <1>1, <1>2, SetLineInside DEF insert_char, insert_spaces

(* Backspace, also where two lines become one *)
LEMMA DeleteInside ==
  ASSUME NEW t, Inside(t)
  PROVE  Inside(delete_char(t))
<1>1. /\ t \in SomeText /\ t.cursor_line + 1 \in 1..Len(t.lines)
      /\ t.cursor_line \in Nat
      /\ t.cursor_pos \in Nat /\ current_line(t) \in Nat
      /\ t.cursor_pos <= current_line(t) /\ Len(t.lines) \in Nat
      /\ \A i \in 1..Len(t.lines) : t.lines[i] \in Nat
  BY InsideParts
<1>2. CASE ~at_line_start(t)
  <2>1. /\ current_line(t) - 1 \in Nat /\ t.cursor_pos - 1 \in Nat
        /\ t.cursor_pos - 1 <= current_line(t) - 1
    BY <1>1, <1>2 DEF at_line_start
  <2> QED  BY <1>1, <1>2, <2>1, SetLineInside DEF delete_char
<1>3. CASE at_line_start(t) /\ ~at_first_line(t)
  <2> DEFINE above == t.lines[t.cursor_line]
             up == [t EXCEPT !.lines = Splice(t, <<>>), !.cursor_line = @ - 1]
  <2>1. t.cursor_line \in 1..Len(t.lines) /\ above \in Nat /\ Len(t.lines) >= 2
        /\ t.cursor_line - 1 \in Nat
    BY <1>1, <1>3 DEF at_first_line
  <2>2. Splice(t, <<>>) \in Seq(Nat) /\ Len(Splice(t, <<>>)) = Len(t.lines) - 1
    <3>1. <<>> \in Seq(Nat) /\ Len(<<>>) = 0
      OBVIOUS
    <3>2. Splice(t, <<>>) \in Seq(Nat)
          /\ Len(Splice(t, <<>>)) = Len(t.lines) - 1 + Len(<<>>)
      BY <3>1, SpliceParts
    <3> QED  BY <1>1, <3>1, <3>2
  <2>3. Splice(t, <<>>) # <<>>
    BY <1>1, <2>1, <2>2
  <2>4. up \in SomeText /\ up.lines = Splice(t, <<>>) /\ up.cursor_line = t.cursor_line - 1
    BY <1>1, <2>1, <2>2, <2>3 DEF SomeText
  <2> HIDE DEF up, above
  <2>5. up.cursor_line + 1 \in 1..Len(up.lines)
    BY <1>1, <2>1, <2>2, <2>4
  <2>6. above + current_line(t) \in Nat /\ above <= above + current_line(t)
    BY <1>1, <2>1
  <2>7. Inside(SetLine(up, above + current_line(t), above))
    BY <2>1, <2>4, <2>5, <2>6, SetLineInside
  <2> QED  BY <1>3, <2>7 DEF delete_char, up, above
<1> QED  BY <1>2, <1>3 DEF delete_char

(* A line cut in two *)
LEMMA NewlineInside ==
  ASSUME NEW t, Inside(t)
  PROVE  /\ Inside(insert_newline(t))
         /\ insert_newline(t).cursor_line = t.cursor_line + 1
<1>1. /\ t.cursor_line \in Nat /\ t.cursor_line + 1 \in 1..Len(t.lines)
      /\ t.cursor_pos \in Nat /\ current_line(t) \in Nat
      /\ t.cursor_pos <= current_line(t) /\ Len(t.lines) \in Nat
  BY InsideParts
<1> DEFINE new == <<t.cursor_pos, current_line(t) - t.cursor_pos>>
           s == Splice(t, new)
<1>2. new \in Seq(Nat) /\ Len(new) = 2 /\ new[2] = current_line(t) - t.cursor_pos
  BY <1>1
<1> HIDE DEF new
<1>3. s \in Seq(Nat) /\ Len(s) = Len(t.lines) - 1 + 2 /\ s[t.cursor_line + 2] = new[2]
  <2>1. /\ s \in Seq(Nat) /\ Len(s) = Len(t.lines) - 1 + Len(new)
        /\ \A i \in 1..Len(new) : s[t.cursor_line + i] = new[i]
    BY <1>2, SpliceParts
  <2> QED  BY <1>2, <2>1
<1> HIDE DEF s
<1>4. insert_newline(t) = [lines |-> s, cursor_line |-> t.cursor_line + 1, cursor_pos |-> 0]
  BY DEF insert_newline, s, new
<1>5. /\ t.cursor_line + 1 \in Nat /\ t.cursor_line + 1 + 1 = t.cursor_line + 2
      /\ t.cursor_line + 2 \in 1..Len(s) /\ Len(s) # 0
  <2>1. Len(s) = Len(t.lines) + 1
    BY <1>1, <1>3
  <2> QED  BY <1>1, <2>1
<1>6. s # <<>> /\ s[t.cursor_line + 2] \in Nat
  BY <1>3, <1>5
<1> QED  BY <1>3, <1>4, <1>5, <1>6 DEF Inside, SomeText, current_line

(* A paste of one line or of more *)
LEMMA PasteInside ==
  ASSUME NEW t, Inside(t), NEW paste \in Seq(Nat), paste # <<>>
  PROVE  Inside(insert_paste(t, paste))
<1>1. /\ t.cursor_line \in Nat /\ t.cursor_line + 1 \in 1..Len(t.lines)
      /\ t.cursor_pos \in Nat /\ current_line(t) \in Nat
      /\ t.cursor_pos <= current_line(t) /\ Len(t.lines) \in Nat
  BY InsideParts
<1> DEFINE n == Len(paste)
           after == current_line(t) - t.cursor_pos
           new == IF n = 1
                  THEN <<t.cursor_pos + paste[1] + after>>
                  ELSE <<t.cursor_pos + paste[1]>> \o SubSeq(paste, 2, n - 1)
                         \o <<paste[n] + after>>
           pos == IF n = 1 THEN t.cursor_pos + paste[1] ELSE paste[n]
           s == Splice(t, new)
<1>2. paste \in Seq(Nat) /\ n \in Nat /\ n >= 1 /\ after \in Nat
      /\ \A i \in 1..n : paste[i] \in Nat
  BY <1>1
<1> HIDE DEF n, after
<1>8. n \in Nat /\ n >= 1 /\ after \in Nat /\ t.cursor_pos \in Nat
  BY <1>1, <1>2
<1>9. /\ t.cursor_line \in Nat /\ Len(t.lines) \in Nat
      /\ t.cursor_line + 1 \in 1..Len(t.lines)
  BY <1>1
<1>3. new \in Seq(Nat) /\ Len(new) = n /\ pos \in Nat /\ pos <= new[n]
  <2>1. CASE n = 1
    <3>1. paste[1] \in Nat /\ t.cursor_pos + paste[1] \in Nat
          /\ t.cursor_pos + paste[1] + after \in Nat
          /\ t.cursor_pos + paste[1] <= t.cursor_pos + paste[1] + after
      BY <1>2, <1>8
    <3>2. new = <<t.cursor_pos + paste[1] + after>> /\ pos = t.cursor_pos + paste[1]
      BY <2>1
    <3> HIDE DEF new, pos
    <3>3. new \in Seq(Nat) /\ Len(new) = 1 /\ new[1] = t.cursor_pos + paste[1] + after
      BY <3>1, <3>2
    <3> QED  BY <2>1, <3>1, <3>2, <3>3
  <2>2. CASE n # 1
    <3> DEFINE a == <<t.cursor_pos + paste[1]>>
               b == SubSeq(paste, 2, n - 1)
               c == <<paste[n] + after>>
               ab == a \o b
               abc == ab \o c
    <3>1. a \in Seq(Nat) /\ Len(a) = 1 /\ c \in Seq(Nat) /\ Len(c) = 1
          /\ c[1] = paste[n] + after
      <4>1. t.cursor_pos + paste[1] \in Nat /\ paste[n] + after \in Nat
        <5>1. paste[1] \in Nat /\ paste[n] \in Nat
          BY <1>2
        <5> QED  BY <1>8, <5>1
      <4> QED  BY <4>1
    <3>2. b \in Seq(Nat) /\ Len(b) = n - 2
      <4>1. \A i \in 2..(n - 1) : paste[i] \in Nat
        BY <1>2
      <4> QED  BY <1>2, <2>2, <4>1, SubSeqProperties
    <3>3. ab = a \o b /\ abc = ab \o c
      OBVIOUS
    <3>4. new = abc /\ pos = paste[n]
      BY <2>2
    <3> HIDE DEF a, b, c, ab, abc, new, pos
    <3>5. ab \in Seq(Nat) /\ Len(ab) = n - 1
      <4>1. ab \in Seq(Nat) /\ Len(ab) = Len(a) + Len(b)
        BY <3>1, <3>2, <3>3, ConcatProperties
      <4> QED  BY <1>2, <3>1, <3>2, <4>1
    <3>6. abc \in Seq(Nat) /\ Len(abc) = Len(ab) + Len(c)
          /\ \A i \in 1..(Len(ab) + Len(c)) :
               abc[i] = IF i <= Len(ab) THEN ab[i] ELSE c[i - Len(ab)]
      BY <3>1, <3>3, <3>5, ConcatProperties
    <3>7. Len(abc) = n /\ abc[n] = c[1]
      <4>1. n \in 1..(Len(ab) + Len(c)) /\ ~(n <= Len(ab)) /\ n - Len(ab) = 1
        BY <1>2, <3>1, <3>5
      <4>2. abc[n] = c[n - Len(ab)]
        BY <3>6, <4>1
      <4> QED  BY <1>2, <3>1, <3>5, <3>6, <4>1, <4>2
    <3>8. paste[n] \in Nat /\ paste[n] <= paste[n] + after
      BY <1>2
    <3> QED  BY <3>1, <3>4, <3>6, <3>7, <3>8
  <2> QED  BY <2>1, <2>2
<1> HIDE DEF new, pos
<1>4. s \in Seq(Nat) /\ Len(s) = Len(t.lines) - 1 + n /\ s[t.cursor_line + n] = new[n]
  <2>1. n \in 1..Len(new)
    BY <1>2, <1>3
  <2> QED  BY <1>3, <2>1, SpliceParts
<1> HIDE DEF s
<1>5. insert_paste(t, paste) =
        [lines |-> s, cursor_line |-> t.cursor_line + n - 1, cursor_pos |-> pos]
  BY DEF insert_paste, s, new, pos, n, after
<1>6. /\ t.cursor_line + n - 1 \in Nat
      /\ t.cursor_line + n - 1 + 1 = t.cursor_line + n
      /\ t.cursor_line + n \in 1..Len(s) /\ Len(s) # 0
  <2>1. Len(s) = Len(t.lines) - 1 + n
    BY <1>4
  <2>2. t.cursor_line + n - 1 \in Nat
    BY <1>8, <1>9
  <2>3. t.cursor_line + n - 1 + 1 = t.cursor_line + n
    BY <1>8, <1>9
  <2>4. t.cursor_line + n <= Len(s)
    BY <1>8, <1>9, <2>1
  <2>5. t.cursor_line + n >= 1
    BY <1>8, <1>9
  <2>6. Len(s) # 0
    BY <1>8, <1>9, <2>1
  <2>7. Len(s) \in Nat /\ t.cursor_line + n \in Nat
    BY <1>8, <1>9, <2>1
  <2> QED  BY <2>2, <2>3, <2>4, <2>5, <2>6, <2>7
<1>7. s # <<>> /\ pos <= s[t.cursor_line + n]
  BY <1>3, <1>4, <1>6
<1> DEFINE l == t.cursor_line + n - 1
<1> HIDE DEF l
<1>10. /\ s \in Seq(Nat) /\ s # <<>> /\ l \in Nat /\ pos \in Nat
       /\ l + 1 \in 1..Len(s) /\ pos <= s[l + 1]
       /\ insert_paste(t, paste) = [lines |-> s, cursor_line |-> l, cursor_pos |-> pos]
  BY <1>3, <1>4, <1>5, <1>6, <1>7 DEF l
<1> QED  BY <1>10 DEF Inside, SomeText, current_line

(* What keys make of these *)
LEMMA KeysInside ==
  ASSUME NEW t, Inside(t)
  PROVE  /\ \A u \in user_input_char(t) : Inside(u)
         /\ \A u \in user_input_delete(t) : Inside(u)
         /\ Inside(delete_before_cursor(t))
         /\ Inside(delete_char_after_cursor(t))
<1>1. Inside(insert_char(t)) /\ Inside(move_left(insert_char(insert_char(t))))
  <2>1. Inside(insert_char(t))
    BY InsertInside
  <2>2. Inside(insert_char(insert_char(t)))
    BY <2>1, InsertInside
  <2> QED  BY <2>1, <2>2, MovesInside
<1>2. Inside(move_right(t)) /\ Inside(delete_char(t))
  BY MovesInside, DeleteInside
<1>3. Inside(delete_char(move_right(t))) /\ Inside(delete_char(delete_char(move_right(t))))
  BY <1>2, DeleteInside
<1>4. Inside(delete_before_cursor(t))
  <2>1. /\ t \in SomeText /\ t.cursor_line + 1 \in 1..Len(t.lines)
        /\ t.cursor_pos \in Nat /\ current_line(t) \in Nat
        /\ t.cursor_pos <= current_line(t)
    BY InsideParts
  <2>2. current_line(t) - t.cursor_pos \in Nat /\ 0 <= current_line(t) - t.cursor_pos
    BY <2>1
  <2>3. Inside(SetLine(t, current_line(t) - t.cursor_pos, 0))
    BY <2>1, <2>2, SetLineInside
  <2> QED  BY <1>2, <2>3 DEF delete_before_cursor
<1> QED  BY <1>1, <1>2, <1>3, <1>4 DEF user_input_char, user_input_delete,
            delete_char_after_cursor

(* A range replaced: the text is a text whatever the range, and the cursor  *)
(* is inside it if the range does not begin behind the line.                *)
LEMMA ReplaceKeeps ==
  ASSUME NEW t, Inside(t), NEW from \in Int, NEW to \in Int, NEW len \in Nat
  PROVE  /\ replace_range(t, from, to, len) \in SomeText
         /\ from <= current_line(t) => Inside(replace_range(t, from, to, len))
<1> DEFINE start == Larger(0, from)
           end == Larger(start, to)
           before == Smaller(start, current_line(t))
           after == current_line(t) - Smaller(end, current_line(t))
<1>1. /\ t \in SomeText /\ t.cursor_line + 1 \in 1..Len(t.lines)
      /\ current_line(t) \in Nat
  BY InsideParts
<1>2. /\ before + len + after \in Nat /\ start + len \in Nat
      /\ from <= current_line(t) => start + len <= before + len + after
  BY <1>1 DEF Larger, Smaller
<1>3. replace_range(t, from, to, len) = SetLine(t, before + len + after, start + len)
  BY DEF replace_range
<1> HIDE DEF start, end, before, after
<1>4. SetLine(t, before + len + after, start + len) \in SomeText
  BY <1>1, <1>2, SetLineParts
<1>5. from <= current_line(t) => Inside(SetLine(t, before + len + after, start + len))
  BY <1>1, <1>2, SetLineInside
<1> QED  BY <1>3, <1>4, <1>5

-----------------------------------------------------------------------------
(* Up and Down *)

(* The cursor put back where it was *)
LEMMA BackAt ==
  ASSUME NEW t \in SomeText, NEW u \in SomeText, u.lines = t.lines
  PROVE  At(u, t.cursor_line, t.cursor_pos) = t
<1>1. t.cursor_line \in Nat /\ t.cursor_pos \in Nat
  BY DEF SomeText
<1> DEFINE v == At(u, t.cursor_line, t.cursor_pos)
<1>2. /\ v \in SomeText /\ v.lines = u.lines
      /\ v.cursor_line = t.cursor_line /\ v.cursor_pos = t.cursor_pos
  <2> DEFINE l == t.cursor_line
             p == t.cursor_pos
  <2>1. l \in Nat /\ p \in Nat
    BY <1>1
  <2> HIDE DEF l, p
  <2>2. /\ At(u, l, p) \in SomeText /\ At(u, l, p).lines = u.lines
        /\ At(u, l, p).cursor_line = l /\ At(u, l, p).cursor_pos = p
    BY <2>1, AtParts
  <2> QED  BY <2>2 DEF l, p
<1> HIDE DEF v
<1>3. v = t
  BY <1>2, SameText
<1> QED  BY <1>3 DEF v

(* Down after an Up that moved the cursor, in the column it started in *)
LEMMA DownAfterUp ==
  ASSUME NEW t, Inside(t), NEW w \in Nat \ {0},
         move_up(t, w, column(w, t.cursor_pos)) # t
  PROVE  move_down(move_up(t, w, column(w, t.cursor_pos)), w, column(w, t.cursor_pos)) = t
<1> DEFINE k == t.cursor_line
           pos == t.cursor_pos
           start == row_start(w, pos)
           col == column(w, pos)
           len == current_line(t)
           u == move_up(t, w, col)
<1>0. /\ t \in SomeText /\ k \in Nat /\ k + 1 \in 1..Len(t.lines)
      /\ Len(t.lines) \in Nat /\ \A i \in 1..Len(t.lines) : t.lines[i] \in Nat
      /\ len = t.lines[k + 1]
  BY InsideParts DEF current_line
<1>1. pos \in Nat /\ len \in Nat /\ pos <= len
  BY InsideParts
<1>2. /\ col \in 0..(w - 1) /\ start \in Nat /\ pos = start + col
      /\ start > 0 => start >= w
  BY <1>1, Rows
<1>3. PICK q \in Nat : start = w * q
  BY <1>1, Rows
<1> HIDE DEF k, pos, start, col, len
<1>4. CASE start > 0
  <2> DEFINE p == on_row(w, start - w, len, col)
  <2>1. start - w \in Nat /\ start - w <= len /\ col \in Nat /\ col <= w
        /\ start - w + col <= len
    BY <1>1, <1>2, <1>4
  <2>2. p = start - w + col
    <3> DEFINE s == start - w
    <3> HIDE DEF s
    <3>1. s \in Nat /\ s <= len /\ col \in Nat /\ col <= w /\ s + col <= len
      BY <2>1 DEF s
    <3>2. on_row(w, s, len, col) = s + col
      BY <1>1, <3>1, OnRow
    <3> QED  BY <3>2 DEF s
  <2> HIDE DEF p
  <2>3. u = At(t, k, p)
    BY <1>4 DEF move_up, k, pos, start, len, p
  <2>4. p \in Nat
    BY <2>1, <2>2
  <2>5. u \in SomeText /\ u.lines = t.lines /\ u.cursor_line = k /\ u.cursor_pos = p
    <3> HIDE DEF u
    <3>1. t \in SomeText /\ k \in Nat
      BY <1>0
    <3>2. /\ At(t, k, p) \in SomeText /\ At(t, k, p).lines = t.lines
          /\ At(t, k, p).cursor_line = k /\ At(t, k, p).cursor_pos = p
      BY <2>4, <3>1, AtParts
    <3> QED  BY <2>3, <3>2
  <2>6. q - 1 \in Nat /\ w * (q - 1) = start - w
    <3>1. q # 0
      BY <1>3, <1>4
    <3>2. q - 1 \in Nat
      BY <3>1
    <3>3. w * (q - 1) = (w * q) - w
      BY RowAbove
    <3> QED  BY <1>3, <3>2, <3>3
  <2>7. row_start(w, p) = start - w
    BY <1>2, <2>2, <2>6, OnTheRow
  <2> HIDE DEF u
  <2>8. current_line(u) = len
    BY <1>0, <2>5 DEF current_line
  <2>9. move_down(u, w, col) = At(u, k, on_row(w, start, len, col))
    <3>1. row_start(w, u.cursor_pos) + w = start /\ start <= len
      <4>1. u.cursor_pos = p
        BY <2>5
      <4> QED  BY <1>1, <1>2, <2>7, <4>1
    <3> QED  BY <2>5, <2>8, <3>1 DEF move_down
  <2>10. on_row(w, start, len, col) = pos
    <3>1. col \in Nat /\ col <= w /\ start + col <= len /\ start <= len
      BY <1>1, <1>2
    <3> QED  BY <1>1, <1>2, <3>1, OnRow
  <2>11. At(u, k, pos) = t
    BY <1>0, <2>5, BackAt DEF k, pos
  <2> QED  BY <2>9, <2>10, <2>11 DEF u, col, pos
<1>5. CASE ~(start > 0) /\ ~at_first_line(t)
  <2> DEFINE above == t.lines[k]
             rs == row_start(w, above)
             p == on_row(w, rs, above, col)
  <2>1. k - 1 \in Nat /\ k \in 1..Len(t.lines) /\ k - 1 + 1 = k
    BY <1>0, <1>5 DEF at_first_line, k
  <2>2. above \in Nat
    BY <1>0, <2>1
  <2> HIDE DEF above
  <2>3. /\ rs \in Nat /\ rs <= above /\ above = rs + column(w, above)
        /\ column(w, above) \in 0..(w - 1)
    BY <2>2, Rows
  <2>4. PICK r \in Nat : rs = w * r
    BY <2>2, Rows
  <2> HIDE DEF rs
  <2>5. p \in Nat /\ rs <= p /\ p <= above
    <3>1. col \in Nat
      BY <1>2
    <3> QED  BY <2>2, <2>3, <3>1, OnRow
  <2> HIDE DEF p
  <2>6. u = At(t, k - 1, p)
    BY <1>5 DEF move_up, k, pos, start, p, rs, above
  <2>7. u \in SomeText /\ u.lines = t.lines /\ u.cursor_line = k - 1 /\ u.cursor_pos = p
    <3> DEFINE l == k - 1
    <3>1. t \in SomeText /\ l \in Nat /\ p \in Nat
      BY <1>0, <2>1, <2>5
    <3>2. u = At(t, l, p)
      BY <2>6
    <3> HIDE DEF l, u
    <3>3. /\ At(t, l, p) \in SomeText /\ At(t, l, p).lines = t.lines
          /\ At(t, l, p).cursor_line = l /\ At(t, l, p).cursor_pos = p
      BY <3>1, AtParts
    <3> QED  BY <3>2, <3>3, Zenon DEF l
  <2> HIDE DEF u
  <2>8. row_start(w, p) = rs
    <3>1. w * r <= p /\ p < w * r + w
      BY <2>2, <2>3, <2>4, <2>5
    <3> QED  BY <2>4, <2>5, <3>1, LastRow
  <2>9. current_line(u) = above
    BY <2>1, <2>7 DEF current_line, above
  <2>10. ~at_last_line(u)
    BY <1>0, <2>1, <2>7 DEF at_last_line
  <2>11. move_down(u, w, col) = At(u, k, on_row(w, 0, len, col))
    <3>1. u.cursor_pos = p
      BY <2>7
    <3>2. ~(row_start(w, u.cursor_pos) + w <= current_line(u))
      BY <2>2, <2>3, <2>8, <2>9, <3>1
    <3>3. u.cursor_line + 1 = k /\ u.cursor_line + 2 = k + 1
      BY <1>0, <2>7
    <3>4. u.lines[u.cursor_line + 2] = len
      BY <1>0, <2>7, <3>3
    <3> QED  BY <2>10, <3>2, <3>3, <3>4 DEF move_down
  <2>12. on_row(w, 0, len, col) = pos
    <3>1. col \in Nat /\ col <= w /\ 0 + col <= len /\ 0 <= len /\ 0 \in Nat /\ pos = 0 + col
      BY <1>1, <1>2, <1>5
    <3> QED  BY <1>1, <3>1, OnRow
  <2>13. At(u, k, pos) = t
    BY <1>0, <2>7, BackAt DEF k, pos
  <2> QED  BY <2>11, <2>12, <2>13 DEF u, col, pos
<1>6. CASE ~(start > 0) /\ at_first_line(t)
  BY <1>6 DEF move_up, start, pos
<1> QED  BY <1>4, <1>5, <1>6

(* Up after a Down that moved the cursor, in the column it started in *)
LEMMA UpAfterDown ==
  ASSUME NEW t, Inside(t), NEW w \in Nat \ {0},
         move_down(t, w, column(w, t.cursor_pos)) # t
  PROVE  move_up(move_down(t, w, column(w, t.cursor_pos)), w, column(w, t.cursor_pos)) = t
<1> DEFINE k == t.cursor_line
           pos == t.cursor_pos
           start == row_start(w, pos)
           col == column(w, pos)
           len == current_line(t)
           u == move_down(t, w, col)
<1>0. /\ t \in SomeText /\ k \in Nat /\ k + 1 \in 1..Len(t.lines)
      /\ Len(t.lines) \in Nat /\ \A i \in 1..Len(t.lines) : t.lines[i] \in Nat
      /\ len = t.lines[k + 1]
  BY InsideParts DEF current_line
<1>1. pos \in Nat /\ len \in Nat /\ pos <= len
  BY InsideParts
<1>2. col \in 0..(w - 1) /\ start \in Nat /\ pos = start + col
  BY <1>1, Rows
<1>3. PICK q \in Nat : start = w * q
  BY <1>1, Rows
<1> HIDE DEF k, pos, start, col, len
<1>4. col \in Nat /\ col <= w /\ start + col <= len /\ start <= len
  BY <1>1, <1>2
<1>5. on_row(w, start, len, col) = pos
  BY <1>1, <1>2, <1>4, OnRow
<1>6. CASE start + w <= len
  <2> DEFINE below == start + w
             p == on_row(w, below, len, col)
  <2>1. below \in Nat /\ below > 0 /\ below - w = start /\ below <= len
    BY <1>2, <1>6
  <2>2. q + 1 \in Nat /\ w * (q + 1) = below
    BY <1>3
  <2> HIDE DEF below
  <2>3. p \in Nat /\ below <= p /\ p <= len /\ p <= below + col
    BY <1>1, <1>4, <2>1, OnRow
  <2> HIDE DEF p
  <2>4. row_start(w, p) = below
    <3>1. p < w * (q + 1) + w
      BY <1>2, <2>1, <2>2, <2>3
    <3> QED  BY <2>2, <2>3, <3>1, LastRow
  <2>5. u = At(t, k, p)
    BY <1>6 DEF move_down, k, pos, start, len, p, below
  <2>6. u \in SomeText /\ u.lines = t.lines /\ u.cursor_line = k /\ u.cursor_pos = p
    <3>1. t \in SomeText /\ k \in Nat /\ p \in Nat
      BY <1>0, <2>3
    <3> HIDE DEF u
    <3>2. /\ At(t, k, p) \in SomeText /\ At(t, k, p).lines = t.lines
          /\ At(t, k, p).cursor_line = k /\ At(t, k, p).cursor_pos = p
      BY <3>1, AtParts
    <3> QED  BY <2>5, <3>2, Zenon
  <2> HIDE DEF u
  <2>7. current_line(u) = len
    BY <1>0, <2>6 DEF current_line
  <2>8. move_up(u, w, col) = At(u, k, on_row(w, start, len, col))
    <3>1. row_start(w, u.cursor_pos) > 0 /\ row_start(w, u.cursor_pos) - w = start
      BY <2>1, <2>4, <2>6
    <3> QED  BY <2>6, <2>7, <3>1 DEF move_up
  <2>9. At(u, k, pos) = t
    BY <1>0, <2>6, BackAt DEF k, pos
  <2> QED  BY <1>5, <2>8, <2>9 DEF u, col, pos
<1>7. CASE ~(start + w <= len) /\ ~at_last_line(t)
  <2> DEFINE below == t.lines[k + 2]
             p == on_row(w, 0, below, col)
  <2>1. k + 1 \in Nat /\ k + 2 \in 1..Len(t.lines) /\ k + 1 # 0 /\ k + 1 - 1 = k
    BY <1>0, <1>7 DEF at_last_line, k
  <2>2. below \in Nat
    BY <1>0, <2>1
  <2> HIDE DEF below
  <2>3. p \in Nat /\ p < w
    <3>1. 0 \in Nat /\ 0 <= below
      BY <2>2
    <3>2. p \in Nat /\ p <= 0 + col
      BY <1>4, <2>2, <3>1, OnRow
    <3> QED  BY <1>2, <3>2
  <2> HIDE DEF p
  <2>4. row_start(w, p) = 0
    <3>1. 0 \in Nat /\ w * 0 = 0 /\ 0 <= p /\ p < 0 + w
      BY <2>3
    <3> QED  BY <2>3, <3>1, LastRow
  <2>5. row_start(w, len) = start
    <3>1. len < w * q + w /\ w * q <= len
      BY <1>1, <1>2, <1>3, <1>4, <1>7
    <3> QED  BY <1>1, <1>3, <3>1, LastRow
  <2>6. u = At(t, k + 1, p)
    BY <1>7 DEF move_down, k, pos, start, len, p, below
  <2>7. u \in SomeText /\ u.lines = t.lines /\ u.cursor_line = k + 1 /\ u.cursor_pos = p
    <3> DEFINE l == k + 1
    <3>1. t \in SomeText /\ l \in Nat /\ p \in Nat
      BY <1>0, <2>1, <2>3
    <3>2. u = At(t, l, p)
      BY <2>6
    <3> HIDE DEF l, u
    <3>3. /\ At(t, l, p) \in SomeText /\ At(t, l, p).lines = t.lines
          /\ At(t, l, p).cursor_line = l /\ At(t, l, p).cursor_pos = p
      BY <3>1, AtParts
    <3> QED  BY <3>2, <3>3, Zenon DEF l
  <2> HIDE DEF u
  <2>8. move_up(u, w, col) = At(u, k, on_row(w, start, len, col))
    <3>1. ~(row_start(w, u.cursor_pos) > 0)
      BY <2>4, <2>7
    <3>2. ~at_first_line(u) /\ u.cursor_line - 1 = k
      <4>1. u.cursor_line = k + 1
        BY <2>7
      <4>2. u.cursor_line # 0 /\ u.cursor_line - 1 = k
        <5>1. k \in Nat
          BY <1>0
        <5> QED  BY <4>1, <5>1
      <4> QED  BY <4>2, Zenon DEF at_first_line
    <3>3. u.lines[u.cursor_line] = len
      BY <1>0, <2>7
    <3> QED  BY <2>5, <3>1, <3>2, <3>3 DEF move_up
  <2>9. At(u, k, pos) = t
    BY <1>0, <2>7, BackAt DEF k, pos
  <2> QED  BY <1>5, <2>8, <2>9 DEF u, col, pos
<1>8. CASE ~(start + w <= len) /\ at_last_line(t)
  BY <1>8 DEF move_down, start, pos, len
<1> QED  BY <1>6, <1>7, <1>8

-----------------------------------------------------------------------------
(* Tab and Escape *)

(* The lines after the current one was given another length *)
LEMMA SetLineLines ==
  ASSUME NEW t \in SomeText, t.cursor_line + 1 \in 1..Len(t.lines),
         NEW n \in Nat, NEW p \in Nat
  PROVE  SetLine(t, n, p).lines = [t.lines EXCEPT ![t.cursor_line + 1] = n]
BY DEF SetLine, SomeText

(* The second of two lengths counts. *)
LEMMA SetLineTwice ==
  ASSUME NEW t \in SomeText, t.cursor_line + 1 \in 1..Len(t.lines),
         NEW n \in Nat, NEW p \in Nat, NEW m \in Nat, NEW r \in Nat
  PROVE  SetLine(SetLine(t, n, p), m, r) = SetLine(t, m, r)
<1> DEFINE u == SetLine(t, n, p)
           v == SetLine(u, m, r)
           x == SetLine(t, m, r)
           i == t.cursor_line + 1
<1>1. u \in SomeText /\ Len(u.lines) = Len(t.lines) /\ u.cursor_line = t.cursor_line
  BY SetLineParts
<1>2. u.lines = [t.lines EXCEPT ![i] = n]
  BY SetLineLines
<1>3. /\ x \in SomeText /\ x.cursor_line = t.cursor_line /\ x.cursor_pos = r
  BY SetLineParts
<1>4. x.lines = [t.lines EXCEPT ![i] = m]
  BY SetLineLines
<1> HIDE DEF u, x
<1>5. u.cursor_line + 1 \in 1..Len(u.lines) /\ u.cursor_line + 1 = i
  BY <1>1
<1>6. v \in SomeText /\ v.cursor_line = u.cursor_line /\ v.cursor_pos = r
  BY <1>1, <1>5, SetLineParts
<1>7. v.lines = [u.lines EXCEPT ![i] = m]
  BY <1>1, <1>5, SetLineLines
<1> HIDE DEF v, i
<1>8. t.lines \in Seq(Nat)
  BY DEF SomeText
<1>9. [[t.lines EXCEPT ![i] = n] EXCEPT ![i] = m] = [t.lines EXCEPT ![i] = m]
  BY <1>8
<1>10. v.lines = x.lines
  BY <1>2, <1>4, <1>7, <1>9
<1>11. v = x
  BY <1>1, <1>3, <1>6, <1>10, SameText
<1> QED  BY <1>11 DEF u, v, x

(* A line given its own length *)
LEMMA SetLineSame ==
  ASSUME NEW t, Inside(t)
  PROVE  SetLine(t, current_line(t), t.cursor_pos) = t
<1> DEFINE n == current_line(t)
           p == t.cursor_pos
           u == SetLine(t, n, p)
           i == t.cursor_line + 1
<1>1. t \in SomeText /\ t.cursor_line + 1 \in 1..Len(t.lines) /\ n \in Nat /\ p \in Nat
  BY InsideParts
<1>2. n = t.lines[i] /\ i \in 1..Len(t.lines) /\ t.lines \in Seq(Nat)
  BY <1>1 DEF current_line, SomeText
<1> HIDE DEF n, p
<1>3. /\ u \in SomeText /\ u.cursor_line = t.cursor_line /\ u.cursor_pos = p
  BY <1>1, SetLineParts
<1>4. u.lines = [t.lines EXCEPT ![i] = n]
  BY <1>1, SetLineLines
<1> HIDE DEF u, i
<1>5. u.lines = t.lines
  BY <1>2, <1>4
<1>6. u = t
  BY <1>1, <1>3, <1>5, SameText DEF p
<1> QED  BY <1>6 DEF u, n, p

(* What replace_token does to a token that begins on the line and ends at   *)
(* the cursor                                                               *)
LEMMA ReplaceTokenIs ==
  ASSUME NEW t, Inside(t), NEW from \in Nat, from <= t.cursor_pos, NEW l \in Nat
  PROVE  replace_token(t, from, l) =
           SetLine(t, from + l + (current_line(t) - t.cursor_pos), from + l)
<1>1. t.cursor_pos \in Nat /\ current_line(t) \in Nat /\ t.cursor_pos <= current_line(t)
  BY InsideParts
<1>2. /\ Larger(0, from) = from /\ Larger(from, t.cursor_pos) = t.cursor_pos
      /\ Smaller(from, current_line(t)) = from
      /\ Smaller(t.cursor_pos, current_line(t)) = t.cursor_pos
  BY <1>1 DEF Larger, Smaller
<1> QED  BY <1>2 DEF replace_token, replace_range

(* Of two labels put in one after the other the second counts. *)
LEMMA ReplaceTwice ==
  ASSUME NEW t, Inside(t), NEW from \in Nat, from <= t.cursor_pos,
         NEW l \in Nat, NEW m \in Nat
  PROVE  replace_token(replace_token(t, from, l), from, m) = replace_token(t, from, m)
<1> DEFINE after == current_line(t) - t.cursor_pos
           u == replace_token(t, from, l)
<1>1. /\ t \in SomeText /\ t.cursor_line + 1 \in 1..Len(t.lines) /\ after \in Nat
  BY InsideParts
<1>2. /\ u = SetLine(t, from + l + after, from + l)
      /\ replace_token(t, from, m) = SetLine(t, from + m + after, from + m)
  BY ReplaceTokenIs
<1> HIDE DEF after, u
<1>3. /\ from + l + after \in Nat /\ from + l \in Nat /\ from + m + after \in Nat
      /\ from + m \in Nat /\ from + l <= from + l + after /\ from <= from + l
      /\ from + l + after - (from + l) = after
  BY <1>1
<1>4. /\ Inside(u) /\ u.cursor_pos = from + l /\ current_line(u) = from + l + after
  BY <1>1, <1>2, <1>3, SetLineInside, SetLineParts
<1>5. replace_token(u, from, m) = SetLine(u, from + m + after, from + m)
  <2>1. u.cursor_pos = from + l /\ current_line(u) = from + l + after
    BY <1>4
  <2>2. from <= u.cursor_pos
    BY <1>3, <2>1
  <2>3. current_line(u) - u.cursor_pos = after
    <3> DEFINE c == current_line(u)
               d == u.cursor_pos
    <3>1. c = from + l + after /\ d = from + l
      BY <2>1
    <3> HIDE DEF c, d
    <3>2. after \in Nat
      BY <1>1
    <3>3. c - d = after
      BY <3>1, <3>2
    <3> QED  BY <3>3 DEF c, d
  <2> QED  BY <1>4, <2>2, <2>3, ReplaceTokenIs
<1>6. SetLine(u, from + m + after, from + m) = SetLine(t, from + m + after, from + m)
  BY <1>1, <1>2, <1>3, SetLineTwice
<1> QED  BY <1>2, <1>5, <1>6 DEF u

(* A token replaced by as many clusters as it has *)
LEMMA ReplaceBack ==
  ASSUME NEW t, Inside(t), NEW from \in Nat, from <= t.cursor_pos
  PROVE  replace_token(t, from, t.cursor_pos - from) = t
<1>1. t.cursor_pos \in Nat /\ current_line(t) \in Nat
  BY InsideParts
<1>2. /\ t.cursor_pos - from \in Nat /\ from + (t.cursor_pos - from) = t.cursor_pos
      /\ from + (t.cursor_pos - from) + (current_line(t) - t.cursor_pos) = current_line(t)
  BY <1>1
<1>3. replace_token(t, from, t.cursor_pos - from) = SetLine(t, current_line(t), t.cursor_pos)
  <2> DEFINE l == t.cursor_pos - from
  <2>1. l \in Nat /\ from + l = t.cursor_pos
        /\ from + l + (current_line(t) - t.cursor_pos) = current_line(t)
    BY <1>2
  <2> HIDE DEF l
  <2>2. replace_token(t, from, l) =
          SetLine(t, from + l + (current_line(t) - t.cursor_pos), from + l)
    BY <2>1, ReplaceTokenIs
  <2> QED  BY <2>1, <2>2 DEF l
<1> QED  BY <1>3, SetLineSame
=============================================================================
