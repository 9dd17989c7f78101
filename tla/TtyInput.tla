------------------------------ MODULE TtyInput ------------------------------
(***************************************************************************)
(* The way of a key from the terminal to the event loop: the decoder of    *)
(* lib/tty_listener.ml, which the event loop may cancel at any read, and   *)
(* get_cursor_position of lib/terminal_session.ml, which asks the terminal *)
(* for the cursor and reads the answer from the same bytes.                *)
(*                                                                         *)
(* The decoder reads the file descriptor byte by byte; get_cursor_position *)
(* reads it through OCaml's buffered channel, and puts what is not the     *)
(* answer in pending_input, which the decoder reads first.  What the       *)
(* channel holds behind the answer stays there until the next question.    *)
(*                                                                         *)
(* A byte knows which key it was sent for, and which byte of that key it   *)
(* is; the program never looks at that.  The digits of a parameter are one *)
(* byte.  A hang-up of the terminal (end of file) is not modelled.         *)
(***************************************************************************)
EXTENDS Integers, SequencesExt

CONSTANTS Keys,     \* what the user types
          MaxKeys,  \* keys typed
          MaxBytes, \* MaxBytes[n]: bytes sent for n keys
          MaxAsk    \* questions for the cursor

(* What a terminal sends for a key.  Enter stands for the keys of one byte *)
(* that is neither "[" nor a letter, which are the bytes the sequences are *)
(* made of, and Escape followed by "[" sends what Alt-[ does.              *)
Sent ==
  [Enter |-> <<"CR">>, Wide |-> <<"lead", "cont">>, Escape |-> <<"ESC">>,
   Bracket |-> <<"[">>, LetterO |-> <<"O">>,
   AltBracket |-> <<"ESC", "[">>, AltO |-> <<"ESC", "O">>,
   NextWord |-> <<"ESC", "f">>,
   Up |-> <<"ESC", "[", "A">>, AppUp |-> <<"ESC", "O", "A">>,
   Delete |-> <<"ESC", "[", "3", "~">>,
   Paste |-> <<"ESC", "[", "200", "~", "ESC", "c", "ESC", "[", "201", "~">>]

(* The answer to a question for the cursor. *)
Report == <<"ESC", "[", "row;col", "R">>

ASSUME TtyAssumption ==
  /\ Keys \subseteq DOMAIN Sent
  /\ {MaxKeys, MaxAsk} \subseteq Nat \ {0}
  /\ MaxBytes \in [1..MaxKeys -> Nat]

VARIABLES typed,         \* the keys typed, in order
          wire,          \* bytes on the way to this machine
          tty,           \* bytes at the file descriptor
          channel,       \* bytes read ahead by OCaml's channel stdin
          pending_input, \* bytes get_cursor_position has put aside
          ui,            \* "asking", "draining", "loop", or lent:
                         \* "passthrough", "choosing"
          ask,           \* the question for the cursor
          decoder,       \* the key being read
          out,           \* observer: the keys the event loop got, without
                         \* what is made of bytes of cut keys only
          cut,           \* observer: keys a cancel, a flush, a timeout or
                         \* another program took bytes of
          held,          \* observer: keys with bytes left in the channel
          torn           \* observer: what was left ended inside a key

channel_left == <<held, torn>>
vars == <<typed, wire, tty, channel, pending_input, ui, ask, decoder, out,
          cut, channel_left>>

Chars(bytes) == [i \in DOMAIN bytes |-> bytes[i].ch]
KeysOf(bytes) == {b.key : b \in ToSet(bytes)}
BytesOf(chars, k) ==
  [i \in DOMAIN chars |->
    [ch |-> chars[i], key |-> k, nth |-> i, last |-> i = Len(chars)]]

(* The report belongs to no key. *)
NoKey == 0

(* The keys of which some end nowhere: Alt-[ and Alt-O, in one keystroke   *)
(* or in two, begin a sequence that takes from the keys behind it.         *)
OpensCsi(k) ==
  \/ typed[k] = "AltBracket"
  \/ k > 1 /\ typed[k - 1] = "Escape" /\ typed[k] = "Bracket"
OpensSs3(k) ==
  \/ typed[k] = "AltO"
  \/ k > 1 /\ typed[k - 1] = "Escape" /\ typed[k] = "LetterO"

Start == [at |-> "start", read |-> <<>>, text |-> <<>>, acc |-> <<>>]

Init ==
  /\ typed = <<>> /\ wire = <<>> /\ tty = <<>> /\ channel = <<>>
  /\ pending_input = <<>>
  /\ ui = "asking"
  /\ ask = [at |-> "loop", buf |-> <<>>, times |-> 1, sent |-> TRUE,
            answered |-> NoKey]
  /\ decoder = Start
  /\ out = <<>> /\ cut = {} /\ held = {} /\ torn = FALSE

is_csi_final_byte(c) == c \in {"A", "R", "O", "c", "f", "~"}

Closing == {k \in DOMAIN Sent : \E c \in ToSet(Sent[k]) : is_csi_final_byte(c)}

(* Behind key k a sequence is still waiting for its end. *)
Unclosed(k) ==
  \E i \in 1..k :
    OpensCsi(i) /\ \A j \in (i + 1)..k : typed[j] \notin Closing

-----------------------------------------------------------------------------
(* The terminal. *)

(* The bound on the bytes leaves room for another key. *)
Room(k) ==
  MaxBytes[Len(typed) + 1] >=
    FoldLeft(LAMBDA n, t : n + Len(Sent[t]), Len(Sent[k]), typed)

Press ==
  /\ Len(typed) < MaxKeys
  /\ \E k \in Keys :
       /\ Room(k)
       /\ typed' = Append(typed, k)
       /\ wire' = wire \o BytesOf(Sent[k], Len(typed) + 1)
  /\ UNCHANGED <<tty, channel, pending_input, ui, ask, decoder, out, cut,
                 channel_left>>

(* The terminal answers after the keys it has sent so far. *)
Answer ==
  /\ ask.sent
  /\ wire' = wire \o BytesOf(Report, NoKey)
  /\ ask' = [ask EXCEPT !.sent = FALSE, !.answered = Len(typed)]
  /\ UNCHANGED <<typed, tty, channel, pending_input, ui, decoder, out, cut,
                 channel_left>>

Arrive ==
  /\ wire # <<>>
  /\ tty' = Append(tty, Head(wire))
  /\ wire' = Tail(wire)
  /\ UNCHANGED <<typed, channel, pending_input, ui, ask, decoder, out, cut,
                 channel_left>>

-----------------------------------------------------------------------------
(* tty_listener.ml *)

Key(kind, text) == [kind |-> kind, text |-> text]

(* read_byte: what was put aside comes first. *)
NextByte ==
  IF pending_input # <<>> THEN {Head(pending_input)}
  ELSE IF tty # <<>> THEN {Head(tty)} ELSE {}

pop_prefetched ==
  IF pending_input # <<>>
  THEN pending_input' = Tail(pending_input) /\ UNCHANGED tty
  ELSE tty' = Tail(tty) /\ UNCHANGED pending_input

(* The decoder reads on. *)
Go(state, read) ==
  /\ decoder' = [state EXCEPT !.read = read]
  /\ UNCHANGED <<out, cut>>

Deliver(key, read) ==
  out' = IF KeysOf(read) \subseteq cut THEN out
         ELSE Append(out, [key |-> key, from |-> read])

(* The fiber that reads a key ends.  A response that arrives in the same   *)
(* turn wins over a key that had to wait for a byte.                       *)
Return(key, read) ==
  /\ decoder' = Start
  /\ \/ /\ Deliver(key, read)
        /\ UNCHANGED cut
     \/ /\ ui = "loop" /\ pending_input = <<>>
        /\ cut' = cut \cup KeysOf(read)
        /\ UNCHANGED out

await_input(b, read) ==
  /\ decoder.at = "start"
  /\ CASE b.ch = "ESC" -> Go([decoder EXCEPT !.at = "esc"], read)
       [] b.ch = "CR" -> Return(Key("Enter", <<>>), read)
       [] b.ch = "lead" -> Go([decoder EXCEPT !.at = "utf8"], read)
       [] OTHER -> Return(Key("Char", <<b.ch>>), read)

(* Whatever follows is taken as the continuation. *)
read_utf8_char(b, read) ==
  /\ decoder.at = "utf8"
  /\ Return(Key("Char", Chars(read)), read)

parse_escape(b, read) ==
  /\ decoder.at = "esc"
  /\ CASE b.ch = "[" -> Go([decoder EXCEPT !.at = "csi"], read)
       [] b.ch = "O" -> Go([decoder EXCEPT !.at = "ss3"], read)
       [] b.ch = "f" -> Return(Key("Other", <<"next word">>), read)
       [] OTHER -> Return(Key("Unknown", Chars(read)), read)

parse_csi_sequence(b, read) ==
  LET params == SubSeq(Chars(read), 3, Len(read) - 1) IN
  /\ decoder.at = "csi"
  /\ CASE ~is_csi_final_byte(b.ch) -> Go(decoder, read)
       [] b.ch = "A" -> Return(Key("Up", <<>>), read)
       [] b.ch = "~" /\ params = <<"3">> -> Return(Key("Delete", <<>>), read)
       [] b.ch = "~" /\ params = <<"200">> ->
            Go([decoder EXCEPT !.at = "paste"], read)
       [] OTHER -> Return(Key("Unknown", Chars(read)), read)

parse_ss3_sequence(b, read) ==
  /\ decoder.at = "ss3"
  /\ IF b.ch = "A" THEN Return(Key("Up", <<>>), read)
     ELSE Return(Key("Unknown", Chars(read)), read)

(* acc is what may become the end marker; a byte that does not fit turns   *)
(* it, with the byte, into text.                                           *)
read_bracketed_paste(b, read) ==
  LET expected == <<"ESC", "[", "201", "~">>
      next == Append(decoder.acc, b.ch)
  IN /\ decoder.at \in {"paste", "check_end"}
     /\ CASE decoder.at = "paste" /\ b.ch # "ESC" ->
               Go([decoder EXCEPT !.text = Append(@, b.ch)], read)
          [] next = expected -> Return(Key("Paste", decoder.text), read)
          [] next # expected /\ IsPrefix(next, expected) ->
               Go([decoder EXCEPT !.at = "check_end", !.acc = next], read)
          [] OTHER ->
               Go([decoder EXCEPT !.at = "paste", !.acc = <<>>,
                                  !.text = @ \o next], read)

read_byte ==
  /\ ui \in {"draining", "loop"}
  /\ \E b \in NextByte :
       LET read == Append(decoder.read, b) IN
         \/ await_input(b, read)
         \/ read_utf8_char(b, read)
         \/ parse_escape(b, read)
         \/ parse_csi_sequence(b, read)
         \/ parse_ss3_sequence(b, read)
         \/ read_bracketed_paste(b, read)
  /\ pop_prefetched
  /\ UNCHANGED <<typed, wire, channel, ui, ask, channel_left>>

(* Only the byte behind an ESC, and behind ESC O, is not waited for. *)
read_byte_timeout ==
  /\ ui \in {"draining", "loop"}
  /\ decoder.at \in {"esc", "ss3"}
  /\ NextByte = {}
  /\ LET key == IF decoder.at = "esc" THEN Key("Escape", <<>>)
                ELSE Key("Unknown", Chars(decoder.read))
     IN Deliver(key, decoder.read)
  /\ decoder' = Start
  /\ cut' = cut \cup {b.key : b \in {c \in ToSet(decoder.read) : ~c.last}}
  /\ UNCHANGED <<typed, wire, tty, channel, pending_input, ui, ask,
                 channel_left>>

-----------------------------------------------------------------------------
(* The event loop of main.ml. *)

(* A response, an answer of the AI or a resize cancels the fiber that      *)
(* reads a key, with the bytes it has read.  A fiber that finds its bytes  *)
(* in pending_input does not wait, and cannot be cancelled.                *)
Respond ==
  /\ ui = "loop" /\ pending_input = <<>>
  /\ decoder.read # <<>>
  /\ cut' = cut \cup KeysOf(decoder.read)
  /\ decoder' = Start
  /\ UNCHANGED <<typed, wire, tty, channel, pending_input, ui, ask, out,
                 channel_left>>

(* The keys that came in during the start are read before the loop begins. *)
drain_to_keys ==
  /\ ui = "draining" /\ decoder = Start /\ NextByte = {}
  /\ ui' = "loop"
  /\ UNCHANGED <<typed, wire, tty, channel, pending_input, ask, decoder, out,
                 cut, channel_left>>

AskPosition ==
  /\ ui' = "asking"
  /\ ask' = [ask EXCEPT !.times = @ + 1, !.sent = TRUE]

(* Between two turns of the loop: output was written, or Ctrl-C makes a    *)
(* new model.                                                              *)
print_repl_output ==
  /\ ui = "loop" /\ decoder = Start
  /\ ask.times < MaxAsk
  /\ AskPosition
  /\ UNCHANGED <<typed, wire, tty, channel, pending_input, decoder, out, cut,
                 channel_left>>

(* tcsetattr with TCSAFLUSH throws away what has not been read. *)
Flush ==
  /\ tty' = <<>>
  /\ cut' = cut \cup KeysOf(tty)

(* The terminal is lent to a command of R, after a response, or to a file  *)
(* chooser, after a key.                                                   *)
Lend(to) ==
  /\ ui = "loop" /\ decoder = Start
  /\ ui' = to
  /\ Flush
  /\ UNCHANGED <<typed, wire, channel, pending_input, ask, decoder, out,
                 channel_left>>

enter_passthrough ==
  /\ pending_input = <<>> /\ ask.times < MaxAsk
  /\ Lend("passthrough")

(* What the other program has read is gone, like what is flushed. *)
Passthrough_end ==
  /\ ui = "passthrough"
  /\ Flush
  /\ AskPosition
  /\ UNCHANGED <<typed, wire, channel, pending_input, decoder, out,
                 channel_left>>

choose_file == Lend("choosing")

choose_file_end ==
  /\ ui = "choosing"
  /\ ui' = "loop"
  /\ Flush
  /\ UNCHANGED <<typed, wire, channel, pending_input, ask, decoder, out,
                 channel_left>>

-----------------------------------------------------------------------------
(* get_cursor_position *)

(* input_char with nothing in the channel: read(2) takes what is there. *)
Refill ==
  /\ ui = "asking" /\ channel = <<>> /\ tty # <<>>
  /\ channel' = tty
  /\ tty' = <<>>
  /\ UNCHANGED <<typed, wire, pending_input, ui, ask, decoder, out, cut,
                 channel_left>>

(* read_csi_sequence has come to its end. *)
response_is_whole(bytes) ==
  Len(bytes) > 2 /\ is_csi_final_byte(Last(bytes).ch)

parse_cursor_position_response(bytes) == Chars(bytes) = Report

(* Back to the top of loop, with bytes put aside. *)
enqueue_pending(bytes) ==
  /\ pending_input' = pending_input \o bytes
  /\ ask' = [ask EXCEPT !.at = "loop", !.buf = <<>>]
  /\ UNCHANGED <<ui, channel_left>>

Collect(state, buf) ==
  /\ ask' = [ask EXCEPT !.at = state, !.buf = buf]
  /\ UNCHANGED <<pending_input, ui, channel_left>>

EndsKey(b) ==
  /\ b.last /\ b.ch # "ESC"
  /\ b.key # NoKey => ~OpensSs3(b.key) /\ ~Unclosed(b.key)

(* The position is known; whatever is in the channel stays there. *)
Found ==
  /\ ask' = [ask EXCEPT !.at = "loop", !.buf = <<>>]
  /\ ui' = IF ask.times = 1 THEN "draining" ELSE "loop"
  /\ held' = held \cup KeysOf(Tail(channel))
  /\ torn' = (torn \/ (Len(channel) > 1 /\ ~EndsKey(Last(channel))))
  /\ UNCHANGED pending_input

(* Variant: a sequence that is not the answer is dropped. *)
loop_dropping(b, buf) ==
  CASE ask.at = "loop" /\ b.ch = "ESC" -> Collect("esc", buf)
    [] ask.at = "esc" /\ b.ch = "[" -> Collect("csi", buf)
    [] ask.at = "csi" /\ ~response_is_whole(buf) -> Collect("csi", buf)
    [] ask.at = "csi" /\ parse_cursor_position_response(buf) -> Found
    [] ask.at = "csi" /\ response_is_whole(buf)
         /\ ~parse_cursor_position_response(buf) -> enqueue_pending(<<>>)
    [] OTHER -> enqueue_pending(buf)

(* Variant: one reader for both kinds of sequence. *)
loop_one_reader(b, buf) ==
  CASE ask.at = "loop" /\ b.ch = "ESC" -> Collect("esc", buf)
    [] ask.at = "esc" /\ b.ch \in {"[", "O"} -> Collect("csi", buf)
    [] ask.at = "csi" /\ ~response_is_whole(buf) -> Collect("csi", buf)
    [] ask.at = "csi" /\ parse_cursor_position_response(buf) -> Found
    [] OTHER -> enqueue_pending(buf)

loop(b, buf) ==
  CASE ask.at = "loop" /\ b.ch = "ESC" -> Collect("esc", buf)
    [] ask.at = "esc" /\ b.ch = "[" -> Collect("csi", buf)
    [] ask.at = "csi" /\ ~response_is_whole(buf) -> Collect("csi", buf)
    [] ask.at = "csi" /\ parse_cursor_position_response(buf) -> Found
    [] OTHER -> enqueue_pending(buf)

input_char ==
  /\ ui = "asking" /\ channel # <<>>
  /\ channel' = Tail(channel)
  /\ loop(Head(channel), Append(ask.buf, Head(channel)))
  /\ UNCHANGED <<typed, wire, tty, decoder, out, cut>>

-----------------------------------------------------------------------------
Next ==
  \/ Press \/ Answer \/ Arrive
  \/ read_byte \/ read_byte_timeout
  \/ Respond \/ drain_to_keys \/ print_repl_output
  \/ enter_passthrough \/ Passthrough_end
  \/ choose_file \/ choose_file_end
  \/ Refill \/ input_char

Spec == Init /\ [][Next]_vars

(* The terminal answers and its bytes arrive; the main thread runs. *)
FairSpec ==
  /\ Spec
  /\ WF_vars(Answer) /\ WF_vars(Arrive)
  /\ WF_vars(Refill) /\ WF_vars(input_char)

-----------------------------------------------------------------------------
(* What each key means. *)
Meaning(k) ==
  CASE k = "Wide" -> Key("Char", <<"lead", "cont">>)
    [] k = "Bracket" -> Key("Char", <<"[">>)
    [] k = "LetterO" -> Key("Char", <<"O">>)
    [] k = "NextWord" -> Key("Other", <<"next word">>)
    [] k = "AppUp" -> Key("Up", <<>>)
    [] k = "Paste" -> Key("Paste", <<"ESC", "c">>)
    [] OTHER -> Key(k, <<>>)

(* A key nothing has touched, that is not behind a lone Escape (the        *)
(* decoder takes ESC and the next byte as one key) nor behind a sequence   *)
(* that Alt-[ or Alt-O has begun (with the keys between them gone, or left *)
(* in the channel), and is no beginning of one itself.  parse_csi_sequence *)
(* waits for the end without a timeout.                                    *)
Clean(k) ==
  /\ k \notin cut
  /\ k > 1 => typed[k - 1] # "Escape"
  /\ \A j \in 1..(k - 1) :
       OpensSs3(j) => ~ \A i \in (j + 1)..(k - 1) : i \in held \cup cut
  /\ ~Unclosed(k - 1)
  /\ typed[k] = "Escape" => k = Len(typed)
  /\ typed[k] \notin {"AltBracket", "AltO"}

(* Through cancelled reads, timeouts, questions for the cursor and         *)
(* passthrough, the damage of a cut key is its own: every other key comes  *)
(* out as what it means, made of all its bytes and of no others, once, and *)
(* before any later key, unless it was left in the channel.  (Until what   *)
(* is left in the channel ends inside a key, which may then join any       *)
(* other.)                                                                 *)
TypedIsDecoded ==
  ~torn =>
    \A k \in DOMAIN typed : Clean(k) =>
      \A i \in DOMAIN out :
        /\ k \in KeysOf(out[i].from) =>
             /\ out[i].key = Meaning(typed[k])
             /\ out[i].from = BytesOf(Sent[typed[k]], k)
             /\ \A h \in DOMAIN out : k \in KeysOf(out[h].from) => h = i
        /\ k \notin held /\ (\E j \in KeysOf(out[i].from) : j > k) =>
             \E h \in 1..(i - 1) : k \in KeysOf(out[h].from)

(* get_cursor_position returns whatever is typed around the answer, unless *)
(* an ESC that ends a key or was torn from one came directly before it, or *)
(* a sequence that Alt-[ began was still waiting for its end: then that    *)
(* ESC, or that sequence, and the report are taken together, and the user  *)
(* interface waits for an answer it has already read.                      *)
CursorReportIsSeen ==
  (ui = "asking") ~> \/ ui # "asking"
                     \/ torn
                     \/ ask.answered # NoKey /\ typed[ask.answered] = "Escape"
                     \/ Unclosed(ask.answered)
=============================================================================
