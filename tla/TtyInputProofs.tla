--------------------------- MODULE TtyInputProofs ---------------------------
(***************************************************************************)
(* TypedIsDecoded for every number of keys, bytes and questions, until     *)
(* somebody types Alt-[ or Alt-O, in one keystroke or as Escape and then   *)
(* the character: a key that nothing has touched is decoded as what it     *)
(* means, from all its bytes and no others, once and in order.  What keys  *)
(* behind an open sequence become is left to the model checker.            *)
(*                                                                         *)
(* The invariant, Core, says in which order bytes are wherever they are    *)
(* (Ordered), that no byte is missing between two that are there           *)
(* (AskSets, ReadSets), and for each state of the decoder and of           *)
(* get_cursor_position which bytes of which key it has read (DecoderOK,    *)
(* AskerOK).  A lone Escape takes the first byte of the next key with it:  *)
(* PairSets keeps such pairs together in pending_input.  When an Escape    *)
(* takes the report's first byte the question never ends (Stuck).          *)
(***************************************************************************)
EXTENDS TtyInput, SequenceTheorems, TLAPS

-----------------------------------------------------------------------------
(* The keys *)

(* The keys that end with the last of their bytes: all but Alt-[ and Alt-O. *)
PlainKeys == {"Enter", "Wide", "Escape", "Bracket", "LetterO", "NextWord",
              "Up", "AppUp", "Delete", "Paste"}

(* No "[" and no "O" is typed behind an Escape. *)
Apart(T) ==
  \A k \in 1..(Len(T) - 1) : T[k] = "Escape" => T[k + 1] \notin {"Bracket", "LetterO"}

(* Nobody has typed Alt-[ or Alt-O, in one keystroke or in two. *)
NothingOpened == \A k \in DOMAIN typed : ~OpensCsi(k) /\ ~OpensSs3(k)

(* What Clean says of a key where nothing was opened. *)
Untouched(k) ==
  /\ k \notin cut
  /\ k > 1 => typed[k - 1] # "Escape"
  /\ typed[k] = "Escape" => k = Len(typed)

(* What TypedIsDecoded says of such keys. *)
Decoded ==
  ~torn =>
    \A k \in DOMAIN typed : Untouched(k) =>
      \A i \in DOMAIN out :
        /\ k \in KeysOf(out[i].from) =>
             /\ out[i].key = Meaning(typed[k])
             /\ out[i].from = BytesOf(Sent[typed[k]], k)
             /\ \A h \in DOMAIN out : k \in KeysOf(out[h].from) => h = i
        /\ k \notin held /\ (\E j \in KeysOf(out[i].from) : j > k) =>
             \E h \in 1..(i - 1) : k \in KeysOf(out[h].from)

-----------------------------------------------------------------------------
(* Bytes *)

(* The key of a byte, its place in the key, its letter, and whether it is  *)
(* the last of the key.                                                    *)
KeyOf(b) == b.key
Nth(b) == b.nth
Letter(b) == b.ch
Ends(b) == b.last = TRUE

(* With the keys T typed: the bytes of key k, or of the report. *)
CharsOf(T, k) == IF k = NoKey THEN Report ELSE Sent[T[k]]
Size(T, k) == Len(CharsOf(T, k))
Byte(T, k, n) ==
  [ch |-> CharsOf(T, k)[n], key |-> k, nth |-> n, last |-> n = Size(T, k)]
Bytes(T) == UNION {{Byte(T, k, n) : n \in 1..Size(T, k)} : k \in 0..Len(T)}
(* The first byte of a key, the ones next to a byte, and bytes m to n. *)
First(T, k) == Byte(T, k, 1)
After(T, b) == Byte(T, KeyOf(b), Nth(b) + 1)
Prior(T, b) == Byte(T, KeyOf(b), Nth(b) - 1)
Run(T, k, m, n) == [i \in 1..(n - m + 1) |-> Byte(T, k, (m + i) - 1)]

(* The byte of the key Escape. *)
IsEscape(b) == Letter(b) = "ESC" /\ Ends(b)
(* The order in which the terminal sends bytes: by keys, and the report    *)
(* behind key a.                                                           *)
Rank(a, b) ==
  IF KeyOf(b) = NoKey THEN (32 * a + 16) + Nth(b) ELSE 32 * KeyOf(b) + Nth(b)
Sorted(a, s) == \A i, j \in DOMAIN s : i < j => Rank(a, s[i]) < Rank(a, s[j])
Before(a, S, Q) == \A b \in S, c \in Q : Rank(a, b) < Rank(a, c)

(* A key that may be without its first bytes: it is one of X, or the       *)
(* Escape before it takes one.                                             *)
Spoilt(T, X, k) == k # NoKey /\ (k \in X \/ (k > 1 /\ T[k - 1] = "Escape"))
(* Q holds what is next to the bytes of S: the byte behind each, the one   *)
(* before it unless the key is spoilt, and the key behind each Escape.     *)
Up(T, S, Q) == \A b \in S : ~Ends(b) => After(T, b) \in Q
Down(T, X, S, Q) ==
  \A b \in S : Nth(b) > 1 /\ ~Spoilt(T, X, KeyOf(b)) => Prior(T, b) \in Q
Link(T, S, Q) ==
  \A b \in S : IsEscape(b) /\ KeyOf(b) < Len(T) => First(T, KeyOf(b) + 1) \in Q

-----------------------------------------------------------------------------
(* The invariant *)

(* The bytes put aside, collected, read ahead, to come, and of the key     *)
(* that is being read.                                                     *)
P == ToSet(pending_input)
B == ToSet(ask.buf)
C == ToSet(channel)
W == ToSet(tty) \cup ToSet(wire)
R == ToSet(decoder.read)

(* Everywhere there are bytes of the keys typed, or of the report. *)
Typing ==
  /\ typed \in Seq(PlainKeys) /\ Apart(typed)
  /\ pending_input \in Seq(Bytes(typed)) /\ channel \in Seq(Bytes(typed))
  /\ tty \in Seq(Bytes(typed)) /\ wire \in Seq(Bytes(typed))
  /\ ui \in {"asking", "draining", "loop", "passthrough", "choosing"}
  /\ ask \in [at : {"loop", "esc", "csi"}, buf : Seq(Bytes(typed)), times : Nat,
              sent : BOOLEAN, answered : 0..Len(typed)]
  /\ decoder.read \in Seq(Bytes(typed))
  /\ out \in Seq(ToSet(out))
  /\ \A i \in DOMAIN out : out[i].from \in Seq(Bytes(typed))

(* They are read in the order they were sent: what was put aside, what is  *)
(* collected, the channel, the tty and the wire.                           *)
Ordered ==
  /\ Sorted(ask.answered, pending_input) /\ Sorted(ask.answered, ask.buf)
  /\ Sorted(ask.answered, channel)
  /\ Sorted(ask.answered, tty) /\ Sorted(ask.answered, wire)
  /\ Before(ask.answered, P, B) /\ Before(ask.answered, P, C)
  /\ Before(ask.answered, P, W)
  /\ Before(ask.answered, B, C) /\ Before(ask.answered, B, W)
  /\ Before(ask.answered, C, W)
  /\ Before(ask.answered, ToSet(tty), ToSet(wire))

(* Some bytes of every key are still somewhere, or have come out, or were  *)
(* cut; and of a key that has come out whole nothing is left.              *)
Held(S, k) == \E b \in S : KeyOf(b) = k
Left == P \cup B \cup C \cup W \cup R
Delivered(k, i) == k \in KeysOf(out[i].from)
Kept ==
  \A k \in DOMAIN typed :
    k \in cut \/ Held(Left, k) \/ \E i \in DOMAIN out : Delivered(k, i)
Gone ==
  \A k \in DOMAIN typed, i \in DOMAIN out :
    Untouched(k) /\ Delivered(k, i) => ~Held(Left, k)

(* The report's first byte was put aside with a lone ESC: the rest of it   *)
(* will be too, and the question never ends.                               *)
Stuck ==
  /\ ui = "asking" /\ ~ask.sent /\ decoder = Start
  /\ First(typed, NoKey) \in P
  /\ ~Held(B, NoKey)
  /\ ask.at = "loop" \/ ask.buf # <<>>
  /\ ask.buf = <<>> \/ Byte(typed, NoKey, 4) \in P
  /\ \A b \in P \cup C \cup W :
       KeyOf(b) = NoKey /\ ~Ends(b) => After(typed, b) \in P \cup C \cup W

(* The byte that is all of r. *)
Alone(r) == {b \in r : r = {b}}

(* In what was put aside, p, an Escape is followed by the first byte of    *)
(* the next key.  O holds the Escapes that begin such a pair; any other    *)
(* is the second byte of a pair, of which the first may have been read.    *)
PairSets(T, O, r, p) ==
  /\ \A j \in O : /\ j \in 1..(Len(T) - 1) /\ IsEscape(First(T, j))
                  /\ First(T, j) \in p /\ First(T, j + 1) \in p
                  /\ j + 1 \notin O
  /\ \A b \in p : IsEscape(b) /\ KeyOf(b) \notin O =>
       \/ KeyOf(b) - 1 \in O
       \/ \E c \in Alone(r) : IsEscape(c) /\ KeyOf(c) = KeyOf(b) - 1
  /\ \A c \in Alone(r) : IsEscape(c) => KeyOf(c) + 1 \notin O

(* Nothing of the report was put aside, and there is a report only where   *)
(* one was asked for and sent.                                             *)
NoReport ==
  /\ ~Held(P, NoKey)
  /\ ui # "asking" \/ ask.sent => ~Held(B \cup C \cup W, NoKey)

(* What get_cursor_position has collected: bytes m to n of a kind of key,  *)
(* or of the report, and where in loop it is.                              *)
Places == 1..10

AskTable ==
  { <<"Escape", 1, 1, "esc">>, <<"NextWord", 1, 1, "esc">>,
    <<"Up", 1, 1, "esc">>, <<"AppUp", 1, 1, "esc">>, <<"Delete", 1, 1, "esc">>,
    <<"Paste", 1, 1, "esc">>, <<"Paste", 5, 5, "esc">>,
    <<"Paste", 7, 7, "esc">>, <<"Report", 1, 1, "esc">>,
    <<"Up", 1, 2, "csi">>, <<"Delete", 1, 2, "csi">>, <<"Delete", 1, 3, "csi">>,
    <<"Paste", 1, 2, "csi">>, <<"Paste", 1, 3, "csi">>,
    <<"Paste", 7, 8, "csi">>, <<"Paste", 7, 9, "csi">>,
    <<"Report", 1, 2, "csi">>, <<"Report", 1, 3, "csi">> }
Kind(T, k) == IF k = NoKey THEN "Report" ELSE T[k]

AskerOK ==
  \/ ask.at = "loop" /\ ask.buf = <<>>
  \/ \E k \in 0..Len(typed), m, n \in Places :
       /\ <<Kind(typed, k), m, n, ask.at>> \in AskTable
       /\ ask.buf = Run(typed, k, m, n)

(* A state of the decoder. *)
Doing(at, read, text, acc) ==
  [at |-> at, read |-> read, text |-> text, acc |-> acc]

(* What the decoder has read: bytes m to n of a kind of key, where it is,  *)
(* the text of a paste and what may be the end of the paste.  Only a       *)
(* spoilt key is read from another byte than the first.                    *)
Decodes(kind, m, n, at, text, acc) ==
  \/ /\ <<kind, m, n, at>> \in
         { <<"Wide", 1, 1, "utf8">>, <<"Escape", 1, 1, "esc">>,
           <<"NextWord", 1, 1, "esc">>,
           <<"Up", 1, 1, "esc">>, <<"Up", 1, 2, "csi">>,
           <<"AppUp", 1, 1, "esc">>, <<"AppUp", 1, 2, "ss3">>,
           <<"Delete", 1, 1, "esc">>, <<"Delete", 1, 2, "csi">>,
           <<"Delete", 1, 3, "csi">>,
           <<"Paste", 1, 1, "esc">>, <<"Paste", 1, 2, "csi">>,
           <<"Paste", 1, 3, "csi">>, <<"Paste", 1, 4, "paste">>,
           <<"Paste", 5, 5, "esc">>, <<"Paste", 7, 7, "esc">>,
           <<"Paste", 7, 8, "csi">>, <<"Paste", 7, 9, "csi">> }
     /\ text = <<>> /\ acc = <<>>
  \/ /\ kind = "Paste" /\ m = 1
     /\ \/ n = 5 /\ at = "check_end" /\ text = <<>> /\ acc = <<"ESC">>
        \/ n = 6 /\ at = "paste" /\ text = <<"ESC", "c">> /\ acc = <<>>
        \/ /\ at = "check_end" /\ text = <<"ESC", "c">>
           /\ \/ n = 7 /\ acc = <<"ESC">>
              \/ n = 8 /\ acc = <<"ESC", "[">>
              \/ n = 9 /\ acc = <<"ESC", "[", "201">>

DecoderOK ==
  \/ decoder = Start
  \/ \E k \in DOMAIN typed, m, n \in Places :
       /\ Decodes(typed[k], m, n, decoder.at, decoder.text, decoder.acc)
       /\ decoder = Doing(decoder.at, Run(typed, k, m, n), decoder.text, decoder.acc)
       /\ m > 1 => Spoilt(typed, cut, k)

(* During a question no byte is missing in what was put aside, p,          *)
(* collected, b, read ahead, c, and is to come, w.                         *)
AskSets(T, X, p, b, c, w) ==
  /\ Up(T, p \cup b \cup c \cup w, p \cup b \cup c \cup w)
  /\ Down(T, X, p \cup b \cup c \cup w, p \cup b \cup c \cup w)
  /\ Link(T, b \cup c \cup w, b \cup c \cup w)

(* Outside of one no byte is missing in what has been read, r, was put     *)
(* aside, p, and is to come, w; and what stays in the channel, c, are      *)
(* other keys, to their ends.                                              *)
ReadSets(T, X, a, r, p, c, w) ==
  /\ Up(T, r \cup p \cup w, r \cup p \cup w)
  /\ Down(T, X, r \cup p \cup w, r \cup p \cup w)
  /\ Link(T, Alone(r) \cup w, r \cup p \cup w)
  /\ Up(T, p, p)
  /\ Up(T, c, c) /\ Down(T, X, c, c)
  /\ Link(T, c, c) /\ \A d \in c : IsEscape(d) => KeyOf(d) < Len(T)
  /\ \A d \in c, b \in r \cup p \cup w : KeyOf(d) # KeyOf(b)
  /\ Before(a, r, p) /\ Before(a, r, w)

(* get_cursor_position reads. *)
Asking ==
  /\ decoder = Start
  /\ AskerOK
  /\ AskSets(typed, cut, P, B, C, W)

(* The decoder reads, or nothing does. *)
Reading ==
  /\ ask.at = "loop" /\ ask.buf = <<>> /\ ~ask.sent
  /\ DecoderOK
  /\ ui \notin {"draining", "loop"} => decoder = Start
  /\ ReadSets(typed, cut, ask.answered, R, P, C, W)
  /\ \A d \in C : KeyOf(d) \in held

(* Whoever reads is in step with the keys. *)
InSync ==
  /\ NoReport
  /\ \E O \in SUBSET DOMAIN typed : PairSets(typed, O, R, P)
  /\ IF ui = "asking" THEN Asking ELSE Reading

(* Once what stays in the channel ends inside a key, anything may join     *)
(* anything.                                                               *)
Core ==
  ~torn => /\ Typing /\ Ordered /\ Kept /\ Gone /\ Decoded
           /\ Stuck \/ InSync

(* The theorems are about what is typed before anybody opens a sequence    *)
(* that no key ends.                                                       *)
IInv == typed \in Seq(Keys) /\ (NothingOpened => Core)

-----------------------------------------------------------------------------
(* What is sent for a key, letter by letter. *)
LEMMA SentIs ==
  /\ DOMAIN Sent = PlainKeys \cup {"AltBracket", "AltO"}
  /\ Sent["Enter"] = <<"CR">>
  /\ Sent["Wide"] = <<"lead", "cont">>
  /\ Sent["Escape"] = <<"ESC">>
  /\ Sent["Bracket"] = <<"[">> /\ Sent["LetterO"] = <<"O">>
  /\ Sent["NextWord"] = <<"ESC", "f">>
  /\ Sent["Up"] = <<"ESC", "[", "A">>
  /\ Sent["AppUp"] = <<"ESC", "O", "A">>
  /\ Sent["Delete"] = <<"ESC", "[", "3", "~">>
  /\ Sent["Paste"] = <<"ESC", "[", "200", "~", "ESC", "c", "ESC", "[", "201", "~">>
BY DEF Sent, PlainKeys

(* The letters of a key. *)
LEMMA Letters ==
  /\ Len(Sent["Enter"]) = 1 /\ Sent["Enter"][1] = "CR"
  /\ Len(Sent["Wide"]) = 2 /\ Sent["Wide"][1] = "lead"
  /\ Sent["Wide"][2] = "cont"
  /\ Len(Sent["Escape"]) = 1 /\ Sent["Escape"][1] = "ESC"
  /\ Len(Sent["Bracket"]) = 1 /\ Sent["Bracket"][1] = "["
  /\ Len(Sent["LetterO"]) = 1 /\ Sent["LetterO"][1] = "O"
  /\ Len(Sent["NextWord"]) = 2 /\ Sent["NextWord"][1] = "ESC"
  /\ Sent["NextWord"][2] = "f"
  /\ Len(Sent["Up"]) = 3 /\ Sent["Up"][1] = "ESC" /\ Sent["Up"][2] = "["
  /\ Sent["Up"][3] = "A"
  /\ Len(Sent["AppUp"]) = 3 /\ Sent["AppUp"][1] = "ESC"
  /\ Sent["AppUp"][2] = "O" /\ Sent["AppUp"][3] = "A"
  /\ Len(Sent["Delete"]) = 4 /\ Sent["Delete"][1] = "ESC"
  /\ Sent["Delete"][2] = "[" /\ Sent["Delete"][3] = "3"
  /\ Sent["Delete"][4] = "~"
  /\ Len(Sent["Paste"]) = 10 /\ Sent["Paste"][1] = "ESC"
  /\ Sent["Paste"][2] = "[" /\ Sent["Paste"][3] = "200"
  /\ Sent["Paste"][4] = "~" /\ Sent["Paste"][5] = "ESC"
  /\ Sent["Paste"][6] = "c" /\ Sent["Paste"][7] = "ESC"
  /\ Sent["Paste"][8] = "[" /\ Sent["Paste"][9] = "201"
  /\ Sent["Paste"][10] = "~"
  /\ Len(Report) = 4 /\ Report[1] = "ESC" /\ Report[2] = "["
  /\ Report[3] = "row;col" /\ Report[4] = "R"
<1>1. /\ Len(Sent["Enter"]) = 1 /\ Sent["Enter"][1] = "CR"
  BY SentIs
<1>2. /\ Len(Sent["Wide"]) = 2 /\ Sent["Wide"][1] = "lead"
      /\ Sent["Wide"][2] = "cont"
  BY SentIs
<1>3. /\ Len(Sent["Escape"]) = 1 /\ Sent["Escape"][1] = "ESC"
      /\ Len(Sent["Bracket"]) = 1 /\ Sent["Bracket"][1] = "["
      /\ Len(Sent["LetterO"]) = 1 /\ Sent["LetterO"][1] = "O"
  BY SentIs
<1>4. /\ Len(Sent["NextWord"]) = 2 /\ Sent["NextWord"][1] = "ESC"
      /\ Sent["NextWord"][2] = "f"
  BY SentIs
<1>5. /\ Len(Sent["Up"]) = 3 /\ Sent["Up"][1] = "ESC" /\ Sent["Up"][2] = "["
      /\ Sent["Up"][3] = "A"
  BY SentIs
<1>6. /\ Len(Sent["AppUp"]) = 3 /\ Sent["AppUp"][1] = "ESC"
      /\ Sent["AppUp"][2] = "O" /\ Sent["AppUp"][3] = "A"
  BY SentIs
<1>7. /\ Len(Sent["Delete"]) = 4 /\ Sent["Delete"][1] = "ESC"
      /\ Sent["Delete"][2] = "[" /\ Sent["Delete"][3] = "3"
      /\ Sent["Delete"][4] = "~"
  BY SentIs
<1>8. /\ Len(Sent["Paste"]) = 10 /\ Sent["Paste"][1] = "ESC"
      /\ Sent["Paste"][2] = "[" /\ Sent["Paste"][3] = "200"
      /\ Sent["Paste"][4] = "~" /\ Sent["Paste"][5] = "ESC"
      /\ Sent["Paste"][6] = "c" /\ Sent["Paste"][7] = "ESC"
      /\ Sent["Paste"][8] = "[" /\ Sent["Paste"][9] = "201"
      /\ Sent["Paste"][10] = "~"
  BY SentIs
<1>9. /\ Len(Report) = 4 /\ Report[1] = "ESC" /\ Report[2] = "["
      /\ Report[3] = "row;col" /\ Report[4] = "R"
  BY DEF Report
<1> QED  BY <1>1, <1>2, <1>3, <1>4, <1>5, <1>6, <1>7, <1>8, <1>9

(* The sizes of what is sent. *)
LEMMA Sizes ==
  ASSUME NEW T \in Seq(PlainKeys), NEW k \in 0..Len(T)
  PROVE  /\ Size(T, k) \in 1..10
         /\ k = NoKey => Size(T, k) = 4
<1>0. /\ Len(Sent["Enter"]) = 1 /\ Len(Sent["Wide"]) = 2 /\ Len(Sent["Escape"]) = 1
      /\ Len(Sent["Bracket"]) = 1 /\ Len(Sent["LetterO"]) = 1
      /\ Len(Sent["NextWord"]) = 2 /\ Len(Sent["Up"]) = 3 /\ Len(Sent["AppUp"]) = 3
      /\ Len(Sent["Delete"]) = 4 /\ Len(Sent["Paste"]) = 10 /\ Len(Report) = 4
  BY Letters, Zenon
<1>1. CASE k = NoKey
  BY <1>1, <1>0 DEF CharsOf, Size
<1>2. CASE k # NoKey
  <2>1. T[k] \in PlainKeys /\ CharsOf(T, k) = Sent[T[k]]
    BY <1>2 DEF CharsOf, NoKey
  <2>2. ASSUME NEW x \in PlainKeys PROVE Len(Sent[x]) \in 1..10
    <3> QED  BY <1>0 DEF PlainKeys
  <2> QED  BY <2>1, <2>2, <1>2 DEF Size
<1> QED  BY <1>1, <1>2


(* The fields of a byte. *)
LEMMA ByteFields ==
  ASSUME NEW T, NEW k, NEW n
  PROVE  /\ KeyOf(Byte(T, k, n)) = k /\ Nth(Byte(T, k, n)) = n
         /\ Letter(Byte(T, k, n)) = CharsOf(T, k)[n]
         /\ Ends(Byte(T, k, n)) <=> n = Size(T, k)
BY DEF Byte, KeyOf, Nth, Letter, Ends

(* A byte is the one its key and its place say. *)
LEMMA ByteIs ==
  ASSUME NEW T \in Seq(PlainKeys), NEW b \in Bytes(T)
  PROVE  /\ KeyOf(b) \in 0..Len(T) /\ Nth(b) \in 1..Size(T, KeyOf(b))
         /\ Size(T, KeyOf(b)) \in Nat /\ Size(T, KeyOf(b)) <= 10
         /\ b = Byte(T, KeyOf(b), Nth(b))
         /\ Letter(b) = CharsOf(T, KeyOf(b))[Nth(b)]
         /\ Ends(b) <=> Nth(b) = Size(T, KeyOf(b))
<1>1. PICK k \in 0..Len(T) : \E n \in 1..Size(T, k) : b = Byte(T, k, n)
  BY DEF Bytes
<1>2. PICK n \in 1..Size(T, k) : b = Byte(T, k, n)
  BY <1>1
<1>3. KeyOf(b) = k /\ Nth(b) = n
  BY <1>2, ByteFields
<1>4. Size(T, k) \in Nat /\ Size(T, k) <= 10
  BY Sizes
<1> QED  BY <1>2, <1>3, <1>4, ByteFields

(* A key has these bytes. *)
LEMMA IsByte ==
  ASSUME NEW T \in Seq(PlainKeys), NEW k \in 0..Len(T), NEW n \in 1..Size(T, k)
  PROVE  Byte(T, k, n) \in Bytes(T)
BY DEF Bytes

(* Ranks are numbers: 32 for a key, 16 for the report behind it. *)
LEMMA Ranks ==
  ASSUME NEW T \in Seq(PlainKeys), NEW a \in Nat, NEW b \in Bytes(T)
  PROVE  /\ KeyOf(b) \in Nat /\ KeyOf(b) <= Len(T)
         /\ Nth(b) \in Nat /\ 1 <= Nth(b) /\ Nth(b) <= 10
         /\ Rank(a, b) \in Nat
         /\ KeyOf(b) = NoKey => Rank(a, b) = (32 * a + 16) + Nth(b)
         /\ KeyOf(b) # NoKey => Rank(a, b) = 32 * KeyOf(b) + Nth(b)
<1>1. /\ KeyOf(b) \in 0..Len(T) /\ Nth(b) \in 1..Size(T, KeyOf(b))
      /\ Size(T, KeyOf(b)) \in Nat /\ Size(T, KeyOf(b)) <= 10
  BY ByteIs
<1>2. KeyOf(b) \in Nat /\ KeyOf(b) <= Len(T)
  BY <1>1
<1>3. Nth(b) \in Nat /\ 1 <= Nth(b) /\ Nth(b) <= 10
  BY <1>1
<1> QED  BY <1>2, <1>3 DEF Rank

(* The rank tells bytes apart. *)
LEMMA SameRank ==
  ASSUME NEW T \in Seq(PlainKeys), NEW a \in Nat,
         NEW b \in Bytes(T), NEW c \in Bytes(T), Rank(a, b) = Rank(a, c)
  PROVE  b = c
<1>1. ASSUME NEW k \in Nat, NEW j \in Nat, NEW m \in Nat, NEW n \in Nat, 
             m >= 1, m <= 10, n >= 1, n <= 10
      PROVE  /\ 32 * k + m = 32 * j + n => k = j /\ m = n
             /\ (32 * k + 16) + m # 32 * j + n
  BY <1>1
<1>2. /\ KeyOf(b) \in Nat /\ Nth(b) \in Nat /\ 1 <= Nth(b) /\ Nth(b) <= 10
      /\ KeyOf(b) = NoKey => Rank(a, b) = (32 * a + 16) + Nth(b)
      /\ KeyOf(b) # NoKey => Rank(a, b) = 32 * KeyOf(b) + Nth(b)
  BY Ranks, ZenonT(40)
<1>3. /\ KeyOf(c) \in Nat /\ Nth(c) \in Nat /\ 1 <= Nth(c) /\ Nth(c) <= 10
      /\ KeyOf(c) = NoKey => Rank(a, c) = (32 * a + 16) + Nth(c)
      /\ KeyOf(c) # NoKey => Rank(a, c) = 32 * KeyOf(c) + Nth(c)
  BY Ranks
<1>4. KeyOf(b) = KeyOf(c) /\ Nth(b) = Nth(c)
  BY <1>2, <1>3, SMTT(30)
<1> QED  BY <1>4, ByteIs

(* The byte behind one that does not end its key. *)
LEMMA AfterIs ==
  ASSUME NEW T \in Seq(PlainKeys), NEW a \in Nat, NEW b \in Bytes(T), ~Ends(b)
  PROVE  /\ After(T, b) \in Bytes(T)
         /\ KeyOf(After(T, b)) = KeyOf(b) /\ Nth(After(T, b)) = Nth(b) + 1
         /\ Rank(a, After(T, b)) = Rank(a, b) + 1
<1>1. /\ KeyOf(b) \in 0..Len(T) /\ Nth(b) \in 1..Size(T, KeyOf(b))
      /\ Size(T, KeyOf(b)) \in Nat /\ Nth(b) # Size(T, KeyOf(b))
  BY ByteIs
<1>2. Nth(b) + 1 \in 1..Size(T, KeyOf(b))
  BY <1>1
<1>3. After(T, b) \in Bytes(T)
  BY <1>1, <1>2, IsByte DEF After
<1>4. KeyOf(After(T, b)) = KeyOf(b) /\ Nth(After(T, b)) = Nth(b) + 1
  BY ByteFields DEF After
<1>5. KeyOf(b) \in Nat /\ Nth(b) \in Nat
  BY <1>1
<1> QED  BY <1>3, <1>4, <1>5 DEF Rank

(* The byte before one that does not begin its key. *)
LEMMA PriorIs ==
  ASSUME NEW T \in Seq(PlainKeys), NEW a \in Nat, NEW b \in Bytes(T), Nth(b) # 1
  PROVE  /\ Prior(T, b) \in Bytes(T)
         /\ KeyOf(Prior(T, b)) = KeyOf(b) /\ Nth(Prior(T, b)) = Nth(b) - 1
         /\ ~Ends(Prior(T, b)) /\ After(T, Prior(T, b)) = b
         /\ Rank(a, b) = Rank(a, Prior(T, b)) + 1
<1>1. /\ KeyOf(b) \in 0..Len(T) /\ Nth(b) \in 1..Size(T, KeyOf(b))
      /\ Size(T, KeyOf(b)) \in Nat /\ b = Byte(T, KeyOf(b), Nth(b))
  BY ByteIs
<1>2. Nth(b) - 1 \in 1..Size(T, KeyOf(b)) /\ Nth(b) - 1 # Size(T, KeyOf(b))
      /\ (Nth(b) - 1) + 1 = Nth(b)
  BY <1>1
<1>3. Prior(T, b) \in Bytes(T)
  BY <1>1, <1>2, IsByte DEF Prior
<1>4. /\ KeyOf(Prior(T, b)) = KeyOf(b) /\ Nth(Prior(T, b)) = Nth(b) - 1
      /\ ~Ends(Prior(T, b))
  BY <1>2, ByteFields DEF Prior
<1>5. After(T, Prior(T, b)) = b
  BY <1>1, <1>2, <1>4 DEF After
<1>6. Rank(a, After(T, Prior(T, b))) = Rank(a, Prior(T, b)) + 1
  BY <1>3, <1>4, AfterIs
<1> QED  BY <1>3, <1>4, <1>5, <1>6

(* The first byte of a key. *)
LEMMA FirstIs ==
  ASSUME NEW T \in Seq(PlainKeys), NEW k \in 0..Len(T)
  PROVE  /\ First(T, k) \in Bytes(T)
         /\ KeyOf(First(T, k)) = k /\ Nth(First(T, k)) = 1
<1>1. 1 \in 1..Size(T, k)
  BY Sizes
<1> QED  BY <1>1, IsByte, ByteFields DEF First

(* A byte in the first place is the first of its key. *)
LEMMA FirstByte ==
  ASSUME NEW T \in Seq(PlainKeys), NEW b \in Bytes(T), Nth(b) = 1
  PROVE  b = First(T, KeyOf(b))
BY ByteIs DEF First

(* The byte of an Escape is all of it. *)
LEMMA EscapeIs ==
  ASSUME NEW T \in Seq(PlainKeys), NEW b \in Bytes(T), IsEscape(b)
  PROVE  /\ KeyOf(b) \in 1..Len(T) /\ T[KeyOf(b)] = "Escape"
         /\ Nth(b) = 1 /\ Ends(b) /\ b = First(T, KeyOf(b))
<1>1. /\ KeyOf(b) \in 0..Len(T) /\ Nth(b) \in 1..Size(T, KeyOf(b))
      /\ Letter(b) = CharsOf(T, KeyOf(b))[Nth(b)]
      /\ Nth(b) = Size(T, KeyOf(b))
      /\ Letter(b) = "ESC" /\ Ends(b)
  BY ByteIs DEF IsEscape
<1>2. KeyOf(b) # NoKey
  <2> SUFFICES ASSUME KeyOf(b) = NoKey PROVE FALSE
    OBVIOUS
  <2>1. CharsOf(T, KeyOf(b)) = Report /\ Size(T, KeyOf(b)) = 4
    BY Letters DEF CharsOf, Size
  <2>2. Report[4] = "R"
    BY Letters
  <2> QED  BY <1>1, <2>1, <2>2
<1>3. KeyOf(b) \in 1..Len(T)
  BY <1>1, <1>2 DEF NoKey
<1>4. /\ CharsOf(T, KeyOf(b)) = Sent[T[KeyOf(b)]]
      /\ T[KeyOf(b)] \in PlainKeys
  BY <1>2, <1>3 DEF CharsOf
<1>5. \A x \in PlainKeys : Sent[x][Len(Sent[x])] = "ESC" => x = "Escape"
  BY Letters, ZenonT(60) DEF PlainKeys
<1>6. T[KeyOf(b)] = "Escape"
  BY <1>1, <1>4, <1>5 DEF Size
<1>7. Nth(b) = 1
  BY <1>1, <1>4, <1>6, Letters, ZenonT(40) DEF Size
<1> QED  BY <1>1, <1>3, <1>6, <1>7, FirstByte

(* An Escape is one byte. *)
LEMMA EscapeByte ==
  ASSUME NEW T \in Seq(PlainKeys), NEW k \in 1..Len(T), T[k] = "Escape"
  PROVE  IsEscape(First(T, k))
<1>1. CharsOf(T, k) = Sent["Escape"]
  BY DEF CharsOf, NoKey
<1>2. Size(T, k) = 1 /\ CharsOf(T, k)[1] = "ESC"
  BY <1>1, Letters, ZenonT(40) DEF Size
<1> QED  BY <1>2, ByteFields DEF IsEscape, First

(* Another key leaves the bytes of the ones before. *)
LEMMA TypingOn ==
  ASSUME NEW T \in Seq(PlainKeys), NEW x \in PlainKeys,
         NEW U, U = Append(T, x)
  PROVE  /\ U \in Seq(PlainKeys)
         /\ Len(U) = Len(T) + 1 /\ U[Len(T) + 1] = x
         /\ \A k \in 1..Len(T) : U[k] = T[k]
         /\ \A k \in 0..Len(T) : CharsOf(U, k) = CharsOf(T, k)
         /\ \A k \in 0..Len(T) : Size(U, k) = Size(T, k)
         /\ \A k \in 0..Len(T) : \A n : Byte(U, k, n) = Byte(T, k, n)
         /\ \A k \in 0..Len(T) : First(U, k) = First(T, k)
         /\ \A b \in Bytes(T) : /\ b \in Bytes(U)
                                /\ After(U, b) = After(T, b)
                                /\ Prior(U, b) = Prior(T, b)
         /\ \A b \in Bytes(U) : b \in Bytes(T) \/ KeyOf(b) = Len(T) + 1
<1>1. /\ U \in Seq(PlainKeys) /\ Len(U) = Len(T) + 1
      /\ \A k \in 1..Len(T) : U[k] = T[k]
      /\ U[Len(T) + 1] = x
  OBVIOUS
<1>2. \A k \in 0..Len(T) : CharsOf(U, k) = CharsOf(T, k)
  BY <1>1 DEF CharsOf, NoKey
<1>3. \A k \in 0..Len(T) : Size(U, k) = Size(T, k)
  BY <1>2 DEF Size
<1>4. \A k \in 0..Len(T) : \A n : Byte(U, k, n) = Byte(T, k, n)
  BY <1>2, <1>3 DEF Byte
<1>5. ASSUME NEW b \in Bytes(T)
      PROVE  /\ b \in Bytes(U) /\ After(U, b) = After(T, b) /\ Prior(U, b) = Prior(T, b)
  <2>1. /\ KeyOf(b) \in 0..Len(T) /\ Nth(b) \in 1..Size(T, KeyOf(b))
        /\ b = Byte(T, KeyOf(b), Nth(b))
    BY ByteIs
  <2>2. KeyOf(b) \in 0..Len(U)
    BY <2>1, <1>1
  <2>3. Nth(b) \in 1..Size(U, KeyOf(b)) /\ b = Byte(U, KeyOf(b), Nth(b))
    BY <2>1, <1>3, <1>4
  <2> QED  BY <2>1, <2>2, <2>3, <1>1, <1>4, IsByte DEF After, Prior
<1>6. ASSUME NEW b \in Bytes(U), KeyOf(b) # Len(T) + 1 PROVE b \in Bytes(T)
  <2>1. /\ KeyOf(b) \in 0..Len(U) /\ Nth(b) \in 1..Size(U, KeyOf(b))
        /\ b = Byte(U, KeyOf(b), Nth(b))
    BY <1>1, ByteIs
  <2>2. KeyOf(b) \in 0..Len(T)
    BY <1>1, <1>6, <2>1
  <2>3. Nth(b) \in 1..Size(T, KeyOf(b)) /\ b = Byte(T, KeyOf(b), Nth(b))
    BY <2>1, <2>2, <1>3, <1>4
  <2> QED  BY <2>2, <2>3, IsByte
<1>7. \A k \in 0..Len(T) : First(U, k) = First(T, k)
  BY <1>4 DEF First
<1> QED  BY <1>1, <1>2, <1>3, <1>4, <1>5, <1>6, <1>7

-----------------------------------------------------------------------------
(* Sequences and their sets *)

(* Nothing is in the empty sequence. *)
LEMMA EmptySet == ToSet(<<>>) = {}
BY DEF ToSet

(* The bytes of a sequence, and their places. *)
LEMMA SetOf ==
  ASSUME NEW S, NEW s \in Seq(S)
  PROVE  /\ ToSet(s) \subseteq S
         /\ ToSet(s) = {} <=> s = <<>>
         /\ \A i \in 1..Len(s) : s[i] \in ToSet(s)
         /\ \A b \in ToSet(s) : \E i \in 1..Len(s) : s[i] = b
<1>1. DOMAIN s = 1..Len(s)
  OBVIOUS
<1>2. \A i \in 1..Len(s) : s[i] \in ToSet(s)
  BY <1>1 DEF ToSet
<1>3. \A b \in ToSet(s) : \E i \in 1..Len(s) : s[i] = b
  BY <1>1 DEF ToSet
<1>4. ToSet(s) \subseteq S
  BY <1>3
<1>5. s # <<>> => 1 \in 1..Len(s)
  OBVIOUS
<1>6. s = <<>> => ToSet(s) = {}
  BY EmptySet
<1> QED  BY <1>2, <1>3, <1>4, <1>5, <1>6

(* One more byte behind a sequence. *)
LEMMA AppendSet ==
  ASSUME NEW S, NEW s \in Seq(S), NEW x \in S
  PROVE  /\ Append(s, x) \in Seq(S) /\ Append(s, x) # <<>>
         /\ ToSet(Append(s, x)) = ToSet(s) \cup {x}
<1> DEFINE t == Append(s, x)
<1>1. /\ t \in Seq(S) /\ Len(t) = Len(s) + 1 /\ t[Len(s) + 1] = x
      /\ \A i \in 1..Len(s) : t[i] = s[i]
  OBVIOUS
<1> HIDE DEF t
<1>2. ASSUME NEW b \in ToSet(t) PROVE b \in ToSet(s) \cup {x}
  <2>1. PICK i \in 1..Len(t) : t[i] = b
    BY <1>1, SetOf
  <2>2. i \in 1..Len(s) \/ i = Len(s) + 1
    BY <1>1, <2>1
  <2> QED  BY <1>1, <2>1, <2>2, SetOf
<1>3. ASSUME NEW b \in ToSet(s) PROVE b \in ToSet(t)
  <2>1. PICK i \in 1..Len(s) : s[i] = b
    BY SetOf
  <2>2. i \in 1..Len(t) /\ t[i] = b
    BY <1>1, <2>1
  <2> QED  BY <1>1, <2>2, SetOf
<1>4. x \in ToSet(t)
  <2>1. Len(s) + 1 \in 1..Len(t)
    BY <1>1
  <2> QED  BY <1>1, <2>1, SetOf
<1>5. t # <<>>
  BY <1>1
<1>6. ToSet(t) = ToSet(s) \cup {x}
  BY <1>2, <1>3, <1>4
<1> QED  BY <1>1, <1>5, <1>6 DEF t

(* The first byte of a sequence is taken. *)
LEMMA TailSet ==
  ASSUME NEW S, NEW s \in Seq(S), s # <<>>
  PROVE  /\ Tail(s) \in Seq(S) /\ Head(s) \in S /\ Head(s) \in ToSet(s)
         /\ ToSet(s) = {Head(s)} \cup ToSet(Tail(s))
<1> DEFINE t == Tail(s)
<1>1. /\ t \in Seq(S) /\ Len(t) = Len(s) - 1 /\ Head(s) = s[1] /\ 1 \in 1..Len(s)
      /\ \A i \in 1..Len(t) : t[i] = s[i + 1]
  OBVIOUS
<1> HIDE DEF t
<1>2. Head(s) \in S /\ Head(s) \in ToSet(s)
  BY <1>1, SetOf
<1>3. ASSUME NEW b \in ToSet(t) PROVE b \in ToSet(s)
  <2>1. PICK i \in 1..Len(t) : t[i] = b
    BY <1>1, SetOf
  <2>2. i + 1 \in 1..Len(s) /\ s[i + 1] = b
    BY <1>1, <2>1
  <2> QED  BY <2>2, SetOf
<1>4. ASSUME NEW b \in ToSet(s), b # Head(s) PROVE b \in ToSet(t)
  <2>1. PICK i \in 1..Len(s) : s[i] = b
    BY SetOf
  <2>2. i # 1
    BY <1>1, <1>4, <2>1
  <2>3. i - 1 \in 1..Len(t) /\ (i - 1) + 1 = i
    BY <1>1, <2>1, <2>2
  <2>4. t[i - 1] = b
    BY <1>1, <2>1, <2>3
  <2> QED  BY <1>1, <2>3, <2>4, SetOf
<1>5. ToSet(s) = {Head(s)} \cup ToSet(t)
  BY <1>2, <1>3, <1>4
<1> QED  BY <1>1, <1>2, <1>5 DEF t

(* One sequence behind another. *)
LEMMA ConcatSet ==
  ASSUME NEW S, NEW s \in Seq(S), NEW t \in Seq(S)
  PROVE  /\ s \o t \in Seq(S)
         /\ ToSet(s \o t) = ToSet(s) \cup ToSet(t)
<1> DEFINE u == s \o t
<1>1. /\ u \in Seq(S) /\ Len(u) = Len(s) + Len(t)
      /\ \A i \in 1..Len(u) : u[i] = IF i <= Len(s) THEN s[i] ELSE t[i - Len(s)]
  BY ConcatProperties
<1> HIDE DEF u
<1>2. ASSUME NEW b \in ToSet(u) PROVE b \in ToSet(s) \cup ToSet(t)
  <2>1. PICK i \in 1..Len(u) : u[i] = b
    BY <1>1, SetOf
  <2>2. CASE i <= Len(s)
    <3>1. i \in 1..Len(s) /\ s[i] = b
      BY <1>1, <2>1, <2>2
    <3> QED  BY <3>1, SetOf
  <2>3. CASE i > Len(s)
    <3>1. i - Len(s) \in 1..Len(t) /\ t[i - Len(s)] = b
      BY <1>1, <2>1, <2>3
    <3> QED  BY <3>1, SetOf
  <2> QED  BY <2>1, <2>2, <2>3
<1>3. ASSUME NEW b \in ToSet(s) PROVE b \in ToSet(u)
  <2>1. PICK i \in 1..Len(s) : s[i] = b
    BY SetOf
  <2>2. i \in 1..Len(u) /\ u[i] = b
    BY <1>1, <2>1
  <2> QED  BY <1>1, <2>2, SetOf
<1>4. ASSUME NEW b \in ToSet(t) PROVE b \in ToSet(u)
  <2>1. PICK i \in 1..Len(t) : t[i] = b
    BY SetOf
  <2>2. i + Len(s) \in 1..Len(u) /\ ~(i + Len(s) <= Len(s)) /\ (i + Len(s)) - Len(s) = i
    BY <1>1, <2>1
  <2>3. u[i + Len(s)] = b
    BY <1>1, <2>1, <2>2
  <2> QED  BY <1>1, <2>2, <2>3, SetOf
<1>5. ToSet(u) = ToSet(s) \cup ToSet(t)
  BY <1>2, <1>3, <1>4
<1> QED  BY <1>1, <1>5 DEF u

(* The last of a sequence. *)
LEMMA LastIs ==
  ASSUME NEW S, NEW s \in Seq(S), s # <<>>
  PROVE  Last(s) \in ToSet(s) /\ Last(s) \in S
<1>1. Len(s) \in 1..Len(s)
  OBVIOUS
<1> QED  BY <1>1, SetOf DEF Last

(* Taking the first leaves the last. *)
LEMMA LastOfTail ==
  ASSUME NEW S, NEW s \in Seq(S), Tail(s) # <<>>, s # <<>>
  PROVE  Last(Tail(s)) = Last(s) /\ Len(s) > 1
<1>1. /\ Len(Tail(s)) = Len(s) - 1 /\ Tail(s) \in Seq(S)
      /\ \A i \in 1..Len(Tail(s)) : Tail(s)[i] = s[i + 1]
  OBVIOUS
<1>2. Len(Tail(s)) # 0
  BY <1>1
<1>3. Len(s) - 1 \in 1..Len(Tail(s)) /\ (Len(s) - 1) + 1 = Len(s) /\ Len(s) > 1
  BY <1>1, <1>2
<1> QED  BY <1>1, <1>3 DEF Last

-----------------------------------------------------------------------------
(* Sorted sequences *)

(* No bytes are in order. *)
LEMMA SortedEmpty == ASSUME NEW a PROVE Sorted(a, <<>>)
BY DEF Sorted

(* The first of a sorted sequence is before the others. *)
LEMMA SortedTail ==
  ASSUME NEW S, NEW a, NEW s \in Seq(S), s # <<>>, Sorted(a, s)
  PROVE  Sorted(a, Tail(s)) /\ Before(a, {Head(s)}, ToSet(Tail(s)))
<1> DEFINE t == Tail(s)
<1>1. /\ t \in Seq(S) /\ Len(t) = Len(s) - 1 /\ Head(s) = s[1]
      /\ \A i \in 1..Len(t) : t[i] = s[i + 1]
  OBVIOUS
<1> HIDE DEF t
<1>2. Sorted(a, t)
  <2> SUFFICES ASSUME NEW i \in DOMAIN t, NEW j \in DOMAIN t, i < j
               PROVE  Rank(a, t[i]) < Rank(a, t[j])
    BY DEF Sorted
  <2>1. i \in 1..Len(t) /\ j \in 1..Len(t)
    BY <1>1
  <2>2. i + 1 \in DOMAIN s /\ j + 1 \in DOMAIN s /\ i + 1 < j + 1
    BY <1>1, <2>1
  <2> QED  BY <1>1, <2>1, <2>2 DEF Sorted
<1>3. Before(a, {Head(s)}, ToSet(t))
  <2> SUFFICES ASSUME NEW c \in ToSet(t) PROVE Rank(a, Head(s)) < Rank(a, c)
    BY DEF Before
  <2>1. PICK i \in 1..Len(t) : t[i] = c
    BY <1>1, SetOf
  <2>2. 1 \in DOMAIN s /\ i + 1 \in DOMAIN s /\ 1 < i + 1
    BY <1>1, <2>1
  <2> QED  BY <1>1, <2>1, <2>2 DEF Sorted
<1> QED  BY <1>2, <1>3 DEF t

(* Later bytes behind earlier ones. *)
LEMMA SortedConcat ==
  ASSUME NEW S, NEW a, NEW s \in Seq(S), NEW t \in Seq(S),
         Sorted(a, s), Sorted(a, t), Before(a, ToSet(s), ToSet(t))
  PROVE  Sorted(a, s \o t)
<1> DEFINE u == s \o t
<1>1. /\ u \in Seq(S) /\ Len(u) = Len(s) + Len(t)
      /\ \A i \in 1..Len(u) : u[i] = IF i <= Len(s) THEN s[i] ELSE t[i - Len(s)]
  BY ConcatProperties
<1> HIDE DEF u
<1>2. ASSUME NEW i \in DOMAIN u, NEW j \in DOMAIN u, i < j
      PROVE  Rank(a, u[i]) < Rank(a, u[j])
  <2>1. i \in 1..Len(u) /\ j \in 1..Len(u)
    BY <1>1
  <2>2. CASE j <= Len(s)
    <3>1. i \in DOMAIN s /\ j \in DOMAIN s /\ u[i] = s[i] /\ u[j] = s[j]
      BY <1>1, <1>2, <2>1, <2>2
    <3> QED  BY <1>2, <3>1 DEF Sorted
  <2>3. CASE i <= Len(s) /\ j > Len(s)
    <3>1. i \in 1..Len(s) /\ j - Len(s) \in 1..Len(t) /\ u[i] = s[i]
            /\ u[j] = t[j - Len(s)]
      BY <1>1, <2>1, <2>3
    <3>2. s[i] \in ToSet(s) /\ t[j - Len(s)] \in ToSet(t)
      BY <3>1, SetOf
    <3> QED  BY <3>1, <3>2 DEF Before
  <2>4. CASE i > Len(s)
    <3>1. /\ i - Len(s) \in DOMAIN t /\ j - Len(s) \in DOMAIN t
          /\ u[i] = t[i - Len(s)] /\ u[j] = t[j - Len(s)]
          /\ i - Len(s) < j - Len(s)
      BY <1>1, <1>2, <2>1, <2>4
    <3> QED  BY <3>1 DEF Sorted
  <2> QED  BY <1>2, <2>1, <2>2, <2>3, <2>4
<1> QED  BY <1>2 DEF Sorted, u

(* A later byte behind earlier ones. *)
LEMMA SortedAppend ==
  ASSUME NEW S, NEW a, NEW s \in Seq(S), NEW x \in S,
         Sorted(a, s), Before(a, ToSet(s), {x})
  PROVE  Sorted(a, Append(s, x))
<1> DEFINE u == Append(s, x)
<1>1. /\ u \in Seq(S) /\ Len(u) = Len(s) + 1 /\ u[Len(s) + 1] = x
      /\ \A i \in 1..Len(s) : u[i] = s[i]
  OBVIOUS
<1> HIDE DEF u
<1>2. ASSUME NEW i \in DOMAIN u, NEW j \in DOMAIN u, i < j
      PROVE  Rank(a, u[i]) < Rank(a, u[j])
  <2>1. i \in 1..Len(s) /\ (j \in 1..Len(s) \/ j = Len(s) + 1)
    BY <1>1, <1>2
  <2>2. CASE j \in 1..Len(s)
    <3>1. i \in DOMAIN s /\ j \in DOMAIN s /\ u[i] = s[i] /\ u[j] = s[j]
      BY <1>1, <2>1, <2>2
    <3> QED  BY <1>2, <3>1 DEF Sorted
  <2>3. CASE j = Len(s) + 1
    <3>1. s[i] \in ToSet(s)
      BY <2>1, SetOf
    <3>2. Rank(a, s[i]) < Rank(a, x)
      BY <3>1 DEF Before
    <3>3. u[i] = s[i] /\ u[j] = x
      BY <1>1, <2>1, <2>3
    <3> QED  BY <3>2, <3>3
  <2> QED  BY <2>1, <2>2, <2>3
<1> QED  BY <1>2 DEF Sorted, u

(* The last of a sorted sequence. *)
LEMMA SortedLast ==
  ASSUME NEW S, NEW a, NEW s \in Seq(S), Sorted(a, s), NEW b \in ToSet(s)
  PROVE  b = Last(s) \/ Rank(a, b) < Rank(a, Last(s))
<1>1. PICK i \in 1..Len(s) : s[i] = b
  BY SetOf
<1>2. CASE i = Len(s)
  BY <1>1, <1>2 DEF Last
<1>3. CASE i # Len(s)
  <2>1. i \in DOMAIN s /\ Len(s) \in DOMAIN s /\ i < Len(s)
    BY <1>1, <1>3
  <2> QED  BY <1>1, <2>1 DEF Last, Sorted
<1> QED  BY <1>2, <1>3

-----------------------------------------------------------------------------
(* What is read, put aside, left and to come *)

(* More cut keys, more spoilt keys. *)
LEMMA MoreSpoilt ==
  ASSUME NEW T, NEW X, NEW Y, X \subseteq Y, NEW k, Spoilt(T, X, k)
  PROVE  Spoilt(T, Y, k)
BY DEF Spoilt

(* Nothing is alone where nothing is. *)
LEMMA AloneEmpty == Alone({}) = {}
BY DEF Alone

(* What is flushed is all behind P, and before the rest. *)
LEMMA FlushSets ==
  ASSUME NEW T \in Seq(PlainKeys), NEW a \in Nat, NEW X, NEW Y, X \subseteq Y,
         NEW p \in SUBSET Bytes(T), NEW c \in SUBSET Bytes(T),
         NEW t \in SUBSET Bytes(T), NEW v \in SUBSET Bytes(T),
         ReadSets(T, X, a, {}, p, c, t \cup v),
         Before(a, t, v), Before(a, p, t \cup v),
         \A b \in t : KeyOf(b) \in Y /\ KeyOf(b) # NoKey
  PROVE  ReadSets(T, Y, a, {}, p, c, v)
<1> DEFINE all == {} \cup p \cup (t \cup v)
           rest == {} \cup p \cup v
<1>1. /\ Up(T, all, all) /\ Down(T, X, all, all)
      /\ Link(T, {} \cup (t \cup v), all) /\ Up(T, p, p)
      /\ Up(T, c, c) /\ Down(T, X, c, c)
      /\ Link(T, c, c) /\ \A d \in c : IsEscape(d) => KeyOf(d) < Len(T)
      /\ \A d \in c, b \in all : KeyOf(d) # KeyOf(b)
  BY AloneEmpty DEF ReadSets
<1>2. Up(T, rest, rest)
  <2> SUFFICES ASSUME NEW b \in v, ~Ends(b) PROVE After(T, b) \in v
    BY <1>1 DEF Up
  <2>1. After(T, b) \in Bytes(T) /\ Rank(a, After(T, b)) = Rank(a, b) + 1
    BY AfterIs
  <2>2. After(T, b) \in all
    BY <1>1 DEF Up
  <2>3. Rank(a, b) \in Nat
    BY Ranks
  <2>4. After(T, b) \notin p
    <3> SUFFICES ASSUME After(T, b) \in p PROVE FALSE
      OBVIOUS
    <3>1. Rank(a, After(T, b)) < Rank(a, b)
      BY DEF Before
    <3> QED  BY <3>1, <2>1, <2>3
  <2>5. After(T, b) \notin t
    <3> SUFFICES ASSUME After(T, b) \in t PROVE FALSE
      OBVIOUS
    <3>1. Rank(a, After(T, b)) < Rank(a, b)
      BY DEF Before
    <3> QED  BY <3>1, <2>1, <2>3
  <2> QED  BY <2>2, <2>4, <2>5
<1>3. Down(T, Y, rest, rest)
  <2> SUFFICES ASSUME NEW b \in rest, Nth(b) > 1, ~Spoilt(T, Y, KeyOf(b))
               PROVE  Prior(T, b) \in rest
    BY DEF Down
  <2>1. /\ Prior(T, b) \in Bytes(T) /\ KeyOf(Prior(T, b)) = KeyOf(b)
        /\ After(T, Prior(T, b)) = b /\ ~Ends(Prior(T, b))
        /\ Rank(a, b) = Rank(a, Prior(T, b)) + 1 /\ Rank(a, Prior(T, b)) \in Nat
    BY PriorIs, Ranks, SMTT(30)
  <2>2. Prior(T, b) \in all
    BY <1>1, MoreSpoilt DEF Down
  <2>3. Prior(T, b) \notin t
    BY <2>1 DEF Spoilt
  <2> QED  BY <2>2, <2>3
<1>4. Link(T, {} \cup v, rest)
  <2> SUFFICES ASSUME NEW b \in v, IsEscape(b), KeyOf(b) < Len(T)
               PROVE  First(T, KeyOf(b) + 1) \in rest
    BY DEF Link
  <2>1. First(T, KeyOf(b) + 1) \in all
    BY <1>1 DEF Link
  <2>2. /\ KeyOf(b) \in 1..Len(T) /\ Nth(b) = 1
    BY EscapeIs
  <2>3. KeyOf(b) + 1 \in 0..Len(T)
    BY <2>2
  <2>4. /\ First(T, KeyOf(b) + 1) \in Bytes(T)
        /\ KeyOf(First(T, KeyOf(b) + 1)) = KeyOf(b) + 1
        /\ Nth(First(T, KeyOf(b) + 1)) = 1
    BY <2>3, FirstIs
  <2>5. Rank(a, b) < Rank(a, First(T, KeyOf(b) + 1))
    BY <2>2, <2>4 DEF Rank, NoKey
  <2>6. First(T, KeyOf(b) + 1) \notin t
    <3> SUFFICES ASSUME First(T, KeyOf(b) + 1) \in t PROVE FALSE
      OBVIOUS
    <3>1. Rank(a, First(T, KeyOf(b) + 1)) < Rank(a, b)
      BY DEF Before
    <3> QED  BY <3>1, <2>4, <2>5, Ranks, SMTT(30)
  <2> QED  BY <2>1, <2>6
<1>5. Down(T, Y, c, c)
  BY <1>1, MoreSpoilt DEF Down
<1>6. \A d \in c, b \in rest : KeyOf(d) # KeyOf(b)
  BY <1>1
<1>7. Before(a, {}, p) /\ Before(a, {}, v)
  BY DEF Before
<1> QED  BY <1>1, <1>2, <1>3, <1>4, <1>5, <1>6, <1>7, AloneEmpty DEF ReadSets

(* An Escape comes before the key behind it. *)
LEMMA EscapeBefore ==
  ASSUME NEW T \in Seq(PlainKeys), NEW a \in Nat, NEW b \in Bytes(T),
         IsEscape(b), KeyOf(b) < Len(T)
  PROVE  /\ First(T, KeyOf(b) + 1) \in Bytes(T)
         /\ KeyOf(First(T, KeyOf(b) + 1)) = KeyOf(b) + 1
         /\ Nth(First(T, KeyOf(b) + 1)) = 1
         /\ Rank(a, First(T, KeyOf(b) + 1)) = Rank(a, b) + 32
<1>1. KeyOf(b) \in 1..Len(T) /\ Nth(b) = 1
  BY EscapeIs
<1>2. KeyOf(b) + 1 \in 0..Len(T)
  BY <1>1
<1>3. /\ First(T, KeyOf(b) + 1) \in Bytes(T)
      /\ KeyOf(First(T, KeyOf(b) + 1)) = KeyOf(b) + 1
      /\ Nth(First(T, KeyOf(b) + 1)) = 1
  BY <1>2, FirstIs
<1> QED  BY <1>1, <1>3, SMTT(30) DEF Rank, NoKey

(* A question begins with what the decoder would have read. *)
LEMMA AskFromRead ==
  ASSUME NEW T \in Seq(PlainKeys), NEW a \in Nat, NEW X,
         NEW p \in SUBSET Bytes(T), NEW c \in SUBSET Bytes(T),
         NEW w \in SUBSET Bytes(T),
         ReadSets(T, X, a, {}, p, c, w), Before(a, p, w)
  PROVE  AskSets(T, X, p, {}, c, w)
<1> DEFINE rest == {} \cup p \cup w
           all == p \cup {} \cup c \cup w
<1>1. /\ Up(T, rest, rest) /\ Down(T, X, rest, rest)
      /\ Link(T, {} \cup w, rest)
      /\ Up(T, c, c) /\ Down(T, X, c, c) /\ Link(T, c, c)
  BY AloneEmpty DEF ReadSets
<1>2. Up(T, all, all)
  BY <1>1 DEF Up
<1>3. Down(T, X, all, all)
  BY <1>1 DEF Down
<1>4. ASSUME NEW b \in w, IsEscape(b), KeyOf(b) < Len(T)
      PROVE  First(T, KeyOf(b) + 1) \in w
  <2>1. First(T, KeyOf(b) + 1) \in rest
    BY <1>1, <1>4 DEF Link
  <2>2. /\ First(T, KeyOf(b) + 1) \in Bytes(T)
        /\ Rank(a, First(T, KeyOf(b) + 1)) = Rank(a, b) + 32
        /\ Rank(a, b) \in Nat
    BY <1>4, EscapeBefore, Ranks
  <2>3. First(T, KeyOf(b) + 1) \in p => Rank(a, First(T, KeyOf(b) + 1)) < Rank(a, b)
    BY DEF Before
  <2> QED  BY <2>1, <2>2, <2>3
<1>5. Link(T, {} \cup c \cup w, {} \cup c \cup w)
  BY <1>1, <1>4 DEF Link
<1> QED  BY <1>2, <1>3, <1>5 DEF AskSets

(* What has been read goes: nothing of its keys is to come, unless they    *)
(* are spoilt.                                                             *)
LEMMA DropSets ==
  ASSUME NEW T \in Seq(PlainKeys), NEW a \in Nat, NEW X, NEW Y, X \subseteq Y,
         NEW r \in SUBSET Bytes(T),
         NEW p \in SUBSET Bytes(T), NEW c \in SUBSET Bytes(T),
         NEW w \in SUBSET Bytes(T),
         ReadSets(T, X, a, r, p, c, w),
         \A b \in r : Ends(b) \/ After(T, b) \in r \/ Spoilt(T, Y, KeyOf(b))
  PROVE  ReadSets(T, Y, a, {}, p, c, w)
<1> DEFINE all == r \cup p \cup w
           rest == {} \cup p \cup w
<1>1. /\ Up(T, all, all) /\ Down(T, X, all, all)
      /\ Link(T, Alone(r) \cup w, all) /\ Up(T, p, p)
      /\ Up(T, c, c) /\ Down(T, X, c, c)
      /\ Link(T, c, c) /\ \A d \in c : IsEscape(d) => KeyOf(d) < Len(T)
      /\ \A d \in c, b \in all : KeyOf(d) # KeyOf(b)
      /\ Before(a, r, p) /\ Before(a, r, w)
  BY DEF ReadSets
<1>2. ASSUME NEW b \in rest, NEW d \in Bytes(T), Rank(a, b) < Rank(a, d)
      PROVE  d \notin r
  <2> SUFFICES ASSUME d \in r PROVE FALSE
    OBVIOUS
  <2>1. Rank(a, d) < Rank(a, b)
    BY <1>1 DEF Before
  <2>2. Rank(a, d) \in Nat /\ Rank(a, b) \in Nat
    BY Ranks
  <2> QED  BY <1>2, <2>1, <2>2
<1>3. Up(T, rest, rest)
  <2> SUFFICES ASSUME NEW b \in rest, ~Ends(b) PROVE After(T, b) \in rest
    BY DEF Up
  <2>1. After(T, b) \in Bytes(T) /\ Rank(a, After(T, b)) = Rank(a, b) + 1
          /\ Rank(a, b) \in Nat
    BY AfterIs, Ranks
  <2>2. After(T, b) \in all
    BY <1>1 DEF Up
  <2> QED  BY <1>2, <2>1, <2>2
<1>4. Down(T, Y, rest, rest)
  <2> SUFFICES ASSUME NEW b \in rest, Nth(b) > 1, ~Spoilt(T, Y, KeyOf(b))
               PROVE  Prior(T, b) \in rest
    BY DEF Down
  <2>1. /\ Prior(T, b) \in Bytes(T) /\ KeyOf(Prior(T, b)) = KeyOf(b)
        /\ After(T, Prior(T, b)) = b /\ ~Ends(Prior(T, b))
        /\ Rank(a, b) = Rank(a, Prior(T, b)) + 1 /\ Rank(a, Prior(T, b)) \in Nat
    BY PriorIs, Ranks, SMTT(30)
  <2>2. Prior(T, b) \in all
    BY <1>1, MoreSpoilt DEF Down
  <2>3. b \notin r
    <3> SUFFICES ASSUME b \in r PROVE FALSE
      OBVIOUS
    <3>1. Rank(a, b) < Rank(a, b)
      BY <1>1 DEF Before
    <3> QED  BY <3>1, Ranks
  <2>4. Prior(T, b) \notin r
    BY <2>1, <2>3
  <2> QED  BY <2>2, <2>4
<1>5. Link(T, {} \cup w, rest)
  <2> SUFFICES ASSUME NEW b \in w, IsEscape(b), KeyOf(b) < Len(T)
               PROVE  First(T, KeyOf(b) + 1) \in rest
    BY DEF Link
  <2>1. First(T, KeyOf(b) + 1) \in all
    BY <1>1 DEF Link
  <2>2. /\ First(T, KeyOf(b) + 1) \in Bytes(T)
        /\ Rank(a, First(T, KeyOf(b) + 1)) = Rank(a, b) + 32
        /\ Rank(a, b) \in Nat
    BY EscapeBefore, Ranks
  <2> QED  BY <1>2, <2>1, <2>2
<1>6. Down(T, Y, c, c)
  BY <1>1, MoreSpoilt DEF Down
<1>7. \A d \in c, b \in rest : KeyOf(d) # KeyOf(b)
  BY <1>1
<1>8. Before(a, {}, p) /\ Before(a, {}, w)
  BY DEF Before
<1> QED  BY <1>1, <1>3, <1>4, <1>5, <1>6, <1>7, <1>8, AloneEmpty DEF ReadSets

(* The next byte joins what has been read. *)
LEMMA TakeSets ==
  ASSUME NEW T \in Seq(PlainKeys), NEW a \in Nat, NEW X,
         NEW r \in SUBSET Bytes(T),
         NEW p \in SUBSET Bytes(T), NEW c \in SUBSET Bytes(T),
         NEW w \in SUBSET Bytes(T),
         NEW q \in SUBSET Bytes(T), NEW v \in SUBSET Bytes(T), NEW x \in Bytes(T),
         ReadSets(T, X, a, r, p, c, w),
         q \subseteq p, p \cup w = {x} \cup (q \cup v), v \subseteq w,
         p \subseteq q \cup {x},
         Before(a, {x}, q), Before(a, {x}, v),
         r = {} /\ x \in p /\ IsEscape(x) => First(T, KeyOf(x) + 1) \in p
  PROVE  ReadSets(T, X, a, r \cup {x}, q, c, v)
<1> DEFINE all == r \cup p \cup w
           more == (r \cup {x}) \cup q \cup v
<1>1. /\ Up(T, all, all) /\ Down(T, X, all, all)
      /\ Link(T, Alone(r) \cup w, all) /\ Up(T, p, p)
      /\ Up(T, c, c) /\ Down(T, X, c, c)
      /\ Link(T, c, c) /\ \A d \in c : IsEscape(d) => KeyOf(d) < Len(T)
      /\ \A d \in c, b \in all : KeyOf(d) # KeyOf(b)
      /\ Before(a, r, p) /\ Before(a, r, w)
  BY DEF ReadSets
<1>2. all = more
  OBVIOUS
<1> HIDE DEF all, more
<1>3. Up(T, more, more) /\ Down(T, X, more, more)
  BY <1>1, <1>2
<1>4. Up(T, q, q)
  <2> SUFFICES ASSUME NEW b \in q, ~Ends(b) PROVE After(T, b) \in q
    BY DEF Up
  <2>1. After(T, b) \in Bytes(T) /\ Rank(a, After(T, b)) = Rank(a, b) + 1
          /\ Rank(a, b) \in Nat
    BY AfterIs, Ranks
  <2>2. After(T, b) \in p
    BY <1>1 DEF Up
  <2>3. Rank(a, x) < Rank(a, b)
    BY DEF Before
  <2>4. After(T, b) # x
    BY <2>1, <2>3, Ranks
  <2> QED  BY <2>2, <2>4
<1>5. \A d \in c, b \in more : KeyOf(d) # KeyOf(b)
  BY <1>1, <1>2
<1>6. Before(a, r \cup {x}, q) /\ Before(a, r \cup {x}, v)
  BY <1>1 DEF Before
<1>7. Link(T, Alone(r \cup {x}) \cup v, more)
  <2> SUFFICES ASSUME NEW b \in Alone(r \cup {x}) \cup v, IsEscape(b), KeyOf(b) < Len(T)
               PROVE  First(T, KeyOf(b) + 1) \in all
    BY <1>2 DEF Link
  <2>1. CASE b \in v
    BY <1>1, <2>1 DEF Link
  <2>2. CASE b \in Alone(r \cup {x}) /\ r # {}
    <3>1. r = {x} /\ b = x
      BY <2>2 DEF Alone
    <3>2. b \in Alone(r)
      BY <3>1 DEF Alone
    <3> QED  BY <1>1, <3>2 DEF Link
  <2>3. CASE b \in Alone(r \cup {x}) /\ r = {}
    <3>1. b = x
      BY <2>3 DEF Alone
    <3>2. CASE x \in p
      BY <2>3, <3>1, <3>2 DEF all
    <3>3. CASE x \in w
      BY <1>1, <3>1, <3>3 DEF Link
    <3> QED  BY <3>2, <3>3
  <2> QED  BY <2>1, <2>2, <2>3
<1> QED  BY <1>1, <1>3, <1>4, <1>5, <1>6, <1>7 DEF ReadSets, more

(* The report is read, to its end: d stays of the channel, and z is its    *)
(* last byte.                                                              *)
ReportRead(a, p, b, c, d, w, f, z) ==
  /\ \A e \in b \cup c : e \in d \/ KeyOf(e) = NoKey
  /\ d \subseteq c
  /\ f \in b /\ KeyOf(f) = NoKey
  /\ \A e \in p \cup d \cup w : KeyOf(e) # NoKey
  /\ Before(a, p, b) /\ Before(a, b, d) /\ Before(a, b, w)
  /\ Before(a, p, d) /\ Before(a, p, w) /\ Before(a, d, w)
  /\ d # {} => /\ z \in d /\ Ends(z) /\ ~IsEscape(z)
                /\ \A e \in d : e = z \/ Rank(a, e) < Rank(a, z)

(* The position is found: the report goes, d stays in the channel, and it  *)
(* ends with the end of a key.                                             *)
LEMMA FoundSets ==
  ASSUME NEW T \in Seq(PlainKeys), NEW a \in Nat, NEW X,
         NEW p \in SUBSET Bytes(T), NEW b \in SUBSET Bytes(T),
         NEW c \in SUBSET Bytes(T),
         NEW d \in SUBSET Bytes(T), NEW w \in SUBSET Bytes(T),
         NEW z, NEW f \in Bytes(T),
         AskSets(T, X, p, b, c, w),
         ReportRead(a, p, b, c, d, w, f, z)
  PROVE  ReadSets(T, X, a, {}, p, d, w)
<1> SUFFICES ASSUME
         \A e \in b \cup c : e \in d \/ KeyOf(e) = NoKey, d \subseteq c,
         f \in b, KeyOf(f) = NoKey,
         \A e \in p \cup d \cup w : KeyOf(e) # NoKey,
         Before(a, p, b), Before(a, b, d), Before(a, b, w), Before(a, p, d),
         Before(a, p, w), Before(a, d, w),
         d # {} => /\ z \in d /\ Ends(z) /\ ~IsEscape(z)
                   /\ \A e \in d : e = z \/ Rank(a, e) < Rank(a, z)
      PROVE  ReadSets(T, X, a, {}, p, d, w)
  BY DEF ReportRead
<1> DEFINE all == p \cup b \cup c \cup w
           rest == {} \cup p \cup w
<1>1. Up(T, all, all) /\ Down(T, X, all, all)
        /\ Link(T, b \cup c \cup w, b \cup c \cup w)
  BY DEF AskSets
<1>2. \A e \in all : e \in p \/ e \in d \/ e \in w \/ KeyOf(e) = NoKey
  OBVIOUS
<1>3. \A e \in p \cup d \cup w : e \in all /\ e \in Bytes(T) /\ KeyOf(e) # NoKey
  OBVIOUS
<1> HIDE DEF all
<1>4. /\ \A e \in p : KeyOf(e) <= a
      /\ \A e \in d \cup w : KeyOf(e) > a
  <2>1. /\ Rank(a, f) = (32 * a + 16) + Nth(f) /\ Nth(f) \in Nat /\ Nth(f) >= 1
        /\ Nth(f) <= 10
    BY Ranks
  <2>2. ASSUME NEW e \in p PROVE KeyOf(e) <= a
    <3>1. Rank(a, e) = 32 * KeyOf(e) + Nth(e) /\ Nth(e) \in Nat /\ KeyOf(e) \in Nat
            /\ Nth(e) >= 1
      BY <1>3, Ranks
    <3>2. Rank(a, e) < Rank(a, f)
      BY DEF Before
    <3> QED  BY <2>1, <3>1, <3>2
  <2>3. ASSUME NEW e \in d \cup w PROVE KeyOf(e) > a
    <3>0. e \in Bytes(T) /\ KeyOf(e) # NoKey
      BY <1>3
    <3>1. /\ Rank(a, e) = 32 * KeyOf(e) + Nth(e) /\ Nth(e) \in Nat /\ KeyOf(e) \in Nat
          /\ Nth(e) <= 10
      BY <3>0, Ranks
    <3>2. Rank(a, f) < Rank(a, e)
      BY DEF Before
    <3> QED  BY <2>1, <3>1, <3>2
  <2> QED  BY <2>2, <2>3
<1>5. ASSUME NEW e \in p, NEW g \in d \cup w PROVE KeyOf(e) # KeyOf(g)
  <2>1. KeyOf(e) \in Nat /\ KeyOf(g) \in Nat
    BY <1>3, Ranks
  <2>2. KeyOf(e) <= a /\ KeyOf(g) > a
    BY <1>4
  <2> QED  BY <2>1, <2>2
<1>6. ASSUME NEW e \in d, NEW g \in w PROVE KeyOf(e) # KeyOf(g)
  <2> SUFFICES ASSUME KeyOf(e) = KeyOf(g) PROVE FALSE
    OBVIOUS
  <2>1. z \in d /\ Ends(z) /\ (e = z \/ Rank(a, e) < Rank(a, z))
    OBVIOUS
  <2>2. Rank(a, z) < Rank(a, g)
    BY <2>1 DEF Before
  <2>3. /\ Rank(a, z) = 32 * KeyOf(z) + Nth(z) /\ Nth(z) \in Nat /\ KeyOf(z) \in Nat
        /\ Nth(z) <= 10 /\ Nth(z) >= 1
    BY <1>3, <2>1, Ranks
  <2>4. /\ Rank(a, e) = 32 * KeyOf(e) + Nth(e) /\ Nth(e) \in Nat /\ KeyOf(e) \in Nat
        /\ Nth(e) <= 10 /\ Nth(e) >= 1
    BY <1>3, Ranks
  <2>5. /\ Rank(a, g) = 32 * KeyOf(g) + Nth(g) /\ Nth(g) \in Nat /\ KeyOf(g) \in Nat
        /\ Nth(g) <= 10 /\ Nth(g) >= 1
    BY <1>3, Ranks
  <2>6. KeyOf(z) = KeyOf(g) /\ Nth(z) < Nth(g)
    BY <2>1, <2>2, <2>3, <2>4, <2>5, SMTT(30)
  <2>7. Nth(z) = Size(T, KeyOf(z))
    BY <1>3, <2>1, ByteIs
  <2>8. Nth(g) \in 1..Size(T, KeyOf(g)) /\ Size(T, KeyOf(g)) \in Nat
    BY <1>3, ByteIs
  <2> QED  BY <2>6, <2>7, <2>8
<1>7. ASSUME NEW e \in p \cup d \cup w, ~Ends(e)
      PROVE  /\ After(T, e) \in p \cup d \cup w
             /\ KeyOf(After(T, e)) = KeyOf(e)
  <2>1. e \in all /\ e \in Bytes(T) /\ KeyOf(e) # NoKey
    BY <1>3
  <2>2. After(T, e) \in all /\ KeyOf(After(T, e)) = KeyOf(e)
    BY <1>1, <1>7, <2>1, AfterIs DEF Up
  <2> QED  BY <1>2, <2>1, <2>2
<1>8. ASSUME NEW e \in p \cup d \cup w, Nth(e) > 1, ~Spoilt(T, X, KeyOf(e))
      PROVE  /\ Prior(T, e) \in p \cup d \cup w
             /\ KeyOf(Prior(T, e)) = KeyOf(e)
  <2>1. e \in all /\ e \in Bytes(T) /\ KeyOf(e) # NoKey
    BY <1>3
  <2>2. Nth(e) # 1
    BY <1>8, <2>1, Ranks
  <2>3. Prior(T, e) \in all /\ KeyOf(Prior(T, e)) = KeyOf(e)
    BY <1>1, <1>8, <2>1, <2>2, PriorIs DEF Down
  <2> QED  BY <1>2, <2>1, <2>3
<1>9. Up(T, rest, rest) /\ Up(T, p, p) /\ Up(T, d, d)
  <2>1. ASSUME NEW e \in p, ~Ends(e) PROVE After(T, e) \in p
    BY <1>5, <1>7, <2>1
  <2>2. ASSUME NEW e \in d, ~Ends(e) PROVE After(T, e) \in d
    BY <1>5, <1>6, <1>7, <2>2
  <2>3. ASSUME NEW e \in w, ~Ends(e) PROVE After(T, e) \in w
    BY <1>5, <1>6, <1>7, <2>3
  <2> QED  BY <2>1, <2>2, <2>3 DEF Up
<1>10. Down(T, X, rest, rest) /\ Down(T, X, d, d)
  <2>1. ASSUME NEW e \in p, Nth(e) > 1, ~Spoilt(T, X, KeyOf(e)) PROVE Prior(T, e) \in p
    BY <1>5, <1>8, <2>1
  <2>2. ASSUME NEW e \in d, Nth(e) > 1, ~Spoilt(T, X, KeyOf(e)) PROVE Prior(T, e) \in d
    BY <1>5, <1>6, <1>8, <2>2
  <2>3. ASSUME NEW e \in w, Nth(e) > 1, ~Spoilt(T, X, KeyOf(e)) PROVE Prior(T, e) \in w
    BY <1>5, <1>6, <1>8, <2>3
  <2> QED  BY <2>1, <2>2, <2>3 DEF Down
<1>11. ASSUME NEW e \in d \cup w, IsEscape(e), KeyOf(e) < Len(T)
       PROVE  /\ First(T, KeyOf(e) + 1) \in d \cup w
              /\ First(T, KeyOf(e) + 1) \in Bytes(T)
              /\ Rank(a, First(T, KeyOf(e) + 1)) = Rank(a, e) + 32
              /\ Rank(a, e) \in Nat
              /\ KeyOf(First(T, KeyOf(e) + 1)) = KeyOf(e) + 1
  <2>1. First(T, KeyOf(e) + 1) \in b \cup c \cup w
    BY <1>1, <1>11 DEF Link
  <2>2. KeyOf(First(T, KeyOf(e) + 1)) = KeyOf(e) + 1 /\ KeyOf(e) \in Nat
    BY <1>3, <1>11, EscapeBefore, Ranks, ZenonT(40)
  <2>3. KeyOf(First(T, KeyOf(e) + 1)) # NoKey
    BY <2>2 DEF NoKey
  <2>4. First(T, KeyOf(e) + 1) \in d \cup w
    BY <2>1, <2>3
  <2>5. e \in Bytes(T)
    BY <1>3
  <2> QED  BY <1>11, <2>2, <2>4, <2>5, EscapeBefore, Ranks
<1>12. Link(T, {} \cup w, rest)
  <2> SUFFICES ASSUME NEW e \in w, IsEscape(e), KeyOf(e) < Len(T)
               PROVE  First(T, KeyOf(e) + 1) \in w
    BY DEF Link
  <2>1. First(T, KeyOf(e) + 1) \in d => Rank(a, First(T, KeyOf(e) + 1)) < Rank(a, e)
    BY DEF Before
  <2>2. /\ First(T, KeyOf(e) + 1) \in d \cup w
        /\ Rank(a, First(T, KeyOf(e) + 1)) = Rank(a, e) + 32 /\ Rank(a, e) \in Nat
    BY <1>11
  <2> QED  BY <2>1, <2>2
<1>13. ASSUME NEW e \in d, IsEscape(e)
       PROVE  KeyOf(e) < Len(T) /\ First(T, KeyOf(e) + 1) \in d
  <2>1. z \in d /\ Ends(z) /\ ~IsEscape(z) /\ (e = z \/ Rank(a, e) < Rank(a, z))
    OBVIOUS
  <2>2. /\ Rank(a, z) = 32 * KeyOf(z) + Nth(z) /\ Nth(z) \in Nat /\ KeyOf(z) \in Nat
        /\ Nth(z) <= 10 /\ Nth(z) >= 1 /\ KeyOf(z) <= Len(T)
    BY <1>3, <2>1, Ranks
  <2>3. /\ Rank(a, e) = 32 * KeyOf(e) + 1 /\ KeyOf(e) \in Nat /\ Nth(e) = 1
        /\ KeyOf(e) <= Len(T) /\ Ends(e)
    BY <1>3, <1>13, Ranks, EscapeIs
  <2>4. KeyOf(e) # KeyOf(z)
    <3> SUFFICES ASSUME KeyOf(e) = KeyOf(z) PROVE FALSE
      OBVIOUS
    <3>1. Nth(e) = Size(T, KeyOf(e)) /\ Nth(z) = Size(T, KeyOf(z))
      BY <1>3, <2>1, <2>3, ByteIs
    <3>2. Rank(a, e) = Rank(a, z)
      BY <3>1, <2>2, <2>3
    <3>3. e = z
      BY <1>3, <2>1, <3>2, SameRank
    <3> QED  BY <1>13, <2>1, <3>3
  <2>5. KeyOf(e) < KeyOf(z)
    BY <2>1, <2>2, <2>3, <2>4
  <2>6. KeyOf(e) < Len(T)
    BY <2>2, <2>3, <2>5
  <2>7. First(T, KeyOf(e) + 1) \in w => Rank(a, z) < Rank(a, First(T, KeyOf(e) + 1))
    BY <2>1 DEF Before
  <2>8. Rank(a, First(T, KeyOf(e) + 1)) = 32 * (KeyOf(e) + 1) + 1
          /\ First(T, KeyOf(e) + 1) \in d \cup w
    BY <1>11, <1>13, <2>3, <2>6
  <2>9. First(T, KeyOf(e) + 1) \notin w
    BY <2>2, <2>3, <2>5, <2>7, <2>8
  <2> QED  BY <2>6, <2>8, <2>9
<1>14. Link(T, d, d) /\ \A e \in d : IsEscape(e) => KeyOf(e) < Len(T)
  BY <1>13 DEF Link
<1>15. \A e \in d, g \in rest : KeyOf(e) # KeyOf(g)
  BY <1>5, <1>6
<1>16. Before(a, {}, p) /\ Before(a, {}, w)
  BY DEF Before
<1> QED  BY <1>9, <1>10, <1>12, <1>14, <1>15, <1>16, AloneEmpty DEF ReadSets

(* Of what comes next, the least. *)
LEMMA LeastIs ==
  ASSUME NEW T \in Seq(PlainKeys), NEW a \in Nat, NEW S \in SUBSET Bytes(T),
         NEW x \in S, \A e \in S : e = x \/ Rank(a, x) < Rank(a, e),
         NEW y \in S, NEW z \in Bytes(T), Rank(a, z) < Rank(a, x),
         Rank(a, y) = Rank(a, z) + 1
  PROVE  x = y
<1>1. Rank(a, z) \in Nat /\ Rank(a, x) \in Nat /\ Rank(a, y) \in Nat
  BY Ranks
<1>2. Rank(a, x) = Rank(a, y) \/ Rank(a, x) > Rank(a, y)
  BY <1>1
<1>3. y = x \/ Rank(a, x) < Rank(a, y)
  OBVIOUS
<1> QED  BY <1>1, <1>2, <1>3, SameRank

(* The byte behind an Escape begins the next key, or the report. *)
LEMMA BehindEscape ==
  ASSUME NEW T \in Seq(PlainKeys), NEW a \in Nat, NEW S \in SUBSET Bytes(T),
         NEW x \in S, \A e \in S : e = x \/ Rank(a, x) < Rank(a, e),
         NEW z \in Bytes(T), IsEscape(z), Rank(a, z) < Rank(a, x),
         KeyOf(z) < Len(T) => First(T, KeyOf(z) + 1) \in S
  PROVE  \/ KeyOf(x) = NoKey
         \/ KeyOf(z) < Len(T) /\ x = First(T, KeyOf(z) + 1)
<1> SUFFICES ASSUME KeyOf(x) # NoKey
             PROVE  KeyOf(z) < Len(T) /\ x = First(T, KeyOf(z) + 1)
  OBVIOUS
<1>1. /\ KeyOf(z) \in 1..Len(T) /\ T[KeyOf(z)] = "Escape" /\ Nth(z) = 1 /\ Ends(z)
  BY EscapeIs
<1>2. Rank(a, z) = 32 * KeyOf(z) + 1 /\ KeyOf(z) \in Nat
  BY <1>1 DEF Rank, NoKey
<1>3. /\ Rank(a, x) = 32 * KeyOf(x) + Nth(x) /\ KeyOf(x) \in Nat /\ KeyOf(x) <= Len(T)
      /\ Nth(x) \in Nat /\ Nth(x) >= 1 /\ Nth(x) <= 10
  BY Ranks
<1>4. KeyOf(z) # KeyOf(x)
  <2> SUFFICES ASSUME KeyOf(z) = KeyOf(x) PROVE FALSE
    OBVIOUS
  <2>1. Nth(z) = Size(T, KeyOf(z)) /\ Nth(x) \in 1..Size(T, KeyOf(x))
    BY <1>1, ByteIs
  <2>2. Nth(x) = 1
    BY <1>1, <2>1
  <2> QED  BY <1>2, <1>3, <2>2
<1>5. KeyOf(z) < KeyOf(x)
  BY <1>2, <1>3, <1>4
<1>6. KeyOf(z) < Len(T)
  BY <1>2, <1>3, <1>5
<1>7. /\ First(T, KeyOf(z) + 1) \in S
      /\ Rank(a, First(T, KeyOf(z) + 1)) = 32 * (KeyOf(z) + 1) + 1
  BY <1>2, <1>6, EscapeBefore
<1>8. First(T, KeyOf(z) + 1) = x \/ Rank(a, x) < Rank(a, First(T, KeyOf(z) + 1))
  BY <1>7
<1>9. First(T, KeyOf(z) + 1) = x
  BY <1>2, <1>3, <1>5, <1>7, <1>8
<1> QED  BY <1>6, <1>9

(* x is the first of the bytes S. *)
LeastOf(a, x, S) == x \in S /\ \A e \in S : e = x \/ Rank(a, x) < Rank(a, e)

(* What the decoder reads next. *)
Follows(T, X, r, x) ==
  /\ r = {} => Nth(x) = 1 \/ Spoilt(T, X, KeyOf(x))
  /\ \A z \in r : ~Ends(z) /\ After(T, z) \notin r => x = After(T, z)
  /\ \A z \in Alone(r) : IsEscape(z) /\ KeyOf(x) # NoKey =>
       KeyOf(z) < Len(T) /\ x = First(T, KeyOf(z) + 1)

(* The first byte in front of the decoder goes on with what it has read. *)
LEMMA NextRead ==
  ASSUME NEW T \in Seq(PlainKeys), NEW a \in Nat, NEW X,
         NEW r \in SUBSET Bytes(T),
         NEW p \in SUBSET Bytes(T), NEW c \in SUBSET Bytes(T),
         NEW w \in SUBSET Bytes(T),
         ReadSets(T, X, a, r, p, c, w),
         NEW x, LeastOf(a, x, p \cup w)
  PROVE  Follows(T, X, r, x)
<1> SUFFICES ASSUME x \in p \cup w, \A e \in p \cup w : e = x \/ Rank(a, x) < Rank(a, e)
             PROVE  Follows(T, X, r, x)
  BY DEF LeastOf
<1> DEFINE all == r \cup p \cup w
<1>1. /\ Up(T, all, all) /\ Down(T, X, all, all) /\ Link(T, Alone(r) \cup w, all)
      /\ Before(a, r, p) /\ Before(a, r, w)
  BY DEF ReadSets
<1>2. ASSUME r = {}, Nth(x) # 1, ~Spoilt(T, X, KeyOf(x)) PROVE FALSE
  <2>1. Nth(x) > 1
    BY <1>2, Ranks
  <2>2. Prior(T, x) \in p \cup w
    BY <1>1, <1>2, <2>1 DEF Down
  <2>3. Rank(a, x) = Rank(a, Prior(T, x)) + 1 /\ Rank(a, Prior(T, x)) \in Nat
    BY <1>2, PriorIs, Ranks
  <2>4. Prior(T, x) = x \/ Rank(a, x) < Rank(a, Prior(T, x))
    BY <2>2
  <2> QED  BY <2>3, <2>4
<1>3. ASSUME NEW z \in r, ~Ends(z), After(T, z) \notin r PROVE x = After(T, z)
  <2>1. After(T, z) \in p \cup w
    BY <1>1, <1>3 DEF Up
  <2>2. Rank(a, z) < Rank(a, x)
    BY <1>1 DEF Before
  <2>3. Rank(a, After(T, z)) = Rank(a, z) + 1
    BY <1>3, AfterIs
  <2> DEFINE S == p \cup w
  <2>4. /\ S \in SUBSET Bytes(T) /\ x \in S /\ After(T, z) \in S
        /\ \A e \in S : e = x \/ Rank(a, x) < Rank(a, e)
    BY <2>1
  <2> HIDE DEF S
  <2> QED  BY <2>2, <2>3, <2>4, LeastIs
<1>4. ASSUME NEW z \in Alone(r), IsEscape(z), KeyOf(x) # NoKey
      PROVE  KeyOf(z) < Len(T) /\ x = First(T, KeyOf(z) + 1)
  <2>1. r = {z} /\ z \in Bytes(T)
    BY DEF Alone
  <2>2. Rank(a, z) < Rank(a, x)
    BY <1>1, <2>1 DEF Before
  <2>3. KeyOf(z) < Len(T) => First(T, KeyOf(z) + 1) \in p \cup w
    <3> SUFFICES ASSUME KeyOf(z) < Len(T) PROVE First(T, KeyOf(z) + 1) \in p \cup w
      OBVIOUS
    <3>1. First(T, KeyOf(z) + 1) \in all
      BY <1>1, <1>4 DEF Link
    <3>2. Rank(a, First(T, KeyOf(z) + 1)) = Rank(a, z) + 32 /\ Rank(a, z) \in Nat
      BY <1>4, <2>1, EscapeBefore, Ranks
    <3>3. First(T, KeyOf(z) + 1) # z
      BY <3>2
    <3> QED  BY <2>1, <3>1, <3>3
  <2> DEFINE S == p \cup w
  <2>4. /\ S \in SUBSET Bytes(T) /\ x \in S
        /\ \A e \in S : e = x \/ Rank(a, x) < Rank(a, e)
        /\ KeyOf(z) < Len(T) => First(T, KeyOf(z) + 1) \in S
    BY <2>3
  <2> HIDE DEF S
  <2> QED  BY <1>4, <2>1, <2>2, <2>4, BehindEscape
<1> QED  BY <1>2, <1>3, <1>4 DEF Follows

(* What get_cursor_position reads next. *)
FollowsAsked(T, b, x) ==
  /\ KeyOf(x) = NoKey /\ ~Held(b, NoKey) => x = First(T, NoKey)
  /\ \A z \in b : ~Ends(z) /\ After(T, z) \notin b => x = After(T, z)
  /\ \A z \in Alone(b) : IsEscape(z) =>
       \/ x = First(T, NoKey)
       \/ KeyOf(z) < Len(T) /\ x = First(T, KeyOf(z) + 1)

(* The first byte of the channel goes on with what was collected. *)
LEMMA NextAsked ==
  ASSUME NEW T \in Seq(PlainKeys), NEW a \in Nat, NEW X,
         NEW p \in SUBSET Bytes(T), NEW b \in SUBSET Bytes(T),
         NEW c \in SUBSET Bytes(T), NEW w \in SUBSET Bytes(T),
         AskSets(T, X, p, b, c, w), ~Held(p, NoKey),
         Before(a, p, b), Before(a, p, c), Before(a, p, w), Before(a, b, c),
         Before(a, b, w),
         NEW x, LeastOf(a, x, c \cup w)
  PROVE  FollowsAsked(T, b, x)
<1> SUFFICES ASSUME x \in c \cup w, \A e \in c \cup w : e = x \/ Rank(a, x) < Rank(a, e)
             PROVE  FollowsAsked(T, b, x)
  BY DEF LeastOf
<1> DEFINE all == p \cup b \cup c \cup w
<1>1. /\ Up(T, all, all) /\ Down(T, X, all, all)
      /\ Link(T, b \cup c \cup w, b \cup c \cup w)
  BY DEF AskSets
<1>2. ASSUME KeyOf(x) = NoKey, ~Held(b, NoKey) PROVE x = First(T, NoKey)
  <2>1. ASSUME Nth(x) # 1 PROVE FALSE
    <3>1. Nth(x) > 1
      BY <2>1, Ranks
    <3>2. Prior(T, x) \in all
      BY <1>1, <1>2, <3>1 DEF Down, Spoilt
    <3>3. /\ Rank(a, x) = Rank(a, Prior(T, x)) + 1 /\ Rank(a, Prior(T, x)) \in Nat
          /\ KeyOf(Prior(T, x)) = NoKey
      BY <1>2, <2>1, PriorIs, Ranks
    <3>4. Prior(T, x) \in c \cup w
      BY <1>2, <3>2, <3>3 DEF Held
    <3>5. Prior(T, x) = x \/ Rank(a, x) < Rank(a, Prior(T, x))
      BY <3>4
    <3> QED  BY <3>3, <3>5
  <2> QED  BY <1>2, <2>1, FirstByte
<1>3. ASSUME NEW z \in b, ~Ends(z), After(T, z) \notin b PROVE x = After(T, z)
  <2>1. After(T, z) \in all
    BY <1>1, <1>3 DEF Up
  <2>2. Rank(a, z) < Rank(a, x)
    BY DEF Before
  <2>3. Rank(a, After(T, z)) = Rank(a, z) + 1 /\ Rank(a, z) \in Nat
    BY <1>3, AfterIs, Ranks
  <2>4. After(T, z) \notin p
    <3> SUFFICES ASSUME After(T, z) \in p PROVE FALSE
      OBVIOUS
    <3>1. Rank(a, After(T, z)) < Rank(a, z)
      BY DEF Before
    <3> QED  BY <2>3, <3>1
  <2>5. After(T, z) \in c \cup w
    BY <1>3, <2>1, <2>4
  <2> DEFINE S == c \cup w
  <2>6. /\ S \in SUBSET Bytes(T) /\ x \in S /\ After(T, z) \in S
        /\ \A e \in S : e = x \/ Rank(a, x) < Rank(a, e)
    BY <2>5
  <2> HIDE DEF S
  <2> QED  BY <2>2, <2>3, <2>6, LeastIs
<1>4. ASSUME NEW z \in Alone(b), IsEscape(z)
      PROVE  \/ x = First(T, NoKey)
             \/ KeyOf(z) < Len(T) /\ x = First(T, KeyOf(z) + 1)
  <2>0. b = {z} /\ z \in Bytes(T)
    BY DEF Alone
  <2>a. KeyOf(z) \in 1..Len(T)
    BY <1>4, <2>0, EscapeIs
  <2>b. KeyOf(z) # NoKey
    BY <2>a DEF NoKey
  <2>1. b = {z} /\ z \in Bytes(T) /\ KeyOf(z) # NoKey
    BY <2>0, <2>b
  <2>2. Rank(a, z) < Rank(a, x)
    BY <2>1 DEF Before
  <2>3. KeyOf(z) < Len(T) => First(T, KeyOf(z) + 1) \in c \cup w
    <3> SUFFICES ASSUME KeyOf(z) < Len(T) PROVE First(T, KeyOf(z) + 1) \in c \cup w
      OBVIOUS
    <3>1. First(T, KeyOf(z) + 1) \in b \cup c \cup w
      BY <1>1, <1>4, <2>1 DEF Link
    <3>2. Rank(a, First(T, KeyOf(z) + 1)) = Rank(a, z) + 32 /\ Rank(a, z) \in Nat
      BY <1>4, <2>1, EscapeBefore, Ranks
    <3>3. First(T, KeyOf(z) + 1) # z
      BY <3>2
    <3> QED  BY <2>1, <3>1, <3>3
  <2>4. ~Held(b, NoKey)
    BY <2>1 DEF Held
  <2>5. KeyOf(x) = NoKey \/ (KeyOf(z) < Len(T) /\ x = First(T, KeyOf(z) + 1))
    <3> DEFINE S == c \cup w
    <3>1. /\ S \in SUBSET Bytes(T) /\ x \in S
          /\ \A e \in S : e = x \/ Rank(a, x) < Rank(a, e)
          /\ KeyOf(z) < Len(T) => First(T, KeyOf(z) + 1) \in S
      BY <2>3
    <3> HIDE DEF S
    <3> QED  BY <1>4, <2>1, <2>2, <3>1, BehindEscape
  <2> QED  BY <1>2, <2>4, <2>5
<1> QED  BY <1>2, <1>3, <1>4 DEF FollowsAsked

(* get_cursor_position has put e aside, of the bytes it reads. *)
LEMMA PutAsideSets ==
  ASSUME NEW T \in Seq(PlainKeys), NEW a \in Nat, NEW X,
         NEW p \in SUBSET Bytes(T), NEW b \in SUBSET Bytes(T),
         NEW c \in SUBSET Bytes(T), NEW w \in SUBSET Bytes(T),
         AskSets(T, X, p, b, c, w),
         NEW q \in SUBSET Bytes(T), NEW g \in SUBSET Bytes(T),
         NEW d \in SUBSET Bytes(T), NEW v \in SUBSET Bytes(T),
         g \cup d \cup v \subseteq b \cup c \cup w,
         p \cup b \cup c \cup w = q \cup g \cup d \cup v,
         Before(a, q, g \cup d \cup v)
  PROVE  AskSets(T, X, q, g, d, v)
<1> DEFINE all == p \cup b \cup c \cup w
           same == q \cup g \cup d \cup v
           old == b \cup c \cup w
           new == g \cup d \cup v
<1>1. Up(T, all, all) /\ Down(T, X, all, all) /\ Link(T, old, old)
  BY DEF AskSets
<1>2. all = same
  OBVIOUS
<1>3. \A e \in old : e \in new \/ e \in q
  OBVIOUS
<1>4. ASSUME NEW e \in new, IsEscape(e), KeyOf(e) < Len(T)
      PROVE  First(T, KeyOf(e) + 1) \in new
  <2>1. e \in old /\ e \in Bytes(T)
    OBVIOUS
  <2>2. First(T, KeyOf(e) + 1) \in old
    BY <1>1, <1>4, <2>1 DEF Link
  <2>3. Rank(a, First(T, KeyOf(e) + 1)) = Rank(a, e) + 32 /\ Rank(a, e) \in Nat
    BY <1>4, <2>1, EscapeBefore, Ranks
  <2>4. First(T, KeyOf(e) + 1) \in q => Rank(a, First(T, KeyOf(e) + 1)) < Rank(a, e)
    BY DEF Before
  <2> QED  BY <1>3, <2>2, <2>3, <2>4
<1> HIDE DEF all, same, old, new
<1>5. Link(T, new, new)
  BY <1>4 DEF Link
<1> QED  BY <1>1, <1>2, <1>5 DEF AskSets, all, same, old, new

-----------------------------------------------------------------------------
(* Escapes in what has been put aside *)

(* What x is behind: a lone ESC, or something that x, no such ESC, ends    *)
(* or goes on with.                                                        *)
Behind(T, r, x) ==
  /\ \A z \in Alone(r) : IsEscape(z) => x = First(T, KeyOf(z) + 1)
       /\ KeyOf(z) < Len(T) /\ x # z
  /\ r = {} \/ (\E z \in Alone(r) : IsEscape(z)) \/ ~IsEscape(x)

(* Some Escapes of D begin the pairs of p. *)
Paired(T, D, r, p) == \E N \in SUBSET D : PairSets(T, N, r, p)

(* The decoder takes x, the least of p. *)
LEMMA PairTake ==
  ASSUME NEW T \in Seq(PlainKeys), NEW a \in Nat,
         NEW r \in SUBSET Bytes(T), NEW p \in SUBSET Bytes(T),
         NEW q \in SUBSET Bytes(T),
         NEW O, PairSets(T, O, r, p),
         NEW x \in p, p = {x} \cup q, Before(a, {x}, q),
         Behind(T, r, x)
  PROVE  /\ r = {} /\ IsEscape(x) => First(T, KeyOf(x) + 1) \in p
         /\ Paired(T, O, r \cup {x}, q)
<1> SUFFICES ASSUME \A z \in Alone(r) : IsEscape(z) =>
                      x = First(T, KeyOf(z) + 1) /\ KeyOf(z) < Len(T) /\ x # z,
                    r = {} \/ (\E z \in Alone(r) : IsEscape(z)) \/ ~IsEscape(x)
             PROVE  /\ r = {} /\ IsEscape(x) => First(T, KeyOf(x) + 1) \in p
                    /\ \E N \in SUBSET O : PairSets(T, N, r \cup {x}, q)
  BY DEF Behind, Paired
<1>1. /\ \A j \in O : /\ j \in 1..(Len(T) - 1) /\ IsEscape(First(T, j))
                      /\ First(T, j) \in p /\ First(T, j + 1) \in p /\ j + 1 \notin O
      /\ \A b \in p : IsEscape(b) /\ KeyOf(b) \notin O =>
           \/ KeyOf(b) - 1 \in O
           \/ \E c \in Alone(r) : IsEscape(c) /\ KeyOf(c) = KeyOf(b) - 1
      /\ \A c \in Alone(r) : IsEscape(c) => KeyOf(c) + 1 \notin O
  BY DEF PairSets
<1>2. \A e \in p : Rank(a, e) \in Nat /\ KeyOf(e) \in Nat
        /\ (e \in q => Rank(a, x) < Rank(a, e))
  BY Ranks DEF Before
<1>3. x \notin q
  BY <1>2
<1>4. ASSUME NEW j \in O
      PROVE  /\ KeyOf(First(T, j)) = j /\ First(T, j + 1) # x /\ First(T, j + 1) \in q
             /\ KeyOf(First(T, j + 1)) = j + 1 /\ j \in Nat
  <2>1. j \in 0..Len(T) /\ j + 1 \in 0..Len(T) /\ j # NoKey /\ j + 1 # NoKey
    BY <1>1 DEF NoKey
  <2>2. /\ KeyOf(First(T, j)) = j /\ Nth(First(T, j)) = 1
        /\ KeyOf(First(T, j + 1)) = j + 1 /\ Nth(First(T, j + 1)) = 1
    BY <2>1, FirstIs
  <2>3. Rank(a, First(T, j)) < Rank(a, First(T, j + 1))
    BY <2>1, <2>2 DEF Rank
  <2>4. First(T, j) \in p /\ First(T, j + 1) \in p
    BY <1>1
  <2>5. First(T, j + 1) # x
    <3> SUFFICES ASSUME First(T, j + 1) = x PROVE FALSE
      OBVIOUS
    <3>1. First(T, j) = x \/ Rank(a, x) < Rank(a, First(T, j))
      BY <1>2, <2>4
    <3> QED  BY <1>2, <2>3, <2>4, <3>1
  <2> QED  BY <2>1, <2>2, <2>4, <2>5
<1>5. CASE r = {} /\ IsEscape(x)
  <2>1. KeyOf(x) \in O
    <3> SUFFICES ASSUME KeyOf(x) \notin O PROVE FALSE
      OBVIOUS
    <3>1. KeyOf(x) - 1 \in O
      BY <1>1, <1>5 DEF Alone
    <3>2. First(T, (KeyOf(x) - 1) + 1) # x
      BY <1>4, <3>1
    <3>3. (KeyOf(x) - 1) + 1 = KeyOf(x)
      BY <1>2
    <3> QED  BY <1>5, <3>2, <3>3, EscapeIs
  <2>2. First(T, KeyOf(x) + 1) \in p /\ KeyOf(x) + 1 \notin O
    BY <1>1, <2>1
  <2> DEFINE N == O \ {KeyOf(x)}
  <2>3. Alone(r \cup {x}) = {x}
    BY <1>5 DEF Alone
  <2>4. \A j \in N : First(T, j) \in q
    BY <1>1, <1>4
  <2>5. ASSUME NEW b \in q, IsEscape(b), KeyOf(b) \notin N
        PROVE  \/ KeyOf(b) - 1 \in N
               \/ \E c \in Alone(r \cup {x}) : IsEscape(c) /\ KeyOf(c) = KeyOf(b) - 1
    <3>1. b = First(T, KeyOf(b)) /\ x = First(T, KeyOf(x))
      BY <1>5, <2>5, EscapeIs
    <3>2. KeyOf(b) # KeyOf(x)
      BY <1>3, <3>1
    <3>3. KeyOf(b) - 1 \in O
      BY <1>1, <1>5, <2>5, <3>2 DEF Alone
    <3> QED  BY <1>5, <2>3, <3>3
  <2>6. PairSets(T, N, r \cup {x}, q)
    BY <1>1, <1>4, <2>2, <2>3, <2>4, <2>5 DEF PairSets
  <2> QED  BY <2>2, <2>6
<1>6. CASE r # {} \/ ~IsEscape(x)
  <2>1. ASSUME NEW j \in O PROVE First(T, j) # x
    <3> SUFFICES ASSUME First(T, j) = x PROVE FALSE
      OBVIOUS
    <3>1. IsEscape(x) /\ KeyOf(x) = j
      BY <1>1, <1>4
    <3>2. PICK z \in Alone(r) : IsEscape(z)
      BY <1>6, <3>1
    <3>3. KeyOf(z) + 1 \notin O /\ x = First(T, KeyOf(z) + 1) /\ KeyOf(z) < Len(T)
            /\ z \in Bytes(T)
      BY <1>1, <3>2 DEF Alone
    <3>4. KeyOf(x) = KeyOf(z) + 1
      BY <3>2, <3>3, EscapeBefore
    <3> QED  BY <3>1, <3>3, <3>4
  <2>2. \A j \in O : First(T, j) \in q
    BY <1>1, <2>1
  <2>3. ASSUME NEW b \in q, IsEscape(b), KeyOf(b) \notin O PROVE KeyOf(b) - 1 \in O
    <3> SUFFICES ASSUME NEW c \in Alone(r), IsEscape(c), KeyOf(c) = KeyOf(b) - 1
                 PROVE  FALSE
      BY <1>1, <2>3
    <3>1. x = First(T, KeyOf(c) + 1) /\ KeyOf(c) + 1 = KeyOf(b)
      BY <1>2
    <3>2. b = First(T, KeyOf(b))
      BY <2>3, EscapeIs
    <3> QED  BY <1>3, <3>1, <3>2
  <2>4. ASSUME NEW c \in Alone(r \cup {x}), IsEscape(c) PROVE FALSE
    <3>1. c = x /\ r \subseteq {x}
      BY DEF Alone
    <3>2. x \in r /\ r = {x}
      BY <1>6, <2>4, <3>1
    <3>3. x \in Alone(r)
      BY <3>2 DEF Alone
    <3> QED  BY <2>4, <3>1, <3>3
  <2>5. PairSets(T, O, r \cup {x}, q)
    BY <1>1, <1>4, <2>2, <2>3, <2>4 DEF PairSets
  <2> QED  BY <1>6, <2>5
<1> QED  BY <1>5, <1>6

(* What has been read goes. *)
LEMMA PairDrop ==
  ASSUME NEW T, NEW r, NEW p, NEW O, PairSets(T, O, r, p),
         p = {} \/ \A c \in Alone(r) : ~IsEscape(c)
  PROVE  PairSets(T, O, {}, p)
BY AloneEmpty DEF PairSets

(* Nothing has been put aside. *)
LEMMA PairNone ==
  ASSUME NEW T, NEW r
  PROVE  PairSets(T, {}, r, {})
BY DEF PairSets

(* Where nothing has been put aside there is no pair. *)
LEMMA PairEmpty ==
  ASSUME NEW T, NEW r, NEW O, PairSets(T, O, r, {})
  PROVE  O = {}
BY DEF PairSets

(* get_cursor_position puts bytes aside that are no Escapes. *)
LEMMA PairPut ==
  ASSUME NEW T, NEW p, NEW q, NEW O, PairSets(T, O, {}, p),
         \A b \in q : b \in p \/ ~IsEscape(b), p \subseteq q
  PROVE  PairSets(T, O, {}, q)
BY AloneEmpty DEF PairSets

(* It puts an Escape aside, and the byte behind it. *)
LEMMA PairPutEscape ==
  ASSUME NEW T \in Seq(PlainKeys), NEW a \in Nat, NEW p \in SUBSET Bytes(T),
         NEW O, PairSets(T, O, {}, p),
         NEW z \in Bytes(T), IsEscape(z), KeyOf(z) < Len(T),
         NEW x, x = First(T, KeyOf(z) + 1),
         Before(a, p, {z}), Before(a, p, {x})
  PROVE  PairSets(T, O \cup {KeyOf(z)}, {}, p \cup {z, x})
<1>1. KeyOf(z) \in 1..Len(T) /\ z = First(T, KeyOf(z)) /\ KeyOf(z) \in 1..(Len(T) - 1)
  BY EscapeIs
<1>2. x \in Bytes(T) /\ KeyOf(x) = KeyOf(z) + 1
  BY EscapeBefore
<1>3. z \notin p /\ x \notin p
  <2>1. Rank(a, z) \in Nat /\ Rank(a, x) \in Nat
    BY <1>2, Ranks
  <2> QED  BY <2>1 DEF Before
<1>4. KeyOf(z) \notin O /\ KeyOf(z) + 1 \notin O /\ KeyOf(z) - 1 \notin O
  <2>1. (KeyOf(z) - 1) + 1 = KeyOf(z)
    BY <1>1
  <2> QED  BY <1>1, <1>3, <2>1 DEF PairSets
<1>5. KeyOf(z) + 1 # KeyOf(z)
  BY <1>1
<1>6. ASSUME NEW j \in O \cup {KeyOf(z)}
      PROVE  /\ j \in 1..(Len(T) - 1) /\ IsEscape(First(T, j))
             /\ First(T, j) \in p \cup {z, x} /\ First(T, j + 1) \in p \cup {z, x}
             /\ j + 1 \notin O \cup {KeyOf(z)}
  <2>1. CASE j \in O
    <3>1. /\ j \in 1..(Len(T) - 1) /\ IsEscape(First(T, j))
          /\ First(T, j) \in p /\ First(T, j + 1) \in p /\ j + 1 \notin O
      BY <2>1 DEF PairSets
    <3>2. j + 1 # KeyOf(z)
      BY <1>1, <1>3, <3>1
    <3> QED  BY <3>1, <3>2
  <2>2. CASE j = KeyOf(z)
    BY <1>1, <1>4, <1>5, <2>2
  <2> QED  BY <2>1, <2>2
<1>7. ASSUME NEW b \in p \cup {z, x}, IsEscape(b), KeyOf(b) \notin O \cup {KeyOf(z)}
      PROVE  KeyOf(b) - 1 \in O \cup {KeyOf(z)}
  <2>1. CASE b \in p
    BY <1>7, <2>1, AloneEmpty DEF PairSets
  <2>2. CASE b = x
    BY <1>1, <1>2, <2>2
  <2> QED  BY <1>7, <2>1, <2>2
<1> QED  BY <1>6, <1>7, AloneEmpty DEF PairSets

-----------------------------------------------------------------------------
(* Runs of bytes of one key *)

(* The letters of bytes. *)
LEMMA CharsAre ==
  ASSUME NEW S, NEW s \in Seq(S)
  PROVE  /\ Chars(s) \in Seq({Letter(b) : b \in S}) /\ Len(Chars(s)) = Len(s)
         /\ \A i \in 1..Len(s) : Chars(s)[i] = Letter(s[i])
<1> DEFINE L == {Letter(b) : b \in S}
<1>1. DOMAIN s = 1..Len(s)
  OBVIOUS
<1>2. Chars(s) = [i \in 1..Len(s) |-> Letter(s[i])]
  BY <1>1 DEF Chars, Letter
<1>3. \A i \in 1..Len(s) : Letter(s[i]) \in L
  OBVIOUS
<1> HIDE DEF L
<1>4. Chars(s) \in Seq(L) /\ Len(Chars(s)) = Len(s)
  BY <1>2, <1>3
<1> QED  BY <1>2, <1>4 DEF L

(* A sequence of one element. *)
LEMMA OneIs ==
  ASSUME NEW S, NEW t \in Seq(S), Len(t) = 1
  PROVE  t = <<t[1]>>
OBVIOUS

(* What is between ESC [ and the final byte. *)
LEMMA ParamsAre ==
  ASSUME NEW S, NEW s \in Seq(S), Len(s) = 4
  PROVE  SubSeq(Chars(s), 3, Len(s) - 1) = <<Letter(s[3])>>
<1> DEFINE L == {Letter(b) : b \in S}
           c == Chars(s)
           t == SubSeq(c, 3, 3)
<1>0. c \in Seq(L) /\ Len(c) = Len(s) /\ \A i \in 1..Len(s) : c[i] = Letter(s[i])
  BY CharsAre
<1> HIDE DEF L, c
<1>1. c \in Seq(L) /\ Len(c) = 4 /\ c[3] = Letter(s[3])
  BY <1>0
<1>2. t \in Seq(L) /\ Len(t) = 1 /\ t[1] = c[3]
  <2>1. SubSeq(c, 3, 3) = [i \in 1..1 |-> c[(i + 3) - 1]]
    BY <1>1
  <2> DEFINE u == [i \in 1..1 |-> c[(i + 3) - 1]]
  <2>2. \A i \in 1..1 : c[(i + 3) - 1] = c[3]
    OBVIOUS
  <2>5. c[3] \in L
    BY <1>1, SMTT(30)
  <2>6. u = [i \in 1..1 |-> c[3]]
    BY <2>2, Zenon
  <2>3. u = [i \in 1..1 |-> c[3]] /\ c[3] \in L
    BY <2>5, <2>6
  <2>4. u \in Seq(L) /\ Len(u) = 1 /\ u[1] = c[3]
    <3> DEFINE e == c[3]
    <3>1. e \in L /\ u = [i \in 1..1 |-> e]
      BY <2>3
    <3> HIDE DEF e, u
    <3> QED  BY <3>1 DEF e
  <2> QED  BY <2>1, <2>4
<1>3. Len(s) - 1 = 3
  OBVIOUS
<1> HIDE DEF t
<1>4. t = <<t[1]>>
  BY <1>2, OneIs
<1> QED  BY <1>1, <1>2, <1>3, <1>4 DEF t, c

(* A run, its ends and its elements. *)
LEMMA RunIs ==
  ASSUME NEW T \in Seq(PlainKeys), NEW k \in 0..Len(T), NEW m \in Nat, NEW n \in Nat,
         1 <= m, m <= n, n <= Size(T, k)
  PROVE  /\ Run(T, k, m, n) \in Seq(Bytes(T)) /\ Run(T, k, m, n) # <<>>
         /\ Len(Run(T, k, m, n)) = (n - m) + 1
         /\ \A i \in 1..((n - m) + 1) : Run(T, k, m, n)[i] = Byte(T, k, (m + i) - 1)
         /\ Last(Run(T, k, m, n)) = Byte(T, k, n)
         /\ Byte(T, k, n) \in ToSet(Run(T, k, m, n))
         /\ \A b \in ToSet(Run(T, k, m, n)) :
              /\ b \in Bytes(T) /\ KeyOf(b) = k /\ Nth(b) >= m /\ Nth(b) <= n
              /\ b = Byte(T, k, n)
                   \/ (~Ends(b) /\ After(T, b) \in ToSet(Run(T, k, m, n)))
         /\ \A i \in Nat : m <= i /\ i <= n => Byte(T, k, i) \in ToSet(Run(T, k, m, n))
<1> DEFINE s == Run(T, k, m, n)
<1>0. Size(T, k) \in Nat
  BY Sizes
<1>1. \A i \in 1..((n - m) + 1) : Byte(T, k, (m + i) - 1) \in Bytes(T)
  <2> SUFFICES ASSUME NEW i \in 1..((n - m) + 1)
               PROVE  Byte(T, k, (m + i) - 1) \in Bytes(T)
    OBVIOUS
  <2>1. (m + i) - 1 \in 1..Size(T, k)
    BY <1>0
  <2> QED  BY <2>1, IsByte
<1>2. /\ s \in Seq(Bytes(T)) /\ Len(s) = (n - m) + 1
      /\ \A i \in 1..((n - m) + 1) : s[i] = Byte(T, k, (m + i) - 1)
  <2>1. s = [i \in 1..((n - m) + 1) |-> Byte(T, k, (m + i) - 1)] /\ (n - m) + 1 \in Nat
    BY DEF Run
  <2> HIDE DEF s
  <2> QED  BY <1>1, <2>1
<1> HIDE DEF s
<1>3. s # <<>>
  BY <1>2
<1>4. Last(s) = Byte(T, k, n)
  <2>1. Len(s) \in 1..((n - m) + 1) /\ (m + Len(s)) - 1 = n
    BY <1>2
  <2> QED  BY <1>2, <2>1 DEF Last
<1>5. ASSUME NEW i \in Nat, m <= i, i <= n PROVE Byte(T, k, i) \in ToSet(s)
  <2>1. (i - m) + 1 \in 1..((n - m) + 1) /\ (m + ((i - m) + 1)) - 1 = i
    BY <1>5
  <2>2. s[(i - m) + 1] = Byte(T, k, i) /\ (i - m) + 1 \in 1..Len(s)
    BY <1>2, <2>1
  <2> QED  BY <1>2, <2>2, SetOf
<1>6. ASSUME NEW b \in ToSet(s)
      PROVE  /\ b \in Bytes(T) /\ KeyOf(b) = k /\ Nth(b) >= m /\ Nth(b) <= n
             /\ b = Byte(T, k, n) \/ (~Ends(b) /\ After(T, b) \in ToSet(s))
  <2>1. PICK i \in 1..((n - m) + 1) : b = Byte(T, k, (m + i) - 1)
    <3>1. PICK i \in 1..Len(s) : s[i] = b
      BY <1>2, SetOf
    <3> QED  BY <1>2, <3>1
  <2>2. b \in Bytes(T) /\ KeyOf(b) = k /\ Nth(b) = (m + i) - 1
    BY <1>1, <2>1, ByteFields, ZenonT(40)
  <2>3. Nth(b) >= m /\ Nth(b) <= n
    BY <2>2
  <2>4. ASSUME b # Byte(T, k, n) PROVE ~Ends(b) /\ After(T, b) \in ToSet(s)
    <3>1. Nth(b) # n /\ Nth(b) \in Nat
      BY <2>1, <2>2, <2>4
    <3>2. Nth(b) # Size(T, k) /\ m <= Nth(b) + 1 /\ Nth(b) + 1 <= n
      BY <1>0, <2>3, <3>1
    <3>3. ~Ends(b)
      BY <2>2, <3>2, ByteIs
    <3>4. After(T, b) = Byte(T, k, Nth(b) + 1)
      BY <2>2 DEF After
    <3> QED  BY <1>5, <3>1, <3>2, <3>3, <3>4
  <2> QED  BY <2>2, <2>3, <2>4
<1>7. Byte(T, k, n) \in ToSet(s)
  BY <1>5
<1> QED  BY <1>2, <1>3, <1>4, <1>5, <1>6, <1>7 DEF s

(* A run grows by the byte behind it. *)
LEMMA RunGrows ==
  ASSUME NEW T \in Seq(PlainKeys), NEW k \in 0..Len(T), NEW m \in Nat, NEW n \in Nat,
         1 <= m, m <= n, n < Size(T, k)
  PROVE  /\ After(T, Byte(T, k, n)) = Byte(T, k, n + 1)
         /\ ~Ends(Byte(T, k, n))
         /\ After(T, Byte(T, k, n)) \notin ToSet(Run(T, k, m, n))
         /\ Append(Run(T, k, m, n), Byte(T, k, n + 1)) = Run(T, k, m, n + 1)
<1>0. Size(T, k) \in Nat
  BY Sizes
<1>1. After(T, Byte(T, k, n)) = Byte(T, k, n + 1) /\ ~Ends(Byte(T, k, n))
  BY <1>0, ByteFields DEF After
<1>2. After(T, Byte(T, k, n)) \notin ToSet(Run(T, k, m, n))
  <2>1. \A b \in ToSet(Run(T, k, m, n)) : Nth(b) <= n
    <3>1. n <= Size(T, k)
      BY <1>0
    <3> QED  BY <3>1, RunIs
  <2>2. Nth(Byte(T, k, n + 1)) = n + 1
    BY ByteFields
  <2> QED  BY <1>1, <2>1, <2>2
<1>3. /\ Run(T, k, m, n) \in Seq(Bytes(T)) /\ Len(Run(T, k, m, n)) = (n - m) + 1
      /\ \A i \in 1..((n - m) + 1) : Run(T, k, m, n)[i] = Byte(T, k, (m + i) - 1)
  BY <1>0, RunIs
<1>4. /\ Run(T, k, m, n + 1) \in Seq(Bytes(T)) /\ Len(Run(T, k, m, n + 1)) = (n - m) + 2
      /\ \A i \in 1..((n - m) + 2) : Run(T, k, m, n + 1)[i] = Byte(T, k, (m + i) - 1)
  <2>1. n + 1 \in Nat /\ m <= n + 1 /\ n + 1 <= Size(T, k)
          /\ ((n + 1) - m) + 1 = (n - m) + 2
    BY <1>0
  <2> DEFINE j == n + 1
  <2>2. j \in Nat /\ m <= j /\ j <= Size(T, k) /\ (j - m) + 1 = (n - m) + 2
    BY <2>1
  <2> HIDE DEF j
  <2>3. /\ Run(T, k, m, j) \in Seq(Bytes(T)) /\ Len(Run(T, k, m, j)) = (j - m) + 1
        /\ \A i \in 1..((j - m) + 1) : Run(T, k, m, j)[i] = Byte(T, k, (m + i) - 1)
    BY <2>2, RunIs
  <2> QED  BY <2>2, <2>3 DEF j
<1>5. Byte(T, k, n + 1) \in Bytes(T)
  <2>1. n + 1 \in 1..Size(T, k)
    BY <1>0
  <2> QED  BY <2>1, IsByte
<1> DEFINE s == Run(T, k, m, n)
           t == Run(T, k, m, n + 1)
           x == Byte(T, k, n + 1)
<1>6. (m + ((n - m) + 2)) - 1 = n + 1
  OBVIOUS
<1>7. /\ s \in Seq(Bytes(T)) /\ t \in Seq(Bytes(T)) /\ x \in Bytes(T)
      /\ Len(t) = Len(s) + 1 /\ Len(s) = (n - m) + 1
      /\ \A i \in 1..Len(s) : t[i] = s[i]
      /\ t[Len(s) + 1] = x
  <2>1. Len(s) = (n - m) + 1 /\ Len(t) = (n - m) + 2
    BY <1>3, <1>4
  <2>2. Len(t) = Len(s) + 1 /\ Len(s) + 1 = (n - m) + 2
          /\ Len(s) + 1 \in 1..((n - m) + 2)
    BY <2>1
  <2>3. t[Len(s) + 1] = x
    BY <1>4, <1>6, <2>2
  <2>4. ASSUME NEW i \in 1..Len(s) PROVE t[i] = s[i]
    <3>1. i \in 1..((n - m) + 1) /\ i \in 1..((n - m) + 2)
      BY <2>1
    <3> QED  BY <1>3, <1>4, <3>1
  <2> QED  BY <1>3, <1>4, <1>5, <2>1, <2>2, <2>3, <2>4
<1> HIDE DEF s, t, x
<1>8. Append(s, x) = t
  BY <1>7
<1> QED  BY <1>1, <1>2, <1>8 DEF s, t, x

(* A run begins with one byte, and ends with the key. *)
LEMMA RunOfOne ==
  ASSUME NEW T \in Seq(PlainKeys), NEW k \in 0..Len(T), NEW m \in 1..Size(T, k)
  PROVE  Run(T, k, m, m) = <<Byte(T, k, m)>>
<1>1. Size(T, k) \in Nat
  BY Sizes
<1>0. m \in Nat /\ 1 <= m /\ m <= m /\ m <= Size(T, k)
  BY <1>1
<1>2. /\ Run(T, k, m, m) \in Seq(Bytes(T)) /\ Len(Run(T, k, m, m)) = (m - m) + 1
      /\ \A i \in 1..((m - m) + 1) : Run(T, k, m, m)[i] = Byte(T, k, (m + i) - 1)
  BY <1>0, RunIs, ZenonT(40)
<1>3. (m - m) + 1 = 1 /\ (m + 1) - 1 = m
  BY <1>0
<1> DEFINE t == Run(T, k, m, m)
<1>4. t \in Seq(Bytes(T)) /\ Len(t) = 1 /\ t[1] = Byte(T, k, m)
  BY <1>2, <1>3
<1> HIDE DEF t
<1>5. t = <<t[1]>>
  BY <1>4, OneIs
<1> QED  BY <1>4, <1>5 DEF t

(* The run of a whole key is what the terminal sends for it. *)
LEMMA RunOfAll ==
  ASSUME NEW T \in Seq(PlainKeys), NEW k \in 0..Len(T)
  PROVE  Run(T, k, 1, Size(T, k)) = BytesOf(CharsOf(T, k), k)
<1>1. Size(T, k) \in 1..10
  BY Sizes
<1>2. DOMAIN CharsOf(T, k) = 1..Size(T, k)
  <2>1. CASE k = NoKey
    BY <2>1 DEF CharsOf, Size, Report
  <2>2. CASE k # NoKey
    <3>1. T[k] \in PlainKeys /\ CharsOf(T, k) = Sent[T[k]]
      BY <2>2 DEF CharsOf, NoKey
    <3>2. \A x \in PlainKeys : DOMAIN Sent[x] = 1..Len(Sent[x])
      BY SentIs DEF PlainKeys
    <3> QED  BY <3>1, <3>2 DEF Size
  <2> QED  BY <2>1, <2>2
<1>3. BytesOf(CharsOf(T, k), k) = [i \in 1..Size(T, k) |-> Byte(T, k, i)]
  BY <1>2 DEF BytesOf, Byte, Size
<1>4. \A i \in 1..Size(T, k) : (1 + i) - 1 = i
  BY <1>1
<1>5. (Size(T, k) - 1) + 1 = Size(T, k)
  BY <1>1
<1>6. Run(T, k, 1, Size(T, k)) = [i \in 1..Size(T, k) |-> Byte(T, k, (1 + i) - 1)]
  BY <1>5 DEF Run
<1> QED  BY <1>3, <1>4, <1>6

-----------------------------------------------------------------------------
(* The decoder *)

(* One of the functions of the decoder takes a byte. *)
Decode(b, read) ==
  \/ await_input(b, read)
  \/ read_utf8_char(b, read)
  \/ parse_escape(b, read)
  \/ parse_csi_sequence(b, read)
  \/ parse_ss3_sequence(b, read)
  \/ read_bracketed_paste(b, read)

(* The decoder reads on, and nothing comes out. *)
Going(at, read, text, acc) ==
  decoder' = Doing(at, read, text, acc) /\ out' = out /\ cut' = cut

(* The fields of a decoder's state, and what changes of them give. *)
LEMMA DoingIs ==
  ASSUME NEW at, NEW read, NEW text, NEW acc, NEW d, d = Doing(at, read, text, acc)
  PROVE  d.at = at /\ d.read = read /\ d.text = text /\ d.acc = acc
BY DEF Doing

(* Another place in the decoder. *)
LEMMA DoingAt ==
  ASSUME NEW at, NEW read, NEW text, NEW acc, NEW d, d = Doing(at, read, text, acc),
         NEW at2
  PROVE  [d EXCEPT !.at = at2] = Doing(at2, read, text, acc)
BY DEF Doing

(* Go, field by field. *)
LEMMA GoIs ==
  ASSUME NEW at, NEW read, NEW text, NEW acc, NEW d, d = Doing(at, read, text, acc),
         NEW read2, Go(d, read2)
  PROVE  Going(at, read2, text, acc)
<1>1. [d EXCEPT !.read = read2] = Doing(at, read2, text, acc)
  BY DEF Doing
<1>2. decoder' = [d EXCEPT !.read = read2] /\ out' = out /\ cut' = cut
  BY DEF Go
<1> QED  BY <1>1, <1>2, Zenon DEF Going

(* The start of the decoder. *)
LEMMA StartIs == Start = Doing("start", <<>>, <<>>, <<>>)
BY DEF Start, Doing

(* await_input, by the byte. *)
LEMMA StartStep ==
  ASSUME decoder = Start, NEW b, NEW read, Decode(b, read)
  PROVE  /\ Letter(b) = "ESC" => Going("esc", read, <<>>, <<>>)
         /\ Letter(b) = "CR" => Return(Key("Enter", <<>>), read)
         /\ Letter(b) = "lead" => Going("utf8", read, <<>>, <<>>)
         /\ Letter(b) \notin {"ESC", "CR", "lead"}
              => Return(Key("Char", <<Letter(b)>>), read)
<1>1. decoder.at = "start"
  BY DEF Start
<1>2. await_input(b, read)
  BY <1>1 DEF Decode, await_input, read_utf8_char, parse_escape, parse_csi_sequence,
     parse_ss3_sequence, read_bracketed_paste
<1>3. ASSUME NEW at2 PROVE [decoder EXCEPT !.at = at2] = Doing(at2, <<>>, <<>>, <<>>)
  BY StartIs DEF Doing
<1>4. CASE Letter(b) = "ESC"
  <2>1. Go([decoder EXCEPT !.at = "esc"], read)
    BY <1>2, <1>4 DEF await_input, Letter
  <2> QED  BY <2>1, <1>3, <1>4, GoIs
<1>5. CASE Letter(b) = "CR"
  BY <1>2, <1>5 DEF await_input, Letter
<1>6. CASE Letter(b) = "lead"
  <2>1. Go([decoder EXCEPT !.at = "utf8"], read)
    BY <1>2, <1>6 DEF await_input, Letter
  <2> QED  BY <2>1, <1>3, <1>6, GoIs
<1>7. CASE Letter(b) \notin {"ESC", "CR", "lead"}
  BY <1>2, <1>7 DEF await_input, Letter
<1> QED  BY <1>4, <1>5, <1>6, <1>7

(* read_utf8_char takes any byte as the continuation. *)
LEMMA Utf8Step ==
  ASSUME NEW r, decoder = Doing("utf8", r, <<>>, <<>>), NEW b, NEW read, Decode(b, read)
  PROVE  Return(Key("Char", Chars(read)), read)
<1>1. decoder.at = "utf8"
  BY DEF Doing
<1> QED
  BY <1>1 DEF Decode, await_input, read_utf8_char, parse_escape, parse_csi_sequence,
     parse_ss3_sequence, read_bracketed_paste

(* parse_escape, by the byte. *)
LEMMA EscStep ==
  ASSUME NEW r, decoder = Doing("esc", r, <<>>, <<>>), NEW b, NEW read, Decode(b, read)
  PROVE  /\ Letter(b) = "[" => Going("csi", read, <<>>, <<>>)
         /\ Letter(b) = "O" => Going("ss3", read, <<>>, <<>>)
         /\ Letter(b) = "f" => Return(Key("Other", <<"next word">>), read)
         /\ Letter(b) \notin {"[", "O", "f"}
              => Return(Key("Unknown", Chars(read)), read)
<1>1. decoder.at = "esc"
  BY DEF Doing
<1>2. parse_escape(b, read)
  BY <1>1 DEF Decode, await_input, read_utf8_char, parse_escape, parse_csi_sequence,
     parse_ss3_sequence, read_bracketed_paste
<1>3. ASSUME NEW at2 PROVE [decoder EXCEPT !.at = at2] = Doing(at2, r, <<>>, <<>>)
  BY DEF Doing
<1>4. CASE Letter(b) = "["
  <2>1. Go([decoder EXCEPT !.at = "csi"], read)
    BY <1>2, <1>4 DEF parse_escape, Letter
  <2> QED  BY <2>1, <1>3, <1>4, GoIs
<1>5. CASE Letter(b) = "O"
  <2>1. Go([decoder EXCEPT !.at = "ss3"], read)
    BY <1>2, <1>5 DEF parse_escape, Letter
  <2> QED  BY <2>1, <1>3, <1>5, GoIs
<1>6. CASE Letter(b) = "f"
  BY <1>2, <1>6 DEF parse_escape, Letter
<1>7. CASE Letter(b) \notin {"[", "O", "f"}
  BY <1>2, <1>7 DEF parse_escape, Letter
<1> QED  BY <1>4, <1>5, <1>6, <1>7

(* parse_ss3_sequence, on the only byte that follows ESC O. *)
LEMMA Ss3Step ==
  ASSUME NEW r, decoder = Doing("ss3", r, <<>>, <<>>), NEW b, NEW read, Decode(b, read),
         Letter(b) = "A"
  PROVE  Return(Key("Up", <<>>), read)
<1>1. decoder.at = "ss3"
  BY DEF Doing
<1>2. parse_ss3_sequence(b, read)
  BY <1>1 DEF Decode, await_input, read_utf8_char, parse_escape, parse_csi_sequence,
     parse_ss3_sequence, read_bracketed_paste
<1> QED  BY <1>2 DEF parse_ss3_sequence, Letter

(* parse_csi_sequence, by the byte and the parameter before it. *)
LEMMA CsiStep ==
  ASSUME NEW r, decoder = Doing("csi", r, <<>>, <<>>), NEW b, NEW read, Decode(b, read)
  PROVE  /\ Letter(b) \in {"3", "200", "201"} => Going("csi", read, <<>>, <<>>)
         /\ Letter(b) = "A" => Return(Key("Up", <<>>), read)
         /\ Letter(b) = "~" => \A p :
              SubSeq(Chars(read), 3, Len(read) - 1) = <<p>> =>
                /\ p = "3" => Return(Key("Delete", <<>>), read)
                /\ p = "200" => Going("paste", read, <<>>, <<>>)
                /\ p = "201" => Return(Key("Unknown", Chars(read)), read)
<1>1. decoder.at = "csi"
  BY DEF Doing
<1>2. parse_csi_sequence(b, read)
  BY <1>1 DEF Decode, await_input, read_utf8_char, parse_escape, parse_csi_sequence,
     parse_ss3_sequence, read_bracketed_paste
<1>3. ASSUME NEW at2 PROVE [decoder EXCEPT !.at = at2] = Doing(at2, r, <<>>, <<>>)
  BY DEF Doing
<1>4. CASE Letter(b) \in {"3", "200", "201"}
  <2>1. Go(decoder, read)
    BY <1>2, <1>4 DEF parse_csi_sequence, is_csi_final_byte, Letter
  <2> QED  BY <2>1, <1>4, GoIs
<1>5. CASE Letter(b) = "A"
  BY <1>2, <1>5 DEF parse_csi_sequence, is_csi_final_byte, Letter
<1>6. CASE Letter(b) = "~"
  <2> SUFFICES ASSUME NEW p, SubSeq(Chars(read), 3, Len(read) - 1) = <<p>>
               PROVE  /\ p = "3" => Return(Key("Delete", <<>>), read)
                      /\ p = "200" => Going("paste", read, <<>>, <<>>)
                      /\ p = "201" => Return(Key("Unknown", Chars(read)), read)
    BY <1>6
  <2>0. (CASE ~is_csi_final_byte(b.ch) -> Go(decoder, read)
          [] b.ch = "A" -> Return(Key("Up", <<>>), read)
          [] b.ch = "~" /\ <<p>> = <<"3">> -> Return(Key("Delete", <<>>), read)
          [] b.ch = "~"
            /\ <<p>> = <<"200">> -> Go([decoder EXCEPT !.at = "paste"], read)
          [] OTHER -> Return(Key("Unknown", Chars(read)), read))
    BY <1>2 DEF parse_csi_sequence
  <2>9. is_csi_final_byte(b.ch) /\ b.ch = "~"
    BY <1>6 DEF is_csi_final_byte, Letter
  <2>1. CASE p = "3"
    BY <2>0, <2>1, <2>9
  <2>2. CASE p = "200"
    <3>1. Go([decoder EXCEPT !.at = "paste"], read)
      BY <2>0, <2>2, <2>9
    <3> QED  BY <3>1, <1>3, <2>2, GoIs
  <2>3. CASE p = "201"
    BY <2>0, <2>3, <2>9
  <2> QED  BY <2>1, <2>2, <2>3
<1> QED  BY <1>4, <1>5, <1>6

(* One more element. *)
LEMMA AppendEq ==
  ASSUME NEW S, NEW s \in Seq(S), NEW t \in Seq(S), NEW x \in S,
         Len(t) = Len(s) + 1, \A i \in 1..Len(s) : t[i] = s[i], t[Len(s) + 1] = x
  PROVE  Append(s, x) = t
OBVIOUS

(* A second element. *)
LEMMA Append1 == ASSUME NEW a, NEW b PROVE Append(<<a>>, b) = <<a, b>>
<1> DEFINE S == {a, b}
           s == <<a>>
           t == <<a, b>>
<1>1. b \in S /\ s \in Seq(S) /\ Len(s) = 1 /\ s[1] = a
  OBVIOUS
<1>2. t \in Seq(S) /\ Len(t) = 2 /\ t[1] = a /\ t[2] = b
  OBVIOUS
<1> HIDE DEF s, t, S
<1>3. Len(t) = Len(s) + 1 /\ (\A i \in 1..Len(s) : t[i] = s[i]) /\ t[Len(s) + 1] = b
  BY <1>1, <1>2
<1>4. Append(s, b) = t
  BY <1>1, <1>2, <1>3, AppendEq, ZenonT(40)
<1> QED  BY <1>4 DEF s, t

(* A third element. *)
LEMMA Append2 == ASSUME NEW a, NEW b, NEW c PROVE Append(<<a, b>>, c) = <<a, b, c>>
<1> DEFINE S == {a, b, c}
           s == <<a, b>>
           t == <<a, b, c>>
<1>1. c \in S /\ s \in Seq(S) /\ Len(s) = 2 /\ s[1] = a /\ s[2] = b
  OBVIOUS
<1>2. t \in Seq(S) /\ Len(t) = 3 /\ t[1] = a /\ t[2] = b /\ t[3] = c
  OBVIOUS
<1> HIDE DEF s, t, S
<1>3. Len(t) = Len(s) + 1 /\ (\A i \in 1..Len(s) : t[i] = s[i]) /\ t[Len(s) + 1] = c
  BY <1>1, <1>2
<1>4. Append(s, c) = t
  BY <1>1, <1>2, <1>3, AppendEq, ZenonT(40)
<1> QED  BY <1>4 DEF s, t

(* A fourth element. *)
LEMMA Append3 == ASSUME NEW a, NEW b, NEW c, NEW d
                 PROVE  Append(<<a, b, c>>, d) = <<a, b, c, d>>
<1> DEFINE S == {a, b, c, d}
           s == <<a, b, c>>
           t == <<a, b, c, d>>
<1>1. d \in S /\ s \in Seq(S) /\ Len(s) = 3 /\ s[1] = a /\ s[2] = b /\ s[3] = c
  OBVIOUS
<1>2. t \in Seq(S) /\ Len(t) = 4 /\ t[1] = a /\ t[2] = b /\ t[3] = c /\ t[4] = d
  OBVIOUS
<1> HIDE DEF s, t, S
<1>3. Len(t) = Len(s) + 1 /\ (\A i \in 1..Len(s) : t[i] = s[i]) /\ t[Len(s) + 1] = d
  BY <1>1, <1>2
<1>4. Append(s, d) = t
  BY <1>1, <1>2, <1>3, AppendEq, ZenonT(40)
<1> QED  BY <1>4 DEF s, t

(* read_bracketed_paste, by what may become the end marker. *)
LEMMA PasteStep ==
  ASSUME NEW r, NEW text, NEW acc, NEW at, at \in {"paste", "check_end"},
         decoder = Doing(at, r, text, acc), NEW b, NEW read, Decode(b, read)
  PROVE  /\ at = "paste" /\ acc = <<>> /\ Letter(b) = "ESC" =>
              Going("check_end", read, text, <<"ESC">>)
         /\ at = "check_end" /\ acc = <<"ESC">> /\ Letter(b) = "c" =>
              Going("paste", read, text \o <<"ESC", "c">>, <<>>)
         /\ at = "check_end" /\ acc = <<"ESC">> /\ Letter(b) = "[" =>
              Going("check_end", read, text, <<"ESC", "[">>)
         /\ at = "check_end" /\ acc = <<"ESC", "[">> /\ Letter(b) = "201" =>
              Going("check_end", read, text, <<"ESC", "[", "201">>)
         /\ at = "check_end" /\ acc = <<"ESC", "[", "201">> /\ Letter(b) = "~" =>
              Return(Key("Paste", text), read)
<1> DEFINE expected == <<"ESC", "[", "201", "~">>
           next == Append(acc, b.ch)
<1>1. decoder.at = at /\ decoder.acc = acc /\ decoder.text = text
  BY DEF Doing
<1>2. read_bracketed_paste(b, read)
  BY <1>1 DEF Decode, await_input, read_utf8_char, parse_escape, parse_csi_sequence,
     parse_ss3_sequence, read_bracketed_paste
<1>3. (CASE at = "paste" /\ b.ch # "ESC" ->
              Go([decoder EXCEPT !.text = Append(@, b.ch)], read)
         [] next = expected -> Return(Key("Paste", text), read)
         [] next # expected /\ IsPrefix(next, expected) ->
              Go([decoder EXCEPT !.at = "check_end", !.acc = next], read)
         [] OTHER ->
              Go([decoder EXCEPT !.at = "paste", !.acc = <<>>, !.text = @ \o next],
              read))
  BY <1>1, <1>2 DEF read_bracketed_paste
<1>4. ASSUME NEW n, next = n, n # expected, IsPrefix(n, expected), at = "paste"
               => b.ch = "ESC"
      PROVE  Going("check_end", read, text, n)
  <2> DEFINE d == [decoder EXCEPT !.at = "check_end", !.acc = n]
             e == [decoder EXCEPT !.at = "check_end"]
  <2>1. d = Doing("check_end", r, text, n)
    <3>1. e = Doing("check_end", r, text, acc)
      BY DEF Doing
    <3>2. d = [e EXCEPT !.acc = n]
      BY Zenon
    <3> HIDE DEF e, d
    <3>3. [e EXCEPT !.acc = n] = Doing("check_end", r, text, n)
      BY <3>1 DEF Doing
    <3> QED  BY <3>2, <3>3, Zenon
  <2>2. Go(d, read)
    BY <1>3, <1>4
  <2> HIDE DEF d
  <2> QED  BY <2>1, <2>2, GoIs
<1>5. /\ IsPrefix(<<"ESC">>, expected) /\ <<"ESC">> # expected
      /\ IsPrefix(<<"ESC", "[">>, expected) /\ <<"ESC", "[">> # expected
      /\ IsPrefix(<<"ESC", "[", "201">>, expected) /\ <<"ESC", "[", "201">> # expected
      /\ ~IsPrefix(<<"ESC", "c">>, expected) /\ <<"ESC", "c">> # expected
  BY DEF IsPrefix
<1>6. CASE at = "paste" /\ acc = <<>> /\ Letter(b) = "ESC"
  <2>1. next = <<"ESC">> /\ b.ch = "ESC"
    BY <1>6 DEF Letter
  <2> QED  BY <1>4, <1>5, <1>6, <2>1
<1>7. CASE at = "check_end" /\ acc = <<"ESC">> /\ Letter(b) = "c"
  <2>1. next = <<"ESC", "c">>
    BY <1>7, Append1 DEF Letter
  <2> DEFINE m == <<"ESC", "c">>
             d == [decoder EXCEPT !.at = "paste", !.acc = <<>>, !.text = @ \o m]
  <2>2. Go(d, read)
    BY <1>3, <1>5, <1>7, <2>1
  <2>3. d = Doing("paste", r, text \o m, <<>>)
    <3> DEFINE e == [decoder EXCEPT !.at = "paste"]
               f == [e EXCEPT !.acc = <<>>]
               u == text \o m
    <3>1. e = Doing("paste", r, text, acc)
      BY DEF Doing
    <3>2. d = [f EXCEPT !.text = @ \o m]
      BY Zenon
    <3> HIDE DEF e, d, m
    <3>3. f = Doing("paste", r, text, <<>>)
      BY <3>1 DEF Doing
    <3> HIDE DEF f
    <3>4. f.text = text
      BY <3>3 DEF Doing
    <3>5. [f EXCEPT !.text = @ \o m] = [f EXCEPT !.text = u]
      BY <3>4, Zenon
    <3> HIDE DEF u
    <3>6. [f EXCEPT !.text = u] = Doing("paste", r, u, <<>>)
      BY <3>3 DEF Doing
    <3> QED  BY <3>2, <3>5, <3>6, Zenon DEF u
  <2> HIDE DEF d
  <2>4. Going("paste", read, text \o <<"ESC", "c">>, <<>>)
    BY <2>2, <2>3, GoIs
  <2> QED  BY <1>7, <2>4
<1>8. CASE at = "check_end" /\ acc = <<"ESC">> /\ Letter(b) = "["
  <2>1. next = <<"ESC", "[">>
    BY <1>8, Append1 DEF Letter
  <2> QED  BY <1>4, <1>5, <1>8, <2>1
<1>9. CASE at = "check_end" /\ acc = <<"ESC", "[">> /\ Letter(b) = "201"
  <2>1. next = <<"ESC", "[", "201">>
    BY <1>9, Append2 DEF Letter
  <2> QED  BY <1>4, <1>5, <1>9, <2>1
<1>10. CASE at = "check_end" /\ acc = <<"ESC", "[", "201">> /\ Letter(b) = "~"
  <2>1. next = expected
    BY <1>10, Append3 DEF Letter
  <2> QED  BY <1>3, <1>10, <2>1
<1> QED  BY <1>6, <1>7, <1>8, <1>9, <1>10

(* The decoder has read on. *)
ReadOn(k, m, n) ==
  /\ Decodes(typed[k], m, n, decoder'.at, decoder'.text, decoder'.acc)
  /\ decoder' = Doing(decoder'.at, Run(typed, k, m, n), decoder'.text, decoder'.acc)
  /\ out' = out /\ cut' = cut

(* The decoder has made a key of bytes m to n of key k. *)
MadeOf(k, m, n) ==
  \E key : /\ Return(key, Run(typed, k, m, n))
           /\ m = 1 => n = Size(typed, k) /\ key = Meaning(typed[k])

(* A state of the decoder that the table knows. *)
LEMMA GoingOn ==
  ASSUME NEW k, NEW m, NEW n, NEW at, NEW text, NEW acc,
         Going(at, Run(typed, k, m, n), text, acc),
         Decodes(typed[k], m, n, at, text, acc)
  PROVE  ReadOn(k, m, n)
<1>1. decoder' = Doing(at, Run(typed, k, m, n), text, acc) /\ out' = out /\ cut' = cut
  BY DEF Going
<1>2. decoder'.at = at /\ decoder'.text = text /\ decoder'.acc = acc
  BY <1>1 DEF Doing
<1> QED  BY <1>1, <1>2, Zenon DEF ReadOn

(* What each key means. *)
LEMMA Meanings ==
  /\ Meaning("Enter") = Key("Enter", <<>>) /\ Meaning("Escape") = Key("Escape", <<>>)
  /\ Meaning("Wide") = Key("Char", <<"lead", "cont">>)
  /\ Meaning("Bracket") = Key("Char", <<"[">>)
  /\ Meaning("LetterO") = Key("Char", <<"O">>)
  /\ Meaning("NextWord") = Key("Other", <<"next word">>)
  /\ Meaning("Up") = Key("Up", <<>>) /\ Meaning("AppUp") = Key("Up", <<>>)
  /\ Meaning("Delete") = Key("Delete", <<>>)
  /\ Meaning("Paste") = Key("Paste", <<"ESC", "c">>)
BY DEF Meaning

(* A sequence of two elements. *)
LEMMA TwoIs ==
  ASSUME NEW S, NEW t \in Seq(S), Len(t) = 2
  PROVE  t = <<t[1], t[2]>>
OBVIOUS

(* The rows of the table for each state of the decoder. *)
LEMMA Rows ==
  ASSUME NEW kind, NEW m \in Places, NEW n \in Places, NEW at, NEW text, NEW acc,
         Decodes(kind, m, n, at, text, acc)
  PROVE  /\ at \in {"utf8", "esc", "csi", "ss3", "paste", "check_end"}
         /\ at \in {"utf8", "esc", "csi", "ss3"} => text = <<>> /\ acc = <<>>
         /\ at = "utf8" => kind = "Wide" /\ m = 1 /\ n = 1
         /\ at = "ss3" => kind = "AppUp" /\ m = 1 /\ n = 2
         /\ at = "esc" =>
              \/ m = 1 /\ n = 1
                   /\ kind \in {"Escape", "NextWord", "Up", "AppUp", "Delete", "Paste"}
              \/ kind = "Paste" /\ m = 5 /\ n = 5
              \/ kind = "Paste" /\ m = 7 /\ n = 7
         /\ at = "csi" =>
              \/ m = 1 /\ n = 2 /\ kind \in {"Up", "Delete", "Paste"}
              \/ m = 1 /\ n = 3 /\ kind \in {"Delete", "Paste"}
              \/ kind = "Paste" /\ m = 7 /\ n \in {8, 9}
         /\ at = "paste" =>
              /\ kind = "Paste" /\ m = 1 /\ acc = <<>>
              /\ \/ n = 4 /\ text = <<>>
                 \/ n = 6 /\ text = <<"ESC", "c">>
         /\ at = "check_end" =>
              /\ kind = "Paste" /\ m = 1
              /\ \/ n = 5 /\ text = <<>> /\ acc = <<"ESC">>
                 \/ n = 7 /\ text = <<"ESC", "c">> /\ acc = <<"ESC">>
                 \/ n = 8 /\ text = <<"ESC", "c">> /\ acc = <<"ESC", "[">>
                 \/ n = 9 /\ text = <<"ESC", "c">> /\ acc = <<"ESC", "[", "201">>
BY DEF Decodes

(* The table, row by row: on the next byte of its key the decoder reads    *)
(* on, or makes a key of what it has read.                                 *)
LEMMA DecodeOn ==
  ASSUME typed \in Seq(PlainKeys), NEW k \in 1..Len(typed), NEW m \in Places,
         NEW n \in Places,
         NEW at, NEW text, NEW acc, Decodes(typed[k], m, n, at, text, acc),
         decoder = Doing(at, Run(typed, k, m, n), text, acc),
         NEW j, j = n + 1, m <= n, j <= Size(typed, k),
         Decode(Byte(typed, k, j), Run(typed, k, m, j))
  PROVE  ReadOn(k, m, j) \/ MadeOf(k, m, j)
<1> DEFINE x == Byte(typed, k, j)
           s == Run(typed, k, m, j)
           kind == typed[k]
<1>0. Size(typed, k) = Len(Sent[kind]) /\ CharsOf(typed, k) = Sent[kind]
        /\ Size(typed, k) \in Nat
      /\ k \in 0..Len(typed) /\ j \in Nat /\ m \in Nat /\ n \in Nat /\ 1 <= m /\ m <= j
  <2>1. k \in 0..Len(typed) /\ k # NoKey
    BY DEF NoKey
  <2>2. j \in Nat /\ m \in Nat /\ n \in Nat /\ 1 <= m /\ m <= j
    BY DEF Places
  <2> QED  BY <2>1, <2>2, Sizes DEF Size, CharsOf
<1>1. Letter(x) = Sent[kind][j]
  BY <1>0, ByteFields
<1>2. /\ s \in Seq(Bytes(typed)) /\ Len(s) = (j - m) + 1
      /\ \A i \in 1..((j - m) + 1) : s[i] = Byte(typed, k, (m + i) - 1)
  BY <1>0, RunIs
<1>3. ASSUME NEW i \in 1..((j - m) + 1) PROVE Letter(s[i]) = Sent[kind][(m + i) - 1]
  BY <1>0, <1>2, ByteFields, SMTT(30)
<1>4. Decode(x, s)
  OBVIOUS
<1>5. ASSUME NEW a2, NEW t2, NEW c2, Going(a2, s, t2, c2),
             Decodes(kind, m, j, a2, t2, c2)
      PROVE  ReadOn(k, m, j) \/ MadeOf(k, m, j)
  BY <1>5, GoingOn
<1>6. ASSUME NEW key, Return(key, s), m # 1
               \/ (j = Size(typed, k) /\ key = Meaning(kind))
      PROVE  ReadOn(k, m, j) \/ MadeOf(k, m, j)
  BY <1>6 DEF MadeOf
<1>7. ASSUME (j - m) + 1 = 4
      PROVE  SubSeq(Chars(s), 3, Len(s) - 1) = <<Sent[kind][m + 2]>>
  <2>1. Len(s) = 4
    BY <1>2, <1>7
  <2>2. SubSeq(Chars(s), 3, Len(s) - 1) = <<Letter(s[3])>>
    BY <1>2, <2>1, ParamsAre
  <2>3. 3 \in 1..((j - m) + 1) /\ (m + 3) - 1 = m + 2
    BY <1>0, <1>7
  <2>4. Letter(s[3]) = Sent[kind][(m + 3) - 1]
    BY <1>3, <2>3
  <2> QED  BY <2>2, <2>3, <2>4
<1> HIDE DEF x, s, kind
<1>8. Decodes(kind, m, n, at, text, acc)
        /\ decoder = Doing(at, Run(typed, k, m, n), text, acc)
  BY DEF kind
<1>9. CASE at = "utf8"
  <2>1. kind = "Wide" /\ m = 1 /\ n = 1 /\ text = <<>> /\ acc = <<>>
    BY <1>8, <1>9, Rows
  <2>2. Return(Key("Char", Chars(s)), s)
    BY <1>4, <1>8, <1>9, <2>1, Utf8Step
  <2>3. Chars(s) = <<"lead", "cont">>
    <3>1. Len(s) = 2 /\ 1 \in 1..((j - m) + 1) /\ 2 \in 1..((j - m) + 1)
      BY <1>2, <2>1
    <3>2. Letter(s[1]) = Sent["Wide"][1] /\ Letter(s[2]) = Sent["Wide"][2]
      <4>1. (m + 1) - 1 = 1 /\ (m + 2) - 1 = 2
        BY <2>1
      <4> QED  BY <1>3, <2>1, <3>1, <4>1
    <3>3. /\ Chars(s) \in Seq({Letter(b) : b \in Bytes(typed)})
          /\ Len(Chars(s)) = Len(s)
          /\ \A i \in 1..Len(s) : Chars(s)[i] = Letter(s[i])
      BY <1>2, CharsAre
    <3>4. Len(Chars(s)) = 2 /\ Chars(s)[1] = "lead" /\ Chars(s)[2] = "cont"
      <4>1. Sent["Wide"][1] = "lead" /\ Sent["Wide"][2] = "cont"
        BY Letters, Zenon
      <4>2. 1 \in 1..Len(s) /\ 2 \in 1..Len(s)
        BY <3>1
      <4> QED  BY <3>1, <3>2, <3>3, <4>1, <4>2
    <3>5. Chars(s) = <<Chars(s)[1], Chars(s)[2]>>
      BY <3>3, <3>4, TwoIs
    <3> QED  BY <3>4, <3>5
  <2>4. j = Size(typed, k)
    <3>1. j = 2
      BY <2>1
    <3> QED  BY <1>0, <2>1, <3>1, Letters, Zenon
  <2> QED  BY <1>6, <2>1, <2>2, <2>3, <2>4, Meanings
<1>10. CASE at = "ss3"
  <2>1. kind = "AppUp" /\ m = 1 /\ n = 2 /\ text = <<>> /\ acc = <<>>
    BY <1>8, <1>10, Rows
  <2>2. j = 3 /\ Letter(x) = "A" /\ j = Size(typed, k)
    <3>1. j = 3
      BY <2>1
    <3> QED  BY <1>0, <1>1, <2>1, <3>1, Letters, ZenonT(40)
  <2>3. Return(Key("Up", <<>>), s)
    BY <1>4, <1>8, <1>10, <2>1, <2>2, Ss3Step
  <2> QED  BY <1>6, <2>1, <2>2, <2>3, Meanings
<1>11. CASE at = "esc"
  <2>0. /\ text = <<>> /\ acc = <<>>
        /\ \/ m = 1 /\ n = 1
                /\ kind \in {"Escape", "NextWord", "Up", "AppUp", "Delete", "Paste"}
           \/ kind = "Paste" /\ m = 5 /\ n = 5
           \/ kind = "Paste" /\ m = 7 /\ n = 7
    BY <1>8, <1>11, Rows
  <2>1. /\ Letter(x) = "[" => Going("csi", s, <<>>, <<>>)
        /\ Letter(x) = "O" => Going("ss3", s, <<>>, <<>>)
        /\ Letter(x) = "f" => Return(Key("Other", <<"next word">>), s)
        /\ Letter(x) \notin {"[", "O", "f"} => Return(Key("Unknown", Chars(s)), s)
    BY <1>4, <1>8, <1>11, <2>0, EscStep
  <2>2. CASE m = 1
    <3>0. n = 1 /\ j = 2
      BY <2>0, <2>2
    <3>1. CASE kind = "Escape"
      <4>1. Size(typed, k) = 1
        BY <1>0, <3>1, Letters
      <4> QED  BY <3>0, <4>1
    <3>2. CASE kind = "NextWord"
      <4>1. Letter(x) = "f" /\ j = Size(typed, k)
        BY <1>0, <1>1, <3>0, <3>2, Letters, ZenonT(40)
      <4> QED  BY <1>6, <2>1, <3>2, <4>1, Meanings
    <3>3. CASE kind = "AppUp"
      <4>1. Letter(x) = "O"
        BY <1>0, <1>1, <3>0, <3>3, Letters, ZenonT(40)
      <4>2. Decodes(kind, m, j, "ss3", <<>>, <<>>)
        BY <2>2, <3>0, <3>3 DEF Decodes
      <4> QED  BY <1>5, <2>1, <4>1, <4>2
    <3>4. CASE kind \in {"Up", "Delete", "Paste"}
      <4>1. Letter(x) = "["
        BY <1>0, <1>1, <3>0, <3>4, Letters, ZenonT(40)
      <4>2. Decodes(kind, m, j, "csi", <<>>, <<>>)
        BY <2>2, <3>0, <3>4 DEF Decodes
      <4> QED  BY <1>5, <2>1, <4>1, <4>2
    <3> QED  BY <2>0, <2>2, <3>1, <3>2, <3>3, <3>4
  <2>3. CASE m = 5
    <3>1. kind = "Paste" /\ j = 6
      BY <2>0, <2>3
    <3>2. Letter(x) = "c"
      BY <1>1, <3>1, Letters, ZenonT(40)
    <3> QED  BY <1>6, <2>1, <2>3, <3>2
  <2>4. CASE m = 7
    <3>1. kind = "Paste" /\ j = 8
      BY <2>0, <2>4
    <3>2. Letter(x) = "["
      BY <1>1, <3>1, Letters, ZenonT(40)
    <3>3. Decodes(kind, m, j, "csi", <<>>, <<>>)
      BY <2>4, <3>1 DEF Decodes
    <3> QED  BY <1>5, <2>1, <3>2, <3>3
  <2> QED  BY <2>0, <2>2, <2>3, <2>4
<1>12. CASE at = "csi"
  <2>0. /\ text = <<>> /\ acc = <<>>
        /\ \/ m = 1 /\ n = 2 /\ kind \in {"Up", "Delete", "Paste"}
           \/ m = 1 /\ n = 3 /\ kind \in {"Delete", "Paste"}
           \/ kind = "Paste" /\ m = 7 /\ n \in {8, 9}
    BY <1>8, <1>12, Rows
  <2>1. /\ Letter(x) \in {"3", "200", "201"} => Going("csi", s, <<>>, <<>>)
        /\ Letter(x) = "A" => Return(Key("Up", <<>>), s)
        /\ Letter(x) = "~" => \A p :
             SubSeq(Chars(s), 3, Len(s) - 1) = <<p>> =>
               /\ p = "3" => Return(Key("Delete", <<>>), s)
               /\ p = "200" => Going("paste", s, <<>>, <<>>)
               /\ p = "201" => Return(Key("Unknown", Chars(s)), s)
    BY <1>4, <1>8, <1>12, <2>0, CsiStep
  <2>2. CASE m = 1 /\ n = 2 /\ kind = "Up"
    <3>0. j = 3
      BY <2>2
    <3>1. Letter(x) = "A" /\ j = Size(typed, k)
      BY <1>0, <1>1, <2>2, <3>0, Letters, ZenonT(40)
    <3> QED  BY <1>6, <2>1, <2>2, <3>1, Meanings
  <2>3. CASE m = 1 /\ n = 2 /\ kind \in {"Delete", "Paste"}
    <3>0. j = 3
      BY <2>3
    <3>1. Letter(x) \in {"3", "200", "201"}
      BY <1>1, <2>3, <3>0, Letters, ZenonT(40)
    <3>2. Decodes(kind, m, j, "csi", <<>>, <<>>)
      BY <2>3 DEF Decodes
    <3> QED  BY <1>5, <2>1, <3>1, <3>2
  <2>4. CASE m = 1 /\ n = 3 /\ kind = "Delete"
    <3>0. j = 4 /\ m + 2 = 3 /\ (j - m) + 1 = 4
      BY <2>4
    <3>1. Letter(x) = "~" /\ j = Size(typed, k) /\ (j - m) + 1 = 4
            /\ Sent[kind][m + 2] = "3"
      BY <1>0, <1>1, <2>4, <3>0, Letters, ZenonT(40)
    <3>2. Return(Key("Delete", <<>>), s)
      BY <1>7, <2>1, <3>1
    <3> QED  BY <1>6, <2>4, <3>1, <3>2, Meanings
  <2>5. CASE m = 1 /\ n = 3 /\ kind = "Paste"
    <3>0. j = 4 /\ m + 2 = 3 /\ (j - m) + 1 = 4
      BY <2>5
    <3>1. Letter(x) = "~" /\ (j - m) + 1 = 4 /\ Sent[kind][m + 2] = "200"
      BY <1>0, <1>1, <2>5, <3>0, Letters, ZenonT(40)
    <3>2. Going("paste", s, <<>>, <<>>)
      BY <1>7, <2>1, <3>1
    <3>3. Decodes(kind, m, j, "paste", <<>>, <<>>)
      BY <2>5 DEF Decodes
    <3> QED  BY <1>5, <3>2, <3>3
  <2>6. CASE m = 7 /\ n = 8 /\ kind = "Paste"
    <3>0. j = 9
      BY <2>6
    <3>1. Letter(x) = "201"
      BY <1>1, <2>6, <3>0, Letters, ZenonT(40)
    <3>2. Decodes(kind, m, j, "csi", <<>>, <<>>)
      BY <2>6 DEF Decodes
    <3> QED  BY <1>5, <2>1, <3>1, <3>2
  <2>7. CASE m = 7 /\ n = 9 /\ kind = "Paste"
    <3>0. j = 10 /\ m + 2 = 9 /\ (j - m) + 1 = 4
      BY <2>7
    <3>1. Letter(x) = "~" /\ (j - m) + 1 = 4 /\ Sent[kind][m + 2] = "201"
      BY <1>0, <1>1, <2>7, <3>0, Letters, ZenonT(40)
    <3>2. Return(Key("Unknown", Chars(s)), s)
      BY <1>7, <2>1, <3>1
    <3> QED  BY <1>6, <2>7, <3>2
  <2> QED  BY <2>0, <2>2, <2>3, <2>4, <2>5, <2>6, <2>7
<1>13. CASE at \in {"paste", "check_end"}
  <2>0. kind = "Paste" /\ m = 1
    BY <1>8, <1>13, Rows
  <2>1. /\ at = "paste" /\ acc = <<>> /\ Letter(x) = "ESC" =>
             Going("check_end", s, text, <<"ESC">>)
        /\ at = "check_end" /\ acc = <<"ESC">> /\ Letter(x) = "c" =>
             Going("paste", s, text \o <<"ESC", "c">>, <<>>)
        /\ at = "check_end" /\ acc = <<"ESC">> /\ Letter(x) = "[" =>
             Going("check_end", s, text, <<"ESC", "[">>)
        /\ at = "check_end" /\ acc = <<"ESC", "[">> /\ Letter(x) = "201" =>
             Going("check_end", s, text, <<"ESC", "[", "201">>)
        /\ at = "check_end" /\ acc = <<"ESC", "[", "201">> /\ Letter(x) = "~" =>
             Return(Key("Paste", text), s)
    BY <1>4, <1>8, <1>13, PasteStep
  <2>2. CASE at = "paste"
    <3>1. acc = <<>> /\ ((n = 4 /\ text = <<>>) \/ (n = 6 /\ text = <<"ESC", "c">>))
      BY <1>8, <2>2, Rows
    <3>0. j = 5 \/ j = 7
      BY <3>1
    <3>2. Letter(x) = "ESC"
      BY <1>1, <2>0, <3>0, Letters, ZenonT(40)
    <3>3. Decodes(kind, m, j, "check_end", text, <<"ESC">>)
      BY <2>0, <3>1 DEF Decodes
    <3> QED  BY <1>5, <2>1, <2>2, <3>1, <3>2, <3>3
  <2>3. CASE at = "check_end" /\ n = 5
    <3>1. text = <<>> /\ acc = <<"ESC">>
      BY <1>8, <2>3, Rows
    <3>0. j = 6
      BY <2>3
    <3>2. Letter(x) = "c"
      BY <1>1, <2>0, <3>0, Letters, ZenonT(40)
    <3>3. text \o <<"ESC", "c">> = <<"ESC", "c">>
      <4> DEFINE t == <<"ESC", "c">>
      <4>1. t \in Seq({"ESC", "c"})
        OBVIOUS
      <4> HIDE DEF t
      <4>2. <<>> \o t = t
        BY <4>1
      <4> QED  BY <3>1, <4>2 DEF t
    <3>4. Decodes(kind, m, j, "paste", <<"ESC", "c">>, <<>>)
      BY <2>0, <2>3 DEF Decodes
    <3>5. Going("paste", s, <<"ESC", "c">>, <<>>)
      BY <2>1, <2>3, <3>1, <3>2, <3>3, Zenon
    <3> QED  BY <1>5, <3>4, <3>5
  <2>4. CASE at = "check_end" /\ n = 7
    <3>1. text = <<"ESC", "c">> /\ acc = <<"ESC">>
      BY <1>8, <2>4, Rows
    <3>0. j = 8
      BY <2>4
    <3>2. Letter(x) = "["
      BY <1>1, <2>0, <3>0, Letters, Zenon
    <3>3. Decodes(kind, m, j, "check_end", text, <<"ESC", "[">>)
      BY <2>0, <2>4, <3>1 DEF Decodes
    <3> QED  BY <1>5, <2>1, <2>4, <3>1, <3>2, <3>3
  <2>5. CASE at = "check_end" /\ n = 8
    <3>1. text = <<"ESC", "c">> /\ acc = <<"ESC", "[">>
      BY <1>8, <2>5, Rows
    <3>0. j = 9
      BY <2>5
    <3>2. Letter(x) = "201"
      BY <1>1, <2>0, <3>0, Letters, Zenon
    <3>3. Decodes(kind, m, j, "check_end", text, <<"ESC", "[", "201">>)
      BY <2>0, <2>5, <3>1 DEF Decodes
    <3> QED  BY <1>5, <2>1, <2>5, <3>1, <3>2, <3>3
  <2>6. CASE at = "check_end" /\ n = 9
    <3>1. text = <<"ESC", "c">> /\ acc = <<"ESC", "[", "201">>
      BY <1>8, <2>6, Rows
    <3>0. j = 10
      BY <2>6
    <3>2. Letter(x) = "~" /\ j = Size(typed, k)
      BY <1>0, <1>1, <2>0, <3>0, Letters, ZenonT(40)
    <3> QED  BY <1>6, <2>0, <2>1, <2>6, <3>1, <3>2, Meanings
  <2> QED  BY <1>8, <1>13, <2>2, <2>3, <2>4, <2>5, <2>6, Rows
<1> QED  BY <1>8, <1>9, <1>10, <1>11, <1>12, <1>13, Rows

(* What a key begins with. *)
LEMMA FirstLetters ==
  ASSUME NEW kind \in PlainKeys
  PROVE  /\ Sent[kind][1] \in {"CR", "lead", "ESC", "[", "O"}
         /\ Sent[kind][1] = "CR" => kind = "Enter"
         /\ Sent[kind][1] = "[" => kind = "Bracket"
         /\ Sent[kind][1] = "O" => kind = "LetterO"
         /\ Sent[kind][1] = "lead" => kind = "Wide"
         /\ Sent[kind][1] = "ESC" =>
              kind \in {"Escape", "NextWord", "Up", "AppUp", "Delete", "Paste"}
<1>1. kind \in {"Enter", "Wide", "Escape", "Bracket", "LetterO", "NextWord",
                "Up", "AppUp", "Delete", "Paste"}
  BY DEF PlainKeys
<1>2. /\ Sent["Enter"][1] = "CR" /\ Sent["Wide"][1] = "lead"
      /\ Sent["Escape"][1] = "ESC"
      /\ Sent["Bracket"][1] = "[" /\ Sent["LetterO"][1] = "O"
      /\ Sent["NextWord"][1] = "ESC" /\ Sent["Up"][1] = "ESC"
      /\ Sent["AppUp"][1] = "ESC"
      /\ Sent["Delete"][1] = "ESC" /\ Sent["Paste"][1] = "ESC"
  BY Letters, Zenon
<1> QED  BY <1>1, <1>2

(* Inside a key only a paste has an ESC. *)
LEMMA LaterLetters ==
  ASSUME NEW kind \in PlainKeys, NEW j \in Nat, 1 < j, j <= Len(Sent[kind])
  PROVE  /\ Sent[kind][j] \notin {"CR", "lead", "row;col"}
         /\ Sent[kind][j] = "ESC" => kind = "Paste" /\ (j = 5 \/ j = 7)
<1>1. kind \in {"Enter", "Wide", "Escape", "Bracket", "LetterO", "NextWord",
                "Up", "AppUp", "Delete", "Paste"}
  BY DEF PlainKeys
<1>2. /\ Len(Sent["Enter"]) = 1 /\ Len(Sent["Wide"]) = 2 /\ Len(Sent["Escape"]) = 1
      /\ Len(Sent["Bracket"]) = 1 /\ Len(Sent["LetterO"]) = 1
      /\ Len(Sent["NextWord"]) = 2 /\ Len(Sent["Up"]) = 3 /\ Len(Sent["AppUp"]) = 3
      /\ Len(Sent["Delete"]) = 4 /\ Len(Sent["Paste"]) = 10
  BY Letters, Zenon
<1>3. CASE kind \in {"Enter", "Escape", "Bracket", "LetterO"}
  <2>1. Len(Sent[kind]) = 1
    BY <1>2, <1>3, Zenon
  <2>2. \A l \in Nat : l = 1 => ~(1 < j /\ j <= l)
    OBVIOUS
  <2> QED  BY <2>1, <2>2
<1>4. CASE kind \in {"Wide", "NextWord"}
  <2>1. j = 2
    <3>1. Len(Sent[kind]) = 2
      BY <1>2, <1>4, Zenon
    <3>2. \A l \in Nat : l = 2 /\ j <= l => j \in 2..2
      OBVIOUS
    <3> QED  BY <3>1, <3>2
  <2>2. Sent["Wide"][2] = "cont" /\ Sent["NextWord"][2] = "f"
    BY Letters, Zenon
  <2> QED  BY <1>4, <2>1, <2>2
<1>5. CASE kind \in {"Up", "AppUp"}
  <2>1. j = 2 \/ j = 3
    <3>1. Len(Sent[kind]) = 3
      BY <1>2, <1>5, Zenon
    <3>2. \A l \in Nat : l = 3 /\ j <= l => j \in 2..3
      OBVIOUS
    <3> QED  BY <3>1, <3>2
  <2>2. /\ Sent["Up"][2] = "[" /\ Sent["Up"][3] = "A"
        /\ Sent["AppUp"][2] = "O" /\ Sent["AppUp"][3] = "A"
    BY Letters, Zenon
  <2> QED  BY <1>5, <2>1, <2>2
<1>6. CASE kind = "Delete"
  <2>1. j = 2 \/ j = 3 \/ j = 4
    <3>1. Len(Sent[kind]) = 4
      BY <1>2, <1>6, Zenon
    <3>2. \A l \in Nat : l = 4 /\ j <= l => j \in 2..4
      OBVIOUS
    <3> QED  BY <3>1, <3>2
  <2>2. Sent["Delete"][2] = "[" /\ Sent["Delete"][3] = "3" /\ Sent["Delete"][4] = "~"
    BY Letters, Zenon
  <2> QED  BY <1>6, <2>1, <2>2
<1>7. CASE kind = "Paste"
  <2>1. j = 2 \/ j = 3 \/ j = 4 \/ j = 5 \/ j = 6 \/ j = 7 \/ j = 8 \/ j = 9 \/ j = 10
    <3>1. Len(Sent[kind]) = 10
      BY <1>2, <1>7, Zenon
    <3>2. \A l \in Nat : l = 10 /\ j <= l => j \in 2..10
      OBVIOUS
    <3> QED  BY <3>1, <3>2
  <2>2. /\ Sent["Paste"][2] = "[" /\ Sent["Paste"][3] = "200"
        /\ Sent["Paste"][4] = "~" /\ Sent["Paste"][5] = "ESC"
        /\ Sent["Paste"][6] = "c" /\ Sent["Paste"][7] = "ESC"
        /\ Sent["Paste"][8] = "[" /\ Sent["Paste"][9] = "201"
        /\ Sent["Paste"][10] = "~"
    BY Letters, Zenon
  <2> QED  BY <1>7, <2>1, <2>2
<1> QED  BY <1>1, <1>3, <1>4, <1>5, <1>6, <1>7

(* The decoder begins with a byte of key k: its first one, or, when the    *)
(* key has lost some, another.                                             *)
LEMMA DecodeFirst ==
  ASSUME typed \in Seq(PlainKeys), NEW k \in 1..Len(typed),
         NEW j \in 1..Size(typed, k),
         decoder = Start, Decode(Byte(typed, k, j), Run(typed, k, j, j))
  PROVE  ReadOn(k, j, j) \/ MadeOf(k, j, j)
<1> DEFINE x == Byte(typed, k, j)
           s == Run(typed, k, j, j)
           kind == typed[k]
<1>0. /\ Size(typed, k) = Len(Sent[kind]) /\ CharsOf(typed, k) = Sent[kind]
      /\ Size(typed, k) \in Nat /\ kind \in PlainKeys
  <2>1. k \in 0..Len(typed) /\ k # NoKey
    BY DEF NoKey
  <2>2. kind \in PlainKeys
    OBVIOUS
  <2> QED  BY <2>1, <2>2, Sizes DEF Size, CharsOf
<1>1. Letter(x) = Sent[kind][j]
  BY <1>0, ByteFields
<1>2. /\ Letter(x) = "ESC" => Going("esc", s, <<>>, <<>>)
      /\ Letter(x) = "CR" => Return(Key("Enter", <<>>), s)
      /\ Letter(x) = "lead" => Going("utf8", s, <<>>, <<>>)
      /\ Letter(x) \notin {"ESC", "CR", "lead"} => Return(Key("Char", <<Letter(x)>>), s)
  BY StartStep
<1>5. ASSUME NEW a2, Going(a2, s, <<>>, <<>>), Decodes(kind, j, j, a2, <<>>, <<>>)
      PROVE  ReadOn(k, j, j)
  BY <1>5, GoingOn
<1>6. ASSUME NEW key, Return(key, s), j # 1
               \/ (j = Size(typed, k) /\ key = Meaning(kind))
      PROVE  MadeOf(k, j, j)
  BY <1>6 DEF MadeOf
<1> HIDE DEF x, s, kind
<1>7. CASE j = 1
  <2>1. CASE Letter(x) = "CR"
    <3>1. kind = "Enter"
      BY <1>0, <1>1, <1>7, <2>1, FirstLetters
    <3>2. j = Size(typed, k)
      BY <1>0, <1>7, <3>1, Letters, Zenon
    <3>3. Key("Enter", <<>>) = Meaning(kind)
      BY <3>1, Meanings, Zenon
    <3> QED  BY <1>2, <1>6, <2>1, <3>2, <3>3
  <2>2. CASE Letter(x) = "lead"
    <3>1. kind = "Wide"
      BY <1>0, <1>1, <1>7, <2>2, FirstLetters
    <3>2. Decodes(kind, j, j, "utf8", <<>>, <<>>)
      BY <1>7, <3>1 DEF Decodes
    <3> QED  BY <1>2, <1>5, <2>2, <3>2
  <2>3. CASE Letter(x) = "ESC"
    <3>1. kind \in {"Escape", "NextWord", "Up", "AppUp", "Delete", "Paste"}
      BY <1>0, <1>1, <1>7, <2>3, FirstLetters
    <3>2. Decodes(kind, j, j, "esc", <<>>, <<>>)
      BY <1>7, <3>1 DEF Decodes
    <3> QED  BY <1>2, <1>5, <2>3, <3>2
  <2>4. CASE Letter(x) \in {"[", "O"}
    <3>1. kind \in {"Bracket", "LetterO"}
      BY <1>0, <1>1, <1>7, <2>4, FirstLetters
    <3>2. Sent["Bracket"][1] = "[" /\ Sent["LetterO"][1] = "O"
            /\ Len(Sent["Bracket"]) = 1 /\ Len(Sent["LetterO"]) = 1
      BY Letters, Zenon
    <3>3. j = Size(typed, k)
      BY <1>0, <1>7, <3>1, <3>2, Zenon
    <3>4. Key("Char", <<Letter(x)>>) = Meaning(kind)
      BY <1>1, <1>7, <3>1, <3>2, Meanings, Zenon
    <3>5. Letter(x) \notin {"ESC", "CR", "lead"}
      BY <2>4
    <3> QED  BY <1>2, <1>6, <3>3, <3>4, <3>5
  <2> QED  BY <1>0, <1>1, <1>7, <2>1, <2>2, <2>3, <2>4, FirstLetters
<1>8. CASE j # 1
  <2>0. j \in Nat /\ 1 < j /\ j <= Len(Sent[kind])
    BY <1>0, <1>8
  <2>1. CASE Letter(x) = "ESC"
    <3>1. kind = "Paste" /\ (j = 5 \/ j = 7)
      BY <1>0, <1>1, <2>0, <2>1, LaterLetters
    <3>2. Decodes(kind, j, j, "esc", <<>>, <<>>)
      BY <3>1 DEF Decodes
    <3> QED  BY <1>2, <1>5, <2>1, <3>2
  <2>2. CASE Letter(x) # "ESC"
    <3>1. Letter(x) \notin {"ESC", "CR", "lead"}
      BY <1>0, <1>1, <2>0, <2>2, LaterLetters
    <3> QED  BY <1>2, <1>6, <1>8, <3>1
  <2> QED  BY <2>1, <2>2
<1> QED  BY <1>7, <1>8

(* ESC and the first byte of the next key are one key. *)
LEMMA DecodeEscape ==
  ASSUME typed \in Seq(PlainKeys), NEW k \in 1..Len(typed), NEW r, NEW s,
         typed[k] \notin {"Bracket", "LetterO"},
         decoder = Doing("esc", r, <<>>, <<>>), Decode(First(typed, k), s)
  PROVE  Return(Key("Unknown", Chars(s)), s)
<1> DEFINE x == First(typed, k)
<1>1. typed[k] \in PlainKeys /\ CharsOf(typed, k) = Sent[typed[k]]
  BY DEF CharsOf, NoKey
<1>2. Letter(x) = Sent[typed[k]][1]
  BY <1>1, ByteFields DEF First
<1>3. Letter(x) \in {"CR", "lead", "ESC"}
  BY <1>1, <1>2, FirstLetters
<1>4. Letter(x) \notin {"[", "O", "f"} => Return(Key("Unknown", Chars(s)), s)
  BY EscStep
<1> QED  BY <1>3, <1>4

-----------------------------------------------------------------------------
(* What has come out *)

(* The keys that bytes belong to. *)
LEMMA KeysAre ==
  ASSUME NEW s
  PROVE  /\ \A k : k \in KeysOf(s) <=> Held(ToSet(s), k)
         /\ \A b \in ToSet(s) : KeyOf(b) \in KeysOf(s)
BY DEF KeysOf, Held, KeyOf

(* What Decoded says of a key and an element of out. *)
Right(k, i) ==
  /\ k \in KeysOf(out[i].from) =>
       /\ out[i].key = Meaning(typed[k])
       /\ out[i].from = BytesOf(Sent[typed[k]], k)
       /\ \A h \in DOMAIN out : k \in KeysOf(out[h].from) => h = i
  /\ k \notin held /\ (\E j \in KeysOf(out[i].from) : j > k) =>
       \E h \in 1..(i - 1) : k \in KeysOf(out[h].from)

(* Decoded, key by key. *)
LEMMA RightIs ==
  Decoded <=>
    (~torn =>
       \A k \in DOMAIN typed : Untouched(k) => \A i \in DOMAIN out : Right(k, i))
BY DEF Decoded, Right

(* Bytes move or go, and nothing comes out. *)
LEMMA NothingOut ==
  ASSUME Kept, Gone, Decoded, ~torn,
         typed' = typed, out' = out, cut \subseteq cut', held \subseteq held',
         \A k \in DOMAIN typed : Held(Left', k) => Held(Left, k),
         \A k \in DOMAIN typed : Held(Left, k) => Held(Left', k) \/ k \in cut'
  PROVE  Kept' /\ Gone' /\ Decoded'
<1>1. \A k : Untouched(k)' => Untouched(k)
  BY DEF Untouched
<1>2. \A k, i : Delivered(k, i)' <=> Delivered(k, i)
  BY DEF Delivered
<1>3. Kept'
  BY <1>2 DEF Kept
<1>4. Gone'
  BY <1>1, <1>2 DEF Gone
<1>5. \A k, i : Right(k, i) => Right(k, i)'
  BY DEF Right
<1>6. Decoded'
  BY <1>1, <1>5 DEF Decoded, Right
<1> QED  BY <1>3, <1>4, <1>6

(* A key comes out. *)
LEMMA OneOut ==
  ASSUME Kept, Gone, Decoded, ~torn, typed \in Seq(PlainKeys),
         out \in Seq(ToSet(out)),
         \A i \in DOMAIN out : out[i].from \in Seq(Bytes(typed)),
         typed' = typed, cut \subseteq cut', held' = held,
         NEW key, NEW s \in Seq(Bytes(typed)),
         out' = Append(out, [key |-> key, from |-> s]),
         \A k \in DOMAIN typed : Held(Left', k) => Held(Left, k),
         \A k \in DOMAIN typed : Held(Left, k) => Held(Left', k) \/ k \in cut'
           \/ k \in KeysOf(s),
         \A k \in DOMAIN typed : k \in KeysOf(s) => Held(Left, k),
         \A k \in DOMAIN typed : k \in KeysOf(s) /\ Untouched(k)' =>
           /\ key = Meaning(typed[k]) /\ s = BytesOf(Sent[typed[k]], k)
           /\ ~Held(Left', k) /\ \A j \in KeysOf(s) : j = k,
         \A k \in DOMAIN typed : Held(Left, k) =>
           k \in held \/ k \in KeysOf(s) \/ \A j \in KeysOf(s) : j <= k
  PROVE  /\ Kept' /\ Gone' /\ Decoded'
         /\ (out \in Seq(ToSet(out)))'
         /\ (\A i \in DOMAIN out : out[i].from \in Seq(Bytes(typed)))'
<1> DEFINE e == [key |-> key, from |-> s]
<1>0. e.key = key /\ e.from = s
  OBVIOUS
<1>1. \A k : Untouched(k)' => Untouched(k)
  BY DEF Untouched
<1> HIDE DEF e
<1>n. PICK n \in Nat : n = Len(out) + 1
  <2>1. Len(out) + 1 \in Nat
    OBVIOUS
  <2> QED  BY <2>1
<1>2. /\ Len(out) \in Nat /\ DOMAIN out = 1..Len(out) /\ DOMAIN out' = 1..n
      /\ \A i \in 1..Len(out) : out'[i] = out[i]
      /\ out'[n] = e /\ n \in DOMAIN out'
  <2>1. out' = Append(out, e)
    BY DEF e
  <2>2. Len(out) \in Nat /\ DOMAIN out = 1..Len(out)
    OBVIOUS
  <2> QED  BY <2>1, <2>2, <1>n
<1>3. \A i \in DOMAIN out' : i = n \/ i \in DOMAIN out
  BY <1>n, <1>2
<1>4. \A i \in DOMAIN out : i \in DOMAIN out' /\ out'[i] = out[i] /\ i # n /\ i < n
  BY <1>n, <1>2
<1>5. out'[n].from = s /\ out'[n].key = key
  BY <1>0, <1>2
<1>6. /\ \A k : \A i \in DOMAIN out : Delivered(k, i)' <=> Delivered(k, i)
      /\ \A k : Delivered(k, n)' <=> k \in KeysOf(s)
  BY <1>4, <1>5 DEF Delivered
<1>7. Kept'
  <2> SUFFICES ASSUME NEW k \in DOMAIN typed
               PROVE  k \in cut' \/ Held(Left', k)
                        \/ \E i \in DOMAIN out' : Delivered(k, i)'
    BY DEF Kept
  <2>1. k \in cut \/ Held(Left, k) \/ \E i \in DOMAIN out : Delivered(k, i)
    BY DEF Kept
  <2> QED  BY <1>2, <1>4, <1>6, <2>1
<1>8. Gone'
  <2> SUFFICES ASSUME NEW k \in DOMAIN typed, NEW i \in DOMAIN out', Untouched(k)',
                      Delivered(k, i)'
               PROVE  ~Held(Left', k)
    BY DEF Gone
  <2>1. CASE i = n
    BY <1>6, <2>1
  <2>2. CASE i \in DOMAIN out
    <3>1. Untouched(k) /\ Delivered(k, i)
      BY <1>1, <1>6, <2>2
    <3> QED  BY <2>2, <3>1 DEF Gone
  <2> QED  BY <1>3, <2>1, <2>2
<1>9. Decoded'
  <2> SUFFICES ASSUME NEW k \in DOMAIN typed, Untouched(k)', NEW i \in DOMAIN out'
               PROVE  Right(k, i)'
    BY DEF Decoded, Right
  <2>0. Untouched(k) /\ k \notin cut'
    BY <1>1 DEF Untouched
  <2>1. ASSUME k \in KeysOf(s), NEW h \in DOMAIN out
        PROVE  ~Delivered(k, h)
    BY <2>0, <2>1 DEF Gone
  <2>2. CASE i = n
    <3>1. ASSUME k \in KeysOf(s)
          PROVE  /\ key = Meaning(typed[k]) /\ s = BytesOf(Sent[typed[k]], k)
                 /\ \A h \in DOMAIN out' : Delivered(k, h)' => h = n
                 /\ ~ \E j \in KeysOf(s) : j > k
      <4>1. \A j \in KeysOf(s) : ~(j > k)
        BY <3>1
      <4> QED  BY <1>3, <1>6, <2>1, <3>1, <4>1
    <3>2. ASSUME k \notin held, NEW j \in KeysOf(s), j > k, k \notin KeysOf(s)
          PROVE  \E h \in 1..(n - 1) : Delivered(k, h)'
      <4>1. ~(j <= k)
        <5>1. k \in Nat
          OBVIOUS
        <5>2. j \in Nat
          <6>1. PICK b \in ToSet(s) : KeyOf(b) = j
            BY <3>2, KeysAre DEF Held
          <6>2. b \in Bytes(typed)
            BY <6>1, SetOf
          <6> QED  BY <6>1, <6>2, ByteIs
        <5> QED  BY <3>2, <5>1, <5>2
      <4>2. ~Held(Left, k)
        BY <3>2, <4>1
      <4>3. PICK h \in DOMAIN out : Delivered(k, h)
        BY <2>0, <4>2 DEF Kept
      <4>4. h \in 1..(n - 1)
        BY <1>n, <1>2, <4>3
      <4> QED  BY <1>6, <4>3, <4>4
    <3> QED  BY <1>5, <2>2, <3>1, <3>2 DEF Right, Delivered
  <2>3. CASE i \in DOMAIN out
    <3>1. Right(k, i) /\ out'[i] = out[i]
      BY <1>4, <2>0, <2>3, RightIs
    <3>2. ASSUME k \in KeysOf(out[i].from), NEW h \in DOMAIN out', Delivered(k, h)'
          PROVE  h = i
      <4>1. CASE h = n
        <5>1. k \in KeysOf(s)
          BY <1>6, <3>2, <4>1
        <5> QED  BY <2>1, <2>3, <3>2, <5>1 DEF Delivered
      <4>2. CASE h \in DOMAIN out
        BY <1>6, <3>1, <3>2, <4>2 DEF Right, Delivered
      <4> QED  BY <1>3, <4>1, <4>2
    <3>3. ASSUME NEW h \in 1..(i - 1), k \in KeysOf(out[h].from)
          PROVE  k \in KeysOf(out'[h].from)
      <4>1. h \in 1..Len(out)
        BY <1>2, <2>3
      <4> QED  BY <1>2, <3>3, <4>1
    <3> QED  BY <3>1, <3>2, <3>3 DEF Right, Delivered
  <2> QED  BY <1>3, <2>2, <2>3
<1>10. (out \in Seq(ToSet(out)))'
  <2> DEFINE S == ToSet(out) \cup {e}
  <2>1. out \in Seq(S) /\ e \in S
    <3>1. ToSet(out) \subseteq S
      OBVIOUS
    <3> HIDE DEF S
    <3>2. out \in Seq(S)
      BY <3>1
    <3> QED  BY <3>2 DEF S
  <2> HIDE DEF S
  <2>2. Append(out, e) \in Seq(S) /\ ToSet(Append(out, e)) = ToSet(out) \cup {e}
    BY <2>1, AppendSet
  <2> QED  BY <2>2 DEF S, e
<1>11. \A i \in DOMAIN out' : out'[i].from \in Seq(Bytes(typed))'
  BY <1>3, <1>4, <1>5
<1> QED  BY <1>7, <1>8, <1>9, <1>10, <1>11

-----------------------------------------------------------------------------
(* A key is pressed *)

(* The bytes N of one more key. *)
NewKey(T, U, N) ==
  /\ N \subseteq Bytes(U) /\ First(U, Len(T) + 1) \in N
  /\ \A b \in N : /\ KeyOf(b) = Len(T) + 1
                  /\ ~Ends(b) => After(U, b) \in N
                  /\ Nth(b) > 1 => Prior(U, b) \in N

(* What the terminal sends for a key is all of its bytes, in order. *)
LEMMA WholeKey ==
  ASSUME NEW U \in Seq(PlainKeys), NEW k \in 0..Len(U), NEW s,
         s = BytesOf(CharsOf(U, k), k)
  PROVE  /\ s \in Seq(Bytes(U)) /\ First(U, k) \in ToSet(s)
         /\ \A b \in ToSet(s) : /\ b \in Bytes(U) /\ KeyOf(b) = k
                                /\ ~Ends(b) => After(U, b) \in ToSet(s)
                                /\ Nth(b) > 1 => Prior(U, b) \in ToSet(s)
         /\ \A a \in Nat : Sorted(a, s)
<1> DEFINE z == Size(U, k)
<1>4. z \in Nat /\ 1 <= z /\ 1 \in Nat /\ z <= Size(U, k)
  <2>1. Size(U, k) \in 1..10
    BY Sizes
  <2> QED  BY <2>1
<1>5. s = Run(U, k, 1, z)
  BY RunOfAll
<1> HIDE DEF z
<1> DEFINE m == 1
<1>1. m \in Nat /\ 1 <= m /\ m <= z /\ s = Run(U, k, m, z)
  BY <1>4, <1>5
<1> HIDE DEF m
<1>2. /\ Run(U, k, m, z) \in Seq(Bytes(U)) /\ Len(Run(U, k, m, z)) = (z - m) + 1
      /\ \A i \in 1..((z - m) + 1) : Run(U, k, m, z)[i] = Byte(U, k, (m + i) - 1)
  <2>1. Run(U, k, m, z) \in Seq(Bytes(U))
    BY <1>4, <1>1, RunIs
  <2>2. Len(Run(U, k, m, z)) = (z - m) + 1
    BY <1>4, <1>1, RunIs
  <2>3. \A i \in 1..((z - m) + 1) : Run(U, k, m, z)[i] = Byte(U, k, (m + i) - 1)
    BY <1>4, <1>1, RunIs, ZenonT(40)
  <2> QED  BY <2>1, <2>2, <2>3
<1>3. /\ \A b \in ToSet(Run(U, k, m, z)) :
           /\ b \in Bytes(U) /\ KeyOf(b) = k /\ Nth(b) >= m /\ Nth(b) <= z
           /\ b = Byte(U, k, z) \/ (~Ends(b) /\ After(U, b) \in ToSet(Run(U, k, m, z)))
      /\ \A i \in Nat : m <= i /\ i <= z => Byte(U, k, i) \in ToSet(Run(U, k, m, z))
  BY <1>4, <1>1, RunIs
<1>6. /\ s \in Seq(Bytes(U)) /\ Len(s) = (z - 1) + 1
      /\ \A i \in 1..((z - 1) + 1) : s[i] = Byte(U, k, (1 + i) - 1)
      /\ \A b \in ToSet(s) :
           /\ b \in Bytes(U) /\ KeyOf(b) = k /\ Nth(b) >= 1 /\ Nth(b) <= z
           /\ b = Byte(U, k, z) \/ (~Ends(b) /\ After(U, b) \in ToSet(s))
      /\ \A i \in Nat : 1 <= i /\ i <= z => Byte(U, k, i) \in ToSet(s)
  BY <1>1, <1>2, <1>3, Zenon DEF m
<1>7. Ends(Byte(U, k, z))
  BY ByteFields DEF z
<1>8. First(U, k) \in ToSet(s)
  BY <1>4, <1>6 DEF First
<1>9. ASSUME NEW b \in ToSet(s), Nth(b) > 1 PROVE Prior(U, b) \in ToSet(s)
  <2>1. b \in Bytes(U) /\ KeyOf(b) = k /\ Nth(b) <= z
    BY <1>6
  <2>2. Nth(b) \in Nat
    BY <2>1, Ranks
  <2>3. Nth(b) - 1 \in Nat /\ 1 <= Nth(b) - 1 /\ Nth(b) - 1 <= z
    BY <1>4, <1>9, <2>1, <2>2
  <2> QED  BY <1>6, <2>1, <2>3 DEF Prior
<1>11. ASSUME NEW a \in Nat PROVE Sorted(a, s)
  <2> SUFFICES ASSUME NEW i \in 1..Len(s), NEW j \in 1..Len(s), i < j
               PROVE  Rank(a, s[i]) < Rank(a, s[j])
    <3>1. DOMAIN s = 1..Len(s)
      BY <1>6
    <3> QED  BY <3>1 DEF Sorted
  <2>1. i \in 1..((z - 1) + 1) /\ j \in 1..((z - 1) + 1) /\ (1 + i) - 1 = i
          /\ (1 + j) - 1 = j
    BY <1>4, <1>6
  <2>2. s[i] = Byte(U, k, i) /\ s[j] = Byte(U, k, j)
    BY <1>6, <2>1
  <2>3. /\ KeyOf(s[i]) = k /\ Nth(s[i]) = i
        /\ KeyOf(s[j]) = k /\ Nth(s[j]) = j
    BY <2>2, ByteFields
  <2>4. CASE k = NoKey
    <3>1. Rank(a, s[i]) = (32 * a + 16) + i /\ Rank(a, s[j]) = (32 * a + 16) + j
      BY <2>3, <2>4 DEF Rank
    <3> QED  BY <3>1
  <2>5. CASE k # NoKey
    <3>1. Rank(a, s[i]) = 32 * k + i /\ Rank(a, s[j]) = 32 * k + j
      BY <2>3, <2>5 DEF Rank
    <3> QED  BY <3>1
  <2> QED  BY <2>4, <2>5
<1> QED  BY <1>6, <1>7, <1>8, <1>9, <1>11

(* The same for the key just typed. *)
LEMMA NewKeyIs ==
  ASSUME NEW T \in Seq(PlainKeys), NEW x \in PlainKeys, NEW U, U = Append(T, x),
         NEW s, s = BytesOf(Sent[x], Len(T) + 1)
  PROVE  /\ s \in Seq(Bytes(U)) /\ NewKey(T, U, ToSet(s))
         /\ \A a \in Nat : Sorted(a, s)
<1>1. /\ U \in Seq(PlainKeys) /\ Len(U) = Len(T) + 1 /\ U[Len(T) + 1] = x
  BY TypingOn
<1> DEFINE k == Len(T) + 1
<1>2. k \in 0..Len(U) /\ k # NoKey /\ k \in Nat
  BY <1>1 DEF NoKey
<1>3. s = BytesOf(CharsOf(U, k), k)
  BY <1>1, <1>2 DEF CharsOf
<1> HIDE DEF k
<1>4. /\ s \in Seq(Bytes(U)) /\ First(U, k) \in ToSet(s)
      /\ \A b \in ToSet(s) : /\ b \in Bytes(U) /\ KeyOf(b) = k
                             /\ ~Ends(b) => After(U, b) \in ToSet(s)
                             /\ Nth(b) > 1 => Prior(U, b) \in ToSet(s)
      /\ \A a \in Nat : Sorted(a, s)
  BY <1>1, <1>2, <1>3, WholeKey
<1>5. NewKey(T, U, ToSet(s))
  BY <1>4 DEF NewKey, k
<1> QED  BY <1>4, <1>5

(* It comes behind everything. *)
LEMMA NewKeyLast ==
  ASSUME NEW T \in Seq(PlainKeys), NEW x \in PlainKeys, NEW U, U = Append(T, x),
         NEW N, NewKey(T, U, N), NEW a \in 0..Len(T)
  PROVE  Before(a, Bytes(T), N)
<1> SUFFICES ASSUME NEW b \in Bytes(T), NEW c \in N PROVE Rank(a, b) < Rank(a, c)
  BY DEF Before
<1>1. U \in Seq(PlainKeys) /\ c \in Bytes(U) /\ KeyOf(c) = Len(T) + 1
  BY TypingOn DEF NewKey
<1>0. Len(T) \in Nat /\ a \in Nat /\ a <= Len(T)
  OBVIOUS
<1>2. /\ KeyOf(b) \in Nat /\ KeyOf(b) <= Len(T) /\ Nth(b) \in Nat /\ Nth(b) <= 10
      /\ KeyOf(b) = NoKey => Rank(a, b) = (32 * a + 16) + Nth(b)
      /\ KeyOf(b) # NoKey => Rank(a, b) = 32 * KeyOf(b) + Nth(b)
  BY <1>0, Ranks
<1>3. /\ Nth(c) \in Nat /\ 1 <= Nth(c)
      /\ KeyOf(c) # NoKey => Rank(a, c) = 32 * KeyOf(c) + Nth(c)
  BY <1>0, <1>1, Ranks, ZenonT(40)
<1>4. Rank(a, c) = 32 * (Len(T) + 1) + Nth(c)
  BY <1>0, <1>1, <1>3 DEF NoKey
<1> QED  BY <1>0, <1>2, <1>3, <1>4

(* The sets of bytes grow by it. *)
LEMMA PressUp ==
  ASSUME NEW T \in Seq(PlainKeys), NEW x \in PlainKeys, NEW U, U = Append(T, x),
         NEW N, NewKey(T, U, N), NEW S \in SUBSET Bytes(T), NEW Q, Up(T, S, Q)
  PROVE  Up(U, S, Q) /\ Up(U, S \cup N, Q \cup N)
<1>1. \A b \in Bytes(T) : After(U, b) = After(T, b)
  BY TypingOn
<1> QED  BY <1>1 DEF Up, NewKey

(* A key typed later spoils none of the earlier ones. *)
LEMMA PressSpoilt ==
  ASSUME NEW T \in Seq(PlainKeys), NEW x \in PlainKeys, NEW U, U = Append(T, x),
         NEW X, NEW k \in 0..Len(T)
  PROVE  Spoilt(U, X, k) <=> Spoilt(T, X, k)
<1>1. \A j \in 1..Len(T) : U[j] = T[j]
  BY TypingOn
<1>2. k > 1 => k - 1 \in 1..Len(T)
  OBVIOUS
<1> QED  BY <1>1, <1>2 DEF Spoilt

(* No byte loses the one before it. *)
LEMMA PressDown ==
  ASSUME NEW T \in Seq(PlainKeys), NEW x \in PlainKeys, NEW U, U = Append(T, x),
         NEW X,
         NEW N, NewKey(T, U, N), NEW S \in SUBSET Bytes(T), NEW Q, Down(T, X, S, Q)
  PROVE  Down(U, X, S, Q) /\ Down(U, X, S \cup N, Q \cup N)
<1>1. \A b \in Bytes(T) : Prior(U, b) = Prior(T, b)
  BY TypingOn
<1>2. \A b \in Bytes(T) : Spoilt(U, X, KeyOf(b)) <=> Spoilt(T, X, KeyOf(b))
  BY ByteIs, PressSpoilt
<1> QED  BY <1>1, <1>2 DEF Down, NewKey

(* No Escape loses the key behind it, and the last one gains one. *)
LEMMA PressLink ==
  ASSUME NEW T \in Seq(PlainKeys), NEW x \in PlainKeys, NEW U, U = Append(T, x),
         NEW N, NewKey(T, U, N), NEW S \in SUBSET Bytes(T), NEW Q, Link(T, S, Q)
  PROVE  /\ Link(U, S, Q \cup N) /\ Link(U, S \cup N, Q \cup N)
         /\ (\A b \in S : IsEscape(b) => KeyOf(b) < Len(T)) => Link(U, S, Q)
<1>0. Len(T) \in Nat /\ Len(U) = Len(T) + 1
  BY TypingOn
<1>1. \A k \in 0..Len(T) : First(U, k) = First(T, k)
  BY TypingOn
<1>2. \A b \in N : KeyOf(b) = Len(U)
  BY <1>0 DEF NewKey
<1>3. ASSUME NEW b \in S, IsEscape(b), KeyOf(b) < Len(T)
      PROVE  First(U, KeyOf(b) + 1) \in Q
  <2>1. KeyOf(b) \in 0..Len(T)
    BY ByteIs
  <2>2. KeyOf(b) + 1 \in 0..Len(T)
    BY <1>0, <1>3, <2>1
  <2> QED  BY <1>1, <1>3, <2>2 DEF Link
<1>4. ASSUME NEW b \in S, ~(KeyOf(b) < Len(T))
      PROVE  First(U, KeyOf(b) + 1) \in N
  <2>1. KeyOf(b) \in 0..Len(T)
    BY ByteIs
  <2>2. KeyOf(b) = Len(T)
    BY <1>0, <1>4, <2>1
  <2> QED  BY <2>2 DEF NewKey
<1>5. \A b \in N : ~(KeyOf(b) < Len(U))
  BY <1>0, <1>2
<1> QED  BY <1>3, <1>4, <1>5 DEF Link

(* The sets of a question grow by the new key. *)
LEMMA PressAsk ==
  ASSUME NEW T \in Seq(PlainKeys), NEW x \in PlainKeys, NEW U, U = Append(T, x),
         NEW X,
         NEW N, NewKey(T, U, N),
         NEW p \in SUBSET Bytes(T), NEW b \in SUBSET Bytes(T),
         NEW c \in SUBSET Bytes(T), NEW w \in SUBSET Bytes(T),
         AskSets(T, X, p, b, c, w)
  PROVE  AskSets(U, X, p, b, c, w \cup N)
<1> DEFINE S == p \cup b \cup c \cup w
           Q == b \cup c \cup w
<1>1. S \in SUBSET Bytes(T) /\ Q \in SUBSET Bytes(T) /\ Up(T, S, S)
        /\ Down(T, X, S, S) /\ Link(T, Q, Q)
  BY DEF AskSets
<1>2. S \cup N = p \cup b \cup c \cup (w \cup N) /\ Q \cup N = b \cup c \cup (w \cup N)
  OBVIOUS
<1> HIDE DEF S, Q
<1>3. Up(U, S \cup N, S \cup N) /\ Down(U, X, S \cup N, S \cup N)
        /\ Link(U, Q \cup N, Q \cup N)
  BY <1>1, PressUp, PressDown, PressLink
<1> QED  BY <1>2, <1>3 DEF AskSets

(* The sets of the decoder grow by the new key. *)
LEMMA PressRead ==
  ASSUME NEW T \in Seq(PlainKeys), NEW x \in PlainKeys, NEW U, U = Append(T, x),
         NEW X,
         NEW N, NewKey(T, U, N), NEW a \in 0..Len(T),
         NEW r \in SUBSET Bytes(T), NEW p \in SUBSET Bytes(T),
         NEW c \in SUBSET Bytes(T), NEW w \in SUBSET Bytes(T),
         ReadSets(T, X, a, r, p, c, w)
  PROVE  ReadSets(U, X, a, r, p, c, w \cup N)
<1> DEFINE S == r \cup p \cup w
           Q == Alone(r) \cup w
<1>1. /\ S \in SUBSET Bytes(T) /\ Q \in SUBSET Bytes(T)
      /\ Up(T, S, S) /\ Down(T, X, S, S) /\ Link(T, Q, S)
  BY DEF ReadSets, Alone
<1>2. S \cup N = r \cup p \cup (w \cup N) /\ Q \cup N = Alone(r) \cup (w \cup N)
  OBVIOUS
<1> HIDE DEF S, Q
<1>3. Up(U, S \cup N, S \cup N) /\ Down(U, X, S \cup N, S \cup N)
        /\ Link(U, Q \cup N, S \cup N)
  BY <1>1, PressUp, PressDown, PressLink
<1>4. Up(T, p, p) /\ Up(T, c, c) /\ Down(T, X, c, c) /\ Link(T, c, c)
      /\ (\A d \in c : IsEscape(d) => KeyOf(d) < Len(T))
      /\ Before(a, r, p) /\ Before(a, r, w)
  BY DEF ReadSets
<1>5. Up(U, p, p) /\ Up(U, c, c) /\ Down(U, X, c, c) /\ Link(U, c, c)
  BY <1>4, PressUp, PressDown, PressLink
<1>6. \A d \in c : IsEscape(d) => KeyOf(d) < Len(U)
  <2>1. Len(T) \in Nat /\ Len(U) = Len(T) + 1
    BY TypingOn
  <2> QED  BY <1>4, <2>1, ByteIs
<1>7. \A d \in c, b \in r \cup p \cup (w \cup N) : KeyOf(d) # KeyOf(b)
  <2>1. \A d \in c, b \in N : KeyOf(d) # KeyOf(b)
    <3>1. \A d \in c : KeyOf(d) \in 0..Len(T)
      BY ByteIs
    <3>2. Len(T) + 1 \notin 0..Len(T)
      OBVIOUS
    <3> QED  BY <3>1, <3>2 DEF NewKey
  <2> QED  BY <2>1 DEF ReadSets
<1>8. Before(a, r, w \cup N)
  BY <1>4, NewKeyLast DEF Before
<1> QED  BY <1>2, <1>3, <1>4, <1>5, <1>6, <1>7, <1>8 DEF ReadSets

(* A sequence of bytes is one of more bytes. *)
LEMMA MoreBytes ==
  ASSUME NEW S, NEW Q, S \subseteq Q, NEW s \in Seq(S)
  PROVE  s \in Seq(Q)
OBVIOUS

(* The sets of bytes, and the fields of the question. *)
LEMMA SetsAre ==
  ASSUME Typing
  PROVE  /\ typed \in Seq(PlainKeys) /\ Len(typed) \in Nat
         /\ DOMAIN typed = 1..Len(typed)
         /\ P \in SUBSET Bytes(typed) /\ B \in SUBSET Bytes(typed)
         /\ C \in SUBSET Bytes(typed) /\ W \in SUBSET Bytes(typed)
         /\ ToSet(tty) \in SUBSET Bytes(typed) /\ ToSet(wire) \in SUBSET Bytes(typed)
         /\ R \in SUBSET Bytes(typed)
         /\ ask.answered \in Nat /\ ask.answered \in 0..Len(typed)
         /\ ask.buf \in Seq(Bytes(typed)) /\ ask.times \in Nat /\ ask.sent \in BOOLEAN
         /\ ask.at \in {"loop", "esc", "csi"}
<1>1. /\ typed \in Seq(PlainKeys)
      /\ pending_input \in Seq(Bytes(typed)) /\ channel \in Seq(Bytes(typed))
      /\ tty \in Seq(Bytes(typed)) /\ wire \in Seq(Bytes(typed))
      /\ decoder.read \in Seq(Bytes(typed))
  BY DEF Typing
<1>2. /\ ask.answered \in 0..Len(typed) /\ ask.buf \in Seq(Bytes(typed))
      /\ ask.times \in Nat
      /\ ask.sent \in BOOLEAN /\ ask.at \in {"loop", "esc", "csi"}
  BY DEF Typing
<1>3. Len(typed) \in Nat /\ DOMAIN typed = 1..Len(typed) /\ ask.answered \in Nat
  BY <1>1, <1>2
<1>4. /\ ToSet(pending_input) \subseteq Bytes(typed)
      /\ ToSet(ask.buf) \subseteq Bytes(typed)
      /\ ToSet(channel) \subseteq Bytes(typed) /\ ToSet(tty) \subseteq Bytes(typed)
      /\ ToSet(wire) \subseteq Bytes(typed)
      /\ ToSet(decoder.read) \subseteq Bytes(typed)
  BY <1>1, <1>2, SetOf
<1> QED  BY <1>1, <1>2, <1>3, <1>4 DEF P, B, C, W, R

(* As long as nothing is opened, a plain key is pressed, and no "[" and no *)
(* "O" behind an Escape.                                                   *)
LEMMA PressedIs ==
  ASSUME typed \in Seq(PlainKeys), NEW x \in Keys, typed' = Append(typed, x),
         NothingOpened'
  PROVE  x \in PlainKeys /\ (Apart(typed) => Apart(typed'))
<1> DEFINE n == Len(typed) + 1
<1>1. /\ n \in DOMAIN typed' /\ typed'[n] = x /\ n \in Nat /\ DOMAIN typed' = 1..n
      /\ Len(typed') = n /\ \A k \in 1..Len(typed) : typed'[k] = typed[k]
  OBVIOUS
<1>2. x \in DOMAIN Sent
  BY TtyAssumption
<1>3. x \notin {"AltBracket", "AltO"}
  BY <1>1 DEF NothingOpened, OpensCsi, OpensSs3
<1>4. x \in PlainKeys
  BY <1>2, <1>3, SentIs, Zenon
<1>5. ASSUME Apart(typed), NEW k \in 1..(Len(typed') - 1), typed'[k] = "Escape"
      PROVE  typed'[k + 1] \notin {"Bracket", "LetterO"}
  <2>1. k + 1 \in DOMAIN typed' /\ k + 1 > 1 /\ (k + 1) - 1 = k
    BY <1>1, <1>5
  <2> QED  BY <1>5, <2>1 DEF NothingOpened, OpensCsi, OpensSs3
<1> QED  BY <1>4, <1>5 DEF Apart

(* Press keeps the invariant. *)
LEMMA PressStep ==
  ASSUME Core, Press, ~torn', NothingOpened'
  PROVE  Core'
<1>0. ~torn /\ Typing /\ Ordered /\ Kept /\ Gone /\ Decoded /\ (Stuck \/ InSync)
  BY DEF Press, channel_left, Core
<1>1. PICK x \in Keys : /\ typed' = Append(typed, x)
                        /\ wire' = wire \o BytesOf(Sent[x], Len(typed) + 1)
  BY DEF Press
<1>2. /\ tty' = tty /\ channel' = channel /\ pending_input' = pending_input /\ ui' = ui
      /\ ask' = ask /\ decoder' = decoder /\ out' = out /\ cut' = cut /\ held' = held
  BY DEF Press, channel_left
<1>3. /\ typed \in Seq(PlainKeys) /\ Len(typed) \in Nat
      /\ DOMAIN typed = 1..Len(typed)
      /\ P \in SUBSET Bytes(typed) /\ B \in SUBSET Bytes(typed)
      /\ C \in SUBSET Bytes(typed) /\ W \in SUBSET Bytes(typed)
      /\ ToSet(tty) \in SUBSET Bytes(typed) /\ ToSet(wire) \in SUBSET Bytes(typed)
      /\ R \in SUBSET Bytes(typed)
      /\ ask.answered \in Nat /\ ask.answered \in 0..Len(typed)
  BY <1>0, SetsAre
<1> DEFINE T == typed
           U == typed'
           a == ask.answered
           s == BytesOf(Sent[x], Len(typed) + 1)
           N == ToSet(s)
<1>4. x \in PlainKeys
  BY <1>1, <1>3, PressedIs
<1>5. /\ U \in Seq(PlainKeys) /\ Len(U) = Len(T) + 1 /\ U[Len(T) + 1] = x
      /\ \A k \in 1..Len(T) : U[k] = T[k]
      /\ \A k \in 0..Len(T) : \A n : Byte(U, k, n) = Byte(T, k, n)
      /\ \A k \in 0..Len(T) : First(U, k) = First(T, k)
      /\ \A b \in Bytes(T) : b \in Bytes(U) /\ After(U, b) = After(T, b)
  <2>0. typed \in Seq(PlainKeys) /\ typed' = Append(typed, x)
    BY <1>1, <1>3
  <2>1. U \in Seq(PlainKeys) /\ Len(U) = Len(T) + 1 /\ U[Len(T) + 1] = x
    BY <2>0, <1>4, TypingOn
  <2>2. \A k \in 1..Len(T) : U[k] = T[k]
    BY <2>0, <1>4, TypingOn
  <2>3. \A k \in 0..Len(T) : \A n : Byte(U, k, n) = Byte(T, k, n)
    <3>1. \A k \in 0..Len(T) : CharsOf(U, k) = CharsOf(T, k)
      BY <2>0, <1>4, TypingOn
    <3> QED  BY <3>1, Zenon DEF Byte, Size
  <2>4. \A k \in 0..Len(T) : First(U, k) = First(T, k)
    BY <2>0, <1>4, TypingOn
  <2>5. \A b \in Bytes(T) : b \in Bytes(U) /\ After(U, b) = After(T, b)
    BY <2>0, <1>4, TypingOn, Zenon
  <2> QED  BY <2>1, <2>2, <2>3, <2>4, <2>5
<1>6. s \in Seq(Bytes(U)) /\ NewKey(T, U, N) /\ Sorted(a, s)
  BY <1>1, <1>3, <1>4, NewKeyIs
<1>7. \A b \in N : b \in Bytes(U) /\ KeyOf(b) = Len(T) + 1 /\ KeyOf(b) # NoKey
        /\ KeyOf(b) \notin 1..Len(T)
  BY <1>3, <1>6 DEF NewKey, NoKey
<1>8. Before(a, Bytes(T), N)
  BY <1>1, <1>3, <1>4, <1>6, NewKeyLast
<1>9. wire' = wire \o s
  BY <1>1
<1>a. wire \in Seq(Bytes(U)) /\ tty \in Seq(Bytes(U)) /\ channel \in Seq(Bytes(U))
      /\ pending_input \in Seq(Bytes(U)) /\ decoder.read \in Seq(Bytes(U))
      /\ \A i \in DOMAIN out : out[i].from \in Seq(Bytes(U))
  <2>1. Bytes(T) \subseteq Bytes(U)
    BY <1>5
  <2> QED  BY <1>0, <2>1, MoreBytes DEF Typing
<1> HIDE DEF s, N
<1>10. wire' \in Seq(Bytes(U)) /\ ToSet(wire') = ToSet(wire) \cup N
  BY <1>6, <1>9, <1>a, ConcatSet DEF N
<1>11. P' = P /\ B' = B /\ C' = C /\ R' = R /\ W' = W \cup N
  BY <1>2, <1>10 DEF P, B, C, R, W
<1>12. Typing'
  <2>1. ask' \in [at : {"loop", "esc", "csi"}, buf : Seq(Bytes(typed')), times : Nat,
                  sent : BOOLEAN, answered : 0..Len(typed')]
    <3>1. Seq(Bytes(typed)) \subseteq Seq(Bytes(typed'))
      <4>1. Bytes(T) \subseteq Bytes(U)
        BY <1>5
      <4> QED  BY <4>1, MoreBytes
    <3>2. 0..Len(typed) \subseteq 0..Len(typed')
      BY <1>3, <1>5
    <3>3. ask \in [at : {"loop", "esc", "csi"}, buf : Seq(Bytes(typed)), times : Nat,
                   sent : BOOLEAN, answered : 0..Len(typed)]
      BY <1>0 DEF Typing
    <3> DEFINE A == Seq(Bytes(typed))
               A2 == Seq(Bytes(typed'))
               D == 0..Len(typed)
               D2 == 0..Len(typed')
    <3> HIDE DEF A, A2, D, D2
    <3>4. ask \in [at : {"loop", "esc", "csi"}, buf : A, times : Nat, sent : BOOLEAN,
            answered : D]
          /\ A \subseteq A2 /\ D \subseteq D2
      BY <3>1, <3>2, <3>3 DEF A, A2, D, D2
    <3>5. ask \in [at : {"loop", "esc", "csi"}, buf : A2, times : Nat, sent : BOOLEAN,
            answered : D2]
      BY <3>4
    <3> QED  BY <1>2, <3>5 DEF A2, D2
  <2>2. out' \in Seq(ToSet(out'))
          /\ ui' \in {"asking", "draining", "loop", "passthrough", "choosing"}
    BY <1>0, <1>2 DEF Typing
  <2>3. Apart(typed')
    BY <1>0, <1>1, <1>3, PressedIs DEF Typing
  <2> QED  BY <1>2, <1>5, <1>10, <1>a, <2>1, <2>2, <2>3 DEF Typing
<1>13. Ordered'
  <2>1. \A S \in SUBSET Bytes(T) : Before(a, S, N)
    BY <1>8 DEF Before
  <2>2. Sorted(a, wire')
    <3>1. Sorted(a, wire) /\ Before(a, ToSet(wire), ToSet(s))
      BY <1>0, <1>3, <2>1 DEF Ordered, N
    <3> QED  BY <1>6, <1>9, <1>a, <3>1, SortedConcat
  <2>3. \A S, Q : Before(a, S, Q) /\ Before(a, S, N) => Before(a, S, Q \cup N)
    BY DEF Before
  <2>4. /\ Before(a, P, W \cup N) /\ Before(a, B, W \cup N) /\ Before(a, C, W \cup N)
        /\ Before(a, ToSet(tty), ToSet(wire) \cup N)
    BY <1>0, <1>3, <2>1, <2>3 DEF Ordered
  <2> QED  BY <1>0, <1>2, <1>10, <1>11, <2>2, <2>4 DEF Ordered
<1>14. \A k \in 1..Len(T) : Held(Left', k) <=> Held(Left, k)
  <2>1. Left' = Left \cup N
    BY <1>11 DEF Left
  <2> QED  BY <1>7, <2>1 DEF Held
<1>15. Held(Left', Len(T) + 1)
  <2>1. N # {}
    BY <1>6 DEF NewKey
  <2>2. N \subseteq Left'
    BY <1>11 DEF Left
  <2> QED  BY <1>7, <2>1, <2>2 DEF Held
<1>16. \A k, i : Delivered(k, i)' <=> Delivered(k, i)
  BY <1>2 DEF Delivered
<1>17. ASSUME NEW i \in DOMAIN out, NEW k \in KeysOf(out[i].from) PROVE k \in 0..Len(T)
  <2>1. PICK b \in ToSet(out[i].from) : KeyOf(b) = k
    BY <1>17, KeysAre DEF Held
  <2>2. b \in Bytes(T)
    <3>1. out[i].from \in Seq(Bytes(T))
      BY <1>0 DEF Typing
    <3> QED  BY <2>1, <3>1, SetOf
  <2> QED  BY <1>3, <2>1, <2>2, ByteIs
<1>18. DOMAIN U = 1..(Len(T) + 1) /\ \A k \in DOMAIN U : k \in 1..Len(T)
         \/ k = Len(T) + 1
  BY <1>3, <1>5
<1>19. ASSUME NEW k \in 1..Len(T), Untouched(k)' PROVE Untouched(k)
  <2>1. U[k] = T[k] /\ k # Len(U) /\ (k > 1 => U[k - 1] = T[k - 1])
    <3>1. k > 1 => k - 1 \in 1..Len(T)
      BY <1>3
    <3> QED  BY <1>3, <1>5, <3>1
  <2> QED  BY <1>2, <1>19, <2>1 DEF Untouched
<1>20. Kept'
  BY <1>0, <1>2, <1>3, <1>14, <1>15, <1>16, <1>18 DEF Kept
<1>21. Gone'
  <2> SUFFICES ASSUME NEW k \in DOMAIN U, NEW i \in DOMAIN out, Untouched(k)',
                      Delivered(k, i)
               PROVE  ~Held(Left', k)
    BY <1>2, <1>16 DEF Gone
  <2>1. k \in 0..Len(T)
    BY <1>17 DEF Delivered
  <2>2. k \in 1..Len(T)
    BY <1>3, <1>18, <2>1
  <2> QED  BY <1>0, <1>3, <1>14, <1>19, <2>2 DEF Gone
<1>22. Decoded'
  <2> SUFFICES ASSUME NEW k \in DOMAIN U, Untouched(k)', NEW i \in DOMAIN out
               PROVE  Right(k, i)'
    BY <1>2 DEF Decoded, Right
  <2>1. CASE k \in 1..Len(T)
    <3>1. Right(k, i)
      BY <1>0, <1>3, <1>19, <2>1, RightIs
    <3>2. U[k] = T[k]
      BY <1>5, <2>1
    <3> QED  BY <1>2, <3>1, <3>2 DEF Right
  <2>2. CASE k = Len(T) + 1
    <3>1. k \notin KeysOf(out[i].from) /\ \A j \in KeysOf(out[i].from) : ~(j > k)
      <4>1. \A j \in 0..Len(T) : j # Len(T) + 1 /\ ~(j > Len(T) + 1)
        BY <1>3
      <4>2. \A j \in KeysOf(out[i].from) : j \in 0..Len(T)
        BY <1>17
      <4> QED  BY <2>2, <4>1, <4>2
    <3> QED  BY <1>2, <3>1 DEF Right
  <2> QED  BY <1>18, <2>1, <2>2
<1>23. 0 \in 0..Len(T) /\ NoKey = 0
  BY <1>3 DEF NoKey
<1>24. ASSUME Stuck PROVE Stuck'
  <2>1. /\ ui = "asking" /\ ~ask.sent /\ decoder = Start
        /\ First(T, NoKey) \in P
        /\ ~Held(B, NoKey)
        /\ ask.at = "loop" \/ ask.buf # <<>>
        /\ ask.buf = <<>> \/ Byte(T, NoKey, 4) \in P
        /\ \A b \in P \cup C \cup W :
             KeyOf(b) = NoKey /\ ~Ends(b) => After(T, b) \in P \cup C \cup W
    BY <1>24 DEF Stuck
  <2>2. First(U, NoKey) = First(T, NoKey) /\ Byte(U, NoKey, 4) = Byte(T, NoKey, 4)
    BY <1>5, <1>23
  <2>3. \A b \in P \cup C \cup (W \cup N) :
          KeyOf(b) = NoKey /\ ~Ends(b) => After(U, b) \in P \cup C \cup (W \cup N)
    <3>1. \A b \in P \cup C \cup W :
            KeyOf(b) = NoKey /\ ~Ends(b) => After(U, b) \in P \cup C \cup W
      BY <1>3, <1>5, <2>1
    <3>2. \A b \in N : KeyOf(b) # NoKey
      BY <1>3, <1>7, <1>23
    <3> QED  BY <3>1, <3>2
  <2> QED  BY <1>2, <1>11, <2>1, <2>2, <2>3 DEF Stuck
<1>25. ASSUME InSync PROVE InSync'
  <2>1. NoReport'
    <3>1. ~Held(P, NoKey)
            /\ (ui # "asking" \/ ask.sent => ~Held(B \cup C \cup W, NoKey))
      BY <1>25 DEF InSync, NoReport
    <3>2. Held(B \cup C \cup (W \cup N), NoKey) => Held(B \cup C \cup W, NoKey)
      BY <1>7 DEF Held
    <3> QED  BY <1>2, <1>11, <3>1, <3>2 DEF NoReport
  <2>2. PICK O \in SUBSET DOMAIN T : PairSets(T, O, R, P)
    BY <1>25 DEF InSync
  <2>3. O \in SUBSET DOMAIN U
    BY <1>3, <1>18
  <2>4. PairSets(U, O, R, P)
    <3>1. \A j \in 1..(Len(T) - 1) :
            /\ First(U, j) = First(T, j) /\ First(U, j + 1) = First(T, j + 1)
            /\ j \in 1..(Len(U) - 1)
      <4> SUFFICES ASSUME NEW j \in 1..(Len(T) - 1)
                   PROVE  /\ First(U, j) = First(T, j)
                          /\ First(U, j + 1) = First(T, j + 1)
                          /\ j \in 1..(Len(U) - 1)
        OBVIOUS
      <4>1. j \in 0..Len(T) /\ j + 1 \in 0..Len(T) /\ j \in 1..(Len(U) - 1)
        BY <1>3, <1>5
      <4> QED  BY <1>5, <4>1
    <3>2. \A j \in O : /\ j \in 1..(Len(T) - 1) /\ IsEscape(First(T, j))
                       /\ First(T, j) \in P /\ First(T, j + 1) \in P
                       /\ j + 1 \notin O
      BY <2>2 DEF PairSets
    <3>3. \A j \in O : /\ j \in 1..(Len(U) - 1) /\ IsEscape(First(U, j))
                       /\ First(U, j) \in P /\ First(U, j + 1) \in P
                       /\ j + 1 \notin O
      BY <3>1, <3>2
    <3> QED  BY <2>2, <3>3 DEF PairSets
  <2>5. \A k \in 0..Len(T), m, n \in Places : Run(U, k, m, n) = Run(T, k, m, n)
    BY <1>5 DEF Run
  <2>6. CASE ui = "asking"
    <3>1. decoder = Start /\ AskerOK /\ AskSets(T, cut, P, B, C, W)
      BY <1>25, <2>6 DEF InSync, Asking
    <3>2. AskSets(U, cut, P, B, C, W \cup N)
      BY <1>1, <1>3, <1>4, <1>6, <3>1, PressAsk
    <3>3. AskerOK'
      <4>1. CASE ask.at = "loop" /\ ask.buf = <<>>
        BY <1>2, <4>1 DEF AskerOK
      <4>2. ASSUME NEW k \in 0..Len(T), NEW m \in Places, NEW n \in Places,
                   <<Kind(T, k), m, n, ask.at>> \in AskTable, ask.buf = Run(T, k, m, n)
            PROVE  AskerOK'
        <5>1. k \in 0..Len(U) /\ Kind(U, k) = Kind(T, k)
          <6>1. k \in 0..Len(U) /\ (k # NoKey => k \in 1..Len(T))
            BY <1>3, <1>5 DEF NoKey
          <6> QED  BY <1>5, <6>1 DEF Kind
        <5> QED  BY <1>2, <2>5, <4>2, <5>1 DEF AskerOK
      <4> QED  BY <3>1, <4>1, <4>2 DEF AskerOK
    <3>4. Asking'
      BY <1>2, <1>11, <3>1, <3>2, <3>3 DEF Asking
    <3> QED  BY <1>2, <1>11, <2>1, <2>3, <2>4, <2>6, <3>4 DEF InSync
  <2>7. CASE ui # "asking"
    <3>1. Reading
      BY <1>25, <2>7 DEF InSync
    <3>2. ReadSets(U, cut, a, R, P, C, W \cup N)
      <4>1. ReadSets(T, cut, a, R, P, C, W)
        BY <3>1 DEF Reading
      <4> QED  BY <1>1, <1>3, <1>4, <1>6, <4>1, PressRead
    <3>3. DecoderOK'
      <4>0. DecoderOK
        BY <3>1 DEF Reading
      <4>1. CASE decoder = Start
        BY <1>2, <4>1 DEF DecoderOK
      <4>2. ASSUME NEW k \in DOMAIN T, NEW m \in Places, NEW n \in Places,
                   Decodes(T[k], m, n, decoder.at, decoder.text, decoder.acc),
                   decoder = Doing(decoder.at, Run(T, k, m, n), decoder.text,
                   decoder.acc),
                   m > 1 => Spoilt(T, cut, k)
            PROVE  DecoderOK'
        <5>1. k \in 0..Len(T) /\ k \in DOMAIN U /\ U[k] = T[k]
          BY <1>3, <1>5, <1>18
        <5>2. Spoilt(U, cut, k) <=> Spoilt(T, cut, k)
          BY <1>1, <1>3, <1>4, <5>1, PressSpoilt
        <5>3. decoder' = decoder /\ cut' = cut /\ Run(U, k, m, n) = Run(T, k, m, n)
          BY <1>2, <2>5, <5>1
        <5>4. /\ Decodes(U[k], m, n, decoder'.at, decoder'.text, decoder'.acc)
              /\ decoder' = Doing(decoder'.at, Run(U, k, m, n), decoder'.text,
                   decoder'.acc)
              /\ m > 1 => Spoilt(U, cut', k)
          BY <4>2, <5>1, <5>2, <5>3, Zenon
        <5> QED  BY <5>1, <5>4 DEF DecoderOK
      <4> QED  BY <4>0, <4>1, <4>2 DEF DecoderOK
    <3>4. Reading'
      BY <1>2, <1>11, <3>1, <3>2, <3>3 DEF Reading
    <3> QED  BY <1>2, <1>11, <2>1, <2>3, <2>4, <2>7, <3>4 DEF InSync
  <2> QED  BY <2>6, <2>7
<1> QED  BY <1>0, <1>12, <1>13, <1>20, <1>21, <1>22, <1>24, <1>25 DEF Core

-----------------------------------------------------------------------------
(* The terminal answers *)

(* The place of the report does not matter to the keys. *)
LEMMA SameRanks ==
  ASSUME NEW a, NEW d, NEW S, \A b \in S : KeyOf(b) # NoKey
  PROVE  \A b \in S : Rank(a, b) = Rank(d, b)
BY DEF Rank

(* Answer keeps the invariant: the report comes behind what was typed. *)
LEMMA AnswerStep ==
  ASSUME Core, Answer, ~torn'
  PROVE  Core'
<1>0. ~torn /\ Typing /\ Ordered /\ Kept /\ Gone /\ Decoded /\ (Stuck \/ InSync)
  BY DEF Answer, channel_left, Core
<1>1. ask.sent /\ wire' = wire \o BytesOf(Report, NoKey)
      /\ ask' = [ask EXCEPT !.sent = FALSE, !.answered = Len(typed)]
  BY DEF Answer
<1>2. /\ tty' = tty /\ channel' = channel /\ pending_input' = pending_input /\ ui' = ui
      /\ typed' = typed /\ decoder' = decoder /\ out' = out /\ cut' = cut
      /\ held' = held
  BY DEF Answer, channel_left
<1>3. /\ typed \in Seq(PlainKeys) /\ Len(typed) \in Nat
      /\ DOMAIN typed = 1..Len(typed)
      /\ P \in SUBSET Bytes(typed) /\ B \in SUBSET Bytes(typed)
      /\ C \in SUBSET Bytes(typed) /\ W \in SUBSET Bytes(typed)
      /\ ToSet(tty) \in SUBSET Bytes(typed) /\ ToSet(wire) \in SUBSET Bytes(typed)
      /\ R \in SUBSET Bytes(typed)
      /\ ask.answered \in Nat /\ ask.answered \in 0..Len(typed)
      /\ ask.buf \in Seq(Bytes(typed))
  BY <1>0, SetsAre
<1>4. InSync /\ ui = "asking"
  <2>1. InSync
    BY <1>0, <1>1 DEF Stuck
  <2> QED  BY <1>1, <2>1 DEF InSync, Reading
<1>5. /\ decoder = Start /\ AskerOK /\ AskSets(typed, cut, P, B, C, W)
      /\ ~Held(P, NoKey) /\ ~Held(B \cup C \cup W, NoKey)
  BY <1>1, <1>4 DEF InSync, Asking, NoReport
<1> DEFINE T == typed
           a == ask.answered
           d == Len(typed)
           s == BytesOf(Report, NoKey)
           N == ToSet(s)
<1>6. ask'.sent = FALSE /\ ask'.answered = d /\ ask'.at = ask.at /\ ask'.buf = ask.buf
      /\ ask' \in [at : {"loop", "esc", "csi"}, buf : Seq(Bytes(typed)), times : Nat,
                   sent : BOOLEAN, answered : 0..Len(typed)]
  <2>1. ask \in [at : {"loop", "esc", "csi"}, buf : Seq(Bytes(typed)), times : Nat,
                 sent : BOOLEAN, answered : 0..Len(typed)]
    BY <1>0 DEF Typing
  <2>2. Len(typed) \in 0..Len(typed)
    BY <1>3
  <2> QED  BY <1>1, <2>1, <2>2
<1>7. /\ s \in Seq(Bytes(T)) /\ Sorted(d, s)
      /\ \A b \in N : /\ b \in Bytes(T) /\ KeyOf(b) = NoKey
                      /\ ~Ends(b) => After(T, b) \in N
                      /\ Nth(b) > 1 => Prior(T, b) \in N
  <2>1. NoKey \in 0..Len(T) /\ CharsOf(T, NoKey) = Report /\ d \in Nat
    BY <1>3 DEF NoKey, CharsOf
  <2> QED  BY <1>3, <2>1, WholeKey
<1>8. \A b \in P \cup B \cup C \cup W : b \in Bytes(T) /\ KeyOf(b) # NoKey
  BY <1>3, <1>5 DEF Held
<1> HIDE DEF s, N
<1>9. \A b \in P \cup B \cup C \cup W : Rank(a, b) = Rank(d, b)
  BY <1>8, SameRanks
<1>10. Before(d, P \cup B \cup C \cup W, N)
  <2> SUFFICES ASSUME NEW b \in P \cup B \cup C \cup W, NEW c \in N
               PROVE  Rank(d, b) < Rank(d, c)
    BY DEF Before
  <2>1. /\ KeyOf(b) \in Nat /\ KeyOf(b) <= Len(T) /\ Nth(b) \in Nat /\ Nth(b) <= 10
        /\ Rank(d, b) = 32 * KeyOf(b) + Nth(b)
    BY <1>3, <1>8, Ranks
  <2>2. Nth(c) \in Nat /\ 1 <= Nth(c) /\ Rank(d, c) = (32 * d + 16) + Nth(c)
    BY <1>3, <1>7, Ranks
  <2> QED  BY <1>3, <2>1, <2>2
<1>11. wire' \in Seq(Bytes(T)) /\ ToSet(wire') = ToSet(wire) \cup N
  <2>1. wire \in Seq(Bytes(T))
    BY <1>0 DEF Typing
  <2> QED  BY <1>1, <1>7, <2>1, ConcatSet DEF s, N
<1>12. P' = P /\ B' = B /\ C' = C /\ R' = R /\ W' = W \cup N
  BY <1>2, <1>6, <1>11 DEF P, B, C, R, W
<1>13. Typing'
  BY <1>0, <1>2, <1>6, <1>11 DEF Typing
<1>14. Ordered'
  <2>1. \A S, Q : Before(a, S, Q) /\ S \subseteq P \cup B \cup C \cup W
          /\ Q \subseteq P \cup B \cup C \cup W
           => Before(d, S, Q) /\ Before(d, S, Q \cup N)
    BY <1>9, <1>10 DEF Before
  <2>2. \A q \in Seq(Bytes(T)) : Sorted(a, q)
          /\ ToSet(q) \subseteq P \cup B \cup C \cup W => Sorted(d, q)
    <3> SUFFICES ASSUME NEW q \in Seq(Bytes(T)), Sorted(a, q),
                        ToSet(q) \subseteq P \cup B \cup C \cup W
                 PROVE  Sorted(d, q)
      OBVIOUS
    <3>1. \A i \in DOMAIN q : q[i] \in ToSet(q)
      BY DEF ToSet
    <3> QED  BY <1>9, <3>1 DEF Sorted
  <2>3. /\ ToSet(tty) \subseteq P \cup B \cup C \cup W
        /\ ToSet(wire) \subseteq P \cup B \cup C \cup W
        /\ ToSet(pending_input) \subseteq P \cup B \cup C \cup W
        /\ ToSet(channel) \subseteq P \cup B \cup C \cup W
        /\ ToSet(ask.buf) \subseteq P \cup B \cup C \cup W
    BY DEF W, P, C, B
  <2>4. /\ Sorted(d, pending_input) /\ Sorted(d, ask.buf)
        /\ Sorted(d, channel) /\ Sorted(d, tty) /\ Sorted(d, wire)
    BY <1>0, <2>2, <2>3 DEF Ordered, Typing
  <2>5. /\ Before(d, P, B) /\ Before(d, P, C) /\ Before(d, P, W \cup N)
        /\ Before(d, B, C) /\ Before(d, B, W \cup N) /\ Before(d, C, W \cup N)
        /\ Before(d, ToSet(tty), ToSet(wire) \cup N)
    BY <1>0, <2>1, <2>3 DEF Ordered
  <2>6. Sorted(d, wire')
    <3>1. Before(d, ToSet(wire), ToSet(s))
      BY <1>10, <2>3 DEF Before, N
    <3>2. wire' = wire \o s /\ wire \in Seq(Bytes(T))
      BY <1>0, <1>1 DEF s, Typing
    <3> QED  BY <1>7, <2>4, <3>1, <3>2, SortedConcat
  <2> QED  BY <1>2, <1>6, <1>11, <1>12, <2>4, <2>5, <2>6 DEF Ordered
<1>15. Kept' /\ Gone' /\ Decoded'
  <2>1. Left' = Left \cup N
    BY <1>12 DEF Left
  <2>2. \A k \in DOMAIN typed : Held(Left', k) <=> Held(Left, k)
    <3>1. \A k \in DOMAIN typed : k # NoKey
      BY <1>3 DEF NoKey
    <3> QED  BY <1>7, <2>1, <3>1 DEF Held
  <2> QED  BY <1>0, <1>2, <2>2, NothingOut
<1>16. AskSets(T, cut, P, B, C, W \cup N)
  <2>1. \A b \in N : ~IsEscape(b)
    <3>1. NoKey \notin 1..Len(T)
      BY <1>3 DEF NoKey
    <3> QED  BY <1>3, <1>7, <3>1, EscapeIs
  <2>2. /\ Up(T, P \cup B \cup C \cup W, P \cup B \cup C \cup W)
        /\ Down(T, cut, P \cup B \cup C \cup W, P \cup B \cup C \cup W)
        /\ Link(T, B \cup C \cup W, B \cup C \cup W)
    BY <1>5 DEF AskSets
  <2>3. Up(T, P \cup B \cup C \cup (W \cup N), P \cup B \cup C \cup (W \cup N))
    BY <1>7, <2>2 DEF Up
  <2>4. Down(T, cut, P \cup B \cup C \cup (W \cup N), P \cup B \cup C \cup (W \cup N))
    BY <1>7, <2>2 DEF Down
  <2>5. Link(T, B \cup C \cup (W \cup N), B \cup C \cup (W \cup N))
    BY <2>1, <2>2 DEF Link
  <2> QED  BY <2>3, <2>4, <2>5 DEF AskSets
<1>17. AskerOK'
  BY <1>2, <1>5, <1>6, ZenonT(40) DEF AskerOK
<1>18. InSync'
  <2>1. \E O \in SUBSET DOMAIN typed : PairSets(typed, O, R, P)
    BY <1>4 DEF InSync
  <2>2. NoReport'
    BY <1>2, <1>4, <1>5, <1>6, <1>12 DEF NoReport
  <2>3. Asking'
    BY <1>2, <1>5, <1>12, <1>16, <1>17 DEF Asking
  <2> QED  BY <1>2, <1>4, <1>12, <2>1, <2>2, <2>3 DEF InSync
<1> QED  BY <1>13, <1>14, <1>15, <1>18 DEF Core

-----------------------------------------------------------------------------
(* Bytes arrive, and are read ahead *)

(* The bytes that are asked about only change places. *)
LEMMA SameBytes ==
  ASSUME Stuck \/ InSync, typed' = typed, pending_input' = pending_input, ui' = ui,
         ask' = ask, decoder' = decoder, cut' = cut, held' = held,
         C' \cup W' = C \cup W,
         ui # "asking" => C' = C /\ W' = W
  PROVE  Stuck' \/ InSync'
<1>1. P' = P /\ B' = B /\ R' = R
  BY DEF P, B, R
<1>2. P \cup C \cup W = P \cup C' \cup W' /\ B \cup C \cup W = B \cup C' \cup W'
      /\ P \cup B \cup C \cup W = P \cup B \cup C' \cup W'
  OBVIOUS
<1>3. ASSUME Stuck PROVE Stuck'
  BY <1>1, <1>2, <1>3 DEF Stuck
<1>4. ASSUME InSync PROVE InSync'
  <2>1. \E O \in SUBSET DOMAIN typed : PairSets(typed, O, R, P)
    BY <1>4 DEF InSync
  <2>2. NoReport'
    <3>1. NoReport
      BY <1>4 DEF InSync
    <3> QED  BY <1>1, <1>2, <3>1 DEF NoReport
  <2>3. CASE ui = "asking"
    <3>1. decoder = Start /\ AskerOK /\ AskSets(typed, cut, P, B, C, W)
      BY <1>4, <2>3 DEF InSync, Asking
    <3>2. AskerOK'
      BY <3>1 DEF AskerOK
    <3>3. AskSets(typed, cut, P, B, C', W')
      BY <1>2, <3>1 DEF AskSets
    <3>4. Asking'
      BY <1>1, <3>1, <3>2, <3>3 DEF Asking
    <3> QED  BY <1>1, <2>1, <2>2, <2>3, <3>4 DEF InSync
  <2>4. CASE ui # "asking"
    <3>1. Reading
      BY <1>4, <2>4 DEF InSync
    <3>2. DecoderOK'
      BY <3>1 DEF Reading, DecoderOK
    <3>3. Reading'
      BY <1>1, <2>4, <3>1, <3>2 DEF Reading
    <3> QED  BY <1>1, <2>1, <2>2, <2>4, <3>3 DEF InSync
  <2> QED  BY <2>3, <2>4
<1> QED  BY <1>3, <1>4

(* Arrive keeps the invariant. *)
LEMMA ArriveStep ==
  ASSUME Core, Arrive, ~torn'
  PROVE  Core'
<1>0. ~torn /\ Typing /\ Ordered /\ Kept /\ Gone /\ Decoded /\ (Stuck \/ InSync)
  BY DEF Arrive, channel_left, Core
<1>1. wire # <<>> /\ tty' = Append(tty, Head(wire)) /\ wire' = Tail(wire)
  BY DEF Arrive
<1>2. /\ channel' = channel /\ pending_input' = pending_input /\ ui' = ui /\ ask' = ask
      /\ typed' = typed /\ decoder' = decoder /\ out' = out /\ cut' = cut
      /\ held' = held
  BY DEF Arrive, channel_left
<1> DEFINE T == typed
           a == ask.answered
           x == Head(wire)
<1>3. wire \in Seq(Bytes(T)) /\ tty \in Seq(Bytes(T))
  BY <1>0 DEF Typing
<1>4. /\ wire' \in Seq(Bytes(T)) /\ x \in Bytes(T) /\ x \in ToSet(wire)
      /\ ToSet(wire) = {x} \cup ToSet(wire')
  BY <1>1, <1>3, TailSet
<1>5. tty' \in Seq(Bytes(T)) /\ ToSet(tty') = ToSet(tty) \cup {x}
  BY <1>1, <1>3, <1>4, AppendSet
<1>6. P' = P /\ B' = B /\ C' = C /\ R' = R /\ W' = W
  BY <1>2, <1>4, <1>5 DEF P, B, C, R, W
<1>7. Typing'
  BY <1>0, <1>2, <1>4, <1>5 DEF Typing
<1>8. Ordered'
  <2>1. Sorted(a, wire) /\ Sorted(a, tty) /\ Before(a, ToSet(tty), ToSet(wire))
    BY <1>0 DEF Ordered
  <2>2. Sorted(a, wire') /\ Before(a, {x}, ToSet(wire'))
    BY <1>1, <1>3, <2>1, SortedTail
  <2>3. Before(a, ToSet(tty), {x}) /\ Before(a, ToSet(tty'), ToSet(wire'))
    BY <1>4, <1>5, <2>1, <2>2 DEF Before
  <2>4. Sorted(a, tty')
    BY <1>1, <1>3, <1>4, <2>1, <2>3, SortedAppend
  <2> QED  BY <1>0, <1>2, <1>6, <2>2, <2>3, <2>4 DEF Ordered
<1>9. Kept' /\ Gone' /\ Decoded'
  <2>1. Left' = Left
    BY <1>6 DEF Left
  <2> QED  BY <1>0, <1>2, <2>1, NothingOut
<1>10. Stuck' \/ InSync'
  BY <1>0, <1>2, <1>6, SameBytes
<1> QED  BY <1>7, <1>8, <1>9, <1>10 DEF Core

(* Refill keeps the invariant: all that has arrived is read ahead. *)
LEMMA RefillStep ==
  ASSUME Core, Refill, ~torn'
  PROVE  Core'
<1>0. ~torn /\ Typing /\ Ordered /\ Kept /\ Gone /\ Decoded /\ (Stuck \/ InSync)
  BY DEF Refill, channel_left, Core
<1>1. ui = "asking" /\ channel = <<>> /\ channel' = tty /\ tty' = <<>>
  BY DEF Refill
<1>2. /\ wire' = wire /\ pending_input' = pending_input /\ ui' = ui /\ ask' = ask
      /\ typed' = typed /\ decoder' = decoder /\ out' = out /\ cut' = cut
      /\ held' = held
  BY DEF Refill, channel_left
<1> DEFINE T == typed
           a == ask.answered
<1>3. tty' \in Seq(Bytes(T))
  BY <1>1
<1>4. P' = P /\ B' = B /\ R' = R /\ C = {} /\ C' = ToSet(tty) /\ W' = ToSet(wire)
  BY <1>1, <1>2, EmptySet DEF P, B, C, R, W
<1>5. C' \cup W' = C \cup W
  BY <1>4 DEF W
<1>6. Typing'
  BY <1>0, <1>1, <1>2, <1>3 DEF Typing
<1>7. Ordered'
  <2>1. /\ Before(a, P, W) /\ Before(a, B, W) /\ Before(a, ToSet(tty), ToSet(wire))
        /\ Sorted(a, tty)
    BY <1>0 DEF Ordered
  <2>2. /\ Before(a, P, C') /\ Before(a, P, W') /\ Before(a, B, C') /\ Before(a, B, W')
        /\ Before(a, C', W') /\ Before(a, {}, ToSet(wire))
    BY <1>4, <2>1 DEF Before, W
  <2>3. ToSet(tty') = {} /\ Sorted(a, tty') /\ Sorted(a, channel')
    BY <1>1, <2>1, EmptySet, SortedEmpty
  <2> QED  BY <1>0, <1>2, <1>4, <2>2, <2>3 DEF Ordered
<1>8. Kept' /\ Gone' /\ Decoded'
  <2>1. Left' = Left
    BY <1>4, <1>5 DEF Left
  <2> QED  BY <1>0, <1>2, <2>1, NothingOut
<1>9. Stuck' \/ InSync'
  BY <1>0, <1>1, <1>2, <1>5, SameBytes
<1> QED  BY <1>6, <1>7, <1>8, <1>9 DEF Core

-----------------------------------------------------------------------------
(* A key is made of bytes *)

(* The flag of the last byte. *)
LEMMA EndsIs ==
  ASSUME NEW T, NEW b \in Bytes(T)
  PROVE  b.last <=> Ends(b)
<1>1. \E k \in 0..Len(T) : \E n \in 1..Size(T, k) : b = Byte(T, k, n)
  BY DEF Bytes
<1>2. PICK k, n : b = Byte(T, k, n)
  BY <1>1
<1>3. b.last = (n = Size(T, k))
  BY <1>2 DEF Byte
<1> QED  BY <1>3 DEF Ends

(* Bytes come in the order of their keys. *)
LEMMA RankKey ==
  ASSUME NEW T \in Seq(PlainKeys), NEW a \in Nat, NEW b \in Bytes(T),
         NEW c \in Bytes(T),
         KeyOf(b) # NoKey, KeyOf(c) # NoKey, Rank(a, b) < Rank(a, c)
  PROVE  KeyOf(b) <= KeyOf(c)
<1>1. /\ KeyOf(b) \in Nat /\ Nth(b) \in Nat /\ 1 <= Nth(b) /\ Nth(b) <= 10
      /\ Rank(a, b) = 32 * KeyOf(b) + Nth(b)
  BY Ranks
<1>2. /\ KeyOf(c) \in Nat /\ Nth(c) \in Nat /\ 1 <= Nth(c) /\ Nth(c) <= 10
      /\ Rank(a, c) = 32 * KeyOf(c) + Nth(c)
  BY Ranks
<1> QED  BY <1>1, <1>2

(* Behind all the bytes of a key there is none of them. *)
LEMMA NoneBehind ==
  ASSUME NEW T \in Seq(PlainKeys), NEW a \in Nat, NEW k \in 1..Len(T),
         NEW s, s = BytesOf(Sent[T[k]], k), NEW Q \in SUBSET Bytes(T),
         Before(a, ToSet(s), Q)
  PROVE  ~Held(Q, k)
<1> SUFFICES ASSUME NEW b \in Q, KeyOf(b) = k PROVE FALSE
  BY DEF Held
<1>1. k \in 0..Len(T) /\ CharsOf(T, k) = Sent[T[k]]
  BY DEF CharsOf, NoKey
<1>2. Nth(b) \in 1..Size(T, k) /\ Size(T, k) \in Nat /\ b = Byte(T, k, Nth(b))
  BY ByteIs
<1>3. s = Run(T, k, 1, Size(T, k))
  BY <1>1, RunOfAll
<1>4. b \in ToSet(s)
  <2> DEFINE m == 1
             z == Size(T, k)
  <2>1. m \in Nat /\ z \in Nat /\ 1 <= m /\ m <= z /\ z <= Size(T, k)
          /\ s = Run(T, k, m, z)
        /\ Nth(b) \in Nat /\ m <= Nth(b) /\ Nth(b) <= z
    BY <1>2, <1>3
  <2> HIDE DEF m, z
  <2>2. \A i \in Nat : m <= i /\ i <= z => Byte(T, k, i) \in ToSet(Run(T, k, m, z))
    BY <1>1, <2>1, RunIs
  <2>3. Byte(T, k, Nth(b)) \in ToSet(s)
    BY <2>1, <2>2
  <2> QED  BY <1>2, <2>3
<1>5. Rank(a, b) < Rank(a, b)
  BY <1>4 DEF Before
<1>6. Rank(a, b) \in Nat
  BY Ranks
<1> QED  BY <1>5, <1>6

(* The decoder has done with the bytes of s: it has made a key of them, or *)
(* they are cut.  Q is still to be read.                                   *)
Outcome(key, s, Q) ==
  /\ Deliver(key, s) \/ (out' = out /\ KeysOf(s) \subseteq cut')
  /\ Left = ToSet(s) \cup C \cup Q /\ Left' = C \cup Q
  /\ \A b \in ToSet(s) : KeyOf(b) # NoKey
  /\ \A b \in Q : KeyOf(b) # NoKey
  /\ \A d \in C : KeyOf(d) \in held
  /\ \A d \in C, b \in ToSet(s) : KeyOf(d) # KeyOf(b)
  /\ Before(ask.answered, ToSet(s), Q)
  /\ \A k \in DOMAIN typed : k \in KeysOf(s) /\ Untouched(k)' =>
       key = Meaning(typed[k]) /\ s = BytesOf(Sent[typed[k]], k)

(* Either way what has come out is right. *)
LEMMA Done ==
  ASSUME Kept, Gone, Decoded, ~torn, Typing,
         typed' = typed, cut \subseteq cut', held' = held,
         NEW key, NEW s \in Seq(Bytes(typed)), NEW Q \in SUBSET Bytes(typed),
         Outcome(key, s, Q)
  PROVE  /\ Kept' /\ Gone' /\ Decoded'
         /\ (out \in Seq(ToSet(out)))'
         /\ (\A i \in DOMAIN out : out[i].from \in Seq(Bytes(typed)))'
<1> SUFFICES ASSUME
         Deliver(key, s) \/ (out' = out /\ KeysOf(s) \subseteq cut'),
         Left = ToSet(s) \cup C \cup Q, Left' = C \cup Q,
         \A b \in ToSet(s) : KeyOf(b) # NoKey,
         \A b \in Q : KeyOf(b) # NoKey,
         \A d \in C : KeyOf(d) \in held,
         \A d \in C, b \in ToSet(s) : KeyOf(d) # KeyOf(b),
         Before(ask.answered, ToSet(s), Q),
         \A k \in DOMAIN typed : k \in KeysOf(s) /\ Untouched(k)' =>
           key = Meaning(typed[k]) /\ s = BytesOf(Sent[typed[k]], k)
      PROVE  /\ Kept' /\ Gone' /\ Decoded'
             /\ (out \in Seq(ToSet(out)))'
             /\ (\A i \in DOMAIN out : out[i].from \in Seq(Bytes(typed)))'
  BY DEF Outcome
<1>1. /\ typed \in Seq(PlainKeys) /\ DOMAIN typed = 1..Len(typed)
      /\ ask.answered \in Nat
      /\ out \in Seq(ToSet(out))
           /\ \A i \in DOMAIN out : out[i].from \in Seq(Bytes(typed))
  BY SetsAre DEF Typing
<1>2. ToSet(s) \in SUBSET Bytes(typed)
  BY SetOf
<1>3. \A k \in DOMAIN typed : Held(Left', k) => Held(Left, k)
  BY DEF Held
<1>4. \A k \in DOMAIN typed : Held(Left, k) => Held(Left', k) \/ k \in KeysOf(s)
  BY KeysAre DEF Held
<1>5. CASE out' = out /\ KeysOf(s) \subseteq cut'
  <2>1. \A k \in DOMAIN typed : Held(Left, k) => Held(Left', k) \/ k \in cut'
    BY <1>4, <1>5
  <2>2. Kept' /\ Gone' /\ Decoded'
    BY <1>3, <1>5, <2>1, NothingOut
  <2> QED  BY <1>1, <1>5, <2>2
<1>6. CASE out' = Append(out, [key |-> key, from |-> s])
  <2>1. \A k \in DOMAIN typed : k \in KeysOf(s) => Held(Left, k)
    BY KeysAre DEF Held
  <2>2. ASSUME NEW k \in DOMAIN typed, k \in KeysOf(s), Untouched(k)'
        PROVE  /\ key = Meaning(typed[k]) /\ s = BytesOf(Sent[typed[k]], k)
               /\ ~Held(Left', k) /\ \A j \in KeysOf(s) : j = k
    <3>1. key = Meaning(typed[k]) /\ s = BytesOf(Sent[typed[k]], k)
      BY <2>2
    <3>2. ~Held(Q, k)
      BY <1>1, <3>1, NoneBehind
    <3>3. ~Held(C, k)
      BY <2>2, KeysAre DEF Held
    <3>4. \A j \in KeysOf(s) : j = k
      <4>1. k \in 0..Len(typed) /\ s = BytesOf(CharsOf(typed, k), k)
        BY <1>1, <3>1 DEF CharsOf, NoKey
      <4>2. \A b \in ToSet(s) : KeyOf(b) = k
        BY <1>1, <4>1, WholeKey
      <4> QED  BY <4>2, KeysAre DEF Held
    <3> QED  BY <3>1, <3>2, <3>3, <3>4 DEF Held
  <2>3. ASSUME NEW k \in DOMAIN typed, Held(Left, k)
        PROVE  k \in held \/ k \in KeysOf(s) \/ \A j \in KeysOf(s) : j <= k
    <3>1. PICK b \in ToSet(s) \cup C \cup Q : KeyOf(b) = k
      BY <2>3 DEF Held
    <3>2. CASE b \in ToSet(s)
      BY <3>1, <3>2, KeysAre
    <3>3. CASE b \in C
      BY <3>1, <3>3
    <3>4. CASE b \in Q
      <4> SUFFICES ASSUME NEW j \in KeysOf(s) PROVE j <= k
        OBVIOUS
      <4>1. PICK c \in ToSet(s) : KeyOf(c) = j
        BY KeysAre DEF Held
      <4>2. Rank(ask.answered, c) < Rank(ask.answered, b)
        BY <3>4, <4>1 DEF Before
      <4>3. b \in Bytes(typed) /\ c \in Bytes(typed) /\ KeyOf(b) # NoKey
              /\ KeyOf(c) # NoKey
        BY <1>2, <3>4, <4>1
      <4> QED  BY <1>1, <3>1, <4>1, <4>2, <4>3, RankKey
    <3> QED  BY <3>1, <3>2, <3>3, <3>4
  <2> QED  BY <1>1, <1>3, <1>4, <1>6, <2>1, <2>2, <2>3, OneOut
<1>7. CASE Deliver(key, s)
  <2>1. \/ out' = out /\ KeysOf(s) \subseteq cut
        \/ out' = Append(out, [key |-> key, from |-> s])
    BY <1>7 DEF Deliver
  <2> QED  BY <1>5, <1>6, <2>1
<1> QED  BY <1>5, <1>7

-----------------------------------------------------------------------------
(* The event loop *)

(* Outside of a question. *)
LEMMA NotAsked ==
  ASSUME Typing, Stuck \/ InSync, ui # "asking"
  PROVE  /\ InSync /\ Reading /\ ~Held(P \cup B \cup C \cup W, NoKey)
         /\ B = {} /\ ask.buf = <<>> /\ ask.at = "loop"
         /\ ReadSets(typed, cut, ask.answered, R, P, C, W)
         /\ decoder = Start => R = {}
<1>1. InSync
  BY DEF Stuck
<1>2. Reading /\ NoReport
  BY <1>1 DEF InSync
<1>3. ~Held(P \cup B \cup C \cup W, NoKey)
  BY <1>2 DEF NoReport, Held
<1>4. B = {} /\ ask.buf = <<>> /\ ask.at = "loop"
  BY <1>2, EmptySet DEF Reading, B
<1>5. decoder = Start => R = {}
  BY EmptySet DEF R, Start
<1> QED  BY <1>1, <1>2, <1>3, <1>4, <1>5 DEF Reading

(* drain_to_keys keeps the invariant. *)
LEMMA DrainStep ==
  ASSUME Core, drain_to_keys, ~torn'
  PROVE  Core'
<1>0. ~torn /\ Typing /\ Ordered /\ Kept /\ Gone /\ Decoded /\ (Stuck \/ InSync)
  BY DEF drain_to_keys, channel_left, Core
<1>1. ui = "draining" /\ ui' = "loop" /\ decoder = Start
  BY DEF drain_to_keys
<1>2. /\ wire' = wire /\ tty' = tty /\ channel' = channel
      /\ pending_input' = pending_input
      /\ ask' = ask /\ typed' = typed /\ decoder' = decoder /\ out' = out
      /\ cut' = cut /\ held' = held
  BY DEF drain_to_keys, channel_left
<1>3. InSync /\ Reading
  BY <1>0, <1>1, NotAsked
<1>4. P' = P /\ B' = B /\ C' = C /\ R' = R /\ W' = W
  BY <1>2 DEF P, B, C, R, W
<1>5. Typing' /\ Ordered'
  BY <1>0, <1>1, <1>2, <1>4 DEF Typing, Ordered
<1>6. Kept' /\ Gone' /\ Decoded'
  <2>1. Left' = Left
    BY <1>4 DEF Left
  <2> QED  BY <1>0, <1>2, <2>1, NothingOut
<1>7. NoReport'
  <2>1. NoReport
    BY <1>3 DEF InSync
  <2> QED  BY <1>1, <1>2, <1>4, <2>1 DEF NoReport
<1>8. DecoderOK'
  BY <1>1, <1>2 DEF DecoderOK
<1>9. Reading'
  BY <1>1, <1>2, <1>3, <1>4, <1>8 DEF Reading
<1>10. InSync'
  BY <1>1, <1>2, <1>3, <1>4, <1>7, <1>9 DEF InSync
<1> QED  BY <1>5, <1>6, <1>10 DEF Core

(* A question begins with the sets of a decoder that is at the start. *)
LEMMA AskAgain ==
  ASSUME typed \in Seq(PlainKeys), AskPosition, typed' = typed, ui # "asking",
         ask \in [at : {"loop", "esc", "csi"}, buf : Seq(Bytes(typed)), times : Nat,
                  sent : BOOLEAN, answered : 0..Len(typed)],
         P' = P, C' = C, R' = R, R = {}, decoder' = Start,
         P \in SUBSET Bytes(typed), C \in SUBSET Bytes(typed),
         W' \in SUBSET Bytes(typed),
         ask.at = "loop", ask.buf = <<>>,
         ~Held(P \cup C \cup W', NoKey),
         ReadSets(typed, cut', ask.answered, {}, P, C, W'), Before(ask.answered, P, W'),
         \E O \in SUBSET DOMAIN typed : PairSets(typed, O, R, P)
  PROVE  /\ InSync' /\ ui' = "asking" /\ B' = {}
         /\ ask'.answered = ask.answered /\ ask'.buf = ask.buf
         /\ ask' \in [at : {"loop", "esc", "csi"}, buf : Seq(Bytes(typed)), times : Nat,
                      sent : BOOLEAN, answered : 0..Len(typed)]
<1>1. ui' = "asking" /\ ask' = [ask EXCEPT !.times = @ + 1, !.sent = TRUE]
  BY DEF AskPosition
<1>2. ask.times \in Nat /\ ask.answered \in 0..Len(typed)
  OBVIOUS
<1>3. ask.times + 1 \in Nat
  BY <1>2
<1>4. /\ ask'.answered = ask.answered /\ ask'.buf = <<>> /\ ask'.at = "loop"
      /\ ask'.sent = TRUE
      /\ ask' \in [at : {"loop", "esc", "csi"}, buf : Seq(Bytes(typed)), times : Nat,
                   sent : BOOLEAN, answered : 0..Len(typed)]
  BY <1>1, <1>3
<1>5. B' = {}
  BY <1>4, EmptySet DEF B
<1>6. NoReport'
  <2>1. ~Held(P', NoKey) /\ ~Held(B' \cup C' \cup W', NoKey)
    BY <1>5 DEF Held
  <2> QED  BY <2>1 DEF NoReport
<1>7. AskSets(typed, cut', P, {}, C, W')
  <2>1. ask.answered \in Nat
    BY <1>2
  <2> QED  BY <2>1, AskFromRead
<1>8. AskerOK'
  BY <1>4 DEF AskerOK
<1>9. Asking'
  BY <1>5, <1>7, <1>8 DEF Asking
<1>10. InSync'
  BY <1>1, <1>6, <1>9 DEF InSync
<1> QED  BY <1>1, <1>4, <1>5, <1>10

(* print_repl_output keeps the invariant: a question begins. *)
LEMMA OutputStep ==
  ASSUME Core, print_repl_output, ~torn'
  PROVE  Core'
<1>0. ~torn /\ Typing /\ Ordered /\ Kept /\ Gone /\ Decoded /\ (Stuck \/ InSync)
  BY DEF print_repl_output, channel_left, Core
<1>1. ui = "loop" /\ AskPosition /\ decoder = Start
  BY DEF print_repl_output
<1>2. /\ wire' = wire /\ tty' = tty /\ channel' = channel
      /\ pending_input' = pending_input
      /\ typed' = typed /\ decoder' = decoder /\ out' = out /\ cut' = cut
      /\ held' = held
  BY DEF print_repl_output, channel_left
<1>3. /\ InSync /\ Reading /\ ~Held(P \cup B \cup C \cup W, NoKey)
      /\ B = {} /\ ask.buf = <<>> /\ ask.at = "loop" /\ R = {}
      /\ ReadSets(typed, cut, ask.answered, R, P, C, W)
  BY <1>0, <1>1, NotAsked
<1>4. P' = P /\ C' = C /\ R' = R /\ W' = W
  BY <1>2 DEF P, C, R, W
<1>5. /\ typed \in Seq(PlainKeys) /\ P \in SUBSET Bytes(typed)
      /\ C \in SUBSET Bytes(typed) /\ W \in SUBSET Bytes(typed)
  BY <1>0, SetsAre
<1>6. ~Held(P \cup C \cup W, NoKey)
  BY <1>3 DEF Held
<1>7. Before(ask.answered, P, W)
  BY <1>0 DEF Ordered
<1>8. \E O \in SUBSET DOMAIN typed : PairSets(typed, O, R, P)
  BY <1>3 DEF InSync
<1>9. ask \in [at : {"loop", "esc", "csi"}, buf : Seq(Bytes(typed)), times : Nat,
               sent : BOOLEAN, answered : 0..Len(typed)]
  BY <1>0 DEF Typing
<1>10. /\ InSync' /\ ui' = "asking" /\ B' = {}
       /\ ask'.answered = ask.answered /\ ask'.buf = ask.buf
       /\ ask' \in [at : {"loop", "esc", "csi"}, buf : Seq(Bytes(typed)), times : Nat,
                    sent : BOOLEAN, answered : 0..Len(typed)]
  <2>1. ui # "asking" /\ decoder' = Start
          /\ ReadSets(typed, cut', ask.answered, {}, P, C, W')
    BY <1>1, <1>2, <1>3, <1>4
  <2> QED  BY <1>1, <1>2, <1>3, <1>4, <1>5, <1>6, <1>7, <1>8, <1>9, <2>1, AskAgain
<1>11. Typing'
  BY <1>0, <1>2, <1>10 DEF Typing
<1>12. Ordered'
  BY <1>0, <1>2, <1>3, <1>4, <1>10 DEF Ordered
<1>13. Kept' /\ Gone' /\ Decoded'
  <2>1. Left' = Left
    BY <1>3, <1>4, <1>10 DEF Left
  <2> QED  BY <1>0, <1>2, <2>1, NothingOut
<1> QED  BY <1>10, <1>11, <1>12, <1>13 DEF Core

(* What is at the file descriptor is thrown away. *)
LEMMA Flushed ==
  ASSUME ~torn, Typing, Ordered, Kept, Gone, Decoded, Stuck \/ InSync,
         Flush, ui # "asking", decoder = Start,
         wire' = wire, channel' = channel, pending_input' = pending_input,
         typed' = typed, decoder' = decoder, out' = out, held' = held,
         B' = {}, ask'.answered = ask.answered, ask'.buf = ask.buf
  PROVE  /\ Ordered' /\ Kept' /\ Gone' /\ Decoded'
         /\ (tty \in Seq(Bytes(typed)))' /\ P' = P /\ C' = C /\ R' = R /\ R = {}
         /\ W' \in SUBSET Bytes(typed) /\ W' \subseteq W
         /\ ReadSets(typed, cut', ask.answered, {}, P, C, W')
<1>1. tty' = <<>> /\ cut' = cut \cup KeysOf(tty)
  BY DEF Flush
<1>2. /\ typed \in Seq(PlainKeys) /\ P \in SUBSET Bytes(typed)
      /\ C \in SUBSET Bytes(typed) /\ W \in SUBSET Bytes(typed)
      /\ ToSet(tty) \in SUBSET Bytes(typed) /\ ToSet(wire) \in SUBSET Bytes(typed)
      /\ ask.answered \in Nat
  BY SetsAre
<1>3. /\ ~Held(P \cup B \cup C \cup W, NoKey) /\ B = {} /\ R = {} /\ ask.buf = <<>>
      /\ ReadSets(typed, cut, ask.answered, R, P, C, W)
  BY NotAsked
<1>4. P' = P /\ C' = C /\ R' = R /\ W' = ToSet(wire) /\ W = ToSet(tty) \cup ToSet(wire)
  BY <1>1, EmptySet DEF P, C, R, W
<1>5. /\ Before(ask.answered, ToSet(tty), ToSet(wire))
      /\ Before(ask.answered, P, ToSet(tty) \cup ToSet(wire))
  BY <1>4 DEF Ordered
<1>6. \A b \in ToSet(tty) : KeyOf(b) \in cut' /\ KeyOf(b) # NoKey
  BY <1>1, <1>3, <1>4, KeysAre DEF Held
<1>7. ReadSets(typed, cut', ask.answered, {}, P, C, W')
  <2>1. cut \subseteq cut'
    BY <1>1
  <2>2. ReadSets(typed, cut, ask.answered, {}, P, C, ToSet(tty) \cup ToSet(wire))
    BY <1>3, <1>4
  <2>3. ReadSets(typed, cut', ask.answered, {}, P, C, ToSet(wire))
    BY <1>2, <1>5, <1>6, <2>1, <2>2, FlushSets
  <2> QED  BY <1>4, <2>3
<1>8. Ordered'
  <2>1. ToSet(tty') = {} /\ Sorted(ask.answered, tty')
    BY <1>1, EmptySet, SortedEmpty
  <2>2. \A S \in SUBSET Bytes(typed) : Before(ask.answered, {}, S)
          /\ Before(ask.answered, S, {})
    BY DEF Before
  <2>3. Before(ask.answered, P, W') /\ Before(ask.answered, C, W')
    BY <1>4 DEF Before, Ordered
  <2> QED  BY <1>2, <1>4, <2>1, <2>2, <2>3 DEF Ordered
<1>9. Kept' /\ Gone' /\ Decoded'
  <2>1. Left = Left' \cup ToSet(tty)
    BY <1>3, <1>4 DEF Left
  <2>2. \A k \in DOMAIN typed : Held(Left', k) => Held(Left, k)
    BY <2>1 DEF Held
  <2>3. \A k \in DOMAIN typed : Held(Left, k) => Held(Left', k) \/ k \in cut'
    BY <1>6, <2>1 DEF Held
  <2> QED  BY <1>1, <2>2, <2>3, NothingOut
<1>10. tty' \in Seq(Bytes(typed'))
  BY <1>1
<1> QED  BY <1>2, <1>3, <1>4, <1>7, <1>8, <1>9, <1>10

(* The decoder is at the start, outside of a question. *)
LEMMA AtStart ==
  ASSUME Reading, typed' = typed, ask' = ask, ui' # "asking", decoder' = Start,
         C' = C, held' = held,
         ~Held(P' \cup C' \cup W', NoKey),
         ReadSets(typed, cut', ask.answered, {}, P', C, W'),
         \E O \in SUBSET DOMAIN typed : PairSets(typed, O, {}, P')
  PROVE  InSync'
<1>1. R' = {}
  BY EmptySet DEF R, Start
<1>2. ask.at = "loop" /\ ask.buf = <<>> /\ ~ask.sent /\ \A d \in C : KeyOf(d) \in held
  BY DEF Reading
<1>3. B' = {}
  BY <1>2, EmptySet DEF B
<1>4. NoReport'
  BY <1>3 DEF NoReport, Held
<1>5. DecoderOK'
  BY DEF DecoderOK
<1>6. Reading'
  BY <1>1, <1>2, <1>5 DEF Reading
<1> QED  BY <1>1, <1>4, <1>6 DEF InSync

(* The terminal is lent or given back, and flushed. *)
LEMMA LentStep ==
  ASSUME Core, ~torn', Flush, ui # "asking",
         ui' \in {"loop", "passthrough", "choosing"},
         decoder = Start,
         UNCHANGED <<typed, wire, channel, pending_input, ask, decoder, out,
         channel_left>>
  PROVE  Core'
<1>0. ~torn /\ Typing /\ Ordered /\ Kept /\ Gone /\ Decoded /\ (Stuck \/ InSync)
  BY DEF channel_left, Core
<1>1. /\ InSync /\ Reading /\ ~Held(P \cup B \cup C \cup W, NoKey)
      /\ B = {} /\ ask.buf = <<>> /\ ask.at = "loop" /\ R = {}
  BY <1>0, NotAsked
<1>2. /\ wire' = wire /\ channel' = channel /\ pending_input' = pending_input
      /\ ask' = ask
      /\ typed' = typed /\ decoder' = decoder /\ out' = out /\ held' = held
  BY DEF channel_left
<1>3. B' = {} /\ ask'.answered = ask.answered /\ ask'.buf = ask.buf
  BY <1>1, <1>2 DEF B
<1>4. /\ Ordered' /\ Kept' /\ Gone' /\ Decoded'
      /\ (tty \in Seq(Bytes(typed)))' /\ P' = P /\ C' = C /\ R' = R /\ R = {}
      /\ W' \in SUBSET Bytes(typed) /\ W' \subseteq W
      /\ ReadSets(typed, cut', ask.answered, {}, P, C, W')
  BY <1>0, <1>2, <1>3, Flushed
<1>5. Typing'
  BY <1>0, <1>2, <1>4 DEF Typing
<1>6. ~Held(P' \cup C' \cup W', NoKey)
  BY <1>1, <1>4 DEF Held
<1>7. \E O \in SUBSET DOMAIN typed : PairSets(typed, O, {}, P')
  BY <1>1, <1>4 DEF InSync
<1>8. InSync'
  <2>1. ui' # "asking" /\ decoder' = Start
    BY <1>2
  <2> QED  BY <1>1, <1>2, <1>4, <1>6, <1>7, <2>1, AtStart
<1> QED  BY <1>4, <1>5, <1>8 DEF Core

(* enter_passthrough, choose_file and choose_file_end keep the invariant. *)
LEMMA LendStep ==
  ASSUME Core, enter_passthrough \/ choose_file \/ choose_file_end, ~torn'
  PROVE  Core'
<1>0. ~torn /\ Typing /\ (Stuck \/ InSync)
  BY DEF enter_passthrough, choose_file, choose_file_end, Lend, channel_left, Core
<1>1. CASE enter_passthrough \/ choose_file
  BY <1>1, LentStep DEF enter_passthrough, choose_file, Lend
<1>2. CASE choose_file_end
  <2>1. /\ Flush /\ ui = "choosing" /\ ui' = "loop"
        /\ UNCHANGED <<typed, wire, channel, pending_input, ask, decoder, out,
             channel_left>>
    BY <1>2 DEF choose_file_end
  <2>2. decoder = Start
    <3>1. Reading
      BY <1>0, <2>1, NotAsked
    <3> QED  BY <2>1, <3>1 DEF Reading
  <2> QED  BY <2>1, <2>2, LentStep
<1> QED  BY <1>1, <1>2

(* Passthrough_end keeps the invariant: it flushes and asks. *)
LEMMA PassthroughEndStep ==
  ASSUME Core, Passthrough_end, ~torn'
  PROVE  Core'
<1>0. ~torn /\ Typing /\ Ordered /\ Kept /\ Gone /\ Decoded /\ (Stuck \/ InSync)
  BY DEF Passthrough_end, channel_left, Core
<1>a. ui = "passthrough" /\ Flush /\ AskPosition
  BY DEF Passthrough_end
<1>1. /\ InSync /\ Reading /\ ~Held(P \cup B \cup C \cup W, NoKey)
      /\ B = {} /\ ask.buf = <<>> /\ ask.at = "loop" /\ (decoder = Start => R = {})
  BY <1>0, <1>a, NotAsked
<1>2. /\ wire' = wire /\ channel' = channel /\ pending_input' = pending_input
      /\ typed' = typed /\ decoder' = decoder /\ out' = out /\ held' = held
  BY DEF Passthrough_end, channel_left
<1>b. decoder = Start /\ decoder' = Start /\ ui # "asking" /\ R = {}
  BY <1>a, <1>1, <1>2 DEF Reading
<1>c. ask \in [at : {"loop", "esc", "csi"}, buf : Seq(Bytes(typed)), times : Nat,
               sent : BOOLEAN, answered : 0..Len(typed)]
  BY <1>0 DEF Typing
<1>3. B' = {} /\ ask'.answered = ask.answered /\ ask'.buf = ask.buf
  <2>1. ask' = [ask EXCEPT !.times = @ + 1, !.sent = TRUE]
    BY <1>a DEF AskPosition
  <2>2. ask'.answered = ask.answered /\ ask'.buf = ask.buf
    BY <1>c, <2>1
  <2> QED  BY <1>1, <2>2, EmptySet DEF B
<1>4. /\ Ordered' /\ Kept' /\ Gone' /\ Decoded'
      /\ (tty \in Seq(Bytes(typed)))' /\ P' = P /\ C' = C /\ R' = R /\ R = {}
      /\ W' \in SUBSET Bytes(typed) /\ W' \subseteq W
      /\ ReadSets(typed, cut', ask.answered, {}, P, C, W')
  BY <1>0, <1>a, <1>b, <1>2, <1>3, Flushed
<1>5. ~Held(P \cup C \cup W', NoKey)
  BY <1>1, <1>4 DEF Held
<1>6. Before(ask.answered, P, W')
  BY <1>0, <1>4 DEF Before, Ordered
<1>7. \E O \in SUBSET DOMAIN typed : PairSets(typed, O, R, P)
  BY <1>1 DEF InSync
<1>8. typed \in Seq(PlainKeys) /\ P \in SUBSET Bytes(typed)
        /\ C \in SUBSET Bytes(typed)
  BY <1>0, SetsAre
<1>9. /\ InSync' /\ ui' = "asking"
      /\ ask' \in [at : {"loop", "esc", "csi"}, buf : Seq(Bytes(typed)), times : Nat,
                   sent : BOOLEAN, answered : 0..Len(typed)]
  BY <1>a, <1>b, <1>c, <1>1, <1>2, <1>4, <1>5, <1>6, <1>7, <1>8, AskAgain
<1>10. Typing'
  BY <1>0, <1>2, <1>4, <1>9 DEF Typing
<1> QED  BY <1>4, <1>9, <1>10 DEF Core

(* The keys of what the decoder has read. *)
LEMMA ReadIs ==
  ASSUME Typing, DecoderOK
  PROVE  /\ \A b \in R : b \in Bytes(typed) /\ KeyOf(b) # NoKey
         /\ decoder # Start
              => \E k \in DOMAIN typed : \E m \in Places : \E n \in Places :
              /\ Decodes(typed[k], m, n, decoder.at, decoder.text, decoder.acc)
              /\ decoder = Doing(decoder.at, Run(typed, k, m, n), decoder.text,
                   decoder.acc)
              /\ decoder.read = Run(typed, k, m, n)
              /\ m > 1 => Spoilt(typed, cut, k)
              /\ m <= n /\ n <= Size(typed, k) /\ k \in 0..Len(typed)
              /\ \A b \in R : KeyOf(b) = k
<1>1. typed \in Seq(PlainKeys) /\ DOMAIN typed = 1..Len(typed)
        /\ R \in SUBSET Bytes(typed)
  BY SetsAre
<1>2. CASE decoder = Start
  BY <1>2, EmptySet DEF R, Start
<1>3. ASSUME NEW k \in DOMAIN typed, NEW m \in Places, NEW n \in Places,
             Decodes(typed[k], m, n, decoder.at, decoder.text, decoder.acc),
             decoder = Doing(decoder.at, Run(typed, k, m, n), decoder.text,
             decoder.acc),
             m > 1 => Spoilt(typed, cut, k)
      PROVE  /\ decoder.read = Run(typed, k, m, n)
             /\ m <= n /\ n <= Size(typed, k) /\ k \in 0..Len(typed)
             /\ \A b \in R : KeyOf(b) = k /\ KeyOf(b) # NoKey
  <2>1. decoder.read = Run(typed, k, m, n)
    BY <1>3, DoingIs
  <2>2. k \in 0..Len(typed) /\ k # NoKey /\ m \in Nat /\ n \in Nat /\ 1 <= m
    BY <1>1 DEF Places, NoKey
  <2>3. m <= n /\ n <= Size(typed, k)
    <3>1. Size(typed, k) = Len(Sent[typed[k]])
      BY <2>2 DEF Size, CharsOf
    <3>2. /\ Len(Sent["Wide"]) = 2 /\ Len(Sent["Escape"]) = 1
          /\ Len(Sent["NextWord"]) = 2 /\ Len(Sent["Up"]) = 3 /\ Len(Sent["AppUp"]) = 3
          /\ Len(Sent["Delete"]) = 4 /\ Len(Sent["Paste"]) = 10
      BY Letters, Zenon
    <3> DEFINE kind == typed[k]
    <3> HIDE DEF kind
    <3>3. \/ kind = "Wide" /\ m = 1 /\ n = 1
          \/ kind = "Escape" /\ m = 1 /\ n = 1
          \/ kind = "NextWord" /\ m = 1 /\ n = 1
          \/ kind = "Up" /\ m = 1 /\ n \in 1..2
          \/ kind = "AppUp" /\ m = 1 /\ n \in 1..2
          \/ kind = "Delete" /\ m = 1 /\ n \in 1..3
          \/ kind = "Paste" /\ m <= n
      <4>1. Decodes(kind, m, n, decoder.at, decoder.text, decoder.acc)
        BY <1>3 DEF kind
      <4> QED  BY <4>1 DEF Decodes
    <3>0. n \in Nat /\ n <= 10
      BY DEF Places
    <3>4. CASE kind = "Wide"
      <4>1. Len(Sent[kind]) = 2
        BY <3>2, <3>4, Zenon
      <4>2. m <= n /\ n <= 2
        BY <3>3, <3>4, <3>0
      <4> QED  BY <3>1, <4>1, <4>2 DEF kind
    <3>5. CASE kind = "Escape"
      <4>1. Len(Sent[kind]) = 1
        BY <3>2, <3>5, Zenon
      <4>2. m <= n /\ n <= 1
        BY <3>3, <3>5, <3>0
      <4> QED  BY <3>1, <4>1, <4>2 DEF kind
    <3>6. CASE kind = "NextWord"
      <4>1. Len(Sent[kind]) = 2
        BY <3>2, <3>6, Zenon
      <4>2. m <= n /\ n <= 2
        BY <3>3, <3>6, <3>0
      <4> QED  BY <3>1, <4>1, <4>2 DEF kind
    <3>7. CASE kind = "Up"
      <4>1. Len(Sent[kind]) = 3
        BY <3>2, <3>7, Zenon
      <4>2. m <= n /\ n <= 3
        BY <3>3, <3>7, <3>0
      <4> QED  BY <3>1, <4>1, <4>2 DEF kind
    <3>8. CASE kind = "AppUp"
      <4>1. Len(Sent[kind]) = 3
        BY <3>2, <3>8, Zenon
      <4>2. m <= n /\ n <= 3
        BY <3>3, <3>8, <3>0
      <4> QED  BY <3>1, <4>1, <4>2 DEF kind
    <3>9. CASE kind = "Delete"
      <4>1. Len(Sent[kind]) = 4
        BY <3>2, <3>9, Zenon
      <4>2. m <= n /\ n <= 4
        BY <3>3, <3>9, <3>0
      <4> QED  BY <3>1, <4>1, <4>2 DEF kind
    <3>10. CASE kind = "Paste"
      <4>1. Len(Sent[kind]) = 10
        BY <3>2, <3>10, Zenon
      <4>2. m <= n /\ n <= 10
        BY <3>3, <3>10, <3>0
      <4> QED  BY <3>1, <4>1, <4>2 DEF kind
    <3> QED  BY <3>3, <3>4, <3>5, <3>6, <3>7, <3>8, <3>9, <3>10
  <2>4. \A b \in ToSet(Run(typed, k, m, n)) : KeyOf(b) = k
    BY <1>1, <2>2, <2>3, RunIs
  <2> QED  BY <2>1, <2>2, <2>3, <2>4 DEF R
<1>4. DecoderOK
  OBVIOUS
<1> QED  BY <1>1, <1>2, <1>3, <1>4 DEF DecoderOK

(* Respond keeps the invariant: the keys that lose bytes are cut. *)
LEMMA RespondStep ==
  ASSUME Core, Respond, ~torn'
  PROVE  Core'
<1>0. ~torn /\ Typing /\ Ordered /\ Kept /\ Gone /\ Decoded /\ (Stuck \/ InSync)
  BY DEF Respond, channel_left, Core
<1>a. ui = "loop" /\ pending_input = <<>> /\ cut' = cut \cup KeysOf(decoder.read)
        /\ decoder' = Start
  BY DEF Respond
<1>2. /\ wire' = wire /\ tty' = tty /\ channel' = channel
      /\ pending_input' = pending_input
      /\ ask' = ask /\ ui' = ui /\ typed' = typed /\ out' = out /\ held' = held
  BY DEF Respond, channel_left
<1>1. /\ InSync /\ Reading /\ ~Held(P \cup B \cup C \cup W, NoKey)
      /\ B = {} /\ ask.buf = <<>> /\ ask.at = "loop"
      /\ ReadSets(typed, cut, ask.answered, R, P, C, W)
  BY <1>0, <1>a, NotAsked
<1>3. /\ typed \in Seq(PlainKeys) /\ P \in SUBSET Bytes(typed)
      /\ R \in SUBSET Bytes(typed)
      /\ C \in SUBSET Bytes(typed) /\ W \in SUBSET Bytes(typed)
      /\ ask.answered \in Nat /\ Bytes(typed) = Bytes(typed)
  BY <1>0, SetsAre
<1>4. P' = P /\ B' = B /\ C' = C /\ W' = W /\ P = {} /\ R' = {}
  BY <1>a, <1>2, EmptySet DEF P, B, C, W, R, Start
<1>5. Typing'
  <2>1. decoder'.read = <<>>
    BY <1>a DEF Start
  <2>2. decoder'.read \in Seq(Bytes(typed'))
    BY <2>1
  <2> QED  BY <1>0, <1>2, <2>2 DEF Typing
<1>6. Ordered'
  BY <1>0, <1>2, <1>4 DEF Ordered
<1>7. \A b \in R : KeyOf(b) \in cut' /\ KeyOf(b) # NoKey
  <2>1. \A b \in R : KeyOf(b) # NoKey
    BY <1>0, <1>1, ReadIs DEF Reading
  <2> QED  BY <1>a, <2>1, KeysAre DEF R
<1>8. Kept' /\ Gone' /\ Decoded'
  <2>1. Left = Left' \cup R
    BY <1>4 DEF Left
  <2>2. \A k \in DOMAIN typed : Held(Left', k) => Held(Left, k)
    BY <2>1 DEF Held
  <2>3. \A k \in DOMAIN typed : Held(Left, k) => Held(Left', k) \/ k \in cut'
    BY <1>7, <2>1 DEF Held
  <2> QED  BY <1>0, <1>a, <1>2, <2>2, <2>3, NothingOut
<1>9. ReadSets(typed, cut', ask.answered, {}, P, C, W)
  <2>1. cut \subseteq cut'
    BY <1>a
  <2>2. \A b \in R : Ends(b) \/ After(typed, b) \in R \/ Spoilt(typed, cut', KeyOf(b))
    BY <1>7 DEF Spoilt
  <2> QED  BY <1>1, <1>3, <2>1, <2>2, DropSets
<1>10. InSync'
  <2>1. ~Held(P' \cup C' \cup W', NoKey)
    BY <1>1, <1>4 DEF Held
  <2>2. \E O \in SUBSET DOMAIN typed : PairSets(typed, O, {}, P')
    BY <1>4, PairNone
  <2> QED  BY <1>1, <1>2, <1>a, <1>4, <1>9, <2>1, <2>2, AtStart
<1> QED  BY <1>5, <1>6, <1>8, <1>10 DEF Core

(* read_byte_timeout keeps the invariant: only a lone ESC is whole. *)
LEMMA TimeoutStep ==
  ASSUME Core, read_byte_timeout, ~torn'
  PROVE  Core'
<1>0. ~torn /\ Typing /\ Ordered /\ Kept /\ Gone /\ Decoded /\ (Stuck \/ InSync)
  BY DEF read_byte_timeout, channel_left, Core
<1> DEFINE key == IF decoder.at = "esc" THEN Key("Escape", <<>>)
                  ELSE Key("Unknown", Chars(decoder.read))
           s == decoder.read
<1>a. /\ ui \in {"draining", "loop"} /\ decoder.at \in {"esc", "ss3"} /\ NextByte = {}
      /\ Deliver(key, s) /\ decoder' = Start
      /\ cut' = cut \cup {b.key : b \in {c \in ToSet(s) : ~c.last}}
  BY DEF read_byte_timeout
<1>2. /\ wire' = wire /\ tty' = tty /\ channel' = channel
      /\ pending_input' = pending_input
      /\ ask' = ask /\ ui' = ui /\ typed' = typed /\ held' = held
  BY DEF read_byte_timeout, channel_left
<1>1. /\ InSync /\ Reading /\ ~Held(P \cup B \cup C \cup W, NoKey)
      /\ B = {} /\ ask.buf = <<>> /\ ask.at = "loop"
      /\ ReadSets(typed, cut, ask.answered, R, P, C, W)
  BY <1>0, <1>a, NotAsked
<1>3. /\ typed \in Seq(PlainKeys) /\ P \in SUBSET Bytes(typed)
      /\ R \in SUBSET Bytes(typed)
      /\ C \in SUBSET Bytes(typed) /\ W \in SUBSET Bytes(typed)
      /\ ask.answered \in Nat /\ DOMAIN typed = 1..Len(typed)
  BY <1>0, SetsAre
<1>4. P' = P /\ B' = B /\ C' = C /\ W' = W /\ P = {} /\ R' = {}
  <2>1. pending_input = <<>>
    BY <1>a DEF NextByte
  <2> QED  BY <1>a, <1>2, <2>1, EmptySet DEF P, B, C, W, R, Start
<1>5. ASSUME NEW b \in R, ~Ends(b) PROVE KeyOf(b) \in cut'
  <2>1. ~b.last
    BY <1>3, <1>5, EndsIs
  <2> QED  BY <1>a, <1>5, <2>1 DEF KeyOf, R
<1>6. \A b \in R : KeyOf(b) # NoKey
  BY <1>0, <1>1, ReadIs DEF Reading
<1>7. decoder # Start
  BY <1>a DEF Start
<1>8. PICK k \in DOMAIN typed : \E m \in Places : \E n \in Places :
        /\ Decodes(typed[k], m, n, decoder.at, decoder.text, decoder.acc)
        /\ decoder = Doing(decoder.at, Run(typed, k, m, n), decoder.text, decoder.acc)
        /\ decoder.read = Run(typed, k, m, n)
        /\ m > 1 => Spoilt(typed, cut, k)
        /\ m <= n /\ n <= Size(typed, k) /\ k \in 0..Len(typed)
        /\ \A b \in R : KeyOf(b) = k
  BY <1>0, <1>1, <1>7, ReadIs DEF Reading
<1>9. PICK m \in Places, n \in Places :
        /\ Decodes(typed[k], m, n, decoder.at, decoder.text, decoder.acc)
        /\ decoder = Doing(decoder.at, Run(typed, k, m, n), decoder.text, decoder.acc)
        /\ s = Run(typed, k, m, n)
        /\ m > 1 => Spoilt(typed, cut, k)
        /\ m <= n /\ n <= Size(typed, k) /\ k \in 0..Len(typed)
        /\ \A b \in R : KeyOf(b) = k
  BY <1>8
<1>10. cut \subseteq cut'
  BY <1>a
<1>11. ASSUME NEW j \in DOMAIN typed, j \in KeysOf(s), Untouched(j)'
       PROVE  key = Meaning(typed[j]) /\ s = BytesOf(Sent[typed[j]], j)
  <2>1. j = k
    BY <1>9, <1>11, KeysAre DEF Held, R
  <2>2. m \in Nat /\ n \in Nat /\ 1 <= m
    BY DEF Places
  <2>3. Byte(typed, k, n) \in R
    <3>1. Byte(typed, k, n) \in ToSet(Run(typed, k, m, n))
      BY <1>3, <1>9, <2>2, RunIs
    <3> QED  BY <1>9, <3>1 DEF R
  <2>4. k \notin cut' /\ (k > 1 => typed[k - 1] # "Escape")
    BY <1>2, <1>11, <2>1 DEF Untouched
  <2>5. Ends(Byte(typed, k, n))
    BY <1>5, <1>9, <2>3, <2>4
  <2>6. n = Size(typed, k)
    BY <2>5, ByteFields
  <2>7. ~Spoilt(typed, cut, k)
    BY <1>10, <2>4 DEF Spoilt
  <2>8. m = 1
    BY <1>9, <2>2, <2>7
  <2> DEFINE kind == typed[k]
  <2>9. Size(typed, k) = Len(Sent[kind]) /\ CharsOf(typed, k) = Sent[kind]
    BY <1>3 DEF Size, CharsOf, NoKey
  <2>10. Decodes(kind, m, n, decoder.at, decoder.text, decoder.acc)
    BY <1>9
  <2> HIDE DEF kind
  <2>11. /\ Len(Sent["Escape"]) = 1 /\ Len(Sent["NextWord"]) = 2 /\ Len(Sent["Up"]) = 3
         /\ Len(Sent["AppUp"]) = 3 /\ Len(Sent["Delete"]) = 4 /\ Len(Sent["Paste"]) = 10
    BY Letters, Zenon
  <2>12. decoder.at = "esc" /\ kind = "Escape"
    <3>1. \/ decoder.at = "ss3" /\ kind = "AppUp" /\ n = 2
          \/ /\ decoder.at = "esc" /\ n = 1
             /\ kind \in {"Escape", "NextWord", "Up", "AppUp", "Delete", "Paste"}
      BY <1>a, <2>8, <2>10, Rows
    <3>2. n = Len(Sent[kind])
      BY <2>6, <2>9
    <3>3. kind # "AppUp" \/ n = 3
      BY <2>11, <3>2, Zenon
    <3>4. kind \in {"NextWord", "Up", "AppUp", "Delete", "Paste"} =>
            n = 2 \/ n = 3 \/ n = 4 \/ n = 10
      BY <2>11, <3>2, Zenon
    <3> QED  BY <3>1, <3>3, <3>4
  <2>13. key = Meaning(kind)
    BY <2>12, Meanings
  <2>14. s = BytesOf(Sent[kind], k)
    <3>1. Run(typed, k, 1, Size(typed, k)) = BytesOf(CharsOf(typed, k), k)
      BY <1>3, <1>9, RunOfAll
    <3> QED  BY <1>9, <2>6, <2>8, <2>9, <3>1
  <2> QED  BY <2>1, <2>13, <2>14 DEF kind
<1> HIDE DEF key
<1>12. ReadSets(typed, cut', ask.answered, {}, P, C, W)
  <2>1. \A b \in R : Ends(b) \/ After(typed, b) \in R \/ Spoilt(typed, cut', KeyOf(b))
    BY <1>5, <1>6 DEF Spoilt
  <2> QED  BY <1>1, <1>3, <1>10, <2>1, DropSets
<1>13. /\ Kept' /\ Gone' /\ Decoded'
       /\ (out \in Seq(ToSet(out)))'
       /\ (\A i \in DOMAIN out : out[i].from \in Seq(Bytes(typed)))'
  <2>1. Left = ToSet(s) \cup C \cup W /\ Left' = C \cup W
    BY <1>1, <1>4 DEF Left, R
  <2>2. s \in Seq(Bytes(typed)) /\ \A b \in ToSet(s) : KeyOf(b) # NoKey
    BY <1>0, <1>6 DEF Typing, R
  <2>3. \A b \in W : KeyOf(b) # NoKey
    BY <1>1 DEF Held
  <2>4. \A d \in C : KeyOf(d) \in held
    BY <1>1 DEF Reading
  <2>5. (\A d \in C, b \in ToSet(s) : KeyOf(d) # KeyOf(b))
          /\ Before(ask.answered, ToSet(s), W)
    BY <1>1 DEF ReadSets, R
  <2>6. Outcome(key, s, W)
    BY <1>a, <1>11, <2>1, <2>2, <2>3, <2>4, <2>5 DEF Outcome
  <2> QED  BY <1>0, <1>2, <1>3, <1>10, <2>2, <2>6, Done
<1>14. Typing'
  <2>1. decoder'.read = <<>>
    BY <1>a DEF Start
  <2>2. decoder'.read \in Seq(Bytes(typed'))
    BY <2>1
  <2> QED  BY <1>0, <1>2, <1>13, <2>2 DEF Typing
<1>15. Ordered'
  BY <1>0, <1>2, <1>4 DEF Ordered
<1>16. InSync'
  <2>1. ~Held(P' \cup C' \cup W', NoKey)
    BY <1>1, <1>4 DEF Held
  <2>2. \E O \in SUBSET DOMAIN typed : PairSets(typed, O, {}, P')
    BY <1>4, PairNone
  <2>3. ui' # "asking"
    BY <1>a, <1>2
  <2> QED  BY <1>1, <1>2, <1>a, <1>4, <1>12, <2>1, <2>2, <2>3, AtStart
<1> QED  BY <1>13, <1>14, <1>15, <1>16 DEF Core

-----------------------------------------------------------------------------
(* The decoder takes a byte *)

(* The decoder ends with the bytes s, and a key that nothing has touched   *)
(* comes out right.                                                        *)
Returned(s) ==
  \E key :
    /\ Return(key, s)
    /\ \A k \in DOMAIN typed :
         /\ k \in KeysOf(s) /\ ~Spoilt(typed, cut, k)
         /\ typed[k] = "Escape" => k = Len(typed)
         => key = Meaning(typed[k]) /\ s = BytesOf(Sent[typed[k]], k)

(* Nothing of the bytes S is missed by what is behind them. *)
Closed(S) ==
  /\ \A b \in S : Ends(b) \/ After(typed, b) \in S \/ Spoilt(typed, cut, KeyOf(b))
  /\ \A c \in Alone(S) : ~IsEscape(c)

(* A key made of a run is right, unless the key was spoilt. *)
LEMMA MadeIs ==
  ASSUME typed \in Seq(PlainKeys), NEW k \in 1..Len(typed), NEW m \in Nat,
         NEW n \in Nat,
         1 <= m, m <= n, n <= Size(typed, k), m > 1 => Spoilt(typed, cut, k),
         MadeOf(k, m, n)
  PROVE  /\ Returned(Run(typed, k, m, n))
         /\ \A b \in ToSet(Run(typed, k, m, n)) :
              Ends(b) \/ After(typed, b) \in ToSet(Run(typed, k, m, n))
                \/ Spoilt(typed, cut, KeyOf(b))
<1> DEFINE s == Run(typed, k, m, n)
<1>1. k \in 0..Len(typed) /\ CharsOf(typed, k) = Sent[typed[k]]
  BY DEF CharsOf, NoKey
<1>2. \A b \in ToSet(s) : /\ KeyOf(b) = k
                          /\ b = Byte(typed, k, n)
                               \/ (~Ends(b) /\ After(typed, b) \in ToSet(s))
  <2>1. \A b \in ToSet(Run(typed, k, m, n)) : KeyOf(b) = k
    BY <1>1, RunIs
  <2>2. \A b \in ToSet(Run(typed, k, m, n)) :
          b = Byte(typed, k, n)
            \/ (~Ends(b) /\ After(typed, b) \in ToSet(Run(typed, k, m, n)))
    BY <1>1, RunIs
  <2> QED  BY <2>1, <2>2
<1>3. PICK key : /\ Return(key, s)
                 /\ m = 1 => n = Size(typed, k) /\ key = Meaning(typed[k])
  BY DEF MadeOf
<1>4. m = 1 => s = BytesOf(Sent[typed[k]], k)
  BY <1>1, <1>3, RunOfAll
<1> HIDE DEF s
<1>5. \A j : j \in KeysOf(s) => j = k
  BY <1>2, KeysAre DEF Held
<1>6. m = 1 \/ Spoilt(typed, cut, k)
  OBVIOUS
<1>7. Returned(s)
  BY <1>3, <1>4, <1>5, <1>6 DEF Returned
<1>8. \A b \in ToSet(s) : Ends(b) \/ After(typed, b) \in ToSet(s)
        \/ Spoilt(typed, cut, KeyOf(b))
  <2>1. m = 1 => Ends(Byte(typed, k, n))
    BY <1>3, ByteFields
  <2> QED  BY <1>2, <1>6, <2>1
<1> QED  BY <1>7, <1>8 DEF s

(* At the start. *)
LEMMA TakeFirst ==
  ASSUME typed \in Seq(PlainKeys), NEW x \in Bytes(typed), KeyOf(x) # NoKey,
         Nth(x) = 1 \/ Spoilt(typed, cut, KeyOf(x)),
         decoder = Start, NEW s, s = <<x>>, Decode(x, s)
  PROVE  \/ \E k \in DOMAIN typed, m, n \in Places :
              ReadOn(k, m, n) /\ s = Run(typed, k, m, n)
                /\ (m > 1 => Spoilt(typed, cut, k))
         \/ Returned(s) /\ Closed({x})
<1> DEFINE k == KeyOf(x)
           j == Nth(x)
<1>1. /\ k \in 0..Len(typed) /\ j \in 1..Size(typed, k) /\ Size(typed, k) \in Nat
      /\ Size(typed, k) <= 10 /\ x = Byte(typed, k, j)
  BY ByteIs
<1> HIDE DEF k, j
<1>2. k \in 1..Len(typed) /\ k \in DOMAIN typed /\ j \in Places /\ j \in Nat /\ 1 <= j
      /\ j <= Size(typed, k) /\ j <= j
  <2>1. k # 0
    BY DEF NoKey, k
  <2> QED  BY <1>1, <2>1 DEF Places
<1>3. s = Run(typed, k, j, j)
  BY <1>1, RunOfOne
<1>4. ReadOn(k, j, j) \/ MadeOf(k, j, j)
  BY <1>1, <1>2, <1>3, DecodeFirst
<1>5. j > 1 => Spoilt(typed, cut, k)
  <2>1. j = 1 \/ Spoilt(typed, cut, k)
    BY DEF j, k
  <2> QED  BY <2>1
<1>6. CASE ReadOn(k, j, j)
  BY <1>2, <1>3, <1>5, <1>6
<1>7. CASE MadeOf(k, j, j)
  <2>1. /\ Returned(s)
        /\ \A b \in ToSet(s) : Ends(b) \/ After(typed, b) \in ToSet(s)
             \/ Spoilt(typed, cut, KeyOf(b))
    BY <1>2, <1>3, <1>5, <1>7, MadeIs
  <2>2. ToSet(s) = {x}
    <3> DEFINE e == <<>>
    <3>1. e \in Seq(Bytes(typed)) /\ s = Append(e, x) /\ ToSet(e) = {}
      BY EmptySet
    <3> HIDE DEF e
    <3>2. ToSet(Append(e, x)) = ToSet(e) \cup {x}
      BY <3>1, AppendSet
    <3> QED  BY <3>1, <3>2
  <2>3. ~IsEscape(x)
    <3> SUFFICES ASSUME IsEscape(x) PROVE FALSE
      OBVIOUS
    <3>1. Going("esc", s, <<>>, <<>>)
      BY StartStep DEF IsEscape
    <3>2. decoder'.at = "esc"
      BY <3>1 DEF Going, Doing
    <3>3. decoder' = Start
      BY <2>1 DEF Returned, Return
    <3> QED  BY <3>2, <3>3 DEF Start
  <2> QED  BY <2>1, <2>2, <2>3 DEF Closed, Alone
<1> QED  BY <1>4, <1>6, <1>7

(* Inside a key. *)
LEMMA TakeNext ==
  ASSUME typed \in Seq(PlainKeys), NEW k \in 1..Len(typed), NEW m \in Places,
         NEW n \in Places,
         Decodes(typed[k], m, n, decoder.at, decoder.text, decoder.acc),
         decoder = Doing(decoder.at, Run(typed, k, m, n), decoder.text, decoder.acc),
         m > 1 => Spoilt(typed, cut, k), m <= n, n < Size(typed, k),
         NEW s, s = Run(typed, k, m, n + 1), Decode(Byte(typed, k, n + 1), s)
  PROVE  \/ \E l \in DOMAIN typed, i, j \in Places :
              ReadOn(l, i, j) /\ s = Run(typed, l, i, j)
                /\ (i > 1 => Spoilt(typed, cut, l))
         \/ Returned(s) /\ Closed(ToSet(s))
<1> DEFINE j == n + 1
<1>1. /\ m \in Nat /\ n \in Nat /\ 1 <= m /\ j \in Nat /\ m <= j /\ j <= Size(typed, k)
      /\ j \in Places /\ n <= j /\ k \in 0..Len(typed) /\ k \in DOMAIN typed /\ n # j
      /\ Size(typed, k) \in Nat
  <2>1. k \in 0..Len(typed) /\ k \in DOMAIN typed
    OBVIOUS
  <2>2. Size(typed, k) \in 1..10
    BY <2>1, Sizes
  <2> QED  BY <2>1, <2>2, SMTT(30) DEF Places
<1>2. j = n + 1 /\ s = Run(typed, k, m, j)
        /\ Decode(Byte(typed, k, j), Run(typed, k, m, j))
  OBVIOUS
<1> HIDE DEF j
<1>3. ReadOn(k, m, j) \/ MadeOf(k, m, j)
  <2> DEFINE at == decoder.at
             text == decoder.text
             acc == decoder.acc
  <2>1. /\ Decodes(typed[k], m, n, at, text, acc)
        /\ decoder = Doing(at, Run(typed, k, m, n), text, acc)
    OBVIOUS
  <2> HIDE DEF at, text, acc
  <2> QED  BY <1>1, <1>2, <2>1, DecodeOn
<1>4. CASE ReadOn(k, m, j)
  BY <1>1, <1>2, <1>4
<1>5. CASE MadeOf(k, m, j)
  <2>1. /\ Returned(s)
        /\ \A b \in ToSet(s) : Ends(b) \/ After(typed, b) \in ToSet(s)
             \/ Spoilt(typed, cut, KeyOf(b))
    BY <1>1, <1>2, <1>5, MadeIs
  <2>2. Byte(typed, k, n) \in ToSet(s) /\ Byte(typed, k, j) \in ToSet(s)
    <3>1. \A i \in Nat : m <= i /\ i <= j
            => Byte(typed, k, i) \in ToSet(Run(typed, k, m, j))
      BY <1>1, RunIs
    <3>2. j <= j
      BY <1>1
    <3> QED  BY <1>1, <1>2, <3>1, <3>2
  <2>3. Byte(typed, k, n) # Byte(typed, k, j)
    BY <1>1, ByteFields
  <2>4. Alone(ToSet(s)) = {}
    BY <2>2, <2>3 DEF Alone
  <2> QED  BY <2>1, <2>4 DEF Closed
<1> QED  BY <1>3, <1>4, <1>5

(* Behind a lone ESC. *)
LEMMA TakeEscaped ==
  ASSUME typed \in Seq(PlainKeys), NEW k \in 1..Len(typed), k < Len(typed),
         typed[k] = "Escape", Apart(typed),
         NEW r, decoder = Doing("esc", r, <<>>, <<>>),
         NEW s \in Seq(Bytes(typed)), ToSet(s) = {First(typed, k), First(typed, k + 1)},
         Decode(First(typed, k + 1), s)
  PROVE  Returned(s) /\ Closed(ToSet(s))
<1> DEFINE j == k + 1
<1>1. j \in 1..Len(typed) /\ j # k /\ j > 1 /\ j # NoKey /\ j - 1 = k
        /\ j \in 0..Len(typed)
      /\ k \in 0..Len(typed) /\ k # Len(typed)
  BY DEF NoKey
<1>2. ToSet(s) = {First(typed, k), First(typed, j)} /\ Decode(First(typed, j), s)
  OBVIOUS
<1>a. typed[j] \notin {"Bracket", "LetterO"}
  <2>1. k \in 1..(Len(typed) - 1)
    OBVIOUS
  <2> QED  BY <2>1 DEF Apart
<1> HIDE DEF j
<1>3. Return(Key("Unknown", Chars(s)), s)
  BY <1>1, <1>2, <1>a, DecodeEscape
<1>4. KeyOf(First(typed, k)) = k /\ KeyOf(First(typed, j)) = j
  BY <1>1, FirstIs
<1>5. Spoilt(typed, cut, j)
  BY <1>1 DEF Spoilt
<1>6. \A i : i \in KeysOf(s) => i = k \/ i = j
  BY <1>2, <1>4, KeysAre DEF Held
<1>7. Returned(s)
  BY <1>1, <1>3, <1>5, <1>6 DEF Returned
<1>8. Ends(First(typed, k))
  BY <1>1, EscapeByte DEF IsEscape
<1>9. First(typed, k) # First(typed, j)
  BY <1>1, <1>4
<1>10. Alone(ToSet(s)) = {}
  <2> SUFFICES ASSUME NEW c \in Alone(ToSet(s)) PROVE FALSE
    OBVIOUS
  <2>1. ToSet(s) = {c}
    BY DEF Alone
  <2>2. First(typed, k) = c /\ First(typed, j) = c
    BY <1>2, <2>1
  <2> QED  BY <1>9, <2>2
<1>11. Closed(ToSet(s))
  BY <1>2, <1>4, <1>5, <1>8, <1>10 DEF Closed
<1> QED  BY <1>7, <1>11

(* The decoder takes the byte x, and has then read s. *)
Took(x, s) ==
  /\ ui \in {"draining", "loop"} /\ x \in NextByte
  /\ s = Append(decoder.read, x) /\ Decode(x, s)
  /\ pop_prefetched
  /\ UNCHANGED <<typed, wire, channel, ui, ask, channel_left>>

(* It is the first of the bytes p and w in front of the decoder, which     *)
(* leaves q and v.                                                         *)
Popping(a, x, p, w, q, v) ==
  /\ LeastOf(a, x, p \cup w)
  /\ q \subseteq p /\ v \subseteq w /\ p \subseteq q \cup {x}
  /\ p \cup w = {x} \cup (q \cup v)
  /\ (x \in p /\ p = {x} \cup q) \/ (p = {} /\ q = {})
  /\ Before(a, {x}, q) /\ Before(a, {x}, v)

(* The same, of the state. *)
Popped(x) == Popping(ask.answered, x, P, W, P', W')

(* pop_prefetched takes the first byte, of pending_input or of the tty. *)
LEMMA PoppedIs ==
  ASSUME Typing, Ordered, NEW x, NEW s, Took(x, s)
  PROVE  /\ Popped(x)
         /\ (pending_input \in Seq(Bytes(typed)))' /\ (tty \in Seq(Bytes(typed)))'
         /\ Sorted(ask.answered, pending_input') /\ Sorted(ask.answered, tty')
         /\ ToSet(tty') \subseteq ToSet(tty)
<1> DEFINE a == ask.answered
           S == Bytes(typed)
<1>1. /\ pending_input \in Seq(S) /\ tty \in Seq(S) /\ wire \in Seq(S)
      /\ Sorted(a, pending_input) /\ Sorted(a, tty) /\ Before(a, P, W)
      /\ Before(a, ToSet(tty), ToSet(wire))
  BY DEF Typing, Ordered
<1>2. typed' = typed /\ wire' = wire /\ x \in NextByte /\ pop_prefetched
  BY DEF Took
<1>3. Bytes(typed') = S
  BY <1>2
<1> HIDE DEF a, S
<1>4. CASE pending_input # <<>>
  <2>1. x = Head(pending_input) /\ pending_input' = Tail(pending_input) /\ tty' = tty
    BY <1>2, <1>4 DEF NextByte, pop_prefetched
  <2>2. /\ Tail(pending_input) \in Seq(S) /\ x \in P
        /\ P = {x} \cup ToSet(Tail(pending_input))
    BY <1>1, <1>4, <2>1, TailSet DEF P
  <2>3. Sorted(a, Tail(pending_input)) /\ Before(a, {x}, ToSet(Tail(pending_input)))
    BY <1>1, <1>4, <2>1, SortedTail
  <2>4. P' = ToSet(Tail(pending_input)) /\ W' = W
    BY <1>2, <2>1 DEF P, W
  <2>5. P = {x} \cup P' /\ Before(a, {x}, P')
    BY <2>2, <2>3, <2>4
  <2>6. Before(a, {x}, W)
    BY <1>1, <2>2 DEF Before
  <2>7. \A e \in P \cup W : e = x \/ Rank(a, x) < Rank(a, e)
    BY <2>5, <2>6 DEF Before
  <2>8. Popped(x)
    <3>1. P' \subseteq P /\ W' \subseteq W /\ P \subseteq P' \cup {x}
            /\ P \cup W = {x} \cup (P' \cup W')
      BY <2>4, <2>5
    <3> QED  BY <2>2, <2>4, <2>5, <2>6, <2>7, <3>1 DEF Popped, Popping, LeastOf, a
  <2> QED  BY <1>1, <1>3, <2>1, <2>2, <2>3, <2>8 DEF a
<1>5. CASE pending_input = <<>>
  <2>0. tty # <<>>
    BY <1>2, <1>5 DEF NextByte
  <2>1. x = Head(tty) /\ tty' = Tail(tty) /\ pending_input' = pending_input
    BY <1>2, <1>5, <2>0 DEF NextByte, pop_prefetched
  <2>2. /\ Tail(tty) \in Seq(S) /\ x \in ToSet(tty)
        /\ ToSet(tty) = {x} \cup ToSet(Tail(tty))
    BY <1>1, <2>0, <2>1, TailSet
  <2>3. Sorted(a, Tail(tty)) /\ Before(a, {x}, ToSet(Tail(tty)))
    BY <1>1, <2>0, <2>1, SortedTail
  <2>4. P' = {} /\ P = {} /\ W' = ToSet(Tail(tty)) \cup ToSet(wire)
          /\ W = ToSet(tty) \cup ToSet(wire)
    BY <1>2, <1>5, <2>1, EmptySet DEF P, W
  <2>5. W = {x} \cup W' /\ x \in W
    BY <2>2, <2>4
  <2>6. Before(a, {x}, W') /\ Before(a, {x}, P')
    BY <1>1, <2>2, <2>3, <2>4 DEF Before
  <2>7. \A e \in P \cup W : e = x \/ Rank(a, x) < Rank(a, e)
    BY <2>4, <2>5, <2>6 DEF Before
  <2>8. Popped(x)
    <3>1. P' \subseteq P /\ W' \subseteq W /\ P \subseteq P' \cup {x}
            /\ P \cup W = {x} \cup (P' \cup W')
      BY <2>4, <2>5
    <3> QED  BY <2>4, <2>5, <2>6, <2>7, <3>1 DEF Popped, Popping, LeastOf, a
  <2> QED  BY <1>1, <1>3, <2>1, <2>2, <2>3, <2>8 DEF a
<1> QED  BY <1>4, <1>5

(* The rest stays in order. *)
LEMMA TookOrder ==
  ASSUME Typing, Ordered, NEW x, NEW s, Took(x, s)
  PROVE  Ordered'
<1>1. /\ P' \subseteq P /\ W' \subseteq W
      /\ Sorted(ask.answered, pending_input') /\ Sorted(ask.answered, tty')
      /\ ToSet(tty') \subseteq ToSet(tty)
  BY PoppedIs DEF Popped, Popping
<1>2. ask' = ask /\ channel' = channel /\ wire' = wire /\ B' = B /\ C' = C
  BY DEF Took, B, C
<1>3. /\ Before(ask.answered, P', B) /\ Before(ask.answered, P', C)
      /\ Before(ask.answered, P', W')
      /\ Before(ask.answered, B, W') /\ Before(ask.answered, C, W')
      /\ Before(ask.answered, ToSet(tty'), ToSet(wire))
  BY <1>1 DEF Ordered, Before
<1> QED  BY <1>1, <1>2, <1>3 DEF Ordered

(* The sets behind the byte. *)
Open(r, x) == r = {} \/ (\E z \in Alone(r) : IsEscape(z)) \/ ~IsEscape(x)

(* The byte moves from what is in front of the decoder to what it has      *)
(* read.                                                                   *)
LEMMA TakeAll ==
  ASSUME NEW T \in Seq(PlainKeys), NEW a \in Nat, NEW X,
         NEW r \in SUBSET Bytes(T),
         NEW p \in SUBSET Bytes(T), NEW c \in SUBSET Bytes(T),
         NEW w \in SUBSET Bytes(T),
         NEW q \in SUBSET Bytes(T), NEW v \in SUBSET Bytes(T), NEW x \in Bytes(T),
         KeyOf(x) # NoKey, ReadSets(T, X, a, r, p, c, w), Popping(a, x, p, w, q, v),
         NEW O, PairSets(T, O, r, p), Open(r, x)
  PROVE  /\ ReadSets(T, X, a, r \cup {x}, q, c, v)
         /\ \E N : (N \subseteq O \/ N = {}) /\ PairSets(T, N, r \cup {x}, q)
<1>0. LeastOf(a, x, p \cup w) /\ ((x \in p /\ p = {x} \cup q) \/ (p = {} /\ q = {}))
  BY DEF Popping
<1>1. Follows(T, X, r, x)
  BY <1>0, NextRead
<1>2. ASSUME NEW z \in Alone(r), IsEscape(z)
      PROVE  x = First(T, KeyOf(z) + 1) /\ KeyOf(z) < Len(T) /\ x # z
  <2>1. z \in Bytes(T)
    BY DEF Alone
  <2>2. KeyOf(z) \in 0..Len(T)
    BY <2>1, ByteIs
  <2>3. KeyOf(First(T, KeyOf(z) + 1)) = KeyOf(z) + 1
    BY ByteFields DEF First
  <2>4. KeyOf(z) < Len(T) /\ x = First(T, KeyOf(z) + 1)
    BY <1>1, <1>2 DEF Follows
  <2> QED  BY <2>2, <2>3, <2>4
<1>3. Behind(T, r, x)
  BY <1>2 DEF Behind, Open
<1>4. /\ r = {} /\ x \in p /\ IsEscape(x) => First(T, KeyOf(x) + 1) \in p
      /\ \E N : (N \subseteq O \/ N = {}) /\ PairSets(T, N, r \cup {x}, q)
  <2>1. CASE x \in p /\ p = {x} \cup q
    <3>1. x \in p /\ p = {x} \cup q /\ Before(a, {x}, q)
      BY <2>1 DEF Popping
    <3>2. r = {} /\ IsEscape(x) => First(T, KeyOf(x) + 1) \in p
      BY <1>3, <3>1, PairTake
    <3>3. Paired(T, O, r \cup {x}, q)
      BY <1>3, <3>1, PairTake
    <3> QED  BY <3>2, <3>3 DEF Paired
  <2>2. CASE p = {} /\ q = {}
    BY <2>2, PairNone
  <2> QED  BY <1>0, <2>1, <2>2
<1>5. r = {} /\ x \in p /\ IsEscape(x) => First(T, KeyOf(x) + 1) \in p
  BY <1>4
<1>6. ReadSets(T, X, a, r \cup {x}, q, c, v)
  <2>1. /\ q \subseteq p /\ p \cup w = {x} \cup (q \cup v) /\ v \subseteq w
        /\ p \subseteq q \cup {x} /\ Before(a, {x}, q) /\ Before(a, {x}, v)
    BY DEF Popping
  <2> QED  BY <1>5, <2>1, TakeSets
<1> QED  BY <1>4, <1>6

(* The same, of the state. *)
LEMMA TookSets ==
  ASSUME Typing, NEW x \in Bytes(typed), Popped(x), KeyOf(x) # NoKey,
         ReadSets(typed, cut, ask.answered, R, P, C, W),
         \E O \in SUBSET DOMAIN typed : PairSets(typed, O, R, P),
         P' \in SUBSET Bytes(typed), W' \in SUBSET Bytes(typed), Open(R, x)
  PROVE  /\ ReadSets(typed, cut, ask.answered, R \cup {x}, P', C, W')
         /\ \E O \in SUBSET DOMAIN typed : PairSets(typed, O, R \cup {x}, P')
<1>1. /\ typed \in Seq(PlainKeys) /\ P \in SUBSET Bytes(typed)
      /\ R \in SUBSET Bytes(typed)
      /\ C \in SUBSET Bytes(typed) /\ W \in SUBSET Bytes(typed)
      /\ ask.answered \in Nat
  BY SetsAre
<1>2. PICK O \in SUBSET DOMAIN typed : PairSets(typed, O, R, P)
  OBVIOUS
<1>3. PICK q, v : q = P' /\ v = W'
  OBVIOUS
<1>4. /\ q \in SUBSET Bytes(typed) /\ v \in SUBSET Bytes(typed)
      /\ Popping(ask.answered, x, P, W, q, v)
  BY <1>3 DEF Popped
<1>5. /\ ReadSets(typed, cut, ask.answered, R \cup {x}, q, C, v)
      /\ \E N : (N \subseteq O \/ N = {}) /\ PairSets(typed, N, R \cup {x}, q)
  BY <1>1, <1>2, <1>4, TakeAll
<1>6. \E N \in SUBSET DOMAIN typed : PairSets(typed, N, R \cup {x}, q)
  BY <1>2, <1>5
<1> QED  BY <1>3, <1>5, <1>6

(* It reads on. *)
LEMMA ReadsOn ==
  ASSUME Core, ~torn', NEW x, NEW s \in Seq(Bytes(typed)), Took(x, s), KeyOf(x) # NoKey,
         Open(R, x), ToSet(s) = R \cup {x},
         \E k \in DOMAIN typed, m, n \in Places :
           ReadOn(k, m, n) /\ s = Run(typed, k, m, n)
             /\ (m > 1 => Spoilt(typed, cut, k))
  PROVE  Core'
<1>a. /\ ui \in {"draining", "loop"} /\ typed' = typed /\ wire' = wire
      /\ channel' = channel
      /\ ui' = ui /\ ask' = ask /\ held' = held /\ torn' = torn
  BY DEF Took, channel_left
<1>0. ~torn /\ Typing /\ Ordered /\ Kept /\ Gone /\ Decoded /\ (Stuck \/ InSync)
  BY <1>a DEF Core
<1>1. /\ InSync /\ Reading /\ ~Held(P \cup B \cup C \cup W, NoKey)
      /\ B = {} /\ ask.buf = <<>> /\ ask.at = "loop"
      /\ ReadSets(typed, cut, ask.answered, R, P, C, W)
  BY <1>0, <1>a, NotAsked
<1>2. /\ Popped(x) /\ (pending_input \in Seq(Bytes(typed)))'
      /\ (tty \in Seq(Bytes(typed)))'
  BY <1>0, PoppedIs
<1>3. Ordered'
  BY <1>0, TookOrder
<1>4. PICK k \in DOMAIN typed : \E m \in Places : \E n \in Places :
        ReadOn(k, m, n) /\ s = Run(typed, k, m, n) /\ (m > 1 => Spoilt(typed, cut, k))
  OBVIOUS
<1>5. PICK m \in Places, n \in Places :
        ReadOn(k, m, n) /\ s = Run(typed, k, m, n) /\ (m > 1 => Spoilt(typed, cut, k))
  BY <1>4
<1>6. /\ Decodes(typed[k], m, n, decoder'.at, decoder'.text, decoder'.acc)
      /\ decoder' = Doing(decoder'.at, Run(typed, k, m, n), decoder'.text, decoder'.acc)
      /\ out' = out /\ cut' = cut
  BY <1>5 DEF ReadOn
<1>7. decoder'.read = s
  <2>1. decoder'.read = Run(typed, k, m, n)
    <3> DEFINE at == decoder'.at
               text == decoder'.text
               acc == decoder'.acc
               d == decoder'
    <3>1. d = Doing(at, Run(typed, k, m, n), text, acc)
      BY <1>6
    <3> HIDE DEF at, text, acc, d
    <3>2. d.read = Run(typed, k, m, n)
      BY <3>1, DoingIs
    <3> QED  BY <3>2 DEF d
  <2> QED  BY <1>5, <2>1
<1>8. R' = R \cup {x} /\ C' = C /\ B' = B
  BY <1>a, <1>7 DEF R, C, B
<1>9. P' \in SUBSET Bytes(typed) /\ W' \in SUBSET Bytes(typed) /\ x \in Bytes(typed)
  <2>1. P \in SUBSET Bytes(typed) /\ W \in SUBSET Bytes(typed)
    BY <1>0, SetsAre
  <2> QED  BY <1>2, <2>1 DEF Popped, Popping, LeastOf
<1>10. /\ ReadSets(typed, cut, ask.answered, R \cup {x}, P', C, W')
       /\ \E O \in SUBSET DOMAIN typed : PairSets(typed, O, R \cup {x}, P')
  BY <1>0, <1>1, <1>2, <1>9, TookSets DEF InSync
<1>11. DecoderOK'
  BY <1>5, <1>6, <1>a DEF DecoderOK
<1>12. Typing'
  <2>1. decoder'.read \in Seq(Bytes(typed'))
    BY <1>7, <1>a
  <2> QED  BY <1>0, <1>2, <1>a, <1>6, <2>1 DEF Typing
<1>13. Kept' /\ Gone' /\ Decoded'
  <2>1. Left' = Left
    BY <1>2, <1>8 DEF Left, Popped, Popping
  <2> QED  BY <1>0, <1>a, <1>6, <2>1, NothingOut
<1>14. InSync'
  <2>1. P' \subseteq P /\ W' \subseteq W
    BY <1>2 DEF Popped, Popping
  <2>2. NoReport'
    BY <1>1, <1>8, <2>1 DEF NoReport, Held
  <2>3. Reading'
    <3>1. ask'.at = "loop" /\ ask'.buf = <<>> /\ ~ask'.sent
            /\ \A d \in C' : KeyOf(d) \in held'
      BY <1>1, <1>8, <1>a DEF Reading
    <3>2. ReadSets(typed', cut', ask'.answered, R', P', C', W')
      BY <1>10, <1>8, <1>6, <1>a
    <3>3. ui' \in {"draining", "loop"}
      BY <1>a
    <3> QED  BY <1>11, <3>1, <3>2, <3>3 DEF Reading
  <2>4. \E O \in SUBSET DOMAIN typed' : PairSets(typed', O, R', P')
    BY <1>10, <1>8, <1>a
  <2>5. ui' # "asking"
    BY <1>a
  <2> QED  BY <2>2, <2>3, <2>4, <2>5 DEF InSync
<1> QED  BY <1>3, <1>12, <1>13, <1>14 DEF Core

(* It is done. *)
LEMMA Returns ==
  ASSUME Core, ~torn', NEW x, NEW s \in Seq(Bytes(typed)), Took(x, s), KeyOf(x) # NoKey,
         Open(R, x), ToSet(s) = R \cup {x},
         Returned(s), Closed(ToSet(s))
  PROVE  Core'
<1>a. /\ ui \in {"draining", "loop"} /\ typed' = typed /\ wire' = wire
      /\ channel' = channel
      /\ ui' = ui /\ ask' = ask /\ held' = held /\ torn' = torn
  BY DEF Took, channel_left
<1>0. ~torn /\ Typing /\ Ordered /\ Kept /\ Gone /\ Decoded /\ (Stuck \/ InSync)
  BY <1>a DEF Core
<1>1. /\ InSync /\ Reading /\ ~Held(P \cup B \cup C \cup W, NoKey)
      /\ B = {} /\ ask.buf = <<>> /\ ask.at = "loop"
      /\ ReadSets(typed, cut, ask.answered, R, P, C, W)
  BY <1>0, <1>a, NotAsked
<1>2. /\ Popped(x) /\ (pending_input \in Seq(Bytes(typed)))'
      /\ (tty \in Seq(Bytes(typed)))'
  BY <1>0, PoppedIs
<1>3. Ordered'
  BY <1>0, TookOrder
<1>4. PICK key :
        /\ Return(key, s)
        /\ \A k \in DOMAIN typed :
             /\ k \in KeysOf(s) /\ ~Spoilt(typed, cut, k)
             /\ typed[k] = "Escape" => k = Len(typed)
             => key = Meaning(typed[k]) /\ s = BytesOf(Sent[typed[k]], k)
  BY DEF Returned
<1>5. /\ decoder' = Start /\ cut \subseteq cut'
      /\ Deliver(key, s) \/ (out' = out /\ KeysOf(s) \subseteq cut')
  BY <1>4 DEF Return
<1>6. R' = {} /\ C' = C /\ B' = B
  BY <1>a, <1>5, EmptySet DEF R, C, B, Start
<1>7. /\ P' \in SUBSET Bytes(typed) /\ W' \in SUBSET Bytes(typed) /\ x \in Bytes(typed)
      /\ R \in SUBSET Bytes(typed) /\ C \in SUBSET Bytes(typed)
      /\ typed \in Seq(PlainKeys) /\ ask.answered \in Nat
  <2>1. /\ P \in SUBSET Bytes(typed) /\ W \in SUBSET Bytes(typed)
        /\ R \in SUBSET Bytes(typed) /\ C \in SUBSET Bytes(typed)
        /\ typed \in Seq(PlainKeys) /\ ask.answered \in Nat
    BY <1>0, SetsAre
  <2> QED  BY <1>2, <2>1 DEF Popped, Popping, LeastOf
<1> DEFINE r == ToSet(s)
<1>8. /\ ReadSets(typed, cut, ask.answered, r, P', C, W')
      /\ \E O \in SUBSET DOMAIN typed : PairSets(typed, O, r, P')
      /\ r \in SUBSET Bytes(typed)
  <2>1. /\ ReadSets(typed, cut, ask.answered, R \cup {x}, P', C, W')
        /\ \E O \in SUBSET DOMAIN typed : PairSets(typed, O, R \cup {x}, P')
    BY <1>0, <1>1, <1>2, <1>7, TookSets DEF InSync
  <2> QED  BY <1>7, <2>1
<1>9. \A b \in r : KeyOf(b) # NoKey
  <2>1. \A b \in R : KeyOf(b) # NoKey
    BY <1>0, <1>1, ReadIs DEF Reading
  <2> QED  BY <2>1
<1>10. /\ Kept' /\ Gone' /\ Decoded'
       /\ (out \in Seq(ToSet(out)))'
       /\ (\A i \in DOMAIN out : out[i].from \in Seq(Bytes(typed)))'
  <2>0. PICK Q : Q = P' \cup W'
    OBVIOUS
  <2>1. Left = ToSet(s) \cup C \cup Q /\ Left' = C \cup Q
    <3>1. P \cup W = {x} \cup (P' \cup W')
      BY <1>2 DEF Popped, Popping
    <3> QED  BY <1>1, <1>6, <2>0, <3>1 DEF Left
  <2>2. Q \in SUBSET Bytes(typed)
    BY <1>7, <2>0
  <2>3. \A b \in Q : KeyOf(b) # NoKey
    BY <1>1, <1>2, <2>0 DEF Popped, Popping, Held
  <2>4. \A d \in C : KeyOf(d) \in held
    BY <1>1 DEF Reading
  <2>5. (\A d \in C, b \in ToSet(s) : KeyOf(d) # KeyOf(b))
          /\ Before(ask.answered, ToSet(s), Q)
    BY <1>8, <2>0 DEF ReadSets, Before
  <2>6. ASSUME NEW k \in DOMAIN typed, k \in KeysOf(s), Untouched(k)'
        PROVE  key = Meaning(typed[k]) /\ s = BytesOf(Sent[typed[k]], k)
    <3>1. /\ k \notin cut' /\ (k > 1 => typed[k - 1] # "Escape")
          /\ typed[k] = "Escape" => k = Len(typed)
      BY <1>a, <2>6 DEF Untouched
    <3>2. ~Spoilt(typed, cut, k)
      BY <1>5, <3>1 DEF Spoilt
    <3> QED  BY <1>4, <2>6, <3>1, <3>2
  <2>7. \A b \in ToSet(s) : KeyOf(b) # NoKey
    BY <1>9
  <2>8. cut \subseteq cut'
          /\ (Deliver(key, s) \/ (out' = out /\ KeysOf(s) \subseteq cut'))
    BY <1>5
  <2>9. typed' = typed /\ held' = held
    BY <1>a
  <2>10. Outcome(key, s, Q)
    BY <2>1, <2>3, <2>4, <2>5, <2>6, <2>7, <2>8 DEF Outcome
  <2> QED  BY <1>0, <2>2, <2>8, <2>9, <2>10, Done
<1>11. Typing'
  <2>1. decoder'.read = <<>>
    BY <1>5 DEF Start
  <2>2. decoder'.read \in Seq(Bytes(typed'))
    BY <2>1
  <2> QED  BY <1>0, <1>2, <1>a, <1>10, <2>2 DEF Typing
<1>12. InSync'
  <2>1. ~Held(P' \cup C' \cup W', NoKey)
    BY <1>1, <1>2, <1>6 DEF Held, Popped, Popping
  <2>2. \E O \in SUBSET DOMAIN typed : PairSets(typed, O, {}, P')
    <3>1. PICK O \in SUBSET DOMAIN typed : PairSets(typed, O, r, P')
      BY <1>8
    <3>2. \A c \in Alone(r) : ~IsEscape(c)
      BY DEF Closed
    <3> QED  BY <3>1, <3>2, PairDrop
  <2>3. ReadSets(typed, cut', ask.answered, {}, P', C, W')
    <3>1. \A b \in r : Ends(b) \/ After(typed, b) \in r \/ Spoilt(typed, cut', KeyOf(b))
      BY <1>5, MoreSpoilt DEF Closed
    <3> DEFINE q == P'
               v == W'
               Y == cut'
    <3>2. /\ q \in SUBSET Bytes(typed) /\ v \in SUBSET Bytes(typed) /\ cut \subseteq Y
          /\ ReadSets(typed, cut, ask.answered, r, q, C, v)
          /\ \A b \in r : Ends(b) \/ After(typed, b) \in r \/ Spoilt(typed, Y, KeyOf(b))
      BY <1>5, <1>7, <1>8, <3>1
    <3> HIDE DEF r, q, v, Y
    <3>3. ReadSets(typed, Y, ask.answered, {}, q, C, v)
      BY <1>7, <1>8, <3>2, DropSets
    <3> QED  BY <3>3 DEF q, v, Y
  <2>4. ui' # "asking"
    BY <1>a
  <2> QED  BY <1>1, <1>a, <1>5, <1>6, <2>1, <2>2, <2>3, <2>4, AtStart
<1> QED  BY <1>3, <1>10, <1>11, <1>12 DEF Core

(* At the start nothing has been read. *)
LEMMA EmptyDoing ==
  ASSUME decoder = Start
  PROVE  decoder.read = <<>> /\ R = {}
<1>1. decoder.read = <<>>
  BY DEF Start
<1> QED  BY <1>1, EmptySet DEF R

(* Only a lone ESC is whole and yet waits for a byte. *)
LEMMA WholeRow ==
  ASSUME typed \in Seq(PlainKeys), NEW k \in 1..Len(typed), NEW m \in Places,
         NEW n \in Places,
         NEW at, NEW text, NEW acc, Decodes(typed[k], m, n, at, text, acc),
         n = Size(typed, k)
  PROVE  typed[k] = "Escape" /\ m = 1 /\ n = 1 /\ at = "esc" /\ text = <<>>
           /\ acc = <<>>
<1> DEFINE kind == typed[k]
<1>1. n = Len(Sent[kind])
  BY DEF Size, CharsOf, NoKey
<1>2. Decodes(kind, m, n, at, text, acc)
  OBVIOUS
<1> HIDE DEF kind
<1>3. /\ Len(Sent["Escape"]) = 1 /\ Len(Sent["NextWord"]) = 2 /\ Len(Sent["Up"]) = 3
      /\ Len(Sent["AppUp"]) = 3 /\ Len(Sent["Delete"]) = 4 /\ Len(Sent["Paste"]) = 10
      /\ Len(Sent["Wide"]) = 2
  BY Letters, Zenon
<1>4. /\ kind = "Escape" => n = 1
      /\ kind = "NextWord" => n = 2
      /\ kind = "Up" => n = 3
      /\ kind = "AppUp" => n = 3
      /\ kind = "Delete" => n = 4
      /\ kind = "Paste" => n = 10
      /\ kind = "Wide" => n = 2
  BY <1>1, <1>3, Zenon
<1>5. /\ at \in {"utf8", "esc", "csi", "ss3", "paste", "check_end"}
      /\ at \in {"utf8", "esc", "csi", "ss3"} => text = <<>> /\ acc = <<>>
  BY <1>2, Rows
<1>6. at # "utf8" /\ at # "ss3" /\ at # "paste" /\ at # "check_end"
  BY <1>2, <1>4, Rows
<1>7. at # "csi"
  BY <1>2, <1>4, Rows
<1>8. at = "esc"
  BY <1>5, <1>6, <1>7
<1>9. kind = "Escape" /\ m = 1 /\ n = 1
  BY <1>2, <1>4, <1>8, Rows
<1> QED  BY <1>5, <1>8, <1>9 DEF kind

(* read_byte keeps the invariant. *)
LEMMA ReadByteStep ==
  ASSUME Core, read_byte, ~torn'
  PROVE  Core'
<1>1. PICK x \in NextByte : Took(x, Append(decoder.read, x))
  BY DEF read_byte, Took, Decode
<1>2. PICK s : s = Append(decoder.read, x) /\ Took(x, s)
  BY <1>1
<1>a. /\ ui \in {"draining", "loop"} /\ torn' = torn /\ Decode(x, s) /\ ui # "asking"
  BY <1>2 DEF Took, channel_left
<1>0. ~torn /\ Typing /\ Ordered /\ Kept /\ Gone /\ Decoded /\ (Stuck \/ InSync)
  BY <1>a DEF Core
<1>3. /\ InSync /\ Reading /\ ~Held(P \cup B \cup C \cup W, NoKey)
      /\ ReadSets(typed, cut, ask.answered, R, P, C, W)
  BY <1>0, <1>a, NotAsked
<1>4. Popped(x)
  BY <1>0, <1>2, PoppedIs
<1>5. /\ typed \in Seq(PlainKeys) /\ P \in SUBSET Bytes(typed)
      /\ R \in SUBSET Bytes(typed)
      /\ C \in SUBSET Bytes(typed) /\ W \in SUBSET Bytes(typed)
      /\ ask.answered \in Nat /\ DOMAIN typed = 1..Len(typed) /\ Len(typed) \in Nat
  BY <1>0, SetsAre
<1>6. LeastOf(ask.answered, x, P \cup W)
  BY <1>4 DEF Popped, Popping
<1>7. x \in Bytes(typed) /\ KeyOf(x) # NoKey
  BY <1>3, <1>5, <1>6 DEF LeastOf, Held
<1>8. Follows(typed, cut, R, x)
  BY <1>3, <1>5, <1>6, NextRead
<1>9. s \in Seq(Bytes(typed)) /\ ToSet(s) = R \cup {x}
  <2>1. decoder.read \in Seq(Bytes(typed))
    BY <1>0 DEF Typing
  <2> QED  BY <1>2, <1>7, <2>1, AppendSet DEF R
<1>10. Open(R, x) /\ (\/ \E k \in DOMAIN typed, m, n \in Places :
                           /\ ReadOn(k, m, n) /\ s = Run(typed, k, m, n)
                           /\ m > 1 => Spoilt(typed, cut, k)
                      \/ Returned(s) /\ Closed(ToSet(s)))
  <2>1. CASE decoder = Start
    <3>1. decoder.read = <<>> /\ R = {}
      BY <2>1, EmptyDoing
    <3>2. s = <<x>>
      BY <1>2, <3>1
    <3>3. Nth(x) = 1 \/ Spoilt(typed, cut, KeyOf(x))
      BY <1>8, <3>1 DEF Follows
    <3>4. \/ \E k \in DOMAIN typed, m, n \in Places :
               ReadOn(k, m, n) /\ s = Run(typed, k, m, n)
                 /\ (m > 1 => Spoilt(typed, cut, k))
          \/ Returned(s) /\ Closed({x})
      BY <1>5, <1>7, <1>a, <2>1, <3>2, <3>3, TakeFirst
    <3>5. ToSet(s) = {x}
      BY <1>9, <3>1
    <3>6. Open(R, x)
      BY <3>1 DEF Open
    <3> QED  BY <3>4, <3>5, <3>6
  <2>2. CASE decoder # Start
    <3>1. PICK k \in DOMAIN typed : \E m \in Places : \E n \in Places :
            /\ Decodes(typed[k], m, n, decoder.at, decoder.text, decoder.acc)
            /\ decoder = Doing(decoder.at, Run(typed, k, m, n), decoder.text,
                 decoder.acc)
            /\ decoder.read = Run(typed, k, m, n)
            /\ m > 1 => Spoilt(typed, cut, k)
            /\ m <= n /\ n <= Size(typed, k) /\ k \in 0..Len(typed)
            /\ \A b \in R : KeyOf(b) = k
      BY <1>0, <1>3, <2>2, ReadIs DEF Reading
    <3>2. PICK m \in Places, n \in Places :
            /\ Decodes(typed[k], m, n, decoder.at, decoder.text, decoder.acc)
            /\ decoder = Doing(decoder.at, Run(typed, k, m, n), decoder.text,
                 decoder.acc)
            /\ decoder.read = Run(typed, k, m, n)
            /\ m > 1 => Spoilt(typed, cut, k)
            /\ m <= n /\ n <= Size(typed, k) /\ k \in 0..Len(typed)
            /\ \A b \in R : KeyOf(b) = k
      BY <3>1
    <3>3. /\ m \in Nat /\ n \in Nat /\ 1 <= m /\ k \in 1..Len(typed)
          /\ Size(typed, k) \in Nat
      <4>1. Size(typed, k) \in 1..10
        BY <1>5, <3>2, Sizes
      <4> QED  BY <1>5, <4>1 DEF Places
    <3>4. R = ToSet(Run(typed, k, m, n)) /\ Byte(typed, k, n) \in R
      <4>1. R = ToSet(Run(typed, k, m, n))
        BY <3>2 DEF R
      <4>2. Byte(typed, k, n) \in ToSet(Run(typed, k, m, n))
        BY <1>5, <3>2, <3>3, RunIs
      <4> QED  BY <4>1, <4>2
    <3>5. CASE n < Size(typed, k)
      <4>1. /\ After(typed, Byte(typed, k, n)) = Byte(typed, k, n + 1)
            /\ ~Ends(Byte(typed, k, n))
            /\ After(typed, Byte(typed, k, n)) \notin ToSet(Run(typed, k, m, n))
            /\ Append(Run(typed, k, m, n), Byte(typed, k, n + 1)) = Run(typed, k, m,
                 n + 1)
        BY <1>5, <3>2, <3>3, <3>5, RunGrows
      <4>2. x = Byte(typed, k, n + 1)
        BY <1>8, <3>4, <4>1 DEF Follows
      <4>3. s = Run(typed, k, m, n + 1) /\ Decode(Byte(typed, k, n + 1), s)
        BY <1>2, <1>a, <3>2, <4>1, <4>2
      <4>4. \/ \E l \in DOMAIN typed, i, j \in Places :
                 ReadOn(l, i, j) /\ s = Run(typed, l, i, j)
                   /\ (i > 1 => Spoilt(typed, cut, l))
            \/ Returned(s) /\ Closed(ToSet(s))
        BY <1>5, <3>2, <3>3, <3>5, <4>3, TakeNext
      <4>5. ~IsEscape(x)
        <5> SUFFICES ASSUME IsEscape(x) PROVE FALSE
          OBVIOUS
        <5>1. Nth(x) = 1
          BY <1>5, <1>7, EscapeIs
        <5>2. Nth(x) = n + 1
          BY <4>2, ByteFields
        <5> QED  BY <3>2, <3>3, <5>1, <5>2
      <4>6. Open(R, x)
        BY <4>5 DEF Open
      <4> QED  BY <4>4, <4>6
    <3>6. CASE n = Size(typed, k)
      <4>1. /\ typed[k] = "Escape" /\ m = 1 /\ n = 1 /\ decoder.at = "esc"
            /\ decoder.text = <<>> /\ decoder.acc = <<>>
        BY <1>5, <3>2, <3>3, <3>6, WholeRow
      <4>2. IsEscape(First(typed, k)) /\ KeyOf(First(typed, k)) = k
        BY <1>5, <3>2, <3>3, <4>1, EscapeByte, FirstIs
      <4>3. R = {First(typed, k)}
        <5>1. ASSUME NEW b \in R PROVE b = First(typed, k)
          <6>1. b \in Bytes(typed) /\ KeyOf(b) = k /\ Nth(b) >= 1 /\ Nth(b) <= 1
            BY <1>5, <3>2, <3>3, <3>4, <4>1, RunIs
          <6>2. Nth(b) = 1
            BY <1>5, <6>1, Ranks
          <6> QED  BY <1>5, <6>1, <6>2, FirstByte
        <5> QED  BY <3>4, <4>1, <5>1 DEF First
      <4>4. First(typed, k) \in Alone(R)
        BY <4>3 DEF Alone
      <4>5. k < Len(typed) /\ x = First(typed, k + 1)
        BY <1>7, <1>8, <4>2, <4>4 DEF Follows
      <4>6. Open(R, x)
        BY <4>2, <4>4 DEF Open
      <4>7. ToSet(s) = {First(typed, k), First(typed, k + 1)}
              /\ Decode(First(typed, k + 1), s)
        BY <1>9, <1>a, <4>3, <4>5
      <4>8. decoder = Doing("esc", Run(typed, k, m, n), <<>>, <<>>)
        BY <3>2, <4>1
      <4>9. Returned(s) /\ Closed(ToSet(s))
        <5>1. Apart(typed)
          BY <1>0 DEF Typing
        <5> QED  BY <1>5, <1>9, <3>3, <4>1, <4>5, <4>7, <4>8, <5>1, TakeEscaped
      <4> QED  BY <4>6, <4>9
    <3> QED  BY <3>2, <3>3, <3>5, <3>6
  <2> QED  BY <2>1, <2>2
<1>11. CASE Returned(s) /\ Closed(ToSet(s))
  BY <1>2, <1>7, <1>9, <1>10, <1>11, Returns
<1>12. CASE \E k \in DOMAIN typed, m, n \in Places :
              ReadOn(k, m, n) /\ s = Run(typed, k, m, n)
                /\ (m > 1 => Spoilt(typed, cut, k))
  BY <1>2, <1>7, <1>9, <1>10, <1>12, ReadsOn
<1> QED  BY <1>10, <1>11, <1>12

-----------------------------------------------------------------------------
(* get_cursor_position takes a byte *)

(* The byte x is the first of the channel, and s is collected with it. *)
Shift(x, s) ==
  /\ ui = "asking" /\ channel # <<>>
  /\ x = Head(channel) /\ s = Append(ask.buf, x)
  /\ channel' = Tail(channel)
  /\ UNCHANGED <<typed, wire, tty, decoder, out, cut>>

(* The invariant, but for who reads. *)
Base == Typing /\ Ordered /\ Kept /\ Gone /\ Decoded

(* The byte is the first of all that is to be read. *)
LEMMA ShiftIs ==
  ASSUME Typing, Ordered, NEW x, NEW s, Shift(x, s)
  PROVE  /\ x \in Bytes(typed) /\ x \in C /\ C = {x} \cup C'
         /\ C' \in SUBSET Bytes(typed) /\ (channel \in Seq(Bytes(typed)))'
         /\ s \in Seq(Bytes(typed)) /\ s # <<>> /\ ToSet(s) = B \cup {x}
         /\ W' = W /\ R' = R
         /\ Sorted(ask.answered, s) /\ Sorted(ask.answered, channel')
         /\ Before(ask.answered, {x}, C') /\ Before(ask.answered, {x}, W)
         /\ Before(ask.answered, P, ToSet(s)) /\ Before(ask.answered, ToSet(s), C')
         /\ Before(ask.answered, ToSet(s), W)
         /\ Before(ask.answered, P, C') /\ Before(ask.answered, C', W)
         /\ LeastOf(ask.answered, x, C \cup W)
<1> DEFINE a == ask.answered
<1>1. /\ channel \in Seq(Bytes(typed)) /\ ask.buf \in Seq(Bytes(typed))
      /\ Sorted(a, channel) /\ Sorted(a, ask.buf)
      /\ Before(a, P, B) /\ Before(a, P, C) /\ Before(a, B, C) /\ Before(a, B, W)
      /\ Before(a, C, W)
  BY DEF Typing, Ordered
<1>2. /\ channel # <<>> /\ x = Head(channel) /\ s = Append(ask.buf, x)
      /\ channel' = Tail(channel)
      /\ typed' = typed /\ wire' = wire /\ tty' = tty /\ decoder' = decoder
  BY DEF Shift
<1> HIDE DEF a
<1>3. /\ Tail(channel) \in Seq(Bytes(typed)) /\ x \in Bytes(typed) /\ x \in C
      /\ C = {x} \cup ToSet(Tail(channel))
  BY <1>1, <1>2, TailSet DEF C
<1>4. C' = ToSet(Tail(channel)) /\ W' = W /\ R' = R
  BY <1>2 DEF C, W, R
<1>5. Sorted(a, Tail(channel)) /\ Before(a, {x}, ToSet(Tail(channel)))
  BY <1>1, <1>2, SortedTail
<1>6. s \in Seq(Bytes(typed)) /\ s # <<>> /\ ToSet(s) = B \cup {x}
  BY <1>1, <1>2, <1>3, AppendSet, SMTT(30) DEF B
<1>7. C = {x} \cup C' /\ C' \in SUBSET Bytes(typed) /\ Sorted(a, channel')
        /\ Before(a, {x}, C')
      /\ (channel \in Seq(Bytes(typed)))'
  <2>1. ToSet(Tail(channel)) \in SUBSET Bytes(typed)
    BY <1>3, SetOf
  <2> QED  BY <1>2, <1>3, <1>4, <1>5, <2>1
<1>8. Sorted(a, s)
  <2>1. Before(a, ToSet(ask.buf), {x})
    BY <1>1, <1>3 DEF Before, B
  <2> QED  BY <1>1, <1>2, <1>3, <2>1, SortedAppend
<1>9. /\ Before(a, {x}, W) /\ Before(a, P, ToSet(s)) /\ Before(a, ToSet(s), C')
      /\ Before(a, ToSet(s), W) /\ Before(a, P, C') /\ Before(a, C', W)
  <2>1. Before(a, {x}, W) /\ Before(a, P, {x}) /\ Before(a, B, C') /\ Before(a, P, C')
          /\ Before(a, C', W)
    BY <1>1, <1>7 DEF Before
  <2> QED  BY <1>1, <1>6, <1>7, <2>1 DEF Before
<1>10. LeastOf(a, x, C \cup W)
  BY <1>3, <1>7, <1>9 DEF LeastOf, Before
<1> QED  BY <1>3, <1>4, <1>6, <1>7, <1>8, <1>9, <1>10 DEF a

(* s is kept. *)
LEMMA CollectBase ==
  ASSUME ~torn, Base, NEW x, NEW s, Shift(x, s), NEW at \in {"loop", "esc", "csi"},
         Collect(at, s)
  PROVE  /\ Base' /\ P' = P /\ B' = B \cup {x} /\ W' = W /\ R' = R
         /\ ask'.at = at /\ ask'.buf = s /\ ask'.sent = ask.sent
         /\ ask'.answered = ask.answered
         /\ ui' = ui /\ held' = held /\ torn' = torn
<1>0. Typing /\ Ordered /\ Kept /\ Gone /\ Decoded
  BY DEF Base
<1>1. /\ x \in Bytes(typed) /\ x \in C /\ C = {x} \cup C'
      /\ (channel \in Seq(Bytes(typed)))'
      /\ s \in Seq(Bytes(typed)) /\ s # <<>> /\ ToSet(s) = B \cup {x}
      /\ W' = W /\ R' = R
      /\ Sorted(ask.answered, s) /\ Sorted(ask.answered, channel')
      /\ Before(ask.answered, P, ToSet(s)) /\ Before(ask.answered, ToSet(s), C')
      /\ Before(ask.answered, ToSet(s), W)
      /\ Before(ask.answered, P, C') /\ Before(ask.answered, C', W)
  BY <1>0, ShiftIs
<1>2. /\ typed' = typed /\ wire' = wire /\ tty' = tty /\ decoder' = decoder
      /\ out' = out /\ cut' = cut
  BY DEF Shift
<1>3. /\ ask' = [ask EXCEPT !.at = at, !.buf = s]
      /\ pending_input' = pending_input /\ ui' = ui /\ held' = held /\ torn' = torn
  BY DEF Collect, channel_left
<1>4. ask \in [at : {"loop", "esc", "csi"}, buf : Seq(Bytes(typed)), times : Nat,
               sent : BOOLEAN, answered : 0..Len(typed)]
  BY <1>0 DEF Typing
<1>5. /\ ask'.at = at /\ ask'.buf = s /\ ask'.sent = ask.sent
      /\ ask'.answered = ask.answered
      /\ ask' \in [at : {"loop", "esc", "csi"}, buf : Seq(Bytes(typed)), times : Nat,
                   sent : BOOLEAN, answered : 0..Len(typed)]
  BY <1>1, <1>3, <1>4
<1>6. P' = P /\ B' = ToSet(s)
  BY <1>3, <1>5 DEF P, B
<1>7. Typing'
  BY <1>0, <1>1, <1>2, <1>3, <1>5 DEF Typing
<1>8. Ordered'
  BY <1>0, <1>1, <1>2, <1>3, <1>5, <1>6 DEF Ordered
<1>9. Kept' /\ Gone' /\ Decoded'
  <2>1. Left' = Left
    BY <1>1, <1>6 DEF Left
  <2> QED  BY <1>0, <1>2, <1>3, <2>1, NothingOut
<1> QED  BY <1>1, <1>3, <1>5, <1>6, <1>7, <1>8, <1>9 DEF Base

(* s is put aside. *)
LEMMA EnqueueBase ==
  ASSUME ~torn, Base, NEW x, NEW s, Shift(x, s), enqueue_pending(s)
  PROVE  /\ Base' /\ P' = P \cup (B \cup {x}) /\ B' = {} /\ W' = W /\ R' = R
         /\ ask'.at = "loop" /\ ask'.buf = <<>> /\ ask'.sent = ask.sent
         /\ ask'.answered = ask.answered
         /\ ui' = ui /\ held' = held /\ torn' = torn
         /\ Before(ask.answered, P', C' \cup W')
<1>0. Typing /\ Ordered /\ Kept /\ Gone /\ Decoded
  BY DEF Base
<1>1. /\ x \in Bytes(typed) /\ x \in C /\ C = {x} \cup C'
      /\ (channel \in Seq(Bytes(typed)))'
      /\ s \in Seq(Bytes(typed)) /\ ToSet(s) = B \cup {x}
      /\ W' = W /\ R' = R
      /\ Sorted(ask.answered, s) /\ Sorted(ask.answered, channel')
      /\ Before(ask.answered, P, ToSet(s)) /\ Before(ask.answered, ToSet(s), C')
      /\ Before(ask.answered, ToSet(s), W)
      /\ Before(ask.answered, P, C') /\ Before(ask.answered, C', W)
  BY <1>0, ShiftIs
<1>2. /\ typed' = typed /\ wire' = wire /\ tty' = tty /\ decoder' = decoder
      /\ out' = out /\ cut' = cut
  BY DEF Shift
<1>3. /\ ask' = [ask EXCEPT !.at = "loop", !.buf = <<>>]
      /\ pending_input' = pending_input \o s /\ ui' = ui /\ held' = held /\ torn' = torn
  BY DEF enqueue_pending, channel_left
<1>4. ask \in [at : {"loop", "esc", "csi"}, buf : Seq(Bytes(typed)), times : Nat,
               sent : BOOLEAN, answered : 0..Len(typed)]
      /\ pending_input \in Seq(Bytes(typed)) /\ Sorted(ask.answered, pending_input)
  BY <1>0 DEF Typing, Ordered
<1>5. /\ ask'.at = "loop" /\ ask'.buf = <<>> /\ ask'.sent = ask.sent
      /\ ask'.answered = ask.answered
      /\ ask' \in [at : {"loop", "esc", "csi"}, buf : Seq(Bytes(typed)), times : Nat,
                   sent : BOOLEAN, answered : 0..Len(typed)]
  <2> DEFINE e == <<>>
  <2>1. e \in Seq(Bytes(typed)) /\ ask' = [ask EXCEPT !.at = "loop", !.buf = e]
    BY <1>3
  <2> HIDE DEF e
  <2>2. /\ ask'.at = "loop" /\ ask'.buf = e /\ ask'.sent = ask.sent
        /\ ask'.answered = ask.answered
        /\ ask' \in [at : {"loop", "esc", "csi"}, buf : Seq(Bytes(typed)), times : Nat,
                     sent : BOOLEAN, answered : 0..Len(typed)]
    BY <1>4, <2>1
  <2> QED  BY <2>2 DEF e
<1>6. B' = {} /\ pending_input' \in Seq(Bytes(typed)) /\ P' = P \cup ToSet(s)
  BY <1>1, <1>3, <1>4, <1>5, ConcatSet, EmptySet DEF P, B
<1>7. Sorted(ask.answered, pending_input')
  <2>1. Before(ask.answered, ToSet(pending_input), ToSet(s))
    BY <1>1 DEF P
  <2> QED  BY <1>1, <1>3, <1>4, <2>1, SortedConcat
<1>8. Before(ask.answered, P', C') /\ Before(ask.answered, P', W)
        /\ Before(ask.answered, P', {})
      /\ Before(ask.answered, {}, C') /\ Before(ask.answered, {}, W)
      /\ Before(ask.answered, P', C' \cup W)
  <2>1. Before(ask.answered, P, W)
    BY <1>0 DEF Ordered
  <2> QED  BY <1>1, <1>6, <2>1 DEF Before
<1>9. Typing'
  BY <1>0, <1>1, <1>2, <1>3, <1>5, <1>6 DEF Typing
<1>10. Ordered'
  <2>1. Sorted(ask'.answered, ask'.buf)
    BY <1>5, SortedEmpty
  <2> QED  BY <1>0, <1>1, <1>2, <1>5, <1>6, <1>7, <1>8, <2>1 DEF Ordered
<1>11. Kept' /\ Gone' /\ Decoded'
  <2>1. Left' = Left
    BY <1>1, <1>6 DEF Left
  <2> QED  BY <1>0, <1>2, <1>3, <2>1, NothingOut
<1> QED  BY <1>1, <1>3, <1>5, <1>6, <1>8, <1>9, <1>10, <1>11 DEF Base

(* Once the report was put aside, the question stays without an answer. *)
LEMMA ReportBehind ==
  ASSUME NEW T \in Seq(PlainKeys), NEW a \in Nat, NEW S \in SUBSET Bytes(T),
         NEW p \in SUBSET Bytes(T),
         NEW x, LeastOf(a, x, S), KeyOf(x) # NoKey, Before(a, p, {x}),
         First(T, NoKey) \in p,
         \A b \in p \cup S : KeyOf(b) = NoKey /\ ~Ends(b) => After(T, b) \in p \cup S
  PROVE  Byte(T, NoKey, 4) \in p
<1>1. x \in S /\ x \in Bytes(T) /\ \A e \in S : e = x \/ Rank(a, x) < Rank(a, e)
  BY DEF LeastOf
<1>2. 0 \in 0..Len(T) /\ NoKey \in 0..Len(T)
  BY DEF NoKey
<1>3. Size(T, NoKey) = 4
  BY <1>2, Sizes
<1> DEFINE y(n) == Byte(T, NoKey, n)
<1>4. \A n : KeyOf(y(n)) = NoKey /\ Nth(y(n)) = n /\ (Ends(y(n)) <=> n = 4)
  BY <1>3, ByteFields
<1>5. \A n \in 1..4 : y(n) \in Bytes(T)
  BY <1>2, <1>3, IsByte
<1> HIDE DEF y
<1>6. \A n \in 1..4 : Rank(a, y(n)) = (32 * a + 16) + n
  <2> SUFFICES ASSUME NEW n \in 1..4 PROVE Rank(a, y(n)) = (32 * a + 16) + n
    OBVIOUS
  <2>1. y(n) \in Bytes(T) /\ KeyOf(y(n)) = NoKey /\ Nth(y(n)) = n
    BY <1>4, <1>5
  <2> QED  BY <2>1, Ranks
<1>7. Rank(a, x) = 32 * KeyOf(x) + Nth(x) /\ KeyOf(x) \in Nat /\ Nth(x) \in Nat
      /\ 1 <= Nth(x) /\ Nth(x) <= 10
  BY <1>1, Ranks
<1>8. y(1) \in p
  BY DEF y, First
<1>9. Rank(a, y(1)) < Rank(a, x)
  BY <1>8 DEF Before
<1>10. KeyOf(x) > a
  <2>1. Rank(a, y(1)) = (32 * a + 16) + 1
    BY <1>6
  <2> QED  BY <1>7, <1>9, <2>1
<1>11. \A n \in 1..4 : Rank(a, y(n)) < Rank(a, x)
  BY <1>6, <1>7, <1>10, SMTT(30)
<1>12. ASSUME NEW n \in 1..3, y(n) \in p PROVE y(n + 1) \in p
  <2>1. n # 4 /\ n + 1 \in 1..4 /\ n \in 1..4
    OBVIOUS
  <2>2. After(T, y(n)) = y(n + 1)
    BY <1>4 DEF After, y
  <2>3. y(n + 1) \in p \cup S
    BY <1>4, <1>12, <2>1, <2>2
  <2>4. Rank(a, y(n + 1)) < Rank(a, x) /\ Rank(a, y(n + 1)) \in Nat
          /\ Rank(a, x) \in Nat
    BY <1>1, <1>5, <1>11, <2>1, Ranks
  <2>5. y(n + 1) \notin S
    BY <1>1, <2>4
  <2> QED  BY <2>3, <2>5
<1>13. y(2) \in p
  <2>1. 1 \in 1..3 /\ 1 + 1 = 2
    OBVIOUS
  <2> QED  BY <1>8, <1>12, <2>1
<1>14. y(3) \in p
  <2>1. 2 \in 1..3 /\ 2 + 1 = 3
    OBVIOUS
  <2> QED  BY <1>13, <1>12, <2>1
<1>15. y(4) \in p
  <2>1. 3 \in 1..3 /\ 3 + 1 = 4
    OBVIOUS
  <2> QED  BY <1>14, <1>12, <2>1
<1> QED  BY <1>15 DEF y

(* Behind the report's end there is none of it. *)
LEMMA ReportOver ==
  ASSUME NEW T \in Seq(PlainKeys), NEW a \in Nat, NEW y, y = Byte(T, NoKey, 4),
         NEW x \in Bytes(T), Rank(a, y) < Rank(a, x)
  PROVE  KeyOf(x) # NoKey
<1>1. NoKey \in 0..Len(T)
  BY DEF NoKey
<1>2. Size(T, NoKey) = 4
  BY <1>1, Sizes
<1>3. KeyOf(y) = NoKey /\ Nth(y) = 4
  BY ByteFields
<1>4. y \in Bytes(T)
  BY <1>1, <1>2, IsByte
<1>5. Rank(a, y) = (32 * a + 16) + 4
  BY <1>3, <1>4, Ranks
<1> SUFFICES ASSUME KeyOf(x) = NoKey PROVE FALSE
  OBVIOUS
<1>6. Nth(x) \in Nat /\ Nth(x) <= 4
  BY <1>2, ByteIs
<1>7. Rank(a, x) = (32 * a + 16) + Nth(x)
  BY Ranks
<1> QED  BY <1>5, <1>6, <1>7

(* What the report sends, no key does. *)
LEMMA RowLetter ==
  ASSUME NEW T \in Seq(PlainKeys), NEW b \in Bytes(T), Letter(b) = Report[3]
  PROVE  KeyOf(b) = NoKey
<1> SUFFICES ASSUME KeyOf(b) # NoKey PROVE FALSE
  OBVIOUS
<1> DEFINE k == KeyOf(b)
           j == Nth(b)
<1>0. CharsOf(T, k)[j] = Report[3]
  BY ByteIs
<1>1. k \in 0..Len(T) /\ j \in 1..Size(T, k) /\ k # NoKey /\ Size(T, k) \in Nat
  BY ByteIs
<1> HIDE DEF k, j
<1>2. k \in 1..Len(T) /\ T[k] \in PlainKeys
  <2>1. k # 0
    BY <1>1 DEF NoKey
  <2>2. k \in 1..Len(T)
    BY <1>1, <2>1
  <2> QED  BY <2>2
<1> DEFINE kind == T[k]
<1>3. CharsOf(T, k) = Sent[kind] /\ Size(T, k) = Len(Sent[kind])
  BY <1>1 DEF CharsOf, Size
<1>4. Sent[kind][j] = Report[3] /\ kind \in PlainKeys
  BY <1>0, <1>2, <1>3
<1>5. j \in Nat /\ (j = 1 \/ 1 < j) /\ j <= Len(Sent[kind])
  <2>1. j \in Nat /\ (j = 1 \/ 1 < j) /\ j <= Size(T, k)
    BY <1>1
  <2> QED  BY <1>3, <2>1
<1> HIDE DEF kind
<1>a. Report[3] = "row;col"
  BY Letters, Zenon
<1>6. CASE j = 1
  <2>1. Sent[kind][1] \in {"CR", "lead", "ESC", "[", "O"}
    BY <1>4, FirstLetters
  <2> QED  BY <1>4, <1>6, <1>a, <2>1, Zenon
<1>7. CASE 1 < j
  <2>1. Sent[kind][j] \notin {"CR", "lead", "row;col"}
    BY <1>4, <1>5, <1>7, LaterLetters, Zenon
  <2> QED  BY <1>4, <1>a, <2>1, Zenon
<1> QED  BY <1>5, <1>6, <1>7

(* No byte ends a question whose answer was put aside. *)
LEMMA StuckShift ==
  ASSUME ~torn, Base, Stuck, NEW x, NEW s, Shift(x, s), loop(x, s), ~torn'
  PROVE  Base' /\ Stuck'
<1>0. Typing /\ Ordered
  BY DEF Base
<1>1. /\ ui = "asking" /\ ~ask.sent /\ decoder = Start
      /\ First(typed, NoKey) \in P
      /\ ~Held(B, NoKey)
      /\ ask.at = "loop" \/ ask.buf # <<>>
      /\ ask.buf = <<>> \/ Byte(typed, NoKey, 4) \in P
      /\ \A b \in P \cup C \cup W :
           KeyOf(b) = NoKey /\ ~Ends(b) => After(typed, b) \in P \cup C \cup W
  BY DEF Stuck
<1>2. /\ x \in Bytes(typed) /\ x \in C /\ C = {x} \cup C'
      /\ s \in Seq(Bytes(typed)) /\ ToSet(s) = B \cup {x} /\ s # <<>>
      /\ Before(ask.answered, P, ToSet(s)) /\ LeastOf(ask.answered, x, C \cup W)
  BY <1>0, ShiftIs
<1>3. /\ typed \in Seq(PlainKeys) /\ P \in SUBSET Bytes(typed)
      /\ C \in SUBSET Bytes(typed) /\ W \in SUBSET Bytes(typed)
      /\ ask.answered \in Nat /\ ask.buf \in Seq(Bytes(typed))
      /\ ask.at \in {"loop", "esc", "csi"}
  BY <1>0, SetsAre
<1>4. typed' = typed /\ decoder' = decoder /\ s = Append(ask.buf, x)
  BY DEF Shift
<1>5. Before(ask.answered, P, {x})
  BY <1>2 DEF Before
<1>6. ask.buf # <<>> => KeyOf(x) # NoKey
  <2> SUFFICES ASSUME ask.buf # <<>> PROVE KeyOf(x) # NoKey
    OBVIOUS
  <2>1. PICK y : y = Byte(typed, NoKey, 4)
    OBVIOUS
  <2>2. Rank(ask.answered, y) < Rank(ask.answered, x)
    BY <1>1, <1>5, <2>1 DEF Before
  <2> QED  BY <1>2, <1>3, <2>1, <2>2, ReportOver
<1>7. Letter(x) = "ESC" => KeyOf(x) # NoKey
  <2> SUFFICES ASSUME Letter(x) = "ESC", KeyOf(x) = NoKey PROVE FALSE
    OBVIOUS
  <2>1. x = First(typed, NoKey)
    <3>1. NoKey \in 0..Len(typed)
      BY <1>3 DEF NoKey
    <3>2. Size(typed, NoKey) = 4
      BY <1>3, <3>1, Sizes
    <3>3. Nth(x) \in 1..4 /\ Letter(x) = CharsOf(typed, NoKey)[Nth(x)]
      BY <1>2, <1>3, <3>2, ByteIs
    <3>4. CharsOf(typed, NoKey) = Report
      BY DEF CharsOf
    <3>5. Report[2] = "[" /\ Report[3] = "row;col" /\ Report[4] = "R"
      BY Letters, Zenon
    <3>6. Nth(x) = 1
      <4> DEFINE j == Nth(x)
      <4>1. j = 1 \/ j = 2 \/ j = 3 \/ j = 4
        BY <3>3
      <4>2. Report[j] = "ESC"
        BY <3>3, <3>4
      <4> HIDE DEF j
      <4>3. j = 1
        BY <3>5, <4>1, <4>2
      <4> QED  BY <4>3 DEF j
    <3> QED  BY <1>2, <1>3, <3>6, FirstByte
  <2>2. Rank(ask.answered, x) \in Nat
    BY <1>2, <1>3, Ranks
  <2> QED  BY <1>1, <1>5, <2>1, <2>2 DEF Before
<1>8. KeyOf(x) # NoKey => Byte(typed, NoKey, 4) \in P
  <2> SUFFICES ASSUME KeyOf(x) # NoKey PROVE Byte(typed, NoKey, 4) \in P
    OBVIOUS
  <2> DEFINE S == C \cup W
  <2>1. S \in SUBSET Bytes(typed) /\ LeastOf(ask.answered, x, S)
    BY <1>2, <1>3
  <2>2. \A b \in P \cup S : KeyOf(b) = NoKey /\ ~Ends(b) => After(typed, b) \in P \cup S
    BY <1>1
  <2> HIDE DEF S
  <2> QED  BY <1>1, <1>3, <1>5, <2>1, <2>2, ReportBehind
<1>9. ~parse_cursor_position_response(s) \/ ask.at # "csi"
  <2> SUFFICES ASSUME Chars(s) = Report, ask.at = "csi" PROVE FALSE
    BY DEF parse_cursor_position_response
  <2>1. Len(Report) = 4
    BY Letters, Zenon
  <2>2. Len(s) = 4 /\ Letter(s[3]) = Report[3]
    <3>1. Len(Chars(s)) = Len(s) /\ \A i \in 1..Len(s) : Chars(s)[i] = Letter(s[i])
      BY <1>2, CharsAre
    <3>2. Len(s) = 4
      BY <2>1, <3>1
    <3>3. 3 \in 1..Len(s)
      BY <3>2
    <3>4. Chars(s)[3] = Letter(s[3])
      BY <3>1, <3>3, Zenon
    <3>5. Letter(s[3]) = Report[3]
      BY <2>1, <3>4, Zenon
    <3> QED  BY <3>2, <3>5
  <2>3. s[3] \in ToSet(s) /\ ToSet(s) \subseteq Bytes(typed)
    <3>1. 3 \in 1..Len(s)
      BY <2>2
    <3>2. ToSet(s) \subseteq Bytes(typed) /\ \A i \in 1..Len(s) : s[i] \in ToSet(s)
      BY <1>2, SetOf
    <3> QED  BY <3>1, <3>2, Zenon
  <2>4. KeyOf(s[3]) = NoKey
    BY <1>3, <2>2, <2>3, RowLetter
  <2>5. KeyOf(x) # NoKey
    BY <1>1, <1>6
  <2> QED  BY <1>1, <1>2, <2>3, <2>4, <2>5 DEF Held
<1>10. CASE \E at \in {"esc", "csi"} : Collect(at, s)
              /\ (ask.at = "loop" => Letter(x) = "ESC")
  <2>1. PICK at \in {"esc", "csi"} : Collect(at, s)
               /\ (ask.at = "loop" => Letter(x) = "ESC")
    BY <1>10
  <2>2. /\ Base' /\ P' = P /\ B' = B \cup {x} /\ W' = W
        /\ ask'.at = at /\ ask'.buf = s /\ ask'.sent = ask.sent /\ ui' = ui
    BY <2>1, CollectBase
  <2>3. KeyOf(x) # NoKey
    BY <1>1, <1>6, <1>7, <2>1
  <2>4. Byte(typed, NoKey, 4) \in P
    BY <1>8, <2>3
  <2>5. ~Held(B', NoKey)
    BY <1>1, <2>2, <2>3 DEF Held
  <2>6. \A b \in P' \cup C' \cup W' :
           KeyOf(b) = NoKey /\ ~Ends(b) => After(typed, b) \in P' \cup C' \cup W'
    <3> SUFFICES ASSUME NEW b \in P \cup C' \cup W, KeyOf(b) = NoKey, ~Ends(b)
                 PROVE  After(typed, b) \in P \cup C' \cup W
      BY <2>2
    <3>1. After(typed, b) \in P \cup C \cup W
      BY <1>1, <1>2
    <3>2. KeyOf(After(typed, b)) = NoKey
      BY ByteFields DEF After
    <3> QED  BY <1>2, <2>3, <3>1, <3>2
  <2>7. Stuck'
    BY <1>1, <1>2, <1>4, <2>2, <2>4, <2>5, <2>6 DEF Stuck
  <2> QED  BY <2>2, <2>7
<1>11. CASE enqueue_pending(s)
  <2>1. /\ Base' /\ P' = P \cup (B \cup {x}) /\ B' = {} /\ W' = W
        /\ ask'.at = "loop" /\ ask'.buf = <<>> /\ ask'.sent = ask.sent /\ ui' = ui
    BY <1>11, EnqueueBase
  <2>2. ~Held(B', NoKey) /\ First(typed, NoKey) \in P'
    BY <1>1, <2>1 DEF Held
  <2>3. \A b \in P' \cup C' \cup W' :
           KeyOf(b) = NoKey /\ ~Ends(b) => After(typed, b) \in P' \cup C' \cup W'
    <3>1. P \cup C \cup W \subseteq P' \cup C' \cup W'
      BY <1>2, <2>1
    <3>2. \A b \in P' \cup C' \cup W' : b \in P \cup C \cup W \/ b \in B
      BY <1>2, <2>1
    <3> QED  BY <1>1, <3>1, <3>2 DEF Held
  <2>4. Stuck'
    BY <1>1, <1>4, <2>1, <2>2, <2>3 DEF Stuck
  <2> QED  BY <2>1, <2>4
<1>12. \/ \E at \in {"esc", "csi"} : Collect(at, s)
            /\ (ask.at = "loop" => Letter(x) = "ESC")
       \/ enqueue_pending(s)
  <2>1. \/ ask.at = "loop" /\ Letter(x) = "ESC" /\ Collect("esc", s)
        \/ ask.at = "esc" /\ Collect("csi", s)
        \/ ask.at = "csi" /\ Collect("csi", s)
        \/ ask.at = "csi" /\ parse_cursor_position_response(s)
        \/ enqueue_pending(s)
    BY DEF loop, Letter
  <2> QED  BY <1>9, <2>1
<1> QED  BY <1>10, <1>11, <1>12

(* The rows of AskTable. *)
LEMMA AskRows ==
  ASSUME NEW kind, NEW m \in Places, NEW n \in Places, NEW at,
         <<kind, m, n, at>> \in AskTable
  PROVE  /\ at \in {"esc", "csi"}
         /\ at = "esc" =>
              \/ m = 1 /\ n = 1
                   /\ kind \in {"Escape", "NextWord", "Up", "AppUp", "Delete",
                        "Paste", "Report"}
              \/ kind = "Paste" /\ m = 5 /\ n = 5
              \/ kind = "Paste" /\ m = 7 /\ n = 7
         /\ at = "csi" =>
              \/ m = 1 /\ n = 2 /\ kind \in {"Up", "Delete", "Paste", "Report"}
              \/ m = 1 /\ n = 3 /\ kind \in {"Delete", "Paste", "Report"}
              \/ kind = "Paste" /\ m = 7 /\ n = 8
              \/ kind = "Paste" /\ m = 7 /\ n = 9
BY DEF AskTable

(* The byte behind a row. *)
LetterAt(kind, j, L) ==
  (kind = "Report" => L = Report[j]) /\ (kind # "Report" => L = Sent[kind][j])

(* Where it leads. *)
LoopRow(kind, m, n, j, at, L) ==
  /\ at = "esc" /\ L = "[" => <<kind, m, j, "csi">> \in AskTable
  /\ at = "esc" /\ L # "[" => kind # "Report"
  /\ at = "csi" => (j - m) + 1 > 2
  /\ at = "csi" /\ ~is_csi_final_byte(L) => <<kind, m, j, "csi">> \in AskTable
  /\ at = "csi" /\ is_csi_final_byte(L) /\ kind = "Report" => m = 1 /\ n = 3
  /\ at = "csi" /\ kind # "Report" => L # "R"

(* The table, row by row: the letters of keys and report lead where it     *)
(* says.                                                                   *)
LEMMA NextLetter ==
  ASSUME NEW kind, NEW m \in Places, NEW n \in Places, NEW at,
         <<kind, m, n, at>> \in AskTable,
         kind # "Escape", NEW j, j = n + 1,
         NEW L, LetterAt(kind, j, L)
  PROVE  LoopRow(kind, m, n, j, at, L)
<1> SUFFICES ASSUME kind = "Report" => L = Report[j], kind # "Report"
                      => L = Sent[kind][j]
             PROVE  LoopRow(kind, m, n, j, at, L)
  BY DEF LetterAt
<1>1. /\ Sent["NextWord"][2] = "f" /\ Sent["Up"][2] = "[" /\ Sent["AppUp"][2] = "O"
      /\ Sent["Delete"][2] = "[" /\ Sent["Paste"][2] = "[" /\ Sent["Paste"][6] = "c"
      /\ Sent["Paste"][8] = "[" /\ Report[2] = "["
  BY Letters, Zenon
<1>2. /\ Sent["Up"][3] = "A" /\ Sent["Delete"][3] = "3" /\ Sent["Delete"][4] = "~"
      /\ Sent["Paste"][3] = "200" /\ Sent["Paste"][4] = "~" /\ Sent["Paste"][9] = "201"
      /\ Sent["Paste"][10] = "~" /\ Report[4] = "R"
  BY Letters, Zenon
<1>3. ~is_csi_final_byte(Report[3])
  BY Letters, Zenon DEF is_csi_final_byte
<1>4. CASE at = "esc" /\ m = 1 /\ n = 1
             /\ kind \in {"NextWord", "Up", "AppUp", "Delete", "Paste", "Report"}
  <2>1. j = 2
    BY <1>4
  <2>2. at # "csi"
    BY <1>4
  <2>3. kind \in {"NextWord", "AppUp"} => L # "["
    BY <1>1, <2>1
  <2>4. kind = "Report" => L = "["
    BY <1>1, <2>1
  <2>5. kind \in {"Up", "Delete", "Paste", "Report"}
          => <<kind, m, j, "csi">> \in AskTable
    BY <1>4, <2>1 DEF AskTable
  <2> QED  BY <1>4, <2>2, <2>3, <2>4, <2>5 DEF LoopRow
<1>5. CASE at = "esc" /\ kind = "Paste" /\ m = 5 /\ n = 5
  <2>1. j = 6
    BY <1>5
  <2>2. L = "c"
    BY <1>1, <1>5, <2>1
  <2> QED  BY <1>5, <2>2 DEF LoopRow
<1>6. CASE at = "esc" /\ kind = "Paste" /\ m = 7 /\ n = 7
  <2>1. j = 8
    BY <1>6
  <2>2. <<kind, m, j, "csi">> \in AskTable
    BY <1>6, <2>1 DEF AskTable
  <2> QED  BY <1>6, <2>2 DEF LoopRow
<1>7. CASE at = "csi" /\ m = 1 /\ n = 2 /\ kind \in {"Up", "Delete", "Paste", "Report"}
  <2>1. j = 3 /\ (j - m) + 1 > 2
    BY <1>7
  <2>2. kind = "Up" => L = "A"
    BY <1>2, <2>1
  <2>3. kind = "Delete" => L = "3"
    BY <1>2, <2>1
  <2>4. kind = "Paste" => L = "200"
    BY <1>2, <2>1
  <2>5. kind = "Report" => ~is_csi_final_byte(L)
    BY <1>3, <2>1
  <2>6. is_csi_final_byte("A")
    BY DEF is_csi_final_byte
  <2>7. kind # "Up" => <<kind, m, j, "csi">> \in AskTable
    BY <1>7, <2>1 DEF AskTable
  <2> QED  BY <1>7, <2>1, <2>2, <2>3, <2>4, <2>5, <2>6, <2>7 DEF LoopRow
<1>8. CASE at = "csi" /\ m = 1 /\ n = 3 /\ kind \in {"Delete", "Paste", "Report"}
  <2>1. j = 4 /\ (j - m) + 1 > 2
    BY <1>8
  <2>2. kind # "Report" => L = "~"
    BY <1>2, <1>8, <2>1
  <2>3. kind = "Report" => L = "R"
    BY <1>2, <2>1
  <2>4. is_csi_final_byte("~") /\ is_csi_final_byte("R")
    BY DEF is_csi_final_byte
  <2> QED  BY <1>8, <2>1, <2>2, <2>3, <2>4 DEF LoopRow
<1>9. CASE at = "csi" /\ kind = "Paste" /\ m = 7 /\ n = 8
  <2>1. j = 9 /\ (j - m) + 1 > 2
    BY <1>9
  <2>2. L = "201"
    BY <1>2, <1>9, <2>1
  <2>3. <<kind, m, j, "csi">> \in AskTable
    BY <1>9, <2>1 DEF AskTable
  <2> QED  BY <1>9, <2>1, <2>2, <2>3 DEF LoopRow
<1>10. CASE at = "csi" /\ kind = "Paste" /\ m = 7 /\ n = 9
  <2>1. j = 10 /\ (j - m) + 1 > 2
    BY <1>10
  <2>2. L = "~"
    BY <1>2, <1>10, <2>1
  <2>3. is_csi_final_byte("~")
    BY DEF is_csi_final_byte
  <2> QED  BY <1>10, <2>1, <2>2, <2>3 DEF LoopRow
<1> QED  BY <1>4, <1>5, <1>6, <1>7, <1>8, <1>9, <1>10, AskRows

(* The cases of loop. *)
LEMMA LoopIs ==
  ASSUME NEW x, NEW S, NEW s \in Seq(S), loop(x, s)
  PROVE  /\ ask.at = "loop" /\ Letter(x) = "ESC" => Collect("esc", s)
         /\ ask.at = "loop" /\ Letter(x) # "ESC" => enqueue_pending(s)
         /\ ask.at = "esc" /\ Letter(x) = "[" => Collect("csi", s)
         /\ ask.at = "esc" /\ Letter(x) # "[" => enqueue_pending(s)
         /\ ask.at = "csi" /\ ~response_is_whole(s) => Collect("csi", s)
         /\ ask.at = "csi" /\ response_is_whole(s)
              /\ parse_cursor_position_response(s) => Found
         /\ ask.at = "csi" /\ response_is_whole(s)
              /\ ~parse_cursor_position_response(s) =>
              enqueue_pending(s)
<1> DEFINE at == ask.at
           L == Letter(x)
           whole == response_is_whole(s)
           report == parse_cursor_position_response(s)
           keep == Collect("csi", s)
           begin == Collect("esc", s)
           put == enqueue_pending(s)
<1>1. (CASE at = "loop" /\ L = "ESC" -> begin
         [] at = "esc" /\ L = "[" -> keep
         [] at = "csi" /\ ~whole -> keep
         [] at = "csi" /\ report -> Found
         [] OTHER -> put)
  BY DEF loop, Letter
<1>0. report => whole
  <2> SUFFICES ASSUME Chars(s) = Report
               PROVE  Len(s) > 2 /\ is_csi_final_byte(Last(s).ch)
    BY DEF parse_cursor_position_response, response_is_whole
  <2>1. Len(Report) = 4 /\ Report[4] = "R"
    BY Letters, Zenon
  <2>2. Len(Chars(s)) = Len(s) /\ \A i \in 1..Len(s) : Chars(s)[i] = Letter(s[i])
    BY CharsAre
  <2>3. Len(s) = 4
    BY <2>1, <2>2, Zenon
  <2>4. \A l : l = 4 => 4 \in 1..l /\ l > 2
    OBVIOUS
  <2>5. Letter(s[4]) = "R" /\ Len(s) > 2
    BY <2>1, <2>2, <2>3, <2>4, Zenon
  <2>6. Last(s) = s[4]
    BY <2>3, Zenon DEF Last
  <2>7. is_csi_final_byte("R")
    BY DEF is_csi_final_byte
  <2> QED  BY <2>5, <2>6, <2>7, Zenon DEF Letter
<1> HIDE DEF at, L, whole, report, keep, begin, put
<1>2. CASE at = "loop"
  <2>1. L = "ESC" => begin
    BY <1>1, <1>2
  <2>2. L # "ESC" => put
    BY <1>1, <1>2
  <2> QED  BY <1>2, <2>1, <2>2 DEF at, L, begin, put
<1>3. CASE at = "esc"
  <2>1. L = "[" => keep
    BY <1>1, <1>3
  <2>2. L # "[" => put
    BY <1>1, <1>3
  <2> QED  BY <1>3, <2>1, <2>2 DEF at, L, keep, put
<1>4. CASE at = "csi"
  <2>1. CASE ~whole
    <3>1. keep
      BY <1>0, <1>1, <1>4, <2>1
    <3> QED  BY <1>4, <2>1, <3>1 DEF at, keep, whole
  <2>2. CASE whole /\ report
    <3>1. Found
      BY <1>1, <1>4, <2>2
    <3> QED  BY <1>4, <2>2, <3>1 DEF at, whole, report
  <2>3. CASE whole /\ ~report
    <3>1. put
      BY <1>1, <1>4, <2>3
    <3> QED  BY <1>4, <2>3, <3>1 DEF at, whole, report, put
  <2> QED  BY <2>1, <2>2, <2>3
<1> QED  BY <1>2, <1>3, <1>4 DEF at

(* The length of a run. *)
LEMMA RunLen ==
  ASSUME NEW T \in Seq(PlainKeys), NEW k \in 0..Len(T), NEW m \in Nat, NEW n \in Nat,
         1 <= m, m <= n, n <= Size(T, k)
  PROVE  Len(Run(T, k, m, n)) = (n - m) + 1
BY RunIs

(* The letters of bytes are the ones they were made of. *)
LEMMA CharsBack ==
  ASSUME NEW S, NEW c \in Seq(S), NEW k
  PROVE  Chars(BytesOf(c, k)) = c
BY DEF Chars, BytesOf

(* The byte behind a row is kept in another row, put aside, or ends the    *)
(* answer.                                                                 *)
LEMMA AskRow ==
  ASSUME typed \in Seq(PlainKeys), NEW k \in 0..Len(typed), NEW m \in Places,
         NEW n \in Places,
         <<Kind(typed, k), m, n, ask.at>> \in AskTable, Kind(typed, k) # "Escape",
         NEW j, j = n + 1, m <= n, n < Size(typed, k),
         NEW x, x = Byte(typed, k, j), NEW s, s = Run(typed, k, m, j), loop(x, s)
  PROVE  \/ Collect("csi", s) /\ <<Kind(typed, k), m, j, "csi">> \in AskTable
         \/ enqueue_pending(s) /\ k # NoKey
         \/ Found /\ k = NoKey /\ m = 1 /\ n = 3
<1> DEFINE kind == Kind(typed, k)
           at == ask.at
           L == Letter(x)
<1>1. /\ Size(typed, k) \in Nat /\ j <= Size(typed, k) /\ m \in Nat /\ n \in Nat
      /\ 1 <= m
      /\ j \in Nat /\ m <= j
  <2>1. Size(typed, k) \in 1..10
    BY Sizes
  <2> QED  BY <2>1, SMTT(30) DEF Places
<1>2. L = CharsOf(typed, k)[j]
  BY ByteFields
<1>3. kind = "Report" <=> k = NoKey
  <2>1. k # NoKey => typed[k] # "Report"
    <3> SUFFICES ASSUME k # 0 PROVE typed[k] # "Report"
      BY DEF NoKey
    <3>1. typed[k] \in PlainKeys
      OBVIOUS
    <3>2. "Report" \notin PlainKeys
      BY DEF PlainKeys
    <3> QED  BY <3>1, <3>2
  <2> QED  BY <2>1 DEF Kind
<1>4. LetterAt(kind, j, L)
  BY <1>2, <1>3 DEF LetterAt, CharsOf, Kind
<1>5. /\ s \in Seq(Bytes(typed)) /\ Len(s) = (j - m) + 1
  <2>1. Run(typed, k, m, j) \in Seq(Bytes(typed))
    BY <1>1, RunIs
  <2>2. Len(Run(typed, k, m, j)) = (j - m) + 1
    BY <1>1, RunLen
  <2> QED  BY <2>1, <2>2
<1>6. Last(s) = x
  <2>1. Last(Run(typed, k, m, j)) = Byte(typed, k, j)
    BY <1>1, RunIs
  <2> QED  BY <2>1
<1>7. <<kind, m, n, at>> \in AskTable /\ kind # "Escape"
  OBVIOUS
<1>8. Letter(x) = L /\ ask.at = at
  OBVIOUS
<1> HIDE DEF kind, at, L
<1>9. /\ at = "esc" /\ L = "[" => <<kind, m, j, "csi">> \in AskTable
      /\ at = "esc" /\ L # "[" => kind # "Report"
      /\ at = "csi" => (j - m) + 1 > 2
      /\ at = "csi" /\ ~is_csi_final_byte(L) => <<kind, m, j, "csi">> \in AskTable
      /\ at = "csi" /\ is_csi_final_byte(L) /\ kind = "Report" => m = 1 /\ n = 3
      /\ at = "csi" /\ kind # "Report" => L # "R"
  <2>1. LoopRow(kind, m, n, j, at, L)
    BY <1>4, <1>7, NextLetter
  <2> QED  BY <2>1 DEF LoopRow
<1>10. at = "esc" \/ at = "csi"
  BY <1>7, AskRows, ZenonT(40)
<1>11. CASE at = "esc"
  BY <1>3, <1>8, <1>9, <1>11, <1>5, LoopIs DEF kind
<1>12. CASE at = "csi"
  <2>1. response_is_whole(s) <=> is_csi_final_byte(L)
    BY <1>5, <1>6, <1>8, <1>9, <1>12 DEF response_is_whole, Letter
  <2>2. kind # "Report" => ~parse_cursor_position_response(s)
    <3> SUFFICES ASSUME Chars(s) = Report, kind # "Report" PROVE FALSE
      BY DEF parse_cursor_position_response
    <3>1. Len(Report) = 4 /\ Report[4] = "R"
      BY Letters, Zenon
    <3>2. Len(Chars(s)) = Len(s) /\ \A i \in 1..Len(s) : Chars(s)[i] = Letter(s[i])
      BY <1>5, CharsAre
    <3>3. Len(s) = 4 /\ 4 \in 1..Len(s)
      <4>1. Len(s) = 4
        BY <3>1, <3>2, Zenon
      <4>2. \A l : l = 4 => 4 \in 1..l
        OBVIOUS
      <4> QED  BY <4>1, <4>2, Zenon
    <3>4. Chars(s)[4] = Letter(s[4])
      BY <3>2, <3>3, Zenon
    <3>5. s[4] = x
      BY <1>6, <3>3 DEF Last
    <3>6. L = "R"
      BY <1>8, <3>1, <3>4, <3>5, Zenon
    <3> QED  BY <1>9, <1>12, <3>6
  <2>3. kind = "Report" /\ is_csi_final_byte(L) => parse_cursor_position_response(s)
    <3> SUFFICES ASSUME kind = "Report", m = 1, n = 3 PROVE Chars(s) = Report
      BY <1>9, <1>12 DEF parse_cursor_position_response
    <3>1. k = NoKey /\ j = 4
      BY <1>3
    <3>2. Size(typed, k) = 4 /\ CharsOf(typed, k) = Report
      BY <3>1, Sizes DEF CharsOf
    <3>3. s = BytesOf(Report, k)
      BY <3>1, <3>2, RunOfAll
    <3>4. Report \in Seq({"ESC", "[", "row;col", "R"})
      BY DEF Report
    <3> QED  BY <3>3, <3>4, CharsBack
  <2>4. CASE ~is_csi_final_byte(L)
    <3>1. Collect("csi", s)
      BY <1>8, <1>12, <2>1, <2>4, <1>5, LoopIs
    <3> QED  BY <1>9, <1>12, <2>4, <3>1 DEF kind
  <2>5. CASE is_csi_final_byte(L) /\ kind = "Report"
    <3>1. Found
      BY <1>8, <1>12, <2>1, <2>3, <2>5, <1>5, LoopIs
    <3> QED  BY <1>3, <1>9, <1>12, <2>5, <3>1
  <2>6. CASE is_csi_final_byte(L) /\ kind # "Report"
    <3>1. enqueue_pending(s)
      BY <1>8, <1>12, <2>1, <2>2, <2>6, <1>5, LoopIs
    <3> QED  BY <1>3, <2>6, <3>1
  <2> QED  BY <2>4, <2>5, <2>6
<1> QED  BY <1>10, <1>11, <1>12

(* The question is in step with the bytes. *)
LEMMA AskedIs ==
  ASSUME Base, InSync, ui = "asking"
  PROVE  /\ decoder = Start /\ R = {} /\ AskerOK
         /\ AskSets(typed, cut, P, B, C, W)
         /\ ~Held(P, NoKey)
         /\ ask.sent => ~Held(B \cup C \cup W, NoKey)
         /\ \E O \in SUBSET DOMAIN typed : PairSets(typed, O, {}, P)
<1>1. NoReport /\ Asking /\ \E O \in SUBSET DOMAIN typed : PairSets(typed, O, R, P)
  BY DEF InSync
<1>2. decoder = Start /\ AskerOK /\ AskSets(typed, cut, P, B, C, W)
  BY <1>1 DEF Asking
<1>3. R = {}
  BY <1>2, EmptyDoing
<1>4. ~Held(P, NoKey) /\ (ask.sent => ~Held(B \cup C \cup W, NoKey))
  BY <1>1 DEF NoReport
<1> QED  BY <1>1, <1>2, <1>3, <1>4

(* It keeps s, the run of bytes m to n of k. *)
LEMMA KeepSync ==
  ASSUME ~torn, Base, InSync, NEW x, NEW s, Shift(x, s), NEW at \in {"esc", "csi"},
         Collect(at, s),
         NEW k \in 0..Len(typed), NEW m \in Places, NEW n \in Places,
         <<Kind(typed, k), m, n, at>> \in AskTable, s = Run(typed, k, m, n)
  PROVE  Base' /\ InSync'
<1>0. Typing /\ Ordered /\ ui = "asking" /\ typed' = typed /\ cut' = cut
        /\ decoder' = decoder
  BY DEF Base, Shift
<1>1. /\ decoder = Start /\ AskSets(typed, cut, P, B, C, W)
      /\ ~Held(P, NoKey) /\ (ask.sent => ~Held(B \cup C \cup W, NoKey))
      /\ R = {} /\ \E O \in SUBSET DOMAIN typed : PairSets(typed, O, {}, P)
  BY <1>0, AskedIs
<1>2. /\ Base' /\ P' = P /\ B' = B \cup {x} /\ W' = W /\ R' = R
      /\ ask'.at = at /\ ask'.buf = s /\ ask'.sent = ask.sent
      /\ ask'.answered = ask.answered
      /\ ui' = ui
  BY CollectBase
<1>3. /\ x \in Bytes(typed) /\ C = {x} \cup C' /\ C' \in SUBSET Bytes(typed)
      /\ ToSet(s) = B \cup {x}
      /\ Before(ask.answered, P, ToSet(s)) /\ Before(ask.answered, P, C')
  BY <1>0, ShiftIs
<1>4. /\ typed \in Seq(PlainKeys) /\ P \in SUBSET Bytes(typed)
      /\ B \in SUBSET Bytes(typed)
      /\ C \in SUBSET Bytes(typed) /\ W \in SUBSET Bytes(typed) /\ ask.answered \in Nat
  BY <1>0, SetsAre
<1>5. AskSets(typed, cut, P, B \cup {x}, C', W)
  <2>1. PICK g, d : g = B \cup {x} /\ d = C'
    OBVIOUS
  <2>2. Before(ask.answered, P, W)
    BY <1>0 DEF Ordered
  <2>3. g \cup d \cup W = B \cup C \cup W
    BY <1>3, <2>1
  <2>4. P \cup B \cup C \cup W = P \cup g \cup d \cup W
    BY <2>3
  <2>5. Before(ask.answered, P, g \cup d \cup W)
    BY <1>3, <2>1, <2>2 DEF Before
  <2>6. g \in SUBSET Bytes(typed) /\ d \in SUBSET Bytes(typed)
    BY <1>3, <1>4, <2>1
  <2>7. AskSets(typed, cut, P, g, d, W)
    BY <1>1, <1>4, <2>3, <2>4, <2>5, <2>6, PutAsideSets, SMTT(30)
  <2> QED  BY <2>1, <2>7
<1>6. NoReport'
  <2>1. B' \cup C' \cup W' = B \cup C \cup W
    BY <1>2, <1>3
  <2> QED  BY <1>0, <1>1, <1>2, <2>1 DEF NoReport
<1>7. AskerOK'
  <2>1. ask'.buf = Run(typed', k, m, n)
          /\ <<Kind(typed', k), m, n, ask'.at>> \in AskTable
        /\ k \in 0..Len(typed')
    BY <1>0, <1>2
  <2> QED  BY <2>1 DEF AskerOK
<1>8. Asking'
  BY <1>0, <1>1, <1>2, <1>5, <1>7 DEF Asking
<1>9. (\E O \in SUBSET DOMAIN typed : PairSets(typed, O, R, P))'
  BY <1>0, <1>1, <1>2
<1> QED  BY <1>0, <1>2, <1>6, <1>8, <1>9 DEF InSync

(* It puts s aside, and nothing of the report is in it. *)
LEMMA AsideSync ==
  ASSUME ~torn, Base, InSync, NEW x, NEW s, Shift(x, s), enqueue_pending(s),
         ~Held(B \cup {x}, NoKey), Paired(typed, DOMAIN typed, {}, P \cup (B \cup {x}))
  PROVE  Base' /\ InSync'
<1>0. Typing /\ Ordered /\ ui = "asking" /\ typed' = typed /\ cut' = cut
        /\ decoder' = decoder
  BY DEF Base, Shift
<1>1. /\ decoder = Start /\ AskSets(typed, cut, P, B, C, W)
      /\ ~Held(P, NoKey) /\ (ask.sent => ~Held(B \cup C \cup W, NoKey)) /\ R = {}
  BY <1>0, AskedIs
<1>2. /\ Base' /\ P' = P \cup (B \cup {x}) /\ B' = {} /\ W' = W /\ R' = R
      /\ ask'.at = "loop" /\ ask'.buf = <<>> /\ ask'.sent = ask.sent
      /\ ask'.answered = ask.answered
      /\ ui' = ui /\ Before(ask.answered, P', C' \cup W')
  BY EnqueueBase
<1>3. /\ x \in Bytes(typed) /\ C = {x} \cup C' /\ C' \in SUBSET Bytes(typed)
  BY <1>0, ShiftIs
<1>4. /\ typed \in Seq(PlainKeys) /\ P \in SUBSET Bytes(typed)
      /\ B \in SUBSET Bytes(typed)
      /\ C \in SUBSET Bytes(typed) /\ W \in SUBSET Bytes(typed) /\ ask.answered \in Nat
  BY <1>0, SetsAre
<1>5. AskSets(typed, cut, P', {}, C', W)
  <2>1. PICK q, d : q = P' /\ d = C'
    OBVIOUS
  <2>2. {} \cup d \cup W \subseteq B \cup C \cup W
    BY <1>3, <2>1
  <2>3. P \cup B \cup C \cup W = q \cup {} \cup d \cup W
    BY <1>2, <1>3, <2>1
  <2>4. Before(ask.answered, q, {} \cup d \cup W)
    BY <1>2, <2>1 DEF Before
  <2>5. q \in SUBSET Bytes(typed) /\ d \in SUBSET Bytes(typed)
          /\ {} \in SUBSET Bytes(typed)
    BY <1>2, <1>3, <1>4, <2>1
  <2>6. AskSets(typed, cut, q, {}, d, W)
    BY <1>1, <1>4, <2>2, <2>3, <2>4, <2>5, PutAsideSets
  <2> QED  BY <2>1, <2>6
<1>6. NoReport'
  BY <1>0, <1>1, <1>2, <1>3 DEF NoReport, Held
<1>7. AskerOK'
  BY <1>2 DEF AskerOK
<1>8. Asking'
  BY <1>0, <1>1, <1>2, <1>5, <1>7 DEF Asking
<1>9. (\E O \in SUBSET DOMAIN typed : PairSets(typed, O, R, P))'
  BY <1>0, <1>1, <1>2 DEF Paired
<1> QED  BY <1>0, <1>2, <1>6, <1>8, <1>9 DEF InSync

(* A lone ESC takes the report's with it. *)
LEMMA AsideStuck ==
  ASSUME ~torn, Base, InSync, NEW x, NEW s, Shift(x, s), enqueue_pending(s),
         x = First(typed, NoKey)
  PROVE  Base' /\ Stuck'
<1>0. Typing /\ Ordered /\ ui = "asking" /\ typed' = typed /\ decoder' = decoder
  BY DEF Base, Shift
<1>1. /\ decoder = Start /\ AskSets(typed, cut, P, B, C, W)
      /\ (ask.sent => ~Held(B \cup C \cup W, NoKey))
  BY <1>0, AskedIs
<1>2. /\ Base' /\ P' = P \cup (B \cup {x}) /\ B' = {} /\ W' = W
      /\ ask'.at = "loop" /\ ask'.buf = <<>> /\ ask'.sent = ask.sent /\ ui' = ui
  BY EnqueueBase
<1>3. x \in C /\ C = {x} \cup C'
  BY <1>0, ShiftIs
<1>4. ~ask.sent
  <2>1. KeyOf(x) = NoKey
    BY ByteFields DEF First
  <2> QED  BY <1>1, <1>3, <2>1 DEF Held
<1>5. \A b \in P' \cup C' \cup W' :
         KeyOf(b) = NoKey /\ ~Ends(b) => After(typed, b) \in P' \cup C' \cup W'
  <2>1. P' \cup C' \cup W' = P \cup B \cup C \cup W
    BY <1>2, <1>3
  <2>2. Up(typed, P \cup B \cup C \cup W, P \cup B \cup C \cup W)
    BY <1>1 DEF AskSets
  <2> QED  BY <2>1, <2>2 DEF Up
<1>6. First(typed, NoKey) \in P' /\ ~Held(B', NoKey)
  BY <1>2 DEF Held
<1>7. Stuck'
  BY <1>0, <1>1, <1>2, <1>4, <1>5, <1>6 DEF Stuck
<1> QED  BY <1>2, <1>7

(* The answer has been read to its end. *)
LEMMA FoundBase ==
  ASSUME ~torn, Base, NEW x, NEW s, Shift(x, s), Found,
         \A b \in B \cup {x} : KeyOf(b) = NoKey
  PROVE  /\ Base' /\ P' = P /\ B' = {} /\ W' = W /\ R' = R
         /\ ask'.at = "loop" /\ ask'.buf = <<>> /\ ask'.sent = ask.sent
         /\ ask'.answered = ask.answered
         /\ ui' \in {"draining", "loop"}
         /\ \A d \in C' : KeyOf(d) \in held'
<1>0. Typing /\ Ordered /\ Kept /\ Gone /\ Decoded
  BY DEF Base
<1>1. /\ C = {x} \cup C' /\ (channel \in Seq(Bytes(typed)))'
      /\ W' = W /\ R' = R
      /\ Sorted(ask.answered, channel')
      /\ Before(ask.answered, P, C') /\ Before(ask.answered, C', W)
  BY <1>0, ShiftIs
<1>2. /\ typed' = typed /\ wire' = wire /\ tty' = tty /\ decoder' = decoder
      /\ out' = out /\ cut' = cut
      /\ channel' = Tail(channel)
  BY DEF Shift
<1>3. /\ ask' = [ask EXCEPT !.at = "loop", !.buf = <<>>]
      /\ pending_input' = pending_input /\ ui' \in {"draining", "loop"}
      /\ held' = held \cup KeysOf(Tail(channel))
  BY DEF Found
<1>4. ask \in [at : {"loop", "esc", "csi"}, buf : Seq(Bytes(typed)), times : Nat,
               sent : BOOLEAN, answered : 0..Len(typed)]
  BY <1>0 DEF Typing
<1>5. /\ ask'.at = "loop" /\ ask'.buf = <<>> /\ ask'.sent = ask.sent
      /\ ask'.answered = ask.answered
      /\ ask' \in [at : {"loop", "esc", "csi"}, buf : Seq(Bytes(typed)), times : Nat,
                   sent : BOOLEAN, answered : 0..Len(typed)]
  <2> DEFINE e == <<>>
  <2>1. e \in Seq(Bytes(typed)) /\ ask' = [ask EXCEPT !.at = "loop", !.buf = e]
    BY <1>3
  <2> HIDE DEF e
  <2>2. /\ ask'.at = "loop" /\ ask'.buf = e /\ ask'.sent = ask.sent
        /\ ask'.answered = ask.answered
        /\ ask' \in [at : {"loop", "esc", "csi"}, buf : Seq(Bytes(typed)), times : Nat,
                     sent : BOOLEAN, answered : 0..Len(typed)]
    BY <1>4, <2>1
  <2> QED  BY <2>2 DEF e
<1>6. B' = {} /\ P' = P
  BY <1>3, <1>5, EmptySet DEF P, B
<1>7. Typing'
  BY <1>0, <1>1, <1>2, <1>3, <1>5 DEF Typing
<1>8. Ordered'
  <2>1. Sorted(ask'.answered, ask'.buf)
    BY <1>5, SortedEmpty
  <2>2. /\ Before(ask.answered, P, {}) /\ Before(ask.answered, {}, C')
        /\ Before(ask.answered, {}, W)
    BY DEF Before
  <2> QED  BY <1>0, <1>1, <1>2, <1>3, <1>5, <1>6, <2>1, <2>2 DEF Ordered
<1>9. \A d \in C' : KeyOf(d) \in held'
  <2>1. C' = ToSet(Tail(channel))
    BY <1>2 DEF C
  <2>2. \A b \in ToSet(Tail(channel)) : KeyOf(b) \in KeysOf(Tail(channel))
    BY KeysAre
  <2> QED  BY <1>3, <2>1, <2>2
<1>10. Kept' /\ Gone' /\ Decoded'
  <2>1. Left = (P \cup C' \cup W \cup R) \cup (B \cup {x})
          /\ Left' = P \cup C' \cup W \cup R
    BY <1>1, <1>6 DEF Left
  <2>2. \A k \in DOMAIN typed : k # NoKey
    <3>1. DOMAIN typed = 1..Len(typed) /\ Len(typed) \in Nat
      BY <1>0, SetsAre
    <3> QED  BY <3>1 DEF NoKey
  <2>3. \A k \in DOMAIN typed : Held(Left', k) => Held(Left, k)
    BY <2>1 DEF Held
  <2>4. \A k \in DOMAIN typed : Held(Left, k) => Held(Left', k)
    BY <2>1, <2>2 DEF Held
  <2>5. held \subseteq held' /\ cut \subseteq cut'
    BY <1>2, <1>3
  <2> QED  BY <1>0, <1>2, <2>3, <2>4, <2>5, NothingOut
<1> QED  BY <1>1, <1>3, <1>5, <1>6, <1>7, <1>8, <1>9, <1>10 DEF Base

(* What stays in the channel ends with the end of a key. *)
LEMMA LeftWhole ==
  ASSUME Typing, Ordered, NEW x, NEW s, Shift(x, s), Found, ~torn', C' # {}
  PROVE  LET z == Last(channel) IN
           /\ z \in C' /\ Ends(z) /\ ~IsEscape(z)
           /\ \A e \in C' : e = z \/ Rank(ask.answered, e) < Rank(ask.answered, z)
<1>1. /\ channel \in Seq(Bytes(typed)) /\ channel # <<>> /\ channel' = Tail(channel)
      /\ Sorted(ask.answered, channel') /\ (channel \in Seq(Bytes(typed)))'
      /\ typed' = typed
  <2>1. Sorted(ask.answered, channel') /\ (channel \in Seq(Bytes(typed)))'
    BY ShiftIs
  <2> QED  BY <2>1 DEF Typing, Shift
<1>2. Tail(channel) # <<>> /\ C' = ToSet(Tail(channel))
        /\ Tail(channel) \in Seq(Bytes(typed))
  <2>1. C' = ToSet(channel')
    BY DEF C
  <2> QED  BY <1>1, <2>1, EmptySet
<1>3. Last(Tail(channel)) = Last(channel) /\ Len(channel) > 1
  BY <1>1, <1>2, LastOfTail
<1>4. EndsKey(Last(channel))
  BY <1>3 DEF Found
<1>5. Last(channel) \in C' /\ Last(channel) \in Bytes(typed)
  BY <1>2, <1>3, LastIs
<1>6. Ends(Last(channel)) /\ ~IsEscape(Last(channel))
  <2>1. Last(channel).last <=> Ends(Last(channel))
    BY <1>5, EndsIs
  <2> QED  BY <1>4, <2>1 DEF EndsKey, IsEscape, Letter
<1>7. \A e \in C' : e = Last(channel)
        \/ Rank(ask.answered, e) < Rank(ask.answered, Last(channel))
  <2>1. Sorted(ask.answered, Tail(channel))
    BY <1>1
  <2> QED  BY <1>2, <1>3, <2>1, SortedLast
<1> QED  BY <1>5, <1>6, <1>7

(* The keys and places of a run. *)
LEMMA RunKeys ==
  ASSUME NEW T \in Seq(PlainKeys), NEW k \in 0..Len(T), NEW m \in Nat, NEW n \in Nat,
         1 <= m, m <= n, n <= Size(T, k)
  PROVE  \A b \in ToSet(Run(T, k, m, n)) : b \in Bytes(T) /\ KeyOf(b) = k /\ Nth(b) >= m
<1>1. \A b \in ToSet(Run(T, k, m, n)) : b \in Bytes(T)
  BY RunIs
<1>2. \A b \in ToSet(Run(T, k, m, n)) : KeyOf(b) = k
  BY RunIs
<1>3. \A b \in ToSet(Run(T, k, m, n)) : Nth(b) >= m
  BY RunIs
<1> QED  BY <1>1, <1>2, <1>3

(* The answer has been read: the decoder goes on with what was put aside. *)
LEMMA FoundSync ==
  ASSUME ~torn, Base, InSync, NEW x, NEW s, Shift(x, s), Found, ~torn',
         ask.buf = Run(typed, NoKey, 1, 3), x = Byte(typed, NoKey, 4)
  PROVE  Base' /\ InSync'
<1>0. Typing /\ Ordered /\ ui = "asking" /\ typed' = typed /\ cut' = cut
        /\ decoder' = decoder
  BY DEF Base, Shift
<1>1. /\ decoder = Start /\ R = {} /\ AskSets(typed, cut, P, B, C, W)
      /\ ~Held(P, NoKey) /\ (ask.sent => ~Held(B \cup C \cup W, NoKey))
      /\ \E O \in SUBSET DOMAIN typed : PairSets(typed, O, {}, P)
  BY <1>0, AskedIs
<1>2. /\ typed \in Seq(PlainKeys) /\ P \in SUBSET Bytes(typed)
      /\ B \in SUBSET Bytes(typed)
      /\ C \in SUBSET Bytes(typed) /\ W \in SUBSET Bytes(typed) /\ ask.answered \in Nat
  BY <1>0, SetsAre
<1>3. /\ x \in Bytes(typed) /\ x \in C /\ C = {x} \cup C' /\ C' \in SUBSET Bytes(typed)
      /\ W' = W /\ ToSet(s) = B \cup {x}
      /\ Before(ask.answered, {x}, C') /\ Before(ask.answered, {x}, W)
      /\ Before(ask.answered, P, ToSet(s)) /\ Before(ask.answered, ToSet(s), C')
      /\ Before(ask.answered, ToSet(s), W)
      /\ Before(ask.answered, P, C') /\ Before(ask.answered, C', W)
  BY <1>0, ShiftIs
<1>4. /\ \A b \in B : KeyOf(b) = NoKey
      /\ First(typed, NoKey) \in B
      /\ KeyOf(First(typed, NoKey)) = NoKey /\ KeyOf(x) = NoKey
      /\ First(typed, NoKey) \in Bytes(typed)
  <2>1. NoKey \in 0..Len(typed) /\ Size(typed, NoKey) = 4
    <3>1. NoKey \in 0..Len(typed)
      BY <1>2 DEF NoKey
    <3> QED  BY <1>2, <3>1, Sizes
  <2>2. 1 <= 3 /\ 3 <= Size(typed, NoKey) /\ 1 \in Nat /\ 3 \in Nat /\ 1 <= 1
    BY <2>1
  <2>3. \A b \in ToSet(Run(typed, NoKey, 1, 3)) : KeyOf(b) = NoKey
    BY <1>2, <2>1, <2>2, RunKeys
  <2>4. Byte(typed, NoKey, 1) \in ToSet(Run(typed, NoKey, 1, 3))
    BY <1>2, <2>1, <2>2, RunIs
  <2>5. KeyOf(x) = NoKey /\ KeyOf(First(typed, NoKey)) = NoKey
    BY ByteFields DEF First
  <2>6. First(typed, NoKey) \in Bytes(typed)
    BY <1>2, <2>1, FirstIs
  <2> QED  BY <2>3, <2>4, <2>5, <2>6 DEF B, First
<1>5. /\ Base' /\ P' = P /\ B' = {} /\ R' = R
      /\ ask'.at = "loop" /\ ask'.buf = <<>> /\ ask'.sent = ask.sent
      /\ ask'.answered = ask.answered
      /\ ui' \in {"draining", "loop"}
      /\ \A d \in C' : KeyOf(d) \in held'
  BY <1>4, FoundBase
<1>6. ~ask.sent
  BY <1>1, <1>3, <1>4 DEF Held
<1>7. \A e \in P \cup C' \cup W : KeyOf(e) # NoKey
  <2>1. \A e \in P : KeyOf(e) # NoKey
    BY <1>1 DEF Held
  <2>2. ASSUME NEW e \in C' \cup W PROVE KeyOf(e) # NoKey
    <3>1. Rank(ask.answered, x) < Rank(ask.answered, e) /\ e \in Bytes(typed)
      BY <1>2, <1>3 DEF Before
    <3> QED  BY <1>2, <3>1, ReportOver
  <2> QED  BY <2>1, <2>2
<1>8. ReadSets(typed, cut, ask.answered, {}, P, C', W)
  <2>1. PICK d, z, f : d = C' /\ z = Last(channel) /\ f = First(typed, NoKey)
    OBVIOUS
  <2>2. d # {} => /\ z \in d /\ Ends(z) /\ ~IsEscape(z)
                  /\ \A e \in d : e = z \/ Rank(ask.answered, e) < Rank(ask.answered, z)
    BY <1>0, <2>1, LeftWhole
  <2>3. /\ Before(ask.answered, P, B) /\ Before(ask.answered, B, d)
        /\ Before(ask.answered, B, W)
        /\ Before(ask.answered, P, d) /\ Before(ask.answered, P, W)
        /\ Before(ask.answered, d, W)
    <3>1. Before(ask.answered, P, W) /\ Before(ask.answered, P, B)
            /\ Before(ask.answered, B, W)
      BY <1>0 DEF Ordered
    <3>2. Before(ask.answered, B, d)
      BY <1>3, <2>1 DEF Before
    <3> QED  BY <1>3, <2>1, <3>1, <3>2
  <2>4. ReportRead(ask.answered, P, B, C, d, W, f, z)
    <3>1. \A e \in B \cup C : e \in d \/ KeyOf(e) = NoKey
      BY <1>3, <1>4, <2>1
    <3>2. d \subseteq C
      BY <1>3, <2>1
    <3>3. f \in B /\ KeyOf(f) = NoKey
      BY <1>4, <2>1
    <3>4. \A e \in P \cup d \cup W : KeyOf(e) # NoKey
      BY <1>7, <2>1
    <3> QED  BY <2>2, <2>3, <3>1, <3>2, <3>3, <3>4 DEF ReportRead
  <2>5. d \in SUBSET Bytes(typed) /\ f \in Bytes(typed)
    BY <1>3, <1>4, <2>1
  <2>6. ReadSets(typed, cut, ask.answered, {}, P, d, W)
    BY <1>1, <1>2, <2>4, <2>5, FoundSets
  <2> QED  BY <2>1, <2>6
<1>9. NoReport'
  BY <1>3, <1>5, <1>7 DEF NoReport, Held
<1>10. Reading'
  <2>1. decoder' = Start
    BY <1>0, <1>1
  <2>2. DecoderOK'
    BY <2>1 DEF DecoderOK
  <2>3. ReadSets(typed', cut', ask'.answered, R', P', C', W')
    BY <1>0, <1>1, <1>3, <1>5, <1>8
  <2> QED  BY <1>5, <1>6, <2>1, <2>2, <2>3 DEF Reading
<1>11. (\E O \in SUBSET DOMAIN typed : PairSets(typed, O, R, P))'
  BY <1>0, <1>1, <1>5
<1>12. ui' # "asking"
  BY <1>5
<1> QED  BY <1>5, <1>9, <1>10, <1>11, <1>12 DEF InSync

(* The rows of AskTable have room, but for the one of a lone ESC. *)
LEMMA RowRoom ==
  ASSUME NEW T \in Seq(PlainKeys), NEW k \in 0..Len(T), NEW m \in Places,
         NEW n \in Places, NEW at,
         <<Kind(T, k), m, n, at>> \in AskTable, Kind(T, k) # "Escape"
  PROVE  m <= n /\ n < Size(T, k)
<1> DEFINE kind == Kind(T, k)
           size == Size(T, k)
<1>1. /\ Len(Sent["NextWord"]) = 2 /\ Len(Sent["Up"]) = 3
      /\ Len(Sent["AppUp"]) = 3 /\ Len(Sent["Delete"]) = 4 /\ Len(Sent["Paste"]) = 10
      /\ Len(Report) = 4
  BY Letters, Zenon
<1>2. size = IF k = NoKey THEN Len(Report) ELSE Len(Sent[T[k]])
  BY DEF Size, CharsOf
<1>3. k # NoKey => T[k] # "Report"
  <2> SUFFICES ASSUME k # 0 PROVE T[k] # "Report"
    BY DEF NoKey
  <2>1. T[k] \in PlainKeys
    OBVIOUS
  <2>2. "Report" \notin PlainKeys
    BY DEF PlainKeys
  <2> QED  BY <2>1, <2>2
<1>4. kind = IF k = NoKey THEN "Report" ELSE T[k]
  BY DEF Kind
<1>5. <<kind, m, n, at>> \in AskTable /\ kind # "Escape"
  OBVIOUS
<1> HIDE DEF kind, size
<1>6. /\ kind = "NextWord" => size = 2
      /\ kind = "Up" => size = 3
      /\ kind = "AppUp" => size = 3
      /\ kind = "Delete" => size = 4
      /\ kind = "Paste" => size = 10
      /\ kind = "Report" => size = 4
  BY <1>1, <1>2, <1>3, <1>4
<1>7. CASE at = "esc"
  <2>1. \/ m = 1 /\ n = 1
             /\ kind \in {"Escape", "NextWord", "Up", "AppUp", "Delete", "Paste",
                  "Report"}
        \/ kind = "Paste" /\ m = 5 /\ n = 5
        \/ kind = "Paste" /\ m = 7 /\ n = 7
    BY <1>5, <1>7, AskRows
  <2>2. m <= n /\ n < size
    BY <1>5, <1>6, <2>1
  <2> QED  BY <2>2 DEF size
<1>8. CASE at = "csi"
  <2>1. \/ m = 1 /\ n = 2 /\ kind \in {"Up", "Delete", "Paste", "Report"}
        \/ m = 1 /\ n = 3 /\ kind \in {"Delete", "Paste", "Report"}
        \/ kind = "Paste" /\ m = 7 /\ n = 8
        \/ kind = "Paste" /\ m = 7 /\ n = 9
    BY <1>5, <1>8, AskRows
  <2>2. m <= n /\ n < size
    BY <1>6, <2>1
  <2> QED  BY <2>2 DEF size
<1> QED  BY <1>5, <1>7, <1>8, AskRows

(* An ESC, wherever it is, begins a row. *)
LEMMA EscRow ==
  ASSUME NEW T \in Seq(PlainKeys), NEW x \in Bytes(T), Letter(x) = "ESC"
  PROVE  /\ <<Kind(T, KeyOf(x)), Nth(x), Nth(x), "esc">> \in AskTable
         /\ Nth(x) \in Places /\ KeyOf(x) \in 0..Len(T)
         /\ <<x>> = Run(T, KeyOf(x), Nth(x), Nth(x))
<1> DEFINE k == KeyOf(x)
           j == Nth(x)
           kind == Kind(T, k)
<1>1. /\ k \in 0..Len(T) /\ j \in 1..Size(T, k) /\ Size(T, k) \in Nat
      /\ Size(T, k) <= 10
      /\ x = Byte(T, k, j) /\ CharsOf(T, k)[j] = "ESC"
  BY ByteIs
<1> HIDE DEF j
<1>2. j \in Places /\ j \in Nat /\ (j = 1 \/ 1 < j) /\ j <= Size(T, k)
  BY <1>1 DEF Places
<1>3. <<x>> = Run(T, k, j, j)
  BY <1>1, RunOfOne
<1>4. <<kind, j, j, "esc">> \in AskTable
  <2>1. CASE k = NoKey
    <3>1. Size(T, k) = 4 /\ CharsOf(T, k) = Report /\ kind = "Report"
      BY <1>1, <2>1, Sizes DEF CharsOf, Kind
    <3>2. Report[j] = "ESC" /\ j \in 1..4
      BY <1>1, <3>1
    <3>3. Report[2] # "ESC" /\ Report[3] # "ESC" /\ Report[4] # "ESC"
      BY Letters, Zenon
    <3>4. j = 1
      BY <3>2, <3>3
    <3> QED  BY <3>1, <3>4 DEF AskTable
  <2>2. CASE k # NoKey
    <3>1. k \in 1..Len(T)
      <4>1. k # 0
        BY <2>2 DEF NoKey
      <4> QED  BY <1>1, <4>1
    <3>2. CharsOf(T, k) = Sent[kind] /\ Size(T, k) = Len(Sent[kind])
            /\ kind \in PlainKeys
      BY <2>2, <3>1 DEF CharsOf, Size, Kind
    <3>3. Sent[kind][j] = "ESC" /\ j <= Len(Sent[kind])
      BY <1>1, <1>2, <3>2
    <3> HIDE DEF kind, k
    <3>4. CASE j = 1
      <4>1. Sent[kind][1] = "ESC"
        BY <3>3, <3>4
      <4>2. kind \in {"Escape", "NextWord", "Up", "AppUp", "Delete", "Paste"}
        BY <3>2, <4>1, FirstLetters
      <4> QED  BY <3>4, <4>2 DEF AskTable
    <3>5. CASE 1 < j
      <4>1. kind = "Paste" /\ (j = 5 \/ j = 7)
        BY <1>2, <3>2, <3>3, <3>5, LaterLetters, Zenon
      <4> QED  BY <4>1 DEF AskTable
    <3> QED  BY <1>2, <3>4, <3>5
  <2> QED  BY <2>1, <2>2
<1> QED  BY <1>1, <1>2, <1>3, <1>4 DEF j

(* The first letter of a key other than "[" does not go on with an escape  *)
(* sequence.                                                               *)
LEMMA NotBracket ==
  ASSUME NEW T \in Seq(PlainKeys), NEW k \in 0..Len(T),
         k # NoKey => T[k] # "Bracket"
  PROVE  Letter(First(T, k)) # "[" /\ (k = NoKey => Letter(First(T, k)) = "ESC")
<1>1. Letter(First(T, k)) = CharsOf(T, k)[1]
  BY ByteFields DEF First
<1>2. CASE k = NoKey
  <2>1. Report[1] = "ESC"
    BY Letters, Zenon
  <2>2. CharsOf(T, k) = Report
    BY <1>2 DEF CharsOf
  <2> QED  BY <1>1, <2>1, <2>2
<1>3. CASE k # NoKey
  <2>1. k \in 1..Len(T)
    BY <1>3 DEF NoKey
  <2>2. CharsOf(T, k) = Sent[T[k]] /\ T[k] \in PlainKeys
    BY <1>3, <2>1 DEF CharsOf
  <2>3. Sent[T[k]][1] # "["
    BY <1>3, <2>2, FirstLetters
  <2> QED  BY <1>1, <1>3, <2>2, <2>3
<1> QED  BY <1>2, <1>3

(* What is read behind what has been read. *)
LEMMA ShiftFollows ==
  ASSUME Base, InSync, NEW x, NEW s, Shift(x, s)
  PROVE  FollowsAsked(typed, B, x)
<1>0. Typing /\ Ordered /\ ui = "asking"
  BY DEF Base, Shift
<1>1. AskSets(typed, cut, P, B, C, W) /\ ~Held(P, NoKey)
  BY <1>0, AskedIs
<1>2. /\ typed \in Seq(PlainKeys) /\ P \in SUBSET Bytes(typed)
      /\ B \in SUBSET Bytes(typed)
      /\ C \in SUBSET Bytes(typed) /\ W \in SUBSET Bytes(typed) /\ ask.answered \in Nat
  BY <1>0, SetsAre
<1>3. LeastOf(ask.answered, x, C \cup W)
  BY <1>0, ShiftIs
<1>4. /\ Before(ask.answered, P, B) /\ Before(ask.answered, P, C)
      /\ Before(ask.answered, P, W)
      /\ Before(ask.answered, B, C) /\ Before(ask.answered, B, W)
  BY <1>0 DEF Ordered
<1> QED  BY <1>1, <1>2, <1>3, <1>4, NextAsked

(* Bytes that are no Escapes are put aside. *)
LEMMA PutPaired ==
  ASSUME Base, InSync, ui = "asking", NEW q, \A b \in q : ~IsEscape(b)
  PROVE  Paired(typed, DOMAIN typed, {}, P \cup q)
<1>1. PICK O \in SUBSET DOMAIN typed : PairSets(typed, O, {}, P)
  BY AskedIs
<1>2. PICK p : p = P \cup q
  OBVIOUS
<1>3. PairSets(typed, O, {}, p)
  BY <1>1, <1>2, PairPut
<1> QED  BY <1>2, <1>3 DEF Paired

(* Nothing has been collected. *)
LEMMA LoopShift ==
  ASSUME ~torn, Base, InSync, NEW x, NEW s, Shift(x, s), loop(x, s),
         ask.at = "loop", ask.buf = <<>>
  PROVE  Base' /\ InSync'
<1>0. Typing /\ Ordered /\ ui = "asking" /\ s = Append(ask.buf, x)
  BY DEF Base, Shift
<1>1. typed \in Seq(PlainKeys)
  BY <1>0, SetsAre
<1>2. x \in Bytes(typed) /\ s \in Seq(Bytes(typed)) /\ ToSet(s) = B \cup {x}
  BY <1>0, ShiftIs
<1>3. B = {} /\ s = <<x>>
  BY <1>0, EmptySet DEF B
<1>4. CASE Letter(x) = "ESC"
  <2>1. Collect("esc", s)
    BY <1>2, <1>4, LoopIs
  <2>2. /\ <<Kind(typed, KeyOf(x)), Nth(x), Nth(x), "esc">> \in AskTable
        /\ Nth(x) \in Places /\ KeyOf(x) \in 0..Len(typed)
        /\ s = Run(typed, KeyOf(x), Nth(x), Nth(x))
    BY <1>1, <1>2, <1>3, <1>4, EscRow
  <2>3. PICK k, j : k = KeyOf(x) /\ j = Nth(x)
    OBVIOUS
  <2>4. /\ <<Kind(typed, k), j, j, "esc">> \in AskTable /\ j \in Places
        /\ k \in 0..Len(typed)
        /\ s = Run(typed, k, j, j)
    BY <2>2, <2>3
  <2>5. "esc" \in {"esc", "csi"}
    OBVIOUS
  <2> QED  BY <2>1, <2>4, <2>5, KeepSync
<1>5. CASE Letter(x) # "ESC"
  <2>1. enqueue_pending(s)
    BY <1>2, <1>5, LoopIs
  <2>2. KeyOf(x) # NoKey
    <3> SUFFICES ASSUME KeyOf(x) = NoKey PROVE FALSE
      OBVIOUS
    <3>1. x = First(typed, NoKey)
      <4>1. FollowsAsked(typed, B, x)
        BY ShiftFollows
      <4> QED  BY <1>3, <4>1 DEF FollowsAsked, Held
    <3>2. NoKey \in 0..Len(typed)
      BY <1>1 DEF NoKey
    <3>3. Letter(First(typed, NoKey)) = "ESC"
      BY <1>1, <3>2, NotBracket
    <3> QED  BY <1>5, <3>1, <3>3
  <2>3. PICK q : q = B \cup {x}
    OBVIOUS
  <2>4. \A b \in q : ~IsEscape(b)
    BY <1>3, <1>5, <2>3 DEF IsEscape
  <2>5. Paired(typed, DOMAIN typed, {}, P \cup q)
    BY <1>0, <2>4, PutPaired
  <2>6. ~Held(B \cup {x}, NoKey)
    BY <1>3, <2>2 DEF Held
  <2> QED  BY <2>1, <2>3, <2>5, <2>6, AsideSync
<1> QED  BY <1>4, <1>5

(* A lone ESC has been collected: what comes is put aside with it. *)
LEMMA EscapeShift ==
  ASSUME ~torn, Base, InSync, NEW x, NEW s, Shift(x, s), loop(x, s), ask.at = "esc",
         NEW k \in 1..Len(typed), typed[k] = "Escape", ask.buf = Run(typed, k, 1, 1)
  PROVE  Base' /\ (Stuck' \/ InSync')
<1>0. Typing /\ Ordered /\ ui = "asking"
  BY DEF Base, Shift
<1>1. /\ typed \in Seq(PlainKeys) /\ P \in SUBSET Bytes(typed) /\ ask.answered \in Nat
      /\ Len(typed) \in Nat /\ DOMAIN typed = 1..Len(typed)
  BY <1>0, SetsAre
<1>2. /\ x \in Bytes(typed) /\ s \in Seq(Bytes(typed)) /\ ToSet(s) = B \cup {x}
      /\ Before(ask.answered, P, ToSet(s))
  BY <1>0, ShiftIs
<1>3. PICK z : z = First(typed, k)
  OBVIOUS
<1>4. k \in 0..Len(typed) /\ k # NoKey
  BY <1>1 DEF NoKey
<1>5. IsEscape(z) /\ z \in Bytes(typed) /\ KeyOf(z) = k
  BY <1>1, <1>3, <1>4, EscapeByte, FirstIs
<1>6. B = {z}
  <2>1. 1 \in 1..Size(typed, k)
    <3>1. Size(typed, k) \in 1..10
      BY <1>1, <1>4, Sizes
    <3> QED  BY <3>1
  <2>2. ask.buf = <<z>>
    BY <1>1, <1>3, <1>4, <2>1, RunOfOne DEF First
  <2>3. ToSet(<<z>>) = {z}
    <3>1. PICK t : t = <<z>>
      OBVIOUS
    <3>2. t \in Seq({z}) /\ t # <<>>
      BY <3>1
    <3>3. ToSet(t) \subseteq {z} /\ ToSet(t) # {}
      BY <3>2, SetOf
    <3> QED  BY <3>1, <3>3
  <2> QED  BY <2>2, <2>3 DEF B
<1>7. x = First(typed, NoKey) \/ (k < Len(typed) /\ x = First(typed, k + 1))
  <2>1. FollowsAsked(typed, B, x)
    BY ShiftFollows
  <2>2. z \in Alone(B)
    BY <1>6 DEF Alone
  <2> QED  BY <1>5, <2>1, <2>2 DEF FollowsAsked
<1>8. enqueue_pending(s)
  <2>1. Letter(x) # "["
    <3>1. CASE x = First(typed, NoKey)
      <4>1. NoKey \in 0..Len(typed)
        BY <1>1 DEF NoKey
      <4> QED  BY <1>1, <3>1, <4>1, NotBracket
    <3>2. CASE k < Len(typed) /\ x = First(typed, k + 1)
      <4>1. PICK l : l = k + 1
        OBVIOUS
      <4>2. l \in 0..Len(typed)
        BY <1>1, <3>2, <4>1
      <4>3. k \in 1..(Len(typed) - 1) /\ Apart(typed)
        BY <1>0, <1>1, <3>2 DEF Typing
      <4>4. typed[l] # "Bracket"
        BY <4>1, <4>3 DEF Apart
      <4> QED  BY <1>1, <3>2, <4>1, <4>2, <4>4, NotBracket
    <3> QED  BY <1>7, <3>1, <3>2
  <2> QED  BY <1>2, <2>1, LoopIs
<1>9. CASE x = First(typed, NoKey)
  BY <1>8, <1>9, AsideStuck
<1>10. CASE k < Len(typed) /\ x = First(typed, k + 1)
  <2>1. PICK O \in SUBSET DOMAIN typed : PairSets(typed, O, {}, P)
    BY <1>0, AskedIs
  <2>2. Before(ask.answered, P, {z}) /\ Before(ask.answered, P, {x})
    BY <1>2, <1>6 DEF Before
  <2>3. PairSets(typed, O \cup {k}, {}, P \cup {z, x})
    BY <1>1, <1>5, <1>10, <2>1, <2>2, PairPutEscape
  <2>4. P \cup (B \cup {x}) = P \cup {z, x} /\ O \cup {k} \in SUBSET DOMAIN typed
    BY <1>1, <1>6, <2>1
  <2>5. Paired(typed, DOMAIN typed, {}, P \cup (B \cup {x}))
    BY <2>3, <2>4 DEF Paired
  <2>6. ~Held(B \cup {x}, NoKey)
    <3>1. PICK l : l = k + 1
      OBVIOUS
    <3>2. l # 0 /\ l \in 0..Len(typed)
      BY <1>1, <1>10, <3>1
    <3>3. KeyOf(x) = l
      BY <1>1, <1>10, <3>1, <3>2, FirstIs
    <3> QED  BY <1>4, <1>5, <1>6, <3>2, <3>3 DEF Held, NoKey
  <2> QED  BY <1>8, <2>5, <2>6, AsideSync
<1> QED  BY <1>7, <1>9, <1>10

(* A run of bytes has been collected. *)
LEMMA RunShift ==
  ASSUME ~torn, Base, InSync, NEW x, NEW s, Shift(x, s), loop(x, s), ~torn',
         NEW k \in 0..Len(typed), NEW m \in Places, NEW n \in Places,
         <<Kind(typed, k), m, n, ask.at>> \in AskTable, Kind(typed, k) # "Escape",
         ask.buf = Run(typed, k, m, n)
  PROVE  Base' /\ InSync'
<1>0. Typing /\ Ordered /\ ui = "asking" /\ s = Append(ask.buf, x)
  BY DEF Base, Shift
<1>1. typed \in Seq(PlainKeys)
  BY <1>0, SetsAre
<1>2. x \in Bytes(typed) /\ s \in Seq(Bytes(typed)) /\ ToSet(s) = B \cup {x}
  BY <1>0, ShiftIs
<1>3. m <= n /\ n < Size(typed, k)
  BY <1>1, RowRoom
<1>4. Size(typed, k) \in Nat /\ Size(typed, k) <= 10
  BY <1>1, Sizes
<1>5. m \in Nat /\ n \in Nat /\ 1 <= m /\ n <= Size(typed, k)
  BY <1>3, <1>4 DEF Places
<1>6. PICK z : z = Byte(typed, k, n)
  OBVIOUS
<1>7. PICK j : j = n + 1
  OBVIOUS
<1>8. j \in Places /\ j \in Nat /\ m <= j /\ j <= Size(typed, k) /\ j > 1
  BY <1>3, <1>4, <1>5, <1>7 DEF Places
<1>9. /\ After(typed, z) = Byte(typed, k, j) /\ ~Ends(z) /\ After(typed, z) \notin B
      /\ Append(ask.buf, Byte(typed, k, j)) = Run(typed, k, m, j)
  BY <1>1, <1>3, <1>5, <1>6, <1>7, RunGrows DEF B
<1>10. z \in B
  <2>1. Byte(typed, k, n) \in ToSet(Run(typed, k, m, n))
    BY <1>1, <1>3, <1>5, RunIs
  <2> QED  BY <1>6, <2>1 DEF B
<1>11. x = Byte(typed, k, j)
  <2>1. FollowsAsked(typed, B, x)
    BY ShiftFollows
  <2> QED  BY <1>9, <1>10, <2>1 DEF FollowsAsked
<1>12. s = Run(typed, k, m, j)
  BY <1>0, <1>9, <1>11
<1>13. \/ Collect("csi", s) /\ <<Kind(typed, k), m, j, "csi">> \in AskTable
       \/ enqueue_pending(s) /\ k # NoKey
       \/ Found /\ k = NoKey /\ m = 1 /\ n = 3
  BY <1>1, <1>3, <1>7, <1>11, <1>12, AskRow
<1>14. CASE Collect("csi", s) /\ <<Kind(typed, k), m, j, "csi">> \in AskTable
  BY <1>8, <1>12, <1>14, KeepSync
<1>15. CASE enqueue_pending(s) /\ k # NoKey
  <2>1. PICK q : q = B \cup {x}
    OBVIOUS
  <2>2. \A b \in q : KeyOf(b) = k /\ b \in Bytes(typed)
    <3>1. \A b \in ToSet(Run(typed, k, m, j)) : b \in Bytes(typed) /\ KeyOf(b) = k
      BY <1>1, <1>5, <1>8, RunKeys
    <3> QED  BY <1>2, <1>12, <2>1, <3>1
  <2>3. \A b \in q : ~IsEscape(b)
    <3> SUFFICES ASSUME NEW b \in q, IsEscape(b) PROVE FALSE
      OBVIOUS
    <3>1. typed[k] = "Escape"
      BY <1>1, <2>2, EscapeIs
    <3> QED  BY <1>15, <3>1 DEF Kind
  <2>4. Paired(typed, DOMAIN typed, {}, P \cup q)
    BY <1>0, <2>3, PutPaired
  <2>5. ~Held(B \cup {x}, NoKey)
    BY <1>15, <2>1, <2>2 DEF Held
  <2> QED  BY <1>15, <2>1, <2>4, <2>5, AsideSync
<1>16. CASE Found /\ k = NoKey /\ m = 1 /\ n = 3
  <2>1. j = 4
    BY <1>7, <1>16
  <2> QED  BY <1>11, <1>16, <2>1, FoundSync
<1> QED  BY <1>13, <1>14, <1>15, <1>16

(* input_char keeps the invariant. *)
LEMMA InputCharStep ==
  ASSUME Core, input_char, ~torn'
  PROVE  Core'
<1>1. ~torn
  BY DEF input_char, loop, Collect, enqueue_pending, Found, channel_left
<1>2. Base /\ (Stuck \/ InSync)
  BY <1>1 DEF Core, Base
<1>3. PICK x, s : x = Head(channel) /\ s = Append(ask.buf, x)
  OBVIOUS
<1>4. Shift(x, s) /\ loop(x, s)
  BY <1>3 DEF input_char, Shift
<1>5. ui = "asking" /\ Typing
  BY <1>2, <1>4 DEF Shift, Base
<1>6. Base' /\ (Stuck' \/ InSync')
  <2>1. CASE Stuck
    BY <1>1, <1>2, <1>4, <2>1, StuckShift
  <2>2. CASE InSync /\ ask.at = "loop" /\ ask.buf = <<>>
    BY <1>1, <1>2, <1>4, <2>2, LoopShift
  <2>3. CASE InSync /\ ~(ask.at = "loop" /\ ask.buf = <<>>)
    <3>1. AskerOK
      BY <1>2, <1>5, <2>3, AskedIs
    <3>2. PICK k \in 0..Len(typed) : \E m \in Places : \E n \in Places :
            /\ <<Kind(typed, k), m, n, ask.at>> \in AskTable
            /\ ask.buf = Run(typed, k, m, n)
      BY <2>3, <3>1 DEF AskerOK
    <3>3. PICK m \in Places : \E n \in Places :
            /\ <<Kind(typed, k), m, n, ask.at>> \in AskTable
            /\ ask.buf = Run(typed, k, m, n)
      BY <3>2
    <3>4. PICK n \in Places :
            /\ <<Kind(typed, k), m, n, ask.at>> \in AskTable
            /\ ask.buf = Run(typed, k, m, n)
      BY <3>3
    <3>5. CASE Kind(typed, k) # "Escape"
      BY <1>1, <1>2, <1>4, <2>3, <3>4, <3>5, RunShift
    <3>6. CASE Kind(typed, k) = "Escape"
      <4>1. k # NoKey /\ typed[k] = "Escape"
        BY <3>6 DEF Kind
      <4>2. k \in 1..Len(typed)
        <5>1. typed \in Seq(PlainKeys) /\ k # 0
          BY <1>5, <4>1, SetsAre DEF NoKey
        <5> QED  BY <5>1
      <4>3. ask.at = "esc" /\ m = 1 /\ n = 1
        <5>1. PICK kind, at : kind = Kind(typed, k) /\ at = ask.at
          OBVIOUS
        <5>2. kind = "Escape" /\ <<kind, m, n, at>> \in AskTable
          BY <3>4, <3>6, <5>1
        <5>3. at = "esc" /\ m = 1 /\ n = 1
          BY <5>2, AskRows
        <5> QED  BY <5>1, <5>3
      <4> QED  BY <1>1, <1>2, <1>4, <2>3, <3>4, <4>1, <4>2, <4>3, EscapeShift
    <3> QED  BY <3>5, <3>6
  <2> QED  BY <1>2, <2>1, <2>2, <2>3
<1> QED  BY <1>6 DEF Core, Base

-----------------------------------------------------------------------------
(* The theorems *)

(* The invariant holds when the program asks for the cursor for the first  *)
(* time: nothing has been typed.                                           *)
LEMMA InitCore ==
  ASSUME Init
  PROVE  Core
<1>1. /\ typed = <<>> /\ wire = <<>> /\ tty = <<>> /\ channel = <<>>
      /\ pending_input = <<>>
      /\ ui = "asking" /\ decoder = Start /\ out = <<>> /\ cut = {}
      /\ ask = [at |-> "loop", buf |-> <<>>, times |-> 1, sent |-> TRUE,
           answered |-> NoKey]
  BY DEF Init
<1>2. P = {} /\ B = {} /\ C = {} /\ W = {} /\ R = {}
  <2>1. ask.buf = <<>>
    BY <1>1
  <2> QED  BY <1>1, <2>1, EmptySet, EmptyDoing DEF P, B, C, W
<1>3. typed \in Seq(PlainKeys) /\ Len(typed) = 0 /\ DOMAIN typed = {}
        /\ DOMAIN out = {}
  BY <1>1
<1>4. Typing
  <2>0. Apart(typed)
    BY <1>3 DEF Apart
  <2>1. /\ pending_input \in Seq(Bytes(typed)) /\ channel \in Seq(Bytes(typed))
        /\ tty \in Seq(Bytes(typed)) /\ wire \in Seq(Bytes(typed))
        /\ out \in Seq(ToSet(out))
    BY <1>1
  <2>2. decoder.read \in Seq(Bytes(typed))
    <3>1. decoder.read = <<>>
      BY <1>1, EmptyDoing
    <3> QED  BY <3>1
  <2>3. ask \in [at : {"loop", "esc", "csi"}, buf : Seq(Bytes(typed)), times : Nat,
                 sent : BOOLEAN, answered : 0..Len(typed)]
    <3>1. NoKey \in 0..Len(typed)
      BY <1>3 DEF NoKey
    <3>2. PICK e : e = <<>>
      OBVIOUS
    <3>3. e \in Seq(Bytes(typed))
      BY <3>2
    <3>4. ask = [at |-> "loop", buf |-> e, times |-> 1, sent |-> TRUE,
            answered |-> NoKey]
      BY <1>1, <3>2
    <3> QED  BY <3>1, <3>3, <3>4
  <2> QED  BY <1>1, <1>3, <2>0, <2>1, <2>2, <2>3 DEF Typing
<1>5. Ordered
  <2>1. ask.buf = <<>>
    BY <1>1
  <2>2. \A a : Sorted(a, <<>>)
    BY SortedEmpty
  <2>3. \A a : Before(a, {}, {})
    BY DEF Before
  <2>4. ToSet(tty) = {} /\ ToSet(wire) = {}
    BY <1>1, EmptySet
  <2> QED  BY <1>1, <1>2, <2>1, <2>2, <2>3, <2>4 DEF Ordered
<1>6. Kept /\ Gone /\ Decoded
  BY <1>3 DEF Kept, Gone, Decoded
<1>7. NoReport
  BY <1>2 DEF NoReport, Held
<1>8. Asking
  <2>1. AskSets(typed, cut, {}, {}, {}, {})
    BY DEF AskSets, Up, Down, Link
  <2>2. AskerOK
    BY <1>1 DEF AskerOK
  <2> QED  BY <1>1, <1>2, <2>1, <2>2 DEF Asking
<1>9. \E O \in SUBSET DOMAIN typed : PairSets(typed, O, R, P)
  <2>1. PairSets(typed, {}, R, {}) /\ {} \in SUBSET DOMAIN typed
    BY PairNone
  <2> QED  BY <1>2, <2>1
<1>10. InSync
  BY <1>1, <1>7, <1>8, <1>9 DEF InSync
<1> QED  BY <1>4, <1>5, <1>6, <1>10 DEF Core

(* Nothing has changed. *)
LEMMA SameCore ==
  ASSUME Core, UNCHANGED vars
  PROVE  Core'
<1>1. /\ typed' = typed /\ wire' = wire /\ tty' = tty /\ channel' = channel
      /\ pending_input' = pending_input /\ ui' = ui /\ ask' = ask /\ decoder' = decoder
      /\ out' = out /\ cut' = cut /\ held' = held /\ torn' = torn
  BY DEF vars, channel_left
<1>2. P' = P /\ B' = B /\ C' = C /\ W' = W /\ R' = R
  BY <1>1 DEF P, B, C, W, R
<1> SUFFICES ASSUME ~torn PROVE Core'
  BY <1>1 DEF Core
<1>3. Typing /\ Ordered /\ Kept /\ Gone /\ Decoded /\ (Stuck \/ InSync)
  BY DEF Core
<1>4. Typing'
  BY <1>1, <1>3 DEF Typing
<1>5. Ordered'
  BY <1>1, <1>2, <1>3 DEF Ordered
<1>6. Kept' /\ Gone' /\ Decoded'
  <2>1. Left' = Left
    BY <1>2 DEF Left
  <2> QED  BY <1>1, <1>3, <2>1, NothingOut
<1>7. Stuck' \/ InSync'
  BY <1>1, <1>2, <1>3, SameBytes
<1> QED  BY <1>4, <1>5, <1>6, <1>7 DEF Core

(* Every step of the terminal, of the event loop, of the decoder and of    *)
(* get_cursor_position that opens nothing keeps the invariant.             *)
LEMMA NextCore ==
  ASSUME Core, [Next]_vars, NothingOpened'
  PROVE  Core'
<1> SUFFICES ASSUME ~torn' PROVE Core'
  BY DEF Core
<1>1. CASE Press
  BY <1>1, PressStep
<1>2. CASE Answer
  BY <1>2, AnswerStep
<1>3. CASE Arrive
  BY <1>3, ArriveStep
<1>4. CASE read_byte
  BY <1>4, ReadByteStep
<1>5. CASE read_byte_timeout
  BY <1>5, TimeoutStep
<1>6. CASE Respond
  BY <1>6, RespondStep
<1>7. CASE drain_to_keys
  BY <1>7, DrainStep
<1>8. CASE print_repl_output
  BY <1>8, OutputStep
<1>9. CASE enter_passthrough \/ choose_file \/ choose_file_end
  BY <1>9, LendStep
<1>10. CASE Passthrough_end
  BY <1>10, PassthroughEndStep
<1>11. CASE Refill
  BY <1>11, RefillStep
<1>12. CASE input_char
  BY <1>12, InputCharStep
<1>13. CASE UNCHANGED vars
  BY <1>13, SameCore
<1> QED  BY <1>1, <1>2, <1>3, <1>4, <1>5, <1>6, <1>7, <1>8, <1>9, <1>10, <1>11, <1>12,
            <1>13
     DEF Next

(* What has been opened stays opened: keys are only added.               *)
LEMMA TypedGrows ==
  ASSUME typed \in Seq(Keys), [Next]_vars
  PROVE  typed' \in Seq(Keys) /\ (NothingOpened' => NothingOpened)
<1>1. CASE Press
  <2>1. PICK x \in Keys : typed' = Append(typed, x)
    BY <1>1 DEF Press
  <2>2. /\ typed' \in Seq(Keys) /\ DOMAIN typed \subseteq DOMAIN typed'
        /\ \A k \in DOMAIN typed : typed'[k] = typed[k]
        /\ \A k \in DOMAIN typed : k > 1 => typed'[k - 1] = typed[k - 1]
    BY <2>1
  <2> QED  BY <2>2 DEF NothingOpened, OpensCsi, OpensSs3
<1>2. CASE typed' = typed
  BY <1>2 DEF NothingOpened, OpensCsi, OpensSs3
<1> QED  BY <1>1, <1>2
     DEF Next, vars, Answer, Arrive, read_byte, read_byte_timeout, Respond,
         drain_to_keys, print_repl_output, enter_passthrough, Passthrough_end,
         choose_file, choose_file_end, Lend, Refill, input_char

(* At the start nothing has been typed, so nothing is opened.            *)
THEOREM InitInv == Init => IInv
<1> SUFFICES ASSUME Init PROVE IInv
  OBVIOUS
<1>1. typed \in Seq(Keys)
  BY DEF Init
<1> QED  BY <1>1, InitCore DEF IInv

(* Every step keeps what the tables of the decoder and of                  *)
(* get_cursor_position say each has read, as long as nothing is opened.    *)
THEOREM NextInv == IInv /\ [Next]_vars => IInv'
<1> SUFFICES ASSUME IInv, [Next]_vars PROVE IInv'
  OBVIOUS
<1>1. typed' \in Seq(Keys) /\ (NothingOpened' => NothingOpened)
  BY TypedGrows DEF IInv
<1>2. NothingOpened' => Core'
  BY <1>1, NextCore DEF IInv
<1> QED  BY <1>1, <1>2 DEF IInv

(* However bytes arrive, reads are cancelled or time out, and questions    *)
(* for the cursor and other programs come between, the tables of the       *)
(* decoder and of get_cursor_position describe what each has read.         *)
THEOREM InvHolds == Spec => []IInv
BY InitInv, NextInv, PTL DEF Spec

(* Until Alt-[ or Alt-O is typed, in one keystroke or in two, every key    *)
(* that nothing has touched comes out of the decoder as what it means,     *)
(* made of all its bytes and of no others, once and in order.              *)
THEOREM KeysAreDecoded == Spec => [](NothingOpened => TypedIsDecoded)
<1>1. IInv => (NothingOpened => TypedIsDecoded)
  <2> SUFFICES ASSUME IInv, NothingOpened, ~torn PROVE TypedIsDecoded
    BY DEF TypedIsDecoded
  <2>1. Decoded
    BY DEF IInv, Core
  <2>2. \A k \in DOMAIN typed : Clean(k) => Untouched(k)
    BY DEF Clean, Untouched
  <2> QED  BY <2>1, <2>2 DEF Decoded, TypedIsDecoded
<1> QED  BY InvHolds, <1>1, PTL
=============================================================================
