-------------------------- MODULE AiBackendProofs --------------------------
(***************************************************************************)
(* Theorems about AiBackend, for every number of queries, resets and       *)
(* messages and every length of the stream: a conversation is resumed only *)
(* if claude knows it or another conversation's query marked it live, and  *)
(* no suggestion whose call was answered is lost or placed twice.          *)
(***************************************************************************)
EXTENDS AiBackend, SequenceTheorems, TLAPS

-----------------------------------------------------------------------------
(* The inductive invariant *)

(* started speaks of the present conversation. *)
StartedIsSafe == started => session_id \in created \cup marked

(* No suggestion is twice in s. *)
Once(s) ==
  \A i, j \in DOMAIN s :
    i # j /\ s[i].kind = "Ai_suggestion" => s[i] # s[j]

(* The suggestions in the stream, the stash and the prompt ... *)
Everywhere ==
  Suggestions(chunks) \cup Suggestions(pending_suggestion)
    \cup Suggestions(placed)

(* ... are in one of them, and there once. *)
OnlyOnce ==
  /\ Once(chunks) /\ Once(pending_suggestion) /\ Once(placed)
  /\ Suggestions(chunks) \cap Suggestions(pending_suggestion) = {}
  /\ Suggestions(chunks) \cap Suggestions(placed) = {}
  /\ Suggestions(pending_suggestion) \cap Suggestions(placed) = {}

(* They are numbered by what their query had said: the next one is new. *)
Numbered ==
  \A c \in Everywhere \cup answered :
    /\ c.kind = "Ai_suggestion"
    /\ c.query \in Query
    /\ c.nth <= said[c.query]
    /\ c.query \in calling => c.nth < said[c.query]

(* What was answered is somewhere. *)
Kept == answered \subseteq Everywhere \cup given_up

(* A query that is not over has no Ai_done, in the stream or handled; the   *)
(* queries not yet sent are not over.                                       *)
NotOver ==
  /\ \A q \in Query :
       run[q].pc # "over" =>
         /\ q \notin told
         /\ \A i \in DOMAIN chunks :
              ~ (chunks[i].kind = "Ai_done" /\ chunks[i].query = q)
  /\ \A q \in Query : q > nq => run[q].pc = "unsent"

(* In the stream an answered suggestion is ahead of the Ai_done of its      *)
(* query ...                                                                *)
DoneIsBehind ==
  \A i, j \in DOMAIN chunks :
    /\ chunks[i].kind = "Ai_done"
    /\ chunks[j] \in answered
    /\ chunks[i].query = chunks[j].query
    => j < i

(* ... so that when this was handled, the suggestion was placed. *)
ToldIsPlaced ==
  \A c \in answered :
    c.query \in told => c \in Suggestions(placed) \cup given_up

AiInv ==
  /\ TypeOK /\ StartedIsSafe /\ ResumeIsSafe
  /\ OnlyOnce /\ Numbered /\ Kept /\ NotOver /\ DoneIsBehind /\ ToldIsPlaced

-----------------------------------------------------------------------------
(* What adding, taking and placing do to the suggestions of a sequence *)

(* Suggestions, one at a time. *)
LEMMA SuggestionsMember ==
  ASSUME NEW s, NEW c
  PROVE  c \in Suggestions(s) <=>
           \E i \in DOMAIN s : s[i].kind = "Ai_suggestion" /\ s[i] = c
BY DEF Suggestions

(* The chunks of the model are chunks. *)
LEMMA ChunkTyped ==
  ASSUME NEW k \in {"Ai_output", "Ai_suggestion", "Ai_done"},
         NEW q \in Query \cup {0}, NEW n \in 0..MaxSay
  PROVE  /\ Chunk(k, q, n) \in ChunkType
         /\ Chunk(k, q, n).kind = k
         /\ Chunk(k, q, n).query = q
         /\ Chunk(k, q, n).nth = n
BY DEF Chunk, ChunkType

(* Appending a chunk adds it to the suggestions if it is one. *)
LEMMA AppendSuggestions ==
  ASSUME NEW s \in Seq(ChunkType), NEW c \in ChunkType
  PROVE  /\ Suggestions(Append(s, c)) =
              Suggestions(s) \cup {x \in {c} : x.kind = "Ai_suggestion"}
         /\ Once(s) /\ c \notin Suggestions(s) => Once(Append(s, c))
<1> DEFINE t == Append(s, c)
<1>1. /\ t \in Seq(ChunkType) /\ Len(t) = Len(s) + 1 /\ Len(s) \in Nat
      /\ DOMAIN s = 1..Len(s) /\ DOMAIN t = 1..(Len(s) + 1)
      /\ \A i \in 1..Len(s) : t[i] = s[i]
      /\ t[Len(s) + 1] = c
  BY AppendProperties
<1>2. ASSUME NEW x
      PROVE  x \in Suggestions(t) <=>
               x \in Suggestions(s) \/ (x = c /\ c.kind = "Ai_suggestion")
  <2> HIDE DEF t
  <2>1. \A i : i \in DOMAIN t <=> i \in DOMAIN s \/ i = Len(s) + 1
    BY <1>1
  <2> QED  BY <1>1, <2>1, SuggestionsMember
<1>3. ASSUME Once(s), c \notin Suggestions(s)
      PROVE  Once(t)
  <2> HIDE DEF t
  <2> SUFFICES ASSUME NEW i \in DOMAIN t, NEW j \in DOMAIN t, i # j,
                      t[i].kind = "Ai_suggestion", t[i] = t[j]
               PROVE  FALSE
    BY DEF Once
  <2>1. (i \in DOMAIN s \/ i = Len(s) + 1) /\ (j \in DOMAIN s \/ j = Len(s) + 1)
    BY <1>1
  <2>2. CASE i \in DOMAIN s /\ j \in DOMAIN s
    BY <1>1, <1>3, <2>2 DEF Once
  <2>3. CASE i \in DOMAIN s /\ j = Len(s) + 1
    BY <1>1, <1>3, <2>3, SuggestionsMember
  <2>4. CASE i = Len(s) + 1 /\ j \in DOMAIN s
    BY <1>1, <1>3, <2>4, SuggestionsMember
  <2> QED  BY <2>1, <2>2, <2>3, <2>4
<1> QED  BY <1>2, <1>3

(* Taking the head takes it from the suggestions if it is one. *)
LEMMA TailSuggestions ==
  ASSUME NEW s \in Seq(ChunkType), s # <<>>
  PROVE  /\ Head(s) \in ChunkType /\ Tail(s) \in Seq(ChunkType)
         /\ Len(Tail(s)) = Len(s) - 1
         /\ Len(s) \in Nat \ {0}
         /\ DOMAIN Tail(s) = 1..(Len(s) - 1)
         /\ \A i \in 1..(Len(s) - 1) : Tail(s)[i] = s[i + 1]
         /\ Head(s) = s[1]
         /\ Suggestions(s) =
              Suggestions(Tail(s)) \cup {x \in {Head(s)} : x.kind = "Ai_suggestion"}
         /\ Once(s) => Once(Tail(s)) /\ Head(s) \notin Suggestions(Tail(s))
<1> DEFINE t == Tail(s)
<1>1. /\ Head(s) \in ChunkType /\ t \in Seq(ChunkType)
      /\ Len(t) = Len(s) - 1 /\ Len(s) \in Nat \ {0}
      /\ DOMAIN s = 1..Len(s) /\ DOMAIN t = 1..(Len(s) - 1)
      /\ \A i \in 1..(Len(s) - 1) : t[i] = s[i + 1]
      /\ Head(s) = s[1]
  BY HeadTailProperties, EmptySeq, LenProperties
<1>2. ASSUME NEW x
      PROVE  x \in Suggestions(s) <=>
               \/ x \in Suggestions(t)
               \/ x = Head(s) /\ Head(s).kind = "Ai_suggestion"
  <2> HIDE DEF t
  <2>1. ASSUME NEW i \in DOMAIN s, i # 1
        PROVE  i - 1 \in DOMAIN t /\ t[i - 1] = s[i]
    BY <1>1, <2>1
  <2>2. ASSUME NEW i \in DOMAIN t
        PROVE  i + 1 \in DOMAIN s /\ t[i] = s[i + 1]
    BY <1>1, <2>2
  <2>3. 1 \in DOMAIN s
    BY <1>1
  <2>4. x \in Suggestions(s) =>
          \/ x \in Suggestions(t)
          \/ x = Head(s) /\ Head(s).kind = "Ai_suggestion"
    <3> SUFFICES ASSUME NEW i \in DOMAIN s, s[i].kind = "Ai_suggestion", s[i] = x
                 PROVE  x \in Suggestions(t) \/ x = Head(s)
      BY SuggestionsMember
    <3>1. CASE i = 1
      BY <1>1, <3>1
    <3>2. CASE i # 1
      BY <2>1, <3>2, SuggestionsMember
    <3> QED  BY <3>1, <3>2
  <2>5. x \in Suggestions(t) => x \in Suggestions(s)
    BY <2>2, SuggestionsMember
  <2>6. x = Head(s) /\ Head(s).kind = "Ai_suggestion" => x \in Suggestions(s)
    BY <1>1, <2>3, SuggestionsMember
  <2> QED  BY <2>4, <2>5, <2>6
<1>3. ASSUME Once(s)
      PROVE  Once(t) /\ Head(s) \notin Suggestions(t)
  <2> HIDE DEF t
  <2>1. Once(t)
    <3> SUFFICES ASSUME NEW i \in DOMAIN t, NEW j \in DOMAIN t, i # j,
                        t[i].kind = "Ai_suggestion"
                 PROVE  t[i] # t[j]
      BY DEF Once
    <3>1. /\ i + 1 \in DOMAIN s /\ j + 1 \in DOMAIN s /\ i + 1 # j + 1
          /\ t[i] = s[i + 1] /\ t[j] = s[j + 1]
      BY <1>1
    <3> QED  BY <1>3, <3>1 DEF Once
  <2>2. Head(s) \notin Suggestions(t)
    <3> SUFFICES ASSUME NEW i \in DOMAIN t, t[i].kind = "Ai_suggestion",
                        t[i] = Head(s)
                 PROVE  FALSE
      BY SuggestionsMember
    <3>1. 1 \in DOMAIN s /\ i + 1 \in DOMAIN s /\ i + 1 # 1 /\ s[i + 1] = s[1]
      BY <1>1
    <3> QED  BY <1>1, <1>3, <3>1 DEF Once
  <2> QED  BY <2>1, <2>2
<1> QED  BY <1>1, <1>2, <1>3

(* The suggestions of two sequences put together are theirs. *)
LEMMA ConcatSuggestions ==
  ASSUME NEW s \in Seq(ChunkType), NEW t \in Seq(ChunkType)
  PROVE  /\ s \o t \in Seq(ChunkType)
         /\ Suggestions(s \o t) = Suggestions(s) \cup Suggestions(t)
         /\ /\ Once(s) /\ Once(t)
            /\ Suggestions(s) \cap Suggestions(t) = {}
            => Once(s \o t)
<1> DEFINE u == s \o t
<1>1. /\ u \in Seq(ChunkType) /\ Len(s) \in Nat /\ Len(t) \in Nat
      /\ DOMAIN s = 1..Len(s) /\ DOMAIN t = 1..Len(t)
      /\ DOMAIN u = 1..(Len(s) + Len(t))
      /\ \A i \in 1..(Len(s) + Len(t)) :
           u[i] = IF i <= Len(s) THEN s[i] ELSE t[i - Len(s)]
  BY ConcatProperties, LenProperties
<1> HIDE DEF u
<1>2. ASSUME NEW i \in DOMAIN u
      PROVE  \/ i \in DOMAIN s /\ u[i] = s[i]
             \/ /\ i \notin DOMAIN s /\ i - Len(s) \in DOMAIN t
                /\ u[i] = t[i - Len(s)]
  BY <1>1
<1>3. ASSUME NEW i \in DOMAIN s
      PROVE  i \in DOMAIN u /\ u[i] = s[i]
  BY <1>1
<1>4. ASSUME NEW i \in DOMAIN t
      PROVE  i + Len(s) \in DOMAIN u /\ u[i + Len(s)] = t[i]
  BY <1>1
<1>5. ASSUME NEW x
      PROVE  x \in Suggestions(u) <=> x \in Suggestions(s) \/ x \in Suggestions(t)
  <2>1. x \in Suggestions(u) => x \in Suggestions(s) \/ x \in Suggestions(t)
    BY <1>2, SuggestionsMember
  <2>2. x \in Suggestions(s) => x \in Suggestions(u)
    BY <1>3, SuggestionsMember
  <2>3. x \in Suggestions(t) => x \in Suggestions(u)
    BY <1>4, SuggestionsMember
  <2> QED  BY <2>1, <2>2, <2>3
<1>6. ASSUME Once(s), Once(t), Suggestions(s) \cap Suggestions(t) = {}
      PROVE  Once(u)
  <2> SUFFICES ASSUME NEW i \in DOMAIN u, NEW j \in DOMAIN u, i # j,
                      u[i].kind = "Ai_suggestion", u[i] = u[j]
               PROVE  FALSE
    BY DEF Once
  <2>1. CASE i \in DOMAIN s /\ j \in DOMAIN s
    BY <1>2, <1>6, <2>1 DEF Once
  <2>2. CASE i \in DOMAIN s /\ j \notin DOMAIN s
    <3>1. u[i] \in Suggestions(s) /\ u[j] \in Suggestions(t)
      BY <1>2, <2>2, SuggestionsMember
    <3> QED  BY <1>6, <3>1
  <2>3. CASE i \notin DOMAIN s /\ j \in DOMAIN s
    <3>1. u[i] \in Suggestions(t) /\ u[j] \in Suggestions(s)
      BY <1>2, <2>3, SuggestionsMember
    <3> QED  BY <1>6, <3>1
  <2>4. CASE i \notin DOMAIN s /\ j \notin DOMAIN s
    <3>1. i - Len(s) # j - Len(s)
      BY <1>1
    <3> QED  BY <1>2, <1>6, <2>4, <3>1 DEF Once
  <2> QED  BY <2>1, <2>2, <2>3, <2>4
<1> QED  BY <1>1, <1>5, <1>6 DEF u

(* Nothing is suggested by nothing. *)
LEMMA EmptySuggestions == Suggestions(<<>>) = {} /\ Once(<<>>)
BY DEF Suggestions, Once

-----------------------------------------------------------------------------
(* Types and sessions *)

(* add, in terms of its sequence. *)
LEMMA AddIsAppend ==
  ASSUME TypeOK, NEW c \in ChunkType, add(c)
  PROVE  /\ chunks' = Append(chunks, c)
         /\ chunks' \in Seq(ChunkType) /\ Len(chunks') <= StreamCap
         /\ Len(chunks) \in Nat
         /\ DOMAIN chunks = 1..Len(chunks)
         /\ DOMAIN chunks' = 1..(Len(chunks) + 1)
         /\ \A i \in 1..Len(chunks) : chunks'[i] = chunks[i]
         /\ chunks'[Len(chunks) + 1] = c
<1>1. chunks \in Seq(ChunkType) /\ Len(chunks) < StreamCap /\ Len(chunks) \in Nat
  BY LenProperties DEF TypeOK, add
<1>2. chunks' = Append(chunks, c)
  BY DEF add
<1> QED  BY <1>1, <1>2, AppendProperties, LenProperties, AiAssumption

(* Every step keeps the types. *)
LEMMA TypeStep ==
  ASSUME TypeOK, [Next]_vars
  PROVE  TypeOK'
<1> USE DEF observers
<1>0. 0 \in Query \cup {0} /\ 0 \in 0..MaxSay /\ \A q \in Query : q \in Query \cup {0}
  BY AiAssumption
<1>1. CASE SubmitAiQuery
  <2>1. session_flag \in {"--session-id", "--resume"}
    BY DEF session_flag
  <2>2. nq + 1 \in Query /\ nq' \in 0..MaxQuery
    BY <1>1, AiAssumption DEF SubmitAiQuery, Query, TypeOK
  <2> QED  BY <1>1, <2>1, <2>2 DEF SubmitAiQuery, TypeOK
<1>2. CASE ResetAiSession
  <2>1. session_id' \in Session
    BY <1>2, AiAssumption DEF ResetAiSession, TypeOK, Session
  <2> QED  BY <1>2, <2>1 DEF ResetAiSession, TypeOK
<1>3. CASE ResetAdds
  <2>1. PICK c \in ChunkType : add(c)
    BY <1>0, <1>3, ChunkTyped DEF ResetAdds
  <2>2. ui' \in {"loop", "notice", "done"}
    BY <1>3 DEF ResetAdds
  <2> QED  BY <1>3, <2>1, <2>2, AddIsAppend DEF ResetAdds, TypeOK
<1>4. CASE Cancel
  <2>1. Suggestions(pending_suggestion) \subseteq ChunkType
    <3> SUFFICES ASSUME NEW i \in DOMAIN pending_suggestion
                 PROVE  pending_suggestion[i] \in ChunkType
      BY DEF Suggestions
    <3> QED  BY ElementOfSeq, LenProperties DEF TypeOK
  <2> QED  BY <1>4, <2>1 DEF Cancel, TypeOK
<1>5. CASE await_response
  <2>1. /\ Head(chunks) \in ChunkType /\ Tail(chunks) \in Seq(ChunkType)
        /\ Len(Tail(chunks)) <= StreamCap
    BY <1>5, TailSuggestions, AiAssumption DEF await_response, TypeOK
  <2>2. Head(chunks).query \in Query \cup {0}
    BY <2>1 DEF ChunkType
  <2>3. CASE process_response(Head(chunks))
    <3>1. /\ Append(pending_suggestion, Head(chunks)) \in Seq(ChunkType)
          /\ placed \o pending_suggestion \in Seq(ChunkType)
          /\ << >> \in Seq(ChunkType)
      BY <2>1, AppendProperties, ConcatProperties, EmptySeq DEF TypeOK
    <3> QED  BY <1>5, <2>1, <2>2, <2>3, <3>1
             DEF await_response, process_response, stash, TypeOK
  <2>4. CASE LoseRace(Head(chunks))
    BY <1>5, <2>1, <2>4 DEF await_response, LoseRace, TypeOK
  <2> QED  BY <1>5, <2>3, <2>4 DEF await_response
<1>6. ASSUME NEW q \in Query, Fiber(q) \/ AnswerSuggest(q)
      PROVE  TypeOK'
  <2>1. CASE Say(q)
    <3>1. Chunk("Ai_output", q, 0) \in ChunkType
      BY <1>0, ChunkTyped
    <3>2. said' \in [Query -> 0..MaxSay]
      BY <2>1, AiAssumption DEF Say, TypeOK
    <3> QED  BY <2>1, <3>1, <3>2, AddIsAppend DEF Say, TypeOK
  <2>2. CASE CallSuggest(q)
    <3>1. said' \in [Query -> 0..MaxSay]
      BY <2>2, AiAssumption DEF CallSuggest, TypeOK
    <3> QED  BY <2>2, <3>1 DEF CallSuggest, TypeOK
  <2>3. CASE AnswerSuggest(q)
    <3>1. Chunk("Ai_suggestion", q, said[q]) \in ChunkType
      BY <1>0, ChunkTyped DEF TypeOK
    <3>2. answered' \subseteq ChunkType
      BY <2>3, <3>1 DEF AnswerSuggest, TypeOK
    <3>3. calling' \subseteq Query
      BY <2>3 DEF AnswerSuggest, TypeOK
    <3> QED  BY <2>3, <3>1, <3>2, <3>3, AddIsAppend DEF AnswerSuggest, TypeOK
  <2>4. CASE ExitOk(q)
    BY <2>4 DEF ExitOk, Goto, TypeOK
  <2>5. CASE ExitBad(q)
    BY <2>5 DEF ExitBad, MayCreate, Goto, TypeOK
  <2>6. CASE AddError(q)
    <3>1. Chunk("Ai_output", q, 0) \in ChunkType
      BY <1>0, ChunkTyped
    <3>2. run' \in [Query -> [pc : {"unsent", "running", "failing", "ending", "over"},
                        flag : {"--session-id", "--resume"}, id : Session]]
      BY <2>6 DEF AddError, Goto, TypeOK
    <3> QED  BY <2>6, <3>1, <3>2, AddIsAppend DEF AddError, TypeOK
  <2>7. CASE AddDone(q)
    <3>1. Chunk("Ai_done", q, 0) \in ChunkType
      BY <1>0, ChunkTyped
    <3>2. run' \in [Query -> [pc : {"unsent", "running", "failing", "ending", "over"},
                        flag : {"--session-id", "--resume"}, id : Session]]
      BY <2>7 DEF AddDone, Goto, TypeOK
    <3> QED  BY <2>7, <3>1, <3>2, AddIsAppend DEF AddDone, TypeOK
  <2> QED  BY <1>6, <2>1, <2>2, <2>3, <2>4, <2>5, <2>6, <2>7 DEF Fiber
<1>7. CASE UNCHANGED vars
  BY <1>7 DEF vars, TypeOK
<1> QED  BY <1>1, <1>2, <1>3, <1>4, <1>5, <1>6, <1>7 DEF Next

(* Every step keeps what the two flags promise. *)
LEMMA ResumeStep ==
  ASSUME TypeOK, StartedIsSafe, ResumeIsSafe, [Next]_vars
  PROVE  StartedIsSafe' /\ ResumeIsSafe'
<1> USE DEF observers, StartedIsSafe, ResumeIsSafe
<1>1. CASE SubmitAiQuery
  <2>1. nq + 1 \in Query
    BY <1>1, AiAssumption DEF SubmitAiQuery, Query, TypeOK
  <2> QED  BY <1>1, <2>1 DEF SubmitAiQuery, session_flag, TypeOK
<1>2. CASE ResetAiSession
  BY <1>2 DEF ResetAiSession
<1>3. CASE ResetAdds
  BY <1>3 DEF ResetAdds
<1>4. CASE Cancel
  BY <1>4 DEF Cancel
<1>5. CASE await_response
  BY <1>5 DEF await_response
<1>6. ASSUME NEW q \in Query, Fiber(q) \/ AnswerSuggest(q)
      PROVE  StartedIsSafe' /\ ResumeIsSafe'
  <2>1. CASE Say(q) \/ CallSuggest(q) \/ AnswerSuggest(q)
    BY <2>1 DEF Say, CallSuggest, AnswerSuggest
  <2>2. CASE ExitOk(q)
    BY <2>2 DEF ExitOk, Goto, TypeOK
  <2>3. CASE ExitBad(q)
    BY <2>3 DEF ExitBad, MayCreate, Goto, TypeOK
  <2>4. CASE AddError(q)
    BY <2>4 DEF AddError, Goto, TypeOK
  <2>5. CASE AddDone(q)
    BY <2>5 DEF AddDone, Goto, TypeOK
  <2> QED  BY <1>6, <2>1, <2>2, <2>3, <2>4, <2>5 DEF Fiber
<1>7. CASE UNCHANGED vars
  BY <1>7 DEF vars
<1> QED  BY <1>1, <1>2, <1>3, <1>4, <1>5, <1>6, <1>7 DEF Next

-----------------------------------------------------------------------------
(* Where the suggestions are *)

SuggestionInv ==
  OnlyOnce /\ Numbered /\ Kept /\ DoneIsBehind /\ ToldIsPlaced

(* What shows or ends an answer can be added anywhere in the stream. *)
LEMMA OtherAdd ==
  ASSUME TypeOK, SuggestionInv, NEW c \in ChunkType, add(c),
         c.kind # "Ai_suggestion",
         \A q \in Query : said[q] <= said'[q] /\ said[q] \in Nat /\ said'[q] \in Nat,
         UNCHANGED <<pending_suggestion, placed, answered, given_up, told, calling>>
  PROVE  SuggestionInv'
<1> USE DEF SuggestionInv
<1>0. chunks \in Seq(ChunkType) /\ chunks' = Append(chunks, c)
  BY DEF TypeOK, add
<1>1. Suggestions(chunks') = Suggestions(chunks)
  <2>1. Suggestions(chunks') =
          Suggestions(chunks) \cup {x \in {c} : x.kind = "Ai_suggestion"}
    BY <1>0, AppendSuggestions
  <2>2. {x \in {c} : x.kind = "Ai_suggestion"} = {}
    OBVIOUS
  <2> QED  BY <2>1, <2>2
<1>2. Once(chunks) => Once(chunks')
  <2>1. c \notin Suggestions(chunks)
    BY SuggestionsMember
  <2> QED  BY <1>0, <2>1, AppendSuggestions
<1>3. OnlyOnce'
  BY <1>1, <1>2 DEF OnlyOnce
<1>4. Everywhere' = Everywhere
  BY <1>1 DEF Everywhere
<1>5. Numbered'
  <2> SUFFICES ASSUME NEW x \in Everywhere \cup answered
               PROVE  /\ x.kind = "Ai_suggestion"
                      /\ x.query \in Query
                      /\ x.nth <= said'[x.query]
                      /\ x.query \in calling => x.nth < said'[x.query]
    BY <1>4 DEF Numbered
  <2>1. x \in ChunkType
    BY DEF Numbered, TypeOK, Everywhere, Suggestions
  <2>2. x.nth \in Nat
    BY <2>1, AiAssumption DEF ChunkType
  <2> QED  BY <2>2 DEF Numbered
<1>6. Kept'
  BY <1>4 DEF Kept
<1>7. DoneIsBehind'
  <2> SUFFICES ASSUME NEW i \in DOMAIN chunks', NEW j \in DOMAIN chunks',
                      chunks'[i].kind = "Ai_done", chunks'[j] \in answered,
                      chunks'[i].query = chunks'[j].query
               PROVE  j < i
    BY DEF DoneIsBehind
  <2>1. chunks'[j].kind = "Ai_suggestion"
    BY DEF Numbered
  <2>2. j \in 1..Len(chunks) /\ chunks'[j] = chunks[j]
    BY <2>1, AddIsAppend
  <2>3. CASE i \in 1..Len(chunks)
    BY <2>2, <2>3, AddIsAppend DEF DoneIsBehind
  <2>4. CASE i = Len(chunks) + 1
    BY <2>2, <2>4, AddIsAppend
  <2> QED  BY <2>3, <2>4, AddIsAppend
<1>8. ToldIsPlaced'
  BY DEF ToldIsPlaced
<1> QED  BY <1>3, <1>5, <1>6, <1>7, <1>8

(* A chunk taken from the stream leaves the order of the others. *)
LEMMA TakeKeepsOrder ==
  ASSUME TypeOK, chunks # <<>>, chunks' = Tail(chunks), DoneIsBehind,
         answered' = answered
  PROVE  DoneIsBehind'
<1>1. chunks \in Seq(ChunkType) /\ DOMAIN chunks = 1..Len(chunks)
  BY LenProperties DEF TypeOK
<1> SUFFICES ASSUME NEW i \in DOMAIN chunks', NEW j \in DOMAIN chunks',
                    chunks'[i].kind = "Ai_done", chunks'[j] \in answered,
                    chunks'[i].query = chunks'[j].query
             PROVE  j < i
  BY DEF DoneIsBehind
<1>2. /\ i \in Nat /\ j \in Nat
      /\ i + 1 \in DOMAIN chunks /\ j + 1 \in DOMAIN chunks
      /\ chunks'[i] = chunks[i + 1] /\ chunks'[j] = chunks[j + 1]
  BY <1>1, TailSuggestions
<1> QED  BY <1>2 DEF DoneIsBehind

(* Wherever the suggestions are, they are chunks with a number. *)
LEMMA EverywhereTyped ==
  ASSUME TypeOK
  PROVE  /\ Everywhere \cup answered \subseteq ChunkType
         /\ \A c \in ChunkType : c.nth \in Nat
<1>1. ASSUME NEW s \in Seq(ChunkType)
      PROVE  Suggestions(s) \subseteq ChunkType
  BY <1>1, ElementOfSeq, LenProperties DEF Suggestions
<1>2. Everywhere \cup answered \subseteq ChunkType
  BY <1>1 DEF TypeOK, Everywhere
<1>3. \A c \in ChunkType : c.nth \in 0..MaxSay
  BY DEF ChunkType
<1> QED  BY <1>2, <1>3, AiAssumption

(* Every step keeps the suggestions where they should be. *)
LEMMA SuggestionStep ==
  ASSUME TypeOK, NotOver, SuggestionInv, [Next]_vars
  PROVE  SuggestionInv'
<1> USE DEF observers
<1>0. /\ 0 \in Query \cup {0} /\ 0 \in 0..MaxSay
      /\ \A q \in Query : q \in Query \cup {0} /\ said[q] \in 0..MaxSay /\ said[q] \in Nat
  BY AiAssumption DEF TypeOK
<1>1. CASE SubmitAiQuery \/ ResetAiSession \/ UNCHANGED vars
  <2>1. UNCHANGED <<said, calling, chunks, pending_suggestion, placed, answered, given_up, told>>
    BY <1>1 DEF SubmitAiQuery, ResetAiSession, vars
  <2> QED  BY <2>1 DEF SuggestionInv, OnlyOnce, Numbered, Kept, DoneIsBehind,
                       ToldIsPlaced, Everywhere
<1>2. CASE ResetAdds
  <2>1. PICK c \in ChunkType : add(c) /\ c.kind # "Ai_suggestion"
    BY <1>0, <1>2, ChunkTyped DEF ResetAdds
  <2> QED  BY <1>0, <1>2, <2>1, OtherAdd DEF ResetAdds
<1>3. CASE Cancel
  <2>1. /\ Suggestions(pending_suggestion') = {}
        /\ Once(pending_suggestion')
    BY <1>3, EmptySuggestions DEF Cancel
  <2>2. UNCHANGED <<said, calling, chunks, placed, answered, told>>
    BY <1>3 DEF Cancel
  <2>3. given_up' = given_up \cup Suggestions(pending_suggestion)
    BY <1>3 DEF Cancel
  <2> QED  BY <2>1, <2>2, <2>3 DEF SuggestionInv, OnlyOnce, Numbered, Kept,
                                   DoneIsBehind, ToldIsPlaced, Everywhere
<1>4. CASE await_response
  <2> DEFINE c == Head(chunks)
  <2>1. /\ chunks \in Seq(ChunkType) /\ chunks # <<>> /\ chunks' = Tail(chunks)
        /\ pending_suggestion \in Seq(ChunkType) /\ placed \in Seq(ChunkType)
        /\ UNCHANGED <<said, calling, answered>>
    BY <1>4 DEF await_response, TypeOK
  <2>2. /\ c \in ChunkType
        /\ Suggestions(chunks) =
             Suggestions(chunks') \cup {x \in {c} : x.kind = "Ai_suggestion"}
        /\ Once(chunks') /\ c \notin Suggestions(chunks')
    BY <2>1, TailSuggestions DEF SuggestionInv, OnlyOnce
  <2>3. DoneIsBehind'
    BY <2>1, TakeKeepsOrder DEF SuggestionInv
  <2>4. CASE c.kind = "Ai_output" /\ UNCHANGED <<pending_suggestion, placed, told, given_up>>
    BY <2>1, <2>2, <2>3, <2>4 DEF SuggestionInv, OnlyOnce, Numbered, Kept,
                                   ToldIsPlaced, Everywhere
  <2>5. CASE /\ c.kind = "Ai_suggestion"
             /\ pending_suggestion' = Append(pending_suggestion, c)
             /\ UNCHANGED <<placed, told, given_up>>
    <3>1. c \in Suggestions(chunks)
      BY <2>2, <2>5
    <3>2. c \notin Suggestions(pending_suggestion) /\ c \notin Suggestions(placed)
      BY <3>1 DEF SuggestionInv, OnlyOnce
    <3>3. /\ Suggestions(pending_suggestion') = Suggestions(pending_suggestion) \cup {c}
          /\ Once(pending_suggestion')
      BY <2>1, <2>2, <2>5, <3>2, AppendSuggestions DEF SuggestionInv, OnlyOnce
    <3> HIDE DEF c
    <3>4. OnlyOnce'
      BY <2>2, <2>5, <3>2, <3>3 DEF SuggestionInv, OnlyOnce
    <3>5. Everywhere' = Everywhere
      BY <2>2, <2>5, <3>1, <3>3 DEF Everywhere
    <3> QED  BY <2>1, <2>3, <2>5, <3>4, <3>5 DEF SuggestionInv, Numbered, Kept, ToldIsPlaced
  <2>6. CASE /\ c.kind = "Ai_done"
             /\ placed' = placed \o pending_suggestion
             /\ pending_suggestion' = <<>>
             /\ told' = told \cup {c.query}
             /\ UNCHANGED given_up
    <3>1. Suggestions(chunks') = Suggestions(chunks)
      BY <2>2, <2>6
    <3>2. /\ Suggestions(placed') = Suggestions(placed) \cup Suggestions(pending_suggestion)
          /\ Once(placed')
      BY <2>1, <2>6, ConcatSuggestions DEF SuggestionInv, OnlyOnce
    <3>3. Suggestions(pending_suggestion') = {} /\ Once(pending_suggestion')
      BY <2>6, EmptySuggestions
    <3>4. OnlyOnce'
      BY <2>2, <3>1, <3>2, <3>3 DEF SuggestionInv, OnlyOnce
    <3>5. Everywhere' = Everywhere
      BY <3>1, <3>2, <3>3 DEF Everywhere
    <3>6. ASSUME NEW x \in answered, x.query = c.query
          PROVE  x \notin Suggestions(chunks)
      <4> SUFFICES ASSUME NEW j \in DOMAIN chunks, chunks[j] = x
                   PROVE  FALSE
        BY SuggestionsMember
      <4>1. 1 \in DOMAIN chunks /\ chunks[1] = c /\ j \in DOMAIN chunks /\ ~ (j < 1)
        BY <2>1, TailSuggestions, LenProperties
      <4> QED  BY <2>6, <3>6, <4>1 DEF SuggestionInv, DoneIsBehind
    <3>7. ToldIsPlaced'
      <4> SUFFICES ASSUME NEW x \in answered, x.query \in told \cup {c.query}
                   PROVE  x \in Suggestions(placed') \cup given_up
        BY <2>1, <2>6 DEF ToldIsPlaced
      <4>1. CASE x.query \in told
        BY <3>2, <4>1 DEF SuggestionInv, ToldIsPlaced
      <4>2. CASE x.query = c.query
        BY <3>2, <3>6, <4>2 DEF SuggestionInv, Kept, Everywhere
      <4> QED  BY <4>1, <4>2
    <3> QED  BY <2>1, <2>3, <2>6, <3>4, <3>5, <3>7 DEF SuggestionInv, Numbered, Kept
  <2>7. CASE LoseRace(c)
    <3>1. /\ UNCHANGED <<pending_suggestion, placed, told>>
          /\ given_up' = given_up \cup ({c} \ Shown)
      BY <2>7 DEF LoseRace
    <3>2. c.kind = "Ai_suggestion" => c \notin Shown
      BY DEF Shown
    <3> HIDE DEF c
    <3>3. OnlyOnce'
      BY <2>2, <3>1 DEF SuggestionInv, OnlyOnce
    <3>4. Numbered'
      BY <2>1, <2>2, <3>1 DEF SuggestionInv, Numbered, Everywhere
    <3>5. Kept' /\ ToldIsPlaced'
      BY <2>1, <2>2, <3>1, <3>2 DEF SuggestionInv, Kept, Everywhere, ToldIsPlaced
    <3> QED  BY <2>3, <3>3, <3>4, <3>5 DEF SuggestionInv
  <2> QED  BY <1>4, <2>4, <2>5, <2>6, <2>7 DEF await_response, process_response, stash
<1>5. ASSUME NEW q \in Query, Say(q) \/ AddError(q) \/ AddDone(q)
      PROVE  SuggestionInv'
  <2>1. PICK c \in ChunkType : add(c) /\ c.kind # "Ai_suggestion"
    BY <1>0, <1>5, ChunkTyped DEF Say, AddError, AddDone
  <2>2. \A p \in Query : said[p] <= said'[p] /\ said[p] \in Nat /\ said'[p] \in Nat
    <3>1. CASE Say(q)
      BY <1>0, <3>1 DEF Say, TypeOK
    <3>2. CASE AddError(q) \/ AddDone(q)
      <4>1. said' = said
        BY <3>2 DEF AddError, AddDone
      <4> QED  BY <1>0, <4>1
    <3> QED  BY <1>5, <3>1, <3>2
  <2>3. UNCHANGED <<pending_suggestion, placed, answered, given_up, told, calling>>
    BY <1>5 DEF Say, AddError, AddDone
  <2> QED  BY <2>1, <2>2, <2>3, OtherAdd
<1>6. ASSUME NEW q \in Query, ExitOk(q) \/ ExitBad(q)
      PROVE  SuggestionInv'
  <2>1. UNCHANGED <<said, calling, chunks, pending_suggestion, placed, answered, given_up, told>>
    BY <1>6 DEF ExitOk, ExitBad
  <2> QED  BY <2>1 DEF SuggestionInv, OnlyOnce, Numbered, Kept, DoneIsBehind,
                       ToldIsPlaced, Everywhere
<1>7. ASSUME NEW q \in Query, CallSuggest(q)
      PROVE  SuggestionInv'
  <2>1. /\ UNCHANGED <<chunks, pending_suggestion, placed, answered, given_up, told>>
        /\ calling' = calling \cup {q} /\ q \notin calling
        /\ said' = [said EXCEPT ![q] = @ + 1]
    BY <1>7 DEF CallSuggest
  <2>2. Everywhere' = Everywhere
    BY <2>1 DEF Everywhere
  <2>3. Numbered'
    <3> SUFFICES ASSUME NEW x \in Everywhere \cup answered
                 PROVE  /\ x.kind = "Ai_suggestion"
                        /\ x.query \in Query
                        /\ x.nth <= said'[x.query]
                        /\ x.query \in calling' => x.nth < said'[x.query]
      BY <2>1, <2>2 DEF Numbered
    <3>1. x.nth \in Nat
      BY EverywhereTyped
    <3>2. /\ x.kind = "Ai_suggestion" /\ x.query \in Query
          /\ x.nth <= said[x.query]
          /\ x.query \in calling => x.nth < said[x.query]
      BY DEF SuggestionInv, Numbered
    <3>3. said'[x.query] = IF x.query = q THEN said[x.query] + 1 ELSE said[x.query]
      BY <2>1, <3>2 DEF TypeOK
    <3> QED  BY <1>0, <2>1, <3>1, <3>2, <3>3
  <2> QED  BY <2>1, <2>2, <2>3 DEF SuggestionInv, OnlyOnce, Kept, DoneIsBehind, ToldIsPlaced
<1>8. ASSUME NEW q \in Query, AnswerSuggest(q)
      PROVE  SuggestionInv'
  <2> DEFINE c == Chunk("Ai_suggestion", q, said[q])
  <2>1. /\ c \in ChunkType /\ c.kind = "Ai_suggestion" /\ c.query = q
        /\ c.nth = said[q]
    BY <1>0, ChunkTyped
  <2> HIDE DEF c
  <2>2. /\ add(c) /\ q \in calling /\ calling' = calling \ {q}
        /\ UNCHANGED <<run, said, pending_suggestion, placed, given_up, told>>
        /\ answered' = IF run[q].pc = "running" THEN answered \cup {c} ELSE answered
    BY <1>8 DEF AnswerSuggest, c
  <2>3. c \notin Everywhere \cup answered
    BY <1>0, <2>1, <2>2 DEF SuggestionInv, Numbered
  <2>4. /\ Suggestions(chunks') = Suggestions(chunks) \cup {c}
        /\ Once(chunks')
    <3>1. chunks \in Seq(ChunkType) /\ chunks' = Append(chunks, c)
      BY <2>2 DEF TypeOK, add
    <3>2. c \notin Suggestions(chunks) /\ Once(chunks)
      BY <2>3 DEF SuggestionInv, OnlyOnce, Everywhere
    <3> QED  BY <2>1, <3>1, <3>2, AppendSuggestions
  <2>5. Everywhere' = Everywhere \cup {c}
    BY <2>2, <2>4 DEF Everywhere
  <2>6. OnlyOnce'
    BY <2>2, <2>3, <2>4 DEF SuggestionInv, OnlyOnce, Everywhere
  <2>7. Numbered'
    BY <1>0, <2>1, <2>2, <2>5 DEF SuggestionInv, Numbered
  <2>8. Kept'
    BY <2>2, <2>5 DEF SuggestionInv, Kept
  <2>9. ToldIsPlaced'
    BY <2>1, <2>2 DEF SuggestionInv, ToldIsPlaced, NotOver
  <2>10. DoneIsBehind'
    <3> SUFFICES ASSUME NEW i \in DOMAIN chunks', NEW j \in DOMAIN chunks',
                        chunks'[i].kind = "Ai_done", chunks'[j] \in answered',
                        chunks'[i].query = chunks'[j].query
                 PROVE  j < i
      BY DEF DoneIsBehind
    <3>1. i \in 1..Len(chunks) /\ i \in DOMAIN chunks /\ chunks'[i] = chunks[i]
      BY <2>1, <2>2, AddIsAppend
    <3>2. CASE chunks'[j] = c
      <4>1. run[q].pc = "running"
        BY <2>2, <2>3, <3>2
      <4> QED  BY <2>1, <3>1, <3>2, <4>1 DEF NotOver
    <3>3. CASE chunks'[j] # c
      <4>1. j \in 1..Len(chunks) /\ j \in DOMAIN chunks /\ chunks'[j] = chunks[j]
        BY <2>1, <2>2, <3>3, AddIsAppend
      <4>2. chunks[j] \in answered
        BY <2>2, <3>3, <4>1
      <4> QED  BY <3>1, <4>1, <4>2 DEF SuggestionInv, DoneIsBehind
    <3> QED  BY <3>2, <3>3
  <2> QED  BY <2>6, <2>7, <2>8, <2>9, <2>10 DEF SuggestionInv
<1> QED  BY <1>1, <1>2, <1>3, <1>4, <1>5, <1>6, <1>7, <1>8 DEF Next, Fiber

(* Every step keeps the queries that are not over without an end. *)
LEMMA NotOverStep ==
  ASSUME TypeOK, NotOver, [Next]_vars
  PROVE  NotOver'
<1> USE DEF observers
<1>0. /\ 0 \in Query \cup {0} /\ 0 \in 0..MaxSay /\ 0 \notin Query
      /\ \A q \in Query : q \in Query \cup {0} /\ said[q] \in 0..MaxSay
      /\ nq \in Nat
  BY AiAssumption DEF TypeOK, Query
<1>1. CASE SubmitAiQuery
  <2>1. nq + 1 \in Query /\ nq' = nq + 1 /\ run[nq + 1].pc = "unsent"
    BY <1>0, <1>1, AiAssumption DEF SubmitAiQuery, Query, TypeOK, NotOver
  <2>2. ASSUME NEW p \in Query
        PROVE  run'[p] = IF p = nq + 1
                         THEN [pc |-> "running", flag |-> session_flag, id |-> session_id]
                         ELSE run[p]
    BY <1>1, <2>1 DEF SubmitAiQuery, TypeOK
  <2>3. UNCHANGED <<chunks, told>>
    BY <1>1 DEF SubmitAiQuery
  <2>4. \A p \in Query : run'[p].pc # "over" => run[p].pc # "over"
    BY <2>1, <2>2
  <2>5. \A p \in Query : p > nq' => p > nq /\ p # nq + 1
    BY <1>0, <2>1 DEF Query
  <2> QED  BY <2>2, <2>3, <2>4, <2>5 DEF NotOver
<1>2. CASE ResetAiSession \/ Cancel \/ UNCHANGED vars
  <2>1. UNCHANGED <<run, nq, told, chunks>>
    BY <1>2 DEF ResetAiSession, Cancel, vars
  <2> QED  BY <2>1 DEF NotOver
<1>3. ASSUME NEW c \in ChunkType, add(c), UNCHANGED told,
             \A p \in Query :
               /\ run'[p].pc # "over" => run[p].pc # "over"
               /\ run'[p].pc # "over" => ~ (c.kind = "Ai_done" /\ c.query = p)
      PROVE  \A p \in Query :
               run'[p].pc # "over" =>
                 /\ p \notin told'
                 /\ \A i \in DOMAIN chunks' :
                      ~ (chunks'[i].kind = "Ai_done" /\ chunks'[i].query = p)
  <2> SUFFICES ASSUME NEW p \in Query, run'[p].pc # "over",
                      NEW i \in DOMAIN chunks'
               PROVE  /\ p \notin told'
                      /\ ~ (chunks'[i].kind = "Ai_done" /\ chunks'[i].query = p)
    BY <1>3 DEF NotOver
  <2>1. p \notin told'
    BY <1>3 DEF NotOver
  <2>2. CASE i \in 1..Len(chunks)
    BY <1>3, <2>1, <2>2, AddIsAppend DEF NotOver
  <2>3. CASE i = Len(chunks) + 1
    BY <1>3, <2>1, <2>3, AddIsAppend
  <2> QED  BY <1>3, <2>2, <2>3, AddIsAppend
<1>4. CASE ResetAdds
  <2>1. PICK c \in ChunkType : add(c) /\ c.query = 0
    BY <1>0, <1>4, ChunkTyped DEF ResetAdds
  <2>2. UNCHANGED <<run, nq, told>>
    BY <1>4 DEF ResetAdds
  <2> QED  BY <1>0, <1>3, <2>1, <2>2 DEF NotOver
<1>5. CASE await_response
  <2>1. /\ chunks \in Seq(ChunkType) /\ chunks # <<>> /\ chunks' = Tail(chunks)
        /\ UNCHANGED <<run, nq>>
    BY <1>5 DEF await_response, TypeOK
  <2>2. \A i \in DOMAIN chunks' : i + 1 \in DOMAIN chunks /\ chunks'[i] = chunks[i + 1]
    BY <2>1, TailSuggestions, LenProperties
  <2>3. 1 \in DOMAIN chunks /\ chunks[1] = Head(chunks)
    BY <2>1, TailSuggestions, LenProperties
  <2>4. \/ told' = told
        \/ Head(chunks).kind = "Ai_done" /\ told' = told \cup {Head(chunks).query}
    BY <1>5 DEF await_response, process_response, LoseRace
  <2>5. ASSUME NEW p \in Query, run[p].pc # "over"
        PROVE  p \notin told'
    BY <2>3, <2>4, <2>5 DEF NotOver
  <2> QED  BY <2>1, <2>2, <2>5 DEF NotOver
<1>6. ASSUME NEW q \in Query, Fiber(q) \/ AnswerSuggest(q)
      PROVE  NotOver'
  <2>1. CASE Say(q)
    <3>1. PICK c \in ChunkType : add(c) /\ c.kind # "Ai_done"
      BY <1>0, <2>1, ChunkTyped DEF Say
    <3>2. UNCHANGED <<run, nq, told>>
      BY <2>1 DEF Say
    <3> QED  BY <1>3, <3>1, <3>2 DEF NotOver
  <2>2. CASE AnswerSuggest(q)
    <3>1. PICK c \in ChunkType : add(c) /\ c.kind # "Ai_done"
      BY <1>0, <2>2, ChunkTyped DEF AnswerSuggest
    <3>2. UNCHANGED <<run, nq, told>>
      BY <2>2 DEF AnswerSuggest
    <3> QED  BY <1>3, <3>1, <3>2 DEF NotOver
  <2>3. CASE CallSuggest(q)
    BY <2>3 DEF CallSuggest, NotOver
  <2>4. CASE ExitOk(q) \/ ExitBad(q)
    <3>1. /\ UNCHANGED <<nq, told, chunks>> /\ run[q].pc = "running"
          /\ \E pc \in {"ending", "failing"} : Goto(q, pc)
      BY <2>4 DEF ExitOk, ExitBad
    <3>2. /\ \A p \in Query : p # q => run'[p] = run[p]
          /\ run'[q].pc # "over"
      BY <3>1 DEF Goto, TypeOK
    <3> QED  BY <3>1, <3>2 DEF NotOver
  <2>5. CASE AddError(q)
    <3>1. PICK c \in ChunkType : add(c) /\ c.kind # "Ai_done"
      BY <1>0, <2>5, ChunkTyped DEF AddError
    <3>2. UNCHANGED <<nq, told>> /\ run[q].pc = "failing" /\ Goto(q, "ending")
      BY <2>5 DEF AddError
    <3>3. /\ \A p \in Query : p # q => run'[p] = run[p]
          /\ run'[q].pc = "ending"
      BY <3>2 DEF Goto, TypeOK
    <3>4. \A p \in Query : run'[p].pc # "over" => run[p].pc # "over"
      BY <3>2, <3>3
    <3>5. \A p \in Query : p > nq => p # q
      BY <3>2 DEF NotOver
    <3> QED  BY <1>3, <3>1, <3>2, <3>3, <3>4, <3>5 DEF NotOver
  <2>6. CASE AddDone(q)
    <3>1. PICK c \in ChunkType : add(c) /\ c.query = q
      BY <1>0, <2>6, ChunkTyped DEF AddDone
    <3>2. UNCHANGED <<nq, told>> /\ run[q].pc = "ending" /\ Goto(q, "over")
      BY <2>6 DEF AddDone
    <3>3. /\ \A p \in Query : p # q => run'[p] = run[p]
          /\ run'[q].pc = "over"
      BY <3>2 DEF Goto, TypeOK
    <3>4. \A p \in Query : run'[p].pc # "over" => run[p].pc # "over" /\ p # q
      BY <3>2, <3>3
    <3>5. \A p \in Query : p > nq => p # q
      BY <3>2 DEF NotOver
    <3> QED  BY <1>3, <3>1, <3>2, <3>3, <3>4, <3>5 DEF NotOver
  <2> QED  BY <1>6, <2>1, <2>2, <2>3, <2>4, <2>5, <2>6 DEF Fiber
<1> QED  BY <1>1, <1>2, <1>4, <1>5, <1>6 DEF Next

-----------------------------------------------------------------------------
(* Theorems *)

(* AiInv holds in every state of every behaviour. *)
THEOREM AiInvariant == Spec => []AiInv
<1>1. Init => AiInv
  <2> SUFFICES ASSUME Init PROVE AiInv
    OBVIOUS
  <2>1. TypeOK
    <3>1. << >> \in Seq(ChunkType) /\ Len(<< >>) = 0
      BY EmptySeq
    <3>2. run \in [Query -> [pc : {"unsent", "running", "failing", "ending", "over"},
                        flag : {"--session-id", "--resume"}, id : Session]]
      BY AiAssumption DEF Init, Session
    <3>3. said \in [Query -> 0..MaxSay]
      BY AiAssumption DEF Init
    <3>4. session_id \in Session /\ nq \in 0..MaxQuery /\ Len(chunks) <= StreamCap
      BY <3>1, AiAssumption DEF Init, Session
    <3> QED  BY <3>1, <3>2, <3>3, <3>4 DEF Init, TypeOK
  <2>2. StartedIsSafe /\ ResumeIsSafe
    BY DEF Init, StartedIsSafe, ResumeIsSafe
  <2>3. OnlyOnce /\ Numbered /\ Kept
    BY EmptySuggestions DEF Init, OnlyOnce, Numbered, Kept, Everywhere
  <2>4. NotOver /\ DoneIsBehind /\ ToldIsPlaced
    BY DEF Init, NotOver, DoneIsBehind, ToldIsPlaced
  <2> QED  BY <2>1, <2>2, <2>3, <2>4 DEF AiInv
<1>2. AiInv /\ [Next]_vars => AiInv'
  BY TypeStep, ResumeStep, SuggestionStep, NotOverStep DEF AiInv, SuggestionInv
<1> QED  BY <1>1, <1>2, PTL DEF Spec

(* ai_backend.ml resumes a conversation only if claude knows it, or if the  *)
(* query that marked it live belonged to an earlier one.                    *)
THEOREM ResumesAreSafe == Spec => []ResumeIsSafe
<1>1. AiInv => ResumeIsSafe
  BY DEF AiInv
<1> QED  BY <1>1, AiInvariant, PTL

(* Code that claude was told is delivered is in the stream, the stash or    *)
(* the prompt, once, unless it was cancelled or lost a race; and after the  *)
(* Ai_done of its query it is in the prompt.                                *)
THEOREM NoSuggestionIsLost == Spec => []SuggestionsArrive
<1>1. AiInv => SuggestionsArrive
  <2> SUFFICES ASSUME AiInv PROVE SuggestionsArrive
    OBVIOUS
  <2> DEFINE some == chunks \o pending_suggestion
             all == some \o placed
  <2>1. /\ chunks \in Seq(ChunkType) /\ pending_suggestion \in Seq(ChunkType)
        /\ placed \in Seq(ChunkType)
    BY DEF AiInv, TypeOK
  <2>2. /\ some \in Seq(ChunkType)
        /\ Suggestions(some) = Suggestions(chunks) \cup Suggestions(pending_suggestion)
        /\ Once(some)
    BY <2>1, ConcatSuggestions DEF AiInv, OnlyOnce
  <2>3. /\ Suggestions(all) = Everywhere
        /\ Once(all)
    <3> HIDE DEF some
    <3> QED  BY <2>1, <2>2, ConcatSuggestions DEF AiInv, OnlyOnce, Everywhere
  <2> HIDE DEF all
  <2>4. SuggestionsArrive <=>
          /\ Once(all)
          /\ answered \subseteq Suggestions(all) \cup given_up
          /\ ToldIsPlaced
    BY DEF SuggestionsArrive, Once, ToldIsPlaced, all
  <2> QED  BY <2>3, <2>4 DEF AiInv, Kept
<1> QED  BY <1>1, AiInvariant, PTL

=============================================================================
