---------------------------- MODULE HistoryProofs ----------------------------
(***************************************************************************)
(* Theorems about History, for every set of texts, every max_history and   *)
(* max_matches, and any number of rows and sessions: memory and table      *)
(* agree whatever statement fails, Down undoes Up, a search is exact, and  *)
(* what could be recalled is recalled after a restart.                     *)
(***************************************************************************)
EXTENDS History, SequenceTheorems, FiniteSetTheorems, TLAPS

-----------------------------------------------------------------------------
(* The inductive invariant *)

(* The sessions of the rows are past ones, or this one. *)
SessionsArePast ==
  \A i \in DOMAIN commands : commands[i].session <= session_id

(* Recall stands at an entry its needle stops at, or at an end. *)
AtAStop ==
  nav.current_index \in 1..(Len(nav.history) - 1) =>
    Stops(nav.history, nav.search_needle, nav.current_index - 1)

(* A row that could not be written ends the session. *)
UnsavedIsTheEnd ==
  unsaved => life # "running" /\ nav.history # <<>>

(* at leads from the places in s to rows of the same entries, in order; as  *)
(* it skips rows and no entries, it leads nowhere that is nearer the top.   *)
LeadsToRows(at, s) ==
  /\ at \in [DOMAIN s -> DOMAIN commands]
  /\ \A i \in DOMAIN s : commands[at[i]].entry = s[i] /\ i <= at[i]
  /\ \A i, j \in DOMAIN s : i < j => at[i] < at[j]

(* What can be recalled has rows, in order, others between them. *)
HasRows == \E at : LeadsToRows(at, Saved)

HistoryInv ==
  /\ TypeOK /\ SessionsArePast /\ OneRowIsOpen /\ MemoryIsTable
  /\ AtAStop /\ UnsavedIsTheEnd /\ HasRows

-----------------------------------------------------------------------------
(* Induction, and the ends of sets of numbers *)

(* A set of numbers has a least one. *)
LEMMA LeastNumber ==
  ASSUME NEW S \in SUBSET Nat, S # {}
  PROVE  \E x \in S : \A y \in S : x <= y
<1>1. \A x, y \in Nat : y < x => <<y, x>> \in OpToRel(<, Nat)
  BY DEF OpToRel
<1>2. \E R : /\ IsWellFoundedOn(R, Nat)
             /\ \A x, y \in Nat : y < x => <<y, x>> \in R
  BY <1>1, NatLessThanWellFounded, Zenon
<1>3. PICK R : /\ IsWellFoundedOn(R, Nat)
               /\ \A x, y \in Nat : y < x => <<y, x>> \in R
  BY <1>2
<1>4. PICK x \in S : \A y \in S : ~ (<<y, x>> \in R)
  BY <1>3, WFMin
<1>5. ASSUME NEW y \in S PROVE x <= y
  <2>1. ~ (y < x)
    BY <1>3, <1>4
  <2> QED  BY <2>1
<1> QED  BY <1>5

(* Induction, of a set rather than of a formula. *)
LEMMA SetInduction ==
  ASSUME NEW S \in SUBSET Nat, 0 \in S, \A n \in S : n + 1 \in S
  PROVE  S = Nat
<1> SUFFICES ASSUME Nat \ S # {} PROVE FALSE
  OBVIOUS
<1>1. PICK x \in Nat \ S : \A y \in Nat \ S : x <= y
  BY LeastNumber
<1>2. x - 1 \in Nat /\ x - 1 \in S
  BY <1>1
<1> QED  BY <1>1, <1>2

(* A set of numbers with a bound has a greatest one. *)
LEMMA GreatestNumber ==
  ASSUME NEW n \in Nat, NEW S \in SUBSET (0..n), S # {}
  PROVE  \E x \in S : \A y \in S : y <= x
<1> DEFINE T == {k \in Nat : \A y \in S : y <= k}
<1>1. T \in SUBSET Nat /\ n \in T
  OBVIOUS
<1>2. PICK k \in T : \A m \in T : k <= m
  BY <1>1, LeastNumber
<1>3. k \in Nat /\ \A y \in S : y <= k
  BY <1>2
<1>4. k \in S
  <2> SUFFICES ASSUME k \notin S PROVE FALSE
    OBVIOUS
  <2>1. \A y \in S : y <= k - 1
    BY <1>3
  <2>2. k - 1 \in Nat
    <3>1. PICK y : y \in S
      OBVIOUS
    <3>2. y \in 0..n
      BY <3>1
    <3> QED  BY <1>3, <2>1, <3>1, <3>2
  <2> QED  BY <1>2, <1>3, <2>1, <2>2
<1> QED  BY <1>3, <1>4

(* What Min chooses, of any numbers. *)
LEMMA MinIsLeast ==
  ASSUME NEW S \in SUBSET Nat, S # {}
  PROVE  Min(S) \in S /\ \A y \in S : Min(S) <= y
BY LeastNumber DEF Min

(* What Max chooses, of numbers with a bound. *)
LEMMA MaxIsGreatest ==
  ASSUME NEW n \in Nat, NEW S \in SUBSET (0..n), S # {}
  PROVE  Max(S) \in S /\ \A y \in S : y <= Max(S)
<1>1. PICK x \in S : \A y \in S : x >= y
  BY GreatestNumber
<1>2. Max(S) \in S /\ \A y \in S : Max(S) >= y
  BY <1>1 DEF Max
<1> QED  BY <1>2

-----------------------------------------------------------------------------
(* The search *)

(* f[i] is what the loop of search_matches has after i turns. *)
IsSearch(f, n, history, query, limit) ==
  f = [i \in 0..n |->
        IF i = 0 THEN <<>>
        ELSE Look(f[i - 1], nth_newest(history, i - 1), query, limit)]

(* The loop can be run for any number of turns. *)
LEMMA SearchRuns ==
  ASSUME NEW history, NEW query, NEW limit, NEW n \in Nat
  PROVE  \E f : IsSearch(f, n, history, query, limit)
<1> DEFINE Runs(m) == \E f : IsSearch(f, m, history, query, limit)
           S == {m \in Nat : Runs(m)}
<1>1. 0 \in S
  <2> DEFINE f == [i \in 0..0 |-> <<>>]
  <2>1. f = [i \in 0..0 |->
               IF i = 0 THEN <<>>
               ELSE Look(f[i - 1], nth_newest(history, i - 1), query, limit)]
    OBVIOUS
  <2>2. IsSearch(f, 0, history, query, limit)
    BY <2>1 DEF IsSearch
  <2> QED  BY <2>2
<1>2. ASSUME NEW m \in S PROVE m + 1 \in S
  <2>1. PICK f : IsSearch(f, m, history, query, limit)
    OBVIOUS
  <2> DEFINE g == [i \in 0..(m + 1) |->
                     IF i = m + 1 THEN Look(f[m], nth_newest(history, m), query, limit)
                     ELSE f[i]]
  <2>2. ASSUME NEW i \in 0..(m + 1)
        PROVE  g[i] = IF i = 0 THEN <<>>
                      ELSE Look(g[i - 1], nth_newest(history, i - 1), query, limit)
    <3>1. CASE i = m + 1
      <4>1. i # 0 /\ i - 1 = m /\ m \in 0..(m + 1) /\ m # m + 1
        BY <3>1
      <4>2. g[m] = f[m]
        BY <4>1
      <4> QED  BY <3>1, <4>1, <4>2
    <3>2. CASE i = 0
      <4>1. f[0] = <<>>
        BY <2>1 DEF IsSearch
      <4> QED  BY <3>2, <4>1
    <3>3. CASE i # m + 1 /\ i # 0
      <4>1. i \in 0..m /\ i - 1 \in 0..(m + 1) /\ i - 1 # m + 1
        BY <3>3
      <4>2. f[i] = Look(f[i - 1], nth_newest(history, i - 1), query, limit)
        BY <2>1, <3>3, <4>1 DEF IsSearch
      <4>3. g[i] = f[i] /\ g[i - 1] = f[i - 1]
        BY <3>3, <4>1
      <4> QED  BY <3>3, <4>2, <4>3
    <3> QED  BY <3>1, <3>2, <3>3
  <2>3. g = [i \in 0..(m + 1) |->
              IF i = 0 THEN <<>>
              ELSE Look(g[i - 1], nth_newest(history, i - 1), query, limit)]
    <3>1. g = [i \in 0..(m + 1) |-> g[i]]
      OBVIOUS
    <3> HIDE DEF g
    <3> QED  BY <2>2, <3>1
  <2>4. IsSearch(g, m + 1, history, query, limit)
    BY <2>3 DEF IsSearch
  <2> HIDE DEF g
  <2> QED  BY <2>4
<1>3. S \in SUBSET Nat
  OBVIOUS
<1>4. S = Nat
  <2> HIDE DEF S
  <2> QED  BY <1>1, <1>2, <1>3, SetInduction
<1> QED  BY <1>4

(* search_matches is where it stands after the last. *)
LEMMA SearchIsLoop ==
  ASSUME NEW history, NEW query, NEW limit, Len(history) \in Nat
  PROVE  \E f : /\ IsSearch(f, Len(history), history, query, limit)
                /\ search_matches(history, query, limit) = f[Len(history)]
<1> DEFINE f == CHOOSE g : IsSearch(g, Len(history), history, query, limit)
<1>1. IsSearch(f, Len(history), history, query, limit)
  BY SearchRuns
<1>2. search_matches(history, query, limit) = f[Len(history)]
  BY DEF search_matches, IsSearch
<1> QED  BY <1>1, <1>2

(* The place of the newest use of e in history. *)
NewestIn(history, e) ==
  CHOOSE i \in DOMAIN history :
    history[i] = e /\ \A j \in DOMAIN history : history[j] = e => j <= i

(* It is one, and the newest. *)
LEMMA NewestIsNewest ==
  ASSUME NEW X, NEW history \in Seq(X), NEW k \in DOMAIN history
  PROVE  /\ NewestIn(history, history[k]) \in DOMAIN history
         /\ history[NewestIn(history, history[k])] = history[k]
         /\ \A j \in DOMAIN history :
              history[j] = history[k] => j <= NewestIn(history, history[k])
<1> DEFINE S == {j \in DOMAIN history : history[j] = history[k]}
<1>1. DOMAIN history = 1..Len(history) /\ Len(history) \in Nat
  BY LenProperties
<1>2. S \in SUBSET (0..Len(history)) /\ S # {}
  BY <1>1
<1>3. PICK x \in S : \A y \in S : y <= x
  <2> HIDE DEF S
  <2> QED  BY <1>1, <1>2, GreatestNumber
<1>4. /\ x \in DOMAIN history /\ history[x] = history[k]
      /\ \A j \in DOMAIN history : history[j] = history[k] => j <= x
  BY <1>3
<1> QED  BY <1>4 DEF NewestIn

(* The entries a search for query must list, once n of them were looked at. *)
SearchedTo(history, query, limit, found, n) ==
  /\ found \in Seq(Range(history)) /\ Len(found) <= limit
  /\ \A x \in ToSet(found) :
       /\ Matches(query, x)
       /\ \E j \in DOMAIN history : j > Len(history) - n /\ history[j] = x
  /\ \A i, k \in DOMAIN found :
       i < k => NewestIn(history, found[i]) > NewestIn(history, found[k])
  /\ \A j \in DOMAIN history :
       j > Len(history) - n /\ Matches(query, history[j])
         /\ history[j] \notin ToSet(found) =>
       /\ Len(found) = limit
       /\ \A x \in ToSet(found) :
            NewestIn(history, x) > NewestIn(history, history[j])

(* One more entry. *)
LEMMA LookOnce ==
  ASSUME NEW X, NEW history \in Seq(X), NEW query, NEW limit \in Nat,
         NEW n \in Nat, n < Len(history), NEW found,
         SearchedTo(history, query, limit, found, n)
  PROVE  SearchedTo(history, query, limit,
                    Look(found, nth_newest(history, n), query, limit), n + 1)
<1> DEFINE p == Len(history) - n
           e == history[p]
           next == Look(found, e, query, limit)
<1>1. /\ Len(history) \in Nat /\ DOMAIN history = 1..Len(history)
      /\ p \in DOMAIN history /\ p \in Nat
      /\ \A j \in DOMAIN history : j > Len(history) - (n + 1) <=> j > p \/ j = p
  BY LenProperties
<1>2. /\ found \in Seq(Range(history)) /\ Len(found) <= limit /\ Len(found) \in Nat
      /\ DOMAIN found = 1..Len(found)
      /\ e \in Range(history)
  BY <1>1, LenProperties DEF SearchedTo, Range
<1>3. /\ NewestIn(history, e) \in Nat
      /\ p <= NewestIn(history, e)
      /\ \A j \in DOMAIN history : NewestIn(history, history[j]) \in Nat
      /\ \A j \in DOMAIN history : j <= NewestIn(history, history[j])
  BY <1>1, NewestIsNewest
<1>4. (\A j \in DOMAIN history : j > p => history[j] # e) => NewestIn(history, e) = p
  BY <1>1, <1>3, NewestIsNewest
<1>5. \A x \in ToSet(found) : NewestIn(history, x) \in Nat /\ NewestIn(history, x) > p
  <2> SUFFICES ASSUME NEW x \in ToSet(found)
               PROVE  NewestIn(history, x) \in Nat /\ NewestIn(history, x) > p
    OBVIOUS
  <2>1. PICK j \in DOMAIN history : j > p /\ history[j] = x
    BY DEF SearchedTo
  <2> QED  BY <1>1, <1>3, <2>1
<1>8. \A j \in DOMAIN history :
        j > p /\ Matches(query, history[j]) /\ history[j] \notin ToSet(found) =>
          /\ Len(found) = limit
          /\ \A x \in ToSet(found) :
               NewestIn(history, x) > NewestIn(history, history[j])
  BY DEF SearchedTo
<1> HIDE DEF p, e
<1>6. CASE Len(found) < limit /\ e \notin ToSet(found) /\ Matches(query, e)
  <2>1. next = Append(found, e)
    BY <1>6 DEF Look
  <2>2. /\ next \in Seq(Range(history)) /\ Len(next) = Len(found) + 1
        /\ DOMAIN next = 1..(Len(found) + 1)
        /\ \A i \in 1..Len(found) : next[i] = found[i]
        /\ next[Len(found) + 1] = e
    BY <1>2, <2>1, AppendProperties
  <2> HIDE DEF next
  <2>3. \A x : x \in ToSet(next) <=> x \in ToSet(found) \/ x = e
    BY <1>2, <2>2 DEF ToSet
  <2>4. \A j \in DOMAIN history : j > p => history[j] # e
    <3> SUFFICES ASSUME NEW j \in DOMAIN history, j > p, history[j] = e
                 PROVE  FALSE
      OBVIOUS
    <3>1. Len(found) = limit
      BY <1>6, <1>8
    <3> QED  BY <1>2, <1>6, <3>1
  <2>5. NewestIn(history, e) = p
    BY <1>4, <2>4
  <2>6. Len(next) <= limit
    BY <1>2, <1>6, <2>2
  <2>7. ASSUME NEW x \in ToSet(next)
        PROVE  /\ Matches(query, x)
               /\ \E j \in DOMAIN history : j > Len(history) - (n + 1) /\ history[j] = x
    <3>1. CASE x = e
      BY <1>1, <1>6, <3>1 DEF e
    <3>2. CASE x \in ToSet(found)
      BY <1>1, <3>2 DEF SearchedTo, p
    <3> QED  BY <2>3, <2>7, <3>1, <3>2
  <2>8. ASSUME NEW i \in DOMAIN next, NEW k \in DOMAIN next, i < k
        PROVE  NewestIn(history, next[i]) > NewestIn(history, next[k])
    <3>1. i \in DOMAIN found /\ next[i] = found[i] /\ found[i] \in ToSet(found)
      BY <1>2, <2>2, <2>8 DEF ToSet
    <3>2. CASE k \in DOMAIN found
      BY <1>2, <2>2, <2>8, <3>1, <3>2 DEF SearchedTo
    <3>3. CASE k = Len(found) + 1
      BY <1>5, <2>2, <2>5, <3>1, <3>3
    <3> QED  BY <1>2, <2>2, <3>2, <3>3
  <2>9. ASSUME NEW j \in DOMAIN history, j > Len(history) - (n + 1),
               Matches(query, history[j]), history[j] \notin ToSet(next)
        PROVE  FALSE
    <3>1. j > p /\ history[j] \notin ToSet(found)
      BY <1>1, <2>3, <2>9 DEF e
    <3>2. Len(found) = limit
      BY <1>8, <2>9, <3>1
    <3> QED  BY <1>2, <1>6, <3>2
  <2>10. SearchedTo(history, query, limit, next, n + 1)
    BY <2>2, <2>6, <2>7, <2>8, <2>9 DEF SearchedTo
  <2> QED  BY <2>10 DEF next, nth_newest, e, p
<1>7. CASE ~ (Len(found) < limit /\ e \notin ToSet(found) /\ Matches(query, e))
  <2>1. next = found
    BY <1>7 DEF Look
  <2>2. ASSUME NEW x \in ToSet(found)
        PROVE  /\ Matches(query, x)
               /\ \E j \in DOMAIN history : j > Len(history) - (n + 1) /\ history[j] = x
    BY <1>1 DEF SearchedTo, p
  <2>3. ASSUME NEW j \in DOMAIN history, j > Len(history) - (n + 1),
               Matches(query, history[j]), history[j] \notin ToSet(found)
        PROVE  /\ Len(found) = limit
               /\ \A x \in ToSet(found) :
                    NewestIn(history, x) > NewestIn(history, history[j])
    <3>1. CASE \E k \in DOMAIN history : k > p /\ history[k] = history[j]
      BY <2>3, <3>1 DEF SearchedTo, p
    <3>2. CASE ~ \E k \in DOMAIN history : k > p /\ history[k] = history[j]
      <4>1. j = p /\ history[j] = e
        BY <1>1, <2>3, <3>2 DEF e
      <4>2. NewestIn(history, history[j]) = p
        BY <1>4, <3>2, <4>1
      <4>3. Len(found) = limit
        <5>1. ~ (Len(found) < limit)
          BY <1>7, <2>3, <4>1
        <5>2. Len(found) \in Nat /\ limit \in Nat /\ Len(found) <= limit
          BY <1>2
        <5> QED  BY <5>1, <5>2
      <4> QED  BY <1>5, <4>2, <4>3
    <3> QED  BY <3>1, <3>2
  <2>4. SearchedTo(history, query, limit, found, n + 1)
    <3>1. /\ found \in Seq(Range(history)) /\ Len(found) <= limit
          /\ \A i, k \in DOMAIN found :
               i < k => NewestIn(history, found[i]) > NewestIn(history, found[k])
      BY DEF SearchedTo
    <3> QED  BY <2>2, <2>3, <3>1 DEF SearchedTo
  <2> QED  BY <2>1, <2>4 DEF next, nth_newest, e, p
<1> QED  BY <1>6, <1>7

(* All of them: search_matches is exact. *)
LEMMA SearchIsComplete ==
  ASSUME NEW X, NEW history \in Seq(X), NEW query, NEW limit \in Nat
  PROVE  SearchedTo(history, query, limit,
                    search_matches(history, query, limit), Len(history))
<1>0. Len(history) \in Nat /\ DOMAIN history = 1..Len(history)
  BY LenProperties
<1>1. PICK f : /\ IsSearch(f, Len(history), history, query, limit)
               /\ search_matches(history, query, limit) = f[Len(history)]
  BY <1>0, SearchIsLoop
<1> DEFINE Good(n) == n <= Len(history) => SearchedTo(history, query, limit, f[n], n)
           S == {n \in Nat : Good(n)}
<1>2. 0 \in S
  <2>1. f[0] = <<>>
    BY <1>0, <1>1 DEF IsSearch
  <2>2. /\ f[0] \in Seq(Range(history)) /\ Len(f[0]) = 0
        /\ ToSet(f[0]) = {} /\ DOMAIN f[0] = {}
    BY <2>1, EmptySeq DEF ToSet
  <2>3. \A j \in DOMAIN history : ~ (j > Len(history) - 0)
    BY <1>0
  <2>4. SearchedTo(history, query, limit, f[0], 0)
    BY <2>2, <2>3 DEF SearchedTo
  <2> QED  BY <2>4
<1>3. ASSUME NEW n \in S PROVE n + 1 \in S
  <2> SUFFICES ASSUME n + 1 <= Len(history)
               PROVE  SearchedTo(history, query, limit, f[n + 1], n + 1)
    OBVIOUS
  <2>1. n < Len(history) /\ SearchedTo(history, query, limit, f[n], n)
    BY <1>0
  <2>2. f[n + 1] = Look(f[n], nth_newest(history, n), query, limit)
    <3>1. n + 1 \in 0..Len(history) /\ n + 1 # 0 /\ (n + 1) - 1 = n
      BY <1>0
    <3> QED  BY <1>1, <3>1 DEF IsSearch
  <2> QED  BY <2>1, <2>2, LookOnce
<1>4. S \in SUBSET Nat
  OBVIOUS
<1>5. S = Nat
  <2> HIDE DEF S
  <2> QED  BY <1>2, <1>3, <1>4, SetInduction
<1> QED  BY <1>0, <1>1, <1>5

-----------------------------------------------------------------------------
(* Recall *)

NavType ==
  [history : Seq(Entry), current_index : Nat,
   saved_prompt : {<<>>} \cup {<<d>> : d \in Draft},
   search_needle : {<<>>} \cup {<<d.text>> : d \in Draft}]

(* The numbers in use are numbers. *)
LEMMA Bounds ==
  MaxHistory \in Nat \ {0} /\ MaxMatches \in Nat \ {0}
    /\ MaxRows \in Nat \ {0} /\ MaxSession \in Nat \ {0}
BY HistoryAssumption

(* The entries of a history can be typed. *)
LEMMA NthNewestTyped ==
  ASSUME NEW h \in Seq(Entry), NEW i \in 0..(Len(h) - 1)
  PROVE  nth_newest(h, i) \in Entry /\ nth_newest(h, i) \in Draft
<1>1. Len(h) \in Nat /\ Len(h) - i \in 1..Len(h)
  BY LenProperties
<1>2. h[Len(h) - i] \in Entry
  BY <1>1, ElementOfSeq
<1> QED  BY <1>2 DEF nth_newest, Entry

(* The needle is a text of the prompt. *)
LEMMA NeedleTyped ==
  ASSUME NEW n \in NavType, NEW p \in Draft
  PROVE  update_search_needle(n, p) \in {<<>>} \cup {<<d.text>> : d \in Draft}
BY DEF update_search_needle, NavType

(* Up stops at m, and at nothing before it. *)
BackTo(n, p, needle, m) ==
  /\ m \in n.current_index..(Len(n.history) - 1)
  /\ Stops(n.history, needle, m)
  /\ \A i \in n.current_index..(m - 1) : ~ Stops(n.history, needle, i)
  /\ go_back(n, p).result = <<nth_newest(n.history, m)>>
  /\ go_back(n, p).nav.current_index = m + 1

(* Down stops at m, and at nothing before it. *)
ForwardsTo(n, p, needle, m) ==
  /\ m \in 0..(n.current_index - 2)
  /\ Stops(n.history, needle, m)
  /\ \A i \in (m + 1)..(n.current_index - 2) : ~ Stops(n.history, needle, i)
  /\ go_forwards(n, p).result = <<nth_newest(n.history, m)>>
  /\ go_forwards(n, p).nav.current_index = m + 1

(* Down stops at nothing before the prompt that was left. *)
ForwardsHome(n, p, needle) ==
  /\ go_forwards(n, p).nav.current_index = 0
  /\ go_forwards(n, p).result = IF n.current_index = 0 THEN <<>> ELSE n.saved_prompt
  /\ \A i \in 0..(n.current_index - 2) : ~ Stops(n.history, needle, i)

(* Up: the nearest older stop, or the end. *)
LEMMA BackIs ==
  ASSUME NEW n \in NavType, n.current_index <= Len(n.history), NEW p \in Draft,
         NEW needle, needle = update_search_needle(n, p)
  PROVE  /\ go_back(n, p).nav =
              [history |-> n.history,
               current_index |-> go_back(n, p).nav.current_index,
               saved_prompt |-> IF n.current_index = 0 THEN <<p>> ELSE n.saved_prompt,
               search_needle |-> needle]
         /\ \/ /\ go_back(n, p).result = <<>>
               /\ go_back(n, p).nav.current_index = Len(n.history)
            \/ \E m : BackTo(n, p, needle, m)
<1> DEFINE S == Older(n, needle)
           x == IF S = {} THEN Len(n.history) ELSE Min(S) + 1
           r == IF S = {} THEN <<>> ELSE <<nth_newest(n.history, Min(S))>>
           s == IF n.current_index = 0 THEN <<p>> ELSE n.saved_prompt
<1>1. /\ n.history \in Seq(Entry) /\ n.current_index \in Nat
      /\ n = [history |-> n.history, current_index |-> n.current_index,
              saved_prompt |-> n.saved_prompt, search_needle |-> n.search_needle]
  BY DEF NavType
<1>2. Len(n.history) \in Nat
  BY <1>1, LenProperties
<1>3. go_back(n, p) =
        [result |-> r,
         nav |-> [n EXCEPT !.current_index = x, !.saved_prompt = s,
                           !.search_needle = needle]]
  BY DEF go_back
<1> HIDE DEF x, r, s
<1>4. /\ go_back(n, p).result = r
      /\ go_back(n, p).nav = [n EXCEPT !.current_index = x, !.saved_prompt = s,
                                       !.search_needle = needle]
  BY <1>3
<1>5. go_back(n, p).nav = [history |-> n.history, current_index |-> x,
                           saved_prompt |-> s, search_needle |-> needle]
  BY <1>1, <1>4
<1>6. go_back(n, p).nav.current_index = x
  BY <1>5
<1>7. CASE S = {}
  BY <1>4, <1>5, <1>6, <1>7 DEF x, r, s
<1>8. CASE S # {}
  <2>1. S \in SUBSET Nat
    BY <1>1, <1>2 DEF Older
  <2> DEFINE m == Min(S)
  <2>2. m \in S /\ \A y \in S : m <= y
    <3> HIDE DEF S
    <3> QED  BY <1>8, <2>1, MinIsLeast
  <2>3. m \in n.current_index..(Len(n.history) - 1) /\ Stops(n.history, needle, m)
    BY <2>2 DEF Older
  <2>4. \A i \in n.current_index..(m - 1) : ~ Stops(n.history, needle, i)
    <3> SUFFICES ASSUME NEW i \in n.current_index..(m - 1), Stops(n.history, needle, i)
                 PROVE  FALSE
      OBVIOUS
    <3>1. i \in n.current_index..(Len(n.history) - 1) /\ i < m /\ i \in Nat /\ m \in Nat
      BY <1>1, <1>2, <2>3
    <3>2. m <= i
      BY <2>2, <3>1 DEF Older
    <3> QED  BY <3>1, <3>2
  <2>5. x = m + 1 /\ r = <<nth_newest(n.history, m)>>
    BY <1>8 DEF x, r
  <2> HIDE DEF m, S
  <2>6. BackTo(n, p, needle, m)
    BY <1>4, <1>6, <2>3, <2>4, <2>5 DEF BackTo
  <2> QED  BY <1>4, <1>5, <1>6, <2>6 DEF s
<1> QED  BY <1>7, <1>8

(* Down: the nearest newer stop, or the prompt that was left. *)
LEMMA ForwardsIs ==
  ASSUME NEW n \in NavType, n.current_index <= Len(n.history), NEW p \in Draft,
         NEW needle, needle = update_search_needle(n, p)
  PROVE  /\ go_forwards(n, p).nav =
              [history |-> n.history,
               current_index |-> go_forwards(n, p).nav.current_index,
               saved_prompt |-> n.saved_prompt,
               search_needle |-> needle]
         /\ \/ ForwardsHome(n, p, needle)
            \/ \E m : ForwardsTo(n, p, needle, m)
<1> DEFINE S == Newer(n, needle)
           x == IF S = {} THEN 0 ELSE Max(S) + 1
           r == IF n.current_index = 0 THEN <<>>
                ELSE IF S = {} THEN n.saved_prompt
                ELSE <<nth_newest(n.history, Max(S))>>
<1>1. /\ n.history \in Seq(Entry) /\ n.current_index \in Nat
      /\ n = [history |-> n.history, current_index |-> n.current_index,
              saved_prompt |-> n.saved_prompt, search_needle |-> n.search_needle]
  BY DEF NavType
<1>3. go_forwards(n, p) =
        [result |-> r,
         nav |-> [n EXCEPT !.current_index = x, !.search_needle = needle]]
  BY DEF go_forwards
<1> HIDE DEF x, r
<1>4. /\ go_forwards(n, p).result = r
      /\ go_forwards(n, p).nav = [n EXCEPT !.current_index = x, !.search_needle = needle]
  BY <1>3
<1>5. go_forwards(n, p).nav = [history |-> n.history, current_index |-> x,
                               saved_prompt |-> n.saved_prompt, search_needle |-> needle]
  BY <1>1, <1>4
<1>6. go_forwards(n, p).nav.current_index = x
  BY <1>5
<1>7. CASE S = {}
  <2>1. \A i \in 0..(n.current_index - 2) : ~ Stops(n.history, needle, i)
    BY <1>7 DEF Newer
  <2>2. ForwardsHome(n, p, needle)
    BY <1>4, <1>6, <1>7, <2>1 DEF x, r, ForwardsHome
  <2> QED  BY <1>5, <1>6, <2>2
<1>8. CASE S # {}
  <2>1. S \in SUBSET (0..n.current_index) /\ n.current_index # 0
    BY <1>1, <1>8 DEF Newer
  <2> DEFINE m == Max(S)
  <2>2. m \in S /\ \A y \in S : y <= m
    <3> HIDE DEF S
    <3> QED  BY <1>1, <1>8, <2>1, MaxIsGreatest
  <2>3. m \in 0..(n.current_index - 2) /\ Stops(n.history, needle, m)
    BY <2>2 DEF Newer
  <2>4. \A i \in (m + 1)..(n.current_index - 2) : ~ Stops(n.history, needle, i)
    <3> SUFFICES ASSUME NEW i \in (m + 1)..(n.current_index - 2),
                        Stops(n.history, needle, i)
                 PROVE  FALSE
      OBVIOUS
    <3>1. i \in 0..(n.current_index - 2) /\ m < i /\ i \in Nat /\ m \in Nat
      BY <1>1, <2>3
    <3>2. i <= m
      BY <2>2, <3>1 DEF Newer
    <3> QED  BY <3>1, <3>2
  <2>5. x = m + 1 /\ r = <<nth_newest(n.history, m)>>
    BY <1>8, <2>1 DEF x, r
  <2> HIDE DEF m, S
  <2>6. ForwardsTo(n, p, needle, m)
    BY <1>4, <1>6, <2>3, <2>4, <2>5 DEF ForwardsTo
  <2> QED  BY <1>5, <1>6, <2>6
<1> QED  BY <1>7, <1>8

(* What Up and Down do to recall and prompt, as far as the types go. *)
LEMMA ShiftTyped ==
  ASSUME NEW n \in NavType, n.current_index <= Len(n.history),
         n.current_index > 0 => n.saved_prompt # <<>>,
         NEW p \in Draft, NEW w \in {go_back(n, p), go_forwards(n, p)}
  PROVE  /\ w.nav \in NavType
         /\ w.nav.history = n.history
         /\ w.nav.current_index <= Len(n.history)
         /\ w.nav.current_index > 0 => w.nav.saved_prompt # <<>>
         /\ (IF w.result = <<>> THEN p ELSE w.result[1]) \in Draft
         /\ w.nav.current_index \in 1..(Len(n.history) - 1) =>
              Stops(n.history, w.nav.search_needle, w.nav.current_index - 1)
<1> DEFINE needle == update_search_needle(n, p)
<1>1. needle \in {<<>>} \cup {<<d.text>> : d \in Draft}
  BY NeedleTyped
<1>2. /\ n.history \in Seq(Entry) /\ n.current_index \in Nat
      /\ n.saved_prompt \in {<<>>} \cup {<<d>> : d \in Draft}
      /\ Len(n.history) \in Nat
  BY LenProperties DEF NavType
<1> HIDE DEF needle
<1>3. CASE w = go_back(n, p)
  <2> DEFINE s == IF n.current_index = 0 THEN <<p>> ELSE n.saved_prompt
  <2>1. s \in {<<>>} \cup {<<d>> : d \in Draft} /\ s # <<>>
    BY <1>2
  <2>2. w.nav = [history |-> n.history, current_index |-> w.nav.current_index,
                 saved_prompt |-> s, search_needle |-> needle]
    BY <1>3, BackIs DEF needle
  <2>3. /\ w.nav.history = n.history /\ w.nav.saved_prompt = s
        /\ w.nav.search_needle = needle
    <3> HIDE DEF s
    <3> QED  BY <2>2
  <2>4. CASE w.result = <<>> /\ w.nav.current_index = Len(n.history)
    <3>1. w.nav.current_index \in Nat
      BY <1>2, <2>4
    <3>2. w.nav \in NavType
      <4> HIDE DEF s
      <4> QED  BY <1>1, <1>2, <2>1, <2>2, <3>1 DEF NavType
    <3> HIDE DEF s
    <3> QED  BY <1>2, <2>1, <2>3, <2>4, <3>2
  <2>5. ASSUME NEW m \in n.current_index..(Len(n.history) - 1),
               Stops(n.history, needle, m),
               w.result = <<nth_newest(n.history, m)>>,
               w.nav.current_index = m + 1
        PROVE  /\ w.nav \in NavType
               /\ w.nav.current_index <= Len(n.history)
               /\ (IF w.result = <<>> THEN p ELSE w.result[1]) \in Draft
               /\ w.nav.current_index \in 1..(Len(n.history) - 1) =>
                    Stops(n.history, w.nav.search_needle, w.nav.current_index - 1)
    <3>1. m \in 0..(Len(n.history) - 1) /\ m + 1 \in Nat /\ (m + 1) - 1 = m
      BY <1>2
    <3>2. w.result[1] \in Draft
      BY <1>2, <2>5, <3>1, NthNewestTyped
    <3>3. w.nav \in NavType
      <4> HIDE DEF s
      <4> QED  BY <1>1, <1>2, <2>1, <2>2, <2>5, <3>1 DEF NavType
    <3>4. w.nav.current_index <= Len(n.history)
      BY <1>2, <2>5, <3>1
    <3> QED  BY <2>3, <2>5, <3>1, <3>2, <3>3, <3>4
  <2>6. CASE \E m : BackTo(n, p, needle, m)
    <3>1. PICK m : BackTo(n, p, needle, m)
      BY <2>6
    <3> HIDE DEF s
    <3> QED  BY <1>3, <2>1, <2>3, <2>5, <3>1 DEF BackTo
  <2>7. \/ w.result = <<>> /\ w.nav.current_index = Len(n.history)
        \/ \E m : BackTo(n, p, needle, m)
    BY <1>3, BackIs DEF needle
  <2> QED  BY <2>4, <2>6, <2>7
<1>4. CASE w = go_forwards(n, p)
  <2>2. w.nav = [history |-> n.history, current_index |-> w.nav.current_index,
                 saved_prompt |-> n.saved_prompt, search_needle |-> needle]
    BY <1>4, ForwardsIs DEF needle
  <2>3. /\ w.nav.history = n.history /\ w.nav.saved_prompt = n.saved_prompt
        /\ w.nav.search_needle = needle
    BY <2>2
  <2>4. CASE /\ w.nav.current_index = 0
             /\ w.result = IF n.current_index = 0 THEN <<>> ELSE n.saved_prompt
    <3>1. w.nav \in NavType
      BY <1>1, <1>2, <2>2, <2>4 DEF NavType
    <3>2. (IF w.result = <<>> THEN p ELSE w.result[1]) \in Draft
      BY <1>2, <2>4
    <3> QED  BY <1>2, <2>3, <2>4, <3>1, <3>2
  <2>5. ASSUME NEW m \in 0..(n.current_index - 2),
               Stops(n.history, needle, m),
               w.result = <<nth_newest(n.history, m)>>,
               w.nav.current_index = m + 1
        PROVE  /\ w.nav \in NavType
               /\ w.nav.current_index <= Len(n.history)
               /\ w.nav.current_index > 0 => w.nav.saved_prompt # <<>>
               /\ (IF w.result = <<>> THEN p ELSE w.result[1]) \in Draft
               /\ w.nav.current_index \in 1..(Len(n.history) - 1) =>
                    Stops(n.history, w.nav.search_needle, w.nav.current_index - 1)
    <3>1. /\ m \in 0..(Len(n.history) - 1) /\ m + 1 \in Nat /\ (m + 1) - 1 = m
          /\ n.current_index > 0
      BY <1>2
    <3>2. w.result[1] \in Draft
      BY <1>2, <2>5, <3>1, NthNewestTyped
    <3>3. w.nav \in NavType
      BY <1>1, <1>2, <2>2, <2>5, <3>1 DEF NavType
    <3>4. w.nav.current_index <= Len(n.history)
      BY <1>2, <2>5, <3>1
    <3> QED  BY <2>3, <2>5, <3>1, <3>2, <3>3, <3>4
  <2>6. CASE \E m : ForwardsTo(n, p, needle, m)
    <3>1. PICK m : ForwardsTo(n, p, needle, m)
      BY <2>6
    <3> QED  BY <1>4, <2>3, <2>5, <3>1 DEF ForwardsTo
  <2>7. ForwardsHome(n, p, needle) \/ \E m : ForwardsTo(n, p, needle, m)
    BY <1>4, ForwardsIs DEF needle
  <2> QED  BY <1>4, <2>4, <2>6, <2>7 DEF ForwardsHome
<1> QED  BY <1>3, <1>4

(* Down takes back an Up that found something. *)
LEMMA DownTakesUpBack ==
  ASSUME TypeOK, AtAStop
  PROVE  DownUndoesUp
<1> DEFINE up == go_back(nav, prompt)
           idx == nav.current_index
           h == nav.history
           needle == update_search_needle(nav, prompt)
           down == go_forwards(up.nav, up.result[1])
<1> SUFFICES ASSUME up.result # <<>>,
                    idx = 0 \/ prompt = nth_newest(h, idx - 1)
             PROVE  down.result = <<prompt>> /\ down.nav.current_index = idx
  BY DEF DownUndoesUp
<1>1. /\ nav \in NavType /\ idx <= Len(h) /\ prompt \in Draft /\ h \in Seq(Entry)
      /\ idx \in Nat /\ Len(h) \in Nat
      /\ idx > 0 => nav.saved_prompt # <<>>
  BY LenProperties DEF TypeOK, NavType
<1>2. PICK m : BackTo(nav, prompt, needle, m)
  BY <1>1, BackIs
<1>3. /\ m \in idx..(Len(h) - 1) /\ Stops(h, needle, m)
      /\ \A i \in idx..(m - 1) : ~ Stops(h, needle, i)
      /\ up.result = <<nth_newest(h, m)>>
      /\ up.nav.current_index = m + 1
  BY <1>2 DEF BackTo
<1>4. up.nav = [history |-> h, current_index |-> m + 1,
                saved_prompt |-> IF idx = 0 THEN <<prompt>> ELSE nav.saved_prompt,
                search_needle |-> needle]
  BY <1>1, <1>3, BackIs
<1>5. /\ up.nav.history = h /\ up.nav.search_needle = needle
      /\ idx = 0 => up.nav.saved_prompt = <<prompt>>
  BY <1>4
<1>6. /\ up.nav \in NavType /\ m + 1 <= Len(h)
      /\ up.result[1] \in Draft /\ up.result[1] = nth_newest(h, m)
  <2>1. /\ up.nav \in NavType /\ up.nav.current_index <= Len(h)
        /\ (IF up.result = <<>> THEN prompt ELSE up.result[1]) \in Draft
    BY <1>1, ShiftTyped
  <2> QED  BY <1>3, <2>1
<1> HIDE DEF up, needle
<1>7. update_search_needle(up.nav, up.result[1]) = needle
  <2>1. m \in Nat /\ m + 1 > 0 /\ (m + 1) - 1 = m /\ m < Len(h)
    BY <1>1, <1>3
  <2>2. prompt_matches_entry(up.nav, up.result[1], m + 1)
    BY <1>5, <1>6, <2>1 DEF prompt_matches_entry
  <2> QED  BY <1>3, <1>5, <2>2 DEF update_search_needle
<1>8. ForwardsHome(up.nav, up.result[1], needle)
        \/ \E k : ForwardsTo(up.nav, up.result[1], needle, k)
  BY <1>3, <1>5, <1>6, <1>7, ForwardsIs
<1>9. (m + 1) - 2 = m - 1 /\ m \in Nat
  BY <1>1, <1>3
<1>10. ASSUME idx > 0
       PROVE  idx - 1 \in 0..(m - 1) /\ Stops(h, needle, idx - 1)
  <2>1. /\ idx \in 1..(Len(h) - 1) /\ idx - 1 < Len(h) /\ idx # 0
        /\ idx - 1 \in 0..(m - 1)
    BY <1>1, <1>3, <1>10
  <2>2. prompt_matches_entry(nav, prompt, idx)
    BY <1>10, <2>1 DEF prompt_matches_entry
  <2>3. needle = nav.search_needle
    BY <2>2 DEF update_search_needle, needle
  <2> QED  BY <2>1, <2>3 DEF AtAStop
<1>11. CASE ForwardsHome(up.nav, up.result[1], needle)
  <2>1. \A i \in 0..(m - 1) : ~ Stops(h, needle, i)
    BY <1>3, <1>5, <1>9, <1>11 DEF ForwardsHome
  <2>2. idx = 0
    BY <1>1, <1>10, <2>1
  <2> QED  BY <1>3, <1>5, <1>9, <1>11, <2>2 DEF ForwardsHome
<1>12. ASSUME NEW k, ForwardsTo(up.nav, up.result[1], needle, k)
       PROVE  down.result = <<prompt>> /\ down.nav.current_index = idx
  <2>1. /\ k \in 0..(m - 1) /\ Stops(h, needle, k)
        /\ \A i \in (k + 1)..(m - 1) : ~ Stops(h, needle, i)
        /\ down.result = <<nth_newest(h, k)>>
        /\ down.nav.current_index = k + 1
    BY <1>3, <1>5, <1>9, <1>12 DEF ForwardsTo
  <2>2. ~ (k >= idx)
    BY <1>1, <1>3, <1>9, <2>1
  <2>3. idx > 0 /\ idx - 1 \in 0..(m - 1) /\ Stops(h, needle, idx - 1)
    BY <1>1, <1>10, <2>1, <2>2
  <2>4. ~ (k < idx - 1)
    BY <1>1, <1>9, <2>1, <2>3
  <2>5. k = idx - 1
    BY <1>1, <2>1, <2>2, <2>4
  <2> QED  BY <1>1, <2>1, <2>3, <2>5
<1> QED  BY <1>8, <1>11, <1>12

-----------------------------------------------------------------------------
(* The table *)

Row == [session : 0..MaxSession, entry : Entry, status : Status]

(* Closing a row changes its status, and nothing else of the table. *)
LEMMA FinishedRows ==
  ASSUME TypeOK, NEW s \in Status
  PROVE  /\ Finished(s) \in Seq(Row)
         /\ Len(Finished(s)) = Len(commands)
         /\ DOMAIN Finished(s) = DOMAIN commands
         /\ \A i \in DOMAIN commands :
              /\ Finished(s)[i].session = commands[i].session
              /\ Finished(s)[i].entry = commands[i].entry
              /\ i # active_command_id => Finished(s)[i] = commands[i]
              /\ i = active_command_id =>
                   Finished(s)[i].status =
                     IF active_command_had_error THEN "error" ELSE s
<1> DEFINE a == active_command_id
           t == IF active_command_had_error THEN "error" ELSE s
<1>1. /\ commands \in Seq(Row) /\ Len(commands) \in Nat
      /\ DOMAIN commands = 1..Len(commands)
      /\ a \in 0..Len(commands) /\ t \in Status
  BY LenProperties DEF TypeOK, Row, Status
<1> HIDE DEF t
<1>2. CASE a = NoRow
  BY <1>1, <1>2 DEF Finished, NoRow
<1>3. CASE a # NoRow
  <2>1. a \in 1..Len(commands)
    BY <1>1, <1>3 DEF NoRow
  <2>2. commands[a] \in Row
    BY <1>1, <2>1, ElementOfSeq
  <2> DEFINE e == [session |-> commands[a].session, entry |-> commands[a].entry,
                   status |-> t]
  <2>3. e \in Row
    BY <1>1, <2>2 DEF Row
  <2>4. Finished(s) = [commands EXCEPT ![a] = e]
    <3>1. [commands[a] EXCEPT !.status = t] = e
      BY <2>2 DEF Row
    <3> QED  BY <1>3, <3>1 DEF Finished, t
  <2>5. e.session = commands[a].session /\ e.entry = commands[a].entry /\ e.status = t
    OBVIOUS
  <2> HIDE DEF e
  <2>6. /\ Finished(s) \in Seq(Row)
        /\ Len(Finished(s)) = Len(commands)
        /\ \A j \in 1..Len(commands) : Finished(s)[j] = IF j = a THEN e ELSE commands[j]
    BY <1>1, <2>1, <2>3, <2>4, ExceptSeq
  <2>7. DOMAIN Finished(s) = DOMAIN commands
    BY <1>1, <2>6, LenProperties
  <2> QED  BY <1>1, <2>5, <2>6, <2>7 DEF t
<1> QED  BY <1>2, <1>3

(* What is loaded is the end of the table. *)
LEMMA Loaded ==
  ASSUME TypeOK
  PROVE  LET loaded == command_history_from_db(commands)
         IN  /\ loaded \in Seq(Entry)
             /\ Len(loaded) <= Len(commands)
             /\ DOMAIN loaded = 1..Len(loaded)
             /\ \A i \in 1..Len(loaded) :
                  /\ Len(commands) - Len(loaded) + i \in DOMAIN commands
                  /\ loaded[i] = commands[Len(commands) - Len(loaded) + i].entry
<1> DEFINE first == IF Len(commands) > MaxHistory THEN Len(commands) - MaxHistory + 1 ELSE 1
           n == Len(commands) - first + 1
           loaded == command_history_from_db(commands)
<1>1. /\ commands \in Seq(Row) /\ Len(commands) \in Nat
      /\ DOMAIN commands = 1..Len(commands)
  BY LenProperties DEF TypeOK, Row
<1>2. first \in Nat \ {0} /\ n \in Nat /\ n <= Len(commands)
  BY <1>1, Bounds
<1>3. loaded = [i \in 1..n |-> commands[first + i - 1].entry]
  BY DEF command_history_from_db
<1>4. first = Len(commands) - n + 1
  BY <1>1, <1>2
<1> HIDE DEF first, n, loaded
<1>5. ASSUME NEW i \in 1..n
      PROVE  /\ Len(commands) - n + i \in DOMAIN commands
             /\ loaded[i] = commands[Len(commands) - n + i].entry
             /\ loaded[i] \in Entry
  <2>1. /\ Len(commands) - n + i \in 1..Len(commands)
        /\ first + i - 1 = Len(commands) - n + i
    BY <1>1, <1>2, <1>4
  <2>2. commands[Len(commands) - n + i] \in Row
    BY <1>1, <2>1, ElementOfSeq
  <2> QED  BY <1>1, <1>3, <2>1, <2>2 DEF Row
<1>6. loaded \in Seq(Entry) /\ Len(loaded) = n /\ DOMAIN loaded = 1..n
  <2>1. loaded \in [1..n -> Entry]
    BY <1>3, <1>5
  <2> QED  BY <1>2, <2>1, SeqDef, LenProperties
<1> QED  BY <1>1, <1>2, <1>5, <1>6 DEF loaded

-----------------------------------------------------------------------------
(* Types *)

(* The texts in use: a prompt that is not blank is an entry. *)
LEMMA PromptIsEntry ==
  ASSUME TypeOK, ~IsBlank(prompt.text)
  PROVE  prompt \in Entry
BY DEF TypeOK, Entry

(* Recall at rest is typed, and at no stop. *)
LEMMA RestTyped ==
  ASSUME NEW h \in Seq(Entry)
  PROVE  /\ AtRest(h) \in NavType
         /\ AtRest(h).history = h
         /\ AtRest(h).current_index = 0
         /\ 0 <= Len(h)
<1>1. Len(h) \in Nat
  BY LenProperties
<1> QED  BY <1>1 DEF AtRest, NavType

(* TypeOK with recall typed by name. *)
LEMMA TypeOKIs ==
  TypeOK <=>
    /\ commands \in Seq(Row)
    /\ session_id \in 1..MaxSession
    /\ life \in {"running", "closing", "ended"}
    /\ nav \in NavType
    /\ nav.current_index <= Len(nav.history)
    /\ nav.current_index > 0 => nav.saved_prompt # <<>>
    /\ active_command_id \in 0..Len(commands)
    /\ active_command_had_error \in BOOLEAN
    /\ prompt \in Draft
    /\ unsaved \in BOOLEAN
BY DEF TypeOK, Row, NavType

(* Leaving the loop keeps the types of what it changes. *)
LEMMA LeaveTyped ==
  ASSUME NEW h \in Seq(Entry), LeaveLoop(h)
  PROVE  /\ life' \in {"running", "closing", "ended"}
         /\ nav' \in NavType /\ nav'.current_index <= Len(nav'.history)
         /\ nav'.current_index > 0 => nav'.saved_prompt # <<>>
         /\ prompt' \in Draft
         /\ nav'.history = h /\ nav'.current_index = 0
         /\ life' = "closing"
BY RestTyped, HistoryAssumption DEF LeaveLoop

(* Closing a row keeps the types of what it changes. *)
LEMMA FinishTyped ==
  ASSUME TypeOK, NEW s \in Status, finish_active(s)
  PROVE  /\ commands' \in Seq(Row)
         /\ active_command_id' \in 0..Len(commands')
         /\ active_command_had_error' \in BOOLEAN
<1>1. commands' \in Seq(Row) /\ active_command_id' = 0
  BY FinishedRows DEF finish_active, NoRow
<1>2. 0 \in 0..Len(commands')
  BY <1>1, LenProperties
<1>3. active_command_had_error' \in BOOLEAN
  BY DEF finish_active
<1> QED  BY <1>1, <1>2, <1>3

(* Every step keeps the types. *)
LEMMA TypeStep ==
  ASSUME TypeOK, [Next]_vars
  PROVE  TypeOK'
<1> USE DEF row
<1>0. /\ commands \in Seq(Row)
      /\ session_id \in 1..MaxSession
      /\ life \in {"running", "closing", "ended"}
      /\ nav \in NavType
      /\ nav.current_index <= Len(nav.history)
      /\ nav.current_index > 0 => nav.saved_prompt # <<>>
      /\ active_command_id \in 0..Len(commands)
      /\ active_command_had_error \in BOOLEAN
      /\ prompt \in Draft
      /\ unsaved \in BOOLEAN
      /\ nav.history \in Seq(Entry)
      /\ Blank \in Draft
  BY TypeOKIs, HistoryAssumption DEF NavType
<1> SUFFICES /\ commands' \in Seq(Row)
             /\ session_id' \in 1..MaxSession
             /\ life' \in {"running", "closing", "ended"}
             /\ nav' \in NavType
             /\ nav'.current_index <= Len(nav'.history)
             /\ nav'.current_index > 0 => nav'.saved_prompt # <<>>
             /\ active_command_id' \in 0..Len(commands')
             /\ active_command_had_error' \in BOOLEAN
             /\ prompt' \in Draft
             /\ unsaved' \in BOOLEAN
  BY DEF TypeOK, Row, NavType
<1>1. CASE Type \/ SubmitBlank \/ UNCHANGED vars
  BY <1>0, <1>1 DEF Type, SubmitBlank, vars
<1>2. CASE Up \/ Down
  <2>1. PICK w \in {go_back(nav, prompt), go_forwards(nav, prompt)} : Shift(w)
    BY <1>2 DEF Up, Down
  <2>2. /\ nav' \in NavType /\ nav'.current_index <= Len(nav'.history)
        /\ nav'.current_index > 0 => nav'.saved_prompt # <<>>
        /\ prompt' \in Draft
    BY <1>0, <2>1, ShiftTyped DEF Shift
  <2> QED  BY <1>0, <2>1, <2>2 DEF Shift
<1>3. CASE AcceptMatch
  <2>1. PICK q \in Query :
          \E e \in ToSet(search_matches(nav.history, q, MaxMatches)) : prompt' = e
    BY <1>3 DEF AcceptMatch
  <2>2. SearchedTo(nav.history, q, MaxMatches,
                   search_matches(nav.history, q, MaxMatches), Len(nav.history))
    BY <1>0, Bounds, SearchIsComplete
  <2>3. \E j \in DOMAIN nav.history : nav.history[j] = prompt'
    BY <2>1, <2>2 DEF SearchedTo
  <2>4. prompt' \in Entry
    BY <1>0, <2>3, ElementOfSeq, LenProperties
  <2> QED  BY <1>0, <1>3, <2>4 DEF AcceptMatch, Entry
<1>4. CASE Submit
  <2>1. prompt \in Entry
    BY <1>4, PromptIsEntry DEF Submit
  <2>2. Append(nav.history, prompt) \in Seq(Entry)
    BY <1>0, <2>1, AppendProperties
  <2>3. "interrupted" \in Status
    BY DEF Status
  <2>4. CASE /\ Remember(prompt)
             /\ commands' = Append(Finished("interrupted"), NewRow(prompt))
             /\ active_command_id' = Len(commands) + 1
             /\ active_command_had_error' = FALSE
             /\ prompt' = Blank
             /\ UNCHANGED <<life, unsaved, session_id>>
    <3>1. NewRow(prompt) \in Row
      BY <1>0, <2>1, Bounds DEF NewRow, Row, Status
    <3>2. Finished("interrupted") \in Seq(Row) /\ Len(Finished("interrupted")) = Len(commands)
      BY <2>3, FinishedRows
    <3>3. commands' \in Seq(Row) /\ Len(commands') = Len(commands) + 1
      BY <2>4, <3>1, <3>2, AppendProperties
    <3>4. active_command_id' \in 0..Len(commands')
      BY <1>0, <2>4, <3>3, LenProperties
    <3>5. /\ nav' \in NavType /\ nav'.current_index = 0
          /\ 0 <= Len(nav'.history)
      BY <2>2, <2>4, RestTyped DEF Remember
    <3>6. active_command_had_error' \in BOOLEAN
      BY <2>4
    <3> QED  BY <1>0, <2>4, <3>3, <3>4, <3>5, <3>6
  <2>5. CASE LeaveLoop(nav.history) /\ UNCHANGED <<commands, row, unsaved, session_id>>
    BY <1>0, <2>5, LeaveTyped
  <2>6. CASE /\ finish_active("interrupted") /\ LeaveLoop(Append(nav.history, prompt))
             /\ unsaved' = TRUE /\ UNCHANGED session_id
    <3>1. /\ commands' \in Seq(Row) /\ active_command_id' \in 0..Len(commands')
          /\ active_command_had_error' \in BOOLEAN
      BY <2>3, <2>6, FinishTyped
    <3> QED  BY <1>0, <2>2, <2>6, <3>1, LeaveTyped
  <2> QED  BY <1>4, <2>4, <2>5, <2>6 DEF Submit
<1>5. CASE RecordOutput
  <2>1. active_command_had_error' \in BOOLEAN
    BY <1>0, <1>5 DEF RecordOutput
  <2>2. CASE UNCHANGED <<life, nav, prompt>>
    BY <1>0, <1>5, <2>1, <2>2 DEF RecordOutput
  <2>3. CASE LeaveLoop(nav.history)
    BY <1>0, <1>5, <2>1, <2>3, LeaveTyped DEF RecordOutput
  <2> QED  BY <1>5, <2>2, <2>3 DEF RecordOutput
<1>6. CASE RecordInternalError
  <2>1. CASE finish_active("error") /\ UNCHANGED <<life, nav, prompt, session_id, unsaved>>
    <3>1. /\ commands' \in Seq(Row) /\ active_command_id' \in 0..Len(commands')
          /\ active_command_had_error' \in BOOLEAN
      BY <2>1, FinishTyped DEF Status
    <3> QED  BY <1>0, <2>1, <3>1
  <2>2. CASE /\ active_command_had_error' = TRUE
             /\ UNCHANGED <<life, nav, prompt>> \/ LeaveLoop(nav.history)
             /\ UNCHANGED <<commands, active_command_id, session_id, unsaved>>
    <3>1. CASE UNCHANGED <<life, nav, prompt>>
      BY <1>0, <2>2, <3>1
    <3>2. CASE LeaveLoop(nav.history)
      BY <1>0, <2>2, <3>2, LeaveTyped
    <3> QED  BY <2>2, <3>1, <3>2
  <2> QED  BY <1>6, <2>1, <2>2 DEF RecordInternalError
<1>7. CASE EndRow
  <2>1. CASE /\ \E s \in {"done", "interrupted"} : finish_active(s)
             /\ UNCHANGED <<life, nav, prompt, session_id, unsaved>>
    <3>1. /\ commands' \in Seq(Row) /\ active_command_id' \in 0..Len(commands')
          /\ active_command_had_error' \in BOOLEAN
      BY <2>1, FinishTyped DEF Status
    <3> QED  BY <1>0, <2>1, <3>1
  <2>2. CASE LeaveLoop(nav.history) /\ UNCHANGED <<commands, row, session_id, unsaved>>
    BY <1>0, <2>2, LeaveTyped
  <2> QED  BY <1>7, <2>1, <2>2 DEF EndRow
<1>8. CASE Quit
  BY <1>0, <1>8, LeaveTyped DEF Quit
<1>9. CASE Close
  <2>1. CASE finish_active("interrupted")
    <3>1. /\ commands' \in Seq(Row) /\ active_command_id' \in 0..Len(commands')
          /\ active_command_had_error' \in BOOLEAN
      BY <2>1, FinishTyped DEF Status
    <3> QED  BY <1>0, <1>9, <3>1 DEF Close
  <2>2. CASE UNCHANGED <<commands, row>>
    BY <1>0, <1>9, <2>2 DEF Close
  <2> QED  BY <1>9, <2>1, <2>2 DEF Close
<1>10. CASE Crash
  <2>1. nav' \in NavType /\ nav'.current_index = 0 /\ 0 <= Len(nav'.history)
    BY <1>0, <1>10, RestTyped DEF Crash
  <2> QED  BY <1>0, <1>10, <2>1 DEF Crash
<1>11. CASE Restart
  <2>1. command_history_from_db(commands) \in Seq(Entry)
    BY Loaded
  <2>2. nav' \in NavType /\ nav'.current_index = 0 /\ 0 <= Len(nav'.history)
    BY <1>11, <2>1, RestTyped DEF Restart
  <2>3. session_id' \in 1..MaxSession /\ active_command_id' \in 0..Len(commands')
    BY <1>0, <1>11, Bounds, LenProperties DEF Restart, NoRow
  <2>4. active_command_had_error' \in BOOLEAN /\ unsaved' \in BOOLEAN
    BY <1>11 DEF Restart
  <2> QED  BY <1>0, <1>11, <2>2, <2>3, <2>4 DEF Restart
<1>12. CASE OtherProcess
  <2>1. PICK e \in Entry :
          commands' = Append(commands, [session |-> 0, entry |-> e, status |-> "done"])
    BY <1>12 DEF OtherProcess
  <2>2. [session |-> 0, entry |-> e, status |-> "done"] \in Row
    BY Bounds DEF Row, Status
  <2>3. commands' \in Seq(Row) /\ Len(commands') = Len(commands) + 1
    BY <1>0, <2>1, <2>2, AppendProperties
  <2>4. active_command_id' \in 0..Len(commands')
    BY <1>0, <1>12, <2>3, LenProperties DEF OtherProcess
  <2> QED  BY <1>0, <1>12, <2>3, <2>4 DEF OtherProcess
<1> QED  BY <1>1, <1>2, <1>3, <1>4, <1>5, <1>6, <1>7, <1>8, <1>9, <1>10, <1>11,
            <1>12 DEF Next

(* Every step leaves recall at a stop or at an end. *)
LEMMA StopStep ==
  ASSUME TypeOK, AtAStop, [Next]_vars
  PROVE  AtAStop'
<1> USE DEF row
<1>0. /\ nav \in NavType /\ nav.history \in Seq(Entry) /\ prompt \in Draft
      /\ nav.current_index <= Len(nav.history)
      /\ nav.current_index > 0 => nav.saved_prompt # <<>>
  BY TypeOKIs DEF NavType
<1>1. CASE Up \/ Down
  <2>1. PICK w \in {go_back(nav, prompt), go_forwards(nav, prompt)} : Shift(w)
    BY <1>1 DEF Up, Down
  <2> QED  BY <1>0, <2>1, ShiftTyped DEF Shift, AtAStop
<1>2. CASE UNCHANGED nav
  BY <1>2 DEF AtAStop
<1>3. CASE \E h : nav' = AtRest(h)
  <2>1. nav'.current_index = 0
    BY <1>3 DEF AtRest
  <2> QED  BY <2>1 DEF AtAStop
<1>4. \/ Up \/ Down \/ UNCHANGED nav
      \/ \E h : nav' = AtRest(h)
  BY DEF Next, Type, AcceptMatch, Submit, SubmitBlank, Remember, LeaveLoop,
         RecordOutput, RecordInternalError, EndRow, Quit, Close, Crash, Restart,
         OtherProcess, vars
<1> QED  BY <1>1, <1>2, <1>3, <1>4

-----------------------------------------------------------------------------
(* Rows and memory *)

(* What a step can do to them: nothing, ... *)
LeavesRows ==
  /\ UNCHANGED <<commands, session_id, active_command_id, unsaved>>
  /\ nav'.history = nav.history
  /\ life' = "running" => life = "running"

(* ... close the active row, ... *)
ClosesRow ==
  /\ \E s \in Status \ {"running"} : finish_active(s)
  /\ UNCHANGED <<session_id, unsaved>>
  /\ nav'.history = nav.history
  /\ life' = "running" => life = "running"

(* ... begin one, ... *)
BeginsRow ==
  /\ life = "running" /\ ~IsBlank(prompt.text)
  /\ nav'.history = Append(nav.history, prompt)
  /\ commands' = Append(Finished("interrupted"), NewRow(prompt))
  /\ active_command_id' = Len(commands) + 1
  /\ UNCHANGED <<life, session_id, unsaved>>

(* ... fail to begin it, ... *)
FailsToBegin ==
  /\ life = "running" /\ ~IsBlank(prompt.text)
  /\ nav'.history = Append(nav.history, prompt)
  /\ finish_active("interrupted")
  /\ unsaved' = TRUE
  /\ life' = "closing"
  /\ UNCHANGED session_id

(* ... or Restart, or OtherProcess. *)
LEMMA StepKinds ==
  ASSUME TypeOK, [Next]_vars
  PROVE  \/ LeavesRows \/ ClosesRow \/ BeginsRow \/ FailsToBegin
         \/ Restart \/ OtherProcess
<1> USE DEF row
<1>0. /\ nav \in NavType /\ nav.history \in Seq(Entry) /\ prompt \in Draft
      /\ nav.current_index <= Len(nav.history)
      /\ nav.current_index > 0 => nav.saved_prompt # <<>>
      /\ \A h : AtRest(h).history = h
  BY TypeOKIs DEF NavType, AtRest
<1>1. CASE Type \/ SubmitBlank \/ AcceptMatch \/ UNCHANGED vars
  BY <1>1 DEF Type, SubmitBlank, AcceptMatch, vars, LeavesRows
<1>2. CASE Up \/ Down
  <2>1. PICK w \in {go_back(nav, prompt), go_forwards(nav, prompt)} : Shift(w)
    BY <1>2 DEF Up, Down
  <2>2. nav'.history = nav.history
    BY <1>0, <2>1, ShiftTyped DEF Shift
  <2> QED  BY <2>1, <2>2 DEF Shift, LeavesRows
<1>3. CASE Submit
  BY <1>0, <1>3 DEF Submit, Remember, LeaveLoop, LeavesRows, BeginsRow, FailsToBegin
<1>4. CASE RecordOutput
  BY <1>0, <1>4 DEF RecordOutput, LeaveLoop, LeavesRows
<1>5. CASE RecordInternalError
  BY <1>0, <1>5 DEF RecordInternalError, LeaveLoop, LeavesRows, ClosesRow, Status
<1>6. CASE EndRow
  BY <1>0, <1>6 DEF EndRow, LeaveLoop, LeavesRows, ClosesRow, Status
<1>7. CASE Quit \/ Crash
  BY <1>0, <1>7 DEF Quit, Crash, LeaveLoop, LeavesRows
<1>8. CASE Close
  BY <1>0, <1>8 DEF Close, LeavesRows, ClosesRow, Status
<1> QED  BY <1>1, <1>2, <1>3, <1>4, <1>5, <1>6, <1>7, <1>8 DEF Next

(* The table after a row was begun. *)
LEMMA BegunRows ==
  ASSUME TypeOK, BeginsRow
  PROVE  /\ Len(commands) \in Nat
         /\ DOMAIN commands = 1..Len(commands)
         /\ DOMAIN commands' = 1..(Len(commands) + 1)
         /\ \A i \in DOMAIN commands :
              /\ commands'[i].session = commands[i].session
              /\ commands'[i].entry = commands[i].entry
              /\ i # active_command_id => commands'[i] = commands[i]
              /\ i = active_command_id => commands'[i].status # "running"
         /\ commands'[Len(commands) + 1] = NewRow(prompt)
<1> DEFINE f == Finished("interrupted")
<1>0. "interrupted" \in Status
  BY DEF Status
<1>1. /\ commands \in Seq(Row) /\ Len(commands) \in Nat
      /\ DOMAIN commands = 1..Len(commands)
  BY LenProperties DEF TypeOK, Row
<1>2. /\ f \in Seq(Row) /\ Len(f) = Len(commands) /\ DOMAIN f = DOMAIN commands
      /\ \A i \in DOMAIN commands :
           /\ f[i].session = commands[i].session
           /\ f[i].entry = commands[i].entry
           /\ i # active_command_id => f[i] = commands[i]
           /\ i = active_command_id =>
                f[i].status = IF active_command_had_error THEN "error" ELSE "interrupted"
  BY <1>0, FinishedRows
<1>3. NewRow(prompt) \in Row
  <2>1. prompt \in Entry
    BY PromptIsEntry DEF BeginsRow
  <2> QED  BY <2>1, Bounds DEF NewRow, Row, Status, TypeOK
<1>4. commands' = Append(f, NewRow(prompt))
  BY DEF BeginsRow
<1> HIDE DEF f
<1>5. /\ Len(commands') = Len(commands) + 1
      /\ \A i \in 1..Len(commands) : commands'[i] = f[i]
      /\ commands'[Len(commands) + 1] = NewRow(prompt)
      /\ commands' \in Seq(Row)
  BY <1>2, <1>3, <1>4, AppendProperties
<1>6. DOMAIN commands' = 1..(Len(commands) + 1)
  BY <1>5, LenProperties
<1> QED  BY <1>1, <1>2, <1>5, <1>6

(* The table after a row was closed. *)
LEMMA ClosedRows ==
  ASSUME TypeOK, NEW s \in Status \ {"running"}, finish_active(s)
  PROVE  /\ active_command_id' = NoRow
         /\ DOMAIN commands' = DOMAIN commands
         /\ \A i \in DOMAIN commands :
              /\ commands'[i].session = commands[i].session
              /\ commands'[i].entry = commands[i].entry
              /\ i # active_command_id => commands'[i] = commands[i]
              /\ i = active_command_id => commands'[i].status # "running"
BY FinishedRows DEF finish_active

(* The table after another process wrote. *)
LEMMA OtherRows ==
  ASSUME TypeOK, OtherProcess
  PROVE  /\ Len(commands) \in Nat
         /\ DOMAIN commands = 1..Len(commands)
         /\ DOMAIN commands' = 1..(Len(commands) + 1)
         /\ \A i \in DOMAIN commands : commands'[i] = commands[i]
         /\ commands'[Len(commands) + 1].session = 0
<1>1. /\ commands \in Seq(Row) /\ Len(commands) \in Nat
      /\ DOMAIN commands = 1..Len(commands)
  BY LenProperties DEF TypeOK, Row
<1>2. PICK e \in Entry :
        commands' = Append(commands, [session |-> 0, entry |-> e, status |-> "done"])
  BY DEF OtherProcess
<1>3. [session |-> 0, entry |-> e, status |-> "done"] \in Row
  BY Bounds DEF Row, Status
<1>4. /\ commands' \in Seq(Row)
      /\ Len(commands') = Len(commands) + 1
      /\ \A i \in 1..Len(commands) : commands'[i] = commands[i]
      /\ commands'[Len(commands) + 1] = [session |-> 0, entry |-> e, status |-> "done"]
  BY <1>1, <1>2, <1>3, AppendProperties
<1>5. DOMAIN commands' = 1..(Len(commands) + 1)
  BY <1>4, LenProperties
<1> QED  BY <1>1, <1>4, <1>5

(* Every step leaves one row open at most, and the sessions past. *)
LEMMA OpenStep ==
  ASSUME TypeOK, SessionsArePast, OneRowIsOpen, [Next]_vars
  PROVE  SessionsArePast' /\ OneRowIsOpen'
<1>0. /\ session_id \in Nat /\ session_id # 0
      /\ DOMAIN commands = 1..Len(commands) /\ Len(commands) \in Nat
      /\ active_command_id \in 0..Len(commands)
      /\ \A i \in DOMAIN commands : commands[i].session \in Nat
  <2>1. /\ commands \in Seq(Row) /\ session_id \in 1..MaxSession
        /\ active_command_id \in 0..Len(commands)
    BY TypeOKIs
  <2>2. \A i \in DOMAIN commands : commands[i] \in Row
    BY <2>1, ElementOfSeq, LenProperties
  <2> QED  BY <2>1, <2>2, LenProperties, Bounds DEF Row
<1>1. CASE LeavesRows
  BY <1>1 DEF LeavesRows, SessionsArePast, OneRowIsOpen
<1>2. ASSUME NEW s \in Status \ {"running"}, finish_active(s), UNCHANGED session_id
      PROVE  SessionsArePast' /\ OneRowIsOpen'
  <2>1. SessionsArePast'
    BY <1>2, ClosedRows DEF SessionsArePast
  <2>2. OneRowIsOpen'
    <3> SUFFICES ASSUME NEW i \in DOMAIN commands', commands'[i].session # 0,
                        commands'[i].status = "running"
                 PROVE  /\ \A j \in DOMAIN commands' :
                             commands'[j].session = commands'[i].session => j <= i
                        /\ commands'[i].session # session_id'
      BY <1>2, ClosedRows DEF OneRowIsOpen
    <3>1. /\ i \in DOMAIN commands /\ i # active_command_id
          /\ commands[i].session # 0 /\ commands[i].status = "running"
          /\ commands'[i] = commands[i]
      BY <1>2, ClosedRows
    <3> QED  BY <1>2, <3>1, ClosedRows DEF OneRowIsOpen
  <2> QED  BY <2>1, <2>2
<1>3. CASE ClosesRow
  BY <1>2, <1>3 DEF ClosesRow
<1>4. CASE FailsToBegin
  <2>1. "interrupted" \in Status \ {"running"}
    BY DEF Status
  <2> QED  BY <1>2, <1>4, <2>1 DEF FailsToBegin
<1>5. CASE BeginsRow
  <2> DEFINE n == Len(commands) + 1
  <2>1. /\ session_id' = session_id /\ active_command_id' = n
        /\ commands'[n].session = session_id /\ commands'[n].status = "running"
    BY <1>5, BegunRows DEF BeginsRow, NewRow
  <2>2. SessionsArePast'
    BY <1>0, <1>5, <2>1, BegunRows DEF SessionsArePast
  <2>3. OneRowIsOpen'
    <3> SUFFICES ASSUME NEW i \in DOMAIN commands', commands'[i].session # 0,
                        commands'[i].status = "running"
                 PROVE  /\ \A j \in DOMAIN commands' :
                             commands'[j].session = commands'[i].session => j <= i
                        /\ commands'[i].session = session_id => n = i
      BY <2>1 DEF OneRowIsOpen
    <3>1. CASE i = n
      BY <1>0, <1>5, <3>1, BegunRows
    <3>2. CASE i # n
      <4>1. /\ i \in DOMAIN commands /\ i # active_command_id
            /\ commands[i].session # 0 /\ commands[i].status = "running"
            /\ commands'[i] = commands[i]
        BY <1>0, <1>5, <3>2, BegunRows
      <4>2. commands[i].session # session_id
        BY <4>1 DEF OneRowIsOpen
      <4>3. ASSUME NEW j \in DOMAIN commands', commands'[j].session = commands[i].session
            PROVE  j <= i
        <5>1. j # n
          BY <2>1, <4>2, <4>3
        <5>2. j \in DOMAIN commands /\ commands[j].session = commands[i].session
          BY <1>0, <1>5, <4>3, <5>1, BegunRows
        <5> QED  BY <4>1, <5>2 DEF OneRowIsOpen
      <4> QED  BY <4>1, <4>2, <4>3
    <3> QED  BY <3>1, <3>2
  <2> QED  BY <2>2, <2>3
<1>6. CASE Restart
  <2>1. /\ commands' = commands /\ session_id' = session_id + 1
        /\ active_command_id' = NoRow
    BY <1>6 DEF Restart
  <2>2. SessionsArePast' /\ \A i \in DOMAIN commands : commands[i].session # session_id'
    BY <1>0, <2>1 DEF SessionsArePast
  <2> QED  BY <2>1, <2>2 DEF OneRowIsOpen
<1>7. CASE OtherProcess
  <2>1. UNCHANGED <<session_id, active_command_id>>
    BY <1>7 DEF OtherProcess, row
  <2>2. ASSUME NEW i \in DOMAIN commands', commands'[i].session # 0
        PROVE  i \in DOMAIN commands /\ commands'[i] = commands[i]
    BY <1>7, <2>2, OtherRows
  <2>3. SessionsArePast'
    BY <1>0, <1>7, <2>1, OtherRows DEF SessionsArePast
  <2>4. active_command_id # NoRow => active_command_id \in DOMAIN commands
    BY <1>0 DEF NoRow
  <2>5. active_command_id # NoRow =>
          commands'[active_command_id] = commands[active_command_id]
    BY <1>7, <2>4, OtherRows
  <2>6. ASSUME NEW i \in DOMAIN commands', commands'[i].session # 0,
               commands'[i].status = "running"
        PROVE  /\ \A j \in DOMAIN commands' :
                    commands'[j].session = commands'[i].session => j <= i
               /\ commands'[i].session = session_id => active_command_id = i
    BY <2>2, <2>6 DEF OneRowIsOpen
  <2>7. OneRowIsOpen'
    BY <2>1, <2>5, <2>6 DEF OneRowIsOpen
  <2> QED  BY <2>3, <2>7
<1> QED  BY <1>1, <1>3, <1>4, <1>5, <1>6, <1>7, StepKinds

(* How many rows there are since one of them. *)
LEMMA SinceTyped ==
  ASSUME TypeOK, NEW i \in Mine
  PROVE  /\ IsFiniteSet({j \in Mine : j >= i})
         /\ Since(i) \in Nat \ {0}
<1> DEFINE S == {j \in Mine : j >= i}
<1>1. DOMAIN commands = 1..Len(commands) /\ Len(commands) \in Nat
  BY LenProperties DEF TypeOK
<1>2. /\ S \in SUBSET (1..Len(commands))
      /\ IsFiniteSet(1..Len(commands))
      /\ i \in S
  <2>1. S \in SUBSET (1..Len(commands)) /\ i \in S
    BY <1>1 DEF Mine
  <2> HIDE DEF S
  <2>2. IsFiniteSet(1..Len(commands))
    BY <1>1, FS_Interval
  <2> QED  BY <2>1, <2>2
<1> HIDE DEF S
<1>3. IsFiniteSet(S)
  BY <1>2, FS_Subset
<1>4. Cardinality(S) \in Nat /\ Cardinality(S) # 0
  BY <1>2, <1>3, FS_CardinalityType, FS_EmptySet
<1> QED  BY <1>3, <1>4 DEF S, Since

(* Every step keeps the newest entries in memory the rows of the session. *)
LEMMA MemoryStep ==
  ASSUME TypeOK, SessionsArePast, MemoryIsTable, [Next]_vars
  PROVE  MemoryIsTable'
<1>0. /\ session_id \in Nat /\ session_id # 0
      /\ DOMAIN commands = 1..Len(commands) /\ Len(commands) \in Nat
      /\ nav.history \in Seq(Entry) /\ Len(nav.history) \in Nat
  BY TypeOKIs, LenProperties, Bounds DEF NavType
<1>1. ASSUME Mine' = Mine, nav'.history = nav.history,
             life' = "running" => life = "running",
             \A i \in Mine : commands'[i].entry = commands[i].entry
      PROVE  MemoryIsTable'
  <2>1. \A i \in Mine : Since(i)' = Since(i)
    BY <1>1 DEF Since
  <2> QED  BY <1>1, <2>1 DEF MemoryIsTable
<1>2. CASE LeavesRows
  BY <1>1, <1>2 DEF LeavesRows, Mine
<1>3. CASE ClosesRow
  <2>1. PICK s \in Status \ {"running"} : finish_active(s)
    BY <1>3 DEF ClosesRow
  <2>2. /\ DOMAIN commands' = DOMAIN commands
        /\ \A i \in DOMAIN commands : /\ commands'[i].session = commands[i].session
                                      /\ commands'[i].entry = commands[i].entry
        /\ session_id' = session_id
    BY <1>3, <2>1, ClosedRows DEF ClosesRow
  <2>3. Mine' = Mine /\ \A i \in Mine : commands'[i].entry = commands[i].entry
    BY <2>2 DEF Mine
  <2> QED  BY <1>1, <1>3, <2>3 DEF ClosesRow
<1>4. CASE FailsToBegin
  BY <1>4 DEF FailsToBegin, MemoryIsTable
<1>5. CASE BeginsRow
  <2> DEFINE h == nav.history
  <2>0. PICK n : n = Len(commands) + 1
    OBVIOUS
  <2>1. /\ life = "running" /\ session_id' = session_id
        /\ nav'.history = Append(h, prompt) /\ prompt \in Entry
        /\ commands'[n].session = session_id /\ commands'[n].entry = prompt
    BY <1>5, <2>0, BegunRows, PromptIsEntry DEF BeginsRow, NewRow
  <2>2. /\ Len(nav'.history) = Len(h) + 1
        /\ \A i \in 1..Len(h) : nav'.history[i] = h[i]
        /\ nav'.history[Len(h) + 1] = prompt
    BY <1>0, <2>1, AppendProperties
  <2>3. Mine' = Mine \cup {n} /\ n \notin Mine /\ \A i \in Mine : i < n
    <3>1. /\ DOMAIN commands' = 1..n
          /\ \A i \in DOMAIN commands : commands'[i].session = commands[i].session
      BY <1>5, <2>0, BegunRows
    <3>2. \A i : i \in 1..n <=> i \in DOMAIN commands \/ i = n
      BY <1>0, <2>0
    <3>3. n \notin DOMAIN commands /\ \A i \in DOMAIN commands : i < n
      BY <1>0, <2>0
    <3> QED  BY <2>1, <3>1, <3>2, <3>3 DEF Mine
  <2>4. n \in Nat
    BY <1>0, <2>0
  <2>5. ASSUME NEW i \in Mine
        PROVE  Since(i)' = Since(i) + 1
    <3> DEFINE S == {j \in Mine : j >= i}
    <3>1. IsFiniteSet(S) /\ Cardinality(S) \in Nat
      BY SinceTyped DEF Since
    <3>2. {j \in Mine' : j >= i} = S \cup {n}
      <4>1. n >= i
        BY <1>0, <2>3, <2>4, <2>5 DEF Mine
      <4> QED  BY <2>3, <4>1
    <3>3. n \notin S
      BY <2>3
    <3> HIDE DEF S
    <3>4. Cardinality(S \cup {n}) = Cardinality(S) + 1
      BY <3>1, <3>3, FS_AddElement
    <3> QED  BY <3>2, <3>4 DEF Since, S
  <2>6. Since(n)' = 1
    <3>1. {j \in Mine' : j >= n} = {n}
      <4>1. \A i \in Mine : ~ (i >= n)
        BY <1>0, <2>3, <2>4 DEF Mine
      <4> QED  BY <2>3, <2>4, <4>1
    <3> QED  BY <3>1, FS_Singleton DEF Since
  <2>7. ASSUME NEW i \in Mine
        PROVE  /\ Since(i)' <= Len(nav'.history)
               /\ commands'[i].entry = nth_newest(nav'.history, Since(i)' - 1)
    <3>1. /\ Since(i) \in Nat \ {0} /\ Since(i) <= Len(h)
          /\ commands[i].entry = nth_newest(h, Since(i) - 1)
      BY <2>1, SinceTyped DEF MemoryIsTable
    <3>2. commands'[i].entry = commands[i].entry
      BY <1>5, BegunRows DEF Mine
    <3>3. /\ Len(h) - (Since(i) - 1) \in 1..Len(h)
          /\ (Len(h) + 1) - ((Since(i) + 1) - 1) = Len(h) - (Since(i) - 1)
          /\ Since(i) + 1 <= Len(h) + 1
      BY <1>0, <3>1
    <3> QED  BY <2>2, <2>5, <3>1, <3>2, <3>3 DEF nth_newest
  <2>8. /\ Since(n)' <= Len(nav'.history)
        /\ commands'[n].entry = nth_newest(nav'.history, Since(n)' - 1)
    <3>1. (Len(h) + 1) - (1 - 1) = Len(h) + 1 /\ 1 <= Len(h) + 1
      BY <1>0
    <3> QED  BY <2>1, <2>2, <2>6, <3>1 DEF nth_newest
  <2> QED  BY <2>3, <2>7, <2>8 DEF MemoryIsTable
<1>6. CASE Restart
  <2>1. Mine' = {}
    <3>1. commands' = commands /\ session_id' = session_id + 1
      BY <1>6 DEF Restart
    <3>2. \A i \in DOMAIN commands : commands[i].session \in Nat
      <4>1. \A i \in DOMAIN commands : commands[i] \in Row
        BY <1>0, TypeOKIs, ElementOfSeq
      <4> QED  BY <4>1, Bounds DEF Row
    <3>3. \A i \in DOMAIN commands : commands[i].session # session_id + 1
      BY <1>0, <3>2 DEF SessionsArePast
    <3> QED  BY <3>1, <3>3 DEF Mine
  <2> QED  BY <2>1 DEF MemoryIsTable
<1>7. CASE OtherProcess
  <2>1. UNCHANGED <<session_id, nav, life>>
    BY <1>7 DEF OtherProcess
  <2>2. Mine' = Mine /\ \A i \in Mine : commands'[i] = commands[i]
    BY <1>0, <1>7, <2>1, OtherRows DEF Mine
  <2> QED  BY <1>1, <2>1, <2>2
<1> QED  BY <1>2, <1>3, <1>4, <1>5, <1>6, <1>7, StepKinds

(* A table that keeps the entries of its rows keeps the way to them. *)
LEMMA WayStays ==
  ASSUME NEW s, NEW at, LeadsToRows(at, s),
         \A i \in DOMAIN commands :
           i \in DOMAIN commands' /\ commands'[i].entry = commands[i].entry
  PROVE  LeadsToRows(at, s)'
<1>1. /\ at \in [DOMAIN s -> DOMAIN commands]
      /\ \A i \in DOMAIN s : commands[at[i]].entry = s[i] /\ i <= at[i]
      /\ \A i, j \in DOMAIN s : i < j => at[i] < at[j]
  BY DEF LeadsToRows
<1>2. at \in [DOMAIN s -> DOMAIN commands']
  BY <1>1
<1>3. \A i \in DOMAIN s : commands'[at[i]].entry = s[i]
  BY <1>1
<1> QED  BY <1>1, <1>2, <1>3 DEF LeadsToRows

(* What is loaded has rows. *)
LEMMA LoadedHasRows ==
  ASSUME TypeOK
  PROVE  \E at : LeadsToRows(at, command_history_from_db(commands))
<1> DEFINE h == command_history_from_db(commands)
           gone == Len(commands) - Len(h)
           at == [i \in DOMAIN h |-> gone + i]
<1>1. /\ h \in Seq(Entry) /\ Len(h) <= Len(commands) /\ DOMAIN h = 1..Len(h)
      /\ \A i \in 1..Len(h) :
           /\ Len(commands) - Len(h) + i \in DOMAIN commands
           /\ h[i] = commands[Len(commands) - Len(h) + i].entry
  BY Loaded
<1>2. Len(commands) \in Nat /\ Len(h) \in Nat
  BY <1>1, LenProperties DEF TypeOK
<1> HIDE DEF h
<1>3. gone \in Nat
  BY <1>1, <1>2
<1>4. \A i \in DOMAIN h : gone + i \in DOMAIN commands /\ commands[gone + i].entry = h[i]
  BY <1>1
<1> HIDE DEF gone
<1>5. at \in [DOMAIN h -> DOMAIN commands] /\ \A i \in DOMAIN h : at[i] = gone + i
  BY <1>4
<1> HIDE DEF at
<1>6. \A i \in DOMAIN h : commands[at[i]].entry = h[i] /\ i <= at[i]
  BY <1>1, <1>3, <1>4, <1>5
<1>7. \A i, j \in DOMAIN h : i < j => at[i] < at[j]
  BY <1>1, <1>3, <1>5
<1>8. LeadsToRows(at, h)
  BY <1>5, <1>6, <1>7 DEF LeadsToRows
<1> QED  BY <1>8 DEF h

(* Every step keeps a row for what can be recalled. *)
LEMMA RowsStep ==
  ASSUME TypeOK, UnsavedIsTheEnd, HasRows, [Next]_vars
  PROVE  UnsavedIsTheEnd' /\ HasRows'
<1>0. /\ DOMAIN commands = 1..Len(commands) /\ Len(commands) \in Nat
      /\ nav.history \in Seq(Entry) /\ Len(nav.history) \in Nat
      /\ DOMAIN nav.history = 1..Len(nav.history)
      /\ unsaved \in BOOLEAN
  BY TypeOKIs, LenProperties DEF NavType
<1>1. PICK at : LeadsToRows(at, Saved)
  BY DEF HasRows
<1>2. ASSUME Saved' = Saved,
             \A i \in DOMAIN commands :
               i \in DOMAIN commands' /\ commands'[i].entry = commands[i].entry
      PROVE  HasRows'
  <2>1. LeadsToRows(at, Saved)'
    <3>1. PICK s : s = Saved
      OBVIOUS
    <3>2. LeadsToRows(at, s)'
      BY <1>1, <1>2, <3>1, WayStays
    <3> QED  BY <1>2, <3>1, <3>2 DEF LeadsToRows
  <2> QED  BY <2>1 DEF HasRows
<1>3. CASE LeavesRows
  <2>1. Saved' = Saved
    BY <1>3 DEF LeavesRows, Saved
  <2> QED  BY <1>2, <1>3, <2>1 DEF LeavesRows, UnsavedIsTheEnd
<1>4. CASE ClosesRow
  <2>1. Saved' = Saved
    BY <1>4 DEF ClosesRow, Saved
  <2>2. PICK s \in Status \ {"running"} : finish_active(s)
    BY <1>4 DEF ClosesRow
  <2>3. HasRows'
    BY <1>2, <2>1, <2>2, ClosedRows
  <2> QED  BY <1>4, <2>3 DEF ClosesRow, UnsavedIsTheEnd
<1>5. CASE FailsToBegin
  <2> DEFINE h == nav.history
  <2>1. prompt \in Entry
    BY <1>5, PromptIsEntry DEF FailsToBegin
  <2>2. ~unsaved /\ unsaved' = TRUE /\ nav'.history = Append(h, prompt)
    BY <1>5 DEF FailsToBegin, UnsavedIsTheEnd
  <2>3. /\ Append(h, prompt) \in Seq(Entry) /\ Len(Append(h, prompt)) = Len(h) + 1
        /\ \A i \in 1..Len(h) : Append(h, prompt)[i] = h[i]
        /\ Append(h, prompt) # <<>>
    BY <1>0, <2>1, AppendProperties
  <2>4. SubSeq(Append(h, prompt), 1, Len(h)) = h
    <3> DEFINE g == Append(h, prompt)
    <3> HIDE DEF g
    <3>1. \A i \in 1..Len(h) : g[i] \in Entry
      BY <1>0, <2>3, ElementOfSeq DEF g
    <3>2. /\ SubSeq(g, 1, Len(h)) \in Seq(Entry)
          /\ Len(SubSeq(g, 1, Len(h))) = IF 1 <= Len(h) THEN Len(h) - 1 + 1 ELSE 0
          /\ \A i \in 1..(Len(h) - 1 + 1) : SubSeq(g, 1, Len(h))[i] = g[1 + i - 1]
      BY <1>0, <3>1, SubSeqProperties
    <3>3. Len(SubSeq(g, 1, Len(h))) = Len(h) /\ Len(h) - 1 + 1 = Len(h)
      BY <1>0, <3>2
    <3>4. \A i \in 1..Len(h) : SubSeq(g, 1, Len(h))[i] = h[i]
      BY <1>0, <2>3, <3>2, <3>3 DEF g
    <3>5. SubSeq(g, 1, Len(h)) = h
      BY <1>0, <3>2, <3>3, <3>4, SeqEqual
    <3> QED  BY <3>5 DEF g
  <2>5. Saved' = Saved
    <3>1. Saved = h
      BY <2>2 DEF Saved
    <3>2. Saved' = SubSeq(Append(h, prompt), 1, Len(Append(h, prompt)) - 1)
      BY <2>2 DEF Saved, Front
    <3>3. (Len(h) + 1) - 1 = Len(h)
      BY <1>0
    <3> QED  BY <2>3, <2>4, <3>1, <3>2, <3>3
  <2>6. "interrupted" \in Status \ {"running"} /\ finish_active("interrupted")
    BY <1>5 DEF Status, FailsToBegin
  <2>7. HasRows'
    BY <1>2, <2>5, <2>6, ClosedRows
  <2>8. UnsavedIsTheEnd'
    BY <1>5, <2>2, <2>3 DEF FailsToBegin, UnsavedIsTheEnd
  <2> QED  BY <2>7, <2>8
<1>6. CASE BeginsRow
  <2> DEFINE h == nav.history
             n == Len(commands) + 1
             k == Len(h) + 1
  <2>0. PICK way : way = [i \in 1..k |-> IF i = k THEN n ELSE at[i]]
    OBVIOUS
  <2>1. ~unsaved /\ ~unsaved' /\ nav'.history = Append(h, prompt) /\ prompt \in Entry
    BY <1>0, <1>6, PromptIsEntry DEF BeginsRow, UnsavedIsTheEnd
  <2>2. Saved = h /\ Saved' = Append(h, prompt)
    BY <2>1 DEF Saved
  <2>3. /\ DOMAIN Append(h, prompt) = 1..k
        /\ \A i \in 1..Len(h) : Append(h, prompt)[i] = h[i]
        /\ Append(h, prompt)[k] = prompt
    BY <1>0, <2>1, AppendProperties, LenProperties
  <2>4. /\ at \in [1..Len(h) -> DOMAIN commands]
        /\ \A i \in 1..Len(h) : commands[at[i]].entry = h[i] /\ i <= at[i]
        /\ \A i, j \in 1..Len(h) : i < j => at[i] < at[j]
    BY <1>0, <1>1, <2>2 DEF LeadsToRows
  <2>5. /\ DOMAIN commands' = 1..n
        /\ \A i \in DOMAIN commands : commands'[i].entry = commands[i].entry
        /\ commands'[n].entry = prompt
    BY <1>6, BegunRows DEF NewRow
  <2>6. /\ n \in Nat /\ k \in Nat /\ n \in 1..n
        /\ \A i \in 1..k : i = k \/ i \in 1..Len(h)
        /\ \A i \in 1..Len(h) : i # k /\ i \in 1..k /\ i < k
        /\ \A i \in DOMAIN commands : i \in 1..n /\ i < n
    BY <1>0
  <2>7. k <= n
    <3>1. CASE Len(h) = 0
      BY <1>0, <3>1
    <3>2. CASE Len(h) # 0
      <4>1. Len(h) \in 1..Len(h)
        BY <1>0, <3>2
      <4>2. at[Len(h)] \in 1..Len(commands) /\ Len(h) <= at[Len(h)]
        BY <1>0, <2>4, <4>1
      <4> QED  BY <1>0, <4>2
    <3> QED  BY <3>1, <3>2
  <2> HIDE DEF n, k
  <2>8. way \in [1..k -> 1..n]
    BY <2>0, <2>4, <2>6
  <2>9. way[k] = n /\ \A i \in 1..Len(h) : way[i] = at[i]
    <3>1. k \in 1..k
      BY <1>0 DEF k
    <3> QED  BY <2>0, <2>6, <3>1
  <2>10. \A i \in 1..k : commands'[way[i]].entry = Append(h, prompt)[i] /\ i <= way[i]
    <3> SUFFICES ASSUME NEW i \in 1..k
                 PROVE  commands'[way[i]].entry = Append(h, prompt)[i] /\ i <= way[i]
      OBVIOUS
    <3>1. CASE i = k
      BY <2>3, <2>5, <2>7, <2>9, <3>1
    <3>2. CASE i \in 1..Len(h)
      BY <2>3, <2>4, <2>5, <2>9, <3>2
    <3> QED  BY <2>6, <3>1, <3>2
  <2>11. \A i, j \in 1..k : i < j => way[i] < way[j]
    <3> SUFFICES ASSUME NEW i \in 1..k, NEW j \in 1..k, i < j
                 PROVE  way[i] < way[j]
      OBVIOUS
    <3>1. i \in 1..Len(h)
      BY <1>0 DEF k
    <3>2. CASE j = k
      BY <2>4, <2>6, <2>9, <3>1, <3>2
    <3>3. CASE j \in 1..Len(h)
      BY <2>4, <2>9, <3>1, <3>3
    <3> QED  BY <2>6, <3>2, <3>3
  <2>12. LeadsToRows(way, Saved)'
    BY <2>2, <2>3, <2>5, <2>8, <2>10, <2>11 DEF LeadsToRows
  <2>13. UnsavedIsTheEnd'
    BY <2>1 DEF UnsavedIsTheEnd
  <2> QED  BY <2>12, <2>13 DEF HasRows
<1>7. CASE Restart
  <2>1. PICK w : LeadsToRows(w, command_history_from_db(commands))
    BY LoadedHasRows
  <2>2. /\ commands' = commands /\ ~unsaved'
        /\ nav'.history = command_history_from_db(commands)
    BY <1>7 DEF Restart, AtRest
  <2>3. Saved' = command_history_from_db(commands)
    BY <2>2 DEF Saved
  <2>4. LeadsToRows(w, Saved)'
    BY <2>1, <2>2, <2>3 DEF LeadsToRows
  <2> QED  BY <2>2, <2>4 DEF HasRows, UnsavedIsTheEnd
<1>8. CASE OtherProcess
  <2>1. UNCHANGED <<nav, life, unsaved>>
    BY <1>8 DEF OtherProcess
  <2>2. Saved' = Saved
    BY <2>1 DEF Saved
  <2>3. \A i \in DOMAIN commands :
          i \in DOMAIN commands' /\ commands'[i].entry = commands[i].entry
    BY <1>0, <1>8, OtherRows
  <2> QED  BY <1>2, <2>1, <2>2, <2>3 DEF UnsavedIsTheEnd
<1> QED  BY <1>3, <1>4, <1>5, <1>6, <1>7, <1>8, StepKinds

-----------------------------------------------------------------------------
(* Theorems *)

(* HistoryInv holds in every state of every behaviour. *)
THEOREM HistoryInvariant == Spec => []HistoryInv
<1>1. Init => HistoryInv
  <2> SUFFICES ASSUME Init PROVE HistoryInv
    OBVIOUS
  <2>1. commands = <<>> /\ commands \in Seq(Row) /\ Len(commands) = 0 /\ DOMAIN commands = {}
    BY EmptySeq DEF Init
  <2>2. command_history_from_db(commands) = <<>>
    <3>1. ~ (Len(commands) > MaxHistory)
      BY <2>1, Bounds
    <3>2. command_history_from_db(commands) =
            [i \in 1..(Len(commands) - 1 + 1) |-> commands[1 + i - 1].entry]
      BY <3>1 DEF command_history_from_db
    <3>3. 1..(Len(commands) - 1 + 1) = {}
      BY <2>1
    <3> QED  BY <3>2, <3>3
  <2>3. nav = AtRest(<<>>) /\ <<>> \in Seq(Entry)
    BY <2>2, EmptySeq DEF Init
  <2>4. nav \in NavType /\ nav.history = <<>> /\ nav.current_index = 0 /\ 0 <= Len(nav.history)
    BY <2>3, RestTyped
  <2>5. TypeOK
    <3>1. session_id \in 1..MaxSession /\ active_command_id \in 0..Len(commands)
      BY <2>1, Bounds DEF Init, NoRow
    <3>2. active_command_had_error \in BOOLEAN /\ unsaved \in BOOLEAN
      BY DEF Init
    <3>3. life \in {"running", "closing", "ended"} /\ prompt \in Draft
      BY HistoryAssumption DEF Init
    <3> QED  BY <2>1, <2>4, <3>1, <3>2, <3>3, TypeOKIs
  <2>6. SessionsArePast /\ OneRowIsOpen /\ MemoryIsTable
    BY <2>1 DEF Init, SessionsArePast, OneRowIsOpen, MemoryIsTable, Mine
  <2>7. AtAStop /\ UnsavedIsTheEnd
    BY <2>4 DEF Init, AtAStop, UnsavedIsTheEnd
  <2>8. HasRows
    <3>1. Saved = <<>>
      BY <2>4 DEF Init, Saved
    <3>2. LeadsToRows(<<>>, <<>>)
      BY DEF LeadsToRows
    <3> QED  BY <3>1, <3>2 DEF HasRows
  <2> QED  BY <2>5, <2>6, <2>7, <2>8 DEF HistoryInv
<1>2. HistoryInv /\ [Next]_vars => HistoryInv'
  BY TypeStep, OpenStep, MemoryStep, StopStep, RowsStep DEF HistoryInv
<1> QED  BY <1>1, <1>2, PTL DEF Spec

(* Every variable of history.ml's model keeps its type. *)
THEOREM HistoryTypes == Spec => []TypeOK
<1>1. HistoryInv => TypeOK
  BY DEF HistoryInv
<1> QED  BY <1>1, HistoryInvariant, PTL

(* At most one row of a session is "running", its last, through failing     *)
(* statements, crashes and restarts; the responses find the right row.      *)
THEOREM OneRowStaysOpen == Spec => []OneRowIsOpen
<1>1. HistoryInv => OneRowIsOpen
  BY DEF HistoryInv
<1> QED  BY <1>1, HistoryInvariant, PTL

(* While the program runs, the newest entries in memory are the rows of the *)
(* session, in order, whatever other processes write.                       *)
THEOREM MemoryStaysTable == Spec => []MemoryIsTable
<1>1. HistoryInv => MemoryIsTable
  BY DEF HistoryInv
<1> QED  BY <1>1, HistoryInvariant, PTL

(* Down after an Up that found something shows what Up replaced. *)
THEOREM RecallIsUndone == Spec => []DownUndoesUp
<1>1. HistoryInv => DownUndoesUp
  BY DownTakesUpBack DEF HistoryInv
<1> QED  BY <1>1, HistoryInvariant, PTL

(* search_matches lists the entries with the query in them, once each, by   *)
(* their newest use, and leaves out only those older than a full list.      *)
THEOREM SearchesAreExact == Spec => []SearchIsExact
<1>1. HistoryInv => SearchIsExact
  <2> SUFFICES ASSUME HistoryInv, NEW q \in Query, NEW limit \in 1..MaxMatches
               PROVE  LET found == search_matches(nav.history, q, limit)
                          hits == {e \in ToSet(nav.history) : Matches(q, e)}
                      IN /\ ToSet(found) \subseteq hits
                         /\ \A i, j \in DOMAIN found :
                              i < j => NewestUse(found[i]) > NewestUse(found[j])
                         /\ \A e \in hits \ ToSet(found) :
                              /\ Len(found) = limit
                              /\ \A f \in ToSet(found) : NewestUse(f) > NewestUse(e)
    BY DEF SearchIsExact
  <2> DEFINE h == nav.history
             found == search_matches(h, q, limit)
             hits == {e \in ToSet(h) : Matches(q, e)}
  <2>1. h \in Seq(Entry) /\ Len(h) \in Nat /\ DOMAIN h = 1..Len(h)
    BY TypeOKIs, LenProperties DEF HistoryInv, NavType
  <2>2. SearchedTo(h, q, limit, found, Len(h))
    BY <2>1, Bounds, SearchIsComplete
  <2>3. \A e : NewestUse(e) = NewestIn(h, e)
    BY DEF NewestUse, NewestIn
  <2>4. \A j \in DOMAIN h : j > Len(h) - Len(h)
    BY <2>1
  <2> HIDE DEF found
  <2>5. ToSet(found) \subseteq hits
    <3> SUFFICES ASSUME NEW x \in ToSet(found) PROVE x \in hits
      OBVIOUS
    <3>1. Matches(q, x) /\ \E j \in DOMAIN h : h[j] = x
      BY <2>2 DEF SearchedTo
    <3> QED  BY <3>1 DEF ToSet
  <2>6. \A i, j \in DOMAIN found : i < j => NewestUse(found[i]) > NewestUse(found[j])
    BY <2>2, <2>3 DEF SearchedTo
  <2>7. ASSUME NEW e \in hits \ ToSet(found)
        PROVE  /\ Len(found) = limit
               /\ \A f \in ToSet(found) : NewestUse(f) > NewestUse(e)
    <3>1. PICK j \in DOMAIN h : h[j] = e
      BY DEF ToSet
    <3>2. Matches(q, h[j]) /\ h[j] \notin ToSet(found)
      BY <3>1
    <3> QED  BY <2>2, <2>3, <2>4, <3>1, <3>2 DEF SearchedTo
  <2> QED  BY <2>5, <2>6, <2>7 DEF found
<1> QED  BY <1>1, HistoryInvariant, PTL

(* What could be recalled before a session's end, orderly or not, can be    *)
(* recalled after the next start, in order, less as many of the oldest as   *)
(* the table holds beyond max_history.                                      *)
THEOREM RecallSurvives == Spec => RecallSurvivesRestart
<1>1. ASSUME HistoryInv, [Next]_vars, session_id' # session_id
      PROVE  LET gone == Len(commands) - Len(nav'.history)
             IN  Keeps(SubSeq(Saved, gone + 1, Len(Saved)), nav'.history)
  <2> DEFINE h == nav'.history
             gone == Len(commands) - Len(h)
             m == Len(Saved)
             s == SubSeq(Saved, gone + 1, m)
  <2>1. Restart
    <3>1. TypeOK
      BY <1>1 DEF HistoryInv
    <3> QED  BY <1>1, <3>1, StepKinds
             DEF LeavesRows, ClosesRow, BeginsRow, FailsToBegin, OtherProcess
  <2>2. h = command_history_from_db(commands)
    BY <2>1 DEF Restart, AtRest
  <2>3. /\ h \in Seq(Entry) /\ Len(h) <= Len(commands) /\ DOMAIN h = 1..Len(h)
        /\ \A i \in 1..Len(h) :
             /\ Len(commands) - Len(h) + i \in DOMAIN commands
             /\ h[i] = commands[Len(commands) - Len(h) + i].entry
    BY <1>1, <2>2, Loaded DEF HistoryInv
  <2>4. /\ Len(commands) \in Nat /\ DOMAIN commands = 1..Len(commands)
        /\ Len(h) \in Nat /\ gone \in Nat
    <3>1. Len(commands) \in Nat /\ DOMAIN commands = 1..Len(commands)
      BY <1>1, LenProperties DEF HistoryInv, TypeOK
    <3>2. Len(h) \in Nat
      BY <2>3, LenProperties
    <3> QED  BY <2>3, <3>1, <3>2
  <2>5. Saved \in Seq(Entry)
    <3>1. nav.history \in Seq(Entry) /\ Len(nav.history) \in Nat
      BY <1>1, TypeOKIs, LenProperties DEF HistoryInv, NavType
    <3>2. \A i \in 1..(Len(nav.history) - 1) : nav.history[i] \in Entry
      BY <3>1, ElementOfSeq
    <3>3. SubSeq(nav.history, 1, Len(nav.history) - 1) \in Seq(Entry)
      BY <3>1, <3>2, SubSeqProperties
    <3> QED  BY <3>1, <3>3 DEF Saved, Front
  <2>6. m \in Nat /\ DOMAIN Saved = 1..m
    BY <2>5, LenProperties
  <2>7. PICK at : LeadsToRows(at, Saved)
    BY <1>1 DEF HistoryInv, HasRows
  <2>8. /\ at \in [1..m -> DOMAIN commands]
        /\ \A i \in 1..m : commands[at[i]].entry = Saved[i] /\ i <= at[i]
        /\ \A i, j \in 1..m : i < j => at[i] < at[j]
    BY <2>6, <2>7 DEF LeadsToRows
  <2>9. /\ s \in Seq(Entry)
        /\ Len(s) = IF gone + 1 <= m THEN m - (gone + 1) + 1 ELSE 0
        /\ \A i \in 1..(m - (gone + 1) + 1) : s[i] = Saved[(gone + 1) + i - 1]
    <3>1. \A i \in (gone + 1)..m : Saved[i] \in Entry
      BY <2>4, <2>5, <2>6, ElementOfSeq
    <3>2. gone + 1 \in Int /\ m \in Int
      BY <2>4, <2>6
    <3> HIDE DEF gone, m
    <3> QED  BY <3>1, <3>2, SubSeqProperties
  <2>10. DOMAIN s = 1..Len(s) /\ Len(s) \in Nat
    BY <2>9, LenProperties
  <2> HIDE DEF s, m
  <2>11. ASSUME NEW i \in DOMAIN s
         PROVE  /\ i \in Nat /\ gone + i \in 1..m /\ s[i] = Saved[gone + i]
                /\ at[gone + i] - gone \in DOMAIN h
                /\ h[at[gone + i] - gone] = s[i]
    <3>0. /\ gone \in Nat /\ Len(h) \in Nat /\ Len(commands) \in Nat
          /\ Len(h) = Len(commands) - gone
      BY <2>4
    <3> HIDE DEF gone, h
    <3>1. /\ i \in Nat /\ gone + i \in 1..m /\ i \in 1..(m - (gone + 1) + 1)
          /\ (gone + 1) + i - 1 = gone + i /\ i >= 1
      <4>1. i \in 1..Len(s) /\ Len(s) # 0
        BY <2>10
      <4>2. Len(s) = m - gone
        BY <2>6, <2>9, <3>0, <4>1
      <4> QED  BY <2>6, <3>0, <4>1, <4>2
    <3>2. s[i] = Saved[gone + i]
      BY <2>9, <3>1
    <3> DEFINE a == at[gone + i]
    <3>3. a \in 1..Len(commands) /\ gone + i <= a /\ commands[a].entry = s[i]
      BY <2>4, <2>8, <3>1, <3>2
    <3> HIDE DEF a
    <3>4. a - gone \in 1..Len(h) /\ Len(commands) - Len(h) + (a - gone) = a
      BY <3>0, <3>1, <3>3
    <3>5. h[a - gone] = commands[a].entry
      BY <2>3, <3>4 DEF h, gone
    <3> QED  BY <2>3, <3>1, <3>2, <3>3, <3>4, <3>5 DEF a
  <2> DEFINE way == [i \in DOMAIN s |-> at[gone + i] - gone]
  <2>12. way \in [DOMAIN s -> DOMAIN h] /\ \A i \in DOMAIN s : h[way[i]] = s[i]
    BY <2>11
  <2>13. ASSUME NEW i \in DOMAIN s, NEW j \in DOMAIN s, i < j
         PROVE  way[i] < way[j]
    <3>1. /\ gone + i \in 1..m /\ gone + j \in 1..m /\ gone + i < gone + j
      BY <2>4, <2>11, <2>13
    <3>2. at[gone + i] < at[gone + j] /\ at[gone + i] \in Nat /\ at[gone + j] \in Nat
      BY <2>4, <2>8, <3>1
    <3> QED  BY <2>4, <3>2
  <2> HIDE DEF way
  <2>14. Keeps(s, h)
    BY <2>12, <2>13 DEF Keeps
  <2> QED  BY <2>14 DEF s, m
<1>2. HistoryInv /\ [Next]_vars =>
        [session_id' # session_id =>
           LET gone == Len(commands) - Len(nav'.history)
           IN  Keeps(SubSeq(Saved, gone + 1, Len(Saved)), nav'.history)]_vars
  BY <1>1
<1> QED  BY <1>2, HistoryInvariant, PTL DEF Spec, RecallSurvivesRestart

=============================================================================
