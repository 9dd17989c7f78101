---------------------------- MODULE SandboxProofs ----------------------------
(***************************************************************************)
(* Theorems about SandboxPolicy and Sandbox: for every tree of files and   *)
(* links, every place to start the program in and every size of the pipe,  *)
(* code is evaluated only inside the promised limits, what it works on     *)
(* stays readable, and a result without a mark is whole but for the writes *)
(* that a signal interrupted.                                              *)
(***************************************************************************)
EXTENDS Sandbox, SequenceTheorems, TLAPS

(* The names in paths; the provers do not know that a string is in STRING. *)
Word ==
  STRING \cup HOME_SECRETS
    \cup {"tmp", "raoui-sandbox", "dev", "null", "Library", "Keychains"}
Path == Seq(Word)

-----------------------------------------------------------------------------
(* Paths. *)

(* What exists has a path, and so have the links. *)
LEMMA PathsExist ==
  /\ Dirs \subseteq Path /\ Files \subseteq Path /\ Exists \subseteq Path
  /\ Links \subseteq Path /\ Links \cap Exists = {}
  /\ \A p \in Links : Leads[p] \in Exists
<1>1. \A q \in Exists \cup Links : q \in Path
  BY PolicyAssumption, SeqMonotonic, STRING \subseteq Word DEF Path, Word
<1>. QED BY <1>1, PolicyAssumption DEF Exists

(* realpath leaves alone what it is the path of. *)
LEMMA PlainPath ==
  ASSUME NEW p \in Exists
  PROVE  realpath(p) = p
  BY PathsExist DEF realpath

(* A directory that is named, through links or not, is one. *)
LEMMA NamedDir ==
  ASSUME NEW p \in DirPaths
  PROVE  /\ realpath(p) \in Dirs /\ realpath(p) \in Path
         /\ realpath(p) \in Exists
         /\ p # NoHome
  BY PathsExist, PolicyAssumption DEF DirPaths, Exists

(* Two directories above the same path are one above the other. *)
LEMMA CoversChain ==
  ASSUME NEW p \in Path, NEW q \in Path, NEW r \in Path,
         Covers(p, r), Covers(q, r), Len(p) <= Len(q)
  PROVE  Covers(p, q)
  BY DEF Covers, Path

(* Each of two paths is above the other only if they are the same. *)
LEMMA CoversSame ==
  ASSUME NEW p \in Path, NEW q \in Path, Covers(p, q), Len(q) <= Len(p)
  PROVE  p = q
<1>1. Len(p) = Len(q) /\ Len(p) \in Nat
  BY DEF Covers, Path
<1>2. \A i \in 1..Len(p) : p[i] = q[i]
  BY DEF Covers
<1>. QED BY <1>1, <1>2, SeqEqual DEF Path

(* A store is one name below $HOME. *)
LEMMA StorePlaces ==
  ASSUME NEW home \in Path, NEW n \in HOME_SECRETS
  PROVE  /\ Append(home, n) \in Path
         /\ Len(Append(home, n)) = Len(home) + 1
         /\ Append(home, n)[Len(home) + 1] = n
         /\ \A i \in 1..Len(home) : Append(home, n)[i] = home[i]
<1>1. n \in Word
  BY DEF Word
<1>. QED BY <1>1 DEF Path

(* The stores of macOS are below $HOME too. *)
LEMMA MacStorePlaces ==
  ASSUME NEW home \in Path, NEW s \in MacSecrets(home)
  PROVE  s \in Path /\ Covers(home, s) /\ Len(home) < Len(s)
<1>1. CASE \E n \in HOME_SECRETS : s = Append(home, n)
  <2>1. Len(home) \in Nat
    BY DEF Path
  <2>. QED BY <1>1, <2>1, StorePlaces DEF Covers
<1>2. CASE s = home \o <<"Library", "Keychains">>
  <2>1. <<"Library", "Keychains">> \in Path
    BY DEF Path, Word
  <2>. QED BY <1>2, <2>1 DEF Path, Covers
<1>. QED BY <1>1, <1>2 DEF MacSecrets

(* What is above something that exists is a directory, or that itself. *)
LEMMA AboveIsThere ==
  ASSUME NEW p \in Path, NEW q \in Exists, Covers(p, q)
  PROVE  p \in Exists
<1>1. q \in Path /\ Len(p) \in Nat /\ Len(q) \in Nat /\ Len(p) <= Len(q)
  BY PathsExist DEF Covers, Path
<1>2. CASE Len(p) = Len(q)
  BY <1>1, <1>2, CoversSame
<1>3. CASE Len(p) = 0
  BY <1>3, PolicyAssumption DEF Path, Exists
<1>4. CASE Len(p) < Len(q) /\ Len(p) # 0
  <2>1. SubSeq(q, 1, Len(p)) \in Dirs
    BY <1>1, <1>4, PolicyAssumption
  <2>2. /\ SubSeq(q, 1, Len(p)) \in Path /\ Len(SubSeq(q, 1, Len(p))) = Len(p)
        /\ \A i \in 1..Len(p) : SubSeq(q, 1, Len(p))[i] = p[i]
    BY <1>1, <1>4, SubSeqProperties DEF Covers, Path
  <2>3. SubSeq(q, 1, Len(p)) = p
    BY <2>2, SeqEqual DEF Path
  <2>. QED BY <2>1, <2>3 DEF Exists
<1>. QED BY <1>1, <1>2, <1>4, <1>3

(* What is above a store's content is above $HOME or inside that store. *)
LEMMA AboveStore ==
  ASSUME NEW home \in Path, NEW n \in HOME_SECRETS, NEW p \in Path,
         NEW q \in Path, Covers(Append(home, n), q), Covers(p, q)
  PROVE  Covers(p, home) \/ Covers(Append(home, n), p)
<1>1. /\ Append(home, n) \in Path /\ Len(Append(home, n)) = Len(home) + 1
      /\ Len(home) \in Nat /\ Len(p) \in Nat
  BY StorePlaces DEF Path
<1>2. CASE Len(p) <= Len(home)
  <2>1. Covers(home, q)
    BY <1>1, StorePlaces DEF Covers, Path
  <2>. QED BY <1>2, <2>1, CoversChain
<1>3. CASE Len(home) + 1 <= Len(p)
  BY <1>1, <1>3, CoversChain
<1>. QED BY <1>1, <1>2, <1>3

-----------------------------------------------------------------------------
(* Landlock. *)

(* grant_path of sandbox_linux.c: at most the rights asked for. *)
LEMMA GrantPath ==
  ASSUME NEW path, NEW access, NEW r \in grant_path(path, access)
  PROVE  /\ r.path = realpath(path) /\ r.access \subseteq access
         /\ r.path \in Exists
  BY DEF grant_path, add_rule

(* The kinds of rules apply_landlock makes. *)
LEMMA RuleKinds ==
  ASSUME NEW d, NEW home, NEW abi, NEW r \in LandlockRules(d, home, abi)
  PROVE  \/ \E p \in SYS_READ_ROOTS \cup d :
              r \in grant_read_tree(p, home, read_access(abi))
         \/ r.path = realpath(Scratch)
         \/ r.path = DevNull /\ r.access \subseteq {"WRITE_FILE"}
            /\ DevNull \in Exists
<1>1. CASE r \in LandlockReadRules(d, home, abi)
  BY <1>1 DEF LandlockReadRules
<1>2. CASE r \in grant_path(Scratch, write_access(abi))
  BY <1>2, GrantPath
<1>3. CASE r \in grant_path(DevNull, {"WRITE_FILE"} \cap Handled(abi))
  <2>1. realpath(DevNull) = DevNull
    BY PolicyAssumption DEF realpath
  <2>. QED BY <1>3, <2>1, GrantPath
<1>. QED BY <1>1, <1>2, <1>3 DEF LandlockRules

(* grant_read_tree: rules to read, never for a directory above $HOME. *)
LEMMA TreeRules ==
  ASSUME NEW home, home # NoHome => realpath(home) \in Exists, NEW p,
         NEW access, NEW r \in grant_read_tree(p, home, access)
  PROVE  /\ r.access \subseteq access
         /\ r.path \in Exists
         /\ \/ \E e \in Entries(realpath(home)) :
                 ~is_secret_name(Name(e)) /\ r.path = realpath(e)
            \/ /\ r.path = realpath(p)
               /\ home # NoHome => ~Covers(realpath(p), realpath(home))
<1>1. CASE home # NoHome /\ same_path(p, home)
  <2>1. PICK e \in Entries(realpath(home)) :
          ~is_secret_name(Name(e)) /\ r \in grant_path(e, access)
    BY <1>1 DEF grant_read_tree, grant_home_minus_secrets
  <2>. QED BY <2>1, GrantPath
<1>2. CASE ~(home # NoHome /\ same_path(p, home))
  <2>1. /\ r \in grant_path(p, access)
        /\ home # NoHome => ~is_strict_ancestor(p, home)
    BY <1>2 DEF grant_read_tree
  <2>2. /\ r.path = realpath(p) /\ r.access \subseteq access
        /\ realpath(p) \in Exists
    BY <2>1, GrantPath
  <2>3. home # NoHome => ~Covers(realpath(p), realpath(home))
    BY <1>2, <2>1, <2>2 DEF is_strict_ancestor
  <2>. QED BY <2>2, <2>3
<1>. QED BY <1>1, <1>2

(* The rights to read are governed by every ruleset. *)
LEMMA ReadsHandled ==
  ASSUME NEW abi \in Nat
  PROVE  FS_READ_RIGHTS \subseteq Handled(abi)
  BY DEF Handled, FS_READ_RIGHTS, FS_WRITE_RIGHTS

(* A confined child on Linux reads a store that is no link only if a path  *)
(* granted to it leads inside that store, a link of $HOME leads to it, or  *)
(* the scratch directory covers it.                                        *)
LEMMA LandlockHidesStores ==
  ASSUME NEW home \in DirPaths, NEW d \in SUBSET DirPaths, NEW abi \in Nat,
         NEW right \in FS_READ_RIGHTS, NEW q \in Exists,
         NEW n \in HOME_SECRETS, Covers(Append(realpath(home), n), q),
         LandlockAllows(LandlockRules(d, home, abi), abi, right, q)
  PROVE  \/ \E x \in SYS_READ_ROOTS \cup d :
              /\ Covers(Append(realpath(home), n), realpath(x))
              /\ Covers(realpath(x), q)
         \/ \E e \in Entries(realpath(home)) \cap Links :
              ~is_secret_name(Name(e)) /\ Covers(Leads[e], q)
         \/ Covers(realpath(Scratch), q)
<1>. DEFINE h == realpath(home)
<1>1. right \in Handled(abi)
  BY ReadsHandled
<1>2. PICK r \in LandlockRules(d, home, abi) :
        right \in r.access /\ Covers(r.path, q)
  BY <1>1 DEF LandlockAllows
<1>3. h \in Path /\ q \in Path /\ h \in Exists /\ home # NoHome
  BY PathsExist, NamedDir
<1>. HIDE DEF h
<1>4. CASE r.path = realpath(Scratch)
  BY <1>2, <1>4
<1>5. CASE r.access \subseteq {"WRITE_FILE"}
  BY <1>2, <1>5 DEF FS_READ_RIGHTS
<1>6. CASE \E p \in SYS_READ_ROOTS \cup d :
             r \in grant_read_tree(p, home, read_access(abi))
  <2>1. PICK p \in SYS_READ_ROOTS \cup d :
          r \in grant_read_tree(p, home, read_access(abi))
    BY <1>6
  <2>2. /\ r.path \in Exists /\ r.path \in Path
        /\ \/ \E e \in Entries(h) :
                ~is_secret_name(Name(e)) /\ r.path = realpath(e)
           \/ r.path = realpath(p) /\ ~Covers(realpath(p), h)
    BY <1>3, <2>1, TreeRules, PathsExist DEF h
  <2>3. CASE \E e \in Entries(h) :
               ~is_secret_name(Name(e)) /\ r.path = realpath(e)
    <3>1. PICK e \in Entries(h) :
            ~is_secret_name(Name(e)) /\ r.path = realpath(e)
      BY <2>3
    <3>2. CASE e \in Links
      BY <1>2, <3>1, <3>2 DEF h, realpath
    <3>3. CASE e \notin Links
      <4>1. r.path = e
        BY <3>1, <3>3 DEF realpath
      <4>2. Len(e) = Len(h) + 1 /\ Len(h) \in Nat
        BY <1>3, <3>1 DEF Entries, Path
      <4>3. e[Len(h) + 1] = q[Len(h) + 1]
        BY <1>2, <4>1, <4>2 DEF Covers
      <4>4. Append(h, n)[Len(h) + 1] = q[Len(h) + 1]
        <5>1. Covers(Append(h, n), q)
          BY DEF h
        <5>2. Len(Append(h, n)) = Len(h) + 1
          BY <1>3, StorePlaces
        <5>. QED BY <4>2, <5>1, <5>2 DEF Covers
      <4>5. Name(e) = n
        BY <1>3, <4>2, <4>3, <4>4, StorePlaces DEF Name
      <4>. QED BY <3>1, <4>5 DEF is_secret_name
    <3>. QED BY <3>2, <3>3
  <2>4. CASE r.path = realpath(p) /\ ~Covers(realpath(p), h)
    <3>1. Covers(Append(h, n), q)
      BY DEF h
    <3>2. Covers(Append(h, n), realpath(p))
      BY <1>2, <1>3, <2>2, <2>4, <3>1, AboveStore
    <3>. QED BY <1>2, <2>1, <2>4, <3>2 DEF h
  <2>. QED BY <2>2, <2>3, <2>4
<1>. QED BY <1>4, <1>5, <1>6, RuleKinds

(* A confined child on Linux changes the scratch directory and /dev/null,  *)
(* by every right that the ruleset governs.                                *)
LEMMA LandlockWrites ==
  ASSUME NEW home \in DirPaths \cup {NoHome}, NEW d, NEW abi \in Nat,
         NEW right \in FS_WRITE_RIGHTS \cap Handled(abi), NEW q \in Exists,
         LandlockAllows(LandlockRules(d, home, abi), abi, right, q)
  PROVE  Covers(realpath(Scratch), q) \/ q = DevNull
<1>1. PICK r \in LandlockRules(d, home, abi) :
        right \in r.access /\ Covers(r.path, q)
  BY DEF LandlockAllows
<1>2. CASE r.path = DevNull /\ DevNull \in Exists
  <2>1. DevNull \in Files /\ DevNull \notin Dirs /\ q \in Path /\ DevNull \in Path
    BY <1>2, PolicyAssumption, PathsExist DEF Exists
  <2>2. CASE Len(q) > Len(DevNull)
    <3>1. SubSeq(q, 1, Len(DevNull)) \in Dirs
      <4>1. Len(DevNull) \in 1..(Len(q) - 1)
        BY <2>1, <2>2 DEF DevNull, Path
      <4>. QED BY <4>1, PolicyAssumption
    <3>2. SubSeq(q, 1, Len(DevNull)) = DevNull
      <4>1. \A i \in 1..2 : SubSeq(q, 1, 2)[i] = DevNull[i]
        BY <1>1, <1>2, <2>1, <2>2, SubSeqProperties DEF Covers, DevNull, Path
      <4>2. Len(DevNull) = 2 /\ SubSeq(q, 1, 2) \in Path
            /\ Len(SubSeq(q, 1, 2)) = 2
        BY <2>1, <2>2, SubSeqProperties DEF DevNull, Path
      <4>. QED BY <2>1, <4>1, <4>2, SeqEqual DEF Path
    <3>. QED BY <2>1, <3>1, <3>2
  <2>3. CASE Len(q) <= Len(DevNull)
    BY <1>1, <1>2, <2>1, <2>3, CoversSame
  <2>. QED BY <2>1, <2>2, <2>3 DEF Path
<1>3. CASE \E p \in SYS_READ_ROOTS \cup d :
             r \in grant_read_tree(p, home, read_access(abi))
  <2>1. home # NoHome => realpath(home) \in Exists
    BY NamedDir
  <2>2. r.access \subseteq FS_READ_RIGHTS
    BY <1>3, <2>1, TreeRules DEF read_access
  <2>3. right \notin FS_READ_RIGHTS
    BY DEF FS_READ_RIGHTS, FS_WRITE_RIGHTS
  <2>. QED BY <1>1, <2>2, <2>3
<1>. QED BY <1>1, <1>2, <1>3, RuleKinds

(* What a read path grants can be read, except above $HOME and in a store. *)
LEMMA LandlockReads ==
  ASSUME NEW home \in DirPaths \cup {NoHome}, NEW d \in SUBSET DirPaths,
         NEW abi \in Nat, NEW x \in d, NEW q \in Files,
         Covers(realpath(x), q), ~is_strict_ancestor(x, home),
         home # NoHome =>
           \A n \in HOME_SECRETS :
             Append(realpath(home), n) \in Exists =>
               ~Covers(Append(realpath(home), n), q)
  PROVE  LandlockAllows(LandlockRules(d, home, abi), abi, "READ_FILE", q)
<1>. DEFINE access == read_access(abi)
            h == realpath(home)
<1>1. "READ_FILE" \in access
  BY DEF FS_READ_RIGHTS, Handled, read_access
<1>2. SUFFICES \E r \in grant_read_tree(x, home, access) :
                 "READ_FILE" \in r.access /\ Covers(r.path, q)
  <2>1. grant_read_tree(x, home, access) \subseteq LandlockRules(d, home, abi)
    BY DEF LandlockRules, LandlockReadRules
  <2>. QED BY <1>2, <2>1 DEF LandlockAllows
<1>. HIDE DEF access
<1>3. ASSUME NEW e, realpath(e) \in Exists, Covers(realpath(e), q)
      PROVE  \E r \in grant_path(e, access) :
               "READ_FILE" \in r.access /\ Covers(r.path, q)
  <2>. DEFINE o == realpath(e)
              given == IF o \in Files THEN access \cap FS_FILE_RIGHTS ELSE access
  <2>1. "READ_FILE" \in given /\ (o \in Files => given \subseteq FS_FILE_RIGHTS)
    BY <1>1 DEF FS_FILE_RIGHTS
  <2>2. grant_path(e, access) = {[path |-> o, access |-> given]}
    BY <1>3, <2>1 DEF grant_path, add_rule
  <2>. QED BY <1>3, <2>1, <2>2
<1>4. realpath(x) \in Exists /\ realpath(x) \in Path /\ q \in Path
  BY PathsExist, NamedDir
<1>5. CASE home # NoHome /\ same_path(x, home)
  <2>. DEFINE k == Len(h) + 1
              e == SubSeq(q, 1, k)
  <2>1. /\ realpath(x) = h /\ h \in Dirs /\ h \in Path
        /\ Len(h) \in Nat /\ Len(q) \in Nat
    BY <1>4, <1>5, NamedDir DEF same_path, Path
  <2>2. Covers(h, q)
    BY <2>1
  <2>. HIDE DEF h
  <2>3. k <= Len(q)
    <3>1. q # h
      BY <2>1, PolicyAssumption
    <3>. QED BY <1>4, <2>1, <2>2, <3>1, CoversSame DEF Covers
  <2>4. /\ e \in Path /\ Len(e) = k /\ \A i \in 1..k : e[i] = q[i]
    BY <1>4, <2>1, <2>3, SubSeqProperties DEF Path
  <2>5. e \in Exists
    <3>1. CASE k = Len(q)
      BY <1>4, <2>1, <2>4, <3>1, SeqEqual DEF Path, Exists
    <3>2. CASE k < Len(q)
      BY <2>1, <2>3, <3>2, PolicyAssumption DEF Exists
    <3>. QED BY <2>1, <2>3, <3>1, <3>2
  <2>. HIDE DEF e
  <2>6. Covers(e, q) /\ Covers(h, e)
    BY <2>1, <2>2, <2>3, <2>4 DEF Covers
  <2>7. ~is_secret_name(Name(e))
    <3> SUFFICES ASSUME e[k] \in HOME_SECRETS PROVE FALSE
      BY <2>4 DEF is_secret_name, Name
    <3>. DEFINE s == Append(h, e[k])
    <3>1. s \in Path /\ Len(s) = k /\ \A i \in 1..k : s[i] = e[i]
      BY <2>1, <2>4, <2>6, StorePlaces DEF Covers
    <3>2. s = e
      BY <2>4, <3>1, SeqEqual DEF Path
    <3>. QED BY <1>5, <2>5, <2>6, <3>2 DEF h
  <2>8. grant_path(e, access) \subseteq grant_read_tree(x, home, access)
    <3>1. e \in Entries(h)
      BY <2>4, <2>5, <2>6 DEF Entries
    <3>. QED
      BY <1>5, <2>7, <3>1 DEF grant_read_tree, grant_home_minus_secrets, h
  <2>9. realpath(e) = e
    BY <2>5, PlainPath
  <2>. QED BY <1>3, <2>5, <2>6, <2>8, <2>9
<1>6. CASE ~(home # NoHome /\ same_path(x, home))
  <2>1. grant_read_tree(x, home, access) = grant_path(x, access)
    BY <1>6 DEF grant_read_tree
  <2>. QED BY <1>3, <1>4, <2>1
<1>. QED BY <1>5, <1>6

-----------------------------------------------------------------------------
(* One call. *)

(* What was read, and the rest, against what was printed *)
Account(rest) ==
  /\ Len(buf) + Len(rest) + lost = Len(sent)
  /\ lost = 0 => sent = buf \o rest

(* A write adds to both sides. *)
LEMMA OneMore ==
  ASSUME NEW a \in Nat, NEW b \in Nat, NEW c \in Nat, NEW d \in Nat,
         a + b + c = d
  PROVE  a + (b + 1) + c = d + 1 /\ a + b + (c + 1) = d + 1
  OBVIOUS

(* Before anything is printed there is nothing to account for. *)
LEMMA NothingPrinted ==
  ASSUME sent = <<>>, lost = 0, buf = <<>>, pipe = <<>>
  PROVE  Account(pipe)
<1>1. <<>> \o <<>> = <<>> /\ Len(<<>>) = 0
  BY ConcatEmptySeq, EmptySeq
<1>. QED BY <1>1 DEF Account

(* The pipe loses nothing it has taken while it is read, and no writer is  *)
(* left when the R thread has seen the end of file.                        *)
PipeInv ==
  /\ reading <=> ppc \in {"fork", "drain", "poll", "read", "close"}
  /\ ppc \in {"gather", "pipe", "fork"} => cpc = "none"
  /\ ppc \in {"gather", "pipe"} => buf = <<>> /\ pipe = <<>>
  /\ reading => Account(pipe)
  /\ cause # "none" => ppc \in {"close", "kill", "wait", "annotate", "done"}
  /\ cause = "eof" => Account(<<>>) /\ ~Writers

(* The places of a child that has written nothing yet. *)
Silent == {"none", "limit", "sandbox", "refuse", "seccomp", "capture", "parse"}

(* The child speaks once it is confined, or to say that it is not. *)
SpeechInv ==
  /\ cpc \in Silent => sent = <<>> /\ lost = 0 /\ ~orphan
  /\ status # "running" <=> cpc \in {"dead", "reaped"}

(* Behind raoui_sandbox_apply there is all of the sandbox. *)
ConfinedInv ==
  /\ dyn \subseteq setting.dyn
  /\ "landlock" \in confined => setting.platform = "linux"
  /\ "seatbelt" \in confined => setting.platform = "macos"
  /\ cpc = "seccomp" => "landlock" \in confined
  /\ cpc \in {"capture", "parse", "eval", "close", "exit"} => Confined
  /\ orphan => Confined
  /\ cpc \in {"dead", "reaped"} =>
       \/ Confined
       \/ status \in Signals
       \/ sent = <<"refused">> /\ lost = 0

(* A signal leaves a mark. *)
MarkInv ==
  ppc = "done" /\ note = "none" /\ cpc = "reaped" => status \notin Signals

SandboxInv ==
  /\ TypeOK
  /\ PipeInv
  /\ SpeechInv
  /\ ConfinedInv
  /\ MarkInv

USE SandboxAssumption
    DEF parentVars, childVars

(* run_r_on_worker starts with nothing forked and nothing read. *)
LEMMA InitSandbox ==
  ASSUME Init
  PROVE  SandboxInv
<1>. USE DEF Init
<1>1. TypeOK
  <2>1. late \in BOOLEAN /\ orphan \in BOOLEAN /\ reading \in BOOLEAN
    BY Zenon
  <2>2. /\ buf \in Seq(Item) /\ pipe \in Seq(Item) /\ Len(pipe) <= PipeSlots
        /\ sent \in Seq(Item) /\ Len(sent) <= MaxOut + 1
    OBVIOUS
  <2>. QED BY <2>1, <2>2 DEF TypeOK, ParentPc, ChildPc
<1>2. PipeInv /\ SpeechInv /\ ConfinedInv /\ MarkInv
  BY DEF PipeInv, SpeechInv, ConfinedInv, MarkInv, Silent
<1>. QED BY <1>1, <1>2 DEF SandboxInv

(* write: what goes into the pipe goes behind all that was sent before, and *)
(* only a full pipe loses something.                                       *)
LEMMA WriteEffect ==
  ASSUME TypeOK, NEW x \in Item, Write(x), Len(sent) <= MaxOut
  PROVE  /\ sent' \in Seq(Item) /\ Len(sent') <= MaxOut + 1
         /\ pipe' \in Seq(Item) /\ Len(pipe') <= PipeSlots
         /\ sent' = Append(sent, x) /\ lost' \in Nat
         /\ reading /\ Account(pipe) =>
              /\ Len(buf) + Len(pipe') + lost' = Len(sent')
              /\ lost' = 0 => sent' = buf \o pipe'
         /\ Len(pipe) = 0 => lost' = lost
<1>1. /\ sent \in Seq(Item) /\ pipe \in Seq(Item) /\ buf \in Seq(Item)
      /\ Len(pipe) <= PipeSlots /\ lost \in Nat
  BY DEF TypeOK
<1>2. Len(sent) \in Nat /\ Len(pipe) \in Nat /\ Len(buf) \in Nat
  BY <1>1, LenProperties
<1>3. /\ sent' = Append(sent, x) /\ sent' \in Seq(Item)
      /\ Len(sent') = Len(sent) + 1
  BY <1>1 DEF Write
<1>4. Len(sent') = Len(sent) + 1 /\ lost \in Nat
  BY <1>1, <1>3
<1>5. Len(sent') <= MaxOut + 1
  BY <1>1, <1>3
<1>6. CASE reading /\ Len(pipe) < PipeSlots /\ pipe' = Append(pipe, x)
           /\ lost' = lost
  <2>1. /\ pipe' \in Seq(Item) /\ Len(pipe') <= PipeSlots
        /\ Len(pipe') = Len(pipe) + 1
    BY <1>1, <1>6
  <2>2. pipe' = pipe \o <<x>> /\ sent' = sent \o <<x>> /\ <<x>> \in Seq(Item)
    BY <1>1, <1>3, <1>6, AppendIsConcat
  <2>3. buf \o pipe' = (buf \o pipe) \o <<x>>
    BY <1>1, <2>2, ConcatAssociative
  <2>4. ASSUME Account(pipe)
        PROVE  /\ Len(buf) + Len(pipe') + lost' = Len(sent')
               /\ lost' = 0 => sent' = buf \o pipe'
    <3>1. Len(buf) + Len(pipe) + lost = Len(sent)
      BY <2>4 DEF Account
    <3>2. lost' = 0 => sent' = buf \o pipe'
      BY <1>6, <2>2, <2>3, <2>4 DEF Account
    <3>3. Len(buf) + Len(pipe') + lost' = Len(sent')
      <4>1. Len(pipe') = Len(pipe) + 1 /\ lost' = lost
        BY <1>6, <2>1
      <4>. QED BY <1>2, <1>4, <3>1, <4>1, OneMore
    <3>. QED BY <3>2, <3>3
  <2>. QED BY <1>1, <1>3, <1>5, <1>6, <2>1, <2>4
<1>7. CASE reading /\ Len(pipe) = PipeSlots /\ lost' = lost + 1 /\ pipe' = pipe
  <2>1. Len(pipe) # 0 /\ lost' \in Nat /\ lost' # 0
    BY <1>1, <1>2, <1>7
  <2>2. Account(pipe) => Len(buf) + Len(pipe') + lost' = Len(sent')
    <3>1. Account(pipe) => Len(buf) + Len(pipe) + lost = Len(sent)
      BY DEF Account
    <3>2. Len(pipe') = Len(pipe) /\ lost' = lost + 1
      BY <1>7
    <3>. QED BY <1>2, <1>4, <3>1, <3>2, OneMore
  <2>. QED BY <1>1, <1>3, <1>5, <1>7, <2>1, <2>2
<1>8. CASE ~reading /\ UNCHANGED <<pipe, lost>>
  BY <1>1, <1>3, <1>5, <1>8
<1>. QED BY <1>6, <1>7, <1>8 DEF Write

(* The R thread's own steps. *)
LEMMA ParentSandbox ==
  ASSUME SandboxInv, Parent \/ Interrupted \/ DrainFails \/ Deadline
  PROVE  SandboxInv'
<1>. USE DEF SandboxInv
<1>. USE DEF Parent, Gather, MakePipe, Fork, DrainTop, Poll, CloseRead, Kill, Wait,
         Annotate, Interrupted, DrainFails, Deadline, EndLoop, ChildEnds
<1>1. UNCHANGED <<setting, sent, lost, orphan>>
  BY DEF Read
<1>2. CASE Read
  <2>. DEFINE more == pipe # <<>>
  <2>1. /\ UNCHANGED <<dyn, note, late, childVars, reading>>
        /\ ppc = "read" /\ reading /\ Account(pipe) /\ cause = "none"
    BY <1>2 DEF Read, PipeInv, TypeOK
  <2>2. CASE pipe # <<>>
    <3>1. /\ ppc' = "drain" /\ cause' = cause
          /\ buf' = Append(buf, Head(pipe)) /\ pipe' = Tail(pipe)
      BY <1>2, <2>2 DEF Read
    <3>2. buf \in Seq(Item) /\ pipe \in Seq(Item) /\ Len(pipe) <= PipeSlots
      BY DEF TypeOK
    <3>3. /\ buf' \in Seq(Item) /\ pipe' \in Seq(Item)
          /\ Len(pipe') <= PipeSlots
      BY <2>2, <3>1, <3>2
    <3>4. /\ buf' \o pipe' = buf \o pipe
          /\ Len(buf') + Len(pipe') = Len(buf) + Len(pipe)
      BY <2>2, <3>1, <3>2
    <3>5. TypeOK'
      BY <1>1, <2>1, <3>1, <3>3 DEF TypeOK, ParentPc
    <3>6. PipeInv'
      BY <1>1, <2>1, <3>1, <3>4 DEF PipeInv, Account
    <3>. QED
      BY <1>1, <2>1, <3>1, <3>5, <3>6 DEF SpeechInv, ConfinedInv, Confined, MarkInv
  <2>3. CASE pipe = <<>>
    <3>1. ~Writers /\ ppc' = "close" /\ cause' = "eof" /\ UNCHANGED <<buf, pipe>>
      BY <1>2, <2>3 DEF Read
    <3>2. Account(<<>>)'
      <4>1. buf \in Seq(Item)
        BY DEF TypeOK
      <4>2. buf \o <<>> = buf
        BY <4>1, ConcatEmptySeq
      <4>. QED BY <1>1, <2>1, <2>3, <3>1, <4>2 DEF Account
    <3>3. ~Writers'
      BY <1>1, <2>1, <3>1 DEF Writers, Alive
    <3>4. TypeOK'
      BY <1>1, <2>1, <3>1 DEF TypeOK, ParentPc
    <3>5. PipeInv'
      <4>1. Account(pipe)'
        BY <1>1, <2>1, <3>1 DEF Account
      <4>. QED BY <1>1, <2>1, <3>1, <3>2, <3>3, <4>1 DEF PipeInv
    <3>. QED
      BY <1>1, <2>1, <3>1, <3>4, <3>5 DEF SpeechInv, ConfinedInv, Confined, MarkInv
  <2>. QED BY <2>2, <2>3
<1>3. CASE ~Read
  <2>1. UNCHANGED <<buf, pipe, confined>>
    BY <1>3
  <2>2. TypeOK'
    <3>1. ppc' \in ParentPc /\ cpc' \in ChildPc
      BY <1>3 DEF TypeOK, ParentPc, ChildPc
    <3>2. dyn' \subseteq DirPaths
      BY <1>3 DEF TypeOK
    <3>3. late' \in BOOLEAN
      BY <1>3, Zenon DEF TypeOK
    <3>4. reading' \in BOOLEAN
      BY <1>3 DEF TypeOK
    <3>5. cause' \in {"none", "eof", "timed_out", "error"}
      BY <1>3 DEF TypeOK
    <3>6. note' \in {"none", "failed", "timed out", "killed by signal",
                     "killed by signal, CPU limit"}
      BY <1>3 DEF TypeOK
    <3>7. status' \in {"running", "exit 0", "exit 1", "exit 98"} \cup Signals
      BY <1>3 DEF TypeOK, Signals
    <3>. QED
      BY <1>1, <2>1, <3>1, <3>2, <3>3, <3>4, <3>5, <3>6, <3>7 DEF TypeOK
  <2>3. PipeInv'
    <3>1. reading' <=> ppc' \in {"fork", "drain", "poll", "read", "close"}
      <4>1. reading' => ppc' \in {"fork", "drain", "poll", "read", "close"}
        BY <1>3 DEF PipeInv
      <4>2. ppc' \in {"fork", "drain", "poll", "read", "close"} => reading'
        BY <1>3 DEF PipeInv
      <4>. QED BY <4>1, <4>2
    <3>2. reading' => Account(pipe)'
      <4>1. sent = <<>> /\ lost = 0 /\ buf = <<>> /\ pipe = <<>> =>
              Account(pipe)
        BY NothingPrinted
      <4>2. reading' => reading \/ ppc = "pipe"
        BY <1>3
      <4>3. Account(pipe) => Account(pipe)'
        BY <1>1, <2>1 DEF Account
      <4>. QED BY <4>1, <4>2, <4>3 DEF PipeInv, SpeechInv, Silent
    <3>3. ppc' \in {"gather", "pipe", "fork"} => cpc' = "none"
      BY <1>3 DEF PipeInv
    <3>4. ppc' \in {"gather", "pipe"} => ppc \in {"gather", "pipe"}
      BY <1>3
    <3>5. cause' # "none" => ppc' \in {"close", "kill", "wait", "annotate", "done"}
      BY <1>3 DEF PipeInv
    <3>6. cause' = "eof" => cause = "eof"
      BY <1>3
    <3>7. cause = "eof" /\ ~Writers => ~Writers'
      BY <1>1, <1>3 DEF Writers, Alive, PipeInv
    <3>8. Account(<<>>) => Account(<<>>)'
      BY <1>1, <2>1 DEF Account
    <3>. QED
      BY <1>1, <2>1, <3>1, <3>2, <3>3, <3>4, <3>5, <3>6, <3>7, <3>8 DEF PipeInv
  <2>4. SpeechInv'
    <3>1. cpc' \in Silent => cpc \in Silent
      BY <1>3 DEF Silent, PipeInv
    <3>2. status' # "running" <=> cpc' \in {"dead", "reaped"}
      BY <1>3 DEF SpeechInv, PipeInv
    <3>. QED BY <1>1, <3>1, <3>2 DEF SpeechInv
  <2>5. ConfinedInv'
    <3>1. dyn' \subseteq setting.dyn
      BY <1>3 DEF ConfinedInv
    <3>2. cpc' = cpc \/ cpc' \in {"limit", "dead", "reaped"}
      BY <1>3
    <3>3. cpc' \in {"dead", "reaped"} =>
            status' \in Signals \/ (status' = status /\ cpc \in {"dead", "reaped"})
      BY <1>3 DEF Signals
    <3>. QED BY <1>1, <2>1, <3>1, <3>2, <3>3 DEF ConfinedInv, Confined
  <2>6. MarkInv'
    BY <1>3 DEF MarkInv, Signals, St, PipeInv
  <2>. QED BY <2>2, <2>3, <2>4, <2>5, <2>6
<1>. QED BY <1>2, <1>3

(* The child's steps that write nothing. *)
LEMMA QuietSandbox ==
  ASSUME SandboxInv,
         \/ SetLimit \/ ApplyRules \/ ApplyFilter \/ Capture \/ ForkMore
         \/ OrphanEnds \/ Wedge \/ EvalEnds \/ Quit \/ CloseWrite \/ Exit \/ Die
         \/ Parse /\ UNCHANGED <<pipe, sent, lost>> /\ cpc' = "eval"
  PROVE  SandboxInv'
<1>. USE DEF SandboxInv
<1>. USE DEF SetLimit, ApplyRules, ApplyFilter, Capture, ForkMore, OrphanEnds,
             Wedge, EvalEnds, Quit, CloseWrite, Exit, Die, Parse, ChildEnds
<1>1. UNCHANGED <<setting, parentVars, late, pipe, reading, sent, lost>>
  OBVIOUS
<1>2. TypeOK'
  <2>1. cpc' \in ChildPc
    BY DEF TypeOK, ChildPc
  <2>2. status' \in {"running", "exit 0", "exit 1", "exit 98"} \cup Signals
    BY DEF TypeOK, Signals, CpuLimitSignal
  <2>3. confined' \subseteq {"landlock", "seccomp", "seatbelt"}
    BY DEF TypeOK
  <2>4. orphan' \in BOOLEAN
    BY Zenon DEF TypeOK
  <2>. QED BY <1>1, <2>1, <2>2, <2>3, <2>4 DEF TypeOK
<1>3. PipeInv'
  <2>1. ~Writers => ~Writers'
    BY DEF Writers, Alive
  <2>2. cpc = "none" => cpc' = "none"
    OBVIOUS
  <2>3. /\ Account(<<>>) => Account(<<>>)'
        /\ Account(pipe) => Account(pipe)'
    BY <1>1 DEF Account
  <2>. QED BY <1>1, <2>1, <2>2, <2>3 DEF PipeInv
<1>4. SpeechInv'
  <2>1. cpc' \in Silent => cpc \in Silent /\ (orphan' => orphan)
    BY DEF Silent
  <2>2. status' # "running" <=> cpc' \in {"dead", "reaped"}
    BY DEF SpeechInv, CpuLimitSignal
  <2>. QED BY <1>1, <2>1, <2>2 DEF SpeechInv
<1>5. ConfinedInv'
  <2>1. /\ "landlock" \in confined' => setting.platform = "linux"
        /\ "seatbelt" \in confined' => setting.platform = "macos"
    BY DEF ConfinedInv
  <2>2. cpc' = "seccomp" => "landlock" \in confined'
    BY DEF ConfinedInv
  <2>3. Confined => Confined'
    BY DEF Confined
  <2>4. cpc' \in {"capture", "parse", "eval", "close", "exit"} => Confined'
    <3>1. CASE ApplyRules \/ ApplyFilter
      BY <3>1 DEF ConfinedInv, Confined
    <3>2. CASE ~(ApplyRules \/ ApplyFilter)
      <4>1. cpc' \in {"capture", "parse", "eval", "close", "exit"} =>
              cpc \in {"capture", "parse", "eval", "close", "exit"}
        BY <3>2
      <4>. QED BY <2>3, <4>1 DEF ConfinedInv
    <3>. QED BY <3>1, <3>2
  <2>5. orphan' => Confined'
    <3>1. orphan' => orphan \/ cpc = "eval"
      OBVIOUS
    <3>. QED BY <2>3, <3>1 DEF ConfinedInv
  <2>6. cpc' \in {"dead", "reaped"} =>
          \/ cpc \in {"exit", "eval"}
          \/ status' \in Signals
          \/ cpc' = cpc /\ status' = status
    BY DEF Signals, CpuLimitSignal
  <2>. QED BY <1>1, <2>1, <2>2, <2>3, <2>4, <2>5, <2>6 DEF ConfinedInv
<1>6. MarkInv'
  <2>1. cpc' = "reaped" => cpc = "reaped" /\ status' = status
    OBVIOUS
  <2>. QED BY <1>1, <2>1 DEF MarkInv
<1>. QED BY <1>2, <1>3, <1>4, <1>5, <1>6

(* The child's steps that write, and those of a process it left behind. *)
LEMMA WritingSandbox ==
  ASSUME SandboxInv, Refuse \/ WriteOutput \/ (Parse /\ cpc' = "close")
  PROVE  SandboxInv'
<1>. USE DEF SandboxInv
<1>1. UNCHANGED <<setting, parentVars, late, confined, orphan, reading>>
  BY DEF Refuse, WriteOutput, Parse
<1>2. PICK x \in Item : Write(x) /\ (Refuse => x = "refused")
  <2>1. Item = {"text", "refused", "parse error"}
    BY DEF Item
  <2>2. CASE Refuse
    BY <2>1, <2>2 DEF Refuse
  <2>3. CASE ~Refuse
    BY <2>1, <2>3 DEF WriteOutput, Parse
  <2>. QED BY <2>2, <2>3
<1>3. Len(sent) <= MaxOut
  <2>1. CASE cpc \in Silent
    <3>1. sent = <<>>
      BY <2>1 DEF SpeechInv
    <3>. QED BY <3>1
  <2>2. CASE cpc \notin Silent
    <3>1. Len(sent) < MaxOut
      BY <2>2 DEF Refuse, WriteOutput, Parse, Silent
    <3>2. sent \in Seq(Item)
      BY DEF TypeOK
    <3>. QED BY <3>1, <3>2
  <2>. QED BY <2>1, <2>2
<1>4. /\ sent' \in Seq(Item) /\ Len(sent') <= MaxOut + 1
      /\ pipe' \in Seq(Item) /\ Len(pipe') <= PipeSlots
      /\ sent' = Append(sent, x) /\ lost' \in Nat
      /\ reading /\ Account(pipe) =>
           /\ Len(buf \o pipe') + lost' = Len(sent')
           /\ lost' = 0 => sent' = buf \o pipe'
      /\ pipe = <<>> => lost' = lost
  BY <1>2, <1>3, WriteEffect
<1>5. \/ /\ cpc' = cpc /\ status' = status
         /\ cpc = "eval" \/ orphan
      \/ cpc = "refuse" /\ cpc' = "dead" /\ status' = "exit 98" /\ Refuse
      \/ cpc = "parse" /\ cpc' = "close" /\ status' = status
  BY DEF Refuse, WriteOutput, Parse, ChildEnds
<1>6. Writers
  BY <1>5 DEF Writers, Alive
<1>7. TypeOK'
  <2>1. /\ cpc' \in ChildPc
        /\ status' \in {"running", "exit 0", "exit 1", "exit 98"} \cup Signals
    BY <1>5 DEF TypeOK, ChildPc
  <2>. QED BY <1>1, <1>4, <2>1 DEF TypeOK
<1>8. PipeInv'
  <2>1. ppc \notin {"gather", "pipe", "fork"}
    BY <1>5 DEF PipeInv, SpeechInv, Silent
  <2>2. reading => Account(pipe)'
    <3>1. reading => Account(pipe)
      BY DEF PipeInv
    <3>2. buf' = buf
      BY <1>1
    <3>. QED BY <1>4, <3>1, <3>2 DEF Account
  <2>. QED BY <1>1, <1>4, <1>6, <2>1, <2>2 DEF PipeInv
<1>9. SpeechInv'
  <2>1. cpc' \notin Silent
    BY <1>5 DEF SpeechInv, Silent
  <2>2. status' # "running" <=> cpc' \in {"dead", "reaped"}
    BY <1>5 DEF SpeechInv
  <2>. QED BY <2>1, <2>2 DEF SpeechInv
<1>10. ConfinedInv' /\ MarkInv'
  <2>1. Confined' <=> Confined
    BY <1>1 DEF Confined
  <2>2. CASE cpc = "refuse" /\ cpc' = "dead" /\ status' = "exit 98" /\ Refuse
    <3>1. sent = <<>> /\ lost = 0 /\ (reading => pipe = <<>>)
      <4>1. sent = <<>> /\ lost = 0
        BY <2>2 DEF SpeechInv, Silent
      <4>2. ASSUME reading PROVE pipe = <<>>
        <5>1. Len(buf \o pipe) = 0
          BY <4>1, <4>2 DEF PipeInv, Account
        <5>2. buf \in Seq(Item) /\ pipe \in Seq(Item)
          BY DEF TypeOK
        <5>. QED BY <5>1, <5>2
      <4>. QED BY <4>1, <4>2
    <3>2. lost' = 0
      <4>1. CASE reading
        BY <1>4, <3>1, <4>1
      <4>2. CASE ~reading
        BY <1>2, <3>1, <4>2 DEF Write
      <4>. QED BY <4>1, <4>2
    <3>3. sent' = <<"refused">>
      <4>1. Append(<<>>, "refused") = <<"refused">>
        OBVIOUS
      <4>. QED BY <1>2, <1>4, <2>2, <3>1, <4>1
    <3>. QED BY <1>1, <2>1, <2>2, <3>2, <3>3 DEF ConfinedInv, MarkInv
  <2>3. CASE cpc' = cpc /\ status' = status /\ (cpc = "eval" \/ orphan)
    <3>1. Confined
      BY <2>3 DEF ConfinedInv
    <3>. QED BY <1>1, <2>1, <2>3, <3>1 DEF ConfinedInv, MarkInv
  <2>4. CASE cpc = "parse" /\ cpc' = "close" /\ status' = status
    BY <1>1, <2>1, <2>4 DEF ConfinedInv, MarkInv
  <2>. QED BY <1>5, <2>2, <2>3, <2>4
<1>. QED BY <1>7, <1>8, <1>9, <1>10

(* Every step of the call, in whatever order. *)
LEMMA NextSandbox ==
  ASSUME SandboxInv, [Next]_vars
  PROVE  SandboxInv'
<1>1. CASE Parent \/ Interrupted \/ DrainFails \/ Deadline
  BY <1>1, ParentSandbox
<1>2. CASE Child
  <2>1. Parse => \/ UNCHANGED <<pipe, sent, lost>> /\ cpc' = "eval"
                 \/ cpc' = "close"
    BY DEF Parse
  <2>. QED BY <1>2, <2>1, QuietSandbox, WritingSandbox DEF Child
<1>3. CASE UNCHANGED vars
  <2>. USE <1>3 DEF vars, SandboxInv
  <2>1. TypeOK'
    BY DEF TypeOK
  <2>2. PipeInv'
    BY DEF PipeInv, Account, Writers, Alive
  <2>3. SpeechInv'
    BY DEF SpeechInv
  <2>4. ConfinedInv' /\ MarkInv'
    BY DEF ConfinedInv, Confined, MarkInv
  <2>. QED BY <2>1, <2>2, <2>3, <2>4
<1>. QED BY <1>1, <1>2, <1>3 DEF Next

(* What every state of a sandboxed call satisfies. *)
THEOREM SandboxInvariant == Spec => []SandboxInv
  BY InitSandbox, NextSandbox, PTL DEF Spec

(* A result without a mark is whole but for the writes that a signal       *)
(* interrupted on a full pipe, and it is that of a child that ended by     *)
(* itself, after an evaluation inside the sandbox or a refusal that says so. *)
THEOREM ResultIsWhole == Spec => []UnmarkedIsWhole
<1>1. SandboxInv => UnmarkedIsWhole
  <2> SUFFICES ASSUME SandboxInv, ppc = "done", note = "none", cause = "eof",
                      cpc = "reaped"
               PROVE  /\ status \notin Signals
                      /\ Confined \/ buf = <<"refused">>
                      /\ Len(buf) + lost = Len(sent)
                      /\ lost = 0 => buf = sent
    BY DEF UnmarkedIsWhole
  <2>1. Len(buf) + lost = Len(sent) /\ (lost = 0 => buf = sent)
    <3>1. Account(<<>>) /\ buf \in Seq(Item) /\ lost \in Nat
      BY DEF SandboxInv, PipeInv, TypeOK
    <3>2. Len(<<>>) = 0 /\ buf \o <<>> = buf /\ Len(buf) \in Nat
      BY <3>1, ConcatEmptySeq, LenProperties
    <3>. QED BY <3>1, <3>2 DEF Account
  <2>2. status \notin Signals
    BY DEF SandboxInv, MarkInv
  <2>3. Confined \/ buf = <<"refused">>
    BY <2>1, <2>2 DEF SandboxInv, ConfinedInv
  <2>. QED BY <2>1, <2>2, <2>3
<1>. QED BY <1>1, SandboxInvariant, PTL

(* On every machine and from every place, whatever step of the setup       *)
(* fails: evaluated code reads no credential store but what OpenTo names,  *)
(* changes only scratch files (and, by truncation, others, on a kernel     *)
(* that does not govern it), starts no program and opens no socket.        *)
THEOREM CodeStaysConfined == Spec => []CodeIsConfined
<1>1. SandboxInv => CodeIsConfined
  <2> SUFFICES ASSUME SandboxInv, cpc = "eval" PROVE CodeIsConfined
    BY DEF CodeIsConfined
  <2>1. /\ setting \in Setting /\ setting.home \in DirPaths \cup {NoHome}
        /\ dyn \in SUBSET DirPaths /\ setting.abi \in Nat
    BY DEF SandboxInv, TypeOK
  <2>2. \/ /\ {"landlock", "seccomp"} \subseteq confined
           /\ setting.platform = "linux"
        \/ "seatbelt" \in confined /\ setting.platform = "macos"
    BY DEF SandboxInv, ConfinedInv, Confined
  <2>3. ASSUME NEW call \in Call PROVE ~MayCall(call)
    BY <2>2 DEF Call, MayCall, SeccompAllows, SeatbeltCalls
  <2>4. ASSUME NEW right \in FS_WRITE_RIGHTS, NEW q \in Exists,
               MayTouch(right, q)
        PROVE  Covers(ScratchDir, q) \/ q = DevNull \/ Ungoverned(right)
    <3>1. CASE "landlock" \in confined /\ setting.platform = "linux"
      <4>1. CASE right \in Handled(setting.abi)
        BY <2>1, <2>4, <3>1, <4>1, LandlockWrites DEF MayTouch, ScratchDir
      <4>2. CASE right \notin Handled(setting.abi)
        BY <3>1, <4>2 DEF Handled, Ungoverned
      <4>. QED BY <4>1, <4>2
    <3>2. CASE "seatbelt" \in confined /\ setting.platform = "macos"
      <4>1. right \notin FS_READ_RIGHTS
        BY DEF FS_READ_RIGHTS, FS_WRITE_RIGHTS
      <4>. QED BY <2>4, <3>2, <4>1 DEF MayTouch, ScratchDir, SeatbeltWrites
    <3>. QED BY <2>2, <3>1, <3>2
  <2>5. ASSUME NEW right \in FS_READ_RIGHTS, NEW q \in Exists,
               MayTouch(right, q), InStore(q)
        PROVE  OpenTo(q)
    <3>. DEFINE h == realpath(setting.home)
    <3>1. PICK s \in Stores : Covers(realpath(s), q)
      BY <2>5 DEF InStore
    <3>2. setting.home \in DirPaths /\ setting.home # NoHome
      BY <2>1, <2>5 DEF InStore
    <3>3. CASE s \in Links
      BY <3>1, <3>3 DEF OpenTo, realpath
    <3>4. CASE /\ s \notin Links
               /\ "landlock" \in confined /\ setting.platform = "linux"
      <4>1. PICK n \in HOME_SECRETS : s = Append(h, n)
        BY <3>4 DEF Stores
      <4>2. realpath(s) = Append(h, n)
        BY <3>4, <4>1 DEF realpath
      <4>3. LandlockAllows(LandlockRules(dyn, setting.home, setting.abi),
                           setting.abi, right, q)
        BY <2>5, <3>4 DEF MayTouch
      <4>4. \/ \E x \in SYS_READ_ROOTS \cup dyn :
                 Covers(realpath(s), realpath(x)) /\ Covers(realpath(x), q)
            \/ \E e \in Entries(h) \cap Links :
                 ~is_secret_name(Name(e)) /\ Covers(Leads[e], q)
            \/ Covers(realpath(Scratch), q)
        BY <2>1, <3>1, <3>2, <4>2, <4>3, LandlockHidesStores
      <4>5. \A x : Covers(realpath(s), realpath(x)) => InStore(realpath(x))
        BY <3>2 DEF InStore
      <4>. QED BY <3>4, <4>4, <4>5 DEF OpenTo, ScratchDir
    <3>5. CASE /\ s \notin Links /\ setting.home \notin Links
               /\ "seatbelt" \in confined /\ setting.platform = "macos"
      <4>1. s \in MacSecrets(setting.home) /\ Covers(s, q)
        BY <3>1, <3>5 DEF Stores, realpath
      <4>. QED BY <2>5, <3>2, <3>5, <4>1 DEF MayTouch, SeatbeltReads
    <3>6. CASE setting.home \in Links /\ setting.platform = "macos"
      BY <3>6 DEF OpenTo
    <3>. QED BY <2>2, <3>3, <3>4, <3>5, <3>6
  <2>. QED BY <2>3, <2>4, <2>5 DEF CodeIsConfined
<1>. QED BY <1>1, SandboxInvariant, PTL

(* The confined child still reads the user's data: every file below a      *)
(* gathered path, except the stores and what a directory above $HOME holds. *)
THEOREM DataStaysReadable == Spec => []DataIsReadable
<1>1. SandboxInv => DataIsReadable
  <2> SUFFICES ASSUME SandboxInv, cpc = "eval", NEW q \in Files, NEW x \in dyn,
                      Covers(Place(x), q), ~is_strict_ancestor(x, setting.home),
                      ~InStore(q)
               PROVE  MayTouch("READ_FILE", q)
    BY DEF DataIsReadable
  <2>1. /\ setting \in Setting /\ setting.home \in DirPaths \cup {NoHome}
        /\ dyn \in SUBSET DirPaths /\ setting.abi \in Nat
    BY DEF SandboxInv, TypeOK
  <2>2. /\ "landlock" \in confined => setting.platform = "linux"
        /\ "seatbelt" \in confined => setting.platform = "macos"
    BY DEF SandboxInv, ConfinedInv
  <2>3. ASSUME "landlock" \in confined
        PROVE  LandlockAllows(LandlockRules(dyn, setting.home, setting.abi),
                              setting.abi, "READ_FILE", q)
    <3>. DEFINE h == realpath(setting.home)
    <3>1. ASSUME setting.home # NoHome, NEW n \in HOME_SECRETS,
                 Append(h, n) \in Exists
          PROVE  ~Covers(Append(h, n), q)
      <4>1. Append(h, n) \in Stores
        BY <2>2, <2>3 DEF Stores
      <4>2. realpath(Append(h, n)) = Append(h, n)
        BY <3>1, PlainPath
      <4>. HIDE DEF h
      <4>. QED BY <3>1, <4>1, <4>2 DEF InStore
    <3>2. Covers(realpath(x), q)
      BY <2>2, <2>3 DEF Place
    <3>. QED BY <2>1, <3>1, <3>2, LandlockReads
  <2>4. ASSUME "seatbelt" \in confined
        PROVE  SeatbeltReads(dyn, setting.home, q)
    <3>1. Covers(x, q)
      BY <2>2, <2>4 DEF Place
    <3>2. ASSUME setting.home # NoHome, NEW s \in MacSecrets(setting.home),
                 Covers(s, q)
          PROVE  FALSE
      <4>1. setting.home \in Path /\ q \in Path
        BY <2>1, <3>2, PathsExist DEF DirPaths, Exists
      <4>2. /\ s \in Path /\ Covers(setting.home, s)
            /\ Len(setting.home) < Len(s)
        BY <3>2, <4>1, MacStorePlaces
      <4>3. Covers(setting.home, q)
        BY <3>2, <4>1, <4>2 DEF Covers, Path
      <4>4. setting.home \in Exists /\ s \in Exists
        <5>1. q \in Exists
          BY DEF Exists
        <5>. QED BY <3>2, <4>1, <4>2, <4>3, <5>1, AboveIsThere
      <4>5. realpath(setting.home) = setting.home /\ realpath(s) = s
        BY <4>4, PlainPath
      <4>6. s \in Stores
        BY <2>2, <2>4, <3>2, <4>5 DEF Stores
      <4>. QED BY <3>2, <4>5, <4>6 DEF InStore
    <3>. QED BY <3>1, <3>2 DEF SeatbeltReads
  <2>. QED BY <2>3, <2>4 DEF MayTouch, FS_READ_RIGHTS
<1>. QED BY <1>1, SandboxInvariant, PTL

=============================================================================
