---------------------------- MODULE SandboxPolicy ----------------------------
(***************************************************************************)
(* What a sandboxed evaluation may touch: the Landlock rules and the       *)
(* seccomp filter of c_ffi/sandbox_linux.c, and the Seatbelt profile of    *)
(* c_ffi/load_r.c (macOS).                                                 *)
(*                                                                         *)
(* A path is the sequence of its names, << >> is the root.  The kernel     *)
(* judges what a path leads to, which has one path without links.          *)
(***************************************************************************)
EXTENDS Integers, Sequences

CONSTANTS Dirs,   \* the directories of the machine
          Files,  \* and its other files
          Leads   \* where the paths that go through a symbolic link end

NoHome == <<"">>  \* $HOME is not set

DevNull == <<"dev", "null">>

Exists == Dirs \cup Files
Links == DOMAIN Leads

(* The machine is a tree: it has a root, a file is not a directory, and    *)
(* what exists is in a directory.  A path through a link ends somewhere    *)
(* in it; /dev/null is what it should be.                                  *)
ASSUME PolicyAssumption ==
  /\ <<>> \in Dirs
  /\ Dirs \cap Files = {}
  /\ Links \cap Exists = {}
  /\ \A p \in Links : p \in Seq(STRING) /\ Leads[p] \in Exists
  /\ NoHome \notin Exists \cup Links
  /\ DevNull \notin Dirs \cup Links
  /\ \A q \in Exists :
       /\ q \in Seq(STRING)
       /\ \A n \in 1..(Len(q) - 1) : SubSeq(q, 1, n) \in Dirs

(* p is q, or a directory above it. *)
Covers(p, q) ==
  /\ Len(p) <= Len(q)
  /\ \A i \in 1..Len(p) : p[i] = q[i]

(* Where a path leads; one that leads nowhere stays as it is. *)
realpath(p) == IF p \in Links THEN Leads[p] ELSE p

DirPaths == {p \in Dirs \cup Links : realpath(p) \in Dirs}

(* The entries a directory lists, links among them. *)
Entries(d) == {q \in Exists \cup Links : Len(q) = Len(d) + 1 /\ Covers(d, q)}
Name(q) == q[Len(q)]

-----------------------------------------------------------------------------
(* Landlock. *)

FS_READ_RIGHTS == {"READ_FILE", "READ_DIR"}
FS_WRITE_RIGHTS ==
  {"WRITE_FILE", "TRUNCATE", "REMOVE_FILE", "REMOVE_DIR", "MAKE_REG",
   "MAKE_DIR", "MAKE_SYM", "MAKE_FIFO", "MAKE_SOCK", "MAKE_CHAR",
   "MAKE_BLOCK"}
FS_FILE_RIGHTS == {"READ_FILE", "WRITE_FILE", "TRUNCATE", "EXECUTE"}

(* The rights the ruleset governs; TRUNCATE arrived in ABI 3. *)
Handled(abi) ==
  (FS_READ_RIGHTS \cup FS_WRITE_RIGHTS) \ (IF abi < 3 THEN {"TRUNCATE"} ELSE {})

SYS_READ_ROOTS ==
  {<<"usr">>, <<"lib">>, <<"lib64">>, <<"bin">>, <<"sbin">>, <<"etc">>,
   <<"dev">>, <<"tmp">>}

HOME_SECRETS ==
  {".ssh", ".aws", ".gnupg", ".config", ".netrc", ".Renviron", ".Rhistory",
   ".bash_history", ".zsh_history", ".docker", ".kube"}

Scratch == <<"tmp", "raoui-sandbox">>

(* landlock_add_rule refuses a rule with a right its object cannot have. *)
add_rule(path, access) ==
  IF path \in Files /\ ~(access \subseteq FS_FILE_RIGHTS)
  THEN {}
  ELSE {[path |-> path, access |-> access]}

(* Variant: rights of directories are left on a file, and the rule is lost. *)
grant_path_unmasked(path, access) ==
  IF realpath(path) \notin Exists THEN {} ELSE add_rule(realpath(path), access)

(* The rule one grant adds, as a set: none for a path that is not there,   *)
(* and only the rights of a file for one that is not a directory.  open()  *)
(* follows links, so the rule is about what the path leads to.             *)
grant_path(path, access) ==
  LET object == realpath(path)
      given == IF object \in Files THEN access \cap FS_FILE_RIGHTS ELSE access
  IN IF object \notin Exists \/ given = {} THEN {} ELSE add_rule(object, given)

is_secret_name(name) == name \in HOME_SECRETS

(* $HOME itself is not granted, only what it lists, less the stores. *)
grant_home_minus_secrets(home, access) ==
  UNION {grant_path(q, access) :
           q \in {e \in Entries(realpath(home)) : ~is_secret_name(Name(e))}}

same_path(a, b) == realpath(a) \in Exists /\ realpath(a) = realpath(b)

is_strict_ancestor(a, d) ==
  /\ realpath(a) \in Exists /\ realpath(d) \in Exists
  /\ ~same_path(a, d)
  /\ Covers(realpath(a), realpath(d))

(* Variant: directories that contain $HOME are granted as a whole. *)
grant_read_tree_wholesale(path, home, access) ==
  IF home # NoHome /\ same_path(path, home)
  THEN grant_home_minus_secrets(home, access)
  ELSE grant_path(path, access)

grant_read_tree(path, home, access) ==
  IF home # NoHome /\ same_path(path, home)
  THEN grant_home_minus_secrets(home, access)
  ELSE IF home # NoHome /\ is_strict_ancestor(path, home)
  THEN {}
  ELSE grant_path(path, access)

read_access(abi) == FS_READ_RIGHTS \cap Handled(abi)
write_access(abi) == (FS_READ_RIGHTS \cup FS_WRITE_RIGHTS) \cap Handled(abi)

(* apply_landlock: the rules, for the read paths gathered before the fork. *)
(* mkdir has made the scratch directory, if it was not there.              *)
LandlockReadRules(dyn, home, abi) ==
  UNION {grant_read_tree(p, home, read_access(abi)) :
           p \in SYS_READ_ROOTS \cup dyn}

LandlockRules(dyn, home, abi) ==
  LandlockReadRules(dyn, home, abi)
    \cup grant_path(Scratch, write_access(abi))
    \cup grant_path(DevNull, {"WRITE_FILE"} \cap Handled(abi))

(* The kernel: rules add up, from the path of a rule downwards. *)
LandlockAllows(rules, abi, right, q) ==
  \/ right \notin Handled(abi)
  \/ \E r \in rules : right \in r.access /\ Covers(r.path, q)

-----------------------------------------------------------------------------
(* seccomp, as the filter decides: first match. *)

SeccompAllows(call) ==
  /\ call \notin {"execve", "execveat"}
  /\ call # "socket(AF_INET)"

-----------------------------------------------------------------------------
(* Seatbelt, where the last matching rule wins.  The profile is text: the  *)
(* kernel compares its paths, links and all, with where a file really is.  *)

MacRoots ==
  {<<"usr">>, <<"System">>, <<"Library">>, <<"opt", "homebrew">>,
   <<"private", "var">>, <<"etc">>, <<"private", "etc">>, <<"dev">>}

MacScratch == <<"private", "tmp", "raoui-sandbox">>

MacSecrets(home) ==
  {Append(home, n) : n \in HOME_SECRETS} \cup {home \o <<"Library", "Keychains">>}

(* build_runr_profile: reads are denied, allowed again for the roots and   *)
(* the gathered paths, and denied for the stores; everything else is a     *)
(* rule without a path.                                                    *)
SeatbeltReads(dyn, home, q) ==
  /\ \E p \in MacRoots \cup dyn : Covers(p, q)
  /\ home # NoHome => \A s \in MacSecrets(home) : ~Covers(s, q)

SeatbeltWrites(q) == Covers(MacScratch, q) \/ q = DevNull

SeatbeltCalls(call) == call = "fork"

=============================================================================
