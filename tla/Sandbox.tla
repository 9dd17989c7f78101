------------------------------- MODULE Sandbox -------------------------------
(***************************************************************************)
(* One call of run_r_on_worker (c_ffi/load_r.c): the R thread forks, the   *)
(* child confines itself and evaluates, the parent drains a pipe under a   *)
(* wall-clock watchdog, kills, reaps and annotates.  Parent, child and the *)
(* processes the child may fork run interleaved; time is one bit, "the     *)
(* 30 s are over".                                                         *)
(*                                                                         *)
(* The kernel and R are external: the child's evaluation is any sequence   *)
(* of at most MaxOut writes and of attempts to touch the machine, and may  *)
(* stop for good (a gate of the child's own copy that nobody opens, a lock *)
(* that was held when the process forked).                                 *)
(***************************************************************************)
EXTENDS SandboxPolicy, FiniteSets

CONSTANTS Setting,    \* [platform, home, dyn, abi]: where the program runs
          PipeSlots,  \* writes the pipe holds
          MaxOut      \* writes of one evaluation

ASSUME SandboxAssumption ==
  /\ PipeSlots \in Nat \ {0}
  /\ MaxOut \in Nat
  /\ \A s \in Setting :
       /\ s.platform \in {"linux", "macos", "other"}
       /\ s.home \in DirPaths \cup {NoHome}
       /\ s.dyn \subseteq DirPaths
       /\ s.abi \in Nat

VARIABLES setting,   \* the element of Setting this behaviour is about
          ppc,       \* where the R thread is in run_r_on_worker
          dyn,       \* gather_runr_read_paths
          late,      \* RUNR_WALL_TIMEOUT_MS have passed
          cause,     \* what ended the drain loop
          buf,       \* what was read
          note,      \* how the result is marked
          cpc,       \* where the child is
          status,    \* how the child ended
          confined,  \* what the child has applied to itself
          orphan,    \* a process forked by the child is alive
          pipe,      \* written and not read
          reading,   \* the parent's end of the pipe is open
          sent,      \* observer: everything the child printed, lost or not
          lost       \* observer: writes a signal has interrupted

parentVars == <<ppc, dyn, cause, buf, note>>
childVars == <<cpc, status, confined>>
vars ==
  <<setting, parentVars, late, childVars, orphan, pipe, reading, sent, lost>>

ParentPc == {"gather", "pipe", "fork", "drain", "poll", "read", "close",
             "kill", "wait", "annotate", "done"}
ChildPc == {"none", "limit", "sandbox", "refuse", "seccomp", "capture",
            "parse", "eval", "wedged", "close", "exit", "dead", "reaped"}

Signals == {"SIGKILL", "SIGXCPU", "SIGSEGV", "SIGPIPE"}
Item == {"text", "refused", "parse error"}

TypeOK ==
  /\ setting \in Setting
  /\ ppc \in ParentPc
  /\ dyn \subseteq DirPaths
  /\ late \in BOOLEAN
  /\ cause \in {"none", "eof", "timed_out", "error"}
  /\ buf \in Seq(Item)
  /\ note \in {"none", "failed", "timed out", "killed by signal",
               "killed by signal, CPU limit"}
  /\ cpc \in ChildPc
  /\ status \in {"running", "exit 0", "exit 1", "exit 98"} \cup Signals
  /\ confined \subseteq {"landlock", "seccomp", "seatbelt"}
  /\ orphan \in BOOLEAN
  /\ pipe \in Seq(Item) /\ Len(pipe) <= PipeSlots
  /\ reading \in BOOLEAN
  /\ sent \in Seq(Item) /\ Len(sent) <= MaxOut + 1
  /\ lost \in Nat

Init ==
  /\ setting \in Setting
  /\ ppc = "gather"
  /\ dyn = {}
  /\ late = FALSE
  /\ cause = "none"
  /\ buf = <<>>
  /\ note = "none"
  /\ cpc = "none"
  /\ status = "running"
  /\ confined = {}
  /\ orphan = FALSE
  /\ pipe = <<>>
  /\ reading = FALSE
  /\ sent = <<>>
  /\ lost = 0

-----------------------------------------------------------------------------
(* The processes. *)

Alive == cpc \notin {"none", "dead", "reaped"}

(* Some process still holds the write end of the pipe. *)
Writers == orphan \/ (Alive /\ cpc # "exit")

ChildEnds(st) == cpc' = "dead" /\ status' = st

(* write(), whose result nobody looks at.  On a full pipe it blocks until  *)
(* there is room, or until a signal interrupts it (SIGWINCH, whose handler *)
(* asks for no restart, goes to the child as well): the rest of the data is *)
(* lost.  Without a reader it is lost too, or SIGPIPE ends the child.      *)
Write(x) ==
  /\ sent' = Append(sent, x)
  /\ \/ /\ reading /\ Len(pipe) < PipeSlots
        /\ pipe' = Append(pipe, x)
        /\ UNCHANGED lost
     \/ /\ reading /\ Len(pipe) = PipeSlots
        /\ lost' = lost + 1
        /\ UNCHANGED pipe
     \/ ~reading /\ UNCHANGED <<pipe, lost>>

-----------------------------------------------------------------------------
(* The R thread: run_r_on_worker. *)

(* The paths of the live session, or none when R failed to say. *)
Gather ==
  /\ ppc = "gather"
  /\ dyn' \in {setting.dyn, {}}
  /\ ppc' = "pipe"
  /\ UNCHANGED <<setting, cause, buf, note, late, childVars, orphan, pipe,
                 reading, sent, lost>>

MakePipe ==
  /\ ppc = "pipe"
  /\ \/ ppc' = "fork" /\ reading' = TRUE /\ UNCHANGED note
     \/ ppc' = "done" /\ note' = "failed" /\ UNCHANGED reading
  /\ UNCHANGED <<setting, dyn, cause, buf, late, childVars, orphan, pipe,
                 sent, lost>>

Fork ==
  /\ ppc = "fork"
  /\ \/ ppc' = "drain" /\ cpc' = "limit" /\ UNCHANGED <<note, reading>>
     \/ ppc' = "done" /\ note' = "failed" /\ reading' = FALSE /\ UNCHANGED cpc
  /\ UNCHANGED <<setting, dyn, cause, buf, late, status, confined, orphan,
                 pipe, sent, lost>>

EndLoop(c) == ppc' = "close" /\ cause' = c

(* The clock, read at the top of the loop. *)
DrainTop ==
  /\ ppc = "drain"
  /\ IF late THEN EndLoop("timed_out") ELSE ppc' = "poll" /\ UNCHANGED cause
  /\ UNCHANGED <<setting, dyn, buf, note, late, childVars, orphan, pipe,
                 reading, sent, lost>>

Readable == pipe # <<>> \/ ~Writers

(* poll: data or end of file, or the deadline. *)
Poll ==
  /\ ppc = "poll"
  /\ \/ Readable /\ ppc' = "read" /\ UNCHANGED cause
     \/ ~Readable /\ late /\ EndLoop("timed_out")
  /\ UNCHANGED <<setting, dyn, buf, note, late, childVars, orphan, pipe,
                 reading, sent, lost>>

(* read: what is there, as much as fits tmp; or end of file. *)
Read ==
  /\ ppc = "read"
  /\ \/ /\ pipe # <<>>
        /\ buf' = Append(buf, Head(pipe))
        /\ pipe' = Tail(pipe)
        /\ ppc' = "drain"
        /\ UNCHANGED cause
     \/ pipe = <<>> /\ ~Writers /\ EndLoop("eof") /\ UNCHANGED <<buf, pipe>>
  /\ UNCHANGED <<setting, dyn, note, late, childVars, orphan, reading, sent,
                 lost>>

CloseRead ==
  /\ ppc = "close"
  /\ reading' = FALSE
  /\ ppc' = "kill"
  /\ UNCHANGED <<setting, dyn, cause, buf, note, late, childVars, orphan,
                 pipe, sent, lost>>

(* Variant: the watchdog only stops reading. *)
KillNothing ==
  /\ ppc = "kill"
  /\ ppc' = "wait"
  /\ UNCHANGED <<setting, dyn, cause, buf, note, late, childVars, orphan,
                 pipe, reading, sent, lost>>

(* Only the watchdog kills; a child that is dead already stays as it was. *)
Kill ==
  /\ ppc = "kill"
  /\ IF cause = "timed_out" /\ Alive
     THEN ChildEnds("SIGKILL")
     ELSE UNCHANGED <<cpc, status>>
  /\ ppc' = "wait"
  /\ UNCHANGED <<setting, dyn, cause, buf, note, late, confined, orphan, pipe,
                 reading, sent, lost>>

(* waitpid, once. *)
Wait ==
  /\ ppc = "wait"
  /\ cpc = "dead"
  /\ cpc' = "reaped"
  /\ ppc' = "annotate"
  /\ UNCHANGED <<setting, dyn, cause, buf, note, late, status, confined,
                 orphan, pipe, reading, sent, lost>>

(* Variant: an interrupted poll is taken for one that found something. *)
InterruptedUnchecked ==
  /\ \/ ppc \in {"poll", "read"} /\ ppc' = "read"
     \/ ppc = "wait" /\ cpc # "dead" /\ ppc' = "annotate"
  /\ UNCHANGED <<setting, dyn, cause, buf, note, late, childVars, orphan,
                 pipe, reading, sent, lost>>

(* EINTR: poll and read are tried again, waitpid is not. *)
Interrupted ==
  /\ \/ ppc \in {"poll", "read"} /\ ppc' = "drain"
     \/ ppc = "wait" /\ cpc # "dead" /\ ppc' = "annotate"
  /\ UNCHANGED <<setting, dyn, cause, buf, note, late, childVars, orphan,
                 pipe, reading, sent, lost>>

(* Any other error of poll or read ends the loop. *)
DrainFails ==
  /\ ppc \in {"poll", "read"}
  /\ EndLoop("error")
  /\ UNCHANGED <<setting, dyn, buf, note, late, childVars, orphan, pipe,
                 reading, sent, lost>>

(* The status waitpid has filled in, or 0. *)
St == IF cpc = "reaped" THEN status ELSE "exit 0"

(* Variant: only a timeout is worth a note. *)
AnnotateTimeout ==
  /\ ppc = "annotate"
  /\ note' = IF cause = "timed_out" THEN "timed out" ELSE "none"
  /\ ppc' = "done"
  /\ UNCHANGED <<setting, dyn, cause, buf, late, childVars, orphan, pipe,
                 reading, sent, lost>>

Annotate ==
  /\ ppc = "annotate"
  /\ note' = IF cause = "timed_out" THEN "timed out"
             ELSE IF St = "SIGXCPU" THEN "killed by signal, CPU limit"
             ELSE IF St \in Signals THEN "killed by signal"
             ELSE "none"
  /\ ppc' = "done"
  /\ UNCHANGED <<setting, dyn, cause, buf, late, childVars, orphan, pipe,
                 reading, sent, lost>>

Parent ==
  \/ Gather \/ MakePipe \/ Fork \/ DrainTop \/ Poll \/ Read \/ CloseRead
  \/ Kill \/ Wait \/ Annotate

(* The clock reaches RUNR_WALL_TIMEOUT_MS. *)
Deadline ==
  /\ ppc \in {"drain", "poll", "read"}
  /\ ~late
  /\ late' = TRUE
  /\ UNCHANGED <<setting, parentVars, childVars, orphan, pipe, reading,
                 sent, lost>>

-----------------------------------------------------------------------------
(* The child. *)

SetLimit ==
  /\ cpc = "limit"
  /\ cpc' = "sandbox"
  /\ UNCHANGED <<setting, parentVars, late, status, confined, orphan, pipe,
                 reading, sent, lost>>

(* raoui_sandbox_apply's Landlock half, sandbox_init, or no sandbox at     *)
(* all: it succeeds, or the child says why not and leaves.  An old         *)
(* kernel never gets past it.                                              *)
ApplyRules ==
  /\ cpc = "sandbox"
  /\ \/ /\ setting.platform = "linux" /\ setting.abi >= 1
        /\ confined' = confined \cup {"landlock"}
        /\ cpc' = "seccomp"
     \/ /\ setting.platform = "macos"
        /\ confined' = confined \cup {"seatbelt"}
        /\ cpc' = "capture"
     \/ cpc' = "refuse" /\ UNCHANGED confined
  /\ UNCHANGED <<setting, parentVars, late, status, orphan, pipe, reading,
                 sent, lost>>

(* Variant: the result of apply_seccomp is dropped. *)
ApplyFilterAnyway ==
  /\ cpc = "seccomp"
  /\ cpc' = "capture"
  /\ \/ confined' = confined \cup {"seccomp"}
     \/ UNCHANGED confined
  /\ UNCHANGED <<setting, parentVars, late, status, orphan, pipe, reading,
                 sent, lost>>

ApplyFilter ==
  /\ cpc = "seccomp"
  /\ \/ confined' = confined \cup {"seccomp"} /\ cpc' = "capture"
     \/ cpc' = "refuse" /\ UNCHANGED confined
  /\ UNCHANGED <<setting, parentVars, late, status, orphan, pipe, reading,
                 sent, lost>>

(* The reason goes to the pipe, and the child to _exit(98). *)
Refuse ==
  /\ cpc = "refuse"
  /\ Write("refused")
  /\ ChildEnds("exit 98")
  /\ UNCHANGED <<setting, parentVars, late, confined, orphan, reading>>

(* Output to the pipe from here on; the heap cap is evaluated. *)
Capture ==
  /\ cpc = "capture"
  /\ cpc' = "parse"
  /\ UNCHANGED <<setting, parentVars, late, status, confined, orphan, pipe,
                 reading, sent, lost>>

Parse ==
  /\ cpc = "parse"
  /\ \/ cpc' = "eval" /\ UNCHANGED <<pipe, sent, lost>>
     \/ cpc' = "close" /\ Write("parse error")
  /\ UNCHANGED <<setting, parentVars, late, status, confined, orphan, reading>>

(* cb_runr_capture; a process forked by the child writes the same way. *)
WriteOutput ==
  /\ cpc = "eval" \/ orphan
  /\ Len(sent) < MaxOut
  /\ Write("text")
  /\ UNCHANGED <<setting, parentVars, late, childVars, orphan, reading>>

(* What evaluated code may try, and what the kernel lets it do: a right to *)
(* make or remove is one of the directory.                                 *)
Call == {"execve", "socket(AF_INET)"}

MayTouch(right, q) ==
  /\ "landlock" \in confined =>
       LandlockAllows(LandlockRules(dyn, setting.home, setting.abi),
                      setting.abi, right, q)
  /\ "seatbelt" \in confined =>
       IF right \in FS_READ_RIGHTS
       THEN SeatbeltReads(dyn, setting.home, q)
       ELSE SeatbeltWrites(q)

MayCall(call) ==
  /\ "seccomp" \in confined => SeccompAllows(call)
  /\ "seatbelt" \in confined => SeatbeltCalls(call)

(* parallel::mcparallel and the like. *)
ForkMore ==
  /\ cpc = "eval"
  /\ ~orphan
  /\ orphan' = TRUE
  /\ UNCHANGED <<setting, parentVars, late, childVars, pipe, reading,
                 sent, lost>>

OrphanEnds ==
  /\ orphan
  /\ orphan' = FALSE
  /\ UNCHANGED <<setting, parentVars, late, childVars, pipe, reading,
                 sent, lost>>

(* readline() or system() at the child's own copy of a gate, a lock that   *)
(* another thread held at the fork, input or output that never comes.      *)
Wedge ==
  /\ cpc \in {"sandbox", "capture", "parse", "eval"}
  /\ cpc' = "wedged"
  /\ UNCHANGED <<setting, parentVars, late, status, confined, orphan, pipe,
                 reading, sent, lost>>

(* The expressions are done, or one of them failed and said so. *)
EvalEnds ==
  /\ cpc = "eval"
  /\ cpc' = "close"
  /\ UNCHANGED <<setting, parentVars, late, status, confined, orphan, pipe,
                 reading, sent, lost>>

(* quit(status = n), with any n: R leaves by itself. *)
Quit ==
  /\ cpc = "eval"
  /\ \E st \in {"exit 0", "exit 1", "exit 98"} : ChildEnds(st)
  /\ UNCHANGED <<setting, parentVars, late, confined, orphan, pipe, reading,
                 sent, lost>>

CloseWrite ==
  /\ cpc = "close"
  /\ cpc' = "exit"
  /\ UNCHANGED <<setting, parentVars, late, status, confined, orphan, pipe,
                 reading, sent, lost>>

Exit ==
  /\ cpc = "exit"
  /\ ChildEnds("exit 0")
  /\ UNCHANGED <<setting, parentVars, late, confined, orphan, pipe, reading,
                 sent, lost>>

(* RLIMIT_CPU with its soft limit equal to the hard one: Linux looks at    *)
(* the hard limit first.                                                   *)
CpuLimitSignal == IF setting.platform = "linux" THEN "SIGKILL" ELSE "SIGXCPU"

Die ==
  /\ \/ cpc = "eval" /\ ChildEnds(CpuLimitSignal)
     \/ cpc = "eval" /\ ChildEnds("SIGSEGV")
     \/ cpc \in {"refuse", "parse", "eval"} /\ ~reading /\ ChildEnds("SIGPIPE")
  /\ UNCHANGED <<setting, parentVars, late, confined, orphan, pipe, reading,
                 sent, lost>>

Child ==
  \/ SetLimit \/ ApplyRules \/ ApplyFilter \/ Refuse \/ Capture \/ Parse
  \/ WriteOutput \/ ForkMore \/ OrphanEnds \/ Wedge \/ EvalEnds
  \/ Quit \/ CloseWrite \/ Exit \/ Die

Next == Parent \/ Interrupted \/ DrainFails \/ Deadline \/ Child

Spec == Init /\ [][Next]_vars

(* The R thread runs and time passes; a child that has closed the pipe     *)
(* does nothing but exit.  Nothing is assumed of the evaluated code, and   *)
(* no signal comes to the rescue.                                          *)
FairSpec ==
  Spec /\ WF_vars(Parent) /\ WF_vars(Deadline) /\ WF_vars(CloseWrite \/ Exit)

-----------------------------------------------------------------------------
(* Properties *)

(* The credential stores, by the paths $HOME gives them, and what is in one *)
(* of them, wherever links have put it.                                    *)
Stores ==
  LET home == realpath(setting.home)
  IN  IF setting.platform = "macos"
      THEN MacSecrets(home)
      ELSE {Append(home, n) : n \in HOME_SECRETS}

InStore(q) ==
  setting.home # NoHome /\ \E s \in Stores : Covers(realpath(s), q)

ScratchDir ==
  IF setting.platform = "macos" THEN MacScratch ELSE realpath(Scratch)

(* What of a store code may read after all.  On both platforms that is a   *)
(* store that is a link itself.  On Linux, also what lies below a place    *)
(* inside a store that the session works in (or that a system root is a    *)
(* link to), below the target of a link in $HOME with an innocent name, or *)
(* in the directory that all code may use.  On macOS also every store of a *)
(* $HOME that is given by a link, which the profile's text does not name.  *)
OpenTo(q) ==
  \/ \E s \in Stores \cap Links : Covers(Leads[s], q)
  \/ /\ setting.platform = "linux"
     /\ \/ \E p \in SYS_READ_ROOTS \cup dyn :
             InStore(realpath(p)) /\ Covers(realpath(p), q)
        \/ \E e \in Entries(realpath(setting.home)) \cap Links :
             ~is_secret_name(Name(e)) /\ Covers(Leads[e], q)
        \/ Covers(ScratchDir, q)
  \/ setting.platform = "macos" /\ setting.home \in Links

(* Truncation is not governed before the third ABI of Landlock. *)
Ungoverned(right) ==
  setting.platform = "linux" /\ setting.abi < 3 /\ right = "TRUNCATE"

(* The posture of sandbox_linux.h, whatever step of the setup failed and   *)
(* wherever the program was started: code that is evaluated can read       *)
(* nothing in a credential store (but see OpenTo), change nothing but the  *)
(* scratch directory and /dev/null (but see Ungoverned), start no program  *)
(* and open no network socket.                                             *)
CodeIsConfined ==
  cpc = "eval" =>
    /\ \A right \in FS_READ_RIGHTS, q \in Exists :
         MayTouch(right, q) /\ InStore(q) => OpenTo(q)
    /\ \A right \in FS_WRITE_RIGHTS, q \in Exists :
         MayTouch(right, q) =>
           Covers(ScratchDir, q) \/ q = DevNull \/ Ungoverned(right)
    /\ \A call \in Call : ~MayCall(call)

(* The place the rules of the platform mean by a gathered path: the text of *)
(* a Seatbelt rule that goes through a link means no place at all.         *)
Place(d) == IF setting.platform = "macos" THEN d ELSE realpath(d)

(* A confined child reads what R needs and what the user works on: every   *)
(* file below a gathered path, or next to it when that is $HOME itself,    *)
(* except the stores and what a directory above $HOME would expose.        *)
DataIsReadable ==
  cpc = "eval" =>
    \A q \in Files :
      /\ \E d \in dyn :
           Covers(Place(d), q) /\ ~is_strict_ancestor(d, setting.home)
      /\ ~InStore(q)
      => MayTouch("READ_FILE", q)

(* The whole sandbox of the platform *)
Confined ==
  {"landlock", "seccomp"} \subseteq confined \/ "seatbelt" \in confined

(* A result without a mark is a whole one: the child ended by itself, after *)
(* an evaluation inside the whole sandbox or a refusal in so many words,   *)
(* and the result holds, in order, everything it printed, with one         *)
(* exception: writes that a signal interrupted while the pipe was full are *)
(* missing, those and no others (cb_runr_capture drops write's result).    *)
(* (waitpid may be interrupted, and then nothing is known of the child; an *)
(* error of poll or read ends the loop early without a mark.)              *)
UnmarkedIsWhole ==
  ppc = "done" /\ note = "none" /\ cause = "eof" /\ cpc = "reaped" =>
    /\ status \notin Signals
    /\ Confined \/ buf = <<"refused">>
    /\ Len(buf) + lost = Len(sent)
    /\ lost = 0 => buf = sent

(* The R thread comes back from every sandboxed evaluation, also from code *)
(* that hangs, fills the pipe or leaves a process behind that keeps it     *)
(* open: poll's answer is still good when read, which has no deadline, is  *)
(* called, and the child is dead or dies before waitpid.  Only an error of *)
(* poll or read leaves the thread waiting with no watchdog.                *)
WorkerComesBack == (ppc = "gather") ~> (ppc = "done" \/ cause = "error")

=============================================================================
