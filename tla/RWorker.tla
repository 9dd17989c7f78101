------------------------------- MODULE RWorker -------------------------------
(***************************************************************************)
(* c_ffi/load_r.c: the thread that owns the R interpreter, and the calls   *)
(* other threads make into it.  The worker takes one request at a time     *)
(* from three single-slot mailboxes (a command, a sandboxed run_r, a       *)
(* completion request), evaluates it, and reports through the ring buffer. *)
(* The ring is used here at the level of FrameQueue: whole frames, oldest  *)
(* first, the oldest lost when there is no room; RingBuffer shows that the *)
(* bytes implement that.                                                   *)
(*                                                                         *)
(* A command is a non-zero integer: its number in order of submission,     *)
(* negated for a background command.  0 is the absence of one.             *)
(*                                                                         *)
(* R itself (libR) is external: evaluating a command is any sequence of at *)
(* most MaxOutput outputs, prompts and system() calls, ended by an error   *)
(* or not.                                                                 *)
(***************************************************************************)
EXTENDS Integers, Sequences, FiniteSets

CONSTANTS RingSlots,  \* frames the ring holds
          MaxOutput,  \* outputs, prompts and system() calls of one command
          MaxIdle,    \* frames printed between commands, in all
          OutputKind, \* what a command prints: a subset of {"STDOUT", "IMAGE"}
          Caller      \* the systhreads that may call rffi_run_r_sandboxed

ASSUME WorkerAssumption ==
  /\ RingSlots \in Nat \ {0}
  /\ MaxOutput \in Nat
  /\ MaxIdle \in Nat
  /\ OutputKind \subseteq {"STDOUT", "IMAGE"}

VARIABLES ring,                    \* g_rb: frames, oldest first
          pending_cmd,             \* mailbox: the command to evaluate
          pending_completion_line, \* mailbox: a completion is asked for
          pending_runr,            \* mailbox: code for the sandbox
          runr_done,               \* the sandboxed result is there
          runr,                    \* runr[k]: where caller k is
          passthrough_gate,        \* opened by the UI: system() may go on
          readline_gate,           \* opened by the UI: input is there
          interrupts_pending,      \* R_interrupts_pending
          shutdown_flag,
          starter,                 \* where the systhread in rffi_start is
          init_result,             \* what init_r returned
          init_output,             \* init_output_buf holds something
          wpc,                     \* where the worker thread is
          code,                    \* the command being evaluated
          budget,                  \* what code may still do
          idle,                    \* frames printed between commands so far
          aimed,                   \* observer: what was being evaluated
                                   \* when the interrupt was asked for
          finished,                \* observer: commands that were evaluated
          evicted                  \* observer: kinds of control frames the
                                   \* ring gave up

workerVars == <<ring, pending_cmd, pending_completion_line, pending_runr,
                runr_done, runr, passthrough_gate, readline_gate,
                interrupts_pending, shutdown_flag, starter, init_result,
                init_output, wpc, code, budget, idle, aimed, finished,
                evicted>>

mailboxes == <<pending_cmd, pending_completion_line, pending_runr, runr_done,
               runr>>
gates == <<passthrough_gate, readline_gate>>
interrupts == <<interrupts_pending, aimed>>
startup == <<starter, init_result, init_output>>

NoCmd == 0

Abs(c) == IF c < 0 THEN -c ELSE c

Kind == {"STDOUT", "IMAGE", "R_ERROR", "DONE", "PASSTHROUGH",
         "PASSTHROUGH_END", "READLINE", "COMPLETIONS"}

(* The frames a thread waits for. *)
Control == {"DONE", "PASSTHROUGH", "PASSTHROUGH_END", "READLINE"}

Msg(kind, c) == [kind |-> kind, cmd |-> c]

WorkerPc == {"none", "init", "startup", "loop", "locked", "reset", "parse",
             "eval", "failed", "readline", "gate", "system", "runr",
             "completing", "events", "exited"}

WorkerTypeOK ==
  /\ ring \in Seq([kind : Kind, cmd : Int]) /\ Len(ring) <= RingSlots
  /\ pending_cmd \in Int
  /\ pending_completion_line \in BOOLEAN
  /\ pending_runr \in BOOLEAN
  /\ runr_done \in BOOLEAN
  /\ runr \in [Caller -> {"out", "waiting"}]
  /\ passthrough_gate \in BOOLEAN
  /\ readline_gate \in BOOLEAN
  /\ interrupts_pending \in BOOLEAN
  /\ shutdown_flag \in BOOLEAN
  /\ starter \in {"starting", "waiting", "failed", "started"}
  /\ init_result \in {"none", "ok", "failed"}
  /\ init_output \in BOOLEAN
  /\ wpc \in WorkerPc
  /\ code \in Int
  /\ budget \in 0..MaxOutput
  /\ idle \in 0..MaxIdle
  /\ aimed \in Int
  /\ finished \subseteq Int
  /\ evicted \subseteq Control

WorkerInit ==
  /\ ring = <<>>
  /\ pending_cmd = NoCmd
  /\ pending_completion_line = FALSE
  /\ pending_runr = FALSE
  /\ runr_done = FALSE
  /\ runr = [k \in Caller |-> "out"]
  /\ passthrough_gate = FALSE
  /\ readline_gate = FALSE
  /\ interrupts_pending = FALSE
  /\ shutdown_flag = FALSE
  /\ starter = "starting"
  /\ init_result = "none"
  /\ init_output = FALSE
  /\ wpc = "none"
  /\ code = NoCmd
  /\ budget = 0
  /\ idle = 0
  /\ aimed = NoCmd
  /\ finished = {}
  /\ evicted = {}

-----------------------------------------------------------------------------
(* The ring, frame by frame. *)

(* The kinds a thread waits for, among the frames s. *)
ControlIn(s) == Control \cap {s[i].kind : i \in DOMAIN s}

(* Variant: eviction forgotten. *)
PushUnbounded(m) == ring' = Append(ring, m) /\ UNCHANGED evicted

(* rb_push: with no room left, the oldest frame makes place. *)
Push(m) ==
  IF Len(ring) < RingSlots
  THEN /\ ring' = Append(ring, m)
       /\ UNCHANGED evicted
  ELSE /\ ring' = Append(Tail(ring), m)
       /\ evicted' = evicted \cup ControlIn(<<Head(ring)>>)

-----------------------------------------------------------------------------
(* Starting R: rffi_start on a systhread, init_r on the worker thread. *)

worker == <<mailboxes, gates, interrupts, shutdown_flag, code, budget, finished>>

(* rffi_start: the ring and the thread, or an early return without them.   *)
(* The result of pthread_create is not looked at: rffi_start waits for     *)
(* init_done whether or not there is a thread.                             *)
CreateThread ==
  /\ starter = "starting"
  /\ \/ starter' = "waiting" /\ wpc' = "init"
     \/ starter' = "waiting" /\ UNCHANGED wpc
     \/ starter' = "failed" /\ UNCHANGED wpc
  /\ UNCHANGED <<ring, worker, init_result, init_output, idle, evicted>>

(* Variant: a failed init_r returns without a word. *)
LoadFailsSilently ==
  /\ wpc = "init"
  /\ \/ wpc' = "startup"
     \/ wpc' = "exited"
  /\ UNCHANGED <<ring, worker, startup, idle, evicted>>

(* load_libr and load_symbols: with a library or a symbol missing, init_r  *)
(* fails, and the thread ends after it has said so.                        *)
LoadR ==
  /\ wpc = "init"
  /\ \/ wpc' = "startup" /\ UNCHANGED init_result
     \/ wpc' = "exited" /\ init_result' = "failed"
  /\ UNCHANGED <<ring, worker, starter, init_output, idle, evicted>>

(* setup_Rmainloop runs the profiles: what they print is captured ... *)
StartupPrint ==
  /\ wpc = "startup"
  /\ init_output' = TRUE
  /\ UNCHANGED <<ring, worker, starter, init_result, wpc, idle, evicted>>

(* ... a message goes to the ring at once ... *)
StartupMessage ==
  /\ wpc = "startup"
  /\ idle < MaxIdle
  /\ Push(Msg("STDOUT", NoCmd))
  /\ idle' = idle + 1
  /\ UNCHANGED <<worker, startup, wpc>>

(* ... and a question waits at the gate like any other. *)
StartupReadline ==
  /\ wpc = "startup"
  /\ idle < MaxIdle
  /\ Push(Msg("READLINE", NoCmd))
  /\ idle' = idle + 1
  /\ wpc' = "readline"
  /\ UNCHANGED <<worker, startup>>

(* init_r has succeeded: output goes to the ring from now on, and *)
(* rffi_start is let go.                                          *)
InitDone ==
  /\ wpc = "startup"
  /\ init_result' = "ok"
  /\ wpc' = "loop"
  /\ UNCHANGED <<ring, worker, starter, init_output, idle, evicted>>

(* rffi_start returns what init_r returned. *)
StartReturns ==
  /\ starter = "waiting"
  /\ init_result # "none"
  /\ starter' = IF init_result = "ok" THEN "started" ELSE "failed"
  /\ UNCHANGED <<ring, worker, init_result, init_output, wpc, idle, evicted>>

Starting == CreateThread \/ StartReturns

-----------------------------------------------------------------------------
(* The worker thread: r_thread_func. *)

(* while (!shutdown_flag): the flag is read once per turn. *)
CheckShutdown ==
  /\ wpc = "loop"
  /\ wpc' = IF shutdown_flag THEN "exited" ELSE "locked"
  /\ UNCHANGED <<ring, mailboxes, gates, interrupts, shutdown_flag, startup,
                 code, budget, idle, finished, evicted>>

(* A command goes first, and makes a completion request stale. *)
TakeCommand ==
  /\ wpc = "locked"
  /\ pending_cmd # NoCmd
  /\ code' = pending_cmd
  /\ pending_cmd' = NoCmd
  /\ pending_completion_line' = FALSE
  /\ wpc' = "reset"
  /\ UNCHANGED <<ring, pending_runr, runr_done, runr, gates, interrupts,
                 shutdown_flag, startup, budget, idle, finished, evicted>>

TakeRunr ==
  /\ wpc = "locked"
  /\ pending_cmd = NoCmd
  /\ pending_runr
  /\ pending_runr' = FALSE
  /\ wpc' = "runr"
  /\ UNCHANGED <<ring, pending_cmd, pending_completion_line, runr_done, runr,
                 gates, interrupts, shutdown_flag, startup, code, budget,
                 idle, finished, evicted>>

TakeCompletion ==
  /\ wpc = "locked"
  /\ pending_cmd = NoCmd
  /\ ~pending_runr
  /\ pending_completion_line
  /\ pending_completion_line' = FALSE
  /\ wpc' = "completing"
  /\ UNCHANGED <<ring, pending_cmd, pending_runr, runr_done, runr, gates,
                 interrupts, shutdown_flag, startup, code, budget, idle,
                 finished, evicted>>

(* Variant: the wait starts over without looking at shutdown_flag. *)
TakeNothingAndWait ==
  /\ wpc = "locked"
  /\ UNCHANGED workerVars

(* The 100 ms wait ended with all mailboxes empty. *)
TakeNothing ==
  /\ wpc = "locked"
  /\ pending_cmd = NoCmd
  /\ ~pending_runr
  /\ ~pending_completion_line
  /\ wpc' = "events"
  /\ UNCHANGED <<ring, mailboxes, gates, interrupts, shutdown_flag, startup,
                 code, budget, idle, finished, evicted>>

(* rb_reset before eval_code: what was not popped is gone. *)
ResetRing ==
  /\ wpc = "reset"
  /\ ring' = <<>>
  /\ evicted' = evicted \cup ControlIn(ring)
  /\ wpc' = "parse"
  /\ UNCHANGED <<mailboxes, gates, interrupts, shutdown_flag, startup, code,
                 budget, idle, finished>>

(* Variant: an old interrupt is still there. *)
StartEvalKeepsInterrupt ==
  /\ wpc = "parse"
  /\ budget' = MaxOutput
  /\ wpc' = "eval"
  /\ UNCHANGED <<ring, mailboxes, gates, interrupts, shutdown_flag, startup,
                 code, idle, finished, evicted>>

(* eval_code starts by forgetting interrupts that came too early. *)
StartEval ==
  /\ wpc = "parse"
  /\ interrupts_pending' = FALSE
  /\ aimed' = NoCmd
  /\ budget' = MaxOutput
  /\ wpc' = "eval"
  /\ UNCHANGED <<ring, mailboxes, gates, shutdown_flag, startup, code, idle,
                 finished, evicted>>

(* cb_write_console_ex, cb_show_message, raoui_emit_image. *)
EvalOutput ==
  /\ wpc = "eval"
  /\ budget > 0
  /\ \E k \in OutputKind : Push(Msg(k, code))
  /\ budget' = budget - 1
  /\ UNCHANGED <<mailboxes, gates, interrupts, shutdown_flag, startup, wpc,
                 code, idle, finished>>

(* cb_read_console asks the UI for a line ... *)
AskReadline ==
  /\ wpc = "eval"
  /\ budget > 0
  /\ Push(Msg("READLINE", code))
  /\ budget' = budget - 1
  /\ wpc' = "readline"
  /\ UNCHANGED <<mailboxes, gates, interrupts, shutdown_flag, startup, code,
                 idle, finished>>

(* Who asked for the line or the terminal: the profiles, a handler, or the *)
(* command.                                                                *)
Asker ==
  IF init_result = "none" THEN "startup"
  ELSE IF code = NoCmd THEN "events" ELSE "eval"

(* Variant: the gate is not closed behind the input. *)
GotReadlineNoReset ==
  /\ wpc = "readline"
  /\ readline_gate
  /\ wpc' = Asker
  /\ UNCHANGED <<ring, mailboxes, gates, interrupts, shutdown_flag, startup,
                 code, budget, idle, finished, evicted>>

(* ... and spins until the gate opens; an interrupt does not end the wait. *)
GotReadline ==
  /\ wpc = "readline"
  /\ readline_gate
  /\ readline_gate' = FALSE
  /\ wpc' = Asker
  /\ UNCHANGED <<ring, mailboxes, passthrough_gate, interrupts, shutdown_flag,
                 startup, code, budget, idle, finished, evicted>>

(* Variant: system() does not wait for the terminal. *)
AskPassthroughNoWait ==
  /\ wpc = "eval"
  /\ budget > 0
  /\ Push(Msg("PASSTHROUGH", code))
  /\ budget' = budget - 1
  /\ wpc' = "system"
  /\ UNCHANGED <<mailboxes, gates, interrupts, shutdown_flag, startup, code,
                 idle, finished>>

(* raoui_enter_passthrough, called by the wrapped system(). *)
AskPassthrough ==
  /\ wpc = "eval"
  /\ budget > 0
  /\ Push(Msg("PASSTHROUGH", code))
  /\ budget' = budget - 1
  /\ wpc' = "gate"
  /\ UNCHANGED <<mailboxes, gates, interrupts, shutdown_flag, startup, code,
                 idle, finished>>

GotPassthrough ==
  /\ wpc = "gate"
  /\ passthrough_gate
  /\ passthrough_gate' = FALSE
  /\ wpc' = "system"
  /\ UNCHANGED <<ring, mailboxes, readline_gate, interrupts, shutdown_flag,
                 startup, code, budget, idle, finished, evicted>>

(* Variant: without on.exit, a system() that fails does not say it is over. *)
ExitPassthroughIfOk ==
  /\ wpc = "system"
  /\ Push(Msg("PASSTHROUGH_END", code)) \/ UNCHANGED <<ring, evicted>>
  /\ wpc' = Asker
  /\ UNCHANGED <<mailboxes, gates, interrupts, shutdown_flag, startup, code,
                 budget, idle, finished>>

(* raoui_exit_passthrough, by on.exit: whether the child failed or not. *)
ExitPassthrough ==
  /\ wpc = "system"
  /\ Push(Msg("PASSTHROUGH_END", code))
  /\ wpc' = Asker
  /\ UNCHANGED <<mailboxes, gates, interrupts, shutdown_flag, startup, code,
                 budget, idle, finished>>

(* A parse error, an R error, or an interrupt R has noticed. *)
EvalError ==
  /\ wpc = "eval"
  /\ Push(Msg("R_ERROR", code))
  /\ wpc' = "failed"
  /\ \/ UNCHANGED interrupts
     \/ interrupts_pending /\ interrupts_pending' = FALSE /\ aimed' = NoCmd
  /\ UNCHANGED <<mailboxes, gates, shutdown_flag, startup, code, budget, idle,
                 finished>>

EvalDone ==
  /\ wpc \in {"eval", "failed"}
  /\ Push(Msg("DONE", code))
  /\ finished' = finished \cup {code}
  /\ code' = NoCmd
  /\ budget' = 0
  /\ wpc' = "events"
  /\ UNCHANGED <<mailboxes, gates, interrupts, shutdown_flag, startup, idle>>

(* run_r_on_worker has reaped its child, which the watchdog bounds. *)
FinishRunr ==
  /\ wpc = "runr"
  /\ runr_done' = TRUE
  /\ wpc' = "events"
  /\ UNCHANGED <<ring, pending_cmd, pending_completion_line, pending_runr,
                 runr, gates, interrupts, shutdown_flag, startup, code,
                 budget, idle, finished, evicted>>

(* run_completions answers, with an empty list when R failed. *)
FinishCompletion ==
  /\ wpc = "completing"
  /\ Push(Msg("COMPLETIONS", NoCmd))
  /\ wpc' = "events"
  /\ UNCHANGED <<mailboxes, gates, interrupts, shutdown_flag, startup, code,
                 budget, idle, finished>>

(* process_events: handlers of httpgd, later, ... may print or plot ... *)
IdleOutput ==
  /\ wpc = "events"
  /\ idle < MaxIdle
  /\ \E k \in OutputKind : Push(Msg(k, NoCmd))
  /\ idle' = idle + 1
  /\ UNCHANGED <<mailboxes, gates, interrupts, shutdown_flag, startup, wpc,
                 code, budget, finished>>

(* ... or ask for a line or the terminal, like any R code. *)
IdleReadline ==
  /\ wpc = "events"
  /\ idle < MaxIdle
  /\ Push(Msg("READLINE", NoCmd))
  /\ idle' = idle + 1
  /\ wpc' = "readline"
  /\ UNCHANGED <<mailboxes, gates, interrupts, shutdown_flag, startup, code,
                 budget, finished>>

IdlePassthrough ==
  /\ wpc = "events"
  /\ idle < MaxIdle
  /\ Push(Msg("PASSTHROUGH", NoCmd))
  /\ idle' = idle + 1
  /\ wpc' = "gate"
  /\ UNCHANGED <<mailboxes, gates, interrupts, shutdown_flag, startup, code,
                 budget, finished>>

EventsDone ==
  /\ wpc = "events"
  /\ wpc' = "loop"
  /\ UNCHANGED <<ring, mailboxes, gates, interrupts, shutdown_flag, startup,
                 code, budget, idle, finished, evicted>>

WorkerStep ==
  \/ LoadR \/ StartupPrint \/ StartupMessage \/ StartupReadline
  \/ InitDone \/ CheckShutdown \/ TakeCommand \/ TakeRunr \/ TakeCompletion
  \/ TakeNothing \/ ResetRing \/ StartEval \/ EvalOutput \/ AskReadline
  \/ GotReadline \/ AskPassthrough \/ GotPassthrough \/ ExitPassthrough
  \/ EvalError \/ EvalDone \/ FinishRunr \/ FinishCompletion \/ IdleOutput
  \/ IdleReadline \/ IdlePassthrough \/ EventsDone

-----------------------------------------------------------------------------
(* Calls of the UI thread. *)

rffi_take_init_output == init_output' = FALSE
rffi_submit(c) == pending_cmd' = c
rffi_request_completions == pending_completion_line' = TRUE
rffi_submit_readline_input == readline_gate' = TRUE
rffi_signal_passthrough == passthrough_gate' = TRUE
rffi_rb_pop == ring' = Tail(ring)

(* The flag is there once R's symbols have been loaded. *)
rffi_interrupt ==
  IF wpc \in {"none", "init"} \/ init_result = "failed"
  THEN UNCHANGED interrupts
  ELSE interrupts_pending' = TRUE /\ aimed' = code

-----------------------------------------------------------------------------
(* rffi_run_r_sandboxed: runr_call_mutex lets one caller in at a time, and *)
(* that caller sleeps on runr_done_cond until the worker has answered.     *)

CallRunr(k) ==
  /\ \A j \in Caller : runr[j] = "out"
  /\ pending_runr' = TRUE
  /\ runr_done' = FALSE
  /\ runr' = [runr EXCEPT ![k] = "waiting"]
  /\ UNCHANGED <<ring, pending_cmd, pending_completion_line, gates,
                 interrupts, shutdown_flag, startup, wpc, code, budget, idle,
                 finished, evicted>>

ReturnRunr(k) ==
  /\ runr[k] = "waiting"
  /\ runr_done
  /\ runr' = [runr EXCEPT ![k] = "out"]
  /\ UNCHANGED <<ring, pending_cmd, pending_completion_line, pending_runr,
                 runr_done, gates, interrupts, shutdown_flag, startup, wpc,
                 code, budget, idle, finished, evicted>>

=============================================================================
