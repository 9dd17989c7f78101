------------------------------- MODULE Session -------------------------------
(***************************************************************************)
(* The running program: the event loop of bin/main.ml, the responses and   *)
(* keys of lib/update.ml that talk to R, the bridge (FfiBackend), the R    *)
(* thread behind it (RWorker) and the command log (CommandLog).            *)
(*                                                                         *)
(* Every turn of the loop races four fibers with Eio.Fiber.any.  Eio is    *)
(* external: the first fiber to finish wins, and when two finish in the    *)
(* same turn the result of the second is thrown away.  Collisions says     *)
(* whether that happens to a response.                                     *)
(***************************************************************************)
EXTENDS FfiBackend, CommandLog

CONSTANT Collisions

ASSUME SessionAssumption ==
  /\ MaxCmd \in Nat \ {0, 1}
  /\ Query \cap Int = {}
  /\ Collisions \in BOOLEAN

VARIABLES awaiting_response, \* the prompt waits for R
          mode,              \* input mode: "Normal" or "Readline"
          session,           \* where the main fiber is
          nsub,              \* commands submitted so far
          owed,              \* AI requests that Ai_done has not answered
          discarded          \* observer: kinds of control frames that were
                             \* popped and not acted on

prompt == <<awaiting_response, mode, session, nsub, owed>>
uiVars == <<prompt, discarded>>
vars == <<workerVars, backendVars, logVars, uiVars>>

TypeOK ==
  /\ WorkerTypeOK
  /\ BackendTypeOK
  /\ LogTypeOK
  /\ awaiting_response \in BOOLEAN
  /\ mode \in {"Normal", "Readline"}
  /\ session \in {"loop", "passthrough", "joining", "leaving", "closed",
                  "crashed"}
  /\ nsub \in 0..MaxCmd
  /\ owed \subseteq Query
  /\ discarded \subseteq Control

(* run: the startup script, and perhaps a plot command, before the loop. *)
StartupQueue == {<<-1>>, <<-1, -2>>}

Init ==
  /\ WorkerInit
  /\ \E queue \in StartupQueue : BackendInit(queue) /\ nsub = Len(queue)
  /\ LogInit
  /\ awaiting_response = FALSE
  /\ mode = "Normal"
  /\ session = "loop"
  /\ owed = {}
  /\ discarded = {}

(* The event loop is running: the main fiber has not left it. *)
Looping == session \in {"loop", "passthrough"}

-----------------------------------------------------------------------------
(* Keys and resizes: handled between two responses. *)

AtPrompt == session = "loop" /\ fiber = "asleep"

(* Enter at the R or the shell prompt: possible while R is at work. *)
SubmitKey ==
  /\ AtPrompt
  /\ mode = "Normal"
  /\ nsub < MaxCmd
  /\ nsub' = nsub + 1
  /\ add_to_history(nsub + 1, nsub)
  /\ submit(nsub + 1)
  /\ awaiting_response' = TRUE
  /\ UNCHANGED <<mode, session, owed, discarded, ring, pending_completion_line,
                 pending_runr, runr_done, runr, gates, interrupts,
                 shutdown_flag, startup, wpc, code, budget, idle, finished,
                 evicted>>

(* A question at the ":" prompt, which is open while R is at work too.     *)
(* "/new" and a blank question open no row, and are answered as well.      *)
AskKey ==
  /\ AtPrompt
  /\ mode = "Normal"
  /\ \E q \in Query \ owed :
       /\ status[q] = "absent"
       /\ owed' = owed \cup {q}
       /\ add_to_history(q, nsub) \/ UNCHANGED logVars
  /\ awaiting_response' = TRUE
  /\ UNCHANGED <<workerVars, backendVars, mode, session, nsub, discarded>>

(* Ctrl-C while waiting: interrupt R, close the log row, start over with   *)
(* a fresh model.  Nothing that is queued is withdrawn.                    *)
CancelKey ==
  /\ AtPrompt
  /\ mode = "Normal"
  /\ awaiting_response
  /\ rffi_interrupt
  /\ finish_active("interrupted")
  /\ awaiting_response' = FALSE
  /\ UNCHANGED <<backendVars, mode, session, nsub, owed, discarded, ring,
                 mailboxes, gates, shutdown_flag, startup, wpc, code, budget,
                 idle, finished, evicted>>

(* Enter or Ctrl-C in readline mode; only Enter waits for R again. *)
ReadlineKey ==
  /\ AtPrompt
  /\ mode = "Readline"
  /\ mode' = "Normal"
  /\ rffi_submit_readline_input
  /\ awaiting_response' \in {TRUE, awaiting_response}
  /\ UNCHANGED <<backendVars, logVars, session, nsub, owed, discarded, ring,
                 mailboxes, passthrough_gate, interrupts, shutdown_flag,
                 startup, wpc, code, budget, idle, finished, evicted>>

(* Typing a word asks for completions, unless the prompt waits for R. *)
CompletionKey ==
  /\ AtPrompt
  /\ ~awaiting_response
  /\ request_completions
  /\ UNCHANGED <<backendVars, logVars, uiVars, ring, pending_cmd,
                 pending_runr, runr_done, runr, gates, interrupts,
                 shutdown_flag, startup, wpc, code, budget, idle, finished,
                 evicted>>

(* TermResize: R is told the new width, in the background. *)
Resize ==
  /\ AtPrompt
  /\ nsub < MaxCmd
  /\ nsub' = nsub + 1
  /\ background_submit(-(nsub + 1))
  /\ UNCHANGED <<logVars, awaiting_response, mode, session, owed, discarded,
                 ring, pending_completion_line, pending_runr, runr_done, runr,
                 gates, interrupts, shutdown_flag, startup, wpc, code, budget,
                 idle, finished, evicted>>

(* The finally clause of main: the log is closed, and rffi_shutdown *)
(* blocks the UI thread in pthread_join.                            *)
Finally ==
  /\ session' = "joining"
  /\ finish_active("interrupted")
  /\ shutdown_flag' = TRUE
  /\ UNCHANGED <<backendVars, awaiting_response, mode, nsub, owed, discarded,
                 ring, mailboxes, gates, interrupts, startup, wpc, code,
                 budget, idle, finished, evicted>>

(* Ctrl-D on an empty prompt: run returns. *)
QuitKey == AtPrompt /\ Finally

(* "Failed to initialize R runtime": the daemon fiber takes the switch,    *)
(* and the main fiber with it, down.                                       *)
StartFailed == Looping /\ starter = "failed" /\ Finally

Key ==
  \/ SubmitKey \/ AskKey \/ CancelKey \/ ReadlineKey \/ CompletionKey
  \/ QuitKey

-----------------------------------------------------------------------------
(* Responses *)

Taken == response' = <<>> /\ fiber' = "asleep"
RestOfBackend == <<ready, busy, suppressing, pending, stashed, startup_output,
                   buf>>

(* process_response of output: filed in the log, and the wait goes on. *)
ShowOutput(r) ==
  /\ r.kind \in {"STDOUT", "IMAGE", "R_ERROR"}
  /\ record_output(r.cmds, r.kind = "R_ERROR")
  /\ UNCHANGED <<uiVars, passthrough_gate>>

ShowDone(r) ==
  /\ r.kind = "DONE"
  /\ finish_active("done")
  /\ awaiting_response' = FALSE
  /\ mode' = "Normal"
  /\ UNCHANGED <<session, nsub, owed, passthrough_gate, discarded>>

ShowReadline(r) ==
  /\ r.kind = "READLINE"
  /\ mode' = "Readline"
  /\ UNCHANGED <<logVars, awaiting_response, session, nsub, owed,
                 passthrough_gate, discarded>>

(* enter_passthrough: give the terminal away, then open the gate. *)
EnterPassthrough(r) ==
  /\ r.kind = "PASSTHROUGH"
  /\ session' = "passthrough"
  /\ rffi_signal_passthrough
  /\ UNCHANGED <<logVars, awaiting_response, mode, nsub, owed, discarded>>

(* Completions only touch the dropdown, a stray Passthrough_end nothing. *)
ShowRest(r) ==
  /\ r.kind \in {"COMPLETIONS", "PASSTHROUGH_END"}
  /\ UNCHANGED <<logVars, uiVars, passthrough_gate>>

(* Fiber.any: a key was faster in the same turn. *)
LoseRace(r) ==
  /\ Collisions
  /\ discarded' = discarded \cup ControlIn(<<r>>)
  /\ UNCHANGED <<logVars, prompt, passthrough_gate>>

LoopResponse ==
  /\ session = "loop"
  /\ response # <<>>
  /\ LET r == Head(response)
     IN \/ ShowOutput(r) \/ ShowDone(r) \/ ShowReadline(r)
        \/ EnterPassthrough(r) \/ ShowRest(r) \/ LoseRace(r)
  /\ Taken
  /\ UNCHANGED <<RestOfBackend, ring, mailboxes, readline_gate, interrupts,
                 shutdown_flag, startup, wpc, code, budget, idle, finished,
                 evicted>>

(* Ai_done comes from the AI's stream and ends the wait, R at work or not. *)
AiDone ==
  /\ AtPrompt
  /\ \E q \in owed : owed' = owed \ {q}
  /\ \/ awaiting_response' = FALSE
     \/ Collisions /\ UNCHANGED awaiting_response
  /\ UNCHANGED <<workerVars, backendVars, logVars, mode, session, nsub,
                 discarded>>

(* passthrough_loop waits for Passthrough_end and drops all else. *)
PassthroughResponse ==
  /\ session = "passthrough"
  /\ response # <<>>
  /\ LET r == Head(response)
     IN IF r.kind = "PASSTHROUGH_END"
        THEN session' = "loop" /\ UNCHANGED discarded
        ELSE /\ discarded' = discarded \cup ControlIn(<<r>>)
             /\ UNCHANGED session
  /\ Taken
  /\ UNCHANGED <<RestOfBackend, logVars, awaiting_response, mode, nsub, owed,
                 ring, mailboxes, gates, interrupts, shutdown_flag, startup,
                 wpc, code, budget, idle, finished, evicted>>

-----------------------------------------------------------------------------
(* The end: rffi_shutdown joins the worker, then the switch waits for the  *)
(* systhreads that are inside a sandboxed call.                            *)

(* A thread that was never created cannot be joined: the program crashes. *)
Join ==
  /\ session = "joining"
  /\ \/ wpc = "exited" /\ session' = "leaving"
     \/ wpc = "none" /\ session' = "crashed"
  /\ UNCHANGED <<workerVars, backendVars, logVars, awaiting_response, mode,
                 nsub, owed, discarded>>

Leave ==
  /\ session = "leaving"
  /\ \A k \in Caller : runr[k] = "out"
  /\ session' = "closed"
  /\ UNCHANGED <<workerVars, backendVars, logVars, awaiting_response, mode,
                 nsub, owed, discarded>>

-----------------------------------------------------------------------------

Start ==
  /\ session # "crashed"
  /\ Starting
  /\ UNCHANGED <<backendVars, logVars, uiVars>>
Worker == WorkerStep /\ UNCHANGED <<backendVars, logVars, uiVars>>
Await == Looping /\ AwaitStep /\ UNCHANGED <<logVars, uiVars>>
GetReady ==
  /\ Looping
  /\ BecomeReady
  /\ UNCHANGED <<logVars, uiVars, ring, pending_completion_line, pending_runr,
                 runr_done, runr, gates, interrupts, shutdown_flag, starter,
                 init_result, wpc, code, budget, idle, finished, evicted>>
(* The MCP server outlives the event loop for as long as an AI query is    *)
(* running (Ai_backend forks it as a non-daemon fiber), so a sandboxed     *)
(* call may still be made after the worker has been joined.                *)
CallTool(k) ==
  /\ Looping \/ session = "leaving"
  /\ CallRunr(k)
  /\ UNCHANGED <<backendVars, logVars, uiVars>>
ReturnTool(k) == ReturnRunr(k) /\ UNCHANGED <<backendVars, logVars, uiVars>>

Next ==
  \/ Start
  \/ Worker
  \/ Await
  \/ GetReady
  \/ StartFailed
  \/ Key
  \/ Resize
  \/ LoopResponse
  \/ PassthroughResponse
  \/ AiDone
  \/ Join
  \/ Leave
  \/ \E k \in Caller : CallTool(k) \/ ReturnTool(k)

Spec == Init /\ [][Next]_vars

(* The threads keep running: the worker (R code ends), the UI thread (the  *)
(* fibers are polled), the systhreads.  Nothing is assumed of the user.    *)
Fairness ==
  /\ WF_vars(Start)
  /\ WF_vars(Worker)
  /\ WF_vars(Await)
  /\ WF_vars(GetReady \/ StartFailed)
  /\ WF_vars(LoopResponse \/ PassthroughResponse)
  /\ WF_vars(Join \/ Leave)
  /\ WF_vars(\E k \in Caller : ReturnTool(k))

FairSpec == Spec /\ Fairness

-----------------------------------------------------------------------------
(* Properties *)

InTransit(kind) == {i \in DOMAIN Available : Available[i].kind = kind}

(* The places the one evaluation R is allowed can be in: the mailbox, the  *)
(* interpreter, or a DONE that await_response has not seen.                *)
Evaluations ==
  (IF pending_cmd # NoCmd THEN 1 ELSE 0) + (IF code # NoCmd THEN 1 ELSE 0)
    + Cardinality(InTransit("DONE"))

(* busy of ffi_backend.ml is in step with the worker thread: never more    *)
(* than one evaluation is out (rffi_submit would free a command nobody has *)
(* read), busy is true while one is, and busy without one means that the   *)
(* ring gave up a DONE frame; queued commands wait only for a busy R.      *)
BusyInStep ==
  /\ Evaluations <= 1
  /\ Evaluations = 1 => busy
  /\ busy /\ "DONE" \notin evicted => Evaluations = 1
  /\ ready /\ pending # <<>> => busy

(* The ring never gives up a request R is blocked on, and a DONE only to   *)
(* output printed between commands that fills the ring by itself: neither  *)
(* the drop-oldest policy nor rb_reset ever takes more than output, the    *)
(* end of a system() call and completions from a running command.          *)
RingKeepsRequests ==
  /\ evicted \cap {"PASSTHROUGH", "READLINE"} = {}
  /\ "DONE" \in evicted => idle >= RingSlots

(* While output is being hidden, nothing a user's command printed, and no  *)
(* user's command, is anywhere between the mailbox and the pop: the        *)
(* suppressing flag of ffi_backend.ml never hides what a user asked for.   *)
OnlyBackgroundHidden ==
  suppressing =>
    /\ ~IsUser(pending_cmd)
    /\ ~IsUser(code)
    /\ \A i \in DOMAIN Available : ~IsUser(Available[i].cmd)

(* A Done that reaches the event loop is that of a user's command, and R   *)
(* has nothing else to do: handle_done has swallowed all the others.       *)
DoneMeansIdle ==
  \A i \in DOMAIN response :
    response[i].kind = "DONE" =>
      /\ \A c \in response[i].cmds : IsUser(c)
      /\ pending = <<>>
      /\ Evaluations = 0

(* Both spin gates of load_r.c are open only for an R that is waiting at   *)
(* them: no input and no permission is left over for a later request.      *)
GatesInStep ==
  /\ readline_gate => wpc = "readline"
  /\ passthrough_gate => wpc = "gate"
  /\ mode = "Readline" => wpc = "readline" /\ ~readline_gate
  /\ session = "passthrough" /\ "PASSTHROUGH_END" \notin evicted \cup discarded =>
       \/ wpc = "gate" /\ passthrough_gate
       \/ wpc = "system"
       \/ InTransit("PASSTHROUGH_END") # {}
       \/ \E i \in DOMAIN response : response[i].kind = "PASSTHROUGH_END"

Asked(kind) ==
  \/ InTransit(kind) # {}
  \/ \E i \in DOMAIN response : response[i].kind = kind
  \/ kind \in discarded

(* Whenever R spins at a gate, the UI has been asked: the request is in    *)
(* the ring, on its way through the loop, on the screen, or answered.      *)
NobodyWaitsUnasked ==
  /\ wpc = "readline" => Asked("READLINE") \/ mode = "Readline" \/ readline_gate
  /\ wpc = "gate" => Asked("PASSTHROUGH") \/ passthrough_gate

(* Ctrl-C is for what was running when it was pressed: while R evaluates a *)
(* command, an interrupt that is pending was asked for during that same    *)
(* evaluation, and never one that an earlier command left behind or that   *)
(* came while R had nothing to do.                                         *)
InterruptsAreFresh ==
  /\ interrupts_pending
  /\ code # NoCmd
  /\ wpc \in {"eval", "readline", "gate", "system"}
  => aimed = code

(* The log of history.ml never says "done" of a command R has not finished, *)
(* though R's Done closes whatever row is open, that of a question to the  *)
(* AI too; and no output is filed under a command submitted before the one *)
(* that printed it, or under a question asked before that.                 *)
LogIsHonest ==
  /\ \A r \in CommandRow : status[r] = "done" => r \in finished
  /\ \A o \in outputs : Abs(o[2]) <= Newest(o[1])

(* The bridge is a serial executor: no interleaving of keys, resizes,      *)
(* completions and the two threads loses, repeats or reorders a command.   *)
Executor == INSTANCE SerialExecutor WITH
  accepted <- nsub,
  todo <- (IF pending_cmd = NoCmd THEN <<>> ELSE <<pending_cmd>>) \o pending,
  running <- code,
  done <- finished

ImplementsExecutor == Executor!SESpec

(* What only the user, or the end of the program, can end. *)
WaitingForUser == wpc = "readline" /\ mode = "Readline"
Quitting == session \notin {"loop", "passthrough"}

(* rffi_start waits for a thread that could not be created. *)
ThreadMissing == starter = "waiting" /\ wpc = "none"

(* Every submitted command is evaluated, the startup script included,      *)
(* whatever of libR, its symbols or the ring is missing when R is started: *)
(* unless R waits for a line that nobody types, the program ends, there is *)
(* no thread to run R on, or the ring gave up what the UI relies on.       *)
EveryCommandEnds ==
  \A n \in 1..MaxCmd :
    nsub >= n ~> \/ n \in finished \/ -n \in finished
                \/ WaitingForUser \/ Quitting \/ ThreadMissing
                \/ evicted \cap {"DONE", "PASSTHROUGH_END"} # {}

(* The terminal comes back from every system() call, unless its end frame  *)
(* was evicted: enter_passthrough in main.ml leaves its loop.              *)
PassthroughEnds ==
  session = "passthrough" ~> session # "passthrough" \/ "PASSTHROUGH_END" \in evicted

(* Quitting closes the program unless R spins at one of its gates or a     *)
(* sandboxed call is outstanding: rffi_shutdown has no other way to hang.  *)
QuitEnds ==
  session = "joining" ~> \/ session \in {"closed", "crashed"}
                         \/ wpc \in {"readline", "gate"}
                         \/ \E k \in Caller : runr[k] = "waiting"

-----------------------------------------------------------------------------
(* What the code says of itself and does not do. *)

(* update.ml keeps awaiting_response "until we get a terminal response":   *)
(* so a prompt that waits for the command in the log gets one, unless R is *)
(* waiting for the user or could not be started, or the program ends.      *)
AwaitedResponseComes ==
  awaiting_response /\ active_command_id # NoRow ~>
    ~awaiting_response \/ WaitingForUser \/ Quitting \/ ThreadMissing

(* rffi_run_r_sandboxed "blocks until the worker thread has forked,        *)
(* evaluated, and reaped the child": so a call returns.                    *)
SandboxedCallReturns ==
  \A k \in Caller :
    runr[k] = "waiting" ~> \/ runr[k] = "out" \/ WaitingForUser
                           \/ ThreadMissing \/ session = "crashed"

=============================================================================
