----------------------------- MODULE FfiBackend -----------------------------
(***************************************************************************)
(* lib/ffi_backend.ml: the OCaml side of the R bridge.  It lets one        *)
(* evaluation into the worker at a time, queues the others, hides the      *)
(* output of background commands, and turns ring frames into responses for *)
(* the event loop.  All of it runs on the UI thread, interleaved with the  *)
(* worker but never with itself; await_response is a fiber that gives up   *)
(* the thread only when it sleeps or returns.                              *)
(***************************************************************************)
EXTENDS RWorker

VARIABLES ready,           \* the daemon fiber saw Rffi.init return
          busy,            \* an evaluation is out
          suppressing,     \* output is that of a background command
          pending,         \* commands waiting for their turn
          stashed,         \* frames drain popped and put back (0 or 1)
          startup_output,  \* pending_startup_output is Some
          fiber,           \* where await_response is
          buf,             \* commands whose bytes drain has collected
          response         \* responses returned and not yet handled (0 or 1)

backendVars == <<ready, busy, suppressing, pending, stashed, startup_output,
                 fiber, buf, response>>

IsUser(c) == c > 0
IsBackground(c) == c < 0

BackendTypeOK ==
  /\ ready \in BOOLEAN
  /\ busy \in BOOLEAN
  /\ suppressing \in BOOLEAN
  /\ pending \in Seq(Int \ {NoCmd})
  /\ stashed \in Seq([kind : Kind, cmd : Int]) /\ Len(stashed) <= 1
  /\ startup_output \in BOOLEAN
  /\ fiber \in {"asleep", "popping", "draining", "returned"}
  /\ buf \subseteq Int
  /\ response \in Seq([kind : Kind, cmds : SUBSET Int]) /\ Len(response) <= 1
  /\ fiber = "returned" <=> response # <<>>

(* create, and the commands run queues before R is up. *)
BackendInit(queue) ==
  /\ ready = FALSE
  /\ busy = FALSE
  /\ suppressing = FALSE
  /\ pending = queue
  /\ stashed = <<>>
  /\ startup_output = FALSE
  /\ fiber = "asleep"
  /\ buf = {}
  /\ response = <<>>

-----------------------------------------------------------------------------
(* Starting evaluations. *)

(* start_eval and rffi_submit: the mailbox is overwritten. *)
start_eval(c) ==
  /\ busy' = TRUE
  /\ rffi_submit(c)

(* Variant: the queue is not looked at. *)
flush_nothing(b, s) ==
  /\ busy' = b
  /\ suppressing' = s
  /\ UNCHANGED <<pending, pending_cmd>>

(* flush_pending, in a state where busy becomes b and suppressing becomes s *)
(* unless the queue has a command to start.                                 *)
flush_pending(b, s) ==
  IF pending = <<>>
  THEN /\ busy' = b
       /\ suppressing' = s
       /\ UNCHANGED <<pending, pending_cmd>>
  ELSE /\ start_eval(Head(pending))
       /\ suppressing' = IsBackground(Head(pending))
       /\ pending' = Tail(pending)

(* The daemon fiber of create, once R is up. *)
BecomeReady ==
  /\ ~ready
  /\ starter = "started"
  /\ ready' = TRUE
  /\ startup_output' = init_output
  /\ rffi_take_init_output
  /\ flush_pending(busy, suppressing)
  /\ UNCHANGED <<stashed, fiber, buf, response>>

(* Variant: a command is let in while another one is out. *)
submit_at_once(c) ==
  /\ suppressing' = FALSE
  /\ IF ready
     THEN start_eval(c) /\ UNCHANGED pending
     ELSE pending' = Append(pending, c) /\ UNCHANGED <<busy, pending_cmd>>
  /\ UNCHANGED <<ready, stashed, startup_output, fiber, buf, response>>

submit(c) ==
  /\ suppressing' = FALSE
  /\ IF ready /\ ~busy
     THEN start_eval(c) /\ UNCHANGED pending
     ELSE pending' = Append(pending, c) /\ UNCHANGED <<busy, pending_cmd>>
  /\ UNCHANGED <<ready, stashed, startup_output, fiber, buf, response>>

(* Variants: output is hidden from the moment the command is queued; the *)
(* command is let in while another one is out.                           *)
background_hide_early(c) ==
  /\ suppressing' = TRUE
  /\ IF ready /\ ~busy
     THEN start_eval(c) /\ UNCHANGED pending
     ELSE pending' = Append(pending, c) /\ UNCHANGED <<busy, pending_cmd>>
  /\ UNCHANGED <<ready, stashed, startup_output, fiber, buf, response>>

background_at_once(c) ==
  /\ IF ready
     THEN suppressing' = TRUE /\ start_eval(c) /\ UNCHANGED pending
     ELSE /\ pending' = Append(pending, c)
          /\ UNCHANGED <<busy, suppressing, pending_cmd>>
  /\ UNCHANGED <<ready, stashed, startup_output, fiber, buf, response>>

background_submit(c) ==
  /\ IF ready /\ ~busy
     THEN /\ suppressing' = TRUE
          /\ start_eval(c)
          /\ UNCHANGED pending
     ELSE /\ pending' = Append(pending, c)
          /\ UNCHANGED <<busy, suppressing, pending_cmd>>
  /\ UNCHANGED <<ready, stashed, startup_output, fiber, buf, response>>

(* request_completions, dropped unless R is up and free. *)
request_completions ==
  /\ ready
  /\ ~busy
  /\ rffi_request_completions

-----------------------------------------------------------------------------
(* await_response *)

(* Variant: prompts are hidden with the output. *)
SuppressiblePrompt(kind) == kind \in {"STDOUT", "IMAGE", "R_ERROR", "READLINE"}

(* The kinds a background command is not allowed to show. *)
Suppressible(kind) == kind \in {"STDOUT", "IMAGE", "R_ERROR"}

(* pop: the stash first, then the ring. *)
Available == stashed \o ring
TakeFrame ==
  IF stashed # <<>>
  THEN stashed' = <<>> /\ UNCHANGED ring
  ELSE rffi_rb_pop /\ UNCHANGED stashed

Return(kind, cmds) ==
  /\ response' = <<[kind |-> kind, cmds |-> cmds]>>
  /\ fiber' = "returned"

Awaiting == fiber \in {"asleep", "popping"}

DeliverStartupOutput ==
  /\ Awaiting
  /\ startup_output
  /\ startup_output' = FALSE
  /\ Return("STDOUT", {NoCmd})
  /\ UNCHANGED <<ready, busy, suppressing, pending, stashed, buf, ring,
                 pending_cmd>>

PopNothing ==
  /\ fiber = "popping"
  /\ ~startup_output
  /\ Available = <<>>
  /\ fiber' = "asleep"
  /\ UNCHANGED <<ready, busy, suppressing, pending, stashed, startup_output,
                 buf, response, ring, pending_cmd>>

CanPop == Awaiting /\ ~startup_output /\ Available # <<>>

PopSuppressed ==
  /\ CanPop
  /\ suppressing
  /\ Suppressible(Head(Available).kind)
  /\ TakeFrame
  /\ fiber' = "popping"
  /\ UNCHANGED <<ready, busy, suppressing, pending, startup_output, buf,
                 response, pending_cmd>>

PopOutput ==
  /\ CanPop
  /\ ~suppressing
  /\ Head(Available).kind = "STDOUT"
  /\ TakeFrame
  /\ buf' = {Head(Available).cmd}
  /\ fiber' = "draining"
  /\ UNCHANGED <<ready, busy, suppressing, pending, startup_output, response,
                 pending_cmd>>

(* drain: more output is added to the chunk ... *)
DrainOutput ==
  /\ fiber = "draining"
  /\ ring # <<>>
  /\ Head(ring).kind = "STDOUT"
  /\ rffi_rb_pop
  /\ buf' = buf \cup {Head(ring).cmd}
  /\ UNCHANGED <<ready, busy, suppressing, pending, stashed, startup_output,
                 fiber, response, pending_cmd>>

(* ... and what ends it is stashed for the next call. *)
DrainEnd ==
  /\ fiber = "draining"
  /\ \/ ring = <<>> /\ stashed' = <<>> /\ UNCHANGED ring
     \/ /\ ring # <<>>
        /\ Head(ring).kind # "STDOUT"
        /\ stashed' = <<Head(ring)>>
        /\ rffi_rb_pop
  /\ Return("STDOUT", buf)
  /\ buf' = {}
  /\ UNCHANGED <<ready, busy, suppressing, pending, startup_output,
                 pending_cmd>>

(* Variant: every Done of a user's command is returned. *)
PopDoneAlways ==
  /\ CanPop
  /\ Head(Available).kind = "DONE"
  /\ TakeFrame
  /\ flush_pending(FALSE, FALSE)
  /\ IF suppressing
     THEN fiber' = "popping" /\ UNCHANGED response
     ELSE Return("DONE", {Head(Available).cmd})
  /\ UNCHANGED <<ready, startup_output, buf>>

(* handle_done frees R for the next command; Done is returned unless a *)
(* background command ended or another command started.                *)
PopDone ==
  /\ CanPop
  /\ Head(Available).kind = "DONE"
  /\ TakeFrame
  /\ flush_pending(FALSE, FALSE)
  /\ IF busy' \/ suppressing
     THEN fiber' = "popping" /\ UNCHANGED response
     ELSE Return("DONE", {Head(Available).cmd})
  /\ UNCHANGED <<ready, startup_output, buf>>

PopOther ==
  /\ CanPop
  /\ \/ Head(Available).kind \in {"IMAGE", "R_ERROR"} /\ ~suppressing
     \/ Head(Available).kind \in {"PASSTHROUGH", "PASSTHROUGH_END",
                                  "COMPLETIONS", "READLINE"}
  /\ TakeFrame
  /\ Return(Head(Available).kind, {Head(Available).cmd})
  /\ UNCHANGED <<ready, busy, suppressing, pending, startup_output, buf,
                 pending_cmd>>

AwaitStep ==
  /\ \/ DeliverStartupOutput \/ PopNothing \/ PopSuppressed \/ PopOutput
     \/ DrainOutput \/ DrainEnd \/ PopDone \/ PopOther
  /\ UNCHANGED <<pending_completion_line, pending_runr, runr_done, runr,
                 gates, interrupts, shutdown_flag, startup, wpc, code, budget,
                 idle, finished, evicted>>

=============================================================================
