# Raoui in TLA+

Raoui is a terminal front end for R. An OCaml program (`bin/`, `lib/`) draws the
prompt, edits text, keeps a history and talks to an AI assistant; a C layer
(`c_ffi/`) loads libR, runs it on a thread of its own and hands its output back
through a byte ring. This directory holds TLA+ modules that model that program
from its source, TLC configurations that check them on small instances, and
TLAPS proofs of what holds for every instance. Paths below are relative to the
repository.

## The system

### Who runs where

| actor | code | waits for |
|---|---|---|
| R thread | `load_r.c: r_thread_func` | a mailbox (100 ms at a time), a spin gate, R itself |
| UI thread | `bin/main.ml: run`, all of `lib/` | four fibers raced by `Eio.Fiber.any`: a key, a response of R, a chunk of the AI, a resize |
| systhreads | `mcp_server.ml` calling `rffi_run_r_sandboxed` | `runr_done_cond` |
| children | `claude`, the sandboxed fork, what `system()` starts | - |

The UI thread writes the mailboxes (`pending_cmd`, `pending_completion_line`,
`pending_runr`), the two gates (`passthrough_gate`, `readline_gate`),
`R_interrupts_pending` and `shutdown_flag`. The R thread answers through the
ring only. The ring loses its oldest frames when it is full, and everything when
a command starts (`rb_reset`); the mailboxes are overwritten without a look.
Nothing in the C layer protects a command from being lost: that is left to the
`busy` flag of `ffi_backend.ml`.

### Components

| component | state | operations | what makes it correct |
|---|---|---|---|
| ring buffer (`c_ffi/ring_buffer.c`) | bytes, head, tail, used, drop counters, mutex | init, reset, push, pop | a FIFO of whole frames that loses only old ones, and only for room; its "shouldn't happen" exits do not happen; no call keeps the lock |
| R worker (`c_ffi/load_r.c`) | mailboxes, gates, flags, what is being evaluated | start, take a request, evaluate, print, ask for a line, hand over the terminal, complete, sandboxed run, idle events, interrupt, shutdown | requests are answered; R waits at a gate only after the UI was asked; gates are not left open |
| run_r sandbox (`load_r.c`, `sandbox_linux.c`) | parent, child, pipe, deadline, rules | gather, fork, confine, evaluate, read, kill, reap | code runs only when confined; always comes back, with a complete or a marked result; what the user works on is readable |
| FFI backend (`lib/ffi_backend.ml`) | ready, busy, suppressing, pending, stashed frame | submit, background_submit, request_completions, await_response | commands run once, in order, one at a time; only background output is hidden; a Done that is reported means idle |
| event loop (`bin/main.ml`, `lib/update.ml`) | model, awaiting_response | a key, a response, a resize, an effect | the prompt is free when R is; the terminal always comes back; quitting ends |
| history (`lib/history.ml`) | rows and outputs in SQLite, the active row, the recall position | add, record, finish, go back and forwards, search | outputs belong to their command; the status is what happened; recall returns what was typed |
| input modes (`normal_mode.ml`, `shell_mode.ml`, `ai_mode.ml`, `readline_mode.ml`, `history_search.ml`) | mode, prompt text, cursor | keys | the cursor is inside the text; leaving a mode restores what it hid |
| AI backend (`lib/ai_backend.ml`) | session id, started flag, chunk stream | submit, reset, next chunk | one query after another resumes the same session; reset starts a new one; the UI does not block |
| MCP server (`lib/mcp_server.ml`) | socket, in-flight requests | list and call tools | each request gets one answer |
| completion (`completion.ml`, `completion_controller.ml`, `backslash_command.ml`) | dropdown, anchor | request, answer, pick, dismiss | an answer is placed where it was asked for |
| text editor and layout (`text_editor.ml`, `unicode_string.ml`, `view.ml`) | lines, cursor, scroll | edit, move, draw | cursor stays in the text; what is drawn fits |
| terminal input (`tty_listener.ml`, `terminal_session.ml`) | bytes read, escape and paste state, bytes put aside by a question for the cursor | next key, cursor position, lending the terminal | a cancelled or late read damages one key only; the answer for the cursor is found among the keys |
| lexer and cache (`r_lexer.ml`, `lexer_cache.ml`, `r_lex_cache.ml`) | tokens and states per line | lex, invalidate | equal to lexing from scratch |
| search pager, rendering, themes, options, logs | - | - | pure output and file I/O |

### What is hard

Two threads and a lossy ring between them; messages that a thread waits for
travel in the same ring as the output that may evict them; a flag on one side
(`busy`, `suppressing`, `awaiting_response`) stands for a state of the other; a
response may lose a race against a key in `Fiber.any`, which has no `combine`,
and is gone; shutdown joins a thread that may be waiting for the joiner. The
list, line by line, with the properties that cover it, is in `PROJECT.json`
under `hazards`.

## Plan

In the order of how much of the program rests on each part.

1. **Ring buffer** - `FrameQueue`, `RingBuffer`, proofs. *Done.*
2. **R session** - `RWorker`, `FfiBackend`, `CommandLog`, `Session`,
   abstract `SerialExecutor`. *Modelled, model-checked, proved: every safety
   property and the refinement.*
3. **AiBackend** - concurrent queries, `--session-id` and `--resume`, reset, the
   bounded chunk stream, the stash of suggestions. *Modelled, model-checked, proved.*
4. **History** - recall, search, failing statements, crash and restart.
   *Modelled, model-checked, proved, the search included.*
5. **Prompt** - `TextEditor`, `Prompt`: the modes, every key, the completion
   dropdown, responses in between, the assertions of `assert_model_invariants`.
   *Modelled, model-checked, proved.*
6. **Sandbox** - `SandboxPolicy` (the rules of the three platforms) and `Sandbox`
   (parent, child, watchdog and pipe of `run_r_on_worker`). *Modelled,
   model-checked, proved.*
7. **TtyInput** - escape sequences and pastes under timeouts, cancelled reads and
   questions for the cursor. *Modelled, model-checked, proved.*
8. **LexerCache** - incremental against from-scratch lexing (pure operators).
9. **Unicode_string** - clusters that are wide or join across an edit, the
   conversion between clusters, columns and bytes (pure operators).
10. **Layout and SearchPager** - window arithmetic (pure operators, proved).
11. **McpServer** - dispatch and answers.

## Modules

| module | models | uses |
|---|---|---|
| `FrameQueue` | abstract: the lossy FIFO the ring promises | |
| `RingBuffer` | `ring_buffer.c`, cell by cell, step by step under the mutex | `FrameQueue` (refinement) |
| `RingBufferProofs` | the proofs about it | `RingBuffer` |
| `RWorker` | the start of R, the R thread of `load_r.c` and the sandboxed call | ring as frames |
| `SandboxPolicy` | the rules: Landlock and seccomp of `sandbox_linux.c`, the Seatbelt profile of `load_r.c` (operators only) | |
| `Sandbox` | `run_r_on_worker`: parent, child, pipe and watchdog | `SandboxPolicy` |
| `SandboxProofs` | the proofs about both | `Sandbox` |
| `FfiBackend` | `ffi_backend.ml` | `RWorker` |
| `CommandLog` | the command rows of `history.ml` | |
| `History` | recall, search and the table of `history.ml` through crashes and restarts | |
| `HistoryProofs` | the proofs about it | `History` |
| `SerialExecutor` | abstract: commands run once, in order | |
| `Session` | `main.ml`, the parts of `update.ml` and the modes that reach R; composition of all | `FfiBackend`, `CommandLog`, `SerialExecutor` (refinement) |
| `SessionProofs` | the proofs about it, the refinement included | `Session` |
| `AiBackend` | `ai_backend.ml`, the `suggest_code` tool, the AI responses of `update.ml` | |
| `AiBackendProofs` | the proofs about it | `AiBackend` |
| `TextEditor` | `text_editor.ml`, the coordinates of `frontend_types.ml` (operators only) | |
| `Prompt` | `update.ml`, the five input modes, the completion dropdown | `TextEditor` |
| `TextEditorProofs` | what its operators keep and undo (lemmas only) | `TextEditor` |
| `PromptProofs` | the proofs about it | `Prompt`, `TextEditorProofs` |
| `TtyInput` | `tty_listener.ml`, `get_cursor_position`, the reading of keys in `main.ml` | |
| `TtyInputProofs` | the proof about it | `TtyInput` |
| `MCRingBuffer`, `MCSession`, `MCSandbox`, `MCHistory`, `MCAiBackend`, `MCPrompt`, `MCTtyInput` | the instances TLC checks | |

Definitions keep the name of the function they stand for where there is one.
Definitions introduced by "Variant" or described as doing something wrong
(`RoomMadeOffByOne`, `submit_at_once`, ...) are deliberately broken versions of
the definition they precede; no specification uses them. They record, property
by property, a mistake that the property would catch (`mutants` in
`PROJECT.json`).

### RingBuffer and the code

`buf`, `head`, `tail`, `used`, `dropped_messages`, `dropped_bytes` are the fields
of `ring_buffer_t`; `lock` and `pc` are the mutex and where each thread is inside
a call. The six-byte packed header is three cells, one per field, so that a read
at a wrong position takes payload for a length as it would in C. A push is
`PushLock` (size test and lock), `PushEvict` once per turn of either loop,
`PushHeader`, `PushData`; a pop is `PopLock`, then `PopEmpty` or `PopHeader`
(with the "corrupt state" exit) and `PopPayload`, which copies and skips. `Reset`
is one step: it holds the lock over plain assignments. `queue` and `bounds` are
history variables: what was stored and where it starts. No action reads them.
The counters are unbounded integers; the only bound is `MaxDropped`, which stops
new pushes once so many frames were dropped (a reset starts over).

### RWorker, FfiBackend, Session and the code

The worker's `wpc` is its place in `r_thread_func`: `loop` before the test of
`shutdown_flag`, `locked` after the wait on the mailboxes, `reset` and `parse`
before an evaluation, `eval` inside it, `readline`, `gate` and `system` inside the
callbacks, `events` in `process_events`, whose handlers may print, plot, ask for a line or
call `system()` like any R code; before all that `none` (no thread yet),
`init` (loading libR and its symbols) and `startup` (`setup_Rmainloop`, which runs the
profiles: what they print is captured in `init_output`, a message goes to the ring, a
question waits at the gate). `starter` is the systhread inside `rffi_start`; it fails
when the ring or the stack cannot be had or `init_r` fails, and waits for ever when
`pthread_create` has failed, because its result is not looked at. `aimed` remembers
which command was being evaluated when an interrupt was asked for; no action reads
it. Each of these is a point where the UI
thread can get in between. A command is its number in order of submission,
negative for a background command; evaluating it is any sequence of at most
`MaxOutput` outputs, questions and `system()` calls, with or without an error.
libR is external. The ring is a sequence of at most `RingSlots` frames, which is
what `RingBuffer` is proved to implement, with the loss made visible: `evicted`
collects the kinds of awaited frames the ring gave up, and no action reads it.

`FfiBackend` has the fields of the record `t`. `await_response` is cut where the
R thread can get in between: every pop of a frame, and every turn of `drain`.
`flush_pending(b, s)` is the code's function applied to a record whose `busy` and
`suppressing` have just been set.

`Session` adds the keys that reach R or the log (Enter at the R, shell and `:` prompts,
Enter and Ctrl-C at a readline prompt, Ctrl-C, a completion, Ctrl-D), resizes, the handling
of each response, `enter_passthrough`, and the end of the program: `joining` is
`rffi_shutdown` blocked in `pthread_join`, `leaving` is Eio's switch waiting for
systhreads and the AI query. A key is handled only between two responses, as in
the loop. `Collisions` says whether `Fiber.any` may throw a popped response away;
Eio is external and its documentation allows it when two fibers finish in the
same turn.

A question to the AI (`AskKey`) opens a row of the log and makes the prompt wait, whether
R is at work or not; its `Ai_done` (`AiDone`) ends the wait and closes no row. `asked`
remembers how many commands there were when a question was asked.

A failed start is an exception of the daemon fiber, which takes the event loop down
(`StartFailed`) into the same `finally` clause as Ctrl-D. `crashed` is `pthread_join`
of a thread that was never created.

### SandboxPolicy, Sandbox and the code

A path is the sequence of its names; `PolicyAssumption` says that the machine is a
tree (what is above something is a directory, and `/dev/null` is not one). `Leads` are the
symbolic links and where they end; `realpath` follows them, as `open` does in
`grant_path`, and the kernel judges what a path leads to. `LandlockRules` is the set of
rules `apply_landlock` adds for the gathered paths, `$HOME` and the kernel's ABI, with the
rights of `read_access` and `write_access` (all that `FS_READ_RIGHTS` and
`FS_WRITE_RIGHTS` list, less what the kernel does not know: `Handled`);
`LandlockReadRules` is the part for reading (`grant_read_tree` of every path), which goes
around the stores. `LandlockAllows` is what the kernel makes of them; a right that is not
handled is not restricted. `SeatbeltReads` and its siblings are the profile
`build_runr_profile` writes: text, which the kernel compares with where a file really is.

`ppc` is the R thread in `run_r_on_worker`, cut at every system call; `cpc` the child,
from `setrlimit` to `_exit`. The pipe holds `PipeSlots` writes and blocks a writer
beyond that, until there is room or a signal interrupts the write, which is then lost
(`lost`): neither `cb_runr_capture` nor the other writers of the child look at what
`write` returns. `late` is the clock: it turns true once, at any time during the drain loop.
What the evaluated code does is external: it prints, forks (`orphan` is a process that
outlives it and holds the pipe open), dies of a signal, or stops for good (`wedged`:
`readline()` and `system()` spin at the child's own copy of a gate, a lock may have
been held by another thread at the fork). `quit(status = n)` ends it with any status (`Quit`). `Interrupted` is EINTR in the parent: `poll` and `read` are
tried again, `waitpid` is not. `DrainFails` is any other error of the two. Every step of
the confinement may fail, and `sent` collects what the child printed, read, unread or lost.
A refusal cannot be lost this way: it is the first thing in the pipe.

`MayTouch` and `MayCall` say what a child with what it has applied to itself could do;
`CodeIsConfined` and `DataIsReadable` quantify over all of the machine and all rights.
`Stores` are the credential stores of `$HOME`, by their paths; `InStore` is what they lead
to. `OpenTo` says, file by file, what of them is open after all, and `Ungoverned` which
right is (see the findings).

### History and the code

`nav` holds the fields recall keeps (`history`, `current_index`, `saved_prompt`,
`search_needle`), `commands` is the table in the order of its ids. `go_back`,
`go_forwards` and `search_matches` are the functions of the code, on texts that are
sequences of letters, so that substrings, repetitions and case are what they are in the
code. The entry that recall looks for is the nearest one that matches (`Older`, `Newer`,
their largest and smallest), and the search loop is a recursive function on the entries
still to look at (`search_matches`; `Look` is one turn of the loop, `Matches` its test). Every SQLite statement is done or fails; a failure raises, which leaves the loop
(`LeaveLoop`) for the `finally` clause and its last statement (`Close`). `Crash` may come
at any time, `Restart` is `init` on the table that is there, and another process may add
rows at any time. Once the loop is left, what recall keeps is put back to rest: nothing
reads it any more. `unsaved` marks an entry whose row could not be written; no action
reads it.

### AiBackend and the code

`session_id`, `started` and `chunks` are the fields of `t`; a random id is its
number in order of creation. `run[q]` is the fiber that `submit` forks for query
`q`, with the flags it was given when it was forked: running while `claude` does,
then adding an error if it ended badly, then `Ai_done`. `AnswerSuggest` is the
`suggest_code` tool: it adds to the same stream before it answers. An add waits
while the stream is full. `reset` is called by the event loop itself, so its two
adds are a state of `ui` in which nothing else of the loop happens. `Cancel` and
`LoseRace` are where a suggestion may be thrown away. What a run of `claude` says
is bounded by `MaxSay`; a run may end badly at any time, whether or not it has
already created the conversation.

### TextEditor, Prompt and the code

A step of `Prompt` is one call of `Update.update`: a key, with the mode's
`apply_key`, `universal_corrections` and `completion_followup` (`Correct`), or a
response. `update` asserts `assert_model_invariants` on the model it is given and
on the one it returns; an assertion that fails ends the program, so `Next` has
the assertions as a guard and a state that fails them is a last state.

A line is its number of clusters. Where a handler looks at characters (a bracket
to pair, a word to skip, a label that matches, a command to continue) the model
takes every outcome that some characters lead to. `Recall` and `SearchSubmit`
take any entry of the history, with its mode (`History` says which). `original_token` and a label are
lengths; `label` remembers which label Tab has put in. `vertical` and `flipping`
are what the code asks of `previous_key` and `flipping_through_history`. The
search state belongs to the mode `History_search` and is `NoSearch` outside it.
Scrolling (`handle_vertical_cursor_movement`) changes only the layout and is left
out; quitting (`q()`, Ctrl-D in an empty prompt) is no step.

`busy`, `question`, `asking` and `requested` say which responses may come: a Done
for a command that was submitted, an `Ai_done` for each query, completions if they
were requested. They may come between any two keys, and late. `Answers` restricts
a run to the responses of some of them. `tabbed` records the text before the first
Tab and after the last; no action depends on it.

### TtyInput and the code

`wire`, `tty`, `channel` and `pending_input` are the places a byte can be in: sent by the
terminal, at the file descriptor, read ahead by OCaml's `stdin` (which only
`get_cursor_position` uses), put aside by it. The decoder reads `pending_input` first and
then the descriptor, never the channel. `decoder` is the fiber in
`await_input_with_timeout`: which function waits for a byte, what was read for this key,
the paste so far. A response cancels it (`Respond`), or wins in the same turn
(`Return`); a fiber that finds its bytes in `pending_input` does not wait and cannot be
cancelled. A timeout happens only where the code has one, behind `ESC` and `ESC O`, and
only while no byte is there. `ask` is `get_cursor_position`: it runs at the start, after
output, after a new model and after `system()`, and nothing else of the loop runs
meanwhile. Lending the terminal flushes what was not read, twice. A key stands for all
keys of its shape: Enter for Tab, Backspace, Ctrl and the characters of one byte that
neither begin nor end a sequence, Up for the other sequences that end in a letter, Wide for
every multi-byte character. `[` and `O` are keys of their own (`Bracket`, `LetterO`), alone
and with Alt, because they are also the bytes that sequences begin with. Two things a
terminal may send are left out: a key whose sequence is spelled like a report of the cursor
(Shift-F3 as `ESC [ 1 ; 2 R`, which `get_cursor_position` takes for the answer), and the
letters other than `O` as keys (each ends a sequence that Alt-`[` has begun, as `O` does)
with their Alt forms, except Alt-`f`; a byte carries the number of its key and its place in it,
which no action of the program reads. `cut`, `held`, `torn` and `out` are observers.

## Runs

| run | instance | what it shows |
|---|---|---|
| `ring_buffer` | capacity 8; frames empty, short, exactly as large as the ring, and larger; output buffer 4; two drops between resets; one producer, one consumer | representation, refinement of `FrameQueue`, no corrupt exit, drops only for room, and with fairness no call keeps the lock |
| `session` | a ring of 1 frame, 1 output a command, 3 commands, one question to the AI, collisions | the two threads stay in step in every interleaving, also when the ring overflows and responses are thrown away; the bridge implements `SerialExecutor`; whatever is submitted while R works, and whatever Done closes which row, a command's row says "done" only after R has finished it, and output is filed under nothing older than what printed it |
| `session_live` | 2 slots, 1 output a command and 1 of an idle R, 2 commands, one sandboxed caller, fairness | every command, the startup script included, every `system()` call and every quit ends, also when R cannot be started and when event handlers of an idle R print, ask or lend the terminal; the exceptions stated in the properties are the only ones. No request of R's is evicted from two slots either |
| `session_awaited` | 3 slots, 3 commands, fairness | *violated*: see findings |
| `session_runr` | one caller | *violated*: see findings |
| `ai` | 2 queries, 1 reset, 1 message each, a stream of 2, collisions, fairness | suggestions are delivered once whatever overlaps; an unknown conversation is resumed only in the way of finding 3; every query reaches an `Ai_done`, unless it lost a race or the loop sleeps in `reset` |
| `ai_resume` | 2 queries | *violated*: see findings |
| `prompt` | a line of 3 clusters, two of 2 or three of 1; rows of 2, labels of 1 and 3, one query, all responses | every handler keeps the assertions, except during a search or with a dropdown anchored beyond the line; R's question and the readline prompt are there together; Escape after Tabs restores; Up and Down undo each other wherever rows wrap |
| `prompt_asserted` | as `prompt`, responses of R only | *violated*: see findings |
| `tty` | 2 keys of 11 kinds, at most 11 bytes for them, or 3 of one byte each; 2 questions for the cursor, fairness | a cut key damages only itself, the others come out whole and in order; the answer for the cursor is found, whatever is typed around it except a lone ESC or an open sequence; a sequence begun by hand, in one keystroke or two, takes what the exceptions of the two properties say and no more |
| `sandbox` | a machine of 19 directories, 12 files and 5 links; 14 places to start in, on three platforms: inside, at and above `$HOME`, with `$HOME` inside `/tmp`, inside the scratch directory, behind a link, or not set; a pipe of 1 write, 2 writes a run, fairness | code runs only inside the promised limits; a result without a mark is whole; the R thread comes back |
| `history` | 3 rows, 2 of them loaded at a start, 2 sessions, searches of 1 and 2 matches; texts that contain one another, in two modes; failing statements, crashes, other processes | memory and table agree, at most one row is open, what was typed survives a restart, Up and Down undo each other, and a search is complete up to its limit, also when it has to leave one out, without repetition, newest first |

**Why the bounds are enough.** Ring: capacity 8 is the smallest in which two
frames and a wrap inside a header and inside a payload both occur, every
position modulo the capacity is reached, and a frame can exactly fill the ring;
the proofs drop the bounds altogether. Session: every push into a full ring of one frame
evicts (a running command can evict its own `PASSTHROUGH_END`, completions or the next
command a `DONE`), so a request that survives there survives for the reason the code
gives; three commands are the startup
script, one user command and one queued behind it, of either kind; one question to the AI before, between
or behind them takes the open row from any of them. What an idle R does
(`MaxIdle`) is in `session_live`, where output, requests and an answer nobody waits for
meet the next command; the safety of the bridge with any amount of it is proved. Deadlock is not
checked in `Session`: the program may stop, and the bounded number of commands
makes it.

AI: two queries are what overlapping needs, one reset is what a query can outlive,
and a stream of two is the shortest into which `reset` fits at all, so that it
blocks only when something else is there (in the code it has 1024 places).

Prompt: a row of 2 and lines of 0 to 3 clusters give a row that is empty, partly
filled, exactly filled and overfilled; two lines of 2 give every case of joining,
splitting and crossing a line, and Up and Down never look further than the next one; three
of 1 are what an expanded pair of braces (`ExpandBraces`) needs.
A label of 1 is shorter and one of 3 as long as or longer than any
token; a token of up to 3 bytes gives anchors before, on and after the line's
start. Typing stops at the bounds (`Fits`), so deadlock is not checked.

Terminal input: two keys are one that is damaged and one that must not be, on either
side of it; two questions are the one at the start and one in the loop, which also finds what the first
left in the channel. 11 bytes let a paste meet any key of one byte. Three keystrokes of one byte are a
sequence begun with Escape and `[`, and a key it swallows. Delete is left out of the instance, not
of the proof: its sequence has a parameter, as a paste has. The user may stop typing, so deadlock is not checked.

Sandbox: a pipe of one write is full while the child still has one to go, which is
what an abandoned reader and a blocked writer need; the machine has a store below
`$HOME`, a file next to it, and every relation the policy tells apart (at, above, below,
beside `$HOME`; inside a store; inside a system root), a system root, a `$HOME`, a gathered
path and a store that are links, and a link with an innocent name. ABI 0, 1, 2, 3 and 4 are
the cases of `Handled`. Deadlock is not checked: the call ends.

History: three rows are one more than a start loads, two sessions give one restart
with and one without a crash, and the three drafts make one text a part of another, a
repetition and a difference in case. A table, once full, and the last session end a
behaviour.

**Fairness.** `WF` of the worker: R code ends (an evaluation is bounded in the
model; the watchdog bounds a sandboxed one), and nothing blocks the thread but the
gates, where `Worker` is disabled. `WF` of the backend fiber, of the daemon of
`create` and of response handling: Eio polls every runnable fiber and
`await_response` sleeps 10 ms at most. `WF` of `Join` and `Leave`, and of a
caller's return from a condition wait. Nothing is assumed of the user: no key ever
has to be pressed. Start-up: the systhread in `rffi_start` runs. Sandbox: the R thread runs, time passes,
and a child that has closed the pipe does nothing but exit; nothing is assumed of the
evaluated code, and no signal comes to the rescue (`Interrupted` and `DrainFails` are
outside the fairness). Terminal input: the terminal answers a question, its bytes arrive, and `get_cursor_position`, which
holds the main thread, goes on when there is a byte. AI: fibers run when they can, `claude` comes to an end, and the
waiters of a stream are served in turn (strong fairness of the adds). `LockIsReleased` needs only that a thread inside a call keeps
running. The liveness run has no collisions: with them a Done may be lost, and
`BusyInStep`, `NobodyWaitsUnasked` and `GatesInStep` (run `session`) say what that
does and does not break.

## Findings

1. **A resize during a command swallows its Done** (`ffi_backend.ml:265`, run
   `session_awaited`). `background_submit` queues `options(width=...)` behind the
   command; when its DONE comes, `handle_done` starts the background command, so
   `busy` is true and Done is not returned; the background command's own DONE is
   hidden because it was suppressed. The prompt stays in the waiting state and the
   row stays "running" until the next command or Ctrl-C, which then marks a
   finished command as interrupted.
2. **A sandboxed call outlives the worker** (`load_r.c:1215`, run `session_runr`).
   Shutdown does not answer a request that is in the mailbox: the caller waits for
   ever, and with it the exit of the process. `QuitEnds` shows that this and the two
   gates are the only ways for a quit to hang.
3. **A query that outlives `/new` spoils the new conversation**
   (`ai_backend.ml:221`, run `ai_resume`). `started` is set for whatever session is
   current when a run ends; the first query of the new session is then sent with
   `--resume` and an id `claude` does not know, and so is every later one.
   `ResumeIsSafe` shows that it happens in no other way.
4. **A Done during a history search ends the program** (`update.ml:226`, run
   `prompt_asserted`). The cursor counts in the query, and the mode is set to
   Normal under it. The same happens when R asks for a line.
The passing properties are stated around a few more, which have no run of their
own:

- Tab, Enter, Tab ends the program (`normal_mode.ml:41`) if Enter continues the
  command: the dropdown's anchor is still that of the line above.
  `FailsOnlyExposed` shows that a search and a dropdown anchored beyond its line are
  the only situations in which a step fails an assertion.
- `RLIMIT_CPU` is set with its soft limit equal to the hard one (`load_r.c:911`). Linux
  looks at the hard limit first and sends SIGKILL, so the "CPU limit" note that is kept
  for SIGXCPU (`load_r.c:910` says "dies with SIGXCPU") is given on macOS only.
  `UnmarkedIsWhole` holds all the same: the result is marked as killed.
- `waitpid` is called once (`load_r.c:995`); the SIGWINCH handler of
  `terminal_session.ml:98` can interrupt it. The child is then not reaped, although
  `load_r.c:1206` says it is, and the note is missing. An error of `poll` or `read`
  leaves the loop without killing the child: the exceptions of `UnmarkedIsWhole` and
  `WorkerComesBack`.
- The child ignores what `write` returns (`load_r.c:720`, `854`). SIGWINCH reaches the whole
  foreground group and its handler asks for no restart, so a resize while the pipe is full
  interrupts the child's write: output is missing from the middle of a result that has no
  mark. `UnmarkedIsWhole` says that nothing else can be missing, and nothing is out of
  order. A child that leaves by `quit(status = 98)` looks like one that was refused, but the
  parent never looks at the exit status.
- An old kernel does not confine truncation (`sandbox_linux.c:204`). Landlock knows TRUNCATE from
  ABI 3 on; before that it is taken out of the handled rights, so evaluated code can empty any
  file the user may write, although `sandbox_linux.h:9` says that writes are confined to the
  scratch directory and `/dev/null`. `Ungoverned` in `CodeIsConfined` names it, and the property
  says that this is the only write that escapes.
- When the session works inside a credential store, that path is gathered and granted
  on Linux, with what lies below it; on macOS the last rule denies it. A `$HOME` inside the
  scratch directory is granted with all of it (`sandbox_linux.c` gives the scratch directory
  every right and has no rule that takes one away); this case was found by the proof.
- Links: `grant_path` opens through them (`sandbox_linux.c:102`). A link in `$HOME` with an
  innocent name opens what it leads to, a store included; a store that is itself a link is
  as readable as the place it leads to. The macOS profile compares the text of `$HOME` with
  real paths, so under a `$HOME` given by a link its rules for the stores mean nothing.
  `OpenTo` lists these cases and the two before; `CodeIsConfined` shows that there are no
  others.
- `pthread_create` is not checked (`load_r.c:1174`), and quitting before the thread exists
  joins an undefined one (`load_r.c:1256`): `ThreadMissing` and `crashed`.
- Ctrl-C does not reset the place in history: the next Up continues from there, and a
  draft typed in between is not saved. An Up that finds nothing moves the place past the
  oldest entry, so that the next Down searches for what is on the screen.
  `DownUndoesUp` is about an Up that found something.
- A row that a crash leaves "running" stays so (`history.ml:257`); `OneRowIsOpen` says
  there is at most one per session, its last. The row of an AI query is closed as
  "interrupted" by the next command or by the end of the program, or as "done" by a Done of R, because
  Ai_done ends no row (`history.ml:312`).
- A response that arrives between two bytes of a key cancels the read
  (`main.ml:156`), and the rest is decoded as other keys: of an arrow, `[` and `A`; of a
  paste, its remaining text as if typed, newlines as Enter. `TypedIsDecoded` shows that
  the next key is whole again. An Escape and a key behind it within the timeout, or both
  put aside in `pending_input`, are one unknown key.
- Alt-`[`, or Escape and then `[`, begins a control sequence for which there is no timeout
  (`tty_listener.ml:107`): it swallows the keys behind it, up to the first byte that is a
  letter or `~`, and they are lost. Alt-`O` takes the next byte if it comes in time. If the
  question for the cursor meets such a sequence, the ESC of the answer is taken for a
  parameter (`terminal_session.ml:48`), the answer is not recognised, and the event loop
  waits for good.
- An Escape typed directly before the terminal's answer for the cursor hides the answer
  (`terminal_session.ml:54`: ESC ESC is put aside, and the rest is not recognised);
  `get_cursor_position` then blocks the event loop for good. What arrives behind the
  answer in the same `read` stays in OCaml's channel, which the decoder never looks at: it is
  handed on at the next question, after keys typed later; if it ends inside a key, the next
  answer can be hidden too. These are the exceptions of the two properties; without any
  one of them TLC finds the case. `terminal_session.ml:32` describes `pending_input` as filled "during
  init (before Eio)", but `output_renderer.ml:134` asks after every output.
- A paste with ESC directly before its end marker does not end
  (`tty_listener.ml:100`: the second ESC is taken as text, not as a new start); what is typed is
  added to it until another paste ends. Terminals usually filter ESC from pastes; the
  model's paste has an ESC elsewhere in its text.
- Enter is accepted while R works, and the new history row becomes the active one at
  once: the rest of the earlier command's output is filed under it
  (`history.ml:250`). A question to the AI does the same (`ai_mode.ml:16`; the `:` prompt
  has no test of `awaiting_response`, `normal_mode.ml:68`), and R's Done then closes the
  question's row as "done" (`history.ml:313`), although R never ran it and the AI may still
  be answering. `LogIsHonest` says what holds all the same: no *command* is said to be done
  before R has finished it, and no output goes to something older than what printed it.
- The prompt may wait for nothing, in more ways than finding 1: the answer to a question
  that came while R had no command (from a profile or an event handler) sets
  `awaiting_response`, and no Done follows; a Done may lose the race in `Fiber.any`
  (`main.ml:156`). Ctrl-C or the next command ends such a wait.
- Two quick first AI queries are both sent with `--session-id` (`ai_backend.ml:204`):
  `started` is set when a run ends.
- `/new` adds to the bounded stream from the only fiber that takes
  (`ai_backend.ml:232`): with the stream full the loop sleeps for good, the
  exception `ui # "loop"` of `QueryEnds`.
- `Ai_done` places code under an open history search (`update.ml:262`), although
  `history_search.ml:5` says the lines stay blank; part of `Exposed`.
- A completion anchored before the start of the line (`update.ml:293` counts bytes,
  from the cursor of the moment the answer arrives) makes Tab save an empty token:
  Escape then loses what was typed. `RevertRestores` says that Escape restores in
  every other case.

## Proofs

`RingBufferProofs` assumes only `ConstantsAssumption` (a capacity that `rb_init`
accepts, disjoint sets of threads, frames that are frames) and proves, for every
capacity, frame set, output buffer and number of producers and consumers:

| theorem | property | says |
|---|---|---|
| `TypeCorrect` | `TypeOK` | positions, counters and cells stay in range; `used` never passes the capacity |
| `LayoutHolds` | `Layout` | the bytes are the frames |
| `NeverHappens` | `ShouldntHappen` | the two impossible exits are impossible |
| `Refinement` | `ImplementsFrameQueue` | the bytes implement the lossy FIFO |
| `DropsAreForRoom` | `DropsOnlyForRoom` | a drop is the oldest frame, for a frame that does not fit, and is counted |

The inductive invariant is `IInv == TypeOK /\ Layout`. `TypeOK` alone is not
inductive: that `used` stays within the capacity, and even that a peeked length
is one, depends on what the cells hold. `Layout` says that the stored frames
(`queue`, `bounds`) tile the cells from `tail` on (`Tiling`), that each is there
cell by cell (`Contents`), that one thread at a time is inside a call (`Mutex`),
and how far that thread has come (`InFlight`: a header without its payload at the
new end, a payload without its header at the old end, counted by `Written` and
`Consumed`). The argument rests on a few lemmas: positions take at most one turn
modulo the capacity (`WrapIsOneTurn`, `WrapTwice`, `WrapInjective`); `ring_write`
and `ring_peek` work across the end of the array (`RingWriteCells`,
`RingPeekCells`); writing at the head leaves the stored cells alone
(`WriteAtHead`); the header at the tail is that of the oldest frame
(`OldestHeader`), so dropping it shifts the tiling (`OldestGone`). Then one lemma
per action. `Refinement` adds `ArgIsClipped`: a frame being pushed is one of the
callers' frames as `Clip` stores it.

`SessionProofs` assumes `WorkerAssumption` and `SessionAssumption` (a ring with room for
a frame, bounds that are numbers) and proves, for every ring size, number of commands,
outputs and calls, with and without collisions:

| theorem | property | says |
|---|---|---|
| `SessionTypes` | `TypeOK` | mailboxes, gates, ring, backend and log keep their types |
| `BusyIsInStep` | `BusyInStep` | at most one evaluation is out and `busy` knows of it |
| `RequestsAreKept` | `RingKeepsRequests` | the ring gives up no request R waits on, and a DONE only to idle output |
| `UserOutputIsShown` | `OnlyBackgroundHidden` | nothing of a user's command is hidden |
| `DoneIsTheLast` | `DoneMeansIdle` | a Done that is reported means that R has nothing to do |
| `GatesAreInStep` | `GatesInStep` | a gate is open only for an R that waits at it |
| `EveryWaitIsAsked` | `NobodyWaitsUnasked` | R spins only after the UI was asked |
| `InterruptsHitTheirTarget` | `InterruptsAreFresh` | a pending interrupt was meant for what it hits |
| `LogStaysHonest` | `LogIsHonest` | no command is logged as done too early, no output is filed under something older than its command |
| `SessionImplementsExecutor` | `ImplementsExecutor` | commands run once, in order, one at a time |

None of these is inductive: each depends on which frames can be between the worker's push
and the loop's pop. `SessionInv` says so, one named part per matter. `LifeInv`: where R is
in its life and when it has a command. `OrderInv`: behind a DONE there is only idle
output, and nothing is behind a frame R waits for an answer to, which is why eviction of
the oldest frame cannot take a request. `EvalInv`: a command is in the mailbox, in
evaluation or done with its DONE on the way, never two of these, and then `busy`.
`HiddenInv`: `suppressing` means that no user's command is in any of these places, and
showing with an empty queue that no background command is. `ResponseInv`, `ReadlineInv`,
`PassthroughInv`: where a Done, a question and a lent terminal can be. `NumberInv`:
finished, evaluated, mailed and queued commands have increasing numbers, which is what the
refinement's "in order" rests on. `LogInv` and `InterruptInv` tie the open row (a
command's, or that of a question asked after so many commands) and
the aim of an interrupt to the command being evaluated. One lemma per
action and part; the refinement maps the mailbox and the queue to the executor's queue.

`SandboxProofs` assumes `PolicyAssumption` and `SandboxAssumption` (`$HOME` and the
gathered paths are, or lead to, directories) and proves, for every tree of paths, set of links, place to start in,
platform, ABI, pipe size and amount of output:

| theorem | property | says |
|---|---|---|
| `CodeStaysConfined` | `CodeIsConfined` | code reads no store, writes only scratch and `/dev/null`, starts nothing, opens no socket; but for `OpenTo` and `Ungoverned` |
| `DataStaysReadable` | `DataIsReadable` | what is below a gathered path, or where it leads, can be read |
| `ResultIsWhole` | `UnmarkedIsWhole` | a result without a mark is all that was printed, less the interrupted writes |

The first two rest on lemmas about the policy alone (a rule that covers what is in a store comes
from inside it, from the scratch directory or through a link; a file below a gathered path is below a rule or
beside the stores), and on `ConfinedInv`: a child that evaluates has applied all of its
platform's steps. The third needs `PipeInv` (read, in the pipe and interrupted are together what
was printed as long as the pipe is read, and an end of file means that no writer is left),
`SpeechInv` (a child writes once it is confined, or to refuse) and `MarkInv` (a signal
leaves a mark).

`AiBackendProofs` assumes `AiAssumption` and proves, for every number of queries and
resets, stream size and number of suggestions:

| theorem | property | says |
|---|---|---|
| `ResumesAreSafe` | `ResumeIsSafe` | only a query that outlives `/new` leads to a resume of an unknown session |
| `NoSuggestionIsLost` | `SuggestionsArrive` | a suggestion is in one place, exactly once, and in the prompt or given up after its `Ai_done` |

`AiInv` adds to them `StartedIsSafe` (what `started` stands for), `OnlyOnce` and `Numbered`
(a suggestion is not in two places, nor twice in one, and the next one is new), `Kept` (it is somewhere), `NotOver`
(a query that runs has sent no `Ai_done`), `DoneIsBehind` (an `Ai_done` is
behind its query's suggestions in the stream) and `ToldIsPlaced`.

`HistoryProofs` assumes `HistoryAssumption` and proves, for every set of texts, number of
rows, of sessions, of loaded entries and of matches:

| theorem | property | says |
|---|---|---|
| `HistoryTypes` | `TypeOK` | the recall position and the table keep their types |
| `OneRowStaysOpen` | `OneRowIsOpen` | a session has at most one running row, its last |
| `MemoryStaysTable` | `MemoryIsTable` | the newest entries in memory are the session's rows |
| `RecallIsUndone` | `DownUndoesUp` | Down undoes an Up that found something |
| `SearchesAreExact` | `SearchIsExact` | a search is complete, without repetition, newest first |
| `RecallSurvives` | `RecallSurvivesRestart` | a restart loses nothing but the oldest |

`HistoryInv` adds `SessionsArePast` (no row is of a session to come), `AtAStop` (recall
stands at an entry that its needle stops at, or at an end), `UnsavedIsTheEnd` (a row that
could not be written ends the session) and `HasRows` (the entries in memory are rows of the table, in order, wherever
other processes have put theirs). `SearchIsExact` is about a recursive function. The
library's induction theorems cannot be used, but a set of numbers has a least element
(`LeastNumber`, from the well-founded order on the naturals), so `SetInduction` is stated
over a set instead of a predicate, and `SearchedTo` is carried along the recursion with it.

`TextEditorProofs` assumes nothing and `PromptProofs` `PromptAssumption` (entries of the
history have a line at least and one of the three modes that are submitted from,
`history_mode_string`; a terminal has a column; lengths are numbers). They prove, whatever
the sizes of texts, histories, labels and answers:

| theorem | property | says |
|---|---|---|
| `QuestionStays` | `QuestionIsOnScreen` | R waits for an answer exactly while the prompt takes one |
| `PromptTypes` | `TypeOK` | no cursor or length gets negative, no text is without a line |
| `AssertionsHold` | `FailsOnlyExposed` | every handler keeps `assert_model_invariants`, but where `Exposed` says so |
| `EscapeRestores` | `RevertRestores` | Escape undoes any number of Tabs |
| `UpDownUndone` | `UpUndoesDown` | Up and Down undo each other at every width |

For the first the inductive invariant is `Waiting`, the property with the types of the mode, the
queries and the question it speaks of. For the others it is `PromptInv`,
`TypeOK` with `DropdownInv`. The two need each other: that Escape leaves a text
depends on the dropdown it reverts, and what the dropdown reverts to on the text it was
entered in. `DropdownInv` says that a dropdown that was tabbed into is one (`explicit`
implies a kind; otherwise Escape would apply the anchor of a closed one), and `Reverting`:
as long as only Tabs were pressed, the text is the one before the first Tab with the last
label in the token's place. The assertions themselves are not part of the
invariant, because they do fail; `Next` asks for them, as `update` does, and
`StepKeepsText` has one lemma per group of keys and responses. Each rests on a lemma
of `TextEditorProofs` about an operator: every edit and every motion takes `Inside` to
`Inside`; `replace_range` does if it starts on the line; a second label replaces a first
(`ReplaceTwice`), and the token's own length puts it back (`ReplaceBack`). `DownAfterUp`
and `UpAfterDown` are arithmetic of rows (`Rows`, `OnTheRow`, `LastRow`).

`TtyInputProofs` assumes `TtyAssumption` (the keys typed are some of those `Sent`
lists) and proves, for every number of keys, bytes and questions for the cursor:

| theorem | property | says |
|---|---|---|
| `KeysAreDecoded` | `TypedIsDecoded`, as long as `NothingOpened` | until Alt-`[` or Alt-`O` is typed, in one keystroke or two, a key that nothing has touched is decoded as what it means, whole, once and in order |

What comes behind a sequence begun by hand is left to TLC (`tty`): its end
may be any later key, and the ranks below no longer say which bytes are read together.

The property speaks of what came out; what makes it true is where every byte is before.
`IInv` is `Core` as long as `NothingOpened`. `Core` says, as long as the channel was not left
inside a key (`~torn`, which the property asks for too):

- `Ordered`: a byte has a rank, by its key and its place in it, the report behind the last
  key typed before it (`Rank`); what was put aside, collected, read ahead, has arrived and
  is on the wire are sorted, and in that order.
- `Kept` and `Gone`: a key has bytes left, or has come out, or was cut; of a clean key that
  came out, none are left.
- no byte is missing. `AskSets`, for a question, and `ReadSets`, for the decoder, say that
  with a byte the next one of its key is there (`Up`) and the one before it (`Down`, unless
  the key is cut or the Escape before it took its first byte), and behind an Escape the
  next key (`Link`). So the least byte that is left is the one behind what has been read
  (`NextRead`, `NextAsked`).
- `DecoderOK` and `AskerOK`: what the decoder and `get_cursor_position` have read is bytes
  m to n of one key, and kind, m and n go with the state they are in, as two tables say
  (`Decodes`, `AskTable`). `DecodeOn` and `AskRow` go through the tables: the next byte
  of the key leads to another row, or to the key's meaning. A key can be read from the
  middle only if it was cut, or follows an Escape.
- `PairSets`: `get_cursor_position` reads an Escape and the first byte of the next key
  together, and so does the decoder; both must pair the same ones. In `pending_input`
  an Escape begins a pair with the byte behind it or ends the pair of the Escape before it.
  Without this a run of Escapes, put aside and then decoded, could be paired
  differently, and the key behind it would not be clean.
- `NoReport`: bytes of the report are only where a question can still find them; or else
  `Stuck`: an Escape has taken the report's first byte, all of the report ends up
  in `pending_input`, and the question never ends, so that the decoder never reads it (the
  exception that `CursorReportIsSeen` names).

TLC checked `IInv` on small instances before it was proved. `NextInv` has one lemma per
action; those about sets of bytes (`TakeSets`, `DropSets`, `FlushSets`, `PutAsideSets`,
`FoundSets`) are stated for any sets, with no variable in them.

**Only model-checked:** liveness (`LockIsReleased`, `EveryCommandEnds`,
`PassthroughEnds`, `QuitEnds`, `WorkerComesBack`, `QueryEnds`,
`CursorReportIsSeen`), which is out of the prover's reach. Every safety property
of the passing runs is stated by a theorem, `TypedIsDecoded` under the condition above.
`TypeOK` of `AiBackend` and of `Sandbox` says what the variables hold; it is part of the
inductive invariants above.

## Not modelled

libR, Eio, SQLite, the kernel and `claude` are external. In the R session:
crash logging, the column-completion mailbox (nothing in the program fills it), the
wording of output and errors, an empty Enter (an empty program is evaluated and no
row is written), `rb_init` racing the first polls and `rb_deinit`, and the payload of
images. In the sandbox: links to links, what the child does to its copy of R's memory, and
system calls other than those the filter looks at. In history: the queries of the
MCP tools, which only read. In the terminal input: the end of the input (a
hang-up also sends SIGHUP, which ends the program), and that a paste made while the terminal is lent comes without its markers. In the prompt: wide
clusters and clusters that join across an edit (part 9), scrolling (part 10). The
rest of the components are those of the plan, and the ones that are pure formatting
or file I/O are listed as such in `PROJECT.json`.
