----------------------------- MODULE AiBackend -----------------------------
(***************************************************************************)
(* lib/ai_backend.ml: one `claude` subprocess per query, each read by a    *)
(* fiber of its own, all of them feeding one bounded stream that the event *)
(* loop takes from; the suggest_code tool of lib/mcp_server.ml feeds the   *)
(* same stream, and lib/update.ml stashes what it delivers until the       *)
(* answer is complete.                                                     *)
(*                                                                         *)
(* All fibers share the UI thread: a step runs until an add finds the      *)
(* stream full, a take finds it empty, or the process has nothing to read. *)
(* claude is external: a run says at most MaxSay things, code suggested    *)
(* included, and ends well or badly at any time; it ends badly if it is    *)
(* told to create a session that exists, or to resume one that does not.   *)
(***************************************************************************)
EXTENDS Integers, Sequences

CONSTANTS MaxQuery,   \* queries the user sends
          MaxReset,   \* times the user types /new
          MaxSay,     \* messages and suggestions of one run of claude
          StreamCap,  \* Eio.Stream.create 1024
          Collisions  \* Fiber.any may throw a taken chunk away

ASSUME AiAssumption ==
  /\ MaxQuery \in Nat \ {0}
  /\ MaxReset \in Nat
  /\ MaxSay \in Nat
  /\ StreamCap \in Nat \ {0}
  /\ Collisions \in BOOLEAN

VARIABLES session_id, \* !session_id: how many random ids came before it
          started,    \* !started
          run,        \* run[q]: the fiber of query q and the flags it passed
          said,       \* said[q]: what claude has said so far
          calling,    \* queries whose suggest_code call is not answered
          chunks,     \* the stream
          nq,         \* queries submitted so far
          ui,         \* the main fiber: in its loop, or adding from reset
          pending_suggestion, \* model.repl.pending_suggestion
          placed,     \* suggestions dropped into the prompt, in order
          created,    \* external: sessions claude knows
          answered,   \* observer: suggestions whose call was answered
          given_up,   \* observer: suggestions, ends thrown away: cancel, lost race
          told,       \* observer: queries whose Ai_done was handled
          marked      \* observer: sessions marked live by a query of another

vars == <<session_id, started, run, said, calling, chunks, nq, ui,
          pending_suggestion, placed, created, answered, given_up, told,
          marked>>

observers == <<answered, given_up, told, marked>>

Query == 1..MaxQuery
Session == 0..MaxReset

(* A chunk, the query it comes from (0 for reset), and, of a suggestion,    *)
(* which.                                                                   *)
Chunk(kind, q, n) == [kind |-> kind, query |-> q, nth |-> n]
ChunkType == [kind : {"Ai_output", "Ai_suggestion", "Ai_done"},
              query : Query \cup {0}, nth : 0..MaxSay]

TypeOK ==
  /\ session_id \in Session
  /\ started \in BOOLEAN
  /\ run \in [Query -> [pc : {"unsent", "running", "failing", "ending", "over"},
                        flag : {"--session-id", "--resume"}, id : Session]]
  /\ said \in [Query -> 0..MaxSay]
  /\ calling \subseteq Query
  /\ chunks \in Seq(ChunkType) /\ Len(chunks) <= StreamCap
  /\ nq \in 0..MaxQuery
  /\ ui \in {"loop", "notice", "done"}
  /\ pending_suggestion \in Seq(ChunkType)
  /\ placed \in Seq(ChunkType)
  /\ created \subseteq Session
  /\ answered \subseteq ChunkType
  /\ given_up \subseteq ChunkType
  /\ told \subseteq Query \cup {0}
  /\ marked \subseteq Session

Init ==
  /\ session_id = 0
  /\ started = FALSE
  /\ run = [q \in Query |-> [pc |-> "unsent", flag |-> "--session-id", id |-> 0]]
  /\ said = [q \in Query |-> 0]
  /\ calling = {}
  /\ chunks = <<>>
  /\ nq = 0
  /\ ui = "loop"
  /\ pending_suggestion = <<>>
  /\ placed = <<>>
  /\ created = {}
  /\ answered = {}
  /\ given_up = {}
  /\ told = {}
  /\ marked = {}

(* Eio.Stream.add: sleeps while the stream is full. *)
add(c) ==
  /\ Len(chunks) < StreamCap
  /\ chunks' = Append(chunks, c)

Goto(q, pc) == run' = [run EXCEPT ![q].pc = pc]

-----------------------------------------------------------------------------
(* The user *)

session_flag == IF started THEN "--resume" ELSE "--session-id"

(* Enter in AI mode: the flags are chosen now, the fiber is forked. *)
SubmitAiQuery ==
  /\ ui = "loop"
  /\ nq < MaxQuery
  /\ nq' = nq + 1
  /\ run' = [run EXCEPT ![nq + 1] =
               [pc |-> "running", flag |-> session_flag, id |-> session_id]]
  /\ UNCHANGED <<session_id, started, said, calling, chunks, ui,
                 pending_suggestion, placed, created, observers>>

(* /new, /reset or /clear: a new id, then two adds by the fiber that takes. *)
ResetAiSession ==
  /\ ui = "loop"
  /\ session_id < MaxReset
  /\ session_id' = session_id + 1
  /\ started' = FALSE
  /\ ui' = "notice"
  /\ UNCHANGED <<run, said, calling, chunks, nq, pending_suggestion, placed,
                 created, observers>>

ResetAdds ==
  /\ \/ ui = "notice" /\ add(Chunk("Ai_output", 0, 0)) /\ ui' = "done"
     \/ ui = "done" /\ add(Chunk("Ai_done", 0, 0)) /\ ui' = "loop"
  /\ UNCHANGED <<session_id, started, run, said, calling, nq,
                 pending_suggestion, placed, created, observers>>

(* The suggestions among the chunks s. *)
Suggestions(s) ==
  {s[i] : i \in {j \in DOMAIN s : s[j].kind = "Ai_suggestion"}}

(* Ctrl-C while something is awaited (an R command too, so awaiting_response *)
(* is not a guard here): the loop goes on with a fresh model, the stash       *)
(* included; claude is not told.                                              *)
Cancel ==
  /\ ui = "loop"
  /\ pending_suggestion' = <<>>
  /\ given_up' = given_up \cup Suggestions(pending_suggestion)
  /\ UNCHANGED <<session_id, started, run, said, calling, chunks, nq, ui,
                 placed, created, answered, told, marked>>

-----------------------------------------------------------------------------
(* run_claude and the rest of the fiber *)

(* handle_line: an answer or a tool call to show. *)
Say(q) ==
  /\ run[q].pc = "running"
  /\ q \notin calling
  /\ said[q] < MaxSay
  /\ add(Chunk("Ai_output", q, 0))
  /\ said' = [said EXCEPT ![q] = @ + 1]
  /\ UNCHANGED <<session_id, started, run, calling, nq, ui,
                 pending_suggestion, placed, created, observers>>

(* claude calls suggest_code ... *)
CallSuggest(q) ==
  /\ run[q].pc = "running"
  /\ q \notin calling
  /\ said[q] < MaxSay
  /\ calling' = calling \cup {q}
  /\ said' = [said EXCEPT ![q] = @ + 1]
  /\ UNCHANGED <<session_id, started, run, chunks, nq, ui,
                 pending_suggestion, placed, created, observers>>

(* ... and on_suggestion puts the code into the stream before the answer, *)
(* whether or not somebody still waits for that.                          *)
AnswerSuggest(q) ==
  /\ q \in calling
  /\ add(Chunk("Ai_suggestion", q, said[q]))
  /\ calling' = calling \ {q}
  /\ answered' = IF run[q].pc = "running"
                 THEN answered \cup {Chunk("Ai_suggestion", q, said[q])}
                 ELSE answered
  /\ UNCHANGED <<session_id, started, run, said, nq, ui,
                 pending_suggestion, placed, created, given_up, told, marked>>

(* claude accepts the flags of q. *)
Acceptable(q) == run[q].flag = "--resume" <=> run[q].id \in created

(* The process exited with 0: the conversation is marked live. *)
ExitOk(q) ==
  /\ run[q].pc = "running"
  /\ q \notin calling
  /\ Acceptable(q)
  /\ created' = created \cup {run[q].id}
  /\ started' = TRUE
  /\ marked' = IF run[q].id = session_id THEN marked
               ELSE marked \cup {session_id}
  /\ Goto(q, "ending")
  /\ UNCHANGED <<session_id, said, calling, chunks, nq, ui,
                 pending_suggestion, placed, answered, given_up, told>>

(* A run that fails may have created its conversation before it failed. *)
MayCreate(q) ==
  \/ created' = created
  \/ Acceptable(q) /\ created' = created \cup {run[q].id}

(* Variant: a failed run also marks the conversation live. *)
ExitBadMarks(q) ==
  /\ run[q].pc = "running"
  /\ started' = TRUE
  /\ MayCreate(q)
  /\ Goto(q, "failing")
  /\ UNCHANGED <<session_id, said, calling, chunks, nq, ui,
                 pending_suggestion, placed, observers>>

(* It exited otherwise, was killed, or could not be started at all. *)
ExitBad(q) ==
  /\ run[q].pc = "running"
  /\ MayCreate(q)
  /\ Goto(q, "failing")
  /\ UNCHANGED <<session_id, started, said, calling, chunks, nq, ui,
                 pending_suggestion, placed, observers>>

(* Variant: the error is shown and nothing more. *)
AddErrorOnly(q) ==
  /\ run[q].pc = "failing"
  /\ add(Chunk("Ai_output", q, 0))
  /\ Goto(q, "over")
  /\ UNCHANGED <<session_id, started, said, calling, nq, ui,
                 pending_suggestion, placed, created, observers>>

AddError(q) ==
  /\ run[q].pc = "failing"
  /\ add(Chunk("Ai_output", q, 0))
  /\ Goto(q, "ending")
  /\ UNCHANGED <<session_id, started, said, calling, nq, ui,
                 pending_suggestion, placed, created, observers>>

AddDone(q) ==
  /\ run[q].pc = "ending"
  /\ add(Chunk("Ai_done", q, 0))
  /\ Goto(q, "over")
  /\ UNCHANGED <<session_id, started, said, calling, nq, ui,
                 pending_suggestion, placed, created, observers>>

Fiber(q) == Say(q) \/ CallSuggest(q) \/ ExitOk(q) \/ ExitBad(q)
              \/ AddError(q) \/ AddDone(q)

-----------------------------------------------------------------------------
(* The event loop *)

(* Variant: a second suggestion replaces the first. *)
stash_last(c) == <<c>>

(* Suggestions of one turn accumulate. *)
stash(c) == Append(pending_suggestion, c)

(* process_response: code is stashed, and placed when the answer is over. *)
process_response(c) ==
  /\ \/ /\ c.kind = "Ai_output"
        /\ UNCHANGED <<pending_suggestion, placed, told>>
     \/ /\ c.kind = "Ai_suggestion"
        /\ pending_suggestion' = stash(c)
        /\ UNCHANGED <<placed, told>>
     \/ /\ c.kind = "Ai_done"
        /\ placed' = placed \o pending_suggestion
        /\ pending_suggestion' = <<>>
        /\ told' = told \cup {c.query}
  /\ UNCHANGED given_up

(* Text to show: which of it is shown is not followed here. *)
Shown == [kind : {"Ai_output"}, query : Query \cup {0}, nth : {0}]

(* Fiber.any: another fiber of the race was done at the same time, and what *)
(* this one took is gone.                                                   *)
LoseRace(c) ==
  /\ Collisions
  /\ given_up' = given_up \cup ({c} \ Shown)
  /\ UNCHANGED <<pending_suggestion, placed, told>>

await_response ==
  /\ ui = "loop"
  /\ chunks # <<>>
  /\ chunks' = Tail(chunks)
  /\ process_response(Head(chunks)) \/ LoseRace(Head(chunks))
  /\ UNCHANGED <<session_id, started, run, said, calling, nq, ui, created,
                 answered, marked>>

Next ==
  \/ SubmitAiQuery \/ ResetAiSession \/ ResetAdds \/ Cancel
  \/ await_response
  \/ \E q \in Query : Fiber(q) \/ AnswerSuggest(q)

Spec == Init /\ [][Next]_vars

(* Fibers run when they can, and claude comes to an end.  Nothing is        *)
(* assumed of the user.                                                     *)
Fairness ==
  /\ WF_vars(ResetAdds)
  /\ WF_vars(await_response)
  /\ \A q \in Query : WF_vars(Fiber(q)) /\ SF_vars(AnswerSuggest(q))
                        /\ SF_vars(AddError(q) \/ AddDone(q))

FairSpec == Spec /\ Fairness

-----------------------------------------------------------------------------
(* Properties *)

(* Every suggestion whose suggest_code call was answered is, exactly once,  *)
(* in the stream, in the stash, in the prompt or thrown away by a cancel or *)
(* a lost race; and it is in one of the last two once the Ai_done of its    *)
(* query was handled (pending_suggestion in update.ml and the stream it     *)
(* shares with run_claude's fibers): no interleaving of queries loses code. *)
SuggestionsArrive ==
  LET everywhere == chunks \o pending_suggestion \o placed
  IN  /\ \A i, j \in DOMAIN everywhere :
           i # j /\ everywhere[i].kind = "Ai_suggestion" =>
             everywhere[i] # everywhere[j]
      /\ answered \subseteq Suggestions(everywhere) \cup given_up
      /\ \A c \in answered :
           c.query \in told => c \in Suggestions(placed) \cup given_up

(* A conversation that claude does not know is resumed only if it was begun *)
(* by /new while a query of an earlier one was running and that query went  *)
(* well: started of ai_backend.ml is wrong in no other way, however queries *)
(* overlap and fail.                                                        *)
ResumeIsSafe ==
  \A q \in Query :
    run[q].flag = "--resume" => run[q].id \in created \cup marked

(* Every query is brought to an end the event loop sees, whatever claude    *)
(* does, unless the loop itself sleeps in reset or the Ai_done lost a race: *)
(* run_claude's errors and exceptions all lead to an Ai_done.               *)
QueryEnds ==
  \A q \in Query :
    run[q].pc = "running" ~> \/ q \in told
                             \/ Chunk("Ai_done", q, 0) \in given_up
                             \/ ui # "loop"

-----------------------------------------------------------------------------
(* What the code says of itself and does not do. *)

(* A session is marked live only when it was created, "so a failed first    *)
(* query retries with --session-id instead of --resume against a session    *)
(* that was never created" (submit in ai_backend.ml).                       *)
ResumeOnlyCreated ==
  \A q \in Query : run[q].flag = "--resume" => run[q].id \in created

=============================================================================
