--------------------------- MODULE SerialExecutor ---------------------------
(***************************************************************************)
(* What the bridge to R promises whoever submits commands: every accepted  *)
(* command is evaluated, once, one at a time and in the order of           *)
(* submission.  Session implements it with two threads, a queue, a         *)
(* one-slot mailbox that is overwritten without looking, and completion    *)
(* messages that travel through a lossy ring.                              *)
(***************************************************************************)
EXTENDS Integers, Sequences

VARIABLES accepted,  \* number of commands accepted so far
          todo,      \* commands accepted and not begun, oldest first
          running,   \* the command being evaluated, 0 if none
          done       \* commands that were evaluated

seVars == <<accepted, todo, running, done>>

SEInit ==
  /\ accepted = Len(todo)
  /\ \A i \in DOMAIN todo : todo[i] = -i
  /\ running = 0
  /\ done = {}

(* Commands are numbered as they come, background ones with a minus sign. *)
Accept ==
  /\ accepted' = accepted + 1
  /\ \/ todo' = Append(todo, accepted + 1)
     \/ todo' = Append(todo, -(accepted + 1))
  /\ UNCHANGED <<running, done>>

Begin ==
  /\ running = 0
  /\ todo # <<>>
  /\ running' = Head(todo)
  /\ todo' = Tail(todo)
  /\ UNCHANGED <<accepted, done>>

End ==
  /\ running # 0
  /\ running \notin done
  /\ done' = done \cup {running}
  /\ running' = 0
  /\ UNCHANGED <<accepted, todo>>

SENext == Accept \/ Begin \/ End

SESpec == SEInit /\ [][SENext]_seVars

=============================================================================
