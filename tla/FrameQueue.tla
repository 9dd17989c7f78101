------------------------------ MODULE FrameQueue ------------------------------
(***************************************************************************)
(* What the byte ring of c_ffi/ring_buffer.c promises to its callers: a    *)
(* FIFO of whole frames that may lose frames from its old end, and only    *)
(* from there.  Nothing in this module knows about bytes, positions,       *)
(* wrap-around or locks; RingBuffer is the implementation.                 *)
(***************************************************************************)
EXTENDS Integers, Sequences

CONSTANTS Thread,      \* the threads that call the ring
          Frame,       \* the frames that are ever pushed
          MaxPayload,  \* the longest payload one frame can be stored with
          OutCap       \* out_cap: the size of the buffer rb_pop copies into

VARIABLES queue,  \* the frames stored, oldest first
          res     \* res[t]: what the last rb_pop of thread t returned

fqVars == <<queue, res>>

RB_FLAG_TRUNCATED == 1

(* The first n elements of s, all of s when it is shorter. *)
Prefix(s, n) == IF Len(s) <= n THEN s ELSE SubSeq(s, 1, n)

(* flags |= RB_FLAG_TRUNCATED *)
MarkTruncated(flags) ==
  IF flags % 2 = 1 THEN flags ELSE flags + RB_FLAG_TRUNCATED

(* The frame rb_push stores: an oversized payload is cut and flagged. *)
Clip(f) ==
  IF Len(f.data) <= MaxPayload
  THEN f
  ELSE [kind |-> f.kind, flags |-> MarkTruncated(f.flags),
        data |-> SubSeq(f.data, 1, MaxPayload)]

(* What rb_pop hands out for a stored frame. *)
Receipt(f) ==
  [status |-> IF Len(f.data) <= OutCap THEN "OK" ELSE "TRUNCATED_COPY",
   kind |-> f.kind, flags |-> f.flags, data |-> Prefix(f.data, OutCap)]

NoFrame(status) == [status |-> status, kind |-> 0, flags |-> 0, data |-> <<>>]

-----------------------------------------------------------------------------

FQInit ==
  /\ queue = <<>>
  /\ res = [t \in Thread |-> NoFrame("EMPTY")]

(* A push appends, whole or clipped. *)
Store(f) ==
  /\ queue' = Append(queue, Clip(f))
  /\ UNCHANGED res

(* Making room: the oldest frame is lost. *)
Lose ==
  /\ queue # <<>>
  /\ queue' = Tail(queue)
  /\ UNCHANGED res

(* A pop takes the oldest frame, exactly as it was stored. *)
Take(t) ==
  /\ queue # <<>>
  /\ queue' = Tail(queue)
  /\ res' = [res EXCEPT ![t] = Receipt(Head(queue))]

(* A pop of an empty queue says so; it never reports an error. *)
TakeNothing(t) ==
  /\ queue = <<>>
  /\ res' = [res EXCEPT ![t] = NoFrame("EMPTY")]
  /\ UNCHANGED queue

Clear ==
  /\ queue' = <<>>
  /\ UNCHANGED res

FQNext ==
  \/ \E f \in Frame : Store(f)
  \/ Lose
  \/ \E t \in Thread : Take(t) \/ TakeNothing(t)
  \/ Clear

FQSpec == FQInit /\ [][FQNext]_fqVars

=============================================================================
