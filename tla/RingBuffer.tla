------------------------------ MODULE RingBuffer ------------------------------
(***************************************************************************)
(* The ring buffer between the R thread and the OCaml side                 *)
(* (c_ffi/ring_buffer.c).  buf holds one cell per byte; a frame is a       *)
(* header <<kind, flags, len>> followed by its payload, laid out from tail *)
(* and wrapping at Capacity.  The packed six-byte header becomes HDR = 3   *)
(* cells, one per field: a read at a wrong position therefore takes        *)
(* payload for a length, exactly as it would in C.                         *)
(*                                                                         *)
(* The steps are the calls made under the mutex: every turn of an eviction *)
(* loop, the header and the payload of a push, the header and the payload  *)
(* of a pop.  queue and bounds are history variables: they record what was *)
(* stored and where each stored frame starts, and no step reads them.      *)
(***************************************************************************)
EXTENDS Integers, Sequences

CONSTANTS Producer,    \* the threads that push and reset: the R thread
          Consumer,    \* the threads that pop: the OCaml side
          NoThread,    \* the owner of a free mutex
          Capacity,    \* capacity_bytes
          Frame,       \* the frames the callers push: [kind, flags, data]
          OutCap,      \* out_cap of rb_pop
          MaxDropped   \* bound: no push starts once this many frames were dropped

HDR == 3  \* RB_FRAME_HEADER_SIZE, in cells

FrameType == [kind : Nat, flags : Nat, data : Seq(Nat)]

Thread == Producer \cup Consumer

ASSUME ConstantsAssumption ==
  /\ NoThread \notin Thread
  /\ Producer \cap Consumer = {}
  /\ Capacity \in Nat /\ Capacity >= HDR + 1   \* rb_init refuses less
  /\ OutCap \in Nat
  /\ MaxDropped \in Nat
  /\ Frame \subseteq FrameType

VARIABLES buf, head, tail, used,          \* ring_buffer_t
          dropped_messages, dropped_bytes,
          lock,    \* the owner of rb->lock
          pc,      \* where each thread is inside rb_push or rb_pop
          arg,     \* arg[t]: the frame t is pushing, as it will be stored
          hdr,     \* hdr[t]: the header t has peeked
          res,     \* res[t]: what t's last rb_pop returned
          queue,   \* history: the frames stored, oldest first
          bounds   \* history: where each of them starts, and where the last ends

ring  == <<buf, head, tail, used>>
stats == <<dropped_messages, dropped_bytes>>
hist  == <<queue, bounds>>
vars  == <<buf, head, tail, used, dropped_messages, dropped_bytes,
           lock, pc, arg, hdr, res, queue, bounds>>

Idx == 0 .. Capacity - 1

FQ == INSTANCE FrameQueue WITH Thread <- Consumer, MaxPayload <- Capacity - HDR

FrameSize(f) == HDR + Len(f.data)

Wrap(i) == i % Capacity

-----------------------------------------------------------------------------
(* Helpers of the source: copies in and out of the ring.                   *)

(* ring_write as if the copy never wrapped: the part past the end is lost. *)
ring_write_nowrap(b, at, src) ==
  [i \in Idx |-> IF i >= at /\ i < at + Len(src) THEN src[i - at + 1] ELSE b[i]]

(* The cells after copying src into b from position at on. *)
ring_write(b, at, src) ==
  LET first == Capacity - at
      n     == Len(src)
  IN  [i \in Idx |->
         IF i >= at /\ i < at + n THEN src[i - at + 1]
         ELSE IF first < n /\ i < n - first THEN src[first + i + 1]
         ELSE b[i]]

(* The n cells of b from position at on, the copy split at the end. *)
ring_peek(b, at, n) ==
  LET first == Capacity - at
  IN  [j \in 1 .. n |-> IF j <= first THEN b[at + j - 1] ELSE b[j - first - 1]]

HeaderAtTail == ring_peek(buf, tail, HDR)

(* The size of the frame drop_oldest would drop, 0 when it drops nothing. *)
OldestSize ==
  IF used < HDR \/ used < HDR + HeaderAtTail[3] THEN 0
  ELSE HDR + HeaderAtTail[3]

(* drop_oldest forgetting that the frame has a header. *)
drop_oldest_no_header ==
  /\ OldestSize # 0
  /\ tail' = Wrap(tail + OldestSize - HDR)
  /\ used' = used - (OldestSize - HDR)
  /\ dropped_messages' = dropped_messages + 1
  /\ dropped_bytes' = dropped_bytes + HeaderAtTail[3]
  /\ queue' = Tail(queue)
  /\ bounds' = [i \in 1 .. Len(queue) |-> bounds[i + 1] - bounds[2]]
  /\ UNCHANGED <<buf, head>>

drop_oldest ==
  /\ OldestSize # 0
  /\ tail' = Wrap(tail + OldestSize)
  /\ used' = used - OldestSize
  /\ dropped_messages' = dropped_messages + 1
  /\ dropped_bytes' = dropped_bytes + HeaderAtTail[3]
  /\ queue' = Tail(queue)
  /\ bounds' = [i \in 1 .. Len(queue) |-> bounds[i + 1] - bounds[2]]
  /\ UNCHANGED <<buf, head>>

-----------------------------------------------------------------------------

(* rb_init *)
Init ==
  /\ buf = [i \in Idx |-> 0]
  /\ head = 0 /\ tail = 0 /\ used = 0
  /\ dropped_messages = 0 /\ dropped_bytes = 0
  /\ lock = NoThread
  /\ pc = [t \in Thread |-> "idle"]
  /\ arg = [t \in Producer |-> [kind |-> 0, flags |-> 0, data |-> <<>>]]
  /\ hdr = [t \in Consumer |-> <<0, 0, 0>>]
  /\ res = [t \in Consumer |-> FQ!NoFrame("EMPTY")]
  /\ queue = <<>>
  /\ bounds = <<0>>

Acquire(t, label) ==
  /\ pc[t] = "idle"
  /\ lock = NoThread
  /\ lock' = t
  /\ pc' = [pc EXCEPT ![t] = label]

Release(t) ==
  /\ lock' = NoThread
  /\ pc' = [pc EXCEPT ![t] = "idle"]

(* rb_reset: it does not look at what it throws away. *)
Reset(t) ==
  /\ pc[t] = "idle"
  /\ lock = NoThread
  /\ head' = 0 /\ tail' = 0 /\ used' = 0
  /\ dropped_messages' = 0 /\ dropped_bytes' = 0
  /\ queue' = <<>>
  /\ bounds' = <<0>>
  /\ UNCHANGED <<buf, lock, pc, arg, hdr, res>>

(* rb_push up to the lock: the size test is made before it is taken. *)
PushLock(t, f) ==
  /\ dropped_messages < MaxDropped
  /\ Acquire(t, IF FrameSize(f) > Capacity THEN "evict_all" ELSE "evict")
  /\ arg' = [arg EXCEPT ![t] = FQ!Clip(f)]
  /\ UNCHANGED <<ring, stats, hdr, res, hist>>

(* The fit test with the free space off by one. *)
RoomMadeOffByOne(t) ==
  \/ pc[t] = "evict_all" /\ used = 0
  \/ pc[t] = "evict" /\ Capacity - used + 1 >= FrameSize(arg[t])

(* The fit test that asks for one spare byte. *)
RoomMadeTooLate(t) ==
  \/ pc[t] = "evict_all" /\ used = 0
  \/ pc[t] = "evict" /\ \/ Capacity - used > FrameSize(arg[t])
                        \/ OldestSize = 0

(* The eviction loops are over. *)
RoomMade(t) ==
  \/ pc[t] = "evict_all" /\ used = 0
  \/ pc[t] = "evict" /\ \/ Capacity - used >= FrameSize(arg[t])
                        \/ OldestSize = 0

(* One turn of either eviction loop. *)
PushEvict(t) ==
  /\ pc[t] \in {"evict", "evict_all"}
  /\ ~ RoomMade(t)
  /\ drop_oldest
  /\ UNCHANGED <<lock, pc, arg, hdr, res>>

PushHeader(t) ==
  /\ RoomMade(t)
  /\ LET f == arg[t]
     IN  buf' = ring_write(buf, head, <<f.kind, f.flags, Len(f.data)>>)
  /\ head' = Wrap(head + HDR)
  /\ used' = used + HDR
  /\ pc' = [pc EXCEPT ![t] = "data"]
  /\ UNCHANGED <<tail, stats, lock, arg, hdr, res, hist>>

PushData(t) ==
  /\ pc[t] = "data"
  /\ buf' = ring_write(buf, head, arg[t].data)
  /\ head' = Wrap(head + Len(arg[t].data))
  /\ used' = used + Len(arg[t].data)
  /\ Release(t)
  /\ queue' = Append(queue, arg[t])
  /\ bounds' = Append(bounds, bounds[Len(queue) + 1] + FrameSize(arg[t]))
  /\ UNCHANGED <<tail, stats, arg, hdr, res>>

PopLock(t) ==
  /\ Acquire(t, "peek")
  /\ UNCHANGED <<ring, stats, arg, hdr, res, hist>>

(* rb_pop's early return without the unlock. *)
PopEmptyKeepsLock(t) ==
  /\ pc[t] = "peek"
  /\ used < HDR
  /\ res' = [res EXCEPT ![t] = FQ!NoFrame("EMPTY")]
  /\ UNCHANGED <<ring, stats, lock, pc, arg, hdr, hist>>

PopEmpty(t) ==
  /\ pc[t] = "peek"
  /\ used < HDR
  /\ res' = [res EXCEPT ![t] = FQ!NoFrame("EMPTY")]
  /\ Release(t)
  /\ UNCHANGED <<ring, stats, arg, hdr, hist>>

(* rb_pop past the header, or its "corrupt state" exit. *)
PopHeader(t) ==
  /\ pc[t] = "peek"
  /\ used >= HDR
  /\ IF used < HDR + HeaderAtTail[3]
     THEN /\ res' = [res EXCEPT ![t] = FQ!NoFrame("ERROR")]
          /\ Release(t)
          /\ UNCHANGED <<ring, hdr>>
     ELSE /\ tail' = Wrap(tail + HDR)
          /\ used' = used - HDR
          /\ hdr' = [hdr EXCEPT ![t] = HeaderAtTail]
          /\ pc' = [pc EXCEPT ![t] = "payload"]
          /\ UNCHANGED <<buf, head, lock, res>>
  /\ UNCHANGED <<stats, arg, hist>>

(* rb_pop that copies what fits and leaves the rest in the ring. *)
PopPayloadNoSkip(t) ==
  LET copied == IF hdr[t][3] <= OutCap THEN hdr[t][3] ELSE OutCap
  IN  /\ pc[t] = "payload"
      /\ res' = [res EXCEPT ![t] =
           [status |-> IF hdr[t][3] <= OutCap THEN "OK" ELSE "TRUNCATED_COPY",
            kind |-> hdr[t][1], flags |-> hdr[t][2],
            data |-> ring_peek(buf, tail, copied)]]
      /\ tail' = Wrap(tail + copied)
      /\ used' = used - copied
      /\ Release(t)
      /\ queue' = Tail(queue)
      /\ bounds' = [i \in 1 .. Len(queue) |-> bounds[i + 1] - bounds[2]]
      /\ UNCHANGED <<buf, head, stats, arg, hdr>>

(* rb_pop's copy, and the skip of what does not fit the caller's buffer. *)
PopPayload(t) ==
  LET len    == hdr[t][3]
      copied == IF len <= OutCap THEN len ELSE OutCap
  IN  /\ pc[t] = "payload"
      /\ res' = [res EXCEPT ![t] =
           [status |-> IF len <= OutCap THEN "OK" ELSE "TRUNCATED_COPY",
            kind |-> hdr[t][1], flags |-> hdr[t][2],
            data |-> ring_peek(buf, tail, copied)]]
      /\ tail' = Wrap(Wrap(tail + copied) + (len - copied))
      /\ used' = used - len
      /\ Release(t)
      /\ queue' = Tail(queue)
      /\ bounds' = [i \in 1 .. Len(queue) |-> bounds[i + 1] - bounds[2]]
      /\ UNCHANGED <<buf, head, stats, arg, hdr>>

Next ==
  \/ \E t \in Producer :
       \/ \E f \in Frame : PushLock(t, f)
       \/ PushEvict(t)
       \/ PushHeader(t)
       \/ PushData(t)
       \/ Reset(t)
  \/ \E t \in Consumer :
       \/ PopLock(t)
       \/ PopEmpty(t)
       \/ PopHeader(t)
       \/ PopPayload(t)

Spec == Init /\ [][Next]_vars

(* A thread inside a call keeps running: between lock and unlock there is
   no wait of any kind. *)
FairSpec ==
  /\ Spec
  /\ \A t \in Producer : WF_vars(PushEvict(t) \/ PushHeader(t) \/ PushData(t))
  /\ \A t \in Consumer : WF_vars(PopEmpty(t) \/ PopHeader(t) \/ PopPayload(t))

-----------------------------------------------------------------------------
(* Properties.                                                             *)

Labels == {"idle", "evict", "evict_all", "data", "peek", "payload"}

TypeOK ==
  /\ buf \in [Idx -> Nat]
  /\ head \in Idx /\ tail \in Idx
  /\ used \in 0 .. Capacity
  /\ dropped_messages \in Nat /\ dropped_bytes \in Nat
  /\ lock \in Thread \cup {NoThread}
  /\ pc \in [Thread -> Labels]
  /\ arg \in [Producer -> FrameType]
  /\ hdr \in [Consumer -> [1 .. 3 -> Nat]]
  /\ queue \in Seq(FrameType)
  /\ bounds \in Seq(Nat)

(* Only the owner of the mutex is inside a call. *)
Mutex == \A t \in Thread : pc[t] # "idle" <=> lock = t

(* Cells of the newest frame that are in the ring before it counts as
   stored, and cells of the oldest one that are gone before it counts as
   taken. *)
Written  == IF \E t \in Thread : pc[t] = "data" THEN HDR ELSE 0
Consumed == IF \E t \in Thread : pc[t] = "payload" THEN HDR ELSE 0

(* The cell o places after the logical start of the stored frames. *)
At(o) == buf[Wrap(tail + o - Consumed)]

(* The stored frames tile the used part of the ring. *)
Tiling ==
  /\ Len(bounds) = Len(queue) + 1
  /\ bounds[1] = 0
  /\ \A i \in 1 .. Len(queue) : bounds[i + 1] = bounds[i] + FrameSize(queue[i])
  /\ \A i, j \in 1 .. Len(bounds) : i < j => bounds[i] < bounds[j]
  /\ used = bounds[Len(queue) + 1] + Written - Consumed
  /\ head = Wrap(tail + used)

(* Each of them is there, cell by cell. *)
FrameAt(i) ==
  LET f == queue[i]
      b == bounds[i]
  IN  /\ (b >= Consumed) => /\ At(b) = f.kind
                            /\ At(b + 1) = f.flags
                            /\ At(b + 2) = Len(f.data)
      /\ \A j \in 1 .. Len(f.data) : At(b + HDR - 1 + j) = f.data[j]

Contents == \A i \in 1 .. Len(queue) : FrameAt(i)

(* What the owner of the mutex has done so far, and has room for. *)
InFlight ==
  /\ \A t \in Producer :
       /\ pc[t] # "idle" => FrameSize(arg[t]) <= Capacity
       /\ pc[t] = "data" =>
            LET e == bounds[Len(queue) + 1]
            IN  /\ used + Len(arg[t].data) <= Capacity
                /\ At(e) = arg[t].kind
                /\ At(e + 1) = arg[t].flags
                /\ At(e + 2) = Len(arg[t].data)
  /\ \A t \in Consumer :
       pc[t] = "payload" =>
         /\ queue # <<>>
         /\ hdr[t] = <<queue[1].kind, queue[1].flags, Len(queue[1].data)>>

(* The ring's representation invariant: the cells between tail and head are
   exactly the frames that were pushed and neither popped nor dropped, in
   order, across wrap-around, eviction, truncation and half-done calls of
   rb_push, rb_pop and rb_reset (ring_buffer.c:8-211). *)
Layout == Mutex /\ Tiling /\ Contents /\ InFlight

(* The two exits the source calls impossible are: rb_pop never meets a frame
   longer than the bytes in use ("Corrupt state - shouldn't happen",
   ring_buffer.c:181) and an eviction loop never finds nothing to drop
   ("shouldn't happen, but guard", ring_buffer.c:146). *)
ShouldntHappen ==
  /\ \A t \in Consumer : res[t].status # "ERROR"
  /\ \A t \in Producer :
       /\ pc[t] = "evict" /\ Capacity - used < FrameSize(arg[t])
       => OldestSize # 0

(* Frames are lost only to make room: a step that counts a dropped frame is
   one in which the frame being pushed does not fit, it loses the oldest
   frame, and it counts that frame's payload bytes (drop_oldest and the two
   loops of rb_push, ring_buffer.c:49-68, 130-146). *)
DropsOnlyForRoom ==
  [][dropped_messages' > dropped_messages =>
       /\ \E t \in Producer :
            /\ pc[t] \in {"evict", "evict_all"}
            /\ \/ Capacity - used < FrameSize(arg[t])
               \/ pc[t] = "evict_all"
       /\ queue' = Tail(queue)
       /\ dropped_messages' = dropped_messages + 1
       /\ dropped_bytes' = dropped_bytes + Len(queue[1].data)]_vars

(* The ring implements the lossy FIFO of whole frames: what rb_pop copies
   out, cell by cell, is the oldest stored frame, or its prefix when the
   caller's buffer is smaller (ring_buffer.c:118-211). *)
ImplementsFrameQueue == FQ!FQSpec

(* Every call returns: the mutex is always given back, although the
   oversized path of rb_push loops until used is 0 with no way out
   (ring_buffer.c:130-131). *)
LockIsReleased == \A t \in Thread : (lock = t) ~> (lock # t)

=============================================================================
