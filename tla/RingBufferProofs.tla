--------------------------- MODULE RingBufferProofs ---------------------------
(***************************************************************************)
(* For every capacity, every set of frames and any number of threads: the  *)
(* ring keeps its representation invariant, its "shouldn't happen" exits   *)
(* are never taken, and it implements the lossy FIFO of FrameQueue.        *)
(***************************************************************************)
EXTENDS RingBuffer, SequenceTheorems, TLAPS

USE ConstantsAssumption

-----------------------------------------------------------------------------
(* Positions.  A ring position is the sum of a position and a distance of
   at most Capacity, so one turn is all that % ever takes off. *)

(* Taking a position modulo the capacity, as head and tail are moved. *)
LEMMA WrapIsOneTurn ==
  \A x \in Int :
    (0 <= x /\ x < 2 * Capacity) =>
       /\ Wrap(x) \in Idx
       /\ Wrap(x) = IF x < Capacity THEN x ELSE x - Capacity
  BY DEF Wrap, Idx, HDR

(* Moving a position twice, as rb_pop does when it skips what it could not
   copy, is moving it once by the sum. *)
LEMMA WrapTwice ==
  ASSUME NEW a \in Idx, NEW m \in Nat, NEW n \in Nat, m + n <= Capacity
  PROVE  /\ Wrap(a + m) \in Idx
         /\ Wrap(Wrap(a + m) + n) = Wrap(a + m + n)
<1>1. /\ a + m \in 0 .. 2 * Capacity - 1
      /\ a + m + n \in 0 .. 2 * Capacity - 1
  BY DEF Idx, HDR
<1>2. /\ Wrap(a + m) \in Idx
      /\ Wrap(a + m) = IF a + m < Capacity THEN a + m ELSE a + m - Capacity
      /\ Wrap(a + m + n) = IF a + m + n < Capacity THEN a + m + n
                           ELSE a + m + n - Capacity
  BY <1>1, WrapIsOneTurn DEF Idx, HDR
<1>3. Wrap(a + m) + n \in 0 .. 2 * Capacity - 1
  BY <1>2 DEF Idx, HDR
<1>4. Wrap(Wrap(a + m) + n) = IF Wrap(a + m) + n < Capacity
                              THEN Wrap(a + m) + n
                              ELSE Wrap(a + m) + n - Capacity
  BY <1>3, WrapIsOneTurn DEF Idx, HDR
<1>5. QED
  BY <1>2, <1>4 DEF Idx, HDR

(* Different distances below the capacity reach different cells. *)
LEMMA WrapInjective ==
  ASSUME NEW a \in Idx, NEW p \in 0 .. Capacity - 1,
         NEW q \in 0 .. Capacity - 1, Wrap(a + p) = Wrap(a + q)
  PROVE  p = q
<1>1. /\ a + p \in 0 .. 2 * Capacity - 1
      /\ a + q \in 0 .. 2 * Capacity - 1
  BY DEF Idx, HDR
<1>2. QED
  BY <1>1, WrapIsOneTurn DEF Idx, HDR

(* ring_write puts src in the Len(src) cells from at on, across the end of
   the array, and leaves the other cells alone. *)
LEMMA RingWriteCells ==
  ASSUME NEW b \in [Idx -> Nat], NEW at \in Idx, NEW src \in Seq(Nat),
         Len(src) <= Capacity
  PROVE  /\ ring_write(b, at, src) \in [Idx -> Nat]
         /\ \A p \in 0 .. Capacity - 1 :
              ring_write(b, at, src)[Wrap(at + p)] =
                IF p < Len(src) THEN src[p + 1] ELSE b[Wrap(at + p)]
<1>1. Len(src) \in Nat /\ \A i \in 1 .. Len(src) : src[i] \in Nat
  OBVIOUS
<1>2. ring_write(b, at, src) \in [Idx -> Nat]
  BY <1>1 DEF ring_write, Idx, HDR
<1>3. ASSUME NEW p \in 0 .. Capacity - 1
      PROVE  ring_write(b, at, src)[Wrap(at + p)] =
                IF p < Len(src) THEN src[p + 1] ELSE b[Wrap(at + p)]
  <2>1. at + p \in 0 .. 2 * Capacity - 1
    BY DEF Idx, HDR
  <2>2. /\ Wrap(at + p) \in Idx
        /\ Wrap(at + p) = IF at + p < Capacity THEN at + p
                          ELSE at + p - Capacity
    BY <2>1, WrapIsOneTurn DEF Idx, HDR
  <2>3. PICK w \in Idx : w = Wrap(at + p)
    BY <2>2
  <2>4. ring_write(b, at, src)[w] =
          IF w >= at /\ w < at + Len(src) THEN src[w - at + 1]
          ELSE IF Capacity - at < Len(src) /\ w < Len(src) - (Capacity - at)
               THEN src[(Capacity - at) + w + 1]
          ELSE b[w]
    BY DEF ring_write
  <2>5. ring_write(b, at, src)[w] = IF p < Len(src) THEN src[p + 1] ELSE b[w]
    <3>1. CASE at + p < Capacity
      <4>1. w = at + p
        BY <2>2, <2>3, <3>1
      <4>2. QED
        BY <2>4, <4>1, <3>1, <1>1 DEF Idx, HDR
    <3>2. CASE ~ (at + p < Capacity)
      <4>1. w = at + p - Capacity
        BY <2>2, <2>3, <3>2
      <4>2. QED
        BY <2>4, <4>1, <3>2, <1>1 DEF Idx, HDR
    <3>3. QED
      BY <3>1, <3>2
  <2>6. QED
    BY <2>3, <2>5
<1>4. QED
  BY <1>2, <1>3

(* ring_peek reads the n cells from at on, across the end of the array. *)
LEMMA RingPeekCells ==
  ASSUME NEW b \in [Idx -> Nat], NEW at \in Idx, NEW n \in 0 .. Capacity
  PROVE  /\ ring_peek(b, at, n) \in [1 .. n -> Nat]
         /\ \A j \in 1 .. n : ring_peek(b, at, n)[j] = b[Wrap(at + j - 1)]
<1>1. ASSUME NEW j \in 1 .. n
      PROVE  /\ ring_peek(b, at, n)[j] = b[Wrap(at + j - 1)]
             /\ Wrap(at + j - 1) \in Idx
  <2>1. at + j - 1 \in 0 .. 2 * Capacity - 1
    BY DEF Idx, HDR
  <2>2. /\ Wrap(at + j - 1) \in Idx
        /\ Wrap(at + j - 1) = IF at + j - 1 < Capacity THEN at + j - 1
                              ELSE at + j - 1 - Capacity
    BY <2>1, WrapIsOneTurn DEF Idx, HDR
  <2>3. ring_peek(b, at, n)[j] =
          IF j <= Capacity - at THEN b[at + j - 1]
          ELSE b[j - (Capacity - at) - 1]
    BY DEF ring_peek
  <2>4. QED
    BY <2>2, <2>3 DEF Idx, HDR
<1>2. ring_peek(b, at, n) = [j \in 1 .. n |-> ring_peek(b, at, n)[j]]
  BY DEF ring_peek
<1>3. QED
  BY <1>1, <1>2

(* Writing at the head, u cells after a, touches none of those u cells. *)
LEMMA WriteAtHead ==
  ASSUME NEW b \in [Idx -> Nat], NEW a \in Idx, NEW u \in 0 .. Capacity,
         NEW src \in Seq(Nat), u + Len(src) <= Capacity
  PROVE  LET w == ring_write(b, Wrap(a + u), src)
         IN  /\ w \in [Idx -> Nat]
             /\ Wrap(a + u) \in Idx
             /\ Wrap(Wrap(a + u) + Len(src)) = Wrap(a + (u + Len(src)))
             /\ \A o \in 0 .. u - 1 : w[Wrap(a + o)] = b[Wrap(a + o)]
             /\ \A p \in 0 .. Len(src) - 1 : w[Wrap(a + (u + p))] = src[p + 1]
<1> DEFINE h == Wrap(a + u)
           w == ring_write(b, h, src)
<1>1. Len(src) \in Nat /\ u \in Nat /\ Len(src) <= Capacity
  BY DEF HDR
<1>2. /\ h \in Idx
      /\ h = IF a + u < Capacity THEN a + u ELSE a + u - Capacity
  BY WrapIsOneTurn DEF Idx, HDR
<1>3. /\ w \in [Idx -> Nat]
      /\ \A p \in 0 .. Capacity - 1 :
           w[Wrap(h + p)] = IF p < Len(src) THEN src[p + 1] ELSE b[Wrap(h + p)]
  BY <1>1, <1>2, RingWriteCells
<1>4. Wrap(h + Len(src)) = Wrap(a + (u + Len(src)))
  <2>1. Wrap(h + Len(src)) = Wrap(a + u + Len(src))
    BY <1>1, WrapTwice
  <2>2. a + u + Len(src) = a + (u + Len(src))
    BY <1>1 DEF Idx, HDR
  <2>3. QED
    BY <2>1, <2>2
<1>5. ASSUME NEW o \in 0 .. u - 1
      PROVE  w[Wrap(a + o)] = b[Wrap(a + o)]
  <2>1. PICK p \in 0 .. Capacity - 1 : p = o + Capacity - u
    BY DEF Idx, HDR
  <2>2. Wrap(a + o) = IF a + o < Capacity THEN a + o ELSE a + o - Capacity
    BY WrapIsOneTurn DEF Idx, HDR
  <2>3. Wrap(h + p) = IF h + p < Capacity THEN h + p ELSE h + p - Capacity
    BY <1>2, WrapIsOneTurn DEF Idx, HDR
  <2>4. Wrap(h + p) = Wrap(a + o)
    BY <2>1, <2>2, <2>3, <1>2 DEF Idx, HDR
  <2>5. ~ (p < Len(src))
    BY <2>1, <1>1 DEF Idx, HDR
  <2>6. QED
    BY <1>3, <2>4, <2>5
<1>6. ASSUME NEW p \in 0 .. Len(src) - 1
      PROVE  w[Wrap(a + (u + p))] = src[p + 1]
  <2>1. p \in 0 .. Capacity - 1 /\ p < Len(src)
    BY <1>1 DEF Idx, HDR
  <2>2. Wrap(h + p) = Wrap(a + u + p)
    <3>1. p \in Nat /\ u + p <= Capacity
      BY <1>1 DEF HDR
    <3>2. QED
      BY <1>1, <3>1, WrapTwice
  <2>3. a + u + p = a + (u + p)
    BY <1>1 DEF Idx, HDR
  <2>4. QED
    BY <1>3, <2>1, <2>2, <2>3
<1>7. QED
  BY <1>2, <1>3, <1>4, <1>5, <1>6

-----------------------------------------------------------------------------
(* The inductive invariant is the typing of the state and its Layout.      *)

IInv == TypeOK /\ Layout

(* While no call is half done, or one is still making room, every stored
   frame is whole in the ring. *)
LEMMA QuietPhases ==
  ASSUME IInv
  PROVE  /\ lock = NoThread => Written = 0 /\ Consumed = 0
         /\ \A t \in Thread :
              /\ pc[t] \in {"evict", "evict_all", "peek"} =>
                   Written = 0 /\ Consumed = 0
              /\ pc[t] = "data" => Written = HDR /\ Consumed = 0
              /\ pc[t] = "payload" => Written = 0 /\ Consumed = HDR
  BY DEF IInv, Layout, Mutex, Written, Consumed, HDR

(* What the tiling says of one frame and of the whole. *)
LEMMA TilingFacts ==
  ASSUME IInv
  PROVE  /\ Len(queue) \in Nat
         /\ \A i \in 1 .. Len(queue) + 1 :
              /\ bounds[i] \in Nat
              /\ bounds[i] <= bounds[Len(queue) + 1]
         /\ \A i \in 1 .. Len(queue) :
              /\ queue[i] \in FrameType
              /\ Len(queue[i].data) \in Nat
              /\ FrameSize(queue[i]) \in Nat
              /\ bounds[i + 1] = bounds[i] + FrameSize(queue[i])
              /\ bounds[i] + FrameSize(queue[i]) <= bounds[Len(queue) + 1]
              /\ i > 1 => bounds[2] <= bounds[i]
<1>1. /\ queue \in Seq(FrameType) /\ bounds \in Seq(Nat)
      /\ Len(bounds) = Len(queue) + 1
  BY DEF IInv, TypeOK, Layout, Tiling
<1>2. /\ Len(queue) \in Nat
      /\ \A i \in 1 .. Len(queue) : queue[i] \in FrameType
      /\ \A i \in 1 .. Len(queue) + 1 : bounds[i] \in Nat
  BY <1>1
<1>3. \A i \in 1 .. Len(queue) :
         Len(queue[i].data) \in Nat /\ FrameSize(queue[i]) \in Nat
  BY <1>2 DEF FrameType, FrameSize, HDR
<1>4. \A i, j \in 1 .. Len(queue) + 1 : i < j => bounds[i] < bounds[j]
  BY <1>1 DEF IInv, Layout, Tiling
<1>5. \A i \in 1 .. Len(queue) : bounds[i + 1] = bounds[i] + FrameSize(queue[i])
  BY DEF IInv, Layout, Tiling
<1>6. \A i \in 1 .. Len(queue) + 1 : bounds[i] <= bounds[Len(queue) + 1]
  BY <1>2, <1>4
<1>7. \A i \in 1 .. Len(queue) : i > 1 => bounds[2] <= bounds[i]
  <2> TAKE i \in 1 .. Len(queue)
  <2> HAVE i > 1
  <2>1. CASE i = 2
    BY <1>2, <2>1
  <2>2. CASE i > 2
    BY <1>2, <1>4, <2>2
  <2>3. QED
    BY <1>2, <2>1, <2>2
<1>8. \A i \in 1 .. Len(queue) :
         bounds[i] + FrameSize(queue[i]) <= bounds[Len(queue) + 1]
  BY <1>2, <1>5, <1>6
<1>9. QED
  BY <1>2, <1>3, <1>5, <1>6, <1>7, <1>8

(* The header the source reads at the tail is the oldest frame's. *)
LEMMA OldestHeader ==
  ASSUME IInv, Written = 0, Consumed = 0, used >= HDR
  PROVE  /\ queue # <<>> /\ Len(queue) >= 1
         /\ HeaderAtTail =
              <<queue[1].kind, queue[1].flags, Len(queue[1].data)>>
         /\ HDR + HeaderAtTail[3] = bounds[2]
         /\ bounds[2] <= used
         /\ OldestSize = bounds[2]
         /\ bounds[2] = FrameSize(queue[1])
<1>1. /\ buf \in [Idx -> Nat] /\ tail \in Idx /\ used \in 0 .. Capacity
      /\ queue \in Seq(FrameType)
  BY DEF IInv, TypeOK
<1>2. bounds[1] = 0 /\ used = bounds[Len(queue) + 1]
  <2>1. bounds[1] = 0 /\ used = bounds[Len(queue) + 1] + Written - Consumed
    BY DEF IInv, Layout, Tiling
  <2>2. bounds[Len(queue) + 1] \in Nat
    BY TilingFacts
  <2>3. QED
    BY <2>1, <2>2
<1>3. Len(queue) >= 1 /\ queue # <<>>
  BY <1>1, <1>2, TilingFacts DEF HDR
<1>4. FrameAt(1)
  BY <1>3, TilingFacts DEF IInv, Layout, Contents
<1>5. /\ buf[Wrap(tail + 0)] = queue[1].kind
      /\ buf[Wrap(tail + 1)] = queue[1].flags
      /\ buf[Wrap(tail + 2)] = Len(queue[1].data)
  BY <1>1, <1>2, <1>4 DEF FrameAt, At, Idx, HDR
<1>6. /\ HeaderAtTail \in [1 .. 3 -> Nat]
      /\ \A j \in 1 .. 3 : HeaderAtTail[j] = buf[Wrap(tail + j - 1)]
  <2>1. 3 \in 0 .. Capacity
    BY DEF HDR
  <2>2. QED
    BY <1>1, <2>1, RingPeekCells DEF HeaderAtTail, HDR
<1>7. /\ HeaderAtTail[1] = queue[1].kind
      /\ HeaderAtTail[2] = queue[1].flags
      /\ HeaderAtTail[3] = Len(queue[1].data)
  <2>1. tail + 1 - 1 = tail + 0 /\ tail + 2 - 1 = tail + 1 /\ tail + 3 - 1 = tail + 2
    BY <1>1 DEF Idx
  <2>2. QED
    BY <1>5, <1>6, <2>1
<1>8. HeaderAtTail = <<queue[1].kind, queue[1].flags, Len(queue[1].data)>>
  BY <1>6, <1>7
<1>9. bounds[2] = FrameSize(queue[1]) /\ bounds[2] <= used
  BY <1>2, <1>3, TilingFacts DEF HDR
<1>10. HDR + HeaderAtTail[3] = bounds[2]
  BY <1>7, <1>9 DEF FrameSize
<1>11. OldestSize = bounds[2]
  <2>1. bounds[2] \in Nat /\ used \in Nat
    BY <1>1, <1>3, TilingFacts DEF HDR
  <2>2. ~ (used < HDR) /\ ~ (used < HDR + HeaderAtTail[3])
    BY <1>9, <1>10, <2>1 DEF HDR
  <2>3. QED
    BY <1>10, <2>2 DEF OldestSize
<1>12. QED
  BY <1>3, <1>8, <1>9, <1>10, <1>11

(* Taking the oldest frame off, whether it is dropped or popped. *)
OldestTaken ==
  /\ queue # <<>>
  /\ Written = 0 /\ (Consumed = 0 \/ Consumed = HDR)
  /\ tail' = Wrap(tail + (bounds[2] - Consumed))
  /\ used' = used - (bounds[2] - Consumed)
  /\ buf' = buf /\ head' = head
  /\ queue' = Tail(queue)
  /\ bounds' = [i \in 1 .. Len(queue) |-> bounds[i + 1] - bounds[2]]
  /\ Written' = 0 /\ Consumed' = 0

(* It moves tail to the next frame and leaves the others where they are. *)
LEMMA OldestGone ==
  ASSUME IInv, OldestTaken
  PROVE  /\ used' \in 0 .. Capacity /\ tail' \in Idx
         /\ queue' \in Seq(FrameType) /\ bounds' \in Seq(Nat)
         /\ Tiling' /\ Contents'
<1>n. PICK n \in Nat : n = Len(queue) /\ n >= 1 /\ Len(bounds) = n + 1
  <2>1. queue \in Seq(FrameType) /\ queue # <<>>
    BY DEF IInv, TypeOK, OldestTaken
  <2>2. Len(queue) \in Nat /\ Len(queue) >= 1
    BY <2>1, EmptySeq
  <2>3. Len(bounds) = Len(queue) + 1
    BY DEF IInv, Layout, Tiling
  <2>4. QED
    BY <2>2, <2>3
<1>1. /\ buf \in [Idx -> Nat] /\ tail \in Idx /\ head \in Idx
      /\ used \in 0 .. Capacity /\ queue \in Seq(FrameType)
      /\ bounds \in Seq(Nat)
  BY DEF IInv, TypeOK
<1>u. used \in Nat /\ used <= Capacity /\ tail \in Int
  BY <1>1 DEF Idx, HDR
<1>b. \A i \in 1 .. n + 1 : bounds[i] \in Nat /\ bounds[i] <= bounds[n + 1]
  BY <1>n, TilingFacts
<1>f. \A i \in 1 .. n :
         /\ Len(queue[i].data) \in Nat
         /\ FrameSize(queue[i]) \in Nat
         /\ FrameSize(queue[i]) = HDR + Len(queue[i].data)
         /\ bounds[i + 1] = bounds[i] + FrameSize(queue[i])
         /\ i > 1 => bounds[2] <= bounds[i]
  BY <1>n, TilingFacts DEF FrameSize
<1>c. Consumed \in Nat /\ Consumed <= HDR
  BY DEF OldestTaken, HDR
<1>2. /\ bounds[1] = 0 /\ bounds[2] = FrameSize(queue[1])
      /\ bounds[2] \in Nat /\ bounds[2] >= HDR /\ bounds[2] <= bounds[n + 1]
  <2>1. bounds[1] = 0
    BY DEF IInv, Layout, Tiling
  <2>2. 1 \in 1 .. n /\ 2 \in 1 .. n + 1
    BY <1>n
  <2>3. bounds[1 + 1] = bounds[1] + FrameSize(queue[1])
        /\ FrameSize(queue[1]) = HDR + Len(queue[1].data)
        /\ Len(queue[1].data) \in Nat
    BY <1>f, <2>2
  <2>4. bounds[2] \in Nat /\ bounds[2] <= bounds[n + 1]
    BY <1>b, <2>2
  <2>5. QED
    BY <2>1, <2>3, <2>4 DEF HDR
<1>3. /\ used = bounds[n + 1] - Consumed
      /\ head = Wrap(tail + used) /\ bounds[n + 1] \in Nat
  <2>1. /\ used = bounds[n + 1] + Written - Consumed
        /\ head = Wrap(tail + used) /\ Written = 0
    BY <1>n DEF IInv, Layout, Tiling, OldestTaken
  <2>2. bounds[n + 1] \in Nat
    BY <1>n, <1>b
  <2>3. QED
    BY <2>1, <2>2, <1>c DEF HDR
<1>e. used + Consumed = bounds[n + 1]
  BY <1>u, <1>3, <1>c
<1>d. PICK d \in Nat : d = bounds[2] - Consumed /\ d + Consumed = bounds[2]
  BY <1>2, <1>c DEF HDR
<1>dd. d + Consumed = bounds[2]
  BY <1>d
<1>4. d <= used /\ used \in Nat /\ used <= Capacity /\ used - d \in Nat
  BY <1>u, <1>2, <1>3, <1>c, <1>d DEF HDR
<1>s. /\ tail' = Wrap(tail + d) /\ used' = used - d
      /\ buf' = buf /\ head' = head /\ Written' = 0 /\ Consumed' = 0
  BY <1>d DEF OldestTaken
<1>5. used' \in 0 .. Capacity /\ tail' \in Idx
  <2>1. Wrap(tail + d) \in Idx
    BY <1>1, <1>4, WrapTwice
  <2>2. QED
    BY <1>4, <1>s, <2>1 DEF HDR
<1>6. /\ queue' \in Seq(FrameType) /\ Len(queue') = n - 1
      /\ \A i \in 1 .. n - 1 : queue'[i] = queue[i + 1]
  BY <1>1, <1>n, HeadTailProperties DEF OldestTaken
<1>7. \A i \in 1 .. n : bounds'[i] = bounds[i + 1] - bounds[2] /\ bounds'[i] \in Nat
  <2> TAKE i \in 1 .. n
  <2>1. bounds'[i] = bounds[i + 1] - bounds[2]
    BY <1>n DEF OldestTaken
  <2>2. bounds[i + 1] \in Nat /\ bounds[2] <= bounds[i + 1]
    <3>1. CASE i = n
      BY <1>2, <1>3, <3>1
    <3>2. CASE i < n
      <4>1. i + 1 \in 1 .. n /\ i + 1 > 1 /\ i + 1 \in 1 .. n + 1
        BY <3>2
      <4>2. QED
        BY <1>b, <1>f, <4>1
    <3>3. QED
      BY <3>1, <3>2
  <2>3. QED
    BY <1>2, <2>1, <2>2
<1>8. bounds' \in Seq(Nat) /\ Len(bounds') = n
  <2>1. bounds' = [i \in 1 .. n |-> bounds[i + 1] - bounds[2]]
    BY <1>n DEF OldestTaken
  <2>2. bounds' \in [1 .. n -> Nat]
    BY <1>7, <2>1
  <2>3. QED
    BY <2>2, <1>n
<1>9. Tiling'
  <2>1. Len(bounds') = Len(queue') + 1
    BY <1>6, <1>8
  <2>2. bounds'[1] = 0
    <3>1. 1 \in 1 .. n
      BY <1>n
    <3>2. QED
      BY <1>2, <1>7, <3>1
  <2>3. ASSUME NEW i \in 1 .. Len(queue')
        PROVE  bounds'[i + 1] = bounds'[i] + FrameSize(queue'[i])
    <3>1. i \in 1 .. n - 1 /\ i + 1 \in 1 .. n /\ i \in 1 .. n
      BY <1>6
    <3>2. bounds[i + 1 + 1] = bounds[i + 1] + FrameSize(queue[i + 1])
      BY <1>f, <3>1
    <3>3. FrameSize(queue[i + 1]) \in Nat /\ bounds[i + 1] \in Nat
      BY <1>b, <1>f, <3>1
    <3>4. QED
      BY <1>2, <1>6, <1>7, <3>1, <3>2, <3>3
  <2>4. ASSUME NEW i \in 1 .. Len(bounds'), NEW j \in 1 .. Len(bounds'), i < j
        PROVE  bounds'[i] < bounds'[j]
    <3>1. /\ i \in 1 .. n /\ j \in 1 .. n
          /\ i + 1 \in 1 .. n + 1 /\ j + 1 \in 1 .. n + 1 /\ i + 1 < j + 1
      BY <1>8, <2>4
    <3>2. bounds[i + 1] < bounds[j + 1]
      BY <1>n, <3>1 DEF IInv, Layout, Tiling
    <3>3. bounds[i + 1] \in Nat /\ bounds[j + 1] \in Nat
      BY <1>b, <3>1
    <3>4. QED
      BY <1>2, <1>7, <3>1, <3>2, <3>3
  <2>5. used' = bounds'[Len(queue') + 1] + Written' - Consumed'
    <3>1. Len(queue') + 1 = n /\ n \in 1 .. n
      BY <1>n, <1>6
    <3>2. bounds'[n] = bounds[n + 1] - bounds[2]
      BY <1>7, <3>1
    <3>3. QED
      BY <1>2, <1>3, <1>c, <1>d, <1>s, <3>1, <3>2 DEF HDR
  <2>6. head' = Wrap(tail' + used')
    <3>1. Wrap(Wrap(tail + d) + (used - d)) = Wrap(tail + d + (used - d))
      BY <1>1, <1>4, WrapTwice
    <3>2. tail + d + (used - d) = tail + used
      BY <1>1, <1>4 DEF Idx, HDR
    <3>3. QED
      BY <1>3, <1>s, <3>1, <3>2
  <2>7. QED
    BY <2>1, <2>2, <2>3, <2>4, <2>5, <2>6 DEF Tiling, FrameSize
<1>10. ASSUME NEW o \in Nat, o + d < used
       PROVE  buf'[Wrap(tail' + o - Consumed')] = At(o + bounds[2])
  <2>1. Wrap(Wrap(tail + d) + o) = Wrap(tail + d + o)
    <3>1. d + o <= Capacity
      BY <1>4, <1>10 DEF HDR
    <3>2. QED
      BY <1>1, <3>1, WrapTwice
  <2>2. tail' + o - Consumed' = Wrap(tail + d) + o
    <3>1. tail' \in Int
      BY <1>5 DEF Idx
    <3>2. QED
      BY <3>1, <1>s
  <2>3. tail + d + o = tail + (o + bounds[2]) - Consumed
    BY <1>u, <1>2, <1>c, <1>d
  <2>4. QED
    BY <1>s, <2>1, <2>2, <2>3 DEF At
<1>11. ASSUME NEW i \in 1 .. Len(queue')
       PROVE  FrameAt(i)'
  <2>1. i \in 1 .. n - 1 /\ i + 1 \in 1 .. n /\ i \in 1 .. n
    BY <1>6
  <2>f. PICK f \in FrameType, b \in Nat, L \in Nat :
          /\ f = queue[i + 1] /\ b = bounds[i + 1] /\ L = Len(f.data)
          /\ bounds[2] <= b /\ b >= Consumed /\ b + HDR + L <= used + Consumed
    <3>1. /\ i + 1 \in 1 .. n /\ i + 1 > 1
          /\ i + 1 \in 1 .. n + 1 /\ i + 1 + 1 \in 1 .. n + 1
      BY <2>1
    <3>2. /\ bounds[i + 1] \in Nat /\ bounds[2] <= bounds[i + 1]
          /\ Len(queue[i + 1].data) \in Nat
          /\ bounds[i + 1 + 1] = bounds[i + 1] + (HDR + Len(queue[i + 1].data))
          /\ bounds[i + 1 + 1] <= bounds[n + 1]
      BY <1>b, <1>f, <3>1
    <3>3. queue[i + 1] \in FrameType
      BY <1>n, <3>1, TilingFacts
    <3>4. /\ bounds[i + 1] >= Consumed
          /\ bounds[i + 1] + HDR + Len(queue[i + 1].data) <= used + Consumed
      <4>1. bounds[2] >= HDR /\ bounds[2] \in Nat
        BY <1>2
      <4>2. bounds[i + 1] >= Consumed
        BY <1>c, <3>2, <4>1 DEF HDR
      <4>3. bounds[i + 1] + HDR + Len(queue[i + 1].data) <= bounds[n + 1]
        <5>1. bounds[i + 1] + (HDR + Len(queue[i + 1].data)) <= bounds[n + 1]
          BY <3>2
        <5>2. bounds[i + 1] \in Nat /\ Len(queue[i + 1].data) \in Nat
          BY <3>2
        <5>3. QED
          BY <5>1, <5>2 DEF HDR
      <4>4. QED
        BY <1>e, <4>2, <4>3
    <3>5. QED
      BY <3>2, <3>3, <3>4
  <2>g. b + HDR + L <= used + Consumed
    BY <2>f
  <2>3. queue'[i] = f /\ bounds'[i] = b - bounds[2] /\ bounds'[i] \in Nat
    BY <1>6, <1>7, <2>1, <2>f
  <2>4. \A k \in Nat : k < HDR + L =>
           buf'[Wrap(tail' + (bounds'[i] + k) - Consumed')] = At(b + k)
    <3> TAKE k \in Nat
    <3> HAVE k < HDR + L
    <3>1. PICK o \in Nat : o = bounds'[i] + k
      BY <2>3
    <3>2. o + d < used /\ o + bounds[2] = b + k
      <4>1. bounds[2] \in Nat
        BY <1>2
      <4>2. o + bounds[2] = b + k
        <5>1. PICK p \in Nat, q \in Nat : p = bounds'[i] /\ q = bounds[2]
          BY <2>3, <4>1
        <5>2. p = b - q /\ o = p + k
          BY <2>3, <3>1, <5>1
        <5>3. o + q = b + k
          BY <5>2
        <5>4. QED
          BY <5>1, <5>3
      <4>3. b + k < used + Consumed
        BY <1>u, <1>c, <2>g DEF HDR
      <4>4. o + d + Consumed = o + bounds[2]
        BY <1>c, <1>dd, <4>1
      <4>5. QED
        BY <1>u, <1>c, <4>2, <4>3, <4>4
    <3>3. QED
      BY <1>10, <3>1, <3>2
  <2>5. FrameAt(i + 1)
    BY <1>n, <2>1 DEF IInv, Layout, Contents
  <2>6. /\ At(b) = f.kind /\ At(b + 1) = f.flags /\ At(b + 2) = L
        /\ \A j \in 1 .. L : At(b + HDR - 1 + j) = f.data[j]
    BY <2>f, <2>5 DEF FrameAt
  <2>7. /\ buf'[Wrap(tail' + bounds'[i] - Consumed')] = f.kind
        /\ buf'[Wrap(tail' + (bounds'[i] + 1) - Consumed')] = f.flags
        /\ buf'[Wrap(tail' + (bounds'[i] + 2) - Consumed')] = L
    <3>1. bounds'[i] + 0 = bounds'[i] /\ b + 0 = b
      BY <2>3
    <3>2. 0 < HDR + L /\ 1 < HDR + L /\ 2 < HDR + L
      BY DEF HDR
    <3>3. /\ buf'[Wrap(tail' + (bounds'[i] + 0) - Consumed')] = At(b + 0)
          /\ buf'[Wrap(tail' + (bounds'[i] + 1) - Consumed')] = At(b + 1)
          /\ buf'[Wrap(tail' + (bounds'[i] + 2) - Consumed')] = At(b + 2)
      BY <2>4, <3>2
    <3>4. QED
      BY <2>6, <3>1, <3>3
  <2>8. ASSUME NEW j \in 1 .. L
        PROVE  buf'[Wrap(tail' + (bounds'[i] + HDR - 1 + j) - Consumed')] = f.data[j]
    <3>1. PICK k \in Nat : k = HDR - 1 + j /\ k < HDR + L
      BY DEF HDR
    <3>2. bounds'[i] + HDR - 1 + j = bounds'[i] + k /\ b + HDR - 1 + j = b + k
      BY <2>3, <3>1 DEF HDR
    <3>3. QED
      BY <2>4, <2>6, <3>1, <3>2
  <2>9. QED
    BY <2>3, <2>f, <2>7, <2>8 DEF FrameAt, At
<1>12. QED
  BY <1>5, <1>6, <1>8, <1>9, <1>11 DEF Contents

-----------------------------------------------------------------------------
(* The mutex: who is inside a call, before and after a step.               *)

(* The owner of the mutex is alone. *)
LEMMA Alone ==
  ASSUME IInv, NEW t \in Thread, pc[t] # "idle"
  PROVE  lock = t /\ \A u \in Thread : u # t => pc[u] = "idle"
  BY DEF IInv, Layout, Mutex

(* Taking the free mutex. *)
LEMMA AcquireStep ==
  ASSUME IInv, NEW t \in Thread, NEW label \in Labels \ {"idle"},
         Acquire(t, label)
  PROVE  /\ Mutex' /\ lock' \in Thread \cup {NoThread}
         /\ pc' \in [Thread -> Labels] /\ pc'[t] = label
         /\ \A u \in Thread : pc[u] = "idle" /\ (u # t => pc'[u] = "idle")
<1>1. pc \in [Thread -> Labels] /\ \A u \in Thread : pc[u] # "idle" <=> lock = u
  BY DEF IInv, TypeOK, Layout, Mutex
<1>2. /\ pc[t] = "idle" /\ lock = NoThread /\ lock' = t
      /\ pc' = [pc EXCEPT ![t] = label]
  BY DEF Acquire
<1>3. \A u \in Thread : pc[u] = "idle"
  BY <1>1, <1>2
<1>4. pc' \in [Thread -> Labels]
      /\ \A u \in Thread : pc'[u] = IF u = t THEN label ELSE pc[u]
  BY <1>1, <1>2
<1>5. QED
  BY <1>2, <1>3, <1>4 DEF Mutex

(* Going on while holding it. *)
LEMMA HoldStep ==
  ASSUME IInv, NEW t \in Thread, pc[t] # "idle",
         NEW label \in Labels \ {"idle"},
         pc' = [pc EXCEPT ![t] = label], lock' = lock
  PROVE  /\ Mutex' /\ lock' \in Thread \cup {NoThread}
         /\ pc' \in [Thread -> Labels] /\ pc'[t] = label
         /\ \A u \in Thread : u # t => pc'[u] = "idle"
<1>1. pc \in [Thread -> Labels] /\ \A u \in Thread : pc[u] # "idle" <=> lock = u
  BY DEF IInv, TypeOK, Layout, Mutex
<1>2. \A u \in Thread : pc'[u] = IF u = t THEN label ELSE pc[u]
  BY <1>1
<1>3. pc' \in [Thread -> Labels]
  BY <1>1
<1>4. QED
  BY <1>1, <1>2, <1>3 DEF Mutex

(* Giving it back. *)
LEMMA ReleaseStep ==
  ASSUME IInv, NEW t \in Thread, pc[t] # "idle", Release(t)
  PROVE  /\ Mutex' /\ lock' \in Thread \cup {NoThread}
         /\ pc' \in [Thread -> Labels]
         /\ \A u \in Thread : pc'[u] = "idle"
         /\ Written' = 0 /\ Consumed' = 0
<1>1. pc \in [Thread -> Labels] /\ \A u \in Thread : pc[u] # "idle" <=> lock = u
  BY DEF IInv, TypeOK, Layout, Mutex
<1>2. lock' = NoThread /\ pc' = [pc EXCEPT ![t] = "idle"]
  BY DEF Release
<1>3. \A u \in Thread : pc'[u] = "idle"
  BY <1>1, <1>2
<1>4. pc' \in [Thread -> Labels]
  BY <1>1, <1>2 DEF Labels
<1>5. QED
  BY <1>2, <1>3, <1>4 DEF Mutex, Written, Consumed

(* A step that leaves cells, positions and history alone. *)
LEMMA SameRing ==
  ASSUME IInv, UNCHANGED ring, UNCHANGED hist,
         Written' = Written, Consumed' = Consumed
  PROVE  Tiling' /\ Contents'
<1>1. /\ buf' = buf /\ head' = head /\ tail' = tail /\ used' = used
      /\ queue' = queue /\ bounds' = bounds
  BY DEF ring, hist
<1>2. Tiling'
  BY <1>1 DEF IInv, Layout, Tiling
<1>3. ASSUME NEW i \in 1 .. Len(queue')
      PROVE  FrameAt(i)'
  <2>1. FrameAt(i)
    BY <1>1 DEF IInv, Layout, Contents
  <2>2. QED
    BY <1>1, <2>1 DEF FrameAt, At
<1>4. QED
  BY <1>2, <1>3 DEF Contents

(* An empty ring is a good ring. *)
LEMMA EmptyRing ==
  ASSUME queue = <<>>, bounds = << 0 >>, head = 0, tail = 0, used = 0,
         Written = 0, Consumed = 0
  PROVE  Tiling /\ Contents
<1>1. Wrap(0 + 0) = 0
  BY WrapIsOneTurn DEF HDR
<1>2. Len(queue) = 0 /\ Len(bounds) = 1
  OBVIOUS
<1>3. Tiling
  BY <1>1, <1>2 DEF Tiling
<1>4. QED
  BY <1>2, <1>3 DEF Contents

(* Cells below used that a step leaves alone keep the frames they hold. *)
LEMMA OldCells ==
  ASSUME IInv, Consumed = 0, Consumed' = 0, tail' = tail,
         \A o \in 0 .. used - 1 : buf'[Wrap(tail + o)] = buf[Wrap(tail + o)],
         NEW i \in 1 .. Len(queue), queue'[i] = queue[i], bounds'[i] = bounds[i]
  PROVE  FrameAt(i)'
<1>1. /\ tail \in Int /\ used \in Nat
  BY DEF IInv, TypeOK, Idx, HDR
<1>2. /\ queue[i] \in FrameType /\ bounds[i] \in Nat
      /\ Len(queue[i].data) \in Nat /\ bounds[Len(queue) + 1] \in Nat
      /\ bounds[i] + FrameSize(queue[i]) <= bounds[Len(queue) + 1]
  BY TilingFacts
<1>3. used = bounds[Len(queue) + 1] + Written - Consumed /\ Written \in Nat
  BY DEF IInv, Layout, Tiling, Written, HDR
<1>4. bounds[i] + (HDR + Len(queue[i].data)) <= used
  BY <1>2, <1>3 DEF FrameSize, HDR
<1>5. ASSUME NEW k \in Nat, k < HDR + Len(queue[i].data)
      PROVE  buf'[Wrap(tail' + (bounds'[i] + k) - Consumed')] =
             buf[Wrap(tail + (bounds[i] + k) - Consumed)]
  <2>1. PICK o \in 0 .. used - 1 : o = bounds[i] + k
    BY <1>1, <1>2, <1>4, <1>5 DEF HDR
  <2>2. /\ tail' + (bounds'[i] + k) - Consumed' = tail + o
        /\ tail + (bounds[i] + k) - Consumed = tail + o
    BY <1>1, <1>2, <2>1
  <2>3. buf'[Wrap(tail + o)] = buf[Wrap(tail + o)]
    OBVIOUS
  <2>4. QED
    BY <2>2, <2>3
<1>6. FrameAt(i)
  BY DEF IInv, Layout, Contents
<1>7. /\ buf'[Wrap(tail' + bounds'[i] - Consumed')] = queue[i].kind
      /\ buf'[Wrap(tail' + (bounds'[i] + 1) - Consumed')] = queue[i].flags
      /\ buf'[Wrap(tail' + (bounds'[i] + 2) - Consumed')] = Len(queue[i].data)
  <2>1. /\ 0 < HDR + Len(queue[i].data) /\ 1 < HDR + Len(queue[i].data)
        /\ 2 < HDR + Len(queue[i].data)
    BY <1>2 DEF HDR
  <2>2. bounds[i] + 0 = bounds[i] /\ bounds'[i] + 0 = bounds'[i]
    BY <1>2
  <2>3. bounds[i] >= Consumed
    BY <1>2
  <2>4. /\ buf[Wrap(tail + bounds[i] - Consumed)] = queue[i].kind
        /\ buf[Wrap(tail + (bounds[i] + 1) - Consumed)] = queue[i].flags
        /\ buf[Wrap(tail + (bounds[i] + 2) - Consumed)] = Len(queue[i].data)
    BY <1>6, <2>3 DEF FrameAt, At
  <2>5. /\ buf'[Wrap(tail' + (bounds'[i] + 0) - Consumed')] =
           buf[Wrap(tail + (bounds[i] + 0) - Consumed)]
        /\ buf'[Wrap(tail' + (bounds'[i] + 1) - Consumed')] =
           buf[Wrap(tail + (bounds[i] + 1) - Consumed)]
        /\ buf'[Wrap(tail' + (bounds'[i] + 2) - Consumed')] =
           buf[Wrap(tail + (bounds[i] + 2) - Consumed)]
    BY <1>5, <2>1
  <2>6. QED
    BY <2>2, <2>4, <2>5
<1>8. ASSUME NEW j \in 1 .. Len(queue[i].data)
      PROVE  buf'[Wrap(tail' + (bounds'[i] + HDR - 1 + j) - Consumed')] =
             queue[i].data[j]
  <2>1. PICK k \in Nat : k = HDR - 1 + j /\ k < HDR + Len(queue[i].data)
    BY <1>2 DEF HDR
  <2>2. /\ bounds'[i] + HDR - 1 + j = bounds'[i] + k
        /\ bounds[i] + HDR - 1 + j = bounds[i] + k
    BY <1>2, <2>1 DEF HDR
  <2>3. At(bounds[i] + HDR - 1 + j) = queue[i].data[j]
    BY <1>6 DEF FrameAt
  <2>4. At(bounds[i] + k) = queue[i].data[j]
    BY <2>2, <2>3
  <2>5. QED
    BY <1>5, <2>1, <2>2, <2>4 DEF At
<1>9. QED
  BY <1>7, <1>8 DEF FrameAt, At

-----------------------------------------------------------------------------
(* The steps, one lemma per action.                                        *)

(* The frame rb_push goes on with fits the ring. *)
LEMMA ClipFits ==
  ASSUME NEW f \in Frame
  PROVE  FQ!Clip(f) \in FrameType /\ FrameSize(FQ!Clip(f)) <= Capacity
<1>1. f \in FrameType /\ f.data \in Seq(Nat) /\ Len(f.data) \in Nat
  BY DEF FrameType
<1>2. CASE Len(f.data) <= Capacity - HDR
  <2>1. FQ!Clip(f) = f
    BY <1>2 DEF FQ!Clip
  <2>2. QED
    BY <1>1, <1>2, <2>1 DEF FrameSize, HDR
<1>3. CASE ~ (Len(f.data) <= Capacity - HDR)
  <2>1. PICK d \in Seq(Nat) : d = SubSeq(f.data, 1, Capacity - HDR)
                              /\ Len(d) = Capacity - HDR
    <3>1. Capacity - HDR \in 1 .. Len(f.data)
      BY <1>1, <1>3 DEF HDR
    <3>2. \A i \in 1 .. Capacity - HDR : f.data[i] \in Nat
      BY <1>1, <3>1
    <3>3. 1 \in Int /\ Capacity - HDR \in Int
      BY DEF HDR
    <3>4. /\ SubSeq(f.data, 1, Capacity - HDR) \in Seq(Nat)
          /\ Len(SubSeq(f.data, 1, Capacity - HDR)) =
               IF 1 <= Capacity - HDR THEN (Capacity - HDR) - 1 + 1 ELSE 0
      BY <3>2, <3>3, SubSeqProperties
    <3>5. 1 <= Capacity - HDR /\ (Capacity - HDR) - 1 + 1 = Capacity - HDR
      BY DEF HDR
    <3>6. QED
      BY <3>4, <3>5
  <2>2. FQ!Clip(f) = [kind |-> f.kind, flags |-> FQ!MarkTruncated(f.flags),
                      data |-> d]
    BY <1>3, <2>1 DEF FQ!Clip
  <2>3. FQ!MarkTruncated(f.flags) \in Nat
    <3>1. f.flags \in Nat
      BY <1>1 DEF FrameType
    <3>2. QED
      BY <3>1 DEF FQ!MarkTruncated, FQ!RB_FLAG_TRUNCATED
  <2>4. QED
    BY <1>1, <2>1, <2>2, <2>3 DEF FrameSize, FrameType, HDR
<1>4. QED
  BY <1>2, <1>3

(* rb_push: the size test and the lock. *)
LEMMA PushLockStep ==
  ASSUME IInv, NEW t \in Producer, NEW f \in Frame, PushLock(t, f)
  PROVE  IInv'
<1> DEFINE label == IF FrameSize(f) > Capacity THEN "evict_all" ELSE "evict"
<1>1. /\ t \in Thread /\ label \in Labels \ {"idle"} /\ Acquire(t, label)
      /\ label # "data" /\ label # "payload"
  BY DEF PushLock, Thread, Labels
<1>2. /\ Mutex' /\ lock' \in Thread \cup {NoThread}
      /\ pc' \in [Thread -> Labels] /\ pc'[t] = label
      /\ \A u \in Thread : pc[u] = "idle" /\ (u # t => pc'[u] = "idle")
  BY <1>1, AcquireStep
<1>3. Written = 0 /\ Consumed = 0 /\ Written' = 0 /\ Consumed' = 0
  BY <1>1, <1>2 DEF Written, Consumed
<1>4. UNCHANGED ring /\ UNCHANGED hist
      /\ UNCHANGED <<dropped_messages, dropped_bytes, hdr, res>>
  BY DEF PushLock, stats
<1>5. Tiling' /\ Contents'
  BY <1>3, <1>4, SameRing
<1>6. /\ arg' = [arg EXCEPT ![t] = FQ!Clip(f)] /\ arg \in [Producer -> FrameType]
      /\ FQ!Clip(f) \in FrameType /\ FrameSize(FQ!Clip(f)) <= Capacity
  BY ClipFits DEF PushLock, IInv, TypeOK
<1>7. arg' \in [Producer -> FrameType] /\ arg'[t] = FQ!Clip(f)
  BY <1>6
<1>8. TypeOK'
  BY <1>2, <1>4, <1>7 DEF IInv, TypeOK, ring, hist
<1>9. InFlight'
  <2>1. ASSUME NEW u \in Producer
        PROVE  /\ pc'[u] # "idle" => FrameSize(arg'[u]) <= Capacity
               /\ pc'[u] # "data"
    BY <1>1, <1>2, <1>6, <1>7 DEF Thread
  <2>2. ASSUME NEW u \in Consumer
        PROVE  pc'[u] # "payload"
    BY <1>1, <1>2 DEF Thread
  <2>3. QED
    BY <2>1, <2>2 DEF InFlight, FrameSize
<1>10. QED
  BY <1>2, <1>5, <1>8, <1>9 DEF IInv, Layout

(* rb_push: one turn of an eviction loop drops the oldest frame, whole. *)
LEMMA PushEvictStep ==
  ASSUME IInv, NEW t \in Producer, PushEvict(t)
  PROVE  IInv' /\ OldestTaken /\ Written' = 0 /\ Consumed' = 0
<1>1. /\ t \in Thread /\ pc[t] \in {"evict", "evict_all"} /\ OldestSize # 0
      /\ UNCHANGED <<lock, pc, arg, hdr, res>>
  BY DEF PushEvict, drop_oldest, Thread
<1>2. /\ Written = 0 /\ Consumed = 0 /\ Written' = 0 /\ Consumed' = 0
  BY <1>1, QuietPhases DEF Written, Consumed
<1>3. used \in 0 .. Capacity /\ used >= HDR
  <2>1. used \in 0 .. Capacity
    BY DEF IInv, TypeOK
  <2>2. QED
    BY <1>1, <2>1 DEF OldestSize, HDR
<1>4. queue # <<>> /\ OldestSize = bounds[2] /\ HDR + HeaderAtTail[3] = bounds[2]
  BY <1>2, <1>3, OldestHeader
<1>5. bounds[2] \in Nat
  BY <1>2, <1>3, OldestHeader, TilingFacts
<1>6. OldestTaken
  <2>1. bounds[2] - Consumed = OldestSize
    BY <1>2, <1>4, <1>5
  <2>2. /\ tail' = Wrap(tail + OldestSize) /\ used' = used - OldestSize
        /\ buf' = buf /\ head' = head /\ queue' = Tail(queue)
        /\ bounds' = [i \in 1 .. Len(queue) |-> bounds[i + 1] - bounds[2]]
    BY DEF PushEvict, drop_oldest
  <2>3. QED
    BY <1>2, <1>4, <2>1, <2>2 DEF OldestTaken
<1>7. /\ used' \in 0 .. Capacity /\ tail' \in Idx
      /\ queue' \in Seq(FrameType) /\ bounds' \in Seq(Nat)
      /\ Tiling' /\ Contents'
  BY <1>6, OldestGone
<1>8. HeaderAtTail[3] \in Nat
  <2>1. HeaderAtTail[3] = Len(queue[1].data) /\ 1 \in 1 .. Len(queue)
    BY <1>2, <1>3, OldestHeader, TilingFacts
  <2>2. QED
    BY <2>1, TilingFacts
<1>9. dropped_messages' \in Nat /\ dropped_bytes' \in Nat
  BY <1>8 DEF IInv, TypeOK, PushEvict, drop_oldest
<1>10. TypeOK'
  BY <1>1, <1>7, <1>9 DEF IInv, TypeOK, PushEvict, drop_oldest
<1>11. Mutex'
  BY <1>1 DEF IInv, Layout, Mutex
<1>12. InFlight'
  <2>1. \A u \in Thread : pc'[u] # "data" /\ pc'[u] # "payload"
    BY <1>1, Alone
  <2>2. \A u \in Producer : pc'[u] # "idle" => FrameSize(arg[u])' <= Capacity
    BY <1>1 DEF IInv, Layout, InFlight, FrameSize
  <2>3. QED
    BY <2>1, <2>2 DEF InFlight, Thread
<1>13. QED
  BY <1>2, <1>6, <1>7, <1>10, <1>11, <1>12 DEF IInv, Layout

(* When the eviction loops are over the frame fits. *)
LEMMA RoomIsRoom ==
  ASSUME IInv, NEW t \in Producer, RoomMade(t)
  PROVE  used + FrameSize(arg[t]) <= Capacity
<1>1. /\ t \in Thread /\ pc[t] \in {"evict", "evict_all"}
      /\ Written = 0 /\ Consumed = 0
  BY QuietPhases DEF RoomMade, Thread
<1>2. /\ used \in 0 .. Capacity /\ arg[t] \in FrameType
      /\ FrameSize(arg[t]) \in Nat
  BY DEF IInv, TypeOK, FrameSize, FrameType, HDR
<1>3. FrameSize(arg[t]) <= Capacity
  BY <1>1 DEF IInv, Layout, InFlight
<1>4. CASE used = 0
  BY <1>2, <1>3, <1>4
<1>5. CASE Capacity - used >= FrameSize(arg[t])
  BY <1>2, <1>5 DEF HDR
<1>6. CASE OldestSize = 0 /\ used # 0
  <2>1. /\ used = bounds[Len(queue) + 1] + Written - Consumed /\ bounds[1] = 0
        /\ bounds[Len(queue) + 1] \in Nat /\ Len(queue) \in Nat
    BY TilingFacts DEF IInv, Layout, Tiling
  <2>2. used = bounds[Len(queue) + 1]
    BY <1>1, <2>1
  <2>3. 1 \in 1 .. Len(queue)
    BY <1>6, <2>1, <2>2
  <2>4. /\ FrameSize(queue[1]) >= HDR /\ FrameSize(queue[1]) \in Nat
        /\ bounds[1] + FrameSize(queue[1]) <= bounds[Len(queue) + 1]
    BY <2>3, TilingFacts DEF FrameSize, HDR
  <2>5. used >= HDR
    BY <2>1, <2>2, <2>4 DEF HDR
  <2>6. OldestSize = FrameSize(queue[1])
    BY <1>1, <2>5, OldestHeader
  <2>7. QED
    BY <1>6, <2>4, <2>6 DEF HDR
<1>7. QED
  BY <1>4, <1>5, <1>6 DEF RoomMade

(* Room for a frame is room for its header and then its payload. *)
LEMMA SumFits ==
  ASSUME NEW u \in Nat, NEW l \in Nat, u + (HDR + l) <= Capacity
  PROVE  u + HDR <= Capacity /\ u + HDR + l <= Capacity
  BY DEF HDR

(* rb_push: the header goes in front of the free space. *)
LEMMA PushHeaderStep ==
  ASSUME IInv, NEW t \in Producer, PushHeader(t)
  PROVE  IInv'
<1>1. /\ t \in Thread /\ pc[t] \in {"evict", "evict_all"} /\ pc[t] # "idle"
      /\ Written = 0 /\ Consumed = 0
  BY QuietPhases DEF PushHeader, RoomMade, Thread
<1>2. /\ pc' = [pc EXCEPT ![t] = "data"] /\ lock' = lock /\ tail' = tail
      /\ head' = Wrap(head + HDR) /\ used' = used + HDR
      /\ UNCHANGED <<dropped_messages, dropped_bytes, arg, hdr, res, queue, bounds>>
  BY DEF PushHeader, stats, hist
<1>3. /\ Mutex' /\ lock' \in Thread \cup {NoThread}
      /\ pc' \in [Thread -> Labels] /\ pc'[t] = "data"
      /\ \A u \in Thread : u # t => pc'[u] = "idle"
  BY <1>1, <1>2, HoldStep DEF Labels
<1>4. Written' = HDR /\ Consumed' = 0
  BY <1>1, <1>3 DEF Written, Consumed
<1>5. /\ buf \in [Idx -> Nat] /\ tail \in Idx /\ used \in 0 .. Capacity
      /\ arg[t] \in FrameType /\ head = Wrap(tail + used)
  BY DEF IInv, TypeOK, Layout, Tiling
<1>6. PICK src \in Seq(Nat) :
        /\ src = <<arg[t].kind, arg[t].flags, Len(arg[t].data)>>
        /\ Len(src) = HDR
        /\ src[1] = arg[t].kind /\ src[2] = arg[t].flags
        /\ src[3] = Len(arg[t].data)
  <2>1. arg[t].kind \in Nat /\ arg[t].flags \in Nat /\ Len(arg[t].data) \in Nat
    BY <1>5 DEF FrameType
  <2>2. /\ <<arg[t].kind, arg[t].flags, Len(arg[t].data)>> \in Seq(Nat)
        /\ Len(<<arg[t].kind, arg[t].flags, Len(arg[t].data)>>) = HDR
    BY <2>1 DEF HDR
  <2>3. QED
    BY <2>2
<1>7. buf' = ring_write(buf, Wrap(tail + used), src)
  BY <1>5, <1>6 DEF PushHeader
<1>8. /\ Len(arg[t].data) \in Nat /\ used \in Nat
      /\ used + HDR <= Capacity /\ used + HDR + Len(arg[t].data) <= Capacity
  <2>1. used + FrameSize(arg[t]) <= Capacity
    BY RoomIsRoom DEF PushHeader
  <2>2. Len(arg[t].data) \in Nat /\ used \in Nat
    BY <1>5 DEF FrameType, HDR
  <2>3. used + (HDR + Len(arg[t].data)) <= Capacity
    BY <2>1 DEF FrameSize
  <2>4. QED
    BY <2>2, <2>3, SumFits
<1>9. /\ buf' \in [Idx -> Nat]
      /\ Wrap(Wrap(tail + used) + HDR) = Wrap(tail + (used + HDR))
      /\ \A o \in 0 .. used - 1 : buf'[Wrap(tail + o)] = buf[Wrap(tail + o)]
      /\ \A p \in 0 .. 2 : buf'[Wrap(tail + (used + p))] = src[p + 1]
  <2>1. used + Len(src) <= Capacity
    BY <1>6, <1>8
  <2>w. LET w == ring_write(buf, Wrap(tail + used), src)
        IN  /\ w \in [Idx -> Nat]
            /\ Wrap(Wrap(tail + used) + Len(src)) = Wrap(tail + (used + Len(src)))
            /\ \A o \in 0 .. used - 1 : w[Wrap(tail + o)] = buf[Wrap(tail + o)]
            /\ \A p \in 0 .. Len(src) - 1 : w[Wrap(tail + (used + p))] = src[p + 1]
    BY <1>5, <2>1, WriteAtHead
  <2>2. /\ buf' \in [Idx -> Nat]
        /\ Wrap(Wrap(tail + used) + Len(src)) = Wrap(tail + (used + Len(src)))
        /\ \A o \in 0 .. used - 1 : buf'[Wrap(tail + o)] = buf[Wrap(tail + o)]
        /\ \A p \in 0 .. Len(src) - 1 : buf'[Wrap(tail + (used + p))] = src[p + 1]
    BY <1>7, <2>w
  <2>3. 0 .. Len(src) - 1 = 0 .. 2
    BY <1>6 DEF HDR
  <2>4. QED
    BY <1>6, <2>2, <2>3
<1>10. head' \in Idx /\ used' \in 0 .. Capacity /\ head' = Wrap(tail' + used')
  <2>1. Wrap(tail + (used + HDR)) \in Idx
    BY <1>5, <1>8, WrapTwice DEF HDR
  <2>2. QED
    BY <1>2, <1>5, <1>8, <1>9, <2>1 DEF HDR
<1>11. TypeOK'
  BY <1>2, <1>3, <1>5, <1>9, <1>10 DEF IInv, TypeOK
<1>12. used = bounds[Len(queue) + 1] /\ bounds[Len(queue) + 1] \in Nat
  <2>1. used = bounds[Len(queue) + 1] + Written - Consumed
        /\ bounds[Len(queue) + 1] \in Nat
    BY TilingFacts DEF IInv, Layout, Tiling
  <2>2. QED
    BY <1>1, <2>1
<1>13. Tiling'
  <2>1. used' = bounds'[Len(queue') + 1] + Written' - Consumed'
    BY <1>2, <1>4, <1>12 DEF HDR
  <2>2. QED
    BY <1>2, <1>10, <2>1 DEF IInv, Layout, Tiling
<1>14. Contents'
  BY <1>1, <1>2, <1>4, <1>9, OldCells DEF Contents
<1>15. InFlight'
  <2>1. ASSUME NEW u \in Producer, u # t
        PROVE  pc'[u] = "idle"
    BY <1>3, <2>1 DEF Thread
  <2>2. ASSUME NEW u \in Consumer
        PROVE  pc'[u] # "payload"
    BY <1>3, <2>2 DEF Thread
  <2>3. FrameSize(arg'[t]) <= Capacity
    BY <1>1, <1>2 DEF IInv, Layout, InFlight
  <2>4. /\ used' + Len(arg'[t].data) <= Capacity
        /\ At(bounds[Len(queue) + 1])' = arg'[t].kind
        /\ At(bounds[Len(queue) + 1] + 1)' = arg'[t].flags
        /\ At(bounds[Len(queue) + 1] + 2)' = Len(arg'[t].data)
    <3>1. tail \in Int /\ tail' = tail /\ bounds'[Len(queue') + 1] = used
      BY <1>2, <1>5, <1>12 DEF Idx
    <3>2. /\ tail' + bounds'[Len(queue') + 1] - Consumed' = tail + (used + 0)
          /\ tail' + (bounds'[Len(queue') + 1] + 1) - Consumed' = tail + (used + 1)
          /\ tail' + (bounds'[Len(queue') + 1] + 2) - Consumed' = tail + (used + 2)
      BY <1>4, <1>8, <3>1
    <3>3. /\ buf'[Wrap(tail + (used + 0))] = src[0 + 1]
          /\ buf'[Wrap(tail + (used + 1))] = src[1 + 1]
          /\ buf'[Wrap(tail + (used + 2))] = src[2 + 1]
      BY <1>9
    <3>4. 0 + 1 = 1 /\ 1 + 1 = 2 /\ 2 + 1 = 3
      OBVIOUS
    <3>5. QED
      BY <1>2, <1>6, <1>8, <3>2, <3>3, <3>4 DEF At
  <2>5. QED
    BY <2>1, <2>2, <2>3, <2>4 DEF InFlight, FrameSize
<1>16. QED
  BY <1>3, <1>11, <1>13, <1>14, <1>15 DEF IInv, Layout

(* rb_push: the payload goes behind the header and the frame is stored. *)
LEMMA PushDataStep ==
  ASSUME IInv, NEW t \in Producer, PushData(t)
  PROVE  IInv'
<1>1. /\ t \in Thread /\ pc[t] = "data" /\ pc[t] # "idle" /\ Release(t)
      /\ Written = HDR /\ Consumed = 0
  BY QuietPhases DEF PushData, Thread
<1>2. /\ head' = Wrap(head + Len(arg[t].data)) /\ used' = used + Len(arg[t].data)
      /\ tail' = tail /\ queue' = Append(queue, arg[t])
      /\ bounds' = Append(bounds, bounds[Len(queue) + 1] + FrameSize(arg[t]))
      /\ UNCHANGED <<dropped_messages, dropped_bytes, arg, hdr, res>>
  BY DEF PushData, stats
<1>3. /\ Mutex' /\ lock' \in Thread \cup {NoThread}
      /\ pc' \in [Thread -> Labels]
      /\ \A u \in Thread : pc'[u] = "idle"
      /\ Written' = 0 /\ Consumed' = 0
  BY <1>1, ReleaseStep
<1>5. /\ buf \in [Idx -> Nat] /\ tail \in Idx /\ used \in 0 .. Capacity
      /\ arg[t] \in FrameType /\ head = Wrap(tail + used)
      /\ queue \in Seq(FrameType) /\ bounds \in Seq(Nat)
      /\ Len(bounds) = Len(queue) + 1
  BY DEF IInv, TypeOK, Layout, Tiling
<1>t. buf \in [Idx -> Nat] /\ tail \in Idx /\ used \in 0 .. Capacity
  BY <1>5
<1>6. PICK src \in Seq(Nat) : src = arg[t].data
  BY <1>5 DEF FrameType
<1>l. Len(src) \in Nat /\ used \in Nat /\ tail \in Int
  BY <1>5 DEF Idx, HDR
<1>i. /\ used + Len(src) <= Capacity
      /\ At(bounds[Len(queue) + 1]) = arg[t].kind
      /\ At(bounds[Len(queue) + 1] + 1) = arg[t].flags
      /\ At(bounds[Len(queue) + 1] + 2) = Len(src)
  BY <1>1, <1>6 DEF IInv, Layout, InFlight
<1>r. used + Len(src) <= Capacity /\ used + Len(src) \in 0 .. Capacity
  <2>1. used + Len(src) <= Capacity
    BY <1>i
  <2>2. QED
    BY <1>l, <2>1 DEF HDR
<1>7. buf' = ring_write(buf, Wrap(tail + used), src)
  BY <1>5, <1>6 DEF PushData
<1>8. LET w == ring_write(buf, Wrap(tail + used), src)
      IN  /\ w \in [Idx -> Nat]
          /\ Wrap(Wrap(tail + used) + Len(src)) = Wrap(tail + (used + Len(src)))
          /\ \A o \in 0 .. used - 1 : w[Wrap(tail + o)] = buf[Wrap(tail + o)]
          /\ \A p \in 0 .. Len(src) - 1 : w[Wrap(tail + (used + p))] = src[p + 1]
  BY <1>t, <1>r, WriteAtHead
<1>9. /\ buf' \in [Idx -> Nat]
      /\ \A o \in 0 .. used - 1 : buf'[Wrap(tail + o)] = buf[Wrap(tail + o)]
      /\ \A p \in 0 .. Len(src) - 1 : buf'[Wrap(tail + (used + p))] = src[p + 1]
  BY <1>7, <1>8
<1>10. head' \in Idx /\ used' \in 0 .. Capacity /\ head' = Wrap(tail' + used')
  <2>1. Wrap(tail + (used + Len(src))) \in Idx
    <3>1. tail \in Nat /\ tail < Capacity
      BY <1>t DEF Idx, HDR
    <3>2. /\ tail + (used + Len(src)) \in Int /\ 0 <= tail + (used + Len(src))
          /\ tail + (used + Len(src)) < 2 * Capacity
      BY <1>r, <3>1
    <3>3. QED
      BY <3>2, WrapIsOneTurn
  <2>2. head' = Wrap(tail + (used + Len(src))) /\ used' = used + Len(src)
    BY <1>2, <1>5, <1>6, <1>8
  <2>3. QED
    BY <1>2, <1>r, <2>1, <2>2
<1>b. PICK e \in Nat : e = bounds[Len(queue) + 1] /\ used = e + HDR
  <2>1. used = bounds[Len(queue) + 1] + Written - Consumed
        /\ bounds[Len(queue) + 1] \in Nat
    BY TilingFacts DEF IInv, Layout, Tiling
  <2>2. QED
    BY <1>1, <2>1 DEF HDR
<1>n. PICK n \in Nat : n = Len(queue)
  BY <1>5
<1>s. FrameSize(arg[t]) = HDR + Len(src) /\ e + FrameSize(arg[t]) \in Nat
  BY <1>l, <1>6 DEF FrameSize, HDR
<1>q. /\ queue' \in Seq(FrameType) /\ Len(queue') = n + 1
      /\ queue'[n + 1] = arg[t] /\ \A i \in 1 .. n : queue'[i] = queue[i]
  BY <1>2, <1>5, <1>n
<1>c. /\ bounds' \in Seq(Nat) /\ Len(bounds') = n + 2
      /\ bounds'[n + 2] = e + FrameSize(arg[t]) /\ bounds'[n + 1] = e
      /\ \A i \in 1 .. n + 1 : bounds'[i] = bounds[i]
  BY <1>2, <1>5, <1>n, <1>b, <1>s
<1>11. TypeOK'
  BY <1>2, <1>3, <1>5, <1>9, <1>10, <1>q, <1>c DEF IInv, TypeOK
<1>13. Tiling'
  <2>1. Len(bounds') = Len(queue') + 1
    BY <1>q, <1>c
  <2>2. bounds'[1] = 0
    <3>1. bounds[1] = 0
      BY DEF IInv, Layout, Tiling
    <3>2. QED
      BY <1>c, <3>1
  <2>3. ASSUME NEW i \in 1 .. Len(queue')
        PROVE  bounds'[i + 1] = bounds'[i] + FrameSize(queue'[i])
    <3>1. CASE i = n + 1
      <4>1. i + 1 = n + 2
        BY <3>1
      <4>2. QED
        BY <1>q, <1>c, <3>1, <4>1
    <3>2. CASE i \in 1 .. n
      <4>1. bounds[i + 1] = bounds[i] + FrameSize(queue[i])
        BY <1>n, <3>2, TilingFacts
      <4>2. i + 1 \in 1 .. n + 1 /\ i \in 1 .. n + 1
        BY <3>2
      <4>3. QED
        BY <1>q, <1>c, <3>2, <4>1, <4>2
    <3>3. QED
      BY <1>q, <3>1, <3>2
  <2>4. ASSUME NEW i \in 1 .. Len(bounds'), NEW j \in 1 .. Len(bounds'), i < j
        PROVE  bounds'[i] < bounds'[j]
    <3>1. i \in 1 .. n + 1 /\ bounds'[i] = bounds[i]
      BY <1>c, <2>4
    <3>2. CASE j \in 1 .. n + 1
      <4>1. bounds[i] < bounds[j]
        BY <1>5, <1>n, <2>4, <3>1, <3>2 DEF IInv, Layout, Tiling
      <4>2. QED
        BY <1>c, <3>1, <3>2, <4>1
    <3>3. CASE j = n + 2
      <4>1. bounds[i] \in Nat /\ bounds[i] <= e
        BY <1>n, <1>b, <3>1, TilingFacts
      <4>2. e < e + (HDR + Len(src))
        BY <1>l DEF HDR
      <4>3. e + (HDR + Len(src)) \in Nat
        BY <1>l DEF HDR
      <4>4. bounds'[j] = e + (HDR + Len(src))
        BY <1>c, <1>s, <3>3
      <4>5. bounds[i] < e + (HDR + Len(src))
        BY <4>1, <4>2, <4>3
      <4>6. QED
        BY <3>1, <4>4, <4>5
    <3>4. QED
      BY <1>c, <3>2, <3>3
  <2>5. used' = bounds'[Len(queue') + 1] + Written' - Consumed'
    <3>1. Len(queue') + 1 = n + 2
      BY <1>q
    <3>2. used' = e + (HDR + Len(src))
      <4>1. used' = used + Len(src) /\ used = e + HDR
        BY <1>2, <1>6, <1>b
      <4>2. QED
        BY <1>l, <4>1 DEF HDR
    <3>3. bounds'[n + 2] = e + (HDR + Len(src)) /\ e + (HDR + Len(src)) \in Nat
      BY <1>s, <1>c
    <3>4. QED
      BY <1>3, <3>1, <3>2, <3>3
  <2>6. QED
    BY <1>10, <2>1, <2>2, <2>3, <2>4, <2>5 DEF Tiling, FrameSize
<1>14. Contents'
  <2>1. ASSUME NEW i \in 1 .. n
        PROVE  FrameAt(i)'
    <3>1. i \in 1 .. Len(queue) /\ i \in 1 .. n + 1
      BY <1>n
    <3>2. queue'[i] = queue[i] /\ bounds'[i] = bounds[i]
      BY <1>q, <1>c, <3>1
    <3>3. QED
      BY <1>1, <1>2, <1>3, <1>9, <3>1, <3>2, OldCells
  <2>2. FrameAt(n + 1)'
    <3>1. /\ tail + e - Consumed = tail + e
          /\ tail + (e + 1) - Consumed = tail + (e + 1)
          /\ tail + (e + 2) - Consumed = tail + (e + 2)
      BY <1>1, <1>l
    <3>2. /\ buf[Wrap(tail + e)] = arg[t].kind
          /\ buf[Wrap(tail + (e + 1))] = arg[t].flags
          /\ buf[Wrap(tail + (e + 2))] = Len(src)
      BY <1>i, <1>b, <3>1 DEF At
    <3>3. e \in 0 .. used - 1 /\ e + 1 \in 0 .. used - 1 /\ e + 2 \in 0 .. used - 1
      BY <1>b DEF HDR
    <3>4. /\ buf'[Wrap(tail + e)] = arg[t].kind
          /\ buf'[Wrap(tail + (e + 1))] = arg[t].flags
          /\ buf'[Wrap(tail + (e + 2))] = Len(src)
      BY <1>9, <3>2, <3>3
    <3>5. ASSUME NEW j \in 1 .. Len(src)
          PROVE  buf'[Wrap(tail + (e + HDR - 1 + j))] = src[j]
      <4>1. PICK p \in 0 .. Len(src) - 1 : p = j - 1 /\ p + 1 = j
        BY <1>l
      <4>2. e + HDR - 1 + j = used + p
        BY <1>b, <1>l, <4>1 DEF HDR
      <4>3. buf'[Wrap(tail + (used + p))] = src[p + 1]
        BY <1>9
      <4>4. QED
        BY <4>1, <4>2, <4>3
    <3>6. /\ tail' + e - Consumed' = tail + e
          /\ tail' + (e + 1) - Consumed' = tail + (e + 1)
          /\ tail' + (e + 2) - Consumed' = tail + (e + 2)
          /\ \A j \in 1 .. Len(src) :
               tail' + (e + HDR - 1 + j) - Consumed' = tail + (e + HDR - 1 + j)
      BY <1>2, <1>3, <1>l DEF HDR
    <3>7. queue'[n + 1] = arg[t] /\ bounds'[n + 1] = e
      BY <1>q, <1>c
    <3>8. QED
      BY <1>6, <3>4, <3>5, <3>6, <3>7 DEF FrameAt, At
  <2>3. QED
    BY <1>q, <2>1, <2>2 DEF Contents
<1>15. InFlight'
  BY <1>3 DEF InFlight, Thread
<1>16. QED
  BY <1>3, <1>11, <1>13, <1>14, <1>15 DEF IInv, Layout

(* rb_pop: the lock. *)
LEMMA PopLockStep ==
  ASSUME IInv, NEW t \in Consumer, PopLock(t)
  PROVE  IInv'
<1>1. t \in Thread /\ "peek" \in Labels \ {"idle"} /\ Acquire(t, "peek")
  BY DEF PopLock, Thread, Labels
<1>2. /\ Mutex' /\ lock' \in Thread \cup {NoThread}
      /\ pc' \in [Thread -> Labels] /\ pc'[t] = "peek"
      /\ \A u \in Thread : pc[u] = "idle" /\ (u # t => pc'[u] = "idle")
  BY <1>1, AcquireStep
<1>3. Written = 0 /\ Consumed = 0 /\ Written' = 0 /\ Consumed' = 0
  BY <1>1, <1>2 DEF Written, Consumed
<1>4. UNCHANGED ring /\ UNCHANGED hist
      /\ UNCHANGED <<dropped_messages, dropped_bytes, arg, hdr, res>>
  BY DEF PopLock, stats
<1>5. Tiling' /\ Contents'
  BY <1>3, <1>4, SameRing
<1>6. TypeOK'
  BY <1>2, <1>4 DEF IInv, TypeOK, ring, hist
<1>7. InFlight'
  <2>1. \A u \in Producer : pc'[u] = "idle"
    BY <1>2 DEF Thread
  <2>2. \A u \in Consumer : pc'[u] # "payload"
    BY <1>2 DEF Thread
  <2>3. QED
    BY <2>1, <2>2 DEF InFlight
<1>8. QED
  BY <1>2, <1>5, <1>6, <1>7 DEF IInv, Layout

(* rb_pop: fewer bytes than a header means that nothing is stored. *)
LEMMA PopEmptyStep ==
  ASSUME IInv, NEW t \in Consumer, PopEmpty(t)
  PROVE  IInv' /\ queue = <<>>
<1>1. /\ t \in Thread /\ pc[t] = "peek" /\ pc[t] # "idle" /\ Release(t)
      /\ Written = 0 /\ Consumed = 0 /\ used < HDR
  BY QuietPhases DEF PopEmpty, Thread
<1>2. /\ Mutex' /\ lock' \in Thread \cup {NoThread}
      /\ pc' \in [Thread -> Labels]
      /\ \A u \in Thread : pc'[u] = "idle"
      /\ Written' = 0 /\ Consumed' = 0
  BY <1>1, ReleaseStep
<1>3. UNCHANGED ring /\ UNCHANGED hist
      /\ UNCHANGED <<dropped_messages, dropped_bytes, arg, hdr>>
  BY DEF PopEmpty, stats
<1>4. Tiling' /\ Contents'
  BY <1>1, <1>2, <1>3, SameRing
<1>5. TypeOK'
  BY <1>2, <1>3 DEF IInv, TypeOK, ring, hist
<1>6. InFlight'
  BY <1>2 DEF InFlight, Thread
<1>7. queue = <<>>
  <2>1. /\ used = bounds[Len(queue) + 1] + Written - Consumed /\ bounds[1] = 0
        /\ bounds[Len(queue) + 1] \in Nat /\ Len(queue) \in Nat
        /\ queue \in Seq(FrameType)
    BY TilingFacts DEF IInv, TypeOK, Layout, Tiling
  <2>2. used = bounds[Len(queue) + 1]
    BY <1>1, <2>1
  <2>3. CASE 1 \in 1 .. Len(queue)
    <3>1. /\ FrameSize(queue[1]) >= HDR /\ FrameSize(queue[1]) \in Nat
          /\ bounds[1] + FrameSize(queue[1]) <= bounds[Len(queue) + 1]
      BY <2>3, TilingFacts DEF FrameSize, HDR
    <3>2. QED
      BY <1>1, <2>1, <2>2, <3>1 DEF HDR
  <2>4. CASE Len(queue) = 0
    BY <2>1, <2>4, EmptySeq
  <2>5. QED
    BY <2>1, <2>3, <2>4
<1>8. QED
  BY <1>2, <1>4, <1>5, <1>6, <1>7 DEF IInv, Layout

(* rb_pop: past the header; the "corrupt state" exit is not taken. *)
LEMMA PopHeaderStep ==
  ASSUME IInv, NEW t \in Consumer, PopHeader(t)
  PROVE  IInv' /\ UNCHANGED <<queue, res>>
<1>1. /\ t \in Thread /\ pc[t] = "peek" /\ pc[t] # "idle"
      /\ Written = 0 /\ Consumed = 0 /\ used >= HDR
  BY QuietPhases DEF PopHeader, Thread
<1>2. /\ queue # <<>> /\ Len(queue) >= 1
      /\ HeaderAtTail = <<queue[1].kind, queue[1].flags, Len(queue[1].data)>>
      /\ HDR + HeaderAtTail[3] = bounds[2] /\ bounds[2] <= used
      /\ bounds[2] = FrameSize(queue[1])
  BY <1>1, OldestHeader
<1>3. bounds[2] \in Nat /\ used \in 0 .. Capacity
  <2>1. 2 \in 1 .. Len(queue) + 1
    BY <1>2, TilingFacts
  <2>2. bounds[2] \in Nat
    BY <2>1, TilingFacts
  <2>3. QED
    BY <2>2 DEF IInv, TypeOK
<1>4. ~ (used < HDR + HeaderAtTail[3])
  BY <1>2, <1>3
<1>5. /\ tail' = Wrap(tail + HDR) /\ used' = used - HDR
      /\ hdr' = [hdr EXCEPT ![t] = HeaderAtTail]
      /\ pc' = [pc EXCEPT ![t] = "payload"] /\ lock' = lock
      /\ buf' = buf /\ head' = head
      /\ UNCHANGED <<dropped_messages, dropped_bytes, arg, res, queue, bounds>>
  BY <1>4 DEF PopHeader, stats, hist
<1>6. /\ Mutex' /\ lock' \in Thread \cup {NoThread}
      /\ pc' \in [Thread -> Labels] /\ pc'[t] = "payload"
      /\ \A u \in Thread : u # t => pc'[u] = "idle"
  BY <1>1, <1>5, HoldStep DEF Labels
<1>7. Written' = 0 /\ Consumed' = HDR
  BY <1>1, <1>6 DEF Written, Consumed
<1>8. /\ tail \in Idx /\ buf \in [Idx -> Nat] /\ head = Wrap(tail + used)
      /\ hdr \in [Consumer -> [1 .. 3 -> Nat]]
  BY DEF IInv, TypeOK, Layout, Tiling
<1>9. used \in Nat /\ used <= Capacity /\ HDR \in Nat /\ tail \in Int
  BY <1>3, <1>8 DEF HDR, Idx
<1>10. \A m \in Nat : HDR + m <= Capacity =>
          Wrap(tail' + m) = Wrap(tail + HDR + m)
  BY <1>5, <1>8, <1>9, WrapTwice
<1>11. tail' \in Idx
  BY <1>1, <1>5, <1>8, <1>9, WrapTwice DEF HDR
<1>12. hdr' \in [Consumer -> [1 .. 3 -> Nat]] /\ hdr'[t] = HeaderAtTail
  <2>1. HeaderAtTail \in [1 .. 3 -> Nat]
    <3>1. HDR \in 0 .. Capacity
      BY DEF HDR
    <3>2. QED
      BY <1>8, <3>1, RingPeekCells DEF HeaderAtTail, HDR
  <2>2. QED
    BY <1>5, <1>8, <2>1
<1>13. TypeOK'
  <2>1. used' \in 0 .. Capacity
    BY <1>1, <1>5, <1>9 DEF HDR
  <2>2. QED
    BY <1>5, <1>6, <1>11, <1>12, <2>1 DEF IInv, TypeOK
<1>14. Tiling'
  <2>1. used' = bounds'[Len(queue') + 1] + Written' - Consumed'
    <3>1. used = bounds[Len(queue) + 1] + Written - Consumed
          /\ bounds[Len(queue) + 1] \in Nat
      BY TilingFacts DEF IInv, Layout, Tiling
    <3>2. QED
      BY <1>1, <1>5, <1>7, <3>1 DEF HDR
  <2>2. head' = Wrap(tail' + used')
    <3>1. PICK m \in Nat : m = used - HDR
      BY <1>1, <1>9 DEF HDR
    <3>2. HDR + m <= Capacity /\ tail + HDR + m = tail + used
      BY <1>9, <3>1 DEF HDR
    <3>3. Wrap(tail' + m) = Wrap(tail + used)
      BY <1>10, <3>2
    <3>4. QED
      BY <1>5, <1>8, <3>1, <3>3
  <2>3. QED
    BY <1>5, <2>1, <2>2 DEF IInv, Layout, Tiling
<1>15. ASSUME NEW o \in Nat, o >= HDR, o < used
       PROVE  At(o)' = At(o)
  <2>1. PICK m \in Nat : m = o - HDR
    BY <1>15 DEF HDR
  <2>2. /\ HDR + m <= Capacity /\ tail + HDR + m = tail + o - Consumed
    BY <1>1, <1>9, <1>15, <2>1 DEF HDR
  <2>3. tail' + o - Consumed' = tail' + m
    <3>1. tail' \in Int
      BY <1>11 DEF Idx
    <3>2. QED
      BY <1>7, <2>1, <3>1 DEF HDR
  <2>4. QED
    BY <1>5, <1>10, <2>2, <2>3 DEF At
<1>16. Contents'
  <2> SUFFICES ASSUME NEW i \in 1 .. Len(queue)
               PROVE  FrameAt(i)'
    BY <1>5 DEF Contents
  <2>1. /\ bounds[i] \in Nat /\ Len(queue[i].data) \in Nat
        /\ bounds[i] + (HDR + Len(queue[i].data)) <= bounds[Len(queue) + 1]
        /\ bounds[Len(queue) + 1] \in Nat
    BY TilingFacts DEF FrameSize
  <2>2. bounds[i] + (HDR + Len(queue[i].data)) <= used
    <3>1. used = bounds[Len(queue) + 1] + Written - Consumed
      BY DEF IInv, Layout, Tiling
    <3>2. used = bounds[Len(queue) + 1]
      BY <1>1, <2>1, <3>1
    <3>3. QED
      BY <2>1, <3>2
  <2>3. FrameAt(i)
    BY DEF IInv, Layout, Contents
  <2>4. \A k \in Nat : bounds[i] + k >= HDR /\ k < HDR + Len(queue[i].data) =>
           At(bounds[i] + k)' = At(bounds[i] + k)
    <3> TAKE k \in Nat
    <3> HAVE bounds[i] + k >= HDR /\ k < HDR + Len(queue[i].data)
    <3>1. PICK o \in Nat : o = bounds[i] + k
      BY <2>1
    <3>2. o >= HDR /\ o < used
      BY <1>9, <2>1, <2>2, <3>1 DEF HDR
    <3>3. At(o)' = At(o)
      BY <1>15, <3>2
    <3>4. bounds'[i] = bounds[i]
      BY <1>5
    <3>5. QED
      BY <3>1, <3>3, <3>4 DEF At
  <2>5. bounds[i] >= Consumed
    BY <1>1, <2>1
  <2>6. ASSUME bounds'[i] >= Consumed'
        PROVE  /\ At(bounds[i])' = queue[i].kind
               /\ At(bounds[i] + 1)' = queue[i].flags
               /\ At(bounds[i] + 2)' = Len(queue[i].data)
    <3>1. bounds[i] >= HDR /\ bounds'[i] = bounds[i]
      BY <1>5, <1>7, <2>6
    <3>2. /\ bounds[i] + 0 = bounds[i]
          /\ bounds[i] + 0 >= HDR /\ bounds[i] + 1 >= HDR /\ bounds[i] + 2 >= HDR
          /\ 0 < HDR + Len(queue[i].data) /\ 1 < HDR + Len(queue[i].data)
          /\ 2 < HDR + Len(queue[i].data)
      BY <2>1, <3>1 DEF HDR
    <3>3. /\ At(bounds[i] + 0)' = At(bounds[i] + 0)
          /\ At(bounds[i] + 1)' = At(bounds[i] + 1)
          /\ At(bounds[i] + 2)' = At(bounds[i] + 2)
      BY <2>4, <3>2
    <3>4. /\ At(bounds[i]) = queue[i].kind
          /\ At(bounds[i] + 1) = queue[i].flags
          /\ At(bounds[i] + 2) = Len(queue[i].data)
      BY <2>3, <2>5 DEF FrameAt
    <3>5. At(bounds[i])' = At(bounds[i] + 0)'
      BY <3>1, <3>2 DEF At
    <3>6. QED
      BY <3>2, <3>3, <3>4, <3>5
  <2>7. ASSUME NEW j \in 1 .. Len(queue[i].data)
        PROVE  At(bounds[i] + HDR - 1 + j)' = queue[i].data[j]
    <3>1. PICK k \in Nat : k = HDR - 1 + j /\ k >= HDR
                           /\ k < HDR + Len(queue[i].data)
      BY <2>1 DEF HDR
    <3>2. /\ bounds[i] + HDR - 1 + j = bounds[i] + k /\ bounds'[i] = bounds[i]
          /\ bounds[i] + k >= HDR
      <4>1. bounds[i] \in Nat
        BY <2>1
      <4>2. bounds[i] + HDR - 1 + j = bounds[i] + k
        BY <3>1, <4>1 DEF HDR
      <4>3. bounds[i] + k >= HDR
        BY <3>1, <4>1 DEF HDR
      <4>4. QED
        BY <1>5, <4>2, <4>3
    <3>3. At(bounds[i] + HDR - 1 + j) = queue[i].data[j]
      BY <2>3 DEF FrameAt
    <3>4. At(bounds[i] + k)' = At(bounds[i] + k)
      BY <2>4, <3>1, <3>2
    <3>5. At(bounds[i] + HDR - 1 + j)' = At(bounds[i] + k)'
      BY <3>2 DEF At
    <3>6. QED
      BY <3>2, <3>3, <3>4, <3>5
  <2>8. QED
    BY <1>5, <2>6, <2>7 DEF FrameAt
<1>17. InFlight'
  <2>1. \A u \in Producer : pc'[u] = "idle"
    BY <1>6 DEF Thread
  <2>2. ASSUME NEW u \in Consumer, pc'[u] = "payload"
        PROVE  /\ queue' # <<>>
               /\ hdr'[u] = <<queue'[1].kind, queue'[1].flags, Len(queue'[1].data)>>
    <3>1. u = t
      BY <1>6, <2>2 DEF Thread
    <3>2. QED
      BY <1>2, <1>5, <1>12, <3>1
  <2>3. QED
    BY <2>1, <2>2 DEF InFlight
<1>18. QED
  BY <1>5, <1>6, <1>13, <1>14, <1>16, <1>17 DEF IInv, Layout

(* rb_pop: the copy and the skip take exactly the oldest frame. *)
LEMMA PopPayloadStep ==
  ASSUME IInv, NEW t \in Consumer, PopPayload(t)
  PROVE  IInv' /\ FQ!Take(t)
<1>1. /\ t \in Thread /\ pc[t] = "payload" /\ pc[t] # "idle" /\ Release(t)
      /\ Written = 0 /\ Consumed = HDR
  BY QuietPhases DEF PopPayload, Thread
<1>2. /\ Mutex' /\ lock' \in Thread \cup {NoThread}
      /\ pc' \in [Thread -> Labels]
      /\ \A u \in Thread : pc'[u] = "idle"
      /\ Written' = 0 /\ Consumed' = 0
  BY <1>1, ReleaseStep
<1>3. /\ queue # <<>>
      /\ hdr[t] = <<queue[1].kind, queue[1].flags, Len(queue[1].data)>>
  BY <1>1 DEF IInv, Layout, InFlight
<1>q. /\ queue \in Seq(FrameType) /\ Len(queue) \in Nat /\ 1 \in 1 .. Len(queue)
      /\ Head(queue) = queue[1]
  <2>1. queue \in Seq(FrameType)
    BY DEF IInv, TypeOK
  <2>2. QED
    BY <1>3, <2>1, EmptySeq
<1>4. PICK f \in FrameType : f = queue[1]
  BY <1>q, TilingFacts
<1>5. PICK len \in Nat : len = Len(f.data)
  BY DEF FrameType
<1>6. /\ hdr[t][1] = f.kind /\ hdr[t][2] = f.flags /\ hdr[t][3] = len
  BY <1>3, <1>4, <1>5
<1>7. PICK copied \in Nat :
        /\ copied = IF len <= OutCap THEN len ELSE OutCap
        /\ copied <= len /\ copied <= OutCap
  OBVIOUS
<1>8. PICK rest \in Nat : rest = len - copied /\ copied + rest = len
  BY <1>7
<1>b. bounds[2] = HDR + len /\ bounds[2] <= bounds[Len(queue) + 1]
      /\ bounds[Len(queue) + 1] \in Nat /\ bounds[1] = 0
  <2>1. /\ bounds[1 + 1] = bounds[1] + FrameSize(queue[1])
        /\ bounds[1] + FrameSize(queue[1]) <= bounds[Len(queue) + 1]
        /\ bounds[Len(queue) + 1] \in Nat
    BY <1>q, TilingFacts
  <2>2. bounds[1] = 0
    BY DEF IInv, Layout, Tiling
  <2>3. FrameSize(queue[1]) = HDR + len
    BY <1>4, <1>5 DEF FrameSize
  <2>4. QED
    BY <2>1, <2>2, <2>3 DEF HDR
<1>9. /\ used \in Nat /\ used <= Capacity /\ tail \in Idx /\ len <= used
      /\ buf \in [Idx -> Nat] /\ tail \in Int
  <2>1. /\ used \in 0 .. Capacity /\ tail \in Idx /\ buf \in [Idx -> Nat]
        /\ used = bounds[Len(queue) + 1] + Written - Consumed
    BY DEF IInv, TypeOK, Layout, Tiling
  <2>2. used = bounds[Len(queue) + 1] - HDR
    BY <1>1, <1>b, <2>1 DEF HDR
  <2>3. used \in Nat /\ used <= Capacity /\ tail \in Int
    BY <2>1 DEF Idx, HDR
  <2>4. len <= used
    BY <1>b, <2>2, <2>3 DEF HDR
  <2>5. QED
    BY <2>1, <2>3, <2>4
<1>10. /\ tail' = Wrap(Wrap(tail + copied) + rest) /\ used' = used - len
       /\ res' = [res EXCEPT ![t] =
            [status |-> IF len <= OutCap THEN "OK" ELSE "TRUNCATED_COPY",
             kind |-> f.kind, flags |-> f.flags,
             data |-> ring_peek(buf, tail, copied)]]
       /\ buf' = buf /\ head' = head /\ queue' = Tail(queue)
       /\ bounds' = [i \in 1 .. Len(queue) |-> bounds[i + 1] - bounds[2]]
       /\ UNCHANGED <<dropped_messages, dropped_bytes, arg, hdr>>
  BY <1>6, <1>7, <1>8 DEF PopPayload, stats
<1>11. tail' = Wrap(tail + len)
  <2>1. copied + rest <= Capacity
    BY <1>8, <1>9 DEF HDR
  <2>2. Wrap(Wrap(tail + copied) + rest) = Wrap(tail + copied + rest)
    BY <1>9, <2>1, WrapTwice
  <2>3. tail + copied + rest = tail + len
    <3>1. copied + rest = len
      BY <1>8
    <3>2. QED
      BY <1>9, <3>1
  <2>4. QED
    BY <1>10, <2>2, <2>3
<1>12. OldestTaken
  <2>1. bounds[2] - Consumed = len
    BY <1>1, <1>b DEF HDR
  <2>2. QED
    BY <1>1, <1>2, <1>3, <1>10, <1>11, <2>1 DEF OldestTaken
<1>13. /\ used' \in 0 .. Capacity /\ tail' \in Idx
       /\ queue' \in Seq(FrameType) /\ bounds' \in Seq(Nat)
       /\ Tiling' /\ Contents'
  BY <1>12, OldestGone
<1>14. TypeOK'
  BY <1>2, <1>10, <1>13 DEF IInv, TypeOK
<1>15. InFlight'
  BY <1>2 DEF InFlight, Thread
<1>16. ring_peek(buf, tail, copied) = FQ!Prefix(f.data, OutCap)
  <2>1. copied \in 0 .. Capacity
    BY <1>7, <1>9 DEF HDR
  <2>2. /\ ring_peek(buf, tail, copied) \in [1 .. copied -> Nat]
        /\ \A j \in 1 .. copied :
             ring_peek(buf, tail, copied)[j] = buf[Wrap(tail + j - 1)]
    BY <1>9, <2>1, RingPeekCells
  <2>3. ASSUME NEW j \in 1 .. copied
        PROVE  buf[Wrap(tail + j - 1)] = f.data[j]
    <3>1. FrameAt(1)
      BY <1>q DEF IInv, Layout, Contents
    <3>2. j \in 1 .. len
      BY <1>7
    <3>3. At(bounds[1] + HDR - 1 + j) = f.data[j]
      BY <1>4, <1>5, <3>1, <3>2 DEF FrameAt
    <3>4. tail + (bounds[1] + HDR - 1 + j) - Consumed = tail + j - 1
      BY <1>1, <1>b, <1>9 DEF HDR
    <3>5. QED
      BY <3>3, <3>4 DEF At
  <2>4. f.data \in Seq(Nat) /\ Len(f.data) = len
    BY <1>5 DEF FrameType
  <2>5. /\ FQ!Prefix(f.data, OutCap) \in [1 .. copied -> Nat]
        /\ \A j \in 1 .. copied : FQ!Prefix(f.data, OutCap)[j] = f.data[j]
    <3>1. CASE len <= OutCap
      <4>1. FQ!Prefix(f.data, OutCap) = f.data /\ copied = len
        BY <1>7, <2>4, <3>1 DEF FQ!Prefix
      <4>2. QED
        BY <2>4, <4>1
    <3>2. CASE ~ (len <= OutCap)
      <4>1. FQ!Prefix(f.data, OutCap) = SubSeq(f.data, 1, OutCap) /\ copied = OutCap
        BY <1>7, <2>4, <3>2 DEF FQ!Prefix
      <4>2. \A i \in 1 .. OutCap : f.data[i] \in Nat
        BY <2>4, <3>2
      <4>3. /\ SubSeq(f.data, 1, OutCap) \in Seq(Nat)
            /\ Len(SubSeq(f.data, 1, OutCap)) = IF 1 <= OutCap THEN OutCap - 1 + 1 ELSE 0
            /\ \A i \in 1 .. OutCap - 1 + 1 :
                 SubSeq(f.data, 1, OutCap)[i] = f.data[1 + i - 1]
        BY <4>2, SubSeqProperties
      <4>4. Len(SubSeq(f.data, 1, OutCap)) = OutCap
        BY <4>3
      <4>5. \A i \in 1 .. OutCap : SubSeq(f.data, 1, OutCap)[i] = f.data[i]
        BY <4>3
      <4>6. SubSeq(f.data, 1, OutCap) \in [1 .. OutCap -> Nat]
        BY <4>3, <4>4, LenProperties
      <4>7. QED
        BY <4>1, <4>5, <4>6
    <3>3. QED
      BY <3>1, <3>2
  <2>6. \A j \in 1 .. copied :
           ring_peek(buf, tail, copied)[j] = FQ!Prefix(f.data, OutCap)[j]
    BY <2>2, <2>3, <2>5
  <2>7. QED
    BY <2>2, <2>5, <2>6
<1>17. FQ!Take(t)
  <2>1. FQ!Receipt(Head(queue)) =
          [status |-> IF len <= OutCap THEN "OK" ELSE "TRUNCATED_COPY",
           kind |-> f.kind, flags |-> f.flags,
           data |-> ring_peek(buf, tail, copied)]
    BY <1>q, <1>4, <1>5, <1>16 DEF FQ!Receipt
  <2>2. QED
    BY <1>3, <1>10, <2>1 DEF FQ!Take
<1>18. QED
  BY <1>2, <1>13, <1>14, <1>15, <1>17 DEF IInv, Layout

(* rb_reset: an empty ring. *)
LEMMA ResetStep ==
  ASSUME IInv, NEW t \in Producer, Reset(t)
  PROVE  IInv'
<1>1. /\ t \in Thread /\ lock = NoThread
      /\ head' = 0 /\ tail' = 0 /\ used' = 0
      /\ dropped_messages' = 0 /\ dropped_bytes' = 0
      /\ queue' = <<>> /\ bounds' = <<0>>
      /\ UNCHANGED <<buf, lock, pc, arg, hdr, res>>
  BY DEF Reset, Thread
<1>2. \A u \in Thread : pc'[u] = "idle"
  BY <1>1 DEF IInv, Layout, Mutex
<1>3. Written' = 0 /\ Consumed' = 0
  BY <1>2 DEF Written, Consumed
<1>4. Len(queue') = 0 /\ Len(bounds') = 1 /\ bounds'[1] = 0
      /\ queue' \in Seq(FrameType) /\ bounds' \in Seq(Nat)
  BY <1>1
<1>5. Wrap(0 + 0) = 0
  BY WrapIsOneTurn DEF HDR
<1>6. Tiling' /\ Contents'
  BY <1>1, <1>3, <1>4, <1>5 DEF Tiling, Contents
<1>7. 0 \in Idx /\ 0 \in 0 .. Capacity
  BY DEF Idx, HDR
<1>8. TypeOK'
  BY <1>1, <1>4, <1>7 DEF IInv, TypeOK
<1>9. Mutex'
  BY <1>1 DEF IInv, Layout, Mutex
<1>10. InFlight'
  BY <1>2 DEF InFlight, Thread
<1>11. QED
  BY <1>6, <1>8, <1>9, <1>10 DEF IInv, Layout

-----------------------------------------------------------------------------
(* The theorems.                                                           *)

(* rb_init establishes the invariant. *)
LEMMA InitIInv == Init => IInv
<1> SUFFICES ASSUME Init PROVE IInv
  OBVIOUS
<1>1. \A u \in Thread : pc[u] = "idle"
  BY DEF Init
<1>2. Written = 0 /\ Consumed = 0
  BY <1>1 DEF Written, Consumed
<1>3. Tiling /\ Contents
  BY <1>2, EmptyRing DEF Init
<1>4. 0 \in Idx /\ 0 \in 0 .. Capacity /\ <<>> \in Seq(FrameType)
      /\ <<0>> \in Seq(Nat)
  BY DEF Idx, HDR
<1>5. TypeOK
  <2>1. [kind |-> 0, flags |-> 0, data |-> <<>>] \in FrameType
    BY DEF FrameType
  <2>2. <<0, 0, 0>> \in [1 .. 3 -> Nat]
    OBVIOUS
  <2>3. "idle" \in Labels
    BY DEF Labels
  <2>4. QED
    BY <1>4, <2>1, <2>2, <2>3 DEF Init, TypeOK
<1>6. Mutex
  BY <1>1 DEF Init, Mutex
<1>7. InFlight
  BY <1>1 DEF InFlight, Thread
<1>8. QED
  BY <1>3, <1>5, <1>6, <1>7 DEF IInv, Layout

(* Every step of every thread preserves it. *)
LEMMA StepIInv == IInv /\ [Next]_vars => IInv'
<1> SUFFICES ASSUME IInv, [Next]_vars PROVE IInv'
  OBVIOUS
<1>1. ASSUME NEW t \in Producer, NEW f \in Frame, PushLock(t, f) PROVE IInv'
  BY <1>1, PushLockStep
<1>2. ASSUME NEW t \in Producer, PushEvict(t) PROVE IInv'
  BY <1>2, PushEvictStep
<1>3. ASSUME NEW t \in Producer, PushHeader(t) PROVE IInv'
  BY <1>3, PushHeaderStep
<1>4. ASSUME NEW t \in Producer, PushData(t) PROVE IInv'
  BY <1>4, PushDataStep
<1>5. ASSUME NEW t \in Producer, Reset(t) PROVE IInv'
  BY <1>5, ResetStep
<1>6. ASSUME NEW t \in Consumer, PopLock(t) PROVE IInv'
  BY <1>6, PopLockStep
<1>7. ASSUME NEW t \in Consumer, PopEmpty(t) PROVE IInv'
  BY <1>7, PopEmptyStep
<1>8. ASSUME NEW t \in Consumer, PopHeader(t) PROVE IInv'
  BY <1>8, PopHeaderStep
<1>9. ASSUME NEW t \in Consumer, PopPayload(t) PROVE IInv'
  BY <1>9, PopPayloadStep
<1>10. CASE UNCHANGED vars
  <2>1. /\ UNCHANGED ring /\ UNCHANGED hist
        /\ UNCHANGED <<dropped_messages, dropped_bytes, lock, pc, arg, hdr, res>>
    BY <1>10 DEF vars, ring, hist
  <2>2. Written' = Written /\ Consumed' = Consumed
    BY <2>1 DEF Written, Consumed
  <2>3. Tiling' /\ Contents'
    BY <2>1, <2>2, SameRing
  <2>4. TypeOK' /\ Mutex'
    BY <2>1 DEF IInv, TypeOK, Layout, Mutex, ring, hist
  <2>5. InFlight'
    BY <2>1, <2>2 DEF IInv, Layout, InFlight, FrameSize, At, ring, hist
  <2>6. QED
    BY <2>3, <2>4, <2>5 DEF IInv, Layout
<1>11. QED
  BY <1>1, <1>2, <1>3, <1>4, <1>5, <1>6, <1>7, <1>8, <1>9, <1>10 DEF Next

(* The state of ring_buffer_t stays well-typed: positions inside the array,
   used within the capacity, whatever is pushed, popped and dropped. *)
THEOREM TypeCorrect == Spec => []TypeOK
<1>1. IInv => TypeOK
  BY DEF IInv
<1>2. QED
  BY <1>1, InitIInv, StepIInv, PTL DEF Spec

(* The representation invariant of the ring, for every capacity and every
   set of frames. *)
THEOREM LayoutHolds == Spec => []Layout
<1>1. IInv => Layout
  BY DEF IInv
<1>2. QED
  BY <1>1, InitIInv, StepIInv, PTL DEF Spec

(* No rb_pop so far has reported an error. *)
NoErrors ==
  /\ res = [t \in Consumer |-> res[t]]
  /\ \A t \in Consumer : res[t].status \in {"OK", "EMPTY", "TRUNCATED_COPY"}

(* No step makes rb_pop report an error. *)
LEMMA StepNoErrors == IInv /\ NoErrors /\ [Next]_vars => NoErrors'
<1> SUFFICES ASSUME IInv, NoErrors, [Next]_vars PROVE NoErrors'
  OBVIOUS
<1>1. CASE UNCHANGED res
  BY <1>1 DEF NoErrors
<1>2. ASSUME NEW t \in Consumer, PopEmpty(t) PROVE NoErrors'
  <2>1. res' = [res EXCEPT ![t] = FQ!NoFrame("EMPTY")]
    BY <1>2 DEF PopEmpty
  <2>2. FQ!NoFrame("EMPTY").status = "EMPTY"
    BY DEF FQ!NoFrame
  <2>3. QED
    BY <2>1, <2>2 DEF NoErrors
<1>3. ASSUME NEW t \in Consumer, PopHeader(t) PROVE NoErrors'
  BY <1>1, <1>3, PopHeaderStep
<1>4. ASSUME NEW t \in Consumer, PopPayload(t) PROVE NoErrors'
  <2> DEFINE copied == IF hdr[t][3] <= OutCap THEN hdr[t][3] ELSE OutCap
             r == [status |-> IF hdr[t][3] <= OutCap THEN "OK"
                              ELSE "TRUNCATED_COPY",
                   kind |-> hdr[t][1], flags |-> hdr[t][2],
                   data |-> ring_peek(buf, tail, copied)]
  <2>1. res' = [res EXCEPT ![t] = r]
    BY <1>4 DEF PopPayload
  <2>2. r.status \in {"OK", "TRUNCATED_COPY"}
    OBVIOUS
  <2> HIDE DEF r
  <2>3. QED
    BY <2>1, <2>2 DEF NoErrors
<1>5. QED
  BY <1>1, <1>2, <1>3, <1>4
     DEF Next, vars, PushLock, PushEvict, PushHeader, PushData, Reset, PopLock

(* The exits the source calls impossible are: rb_pop never finds a frame
   longer than the bytes in use and the eviction loop never finds nothing
   to drop (ring_buffer.c:142, 182-186). *)
THEOREM NeverHappens == Spec => []ShouldntHappen
<1>1. Init => NoErrors
  BY DEF Init, NoErrors, FQ!NoFrame
<1>2. IInv /\ NoErrors => ShouldntHappen
  <2> SUFFICES ASSUME IInv, NoErrors PROVE ShouldntHappen
    OBVIOUS
  <2>1. \A t \in Consumer : res[t].status # "ERROR"
    BY DEF NoErrors
  <2>2. ASSUME NEW t \in Producer, pc[t] = "evict",
               Capacity - used < FrameSize(arg[t]), OldestSize = 0
        PROVE  FALSE
    <3>1. RoomMade(t)
      BY <2>2 DEF RoomMade
    <3>2. used + FrameSize(arg[t]) <= Capacity
      BY <3>1, RoomIsRoom
    <3>3. used \in 0 .. Capacity /\ FrameSize(arg[t]) \in Nat
      BY DEF IInv, TypeOK, FrameSize, FrameType, HDR
    <3>4. QED
      BY <2>2, <3>2, <3>3 DEF HDR
  <2>3. QED
    BY <2>1, <2>2 DEF ShouldntHappen
<1>3. QED
  BY <1>1, <1>2, InitIInv, StepIInv, StepNoErrors, PTL DEF Spec

(* What a push in progress will store is a frame of the caller, clipped. *)
ArgIsClipped ==
  \A t \in Producer : pc[t] # "idle" => \E f \in Frame : arg[t] = FQ!Clip(f)

(* Only the start of a push sets it. *)
LEMMA StepArgIsClipped == IInv /\ ArgIsClipped /\ [Next]_vars => ArgIsClipped'
<1> SUFFICES ASSUME IInv, ArgIsClipped, [Next]_vars,
                    NEW u \in Producer, pc'[u] # "idle"
             PROVE  \E f \in Frame : arg'[u] = FQ!Clip(f)
  BY DEF ArgIsClipped
<1>1. pc \in [Thread -> Labels] /\ arg \in [Producer -> FrameType] /\ u \in Thread
  BY DEF IInv, TypeOK, Thread
<1>2. CASE arg' = arg /\ pc[u] # "idle"
  BY <1>2 DEF ArgIsClipped
<1>3. ASSUME NEW t \in Producer, NEW f \in Frame, PushLock(t, f)
      PROVE  \E g \in Frame : arg'[u] = FQ!Clip(g)
  <2>1. CASE u = t
    BY <1>1, <1>3, <2>1 DEF PushLock
  <2>2. CASE u # t
    BY <1>1, <1>3, <2>2 DEF PushLock, Acquire, ArgIsClipped
  <2>3. QED
    BY <2>1, <2>2
<1>4. ASSUME NEW t \in Producer,
             PushEvict(t) \/ PushHeader(t) \/ PushData(t) \/ Reset(t)
      PROVE  arg' = arg /\ pc[u] # "idle"
  <2>1. CASE u = t
    BY <1>1, <1>4, <2>1 DEF PushEvict, PushHeader, RoomMade, PushData, Reset
  <2>2. CASE u # t
    BY <1>1, <1>4, <2>2 DEF PushEvict, PushHeader, PushData, Release, Reset
  <2>3. QED
    BY <2>1, <2>2
<1>5. ASSUME NEW t \in Consumer,
             PopLock(t) \/ PopEmpty(t) \/ PopHeader(t) \/ PopPayload(t)
      PROVE  arg' = arg /\ pc[u] # "idle"
  <2>1. u # t
    OBVIOUS
  <2>2. QED
    BY <1>1, <1>5, <2>1
       DEF PopLock, Acquire, PopEmpty, PopHeader, PopPayload, Release
<1>6. CASE UNCHANGED vars
  BY <1>2, <1>6 DEF vars
<1>7. QED
  BY <1>2, <1>3, <1>4, <1>5, <1>6 DEF Next

(* The byte ring implements the lossy FIFO of whole frames: rb_pop returns
   the oldest stored frame cell for cell, whatever was evicted, truncated
   or wrapped around the end of the array before. *)
THEOREM Refinement == Spec => ImplementsFrameQueue
<1>1. Init => FQ!FQInit
  BY DEF Init, FQ!FQInit
<1>a. Init => ArgIsClipped
  BY DEF Init, ArgIsClipped, Thread
<1>2. IInv /\ ArgIsClipped /\ [Next]_vars => [FQ!FQNext]_(FQ!fqVars)
  <2> SUFFICES ASSUME IInv, ArgIsClipped, [Next]_vars
               PROVE  [FQ!FQNext]_(FQ!fqVars)
    OBVIOUS
  <2> USE DEF FQ!FQNext, FQ!fqVars
  <2>1. ASSUME NEW t \in Producer, NEW f \in Frame, PushLock(t, f)
        PROVE  UNCHANGED <<queue, res>>
    BY <2>1 DEF PushLock, hist
  <2>2. ASSUME NEW t \in Producer, PushEvict(t) PROVE FQ!Lose
    BY <2>2, PushEvictStep DEF OldestTaken, PushEvict, FQ!Lose
  <2>3. ASSUME NEW t \in Producer, PushHeader(t) PROVE UNCHANGED <<queue, res>>
    BY <2>3 DEF PushHeader, hist
  <2>4. ASSUME NEW t \in Producer, PushData(t)
        PROVE  \E f \in Frame : FQ!Store(f)
    <3>1. PICK f \in Frame : arg[t] = FQ!Clip(f)
      BY <2>4 DEF PushData, ArgIsClipped
    <3>2. QED
      BY <2>4, <3>1 DEF PushData, FQ!Store
  <2>5. ASSUME NEW t \in Producer, Reset(t) PROVE FQ!Clear
    BY <2>5 DEF Reset, FQ!Clear
  <2>6. ASSUME NEW t \in Consumer, PopLock(t) PROVE UNCHANGED <<queue, res>>
    BY <2>6 DEF PopLock, hist
  <2>7. ASSUME NEW t \in Consumer, PopEmpty(t) PROVE FQ!TakeNothing(t)
    BY <2>7, PopEmptyStep DEF PopEmpty, FQ!TakeNothing, hist
  <2>8. ASSUME NEW t \in Consumer, PopHeader(t) PROVE UNCHANGED <<queue, res>>
    BY <2>8, PopHeaderStep
  <2>9. ASSUME NEW t \in Consumer, PopPayload(t) PROVE FQ!Take(t)
    BY <2>9, PopPayloadStep
  <2>10. CASE UNCHANGED vars
    BY <2>10 DEF vars
  <2>11. QED
    BY <2>1, <2>2, <2>3, <2>4, <2>5, <2>6, <2>7, <2>8, <2>9, <2>10 DEF Next
<1>3. QED
  BY <1>1, <1>a, <1>2, InitIInv, StepIInv, StepArgIsClipped, PTL
     DEF Spec, FQ!FQSpec, ImplementsFrameQueue

(* A frame is lost only when the frame being pushed does not fit, it is the
   oldest one, and the statistics count it and its payload
   (ring_buffer.c:49-68, 129-146). *)
THEOREM DropsAreForRoom == Spec => DropsOnlyForRoom
<1> DEFINE D == dropped_messages' > dropped_messages =>
             /\ \E t \in Producer :
                  /\ pc[t] \in {"evict", "evict_all"}
                  /\ \/ Capacity - used < FrameSize(arg[t])
                     \/ pc[t] = "evict_all"
             /\ queue' = Tail(queue)
             /\ dropped_messages' = dropped_messages + 1
             /\ dropped_bytes' = dropped_bytes + Len(queue[1].data)
<1>1. IInv /\ [Next]_vars => [D]_vars
  <2> SUFFICES ASSUME IInv, [Next]_vars PROVE D
    OBVIOUS
  <2>1. dropped_messages \in Nat
    BY DEF IInv, TypeOK
  <2>2. CASE UNCHANGED dropped_messages
    BY <2>1, <2>2
  <2>3. ASSUME NEW t \in Producer, Reset(t) PROVE D
    BY <2>1, <2>3 DEF Reset
  <2>4. ASSUME NEW t \in Producer, PushEvict(t) PROVE D
    <3>1. /\ pc[t] \in {"evict", "evict_all"} /\ ~ RoomMade(t) /\ OldestSize # 0
          /\ queue' = Tail(queue) /\ dropped_messages' = dropped_messages + 1
          /\ dropped_bytes' = dropped_bytes + HeaderAtTail[3] /\ t \in Thread
      BY <2>4 DEF PushEvict, drop_oldest, Thread
    <3>2. used \in 0 .. Capacity /\ FrameSize(arg[t]) \in Nat
      BY DEF IInv, TypeOK, FrameSize, FrameType, HDR
    <3>3. pc[t] = "evict" => Capacity - used < FrameSize(arg[t])
      BY <3>1, <3>2 DEF RoomMade, HDR
    <3>4. Written = 0 /\ Consumed = 0 /\ used >= HDR
      <4>1. Written = 0 /\ Consumed = 0
        BY <3>1, QuietPhases
      <4>2. used >= HDR
        BY <3>1, <3>2 DEF OldestSize, HDR
      <4>3. QED
        BY <4>1, <4>2
    <3>5. HeaderAtTail[3] = Len(queue[1].data)
      BY <3>4, OldestHeader
    <3>6. QED
      BY <3>1, <3>3, <3>5
  <2>5. QED
    BY <2>2, <2>3, <2>4
       DEF Next, vars, stats, PushLock, PushHeader, PushData, PopLock, PopEmpty,
           PopHeader, PopPayload
<1>2. QED
  BY <1>1, InitIInv, StepIInv, PTL DEF Spec, DropsOnlyForRoom
=============================================================================
