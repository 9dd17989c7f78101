---------------------------- MODULE SessionProofs ----------------------------
(***************************************************************************)
(* What the runs of Session check on one small ring and three commands,    *)
(* for every size of the ring and every number of commands, outputs and    *)
(* callers: the safety properties, and that the session implements         *)
(* SerialExecutor.                                                         *)
(*                                                                         *)
(* None of the properties is inductive.  What makes them so is knowledge   *)
(* of where a frame of each kind may be between the worker's push and the  *)
(* loop's pop; SessionInv states it, one named part for each matter.       *)
(***************************************************************************)
EXTENDS Session, SequenceTheorems, FiniteSetTheorems, TLAPS

Frame == [kind : Kind, cmd : Int]

(* The frames between the worker and await_response. *)
InFlight ==
  {stashed[i] : i \in DOMAIN stashed} \cup {ring[i] : i \in DOMAIN ring}

Request == {"READLINE", "PASSTHROUGH"}
Evaluating == {"reset", "parse", "eval", "failed"}

(* How far R is: started, and at work on a command or not. *)
LifeInv ==
  /\ starter = "starting" => wpc = "none"
  /\ wpc \in {"none", "init", "startup"} => init_result = "none"
  /\ wpc = "readline" => init_result \in {"none", "ok"}
  /\ wpc = "exited" => init_result # "none"
  /\ wpc \notin {"none", "init", "startup", "readline", "exited"} =>
       init_result = "ok"
  /\ starter = "started" => init_result = "ok"
  /\ ready => starter = "started"
  /\ wpc \in Evaluating => code # NoCmd
  /\ code # NoCmd => /\ wpc \in Evaluating \cup {"readline", "gate", "system"}
                      /\ init_result = "ok"

(* Behind a DONE there is only what R printed on its own, and nothing is   *)
(* behind a frame R waits for an answer to.                                *)
OrderInv ==
  /\ \A i \in DOMAIN ring : ring[i].kind = "DONE" => Len(ring) - i <= idle
  /\ \A i, j \in DOMAIN ring :
       ring[i].kind = "DONE" /\ i < j => ring[j].cmd = NoCmd
  /\ \A i \in DOMAIN stashed, j \in DOMAIN ring :
       stashed[i].kind = "DONE" => ring[j].cmd = NoCmd
  /\ \A i \in DOMAIN ring : ring[i].kind \in Request => i = Len(ring)
  /\ \A i \in DOMAIN stashed : stashed[i].kind \in Request => ring = <<>>
  /\ fiber = "draining" => stashed = <<>>

DoneOut == \E m \in InFlight : m.kind = "DONE"

(* One evaluation at a time, and busy knows of it. *)
EvalInv ==
  /\ \A m \in InFlight : m.kind = "DONE" => m.cmd # NoCmd
  /\ DoneOut => /\ busy /\ code = NoCmd /\ pending_cmd = NoCmd
                /\ ~pending_completion_line /\ wpc # "completing"
  /\ pending_cmd # NoCmd => busy /\ code = NoCmd
  /\ code # NoCmd => busy /\ ~pending_completion_line
  /\ busy => ready
  /\ busy /\ "DONE" \notin evicted =>
       pending_cmd # NoCmd \/ code # NoCmd \/ DoneOut
  /\ ready /\ pending # <<>> => busy
  /\ ~ready => pending # <<>> /\ pending[1] = -1
  /\ ~busy => \A m \in InFlight : m.cmd = NoCmd
  /\ "DONE" \in evicted => idle >= RingSlots

(* Output is hidden only while a background command is out, and shown      *)
(* during one only when a user's command waits behind it.                  *)
HiddenInv ==
  /\ suppressing =>
       /\ ~IsUser(pending_cmd) /\ ~IsUser(code)
       /\ \A m \in InFlight : ~IsUser(m.cmd)
  /\ ~suppressing /\ pending = <<>> =>
       /\ ~IsBackground(pending_cmd) /\ ~IsBackground(code)
       /\ \A m \in InFlight : m.kind = "DONE" => ~IsBackground(m.cmd)

Responded(kind) == \E i \in DOMAIN response : response[i].kind = kind

(* A DONE on its way through the loop: R has nothing to do. *)
ResponseInv ==
  /\ Responded("DONE") =>
       /\ ready /\ pending = <<>> /\ code = NoCmd /\ pending_cmd = NoCmd
       /\ ~DoneOut
  /\ \A i \in DOMAIN response :
       response[i].kind = "DONE" => \A c \in response[i].cmds : IsUser(c)

Sent(kind) == \E m \in InFlight : m.kind = kind

(* A question is in one place: the ring, the loop, the screen or the gate. *)
ReadlineInv ==
  /\ Sent("READLINE") => ~Responded("READLINE")
  /\ Sent("READLINE") \/ Responded("READLINE") =>
       wpc = "readline" /\ ~readline_gate /\ mode = "Normal"
  /\ mode = "Readline" => wpc = "readline" /\ ~readline_gate
  /\ readline_gate => wpc = "readline"
  /\ wpc = "readline" =>
       \/ Sent("READLINE") \/ Responded("READLINE")
       \/ "READLINE" \in discarded \/ mode = "Readline" \/ readline_gate
  /\ "READLINE" \notin evicted
  /\ Responded("READLINE") \/ mode = "Readline" =>
       ~DoneOut /\ ~Responded("DONE")

PassthroughInv ==
  /\ Sent("PASSTHROUGH") => ~Responded("PASSTHROUGH")
  /\ Sent("PASSTHROUGH") \/ Responded("PASSTHROUGH") =>
       wpc = "gate" /\ ~passthrough_gate
  /\ passthrough_gate => wpc = "gate"
  /\ wpc = "gate" =>
       \/ Sent("PASSTHROUGH") \/ Responded("PASSTHROUGH")
       \/ "PASSTHROUGH" \in discarded \/ passthrough_gate
  /\ "PASSTHROUGH" \notin evicted
  /\ Responded("PASSTHROUGH") \/ passthrough_gate \/ wpc = "system" => ~DoneOut
  /\ session = "passthrough" /\ "PASSTHROUGH_END" \notin evicted \cup discarded =>
       \/ wpc = "gate" /\ passthrough_gate
       \/ wpc = "system"
       \/ Sent("PASSTHROUGH_END") \/ Responded("PASSTHROUGH_END")

(* Commands are evaluated in the order of their numbers. *)
NumberInv ==
  /\ Abs(code) <= nsub /\ Abs(pending_cmd) <= nsub
  /\ \A c \in finished \cup buf : Abs(c) <= nsub
  /\ \A i \in DOMAIN pending : Abs(pending[i]) <= nsub
  /\ \A m \in InFlight : Abs(m.cmd) <= nsub
  /\ \A i \in DOMAIN response : \A c \in response[i].cmds : Abs(c) <= nsub
  /\ \A i, j \in DOMAIN pending : i < j => Abs(pending[i]) < Abs(pending[j])
  /\ \A c \in {code, pending_cmd} \ {NoCmd} :
       /\ \A d \in finished : Abs(d) < Abs(c)
       /\ \A i \in DOMAIN pending : Abs(c) < Abs(pending[i])
  /\ \A d \in finished : \A i \in DOMAIN pending : Abs(d) < Abs(pending[i])

Printed == {"STDOUT", "IMAGE", "R_ERROR"}

(* The last command submitted when the open row was opened. *)
Horizon == Newest(active_command_id)

(* What is shown was printed by that command or one before it. *)
LogInv ==
  /\ nsub >= 1
  /\ \A q \in Query : asked[q] <= nsub
  /\ active_command_id # NoRow =>
       /\ active_command_id \in CommandRow =>
            \/ active_command_id \in finished
            \/ active_command_id \in {code, pending_cmd}
            \/ \E i \in DOMAIN pending : active_command_id = pending[i]
       /\ Horizon >= 1
       /\ \A i \in DOMAIN pending : IsUser(pending[i]) => pending[i] <= Horizon
       /\ \A c \in buf : Abs(c) <= Horizon
       /\ \A i \in DOMAIN response : response[i].kind \in Printed =>
            \A c \in response[i].cmds : Abs(c) <= Horizon
  /\ active_command_id # NoRow /\ (suppressing => fiber = "draining") =>
       /\ Abs(code) <= Horizon
       /\ Abs(pending_cmd) <= Horizon
       /\ \A m \in InFlight : Abs(m.cmd) <= Horizon
  /\ fiber # "draining" => buf = {}
  /\ LogIsHonest

InterruptInv ==
  /\ wpc \in {"none", "init"} => ~interrupts_pending
  /\ /\ interrupts_pending
     /\ code # NoCmd
     /\ wpc \in {"eval", "readline", "gate", "system"}
     => aimed = code

SessionInv ==
  /\ TypeOK
  /\ LifeInv
  /\ OrderInv
  /\ EvalInv
  /\ HiddenInv
  /\ ResponseInv
  /\ ReadlineInv
  /\ PassthroughInv
  /\ NumberInv
  /\ LogInv
  /\ InterruptInv

-----------------------------------------------------------------------------
(* What the operations on the ring and the stash do to the frames. *)

USE WorkerAssumption DEF NoCmd

(* The frames of the ring and of the stash are frames in flight. *)
LEMMA InFlightType ==
  ASSUME TypeOK
  PROVE  /\ InFlight \subseteq Frame
         /\ stashed \in Seq(Frame) /\ ring \in Seq(Frame)
<1>1. stashed \in Seq(Frame) /\ ring \in Seq(Frame)
  BY DEF TypeOK, WorkerTypeOK, BackendTypeOK, Frame
<1>2. \A i \in DOMAIN stashed : stashed[i] \in Frame
  BY <1>1
<1>3. \A i \in DOMAIN ring : ring[i] \in Frame
  BY <1>1
<1>. QED BY <1>1, <1>2, <1>3 DEF InFlight

(* What is behind the first element, by its places. *)
LEMMA TailPlaces ==
  ASSUME NEW S, NEW s \in Seq(S), s # <<>>
  PROVE  /\ Tail(s) \in Seq(S) /\ Len(Tail(s)) = Len(s) - 1
         /\ \A i \in 1..Len(s) - 1 : Tail(s)[i] = s[i + 1]
         /\ Len(s) \in Nat \ {0} /\ Head(s) = s[1]
OBVIOUS

(* The frames a push takes: none, or the oldest when the ring is full. *)
Lost == IF Len(ring) < RingSlots THEN 0 ELSE 1

(* rb_push of load_r.c, place by place. *)
LEMMA PushPlaces ==
  ASSUME TypeOK, NEW m \in Frame, Push(m)
  PROVE  /\ Lost \in {0, 1}
         /\ ring' \in Seq(Frame) /\ Len(ring') = Len(ring) - Lost + 1
         /\ \A i \in 1..Len(ring') :
              ring'[i] = IF i = Len(ring') THEN m ELSE ring[i + Lost]
         /\ Lost = 1 => /\ Len(ring) = RingSlots
                        /\ evicted' = evicted \cup (Control \cap {ring[1].kind})
         /\ Lost = 0 => Len(ring) < RingSlots /\ evicted' = evicted
<1>1. ring \in Seq(Frame) /\ Len(ring) <= RingSlots
  BY DEF TypeOK, WorkerTypeOK, Frame
<1>2. CASE Len(ring) < RingSlots
  <2>1. Lost = 0 /\ ring' = Append(ring, m) /\ evicted' = evicted
    BY <1>2 DEF Push, Lost
  <2>. QED BY <1>1, <1>2, <2>1
<1>3. CASE ~(Len(ring) < RingSlots)
  <2>. DEFINE t == Tail(ring)
  <2>1. Lost = 1 /\ ring # <<>> /\ ring' = Append(t, m) /\ Len(ring) = RingSlots
    BY <1>1, <1>3 DEF Push, Lost
  <2>2. /\ t \in Seq(Frame) /\ Len(t) = Len(ring) - 1
        /\ \A i \in 1..Len(ring) - 1 : t[i] = ring[i + 1]
        /\ Len(ring) \in Nat \ {0} /\ Head(ring) = ring[1]
    BY <1>1, <2>1, TailPlaces
  <2>3. evicted' = evicted \cup (Control \cap {ring[1].kind})
    BY <1>3, <2>2 DEF Push, ControlIn
  <2>. HIDE DEF t
  <2>4. /\ ring' \in Seq(Frame) /\ Len(ring') = Len(t) + 1
        /\ ring'[Len(t) + 1] = m /\ \A i \in 1..Len(t) : ring'[i] = t[i]
    BY <2>1, <2>2
  <2>5. /\ Len(ring') = Len(ring) /\ ring'[Len(ring)] = m
        /\ \A i \in 1..Len(ring) - 1 : ring'[i] = ring[i + 1]
    BY <2>2, <2>4
  <2>. QED BY <2>1, <2>2, <2>3, <2>4, <2>5
<1>. QED BY <1>2, <1>3

(* rb_push of load_r.c adds one frame; the frame it takes to make room is  *)
(* on record if a thread waits for it.                                     *)
LEMMA PushEffect ==
  ASSUME TypeOK, NEW m \in Frame, Push(m), UNCHANGED stashed
  PROVE  /\ ring' \in Seq(Frame) /\ Len(ring') <= RingSlots
         /\ evicted' \subseteq Control /\ evicted \subseteq evicted'
         /\ m \in InFlight' /\ InFlight' \subseteq InFlight \cup {m}
         /\ \A x \in InFlight :
              x \in InFlight' \/ (x.kind \in Control => x.kind \in evicted')
         /\ \A k \in evicted' : k \in evicted \/ Sent(k)
<1>0. ring \in Seq(Frame) /\ evicted \subseteq Control /\ Len(ring) <= RingSlots
  BY DEF TypeOK, WorkerTypeOK, Frame
<1>1. /\ ring' \in Seq(Frame)
      /\ Len(ring') = Len(ring) - Lost + 1
      /\ \A i \in 1..Len(ring') :
           ring'[i] = IF i = Len(ring') THEN m ELSE ring[i + Lost]
  BY PushPlaces
<1>2. Lost = 1 => Len(ring) > 0 /\ evicted' = evicted \cup (Control \cap {ring[1].kind})
  BY PushPlaces
<1>3. Lost = 0 => evicted' = evicted /\ Len(ring) < RingSlots
  BY PushPlaces
<1>4. Lost \in {0, 1}
  BY PushPlaces
<1>5. /\ m = ring'[Len(ring')] /\ Len(ring') \in 1..Len(ring')
      /\ Len(ring') <= RingSlots
  <2>1. Len(ring) \in Nat /\ Len(ring') \in Nat
    BY <1>0, <1>1
  <2>2. Len(ring') >= 1 /\ Len(ring') <= RingSlots
    BY <1>0, <1>1, <1>2, <1>3, <1>4, <2>1
  <2>. QED BY <1>1, <2>1, <2>2
<1>6. m \in InFlight'
  BY <1>1, <1>5 DEF InFlight
<1>7. InFlight' \subseteq InFlight \cup {m}
  <2>1. ASSUME NEW i \in 1..Len(ring') PROVE ring'[i] \in InFlight \cup {m}
    <3>1. CASE i = Len(ring')
      BY <1>5, <3>1
    <3>2. CASE i # Len(ring')
      <4>1. i + Lost \in 1..Len(ring) /\ ring'[i] = ring[i + Lost]
        BY <1>0, <1>1, <1>4, <3>2
      <4>. QED BY <1>0, <4>1 DEF InFlight
    <3>. QED BY <3>1, <3>2
  <2>. QED BY <1>1, <2>1 DEF InFlight
<1>8. ASSUME NEW x \in InFlight
      PROVE  x \in InFlight' \/ (x.kind \in Control => x.kind \in evicted')
  <2>1. CASE \E i \in DOMAIN stashed : x = stashed[i]
    BY <2>1 DEF InFlight
  <2>2. ASSUME NEW i \in 1..Len(ring), x = ring[i]
        PROVE  x \in InFlight' \/ (x.kind \in Control => x.kind \in evicted')
    <3>1. CASE i = Lost
      BY <1>2, <1>4, <2>2, <3>1
    <3>2. CASE i # Lost
      <4>1. i - Lost \in 1..Len(ring') /\ i - Lost # Len(ring')
        BY <1>0, <1>1, <1>4, <2>2, <3>2
      <4>2. ring'[i - Lost] = ring[i]
        BY <1>0, <1>1, <1>4, <4>1
      <4>. QED BY <1>1, <2>2, <4>1, <4>2 DEF InFlight
    <3>. QED BY <3>1, <3>2
  <2>. QED BY <1>0, <2>1, <2>2 DEF InFlight
<1>9. ASSUME NEW k \in evicted' PROVE k \in evicted \/ Sent(k)
  BY <1>0, <1>2, <1>3, <1>4 DEF Sent, InFlight
<1>. QED BY <1>0, <1>1, <1>2, <1>3, <1>4, <1>5, <1>6, <1>7, <1>8, <1>9

(* rb_reset is on record in the same way. *)
LEMMA ResetEffect ==
  ASSUME TypeOK, ring' = <<>>, evicted' = evicted \cup ControlIn(ring),
         UNCHANGED stashed
  PROVE  /\ InFlight' \subseteq InFlight
         /\ evicted' \subseteq Control /\ evicted \subseteq evicted'
         /\ \A x \in InFlight :
              x \in InFlight' \/ (x.kind \in Control => x.kind \in evicted')
         /\ \A k \in evicted' : k \in evicted \/ Sent(k)
<1>1. ring \in Seq(Frame) /\ evicted \subseteq Control
  BY DEF TypeOK, WorkerTypeOK, Frame
<1>2. DOMAIN ring' = {}
  OBVIOUS
<1>. QED BY <1>1, <1>2 DEF InFlight, ControlIn, Sent

(* Whatever is available is in flight, and the other way round. *)
LEMMA AvailableFrames ==
  ASSUME TypeOK
  PROVE  /\ Available \in Seq(Frame)
         /\ InFlight = {Available[i] : i \in DOMAIN Available}
         /\ Len(Available) = Len(stashed) + Len(ring)
         /\ \A i \in 1..Len(stashed) : Available[i] = stashed[i]
         /\ \A i \in 1..Len(ring) : Available[i + Len(stashed)] = ring[i]
         /\ Available # <<>> => Head(Available) = Available[1]
<1>1. stashed \in Seq(Frame) /\ ring \in Seq(Frame)
  BY DEF TypeOK, WorkerTypeOK, BackendTypeOK, Frame
<1>2. /\ Available \in Seq(Frame)
      /\ Len(Available) = Len(stashed) + Len(ring)
      /\ \A i \in 1..Len(stashed) + Len(ring) :
           Available[i] = IF i <= Len(stashed) THEN stashed[i]
                                               ELSE ring[i - Len(stashed)]
  BY <1>1, ConcatProperties DEF Available
<1>. HIDE DEF Available
<1>3. \A i \in 1..Len(stashed) : Available[i] = stashed[i]
  BY <1>1, <1>2
<1>4. \A i \in 1..Len(ring) : Available[i + Len(stashed)] = ring[i]
  BY <1>1, <1>2
<1>5. InFlight \subseteq {Available[i] : i \in DOMAIN Available}
  <2>1. \A i \in DOMAIN stashed : i \in DOMAIN Available
    BY <1>1, <1>2
  <2>2. \A i \in DOMAIN ring : i + Len(stashed) \in DOMAIN Available
    BY <1>1, <1>2
  <2>3. \A i \in DOMAIN stashed :
          stashed[i] \in {Available[j] : j \in DOMAIN Available}
    BY <1>1, <1>3, <2>1
  <2>4. \A i \in DOMAIN ring :
          ring[i] \in {Available[j] : j \in DOMAIN Available}
    BY <1>1, <1>4, <2>2
  <2>. QED BY <2>3, <2>4 DEF InFlight
<1>6. {Available[i] : i \in DOMAIN Available} \subseteq InFlight
  <2>1. ASSUME NEW i \in DOMAIN Available PROVE Available[i] \in InFlight
    <3>1. i \in 1..Len(stashed) + Len(ring)
      BY <1>2
    <3>2. CASE i <= Len(stashed)
      BY <1>1, <1>2, <3>1, <3>2 DEF InFlight
    <3>3. CASE ~(i <= Len(stashed))
      <4>1. i - Len(stashed) \in DOMAIN ring
        BY <1>1, <3>1, <3>3
      <4>. QED BY <1>1, <1>2, <3>1, <3>3, <4>1 DEF InFlight
    <3>. QED BY <3>2, <3>3
  <2>. QED BY <2>1
<1>. QED BY <1>2, <1>3, <1>4, <1>5, <1>6

(* A pop by await_response or drain takes the oldest frame of the ring;    *)
(* behind a DONE it leaves only what R printed on its own, behind a        *)
(* request nothing.                                                        *)
LEMMA RingPopEffect ==
  ASSUME TypeOK, OrderInv, ring # <<>>, stashed = <<>>, ring' = Tail(ring),
         \/ stashed' = <<>>
         \/ stashed' = <<Head(ring)>> /\ fiber' # "draining",
         idle' = idle
  PROVE  /\ ring' \in Seq(Frame) /\ Len(ring') <= RingSlots
         /\ Head(ring) = ring[1] /\ ring[1] \in InFlight
         /\ InFlight' \subseteq InFlight
         /\ \A x \in InFlight : x \in InFlight' \/ x = ring[1]
         /\ stashed' = <<>> =>
              /\ ring[1].kind = "DONE" => \A x \in InFlight' : x.cmd = NoCmd
              /\ ring[1].kind \in Request => InFlight' = {}
         /\ stashed' # <<>> => InFlight' = InFlight
         /\ OrderInv'
<1>1. ring \in Seq(Frame) /\ Len(ring) <= RingSlots
  BY InFlightType DEF TypeOK, WorkerTypeOK
<1>2. /\ ring' \in Seq(Frame) /\ Len(ring') = Len(ring) - 1
      /\ \A i \in 1..Len(ring') : ring'[i] = ring[i + 1]
      /\ Len(ring) \in Nat \ {0} /\ Head(ring) = ring[1]
  BY <1>1, TailPlaces
<1>3. \A i \in 1..Len(ring') : i + 1 \in 1..Len(ring)
  BY <1>2
<1>4. {ring'[i] : i \in DOMAIN ring'} \subseteq {ring[i] : i \in DOMAIN ring}
  BY <1>1, <1>2, <1>3
<1>5. ring[1] \in {ring[i] : i \in DOMAIN ring}
  BY <1>1, <1>2
<1>6. ASSUME NEW x \in {ring[i] : i \in DOMAIN ring}
      PROVE  x \in {ring'[i] : i \in DOMAIN ring'} \/ x = ring[1]
  <2>1. PICK i \in 1..Len(ring) : x = ring[i]
    BY <1>1, <1>6
  <2>2. CASE i = 1
    BY <2>1, <2>2
  <2>3. CASE i # 1
    <3>1. i - 1 \in 1..Len(ring') /\ (i - 1) + 1 = i
      BY <1>2, <2>3
    <3>2. x = ring'[i - 1] /\ i - 1 \in DOMAIN ring'
      BY <1>2, <2>1, <3>1
    <3>. QED BY <3>2
  <2>. QED BY <2>2, <2>3
<1>7. InFlight = {ring[i] : i \in DOMAIN ring}
  BY DEF InFlight
<1>8. CASE stashed' = <<>>
  <2>1. InFlight' = {ring'[i] : i \in DOMAIN ring'}
    BY <1>8 DEF InFlight
  <2>2. ring[1].kind = "DONE" => \A x \in InFlight' : x.cmd = NoCmd
    BY <1>1, <1>2, <1>3, <2>1 DEF OrderInv
  <2>3. ring[1].kind \in Request => InFlight' = {}
    <3>1. ring[1].kind \in Request => Len(ring) = 1
      BY <1>1, <1>2 DEF OrderInv
    <3>2. Len(ring') = 0 => DOMAIN ring' = {}
      BY <1>2
    <3>. QED BY <1>2, <2>1, <3>1, <3>2
  <2>4. OrderInv'
    <3>1. DOMAIN stashed' = {}
      BY <1>8
    <3>. HIDE <1>8
    <3>2. \A i \in DOMAIN ring' : ring'[i].kind = "DONE" => Len(ring') - i <= idle'
      <4>. SUFFICES ASSUME NEW i \in DOMAIN ring', ring'[i].kind = "DONE"
                    PROVE Len(ring') - i <= idle'
        OBVIOUS
      <4>1. i \in 1..Len(ring') /\ i + 1 \in DOMAIN ring
        BY <1>1, <1>2, <1>3
      <4>2. Len(ring) - (i + 1) <= idle
        BY <1>2, <4>1 DEF OrderInv
      <4>. QED BY <1>2, <4>1, <4>2 DEF TypeOK, WorkerTypeOK
    <3>3. \A i, j \in DOMAIN ring' :
            ring'[i].kind = "DONE" /\ i < j => ring'[j].cmd = NoCmd
      BY <1>1, <1>2, <1>3 DEF OrderInv
    <3>4. \A i \in DOMAIN ring' : ring'[i].kind \in Request => i = Len(ring')
      BY <1>1, <1>2, <1>3 DEF OrderInv
    <3>. QED BY <1>8, <3>1, <3>2, <3>3, <3>4 DEF OrderInv
  <2>. DEFINE R == {ring[i] : i \in DOMAIN ring}
              T == {ring'[i] : i \in DOMAIN ring'}
  <2>5. /\ InFlight = R /\ InFlight' = T /\ T \subseteq R /\ ring[1] \in R
        /\ \A x \in R : x \in T \/ x = ring[1]
    BY <1>4, <1>5, <1>6, <1>7, <2>1
  <2>6. Len(ring') <= RingSlots
    BY <1>1, <1>2
  <2>. HIDE DEF R, T
  <2>. QED BY <1>2, <1>8, <2>2, <2>3, <2>4, <2>5, <2>6
<1>9. CASE stashed' = <<ring[1]>> /\ fiber' # "draining"
  <2>1. stashed' # <<>> /\ DOMAIN stashed' = {1} /\ stashed'[1] = ring[1]
    BY <1>9
  <2>2. InFlight' = {ring[1]} \cup {ring'[i] : i \in DOMAIN ring'}
    BY <2>1 DEF InFlight
  <2>3. OrderInv'
    <3>2. \A i \in DOMAIN ring' : ring'[i].kind = "DONE" => Len(ring') - i <= idle'
      <4>. SUFFICES ASSUME NEW i \in DOMAIN ring', ring'[i].kind = "DONE"
                    PROVE Len(ring') - i <= idle'
        OBVIOUS
      <4>1. i \in 1..Len(ring') /\ i + 1 \in DOMAIN ring
        BY <1>1, <1>2, <1>3
      <4>2. Len(ring) - (i + 1) <= idle
        BY <1>2, <4>1 DEF OrderInv
      <4>. QED BY <1>2, <4>1, <4>2 DEF TypeOK, WorkerTypeOK
    <3>3. \A i, j \in DOMAIN ring' :
            ring'[i].kind = "DONE" /\ i < j => ring'[j].cmd = NoCmd
      BY <1>1, <1>2, <1>3 DEF OrderInv
    <3>4. \A i \in DOMAIN ring' : ring'[i].kind \in Request => i = Len(ring')
      BY <1>1, <1>2, <1>3 DEF OrderInv
    <3>5. \A j \in DOMAIN ring' : ring[1].kind = "DONE" => ring'[j].cmd = NoCmd
      BY <1>1, <1>2, <1>3 DEF OrderInv
    <3>6. ring[1].kind \in Request => ring' = <<>>
      BY <1>1, <1>2 DEF OrderInv
    <3>. QED BY <1>9, <2>1, <3>2, <3>3, <3>4, <3>5, <3>6 DEF OrderInv
  <2>. DEFINE R == {ring[i] : i \in DOMAIN ring}
              T == {ring'[i] : i \in DOMAIN ring'}
  <2>4. /\ InFlight = R /\ InFlight' = {ring[1]} \cup T /\ T \subseteq R
        /\ ring[1] \in R /\ \A x \in R : x \in T \/ x = ring[1]
    BY <1>4, <1>5, <1>6, <1>7, <2>2
  <2>. HIDE DEF R, T
  <2>5. InFlight' = InFlight
    BY <2>4
  <2>6. Len(ring') <= RingSlots
    BY <1>1, <1>2
  <2>. QED BY <1>2, <2>1, <2>3, <2>4, <2>5, <2>6
<1>. QED BY <1>2, <1>8, <1>9

(* pop: the stash first, then the ring. *)
LEMMA PopEffect ==
  ASSUME TypeOK, OrderInv, Available # <<>>, TakeFrame, idle' = idle,
         NEW r, r = Head(Available)
  PROVE  /\ ring' \in Seq(Frame) /\ Len(ring') <= RingSlots /\ stashed' = <<>>
         /\ r \in InFlight /\ r \in Frame
         /\ InFlight' \subseteq InFlight
         /\ \A x \in InFlight : x \in InFlight' \/ x = r
         /\ r.kind = "DONE" => \A x \in InFlight' : x.cmd = NoCmd
         /\ r.kind \in Request => InFlight' = {}
         /\ OrderInv'
<1>1. /\ stashed \in Seq(Frame) /\ ring \in Seq(Frame) /\ Len(ring) <= RingSlots
      /\ Len(stashed) <= 1
  BY InFlightType DEF TypeOK, WorkerTypeOK, BackendTypeOK
<1>2. CASE stashed = <<>>
  <2>1. Available = ring
    BY <1>1, <1>2 DEF Available
  <2>2. ring # <<>> /\ ring' = Tail(ring) /\ stashed' = <<>>
    BY <1>2, <2>1 DEF TakeFrame, rffi_rb_pop
  <2>. QED BY <1>2, <2>1, <2>2, RingPopEffect, InFlightType
<1>3. CASE stashed # <<>>
  <2>1. Len(stashed) = 1 /\ DOMAIN stashed = {1}
    <3>1. Len(stashed) \in Nat /\ Len(stashed) # 0
      BY <1>1, <1>3, EmptySeq
    <3>2. Len(stashed) <= 1
      BY <1>1
    <3>3. \A n \in Nat : n # 0 /\ n <= 1 => n = 1
      OBVIOUS
    <3>4. Len(stashed) = 1
      BY <3>1, <3>2, <3>3
    <3>. QED BY <1>1, <3>4
  <2>2. r = stashed[1]
    BY <1>1, <2>1, AvailableFrames
  <2>3. stashed' = <<>> /\ ring' = ring
    BY <1>3 DEF TakeFrame
  <2>4. InFlight = {r} \cup {ring[i] : i \in DOMAIN ring}
    BY <2>1, <2>2 DEF InFlight
  <2>5. InFlight' = {ring[i] : i \in DOMAIN ring}
    BY <2>3 DEF InFlight
  <2>6. DOMAIN <<>> = {}
    OBVIOUS
  <2>7. r.kind \in Request => ring = <<>>
    BY <2>1, <2>2 DEF OrderInv
  <2>8. r.kind \in Request => InFlight' = {}
    BY <2>5, <2>6, <2>7
  <2>9. r.kind = "DONE" => \A x \in InFlight' : x.cmd = NoCmd
    BY <2>1, <2>2, <2>5 DEF OrderInv
  <2>10. OrderInv'
    BY <2>3, <2>6 DEF OrderInv
  <2>. QED BY <1>1, <2>3, <2>4, <2>5, <2>8, <2>9, <2>10, InFlightType
<1>. QED BY <1>2, <1>3

(* A push keeps the order, if nothing is pushed behind a request and only  *)
(* what R prints on its own behind a DONE; and then it takes no request,   *)
(* and a DONE only when such output fills the ring.                        *)
LEMMA PushOrder ==
  ASSUME TypeOK, OrderInv, NEW m \in Frame, Push(m), UNCHANGED <<stashed, fiber>>,
         \A x \in InFlight : x.kind \notin Request,
         idle' \in Nat, idle' >= idle,
         DoneOut => m.cmd = NoCmd /\ m.kind # "DONE" /\ idle' > idle
  PROVE  OrderInv' /\ ("DONE" \in evicted' => "DONE" \in evicted \/ idle' >= RingSlots)
<1>0. /\ ring \in Seq(Frame) /\ Len(ring) <= RingSlots
      /\ ring' \in Seq(Frame) /\ idle \in Nat
  BY InFlightType, PushEffect DEF TypeOK, WorkerTypeOK
<1>1. /\ Len(ring') = Len(ring) - Lost + 1
      /\ \A i \in 1..Len(ring') :
           ring'[i] = IF i = Len(ring') THEN m ELSE ring[i + Lost]
      /\ Lost = 1 => Len(ring) = RingSlots /\ evicted' = evicted \cup (Control \cap {ring[1].kind})
      /\ Lost = 0 => evicted' = evicted
      /\ Lost \in {0, 1}
  BY <1>0, PushPlaces
<1>2. \A i \in 1..Len(ring') : i # Len(ring') => i + Lost \in 1..Len(ring)
  BY <1>0, <1>1
<1>3. \A i \in 1..Len(ring) : ring[i] \in InFlight
  BY <1>0 DEF InFlight
<1>4. ASSUME NEW i \in DOMAIN ring', ring'[i].kind = "DONE"
      PROVE  Len(ring') - i <= idle'
  <2>1. CASE i = Len(ring')
    BY <1>0, <2>1
  <2>2. CASE i # Len(ring')
    <3>1. i + Lost \in DOMAIN ring /\ ring[i + Lost].kind = "DONE"
      <4>1. i \in 1..Len(ring') /\ DOMAIN ring = 1..Len(ring)
        BY <1>0
      <4>2. ring'[i] = ring[i + Lost]
        BY <1>1, <2>2, <4>1
      <4>. QED BY <1>2, <1>4, <2>2, <4>1, <4>2
    <3>2. Len(ring) - (i + Lost) <= idle
      BY <3>1 DEF OrderInv
    <3>3. idle' > idle
      BY <1>0, <1>3, <3>1 DEF DoneOut
    <3>. QED BY <1>0, <1>1, <3>2, <3>3
  <2>. QED BY <2>1, <2>2
<1>5. ASSUME NEW i \in DOMAIN ring', NEW j \in DOMAIN ring',
             ring'[i].kind = "DONE", i < j
      PROVE  ring'[j].cmd = NoCmd
  <2>1. i + Lost \in DOMAIN ring /\ ring[i + Lost].kind = "DONE"
    BY <1>0, <1>1, <1>2, <1>5
  <2>2. CASE j = Len(ring')
    BY <1>0, <1>1, <1>3, <2>1, <2>2 DEF DoneOut
  <2>3. CASE j # Len(ring')
    <3>1. j + Lost \in DOMAIN ring /\ ring'[j] = ring[j + Lost]
      BY <1>0, <1>1, <1>2, <2>3
    <3>2. i + Lost < j + Lost
      BY <1>0, <1>1, <1>5
    <3>. QED BY <2>1, <3>1, <3>2 DEF OrderInv
  <2>. QED BY <2>2, <2>3
<1>6. ASSUME NEW i \in DOMAIN stashed, NEW j \in DOMAIN ring',
             stashed[i].kind = "DONE"
      PROVE  ring'[j].cmd = NoCmd
  <2>1. stashed[i] \in InFlight
    BY DEF InFlight
  <2>2. CASE j = Len(ring')
    BY <1>0, <1>1, <1>6, <2>1, <2>2 DEF DoneOut
  <2>3. CASE j # Len(ring')
    <3>1. j + Lost \in DOMAIN ring /\ ring'[j] = ring[j + Lost]
      BY <1>0, <1>1, <1>2, <2>3
    <3>. QED BY <1>6, <3>1 DEF OrderInv
  <2>. QED BY <2>2, <2>3
<1>7. ASSUME NEW i \in DOMAIN ring', ring'[i].kind \in Request
      PROVE  i = Len(ring')
  BY <1>0, <1>1, <1>2, <1>3, <1>7
<1>8. ASSUME NEW i \in DOMAIN stashed PROVE stashed[i].kind \notin Request
  BY DEF InFlight
<1>9. "DONE" \in evicted' => "DONE" \in evicted \/ idle' >= RingSlots
  <2>. SUFFICES ASSUME Lost = 1, ring[1].kind = "DONE" PROVE idle' >= RingSlots
    BY <1>1
  <2>1. 1 \in DOMAIN ring /\ Len(ring) = RingSlots
    BY <1>0, <1>1
  <2>2. Len(ring) - 1 <= idle /\ idle' > idle
    BY <1>0, <1>3, <2>1 DEF OrderInv, DoneOut
  <2>. QED BY <1>0, <2>1, <2>2
<1>. QED BY <1>4, <1>5, <1>6, <1>7, <1>8, <1>9 DEF OrderInv

-----------------------------------------------------------------------------
(* Types, and how far R is. *)

USE SessionAssumption
    DEF workerVars, mailboxes, gates, interrupts, startup, worker,
        backendVars, RestOfBackend, logVars, uiVars, prompt

(* A worker step pushes a frame, resets the ring or leaves it alone. *)
LEMMA WorkerFrames ==
  ASSUME TypeOK, WorkerStep
  PROVE  (\E m \in Frame : Push(m)) \/ ResetRing \/ UNCHANGED <<ring, evicted>>
<1>1. \A k \in Kind : Msg(k, NoCmd) \in Frame /\ Msg(k, code) \in Frame
  BY DEF Msg, Frame, TypeOK, WorkerTypeOK
<1>2. Kind = {"STDOUT", "IMAGE", "R_ERROR", "DONE", "PASSTHROUGH",
              "PASSTHROUGH_END", "READLINE", "COMPLETIONS"}
  BY DEF Kind
<1>. QED
  BY <1>1, <1>2
  DEF WorkerStep, LoadR, StartupPrint, StartupMessage, StartupReadline,
      InitDone, CheckShutdown, TakeCommand, TakeRunr, TakeCompletion,
      TakeNothing, StartEval, EvalOutput, AskReadline, GotReadline,
      AskPassthrough, GotPassthrough, ExitPassthrough, EvalError, EvalDone,
      FinishRunr, FinishCompletion, IdleOutput, IdleReadline, IdlePassthrough,
      Asker, EventsDone

(* A step of the worker thread keeps the types. *)
LEMMA WorkerTypes ==
  ASSUME TypeOK, Worker
  PROVE  TypeOK'
<1>1. ring' \in Seq(Frame) /\ Len(ring') <= RingSlots /\ evicted' \subseteq Control
  <2>1. CASE \E m \in Frame : Push(m)
    BY <2>1, PushEffect DEF Worker
  <2>2. CASE ResetRing
    BY <2>2, ResetEffect DEF ResetRing, Worker
  <2>3. CASE UNCHANGED <<ring, evicted>>
    BY <2>3, InFlightType DEF TypeOK, WorkerTypeOK
  <2>. QED BY <2>1, <2>2, <2>3, WorkerFrames DEF Worker
<1>2. WorkerTypeOK'
  <2>. USE DEF Worker, TypeOK, WorkerTypeOK, WorkerStep, LoadR, StartupPrint,
           StartupMessage, StartupReadline, InitDone, CheckShutdown,
           TakeCommand, TakeRunr, TakeCompletion, TakeNothing, ResetRing,
           StartEval, EvalOutput, AskReadline, GotReadline, AskPassthrough,
           GotPassthrough, ExitPassthrough, EvalError, EvalDone, FinishRunr,
           FinishCompletion, IdleOutput, IdleReadline, IdlePassthrough, Asker,
           EventsDone
  <2>1. pending_cmd' \in Int /\ code' \in Int /\ aimed' \in Int
    OBVIOUS
  <2>2. finished' = finished \/ finished' = finished \cup {code}
    OBVIOUS
  <2>3. finished' \subseteq Int
    BY <2>2
  <2>4. budget' \in 0..MaxOutput /\ idle' \in 0..MaxIdle
    OBVIOUS
  <2>5. wpc' \in WorkerPc /\ init_result' \in {"none", "ok", "failed"}
    BY DEF WorkerPc
  <2>6. UNCHANGED <<runr, shutdown_flag, starter>>
    OBVIOUS
  <2>7. pending_completion_line' \in BOOLEAN /\ pending_runr' \in BOOLEAN
    OBVIOUS
  <2>8. runr_done' \in BOOLEAN /\ init_output' \in BOOLEAN
    OBVIOUS
  <2>9. passthrough_gate' \in BOOLEAN /\ readline_gate' \in BOOLEAN
    OBVIOUS
  <2>10. interrupts_pending' \in BOOLEAN
    OBVIOUS
  <2>. HIDE DEF Worker, WorkerStep
  <2>. QED
    BY <1>1, <2>1, <2>3, <2>4, <2>5, <2>6, <2>7, <2>8, <2>9, <2>10
    DEF Frame
<1>. QED
  BY <1>2 DEF Worker, TypeOK, BackendTypeOK, LogTypeOK

(* How far R is after a step of the worker thread. *)
LEMMA WorkerLife ==
  ASSUME TypeOK, LifeInv, EvalInv, Worker
  PROVE  LifeInv'
BY DEF Worker, TypeOK, WorkerTypeOK, LifeInv, Evaluating, EvalInv,
    WorkerStep, LoadR, StartupPrint, StartupMessage, StartupReadline,
    InitDone, CheckShutdown, TakeCommand, TakeRunr, TakeCompletion,
    TakeNothing, ResetRing, StartEval, EvalOutput, AskReadline, GotReadline,
    AskPassthrough, GotPassthrough, ExitPassthrough, EvalError, EvalDone,
    FinishRunr, FinishCompletion, IdleOutput, IdleReadline, IdlePassthrough,
    Asker, EventsDone

(* The starting systhread, the event loop and the callers of run_r leave   *)
(* the worker where it is.                                                 *)
LEMMA OtherLife ==
  ASSUME TypeOK, LifeInv, Next, ~Worker
  PROVE  LifeInv'
<1>1. CASE Start
  <2>1. CASE CreateThread
    BY <1>1, <2>1 DEF Start, CreateThread, LifeInv, Evaluating
  <2>2. CASE StartReturns
    BY <1>1, <2>2 DEF Start, StartReturns, LifeInv
  <2>. QED BY <1>1, <2>1, <2>2 DEF Start, Starting
<1>2. CASE Await
  <2>1. UNCHANGED <<starter, wpc, init_result, code, ready>>
    BY <1>2
    DEF Await, AwaitStep, DeliverStartupOutput, PopNothing, PopSuppressed,
        PopOutput, DrainOutput, DrainEnd, PopDone, PopOther
  <2>. QED BY <2>1 DEF LifeInv, Evaluating
<1>3. CASE GetReady
  <2>1. /\ starter = "started" /\ ready' = TRUE
        /\ UNCHANGED <<starter, wpc, init_result, code>>
    BY <1>3 DEF GetReady, BecomeReady
  <2>. QED BY <2>1 DEF LifeInv
<1>4. CASE \/ StartFailed \/ Key \/ Resize \/ LoopResponse
           \/ PassthroughResponse \/ AiDone \/ Join \/ Leave
  <2>1. UNCHANGED <<starter, wpc, init_result, code, ready>>
    BY <1>4
    DEF StartFailed, Finally, Key, SubmitKey, AskKey, AiDone, CancelKey,
        ReadlineKey,
        CompletionKey, QuitKey, submit, background_submit, Resize,
        LoopResponse, PassthroughResponse, Join, Leave
  <2>. QED BY <2>1 DEF LifeInv, Evaluating
<1>5. CASE \E k \in Caller : CallTool(k) \/ ReturnTool(k)
  BY <1>5 DEF CallTool, ReturnTool, CallRunr, ReturnRunr, LifeInv
<1>. QED BY <1>1, <1>2, <1>3, <1>4, <1>5 DEF Next

(* A response that await_response returns has its type. *)
LEMMA ReturnType ==
  ASSUME NEW k \in Kind, NEW cmds \in SUBSET Int, Return(k, cmds)
  PROVE  /\ response' \in Seq([kind : Kind, cmds : SUBSET Int])
         /\ Len(response') = 1 /\ response' # <<>> /\ fiber' = "returned"
         /\ DOMAIN response' = {1}
         /\ response'[1].kind = k /\ response'[1].cmds = cmds
<1>. DEFINE r == [kind |-> k, cmds |-> cmds]
<1>1. r \in [kind : Kind, cmds : SUBSET Int] /\ r.kind = k /\ r.cmds = cmds
  OBVIOUS
<1>2. response' = <<r>> /\ fiber' = "returned"
  BY DEF Return
<1>. HIDE DEF r
<1>. QED BY <1>1, <1>2

(* flush_pending of ffi_backend.ml starts the oldest queued command. *)
LEMMA FlushEffect ==
  ASSUME TypeOK, NEW b \in BOOLEAN, NEW s \in BOOLEAN, flush_pending(b, s)
  PROVE  /\ busy' \in BOOLEAN /\ suppressing' \in BOOLEAN
         /\ pending' \in Seq(Int \ {NoCmd}) /\ pending_cmd' \in Int
         /\ pending = <<>> => /\ busy' = b /\ suppressing' = s
                              /\ pending' = pending
                              /\ pending_cmd' = pending_cmd
         /\ pending # <<>> =>
              /\ busy' = TRUE /\ suppressing' = IsBackground(pending_cmd')
              /\ pending_cmd' = pending[1] /\ pending_cmd' # NoCmd
              /\ Len(pending) \in Nat \ {0} /\ Len(pending') = Len(pending) - 1
              /\ \A i \in 1..Len(pending') : pending'[i] = pending[i + 1]
<1>1. pending \in Seq(Int \ {NoCmd}) /\ pending_cmd \in Int
  BY DEF TypeOK, WorkerTypeOK, BackendTypeOK
<1>2. CASE pending = <<>>
  BY <1>1, <1>2 DEF flush_pending
<1>3. CASE pending # <<>>
  <2>1. /\ busy' = TRUE /\ pending_cmd' = Head(pending)
        /\ pending' = Tail(pending)
        /\ suppressing' = IsBackground(Head(pending))
    BY <1>3 DEF flush_pending, start_eval, rffi_submit
  <2>2. /\ pending' \in Seq(Int \ {NoCmd}) /\ Len(pending') = Len(pending) - 1
        /\ \A i \in 1..Len(pending) - 1 : pending'[i] = pending[i + 1]
        /\ Len(pending) \in Nat \ {0} /\ Head(pending) = pending[1]
    BY <1>1, <1>3, <2>1, TailPlaces
  <2>3. pending[1] \in Int \ {NoCmd}
    BY <1>1, <2>2
  <2>4. suppressing' \in BOOLEAN
    BY <2>1 DEF IsBackground
  <2>. QED BY <1>3, <2>1, <2>2, <2>3, <2>4
<1>. QED BY <1>2, <1>3

(* A step of await_response keeps the types. *)
LEMMA AwaitTypes ==
  ASSUME TypeOK, OrderInv, Await
  PROVE  TypeOK'
<1>. DEFINE r == Head(Available)
<1>1. /\ UNCHANGED <<logVars, uiVars, pending_completion_line, pending_runr,
                     runr_done, runr, gates, interrupts, shutdown_flag,
                     startup, wpc, code, budget, idle, finished, evicted>>
      /\ AwaitStep
  BY DEF Await, AwaitStep
<1>2. /\ ring \in Seq(Frame) /\ Len(ring) <= RingSlots
      /\ stashed \in Seq(Frame) /\ Len(stashed) <= 1
      /\ buf \in SUBSET Int
      /\ response \in Seq([kind : Kind, cmds : SUBSET Int]) /\ Len(response) <= 1
      /\ fiber \in {"asleep", "popping", "draining", "returned"}
      /\ fiber = "returned" <=> response # <<>>
      /\ ready \in BOOLEAN /\ busy \in BOOLEAN /\ suppressing \in BOOLEAN
      /\ startup_output \in BOOLEAN
      /\ pending \in Seq(Int \ {NoCmd}) /\ pending_cmd \in Int
  BY InFlightType DEF TypeOK, WorkerTypeOK, BackendTypeOK
<1>3. <<>> \in Seq(Frame) /\ Len(<<>>) = 0
  OBVIOUS
<1>4. CanPop /\ TakeFrame =>
        /\ ring' \in Seq(Frame) /\ Len(ring') <= RingSlots /\ stashed' = <<>>
        /\ r.kind \in Kind /\ r.cmd \in Int
  <2>. SUFFICES ASSUME CanPop, TakeFrame
                PROVE  /\ ring' \in Seq(Frame) /\ Len(ring') <= RingSlots
                       /\ stashed' = <<>> /\ r \in Frame
    BY DEF Frame
  <2>. QED BY <1>1, PopEffect DEF CanPop
<1>. HIDE DEF r
<1>5. /\ ring' \in Seq(Frame) /\ Len(ring') <= RingSlots
      /\ stashed' \in Seq(Frame) /\ Len(stashed') <= 1
      /\ buf' \in SUBSET Int
      /\ response' \in Seq([kind : Kind, cmds : SUBSET Int]) /\ Len(response') <= 1
      /\ fiber' \in {"asleep", "popping", "draining", "returned"}
      /\ fiber' = "returned" <=> response' # <<>>
      /\ ready' \in BOOLEAN /\ busy' \in BOOLEAN /\ suppressing' \in BOOLEAN
      /\ startup_output' \in BOOLEAN
      /\ pending' \in Seq(Int \ {NoCmd}) /\ pending_cmd' \in Int
  <2>1. CASE DeliverStartupOutput
    <3>1. "STDOUT" \in Kind /\ {NoCmd} \in SUBSET Int
      BY DEF Kind
    <3>2. /\ response' \in Seq([kind : Kind, cmds : SUBSET Int])
          /\ Len(response') = 1 /\ response' # <<>> /\ fiber' = "returned"
      BY <2>1, <3>1, ReturnType DEF DeliverStartupOutput
    <3>3. startup_output' \in BOOLEAN
      BY <2>1 DEF DeliverStartupOutput
    <3>4. UNCHANGED <<ready, busy, suppressing, pending, stashed, buf, ring,
                      pending_cmd>>
      BY <2>1 DEF DeliverStartupOutput
    <3>. QED BY <1>2, <3>2, <3>3, <3>4
  <2>2. CASE PopNothing
    BY <1>2, <2>2 DEF PopNothing
  <2>3. CASE PopSuppressed
    BY <1>2, <1>3, <1>4, <2>3 DEF PopSuppressed, CanPop, Awaiting
  <2>4. CASE PopOutput
    BY <1>2, <1>3, <1>4, <2>4 DEF PopOutput, CanPop, Awaiting, r
  <2>5. CASE DrainOutput
    <3>1. ring # <<>> /\ stashed = <<>> /\ ring' = Tail(ring) /\ stashed' = <<>>
      BY <2>5 DEF DrainOutput, rffi_rb_pop, OrderInv
    <3>2. /\ ring' \in Seq(Frame) /\ Len(ring') <= RingSlots
          /\ Head(ring) = ring[1] /\ ring[1] \in InFlight
      BY <1>1, <3>1, RingPopEffect
    <3>3. Head(ring).cmd \in Int
      BY <3>2, InFlightType DEF Frame
    <3>. QED BY <1>2, <1>3, <2>5, <3>1, <3>2, <3>3 DEF DrainOutput
  <2>6. CASE DrainEnd
    <3>1. "STDOUT" \in Kind
      BY DEF Kind
    <3>2. /\ response' \in Seq([kind : Kind, cmds : SUBSET Int])
          /\ Len(response') = 1 /\ response' # <<>> /\ fiber' = "returned"
      BY <1>2, <2>6, <3>1, ReturnType DEF DrainEnd
    <3>3. CASE ring # <<>>
      <4>1. stashed = <<>> /\ stashed' = <<Head(ring)>> /\ ring' = Tail(ring)
        BY <2>6, <3>3 DEF DrainEnd, rffi_rb_pop, OrderInv
      <4>2. /\ ring' \in Seq(Frame) /\ Len(ring') <= RingSlots
            /\ Head(ring) = ring[1] /\ ring[1] \in InFlight
        BY <1>1, <3>2, <3>3, <4>1, RingPopEffect
      <4>3. Head(ring) \in Frame
        BY <4>2, InFlightType
      <4>4. stashed' \in Seq(Frame) /\ Len(stashed') = 1
        BY <4>1, <4>3
      <4>. QED BY <1>2, <2>6, <3>2, <4>2, <4>4 DEF DrainEnd
    <3>4. CASE ring = <<>>
      BY <1>2, <1>3, <2>6, <3>2, <3>4 DEF DrainEnd
    <3>. QED BY <3>3, <3>4
  <2>7. CASE PopDone
    <3>1. /\ busy' \in BOOLEAN /\ suppressing' \in BOOLEAN
          /\ pending' \in Seq(Int \ {NoCmd}) /\ pending_cmd' \in Int
      BY <2>7, FlushEffect DEF PopDone
    <3>2. CASE busy' \/ suppressing
      BY <1>2, <1>3, <1>4, <2>7, <3>1, <3>2 DEF PopDone, CanPop, Awaiting
    <3>3. CASE ~(busy' \/ suppressing)
      <4>1. "DONE" \in Kind /\ {r.cmd} \in SUBSET Int
        BY <1>4, <2>7 DEF Kind, PopDone
      <4>2. Return("DONE", {r.cmd})
        BY <2>7, <3>3 DEF PopDone, r
      <4>3. /\ response' \in Seq([kind : Kind, cmds : SUBSET Int])
            /\ Len(response') = 1 /\ response' # <<>> /\ fiber' = "returned"
        BY <4>1, <4>2, ReturnType
      <4>. QED BY <1>2, <1>3, <1>4, <2>7, <3>1, <4>3 DEF PopDone
    <3>. QED BY <3>2, <3>3
  <2>8. CASE PopOther
    <3>1. r.kind \in Kind /\ {r.cmd} \in SUBSET Int
      BY <1>4, <2>8 DEF PopOther
    <3>2. Return(r.kind, {r.cmd})
      BY <2>8 DEF PopOther, r
    <3>3. /\ response' \in Seq([kind : Kind, cmds : SUBSET Int])
          /\ Len(response') = 1 /\ response' # <<>> /\ fiber' = "returned"
      BY <3>1, <3>2, ReturnType
    <3>. QED BY <1>2, <1>3, <1>4, <2>8, <3>3 DEF PopOther
  <2>. QED BY <1>1, <2>1, <2>2, <2>3, <2>4, <2>5, <2>6, <2>7, <2>8 DEF AwaitStep
<1>. QED
  BY <1>1, <1>5 DEF TypeOK, WorkerTypeOK, BackendTypeOK, LogTypeOK, Frame

(* finish_active and add_to_history keep a table of rows. *)
LEMMA FinishedType ==
  ASSUME LogTypeOK, NEW s \in {"done", "interrupted"}
  PROVE  /\ Finished(s) \in [Row -> {"absent", "running", "done", "error", "interrupted"}]
         /\ \A r \in Row : Finished(s)[r] = "done" =>
              status[r] = "done" \/ (s = "done" /\ r = active_command_id)
BY DEF LogTypeOK, Finished, NoRow

(* Keys keep the types. *)
LEMMA KeyTypes ==
  ASSUME TypeOK, Key \/ Resize \/ StartFailed
  PROVE  TypeOK'
<1>1. /\ LogTypeOK /\ nsub \in 0..MaxCmd /\ pending \in Seq(Int \ {NoCmd}) 
      /\ (nsub < MaxCmd => nsub + 1 \in Int \ {NoCmd} /\ -(nsub + 1) \in Int \ {NoCmd} /\ nsub + 1 \in Row
                        /\ nsub + 1 \in 0..MaxCmd)
  BY DEF TypeOK, BackendTypeOK, Row, CommandRow
<1>2. CASE SubmitKey
  <2>1. /\ status' \in [Row -> {"absent", "running", "done", "error", "interrupted"}]
        /\ active_command_id' \in Row \cup {NoRow}
        /\ active_command_had_error' \in BOOLEAN
        /\ outputs' = outputs /\ asked' = asked
    <3>1. Finished("interrupted") \in [Row -> {"absent", "running", "done", "error", "interrupted"}]
      BY <1>1, FinishedType
    <3>2. nsub + 1 \notin Query
      BY <1>1, <1>2 DEF SubmitKey
    <3>. QED BY <1>1, <1>2, <3>1, <3>2 DEF SubmitKey, add_to_history
  <2>2. /\ pending' \in Seq(Int \ {NoCmd}) /\ pending_cmd' \in Int
        /\ busy' \in BOOLEAN /\ suppressing' \in BOOLEAN
    <3>. DEFINE c == nsub + 1
    <3>1. c \in Int \ {NoCmd} /\ submit(c)
      BY <1>1, <1>2 DEF SubmitKey
    <3>. HIDE DEF c
    <3>2. Append(pending, c) \in Seq(Int \ {NoCmd})
      BY <1>1, <3>1
    <3>3. pending' \in Seq(Int \ {NoCmd}) /\ pending_cmd' \in Int
      BY <1>1, <3>1, <3>2
      DEF submit, start_eval, rffi_submit, TypeOK, WorkerTypeOK
    <3>4. busy' \in BOOLEAN /\ suppressing' \in BOOLEAN
      BY <3>1 DEF submit, start_eval, TypeOK, BackendTypeOK
    <3>. QED BY <3>3, <3>4
  <2>3. nsub' \in 0..MaxCmd /\ awaiting_response' \in BOOLEAN
    BY <1>1, <1>2 DEF SubmitKey
  <2>. QED BY <1>2, <2>1, <2>2, <2>3
       DEF SubmitKey, submit, TypeOK, WorkerTypeOK, BackendTypeOK, LogTypeOK
<1>3. CASE CancelKey \/ QuitKey \/ StartFailed
  <2>1. finish_active("interrupted")
    BY <1>3 DEF CancelKey, QuitKey, StartFailed, Finally
  <2>2. LogTypeOK'
    <3>1. Finished("interrupted") \in [Row -> {"absent", "running", "done", "error", "interrupted"}]
      BY <1>1, FinishedType
    <3>2. active_command_had_error' \in BOOLEAN
      BY <2>1 DEF finish_active
    <3>. QED BY <1>1, <2>1, <3>1, <3>2 DEF finish_active, LogTypeOK
  <2>3. interrupts_pending' \in BOOLEAN /\ aimed' \in Int
    BY <1>3
    DEF CancelKey, QuitKey, StartFailed, Finally, rffi_interrupt, TypeOK,
        WorkerTypeOK
  <2>4. shutdown_flag' \in BOOLEAN /\ awaiting_response' \in BOOLEAN
    BY <1>3 DEF CancelKey, QuitKey, StartFailed, Finally, TypeOK, WorkerTypeOK
  <2>5. session' \in {"loop", "passthrough", "joining", "leaving", "closed",
                      "crashed"}
    BY <1>3 DEF CancelKey, QuitKey, StartFailed, Finally, TypeOK
  <2>6. UNCHANGED <<backendVars, mode, nsub, owed, discarded, ring, mailboxes, gates,
                    startup, wpc, code, budget, idle, finished, evicted>>
    BY <1>3 DEF CancelKey, QuitKey, StartFailed, Finally
  <2>. QED
    BY <2>2, <2>3, <2>4, <2>5, <2>6 DEF TypeOK, WorkerTypeOK, BackendTypeOK
<1>4. CASE ReadlineKey
  <2>1. readline_gate' \in BOOLEAN /\ awaiting_response' \in BOOLEAN
    BY <1>4 DEF ReadlineKey, rffi_submit_readline_input, TypeOK
  <2>2. mode' \in {"Normal", "Readline"}
    BY <1>4 DEF ReadlineKey
  <2>3. UNCHANGED <<backendVars, logVars, session, nsub, owed, discarded, ring,
                    mailboxes, passthrough_gate, interrupts, shutdown_flag,
                    startup, wpc, code, budget, idle, finished, evicted>>
    BY <1>4 DEF ReadlineKey
  <2>. QED
    BY <2>1, <2>2, <2>3 DEF TypeOK, WorkerTypeOK, BackendTypeOK, LogTypeOK
<1>5. CASE CompletionKey
  BY <1>5 DEF CompletionKey, request_completions, rffi_request_completions,
              TypeOK, WorkerTypeOK, BackendTypeOK, LogTypeOK
<1>6. CASE Resize
  <2>1. /\ pending' \in Seq(Int \ {NoCmd}) /\ pending_cmd' \in Int
        /\ busy' \in BOOLEAN /\ suppressing' \in BOOLEAN
    <3>. DEFINE c == -(nsub + 1)
    <3>1. c \in Int \ {NoCmd} /\ background_submit(c)
      BY <1>1, <1>6 DEF Resize
    <3>. HIDE DEF c
    <3>2. Append(pending, c) \in Seq(Int \ {NoCmd})
      BY <1>1, <3>1
    <3>3. pending' \in Seq(Int \ {NoCmd}) /\ pending_cmd' \in Int
      BY <1>1, <3>1, <3>2
      DEF background_submit, start_eval, rffi_submit, TypeOK, WorkerTypeOK
    <3>4. busy' \in BOOLEAN /\ suppressing' \in BOOLEAN
      BY <3>1 DEF background_submit, start_eval, TypeOK, BackendTypeOK
    <3>. QED BY <3>3, <3>4
  <2>2. nsub' \in 0..MaxCmd
    BY <1>1, <1>6 DEF Resize
  <2>3. UNCHANGED <<logVars, awaiting_response, mode, session, owed, discarded,
                    ring, pending_completion_line, pending_runr, runr_done,
                    runr, gates, interrupts, shutdown_flag, startup, wpc, code,
                    budget, idle, finished, evicted, ready, stashed,
                    startup_output, fiber, buf, response>>
    BY <1>6 DEF Resize, background_submit
  <2>4. WorkerTypeOK'
    BY <2>1, <2>3 DEF TypeOK, WorkerTypeOK
  <2>5. BackendTypeOK'
    BY <2>1, <2>3 DEF TypeOK, BackendTypeOK
  <2>6. LogTypeOK'
    BY <2>3 DEF TypeOK, LogTypeOK
  <2>. QED BY <2>2, <2>3, <2>4, <2>5, <2>6 DEF TypeOK
<1>7. CASE AskKey
  <2>1. PICK q \in Query :
          /\ owed' = owed \cup {q}
          /\ add_to_history(q, nsub) \/ UNCHANGED logVars
    BY <1>7 DEF AskKey
  <2>2. LogTypeOK'
    <3>1. CASE UNCHANGED logVars
      BY <1>1, <3>1 DEF LogTypeOK
    <3>2. CASE add_to_history(q, nsub)
      <4>1. Finished("interrupted") \in [Row -> {"absent", "running", "done", "error", "interrupted"}]
        BY <1>1, FinishedType
      <4>2. asked' \in [Query -> 0..MaxCmd]
        BY <1>1, <3>2 DEF add_to_history, LogTypeOK
      <4>. QED BY <1>1, <3>2, <4>1, <4>2 DEF add_to_history, LogTypeOK, Row
    <3>. QED BY <2>1, <3>1, <3>2
  <2>3. owed' \subseteq Query
    BY <2>1 DEF TypeOK
  <2>. QED
    BY <1>7, <2>2, <2>3
    DEF AskKey, TypeOK, workerVars, WorkerTypeOK, BackendTypeOK
<1>. QED BY <1>2, <1>3, <1>4, <1>5, <1>6, <1>7 DEF Key

(* A response that is handled: how the log and the screen change. *)
LEMMA ResponseTypes ==
  ASSUME TypeOK, NumberInv, LoopResponse \/ PassthroughResponse
  PROVE  TypeOK'
<1>. DEFINE r == Head(response)
<1>1. /\ response # <<>> /\ response' = <<>> /\ fiber' = "asleep"
  BY DEF LoopResponse, PassthroughResponse, Taken
<1>2. /\ r = response[1] /\ 1 \in DOMAIN response
      /\ r.kind \in Kind /\ r.cmds \in SUBSET Int
  <2>1. response \in Seq([kind : Kind, cmds : SUBSET Int])
    BY DEF TypeOK, BackendTypeOK
  <2>2. r = response[1] /\ Len(response) \in Nat \ {0}
    BY <1>1, <2>1, TailPlaces
  <2>3. 1 \in DOMAIN response /\ 1 \in 1..Len(response)
    BY <2>1, <2>2
  <2>. DEFINE S == [kind : Kind, cmds : SUBSET Int]
  <2>4. response[1] \in S
    <3>1. response \in Seq(S)
      BY <2>1
    <3>. HIDE DEF S
    <3>. QED BY <2>3, <3>1, ElementOfSeq
  <2>. HIDE DEF r
  <2>. QED BY <2>2, <2>3, <2>4
<1>3. r.cmds \subseteq -MaxCmd..MaxCmd
  BY <1>2 DEF NumberInv, TypeOK, Abs
<1>4. ControlIn(<<r>>) \subseteq Control
  BY DEF ControlIn
<1>. HIDE DEF r
<1>5. LogTypeOK' /\ awaiting_response' \in BOOLEAN
      /\ mode' \in {"Normal", "Readline"}
      /\ session' \in {"loop", "passthrough"}
      /\ nsub' = nsub /\ owed' = owed /\ discarded' \subseteq Control
      /\ passthrough_gate' \in BOOLEAN
  <2>. USE DEF TypeOK, WorkerTypeOK
  <2>1. CASE PassthroughResponse
    BY <1>4, <2>1 DEF PassthroughResponse, r, LogTypeOK
  <2>2. CASE LoopResponse /\ ShowOutput(r)
    <3>1. outputs' \subseteq Row \X (-MaxCmd..MaxCmd)
      BY <1>3, <2>2 DEF ShowOutput, record_output, LogTypeOK
    <3>2. active_command_had_error' \in BOOLEAN
      BY <2>2 DEF ShowOutput, record_output
    <3>. QED
      BY <2>2, <3>1, <3>2
      DEF LoopResponse, ShowOutput, record_output, LogTypeOK
  <2>3. CASE LoopResponse /\ ShowDone(r)
    <3>1. Finished("done") \in [Row -> {"absent", "running", "done", "error", "interrupted"}]
      BY FinishedType
    <3>2. active_command_had_error' \in BOOLEAN
      BY <2>3 DEF ShowDone, finish_active
    <3>. QED
      BY <2>3, <3>1, <3>2
      DEF LoopResponse, ShowDone, finish_active, LogTypeOK
  <2>4. CASE LoopResponse /\ (ShowReadline(r) \/ EnterPassthrough(r) \/ ShowRest(r))
    BY <2>4
    DEF LoopResponse, ShowReadline, EnterPassthrough, ShowRest,
        rffi_signal_passthrough, LogTypeOK
  <2>5. CASE LoopResponse /\ LoseRace(r)
    BY <1>4, <2>5 DEF LoopResponse, LoseRace, LogTypeOK
  <2>. QED BY <2>1, <2>2, <2>3, <2>4, <2>5 DEF LoopResponse, r
<1>6. UNCHANGED <<RestOfBackend, ring, mailboxes, readline_gate, interrupts,
                  shutdown_flag, startup, wpc, code, budget, idle, finished,
                  evicted>>
  BY DEF LoopResponse, PassthroughResponse
<1>. QED BY <1>1, <1>5, <1>6 DEF TypeOK, WorkerTypeOK, BackendTypeOK

(* The other steps keep the types. *)
LEMMA OtherTypes ==
  ASSUME TypeOK,
         \/ Start \/ GetReady \/ Join \/ Leave \/ AiDone
         \/ \E k \in Caller : CallTool(k) \/ ReturnTool(k)
  PROVE  TypeOK'
<1>1. CASE Start
  <2>1. /\ starter' \in {"starting", "waiting", "failed", "started"}
        /\ wpc' \in WorkerPc
        /\ UNCHANGED <<ring, worker, init_result, init_output, idle, evicted>>
    BY <1>1
    DEF Start, Starting, CreateThread, StartReturns, TypeOK, WorkerTypeOK,
        WorkerPc
  <2>. QED
    BY <1>1, <2>1
    DEF Start, TypeOK, WorkerTypeOK, BackendTypeOK, LogTypeOK
<1>2. CASE GetReady
  <2>1. /\ busy' \in BOOLEAN /\ suppressing' \in BOOLEAN
        /\ pending' \in Seq(Int \ {NoCmd}) /\ pending_cmd' \in Int
    <3>1. busy \in BOOLEAN /\ suppressing \in BOOLEAN
      BY DEF TypeOK, BackendTypeOK
    <3>. QED BY <1>2, <3>1, FlushEffect DEF GetReady, BecomeReady
  <2>2. /\ ready' = TRUE /\ startup_output' = init_output
        /\ init_output' = FALSE
        /\ UNCHANGED <<stashed, fiber, buf, response>>
    BY <1>2 DEF GetReady, BecomeReady, rffi_take_init_output
  <2>3. ready' \in BOOLEAN /\ startup_output' \in BOOLEAN /\ init_output' \in BOOLEAN
    BY <2>2 DEF TypeOK, WorkerTypeOK
  <2>4. UNCHANGED <<logVars, uiVars, ring, pending_completion_line, pending_runr,
                    runr_done, runr, gates, interrupts, shutdown_flag, starter,
                    init_result, wpc, code, budget, idle, finished, evicted,
                    stashed, fiber, buf, response>>
    BY <1>2, <2>2 DEF GetReady
  <2>. QED
    BY <2>1, <2>3, <2>4
    DEF TypeOK, WorkerTypeOK, BackendTypeOK, LogTypeOK
<1>3. CASE Join \/ Leave
  <2>1. session' \in {"loop", "passthrough", "joining", "leaving", "closed",
                      "crashed"}
    BY <1>3 DEF Join, Leave
  <2>2. UNCHANGED <<workerVars, backendVars, logVars, awaiting_response, mode,
                    nsub, owed, discarded>>
    BY <1>3 DEF Join, Leave
  <2>. QED BY <2>1, <2>2 DEF TypeOK, WorkerTypeOK, BackendTypeOK, LogTypeOK
<1>4. ASSUME NEW k \in Caller, CallTool(k) \/ ReturnTool(k) PROVE TypeOK'
  <2>1. runr' \in [Caller -> {"out", "waiting"}]
    BY <1>4 DEF CallTool, ReturnTool, CallRunr, ReturnRunr, TypeOK, WorkerTypeOK
  <2>2. /\ pending_runr' \in BOOLEAN /\ runr_done' \in BOOLEAN
        /\ UNCHANGED <<ring, pending_cmd, pending_completion_line, gates,
                 interrupts, shutdown_flag, startup, wpc, code, budget, idle,
                 finished, evicted, backendVars, logVars, uiVars>>
    BY <1>4 DEF CallTool, ReturnTool, CallRunr, ReturnRunr, TypeOK, WorkerTypeOK
  <2>. QED BY <2>1, <2>2 DEF TypeOK, WorkerTypeOK, BackendTypeOK, LogTypeOK
<1>5. CASE AiDone
  <2>1. owed' \subseteq Query /\ awaiting_response' \in BOOLEAN
    BY <1>5 DEF AiDone, TypeOK
  <2>2. UNCHANGED <<workerVars, backendVars, logVars, mode, session, nsub,
                    discarded>>
    BY <1>5 DEF AiDone
  <2>. QED BY <2>1, <2>2 DEF TypeOK, WorkerTypeOK, BackendTypeOK, LogTypeOK
<1>. QED BY <1>1, <1>2, <1>3, <1>4, <1>5

-----------------------------------------------------------------------------
(* The order of the frames, and the one evaluation that is out. *)

(* A frame the worker pushes has the command it works on, or none. *)
LEMMA MsgFrame ==
  ASSUME TypeOK
  PROVE  \A k \in Kind : \A c \in {NoCmd, code} :
           /\ Msg(k, c) \in Frame
           /\ Msg(k, c).kind = k /\ Msg(k, c).cmd = c
BY DEF Msg, Frame, TypeOK, WorkerTypeOK

(* Nobody pushes behind a request: its sender is at the gate. *)
LEMMA NoRequestOut ==
  ASSUME ReadlineInv, PassthroughInv, wpc \notin {"readline", "gate"}
  PROVE  \A x \in InFlight : x.kind \notin Request
BY DEF ReadlineInv, PassthroughInv, Sent, Request

(* When R starts, or works on a command, or completes, no DONE is out. *)
LEMMA NoDoneOut ==
  ASSUME LifeInv, EvalInv,
         wpc \in {"startup", "completing"} \/ code # NoCmd
  PROVE  ~DoneOut
BY DEF LifeInv, EvalInv

(* While the worker is not at a gate, its steps keep the order of the      *)
(* frames; and the ring gives up a DONE only to idle output that fills it. *)
LEMMA WorkerOrder ==
  ASSUME SessionInv, Worker
  PROVE  OrderInv' /\ ("DONE" \in evicted' => idle' >= RingSlots)
<1>. USE DEF SessionInv
<1>1. /\ UNCHANGED <<stashed, fiber>> /\ WorkerStep
      /\ idle' \in Nat /\ idle \in Nat /\ idle' >= idle
  <2>1. UNCHANGED <<stashed, fiber>> /\ WorkerStep
    BY DEF Worker
  <2>2. idle \in Nat /\ (idle' = idle \/ idle' = idle + 1)
    BY <2>1 DEF TypeOK, WorkerTypeOK,
     WorkerStep, LoadR, StartupPrint, StartupMessage, StartupReadline,
     InitDone, CheckShutdown, TakeCommand, TakeRunr, TakeCompletion,
     TakeNothing, ResetRing, StartEval, EvalOutput, AskReadline, GotReadline,
     AskPassthrough, GotPassthrough, ExitPassthrough, EvalError, EvalDone,
     FinishRunr, FinishCompletion, IdleOutput, IdleReadline, IdlePassthrough,
     Asker, EventsDone
  <2>. QED BY <2>1, <2>2
<1>2. "DONE" \in evicted => idle >= RingSlots
  BY DEF EvalInv
<1>3. CASE UNCHANGED <<ring, evicted>>
  <2>1. "DONE" \in evicted' => idle' >= RingSlots
    BY <1>1, <1>2, <1>3
  <2>2. \A n \in Int : n <= idle => n <= idle'
    BY <1>1
  <2>3. ring \in Seq(Frame)
    BY InFlightType
  <2>4. \A i \in DOMAIN ring : ring[i].kind = "DONE" => Len(ring) - i <= idle'
    BY <2>2, <2>3 DEF OrderInv
  <2>. QED BY <1>1, <1>3, <2>1, <2>4 DEF OrderInv
<1>4. CASE ResetRing
  <2>1. ring' = <<>> /\ DOMAIN ring' = {} /\ idle' = idle
    BY <1>4 DEF ResetRing
  <2>2. ~Sent("DONE")
    BY <1>4, NoDoneOut DEF ResetRing, LifeInv, Evaluating, Sent, DoneOut
  <2>3. "DONE" \notin evicted' \/ "DONE" \in evicted
    BY <1>1, <1>4, <2>2, ResetEffect DEF ResetRing
  <2>4. OrderInv'
    BY <1>1, <2>1 DEF OrderInv
  <2>. QED BY <1>2, <2>1, <2>3, <2>4
<1>5. ASSUME ~UNCHANGED <<ring, evicted>>, ~ResetRing
      PROVE  \E m \in Frame :
               /\ Push(m) /\ wpc \notin {"readline", "gate"}
               /\ DoneOut => m.cmd = NoCmd /\ m.kind # "DONE" /\ idle' > idle
  <2>1. \A k \in Kind : \A c \in {NoCmd, code} :
          /\ Msg(k, c) \in Frame
          /\ Msg(k, c).kind = k /\ Msg(k, c).cmd = c
    BY MsgFrame
  <2>2. wpc \in {"startup", "completing"} \/ code # NoCmd => ~DoneOut
    BY NoDoneOut
  <2>3. /\ wpc \in {"eval", "failed"} => code # NoCmd
        /\ wpc = "system" => ~DoneOut
    BY DEF LifeInv, Evaluating, PassthroughInv
  <2>4. CASE wpc = "events"
    <3>1. /\ \E k \in OutputKind \cup Request : Push(Msg(k, NoCmd))
          /\ idle' = idle + 1
      BY <1>1, <1>5, <2>4
      DEF WorkerStep, LoadR, StartupPrint, StartupMessage, StartupReadline,
          InitDone, CheckShutdown, TakeCommand, TakeRunr, TakeCompletion,
          TakeNothing, ResetRing, StartEval, EvalOutput, AskReadline,
          GotReadline, AskPassthrough, GotPassthrough, ExitPassthrough,
          EvalError, EvalDone, FinishRunr, FinishCompletion, IdleOutput,
          IdleReadline, IdlePassthrough, EventsDone, Request
    <3>2. PICK k \in OutputKind \cup Request : Push(Msg(k, NoCmd))
      BY <3>1
    <3>3. k \in Kind /\ k # "DONE" /\ idle' > idle
      BY <1>1, <3>1 DEF Kind, Request
    <3>. QED BY <2>1, <2>4, <3>2, <3>3
  <2>5. CASE wpc # "events"
    <3>1. wpc \in {"startup", "completing", "eval", "failed", "system"}
      BY <1>1, <1>5, <2>5
      DEF WorkerStep, LoadR, StartupPrint, StartupMessage, StartupReadline,
          InitDone, CheckShutdown, TakeCommand, TakeRunr, TakeCompletion,
          TakeNothing, StartEval, EvalOutput, AskReadline, GotReadline,
          AskPassthrough, GotPassthrough, ExitPassthrough, EvalError,
          EvalDone, FinishRunr, FinishCompletion, IdleOutput, IdleReadline,
          IdlePassthrough, Asker, EventsDone
    <3>2. \E m \in Frame : Push(m)
      BY <1>1, <1>5, WorkerFrames
    <3>. QED BY <2>2, <2>3, <3>1, <3>2
  <2>. QED BY <2>4, <2>5
<1>6. CASE ~UNCHANGED <<ring, evicted>> /\ ~ResetRing
  <2>1. PICK m \in Frame :
               /\ Push(m) /\ wpc \notin {"readline", "gate"}
               /\ DoneOut => m.cmd = NoCmd /\ m.kind # "DONE" /\ idle' > idle
    BY <1>5, <1>6
  <2>2. \A x \in InFlight : x.kind \notin Request
    BY <2>1, NoRequestOut
  <2>3. OrderInv' /\ ("DONE" \in evicted' => "DONE" \in evicted \/ idle' >= RingSlots)
    BY <1>1, <2>1, <2>2, PushOrder
  <2>. QED BY <1>1, <1>2, <2>3
<1>. QED BY <1>3, <1>4, <1>6

(* busy stays in step with the worker while it works. *)
LEMMA WorkerEval ==
  ASSUME SessionInv, Worker
  PROVE  EvalInv'
<1>. USE DEF SessionInv
<1>1. "DONE" \in evicted' => idle' >= RingSlots
  BY WorkerOrder
<1>2. UNCHANGED <<stashed, ready, busy, pending>> /\ WorkerStep
  BY DEF Worker
<1>3. \A m \in Frame : Push(m) =>
        /\ evicted \subseteq evicted'
        /\ m \in InFlight' /\ InFlight' \subseteq InFlight \cup {m}
        /\ \A x \in InFlight :
              x \in InFlight' \/ (x.kind \in Control => x.kind \in evicted')
  BY <1>2, PushEffect
<1>4. \A k \in Kind : \A c \in {NoCmd, code} :
          /\ Msg(k, c) \in Frame
          /\ Msg(k, c).kind = k /\ Msg(k, c).cmd = c
    BY MsgFrame
<1>5. "DONE" \in Control /\ {"STDOUT", "IMAGE", "R_ERROR", "DONE", "PASSTHROUGH",
         "PASSTHROUGH_END", "READLINE", "COMPLETIONS"} = Kind
  BY DEF Control, Kind
<1>6. CASE UNCHANGED <<ring, evicted>> /\ ~EvalDone
  <2>1. InFlight' = InFlight /\ DoneOut' = DoneOut
    BY <1>2, <1>6 DEF InFlight, DoneOut
  <2>. USE DEF WorkerStep, LoadR, StartupPrint, StartupMessage,
           StartupReadline, InitDone, CheckShutdown, TakeCommand, TakeRunr,
           TakeCompletion, TakeNothing, ResetRing, StartEval, EvalOutput,
           AskReadline, GotReadline, AskPassthrough, GotPassthrough,
           ExitPassthrough, EvalError, FinishRunr, FinishCompletion,
           IdleOutput, IdleReadline, IdlePassthrough, Asker, EventsDone
  <2>2. pending_completion_line' => pending_completion_line
    BY <1>2, <1>6
  <2>3. wpc' = "completing" => pending_completion_line
    BY <1>2, <1>6
  <2>4. CASE TakeCommand
    <3>1. code = NoCmd
      BY <2>4 DEF LifeInv, Evaluating
    <3>. HIDE DEF WorkerStep
    <3>. QED BY <1>1, <1>2, <1>6, <2>1, <2>4, <3>1 DEF EvalInv
  <2>5. CASE ~TakeCommand
    <3>1. UNCHANGED <<code, pending_cmd>>
      BY <1>2, <1>6, <2>5
    <3>. HIDE DEF WorkerStep
    <3>. QED BY <1>1, <1>2, <1>6, <2>1, <2>2, <2>3, <3>1 DEF EvalInv
  <2>. QED BY <2>4, <2>5
<1>7. CASE ResetRing
  <2>1. InFlight' \subseteq InFlight /\ evicted \subseteq evicted'
    BY <1>2, <1>7, ResetEffect DEF ResetRing
  <2>2. code # NoCmd /\ UNCHANGED <<code, pending_cmd, pending_completion_line>>
    BY <1>7 DEF ResetRing, LifeInv, Evaluating
  <2>. QED BY <1>1, <1>2, <2>1, <2>2 DEF EvalInv, DoneOut
<1>8. CASE EvalDone
  <2>1. /\ Push(Msg("DONE", code)) /\ code # NoCmd /\ code' = NoCmd
        /\ UNCHANGED <<pending_cmd, pending_completion_line>> /\ wpc' = "events"
    BY <1>8 DEF EvalDone, LifeInv, Evaluating
  <2>. DEFINE m == Msg("DONE", code)
  <2>2. /\ m \in InFlight' /\ InFlight' \subseteq InFlight \cup {m}
        /\ m.kind = "DONE" /\ m.cmd # NoCmd
    BY <1>3, <1>4, <1>5, <2>1
  <2>. HIDE DEF m
  <2>3. DoneOut'
    BY <2>2 DEF DoneOut
  <2>. QED BY <1>1, <1>2, <2>1, <2>2, <2>3 DEF EvalInv
<1>9. CASE /\ ~UNCHANGED <<ring, evicted>> /\ ~ResetRing /\ ~EvalDone
  <2>1. PICK m \in Frame : /\ Push(m) /\ m.kind # "DONE" /\ m.cmd \in {code, NoCmd}
    BY <1>2, <1>4, <1>5, <1>9
    DEF WorkerStep, LoadR, StartupPrint, StartupMessage, StartupReadline,
        InitDone, CheckShutdown, TakeCommand, TakeRunr, TakeCompletion,
        TakeNothing, StartEval, EvalOutput, AskReadline, GotReadline,
        AskPassthrough, GotPassthrough, ExitPassthrough, EvalError,
        FinishRunr, FinishCompletion, IdleOutput, IdleReadline,
        IdlePassthrough, Asker, EventsDone
  <2>2. UNCHANGED <<pending_cmd, code, pending_completion_line>> /\ wpc' # "completing"
    BY <1>2, <1>9
    DEF WorkerStep, LoadR, StartupPrint, StartupMessage, StartupReadline,
        InitDone, CheckShutdown, TakeCommand, TakeRunr, TakeCompletion,
        TakeNothing, StartEval, EvalOutput, AskReadline, GotReadline,
        AskPassthrough, GotPassthrough, ExitPassthrough, EvalError,
        FinishRunr, FinishCompletion, IdleOutput, IdleReadline,
        IdlePassthrough, Asker, EventsDone
  <2>3. /\ evicted \subseteq evicted' /\ InFlight' \subseteq InFlight \cup {m}
        /\ \A x \in InFlight :
              x \in InFlight' \/ (x.kind \in Control => x.kind \in evicted')
    BY <1>3, <2>1
  <2>4. DoneOut' => DoneOut
    BY <2>1, <2>3 DEF DoneOut
  <2>5. DoneOut /\ "DONE" \notin evicted' => DoneOut'
    BY <1>5, <2>3 DEF DoneOut
  <2>. QED BY <1>1, <1>2, <2>1, <2>2, <2>3, <2>4, <2>5 DEF EvalInv
<1>. QED BY <1>6, <1>7, <1>8, <1>9

(* A step of await_response takes at most one frame, the oldest, and a     *)
(* frame somebody waits for only in PopDone and PopOther.                  *)
LEMMA AwaitFrames ==
  ASSUME TypeOK, OrderInv, Await
  PROVE  /\ OrderInv' /\ InFlight' \subseteq InFlight
         /\ PopDone \/ PopOther \/ (\A x \in InFlight : x.kind \in Control => x \in InFlight')
<1>1. idle' = idle /\ AwaitStep
  BY DEF Await, AwaitStep
<1>2. "STDOUT" \notin Control /\ "IMAGE" \notin Control /\ "R_ERROR" \notin Control
  BY DEF Control
<1>3. CASE DeliverStartupOutput \/ PopNothing
  <2>1. UNCHANGED <<ring, stashed>> /\ fiber' # "draining"
    BY <1>3 DEF DeliverStartupOutput, PopNothing, Return
  <2>. QED BY <1>1, <2>1 DEF OrderInv, InFlight
<1>4. CASE PopSuppressed \/ PopOutput \/ PopDone \/ PopOther
  <2>. DEFINE r == Head(Available)
  <2>1. Available # <<>> /\ TakeFrame
    BY <1>4 DEF PopSuppressed, PopOutput, PopDone, PopOther, CanPop
  <2>2. /\ InFlight' \subseteq InFlight
        /\ \A x \in InFlight : x \in InFlight' \/ x = r
        /\ OrderInv'
    BY <1>1, <2>1, PopEffect
  <2>3. r.kind \in {"STDOUT", "IMAGE", "R_ERROR"} \/ PopDone \/ PopOther
    BY <1>4 DEF PopSuppressed, PopOutput, Suppressible
  <2>. HIDE DEF r
  <2>. QED BY <1>2, <2>2, <2>3
<1>5. CASE DrainOutput
  <2>1. /\ ring # <<>> /\ stashed = <<>> /\ ring' = Tail(ring)
        /\ stashed' = <<>>
        /\ Head(ring).kind = "STDOUT"
    BY <1>5 DEF DrainOutput, rffi_rb_pop, OrderInv
  <2>2. /\ InFlight' \subseteq InFlight /\ Head(ring) = ring[1]
        /\ \A x \in InFlight : x \in InFlight' \/ x = ring[1]
        /\ OrderInv'
    BY <1>1, <2>1, RingPopEffect
  <2>. QED BY <1>2, <2>1, <2>2
<1>6. CASE DrainEnd
  <2>1. stashed = <<>> /\ fiber' = "returned"
    BY <1>6 DEF DrainEnd, OrderInv, Return
  <2>2. CASE ring # <<>>
    <3>1. stashed' = <<Head(ring)>> /\ ring' = Tail(ring) /\ stashed' # <<>>
      BY <1>6, <2>2 DEF DrainEnd, rffi_rb_pop
    <3>2. InFlight' = InFlight /\ OrderInv'
      BY <1>1, <2>1, <2>2, <3>1, RingPopEffect
    <3>. QED BY <3>2
  <2>3. CASE ring = <<>>
    <3>1. UNCHANGED <<ring, stashed>>
      BY <1>6, <2>1, <2>3 DEF DrainEnd
    <3>. QED BY <1>1, <2>1, <3>1 DEF OrderInv, InFlight
  <2>. QED BY <2>2, <2>3
<1>. QED BY <1>1, <1>3, <1>4, <1>5, <1>6 DEF AwaitStep

(* Popping a DONE frees R: nothing is out, and what is left was printed    *)
(* between commands.                                                       *)
LEMMA PopDoneEffect ==
  ASSUME SessionInv, Await, PopDone
  PROVE  /\ busy /\ ready /\ code = NoCmd /\ pending_cmd = NoCmd
         /\ Head(Available) \in InFlight /\ Head(Available).kind = "DONE"
         /\ \A x \in InFlight' : x.cmd = NoCmd /\ x.kind # "DONE"
         /\ InFlight' \subseteq InFlight
         /\ flush_pending(FALSE, FALSE)
<1>. DEFINE r == Head(Available)
<1>1. /\ Available # <<>> /\ TakeFrame /\ idle' = idle /\ r.kind = "DONE"
      /\ flush_pending(FALSE, FALSE)
  BY DEF PopDone, CanPop, Await, AwaitStep
<1>2. /\ r \in InFlight /\ InFlight' \subseteq InFlight
      /\ r.kind = "DONE" => \A x \in InFlight' : x.cmd = NoCmd
  BY <1>1, PopEffect DEF SessionInv
<1>. HIDE DEF r
<1>3. DoneOut
  BY <1>1, <1>2 DEF DoneOut
<1>. QED BY <1>1, <1>2, <1>3 DEF SessionInv, EvalInv, r

(* busy stays in step while await_response works. *)
LEMMA AwaitEval ==
  ASSUME SessionInv, Await
  PROVE  EvalInv'
<1>. USE DEF SessionInv
<1>1. UNCHANGED <<wpc, code, pending_completion_line, idle, evicted, ready>> /\ AwaitStep
  BY DEF Await, AwaitStep, DeliverStartupOutput, PopNothing, PopSuppressed,
         PopOutput, DrainOutput, DrainEnd, PopDone, PopOther
<1>2. InFlight' \subseteq InFlight
  BY AwaitFrames
<1>3. CASE PopDone
  <2>1. ~DoneOut'
    BY <1>3, PopDoneEffect DEF DoneOut
  <2>2. CASE pending = <<>>
    <3>1. busy' = FALSE /\ pending' = <<>> /\ pending_cmd' = NoCmd
      BY <1>3, <2>2, PopDoneEffect, FlushEffect
    <3>. QED BY <1>1, <1>2, <1>3, <2>1, <3>1, PopDoneEffect DEF EvalInv
  <2>3. CASE pending # <<>>
    <3>1. busy' = TRUE /\ pending_cmd' # NoCmd
      BY <1>3, <2>3, PopDoneEffect, FlushEffect
    <3>. QED BY <1>1, <1>2, <1>3, <2>1, <3>1, PopDoneEffect DEF EvalInv
  <2>. QED BY <2>2, <2>3
<1>4. CASE ~PopDone
  <2>1. UNCHANGED <<busy, pending, pending_cmd>>
    BY <1>1, <1>4 DEF AwaitStep, DeliverStartupOutput, PopNothing,
         PopSuppressed, PopOutput, DrainOutput, DrainEnd, PopOther
  <2>2. DoneOut' <=> DoneOut
    <3>1. CASE PopOther
      <4>1. /\ Available # <<>> /\ TakeFrame /\ idle' = idle
            /\ Head(Available).kind # "DONE"
        BY <1>1, <3>1 DEF PopOther, CanPop
      <4>2. \A x \in InFlight : x \in InFlight' \/ x = Head(Available)
        BY <4>1, PopEffect
      <4>. QED BY <1>2, <4>1, <4>2 DEF DoneOut
    <3>2. CASE ~PopOther
      <4>1. \A x \in InFlight : x.kind \in Control => x \in InFlight'
        BY <1>4, <3>2, AwaitFrames
      <4>. QED BY <1>2, <4>1 DEF DoneOut, Control
    <3>. QED BY <3>1, <3>2
  <2>. QED BY <1>1, <1>2, <2>1, <2>2 DEF EvalInv
<1>. QED BY <1>3, <1>4

(* A command is let in only when none is out. *)
LEMMA SubmitEval ==
  ASSUME SessionInv, SubmitKey \/ Resize \/ GetReady
  PROVE  EvalInv'
<1>. USE DEF SessionInv
<1>1. UNCHANGED <<ring, stashed, wpc, code, pending_completion_line, idle, evicted>>
  BY DEF SubmitKey, submit, Resize, background_submit, GetReady, BecomeReady
<1>2. InFlight' = InFlight /\ DoneOut' = DoneOut
  BY <1>1 DEF InFlight, DoneOut
<1>3. pending \in Seq(Int \ {NoCmd})
  BY DEF TypeOK, BackendTypeOK
<1>4. CASE SubmitKey \/ Resize
  <2>. DEFINE c == nsub' 
  <2>1. PICK d \in Int \ {NoCmd} :
          /\ ready' = ready
          /\ IF ready /\ ~busy
             THEN busy' = TRUE /\ pending_cmd' = d /\ UNCHANGED pending
             ELSE pending' = Append(pending, d) /\ UNCHANGED <<busy, pending_cmd>>
    <3>1. nsub + 1 \in Int \ {NoCmd} /\ -(nsub + 1) \in Int \ {NoCmd}
      BY DEF TypeOK
    <3>2. CASE SubmitKey
      BY <3>1, <3>2 DEF SubmitKey, submit, start_eval, rffi_submit
    <3>3. CASE Resize
      BY <3>1, <3>3 DEF Resize, background_submit, start_eval, rffi_submit
    <3>. QED BY <1>4, <3>2, <3>3
  <2>2. CASE ready /\ ~busy
    BY <1>1, <1>2, <2>1, <2>2 DEF EvalInv
  <2>3. CASE ~(ready /\ ~busy)
    <3>1. pending # <<>> => pending' # <<>> /\ pending'[1] = pending[1]
      BY <1>3, <2>1, <2>3
    <3>2. UNCHANGED <<busy, pending_cmd, ready>>
      BY <2>1, <2>3
    <3>. QED BY <1>1, <1>2, <2>3, <3>1, <3>2 DEF EvalInv
  <2>. QED BY <2>2, <2>3
<1>5. CASE GetReady
  <2>1. /\ ~ready /\ ready' = TRUE /\ flush_pending(busy, suppressing)
        /\ busy \in BOOLEAN /\ suppressing \in BOOLEAN
    BY <1>5 DEF GetReady, BecomeReady, TypeOK, BackendTypeOK
  <2>2. pending # <<>>
    BY <2>1 DEF EvalInv
  <2>3. busy' = TRUE /\ pending_cmd' # NoCmd
    BY <2>1, <2>2, FlushEffect
  <2>4. ~busy
    BY <2>1 DEF EvalInv
  <2>. QED BY <1>1, <1>2, <2>1, <2>3, <2>4 DEF EvalInv
<1>. QED BY <1>4, <1>5

(* The steps that neither push, pop nor submit. *)
Aside ==
  \/ Start \/ StartFailed \/ LoopResponse \/ PassthroughResponse \/ Join \/ Leave
  \/ AskKey \/ AiDone
  \/ CancelKey \/ ReadlineKey \/ CompletionKey \/ QuitKey
  \/ \E k \in Caller : CallTool(k) \/ ReturnTool(k)

(* What those steps leave alone. *)
LEMMA AsideUnchanged ==
  ASSUME Aside
  PROVE  /\ UNCHANGED <<ring, stashed, evicted, idle, code, pending_cmd,
                        pending, ready, busy, suppressing, finished, nsub, buf>>
         /\ pending_completion_line' = pending_completion_line \/ ~busy
         /\ wpc' = wpc \/ (starter = "starting" /\ wpc' = "init")
<1>. USE DEF Aside, Start, Starting, CreateThread, StartReturns, StartFailed,
         Finally, LoopResponse, PassthroughResponse, Join, Leave, AskKey,
         AiDone, CancelKey,
         ReadlineKey, CompletionKey, request_completions, QuitKey, CallTool,
         ReturnTool, CallRunr, ReturnRunr
<1>1. UNCHANGED <<ring, stashed, evicted, idle, code, pending_cmd>>
  OBVIOUS
<1>2. UNCHANGED <<pending, ready, busy, suppressing, finished, buf>>
  OBVIOUS
<1>5. nsub' = nsub
  BY DEF ShowOutput, ShowDone, ShowReadline, EnterPassthrough, ShowRest,
         LoseRace
<1>3. pending_completion_line' = pending_completion_line \/ ~busy
  OBVIOUS
<1>4. wpc' = wpc \/ (starter = "starting" /\ wpc' = "init")
  OBVIOUS
<1>. QED BY <1>1, <1>2, <1>3, <1>4, <1>5

(* ... keep busy in step, trivially. *)
LEMMA AsideEval ==
  ASSUME SessionInv, Aside
  PROVE  EvalInv'
<1>1. InFlight' = InFlight /\ DoneOut' = DoneOut
  BY AsideUnchanged DEF InFlight, DoneOut
<1>2. wpc' # "completing" \/ wpc = "completing"
  BY AsideUnchanged
<1>. QED BY <1>1, <1>2, AsideUnchanged DEF SessionInv, EvalInv

(* Taking a submission or a response does not touch the order of frames. *)
LEMMA OtherOrder ==
  ASSUME SessionInv, SubmitKey \/ Resize \/ GetReady \/ Aside
  PROVE  OrderInv'
<1>1. CASE SubmitKey \/ Resize \/ GetReady
  <2>1. UNCHANGED <<ring, stashed, idle, fiber>>
    BY <1>1
    DEF SubmitKey, submit, Resize, background_submit, GetReady, BecomeReady
  <2>. QED BY <2>1 DEF SessionInv, OrderInv, Request
<1>2. CASE Aside
  <2>1. fiber' = fiber \/ fiber' = "asleep"
    BY <1>2
    DEF Aside, Start, StartFailed, Finally, LoopResponse, PassthroughResponse,
        Taken, Join, Leave, AskKey, AiDone, CancelKey, ReadlineKey,
        CompletionKey, QuitKey,
        CallTool, ReturnTool
  <2>. QED BY <1>2, <2>1, AsideUnchanged DEF SessionInv, OrderInv, Request
<1>. QED BY <1>1, <1>2

-----------------------------------------------------------------------------
(* What a worker step does, summed up for the parts that follow. *)

(* A new frame is that of the command R works on or of none; only EvalDone *)
(* sends a DONE, and who sends a request waits; a frame that disappears is *)
(* on record.                                                              *)
LEMMA WorkerInFlight ==
  ASSUME TypeOK, Worker
  PROVE  /\ \A x \in InFlight' : x \notin InFlight =>
              /\ x.cmd \in {NoCmd, code}
              /\ x.kind = "DONE" => EvalDone /\ x.cmd = code
              /\ x.kind = "READLINE" =>
                   wpc' = "readline" /\ wpc \in {"startup", "eval", "events"}
              /\ x.kind = "PASSTHROUGH" =>
                   wpc' = "gate" /\ wpc \in {"eval", "events"}
         /\ \A x \in InFlight :
              x.kind \in Control => x \in InFlight' \/ x.kind \in evicted'
         /\ evicted \subseteq evicted'
         /\ \A k \in evicted' : k \in evicted \/ (Sent(k) /\ wpc \notin {"readline", "gate"})
         /\ wpc' = "readline" => wpc = "readline" \/ Sent("READLINE")'
         /\ wpc' = "gate" => wpc = "gate" \/ Sent("PASSTHROUGH")'
         /\ wpc = "system" => wpc' = "system" \/ Sent("PASSTHROUGH_END")'
<1>1. UNCHANGED stashed /\ WorkerStep
  BY DEF Worker
<1>2. \A m \in Frame : Push(m) =>
        /\ evicted \subseteq evicted'
        /\ m \in InFlight' /\ InFlight' \subseteq InFlight \cup {m}
        /\ \A x \in InFlight :
              x \in InFlight' \/ (x.kind \in Control => x.kind \in evicted')
        /\ \A k \in evicted' : k \in evicted \/ Sent(k)
  BY <1>1, PushEffect
<1>3. \A k \in Kind : \A c \in {NoCmd, code} :
          /\ Msg(k, c) \in Frame
          /\ Msg(k, c).kind = k /\ Msg(k, c).cmd = c
  BY MsgFrame
<1>4. {"STDOUT", "IMAGE", "R_ERROR", "DONE", "PASSTHROUGH",
         "PASSTHROUGH_END", "READLINE", "COMPLETIONS"} = Kind
  BY DEF Kind
<1>. DEFINE Pushing == StartupMessage \/ StartupReadline \/ EvalOutput \/ AskReadline
               \/ AskPassthrough \/ ExitPassthrough \/ EvalError \/ EvalDone
               \/ FinishCompletion \/ IdleOutput \/ IdleReadline \/ IdlePassthrough
<1>5. CASE Pushing
  <2>1. PICK m \in Frame :
          /\ Push(m) /\ m.cmd \in {NoCmd, code}
          /\ m.kind = "DONE" => EvalDone /\ m.cmd = code
          /\ m.kind = "READLINE" =>
               wpc' = "readline" /\ wpc \in {"startup", "eval", "events"}
          /\ m.kind = "PASSTHROUGH" =>
               wpc' = "gate" /\ wpc \in {"eval", "events"}
          /\ wpc' = "readline" => m.kind = "READLINE"
          /\ wpc' = "gate" => m.kind = "PASSTHROUGH"
          /\ wpc = "system" => m.kind = "PASSTHROUGH_END"
    <3>1. CASE StartupMessage
      BY <1>3, <1>4, <3>1 DEF StartupMessage
    <3>2. CASE StartupReadline \/ AskReadline \/ IdleReadline
      BY <1>3, <1>4, <3>2 DEF StartupReadline, AskReadline, IdleReadline
    <3>3. CASE EvalOutput \/ IdleOutput
      <4>1. PICK k \in OutputKind, c \in {NoCmd, code} : Push(Msg(k, c))
        BY <3>3 DEF EvalOutput, IdleOutput
      <4>2. k \in Kind /\ k \notin {"DONE", "READLINE", "PASSTHROUGH"}
        BY <1>4
      <4>3. wpc' = wpc /\ wpc \in {"eval", "events"}
        BY <3>3 DEF EvalOutput, IdleOutput
      <4>. QED BY <1>3, <4>1, <4>2, <4>3
    <3>4. CASE AskPassthrough \/ IdlePassthrough
      BY <1>3, <1>4, <3>4 DEF AskPassthrough, IdlePassthrough
    <3>7. CASE ExitPassthrough
      BY <1>3, <1>4, <3>7 DEF ExitPassthrough, Asker
    <3>5. CASE EvalError \/ FinishCompletion
      BY <1>3, <1>4, <3>5 DEF EvalError, FinishCompletion
    <3>6. CASE EvalDone
      BY <1>3, <1>4, <3>6 DEF EvalDone
    <3>. QED BY <1>5, <3>1, <3>2, <3>3, <3>4, <3>5, <3>6, <3>7
  <2>2. wpc \notin {"readline", "gate"}
    BY <1>5
    DEF StartupMessage, StartupReadline, EvalOutput, AskReadline,
        AskPassthrough, ExitPassthrough, EvalError, EvalDone,
        FinishCompletion, IdleOutput, IdleReadline, IdlePassthrough
  <2>. HIDE DEF Pushing
  <2>3. /\ evicted \subseteq evicted'
        /\ m \in InFlight' /\ InFlight' \subseteq InFlight \cup {m}
        /\ \A x \in InFlight :
              x \in InFlight' \/ (x.kind \in Control => x.kind \in evicted')
        /\ \A k \in evicted' : k \in evicted \/ Sent(k)
    BY <1>2, <2>1
  <2>. QED BY <2>1, <2>2, <2>3 DEF Sent
<1>6. CASE ResetRing
  <2>1. wpc = "reset" /\ wpc' = "parse"
    BY <1>6 DEF ResetRing
  <2>2. /\ InFlight' \subseteq InFlight /\ evicted \subseteq evicted'
        /\ \A x \in InFlight :
              x \in InFlight' \/ (x.kind \in Control => x.kind \in evicted')
        /\ \A k \in evicted' : k \in evicted \/ Sent(k)
    BY <1>1, <1>6, ResetEffect DEF ResetRing
  <2>. QED BY <2>1, <2>2
<1>7. CASE ~Pushing /\ ~ResetRing
  <2>1. /\ UNCHANGED <<ring, evicted>>
        /\ wpc' \notin {"readline", "gate", "system"} \/ wpc' = wpc
           \/ (wpc = "gate" /\ wpc' = "system")
        /\ wpc = "system" => wpc' = "system"
    BY <1>1, <1>7
    DEF WorkerStep, LoadR, StartupPrint, InitDone, CheckShutdown, TakeCommand,
        TakeRunr, TakeCompletion, TakeNothing, StartEval, GotReadline,
        GotPassthrough, FinishRunr, EventsDone, Asker
  <2>2. InFlight' = InFlight
    BY <1>1, <2>1 DEF InFlight
  <2>. HIDE DEF Pushing
  <2>. QED BY <2>1, <2>2
<1>. QED BY <1>5, <1>6, <1>7

(* The command R works on is taken from the mailbox, and ends in a DONE. *)
LEMMA WorkerCommand ==
  ASSUME LifeInv, Worker
  PROVE  \/ /\ UNCHANGED <<code, pending_cmd, finished>> /\ ~EvalDone /\ ~TakeCommand
         \/ /\ TakeCommand /\ code = NoCmd /\ code' = pending_cmd
            /\ pending_cmd # NoCmd /\ pending_cmd' = NoCmd
            /\ finished' = finished
         \/ /\ EvalDone /\ code # NoCmd /\ code' = NoCmd
            /\ pending_cmd' = pending_cmd /\ finished' = finished \cup {code}
<1>1. WorkerStep
  BY DEF Worker
<1>2. CASE TakeCommand
  BY <1>2 DEF TakeCommand, LifeInv, Evaluating
<1>3. CASE EvalDone
  BY <1>3 DEF EvalDone, LifeInv, Evaluating
<1>4. CASE ~TakeCommand /\ ~EvalDone
  BY <1>1, <1>4 DEF WorkerStep, LoadR, StartupPrint, StartupMessage,
         StartupReadline, InitDone, CheckShutdown, TakeRunr,
         TakeCompletion, TakeNothing, ResetRing, StartEval, EvalOutput,
         AskReadline, GotReadline, AskPassthrough, GotPassthrough,
         ExitPassthrough, EvalError, FinishRunr, FinishCompletion,
         IdleOutput, IdleReadline, IdlePassthrough, Asker, EventsDone
<1>. QED BY <1>2, <1>3, <1>4

-----------------------------------------------------------------------------
(* What is hidden, and what a DONE in the loop means. *)

(* The worker adds to what is hidden only what has to be. *)
LEMMA WorkerHidden ==
  ASSUME SessionInv, Worker
  PROVE  HiddenInv' /\ ResponseInv'
<1>. USE DEF SessionInv
<1>1. UNCHANGED <<suppressing, pending, response, ready>>
  BY DEF Worker
<1>2. pending_cmd \in Int /\ code \in Int
  BY DEF TypeOK, WorkerTypeOK
<1>3. HiddenInv'
  BY <1>1, <1>2, WorkerCommand, WorkerInFlight
  DEF HiddenInv, IsUser, IsBackground
<1>4. ResponseInv'
  <2>1. Responded("DONE")' = Responded("DONE")
    BY <1>1 DEF Responded
  <2>2. CASE Responded("DONE")
    <3>1. code = NoCmd /\ pending_cmd = NoCmd /\ ~DoneOut /\ ready /\ pending = <<>>
      BY <2>2 DEF ResponseInv
    <3>2. UNCHANGED <<code, pending_cmd>> /\ ~EvalDone
      BY <3>1, WorkerCommand
    <3>3. ~DoneOut'
      BY <3>1, <3>2, WorkerInFlight DEF DoneOut
    <3>. QED BY <1>1, <3>1, <3>2, <3>3 DEF ResponseInv
  <2>3. CASE ~Responded("DONE")
    BY <1>1, <2>1, <2>3 DEF ResponseInv
  <2>. QED BY <2>2, <2>3
<1>. QED BY <1>3, <1>4

(* await_response: handle_done swallows the Done of a background command   *)
(* and the Done another command follows.                                   *)
LEMMA AwaitHidden ==
  ASSUME SessionInv, Await
  PROVE  HiddenInv' /\ ResponseInv'
<1>. USE DEF SessionInv
<1>1. UNCHANGED <<code, ready>> /\ AwaitStep /\ InFlight' \subseteq InFlight
  <2>1. UNCHANGED <<code, ready>> /\ AwaitStep
    BY DEF Await, AwaitStep, DeliverStartupOutput, PopNothing, PopSuppressed,
         PopOutput, DrainOutput, DrainEnd, PopDone, PopOther
  <2>. QED BY <2>1, AwaitFrames
<1>2. CASE PopDone
  <2>. DEFINE r == Head(Available)
  <2>1. /\ busy /\ ready /\ code = NoCmd /\ pending_cmd = NoCmd
        /\ r \in InFlight /\ r.kind = "DONE"
        /\ \A x \in InFlight' : x.cmd = NoCmd /\ x.kind # "DONE"
        /\ flush_pending(FALSE, FALSE)
    BY <1>2, PopDoneEffect
  <2>2. pending = <<>> => /\ busy' = FALSE /\ suppressing' = FALSE
                          /\ pending' = <<>> /\ pending_cmd' = NoCmd
    BY <2>1, FlushEffect
  <2>3. pending # <<>> => /\ busy' = TRUE /\ suppressing' = IsBackground(pending_cmd')
                          /\ pending_cmd' \in Int
    BY <2>1, FlushEffect
  <2>4. HiddenInv'
    <3>1. CASE pending = <<>>
      BY <1>1, <2>1, <2>2, <3>1 DEF HiddenInv, IsUser, IsBackground
    <3>2. CASE pending # <<>>
      <4>1. (suppressing' => pending_cmd' < 0) /\ (~suppressing' => ~(pending_cmd' < 0))
        BY <2>3, <3>2 DEF IsBackground
      <4>2. pending_cmd' \in Int /\ (pending_cmd' < 0 => ~(pending_cmd' > 0))
        BY <2>3, <3>2
      <4>. QED BY <1>1, <2>1, <4>1, <4>2 DEF HiddenInv, IsUser, IsBackground
    <3>. QED BY <3>1, <3>2
  <2>. HIDE DEF r
  <2>5. CASE busy' \/ suppressing
    <3>1. response' = response /\ response = <<>>
      BY <1>2, <2>5 DEF PopDone, CanPop, Awaiting, TypeOK, BackendTypeOK
    <3>2. DOMAIN response' = {}
      BY <3>1
    <3>. QED BY <2>4, <3>2 DEF ResponseInv, Responded
  <2>6. CASE ~(busy' \/ suppressing)
    <3>1. pending = <<>> /\ ~suppressing
      BY <2>3, <2>6
    <3>2. IsUser(r.cmd) /\ r.cmd \in Int
      <4>1. r.cmd # NoCmd /\ ~IsBackground(r.cmd)
        BY <2>1, <3>1 DEF EvalInv, HiddenInv
      <4>2. r.cmd \in Int
        BY <2>1, InFlightType DEF Frame
      <4>. QED BY <4>1, <4>2 DEF IsUser, IsBackground
    <3>3. Return("DONE", {r.cmd})
      BY <1>2, <2>6 DEF PopDone, r
    <3>4. /\ DOMAIN response' = {1} /\ response'[1].kind = "DONE"
          /\ response'[1].cmds = {r.cmd}
      <4>1. "DONE" \in Kind /\ {r.cmd} \in SUBSET Int
        BY <3>2 DEF Kind
      <4>. QED BY <3>3, <4>1, ReturnType
    <3>. QED
      BY <1>1, <2>1, <2>2, <2>4, <3>1, <3>2, <3>4
      DEF ResponseInv, Responded, DoneOut
  <2>. QED BY <2>5, <2>6
<1>3. CASE ~PopDone
  <2>1. UNCHANGED <<suppressing, pending, pending_cmd>>
    BY <1>1, <1>3 DEF AwaitStep, DeliverStartupOutput, PopNothing,
         PopSuppressed, PopOutput, DrainOutput, DrainEnd, PopOther
  <2>2. HiddenInv'
    BY <1>1, <2>1 DEF HiddenInv
  <2>3. Responded("DONE")' => Responded("DONE") /\ response' = response
    <3>1. CASE response' = response
      BY <3>1 DEF Responded
    <3>2. CASE \E k \in Kind \ {"DONE"}, c \in SUBSET Int : Return(k, c)
      BY <3>2, ReturnType DEF Responded
    <3>3. CASE DeliverStartupOutput \/ DrainEnd
      <4>1. "STDOUT" \in Kind \ {"DONE"} /\ {NoCmd} \in SUBSET Int /\ buf \in SUBSET Int
        BY DEF Kind, TypeOK, BackendTypeOK
      <4>. QED BY <3>2, <3>3, <4>1 DEF DeliverStartupOutput, DrainEnd
    <3>4. CASE PopOther
      <4>1. Head(Available) \in InFlight /\ Head(Available) \in Frame
        BY <3>4, PopEffect DEF PopOther, CanPop, Await, AwaitStep
      <4>2. Head(Available).kind \in Kind \ {"DONE"} /\ {Head(Available).cmd} \in SUBSET Int
        BY <3>4, <4>1 DEF PopOther, Frame
      <4>. QED BY <3>2, <3>4, <4>2 DEF PopOther
    <3>. QED
      BY <1>1, <1>3, <3>1, <3>3, <3>4
      DEF AwaitStep, PopNothing, PopSuppressed, PopOutput, DrainOutput
  <2>4. Responded("DONE")' => ~DoneOut'
    BY <1>1, <2>3 DEF ResponseInv, DoneOut
  <2>5. \A i \in DOMAIN response' :
          response'[i].kind = "DONE" => \A c \in response'[i].cmds : IsUser(c)
    BY <2>3 DEF Responded, ResponseInv
  <2>. QED BY <1>1, <2>1, <2>2, <2>3, <2>4, <2>5 DEF ResponseInv
<1>. QED BY <1>2, <1>3

(* Submitting starts to hide only when nothing of a user's is out. *)
LEMMA SubmitHidden ==
  ASSUME SessionInv, SubmitKey \/ Resize \/ GetReady
  PROVE  HiddenInv' /\ ResponseInv'
<1>. USE DEF SessionInv
<1>1. UNCHANGED <<ring, stashed, code, response>>
  BY DEF SubmitKey, submit, Resize, background_submit, GetReady, BecomeReady
<1>2. InFlight' = InFlight
  BY <1>1 DEF InFlight
<1>3. pending \in Seq(Int \ {NoCmd}) /\ nsub \in Nat /\ pending_cmd \in Int /\ code \in Int
  BY DEF TypeOK, BackendTypeOK, WorkerTypeOK
<1>4. ~busy => code = NoCmd /\ pending_cmd = NoCmd /\ ~DoneOut /\ \A m \in InFlight : m.cmd = NoCmd
  BY DEF EvalInv
<1>5. ~Responded("DONE")
  <2>1. CASE AtPrompt
    <3>1. response = <<>>
      BY <2>1 DEF AtPrompt, TypeOK, BackendTypeOK
    <3>2. DOMAIN response = {}
      BY <3>1
    <3>. QED BY <3>2 DEF Responded
  <2>2. CASE ~ready
    BY <2>2 DEF ResponseInv
  <2>. QED BY <2>1, <2>2 DEF SubmitKey, Resize, GetReady, BecomeReady
<1>6. ResponseInv'
  <2>1. ~Responded("DONE")'
    BY <1>1, <1>5 DEF Responded
  <2>. QED BY <2>1 DEF ResponseInv, Responded
<1>7. CASE SubmitKey
  <2>. DEFINE c == nsub + 1
  <2>1. submit(c) /\ c \in Int /\ c > 0
    BY <1>3, <1>7 DEF SubmitKey
  <2>. HIDE DEF c
  <2>2. suppressing' = FALSE
    BY <2>1 DEF submit
  <2>3. CASE ready /\ ~busy
    <3>1. pending_cmd' = c
      BY <2>1, <2>3 DEF submit, start_eval, rffi_submit
    <3>. QED
      BY <1>1, <1>2, <1>4, <1>6, <2>1, <2>2, <2>3, <3>1
      DEF HiddenInv, IsBackground, EvalInv
  <2>4. CASE ~(ready /\ ~busy)
    <3>1. pending' # <<>>
      BY <1>3, <2>1, <2>4 DEF submit
    <3>. QED BY <1>6, <2>2, <3>1 DEF HiddenInv
  <2>. QED BY <2>3, <2>4
<1>8. CASE Resize
  <2>. DEFINE c == -(nsub + 1)
  <2>1. background_submit(c) /\ c \in Int /\ c < 0
    BY <1>3, <1>8 DEF Resize
  <2>. HIDE DEF c
  <2>2. CASE ready /\ ~busy
    <3>1. pending_cmd' = c /\ suppressing' = TRUE
      BY <2>1, <2>2 DEF background_submit, start_eval, rffi_submit
    <3>. QED BY <1>1, <1>2, <1>4, <1>6, <2>1, <2>2, <3>1 DEF HiddenInv, IsUser
  <2>3. CASE ~(ready /\ ~busy)
    <3>1. pending' # <<>> /\ UNCHANGED <<suppressing, pending_cmd>>
      BY <1>3, <2>1, <2>3 DEF background_submit
    <3>. QED BY <1>1, <1>2, <1>6, <3>1 DEF HiddenInv
  <2>. QED BY <2>2, <2>3
<1>9. CASE GetReady
  <2>1. ~ready /\ flush_pending(busy, suppressing) /\ busy \in BOOLEAN /\ suppressing \in BOOLEAN
    BY <1>9 DEF GetReady, BecomeReady, TypeOK, BackendTypeOK
  <2>2. pending # <<>> /\ ~busy
    BY <2>1 DEF EvalInv
  <2>3. suppressing' = IsBackground(pending_cmd') /\ pending_cmd' \in Int
    BY <2>1, <2>2, FlushEffect
  <2>4. (suppressing' => pending_cmd' < 0) /\ (~suppressing' => ~(pending_cmd' < 0))
    BY <2>3 DEF IsBackground
  <2>5. pending_cmd' < 0 => ~(pending_cmd' > 0)
    BY <2>3
  <2>. QED BY <1>1, <1>2, <1>4, <1>6, <2>2, <2>4, <2>5
       DEF HiddenInv, IsUser, IsBackground, DoneOut
<1>. QED BY <1>7, <1>8, <1>9

(* The other steps handle at most the response. *)
LEMMA AsideResponse ==
  ASSUME Aside
  PROVE  response' = response \/ DOMAIN response' = {}
<1>1. response' = response \/ response' = <<>>
  BY DEF Aside, Start, StartFailed, Finally, LoopResponse,
         PassthroughResponse, Taken, Join, Leave, AskKey, AiDone, CancelKey,
         ReadlineKey,
         CompletionKey, QuitKey, CallTool, ReturnTool
<1>. QED BY <1>1

(* They hide nothing. *)
LEMMA AsideHidden ==
  ASSUME SessionInv, Aside
  PROVE  HiddenInv' /\ ResponseInv'
<1>1. InFlight' = InFlight /\ DoneOut' = DoneOut
  BY AsideUnchanged DEF InFlight, DoneOut
<1>2. response' = response \/ DOMAIN response' = {}
  BY AsideResponse
<1>. QED
  BY <1>1, <1>2, AsideUnchanged
  DEF SessionInv, HiddenInv, ResponseInv, Responded

-----------------------------------------------------------------------------
(* Questions and their answers. *)

(* The worker leaves a gate only through it, and closes it behind itself. *)
LEMMA WorkerGates ==
  ASSUME Worker
  PROVE  /\ wpc = "readline" => readline_gate /\ ~readline_gate' /\ wpc' # "readline"
         /\ wpc # "readline" => readline_gate' = readline_gate
         /\ wpc = "gate" => passthrough_gate /\ ~passthrough_gate' /\ wpc' = "system"
         /\ wpc # "gate" => passthrough_gate' = passthrough_gate
         /\ UNCHANGED <<response, mode, session, discarded>>
<1>. USE DEF Worker, WorkerStep, LoadR, StartupPrint, StartupMessage,
           StartupReadline, InitDone, CheckShutdown, TakeCommand, TakeRunr,
           TakeCompletion, TakeNothing, ResetRing, StartEval, EvalOutput,
           AskReadline, GotReadline, AskPassthrough, GotPassthrough,
           ExitPassthrough, EvalError, EvalDone, FinishRunr, FinishCompletion,
           IdleOutput, IdleReadline, IdlePassthrough, Asker, EventsDone
<1>1. CASE wpc = "readline"
  <2>1. GotReadline
    BY <1>1
  <2>. HIDE DEF WorkerStep
  <2>. QED BY <2>1
<1>2. CASE wpc = "gate"
  <2>1. GotPassthrough
    BY <1>2
  <2>. HIDE DEF WorkerStep
  <2>. QED BY <2>1
<1>3. CASE wpc \notin {"readline", "gate"}
  <2>1. UNCHANGED gates
    BY <1>3
  <2>. HIDE DEF WorkerStep
  <2>. QED BY <1>3, <2>1
<1>. QED BY <1>1, <1>2, <1>3

(* A question is asked when the worker goes to the gate, and never lost    *)
(* while it waits there.                                                   *)
LEMMA WorkerAsks ==
  ASSUME SessionInv, Worker
  PROVE  ReadlineInv' /\ PassthroughInv'
<1>. USE DEF SessionInv
<1>1. \A k : Responded(k)' = Responded(k)
  BY WorkerGates DEF Responded
<1>2. {"READLINE", "PASSTHROUGH", "PASSTHROUGH_END"} \subseteq Control
  BY DEF Control
<1>3. Sent("READLINE")' =>
         \/ Sent("READLINE")
         \/ wpc' = "readline" /\ wpc \in {"startup", "eval", "events"}
  BY WorkerInFlight DEF Sent
<1>4. Sent("PASSTHROUGH")' =>
         \/ Sent("PASSTHROUGH")
         \/ wpc' = "gate" /\ wpc \in {"eval", "events"}
  BY WorkerInFlight DEF Sent
<1>5. "READLINE" \notin evicted' /\ "PASSTHROUGH" \notin evicted'
  BY WorkerInFlight DEF ReadlineInv, PassthroughInv
<1>6. ReadlineInv'
  <2>1. wpc' = "readline" => Sent("READLINE")'
    BY WorkerGates, WorkerInFlight
  <2>2. CASE wpc = "readline"
    <3>1. readline_gate /\ ~readline_gate' /\ wpc' # "readline" /\ mode' = mode
      BY <2>2, WorkerGates
    <3>2. ~Sent("READLINE") /\ ~Responded("READLINE") /\ mode # "Readline"
      BY <3>1 DEF ReadlineInv
    <3>. QED BY <1>1, <1>3, <1>5, <2>1, <2>2, <3>1, <3>2 DEF ReadlineInv
  <2>3. CASE wpc # "readline"
    <3>1. ~readline_gate' /\ mode' = mode
      BY <2>3, WorkerGates DEF ReadlineInv
    <3>2. ~Sent("READLINE") /\ ~Responded("READLINE") /\ mode # "Readline"
      BY <2>3 DEF ReadlineInv
    <3>3. mode = "Normal"
      BY <3>2 DEF TypeOK
    <3>. QED BY <1>1, <1>3, <1>5, <2>1, <3>1, <3>2, <3>3 DEF ReadlineInv
  <2>. QED BY <2>2, <2>3
<1>7. Sent("PASSTHROUGH_END") => Sent("PASSTHROUGH_END")' \/ "PASSTHROUGH_END" \in evicted'
  BY <1>2, WorkerInFlight DEF Sent
<1>8. Responded("PASSTHROUGH")' \/ passthrough_gate' \/ wpc' = "system" =>
        ~DoneOut'
  <2>1. ASSUME Responded("PASSTHROUGH")' \/ passthrough_gate' \/ wpc' = "system"
        PROVE  wpc \in {"gate", "system"} /\ ~DoneOut
    <3>1. Responded("PASSTHROUGH") \/ passthrough_gate => wpc = "gate" /\ ~DoneOut
      BY DEF PassthroughInv
    <3>2. passthrough_gate' => passthrough_gate
      BY WorkerGates
    <3>3. wpc' = "system" => wpc \in {"gate", "system"}
      BY DEF Worker, WorkerStep, LoadR, StartupPrint, StartupMessage,
             StartupReadline, InitDone, CheckShutdown, TakeCommand, TakeRunr,
             TakeCompletion, TakeNothing, ResetRing, StartEval, EvalOutput,
             AskReadline, GotReadline, AskPassthrough, GotPassthrough,
             ExitPassthrough, EvalError, EvalDone, FinishRunr,
             FinishCompletion, IdleOutput, IdleReadline, IdlePassthrough,
             Asker, EventsDone
    <3>4. wpc = "gate" => passthrough_gate
      BY WorkerGates
    <3>5. wpc = "system" => ~DoneOut
      BY DEF PassthroughInv
    <3>. QED BY <1>1, <2>1, <3>1, <3>2, <3>3, <3>4, <3>5
  <2>2. wpc \in {"gate", "system"} /\ ~DoneOut => ~DoneOut'
    BY WorkerInFlight DEF DoneOut, EvalDone
  <2>. QED BY <2>1, <2>2
<1>9. PassthroughInv'
  BY <1>1, <1>4, <1>5, <1>7, <1>8, WorkerGates, WorkerInFlight
  DEF PassthroughInv
<1>. QED BY <1>6, <1>9

(* await_response starts with no response, and ends with at most one: *)
(* collected output, or the frame it popped.                          *)
LEMMA AwaitReturns ==
  ASSUME SessionInv, Await
  PROVE  /\ DOMAIN response = {}
         /\ \/ DOMAIN response' = {} /\ ~DrainEnd /\ ~PopOther /\ ~DeliverStartupOutput
            \/ /\ DOMAIN response' = {1}
               /\ \/ DeliverStartupOutput /\ response'[1].kind = "STDOUT" /\ response'[1].cmds = {NoCmd}
                  \/ DrainEnd /\ response'[1].kind = "STDOUT" /\ response'[1].cmds = buf
                  \/ /\ PopDone \/ PopOther
                     /\ Head(Available) \in InFlight
                     /\ response'[1].kind = Head(Available).kind
                     /\ response'[1].cmds = {Head(Available).cmd}
<1>1. fiber # "returned" /\ AwaitStep /\ idle' = idle
  BY DEF Await, AwaitStep, DeliverStartupOutput, PopNothing, PopSuppressed,
         PopOutput, DrainOutput, DrainEnd, PopDone, PopOther, CanPop, Awaiting
<1>2. response = <<>> /\ DOMAIN response = {}
  BY <1>1 DEF SessionInv, TypeOK, BackendTypeOK
<1>3. \A k \in Kind : \A c \in SUBSET Int : Return(k, c) =>
        DOMAIN response' = {1} /\ response'[1].kind = k /\ response'[1].cmds = c
  BY ReturnType
<1>4. "STDOUT" \in Kind /\ "DONE" \in Kind /\ {NoCmd} \in SUBSET Int /\ buf \in SUBSET Int
  BY DEF Kind, SessionInv, TypeOK, BackendTypeOK
<1>5. CASE DeliverStartupOutput
  BY <1>2, <1>3, <1>4, <1>5 DEF DeliverStartupOutput
<1>6. CASE DrainEnd
  BY <1>2, <1>3, <1>4, <1>6 DEF DrainEnd
<1>7. CASE PopDone \/ PopOther
  <2>. DEFINE r == Head(Available)
  <2>1. r \in InFlight /\ r \in Frame
    BY <1>1, <1>7, PopEffect DEF PopDone, PopOther, CanPop, SessionInv
  <2>2. r.kind \in Kind /\ {r.cmd} \in SUBSET Int
    BY <2>1 DEF Frame
  <2>3. Return(r.kind, {r.cmd}) \/ (PopDone /\ response' = response /\ fiber' = "popping")
    BY <1>7 DEF PopDone, PopOther
  <2>. HIDE DEF r
  <2>4. PopDone => ~DrainEnd /\ ~DeliverStartupOutput /\ ~PopOther
    BY DEF PopDone, DrainEnd, CanPop, Awaiting, DeliverStartupOutput, PopOther
  <2>. QED BY <1>2, <1>3, <1>7, <2>1, <2>2, <2>3, <2>4 DEF r
<1>8. CASE ~DeliverStartupOutput /\ ~DrainEnd /\ ~PopDone /\ ~PopOther
  BY <1>1, <1>2, <1>8
  DEF AwaitStep, PopNothing, PopSuppressed, PopOutput, DrainOutput
<1>. QED BY <1>5, <1>6, <1>7, <1>8

(* await_response carries a question from the ring to the loop. *)
LEMMA AwaitAsks ==
  ASSUME SessionInv, Await
  PROVE  ReadlineInv' /\ PassthroughInv'
<1>. USE DEF SessionInv
<1>1. UNCHANGED <<wpc, readline_gate, passthrough_gate, mode, session, discarded, evicted, idle>>
  BY DEF Await, AwaitStep
<1>2. \A k : ~Responded(k)
  BY AwaitReturns DEF Responded
<1>3. {"READLINE", "PASSTHROUGH", "PASSTHROUGH_END", "DONE"} \subseteq Control /\ "STDOUT" \notin Control
  BY DEF Control
<1>4. CASE PopOther
  <2>. DEFINE r == Head(Available)
  <2>1. /\ r \in InFlight /\ InFlight' \subseteq InFlight
        /\ \A x \in InFlight : x \in InFlight' \/ x = r
        /\ r.kind \in Request => InFlight' = {}
    BY <1>1, <1>4, PopEffect DEF PopOther, CanPop
  <2>2. \A k : Responded(k)' <=> k = r.kind
    BY <1>4, AwaitReturns
    DEF Responded, PopOther, PopDone, DrainEnd, DeliverStartupOutput, CanPop,
        Awaiting
  <2>. HIDE DEF r
  <2>3. \A k \in Request : /\ Sent(k)' => Sent(k)
                           /\ Responded(k)' => Sent(k) /\ ~Sent(k)'
                           /\ Sent(k) => Sent(k)' \/ Responded(k)'
    BY <2>1, <2>2 DEF Sent
  <2>4. Sent("PASSTHROUGH_END") => Sent("PASSTHROUGH_END")' \/ Responded("PASSTHROUGH_END")'
    BY <2>1, <2>2 DEF Sent
  <2>7. /\ r.kind # "DONE" => ~Responded("DONE")'
        /\ r.kind \in Request => ~DoneOut'
        /\ DoneOut' => DoneOut
    BY <1>4, <2>1, <2>2 DEF DoneOut
  <2>8. r.kind = "DONE" => Sent("DONE") /\ DoneOut
    BY <2>1 DEF Sent, DoneOut
  <2>5. ReadlineInv'
    BY <1>1, <1>2, <2>2, <2>3, <2>7, <2>8 DEF ReadlineInv, Request
  <2>6. PassthroughInv'
    BY <1>1, <1>2, <2>2, <2>3, <2>4, <2>7 DEF PassthroughInv, Request
  <2>. QED BY <2>5, <2>6
<1>5. CASE ~PopOther
  <2>1. \A k \in Control : Sent(k)' => Sent(k)
    BY AwaitFrames DEF Sent
  <2>2. \A k \in Control \ {"DONE"} : Sent(k) => Sent(k)'
    <3>1. CASE PopDone
      <4>1. \A x \in InFlight : x \in InFlight' \/ x = Head(Available)
        BY <1>1, <3>1, PopEffect DEF PopDone, CanPop
      <4>2. Head(Available).kind = "DONE"
        BY <3>1 DEF PopDone
      <4>. QED BY <4>1, <4>2 DEF Sent
    <3>2. CASE ~PopDone
      BY <1>5, <3>2, AwaitFrames DEF Sent
    <3>. QED BY <3>1, <3>2
  <2>3. \A k \in Control \ {"DONE"} : ~Responded(k)'
    BY <1>3, <1>5, AwaitReturns DEF Responded, PopDone
  <2>6. /\ DoneOut' => DoneOut
        /\ Responded("DONE")' => DoneOut
    <3>1. \A x \in InFlight' : x.kind = "DONE" => DoneOut
      BY <1>3, <2>1 DEF Sent, DoneOut
    <3>2. PopDone => DoneOut
      BY <1>1, PopEffect DEF PopDone, CanPop, DoneOut
    <3>3. Responded("DONE")' => PopDone
      BY <1>5, AwaitReturns DEF Responded
    <3>. QED BY <3>1, <3>2, <3>3 DEF DoneOut
  <2>4. ReadlineInv'
    BY <1>1, <1>2, <1>3, <2>1, <2>2, <2>3, <2>6 DEF ReadlineInv
  <2>5. PassthroughInv'
    BY <1>1, <1>2, <1>3, <2>1, <2>2, <2>3, <2>6 DEF PassthroughInv
  <2>. QED BY <2>4, <2>5
<1>. QED BY <1>4, <1>5

(* The event loop shows a question, answers it, or drops it. *)
LEMMA LoopAsks ==
  ASSUME SessionInv, LoopResponse \/ PassthroughResponse
  PROVE  ReadlineInv' /\ PassthroughInv'
<1>. USE DEF SessionInv
<1>. DEFINE r == Head(response)
<1>1. /\ UNCHANGED <<wpc, readline_gate, evicted, ring, stashed>>
      /\ response # <<>> /\ response' = <<>>
      /\ session \in {"loop", "passthrough"}
  BY DEF LoopResponse, PassthroughResponse, Taken
<1>2. DOMAIN response = {1} /\ r = response[1]
  <2>1. response \in Seq([kind : Kind, cmds : SUBSET Int]) /\ Len(response) <= 1
    BY DEF TypeOK, BackendTypeOK
  <2>2. r = response[1] /\ Len(response) \in Nat \ {0}
    BY <1>1, <2>1, TailPlaces
  <2>3. Len(response) = 1
    <3>1. \A n \in Nat \ {0} : n <= 1 => n = 1
      OBVIOUS
    <3>. QED BY <2>1, <2>2, <3>1
  <2>. QED BY <2>1, <2>2, <2>3
<1>3. \A k : (Responded(k) <=> k = r.kind) /\ ~Responded(k)' /\ Sent(k)' = Sent(k)
  <2>1. DOMAIN response' = {}
    BY <1>1
  <2>2. InFlight' = InFlight
    BY <1>1 DEF InFlight
  <2>. QED BY <1>2, <2>1, <2>2 DEF Responded, Sent
<1>4. r.kind \in Control => ControlIn(<<r>>) = {r.kind}
  BY DEF ControlIn
<1>11. DoneOut' = DoneOut
  BY <1>1 DEF DoneOut, InFlight
<1>. HIDE DEF r
<1>5. CASE PassthroughResponse
  <2>1. /\ session = "passthrough" /\ UNCHANGED <<passthrough_gate, mode>>
        /\ IF r.kind = "PASSTHROUGH_END"
           THEN session' = "loop" /\ UNCHANGED discarded
           ELSE /\ discarded' = discarded \cup ControlIn(<<r>>)
                /\ UNCHANGED session
    BY <1>5 DEF PassthroughResponse, r
  <2>2. {"READLINE", "PASSTHROUGH", "PASSTHROUGH_END"} \subseteq Control
    BY DEF Control
  <2>. QED BY <1>1, <1>3, <1>11, <1>4, <2>1, <2>2 DEF ReadlineInv, PassthroughInv
<1>6. CASE LoopResponse /\ LoseRace(r)
  <2>1. /\ session = "loop" /\ UNCHANGED <<passthrough_gate, mode, session>>
        /\ discarded' = discarded \cup ControlIn(<<r>>)
    BY <1>6 DEF LoopResponse, LoseRace
  <2>2. {"READLINE", "PASSTHROUGH", "PASSTHROUGH_END"} \subseteq Control
    BY DEF Control
  <2>. QED BY <1>1, <1>3, <1>11, <1>4, <2>1, <2>2 DEF ReadlineInv, PassthroughInv
<1>7. CASE LoopResponse /\ (ShowOutput(r) \/ ShowRest(r))
  <2>1. /\ session = "loop"
        /\ UNCHANGED <<passthrough_gate, mode, session, discarded>>
        /\ r.kind \notin {"READLINE", "PASSTHROUGH"}
    BY <1>7 DEF LoopResponse, ShowOutput, ShowRest
  <2>. QED BY <1>1, <1>3, <1>11, <2>1 DEF ReadlineInv, PassthroughInv
<1>8. CASE LoopResponse /\ ShowDone(r)
  <2>1. /\ session = "loop"
        /\ UNCHANGED <<passthrough_gate, session, discarded>>
        /\ r.kind = "DONE" /\ mode' = "Normal"
    BY <1>8 DEF LoopResponse, ShowDone
  <2>2. mode # "Readline"
    BY <1>3, <2>1 DEF ReadlineInv
  <2>3. mode = "Normal"
    BY <2>2 DEF TypeOK
  <2>. QED BY <1>1, <1>3, <1>11, <2>1, <2>2, <2>3 DEF ReadlineInv, PassthroughInv
<1>9. CASE LoopResponse /\ ShowReadline(r)
  <2>1. /\ session = "loop"
        /\ UNCHANGED <<passthrough_gate, session, discarded>>
        /\ r.kind = "READLINE" /\ mode' = "Readline"
    BY <1>9 DEF LoopResponse, ShowReadline
  <2>. QED BY <1>1, <1>3, <1>11, <2>1 DEF ReadlineInv, PassthroughInv
<1>10. CASE LoopResponse /\ EnterPassthrough(r)
  <2>1. /\ UNCHANGED <<mode, discarded>> /\ r.kind = "PASSTHROUGH"
        /\ session' = "passthrough" /\ passthrough_gate'
    BY <1>10 DEF LoopResponse, EnterPassthrough, rffi_signal_passthrough
  <2>. QED BY <1>1, <1>3, <1>11, <2>1 DEF ReadlineInv, PassthroughInv
<1>. QED BY <1>5, <1>6, <1>7, <1>8, <1>9, <1>10 DEF LoopResponse, r

(* Keys and the rest: only Enter in readline mode answers a question. *)
LEMMA KeyAsks ==
  ASSUME SessionInv,
         \/ SubmitKey \/ Resize \/ GetReady
         \/ Aside /\ ~LoopResponse /\ ~PassthroughResponse
  PROVE  ReadlineInv' /\ PassthroughInv'
<1>. USE DEF SessionInv
<1>1. UNCHANGED <<ring, stashed, evicted>>
  BY AsideUnchanged
  DEF SubmitKey, submit, Resize, background_submit, GetReady, BecomeReady
<1>2. UNCHANGED <<response, discarded, passthrough_gate>>
  BY DEF SubmitKey, submit, Resize, background_submit, GetReady, BecomeReady,
         Aside, Start, Starting, CreateThread, StartReturns, StartFailed,
         Finally, Join, Leave, AskKey, AiDone, CancelKey, ReadlineKey,
         CompletionKey, QuitKey,
         CallTool, ReturnTool, CallRunr, ReturnRunr
<1>3. /\ \A k : Responded(k)' = Responded(k) /\ Sent(k)' = Sent(k)
      /\ DoneOut' = DoneOut
  BY <1>1, <1>2 DEF Responded, Sent, DoneOut, InFlight
<1>4. session' = session \/ session' # "passthrough"
  BY DEF SubmitKey, Resize, GetReady, Aside, Start, StartFailed, Finally,
         Join, Leave, AskKey, AiDone, CancelKey, ReadlineKey, CompletionKey,
         QuitKey,
         CallTool, ReturnTool
<1>5. wpc' = wpc \/ (wpc = "none" /\ wpc' = "init")
  BY AsideUnchanged DEF SubmitKey, Resize, GetReady, LifeInv
<1>6. CASE ReadlineKey
  <2>1. mode = "Readline" /\ mode' = "Normal" /\ readline_gate' = TRUE
    BY <1>6 DEF ReadlineKey, rffi_submit_readline_input
  <2>. QED BY <1>1, <1>2, <1>3, <1>4, <1>5, <2>1 DEF ReadlineInv, PassthroughInv
<1>7. CASE ~ReadlineKey
  <2>1. UNCHANGED <<mode, readline_gate>>
    BY <1>7
    DEF SubmitKey, submit, Resize, background_submit, GetReady, BecomeReady,
        Aside, Start, Starting, CreateThread, StartReturns, StartFailed,
        Finally, Join, Leave, AskKey, AiDone, CancelKey, CompletionKey,
        QuitKey, CallTool,
        ReturnTool, CallRunr, ReturnRunr
  <2>. QED BY <1>1, <1>2, <1>3, <1>4, <1>5, <2>1 DEF ReadlineInv, PassthroughInv
<1>. QED BY <1>6, <1>7

-----------------------------------------------------------------------------
(* The numbers of the commands. *)

(* The number of a command, whoever submitted it. *)
LEMMA AbsFacts ==
  /\ \A c \in Int : Abs(c) \in Nat
  /\ Abs(NoCmd) = 0
  /\ \A c \in Int : c # NoCmd => Abs(c) > 0
  /\ \A n \in Nat : Abs(n) = n /\ Abs(-n) = n
BY DEF Abs

(* Everything numbered is an integer. *)
LEMMA NumberTypes ==
  ASSUME TypeOK
  PROVE  /\ code \in Int /\ pending_cmd \in Int /\ nsub \in Nat
         /\ finished \subseteq Int /\ buf \subseteq Int
         /\ pending \in Seq(Int \ {NoCmd})
         /\ \A i \in DOMAIN pending : pending[i] \in Int /\ pending[i] # NoCmd
         /\ \A m \in InFlight : m.cmd \in Int
<1>1. pending \in Seq(Int \ {NoCmd})
  BY DEF TypeOK, BackendTypeOK
<1>2. \A i \in DOMAIN pending : pending[i] \in Int /\ pending[i] # NoCmd
  BY <1>1
<1>3. \A m \in InFlight : m.cmd \in Int
  BY InFlightType DEF Frame
<1>. QED BY <1>1, <1>2, <1>3 DEF TypeOK, WorkerTypeOK, BackendTypeOK

(* The worker takes the lowest number that is out and finishes it. *)
LEMMA WorkerNumbers ==
  ASSUME SessionInv, Worker
  PROVE  NumberInv'
<1>. USE DEF SessionInv
<1>1. UNCHANGED <<pending, nsub, buf, response>>
  BY DEF Worker
<1>2. \A m \in InFlight' : Abs(m.cmd) <= nsub
  <2>1. Abs(code) <= nsub /\ Abs(NoCmd) <= nsub
    BY NumberTypes, AbsFacts DEF NumberInv
  <2>2. \A m \in InFlight : Abs(m.cmd) <= nsub
    BY DEF NumberInv
  <2>3. \A m \in InFlight' : m \in InFlight \/ m.cmd = NoCmd \/ m.cmd = code
    BY WorkerInFlight
  <2>. QED BY <2>1, <2>2, <2>3
<1>3. CASE UNCHANGED <<code, pending_cmd, finished>>
  BY <1>1, <1>2, <1>3 DEF NumberInv
<1>4. CASE /\ code = NoCmd /\ code' = pending_cmd /\ pending_cmd # NoCmd
           /\ pending_cmd' = NoCmd /\ finished' = finished
  <2>1. Abs(pending_cmd') <= nsub
    BY <1>4, NumberTypes, AbsFacts
  <2>. QED BY <1>1, <1>2, <1>4, <2>1 DEF NumberInv
<1>5. CASE /\ code # NoCmd /\ code' = NoCmd
           /\ pending_cmd' = pending_cmd /\ finished' = finished \cup {code}
  <2>1. pending_cmd = NoCmd
    BY <1>5 DEF EvalInv
  <2>2. Abs(code') <= nsub
    BY <1>5, NumberTypes, AbsFacts
  <2>. QED BY <1>1, <1>2, <1>5, <2>1, <2>2 DEF NumberInv
<1>. QED BY <1>3, <1>4, <1>5, WorkerCommand

(* What drain collects was in flight, and not hidden when it began. *)
LEMMA AwaitBuf ==
  ASSUME SessionInv, Await
  PROVE  /\ \A c \in buf' : \/ c \in buf
                            \/ /\ \E x \in InFlight : c = x.cmd
                               /\ suppressing => fiber = "draining"
         /\ fiber' = "draining" /\ suppressing => fiber = "draining"
         /\ (fiber' # "draining" /\ fiber # "draining") \/ DrainEnd => buf' = {} \/ buf' = buf
         /\ DrainEnd => buf' = {}
         /\ fiber' # "draining" /\ fiber = "draining" => DrainEnd
<1>. USE DEF SessionInv
<1>1. AwaitStep /\ idle' = idle
  BY DEF Await, AwaitStep
<1>2. CASE PopOutput
  <2>1. Head(Available) \in InFlight
    BY <1>1, <1>2, PopEffect DEF PopOutput, CanPop
  <2>2. ~suppressing /\ fiber' = "draining" /\ buf' = {Head(Available).cmd} /\ ~DrainEnd
    BY <1>2 DEF PopOutput, DrainEnd, Return
  <2>. QED BY <2>1, <2>2
<1>3. CASE DrainOutput
  <2>1. ring # <<>> /\ Head(ring) \in InFlight
    <3>1. ring \in Seq(Frame) /\ ring # <<>>
      BY <1>3, InFlightType DEF DrainOutput
    <3>2. Head(ring) = ring[1] /\ 1 \in DOMAIN ring
      BY <3>1
    <3>. QED BY <3>1, <3>2 DEF InFlight
  <2>2. fiber = "draining" /\ fiber' = "draining" /\ buf' = buf \cup {Head(ring).cmd} /\ ~DrainEnd
    BY <1>3 DEF DrainOutput, DrainEnd, Return
  <2>. QED BY <2>1, <2>2
<1>4. CASE DrainEnd
  BY <1>4 DEF DrainEnd, Return
<1>5. CASE ~PopOutput /\ ~DrainOutput /\ ~DrainEnd
  <2>1. buf' = buf /\ fiber' # "draining" /\ fiber # "draining"
    BY <1>1, <1>5
    DEF AwaitStep, DeliverStartupOutput, PopNothing, PopSuppressed, PopDone,
        PopOther, Return, CanPop, Awaiting
  <2>. QED BY <1>5, <2>1
<1>. QED BY <1>2, <1>3, <1>4, <1>5

(* await_response moves numbers, in order. *)
LEMMA AwaitNumbers ==
  ASSUME SessionInv, Await
  PROVE  NumberInv'
<1>. USE DEF SessionInv
<1>1. UNCHANGED <<code, nsub, finished>> /\ InFlight' \subseteq InFlight /\ AwaitStep
  <2>1. UNCHANGED <<code, nsub, finished>> /\ AwaitStep
    BY DEF Await, AwaitStep
  <2>. QED BY <2>1, AwaitFrames
<1>2. \A c \in buf' : Abs(c) <= nsub
  BY AwaitBuf DEF NumberInv
<1>3. \A i \in DOMAIN response' : \A c \in response'[i].cmds : Abs(c) <= nsub
  <2>1. Abs(NoCmd) <= nsub
    BY NumberTypes, AbsFacts
  <2>. QED BY <2>1, AwaitReturns DEF NumberInv
<1>4. \A m \in InFlight' : Abs(m.cmd) <= nsub
  BY <1>1 DEF NumberInv
<1>5. CASE PopDone /\ pending # <<>>
  <2>1. /\ code = NoCmd /\ flush_pending(FALSE, FALSE)
    BY <1>5, PopDoneEffect
  <2>2. /\ pending_cmd' = pending[1] /\ pending_cmd' # NoCmd
        /\ Len(pending) \in Nat \ {0} /\ Len(pending') = Len(pending) - 1
        /\ \A i \in 1..Len(pending') : pending'[i] = pending[i + 1]
        /\ pending' \in Seq(Int \ {NoCmd})
    BY <1>5, <2>1, FlushEffect
  <2>3. DOMAIN pending = 1..Len(pending) /\ DOMAIN pending' = 1..Len(pending')
    BY <2>2, NumberTypes
  <2>4. 1 \in DOMAIN pending /\ \A i \in DOMAIN pending' : i + 1 \in DOMAIN pending /\ 1 < i + 1
    BY <2>2, <2>3
  <2>5. \A i, j \in DOMAIN pending' : i < j => i + 1 < j + 1
    BY <2>3
  <2>. QED BY <1>1, <1>2, <1>3, <1>4, <2>1, <2>2, <2>3, <2>4, <2>5 DEF NumberInv
<1>6. CASE ~PopDone \/ pending = <<>>
  <2>1. UNCHANGED <<pending, pending_cmd>>
    <3>1. CASE PopDone
      <4>1. pending = <<>> /\ flush_pending(FALSE, FALSE)
        BY <1>6, <3>1 DEF PopDone
      <4>. QED BY <4>1 DEF flush_pending
    <3>2. CASE ~PopDone
      BY <1>1, <3>2 DEF AwaitStep, DeliverStartupOutput, PopNothing,
         PopSuppressed, PopOutput, DrainOutput, DrainEnd, PopOther
    <3>. QED BY <3>1, <3>2
  <2>. QED BY <1>1, <1>2, <1>3, <1>4, <2>1 DEF NumberInv
<1>. QED BY <1>5, <1>6

(* A submitted command gets the next number. *)
LEMMA SubmitNumbers ==
  ASSUME SessionInv, SubmitKey \/ Resize \/ GetReady
  PROVE  NumberInv'
<1>. USE DEF SessionInv
<1>1. UNCHANGED <<ring, stashed, code, response, buf, finished>>
  BY DEF SubmitKey, submit, Resize, background_submit, GetReady, BecomeReady
<1>2. InFlight' = InFlight
  BY <1>1 DEF InFlight
<1>3. /\ code \in Int /\ pending_cmd \in Int /\ nsub \in Nat
      /\ finished \subseteq Int /\ buf \subseteq Int
      /\ pending \in Seq(Int \ {NoCmd})
      /\ \A i \in DOMAIN pending : pending[i] \in Int /\ pending[i] # NoCmd
      /\ \A m \in InFlight : m.cmd \in Int
  BY NumberTypes
<1>4. \A i \in DOMAIN response : response[i].cmds \subseteq Int
  <2>. DEFINE S == [kind : Kind, cmds : SUBSET Int]
  <2>1. response \in Seq(S) /\ \A r \in S : r.cmds \subseteq Int
    BY DEF TypeOK, BackendTypeOK
  <2>. HIDE DEF S
  <2>2. \A i \in DOMAIN response : response[i] \in S
    BY <2>1
  <2>. QED BY <2>1, <2>2
<1>5. CASE SubmitKey \/ Resize
  <2>1. PICK d \in Int \ {NoCmd} :
          /\ nsub' = nsub + 1 /\ Abs(d) = nsub + 1
          /\ IF ready /\ ~busy
             THEN pending_cmd' = d /\ UNCHANGED pending
             ELSE pending' = Append(pending, d) /\ UNCHANGED pending_cmd
    <3>1. /\ nsub + 1 \in Int \ {NoCmd} /\ -(nsub + 1) \in Int \ {NoCmd}
          /\ Abs(nsub + 1) = nsub + 1 /\ Abs(-(nsub + 1)) = nsub + 1
      BY <1>3, AbsFacts
    <3>2. CASE SubmitKey
      BY <3>1, <3>2 DEF SubmitKey, submit, start_eval, rffi_submit
    <3>3. CASE Resize
      BY <3>1, <3>3 DEF Resize, background_submit, start_eval, rffi_submit
    <3>. QED BY <1>5, <3>2, <3>3
  <2>2. \A c \in Int : Abs(c) <= nsub => Abs(c) <= nsub' /\ Abs(c) < Abs(d)
    <3>1. \A a, n \in Nat : a <= n => a <= n + 1 /\ a < n + 1
      OBVIOUS
    <3>. QED BY <1>3, <2>1, <3>1, AbsFacts
  <2>3. Abs(d) <= nsub'
    BY <1>3, <2>1
  <2>4. /\ \A c \in finished \cup buf : Abs(c) <= nsub'
        /\ \A i \in DOMAIN response : \A c \in response[i].cmds : Abs(c) <= nsub'
        /\ \A m \in InFlight : Abs(m.cmd) <= nsub'
        /\ Abs(code) <= nsub'
        /\ \A i \in DOMAIN pending : Abs(pending[i]) <= nsub' /\ Abs(pending[i]) < Abs(d)
        /\ \A c \in finished : Abs(c) < Abs(d)
    BY <1>3, <1>4, <2>2 DEF NumberInv
  <2>5. CASE ready /\ ~busy
    <3>1. pending = <<>> /\ code = NoCmd
      BY <2>5 DEF EvalInv
    <3>2. pending_cmd' = d /\ pending' = <<>> /\ DOMAIN pending' = {}
      BY <2>1, <2>5, <3>1
    <3>. QED BY <1>1, <1>2, <2>3, <2>4, <3>1, <3>2 DEF NumberInv
  <2>6. CASE ~(ready /\ ~busy)
    <3>1. pending_cmd' = pending_cmd /\ pending' = Append(pending, d)
      BY <2>1, <2>6
    <3>2. /\ pending' \in Seq(Int \ {NoCmd}) /\ Len(pending') = Len(pending) + 1
          /\ pending'[Len(pending) + 1] = d
          /\ \A i \in 1..Len(pending) : pending'[i] = pending[i]
          /\ Len(pending) \in Nat
      BY <1>3, <2>1, <3>1
    <3>3. \A i \in DOMAIN pending' :
            \/ i \in DOMAIN pending /\ pending'[i] = pending[i]
            \/ i = Len(pending') /\ pending'[i] = d
      BY <1>3, <3>2
    <3>4. \A i, j \in DOMAIN pending' : i < j => i \in DOMAIN pending
      BY <1>3, <3>2
    <3>5. \A i, j \in DOMAIN pending' :
            i < j => Abs(pending'[i]) < Abs(pending'[j])
      <4>. SUFFICES ASSUME NEW i \in DOMAIN pending', NEW j \in DOMAIN pending', i < j
                    PROVE  Abs(pending'[i]) < Abs(pending'[j])
        OBVIOUS
      <4>1. i \in DOMAIN pending /\ pending'[i] = pending[i]
        BY <1>3, <3>2, <3>4
      <4>2. CASE j \in DOMAIN pending
        <5>1. pending'[j] = pending[j]
          BY <1>3, <3>2, <4>2
        <5>. QED BY <4>1, <4>2, <5>1 DEF NumberInv
      <4>3. CASE j \notin DOMAIN pending
        <5>1. pending'[j] = d
          BY <3>3, <4>3
        <5>. QED BY <2>4, <4>1, <5>1
      <4>. QED BY <4>2, <4>3
    <3>6. Abs(pending_cmd) <= nsub'
      BY <1>3, <2>2 DEF NumberInv
    <3>7. Abs(pending_cmd) < Abs(d) /\ Abs(code) < Abs(d)
      BY <1>3, <2>2 DEF NumberInv
    <3>. QED
      BY <1>1, <1>2, <2>3, <2>4, <3>1, <3>3, <3>5, <3>6, <3>7
      DEF NumberInv
  <2>. QED BY <2>5, <2>6
<1>6. CASE GetReady
  <2>1. /\ ~ready /\ flush_pending(busy, suppressing) /\ busy \in BOOLEAN
        /\ suppressing \in BOOLEAN /\ nsub' = nsub
    BY <1>6 DEF GetReady, BecomeReady, TypeOK, BackendTypeOK
  <2>2. pending # <<>> /\ code = NoCmd
    BY <2>1 DEF EvalInv
  <2>3. /\ pending_cmd' = pending[1] /\ pending_cmd' # NoCmd
        /\ Len(pending) \in Nat \ {0} /\ Len(pending') = Len(pending) - 1
        /\ \A i \in 1..Len(pending') : pending'[i] = pending[i + 1]
        /\ pending' \in Seq(Int \ {NoCmd})
    BY <2>1, <2>2, FlushEffect
  <2>4. DOMAIN pending = 1..Len(pending) /\ DOMAIN pending' = 1..Len(pending')
    BY <1>3, <2>3
  <2>5. 1 \in DOMAIN pending /\ \A i \in DOMAIN pending' : i + 1 \in DOMAIN pending /\ 1 < i + 1
    BY <2>3, <2>4
  <2>6. \A i, j \in DOMAIN pending' : i < j => i + 1 < j + 1
    BY <2>4
  <2>. QED BY <1>1, <1>2, <2>1, <2>2, <2>3, <2>4, <2>5, <2>6 DEF NumberInv
<1>. QED BY <1>5, <1>6

(* The other steps number nothing. *)
LEMMA AsideNumbers ==
  ASSUME SessionInv, Aside
  PROVE  NumberInv'
<1>1. InFlight' = InFlight
  BY AsideUnchanged DEF InFlight
<1>2. response' = response \/ DOMAIN response' = {}
  BY AsideResponse
<1>. QED BY <1>1, <1>2, AsideUnchanged DEF SessionInv, NumberInv

-----------------------------------------------------------------------------
(* The log. *)

(* The horizon is a number of a command, and changes only with the log. *)
LEMMA RowFacts ==
  ASSUME TypeOK
  PROVE  /\ active_command_id # NoRow => Horizon \in Nat
         /\ NoRow = NoCmd
         /\ active_command_id # NoRow /\ Horizon >= 1 =>
              Abs(NoCmd) <= Horizon /\ Abs(-1) <= Horizon
<1>1. active_command_id # NoRow => Horizon \in Nat
  BY DEF TypeOK, LogTypeOK, Row, CommandRow, Horizon, Newest
<1>2. Abs(NoCmd) = 0 /\ Abs(-1) = 1
  BY AbsFacts
<1>3. ASSUME active_command_id # NoRow, Horizon >= 1
      PROVE  Abs(NoCmd) <= Horizon /\ Abs(-1) <= Horizon
  <2>1. Horizon \in Nat
    BY <1>1, <1>3
  <2>. QED BY <1>2, <1>3, <2>1
<1>4. NoRow = NoCmd
  BY DEF NoRow
<1>. QED BY <1>1, <1>3, <1>4

LEMMA HorizonStays ==
  ASSUME active_command_id' = active_command_id, asked' = asked
  PROVE  Horizon' = Horizon
BY DEF Horizon, Newest

LEMMA LogStays ==
  ASSUME UNCHANGED logVars, LogIsHonest, finished \subseteq finished'
  PROVE  /\ UNCHANGED <<active_command_id, asked, Horizon>>
         /\ LogIsHonest'
BY DEF logVars, Horizon, Newest, LogIsHonest

(* The worker finishes commands, and prints under the command it has. *)
LEMMA WorkerLog ==
  ASSUME SessionInv, Worker
  PROVE  LogInv'
<1>. USE DEF SessionInv
<1>1. UNCHANGED <<logVars, suppressing, pending, fiber, buf, response, nsub>>
  BY DEF Worker
<1>2. finished \subseteq finished'
  BY WorkerCommand
<1>3. /\ UNCHANGED <<active_command_id, asked, Horizon>>
      /\ LogIsHonest'
  BY <1>1, <1>2, LogStays DEF LogInv
<1>4. active_command_id # NoRow /\ active_command_id \in CommandRow =>
          \/ active_command_id \in finished'
          \/ active_command_id \in {code', pending_cmd'}
          \/ \E i \in DOMAIN pending : active_command_id = pending[i]
  <2>. SUFFICES ASSUME active_command_id \in {code, pending_cmd}, active_command_id # NoCmd
                PROVE  \/ active_command_id \in finished'
                       \/ active_command_id \in {code', pending_cmd'}
    BY <1>2, RowFacts DEF LogInv
  <2>. QED BY WorkerCommand
<1>5. ASSUME active_command_id # NoRow, suppressing => fiber = "draining"
      PROVE  /\ Abs(code') <= Horizon
             /\ Abs(pending_cmd') <= Horizon
             /\ \A m \in InFlight' : Abs(m.cmd) <= Horizon
  <2>1. /\ Abs(code) <= Horizon
        /\ Abs(pending_cmd) <= Horizon
        /\ \A m \in InFlight : Abs(m.cmd) <= Horizon
        /\ Abs(NoCmd) <= Horizon
    BY <1>5, RowFacts DEF LogInv
  <2>2. code' \in {NoCmd, code, pending_cmd} /\ pending_cmd' \in {NoCmd, pending_cmd}
    BY WorkerCommand
  <2>3. \A m \in InFlight' : m \in InFlight \/ m.cmd = NoCmd \/ m.cmd = code
    BY WorkerInFlight
  <2>. QED BY <2>1, <2>2, <2>3
<1>. QED BY <1>1, <1>3, <1>4, <1>5 DEF LogInv

(* await_response returns output only when it may be shown. *)
LEMMA AwaitLog ==
  ASSUME SessionInv, Await
  PROVE  LogInv'
<1>. USE DEF SessionInv
<1>1. UNCHANGED <<logVars, nsub, code, finished>> /\ AwaitStep /\ InFlight' \subseteq InFlight
  <2>1. UNCHANGED <<logVars, nsub, code, finished>> /\ AwaitStep
    BY DEF Await, AwaitStep
  <2>. QED BY <2>1, AwaitFrames
<1>2. /\ UNCHANGED <<active_command_id, asked, Horizon>>
      /\ LogIsHonest'
  BY <1>1, LogStays DEF LogInv
<1>3. active_command_id # NoRow => \A c \in buf' : Abs(c) <= Horizon
  BY AwaitBuf DEF LogInv
<1>4. active_command_id # NoRow => \A i \in DOMAIN response' : response'[i].kind \in Printed =>
            \A c \in response'[i].cmds : Abs(c) <= Horizon
  <2>1. (PopDone \/ PopOther) /\ suppressing =>
          Head(Available).kind \notin Printed
    BY DEF PopDone, PopOther, Printed
  <2>. QED BY <2>1, AwaitReturns, RowFacts DEF LogInv
<1>5. fiber' # "draining" => buf' = {}
  BY AwaitBuf DEF LogInv
<1>6. CASE PopDone
  <2>1. /\ code = NoCmd /\ pending_cmd = NoCmd /\ flush_pending(FALSE, FALSE)
        /\ \A x \in InFlight' : x.cmd = NoCmd
    BY <1>6, PopDoneEffect
  <2>2. fiber' # "draining"
    BY <1>6 DEF PopDone, Return
  <2>3. CASE pending = <<>>
    <3>1. pending' = pending /\ pending_cmd' = pending_cmd
      BY <2>1, <2>3 DEF flush_pending
    <3>. QED BY <1>1, <1>2, <1>3, <1>4, <1>5, <2>1, <3>1, RowFacts DEF LogInv
  <2>4. CASE pending # <<>>
    <3>1. /\ suppressing' = IsBackground(pending_cmd')
          /\ pending_cmd' = pending[1]
          /\ Len(pending) \in Nat \ {0} /\ Len(pending') = Len(pending) - 1
          /\ \A i \in 1..Len(pending') : pending'[i] = pending[i + 1]
          /\ pending' \in Seq(Int \ {NoCmd}) /\ pending \in Seq(Int \ {NoCmd})
          /\ pending_cmd' \in Int /\ suppressing' \in BOOLEAN
      BY <2>1, <2>4, FlushEffect, NumberTypes
    <3>2. 1 \in DOMAIN pending /\ \A i \in DOMAIN pending' : i + 1 \in DOMAIN pending /\ pending'[i] = pending[i + 1]
      BY <3>1
    <3>3. \A i \in DOMAIN pending : i = 1 \/ (i - 1 \in DOMAIN pending' /\ pending'[i - 1] = pending[i])
      <4>. SUFFICES ASSUME NEW i \in DOMAIN pending, i # 1
                    PROVE  i - 1 \in DOMAIN pending' /\ pending'[i - 1] = pending[i]
        OBVIOUS
      <4>1. i - 1 \in 1..Len(pending') /\ (i - 1) + 1 = i
        BY <3>1
      <4>2. pending'[i - 1] = pending[(i - 1) + 1]
        BY <3>1, <4>1
      <4>. QED BY <3>1, <4>1, <4>2
    <3>4. active_command_id # NoRow /\ active_command_id \in CommandRow =>
             \/ active_command_id \in finished
             \/ active_command_id \in {code, pending_cmd'}
             \/ \E i \in DOMAIN pending' : active_command_id = pending'[i]
      BY <2>1, <3>1, <3>2, <3>3, RowFacts DEF LogInv
    <3>5. active_command_id # NoRow => \A i \in DOMAIN pending' :
            IsUser(pending'[i]) => pending'[i] <= Horizon
      BY <3>2 DEF LogInv
    <3>6. active_command_id # NoRow /\ ~suppressing' => Abs(pending_cmd') <= Horizon
      <4>. SUFFICES ASSUME active_command_id # NoRow, ~IsBackground(pending_cmd')
                    PROVE  Abs(pending_cmd') <= Horizon
        BY <3>1
      <4>1. CASE IsUser(pending_cmd')
        <5>1. pending_cmd' <= Horizon
          BY <3>1, <3>2, <4>1 DEF LogInv
        <5>2. pending_cmd' \in Nat
          BY <3>1, <4>1 DEF IsUser
        <5>. QED BY <5>1, <5>2, AbsFacts
      <4>2. CASE ~IsUser(pending_cmd')
        <5>1. pending_cmd' = NoCmd
          BY <3>1, <4>2 DEF IsUser, IsBackground
        <5>. QED BY <5>1, RowFacts DEF LogInv
      <4>. QED BY <4>1, <4>2
    <3>. QED
      BY <1>1, <1>2, <1>3, <1>4, <1>5, <2>1, <2>2, <3>4, <3>5, <3>6, RowFacts
      DEF LogInv
  <2>. QED BY <2>3, <2>4
<1>7. CASE ~PopDone
  <2>1. UNCHANGED <<suppressing, pending, pending_cmd>>
    BY <1>1, <1>7 DEF AwaitStep, DeliverStartupOutput, PopNothing,
         PopSuppressed, PopOutput, DrainOutput, DrainEnd, PopOther
  <2>2. (suppressing' => fiber' = "draining") => (suppressing => fiber = "draining")
    BY <2>1, AwaitBuf
  <2>. QED BY <1>1, <1>2, <1>3, <1>4, <1>5, <2>1, <2>2 DEF LogInv
<1>. QED BY <1>6, <1>7

(* Enter opens the row of the highest number. *)
LEMMA SubmitLog ==
  ASSUME SessionInv, SubmitKey
  PROVE  LogInv'
<1>. USE DEF SessionInv
<1>1. /\ active_command_id' = nsub + 1 /\ nsub' = nsub + 1 /\ outputs' = outputs
      /\ status' = [Finished("interrupted") EXCEPT ![nsub + 1] = "running"]
      /\ asked' = asked /\ nsub \in Nat /\ Horizon' = nsub'
      /\ UNCHANGED <<code, finished, buf, fiber, response>> /\ fiber = "asleep"
      /\ submit(nsub + 1) /\ nsub < MaxCmd
  <2>1. nsub \in Nat /\ nsub + 1 \notin Query
    BY NumberTypes
  <2>. QED
    BY <2>1 DEF SubmitKey, add_to_history, submit, AtPrompt, Horizon, Newest
<1>2. /\ Abs(code') <= nsub' /\ Abs(pending_cmd') <= nsub'
      /\ \A c \in buf' : Abs(c) <= nsub'
      /\ \A i \in DOMAIN pending' : Abs(pending'[i]) <= nsub'
      /\ \A m \in InFlight' : Abs(m.cmd) <= nsub'
      /\ \A i \in DOMAIN response' : \A c \in response'[i].cmds : Abs(c) <= nsub'
  BY SubmitNumbers DEF NumberInv
<1>3. LogIsHonest'
  <2>1. \A r \in Row : status'[r] = "done" => status[r] = "done"
    <3>1. /\ Finished("interrupted") \in [Row -> {"absent", "running", "done", "error", "interrupted"}]
          /\ \A r \in Row : Finished("interrupted")[r] = "done" => status[r] = "done"
      BY FinishedType DEF TypeOK
    <3>. QED BY <1>1, <3>1
  <2>. QED BY <1>1, <2>1 DEF LogInv, LogIsHonest, Newest, Row
<1>4. nsub \in Nat /\ pending \in Seq(Int \ {NoCmd})
  BY NumberTypes
<1>5. \A i \in DOMAIN pending' : IsUser(pending'[i]) => pending'[i] <= nsub'
  <2>1. TypeOK'
    BY KeyTypes DEF Key
  <2>2. \A i \in DOMAIN pending' : pending'[i] \in Int
    <3>1. pending' \in Seq(Int \ {NoCmd})
      BY <2>1 DEF TypeOK, BackendTypeOK
    <3>. QED BY <3>1
  <2>3. \A c \in Int : IsUser(c) => Abs(c) = c
    BY DEF IsUser, Abs
  <2>. QED BY <1>2, <2>2, <2>3
<1>6. \/ nsub + 1 = pending_cmd'
      \/ \E i \in DOMAIN pending' : nsub + 1 = pending'[i]
  <2>1. CASE ready /\ ~busy
    BY <1>1, <2>1 DEF submit, start_eval, rffi_submit
  <2>2. CASE ~(ready /\ ~busy)
    <3>. DEFINE c == nsub + 1
    <3>1. pending' = Append(pending, c) /\ c \in Int \ {NoCmd}
      BY <1>1, <1>4, <2>2 DEF submit
    <3>. HIDE DEF c
    <3>2. Len(pending) + 1 \in DOMAIN pending' /\ pending'[Len(pending) + 1] = c
      BY <1>4, <3>1
    <3>. QED BY <3>2 DEF c
  <2>. QED BY <2>1, <2>2
<1>7. buf' = {}
  BY <1>1 DEF LogInv
<1>8. nsub' >= 1 /\ \A q \in Query : asked'[q] <= nsub'
  <2>1. \A q \in Query : asked[q] \in Int /\ asked[q] <= nsub
    BY DEF LogInv, TypeOK, LogTypeOK
  <2>. QED BY <1>1, <1>4, <2>1
<1>. QED BY <1>1, <1>2, <1>3, <1>5, <1>6, <1>7, <1>8 DEF LogInv

(* Background commands enter without a row. *)
LEMMA BackgroundLog ==
  ASSUME SessionInv, Resize \/ GetReady
  PROVE  LogInv'
<1>. USE DEF SessionInv
<1>1. /\ UNCHANGED <<logVars, ring, stashed, code, response, buf, finished, fiber>>
      /\ nsub' \in {nsub, nsub + 1}
  BY DEF Resize, background_submit, GetReady, BecomeReady
<1>2. /\ UNCHANGED <<active_command_id, asked, Horizon, InFlight>>
      /\ LogIsHonest'
  BY <1>1, LogStays DEF InFlight, LogInv
<1>3. nsub \in Nat /\ pending \in Seq(Int \ {NoCmd})
  BY NumberTypes
<1>6. nsub' >= 1 /\ \A q \in Query : asked'[q] <= nsub'
  <2>1. \A q \in Query : asked[q] \in Int /\ asked[q] <= nsub
    BY DEF LogInv, TypeOK, LogTypeOK
  <2>2. nsub >= 1
    BY DEF LogInv
  <2>. QED BY <1>1, <1>2, <1>3, <2>1, <2>2
<1>4. CASE Resize
  <2>. DEFINE c == -(nsub + 1)
  <2>1. background_submit(c) /\ c \in Int \ {NoCmd} /\ ~IsUser(c) /\ fiber = "asleep"
    BY <1>3, <1>4 DEF Resize, AtPrompt, IsUser
  <2>. HIDE DEF c
  <2>2. CASE ready /\ ~busy
    <3>1. suppressing' = TRUE /\ pending' = pending /\ pending_cmd' = c
      BY <2>1, <2>2 DEF background_submit, start_eval, rffi_submit
    <3>2. pending = <<>> /\ code = NoCmd /\ pending_cmd = NoCmd
      BY <2>2 DEF EvalInv
    <3>3. DOMAIN pending = {}
      BY <3>2
    <3>4. active_command_id # NoRow /\ active_command_id \in CommandRow =>
            active_command_id \in finished
      BY <3>2, <3>3, RowFacts DEF LogInv
    <3>. QED BY <1>1, <1>2, <1>6, <2>1, <3>1, <3>4 DEF LogInv
  <2>3. CASE ~(ready /\ ~busy)
    <3>1. pending' = Append(pending, c) /\ UNCHANGED <<suppressing, pending_cmd>>
      BY <2>1, <2>3 DEF background_submit
    <3>2. \A i \in DOMAIN pending : i \in DOMAIN pending' /\ pending'[i] = pending[i]
      BY <1>3, <2>1, <3>1
    <3>3. \A i \in DOMAIN pending' : i \in DOMAIN pending \/ pending'[i] = c
      BY <1>3, <2>1, <3>1
    <3>. QED BY <1>1, <1>2, <1>6, <2>1, <3>1, <3>2, <3>3 DEF LogInv
  <2>. QED BY <2>2, <2>3
<1>5. CASE GetReady
  <2>1. /\ ~ready /\ flush_pending(busy, suppressing) /\ busy \in BOOLEAN
        /\ suppressing \in BOOLEAN
    BY <1>5 DEF GetReady, BecomeReady, TypeOK, BackendTypeOK
  <2>2. pending # <<>> /\ code = NoCmd /\ pending_cmd = NoCmd /\ pending[1] = -1 /\ ~busy
        /\ \A m \in InFlight : m.cmd = NoCmd
    BY <2>1 DEF EvalInv
  <2>3. /\ pending_cmd' = pending[1]
        /\ Len(pending) \in Nat \ {0} /\ Len(pending') = Len(pending) - 1
        /\ \A i \in 1..Len(pending') : pending'[i] = pending[i + 1]
        /\ pending' \in Seq(Int \ {NoCmd})
    BY <2>1, <2>2, FlushEffect
  <2>4. \A i \in DOMAIN pending' : i + 1 \in DOMAIN pending /\ pending'[i] = pending[i + 1]
    <3>1. DOMAIN pending = 1..Len(pending) /\ DOMAIN pending' = 1..Len(pending')
      BY <1>3, <2>3
    <3>2. \A m \in Nat \ {0} : \A i \in 1..(m - 1) : i + 1 \in 1..m
      OBVIOUS
    <3>. QED BY <2>3, <3>1, <3>2
  <2>5. \A i \in DOMAIN pending : i = 1 \/ (i - 1 \in DOMAIN pending' /\ pending'[i - 1] = pending[i])
    <3>. SUFFICES ASSUME NEW i \in DOMAIN pending, i # 1
                  PROVE  i - 1 \in DOMAIN pending' /\ pending'[i - 1] = pending[i]
      OBVIOUS
    <3>1. i - 1 \in 1..Len(pending') /\ (i - 1) + 1 = i
      BY <1>3, <2>3
    <3>2. pending'[i - 1] = pending[(i - 1) + 1]
      BY <2>3, <3>1
    <3>. QED BY <2>3, <3>1, <3>2
  <2>6. active_command_id # NoRow /\ active_command_id \in CommandRow =>
             \/ active_command_id \in finished
             \/ active_command_id \in {code, pending_cmd'}
             \/ \E i \in DOMAIN pending' : active_command_id = pending'[i]
    BY <2>2, <2>3, <2>5, RowFacts DEF LogInv
  <2>. QED BY <1>1, <1>2, <1>6, <2>2, <2>3, <2>4, <2>6, RowFacts DEF LogInv
<1>. QED BY <1>4, <1>5

(* A question opens a row too: all that is out was submitted before it. *)
LEMMA AskLog ==
  ASSUME SessionInv, AskKey
  PROVE  LogInv'
<1>. USE DEF SessionInv
<1>1. PICK q \in Query : add_to_history(q, nsub) \/ UNCHANGED logVars
  BY DEF AskKey
<1>2. UNCHANGED <<workerVars, backendVars, nsub>> /\ fiber = "asleep"
  BY DEF AskKey, AtPrompt
<1>3. /\ UNCHANGED <<nsub, finished, code, pending_cmd, pending, suppressing,
                     buf, fiber, response, ring, stashed, InFlight>>
  BY <1>2 DEF workerVars, backendVars, InFlight
<1>4. CASE UNCHANGED logVars
  <2>1. UNCHANGED <<active_command_id, asked, Horizon>> /\ LogIsHonest'
    BY <1>3, <1>4, LogStays DEF LogInv
  <2>. QED BY <1>3, <2>1 DEF LogInv
<1>5. CASE add_to_history(q, nsub)
  <2>1. /\ active_command_id' = q /\ q \notin CommandRow /\ outputs' = outputs
        /\ status' = [Finished("interrupted") EXCEPT ![q] = "running"]
        /\ asked' = [asked EXCEPT ![q] = nsub]
    BY <1>5 DEF add_to_history, CommandRow
  <2>2. nsub \in Nat /\ nsub >= 1 /\ asked \in [Query -> 0..MaxCmd]
    BY DEF TypeOK, LogTypeOK, LogInv
  <2>3. asked'[q] = nsub /\ \A p \in Query : asked'[p] <= nsub /\ asked[p] <= asked'[p]
    BY <2>1, <2>2 DEF LogInv
  <2>4. Horizon' = nsub
    BY <2>1, <2>3 DEF Horizon, Newest
  <2>5. LogIsHonest'
    <3>1. \A r \in CommandRow : status'[r] = "done" => status[r] = "done"
      <4>1. /\ Finished("interrupted") \in [Row -> {"absent", "running", "done", "error", "interrupted"}]
            /\ \A r \in Row : Finished("interrupted")[r] = "done" => status[r] = "done"
        BY FinishedType DEF TypeOK
      <4>. QED BY <2>1, <4>1 DEF Row
    <3>2. ASSUME NEW o \in outputs PROVE Abs(o[2]) <= Newest(o[1])'
      <4>1. Abs(o[2]) <= Newest(o[1]) /\ Abs(o[2]) \in Int /\ o[1] \in Row
        BY AbsFacts DEF LogInv, LogIsHonest, TypeOK, LogTypeOK
      <4>2. CASE o[1] \in Query
        <5>1. Newest(o[1]) = asked[o[1]] /\ Newest(o[1])' = asked'[o[1]]
          BY <4>2 DEF Newest
        <5>2. asked[o[1]] \in Int /\ asked'[o[1]] \in Int
          BY <2>1, <2>2, <4>2
        <5>. QED BY <2>3, <4>1, <4>2, <5>1, <5>2
      <4>3. CASE o[1] \notin Query
        BY <4>1, <4>3 DEF Newest
      <4>. QED BY <4>2, <4>3
    <3>. QED BY <1>3, <2>1, <3>1, <3>2 DEF LogInv, LogIsHonest
  <2>6. \A i \in DOMAIN pending : IsUser(pending[i]) => pending[i] <= nsub
    <3>1. \A i \in DOMAIN pending : pending[i] \in Int /\ Abs(pending[i]) <= nsub
      BY NumberTypes DEF NumberInv
    <3>2. \A c \in Int : IsUser(c) => Abs(c) = c
      BY DEF IsUser, Abs
    <3>. QED BY <3>1, <3>2
  <2>7. /\ Abs(code) <= nsub /\ Abs(pending_cmd) <= nsub
        /\ \A c \in buf : Abs(c) <= nsub
        /\ \A m \in InFlight : Abs(m.cmd) <= nsub
        /\ \A i \in DOMAIN response : \A c \in response[i].cmds : Abs(c) <= nsub
    BY DEF NumberInv
  <2>8. buf = {}
    BY <1>2 DEF LogInv
  <2>. QED
    BY <1>3, <2>1, <2>2, <2>3, <2>4, <2>5, <2>6, <2>7, <2>8 DEF LogInv
<1>. QED BY <1>1, <1>4, <1>5

(* A row is closed as done only when its command has been evaluated. *)
LEMMA AsideLog ==
  ASSUME SessionInv, Aside
  PROVE  LogInv'
<1>. USE DEF SessionInv
<1>1. InFlight' = InFlight
  BY AsideUnchanged DEF InFlight
<1>2. response' = response \/ DOMAIN response' = {}
  BY AsideResponse
<1>3. fiber' = fiber \/ (fiber = "returned" /\ fiber' = "asleep")
  BY DEF Aside, Start, StartFailed, Finally, LoopResponse,
         PassthroughResponse, Taken, Join, Leave, AskKey, AiDone, CancelKey,
         ReadlineKey,
         CompletionKey, QuitKey, CallTool, ReturnTool, TypeOK, BackendTypeOK
<1>. DEFINE r == Head(response)
<1>4. CASE UNCHANGED logVars
  <2>1. UNCHANGED <<active_command_id, asked, Horizon>> /\ LogIsHonest'
    BY <1>4, AsideUnchanged, LogStays DEF LogInv
  <2>2. (suppressing' => fiber' = "draining") => (suppressing => fiber = "draining")
    BY <1>3, AsideUnchanged
  <2>. QED BY <1>1, <1>2, <1>3, <1>4, <2>1, <2>2, AsideUnchanged DEF LogInv
<1>5. ASSUME NEW s \in {"done", "interrupted"}, finish_active(s),
             s = "done" /\ active_command_id # NoRow
               /\ active_command_id \in CommandRow => active_command_id \in finished
      PROVE  LogInv'
  <2>1. /\ active_command_id' = NoRow /\ status' = Finished(s)
        /\ outputs' = outputs /\ asked' = asked
    BY <1>5 DEF finish_active
  <2>2. \A q \in Row : status'[q] = "done" =>
          status[q] = "done" \/ (s = "done" /\ q = active_command_id)
    BY <2>1, FinishedType DEF TypeOK
  <2>3. \A q \in CommandRow : q # NoRow /\ q \in Row
    BY DEF Row, CommandRow, NoRow
  <2>4. LogIsHonest'
    BY <1>5, <2>1, <2>2, <2>3, AsideUnchanged DEF LogInv, LogIsHonest, Newest
  <2>. QED BY <1>3, <2>1, <2>4, AsideUnchanged DEF LogInv
<1>6. CASE CancelKey \/ QuitKey \/ StartFailed
  BY <1>5, <1>6 DEF CancelKey, QuitKey, StartFailed, Finally
<1>7. CASE LoopResponse
  <2>1. 1 \in DOMAIN response /\ r = response[1]
    <3>1. response \in Seq([kind : Kind, cmds : SUBSET Int]) /\ response # <<>>
      BY <1>7 DEF TypeOK, BackendTypeOK, LoopResponse
    <3>2. r = response[1] /\ Len(response) \in Nat \ {0}
      BY <3>1, TailPlaces
    <3>. QED BY <3>1, <3>2
  <2>. HIDE DEF r
  <2>2. CASE ShowDone(r)
    <3>1. r.kind = "DONE" /\ finish_active("done")
      BY <2>2 DEF ShowDone
    <3>2. pending = <<>> /\ code = NoCmd /\ pending_cmd = NoCmd
      BY <2>1, <3>1 DEF ResponseInv, Responded
    <3>3. DOMAIN pending = {}
      BY <3>2
    <3>4. active_command_id # NoRow /\ active_command_id \in CommandRow =>
            active_command_id \in finished
      BY <3>2, <3>3, RowFacts DEF LogInv
    <3>. QED BY <1>5, <3>1, <3>4
  <2>3. CASE ShowOutput(r)
    <3>1. /\ r.kind \in Printed /\ UNCHANGED <<active_command_id, status, asked>>
          /\ outputs' = IF active_command_id = NoRow
                        THEN outputs
                        ELSE outputs \cup ({active_command_id} \X r.cmds)
      BY <2>3 DEF ShowOutput, record_output, Printed
    <3>2. active_command_id # NoRow => \A c \in r.cmds : Abs(c) <= Horizon
      BY <2>1, <3>1 DEF LogInv
    <3>3. \A o \in outputs' : Abs(o[2]) <= Newest(o[1])
      <4>1. \A o \in outputs : Abs(o[2]) <= Newest(o[1])
        BY DEF LogInv, LogIsHonest
      <4>2. ASSUME active_command_id # NoRow, NEW o \in {active_command_id} \X r.cmds
            PROVE  Abs(o[2]) <= Newest(o[1])
        <5>1. o[1] = active_command_id /\ o[2] \in r.cmds
          BY <4>2
        <5>. QED BY <3>2, <4>2, <5>1 DEF Horizon
      <4>. QED BY <3>1, <4>1, <4>2
    <3>4. LogIsHonest'
      BY <3>1, <3>3, AsideUnchanged DEF LogInv, LogIsHonest, Newest
    <3>5. (suppressing' => fiber' = "draining") => (suppressing => fiber = "draining")
      BY <1>3, AsideUnchanged
    <3>6. Horizon' = Horizon
      BY <3>1, HorizonStays
    <3>. QED
      BY <1>1, <1>2, <1>3, <3>1, <3>4, <3>5, <3>6, AsideUnchanged DEF LogInv
  <2>4. CASE ~ShowDone(r) /\ ~ShowOutput(r)
    <3>1. UNCHANGED logVars
      BY <1>7, <2>4
      DEF LoopResponse, ShowReadline, EnterPassthrough, ShowRest, LoseRace, r
    <3>. QED BY <1>4, <3>1
  <2>. QED BY <2>2, <2>3, <2>4
<1>8. CASE ~(CancelKey \/ QuitKey \/ StartFailed \/ LoopResponse \/ AskKey)
  <2>1. UNCHANGED logVars
    BY <1>8 DEF Aside, Start, PassthroughResponse, AiDone, Join, Leave,
         ReadlineKey, CompletionKey, CallTool, ReturnTool
  <2>. QED BY <1>4, <2>1
<1>9. CASE AskKey
  BY <1>9, AskLog
<1>. QED BY <1>6, <1>7, <1>8, <1>9

-----------------------------------------------------------------------------
(* Interrupts. *)

(* An evaluation starts without interrupts, and gets only its own. *)
LEMMA InterruptStep ==
  ASSUME SessionInv, Next
  PROVE  InterruptInv'
<1>. USE DEF SessionInv
<1>1. CASE Worker
  BY <1>1
  DEF InterruptInv, LifeInv, Evaluating, Worker, WorkerStep, LoadR, StartupPrint, StartupMessage,
      StartupReadline, InitDone, CheckShutdown, TakeCommand, TakeRunr,
      TakeCompletion, TakeNothing, ResetRing, StartEval, EvalOutput,
      AskReadline, GotReadline, AskPassthrough, GotPassthrough,
      ExitPassthrough, EvalError, EvalDone, FinishRunr, FinishCompletion,
      IdleOutput, IdleReadline, IdlePassthrough, Asker, EventsDone
<1>2. CASE CancelKey
  <2>1. UNCHANGED <<wpc, code>> /\ rffi_interrupt
    BY <1>2 DEF CancelKey
  <2>. QED BY <2>1 DEF InterruptInv, rffi_interrupt
<1>3. CASE Start
  <2>1. UNCHANGED <<interrupts_pending, aimed, code>> /\ (wpc' = wpc \/ (starter = "starting" /\ wpc' = "init"))
    BY <1>3 DEF Start, Starting, CreateThread, StartReturns
  <2>. QED BY <2>1 DEF InterruptInv, LifeInv
<1>4. CASE ~Worker /\ ~CancelKey /\ ~Start
  <2>1. UNCHANGED <<interrupts_pending, aimed, code, wpc>>
    BY <1>4
    DEF Next, Await, AwaitStep, GetReady, StartFailed, Finally, Key,
        SubmitKey, AskKey, AiDone, ReadlineKey, CompletionKey, QuitKey,
        Resize, LoopResponse,
        PassthroughResponse, Join, Leave, CallTool, ReturnTool, CallRunr,
        ReturnRunr
  <2>. QED BY <2>1 DEF InterruptInv
<1>. QED BY <1>1, <1>2, <1>3, <1>4

(* run of main.ml: the startup commands are queued, and nothing is out. *)
LEMMA InitSession ==
  ASSUME Init
  PROVE  SessionInv
<1>. USE DEF Init, WorkerInit, BackendInit, LogInit
<1>1. PICK queue \in StartupQueue : BackendInit(queue) /\ nsub = Len(queue)
  BY DEF Init
<1>2. /\ queue \in Seq(Int \ {NoCmd})
      /\ Len(queue) \in 1..2 /\ DOMAIN queue = 1..Len(queue)
      /\ queue # <<>>
      /\ \A i \in DOMAIN queue : queue[i] = -i
  <2>1. CASE queue = <<-1>>
    BY <2>1
  <2>2. CASE queue = <<-1, -2>>
    <3>1. Len(queue) = 2 /\ queue[1] = -1 /\ queue[2] = -2
      BY <2>2
    <3>2. queue \in Seq(Int \ {NoCmd}) /\ DOMAIN queue = 1..2
      BY <2>2
    <3>3. \A i \in 1..2 : queue[i] = -i
      <4>1. \A i \in 1..2 : i = 1 \/ i = 2
        OBVIOUS
      <4>. QED BY <3>1, <4>1
    <3>4. queue # <<>>
      BY <3>1
    <3>. QED BY <3>1, <3>2, <3>3, <3>4
  <2>. QED BY <2>1, <2>2 DEF StartupQueue
<1>3. pending = queue /\ nsub = Len(pending)
  BY <1>1
<1>4. /\ InFlight = {} /\ ~DoneOut
      /\ \A k : ~Sent(k) /\ ~Responded(k)
      /\ DOMAIN ring = {} /\ DOMAIN stashed = {} /\ DOMAIN response = {}
  BY DEF InFlight, DoneOut, Sent, Responded
<1>5. \A i \in DOMAIN pending : Abs(pending[i]) = i
  BY <1>2, <1>3 DEF Abs
<1>6. TypeOK
  <2>1. WorkerTypeOK
    <3>1. ring \in Seq([kind : Kind, cmd : Int]) /\ Len(ring) <= RingSlots
      OBVIOUS
    <3>2. runr \in [Caller -> {"out", "waiting"}]
      OBVIOUS
    <3>3. budget \in 0..MaxOutput /\ idle \in 0..MaxIdle
      OBVIOUS
    <3>4. pending_cmd \in Int /\ code \in Int /\ aimed \in Int
      OBVIOUS
    <3>5. /\ pending_completion_line \in BOOLEAN /\ pending_runr \in BOOLEAN
          /\ runr_done \in BOOLEAN /\ passthrough_gate \in BOOLEAN
          /\ readline_gate \in BOOLEAN /\ interrupts_pending \in BOOLEAN
          /\ shutdown_flag \in BOOLEAN /\ init_output \in BOOLEAN
      BY Zenon
    <3>6. /\ starter \in {"starting", "waiting", "failed", "started"}
          /\ init_result \in {"none", "ok", "failed"}
          /\ wpc \in WorkerPc /\ finished \subseteq Int
          /\ evicted \subseteq Control
      BY DEF WorkerPc
    <3>. QED BY <3>1, <3>2, <3>3, <3>4, <3>5, <3>6 DEF WorkerTypeOK
  <2>2. BackendTypeOK
    <3>1. /\ ready \in BOOLEAN /\ busy \in BOOLEAN
          /\ suppressing \in BOOLEAN /\ startup_output \in BOOLEAN
      BY <1>1, Zenon
    <3>2. /\ stashed \in Seq([kind : Kind, cmd : Int]) /\ Len(stashed) <= 1
          /\ response \in Seq([kind : Kind, cmds : SUBSET Int])
          /\ Len(response) <= 1 /\ response = <<>>
      BY <1>1
    <3>3. fiber = "asleep" /\ buf \subseteq Int
      BY <1>1
    <3>. QED BY <1>2, <1>3, <3>1, <3>2, <3>3 DEF BackendTypeOK
  <2>3. LogTypeOK
    <3>1. active_command_had_error \in BOOLEAN
      BY Zenon
    <3>2. status \in [Row -> {"absent", "running", "done", "error",
                              "interrupted"}]
      OBVIOUS
    <3>3. /\ active_command_id \in Row \cup {NoRow} /\ outputs = {}
          /\ asked \in [Query -> 0..MaxCmd]
      OBVIOUS
    <3>. QED BY <3>1, <3>2, <3>3, Zenon DEF LogTypeOK
  <2>4. awaiting_response \in BOOLEAN
    BY Zenon
  <2>5. nsub \in 0..MaxCmd
    <3>1. nsub \in 1..2 /\ MaxCmd >= 2
      BY <1>2, <1>3
    <3>. QED BY <3>1
  <2>6. discarded \subseteq Control
    OBVIOUS
  <2>. QED BY <2>1, <2>2, <2>3, <2>4, <2>5, <2>6 DEF TypeOK
<1>7. LifeInv /\ OrderInv /\ InterruptInv
  BY <1>4 DEF LifeInv, OrderInv, InterruptInv, Evaluating
<1>8. EvalInv /\ HiddenInv /\ ResponseInv
  BY <1>2, <1>3, <1>4 DEF EvalInv, HiddenInv, ResponseInv, IsUser, IsBackground
<1>9. ReadlineInv /\ PassthroughInv
  BY <1>4 DEF ReadlineInv, PassthroughInv
<1>10. NumberInv
  BY <1>2, <1>3, <1>4, <1>5, AbsFacts DEF NumberInv
<1>11. LogInv
  <2>1. nsub >= 1 /\ \A q \in Query : asked[q] <= nsub
    BY <1>2, <1>3
  <2>2. LogIsHonest
    BY DEF LogIsHonest, Row
  <2>. QED BY <1>1, <1>4, <2>1, <2>2 DEF LogInv
<1>. QED
  BY <1>6, <1>7, <1>8, <1>9, <1>10, <1>11 DEF SessionInv

(* Every step, sorted by who takes it. *)
LEMMA StepKinds ==
  ASSUME Next
  PROVE  Worker \/ Await \/ SubmitKey \/ Resize \/ GetReady \/ Aside
  BY DEF Next, Key, Aside

(* Every step of the program keeps what is known of the frames on their way. *)
LEMMA NextSession ==
  ASSUME SessionInv, [Next]_vars
  PROVE  SessionInv'
<1>1. CASE Next
  <2>1. InterruptInv'
    BY <1>1, InterruptStep
  <2>2. CASE Worker
    BY <2>1, <2>2, WorkerTypes, WorkerLife, WorkerOrder, WorkerEval,
       WorkerHidden, WorkerAsks, WorkerNumbers, WorkerLog DEF SessionInv
  <2>3. LifeInv' \/ Worker
    BY <1>1, OtherLife DEF SessionInv
  <2>4. CASE Await
    BY <2>1, <2>2, <2>3, <2>4, AwaitTypes, AwaitFrames, AwaitEval,
       AwaitHidden, AwaitAsks, AwaitNumbers, AwaitLog DEF SessionInv
  <2>5. CASE SubmitKey \/ Resize \/ GetReady
    <3>1. TypeOK'
      BY <2>5, KeyTypes, OtherTypes DEF SessionInv, Key
    <3>. QED
      BY <2>1, <2>2, <2>3, <2>5, <3>1, OtherOrder, SubmitEval, SubmitHidden,
         KeyAsks, SubmitNumbers, SubmitLog, BackgroundLog DEF SessionInv
  <2>6. CASE Aside
    <3>1. TypeOK'
      BY <2>6, KeyTypes, OtherTypes, ResponseTypes DEF SessionInv, Key, Aside
    <3>2. ReadlineInv' /\ PassthroughInv'
      BY <2>6, LoopAsks, KeyAsks
    <3>. QED
      BY <2>1, <2>2, <2>3, <2>6, <3>1, <3>2, OtherOrder, AsideEval,
         AsideHidden, AsideNumbers, AsideLog DEF SessionInv
  <2>. QED
    BY <1>1, <2>2, <2>4, <2>5, <2>6, StepKinds
<1>2. CASE UNCHANGED vars
  <2>. USE DEF vars, backendVars, logVars, uiVars, prompt
  <2>1. UNCHANGED <<workerVars, backendVars, logVars, uiVars>>
    BY <1>2
  <2>2. /\ UNCHANGED <<InFlight, DoneOut, Available>>
        /\ \A k : (Sent(k)' <=> Sent(k)) /\ (Responded(k)' <=> Responded(k))
    BY <2>1 DEF InFlight, DoneOut, Available, Sent, Responded
  <2>3. TypeOK'
    BY <2>1 DEF SessionInv, TypeOK, WorkerTypeOK, BackendTypeOK, LogTypeOK
  <2>4. LifeInv' /\ OrderInv' /\ InterruptInv'
    BY <2>1 DEF SessionInv, LifeInv, OrderInv, InterruptInv
  <2>5. EvalInv' /\ HiddenInv' /\ ResponseInv'
    BY <2>1, <2>2 DEF SessionInv, EvalInv, HiddenInv, ResponseInv
  <2>6. ReadlineInv' /\ PassthroughInv'
    BY <2>1, <2>2 DEF SessionInv, ReadlineInv, PassthroughInv
  <2>7. NumberInv'
    BY <2>1, <2>2 DEF SessionInv, NumberInv
  <2>8. LogInv'
    BY <2>1, <2>2, LogStays DEF SessionInv, LogInv
  <2>. QED
    BY <2>3, <2>4, <2>5, <2>6, <2>7, <2>8 DEF SessionInv
<1>. QED BY <1>1, <1>2

(* What every state of a session satisfies, whatever the ring's size and   *)
(* however many commands, outputs and callers there are.                   *)
THEOREM SessionInvariant == Spec => []SessionInv
  BY InitSession, NextSession, PTL DEF Spec

-----------------------------------------------------------------------------
(* The properties of Session. *)

(* Kinds are looked for in the stash and the ring, which is what           *)
(* await_response will pop.                                                *)
LEMMA TransitIsSent ==
  ASSUME TypeOK, NEW k
  PROVE  InTransit(k) # {} <=> Sent(k)
  BY AvailableFrames DEF InTransit, Sent

(* There is never more than one DONE between the worker and the loop. *)
LEMMA OneDone ==
  ASSUME TypeOK, OrderInv, EvalInv
  PROVE  Cardinality(InTransit("DONE")) = IF DoneOut THEN 1 ELSE 0
<1>1. \A i, j \in DOMAIN Available :
        i < j /\ Available[i].kind = "DONE" => Available[j].kind # "DONE"
  <2> SUFFICES ASSUME NEW i \in DOMAIN Available, NEW j \in DOMAIN Available,
                      i < j, Available[i].kind = "DONE",
                      Available[j].kind = "DONE"
               PROVE  FALSE
    OBVIOUS
  <2>1. /\ Available \in Seq(Frame)
        /\ DOMAIN Available = 1..(Len(stashed) + Len(ring))
        /\ Len(stashed) \in Nat /\ Len(ring) \in Nat /\ Len(stashed) <= 1
        /\ DOMAIN stashed = 1..Len(stashed) /\ DOMAIN ring = 1..Len(ring)
    BY AvailableFrames DEF TypeOK, WorkerTypeOK, BackendTypeOK
  <2>2. Available[j] \in InFlight /\ Available[j].cmd # NoCmd
    BY AvailableFrames DEF EvalInv
  <2>3. j - Len(stashed) \in DOMAIN ring
    BY <2>1
  <2>4. Available[j] = ring[j - Len(stashed)]
    BY <2>1, <2>3, AvailableFrames
  <2>5. CASE i \in 1..Len(stashed)
    <3>1. i \in DOMAIN stashed /\ Available[i] = stashed[i]
      BY <2>1, <2>5, AvailableFrames
    <3>. QED BY <2>2, <2>3, <2>4, <3>1 DEF OrderInv
  <2>6. CASE i \notin 1..Len(stashed)
    <3>1. i - Len(stashed) \in DOMAIN ring
      BY <2>1, <2>6
    <3>2. Available[i] = ring[i - Len(stashed)]
      BY <2>1, <3>1, AvailableFrames
    <3>3. i - Len(stashed) < j - Len(stashed)
      BY <2>1
    <3>. QED BY <2>2, <2>3, <2>4, <3>1, <3>2, <3>3 DEF OrderInv
  <2>. QED BY <2>5, <2>6
<1>2. CASE DoneOut
  <2>1. PICK i \in InTransit("DONE") : TRUE
    BY <1>2, TransitIsSent DEF DoneOut, Sent
  <2>2. InTransit("DONE") = {i}
    <3>1. \A j \in DOMAIN Available : j \in Int
      BY AvailableFrames
    <3>. QED BY <1>1, <2>1, <3>1 DEF InTransit
  <2>. QED BY <1>2, <2>2, FS_Singleton
<1>3. CASE ~DoneOut
  <2>1. InTransit("DONE") = {}
    BY <1>3, TransitIsSent DEF DoneOut, Sent
  <2>. QED BY <1>3, <2>1, FS_EmptySet
<1>. QED BY <1>2, <1>3

(* R is given one evaluation at a time. *)
LEMMA OneEvaluation ==
  ASSUME SessionInv
  PROVE  Evaluations =
           IF pending_cmd # NoCmd \/ code # NoCmd \/ DoneOut THEN 1 ELSE 0
  BY OneDone DEF Evaluations, SessionInv, EvalInv

(* Types are kept by the whole program: no step of the four fibers, the R  *)
(* thread and the callers of run_r leaves the values the model names, and  *)
(* the ring never holds more frames than fit.                              *)
THEOREM SessionTypes == Spec => []TypeOK
<1>1. SessionInv => TypeOK
  BY DEF SessionInv
<1>. QED BY <1>1, SessionInvariant, PTL

(* busy of ffi_backend.ml is in step with the worker thread: at most one   *)
(* evaluation is out, busy is true while one is, and false otherwise       *)
(* unless the ring gave up a DONE.                                         *)
THEOREM BusyIsInStep == Spec => []BusyInStep
<1>1. SessionInv => BusyInStep
  <2> SUFFICES ASSUME SessionInv PROVE BusyInStep
    OBVIOUS
  <2>. QED BY OneEvaluation DEF SessionInv, EvalInv, BusyInStep
<1>. QED BY <1>1, SessionInvariant, PTL

(* rb_push and rb_reset never take a request R is blocked on, and a DONE   *)
(* only when output printed between commands fills the ring by itself.     *)
THEOREM RequestsAreKept == Spec => []RingKeepsRequests
<1>1. SessionInv => RingKeepsRequests
  BY DEF SessionInv, EvalInv, ReadlineInv, PassthroughInv, RingKeepsRequests
<1>. QED BY <1>1, SessionInvariant, PTL

(* suppressing of ffi_backend.ml never hides what a user's command printed. *)
THEOREM UserOutputIsShown == Spec => []OnlyBackgroundHidden
<1>1. SessionInv => OnlyBackgroundHidden
  BY AvailableFrames DEF SessionInv, HiddenInv, OnlyBackgroundHidden
<1>. QED BY <1>1, SessionInvariant, PTL

(* A Done that await_response returns is that of a user's command, and R   *)
(* has nothing else to do.                                                 *)
THEOREM DoneIsTheLast == Spec => []DoneMeansIdle
<1>1. SessionInv => DoneMeansIdle
  <2> SUFFICES ASSUME SessionInv PROVE DoneMeansIdle
    OBVIOUS
  <2>. QED
    BY OneEvaluation
    DEF SessionInv, ResponseInv, Responded, DoneMeansIdle
<1>. QED BY <1>1, SessionInvariant, PTL

(* The spin gates of load_r.c are open only for an R that waits at them,   *)
(* and the terminal is away only while system() has it or its end is on    *)
(* the way.                                                                *)
THEOREM GatesAreInStep == Spec => []GatesInStep
<1>1. SessionInv => GatesInStep
  <2> SUFFICES ASSUME SessionInv PROVE GatesInStep
    OBVIOUS
  <2>1. TypeOK
    BY DEF SessionInv
  <2>. QED
    BY <2>1, TransitIsSent
    DEF SessionInv, ReadlineInv, PassthroughInv, Responded, GatesInStep
<1>. QED BY <1>1, SessionInvariant, PTL

(* Whenever R spins at a gate, the question is in the ring, in the loop,   *)
(* on the screen or answered: R and the UI never wait for each other.      *)
THEOREM EveryWaitIsAsked == Spec => []NobodyWaitsUnasked
<1>1. SessionInv => NobodyWaitsUnasked
  <2> SUFFICES ASSUME SessionInv PROVE NobodyWaitsUnasked
    OBVIOUS
  <2>1. TypeOK
    BY DEF SessionInv
  <2>. QED
    BY <2>1, TransitIsSent
    DEF SessionInv, ReadlineInv, PassthroughInv, Responded, Asked,
        NobodyWaitsUnasked
<1>. QED BY <1>1, SessionInvariant, PTL

(* An interrupt that is pending while R evaluates was asked for during     *)
(* that evaluation.                                                        *)
THEOREM InterruptsHitTheirTarget == Spec => []InterruptsAreFresh
<1>1. SessionInv => InterruptsAreFresh
  BY DEF SessionInv, InterruptInv, InterruptsAreFresh
<1>. QED BY <1>1, SessionInvariant, PTL

(* The log of history.ml never says "done" of a command R has not finished, *)
(* and files no output under a command, or a question to the AI, that was  *)
(* entered before the command that printed it.                             *)
THEOREM LogStaysHonest == Spec => []LogIsHonest
<1>1. SessionInv => LogIsHonest
  BY DEF SessionInv, LogInv
<1>. QED BY <1>1, SessionInvariant, PTL

-----------------------------------------------------------------------------
(* The session implements SerialExecutor. *)

(* The commands accepted and not begun, oldest first. *)
Todo == (IF pending_cmd = NoCmd THEN <<>> ELSE <<pending_cmd>>) \o pending

(* A queue without a mailbox, and one with it. *)
LEMMA TodoCases ==
  ASSUME TypeOK
  PROVE  /\ pending \in Seq(Int)
         /\ pending_cmd = NoCmd => Todo = pending
         /\ pending_cmd # NoCmd => Todo = <<pending_cmd>> \o pending
         /\ pending_cmd # NoCmd =>
              Todo # <<>> /\ Head(Todo) = pending_cmd /\ Tail(Todo) = pending
<1>1. pending \in Seq(Int) /\ pending_cmd \in Int
  BY NumberTypes
<1>. QED BY <1>1 DEF Todo

(* flush_pending moves the oldest command from the queue to the mailbox:   *)
(* it is waited for as before.                                             *)
LEMMA FlushKeepsTodo ==
  ASSUME TypeOK, TypeOK', pending_cmd = NoCmd,
         NEW b \in BOOLEAN, NEW s \in BOOLEAN, flush_pending(b, s)
  PROVE  Todo' = Todo
<1>1. CASE pending = <<>>
  <2>1. UNCHANGED <<pending, pending_cmd>>
    BY <1>1 DEF flush_pending
  <2>. QED BY <2>1 DEF Todo
<1>2. CASE pending # <<>>
  <2>1. pending' = Tail(pending) /\ pending_cmd' = Head(pending)
    BY <1>2 DEF flush_pending, start_eval, rffi_submit
  <2>2. pending_cmd' # NoCmd
    BY <1>2, FlushEffect
  <2>3. Todo = pending /\ pending \in Seq(Int)
    BY TodoCases
  <2>4. Todo' = <<Head(pending)>> \o Tail(pending)
    BY <2>1, <2>2 DEF Todo
  <2>5. <<Head(pending)>> \o Tail(pending) = pending
    BY <1>2, <2>3
  <2>. QED BY <2>3, <2>4, <2>5
<1>. QED BY <1>1, <1>2

(* The program starts as an executor that has accepted the startup script  *)
(* and perhaps the choice of a plot device.                                *)
LEMMA InitImplements ==
  ASSUME Init
  PROVE  Executor!SEInit
<1>1. PICK queue \in StartupQueue : BackendInit(queue) /\ nsub = Len(queue)
  BY DEF Init
<1>2. pending = queue /\ pending_cmd = NoCmd /\ code = NoCmd /\ finished = {}
  BY <1>1 DEF Init, WorkerInit, BackendInit
<1>3. TypeOK
  BY InitSession DEF SessionInv
<1>4. Todo = queue /\ nsub = Len(Todo)
  BY <1>1, <1>2, <1>3, TodoCases
<1>5. \A i \in DOMAIN Todo : Todo[i] = -i
  <2>1. CASE queue = <<-1>>
    BY <1>4, <2>1
  <2>2. CASE queue = <<-1, -2>>
    <3>1. DOMAIN Todo = 1..2 /\ Todo[1] = -1 /\ Todo[2] = -2
      BY <1>4, <2>2
    <3>2. \A i \in 1..2 : i = 1 \/ i = 2
      OBVIOUS
    <3>. QED BY <3>1, <3>2
  <2>. QED BY <1>1, <2>1, <2>2 DEF StartupQueue
<1>. QED BY <1>2, <1>4, <1>5 DEF Executor!SEInit, Todo

(* The thread begins what is first in line and ends what it began: no      *)
(* command is evaluated twice, because numbers only grow.                  *)
LEMMA WorkerImplements ==
  ASSUME SessionInv, Worker
  PROVE  Executor!Begin \/ Executor!End \/ UNCHANGED <<nsub, Todo, code, finished>>
<1>1. UNCHANGED <<nsub, pending>>
  BY DEF Worker
<1>2. TypeOK /\ TypeOK' /\ LifeInv /\ NumberInv
  BY WorkerTypes DEF SessionInv
<1>3. CASE UNCHANGED <<code, pending_cmd, finished>>
  BY <1>1, <1>3 DEF Todo
<1>4. CASE TakeCommand
  <2>1. /\ code = NoCmd /\ code' = pending_cmd /\ pending_cmd # NoCmd
        /\ pending_cmd' = NoCmd /\ finished' = finished
    BY <1>2, <1>4, WorkerCommand DEF TakeCommand, EvalDone
  <2>2. Todo # <<>> /\ code' = Head(Todo) /\ Todo' = pending /\ Tail(Todo) = pending
    <3>1. Todo # <<>> /\ Head(Todo) = pending_cmd /\ Tail(Todo) = pending
      BY <1>2, <2>1, TodoCases
    <3>2. Todo' = pending'
      <4>1. pending' \in Seq(Int)
        BY <1>1, <1>2, TodoCases
      <4>. QED BY <2>1, <4>1 DEF Todo
    <3>. QED BY <1>1, <2>1, <3>1, <3>2
  <2>. QED BY <1>1, <2>1, <2>2 DEF Executor!Begin, Todo
<1>5. CASE EvalDone
  <2>1. /\ code # NoCmd /\ code' = NoCmd /\ pending_cmd' = pending_cmd
        /\ finished' = finished \cup {code}
    BY <1>2, <1>5, WorkerCommand DEF TakeCommand, EvalDone
  <2>2. code \notin finished
    <3>1. Abs(code) \in Nat
      BY <1>2, NumberTypes, AbsFacts
    <3>. QED BY <1>2, <2>1, <3>1 DEF NumberInv
  <2>3. Todo' = Todo
    BY <1>1, <2>1 DEF Todo
  <2>. QED BY <1>1, <2>1, <2>2, <2>3 DEF Executor!End, Todo
<1>. QED
  BY <1>2, <1>3, <1>4, <1>5, WorkerCommand

(* submit and background_submit put the new command last in line, whether  *)
(* they hand it to R or queue it.                                          *)
LEMMA SubmitImplements ==
  ASSUME SessionInv, SubmitKey \/ Resize
  PROVE  Executor!Accept
<1>1. PICK c \in {nsub + 1, -(nsub + 1)} :
        IF ready /\ ~busy
        THEN pending_cmd' = c /\ pending' = pending
        ELSE pending' = Append(pending, c) /\ pending_cmd' = pending_cmd
  BY DEF SubmitKey, Resize, submit, background_submit, start_eval, rffi_submit
<1>2. nsub' = nsub + 1 /\ UNCHANGED <<code, finished>>
  BY DEF SubmitKey, Resize
<1>3. TypeOK /\ pending \in Seq(Int) /\ c \in Int /\ c # NoCmd
  <2>1. TypeOK /\ nsub \in Nat
    BY NumberTypes DEF SessionInv
  <2>. QED BY <2>1, TodoCases
<1>4. Todo' = Append(Todo, c)
  <2>1. CASE ready /\ ~busy
    <3>1. pending = <<>> /\ pending_cmd = NoCmd
      BY <2>1 DEF SessionInv, EvalInv
    <3>2. pending' = <<>> /\ pending_cmd' = c
      BY <1>1, <2>1, <3>1
    <3>3. Todo = <<>> /\ Todo' = <<c>>
      BY <1>3, <3>1, <3>2 DEF Todo
    <3>. QED BY <3>3
  <2>2. CASE ~(ready /\ ~busy)
    <3>1. pending' = Append(pending, c) /\ pending_cmd' = pending_cmd
      BY <1>1, <2>2
    <3>2. CASE pending_cmd = NoCmd
      BY <1>3, <3>1, <3>2 DEF Todo
    <3>3. CASE pending_cmd # NoCmd
      <4>1. Todo = <<pending_cmd>> \o pending
        BY <3>3 DEF Todo
      <4>2. Todo' = <<pending_cmd>> \o Append(pending, c)
        BY <3>1, <3>3 DEF Todo
      <4>3. pending_cmd \in Int
        BY <1>3, NumberTypes
      <4>. QED BY <1>3, <4>1, <4>2, <4>3
    <3>. QED BY <3>2, <3>3
  <2>. QED BY <2>1, <2>2
<1>5. Todo' = Append(Todo, nsub + 1) \/ Todo' = Append(Todo, -(nsub + 1))
  BY <1>4
<1>. QED BY <1>2, <1>5 DEF Executor!Accept, Todo

(* What the loop does with frames, and all the rest, is internal to the    *)
(* executor.                                                               *)
LEMMA RestImplements ==
  ASSUME SessionInv, Await \/ GetReady \/ Aside
  PROVE  UNCHANGED <<nsub, Todo, code, finished>>
<1>1. TypeOK /\ TypeOK'
  BY AwaitTypes, KeyTypes, ResponseTypes, OtherTypes DEF SessionInv, Aside, Key
<1>2. CASE Aside
  BY <1>2, AsideUnchanged DEF Todo
<1>3. CASE GetReady
  <2>1. UNCHANGED <<nsub, code, finished>> /\ ~ready /\ flush_pending(busy, suppressing)
    BY <1>3 DEF GetReady, BecomeReady
  <2>2. pending_cmd = NoCmd
    BY <2>1 DEF SessionInv, EvalInv
  <2>3. busy \in BOOLEAN /\ suppressing \in BOOLEAN
    BY <1>1 DEF TypeOK, BackendTypeOK
  <2>. QED BY <1>1, <2>1, <2>2, <2>3, FlushKeepsTodo
<1>4. CASE Await
  <2>1. UNCHANGED <<nsub, code, finished>>
    BY <1>4 DEF Await, AwaitStep
  <2>2. CASE PopDone
    BY <1>1, <1>4, <2>1, <2>2, PopDoneEffect, FlushKeepsTodo
  <2>3. CASE ~PopDone
    <3>1. UNCHANGED <<pending, pending_cmd>>
      BY <1>4, <2>3
      DEF Await, AwaitStep, DeliverStartupOutput, PopNothing, PopSuppressed,
          PopOutput, DrainOutput, DrainEnd, PopOther
    <3>. QED BY <2>1, <3>1 DEF Todo
  <2>. QED BY <2>2, <2>3
<1>. QED BY <1>2, <1>3, <1>4

(* The bridge is a serial executor: no interleaving of keys, resizes,      *)
(* completions and the two threads loses, repeats or reorders a command,   *)
(* and no two are evaluated at once.                                       *)
THEOREM SessionImplementsExecutor == Spec => ImplementsExecutor
<1>1. Init => Executor!SEInit
  BY InitImplements
<1>2. SessionInv /\ [Next]_vars => [Executor!SENext]_(Executor!seVars)
  <2> SUFFICES ASSUME SessionInv, [Next]_vars
               PROVE  Executor!SENext \/ UNCHANGED <<nsub, Todo, code, finished>>
    BY DEF Executor!seVars, Todo
  <2>1. CASE Next
    BY <2>1, StepKinds, WorkerImplements, SubmitImplements, RestImplements
    DEF Executor!SENext
  <2>2. CASE UNCHANGED vars
    BY <2>2 DEF vars, Todo
  <2>. QED BY <2>1, <2>2
<1>. QED
  BY <1>1, <1>2, SessionInvariant, PTL
  DEF Spec, ImplementsExecutor, Executor!SESpec

=============================================================================
