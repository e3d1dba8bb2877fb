--------------------------- MODULE AudioModeProof ---------------------------
(***************************************************************************)
(* Proofs about the DSP handshake for any delays, any length of a frame    *)
(* and any width of the clock.                                             *)
(***************************************************************************)
EXTENDS AudioMode, SequenceTheorems, TLAPS

\* The frames before a frame.
Pos == [stop |-> 0, gate |-> 1, resume |-> 2, rate |-> 3]
Restarting == {"isolate", "begin", "configuring", "connect", "delay"}

\* What is on its way is the rest of the frame the DSP is in.
Line == /\ \A i \in 1..Len(fifo) : fifo[i] = [frame |-> frame, k |-> peer.got + i]
        /\ peer.got > 0 => peer.frame = frame
        /\ ~peer.garbled

\* The bytes of the current frame the port has taken are counted by the offset, until the
\* frame is whole; only what a failing port has taken is not.
Sent == peer.got + Len(fifo)
Placed ==
  /\ offset > 0 => state \in {"send", "failed"}
  /\ error = "tx" => state \in {"failed", "canceled"}
  /\ Busy /\ error # "tx" => \/ Sent = offset
                             \/ /\ offset = 0 /\ Sent = Bytes
                                /\ state \in {"drain", "failed", "canceled"}
  /\ drained => offset = 0 /\ fifo = <<>> /\ owner # "handshake"

\* Who lets go of UART3 leaves nothing of a frame behind, unless the port had failed.
LetGo == owner \in {"free", "running"} /\ error # "tx" => AtBoundary

\* A frame is acknowledged once, while it is sent or during the gap after it, and only then
\* does the next one follow.
Acks ==
  /\ state \in {"idle", "initial"} => frame = "stop" /\ acked = 0 /\ ~waiting
  /\ state = "send" => acked = Pos[frame] /\ ~waiting /\ (offset > 0 => ~received)
  /\ state \in {"drain", "gap"} =>
       /\ received => ~waiting /\ acked = Pos[frame] + 1
       /\ ~received => acked = Pos[frame]
  /\ state \in Restarting => frame = "resume" /\ acked = 2 /\ ~waiting
  /\ state = "complete" => frame = "rate" /\ acked = 4

\* The DSP has got every frame before the current one, and that one once it has drained.
Heard ==
  /\ \A f \in Frame : Pos[f] < Pos[frame] => f \in heard
  /\ state \in {"gap", "complete"} => frame \in heard
  /\ state = "drain" /\ fifo = <<>> => frame \in heard

\* Whoever gives the handshake up has stopped the ring.
RingOwned ==
  /\ owner \in {"free", "closed", "quiesce", "fault"} => ~ring /\ ~pins
  /\ owner = "handshake" /\ state \in {"configuring", "connect"} => ring
  /\ owner = "running" => state = "complete"

\* The sample of the time is as old as the service allows, at most.
Sampled == Sub(now, t) <= IF pc = "sample" THEN MaxLoop ELSE MaxSlip

\* The line has been quiet for as long as the stamp of the current step is old, short of the
\* age of the sample that it was taken from, or long enough already (so that a clock that
\* has wrapped does no harm).
Quieted == quiet >= Interframe - MaxSlip
Since(x) == Quieted \/ Sub(x, phase) <= quiet + MaxSlip
Stamped ==
  /\ state \in {"initial", "gap"} \/ drained => Since(now) /\ (pc # "sample" => Since(t))
  /\ (state = "send" /\ offset = 0) \/ state \in Restarting \cup {"complete"} => Quieted

ModeInv == /\ TypeOK /\ Line /\ Placed /\ LetGo
           /\ Acks /\ Heard /\ RingOwned /\ InStep
           /\ Sampled /\ Stamped

-----------------------------------------------------------------------------
\* The frames have a fixed place, and a step of the clock is one tick or the wrap.
LEMMA FramePos == \A f \in Frame : Pos[f] \in 0..3
  BY DEF Frame, Pos

LEMMA ClockStep ==
  ASSUME NEW i \in 0..(Wrap - 1), NEW j \in 0..(Wrap - 1)
  PROVE  /\ (i + 1) % Wrap \in 0..(Wrap - 1)
         /\ Sub(i, j) \in 0..(Wrap - 1) /\ Sub(j, j) = 0
         /\ Sub((i + 1) % Wrap, j) <= Sub(i, j) + 1
<1>1. (i + 1) % Wrap = IF i + 1 = Wrap THEN 0 ELSE i + 1
  BY WrapAssumption
<1> QED
  BY <1>1, WrapAssumption DEF Sub

LEMMA PieceSeq ==
  ASSUME TypeOK, NEW n \in 0..(Bytes - offset)
  PROVE  /\ Piece(n) \in Seq(Byte0) /\ Len(Piece(n)) = n
         /\ \A i \in 1..n : Piece(n)[i] = [frame |-> frame, k |-> offset + i]
  BY SizesAssumption DEF Piece, TypeOK, Byte0, Frame

\* What send_frame comes to: the bytes the port takes go on where the frame is, and the frame
\* is whole, or goes on later, or the port has failed.
SentPiece ==
  /\ received' = (received /\ offset > 0)
  /\ UNCHANGED <<frame, acked>>
  /\ \E n \in 0..(Bytes - offset) :
       /\ fifo' \in Seq(Byte0) /\ Len(fifo') = Len(fifo) + n
       /\ \A i \in 1..Len(fifo') : fifo'[i] = [frame |-> frame, k |-> peer.got + i]
       /\ \/ /\ offset + n = Bytes
             /\ state' = "drain" /\ offset' = 0 /\ phase' = t /\ waiting' = TRUE
             /\ UNCHANGED <<error, i2sVars>>
          \/ /\ offset + n < Bytes
             /\ offset' = offset + n /\ waiting' = FALSE
             /\ UNCHANGED <<state, phase, error, i2sVars>>
          \/ /\ offset + n < Bytes
             /\ state' = "failed" /\ error' = "tx" /\ waiting' = FALSE
             /\ pins' = FALSE /\ ring' = FALSE
             /\ UNCHANGED <<offset, phase>>
LEMMA SendParts ==
  ASSUME TypeOK, Line, Placed, Acks, Busy, state = "send", SendFrame
  PROVE  SentPiece
<1>1. error # "tx" /\ Sent = offset
  BY DEF Placed
<1>2. ~waiting
  BY DEF Acks
<1>3. PICK n \in 0..(Bytes - offset) :
         /\ fifo' = fifo \o Piece(n)
         /\ \/ /\ offset + n = Bytes
               /\ waiting' = TRUE
               /\ Transition("drain", frame)
               /\ UNCHANGED <<error, i2sVars>>
            \/ /\ offset + n < Bytes
               /\ waiting' = (waiting /\ offset > 0)
               /\ offset' = offset + n
               /\ UNCHANGED <<state, frame, phase, error, i2sVars>>
            \/ /\ offset + n < Bytes
               /\ waiting' = (waiting /\ offset > 0)
               /\ Fail("tx") /\ Teardown
  BY DEF SendFrame
<1>4. fifo \in Seq(Byte0) /\ Piece(n) \in Seq(Byte0) /\ Len(Piece(n)) = n
  BY PieceSeq DEF TypeOK
<1>5. fifo' \in Seq(Byte0) /\ Len(fifo') = Len(fifo) + n
  BY <1>3, <1>4
<1>6. ASSUME NEW i \in 1..Len(fifo')
      PROVE  fifo'[i] = [frame |-> frame, k |-> peer.got + i]
  <2>1. CASE i <= Len(fifo)
    BY <1>3, <1>4, <2>1 DEF Line
  <2>2. CASE i > Len(fifo)
    <3>1. i - Len(fifo) \in 1..n
      BY <1>4, <1>5, <2>2
    <3>2. fifo'[i] = Piece(n)[i - Len(fifo)]
      BY <1>3, <1>4, <1>5, <2>2
    <3>3. fifo'[i] = [frame |-> frame, k |-> offset + (i - Len(fifo))]
      BY <3>1, <3>2, PieceSeq
    <3> QED
      <4>1. peer.got \in Nat
        BY DEF TypeOK
      <4>2. offset + (i - Len(fifo)) = peer.got + i
        BY <1>1, <1>4, <1>5, <4>1 DEF Sent
      <4> QED
        BY <3>3, <4>2
  <2> QED
    BY <1>4, <1>5, <2>1, <2>2
<1>7. frame' = frame /\ acked' = acked /\ received' = (received /\ offset > 0)
  BY <1>3 DEF SendFrame, Received, Transition, Fail
<1>8. \/ /\ offset + n = Bytes
         /\ state' = "drain" /\ offset' = 0 /\ phase' = t /\ waiting' = TRUE
         /\ UNCHANGED <<error, i2sVars>>
      \/ /\ offset + n < Bytes
         /\ offset' = offset + n /\ waiting' = FALSE
         /\ UNCHANGED <<state, phase, error, i2sVars>>
      \/ /\ offset + n < Bytes
         /\ state' = "failed" /\ error' = "tx" /\ waiting' = FALSE
         /\ pins' = FALSE /\ ring' = FALSE
         /\ UNCHANGED <<offset, phase>>
  BY <1>2, <1>3 DEF Transition, Fail, Teardown
<1> QED
  BY <1>5, <1>6, <1>7, <1>8 DEF SentPiece

OffsetCounts ==
  \/ state' = "drain" /\ offset' = 0 /\ error' = error /\ Sent' = Bytes
  \/ state' = state /\ error' = error /\ Sent' = offset'
  \/ state' = "failed" /\ error' = "tx"
LEMMA SentPlaced ==
  ASSUME TypeOK, SentPiece, peer' = peer, Sent = offset
  PROVE  OffsetCounts
<1>1. /\ Len(fifo) \in Nat /\ peer.got \in Nat /\ offset \in Nat /\ Bytes \in Nat
      /\ peer.got + Len(fifo) = offset
  BY SizesAssumption DEF TypeOK, Sent
<1>2. PICK n \in 0..(Bytes - offset) :
        /\ Len(fifo') = Len(fifo) + n
        /\ \/ offset + n = Bytes /\ state' = "drain" /\ offset' = 0 /\ error' = error
           \/ offset' = offset + n /\ state' = state /\ error' = error
           \/ state' = "failed" /\ error' = "tx"
  BY DEF SentPiece
<1>3. Sent' = peer.got + Len(fifo')
  BY DEF Sent
<1>4. Sent' = offset + n
  BY <1>1, <1>2, <1>3
<1> QED
  BY <1>1, <1>2, <1>4 DEF OffsetCounts

\* The last byte of a frame is the last one on its way.
LEMMA WholeLast ==
  ASSUME TypeOK, Line, fifo # <<>>, peer.got + 1 = Bytes
  PROVE  Len(fifo) = 1
<1>1. fifo \in Seq(Byte0) /\ Len(fifo) \in 1..Bytes /\ peer.got \in 0..(Bytes - 1)
  BY DEF TypeOK
<1>2. fifo[Len(fifo)] = [frame |-> frame, k |-> peer.got + Len(fifo)]
  BY <1>1 DEF Line
<1>3. peer.got + Len(fifo) \in 1..Bytes
  BY <1>1, <1>2 DEF Byte0
<1>4. Bytes \in Nat /\ peer.got = Bytes - 1
  BY <1>1, SizesAssumption
<1>5. peer.got + Len(fifo) <= Bytes
  BY <1>3, <1>4
<1>6. Len(fifo) \in Nat /\ Len(fifo) >= 1 /\ peer.got \in Nat
  BY <1>1, <1>4
<1>7. \A b, g, n \in Nat : g = b - 1 /\ g + n <= b /\ n >= 1 => n = 1
  OBVIOUS
<1> QED
  BY <1>4, <1>5, <1>6, <1>7

\* What a byte comes to: it is the next one of the current frame, and may complete it.
LEMMA ByteParts ==
  ASSUME TypeOK, Line, Byte
  PROVE  /\ Busy /\ fifo # <<>> /\ quiet' = 0
         /\ fifo' \in Seq(Byte0) /\ Len(fifo') = Len(fifo) - 1
         /\ \A i \in 1..Len(fifo') : fifo'[i] = fifo[i + 1]
         /\ LET whole == peer.got + 1 = Bytes
            IN /\ peer' = [frame |-> frame, got |-> IF whole THEN 0 ELSE peer.got + 1,
                           garbled |-> FALSE]
               /\ heard' = IF whole THEN heard \cup {frame} ELSE heard
               /\ owed' = IF whole THEN {frame} ELSE owed
         /\ UNCHANGED <<now, t, stepVars, started, ackVars, error, quietVars, owner, pc, rx,
                        i2sVars>>
<1>1. fifo \in Seq(Byte0) /\ fifo # <<>> /\ fifo' = Tail(fifo)
  BY DEF TypeOK, Byte
<1>2. fifo' \in Seq(Byte0) /\ Len(fifo') = Len(fifo) - 1 /\ 1 \in 1..Len(fifo)
  BY <1>1
<1>3. \A i \in 1..Len(fifo') : fifo'[i] = fifo[i + 1]
  BY <1>1, <1>2
<1>4. Head(fifo) = [frame |-> frame, k |-> peer.got + 1]
  BY <1>1, <1>2 DEF Line
<1>5. peer.got \in Nat /\ (peer.got + 1 > 1 => peer.frame = frame) /\ peer.garbled = FALSE
  BY DEF Line, TypeOK
<1>6. LET whole == peer.got + 1 = Bytes
      IN /\ peer' = [frame |-> frame, got |-> IF whole THEN 0 ELSE peer.got + 1,
                     garbled |-> FALSE]
         /\ heard' = IF whole THEN heard \cup {frame} ELSE heard
         /\ owed' = IF whole THEN {frame} ELSE owed
  <2> DEFINE b == Head(fifo)
             fits == b.k = peer.got + 1 /\ (b.k > 1 => b.frame = peer.frame)
             whole == fits /\ b.k = Bytes
  <2>1. /\ peer' = [frame |-> b.frame, got |-> IF fits /\ ~whole THEN b.k ELSE 0,
                    garbled |-> peer.garbled \/ ~fits]
        /\ heard' = IF whole THEN heard \cup {b.frame} ELSE heard
        /\ owed' = IF whole THEN {b.frame} ELSE owed
    BY DEF Byte
  <2>2. b.frame = frame /\ b.k = peer.got + 1
    BY <1>4
  <2>3. fits /\ (whole <=> peer.got + 1 = Bytes)
    BY <1>5, <2>2
  <2>4. (peer.garbled \/ ~fits) = FALSE
    BY <1>5, <2>3
  <2> HIDE DEF b, fits, whole
  <2> QED
    BY <2>1, <2>2, <2>3, <2>4
<1> QED
  BY <1>1, <1>2, <1>3, <1>6 DEF Byte

\* What the end of the gap after a frame comes to.
LEMMA GapParts ==
  ASSUME TypeOK, WaitGap
  PROVE  /\ UNCHANGED <<error, fifo, ackVars, i2sVars>>
         /\ \/ UNCHANGED stepVars
            \/ /\ received /\ Elapsed(Gap(frame)) /\ phase' = t /\ offset' = 0
               /\ \/ frame = "stop" /\ state' = "send" /\ frame' = "gate"
                  \/ frame = "gate" /\ state' = "isolate" /\ frame' = "resume"
                  \/ frame = "resume" /\ state' = "send" /\ frame' = "rate"
                  \/ frame = "rate" /\ state' = "complete" /\ frame' = "rate"
<1>1. CASE received /\ Elapsed(Gap(frame))
  <2>1. Transition(After[frame][1], After[frame][2])
    BY <1>1 DEF WaitGap
  <2>2. frame \in {"stop", "gate", "resume", "rate"}
    BY DEF TypeOK, Frame
  <2> QED
    BY <1>1, <2>1, <2>2 DEF WaitGap, After, Transition
<1>2. CASE ~(received /\ Elapsed(Gap(frame)))
  BY <1>2 DEF WaitGap
<1> QED
  BY <1>1, <1>2

\* What a reply comes to: nothing, an acknowledgement, or a refusal.
Matched == /\ Active /\ waiting /\ waiting' = FALSE /\ received' = TRUE /\ acked' = acked + 1
           /\ UNCHANGED <<stepVars, error, pins>>
Refused == /\ Active /\ waiting /\ waiting' = FALSE
           /\ state' = "failed" /\ error' = "rejected" /\ pins' = FALSE
           /\ UNCHANGED <<frame, phase, offset, received, acked>>
LEMMA ReceiveParts ==
  ASSUME TypeOK, Receive
  PROVE  /\ Busy /\ pc = "receive" /\ pc' \in {"receive", "poll"}
         /\ rx' \in {rx, Tail(rx)} /\ (rx' # rx => rx # <<>>)
         /\ UNCHANGED <<timeVars, t, started, quietVars, owner, fifo, ring, dspVars>>
         /\ \/ UNCHANGED <<stepVars, ackVars, error, pins>>
            \/ Matched
            \/ Refused
  BY DEF Receive, ReceiveAck, Qualifies, Fail, Matched, Refused, ackVars, stepVars

\* The types of the variables, by what they are about.
ClockTypes == /\ now \in 0..(Wrap - 1) /\ t \in 0..(Wrap - 1)
              /\ started \in 0..(Wrap - 1) /\ phase \in 0..(Wrap - 1)
              /\ quiet \in 0..Interframe
StateTypes ==
  /\ state \in {"idle", "initial", "send", "drain", "gap", "isolate", "begin", "configuring",
                "connect", "delay", "complete", "failed", "canceled"}
  /\ frame \in Frame
OffsetTypes == offset \in 0..(Bytes - 1)
FlagTypes ==
  /\ waiting \in BOOLEAN /\ received \in BOOLEAN
  /\ error \in {"none", "tx", "timeout", "rejected", "configuration"}
  /\ quiescing \in BOOLEAN /\ drained \in BOOLEAN
  /\ owner \in {"free", "closed", "handshake", "quiesce", "running", "fault"}
  /\ pc \in {"sample", "receive", "poll"}
  /\ pins \in BOOLEAN /\ ring \in BOOLEAN
AckedTypes == acked \in 0..4
FifoTypes == fifo \in Seq(Byte0) /\ Len(fifo) <= Bytes
RxTypes ==
  rx \in Seq([command : {"0x51", "0x88"}, ok : BOOLEAN]) /\ Len(rx) <= MaxReplies
PeerTypes == /\ peer \in [frame : Frame, got : 0..(Bytes - 1), garbled : BOOLEAN]
             /\ heard \in SUBSET Frame /\ owed \in SUBSET Frame
LEMMA TypeParts ==
  TypeOK <=> /\ ClockTypes /\ StateTypes /\ OffsetTypes /\ FlagTypes
             /\ AckedTypes /\ FifoTypes /\ RxTypes /\ PeerTypes
  BY DEF TypeOK, ClockTypes, StateTypes, OffsetTypes, FlagTypes, AckedTypes, FifoTypes,
     RxTypes, PeerTypes

\* A stamp ages no faster than the line gets quiet, a stamp just taken is as old as the sample
\* it is taken from, and a delay since it means that the line is quiet.
LEMMA SinceTick ==
  ASSUME ClockTypes, Tick
  PROVE  /\ Quieted => Quieted'
         /\ Since(now) => Since(now)'
         /\ Since(t) => Since(t)'
<1> USE SlipAssumption, DelayAssumption DEF ClockTypes, Quieted, Since
<1>1. /\ now' = (now + 1) % Wrap /\ t' = t /\ phase' = phase
      /\ quiet' = IF quiet < Interframe THEN quiet + 1 ELSE quiet
  BY DEF Tick, timeVars, stepVars
<1>2. Sub(now', phase) <= Sub(now, phase) + 1 /\ Sub(now', phase) \in 0..(Wrap - 1)
  BY <1>1, ClockStep
<1>3. Sub(now, phase) \in 0..(Wrap - 1) /\ Sub(t, phase) \in 0..(Wrap - 1)
  BY ClockStep
<1>4. Quieted => Quieted'
  BY <1>1
<1>5. CASE quiet < Interframe
  <2>1. quiet' = quiet + 1
    BY <1>1, <1>5
  <2> QED
    BY <1>1, <1>2, <1>3, <1>4, <2>1
<1>6. CASE ~(quiet < Interframe)
  BY <1>1, <1>4, <1>6
<1> QED
  BY <1>5, <1>6
LEMMA SinceFresh ==
  ASSUME ClockTypes, Sampled, pc # "sample", phase' = t, UNCHANGED <<now, quiet>>
  PROVE  Since(now)'
<1>1. Sub(now', phase') <= MaxSlip /\ Sub(now', phase') \in 0..(Wrap - 1)
  BY ClockStep DEF ClockTypes, Sampled
<1>2. quiet' \in Nat /\ MaxSlip \in Nat
  BY SlipAssumption, DelayAssumption DEF ClockTypes
<1> QED
  BY <1>1, <1>2 DEF Since
LEMMA SinceElapsed ==
  ASSUME ClockTypes, Since(t), NEW d \in Nat, d >= Interframe, Elapsed(d)
  PROVE  Quieted
<1>1. Sub(t, phase) \in 0..(Wrap - 1)
  BY ClockStep DEF ClockTypes
<1>2. Interframe \in Nat /\ MaxSlip \in Nat /\ quiet \in Nat
  BY SlipAssumption, DelayAssumption DEF ClockTypes
<1> QED
  BY <1>1, <1>2 DEF Since, Elapsed, Quieted

\* What a poll may do, and a poll of quiesce.
LEMMA PollParts ==
  ASSUME Poll
  PROVE  \/ ~Active /\ Teardown /\ UNCHANGED <<stepVars, error, fifo, ackVars>>
         \/ Active /\ Fail("timeout") /\ Teardown /\ UNCHANGED <<fifo, ackVars>>
         \/ state = "initial" /\ Delay(Initial, "send")
         \/ state = "send" /\ SendFrame
         \/ state = "drain" /\ WaitDrain
         \/ state = "gap" /\ WaitGap
         \/ Reconfigure
         \/ state = "delay" /\ Delay(Quiet, "send")
  BY DEF Poll
LEMMA QuiesceParts ==
  ASSUME PollQuiesce
  PROVE  /\ owner = "quiesce" /\ pc = "poll" /\ pc' = "sample"
         /\ quiescing' = TRUE /\ started' = (IF quiescing THEN started ELSE t)
         /\ UNCHANGED <<timeVars, t, rx, dspVars>>
         /\ \/ /\ Fail("timeout") /\ Teardown /\ owner' = "fault"
               /\ UNCHANGED <<drained, fifo, ackVars>>
            \/ FinishFrame /\ state = "send"
            \/ FinishFrame /\ state # "send"
            \/ FinishDrain
  BY DEF PollQuiesce, Quiesce

LEMMA Sends ==
  ASSUME TypeOK, Line, Placed, Acks, state = "send", SendFrame, PollHandshake \/ PollQuiesce
  PROVE  SentPiece
<1>1. Busy
  BY QuiesceParts DEF PollHandshake, Busy
<1> QED
  BY <1>1, SendParts

\* The clock and its stamps.
LEMMA ClockTypesStep ==
  ASSUME TypeOK, Line, Placed, Acks, ClockTypes, Next
  PROVE  ClockTypes'
<1>s. state = "send" /\ SendFrame /\ (PollHandshake \/ PollQuiesce) => SentPiece
  BY Sends
<1> USE WrapAssumption, DelayAssumption, StartsAssumption, ClockStep DEF ClockTypes,
    timeVars, stepVars, ackVars, i2sVars, quietVars, dspVars
<1>1. CASE \/ Close \/ Sample \/ GiveUp
           \/ \E f \in Frame, ok \in BOOLEAN : Answer(f, ok)
  BY <1>1 DEF Answer, Close, Sample, GiveUp, Teardown
<1>2. CASE Tick
  <2>1. now' \in 0..(Wrap - 1)
    BY <1>2 DEF Tick
  <2>2. quiet' \in 0..Interframe
    BY <1>2 DEF Tick
  <2> QED
    BY <1>2, <2>1, <2>2 DEF Tick
<1>3. CASE Byte
  BY <1>3, ByteParts
<1>4. CASE Begin
  BY <1>4 DEF Begin, Boundary
<1>5. CASE Receive
  BY <1>5, ReceiveParts DEF Matched, Refused
<1>6. CASE PollHandshake
  <2>1. CASE state = "send" /\ SendFrame
    <3>1. SentPiece
      BY <1>s, <1>6, <2>1
    <3> QED
      BY <1>6, <2>1, <3>1 DEF PollHandshake, SentPiece
  <2>2. CASE ~(state = "send" /\ SendFrame)
    BY <1>6, <2>2, PollParts, GapParts DEF PollHandshake, Teardown, Fail, Delay, Transition,
       WaitDrain, Reconfigure
  <2> QED
    BY <1>6, <2>1, <2>2
<1>7. CASE PollQuiesce
  <2>1. CASE FinishFrame /\ state = "send"
    <3>1. SentPiece
      BY <1>s, <1>7, <2>1 DEF FinishFrame
    <3> QED
      BY <1>7, <2>1, <3>1, QuiesceParts DEF FinishFrame, SentPiece
  <2>2. CASE ~(FinishFrame /\ state = "send")
    BY <1>7, <2>2, QuiesceParts DEF Fail, Teardown, FinishFrame, FinishDrain
  <2> QED
    BY <1>7, <2>1, <2>2
<1> QED
  BY <1>1, <1>2, <1>3, <1>4, <1>5, <1>6, <1>7 DEF Next, Service

\* The step of the handshake.
LEMMA StateTypesStep ==
  ASSUME TypeOK, Line, Placed, Acks, StateTypes, Next
  PROVE  StateTypes'
<1>s. state = "send" /\ SendFrame /\ (PollHandshake \/ PollQuiesce) => SentPiece
  BY Sends
<1> USE DEF StateTypes, Frame, timeVars, stepVars, ackVars, i2sVars, quietVars, dspVars
<1>1. CASE \/ Tick \/ Close \/ Sample \/ GiveUp
           \/ \E f \in Frame, ok \in BOOLEAN : Answer(f, ok)
  BY <1>1 DEF Tick, Answer, Close, Sample, GiveUp, Teardown
<1>2. CASE Byte
  BY <1>2, ByteParts
<1>3. CASE Begin
  BY <1>3 DEF Begin, Boundary
<1>4. CASE Receive
  BY <1>4, ReceiveParts DEF Matched, Refused
<1>5. CASE PollHandshake
  <2>1. CASE state = "send" /\ SendFrame
    <3>1. SentPiece
      BY <1>s, <1>5, <2>1
    <3> QED
      BY <1>5, <2>1, <3>1 DEF PollHandshake, SentPiece
  <2>2. CASE ~(state = "send" /\ SendFrame)
    BY <1>5, <2>2, PollParts, GapParts DEF PollHandshake, Teardown, Fail, Delay, Transition,
       WaitDrain, Reconfigure
  <2> QED
    BY <1>5, <2>1, <2>2
<1>6. CASE PollQuiesce
  <2>1. CASE FinishFrame /\ state = "send"
    <3>1. SentPiece
      BY <1>s, <1>6, <2>1 DEF FinishFrame
    <3> QED
      BY <1>6, <2>1, <3>1, QuiesceParts DEF FinishFrame, SentPiece
  <2>2. CASE ~(FinishFrame /\ state = "send")
    BY <1>6, <2>2, QuiesceParts DEF Fail, Teardown, FinishFrame, FinishDrain
  <2> QED
    BY <1>6, <2>1, <2>2
<1> QED
  BY <1>1, <1>2, <1>3, <1>4, <1>5, <1>6 DEF Next, Service

\* The offset in the frame.
LEMMA OffsetTypesStep ==
  ASSUME TypeOK, Line, Placed, Acks, OffsetTypes, Next
  PROVE  OffsetTypes'
<1>s. state = "send" /\ SendFrame /\ (PollHandshake \/ PollQuiesce) => SentPiece
  BY Sends
<1> USE SizesAssumption DEF OffsetTypes, timeVars, stepVars, ackVars, i2sVars, quietVars,
    dspVars
<1>1. CASE \/ Tick \/ Close \/ Sample \/ GiveUp
           \/ \E f \in Frame, ok \in BOOLEAN : Answer(f, ok)
  BY <1>1 DEF Tick, Answer, Close, Sample, GiveUp, Teardown
<1>2. CASE Byte
  BY <1>2, ByteParts
<1>3. CASE Begin
  BY <1>3 DEF Begin, Boundary
<1>4. CASE Receive
  BY <1>4, ReceiveParts DEF Matched, Refused
<1>5. CASE PollHandshake
  <2>1. CASE ~Active /\ Teardown /\ UNCHANGED <<stepVars, error, fifo, ackVars>>
    BY <1>5, <2>1 DEF PollHandshake, Teardown
  <2>2. CASE Active /\ Fail("timeout") /\ Teardown /\ UNCHANGED <<fifo, ackVars>>
    BY <1>5, <2>2 DEF PollHandshake, Fail, Teardown
  <2>3. CASE state = "initial" /\ Delay(Initial, "send")
    BY <1>5, <2>3 DEF PollHandshake, Delay, Transition
  <2>4. CASE state = "send" /\ SendFrame
    <3>1. SentPiece
      BY <1>s, <1>5, <2>4
    <3> QED
      BY <1>5, <2>4, <3>1 DEF PollHandshake, SentPiece
  <2>5. CASE state = "drain" /\ WaitDrain
    BY <1>5, <2>5 DEF PollHandshake, WaitDrain, Transition
  <2>6. CASE state = "gap" /\ WaitGap
    BY <1>5, <2>6, GapParts DEF PollHandshake
  <2>7. CASE Reconfigure
    BY <1>5, <2>7 DEF PollHandshake, Reconfigure, Transition, Fail, Teardown
  <2>8. CASE state = "delay" /\ Delay(Quiet, "send")
    BY <1>5, <2>8 DEF PollHandshake, Delay, Transition
  <2> QED
    BY <1>5, <2>1, <2>2, <2>3, <2>4, <2>5, <2>6, <2>7, <2>8, PollParts DEF PollHandshake
<1>6. CASE PollQuiesce
  <2>1. CASE FinishFrame /\ state = "send"
    <3>1. SentPiece
      BY <1>s, <1>6, <2>1 DEF FinishFrame
    <3> QED
      BY <1>6, <2>1, <3>1, QuiesceParts DEF FinishFrame, SentPiece
  <2>2. CASE ~(FinishFrame /\ state = "send")
    BY <1>6, <2>2, QuiesceParts DEF Fail, Teardown, FinishFrame, FinishDrain
  <2> QED
    BY <1>6, <2>1, <2>2
<1> QED
  BY <1>1, <1>2, <1>3, <1>4, <1>5, <1>6 DEF Next, Service

\* What the service keeps.
LEMMA FlagTypesStep ==
  ASSUME TypeOK, Line, Placed, Acks, FlagTypes, Next
  PROVE  FlagTypes'
<1>s. state = "send" /\ SendFrame /\ (PollHandshake \/ PollQuiesce) => SentPiece
  BY Sends
<1> USE DEF FlagTypes, Busy, timeVars, stepVars, ackVars, i2sVars, quietVars, dspVars
<1>1. CASE Tick
  BY <1>1 DEF Tick
<1>2. CASE Byte
  BY <1>2, ByteParts
<1>3. ASSUME NEW f \in Frame, NEW ok \in BOOLEAN, Answer(f, ok)
      PROVE  FlagTypes'
  BY <1>3 DEF Answer
<1>4. CASE Begin
  BY <1>4 DEF Begin, Boundary
<1>5. CASE Close
  BY <1>5 DEF Close, Teardown
<1>6. CASE Sample
  BY <1>6 DEF Sample
<1>7. CASE GiveUp
  BY <1>7 DEF GiveUp, Teardown
<1>8. CASE Receive
  <2>1. CASE UNCHANGED <<stepVars, ackVars, error, pins>>
    BY <1>8, <2>1, ReceiveParts
  <2>2. CASE Matched
    BY <1>8, <2>2, ReceiveParts DEF Matched
  <2>3. CASE Refused
    BY <1>8, <2>3, ReceiveParts DEF Refused
  <2> QED
    BY <1>8, <2>1, <2>2, <2>3, ReceiveParts
<1>9. CASE PollHandshake
  <2>1. CASE state = "send" /\ SendFrame
    <3>1. SentPiece
      BY <1>s, <1>9, <2>1
    <3>2. received' \in BOOLEAN
      BY <3>1 DEF SentPiece
    <3>3. UNCHANGED <<quiescing, drained>> /\ owner' \in {"quiesce", "running", "handshake"}
          /\ pc' = "sample"
      BY <1>9 DEF PollHandshake
    <3>4. /\ waiting' \in BOOLEAN /\ error' \in {error, "tx"}
          /\ pins' \in {pins, FALSE} /\ ring' \in {ring, FALSE}
      BY <3>1 DEF SentPiece
    <3> QED
      BY <3>2, <3>3, <3>4
  <2>2. CASE ~(state = "send" /\ SendFrame)
    BY <1>9, <2>2, PollParts, GapParts DEF PollHandshake, Teardown, Fail, Delay, Transition,
       WaitDrain, Reconfigure
  <2> QED
    BY <1>9, <2>1, <2>2
<1>10. CASE PollQuiesce
  <2>1. CASE FinishFrame /\ state = "send"
    <3>1. SentPiece
      BY <1>s, <1>10, <2>1 DEF FinishFrame
    <3>2. received' \in BOOLEAN
      BY <3>1 DEF SentPiece
    <3>3. quiescing' = TRUE /\ drained' = drained /\ owner' \in {"fault", "quiesce"}
          /\ pc' = "sample"
      BY <1>10, <2>1, QuiesceParts DEF FinishFrame
    <3>4. /\ waiting' \in BOOLEAN /\ error' \in {error, "tx"}
          /\ pins' \in {pins, FALSE} /\ ring' \in {ring, FALSE}
      BY <3>1 DEF SentPiece
    <3> QED
      BY <3>2, <3>3, <3>4
  <2>2. CASE ~(FinishFrame /\ state = "send")
    BY <1>10, <2>2, QuiesceParts DEF Fail, Teardown, FinishFrame, FinishDrain
  <2> QED
    BY <1>10, <2>1, <2>2
<1> QED
  BY <1>1, <1>2, <1>3, <1>4, <1>5, <1>6, <1>7, <1>8, <1>9, <1>10 DEF Next, Service

\* No more acknowledgements than frames.
LEMMA AckedStep ==
  ASSUME TypeOK, Line, Placed, Acks, AckedTypes, Next
  PROVE  AckedTypes'
<1>s. state = "send" /\ SendFrame /\ (PollHandshake \/ PollQuiesce) => SentPiece
  BY Sends
<1> USE TypeParts DEF AckedTypes, StateTypes, Acks, Restarting, Frame, Pos, Active,
    timeVars, stepVars, ackVars, i2sVars, quietVars, dspVars
<1>1. CASE \/ Tick \/ Close \/ Sample \/ GiveUp
           \/ \E f \in Frame, ok \in BOOLEAN : Answer(f, ok)
  BY <1>1 DEF Tick, Answer, Close, Sample, GiveUp, Teardown
<1>2. CASE Byte
  BY <1>2, ByteParts
<1>3. CASE Begin
  BY <1>3 DEF Begin, Boundary
<1>4. CASE Receive
  <2>1. CASE UNCHANGED <<stepVars, ackVars, error, pins>>
    BY <1>4, <2>1, ReceiveParts
  <2>2. CASE Matched
    BY <1>4, <2>2, ReceiveParts DEF Matched
  <2>3. CASE Refused
    BY <1>4, <2>3, ReceiveParts DEF Refused
  <2> QED
    BY <1>4, <2>1, <2>2, <2>3, ReceiveParts
<1>5. CASE PollHandshake
  <2>1. CASE state = "send" /\ SendFrame
    <3>1. SentPiece
      BY <1>s, <1>5, <2>1
    <3> QED
      BY <1>5, <2>1, <3>1 DEF PollHandshake, SentPiece
  <2>2. CASE ~(state = "send" /\ SendFrame)
    BY <1>5, <2>2, PollParts, GapParts DEF PollHandshake, Teardown, Fail, Delay, Transition,
       WaitDrain, Reconfigure
  <2> QED
    BY <1>5, <2>1, <2>2
<1>6. CASE PollQuiesce
  <2>1. CASE FinishFrame /\ state = "send"
    <3>1. SentPiece
      BY <1>s, <1>6, <2>1 DEF FinishFrame
    <3> QED
      BY <1>6, <2>1, <3>1, QuiesceParts DEF FinishFrame, SentPiece
  <2>2. CASE ~(FinishFrame /\ state = "send")
    BY <1>6, <2>2, QuiesceParts DEF Fail, Teardown, FinishFrame, FinishDrain
  <2> QED
    BY <1>6, <2>1, <2>2
<1> QED
  BY <1>1, <1>2, <1>3, <1>4, <1>5, <1>6 DEF Next, Service

\* The transmitter never holds more than a frame.
LEMMA FifoTypesStep ==
  ASSUME TypeOK, Line, Placed, Acks, FifoTypes, Next
  PROVE  FifoTypes'
<1>s. state = "send" /\ SendFrame /\ (PollHandshake \/ PollQuiesce) => SentPiece
  BY Sends
<1> USE SizesAssumption, TypeParts DEF FifoTypes, OffsetTypes, PeerTypes, Placed, Sent,
    Busy, timeVars, stepVars, ackVars, i2sVars, quietVars, dspVars
<1>1. CASE \/ Tick \/ Close \/ Sample \/ GiveUp
           \/ \E f \in Frame, ok \in BOOLEAN : Answer(f, ok)
  BY <1>1 DEF Tick, Answer, Close, Sample, GiveUp, Teardown
<1>2. CASE Byte
  BY <1>2, ByteParts
<1>3. CASE Begin
  BY <1>3 DEF Begin, Boundary
<1>4. CASE Receive
  BY <1>4, ReceiveParts DEF Matched, Refused
<1>5. CASE PollHandshake
  <2>1. CASE state = "send" /\ SendFrame
    <3>1. SentPiece
      BY <1>s, <1>5, <2>1
    <3> QED
      BY <1>5, <2>1, <3>1 DEF PollHandshake, SentPiece
  <2>2. CASE ~(state = "send" /\ SendFrame)
    BY <1>5, <2>2, PollParts, GapParts DEF PollHandshake, Teardown, Fail, Delay, Transition,
       WaitDrain, Reconfigure
  <2> QED
    BY <1>5, <2>1, <2>2
<1>6. CASE PollQuiesce
  <2>1. CASE FinishFrame /\ state = "send"
    <3>1. SentPiece
      BY <1>s, <1>6, <2>1 DEF FinishFrame
    <3> QED
      BY <1>6, <2>1, <3>1, QuiesceParts DEF FinishFrame, SentPiece
  <2>2. CASE ~(FinishFrame /\ state = "send")
    BY <1>6, <2>2, QuiesceParts DEF Fail, Teardown, FinishFrame, FinishDrain
  <2> QED
    BY <1>6, <2>1, <2>2
<1> QED
  BY <1>1, <1>2, <1>3, <1>4, <1>5, <1>6 DEF Next, Service

\* The receive ring.
LEMMA RxTypesStep ==
  ASSUME TypeOK, Line, Placed, Acks, RxTypes, Next
  PROVE  RxTypes'
<1>s. state = "send" /\ SendFrame /\ (PollHandshake \/ PollQuiesce) => SentPiece
  BY Sends
<1> USE SizesAssumption DEF RxTypes, Command, Frame, timeVars, stepVars, ackVars, i2sVars,
    quietVars, dspVars
<1>1. CASE Tick \/ Close \/ Sample \/ GiveUp
  BY <1>1 DEF Tick, Close, Sample, GiveUp, Teardown
<1>2. CASE Byte
  BY <1>2, ByteParts
<1>3. ASSUME NEW f \in Frame, NEW ok \in BOOLEAN, Answer(f, ok)
      PROVE  RxTypes'
  <2>1. [command |-> Command(f), ok |-> ok] \in [command : {"0x51", "0x88"}, ok : BOOLEAN]
    OBVIOUS
  <2>2. Len(rx) < MaxReplies /\ rx' \in {rx, Append(rx, [command |-> Command(f), ok |-> ok])}
    BY <1>3 DEF Answer
  <2>3. CASE rx' = rx
    BY <2>3
  <2>4. CASE rx' = Append(rx, [command |-> Command(f), ok |-> ok])
    <3>1. rx' \in Seq([command : {"0x51", "0x88"}, ok : BOOLEAN]) /\ Len(rx') = Len(rx) + 1
      BY <2>1, <2>4
    <3> QED
      BY <2>2, <3>1
  <2> QED
    BY <2>2, <2>3, <2>4
<1>4. CASE Begin
  BY <1>4 DEF Begin, Boundary
<1>5. CASE Receive
  BY <1>5, ReceiveParts DEF Matched, Refused
<1>6. CASE PollHandshake
  <2>1. CASE state = "send" /\ SendFrame
    <3>1. SentPiece
      BY <1>s, <1>6, <2>1
    <3> QED
      BY <1>6, <2>1, <3>1 DEF PollHandshake, SentPiece
  <2>2. CASE ~(state = "send" /\ SendFrame)
    BY <1>6, <2>2, PollParts, GapParts DEF PollHandshake, Teardown, Fail, Delay, Transition,
       WaitDrain, Reconfigure
  <2> QED
    BY <1>6, <2>1, <2>2
<1>7. CASE PollQuiesce
  <2>1. CASE FinishFrame /\ state = "send"
    <3>1. SentPiece
      BY <1>s, <1>7, <2>1 DEF FinishFrame
    <3> QED
      BY <1>7, <2>1, <3>1, QuiesceParts DEF FinishFrame, SentPiece
  <2>2. CASE ~(FinishFrame /\ state = "send")
    BY <1>7, <2>2, QuiesceParts DEF Fail, Teardown, FinishFrame, FinishDrain
  <2> QED
    BY <1>7, <2>1, <2>2
<1> QED
  BY <1>1, <1>2, <1>3, <1>4, <1>5, <1>6, <1>7 DEF Next, Service

\* The DSP's position.
LEMMA PeerTypesStep ==
  ASSUME TypeOK, Line, Placed, Acks, PeerTypes, Next
  PROVE  PeerTypes'
<1>s. state = "send" /\ SendFrame /\ (PollHandshake \/ PollQuiesce) => SentPiece
  BY Sends
<1> USE SizesAssumption DEF PeerTypes, Frame, Busy, timeVars, stepVars, ackVars, i2sVars,
    quietVars, dspVars
<1>1. CASE \/ Tick \/ Close \/ Sample \/ GiveUp
           \/ \E f \in Frame, ok \in BOOLEAN : Answer(f, ok)
  BY <1>1 DEF Tick, Answer, Close, Sample, GiveUp, Teardown
<1>2. CASE Byte
  <2>1. frame \in Frame
    BY TypeParts DEF StateTypes
  <2>2. CASE peer.got + 1 = Bytes
    <3>1. /\ peer' = [frame |-> frame, got |-> 0, garbled |-> FALSE]
          /\ heard' = heard \cup {frame} /\ owed' = {frame}
      BY <1>2, <2>2, ByteParts
    <3> QED
      BY <2>1, <3>1
  <2>3. CASE peer.got + 1 # Bytes
    <3>1. /\ peer' = [frame |-> frame, got |-> peer.got + 1, garbled |-> FALSE]
          /\ heard' = heard /\ owed' = owed
      BY <1>2, <2>3, ByteParts
    <3>2. peer.got + 1 \in 0..(Bytes - 1)
      BY <2>3
    <3> QED
      BY <2>1, <3>1, <3>2
  <2> QED
    BY <2>2, <2>3
<1>3. CASE Begin
  BY <1>3 DEF Begin, Boundary
<1>4. CASE Receive
  BY <1>4, ReceiveParts DEF Matched, Refused
<1>5. CASE PollHandshake
  <2>1. CASE state = "send" /\ SendFrame
    <3>1. SentPiece
      BY <1>s, <1>5, <2>1
    <3> QED
      BY <1>5, <2>1, <3>1 DEF PollHandshake, SentPiece
  <2>2. CASE ~(state = "send" /\ SendFrame)
    BY <1>5, <2>2, PollParts, GapParts DEF PollHandshake, Teardown, Fail, Delay, Transition,
       WaitDrain, Reconfigure
  <2> QED
    BY <1>5, <2>1, <2>2
<1>6. CASE PollQuiesce
  <2>1. CASE FinishFrame /\ state = "send"
    <3>1. SentPiece
      BY <1>s, <1>6, <2>1 DEF FinishFrame
    <3> QED
      BY <1>6, <2>1, <3>1, QuiesceParts DEF FinishFrame, SentPiece
  <2>2. CASE ~(FinishFrame /\ state = "send")
    BY <1>6, <2>2, QuiesceParts DEF Fail, Teardown, FinishFrame, FinishDrain
  <2> QED
    BY <1>6, <2>1, <2>2
<1> QED
  BY <1>1, <1>2, <1>3, <1>4, <1>5, <1>6 DEF Next, Service

\* Nothing gets between the bytes of a frame.
LEMMA LineStep ==
  ASSUME TypeOK, Line, Placed, Acks, Next
  PROVE  Line'
<1>s. state = "send" /\ SendFrame /\ (PollHandshake \/ PollQuiesce) => SentPiece
  BY Sends
<1> USE DEF TypeOK, Line, Placed, Sent, Busy, timeVars, stepVars, ackVars, i2sVars,
    quietVars, dspVars
<1>1. CASE \/ Tick \/ Close \/ Sample \/ GiveUp
           \/ \E f \in Frame, ok \in BOOLEAN : Answer(f, ok)
  <2>1. fifo' = fifo /\ frame' = frame /\ peer' = peer
    BY <1>1 DEF Tick, Answer, Close, Sample, GiveUp, Teardown
  <2> QED
    BY <2>1
<1>2. CASE Byte
  <2>1. ASSUME NEW i \in 1..Len(fifo')
        PROVE  fifo'[i] = [frame |-> frame, k |-> peer.got + (i + 1)]
    <3>1. i + 1 \in 1..Len(fifo) /\ fifo'[i] = fifo[i + 1]
      BY <1>2, ByteParts
    <3> QED
      BY <3>1
  <2>2. frame' = frame /\ peer.got \in 0..(Bytes - 1) /\ Len(fifo) \in Nat
    BY <1>2, ByteParts
  <2>3. CASE peer.got + 1 = Bytes
    <3>1. Len(fifo') = 0
      <4>1. fifo # <<>> /\ Len(fifo') = Len(fifo) - 1
        BY <1>2, ByteParts
      <4> QED
        BY <2>3, <4>1, WholeLast
    <3>2. peer' = [frame |-> frame, got |-> 0, garbled |-> FALSE]
      BY <1>2, <2>3, ByteParts
    <3> QED
      BY <3>1, <3>2
  <2>4. CASE peer.got + 1 # Bytes
    <3>1. peer'.got = peer.got + 1 /\ peer'.garbled = FALSE /\ peer'.frame = frame
      BY <1>2, <2>4, ByteParts, SMTT(40)
    <3>2. \A i \in 1..Len(fifo') : peer'.got + i = peer.got + (i + 1)
      BY <2>2, <3>1
    <3> QED
      BY <2>1, <2>2, <3>1, <3>2
  <2> QED
    BY <2>3, <2>4
<1>3. CASE Begin
  BY <1>3 DEF Begin, Boundary
<1>4. CASE Receive
  BY <1>4, ReceiveParts DEF Matched, Refused
<1>5. CASE PollHandshake
  <2>1. CASE ~Active /\ Teardown /\ UNCHANGED <<stepVars, error, fifo, ackVars>>
    BY <1>5, <2>1 DEF PollHandshake, Teardown
  <2>2. CASE Active /\ Fail("timeout") /\ Teardown /\ UNCHANGED <<fifo, ackVars>>
    BY <1>5, <2>2 DEF PollHandshake, Fail, Teardown
  <2>3. CASE state = "initial" /\ Delay(Initial, "send")
    BY <1>5, <2>3 DEF PollHandshake, Delay, Transition
  <2>4. CASE state = "send" /\ SendFrame
    <3>1. SentPiece
      BY <1>s, <1>5, <2>4
    <3> QED
      BY <1>5, <2>4, <3>1 DEF PollHandshake, SentPiece
  <2>5. CASE state = "drain" /\ WaitDrain
    BY <1>5, <2>5 DEF PollHandshake, WaitDrain, Transition
  <2>6. CASE state = "gap" /\ WaitGap
    BY <1>5, <2>6, GapParts DEF PollHandshake
  <2>7. CASE Reconfigure
    BY <1>5, <2>7 DEF PollHandshake, Reconfigure, Transition, Fail, Teardown
  <2>8. CASE state = "delay" /\ Delay(Quiet, "send")
    BY <1>5, <2>8 DEF PollHandshake, Delay, Transition
  <2> QED
    BY <1>5, <2>1, <2>2, <2>3, <2>4, <2>5, <2>6, <2>7, <2>8, PollParts DEF PollHandshake
<1>6. CASE PollQuiesce
  <2>1. CASE FinishFrame /\ state = "send"
    <3>1. SentPiece
      BY <1>s, <1>6, <2>1 DEF FinishFrame
    <3> QED
      BY <1>6, <2>1, <3>1, QuiesceParts DEF FinishFrame, SentPiece
  <2>2. CASE ~(FinishFrame /\ state = "send")
    BY <1>6, <2>2, QuiesceParts DEF Fail, Teardown, FinishFrame, FinishDrain
  <2> QED
    BY <1>6, <2>1, <2>2
<1> QED
  BY <1>1, <1>2, <1>3, <1>4, <1>5, <1>6 DEF Next, Service

\* The offset counts what the port has taken.
LEMMA PlacedStep ==
  ASSUME TypeOK, Line, Placed, Acks, Next
  PROVE  Placed'
<1>s. state = "send" /\ SendFrame /\ (PollHandshake \/ PollQuiesce) => SentPiece
  BY Sends
<1> USE DEF TypeOK, Line, Placed, Sent, Busy, Active, timeVars, stepVars, ackVars, i2sVars,
    quietVars, dspVars
<1>1. CASE Tick
  BY <1>1 DEF Tick
<1>2. CASE Byte
  <2>1. /\ UNCHANGED <<offset, state, error, drained, owner>>
        /\ peer.got \in 0..(Bytes - 1) /\ Len(fifo) \in Nat \ {0} /\ fifo' \in Seq(Byte0)
        /\ Len(fifo') = Len(fifo) - 1 /\ fifo # <<>>
    BY <1>2, ByteParts
  <2>2. CASE peer.got + 1 = Bytes
    <3>1. Len(fifo) = 1
      BY <1>2, <2>1, <2>2, WholeLast
    <3>3. peer' = [frame |-> frame, got |-> 0, garbled |-> FALSE]
      BY <1>2, <2>2, ByteParts
    <3>4. peer'.got = 0 /\ Len(fifo') = 0 /\ Bytes \in Nat
      BY <2>1, <3>1, <3>3, SizesAssumption
    <3>5. Sent = Bytes
      BY <2>1, <2>2, <3>1
    <3>2. Sent = Bytes /\ Sent' = 0
      BY <3>4, <3>5
    <3> QED
      BY <2>1, <3>2, SizesAssumption, SMTT(40)
  <2>3. CASE peer.got + 1 # Bytes
    <3>1. peer'.got = peer.got + 1
      BY <1>2, <2>3, ByteParts
    <3>2. Sent' = Sent
      BY <2>1, <3>1
    <3> QED
      BY <2>1, <3>2
  <2> QED
    BY <2>2, <2>3
<1>3. ASSUME NEW f \in Frame, NEW ok \in BOOLEAN, Answer(f, ok)
      PROVE  Placed'
  BY <1>3 DEF Answer
<1>4. CASE Begin
  BY <1>4 DEF Begin, Boundary
<1>5. CASE Close
  BY <1>5 DEF Close, Teardown
<1>6. CASE Sample
  BY <1>6 DEF Sample
<1>7. CASE GiveUp
  BY <1>7 DEF GiveUp, Teardown
<1>8. CASE Receive
  <2>1. UNCHANGED <<offset, fifo, peer, owner, drained>> /\ Sent' = Sent
    BY <1>8, ReceiveParts DEF Matched, Refused
  <2>2. CASE UNCHANGED <<state, error>>
    BY <2>1, <2>2
  <2>3. CASE Active /\ state' = "failed" /\ error' = "rejected"
    BY <2>1, <2>3
  <2> QED
    BY <1>8, <2>2, <2>3, ReceiveParts DEF Matched, Refused
<1>9. CASE PollHandshake
  <2>1. CASE ~Active /\ Teardown /\ UNCHANGED <<stepVars, error, fifo, ackVars>>
    BY <1>9, <2>1 DEF PollHandshake, Teardown
  <2>2. CASE Active /\ Fail("timeout") /\ Teardown /\ UNCHANGED <<fifo, ackVars>>
    BY <1>9, <2>2 DEF PollHandshake, Fail, Teardown
  <2>3. CASE state = "initial" /\ Delay(Initial, "send")
    BY <1>9, <2>3 DEF PollHandshake, Delay, Transition
  <2>4. CASE state = "send" /\ SendFrame
    <3>1. SentPiece
      BY <1>s, <1>9, <2>4
    <3> QED
      BY <1>9, <2>4, <3>1 DEF PollHandshake, SentPiece
  <2>5. CASE state = "drain" /\ WaitDrain
    BY <1>9, <2>5 DEF PollHandshake, WaitDrain, Transition
  <2>6. CASE state = "gap" /\ WaitGap
    BY <1>9, <2>6, GapParts DEF PollHandshake
  <2>7. CASE Reconfigure
    BY <1>9, <2>7 DEF PollHandshake, Reconfigure, Transition, Fail, Teardown
  <2>8. CASE state = "delay" /\ Delay(Quiet, "send")
    BY <1>9, <2>8 DEF PollHandshake, Delay, Transition
  <2> QED
    BY <1>9, <2>1, <2>2, <2>3, <2>4, <2>5, <2>6, <2>7, <2>8, PollParts DEF PollHandshake
<1>10. CASE PollQuiesce
  <2>1. CASE /\ Fail("timeout") /\ Teardown /\ owner' = "fault"
            /\ UNCHANGED <<drained, fifo, ackVars>>
    BY <1>10, <2>1, QuiesceParts DEF Fail, Teardown
  <2>2. CASE FinishFrame /\ state = "send"
    <3>1. SentPiece
      BY <1>s, <1>10, <2>2 DEF FinishFrame
    <3>2. /\ drained' = drained /\ peer' = peer /\ owner = "quiesce"
          /\ owner' = IF state' = "failed" THEN "fault" ELSE "quiesce"
      BY <1>10, <2>2, QuiesceParts DEF FinishFrame
    <3>3. ~drained /\ error # "tx" /\ Sent = offset
      BY <2>2, <3>2 DEF FinishFrame
    <3>4. OffsetCounts
      BY <3>1, <3>2, <3>3, SentPlaced
    <3> QED
      BY <2>2, <3>2, <3>3, <3>4 DEF OffsetCounts
  <2>3. CASE FinishFrame /\ state # "send"
    BY <1>10, <2>3, QuiesceParts DEF FinishFrame
  <2>4. CASE FinishDrain
    BY <1>10, <2>4, QuiesceParts DEF FinishDrain
  <2> QED
    BY <1>10, <2>1, <2>2, <2>3, <2>4, QuiesceParts
<1> QED
  BY <1>1, <1>2, <1>3, <1>4, <1>5, <1>6, <1>7, <1>8, <1>9, <1>10 DEF Next, Service

\* UART3 is let go between two frames.
LEMMA WholeStep ==
  ASSUME TypeOK, Line, Placed, Acks, LetGo, Next
  PROVE  LetGo'
<1>s. state = "send" /\ SendFrame /\ (PollHandshake \/ PollQuiesce) => SentPiece
  BY Sends
<1> USE DEF TypeOK, Line, Placed, LetGo, AtBoundary, Sent, Busy, Active, timeVars, stepVars,
    ackVars, i2sVars, quietVars, dspVars
<1>1. CASE \/ Tick \/ Close \/ Sample \/ GiveUp
           \/ \E f \in Frame, ok \in BOOLEAN : Answer(f, ok)
  BY <1>1 DEF Tick, Answer, Close, Sample, GiveUp, Teardown
<1>2. CASE Byte
  BY <1>2, ByteParts
<1>3. CASE Begin
  BY <1>3 DEF Begin, Boundary
<1>4. CASE Receive
  BY <1>4, ReceiveParts DEF Matched, Refused
<1>5. CASE PollHandshake
  <2>1. CASE ~Active /\ Teardown /\ UNCHANGED <<stepVars, error, fifo, ackVars>>
    BY <1>5, <2>1 DEF PollHandshake, Teardown
  <2>2. CASE Active /\ Fail("timeout") /\ Teardown /\ UNCHANGED <<fifo, ackVars>>
    BY <1>5, <2>2 DEF PollHandshake, Fail, Teardown
  <2>3. CASE state = "initial" /\ Delay(Initial, "send")
    BY <1>5, <2>3 DEF PollHandshake, Delay, Transition
  <2>4. CASE state = "send" /\ SendFrame
    <3>1. SentPiece
      BY <1>s, <1>5, <2>4
    <3> QED
      BY <1>5, <2>4, <3>1 DEF PollHandshake, SentPiece
  <2>5. CASE state = "drain" /\ WaitDrain
    BY <1>5, <2>5 DEF PollHandshake, WaitDrain, Transition
  <2>6. CASE state = "gap" /\ WaitGap
    BY <1>5, <2>6, GapParts DEF PollHandshake
  <2>7. CASE Reconfigure
    BY <1>5, <2>7 DEF PollHandshake, Reconfigure, Transition, Fail, Teardown
  <2>8. CASE state = "delay" /\ Delay(Quiet, "send")
    BY <1>5, <2>8 DEF PollHandshake, Delay, Transition
  <2> QED
    BY <1>5, <2>1, <2>2, <2>3, <2>4, <2>5, <2>6, <2>7, <2>8, PollParts DEF PollHandshake
<1>6. CASE PollQuiesce
  <2>1. CASE /\ Fail("timeout") /\ Teardown /\ owner' = "fault"
            /\ UNCHANGED <<drained, fifo, ackVars>>
    BY <1>6, <2>1, QuiesceParts DEF Fail, Teardown
  <2>2. CASE FinishFrame /\ state = "send"
    <3>1. SentPiece
      BY <1>s, <1>6, <2>2 DEF FinishFrame
    <3> QED
      BY <1>6, <2>2, <3>1, QuiesceParts DEF FinishFrame, SentPiece
  <2>3. CASE FinishFrame /\ state # "send"
    BY <1>6, <2>3, QuiesceParts DEF FinishFrame
  <2>4. CASE FinishDrain
    BY <1>6, <2>4, QuiesceParts DEF FinishDrain
  <2> QED
    BY <1>6, <2>1, <2>2, <2>3, <2>4, QuiesceParts
<1> QED
  BY <1>1, <1>2, <1>3, <1>4, <1>5, <1>6 DEF Next, Service

\* Each frame is acknowledged once.
LEMMA AcksStep ==
  ASSUME TypeOK, Line, Placed, Acks, Next
  PROVE  Acks'
<1>s. state = "send" /\ SendFrame /\ (PollHandshake \/ PollQuiesce) => SentPiece
  BY Sends
<1>b. Byte => UNCHANGED <<stepVars, ackVars>>
  BY ByteParts
<1> USE DEF TypeOK, Acks, Restarting, Active, Pos, Busy, timeVars, stepVars, ackVars,
    i2sVars, quietVars, dspVars
<1>1. CASE Tick
  BY <1>1 DEF Tick
<1>2. CASE Byte
  BY <1>2, <1>b
<1>3. ASSUME NEW f \in Frame, NEW ok \in BOOLEAN, Answer(f, ok)
      PROVE  Acks'
  BY <1>3 DEF Answer
<1>4. CASE Begin
  BY <1>4 DEF Begin, Boundary
<1>5. CASE Close
  BY <1>5 DEF Close, Teardown
<1>6. CASE Sample
  BY <1>6 DEF Sample
<1>7. CASE GiveUp
  BY <1>7 DEF GiveUp, Teardown
<1>8. CASE Receive
  <2>1. CASE UNCHANGED <<stepVars, ackVars, error, pins>>
    BY <1>8, <2>1, ReceiveParts
  <2>2. CASE Matched
    BY <1>8, <2>2, ReceiveParts DEF Matched
  <2>3. CASE Refused
    BY <1>8, <2>3, ReceiveParts DEF Refused
  <2> QED
    BY <1>8, <2>1, <2>2, <2>3, ReceiveParts
<1>9. CASE PollHandshake
  <2>1. CASE ~Active /\ Teardown /\ UNCHANGED <<stepVars, error, fifo, ackVars>>
    BY <1>9, <2>1 DEF PollHandshake, Teardown
  <2>2. CASE Active /\ Fail("timeout") /\ Teardown /\ UNCHANGED <<fifo, ackVars>>
    BY <1>9, <2>2 DEF PollHandshake, Fail, Teardown
  <2>3. CASE state = "initial" /\ Delay(Initial, "send")
    BY <1>9, <2>3 DEF PollHandshake, Delay, Transition
  <2>4. CASE state = "send" /\ SendFrame
    <3>1. SentPiece
      BY <1>s, <1>9, <2>4
    <3> QED
      BY <1>9, <2>4, <3>1 DEF PollHandshake, SentPiece
  <2>5. CASE state = "drain" /\ WaitDrain
    BY <1>9, <2>5 DEF PollHandshake, WaitDrain, Transition
  <2>6. CASE state = "gap" /\ WaitGap
    BY <1>9, <2>6, GapParts DEF PollHandshake
  <2>7. CASE Reconfigure
    BY <1>9, <2>7 DEF PollHandshake, Reconfigure, Transition, Fail, Teardown
  <2>8. CASE state = "delay" /\ Delay(Quiet, "send")
    BY <1>9, <2>8 DEF PollHandshake, Delay, Transition
  <2> QED
    BY <1>9, <2>1, <2>2, <2>3, <2>4, <2>5, <2>6, <2>7, <2>8, PollParts DEF PollHandshake
<1>10. CASE PollQuiesce
  <2>1. CASE /\ Fail("timeout") /\ Teardown /\ owner' = "fault"
            /\ UNCHANGED <<drained, fifo, ackVars>>
    BY <1>10, <2>1, QuiesceParts DEF Fail, Teardown
  <2>2. CASE FinishFrame /\ state = "send"
    <3>1. SentPiece
      BY <1>s, <1>10, <2>2 DEF FinishFrame
    <3> QED
      BY <1>10, <2>2, <3>1, QuiesceParts DEF FinishFrame, SentPiece
  <2>3. CASE FinishFrame /\ state # "send"
    BY <1>10, <2>3, QuiesceParts DEF FinishFrame
  <2>4. CASE FinishDrain
    BY <1>10, <2>4, QuiesceParts DEF FinishDrain
  <2> QED
    BY <1>10, <2>1, <2>2, <2>3, <2>4, QuiesceParts
<1> QED
  BY <1>1, <1>2, <1>3, <1>4, <1>5, <1>6, <1>7, <1>8, <1>9, <1>10 DEF Next, Service

\* The DSP gets the frames in their order.
LEMMA HeardStep ==
  ASSUME TypeOK, Line, Placed, Acks, Heard, Next
  PROVE  Heard'
<1>s. state = "send" /\ SendFrame /\ (PollHandshake \/ PollQuiesce) => SentPiece
  BY Sends
<1>b. ASSUME Byte
      PROVE  /\ UNCHANGED <<state, frame, error, offset>> /\ Busy
             /\ peer.got \in 0..(Bytes - 1) /\ Len(fifo) \in Nat \ {0} /\ fifo' \in Seq(Byte0)
             /\ Len(fifo') = Len(fifo) - 1
             /\ heard' = IF peer.got + 1 = Bytes THEN heard \cup {frame} ELSE heard
  BY <1>b, ByteParts DEF TypeOK, stepVars
<1>t. ASSUME SentPiece
      PROVE  /\ frame' = frame /\ state' \in {"drain", "failed", state}
             /\ (state' = "drain" /\ state = "send" => fifo' # <<>>)
  <2>1. PICK n \in 0..(Bytes - offset) :
          /\ fifo' \in Seq(Byte0) /\ Len(fifo') = Len(fifo) + n
          /\ (state' = "drain" /\ offset + n = Bytes) \/ state' \in {"failed", state}
    BY <1>t DEF SentPiece
  <2>2. Len(fifo) \in Nat /\ offset \in Nat /\ offset < Bytes /\ Bytes \in Nat
    BY SizesAssumption DEF TypeOK
  <2>3. state' = "drain" /\ state = "send" => Len(fifo') # 0
    BY <2>1, <2>2
  <2> QED
    BY <1>t, <2>1, <2>3 DEF SentPiece
<1> USE DEF TypeOK, Line, Placed, Acks, Heard, Restarting, Sent, Active, Pos, Busy, Frame,
    timeVars, stepVars, ackVars, i2sVars, quietVars, dspVars
<1>1. CASE \/ Tick \/ Close \/ Sample \/ GiveUp
           \/ \E f \in Frame, ok \in BOOLEAN : Answer(f, ok)
  BY <1>1, ZenonT(40) DEF Tick, Answer, Close, Sample, GiveUp, Teardown
<1>2. CASE Byte
  <2>1. /\ UNCHANGED <<state, frame, error, offset>> /\ Busy
        /\ peer.got \in 0..(Bytes - 1) /\ Len(fifo) \in Nat \ {0} /\ fifo' \in Seq(Byte0)
        /\ Len(fifo') = Len(fifo) - 1
        /\ heard' = IF peer.got + 1 = Bytes THEN heard \cup {frame} ELSE heard
    BY <1>2, <1>b
  <2>2. ASSUME state = "drain", fifo' = <<>>
        PROVE  peer.got + 1 = Bytes
    <3>1. Len(fifo) = 1 /\ offset = 0 /\ error # "tx"
      BY <2>1, <2>2
    <3> QED
      BY <2>1, <3>1
  <2>3. heard \subseteq heard'
    BY <2>1
  <2> QED
    BY <2>1, <2>2, <2>3
<1>3. CASE Begin
  BY <1>3 DEF Begin, Boundary
<1>4. CASE Receive
  BY <1>4, ReceiveParts DEF Matched, Refused
<1>5. CASE PollHandshake
  <2>1. CASE ~Active /\ Teardown /\ UNCHANGED <<stepVars, error, fifo, ackVars>>
    BY <1>5, <2>1 DEF PollHandshake, Teardown
  <2>2. CASE Active /\ Fail("timeout") /\ Teardown /\ UNCHANGED <<fifo, ackVars>>
    BY <1>5, <2>2 DEF PollHandshake, Fail, Teardown
  <2>3. CASE state = "initial" /\ Delay(Initial, "send")
    BY <1>5, <2>3 DEF PollHandshake, Delay, Transition
  <2>4. CASE state = "send" /\ SendFrame
    <3>1. SentPiece
      BY <1>s, <1>5, <2>4
    <3> QED
      BY <1>5, <1>t, <2>4, <3>1 DEF PollHandshake
  <2>5. CASE state = "drain" /\ WaitDrain
    BY <1>5, <2>5 DEF PollHandshake, WaitDrain, Transition
  <2>6. CASE state = "gap" /\ WaitGap
    BY <1>5, <2>6, GapParts DEF PollHandshake
  <2>7. CASE Reconfigure
    BY <1>5, <2>7 DEF PollHandshake, Reconfigure, Transition, Fail, Teardown
  <2>8. CASE state = "delay" /\ Delay(Quiet, "send")
    BY <1>5, <2>8 DEF PollHandshake, Delay, Transition
  <2> QED
    BY <1>5, <2>1, <2>2, <2>3, <2>4, <2>5, <2>6, <2>7, <2>8, PollParts DEF PollHandshake
<1>6. CASE PollQuiesce
  <2>1. CASE FinishFrame /\ state = "send"
    <3>1. SentPiece
      BY <1>s, <1>6, <2>1 DEF FinishFrame
    <3>2. heard' = heard /\ frame' = frame
      BY <1>6, <3>1, QuiesceParts DEF SentPiece
    <3>3. state' = "drain" => fifo' # <<>>
      BY <1>t, <2>1, <3>1
    <3>4. state' \in {"drain", "send", "failed"}
      BY <1>t, <2>1, <3>1
    <3> QED
      BY <3>2, <3>3, <3>4
  <2>2. CASE ~(FinishFrame /\ state = "send")
    BY <1>6, <2>2, QuiesceParts DEF Fail, Teardown, FinishFrame, FinishDrain
  <2> QED
    BY <1>6, <2>1, <2>2
<1> QED
  BY <1>1, <1>2, <1>3, <1>4, <1>5, <1>6 DEF Next, Service

\* The ring follows the handshake.
LEMMA RingStep ==
  ASSUME TypeOK, Line, Placed, Acks, Heard, RingOwned, InStep, Next
  PROVE  RingOwned' /\ InStep'
<1>s. state = "send" /\ SendFrame /\ (PollHandshake \/ PollQuiesce) => SentPiece
  BY Sends
<1>b. Byte => UNCHANGED <<stepVars, ackVars, owner, i2sVars>> /\ Busy /\ heard \subseteq heard'
  BY ByteParts
<1>t. SentPiece => /\ UNCHANGED <<frame, acked>> /\ state' \in {"drain", "failed", state}
                   /\ \/ UNCHANGED i2sVars
                      \/ ring' = FALSE /\ pins' = FALSE
  BY DEF SentPiece, i2sVars
<1> USE DEF TypeOK, Acks, Heard, RingOwned, InStep, Restarting, Active, Pos, Busy, Frame,
    timeVars, stepVars, ackVars, i2sVars, quietVars, dspVars
<1>1. CASE Tick
  BY <1>1 DEF Tick
<1>2. CASE Byte
  BY <1>2, <1>b
<1>3. ASSUME NEW f \in Frame, NEW ok \in BOOLEAN, Answer(f, ok)
      PROVE  RingOwned' /\ InStep'
  BY <1>3 DEF Answer
<1>4. CASE Begin
  BY <1>4 DEF Begin, Boundary
<1>5. CASE Close
  BY <1>5 DEF Close, Teardown
<1>6. CASE Sample
  BY <1>6 DEF Sample
<1>7. CASE GiveUp
  BY <1>7 DEF GiveUp, Teardown
<1>8. CASE Receive
  <2>1. /\ UNCHANGED <<frame, ring, heard, owner>> /\ pins' \in {pins, FALSE}
        /\ Busy
    BY <1>8, ReceiveParts DEF Matched, Refused
  <2>2. \/ UNCHANGED <<state, acked>>
        \/ acked' = acked + 1 /\ state' = state
        \/ state' = "failed" /\ acked' = acked
    BY <1>8, ReceiveParts DEF Matched, Refused
  <2>3. RingOwned'
    <3>1. owner \in {"handshake", "quiesce"} /\ ring \in BOOLEAN /\ pins \in BOOLEAN
      BY <2>1
    <3>2. owner = "quiesce" => ring' = FALSE /\ pins' = FALSE
      BY <2>1, <3>1
    <3>3. owner = "handshake" /\ state' \in {"configuring", "connect"} => ring' = TRUE
      BY <2>1, <2>2, <3>1
    <3> QED
      BY <2>1, <3>1, <3>2, <3>3
  <2>4. (ring => acked >= 2)'
    BY <2>1, <2>2
  <2>5. (pins => ring)'
    BY <2>1
  <2>6. InStep'
    BY <2>1, <2>4, <2>5
  <2> QED
    BY <2>3, <2>6
<1>9. CASE PollHandshake
  <2>1. CASE ~Active /\ Teardown /\ UNCHANGED <<stepVars, error, fifo, ackVars>>
    BY <1>9, <2>1 DEF PollHandshake, Teardown
  <2>2. CASE Active /\ Fail("timeout") /\ Teardown /\ UNCHANGED <<fifo, ackVars>>
    BY <1>9, <2>2 DEF PollHandshake, Fail, Teardown
  <2>3. CASE state = "initial" /\ Delay(Initial, "send")
    BY <1>9, <2>3 DEF PollHandshake, Delay, Transition
  <2>4. CASE state = "send" /\ SendFrame
    <3>1. SentPiece
      BY <1>s, <1>9, <2>4
    <3>2. /\ heard' = heard /\ owner' \in {"handshake", "quiesce"}
          /\ owner' = "quiesce" <=> state' = "failed"
      BY <1>9, <1>t, <2>4, <3>1 DEF PollHandshake
    <3>3. \/ state' \in {"send", "drain"} /\ owner' = "handshake" /\ UNCHANGED i2sVars
          \/ ring' = FALSE /\ pins' = FALSE
      BY <1>9, <1>t, <2>4, <3>1, <3>2 DEF PollHandshake, SentPiece
    <3> QED
      BY <1>t, <2>4, <3>1, <3>2, <3>3
  <2>5. CASE state = "drain" /\ WaitDrain
    BY <1>9, <2>5 DEF PollHandshake, WaitDrain, Transition
  <2>6. CASE state = "gap" /\ WaitGap
    BY <1>9, <2>6, GapParts DEF PollHandshake
  <2>7. CASE Reconfigure
    BY <1>9, <2>7 DEF PollHandshake, Reconfigure, Transition, Fail, Teardown
  <2>8. CASE state = "delay" /\ Delay(Quiet, "send")
    BY <1>9, <2>8 DEF PollHandshake, Delay, Transition
  <2> QED
    BY <1>9, <2>1, <2>2, <2>3, <2>4, <2>5, <2>6, <2>7, <2>8, PollParts DEF PollHandshake
<1>10. CASE PollQuiesce
  <2>1. CASE /\ Fail("timeout") /\ Teardown /\ owner' = "fault"
            /\ UNCHANGED <<drained, fifo, ackVars>>
    BY <1>10, <2>1, QuiesceParts DEF Fail, Teardown
  <2>2. CASE FinishFrame /\ state = "send"
    <3>1. SentPiece
      BY <1>s, <1>10, <2>2 DEF FinishFrame
    <3> QED
      BY <1>10, <2>2, <3>1, QuiesceParts DEF FinishFrame, SentPiece
  <2>3. CASE FinishFrame /\ state # "send"
    BY <1>10, <2>3, QuiesceParts DEF FinishFrame
  <2>4. CASE FinishDrain
    BY <1>10, <2>4, QuiesceParts DEF FinishDrain
  <2> QED
    BY <1>10, <2>1, <2>2, <2>3, <2>4, QuiesceParts
<1> QED
  BY <1>1, <1>2, <1>3, <1>4, <1>5, <1>6, <1>7, <1>8, <1>9, <1>10 DEF Next, Service

\* The sample of the time is taken often enough.
LEMMA ClockSampled ==
  ASSUME TypeOK, Sampled, Next
  PROVE  Sampled'
<1> USE SlipAssumption, WrapAssumption DEF ClockTypes, Sampled, Busy, timeVars, stepVars,
    ackVars, i2sVars, quietVars, dspVars
<1> USE TypeParts, ClockStep
<1>1. CASE \/ Close
           \/ \E f \in Frame, ok \in BOOLEAN : Answer(f, ok)
  BY <1>1 DEF Answer, Close, Teardown
<1>2. CASE Tick
  <2>1. /\ now' = (now + 1) % Wrap /\ t' = t /\ pc' = pc
        /\ Sub(now, t) < IF pc = "sample" THEN MaxLoop ELSE MaxSlip
    BY <1>2 DEF Tick
  <2>2. Sub(now', t) <= Sub(now, t) + 1 /\ {Sub(now', t), Sub(now, t)} \subseteq 0..(Wrap - 1)
    BY <2>1
  <2> QED
    BY <2>1, <2>2
<1>3. CASE Byte
  BY <1>3 DEF Byte
<1>4. CASE Begin
  <2>1. now' \in 0..(Wrap - 1) /\ t' = now' /\ pc' = "sample"
    BY <1>4, StartsAssumption DEF Begin
  <2>2. Sub(now', t') = 0
    BY <2>1
  <2> QED
    BY <2>1, <2>2
<1>5. CASE Sample
  <2>1. now' = now /\ t' = now /\ pc' = "receive" /\ Sub(now, now) = 0
    BY <1>5 DEF Sample
  <2> QED
    BY <2>1
<1>6. CASE GiveUp
  <2>1. UNCHANGED <<now, t>> /\ pc = "receive" /\ pc' = "sample"
    BY <1>6 DEF GiveUp
  <2>2. Sub(now, t) \in 0..(Wrap - 1)
    OBVIOUS
  <2> QED
    BY <2>1, <2>2
<1>7. CASE Receive
  <2>1. UNCHANGED <<now, t>> /\ pc # "sample" /\ pc' # "sample"
    BY <1>7, ReceiveParts
  <2> QED
    BY <2>1
<1>8. CASE PollHandshake
  <2>1. UNCHANGED <<now, t>> /\ pc = "poll" /\ pc' = "sample"
    BY <1>8 DEF PollHandshake
  <2>2. Sub(now, t) \in 0..(Wrap - 1)
    OBVIOUS
  <2> QED
    BY <2>1, <2>2
<1>9. CASE PollQuiesce
  <2>1. UNCHANGED <<now, t>> /\ pc = "poll" /\ pc' = "sample"
    BY <1>9, QuiesceParts
  <2>2. Sub(now, t) \in 0..(Wrap - 1)
    OBVIOUS
  <2> QED
    BY <2>1, <2>2
<1> QED
  BY <1>1, <1>2, <1>3, <1>4, <1>5, <1>6, <1>7, <1>8, <1>9 DEF Next, Service

\* The stamps of the delays mean what they are taken for.
LEMMA StampedStep ==
  ASSUME TypeOK, Line, Placed, Acks, Sampled, Stamped, Next
  PROVE  Stamped'
<1> USE DEF Sampled, Stamped, Restarting, timeVars, stepVars, ackVars, i2sVars, quietVars,
    dspVars
<1>a. ClockTypes
  BY TypeParts
<1>b. /\ Initial \in Nat /\ Initial >= Interframe
      /\ \A f \in Frame : Gap(f) \in Nat /\ Gap(f) >= Interframe
  BY DelayAssumption DEF Gap
<1>c. owner = "handshake" => ~drained
  BY DEF Placed
<1>1. CASE Tick
  <2>1. UNCHANGED <<state, offset, drained, pc>>
    BY <1>1 DEF Tick
  <2> QED
    BY <1>1, <1>a, <2>1, SinceTick
<1>2. CASE Byte
  <2>1. UNCHANGED <<state, offset, drained>> /\ Busy /\ fifo # <<>>
    BY <1>2, ByteParts
  <2>2. Len(fifo) \in Nat \ {0} /\ peer.got \in Nat
    BY <2>1 DEF TypeOK
  <2>3. ~drained /\ (state \in {"drain", "failed", "canceled"} \/ error = "tx" \/ offset > 0)
    BY <2>1, <2>2 DEF Placed, Sent
  <2> QED
    BY <2>1, <2>3 DEF Placed
<1>3. ASSUME NEW f \in Frame, NEW ok \in BOOLEAN, Answer(f, ok)
      PROVE  Stamped'
  BY <1>3 DEF Answer, Since, Quieted
<1>4. CASE Begin
  <2>1. /\ now' \in 0..(Wrap - 1) /\ t' = now' /\ phase' = now' /\ quiet' = quiet
        /\ state' = "initial" /\ drained' = FALSE
    BY <1>4, StartsAssumption DEF Begin
  <2>2. Sub(now', phase') = 0 /\ Sub(t', phase') = 0
    BY <2>1, ClockStep
  <2>3. quiet' \in Nat /\ MaxSlip \in Nat
    BY <2>1, <1>a, SlipAssumption, DelayAssumption DEF ClockTypes
  <2> QED
    BY <2>1, <2>2, <2>3 DEF Since
<1>5. CASE Close
  BY <1>5 DEF Close, Teardown, Since, Quieted
<1>6. CASE Sample
  BY <1>6 DEF Sample, Since, Quieted
<1>7. CASE GiveUp
  BY <1>7 DEF GiveUp, Since, Quieted
<1>8. CASE Receive
  <2>1. /\ UNCHANGED <<now, t, quiet, phase, offset, drained>> /\ pc = "receive"
        /\ state' \in {state, "failed"}
    BY <1>8, ReceiveParts DEF Matched, Refused
  <2> QED
    BY <2>1 DEF Since, Quieted
<1>9. CASE PollHandshake
  <2>0. /\ UNCHANGED <<now, t, quiet, drained>> /\ ~drained
        /\ pc = "poll" /\ pc' = "sample" /\ owner = "handshake" /\ Poll
    BY <1>9, <1>c DEF PollHandshake
  <2>1. CASE ~Active /\ UNCHANGED stepVars
    BY <2>0, <2>1 DEF Since, Quieted
  <2>2. CASE state' = "failed"
    BY <2>0, <2>2
  <2>3. CASE state = "initial" /\ Delay(Initial, "send")
    <3>1. CASE UNCHANGED stepVars
      BY <2>0, <3>1 DEF Since, Quieted
    <3>2. CASE Elapsed(Initial) /\ state' = "send"
      <4>1. Quieted
        BY <1>a, <1>b, <2>0, <2>3, <3>2, SinceElapsed
      <4> QED
        BY <2>0, <3>2, <4>1 DEF Quieted
    <3> QED
      BY <2>3, <3>1, <3>2 DEF Delay, Transition
  <2>4. CASE state = "send" /\ SendFrame
    <3>1. SentPiece
      BY <2>0, <2>4, SendParts DEF Busy
    <3>2. \/ state' \in {"drain", "failed"}
          \/ state' = "send" /\ (offset' = 0 => offset = 0)
      BY <2>4, <3>1 DEF SentPiece, TypeOK
    <3> QED
      BY <2>0, <2>4, <3>2 DEF Quieted
  <2>5. CASE state = "drain" /\ WaitDrain
    <3>1. CASE state' = "gap" /\ phase' = t
      BY <1>a, <2>0, <3>1, SinceFresh
    <3>2. CASE UNCHANGED stepVars
      BY <2>0, <2>5, <3>2
    <3> QED
      BY <2>5, <3>1, <3>2 DEF WaitDrain, Transition
  <2>6. CASE state = "gap" /\ WaitGap
    <3>1. CASE UNCHANGED stepVars
      BY <2>0, <3>1 DEF Since, Quieted
    <3>2. CASE Elapsed(Gap(frame)) /\ state' \in {"send", "isolate", "complete"}
      <4>1. frame \in Frame
        BY DEF TypeOK
      <4>2. Quieted
        BY <1>a, <1>b, <2>0, <2>6, <3>2, <4>1, SinceElapsed
      <4> QED
        BY <2>0, <3>2, <4>2 DEF Quieted
    <3> QED
      BY <2>6, <3>1, <3>2, GapParts
  <2>7. CASE Reconfigure
    <3>1. state \in Restarting /\ state' \in Restarting \cup {"failed"}
      BY <2>7 DEF Reconfigure, Transition, Fail
    <3> QED
      BY <2>0, <3>1 DEF Quieted
  <2>8. CASE state = "delay" /\ Delay(Quiet, "send")
    <3>1. state' \in {"delay", "send"}
      BY <2>8 DEF Delay, Transition
    <3> QED
      BY <2>0, <2>8, <3>1 DEF Quieted
  <2> QED
    BY <2>0, <2>1, <2>2, <2>3, <2>4, <2>5, <2>6, <2>7, <2>8, PollParts DEF Fail
<1>10. CASE PollQuiesce
  <2>0. UNCHANGED <<now, t, quiet>> /\ pc = "poll" /\ pc' = "sample" /\ owner = "quiesce"
    BY <1>10, QuiesceParts
  <2>1. CASE state' = "failed" /\ UNCHANGED <<drained, phase>>
    BY <2>0, <2>1 DEF Since, Quieted
  <2>2. CASE FinishFrame /\ state = "send"
    <3>1. SentPiece
      BY <1>10, <2>2, SendParts, QuiesceParts DEF FinishFrame, Busy
    <3>2. ~drained' /\ (state' = "send" => offset' # 0) /\ state' \in {"drain", "send", "failed"}
      BY <2>2, <3>1 DEF FinishFrame, SentPiece, Placed, TypeOK
    <3> QED
      BY <3>2
  <2>3. CASE FinishFrame /\ state # "send"
    BY <2>0, <2>3 DEF FinishFrame, Since, Quieted
  <2>4. CASE FinishDrain
    <3>1. /\ state' \in {state, "canceled"} /\ offset' = offset
          /\ phase' = IF drained THEN phase ELSE t
      BY <2>4 DEF FinishDrain
    <3>2. CASE drained
      BY <2>0, <3>1, <3>2 DEF Since, Quieted
    <3>3. CASE ~drained
      <4>1. Since(now)'
        BY <1>a, <2>0, <3>1, <3>3, SinceFresh
      <4> QED
        BY <2>0, <3>1, <4>1 DEF Quieted
    <3> QED
      BY <3>2, <3>3
  <2> QED
    BY <1>10, <2>1, <2>2, <2>3, <2>4, QuiesceParts DEF Fail
<1> QED
  BY <1>1, <1>2, <1>3, <1>4, <1>5, <1>6, <1>7, <1>8, <1>9, <1>10 DEF Next, Service

-----------------------------------------------------------------------------
LEMMA ModeInit == Init => ModeInv
<1> SUFFICES ASSUME Init
             PROVE  ModeInv
  OBVIOUS
<1> USE DEF Init, Boundary
<1>1. TypeOK
  <2>1. ClockTypes
    BY WrapAssumption, DelayAssumption, StartsAssumption DEF ClockTypes
  <2>2. StateTypes /\ AckedTypes
    BY DEF StateTypes, AckedTypes, Frame
  <2>5. OffsetTypes
    BY SizesAssumption DEF OffsetTypes
  <2>6. FlagTypes
    BY DEF FlagTypes
  <2>3. FifoTypes /\ RxTypes
    BY SizesAssumption DEF FifoTypes, RxTypes
  <2>4. PeerTypes
    BY SizesAssumption DEF PeerTypes, Frame
  <2> QED
    BY <2>1, <2>2, <2>3, <2>4, <2>5, <2>6, TypeParts
<1>2. Line /\ LetGo
  BY DEF Line, LetGo, AtBoundary
<1>3. Placed
  BY DEF Placed, Sent, Busy
<1>4. Acks /\ Heard
  BY DEF Acks, Heard, Frame, Pos, Restarting
<1>5. RingOwned /\ InStep
  BY DEF RingOwned, InStep
<1>6. Sampled
  <2>1. Sub(now, t) = 0
    BY StartsAssumption, ClockStep
  <2> QED
    BY <2>1, SlipAssumption, WrapAssumption DEF Sampled
<1>7. Stamped
  BY DEF Stamped, Restarting
<1> QED
  BY <1>1, <1>2, <1>3, <1>4, <1>5, <1>6, <1>7 DEF ModeInv

LEMMA ModeStep == ModeInv /\ [Next]_vars => ModeInv'
<1>1. ModeInv /\ Next => ModeInv'
  <2> SUFFICES ASSUME ModeInv, Next
               PROVE  ModeInv'
    OBVIOUS
  <2>1. TypeOK /\ Line /\ Placed /\ LetGo /\ Acks /\ Heard /\ RingOwned /\ InStep
        /\ Sampled /\ Stamped
    BY DEF ModeInv
  <2>2. /\ ClockTypes /\ StateTypes /\ OffsetTypes /\ FlagTypes
        /\ AckedTypes /\ FifoTypes /\ RxTypes /\ PeerTypes
    BY <2>1, TypeParts
  <2>3. /\ ClockTypes' /\ StateTypes' /\ OffsetTypes' /\ FlagTypes'
        /\ AckedTypes' /\ FifoTypes' /\ RxTypes' /\ PeerTypes'
    BY <2>1, <2>2, ClockTypesStep, StateTypesStep, OffsetTypesStep, FlagTypesStep, AckedStep,
       FifoTypesStep, RxTypesStep, PeerTypesStep
  <2>4. TypeOK'
    BY <2>3 DEF TypeOK, ClockTypes, StateTypes, OffsetTypes, FlagTypes, AckedTypes, FifoTypes,
       RxTypes, PeerTypes
  <2>5. Line' /\ Placed' /\ LetGo'
    BY <2>1, LineStep, PlacedStep, WholeStep
  <2>6. Acks' /\ Heard' /\ RingOwned' /\ InStep'
    BY <2>1, AcksStep, HeardStep, RingStep
  <2>7. Sampled' /\ Stamped'
    BY <2>1, ClockSampled, StampedStep
  <2> QED
    BY <2>4, <2>5, <2>6, <2>7 DEF ModeInv
<1>2. ModeInv /\ UNCHANGED vars => ModeInv'
  <2> SUFFICES ASSUME ModeInv, UNCHANGED vars
               PROVE  ModeInv'
    OBVIOUS
  <2> USE DEF vars, timeVars, stepVars, ackVars, i2sVars, quietVars, dspVars, ModeInv
  <2>1. TypeOK'
    BY DEF TypeOK
  <2>2. Line' /\ Placed' /\ LetGo'
    BY DEF Line, Placed, Sent, Busy, LetGo, AtBoundary
  <2>3. Acks' /\ Heard'
    BY DEF Acks, Heard
  <2>4. RingOwned' /\ InStep'
    BY DEF RingOwned, InStep
  <2>5. Sampled' /\ Stamped'
    BY DEF Sampled, Stamped, Since, Quieted
  <2> QED
    BY <2>1, <2>2, <2>3, <2>4, <2>5
<1> QED
  BY <1>1, <1>2

\* A frame begins where the one before it has ended and the delay since has passed, and so
\* does whatever comes after UART3 has been let go.
LEMMA QuietStep ==
  ModeInv /\ [Next]_vars =>
    [FrameBegins \/ (owner # owner' /\ owner' \in {"free", "running"})
       => quiet >= Interframe - MaxSlip]_vars
<1> SUFFICES ASSUME ModeInv, Next,
                    FrameBegins \/ (owner # owner' /\ owner' \in {"free", "running"})
             PROVE  Quieted
  BY DEF Quieted
<1>a. /\ TypeOK /\ Line /\ Placed /\ Acks /\ Sampled /\ Stamped /\ ClockTypes
      /\ fifo \in Seq(Byte0) /\ Len(fifo) \in Nat /\ peer.got \in Nat
  BY TypeParts DEF ModeInv, TypeOK
<1>b. Interframe \in Nat \ {0} /\ \A f \in Frame : Gap(f) \in Nat /\ Gap(f) >= Interframe
  BY DelayAssumption DEF Gap
<1> USE DEF timeVars, stepVars, ackVars, i2sVars, quietVars, dspVars
<1>1. CASE Tick \/ (\E f \in Frame, ok \in BOOLEAN : Answer(f, ok)) \/ Close \/ Sample \/ GiveUp
  <2>1. fifo' = fifo /\ owner' \in {owner, "closed", "quiesce"}
    BY <1>1 DEF Tick, Answer, Close, Sample, GiveUp, Teardown
  <2> QED
    BY <1>a, <2>1 DEF FrameBegins
<1>2. CASE Byte
  <2>1. Len(fifo') = Len(fifo) - 1 /\ owner' = owner
    BY <1>2, <1>a, ByteParts
  <2> QED
    BY <1>a, <2>1 DEF FrameBegins
<1>3. CASE Begin
  <2>1. Len(fifo') = 0 /\ owner' = "handshake"
    BY <1>3 DEF Begin
  <2> QED
    BY <1>a, <2>1 DEF FrameBegins
<1>4. CASE Receive
  BY <1>4, <1>a, ReceiveParts DEF FrameBegins
<1>5. CASE PollHandshake
  <2>1. /\ owner = "handshake" /\ owner' # "free" /\ pc = "poll" /\ Poll
        /\ (owner' = "running" => state' = "complete")
    BY <1>5 DEF PollHandshake
  <2>2. CASE state = "send" /\ SendFrame
    <3>1. SentPiece
      BY <1>a, <2>1, <2>2, SendParts, <1>5 DEF PollHandshake, Busy
    <3>2. state' # "complete"
      BY <2>2, <3>1 DEF SentPiece
    <3>6. FrameBegins
      BY <2>1, <3>2
    <3>7. Len(fifo) + 1 \in 1..Len(fifo')
      BY <1>a, <3>1, <3>6 DEF FrameBegins, SentPiece
    <3>3. fifo'[Len(fifo) + 1].k = peer.got + (Len(fifo) + 1)
      BY <3>1, <3>7 DEF SentPiece
    <3>4. Sent = 0
      BY <1>a, <2>1, <3>2, <3>3 DEF FrameBegins, Sent
    <3>5. offset = 0
      BY <1>5, <1>a, <2>2, <3>4, SizesAssumption DEF PollHandshake, Placed, Busy
    <3> QED
      BY <1>a, <2>2, <3>5 DEF Stamped
  <2>3. CASE state = "gap" /\ WaitGap
    <3>1. (state' = "complete" => Elapsed(Gap(frame))) /\ frame \in Frame
      BY <1>a, <2>3, GapParts DEF TypeOK
    <3>2. fifo' = fifo
      BY <1>a, <2>3, GapParts
    <3>3. Since(t)
      BY <1>a, <2>1, <2>3 DEF Stamped
    <3> QED
      BY <1>a, <1>b, <2>1, <3>1, <3>2, <3>3, SinceElapsed DEF FrameBegins
  <2>4. CASE fifo' = fifo /\ (state' = "complete" => state = "complete")
    BY <1>a, <2>1, <2>4 DEF FrameBegins, Stamped
  <2>5. \/ state = "send" /\ SendFrame
        \/ state = "gap" /\ WaitGap
        \/ fifo' = fifo /\ (state' = "complete" => state = "complete")
    <3>1. CASE Reconfigure
      BY <3>1 DEF Reconfigure, Transition, Fail
    <3>2. CASE state = "drain" /\ WaitDrain
      BY <3>2 DEF WaitDrain, Transition
    <3>3. CASE Delay(Initial, "send") \/ Delay(Quiet, "send")
      BY <3>3 DEF Delay, Transition
    <3>4. CASE (~Active \/ Fail("timeout")) /\ fifo' = fifo /\ (state' = state \/ Fail("timeout"))
      BY <3>4 DEF Fail
    <3> QED
      BY <2>1, <3>1, <3>2, <3>3, <3>4, PollParts
  <2> QED
    BY <2>2, <2>3, <2>4, <2>5
<1>6. CASE PollQuiesce
  <2>1. owner = "quiesce" /\ pc = "poll" /\ t' = t
    BY <1>6, QuiesceParts
  <2>2. CASE FinishFrame /\ state = "send"
    <3>1. SentPiece
      BY <1>6, <1>a, <2>1, <2>2, SendParts DEF FinishFrame, Busy
    <3>2. owner' \in {"quiesce", "fault"}
      BY <2>2 DEF FinishFrame
    <3>6. FrameBegins
      BY <2>1, <3>2
    <3>7. Len(fifo) + 1 \in 1..Len(fifo')
      BY <1>a, <3>1, <3>6 DEF FrameBegins, SentPiece
    <3>3. fifo'[Len(fifo) + 1].k = peer.got + (Len(fifo) + 1)
      BY <3>1, <3>7 DEF SentPiece
    <3>4. Sent = 0
      BY <1>a, <2>1, <3>2, <3>3 DEF FrameBegins, Sent
    <3>5. offset = 0
      BY <1>a, <2>1, <2>2, <3>4, SizesAssumption DEF Placed, Busy
    <3> QED
      BY <2>2, <3>5, <1>a DEF FinishFrame, TypeOK
  <2>3. CASE FinishFrame /\ state # "send"
    BY <2>1, <2>3 DEF FinishFrame, FrameBegins
  <2>4. CASE FinishDrain
    <3>1. fifo' = fifo /\ owner' = "free"
      BY <2>1, <2>4 DEF FinishDrain, FrameBegins
    <3>2. Sub(t, phase') >= Interframe /\ phase' = (IF drained THEN phase ELSE t)
      BY <2>1, <2>4, <3>1 DEF FinishDrain
    <3>3. CASE drained
      <4>1. Since(t) /\ Elapsed(Interframe)
        BY <1>a, <2>1, <3>2, <3>3 DEF Stamped, Elapsed
      <4> QED
        BY <1>a, <1>b, <4>1, SinceElapsed
    <3>4. CASE ~drained
      <4>1. Sub(t, t) = 0
        BY <1>a, ClockStep DEF ClockTypes
      <4> QED
        BY <1>b, <3>2, <3>4, <4>1
    <3> QED
      BY <3>3, <3>4
  <2>5. CASE owner' = "fault" /\ fifo' = fifo
    BY <2>5 DEF FrameBegins
  <2> QED
    BY <1>6, <2>2, <2>3, <2>4, <2>5, QuiesceParts
<1> QED
  BY <1>1, <1>2, <1>3, <1>4, <1>5, <1>6 DEF Next, Service

(* For any delays and any clock, however the line, the DSP and the service  *)
(* interleave and wherever the handshake is given up: the variables keep    *)
(* their types, the DSP only gets whole frames and is left between two of   *)
(* them, unless the port fails; and the ring is restarted after two         *)
(* acknowledged frames and a handshake complete after four (audio_mode.c).  *)
THEOREM ModeCorrect == Spec => [](TypeOK /\ WholeFrames /\ InStep)
<1>1. Init => ModeInv
  BY ModeInit
<1>2. ModeInv /\ [Next]_vars => ModeInv'
  BY ModeStep
<1>3. ModeInv => TypeOK /\ WholeFrames /\ InStep
  BY DEF ModeInv, Line, LetGo, WholeFrames
<1> QED
  BY <1>1, <1>2, <1>3, PTL DEF Spec

(* The interframe time passes before every frame and before UART3 is let    *)
(* go, short of the age of the sample, also when the clock wraps while the  *)
(* handshake waits (audio_mode.c, the phase_ms comparisons).                *)
THEOREM ModeQuiet == Spec => QuietBefore
<1>1. Init => ModeInv
  BY ModeInit
<1>2. ModeInv /\ [Next]_vars => ModeInv'
  BY ModeStep
<1>3. ModeInv /\ [Next]_vars =>
        [FrameBegins \/ (owner # owner' /\ owner' \in {"free", "running"})
           => quiet >= Interframe - MaxSlip]_vars
  BY QuietStep
<1> QED
  BY <1>1, <1>2, <1>3, PTL DEF Spec, QuietBefore
=============================================================================
