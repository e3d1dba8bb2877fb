----------------------------- MODULE AudioMode -----------------------------
(***************************************************************************)
(* The handshake that switches the DSP to a new stream, audio_mode.c, as   *)
(* playback_service of diagnostic_usb.c drives it: four frames (stop,      *)
(* gate, resume, rate) on UART3, each sent piece by piece, drained, and    *)
(* acknowledged by the DSP, with the I2S ring restarted behind isolated    *)
(* pins between gate and resume.  A handshake that is given up is          *)
(* quiesced: the frame in progress is completed and drained before UART3   *)
(* is let go.  The service samples the time once, at its top, and stamps   *)
(* are compared modulo 2^32.  The callbacks are those of playback: routing *)
(* the pins cannot fail, and the ring is configured once it has begun.     *)
(***************************************************************************)
EXTENDS Integers, Sequences

CONSTANTS Interframe, Initial, Quiet, Timeout,   \* the delays of audio_mode.c
          Wrap,        \* the number of values of the millisecond clock
          Bytes,       \* length of a frame
          Starts,      \* bound: the times at which a handshake may begin
          MaxSlip,     \* bound: ticks between the sample and the poll
          MaxLoop,     \* bound: ticks from one sample to the next
          MaxReplies   \* bound: replies in the receive ring

ASSUME DelayAssumption ==
  /\ {Interframe, Initial, Quiet, Timeout} \subseteq Nat \ {0}
  /\ Interframe <= Initial /\ Interframe <= Quiet
ASSUME WrapAssumption == Wrap \in Nat /\ MaxLoop \in Nat /\ Wrap > Timeout + MaxLoop
ASSUME SlipAssumption == MaxSlip \in Nat /\ MaxSlip <= MaxLoop /\ MaxSlip < Interframe
ASSUME SizesAssumption == Bytes \in Nat \ {0} /\ MaxReplies \in Nat
ASSUME StartsAssumption == Starts \subseteq 0..(Wrap - 1)

VARIABLES
  now, t,                 \* the clock, and what playback_service has sampled of it
  state, frame, offset,   \* the step of omni_audio_mode_state_t, its frame, frame_offset
  started, phase,         \* started_ms, phase_ms, of which quiesce reads neither: there they
                          \* stand for quiesce_started_ms and quiesce_drained_ms
  waiting, received, acked,   \* ack_waiting, ack_received, acknowledged_frames
  error,
  quiescing, drained,     \* quiescing, quiesce_drained
  owner,      \* who has UART3: "handshake" (pb_state 1), "quiesce" (4), or nobody,
              \* after a handshake ("running"), a stop ("free"), a fault or its end ("closed")
  pc,         \* where playback_service is
  fifo, rx,   \* bytes in the transmitter, replies in the receive ring
  pins, ring, \* the I2S pins are routed, the ring is started
  peer, heard, owed,   \* the DSP: its position in a frame, the frames it has got
                       \* in this handshake, and those it has not answered yet
  quiet       \* ticks since the last byte on the line, up to Interframe

timeVars  == <<now, quiet>>
stepVars  == <<state, frame, offset, phase>>
ackVars   == <<waiting, received, acked>>
i2sVars   == <<pins, ring>>
quietVars == <<quiescing, drained>>
dspVars   == <<peer, heard, owed>>
vars == <<timeVars, t, stepVars, started, ackVars, error, quietVars, owner, pc, fifo, rx,
          i2sVars, dspVars>>

Frame == {"stop", "gate", "resume", "rate"}
Command(f) == IF f \in {"stop", "rate"} THEN "0x51" ELSE "0x88"
Gap(f) == IF f = "gate" THEN Quiet ELSE Interframe

\* Mutant of Sub: the difference of two stamps without the wrap.
SubSigned(i, j) == i - j
\* uint32_t subtraction.
Sub(i, j) == IF i >= j THEN i - j ELSE i - j + Wrap
Boundary == [frame |-> "stop", got |-> 0, garbled |-> FALSE]
Busy == owner \in {"handshake", "quiesce"}

Init == /\ now \in Starts /\ t = now
        /\ state = "idle" /\ frame = "stop" /\ offset = 0
        /\ started = 0 /\ phase = 0
        /\ waiting = FALSE /\ received = FALSE /\ acked = 0
        /\ error = "none"
        /\ quiescing = FALSE /\ drained = FALSE
        /\ owner = "free"
        /\ pc = "sample"
        /\ fifo = <<>> /\ rx = <<>>
        /\ pins = FALSE /\ ring = FALSE
        /\ peer = Boundary /\ heard = {} /\ owed = {}
        /\ quiet = Interframe

-----------------------------------------------------------------------------
\* The clock, the line and the DSP.
Tick == /\ Busy
        /\ Sub(now, t) < IF pc = "sample" THEN MaxLoop ELSE MaxSlip
        /\ now' = (now + 1) % Wrap
        /\ quiet' = IF quiet < Interframe THEN quiet + 1 ELSE quiet
        /\ UNCHANGED <<t, stepVars, started, ackVars, error, quietVars, owner, pc, fifo, rx,
                       i2sVars, dspVars>>

\* A byte that is not the next one of the frame the DSP is in garbles it.  The
\* DSP owes the reply to the last frame it got (an earlier one never comes).
Byte == /\ Busy /\ fifo # <<>>
        /\ fifo' = Tail(fifo)
        /\ quiet' = 0
        /\ LET b == Head(fifo)
               fits == b.k = peer.got + 1 /\ (b.k > 1 => b.frame = peer.frame)
               whole == fits /\ b.k = Bytes
           IN /\ peer' = [frame |-> b.frame, got |-> IF fits /\ ~whole THEN b.k ELSE 0,
                          garbled |-> peer.garbled \/ ~fits]
              /\ heard' = IF whole THEN heard \cup {b.frame} ELSE heard
              /\ owed' = IF whole THEN {b.frame} ELSE owed
        /\ UNCHANGED <<now, t, stepVars, started, ackVars, error, quietVars, owner, pc, rx,
                       i2sVars>>

\* The DSP accepts or rejects a frame it has got, however late; a reply that
\* comes while the port is closed is lost.
Answer(f, ok) ==
  /\ f \in owed
  /\ owed' = owed \ {f}
  /\ Len(rx) < MaxReplies
  /\ rx' = IF Busy THEN Append(rx, [command |-> Command(f), ok |-> ok]) ELSE rx
  /\ UNCHANGED <<timeVars, t, stepVars, started, ackVars, error, quietVars, owner, pc, fifo,
                 i2sVars, peer, heard>>

-----------------------------------------------------------------------------
Active == state \notin {"idle", "complete", "failed", "canceled"}

\* Mutant of Transition: frame_offset is left as it is.
TransitionKeepOffset(s, f) == state' = s /\ frame' = f /\ phase' = t /\ UNCHANGED offset
Transition(s, f) == state' = s /\ frame' = f /\ phase' = t /\ offset' = 0
Fail(e) == state' = "failed" /\ error' = e /\ UNCHANGED <<frame, phase, offset>>
Elapsed(d) == Sub(t, phase) >= d

\* am_txring_teardown, with which the service follows every failure of a poll.
Teardown == pins' = FALSE /\ ring' = FALSE

\* The bytes of the frame from the offset on.
Piece(n) == [k \in 1..n |-> [frame |-> frame, k |-> offset + k]]

\* A reply matched earlier does not count for the frame that begins.
\* Mutant: it does.
ReceivedKept == received
Received == received /\ offset > 0

\* send_frame.  am_write hands over as many bytes as the transmitter takes; if
\* the port fails after some of them, they are sent, but not counted.
SendFrame ==
  /\ received' = Received
  /\ \E n \in 0..(Bytes - offset) :
       /\ fifo' = fifo \o Piece(n)
       /\ \/ /\ offset + n = Bytes
             /\ waiting' = TRUE
             /\ Transition("drain", frame)
             /\ UNCHANGED <<error, i2sVars>>
          \/ /\ offset + n < Bytes
             /\ waiting' = (waiting /\ offset > 0)
             /\ offset' = offset + n
             /\ UNCHANGED <<state, frame, phase, error, i2sVars>>
          \/ /\ offset + n < Bytes
             /\ waiting' = (waiting /\ offset > 0)
             /\ Fail("tx") /\ Teardown
  /\ UNCHANGED acked

\* Mutant of WaitDrain: the frame has been accepted by the transmitter.
WaitDrainAccepted ==
  /\ Transition("gap", frame)
  /\ UNCHANGED <<error, fifo, ackVars, i2sVars>>
\* wait_drain: the last byte has left the transmitter.
WaitDrain ==
  /\ IF fifo = <<>> THEN Transition("gap", frame) ELSE UNCHANGED stepVars
  /\ UNCHANGED <<error, fifo, ackVars, i2sVars>>

\* What follows the gap after a frame.
After == [stop |-> <<"send", "gate">>, gate |-> <<"isolate", "resume">>,
          resume |-> <<"send", "rate">>, rate |-> <<"complete", "rate">>]
WaitGap ==
  /\ IF received /\ Elapsed(Gap(frame)) THEN Transition(After[frame][1], After[frame][2])
                                        ELSE UNCHANGED stepVars
  /\ UNCHANGED <<error, fifo, ackVars, i2sVars>>

Delay(d, s) ==
  /\ IF Elapsed(d) THEN Transition(s, frame) ELSE UNCHANGED stepVars
  /\ UNCHANGED <<error, fifo, ackVars, i2sVars>>

\* The ring is reconfigured behind isolated pins; its start may be refused.
Reconfigure ==
  /\ \/ state = "isolate" /\ Transition("begin", frame) /\ pins' = FALSE
        /\ UNCHANGED <<ring, error>>
     \/ state = "begin" /\ Transition("configuring", frame) /\ ring' = TRUE
        /\ UNCHANGED <<pins, error>>
     \/ state = "begin" /\ Fail("configuration") /\ Teardown
     \/ state = "configuring" /\ Transition("connect", frame) /\ UNCHANGED <<i2sVars, error>>
     \/ state = "connect" /\ Transition("delay", frame) /\ pins' = TRUE
        /\ UNCHANGED <<ring, error>>
  /\ UNCHANGED <<fifo, ackVars>>

\* omni_audio_mode_poll
Poll ==
  IF ~Active THEN Teardown /\ UNCHANGED <<stepVars, error, fifo, ackVars>>
  ELSE IF Sub(t, started) >= Timeout
  THEN Fail("timeout") /\ Teardown /\ UNCHANGED <<fifo, ackVars>>
  ELSE \/ state = "initial" /\ Delay(Initial, "send")
       \/ state = "send" /\ SendFrame
       \/ state = "drain" /\ WaitDrain
       \/ state = "gap" /\ WaitGap
       \/ Reconfigure
       \/ state = "delay" /\ Delay(Quiet, "send")

\* omni_audio_mode_receive_ack
Qualifies(reply) == Active /\ waiting /\ reply.command = Command(frame)
ReceiveAck(reply) ==
  IF ~Qualifies(reply) THEN UNCHANGED <<stepVars, ackVars, error, pins>>
  ELSE /\ waiting' = FALSE
       /\ IF reply.ok THEN /\ received' = TRUE
                           /\ acked' = acked + 1
                           /\ UNCHANGED <<stepVars, error, pins>>
                      ELSE /\ Fail("rejected")
                           /\ pins' = FALSE
                           /\ UNCHANGED <<received, acked>>

\* omni_audio_mode_quiesce.  A partial frame is completed first; then the
\* line must have been idle for the interframe time.
FinishFrame ==
  /\ offset > 0
  /\ IF state = "send" THEN SendFrame
                       ELSE UNCHANGED <<stepVars, error, fifo, ackVars, i2sVars>>
  /\ owner' = IF state' = "failed" THEN "fault" ELSE "quiesce"
  /\ UNCHANGED drained
FinishDrain ==
  /\ offset = 0
  /\ drained' = (drained \/ fifo = <<>>)
  /\ phase' = IF drained THEN phase ELSE t
  /\ IF drained' /\ Sub(t, phase') >= Interframe
     THEN state' = "canceled" /\ owner' = "free"
     ELSE UNCHANGED <<state, owner>>
  /\ UNCHANGED <<frame, offset, error, fifo, ackVars, i2sVars>>
Quiesce ==
  /\ quiescing' = TRUE
  /\ started' = IF quiescing THEN started ELSE t
  /\ IF Sub(t, started') >= Timeout
     THEN /\ Fail("timeout")
          /\ Teardown
          /\ owner' = "fault"
          /\ UNCHANGED <<drained, fifo, ackVars>>
     ELSE FinishFrame \/ FinishDrain

-----------------------------------------------------------------------------
\* playback_service, as far as the handshake goes.  UART3 is started and with
\* it the receive ring is emptied; what the DSP still owes may come later.
Begin ==
  /\ owner \in {"free", "closed"}
  /\ state' = "initial" /\ frame' = "stop" /\ offset' = 0
  /\ now' \in Starts /\ t' = now'          \* some time later
  /\ started' = now' /\ phase' = now'
  /\ waiting' = FALSE /\ received' = FALSE /\ acked' = 0
  /\ error' = "none"
  /\ quiescing' = FALSE /\ drained' = FALSE
  /\ owner' = "handshake"
  /\ pc' = "sample"
  /\ fifo' = <<>> /\ rx' = <<>>
  /\ peer' = Boundary /\ heard' = {}     \* a partial frame is left behind by the DSP
  /\ UNCHANGED <<quiet, i2sVars, owed>>

\* A stream that runs or has failed is closed.
Close ==
  /\ owner \in {"running", "fault"}
  /\ owner' = "closed"
  /\ Teardown
  /\ UNCHANGED <<timeVars, t, stepVars, started, ackVars, error, quietVars, pc, fifo, rx,
                 dspVars>>

Sample ==
  /\ Busy /\ pc = "sample"
  /\ t' = now
  /\ pc' = "receive"
  /\ UNCHANGED <<timeVars, stepVars, started, ackVars, error, quietVars, owner, fifo, rx,
                 i2sVars, dspVars>>

\* The stream has changed or failed, or the receiver has.
GiveUp ==
  /\ owner = "handshake" /\ pc = "receive"
  /\ owner' = "quiesce"
  /\ Teardown
  /\ pc' = "sample"
  /\ UNCHANGED <<timeVars, t, stepVars, started, ackVars, error, quietVars, fifo, rx, dspVars>>

\* playback_receive
Receive ==
  /\ Busy /\ pc = "receive"
  /\ IF rx = <<>> THEN pc' = "poll" /\ UNCHANGED <<stepVars, ackVars, error, pins, rx>>
                  ELSE ReceiveAck(Head(rx)) /\ rx' = Tail(rx) /\ UNCHANGED pc
  /\ UNCHANGED <<timeVars, t, started, quietVars, owner, fifo, ring, dspVars>>

PollHandshake ==
  /\ owner = "handshake" /\ pc = "poll"
  /\ Poll
  /\ owner' = CASE state' = "complete" -> "running"
                 [] state' = "failed" -> "quiesce"
                 [] OTHER -> "handshake"
  /\ pc' = "sample"
  /\ UNCHANGED <<timeVars, t, started, quietVars, rx, dspVars>>

PollQuiesce ==
  /\ owner = "quiesce" /\ pc = "poll"
  /\ Quiesce
  /\ pc' = "sample"
  /\ UNCHANGED <<timeVars, t, rx, dspVars>>

Service == Sample \/ GiveUp \/ Receive \/ PollHandshake \/ PollQuiesce

Next == \/ Tick \/ Byte
        \/ \E f \in Frame, ok \in BOOLEAN : Answer(f, ok)
        \/ Begin \/ Close
        \/ Service

Spec == Init /\ [][Next]_vars

\* The main loop and the clock go on; the line and the DSP may stop.
FairSpec == Spec /\ WF_vars(Service) /\ WF_vars(Tick)

-----------------------------------------------------------------------------
Byte0 == [frame : Frame, k : 1..Bytes]
TypeOK ==
  /\ now \in 0..(Wrap - 1)
  /\ t \in 0..(Wrap - 1)
  /\ state \in {"idle", "initial", "send", "drain", "gap", "isolate", "begin", "configuring",
                "connect", "delay", "complete", "failed", "canceled"}
  /\ frame \in Frame
  /\ offset \in 0..(Bytes - 1)
  /\ started \in 0..(Wrap - 1)
  /\ phase \in 0..(Wrap - 1)
  /\ waiting \in BOOLEAN
  /\ received \in BOOLEAN
  /\ acked \in 0..4
  /\ error \in {"none", "tx", "timeout", "rejected", "configuration"}
  /\ quiescing \in BOOLEAN
  /\ drained \in BOOLEAN
  /\ owner \in {"free", "closed", "handshake", "quiesce", "running", "fault"}
  /\ pc \in {"sample", "receive", "poll"}
  /\ fifo \in Seq(Byte0) /\ Len(fifo) <= Bytes
  /\ rx \in Seq([command : {"0x51", "0x88"}, ok : BOOLEAN]) /\ Len(rx) <= MaxReplies
  /\ pins \in BOOLEAN
  /\ ring \in BOOLEAN
  /\ peer \in [frame : Frame, got : 0..(Bytes - 1), garbled : BOOLEAN]
  /\ heard \in SUBSET Frame
  /\ owed \in SUBSET Frame
  /\ quiet \in 0..Interframe

AtBoundary == fifo = <<>> /\ peer.got = 0

(* The DSP is sent whole frames only, one after the other, however a frame *)
(* is split by backpressure and wherever the handshake is given up: a      *)
(* handshake or a stop that ends cleanly leaves the DSP between two        *)
(* frames, unless the port failed in the middle of one.                    *)
WholeFrames == /\ ~peer.garbled
               /\ owner \in {"free", "running"} /\ error # "tx" => AtBoundary

(* The I2S ring is only restarted after the DSP got the stop and the gate  *)
(* frame and two replies were matched, each counted once although two of   *)
(* the four frames share their command; the pins are only routed with the  *)
(* ring behind them; and a complete handshake has been through all four.   *)
InStep == /\ ring => {"stop", "gate"} \subseteq heard /\ acked >= 2
          /\ pins => ring
          /\ owner = "running" => heard = Frame /\ acked = 4

(* The line has been quiet for the interframe time before a frame begins   *)
(* and before UART3 is let go cleanly, short of the ticks between the      *)
(* sample of the time and the poll that uses it, also when the clock       *)
(* wraps.                                                                  *)
FrameBegins == Len(fifo') > Len(fifo) /\ fifo'[Len(fifo) + 1].k = 1
QuietBefore ==
  [][FrameBegins \/ (owner # owner' /\ owner' \in {"free", "running"})
       => quiet >= Interframe - MaxSlip]_vars

(* UART3 is always let go: a handshake ends or is quiesced, and a quiesce  *)
(* ends, even if the line stands still, the DSP never answers, and the     *)
(* clock wraps meanwhile.                                                  *)
PortReleased == Busy ~> ~Busy

(* What the service relies on when it begins a fresh handshake after a     *)
(* COMPLETE ("stopping at FIFO acceptance could leave the peer inside a    *)
(* partial frame", audio_mode.c:135): a clean stop leaves the DSP between  *)
(* two frames.  It does not if the port failed after it had taken some     *)
(* bytes of a frame: am_write reports the failure only, frame_offset still *)
(* is 0, and quiesce finds nothing to complete.                            *)
CleanStop == owner = "free" => AtBoundary
=============================================================================
