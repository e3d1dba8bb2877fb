------------------------------ MODULE Exchange ------------------------------
(***************************************************************************)
(* What every client of UART3 does with one request: hand its bytes to the *)
(* transmitter as it accepts them, observe that they have left, and wait   *)
(* for the peer's acknowledgement (a dd frame) and, for a read, its reply  *)
(* (a db frame).  The peer may answer in either order, late, or not at     *)
(* all; the receive ring keeps the order of arrival, and a frame in it is  *)
(* what the parser of interchip.c made of the bytes.                       *)
(*                                                                         *)
(* A poll of a client that sends, observes and reads several frames at     *)
(* once is the sequence of polls that do one of these each: the hardware   *)
(* and the peer decide how much of it there is to do.  A poll may find     *)
(* any time to have passed since the one before, so that a timeout is a    *)
(* poll that fails, and a delay a poll that goes on.                       *)
(***************************************************************************)
EXTENDS Integers, Sequences

CONSTANTS Bytes,     \* the bytes of a request
          RxFrames   \* bound: frames that wait in the receive ring

ExchangeAssumption == {Bytes, RxFrames} \subseteq Nat \ {0}

VARIABLES sent,   \* bytes of the request handed to the transmitter
          wire,   \* frames wholly handed over that have not left yet (one at most)
          owed,   \* answers the peer has not given yet
          rx      \* frames in the receive ring

lineVars == <<sent, wire, owed, rx>>
peerVars == <<owed, rx>>

LineInit == sent = 0 /\ wire = {} /\ owed = {} /\ rx = <<>>

Submitted == sent = Bytes

\* The transmitter accepts some of the bytes that are left.
Push(frame) == \E n \in 0..(Bytes - sent) :
                 /\ sent' = sent + n
                 /\ wire' = IF sent + n = Bytes THEN {frame} ELSE wire

\* The transmit FIFO is empty and the line idle.
Drained == wire = {}

\* The last byte leaves, and the peer has the request; an answer to an earlier
\* one that it has not given by then does not come any more.
Leave(frame, answers) == frame \in wire /\ wire' = {} /\ owed' = answers

\* The peer answers, in the order it likes.
Give(answer, frame) == /\ answer \in owed /\ Len(rx) < RxFrames
                       /\ owed' = owed \ {answer}
                       /\ rx' = Append(rx, frame)

\* An answer is lost on the way, or never given.
Lose(answer) == answer \in owed /\ owed' = owed \ {answer}

Read == rx # <<>> /\ rx' = Tail(rx)
Frame == Head(rx)

\* The port is closed and opened again: its rings are reset, and the peer is
\* assumed to be done with what it was asked.
Reset == sent' = 0 /\ wire' = {} /\ owed' = {} /\ rx' = <<>>
=============================================================================
