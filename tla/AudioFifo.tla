----------------------------- MODULE AudioFifo -----------------------------
(***************************************************************************)
(* What the playback queue promises to its two users, the USB interrupt    *)
(* that pushes whole packets and the DMA interrupt that renders one block  *)
(* per millisecond: a bounded first-in first-out sequence of frames.  A    *)
(* packet is refused or queued as it came, a block is filled with the      *)
(* oldest frames and padded with silence, and neither a refusal nor        *)
(* padding goes unreported.                                                *)
(***************************************************************************)
EXTENDS Integers, Sequences

CONSTANTS Frame,       \* the possible values of one stereo frame
          Silence,     \* the frame of zeros
          Capacity,    \* frames the queue can hold
          MaxPacket,   \* largest number of frames in one USB packet
          Block,       \* frames in one rendered block
          Primes       \* the numbers of silent frames a start may prime with

VARIABLES fifo,        \* accepted frames not rendered yet, oldest first
          incoming,    \* the packet being pushed, for which there is room, or <<>>
          block,       \* the last rendered block
          overflowed,  \* a packet was refused since the last start
          underrun     \* a block was padded since the last start

fifoVars == <<fifo, incoming, block, overflowed, underrun>>

Packet == UNION {[1..n -> Frame] : n \in 1..MaxPacket}

Init == /\ \E p \in Primes : fifo = [k \in 1..p |-> Silence]
        /\ incoming = <<>>
        /\ block = [k \in 1..Block |-> Silence]
        /\ overflowed = FALSE
        /\ underrun = FALSE

\* A start discards whatever is queued and primes with silence.
Start(p) == /\ incoming = <<>>
            /\ fifo' = [k \in 1..p |-> Silence]
            /\ overflowed' = FALSE
            /\ underrun' = FALSE
            /\ UNCHANGED <<incoming, block>>

\* A packet for which there is room is taken up, to be queued later as it is.
Offer(pkt) == /\ incoming = <<>>
              /\ Len(fifo) + Len(pkt) <= Capacity
              /\ incoming' = pkt
              /\ UNCHANGED <<fifo, block, overflowed, underrun>>

Refuse(pkt) == /\ incoming = <<>>
               /\ Len(fifo) + Len(pkt) > Capacity
               /\ overflowed' = TRUE
               /\ UNCHANGED <<fifo, incoming, block, underrun>>

Accept == /\ incoming # <<>>
          /\ fifo' = fifo \o incoming
          /\ incoming' = <<>>
          /\ UNCHANGED <<block, overflowed, underrun>>

Take == IF Len(fifo) < Block THEN Len(fifo) ELSE Block

Render == /\ block' = [k \in 1..Block |-> IF k <= Take THEN fifo[k] ELSE Silence]
          /\ fifo' = [k \in 1..(Len(fifo) - Take) |-> fifo[k + Take]]
          /\ underrun' = (underrun \/ Take < Block)
          /\ UNCHANGED <<incoming, overflowed>>

Next == \/ \E p \in Primes : Start(p)
        \/ \E pkt \in Packet : Offer(pkt) \/ Refuse(pkt)
        \/ Accept
        \/ Render

Spec == Init /\ [][Next]_fifoVars
=============================================================================
