----------------------------- MODULE AudioQueue -----------------------------
(***************************************************************************)
(* The playback queue of audio_queue.c: a ring of frames with one producer *)
(* (the USB interrupt, omni_audio_queue_push) and one consumer (the DMA    *)
(* interrupt, omni_audio_queue_render).  The two share only the published  *)
(* indices, which run freely modulo 2^32.  The DMA interrupt has the       *)
(* higher priority: it may run between any two accesses of a push, and a   *)
(* push never runs inside a render, so render is one step and push is a    *)
(* sequence of steps.                                                      *)
(***************************************************************************)
EXTENDS Integers, Sequences

CONSTANTS Frame,       \* the possible values of one stereo frame
          Silence,     \* the frame of zeros
          Frames,      \* OMNI_AUDIO_QUEUE_FRAMES
          Wrap,        \* the number of values of an index, 2^32 in the code
          MaxPacket,   \* largest number of frames in one USB packet
          Block,       \* frames rendered per DMA block
          Primes       \* the numbers of silent frames a start may prime with

ASSUME SilenceAssumption == Silence \in Frame
ASSUME FramesAssumption == Frames \in Nat \ {0}
\* The capacity is a power of two, so it divides the index range.
ASSUME WrapAssumption == Wrap \in Nat /\ Wrap >= 2 * Frames /\ Wrap % Frames = 0
ASSUME SizesAssumption == MaxPacket \in Nat /\ Block \in Nat /\ Primes \subseteq 0..Frames

VARIABLES pcm,         \* the ring of slots
          written,     \* index published by the producer
          read,        \* index published by the consumer
          usb,         \* progress of the push the USB interrupt is in
          block,       \* the block rendered last
          overflowed,  \* overflows # 0
          underrun     \* underruns # 0

vars == <<pcm, written, read, usb, block, overflowed, underrun>>

Packet == UNION {[1..n -> Frame] : n \in 1..MaxPacket}

\* uint32_t arithmetic on indices below Wrap and offsets up to Wrap.
Add(i, n) == IF i + n >= Wrap THEN i + n - Wrap ELSE i + n
Sub(i, j) == IF i >= j THEN i - j ELSE i - j + Wrap

Slot(i) == i % Frames
Fill == Sub(written, read)

Idle == [pc |-> "idle", pkt |-> <<>>, w |-> 0, i |-> 0]

Init == /\ pcm = [s \in 0..(Frames - 1) |-> Silence]
        /\ written \in Primes
        /\ read = 0
        /\ usb = Idle
        /\ block = [k \in 1..Block |-> Silence]
        /\ overflowed = FALSE
        /\ underrun = FALSE

\* omni_audio_queue_init_format: the caller has stopped both contexts.
Start(p) == /\ usb.pc = "idle"
            /\ pcm' = [s \in 0..(Frames - 1) |-> Silence]
            /\ written' = p
            /\ read' = 0
            /\ overflowed' = FALSE
            /\ underrun' = FALSE
            /\ UNCHANGED <<usb, block>>

\* Mutants of Fits: an off-by-one and a forgotten free-space test.
FitsOneMore(pkt) == Fill <= Frames /\ Len(pkt) <= Frames - Fill + 1
FitsAlways(pkt) == Fill <= Frames /\ Len(pkt) <= Frames
Fits(pkt) == Fill <= Frames /\ Len(pkt) <= Frames - Fill

\* omni_audio_queue_push loads both indices and admits the whole packet ...
PushAdmit(pkt) == /\ usb.pc = "idle"
                  /\ Fits(pkt)
                  /\ usb' = [pc |-> "copy", pkt |-> pkt, w |-> written, i |-> 0]
                  /\ UNCHANGED <<pcm, written, read, block, overflowed, underrun>>

\* ... or refuses the whole packet.
PushRefuse(pkt) == /\ usb.pc = "idle"
                   /\ ~Fits(pkt)
                   /\ overflowed' = TRUE
                   /\ UNCHANGED <<pcm, written, read, usb, block, underrun>>

\* Mutant of PushCopy: the index is advanced before the store.
PushCopyAhead == /\ usb.pc = "copy"
                 /\ usb.i < Len(usb.pkt)
                 /\ pcm' = [pcm EXCEPT ![Slot(usb.w + usb.i + 1)] = usb.pkt[usb.i + 1]]
                 /\ usb' = [usb EXCEPT !.i = usb.i + 1]
                 /\ UNCHANGED <<written, read, block, overflowed, underrun>>
\* One iteration of the conversion loop.
PushCopy == /\ usb.pc = "copy"
            /\ usb.i < Len(usb.pkt)
            /\ pcm' = [pcm EXCEPT ![Slot(usb.w + usb.i)] = usb.pkt[usb.i + 1]]
            /\ usb' = [usb EXCEPT !.i = usb.i + 1]
            /\ UNCHANGED <<written, read, block, overflowed, underrun>>

\* Mutant of PushPublish: the index is published before the last frame is stored.
PushPublishEarly == /\ usb.pc = "copy"
                    /\ usb.i + 1 = Len(usb.pkt)
                    /\ written' = Add(usb.w, Len(usb.pkt))
                    /\ usb' = Idle
                    /\ UNCHANGED <<pcm, read, block, overflowed, underrun>>
\* The release store that hands the packet to the consumer.
PushPublish == /\ usb.pc = "copy"
               /\ usb.i = Len(usb.pkt)
               /\ written' = Add(usb.w, Len(usb.pkt))
               /\ usb' = Idle
               /\ UNCHANGED <<pcm, read, block, overflowed, underrun>>

Available == Fill
Take == IF Available > Frames THEN 0
        ELSE IF Available < Block THEN Available ELSE Block

\* omni_audio_queue_render, from the DMA interrupt.
Render == /\ block' = [k \in 1..Block |->
                         IF k <= Take THEN pcm[Slot(read + k - 1)] ELSE Silence]
          /\ read' = Add(read, Take)
          /\ underrun' = (underrun \/ Take < Block)
          /\ UNCHANGED <<pcm, written, usb, overflowed>>

Next == \/ \E p \in Primes : Start(p)
        \/ \E pkt \in Packet : PushAdmit(pkt) \/ PushRefuse(pkt)
        \/ PushCopy
        \/ PushPublish
        \/ Render

Spec == Init /\ [][Next]_vars

-----------------------------------------------------------------------------
TypeOK ==
  /\ pcm \in [0..(Frames - 1) -> Frame]
  /\ written \in 0..(Wrap - 1)
  /\ read \in 0..(Wrap - 1)
  /\ usb \in [pc : {"idle", "copy"}, pkt : {<<>>} \cup Packet,
              w : 0..(Wrap - 1), i : 0..MaxPacket]
  /\ block \in [1..Block -> Frame]
  /\ overflowed \in BOOLEAN
  /\ underrun \in BOOLEAN

(* Neither index ever overtakes the other, whatever render does between    *)
(* the loads of a push and its publication: audio_queue.c refuses a packet *)
(* from a fill it read earlier, and the fill can only have shrunk since.   *)
Bounded == Fill <= Frames

(* A packet being copied still fits in the free part of the ring, and the  *)
(* slots copied so far hold its frames in the order of arrival, so that    *)
(* the publication never exposes a slot with an older frame.               *)
Copying ==
  usb.pc = "copy" =>
    /\ usb.pkt \in Packet
    /\ usb.w = written
    /\ usb.i <= Len(usb.pkt)
    /\ Fill + Len(usb.pkt) <= Frames
    /\ \A k \in 1..usb.i : pcm[Slot(written + k - 1)] = usb.pkt[k]

QueueInv == TypeOK /\ Bounded /\ Copying

LiveSlots == {Slot(read + k) : k \in 0..(Fill - 1)}

(* While a push is under way, no step changes a slot that holds a          *)
(* published frame the DMA interrupt has not rendered yet.                 *)
NoLiveOverwrite ==
  [][usb.pc = "copy" => \A s \in LiveSlots : pcm'[s] = pcm[s]]_vars

Queued == [k \in 1..Fill |-> pcm[Slot(read + k - 1)]]

Incoming == IF usb.pc = "copy" THEN usb.pkt ELSE <<>>

(* The queue implements AudioFifo: frames come out in the order they went  *)
(* in, a packet is queued whole and just as it was pushed although it is   *)
(* copied frame by frame under the DMA interrupt, and padding is reported. *)
Fifo == INSTANCE AudioFifo WITH fifo <- Queued, incoming <- Incoming, Capacity <- Frames
ImplementsFifo == Fifo!Spec
=============================================================================
