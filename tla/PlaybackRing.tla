---------------------------- MODULE PlaybackRing ----------------------------
(***************************************************************************)
(* usb_audio_ring.c: the two 1 ms blocks the I2S DMA channel plays in      *)
(* turn, the queue in front of them and the control block shared by three  *)
(* contexts.  The main loop starts, stops and resets the ring; the USB     *)
(* interrupt pushes packets tagged with the epoch of their format; the DMA *)
(* interrupt refills the block that was played.  DMA preempts USB and USB  *)
(* preempts main; the channel itself goes on between any two steps.  The   *)
(* frames in the queue are abstracted to the set of their epochs, the      *)
(* order of the frames being the subject of AudioQueue.                    *)
(***************************************************************************)
EXTENDS Integers

CONSTANTS Epochs,      \* bound: the formats started are numbered 1..Epochs
          DmaErrors    \* whether the channel may report a transfer error
ASSUME EpochsAssumption == Epochs \in Nat \ {0}
ASSUME DmaErrorsAssumption == DmaErrors \in BOOLEAN

Epoch == 1..Epochs
Block == {"A", "B"}
Other(x) == IF x = "A" THEN "B" ELSE "A"
NoPush == 0

VARIABLES stream,      \* stream_format.epoch
          active, prepared, fault, gain,   \* dma_fault # 0, gain_ready
          queued,      \* the epochs of the frames in the queue
          content,     \* per block: the epochs of its audible frames
          expected,    \* the block whose completion is due, expected_b
          main,        \* where the main loop is in a start, stop or reset
          resetting,   \* the stop is part of usb_audio_ring_reset
          usb,         \* the epoch of the packet the USB interrupt is pushing
          isr, blk,    \* where the DMA interrupt is, and with which block
          enabled, busy, head, flags, nvic,   \* channel 11 and its interrupt
          fresh,       \* the blocks refilled since they were played
          damaged      \* the channel began a block that was not refilled

ringVars == <<stream, active, prepared, fault, gain, queued, content, expected>>
mainVars == <<main, resetting>>
irqVars  == <<usb, isr, blk>>
dmaVars  == <<enabled, busy, head, flags, nvic>>
obsVars  == <<fresh, damaged>>
vars     == <<ringVars, mainVars, irqVars, dmaVars, obsVars>>

Init == /\ stream = 1
        /\ active = FALSE
        /\ prepared = FALSE
        /\ fault = FALSE
        /\ gain = FALSE
        /\ queued = {}
        /\ content = [x \in Block |-> {}]
        /\ expected = "A"
        /\ main = "idle"
        /\ resetting = FALSE
        /\ usb = NoPush
        /\ isr = "idle"
        /\ blk = "A"
        /\ enabled = FALSE
        /\ busy = FALSE
        /\ head = "A"
        /\ flags = {}
        /\ nvic = FALSE
        /\ fresh = Block
        /\ damaged = FALSE

\* The contexts by priority.
IsrPending == nvic /\ flags # {}
UsbRuns  == isr = "idle" /\ ~IsrPending
MainRuns == UsbRuns /\ usb = NoPush

-----------------------------------------------------------------------------
\* Mutant of Quiesced: only the software flag is looked at.
QuiescedFlag == ~active
\* No start while the ring is active or an earlier channel is still at work.
Quiesced == ~active /\ ~(prepared /\ (enabled \/ busy))

\* The format, stored with interrupts masked.  Epochs only grow.
Snapshot(e) == e >= stream /\ stream' = e

\* usb_audio_ring_start_format up to the format snapshot.
StartFormat(e) ==
  /\ MainRuns /\ main = "idle"
  /\ Quiesced
  /\ prepared' = FALSE
  /\ gain' = FALSE
  /\ Snapshot(e)
  /\ main' = "clear"
  /\ UNCHANGED <<active, fault, queued, content, expected, resetting,
                 irqVars, dmaVars, obsVars>>

\* Queue, blocks and accounting are cleared while USB and DMA may interrupt.
StartClear ==
  /\ MainRuns /\ main = "clear"
  /\ queued' = {}
  /\ content' = [x \in Block |-> {}]
  /\ fault' = FALSE
  /\ expected' = "A"
  /\ prepared' = TRUE
  /\ fresh' = Block
  /\ damaged' = FALSE
  /\ main' = "setup"
  /\ UNCHANGED <<stream, active, gain, resetting, irqVars, dmaVars>>

\* usb_audio_ring_dma_setup: the channel is described to begin with A, or its descriptor
\* is not as expected and left alone.
DmaSetup ==
  /\ MainRuns /\ main = "setup"
  /\ \/ head' = "A" /\ flags' = {} /\ nvic' = TRUE /\ UNCHANGED fault
     \/ fault' = TRUE /\ UNCHANGED <<head, flags, nvic>>
  /\ main' = "activate"
  /\ UNCHANGED <<stream, active, prepared, gain, queued, content, expected, resetting,
                 irqVars, enabled, busy, obsVars>>

\* usb_audio_ring_activate; the clock and the trigger come after it.
Activate ==
  /\ MainRuns /\ main = "activate"
  /\ active' = (prepared /\ ~fault)
  /\ main' = "trigger"
  /\ UNCHANGED <<stream, prepared, fault, gain, queued, content, expected,
                 resetting, irqVars, dmaVars, obsVars>>

Trigger ==
  /\ MainRuns /\ main = "trigger"
  /\ enabled' = TRUE
  /\ busy' = TRUE
  /\ main' = "idle"
  /\ UNCHANGED <<ringVars, resetting, irqVars, head, flags, nvic, obsVars>>

\* usb_audio_ring_gain_ready, from the native gain service.
GainReady(on) ==
  /\ MainRuns /\ main = "idle"
  /\ gain' = on
  /\ UNCHANGED <<stream, active, prepared, fault, queued, content, expected,
                 mainVars, irqVars, dmaVars, obsVars>>

\* usb_audio_ring_clock_servo: no block was rendered in the last 32 ms.
ServoFails ==
  /\ MainRuns /\ main = "idle"
  /\ active
  /\ fault' = TRUE
  /\ active' = FALSE
  /\ enabled' = FALSE
  /\ nvic' = FALSE
  /\ UNCHANGED <<stream, prepared, gain, queued, content, expected,
                 mainVars, irqVars, busy, head, flags, obsVars>>

\* usb_audio_ring_stop; stopping the microphone may fail.
StopBegin(forReset) ==
  /\ MainRuns /\ main = "idle"
  /\ active' = FALSE
  /\ gain' = FALSE
  /\ fault' \in {fault, TRUE}
  /\ resetting' = forReset
  /\ main' = "stop"
  /\ UNCHANGED <<stream, prepared, queued, content, expected, irqVars, dmaVars,
                 obsVars>>

Stopped == IF resetting THEN "reset" ELSE "idle"

StopUnprepared ==
  /\ MainRuns /\ main = "stop"
  /\ ~prepared
  /\ main' = Stopped
  /\ UNCHANGED <<ringVars, resetting, irqVars, dmaVars, obsVars>>

StopDisable ==
  /\ MainRuns /\ main = "stop"
  /\ prepared
  /\ nvic' = FALSE
  /\ enabled' = FALSE
  /\ main' = "spin"
  /\ UNCHANGED <<ringVars, resetting, irqVars, busy, head, flags, obsVars>>

\* The spin ends because the channel is idle or because the budget is used up.
StopSpun ==
  /\ MainRuns /\ main = "spin"
  /\ fault' = (fault \/ busy)
  /\ flags' = flags \ Block
  /\ main' = Stopped
  /\ UNCHANGED <<stream, active, prepared, gain, queued, content, expected,
                 resetting, irqVars, enabled, busy, head, nvic, obsVars>>

\* The rest of usb_audio_ring_reset.
ResetEnd ==
  /\ MainRuns /\ main = "reset"
  /\ IF prepared /\ busy THEN UNCHANGED <<fault, prepared>>
                         ELSE fault' = FALSE /\ prepared' = FALSE
  /\ main' = "idle"
  /\ UNCHANGED <<stream, active, gain, queued, content, expected, resetting,
                 irqVars, dmaVars, obsVars>>

-----------------------------------------------------------------------------
\* usb_audio_ring_write_format: a packet of another epoch, or one that comes
\* while the ring is not active, is only counted.
\* Mutant: the epoch is not looked at.
WriteAnyEpoch(e) ==
  /\ UsbRuns /\ usb = NoPush
  /\ active
  /\ usb' = e
  /\ UNCHANGED <<ringVars, mainVars, isr, blk, dmaVars, obsVars>>
Write(e) ==
  /\ UsbRuns /\ usb = NoPush
  /\ e = stream
  /\ active
  /\ usb' = e
  /\ UNCHANGED <<ringVars, mainVars, isr, blk, dmaVars, obsVars>>

\* The queue accepts or refuses the packet.
WriteEnd ==
  /\ UsbRuns /\ usb # NoPush
  /\ usb' = NoPush
  /\ queued' \in {queued, queued \cup {usb}}
  /\ UNCHANGED <<stream, active, prepared, fault, gain, content, expected,
                 mainVars, isr, blk, dmaVars, obsVars>>

-----------------------------------------------------------------------------
\* dma_failure in the DMA interrupt.
IsrFails ==
  /\ fault' = TRUE
  /\ active' = FALSE
  /\ enabled' = FALSE
  /\ nvic' = FALSE
  /\ isr' = "idle"

\* DMA0_IRQHandler reads the flags.  An inactive ring acknowledges the
\* completions and returns.
IsrInactive ==
  /\ isr = "idle" /\ IsrPending
  /\ ~active
  /\ flags' = flags \ Block
  /\ UNCHANGED <<ringVars, mainVars, irqVars, enabled, busy, head, nvic, obsVars>>

\* Mutant of IsrEnter: completions that were not expected are acknowledged.
IsrEnterIgnore ==
  /\ isr = "idle" /\ IsrPending
  /\ active
  /\ IF flags = {expected} THEN isr' = "transfer" /\ blk' = expected /\ UNCHANGED flags
                           ELSE flags' = {} /\ UNCHANGED <<isr, blk>>
  /\ UNCHANGED <<ringVars, mainVars, usb, enabled, busy, head, nvic, obsVars>>
IsrEnter ==
  /\ isr = "idle" /\ IsrPending
  /\ active
  /\ IF flags = {expected} THEN isr' = "transfer" /\ blk' = expected
                                /\ UNCHANGED <<active, fault, enabled, nvic>>
                           ELSE IsrFails /\ UNCHANGED blk
  /\ UNCHANGED <<stream, prepared, gain, queued, content, expected, mainVars,
                 usb, busy, head, flags, obsVars>>

\* The channel must be in the other block, with most of it left to play.
IsrTransfer ==
  /\ isr = "transfer"
  /\ \/ /\ head # blk
        /\ isr' = "clear"
        /\ UNCHANGED <<active, fault, enabled, nvic>>
     \/ IsrFails
  /\ UNCHANGED <<stream, prepared, gain, queued, content, expected, mainVars,
                 usb, blk, busy, head, flags, obsVars>>

IsrClear ==
  /\ isr = "clear"
  /\ flags' = flags \ {blk}
  /\ isr' = "render"
  /\ UNCHANGED <<ringVars, mainVars, usb, blk, enabled, busy, head, nvic, obsVars>>

\* The block is refilled: with frames from the queue, with silence in their
\* place (an underrun, capture only), or all with silence while the gain of
\* the headphones is not confirmed.
IsrRender ==
  /\ isr = "render"
  /\ \E taken \in SUBSET queued :
       content' = [content EXCEPT ![blk] = IF gain THEN taken ELSE {}]
  /\ queued' \in SUBSET queued
  /\ expected' = Other(blk)
  /\ fresh' = fresh \cup {blk}
  /\ isr' = "recheck"
  /\ UNCHANGED <<stream, active, prepared, fault, gain, mainVars, usb, blk,
                 dmaVars, damaged>>

\* Mutant of IsrRecheck: a completion during the refill is left to the next
\* interrupt.
IsrRecheckNone ==
  /\ isr = "recheck"
  /\ isr' = "idle"
  /\ UNCHANGED <<ringVars, mainVars, usb, blk, dmaVars, obsVars>>
\* Another completion during the refill is an overrun.
IsrRecheck ==
  /\ isr = "recheck"
  /\ IF flags = {} THEN isr' = "idle" /\ UNCHANGED <<active, fault, enabled, nvic>>
                   ELSE IsrFails
  /\ UNCHANGED <<stream, prepared, gain, queued, content, expected, mainVars,
                 usb, blk, busy, head, flags, obsVars>>

-----------------------------------------------------------------------------
\* The channel has played a block and begins the other one.
ChannelCompletes ==
  /\ enabled
  /\ flags' = flags \cup {head}
  /\ head' = Other(head)
  /\ fresh' = fresh \ {head}
  /\ damaged' = (damaged \/ Other(head) \notin fresh)
  /\ UNCHANGED <<ringVars, mainVars, irqVars, enabled, busy, nvic>>

ChannelDrains ==
  /\ busy /\ ~enabled
  /\ busy' = FALSE
  /\ UNCHANGED <<ringVars, mainVars, irqVars, enabled, head, flags, nvic, obsVars>>

ChannelError ==
  /\ DmaErrors
  /\ enabled
  /\ flags' = flags \cup {"error"}
  /\ UNCHANGED <<ringVars, mainVars, irqVars, enabled, busy, head, nvic, obsVars>>

-----------------------------------------------------------------------------
Start == \/ \E e \in Epoch : StartFormat(e)
         \/ StartClear \/ DmaSetup \/ Activate \/ Trigger
StopSteps == StopUnprepared \/ StopDisable \/ StopSpun \/ ResetEnd
MainLoop == \/ Start
            \/ \E on \in BOOLEAN : GainReady(on)
            \/ ServoFails
            \/ \E forReset \in BOOLEAN : StopBegin(forReset)
            \/ StopSteps
UsbIrq == (\E e \in Epoch : Write(e)) \/ WriteEnd
DmaIrq == IsrInactive \/ IsrEnter \/ IsrTransfer \/ IsrClear \/ IsrRender \/ IsrRecheck
Channel == ChannelCompletes \/ ChannelDrains \/ ChannelError

Next == MainLoop \/ UsbIrq \/ DmaIrq \/ Channel

Spec == Init /\ [][Next]_vars

\* Interrupts are taken and end.  The main loop gets on with a stop if it runs
\* again and again: the handler takes a fraction of the 1 ms of a block.
FairSpec == Spec /\ WF_vars(DmaIrq) /\ WF_vars(WriteEnd) /\ SF_vars(StopSteps)

-----------------------------------------------------------------------------
TypeOK ==
  /\ stream \in Epoch
  /\ active \in BOOLEAN
  /\ prepared \in BOOLEAN
  /\ fault \in BOOLEAN
  /\ gain \in BOOLEAN
  /\ queued \in SUBSET Epoch
  /\ content \in [Block -> SUBSET Epoch]
  /\ expected \in Block
  /\ main \in {"idle", "clear", "setup", "activate", "trigger", "stop", "spin", "reset"}
  /\ resetting \in BOOLEAN
  /\ usb \in Epoch \cup {NoPush}
  /\ isr \in {"idle", "transfer", "clear", "render", "recheck"}
  /\ blk \in Block
  /\ enabled \in BOOLEAN
  /\ busy \in BOOLEAN
  /\ head \in Block
  /\ flags \in SUBSET (Block \cup {"error"})
  /\ nvic \in BOOLEAN
  /\ fresh \in SUBSET Block
  /\ damaged \in BOOLEAN

(* Sound of an earlier format is never queued or played as sound of the    *)
(* current one: once a start has cleared the ring, the queue and the two   *)
(* blocks hold frames of the running epoch only, although the USB          *)
(* interrupt may bring packets of any epoch at any time.                   *)
OneEpoch ==
  main # "clear" /\ prepared =>
    queued \cup content["A"] \cup content["B"] \subseteq {stream}

(* The queue and the blocks are cleared by the main loop with interrupts   *)
(* on; meanwhile neither the channel nor a push nor a refill uses them.    *)
ClearExclusive ==
  main = "clear" => ~enabled /\ ~busy /\ usb = NoPush /\ isr = "idle"

(* A block that was played twice, or begun before its refill had ended, is *)
(* never overlooked: outside the interrupt its completion is still         *)
(* pending, or the ring is no longer active.                               *)
DamageDetected ==
  damaged /\ active /\ isr = "idle" => flags # {}

(* ... and the interrupt that finds it stops the ring, whatever the        *)
(* channel completes while the interrupt runs.                             *)
DamageStops == damaged ~> ~active

(* What usb_audio_ring.c:168 relies on, "Main finishes quiescence": a stop *)
(* that was begun ends.  It does not if the channel reports an error after *)
(* active was cleared and before the interrupt is disabled: the interrupt  *)
(* handler then returns without acknowledging it and is entered again.     *)
StopEnds == main = "stop" ~> main # "stop"
=============================================================================
