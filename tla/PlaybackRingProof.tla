-------------------------- MODULE PlaybackRingProof --------------------------
(***************************************************************************)
(* Proofs about the playback ring for any number of epochs, with and       *)
(* without errors of the DMA channel.                                      *)
(***************************************************************************)
EXTENDS PlaybackRing, TLAPS

\* A packet being pushed has the format of the stream: the main loop, which alone
\* changes the stream, waits for the push to end.
PushOfStream == usb \in {NoPush, stream}

\* The channel works only for a prepared ring, and is busy as long as it is enabled.
ChannelOwned == /\ enabled => busy
                /\ busy => prepared

\* The handler has been entered for an active ring, and leaves before it is stopped.
IsrOwned == isr # "idle" => active

\* What the main loop relies on while it starts or stops the ring.
Starting ==
  /\ main \in {"clear", "setup", "activate", "stop", "spin", "reset"} => ~active
  /\ main \in {"clear", "setup", "activate", "trigger"} => ~enabled /\ ~busy
  /\ main = "clear" => usb = NoPush
  /\ main \in {"setup", "activate", "trigger"} => prepared
  /\ main \in {"setup", "activate"} => fresh = Block /\ ~damaged /\ expected = "A"
  /\ main = "activate" /\ ~fault => flags = {} /\ head = "A"

\* While the ring is active, what the completions that are pending say of the channel: none,
\* and it plays the block due, both being filled; the one due, and it plays the other
\* block.  Where the handler is with it decides which is which.
Completed == flags \cap Block
InStep(x) == head = x /\ fresh = Block /\ ~damaged
OneBehind(x) == head = Other(x) /\ fresh = {Other(x)} /\ ~damaged
Pace ==
  active =>
    /\ isr = "idle" => /\ Completed = {} => InStep(expected)
                       /\ Completed = {expected} => OneBehind(expected)
    /\ isr \in {"transfer", "clear"} => /\ blk = expected /\ blk \in flags
                                        /\ Completed = {blk} => OneBehind(blk)
    /\ isr = "render" => blk = expected /\ (Completed = {} => OneBehind(blk))
    /\ isr = "recheck" => /\ expected = Other(blk)
                          /\ Completed = {} => InStep(Other(blk))

Control == PushOfStream /\ ChannelOwned /\ IsrOwned /\ Starting

RingInv == TypeOK /\ Control /\ OneEpoch /\ Pace

-----------------------------------------------------------------------------
\* The types of the variables, by who uses them.
RingTypes ==
  /\ stream \in Epoch /\ expected \in Block
  /\ active \in BOOLEAN /\ prepared \in BOOLEAN /\ fault \in BOOLEAN /\ gain \in BOOLEAN
  /\ queued \in SUBSET Epoch /\ content \in [Block -> SUBSET Epoch]
ContextTypes ==
  /\ main \in {"idle", "clear", "setup", "activate", "trigger", "stop", "spin", "reset"}
  /\ isr \in {"idle", "transfer", "clear", "render", "recheck"}
  /\ usb \in Epoch \cup {NoPush} /\ blk \in Block /\ resetting \in BOOLEAN
ChannelTypes ==
  /\ enabled \in BOOLEAN /\ busy \in BOOLEAN /\ nvic \in BOOLEAN /\ damaged \in BOOLEAN
  /\ head \in Block /\ flags \in SUBSET (Block \cup {"error"}) /\ fresh \in SUBSET Block

\* The variables keep their types.
LEMMA TypeStep ==
  ASSUME TypeOK, Next
  PROVE  TypeOK'
<1> USE DEF TypeOK, ringVars, mainVars, irqVars, dmaVars, obsVars
<1>1. RingTypes'
  <2>1. CASE MainLoop
    <3>1. CASE Start
      BY <3>1 DEF RingTypes, Block, Other, Start, StartFormat, Quiesced, Snapshot, StartClear,
         DmaSetup, Activate, Trigger
    <3>2. CASE StopSteps
      BY <3>2 DEF RingTypes, StopSteps, StopUnprepared, Stopped, StopDisable, StopSpun, ResetEnd
    <3>3. CASE ServoFails \/ \E on \in BOOLEAN : GainReady(on) \/ StopBegin(on)
      BY <3>3 DEF RingTypes, GainReady, ServoFails, StopBegin
    <3> QED
      BY <2>1, <3>1, <3>2, <3>3 DEF MainLoop
  <2>2. CASE UsbIrq
    BY <2>2 DEF RingTypes, Block, Other, UsbIrq, Write, WriteEnd
  <2>3. CASE DmaIrq
    <3>1. CASE IsrInactive \/ IsrEnter \/ IsrTransfer
      BY <3>1 DEF RingTypes, Block, Other, IsrInactive, IsrEnter, IsrTransfer, IsrFails
    <3>2. CASE IsrRender
      BY <3>2 DEF RingTypes, Block, Other, IsrRender
    <3>3. CASE IsrClear \/ IsrRecheck
      BY <3>3 DEF RingTypes, Block, Other, IsrClear, IsrRecheck, IsrFails
    <3> QED
      BY <2>3, <3>1, <3>2, <3>3 DEF DmaIrq
  <2>4. CASE Channel
    BY <2>4 DEF RingTypes, Block, Other, Channel, ChannelCompletes, ChannelDrains,
       ChannelError
  <2> QED
    BY <2>1, <2>2, <2>3, <2>4 DEF Next
<1>2. ContextTypes'
  <2>1. CASE MainLoop
    <3>1. CASE Start
      BY <3>1 DEF ContextTypes, Block, Other, Start, StartFormat, Quiesced, Snapshot, StartClear,
         DmaSetup, Activate, Trigger
    <3>2. CASE StopSteps
      BY <3>2 DEF ContextTypes, StopSteps, StopUnprepared, Stopped, StopDisable, StopSpun, ResetEnd
    <3>3. CASE ServoFails \/ \E on \in BOOLEAN : GainReady(on) \/ StopBegin(on)
      BY <3>3 DEF ContextTypes, GainReady, ServoFails, StopBegin
    <3> QED
      BY <2>1, <3>1, <3>2, <3>3 DEF MainLoop
  <2>2. CASE UsbIrq
    BY <2>2 DEF ContextTypes, Block, Other, UsbIrq, Write, WriteEnd
  <2>3. CASE DmaIrq
    <3>1. CASE IsrInactive \/ IsrEnter \/ IsrTransfer
      BY <3>1 DEF ContextTypes, Block, Other, IsrInactive, IsrEnter, IsrTransfer, IsrFails
    <3>2. CASE IsrClear \/ IsrRender \/ IsrRecheck
      BY <3>2 DEF ContextTypes, Block, Other, IsrClear, IsrRender, IsrRecheck, IsrFails
    <3> QED
      BY <2>3, <3>1, <3>2 DEF DmaIrq
  <2>4. CASE Channel
    BY <2>4 DEF ContextTypes, Block, Other, Channel, ChannelCompletes, ChannelDrains,
       ChannelError
  <2> QED
    BY <2>1, <2>2, <2>3, <2>4 DEF Next
<1>3. ChannelTypes'
  <2>1. CASE MainLoop
    <3>1. CASE Start
      BY <3>1 DEF ChannelTypes, Block, Other, Start, StartFormat, Quiesced, Snapshot, StartClear,
         DmaSetup, Activate, Trigger
    <3>2. CASE StopSteps
      BY <3>2 DEF ChannelTypes, StopSteps, StopUnprepared, Stopped, StopDisable, StopSpun, ResetEnd
    <3>3. CASE ServoFails \/ \E on \in BOOLEAN : GainReady(on) \/ StopBegin(on)
      BY <3>3 DEF ChannelTypes, GainReady, ServoFails, StopBegin
    <3> QED
      BY <2>1, <3>1, <3>2, <3>3 DEF MainLoop
  <2>2. CASE UsbIrq
    BY <2>2 DEF ChannelTypes, Block, Other, UsbIrq, Write, WriteEnd
  <2>3. CASE DmaIrq
    <3>1. CASE IsrInactive \/ IsrEnter \/ IsrTransfer
      BY <3>1 DEF ChannelTypes, Block, Other, IsrInactive, IsrEnter, IsrTransfer, IsrFails
    <3>2. CASE IsrClear \/ IsrRender \/ IsrRecheck
      BY <3>2 DEF ChannelTypes, Block, Other, IsrClear, IsrRender, IsrRecheck, IsrFails
    <3> QED
      BY <2>3, <3>1, <3>2 DEF DmaIrq
  <2>4. CASE Channel
    BY <2>4 DEF ChannelTypes, Block, Other, Channel, ChannelCompletes, ChannelDrains,
       ChannelError
  <2> QED
    BY <2>1, <2>2, <2>3, <2>4 DEF Next
<1> QED
  BY <1>1, <1>2, <1>3 DEF RingTypes, ContextTypes, ChannelTypes

\* The contexts keep out of each other's way.
LEMMA ControlStep ==
  ASSUME TypeOK, Control, Next
  PROVE  Control'
<1> USE DEF TypeOK, Control, PushOfStream, ChannelOwned, IsrOwned, Starting, Epoch, Block,
       NoPush, Other,
           MainRuns, UsbRuns, IsrPending, ringVars, mainVars, irqVars, dmaVars, obsVars
<1>1. CASE MainLoop
  <2>1. ASSUME NEW e \in Epoch, StartFormat(e)
        PROVE  Control'
    BY <2>1 DEF StartFormat, Quiesced, Snapshot
  <2>2. CASE StartClear
    BY <2>2 DEF StartClear
  <2>3. CASE DmaSetup
    BY <2>3 DEF DmaSetup
  <2>4. CASE Activate
    BY <2>4 DEF Activate
  <2>5. CASE Trigger
    BY <2>5 DEF Trigger
  <2>6. ASSUME NEW on \in BOOLEAN, GainReady(on)
        PROVE  Control'
    BY <2>6 DEF GainReady
  <2>7. CASE ServoFails
    BY <2>7 DEF ServoFails
  <2>8. ASSUME NEW forReset \in BOOLEAN, StopBegin(forReset)
        PROVE  Control'
    BY <2>8 DEF StopBegin
  <2>9. CASE StopUnprepared
    BY <2>9 DEF StopUnprepared, Stopped
  <2>10. CASE StopDisable
    BY <2>10 DEF StopDisable
  <2>11. CASE StopSpun
    BY <2>11 DEF StopSpun, Stopped
  <2>12. CASE ResetEnd
    BY <2>12 DEF ResetEnd
  <2> QED
    BY <1>1, <2>1, <2>2, <2>3, <2>4, <2>5, <2>6, <2>7, <2>8, <2>9, <2>10, <2>11,
       <2>12 DEF MainLoop, Start, StopSteps
<1>2. CASE UsbIrq
  <2>1. ASSUME NEW e \in Epoch, Write(e)
        PROVE  Control'
    BY <2>1 DEF Write
  <2>2. CASE WriteEnd
    BY <2>2 DEF WriteEnd
  <2> QED
    BY <1>2, <2>1, <2>2 DEF UsbIrq
<1>3. CASE DmaIrq
  <2>1. CASE IsrInactive
    BY <2>1 DEF IsrInactive
  <2>2. CASE IsrEnter
    BY <2>2 DEF IsrEnter, IsrFails
  <2>3. CASE IsrTransfer
    <3>1. CASE isr' = "clear"
      BY <2>3, <3>1 DEF IsrTransfer, IsrFails
    <3>2. CASE isr' = "idle" /\ ~active' /\ ~enabled'
      BY <2>3, <3>2 DEF IsrTransfer, IsrFails
    <3> QED
      BY <2>3, <3>1, <3>2 DEF IsrTransfer, IsrFails
  <2>4. CASE IsrClear
    BY <2>4 DEF IsrClear
  <2>5. CASE IsrRender
    BY <2>5 DEF IsrRender
  <2>6. CASE IsrRecheck
    BY <2>6 DEF IsrRecheck, IsrFails
  <2> QED
    BY <1>3, <2>1, <2>2, <2>3, <2>4, <2>5, <2>6 DEF DmaIrq
<1>4. CASE Channel
  <2>1. CASE ChannelCompletes
    BY <2>1 DEF ChannelCompletes
  <2>2. CASE ChannelDrains
    BY <2>2 DEF ChannelDrains
  <2>3. CASE ChannelError
    BY <2>3 DEF ChannelError
  <2> QED
    BY <1>4, <2>1, <2>2, <2>3 DEF Channel
<1> QED
  BY <1>1, <1>2, <1>3, <1>4 DEF Next

\* Frames of another epoch do not come in.
LEMMA EpochStep ==
  ASSUME TypeOK, Control, OneEpoch, Next
  PROVE  OneEpoch'
<1> USE DEF TypeOK, Control, PushOfStream, OneEpoch, Block, NoPush,
           MainRuns, UsbRuns, ringVars, mainVars, irqVars, dmaVars, obsVars
<1>1. CASE MainLoop
  <2>1. ASSUME NEW e \in Epoch, StartFormat(e)
        PROVE  OneEpoch'
    BY <2>1 DEF StartFormat, Quiesced, Snapshot
  <2>2. CASE StartClear
    BY <2>2 DEF StartClear
  <2>3. CASE DmaSetup
    BY <2>3 DEF DmaSetup
  <2>4. CASE Activate
    BY <2>4 DEF Activate
  <2>5. CASE Trigger
    BY <2>5 DEF Trigger
  <2>6. ASSUME NEW on \in BOOLEAN, GainReady(on)
        PROVE  OneEpoch'
    BY <2>6 DEF GainReady
  <2>7. CASE ServoFails
    BY <2>7 DEF ServoFails
  <2>8. ASSUME NEW forReset \in BOOLEAN, StopBegin(forReset)
        PROVE  OneEpoch'
    BY <2>8 DEF StopBegin
  <2>9. CASE StopUnprepared
    BY <2>9 DEF StopUnprepared, Stopped
  <2>10. CASE StopDisable
    BY <2>10 DEF StopDisable
  <2>11. CASE StopSpun
    BY <2>11 DEF StopSpun, Stopped
  <2>12. CASE ResetEnd
    BY <2>12 DEF ResetEnd
  <2> QED
    BY <1>1, <2>1, <2>2, <2>3, <2>4, <2>5, <2>6, <2>7, <2>8, <2>9, <2>10, <2>11,
       <2>12 DEF MainLoop, Start, StopSteps
<1>2. CASE UsbIrq
  <2>1. ASSUME NEW e \in Epoch, Write(e)
        PROVE  OneEpoch'
    BY <2>1 DEF Write
  <2>2. CASE WriteEnd
    BY <2>2 DEF WriteEnd
  <2> QED
    BY <1>2, <2>1, <2>2 DEF UsbIrq
<1>3. CASE DmaIrq
  <2>1. CASE IsrInactive
    BY <2>1 DEF IsrInactive
  <2>2. CASE IsrEnter
    BY <2>2 DEF IsrEnter, IsrFails
  <2>3. CASE IsrTransfer
    BY <2>3 DEF IsrTransfer, IsrFails
  <2>4. CASE IsrClear
    BY <2>4 DEF IsrClear
  <2>5. CASE IsrRender
    <3>1. PICK taken \in SUBSET queued :
             content' = [content EXCEPT ![blk] = IF gain THEN taken ELSE {}]
      BY <2>5 DEF IsrRender
    <3>2. content'["A"] \subseteq content["A"] \cup queued /\ content'["B"] \subseteq content["B"] \cup queued
      BY <3>1
    <3>3. queued' \subseteq queued /\ UNCHANGED <<main, prepared, stream>>
      BY <2>5 DEF IsrRender
    <3> QED
      BY <3>2, <3>3
  <2>6. CASE IsrRecheck
    BY <2>6 DEF IsrRecheck, IsrFails
  <2> QED
    BY <1>3, <2>1, <2>2, <2>3, <2>4, <2>5, <2>6 DEF DmaIrq
<1>4. CASE Channel
  <2>1. CASE ChannelCompletes
    BY <2>1 DEF ChannelCompletes
  <2>2. CASE ChannelDrains
    BY <2>2 DEF ChannelDrains
  <2>3. CASE ChannelError
    BY <2>3 DEF ChannelError
  <2> QED
    BY <1>4, <2>1, <2>2, <2>3 DEF Channel
<1> QED
  BY <1>1, <1>2, <1>3, <1>4 DEF Next

\* The handler keeps pace with the channel, or the ring is stopped.
LEMMA PaceStep ==
  ASSUME TypeOK, Control, Pace, Next
  PROVE  Pace'
<1> USE DEF TypeOK, Control, IsrOwned, Starting, Pace, Completed, InStep, OneBehind, Block,
       Other,
           MainRuns, UsbRuns, IsrPending, ringVars, mainVars, irqVars, dmaVars, obsVars
<1>1. CASE MainLoop
  <2>1. ASSUME NEW e \in Epoch, StartFormat(e)
        PROVE  Pace'
    BY <2>1 DEF StartFormat, Quiesced, Snapshot
  <2>2. CASE StartClear
    BY <2>2 DEF StartClear
  <2>3. CASE DmaSetup
    BY <2>3 DEF DmaSetup
  <2>4. CASE Activate
    BY <2>4 DEF Activate
  <2>5. CASE Trigger
    BY <2>5 DEF Trigger
  <2>6. ASSUME NEW on \in BOOLEAN, GainReady(on)
        PROVE  Pace'
    BY <2>6 DEF GainReady
  <2>7. CASE ServoFails
    BY <2>7 DEF ServoFails
  <2>8. ASSUME NEW forReset \in BOOLEAN, StopBegin(forReset)
        PROVE  Pace'
    BY <2>8 DEF StopBegin
  <2>9. CASE StopUnprepared
    BY <2>9 DEF StopUnprepared, Stopped
  <2>10. CASE StopDisable
    BY <2>10 DEF StopDisable
  <2>11. CASE StopSpun
    BY <2>11 DEF StopSpun, Stopped
  <2>12. CASE ResetEnd
    BY <2>12 DEF ResetEnd
  <2> QED
    BY <1>1, <2>1, <2>2, <2>3, <2>4, <2>5, <2>6, <2>7, <2>8, <2>9, <2>10, <2>11,
       <2>12 DEF MainLoop, Start, StopSteps
<1>2. CASE UsbIrq
  <2>1. ASSUME NEW e \in Epoch, Write(e)
        PROVE  Pace'
    BY <2>1 DEF Write
  <2>2. CASE WriteEnd
    BY <2>2 DEF WriteEnd
  <2> QED
    BY <1>2, <2>1, <2>2 DEF UsbIrq
<1>3. CASE DmaIrq
  <2>1. CASE IsrInactive
    BY <2>1 DEF IsrInactive
  <2>2. CASE IsrEnter
    BY <2>2 DEF IsrEnter, IsrFails
  <2>3. CASE IsrTransfer
    BY <2>3 DEF IsrTransfer, IsrFails
  <2>4. CASE IsrClear
    BY <2>4 DEF IsrClear
  <2>5. CASE IsrRender
    BY <2>5 DEF IsrRender
  <2>6. CASE IsrRecheck
    BY <2>6 DEF IsrRecheck, IsrFails
  <2> QED
    BY <1>3, <2>1, <2>2, <2>3, <2>4, <2>5, <2>6 DEF DmaIrq
<1>4. CASE Channel
  <2>1. CASE ChannelCompletes
    BY <2>1 DEF ChannelCompletes
  <2>2. CASE ChannelDrains
    BY <2>2 DEF ChannelDrains
  <2>3. CASE ChannelError
    BY <2>3 DEF ChannelError
  <2> QED
    BY <1>4, <2>1, <2>2, <2>3 DEF Channel
<1> QED
  BY <1>1, <1>2, <1>3, <1>4 DEF Next

-----------------------------------------------------------------------------
LEMMA RingInit == Init => RingInv
<1> SUFFICES ASSUME Init
             PROVE  RingInv
  OBVIOUS
<1>1. 1 \in Epoch
  BY EpochsAssumption DEF Epoch
<1>2. TypeOK
  BY <1>1 DEF Init, TypeOK, Block
<1>3. Control /\ OneEpoch
  BY DEF Init, Control, PushOfStream, ChannelOwned, IsrOwned, Starting, OneEpoch, NoPush, Block
<1>4. Pace
  BY DEF Init, Pace
<1> QED
  BY <1>2, <1>3, <1>4 DEF RingInv

LEMMA RingStep == RingInv /\ [Next]_vars => RingInv'
<1>1. RingInv /\ Next => RingInv'
  BY TypeStep, ControlStep, EpochStep, PaceStep DEF RingInv
<1>2. RingInv /\ UNCHANGED vars => RingInv'
  BY DEF vars, ringVars, mainVars, irqVars, dmaVars, obsVars, RingInv, TypeOK, Control,
     PushOfStream, ChannelOwned, IsrOwned, Starting, OneEpoch, Pace, Completed, InStep, OneBehind
<1> QED
  BY <1>1, <1>2

\* What the invariant says of the properties: a clear has the ring to itself as the handler
\* is out of an inactive ring, and a damaged ring that is still active has a completion
\* pending, as the channel would otherwise be in step.
LEMMA RingSafe == RingInv => ClearExclusive /\ DamageDetected
<1>1. RingInv => ClearExclusive
  BY DEF RingInv, Control, IsrOwned, Starting, ClearExclusive
<1>2. RingInv => DamageDetected
  BY DEF RingInv, Pace, Completed, InStep, DamageDetected
<1> QED
  BY <1>1, <1>2

(* Whatever the three contexts and the channel do between two steps of each *)
(* other, for any number of formats: the variables keep their types, what   *)
(* is queued and played is of the stream's epoch, the clear of a start has  *)
(* the ring to itself, and a block that was played without a refill is      *)
(* noticed as long as the ring is active (usb_audio_ring.c 60-240).         *)
THEOREM RingCorrect == Spec => [](TypeOK /\ OneEpoch /\ ClearExclusive /\ DamageDetected)
<1>1. Init => RingInv
  BY RingInit
<1>2. RingInv /\ [Next]_vars => RingInv'
  BY RingStep
<1>3. RingInv => TypeOK /\ OneEpoch /\ ClearExclusive /\ DamageDetected
  BY RingSafe DEF RingInv
<1> QED
  BY <1>1, <1>2, <1>3, PTL DEF Spec
=============================================================================
