----------------------- MODULE PlaybackLifecycleProof -----------------------
(***************************************************************************)
(* Proofs about the start and stop of the audio streams for any number and *)
(* order of the host's requests.                                           *)
(***************************************************************************)
EXTENDS PlaybackLifecycle, FiniteSetTheorems, TLAPS

\* Every selection of a stream is a request of the host, so that formats never repeat.
Counted == epoch <= changes

\* UART3 has no two users, and has been started exactly if it has one.
Held == pb \in {"handshake", "quiesce"}
Exclusive ==
  /\ Held => ~gainOpen /\ capStage # "running" /\ probeStage # "running"
  /\ gainOpen => capStage # "running" /\ probeStage # "running"
  /\ capStage = "running" => probeStage # "running"
Owned == uart = (Held \/ gainOpen \/ capStage = "running" \/ probeStage = "running")

\* A stream is only started once both probes had finished: the host may have asked for
\* another since, but a probe only starts in its own poll.
ProbesOff == pc = "act" /\ snap.want => capStage # "running" /\ probeStage # "running"

UartInv == Exclusive /\ Owned /\ ProbesOff

\* While playback_service is under way, what it has read is no older than the format it
\* runs and the one that failed, and the host may be ahead of it.
InService == pc \in {"want", "plan", "act", "ring"}
Blamed == failedEpoch # NoEpoch
Past == /\ snap.epoch <= epoch
        /\ pbEpoch <= epoch
        /\ Blamed => failedEpoch <= epoch
        /\ InService => pbEpoch <= snap.epoch /\ (Blamed => failedEpoch <= snap.epoch)
        /\ pb # "idle" /\ Blamed => failedEpoch <= pbEpoch
        /\ pc = "act" /\ pb # "idle" => snap.epoch = pbEpoch

\* A failure is forgiven once all streams have been closed since, or the host has selected
\* another format, or wants its firmware updated.
Forgiven == closed \/ recovery \/ (Blamed => failedEpoch < epoch)

\* What the reads of playback_service, made one by one, say of the host at the end.
Seen == /\ ~HostOpen => closed
        /\ pc = "want" /\ ~snap.stream => ~(configured /\ playing) \/ snap.epoch < epoch
        /\ pc = "plan" /\ ~snap.want => closed \/ recovery \/ snap.epoch < epoch

\* Playback only comes to rest with a failure that is forgiven, and the stream it starts
\* then is one that it was forgiven for.
Rest == /\ pb = "idle" => Forgiven
        /\ pb = "quiesce" /\ ~stopFault => Forgiven
        /\ pc = "want" /\ pb = "idle" => snap.epoch # failedEpoch \/ closed \/ recovery
        /\ pc \in {"plan", "act"} /\ pb = "idle" /\ snap.want =>
             snap.epoch # failedEpoch \/ closed

LifecycleInv == TypeOK /\ Counted /\ UartInv /\ RingOfStream /\ Past /\ Seen /\ Rest

-----------------------------------------------------------------------------
\* The types of the variables, by who writes them.
HostTypes ==
  /\ configured \in BOOLEAN /\ recovery \in BOOLEAN
  /\ playing \in BOOLEAN /\ mic \in BOOLEAN
  /\ trouble \in {"none", "opening", "closing", "iso"}
CountTypes == epoch \in Epoch /\ changes \in 0..MaxChanges /\ epoch <= changes
PortTypes ==
  /\ capStage \in {"none", "requested", "running", "finished"}
  /\ probeStage \in {"none", "requested", "prepared", "running", "finished"}
  /\ gainOpen \in BOOLEAN /\ gainBusy \in BOOLEAN /\ gainFault \in BOOLEAN
  /\ yielding \in BOOLEAN /\ uart \in BOOLEAN
LoopTypes ==
  /\ pc \in {"allowCapture", "capture", "stream", "want", "plan", "act", "ring", "gate",
             "gain", "allowProbe", "probe"}
  /\ allowed \in BOOLEAN
  /\ snap \in [stream : BOOLEAN, epoch : Epoch, capture : BOOLEAN, want : BOOLEAN]
ModeTypes ==
  /\ pb \in {"idle", "handshake", "running", "fault", "quiesce"}
  /\ mode \in {"before", "configured", "complete", "failed", "drained"}
  /\ clock \in {"ready", "failed", "blocked"}
EpochTypes ==
  /\ snap.epoch \in Epoch
  /\ pbEpoch \in Epoch /\ ringEpoch \in Epoch /\ failedEpoch \in Epoch \cup {NoEpoch}
StreamTypes ==
  /\ stopFault \in BOOLEAN /\ micOn \in BOOLEAN /\ ringOn \in BOOLEAN
  /\ ringFault \in BOOLEAN /\ prepared \in BOOLEAN /\ closed \in BOOLEAN

\* Every end of a stream stops the ring and the microphone.
LEMMA RingStops ==
  /\ Teardown => ringOn' = FALSE /\ micOn' = FALSE
  /\ \A fault \in BOOLEAN : Drain(fault) => /\ ringOn' = FALSE /\ micOn' = FALSE
                                         /\ pb' = "quiesce" /\ stopFault' = fault
                                         /\ pbEpoch' = pbEpoch
  BY DEF Teardown, Drain, RingStop

\* The number of the first format.
LEMMA FirstEpoch == 0 \in Epoch
  BY ChangesAssumption DEF Epoch

\* The USB interrupt's own state.
LEMMA HostTypesStep ==
  ASSUME HostTypes, Next
  PROVE  HostTypes'
<1> USE DEF HostTypes, hostVars, probeVars, gainVars, ringVars, pbVars
<1>1. CASE Host
  <2>1. CASE SelectPlayback
    BY <2>1 DEF SelectPlayback, Served
  <2>2. CASE ClosePlayback
    BY <2>2 DEF ClosePlayback, Served
  <2>3. ASSUME NEW on \in BOOLEAN, SelectMicrophone(on)
        PROVE  HostTypes'
    BY <2>3 DEF SelectMicrophone, Served
  <2>4. ASSUME NEW next \in BOOLEAN, SetConfiguration(next)
        PROVE  HostTypes'
    BY <2>4 DEF SetConfiguration, Served
  <2>5. CASE BusReset
    BY <2>5 DEF BusReset, Served
  <2>6. CASE RequestCapture
    BY <2>6 DEF RequestCapture, Served
  <2>7. CASE RequestProbe
    BY <2>7 DEF RequestProbe, Served
  <2>8. CASE RequestRecovery
    BY <2>8 DEF RequestRecovery, Served
  <2> QED
    BY <1>1, <2>1, <2>2, <2>3, <2>4, <2>5, <2>6, <2>7, <2>8 DEF Host
<1>2. CASE IsoFails \/ RingFails
  BY <1>2 DEF IsoFails, RingFails
<1>3. CASE Probes
  BY <1>3 DEF Probes, AllowCapture, CapturePoll, AllowProbe, ProbePoll, ReleasePending,
     Released, Taken
<1>4. CASE Playback
  <2>1. CASE Handshake
    BY <2>1 DEF Handshake, HandshakeWaits, HandshakeConfigures, HandshakeCompletes,
       HandshakeFails, Blame, Changed, Drain, Fault, Latch, NoBlame, Ready, RingStop, Teardown
  <2>2. CASE Quiescing \/ GiveUpStream \/ Plan \/ StreamFailed
    BY <2>2 DEF Quiescing, GiveUpStream, Plan, StreamFailed, Blame, Changed, Drain, Fault,
       Latch, NoBlame, Ready, RingStop, Teardown
  <2>3. CASE ReadStream \/ ReadWant \/ WaitForGain \/ StartStream
    BY <2>3 DEF ReadStream, ReadWant, WaitForGain, StartStream, Blame, Fault, Latch, NoBlame,
       Ready, Taken, Released, ReleasePending
  <2>4. CASE ActOtherwise \/ RingFaulted \/ Microphone
    BY <2>4 DEF ActOtherwise, RingFaulted, Microphone, Blame, Changed, Drain, Fault, Latch,
       NoBlame, RingStop, Teardown
  <2> QED
    BY <1>4, <2>1, <2>2, <2>3, <2>4 DEF Playback
<1>5. CASE Gate \/ Gain
  BY <1>5 DEF Gate, Gain, ReleasePending, Released, Taken
<1> QED
  BY <1>1, <1>2, <1>3, <1>4, <1>5 DEF Next, Main

\* The host's requests are counted, and each selects one format at most.
LEMMA CountTypesStep ==
  ASSUME CountTypes, Next
  PROVE  CountTypes'
<1> USE ChangesAssumption DEF CountTypes, Epoch, hostVars, probeVars, gainVars, ringVars,
    pbVars
<1>1. CASE Host
  <2>1. CASE SelectPlayback
    BY <2>1 DEF SelectPlayback, Served
  <2>2. CASE ClosePlayback
    BY <2>2 DEF ClosePlayback, Served
  <2>3. ASSUME NEW on \in BOOLEAN, SelectMicrophone(on)
        PROVE  CountTypes'
    BY <2>3 DEF SelectMicrophone, Served
  <2>4. ASSUME NEW next \in BOOLEAN, SetConfiguration(next)
        PROVE  CountTypes'
    BY <2>4 DEF SetConfiguration, Served
  <2>5. CASE BusReset
    BY <2>5 DEF BusReset, Served
  <2>6. CASE RequestCapture
    BY <2>6 DEF RequestCapture, Served
  <2>7. CASE RequestProbe
    BY <2>7 DEF RequestProbe, Served
  <2>8. CASE RequestRecovery
    BY <2>8 DEF RequestRecovery, Served
  <2> QED
    BY <1>1, <2>1, <2>2, <2>3, <2>4, <2>5, <2>6, <2>7, <2>8 DEF Host
<1>2. CASE IsoFails \/ RingFails
  BY <1>2 DEF IsoFails, RingFails
<1>3. CASE Probes
  BY <1>3 DEF Probes, AllowCapture, CapturePoll, AllowProbe, ProbePoll, ReleasePending,
     Released, Taken
<1>4. CASE Playback
  <2>1. CASE Handshake
    BY <2>1 DEF Handshake, HandshakeWaits, HandshakeConfigures, HandshakeCompletes,
       HandshakeFails, Blame, Changed, Drain, Fault, Latch, NoBlame, Ready, RingStop, Teardown
  <2>2. CASE Quiescing \/ GiveUpStream \/ Plan \/ StreamFailed
    BY <2>2 DEF Quiescing, GiveUpStream, Plan, StreamFailed, Blame, Changed, Drain, Fault,
       Latch, NoBlame, Ready, RingStop, Teardown
  <2>3. CASE ReadStream \/ ReadWant \/ WaitForGain \/ StartStream
    BY <2>3 DEF ReadStream, ReadWant, WaitForGain, StartStream, Blame, Fault, Latch, NoBlame,
       Ready, Taken, Released, ReleasePending
  <2>4. CASE ActOtherwise \/ RingFaulted \/ Microphone
    BY <2>4 DEF ActOtherwise, RingFaulted, Microphone, Blame, Changed, Drain, Fault, Latch,
       NoBlame, RingStop, Teardown
  <2> QED
    BY <1>4, <2>1, <2>2, <2>3, <2>4 DEF Playback
<1>5. CASE Gate \/ Gain
  BY <1>5 DEF Gate, Gain, ReleasePending, Released, Taken
<1> QED
  BY <1>1, <1>2, <1>3, <1>4, <1>5 DEF Next, Main

\* The users of UART3.
LEMMA PortTypesStep ==
  ASSUME PortTypes, Next
  PROVE  PortTypes'
<1> USE DEF PortTypes, hostVars, probeVars, gainVars, ringVars, pbVars
<1>1. CASE Host
  <2>1. CASE SelectPlayback \/ ClosePlayback
    BY <2>1 DEF SelectPlayback, ClosePlayback, Served
  <2>3. CASE \E on \in BOOLEAN : SelectMicrophone(on) \/ SetConfiguration(on)
    BY <2>3 DEF SelectMicrophone, SetConfiguration, Served
  <2>2. CASE BusReset \/ RequestCapture \/ RequestProbe \/ RequestRecovery
    BY <2>2 DEF BusReset, RequestCapture, RequestProbe, RequestRecovery, Served
  <2> QED
    BY <1>1, <2>1, <2>2, <2>3 DEF Host
<1>2. CASE IsoFails \/ RingFails
  BY <1>2 DEF IsoFails, RingFails
<1>3. CASE Probes
  BY <1>3 DEF Probes, AllowCapture, CapturePoll, AllowProbe, ProbePoll, ReleasePending,
     Released, Taken
<1>4. CASE Playback
  <2>1. CASE Handshake
    BY <2>1 DEF Handshake, HandshakeWaits, HandshakeConfigures, HandshakeCompletes,
       HandshakeFails, Blame, Changed, Drain, Fault, Latch, NoBlame, Ready, RingStop, Teardown
  <2>2. CASE Quiescing \/ GiveUpStream \/ Plan \/ StreamFailed
    BY <2>2 DEF Quiescing, GiveUpStream, Plan, StreamFailed, Blame, Changed, Drain, Fault,
       Latch, NoBlame, Ready, RingStop, Teardown
  <2>3. CASE ReadStream \/ ReadWant \/ WaitForGain \/ StartStream
    BY <2>3 DEF ReadStream, ReadWant, WaitForGain, StartStream, Blame, Fault, Latch, NoBlame,
       Ready, Taken, Released, ReleasePending
  <2>4. CASE ActOtherwise \/ RingFaulted \/ Microphone
    BY <2>4 DEF ActOtherwise, RingFaulted, Microphone, Blame, Changed, Drain, Fault, Latch,
       NoBlame, RingStop, Teardown
  <2> QED
    BY <1>4, <2>1, <2>2, <2>3, <2>4 DEF Playback
<1>5. CASE Gate \/ Gain
  BY <1>5 DEF Gate, Gain, ReleasePending, Released, Taken
<1> QED
  BY <1>1, <1>2, <1>3, <1>4, <1>5 DEF Next, Main

\* What the main loop has read.
LEMMA LoopTypesStep ==
  ASSUME HostTypes, CountTypes, LoopTypes, Next
  PROVE  LoopTypes'
<1> USE FirstEpoch DEF LoopTypes, HostTypes, CountTypes, Allowed, NoSnap, hostVars,
    probeVars, gainVars, ringVars, pbVars
<1>1. CASE Host
  BY <1>1 DEF Host, SelectPlayback, ClosePlayback, SelectMicrophone, SetConfiguration,
     BusReset, RequestCapture, RequestProbe, RequestRecovery, Served
<1>2. CASE IsoFails \/ RingFails
  BY <1>2 DEF IsoFails, RingFails
<1>3. CASE Probes
  BY <1>3 DEF Probes, AllowCapture, CapturePoll, AllowProbe, ProbePoll, ReleasePending,
     Released, Taken
<1>4. CASE Playback
  <2>1. CASE Handshake
    BY <2>1 DEF Handshake, HandshakeWaits, HandshakeConfigures, HandshakeCompletes,
       HandshakeFails, Blame, Changed, Drain, Fault, Latch, NoBlame, Ready, RingStop, Teardown
  <2>2. CASE Quiescing \/ GiveUpStream \/ Plan \/ StreamFailed
    BY <2>2 DEF Quiescing, GiveUpStream, Plan, StreamFailed, Blame, Changed, Drain, Fault,
       Latch, NoBlame, Ready, RingStop, Teardown
  <2>3. CASE ReadStream \/ ReadWant \/ WaitForGain \/ StartStream
    BY <2>3 DEF ReadStream, ReadWant, WaitForGain, StartStream, Blame, Fault, Latch, NoBlame,
       Ready, Taken, Released, ReleasePending
  <2>4. CASE ActOtherwise \/ RingFaulted \/ Microphone
    BY <2>4 DEF ActOtherwise, RingFaulted, Microphone, Blame, Changed, Drain, Fault, Latch,
       NoBlame, RingStop, Teardown
  <2> QED
    BY <1>4, <2>1, <2>2, <2>3, <2>4 DEF Playback
<1>5. CASE Gate \/ Gain
  <2>1. CASE Gate
    BY <2>1 DEF Gate
  <2>2. CASE Gain
    BY <2>2 DEF Gain
  <2> QED
    BY <1>5, <2>1, <2>2
<1> QED
  BY <1>1, <1>2, <1>3, <1>4, <1>5 DEF Next, Main

\* How far playback has come.
LEMMA ModeTypesStep ==
  ASSUME ModeTypes, Next
  PROVE  ModeTypes'
<1> USE DEF ModeTypes, hostVars, probeVars, gainVars, ringVars, pbVars
<1>1. CASE Host
  BY <1>1 DEF Host, SelectPlayback, ClosePlayback, SelectMicrophone, SetConfiguration,
     BusReset, RequestCapture, RequestProbe, RequestRecovery, Served
<1>2. CASE IsoFails \/ RingFails
  BY <1>2 DEF IsoFails, RingFails
<1>3. CASE Probes
  BY <1>3 DEF Probes, AllowCapture, CapturePoll, AllowProbe, ProbePoll, ReleasePending,
     Released, Taken
<1>4. CASE Playback
  <2>1. CASE Handshake
    BY <2>1 DEF Handshake, HandshakeWaits, HandshakeConfigures, HandshakeCompletes,
       HandshakeFails, Blame, Changed, Drain, Fault, Latch, NoBlame, Ready, RingStop, Teardown
  <2>2. CASE Quiescing \/ GiveUpStream \/ Plan \/ StreamFailed
    BY <2>2 DEF Quiescing, GiveUpStream, Plan, StreamFailed, Blame, Changed, Drain, Fault,
       Latch, NoBlame, Ready, RingStop, Teardown
  <2>3. CASE ReadStream \/ ReadWant \/ WaitForGain \/ StartStream
    BY <2>3 DEF ReadStream, ReadWant, WaitForGain, StartStream, Blame, Fault, Latch, NoBlame,
       Ready, Taken, Released, ReleasePending
  <2>4. CASE ActOtherwise \/ RingFaulted \/ Microphone
    BY <2>4 DEF ActOtherwise, RingFaulted, Microphone, Blame, Changed, Drain, Fault, Latch,
       NoBlame, RingStop, Teardown
  <2> QED
    BY <1>4, <2>1, <2>2, <2>3, <2>4 DEF Playback
<1>5. CASE Gate \/ Gain
  BY <1>5 DEF Gate, Gain, ReleasePending, Released, Taken
<1> QED
  BY <1>1, <1>2, <1>3, <1>4, <1>5 DEF Next, Main

\* The formats that are kept.
LEMMA EpochTypesStep ==
  ASSUME CountTypes, LoopTypes, EpochTypes, Next
  PROVE  EpochTypes'
<1> USE FirstEpoch DEF EpochTypes, CountTypes, LoopTypes, NoSnap, hostVars, probeVars,
    gainVars, ringVars, pbVars
<1>1. CASE Host
  BY <1>1 DEF Host, SelectPlayback, ClosePlayback, SelectMicrophone, SetConfiguration,
     BusReset, RequestCapture, RequestProbe, RequestRecovery, Served
<1>2. CASE IsoFails \/ RingFails
  BY <1>2 DEF IsoFails, RingFails
<1>3. CASE Probes
  BY <1>3 DEF Probes, AllowCapture, CapturePoll, AllowProbe, ProbePoll, ReleasePending,
     Released, Taken
<1>4. CASE Playback
  <2>1. CASE Handshake
    BY <2>1 DEF Handshake, HandshakeWaits, HandshakeConfigures, HandshakeCompletes,
       HandshakeFails, Blame, Changed, Drain, Fault, Latch, NoBlame, Ready, RingStop, Teardown
  <2>2. CASE Quiescing \/ GiveUpStream \/ Plan \/ StreamFailed
    BY <2>2 DEF Quiescing, GiveUpStream, Plan, StreamFailed, Blame, Changed, Drain, Fault,
       Latch, NoBlame, Ready, RingStop, Teardown
  <2>3. CASE ReadStream \/ ReadWant \/ WaitForGain \/ StartStream
    BY <2>3 DEF ReadStream, ReadWant, WaitForGain, StartStream, Blame, Fault, Latch, NoBlame,
       Ready, Taken, Released, ReleasePending
  <2>4. CASE ActOtherwise \/ RingFaulted \/ Microphone
    BY <2>4 DEF ActOtherwise, RingFaulted, Microphone, Blame, Changed, Drain, Fault, Latch,
       NoBlame, RingStop, Teardown
  <2> QED
    BY <1>4, <2>1, <2>2, <2>3, <2>4 DEF Playback
<1>5. CASE Gate \/ Gain
  <2>1. CASE Gate
    BY <2>1 DEF Gate
  <2>2. CASE Gain
    BY <2>2 DEF Gain
  <2> QED
    BY <1>5, <2>1, <2>2
<1> QED
  BY <1>1, <1>2, <1>3, <1>4, <1>5 DEF Next, Main

\* The ring and the microphone.
LEMMA StreamTypesStep ==
  ASSUME HostTypes, LoopTypes, StreamTypes, Next
  PROVE  StreamTypes'
<1> USE DEF StreamTypes, HostTypes, LoopTypes, HostOpen, hostVars, probeVars, gainVars,
    ringVars, pbVars
<1>1. CASE Host
  BY <1>1 DEF Host, SelectPlayback, ClosePlayback, SelectMicrophone, SetConfiguration,
     BusReset, RequestCapture, RequestProbe, RequestRecovery, Served
<1>2. CASE IsoFails \/ RingFails
  BY <1>2 DEF IsoFails, RingFails
<1>3. CASE Probes
  BY <1>3 DEF Probes, AllowCapture, CapturePoll, AllowProbe, ProbePoll, ReleasePending,
     Released, Taken
<1>4. CASE Playback
  <2>1. CASE Handshake
    BY <2>1 DEF Handshake, HandshakeWaits, HandshakeConfigures, HandshakeCompletes,
       HandshakeFails, Blame, Changed, Drain, Fault, Latch, NoBlame, Ready, RingStop, Teardown
  <2>2. CASE Quiescing \/ GiveUpStream \/ Plan \/ StreamFailed
    BY <2>2 DEF Quiescing, GiveUpStream, Plan, StreamFailed, Blame, Changed, Drain, Fault,
       Latch, NoBlame, Ready, RingStop, Teardown
  <2>3. CASE ReadStream \/ ReadWant \/ WaitForGain \/ StartStream
    BY <2>3 DEF ReadStream, ReadWant, WaitForGain, StartStream, Blame, Fault, Latch, NoBlame,
       Ready, Taken, Released, ReleasePending
  <2>4. CASE ActOtherwise \/ RingFaulted \/ Microphone
    BY <2>4 DEF ActOtherwise, RingFaulted, Microphone, Blame, Changed, Drain, Fault, Latch,
       NoBlame, RingStop, Teardown
  <2> QED
    BY <1>4, <2>1, <2>2, <2>3, <2>4 DEF Playback
<1>5. CASE Gate \/ Gain
  BY <1>5 DEF Gate, Gain, ReleasePending, Released, Taken
<1> QED
  BY <1>1, <1>2, <1>3, <1>4, <1>5 DEF Next, Main

\* The variables keep their types, and formats their numbers within the bound.
LEMMA TypeStep ==
  ASSUME TypeOK, Counted, Next
  PROVE  TypeOK' /\ Counted'
<1>1. HostTypes /\ CountTypes /\ PortTypes /\ LoopTypes /\ ModeTypes /\ EpochTypes /\ StreamTypes
  BY DEF TypeOK, Counted, HostTypes, CountTypes, PortTypes, LoopTypes, ModeTypes, EpochTypes,
     StreamTypes
<1>2. /\ HostTypes' /\ CountTypes' /\ PortTypes' /\ LoopTypes'
      /\ ModeTypes' /\ EpochTypes' /\ StreamTypes'
  BY <1>1, HostTypesStep, CountTypesStep, PortTypesStep, LoopTypesStep, ModeTypesStep,
     EpochTypesStep, StreamTypesStep
<1> QED
  BY <1>2 DEF TypeOK, Counted, HostTypes, CountTypes, PortTypes, LoopTypes, ModeTypes, EpochTypes,
     StreamTypes

\* UART3 passes from one user to the next, never over the head of one.
LEMMA UartStep ==
  ASSUME PortTypes, UartInv, Next
  PROVE  UartInv'
<1> USE DEF PortTypes, UartInv, Exclusive, Owned, Held, ProbesOff, NoSnap, CapBusy,
    ProbeBusy, hostVars, probeVars, gainVars, ringVars, pbVars
<1>1. CASE Host
  <2>1. CASE SelectPlayback
    BY <2>1 DEF SelectPlayback, Served
  <2>2. CASE ClosePlayback
    BY <2>2 DEF ClosePlayback, Served
  <2>3. ASSUME NEW on \in BOOLEAN, SelectMicrophone(on)
        PROVE  UartInv'
    BY <2>3 DEF SelectMicrophone, Served
  <2>4. ASSUME NEW next \in BOOLEAN, SetConfiguration(next)
        PROVE  UartInv'
    BY <2>4 DEF SetConfiguration, Served
  <2>5. CASE BusReset
    BY <2>5 DEF BusReset, Served
  <2>6. CASE RequestCapture
    BY <2>6 DEF RequestCapture, Served
  <2>7. CASE RequestProbe
    BY <2>7 DEF RequestProbe, Served
  <2>8. CASE RequestRecovery
    BY <2>8 DEF RequestRecovery, Served
  <2> QED
    BY <1>1, <2>1, <2>2, <2>3, <2>4, <2>5, <2>6, <2>7, <2>8 DEF Host
<1>2. CASE IsoFails
  BY <1>2 DEF IsoFails
<1>3. CASE RingFails
  BY <1>3 DEF RingFails
<1>4. CASE Probes
  <2>1. CASE AllowCapture
    BY <2>1 DEF AllowCapture
  <2>2. CASE CapturePoll
    <3>1. CASE capStage = "running"
      BY <2>2, <3>1 DEF CapturePoll
    <3>2. CASE capStage # "running" /\ Released
      <4>1. /\ pc' = "stream" /\ gainOpen' = FALSE
            /\ UNCHANGED <<pb, probeStage, snap>>
        BY <2>2, <3>2 DEF CapturePoll, Released, ReleasePending
      <4>2. CASE ~CapBusy
        BY <2>2, <3>2, <4>1, <4>2 DEF CapturePoll
      <4>3. CASE CapBusy /\ Taken
        <5>1. capStage' = "finished" /\ uart' = TRUE
          BY <2>2, <3>2, <4>3 DEF CapturePoll, Released, ReleasePending
        <5> QED
          BY <2>2, <3>2, <4>1, <4>3, <5>1 DEF Taken
      <4>4. CASE CapBusy /\ ~Taken
        <5>1. capStage' \in {"running", "finished"} /\ uart' = (capStage' = "running")
          BY <2>2, <3>2, <4>4 DEF CapturePoll, Released, ReleasePending
        <5> QED
          BY <2>2, <4>1, <4>4, <5>1 DEF Taken
      <4> QED
        BY <4>2, <4>3, <4>4
    <3>3. CASE capStage # "running" /\ ~Released
      BY <2>2, <3>3 DEF CapturePoll, ReleasePending
    <3> QED
      BY <3>1, <3>2, <3>3
  <2>3. CASE AllowProbe
    BY <2>3 DEF AllowProbe
  <2>4. CASE ProbePoll
    <3>1. CASE probeStage = "running"
      BY <2>4, <3>1 DEF ProbePoll
    <3>2. CASE probeStage = "prepared"
      <4>1. /\ UNCHANGED <<pb, capStage, snap, gainOpen>> /\ pc' = "allowCapture"
            /\ probeStage' = "running" => ~uart
            /\ uart' = (uart \/ probeStage' = "running")
        BY <2>4, <3>2 DEF ProbePoll
      <4>2. CASE uart
        BY <3>2, <4>1, <4>2
      <4>3. CASE ~uart
        <5>1. uart' = (probeStage' = "running")
          BY <4>1, <4>3
        <5> QED
          BY <3>2, <4>1, <4>3, <5>1
      <4> QED
        BY <4>2, <4>3
    <3>3. CASE probeStage = "requested" /\ Released
      <4>1. /\ UNCHANGED <<pb, capStage, snap>> /\ pc' = "allowCapture"
            /\ gainOpen' = FALSE /\ probeStage' # "running"
            /\ uart' = Taken
        BY <2>4, <3>3 DEF ProbePoll, Released, ReleasePending
      <4>2. CASE gainOpen
        BY <3>3, <4>1, <4>2 DEF Taken
      <4>3. CASE ~gainOpen
        BY <3>3, <4>1, <4>3 DEF Taken
      <4> QED
        BY <4>2, <4>3
    <3>4. CASE probeStage = "requested" /\ ~Released
      BY <2>4, <3>4 DEF ProbePoll, ReleasePending
    <3>5. CASE ~ProbeBusy
      BY <2>4, <3>5 DEF ProbePoll
    <3> QED
      BY <3>1, <3>2, <3>3, <3>4, <3>5
  <2> QED
    BY <1>4, <2>1, <2>2, <2>3, <2>4 DEF Probes
<1>5. CASE Playback
  <2>1. CASE ReadStream
    BY <2>1 DEF ReadStream
  <2>2. CASE ReadWant
    BY <2>2 DEF ReadWant
  <2>3. CASE Quiescing
    BY <2>3 DEF Quiescing, Teardown, RingStop, Latch, Blame, NoBlame
  <2>4. CASE GiveUpStream
    BY <2>4 DEF GiveUpStream, Changed, Drain, Teardown, RingStop, NoBlame
  <2>5. CASE Plan
    BY <2>5 DEF Plan, Changed
  <2>6. CASE StreamFailed
    BY <2>6 DEF StreamFailed, Drain, Teardown, RingStop, Fault, Blame
  <2>7. CASE WaitForGain
    BY <2>7 DEF WaitForGain, Ready, ReleasePending
  <2>8. CASE StartStream
    BY <2>8 DEF StartStream, Ready, Released, Taken, Fault, Blame, NoBlame
  <2>9. CASE HandshakeWaits
    BY <2>9 DEF HandshakeWaits, Ready
  <2>10. CASE HandshakeConfigures
    BY <2>10 DEF HandshakeConfigures, Ready, NoBlame
  <2>11. CASE HandshakeCompletes
    BY <2>11 DEF HandshakeCompletes, Ready, NoBlame
  <2>12. CASE HandshakeFails
    BY <2>12 DEF HandshakeFails, Ready, Drain, RingStop, Blame
  <2>13. CASE ActOtherwise
    BY <2>13 DEF ActOtherwise, Ready
  <2>14. CASE RingFaulted
    BY <2>14 DEF RingFaulted, Drain, Teardown, RingStop, Fault, Blame
  <2>15. CASE Microphone
    BY <2>15 DEF Microphone
  <2> QED
    BY <1>5, <2>1, <2>2, <2>3, <2>4, <2>5, <2>6, <2>7, <2>8, <2>9, <2>10, <2>11, <2>12,
       <2>13, <2>14, <2>15 DEF Playback, Handshake
<1>6. CASE Gate
  BY <1>6 DEF Gate
<1>7. CASE Gain
  <2>1. UNCHANGED <<pb, capStage, probeStage, snap>> /\ pc' = "allowProbe"
    BY <1>7 DEF Gain
  <2>2. CASE Online /\ yielding
    <3>1. uart' = (Taken \/ gainOpen')
      BY <1>7, <2>2 DEF Gain
    <3>2. gainOpen' \in {FALSE, gainOpen}
      BY <1>7, <2>2 DEF Gain, ReleasePending, Released
    <3>3. CASE gainOpen
      BY <2>1, <3>1, <3>2, <3>3 DEF Taken
    <3>4. CASE ~gainOpen
      <4>1. gainOpen' = FALSE /\ uart' = uart
        BY <3>1, <3>2, <3>4 DEF Taken
      <4> QED
        BY <2>1, <3>4, <4>1
    <3> QED
      BY <3>3, <3>4
  <2>3. CASE Online /\ ~yielding /\ ~gainOpen
    <3>1. gainOpen' = (~gainFault /\ ~uart) /\ uart' = (uart \/ gainOpen')
      BY <1>7, <2>3 DEF Gain
    <3>2. CASE uart
      BY <2>1, <2>3, <3>1, <3>2
    <3>3. CASE ~uart
      <4>1. uart' = gainOpen' /\ gainOpen' \in BOOLEAN
        BY <3>1, <3>3
      <4>2. ~Held /\ capStage # "running" /\ probeStage # "running"
        BY <3>3
      <4> QED
        BY <2>1, <4>1, <4>2
    <3> QED
      BY <3>2, <3>3
  <2>4. CASE Online /\ ~yielding /\ gainOpen
    <3>1. uart' = gainOpen' /\ gainOpen' \in BOOLEAN
      BY <1>7, <2>4 DEF Gain
    <3> QED
      BY <2>1, <2>4, <3>1
  <2>5. CASE ~Online
    <3>1. gainOpen' = FALSE /\ uart' = Taken
      BY <1>7, <2>5 DEF Gain
    <3>2. CASE gainOpen
      BY <2>1, <3>1, <3>2 DEF Taken
    <3>3. CASE ~gainOpen
      BY <2>1, <3>1, <3>3 DEF Taken
    <3> QED
      BY <3>2, <3>3
  <2> QED
    BY <2>2, <2>3, <2>4, <2>5
<1> QED
  BY <1>1, <1>2, <1>3, <1>4, <1>5, <1>6, <1>7 DEF Next, Main

\* The ring is started for the format of the handshake and stopped before either changes.
LEMMA RingStep ==
  ASSUME StreamTypes, RingOfStream, Next
  PROVE  RingOfStream'
<1> USE DEF StreamTypes, RingOfStream, hostVars, probeVars, gainVars, ringVars, pbVars
<1>1. CASE Host
  <2>1. CASE SelectPlayback
    BY <2>1 DEF SelectPlayback, Served
  <2>2. CASE ClosePlayback
    BY <2>2 DEF ClosePlayback, Served
  <2>3. ASSUME NEW on \in BOOLEAN, SelectMicrophone(on)
        PROVE  RingOfStream'
    BY <2>3 DEF SelectMicrophone, Served
  <2>4. ASSUME NEW next \in BOOLEAN, SetConfiguration(next)
        PROVE  RingOfStream'
    BY <2>4 DEF SetConfiguration, Served
  <2>5. CASE BusReset
    BY <2>5 DEF BusReset, Served
  <2>6. CASE RequestCapture
    BY <2>6 DEF RequestCapture, Served
  <2>7. CASE RequestProbe
    BY <2>7 DEF RequestProbe, Served
  <2>8. CASE RequestRecovery
    BY <2>8 DEF RequestRecovery, Served
  <2> QED
    BY <1>1, <2>1, <2>2, <2>3, <2>4, <2>5, <2>6, <2>7, <2>8 DEF Host
<1>2. CASE IsoFails
  BY <1>2 DEF IsoFails
<1>3. CASE RingFails
  BY <1>3 DEF RingFails
<1>4. CASE Probes
  <2>1. CASE AllowCapture
    BY <2>1 DEF AllowCapture
  <2>2. CASE CapturePoll
    BY <2>2 DEF CapturePoll, ReleasePending, Released, Taken
  <2>3. CASE AllowProbe
    BY <2>3 DEF AllowProbe
  <2>4. CASE ProbePoll
    BY <2>4 DEF ProbePoll, ReleasePending, Released, Taken
  <2> QED
    BY <1>4, <2>1, <2>2, <2>3, <2>4 DEF Probes
<1>5. CASE Playback
  <2>1. CASE ReadStream
    BY <2>1 DEF ReadStream
  <2>2. CASE ReadWant
    BY <2>2 DEF ReadWant
  <2>3. CASE Quiescing
    BY <2>3, RingStops DEF Quiescing
  <2>4. CASE GiveUpStream
    BY <2>4 DEF GiveUpStream, Changed, Drain, Teardown, RingStop, NoBlame
  <2>5. CASE Plan
    BY <2>5 DEF Plan, Changed
  <2>6. CASE StreamFailed
    <3>1. CASE pb = "handshake"
      BY <2>6, <3>1 DEF StreamFailed, Drain, RingStop
    <3>2. CASE pb = "running"
      BY <2>6, <3>2, RingStops DEF StreamFailed
    <3>3. CASE pb = "idle"
      BY <2>6, <3>3 DEF StreamFailed
    <3> QED
      BY <2>6, <3>1, <3>2, <3>3 DEF StreamFailed
  <2>7. CASE WaitForGain
    BY <2>7 DEF WaitForGain, Ready, ReleasePending
  <2>8. CASE StartStream
    BY <2>8 DEF StartStream, Ready, Released, Taken, Fault, Blame, NoBlame
  <2>9. CASE HandshakeWaits
    BY <2>9 DEF HandshakeWaits, Ready
  <2>10. CASE HandshakeConfigures
    BY <2>10 DEF HandshakeConfigures, Ready, NoBlame
  <2>11. CASE HandshakeCompletes
    BY <2>11 DEF HandshakeCompletes, Ready, NoBlame
  <2>12. CASE HandshakeFails
    BY <2>12 DEF HandshakeFails, Ready, Drain, RingStop, Blame
  <2>13. CASE ActOtherwise
    BY <2>13 DEF ActOtherwise, Ready
  <2>14. CASE RingFaulted
    BY <2>14 DEF RingFaulted, Drain, Teardown, RingStop, Fault, Blame
  <2>15. CASE Microphone
    BY <2>15 DEF Microphone
  <2> QED
    BY <1>5, <2>1, <2>2, <2>3, <2>4, <2>5, <2>6, <2>7, <2>8, <2>9, <2>10, <2>11, <2>12,
       <2>13, <2>14, <2>15 DEF Playback, Handshake
<1>6. CASE Gate
  BY <1>6 DEF Gate
<1>7. CASE Gain
  BY <1>7 DEF Gain, ReleasePending, Released, Taken
<1> QED
  BY <1>1, <1>2, <1>3, <1>4, <1>5, <1>6, <1>7 DEF Next, Main

\* Formats only go forward, and what has been read of them stays behind the host.
LEMMA PastStep ==
  ASSUME TypeOK, Past, Next
  PROVE  Past'
<1> USE DEF TypeOK, Past, InService, Blamed, Epoch, NoEpoch, NoSnap, hostVars, probeVars,
    gainVars, ringVars, pbVars
<1>1. CASE Host
  <2>1. CASE SelectPlayback
    BY <2>1 DEF SelectPlayback, Served
  <2>2. CASE ClosePlayback
    BY <2>2 DEF ClosePlayback, Served
  <2>3. ASSUME NEW on \in BOOLEAN, SelectMicrophone(on)
        PROVE  Past'
    BY <2>3 DEF SelectMicrophone, Served
  <2>4. ASSUME NEW next \in BOOLEAN, SetConfiguration(next)
        PROVE  Past'
    BY <2>4 DEF SetConfiguration, Served
  <2>5. CASE BusReset
    BY <2>5 DEF BusReset, Served
  <2>6. CASE RequestCapture
    BY <2>6 DEF RequestCapture, Served
  <2>7. CASE RequestProbe
    BY <2>7 DEF RequestProbe, Served
  <2>8. CASE RequestRecovery
    BY <2>8 DEF RequestRecovery, Served
  <2> QED
    BY <1>1, <2>1, <2>2, <2>3, <2>4, <2>5, <2>6, <2>7, <2>8 DEF Host
<1>2. CASE IsoFails
  BY <1>2 DEF IsoFails
<1>3. CASE RingFails
  BY <1>3 DEF RingFails
<1>4. CASE Probes
  <2>1. CASE AllowCapture
    BY <2>1 DEF AllowCapture
  <2>2. CASE CapturePoll
    BY <2>2 DEF CapturePoll, ReleasePending, Released, Taken
  <2>3. CASE AllowProbe
    BY <2>3 DEF AllowProbe
  <2>4. CASE ProbePoll
    BY <2>4 DEF ProbePoll, ReleasePending, Released, Taken
  <2> QED
    BY <1>4, <2>1, <2>2, <2>3, <2>4 DEF Probes
<1>5. CASE Playback
  <2>1. CASE ReadStream
    BY <2>1 DEF ReadStream
  <2>2. CASE ReadWant
    BY <2>2 DEF ReadWant
  <2>3. CASE Quiescing
    <3>1. pc = "plan" /\ pc' = "gate" /\ pb = "quiesce" /\ UNCHANGED <<epoch, snap>>
      BY <2>3 DEF Quiescing
    <3>2. \/ pbEpoch' = pbEpoch /\ failedEpoch' \in {failedEpoch, pbEpoch}
          \/ /\ pb' = "fault" /\ pbEpoch' = snap.epoch
             /\ failedEpoch' \in {failedEpoch, pbEpoch, snap.epoch}
      BY <2>3 DEF Quiescing, Latch, Blame, NoBlame
    <3> QED
      BY <3>1, <3>2
  <2>4. CASE GiveUpStream
    BY <2>4 DEF GiveUpStream, Changed, Drain, Teardown, RingStop, NoBlame
  <2>5. CASE Plan
    BY <2>5 DEF Plan, Changed
  <2>6. CASE StreamFailed
    <3>1. pc = "act" /\ pc' = "gate" /\ UNCHANGED <<epoch, snap>>
      BY <2>6 DEF StreamFailed
    <3>2. /\ failedEpoch' = snap.epoch
          /\ pbEpoch' = snap.epoch \/ (pbEpoch' = pbEpoch /\ pb # "idle")
      BY <2>6 DEF StreamFailed, Drain, Fault, Blame
    <3> QED
      BY <3>1, <3>2
  <2>7. CASE WaitForGain
    BY <2>7 DEF WaitForGain, Ready, ReleasePending
  <2>8. CASE StartStream
    BY <2>8 DEF StartStream, Ready, Released, Taken, Fault, Blame, NoBlame
  <2>9. CASE HandshakeWaits
    BY <2>9 DEF HandshakeWaits, Ready
  <2>10. CASE HandshakeConfigures
    BY <2>10 DEF HandshakeConfigures, Ready, NoBlame
  <2>11. CASE HandshakeCompletes
    BY <2>11 DEF HandshakeCompletes, Ready, NoBlame
  <2>12. CASE HandshakeFails
    BY <2>12 DEF HandshakeFails, Ready, Drain, RingStop, Blame
  <2>13. CASE ActOtherwise
    BY <2>13 DEF ActOtherwise, Ready
  <2>14. CASE RingFaulted
    <3>1. pc = "ring" /\ pc' = "gate" /\ UNCHANGED <<epoch, snap>>
      BY <2>14 DEF RingFaulted
    <3>2. \/ pbEpoch' = pbEpoch /\ failedEpoch' = pbEpoch
          \/ pbEpoch' = snap.epoch /\ failedEpoch' = snap.epoch
      BY <2>14 DEF RingFaulted, Drain, Fault, Blame
    <3> QED
      BY <3>1, <3>2
  <2>15. CASE Microphone
    BY <2>15 DEF Microphone
  <2> QED
    BY <1>5, <2>1, <2>2, <2>3, <2>4, <2>5, <2>6, <2>7, <2>8, <2>9, <2>10, <2>11, <2>12,
       <2>13, <2>14, <2>15 DEF Playback, Handshake
<1>6. CASE Gate
  BY <1>6 DEF Gate
<1>7. CASE Gain
  BY <1>7 DEF Gain, ReleasePending, Released, Taken
<1> QED
  BY <1>1, <1>2, <1>3, <1>4, <1>5, <1>6, <1>7 DEF Next, Main

\* What has been read stays true of the host, unless it has done more since.
LEMMA SeenStep ==
  ASSUME TypeOK, Past, Seen, Next
  PROVE  Seen'
<1> USE DEF TypeOK, Past, Seen, HostOpen, InService, Epoch, NoSnap, hostVars, probeVars,
    gainVars, ringVars, pbVars
<1>1. CASE Host
  <2>1. CASE SelectPlayback
    BY <2>1 DEF SelectPlayback, Served
  <2>2. CASE ClosePlayback
    BY <2>2 DEF ClosePlayback, Served
  <2>3. ASSUME NEW on \in BOOLEAN, SelectMicrophone(on)
        PROVE  Seen'
    BY <2>3 DEF SelectMicrophone, Served
  <2>4. ASSUME NEW next \in BOOLEAN, SetConfiguration(next)
        PROVE  Seen'
    BY <2>4 DEF SetConfiguration, Served
  <2>5. CASE BusReset
    BY <2>5 DEF BusReset, Served
  <2>6. CASE RequestCapture
    BY <2>6 DEF RequestCapture, Served
  <2>7. CASE RequestProbe
    BY <2>7 DEF RequestProbe, Served
  <2>8. CASE RequestRecovery
    BY <2>8 DEF RequestRecovery, Served
  <2> QED
    BY <1>1, <2>1, <2>2, <2>3, <2>4, <2>5, <2>6, <2>7, <2>8 DEF Host
<1>2. CASE IsoFails
  BY <1>2 DEF IsoFails
<1>3. CASE RingFails
  BY <1>3 DEF RingFails
<1>4. CASE Probes
  <2>1. CASE AllowCapture
    BY <2>1 DEF AllowCapture
  <2>2. CASE CapturePoll
    BY <2>2 DEF CapturePoll, ReleasePending, Released, Taken
  <2>3. CASE AllowProbe
    BY <2>3 DEF AllowProbe
  <2>4. CASE ProbePoll
    BY <2>4 DEF ProbePoll, ReleasePending, Released, Taken
  <2> QED
    BY <1>4, <2>1, <2>2, <2>3, <2>4 DEF Probes
<1>5. CASE Playback
  <2>1. CASE ReadStream
    BY <2>1 DEF ReadStream
  <2>2. CASE ReadWant
    BY <2>2 DEF ReadWant
  <2>3. CASE Quiescing
    BY <2>3 DEF Quiescing, Teardown, RingStop, Latch, Blame, NoBlame
  <2>4. CASE GiveUpStream
    BY <2>4 DEF GiveUpStream, Changed, Drain, Teardown, RingStop, NoBlame
  <2>5. CASE Plan
    BY <2>5 DEF Plan, Changed
  <2>6. CASE StreamFailed
    BY <2>6 DEF StreamFailed, Drain, Teardown, RingStop, Fault, Blame
  <2>7. CASE WaitForGain
    BY <2>7 DEF WaitForGain, Ready, ReleasePending
  <2>8. CASE StartStream
    BY <2>8 DEF StartStream, Ready, Released, Taken, Fault, Blame, NoBlame
  <2>9. CASE HandshakeWaits
    BY <2>9 DEF HandshakeWaits, Ready
  <2>10. CASE HandshakeConfigures
    BY <2>10 DEF HandshakeConfigures, Ready, NoBlame
  <2>11. CASE HandshakeCompletes
    BY <2>11 DEF HandshakeCompletes, Ready, NoBlame
  <2>12. CASE HandshakeFails
    BY <2>12 DEF HandshakeFails, Ready, Drain, RingStop, Blame
  <2>13. CASE ActOtherwise
    BY <2>13 DEF ActOtherwise, Ready
  <2>14. CASE RingFaulted
    BY <2>14 DEF RingFaulted, Drain, Teardown, RingStop, Fault, Blame
  <2>15. CASE Microphone
    BY <2>15 DEF Microphone
  <2> QED
    BY <1>5, <2>1, <2>2, <2>3, <2>4, <2>5, <2>6, <2>7, <2>8, <2>9, <2>10, <2>11, <2>12,
       <2>13, <2>14, <2>15 DEF Playback, Handshake
<1>6. CASE Gate
  BY <1>6 DEF Gate
<1>7. CASE Gain
  BY <1>7 DEF Gain, ReleasePending, Released, Taken
<1> QED
  BY <1>1, <1>2, <1>3, <1>4, <1>5, <1>6, <1>7 DEF Next, Main

\* A failure is not forgotten while it counts.
LEMMA RestStep ==
  ASSUME TypeOK, Past, Seen, Rest, Next
  PROVE  Rest'
<1> USE DEF TypeOK, Past, Seen, Rest, Forgiven, HostOpen, InService, Blamed, Epoch, NoEpoch,
    NoSnap, hostVars, probeVars, gainVars, ringVars, pbVars
<1>1. CASE Host
  <2>1. CASE SelectPlayback
    BY <2>1 DEF SelectPlayback, Served
  <2>2. CASE ClosePlayback
    BY <2>2 DEF ClosePlayback, Served
  <2>3. ASSUME NEW on \in BOOLEAN, SelectMicrophone(on)
        PROVE  Rest'
    BY <2>3 DEF SelectMicrophone, Served
  <2>4. ASSUME NEW next \in BOOLEAN, SetConfiguration(next)
        PROVE  Rest'
    BY <2>4 DEF SetConfiguration, Served
  <2>5. CASE BusReset
    BY <2>5 DEF BusReset, Served
  <2>6. CASE RequestCapture
    BY <2>6 DEF RequestCapture, Served
  <2>7. CASE RequestProbe
    BY <2>7 DEF RequestProbe, Served
  <2>8. CASE RequestRecovery
    BY <2>8 DEF RequestRecovery, Served
  <2> QED
    BY <1>1, <2>1, <2>2, <2>3, <2>4, <2>5, <2>6, <2>7, <2>8 DEF Host
<1>2. CASE IsoFails
  BY <1>2 DEF IsoFails
<1>3. CASE RingFails
  BY <1>3 DEF RingFails
<1>4. CASE Probes
  <2>1. CASE AllowCapture
    BY <2>1 DEF AllowCapture
  <2>2. CASE CapturePoll
    BY <2>2 DEF CapturePoll, ReleasePending, Released, Taken
  <2>3. CASE AllowProbe
    BY <2>3 DEF AllowProbe
  <2>4. CASE ProbePoll
    BY <2>4 DEF ProbePoll, ReleasePending, Released, Taken
  <2> QED
    BY <1>4, <2>1, <2>2, <2>3, <2>4 DEF Probes
<1>5. CASE Playback
  <2>1. CASE ReadStream
    <3>1. /\ pc' = "want" /\ snap'.epoch = epoch
          /\ UNCHANGED <<pb, stopFault, epoch, failedEpoch, closed, recovery>>
      BY <2>1 DEF ReadStream
    <3>2. epoch # NoEpoch
      BY ChangesAssumption
    <3> QED
      BY <3>1, <3>2
  <2>2. CASE ReadWant
    BY <2>2 DEF ReadWant
  <2>3. CASE Quiescing
    <3>1. /\ pc = "plan" /\ pc' = "gate" /\ pb = "quiesce"
          /\ UNCHANGED <<epoch, recovery, snap>>
      BY <2>3 DEF Quiescing
    <3>2. CASE pb' = "quiesce"
      <4>1. stopFault' \/ Forgiven
        BY <2>3, <3>2 DEF Quiescing, Latch
      <4>2. ~stopFault' => UNCHANGED <<failedEpoch, closed>>
        BY <2>3, <3>2 DEF Quiescing, Latch, NoBlame
      <4> QED
        BY <3>1, <3>2, <4>1, <4>2
    <3>3. CASE pb' # "quiesce"
      <4>1. CASE pb' = "idle"
        <5>1. stopFault' => ~snap.want \/ snap.epoch # pbEpoch
          BY <2>3, <3>3, <4>1 DEF Quiescing, Latch
        <5>2. ~stopFault => Forgiven
          BY <3>1
        <5>3. CASE UNCHANGED <<stopFault, failedEpoch, closed>>
          BY <3>1, <4>1, <5>1, <5>2, <5>3
        <5>4. CASE stopFault' /\ Blame(pbEpoch)
          BY <3>1, <4>1, <5>1, <5>4 DEF Blame
        <5> QED
          BY <2>3, <4>1, <5>3, <5>4 DEF Quiescing, Latch, NoBlame
      <4>2. CASE pb' # "idle"
        BY <3>1, <3>3, <4>2
      <4> QED
        BY <4>1, <4>2
    <3> QED
      BY <3>2, <3>3
  <2>4. CASE GiveUpStream
    BY <2>4 DEF GiveUpStream, Changed, Drain, Teardown, RingStop, NoBlame
  <2>5. CASE Plan
    BY <2>5 DEF Plan, Changed
  <2>6. CASE StreamFailed
    BY <2>6 DEF StreamFailed, Drain, Teardown, RingStop, Fault, Blame
  <2>7. CASE WaitForGain
    BY <2>7 DEF WaitForGain, Ready, ReleasePending
  <2>8. CASE StartStream
    BY <2>8 DEF StartStream, Ready, Released, Taken, Fault, Blame, NoBlame
  <2>9. CASE HandshakeWaits
    BY <2>9 DEF HandshakeWaits, Ready
  <2>10. CASE HandshakeConfigures
    BY <2>10 DEF HandshakeConfigures, Ready, NoBlame
  <2>11. CASE HandshakeCompletes
    BY <2>11 DEF HandshakeCompletes, Ready, NoBlame
  <2>12. CASE HandshakeFails
    BY <2>12 DEF HandshakeFails, Ready, Drain, RingStop, Blame
  <2>13. CASE ActOtherwise
    BY <2>13 DEF ActOtherwise, Ready
  <2>14. CASE RingFaulted
    BY <2>14 DEF RingFaulted, Drain, Teardown, RingStop, Fault, Blame
  <2>15. CASE Microphone
    BY <2>15 DEF Microphone
  <2> QED
    BY <1>5, <2>1, <2>2, <2>3, <2>4, <2>5, <2>6, <2>7, <2>8, <2>9, <2>10, <2>11, <2>12,
       <2>13, <2>14, <2>15 DEF Playback, Handshake
<1>6. CASE Gate
  BY <1>6 DEF Gate
<1>7. CASE Gain
  BY <1>7 DEF Gain, ReleasePending, Released, Taken
<1> QED
  BY <1>1, <1>2, <1>3, <1>4, <1>5, <1>6, <1>7 DEF Next, Main

-----------------------------------------------------------------------------
LEMMA LifecycleInit == Init => LifecycleInv
<1> SUFFICES ASSUME Init
             PROVE  LifecycleInv
  OBVIOUS
<1> USE FirstEpoch, ChangesAssumption
<1>1. TypeOK
  <2>1. CountTypes
    BY DEF Init, CountTypes, Epoch
  <2>2. HostTypes /\ PortTypes
    BY DEF Init, HostTypes, PortTypes
  <2>3. LoopTypes /\ ModeTypes
    BY DEF Init, LoopTypes, ModeTypes, NoSnap
  <2>4. EpochTypes /\ StreamTypes
    BY DEF Init, EpochTypes, StreamTypes, NoSnap
  <2> QED
    BY <2>1, <2>2, <2>3, <2>4 DEF TypeOK, HostTypes, CountTypes, PortTypes, LoopTypes, ModeTypes,
       EpochTypes, StreamTypes
<1>2. Counted /\ UartInv /\ RingOfStream
  <2>1. Counted /\ Exclusive /\ ProbesOff /\ RingOfStream
    BY DEF Init, Counted, Exclusive, Held, ProbesOff, RingOfStream
  <2>2. Owned
    BY DEF Init, Owned, Held
  <2> QED
    BY <2>1, <2>2 DEF UartInv
<1>3. Past /\ Seen /\ Rest
  BY DEF Init, Past, Seen, Rest, InService, Blamed, Forgiven, HostOpen, NoSnap
<1> QED
  BY <1>1, <1>2, <1>3 DEF LifecycleInv

LEMMA LifecycleStep == LifecycleInv /\ [Next]_vars => LifecycleInv'
<1>1. LifecycleInv /\ Next => LifecycleInv'
  <2>1. TypeOK => PortTypes /\ StreamTypes
    BY DEF TypeOK, PortTypes, StreamTypes
  <2> QED
    BY <2>1, TypeStep, UartStep, RingStep, PastStep, SeenStep, RestStep DEF LifecycleInv
<1>2. LifecycleInv /\ UNCHANGED vars => LifecycleInv'
  <2> SUFFICES ASSUME LifecycleInv, UNCHANGED vars
               PROVE  LifecycleInv'
    OBVIOUS
  <2> USE DEF LifecycleInv, vars, hostVars, probeVars, gainVars, ringVars, pbVars
  <2>1. TypeOK' /\ Counted'
    BY DEF TypeOK, Counted
  <2>2. UartInv' /\ RingOfStream'
    BY DEF UartInv, Exclusive, Owned, Held, ProbesOff, RingOfStream
  <2>3. Past' /\ Seen' /\ Rest'
    BY DEF Past, Seen, Rest, InService, Blamed, Forgiven, HostOpen
  <2> QED
    BY <2>1, <2>2, <2>3
<1> QED
  BY <1>1, <1>2

\* Users that exclude each other are none or one.
LEMMA OwnersCounted == PortTypes /\ UartInv => UartOneOwner
<1> SUFFICES ASSUME PortTypes, UartInv
             PROVE  Cardinality(UartOwners) = IF uart THEN 1 ELSE 0
  BY DEF UartOneOwner
<1> USE DEF PortTypes, UartInv, Exclusive, Owned, Held, UartOwners
<1>1. CASE ~uart
  <2>1. UartOwners = {}
    BY <1>1
  <2> QED
    BY <1>1, <2>1, FS_EmptySet
<1>2. CASE uart
  <2>1. \E o \in {"playback", "gain", "capture", "probe"} : UartOwners = {o}
    <3>1. CASE Held
      BY <3>1
    <3>2. CASE gainOpen
      BY <3>2
    <3>3. CASE capStage = "running"
      BY <3>3
    <3>4. CASE probeStage = "running"
      BY <3>4
    <3> QED
      BY <1>2, <3>1, <3>2, <3>3, <3>4
  <2> QED
    BY <1>2, <2>1, FS_Singleton
<1> QED
  BY <1>1, <1>2

\* A handshake starts with what playback_service has read, and is forgiven that.
LEMMA StartForgiven ==
  LifecycleInv /\ [Next]_vars =>
    [pb = "idle" /\ pb' = "handshake" => pbEpoch' # failedEpoch \/ closed]_vars
<1> SUFFICES ASSUME LifecycleInv, Next, pb = "idle", pb' = "handshake"
             PROVE  pbEpoch' # failedEpoch \/ closed
  OBVIOUS
<1> USE DEF hostVars, probeVars, gainVars, ringVars, pbVars
<1>1. StartStream
  <2>1. ~Host /\ ~IsoFails /\ ~RingFails
    BY DEF Host, SelectPlayback, ClosePlayback, SelectMicrophone, SetConfiguration, BusReset,
       RequestCapture, RequestProbe, RequestRecovery, Served, IsoFails, RingFails
  <2>2. ~Probes /\ ~Gate /\ ~Gain
    BY DEF Probes, AllowCapture, CapturePoll, AllowProbe, ProbePoll, Gate, Gain
  <2>3. Playback => StartStream
    BY DEF Playback, ReadStream, ReadWant, Quiescing, GiveUpStream, Plan, StreamFailed,
       WaitForGain, Handshake, HandshakeWaits, HandshakeConfigures, HandshakeCompletes,
       HandshakeFails, ActOtherwise, RingFaulted, Microphone, Fault
  <2> QED
    BY <2>1, <2>2, <2>3 DEF Next, Main
<1>2. pc = "act" /\ snap.want /\ pbEpoch' = snap.epoch
  BY <1>1 DEF StartStream, Ready, Fault
<1> QED
  BY <1>2 DEF LifecycleInv, Rest

(* Whatever the host asks for and however its interrupts fall between the   *)
(* steps of the main loop, for any number of requests: the variables keep   *)
(* their types, UART3 runs exactly while it has one user, and the ring and  *)
(* the microphone only for the stream they were started for                 *)
(* (diagnostic_usb.c:1985-2230, native_gain.c:60-140).                      *)
THEOREM LifecycleCorrect == Spec => [](TypeOK /\ UartOneOwner /\ RingOfStream)
<1>1. Init => LifecycleInv
  BY LifecycleInit
<1>2. LifecycleInv /\ [Next]_vars => LifecycleInv'
  BY LifecycleStep
<1>3. LifecycleInv => TypeOK /\ UartOneOwner /\ RingOfStream
  <2>1. TypeOK => PortTypes
    BY DEF TypeOK, PortTypes
  <2> QED
    BY <2>1, OwnersCounted DEF LifecycleInv
<1> QED
  BY <1>1, <1>2, <1>3, PTL DEF Spec

(* A format that failed is only set up again after the host had closed all  *)
(* its streams (diagnostic_usb.c:2030-2060), whatever playback_service had  *)
(* read before the host went on.                                            *)
THEOREM FailureSticks == Spec => FaultSticks
<1>1. Init => LifecycleInv
  BY LifecycleInit
<1>2. LifecycleInv /\ [Next]_vars => LifecycleInv'
  BY LifecycleStep
<1>3. LifecycleInv /\ [Next]_vars =>
        [pb = "idle" /\ pb' = "handshake" => pbEpoch' # failedEpoch \/ closed]_vars
  BY StartForgiven
<1> QED
  BY <1>1, <1>2, <1>3, PTL DEF Spec, FaultSticks
=============================================================================
