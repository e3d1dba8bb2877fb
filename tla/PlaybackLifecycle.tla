------------------------- MODULE PlaybackLifecycle -------------------------
(***************************************************************************)
(* How an audio stream is started, stopped and restarted.  The USB         *)
(* interrupt (audio_probe.c) opens and closes the streams the host selects *)
(* and numbers the playback formats; the main loop (playback_service and   *)
(* main in diagnostic_usb.c) reads that state piece by piece and drives    *)
(* the DSP handshake, the DMA ring and UART3 after it.  UART3 is also used *)
(* by the native gain service and by two diagnostic probes the host may    *)
(* request.  The handshake (audio_mode.c), the ring (PlaybackRing) and the *)
(* transactions of the gain service are reduced to their outcomes.         *)
(***************************************************************************)
EXTENDS Integers, FiniteSets

CONSTANTS MaxChanges,   \* bound: how often the host asks for something
          Requests      \* bound: what it asks for
ASSUME ChangesAssumption == MaxChanges \in Nat
ASSUME RequestsAssumption ==
  Requests \subseteq {"playback", "microphone", "configuration", "reset",
                      "capture", "probe", "recovery"}

Epoch == 0..MaxChanges
NoEpoch == MaxChanges + 1

VARIABLES
  configured, recovery,  \* configuration = 1, recovery_state # 0
  playing, mic,          \* alternate[] of the two streams is not 0
  epoch,                 \* format_epoch
  trouble,               \* why audio_probe_playback_failed answers yes, or "none"
  changes,               \* requests of the host so far
  capStage, probeStage,  \* the two diagnostic probes, dsp_capture_probe and dsp_probe
  gainOpen, gainBusy, gainFault, yielding,   \* the native gain service
  uart,                  \* UART3 has been started
  pc, allowed, snap,     \* where the main loop is and what it has read
  pb, pbEpoch, stopFault, micOn,   \* pb_state, pb_format, pb_stop_fault
  mode, clock,           \* progress of the handshake, last bring-up of the clock
  ringOn, ringEpoch, ringFault, prepared,    \* the ring, see PlaybackRing
  failedEpoch, closed    \* the format that failed last, and whether the host
                         \* has had no stream open since

hostVars  == <<configured, recovery, playing, mic, epoch, trouble, changes>>
probeVars == <<capStage, probeStage>>
gainVars  == <<gainOpen, gainBusy, gainFault, yielding>>
ringVars  == <<ringOn, ringEpoch, ringFault, prepared>>
pbVars    == <<pb, pbEpoch, stopFault, mode, clock, micOn>>
vars == <<hostVars, probeVars, gainVars, uart, pc, allowed, snap, pbVars, ringVars,
          failedEpoch, closed>>

NoSnap == [stream |-> FALSE, epoch |-> 0, capture |-> FALSE, want |-> FALSE]

\* The host has just configured the device, after the boot acknowledgement.
Init == /\ configured = TRUE
        /\ recovery = FALSE
        /\ playing = FALSE
        /\ mic = FALSE
        /\ epoch = 0
        /\ trouble = "none"
        /\ changes = 0
        /\ capStage = "none"
        /\ probeStage = "none"
        /\ gainOpen = FALSE
        /\ gainBusy = FALSE
        /\ gainFault = FALSE
        /\ yielding = FALSE
        /\ uart = FALSE
        /\ pc = "allowCapture"
        /\ allowed = FALSE
        /\ snap = NoSnap
        /\ pb = "idle"
        /\ pbEpoch = 0
        /\ stopFault = FALSE
        /\ mode = "before"
        /\ clock = "ready"
        /\ micOn = FALSE
        /\ ringOn = FALSE
        /\ ringEpoch = 0
        /\ ringFault = FALSE
        /\ prepared = FALSE
        /\ failedEpoch = NoEpoch
        /\ closed = TRUE

HostOpen == configured /\ (playing \/ mic)
CapBusy   == capStage \in {"requested", "running"}
ProbeBusy == probeStage \in {"requested", "prepared", "running"}
Failed == trouble # "none"

-----------------------------------------------------------------------------
\* The USB interrupt.  Each request is served in one interrupt.
Served == /\ changes < MaxChanges
          /\ changes' = changes + 1
          /\ closed' = (closed \/ ~HostOpen')
          /\ UNCHANGED <<gainVars, uart, pc, allowed, snap, pbVars, ringVars, failedEpoch>>

\* set_stream_interface for playback: the old stream is closed, and a new one
\* opened if the host selects an alternate other than 0 or a new rate.
SelectPlayback ==
  /\ configured
  /\ epoch' = epoch + 1
  /\ \/ playing' = TRUE /\ trouble' = "none"
     \/ playing' = FALSE /\ trouble' \in {"opening", "closing"}
  /\ UNCHANGED <<configured, recovery, mic, probeVars>>
  /\ Served

\* Alternate 0; once everything is closed it is an early return.
ClosePlayback ==
  /\ configured
  /\ playing \/ trouble = "closing"
  /\ epoch' = epoch + 1
  /\ playing' = FALSE
  /\ trouble' \in {"none", "closing"}
  /\ UNCHANGED <<configured, recovery, mic, probeVars>>
  /\ Served

\* set_stream_interface for the microphone, which leaves the epoch alone.
SelectMicrophone(on) ==
  /\ configured
  /\ mic # on
  /\ mic' \in {FALSE, on}
  /\ UNCHANGED <<configured, recovery, playing, epoch, trouble, probeVars>>
  /\ Served

\* SET_CONFIGURATION; deconfigure comes first, and may fail.
SetConfiguration(next) ==
  /\ epoch' = epoch + 1
  /\ playing' = FALSE
  /\ mic' = FALSE
  /\ \/ trouble' = "none" /\ configured' = next
     \/ trouble' = "closing" /\ configured' = FALSE
  /\ UNCHANGED <<recovery, probeVars>>
  /\ Served

BusReset ==
  /\ configured' = FALSE
  /\ epoch' = epoch + 1
  /\ playing' = FALSE
  /\ mic' = FALSE
  /\ trouble' = "none"
  /\ UNCHANGED <<recovery, probeVars>>
  /\ Served

\* HID commands: a probe, or the preparation of a firmware update.
RequestCapture ==
  /\ ~CapBusy
  /\ capStage' = "requested"
  /\ UNCHANGED <<configured, recovery, playing, mic, epoch, trouble, probeStage>>
  /\ Served
RequestProbe ==
  /\ probeStage = "none"
  /\ probeStage' = "requested"
  /\ UNCHANGED <<configured, recovery, playing, mic, epoch, trouble, capStage>>
  /\ Served
RequestRecovery ==
  /\ recovery' = TRUE
  /\ UNCHANGED <<configured, playing, mic, epoch, trouble, probeVars>>
  /\ Served

\* A bank of an isochronous endpoint stops, see IsoBanks.
IsoFails ==
  /\ playing /\ trouble = "none"
  /\ trouble' = "iso"
  /\ UNCHANGED <<configured, recovery, playing, mic, epoch, changes, probeVars, gainVars,
                 uart, pc, allowed, snap, pbVars, ringVars, failedEpoch, closed>>

\* The DMA interrupt or the clock servo stops the ring, see PlaybackRing.
RingFails ==
  /\ ringOn
  /\ ringOn' = FALSE
  /\ ringFault' = TRUE
  /\ UNCHANGED <<hostVars, probeVars, gainVars, uart, pc, allowed, snap, pbVars,
                 ringEpoch, prepared, failedEpoch, closed>>

-----------------------------------------------------------------------------
\* omni_native_gain_release, called before another owner takes UART3: the
\* transaction in progress is completed first.
ReleasePending == /\ gainBusy
                  /\ yielding' = TRUE
                  /\ UNCHANGED <<gainOpen, gainBusy, gainFault>>
Released == /\ yielding' = FALSE
            /\ gainOpen' = FALSE
            /\ gainBusy' = FALSE
            /\ gainFault' = (gainFault /\ ~gainOpen)

\* After the release UART3 is still in use, by some other owner.
Taken == uart /\ ~gainOpen

Allowed == configured /\ ~recovery /\ ~playing /\ ~mic

\* The argument of a probe's poll is read before the poll.
AllowCapture ==
  /\ pc = "allowCapture"
  /\ allowed' = Allowed
  /\ pc' = "capture"
  /\ UNCHANGED <<hostVars, probeVars, gainVars, uart, snap, pbVars, ringVars,
                 failedEpoch, closed>>

\* omni_dsp_capture_probe_poll.
CapturePoll ==
  /\ pc = "capture"
  /\ \/ ~CapBusy /\ UNCHANGED <<capStage, uart, gainVars>>
     \/ capStage = "requested" /\ ReleasePending /\ UNCHANGED <<capStage, uart>>
     \/ /\ capStage = "requested"
        /\ Released
        /\ capStage' \in IF allowed /\ ~Taken THEN {"running", "finished"} ELSE {"finished"}
        /\ uart' = (Taken \/ capStage' = "running")
     \/ /\ capStage = "running"
        /\ capStage' \in IF allowed THEN {"running", "finished"} ELSE {"finished"}
        /\ uart' = (capStage' = "running")
        /\ UNCHANGED gainVars
  /\ pc' = "stream"
  /\ allowed' = FALSE
  /\ UNCHANGED <<hostVars, probeStage, snap, pbVars, ringVars, failedEpoch, closed>>

AllowProbe ==
  /\ pc = "allowProbe"
  /\ allowed' = Allowed
  /\ pc' = "probe"
  /\ UNCHANGED <<hostVars, probeVars, gainVars, uart, snap, pbVars, ringVars,
                 failedEpoch, closed>>

\* omni_dsp_probe_poll: the peer has two seconds to settle before UART3 is
\* taken, and native gain may come back meanwhile.
ProbePoll ==
  /\ pc = "probe"
  /\ \/ ~ProbeBusy /\ UNCHANGED <<probeStage, uart, gainVars>>
     \/ probeStage = "requested" /\ ReleasePending /\ UNCHANGED <<probeStage, uart>>
     \/ /\ probeStage = "requested"
        /\ Released
        /\ probeStage' = IF allowed THEN "prepared" ELSE "finished"
        /\ uart' = Taken
     \/ /\ probeStage = "prepared"
        /\ probeStage' \in IF ~allowed THEN {"finished"}
                           ELSE IF uart THEN {"prepared", "finished"}
                           ELSE {"prepared", "running", "finished"}
        /\ uart' = (uart \/ probeStage' = "running")
        /\ UNCHANGED gainVars
     \/ /\ probeStage = "running"
        /\ probeStage' \in IF allowed THEN {"running", "finished"} ELSE {"finished"}
        /\ uart' = (probeStage' = "running")
        /\ UNCHANGED gainVars
  /\ pc' = "allowCapture"
  /\ allowed' = FALSE
  /\ UNCHANGED <<hostVars, capStage, snap, pbVars, ringVars, failedEpoch, closed>>

-----------------------------------------------------------------------------
\* playback_service.  The host's state is read in pieces.
ReadStream ==
  /\ pc = "stream"
  /\ snap' = [snap EXCEPT !.stream = configured /\ playing, !.epoch = epoch]
  /\ pc' = "want"
  /\ UNCHANGED <<hostVars, probeVars, gainVars, uart, allowed, pbVars, ringVars,
                 failedEpoch, closed>>
ReadWant ==
  /\ pc = "want"
  /\ snap' = [snap EXCEPT !.stream = FALSE, !.capture = mic,
                          !.want = configured /\ ~recovery /\ (snap.stream \/ mic)]
  /\ pc' = "plan"
  /\ UNCHANGED <<hostVars, probeVars, gainVars, uart, allowed, pbVars, ringVars,
                 failedEpoch, closed>>

\* am_txring_teardown; stopping the microphone or the channel may fail.
RingStop == /\ ringOn' = FALSE
            /\ ringFault' \in {ringFault, TRUE}
            /\ micOn' = FALSE
            /\ UNCHANGED <<ringEpoch, prepared>>

\* Mutant of Teardown: UART3 is stopped whoever owns it.
TeardownAnyOwner == RingStop /\ uart' = FALSE
\* playback_teardown: only the handshake owns UART3.
Teardown == RingStop /\ uart' = (uart /\ pb \notin {"handshake", "quiesce"})

\* The failure is counted against a format; its stream may be closed already.
Blame(e) == failedEpoch' = e /\ closed' = (~HostOpen \/ ~snap.want)
NoBlame == UNCHANGED <<failedEpoch, closed>>

\* A handshake is given up: the ring is stopped at once, and UART3 is kept
\* until the frame being sent has drained.
\* Mutant: the ring is left to the end of the drain.
DrainLater(fault) == /\ stopFault' = fault
                     /\ pb' = "quiesce"
                     /\ UNCHANGED <<ringVars, micOn, uart, pbEpoch, clock>>
Drain(fault) == /\ RingStop
                /\ stopFault' = fault
                /\ pb' = "quiesce"
                /\ UNCHANGED <<uart, pbEpoch, clock>>

\* An error latches the fault, a drained frame only for the same stream.
\* Mutant: a drained frame never does.
LatchErrorOnly(error, fault) == error
Latch(error, fault) == error \/ (fault /\ snap.want /\ snap.epoch = pbEpoch)

Quiescing ==
  /\ pc = "plan" /\ pb = "quiesce"
  /\ stopFault' \in {stopFault, TRUE}      \* receive error, or the mode has failed
  /\ \/ /\ UNCHANGED <<uart, pb, pbEpoch, mode, micOn, ringVars>>
        /\ IF stopFault' # stopFault THEN Blame(pbEpoch) ELSE NoBlame
     \/ \E error \in BOOLEAN :
          /\ Teardown
          /\ mode' = IF error THEN "failed" ELSE "drained"
          /\ pb' = IF Latch(error, stopFault') THEN "fault" ELSE "idle"
          /\ pbEpoch' = IF pb' = "fault" THEN snap.epoch ELSE pbEpoch
          /\ IF error /\ ~stopFault THEN Blame(snap.epoch)
             ELSE IF stopFault' # stopFault THEN Blame(pbEpoch) ELSE NoBlame
  /\ pc' = "gate"
  /\ UNCHANGED <<hostVars, probeVars, gainVars, allowed, snap, clock>>

\* Mutant of Changed: only a stream that is closed counts.
ChangedWant == ~snap.want
Changed == ~snap.want \/ snap.epoch # pbEpoch

GiveUpStream ==
  /\ pc = "plan" /\ pb \in {"handshake", "running", "fault"}
  /\ Changed
  /\ IF pb = "handshake" THEN Drain(FALSE)
     ELSE Teardown /\ pb' = "idle" /\ UNCHANGED <<pbEpoch, stopFault, clock>>
  /\ NoBlame
  /\ pc' = "gate"
  /\ UNCHANGED <<hostVars, probeVars, gainVars, allowed, snap, mode>>

Plan ==
  /\ pc = "plan" /\ pb # "quiesce"
  /\ pb = "idle" \/ ~Changed
  /\ pc' = IF snap.want /\ (CapBusy \/ ProbeBusy) THEN "gate" ELSE "act"
  /\ UNCHANGED <<hostVars, probeVars, gainVars, uart, allowed, snap, pbVars, ringVars,
                 failedEpoch, closed>>

-----------------------------------------------------------------------------
\* The stream the host wants is latched as failed.
Fault == /\ pb' = "fault"
         /\ pbEpoch' = snap.epoch
         /\ Blame(snap.epoch)

\* audio_probe_playback_failed, read after everything else.
StreamFailed ==
  /\ pc = "act"
  /\ snap.want /\ pb # "fault" /\ Failed
  /\ \/ pb = "handshake" /\ Drain(TRUE) /\ Blame(snap.epoch)
     \/ pb = "running" /\ Teardown /\ Fault /\ UNCHANGED <<stopFault, clock>>
     \/ pb = "idle" /\ Fault /\ UNCHANGED <<ringVars, micOn, uart, stopFault, clock>>
  /\ pc' = "gate"
  /\ UNCHANGED <<hostVars, probeVars, gainVars, allowed, snap, mode>>

Ready == pc = "act" /\ (pb = "fault" \/ ~(snap.want /\ Failed))

WaitForGain ==
  /\ Ready
  /\ pb = "idle" /\ snap.want
  /\ ReleasePending
  /\ pc' = "gate"
  /\ UNCHANGED <<hostVars, probeVars, uart, allowed, snap, pbVars, ringVars,
                 failedEpoch, closed>>

\* UART3 is free: the ring is reset, the clock brought up and the handshake
\* begun.  What fails to start is latched, but for the clock, which is tried
\* again after a second unless it is blocked.
StartStream ==
  /\ Ready
  /\ pb = "idle" /\ snap.want
  /\ Released
  /\ ringOn' = FALSE
  /\ \/ /\ prepared
        /\ Fault
        /\ ringFault' = TRUE
        /\ uart' = Taken
        /\ pc' = "gate"
        /\ UNCHANGED <<prepared, clock, mode>>
     \/ /\ ringFault' = FALSE
        /\ prepared' = FALSE
        /\ pbEpoch' = snap.epoch
        /\ uart' = Taken
        /\ clock' \in {"failed", "blocked"} /\ (clock = "blocked" => clock' = "blocked")
        /\ pc' = "gate"
        /\ NoBlame
        /\ UNCHANGED <<pb, mode>>
     \/ /\ ringFault' = FALSE
        /\ prepared' = FALSE
        /\ clock # "blocked" /\ clock' = "ready"
        /\ mode' = "before"
        /\ \/ ~Taken /\ pb' = "handshake" /\ pbEpoch' = snap.epoch /\ uart' = TRUE /\ NoBlame
           \/ Fault /\ uart' = FALSE
        /\ pc' = "ring"
  /\ UNCHANGED <<hostVars, probeVars, allowed, snap, stopFault, micOn, ringEpoch>>

\* The handshake is in progress: nothing new, or its middle, where the ring is
\* started, or its end, or an error of the receiver or of the mode.
HandshakeWaits ==
  /\ Ready /\ pb = "handshake"
  /\ pc' = "ring"
  /\ UNCHANGED <<hostVars, probeVars, gainVars, uart, allowed, snap, pbVars, ringVars,
                 failedEpoch, closed>>
HandshakeConfigures ==
  /\ Ready /\ pb = "handshake" /\ mode = "before"
  /\ ~ringOn
  /\ mode' = "configured"
  /\ ringOn' = TRUE
  /\ ringEpoch' = pbEpoch
  /\ ringFault' = FALSE
  /\ prepared' = TRUE
  /\ pc' = "ring"
  /\ NoBlame
  /\ UNCHANGED <<hostVars, probeVars, gainVars, uart, allowed, snap, pb, pbEpoch, stopFault,
                 clock, micOn>>
HandshakeCompletes ==
  /\ Ready /\ pb = "handshake" /\ mode = "configured"
  /\ mode' = "complete"
  /\ pb' = "running"
  /\ uart' = FALSE
  /\ pc' = "ring"
  /\ NoBlame
  /\ UNCHANGED <<hostVars, probeVars, gainVars, allowed, snap, pbEpoch, stopFault, clock, micOn,
                 ringVars>>
HandshakeFails ==
  /\ Ready /\ pb = "handshake"
  /\ mode' = "failed"
  /\ Drain(TRUE)
  /\ Blame(pbEpoch)
  /\ pc' = "gate"
  /\ UNCHANGED <<hostVars, probeVars, gainVars, allowed, snap>>

ActOtherwise ==
  /\ Ready
  /\ pb \in {"running", "fault"} \/ (pb = "idle" /\ ~snap.want)
  /\ pc' = IF pb = "fault" THEN "gate" ELSE "ring"
  /\ UNCHANGED <<hostVars, probeVars, gainVars, uart, allowed, snap, pbVars, ringVars,
                 failedEpoch, closed>>

\* The end of playback_service: a fault of the ring, then the microphone.
RingFaulted ==
  /\ pc = "ring"
  /\ pb # "idle" /\ ringFault
  /\ \/ pb = "handshake" /\ Drain(TRUE) /\ Blame(pbEpoch)
     \/ pb # "handshake" /\ Teardown /\ Fault /\ UNCHANGED <<stopFault, clock>>
  /\ pc' = "gate"
  /\ UNCHANGED <<hostVars, probeVars, gainVars, allowed, snap, mode>>
Microphone ==
  /\ pc = "ring"
  /\ pb = "idle" \/ ~ringFault
  /\ micOn' = (snap.capture /\ (micOn \/ pb = "running"))
  /\ pc' = "gate"
  /\ UNCHANGED <<hostVars, probeVars, gainVars, uart, allowed, snap, pb, pbEpoch, stopFault,
                 mode, clock, ringVars, failedEpoch, closed>>

-----------------------------------------------------------------------------
\* The main loop keeps native gain off UART3 while someone else needs it.
Gate ==
  /\ pc = "gate"
  /\ pc' = IF /\ pb \notin {"handshake", "quiesce"}
              /\ ~CapBusy /\ ~ProbeBusy
              /\ ~(pb = "idle" /\ playing)
           THEN "gain" ELSE "allowProbe"
  /\ snap' = NoSnap       \* what playback_service had read is gone
  /\ UNCHANGED <<hostVars, probeVars, gainVars, uart, allowed, pbVars, ringVars,
                 failedEpoch, closed>>

Online == (pb = "running" \/ (pb = "idle" /\ ~playing)) /\ configured /\ ~recovery

\* omni_native_gain_service, which looks at the host's state once more.
Gain ==
  /\ pc = "gain"
  /\ \/ /\ Online /\ yielding
        /\ ReleasePending \/ Released
        /\ uart' = (Taken \/ gainOpen')
     \/ /\ Online /\ ~yielding /\ ~gainOpen
        /\ gainOpen' = (~gainFault /\ ~uart)
        /\ uart' = (uart \/ gainOpen')
        /\ gainBusy' \in {FALSE, gainOpen'}
        /\ UNCHANGED <<gainFault, yielding>>
     \/ /\ Online /\ ~yielding /\ gainOpen
        /\ \/ gainBusy' \in BOOLEAN /\ UNCHANGED <<gainOpen, gainFault>>
           \/ gainBusy' = FALSE /\ gainOpen' = FALSE /\ gainFault' = TRUE   \* transport fault
        /\ uart' = gainOpen'
        /\ UNCHANGED yielding
     \/ /\ ~Online
        /\ gainOpen' = FALSE /\ gainBusy' = FALSE /\ gainFault' = FALSE /\ yielding' = FALSE
        /\ uart' = Taken
  /\ pc' = "allowProbe"
  /\ UNCHANGED <<hostVars, probeVars, allowed, snap, pbVars, ringVars, failedEpoch, closed>>

-----------------------------------------------------------------------------
Host == \/ "playback" \in Requests /\ (SelectPlayback \/ ClosePlayback)
        \/ "microphone" \in Requests /\ \E on \in BOOLEAN : SelectMicrophone(on)
        \/ "configuration" \in Requests /\ \E next \in BOOLEAN : SetConfiguration(next)
        \/ "reset" \in Requests /\ BusReset
        \/ "capture" \in Requests /\ RequestCapture
        \/ "probe" \in Requests /\ RequestProbe
        \/ "recovery" \in Requests /\ RequestRecovery
Probes == AllowCapture \/ CapturePoll \/ AllowProbe \/ ProbePoll
Handshake == HandshakeWaits \/ HandshakeConfigures \/ HandshakeCompletes \/ HandshakeFails
Playback == \/ ReadStream \/ ReadWant
            \/ Quiescing \/ GiveUpStream \/ Plan
            \/ StreamFailed \/ WaitForGain \/ StartStream
            \/ Handshake \/ ActOtherwise \/ RingFaulted \/ Microphone
Main == Probes \/ Playback \/ Gate \/ Gain

Next == Host \/ IsoFails \/ RingFails \/ Main

Spec == Init /\ [][Next]_vars

\* The main loop runs for ever.  What it waits for ends by itself or by a
\* timeout: a gain transaction, a probe, the handshake and the drain.
GainEnds == Main /\ gainBusy /\ ~gainBusy'
CaptureEnds == CapturePoll /\ capStage = "running" /\ capStage' = "finished"
ProbeProceeds == ProbePoll /\ probeStage \in {"prepared", "running"} /\ probeStage' # probeStage
HandshakeEnds == HandshakeConfigures \/ HandshakeCompletes \/ HandshakeFails
DrainEnds == Quiescing /\ pb' # "quiesce"
FairSpec ==
  /\ Spec
  /\ WF_vars(Main)
  /\ SF_vars(GainEnds \/ CaptureEnds \/ ProbeProceeds \/ HandshakeEnds \/ DrainEnds)

-----------------------------------------------------------------------------
TypeOK ==
  /\ configured \in BOOLEAN
  /\ recovery \in BOOLEAN
  /\ playing \in BOOLEAN
  /\ mic \in BOOLEAN
  /\ epoch \in Epoch
  /\ trouble \in {"none", "opening", "closing", "iso"}
  /\ changes \in 0..MaxChanges
  /\ capStage \in {"none", "requested", "running", "finished"}
  /\ probeStage \in {"none", "requested", "prepared", "running", "finished"}
  /\ gainOpen \in BOOLEAN
  /\ gainBusy \in BOOLEAN
  /\ gainFault \in BOOLEAN
  /\ yielding \in BOOLEAN
  /\ uart \in BOOLEAN
  /\ pc \in {"allowCapture", "capture", "stream", "want", "plan", "act", "ring", "gate",
             "gain", "allowProbe", "probe"}
  /\ allowed \in BOOLEAN
  /\ snap \in [stream : BOOLEAN, epoch : Epoch, capture : BOOLEAN, want : BOOLEAN]
  /\ pb \in {"idle", "handshake", "running", "fault", "quiesce"}
  /\ pbEpoch \in Epoch
  /\ stopFault \in BOOLEAN
  /\ mode \in {"before", "configured", "complete", "failed", "drained"}
  /\ clock \in {"ready", "failed", "blocked"}
  /\ micOn \in BOOLEAN
  /\ ringOn \in BOOLEAN
  /\ ringEpoch \in Epoch
  /\ ringFault \in BOOLEAN
  /\ prepared \in BOOLEAN
  /\ failedEpoch \in Epoch \cup {NoEpoch}
  /\ closed \in BOOLEAN

(* UART3 never has two owners, and nobody stops it under its owner: it is  *)
(* running exactly while one of the handshake, the gain service and the    *)
(* two probes holds it, however their requests interleave with the host's. *)
UartOwners == {o \in {"playback", "gain", "capture", "probe"} :
                 \/ o = "playback" /\ pb \in {"handshake", "quiesce"}
                 \/ o = "gain" /\ gainOpen
                 \/ o = "capture" /\ capStage = "running"
                 \/ o = "probe" /\ probeStage = "running"}
UartOneOwner == Cardinality(UartOwners) = IF uart THEN 1 ELSE 0

(* The ring only plays for a stream that is being set up or running, and   *)
(* only the format this stream was started with; the microphone, whose     *)
(* clock is the ring's, only while a stream runs.                          *)
RingOfStream == /\ ringOn => pb \in {"handshake", "running"} /\ ringEpoch = pbEpoch
                /\ micOn => pb = "running"

(* A stream that failed is not started again behind the host's back: the   *)
(* format blamed last is only tried again after the host had closed all    *)
(* its streams ("preserve ... fault until stream closes").                 *)
FaultSticks ==
  [][pb = "idle" /\ pb' = "handshake" => pbEpoch' # failedEpoch \/ closed]_vars

(* Whatever the host does, and however it interleaves with the main loop,  *)
(* once it is quiet its last word is carried out: the stream it wants runs *)
(* with its format or is latched as failed (or the clock does not start),  *)
(* and if it wants none, nothing is left running.                          *)
Settled == IF configured /\ ~recovery /\ (playing \/ mic)
           THEN \/ pb = "running" /\ pbEpoch = epoch
                \/ pb = "fault"
                \/ clock # "ready"
           ELSE pb = "idle" /\ ~ringOn /\ ~micOn
EventuallySettled == <>[]Settled

(* "A successfully drained old generation cannot poison the host's new     *)
(* stream" (diagnostic_usb.c:2040).  It can: opening and closing the       *)
(* microphone does not change the format epoch, so that a microphone       *)
(* stream that is closed and opened again while the failed handshake       *)
(* drains is taken for the one that failed.                                *)
NewStreamNotPoisoned == <>[](pb = "fault" /\ mode = "drained" => ~closed)
=============================================================================
