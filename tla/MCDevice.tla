------------------------------ MODULE MCDevice -------------------------------
(***************************************************************************)
(* Model checking the parts of the device around the playback, one after   *)
(* the other in one run: `part' is the component that takes all the steps  *)
(* of a behaviour.  The constants of those that are proved about are the   *)
(* module's own, those of the others are given where each is instantiated. *)
(* Components have a variable of the same name in common to keep the state *)
(* small; in a behaviour only one of them uses it.                         *)
(***************************************************************************)
EXTENDS Integers

CONSTANTS
  \* of store: bound of the edits of the equaliser, over all restarts
  MaxEdits,
  \* of mcu: bytes of an envelope, indices of the gain, bounds of the gains and selections
  \* asked for and of what goes wrong, and the ports detected; of asks: bytes of an envelope,
  \* bounds of the commands given, of the queries of the host and of what goes wrong, and the
  \* ports detected; and of both the bound of the envelopes of one query
  GainBytes, Gains, MaxGains, MaxEvents, GainPorts, AskedBytes, MaxCommands, MaxAsks, MaxLost,
  AskedPorts, MaxSent,
  \* of usb: the highest volume, bounds of the requests, of the changes and of what fails
  Top, MaxRequests, MaxChanges, MaxFailures,
  \* of feedback: bounds of the packets of one opening and of the openings
  MaxPackets, MaxOpens,
  \* of mic: samples of a millisecond and of the ring, packets in which the clocks come a
  \* block apart, bound of what happens
  MicFrame, MicSize, MicDrift, MicEvents,
  \* of clock: timeouts, bound of the diagnostic requests
  XoTimeout, PllTimeout, DivTimeout, TotalTimeout, MaxStrays

VARIABLES
  part,   \* which component it is, from the start
  \* the variables that two or more components have
  inuse, host, claimed, pc, active, peer, configured, bound,
  \* of feedback alone
  desc, buf, irq, running, expected, bankSlot, owner, opens, last, old, fresh, completed,
  \* of cancel alone
  skip, mask, before, i, selected,
  \* of store alone
  slot, meta, stage, image, ackStatus, playing, restored, value, edits, noticed, settled, dirty,
  nextSeq, recovery, commit, confirmed, tried,
  \* of mcu alone
  life, pending, tx, gain, said, query, seen, selection, probe, env, mcu2, asked,
  \* of usb alone
  alternate, rate, failed, open, closing, volume, note,
  \* of mic alone
  wanted, started, opening, fault, primed, expectedB, fill, lost, silent, handler, taken, spent,
  dma, flags, pos, behind, lead, held, steady, events,
  \* of clock alone
  owned, attempted, blocked, wrote, t, now, phase, timing, xoSet, xoReady, pll, age, dividing,
  mclk, nominal, routed, stray, strays, partial

FeedbackBanks == INSTANCE IsoBanks WITH Kind <- "feedback"
Parking == INSTANCE IsoCancel
Pages == INSTANCE Storage
GainLink == INSTANCE Mcu2 WITH Bytes <- GainBytes, Gain <- Gains, Say <- {},
  Detected <- GainPorts, MaxSays <- MaxGains, Asked <- {}, MaxAsks <- 0
AskedLink == INSTANCE Mcu2 WITH Bytes <- AskedBytes, Gain <- {12}, Say <- {"lifecycle"},
  Detected <- AskedPorts, MaxSays <- MaxCommands, Asked <- {"version", "detect"},
  MaxEvents <- MaxLost
Function == INSTANCE AudioProbe
Microphones == INSTANCE Microphone WITH Frame <- MicFrame, SIZE <- MicSize,
  Drift <- MicDrift, MaxEvents <- MicEvents
Nominal == INSTANCE Microphone WITH Frame <- 48, SIZE <- 1024, Drift <- 48, MaxEvents <- 0
Sequencer == INSTANCE AudioClock

ASSUME DeviceAssumption ==
       Pages!EditsAssumption /\ GainLink!Mcu2Assumption /\ AskedLink!Mcu2Assumption /\
       Function!ProbeAssumption /\ Microphones!MicrophoneAssumption /\
       Nominal!MicrophoneAssumption /\ Sequencer!ClockAssumption /\
       FeedbackBanks!KindAssumption /\ FeedbackBanks!BoundsAssumption

\* A variable that the component does not have keeps this value.
Nothing == "nothing"
Without(v) == v = Nothing

feedbackOnly == <<desc, buf, irq, running, expected, bankSlot, owner, opens, last, old, fresh,
                  completed>>
cancelOnly == <<skip, mask, before, i, selected>>
storeOnly == <<slot, meta, stage, image, ackStatus, playing, restored, value, edits, noticed,
               settled, dirty, nextSeq, recovery, commit, confirmed, tried>>
mcuOnly == <<life, pending, tx, gain, said, query, seen, selection, probe, env, mcu2, asked>>
usbOnly == <<alternate, rate, failed, open, closing, volume, note>>
micOnly == <<wanted, started, opening, fault, primed, expectedB, fill, lost, silent, handler,
             taken, spent, dma, flags, pos, behind, lead, held, steady, events>>
clockOnly == <<owned, attempted, blocked, wrote, t, now, phase, timing, xoSet, xoReady, pll,
               age, dividing, mclk, nominal, routed, stray, strays, partial>>

NoFeedback == /\ Without(desc) /\ Without(buf) /\ Without(irq) /\ Without(running)
              /\ Without(expected) /\ Without(bankSlot) /\ Without(owner) /\ Without(opens)
              /\ Without(last) /\ Without(old) /\ Without(fresh) /\ Without(completed)
NoCancel == /\ Without(skip) /\ Without(mask) /\ Without(before) /\ Without(i)
            /\ Without(selected)
NoStore == /\ Without(slot) /\ Without(meta) /\ Without(stage) /\ Without(image)
           /\ Without(ackStatus) /\ Without(playing) /\ Without(restored) /\ Without(value)
           /\ Without(edits) /\ Without(noticed) /\ Without(settled) /\ Without(dirty)
           /\ Without(nextSeq) /\ Without(recovery) /\ Without(commit) /\ Without(confirmed)
           /\ Without(tried)
NoMcu == /\ Without(life) /\ Without(pending) /\ Without(tx) /\ Without(gain) /\ Without(said)
         /\ Without(query) /\ Without(seen) /\ Without(selection) /\ Without(probe)
         /\ Without(env) /\ Without(mcu2) /\ Without(asked)
NoUsb == /\ Without(alternate) /\ Without(rate) /\ Without(failed) /\ Without(open)
         /\ Without(closing) /\ Without(volume) /\ Without(note)
NoMic == /\ Without(wanted) /\ Without(started) /\ Without(opening) /\ Without(fault)
         /\ Without(primed) /\ Without(expectedB) /\ Without(fill) /\ Without(lost)
         /\ Without(silent) /\ Without(handler) /\ Without(taken) /\ Without(spent)
         /\ Without(dma) /\ Without(flags) /\ Without(pos) /\ Without(behind) /\ Without(lead)
         /\ Without(held) /\ Without(steady) /\ Without(events)
NoClock == /\ Without(owned) /\ Without(attempted) /\ Without(blocked) /\ Without(wrote)
           /\ Without(t) /\ Without(now) /\ Without(phase) /\ Without(timing) /\ Without(xoSet)
           /\ Without(xoReady) /\ Without(pll) /\ Without(age) /\ Without(dividing)
           /\ Without(mclk) /\ Without(nominal) /\ Without(routed) /\ Without(stray)
           /\ Without(strays) /\ Without(partial)

notFeedback == <<cancelOnly, storeOnly, mcuOnly, usbOnly, micOnly, clockOnly, active, peer,
                 configured, bound>>
notCancel == <<feedbackOnly, storeOnly, mcuOnly, usbOnly, micOnly, clockOnly, host, configured,
               bound>>
notStore == <<feedbackOnly, cancelOnly, mcuOnly, usbOnly, micOnly, clockOnly, inuse, host,
              claimed, peer, bound>>
notMcu == <<feedbackOnly, cancelOnly, storeOnly, usbOnly, micOnly, clockOnly, inuse, host,
            claimed, pc, active, peer, configured>>
notUsb == <<feedbackOnly, cancelOnly, storeOnly, mcuOnly, micOnly, clockOnly, inuse, claimed,
            pc, active>>
notMic == <<feedbackOnly, cancelOnly, storeOnly, mcuOnly, usbOnly, clockOnly, inuse, host,
            claimed, peer, bound>>
notClock == <<feedbackOnly, cancelOnly, storeOnly, mcuOnly, usbOnly, micOnly, inuse, host,
              claimed, active, peer, configured, bound>>

Init ==
  \/ /\ part = "feedback" /\ FeedbackBanks!Init /\ NoCancel /\ NoStore /\ NoMcu /\ NoUsb
     /\ NoMic /\ NoClock /\ Without(active) /\ Without(peer) /\ Without(configured)
     /\ Without(bound)
  \/ /\ part = "cancel" /\ Parking!Init /\ NoFeedback /\ NoStore /\ NoMcu /\ NoUsb /\ NoMic
     /\ NoClock /\ Without(host) /\ Without(configured) /\ Without(bound)
  \/ /\ part = "store" /\ Pages!Init /\ NoFeedback /\ NoCancel /\ NoMcu /\ NoUsb /\ NoMic
     /\ NoClock /\ Without(inuse) /\ Without(host) /\ Without(claimed) /\ Without(peer)
     /\ Without(bound)
  \/ /\ part = "mcu" /\ GainLink!Init /\ NoFeedback /\ NoCancel /\ NoStore /\ NoUsb /\ NoMic
     /\ NoClock /\ Without(inuse) /\ Without(host) /\ Without(claimed) /\ Without(pc)
     /\ Without(active) /\ Without(peer) /\ Without(configured)
  \/ /\ part = "asks" /\ AskedLink!Init /\ NoFeedback /\ NoCancel /\ NoStore /\ NoUsb /\ NoMic
     /\ NoClock /\ Without(inuse) /\ Without(host) /\ Without(claimed) /\ Without(pc)
     /\ Without(active) /\ Without(peer) /\ Without(configured)
  \/ /\ part = "usb" /\ Function!Init /\ NoFeedback /\ NoCancel /\ NoStore /\ NoMcu /\ NoMic
     /\ NoClock /\ Without(inuse) /\ Without(claimed) /\ Without(pc) /\ Without(active)
  \/ /\ part = "mic" /\ Microphones!Init /\ NoFeedback /\ NoCancel /\ NoStore /\ NoMcu /\ NoUsb
     /\ NoClock /\ Without(inuse) /\ Without(host) /\ Without(claimed) /\ Without(peer)
     /\ Without(bound)
  \/ /\ part = "rate" /\ Nominal!Init /\ NoFeedback /\ NoCancel /\ NoStore /\ NoMcu /\ NoUsb
     /\ NoClock /\ Without(inuse) /\ Without(host) /\ Without(claimed) /\ Without(peer)
     /\ Without(bound)
  \/ /\ part = "clock" /\ Sequencer!Init /\ NoFeedback /\ NoCancel /\ NoStore /\ NoMcu /\ NoUsb
     /\ NoMic /\ Without(inuse) /\ Without(host) /\ Without(claimed) /\ Without(active)
     /\ Without(peer) /\ Without(configured) /\ Without(bound)

\* The component p takes a step, and the variables of the others stay.
Of(p, Step, rest) == part = p /\ Step /\ UNCHANGED <<part, rest>>

Feedback(Step) == Of("feedback", Step, notFeedback)
Cancel(Step) == Of("cancel", Step, notCancel)
Store(Step) == Of("store", Step, notStore)
Mcu(Step) == Of("mcu", Step, notMcu)
Asks(Step) == Of("asks", Step, notMcu)
Usb(Step) == Of("usb", Step, notUsb)
Mic(Step) == Of("mic", Step, notMic)
Rate(Step) == Of("rate", Step, notMic)
Clock(Step) == Of("clock", Step, notClock)

Next ==
  \/ Feedback(FeedbackBanks!Next)
  \/ Cancel(Parking!Next)
  \/ Store(Pages!Next)
  \/ Mcu(GainLink!Next)
  \/ Asks(AskedLink!Next)
  \/ Usb(Function!Next)
  \/ Mic(Microphones!Next)
  \/ Rate(Nominal!Next)
  \/ Clock(Sequencer!Next)

vars == <<part, inuse, host, claimed, pc, active, peer, configured, bound, feedbackOnly,
          cancelOnly, storeOnly, mcuOnly, usbOnly, micOnly, clockOnly>>

\* The variables of the component that runs.
ownVars ==
  CASE part = "feedback" -> <<inuse, host, claimed, pc, feedbackOnly>>
    [] part = "cancel" -> <<inuse, claimed, pc, active, peer, cancelOnly>>
    [] part = "store" -> <<pc, active, configured, storeOnly>>
    [] part \in {"mcu", "asks"} -> <<bound, mcuOnly>>
    [] part = "usb" -> <<host, peer, configured, bound, usbOnly>>
    [] part \in {"mic", "rate"} -> <<pc, active, configured, micOnly>>
    [] OTHER -> <<pc, clockOnly>>

\* The fairness of the components, each of which is the only one that runs.
By(p) == part = p /\ UNCHANGED part
Spec ==
  /\ Init /\ [][Next]_vars
  /\ WF_ownVars(\/ By("feedback") /\ FeedbackBanks!Progress
                \/ By("cancel") /\ Parking!Loop
                \/ By("store") /\ Pages!Runs
                \/ By("mcu") /\ GainLink!Polls
                \/ By("asks") /\ AskedLink!Polls
                \/ By("usb") /\ Function!Poll
                \/ By("clock") /\ Sequencer!Main)
  /\ WF_ownVars(\/ By("cancel") /\ Parking!Skip(0)
                \/ By("store") /\ Pages!TwoSeconds
                \/ By("mcu") /\ GainLink!Serves
                \/ By("asks") /\ AskedLink!Serves
                \/ By("usb") /\ Function!HostTakes
                \/ By("clock") /\ Sequencer!PollsOut)
  /\ WF_ownVars(\/ By("cancel") /\ Parking!Skip(1)
                \/ By("usb") /\ Function!Complete)
  /\ WF_ownVars(By("usb") /\ Function!HostReads)
  /\ <>[](part = "store" => ~Pages!Saves("erase")) \/ []<>(part = "store" /\ Pages!Saves("good"))

-----------------------------------------------------------------------------
\* Seen from each endpoint the loop that cancels does what IsoPark says, and a request to
\* park is never taken back, from reads that are stale when they are used
\* (usb_iso_lpc5528.c 180-240).
ParksAsSpecified == /\ part = "cancel" => Parking!ParkInit
                    /\ [][part = "cancel" => Parking!ParkStep /\ Parking!KeepsSkip]_vars

\* A recovery that the host has committed to, which a page calls for at the next start, is
\* called for until the loader has the processor: neither the reset nor a power loss ends in
\* anything else (diagnostic_usb.c 2212-2228).
CallKept == [][part = "store" => Pages!CallHolds]_vars

\* What is begun ends: the cancellation releases both endpoints or gives up, a feedback
\* packet that was sent is followed by the next (usb_iso_lpc5528.c 95-240), an
\* attempt to bring up the clock is over, also when the milliseconds stand still
\* (diagnostic_usb.c 1875-1962), and a committed recovery reaches the loader, also when
\* power fails first (diagnostic_usb.c 2212-2228).
CarriedOut == /\ []<>(CASE part = "cancel" -> pc \in {"idle", "failed"}
                        [] part = "feedback" -> ~running \/ last >= host
                        [] part = "store" -> ~Pages!Called
                        [] part = "clock" -> Sequencer!Attempted
                        [] OTHER -> TRUE)
              /\ CallKept

\* Whenever power fails, the equaliser that the next start restores is one that was
\* saved, or whose writing was begun since (eq_persist.c 51, eq_nvm.c 57-68); and nothing
\* undoes the preparation of a recovery the host has committed to, nor does a failed one
\* authorise the reset (diagnostic_usb.c 480-502, 2212-2228).
FlashHolds == part = "store" => Pages!SavedSurvives /\ Pages!CommitVerified

\* A changed equaliser reaches the flash once playback stops, also when writes fail and
\* power is lost, unless a recovery or a restart comes first (eq_persist.c 35-57).
StoredInTheEnd ==
  <>[](part = "store" => ~playing) => []<>(part = "store" => Pages!SavedOrOver)

\* What is told is so: the status shows no gain as sent that was asked for before the latest
\* (mcu2_runtime.c 194-198); a query of the host succeeds only after a reply that came when
\* an envelope of it was completed since it was taken, and only with an answer to such an
\* envelope if none was unanswered before (mcu2_runtime.c 120-210, mcu2_probe.c 43-62); and
\* the host has the volume or is about to read it (volume.c 63-79, audio_probe.c 350-367).
ToldTruly == CASE part = "mcu" -> GainLink!GainTold
               [] part = "asks" -> AskedLink!AnswerSince
               [] part = "usb" -> Function!HostTold
               [] OTHER -> TRUE

\* What is under way is whole: an envelope is of one command, whatever is asked for
\* meanwhile (mcu2_runtime.c 244-266), a feedback slot that is armed is owned by the
\* hardware and by one bank (usb_iso_banks.c 78-140), a stream has all its endpoints, none
\* of them still closing (audio_probe.c 158-230), the microphone's samples come out whole
\* and without a gap (microphone.c 16-108), and the audio has no clock but one that has
\* settled, was not programmed over a part of another, and is found again by the next
\* playback (audio_clock.c 143-168, diagnostic_usb.c 286-305).
Whole == CASE part \in {"mcu", "asks"} -> GainLink!Unmixed
           [] part = "feedback" -> FeedbackBanks!SlotOwnership
           [] part = "usb" -> Function!StreamOwned
           [] part = "mic" -> Microphones!BlockWhole /\ Microphones!Gapless
           [] part = "rate" -> Nominal!BlockWhole /\ Nominal!Gapless
           [] part = "clock" -> Sequencer!Settled /\ Sequencer!NotRetried /\ Sequencer!FoundAgain
           [] OTHER -> TRUE

\* Nothing is done on old news: a selection is observed only in a later report
\* (mcu2_runtime.c 236-243), and the headset's dial yields to a newer volume
\* (audio_probe.c 482-487).
NotOnOldNews ==
  [][CASE part = "mcu" -> GainLink!ObservesNewer
       [] part = "usb" -> Function!YieldsToHost
       [] OTHER -> TRUE]_vars

\* What is asked for is decided: a gain, a selection and a query of the other processor
\* (mcu2_runtime.c 228-298), and the volume the host is to know (audio_probe.c 350-367).
Decided == []<>(CASE part = "mcu" -> GainLink!AllDecided
                  [] part = "asks" -> AskedLink!AllDecided /\ ~AskedLink!Busy
                  [] part = "usb" -> Function!Informed
                  [] OTHER -> TRUE)
=============================================================================
