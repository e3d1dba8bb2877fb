# A verification project for the Open Omni MCU1 firmware

Open Omni is a custom firmware for MCU1 (an NXP LPC5528) of a USB headset base
station. The code is C, bare metal, in `src/firmware/mcu1-source/{src,include}`;
paths below are relative to `src/firmware/mcu1-source/src` unless they start with
`src/`. This directory holds TLA+ models of its concurrent core, TLC
configurations that check them on small instances, and TLAPS proofs of theorems
that hold for every value of the constants. `PROJECT.json` is the index:
components, runs, properties with a mutant each, the line map from definition to
code, findings, hazards and theorems.

## 1. The system

### Who runs when

| actor | preempts | what it does |
|---|---|---|
| main loop (`diagnostic_usb.c` 2144-2228) | nothing | polls every service in a fixed order, for ever; cooperative |
| USB interrupt (priority 3) | main | control requests, endpoints, isochronous banks, mailbox submission |
| DMA0 interrupt (priority 2) | main and USB | renders one block of the playback ring |
| UART interrupts (5), SysTick (7) | main | receive ring and transmit FIFO; milliseconds |
| hardware | everybody | DMA channel, endpoint controller, UART shifter |
| peers | | DSP on UART3, MCU2, the host |

There are no threads and no locks. All synchronisation is by priority (a lower
context never interrupts a higher one), by the order of stores to shared flags,
by published indices (`audio_queue.c`), by masking one interrupt, or by polling.
The hard behaviours follow from that: a flag read by the main loop and changed
by the USB interrupt before it is used, a refill overtaken by the DMA channel,
hardware registers that change between two reads, a serial port handed from one
service to another, and a handshake given up in the middle of a byte string.

### Components, their state, operations and interactions

| component | state | operations | interacts with | correct when |
|---|---|---|---|---|
| packet queue (`audio_queue.c`) | slots, `written`, `read` | init, push (USB), render (DMA) | endpoint, DMA interrupt | accepted frames are played once, in order, unmodified; a packet is accepted whole or not at all |
| isochronous banks (`usb_iso_banks.c`) | bank to slot, slot owner, `expected`, `running` | open, service, stop, quiesced | controller, reader of packets | no slot is at once armed and readable, none is lost, packets are served in order |
| isochronous driver (`usb_iso_lpc5528.c`) | endpoint descriptors, EPINUSE, EPSKIP | interrupt, cancel, fail | controller, USB stack | a cancel parks and releases without touching a bank in use, and ends |
| playback ring (`usb_audio_ring.c`) | `active`, `prepared`, format epoch, two DMA blocks | start, DMA setup, activate, stop, reset, write, interrupt, servo | queue, DMA channel, main loop | never mixes formats, cleared only when idle, damage is noticed |
| playback manager (`diagnostic_usb.c` 1964-2119) | `pb_state`, `pb_format`, stop fault | poll: read request, quiesce, start, handshake, run, fail | endpoint state, UART3, ring, handshake, microphone | follows the host's last request; failures stay with the stream they belong to |
| audio class (`audio_probe.c`) | alternates, epoch, failure flag, volume | set interface, configuration, reset, requests, notification | manager, endpoints, volume | every change is visible to the manager's next poll |
| DSP handshake (`audio_mode.c`) | state, frame, offset, stamps, acknowledgement | begin, poll, receive, quiesce | UART3, ring, DSP | four whole frames in order, each quiet before and acknowledged; port released |
| UART driver (`control_uart.c`) | rings, `active`, `failed` | start, stop, tx, rx, interrupt | all clients of UART3 | one owner; failure is latched until restart |
| native gain service (`native_gain_adapter.c`) | who may start, mode repair, yielding, gate of the playback | open, poll of every client in turn, yield, release | UART3, manager, its clients | one client at a time, at a quiet boundary of the line; every reservation ends; the gate opens only behind a verified gain |
| gain (`native_gain.c`, `dsp_gain_trial.c`) | levels wanted, submitted and verified; step and phase of a transaction | wish, poll, cancel | UART3, mixer | a write is sent once and believed only when read back; lanes of others are kept |
| headset's gain (`headset_gain.c`) | operation, levels, revisions, deferred write | poll, remote report, link | UART3, volume | headset and host agree in the end; a newer volume of the host wins |
| reading clients (`headset_battery.c`, `headset_query.c`, `dsp_meter.c`) | phase, token, validity, two cache slots | poll, request, publish | UART3, USB interrupt | no answer is taken for another's; the host reads pages of one reply |
| settings client (`dsp_settings.c`, `mixer_control.c`) | request, generation of the link, cache | submit, poll, yield | UART3, mailbox, mixer, menu | a setting is accepted only under the link and mode it was made for |
| menu client (`remote_menu.c`) | intent, frames to send, mode | request, poll, remote frame | UART3, user interface | headset and base station show the same menu |
| DSP probes (`dsp_capture_probe.c`, `dsp_probe.c`, `dsp_volume_probe.c`) | stage, token | request, poll | UART3, manager | one owner of the port; one transaction for a token |
| settings mailbox, HID reports (`diagnostic_usb.c`) | phase, operation | submit, take, answer | USB interrupt, main loop | no operation lost, replaced or answered twice |
| storage (`eq_persist.c`, `eq_nvm.c`, `boot_ack.c`) | two EQ pages, one metadata page | change, poll, write; acknowledge | flash, manager | the newest complete page survives a power loss |
| volume (`volume.c`, `audio_probe.c`) | level, revision, pending bits | dial, host set, notify, complete | USB, DSP gain | what the host does not know it is told |
| microphone (`microphone.c`) | ring, primed | push, send | DMA and USB interrupts | no torn sample, recovery after underrun |
| clock (`audio_clock.c`, `audio_clock_startup.h`, bring-up in `diagnostic_usb.c`) | step, registers, ownership, attempts | prepare, reuse, program, tear down | PLL, I2S, manager | MCLK is never fed from a PLL that has not settled; an attempt ends |
| feedback (`audio_rate.c`, `sof_capture.c`) | integral | update | ring fill, PLL | bounded output |
| MCU2 link (`interchip.c`, `mcu2_*.c`) | parser, transaction | feed, expire, poll | MCU2 | an answer is of the kind asked for and came after an envelope of that kind, as far as replies without identifier allow |
| user interface, display, charger, guards, start-up | | | | sequential; only the keys and settings they give to the clients are modelled, see section 7 |
| host tools (`src/tools`, `src/firmware/rebuild-re`) | | | bootloader | out of scope, see section 7 |

## 2. Modules

| module | models | remarks |
|---|---|---|
| `AudioFifo` | what the packet queue promises: a bounded FIFO of whole packets, rendered by the block | abstract specification |
| `AudioQueue`, `MCAudioQueue` | `audio_queue.c` | implements `AudioFifo` by a refinement mapping |
| `AudioQueueProof` | theorems about `AudioQueue` | TLAPS |
| `IsoBanks` | `usb_iso_banks.c` with the interrupt of `usb_iso_lpc5528.c` and the controller | receiver and sender by the constant `Kind` |
| `IsoBanksProof` | theorems about `IsoBanks` | TLAPS |
| `IsoPark` | one endpoint's orderly cancellation | abstract specification |
| `IsoCancel` | the cancellation loop, register access by register access, both endpoints | implements `IsoPark` twice |
| `PlaybackRing` | `usb_audio_ring.c`: three contexts and the DMA channel | |
| `PlaybackRingProof` | theorems about `PlaybackRing` | TLAPS |
| `PlaybackLifecycle` | the playback manager and the services that share UART3 with it, against host and fault interrupts | |
| `PlaybackLifecycleProof` | theorems about `PlaybackLifecycle` | TLAPS |
| `Storage` | the two equaliser pages and the metadata page, the main loop that writes them, power loss, and the recovery reports | |
| `AudioMode` | `audio_mode.c` as driven by the manager, the UART FIFO, the line and the DSP | |
| `AudioModeProof` | theorems about `AudioMode` | TLAPS |
| `Exchange` | what every client of UART3 does with one request: bytes handed over, on the wire, answers owed, receive ring | extended by the next seven |
| `GainTrial` | `dsp_gain_trial.c`: one gain transaction, step by step | extended by two |
| `NativeGain` | `native_gain.c`: the owner of the gain, transaction after transaction | over `GainTrial` |
| `GainProbe` | `dsp_volume_probe.c` and `dsp_volume.c`: the volume probe and the host's trials | over `GainTrial` |
| `ReadClients` | `headset_battery.c`, `headset_query.c`, `dsp_meter.c` | instantiated twice |
| `DspSettings` | `dsp_settings.c`, the mailbox of `diagnostic_usb.c`, `mixer_control.c` and the menu as submitters, a probe that takes the port | |
| `HeadsetGain` | `headset_gain.c` with the dial, the link and the volume | |
| `RemoteMenu` | `remote_menu.c` with the key and menu handling of `ui.c` and the queue of `controls.c` | |
| `GainArbiter` | `native_gain_adapter.c`: whose turn it is | what a client does in its turn is left open |
| `Mcu2` | `mcu2_runtime.c`, `mcu2_probe.c` and the processor at the other end | |
| `AudioProbe` | `audio_probe.c` and `volume.c`: alternates, endpoints, volume and its notification | |
| `Microphone` | `microphone.c`: DMA, interrupt, ring, packets, start and stop | |
| `AudioClock` | the bring-up of the clock: `audio_clock.c`, `audio_clock_startup.h`, `bring_up_local_ready` | |
| `MCDspReads`, `MCDspUsers`, `MCDevice` | several components checked in one run | see below |
| `DspReadsProof` | theorems about `MCDspReads`, all five parts | TLAPS |
| `DspUsersProof` | theorems about `MCDspUsers`, all four parts | TLAPS |
| `DeviceProof` | theorems about `MCDevice`, all nine parts | TLAPS |

### How components are checked together

The components that meet are composed inside one module (main loop, interrupts and
DMA in `PlaybackRing`; manager, probes and gain service in `PlaybackLifecycle`;
mailbox, client, mixer and menu in `DspSettings`). Those that do not are put side
by side by the three composite modules: a variable `part`, chosen by `Init` and never
changed, names the component that takes all the steps of a behaviour; each
component is an INSTANCE with the variables it needs, a variable of the others has
the value `Nothing`, and components share variables of the same name so that a
state stays small. A property of such a run is stated once and says, part by part,
what it means for each component (`BelievedIsSo`, `Whole`, ...), so that one run asks
one sort of question of many components. Its fairness joins the components' own
conditions by `\/`, which is sound as only one disjunct can be enabled in a
behaviour. A part does not interact with another part of its run: where that
matters, the other is in the part's own module (`DspSettings` has the rest of the
gain service as `claim` and `port`).

Each operator named for a C function or for a step of one carries the lines it
models in `PROJECT.json` ("map"). Names ending in the description of a bug
(`PushPublishEarly`, `TeardownAnyOwner`, ...) are mutants: no specification uses
them, and each property names the one it must reject (`ToldTruly`, which names
`AnsweredAny`, rejects `GainSentLatest` too). Every module states `TypeOK`
(or a name with it) as the type of its variables; it is there to be read and to
start a proof from. `QueueCorrect`, `IsoCorrect`, `RingCorrect`, `LifecycleCorrect`
and `ModeCorrect` prove it of their modules.

### State and actions against the code

* **AudioQueue.** `pcm`, `written`, `read` are the C fields. `usb` is the local
  state of a push in progress: its packet, the `w` read at its start and the loop
  index. A push is four actions (admit or refuse; copy one frame; publish), since
  the DMA interrupt can preempt it anywhere; a render is one action, as nothing
  preempts it but the hardware. `written` and `read` count modulo `Wrap`, which
  stands for 2^32. `overflowed` and `underrun` keep of the statistics only
  whether they are non-zero.
* **IsoBanks.** `desc` is the ACTIVE bit and buffer of both descriptors, `inuse`
  the controller's selector, `bankSlot`, `owner`, `expected`, `running`,
  `claimed` the C fields. `buf` numbers the packets so that order can be stated,
  `host` and `last` count what the bus carried and what was consumed. `Token` is
  the controller; it can run between any two actions, also between the read of a
  packet (`ServiceRead`), the re-arming (`ServiceArm`) and the call of the
  consumer (`ServiceConsume`). Cancel is split at the loop's phases; `IsoCancel`
  refines that split to single register accesses.
* **IsoCancel.** One action per read or store of EPINUSE, EPSKIP and the
  descriptors in `omni_usb_iso_cancel`, with the locals of the loop as variables,
  so that what was read may be stale when it is used.
* **PlaybackRing.** `main`, `usb`, `isr` are the positions of the three contexts;
  the enabling conditions encode the priorities (`MainRuns`, `UsbRuns`). The DMA
  channel (`enabled`, `busy`, `head`, `flags`) moves by itself. Audio is reduced
  to the set of epochs whose frames the queue and each of the two blocks hold.
  `fresh` and `damaged` record a block played without a finished refill.
* **PlaybackLifecycle.** `pc` walks once round the main loop through the
  services that matter, in the code's order. `ReadStream` and `ReadWant` are the
  separate reads of the endpoint state; everything read is kept in `snap` and
  used later, while `Host`, `IsoFails` and `RingFails` may run between any two
  steps. `uart` is the port, `gain*`, `cap*`, `probe*` its other clients.
  `failedEpoch` and `closed` are history variables for the fault properties.
* **AudioMode.** `state`, `frame` and `offset` are the C state machine with its
  twelve sending states folded into send/drain/gap for each of four frames.
  `fifo`, `rx`, `peer` are the transmit FIFO, the receive ring and the DSP's
  parser. `t` is the time the service sampled at the top of its poll and uses
  all through it; `now` moves on meanwhile.
* **Storage.** `slot` is the sequence number and value of each equaliser page,
  0 when the page is blank or torn, `meta` the flags of the metadata page, `image`
  the buffer being written to it. `pc` walks round the services of the main loop
  that touch flash or wait for it. A page write is one action per ROM call
  (`stage`), each with its failing outcomes, and `Crash` may come between any two;
  a write cut inside a call leaves what one of its neighbours leaves. Generations
  and times of `eq_persist.c` are reduced to `dirty`, `noticed` and `settled`.
  `confirmed` and `tried` are history variables. The USB interrupt may run wherever
  `Masked` is false: also between the poll's look at the playback alternate and the
  masking in `omni_eq_nvm_flash_write`. The loader (`Boot`, `LeaveLoader`) is
  external and follows what `SOFTWARE-RECOVERY-2026-09-08.md` reports of it.

* **Exchange.** `sent` counts the bytes of the request that the transmitter has
  accepted, `wire` is the frame that has not left yet, `owed` the answers the peer
  has still to give, in any order, and `rx` the frames in the receive ring. A poll
  that sends, observes and reads is a sequence of polls doing one each. Time is a
  poll that goes on or fails: any time may have passed since the last one.
* **GainTrial, NativeGain, GainProbe.** `phase`, `step`, `acked`, `replied`, `tries`,
  `original`, `reduced`, `observed` are the C record. `dsp` and `posted` are the
  DSP's gain and the writes it has acknowledged and not performed. `writes`, `met`
  and `raced` are history. Each `Advance...` is one arm of the step switch;
  `OtherWrites` is the headset or the vendor's software. `NativeGain` adds the
  levels `desired`, `submitted`, `verified` and the caller's `online`, `fault` and
  resets; `ending` is the rest of a poll in which the transaction has ended.
  `GainProbe` adds the probe's own query (`vphase`, `index`), the host's token and
  the ownership of the port.
* **ReadClients.** `who` is the client whose request is under way; `begun` records
  when the first byte of a frame was read, since a frame that began before the
  request was handed over is no answer. The meter's `PublishStep` is one store of
  `publish()`, between which the USB interrupt may read a page.
* **DspSettings.** `turn` walks round the main loop: mailbox, service, publication
  with the mixer, menu. `req` is the transaction with its generation of the link,
  `mail` the mailbox, `snap` the published status the interrupt copies, `claim` who
  else wants the port. `was` and `handed` are history.
* **HeadsetGain.** `g` is the C record with the C field names, `begun` the frame being
  read with the revision it began under, `echo` a write the headset has not echoed.
  Answer, echo and dial report are one kind of frame, as on the wire. `missed` names
  the events after which the client cannot know better.
* **RemoteMenu.** `m` is the C record, `queue` the events the interface has not
  taken, `ui` its menu, `dsp` the mode the headset is in; a frame is observed by the
  client at once and by the interface later in the turn.
* **GainArbiter.** `at` is the place in a turn; `sample` holds what is sampled at its
  beginning and used by all later polls. A client goes on, ends or fails.
* **Mcu2.** `pending` is the latest value of each kind, `tx` the envelope being
  sent, `env` what the other end has received of it, byte by byte. `probe` is the
  query the USB interrupt hands over, with phases stored one after the other.
  `asked` is a ghost the code has no counterpart of: which envelope the first reply
  after an envelope completed answers, one from before the main loop took the query
  or one begun since. `Byte` and `Complete` are separate, so a reply may come between
  them, which the code's one loop does not allow; it is refused.
* **AudioProbe.** A request is one action with the set of endpoints that fail to open
  or close; `closing` are those that the controller may still hold. `note` is the
  notification on its way, with the revision it was sent for.
* **Microphone.** Half a block is the unit of the DMA (`pos`), a sample that of the
  ring (`fill`). The interrupt's read of the flags, copy, verification and publication
  are separate actions (`handler`), so are the steps of start and stop (`pc`); the
  packet masks interrupts and is one action during which the DMA goes on. `lead` and
  `held` measure how far the two clocks have drifted apart.
* **AudioClock.** One action per register group of the sequencer; `now` is read before
  the poll that uses it, and interrupts may pass `Tick`s in between, also between
  that read and the store which starts the PLL. `partial` observes that registers
  have been written since a clock was last ready.

## 3. What each run checks

| run | instance | properties | what they say |
|---|---|---|---|
| `audio_queue` | 4 slots, packets of 1-2 frames, blocks of 2, counters modulo 8 | `Bounded`, `Copying`, `NoLiveOverwrite`, `ImplementsFifo` | fill never exceeds the ring; a push has stored just the frames it passed, outside the published ones; no step changes a published frame; the whole is a FIFO of packets |
| `iso_banks_rx` | receiver, 5 packets, 2 opens | `SlotOwnership`, `NoSlotLost`, `InOrder`, `NoOverwriteWhileReading`, `EveryPacketServed` | ownership of slots, order of packets, nothing overwritten while it is read, nothing left behind |
| `playback_ring` | 2 epochs, DMA errors | `OneEpoch`, `ClearExclusive`, `DamageDetected`, `DamageStops` | formats do not mix; the clear has the ring to itself; damage is noticed and stops the ring |
| `playback_ring_stop` | 1 epoch | `StopEnds` (violated) | finding 1 |
| `playback_lifecycle` | 3 changes, all seven kinds of request | `UartOneOwner`, `RingOfStream`, `FaultSticks`, `EventuallySettled` | one owner of UART3; ring and microphone only for the stream that runs; no silent retry of a failed stream; the last request is carried out or latched as failed |
| `playback_poison` | 3 changes of the microphone | `NewStreamNotPoisoned` (violated) | finding 2 |
| `audio_mode` | frames of 2 bytes, clock modulo 16, timeout 13 | `WholeFrames`, `InStep`, `QuietBefore`, `PortReleased` | whole frames; the ring restarts only behind two matched answers; quiet line before a frame and before release; the port is given back |
| `audio_mode_stop` | the same | `CleanStop` (violated) | finding 3 |
| `dsp_reads` | parts `gain`, `probe`, `reads`, `meter`, `turns` | `HandedOnce`, `BelievedIsSo`, `OthersKept`, `GainSettles`, `Ends` | no request is sent twice; what a client holds to be so is so; lanes and turns of others are left alone; the gain comes to what is wanted; probes, queries, turns and reservations end |
| `dsp_users` | parts `settings`, `headset`, `menu`, `links` | `WrittenOnce`, `BelievedIsSo`, `HostKept`, `OneAnswer`, `HeadsetSettles`, `Ends` | no write twice; a setting, a loudness or a menu mode believed is so; a newer volume of the host wins; one answer for each setting; the headset comes to the volume; settings and menu intents end |
| `mail` | `DspSettings` with a probe | `MailEnds` (violated) | finding 4 |
| `device` | parts `feedback`, `cancel`, `store`, `mcu`, `asks`, `usb`, `mic`, `rate`, `clock` | `FlashHolds`, `ToldTruly`, `Whole`, `ParksAsSpecified`, `CarriedOut`, `StoredInTheEnd`, `NotOnOldNews`, `Decided` | pages survive a power loss; reports are true; envelopes, streams, samples and clocks are whole; endpoints are parked as `IsoPark` says; what is begun ends; an edit is saved; nothing is done on old news; what is asked is decided |

What the properties of a composite mean for each part (the names on the right are
defined in the part's module):

| property | part | |
|---|---|---|
| `HandedOnce` | `gain`: `SetOnce`; `probe`: `OneTransaction`; `reads`, `meter`: `QueryOnce` | a lost answer leads to a repeated read, never to a repeated write; a token to one transaction |
| `BelievedIsSo` (`dsp_reads`) | `gain`, `probe`: `DoneHeld`; `reads`: `BatteryOfLink`; `meter`: `PagesAgree`; `turns`: `GateProved` | the DSP has had the gain since the transaction began; a battery belongs to a headset that is there; two pages are of one reply; an open gate has a gain and mode behind it |
| `OthersKept` | `gain`: `KeepsOthers`, `VerifiesHeld`; `probe`: `KeepsOthers`; `turns`: `StartsAlone` | a write changes no lane it is not about, unless another writer came between; a client starts only when no other is under way |
| `WrittenOnce` | `settings`: `HostSetOnce`; `headset`: `TwoWrites` | a setting is handed over once; a loudness once more only after its read-back |
| `BelievedIsSo` (`dsp_users`) | `settings`: `SetUnderThisLink`, `ModeSwitched`; `headset`: `InStep`; `menu`, `links`: `MenuKnown`, `MenuIntent` | with the exceptions that `missed` names |
| `HostKept` | `headset`: `KeepsHost`, `TakesDialed` | an echo or a stale report never becomes the host's volume |
| `Whole` | `mcu`, `asks`: `Unmixed`; `feedback`: `SlotOwnership`; `usb`: `StreamOwned`; `mic`: `BlockWhole`, `Gapless`; `rate`: the same; `clock`: `Settled`, `NotRetried`, `FoundAgain` | no mixed envelope, slot in two hands, half-open stream, torn or missing sample, unsettled clock |
| `ToldTruly` | `mcu`: `GainTold`; `asks`: `AnswerSince`; `usb`: `HostTold` | a status has the gain sent last; a query succeeds only after a reply that came when an envelope of it had been completed since it was taken, which is an answer to such an envelope if none was unanswered before (section 4 on the other case); what the host does not know it is about to read |
| `NotOnOldNews` | `mcu`: `ObservesNewer`; `usb`: `YieldsToHost` | a selection is confirmed only by a later report; the dial yields to a newer volume |
| `CarriedOut` | `cancel`, `feedback`, `clock`, `store` | the loop releases or gives up; packets follow; an attempt is over; a commit reaches the loader |
| `Decided` | `mcu`: `AllDecided`; `asks`: the same, and the query is not busy; `usb`: `Informed` | infinitely often |

### Bounds, and why they are enough

* `audio_queue`: with 4 slots, packets of 1 or 2 and blocks of 2, the ring is
  full, empty, and filled to every level at every alignment of the slot index;
  counters modulo 8 wrap after two turns. The theorems of section 5 remove the
  bounds.
* `iso_banks_rx` and `feedback`: five packets go round both banks and all slots and
  leave one more; two opens exercise reopening after a cancel or a failure in every
  state. `IsoBanksProof` removes both bounds for the safety properties.
* `cancel`: no bound; the hardware has two endpoints of two banks.
* `playback_ring`: two epochs suffice for "old against new"; blocks alternate.
* `playback_*`: `MaxChanges` counts host requests, failures and resets. Three
  cover open, close, reopen and any fault between. A change closes, opens or
  fails something, and the manager can be at any of its steps when it occurs.
* `audio_mode`: a frame of two bytes can be split once, which distinguishes
  "nothing", "part" and "all" of a frame; the code's frames are longer but are
  treated alike byte for byte. The delays (20, 50 and 75 ms, and the timeout of
  1 s) become 2, 2, 2 and 13 ticks, the smallest that leave room for four frames
  before the timeout and for the clock (modulo 16, started at 11) to wrap in the
  middle. `MaxSlip` ticks may pass between sampling and use, `MaxLoop` between two
  samples; the assumption `Wrap > Timeout + MaxLoop` is what makes an unsigned
  difference meaningful, and holds in the code by six orders of magnitude.
* Clients of UART3: `Bytes` and `RxFrames` are 1. A request is then handed over or
  not, on the wire or not; a partly sent request is treated like one not yet sent
  everywhere but in a yield, and the line is drained in either case before the port
  is left. One frame in the receive ring is the answer, the event or the late frame
  in any order; a second one waits in `owed`. Two lanes are one the mixer owns and
  one it does not; two levels are wanted and other; `Attempts` is 2 (a read-back and
  its repetition), one write of another writer, one withdrawal of the port.
* `reads`, `meter`: one token, so that its repetition is a repeated one; three
  replies use both slots of the meter's cache again while a page is read.
* `turns`: `settings` and `battery` are asked for something, the headset and the gain
  have their own time; three events are, for example, a link, a failure and a
  withdrawal in one turn.
* `settings`: one request each of the host, of the mixer and of the menu compete for
  one client, with one event (link, port, mode, probe) at any place. Of the
  controls `mode` is the one that is switched and verified, `home` and `led` have
  different answer codes, so that an answer can be of another request. `mail` has two events, as the finding needs two.
* `headset`: one volume of the host, one turn of the dial and one fault, in any order
  with an operation under way. The same properties were checked with three levels and
  four faults (4.0 million states) and with two turns of the dial and three faults (6.9
  million): with two faults the report that the headset went can be lost, it may come
  back with another loudness under a client that knows nothing of it, and its first
  report is then taken for a turn of the dial. `missed` names this case (`"link"`), and
  `TakesDialed` and `InStep` except it; `KeepsHost` does not need to. `menu`: two keys and one entry by the headset;
  `links`: one key and a link or port that goes.
* `mcu`: an envelope of two bytes can be overtaken by a new value between them; two
  gains are old and new; no port or both are detected. `asks`: both queries of the host
  among them, with a command pending; the envelopes of the start are those whose answers
  may be late, so that a query is taken with none, one being sent, or one unanswered.
  `AnswerSince` and the rest of `AskInv` were also checked with two queries of the host
  and one lost reply or report (0.9 million states). `usb`: three requests are open, change, close in every order,
  with one failing endpoint.
* `mic` has a small ring and blocks of two samples, with an error, a stall or a close
  at every step. `rate` has the code's own numbers, 48 and 1024, without faults.
  `DeviceWhole` covers all sizes and any number of faults.
* `clock`: the settling time of 7 ms against the 6 ms the PLL needs are the code's
  numbers, in halves of a millisecond; the time limits only have to keep their order
  and to be reached.
* `store`: with two edits the equaliser is saved twice, so both pages get
  written and the second save goes back over the first one's predecessor; each
  write may fail or be cut at each step and be repeated any number of times.
* `CHECK_DEADLOCK FALSE` in `iso_banks_rx`, in the three composites and in `mail`:
  when the bounded events are used up and nothing is under way, nothing remains to
  be done. The other runs check deadlock.

### Fairness

* `IsoBanks`, `FairSpec`: a pending USB interrupt is served and a handler once
  entered runs on. Nothing forces the host to send or the stack to cancel.
* `IsoCancel`: the loop runs (it is straight-line code) and the controller acts
  on EPSKIP at some time (user manual behaviour the code waits for). Not assumed:
  that the loop's spin guard fires.
* `PlaybackRing`: interrupts are taken and end; a step of the stop is taken if the
  main loop gets to run again and again (strong fairness), which holds because
  the handler takes a fraction of the 1 ms of a block. No fairness of the channel.
* `PlaybackLifecycle`: the main loop runs for ever (weak fairness of `Main`), and
  what it waits for ends: a gain transaction, a probe, the handshake and its drain
  each have a timeout in the code, which `PortReleased`, `Ends` and `GainSettles`
  show in their own modules. It is one strong fairness condition on the polls that
  see such an end, because the poll that finds nothing to do is a step as well.
* `AudioMode`: the service and the clock go on. The line and the DSP may stop.
* Clients of UART3: the main loop's polls go on (weak), and a wait that lasts ends in
  its timeout (`TakesTooLong`, `PollTimeout`, `QueryFails`). In `DspSettings` and
  `HeadsetGain` the timeout is strongly fair, as the main loop leaves the service in
  between and comes back. Nothing forces the DSP to answer: `Ends` holds of a silent
  one. That the DSP carries on with what it has accepted (`DspRuns`) is assumed for
  `GainSettles` only, and the frames of `DspSettings` and `HeadsetGain` leave the wire
  (`Hear`), as a UART sends what it was given. A port or a link that stays and is not
  at fault is a hypothesis of `GainSettles` and `HeadsetSettles`, not fairness.
* `GainArbiter`: the turn goes on; the line is found quiet again and again (`Quiet`),
  the transmitter empties and a poll that looks finds it so (`Leaves`), and a client
  under way ends (`Over`), which the modules of the clients show. Each of the three is
  strong, as a step of some turns only, and none is assumed of a client that is not
  polled: that somebody looks at the line is `BytesObserved` (section 4).
* `Mcu2`: the polls of the runtime and of the probe; MCU2 may be silent.
* `AudioProbe`: the poll, the host that polls its interrupt endpoint, the completion
  of the transfer, and the host's read of what it was told.
* `AudioClock`: the poll, and the limit on the number of polls (`PollsOut`), which is
  what ends an attempt when the milliseconds stand still. No fairness of time.
* `Microphone`: no liveness is stated.
* `Storage`: the main loop and its timer go on, and a page that is erased again and
  again is at last written well (`<>[]~Saves("erase") \/ []<>Saves("good")`): without
  it a broken flash keeps a change from being saved, as it must. That playback stops
  for good is a hypothesis of `StoredInTheEnd`, not fairness.

## 4. Findings

1. **A DMA error during a stop starves the main loop** (`usb_audio_ring.c` 180):
   the inactive handler acknowledges INTA and INTB only. `playback_ring_stop`.
2. **A capture-only reopening is taken for the failed stream**
   (`diagnostic_usb.c` 2043): the microphone does not advance the format epoch.
   `playback_poison`.
3. **A failure between two bytes of one write is counted as nothing sent**
   (`diagnostic_usb.c` 256): quiesce reports COMPLETE with the DSP inside a
   frame. `audio_mode_stop`.
4. **A setting of the host may never be answered** (`diagnostic_usb.c` 166): a probe
   that takes the port cancels a setting still queued, the menu's own poll reuses the
   client before the next publication, and the mailbox waits for a token that does
   not come back; later settings of the host are refused. `mail`.
Each is quoted against the comment it contradicts in `PROJECT.json`. None makes
another checked property fail: the properties of the passing runs are stated, and
hold, in the presence of all four behaviours. `WholeFrames` excludes the error
of finding 3 by name (`error # "tx"`), and `DamageStops` speaks of a ring that is
active, where finding 1 does not arise; `Ends` of `dsp_users` excepts behaviours in
which a probe was asked for, where finding 4 lies.

Four more statements are written down as definitions and refuted by TLC, but have no
run of their own:

* `HeadsetGain.LastValid`: the comment at `headset_gain.c` 162-163 keeps the last
  verified loudness while a write waits for its turn; when the deferred write is
  dropped, the client may go on counting a loudness as verified that the headset has
  left. `InStep` names this case (`"dropped"`).
* `RemoteMenu.MenuLedger`: an answer that is in the ring when the deadline passes is
  not looked at any more (`remote_menu.c` 133-137 come before 157-166), so the client
  gives up a mode that the headset has accepted. `MenuKnown` names it (`"deadline"`).
* `Mcu2.OwnAnswer`: an answer that MCU2 owes to an earlier envelope of the same query is
  taken for the answer to the host's (`mcu2_probe.c` 57), when it is late enough. With the
  envelope of the start unanswered the host asks, and `query_tx_frame` is 1; its own
  envelope completes and `query_sent` is 2; the late answer to the first sets
  `query_replied` to 2 and advances the generation (`mcu2_runtime.c` 124-136), and the
  query ends in success. The host's envelope may then never be answered. The same holds
  for an envelope of the runtime's own that is being sent when the query is taken. For
  the older one-shot client `mcu2_link.h` 50-52 says that a stale reply cannot be
  correlated and demands a fresh frame boundary before each start; the persistent service
  makes none before a query, and no text of the repository says what its success means,
  which is why this is no finding of its own. `AnswerSince` is what is left: an answer
  that arrives before the next envelope is completed is refused, and with nothing
  unanswered when the query is taken success means an answer to it.
* `GainArbiter.BytesObserved` (under `FairSpec`, with the battery asked for and five
  events): the comment at `native_gain_adapter.c` 176-179 wants no bytes to block the
  mode for good by being left unobserved. If the first bulk report of a headset arrives
  while the battery's request is under way, this ends in its poll, and a loudness starts
  in the same turn (280), the next turn takes the output mode back because of the report
  (217-222, where `no_other_owner` leaves the headset's client out) and returns, in this
  turn and all later ones, from the branch that sets the mode (234-264) without polling
  the client that has the line. Its bytes are never seen to have left (180-181), the
  mode cannot be set, its request expires, and the playback's gate stays closed until
  the headset's link goes or the port is given back. `GateProved` and `StartsAlone` hold
  throughout; `Waits` speaks of a headset whose output mode is set.

Two observations about margins:

* With the real numbers the microphone has no gap (`Gapless`, part `rate`) as long as
  the host's packets come within one block of their time and the clocks drift apart
  by at most one block in 48 packets. With one block in 40, or with a jitter of two
  blocks and any drift, the property fails: the ring is steered by one sample a packet.
* After the first playback the I2S selectors stay on the PLL and MCLK stays selected,
  so that the sequencer would refuse a new programming. The next playback therefore
  depends on the reuse being accepted; `FoundAgain` shows that it is.

## 5. What is proved

TLAPS checks the following for every value of the constants that satisfies the
named assumptions of the modules: `FramesAssumption`, `WrapAssumption`,
`SizesAssumption` and `SilenceAssumption` of the queue; `KindAssumption` and
`BoundsAssumption` of the endpoints; `EpochsAssumption` and `DmaErrorsAssumption`
of the ring; `ChangesAssumption` and `RequestsAssumption` of the manager;
`DelayAssumption`, `WrapAssumption`, `SlipAssumption`, `SizesAssumption` and
`StartsAssumption` of the handshake; `ReadsAssumption`, which joins those of the gain,
the probe, the reading clients and the arbiter; `UsersAssumption`, which joins those of
the settings' client, the headset's and the menu's; `EditsAssumption` of the flash, `Mcu2Assumption` of
the link to MCU2 and `ProbeAssumption` of the USB function, `KindAssumption` and `BoundsAssumption` of the
feedback endpoint, `MicrophoneAssumption` and `ClockAssumption`, as parts of
`DeviceAssumption`. The bounds of a run (epochs, requests, edits, packets) are any
natural numbers there, and the sizes any that the assumptions admit.

| theorem | module | states | needs |
|---|---|---|---|
| `QueueCorrect` | `AudioQueueProof` | `Bounded`, `Copying` | `QueueInv` |
| `LiveFramesSafe` | | `NoLiveOverwrite` | |
| `QueueRefinesFifo` | | `ImplementsFifo` | |
| `IsoCorrect` | `IsoBanksProof` | `SlotOwnership`, `NoSlotLost`, `InOrder` | `IsoInv` |
| `ReadingSafe` | | `NoOverwriteWhileReading` | |
| `RingCorrect` | `PlaybackRingProof` | `OneEpoch`, `ClearExclusive`, `DamageDetected` | `RingInv` |
| `LifecycleCorrect` | `PlaybackLifecycleProof` | `UartOneOwner`, `RingOfStream` | `LifecycleInv` |
| `FailureSticks` | | `FaultSticks` | |
| `ModeCorrect` | `AudioModeProof` | `WholeFrames`, `InStep` | `ModeInv` |
| `ModeQuiet` | | `QuietBefore` | |
| `ReadsHandedOnce` | `DspReadsProof` | `HandedOnce` | `ServiceInv`, `TrialInv`, `ReadInv` |
| `ReadsBelievedIsSo` | | `BelievedIsSo` | the same, `MeterInv`, `TurnInv` |
| `ReadsOthersKept` | | `OthersKept` | `ServiceInv`, `TrialInv`, `TurnInv` |
| `UsersWrittenOnce` | `DspUsersProof` | `WrittenOnce` | `SetInv`, `HeadInv` |
| `UsersOneAnswer` | | `OneAnswer` | `SetInv` |
| `UsersBelieved` | | `BelievedIsSo` | `SetInv`, `HeadInv`, `Belief`, `MenuInv` |
| `UsersHostKept` | | `HostKept` | `HeadInv`, `Belief` |
| `DeviceFlash` | `DeviceProof` | `FlashHolds` | `StoreInv` |
| `DeviceCalls` | | `CallKept`, the safety of `CarriedOut` | `StoreInv` |
| `DeviceParks` | | `ParksAsSpecified` | `CancelInv` |
| `DeviceTells` | | `ToldTruly` | `GainInv`, `AskInv`, `VolumeInv` |
| `DeviceNews` | | `NotOnOldNews` | `GainInv`, `VolumeInv` |
| `DeviceWhole` | | `Whole` | `EnvInv`, `IsoInv`, `StreamInv`, `MicInv`, `ClockInv` |

Every invariant named on the right was model-checked on the run of its module before
it was proved. All proofs have the same frame: the initial states satisfy it, every
action keeps each of its parts (one lemma a part, one step an action), and it implies
what the theorem states.

**AudioQueue.** `QueueInv` (type, `Bounded`, `Copying`) is inductive as it stands:
that a push has stored frames only outside the published ones (`Copying`) is what
carries over the preemptions between admission and publication. The proof rests
on arithmetic of a wrapping counter over a ring: `SlotWrap`, `SlotAdd` and
`SlotDistinct` show that slots of consecutive indices differ as long as fewer
than `Frames` apart, which needs the counter's range to be a multiple of the
ring size (2^32 and 2048 in the code). `QueueRefinesFifo` maps every behaviour of
`AudioQueue` to one of `AudioFifo` under `Queued` and `Incoming`: admission takes the
packet up, copying stutters, publication appends it as it was pushed, a render takes
a block.

**IsoBanks.** `IsoInv` strengthens the properties in three parts: `TypeOK`;
`Marked`, which ties each active descriptor and each filled slot to the packet
number the bus gave it; and `Control`, which says for each position of the
handlers (`Idle`, `Arming`, `Consuming`, `Opening`) what the two banks hold
relative to `expected`. The strengthening is needed because the properties
themselves do not say which bank completes next: between a read and the following
arm the same descriptors can mean two or one packets outstanding. `IsoCorrect` holds
of both kinds of endpoint, so also of part `feedback` of `device`.

**PlaybackRing.** `DamageDetected` and `OneEpoch` are about three contexts and a
channel that moves by itself, and neither is inductive. `Control` says what each
context relies on of the others: a packet being pushed has the format of the stream
(`PushOfStream`), the channel works only for a prepared ring (`ChannelOwned`), the
handler leaves before the ring is stopped (`IsrOwned`), and at each step of start and
stop what the main loop has already excluded (`Starting`). `Pace` says where the
channel is when the handler runs: which completions are pending, together with the
handler's place, tells which block is played and which is fresh as long as nothing is
damaged. That is what `DamageDetected` needs, since a channel two blocks ahead looks
like one in step but for the pending completion.

**PlaybackLifecycle.** For `UartOneOwner`, `UartInv` says that the four users exclude
each other, that the port is started exactly if there is one, and (`ProbesOff`) that
the manager about to begin a handshake has seen both probes finished and none can
start in between. For `FaultSticks` the host's changes have to be related to reads
that were made one by one: `Past` orders the formats that the host has selected,
the manager has read, runs and has blamed (no later one overtakes an earlier one);
`Seen` says what a negative answer, assembled of several reads, still tells of the
host (the stream was closed at some time since, or its format has changed); `Rest`
says that the manager is idle only with a failure that is forgiven.

**AudioMode.** For whole frames, `Line` and `Placed` relate the offset in the service,
the bytes in the transmitter and the DSP's place in the frame; `LetGo` adds that a
clean end leaves nothing on the line. For the order, `Acks` and `Heard` count at each
state which frames have been answered and which the DSP must have got; `RingOwned`
covers every way to give up. For the quiet time, `Sampled` bounds the age of the
sample of the clock and `Stamped` says that the line has been quiet as long as the
stamp is old, less that age, or long enough already. The second alternative is what
makes a wrapped difference harmless: once true, it stays true until the next byte.

**DspReads.** Proved of the composition itself: `ReadsInv` is the invariant of whichever
part takes the steps. The gain and the probe run the same transaction, so `LineInv` and
`Handed` are stated once over the levels of either. `Handed` counts the writes by the
step they belong to, which is why no lost answer leads to a second one. `LineInv` says that
an answer to a read of the gain is on its way or in the ring at most once and never when
the next question is put; without that, neither what was read can be tied to what the
DSP had (`Held`, `Unraced`, and `Alone` of the probe), nor a value of the transaction to the
target it is compared with. `Owned` and `Probed` say who has the port and that an abandoned
transaction leaves the line clean. Of the reading clients, `Requested` is about one request
for a token; `Slots` about a publication in four steps under a reader that may come between
any two. The arbiter's `TurnInv` is about turns cut short: a sample of the line taken at the
beginning of a turn is good for whoever starts in it (`Sampled`), because the polls before
either start nothing or make the others' conditions false (`OneActive`). A loudness is polled by
two different branches, and by none while the output mode is set again; `Left` says that
its bytes are then still on the line, so that the mode's own request cannot start over it
(this is the case section 4 is about). `Gated` follows what the open gate stands for from the
verification on, through a first bulk report that arrives at any point of a turn.

**Clients that set.** `UsersInv` is `SetInv` for the part `settings`, `HeadInv` with
`Belief` for `headset`, and `MenuInv` for `menu` and `links`. `Tokens` orders the tokens of the mailbox, of the client and of the
published status: what waits in the mailbox is newer than both, and what the client has
of it was published as queued only. This is why a token the host repeats is refused and
why an end, once told, stays (`OneAnswer`). `HandedOver` relates the count of SETs to the
phase of the request with the mailbox's token. `Modes` follows the mode the DSP was in from
the last byte of the SET (`OnWire`: what is on the wire is the request that drains) to the
reports asked for afterwards (`RepliesIn`, over all frames of the ring): an acknowledgement
alone says nothing. `Cached` is about the generation of the link, which a late
acknowledgement cannot carry into the next one. In `HeadInv`, `Written` says what one or two
writes for a revision mean for the client: after the first it repeats only if the
read-back showed neither loudness (`conflict`), and a client that rests has given up or
has what it wants (`Over`), so that nothing queues a third. `VolumeOf` and `Dated` relate the
revisions: the client's is no newer than the volume's, and what the dial said has no newer
one than the volume had at its report's first byte. So a report that replaces the volume
cannot be older than the volume it replaces, which is `KeepsHost`.

*Belief of the headset.* `TakesDialed` and `InStep` are about frames that are all of one
kind: only their order tells an answer to a read from an echo and from a turn of the dial.
`Belief` therefore says of every frame that may still come which loudness it can have.
`After` quantifies over the frames behind a place in the ring, up to the first that says
the headset has gone: all of them, and the headset itself, have the loudness said there or
one that is known or was dialed. `Trusted` has this of the loudness verified, while the
client goes by one; `Answers` of whatever will be taken for the answer of a read-back, which
is the only one that need not be known; `Writes` says that a write, once sent, is echoed by
no older loudness. From these follows `RemoteDialed`: what the client takes for a turn of
the dial was one. For `InStep` it must also be known what was said *last*: `Latest` follows
the last report through the ring to what the client has seen, and `SeenTaken` says that what
it has seen and not verified it will still act upon, has in its history, or leaves to a new
operation. The exceptions of `missed` appear where they belong: a lost report of the link in
`Trust`, a lost echo in `Told`, a refused or dropped write in `SeenTaken` alone.

*Remote menu.* `ModeKnown` is `MenuKnown` with what it leaves out: while a change of the
mode is asked for (`Asked`) the mode shown is the old one, and once an answer says that it
is done (`Agrees`: heard, in the ring or still owed) the DSP is in the planned mode, unless
a frame that waits says that it went. That an answer *is* one to the present request needs
`AnsweredOnce`: of those that are fresh there is at most one on its way, heard or
unheard, and none before the request has left. `MenuStands` has what cancelling and a
failing port leave behind. For `MenuIntent`, what the user interface will show once it has
taken the queue is a recursive function of the queue's length (`Polled`), so the property
is not one of the state. `Wanted` replaces it by a condition on the queue itself: the client
wants the last event that is not a back key, or, if there is none, what is shown. Events
are appended at one end (`WishLast`, `WishBack`) and taken all at once; that taking the
`i`-th one keeps `Wanted` of the rest is one lemma, and that it therefore holds after any
number of them is an induction. The library's induction theorem cannot be cited with
these provers; in its place the proof takes the least number of events for which it would
fail, which exists because the order of the natural numbers is well-founded (`LeastOf`,
`Below`). The two instances of the component differ only in bounds of their actions:
`SameClient` and `SameSteps` show that they have the same operators and steps otherwise, so
each lemma is proved once.

**Device.** The theorems are proved of the composition itself: `DeviceInv` is the
invariant of whichever part takes the steps. Part `cancel`: every round of the loop
reads the selector, the selected banks and their peers one by one and uses the
results while the controller goes on. `CancelInv` says which old reads can be relied
on: that a bank was idle, because nothing arms the banks of a claimed endpoint; not
that it was active; and that a selector compared equal has moved since only if the
selected bank was active. From this every register access is, for each endpoint, a
step of `IsoPark` or none. Part `store`: `Kept` and `Saving` say that the page in use
is never written and that the other one is older, torn, or holds a value whose writing
was begun; with the sequence numbers this is why a restart finds one of the two.
`Prepared` says who may write the metadata page when: the acknowledgement only before
a recovery is asked for, so that it cannot undo the preparation; `DeviceCalls` follows from it step by step.
Part `mcu`, for any
envelope size, gains and bounds, without queries of the host: the generations in
`GainInv` tie what waits, what is being sent and what was sent to the gain asked for
last, so that a completion of an older envelope is told from one of the latest. Part
`asks`, for any number of queries, replies and losses, with one gain in use: replies
carry no identifier and only counts are kept, so a reply to an earlier envelope can
arrive during a query. As long as no envelope was completed since the query was taken,
`AskInv` says, it only brings the count of replies to what had been sent by then, which
the code refuses. Afterwards it is accepted (`OwnAnswer` in section 4), unless no answer
was due when the query was taken: then none to an earlier envelope can come.
Part `usb`, for any range of the volume: `HandedOver` says that a notification of the
present revision that the host has taken is still to be read or was read since, which
is why its completion may clear what is pending although newer changes can come
between; `ReadBefore` relates the revision the gain's service read to the present one.

`Whole` needs an invariant of its own for each part. `EnvInv`, for envelopes of any
length, relates what the other end has received to the command that is being sent.
`StreamInv` is `StreamOwned` with its types. The feedback endpoint is an instance of what
`IsoBanksProof` proves, for any number of packets and opens. `ClockInv` is about times
that are read before they are used: `UpBefore` says that the PLL was powered up before
the time any wait counts from, a tick more or less, so that a wait that is over has been
long enough, whatever the timeouts; `ClockPart` that registers written in part are those
of an attempt that runs or of one that is not repeated. `MicInv` is proved for blocks and a
ring of any size: of a microphone with blocks of F samples, a ring of at least four blocks
and clocks that come a block apart in no fewer than F packets. `MicOrder` ties
the flags that are up or were read to the blocks filled and not copied, which is why a
block that is copied is the last one filled. `MicFill` is the steering of the ring: but for
the blocks that were copied ahead of the packets (`Ahead`) it holds between one and two
blocks, save for what the last slip of the clocks has left, of which every packet since
(`held`) has made up a sample. A slip comes only after at least F packets, when nothing of
the last one is left; that is where the assumption is used, and TLC refutes `Gapless`
without it (section 4).

**Only model-checked**:

* All liveness (`EveryPacketServed`, `DamageStops`, `EventuallySettled`,
  `PortReleased`, `GainSettles`, `HeadsetSettles`, `Ends`, that of `CarriedOut`,
  `StoredInTheEnd`, `Decided`), because the prover does not treat fairness and ENABLED.

Every invariant and every safety property of a passing run is stated by a theorem, for
every value of the constants. No module uses RECURSIVE. The one recursive function under a
theorem is `RemoteMenu.Polled`, and `UsersBelieved` has what is needed of it, as above.

## 6. Plan

The modelling is done as far as section 7 allows: packet queue, endpoints and their
cancellation, playback ring, manager, handshake, clients of UART3 and their arbiter,
mailbox, storage, MCU2 link, USB function, microphone and clock. All
safety properties that the runs check are proved. What would come next:

1. The liveness properties, once the prover has ENABLED: most are a chain of steps, each
   enabled by the invariants that are proved here.
2. A refinement for the clients of UART3: `HeadsetGain`, `NativeGain` and `DspSettings` each
   show a register with delayed reads, of which `BelievedIsSo` is the essence.
3. A second handshake that begins under late answers to the first (section 7).

## 7. What is not modelled

* Sample values, mixing and gain curves (`source_mix.c`, `mixer.c`,
  `native_gain_curve.c`), equaliser response, loudness tables: numerical.
* The rate controller (`audio_rate.c`) and the value of the feedback: its convergence
  is analysis over 64-bit integers. The ring sees only that the servo may fail. SOF
  capture and the snapshots of the clock are telemetry.
* Diagnostic requests that program the clock by hand; the one that enables I2S is in
  `AudioClock` (`Strays`).
* The byte level of the links: the UART's receive ring, the frame parser of
  `interchip.c` (a frame arrives whole or not at all), the keys that `mcu2_controls`
  makes of MCU2's reports.
* Drawing, menus, the hand-over of the display (`ui.c` 298-333), display transfer,
  charger policy: sequential, over data no property here tells apart.
* Start-up, register values, descriptor tables, HID report layout and telemetry
  counters (except that a counter is non-zero), and `usb_guard.c`, a timer-driven
  repair of the controller that is hardware access throughout.
* Host tools: sequential scripts; the bootloader they talk to is not in the
  repository. The DSP, MCU2 and the vendor USB stack are likewise absent and
  appear only as external actions.
* Halting the notification endpoint (`audio_probe.c` 280-293): the host that halts it
  stops the notifications until it clears it. A notification that cannot be queued (360-363)
  ends as `Poll` followed by `Refused`, and a volume of the host that is out of range is
  refused before anything changes.
* A transient failure to read an intact page (`eq_persist.c` 21-22 treats it as a
  blank one, so that the sequence may start over), the wear of a page whose writing
  keeps failing (the poll repeats it without delay), and what the bootloader does
  with a blank metadata page, beyond starting the image or staying.
* An answer of the DSP to a cancelled handshake that is still on the wire when the
  next one begins (`audio_mode.c` 113): `AudioMode` clears unread answers there, as
  the code does, and has no later ones.

## 8. Running

`tlc -config X.cfg M` for the pairs of `PROJECT.json` ("runs") and `tlapm M.tla` for
the modules whose names end in `Proof`; each takes one to a few minutes, `DspUsersProof`
five to ten. The longest runs are `dsp_users` and `dsp_reads` (0.6 and 0.4 million states, two minutes each with two workers).
