----------------------------- MODULE Microphone ------------------------------
(***************************************************************************)
(* The microphone (microphone.c): DMA channel 4 fills two blocks of a      *)
(* millisecond by turns, its interrupt copies each block into a ring, the  *)
(* USB interrupt takes a packet from the ring every frame, and the main    *)
(* loop starts and stops the channel (diagnostic_usb.c 2110-2116,          *)
(* usb_audio_ring.c 113-117).  The DMA interrupt (priority 2) is not       *)
(* interrupted by the other two, and omni_microphone_packet masks          *)
(* interrupts; the DMA goes on meanwhile.                                  *)
(*                                                                         *)
(* Samples are counted and have no value: what matters is which block they *)
(* come from and how many there are.  The count of a descriptor that the   *)
(* channel has still to reload is left out.                                *)
(*                                                                         *)
(* Assumed of the environment, while `steady': blocks and packets keep in  *)
(* step but for Jitter of them, and the two clocks differ by no more than  *)
(* a block in Drift packets, which is at most the sample that a packet     *)
(* makes up for.  Assumed always: the handler is done before the DMA has   *)
(* filled two halves of a block (HandlerTime).                             *)
(***************************************************************************)
EXTENDS Integers

CONSTANTS
  Frame,      \* samples of a millisecond (48)
  SIZE,       \* samples the ring holds (1024)
  Drift,      \* packets in which the clocks come a block apart, at the least
  MaxEvents   \* bound: times the host closes it, errors and stalls

MicrophoneAssumption == /\ Frame \in Nat /\ Frame > 1 /\ SIZE \in Nat /\ SIZE >= 4 * Frame
                        /\ Drift \in Nat /\ Drift >= Frame /\ MaxEvents \in Nat

VARIABLES
  wanted,    \* the host has the capture open, and the playback runs
  started,   \* microphone_started
  pc,        \* where the main loop is in omni_microphone_start or _stop
  opening,   \* it is a start
  active, configured, fault, primed, expectedB, fill,   \* fill is written - read_index
  lost,      \* overruns, since the start: some
  silent,    \* underruns: some
  handler,   \* where the DMA interrupt is
  taken,     \* the flags it read
  spent,     \* the halves that the DMA has filled meanwhile
  dma,       \* the channel
  flags,     \* its interrupt flags
  pos,       \* the half that it fills: 0 and 1 are of block A, 2 and 3 of block B
  behind,    \* blocks filled and not copied
  lead,      \* blocks copied less packets taken, but for the drift
  held,      \* packets since the clocks were last a block further apart
  steady,    \* the host has taken its packets in time since the start
  events

mainVars == <<wanted, started, pc, opening, configured>>
streamVars == <<active, fault, primed, expectedB, fill, lost, silent>>
handlerVars == <<handler, taken, spent>>
dmaVars == <<dma, flags, pos, behind>>
clockVars == <<lead, held, steady, events>>
vars == <<mainVars, streamVars, handlerVars, dmaVars, clockVars>>

Jitter == 1
HandlerTime == 1
Least(m, n) == IF m < n THEN m ELSE n

Init ==
  /\ wanted = FALSE /\ started = FALSE /\ pc = "idle" /\ opening = FALSE /\ configured = FALSE
  /\ active = FALSE /\ fault = {} /\ primed = FALSE /\ expectedB = FALSE /\ fill = 0
  /\ lost = FALSE /\ silent = FALSE
  /\ handler = "out" /\ taken = {} /\ spent = 0
  /\ dma = "off" /\ flags = {} /\ pos = 0 /\ behind = 0
  /\ lead = 0 /\ held = 0 /\ steady = TRUE /\ events = 0

-----------------------------------------------------------------------------
\* The channel fills the next half of a block.  At the end of a block it raises the
\* block's flag and goes on with the other; blocks come in step with the packets.
FillsHalf ==
  /\ dma = "on" /\ (handler # "out" => spent < HandlerTime)
  /\ pos' = (pos + 1) % 4
  /\ IF pos % 2 = 0
     THEN UNCHANGED <<flags, behind>>
     ELSE /\ active /\ steady => lead + behind < Jitter
          /\ flags' = flags \union {IF pos = 1 THEN "a" ELSE "b"}
          /\ behind' = Least(behind + 1, 3)
  /\ spent' = IF handler = "out" THEN spent ELSE spent + 1
  /\ UNCHANGED <<mainVars, streamVars, handler, taken, dma, clockVars>>

\* A channel that was disabled ends what it had begun, at some time.
Quiets == dma = "ending" /\ dma' = "off" /\
          UNCHANGED <<mainVars, streamVars, handlerVars, flags, pos, behind, clockVars>>

Disabled == IF dma = "on" THEN "ending" ELSE dma

\* omni_microphone_irq: the flags are read and cleared; nothing more when not active.
Enter ==
  /\ handler = "out" /\ flags # {}
  /\ flags' = {}
  /\ IF active THEN handler' = "entered" /\ taken' = flags ELSE UNCHANGED <<handler, taken>>
  /\ UNCHANGED <<mainVars, streamVars, spent, dma, pos, behind, clockVars>>

\* The block that is to be copied must be the one expected, and the channel in the first
\* half of the other: else two flags were read as one, or there is no time left.
OtherBegun == pos = IF "a" \in taken THEN 2 ELSE 0
InOrder == ("e" \notin taken) /\ taken = {IF expectedB THEN "b" ELSE "a"} /\ OtherBegun

Leave == handler' = "out" /\ taken' = {} /\ spent' = 0
Verify ==
  /\ handler = "entered"
  /\ IF InOrder
     THEN handler' = "copying" /\ UNCHANGED <<active, fault, dma, taken, spent>>
     ELSE /\ fault' = fault \union {"order"} /\ active' = FALSE /\ dma' = Disabled
          /\ Leave
  /\ UNCHANGED <<mainVars, primed, expectedB, fill, lost, silent, flags, pos, behind,
                 clockVars>>

\* The block is in the ring, or as much of it as there is room for.
Publish ==
  /\ handler = "copying"
  /\ fill' = Least(fill + Frame, SIZE)
  /\ lost' = (lost \/ fill + Frame > SIZE)
  /\ expectedB' = ~expectedB
  /\ Leave /\ behind' = behind - 1
  /\ lead' = IF steady THEN lead + 1 ELSE lead
  /\ UNCHANGED <<mainVars, active, fault, primed, silent, dma, flags, pos, held, steady, events>>

\* omni_microphone_packet, in the USB interrupt: silence until two blocks are there, then
\* a sample more or less to keep between two and three.
Primed == primed \/ fill >= 2 * Frame
Count ==
  CASE ~(active /\ Primed) -> Frame
    [] fill > 3 * Frame -> Frame + 1
    [] fill < 2 * Frame -> Frame - 1
    [] OTHER -> Frame
Given == IF active /\ Primed THEN Least(Count, fill) ELSE 0

Packet ==
  /\ handler = "out" /\ wanted /\ (active /\ steady /\ primed => lead > 0)
  /\ primed' = Primed /\ fill' = fill - Given
  /\ silent' = (silent \/ (active /\ Primed /\ Count > fill))
  /\ lead' = IF active /\ steady /\ lead > 0 THEN lead - 1 ELSE lead
  /\ held' = IF active /\ steady THEN Least(held + 1, Drift) ELSE held
  /\ UNCHANGED <<mainVars, active, fault, expectedB, lost, handlerVars, dmaVars, steady, events>>

-----------------------------------------------------------------------------
\* The main loop runs while no handler does.
At(p) == pc = p /\ handler = "out"
MainStep == UNCHANGED <<handlerVars, clockVars, wanted>>

\* playback_manage_poll: the microphone is to follow the host.
Begins ==
  /\ At("idle") /\ started # wanted
  /\ opening' = wanted /\ started' = TRUE /\ pc' = "stop"
  /\ MainStep /\ UNCHANGED <<configured, streamVars, dmaVars>>

\* omni_microphone_stop, which a start begins with too.
Deactivate ==
  /\ At("stop")
  /\ IF configured THEN active' = FALSE /\ pc' = "disable" /\ UNCHANGED started
     ELSE pc' = (IF opening THEN "read" ELSE "idle") /\ started' = opening /\ UNCHANGED active
  /\ MainStep /\ UNCHANGED <<opening, configured, fault, primed, expectedB, fill, lost, silent,
                             dmaVars>>

Disable ==
  /\ At("disable") /\ dma' = Disabled /\ pc' = "wait"
  /\ MainStep /\ UNCHANGED <<started, opening, configured, streamVars, flags, pos, behind>>

Stopped ==
  /\ At("wait") /\ dma = "off" /\ flags' = {} /\ pos' = 0 /\ behind' = 0
  /\ pc' = (IF opening THEN "read" ELSE "idle") /\ started' = opening
  /\ MainStep /\ UNCHANGED <<opening, configured, streamVars, dma>>

\* The channel stays busy for all of the spins: a start gives up, and is not tried again.
GivesUp ==
  /\ At("wait") /\ dma # "off" /\ fault' = fault \union {"busy"}
  /\ pc' = "idle" /\ started' = opening
  /\ MainStep /\ UNCHANGED <<opening, configured, active, primed, expectedB, fill, lost, silent,
                             dmaVars>>

\* read_index is cleared before written, so that a packet in between sees any number.
ClearRead ==
  /\ At("read") /\ configured' = TRUE /\ pc' = "written"
  /\ lost' = FALSE /\ silent' = FALSE /\ fill' \in {fill, SIZE}
  /\ MainStep /\ UNCHANGED <<started, opening, active, fault, primed, expectedB, dmaVars>>

ClearWritten ==
  /\ At("written") /\ fill' = 0 /\ pc' = "reset"
  /\ MainStep /\ UNCHANGED <<started, opening, configured, active, fault, primed, expectedB, lost,
                             silent, dmaVars>>

\* The rest of the state and the blocks are cleared, and the channel is set up.
Reset ==
  /\ At("reset") /\ fault' = {} /\ expectedB' = FALSE /\ primed' = FALSE
  /\ pc' = "activate"
  /\ MainStep /\ UNCHANGED <<started, opening, configured, active, fill, lost, silent, dmaVars>>

Activate ==
  /\ At("activate") /\ active' = TRUE /\ pc' = "trigger"
  /\ lead' = 0 /\ held' = 0 /\ steady' = TRUE
  /\ UNCHANGED <<handlerVars, events, wanted, started, opening, configured, fault, primed,
                 expectedB, fill, lost, silent, dmaVars>>

Trigger ==
  /\ At("trigger") /\ dma' = "on" /\ pc' = "idle"
  /\ MainStep /\ UNCHANGED <<started, opening, configured, streamVars, flags, pos, behind>>

-----------------------------------------------------------------------------
\* What may happen, MaxEvents times: the host closes the capture (or the playback
\* it runs with ends), the channel has an error, the host misses its packets.
Event == events < MaxEvents /\ events' = events + 1

HostCloses == Event /\ wanted /\ wanted' = FALSE /\
              UNCHANGED <<started, pc, opening, configured, streamVars, handlerVars, dmaVars,
                          lead, held, steady>>
Errs == Event /\ dma = "on" /\ flags' = flags \union {"e"} /\
        UNCHANGED <<mainVars, streamVars, handlerVars, dma, pos, behind, lead, held, steady>>
HostStalls == Event /\ steady /\ active /\ steady' = FALSE /\ lead' = 0 /\ held' = 0 /\
              UNCHANGED <<mainVars, streamVars, handlerVars, dmaVars>>

\* The host opens the capture, as often as it closes it and once more.
HostOpens == ~wanted /\ wanted' = TRUE /\
             UNCHANGED <<started, pc, opening, configured, streamVars, handlerVars, dmaVars,
                         clockVars>>

\* The clocks come a block further apart.
Slips ==
  /\ active /\ steady /\ held = Drift /\ held' = 0
  /\ lead' \in {lead - 1, lead + 1} \cap 0..Jitter
  /\ UNCHANGED <<mainVars, streamVars, handlerVars, dmaVars, steady, events>>

Next ==
  \/ FillsHalf \/ Quiets \/ Enter \/ Verify \/ Publish \/ Packet
  \/ Begins \/ Deactivate \/ Disable \/ Stopped \/ GivesUp \/ ClearRead \/ ClearWritten
  \/ Reset \/ Activate \/ Trigger
  \/ HostCloses \/ HostOpens \/ Errs \/ HostStalls \/ Slips

Spec == Init /\ [][Next]_vars

-----------------------------------------------------------------------------
\* A block is copied whole: while the handler copies it, it is the last one filled, none
\* before it was left out, and the channel is in the other; and the blocks are not
\* cleared while the channel may still write to them (microphone.c 16-38, 61-86).
BlockWhole ==
  /\ handler = "copying" => /\ behind = 1
                            /\ pos \in IF "a" \in taken THEN {2, 3} ELSE {0, 1}
                            /\ expectedB <=> taken = {"b"}
  /\ pc \in {"read", "written", "reset", "activate"} => dma = "off" /\ ~active

\* A host that takes its packets in time gets every sample and no silence among them:
\* two blocks before the first and a sample more or less in a packet are enough for the
\* jitter and the drift (microphone.c 90-108).
Gapless == active /\ steady => ~lost /\ ~silent /\ fill <= 4 * Frame
=============================================================================
