----------------------------- MODULE GainArbiter -----------------------------
(***************************************************************************)
(* native_gain_adapter.c: the turns its clients take on UART3.  A client   *)
(* is polled once in every turn of the main loop, in a fixed order, and    *)
(* told whether it may start a request.  What it may is worked out from    *)
(* samples taken at the beginning of the turn and from the state of the    *)
(* others at its place in the order, by a list of conditions that differs  *)
(* from client to client.  What a client does with its request is left     *)
(* open here (it has a module of its own): it goes on, ends, or fails the  *)
(* port.                                                                   *)
(*                                                                         *)
(* Before the gain is verified and the gate of the playback opened, the    *)
(* headset's bulk data is asked for, which may change the output mode of   *)
(* the DSP, and then the mode is set and read back.                        *)
(***************************************************************************)
EXTENDS Integers, FiniteSets

CONSTANTS Asked,     \* the clients that are asked for something, or have their time
          MaxEvents  \* bound: what they are asked, events of the headset, modes that
                     \* slip, failures, changes of what the main loop wants

ArbiterAssumption ==
  Asked \subseteq {"battery", "query", "settings", "menu", "meter"} /\ MaxEvents \in Nat

Client == {"battery", "headset", "query", "settings", "menu", "meter", "gain"}

VARIABLES
  at,      \* where the turn is: "idle" between two, or the next poll of it
  want,    \* what the main loop wants: to "serve" the clients, "give" the port to
           \* the playback, or be "offline"
  port,    \* uart_opened, tx_pending, state.yielding, and if it was opened just now
  active, queued,  \* the clients with a request under way, and with one that waits
  gain,    \* omni_native_gain: fault, ready, have_verified, and if what it verified is
           \* not wanted any more or not recent ("stale")
  mode,    \* mode_requested, mode_ready and mode_failed
  repair,  \* mode_repair_used, and mode_repair_pending
  peer,    \* the headset as its client knows it, with peer_recovery_pending ("recovery")
           \* and headset_mode_reset ("reset")
  turn,    \* headset_turn_used, and if a gain was verified since that turn
  sample,  \* boundary, can_query and headset_turn of this turn
  gate,    \* usb_audio_ring_gain_ready
  dsp,     \* the output mode of the DSP
  proved,  \* ghost: the gain was verified in mode 2 since the last first bulk data
  events

vars == <<at, want, port, active, queued, gain, mode, repair, peer, turn, sample, gate, dsp, proved, events>>

NoGain == [fault |-> FALSE, ready |-> FALSE, have |-> FALSE, stale |-> TRUE]
NoPeer == [link |-> "unknown", primed |-> FALSE, blocked |-> FALSE, ready |-> FALSE, cancel |-> FALSE,
           bulk |-> FALSE, recovery |-> FALSE, reset |-> FALSE]
NoTurn == [used |-> FALSE, since |-> FALSE]
NoSample == [boundary |-> FALSE, query |-> FALSE, headset |-> FALSE]
Closed == [open |-> FALSE, tx |-> FALSE, yielding |-> FALSE, young |-> FALSE]

Init == /\ at = "idle" /\ want = "offline" /\ port = Closed /\ active = {} /\ queued = {}
        /\ gain = NoGain /\ mode = "unset" /\ repair = [used |-> FALSE, pending |-> FALSE]
        /\ peer = NoPeer /\ turn = NoTurn /\ sample = NoSample /\ gate = FALSE
        /\ dsp \in 1..2 /\ proved = FALSE /\ events = 0

Event == events < MaxEvents /\ events' = events + 1

\* gain_settled().
Settled == gain.ready /\ ~gain.fault /\ gain.have /\ "gain" \notin active /\ ~gain.stale

-----------------------------------------------------------------------------
\* close_uart().
Cleared ==
  /\ active' = {} /\ queued' = {} /\ mode' = "unset" /\ repair' = [repair EXCEPT !.pending = FALSE]
  /\ peer' = NoPeer

\* transport_fault().
TransportFault == /\ Cleared /\ port' = [Closed EXCEPT !.yielding = port.yielding]
                  /\ gain' = [gain EXCEPT !.fault = TRUE, !.ready = FALSE]
                  /\ gate' = FALSE /\ at' = "idle" /\ sample' = NoSample
                  /\ UNCHANGED <<want, turn, dsp, proved>>

\* What the bytes read mean to the headset's client (rx() and LinkReport, BulkReport
\* of HeadsetGain).
Heard(event) ==
  CASE event = "up" ->
         /\ peer' = [peer EXCEPT !.link = "up", !.cancel = @ \/ (peer.link = "down" /\ "headset" \in active),
                       !.primed = @ /\ peer.link = "up", !.ready = @ /\ peer.link = "up",
                       !.blocked = @ /\ peer.link = "up", !.recovery = @ \/ peer.link = "down"]
         /\ queued' = IF peer.link # "up" /\ "headset" \notin active THEN queued \cup {"headset"} ELSE queued
         /\ UNCHANGED <<dsp, proved>>
    [] event = "down" ->
         /\ peer' = [peer EXCEPT !.link = "down", !.cancel = "headset" \in active,
                                 !.primed = FALSE, !.ready = FALSE]
         /\ queued' = queued \ {"headset"}
         /\ UNCHANGED <<dsp, proved>>
    [] event = "bulk" ->
         /\ peer.link # "down" /\ peer' = [peer EXCEPT !.primed = TRUE, !.reset = @ \/ ~peer.primed]
         /\ IF peer.primed THEN UNCHANGED <<dsp, proved>> ELSE dsp' \in {1, dsp} /\ proved' = FALSE
         /\ UNCHANGED queued
    [] event = "none" -> UNCHANGED <<peer, queued, dsp, proved>>

\* A bulk answer comes to who asked for it, or late.
Hears == \E event \in {"none", "up", "down", "bulk"} :
           /\ Heard(event)
           /\ IF event = "none" \/ (event = "bulk" /\ "headset" \in active /\ peer.bulk)
              THEN UNCHANGED events ELSE Event

-----------------------------------------------------------------------------
\* One poll of a client: a request under way sends, drains, waits or ends, and one
\* that is wanted starts if it may.
Goes(c) == c \in active /\ (\E b \in BOOLEAN : port' = [port EXCEPT !.tx = b]) /\ UNCHANGED active
Ends(c) == c \in active /\ ~port.tx /\ active' = active \ {c} /\ UNCHANGED port
Fails(c) == c \in active /\ Event /\ TransportFault
Starts(c) == active' = active \cup {c} /\ queued' = queued \ {c} /\ port' = [port EXCEPT !.tx = TRUE]

restVars == <<want, gain, mode, repair, turn, gate, dsp, proved>>
Then(next) == at' = next /\ UNCHANGED <<sample, restVars, events>>

\* What the host asked for has waited too long.
Expires(c) == /\ c \in {"query", "settings", "menu"} \cap (queued \ active)
              /\ queued' = queued \ {c} /\ UNCHANGED <<active, port, peer>>

Passes(c, may) == /\ c \notin active /\ ~(c \in queued /\ may)
                  /\ UNCHANGED <<active, queued, port, peer>>

Poll(c, next, may) ==
  \/ Fails(c)
  \/ /\ Then(next)
     /\ \/ (Goes(c) \/ Ends(c)) /\ UNCHANGED <<queued, peer>>
        \/ Expires(c)
        \/ c \in queued \ active /\ may /\ Starts(c) /\ UNCHANGED peer
        \/ Passes(c, may)

-----------------------------------------------------------------------------
\* Startup was withdrawn while its reservation was being drained.
Withdrawn == want = "serve" /\ port.yielding
Releasing == want = "give" \/ Withdrawn
\* The turn of a release has found nothing under way.
Drained == port.open /\ Releasing /\ port.yielding /\ active = {} /\ ~port.tx

\* The beginning of a turn, of omni_native_gain_service or of omni_native_gain_release,
\* which cancels what waits and keeps everything from starting.
Begin ==
  /\ at = "idle" /\ port.open /\ want # "offline" /\ ~Drained /\ at' = "samples"
  /\ \E tx \in {port.tx, port.tx /\ active # {}} :
       port' = [port EXCEPT !.tx = tx, !.yielding = @ \/ Releasing]
  /\ IF Releasing
     THEN /\ queued' = {} /\ peer' = [peer EXCEPT !.cancel = @ \/ "headset" \in active]
          /\ UNCHANGED <<dsp, proved, events>>
     ELSE IF "gain" \in active THEN UNCHANGED <<peer, queued, dsp, proved, events>> ELSE Hears
  /\ UNCHANGED <<want, active, gain, mode, repair, turn, sample, gate>>

\* After the first time the headset takes turns with the gain that is wanted.
TurnOf == ~turn.used \/ turn.since \/ Settled

Samples ==
  /\ at = "samples" /\ at' = "bootstrap"
  /\ \E b \in {FALSE, ~port.tx} :
       sample' = [boundary |-> b, query |-> b /\ ~port.yielding /\ Settled,
                  headset |-> b /\ ~port.yielding /\ gain.ready /\ gain.have /\ ~gain.fault
                              /\ "gain" \notin active /\ TurnOf]
  /\ UNCHANGED <<port, active, queued, peer, restVars, events>>

May == sample.boundary /\ ~port.yielding

\* The turn ends before the polls, with the gate closed.
Cut == at' = "idle" /\ gate' = FALSE /\ sample' = NoSample /\ UNCHANGED <<want, turn>>

\* The link is asked for before the mode is set, for a while.
Bootstrap ==
  LET first == mode = "unset" /\ active \cap {"gain", "headset"} = {}
               /\ ("battery" \in active \/ (peer.link = "unknown" /\ port.young))
  IN /\ at = "bootstrap"
     /\ \/ ~first /\ Then("prime") /\ UNCHANGED <<active, queued, port, peer>>
        \/ first /\ Fails("battery")
        \/ /\ first /\ UNCHANGED <<queued, gain, mode, repair, peer, dsp, proved, events>>
           /\ \/ Goes("battery") \/ Ends("battery")
              \/ "battery" \notin active /\ UNCHANGED <<active, port>>
              \/ /\ "battery" \notin active /\ May
                 /\ active' = active \cup {"battery"} /\ port' = [port EXCEPT !.tx = TRUE]
           /\ IF "battery" \in active' \/ peer.link = "unknown" THEN Cut
              ELSE at' = "prime" /\ UNCHANGED <<sample, want, turn, gate>>

\* The mode and the gain are to be verified again.
Afresh == mode' = "unset" /\ gain' = [gain EXCEPT !.ready = FALSE, !.have = FALSE]

Unowned == active \subseteq {"headset"}
Priming == Unowned /\ \/ "headset" \in active /\ (peer.bulk \/ peer.cancel)
                      \/ peer.link = "up" /\ ~peer.primed /\ ~peer.blocked

\* The first bulk data has come.
Prime ==
  /\ at = "prime" /\ ~Priming
  /\ peer' = [peer EXCEPT !.reset = @ /\ ~Unowned]
  /\ IF Unowned /\ peer.reset THEN Afresh ELSE UNCHANGED <<mode, gain>>
  /\ at' = IF mode' = "ready" THEN "battery" ELSE "mode"
  /\ UNCHANGED <<active, queued, port, sample, want, repair, turn, gate, dsp, proved, events>>

\* The bulk data is asked for, or a request of the headset's client given up.
Bulk ==
  /\ at = "prime" /\ Priming
  /\ \/ Fails("headset")
     \/ /\ Afresh /\ Cut /\ UNCHANGED <<repair, dsp, proved, events>>
        /\ LET p == [peer EXCEPT !.reset = FALSE]
           IN \/ Goes("headset") /\ peer' = p /\ UNCHANGED queued
              \/ /\ Ends("headset")
                 /\ peer' = [p EXCEPT !.bulk = FALSE, !.cancel = FALSE,
                                      !.blocked = @ \/ ~(peer.primed \/ peer.cancel)]
                 /\ queued' = IF peer.link = "up" /\ ~port.yielding /\ (peer.primed \/ peer.cancel)
                              THEN queued \cup {"headset"} ELSE queued
              \/ /\ "headset" \in queued \ active /\ May
                 /\ Starts("headset") /\ peer' = [p EXCEPT !.bulk = TRUE]
              \/ /\ "headset" \notin active /\ ~("headset" \in queued /\ May)
                 /\ peer' = p /\ UNCHANGED <<active, queued, port>>

-----------------------------------------------------------------------------
\* The output mode is asked for,
ModeAsk ==
  /\ at = "mode" /\ mode = "unset" /\ ~port.yielding /\ "settings" \notin active \cup queued
  /\ mode' = "requested" /\ queued' = queued \cup {"settings"} /\ Cut
  /\ UNCHANGED <<active, port, gain, repair, peer, dsp, proved, events>>

\* set and read back (or what the host had asked for before is),
ModePoll ==
  /\ at = "mode"
  /\ \/ Fails("settings")
     \/ /\ Cut /\ UNCHANGED <<gain, mode, repair, peer, dsp, proved, events>>
        /\ \/ Goes("settings") /\ UNCHANGED queued
           \/ Expires("settings") /\ mode # "requested"
           \/ Ends("settings") /\ mode # "requested" /\ UNCHANGED queued
           \/ "settings" \in queued \ active /\ sample.boundary /\ Starts("settings")
           \/ /\ "settings" \notin active /\ ~("settings" \in queued /\ sample.boundary)
              /\ (mode = "failed" \/ port.yielding \/ "settings" \in queued)
              /\ mode = "requested" => "settings" \in queued
              /\ UNCHANGED <<active, queued, port>>

\* and so established, or not.
ModeEnds ==
  /\ at = "mode" /\ mode = "requested" /\ Cut
  /\ Ends("settings") \/ ("settings" \notin active /\ UNCHANGED <<active, port>>)
  /\ queued' = queued \ {"settings"} /\ repair' = [repair EXCEPT !.pending = FALSE]
  /\ UNCHANGED <<proved, events>>
  /\ \/ /\ "settings" \in active /\ mode' = "ready" /\ dsp' = 2
        /\ gain' = IF repair.pending \/ (peer.recovery /\ peer.primed)
                   THEN [gain EXCEPT !.fault = FALSE, !.ready = FALSE, !.have = FALSE] ELSE gain
        /\ peer' = [peer EXCEPT !.recovery = @ /\ ~peer.primed]
     \/ /\ mode' = "failed" /\ UNCHANGED <<gain, peer>>
        /\ dsp' \in IF "settings" \in active THEN {2, dsp} ELSE {dsp}

-----------------------------------------------------------------------------
\* The polls, each with what it asks of the others.
Free(others) == active \cap others = {}

PollBattery == at = "battery" /\
  Poll("battery", "headset", sample.query /\ Free({"query", "meter", "settings", "menu", "headset"}))

HeadsetFree == Free({"gain", "battery", "query", "meter", "settings", "menu"})
HeadsetMay == sample.headset /\ peer.link = "up" /\ peer.primed /\ HeadsetFree

PollHeadset ==
  /\ at = "headset"
  /\ \/ Fails("headset")
     \/ /\ "headset" \in queued \ active /\ HeadsetMay
        /\ Starts("headset") /\ turn' = [used |-> TRUE, since |-> FALSE] /\ at' = "query"
        /\ UNCHANGED <<peer, sample, want, gain, mode, repair, gate, dsp, proved, events>>
     \/ /\ Then("query")
        /\ \/ Goes("headset") /\ UNCHANGED <<queued, peer>>
           \/ /\ Ends("headset") /\ UNCHANGED queued
              /\ \E ok \in BOOLEAN : peer' = [peer EXCEPT !.ready = ok, !.blocked = @ \/ ~ok]
           \/ Passes("headset", HeadsetMay)

PollQuery == at = "query" /\
  Poll("query", "settings", sample.query /\ Free({"battery", "meter", "settings", "menu", "headset"}))

PollSettings == at = "settings" /\
  Poll("settings", "menu",
       sample.query /\ Free({"gain", "battery", "query", "meter", "menu", "headset"}))

PollMenu == at = "menu" /\
  Poll("menu", "meter",
       /\ sample.query /\ Free({"gain", "battery", "query", "settings", "meter", "headset"})
       /\ peer.link = "up" => peer.ready /\ ~peer.blocked)

PollMeter == at = "meter" /\
  Poll("meter", "gain",
       /\ sample.query /\ Free({"battery", "query", "settings", "menu", "headset"})
       /\ queued \cap {"query", "settings", "menu", "headset"} = {})

\* The turn ends with the gate as the gain and the headset have it.
Ready(g) == g.ready /\ (peer.link = "up" => peer.ready /\ ~peer.blocked)
Done(g) == at' = "idle" /\ sample' = NoSample /\ UNCHANGED want /\ gain' = g /\ gate' = Ready(g)

GainStarts == May /\ active = {} /\ ~gain.fault /\ (~gain.have \/ gain.stale)

PollGain ==
  /\ at = "gain"
  /\ \/ /\ "gain" \in active /\ Done(gain) /\ Hears
        /\ Goes("gain") /\ UNCHANGED <<mode, repair, turn>>
     \/ /\ "gain" \notin active /\ UNCHANGED <<queued, mode, repair, peer, turn, dsp, proved, events>>
        /\ IF GainStarts
           THEN /\ active' = active \cup {"gain"} /\ port' = [port EXCEPT !.tx = TRUE]
                /\ Done([gain EXCEPT !.stale = FALSE])
           ELSE Done(gain) /\ UNCHANGED <<active, port>>

\* The gain is read back as it was set.
GainVerified ==
  /\ at = "gain" /\ "gain" \in active /\ dsp = 2
  /\ active' = active \ {"gain"} /\ turn' = [turn EXCEPT !.since = TRUE]
  /\ Done([gain EXCEPT !.have = TRUE, !.ready = @ \/ ~gain.stale])
  /\ proved' = ~peer.reset
  /\ UNCHANGED <<port, queued, mode, repair, peer, dsp, events>>

\* It is not; observe_mode_failure() repairs the mode if the first answer showed 1.
GainFails ==
  \/ at = "gain" /\ Fails("gain")
  \/ /\ at = "gain" /\ "gain" \in active
     /\ active' = active \ {"gain"} /\ Done([gain EXCEPT !.fault = TRUE, !.ready = FALSE])
     /\ UNCHANGED <<port, queued, peer, turn, dsp, proved>>
     /\ \/ Event /\ UNCHANGED <<mode, repair>>
        \/ /\ dsp = 1 /\ UNCHANGED events
           /\ IF repair.used THEN mode' = "failed" /\ UNCHANGED repair
              ELSE mode' = "unset" /\ repair' = [used |-> TRUE, pending |-> TRUE]

-----------------------------------------------------------------------------
\* open().
Open == /\ at = "idle" /\ want = "serve" /\ ~port.yielding /\ ~port.open /\ ~gain.fault
        /\ port' = [Closed EXCEPT !.open = TRUE, !.young = TRUE]
        /\ queued' = queued \cup {"headset"} /\ mode' = "unset"
        /\ repair' = [used |-> FALSE, pending |-> FALSE] /\ turn' = NoTurn /\ proved' = FALSE
        /\ UNCHANGED <<at, want, active, gain, peer, sample, gate, dsp, events>>

Ages == /\ port.young /\ port' = [port EXCEPT !.young = FALSE]
        /\ UNCHANGED <<at, active, queued, peer, sample, restVars, events>>

\* The port is given up, drained or because the caller is offline.
GiveUp == /\ at = "idle"
          /\ Drained \/ want = "offline"
          /\ Cleared /\ port' = Closed
          /\ gain' = [NoGain EXCEPT !.stale = gain.stale] /\ gate' = FALSE
          /\ UNCHANGED <<at, want, turn, sample, dsp, proved, events>>

\* Released when it is closed already.
GiveClosed == /\ at = "idle" /\ Releasing /\ ~port.open
              /\ queued' = {} /\ port' = Closed
              /\ UNCHANGED <<at, active, peer, sample, restVars, events>>

-----------------------------------------------------------------------------
\* The rest of the program.
Wish == /\ at = "idle" /\ Event /\ want' \in {"serve", "give", "offline"} \ {want}
        /\ UNCHANGED <<at, port, active, queued, gain, mode, repair, peer, turn, sample, gate, dsp, proved>>

\* A volume is set, or what was verified has grown old.
Change == /\ ~gain.stale /\ gain' = [gain EXCEPT !.stale = TRUE]
          /\ UNCHANGED <<at, want, port, active, queued, mode, repair, peer, turn, sample, gate, dsp, proved, events>>

\* A client is asked for something, and the headset for a new loudness.
Ask == /\ at = "idle" /\ port.open
       /\ \/ \E c \in Asked \ (active \cup queued) : Event /\ queued' = queued \cup {c}
          \/ /\ peer.primed /\ ~peer.blocked /\ ~port.yielding /\ "headset" \notin active
             /\ queued' = queued \cup {"headset"} /\ UNCHANGED events
       /\ UNCHANGED <<at, port, active, peer, sample, restVars>>

\* Something else changes the mode.
Slips == /\ dsp = 2 /\ Event /\ dsp' = 1
         /\ UNCHANGED <<at, want, port, active, queued, gain, mode, repair, peer, turn, sample, gate, proved>>

Turn == \/ Begin \/ Samples \/ Bootstrap \/ Prime \/ Bulk \/ ModeAsk \/ ModePoll \/ ModeEnds
        \/ PollBattery \/ PollHeadset \/ PollQuery \/ PollSettings \/ PollMenu \/ PollMeter
        \/ PollGain \/ GainVerified \/ GainFails

Next == Turn \/ Open \/ Ages \/ GiveUp \/ GiveClosed \/ Wish \/ Change \/ Ask \/ Slips

Spec == Init /\ [][Next]_vars

\* The main loop turns; what is under way ends, and the line is quiet between frames,
\* again and again as long as the arbiter asks; what is sent leaves the UART, which who
\* polls finds out.
Leaves == Turn /\ port.tx /\ ~port'.tx
Quiet == Samples /\ sample'.boundary
Over == Turn /\ active # {} /\ active' = {}
Comes == Open \/ Ages \/ GiveUp \/ GiveClosed
ArbiterFair == WF_vars(Turn) /\ WF_vars(Comes) /\ SF_vars(Quiet) /\ SF_vars(Over) /\ SF_vars(Leaves)
FairSpec == Spec /\ ArbiterFair

-----------------------------------------------------------------------------
TypeOK ==
  /\ at \in {"idle", "samples", "bootstrap", "prime", "mode"} \cup Client
  /\ active \subseteq Client /\ queued \subseteq Asked \cup {"headset", "settings"}
  /\ mode \in {"unset", "requested", "ready", "failed"}
  /\ peer.link \in {"unknown", "up", "down"}
  /\ (gain.ready => gain.have) /\ (~port.open => active = {} /\ ~gate)

\* A request starts when no other is under way and the last bytes have left.
StartsAlone == \A c \in active' \ active : active = {} /\ ~port.tx
OneOwner == [][StartsAlone]_vars

\* Between two turns the gate of the playback is open only if the gain was verified, and
\* with it the output mode, since the first bulk data of the headset (unless that has
\* just been seen and the next turn deals with it).
GateProved == at = "idle" /\ gate /\ ~peer.reset => proved

\* Once the gain was verified, a loudness that waits for the headset gets its turn,
\* whatever is done to the volume.
Waits == /\ "headset" \in queued /\ peer.link = "up" /\ peer.primed
         /\ want = "serve" /\ ~port.yielding /\ mode = "ready" /\ gain.ready
HeadsetServed == []<>~Waits

\* A reservation of the port ends, handed over or withdrawn.
ReservationEnds == []<>~port.yielding

\* native_gain_adapter.c 176-179: what was sent comes to be seen to have left, "do not
\* leave tx_pending permanently blocking the mode-repair boundary": whoever has sent it
\* goes on being polled, or the turn looks itself.
BytesObserved == []<>~port.tx
=============================================================================
