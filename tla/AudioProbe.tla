----------------------------- MODULE AudioProbe -----------------------------
(***************************************************************************)
(* audio_probe.c, with volume.c: the audio function as the host meets it.  *)
(* Requests of the host come in the USB interrupt and may fail half way,   *)
(* leaving endpoints that the controller still holds; the main loop sends  *)
(* the notifications of what the dial, the menu or the headset changed,    *)
(* with the interrupts masked.                                             *)
(***************************************************************************)
EXTENDS Integers, FiniteSets

CONSTANTS Top,         \* the highest level of the volume; 0 is silence
          MaxRequests, \* bound: requests of the host
          MaxChanges,  \* bound: changes made on the device
          MaxFailures  \* bound: endpoints that do not open or close, transfers that fail

ProbeAssumption == {Top, MaxRequests, MaxChanges, MaxFailures} \subseteq Nat

Endpoint == {"out", "notify", "mic", "feedback"}  \* 03, 82, 83 and 84
Stream == {"playback", "microphone"}
EndpointsOf(s) == IF s = "playback" THEN {"out", "feedback"} ELSE {"mic"}
Alternates(s) == IF s = "playback" THEN 0..2 ELSE 0..1
Rates == {48, 96}
Selector == {"volume", "mute"}

VARIABLES
  configured, alternate, rate, failed,  \* of the configuration and the two streams
  open, closing,  \* endpoint_open and endpoint_closing
  volume,   \* current, muted, revision and pending
  note,     \* notify_busy, the selector that is sent and sent_revision; external: how far
            \* the transfer has come
  peer,     \* the revision the service of the gain has read, and if (ghost) something was
            \* changed since
  host,     \* external: what the host takes the volume to be, and what it is told to read
  bound

vars == <<configured, alternate, rate, failed, open, closing, volume, note, peer, host, bound>>
streamVars == <<configured, alternate, rate, failed, open, closing>>

NoNote == [busy |-> FALSE, selector |-> "volume", sent |-> 0, transfer |-> "none"]

Init ==
  /\ configured = FALSE /\ alternate = [s \in Stream |-> 0] /\ rate = 48 /\ failed = FALSE
  /\ open = {} /\ closing = {} /\ note = NoNote
  /\ volume = [current |-> Top, muted |-> FALSE, revision |-> 1, pending |-> {}]
  /\ peer = [revision |-> 1, changed |-> FALSE]
  /\ host = [volume |-> Top, mute |-> FALSE, reads |-> {}]
  /\ bound = [requests |-> 0, changes |-> 0, failures |-> 0]

\* What fails of a set of endpoints, each failure an event of its own.
MayFail(endpoints) == {f \in SUBSET endpoints : bound.failures + Cardinality(f) <= MaxFailures}
Failing(f) == bound' = [bound EXCEPT !.requests = @ + 1, !.failures = @ + Cardinality(f)]
Requested == bound.requests < MaxRequests

-----------------------------------------------------------------------------
\* A transfer ends with its endpoint, as the driver cancels it.
Cancelled == [note EXCEPT !.transfer = "none"]

\* Mutant of Freed: a notification under way stays busy when its endpoint is closed.
FreedBusy(endpoints, f) == IF "notify" \in (open \cap endpoints) \ f THEN Cancelled ELSE note
Freed(endpoints, f) ==
  IF "notify" \in (open \cap endpoints) \ f THEN [Cancelled EXCEPT !.busy = FALSE] ELSE note

\* close_endpoints(): those in f are not given up by the controller.
Closed(endpoints, f) ==
  /\ open' = (open \ endpoints) \cup f /\ closing' = (closing \ endpoints) \cup f
  /\ note' = Freed(endpoints, f)

\* Mutant of Left: the old alternate stays until the new one is open.
LeftLater(s) == alternate
\* No callback of a cancellation may rearm the old stream.
Left(s) == [alternate EXCEPT ![s] = 0]

Same(s, next, r) ==
  /\ alternate[s] = next /\ (s = "playback" => r = rate)
  /\ closing \cap EndpointsOf(s) = {} /\ (next # 0 \/ open \cap EndpointsOf(s) = {})

\* set_stream_interface(): closed (or not), and opened again (or not, and closed once
\* more).
CloseFails(s, next, r) ==
  /\ \E f \in MayFail(open \cap EndpointsOf(s)) :
       f # {} /\ Closed(EndpointsOf(s), f) /\ Failing(f)
  /\ alternate' = Left(s) /\ failed' = (failed \/ s = "playback")
  /\ UNCHANGED rate

Reopened(s, next, r) ==
  /\ Closed(EndpointsOf(s), {}) /\ Failing({}) /\ alternate' = Left(s) /\ next = 0
  /\ IF s = "playback" THEN rate' = r /\ failed' = FALSE ELSE UNCHANGED <<rate, failed>>

Opened(s, next, r) ==
  /\ next # 0 /\ alternate' = [alternate EXCEPT ![s] = next]
  /\ open' = open \cup EndpointsOf(s) /\ closing' = closing \ EndpointsOf(s) /\ Failing({})
  /\ IF s = "playback" THEN rate' = r /\ failed' = FALSE ELSE UNCHANGED <<rate, failed>>
  /\ UNCHANGED note

OpenFails(s, next, r) ==
  /\ next # 0 /\ alternate' = Left(s) /\ bound.failures < MaxFailures
  /\ \E opened \in SUBSET EndpointsOf(s) :
       /\ "feedback" \in opened => "out" \in opened
       /\ \E f \in MayFail(opened) :
            /\ bound.failures + 1 + Cardinality(f) <= MaxFailures
            /\ open' = (open \ EndpointsOf(s)) \cup f /\ closing' = (closing \ EndpointsOf(s)) \cup f
            /\ bound' = [bound EXCEPT !.requests = @ + 1, !.failures = @ + 1 + Cardinality(f)]
  /\ failed' = (failed \/ s = "playback")
  /\ UNCHANGED <<rate, note>>

SetStream(s, next, r) ==
  \/ Same(s, next, r) /\ Failing({}) /\ UNCHANGED <<alternate, rate, failed, open, closing, note>>
  \/ /\ ~Same(s, next, r)
     /\ \/ CloseFails(s, next, r) \/ Reopened(s, next, r)
        \/ Opened(s, next, r) \/ OpenFails(s, next, r)

SetInterface == /\ configured /\ Requested
                /\ \E s \in Stream : \E next \in Alternates(s) : SetStream(s, next, rate)
                /\ UNCHANGED <<configured, volume, peer, host>>

\* The rate of the clock, set by a control request.
SetRate == /\ configured /\ Requested
           /\ \E r \in Rates \ {rate} : SetStream("playback", alternate["playback"], r)
           /\ UNCHANGED <<configured, volume, peer, host>>

\* deconfigure().
Deconfigured(f) ==
  /\ Closed(Endpoint, f) /\ alternate' = [s \in Stream |-> 0] /\ failed' = (f # {})

SetConfiguration(next) ==
  /\ Requested /\ UNCHANGED <<rate, volume, peer>>
  /\ IF next = configured /\ closing = {} /\ (next \/ open = {})
     THEN Failing({}) /\ UNCHANGED <<configured, alternate, failed, open, closing, note, host>>
     ELSE \/ \E f \in MayFail(open) \ {{}} :
               Deconfigured(f) /\ Failing(f) /\ configured' = FALSE /\ UNCHANGED host
          \/ /\ note' = Freed(Endpoint, {}) /\ alternate' = [s \in Stream |-> 0] /\ failed' = FALSE
             /\ closing' = {} /\ open' = (IF next THEN {"notify"} ELSE {}) /\ configured' = next
             /\ Failing({})
             /\ host' = IF next THEN [host EXCEPT !.reads = Selector] ELSE host

Reset ==
  /\ Requested /\ Failing({})
  /\ configured' = FALSE /\ alternate' = [s \in Stream |-> 0] /\ rate' = 48 /\ failed' = FALSE
  /\ open' = {} /\ closing' = {} /\ note' = [Cancelled EXCEPT !.busy = FALSE]
  /\ UNCHANGED <<volume, peer, host>>

-----------------------------------------------------------------------------
\* omni_volume_set() and omni_mute_set().
WithVolume(v, level, local) ==
  IF level = v.current THEN v
  ELSE [v EXCEPT !.current = level, !.revision = @ + 1,
                 !.pending = IF local THEN @ \cup {"volume"} ELSE @]
WithMute(v, mute, local) ==
  IF mute = v.muted THEN v
  ELSE [v EXCEPT !.muted = mute, !.revision = @ + 1,
                 !.pending = IF local THEN @ \cup {"mute"} ELSE @]

Sets(v) == volume' = v /\ peer' = [peer EXCEPT !.changed = @ \/ v.revision # volume.revision]
Changes(v) == /\ bound.changes < MaxChanges /\ bound' = [bound EXCEPT !.changes = @ + 1]
              /\ v # volume /\ Sets(v) /\ UNCHANGED <<streamVars, note, host>>

\* omni_volume_dial().
Dialed(v, step) ==
  LET level == CHOOSE x \in 0..Top : x = v.current + step \/ (v.current + step \notin 0..Top /\ x = v.current)
      turned == WithVolume(v, level, TRUE)
  IN IF level = 0 THEN WithMute(turned, TRUE, TRUE)
     ELSE IF step > 0 THEN WithMute(turned, FALSE, TRUE) ELSE turned
Dial == \E step \in {-1, 1} : Changes(Dialed(volume, step))

\* local_volume(), of the menu,
Local == \E level \in 0..Top, mute \in BOOLEAN :
           Changes(WithMute(WithVolume(volume, level, TRUE), mute, TRUE))

\* and of the headset, by the service of the gain, which has read the revision before.
Snapshot == /\ peer' = [revision |-> volume.revision, changed |-> FALSE] /\ peer' # peer
            /\ UNCHANGED <<streamVars, volume, note, host, bound>>
\* Mutant of Expected: the headset's dial always wins.
ExpectedAny == TRUE
Expected == volume.revision = peer.revision
PeerVolume == /\ Expected
              /\ \E level \in 0..Top, mute \in BOOLEAN :
                   Changes(WithMute(WithVolume(volume, level, TRUE), mute, TRUE))

\* The host sets its own.
HostSets == /\ Requested /\ Failing({})
            /\ \/ \E level \in 0..Top : /\ Sets(WithVolume(volume, level, FALSE))
                                        /\ host' = [host EXCEPT !.volume = level]
               \/ \E mute \in BOOLEAN : /\ Sets(WithMute(volume, mute, FALSE))
                                        /\ host' = [host EXCEPT !.mute = mute]
            /\ UNCHANGED <<streamVars, note>>

-----------------------------------------------------------------------------
\* audio_probe_poll().
Poll ==
  /\ configured /\ "notify" \in open \ closing /\ ~note.busy /\ volume.pending # {}
  /\ note' = [busy |-> TRUE, sent |-> volume.revision, transfer |-> "queued",
              selector |-> IF "volume" \in volume.pending THEN "volume" ELSE "mute"]
  /\ UNCHANGED <<streamVars, volume, peer, host, bound>>

\* The host takes the notification, and will read what it names.
HostTakes ==
  /\ note.transfer = "queued"
  /\ note' = [note EXCEPT !.transfer = "taken"]
  /\ host' = [host EXCEPT !.reads = @ \cup {note.selector}]
  /\ UNCHANGED <<streamVars, volume, peer, bound>>

\* omni_volume_notification_complete(): unless something was changed meanwhile.
Told(v) == IF note.sent = v.revision THEN [v EXCEPT !.pending = @ \ {note.selector}] ELSE v

\* endpoint_callback(): the notification was taken, which means nothing once the endpoint
\* is to close,
Complete ==
  /\ note.transfer = "taken"
  /\ IF "notify" \in open \ closing
     THEN note' = [Cancelled EXCEPT !.busy = FALSE] /\ volume' = Told(volume)
     ELSE note' = Cancelled /\ UNCHANGED volume
  /\ UNCHANGED <<streamVars, peer, host, bound>>

\* or the transfer failed and the notification is sent again.
Refused ==
  /\ note.transfer = "queued" /\ "notify" \in open \ closing /\ bound.failures < MaxFailures
  /\ bound' = [bound EXCEPT !.failures = @ + 1] /\ note' = [Cancelled EXCEPT !.busy = FALSE]
  /\ UNCHANGED <<streamVars, volume, peer, host>>

HostReads ==
  /\ \/ "volume" \in host.reads
        /\ host' = [host EXCEPT !.volume = volume.current, !.reads = @ \ {"volume"}]
     \/ "mute" \in host.reads
        /\ host' = [host EXCEPT !.mute = volume.muted, !.reads = @ \ {"mute"}]
  /\ UNCHANGED <<streamVars, volume, note, peer, bound>>

Next == \/ SetInterface \/ SetRate \/ SetConfiguration(TRUE) \/ SetConfiguration(FALSE) \/ Reset
        \/ Dial \/ Local \/ Snapshot \/ PeerVolume \/ HostSets
        \/ Poll \/ HostTakes \/ Complete \/ Refused \/ HostReads

Spec == Init /\ [][Next]_vars

\* The main loop polls; the host polls the endpoint, its controller reports the transfer,
\* and the host reads what it was told to.
FairSpec == Spec /\ WF_vars(Poll) /\ WF_vars(HostTakes) /\ WF_vars(Complete) /\ WF_vars(HostReads)

-----------------------------------------------------------------------------
TypeOK ==
  /\ open \subseteq Endpoint /\ closing \subseteq open
  /\ volume.current \in 0..Top /\ volume.pending \subseteq Selector
  /\ \A s \in Stream : alternate[s] \in Alternates(s)
  /\ configured => "notify" \in open \ closing
  /\ note.transfer # "none" => note.busy

\* A stream that is selected has all its endpoints, whatever failed before, and one that
\* the controller may still be using is not given to the next stream.
StreamOwned ==
  \A s \in Stream : alternate[s] # 0 => configured /\ EndpointsOf(s) \subseteq open \ closing

\* What the host does not know of it is told, or about to read.
HostTold ==
  configured =>
    /\ host.volume # volume.current => "volume" \in volume.pending \cup host.reads
    /\ host.mute # volume.muted => "mute" \in volume.pending \cup host.reads

\* The dial of the headset never overrides a change made since the gain's service read
\* the volume.
YieldsToHost == PeerVolume => ~peer.changed
PeerYields == [][YieldsToHost]_vars

\* While configured, the host comes to know the volume.
Informed ==
  configured => host.volume = volume.current /\ host.mute = volume.muted /\ volume.pending = {}
HostInformed == []<>Informed
=============================================================================
