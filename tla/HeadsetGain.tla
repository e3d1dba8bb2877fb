---------------------------- MODULE HeadsetGain ----------------------------
(***************************************************************************)
(* headset_gain.c, the client of UART3 that keeps the loudness of the      *)
(* headset and the volume of the host in step, with the service of         *)
(* native_gain_adapter.c around it.  It asks for the headset's bulk data   *)
(* first (operation 0), then sends a loudness (1) and reads it back (2),   *)
(* and takes a turn of the headset's dial for a new volume.  On the wire   *)
(* the answer to a read, the echo of a write and a report of the dial are  *)
(* the same frame.                                                         *)
(*                                                                         *)
(* The USB interrupt changes the volume at any time; the main loop reads   *)
(* it with its revision when the service begins, and adopts the dial's     *)
(* only if the revision is still the one it had when the frame began.      *)
(***************************************************************************)
EXTENDS Exchange

CONSTANTS Level,      \* the loudness levels
          MaxHost,    \* bound: volumes the host sets
          MaxDials,   \* bound: turns of the dial
          MaxEvents   \* bound: link reports, withdrawals and failures of the port, lost frames

HeadsetAssumption ==
  /\ ExchangeAssumption
  /\ Level # {} /\ Level \subseteq Nat /\ {MaxHost, MaxDials, MaxEvents} \subseteq Nat

VARIABLES
  g,          \* omni_headset_gain: the fields of the code, "flags" for ack, negative,
              \* bad_reply and matched, "link" for have_link and connected
  begun,      \* the frame being read: none, or its frame_revision, whether it is
              \* eligible, and a ghost, the volume's revision at its first byte
  master,     \* the volume of audio_probe.c, as a loudness, and its revision
  headset,    \* its loudness, and whether it is connected
  echo,       \* the write it has not echoed yet, and whether anything came after it
  dialed, sets, missed,  \* ghosts: levels it was dialed to; writes begun for a revision;
                          \* what came since the last one: an overtaken "echo", a turn
                          \* of the dial "lost" or "refused", a write deferred and then
                          \* "dropped"; "link", a report of the link lost, until one
                          \* that tells of a change
  hosts, dials, events \* what has happened of the bounds

None == -1
NoFrame == [rev |-> None, eligible |-> FALSE, real |-> None]
NoRemote == [level |-> None, rev |-> None, real |-> None]

worldVars == <<master, headset, echo, dialed, missed>>
boundVars == <<hosts, dials, events>>
vars == <<lineVars, g, begun, worldVars, sets, boundVars>>

Init ==
  /\ LineInit
  /\ \E l \in Level :
       /\ master = [level |-> l, rev |-> 0]
       /\ g = [online |-> FALSE, phase |-> "idle", op |-> 0, primed |-> FALSE, have |-> FALSE,
               verified |-> l, desired |-> l, rev |-> 0, submitted |-> l, srev |-> 0,
               blocked |-> FALSE, cancel |-> FALSE, yielding |-> FALSE, link |-> "unknown",
               seen |-> None, remote |-> NoRemote, history |-> {}, conflict |-> FALSE,
               flags |-> {}, readback |-> l]
  /\ headset \in [level : Level, up : BOOLEAN]
  /\ begun = NoFrame /\ echo = {} /\ dialed = {} /\ sets = 0 /\ missed = {} /\ hosts = 0 /\ dials = 0 /\ events = 0

Busy(r) == r.phase \in {"queued", "send", "drain", "wait", "gap"}
Active(r) == Busy(r) /\ r.phase # "queued"
Ready(r) == r.online /\ r.have /\ ~r.blocked /\ r.link # "down"
Settled(r) == Ready(r) /\ r.desired = r.verified /\ ~Busy(r)

\* queue().
Queue(r) == IF \/ ~r.online \/ r.blocked \/ r.cancel \/ r.link = "down"
               \/ Busy(r) \/ r.phase = "deferred"
               \/ (r.primed /\ r.have /\ r.desired = r.verified)
            THEN r
            ELSE [r EXCEPT !.phase = "queued", !.op = IF r.primed THEN 1 ELSE 0]

\* finish().
Finish(r, p) ==
  LET e == [r EXCEPT !.phase = p]
  IN IF p \notin {"done", "cancelled"} THEN [e EXCEPT !.blocked = TRUE, !.have = FALSE]
     ELSE IF p = "cancelled" /\ ~r.yielding /\ r.link = "up" THEN Queue([e EXCEPT !.cancel = FALSE])
     ELSE e

\* omni_headset_gain_desire: the volume as the service finds it.
Desire(r, l, n) ==
  LET fresh == IF r.rev = n THEN r
               ELSE [r EXCEPT !.conflict = FALSE, !.blocked = @ /\ r.phase # "conflict",
                              !.phase = IF @ = "deferred" THEN "idle" ELSE @]
  IN Queue([fresh EXCEPT !.desired = l, !.rev = n])

\* prepare().
Prepare(r, o) == [r EXCEPT !.op = o, !.phase = "send", !.flags = {}, !.readback = r.submitted]

-----------------------------------------------------------------------------
\* The service.  It takes what the dial said before it polls the client.
Boundary == Drained /\ rx = <<>> /\ begun = NoFrame
Polled == g.online /\ g.remote = NoRemote
still == <<begun, worldVars, boundVars>>

ServiceBegins == /\ g.rev # master.rev /\ g' = Desire(g, master.level, master.rev)
                 /\ missed' = IF g.phase = "deferred" /\ g'.phase = "idle"
                              THEN missed \cup {"dropped"} ELSE missed
                 /\ UNCHANGED <<lineVars, begun, master, headset, echo, dialed, boundVars, sets>>

\* Mutant of Waiting: a write that has waited too long is forgotten.
WaitingQueued == g.phase = "queued"
\* A write or a bulk request waits for its turn, however long.
Waiting == g.phase \in {"queued", "deferred"}

PollStart ==
  /\ Polled /\ Waiting /\ Boundary
  /\ g.link = "up" /\ ~g.yielding /\ ~g.blocked /\ ~g.cancel
  /\ LET q == IF g.phase = "deferred" THEN Queue([g EXCEPT !.phase = "idle"])
              ELSE [g EXCEPT !.op = IF g.primed THEN 1 ELSE 0]
     IN \/ /\ q.phase = "queued"
           /\ g' = Prepare([q EXCEPT !.submitted = g.desired, !.srev = g.rev], q.op)
           /\ IF q.op = 1
              THEN missed' = missed \cap {"link"} /\ sets' = IF g.rev = g.srev THEN sets + 1 ELSE 1
              ELSE UNCHANGED <<missed, sets>>
        \/ /\ q.phase = "idle"
           /\ g' = q /\ missed' = missed \cup {"dropped"} /\ UNCHANGED sets
  /\ sent' = 0 /\ UNCHANGED <<wire, peerVars, begun, master, headset, echo, dialed, boundVars>>

PollDefer == /\ Polled /\ g.phase = "queued" /\ g' = [g EXCEPT !.phase = "deferred"]
             /\ UNCHANGED <<lineVars, still, sets>>

PollSend == /\ Polled /\ g.phase = "send"
            /\ Push([op |-> g.op, level |-> g.submitted])
            /\ g' = IF sent' = Bytes THEN [g EXCEPT !.phase = "drain"] ELSE g
            /\ UNCHANGED <<peerVars, still, sets>>

PollDrain == /\ Polled /\ g.phase = "drain" /\ Drained /\ g' = [g EXCEPT !.phase = "wait"]
             /\ UNCHANGED <<lineVars, still, sets>>

PollRead == /\ Polled /\ g.phase = "gap" /\ ~g.cancel /\ Boundary
            /\ g' = Prepare(g, 2) /\ sent' = 0
            /\ UNCHANGED <<wire, peerVars, still, sets>>

\* What a read-back shows, whether the write or the dial put it there.
Verified(r) == [r EXCEPT !.verified = r.readback,
                         !.have = @ \/ r.readback \in {r.submitted, r.desired}]

\* One that shows neither is tried again once for each revision.
ReadBack(r) ==
  LET v == Verified(r)
      lost == r.readback \notin {r.submitted, r.desired} /\ r.rev = r.srev
  IN IF lost /\ r.conflict THEN Finish(v, "conflict")
     ELSE Queue(Finish([v EXCEPT !.conflict = @ \/ lost], "done"))

PollWait ==
  /\ Polled /\ g.phase = "wait"
  /\ \/ g.cancel /\ g' = Finish(g, "cancelled")
     \/ ~g.cancel /\ "negative" \in g.flags /\ g' = Finish(g, "nack")
     \/ ~g.cancel /\ "negative" \notin g.flags /\ "bad" \in g.flags /\ g' = Finish(g, "invalid")
     \/ /\ ~g.cancel /\ g.flags \cap {"negative", "bad"} = {}
        /\ \/ /\ g.op = 0 /\ "matched" \in g.flags
              /\ g' = Queue([g EXCEPT !.primed = TRUE, !.phase = "idle"])
           \/ /\ g.op = 1 /\ "ack" \in g.flags
              /\ g' = [g EXCEPT !.history = @ \cup {g.submitted}, !.phase = "gap"]
           \/ /\ g.op = 2 /\ "matched" \in g.flags
              /\ g' = ReadBack(g)
  /\ UNCHANGED <<lineVars, still, sets>>

PollGap == /\ Polled /\ g.phase = "gap" /\ g.cancel /\ g' = Finish(g, "cancelled")
           /\ UNCHANGED <<lineVars, still, sets>>

\* The answer, or the turn for the read-back, has not come in time.
PollTimeout == /\ Polled /\ g.phase \in {"wait", "gap"} /\ ~g.cancel /\ g' = Finish(g, "timeout")
               /\ UNCHANGED <<lineVars, still, sets>>

\* omni_headset_gain_take_remote, and audio_probe_peer_volume in a critical section.
\* Mutant of Current: the report is adopted whatever the host has set since.
CurrentAlways == TRUE
Current == master.rev = g.remote.rev

TakeRemote ==
  /\ g.online /\ g.remote # NoRemote
  /\ LET r == [g EXCEPT !.remote = NoRemote]
         same == g.remote.level = master.level
     IN \/ /\ Current
           /\ master' = IF same THEN master ELSE [level |-> g.remote.level, rev |-> master.rev + 1]
           /\ g' = Desire(r, master'.level, master'.rev)
           /\ UNCHANGED missed
        \/ ~Current /\ g' = r /\ missed' = missed \cup {"refused"} /\ UNCHANGED master
  /\ UNCHANGED <<lineVars, begun, headset, echo, dialed, boundVars, sets>>

-----------------------------------------------------------------------------
\* The port.
Event == events < MaxEvents /\ events' = events + 1 /\ UNCHANGED <<hosts, dials>>

Released(r) ==
  [r EXCEPT !.online = FALSE, !.phase = "idle", !.primed = FALSE, !.have = FALSE, !.remote = NoRemote,
            !.seen = None, !.link = "unknown", !.history = {}, !.cancel = FALSE,
            !.yielding = FALSE, !.conflict = FALSE, !.blocked = FALSE, !.flags = {}]

\* omni_headset_gain_acquire.
Acquire == /\ ~g.online
           /\ g' = Queue([g EXCEPT !.online = TRUE, !.op = 0]) /\ sets' = 0
           /\ UNCHANGED <<lineVars, still>>

CloseUart == /\ g' = Released(g) /\ begun' = NoFrame /\ Reset /\ echo' = {} /\ missed' = {}
             /\ UNCHANGED <<master, headset, dialed, sets>>

\* Bytes that cannot be got out, or an error of the UART.
PortFails == g.online /\ Event /\ CloseUart

\* omni_headset_gain_yield: playback wants the port.
Yield == /\ g.online /\ ~g.yielding /\ Event
         /\ LET y == [g EXCEPT !.cancel = TRUE, !.yielding = TRUE, !.remote = NoRemote]
            IN g' = IF g.phase \in {"queued", "deferred", "gap"} \/ (g.phase = "send" /\ sent = 0)
                    THEN Finish(y, "cancelled") ELSE y
         /\ UNCHANGED <<lineVars, begun, worldVars, sets>>

\* It is given up when nothing is under way any more.
Release == /\ g.online /\ g.yielding /\ ~Active(g) /\ Drained /\ CloseUart
           /\ UNCHANGED boundVars

-----------------------------------------------------------------------------
\* omni_headset_gain_byte: the first byte of a frame, and the others.
FirstByte ==
  /\ g.online /\ begun = NoFrame /\ rx # <<>>
  /\ begun' = [rev |-> g.rev, eligible |-> Active(g) /\ g.phase # "gap" /\ Submitted, real |-> master.rev]
  /\ UNCHANGED <<lineVars, g, worldVars, sets, boundVars>>

Flag(f) == [g EXCEPT !.flags = IF Active(g) THEN @ \cup {f} ELSE @]
Eligible == Active(g) /\ begun.eligible

\* An E4 report.  A headset that has come or gone knows nothing of what was set.
LinkReport(up) ==
  LET first == g.link = "unknown"
      changed == ~first /\ (g.link = "up") # up
      r1 == [g EXCEPT !.link = IF up THEN "up" ELSE "down"]
      r2 == IF ~up \/ changed
            THEN [r1 EXCEPT !.primed = FALSE, !.have = FALSE, !.seen = None, !.remote = NoRemote,
                            !.history = {}, !.cancel = Active(g),
                            !.phase = IF Active(g) THEN @ ELSE "idle"]
            ELSE r1
      r3 == IF up /\ (first \/ changed)
            THEN [r2 EXCEPT !.blocked = FALSE, !.primed = FALSE, !.have = FALSE, !.conflict = FALSE]
            ELSE r2
  IN Queue(r3)

BulkReport == IF g.link = "down" THEN g
              ELSE [(IF g.op = 0 /\ Eligible THEN Flag("matched") ELSE g) EXCEPT !.primed = TRUE]

\* A level that came from here, or was reported already.
Echoed(r, l) ==
  l \in {r.seen, r.verified} \cup (IF Active(r) THEN {r.submitted} ELSE {}) \cup r.history

\* A level: the answer to the read, an echo or the dial.
GainReport(l) ==
  LET getter == g.op = 2 /\ Eligible
      r == IF getter THEN [g EXCEPT !.readback = l, !.flags = @ \cup {"matched"}] ELSE g
      mine == getter /\ (l = g.submitted \/ begun.rev # g.srev)
      \* seen is the level of the report before this one.
      dial == ~mine /\ Ready(g) /\ ~g.cancel /\ ~Echoed(g, l)
  IN [r EXCEPT !.seen = l,
               !.remote = IF dial THEN [level |-> l, rev |-> begun.rev, real |-> begun.real] ELSE @]

RestOfFrame ==
  /\ g.online /\ begun # NoFrame /\ Read /\ begun' = NoFrame
  /\ \/ Frame.kind = "ack" /\ g' = IF Eligible /\ g.op = Frame.op THEN Flag(Frame.what) ELSE g
     \/ Frame.kind = "bulk" /\ g' = BulkReport
     \/ Frame.kind = "gain" /\ g' = GainReport(Frame.level)
     \/ Frame.kind = "link" /\ g' = LinkReport(Frame.up)
  /\ sets' = IF g.link = "up" /\ g'.link = "up" THEN sets ELSE 0
  /\ missed' = IF g'.link = g.link THEN missed ELSE missed \ {"link"}
  /\ UNCHANGED <<sent, wire, owed, master, headset, echo, dialed, boundVars>>

\* Bytes of it are lost.
FrameLost == /\ g.online /\ rx # <<>> /\ Event /\ Read /\ begun' = NoFrame
             /\ g' = Flag("bad")
             /\ missed' = CASE Frame.kind = "gain" -> missed \cup {"lost"}
                            [] Frame.kind = "link" -> missed \cup {"link"}
                            [] OTHER -> missed
             /\ UNCHANGED <<sent, wire, owed, master, headset, echo, dialed, sets>>

-----------------------------------------------------------------------------
\* The host (a volume set while muted has a revision and the same loudness), and
\* the headset.
HostSets == /\ hosts < MaxHost /\ hosts' = hosts + 1
            /\ \E l \in Level : master' = [level |-> l, rev |-> master.rev + 1]
            /\ UNCHANGED <<lineVars, g, begun, headset, echo, dialed, missed, sets, dials, events>>

\* It acknowledges a write it may not perform.  One that it does it may echo, at
\* once or, overtaken by what it hears and says next, until the next one.
Overtaken == {[e EXCEPT !.late = TRUE] : e \in echo}

Hear ==
  \E f \in wire :
    /\ Leave(f, IF ~headset.up THEN {}
                ELSE CASE f.op = 0 -> {"bulk"} [] f.op = 1 -> {"ack"} [] f.op = 2 -> {"gain"})
    /\ IF headset.up /\ f.op = 1
       THEN \/ /\ headset' = [headset EXCEPT !.level = f.level]
               /\ echo' \in {{}, {[level |-> f.level, late |-> FALSE]}}
            \/ echo' = {} /\ UNCHANGED headset
       ELSE echo' = Overtaken /\ UNCHANGED headset
    /\ UNCHANGED <<sent, rx, g, begun, master, dialed, missed, sets, boundVars>>

GainFrame(l) == [kind |-> "gain", level |-> l]

Answer == /\ \/ Give("bulk", [kind |-> "bulk"])
             \/ Give("gain", GainFrame(headset.level))
             \/ \E w \in {"ack", "negative"} : Give("ack", [kind |-> "ack", op |-> 1, what |-> w])
          /\ UNCHANGED <<sent, wire, g, begun, worldVars, sets, boundVars>>

LoseAnswer == /\ \E a \in owed : Lose(a)
              /\ UNCHANGED <<sent, wire, rx, g, begun, worldVars, sets, boundVars>>

\* The port is open, and what the headset says gets through.
Says(frame) == g.online /\ Len(rx) < RxFrames /\ rx' = Append(rx, frame)

Echoes == /\ \E e \in echo : Says(GainFrame(e.level)) /\ missed' = IF e.late THEN missed \cup {"echo"} ELSE missed
          /\ echo' = {}
          /\ UNCHANGED <<sent, wire, owed, g, begun, master, headset, dialed, sets, boundVars>>

Dials == /\ headset.up /\ dials < MaxDials /\ dials' = dials + 1
         /\ \E l \in Level \ {headset.level} :
              /\ Says(GainFrame(l)) /\ headset' = [headset EXCEPT !.level = l]
              /\ dialed' = dialed \cup {l} /\ echo' = Overtaken
         /\ UNCHANGED <<sent, wire, owed, g, begun, master, missed, sets, hosts, events>>

\* It reports the link: asked by the battery client, or because it has changed.
Links == /\ events < MaxEvents \/ (g.link = "unknown" /\ rx = <<>> /\ begun = NoFrame)
         /\ events' = IF events < MaxEvents THEN events + 1 ELSE events
         /\ \E u \in BOOLEAN, l \in Level :
              /\ IF u = headset.up \/ events = MaxEvents
                 THEN Says([kind |-> "link", up |-> headset.up]) /\ UNCHANGED <<headset, echo, owed, missed>>
                 ELSE /\ Says([kind |-> "link", up |-> u])
                      /\ headset' = [level |-> l, up |-> u] /\ echo' = {} /\ owed' = {}
                      /\ missed' = missed \cap {"link"}
         /\ UNCHANGED <<sent, wire, g, begun, master, dialed, sets, hosts, dials>>

Service == \/ ServiceBegins \/ PollStart \/ PollDefer \/ PollSend \/ PollDrain \/ PollRead
           \/ PollWait \/ PollGap \/ PollTimeout \/ TakeRemote
           \/ Acquire \/ Release \/ FirstByte \/ RestOfFrame

World == \/ PortFails \/ Yield \/ FrameLost
         \/ HostSets \/ Hear \/ Answer \/ LoseAnswer \/ Echoes \/ Dials \/ Links

Next == Service \/ World

Spec == Init /\ [][Next]_vars

Loop == \/ ServiceBegins \/ PollStart \/ PollDrain \/ PollRead \/ PollWait \/ PollGap
        \/ PollSend /\ sent' # sent
        \/ TakeRemote \/ Acquire \/ Release \/ FirstByte \/ RestOfFrame

\* The main loop turns and gives the client its turn; the UART sends; what is
\* not answered is given up in the end.
LinkReturns == Links /\ events' = events
FairSpec == Spec /\ WF_vars(Loop) /\ WF_vars(Hear) /\ SF_vars(PollTimeout) /\ WF_vars(LinkReturns)

-----------------------------------------------------------------------------
TypeOK ==
  /\ g.phase \in {"idle", "queued", "send", "drain", "wait", "gap", "done", "timeout", "cancelled",
                  "nack", "invalid", "conflict", "deferred"}
  /\ g.op \in 0..2 /\ {g.verified, g.desired, g.submitted, g.readback} \subseteq Level
  /\ g.seen \in Level \cup {None} /\ g.history \subseteq Level
  /\ g.flags \subseteq {"ack", "negative", "bad", "matched"}
  /\ g.rev <= master.rev /\ g.srev <= g.rev /\ headset.level \in Level
  /\ \A e \in echo : e.level \in Level

\* A report of the headset does not replace a volume the host has set since the
\* first byte of the report was read.
KeepsHost == g' # g /\ master' # master => master.rev = g.remote.real
HostKept == [][KeepsHost]_vars

\* Only a level the headset was dialed to becomes the host's volume: an echo, an
\* answer to a read or what it had when it came back never does, unless the report
\* that it went was lost: the client then takes it for the one it knew.
TakesDialed == g' # g /\ master' # master /\ "link" \notin missed => master'.level \in dialed
OnlyDialed == [][TakesDialed]_vars

\* The client is settled, with the volume as it is, and nothing is on its way.
Quiet == Settled(g) /\ g.phase # "deferred" /\ g.rev = master.rev /\ Boundary /\ owed = {}
         /\ headset.up /\ g.remote = NoRemote /\ ~g.yielding
Agreed == headset.level = g.verified \/ headset.level \in g.history

\* When the client says it is settled, the headset has the loudness verified,
\* unless it was dialed to one set lately (which is taken for an echo), an
\* overtaken echo was taken for an answer, the report of the dial or of the link was
\* lost, the host spoke when the dial's came, or a deferred write was dropped.
InStep == Quiet /\ missed = {} => Agreed

\* A write may wait for its turn without making the last verified loudness
\* invalid: as InStep, with writes dropped.
LastValid == Quiet /\ missed \subseteq {"dropped"} => Agreed

\* For one revision of the volume the headset is sent a write twice at most.
TwoWrites == sets <= 2

\* A headset that stays, on a port that stays, and answers well is brought to the
\* volume in the end, whatever was dialed meanwhile.
HeadsetSettles == <>[](g.online /\ g.link = "up" /\ ~g.blocked) => <>[]Settled(g)
=============================================================================
