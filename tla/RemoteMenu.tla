----------------------------- MODULE RemoteMenu -----------------------------
(***************************************************************************)
(* remote_menu.c, the client of UART3 that keeps the headset's menu mode   *)
(* and the menu of the base station together, with the part of ui.c that   *)
(* asks it to and the queue of controls.c between them.                    *)
(*                                                                         *)
(* A frame of the headset that enters or leaves the menu is observed       *)
(* twice: by the client, which answers it at once with an intent of its    *)
(* own, and by the queue of controls, which the user interface empties     *)
(* later in the turn of the main loop.  A key that opens or closes the     *)
(* menu becomes an intent when the user interface takes it.                *)
(***************************************************************************)
EXTENDS Exchange

CONSTANTS Capacity,   \* of the queue of controls
          MaxKeys,    \* bound: keys of the headset and of the base station
          MaxPeers,   \* bound: times the headset enters or leaves the menu
          MaxEvents   \* bound: link changes, withdrawals and failures of the port

MenuAssumption ==
  /\ ExchangeAssumption
  /\ Capacity \in Nat \ {0} /\ {MaxKeys, MaxPeers, MaxEvents} \subseteq Nat

VARIABLES
  m,         \* omni_remote_menu: the fields of the code; "pending" holds the intent
             \* that waits, "frames" what is left to send, "flags" the answers
  port,      \* uart_opened and state.yielding: "open", "yielding" or "closed"
  begun,     \* the frame being read: "none", or if it began with the request sent
  queue,     \* the events the user interface has not taken
  ui,        \* its menu: "open" or "closed"
  dsp,       \* the mode the DSP is in, and whether the headset is connected
  missed,    \* ghost: an event lost to a "full" queue, an intent "refused", a key
             \* "overtaken" by the headset, a change the client has not heard
             \* ("unheard"), an answer too "late", or read when the "deadline" passes
  bound      \* how often each bounded action has happened

worldVars == <<dsp, missed, bound>>
uiVars == <<queue, ui>>
vars == <<lineVars, m, port, begun, uiVars, worldVars>>

Init ==
  /\ LineInit
  /\ m = [phase |-> "over", pending |-> {}, desired |-> "none", mode |-> "unknown",
          planned |-> "closed", frames |-> <<>>, flags |-> {}, cancel |-> FALSE,
          fault |-> FALSE, link |-> "unknown"]
  /\ port = "closed" /\ begun = "none" /\ queue = <<>> /\ ui = "closed"
  /\ dsp \in [mode : {"open", "closed"}, up : BOOLEAN]
  /\ missed = {} /\ bound = [keys |-> 0, peers |-> 0, events |-> 0]

Active(r) == r.phase \in {"send", "drain", "wait", "gap"}
Busy(r) == r.pending # {} \/ Active(r)

\* queue(): the newest intent replaces the one that waits.
Queue(r, open, context, force) ==
  [r EXCEPT !.pending = {[open |-> open, context |-> context, force |-> force]},
            !.desired = open, !.phase = IF Active(r) THEN @ ELSE "queued"]

\* A mode frame has been sent, at least in part, and not acknowledged.
Unsure(r) == Head(r.frames) = "mode" /\ sent > 0 /\ "ack" \notin r.flags
\* finish(), for what was not accepted.
Finish(r) ==
  [r EXCEPT !.phase = "over", !.frames = <<>>, !.flags = {}, !.cancel = FALSE,
            !.mode = IF Unsure(r) THEN "unknown" ELSE @]
Accepted(r) == [r EXCEPT !.phase = "over", !.frames = <<>>, !.flags = {}]

\* omni_remote_menu_yield.
Yielded(r) ==
  LET q == [r EXCEPT !.pending = {}]
  IN IF ~Active(r) THEN [q EXCEPT !.phase = "over"]
     ELSE IF r.phase \in {"gap", "wait"} \/ (r.phase = "send" /\ sent = 0)
     THEN Finish(q) ELSE [q EXCEPT !.cancel = TRUE]

\* omni_remote_menu_release.
Released(r) ==
  LET y == Yielded([r EXCEPT !.fault = @ \/ r.phase = "drain" \/ (r.phase = "send" /\ sent > 0)])
  IN [(IF Active(y) THEN Finish(y) ELSE y) EXCEPT !.mode = "unknown", !.link = "unknown"]

\* omni_remote_menu_request: the menu was opened or closed here.
Request(r, open) == IF r.fault THEN r ELSE Queue(r, open, TRUE, FALSE)

\* Mutant of Duplicate: whatever is under way for this mode counts.
DuplicatePlanned(r, open) == \/ \E p \in r.pending : p.open = open
                             \/ Active(r) /\ r.planned = open
\* What the headset asks for is wanted and under way already.
Duplicate(r, open) == r.desired = open /\ \/ \E p \in r.pending : p.open = open
                                          \/ Active(r) /\ r.planned = open
\* peer_mode().
PeerMode(r, open) == IF r.fault \/ Duplicate(r, open) THEN r ELSE Queue(r, open, TRUE, TRUE)

\* An E4 report.
LinkReport(r, up) ==
  IF ~up THEN Yielded([r EXCEPT !.link = "down", !.mode = "unknown"])
  ELSE LET u == [r EXCEPT !.link = "up"]
           under == \/ \E p \in r.pending : p.open = "open"
                    \/ Active(r) /\ ~r.cancel /\ r.planned = "open"
       IN IF r.link # "up" /\ r.desired = "open" /\ ~r.fault /\ r.mode # "open" /\ ~under
          THEN Queue(u, "open", FALSE, TRUE) ELSE u

-----------------------------------------------------------------------------
\* omni_remote_menu_poll.
Boundary == Drained /\ rx = <<>> /\ begun = "none"
still == <<port, begun, uiVars, worldVars>>

\* Mutant of Expires: an intent waits for the headset as long as it takes.
ExpiresUp(r) == r.link # "down"
\* An intent that waits is given up after a time, whatever it waits for.
Expires(r) == TRUE

PollExpire == /\ port # "closed" /\ m.pending # {} /\ Expires(m)
              /\ m' = [m EXCEPT !.pending = {}, !.phase = IF Active(m) THEN @ ELSE "over"]
              /\ UNCHANGED <<lineVars, still>>

\* plan().
Plan(p) ==
  LET frames == (IF p.force \/ m.mode # p.open THEN <<"mode">> ELSE <<>>)
                \o (IF p.context THEN <<"context">> ELSE <<>>)
      r == [m EXCEPT !.planned = p.open, !.frames = frames, !.flags = {}, !.cancel = FALSE,
                     !.pending = {}, !.phase = "send"]
  IN IF frames = <<>> THEN Accepted(r) ELSE r

\* An answer that comes from now on is an answer to an older request.
Stale == owed' = {[a EXCEPT !.fresh = FALSE] : a \in owed}

PollStart == /\ port = "open" /\ ~Active(m) /\ ~m.fault /\ m.link # "down" /\ Boundary
             /\ \E p \in m.pending : m' = Plan(p)
             /\ sent' = 0 /\ Stale /\ UNCHANGED <<wire, rx, still>>

PollSend == /\ m.phase = "send"
            /\ Push([op |-> Head(m.frames), mode |-> m.planned])
            /\ m' = IF sent' = Bytes THEN [m EXCEPT !.phase = "drain"] ELSE m
            /\ UNCHANGED <<peerVars, still>>

PollDrain == /\ m.phase = "drain" /\ Drained /\ m' = [m EXCEPT !.phase = "wait"]
             /\ UNCHANGED <<lineVars, still>>

Acknowledged(r) == IF Head(r.frames) = "mode" THEN [r EXCEPT !.mode = r.planned] ELSE r

PollWait ==
  /\ m.phase = "wait"
  /\ \/ (m.cancel \/ m.flags \cap {"negative", "bad"} # {}) /\ m' = Finish(m)
     \/ /\ ~m.cancel /\ m.flags = {"ack"}
        /\ m' = IF Len(m.frames) = 1 THEN Accepted(Acknowledged(m))
                ELSE [Acknowledged(m) EXCEPT !.phase = "gap"]
  /\ UNCHANGED <<lineVars, still>>

PollGap == /\ m.phase = "gap" /\ port = "open" /\ Boundary
           /\ m' = [m EXCEPT !.phase = "send", !.frames = Tail(@), !.flags = {}]
           /\ sent' = 0 /\ Stale /\ UNCHANGED <<wire, rx, still>>

-----------------------------------------------------------------------------
\* The port, as native_gain_adapter.c gives and takes it.
Event == bound.events < MaxEvents /\ bound' = [bound EXCEPT !.events = @ + 1]

CloseUart(r) == /\ m' = Released(r) /\ port' = "closed" /\ begun' = "none" /\ Reset
                /\ UNCHANGED <<uiVars, dsp, missed>>

\* The request has taken too long; one that is half sent ends the use of the port.
PollTimeout ==
  /\ Active(m)
  /\ IF m.phase = "drain" \/ (m.phase = "send" /\ sent > 0)
     THEN CloseUart(Finish([m EXCEPT !.fault = TRUE])) /\ UNCHANGED bound
     ELSE /\ m' = Finish(m)
          /\ missed' = IF "ack" \in m.flags THEN missed \cup {"deadline"} ELSE missed
          /\ UNCHANGED <<lineVars, port, begun, uiVars, dsp, bound>>

\* omni_remote_menu_acquire.
Acquire == /\ port = "closed" /\ port' = "open" /\ m' = [m EXCEPT !.fault = FALSE]
           /\ UNCHANGED <<lineVars, begun, uiVars, worldVars>>

Yield == /\ port # "yielding" /\ Event
         /\ m' = Yielded(m)
         /\ port' = IF port = "open" THEN "yielding" ELSE port
         /\ UNCHANGED <<lineVars, begun, uiVars, dsp, missed>>

Release == port = "yielding" /\ ~Active(m) /\ Drained /\ CloseUart(m) /\ UNCHANGED bound

\* omni_remote_menu_io_error, and what transport_fault() makes of it.
PortFails == /\ port # "closed" /\ Event
             /\ CloseUart([(IF Active(m) THEN Finish(m) ELSE m)
                           EXCEPT !.fault = TRUE, !.mode = "unknown", !.pending = {}])

-----------------------------------------------------------------------------
\* omni_remote_menu_byte and the queue of controls: the first byte of a frame and
\* the others.
FirstByte == /\ port # "closed" /\ begun = "none" /\ rx # <<>>
             /\ begun' = IF Active(m) /\ m.phase # "gap" /\ Submitted THEN "eligible" ELSE "early"
             /\ UNCHANGED <<lineVars, m, port, uiVars, worldVars>>

Eligible == begun = "eligible" /\ Active(m) /\ m.phase # "gap" /\ Submitted

\* enqueue().
Enqueued(event) ==
  IF Len(queue) = Capacity THEN UNCHANGED queue /\ missed' = missed \cup {"full"}
  ELSE queue' = Append(queue, event) /\ UNCHANGED missed

RestOfFrame ==
  /\ port # "closed" /\ begun # "none" /\ Read /\ begun' = "none"
  /\ \/ /\ Frame.kind = "ack"
        /\ IF Eligible /\ Frame.op = Head(m.frames)
           THEN /\ m' = [m EXCEPT !.flags = @ \cup {Frame.what}]
                /\ missed' = IF Frame.fresh THEN missed ELSE missed \cup {"late"}
           ELSE UNCHANGED <<m, missed>>
        /\ UNCHANGED queue
     \/ Frame.kind = "peer" /\ m' = PeerMode(m, Frame.mode) /\ Enqueued(Frame.mode)
     \/ Frame.kind = "back" /\ Enqueued("back") /\ UNCHANGED m
     \/ Frame.kind = "link" /\ m' = LinkReport(m, Frame.up) /\ UNCHANGED <<queue, missed>>
  /\ UNCHANGED <<sent, wire, owed, port, ui, dsp, bound>>

\* omni_ui_poll, what the loop makes of the i-th event it takes: the headset's own change
\* of the menu is only followed, a key's is an intent.
Other(open) == IF open = "open" THEN "closed" ELSE "open"
Taken(s, i, event) ==
  LET now == CASE event = "menu" -> Other(s.ui)
               [] event = "back" -> "closed"
               [] OTHER -> event
      keyed == event \in {"menu", "back"} /\ now # s.ui
  IN [ui |-> now, m |-> IF keyed THEN Request(s.m, now) ELSE s.m,
      missed |-> s.missed \cup (IF keyed /\ s.m.fault THEN {"refused"} ELSE {})
                          \cup (IF keyed /\ \E j \in i + 1..Len(queue) : queue[j] # "back"
                                THEN {"overtaken"} ELSE {})]

\* What it makes of all of them, in their order.
Polled(events) ==
  LET s[i \in 0..Len(events)] ==
        IF i = 0 THEN [ui |-> ui, m |-> m, missed |-> missed]
        ELSE Taken(s[i - 1], i, events[i])
  IN s[Len(events)]

UiPoll ==
  \E keys \in {<<>>, <<"menu">>} :
    /\ queue \o keys # <<>>
    /\ bound.keys + Len(keys) <= MaxKeys
    /\ bound' = [bound EXCEPT !.keys = @ + Len(keys)]
    /\ LET s == Polled(IF Len(queue) < Capacity THEN queue \o keys ELSE queue)
       IN ui' = s.ui /\ m' = s.m /\ missed' = s.missed
    /\ queue' = <<>>
    /\ UNCHANGED <<lineVars, port, begun, dsp>>

-----------------------------------------------------------------------------
\* The DSP and the headset.
Hear ==
  \E f \in wire :
    /\ \E w \in {"ack", "negative", "bad"} :
         /\ Leave(f, {[kind |-> "ack", op |-> f.op, what |-> w, fresh |-> TRUE]})
         /\ dsp' = IF f.op = "mode" /\ w = "ack" THEN [dsp EXCEPT !.mode = f.mode] ELSE dsp
    /\ UNCHANGED <<sent, rx, m, port, begun, uiVars, missed, bound>>

Answer == /\ \E a \in owed : Give(a, a)
          /\ UNCHANGED <<sent, wire, m, port, begun, uiVars, worldVars>>

LoseAnswer == /\ \E a \in owed : Lose(a)
              /\ UNCHANGED <<sent, wire, rx, m, port, begun, uiVars, worldVars>>

Says(frame) == /\ port # "closed" /\ Len(rx) < RxFrames /\ rx' = Append(rx, frame)
               /\ UNCHANGED <<sent, wire, owed, m, port, begun, uiVars, missed>>

\* It enters or leaves the menu, by a frame or by the back key.
Enters == /\ bound.peers < MaxPeers /\ bound' = [bound EXCEPT !.peers = @ + 1]
          /\ \E mode \in {"open", "closed"} : Says([kind |-> "peer", mode |-> mode])
          /\ UNCHANGED dsp

\* It does while the playback has the port, and reads what comes for the user
\* interface only.
EntersUnheard == /\ port = "closed" /\ bound.peers < MaxPeers
                 /\ bound' = [bound EXCEPT !.peers = @ + 1]
                 /\ Len(queue) < Capacity
                 /\ \E mode \in {"open", "closed"} : queue' = Append(queue, mode)
                 /\ missed' = missed \cup {"unheard"}
                 /\ UNCHANGED <<lineVars, m, port, begun, ui, dsp>>

Back == /\ bound.keys < MaxKeys /\ bound' = [bound EXCEPT !.keys = @ + 1]
        /\ Says([kind |-> "back"]) /\ UNCHANGED dsp

\* It reports the link; a headset that is gone has taken the mode with it.
Links == /\ Event
         /\ \E up \in BOOLEAN, mode \in {"open", "closed"} :
              /\ Says([kind |-> "link", up |-> up])
              /\ dsp' = [mode |-> IF up THEN dsp.mode ELSE mode, up |-> up]

Next == \/ PollExpire \/ PollStart \/ PollSend \/ PollDrain \/ PollWait \/ PollGap \/ PollTimeout
        \/ Acquire \/ Yield \/ Release \/ PortFails \/ FirstByte \/ RestOfFrame \/ UiPoll
        \/ Hear \/ Answer \/ LoseAnswer \/ Enters \/ EntersUnheard \/ Back \/ Links

Spec == Init /\ [][Next]_vars

\* The main loop turns, and time passes for what waits and for what is under way.
Loop == PollDrain \/ PollWait \/ Acquire \/ Release
MenuFair == WF_vars(Loop) /\ WF_vars(PollExpire) /\ WF_vars(PollTimeout)
FairSpec == Spec /\ MenuFair

-----------------------------------------------------------------------------
Mode == {"open", "closed"}
TypeOK ==
  /\ m.phase \in {"over", "queued", "send", "drain", "wait", "gap"}
  /\ (m.frames = <<>>) = ~Active(m) /\ (m.phase = "queued" => m.pending # {})
  /\ m.mode \in Mode \cup {"unknown"} /\ m.desired \in Mode \cup {"none"}
  /\ m.flags \subseteq {"ack", "negative", "bad"} /\ Len(queue) <= Capacity
  /\ (port = "closed" => ~Active(m))

\* When nothing is under way, the mode the client goes by, and leaves the first
\* frame out for, is the one the DSP is in, unless the answer to an older request
\* was taken for the answer, or the answer and the deadline came together.
Agreed == ~Active(m) /\ port = "open" /\ Boundary => m.mode \in {"unknown", dsp.mode}
MenuKnown == missed \cap {"late", "deadline"} = {} => Agreed

\* As MenuKnown, an answer that is read as the deadline passes included.
MenuLedger == "late" \notin missed => Agreed

\* The client wants what the user interface shows, whatever the headset and the
\* keys did to it, unless an event was lost or overtaken, or an intent refused.
MenuIntent == queue = <<>> /\ missed \subseteq {"late", "deadline"} => m.desired \in {"none", ui}

\* Every intent ends, sent or given up.
MenuEnds == []<>~Busy(m)
=============================================================================
