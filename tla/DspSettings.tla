---------------------------- MODULE DspSettings ----------------------------
(***************************************************************************)
(* dsp_settings.c, the client of UART3 that changes one setting of the DSP *)
(* or the headset at a time, and its users: the mailbox through which the  *)
(* USB interrupt hands a request of the host to the main loop              *)
(* (diagnostic_usb.c), the mixer (mixer_control.c) and the menu, which     *)
(* submit requests of their own.                                           *)
(*                                                                         *)
(* The main loop runs them in a fixed order, "turn": the mailbox, the      *)
(* service of UART3 (which may poll this client any number of times),      *)
(* publish, the mixer, the DSP probe (which may take the port away), and   *)
(* the menu.  The interrupt and the DSP come between any two of them.      *)
(***************************************************************************)
EXTENDS Exchange

CONSTANTS Controls,   \* the settings in use
          Value,      \* their values
          MaxHost,    \* bound: requests of the host
          MaxOwn,     \* bound: requests of the mixer and the menu
          MaxEvents   \* bound: reports, link changes, edits, withdrawals of the port, the probe

SettingsAssumption ==
  /\ ExchangeAssumption
  /\ "mode" \in Controls /\ Controls \ {"mode", "home"} # {}
  /\ {MaxHost, MaxOwn, MaxEvents} \subseteq Nat

VARIABLES
  req,        \* the transaction: token, control, value, and req_gen
  phase, verifying, cancel, fault,
  seen,       \* of "ack", "negative" (or bad_reply, which ends it likewise) and "matched"
  begun,      \* frame_eligible of the frame being read: "no" frame, "early", "late"
  linkGen, cache,   \* link_gen; value, flags ("set", "report") and, a ghost, the
                    \* generation of the set
  link,       \* the link as reported: "unknown", "up", "down"
  port,       \* "open", "closed", or "failed" until playback is withdrawn
  claim,      \* who else wants the port: "none", "playback", "requested" and then "probe"
  allowed,    \* the device is configured, acknowledged and not in recovery
  turn,
  mail,       \* settings_mail: phase, token, control, value and terminal
  snap,       \* the published status: token and phase
  mixer,      \* waiting, token, have_submission and submitted_mode, link last seen
  edit,       \* the menu has a value to submit
  own,        \* omni_dsp_settings_next_token: -own is the last one given
  dsp, was,   \* the DSP's output mode, and a ghost, those it has been in since the last SET
  handed,     \* ghost: SETs handed over for the token in the mailbox
  events, probed   \* events so far; the DSP probe was asked for (once)

reqVars == <<req, phase, verifying, cancel, seen>>
hearVars == <<begun, linkGen, link>>
portVars == <<port, claim, allowed, fault>>
userVars == <<mail, snap, mixer, edit, own, handed>>
dspVars == <<dsp, was>>
boundVars == <<events, probed>>
vars == <<lineVars, reqVars, hearVars, cache, portVars, turn, userVars, dspVars, boundVars>>

Nothing == CHOOSE v \in Value : TRUE
Empty == [value |-> Nothing, flags |-> {}, gen |-> 0]

Init ==
  /\ LineInit
  /\ req = [token |-> 0, control |-> "mode", value |-> Nothing, gen |-> 0]
  /\ phase = "idle" /\ verifying = FALSE /\ cancel = FALSE /\ seen = {} /\ fault = FALSE
  /\ begun = "no" /\ linkGen = 0 /\ cache = [c \in Controls |-> Empty] /\ link = "unknown"
  /\ port = "closed" /\ claim = "none" /\ allowed = TRUE /\ turn = "mail"
  /\ mail = [phase |-> "empty", token |-> 0, control |-> "mode", value |-> Nothing, result |-> "idle"]
  /\ snap = [token |-> 0, phase |-> "idle"]
  /\ mixer = [waiting |-> FALSE, token |-> 0, have |-> FALSE, mode |-> Nothing, link |-> "unknown"]
  /\ edit = FALSE /\ own = 0 /\ dsp = Nothing /\ was = {} /\ handed = 0 /\ events = 0 /\ probed = FALSE

Event == events < MaxEvents /\ events' = events + 1 /\ UNCHANGED probed

Busy == phase \in {"queued", "send", "drain", "wait", "verify"}
Active == Busy /\ phase # "queued"
\* tx_bytes: some of the transaction's bytes were handed over.
Handed == phase \in {"drain", "wait", "verify"} \/ (phase = "send" /\ (verifying \/ sent > 0))

\* encode: the code of the request that changes a control.
CodeOf(c) == CASE c \in {"limiter", "home"} -> "D2"
               [] c = "mic" -> "D3" [] c = "sidetone" -> "D4" [] c = "noise" -> "DB"
               [] c \in {"anc", "level", "transparency"} -> "D5"
               [] c \in {"startup", "led", "call", "off"} -> "E3"
               [] c = "eq" -> "1B" [] c = "mode" -> "43"

\* The three settings of Bluetooth are one value for the headset.
Shared(c) == IF c \in {"startup", "led", "call"} THEN {"startup", "led", "call"} \cap Controls ELSE {c}

Flagged(c, v, flag, gen) ==
  LET e == cache[c]
      kept == IF e.value = v THEN e.flags ELSE {}
  IN [value |-> v, flags |-> kept \cup {flag},
      gen |-> IF flag = "set" THEN gen ELSE IF "set" \in kept THEN e.gen ELSE 0]

Remembered(c, v, flag, gen) ==
  [d \in Controls |-> IF d \in Shared(c) THEN Flagged(c, v, flag, gen) ELSE cache[d]]
Dropped(C) ==
  [d \in Controls |-> IF d \in C THEN [cache[d] EXCEPT !.flags = {}, !.gen = 0] ELSE cache[d]]

\* finish: what the cache holds when the transaction ends so.
After(result) ==
  IF result = "accepted"
  THEN IF req.gen = linkGen THEN Remembered(req.control, req.value, "set", req.gen) ELSE cache
  ELSE IF Handed THEN Dropped(Shared(req.control)) ELSE cache

\* What was seen of the answer does not matter any more; the code drops it with
\* the next request.
Over(result) == /\ phase' = result /\ verifying' = FALSE /\ cancel' = FALSE /\ seen' = {} /\ sent' = 0
                /\ UNCHANGED req
Finish(result) == Over(result) /\ cache' = After(result) /\ UNCHANGED <<wire, peerVars>>

\* omni_dsp_settings_request, for a token it does not hold: while a transaction
\* is queued, another value of its control takes its place.
Request(t, c, v) ==
  /\ ~fault /\ (Busy => phase = "queued" /\ req.control = c)
  /\ req' = [token |-> t, control |-> c, value |-> v, gen |-> linkGen]
  /\ phase' = "queued" /\ verifying' = FALSE /\ cancel' = FALSE /\ seen' = {} /\ sent' = 0
  /\ UNCHANGED <<wire, owed, rx>>

-----------------------------------------------------------------------------
\* The service of UART3.  Who waits for the port polls it himself, and has told
\* the client to yield before.
Claimed == claim # "none"
InService == \/ turn = "gain" /\ claim \in {"none", "playback"}
             \/ turn = "release" /\ claim = "requested"
Serving == InService /\ (Claimed /\ Busy => cancel)
others == <<turn, userVars, dspVars, boundVars>>

Boundary == port = "open" /\ Drained /\ rx = <<>> /\ begun = "no"

Start == /\ Serving /\ phase = "queued" /\ Boundary /\ ~Claimed
         /\ phase' = "send"
         /\ UNCHANGED <<lineVars, req, verifying, cancel, seen, hearVars, cache, portVars, others>>

PollSend ==
  /\ Serving /\ phase = "send" /\ port = "open" /\ Push([get |-> verifying, of |-> req.control, value |-> req.value])
  /\ phase' = IF sent' = Bytes THEN "drain" ELSE "send"
  /\ handed' = IF sent' = Bytes /\ ~verifying /\ req.token = mail.token THEN handed + 1 ELSE handed
  /\ UNCHANGED <<owed, rx, req, verifying, cancel, seen, hearVars, cache, portVars, turn, mail, snap,
                 mixer, edit, own, dspVars, boundVars>>

PollDrain == /\ Serving /\ phase = "drain" /\ Drained /\ phase' = "wait"
             /\ UNCHANGED <<lineVars, req, verifying, cancel, seen, hearVars, cache, portVars, others>>

\* The output mode is asked back, once it has had time to settle.
PollVerify == /\ Serving /\ phase = "verify" /\ Boundary
              /\ phase' = "send" /\ verifying' = TRUE /\ seen' = seen \ {"ack", "matched"}
              /\ sent' = 0 /\ UNCHANGED <<wire, owed, rx>>
              /\ UNCHANGED <<req, cancel, hearVars, cache, portVars, others>>

Verdict == IF cancel THEN "cancelled"
           ELSE IF "negative" \in seen THEN "nack"
           ELSE IF "ack" \notin seen THEN "wait"
           ELSE IF req.control = "mode" /\ ~verifying THEN "verify"
           ELSE IF verifying => "matched" \in seen THEN "accepted"
           ELSE "wait"

PollWait == /\ Serving /\ phase = "wait" /\ Verdict # "wait"
            /\ IF Verdict = "verify"
               THEN phase' = "verify" /\ UNCHANGED <<lineVars, req, verifying, cancel, seen, cache>>
               ELSE Finish(Verdict)
            /\ UNCHANGED <<hearVars, portVars, others>>

\* It has waited too long for its turn, or for the answer.
PollTimeout == /\ Serving /\ phase \in {"queued", "wait", "verify"}
               /\ Finish("timeout")
               /\ UNCHANGED <<hearVars, portVars, others>>

\* close_uart: every value the cache holds is no longer known.
CloseUart(p, result) ==
  /\ port' = p /\ begun' = "no" /\ link' = "unknown" /\ Reset
  /\ Over(IF Busy THEN result ELSE phase) /\ cache' = Dropped(Controls)
  /\ UNCHANGED linkGen

\* A request that cannot be got out in time; an error of the UART.
SendFails == /\ Serving /\ port = "open" /\ phase \in {"send", "drain"}
             /\ CloseUart("failed", "timeout") /\ fault' = TRUE
             /\ UNCHANGED <<claim, allowed, others>>

PortFails == /\ Serving /\ port = "open" /\ Event
             /\ CloseUart("failed", "io_error") /\ fault' = TRUE
             /\ UNCHANGED <<claim, allowed, turn, userVars, dspVars>>

OpenPort == /\ Serving /\ ~Claimed /\ allowed /\ port = "closed"
            /\ port' = "open" /\ fault' = FALSE
            /\ UNCHANGED <<lineVars, reqVars, hearVars, cache, claim, allowed, others>>

\* Playback is withdrawn, or the device is not configured.
Offline == /\ Serving /\ ~allowed /\ port # "closed"
           /\ CloseUart("closed", "cancelled")
           /\ UNCHANGED <<claim, allowed, fault, others>>

\* omni_dsp_settings_yield.
Yield == /\ InService /\ Claimed /\ Busy /\ ~cancel
         /\ IF phase \in {"queued", "verify"} \/ (phase = "send" /\ sent = 0)
            THEN Finish("cancelled")
            ELSE cancel' = TRUE /\ UNCHANGED <<lineVars, req, phase, verifying, seen, cache>>
         /\ UNCHANGED <<hearVars, portVars, others>>

\* omni_native_gain_release has nothing left to wait for.
GiveUp == /\ Serving /\ Claimed /\ ~Busy /\ Drained
          /\ port = "open" \/ claim = "requested"
          /\ IF port = "open" THEN CloseUart("closed", "cancelled")
             ELSE UNCHANGED <<lineVars, reqVars, hearVars, cache, port>>
          /\ claim' = IF claim = "requested" THEN "probe" ELSE claim
          /\ UNCHANGED <<allowed, fault, others>>

-----------------------------------------------------------------------------
\* A frame: its first byte, and the rest of it.
FirstByte == /\ Serving /\ port = "open" /\ begun = "no" /\ rx # <<>>
             /\ begun' = IF Active /\ phase # "verify" /\ Submitted THEN "late" ELSE "early"
             /\ UNCHANGED <<lineVars, reqVars, linkGen, link, cache, portVars, others>>

Expire == /\ Serving /\ begun # "no" /\ Read /\ begun' = "no"
          /\ UNCHANGED <<sent, wire, owed, reqVars, linkGen, link, cache, portVars, others>>

Eligible == Active /\ phase # "verify" /\ Submitted /\ begun = "late"

\* An acknowledgement names the code of the request.
Acknowledged(f) == /\ seen' = IF Eligible /\ f.of = CodeOf(req.control) THEN seen \cup {f.what} ELSE seen
                   /\ UNCHANGED <<cache, link, linkGen>>

\* observe_db: a value, asked for or not.
Reported(f) ==
  /\ cache' = Remembered(f.of, f.what, "report", linkGen)
  /\ seen' = IF verifying /\ Eligible /\ f.of = "mode"
             THEN seen \cup {IF f.what = req.value THEN "matched" ELSE "negative"} ELSE seen
  /\ UNCHANGED <<link, linkGen>>

\* observe_db: the link.  A transaction under way goes on.
Linked(f) == /\ link' = f.what
             /\ linkGen' = IF f.what = "down" THEN linkGen + 1 ELSE linkGen
             /\ cache' = IF f.what = "down" THEN Dropped(Controls) ELSE cache
             /\ UNCHANGED seen

RestOfFrame == /\ Serving /\ begun # "no" /\ Read /\ begun' = "no"
               /\ \/ Frame.kind = "dd" /\ Acknowledged(Frame)
                  \/ Frame.kind = "db" /\ Reported(Frame)
                  \/ Frame.kind = "link" /\ Linked(Frame)
               /\ UNCHANGED <<sent, wire, owed, req, phase, verifying, cancel, portVars, others>>

ServiceStep == \/ Start \/ PollSend \/ PollDrain \/ PollVerify \/ PollWait \/ PollTimeout
               \/ SendFails \/ PortFails \/ OpenPort \/ Offline \/ Yield \/ GiveUp
               \/ FirstByte \/ Expire \/ RestOfFrame

-----------------------------------------------------------------------------
\* The main loop's turns: what follows the service reads nothing that publish and
\* the mixer write for each other, so that "after" is all of it; a turn with
\* nothing to do is left out.
AfterProbe == IF edit THEN "menu" ELSE IF mail.phase = "pending" THEN "mail" ELSE "gain"

base == <<hearVars, cache, portVars, dspVars, boundVars>>

Yielded == /\ Busy => cancel
           /\ port = "open" => (Busy \/ ~Drained)
           /\ claim = "requested" => port = "open"

\* The service is done for this turn; one that is to release the port has
\* told the client to yield, and keeps it only while something is under way.
EndService ==
  /\ turn \in {"gain", "release"} /\ turn' = IF turn = "gain" THEN "after" ELSE AfterProbe
  /\ InService => IF Claimed THEN Yielded ELSE allowed \/ port = "closed"
  /\ UNCHANGED <<lineVars, reqVars, base, userVars>>

\* Mutant of Taken: a token is compared only while its request is under way.
TakenPending(t) == mail.phase \in {"pending", "submitted"}
\* settings_enqueue: a token it holds, or a request under way, admits nothing new.
Taken(t) == (mail.phase # "empty" /\ mail.token = t) \/ mail.phase \in {"pending", "submitted"}

\* The USB interrupt; the host uses a new token, or the last one again.
HostAsks(c, v) ==
  /\ \E t \in {mail.token, mail.token + 1} :
       /\ t \in 1..MaxHost /\ ~Taken(t)
       /\ mail' = [mail EXCEPT !.phase = "pending", !.token = t, !.control = c, !.value = v,
                               !.result = "idle"]
       /\ handed' = IF t = mail.token THEN handed ELSE 0
  /\ UNCHANGED <<lineVars, reqVars, base, turn, snap, mixer, edit, own>>

Terminal(result) == [mail EXCEPT !.phase = "done", !.result = result]

MailWaits == mail.phase = "pending" /\ allowed

\* native_commands_service.
MailTurn ==
  /\ turn = "mail" /\ turn' = "gain"
  /\ \/ /\ mail.phase = "pending" /\ (~allowed \/ fault)
        /\ mail' = Terminal(IF allowed THEN "io_error" ELSE "cancelled")
        /\ UNCHANGED <<lineVars, reqVars>>
     \/ /\ MailWaits /\ ~fault /\ ~Busy
        /\ Request(mail.token, mail.control, mail.value)
        /\ mail' = [mail EXCEPT !.phase = "submitted"]
     \/ /\ mail.phase = "pending" => allowed /\ ~fault /\ Busy
        /\ UNCHANGED <<lineVars, reqVars, mail>>
  /\ UNCHANGED <<base, snap, mixer, edit, own, handed>>

MailExpires == /\ turn = "mail" /\ turn' = "gain" /\ MailWaits /\ mail' = Terminal("timeout")
               /\ UNCHANGED <<lineVars, reqVars, base, snap, mixer, edit, own, handed>>

\* native_commands_publish: the result of the host's request, and every 5 ms the status.
Publishes == mail.phase = "submitted" /\ req.token = mail.token /\ ~Busy

Publish == /\ mail' = IF Publishes THEN Terminal(phase) ELSE mail
           /\ snap' \in {snap, [token |-> req.token, phase |-> IF Busy THEN "queued" ELSE phase]}

\* omni_mixer_control_service: the headset's home mode follows the mixer's, once
\* for each link.
MixerService ==
  LET new == link # "unknown" /\ link # mixer.link
      seenLink == IF new THEN [mixer EXCEPT !.link = link, !.have = FALSE] ELSE mixer
      over == req.token # mixer.token \/ ~Busy
  IN \/ /\ mixer.waiting
        /\ \/ mixer' = [seenLink EXCEPT !.waiting = FALSE]
           \/ ~over /\ mixer' = seenLink
        /\ UNCHANGED <<lineVars, reqVars, own>>
     \/ /\ ~mixer.waiting /\ allowed /\ link = "up" /\ ~Busy
        /\ "home" \in Controls /\ own < MaxOwn
        /\ \E v \in Value : /\ ~(seenLink.have /\ seenLink.mode = v)
                            /\ Request(-(own + 1), "home", v)
                            /\ mixer' = [seenLink EXCEPT !.waiting = TRUE, !.have = TRUE,
                                                         !.token = -(own + 1), !.mode = v]
        /\ own' = own + 1
     \/ /\ ~mixer.waiting /\ mixer' = seenLink
        /\ UNCHANGED <<lineVars, reqVars, own>>

AfterService == /\ turn = "after" /\ MixerService /\ Publish
                /\ turn' = IF claim = "requested" THEN "release" ELSE AfterProbe
                /\ UNCHANGED <<hearVars, cache, portVars, dspVars, boundVars, edit, handed>>

\* omni_dsp_probe_poll: the probe is done with the port.
ProbeEnds == /\ turn = "after" /\ claim = "probe" /\ claim' = "none"
             /\ UNCHANGED <<lineVars, reqVars, hearVars, cache, port, allowed, fault, others>>

\* The menu submits what was edited, as soon as nothing is under way.
MenuTurn == /\ turn = "menu" /\ turn' = IF mail.phase = "pending" THEN "mail" ELSE "gain"
            /\ \/ /\ edit /\ ~Busy /\ ~fault /\ own < MaxOwn
                  /\ \E c \in Controls \ {"mode", "home"}, v \in Value : Request(-(own + 1), c, v)
                  /\ own' = own + 1 /\ edit' = FALSE
               \/ (edit => Busy \/ fault \/ own = MaxOwn) /\ UNCHANGED <<lineVars, reqVars, own, edit>>
            /\ UNCHANGED <<base, mail, snap, mixer, handed>>

-----------------------------------------------------------------------------
\* The rest of the world.
idle == <<reqVars, hearVars, cache, turn, mail, snap, mixer, own, handed>>

Edited == /\ Event /\ ~edit /\ edit' = TRUE
          /\ UNCHANGED <<lineVars, idle, portVars, dspVars>>

\* Playback wants the port to start, or has started or gone.
PlaybackClaims == /\ Event /\ claim \in {"none", "playback"}
                  /\ claim' = IF claim = "none" THEN "playback" ELSE "none"
                  /\ UNCHANGED <<lineVars, idle, port, allowed, fault, edit, dspVars>>

Configured == /\ Event /\ allowed' = ~allowed
              /\ UNCHANGED <<lineVars, idle, port, claim, fault, edit, dspVars>>

ProbeAsked == /\ events < MaxEvents /\ events' = events + 1 /\ claim = "none"
              /\ ~probed /\ claim' = "requested" /\ probed' = TRUE
              /\ UNCHANGED <<lineVars, idle, port, allowed, fault, edit, dspVars>>

\* The request leaves; the DSP acknowledges it, and may or may not do it.
Hear == \E f \in wire :
          /\ Leave(f, IF f.get THEN {"dd", "db"} ELSE {"dd"})
          /\ IF f.of = "mode" /\ ~f.get
             THEN dsp' \in {dsp, f.value} /\ was' = {dsp'} ELSE UNCHANGED dspVars
          /\ UNCHANGED <<sent, rx, idle, portVars, edit, boundVars>>

Answer == \E a \in owed :
            /\ \/ \E w \in {"ack", "negative"} :
                    a = "dd" /\ Give(a, [kind |-> a, of |-> CodeOf(req.control), what |-> w])
               \/ a = "db" /\ Give(a, [kind |-> a, of |-> "mode", what |-> dsp])
            /\ UNCHANGED <<sent, wire, idle, portVars, edit, dspVars, boundVars>>

LoseAnswer == /\ \E a \in owed : Lose(a)
              /\ UNCHANGED <<sent, wire, rx, idle, portVars, edit, dspVars, boundVars>>

DspSwitches == /\ Event /\ \E m \in Value \ {dsp} : dsp' = m /\ was' = was \cup {m}
               /\ UNCHANGED <<lineVars, idle, portVars, edit>>

\* A report nobody asked for.
Spontaneous == /\ Event /\ port = "open" /\ Len(rx) < RxFrames
               /\ \/ \E c \in Controls \ {"mode"}, v \in Value :
                       rx' = Append(rx, [kind |-> "db", of |-> c, what |-> v])
                  \/ rx' = Append(rx, [kind |-> "db", of |-> "mode", what |-> dsp])
                  \/ \E l \in {"up", "down"} :
                       rx' = Append(rx, [kind |-> "link", of |-> "", what |-> l])
               /\ UNCHANGED <<sent, wire, owed, idle, portVars, edit, dspVars>>

World == \/ Edited \/ PlaybackClaims \/ Configured \/ ProbeAsked
         \/ Hear \/ Answer \/ LoseAnswer \/ DspSwitches \/ Spontaneous

MainLoop == \/ EndService \/ AfterService \/ MenuTurn \/ MailTurn

Next == \/ ServiceStep \/ ProbeEnds \/ MainLoop \/ MailExpires \/ World
        \/ \E c \in Controls, v \in Value : HostAsks(c, v)

Spec == Init /\ [][Next]_vars

\* The loop turns, and what takes too long is given up.
LoopStep == MainLoop \/ Yield \/ GiveUp \/ Offline
TakesTooLong == PollTimeout \/ SendFails \/ ProbeEnds
FairSpec == Spec /\ WF_vars(LoopStep) /\ WF_vars(Hear) /\ SF_vars(TakesTooLong)

-----------------------------------------------------------------------------
TypeOK ==
  /\ req.control \in Controls /\ req.value \in Value /\ req.gen \in 0..linkGen
  /\ phase \in {"idle", "queued", "send", "drain", "wait", "verify",
                "accepted", "timeout", "cancelled", "io_error", "nack"}
  /\ {verifying, cancel, fault, allowed, edit} \subseteq BOOLEAN
  /\ seen \subseteq {"ack", "negative", "matched"} /\ begun \in {"no", "early", "late"}
  /\ \A c \in Controls : cache[c].value \in Value /\ cache[c].flags \subseteq {"set", "report"}
  /\ link \in {"unknown", "up", "down"} /\ port \in {"open", "closed", "failed"}
  /\ claim \in {"none", "playback", "requested", "probe"}
  /\ turn \in {"mail", "gain", "after", "release", "menu"}
  /\ mail.phase \in {"empty", "pending", "submitted", "done"} /\ mail.token \in 0..MaxHost
  /\ own \in 0..MaxOwn /\ dsp \in Value /\ was \subseteq Value

\* An acknowledgement that comes after the headset was lost does not make the
\* cache show the value as set: what it shows as set was set under this link.
SetUnderThisLink == \A c \in Controls : "set" \in cache[c].flags => cache[c].gen = linkGen

\* An output mode is accepted only if the DSP has been in it since the SET: its
\* acknowledgement alone says nothing.
ModeSwitched == phase = "accepted" /\ req.control = "mode" => req.value \in was

\* The request of a token the host repeats is handed to the UART at most once.
HostSetOnce == handed <= 1

\* Mutant of StatusCopy: the published status, whosoever it is.
StatusCopyAny == IF mail.phase = "done" THEN [token |-> mail.token, phase |-> mail.result]
                 ELSE IF mail.phase = "pending" THEN [token |-> mail.token, phase |-> "queued"]
                 ELSE snap
\* settings_status_copy: what the host is told of its request.
StatusCopy ==
  IF mail.phase = "done" THEN [token |-> mail.token, phase |-> mail.result]
  ELSE IF mail.phase = "pending" \/ (mail.phase = "submitted" /\ snap.token # mail.token)
       THEN [token |-> mail.token, phase |-> "queued"]
  ELSE snap

Ended(p) == p \notin {"idle", "queued", "send", "drain", "wait", "verify"}

\* What the host is told of its request is about its request, and once it is
\* told how it ended it is not told anything else, whoever uses the client next.
KeepsAnswer == mail.token # 0 /\ mail'.token = mail.token =>
                 /\ StatusCopy.token = mail.token
                 /\ Ended(StatusCopy.phase) => StatusCopy' = StatusCopy
OneAnswer == [][KeepsAnswer]_vars

\* The host's request comes to an end, and the mailbox is free for the next one:
\* its result is published before another user of the client can replace it.
MailEnds == mail.phase \in {"pending", "submitted"} ~> mail.phase = "done"

\* The same, as long as no DSP probe takes the port away.
MailEndsUnprobed == []<>(mail.phase \notin {"pending", "submitted"} \/ probed)
=============================================================================
