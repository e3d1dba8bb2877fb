---------------------------- MODULE DspUsersProof ----------------------------
(***************************************************************************)
(* Proofs about the clients of UART3 that set something, for any numbers   *)
(* of bytes, settings, values, levels, requests, volumes, keys and faults: *)
(* the mailbox, its users and the settings' client (DspSettings), the gain *)
(* of the headset (HeadsetGain), and the client of the remote menu with    *)
(* the queue of controls (RemoteMenu), which MCDspUsers instantiates twice.*)
(***************************************************************************)
EXTENDS MCDspUsers, Sequences, NaturalsInduction, WellFoundedInduction, TLAPS

-----------------------------------------------------------------------------
\* Settings.

\* The phases of a request of the settings' client, and what a value may be.
SetPhase == {"idle", "queued", "send", "drain", "wait", "verify",
             "accepted", "timeout", "cancelled", "io_error", "nack"}
SetValue == Value \cup {SettingsClient!Nothing}

\* The frames the client of the settings hears.
SetFrame ==
  [kind : {"dd"}, of : {SettingsClient!CodeOf(c) : c \in Controls}, what : {"ack", "negative"}]
    \cup [kind : {"db"}, of : Controls, what : SetValue]
    \cup [kind : {"link"}, of : {""}, what : {"up", "down"}]

SetRequest == [token : Int, control : Controls, value : SetValue, gen : Nat]
SetMail == [phase : {"empty", "pending", "submitted", "done"}, token : Nat,
            control : Controls, value : SetValue, result : SetPhase]
SetSnap == [token : Int, phase : SetPhase]

\* An entry of the cache is a record.
IsEntry(e) == e = [value |-> e.value, flags |-> e.flags, gen |-> e.gen]

SetTypes ==
  /\ req \in SetRequest /\ phase \in SetPhase /\ verifying \in BOOLEAN
  /\ mail \in SetMail /\ snap \in SetSnap /\ own \in Nat
  /\ rx \in Seq(SetFrame) /\ dsp \in SetValue /\ linkGen \in Nat

\* What the cache holds as set was set under this link.
Cached ==
  /\ \A c \in Controls : IsEntry(cache[c])
  /\ SettingsClient!SetUnderThisLink

\* The tokens of the host go up, and those of the mixer and the menu, which are negative,
\* down: what waits in the mailbox is newer than what the client has and what was published,
\* and what the client has of it was published as queued.
Tokens ==
  /\ req.token <= mail.token /\ snap.token <= mail.token
  /\ mail.phase = "empty" <=> mail.token = 0
  /\ SettingsClient!Busy => req.token # 0
  /\ mail.phase = "pending" => req.token < mail.token /\ snap.token < mail.token
  /\ mail.phase = "submitted" /\ snap.token = mail.token => snap.phase = "queued"

\* What was handed over for the token in the mailbox is over, or is verified.
HandedOver ==
  /\ handed \in 0..1
  /\ mail.phase \in {"empty", "pending"} => handed = 0
  /\ handed = 1 /\ req.token = mail.token =>
       phase # "queued" /\ (phase = "send" => verifying)

\* What waits to leave is the request that drains.
OnWire ==
  wire # {} => phase = "drain" /\ wire = {[get |-> verifying, of |-> req.control,
                                          value |-> req.value]}

\* The modes the DSP says it is in, in the frames r, are among W.
RepliesIn(r, W) ==
  \A n \in 1..Len(r) : r[n].kind = "db" /\ r[n].of = "mode" => r[n].what \in W

\* Once the mode was set and has left, the DSP is in one it was in since; and it is asked for
\* the mode only then, so that its reports are of one of those.
Modes ==
  /\ was # {} => dsp \in was
  /\ phase = "verify" => was # {} /\ req.control = "mode"
  /\ phase \in {"drain", "wait"} /\ ~verifying /\ req.control = "mode" /\ wire = {} => was # {}
  /\ verifying => was # {} /\ req.control = "mode" /\ RepliesIn(rx, was)
  /\ "matched" \in seen => verifying /\ req.value \in was
  /\ SettingsClient!ModeSwitched

SetInv == SetTypes /\ Tokens /\ HandedOver /\ OnWire /\ Modes /\ Cached

\* The empty ring holds frames.
LEMMA NoFrames == <<>> \in Seq(SetFrame) /\ \A W : RepliesIn(<<>>, W)
BY DEF RepliesIn

\* The first frame of the ring, and the rest of it.
LEMMA SetRead ==
  ASSUME rx \in Seq(SetFrame), SettingsClient!Read
  PROVE  /\ rx' \in Seq(SetFrame) /\ SettingsClient!Frame \in SetFrame
         /\ SettingsClient!Frame = rx[1] /\ 1 \in 1..Len(rx)
         /\ \A W : RepliesIn(rx, W) => RepliesIn(rx', W)
BY DEF SettingsClient!Read, SettingsClient!Frame, RepliesIn

\* A frame more in the ring.
LEMMA SetHeard ==
  ASSUME rx \in Seq(SetFrame), NEW f \in SetFrame, rx' = Append(rx, f)
  PROVE  /\ rx' \in Seq(SetFrame)
         /\ \A W : RepliesIn(rx, W) /\ (f.kind = "db" /\ f.of = "mode" => f.what \in W)
                     => RepliesIn(rx', W)
BY DEF RepliesIn

\* Dropping entries of the cache, all of them if the link has gone, keeps it under this link.
LEMMA CacheDropped ==
  ASSUME Cached, NEW C, cache' = SettingsClient!Dropped(C), linkGen' = linkGen \/ C = Controls
  PROVE  Cached'
<1> SUFFICES ASSUME NEW d \in Controls
             PROVE  /\ IsEntry(cache'[d])
                    /\ "set" \in cache'[d].flags => cache'[d].gen = linkGen'
  BY DEF Cached, IsEntry, SettingsClient!SetUnderThisLink
<1>1. IsEntry(cache[d]) /\ ("set" \in cache[d].flags => cache[d].gen = linkGen)
  BY DEF Cached, SettingsClient!SetUnderThisLink
<1>2. CASE d \in C
  <2>1. cache'[d] = [value |-> cache[d].value, flags |-> {}, gen |-> 0]
    BY <1>1, <1>2 DEF IsEntry, SettingsClient!Dropped
  <2> QED
    BY <2>1 DEF IsEntry
<1>3. CASE d \notin C
  <2>1. cache'[d] = cache[d]
    BY <1>3 DEF SettingsClient!Dropped
  <2> QED
    BY <1>1, <1>3, <2>1 DEF IsEntry
<1> QED
  BY <1>2, <1>3

\* So does remembering a report, or a set that began under this link.
LEMMA CacheRemembered ==
  ASSUME Cached, NEW c \in Controls, NEW v, NEW flag, NEW gen,
         cache' = SettingsClient!Remembered(c, v, flag, gen), linkGen' = linkGen,
         flag = "set" => gen = linkGen
  PROVE  Cached'
<1> SUFFICES ASSUME NEW d \in Controls
             PROVE  /\ IsEntry(cache'[d])
                    /\ "set" \in cache'[d].flags => cache'[d].gen = linkGen'
  BY DEF Cached, IsEntry, SettingsClient!SetUnderThisLink
<1>1. IsEntry(cache[d]) /\ ("set" \in cache[d].flags => cache[d].gen = linkGen)
  BY DEF Cached, SettingsClient!SetUnderThisLink
<1>2. CASE d \in SettingsClient!Shared(c)
  <2>1. cache'[d] = SettingsClient!Flagged(c, v, flag, gen)
    BY <1>2 DEF SettingsClient!Remembered
  <2>2. "set" \in cache[c].flags => cache[c].gen = linkGen
    BY DEF Cached, SettingsClient!SetUnderThisLink
  <2> QED
    BY <2>1, <2>2 DEF IsEntry, SettingsClient!Flagged
<1>3. CASE d \notin SettingsClient!Shared(c)
  <2>1. cache'[d] = cache[d]
    BY <1>3 DEF SettingsClient!Remembered
  <2> QED
    BY <1>1, <2>1 DEF IsEntry
<1> QED
  BY <1>2, <1>3

\* And so does whatever ends a transaction.
LEMMA CacheFinish ==
  ASSUME Cached, req \in SetRequest, NEW r, SettingsClient!Finish(r), linkGen' = linkGen
  PROVE  Cached'
<1>1. CASE cache' = cache
  BY <1>1 DEF Cached, SettingsClient!SetUnderThisLink
<1>2. CASE cache' = SettingsClient!Dropped(SettingsClient!Shared(req.control))
  BY <1>2, CacheDropped
<1>3. CASE /\ req.gen = linkGen
           /\ cache' = SettingsClient!Remembered(req.control, req.value, "set", req.gen)
  BY <1>3, CacheRemembered DEF SetRequest
<1> QED
  BY <1>1, <1>2, <1>3 DEF SettingsClient!Finish, SettingsClient!After

\* A request with the token t is put to the client, which queues it; nothing is asked of it.
Queued(t) ==
  /\ ~SettingsClient!Busy
  /\ req' \in SetRequest /\ req'.token = t /\ phase' = "queued" /\ verifying' = FALSE
  /\ phase' \in SetPhase /\ verifying' \in BOOLEAN /\ seen' = {}
  /\ UNCHANGED <<rx, wire>>
Unasked == UNCHANGED <<sent, wire, owed, rx, req, phase, verifying, cancel, seen>>

LEMMA SetRequested ==
  ASSUME NEW t \in Int, NEW c \in Controls, NEW v \in SetValue, SetTypes,
         ~SettingsClient!Busy, SettingsClient!Request(t, c, v)
  PROVE  Queued(t)
BY DEF Queued, SetTypes, SetRequest, SetPhase, SettingsClient!Request

\* One that the mixer or the menu puts has a token below those they used.
OwnQueued == Queued(-(own + 1)) /\ own' = own + 1 /\ own' \in Nat

LEMMA SetOwnRequest ==
  ASSUME NEW c \in Controls, NEW v \in Value, SetTypes, ~SettingsClient!Busy, own' = own + 1,
         SettingsClient!Request(-(own + 1), c, v)
  PROVE  OwnQueued
<1>1. -(own + 1) \in Int /\ own + 1 \in Nat
  BY DEF SetTypes
<1>2. v \in SetValue
  BY DEF SetValue
<1> QED
  BY <1>1, <1>2, SetRequested DEF OwnQueued

\* A step that leaves all this is about as it is.
LEMMA SetUnseen ==
  ASSUME SetInv, UNCHANGED <<wire, rx, req, phase, verifying, seen, linkGen, cache, mail, snap,
                             own, handed, dsp, was>>
  PROVE  SetInv'
BY DEF SetInv, SetTypes, Tokens, HandedOver, OnWire, Modes, Cached, SettingsClient!Busy,
   SettingsClient!ModeSwitched, SettingsClient!SetUnderThisLink

\* The invariant of the settings' client is kept by each step.
LEMMA SetStep ==
  ASSUME SetInv, SettingsClient!Next
  PROVE  SetInv'
<1> USE DEF SettingsClient!vars, SettingsClient!lineVars, SettingsClient!reqVars,
  SettingsClient!hearVars, SettingsClient!portVars, SettingsClient!userVars,
  SettingsClient!dspVars, SettingsClient!boundVars, SettingsClient!base, SettingsClient!idle,
  SettingsClient!others, SettingsClient!peerVars, SettingsClient!Busy, SettingsClient!Active,
  SettingsClient!Drained, SettingsClient!Submitted
<1>0. /\ req \in SetRequest /\ phase \in SetPhase /\ verifying \in BOOLEAN
      /\ mail \in SetMail /\ snap \in SetSnap /\ own \in Nat
      /\ rx \in Seq(SetFrame) /\ dsp \in SetValue /\ linkGen \in Nat
  BY DEF SetInv, SetTypes
<1>1. CASE \/ SettingsClient!OpenPort
          \/ SettingsClient!FirstByte
          \/ SettingsClient!ProbeEnds
          \/ SettingsClient!EndService
          \/ SettingsClient!Edited
          \/ SettingsClient!PlaybackClaims
          \/ SettingsClient!Configured
          \/ SettingsClient!ProbeAsked
          \/ SettingsClient!LoseAnswer
  BY <1>1, SetUnseen DEF SettingsClient!OpenPort, SettingsClient!FirstByte,
    SettingsClient!ProbeEnds, SettingsClient!EndService, SettingsClient!Edited,
    SettingsClient!PlaybackClaims, SettingsClient!Configured, SettingsClient!ProbeAsked,
    SettingsClient!LoseAnswer, SettingsClient!Event, SettingsClient!Lose
<1>2. CASE SettingsClient!Start
  <2>1. SetTypes'
    BY <1>2 DEF SetInv, SetTypes, SetPhase, SettingsClient!Start
  <2>2. Tokens'
    BY <1>2 DEF SetInv, Tokens, SettingsClient!Start
  <2>3. HandedOver'
    BY <1>2 DEF SetInv, HandedOver, SettingsClient!Start
  <2>4. OnWire'
    BY <1>2 DEF SetInv, OnWire, SettingsClient!Start
  <2>5. Modes'
    BY <1>2 DEF SetInv, Modes, SettingsClient!ModeSwitched, SettingsClient!Start
  <2>6. Cached'
    BY <1>2 DEF SetInv, Cached, SettingsClient!SetUnderThisLink, SettingsClient!Start
  <2> QED
    BY <2>1, <2>2, <2>3, <2>4, <2>5, <2>6 DEF SetInv
<1>3. CASE SettingsClient!PollSend
  <2>1. SetTypes'
    BY <1>3 DEF SetInv, SetTypes, SetPhase, SettingsClient!PollSend, SettingsClient!Push,
      SettingsClient!Submitted
  <2>2. Tokens'
    BY <1>3 DEF SetInv, Tokens, SettingsClient!PollSend
  <2>3. HandedOver'
    BY <1>3 DEF SetInv, HandedOver, SetTypes, SetRequest, SetMail, SetSnap, Tokens,
      SettingsClient!PollSend, SettingsClient!Push, SettingsClient!Submitted
  <2>4. OnWire'
    BY <1>3 DEF SetInv, OnWire, SettingsClient!PollSend, SettingsClient!Push,
      SettingsClient!Submitted
  <2>5. Modes'
    BY <1>3 DEF SetInv, Modes, SettingsClient!ModeSwitched, SettingsClient!PollSend,
      SettingsClient!Push, SettingsClient!Submitted
  <2>6. Cached'
    BY <1>3 DEF SetInv, Cached, SettingsClient!SetUnderThisLink, SettingsClient!PollSend
  <2> QED
    BY <2>1, <2>2, <2>3, <2>4, <2>5, <2>6 DEF SetInv
<1>4. CASE SettingsClient!PollDrain
  <2>1. SetTypes'
    BY <1>4 DEF SetInv, SetTypes, SetPhase, SettingsClient!PollDrain, SettingsClient!Drained
  <2>2. Tokens'
    BY <1>4 DEF SetInv, Tokens, SettingsClient!PollDrain
  <2>3. HandedOver'
    BY <1>4 DEF SetInv, HandedOver, SettingsClient!PollDrain
  <2>4. OnWire'
    BY <1>4 DEF SetInv, OnWire, SettingsClient!PollDrain
  <2>5. Modes'
    BY <1>4 DEF SetInv, Modes, SettingsClient!ModeSwitched, SettingsClient!PollDrain
  <2>6. Cached'
    BY <1>4 DEF SetInv, Cached, SettingsClient!SetUnderThisLink, SettingsClient!PollDrain
  <2> QED
    BY <2>1, <2>2, <2>3, <2>4, <2>5, <2>6 DEF SetInv
<1>5. CASE SettingsClient!PollVerify
  <2>a. rx = <<>>
    BY <1>5 DEF SettingsClient!PollVerify, SettingsClient!Boundary
  <2>1. SetTypes'
    BY <1>5 DEF SetInv, SetTypes, SetPhase, SettingsClient!PollVerify,
      SettingsClient!Boundary, SettingsClient!Drained
  <2>2. Tokens'
    BY <1>5 DEF SetInv, Tokens, SettingsClient!PollVerify
  <2>3. HandedOver'
    BY <1>5 DEF SetInv, HandedOver, SettingsClient!PollVerify
  <2>4. OnWire'
    BY <1>5 DEF SetInv, OnWire, SettingsClient!PollVerify
  <2>5. Modes'
    BY <1>5, <2>a, NoFrames DEF SetInv, Modes, SettingsClient!ModeSwitched,
      SettingsClient!PollVerify
  <2>6. Cached'
    BY <1>5 DEF SetInv, Cached, SettingsClient!SetUnderThisLink,
      SettingsClient!PollVerify
  <2> QED
    BY <2>1, <2>2, <2>3, <2>4, <2>5, <2>6 DEF SetInv
<1>6. CASE SettingsClient!PollWait
  <2>1. SetTypes'
    BY <1>6 DEF SetInv, SetTypes, SetPhase, SettingsClient!PollWait, SettingsClient!Verdict,
      SettingsClient!Finish, SettingsClient!Over
  <2>2. Tokens'
    BY <1>6 DEF SetInv, Tokens, SettingsClient!PollWait, SettingsClient!Verdict,
      SettingsClient!Finish, SettingsClient!Over
  <2>3. HandedOver'
    BY <1>6 DEF SetInv, HandedOver, SettingsClient!PollWait, SettingsClient!Verdict,
      SettingsClient!Finish, SettingsClient!Over
  <2>4. OnWire'
    BY <1>6 DEF SetInv, OnWire, SettingsClient!PollWait, SettingsClient!Verdict,
      SettingsClient!Finish, SettingsClient!Over
  <2>5. Modes'
    BY <1>6 DEF SetInv, Modes, SettingsClient!ModeSwitched, OnWire, SettingsClient!PollWait,
      SettingsClient!Verdict, SettingsClient!Finish, SettingsClient!Over
  <2>6. Cached'
    BY <1>6, <1>0, CacheFinish DEF SetInv, Cached, SettingsClient!SetUnderThisLink,
      SettingsClient!PollWait
  <2> QED
    BY <2>1, <2>2, <2>3, <2>4, <2>5, <2>6 DEF SetInv
<1>7. CASE SettingsClient!PollTimeout
  <2>1. SetTypes'
    BY <1>7 DEF SetInv, SetTypes, SetPhase, SettingsClient!PollTimeout, SettingsClient!Finish,
      SettingsClient!Over
  <2>2. Tokens'
    BY <1>7 DEF SetInv, Tokens, SettingsClient!PollTimeout, SettingsClient!Finish,
      SettingsClient!Over
  <2>3. HandedOver'
    BY <1>7 DEF SetInv, HandedOver, SettingsClient!PollTimeout, SettingsClient!Finish,
      SettingsClient!Over
  <2>4. OnWire'
    BY <1>7 DEF SetInv, OnWire, SettingsClient!PollTimeout, SettingsClient!Finish,
      SettingsClient!Over
  <2>5. Modes'
    BY <1>7 DEF SetInv, Modes, SettingsClient!ModeSwitched, SettingsClient!PollTimeout,
      SettingsClient!Finish, SettingsClient!Over
  <2>6. Cached'
    BY <1>7, <1>0, CacheFinish DEF SetInv, SettingsClient!PollTimeout
  <2> QED
    BY <2>1, <2>2, <2>3, <2>4, <2>5, <2>6 DEF SetInv
<1>8. CASE SettingsClient!SendFails
  <2>1. SetTypes'
    BY <1>8, NoFrames DEF SetInv, SetTypes, SetPhase, SettingsClient!SendFails,
      SettingsClient!CloseUart, SettingsClient!Reset, SettingsClient!Over
  <2>2. Tokens'
    BY <1>8 DEF SetInv, Tokens, SettingsClient!SendFails, SettingsClient!CloseUart,
      SettingsClient!Reset, SettingsClient!Over
  <2>3. HandedOver'
    BY <1>8 DEF SetInv, HandedOver, SettingsClient!SendFails, SettingsClient!CloseUart,
      SettingsClient!Reset, SettingsClient!Over
  <2>4. OnWire'
    BY <1>8, NoFrames DEF SetInv, OnWire, SettingsClient!SendFails, SettingsClient!CloseUart,
      SettingsClient!Reset, SettingsClient!Over
  <2>5. Modes'
    BY <1>8, NoFrames DEF SetInv, Modes, SettingsClient!ModeSwitched, SettingsClient!SendFails,
      SettingsClient!CloseUart, SettingsClient!Reset, SettingsClient!Over
  <2>6. Cached'
    BY <1>8, CacheDropped DEF SetInv, SettingsClient!SendFails, SettingsClient!CloseUart
  <2> QED
    BY <2>1, <2>2, <2>3, <2>4, <2>5, <2>6 DEF SetInv
<1>9. CASE SettingsClient!PortFails
  <2>1. SetTypes'
    BY <1>9, NoFrames DEF SetInv, SetTypes, SetPhase, SettingsClient!PortFails,
      SettingsClient!CloseUart, SettingsClient!Reset, SettingsClient!Over, SettingsClient!Event
  <2>2. Tokens'
    BY <1>9 DEF SetInv, Tokens, SettingsClient!PortFails, SettingsClient!CloseUart,
      SettingsClient!Reset, SettingsClient!Over, SettingsClient!Event
  <2>3. HandedOver'
    BY <1>9 DEF SetInv, HandedOver, SettingsClient!PortFails, SettingsClient!CloseUart,
      SettingsClient!Reset, SettingsClient!Over, SettingsClient!Event
  <2>4. OnWire'
    BY <1>9, NoFrames DEF SetInv, OnWire, SettingsClient!PortFails, SettingsClient!CloseUart,
      SettingsClient!Reset, SettingsClient!Over, SettingsClient!Event
  <2>5. Modes'
    BY <1>9, NoFrames DEF SetInv, Modes, SettingsClient!ModeSwitched, SettingsClient!PortFails,
      SettingsClient!CloseUart, SettingsClient!Reset, SettingsClient!Over, SettingsClient!Event
  <2>6. Cached'
    BY <1>9, CacheDropped DEF SetInv, SettingsClient!PortFails, SettingsClient!CloseUart
  <2> QED
    BY <2>1, <2>2, <2>3, <2>4, <2>5, <2>6 DEF SetInv
<1>10. CASE SettingsClient!Offline
  <2>1. SetTypes'
    BY <1>10, NoFrames DEF SetInv, SetTypes, SetPhase, SettingsClient!Offline,
      SettingsClient!CloseUart, SettingsClient!Reset, SettingsClient!Over
  <2>2. Tokens'
    BY <1>10 DEF SetInv, Tokens, SettingsClient!Offline, SettingsClient!CloseUart,
      SettingsClient!Reset, SettingsClient!Over
  <2>3. HandedOver'
    BY <1>10 DEF SetInv, HandedOver, SettingsClient!Offline, SettingsClient!CloseUart,
      SettingsClient!Reset, SettingsClient!Over
  <2>4. OnWire'
    BY <1>10, NoFrames DEF SetInv, OnWire, SettingsClient!Offline, SettingsClient!CloseUart,
      SettingsClient!Reset, SettingsClient!Over
  <2>5. Modes'
    BY <1>10, NoFrames DEF SetInv, Modes, SettingsClient!ModeSwitched, SettingsClient!Offline,
      SettingsClient!CloseUart, SettingsClient!Reset, SettingsClient!Over
  <2>6. Cached'
    BY <1>10, CacheDropped DEF SetInv, SettingsClient!Offline, SettingsClient!CloseUart
  <2> QED
    BY <2>1, <2>2, <2>3, <2>4, <2>5, <2>6 DEF SetInv
<1>11. CASE SettingsClient!Yield
  <2>1. SetTypes'
    BY <1>11 DEF SetInv, SetTypes, SetPhase, SettingsClient!Yield, SettingsClient!Finish,
      SettingsClient!Over
  <2>2. Tokens'
    BY <1>11 DEF SetInv, Tokens, SettingsClient!Yield, SettingsClient!Finish,
      SettingsClient!Over
  <2>3. HandedOver'
    BY <1>11 DEF SetInv, HandedOver, SettingsClient!Yield, SettingsClient!Finish,
      SettingsClient!Over
  <2>4. OnWire'
    BY <1>11 DEF SetInv, OnWire, SettingsClient!Yield, SettingsClient!Finish,
      SettingsClient!Over
  <2>5. Modes'
    BY <1>11 DEF SetInv, Modes, SettingsClient!ModeSwitched, SettingsClient!Yield,
      SettingsClient!Finish, SettingsClient!Over
  <2>6. Cached'
    BY <1>11, <1>0, CacheFinish DEF SetInv, Cached, SettingsClient!SetUnderThisLink,
      SettingsClient!Yield
  <2> QED
    BY <2>1, <2>2, <2>3, <2>4, <2>5, <2>6 DEF SetInv
<1>12. CASE SettingsClient!GiveUp
  <2>1. SetTypes'
    BY <1>12, NoFrames DEF SetInv, SetTypes, SettingsClient!GiveUp, SettingsClient!CloseUart,
      SettingsClient!Reset, SettingsClient!Over
  <2>2. Tokens'
    BY <1>12 DEF SetInv, Tokens, SettingsClient!GiveUp, SettingsClient!CloseUart,
      SettingsClient!Reset, SettingsClient!Over
  <2>3. HandedOver'
    BY <1>12 DEF SetInv, HandedOver, SettingsClient!GiveUp, SettingsClient!CloseUart,
      SettingsClient!Reset, SettingsClient!Over
  <2>4. OnWire'
    BY <1>12, NoFrames DEF SetInv, OnWire, SettingsClient!GiveUp, SettingsClient!CloseUart,
      SettingsClient!Reset, SettingsClient!Over
  <2>5. Modes'
    BY <1>12, NoFrames DEF SetInv, Modes, SettingsClient!ModeSwitched, SettingsClient!GiveUp,
      SettingsClient!CloseUart, SettingsClient!Reset, SettingsClient!Over
  <2>6. Cached'
    BY <1>12, CacheDropped DEF SetInv, Cached, SettingsClient!SetUnderThisLink,
      SettingsClient!GiveUp, SettingsClient!CloseUart
  <2> QED
    BY <2>1, <2>2, <2>3, <2>4, <2>5, <2>6 DEF SetInv
<1>13. CASE SettingsClient!Expire
  <2>1. SetTypes'
    BY <1>13, SetRead DEF SetInv, SetTypes, SettingsClient!Expire
  <2>2. Tokens'
    BY <1>13 DEF SetInv, Tokens, SettingsClient!Expire
  <2>3. HandedOver'
    BY <1>13 DEF SetInv, HandedOver, SettingsClient!Expire
  <2>4. OnWire'
    BY <1>13 DEF SetInv, OnWire, SettingsClient!Expire
  <2>5. Modes'
    BY <1>13, SetRead DEF SetInv, Modes, SettingsClient!ModeSwitched, SetTypes, SetPhase,
      SettingsClient!Expire, SettingsClient!Read
  <2>6. Cached'
    BY <1>13 DEF SetInv, Cached, SettingsClient!SetUnderThisLink, SettingsClient!Expire
  <2> QED
    BY <2>1, <2>2, <2>3, <2>4, <2>5, <2>6 DEF SetInv
<1>14. CASE SettingsClient!RestOfFrame
  <2>a. \/ SettingsClient!Frame.kind = "dd" /\ SettingsClient!Acknowledged(SettingsClient!Frame)
        \/ SettingsClient!Frame.kind = "db" /\ SettingsClient!Reported(SettingsClient!Frame)
        \/ SettingsClient!Frame.kind = "link" /\ SettingsClient!Linked(SettingsClient!Frame)
    BY <1>14 DEF SettingsClient!RestOfFrame
  <2>b. SettingsClient!Read
        /\ UNCHANGED <<sent, wire, owed, req, phase, verifying, cancel,
                                           turn, mail, snap, own, handed, dsp, was>>
    BY <1>14 DEF SettingsClient!RestOfFrame
  <2>c. /\ rx' \in Seq(SetFrame) /\ SettingsClient!Frame \in SetFrame
        /\ SettingsClient!Frame = rx[1] /\ 1 \in 1..Len(rx)
        /\ \A W : RepliesIn(rx, W) => RepliesIn(rx', W)
    BY <1>0, <2>b, SetRead
  <2>d. linkGen' \in Nat
    BY <2>a DEF SetInv, SetTypes, SettingsClient!Acknowledged, SettingsClient!Reported,
      SettingsClient!Linked
  <2>e. "matched" \in seen' => "matched" \in seen \/ (verifying /\ req.value \in was)
    <3>1. CASE /\ SettingsClient!Frame.kind = "dd"
               /\ SettingsClient!Acknowledged(SettingsClient!Frame)
      <4>1. SettingsClient!Frame.what # "matched"
        BY <2>c, <3>1 DEF SetFrame
      <4> QED
        BY <3>1, <4>1 DEF SettingsClient!Acknowledged
    <3>2. CASE SettingsClient!Frame.kind = "db" /\ SettingsClient!Reported(SettingsClient!Frame)
      BY <2>c, <3>2 DEF SetInv, Modes, RepliesIn, SettingsClient!Reported
    <3>3. CASE SettingsClient!Frame.kind = "link" /\ SettingsClient!Linked(SettingsClient!Frame)
      BY <3>3 DEF SettingsClient!Linked
    <3> QED
      BY <2>a, <3>1, <3>2, <3>3
  <2>1. SetTypes'
    BY <2>b, <2>c, <2>d, <2>e DEF SetInv, SetTypes
  <2>2. Tokens'
    BY <2>b, <2>c, <2>d, <2>e DEF SetInv, Tokens
  <2>3. HandedOver'
    BY <2>b, <2>c, <2>d, <2>e DEF SetInv, HandedOver
  <2>4. OnWire'
    BY <2>b, <2>c, <2>d, <2>e DEF SetInv, OnWire
  <2>5. Modes'
    BY <2>b, <2>c, <2>d, <2>e DEF SetInv, Modes, SettingsClient!ModeSwitched
  <2>6. Cached'
    <3>1. CASE SettingsClient!Acknowledged(SettingsClient!Frame)
      BY <3>1 DEF SetInv, Cached, SettingsClient!Acknowledged, SettingsClient!SetUnderThisLink
    <3>2. CASE SettingsClient!Frame.kind = "db" /\ SettingsClient!Reported(SettingsClient!Frame)
      <4>1. SettingsClient!Frame.of \in Controls
        BY <2>c, <3>2 DEF SetFrame
      <4> QED
        BY <3>2, <4>1, CacheRemembered DEF SettingsClient!Reported, SetInv
    <3>3. CASE SettingsClient!Linked(SettingsClient!Frame)
      <4>1. CASE SettingsClient!Frame.what = "down"
        BY <3>3, <4>1, CacheDropped DEF SettingsClient!Linked, SetInv
      <4>2. CASE SettingsClient!Frame.what # "down"
        BY <3>3, <4>2 DEF SettingsClient!Linked, SetInv, Cached, SettingsClient!SetUnderThisLink
      <4> QED
        BY <4>1, <4>2
    <3> QED
      BY <2>a, <3>1, <3>2, <3>3
  <2> QED
    BY <2>1, <2>2, <2>3, <2>4, <2>5, <2>6 DEF SetInv
<1>15. CASE SettingsClient!AfterService
  <2>a. \/ UNCHANGED <<sent, wire, owed, rx, req, phase, verifying, cancel, seen, own>>
        \/ /\ "home" \in Controls /\ ~SettingsClient!Busy /\ own' = own + 1
           /\ \E v \in Value : SettingsClient!Request(-(own + 1), "home", v)
    BY <1>15 DEF SettingsClient!AfterService, SettingsClient!MixerService
  <2>b. \/ Unasked /\ own' = own
        \/ OwnQueued
    BY <2>a, SetOwnRequest DEF Unasked, SetInv
  <2>c. UNCHANGED <<linkGen, cache, handed, dsp, was>>
    BY <1>15 DEF SettingsClient!AfterService
  <2>d. \/ ~SettingsClient!Publishes /\ mail' = mail
        \/ SettingsClient!Publishes /\ mail' = SettingsClient!Terminal(phase)
    BY <1>15 DEF SettingsClient!AfterService, SettingsClient!Publish
  <2>e. \/ snap' = snap
        \/ snap' = [token |-> req.token,
                    phase |-> IF SettingsClient!Busy THEN "queued" ELSE phase]
    BY <1>15 DEF SettingsClient!AfterService, SettingsClient!Publish
  <2>f. SettingsClient!Publishes => mail'.phase = "done" /\ mail'.token = mail.token
    BY <1>0, <2>d DEF SetMail, SettingsClient!Terminal
  <2>g. mail' \in SetMail /\ snap' \in SetSnap
    <3>1. mail' \in SetMail
      BY <1>0, <2>d DEF SetMail, SettingsClient!Terminal, SetPhase
    <3>2. snap' \in SetSnap
      BY <1>0, <2>e DEF SetSnap, SetRequest, SetPhase
    <3> QED
      BY <3>1, <3>2
  <2>1. SetTypes'
    BY <2>b, <2>c, <2>d, <2>e, <2>f, <2>g DEF SetInv, Unasked, Queued, OwnQueued, SetTypes
  <2>2. Tokens'
    BY <2>b, <2>c, <2>d, <2>e, <2>f, <2>g DEF SetInv, Unasked, Queued, OwnQueued, Tokens,
      SetTypes, SetRequest, SetMail, SetSnap, SettingsClient!Publishes
  <2>3. HandedOver'
    BY <2>b, <2>c, <2>d, <2>e, <2>f, <2>g DEF SetInv, Unasked, Queued, OwnQueued, HandedOver,
      SetTypes, SetRequest, SetMail, SetSnap, SettingsClient!Publishes
  <2>4. OnWire'
    BY <2>b, <2>c, <2>d, <2>e, <2>f, <2>g DEF SetInv, Unasked, Queued, OwnQueued, OnWire
  <2>5. Modes'
    BY <2>b, <2>c, <2>d, <2>e, <2>f, <2>g DEF SetInv, Unasked, Queued, OwnQueued, Modes,
      SettingsClient!ModeSwitched
  <2>6. Cached'
    BY <2>b, <2>c, <2>d, <2>e, <2>f, <2>g DEF SetInv, Unasked, Queued, OwnQueued, Cached,
      SettingsClient!SetUnderThisLink
  <2> QED
    BY <2>1, <2>2, <2>3, <2>4, <2>5, <2>6 DEF SetInv
<1>16. CASE SettingsClient!MenuTurn
  <2>a. \/ UNCHANGED <<sent, wire, owed, rx, req, phase, verifying, cancel, seen, own>>
        \/ /\ ~SettingsClient!Busy /\ own' = own + 1
           /\ \E c \in Controls, v \in Value : SettingsClient!Request(-(own + 1), c, v)
    BY <1>16 DEF SettingsClient!MenuTurn
  <2>c. UNCHANGED <<linkGen, cache, handed, dsp, was, mail, snap>>
    BY <1>16 DEF SettingsClient!MenuTurn
  <2>b. \/ Unasked /\ own' = own
        \/ OwnQueued
    BY <2>a, SetOwnRequest DEF Unasked, SetInv
  <2>1. SetTypes'
    BY <2>b, <2>c DEF SetInv, Unasked, Queued, OwnQueued, SetTypes
  <2>2. Tokens'
    BY <2>b, <2>c DEF SetInv, Unasked, Queued, OwnQueued, Tokens, SetTypes, SetRequest, SetMail,
      SetSnap
  <2>3. HandedOver'
    BY <2>b, <2>c DEF SetInv, Unasked, Queued, OwnQueued, HandedOver, SetTypes, SetRequest,
      SetMail, SetSnap
  <2>4. OnWire'
    BY <2>b, <2>c DEF SetInv, Unasked, Queued, OwnQueued, OnWire
  <2>5. Modes'
    BY <2>b, <2>c DEF SetInv, Unasked, Queued, OwnQueued, Modes, SettingsClient!ModeSwitched
  <2>6. Cached'
    BY <2>b, <2>c DEF SetInv, Unasked, Queued, OwnQueued, Cached,
      SettingsClient!SetUnderThisLink
  <2> QED
    BY <2>1, <2>2, <2>3, <2>4, <2>5, <2>6 DEF SetInv
<1>17. CASE SettingsClient!MailTurn
  <2>a. \/ Unasked /\ mail' = mail
        \/ /\ Unasked /\ mail.phase = "pending"
           /\ mail' \in {SettingsClient!Terminal("io_error"),
                        SettingsClient!Terminal("cancelled")}
        \/ /\ mail.phase = "pending" /\ ~SettingsClient!Busy
           /\ SettingsClient!Request(mail.token, mail.control, mail.value)
           /\ mail' = [mail EXCEPT !.phase = "submitted"]
    BY <1>17 DEF SettingsClient!MailTurn, SettingsClient!MailWaits, Unasked
  <2>b. UNCHANGED <<snap, own, handed, dsp, was, linkGen, cache>>
    BY <1>17 DEF SettingsClient!MailTurn
  <2>c. \/ Unasked /\ mail' = mail
        \/ /\ Unasked /\ mail.phase = "pending"
           /\ mail' \in SetMail /\ mail'.phase = "done" /\ mail'.token = mail.token
        \/ /\ Queued(mail.token) /\ mail.phase = "pending"
           /\ mail' \in SetMail /\ mail'.phase = "submitted" /\ mail'.token = mail.token
    <3>1. /\ mail.token \in Int /\ mail.control \in Controls /\ mail.value \in SetValue
          /\ SetTypes
      BY <1>0 DEF SetInv, SetMail
    <3>2. ASSUME mail' \in {SettingsClient!Terminal("io_error"),
                           SettingsClient!Terminal("cancelled")}
          PROVE  mail' \in SetMail /\ mail'.phase = "done" /\ mail'.token = mail.token
      BY <1>0, <3>2 DEF SetMail, SetPhase, SettingsClient!Terminal
    <3>3. ASSUME mail' = [mail EXCEPT !.phase = "submitted"]
          PROVE  mail' \in SetMail /\ mail'.phase = "submitted" /\ mail'.token = mail.token
      BY <1>0, <3>3 DEF SetMail
    <3>4. CASE /\ mail.phase = "pending" /\ ~SettingsClient!Busy
               /\ SettingsClient!Request(mail.token, mail.control, mail.value)
               /\ mail' = [mail EXCEPT !.phase = "submitted"]
      BY <3>1, <3>3, <3>4, SetRequested
    <3> QED
      BY <2>a, <3>2, <3>4
  <2>1. SetTypes'
    BY <2>b, <2>c DEF SetInv, Unasked, Queued, SetTypes
  <2>2. Tokens'
    BY <2>b, <2>c DEF SetInv, Unasked, Queued, Tokens, SetTypes, SetRequest, SetMail, SetSnap
  <2>3. HandedOver'
    BY <2>b, <2>c DEF SetInv, Unasked, Queued, HandedOver
  <2>4. OnWire'
    BY <2>b, <2>c DEF SetInv, Unasked, Queued, OnWire
  <2>5. Modes'
    BY <2>b, <2>c DEF SetInv, Unasked, Queued, Modes, SettingsClient!ModeSwitched
  <2>6. Cached'
    BY <2>b, <2>c DEF SetInv, Unasked, Queued, Cached, SettingsClient!SetUnderThisLink
  <2> QED
    BY <2>1, <2>2, <2>3, <2>4, <2>5, <2>6 DEF SetInv
<1>18. CASE SettingsClient!MailExpires
  <2>1. SetTypes'
    BY <1>18 DEF SetInv, SetTypes, SetMail, SetSnap, SetPhase, SettingsClient!MailExpires,
      SettingsClient!Terminal, SettingsClient!MailWaits
  <2>2. Tokens'
    BY <1>18 DEF SetInv, Tokens, SettingsClient!MailExpires, SettingsClient!Terminal,
      SettingsClient!MailWaits
  <2>3. HandedOver'
    BY <1>18 DEF SetInv, HandedOver, SettingsClient!MailExpires, SettingsClient!Terminal,
      SettingsClient!MailWaits
  <2>4. OnWire'
    BY <1>18 DEF SetInv, OnWire, SettingsClient!MailExpires
  <2>5. Modes'
    BY <1>18 DEF SetInv, Modes, SettingsClient!ModeSwitched, SettingsClient!MailExpires
  <2>6. Cached'
    BY <1>18 DEF SetInv, Cached, SettingsClient!SetUnderThisLink, SettingsClient!MailExpires
  <2> QED
    BY <2>1, <2>2, <2>3, <2>4, <2>5, <2>6 DEF SetInv
<1>19. ASSUME NEW c \in Controls, NEW v \in Value, SettingsClient!HostAsks(c, v)
      PROVE  SetInv'
  <2>a. /\ mail' = [phase |-> "pending", token |-> mail.token + 1, control |-> c, value |-> v,
                     result |-> "idle"]
        /\ handed' = 0
    <3>1. PICK t \in {mail.token, mail.token + 1} :
            /\ t \in 1..MaxSettings /\ ~SettingsClient!Taken(t)
            /\ mail' = [mail EXCEPT !.phase = "pending", !.token = t, !.control = c,
                                    !.value = v, !.result = "idle"]
            /\ handed' = IF t = mail.token THEN handed ELSE 0
      BY <1>19 DEF SettingsClient!HostAsks
    <3>2. mail.token \in Nat
      BY <1>0 DEF SetMail
    <3>3. t # mail.token
      BY <3>1, <3>2 DEF SettingsClient!Taken, SetInv, Tokens
    <3> QED
      BY <1>0, <3>1, <3>2, <3>3 DEF SetMail
  <2>c. UNCHANGED <<sent, wire, rx, req, phase, verifying, seen, linkGen, cache, snap, own, dsp,
                    was>>
    BY <1>19 DEF SettingsClient!HostAsks
  <2>b. mail' \in SetMail
    BY <1>0, <2>a DEF SetMail, SetPhase, SetValue
  <2>1. SetTypes'
    BY <2>a, <2>b, <2>c DEF SetInv, SetTypes
  <2>2. Tokens'
    BY <2>a, <2>b, <2>c DEF SetInv, Tokens, SetTypes, SetRequest, SetMail, SetSnap
  <2>3. HandedOver'
    BY <2>a, <2>b, <2>c DEF SetInv, HandedOver
  <2>4. OnWire'
    BY <2>a, <2>b, <2>c DEF SetInv, OnWire
  <2>5. Modes'
    BY <2>a, <2>b, <2>c DEF SetInv, Modes, SettingsClient!ModeSwitched
  <2>6. Cached'
    BY <2>a, <2>b, <2>c DEF SetInv, Cached, SettingsClient!SetUnderThisLink
  <2> QED
    BY <2>1, <2>2, <2>3, <2>4, <2>5, <2>6 DEF SetInv
<1>20. CASE SettingsClient!Hear
  <2>a. PICK f \in wire : /\ SettingsClient!Leave(f, IF f.get THEN {"dd", "db"} ELSE {"dd"})
                         /\ IF f.of = "mode" /\ ~f.get
                            THEN dsp' \in {dsp, f.value} /\ was' = {dsp'}
                            ELSE UNCHANGED <<dsp, was>>
    BY <1>20 DEF SettingsClient!Hear
  <2>b. UNCHANGED <<rx, req, phase, verifying, seen, linkGen, cache, mail, snap, own, handed>>
    BY <1>20 DEF SettingsClient!Hear
  <2>c. /\ phase = "drain" /\ f = [get |-> verifying, of |-> req.control, value |-> req.value]
        /\ wire' = {}
    BY <2>a DEF SetInv, OnWire, SettingsClient!Leave
  <2>d. dsp' \in SetValue
    BY <2>a, <2>c DEF SetInv, SetTypes, SetRequest
  <2>1. SetTypes'
    BY <2>a, <2>b, <2>c, <2>d DEF SetInv, SetTypes
  <2>2. Tokens'
    BY <2>a, <2>b, <2>c, <2>d DEF SetInv, Tokens
  <2>3. HandedOver'
    BY <2>a, <2>b, <2>c, <2>d DEF SetInv, HandedOver
  <2>4. OnWire'
    BY <2>a, <2>b, <2>c, <2>d DEF SetInv, OnWire
  <2>5. Modes'
    BY <2>a, <2>b, <2>c, <2>d DEF SetInv, Modes, SettingsClient!ModeSwitched
  <2>6. Cached'
    BY <2>a, <2>b, <2>c, <2>d DEF SetInv, Cached, SettingsClient!SetUnderThisLink
  <2> QED
    BY <2>1, <2>2, <2>3, <2>4, <2>5, <2>6 DEF SetInv
<1>21. CASE SettingsClient!Answer
  <2>a. PICK f \in SetFrame :
         /\ rx' = Append(rx, f)
         /\ (f.kind = "db" /\ f.of = "mode" => f.what = dsp)
    <3>1. PICK a \in owed :
            \/ \E w \in {"ack", "negative"} : /\ a = "dd"
                 /\ SettingsClient!Give(a, [kind |-> a, what |-> w,
                                            of |-> SettingsClient!CodeOf(req.control)])
            \/ a = "db" /\ SettingsClient!Give(a, [kind |-> a, of |-> "mode", what |-> dsp])
      BY <1>21 DEF SettingsClient!Answer
    <3>2. \A w \in {"ack", "negative"} :
            [kind |-> "dd", of |-> SettingsClient!CodeOf(req.control), what |-> w] \in SetFrame
      BY DEF SetFrame, SetInv, SetTypes, SetRequest
    <3>3. [kind |-> "db", of |-> "mode", what |-> dsp] \in SetFrame
      BY UsersAssumption DEF SetFrame, SetInv, SetTypes, SettingsClient!SettingsAssumption
    <3>4. CASE \E w \in {"ack", "negative"} : /\ a = "dd"
                 /\ SettingsClient!Give(a, [kind |-> a, what |-> w,
                                            of |-> SettingsClient!CodeOf(req.control)])
      BY <3>2, <3>4 DEF SettingsClient!Give
    <3>5. CASE a = "db" /\ SettingsClient!Give(a, [kind |-> a, of |-> "mode", what |-> dsp])
      BY <3>3, <3>5 DEF SettingsClient!Give
    <3> QED
      BY <3>1, <3>4, <3>5
  <2>b. UNCHANGED <<sent, wire, req, phase, verifying, seen, linkGen, cache, mail, snap, own,
                    handed, dsp, was>>
    BY <1>21 DEF SettingsClient!Answer
  <2>c. /\ rx' \in Seq(SetFrame)
        /\ \A W : RepliesIn(rx, W) /\ (f.kind = "db" /\ f.of = "mode" => f.what \in W)
                     => RepliesIn(rx', W)
    BY <1>0, <2>a, SetHeard
  <2>1. SetTypes'
    BY <2>a, <2>b, <2>c DEF SetInv, SetTypes
  <2>2. Tokens'
    BY <2>a, <2>b, <2>c DEF SetInv, Tokens
  <2>3. HandedOver'
    BY <2>a, <2>b, <2>c DEF SetInv, HandedOver
  <2>4. OnWire'
    BY <2>a, <2>b, <2>c DEF SetInv, OnWire
  <2>5. Modes'
    BY <2>a, <2>b, <2>c DEF SetInv, Modes, SettingsClient!ModeSwitched
  <2>6. Cached'
    BY <2>a, <2>b, <2>c DEF SetInv, Cached, SettingsClient!SetUnderThisLink
  <2> QED
    BY <2>1, <2>2, <2>3, <2>4, <2>5, <2>6 DEF SetInv
<1>22. CASE SettingsClient!DspSwitches
  <2>a. PICK m1 \in Value : dsp' = m1 /\ was' = was \cup {m1}
    BY <1>22 DEF SettingsClient!DspSwitches
  <2>b. UNCHANGED <<sent, wire, rx, req, phase, verifying, seen, linkGen, cache, mail, snap,
                    own, handed>>
    BY <1>22 DEF SettingsClient!DspSwitches
  <2>c. (RepliesIn(rx, was) => RepliesIn(rx, was')) /\ dsp' \in SetValue
    BY <2>a DEF RepliesIn, SetValue
  <2>1. SetTypes'
    BY <2>a, <2>b, <2>c DEF SetInv, SetTypes
  <2>2. Tokens'
    BY <2>a, <2>b, <2>c DEF SetInv, Tokens
  <2>3. HandedOver'
    BY <2>a, <2>b, <2>c DEF SetInv, HandedOver
  <2>4. OnWire'
    BY <2>a, <2>b, <2>c DEF SetInv, OnWire
  <2>5. Modes'
    BY <2>a, <2>b, <2>c DEF SetInv, Modes, SettingsClient!ModeSwitched
  <2>6. Cached'
    BY <2>a, <2>b, <2>c DEF SetInv, Cached, SettingsClient!SetUnderThisLink
  <2> QED
    BY <2>1, <2>2, <2>3, <2>4, <2>5, <2>6 DEF SetInv
<1>23. CASE SettingsClient!Spontaneous
  <2>a. PICK f \in SetFrame :
         /\ rx' = Append(rx, f)
         /\ (f.kind = "db" /\ f.of = "mode" => f.what = dsp)
    <3>1. \/ \E c \in Controls \ {"mode"}, v \in Value :
               rx' = Append(rx, [kind |-> "db", of |-> c, what |-> v])
          \/ rx' = Append(rx, [kind |-> "db", of |-> "mode", what |-> dsp])
          \/ \E l \in {"up", "down"} :
               rx' = Append(rx, [kind |-> "link", of |-> "", what |-> l])
      BY <1>23 DEF SettingsClient!Spontaneous
    <3>2. [kind |-> "db", of |-> "mode", what |-> dsp] \in SetFrame
      BY UsersAssumption DEF SetFrame, SetInv, SetTypes, SettingsClient!SettingsAssumption
    <3>3. CASE \E c \in Controls \ {"mode"}, v \in Value :
                 rx' = Append(rx, [kind |-> "db", of |-> c, what |-> v])
      <4>1. PICK c \in Controls, v \in Value :
              rx' = Append(rx, [kind |-> "db", of |-> c, what |-> v]) /\ c # "mode"
        BY <3>3
      <4>2. [kind |-> "db", of |-> c, what |-> v] \in SetFrame
        BY DEF SetFrame, SetValue
      <4> QED
        BY <4>1, <4>2
    <3>4. CASE \E l \in {"up", "down"} :
                 rx' = Append(rx, [kind |-> "link", of |-> "", what |-> l])
      <4>1. \A l \in {"up", "down"} : [kind |-> "link", of |-> "", what |-> l] \in SetFrame
        BY DEF SetFrame
      <4> QED
        BY <3>4, <4>1
    <3> QED
      BY <3>1, <3>2, <3>3, <3>4
  <2>b. UNCHANGED <<sent, wire, req, phase, verifying, seen, linkGen, cache, mail, snap, own,
                    handed, dsp, was>>
    BY <1>23 DEF SettingsClient!Spontaneous
  <2>c. /\ rx' \in Seq(SetFrame)
        /\ \A W : RepliesIn(rx, W) /\ (f.kind = "db" /\ f.of = "mode" => f.what \in W)
                     => RepliesIn(rx', W)
    BY <1>0, <2>a, SetHeard
  <2>1. SetTypes'
    BY <2>a, <2>b, <2>c DEF SetInv, SetTypes
  <2>2. Tokens'
    BY <2>a, <2>b, <2>c DEF SetInv, Tokens
  <2>3. HandedOver'
    BY <2>a, <2>b, <2>c DEF SetInv, HandedOver
  <2>4. OnWire'
    BY <2>a, <2>b, <2>c DEF SetInv, OnWire
  <2>5. Modes'
    BY <2>a, <2>b, <2>c DEF SetInv, Modes, SettingsClient!ModeSwitched
  <2>6. Cached'
    BY <2>a, <2>b, <2>c DEF SetInv, Cached, SettingsClient!SetUnderThisLink
  <2> QED
    BY <2>1, <2>2, <2>3, <2>4, <2>5, <2>6 DEF SetInv
<1> QED
  BY <1>1, <1>2, <1>3, <1>4, <1>5, <1>6, <1>7, <1>8, <1>9, <1>10, <1>11, <1>12, <1>13, <1>14,
    <1>15, <1>16, <1>17, <1>18, <1>19, <1>20, <1>21, <1>22, <1>23 DEF SettingsClient!Next,
    SettingsClient!ServiceStep, SettingsClient!MainLoop, SettingsClient!World

\* The invariant holds at first.
LEMMA SetInit ==
  ASSUME SettingsClient!Init
  PROVE  SetInv
<1> USE DEF SettingsClient!Init, SettingsClient!LineInit
<1>1. "mode" \in Controls /\ SettingsClient!Nothing \in SetValue
  BY UsersAssumption DEF SettingsClient!SettingsAssumption, SetValue
<1>2. SetTypes
  <2>1. req \in SetRequest /\ phase \in SetPhase /\ snap \in SetSnap
    BY <1>1 DEF SetRequest, SetSnap, SetPhase
  <2>2. mail \in SetMail
    BY <1>1 DEF SetMail, SetPhase
  <2>3. rx \in Seq(SetFrame)
    BY NoFrames
  <2> QED
    BY <1>1, <2>1, <2>2, <2>3 DEF SetTypes
<1>3. Tokens /\ HandedOver
  BY DEF Tokens, HandedOver, SettingsClient!Busy
<1>4. OnWire
  BY DEF OnWire
<1>5. Modes
  BY DEF Modes, SettingsClient!ModeSwitched
<1>6. Cached
  BY DEF Cached, IsEntry, SettingsClient!SetUnderThisLink, SettingsClient!Empty
<1> QED
  BY <1>2, <1>3, <1>4, <1>5, <1>6 DEF SetInv

\* No step touches the mailbox of a request that is done, but for a new token.
LEMMA MailStays ==
  ASSUME SetInv, SettingsClient!Next
  PROVE  mail' = mail \/ mail'.token # mail.token \/ mail.phase \in {"pending", "submitted"}
<1> USE DEF SettingsClient!userVars, SettingsClient!idle, SettingsClient!others
<1>1. CASE SettingsClient!ServiceStep \/ SettingsClient!ProbeEnds \/ SettingsClient!World
  BY <1>1 DEF SettingsClient!ServiceStep, SettingsClient!Start, SettingsClient!PollSend,
    SettingsClient!PollDrain, SettingsClient!PollVerify, SettingsClient!PollWait,
    SettingsClient!PollTimeout, SettingsClient!SendFails, SettingsClient!PortFails,
    SettingsClient!OpenPort, SettingsClient!Offline, SettingsClient!Yield,
    SettingsClient!GiveUp, SettingsClient!FirstByte, SettingsClient!Expire,
    SettingsClient!RestOfFrame, SettingsClient!ProbeEnds, SettingsClient!World,
    SettingsClient!Edited, SettingsClient!PlaybackClaims, SettingsClient!Configured,
    SettingsClient!ProbeAsked, SettingsClient!Hear, SettingsClient!Answer,
    SettingsClient!LoseAnswer, SettingsClient!DspSwitches, SettingsClient!Spontaneous
<1>2. CASE SettingsClient!MainLoop \/ SettingsClient!MailExpires
  BY <1>2 DEF SettingsClient!MainLoop, SettingsClient!MailExpires, SettingsClient!MailWaits,
    SettingsClient!EndService, SettingsClient!AfterService, SettingsClient!Publish,
    SettingsClient!Publishes, SettingsClient!MenuTurn, SettingsClient!MailTurn
<1>3. ASSUME NEW c \in Controls, NEW v \in Value, SettingsClient!HostAsks(c, v)
      PROVE  mail'.token # mail.token
  <2>1. PICK t \in {mail.token, mail.token + 1} :
          /\ t \in 1..MaxSettings /\ ~SettingsClient!Taken(t)
          /\ mail' = [mail EXCEPT !.phase = "pending", !.token = t, !.control = c,
                                  !.value = v, !.result = "idle"]
    BY <1>3 DEF SettingsClient!HostAsks
  <2>2. mail.token \in Nat /\ mail'.token = t
    BY <2>1 DEF SetInv, SetTypes, SetMail
  <2> QED
    BY <2>1, <2>2 DEF SettingsClient!Taken, SetInv, Tokens
<1> QED
  BY <1>1, <1>2, <1>3 DEF SettingsClient!Next

\* What the host is told is about its request, and an end it is told stays.
LEMMA AnswerKept ==
  ASSUME SetInv, SettingsClient!Next
  PROVE  SettingsClient!KeepsAnswer
<1> SUFFICES ASSUME mail.token # 0, mail'.token = mail.token
             PROVE  /\ SettingsClient!StatusCopy.token = mail.token
                    /\ SettingsClient!Ended(SettingsClient!StatusCopy.phase) =>
                         SettingsClient!StatusCopy' = SettingsClient!StatusCopy
  BY DEF SettingsClient!KeepsAnswer
<1>1. mail.phase \in {"pending", "submitted", "done"}
  BY DEF SetInv, SetTypes, SetMail, Tokens
<1>2. /\ SettingsClient!StatusCopy.token = mail.token
      /\ SettingsClient!Ended(SettingsClient!StatusCopy.phase) => mail.phase = "done"
  BY <1>1 DEF SetInv, Tokens, SettingsClient!StatusCopy, SettingsClient!Ended
<1>3. mail.phase = "done" => SettingsClient!StatusCopy' = SettingsClient!StatusCopy
  BY MailStays DEF SettingsClient!StatusCopy
<1> QED
  BY <1>2, <1>3

-----------------------------------------------------------------------------
\* Headset gain.

\* The fields of the headset's client.
ClientFields ==
  {"online", "phase", "op", "primed", "have", "verified", "desired", "rev", "submitted", "srev",
   "blocked", "cancel", "yielding", "link", "seen", "remote", "history", "conflict", "flags",
   "readback"}
IsClient(r) == r = [f \in ClientFields |-> r[f]]

\* The volume the client has is one the host had, the newest if it has the newest revision,
\* and what it submitted under its revision is it.
VolumeOf(r, v) ==
  /\ r.rev \in Nat /\ r.srev \in Nat /\ v.rev \in Nat
  /\ r.srev <= r.rev /\ r.rev <= v.rev
  /\ r.rev = r.srev => r.submitted = r.desired
  /\ r.rev = v.rev => r.desired = v.level

\* What n writes begun for a revision say of the client: it has the bulk data and a link that
\* stays, it reads back or writes, and the second follows a read-back that showed neither.
Written(r, n) ==
  /\ n \in 0..2
  /\ n >= 1 => r.primed /\ r.link = "up"
  /\ r.cancel /\ ~r.yielding => n = 0
  /\ n >= 1 /\ r.yielding => r.cancel
  /\ n >= 1 /\ HeadsetClient!Active(r) => r.op # 0
  /\ r.rev = r.srev /\ n = 2 => r.conflict
  /\ r.rev = r.srev /\ n >= 1 /\ r.phase \in {"queued", "deferred"} => n = 1 /\ r.conflict

\* A client that rests has nothing to write for the revision it wrote, or for another one.
Resting(r) == ~HeadsetClient!Busy(r) /\ r.phase # "deferred"
Over(r, n) ==
  r.rev = r.srev /\ n >= 1 /\ Resting(r) =>
    r.blocked \/ r.cancel \/ (r.have /\ r.verified = r.desired)

\* Before it queues: nothing, or the one write to repeat.
Repeats(r, n) ==
  r.rev = r.srev /\ n >= 1 /\ Resting(r) =>
    \/ r.blocked \/ r.cancel \/ (r.have /\ r.verified = r.desired)
    \/ n = 1 /\ r.conflict

\* A frame that is read, and what the dial said, have a revision no newer than the one the
\* volume had at their first byte.
Dated(d, v) == d.rev \in Nat /\ d.real \in Nat /\ d.rev <= d.real /\ d.real <= v.rev

HeadInv ==
  /\ IsClient(g) /\ VolumeOf(g, master)
  /\ g.online => Written(g, sets) /\ Over(g, sets)
  /\ begun # HeadsetClient!NoFrame => Dated(begun, master)
  /\ g.remote # HeadsetClient!NoRemote => Dated(g.remote, master)

\* Queueing changes the phase and the operation of the client, or nothing.
LEMMA QueueClient ==
  ASSUME NEW r, IsClient(r)
  PROVE  LET q == HeadsetClient!Queue(r) IN
         /\ IsClient(q)
         /\ \A f \in ClientFields \ {"phase", "op"} : q[f] = r[f]
BY DEF IsClient, HeadsetClient!Queue

\* And leaves what the writes say of it true.
LEMMA QueueWritten ==
  ASSUME NEW r, NEW n, IsClient(r), r.online, r.rev \in Nat, r.srev \in Nat,
         Written(r, n), Repeats(r, n)
  PROVE  Written(HeadsetClient!Queue(r), n) /\ Over(HeadsetClient!Queue(r), n)
BY DEF IsClient, ClientFields, HeadsetClient!Queue, HeadsetClient!Busy, HeadsetClient!Active,
       Written, Over, Repeats, Resting

\* Finishing changes the phase, the operation and what is given up.
LEMMA FinishClient ==
  ASSUME NEW r, IsClient(r), NEW p
  PROVE  LET q == HeadsetClient!Finish(r, p) IN
         /\ IsClient(q)
         /\ \A f \in ClientFields \ {"phase", "op", "blocked", "have", "cancel"} : q[f] = r[f]
<1> DEFINE e == [r EXCEPT !.phase = p]
           b == [e EXCEPT !.blocked = TRUE, !.have = FALSE]
           c == [e EXCEPT !.cancel = FALSE]
<1>1. IsClient(e) /\ \A f \in ClientFields \ {"phase"} : e[f] = r[f]
  BY DEF IsClient
<1>2. IsClient(b) /\ \A f \in ClientFields \ {"blocked", "have"} : b[f] = e[f]
  BY <1>1 DEF IsClient
<1>3. IsClient(c) /\ \A f \in ClientFields \ {"cancel"} : c[f] = e[f]
  BY <1>1 DEF IsClient
<1>4. HeadsetClient!Finish(r, p) \in {e, b, HeadsetClient!Queue(c)}
  BY DEF HeadsetClient!Finish
<1> HIDE DEF e, b, c
<1>5. LET q == HeadsetClient!Queue(c) IN
      IsClient(q) /\ \A f \in ClientFields \ {"phase", "op"} : q[f] = c[f]
  BY <1>3, QueueClient
<1> QED
  BY <1>1, <1>2, <1>3, <1>4, <1>5

\* A cancelled transaction, which queues again if the link is up.
LEMMA FinishCancelled ==
  ASSUME NEW r, NEW n, IsClient(r), r.online, r.rev \in Nat, r.srev \in Nat,
         Written(r, n), r.cancel
  PROVE  LET q == HeadsetClient!Finish(r, "cancelled") IN Written(q, n) /\ Over(q, n)
<1> DEFINE e == [r EXCEPT !.phase = "cancelled"]
           c == [e EXCEPT !.cancel = FALSE]
<1>1. IsClient(e) /\ \A f \in ClientFields \ {"phase"} : e[f] = r[f]
  BY DEF IsClient
<1>2. e.phase = "cancelled" /\ IsClient(c) /\ c.cancel = FALSE
      /\ \A f \in ClientFields \ {"cancel"} : c[f] = e[f]
  BY <1>1 DEF IsClient, ClientFields
<1> HIDE DEF e, c
<1>3. CASE ~r.yielding /\ r.link = "up"
  <2>1. HeadsetClient!Finish(r, "cancelled") = HeadsetClient!Queue(c)
    BY <1>3 DEF HeadsetClient!Finish, e, c
  <2>2. n = 0
    BY <1>3 DEF Written
  <2>3. Written(c, n) /\ Repeats(c, n) /\ c.online /\ c.rev \in Nat /\ c.srev \in Nat
    BY <1>1, <1>2, <2>2 DEF Written, Repeats, ClientFields
  <2> QED
    BY <1>2, <2>1, <2>3, QueueWritten
<1>4. CASE ~(~r.yielding /\ r.link = "up")
  <2>1. HeadsetClient!Finish(r, "cancelled") = e
    BY <1>4 DEF HeadsetClient!Finish, e
  <2> QED
    BY <1>1, <1>2, <2>1 DEF Written, Over, ClientFields, HeadsetClient!Active,
      HeadsetClient!Busy
<1> QED
  BY <1>3, <1>4

\* One that is given up, which blocks the client.
LEMMA FinishGivenUp ==
  ASSUME NEW r, NEW n, IsClient(r), r.online, r.rev \in Nat, r.srev \in Nat,
         Written(r, n), NEW p \in {"timeout", "nack", "invalid", "conflict"}
  PROVE  LET q == HeadsetClient!Finish(r, p) IN Written(q, n) /\ Over(q, n)
BY DEF IsClient, ClientFields, HeadsetClient!Finish, HeadsetClient!Busy, HeadsetClient!Active,
       Written, Over

\* The volume is that of a client that has the same one.
LEMMA VolumeSame ==
  ASSUME NEW r, NEW q, NEW v, VolumeOf(r, v),
         \A f \in {"rev", "srev", "submitted", "desired"} : q[f] = r[f]
  PROVE  VolumeOf(q, v)
BY DEF VolumeOf

\* The service finds the volume v, no older than the one it had.
LEMMA DesireClient ==
  ASSUME NEW r, NEW v, IsClient(r), r.rev \in Nat, r.srev \in Nat, v.rev \in Nat,
         r.srev <= r.rev, r.rev <= v.rev,
         r.rev = r.srev => r.submitted = r.desired, r.rev = v.rev => r.desired = v.level
  PROVE  LET q == HeadsetClient!Desire(r, v.level, v.rev) IN
         /\ IsClient(q) /\ VolumeOf(q, v) /\ q.remote = r.remote /\ q.online = r.online
         /\ \A n : r.online /\ Written(r, n) /\ Over(r, n) => Written(q, n) /\ Over(q, n)
<1> DEFINE s == [r EXCEPT !.conflict = FALSE, !.blocked = @ /\ r.phase # "conflict",
                          !.phase = IF @ = "deferred" THEN "idle" ELSE @]
           fresh == IF r.rev = v.rev THEN r ELSE s
           d == [fresh EXCEPT !.desired = v.level, !.rev = v.rev]
<1>1. IsClient(s) /\ (\A f \in ClientFields \ {"conflict", "blocked", "phase"} : s[f] = r[f])
      /\ s.phase = (IF r.phase = "deferred" THEN "idle" ELSE r.phase)
  BY DEF IsClient, ClientFields
<1>2. IsClient(fresh)
  BY <1>1
<1> HIDE DEF s
<1>3. IsClient(d) /\ (\A f \in ClientFields \ {"desired", "rev"} : d[f] = fresh[f])
      /\ d.desired = v.level /\ d.rev = v.rev
  BY <1>2 DEF IsClient, ClientFields
<1>4. HeadsetClient!Desire(r, v.level, v.rev) = HeadsetClient!Queue(d)
  BY DEF HeadsetClient!Desire, s
<1> HIDE DEF d
<1>5. d.srev = r.srev /\ d.submitted = r.submitted /\ d.online = r.online /\ d.remote = r.remote
  BY <1>1, <1>3 DEF ClientFields
<1>6. VolumeOf(d, v)
  BY <1>3, <1>5 DEF VolumeOf
<1>7. ASSUME NEW n, r.online, Written(r, n), Over(r, n)
      PROVE  Written(d, n) /\ Repeats(d, n)
  <2>1. CASE r.rev = v.rev
    BY <1>3, <1>7, <2>1 DEF Written, Over, Repeats, Resting, ClientFields, HeadsetClient!Busy,
      HeadsetClient!Active
  <2>2. CASE r.rev # v.rev
    <3>1. d.rev # d.srev
      BY <1>3, <1>5, <2>2
    <3> QED
      BY <1>1, <1>3, <1>7, <2>2, <3>1 DEF Written, Repeats, ClientFields, HeadsetClient!Busy,
        HeadsetClient!Active
  <2> QED
    BY <2>1, <2>2
<1> DEFINE q == HeadsetClient!Queue(d)
<1>8. IsClient(q) /\ \A f \in ClientFields \ {"phase", "op"} : q[f] = d[f]
  BY <1>3, QueueClient
<1>9. VolumeOf(q, v) /\ q.remote = r.remote /\ q.online = r.online
  BY <1>5, <1>6, <1>8, VolumeSame DEF ClientFields
<1>10. ASSUME NEW n, r.online, Written(r, n), Over(r, n)
       PROVE  Written(q, n) /\ Over(q, n)
  BY <1>3, <1>5, <1>6, <1>7, <1>10, QueueWritten DEF VolumeOf
<1> HIDE DEF q
<1> QED
  BY <1>4, <1>8, <1>9, <1>10 DEF q

\* A step that keeps the volume and has the client say no more of the dial.
LEMMA HeadKept ==
  ASSUME HeadInv, IsClient(g'),
         \A f \in {"rev", "srev", "submitted", "desired"} : g'[f] = g[f],
         g'.online => Written(g', sets') /\ Over(g', sets'),
         g'.remote \in {g.remote, HeadsetClient!NoRemote},
         begun' \in {begun, HeadsetClient!NoFrame}, master' = master
  PROVE  HeadInv'
<1>1. VolumeOf(g, master)' <=> VolumeOf(g', master)
  BY DEF VolumeOf
<1>2. VolumeOf(g', master)
  BY VolumeSame DEF HeadInv
<1>3. /\ begun # HeadsetClient!NoFrame => Dated(begun, master)
      /\ g.remote # HeadsetClient!NoRemote => Dated(g.remote, master)
  BY DEF HeadInv
<1>4. (begun # HeadsetClient!NoFrame => Dated(begun, master))'
  BY <1>3 DEF Dated, HeadsetClient!NoFrame
<1>5. (g.remote # HeadsetClient!NoRemote => Dated(g.remote, master))'
  BY <1>3 DEF Dated, HeadsetClient!NoRemote
<1>6. (g.online => Written(g, sets) /\ Over(g, sets))' <=>
      (g'.online => Written(g', sets') /\ Over(g', sets'))
  OBVIOUS
<1>7. IsClient(g)' <=> IsClient(g')
  BY DEF IsClient
<1> QED
  BY <1>1, <1>2, <1>4, <1>5, <1>6, <1>7 DEF HeadInv

\* Steps that change the volume of nobody.
LEMMA HeadPolls ==
  ASSUME HeadInv
  PROVE  /\ HeadsetClient!PollDefer => HeadInv'
         /\ HeadsetClient!PollSend => HeadInv'
         /\ HeadsetClient!PollDrain => HeadInv'
         /\ HeadsetClient!PollRead => HeadInv'
<1> USE DEF HeadsetClient!still, HeadsetClient!worldVars, HeadsetClient!boundVars
<1>1. IsClient(g) /\ (g.online => Written(g, sets) /\ Over(g, sets))
  BY DEF HeadInv
<1>2. ASSUME HeadsetClient!PollDefer
      PROVE  HeadInv'
  <2>1. g.online /\ g.phase = "queued" /\ g' = [g EXCEPT !.phase = "deferred"] /\ sets' = sets
    BY <1>2 DEF HeadsetClient!PollDefer, HeadsetClient!Polled
  <2>2. /\ IsClient(g') /\ g'.phase = "deferred"
        /\ \A f \in ClientFields \ {"phase"} : g'[f] = g[f]
    BY <1>1, <2>1 DEF IsClient, ClientFields
  <2>3. Written(g', sets') /\ Over(g', sets')
    BY <1>1, <2>1, <2>2 DEF Written, Over, Resting, ClientFields, HeadsetClient!Active,
      HeadsetClient!Busy
  <2> QED
    BY <1>2, <2>2, <2>3, HeadKept DEF HeadsetClient!PollDefer, ClientFields
<1>3. ASSUME HeadsetClient!PollSend
      PROVE  HeadInv'
  <2>1. /\ g.online /\ g.phase = "send" /\ sets' = sets
        /\ g' = g \/ g' = [g EXCEPT !.phase = "drain"]
    BY <1>3 DEF HeadsetClient!PollSend, HeadsetClient!Polled
  <2>2. IsClient(g') /\ g'.phase \in {"send", "drain"}
        /\ \A f \in ClientFields \ {"phase"} : g'[f] = g[f]
    BY <1>1, <2>1 DEF IsClient, ClientFields
  <2>3. Written(g', sets') /\ Over(g', sets')
    BY <1>1, <2>1, <2>2 DEF Written, Over, Resting, ClientFields, HeadsetClient!Active,
      HeadsetClient!Busy
  <2> QED
    BY <1>3, <2>2, <2>3, HeadKept DEF HeadsetClient!PollSend, ClientFields
<1>4. ASSUME HeadsetClient!PollDrain
      PROVE  HeadInv'
  <2>1. g.online /\ g.phase = "drain" /\ g' = [g EXCEPT !.phase = "wait"] /\ sets' = sets
    BY <1>4 DEF HeadsetClient!PollDrain, HeadsetClient!Polled
  <2>2. IsClient(g') /\ g'.phase = "wait" /\ \A f \in ClientFields \ {"phase"} : g'[f] = g[f]
    BY <1>1, <2>1 DEF IsClient, ClientFields
  <2>3. Written(g', sets') /\ Over(g', sets')
    BY <1>1, <2>1, <2>2 DEF Written, Over, Resting, ClientFields, HeadsetClient!Active,
      HeadsetClient!Busy
  <2> QED
    BY <1>4, <2>2, <2>3, HeadKept DEF HeadsetClient!PollDrain, ClientFields
<1>5. ASSUME HeadsetClient!PollRead
      PROVE  HeadInv'
  <2>1. g.online /\ g.phase = "gap" /\ sets' = sets /\ g' = HeadsetClient!Prepare(g, 2)
    BY <1>5 DEF HeadsetClient!PollRead, HeadsetClient!Polled
  <2>2. IsClient(g') /\ g'.phase = "send" /\ g'.op = 2
        /\ \A f \in ClientFields \ {"phase", "op", "flags", "readback"} : g'[f] = g[f]
    BY <1>1, <2>1 DEF IsClient, ClientFields, HeadsetClient!Prepare
  <2>3. Written(g', sets') /\ Over(g', sets')
    BY <1>1, <2>1, <2>2 DEF Written, Over, Resting, ClientFields, HeadsetClient!Active,
      HeadsetClient!Busy
  <2> QED
    BY <1>5, <2>2, <2>3, HeadKept DEF HeadsetClient!PollRead, ClientFields
<1> QED
  BY <1>2, <1>3, <1>4, <1>5

\* A write begins, or what was put off has nothing to write any more.
LEMMA HeadStart ==
  ASSUME HeadInv, HeadsetClient!PollStart
  PROVE  HeadInv' /\ sets' \in 0..2
<1> USE DEF HeadsetClient!worldVars, HeadsetClient!boundVars
<1>1. IsClient(g) /\ Written(g, sets) /\ Over(g, sets) /\ VolumeOf(g, master)
      /\ g.online /\ g.link = "up" /\ ~g.yielding /\ ~g.blocked /\ ~g.cancel
      /\ g.phase \in {"queued", "deferred"}
  BY DEF HeadInv, HeadsetClient!PollStart, HeadsetClient!Polled, HeadsetClient!Waiting
<1> DEFINE i == [g EXCEPT !.phase = "idle"]
           q == IF g.phase = "deferred" THEN HeadsetClient!Queue(i)
                ELSE [g EXCEPT !.op = IF g.primed THEN 1 ELSE 0]
           s == [q EXCEPT !.submitted = g.desired, !.srev = g.rev]
<1>2. \/ /\ q.phase = "queued" /\ g' = HeadsetClient!Prepare(s, q.op)
         /\ IF q.op = 1 THEN sets' = IF g.rev = g.srev THEN sets + 1 ELSE 1 ELSE sets' = sets
      \/ q.phase = "idle" /\ g' = q /\ sets' = sets
  BY DEF HeadsetClient!PollStart
<1>3. IsClient(i) /\ i.phase = "idle" /\ \A f \in ClientFields \ {"phase"} : i[f] = g[f]
  BY <1>1 DEF IsClient, ClientFields
<1>4. /\ IsClient(q) /\ \A f \in ClientFields \ {"phase", "op"} : q[f] = g[f]
      /\ q.phase = "queued" => q.op = IF g.primed THEN 1 ELSE 0
      /\ q.phase = "idle" => g.primed /\ g.have /\ g.desired = g.verified
  <2>1. CASE g.phase = "deferred"
    <3>1. q = HeadsetClient!Queue(i)
      BY <2>1
    <3>2. q = i \/ q = [i EXCEPT !.phase = "queued", !.op = IF i.primed THEN 1 ELSE 0]
      BY <3>1 DEF HeadsetClient!Queue
    <3>3. q = i => g.primed /\ g.have /\ g.desired = g.verified
      BY <1>1, <1>3, <3>1 DEF HeadsetClient!Queue, HeadsetClient!Busy, ClientFields, IsClient
    <3> HIDE DEF q, i
    <3>4. CASE q = i
      BY <1>3, <3>3, <3>4
    <3>5. CASE q = [i EXCEPT !.phase = "queued", !.op = IF i.primed THEN 1 ELSE 0]
      BY <1>3, <3>5 DEF IsClient, ClientFields
    <3> QED
      BY <3>2, <3>4, <3>5
  <2>2. CASE g.phase # "deferred"
    BY <1>1, <2>2 DEF IsClient, ClientFields
  <2> QED
    BY <2>1, <2>2
<1> HIDE DEF q, i
<1>5. IsClient(s) /\ s.submitted = g.desired /\ s.srev = g.rev
      /\ \A f \in ClientFields \ {"submitted", "srev"} : s[f] = q[f]
  BY <1>4 DEF IsClient, ClientFields
<1>6. UNCHANGED <<master, begun>>
  BY DEF HeadsetClient!PollStart
<1> HIDE DEF s
<1>7. CASE /\ q.phase = "queued" /\ g' = HeadsetClient!Prepare(s, q.op)
           /\ IF q.op = 1 THEN sets' = IF g.rev = g.srev THEN sets + 1 ELSE 1 ELSE sets' = sets
  <2>1. IsClient(g') /\ g'.phase = "send" /\ g'.op = q.op
        /\ \A f \in ClientFields \ {"phase", "op", "flags", "readback"} : g'[f] = s[f]
    BY <1>5, <1>7 DEF IsClient, ClientFields, HeadsetClient!Prepare
  <2>2. /\ g'.rev = g.rev /\ g'.srev = g.rev
        /\ g'.submitted = g.desired /\ g'.desired = g.desired
        /\ g'.remote = g.remote /\ g'.primed = g.primed /\ g'.link = g.link
        /\ g'.cancel = g.cancel /\ g'.yielding = g.yielding /\ g'.conflict = g.conflict
        /\ g'.op = IF g.primed THEN 1 ELSE 0
    BY <1>4, <1>5, <1>7, <2>1 DEF ClientFields
  <2>3. VolumeOf(g', master')
    BY <1>1, <1>6, <2>2 DEF VolumeOf
  <2>4. Written(g', sets') /\ Over(g', sets')
    BY <1>1, <1>4, <1>7, <2>1, <2>2 DEF Written, Over, Resting, VolumeOf, HeadsetClient!Active,
      HeadsetClient!Busy
  <2> QED
    BY <1>6, <2>1, <2>2, <2>3, <2>4 DEF HeadInv, IsClient, Dated, VolumeOf, Written
<1>8. CASE q.phase = "idle" /\ g' = q /\ sets' = sets
  <2>1. Written(g', sets') /\ Over(g', sets')
    BY <1>1, <1>4, <1>8 DEF Written, Over, Resting, ClientFields, HeadsetClient!Active,
      HeadsetClient!Busy
  <2> QED
    BY <1>4, <1>6, <1>8, <2>1, HeadKept DEF ClientFields, Written
<1> QED
  BY <1>2, <1>7, <1>8

\* The answer: it is cancelled or given up, or the transaction goes on, and after the read-back
\* a write that the headset does not show is repeated once.
LEMMA HeadWait ==
  ASSUME HeadInv
  PROVE  /\ HeadsetClient!PollWait => HeadInv'
         /\ HeadsetClient!PollGap => HeadInv'
         /\ HeadsetClient!PollTimeout => HeadInv'
<1> USE DEF HeadsetClient!still, HeadsetClient!worldVars, HeadsetClient!boundVars
<1>1. IsClient(g) /\ VolumeOf(g, master) /\ g.rev \in Nat /\ g.srev \in Nat
      /\ (g.online => Written(g, sets) /\ Over(g, sets))
  BY DEF HeadInv, VolumeOf
<1>2. ASSUME NEW p \in {"cancelled", "timeout", "nack", "invalid"}, g.online,
             p = "cancelled" => g.cancel,
             g' = HeadsetClient!Finish(g, p), UNCHANGED <<begun, master, sets>>
      PROVE  HeadInv'
  <2>1. IsClient(g') /\ \A f \in ClientFields \ {"phase", "op", "blocked", "have", "cancel"} :
                          g'[f] = g[f]
    BY <1>1, <1>2, FinishClient
  <2>2. Written(g', sets') /\ Over(g', sets')
    BY <1>1, <1>2, FinishCancelled, FinishGivenUp
  <2> QED
    BY <1>2, <2>1, <2>2, HeadKept DEF ClientFields
<1>3. ASSUME HeadsetClient!PollWait
      PROVE  HeadInv'
  <2>1. g.online /\ g.phase = "wait" /\ UNCHANGED <<begun, master, sets>>
    BY <1>3 DEF HeadsetClient!PollWait, HeadsetClient!Polled
  <2>2. \/ g.cancel /\ g' = HeadsetClient!Finish(g, "cancelled")
        \/ g' = HeadsetClient!Finish(g, "nack")
        \/ g' = HeadsetClient!Finish(g, "invalid")
        \/ /\ ~g.cancel /\ g.op = 0
           /\ g' = HeadsetClient!Queue([g EXCEPT !.primed = TRUE, !.phase = "idle"])
        \/ /\ ~g.cancel /\ g.op = 1
           /\ g' = [g EXCEPT !.history = @ \cup {g.submitted}, !.phase = "gap"]
        \/ ~g.cancel /\ g.op = 2 /\ g' = HeadsetClient!ReadBack(g)
    BY <1>3 DEF HeadsetClient!PollWait
  <2>3. CASE /\ ~g.cancel /\ g.op = 0
             /\ g' = HeadsetClient!Queue([g EXCEPT !.primed = TRUE, !.phase = "idle"])
    <3> DEFINE i == [g EXCEPT !.primed = TRUE, !.phase = "idle"]
    <3>1. IsClient(i) /\ i.primed = TRUE /\ i.phase = "idle"
          /\ \A f \in ClientFields \ {"primed", "phase"} : i[f] = g[f]
      BY <1>1 DEF IsClient, ClientFields
    <3>2. sets = 0
      BY <1>1, <2>1, <2>3 DEF Written, HeadsetClient!Active, HeadsetClient!Busy
    <3> HIDE DEF i
    <3>3. Written(i, sets) /\ Repeats(i, sets)
      BY <1>1, <2>1, <3>1, <3>2 DEF Written, Repeats, ClientFields
    <3>4. IsClient(g') /\ \A f \in ClientFields \ {"phase", "op"} : g'[f] = i[f]
      BY <2>3, <3>1, QueueClient DEF i
    <3>5. Written(g', sets') /\ Over(g', sets')
      <4>1. g' = HeadsetClient!Queue(i) /\ i.online /\ i.rev \in Nat /\ i.srev \in Nat
        BY <1>1, <2>1, <2>3, <3>1 DEF i, ClientFields
      <4> QED
        BY <2>1, <3>1, <3>3, <4>1, QueueWritten
    <3> QED
      BY <2>1, <3>1, <3>4, <3>5, HeadKept DEF ClientFields
  <2>4. CASE /\ ~g.cancel /\ g.op = 1
             /\ g' = [g EXCEPT !.history = @ \cup {g.submitted}, !.phase = "gap"]
    <3>1. IsClient(g') /\ g'.phase = "gap"
          /\ \A f \in ClientFields \ {"history", "phase"} : g'[f] = g[f]
      BY <1>1, <2>4 DEF IsClient, ClientFields
    <3>2. Written(g', sets') /\ Over(g', sets')
      BY <1>1, <2>1, <3>1 DEF Written, Over, Resting, ClientFields, HeadsetClient!Active,
        HeadsetClient!Busy
    <3> QED
      BY <2>1, <3>1, <3>2, HeadKept DEF ClientFields
  <2>5. CASE ~g.cancel /\ g.op = 2 /\ g' = HeadsetClient!ReadBack(g)
    <3> DEFINE v == HeadsetClient!Verified(g)
               lost == g.readback \notin {g.submitted, g.desired} /\ g.rev = g.srev
               c == [v EXCEPT !.conflict = @ \/ lost]
               d == [c EXCEPT !.phase = "done"]
    <3>1. IsClient(v) /\ v.verified = g.readback
          /\ v.have = (g.have \/ g.readback \in {g.submitted, g.desired})
          /\ \A f \in ClientFields \ {"verified", "have"} : v[f] = g[f]
      BY <1>1 DEF IsClient, ClientFields, HeadsetClient!Verified
    <3>2. IsClient(c) /\ c.conflict = (v.conflict \/ lost)
          /\ \A f \in ClientFields \ {"conflict"} : c[f] = v[f]
      BY <3>1 DEF IsClient, ClientFields
    <3>3. IsClient(d) /\ d.phase = "done" /\ \A f \in ClientFields \ {"phase"} : d[f] = c[f]
      BY <3>2 DEF IsClient, ClientFields
    <3>4. \/ lost /\ g.conflict /\ g' = HeadsetClient!Finish(v, "conflict")
          \/ ~(lost /\ g.conflict) /\ g' = HeadsetClient!Queue(d)
      BY <2>5 DEF HeadsetClient!ReadBack, HeadsetClient!Finish
    <3>5. Written(v, sets) /\ v.online /\ v.rev \in Nat /\ v.srev \in Nat
      BY <1>1, <2>1, <3>1 DEF Written, ClientFields, HeadsetClient!Active, HeadsetClient!Busy
    <3> HIDE DEF v, c, d
    <3>6. CASE lost /\ g.conflict /\ g' = HeadsetClient!Finish(v, "conflict")
      <4>1. IsClient(g') /\ \A f \in ClientFields \ {"phase", "op", "blocked", "have", "cancel"} :
                              g'[f] = v[f]
        BY <3>1, <3>6, FinishClient
      <4>2. Written(g', sets') /\ Over(g', sets')
        BY <2>1, <3>1, <3>5, <3>6, FinishGivenUp
      <4> QED
        BY <2>1, <3>1, <4>1, <4>2, HeadKept DEF ClientFields
    <3>7. CASE ~(lost /\ g.conflict) /\ g' = HeadsetClient!Queue(d)
      <4>1. /\ d.online = g.online /\ d.rev = g.rev /\ d.srev = g.srev /\ d.primed = g.primed
            /\ d.link = g.link /\ d.cancel = g.cancel /\ d.yielding = g.yielding /\ d.op = g.op
            /\ d.verified = g.readback /\ d.desired = g.desired /\ d.submitted = g.submitted
            /\ d.remote = g.remote
            /\ d.conflict = (g.conflict \/ lost)
            /\ d.have = (g.have \/ g.readback \in {g.submitted, g.desired})
        BY <3>1, <3>2, <3>3 DEF ClientFields
      <4>2. Written(d, sets)
        BY <1>1, <2>1, <3>3, <4>1 DEF Written, HeadsetClient!Active, HeadsetClient!Busy
      <4>3. Repeats(d, sets)
        <5>1. CASE lost
          <6>1. d.conflict /\ (g.rev = g.srev => sets # 2)
            BY <1>1, <2>1, <3>7, <4>1, <5>1 DEF Written
          <6> QED
            BY <1>1, <2>1, <4>1, <6>1 DEF Repeats, Written
        <5>2. CASE ~lost
          BY <1>1, <4>1, <5>2 DEF Repeats, VolumeOf
        <5> QED
          BY <5>1, <5>2
      <4>4. IsClient(g') /\ \A f \in ClientFields \ {"phase", "op"} : g'[f] = d[f]
        BY <3>3, <3>7, QueueClient
      <4>5. Written(g', sets') /\ Over(g', sets')
        BY <1>1, <2>1, <3>3, <3>7, <4>1, <4>2, <4>3, QueueWritten
      <4> QED
        BY <2>1, <4>1, <4>4, <4>5, HeadKept DEF ClientFields
    <3> QED
      BY <3>4, <3>6, <3>7
  <2> QED
    BY <1>2, <2>1, <2>2, <2>3, <2>4, <2>5
<1>4. ASSUME HeadsetClient!PollGap
      PROVE  HeadInv'
  BY <1>2, <1>4 DEF HeadsetClient!PollGap, HeadsetClient!Polled
<1>5. ASSUME HeadsetClient!PollTimeout
      PROVE  HeadInv'
  BY <1>2, <1>5 DEF HeadsetClient!PollTimeout, HeadsetClient!Polled
<1> QED
  BY <1>3, <1>4, <1>5

\* The service finds the volume the host has set, and takes what the dial said for it if the
\* host has not set another one since: the revision the dial's report has is that of its first
\* byte.
LEMMA HeadVolume ==
  ASSUME HeadInv
  PROVE  /\ HeadsetClient!ServiceBegins => HeadInv'
         /\ HeadsetClient!TakeRemote => HeadInv' /\ HeadsetClient!KeepsHost
<1> USE DEF HeadsetClient!worldVars, HeadsetClient!boundVars
<1>1. IsClient(g) /\ VolumeOf(g, master) /\ (g.online => Written(g, sets) /\ Over(g, sets))
      /\ (begun # HeadsetClient!NoFrame => Dated(begun, master))
      /\ (g.remote # HeadsetClient!NoRemote => Dated(g.remote, master))
  BY DEF HeadInv
<1>2. ASSUME HeadsetClient!ServiceBegins
      PROVE  HeadInv'
  <2>1. g' = HeadsetClient!Desire(g, master.level, master.rev) /\ UNCHANGED <<begun, master,
                                                                              sets>>
    BY <1>2 DEF HeadsetClient!ServiceBegins
  <2>2. /\ IsClient(g') /\ VolumeOf(g', master) /\ g'.remote = g.remote /\ g'.online = g.online
        /\ g.online => Written(g', sets) /\ Over(g', sets)
    BY <1>1, <2>1, DesireClient DEF VolumeOf
  <2> QED
    BY <1>1, <2>1, <2>2 DEF HeadInv, IsClient, Dated, VolumeOf, Written, Over, Resting,
      HeadsetClient!Busy, HeadsetClient!Active
<1>3. ASSUME HeadsetClient!TakeRemote
      PROVE  HeadInv' /\ HeadsetClient!KeepsHost
  <2> DEFINE r == [g EXCEPT !.remote = HeadsetClient!NoRemote]
  <2>1. IsClient(r) /\ r.remote = HeadsetClient!NoRemote
        /\ \A f \in ClientFields \ {"remote"} : r[f] = g[f]
    BY <1>1 DEF IsClient, ClientFields
  <2>2. /\ g.online /\ g.remote # HeadsetClient!NoRemote /\ UNCHANGED <<begun, sets>>
        /\ \/ /\ HeadsetClient!Current
              /\ master' = IF g.remote.level = master.level THEN master
                           ELSE [level |-> g.remote.level, rev |-> master.rev + 1]
              /\ g' = HeadsetClient!Desire(r, master'.level, master'.rev)
           \/ ~HeadsetClient!Current /\ g' = r /\ master' = master
    BY <1>3 DEF HeadsetClient!TakeRemote
  <2> HIDE DEF r
  <2>3. VolumeOf(r, master) /\ Written(r, sets) /\ Over(r, sets) /\ r.online
    BY <1>1, <2>1, <2>2, VolumeSame DEF ClientFields, Written, Over, Resting,
      HeadsetClient!Active, HeadsetClient!Busy
  <2>4. CASE ~HeadsetClient!Current /\ g' = r /\ master' = master
    <3>1. HeadInv'
      BY <2>1, <2>2, <2>3, <2>4, HeadKept DEF ClientFields
    <3> QED
      BY <2>4, <3>1 DEF HeadsetClient!KeepsHost
  <2>5. CASE /\ HeadsetClient!Current
             /\ master' = IF g.remote.level = master.level THEN master
                          ELSE [level |-> g.remote.level, rev |-> master.rev + 1]
             /\ g' = HeadsetClient!Desire(r, master'.level, master'.rev)
    <3>1. /\ master'.rev \in Nat /\ master.rev <= master'.rev
          /\ master'.rev = master.rev => master' = master
      BY <1>1, <2>5 DEF VolumeOf
    <3>2. /\ r.rev \in Nat /\ r.srev \in Nat /\ r.srev <= r.rev /\ r.rev <= master'.rev
          /\ r.rev = r.srev => r.submitted = r.desired
          /\ r.rev = master'.rev => r.desired = master'.level
      BY <2>3, <3>1 DEF VolumeOf
    <3>3. /\ IsClient(g') /\ VolumeOf(g', master') /\ g'.remote = HeadsetClient!NoRemote
          /\ Written(g', sets) /\ Over(g', sets)
      BY <2>1, <2>3, <2>5, <3>1, <3>2, DesireClient
    <3>4. begun # HeadsetClient!NoFrame => Dated(begun, master')
      BY <1>1, <3>1 DEF Dated, VolumeOf
    <3>5. HeadInv'
      BY <2>2, <3>3, <3>4 DEF HeadInv, IsClient, VolumeOf, Written, Over, Resting, Dated,
        HeadsetClient!Busy, HeadsetClient!Active, HeadsetClient!NoFrame, HeadsetClient!NoRemote
    <3>6. HeadsetClient!KeepsHost
      BY <1>1, <2>2, <2>5 DEF HeadsetClient!KeepsHost, HeadsetClient!Current, Dated, VolumeOf
    <3> QED
      BY <3>5, <3>6
  <2> QED
    BY <2>2, <2>4, <2>5
<1> QED
  BY <1>2, <1>3

\* The port is opened, closed or asked for.
LEMMA HeadPort ==
  ASSUME HeadInv
  PROVE  /\ HeadsetClient!Acquire => HeadInv'
         /\ HeadsetClient!PortFails => HeadInv'
         /\ HeadsetClient!Yield => HeadInv'
         /\ HeadsetClient!Release => HeadInv'
<1> USE DEF HeadsetClient!still, HeadsetClient!worldVars, HeadsetClient!boundVars
<1>1. IsClient(g) /\ VolumeOf(g, master) /\ (g.online => Written(g, sets) /\ Over(g, sets))
  BY DEF HeadInv
<1>2. ASSUME HeadsetClient!Acquire
      PROVE  HeadInv'
  <2> DEFINE o == [g EXCEPT !.online = TRUE, !.op = 0]
  <2>1. IsClient(o) /\ \A f \in ClientFields \ {"online", "op"} : o[f] = g[f]
    BY <1>1 DEF IsClient, ClientFields
  <2>2. g' = HeadsetClient!Queue(o) /\ sets' = 0 /\ UNCHANGED <<begun, master>>
    BY <1>2 DEF HeadsetClient!Acquire
  <2> HIDE DEF o
  <2>3. IsClient(g') /\ \A f \in ClientFields \ {"phase", "op"} : g'[f] = o[f]
    BY <2>1, <2>2, QueueClient
  <2>4. Written(g', sets') /\ Over(g', sets')
    BY <2>2 DEF Written, Over
  <2> QED
    BY <2>1, <2>2, <2>3, <2>4, HeadKept DEF ClientFields
<1>3. ASSUME HeadsetClient!CloseUart
      PROVE  HeadInv'
  <2>1. /\ g' = HeadsetClient!Released(g) /\ begun' = HeadsetClient!NoFrame
        /\ UNCHANGED <<master, sets>>
    BY <1>3 DEF HeadsetClient!CloseUart
  <2>2. /\ IsClient(g') /\ g'.online = FALSE /\ g'.remote = HeadsetClient!NoRemote
        /\ \A f \in {"rev", "srev", "submitted", "desired"} : g'[f] = g[f]
    BY <1>1, <2>1 DEF IsClient, ClientFields, HeadsetClient!Released
  <2> QED
    BY <2>1, <2>2, HeadKept
<1>4. ASSUME HeadsetClient!Yield
      PROVE  HeadInv'
  <2> DEFINE y == [g EXCEPT !.cancel = TRUE, !.yielding = TRUE, !.remote = HeadsetClient!NoRemote]
             e == [y EXCEPT !.phase = "cancelled"]
  <2>1. IsClient(y) /\ y.cancel = TRUE /\ y.yielding = TRUE /\ y.remote = HeadsetClient!NoRemote
        /\ \A f \in ClientFields \ {"cancel", "yielding", "remote"} : y[f] = g[f]
    BY <1>1 DEF IsClient, ClientFields
  <2>2. IsClient(e) /\ e.phase = "cancelled" /\ \A f \in ClientFields \ {"phase"} : e[f] = y[f]
    BY <2>1 DEF IsClient, ClientFields
  <2>3. HeadsetClient!Finish(y, "cancelled") = e
    BY <2>1 DEF HeadsetClient!Finish
  <2>4. g.online /\ g' \in {y, e} /\ UNCHANGED <<begun, master, sets>>
    BY <1>4, <2>3 DEF HeadsetClient!Yield
  <2> HIDE DEF y, e
  <2>5. Written(g', sets') /\ Over(g', sets')
    BY <1>1, <2>1, <2>2, <2>4 DEF Written, Over, ClientFields, HeadsetClient!Active,
      HeadsetClient!Busy
  <2> QED
    BY <2>1, <2>2, <2>4, <2>5, HeadKept DEF ClientFields
<1> QED
  BY <1>2, <1>3, <1>4 DEF HeadsetClient!PortFails, HeadsetClient!Release

\* A frame's first byte, the rest of it, or its loss.
LEMMA HeadFrames ==
  ASSUME HeadInv
  PROVE  /\ HeadsetClient!FirstByte => HeadInv'
         /\ HeadsetClient!RestOfFrame => HeadInv'
         /\ HeadsetClient!FrameLost => HeadInv'
<1> USE DEF HeadsetClient!worldVars, HeadsetClient!boundVars
<1>1. IsClient(g) /\ VolumeOf(g, master) /\ (g.online => Written(g, sets) /\ Over(g, sets))
      /\ (begun # HeadsetClient!NoFrame => Dated(begun, master))
      /\ (g.remote # HeadsetClient!NoRemote => Dated(g.remote, master))
  BY DEF HeadInv
<1>2. ASSUME HeadsetClient!FirstByte
      PROVE  HeadInv'
  <2>1. UNCHANGED <<g, master, sets>>
        /\ begun' = [rev |-> g.rev, eligible |-> HeadsetClient!Active(g) /\ g.phase # "gap"
                     /\ HeadsetClient!Submitted,
                     real |-> master.rev]
    BY <1>2 DEF HeadsetClient!FirstByte
  <2>2. Dated(begun', master)
    BY <1>1, <2>1 DEF Dated, VolumeOf
  <2> QED
    BY <1>1, <2>1, <2>2 DEF HeadInv, IsClient, VolumeOf, Written, Over, Resting, Dated,
      HeadsetClient!Busy, HeadsetClient!Active
\* A report that leaves the link as it is.
<1>3. ASSUME g.online, IsClient(g'), UNCHANGED master, begun' = HeadsetClient!NoFrame,
             \A f \in ClientFields \ {"flags", "primed", "readback", "seen", "remote"} :
               g'[f] = g[f],
             g.primed => g'.primed, sets' \in {sets, 0},
             g'.remote # g.remote => Dated(g'.remote, master)
      PROVE  HeadInv'
  <2>1. VolumeOf(g', master)
    BY <1>1, <1>3, VolumeSame DEF ClientFields
  <2>2. Written(g', sets') /\ Over(g', sets')
    BY <1>1, <1>3 DEF Written, Over, Resting, ClientFields, HeadsetClient!Active,
      HeadsetClient!Busy
  <2> QED
    BY <1>1, <1>3, <2>1, <2>2 DEF HeadInv, IsClient, VolumeOf, Written, Over, Resting, Dated,
      HeadsetClient!Busy, HeadsetClient!Active
<1>4. ASSUME NEW f
      PROVE  LET q == HeadsetClient!Flag(f) IN
             IsClient(q) /\ \A k \in ClientFields \ {"flags"} : q[k] = g[k]
  BY <1>1 DEF IsClient, ClientFields, HeadsetClient!Flag
<1>5. ASSUME HeadsetClient!FrameLost
      PROVE  HeadInv'
  <2>1. g.online /\ g' = HeadsetClient!Flag("bad") /\ begun' = HeadsetClient!NoFrame
        /\ UNCHANGED <<master, sets>>
    BY <1>5 DEF HeadsetClient!FrameLost
  <2> QED
    BY <1>3, <1>4, <2>1 DEF ClientFields
<1>6. ASSUME HeadsetClient!RestOfFrame
      PROVE  HeadInv'
  <2> DEFINE fr == HeadsetClient!Frame
  <2>1. /\ g.online /\ begun # HeadsetClient!NoFrame /\ begun' = HeadsetClient!NoFrame
        /\ UNCHANGED master
        /\ sets' = IF g.link = "up" /\ g'.link = "up" THEN sets ELSE 0
        /\ \/ g' = g \/ g' = HeadsetClient!Flag(fr.what)
           \/ g' = HeadsetClient!BulkReport
           \/ g' = HeadsetClient!GainReport(fr.level)
           \/ g' = HeadsetClient!LinkReport(fr.up)
    BY <1>6 DEF HeadsetClient!RestOfFrame
  <2>2. CASE g' = g \/ g' = HeadsetClient!Flag(fr.what)
    BY <1>1, <1>3, <1>4, <2>1, <2>2 DEF ClientFields
  <2>3. CASE g' = HeadsetClient!BulkReport
    <3> DEFINE h == IF g.op = 0 /\ HeadsetClient!Eligible THEN HeadsetClient!Flag("matched") ELSE g
    <3>1. IsClient(h) /\ \A f \in ClientFields \ {"flags"} : h[f] = g[f]
      BY <1>1, <1>4
    <3>2. g' = g \/ g' = [h EXCEPT !.primed = TRUE]
      BY <2>3 DEF HeadsetClient!BulkReport
    <3> HIDE DEF h
    <3>3. IsClient(g') /\ (g.primed => g'.primed)
          /\ \A f \in ClientFields \ {"flags", "primed"} : g'[f] = g[f]
      BY <1>1, <3>1, <3>2 DEF IsClient, ClientFields
    <3> QED
      BY <1>3, <2>1, <3>3 DEF ClientFields
  <2>4. CASE g' = HeadsetClient!GainReport(fr.level)
    <3> DEFINE l == fr.level
               r == IF g.op = 2 /\ HeadsetClient!Eligible
                    THEN [g EXCEPT !.readback = l, !.flags = @ \cup {"matched"}] ELSE g
               said == [level |-> l, rev |-> begun.rev, real |-> begun.real]
    <3>1. IsClient(r) /\ \A f \in ClientFields \ {"readback", "flags"} : r[f] = g[f]
      BY <1>1 DEF IsClient, ClientFields
    <3>2. \/ g' = [r EXCEPT !.seen = l, !.remote = said]
          \/ g' = [r EXCEPT !.seen = l, !.remote = @]
      BY <2>4 DEF HeadsetClient!GainReport
    <3>3. Dated(said, master)
      BY <1>1, <2>1 DEF Dated
    <3> HIDE DEF r, said
    <3>4. IsClient(g') /\ g'.remote \in {g.remote, said}
          /\ \A f \in ClientFields \ {"readback", "flags", "seen", "remote"} : g'[f] = g[f]
      BY <3>1, <3>2 DEF IsClient, ClientFields
    <3> QED
      BY <1>3, <2>1, <3>3, <3>4 DEF ClientFields
  <2>5. CASE g' = HeadsetClient!LinkReport(fr.up)
    <3> DEFINE up == fr.up
               first == g.link = "unknown"
               changed == ~first /\ (g.link = "up") # up
               r1 == [g EXCEPT !.link = IF up THEN "up" ELSE "down"]
               c1 == [r1 EXCEPT !.primed = FALSE, !.have = FALSE, !.seen = HeadsetClient!None,
                                !.remote = HeadsetClient!NoRemote, !.history = {},
                                !.cancel = HeadsetClient!Active(g),
                                !.phase = IF HeadsetClient!Active(g) THEN @ ELSE "idle"]
               r2 == IF ~up \/ changed THEN c1 ELSE r1
               c2 == [r2 EXCEPT !.blocked = FALSE, !.primed = FALSE, !.have = FALSE,
                                !.conflict = FALSE]
               r3 == IF up /\ (first \/ changed) THEN c2 ELSE r2
    <3>1. IsClient(r1) /\ r1.link = (IF up THEN "up" ELSE "down")
          /\ \A f \in ClientFields \ {"link"} : r1[f] = g[f]
      BY <1>1 DEF IsClient, ClientFields
    <3>2. g' = HeadsetClient!Queue(r3)
      BY <2>5 DEF HeadsetClient!LinkReport
    <3> HIDE DEF r1
    <3>3. IsClient(c1) /\ c1.remote = HeadsetClient!NoRemote
          /\ \A f \in ClientFields \
                       {"primed", "have", "seen", "remote", "history", "cancel", "phase"} :
               c1[f] = r1[f]
      BY <3>1 DEF IsClient, ClientFields
    <3> HIDE DEF c1
    <3>4. IsClient(c2) /\ \A f \in ClientFields \ {"blocked", "primed", "have", "conflict"} :
                            c2[f] = r2[f]
      BY <3>1, <3>3 DEF IsClient, ClientFields
    <3> HIDE DEF c2
    <3>5. /\ IsClient(r3)
          /\ \A f \in {"rev", "srev", "submitted", "desired", "online"} : r3[f] = g[f]
          /\ r3.remote \in {g.remote, HeadsetClient!NoRemote} /\ r3.link = r1.link
      BY <3>1, <3>3, <3>4 DEF ClientFields
    <3>6. r3.link = "up" /\ g.link = "up" => r3 = r1
      BY <3>1, <3>5
    <3> HIDE DEF r3
    <3>7. IsClient(g') /\ \A f \in ClientFields \ {"phase", "op"} : g'[f] = r3[f]
      BY <3>2, <3>5, QueueClient
    <3>8. Written(g', sets') /\ Over(g', sets')
      <4>1. CASE ~(r3.link = "up" /\ g.link = "up")
        <5>1. sets' = 0
          BY <2>1, <3>7, <4>1 DEF ClientFields
        <5> QED
          BY <5>1 DEF Written, Over
      <4>2. CASE r3.link = "up" /\ g.link = "up"
        <5>1. sets' = sets /\ r3 = r1 /\ \A f \in ClientFields : r1[f] = g[f]
          BY <2>1, <3>1, <3>6, <3>7, <4>2 DEF ClientFields
        <5>2. Written(r3, sets) /\ Repeats(r3, sets)
          BY <1>1, <2>1, <5>1 DEF Written, Over, Repeats, Resting, ClientFields,
            HeadsetClient!Active, HeadsetClient!Busy
        <5>3. r3.online /\ r3.rev \in Nat /\ r3.srev \in Nat
          BY <1>1, <2>1, <3>5 DEF VolumeOf
        <5> QED
          BY <3>2, <3>5, <5>1, <5>2, <5>3, QueueWritten
      <4> QED
        BY <4>1, <4>2
    <3> QED
      BY <2>1, <3>5, <3>7, <3>8, HeadKept DEF ClientFields
  <2> QED
    BY <2>1, <2>2, <2>3, <2>4, <2>5
<1> QED
  BY <1>2, <1>5, <1>6

\* The host and the headset.
LEMMA HeadWorld ==
  ASSUME HeadInv
  PROVE  /\ HeadsetClient!HostSets => HeadInv'
         /\ UNCHANGED <<g, begun, master, sets>> => HeadInv'
<1> USE DEF HeadsetClient!boundVars
<1>1. IsClient(g) /\ VolumeOf(g, master) /\ (g.online => Written(g, sets) /\ Over(g, sets))
      /\ (begun # HeadsetClient!NoFrame => Dated(begun, master))
      /\ (g.remote # HeadsetClient!NoRemote => Dated(g.remote, master))
  BY DEF HeadInv
<1>2. ASSUME UNCHANGED <<g, begun, sets>>,
             UNCHANGED master \/ \E l \in Level : master' = [level |-> l, rev |-> master.rev + 1]
      PROVE  HeadInv'
  <2>1. master' = master \/ master'.rev = master.rev + 1
    BY <1>2
  <2>2. VolumeOf(g, master') /\ (begun # HeadsetClient!NoFrame => Dated(begun, master'))
        /\ (g.remote # HeadsetClient!NoRemote => Dated(g.remote, master'))
    BY <1>1, <2>1 DEF VolumeOf, Dated
  <2> QED
    BY <1>1, <1>2, <2>2 DEF HeadInv, IsClient, VolumeOf, Written, Over, Resting, Dated,
      HeadsetClient!Busy, HeadsetClient!Active
<1> QED
  BY <1>2 DEF HeadsetClient!HostSets

\* The invariant of the headset's client, and that it keeps the host's volume.
LEMMA HeadStep ==
  ASSUME HeadInv, HeadsetClient!Next
  PROVE  HeadInv' /\ HeadsetClient!KeepsHost
<1> USE DEF HeadsetClient!still, HeadsetClient!worldVars, HeadsetClient!boundVars
<1>1. CASE HeadsetClient!TakeRemote
  BY <1>1, HeadVolume
<1>2. CASE HeadsetClient!Hear \/ HeadsetClient!Answer \/ HeadsetClient!LoseAnswer
           \/ HeadsetClient!Echoes \/ HeadsetClient!Dials \/ HeadsetClient!Links
  <2>1. UNCHANGED <<g, begun, master, sets>>
    BY <1>2 DEF HeadsetClient!Hear, HeadsetClient!Answer, HeadsetClient!LoseAnswer,
      HeadsetClient!Echoes, HeadsetClient!Dials, HeadsetClient!Links
  <2> QED
    BY <2>1, HeadWorld DEF HeadsetClient!KeepsHost
<1>3. CASE HeadsetClient!HostSets
  BY <1>3, HeadWorld DEF HeadsetClient!KeepsHost, HeadsetClient!HostSets
<1>4. CASE \/ HeadsetClient!ServiceBegins \/ HeadsetClient!PollStart \/ HeadsetClient!PollDefer
           \/ HeadsetClient!PollSend \/ HeadsetClient!PollDrain \/ HeadsetClient!PollRead
           \/ HeadsetClient!PollWait \/ HeadsetClient!PollGap \/ HeadsetClient!PollTimeout
           \/ HeadsetClient!Acquire \/ HeadsetClient!Release \/ HeadsetClient!FirstByte
           \/ HeadsetClient!RestOfFrame \/ HeadsetClient!PortFails \/ HeadsetClient!Yield
           \/ HeadsetClient!FrameLost
  <2>1. HeadInv'
    BY <1>4, HeadVolume, HeadStart, HeadPolls, HeadWait, HeadPort, HeadFrames
  <2>2. master' = master
    BY <1>4 DEF HeadsetClient!ServiceBegins, HeadsetClient!PollStart, HeadsetClient!PollDefer,
      HeadsetClient!PollSend, HeadsetClient!PollDrain, HeadsetClient!PollRead,
      HeadsetClient!PollWait, HeadsetClient!PollGap, HeadsetClient!PollTimeout,
      HeadsetClient!Acquire, HeadsetClient!Release, HeadsetClient!FirstByte,
      HeadsetClient!RestOfFrame, HeadsetClient!PortFails, HeadsetClient!Yield,
      HeadsetClient!FrameLost, HeadsetClient!CloseUart
  <2> QED
    BY <2>1, <2>2 DEF HeadsetClient!KeepsHost
<1> QED
  BY <1>1, <1>2, <1>3, <1>4 DEF HeadsetClient!Next, HeadsetClient!Service, HeadsetClient!World

\* The invariant holds at first.
LEMMA HeadInit ==
  ASSUME HeadsetClient!Init
  PROVE  HeadInv
<1>1. PICK l \in Level :
        /\ master = [level |-> l, rev |-> 0]
        /\ g = [online |-> FALSE, phase |-> "idle", op |-> 0, primed |-> FALSE, have |-> FALSE,
                verified |-> l, desired |-> l, rev |-> 0, submitted |-> l, srev |-> 0,
                blocked |-> FALSE, cancel |-> FALSE, yielding |-> FALSE, link |-> "unknown",
                seen |-> HeadsetClient!None, remote |-> HeadsetClient!NoRemote, history |-> {},
                conflict |-> FALSE, flags |-> {}, readback |-> l]
  BY DEF HeadsetClient!Init
<1>2. IsClient(g)
  BY <1>1 DEF IsClient, ClientFields
<1>3. VolumeOf(g, master) /\ ~g.online /\ g.remote = HeadsetClient!NoRemote
  BY <1>1 DEF VolumeOf
<1>4. begun = HeadsetClient!NoFrame
  BY DEF HeadsetClient!Init
<1> QED
  BY <1>2, <1>3, <1>4 DEF HeadInv

\* For one revision of the volume no more than two writes begin.
LEMMA HeadSets ==
  ASSUME HeadInv, sets \in 0..2, HeadsetClient!Next
  PROVE  sets' \in 0..2
<1> USE DEF HeadsetClient!still, HeadsetClient!worldVars, HeadsetClient!boundVars
<1>1. CASE HeadsetClient!PollStart
  BY <1>1, HeadStart
<1>2. CASE \/ HeadsetClient!ServiceBegins \/ HeadsetClient!PollDefer \/ HeadsetClient!PollSend
           \/ HeadsetClient!PollDrain \/ HeadsetClient!PollRead \/ HeadsetClient!PollWait
           \/ HeadsetClient!PollGap \/ HeadsetClient!PollTimeout \/ HeadsetClient!TakeRemote
           \/ HeadsetClient!Acquire \/ HeadsetClient!Release \/ HeadsetClient!FirstByte
           \/ HeadsetClient!RestOfFrame \/ HeadsetClient!PortFails \/ HeadsetClient!Yield
           \/ HeadsetClient!FrameLost \/ HeadsetClient!World
  <2>1. sets' \in {sets, 0}
    BY <1>2 DEF HeadsetClient!ServiceBegins, HeadsetClient!PollDefer, HeadsetClient!PollSend,
      HeadsetClient!PollDrain, HeadsetClient!PollRead, HeadsetClient!PollWait,
      HeadsetClient!PollGap, HeadsetClient!PollTimeout, HeadsetClient!TakeRemote,
      HeadsetClient!Acquire, HeadsetClient!Release, HeadsetClient!FirstByte,
      HeadsetClient!RestOfFrame, HeadsetClient!PortFails, HeadsetClient!Yield,
      HeadsetClient!FrameLost, HeadsetClient!CloseUart, HeadsetClient!World,
      HeadsetClient!HostSets, HeadsetClient!Hear, HeadsetClient!Answer,
      HeadsetClient!LoseAnswer, HeadsetClient!Echoes, HeadsetClient!Dials,
      HeadsetClient!Links
  <2> QED
    BY <2>1
<1> QED
  BY <1>1, <1>2 DEF HeadsetClient!Next, HeadsetClient!Service, HeadsetClient!World

-----------------------------------------------------------------------------
-----------------------------------------------------------------------------
\* What the headset's client believes.

\* What the headset says, and who has said it.
HeadFrame ==
  [kind : {"ack"}, op : {1}, what : {"ack", "negative"}] \cup [kind : {"bulk"}]
  \cup [kind : {"gain"}, level : Level] \cup [kind : {"link"}, up : BOOLEAN]

\* The link stays up as far as the i-th frame of q, or to its end.
Linked(q, i) == \A j \in 1..(i - 1) : (q[j].kind = "link" => q[j].up)
Whole(q) == Linked(q, Len(q) + 1)

\* The i-th frame of q is a level reported under the link of now.
Comes(q, i) == q[i].kind = "gain" /\ Linked(q, i)

HeadTypes ==
  /\ rx \in Seq(HeadFrame) /\ headset \in [level : Level, up : BOOLEAN]
  /\ master = [level |-> master.level, rev |-> master.rev] /\ master.level \in Level
  /\ g.submitted \in Level /\ g.desired \in Level
  /\ g.remote # HeadsetClient!NoRemote => g.remote.level \in Level
  /\ echo \in SUBSET [level : Level, late : BOOLEAN]

\* A client that has a verified loudness has a headset; one with a transaction under way that
\* goes on has one too, and its bulk data but for the request of these; what is cancelled is
\* under way yet, or the port is asked for, or the headset is gone.
Standing ==
  /\ g.link \in {"unknown", "up", "down"}
  /\ g.have => g.online /\ g.link = "up" /\ g.primed /\ ~g.blocked
  /\ g.remote # HeadsetClient!NoRemote => g.link = "up"
  /\ HeadsetClient!Active(g) => g.online /\ g.link # "unknown" /\ ~g.blocked
  /\ HeadsetClient!Active(g) /\ ~g.cancel => g.link = "up" /\ (g.op # 0 => g.primed)
  /\ g.cancel => HeadsetClient!Active(g) \/ g.yielding \/ g.link = "down"
  /\ g.cancel /\ ~g.yielding => ~g.have
  /\ g.yielding /\ (g.have \/ HeadsetClient!Active(g)) => g.cancel
  /\ g.op = 0 /\ HeadsetClient!Active(g) => ~g.have
  /\ g.phase = "gap" => g.op = 1
  /\ ~g.cancel /\ (g.phase = "gap" \/ (g.op = 2 /\ HeadsetClient!Active(g))) =>
       g.submitted \in g.history

\* What is on the wire is what the client has submitted.
Sending ==
  wire # {} => g.phase = "drain" /\ wire = {[op |-> g.op, level |-> g.submitted]}

\* If the last of the client and the frames to say anything of the link says that it is up,
\* the headset is there.
Present ==
  /\ g.link = "up" /\ "link" \notin missed /\ Whole(rx) => headset.up
  /\ \A i \in 1..Len(rx) :
       ((rx[i].kind = "link" /\ rx[i].up
         /\ (\A j \in (i + 1)..Len(rx) : (rx[j].kind = "link" => rx[j].up)))
        => headset.up)

\* The headset has the loudness it is yet to echo, or was dialed away from it.
Echoing ==
  \A e \in echo : (~e.late => headset.level = e.level) /\ headset.level \in dialed \cup {e.level}

\* The levels that come from here or from the dial.
Known == g.history \cup dialed \cup (IF HeadsetClient!Active(g) THEN {g.submitted} ELSE {})

\* After the i-th frame of q nothing is reported, and l is none, but K and x.
After(q, l, K, i, x) ==
  /\ Whole(q) => l \in K \cup {x}
  /\ \A j \in (i + 1)..Len(q) : (Comes(q, j) => q[j].level \in K \cup {x})
Shows(x) == After(rx, headset.level, Known, 0, x)
EchoKnown == Whole(rx) => \A e \in echo : e.level \in Known

\* The client goes by the loudness it has verified; its operation o is under way and goes on.
Trust == g.have /\ ~g.cancel /\ "link" \notin missed
Tells(o) == g.op = o /\ HeadsetClient!Active(g) /\ ~g.cancel /\ "link" \notin missed

\* A loudness that comes then is the one verified, or one that is known.
Trusted == Trust => EchoKnown /\ Shows(g.verified)
\* While it is read back, the answer is the only one that need not be known.
Answers ==
  /\ EchoKnown
  /\ \A i \in 1..Len(rx) :
       (Comes(rx, i) => After(rx, headset.level, Known, i, rx[i].level))
  /\ "matched" \in g.flags => Shows(g.readback)
Reads == Tells(2) => Answers
\* When it has been sent, the headset echoes no older one.
Writes == Tells(1) /\ g.phase # "send" /\ wire = {} => EchoKnown
Heard == Trusted /\ Reads /\ Writes

\* What the dial said is what the headset was dialed to, and not what is verified.
RemoteDialed ==
  g.remote # HeadsetClient!NoRemote =>
    /\ g.remote.level # g.verified
    /\ "link" \notin missed => g.remote.level \in dialed

\* x is the last level that q reports, or s if it reports none.
Final(q, i) == q[i].kind = "gain" /\ \A j \in (i + 1)..Len(q) : q[j].kind # "gain"
Reports(q) == \E i \in 1..Len(q) : q[i].kind = "gain"
Last(q, s, x) ==
  /\ \A i \in 1..Len(q) : (Final(q, i) => q[i].level = x)
  /\ Reports(q) \/ s = x

\* A frame that may be an answer began when the request had been sent, and what has been read
\* back was the last the headset said.
Timed ==
  /\ begun # HeadsetClient!NoFrame /\ begun.eligible => sent = Bytes
  /\ g.op = 2 /\ HeadsetClient!Active(g) /\ "matched" \in g.flags =>
       /\ sent = Bytes /\ (begun # HeadsetClient!NoFrame => begun.eligible)
       /\ ~g.cancel => g.readback = g.seen

\* The headset has what it said last: when it has been read, and as long as the client has a
\* verified loudness and does nothing.
Told == missed \cap {"echo", "lost"} = {} /\ Whole(rx)
LastRead ==
  Tells(2) /\ Told /\ ("matched" \in g.flags \/ Reports(rx)) => Last(rx, g.seen, headset.level)
LastTrusted ==
  Trust /\ ~HeadsetClient!Active(g) /\ Told => Last(rx, g.seen, headset.level)
Latest == LastRead /\ LastTrusted

\* What was said is verified or was set here, or it is about to be taken or to be set.
Attends(r) ==
  \/ r.seen = r.verified \/ r.seen \in r.history
  \/ r.remote # HeadsetClient!NoRemote /\ r.remote.level = r.seen
  \/ HeadsetClient!Busy(r) \/ r.phase = "deferred"
SeenTaken == Trust /\ Whole(rx) /\ missed \cap {"refused", "dropped"} = {} => Attends(g)

Belief ==
  /\ HeadTypes /\ Standing /\ Sending /\ Present /\ Echoing
  /\ Heard /\ RemoteDialed /\ Timed /\ Latest /\ SeenTaken


\* A frame is read: those behind it stay, and a link it says is up was up before.
LEMMA TailReports ==
  ASSUME NEW q \in Seq(HeadFrame), q # <<>>, q[1].kind = "link" => q[1].up
  PROVE  LET t == Tail(q) IN
         /\ t \in Seq(HeadFrame) /\ Len(t) = Len(q) - 1 /\ Len(q) \in Nat \ {0}
         /\ q[1] \in HeadFrame
         /\ \A i \in 1..Len(t) : i + 1 \in 1..Len(q) /\ t[i] = q[i + 1]
         /\ Whole(t) => Whole(q)
         /\ \A i \in 1..Len(t) : (Comes(t, i) => Comes(q, i + 1))
<1> DEFINE t == Tail(q)
<1>1. /\ t \in Seq(HeadFrame) /\ Len(t) = Len(q) - 1 /\ Len(q) \in Nat \ {0}
      /\ q[1] \in HeadFrame
      /\ \A i \in 1..Len(t) : i + 1 \in 1..Len(q) /\ t[i] = q[i + 1]
  OBVIOUS
<1> HIDE DEF t
<1>2. ASSUME NEW i \in 1..(Len(t) + 1), Linked(t, i)
      PROVE  Linked(q, i + 1)
  <2> SUFFICES ASSUME NEW j \in 1..i, q[j].kind = "link"
               PROVE  q[j].up
    BY <1>1 DEF Linked
  <2>1. CASE j = 1
    BY <2>1
  <2>2. CASE j # 1
    <3>1. j - 1 \in 1..(i - 1) /\ j - 1 \in 1..Len(t) /\ t[j - 1] = q[j]
      BY <1>1, <2>2
    <3> QED
      BY <1>2, <3>1 DEF Linked
  <2> QED
    BY <2>1, <2>2
<1>3. Whole(t) => Whole(q)
  BY <1>1, <1>2 DEF Whole
<1>4. \A i \in 1..Len(t) : (Comes(t, i) => Comes(q, i + 1))
  BY <1>1, <1>2 DEF Comes
<1> QED
  BY <1>1, <1>3, <1>4 DEF t

\* One more comes: those before it stay, and it comes under their link.
LEMMA AppendReports ==
  ASSUME NEW q \in Seq(HeadFrame), NEW f \in HeadFrame
  PROVE  LET a == Append(q, f) IN
         /\ a \in Seq(HeadFrame) /\ Len(a) = Len(q) + 1 /\ Len(q) \in Nat
         /\ \A i \in 1..Len(q) : a[i] = q[i]
         /\ a[Len(q) + 1] = f
         /\ Whole(a) <=> (Whole(q) /\ (f.kind = "link" => f.up))
         /\ \A i \in 1..Len(q) : (Comes(a, i) <=> Comes(q, i))
         /\ Comes(a, Len(q) + 1) <=> (f.kind = "gain" /\ Whole(q))
<1> DEFINE a == Append(q, f)
<1>1. /\ a \in Seq(HeadFrame) /\ Len(a) = Len(q) + 1 /\ Len(q) \in Nat
      /\ \A i \in 1..Len(q) : a[i] = q[i]
      /\ a[Len(q) + 1] = f
  OBVIOUS
<1> HIDE DEF a
<1>2. \A i \in 1..(Len(q) + 1) : (Linked(a, i) <=> Linked(q, i))
  BY <1>1 DEF Linked
<1>3. Whole(a) <=> (Whole(q) /\ (f.kind = "link" => f.up))
  <2>1. Whole(q) <=> Linked(a, Len(q) + 1)
    BY <1>1, <1>2 DEF Whole
  <2>2. 1..(Len(a) + 1 - 1) = 1..(Len(q) + 1 - 1) \cup {Len(q) + 1}
    BY <1>1
  <2>3. Whole(a) <=> (Linked(a, Len(q) + 1) /\ (a[Len(q) + 1].kind = "link" => a[Len(q) + 1].up))
    BY <2>2 DEF Whole, Linked
  <2> QED
    BY <1>1, <2>1, <2>3
<1>4. \A i \in 1..Len(q) : (Comes(a, i) <=> Comes(q, i))
  BY <1>1, <1>2 DEF Comes
<1>5. Comes(a, Len(q) + 1) <=> (f.kind = "gain" /\ Whole(q))
  BY <1>1, <1>2 DEF Comes, Whole
<1> QED
  BY <1>1, <1>3, <1>4, <1>5 DEF a

\* A frame that does not say that the headset is gone is read.
LEMMA AfterTail ==
  ASSUME NEW q \in Seq(HeadFrame), q # <<>>, q[1].kind = "link" => q[1].up,
         NEW l, NEW K, NEW M, K \subseteq M, NEW x
  PROVE  /\ \A i \in Nat : After(q, l, K, i + 1, x) => After(Tail(q), l, M, i, x)
         /\ \A i \in Nat : After(q, l, K, i, x) => After(Tail(q), l, M, i, x)
<1> DEFINE t == Tail(q)
<1>1. ASSUME NEW i \in Nat, After(q, l, K, i + 1, x)
      PROVE  After(t, l, M, i, x)
  <2>1. Whole(t) => l \in M \cup {x}
    BY <1>1, TailReports DEF After
  <2>2. ASSUME NEW j \in (i + 1)..Len(t), Comes(t, j)
        PROVE  t[j].level \in M \cup {x}
    <3>1. j \in 1..Len(t) /\ j + 1 \in (i + 2)..Len(q) /\ Comes(q, j + 1) /\ t[j] = q[j + 1]
      BY <2>2, TailReports
    <3> QED
      BY <1>1, <3>1 DEF After
  <2> QED
    BY <2>1, <2>2 DEF After
<1>2. ASSUME NEW i \in Nat, After(q, l, K, i, x)
      PROVE  After(q, l, K, i + 1, x)
  <2>1. (i + 1 + 1)..Len(q) \subseteq (i + 1)..Len(q)
    BY TailReports
  <2> QED
    BY <1>2, <2>1 DEF After
<1> QED
  BY <1>1, <1>2

\* A frame comes, of a level that is known or is l, and l changes to one that is known.
LEMMA AfterAppend ==
  ASSUME NEW q \in Seq(HeadFrame), NEW f \in HeadFrame, NEW l, NEW n, NEW K, NEW M,
         K \subseteq M, n \in M \cup {l},
         f.kind = "gain" /\ Whole(q) => f.level \in M \cup {l},
         NEW i \in Nat, NEW x, After(q, l, K, i, x)
  PROVE  After(Append(q, f), n, M, i, x)
<1> DEFINE a == Append(q, f)
<1>1. Whole(a) => Whole(q)
  BY AppendReports
<1>2. Whole(a) => n \in M \cup {x}
  BY <1>1 DEF After
<1>3. ASSUME NEW j \in (i + 1)..Len(a), Comes(a, j)
      PROVE  a[j].level \in M \cup {x}
  <2>1. CASE j \in 1..Len(q)
    <3>1. j \in (i + 1)..Len(q) /\ Comes(q, j) /\ a[j] = q[j]
      BY <1>3, <2>1, AppendReports
    <3> QED
      BY <3>1 DEF After
  <2>2. CASE j = Len(q) + 1
    <3>1. a[j] = f /\ f.kind = "gain" /\ Whole(q)
      BY <1>3, <2>2, AppendReports
    <3> QED
      BY <3>1 DEF After
  <2>3. j \in 1..Len(q) \/ j = Len(q) + 1
    BY AppendReports
  <2> QED
    BY <2>1, <2>2, <2>3
<1> HIDE DEF a
<1>4. After(a, n, M, i, x)
  BY <1>2, <1>3 DEF After
<1> QED
  BY <1>4 DEF a


\* A step of the client, or what it makes of a frame, that neither begins, goes on with nor
\* ends a transaction, and leaves what it believes.
Calm(r, s) ==
  /\ \A f \in {"have", "cancel", "link", "yielding", "online", "verified", "submitted", "history"} :
       s[f] = r[f]
  /\ HeadsetClient!Active(s) <=> HeadsetClient!Active(r)
  /\ HeadsetClient!Active(r) => s.op = r.op /\ s.phase = r.phase

\* Two of them are one.
LEMMA CalmTwice == ASSUME NEW q, NEW r, NEW s, Calm(q, r), Calm(r, s) PROVE Calm(q, s)
BY DEF Calm

\* Queueing, and why nothing is queued.
LEMMA QueueCalm ==
  ASSUME NEW r, IsClient(r)
  PROVE  LET q == HeadsetClient!Queue(r) IN
         /\ IsClient(q) /\ Calm(r, q)
         /\ \A f \in ClientFields \ {"phase", "op"} : q[f] = r[f]
         /\ \/ q = r
            \/ q.phase = "queued" /\ ~HeadsetClient!Busy(r) /\ r.phase # "deferred"
               /\ r.link # "down"
         /\ \/ HeadsetClient!Busy(q) \/ q.phase = "deferred"
            \/ ~r.online \/ r.blocked \/ r.cancel \/ r.link = "down"
            \/ r.primed /\ r.have /\ r.desired = r.verified
<1> DEFINE q == HeadsetClient!Queue(r)
           s == [r EXCEPT !.phase = "queued", !.op = IF r.primed THEN 1 ELSE 0]
<1>1. IsClient(q) /\ \A f \in ClientFields \ {"phase", "op"} : q[f] = r[f]
  BY QueueClient
<1>2. \/ /\ q = r
         /\ \/ HeadsetClient!Busy(r) \/ r.phase = "deferred"
            \/ ~r.online \/ r.blocked \/ r.cancel \/ r.link = "down"
            \/ r.primed /\ r.have /\ r.desired = r.verified
      \/ q = s /\ ~HeadsetClient!Busy(r) /\ r.phase # "deferred" /\ r.link # "down"
  BY DEF HeadsetClient!Queue
<1>3. s.phase = "queued"
  BY DEF IsClient, ClientFields
<1> HIDE DEF q, s
<1>4. Calm(r, q)
  BY <1>1, <1>2, <1>3 DEF Calm, ClientFields, HeadsetClient!Active, HeadsetClient!Busy
<1>5. \/ HeadsetClient!Busy(q) \/ q.phase = "deferred"
      \/ ~r.online \/ r.blocked \/ r.cancel \/ r.link = "down"
      \/ r.primed /\ r.have /\ r.desired = r.verified
  BY <1>2, <1>3 DEF HeadsetClient!Busy
<1> QED
  BY <1>1, <1>2, <1>3, <1>4, <1>5 DEF q

\* A transaction that is given up leaves nothing that is believed.
LEMMA FinishFails ==
  ASSUME NEW r, IsClient(r), NEW p, p \in {"timeout", "nack", "invalid", "conflict"},
         NEW q, q = HeadsetClient!Finish(r, p)
  PROVE  /\ IsClient(q) /\ q.phase = p /\ ~q.have /\ ~HeadsetClient!Active(q)
         /\ \A f \in ClientFields \ {"phase", "blocked", "have"} : q[f] = r[f]
<1> DEFINE s == [r EXCEPT !.phase = p, !.blocked = TRUE, !.have = FALSE]
<1>1. q = s
  BY DEF HeadsetClient!Finish
<1>2. /\ IsClient(s) /\ s.phase = p /\ ~s.have
      /\ \A f \in ClientFields \ {"phase", "blocked", "have"} : s[f] = r[f]
  BY DEF IsClient, ClientFields
<1> HIDE DEF s
<1> QED
  BY <1>1, <1>2 DEF HeadsetClient!Active, HeadsetClient!Busy

\* One that is cancelled is over too, and asked for again only on a link that is up.
LEMMA FinishCancels ==
  ASSUME NEW r, IsClient(r)
  PROVE  LET q == HeadsetClient!Finish(r, "cancelled") IN
         /\ IsClient(q) /\ q.phase \in {"cancelled", "queued"} /\ ~HeadsetClient!Active(q)
         /\ \A f \in ClientFields \ {"phase", "op", "cancel"} : q[f] = r[f]
         /\ IF r.yielding \/ r.link # "up" THEN q.cancel = r.cancel ELSE q.cancel = FALSE
<1> DEFINE e == [r EXCEPT !.phase = "cancelled"]
           c == [e EXCEPT !.cancel = FALSE]
           q == HeadsetClient!Finish(r, "cancelled")
<1>1. IsClient(e) /\ e.phase = "cancelled" /\ \A f \in ClientFields \ {"phase"} : e[f] = r[f]
  BY DEF IsClient, ClientFields
<1>2. /\ IsClient(c) /\ c.phase = "cancelled" /\ c.cancel = FALSE
      /\ \A f \in ClientFields \ {"phase", "cancel"} : c[f] = r[f]
  BY <1>1 DEF IsClient, ClientFields
<1>3. q = IF r.yielding \/ r.link # "up" THEN e ELSE HeadsetClient!Queue(c)
  BY DEF HeadsetClient!Finish
<1> HIDE DEF e, c, q
<1>4. LET k == HeadsetClient!Queue(c) IN
      /\ IsClient(k) /\ \A f \in ClientFields \ {"phase", "op"} : k[f] = c[f]
      /\ k = c \/ k.phase = "queued"
  BY <1>2, QueueCalm
<1>5. CASE r.yielding \/ r.link # "up"
  BY <1>1, <1>3, <1>5 DEF q, ClientFields, HeadsetClient!Active, HeadsetClient!Busy
<1>6. CASE ~(r.yielding \/ r.link # "up")
  <2>1. /\ IsClient(q) /\ \A f \in ClientFields \ {"phase", "op"} : q[f] = c[f]
        /\ q.phase \in {"cancelled", "queued"}
    BY <1>2, <1>3, <1>4, <1>6
  <2>2. \A f \in ClientFields \ {"phase", "op", "cancel"} : q[f] = r[f]
    BY <1>2, <2>1
  <2>3. q.cancel = FALSE
    BY <1>2, <2>1 DEF ClientFields
  <2> QED
    BY <1>6, <2>1, <2>2, <2>3 DEF q, HeadsetClient!Active, HeadsetClient!Busy
<1> QED
  BY <1>5, <1>6

\* The service finds the volume: what waited may have nothing to write any more, and a client
\* that has nothing to write has the volume.
LEMMA DesireCalm ==
  ASSUME NEW r, IsClient(r), NEW l, NEW n
  PROVE  LET q == HeadsetClient!Desire(r, l, n) IN
         /\ IsClient(q) /\ Calm(r, q) /\ q.desired = l /\ (q.blocked => r.blocked)
         /\ \A f \in ClientFields \ {"conflict", "blocked", "phase", "op", "desired", "rev"} :
              q[f] = r[f]
         /\ HeadsetClient!Busy(r) => HeadsetClient!Busy(q)
         /\ r.phase = "deferred" => HeadsetClient!Busy(q) \/ q.phase \in {"deferred", "idle"}
         /\ r.have /\ ~r.blocked /\ ~r.cancel /\ r.online /\ r.link = "up" =>
              HeadsetClient!Busy(q) \/ q.phase = "deferred" \/ l = r.verified
<1> DEFINE s == [r EXCEPT !.conflict = FALSE, !.blocked = @ /\ r.phase # "conflict",
                          !.phase = IF @ = "deferred" THEN "idle" ELSE @]
           fresh == IF r.rev = n THEN r ELSE s
           d == [fresh EXCEPT !.desired = l, !.rev = n]
           q == HeadsetClient!Queue(d)
<1>1. IsClient(s) /\ (\A f \in ClientFields \ {"conflict", "blocked", "phase"} : s[f] = r[f])
      /\ s.phase = (IF r.phase = "deferred" THEN "idle" ELSE r.phase)
      /\ s.blocked = (r.blocked /\ r.phase # "conflict")
  BY DEF IsClient, ClientFields
<1>2. s.blocked => r.blocked
  BY <1>1
<1> HIDE DEF s
<1>3. /\ IsClient(fresh) /\ (fresh.blocked => r.blocked)
      /\ \A f \in ClientFields \ {"conflict", "blocked", "phase"} : fresh[f] = r[f]
      /\ fresh.phase = r.phase \/ (r.phase = "deferred" /\ fresh.phase = "idle")
  BY <1>1, <1>2
<1> HIDE DEF fresh
<1>4. IsClient(d) /\ (\A f \in ClientFields \ {"desired", "rev"} : d[f] = fresh[f])
      /\ d.desired = l
  BY <1>3 DEF IsClient, ClientFields
<1>5. HeadsetClient!Desire(r, l, n) = q
  BY DEF HeadsetClient!Desire, s, fresh
<1> HIDE DEF d
<1>6. /\ \A f \in ClientFields \ {"conflict", "blocked", "phase", "desired", "rev"} : d[f] = r[f]
      /\ d.phase = r.phase \/ (r.phase = "deferred" /\ d.phase = "idle")
      /\ d.blocked => r.blocked
  <2>1. d.blocked = fresh.blocked /\ d.phase = fresh.phase
    BY <1>4 DEF ClientFields
  <2> QED
    BY <1>3, <1>4, <2>1
<1>7. Calm(r, d)
  BY <1>6 DEF Calm, ClientFields, HeadsetClient!Active, HeadsetClient!Busy
<1>8. /\ IsClient(q) /\ Calm(d, q)
      /\ \A f \in ClientFields \ {"phase", "op"} : q[f] = d[f]
      /\ \/ q = d
         \/ q.phase = "queued" /\ ~HeadsetClient!Busy(d) /\ d.phase # "deferred" /\ d.link # "down"
      /\ \/ HeadsetClient!Busy(q) \/ q.phase = "deferred"
         \/ ~d.online \/ d.blocked \/ d.cancel \/ d.link = "down"
         \/ d.primed /\ d.have /\ d.desired = d.verified
  BY <1>4, QueueCalm
<1> HIDE DEF q
<1>9. Calm(r, q)
  BY <1>7, <1>8, CalmTwice
<1>10. q.desired = l /\ q.blocked = d.blocked
  BY <1>4, <1>8 DEF ClientFields
<1>11. \A f \in ClientFields \ {"conflict", "blocked", "phase", "op", "desired", "rev"} :
         q[f] = r[f]
  BY <1>6, <1>8
<1>12. HeadsetClient!Busy(r) => HeadsetClient!Busy(q)
  BY <1>6, <1>8 DEF HeadsetClient!Busy
<1>13. r.phase = "deferred" => HeadsetClient!Busy(q) \/ q.phase \in {"deferred", "idle"}
  BY <1>6, <1>8 DEF HeadsetClient!Busy
<1>14. /\ d.online = r.online /\ d.cancel = r.cancel /\ d.link = r.link /\ d.desired = l
       /\ d.verified = r.verified
  BY <1>4, <1>6 DEF ClientFields
<1>15. r.have /\ ~r.blocked /\ ~r.cancel /\ r.online /\ r.link = "up" =>
         HeadsetClient!Busy(q) \/ q.phase = "deferred" \/ l = r.verified
  BY <1>6, <1>8, <1>14
<1> QED
  BY <1>5, <1>6, <1>8, <1>9, <1>10, <1>11, <1>12, <1>13, <1>15


\* A client that has given up, or been made to, believes nothing.
Doubts ==
  /\ ~g.have \/ g.cancel \/ "link" \in missed
  /\ HeadsetClient!Active(g) => g.cancel \/ "link" \in missed \/ g.op = 0

\* What a calm step leaves.
LEMMA CalmKnown ==
  ASSUME Calm(g, g'), dialed \subseteq dialed', "link" \in missed => "link" \in missed'
  PROVE  /\ Known \subseteq Known' /\ (Trust' => Trust)
         /\ \A o : Tells(o)' => Tells(o) /\ g'.phase = g.phase
BY DEF Calm, Known, Trust, Tells, HeadsetClient!Active, HeadsetClient!Busy

\* Nothing comes or goes: what is known may grow, and what is believed is what was.
LEMMA StillHeard ==
  ASSUME Heard, UNCHANGED <<rx, headset, echo>>, Known \subseteq Known',
         Trust' => Trust /\ g'.verified = g.verified,
         Tells(2)' => Tells(2) /\ ("matched" \in g'.flags =>
                                     "matched" \in g.flags /\ g'.readback = g.readback),
         Tells(1)' /\ g'.phase # "send" /\ wire' = {} => Tells(1) /\ g.phase # "send" /\ wire = {}
  PROVE  Heard'
<1>1. \A i, x : After(rx, headset.level, Known, i, x) => After(rx', headset'.level, Known', i, x)
  BY DEF After
<1>2. EchoKnown => EchoKnown'
  BY DEF EchoKnown
<1>3. Trusted'
  BY <1>1, <1>2 DEF Heard, Trusted, Shows
<1>4. Writes'
  BY <1>2 DEF Heard, Writes
<1>5. Reads'
  <2>1. Tells(2)' => Answers'
    BY <1>1, <1>2 DEF Heard, Reads, Answers, Shows
  <2> QED
    BY <2>1 DEF Reads
<1> QED
  BY <1>3, <1>4, <1>5 DEF Heard

\* A frame is read that does not say the headset is gone.
LEMMA ReadHeard ==
  ASSUME Heard, rx \in Seq(HeadFrame), rx # <<>>, rx[1].kind = "link" => rx[1].up,
         rx' = Tail(rx), UNCHANGED <<headset, echo, wire, dialed>>, Calm(g, g'),
         "link" \in missed => "link" \in missed',
         g.op = 2 /\ "matched" \in g'.flags =>
           \/ "matched" \in g.flags /\ g'.readback = g.readback
           \/ rx[1].kind = "gain" /\ g'.readback = rx[1].level
  PROVE  Heard'
<1>1. /\ Known \subseteq Known' /\ (Trust' => Trust)
      /\ \A o : Tells(o)' => Tells(o) /\ g'.phase = g.phase
  BY CalmKnown
<1> DEFINE l == headset.level
<1>2. \A x : /\ \A i \in Nat : After(rx, l, Known, i + 1, x) => After(rx', l, Known', i, x)
             /\ \A i \in Nat : After(rx, l, Known, i, x) => After(rx', l, Known', i, x)
  BY <1>1, AfterTail
<1>3. Whole(rx') => Whole(rx)
  BY TailReports
<1>4. EchoKnown => EchoKnown'
  BY <1>1, <1>3 DEF EchoKnown
<1>5. \A x : (Shows(x) \/ After(rx, l, Known, 1, x)) => Shows(x)'
  <2>1. \A x : After(rx, l, Known, 0 + 1, x) => After(rx', l, Known', 0, x)
    BY <1>2
  <2> QED
    BY <1>2, <2>1 DEF Shows
<1>6. Trusted'
  BY <1>1, <1>4, <1>5 DEF Heard, Trusted, Calm
<1>7. Writes'
  BY <1>1, <1>4 DEF Heard, Writes
<1>8. ASSUME Tells(2)'
      PROVE  Answers'
  <2>1. Tells(2) /\ g.op = 2
    BY <1>1, <1>8 DEF Tells
  <2>2. Answers
    BY <2>1 DEF Heard, Reads
  <2>3. ASSUME NEW i \in 1..Len(rx'), Comes(rx', i)
        PROVE  After(rx', l, Known', i, rx'[i].level)
    <3>1. i + 1 \in 1..Len(rx) /\ Comes(rx, i + 1) /\ rx'[i] = rx[i + 1] /\ i \in Nat
      BY <2>3, TailReports
    <3>2. After(rx, l, Known, i + 1, rx[i + 1].level)
      BY <2>2, <3>1 DEF Answers
    <3> QED
      BY <1>2, <3>1, <3>2
  <2>4. rx[1].kind = "gain" => After(rx, l, Known, 1, rx[1].level)
    <3>1. 1 \in 1..Len(rx)
      BY TailReports
    <3>2. rx[1].kind = "gain" => Comes(rx, 1)
      BY DEF Comes, Linked
    <3> QED
      BY <2>2, <3>1, <3>2 DEF Answers
  <2>5. "matched" \in g'.flags => Shows(g.readback)'
    BY <1>5, <2>1, <2>2, <2>4 DEF Answers, Shows
  <2> QED
    BY <1>4, <2>2, <2>3, <2>5 DEF Answers
<1> QED
  BY <1>6, <1>7, <1>8 DEF Heard, Reads

\* A frame comes, and the headset may have been dialed.
LEMMA SaidHeard ==
  ASSUME Heard, Echoing, rx \in Seq(HeadFrame), NEW f \in HeadFrame, rx' = Append(rx, f),
         UNCHANGED <<g, wire>>, dialed \subseteq dialed', "link" \in missed => "link" \in missed',
         headset'.level \in dialed' \cup {headset.level},
         \A e \in echo' : \E k \in echo : e.level = k.level,
         f.kind = "gain" => \/ f.level = headset'.level
                            \/ \E e \in echo : f.level = e.level /\ headset'.level = headset.level
  PROVE  Heard'
<1>1. /\ Known \subseteq Known' /\ (Trust' => Trust) /\ \A o : Tells(o)' => Tells(o)
      /\ dialed' \subseteq Known'
  BY DEF Known, Trust, Tells
<1>2. Whole(rx') => Whole(rx)
  BY AppendReports
<1>3. EchoKnown => EchoKnown'
  BY <1>1, <1>2 DEF EchoKnown
<1> DEFINE l == headset.level
           n == headset'.level
<1>4. ASSUME EchoKnown
      PROVE  \A i \in Nat : \A x : After(rx, l, Known, i, x) => After(rx', n, Known', i, x)
  <2>1. f.kind = "gain" /\ Whole(rx) => f.level \in Known' \cup {l}
    BY <1>1, <1>4 DEF EchoKnown
  <2>2. n \in Known' \cup {l}
    BY <1>1
  <2> HIDE DEF l, n
  <2> QED
    BY <1>1, <2>1, <2>2, AfterAppend
<1>5. EchoKnown => \A x : Shows(x) => Shows(x)'
  BY <1>4 DEF Shows
<1>6. Trusted'
  BY <1>1, <1>3, <1>5 DEF Heard, Trusted
<1>7. Writes'
  BY <1>1, <1>3 DEF Heard, Writes
<1>8. ASSUME Tells(2)'
      PROVE  Answers'
  <2>1. Answers /\ EchoKnown
    BY <1>1, <1>8 DEF Heard, Reads, Answers
  <2>2. ASSUME NEW i \in 1..Len(rx'), Comes(rx', i)
        PROVE  After(rx', n, Known', i, rx'[i].level)
    <3>1. CASE i \in 1..Len(rx)
      <4>1. Comes(rx, i) /\ rx'[i] = rx[i] /\ i \in Nat
        BY <2>2, <3>1, AppendReports
      <4>2. After(rx, l, Known, i, rx[i].level)
        BY <2>1, <3>1, <4>1 DEF Answers
      <4> QED
        BY <1>4, <2>1, <4>1, <4>2
    <3>2. CASE i = Len(rx) + 1
      <4>1. rx'[i] = f /\ f.kind = "gain" /\ Whole(rx) /\ i = Len(rx')
        BY <2>2, <3>2, AppendReports
      <4>2. n \in Known' \cup {f.level}
        BY <1>1, <2>1, <4>1 DEF EchoKnown, Echoing
      <4>3. (i + 1)..Len(rx') = {}
        BY <4>1, AppendReports
      <4> QED
        BY <4>1, <4>2, <4>3 DEF After
    <3>3. i \in 1..Len(rx) \/ i = Len(rx) + 1
      BY AppendReports
    <3> QED
      BY <3>1, <3>2, <3>3
  <2>3. "matched" \in g'.flags => Shows(g.readback)'
    BY <1>5, <2>1 DEF Answers, Shows
  <2> QED
    BY <1>3, <2>1, <2>2, <2>3 DEF Answers
<1> QED
  BY <1>6, <1>7, <1>8 DEF Heard, Reads


\* A frame is read: the last level is the one it was, or the one that was read.
LEMMA LastTail ==
  ASSUME NEW q \in Seq(HeadFrame), q # <<>>, NEW s, NEW x, Last(q, s, x)
  PROVE  Last(Tail(q), IF q[1].kind = "gain" THEN q[1].level ELSE s, x)
<1> DEFINE t == Tail(q)
<1>1. /\ Len(t) = Len(q) - 1 /\ Len(q) \in Nat \ {0}
      /\ \A i \in 1..Len(t) : i + 1 \in 1..Len(q) /\ t[i] = q[i + 1]
  OBVIOUS
<1> HIDE DEF t
<1>2. ASSUME NEW i \in 1..Len(t), Final(t, i)
      PROVE  t[i].level = x
  <2>1. Final(q, i + 1)
    <3> SUFFICES ASSUME NEW j \in (i + 1 + 1)..Len(q)
                 PROVE  q[j].kind # "gain"
      BY <1>1, <1>2 DEF Final
    <3>1. j - 1 \in (i + 1)..Len(t) /\ j - 1 \in 1..Len(t) /\ t[j - 1] = q[j]
      BY <1>1
    <3> QED
      BY <1>2, <3>1 DEF Final
  <2> QED
    BY <1>1, <2>1 DEF Last
<1>3. ASSUME ~Reports(t)
      PROVE  x = IF q[1].kind = "gain" THEN q[1].level ELSE s
  <2>1. \A j \in 2..Len(q) : q[j].kind # "gain"
    <3> SUFFICES ASSUME NEW j \in 2..Len(q)
                 PROVE  q[j].kind # "gain"
      OBVIOUS
    <3>1. j - 1 \in 1..Len(t) /\ t[j - 1] = q[j]
      BY <1>1
    <3> QED
      BY <1>3, <3>1 DEF Reports
  <2>2. CASE q[1].kind = "gain"
    <3>1. Final(q, 1) /\ 1 \in 1..Len(q)
      BY <1>1, <2>1, <2>2 DEF Final
    <3> QED
      BY <2>2, <3>1 DEF Last
  <2>3. CASE q[1].kind # "gain"
    <3>1. ~Reports(q)
      BY <1>1, <2>1, <2>3 DEF Reports
    <3> QED
      BY <2>3, <3>1 DEF Last
  <2> QED
    BY <2>2, <2>3
<1> QED
  BY <1>2, <1>3 DEF Last, t

\* One more comes.
LEMMA LastAppend ==
  ASSUME NEW q \in Seq(HeadFrame), NEW f, NEW s
  PROVE  /\ f.kind = "gain" => Last(Append(q, f), s, f.level)
         /\ f.kind # "gain" => /\ Reports(Append(q, f)) => Reports(q)
                               /\ \A x : Last(q, s, x) => Last(Append(q, f), s, x)
<1> DEFINE a == Append(q, f)
<1>1. /\ Len(a) = Len(q) + 1 /\ Len(q) \in Nat /\ a[Len(q) + 1] = f
      /\ \A i \in 1..Len(q) : a[i] = q[i]
  OBVIOUS
<1> HIDE DEF a
<1>2. ASSUME f.kind = "gain"
      PROVE  Last(a, s, f.level)
  <2>1. Len(a) \in 1..Len(a) /\ a[Len(a)].kind = "gain"
    BY <1>1, <1>2
  <2>2. ASSUME NEW i \in 1..Len(a), Final(a, i)
        PROVE  a[i].level = f.level
    <3>1. i = Len(a)
      BY <1>1, <2>1, <2>2 DEF Final
    <3> QED
      BY <1>1, <3>1
  <2> QED
    BY <2>1, <2>2 DEF Last, Reports
<1>3. ASSUME f.kind # "gain"
      PROVE  /\ Reports(a) <=> Reports(q)
             /\ \A x : Last(q, s, x) => Last(a, s, x)
  <2>1. Reports(a) <=> Reports(q)
    <3>1. Reports(a) => Reports(q)
      <4> SUFFICES ASSUME NEW i \in 1..Len(a), a[i].kind = "gain"
                   PROVE  Reports(q)
        BY DEF Reports
      <4>1. i \in 1..Len(q)
        BY <1>1, <1>3
      <4> QED
        BY <1>1, <4>1 DEF Reports
    <3>2. Reports(q) => Reports(a)
      <4> SUFFICES ASSUME NEW i \in 1..Len(q), q[i].kind = "gain"
                   PROVE  Reports(a)
        BY DEF Reports
      <4>1. i \in 1..Len(a) /\ a[i].kind = "gain"
        BY <1>1
      <4> QED
        BY <4>1 DEF Reports
    <3> QED
      BY <3>1, <3>2
  <2>2. ASSUME NEW i \in 1..Len(a), Final(a, i)
        PROVE  i \in 1..Len(q) /\ Final(q, i) /\ a[i] = q[i]
    <3>1. i \in 1..Len(q)
      BY <1>1, <1>3, <2>2 DEF Final
    <3>2. \A j \in (i + 1)..Len(q) : q[j].kind # "gain"
      <4> SUFFICES ASSUME NEW j \in (i + 1)..Len(q)
                   PROVE  q[j].kind # "gain"
        OBVIOUS
      <4>1. j \in (i + 1)..Len(a) /\ a[j] = q[j]
        BY <1>1, <3>1
      <4> QED
        BY <2>2, <4>1 DEF Final
    <3> QED
      BY <1>1, <2>2, <3>1, <3>2 DEF Final
  <2> QED
    BY <2>1, <2>2 DEF Last
<1> QED
  BY <1>2, <1>3 DEF a

\* A client that doubts has nothing to be wrong about.
LEMMA DoubtsAll == ASSUME Doubts' PROVE Heard' /\ Latest' /\ SeenTaken'
<1>1. ~Trust' /\ ~Tells(1)' /\ ~Tells(2)'
  BY DEF Doubts, Trust, Tells
<1> QED
  BY <1>1 DEF Heard, Trusted, Reads, Writes, Latest, LastRead, LastTrusted, SeenTaken

\* What a calm step makes of how the client stands.
LEMMA CalmStands ==
  ASSUME Standing, Calm(g, g'), g.primed => g'.primed, g'.blocked => g.blocked,
         g'.remote # HeadsetClient!NoRemote => g.link = "up"
  PROVE  Standing'
<1>1. HeadsetClient!Active(g') <=> HeadsetClient!Active(g)
  BY DEF Calm
<1>2. g.phase = "gap" <=> g'.phase = "gap"
  BY DEF Calm, HeadsetClient!Active, HeadsetClient!Busy
<1> QED
  BY <1>1, <1>2 DEF Standing, Calm, HeadsetClient!NoRemote, HeadsetClient!Active,
    HeadsetClient!Busy

\* A calm step of the client by itself.
LEMMA CalmStep ==
  ASSUME Belief, Calm(g, g'), UNCHANGED <<rx, headset, echo, dialed, wire, begun>>,
         UNCHANGED sent \/ (begun = HeadsetClient!NoFrame /\ ~HeadsetClient!Active(g)),
         missed' \in SUBSET (missed \cup {"dropped", "refused"}), missed \subseteq missed',
         \A f \in {"primed", "flags", "readback", "seen"} : g'[f] = g[f],
         g'.blocked => g.blocked,
         g'.remote \in {g.remote, HeadsetClient!NoRemote}
  PROVE  /\ Standing' /\ Sending' /\ Present' /\ Echoing' /\ Heard' /\ RemoteDialed' /\ Timed'
         /\ Latest' /\ (Trust' => Trust)
<1>1. /\ Known \subseteq Known' /\ (Trust' => Trust)
      /\ \A o : Tells(o)' => Tells(o) /\ g'.phase = g.phase
  BY CalmKnown
<1>2. Standing'
  BY CalmStands DEF Belief, Standing
<1>3. Sending'
  BY DEF Belief, Sending, Calm, HeadsetClient!Active, HeadsetClient!Busy
<1>4. Present' /\ Echoing'
  BY DEF Belief, Present, Echoing, Calm
<1>5. Heard'
  BY <1>1, StillHeard DEF Belief, Calm
<1>6. RemoteDialed'
  BY DEF Belief, RemoteDialed, HeadsetClient!NoRemote, Calm
<1>7. Timed'
  BY DEF Belief, Timed, Calm, HeadsetClient!NoFrame
<1>8. LastRead'
  BY <1>1 DEF Belief, Latest, LastRead, Told
<1>9. LastTrusted'
  BY <1>1 DEF Belief, Latest, LastTrusted, Told, Calm
<1> QED
  BY <1>1, <1>2, <1>3, <1>4, <1>5, <1>6, <1>7, <1>8, <1>9 DEF Latest, Belief


\* The service finds the volume, takes the dial's, and puts a write off.
LEMMA BelieveVolume ==
  ASSUME HeadInv, Belief
  PROVE  /\ HeadsetClient!ServiceBegins => Belief'
         /\ HeadsetClient!PollDefer => Belief'
         /\ HeadsetClient!TakeRemote => Belief' /\ HeadsetClient!TakesDialed
<1> USE DEF HeadsetClient!still, HeadsetClient!worldVars, HeadsetClient!boundVars,
            HeadsetClient!lineVars
<1>1. IsClient(g)
  BY DEF HeadInv
<1>2. ASSUME HeadsetClient!ServiceBegins
      PROVE  Belief'
  <2>1. /\ g' = HeadsetClient!Desire(g, master.level, master.rev)
        /\ missed' = IF g.phase = "deferred" /\ g'.phase = "idle" THEN missed \cup {"dropped"}
                     ELSE missed
        /\ UNCHANGED <<rx, headset, echo, dialed, wire, sent, begun, master>>
    BY <1>2 DEF HeadsetClient!ServiceBegins
  <2>2. /\ IsClient(g') /\ Calm(g, g') /\ g'.desired = master.level /\ (g'.blocked => g.blocked)
        /\ \A f \in ClientFields \ {"conflict", "blocked", "phase", "op", "desired", "rev"} :
             g'[f] = g[f]
        /\ HeadsetClient!Busy(g) => HeadsetClient!Busy(g')
        /\ g.phase = "deferred" => HeadsetClient!Busy(g') \/ g'.phase \in {"deferred", "idle"}
    BY <1>1, <2>1, DesireCalm
  <2>3. /\ g'.primed = g.primed /\ g'.flags = g.flags /\ g'.readback = g.readback
        /\ g'.seen = g.seen /\ g'.remote = g.remote /\ g'.submitted = g.submitted
        /\ g'.verified = g.verified /\ g'.history = g.history
    BY <2>2 DEF ClientFields
  <2>4. /\ Standing' /\ Sending' /\ Present' /\ Echoing' /\ Heard' /\ RemoteDialed' /\ Timed'
        /\ Latest' /\ (Trust' => Trust)
    BY <2>1, <2>2, <2>3, CalmStep
  <2>5. HeadTypes'
    BY <2>1, <2>2, <2>3 DEF Belief, HeadTypes, HeadsetClient!NoRemote
  <2>6. SeenTaken'
    BY <2>1, <2>2, <2>3, <2>4 DEF Belief, SeenTaken, Attends, HeadsetClient!NoRemote
  <2> QED
    BY <2>4, <2>5, <2>6 DEF Belief
<1>3. ASSUME HeadsetClient!PollDefer
      PROVE  Belief'
  <2>1. /\ g.phase = "queued" /\ g' = [g EXCEPT !.phase = "deferred"]
        /\ UNCHANGED <<rx, headset, echo, dialed, wire, sent, begun, master, missed>>
    BY <1>3 DEF HeadsetClient!PollDefer
  <2>2. /\ g'.phase = "deferred" /\ \A f \in ClientFields \ {"phase"} : g'[f] = g[f]
    BY <1>1, <2>1 DEF IsClient, ClientFields
  <2>3. Calm(g, g')
    BY <2>1, <2>2 DEF Calm, ClientFields, HeadsetClient!Active, HeadsetClient!Busy
  <2>4. /\ g'.primed = g.primed /\ g'.flags = g.flags /\ g'.readback = g.readback
        /\ g'.seen = g.seen /\ g'.remote = g.remote /\ g'.submitted = g.submitted
        /\ g'.desired = g.desired /\ g'.blocked = g.blocked
    BY <2>2 DEF ClientFields
  <2>5. /\ Standing' /\ Sending' /\ Present' /\ Echoing' /\ Heard' /\ RemoteDialed' /\ Timed'
        /\ Latest' /\ (Trust' => Trust)
    BY <2>1, <2>3, <2>4, CalmStep
  <2>6. HeadTypes'
    BY <2>1, <2>4 DEF Belief, HeadTypes, HeadsetClient!NoRemote
  <2>7. SeenTaken'
    BY <2>2 DEF SeenTaken, Attends
  <2> QED
    BY <2>5, <2>6, <2>7 DEF Belief
<1>4. ASSUME HeadsetClient!TakeRemote
      PROVE  Belief' /\ HeadsetClient!TakesDialed
  <2> DEFINE r == [g EXCEPT !.remote = HeadsetClient!NoRemote]
  <2>1. IsClient(r) /\ r.remote = HeadsetClient!NoRemote
        /\ \A f \in ClientFields \ {"remote"} : r[f] = g[f]
    BY <1>1 DEF IsClient, ClientFields
  <2>2. /\ g.online /\ g.remote # HeadsetClient!NoRemote
        /\ UNCHANGED <<rx, headset, echo, dialed, wire, sent, begun>>
        /\ \/ /\ master' = IF g.remote.level = master.level THEN master
                           ELSE [level |-> g.remote.level, rev |-> master.rev + 1]
              /\ g' = HeadsetClient!Desire(r, master'.level, master'.rev)
              /\ missed' = missed
           \/ g' = r /\ missed' = missed \cup {"refused"} /\ master' = master
    BY <1>4 DEF HeadsetClient!TakeRemote
  <2> HIDE DEF r
  <2>3. Calm(g, r) /\ r.flags = g.flags /\ r.readback = g.readback /\ r.seen = g.seen
        /\ r.primed = g.primed /\ r.blocked = g.blocked /\ r.submitted = g.submitted
        /\ r.desired = g.desired
    BY <2>1 DEF Calm, ClientFields, HeadsetClient!Active, HeadsetClient!Busy
  <2>4. CASE g' = r /\ missed' = missed \cup {"refused"} /\ master' = master
    <3>1. /\ Standing' /\ Sending' /\ Present' /\ Echoing' /\ Heard' /\ RemoteDialed' /\ Timed'
          /\ Latest' /\ (Trust' => Trust)
      BY <2>1, <2>2, <2>3, <2>4, CalmStep
    <3>2. HeadTypes'
      BY <2>1, <2>2, <2>3, <2>4 DEF Belief, HeadTypes
    <3>3. SeenTaken'
      BY <2>4 DEF SeenTaken
    <3> QED
      BY <2>4, <3>1, <3>2, <3>3 DEF Belief, HeadsetClient!TakesDialed
  <2>5. CASE /\ master' = IF g.remote.level = master.level THEN master
                          ELSE [level |-> g.remote.level, rev |-> master.rev + 1]
             /\ g' = HeadsetClient!Desire(r, master'.level, master'.rev)
             /\ missed' = missed
    <3>1. master'.level = g.remote.level
      BY <2>5
    <3>2. /\ IsClient(g') /\ Calm(r, g') /\ g'.desired = g.remote.level
          /\ (g'.blocked => r.blocked)
          /\ \A f \in ClientFields \ {"conflict", "blocked", "phase", "op", "desired", "rev"} :
               g'[f] = r[f]
          /\ HeadsetClient!Busy(r) => HeadsetClient!Busy(g')
          /\ r.phase = "deferred" => HeadsetClient!Busy(g') \/ g'.phase \in {"deferred", "idle"}
          /\ r.have /\ ~r.blocked /\ ~r.cancel /\ r.online /\ r.link = "up" =>
               HeadsetClient!Busy(g') \/ g'.phase = "deferred" \/ g.remote.level = r.verified
      <4> DEFINE k == g.remote.level
                 n == master'.rev
      <4>1. g' = HeadsetClient!Desire(r, k, n)
        BY <2>5, <3>1
      <4> HIDE DEF k, n
      <4>2. /\ IsClient(g') /\ Calm(r, g') /\ g'.desired = k
            /\ (g'.blocked => r.blocked)
            /\ \A f \in ClientFields \ {"conflict", "blocked", "phase", "op", "desired", "rev"} :
                 g'[f] = r[f]
            /\ HeadsetClient!Busy(r) => HeadsetClient!Busy(g')
            /\ r.phase = "deferred" => HeadsetClient!Busy(g') \/ g'.phase \in {"deferred", "idle"}
            /\ r.have /\ ~r.blocked /\ ~r.cancel /\ r.online /\ r.link = "up" =>
                 HeadsetClient!Busy(g') \/ g'.phase = "deferred" \/ k = r.verified
        BY <2>1, <4>1, DesireCalm
      <4> QED
        BY <4>2 DEF k
    <3>3. /\ g'.primed = g.primed /\ g'.flags = g.flags /\ g'.readback = g.readback
          /\ g'.seen = g.seen /\ g'.remote = HeadsetClient!NoRemote
          /\ g'.submitted = g.submitted /\ g'.verified = g.verified /\ g'.history = g.history
      BY <2>1, <2>3, <3>2 DEF ClientFields
    <3>4. Calm(g, g') /\ (g'.blocked => g.blocked)
      BY <2>3, <3>2, CalmTwice
    <3>5. /\ Standing' /\ Sending' /\ Present' /\ Echoing' /\ Heard' /\ RemoteDialed' /\ Timed'
          /\ Latest' /\ (Trust' => Trust)
      BY <2>2, <2>5, <3>3, <3>4, CalmStep
    <3>6. HeadTypes'
      BY <2>2, <2>5, <3>2, <3>3 DEF Belief, HeadTypes
    <3>7. SeenTaken'
      <4> SUFFICES ASSUME Trust', Whole(rx)', missed' \cap {"refused", "dropped"} = {}
                   PROVE  Attends(g)'
        BY DEF SeenTaken
      <4>1. Trust /\ Whole(rx) /\ Attends(g)
        BY <2>2, <2>5, <3>5 DEF Belief, SeenTaken
      <4>2. r.have /\ ~r.blocked /\ ~r.cancel /\ r.online /\ r.link = "up"
        BY <2>1, <4>1 DEF Trust, Belief, Standing, ClientFields
      <4>3. HeadsetClient!Busy(g') \/ g'.phase = "deferred" \/ g.remote.level = g.verified
        BY <2>1, <3>2, <4>2 DEF ClientFields
      <4>4. HeadsetClient!Busy(g) \/ g.phase = "deferred" =>
              HeadsetClient!Busy(g') \/ g'.phase = "deferred" \/ g.remote.level = g.verified
        BY <4>3
      <4>5. CASE HeadsetClient!Busy(g') \/ g'.phase = "deferred"
        BY <4>5 DEF Attends
      <4>6. CASE ~(HeadsetClient!Busy(g') \/ g'.phase = "deferred")
        <5>1. ~(HeadsetClient!Busy(g) \/ g.phase = "deferred")
          <6>1. HeadsetClient!Busy(r) <=> HeadsetClient!Busy(g)
            BY <2>1 DEF HeadsetClient!Busy, ClientFields
          <6>2. g.remote.level # g.verified
            BY <2>2 DEF Belief, RemoteDialed
          <6> QED
            BY <4>3, <4>6, <6>1, <6>2
        <5> QED
          BY <3>3, <4>1, <4>3, <4>6, <5>1 DEF Attends
      <4> QED
        BY <4>5, <4>6
    <3>8. HeadsetClient!TakesDialed
      BY <2>2, <3>1 DEF HeadsetClient!TakesDialed, Belief, RemoteDialed
    <3> QED
      BY <3>5, <3>6, <3>7, <3>8 DEF Belief
  <2> QED
    BY <2>2, <2>4, <2>5
<1> QED
  BY <1>2, <1>3, <1>4


\* A write begins, is sent, has left and is read back.
LEMMA BelievePolls ==
  ASSUME HeadInv, Belief
  PROVE  /\ HeadsetClient!PollStart => Belief'
         /\ HeadsetClient!PollSend => Belief'
         /\ HeadsetClient!PollDrain => Belief'
         /\ HeadsetClient!PollRead => Belief'
<1> USE DEF HeadsetClient!still, HeadsetClient!worldVars, HeadsetClient!boundVars,
            HeadsetClient!lineVars, HeadsetClient!peerVars
<1>1. IsClient(g)
  BY DEF HeadInv
<1>2. ASSUME HeadsetClient!PollStart
      PROVE  Belief'
  <2> DEFINE i == [g EXCEPT !.phase = "idle"]
             q == IF g.phase = "deferred" THEN HeadsetClient!Queue(i)
                  ELSE [g EXCEPT !.op = IF g.primed THEN 1 ELSE 0]
             s == [q EXCEPT !.submitted = g.desired, !.srev = g.rev]
  <2>1. /\ g.online /\ g.remote = HeadsetClient!NoRemote
        /\ g.phase \in {"queued", "deferred"} /\ wire = {} /\ begun = HeadsetClient!NoFrame
        /\ g.link = "up" /\ ~g.yielding /\ ~g.blocked /\ ~g.cancel
        /\ UNCHANGED <<rx, headset, echo, dialed, wire, begun, master>>
    BY <1>2 DEF HeadsetClient!PollStart, HeadsetClient!Polled, HeadsetClient!Waiting,
      HeadsetClient!Boundary, HeadsetClient!Drained
  <2>2. \/ /\ q.phase = "queued" /\ g' = HeadsetClient!Prepare(s, q.op)
           /\ IF q.op = 1 THEN missed' = missed \cap {"link"} ELSE missed' = missed
        \/ q.phase = "idle" /\ g' = q /\ missed' = missed \cup {"dropped"}
    BY <1>2 DEF HeadsetClient!PollStart
  <2>3. IsClient(i) /\ i.phase = "idle" /\ \A f \in ClientFields \ {"phase"} : i[f] = g[f]
    BY <1>1 DEF IsClient, ClientFields
  <2>4. /\ IsClient(q) /\ \A f \in ClientFields \ {"phase", "op"} : q[f] = g[f]
        /\ q.phase = "queued" => q.op = IF g.primed THEN 1 ELSE 0
    <3>1. CASE g.phase = "deferred"
      <4>1. q = HeadsetClient!Queue(i)
        BY <3>1
      <4>2. q = i \/ q = [i EXCEPT !.phase = "queued", !.op = IF i.primed THEN 1 ELSE 0]
        BY <4>1 DEF HeadsetClient!Queue
      <4> HIDE DEF q, i
      <4>3. CASE q = i
        BY <2>3, <4>3
      <4>4. CASE q = [i EXCEPT !.phase = "queued", !.op = IF i.primed THEN 1 ELSE 0]
        BY <2>3, <4>4 DEF IsClient, ClientFields
      <4> QED
        BY <4>2, <4>3, <4>4
    <3>2. CASE g.phase # "deferred"
      BY <1>1, <3>2 DEF IsClient, ClientFields
    <3> QED
      BY <3>1, <3>2
  <2> HIDE DEF q, i
  <2>5. IsClient(s) /\ s.submitted = g.desired
        /\ \A f \in ClientFields \ {"submitted", "srev"} : s[f] = q[f]
    BY <2>4 DEF IsClient, ClientFields
  <2> HIDE DEF s
  <2>6. CASE /\ q.phase = "queued" /\ g' = HeadsetClient!Prepare(s, q.op)
             /\ IF q.op = 1 THEN missed' = missed \cap {"link"} ELSE missed' = missed
    <3>1. IsClient(g') /\ g'.phase = "send" /\ g'.op = q.op /\ g'.flags = {}
          /\ \A f \in ClientFields \ {"phase", "op", "flags", "readback"} : g'[f] = s[f]
      BY <2>5, <2>6 DEF IsClient, ClientFields, HeadsetClient!Prepare
    <3>2. /\ g'.submitted = g.desired /\ g'.op = IF g.primed THEN 1 ELSE 0
          /\ \A f \in ClientFields \ {"phase", "op", "flags", "readback", "submitted", "srev"} :
               g'[f] = g[f]
      BY <2>4, <2>5, <2>6, <3>1 DEF ClientFields
    <3>3. /\ g'.have = g.have /\ g'.cancel = g.cancel /\ g'.link = g.link /\ g'.online = g.online
          /\ g'.yielding = g.yielding /\ g'.verified = g.verified /\ g'.desired = g.desired
          /\ g'.history = g.history /\ g'.remote = g.remote /\ g'.seen = g.seen
          /\ g'.primed = g.primed /\ g'.blocked = g.blocked
      BY <3>2 DEF ClientFields
    <3>4. HeadsetClient!Active(g') /\ HeadsetClient!Busy(g') /\ ~HeadsetClient!Active(g)
      BY <2>1, <3>1 DEF HeadsetClient!Active, HeadsetClient!Busy
    <3>5. HeadTypes'
      BY <2>1, <3>2, <3>3 DEF Belief, HeadTypes, HeadsetClient!NoRemote
    <3>6. Standing'
      BY <2>1, <3>1, <3>2, <3>3, <3>4 DEF Belief, Standing
    <3>7. Sending' /\ Echoing' /\ RemoteDialed'
      BY <2>1, <3>3 DEF Belief, Sending, Echoing, RemoteDialed, HeadsetClient!NoRemote
    <3>8. Present'
      BY <2>1, <2>6, <3>3 DEF Belief, Present
    <3>9. Timed'
      BY <2>1, <3>1 DEF Timed, HeadsetClient!NoFrame
    <3>10. Heard'
      <4>1. Known \subseteq Known'
        BY <2>1, <3>3, <3>4 DEF Known
      <4>2. Trust' => Trust
        BY <2>6, <3>3 DEF Trust
      <4>3. ~Tells(2)'
        BY <3>2 DEF Tells
      <4> QED
        BY <2>1, <3>1, <3>3, <4>1, <4>2, <4>3, StillHeard DEF Belief
    <3>11. Latest' /\ SeenTaken'
      BY <3>2, <3>4 DEF Latest, LastRead, LastTrusted, SeenTaken, Attends, Tells
    <3> QED
      BY <3>5, <3>6, <3>7, <3>8, <3>9, <3>10, <3>11 DEF Belief
  <2>7. CASE q.phase = "idle" /\ g' = q /\ missed' = missed \cup {"dropped"}
    <3>1. Calm(g, g')
      BY <2>1, <2>4, <2>7 DEF Calm, ClientFields, HeadsetClient!Active, HeadsetClient!Busy
    <3>2. /\ g'.primed = g.primed /\ g'.flags = g.flags /\ g'.readback = g.readback
          /\ g'.seen = g.seen /\ g'.remote = g.remote /\ g'.submitted = g.submitted
          /\ g'.desired = g.desired /\ g'.blocked = g.blocked
      BY <2>4, <2>7 DEF ClientFields
    <3>3. ~HeadsetClient!Active(g)
      BY <2>1 DEF HeadsetClient!Active, HeadsetClient!Busy
    <3>4. /\ Standing' /\ Sending' /\ Present' /\ Echoing' /\ Heard' /\ RemoteDialed' /\ Timed'
          /\ Latest' /\ (Trust' => Trust)
      BY <2>1, <2>7, <3>1, <3>2, <3>3, CalmStep
    <3>5. HeadTypes'
      BY <2>1, <3>2 DEF Belief, HeadTypes, HeadsetClient!NoRemote
    <3>6. SeenTaken'
      BY <2>7 DEF SeenTaken
    <3> QED
      BY <3>4, <3>5, <3>6 DEF Belief
  <2> QED
    BY <2>2, <2>6, <2>7
\* What a transaction goes on with by sending it.
<1>3. ASSUME g.phase \in {"send", "drain"}, g'.phase \in {"send", "drain", "wait"},
             \A f \in ClientFields \ {"phase"} : g'[f] = g[f],
             UNCHANGED <<rx, headset, echo, dialed, begun, master, missed>>,
             begun # HeadsetClient!NoFrame /\ sent = Bytes => sent' = Bytes,
             g'.op = 2 /\ "matched" \in g'.flags /\ sent = Bytes => sent' = Bytes,
             wire' # {} => g'.phase = "drain" /\ wire' = {[op |-> g.op, level |-> g.submitted]},
             g'.phase # "send" /\ wire' = {} => g.phase = "drain" /\ wire = {}
      PROVE  Belief'
  <2>1. /\ g'.have = g.have /\ g'.cancel = g.cancel /\ g'.link = g.link /\ g'.online = g.online
        /\ g'.yielding = g.yielding /\ g'.verified = g.verified /\ g'.desired = g.desired
        /\ g'.history = g.history /\ g'.remote = g.remote /\ g'.seen = g.seen
        /\ g'.primed = g.primed /\ g'.blocked = g.blocked /\ g'.op = g.op
        /\ g'.submitted = g.submitted /\ g'.flags = g.flags /\ g'.readback = g.readback
    BY <1>3 DEF ClientFields
  <2>2. HeadsetClient!Active(g') /\ HeadsetClient!Busy(g') /\ HeadsetClient!Active(g)
    BY <1>3 DEF HeadsetClient!Active, HeadsetClient!Busy
  <2>3. HeadTypes'
    BY <1>3, <2>1 DEF Belief, HeadTypes, HeadsetClient!NoRemote
  <2>4. Standing'
    BY <1>3, <2>1, <2>2 DEF Belief, Standing, HeadsetClient!NoRemote
  <2>5. Sending' /\ Present' /\ Echoing' /\ RemoteDialed'
    BY <1>3, <2>1 DEF Belief, Sending, Present, Echoing, RemoteDialed, HeadsetClient!NoRemote
  <2>6. Timed'
    BY <1>3, <2>1, <2>2 DEF Belief, Timed, HeadsetClient!NoFrame
  <2>7. Known \subseteq Known' /\ (Trust' => Trust) /\ \A o : Tells(o)' => Tells(o)
    BY <1>3, <2>1, <2>2 DEF Known, Trust, Tells
  <2>8. Heard'
    BY <1>3, <2>1, <2>7, StillHeard DEF Belief
  <2>9. Latest' /\ SeenTaken'
    BY <1>3, <2>1, <2>2, <2>7 DEF Belief, Latest, LastRead, LastTrusted, Told, SeenTaken, Attends
  <2> QED
    BY <2>3, <2>4, <2>5, <2>6, <2>8, <2>9 DEF Belief
<1>4. ASSUME HeadsetClient!PollSend
      PROVE  Belief'
  <2>1. /\ g.phase = "send" /\ UNCHANGED <<rx, headset, echo, dialed, begun, master, missed>>
        /\ g' = IF sent' = Bytes THEN [g EXCEPT !.phase = "drain"] ELSE g
    BY <1>4 DEF HeadsetClient!PollSend
  <2>2. PICK n \in 0..(Bytes - sent) :
          /\ sent' = sent + n
          /\ wire' = IF sent + n = Bytes THEN {[op |-> g.op, level |-> g.submitted]} ELSE wire
    BY <1>4 DEF HeadsetClient!PollSend, HeadsetClient!Push
  <2>3. sent = Bytes => sent' = Bytes
    <3>1. Bytes \in Nat
      BY UsersAssumption DEF HeadsetClient!HeadsetAssumption, HeadsetClient!ExchangeAssumption
    <3> QED
      BY <2>2, <3>1
  <2>4. /\ g'.phase = (IF sent' = Bytes THEN "drain" ELSE "send")
        /\ \A f \in ClientFields \ {"phase"} : g'[f] = g[f]
    BY <1>1, <2>1 DEF IsClient, ClientFields
  <2>5. wire = {}
    BY <2>1 DEF Belief, Sending
  <2>6. wire' = IF sent' = Bytes THEN {[op |-> g.op, level |-> g.submitted]} ELSE {}
    BY <2>2, <2>5
  <2> QED
    BY <1>3, <2>1, <2>3, <2>4, <2>6
<1>5. ASSUME HeadsetClient!PollDrain
      PROVE  Belief'
  <2>1. /\ g.phase = "drain" /\ g' = [g EXCEPT !.phase = "wait"] /\ wire = {}
        /\ UNCHANGED <<rx, headset, echo, dialed, begun, master, missed, sent, wire>>
    BY <1>5 DEF HeadsetClient!PollDrain, HeadsetClient!Drained
  <2>2. /\ g'.phase = "wait" /\ \A f \in ClientFields \ {"phase"} : g'[f] = g[f]
    BY <1>1, <2>1 DEF IsClient, ClientFields
  <2> QED
    BY <1>3, <2>1, <2>2
<1>6. ASSUME HeadsetClient!PollRead
      PROVE  Belief'
  <2>1. /\ g.online /\ g.remote = HeadsetClient!NoRemote /\ g.phase = "gap" /\ ~g.cancel
        /\ wire = {} /\ rx = <<>> /\ begun = HeadsetClient!NoFrame
        /\ g' = HeadsetClient!Prepare(g, 2)
        /\ UNCHANGED <<rx, headset, echo, dialed, begun, master, missed, wire>>
    BY <1>6 DEF HeadsetClient!PollRead, HeadsetClient!Polled, HeadsetClient!Boundary,
      HeadsetClient!Drained
  <2>2. /\ g'.phase = "send" /\ g'.op = 2 /\ g'.flags = {}
        /\ \A f \in ClientFields \ {"phase", "op", "flags", "readback"} : g'[f] = g[f]
    BY <1>1, <2>1 DEF IsClient, ClientFields, HeadsetClient!Prepare
  <2>3. /\ g'.have = g.have /\ g'.cancel = g.cancel /\ g'.link = g.link /\ g'.online = g.online
        /\ g'.yielding = g.yielding /\ g'.verified = g.verified /\ g'.desired = g.desired
        /\ g'.history = g.history /\ g'.remote = g.remote /\ g'.seen = g.seen
        /\ g'.primed = g.primed /\ g'.blocked = g.blocked /\ g'.submitted = g.submitted
    BY <2>2 DEF ClientFields
  <2>4. HeadsetClient!Active(g') /\ HeadsetClient!Busy(g') /\ HeadsetClient!Active(g)
    BY <2>1, <2>2 DEF HeadsetClient!Active, HeadsetClient!Busy
  <2>5. HeadTypes'
    BY <2>1, <2>3 DEF Belief, HeadTypes, HeadsetClient!NoRemote
  <2>6. Standing'
    <3>1. /\ g.op = 1 /\ g.link = "up" /\ g.primed /\ ~g.blocked /\ g.submitted \in g.history
          /\ g.remote = HeadsetClient!NoRemote /\ ~g.cancel /\ g.online /\ ~g.yielding
      BY <2>1, <2>4 DEF Belief, Standing
    <3> QED
      BY <2>2, <2>3, <2>4, <3>1 DEF Standing, HeadsetClient!NoRemote
  <2>7. Sending' /\ Present' /\ Echoing' /\ RemoteDialed'
    BY <2>1, <2>3 DEF Belief, Sending, Present, Echoing, RemoteDialed, HeadsetClient!NoRemote
  <2>8. Timed'
    BY <2>1, <2>2 DEF Timed, HeadsetClient!NoFrame
  <2>9. Known = Known' /\ (Trust' => Trust) /\ (Tells(2)' => Tells(1)) /\ ~Tells(1)'
    BY <2>1, <2>2, <2>3, <2>4 DEF Known, Trust, Tells, Belief, Standing
  <2>10. Trusted' /\ Writes'
    BY <2>1, <2>3, <2>9 DEF Belief, Heard, Trusted, Writes, Shows, EchoKnown, After
  <2>11. Reads'
    <3>1. Tells(2)' => EchoKnown'
      BY <2>1, <2>9 DEF Belief, Heard, Writes, EchoKnown
    <3>2. \A k \in 1..Len(rx') : FALSE
      BY <2>1
    <3> QED
      BY <2>2, <3>1, <3>2 DEF Reads, Answers
  <2>12. Latest' /\ SeenTaken'
    BY <2>1, <2>2, <2>4 DEF Latest, LastRead, LastTrusted, SeenTaken, Attends, Reports
  <2> QED
    BY <2>5, <2>6, <2>7, <2>8, <2>10, <2>11, <2>12 DEF Belief, Heard
<1> QED
  BY <1>2, <1>4, <1>5, <1>6


\* A transaction that is over without an end, and is believed nothing of.
LEMMA BelieveOver ==
  ASSUME Belief, g.phase \in {"wait", "gap"},
         UNCHANGED <<rx, headset, echo, dialed, master, missed, wire, begun, sent>>,
         ~HeadsetClient!Active(g'), g'.phase # "gap", ~g'.have \/ g'.cancel, g'.have => g.have,
         g'.have => g'.cancel = g.cancel /\ g'.yielding /\ (g'.blocked = g.blocked),
         g'.cancel => g'.yielding \/ g'.link = "down",
         \A f \in {"online", "yielding", "link", "remote", "submitted", "desired", "verified"} :
           g'[f] = g[f],
         g.primed => g'.primed
  PROVE  Belief'
<1>1. Doubts'
  BY DEF Doubts
<1>2. Heard' /\ Latest' /\ SeenTaken'
  BY <1>1, DoubtsAll
<1>3. HeadTypes'
  BY DEF Belief, HeadTypes, HeadsetClient!NoRemote
<1>4. Standing'
  BY DEF Belief, Standing, HeadsetClient!NoRemote
<1>5. Sending' /\ Present' /\ Echoing' /\ RemoteDialed'
  BY DEF Belief, Sending, Present, Echoing, RemoteDialed, HeadsetClient!NoRemote
<1>6. Timed'
  BY DEF Belief, Timed, HeadsetClient!NoFrame
<1> QED
  BY <1>2, <1>3, <1>4, <1>5, <1>6 DEF Belief

\* What was read back is believed.
LEMMA BelieveBack ==
  ASSUME HeadInv, Belief, g.phase = "wait", ~g.cancel, g.op = 2, "matched" \in g.flags,
         g.remote = HeadsetClient!NoRemote, g' = HeadsetClient!ReadBack(g),
         UNCHANGED <<rx, headset, echo, dialed, master, missed, wire, begun, sent>>
  PROVE  Belief'
<1> DEFINE v == HeadsetClient!Verified(g)
           lost == g.readback \notin {g.submitted, g.desired} /\ g.rev = g.srev
           c == [v EXCEPT !.conflict = @ \/ lost]
           d == [c EXCEPT !.phase = "done"]
<1>1. IsClient(g) /\ HeadsetClient!Active(g) /\ wire = {}
  BY DEF HeadInv, HeadsetClient!Active, HeadsetClient!Busy, Belief, Sending
<1>2. /\ g.online /\ g.link = "up" /\ ~g.blocked /\ g.primed /\ g.submitted \in g.history
      /\ ~g.yielding
  BY <1>1 DEF Belief, Standing
<1>3. /\ IsClient(v) /\ v.verified = g.readback
      /\ \A f \in ClientFields \ {"verified", "have"} : v[f] = g[f]
  BY <1>1 DEF IsClient, ClientFields, HeadsetClient!Verified
<1>4. \/ g' = HeadsetClient!Finish(v, "conflict")
      \/ g' = HeadsetClient!Queue(HeadsetClient!Finish(c, "done"))
  BY DEF HeadsetClient!ReadBack
<1>5. HeadsetClient!Finish(c, "done") = d
  BY DEF HeadsetClient!Finish
<1> HIDE DEF v, lost
<1>6. IsClient(c) /\ \A f \in ClientFields \ {"conflict"} : c[f] = v[f]
  BY <1>3 DEF IsClient, ClientFields
<1> HIDE DEF c
<1>7. IsClient(d) /\ d.phase = "done" /\ \A f \in ClientFields \ {"phase"} : d[f] = c[f]
  BY <1>6 DEF IsClient, ClientFields
<1> HIDE DEF d
<1>8. CASE g' = HeadsetClient!Finish(v, "conflict")
  <2>1. /\ g'.phase = "conflict" /\ ~g'.have /\ ~HeadsetClient!Active(g')
        /\ \A f \in ClientFields \ {"phase", "blocked", "have"} : g'[f] = v[f]
    BY <1>3, <1>8, FinishFails
  <2>2. /\ g'.online = g.online /\ g'.yielding = g.yielding /\ g'.link = g.link
        /\ g'.remote = g.remote /\ g'.submitted = g.submitted /\ g'.desired = g.desired
        /\ g'.primed = g.primed /\ g'.cancel = g.cancel
    BY <1>3, <2>1 DEF ClientFields
  <2>3. HeadTypes'
    BY <2>2 DEF Belief, HeadTypes, HeadsetClient!NoRemote
  <2>4. Standing'
    BY <1>2, <2>1, <2>2 DEF Standing, HeadsetClient!NoRemote
  <2>5. Sending' /\ Present' /\ Echoing' /\ RemoteDialed'
    BY <1>1, <2>2 DEF Belief, Sending, Present, Echoing, RemoteDialed, HeadsetClient!NoRemote
  <2>6. Timed'
    BY <2>1 DEF Belief, Timed, HeadsetClient!NoFrame
  <2>7. Doubts'
    BY <2>1 DEF Doubts
  <2> QED
    BY <2>3, <2>4, <2>5, <2>6, <2>7, DoubtsAll DEF Belief
<1>9. CASE g' = HeadsetClient!Queue(HeadsetClient!Finish(c, "done"))
  <2>1. /\ Calm(d, g') /\ \A f \in ClientFields \ {"phase", "op"} : g'[f] = d[f]
        /\ g'.phase \in {"done", "queued"}
    BY <1>5, <1>7, <1>9, QueueCalm
  <2>2. /\ g'.online = g.online /\ g'.yielding = g.yielding /\ g'.link = g.link
        /\ g'.remote = g.remote /\ g'.submitted = g.submitted /\ g'.desired = g.desired
        /\ g'.primed = g.primed /\ g'.cancel = g.cancel /\ g'.history = g.history
        /\ g'.seen = g.seen /\ g'.blocked = g.blocked /\ g'.verified = g.readback
    BY <1>3, <1>6, <1>7, <2>1 DEF ClientFields
  <2>3. ~HeadsetClient!Active(g')
    BY <2>1 DEF HeadsetClient!Active, HeadsetClient!Busy
  <2>4. HeadTypes'
    BY <2>2 DEF Belief, HeadTypes, HeadsetClient!NoRemote
  <2>5. Standing'
    BY <1>2, <2>1, <2>2, <2>3 DEF Standing, HeadsetClient!NoRemote
  <2>6. Sending' /\ Present' /\ Echoing' /\ RemoteDialed'
    BY <1>1, <2>2 DEF Belief, Sending, Present, Echoing, RemoteDialed, HeadsetClient!NoRemote
  <2>7. Timed'
    BY <2>3 DEF Belief, Timed, HeadsetClient!NoFrame
  <2>8. Trust' => Tells(2)
    BY <1>1 DEF Trust, Tells
  <2>9. Known' = Known
    BY <1>1, <1>2, <2>2, <2>3 DEF Known
  <2>10. Trusted'
    BY <2>2, <2>8, <2>9 DEF Belief, Heard, Reads, Answers, Trusted, Shows, EchoKnown
  <2>11. Reads' /\ Writes'
    BY <2>3 DEF Reads, Writes, Tells
  <2>12. LastRead'
    BY <2>3 DEF LastRead, Tells
  <2>13. LastTrusted'
    BY <2>2, <2>8 DEF Belief, Latest, LastRead, LastTrusted, Told
  <2>14. SeenTaken'
    <3>1. g.readback = g.seen
      BY <1>1 DEF Belief, Timed
    <3> QED
      BY <2>2, <3>1 DEF SeenTaken, Attends
  <2> QED
    BY <2>4, <2>5, <2>6, <2>7, <2>10, <2>11, <2>12, <2>13, <2>14 DEF Belief, Heard, Latest
<1> QED
  BY <1>4, <1>8, <1>9

\* The answer, or none.
LEMMA BelieveWait ==
  ASSUME HeadInv, Belief
  PROVE  /\ HeadsetClient!PollWait => Belief'
         /\ HeadsetClient!PollGap => Belief'
         /\ HeadsetClient!PollTimeout => Belief'
<1> USE DEF HeadsetClient!still, HeadsetClient!worldVars, HeadsetClient!boundVars,
            HeadsetClient!lineVars
<1>1. IsClient(g)
  BY DEF HeadInv
<1>2. ASSUME g.phase \in {"wait", "gap"}, g.cancel, g' = HeadsetClient!Finish(g, "cancelled"),
             UNCHANGED <<rx, headset, echo, dialed, master, missed, wire, begun, sent>>
      PROVE  Belief'
  <2>1. /\ g'.phase \in {"cancelled", "queued"} /\ ~HeadsetClient!Active(g')
        /\ \A f \in ClientFields \ {"phase", "op", "cancel"} : g'[f] = g[f]
        /\ IF g.yielding \/ g.link # "up" THEN g'.cancel = g.cancel ELSE g'.cancel = FALSE
    BY <1>1, <1>2, FinishCancels
  <2>2. /\ g'.online = g.online /\ g'.yielding = g.yielding /\ g'.link = g.link
        /\ g'.remote = g.remote /\ g'.submitted = g.submitted /\ g'.desired = g.desired
        /\ g'.verified = g.verified /\ g'.primed = g.primed /\ g'.have = g.have
        /\ g'.blocked = g.blocked
    BY <2>1 DEF ClientFields
  <2>3. HeadsetClient!Active(g)
    BY <1>2 DEF HeadsetClient!Active, HeadsetClient!Busy
  <2>4. /\ g.link \in {"up", "down"} /\ (g.have => g.yielding) /\ (g.have => g.link = "up")
    BY <1>2, <2>3 DEF Belief, Standing
  <2>5. /\ ~g'.have \/ g'.cancel
        /\ g'.have => g'.cancel = g.cancel /\ g'.yielding
        /\ g'.cancel => g'.yielding \/ g'.link = "down"
    BY <1>2, <2>1, <2>2, <2>4
  <2> QED
    BY <1>2, <2>1, <2>2, <2>5, BelieveOver
<1>3. ASSUME g.phase \in {"wait", "gap"}, ~g.cancel, NEW p \in {"timeout", "nack", "invalid"},
             g' = HeadsetClient!Finish(g, p),
             UNCHANGED <<rx, headset, echo, dialed, master, missed, wire, begun, sent>>
      PROVE  Belief'
  <2>1. /\ g'.phase = p /\ ~HeadsetClient!Active(g') /\ ~g'.have
        /\ \A f \in ClientFields \ {"phase", "blocked", "have"} : g'[f] = g[f]
    BY <1>1, <1>3, FinishFails
  <2>2. /\ g'.online = g.online /\ g'.yielding = g.yielding /\ g'.link = g.link
        /\ g'.remote = g.remote /\ g'.submitted = g.submitted /\ g'.desired = g.desired
        /\ g'.verified = g.verified /\ g'.primed = g.primed /\ g'.cancel = g.cancel
    BY <2>1 DEF ClientFields
  <2> QED
    BY <1>3, <2>1, <2>2, BelieveOver
<1>4. ASSUME HeadsetClient!PollWait
      PROVE  Belief'
  <2>1. /\ g.phase = "wait" /\ g.remote = HeadsetClient!NoRemote
        /\ UNCHANGED <<rx, headset, echo, dialed, master, missed, wire, begun, sent>>
    BY <1>4 DEF HeadsetClient!PollWait, HeadsetClient!Polled
  <2>2. \/ g.cancel /\ g' = HeadsetClient!Finish(g, "cancelled")
        \/ ~g.cancel /\ g' = HeadsetClient!Finish(g, "nack")
        \/ ~g.cancel /\ g' = HeadsetClient!Finish(g, "invalid")
        \/ /\ ~g.cancel /\ g.op = 0
           /\ g' = HeadsetClient!Queue([g EXCEPT !.primed = TRUE, !.phase = "idle"])
        \/ /\ ~g.cancel /\ g.op = 1
           /\ g' = [g EXCEPT !.history = @ \cup {g.submitted}, !.phase = "gap"]
        \/ ~g.cancel /\ g.op = 2 /\ "matched" \in g.flags /\ g' = HeadsetClient!ReadBack(g)
    BY <1>4 DEF HeadsetClient!PollWait
  <2>3. HeadsetClient!Active(g) /\ wire = {}
    BY <2>1 DEF HeadsetClient!Active, HeadsetClient!Busy, Belief, Sending
  <2>4. CASE /\ ~g.cancel /\ g.op = 0
             /\ g' = HeadsetClient!Queue([g EXCEPT !.primed = TRUE, !.phase = "idle"])
    <3> DEFINE i == [g EXCEPT !.primed = TRUE, !.phase = "idle"]
    <3>1. IsClient(i) /\ i.primed = TRUE /\ i.phase = "idle"
          /\ \A f \in ClientFields \ {"primed", "phase"} : i[f] = g[f]
      BY <1>1 DEF IsClient, ClientFields
    <3>2. g' = HeadsetClient!Queue(i)
      BY <2>4
    <3> HIDE DEF i
    <3>3. /\ \A f \in ClientFields \ {"phase", "op"} : g'[f] = i[f]
          /\ g'.phase \in {"idle", "queued"}
      BY <3>1, <3>2, QueueCalm
    <3>4. /\ g'.online = g.online /\ g'.yielding = g.yielding /\ g'.link = g.link
          /\ g'.remote = g.remote /\ g'.submitted = g.submitted /\ g'.desired = g.desired
          /\ g'.verified = g.verified /\ g'.primed = TRUE /\ g'.have = g.have
          /\ g'.cancel = g.cancel
      BY <3>1, <3>3 DEF ClientFields
    <3>5. ~g.have
      BY <2>3, <2>4 DEF Belief, Standing
    <3>6. ~HeadsetClient!Active(g')
      BY <3>3 DEF HeadsetClient!Active, HeadsetClient!Busy
    <3> QED
      BY <2>1, <2>4, <3>3, <3>4, <3>5, <3>6, BelieveOver
  <2>5. CASE /\ ~g.cancel /\ g.op = 1
             /\ g' = [g EXCEPT !.history = @ \cup {g.submitted}, !.phase = "gap"]
    <3>1. /\ g'.phase = "gap" /\ g'.history = g.history \cup {g.submitted}
          /\ \A f \in ClientFields \ {"history", "phase"} : g'[f] = g[f]
      BY <1>1, <2>5 DEF IsClient, ClientFields
    <3>2. /\ g'.have = g.have /\ g'.cancel = g.cancel /\ g'.link = g.link /\ g'.online = g.online
          /\ g'.yielding = g.yielding /\ g'.verified = g.verified /\ g'.desired = g.desired
          /\ g'.remote = g.remote /\ g'.seen = g.seen /\ g'.op = g.op /\ g'.flags = g.flags
          /\ g'.primed = g.primed /\ g'.blocked = g.blocked /\ g'.submitted = g.submitted
      BY <3>1 DEF ClientFields
    <3>3. HeadsetClient!Active(g') /\ HeadsetClient!Busy(g')
      BY <3>1 DEF HeadsetClient!Active, HeadsetClient!Busy
    <3>4. HeadTypes'
      BY <2>1, <3>2 DEF Belief, HeadTypes, HeadsetClient!NoRemote
    <3>5. Standing'
      <4>1. /\ g.online /\ g.link = "up" /\ g.primed /\ ~g.blocked
            /\ g.yielding /\ (g.have \/ HeadsetClient!Active(g)) => g.cancel
        BY <2>3, <2>5 DEF Belief, Standing
      <4> QED
        BY <2>1, <2>3, <2>5, <3>1, <3>2, <3>3, <4>1 DEF Standing, HeadsetClient!NoRemote
    <3>6. Sending' /\ Present' /\ Echoing' /\ RemoteDialed'
      BY <2>1, <2>3, <3>2 DEF Belief, Sending, Present, Echoing, RemoteDialed,
        HeadsetClient!NoRemote
    <3>7. Timed'
      BY <2>1, <2>5, <3>2 DEF Belief, Timed, HeadsetClient!NoFrame
    <3>8. Known \subseteq Known' /\ (Trust' => Trust) /\ (Tells(1)' => Tells(1)) /\ ~Tells(2)'
      BY <2>1, <2>3, <2>5, <3>1, <3>2, <3>3 DEF Known, Trust, Tells
    <3>9. Heard'
      BY <2>1, <3>2, <3>8, StillHeard DEF Belief
    <3>10. Latest' /\ SeenTaken'
      BY <3>3, <3>8 DEF Latest, LastRead, LastTrusted, SeenTaken, Attends
    <3> QED
      BY <3>4, <3>5, <3>6, <3>7, <3>9, <3>10 DEF Belief
  <2> QED
    BY <1>2, <1>3, <2>1, <2>2, <2>4, <2>5, BelieveBack
<1>5. ASSUME HeadsetClient!PollGap
      PROVE  Belief'
  BY <1>2, <1>5 DEF HeadsetClient!PollGap
<1>6. ASSUME HeadsetClient!PollTimeout
      PROVE  Belief'
  BY <1>3, <1>6 DEF HeadsetClient!PollTimeout
<1> QED
  BY <1>4, <1>5, <1>6


\* The port is opened, closed or asked for.
LEMMA BelievePort ==
  ASSUME HeadInv, Belief
  PROVE  /\ HeadsetClient!Acquire => Belief'
         /\ HeadsetClient!PortFails => Belief'
         /\ HeadsetClient!Yield => Belief'
         /\ HeadsetClient!Release => Belief'
<1> USE DEF HeadsetClient!still, HeadsetClient!worldVars, HeadsetClient!lineVars
<1>1. IsClient(g)
  BY DEF HeadInv
<1>2. ASSUME HeadsetClient!Acquire
      PROVE  Belief'
  <2> DEFINE o == [g EXCEPT !.online = TRUE, !.op = 0]
  <2>1. IsClient(o) /\ o.online /\ \A f \in ClientFields \ {"online", "op"} : o[f] = g[f]
    BY <1>1 DEF IsClient, ClientFields
  <2>2. /\ ~g.online /\ g' = HeadsetClient!Queue(o)
        /\ UNCHANGED <<rx, headset, echo, dialed, wire, sent, begun, master, missed>>
    BY <1>2 DEF HeadsetClient!Acquire
  <2> HIDE DEF o
  <2>3. /\ \A f \in ClientFields \ {"phase", "op"} : g'[f] = o[f]
        /\ HeadsetClient!Active(g') <=> HeadsetClient!Active(o)
    BY <2>1, <2>2, QueueCalm DEF Calm
  <2>4. HeadsetClient!Active(o) <=> HeadsetClient!Active(g)
    BY <2>1 DEF ClientFields, HeadsetClient!Active, HeadsetClient!Busy
  <2>5. ~HeadsetClient!Active(g) /\ ~HeadsetClient!Active(g') /\ ~g.have /\ wire = {}
    BY <2>2, <2>3, <2>4 DEF Belief, Standing, Sending, HeadsetClient!Active, HeadsetClient!Busy
  <2>6. /\ g'.online /\ g'.yielding = g.yielding /\ g'.link = g.link
        /\ g'.remote = g.remote /\ g'.submitted = g.submitted /\ g'.desired = g.desired
        /\ g'.verified = g.verified /\ g'.cancel = g.cancel /\ g'.have = g.have
    BY <2>1, <2>3 DEF ClientFields
  <2>7. HeadTypes'
    BY <2>2, <2>6 DEF Belief, HeadTypes, HeadsetClient!NoRemote
  <2>8. g'.phase # "gap"
    BY <2>5 DEF HeadsetClient!Active, HeadsetClient!Busy
  <2>9. Standing'
    BY <2>5, <2>6, <2>8 DEF Belief, Standing, HeadsetClient!NoRemote
  <2>10. Sending' /\ Present' /\ Echoing' /\ RemoteDialed' /\ Timed'
    BY <2>2, <2>5, <2>6 DEF Belief, Sending, Present, Echoing, RemoteDialed, Timed,
      HeadsetClient!NoRemote, HeadsetClient!NoFrame
  <2>11. Doubts'
    BY <2>5, <2>6 DEF Doubts
  <2> QED
    BY <2>7, <2>9, <2>10, <2>11, DoubtsAll DEF Belief
<1>3. ASSUME HeadsetClient!CloseUart
      PROVE  Belief'
  <2>1. /\ g' = HeadsetClient!Released(g) /\ begun' = HeadsetClient!NoFrame /\ echo' = {}
        /\ rx' = <<>> /\ wire' = {} /\ UNCHANGED <<headset, master, dialed>>
    BY <1>3 DEF HeadsetClient!CloseUart, HeadsetClient!Reset
  <2>2. /\ g'.phase = "idle" /\ ~g'.have /\ g'.remote = HeadsetClient!NoRemote
        /\ g'.link = "unknown" /\ ~g'.cancel
        /\ \A f \in {"submitted", "desired"} : g'[f] = g[f]
    BY <1>1, <2>1 DEF IsClient, ClientFields, HeadsetClient!Released
  <2>3. ~HeadsetClient!Active(g')
    BY <2>2 DEF HeadsetClient!Active, HeadsetClient!Busy
  <2>4. HeadTypes'
    BY <2>1, <2>2 DEF Belief, HeadTypes
  <2>5. Standing'
    BY <2>2, <2>3 DEF Standing
  <2>6. Sending' /\ Present' /\ Echoing' /\ RemoteDialed' /\ Timed'
    BY <2>1, <2>2, <2>3 DEF Sending, Present, Echoing, RemoteDialed, Timed
  <2>7. Doubts'
    BY <2>2, <2>3 DEF Doubts
  <2> QED
    BY <2>4, <2>5, <2>6, <2>7, DoubtsAll DEF Belief
<1>4. ASSUME HeadsetClient!Yield
      PROVE  Belief'
  <2> DEFINE y == [g EXCEPT !.cancel = TRUE, !.yielding = TRUE, !.remote = HeadsetClient!NoRemote]
             e == [y EXCEPT !.phase = "cancelled"]
  <2>1. IsClient(y) /\ y.cancel /\ y.yielding /\ y.remote = HeadsetClient!NoRemote
        /\ \A f \in ClientFields \ {"cancel", "yielding", "remote"} : y[f] = g[f]
    BY <1>1 DEF IsClient, ClientFields
  <2>2. e.phase = "cancelled" /\ \A f \in ClientFields \ {"phase"} : e[f] = y[f]
    BY <2>1 DEF IsClient, ClientFields
  <2>3. HeadsetClient!Finish(y, "cancelled") = e
    BY <1>1 DEF HeadsetClient!Finish, IsClient, ClientFields
  <2>4. UNCHANGED <<rx, headset, echo, dialed, wire, sent, begun, master, missed>>
    BY <1>4 DEF HeadsetClient!Yield
  <2>12. g' = IF g.phase \in {"queued", "deferred", "gap"} \/ (g.phase = "send" /\ sent = 0)
             THEN e ELSE y
    BY <1>4, <2>3 DEF HeadsetClient!Yield
  <2> HIDE DEF y, e
  <2>5. /\ \A f \in ClientFields \ {"cancel", "yielding", "remote", "phase"} : g'[f] = g[f]
        /\ g'.cancel /\ g'.yielding /\ g'.remote = HeadsetClient!NoRemote
        /\ g'.phase # "gap" /\ (g.phase = "drain" => g'.phase = "drain")
        /\ HeadsetClient!Active(g') => HeadsetClient!Active(g)
    BY <2>1, <2>2, <2>12 DEF ClientFields, HeadsetClient!Active, HeadsetClient!Busy
  <2>6. /\ g'.online = g.online /\ g'.link = g.link /\ g'.submitted = g.submitted
        /\ g'.desired = g.desired /\ g'.verified = g.verified /\ g'.have = g.have
        /\ g'.primed = g.primed /\ g'.blocked = g.blocked /\ g'.op = g.op
        /\ g'.flags = g.flags /\ g'.readback = g.readback /\ g'.seen = g.seen
    BY <2>5 DEF ClientFields
  <2>7. HeadTypes'
    BY <2>4, <2>5, <2>6 DEF Belief, HeadTypes
  <2>8. Standing'
    BY <2>5, <2>6 DEF Belief, Standing
  <2>9. Sending' /\ Present' /\ Echoing' /\ RemoteDialed'
    BY <2>4, <2>5, <2>6 DEF Belief, Sending, Present, Echoing, RemoteDialed
  <2>10. Timed'
    BY <2>4, <2>5, <2>6 DEF Belief, Timed, HeadsetClient!NoFrame
  <2>11. Doubts'
    BY <2>5 DEF Doubts
  <2> QED
    BY <2>7, <2>8, <2>9, <2>10, <2>11, DoubtsAll DEF Belief
<1> QED
  BY <1>2, <1>3, <1>4 DEF HeadsetClient!PortFails, HeadsetClient!Release


\* Nothing that is said of the client changes.
LEMMA BelieveSame ==
  ASSUME Belief, UNCHANGED <<g, rx, headset, echo, dialed, wire, missed>>, HeadTypes', Timed'
  PROVE  Belief'
<1>1. Standing' /\ Sending' /\ Present' /\ Echoing' /\ RemoteDialed'
  BY DEF Belief, Standing, Sending, Present, Echoing, RemoteDialed, HeadsetClient!NoRemote
<1>2. Heard'
  BY StillHeard DEF Belief, Known, Trust, Tells
<1>3. Latest' /\ SeenTaken'
  BY DEF Belief, Latest, LastRead, LastTrusted, SeenTaken, Trust, Tells, Told, Attends,
    HeadsetClient!NoRemote
<1> QED
  BY <1>1, <1>2, <1>3 DEF Belief

\* What the frames behind the one that is read say of the link.
LEMMA PresentTail ==
  ASSUME Present, rx \in Seq(HeadFrame), rx # <<>>, rx' = Tail(rx), UNCHANGED headset,
         g'.link = "up" /\ "link" \notin missed' =>
           \/ rx[1].kind = "link" /\ rx[1].up
           \/ rx[1].kind # "link" /\ g.link = "up" /\ "link" \notin missed
  PROVE  Present'
<1>1. /\ Len(rx') = Len(rx) - 1 /\ Len(rx) \in Nat \ {0}
      /\ \A i \in 1..Len(rx') : i + 1 \in 1..Len(rx) /\ rx'[i] = rx[i + 1]
  OBVIOUS
<1>2. ASSUME NEW i \in 0..Len(rx'),
             \A j \in (i + 1)..Len(rx') : (rx'[j].kind = "link" => rx'[j].up)
      PROVE  \A j \in (i + 1 + 1)..Len(rx) : (rx[j].kind = "link" => rx[j].up)
  <2> SUFFICES ASSUME NEW j \in (i + 1 + 1)..Len(rx)
               PROVE  rx[j].kind = "link" => rx[j].up
    OBVIOUS
  <2>1. j - 1 \in (i + 1)..Len(rx') /\ j - 1 \in 1..Len(rx') /\ rx'[j - 1] = rx[j]
    BY <1>1
  <2> QED
    BY <1>2, <2>1
<1>3. ASSUME NEW i \in 1..Len(rx'), rx'[i].kind = "link", rx'[i].up,
             \A j \in (i + 1)..Len(rx') : (rx'[j].kind = "link" => rx'[j].up)
      PROVE  headset.up
  <2>1. i \in 0..Len(rx')
    BY <1>1
  <2>2. \A j \in (i + 1 + 1)..Len(rx) : (rx[j].kind = "link" => rx[j].up)
    BY <1>2, <1>3, <2>1
  <2> QED
    BY <1>1, <1>3, <2>2 DEF Present
<1>4. ASSUME g'.link = "up", "link" \notin missed', Whole(rx')
      PROVE  headset.up
  <2>1. \A j \in (0 + 1)..Len(rx') : (rx'[j].kind = "link" => rx'[j].up)
    BY <1>1, <1>4 DEF Whole, Linked
  <2>2. 0 \in 0..Len(rx')
    BY <1>1
  <2>3. \A j \in 2..Len(rx) : (rx[j].kind = "link" => rx[j].up)
    <3>1. \A j \in (0 + 1 + 1)..Len(rx) : (rx[j].kind = "link" => rx[j].up)
      BY <1>2, <2>1, <2>2
    <3> QED
      BY <3>1
  <2>4. CASE rx[1].kind = "link" /\ rx[1].up
    <3>1. 1 \in 1..Len(rx)
      BY <1>1
    <3>2. \A j \in (1 + 1)..Len(rx) : (rx[j].kind = "link" => rx[j].up)
      BY <2>3
    <3> QED
      BY <2>4, <3>1, <3>2 DEF Present
  <2>5. CASE rx[1].kind # "link" /\ g.link = "up" /\ "link" \notin missed
    <3>1. \A j \in 1..Len(rx) : (j = 1 \/ j \in 2..Len(rx))
      BY <1>1
    <3>2. Whole(rx)
      BY <1>1, <2>3, <2>5, <3>1 DEF Whole, Linked
    <3> QED
      BY <2>5, <3>2 DEF Present
  <2> QED
    BY <1>4, <2>4, <2>5
<1>5. \A i \in 1..Len(rx') :
        ((rx'[i].kind = "link" /\ rx'[i].up
          /\ (\A j \in (i + 1)..Len(rx') : (rx'[j].kind = "link" => rx'[j].up)))
         => headset.up)
  BY <1>3
<1> QED
  BY <1>4, <1>5 DEF Present

\* A frame is read that leaves the link as it is.
LEMMA ReadKept ==
  ASSUME Belief, rx # <<>>, rx[1].kind = "link" => rx[1].up /\ g.link = "up",
         rx' = Tail(rx), UNCHANGED <<headset, echo, wire, dialed>>, Calm(g, g'),
         missed \subseteq missed', g.primed => g'.primed, g'.blocked = g.blocked,
         g'.remote # HeadsetClient!NoRemote => g.link = "up",
         g.op = 2 /\ "matched" \in g'.flags =>
           \/ "matched" \in g.flags /\ g'.readback = g.readback
           \/ rx[1].kind = "gain" /\ g'.readback = rx[1].level,
         \/ g'.seen = IF rx[1].kind = "gain" THEN rx[1].level ELSE g.seen
         \/ "lost" \in missed'
  PROVE  /\ Standing' /\ Sending' /\ Present' /\ Echoing' /\ Heard' /\ Latest'
         /\ (Trust' => Trust) /\ (Whole(rx') => Whole(rx))
<1>1. (Trust' => Trust) /\ \A o : Tells(o)' => Tells(o) /\ g'.phase = g.phase
  BY CalmKnown
<1>2. Standing'
  BY CalmStands DEF Belief
<1>3. Sending' /\ Echoing'
  BY DEF Belief, Sending, Echoing, Calm, HeadsetClient!Active, HeadsetClient!Busy
<1>4. rx \in Seq(HeadFrame)
  BY DEF Belief, HeadTypes
<1>5. Present'
  <2>1. g'.link = g.link
    BY DEF Calm
  <2> QED
    BY <1>4, <2>1, PresentTail DEF Belief
<1>6. Heard'
  BY <1>4, ReadHeard DEF Belief
<1>7. Whole(rx') => Whole(rx)
  BY <1>4, TailReports
<1>8. (Reports(rx') => Reports(rx)) /\ (rx[1].kind = "gain" => Reports(rx))
  BY <1>4, TailReports DEF Reports
<1>9. Told' => Told
  BY <1>7 DEF Told
<1>10. Last(rx, g.seen, headset.level) /\ Told' => Last(rx', g'.seen, headset.level)
  <2>1. Last(rx, g.seen, headset.level) =>
          Last(rx', IF rx[1].kind = "gain" THEN rx[1].level ELSE g.seen, headset.level)
    BY <1>4, LastTail
  <2> QED
    BY <2>1 DEF Told
<1>11. LastRead'
  <2> SUFFICES ASSUME Tells(2)', Told', "matched" \in g'.flags \/ Reports(rx')
               PROVE  Last(rx', g'.seen, headset.level)
    BY DEF LastRead
  <2>1. Tells(2) /\ Told
    BY <1>1, <1>9
  <2>2. "matched" \in g.flags \/ Reports(rx)
    BY <1>8, <2>1 DEF Tells
  <2>3. Last(rx, g.seen, headset.level)
    BY <2>1, <2>2 DEF Belief, Latest, LastRead
  <2> QED
    BY <1>10, <2>3
<1>12. LastTrusted'
  <2> SUFFICES ASSUME Trust', ~HeadsetClient!Active(g'), Told'
               PROVE  Last(rx', g'.seen, headset.level)
    BY DEF LastTrusted
  <2>1. Trust /\ Told /\ ~HeadsetClient!Active(g)
    BY <1>1, <1>9 DEF Calm
  <2> QED
    BY <1>10, <2>1 DEF Belief, Latest, LastTrusted
<1> QED
  BY <1>1, <1>2, <1>3, <1>5, <1>6, <1>7, <1>11, <1>12 DEF Latest


\* A frame that is no level is read, and makes of the client what a calm step may.
LEMMA BelieveRead ==
  ASSUME Belief, rx # <<>>, rx[1].kind = "link" => rx[1].up /\ g.link = "up",
         rx' = Tail(rx), UNCHANGED <<headset, echo, wire, dialed, sent, master>>, Calm(g, g'),
         begun' = HeadsetClient!NoFrame, missed \subseteq missed',
         rx[1].kind = "gain" => "lost" \in missed',
         g.primed => g'.primed, g'.blocked = g.blocked, g'.remote = g.remote,
         g'.readback = g.readback, g'.seen = g.seen, g'.desired = g.desired,
         g.op = 2 /\ "matched" \in g'.flags => "matched" \in g.flags,
         HeadsetClient!Busy(g) => HeadsetClient!Busy(g'),
         g.phase = "deferred" => g'.phase = "deferred"
  PROVE  Belief'
<1>1. /\ Standing' /\ Sending' /\ Present' /\ Echoing' /\ Heard' /\ Latest'
      /\ (Trust' => Trust) /\ (Whole(rx') => Whole(rx))
  <2>1. g'.remote # HeadsetClient!NoRemote => g.link = "up"
    BY DEF Belief, Standing
  <2>2. \/ g'.seen = IF rx[1].kind = "gain" THEN rx[1].level ELSE g.seen
        \/ "lost" \in missed'
    OBVIOUS
  <2> QED
    BY <2>1, <2>2, ReadKept
<1>2. HeadTypes'
  <2>1. rx' \in Seq(HeadFrame)
    BY TailReports DEF Belief, HeadTypes
  <2> QED
    BY <2>1 DEF Belief, HeadTypes, Calm, HeadsetClient!NoRemote
<1>3. RemoteDialed' /\ Timed'
  BY DEF Belief, RemoteDialed, Timed, Calm, HeadsetClient!NoRemote
<1>4. SeenTaken'
  BY <1>1 DEF Belief, SeenTaken, Attends, Calm, HeadsetClient!NoRemote
<1> QED
  BY <1>1, <1>2, <1>3, <1>4 DEF Belief

\* What the client makes of a report of the link.
LEMMA LinkCalm ==
  ASSUME HeadInv, Standing, NEW up \in BOOLEAN, NEW q, q = HeadsetClient!LinkReport(up)
  PROVE  /\ q.link = IF up THEN "up" ELSE "down"
         /\ \A f \in {"online", "yielding", "submitted", "desired", "flags", "verified",
                      "readback", "seen"} \ (IF up /\ g.link = "up" THEN {} ELSE {"seen"}) :
              q[f] = g[f]
         /\ q.blocked => g.blocked
         /\ IF up /\ g.link = "up"
            THEN /\ Calm(g, q) /\ q.blocked = g.blocked /\ q.primed = g.primed
                 /\ q.remote = g.remote
                 /\ HeadsetClient!Busy(g) => HeadsetClient!Busy(q)
                 /\ g.phase = "deferred" => q.phase = "deferred"
            ELSE /\ ~q.have /\ q.remote = HeadsetClient!NoRemote
                 /\ HeadsetClient!Active(q) =>
                      HeadsetClient!Active(g) /\ q.cancel /\ q.phase = g.phase /\ q.op = g.op
                 /\ HeadsetClient!Active(g) => HeadsetClient!Active(q)
                 /\ q.cancel => HeadsetClient!Active(q) \/ q.yielding
<1> DEFINE first == g.link = "unknown"
           changed == ~first /\ (g.link = "up") # up
           r1 == [g EXCEPT !.link = IF up THEN "up" ELSE "down"]
           c1 == [r1 EXCEPT !.primed = FALSE, !.have = FALSE, !.seen = HeadsetClient!None,
                            !.remote = HeadsetClient!NoRemote, !.history = {},
                            !.cancel = HeadsetClient!Active(g),
                            !.phase = IF HeadsetClient!Active(g) THEN @ ELSE "idle"]
           r2 == IF ~up \/ changed THEN c1 ELSE r1
           c2 == [r2 EXCEPT !.blocked = FALSE, !.primed = FALSE, !.have = FALSE,
                            !.conflict = FALSE]
           r3 == IF up /\ (first \/ changed) THEN c2 ELSE r2
           same == {"online", "yielding", "submitted", "desired", "flags", "verified",
                    "readback", "link", "op"}
<1>1. IsClient(g)
  BY DEF HeadInv
<1>2. q = HeadsetClient!Queue(r3)
  BY DEF HeadsetClient!LinkReport
<1>3. IsClient(r1) /\ r1.link = (IF up THEN "up" ELSE "down")
      /\ \A f \in ClientFields \ {"link"} : r1[f] = g[f]
  BY <1>1 DEF IsClient, ClientFields
<1> HIDE DEF r1
<1>4. /\ IsClient(c1) /\ ~c1.have /\ c1.remote = HeadsetClient!NoRemote
      /\ c1.cancel = HeadsetClient!Active(g)
      /\ c1.phase = IF HeadsetClient!Active(g) THEN r1.phase ELSE "idle"
      /\ \A f \in ClientFields \
                   {"primed", "have", "seen", "remote", "history", "cancel", "phase"} :
           c1[f] = r1[f]
  BY <1>3 DEF IsClient, ClientFields
<1> HIDE DEF c1
<1>5. /\ IsClient(r2) /\ \A f \in same : r2[f] = r1[f]
      /\ r2.blocked = r1.blocked
  BY <1>3, <1>4 DEF ClientFields
<1>6. /\ IsClient(c2) /\ ~c2.have /\ ~c2.blocked
      /\ \A f \in ClientFields \ {"blocked", "primed", "have", "conflict"} : c2[f] = r2[f]
  BY <1>5 DEF IsClient, ClientFields
<1> HIDE DEF c2
<1>7. /\ IsClient(r3) /\ \A f \in same : r3[f] = r1[f]
      /\ r3.blocked => g.blocked
  <2>1. r1.blocked = g.blocked
    BY <1>3 DEF ClientFields
  <2>2. \A f \in same : c2[f] = r2[f]
    BY <1>6 DEF ClientFields
  <2>3. CASE r3 = c2
    BY <1>5, <1>6, <2>2, <2>3
  <2>4. CASE r3 = r2
    BY <1>5, <2>1, <2>4
  <2> QED
    BY <2>3, <2>4
<1>8. /\ \A f \in same \ {"link"} : r3[f] = g[f]
      /\ r3.link = IF up THEN "up" ELSE "down"
  BY <1>3, <1>7 DEF ClientFields
<1>9. /\ IsClient(q) /\ Calm(r3, q) /\ \A f \in ClientFields \ {"phase", "op"} : q[f] = r3[f]
      /\ \/ q = r3
         \/ q.phase = "queued" /\ ~HeadsetClient!Busy(r3) /\ r3.phase # "deferred"
  <2> HIDE DEF r3, same
  <2> QED
    BY <1>2, <1>7, QueueCalm
<1>10. CASE up /\ g.link = "up"
  <2>1. r3 = r1
    BY <1>10
  <2>2. \A f \in ClientFields : r1[f] = g[f]
    BY <1>3, <1>10 DEF ClientFields
  <2> HIDE DEF r3
  <2>3. Calm(g, r1)
    BY <2>2 DEF Calm, ClientFields, HeadsetClient!Active, HeadsetClient!Busy
  <2>4. Calm(g, q)
    BY <1>9, <2>1, <2>3, CalmTwice
  <2>5. \A f \in ClientFields \ {"phase", "op"} : q[f] = g[f]
    BY <1>9, <2>1, <2>2
  <2>6. /\ HeadsetClient!Busy(g) => HeadsetClient!Busy(q)
        /\ g.phase = "deferred" => q.phase = "deferred"
    BY <1>9, <2>1, <2>2 DEF HeadsetClient!Busy, ClientFields
  <2> QED
    BY <1>10, <2>4, <2>5, <2>6 DEF ClientFields
<1>11. CASE ~(up /\ g.link = "up")
  <2>1. ~r3.have
    <3>1. r3 = c2 \/ r3 = c1
      BY <1>11 DEF Standing
    <3> HIDE DEF r3
    <3> QED
      BY <1>4, <1>6, <3>1
  <2>2. r3.remote = HeadsetClient!NoRemote
    <3>1. r1.remote = g.remote
      BY <1>3 DEF ClientFields
    <3>2. c2.remote = r2.remote
      BY <1>6 DEF ClientFields
    <3>3. r2 = r1 => g.remote = HeadsetClient!NoRemote
      <4>1. r2 = c1 \/ g.link = "unknown"
        BY <1>11
      <4>2. c1.remote = HeadsetClient!NoRemote
        BY <1>4
      <4>3. g.link = "unknown" => g.remote = HeadsetClient!NoRemote
        BY DEF Standing
      <4> HIDE DEF r2
      <4> QED
        BY <3>1, <4>1, <4>2, <4>3
    <3> QED
      BY <1>4, <3>1, <3>2, <3>3
  <2>3. r2 = c1 \/ (g.link = "unknown" /\ r2 = r1)
    BY <1>11
  <2>4. r3.phase = r2.phase /\ r3.cancel = r2.cancel
    BY <1>6 DEF ClientFields
  <2>5. /\ HeadsetClient!Active(r3) => HeadsetClient!Active(g) /\ r3.cancel /\ r3.phase = g.phase
        /\ HeadsetClient!Active(g) => HeadsetClient!Active(r3)
        /\ r3.cancel => HeadsetClient!Active(r3) \/ g.yielding
    <3> HIDE DEF r2, r3
    <3>1. CASE r2 = c1
      <4>1. r1.phase = g.phase
        BY <1>3 DEF ClientFields
      <4> QED
        BY <1>4, <2>4, <3>1, <4>1 DEF HeadsetClient!Active, HeadsetClient!Busy
    <3>2. CASE g.link = "unknown" /\ r2 = r1
      <4>1. r1.phase = g.phase /\ r1.cancel = g.cancel
        BY <1>3 DEF ClientFields
      <4>2. ~HeadsetClient!Active(g) /\ (g.cancel => g.yielding)
        BY <3>2 DEF Standing
      <4> QED
        BY <2>4, <3>2, <4>1, <4>2 DEF HeadsetClient!Active, HeadsetClient!Busy
    <3> QED
      BY <2>3, <3>1, <3>2
  <2> HIDE DEF r3
  <2>6. q.have = r3.have /\ q.remote = r3.remote /\ q.cancel = r3.cancel /\ q.blocked = r3.blocked
        /\ q.link = r3.link
        /\ \A f \in same \ {"link", "op"} : q[f] = r3[f]
    BY <1>9 DEF ClientFields
  <2>7. /\ HeadsetClient!Active(q) <=> HeadsetClient!Active(r3)
        /\ HeadsetClient!Active(r3) => q.phase = r3.phase /\ q.op = r3.op
    BY <1>9 DEF Calm
  <2>8. r3.op = g.op /\ q.yielding = g.yielding
    BY <1>8, <2>6
  <2>9. \A f \in same \ {"link", "op"} : q[f] = g[f]
    BY <1>8, <2>6
  <2>10. /\ ~q.have /\ q.remote = HeadsetClient!NoRemote
         /\ HeadsetClient!Active(q) =>
              HeadsetClient!Active(g) /\ q.cancel /\ q.phase = g.phase /\ q.op = g.op
         /\ HeadsetClient!Active(g) => HeadsetClient!Active(q)
         /\ q.cancel => HeadsetClient!Active(q) \/ q.yielding
    BY <2>1, <2>2, <2>5, <2>6, <2>7, <2>8
  <2> QED
    BY <1>7, <1>8, <1>11, <2>6, <2>9, <2>10
<1> QED
  BY <1>10, <1>11


\* A level is read.
LEMMA BelieveLevel ==
  ASSUME HeadInv, Belief, begun # HeadsetClient!NoFrame, rx # <<>>, rx[1].kind = "gain",
         g' = HeadsetClient!GainReport(rx[1].level), begun' = HeadsetClient!NoFrame,
         rx' = Tail(rx),
         UNCHANGED <<headset, echo, wire, dialed, sent, master, missed>>
  PROVE  Belief'
<1> DEFINE l == rx[1].level
           getter == g.op = 2 /\ HeadsetClient!Eligible
           mine == getter /\ (l = g.submitted \/ begun.rev # g.srev)
           dial == ~mine /\ HeadsetClient!Ready(g) /\ ~g.cancel /\ ~HeadsetClient!Echoed(g, l)
           r == IF getter THEN [g EXCEPT !.readback = l, !.flags = @ \cup {"matched"}] ELSE g
           said == [level |-> l, rev |-> begun.rev, real |-> begun.real]
           s == [r EXCEPT !.seen = l, !.remote = IF dial THEN said ELSE @]
<1>1. IsClient(g)
  BY DEF HeadInv
<1>2. g' = s
  BY DEF HeadsetClient!GainReport
<1>3. l \in Level /\ rx \in Seq(HeadFrame) /\ rx' \in Seq(HeadFrame)
  <2>1. rx \in Seq(HeadFrame)
    BY DEF Belief, HeadTypes
  <2>2. rx' \in Seq(HeadFrame) /\ rx[1] \in HeadFrame
    BY <2>1, TailReports
  <2> QED
    BY <2>1, <2>2 DEF HeadFrame
<1> HIDE DEF mine, dial, said
<1>4. /\ IsClient(r) /\ \A f \in ClientFields \ {"readback", "flags"} : r[f] = g[f]
      /\ getter => r.readback = l
      /\ ~getter => r.readback = g.readback /\ r.flags = g.flags
  BY <1>1 DEF IsClient, ClientFields
<1> HIDE DEF getter, r, l
<1>5. /\ g'.seen = l /\ g'.remote = IF dial THEN said ELSE g.remote
      /\ \A f \in ClientFields \ {"seen", "remote"} : g'[f] = r[f]
  <2>1. /\ s.seen = l /\ s.remote = IF dial THEN said ELSE r.remote
        /\ \A f \in ClientFields \ {"seen", "remote"} : s[f] = r[f]
    BY <1>4 DEF IsClient, ClientFields
  <2>2. r.remote = g.remote
    BY <1>4 DEF ClientFields
  <2> HIDE DEF s
  <2> QED
    BY <1>2, <2>1, <2>2
<1> HIDE DEF s
<1>6. \A f \in ClientFields \ {"seen", "remote", "readback", "flags"} : g'[f] = g[f]
  BY <1>4, <1>5
<1>7. /\ g'.primed = g.primed /\ g'.blocked = g.blocked /\ g'.desired = g.desired
      /\ g'.submitted = g.submitted /\ g'.verified = g.verified /\ g'.history = g.history
      /\ g'.phase = g.phase /\ g'.op = g.op /\ g'.cancel = g.cancel
      /\ g'.readback = r.readback /\ g'.flags = r.flags
  BY <1>5, <1>6 DEF ClientFields
<1>8. Calm(g, g') /\ (HeadsetClient!Busy(g') <=> HeadsetClient!Busy(g))
  BY <1>6 DEF Calm, ClientFields, HeadsetClient!Active, HeadsetClient!Busy
<1>9. /\ getter => HeadsetClient!Active(g) /\ begun.eligible /\ g.op = 2 /\ g'.readback = l
      /\ ~getter => g'.readback = g.readback /\ g'.flags = g.flags
  BY <1>4, <1>7 DEF getter, HeadsetClient!Eligible
<1>10. /\ said # HeadsetClient!NoRemote => said.level \in Level
       /\ said.level = l
  BY <1>3 DEF said
<1>11. dial => g.have /\ ~g.cancel /\ ~HeadsetClient!Echoed(g, l)
  BY DEF dial, HeadsetClient!Ready
<1>12. /\ Standing' /\ Sending' /\ Present' /\ Echoing' /\ Heard' /\ Latest'
       /\ (Trust' => Trust) /\ (Whole(rx') => Whole(rx))
  <2>1. g'.remote # HeadsetClient!NoRemote => g.link = "up"
    BY <1>5, <1>11 DEF Belief, Standing
  <2>2. g.op = 2 /\ "matched" \in g'.flags =>
           \/ "matched" \in g.flags /\ g'.readback = g.readback
           \/ rx[1].kind = "gain" /\ g'.readback = rx[1].level
    BY <1>9 DEF l
  <2>3. g'.seen = IF rx[1].kind = "gain" THEN rx[1].level ELSE g.seen
    BY <1>5 DEF l
  <2> QED
    BY <1>7, <1>8, <2>1, <2>2, <2>3, ReadKept
<1>13. HeadTypes'
  BY <1>3, <1>5, <1>7, <1>10 DEF Belief, HeadTypes
\* What comes while the client trusts itself is its own or the dial's.
<1>14. Trust => l \in Known \cup {g.verified}
  <2>1. 1 \in 1..Len(rx) /\ 1 \in (0 + 1)..Len(rx)
    BY <1>3, TailReports
  <2>2. Comes(rx, 1)
    BY DEF Comes, Linked
  <2>3. Trust => Shows(g.verified)
    BY DEF Belief, Heard, Trusted
  <2> QED
    BY <2>1, <2>2, <2>3 DEF Shows, After, l
<1>15. /\ HeadsetClient!Echoed(g, l) <=>
            (l \in {g.seen, g.verified} \/ (HeadsetClient!Active(g) /\ l = g.submitted)
             \/ l \in g.history)
       /\ l \in Known <=> (l \in g.history \/ l \in dialed
                           \/ (HeadsetClient!Active(g) /\ l = g.submitted))
  BY DEF HeadsetClient!Echoed, Known
<1>16. RemoteDialed'
  <2>1. CASE dial
    <3>1. l # g.verified /\ (Trust => l \in dialed)
      BY <1>11, <1>14, <1>15, <2>1
    <3>2. "link" \notin missed => Trust
      BY <1>11, <2>1 DEF Trust
    <3> QED
      BY <1>5, <1>7, <1>10, <2>1, <3>1, <3>2 DEF RemoteDialed
  <2>2. CASE ~dial
    BY <1>5, <1>7, <2>2 DEF Belief, RemoteDialed, HeadsetClient!NoRemote
  <2> QED
    BY <2>1, <2>2
<1>17. Timed'
  <2>1. CASE getter
    <3>1. sent = Bytes
      BY <1>9, <2>1 DEF Belief, Timed
    <3> QED
      BY <1>5, <1>9, <2>1, <3>1 DEF Timed
  <2>2. CASE ~getter
    <3>1. ~(g.op = 2 /\ HeadsetClient!Active(g) /\ "matched" \in g.flags)
      BY <2>2 DEF Belief, Timed, getter, HeadsetClient!Eligible
    <3>2. HeadsetClient!Active(g') <=> HeadsetClient!Active(g)
      BY <1>8 DEF Calm
    <3> QED
      BY <1>7, <1>9, <2>2, <3>1, <3>2 DEF Timed
  <2> QED
    BY <2>1, <2>2
<1>18. SeenTaken'
  <2> SUFFICES ASSUME Trust, Whole(rx), missed \cap {"refused", "dropped"} = {},
                      ~HeadsetClient!Busy(g)
               PROVE  Attends(g)'
    BY <1>8, <1>12 DEF SeenTaken, Attends
  <2>1. ~HeadsetClient!Active(g) /\ ~mine
    BY <1>9 DEF HeadsetClient!Active, mine
  <2>2. Attends(g)
    BY DEF Belief, SeenTaken
  <2>3. HeadsetClient!Ready(g) /\ ~g.cancel
    BY DEF Trust, Belief, Standing, HeadsetClient!Ready
  <2>4. dial \/ l \in {g.seen, g.verified} \/ l \in g.history
    BY <1>15, <2>1, <2>3 DEF dial
  <2>5. CASE dial
    <3>1. said # HeadsetClient!NoRemote
      <4>1. -1 \notin Level
        BY UsersAssumption DEF HeadsetClient!HeadsetAssumption
      <4> QED
        BY <1>3, <1>10, <4>1 DEF HeadsetClient!NoRemote, HeadsetClient!None
    <3> QED
      BY <1>5, <1>10, <2>5, <3>1 DEF Attends
  <2>6. CASE l \in {g.verified} \/ l \in g.history
    BY <1>5, <1>7, <2>6 DEF Attends
  <2>7. CASE ~dial /\ l = g.seen
    <3>1. g'.seen = g.seen /\ g'.remote = g.remote
      BY <1>5, <2>7
    <3> QED
      BY <1>7, <2>2, <3>1 DEF Attends
  <2> QED
    BY <2>4, <2>5, <2>6, <2>7
<1> QED
  BY <1>12, <1>13, <1>16, <1>17, <1>18 DEF Belief

\* A frame's first byte, the rest of it, or its loss.
LEMMA BelieveFrames ==
  ASSUME HeadInv, Belief
  PROVE  /\ HeadsetClient!FirstByte => Belief'
         /\ HeadsetClient!RestOfFrame => Belief'
         /\ HeadsetClient!FrameLost => Belief'
<1> USE DEF HeadsetClient!worldVars, HeadsetClient!lineVars
<1>1. IsClient(g)
  BY DEF HeadInv
<1>2. ASSUME HeadsetClient!FirstByte
      PROVE  Belief'
  <2>1. /\ UNCHANGED <<g, rx, headset, echo, dialed, wire, sent, master, missed>>
        /\ begun'.eligible = (HeadsetClient!Active(g) /\ g.phase # "gap" /\ sent = Bytes)
    BY <1>2 DEF HeadsetClient!FirstByte, HeadsetClient!Submitted
  <2>2. HeadTypes'
    BY <2>1 DEF Belief, HeadTypes, HeadsetClient!NoRemote
  <2>3. begun'.eligible => sent = Bytes
    BY <2>1
  <2>4. g.op = 2 /\ HeadsetClient!Active(g) /\ "matched" \in g.flags => begun'.eligible
    <3>1. g.op = 2 => g.phase # "gap"
      BY DEF Belief, Standing
    <3>2. g.op = 2 /\ HeadsetClient!Active(g) /\ "matched" \in g.flags => sent = Bytes
      BY DEF Belief, Timed
    <3> QED
      BY <2>1, <3>1, <3>2
  <2>5. Timed'
    BY <2>1, <2>3, <2>4 DEF Belief, Timed
  <2> QED
    BY <2>1, <2>2, <2>5, BelieveSame
\* What is set of the flags.
<1>3. ASSUME NEW f
      PROVE  LET q == HeadsetClient!Flag(f) IN
             /\ Calm(g, q) /\ q.flags \subseteq g.flags \cup {f}
             /\ \A k \in ClientFields \ {"flags"} : q[k] = g[k]
  <2> DEFINE q == HeadsetClient!Flag(f)
  <2>1. q.flags = (IF HeadsetClient!Active(g) THEN g.flags \cup {f} ELSE g.flags)
        /\ \A k \in ClientFields \ {"flags"} : q[k] = g[k]
    BY <1>1 DEF IsClient, ClientFields, HeadsetClient!Flag
  <2> HIDE DEF q
  <2>2. Calm(g, q) /\ q.flags \subseteq g.flags \cup {f}
    BY <2>1 DEF Calm, ClientFields, HeadsetClient!Active, HeadsetClient!Busy
  <2> QED
    BY <2>1, <2>2 DEF q
<1>4. ASSUME HeadsetClient!FrameLost
      PROVE  Belief'
  <2>1. /\ rx # <<>> /\ rx' = Tail(rx) /\ begun' = HeadsetClient!NoFrame
        /\ g' = HeadsetClient!Flag("bad")
        /\ UNCHANGED <<sent, wire, master, headset, echo, dialed>>
        /\ missed \subseteq missed' /\ (rx[1].kind = "gain" => "lost" \in missed')
        /\ rx[1].kind = "link" => "link" \in missed'
    BY <1>4 DEF HeadsetClient!FrameLost, HeadsetClient!Read, HeadsetClient!Frame
  <2>2. /\ Calm(g, g') /\ g'.flags \subseteq g.flags \cup {"bad"}
        /\ \A k \in ClientFields \ {"flags"} : g'[k] = g[k]
    BY <1>3, <2>1
  <2>3. /\ g'.primed = g.primed /\ g'.blocked = g.blocked /\ g'.remote = g.remote
        /\ g'.readback = g.readback /\ g'.seen = g.seen /\ g'.desired = g.desired
        /\ g'.phase = g.phase /\ g'.verified = g.verified /\ g'.submitted = g.submitted
        /\ g'.cancel = g.cancel /\ g'.op = g.op
        /\ "matched" \in g'.flags => "matched" \in g.flags
        /\ HeadsetClient!Busy(g) => HeadsetClient!Busy(g')
    BY <2>2 DEF ClientFields, HeadsetClient!Busy
  <2>4. CASE rx[1].kind # "link"
    BY <2>1, <2>2, <2>3, <2>4, BelieveRead
  <2>5. CASE rx[1].kind = "link"
    <3>1. "link" \in missed' /\ rx \in Seq(HeadFrame) /\ rx' \in Seq(HeadFrame)
      BY <2>1, <2>5 DEF Belief, HeadTypes
    <3>2. HeadTypes'
      BY <2>1, <2>3, <3>1 DEF Belief, HeadTypes, HeadsetClient!NoRemote
    <3>3. Standing'
      BY <2>2, <2>3, CalmStands DEF Belief, Standing
    <3>4. Sending' /\ Echoing' /\ RemoteDialed'
      BY <2>1, <2>3, <3>1 DEF Belief, Sending, Echoing, RemoteDialed, HeadsetClient!NoRemote
    <3>5. Present'
      BY <2>1, <3>1, PresentTail DEF Belief
    <3>6. Timed'
      <4>1. HeadsetClient!Active(g') <=> HeadsetClient!Active(g)
        BY <2>2 DEF Calm
      <4> QED
        BY <2>1, <2>3, <4>1 DEF Belief, Timed
    <3>7. Doubts'
      BY <3>1 DEF Doubts
    <3> QED
      BY <3>2, <3>3, <3>4, <3>5, <3>6, <3>7, DoubtsAll DEF Belief
  <2> QED
    BY <2>4, <2>5
<1>5. ASSUME HeadsetClient!RestOfFrame
      PROVE  Belief'
  <2>1. /\ begun # HeadsetClient!NoFrame /\ begun' = HeadsetClient!NoFrame
        /\ rx # <<>> /\ rx' = Tail(rx)
        /\ missed' = IF g'.link = g.link THEN missed ELSE missed \ {"link"}
        /\ UNCHANGED <<sent, wire, master, headset, echo, dialed>>
        /\ \/ /\ rx[1].kind = "ack"
              /\ g' = IF HeadsetClient!Eligible /\ g.op = rx[1].op
                      THEN HeadsetClient!Flag(rx[1].what) ELSE g
           \/ rx[1].kind = "bulk" /\ g' = HeadsetClient!BulkReport
           \/ rx[1].kind = "gain" /\ g' = HeadsetClient!GainReport(rx[1].level)
           \/ rx[1].kind = "link" /\ g' = HeadsetClient!LinkReport(rx[1].up)
    BY <1>5 DEF HeadsetClient!RestOfFrame, HeadsetClient!Read, HeadsetClient!Frame
  <2>2. /\ rx \in Seq(HeadFrame) /\ rx[1] \in HeadFrame /\ rx' \in Seq(HeadFrame)
        /\ rx[1].kind = "ack" => rx[1].op = 1
        /\ rx[1].kind = "link" => rx[1].up \in BOOLEAN
    <3>1. rx \in Seq(HeadFrame)
      BY DEF Belief, HeadTypes
    <3>2. rx[1] \in HeadFrame /\ rx' \in Seq(HeadFrame)
      BY <2>1, <3>1
    <3> QED
      BY <3>1, <3>2 DEF HeadFrame
  \* A frame that leaves all but what it is an answer to.
  <2>3. ASSUME rx[1].kind \in {"ack", "bulk"}, g'.link = g.link => missed' = missed,
               \A k \in ClientFields \ {"flags", "primed"} : g'[k] = g[k],
               g.primed => g'.primed,
               g.op = 2 /\ "matched" \in g'.flags => "matched" \in g.flags
        PROVE  Belief'
    <3>1. /\ Calm(g, g') /\ (HeadsetClient!Busy(g) => HeadsetClient!Busy(g'))
          /\ g'.blocked = g.blocked /\ g'.remote = g.remote /\ g'.link = g.link
          /\ g'.readback = g.readback /\ g'.seen = g.seen /\ g'.desired = g.desired
          /\ g'.phase = g.phase
      BY <2>3 DEF Calm, ClientFields, HeadsetClient!Active, HeadsetClient!Busy
    <3> QED
      BY <2>1, <2>3, <3>1, BelieveRead
  <2>4. CASE /\ rx[1].kind = "ack"
             /\ g' = IF HeadsetClient!Eligible /\ g.op = rx[1].op
                     THEN HeadsetClient!Flag(rx[1].what) ELSE g
    <3>1. /\ \A k \in ClientFields \ {"flags"} : g'[k] = g[k]
          /\ g'.flags = g.flags \/ g.op = 1
      BY <1>3, <2>2, <2>4
    <3> QED
      BY <2>1, <2>3, <2>4, <3>1 DEF ClientFields
  <2>5. CASE rx[1].kind = "bulk" /\ g' = HeadsetClient!BulkReport
    <3> DEFINE h == IF g.op = 0 /\ HeadsetClient!Eligible THEN HeadsetClient!Flag("matched") ELSE g
               p == [h EXCEPT !.primed = TRUE]
    <3>1. /\ \A k \in ClientFields \ {"flags"} : h[k] = g[k]
          /\ h.flags = g.flags \/ g.op = 0
          /\ IsClient(h)
      BY <1>1, <1>3 DEF HeadsetClient!Flag, IsClient, ClientFields
    <3>2. g' = g \/ g' = p
      BY <2>5 DEF HeadsetClient!BulkReport
    <3> HIDE DEF h
    <3>3. p.primed /\ \A k \in ClientFields \ {"primed"} : p[k] = h[k]
      BY <3>1 DEF IsClient, ClientFields
    <3>4. \A k \in ClientFields \ {"flags", "primed"} : p[k] = g[k]
      BY <3>1, <3>3
    <3>5. p.flags = h.flags
      BY <3>3 DEF ClientFields
    <3> HIDE DEF p
    <3>6. /\ \A k \in ClientFields \ {"flags", "primed"} : g'[k] = g[k]
          /\ g.primed => g'.primed
          /\ g'.flags = g.flags \/ g.op = 0
      BY <3>1, <3>2, <3>3, <3>4, <3>5
    <3> QED
      BY <2>1, <2>3, <2>5, <3>6
  <2>6. CASE rx[1].kind = "gain" /\ g' = HeadsetClient!GainReport(rx[1].level)
    <3>1. g'.link = g.link
      <4> DEFINE s == IF g.op = 2 /\ HeadsetClient!Eligible
                      THEN [g EXCEPT !.readback = rx[1].level, !.flags = @ \cup {"matched"}] ELSE g
      <4>1. IsClient(s) /\ s.link = g.link
        BY <1>1 DEF IsClient, ClientFields
      <4>2. \E x : g' = [s EXCEPT !.seen = rx[1].level, !.remote = x]
        BY <2>6 DEF HeadsetClient!GainReport
      <4> HIDE DEF s
      <4> QED
        BY <4>1, <4>2 DEF IsClient, ClientFields
    <3> QED
      BY <2>1, <2>6, <3>1, BelieveLevel
  <2>7. CASE rx[1].kind = "link" /\ g' = HeadsetClient!LinkReport(rx[1].up)
    <3> DEFINE up == rx[1].up
    <3>1. /\ g'.link = IF up THEN "up" ELSE "down"
          /\ \A f \in {"online", "yielding", "submitted", "desired", "flags", "verified",
                       "readback", "seen"} \ (IF up /\ g.link = "up" THEN {} ELSE {"seen"}) :
               g'[f] = g[f]
          /\ g'.blocked => g.blocked
          /\ IF up /\ g.link = "up"
             THEN /\ Calm(g, g') /\ g'.blocked = g.blocked /\ g'.primed = g.primed
                  /\ g'.remote = g.remote
                  /\ HeadsetClient!Busy(g) => HeadsetClient!Busy(g')
                  /\ g.phase = "deferred" => g'.phase = "deferred"
             ELSE /\ ~g'.have /\ g'.remote = HeadsetClient!NoRemote
                  /\ HeadsetClient!Active(g') =>
                       HeadsetClient!Active(g) /\ g'.cancel /\ g'.phase = g.phase /\ g'.op = g.op
                  /\ HeadsetClient!Active(g) => HeadsetClient!Active(g')
                  /\ g'.cancel => HeadsetClient!Active(g') \/ g'.yielding
      BY <2>2, <2>7, LinkCalm DEF Belief
    <3>2. CASE up /\ g.link = "up"
      <4>1. /\ Calm(g, g') /\ g'.blocked = g.blocked /\ g'.primed = g.primed
            /\ g'.remote = g.remote
            /\ HeadsetClient!Busy(g) => HeadsetClient!Busy(g')
            /\ g.phase = "deferred" => g'.phase = "deferred"
            /\ g'.link = g.link /\ g'.readback = g.readback /\ g'.seen = g.seen
            /\ g'.desired = g.desired /\ g'.flags = g.flags
        BY <3>1, <3>2
      <4> QED
        BY <2>1, <2>7, <3>2, <4>1, BelieveRead
    <3>3. CASE ~(up /\ g.link = "up")
      <4>1. /\ ~g'.have /\ g'.remote = HeadsetClient!NoRemote
            /\ HeadsetClient!Active(g') =>
                 HeadsetClient!Active(g) /\ g'.cancel /\ g'.phase = g.phase /\ g'.op = g.op
            /\ HeadsetClient!Active(g) => HeadsetClient!Active(g')
            /\ g'.cancel => HeadsetClient!Active(g') \/ g'.yielding
        BY <3>1, <3>3
      <4>2. /\ g'.online = g.online /\ g'.yielding = g.yielding /\ g'.submitted = g.submitted
            /\ g'.desired = g.desired /\ g'.flags = g.flags /\ (g'.blocked => g.blocked)
            /\ g'.link = IF up THEN "up" ELSE "down"
        BY <3>1
      <4>3. HeadTypes'
        BY <2>1, <2>2, <4>1, <4>2 DEF Belief, HeadTypes
      <4>4. Standing'
        <5>1. /\ g'.link \in {"up", "down"} /\ ~g'.have /\ g'.remote = HeadsetClient!NoRemote
              /\ HeadsetClient!Active(g') => g'.online /\ ~g'.blocked /\ g'.cancel
          BY <4>1, <4>2 DEF Belief, Standing
        <5>2. g'.phase = "gap" => g'.op = 1
          <6>1. g'.phase = "gap" => HeadsetClient!Active(g')
            BY DEF HeadsetClient!Active, HeadsetClient!Busy
          <6> QED
            BY <4>1, <6>1 DEF Belief, Standing
        <5>3. g'.phase = "gap" => HeadsetClient!Active(g')
          BY DEF HeadsetClient!Active, HeadsetClient!Busy
        <5> QED
          BY <4>1, <5>1, <5>2, <5>3 DEF Standing
      <4>5. Sending'
        <5>1. wire # {} => HeadsetClient!Active(g)
          BY DEF Belief, Sending, HeadsetClient!Active, HeadsetClient!Busy
        <5> QED
          BY <2>1, <4>1, <4>2, <5>1 DEF Belief, Sending
      <4>6. Present'
        <5>1. g'.link = "up" => rx[1].kind = "link" /\ rx[1].up
          BY <2>7, <4>2
        <5> QED
          BY <2>1, <2>2, <5>1, PresentTail DEF Belief
      <4>7. Echoing' /\ RemoteDialed'
        BY <2>1, <4>1 DEF Belief, Echoing, RemoteDialed
      <4>8. Timed'
        BY <2>1, <4>1, <4>2 DEF Belief, Timed
      <4>9. Doubts'
        BY <4>1 DEF Doubts
      <4> QED
        BY <4>3, <4>4, <4>5, <4>6, <4>7, <4>8, <4>9, DoubtsAll DEF Belief
    <3> QED
      BY <3>2, <3>3
  <2> QED
    BY <2>1, <2>4, <2>5, <2>6, <2>7
<1> QED
  BY <1>2, <1>4, <1>5


\* The headset says something, and its link stays.
LEMMA BelieveSaid ==
  ASSUME Belief, NEW f \in HeadFrame, rx' = Append(rx, f),
         UNCHANGED <<g, wire, begun, sent, master>>, dialed \subseteq dialed',
         missed \subseteq missed', headset' \in [level : Level, up : BOOLEAN],
         headset'.up = headset.up, headset'.level \in dialed' \cup {headset.level},
         echo' \in SUBSET [level : Level, late : BOOLEAN], Echoing',
         \A e \in echo' : \E k \in echo : e.level = k.level,
         f.kind = "link" => f.up = headset.up,
         f.kind # "gain" => headset' = headset,
         f.kind = "gain" => \/ f.level = headset'.level
                            \/ /\ "echo" \in missed' /\ headset'.level = headset.level
                               /\ \E e \in echo : f.level = e.level
  PROVE  Belief'
<1>1. rx \in Seq(HeadFrame)
  BY DEF Belief, HeadTypes
<1>2. /\ rx' \in Seq(HeadFrame) /\ Len(rx') = Len(rx) + 1 /\ Len(rx) \in Nat
      /\ \A i \in 1..Len(rx) : rx'[i] = rx[i]
      /\ rx'[Len(rx) + 1] = f /\ (Whole(rx') => Whole(rx))
  BY <1>1, AppendReports
<1>3. HeadTypes'
  BY <1>2 DEF Belief, HeadTypes, HeadsetClient!NoRemote
<1>4. Standing' /\ Sending' /\ RemoteDialed' /\ Timed'
  BY DEF Belief, Standing, Sending, RemoteDialed, Timed, HeadsetClient!NoRemote,
    HeadsetClient!NoFrame
<1>5. Present'
  <2>1. ASSUME NEW i \in 1..Len(rx'), rx'[i].kind = "link", rx'[i].up,
               \A j \in (i + 1)..Len(rx') : (rx'[j].kind = "link" => rx'[j].up)
        PROVE  headset.up
    <3>1. CASE i = Len(rx) + 1
      BY <1>2, <2>1, <3>1
    <3>2. CASE i \in 1..Len(rx)
      <4>1. \A j \in (i + 1)..Len(rx) : (rx[j].kind = "link" => rx[j].up)
        BY <1>2, <2>1
      <4> QED
        BY <1>2, <2>1, <3>2, <4>1 DEF Belief, Present
    <3> QED
      BY <1>2, <3>1, <3>2
  <2>2. g'.link = "up" /\ "link" \notin missed' /\ Whole(rx') => headset.up
    BY <1>2 DEF Belief, Present
  <2>3. \A i \in 1..Len(rx') :
          ((rx'[i].kind = "link" /\ rx'[i].up
            /\ (\A j \in (i + 1)..Len(rx') : (rx'[j].kind = "link" => rx'[j].up)))
           => headset.up)
    BY <2>1
  <2> QED
    BY <2>2, <2>3 DEF Present
<1>6. Heard'
  BY <1>1, SaidHeard DEF Belief
<1>7. (Trust' => Trust) /\ (Tells(2)' => Tells(2)) /\ (Told' => Told)
  BY <1>2 DEF Trust, Tells, Told
<1>8. /\ Reports(rx') => Reports(rx) \/ f.kind = "gain"
      /\ Last(rx, g.seen, headset.level) /\ f.kind # "gain" => Last(rx', g.seen, headset'.level)
      /\ f.kind = "gain" /\ Told' => Last(rx', g.seen, headset'.level)
  <2>1. /\ f.kind = "gain" => Last(rx', g.seen, f.level)
        /\ f.kind # "gain" => /\ Reports(rx') => Reports(rx)
                              /\ \A x : Last(rx, g.seen, x) => Last(rx', g.seen, x)
    BY <1>1, LastAppend
  <2> QED
    BY <2>1 DEF Told
<1>9. LastRead'
  BY <1>7, <1>8 DEF Belief, Latest, LastRead
<1>10. LastTrusted'
  BY <1>7, <1>8 DEF Belief, Latest, LastTrusted
<1>11. SeenTaken'
  BY <1>2, <1>7 DEF Belief, SeenTaken, Attends, HeadsetClient!NoRemote
<1> QED
  BY <1>3, <1>4, <1>5, <1>6, <1>9, <1>10, <1>11 DEF Belief, Latest

\* The headset goes, or comes back with a loudness of its own.
LEMMA BelieveLink ==
  ASSUME Belief, NEW u \in BOOLEAN, u # headset.up, NEW l \in Level,
         rx' = Append(rx, [kind |-> "link", up |-> u]), headset' = [level |-> l, up |-> u],
         echo' = {}, missed' = missed \cap {"link"},
         UNCHANGED <<g, wire, begun, sent, master, dialed>>
  PROVE  Belief'
<1> DEFINE f == [kind |-> "link", up |-> u]
<1>1. rx \in Seq(HeadFrame) /\ f \in HeadFrame /\ f.kind = "link" /\ f.up = u
  BY DEF Belief, HeadTypes, HeadFrame
<1>2. rx' = Append(rx, f)
  OBVIOUS
<1>3. headset'.up = u /\ headset'.level = l /\ headset' \in [level : Level, up : BOOLEAN]
  OBVIOUS
<1> HIDE DEF f
<1>4. /\ rx' \in Seq(HeadFrame) /\ Len(rx') = Len(rx) + 1 /\ Len(rx) \in Nat
      /\ \A i \in 1..Len(rx) : rx'[i] = rx[i]
      /\ rx'[Len(rx) + 1] = f /\ (Whole(rx') <=> Whole(rx) /\ u)
      /\ \A i \in 1..Len(rx) : (Comes(rx', i) <=> Comes(rx, i))
      /\ ~Comes(rx', Len(rx) + 1)
  BY <1>1, <1>2, AppendReports
<1>5. HeadTypes'
  BY <1>3, <1>4 DEF Belief, HeadTypes, HeadsetClient!NoRemote
<1>6. Standing' /\ Sending' /\ RemoteDialed' /\ Timed' /\ Echoing'
  BY DEF Belief, Standing, Sending, RemoteDialed, Timed, Echoing, HeadsetClient!NoRemote,
    HeadsetClient!NoFrame
<1>7. Present'
  <2>1. ASSUME NEW i \in 1..Len(rx'), rx'[i].kind = "link", rx'[i].up,
               \A j \in (i + 1)..Len(rx') : (rx'[j].kind = "link" => rx'[j].up)
        PROVE  u
    <3>1. i = Len(rx) + 1 \/ Len(rx) + 1 \in (i + 1)..Len(rx')
      BY <1>4
    <3> QED
      BY <1>1, <1>4, <2>1, <3>1
  <2>2. \A i \in 1..Len(rx') :
          ((rx'[i].kind = "link" /\ rx'[i].up
            /\ (\A j \in (i + 1)..Len(rx') : (rx'[j].kind = "link" => rx'[j].up)))
           => headset'.up)
    BY <1>3, <2>1
  <2>3. Whole(rx') => headset'.up
    BY <1>3, <1>4
  <2> QED
    BY <2>2, <2>3 DEF Present
\* A client that believes something has the link up, and the headset was there.
<1>8. /\ Trust' => Trust /\ ~Whole(rx')
      /\ \A o : Tells(o)' => Tells(o) /\ ~Whole(rx')
  <2>1. g.link = "up" /\ "link" \notin missed => ~Whole(rx')
    BY <1>4 DEF Belief, Present
  <2>2. Trust' => Trust /\ g.link = "up" /\ "link" \notin missed
    BY DEF Trust, Belief, Standing
  <2>3. \A o : Tells(o)' => Tells(o) /\ g.link = "up" /\ "link" \notin missed
    BY DEF Tells, Belief, Standing
  <2> QED
    BY <2>1, <2>2, <2>3
<1>9. Known' = Known /\ EchoKnown'
  BY DEF Known, EchoKnown
<1>10. ASSUME ~Whole(rx'), NEW i \in Nat, NEW x, After(rx, headset.level, Known, i, x)
       PROVE  After(rx', headset'.level, Known', i, x)
  <2>1. ASSUME NEW j \in (i + 1)..Len(rx'), Comes(rx', j)
        PROVE  rx'[j].level \in Known \cup {x}
    <3>1. j \in (i + 1)..Len(rx) /\ Comes(rx, j) /\ rx'[j] = rx[j]
      BY <1>4, <2>1
    <3> QED
      BY <1>10, <3>1 DEF After
  <2> QED
    BY <1>9, <1>10, <2>1 DEF After
<1>11. ~Whole(rx') => \A x : Shows(x) => Shows(x)'
  BY <1>10 DEF Shows
<1>12. Trusted'
  BY <1>8, <1>9, <1>11 DEF Belief, Heard, Trusted
<1>13. Writes'
  BY <1>9 DEF Writes
<1>14. ASSUME Tells(2)'
       PROVE  Answers'
  <2>1. Answers /\ ~Whole(rx')
    BY <1>8, <1>14 DEF Belief, Heard, Reads
  <2>2. ASSUME NEW i \in 1..Len(rx'), Comes(rx', i)
        PROVE  After(rx', headset'.level, Known', i, rx'[i].level)
    <3>1. i \in 1..Len(rx) /\ Comes(rx, i) /\ rx'[i] = rx[i] /\ i \in Nat
      BY <1>4, <2>2
    <3>2. After(rx, headset.level, Known, i, rx[i].level)
      BY <2>1, <3>1 DEF Answers
    <3> QED
      BY <1>10, <2>1, <3>1, <3>2
  <2>3. "matched" \in g'.flags => Shows(g.readback)'
    BY <1>11, <2>1 DEF Answers
  <2> QED
    BY <1>9, <2>2, <2>3 DEF Answers
<1>15. Latest' /\ SeenTaken'
  BY <1>8 DEF Latest, LastRead, LastTrusted, SeenTaken, Told
<1> QED
  BY <1>5, <1>6, <1>7, <1>12, <1>13, <1>14, <1>15 DEF Belief, Heard, Reads

\* A request leaves, and a write is performed, echoed or not.
LEMMA BelieveHear ==
  ASSUME Belief, HeadsetClient!Hear
  PROVE  Belief'
<1>1. PICK f \in wire :
        /\ wire' = {}
        /\ IF headset.up /\ f.op = 1
           THEN \/ /\ headset' = [headset EXCEPT !.level = f.level]
                   /\ echo' \in {{}, {[level |-> f.level, late |-> FALSE]}}
                \/ echo' = {} /\ UNCHANGED headset
           ELSE echo' = HeadsetClient!Overtaken /\ UNCHANGED headset
        /\ UNCHANGED <<sent, rx, g, begun, master, dialed, missed>>
  BY DEF HeadsetClient!Hear, HeadsetClient!Leave
<1>2. /\ f.op = g.op /\ f.level = g.submitted /\ g.phase = "drain"
  BY <1>1 DEF Belief, Sending
<1>3. /\ HeadsetClient!Active(g) /\ g.submitted \in Level
      /\ headset \in [level : Level, up : BOOLEAN]
      /\ echo \in SUBSET [level : Level, late : BOOLEAN]
  BY <1>2 DEF HeadsetClient!Active, HeadsetClient!Busy, Belief, HeadTypes
<1>4. g.submitted \in Known /\ Known' = Known
  BY <1>1, <1>3 DEF Known
<1>5. \A e \in HeadsetClient!Overtaken :
        /\ e \in [level : Level, late : BOOLEAN] /\ e.late
        /\ \E k \in echo : e.level = k.level
  BY <1>3 DEF HeadsetClient!Overtaken
\* What is there afterwards.
<1>6. /\ headset' \in [level : Level, up : BOOLEAN] /\ headset'.up = headset.up
      /\ headset'.level \in {headset.level, g.submitted}
      /\ echo' \in SUBSET [level : Level, late : BOOLEAN]
      /\ \A e \in echo' : e.level = g.submitted \/ \E k \in echo : e.level = k.level
      /\ \/ headset' = headset /\ echo' = HeadsetClient!Overtaken /\ ~(headset.up /\ g.op = 1)
         \/ /\ headset.up /\ g.op = 1
            /\ \A e \in echo' : e.level = g.submitted /\ headset'.level = e.level
  <2>1. CASE headset.up /\ f.op = 1
    <3>1. CASE /\ headset' = [headset EXCEPT !.level = f.level]
               /\ echo' \in {{}, {[level |-> f.level, late |-> FALSE]}}
      <4>1. /\ headset' \in [level : Level, up : BOOLEAN] /\ headset'.up = headset.up
            /\ headset'.level = g.submitted
        BY <1>2, <1>3, <3>1
      <4> DEFINE k == [level |-> f.level, late |-> FALSE]
      <4>2. k \in [level : Level, late : BOOLEAN] /\ k.level = g.submitted
        BY <1>2, <1>3
      <4>3. echo' \in {{}, {k}}
        BY <3>1
      <4> HIDE DEF k
      <4>4. \A e \in echo' : e \in [level : Level, late : BOOLEAN] /\ e.level = g.submitted
        BY <4>2, <4>3
      <4> QED
        BY <1>2, <2>1, <4>1, <4>4
    <3>2. CASE echo' = {} /\ UNCHANGED headset
      BY <1>2, <1>3, <2>1, <3>2
    <3> QED
      BY <1>1, <2>1, <3>1, <3>2
  <2>2. CASE ~(headset.up /\ f.op = 1)
    BY <1>1, <1>2, <1>3, <1>5, <2>2
  <2> QED
    BY <2>1, <2>2
<1>7. HeadTypes'
  BY <1>1, <1>6 DEF Belief, HeadTypes, HeadsetClient!NoRemote
<1>8. Standing' /\ Sending' /\ RemoteDialed' /\ Timed' /\ Present'
  BY <1>1, <1>6 DEF Belief, Standing, Sending, RemoteDialed, Timed, Present,
    HeadsetClient!NoRemote, HeadsetClient!NoFrame
<1>9. Echoing'
  <2>1. CASE headset' = headset /\ echo' = HeadsetClient!Overtaken
    BY <1>1, <1>5, <2>1 DEF Belief, Echoing
  <2>2. CASE \A e \in echo' : e.level = g.submitted /\ headset'.level = e.level
    BY <2>2 DEF Echoing
  <2> QED
    BY <1>6, <2>1, <2>2
<1>10. EchoKnown => EchoKnown'
  BY <1>1, <1>4, <1>6 DEF EchoKnown
<1>11. \A i, x : After(rx, headset.level, Known, i, x) => After(rx', headset'.level, Known', i, x)
  BY <1>1, <1>4, <1>6 DEF After
<1>12. (Trust' <=> Trust) /\ \A o : Tells(o)' <=> Tells(o)
  BY <1>1 DEF Trust, Tells
<1>13. Trusted'
  BY <1>1, <1>10, <1>11, <1>12 DEF Belief, Heard, Trusted, Shows
<1>14. Reads'
  <2>1. Answers => Answers'
    BY <1>1, <1>10, <1>11 DEF Answers, Shows
  <2> QED
    BY <1>12, <2>1 DEF Belief, Heard, Reads
<1>15. Writes'
  <2> SUFFICES ASSUME Tells(1), Whole(rx)
               PROVE  \A e \in echo' : e.level \in Known
    BY <1>1, <1>4, <1>12 DEF Writes, EchoKnown
  <2>1. headset.up /\ g.op = 1
    BY DEF Tells, Belief, Standing, Present
  <2> QED
    BY <1>4, <1>6, <2>1
<1>16. Latest' /\ SeenTaken'
  <2>1. Tells(2) => headset' = headset
    BY <1>6 DEF Tells
  <2>2. LastRead'
    BY <1>1, <1>12, <2>1 DEF Belief, Latest, LastRead, Told
  <2>3. LastTrusted'
    BY <1>1, <1>3 DEF LastTrusted
  <2>4. SeenTaken'
    BY <1>1, <1>12 DEF Belief, SeenTaken, Attends, HeadsetClient!NoRemote
  <2> QED
    BY <2>2, <2>3, <2>4 DEF Latest
<1> QED
  BY <1>7, <1>8, <1>9, <1>13, <1>14, <1>15, <1>16 DEF Belief, Heard

\* The host and the headset.
LEMMA BelieveWorld ==
  ASSUME Belief
  PROVE  /\ HeadsetClient!HostSets => Belief'
         /\ HeadsetClient!Hear => Belief'
         /\ HeadsetClient!Answer => Belief'
         /\ HeadsetClient!LoseAnswer => Belief'
         /\ HeadsetClient!Echoes => Belief'
         /\ HeadsetClient!Dials => Belief'
         /\ HeadsetClient!Links => Belief'
<1> USE DEF HeadsetClient!worldVars, HeadsetClient!lineVars
<1>1. /\ headset \in [level : Level, up : BOOLEAN]
      /\ echo \in SUBSET [level : Level, late : BOOLEAN]
  BY DEF Belief, HeadTypes
<1>2. ASSUME HeadsetClient!HostSets
      PROVE  Belief'
  <2>1. PICK l \in Level : master' = [level |-> l, rev |-> master.rev + 1]
    BY <1>2 DEF HeadsetClient!HostSets
  <2>2. UNCHANGED <<g, rx, headset, echo, dialed, wire, missed, begun, sent>>
    BY <1>2 DEF HeadsetClient!HostSets
  <2>3. HeadTypes'
    BY <2>1, <2>2 DEF Belief, HeadTypes, HeadsetClient!NoRemote
  <2>4. Timed'
    BY <2>2 DEF Belief, Timed, HeadsetClient!NoFrame
  <2> QED
    BY <2>2, <2>3, <2>4, BelieveSame
<1>3. ASSUME HeadsetClient!Answer
      PROVE  Belief'
  <2>1. UNCHANGED <<sent, wire, g, begun, master, headset, echo, dialed, missed>>
    BY <1>3 DEF HeadsetClient!Answer
  <2>2. PICK f : /\ rx' = Append(rx, f)
                 /\ \/ f = [kind |-> "bulk"]
                    \/ f = [kind |-> "gain", level |-> headset.level]
                    \/ \E w \in {"ack", "negative"} : f = [kind |-> "ack", op |-> 1, what |-> w]
    BY <1>3 DEF HeadsetClient!Answer, HeadsetClient!Give, HeadsetClient!GainFrame
  <2>3. f \in HeadFrame /\ f.kind # "link" /\ (f.kind = "gain" => f.level = headset.level)
    BY <1>1, <2>2 DEF HeadFrame
  <2>4. Echoing'
    BY <2>1 DEF Belief, Echoing
  <2> QED
    BY <1>1, <2>1, <2>2, <2>3, <2>4, BelieveSaid
<1>4. ASSUME HeadsetClient!LoseAnswer
      PROVE  Belief'
  <2>1. UNCHANGED <<sent, wire, rx, g, begun, master, headset, echo, dialed, missed>>
    BY <1>4 DEF HeadsetClient!LoseAnswer
  <2>2. HeadTypes' /\ Timed'
    BY <2>1 DEF Belief, HeadTypes, Timed, HeadsetClient!NoRemote, HeadsetClient!NoFrame
  <2> QED
    BY <2>1, <2>2, BelieveSame
<1>5. ASSUME HeadsetClient!Echoes
      PROVE  Belief'
  <2>1. PICK e \in echo :
          /\ rx' = Append(rx, [kind |-> "gain", level |-> e.level])
          /\ missed' = IF e.late THEN missed \cup {"echo"} ELSE missed
    BY <1>5 DEF HeadsetClient!Echoes, HeadsetClient!Says, HeadsetClient!GainFrame
  <2>2. echo' = {} /\ UNCHANGED <<sent, wire, g, begun, master, headset, dialed>>
    BY <1>5 DEF HeadsetClient!Echoes
  <2> DEFINE f == [kind |-> "gain", level |-> e.level]
  <2>3. f \in HeadFrame /\ f.kind = "gain" /\ f.level = e.level
    BY <1>1 DEF HeadFrame
  <2>4. rx' = Append(rx, f)
    BY <2>1
  <2> HIDE DEF f
  <2>5. Echoing'
    BY <2>2 DEF Echoing
  <2>6. f.level = headset.level \/ "echo" \in missed'
    BY <2>1, <2>3 DEF Belief, Echoing
  <2>7. missed \subseteq missed'
    BY <2>1
  <2> QED
    BY <1>1, <2>2, <2>3, <2>4, <2>5, <2>6, <2>7, BelieveSaid
<1>6. ASSUME HeadsetClient!Dials
      PROVE  Belief'
  <2>1. PICK l \in Level :
          /\ rx' = Append(rx, [kind |-> "gain", level |-> l])
          /\ headset' = [headset EXCEPT !.level = l]
          /\ dialed' = dialed \cup {l} /\ echo' = HeadsetClient!Overtaken
    BY <1>6 DEF HeadsetClient!Dials, HeadsetClient!Says, HeadsetClient!GainFrame
  <2>2. UNCHANGED <<sent, wire, g, begun, master, missed>>
    BY <1>6 DEF HeadsetClient!Dials
  <2> DEFINE f == [kind |-> "gain", level |-> l]
  <2>3. f \in HeadFrame /\ f.kind = "gain" /\ f.level = l
    BY DEF HeadFrame
  <2>4. rx' = Append(rx, f)
    BY <2>1
  <2> HIDE DEF f
  <2>5. /\ headset' \in [level : Level, up : BOOLEAN] /\ headset'.up = headset.up
        /\ headset'.level = l
    BY <1>1, <2>1
  <2>6. \A e \in echo' : /\ e \in [level : Level, late : BOOLEAN] /\ e.late
                         /\ \E k \in echo : e.level = k.level
    BY <1>1, <2>1 DEF HeadsetClient!Overtaken
  <2>7. Echoing'
    BY <2>1, <2>5, <2>6 DEF Echoing
  <2>8. /\ echo' \in SUBSET [level : Level, late : BOOLEAN]
        /\ dialed \subseteq dialed' /\ l \in dialed'
    BY <2>1, <2>6
  <2> QED
    BY <2>2, <2>3, <2>4, <2>5, <2>6, <2>7, <2>8, BelieveSaid
<1>7. ASSUME HeadsetClient!Links
      PROVE  Belief'
  <2>1. UNCHANGED <<sent, wire, g, begun, master, dialed>>
    BY <1>7 DEF HeadsetClient!Links
  <2>2. PICK u \in BOOLEAN, l \in Level :
          \/ /\ rx' = Append(rx, [kind |-> "link", up |-> headset.up])
             /\ UNCHANGED <<headset, echo, missed>>
          \/ /\ u # headset.up /\ rx' = Append(rx, [kind |-> "link", up |-> u])
             /\ headset' = [level |-> l, up |-> u] /\ echo' = {}
             /\ missed' = missed \cap {"link"}
    BY <1>7 DEF HeadsetClient!Links, HeadsetClient!Says
  <2>3. CASE /\ rx' = Append(rx, [kind |-> "link", up |-> headset.up])
             /\ UNCHANGED <<headset, echo, missed>>
    <3> DEFINE f == [kind |-> "link", up |-> headset.up]
    <3>1. f \in HeadFrame /\ f.kind = "link" /\ f.up = headset.up
      BY <1>1 DEF HeadFrame
    <3>2. rx' = Append(rx, f)
      BY <2>3
    <3> HIDE DEF f
    <3>3. Echoing'
      BY <2>1, <2>3 DEF Belief, Echoing
    <3> QED
      BY <1>1, <2>1, <2>3, <3>1, <3>2, <3>3, BelieveSaid
  <2>4. CASE /\ u # headset.up /\ rx' = Append(rx, [kind |-> "link", up |-> u])
             /\ headset' = [level |-> l, up |-> u] /\ echo' = {}
             /\ missed' = missed \cap {"link"}
    BY <2>1, <2>4, BelieveLink
  <2> QED
    BY <2>2, <2>3, <2>4
<1> QED
  BY <1>2, <1>3, <1>4, <1>5, <1>6, <1>7, BelieveHear


\* A client that has not begun believes nothing, and neither does one that has all its doubts.
LEMMA BeliefInit ==
  ASSUME HeadsetClient!Init
  PROVE  Belief
<1>1. PICK l \in Level :
        /\ master = [level |-> l, rev |-> 0]
        /\ g = [online |-> FALSE, phase |-> "idle", op |-> 0, primed |-> FALSE, have |-> FALSE,
                verified |-> l, desired |-> l, rev |-> 0, submitted |-> l, srev |-> 0,
                blocked |-> FALSE, cancel |-> FALSE, yielding |-> FALSE, link |-> "unknown",
                seen |-> HeadsetClient!None, remote |-> HeadsetClient!NoRemote, history |-> {},
                conflict |-> FALSE, flags |-> {}, readback |-> l]
  BY DEF HeadsetClient!Init
<1>2. /\ headset \in [level : Level, up : BOOLEAN] /\ echo = {} /\ rx = <<>> /\ wire = {}
      /\ begun = HeadsetClient!NoFrame
  BY DEF HeadsetClient!Init, HeadsetClient!LineInit
<1>3. /\ master.level \in Level /\ master = [level |-> master.level, rev |-> master.rev]
      /\ g.submitted \in Level /\ g.desired \in Level
      /\ g.remote = HeadsetClient!NoRemote /\ g.link = "unknown" /\ g.phase = "idle"
      /\ ~g.have /\ ~g.cancel
  BY <1>1
<1>4. ~HeadsetClient!Active(g)
  BY <1>3 DEF HeadsetClient!Active, HeadsetClient!Busy
<1>5. HeadTypes
  BY <1>2, <1>3 DEF HeadTypes
<1>6. Standing /\ Sending /\ Present /\ Echoing /\ RemoteDialed /\ Timed
  BY <1>2, <1>3, <1>4 DEF Standing, Sending, Present, Echoing, RemoteDialed, Timed
<1>7. ~Trust /\ ~Tells(1) /\ ~Tells(2)
  BY <1>3, <1>4 DEF Trust, Tells
<1> QED
  BY <1>5, <1>6, <1>7 DEF Belief, Heard, Trusted, Reads, Writes, Latest, LastRead, LastTrusted,
    SeenTaken

\* Every step of the headset's client and its peer, or none, leaves what is believed so; and
\* only a level that was dialed is taken.
LEMMA BeliefStep ==
  ASSUME HeadInv, Belief, HeadsetClient!Next
  PROVE  Belief' /\ HeadsetClient!TakesDialed
<1> USE DEF HeadsetClient!still, HeadsetClient!worldVars
<1>1. CASE HeadsetClient!TakeRemote
  BY <1>1, BelieveVolume
<1>2. CASE HeadsetClient!World
  <2>1. Belief'
    BY <1>2, BelieveWorld, BelievePort, BelieveFrames DEF HeadsetClient!World
  <2>2. master' = master \/ g' = g
    BY <1>2 DEF HeadsetClient!World, HeadsetClient!PortFails, HeadsetClient!CloseUart,
      HeadsetClient!Yield, HeadsetClient!FrameLost, HeadsetClient!HostSets, HeadsetClient!Hear,
      HeadsetClient!Answer, HeadsetClient!LoseAnswer, HeadsetClient!Echoes,
      HeadsetClient!Dials, HeadsetClient!Links
  <2> QED
    BY <2>1, <2>2 DEF HeadsetClient!TakesDialed
<1>3. CASE \/ HeadsetClient!ServiceBegins \/ HeadsetClient!PollStart \/ HeadsetClient!PollDefer
           \/ HeadsetClient!PollSend \/ HeadsetClient!PollDrain \/ HeadsetClient!PollRead
           \/ HeadsetClient!PollWait \/ HeadsetClient!PollGap \/ HeadsetClient!PollTimeout
           \/ HeadsetClient!Acquire \/ HeadsetClient!Release \/ HeadsetClient!FirstByte
           \/ HeadsetClient!RestOfFrame
  <2>1. Belief'
    BY <1>3, BelieveVolume, BelievePolls, BelieveWait, BelievePort, BelieveFrames
  <2>2. master' = master
    BY <1>3 DEF HeadsetClient!ServiceBegins, HeadsetClient!PollStart, HeadsetClient!PollDefer,
      HeadsetClient!PollSend, HeadsetClient!PollDrain, HeadsetClient!PollRead,
      HeadsetClient!PollWait, HeadsetClient!PollGap, HeadsetClient!PollTimeout,
      HeadsetClient!Acquire, HeadsetClient!Release, HeadsetClient!FirstByte,
      HeadsetClient!RestOfFrame, HeadsetClient!CloseUart
  <2> QED
    BY <2>1, <2>2 DEF HeadsetClient!TakesDialed
<1> QED
  BY <1>1, <1>2, <1>3 DEF HeadsetClient!Next, HeadsetClient!Service

\* Where nothing changes, what is believed stays so.
LEMMA BeliefStays ==
  ASSUME Belief, UNCHANGED <<g, rx, headset, echo, dialed, wire, missed, begun, sent, master>>
  PROVE  Belief'
<1>1. HeadTypes' /\ Timed'
  BY DEF Belief, HeadTypes, Timed, HeadsetClient!NoRemote, HeadsetClient!NoFrame
<1> QED
  BY <1>1, BelieveSame

\* What the client that is quiet believes is so: what the headset said last is what it has, and
\* that is the loudness verified or one that was set here.
LEMMA BelievedInStep ==
  ASSUME Belief
  PROVE  HeadsetClient!InStep
<1> SUFFICES ASSUME HeadsetClient!Quiet, missed = {}
             PROVE  HeadsetClient!Agreed
  BY DEF HeadsetClient!InStep
<1>1. /\ g.have /\ ~HeadsetClient!Busy(g) /\ g.phase # "deferred" /\ rx = <<>>
      /\ g.remote = HeadsetClient!NoRemote /\ ~g.yielding
  BY DEF HeadsetClient!Quiet, HeadsetClient!Settled, HeadsetClient!Ready, HeadsetClient!Boundary
<1>2. Trust /\ ~HeadsetClient!Active(g)
  BY <1>1 DEF Trust, Belief, Standing, HeadsetClient!Active
<1>3. Whole(rx) /\ Told /\ ~Reports(rx)
  BY <1>1 DEF Whole, Linked, Told, Reports
<1>4. headset.level = g.seen
  BY <1>2, <1>3 DEF Belief, Latest, LastTrusted, Last
<1>5. g.seen = g.verified \/ g.seen \in g.history
  BY <1>1, <1>2, <1>3 DEF Belief, SeenTaken, Attends
<1> QED
  BY <1>4, <1>5 DEF HeadsetClient!Agreed

-----------------------------------------------------------------------------
\* The menu's client.

\* The fields of the client, and the frames it hears.
MenuFields ==
  {"phase", "pending", "desired", "mode", "planned", "frames", "flags", "cancel", "fault", "link"}
IsMenu(r) == r = [f \in MenuFields |-> r[f]]
MenuOp == {"mode", "context"}
AckFrame ==
  [kind : {"ack"}, op : MenuOp, what : {"ack", "negative", "bad"}, fresh : BOOLEAN]
MenuFrame ==
  AckFrame \cup [kind : {"peer"}, mode : {"open", "closed"}] \cup [kind : {"back"}]
  \cup [kind : {"link"}, up : BOOLEAN]

\* What is under way has a frame to send, and what goes on with the next one has two.
HasFrames(r) ==
  /\ r.frames \in Seq(MenuOp)
  /\ MenuClient!Active(r) => r.frames # <<>>
  /\ r.phase = "gap" => Len(r.frames) > 1

MenuTypes ==
  /\ IsMenu(m) /\ HasFrames(m) /\ rx \in Seq(MenuFrame)
  /\ owed \in SUBSET AckFrame /\ \A a, b \in owed : a = b
  /\ dsp = [mode |-> dsp.mode, up |-> dsp.up]

\* Nothing is under way on a port that is closed, and the mode is not known then, nor of an
\* intent that was withdrawn on a port that stays; what is on the wire is what is under way.
MenuStands ==
  /\ m.fault => port = "closed"
  /\ port = "closed" => ~MenuClient!Active(m) /\ m.mode = "unknown"
  /\ m.phase \in {"drain", "wait"} => sent > 0
  /\ wire # {} => m.phase = "drain" /\ wire = {[op |-> Head(m.frames), mode |-> m.planned]}
  /\ port = "open" /\ MenuClient!Active(m) /\ m.cancel => m.mode = "unknown"

\* The frame f is an answer to what is under way.
IsFresh(f) == f.kind = "ack" /\ f.fresh
NoneFresh(q) == \A i \in 1..Len(q) : ~IsFresh(q[i])
\* There is at most one answer to what is under way, and none before it has left.
FreshOnce ==
  /\ m.phase = "send" \/ wire # {} =>
       m.flags = {} /\ NoneFresh(rx) /\ \A a \in owed : ~a.fresh
  /\ \A a \in owed : (a.fresh => m.flags = {} /\ NoneFresh(rx))
  /\ \A i \in 1..Len(rx) :
       (IsFresh(rx[i]) => m.flags = {} /\ \A j \in 1..Len(rx) : (IsFresh(rx[j]) => i = j))
  /\ m.flags \in {{}, {"ack"}, {"negative"}, {"bad"}}
AnsweredOnce == "late" \notin missed => FreshOnce

\* The headset is gone, as a frame says that waits; the DSP is asked for its mode, and says
\* or has said that it is in it.
Gone(q) == \E i \in 1..Len(q) : q[i].kind = "link" /\ ~q[i].up
Asked(r) == r.phase \in {"drain", "wait"} /\ Head(r.frames) = "mode"
Says(f) == IsFresh(f) /\ f.what = "ack"
Agrees == "ack" \in m.flags \/ (\E a \in owed : Says(a)) \/ \E i \in 1..Len(rx) : Says(rx[i])

\* The mode the client goes by is the DSP's, but for one that is gone or is being asked.
GoesBy ==
  /\ m.mode \in {"unknown", dsp.mode} \/ Gone(rx) \/ Asked(m)
  /\ Asked(m) /\ ~m.cancel /\ Agrees => dsp.mode = m.planned \/ Gone(rx)
Sure(s) == s \cap {"late", "deadline"} = {}
ModeKnown == Sure(missed) /\ port = "open" => GoesBy

\* The last event of q, from the k-th on, that is not the back key is the wish d of the client;
\* if there is none it wishes what the user sees, who is shown u.
OnlyBack(q, k) == \A j \in k..Len(q) : q[j] = "back"
Wanted(q, k, d, u) ==
  /\ \A j \in k..Len(q) : (q[j] # "back" /\ OnlyBack(q, j + 1) => d = q[j])
  /\ OnlyBack(q, k) => d \in {"none", u}
Lossless(s) == s \subseteq {"late", "deadline"}
MenuWish ==
  queue \in Seq({"open", "closed", "back"}) /\ (Lossless(missed) => Wanted(queue, 1, m.desired, ui))

MenuWork == MenuTypes /\ MenuStands /\ AnsweredOnce /\ ModeKnown
MenuInv == MenuWork /\ MenuWish

\* What is given up is over, and the mode is not known if it was being asked for.
LEMMA FinishEnds ==
  ASSUME NEW r, IsMenu(r), NEW q, q = MenuClient!Finish(r)
  PROVE  /\ IsMenu(q) /\ q.phase = "over" /\ q.frames = <<>> /\ q.flags = {}
         /\ q.mode \in {r.mode, "unknown"}
         /\ MenuClient!Unsure(r) => q.mode = "unknown"
         /\ \A f \in {"pending", "desired", "planned", "fault", "link"} : q[f] = r[f]
<1>1. /\ IsMenu(q) /\ q.phase = "over" /\ q.frames = <<>> /\ q.flags = {}
      /\ q.mode = IF MenuClient!Unsure(r) THEN "unknown" ELSE r.mode
      /\ \A f \in {"pending", "desired", "planned", "fault", "link"} : q[f] = r[f]
  BY DEF IsMenu, MenuFields, MenuClient!Finish
<1> QED
  BY <1>1

\* A withdrawal: what is under way is given up or is cancelled.
LEMMA YieldedEnds ==
  ASSUME NEW r, IsMenu(r), NEW q, q = MenuClient!Yielded(r)
  PROVE  /\ IsMenu(q)
         /\ \A f \in {"desired", "planned", "fault", "link"} : q[f] = r[f]
         /\ \/ /\ ~MenuClient!Active(r) /\ q.phase = "over"
               /\ \A f \in {"frames", "flags", "mode", "cancel"} : q[f] = r[f]
            \/ /\ MenuClient!Active(r)
               /\ r.phase \in {"gap", "wait"} \/ (r.phase = "send" /\ sent = 0)
               /\ q.phase = "over" /\ q.frames = <<>> /\ q.flags = {}
               /\ q.mode \in {r.mode, "unknown"}
               /\ MenuClient!Unsure(r) => q.mode = "unknown"
            \/ /\ MenuClient!Active(r) /\ r.phase \in {"send", "drain"} /\ q.cancel
               /\ \A f \in {"phase", "frames", "flags", "mode"} : q[f] = r[f]
<1> DEFINE p == [r EXCEPT !.pending = {}]
<1>1. IsMenu(p) /\ \A f \in MenuFields \ {"pending"} : p[f] = r[f]
  BY DEF IsMenu, MenuFields
<1>2. q = IF ~MenuClient!Active(r) THEN [p EXCEPT !.phase = "over"]
          ELSE IF r.phase \in {"gap", "wait"} \/ (r.phase = "send" /\ sent = 0)
          THEN MenuClient!Finish(p) ELSE [p EXCEPT !.cancel = TRUE]
  BY DEF MenuClient!Yielded
<1> HIDE DEF p
<1>3. MenuClient!Unsure(p) <=> MenuClient!Unsure(r)
  BY <1>1 DEF MenuClient!Unsure, MenuFields
<1>4. CASE ~MenuClient!Active(r)
  <2>1. q = [p EXCEPT !.phase = "over"]
    BY <1>2, <1>4
  <2>2. IsMenu(q) /\ q.phase = "over" /\ \A f \in MenuFields \ {"phase"} : q[f] = p[f]
    BY <1>1, <2>1 DEF IsMenu, MenuFields
  <2> QED
    BY <1>1, <1>4, <2>2 DEF MenuFields
<1>5. CASE MenuClient!Active(r) /\ (r.phase \in {"gap", "wait"} \/ (r.phase = "send" /\ sent = 0))
  <2>1. q = MenuClient!Finish(p)
    BY <1>2, <1>5
  <2> QED
    BY <1>1, <1>3, <1>5, <2>1, FinishEnds DEF MenuFields
<1>6. CASE MenuClient!Active(r) /\ ~(r.phase \in {"gap", "wait"} \/ (r.phase = "send" /\ sent = 0))
  <2>1. q = [p EXCEPT !.cancel = TRUE]
    BY <1>2, <1>6
  <2>2. IsMenu(q) /\ q.cancel /\ \A f \in MenuFields \ {"cancel"} : q[f] = p[f]
    BY <1>1, <2>1 DEF IsMenu, MenuFields
  <2>3. r.phase \in {"send", "drain"}
    BY <1>6 DEF MenuClient!Active
  <2> QED
    BY <1>1, <1>6, <2>2, <2>3 DEF MenuFields
<1> QED
  BY <1>4, <1>5, <1>6

\* The port is given back: nothing is under way, and the mode is not known.
LEMMA ReleasedEnds ==
  ASSUME NEW r, IsMenu(r), NEW q, q = MenuClient!Released(r)
  PROVE  /\ IsMenu(q) /\ ~MenuClient!Active(q) /\ q.mode = "unknown" /\ q.desired = r.desired
         /\ q.frames \in {r.frames, <<>>} /\ q.flags \in {r.flags, {}} /\ q.phase = "over"
<1> DEFINE b == [r EXCEPT !.fault = @ \/ r.phase = "drain" \/ (r.phase = "send" /\ sent > 0)]
           y == MenuClient!Yielded(b)
           e == IF MenuClient!Active(y) THEN MenuClient!Finish(y) ELSE y
<1>1. IsMenu(b) /\ \A f \in MenuFields \ {"fault"} : b[f] = r[f]
  BY DEF IsMenu, MenuFields
<1>2. q = [e EXCEPT !.mode = "unknown", !.link = "unknown"]
  BY DEF MenuClient!Released
<1> HIDE DEF b
<1>3. /\ IsMenu(y) /\ y.desired = b.desired
      /\ ~MenuClient!Active(y) =>
           y.frames \in {b.frames, <<>>} /\ y.flags \in {b.flags, {}} /\ y.phase = "over"
  BY <1>1, YieldedEnds DEF MenuClient!Active
<1> HIDE DEF y
<1>6. e = IF MenuClient!Active(y) THEN MenuClient!Finish(y) ELSE y
  OBVIOUS
<1> HIDE DEF e
<1>4. /\ IsMenu(e) /\ e.desired = b.desired /\ e.phase = "over"
      /\ e.frames \in {b.frames, <<>>} /\ e.flags \in {b.flags, {}}
  <2>1. CASE MenuClient!Active(y)
    <3>1. e = MenuClient!Finish(y)
      BY <1>6, <2>1
    <3>2. e.desired = y.desired /\ IsMenu(e) /\ e.phase = "over" /\ e.frames = <<>> /\ e.flags = {}
      BY <1>3, <3>1, FinishEnds
    <3> QED
      BY <1>3, <3>2
  <2>2. CASE ~MenuClient!Active(y)
    <3>1. e = y
      BY <1>6, <2>2
    <3> QED
      BY <1>3, <2>2, <3>1
  <2> QED
    BY <2>1, <2>2
<1>5. /\ IsMenu(q) /\ q.mode = "unknown"
      /\ \A f \in MenuFields \ {"mode", "link"} : q[f] = e[f]
  BY <1>2, <1>4 DEF IsMenu, MenuFields
<1> QED
  BY <1>1, <1>4, <1>5 DEF MenuFields, MenuClient!Active

\* The headset's own change of the menu: it is wanted, and what is under way goes on.
LEMMA PeerModeWanted ==
  ASSUME NEW r, IsMenu(r), ~r.fault, NEW open, NEW q, q = MenuClient!PeerMode(r, open)
  PROVE  /\ IsMenu(q) /\ q.desired = open
         /\ MenuClient!Active(r) => q.phase = r.phase
         /\ ~MenuClient!Active(r) => ~MenuClient!Active(q)
         /\ \A f \in MenuFields \ {"phase", "pending", "desired"} : q[f] = r[f]
<1>1. CASE MenuClient!Duplicate(r, open)
  <2>1. q = r
    BY <1>1 DEF MenuClient!PeerMode
  <2> QED
    BY <1>1, <2>1 DEF MenuClient!Duplicate
<1>2. CASE ~MenuClient!Duplicate(r, open)
  <2>1. PICK p : q = [r EXCEPT !.pending = p, !.desired = open,
                             !.phase = IF MenuClient!Active(r) THEN @ ELSE "queued"]
    BY <1>2 DEF MenuClient!PeerMode, MenuClient!Queue
  <2>2. /\ IsMenu(q) /\ q.desired = open
        /\ MenuClient!Active(r) => q.phase = r.phase
        /\ ~MenuClient!Active(r) => q.phase = "queued"
        /\ \A f \in MenuFields \ {"phase", "pending", "desired"} : q[f] = r[f]
    BY <2>1 DEF IsMenu, MenuFields, MenuClient!Active
  <2>3. ~MenuClient!Active(r) => ~MenuClient!Active(q)
    BY <2>2 DEF MenuClient!Active
  <2> QED
    BY <2>2, <2>3
<1> QED
  BY <1>1, <1>2

\* A report that the headset is there: what is wanted stays, and so does what is under way.
LEMMA LinkUpGoesOn ==
  ASSUME NEW r, IsMenu(r), NEW q, q = MenuClient!LinkReport(r, TRUE)
  PROVE  /\ IsMenu(q)
         /\ MenuClient!Active(r) => q.phase = r.phase
         /\ ~MenuClient!Active(r) => ~MenuClient!Active(q)
         /\ \A f \in MenuFields \ {"phase", "pending", "link"} : q[f] = r[f]
<1> DEFINE u == [r EXCEPT !.link = "up"]
<1>1. IsMenu(u) /\ \A f \in MenuFields \ {"link"} : u[f] = r[f]
  BY DEF IsMenu, MenuFields
<1>2. \/ q = u
      \/ r.desired = "open" /\ q = MenuClient!Queue(u, "open", FALSE, TRUE)
  BY DEF MenuClient!LinkReport
<1> HIDE DEF u
<1>3. u.phase = r.phase /\ u.desired = r.desired /\ (MenuClient!Active(u) <=> MenuClient!Active(r))
  BY <1>1 DEF MenuFields, MenuClient!Active
<1>4. CASE q = u
  BY <1>1, <1>3, <1>4
<1>5. CASE r.desired = "open" /\ q = MenuClient!Queue(u, "open", FALSE, TRUE)
  <2>1. /\ IsMenu(q) /\ q.desired = "open"
        /\ MenuClient!Active(u) => q.phase = u.phase
        /\ ~MenuClient!Active(u) => q.phase = "queued"
        /\ \A f \in MenuFields \ {"phase", "pending", "desired"} : q[f] = u[f]
    <3>1. PICK p : q = [u EXCEPT !.pending = p, !.desired = "open",
                               !.phase = IF MenuClient!Active(u) THEN @ ELSE "queued"]
      BY <1>5 DEF MenuClient!Queue
    <3> QED
      BY <1>1, <3>1 DEF IsMenu, MenuFields, MenuClient!Active
  <2>2. q.desired = r.desired
    BY <1>5, <2>1
  <2>3. ~MenuClient!Active(r) => ~MenuClient!Active(q)
    BY <1>3, <2>1 DEF MenuClient!Active
  <2>4. \A f \in MenuFields \ {"phase", "pending", "desired", "link"} : q[f] = r[f]
    BY <1>1, <2>1
  <2> QED
    BY <1>3, <2>1, <2>2, <2>3, <2>4
<1> QED
  BY <1>2, <1>4, <1>5

\* A report that it is gone: the mode is not known, and what is under way is given up.
LEMMA LinkDownEnds ==
  ASSUME NEW r, IsMenu(r), NEW q, q = MenuClient!LinkReport(r, FALSE)
  PROVE  /\ IsMenu(q) /\ q.mode = "unknown"
         /\ \A f \in {"desired", "planned", "fault"} : q[f] = r[f]
         /\ \/ /\ ~MenuClient!Active(q) /\ r.phase # "drain"
               /\ q.frames \in {r.frames, <<>>} /\ q.flags \in {r.flags, {}}
            \/ /\ MenuClient!Active(r) /\ q.cancel
               /\ \A f \in {"phase", "frames", "flags"} : q[f] = r[f]
<1> DEFINE d == [r EXCEPT !.link = "down", !.mode = "unknown"]
<1>1. IsMenu(d) /\ d.mode = "unknown" /\ \A f \in MenuFields \ {"link", "mode"} : d[f] = r[f]
  BY DEF IsMenu, MenuFields
<1>2. q = MenuClient!Yielded(d)
  BY DEF MenuClient!LinkReport
<1> HIDE DEF d
<1>3. /\ d.phase = r.phase /\ d.desired = r.desired /\ d.planned = r.planned /\ d.fault = r.fault
      /\ d.frames = r.frames /\ d.flags = r.flags
      /\ MenuClient!Active(d) <=> MenuClient!Active(r)
  BY <1>1 DEF MenuFields, MenuClient!Active
<1>4. /\ IsMenu(q)
      /\ \A f \in {"desired", "planned", "fault", "link"} : q[f] = d[f]
      /\ \/ /\ ~MenuClient!Active(d) /\ q.phase = "over"
            /\ \A f \in {"frames", "flags", "mode", "cancel"} : q[f] = d[f]
         \/ /\ MenuClient!Active(d)
            /\ d.phase \in {"gap", "wait"} \/ (d.phase = "send" /\ sent = 0)
            /\ q.phase = "over" /\ q.frames = <<>> /\ q.flags = {}
            /\ q.mode \in {d.mode, "unknown"}
            /\ MenuClient!Unsure(d) => q.mode = "unknown"
         \/ /\ MenuClient!Active(d) /\ d.phase \in {"send", "drain"} /\ q.cancel
            /\ \A f \in {"phase", "frames", "flags", "mode"} : q[f] = d[f]
  <2>1. IsMenu(d)
    BY <1>1
  <2> QED
    BY <1>2, <2>1, YieldedEnds, Zenon
<1>5. q.mode = "unknown"
  BY <1>1, <1>4
<1>6. \A f \in {"desired", "planned", "fault"} : q[f] = r[f]
  BY <1>3, <1>4
<1>7. \/ /\ q.phase = "over" /\ ~(MenuClient!Active(r) /\ r.phase = "drain")
         /\ q.frames \in {r.frames, <<>>} /\ q.flags \in {r.flags, {}}
      \/ /\ MenuClient!Active(r) /\ q.cancel
         /\ \A f \in {"phase", "frames", "flags"} : q[f] = r[f]
  BY <1>3, <1>4
<1> QED
  BY <1>4, <1>5, <1>6, <1>7 DEF MenuClient!Active

\* What is under way goes on in q as in r.
GoesOn(r, q) ==
  /\ MenuClient!Active(r) => q.phase = r.phase
  /\ ~MenuClient!Active(r) => ~MenuClient!Active(q)
  /\ \A f \in {"mode", "planned", "frames", "flags", "cancel", "fault"} : q[f] = r[f]

\* The losses of t are those of s, of the answers and of what asks for the mode.
SameDoubt(s, t) ==
  ("late" \in t <=> "late" \in s) /\ ("deadline" \in t <=> "deadline" \in s)

\* Where what is under way goes on and nothing else happens, it stays as it has to be.
LEMMA WorkGoesOn ==
  ASSUME MenuWork, IsMenu(m'), GoesOn(m, m'), SameDoubt(missed, missed'),
         UNCHANGED <<rx, owed, wire, sent, port, dsp>>
  PROVE  MenuWork'
<1>1. /\ MenuClient!Active(m') <=> MenuClient!Active(m)
      /\ \A p \in {"send", "drain", "wait", "gap"} : m'.phase = p <=> m.phase = p
  BY DEF GoesOn, MenuClient!Active
<1>2. /\ m'.mode = m.mode /\ m'.planned = m.planned /\ m'.frames = m.frames
      /\ m'.flags = m.flags /\ m'.cancel = m.cancel /\ m'.fault = m.fault
  BY DEF GoesOn
<1>3. MenuTypes'
  BY <1>1, <1>2 DEF MenuWork, MenuTypes, HasFrames
<1>4. MenuStands'
  BY <1>1, <1>2 DEF MenuWork, MenuStands
<1>5. AnsweredOnce'
  BY <1>1, <1>2 DEF MenuWork, AnsweredOnce, FreshOnce, NoneFresh, SameDoubt
<1>6. Asked(m') <=> Asked(m)
  BY <1>1, <1>2 DEF Asked
<1>7. Agrees' <=> Agrees
  BY <1>2 DEF Agrees
<1>8. Sure(missed') <=> Sure(missed)
  BY DEF Sure, SameDoubt
<1>9. ModeKnown'
  BY <1>2, <1>6, <1>7, <1>8 DEF MenuWork, ModeKnown, GoesBy
<1> QED
  BY <1>3, <1>4, <1>5, <1>9 DEF MenuWork

\* Where the port is closed, nothing is under way.
LEMMA WorkCloses ==
  ASSUME MenuWork, IsMenu(m'), ~MenuClient!Active(m'), m'.mode = "unknown",
         m'.frames \in Seq(MenuOp), m'.flags \in {m.flags, {}}, port' = "closed",
         rx' = <<>>, owed' = {}, wire' = {}, missed' = missed, dsp' = dsp
  PROVE  MenuWork'
<1>1. m'.phase \notin {"send", "drain", "wait", "gap"}
  BY DEF MenuClient!Active
<1>2. MenuTypes'
  BY <1>1 DEF MenuWork, MenuTypes, HasFrames
<1>3. MenuStands'
  BY <1>1 DEF MenuStands
<1>4. AnsweredOnce'
  BY <1>1 DEF MenuWork, AnsweredOnce, FreshOnce, NoneFresh
<1> QED
  BY <1>2, <1>3, <1>4 DEF MenuWork, ModeKnown

\* Where what is under way is given up, the mode is not known if it was being asked for.
LEMMA WorkEnds ==
  ASSUME MenuWork, IsMenu(m'), ~MenuClient!Active(m'), m'.fault = m.fault,
         m'.frames \in Seq(MenuOp), m'.flags \in {m.flags, {}},
         m'.mode \in {m.mode, "unknown"},
         Asked(m) => m'.mode = "unknown" \/ "deadline" \in missed',
         "late" \in missed' <=> "late" \in missed, "deadline" \in missed => "deadline" \in missed',
         wire = {}, port' = port \/ (port = "open" /\ port' = "yielding"),
         UNCHANGED <<rx, owed, wire, dsp>>
  PROVE  MenuWork'
<1>1. m'.phase \notin {"send", "drain", "wait", "gap"}
  BY DEF MenuClient!Active
<1>2. MenuTypes'
  BY <1>1 DEF MenuWork, MenuTypes, HasFrames
<1>3. MenuStands'
  BY <1>1 DEF MenuWork, MenuStands
<1>4. AnsweredOnce'
  BY <1>1 DEF MenuWork, AnsweredOnce, FreshOnce, NoneFresh
<1>5. ModeKnown'
  <2> SUFFICES ASSUME Sure(missed'), port' = "open"
               PROVE  GoesBy'
    BY DEF ModeKnown
  <2>1. Sure(missed) /\ port = "open" /\ "deadline" \notin missed'
    BY DEF Sure
  <2>2. GoesBy
    BY <2>1 DEF MenuWork, ModeKnown
  <2>3. ~Asked(m')
    BY <1>1 DEF Asked
  <2>4. m'.mode \in {"unknown", dsp.mode} \/ Gone(rx)
    BY <2>1, <2>2 DEF GoesBy
  <2> QED
    BY <2>3, <2>4 DEF GoesBy
<1> QED
  BY <1>2, <1>3, <1>4, <1>5 DEF MenuWork

\* What is wanted stays wanted, if nothing is taken and nothing shown.
LEMMA WishStays ==
  ASSUME MenuWish, m'.desired = m.desired, UNCHANGED <<queue, ui>>,
         Lossless(missed') => Lossless(missed)
  PROVE  MenuWish'
BY DEF MenuWish

\* A sequence of frames has some if it is not empty, and some after the first if it has two.
LEMMA FramesLeft ==
  ASSUME NEW q \in Seq(MenuOp)
  PROVE  /\ q # <<>> /\ Len(q) # 1 => Len(q) > 1
         /\ Len(q) > 1 => Tail(q) \in Seq(MenuOp) /\ Tail(q) # <<>>
<1>1. Len(q) \in Nat /\ (q # <<>> => Len(q) > 0)
  OBVIOUS
<1>2. q # <<>> /\ Len(q) # 1 => Len(q) > 1
  <2> DEFINE n == Len(q)
  <2>1. n \in Nat /\ (q # <<>> => n > 0)
    BY <1>1
  <2> HIDE DEF n
  <2>2. q # <<>> /\ n # 1 => n > 1
    BY <2>1
  <2> QED
    BY <2>2 DEF n
<1>3. ASSUME Len(q) > 1
      PROVE  Tail(q) \in Seq(MenuOp) /\ Tail(q) # <<>>
  <2> DEFINE t == Tail(q)
  <2>1. t \in Seq(MenuOp) /\ Len(t) = Len(q) - 1
    BY <1>3
  <2> HIDE DEF t
  <2>2. Len(t) > 0
    BY <1>1, <1>3, <2>1
  <2>3. t # <<>>
    BY <2>2
  <2> QED
    BY <2>1, <2>3 DEF t
<1> QED
  BY <1>2, <1>3

\* A plan: it has frames to send, or it is accepted without.
LEMMA PlanStarts ==
  ASSUME IsMenu(m), NEW p, NEW q, q = MenuClient!Plan(p)
  PROVE  /\ IsMenu(q) /\ HasFrames(q) /\ q.flags = {} /\ ~q.cancel
         /\ \A f \in {"desired", "mode", "fault"} : q[f] = m[f]
         /\ \/ q.phase = "over" /\ ~MenuClient!Active(q)
            \/ q.phase = "send"
<1> DEFINE first == IF p.force \/ m.mode # p.open THEN <<"mode">> ELSE <<>>
           second == IF p.context THEN <<"context">> ELSE <<>>
           o == first \o second
           r == [m EXCEPT !.planned = p.open, !.frames = o, !.flags = {}, !.cancel = FALSE,
                          !.pending = {}, !.phase = "send"]
<1>1. o \in Seq(MenuOp)
  <2>1. <<"mode">> \in Seq(MenuOp) /\ <<"context">> \in Seq(MenuOp) /\ <<>> \in Seq(MenuOp)
    BY DEF MenuOp
  <2>2. first \in Seq(MenuOp) /\ second \in Seq(MenuOp)
    BY <2>1
  <2> HIDE DEF first, second
  <2> QED
    BY <2>2
<1>2. q = IF o = <<>> THEN MenuClient!Accepted(r) ELSE r
  BY DEF MenuClient!Plan
<1> HIDE DEF first, second, o
<1>3. /\ IsMenu(r) /\ r.phase = "send" /\ r.frames = o /\ r.flags = {} /\ ~r.cancel
      /\ \A f \in {"desired", "mode", "fault"} : r[f] = m[f]
  BY DEF IsMenu, MenuFields
<1> HIDE DEF r
<1>4. CASE o = <<>>
  <2>1. q = [r EXCEPT !.phase = "over", !.frames = <<>>, !.flags = {}]
    BY <1>2, <1>4 DEF MenuClient!Accepted
  <2>2. /\ IsMenu(q) /\ q.phase = "over" /\ q.frames = <<>> /\ q.flags = {} /\ q.cancel = r.cancel
        /\ \A f \in {"desired", "mode", "fault"} : q[f] = r[f]
    BY <1>3, <2>1 DEF IsMenu, MenuFields
  <2>3. ~MenuClient!Active(q) /\ HasFrames(q)
    BY <2>2 DEF HasFrames, MenuClient!Active
  <2> QED
    BY <1>3, <2>2, <2>3
<1>5. CASE o # <<>>
  <2>1. q = r
    BY <1>2, <1>5
  <2>2. HasFrames(q)
    BY <1>1, <1>3, <1>5, <2>1 DEF HasFrames
  <2> QED
    BY <1>3, <2>1, <2>2
<1> QED
  BY <1>4, <1>5

\* Nothing is an answer to what is going to be sent.
LEMMA StaleNone ==
  ASSUME MenuTypes, MenuClient!Stale
  PROVE  /\ owed' \in SUBSET AckFrame /\ \A a, b \in owed' : a = b
         /\ \A a \in owed' : ~a.fresh
<1>1. \A a \in owed : /\ [a EXCEPT !.fresh = FALSE] \in AckFrame
                      /\ ~[a EXCEPT !.fresh = FALSE].fresh
  BY DEF MenuTypes, AckFrame
<1>2. owed' = {[a EXCEPT !.fresh = FALSE] : a \in owed} /\ \A a, b \in owed : a = b
  BY DEF MenuTypes, MenuClient!Stale
<1> QED
  BY <1>1, <1>2

\* A transfer begins, or goes on with its next frame: nothing is heard of it yet.
LEMMA WorkBegins ==
  ASSUME MenuWork, IsMenu(m'), HasFrames(m'), m'.phase = "send", m'.flags = {}, ~m.fault,
         m'.mode = m.mode, m'.fault = m.fault,
         ~m'.cancel \/ (m'.cancel = m.cancel /\ MenuClient!Active(m)),
         port = "open", MenuClient!Boundary, ~Asked(m), MenuClient!Stale,
         UNCHANGED <<wire, rx, port, missed, dsp>>
  PROVE  MenuWork'
<1>1. wire = {} /\ rx = <<>>
  BY DEF MenuClient!Boundary, MenuClient!Drained
<1>2. MenuTypes'
  BY StaleNone DEF MenuWork, MenuTypes
<1>3. MenuStands'
  BY <1>1 DEF MenuWork, MenuStands
<1>4. AnsweredOnce'
  BY <1>1, StaleNone DEF MenuWork, AnsweredOnce, FreshOnce, NoneFresh
<1>5. ~Asked(m')
  BY DEF Asked
<1>6. ModeKnown'
  BY <1>1, <1>5 DEF MenuWork, ModeKnown, GoesBy
<1> QED
  BY <1>2, <1>3, <1>4, <1>6 DEF MenuWork

\* The polls that begin a transfer, or give up what waits.
LEMMA MenuBegins ==
  ASSUME MenuInv
  PROVE  /\ MenuClient!PollExpire => MenuInv'
         /\ MenuClient!PollStart => MenuInv'
         /\ MenuClient!PollGap => MenuInv'
<1> USE DEF MenuClient!still, MenuClient!uiVars, MenuClient!worldVars, MenuClient!lineVars
<1>1. IsMenu(m) /\ MenuWork /\ MenuWish
  BY DEF MenuInv, MenuWork, MenuTypes
<1>2. ASSUME MenuClient!PollExpire
      PROVE  MenuInv'
  <2>1. m' = [m EXCEPT !.pending = {}, !.phase = IF MenuClient!Active(m) THEN @ ELSE "over"]
    BY <1>2 DEF MenuClient!PollExpire
  <2>2. /\ IsMenu(m') /\ m'.desired = m.desired
        /\ MenuClient!Active(m) => m'.phase = m.phase
        /\ ~MenuClient!Active(m) => m'.phase = "over"
        /\ \A f \in {"mode", "planned", "frames", "flags", "cancel", "fault"} : m'[f] = m[f]
    BY <1>1, <2>1 DEF IsMenu, MenuFields
  <2>3. GoesOn(m, m')
    BY <2>2 DEF GoesOn, MenuClient!Active
  <2>4. UNCHANGED <<rx, owed, wire, sent, port, dsp, missed, queue, ui>>
    BY <1>2 DEF MenuClient!PollExpire
  <2>5. SameDoubt(missed, missed')
    BY <2>4 DEF SameDoubt
  <2> QED
    BY <1>1, <2>2, <2>3, <2>4, <2>5, WorkGoesOn, WishStays DEF MenuInv
<1>3. ASSUME MenuClient!PollStart
      PROVE  MenuInv'
  <2>1. PICK p : m' = MenuClient!Plan(p)
    BY <1>3 DEF MenuClient!PollStart
  <2>2. /\ IsMenu(m') /\ HasFrames(m') /\ m'.flags = {} /\ ~m'.cancel
        /\ \A f \in {"desired", "mode", "fault"} : m'[f] = m[f]
        /\ \/ m'.phase = "over" /\ ~MenuClient!Active(m')
           \/ m'.phase = "send"
    BY <1>1, <2>1, PlanStarts
  <2>3. /\ port = "open" /\ ~MenuClient!Active(m) /\ ~m.fault /\ MenuClient!Boundary
        /\ MenuClient!Stale /\ UNCHANGED <<wire, rx, port, missed, dsp, queue, ui>>
    BY <1>3 DEF MenuClient!PollStart
  <2>4. ~Asked(m)
    BY <2>3 DEF Asked, MenuClient!Active
  <2>5. CASE m'.phase = "send"
    BY <1>1, <2>2, <2>3, <2>4, <2>5, WorkBegins, WishStays DEF MenuInv
  <2>6. CASE m'.phase = "over" /\ ~MenuClient!Active(m')
    <3>1. wire = {} /\ rx = <<>>
      BY <2>3 DEF MenuClient!Boundary, MenuClient!Drained
    <3>2. MenuTypes'
      BY <1>1, <2>2, <2>3, StaleNone DEF MenuWork, MenuTypes
    <3>3. MenuStands'
      BY <1>1, <2>2, <2>3, <2>6, <3>1 DEF MenuWork, MenuStands
    <3>4. AnsweredOnce'
      BY <1>1, <2>2, <2>3, <2>6, <3>1, StaleNone DEF MenuWork, AnsweredOnce, FreshOnce, NoneFresh
    <3>5. ~Asked(m')
      BY <2>6 DEF Asked
    <3>6. ModeKnown'
      BY <1>1, <2>2, <2>3, <2>4, <3>5 DEF MenuWork, ModeKnown, GoesBy
    <3> QED
      BY <1>1, <2>2, <2>3, <3>2, <3>3, <3>4, <3>6, WishStays DEF MenuInv, MenuWork
  <2> QED
    BY <2>2, <2>5, <2>6
<1>4. ASSUME MenuClient!PollGap
      PROVE  MenuInv'
  <2>1. /\ m.phase = "gap" /\ port = "open" /\ MenuClient!Boundary /\ MenuClient!Stale
        /\ m' = [m EXCEPT !.phase = "send", !.frames = Tail(@), !.flags = {}]
        /\ UNCHANGED <<wire, rx, port, missed, dsp, queue, ui>>
    BY <1>4 DEF MenuClient!PollGap
  <2>2. /\ IsMenu(m') /\ m'.phase = "send" /\ m'.frames = Tail(m.frames) /\ m'.flags = {}
        /\ m'.mode = m.mode /\ m'.desired = m.desired /\ m'.fault = m.fault
        /\ m'.cancel = m.cancel
    BY <1>1, <2>1 DEF IsMenu, MenuFields
  <2>3. m.frames \in Seq(MenuOp) /\ Len(m.frames) > 1
    BY <1>1, <2>1 DEF MenuWork, MenuTypes, HasFrames
  <2>4. Tail(m.frames) \in Seq(MenuOp) /\ Tail(m.frames) # <<>>
    BY <2>3, FramesLeft
  <2>5. HasFrames(m')
    BY <2>2, <2>4 DEF HasFrames
  <2>6. MenuClient!Active(m) /\ ~Asked(m) /\ ~m.fault
    BY <1>1, <2>1 DEF MenuWork, MenuStands, Asked, MenuClient!Active
  <2> QED
    BY <1>1, <2>1, <2>2, <2>5, <2>6, WorkBegins, WishStays DEF MenuInv
<1> QED
  BY <1>2, <1>3, <1>4

\* Bytes of a frame are handed over, and have left.
LEMMA MenuSends ==
  ASSUME MenuInv, Bytes \in Nat \ {0}
  PROVE  /\ MenuClient!PollSend => MenuInv'
         /\ MenuClient!PollDrain => MenuInv'
<1> USE DEF MenuClient!still, MenuClient!uiVars, MenuClient!worldVars, MenuClient!lineVars,
            MenuClient!peerVars
<1>1. IsMenu(m) /\ MenuWork /\ MenuWish
  BY DEF MenuInv, MenuWork, MenuTypes
<1>2. ASSUME MenuClient!PollSend
      PROVE  MenuInv'
  <2>1. /\ m.phase = "send" /\ UNCHANGED <<owed, rx, port, queue, ui, dsp, missed>>
        /\ MenuClient!Push([op |-> Head(m.frames), mode |-> m.planned])
        /\ m' = IF sent' = Bytes THEN [m EXCEPT !.phase = "drain"] ELSE m
    BY <1>2 DEF MenuClient!PollSend
  <2>2. PICK n \in 0..(Bytes - sent) :
          /\ sent' = sent + n
          /\ wire' = IF sent + n = Bytes THEN {[op |-> Head(m.frames), mode |-> m.planned]}
                     ELSE wire
    BY <2>1 DEF MenuClient!Push
  <2>3. wire = {}
    BY <1>1, <2>1 DEF MenuWork, MenuStands
  <2>4. CASE sent' = Bytes
    <3>1. /\ IsMenu(m') /\ m'.phase = "drain"
          /\ \A f \in {"desired", "mode", "planned", "frames", "flags", "cancel", "fault"} :
               m'[f] = m[f]
      BY <1>1, <2>1, <2>4 DEF IsMenu, MenuFields
    <3>2. wire' = {[op |-> Head(m.frames), mode |-> m.planned]} /\ sent' > 0
      BY <2>2, <2>4
    <3>3. MenuClient!Active(m') /\ MenuClient!Active(m)
      BY <2>1, <3>1 DEF MenuClient!Active
    <3>4. MenuTypes'
      BY <1>1, <2>1, <3>1, <3>3 DEF MenuWork, MenuTypes, HasFrames
    <3>5. MenuStands'
      BY <1>1, <2>1, <3>1, <3>2, <3>3 DEF MenuWork, MenuStands
    <3>6. AnsweredOnce'
      BY <1>1, <2>1, <3>1 DEF MenuWork, AnsweredOnce, FreshOnce, NoneFresh
    <3>7. "late" \notin missed => ~Agrees'
      BY <1>1, <2>1, <3>1 DEF MenuWork, AnsweredOnce, FreshOnce, NoneFresh, Agrees, IsFresh, Says
    <3>8. ~Asked(m)
      BY <2>1 DEF Asked
    <3>9. ModeKnown'
      BY <1>1, <2>1, <3>1, <3>7, <3>8 DEF MenuWork, ModeKnown, GoesBy, Sure
    <3> QED
      BY <1>1, <2>1, <3>1, <3>4, <3>5, <3>6, <3>9, WishStays DEF MenuInv, MenuWork
  <2>5. CASE sent' # Bytes
    <3>1. m' = m /\ wire' = wire
      BY <2>1, <2>2, <2>5
    <3>2. MenuTypes'
      BY <1>1, <2>1, <3>1 DEF MenuWork, MenuTypes
    <3>3. MenuStands'
      BY <1>1, <2>1, <2>3, <3>1 DEF MenuWork, MenuStands
    <3>4. AnsweredOnce' /\ ModeKnown'
      BY <1>1, <2>1, <3>1 DEF MenuWork, AnsweredOnce, FreshOnce, NoneFresh, ModeKnown, GoesBy,
        Agrees
    <3> QED
      BY <1>1, <2>1, <3>1, <3>2, <3>3, <3>4, WishStays DEF MenuInv, MenuWork
  <2> QED
    BY <2>4, <2>5
<1>3. ASSUME MenuClient!PollDrain
      PROVE  MenuInv'
  <2>1. /\ m.phase = "drain" /\ m' = [m EXCEPT !.phase = "wait"] /\ wire = {}
        /\ UNCHANGED <<sent, wire, owed, rx, port, queue, ui, dsp, missed>>
    BY <1>3 DEF MenuClient!PollDrain, MenuClient!Drained
  <2>2. /\ IsMenu(m') /\ m'.phase = "wait"
        /\ \A f \in {"desired", "mode", "planned", "frames", "flags", "cancel", "fault"} :
             m'[f] = m[f]
    BY <1>1, <2>1 DEF IsMenu, MenuFields
  <2>3. MenuClient!Active(m') /\ MenuClient!Active(m)
    BY <2>1, <2>2 DEF MenuClient!Active
  <2>4. MenuTypes'
    BY <1>1, <2>1, <2>2, <2>3 DEF MenuWork, MenuTypes, HasFrames
  <2>5. MenuStands'
    BY <1>1, <2>1, <2>2, <2>3 DEF MenuWork, MenuStands
  <2>6. AnsweredOnce'
    BY <1>1, <2>1, <2>2 DEF MenuWork, AnsweredOnce, FreshOnce, NoneFresh
  <2>7. (Asked(m') <=> Asked(m)) /\ (Agrees' <=> Agrees)
    BY <2>1, <2>2 DEF Asked, Agrees
  <2>8. ModeKnown'
    BY <1>1, <2>1, <2>2, <2>7 DEF MenuWork, ModeKnown, GoesBy
  <2> QED
    BY <1>1, <2>1, <2>2, <2>4, <2>5, <2>6, <2>8, WishStays DEF MenuInv, MenuWork
<1> QED
  BY <1>2, <1>3

\* The answer is there, or what is under way is given up.
LEMMA MenuWaits ==
  ASSUME MenuInv
  PROVE  /\ MenuClient!PollWait => MenuInv'
         /\ MenuClient!PollTimeout => MenuInv'
<1> USE DEF MenuClient!still, MenuClient!uiVars, MenuClient!worldVars, MenuClient!lineVars
<1>1. IsMenu(m) /\ MenuWork /\ MenuWish
  BY DEF MenuInv, MenuWork, MenuTypes
<1>2. m.frames \in Seq(MenuOp) /\ <<>> \in Seq(MenuOp)
  BY <1>1 DEF MenuWork, MenuTypes, HasFrames
<1>3. ASSUME MenuClient!PollWait
      PROVE  MenuInv'
  <2>1. /\ m.phase = "wait" /\ UNCHANGED <<sent, wire, owed, rx, port, queue, ui, dsp, missed>>
    BY <1>3 DEF MenuClient!PollWait
  <2>2. MenuClient!Active(m) /\ wire = {} /\ sent > 0
    BY <1>1, <2>1 DEF MenuWork, MenuStands, MenuClient!Active
  <2>3. CASE (m.cancel \/ m.flags \cap {"negative", "bad"} # {}) /\ m' = MenuClient!Finish(m)
    <3>1. /\ IsMenu(m') /\ m'.phase = "over" /\ m'.frames = <<>> /\ m'.flags = {}
          /\ m'.mode \in {m.mode, "unknown"}
          /\ MenuClient!Unsure(m) => m'.mode = "unknown"
          /\ \A f \in {"pending", "desired", "planned", "fault", "link"} : m'[f] = m[f]
      BY <1>1, <2>3, FinishEnds
    <3>2. ~MenuClient!Active(m') /\ ~Asked(m') /\ m'.phase # "send"
      BY <3>1 DEF MenuClient!Active, Asked
    <3>3. MenuTypes'
      BY <1>1, <2>1, <3>1, <3>2 DEF MenuWork, MenuTypes, HasFrames
    <3>4. MenuStands'
      BY <1>1, <2>1, <2>2, <3>1, <3>2 DEF MenuWork, MenuStands
    <3>5. AnsweredOnce'
      BY <1>1, <2>1, <2>2, <3>1, <3>2 DEF MenuWork, AnsweredOnce, FreshOnce, NoneFresh
    <3>6. ASSUME Sure(missed), port = "open", Asked(m), "ack" \notin m.flags
          PROVE  m'.mode = "unknown"
      BY <2>2, <3>1, <3>6 DEF MenuClient!Unsure, Asked
    <3>7. ASSUME Sure(missed), port = "open", ~m.cancel
          PROVE  "ack" \notin m.flags
      BY <1>1, <2>3, <3>7 DEF MenuWork, AnsweredOnce, FreshOnce, Sure
    <3>8. ASSUME port = "open", m.cancel
          PROVE  m'.mode = "unknown"
      BY <1>1, <2>2, <3>1, <3>8 DEF MenuWork, MenuStands
    <3>9. ModeKnown'
      BY <1>1, <2>1, <3>1, <3>2, <3>6, <3>7, <3>8 DEF MenuWork, ModeKnown, GoesBy
    <3> QED
      BY <1>1, <2>1, <3>1, <3>3, <3>4, <3>5, <3>9, WishStays DEF MenuInv, MenuWork
  <2>4. CASE /\ ~m.cancel /\ m.flags = {"ack"}
             /\ m' = IF Len(m.frames) = 1 THEN MenuClient!Accepted(MenuClient!Acknowledged(m))
                     ELSE [MenuClient!Acknowledged(m) EXCEPT !.phase = "gap"]
    <3> DEFINE k == MenuClient!Acknowledged(m)
    <3>1. /\ IsMenu(k) /\ k.mode = IF Head(m.frames) = "mode" THEN m.planned ELSE m.mode
          /\ \A f \in MenuFields \ {"mode"} : k[f] = m[f]
      BY <1>1 DEF IsMenu, MenuFields, MenuClient!Acknowledged
    <3>2. m' = IF Len(m.frames) = 1 THEN [k EXCEPT !.phase = "over", !.frames = <<>>, !.flags = {}]
               ELSE [k EXCEPT !.phase = "gap"]
      BY <2>4 DEF MenuClient!Accepted
    <3> HIDE DEF k
    <3>3. /\ IsMenu(m') /\ m'.mode = k.mode /\ m'.fault = k.fault /\ m'.desired = k.desired
          /\ m'.cancel = k.cancel
          /\ \/ m'.phase = "over" /\ m'.frames = <<>> /\ m'.flags = {}
             \/ Len(m.frames) # 1 /\ m'.phase = "gap" /\ m'.frames = k.frames /\ m'.flags = k.flags
      BY <3>1, <3>2 DEF IsMenu, MenuFields
    <3>4. /\ k.fault = m.fault /\ k.desired = m.desired /\ k.cancel = m.cancel
          /\ k.frames = m.frames /\ k.flags = m.flags
      BY <3>1 DEF MenuFields
    <3>5. m.frames # <<>> /\ (Len(m.frames) # 1 => Len(m.frames) > 1)
      <4>1. m.frames # <<>>
        BY <1>1, <2>2 DEF MenuWork, MenuTypes, HasFrames
      <4> QED
        BY <1>2, <4>1, FramesLeft
    <3>6. MenuTypes'
      BY <1>1, <1>2, <2>1, <3>3, <3>4, <3>5 DEF MenuWork, MenuTypes, HasFrames, MenuClient!Active
    <3>7. ~Asked(m') /\ m'.phase # "send"
      BY <3>3 DEF Asked
    <3>8. ~m.fault /\ port # "closed"
      BY <1>1, <2>2 DEF MenuWork, MenuStands
    <3>9. MenuStands'
      BY <1>1, <2>1, <2>2, <2>4, <3>3, <3>4, <3>8 DEF MenuWork, MenuStands
    <3>10. AnsweredOnce'
      BY <1>1, <2>1, <2>2, <3>3, <3>4, <3>7 DEF MenuWork, AnsweredOnce, FreshOnce, NoneFresh
    <3>11. ASSUME Sure(missed), port = "open"
           PROVE  m'.mode \in {"unknown", dsp.mode} \/ Gone(rx)
      <4>1. GoesBy
        BY <1>1, <3>11 DEF MenuWork, ModeKnown
      <4>2. CASE Head(m.frames) = "mode"
        BY <2>1, <2>4, <3>1, <3>3, <4>1, <4>2 DEF GoesBy, Asked, Agrees
      <4>3. CASE Head(m.frames) # "mode"
        BY <3>1, <3>3, <4>1, <4>3 DEF GoesBy, Asked
      <4> QED
        BY <4>2, <4>3
    <3>12. ModeKnown'
      BY <2>1, <3>7, <3>11 DEF ModeKnown, GoesBy
    <3> QED
      BY <1>1, <2>1, <3>3, <3>4, <3>6, <3>9, <3>10, <3>12, WishStays DEF MenuInv, MenuWork
  <2> QED
    BY <1>3, <2>3, <2>4 DEF MenuClient!PollWait
<1>4. ASSUME MenuClient!PollTimeout
      PROVE  MenuInv'
  <2>1. CASE m.phase = "drain" \/ (m.phase = "send" /\ sent > 0)
    <3> DEFINE b == [m EXCEPT !.fault = TRUE]
               f == MenuClient!Finish(b)
    <3>1. IsMenu(b) /\ b.desired = m.desired
      BY <1>1 DEF IsMenu, MenuFields
    <3>2. /\ m' = MenuClient!Released(f) /\ port' = "closed" /\ rx' = <<>> /\ owed' = {}
          /\ wire' = {} /\ UNCHANGED <<missed, dsp, queue, ui>>
      BY <1>4, <2>1 DEF MenuClient!PollTimeout, MenuClient!CloseUart, MenuClient!Reset
    <3> HIDE DEF b
    <3>3. IsMenu(f) /\ f.desired = b.desired /\ f.frames = <<>> /\ f.flags = {}
      BY <3>1, FinishEnds
    <3> HIDE DEF f
    <3>4. /\ IsMenu(m') /\ ~MenuClient!Active(m') /\ m'.mode = "unknown" /\ m'.desired = f.desired
          /\ m'.frames \in {f.frames, <<>>} /\ m'.flags \in {f.flags, {}}
      BY <3>2, <3>3, ReleasedEnds
    <3> QED
      BY <1>1, <1>2, <3>1, <3>2, <3>3, <3>4, WorkCloses, WishStays DEF MenuInv
  <2>2. CASE ~(m.phase = "drain" \/ (m.phase = "send" /\ sent > 0))
    <3>1. /\ MenuClient!Active(m) /\ m' = MenuClient!Finish(m)
          /\ missed' = IF "ack" \in m.flags THEN missed \cup {"deadline"} ELSE missed
          /\ UNCHANGED <<sent, wire, owed, rx, port, queue, ui, dsp>>
      BY <1>4, <2>2 DEF MenuClient!PollTimeout
    <3>2. /\ IsMenu(m') /\ m'.phase = "over" /\ m'.frames = <<>> /\ m'.flags = {}
          /\ m'.mode \in {m.mode, "unknown"}
          /\ MenuClient!Unsure(m) => m'.mode = "unknown"
          /\ \A f \in {"pending", "desired", "planned", "fault", "link"} : m'[f] = m[f]
      BY <1>1, <3>1, FinishEnds
    <3>3. ~MenuClient!Active(m') /\ m'.fault = m.fault /\ m'.desired = m.desired
      BY <3>2 DEF MenuClient!Active
    <3>4. wire = {}
      BY <1>1, <2>2 DEF MenuWork, MenuStands
    <3>5. Asked(m) => m'.mode = "unknown" \/ "deadline" \in missed'
      BY <1>1, <2>2, <3>1, <3>2 DEF Asked, MenuClient!Unsure, MenuWork, MenuStands
    <3>6. /\ "late" \in missed' <=> "late" \in missed
          /\ "deadline" \in missed => "deadline" \in missed'
          /\ Lossless(missed') => Lossless(missed)
      BY <3>1 DEF Lossless
    <3> QED
      BY <1>1, <1>2, <3>1, <3>2, <3>3, <3>4, <3>5, <3>6, WorkEnds, WishStays DEF MenuInv
  <2> QED
    BY <2>1, <2>2
<1> QED
  BY <1>3, <1>4

\* A client whose port is closed is not active, nor faulty one whose port is not.
LEMMA Port ==
  ASSUME MenuWork
  PROVE  /\ IsMenu(m) /\ m.frames \in Seq(MenuOp) /\ <<>> \in Seq(MenuOp)
         /\ MenuClient!Active(m) => port # "closed"
         /\ port # "closed" => ~m.fault
BY DEF MenuWork, MenuTypes, HasFrames, MenuStands

\* The port is closed with a client that has ended.
LEMMA MenuCloses ==
  ASSUME MenuInv, NEW r, IsMenu(r), r.desired = m.desired,
         r.frames \in {m.frames, <<>>}, r.flags \in {m.flags, {}}, MenuClient!CloseUart(r)
  PROVE  MenuInv'
<1>1. MenuWork /\ MenuWish
  BY DEF MenuInv
<1>2. /\ m' = MenuClient!Released(r) /\ port' = "closed" /\ rx' = <<>> /\ owed' = {}
      /\ wire' = {} /\ UNCHANGED <<missed, dsp, queue, ui>>
  BY DEF MenuClient!CloseUart, MenuClient!Reset, MenuClient!uiVars
<1>3. /\ IsMenu(m') /\ ~MenuClient!Active(m') /\ m'.mode = "unknown" /\ m'.desired = r.desired
      /\ m'.frames \in {r.frames, <<>>} /\ m'.flags \in {r.flags, {}}
  BY <1>2, ReleasedEnds
<1> QED
  BY <1>1, <1>2, <1>3, Port, WorkCloses, WishStays DEF MenuInv

\* The port is taken and given back.
LEMMA MenuPort ==
  ASSUME MenuInv
  PROVE  /\ MenuClient!Acquire => MenuInv'
         /\ MenuClient!Release => MenuInv'
<1>1. IsMenu(m) /\ MenuWork /\ MenuWish
  BY DEF MenuInv, MenuWork, MenuTypes
<1>2. ASSUME MenuClient!Acquire
      PROVE  MenuInv'
  <2>1. /\ port = "closed" /\ port' = "open" /\ m' = [m EXCEPT !.fault = FALSE]
        /\ UNCHANGED <<sent, wire, owed, rx, queue, ui, dsp, missed>>
    BY <1>2 DEF MenuClient!Acquire, MenuClient!lineVars, MenuClient!uiVars, MenuClient!worldVars
  <2>2. /\ IsMenu(m') /\ ~m'.fault
        /\ \A f \in {"phase", "mode", "desired", "planned", "frames", "flags", "cancel"} :
             m'[f] = m[f]
    BY <1>1, <2>1 DEF IsMenu, MenuFields
  <2>3. ~MenuClient!Active(m) /\ m.mode = "unknown" /\ wire = {}
    BY <1>1, <2>1 DEF MenuWork, MenuStands, MenuClient!Active
  <2>4. ~MenuClient!Active(m') /\ ~Asked(m') /\ m'.phase \notin {"send", "drain", "wait", "gap"}
    BY <2>2, <2>3 DEF MenuClient!Active, Asked
  <2>5. MenuTypes'
    BY <1>1, <2>1, <2>2, <2>4 DEF MenuWork, MenuTypes, HasFrames
  <2>6. MenuStands'
    BY <2>1, <2>2, <2>3, <2>4 DEF MenuStands
  <2>7. AnsweredOnce'
    BY <1>1, <2>1, <2>2, <2>3, <2>4 DEF MenuWork, AnsweredOnce, FreshOnce, NoneFresh
  <2>8. ModeKnown'
    BY <2>2, <2>3, <2>4 DEF ModeKnown, GoesBy
  <2> QED
    BY <1>1, <2>1, <2>2, <2>5, <2>6, <2>7, <2>8, WishStays DEF MenuInv, MenuWork
<1>3. ASSUME MenuClient!Release
      PROVE  MenuInv'
  BY <1>1, <1>3, MenuCloses DEF MenuClient!Release
<1> QED
  BY <1>2, <1>3

\* The port is asked for, and what is under way is given up or goes on to be given up.
LEMMA MenuYields ==
  ASSUME MenuInv, port # "yielding", m' = MenuClient!Yielded(m),
         port' = IF port = "open" THEN "yielding" ELSE port,
         UNCHANGED <<sent, wire, owed, rx, queue, ui, dsp, missed>>
  PROVE  MenuInv'
<1>1. IsMenu(m) /\ MenuWork /\ MenuWish
  BY DEF MenuInv, MenuWork, MenuTypes
<1>2. /\ IsMenu(m')
      /\ \A f \in {"desired", "planned", "fault", "link"} : m'[f] = m[f]
      /\ \/ /\ ~MenuClient!Active(m) /\ m'.phase = "over"
            /\ \A f \in {"frames", "flags", "mode", "cancel"} : m'[f] = m[f]
         \/ /\ MenuClient!Active(m)
            /\ m.phase \in {"gap", "wait"} \/ (m.phase = "send" /\ sent = 0)
            /\ m'.phase = "over" /\ m'.frames = <<>> /\ m'.flags = {}
            /\ m'.mode \in {m.mode, "unknown"}
            /\ MenuClient!Unsure(m) => m'.mode = "unknown"
         \/ /\ MenuClient!Active(m) /\ m.phase \in {"send", "drain"} /\ m'.cancel
            /\ \A f \in {"phase", "frames", "flags", "mode"} : m'[f] = m[f]
  BY <1>1, YieldedEnds
<1>3. m'.desired = m.desired /\ m'.planned = m.planned /\ m'.fault = m.fault
  BY <1>2
<1>4. port' # "open"
  OBVIOUS
<1>5. ModeKnown'
  BY <1>4 DEF ModeKnown
<1>6. MenuWork'
  <2>1. CASE m'.phase = "over"
    <3>1. ~MenuClient!Active(m') /\ m'.frames \in Seq(MenuOp) /\ m'.flags \in {m.flags, {}}
      BY <1>1, <1>2, <2>1, Port DEF MenuClient!Active
    <3>2. MenuTypes'
      BY <1>1, <1>2, <2>1, <3>1 DEF MenuWork, MenuTypes, HasFrames
    <3>3. wire = {}
      BY <1>1, <1>2, <2>1 DEF MenuWork, MenuStands, MenuClient!Active
    <3>4. port' = "closed" => m'.mode = "unknown"
      BY <1>1, <1>2 DEF MenuWork, MenuStands
    <3>5. MenuStands'
      BY <1>1, <1>3, <1>4, <2>1, <3>1, <3>3, <3>4 DEF MenuWork, MenuStands
    <3>6. AnsweredOnce'
      BY <1>1, <2>1, <3>1, <3>3 DEF MenuWork, AnsweredOnce, FreshOnce, NoneFresh
    <3> QED
      BY <1>5, <3>2, <3>5, <3>6 DEF MenuWork
  <2>2. CASE /\ MenuClient!Active(m) /\ m.phase \in {"send", "drain"} /\ m'.cancel
             /\ \A f \in {"phase", "frames", "flags", "mode"} : m'[f] = m[f]
    <3>1. /\ m'.phase = m.phase /\ m'.frames = m.frames /\ m'.flags = m.flags
          /\ m'.mode = m.mode
      BY <2>2
    <3>2. MenuClient!Active(m') <=> MenuClient!Active(m)
      BY <3>1 DEF MenuClient!Active
    <3>3. MenuTypes'
      BY <1>1, <1>2, <3>1, <3>2 DEF MenuWork, MenuTypes, HasFrames
    <3>4. MenuStands'
      BY <1>1, <1>3, <1>4, <3>1, <3>2 DEF MenuWork, MenuStands
    <3>5. AnsweredOnce'
      BY <1>1, <3>1 DEF MenuWork, AnsweredOnce, FreshOnce, NoneFresh
    <3> QED
      BY <1>5, <3>3, <3>4, <3>5 DEF MenuWork
  <2> QED
    BY <1>2, <2>1, <2>2
<1> QED
  BY <1>1, <1>3, <1>6, WishStays DEF MenuInv

\* The port fails.
LEMMA MenuFails ==
  ASSUME MenuInv,
         MenuClient!CloseUart([(IF MenuClient!Active(m) THEN MenuClient!Finish(m) ELSE m)
                               EXCEPT !.fault = TRUE, !.mode = "unknown", !.pending = {}])
  PROVE  MenuInv'
<1>1. IsMenu(m)
  BY DEF MenuInv, MenuWork, MenuTypes
<1> DEFINE e == IF MenuClient!Active(m) THEN MenuClient!Finish(m) ELSE m
           r == [e EXCEPT !.fault = TRUE, !.mode = "unknown", !.pending = {}]
<1>2. e = IF MenuClient!Active(m) THEN MenuClient!Finish(m) ELSE m
  OBVIOUS
<1>3. MenuClient!CloseUart(r)
  OBVIOUS
<1> HIDE DEF e
<1>4. /\ IsMenu(e) /\ e.desired = m.desired /\ e.frames \in {m.frames, <<>>}
      /\ e.flags \in {m.flags, {}}
  <2>1. CASE MenuClient!Active(m)
    <3>1. e = MenuClient!Finish(m)
      BY <1>2, <2>1
    <3>2. IsMenu(e) /\ e.frames = <<>> /\ e.flags = {} /\ e.desired = m.desired
      BY <1>1, <3>1, FinishEnds
    <3> QED
      BY <3>2
  <2>2. CASE ~MenuClient!Active(m)
    BY <1>1, <1>2, <2>2
  <2> QED
    BY <2>1, <2>2
<1>5. IsMenu(r) /\ r.desired = e.desired /\ r.frames = e.frames /\ r.flags = e.flags
  BY <1>4 DEF IsMenu, MenuFields
<1> HIDE DEF r
<1> QED
  BY <1>3, <1>4, <1>5, MenuCloses

\* A frame is read: those behind it stay.
LEMMA TailMenu ==
  ASSUME NEW q \in Seq(MenuFrame), q # <<>>, NEW t, t = Tail(q)
  PROVE  /\ t \in Seq(MenuFrame) /\ Head(q) = q[1] /\ q[1] \in MenuFrame /\ 1 \in 1..Len(q)
         /\ \A i \in 1..Len(t) : i + 1 \in 1..Len(q) /\ t[i] = q[i + 1]
         /\ NoneFresh(q) => NoneFresh(t)
         /\ Gone(t) => Gone(q)
         /\ Gone(q) => Gone(t) \/ (q[1].kind = "link" /\ ~q[1].up)
         /\ (\E i \in 1..Len(t) : Says(t[i])) => \E i \in 1..Len(q) : Says(q[i])
<1>1. /\ t \in Seq(MenuFrame) /\ Len(t) = Len(q) - 1 /\ Len(q) \in Nat \ {0}
      /\ Head(q) = q[1] /\ q[1] \in MenuFrame
      /\ \A i \in 1..Len(t) : t[i] = q[i + 1]
  OBVIOUS
<1>2. \A i \in 1..Len(t) : i + 1 \in 1..Len(q) /\ t[i] = q[i + 1]
  BY <1>1
<1>3. 1 \in 1..Len(q)
  BY <1>1
<1>4. NoneFresh(q) => NoneFresh(t)
  BY <1>2 DEF NoneFresh
<1>5. Gone(t) => Gone(q)
  BY <1>2 DEF Gone
<1>6. Gone(q) => Gone(t) \/ (q[1].kind = "link" /\ ~q[1].up)
  <2> SUFFICES ASSUME NEW i \in 1..Len(q), q[i].kind = "link", ~q[i].up, i # 1
               PROVE  Gone(t)
    BY DEF Gone
  <2>1. i - 1 \in 1..Len(t)
    BY <1>1
  <2>2. t[i - 1] = q[i]
    BY <1>1, <2>1
  <2> QED
    BY <2>1, <2>2 DEF Gone
<1>7. (\E i \in 1..Len(t) : Says(t[i])) => \E i \in 1..Len(q) : Says(q[i])
  BY <1>2
<1> QED
  BY <1>1, <1>2, <1>3, <1>4, <1>5, <1>6, <1>7

\* One more frame comes behind those that are there.
LEMMA AppendMenu ==
  ASSUME NEW q \in Seq(MenuFrame), NEW f \in MenuFrame,
         NEW a \in Seq(MenuFrame), Len(a) = Len(q) + 1,
         \A i \in 1..Len(q) : a[i] = q[i], a[Len(q) + 1] = f
  PROVE  /\ a[Len(a)] = f /\ Len(a) \in 1..Len(a)
         /\ \A i \in 1..Len(a) : i = Len(a) \/ (i \in 1..Len(q) /\ a[i] = q[i])
         /\ ~IsFresh(f) /\ NoneFresh(q) => NoneFresh(a)
         /\ Gone(q) => Gone(a)
         /\ f.kind = "link" /\ ~f.up => Gone(a)
         /\ (\E i \in 1..Len(a) : Says(a[i])) => Says(f) \/ \E i \in 1..Len(q) : Says(q[i])
<1>1. Len(q) \in Nat /\ Len(a) = Len(q) + 1
  OBVIOUS
<1>2. a[Len(a)] = f /\ Len(a) \in 1..Len(a)
  BY <1>1
<1>3. \A i \in 1..Len(a) : i = Len(a) \/ (i \in 1..Len(q) /\ a[i] = q[i])
  BY <1>1
<1>4. ~IsFresh(f) /\ NoneFresh(q) => NoneFresh(a)
  BY <1>2, <1>3 DEF NoneFresh
<1>5. \A i \in 1..Len(q) : i \in 1..Len(a) /\ a[i] = q[i]
  BY <1>1
<1>6. Gone(q) => Gone(a)
  BY <1>5 DEF Gone
<1>7. f.kind = "link" /\ ~f.up => Gone(a)
  BY <1>2 DEF Gone
<1>8. (\E i \in 1..Len(a) : Says(a[i])) => Says(f) \/ \E i \in 1..Len(q) : Says(q[i])
  BY <1>2, <1>3
<1> QED
  BY <1>1, <1>2, <1>3, <1>4, <1>6, <1>7, <1>8

\* A frame that is not a report that the headset is gone is read, and what is under way goes on.
LEMMA WorkReads ==
  ASSUME MenuWork, IsMenu(m'), GoesOn(m, m'), SameDoubt(missed, missed'),
         rx # <<>>, rx' = Tail(rx), ~(rx[1].kind = "link" /\ ~rx[1].up),
         UNCHANGED <<owed, wire, sent, port, dsp>>
  PROVE  MenuWork'
<1>1. /\ MenuClient!Active(m') <=> MenuClient!Active(m)
      /\ \A p \in {"send", "drain", "wait", "gap"} : m'.phase = p <=> m.phase = p
  BY DEF GoesOn, MenuClient!Active
<1>2. /\ m'.mode = m.mode /\ m'.planned = m.planned /\ m'.frames = m.frames
      /\ m'.flags = m.flags /\ m'.cancel = m.cancel /\ m'.fault = m.fault
  BY DEF GoesOn
<1>3. rx \in Seq(MenuFrame)
  BY DEF MenuWork, MenuTypes
<1>4. /\ rx' \in Seq(MenuFrame)
      /\ \A i \in 1..Len(rx') : i + 1 \in 1..Len(rx) /\ rx'[i] = rx[i + 1]
      /\ NoneFresh(rx) => NoneFresh(rx')
      /\ Gone(rx) => Gone(rx')
      /\ (\E i \in 1..Len(rx') : Says(rx'[i])) => \E i \in 1..Len(rx) : Says(rx[i])
  BY <1>3, TailMenu
<1>5. MenuTypes'
  BY <1>1, <1>2, <1>4 DEF MenuWork, MenuTypes, HasFrames
<1>6. MenuStands'
  BY <1>1, <1>2 DEF MenuWork, MenuStands
<1>7. AnsweredOnce'
  <2> SUFFICES ASSUME "late" \notin missed'
               PROVE  FreshOnce'
    BY DEF AnsweredOnce
  <2>1. FreshOnce
    BY DEF MenuWork, AnsweredOnce, SameDoubt
  <2>2. /\ m'.phase = "send" \/ wire' # {} =>
             m'.flags = {} /\ NoneFresh(rx') /\ \A a \in owed' : ~a.fresh
        /\ \A a \in owed' : (a.fresh => m'.flags = {} /\ NoneFresh(rx'))
        /\ m'.flags \in {{}, {"ack"}, {"negative"}, {"bad"}}
    BY <1>1, <1>2, <1>4, <2>1 DEF FreshOnce
  <2>3. ASSUME NEW i \in 1..Len(rx'), IsFresh(rx'[i])
        PROVE  m'.flags = {} /\ \A j \in 1..Len(rx') : (IsFresh(rx'[j]) => i = j)
    <3>1. i + 1 \in 1..Len(rx) /\ IsFresh(rx[i + 1])
      BY <1>4, <2>3
    <3>2. m.flags = {} /\ \A j \in 1..Len(rx) : (IsFresh(rx[j]) => i + 1 = j)
      BY <2>1, <3>1 DEF FreshOnce
    <3>3. \A j \in 1..Len(rx') : (IsFresh(rx'[j]) => i + 1 = j + 1)
      BY <1>4, <3>2
    <3>4. \A j \in 1..Len(rx') : i + 1 = j + 1 => i = j
      OBVIOUS
    <3> QED
      BY <1>2, <3>2, <3>3, <3>4
  <2> QED
    BY <2>2, <2>3 DEF FreshOnce
<1>8. Asked(m') <=> Asked(m)
  BY <1>1, <1>2 DEF Asked
<1>9. Agrees' => Agrees
  BY <1>2, <1>4 DEF Agrees
<1>10. Sure(missed') <=> Sure(missed)
  BY DEF Sure, SameDoubt
<1>11. ModeKnown'
  BY <1>2, <1>4, <1>8, <1>9, <1>10 DEF MenuWork, ModeKnown, GoesBy
<1> QED
  BY <1>5, <1>6, <1>7, <1>11 DEF MenuWork

\* An acknowledgement is taken for the answer to what is under way.
LEMMA WorkAnswered ==
  ASSUME MenuWork, rx # <<>>, rx' = Tail(rx), rx[1].kind = "ack",
         m' = [m EXCEPT !.flags = @ \cup {rx[1].what}],
         missed' = IF rx[1].fresh THEN missed ELSE missed \cup {"late"},
         UNCHANGED <<owed, wire, sent, port, dsp>>
  PROVE  MenuWork'
<1>1. rx \in Seq(MenuFrame) /\ IsMenu(m)
  BY DEF MenuWork, MenuTypes
<1>2. /\ rx' \in Seq(MenuFrame) /\ rx[1] \in MenuFrame /\ 1 \in 1..Len(rx)
      /\ \A i \in 1..Len(rx') : i + 1 \in 1..Len(rx) /\ rx'[i] = rx[i + 1]
      /\ Gone(rx) => Gone(rx')
      /\ (\E i \in 1..Len(rx') : Says(rx'[i])) => \E i \in 1..Len(rx) : Says(rx[i])
  BY <1>1, TailMenu
<1>3. /\ IsMenu(m') /\ m'.flags = m.flags \cup {rx[1].what}
      /\ \A f \in MenuFields \ {"flags"} : m'[f] = m[f]
  BY <1>1 DEF IsMenu, MenuFields
<1>4. /\ m'.phase = m.phase /\ m'.mode = m.mode /\ m'.planned = m.planned
      /\ m'.frames = m.frames /\ m'.cancel = m.cancel /\ m'.fault = m.fault
      /\ MenuClient!Active(m') <=> MenuClient!Active(m)
  BY <1>3 DEF MenuFields, MenuClient!Active
<1>5. MenuTypes'
  BY <1>2, <1>3, <1>4 DEF MenuWork, MenuTypes, HasFrames
<1>6. MenuStands'
  BY <1>4 DEF MenuWork, MenuStands
<1>7. CASE ~rx[1].fresh
  <2>1. "late" \in missed'
    BY <1>7
  <2> QED
    BY <1>5, <1>6, <2>1 DEF MenuWork, AnsweredOnce, ModeKnown, Sure
<1>8. CASE rx[1].fresh
  <2>1. missed' = missed /\ IsFresh(rx[1])
    BY <1>8 DEF IsFresh
  <2>2. rx[1].what \in {"ack", "negative", "bad"}
    BY <1>2 DEF MenuFrame, AckFrame
  <2>3. AnsweredOnce'
    <3> SUFFICES ASSUME "late" \notin missed
                 PROVE  FreshOnce'
      BY <2>1 DEF AnsweredOnce
    <3>1. FreshOnce
      BY DEF MenuWork, AnsweredOnce
    <3>2. m.flags = {} /\ \A j \in 1..Len(rx) : (IsFresh(rx[j]) => 1 = j)
      BY <1>2, <2>1, <3>1 DEF FreshOnce
    <3>3. ASSUME NEW i \in 1..Len(rx')
          PROVE  ~IsFresh(rx'[i])
      <4>1. i + 1 \in 1..Len(rx) /\ rx'[i] = rx[i + 1] /\ i + 1 # 1
        BY <1>2
      <4> QED
        BY <3>2, <4>1
    <3>4. NoneFresh(rx')
      BY <3>3 DEF NoneFresh
    <3>5. \A a \in owed : ~a.fresh
      BY <1>2, <2>1, <3>1 DEF FreshOnce, NoneFresh
    <3>6. m.phase # "send" /\ wire = {}
      BY <1>2, <2>1, <3>1 DEF FreshOnce, NoneFresh
    <3>7. m'.flags \in {{"ack"}, {"negative"}, {"bad"}}
      BY <1>3, <2>2, <3>2
    <3> QED
      BY <1>4, <3>3, <3>4, <3>5, <3>6, <3>7 DEF FreshOnce
  <2>4. Agrees' => Agrees
    BY <1>2, <1>3, <2>1 DEF Agrees, Says
  <2>5. Asked(m') <=> Asked(m)
    BY <1>4 DEF Asked
  <2>6. Gone(rx) => Gone(rx')
    BY <1>2
  <2>7. ModeKnown'
    BY <1>4, <2>1, <2>4, <2>5, <2>6 DEF MenuWork, ModeKnown, GoesBy
  <2> QED
    BY <1>5, <1>6, <2>3, <2>7 DEF MenuWork
<1> QED
  BY <1>7, <1>8

\* A report is read that the headset is gone.
LEMMA WorkGone ==
  ASSUME MenuWork, rx # <<>>, rx' = Tail(rx), m' = MenuClient!LinkReport(m, FALSE),
         UNCHANGED <<owed, wire, sent, port, dsp, missed>>
  PROVE  MenuWork' /\ m'.desired = m.desired
<1>1. rx \in Seq(MenuFrame) /\ IsMenu(m) /\ m.frames \in Seq(MenuOp) /\ <<>> \in Seq(MenuOp)
  BY Port DEF MenuWork, MenuTypes
<1>2. /\ rx' \in Seq(MenuFrame)
      /\ \A i \in 1..Len(rx') : i + 1 \in 1..Len(rx) /\ rx'[i] = rx[i + 1]
      /\ NoneFresh(rx) => NoneFresh(rx')
  BY <1>1, TailMenu
<1>3. /\ IsMenu(m') /\ m'.mode = "unknown"
      /\ \A f \in {"desired", "planned", "fault"} : m'[f] = m[f]
      /\ \/ /\ ~MenuClient!Active(m') /\ m.phase # "drain"
            /\ m'.frames \in {m.frames, <<>>} /\ m'.flags \in {m.flags, {}}
         \/ /\ MenuClient!Active(m) /\ m'.cancel
            /\ \A f \in {"phase", "frames", "flags"} : m'[f] = m[f]
  BY <1>1, LinkDownEnds
<1>4. m'.desired = m.desired /\ m'.planned = m.planned /\ m'.fault = m.fault
  BY <1>3
<1>5. m'.flags \in {m.flags, {}} /\ m'.frames \in Seq(MenuOp)
  BY <1>1, <1>3
<1>6. \/ /\ m'.phase \notin {"send", "drain", "wait", "gap"} /\ ~MenuClient!Active(m') /\ wire = {}
      \/ /\ m'.phase = m.phase /\ m'.cancel /\ m'.frames = m.frames
         /\ MenuClient!Active(m') /\ MenuClient!Active(m)
  BY <1>3 DEF MenuWork, MenuStands, MenuClient!Active
<1>7. MenuTypes'
  BY <1>2, <1>3, <1>5, <1>6 DEF MenuWork, MenuTypes, HasFrames
<1>8. MenuStands'
  BY <1>3, <1>4, <1>6 DEF MenuWork, MenuStands
<1>9. AnsweredOnce'
  <2> SUFFICES ASSUME "late" \notin missed'
               PROVE  FreshOnce'
    BY DEF AnsweredOnce
  <2>1. FreshOnce
    BY DEF MenuWork, AnsweredOnce
  <2>2. m'.phase = "send" \/ wire' # {} => m.phase = "send" \/ wire # {}
    BY <1>6
  <2>3. m'.flags \in {{}, {"ack"}, {"negative"}, {"bad"}}
    BY <1>5, <2>1 DEF FreshOnce
  <2>4. m.flags = {} => m'.flags = {}
    BY <1>5
  <2>5. \A i, j \in 1..Len(rx') :
          (IsFresh(rx'[i]) /\ IsFresh(rx'[j]) => m'.flags = {} /\ i = j)
    <3> SUFFICES ASSUME NEW i \in 1..Len(rx'), NEW j \in 1..Len(rx'),
                        IsFresh(rx'[i]), IsFresh(rx'[j])
                 PROVE  m'.flags = {} /\ i = j
      OBVIOUS
    <3>1. /\ i + 1 \in 1..Len(rx) /\ IsFresh(rx[i + 1])
          /\ j + 1 \in 1..Len(rx) /\ IsFresh(rx[j + 1])
      BY <1>2
    <3>2. m.flags = {} /\ i + 1 = j + 1
      BY <2>1, <3>1 DEF FreshOnce
    <3>3. \A k, l \in 1..Len(rx') : k + 1 = l + 1 => k = l
      OBVIOUS
    <3>4. i = j
      BY <3>2, <3>3
    <3> QED
      BY <2>4, <3>2, <3>4
  <2> QED
    BY <1>2, <2>1, <2>2, <2>3, <2>4, <2>5 DEF FreshOnce
<1>10. ModeKnown'
  BY <1>3, <1>6 DEF ModeKnown, GoesBy, Asked
<1> QED
  BY <1>4, <1>7, <1>8, <1>9, <1>10 DEF MenuWork

\* The queue with one more event: what was its last stays that before a back key.
LEMMA AppendEvent ==
  ASSUME NEW q \in Seq({"open", "closed", "back"}), NEW e \in {"open", "closed", "back"},
         NEW a, a = Append(q, e)
  PROVE  /\ a \in Seq({"open", "closed", "back"}) /\ Len(a) = Len(q) + 1 /\ Len(q) \in Nat
         /\ \A i \in 1..Len(q) : a[i] = q[i]
         /\ a[Len(a)] = e
OBVIOUS

\* The headset changes the menu, and the client wants that.
LEMMA WishLast ==
  ASSUME MenuWish, NEW o \in {"open", "closed"}, queue' = Append(queue, o), m'.desired = o
  PROVE  MenuWish'
<1> DEFINE q == queue
           a == queue'
<1>1. q \in Seq({"open", "closed", "back"})
  BY DEF MenuWish
<1>2. /\ a \in Seq({"open", "closed", "back"}) /\ Len(a) = Len(q) + 1
      /\ Len(q) \in Nat /\ a[Len(a)] = o
  BY <1>1, AppendEvent
<1> HIDE DEF q, a
<1>3. Len(a) \in 1..Len(a)
  BY <1>2
<1>4. ~OnlyBack(a, 1)
  BY <1>2, <1>3 DEF OnlyBack
<1>5. ASSUME NEW j \in 1..Len(a), OnlyBack(a, j + 1)
      PROVE  a[j] = o
  <2>1. j = Len(a) \/ Len(a) \in (j + 1)..Len(a)
    BY <1>2
  <2>2. Len(a) \notin (j + 1)..Len(a)
    BY <1>2, <1>5 DEF OnlyBack
  <2> QED
    BY <1>2, <2>1, <2>2
<1>6. Wanted(a, 1, o, ui')
  BY <1>4, <1>5 DEF Wanted
<1> QED
  BY <1>2, <1>6 DEF MenuWish, a

\* The back key comes: what was the last event before it is that now.
LEMMA WishBack ==
  ASSUME MenuWish, queue' = Append(queue, "back"), m'.desired = m.desired,
         UNCHANGED <<ui, missed>>
  PROVE  MenuWish'
<1> DEFINE q == queue
           a == queue'
<1>1. q \in Seq({"open", "closed", "back"})
  BY DEF MenuWish
<1>2. /\ a \in Seq({"open", "closed", "back"}) /\ Len(a) = Len(q) + 1
      /\ Len(q) \in Nat /\ a[Len(a)] = "back"
      /\ \A i \in 1..Len(q) : a[i] = q[i]
  BY <1>1, AppendEvent
<1>3. Lossless(missed) => Wanted(q, 1, m.desired, ui)
  BY DEF MenuWish
<1> HIDE DEF q, a
<1>4. \A k \in Nat \ {0} : OnlyBack(a, k) => OnlyBack(q, k)
  <2> SUFFICES ASSUME NEW k \in Nat \ {0}, OnlyBack(a, k), NEW j \in k..Len(q)
               PROVE  q[j] = "back"
    BY DEF OnlyBack
  <2>1. j \in k..Len(a) /\ j \in 1..Len(q)
    BY <1>2
  <2> QED
    BY <1>2, <2>1 DEF OnlyBack
<1>5. ASSUME Wanted(q, 1, m.desired, ui)
      PROVE  Wanted(a, 1, m.desired, ui)
  <2>1. OnlyBack(a, 1) => m.desired \in {"none", ui}
    BY <1>4, <1>5 DEF Wanted
  <2>2. ASSUME NEW j \in 1..Len(a), a[j] # "back", OnlyBack(a, j + 1)
        PROVE  m.desired = a[j]
    <3>1. j \in 1..Len(q)
      BY <1>2, <2>2
    <3>2. OnlyBack(q, j + 1)
      BY <1>4, <2>2, <3>1
    <3> QED
      BY <1>2, <1>5, <2>2, <3>1, <3>2 DEF Wanted
  <2> QED
    BY <2>1, <2>2 DEF Wanted
<1> QED
  BY <1>2, <1>3, <1>5 DEF MenuWish, a

\* What is read of a frame: its first byte, and the rest.
LEMMA MenuReads ==
  ASSUME MenuInv
  PROVE  /\ MenuClient!FirstByte => MenuInv'
         /\ MenuClient!RestOfFrame => MenuInv'
<1>1. /\ IsMenu(m) /\ MenuWork /\ MenuWish /\ rx \in Seq(MenuFrame)
      /\ queue \in Seq({"open", "closed", "back"})
  BY DEF MenuInv, MenuWork, MenuTypes, MenuWish
<1>2. ASSUME MenuClient!FirstByte
      PROVE  MenuInv'
  <2>1. UNCHANGED <<sent, wire, owed, rx, m, port, queue, ui, dsp, missed>>
    BY <1>2 DEF MenuClient!FirstByte, MenuClient!lineVars, MenuClient!uiVars, MenuClient!worldVars
  <2>2. IsMenu(m') /\ GoesOn(m, m') /\ SameDoubt(missed, missed')
    BY <1>1, <2>1 DEF GoesOn, SameDoubt
  <2> QED
    BY <1>1, <2>1, <2>2, WorkGoesOn, WishStays DEF MenuInv
<1>3. ASSUME MenuClient!RestOfFrame
      PROVE  MenuInv'
  <2>1. /\ port # "closed" /\ rx # <<>> /\ rx' = Tail(rx) /\ ~m.fault
        /\ UNCHANGED <<sent, wire, owed, port, ui, dsp>>
    BY <1>1, <1>3, Port DEF MenuClient!RestOfFrame, MenuClient!Read
  <2>2. /\ MenuClient!Frame = rx[1] /\ rx[1] \in MenuFrame
    BY <1>1, <2>1, TailMenu DEF MenuClient!Frame
  <2>3. ASSUME rx[1].kind = "ack", UNCHANGED queue,
               IF MenuClient!Eligible /\ rx[1].op = Head(m.frames)
               THEN /\ m' = [m EXCEPT !.flags = @ \cup {rx[1].what}]
                    /\ missed' = IF rx[1].fresh THEN missed ELSE missed \cup {"late"}
               ELSE UNCHANGED <<m, missed>>
        PROVE  MenuInv'
    <3>1. CASE MenuClient!Eligible /\ rx[1].op = Head(m.frames)
      <4>1. /\ m' = [m EXCEPT !.flags = @ \cup {rx[1].what}]
            /\ missed' = IF rx[1].fresh THEN missed ELSE missed \cup {"late"}
        BY <2>3, <3>1
      <4>2. m'.desired = m.desired
        BY <1>1, <4>1 DEF IsMenu, MenuFields
      <4>3. Lossless(missed') => Lossless(missed)
        BY <4>1 DEF Lossless
      <4>4. MenuWork'
        BY <1>1, <2>1, <2>3, <4>1, WorkAnswered
      <4> QED
        BY <1>1, <2>1, <2>3, <4>2, <4>3, <4>4, WishStays DEF MenuInv
    <3>2. CASE ~(MenuClient!Eligible /\ rx[1].op = Head(m.frames))
      <4>1. m' = m /\ missed' = missed
        BY <2>3, <3>2
      <4>2. IsMenu(m') /\ GoesOn(m, m') /\ SameDoubt(missed, missed')
        BY <1>1, <4>1 DEF GoesOn, SameDoubt
      <4> QED
        BY <1>1, <2>1, <2>3, <4>1, <4>2, WorkReads, WishStays DEF MenuInv
    <3> QED
      BY <3>1, <3>2
  <2>4. ASSUME rx[1].kind = "peer", m' = MenuClient!PeerMode(m, rx[1].mode),
               MenuClient!Enqueued(rx[1].mode)
        PROVE  MenuInv'
    <3> DEFINE o == rx[1].mode
    <3>1. o \in {"open", "closed"}
      BY <2>2, <2>4 DEF MenuFrame, AckFrame
    <3>2. m' = MenuClient!PeerMode(m, o) /\ MenuClient!Enqueued(o)
      BY <2>4
    <3> HIDE DEF o
    <3>3. /\ IsMenu(m') /\ m'.desired = o
          /\ MenuClient!Active(m) => m'.phase = m.phase
          /\ ~MenuClient!Active(m) => ~MenuClient!Active(m')
          /\ \A f \in MenuFields \ {"phase", "pending", "desired"} : m'[f] = m[f]
      BY <1>1, <2>1, <3>2, PeerModeWanted
    <3>4. GoesOn(m, m')
      BY <3>3 DEF GoesOn, MenuFields
    <3>5. \/ UNCHANGED queue /\ missed' = missed \cup {"full"}
          \/ queue' = Append(queue, o) /\ missed' = missed
      BY <3>2 DEF MenuClient!Enqueued
    <3>6. SameDoubt(missed, missed')
      BY <3>5 DEF SameDoubt
    <3>7. MenuWish'
      <4>1. CASE queue' = Append(queue, o) /\ missed' = missed
        BY <1>1, <3>1, <3>3, <4>1, WishLast
      <4>2. CASE UNCHANGED queue /\ missed' = missed \cup {"full"}
        <5>1. ~Lossless(missed')
          BY <4>2 DEF Lossless
        <5> QED
          BY <1>1, <4>2, <5>1 DEF MenuWish
      <4> QED
        BY <3>5, <4>1, <4>2
    <3> QED
      BY <1>1, <2>1, <2>4, <3>3, <3>4, <3>6, <3>7, WorkReads DEF MenuInv
  <2>5. ASSUME rx[1].kind = "back", m' = m, MenuClient!Enqueued("back")
        PROVE  MenuInv'
    <3>1. \/ UNCHANGED queue /\ missed' = missed \cup {"full"}
          \/ queue' = Append(queue, "back") /\ missed' = missed
      BY <2>5 DEF MenuClient!Enqueued
    <3>2. GoesOn(m, m') /\ IsMenu(m') /\ m'.desired = m.desired
      BY <1>1, <2>5 DEF GoesOn
    <3>3. SameDoubt(missed, missed')
      BY <3>1 DEF SameDoubt
    <3>4. MenuWish'
      <4>1. CASE queue' = Append(queue, "back") /\ missed' = missed
        BY <1>1, <2>1, <3>2, <4>1, WishBack
      <4>2. CASE UNCHANGED queue /\ missed' = missed \cup {"full"}
        <5>1. ~Lossless(missed')
          BY <4>2 DEF Lossless
        <5> QED
          BY <1>1, <4>2, <5>1 DEF MenuWish
      <4> QED
        BY <3>1, <4>1, <4>2
    <3> QED
      BY <1>1, <2>1, <2>5, <3>2, <3>3, <3>4, WorkReads DEF MenuInv
  <2>6. ASSUME rx[1].kind = "link", m' = MenuClient!LinkReport(m, rx[1].up),
               UNCHANGED <<queue, missed>>
        PROVE  MenuInv'
    <3>1. Lossless(missed') => Lossless(missed)
      BY <2>6
    <3>2. CASE rx[1].up = TRUE
      <4>1. m' = MenuClient!LinkReport(m, TRUE)
        BY <2>6, <3>2
      <4>2. /\ IsMenu(m')
            /\ MenuClient!Active(m) => m'.phase = m.phase
            /\ ~MenuClient!Active(m) => ~MenuClient!Active(m')
            /\ \A f \in MenuFields \ {"phase", "pending", "link"} : m'[f] = m[f]
        BY <1>1, <4>1, LinkUpGoesOn
      <4>3. GoesOn(m, m') /\ m'.desired = m.desired
        BY <4>2 DEF GoesOn, MenuFields
      <4>4. SameDoubt(missed, missed')
        BY <2>6 DEF SameDoubt
      <4>5. MenuWork'
        BY <1>1, <2>1, <3>2, <4>2, <4>3, <4>4, WorkReads
      <4> QED
        BY <1>1, <2>1, <2>6, <3>1, <4>3, <4>5, WishStays DEF MenuInv
    <3>3. CASE rx[1].up = FALSE
      <4>1. m' = MenuClient!LinkReport(m, FALSE)
        BY <2>6, <3>3
      <4>2. MenuWork' /\ m'.desired = m.desired
        BY <1>1, <2>1, <2>6, <4>1, WorkGone
      <4> QED
        BY <1>1, <2>1, <2>6, <3>1, <4>2, WishStays DEF MenuInv
    <3>4. rx[1].up \in BOOLEAN
      BY <2>2, <2>6 DEF MenuFrame, AckFrame
    <3> QED
      BY <3>2, <3>3, <3>4
  <2>7. \/ /\ rx[1].kind = "ack" /\ UNCHANGED queue
           /\ IF MenuClient!Eligible /\ rx[1].op = Head(m.frames)
              THEN /\ m' = [m EXCEPT !.flags = @ \cup {rx[1].what}]
                   /\ missed' = IF rx[1].fresh THEN missed ELSE missed \cup {"late"}
              ELSE UNCHANGED <<m, missed>>
        \/ /\ rx[1].kind = "peer" /\ m' = MenuClient!PeerMode(m, rx[1].mode)
           /\ MenuClient!Enqueued(rx[1].mode)
        \/ rx[1].kind = "back" /\ m' = m /\ MenuClient!Enqueued("back")
        \/ /\ rx[1].kind = "link" /\ m' = MenuClient!LinkReport(m, rx[1].up)
           /\ UNCHANGED <<queue, missed>>
    BY <1>3, <2>2 DEF MenuClient!RestOfFrame
  <2> QED
    BY <2>3, <2>4, <2>5, <2>6, <2>7
<1> QED
  BY <1>2, <1>3

\* The DSP has the request, and does what it says or not.
LEMMA WorkHeard ==
  ASSUME MenuWork, MenuClient!Hear
  PROVE  MenuWork'
<1>1. PICK f \in wire, w \in {"ack", "negative", "bad"} :
        /\ wire' = {} /\ owed' = {[kind |-> "ack", op |-> f.op, what |-> w, fresh |-> TRUE]}
        /\ dsp' = IF f.op = "mode" /\ w = "ack" THEN [dsp EXCEPT !.mode = f.mode] ELSE dsp
        /\ UNCHANGED <<sent, rx, m, port, missed>>
  BY DEF MenuClient!Hear, MenuClient!Leave
<1> DEFINE a == [kind |-> "ack", op |-> f.op, what |-> w, fresh |-> TRUE]
<1>2. /\ m.phase = "drain" /\ f = [op |-> Head(m.frames), mode |-> m.planned]
      /\ MenuClient!Active(m)
  BY <1>1 DEF MenuWork, MenuStands, MenuClient!Active
<1>3. f.op = Head(m.frames) /\ f.mode = m.planned
  BY <1>2
<1>4. Head(m.frames) \in MenuOp
  BY <1>2 DEF MenuWork, MenuTypes, HasFrames
<1>5. owed' = {a} /\ a \in AckFrame /\ a.fresh /\ a.what = w
  BY <1>1, <1>3, <1>4 DEF AckFrame
<1> HIDE DEF a
<1>6. dsp' = [mode |-> dsp'.mode, up |-> dsp'.up]
      /\ (dsp'.mode = IF f.op = "mode" /\ w = "ack" THEN m.planned ELSE dsp.mode)
  BY <1>1, <1>3 DEF MenuWork, MenuTypes
<1>7. MenuTypes'
  BY <1>1, <1>5, <1>6 DEF MenuWork, MenuTypes
<1>8. MenuStands'
  BY <1>1 DEF MenuWork, MenuStands
<1>9. "late" \notin missed => m.flags = {} /\ NoneFresh(rx)
  BY <1>1 DEF MenuWork, AnsweredOnce, FreshOnce
<1>10. AnsweredOnce'
  BY <1>1, <1>2, <1>5, <1>9 DEF AnsweredOnce, FreshOnce, NoneFresh
<1>11. ASSUME "late" \notin missed, Agrees'
       PROVE  w = "ack"
  BY <1>1, <1>5, <1>9, <1>11 DEF Agrees, Says, NoneFresh
<1>12. ASSUME Sure(missed), port = "open"
       PROVE  GoesBy'
  <2>1. GoesBy /\ "late" \notin missed
    BY <1>12 DEF MenuWork, ModeKnown, Sure
  <2>2. CASE Head(m.frames) = "mode"
    <3>1. Asked(m)
      BY <1>2, <2>2 DEF Asked
    <3>2. Agrees' => dsp'.mode = m.planned
      BY <1>3, <1>6, <1>11, <2>1, <2>2
    <3> QED
      BY <1>1, <3>1, <3>2 DEF GoesBy
  <2>3. CASE Head(m.frames) # "mode"
    <3>1. ~Asked(m) /\ dsp'.mode = dsp.mode
      BY <1>3, <1>6, <2>3 DEF Asked
    <3> QED
      BY <1>1, <2>1, <3>1 DEF GoesBy
  <2> QED
    BY <2>2, <2>3
<1>13. ModeKnown'
  BY <1>1, <1>12 DEF ModeKnown
<1> QED
  BY <1>7, <1>8, <1>10, <1>13 DEF MenuWork

\* An answer is lost.
LEMMA WorkLost ==
  ASSUME MenuWork, owed' \in SUBSET owed, UNCHANGED <<sent, wire, rx, m, port, dsp, missed>>
  PROVE  MenuWork'
<1>1. MenuTypes' /\ MenuStands'
  BY DEF MenuWork, MenuTypes, MenuStands
<1>2. AnsweredOnce'
  BY DEF MenuWork, AnsweredOnce, FreshOnce, NoneFresh
<1>3. Agrees' => Agrees
  BY DEF Agrees
<1>4. ModeKnown'
  BY <1>3 DEF MenuWork, ModeKnown, GoesBy
<1> QED
  BY <1>1, <1>2, <1>4 DEF MenuWork

\* An answer arrives.
LEMMA WorkArrives ==
  ASSUME MenuWork, NEW a \in owed, owed' = owed \ {a}, rx' = Append(rx, a),
         UNCHANGED <<sent, wire, m, port, dsp, missed>>
  PROVE  MenuWork'
<1>1. rx \in Seq(MenuFrame) /\ a \in AckFrame /\ a \in MenuFrame /\ owed' = {}
  BY DEF MenuWork, MenuTypes, MenuFrame
<1>2. a.kind = "ack"
  BY <1>1 DEF AckFrame
<1>3. /\ rx' \in Seq(MenuFrame) /\ Len(rx') = Len(rx) + 1 /\ Len(rx) \in Nat
      /\ rx'[Len(rx')] = a /\ Len(rx') \in 1..Len(rx')
      /\ \A i \in 1..Len(rx') : i = Len(rx') \/ (i \in 1..Len(rx) /\ rx'[i] = rx[i])
      /\ ~IsFresh(a) /\ NoneFresh(rx) => NoneFresh(rx')
      /\ Gone(rx) => Gone(rx')
      /\ (\E i \in 1..Len(rx') : Says(rx'[i])) => Says(a) \/ \E i \in 1..Len(rx) : Says(rx[i])
  <2> DEFINE q == rx'
  <2>1. /\ q \in Seq(MenuFrame) /\ Len(q) = Len(rx) + 1 /\ Len(rx) \in Nat
        /\ (\A i \in 1..Len(rx) : q[i] = rx[i]) /\ q[Len(rx) + 1] = a
    BY <1>1
  <2> HIDE DEF q
  <2>2. /\ q \in Seq(MenuFrame) /\ Len(q) = Len(rx) + 1 /\ Len(rx) \in Nat
        /\ q[Len(q)] = a /\ Len(q) \in 1..Len(q)
        /\ \A i \in 1..Len(q) : i = Len(q) \/ (i \in 1..Len(rx) /\ q[i] = rx[i])
        /\ ~IsFresh(a) /\ NoneFresh(rx) => NoneFresh(q)
        /\ Gone(rx) => Gone(q)
        /\ (\E i \in 1..Len(q) : Says(q[i])) => Says(a) \/ \E i \in 1..Len(rx) : Says(rx[i])
    BY <1>1, <2>1, AppendMenu
  <2> QED
    BY <2>2 DEF q
<1>4. MenuTypes'
  BY <1>1, <1>3 DEF MenuWork, MenuTypes
<1>5. MenuStands'
  BY DEF MenuWork, MenuStands
<1>6. AnsweredOnce'
  <2> SUFFICES ASSUME "late" \notin missed
               PROVE  FreshOnce'
    BY DEF AnsweredOnce
  <2>1. FreshOnce
    BY DEF MenuWork, AnsweredOnce
  <2>2. CASE a.fresh
    <3>1. m.flags = {} /\ NoneFresh(rx) /\ m.phase # "send" /\ wire = {}
      BY <2>1, <2>2 DEF FreshOnce
    <3>2. \A i \in 1..Len(rx') : (IsFresh(rx'[i]) => i = Len(rx'))
      BY <1>3, <3>1 DEF NoneFresh
    <3> QED
      BY <1>1, <3>1, <3>2 DEF FreshOnce
  <2>3. CASE ~a.fresh
    <3>1. ~IsFresh(a)
      BY <2>3 DEF IsFresh
    <3>2. \A i \in 1..Len(rx') : (IsFresh(rx'[i]) => i \in 1..Len(rx) /\ IsFresh(rx[i]))
      BY <1>3, <3>1
    <3> QED
      BY <1>1, <1>3, <2>1, <3>1, <3>2 DEF FreshOnce
  <2> QED
    BY <2>2, <2>3
<1>7. Agrees' => Agrees
  BY <1>1, <1>3 DEF Agrees
<1>8. ModeKnown'
  BY <1>3, <1>7 DEF MenuWork, ModeKnown, GoesBy
<1> QED
  BY <1>4, <1>5, <1>6, <1>8 DEF MenuWork

\* The headset says something, and it is gone or its mode stays.
LEMMA WorkSays ==
  ASSUME MenuWork, NEW f \in MenuFrame, f.kind # "ack", rx' = Append(rx, f),
         dsp' = [mode |-> dsp'.mode, up |-> dsp'.up],
         dsp'.mode = dsp.mode \/ (f.kind = "link" /\ ~f.up),
         UNCHANGED <<sent, wire, owed, m, port, missed>>
  PROVE  MenuWork'
<1>1. rx \in Seq(MenuFrame) /\ ~IsFresh(f) /\ ~Says(f)
  BY DEF MenuWork, MenuTypes, IsFresh, Says
<1>2. /\ rx' \in Seq(MenuFrame) /\ Len(rx') = Len(rx) + 1 /\ Len(rx) \in Nat
      /\ rx'[Len(rx')] = f /\ Len(rx') \in 1..Len(rx')
      /\ \A i \in 1..Len(rx') : i = Len(rx') \/ (i \in 1..Len(rx) /\ rx'[i] = rx[i])
      /\ ~IsFresh(f) /\ NoneFresh(rx) => NoneFresh(rx')
      /\ Gone(rx) => Gone(rx')
      /\ f.kind = "link" /\ ~f.up => Gone(rx')
      /\ (\E i \in 1..Len(rx') : Says(rx'[i])) => Says(f) \/ \E i \in 1..Len(rx) : Says(rx[i])
  <2> DEFINE q == rx'
  <2>1. /\ q \in Seq(MenuFrame) /\ Len(q) = Len(rx) + 1 /\ Len(rx) \in Nat
        /\ (\A i \in 1..Len(rx) : q[i] = rx[i]) /\ q[Len(rx) + 1] = f
    BY <1>1
  <2> HIDE DEF q
  <2>2. /\ q \in Seq(MenuFrame) /\ Len(q) = Len(rx) + 1 /\ Len(rx) \in Nat
        /\ q[Len(q)] = f /\ Len(q) \in 1..Len(q)
        /\ \A i \in 1..Len(q) : i = Len(q) \/ (i \in 1..Len(rx) /\ q[i] = rx[i])
        /\ ~IsFresh(f) /\ NoneFresh(rx) => NoneFresh(q)
        /\ Gone(rx) => Gone(q)
        /\ f.kind = "link" /\ ~f.up => Gone(q)
        /\ (\E i \in 1..Len(q) : Says(q[i])) => Says(f) \/ \E i \in 1..Len(rx) : Says(rx[i])
    BY <1>1, <2>1, AppendMenu
  <2> QED
    BY <2>2 DEF q
<1>3. MenuTypes'
  BY <1>2 DEF MenuWork, MenuTypes
<1>4. MenuStands'
  BY DEF MenuWork, MenuStands
<1>5. \A i \in 1..Len(rx') : (IsFresh(rx'[i]) => i \in 1..Len(rx) /\ IsFresh(rx[i]))
  BY <1>1, <1>2
<1>6. AnsweredOnce'
  BY <1>1, <1>2, <1>5 DEF MenuWork, AnsweredOnce, FreshOnce
<1>7. Agrees' => Agrees
  BY <1>1, <1>2 DEF Agrees
<1>8. ModeKnown'
  <2>1. CASE f.kind = "link" /\ ~f.up
    BY <1>2, <2>1 DEF ModeKnown, GoesBy
  <2>2. CASE ~(f.kind = "link" /\ ~f.up)
    <3>1. dsp'.mode = dsp.mode /\ (Gone(rx) => Gone(rx'))
      BY <1>2, <2>2
    <3> QED
      BY <1>7, <3>1 DEF MenuWork, ModeKnown, GoesBy
  <2> QED
    BY <2>1, <2>2
<1> QED
  BY <1>3, <1>4, <1>6, <1>8 DEF MenuWork

\* Every step of the DSP, and every frame the headset sends of its own.
LEMMA MenuHears ==
  ASSUME MenuInv
  PROVE  /\ MenuClient!Hear => MenuInv'
         /\ MenuClient!Answer => MenuInv'
         /\ MenuClient!LoseAnswer => MenuInv'
         /\ \A f \in MenuFrame :
              ((/\ f.kind # "ack" /\ MenuClient!Says(f)
                /\ dsp' = [mode |-> dsp'.mode, up |-> dsp'.up]
                /\ dsp'.mode = dsp.mode \/ (f.kind = "link" /\ ~f.up))
               => MenuInv')
<1>1. MenuWork /\ MenuWish
  BY DEF MenuInv
<1>2. ASSUME MenuClient!Hear
      PROVE  MenuInv'
  <2>1. UNCHANGED <<m, queue, ui, missed>>
    BY <1>2 DEF MenuClient!Hear, MenuClient!uiVars
  <2> QED
    BY <1>1, <1>2, <2>1, WorkHeard, WishStays DEF MenuInv
<1>3. ASSUME MenuClient!Answer
      PROVE  MenuInv'
  <2>1. PICK a \in owed : owed' = owed \ {a} /\ rx' = Append(rx, a)
    BY <1>3 DEF MenuClient!Answer, MenuClient!Give
  <2>2. UNCHANGED <<sent, wire, m, port, dsp, missed, queue, ui>>
    BY <1>3 DEF MenuClient!Answer, MenuClient!uiVars, MenuClient!worldVars
  <2> QED
    BY <1>1, <2>1, <2>2, WorkArrives, WishStays DEF MenuInv
<1>4. ASSUME MenuClient!LoseAnswer
      PROVE  MenuInv'
  <2>1. owed' \in SUBSET owed
    BY <1>4 DEF MenuClient!LoseAnswer, MenuClient!Lose
  <2>2. UNCHANGED <<sent, wire, rx, m, port, dsp, missed, queue, ui>>
    BY <1>4 DEF MenuClient!LoseAnswer, MenuClient!uiVars, MenuClient!worldVars
  <2> QED
    BY <1>1, <2>1, <2>2, WorkLost, WishStays DEF MenuInv
<1>5. ASSUME NEW f \in MenuFrame, f.kind # "ack", MenuClient!Says(f),
             dsp' = [mode |-> dsp'.mode, up |-> dsp'.up],
             dsp'.mode = dsp.mode \/ (f.kind = "link" /\ ~f.up)
      PROVE  MenuInv'
  <2>1. rx' = Append(rx, f) /\ UNCHANGED <<sent, wire, owed, m, port, missed, queue, ui>>
    BY <1>5 DEF MenuClient!Says, MenuClient!uiVars
  <2> QED
    BY <1>1, <1>5, <2>1, WorkSays, WishStays DEF MenuInv
<1> QED
  BY <1>2, <1>3, <1>4, <1>5

\* A set of natural numbers with no element below another's: the order is well-founded, and a
\* set that is not empty has a least one.
LEMMA LeastOf ==
  ASSUME NEW R, IsWellFoundedOn(R, Nat), NEW T, T \subseteq Nat, T # {}
  PROVE  \E x \in T : \A y \in T : ~(<<y, x>> \in R)
BY WFMin

\* There is such an order of the natural numbers.
LEMMA Below == \E R : IsWellFoundedOn(R, Nat) /\ \A a, b \in Nat : a < b => <<a, b>> \in R
<1> DEFINE R == OpToRel(<, Nat)
<1>1. IsWellFoundedOn(R, Nat)
  BY NatLessThanWellFounded
<1>2. \A a, b \in Nat : a < b => <<a, b>> \in R
  BY DEF OpToRel
<1> QED
  BY <1>1, <1>2, Zenon

\* A set of natural numbers that is not empty has a least element.
LEMMA LeastNat ==
  ASSUME NEW T, T \subseteq Nat, T # {}
  PROVE  \E n \in T : \A k \in T : n <= k
<1>1. PICK R : IsWellFoundedOn(R, Nat) /\ \A a, b \in Nat : a < b => <<a, b>> \in R
  BY Below
<1>2. \A a, b \in Nat : a < b => <<a, b>> \in R
  BY <1>1
<1>3. PICK x \in T : \A y \in T : ~(<<y, x>> \in R)
  BY <1>1, LeastOf
<1>4. ASSUME NEW k \in T
      PROVE  x <= k
  <2>1. k \in Nat /\ x \in Nat
    OBVIOUS
  <2>2. ~(k < x)
    BY <1>2, <1>3, <2>1
  <2> QED
    BY <2>1, <2>2
<1> QED
  BY <1>4

\* s[i] is what the user interface has made of it all after i of the events e.
Shown == [ui |-> ui, m |-> m, missed |-> missed]
IsPolled(s, e, k) ==
  s = [i \in 0..k |-> IF i = 0 THEN Shown ELSE MenuClient!Taken(s[i - 1], i, e[i])]

\* One more event is taken.
LEMMA PolledOneMore ==
  ASSUME NEW e, NEW k \in Nat, NEW s, IsPolled(s, e, k)
  PROVE  \E t : IsPolled(t, e, k + 1)
<1> DEFINE last == MenuClient!Taken(s[k], k + 1, e[k + 1])
           t == [i \in 0..(k + 1) |-> IF i = k + 1 THEN last ELSE s[i]]
           u == [i \in 0..(k + 1) |->
                   IF i = 0 THEN Shown ELSE MenuClient!Taken(t[i - 1], i, e[i])]
<1>1. \A i \in 0..(k + 1) : t[i] = IF i = k + 1 THEN last ELSE s[i]
  OBVIOUS
<1>2. \A i \in 0..k : s[i] = IF i = 0 THEN Shown ELSE MenuClient!Taken(s[i - 1], i, e[i])
  BY DEF IsPolled
<1>3. \A i \in 0..(k + 1) :
        u[i] = IF i = 0 THEN Shown ELSE MenuClient!Taken(t[i - 1], i, e[i])
  OBVIOUS
<1>4. /\ DOMAIN t = 0..(k + 1) /\ t = [i \in 0..(k + 1) |-> t[i]]
      /\ DOMAIN u = 0..(k + 1) /\ u = [i \in 0..(k + 1) |-> u[i]]
  OBVIOUS
<1>5. last = MenuClient!Taken(s[k], k + 1, e[k + 1])
  OBVIOUS
<1> HIDE DEF last, t, u
<1>6. ASSUME NEW i \in 0..(k + 1)
      PROVE  t[i] = u[i]
  <2>1. CASE i = 0
    <3>1. i \in 0..k /\ i # k + 1
      BY <2>1
    <3> QED
      BY <1>1, <1>2, <1>3, <2>1, <3>1
  <2>2. CASE i = k + 1
    <3>1. i - 1 = k /\ k \in 0..(k + 1) /\ k # k + 1 /\ i # 0
      BY <2>2
    <3>2. t[i - 1] = s[k]
      BY <1>1, <3>1
    <3> QED
      BY <1>1, <1>3, <1>5, <2>2, <3>1, <3>2
  <2>3. CASE i # 0 /\ i # k + 1
    <3>1. i \in 0..k /\ i - 1 \in 0..(k + 1) /\ i - 1 # k + 1
      BY <2>3
    <3>2. t[i - 1] = s[i - 1]
      BY <1>1, <3>1
    <3> QED
      BY <1>1, <1>2, <1>3, <2>3, <3>1, <3>2
  <2> QED
    BY <2>1, <2>2, <2>3
<1>7. t = u
  BY <1>4, <1>6
<1> QED
  BY <1>7 DEF IsPolled, u

\* Any number of events can be taken.
LEMMA PolledAny ==
  ASSUME NEW e
  PROVE  \A k \in Nat : \E s : IsPolled(s, e, k)
<1> DEFINE Bad == {k \in Nat : ~\E s : IsPolled(s, e, k)}
<1>1. Bad \subseteq Nat /\ \A k \in Nat : k \notin Bad => \E s : IsPolled(s, e, k)
  OBVIOUS
<1>2. \A k \in Bad : k \in Nat /\ ~\E s : IsPolled(s, e, k)
  OBVIOUS
<1> HIDE DEF Bad
<1> SUFFICES ASSUME Bad # {}
             PROVE  FALSE
  BY <1>1
<1>3. PICK k \in Bad : \A j \in Bad : k <= j
  BY <1>1, LeastNat
<1>4. k # 0
  <2> DEFINE s == [i \in 0..0 |-> Shown]
  <2>1. s = [i \in 0..0 |-> IF i = 0 THEN Shown ELSE MenuClient!Taken(s[i - 1], i, e[i])]
    OBVIOUS
  <2>2. IsPolled(s, e, 0)
    BY <2>1 DEF IsPolled
  <2> QED
    BY <1>2, <2>2
<1>5. k - 1 \in Nat /\ k - 1 \notin Bad /\ k = (k - 1) + 1
  BY <1>1, <1>3, <1>4
<1>6. PICK s : IsPolled(s, e, k - 1)
  BY <1>1, <1>5
<1>7. \E t : IsPolled(t, e, k)
  <2> DEFINE j == k - 1
  <2>1. j \in Nat /\ IsPolled(s, e, j) /\ k = j + 1
    BY <1>5, <1>6
  <2> HIDE DEF j
  <2>2. \E t : IsPolled(t, e, j + 1)
    BY <2>1, PolledOneMore
  <2> QED
    BY <2>1, <2>2
<1> QED
  BY <1>2, <1>3, <1>7

\* What the user interface makes of the events is what it makes of the last one.
LEMMA PolledLast ==
  ASSUME NEW e, Len(e) \in Nat
  PROVE  \E s : IsPolled(s, e, Len(e)) /\ MenuClient!Polled(e) = s[Len(e)]
<1>1. \E s : s = [i \in 0..Len(e) |->
                    IF i = 0 THEN [ui |-> ui, m |-> m, missed |-> missed]
                    ELSE MenuClient!Taken(s[i - 1], i, e[i])]
  BY PolledAny DEF IsPolled, Shown
<1> QED
  BY <1>1 DEF MenuClient!Polled, IsPolled, Shown

\* An event that is taken lets what is under way go on.
LEMMA TakenGoesOn ==
  ASSUME NEW s, NEW i, NEW e, NEW t, t = MenuClient!Taken(s, i, e), IsMenu(s.m)
  PROVE  IsMenu(t.m) /\ GoesOn(s.m, t.m) /\ SameDoubt(s.missed, t.missed)
<1> DEFINE now == CASE e = "menu" -> MenuClient!Other(s.ui)
                    [] e = "back" -> "closed"
                    [] OTHER -> e
<1>1. /\ t.m = s.m \/ t.m = MenuClient!Request(s.m, now)
      /\ \E x \in SUBSET {"refused", "overtaken"} : t.missed = s.missed \cup x
  <2> DEFINE keyed == e \in {"menu", "back"} /\ now # s.ui
             refused == IF keyed /\ s.m.fault THEN {"refused"} ELSE {}
             overtaken == IF keyed /\ \E j \in i + 1..Len(queue) : queue[j] # "back"
                          THEN {"overtaken"} ELSE {}
  <2>1. t = [ui |-> now, m |-> IF keyed THEN MenuClient!Request(s.m, now) ELSE s.m,
             missed |-> s.missed \cup refused \cup overtaken]
    BY DEF MenuClient!Taken
  <2>2. refused \in SUBSET {"refused", "overtaken"} /\ overtaken \in SUBSET {"refused", "overtaken"}
    OBVIOUS
  <2> HIDE DEF now, keyed, refused, overtaken
  <2>3. refused \cup overtaken \in SUBSET {"refused", "overtaken"}
    BY <2>2
  <2>4. t.missed = s.missed \cup (refused \cup overtaken)
    BY <2>1
  <2>5. t.m = IF keyed THEN MenuClient!Request(s.m, now) ELSE s.m
    BY <2>1
  <2>6. t.m = s.m \/ t.m = MenuClient!Request(s.m, now)
    BY <2>5
  <2>7. \E x \in SUBSET {"refused", "overtaken"} : t.missed = s.missed \cup x
    BY <2>3, <2>4
  <2> QED
    BY <2>6, <2>7
<1> HIDE DEF now
<1>2. SameDoubt(s.missed, t.missed)
  BY <1>1 DEF SameDoubt
<1>3. ASSUME t.m = MenuClient!Request(s.m, now)
      PROVE  IsMenu(t.m) /\ GoesOn(s.m, t.m)
  <2>1. CASE t.m = s.m
    BY <2>1 DEF GoesOn
  <2>2. CASE t.m # s.m
    <3> DEFINE r == s.m
               q == t.m
    <3>1. PICK p : q = [r EXCEPT !.pending = p, !.desired = now,
                                 !.phase = IF MenuClient!Active(r) THEN @ ELSE "queued"]
      BY <1>3, <2>2 DEF MenuClient!Request, MenuClient!Queue
    <3>2. IsMenu(r)
      OBVIOUS
    <3> HIDE DEF r, q
    <3>3. /\ IsMenu(q)
          /\ MenuClient!Active(r) => q.phase = r.phase
          /\ ~MenuClient!Active(r) => ~MenuClient!Active(q)
          /\ \A f \in MenuFields \ {"phase", "pending", "desired"} : q[f] = r[f]
      BY <3>1, <3>2 DEF IsMenu, MenuFields, MenuClient!Active
    <3>4. GoesOn(r, q)
      BY <3>3 DEF GoesOn, MenuFields
    <3> QED
      BY <3>3, <3>4 DEF r, q
  <2> QED
    BY <2>1, <2>2
<1>4. ASSUME t.m = s.m
      PROVE  IsMenu(t.m) /\ GoesOn(s.m, t.m)
  BY <1>4 DEF GoesOn
<1> QED
  BY <1>1, <1>2, <1>3, <1>4

\* What is wanted after an event is what is wanted before, or what the key that is taken shows.
LEMMA TakenWanted ==
  ASSUME NEW s, NEW i \in Nat \ {0}, NEW e, NEW t, t = MenuClient!Taken(s, i, e),
         queue \in Seq({"open", "closed", "back"}), IsMenu(s.m),
         (i \in 1..Len(queue) /\ e = queue[i]) \/ (i = Len(queue) + 1 /\ e = "menu"),
         Lossless(s.missed) => Wanted(queue, i, s.m.desired, s.ui)
  PROVE  Lossless(t.missed) => Wanted(queue, i + 1, t.m.desired, t.ui)
<1> SUFFICES ASSUME Lossless(t.missed)
             PROVE  Wanted(queue, i + 1, t.m.desired, t.ui)
  OBVIOUS
<1> DEFINE now == CASE e = "menu" -> MenuClient!Other(s.ui)
                    [] e = "back" -> "closed"
                    [] OTHER -> e
           keyed == e \in {"menu", "back"} /\ now # s.ui
           refused == IF keyed /\ s.m.fault THEN {"refused"} ELSE {}
           overtaken == IF keyed /\ \E j \in i + 1..Len(queue) : queue[j] # "back"
                        THEN {"overtaken"} ELSE {}
<1>1. /\ t.ui = now /\ t.m = IF keyed THEN MenuClient!Request(s.m, now) ELSE s.m
      /\ t.missed = s.missed \cup refused \cup overtaken
  BY DEF MenuClient!Taken
<1>2. Len(queue) \in Nat
  OBVIOUS
<1>3. keyed => e \in {"menu", "back"}
  OBVIOUS
<1>4. ~keyed /\ e \in {"menu", "back"} => now = s.ui
  OBVIOUS
<1>5. e = "menu" => now # s.ui
  BY DEF MenuClient!Other
<1>6. e \notin {"menu", "back"} => now = e
  OBVIOUS
<1>7. (keyed /\ s.m.fault) => "refused" \in t.missed
  BY <1>1
<1>8. ASSUME keyed, NEW j \in (i + 1)..Len(queue), queue[j] # "back"
      PROVE  "overtaken" \in t.missed
  BY <1>1, <1>8
<1>9. Lossless(s.missed)
  BY <1>1 DEF Lossless
<1>10. keyed => ~s.m.fault
  BY <1>7 DEF Lossless
<1>11. keyed => OnlyBack(queue, i + 1)
  BY <1>8 DEF OnlyBack, Lossless
<1>12. e = "menu" => keyed
  BY <1>5
<1> HIDE DEF keyed, refused, overtaken, now
<1>13. CASE keyed
  <2>1. t.m.desired = now
    <3>1. t.m = [s.m EXCEPT !.pending = {[open |-> now, context |-> TRUE, force |-> FALSE]},
                            !.desired = now,
                            !.phase = IF MenuClient!Active(s.m) THEN @ ELSE "queued"]
      BY <1>1, <1>10, <1>13 DEF MenuClient!Request, MenuClient!Queue
    <3> QED
      BY <3>1 DEF IsMenu, MenuFields
  <2>2. OnlyBack(queue, i + 1)
    BY <1>11, <1>13
  <2>3. \A j \in (i + 1)..Len(queue) : queue[j] = "back"
    BY <2>2 DEF OnlyBack
  <2> QED
    BY <1>1, <2>1, <2>3 DEF Wanted
<1>14. CASE ~keyed
  <2>1. t.m = s.m /\ i \in 1..Len(queue) /\ e = queue[i]
    BY <1>1, <1>12, <1>14
  <2>2. Wanted(queue, i, s.m.desired, s.ui)
    BY <1>9
  <2>3. \A j \in (i + 1)..Len(queue) :
          (queue[j] # "back" /\ OnlyBack(queue, j + 1) => s.m.desired = queue[j])
    <3>1. \A j \in (i + 1)..Len(queue) : j \in i..Len(queue)
      OBVIOUS
    <3> QED
      BY <2>2, <3>1 DEF Wanted
  <2>4. ASSUME OnlyBack(queue, i + 1)
        PROVE  s.m.desired \in {"none", now}
    <3>1. i \in i..Len(queue)
      BY <2>1
    <3>2. CASE e = "back"
      <4>1. now = s.ui
        BY <1>4, <1>14, <3>2
      <4>2. ASSUME NEW j \in i..Len(queue)
            PROVE  queue[j] = "back"
        <5>1. j = i \/ j \in (i + 1)..Len(queue)
          OBVIOUS
        <5> QED
          BY <2>1, <2>4, <3>2, <5>1 DEF OnlyBack
      <4>3. OnlyBack(queue, i)
        BY <4>2 DEF OnlyBack
      <4> QED
        BY <2>2, <4>1, <4>3 DEF Wanted
    <3>3. CASE e # "back"
      <4>1. now = e
        BY <1>6, <1>12, <1>14, <3>3
      <4> QED
        BY <2>1, <2>2, <2>4, <3>1, <3>3, <4>1 DEF Wanted
    <3> QED
      BY <3>2, <3>3
  <2> QED
    BY <1>1, <2>1, <2>3, <2>4 DEF Wanted
<1> QED
  BY <1>13, <1>14

\* The events are the queue and, at most, one key behind it.
Events(e) ==
  /\ Len(e) \in Nat /\ Len(e) >= Len(queue)
  /\ \A i \in 1..Len(e) : \/ i \in 1..Len(queue) /\ e[i] = queue[i]
                          \/ i = Len(queue) + 1 /\ e[i] = "menu"

\* What is made of the first i events.
Followed(s, i) ==
  /\ IsMenu(s.m) /\ GoesOn(m, s.m) /\ SameDoubt(missed, s.missed)
  /\ Lossless(s.missed) => Wanted(queue, i + 1, s.m.desired, s.ui)

\* One event more is followed.
LEMMA FollowedOneMore ==
  ASSUME MenuInv, NEW e, Events(e), NEW i \in 1..Len(e), NEW s, NEW t,
         t = MenuClient!Taken(s, i, e[i]), Followed(s, i - 1)
  PROVE  Followed(t, i)
<1>1. queue \in Seq({"open", "closed", "back"})
  BY DEF MenuInv, MenuWish
<1>2. i \in Nat \ {0} /\ (i - 1) + 1 = i
  BY DEF Events
<1>3. \/ i \in 1..Len(queue) /\ e[i] = queue[i]
      \/ i = Len(queue) + 1 /\ e[i] = "menu"
  BY DEF Events
<1>4. /\ IsMenu(s.m) /\ GoesOn(m, s.m) /\ SameDoubt(missed, s.missed)
      /\ Lossless(s.missed) => Wanted(queue, i, s.m.desired, s.ui)
  BY <1>2 DEF Followed
<1>5. IsMenu(t.m) /\ GoesOn(s.m, t.m) /\ SameDoubt(s.missed, t.missed)
  BY <1>4, TakenGoesOn
<1>6. GoesOn(m, t.m)
  BY <1>4, <1>5 DEF GoesOn, MenuClient!Active
<1>7. SameDoubt(missed, t.missed)
  BY <1>4, <1>5 DEF SameDoubt
<1>8. Lossless(t.missed) => Wanted(queue, i + 1, t.m.desired, t.ui)
  BY <1>1, <1>2, <1>3, <1>4, TakenWanted
<1> QED
  BY <1>5, <1>6, <1>7, <1>8 DEF Followed

\* All of them are.
LEMMA FollowedAll ==
  ASSUME MenuInv, NEW e, Events(e)
  PROVE  Followed(MenuClient!Polled(e), Len(e))
<1> DEFINE n == Len(e)
<1>1. n \in Nat
  BY DEF Events
<1>2. PICK s : IsPolled(s, e, n) /\ MenuClient!Polled(e) = s[n]
  BY <1>1, PolledLast
<1>3. \A i \in 0..n : s[i] = IF i = 0 THEN Shown ELSE MenuClient!Taken(s[i - 1], i, e[i])
  BY <1>2 DEF IsPolled
<1> DEFINE Bad == {i \in 0..n : ~Followed(s[i], i)}
<1>4. Bad \subseteq Nat /\ \A i \in 0..n : i \notin Bad => Followed(s[i], i)
  OBVIOUS
<1>5. \A i \in Bad : i \in 0..n /\ ~Followed(s[i], i)
  OBVIOUS
<1> HIDE DEF Bad
<1>6. ASSUME Bad # {}
      PROVE  FALSE
  <2>1. PICK k \in Bad : \A j \in Bad : k <= j
    BY <1>4, <1>6, LeastNat
  <2>2. k \in 0..n
    BY <1>5
  <2>3. Followed(Shown, 0)
    <3>1. Shown.m = m /\ Shown.missed = missed /\ Shown.ui = ui
      BY DEF Shown
    <3>2. IsMenu(m) /\ (Lossless(missed) => Wanted(queue, 1, m.desired, ui))
      BY DEF MenuInv, MenuWork, MenuTypes, MenuWish
    <3>3. GoesOn(m, m) /\ SameDoubt(missed, missed)
      BY DEF GoesOn, SameDoubt
    <3> QED
      BY <3>1, <3>2, <3>3 DEF Followed
  <2>4. k # 0
    BY <1>1, <1>3, <1>5, <2>3
  <2>5. k \in 1..n /\ k - 1 \in 0..n /\ k - 1 \notin Bad
    BY <1>1, <2>1, <2>2, <2>4
  <2>6. s[k] = MenuClient!Taken(s[k - 1], k, e[k]) /\ Followed(s[k - 1], k - 1)
    BY <1>3, <1>4, <2>2, <2>4, <2>5
  <2>7. Followed(s[k], k)
    BY <2>5, <2>6, FollowedOneMore
  <2> QED
    BY <1>5, <2>7
<1>7. n \in 0..n
  BY <1>1
<1> QED
  BY <1>2, <1>4, <1>6, <1>7

\* The user interface takes the events.
LEMMA MenuTakes ==
  ASSUME MenuInv, NEW keys \in {<<>>, <<"menu">>},
         LET s == MenuClient!Polled(IF Len(queue) < Capacity THEN queue \o keys ELSE queue)
         IN ui' = s.ui /\ m' = s.m /\ missed' = s.missed,
         queue' = <<>>, UNCHANGED <<sent, wire, owed, rx, port, dsp>>
  PROVE  MenuInv'
<1> DEFINE e == IF Len(queue) < Capacity THEN queue \o keys ELSE queue
<1>1. queue \in Seq({"open", "closed", "back"}) /\ Len(queue) \in Nat
  BY DEF MenuInv, MenuWish
<1>2. Events(e)
  <2>1. Events(queue)
    BY <1>1 DEF Events
  <2>2. Events(queue \o <<>>)
    <3>1. queue \o <<>> = queue
      BY <1>1
    <3> QED
      BY <2>1, <3>1
  <2>3. Events(queue \o <<"menu">>)
    <3> DEFINE q == queue \o <<"menu">>
    <3>1. /\ Len(q) = Len(queue) + 1 /\ q[Len(queue) + 1] = "menu"
          /\ \A i \in 1..Len(queue) : q[i] = queue[i]
      BY <1>1
    <3> HIDE DEF q
    <3>2. \A i \in 1..Len(q) : i \in 1..Len(queue) \/ i = Len(queue) + 1
      BY <1>1, <3>1
    <3>3. Events(q)
      BY <1>1, <3>1, <3>2 DEF Events
    <3> QED
      BY <3>3 DEF q
  <2> QED
    BY <2>1, <2>2, <2>3
<1>3. ui' = MenuClient!Polled(e).ui /\ m' = MenuClient!Polled(e).m
      /\ missed' = MenuClient!Polled(e).missed
  OBVIOUS
<1> HIDE DEF e
<1>4. /\ IsMenu(m') /\ GoesOn(m, m') /\ SameDoubt(missed, missed')
      /\ Lossless(missed') => Wanted(queue, Len(e) + 1, m'.desired, ui')
  BY <1>2, <1>3, FollowedAll DEF Followed
<1>5. MenuWork'
  BY <1>4, WorkGoesOn DEF MenuInv
<1>6. OnlyBack(queue, Len(e) + 1)
  BY <1>1, <1>2 DEF OnlyBack, Events
<1>7. Lossless(missed') => m'.desired \in {"none", ui'}
  BY <1>4, <1>6 DEF Wanted
<1>8. MenuWish'
  <2>1. <<>> \in Seq({"open", "closed", "back"}) /\ Len(<<>>) = 0
    OBVIOUS
  <2>2. Lossless(missed') => Wanted(<<>>, 1, m'.desired, ui')
    BY <1>7, <2>1 DEF Wanted
  <2> QED
    BY <2>1, <2>2 DEF MenuWish
<1> QED
  BY <1>5, <1>8 DEF MenuInv

\* The two instances of the menu's client differ in what bounds them: their other steps are the
\* same, and so is what those that are bounded do.
LEMMA SameClient ==
  /\ \A r : MenuLinks!Active(r) = MenuClient!Active(r)
  /\ \A r : MenuLinks!Finish(r) = MenuClient!Finish(r)
  /\ \A r : MenuLinks!Yielded(r) = MenuClient!Yielded(r)
  /\ \A r : MenuLinks!Released(r) = MenuClient!Released(r)
  /\ \A r, open : MenuLinks!PeerMode(r, open) = MenuClient!PeerMode(r, open)
  /\ \A r, up : MenuLinks!LinkReport(r, up) = MenuClient!LinkReport(r, up)
  /\ \A p : MenuLinks!Plan(p) = MenuClient!Plan(p)
  /\ \A r : MenuLinks!Acknowledged(r) = MenuClient!Acknowledged(r)
  /\ \A r : MenuLinks!Accepted(r) = MenuClient!Accepted(r)
  /\ \A e : MenuLinks!Polled(e) = MenuClient!Polled(e)
<1>1. \A r : MenuLinks!Active(r) = MenuClient!Active(r)
  BY DEF MenuLinks!Active, MenuClient!Active
<1>2. \A r : MenuLinks!Unsure(r) = MenuClient!Unsure(r)
  BY DEF MenuLinks!Unsure, MenuClient!Unsure
<1>3. \A r : MenuLinks!Finish(r) = MenuClient!Finish(r)
  BY <1>2, Zenon DEF MenuLinks!Finish, MenuClient!Finish
<1>4. \A r : MenuLinks!Yielded(r) = MenuClient!Yielded(r)
  BY <1>1, <1>3, Zenon DEF MenuLinks!Yielded, MenuClient!Yielded
<1>5. \A r : MenuLinks!Released(r) = MenuClient!Released(r)
  BY <1>1, <1>3, <1>4, Zenon DEF MenuLinks!Released, MenuClient!Released
<1>6. \A r, o, c, f : MenuLinks!Queue(r, o, c, f) = MenuClient!Queue(r, o, c, f)
  BY <1>1, Zenon DEF MenuLinks!Queue, MenuClient!Queue
<1>7. \A r, o : MenuLinks!Duplicate(r, o) = MenuClient!Duplicate(r, o)
  BY <1>1, Zenon DEF MenuLinks!Duplicate, MenuClient!Duplicate
<1>8. \A r, o : MenuLinks!PeerMode(r, o) = MenuClient!PeerMode(r, o)
  BY <1>6, <1>7, Zenon DEF MenuLinks!PeerMode, MenuClient!PeerMode
<1>9. \A r, up : MenuLinks!LinkReport(r, up) = MenuClient!LinkReport(r, up)
  BY <1>1, <1>4, <1>6, Zenon DEF MenuLinks!LinkReport, MenuClient!LinkReport
<1>10. \A r : MenuLinks!Accepted(r) = MenuClient!Accepted(r)
  BY Zenon DEF MenuLinks!Accepted, MenuClient!Accepted
<1>11. \A p : MenuLinks!Plan(p) = MenuClient!Plan(p)
  BY <1>10, Zenon DEF MenuLinks!Plan, MenuClient!Plan
<1>12. \A r : MenuLinks!Acknowledged(r) = MenuClient!Acknowledged(r)
  BY Zenon DEF MenuLinks!Acknowledged, MenuClient!Acknowledged
<1>13. \A e : MenuLinks!Polled(e) = MenuClient!Polled(e)
  BY Zenon DEF MenuLinks!Polled, MenuClient!Polled, MenuLinks!Taken, MenuClient!Taken,
    MenuLinks!Request, MenuClient!Request, MenuLinks!Other, MenuClient!Other,
    MenuLinks!Queue, MenuClient!Queue, MenuLinks!Active, MenuClient!Active
<1> QED
  BY <1>1, <1>3, <1>4, <1>5, <1>8, <1>9, <1>10, <1>11, <1>12, <1>13, Zenon

\* The steps that are not bounded are the same in both instances.
LEMMA SameSteps ==
  /\ MenuLinks!PollExpire => MenuClient!PollExpire
  /\ MenuLinks!PollStart => MenuClient!PollStart
  /\ MenuLinks!PollSend => MenuClient!PollSend
  /\ MenuLinks!PollDrain => MenuClient!PollDrain
  /\ MenuLinks!PollWait => MenuClient!PollWait
  /\ MenuLinks!PollGap => MenuClient!PollGap
  /\ MenuLinks!PollTimeout => MenuClient!PollTimeout
  /\ MenuLinks!Acquire => MenuClient!Acquire
  /\ MenuLinks!Release => MenuClient!Release
  /\ MenuLinks!FirstByte => MenuClient!FirstByte
  /\ MenuLinks!RestOfFrame => MenuClient!RestOfFrame
  /\ MenuLinks!Hear => MenuClient!Hear
  /\ MenuLinks!Answer => MenuClient!Answer
  /\ MenuLinks!LoseAnswer => MenuClient!LoseAnswer
<1> USE DEF MenuLinks!still, MenuLinks!uiVars, MenuLinks!worldVars, MenuLinks!lineVars,
            MenuLinks!peerVars, MenuClient!still, MenuClient!uiVars, MenuClient!worldVars,
            MenuClient!lineVars, MenuClient!peerVars
<1>1. /\ MenuLinks!Boundary <=> MenuClient!Boundary
      /\ MenuLinks!Stale <=> MenuClient!Stale
      /\ \A r : MenuLinks!CloseUart(r) <=> MenuClient!CloseUart(r)
  BY SameClient, Zenon DEF MenuLinks!Boundary, MenuClient!Boundary, MenuLinks!Drained,
    MenuClient!Drained, MenuLinks!Stale, MenuClient!Stale, MenuLinks!CloseUart,
    MenuClient!CloseUart, MenuLinks!Reset, MenuClient!Reset
<1>2. /\ MenuLinks!PollExpire => MenuClient!PollExpire
      /\ MenuLinks!PollStart => MenuClient!PollStart
      /\ MenuLinks!PollGap => MenuClient!PollGap
  BY <1>1, SameClient, Zenon DEF MenuLinks!PollExpire, MenuClient!PollExpire,
    MenuLinks!PollStart, MenuClient!PollStart, MenuLinks!PollGap, MenuClient!PollGap,
    MenuLinks!Expires, MenuClient!Expires
<1>3. /\ MenuLinks!PollSend => MenuClient!PollSend
      /\ MenuLinks!PollDrain => MenuClient!PollDrain
  BY <1>1, Zenon DEF MenuLinks!PollSend, MenuClient!PollSend, MenuLinks!Push, MenuClient!Push,
    MenuLinks!PollDrain, MenuClient!PollDrain, MenuLinks!Drained, MenuClient!Drained
<1>4. MenuLinks!PollWait => MenuClient!PollWait
  BY SameClient, Zenon DEF MenuLinks!PollWait, MenuClient!PollWait
<1>5. MenuLinks!PollTimeout => MenuClient!PollTimeout
  BY <1>1, SameClient, Zenon DEF MenuLinks!PollTimeout, MenuClient!PollTimeout
<1>6. /\ MenuLinks!Acquire => MenuClient!Acquire
      /\ MenuLinks!Release => MenuClient!Release
  BY <1>1, SameClient, Zenon DEF MenuLinks!Acquire, MenuClient!Acquire, MenuLinks!Release,
    MenuClient!Release, MenuLinks!Drained, MenuClient!Drained
<1>7. MenuLinks!FirstByte => MenuClient!FirstByte
  BY SameClient, Zenon DEF MenuLinks!FirstByte, MenuClient!FirstByte, MenuLinks!Submitted,
    MenuClient!Submitted
<1>8. MenuLinks!RestOfFrame => MenuClient!RestOfFrame
  BY SameClient, Zenon DEF MenuLinks!RestOfFrame, MenuClient!RestOfFrame, MenuLinks!Read,
    MenuClient!Read, MenuLinks!Frame, MenuClient!Frame, MenuLinks!Eligible,
    MenuClient!Eligible, MenuLinks!Submitted, MenuClient!Submitted, MenuLinks!Enqueued,
    MenuClient!Enqueued
<1>9. /\ MenuLinks!Hear => MenuClient!Hear
      /\ MenuLinks!Answer => MenuClient!Answer
      /\ MenuLinks!LoseAnswer => MenuClient!LoseAnswer
  BY Zenon DEF MenuLinks!Hear, MenuClient!Hear, MenuLinks!Leave, MenuClient!Leave,
    MenuLinks!Answer, MenuClient!Answer, MenuLinks!Give, MenuClient!Give,
    MenuLinks!LoseAnswer, MenuClient!LoseAnswer, MenuLinks!Lose, MenuClient!Lose
<1> QED
  BY <1>2, <1>3, <1>4, <1>5, <1>6, <1>7, <1>8, <1>9

\* What holds at first.
LEMMA MenuInit ==
  ASSUME MenuClient!Init \/ MenuLinks!Init
  PROVE  MenuInv
<1>1. /\ m = [phase |-> "over", pending |-> {}, desired |-> "none", mode |-> "unknown",
              planned |-> "closed", frames |-> <<>>, flags |-> {}, cancel |-> FALSE,
              fault |-> FALSE, link |-> "unknown"]
      /\ port = "closed" /\ queue = <<>> /\ missed = {} /\ wire = {} /\ owed = {} /\ rx = <<>>
      /\ dsp \in [mode : {"open", "closed"}, up : BOOLEAN]
  BY DEF MenuClient!Init, MenuClient!LineInit, MenuLinks!Init, MenuLinks!LineInit
<1>2. /\ IsMenu(m) /\ m.phase = "over" /\ m.desired = "none" /\ m.mode = "unknown"
      /\ m.frames = <<>> /\ m.flags = {} /\ ~m.fault
  BY <1>1 DEF IsMenu, MenuFields
<1>3. ~MenuClient!Active(m)
  BY <1>2 DEF MenuClient!Active
<1>4. MenuTypes
  BY <1>1, <1>2, <1>3 DEF MenuTypes, HasFrames
<1>5. MenuStands
  BY <1>1, <1>2, <1>3 DEF MenuStands
<1>6. AnsweredOnce
  BY <1>1, <1>2 DEF AnsweredOnce, FreshOnce, NoneFresh
<1>7. ModeKnown
  BY <1>1 DEF ModeKnown
<1>8. MenuWish
  <2>1. <<>> \in Seq({"open", "closed", "back"}) /\ Len(<<>>) = 0
    OBVIOUS
  <2>2. Wanted(<<>>, 1, m.desired, ui)
    BY <1>2, <2>1 DEF Wanted
  <2> QED
    BY <1>1, <2>1, <2>2 DEF MenuWish
<1> QED
  BY <1>4, <1>5, <1>6, <1>7, <1>8 DEF MenuInv, MenuWork

\* The headset enters or leaves the menu unheard.
LEMMA MenuUnheard ==
  ASSUME MenuInv, NEW mode \in {"open", "closed"}, queue' = Append(queue, mode),
         missed' = missed \cup {"unheard"},
         UNCHANGED <<sent, wire, owed, rx, m, port, ui, dsp>>
  PROVE  MenuInv'
<1>1. MenuWork /\ IsMenu(m) /\ queue \in Seq({"open", "closed", "back"})
  BY DEF MenuInv, MenuWork, MenuTypes, MenuWish
<1>2. GoesOn(m, m') /\ SameDoubt(missed, missed')
  BY DEF GoesOn, SameDoubt
<1>3. MenuWork'
  BY <1>1, <1>2, WorkGoesOn
<1>4. queue' \in Seq({"open", "closed", "back"})
  <2> DEFINE a == queue'
  <2>1. mode \in {"open", "closed", "back"} /\ a = Append(queue, mode)
    OBVIOUS
  <2> HIDE DEF a
  <2>2. a \in Seq({"open", "closed", "back"})
    BY <1>1, <2>1
  <2> QED
    BY <2>2 DEF a
<1>5. ~Lossless(missed')
  BY DEF Lossless
<1> QED
  BY <1>3, <1>4, <1>5 DEF MenuInv, MenuWish

\* The steps that are bounded, whatever their bounds.
LEMMA MenuBounded ==
  ASSUME MenuInv
  PROVE  /\ MenuClient!Yield \/ MenuLinks!Yield => MenuInv'
         /\ MenuClient!PortFails \/ MenuLinks!PortFails => MenuInv'
         /\ MenuClient!UiPoll \/ MenuLinks!UiPoll => MenuInv'
         /\ MenuClient!Enters \/ MenuLinks!Enters => MenuInv'
         /\ MenuClient!EntersUnheard \/ MenuLinks!EntersUnheard => MenuInv'
         /\ MenuClient!Back \/ MenuLinks!Back => MenuInv'
         /\ MenuClient!Links \/ MenuLinks!Links => MenuInv'
<1> USE DEF MenuLinks!uiVars, MenuLinks!lineVars, MenuClient!uiVars, MenuClient!lineVars
<1>1. ASSUME MenuClient!Yield \/ MenuLinks!Yield
      PROVE  MenuInv'
  <2>1. /\ port # "yielding" /\ m' = MenuClient!Yielded(m)
        /\ port' = IF port = "open" THEN "yielding" ELSE port
        /\ UNCHANGED <<sent, wire, owed, rx, queue, ui, dsp, missed>>
    BY <1>1, SameClient, Zenon DEF MenuClient!Yield, MenuLinks!Yield
  <2> QED
    BY <2>1, MenuYields
<1>2. ASSUME MenuClient!PortFails \/ MenuLinks!PortFails
      PROVE  MenuInv'
  <2>1. MenuClient!CloseUart([(IF MenuClient!Active(m) THEN MenuClient!Finish(m) ELSE m)
                              EXCEPT !.fault = TRUE, !.mode = "unknown", !.pending = {}])
    BY <1>2, SameClient, Zenon DEF MenuClient!PortFails, MenuLinks!PortFails,
      MenuClient!CloseUart, MenuLinks!CloseUart, MenuClient!Reset, MenuLinks!Reset
  <2> QED
    BY <2>1, MenuFails
<1>3. ASSUME MenuClient!UiPoll \/ MenuLinks!UiPoll
      PROVE  MenuInv'
  <2>1. PICK keys \in {<<>>, <<"menu">>} :
          /\ LET s == MenuClient!Polled(IF Len(queue) < Capacity THEN queue \o keys ELSE queue)
             IN ui' = s.ui /\ m' = s.m /\ missed' = s.missed
          /\ queue' = <<>> /\ UNCHANGED <<sent, wire, owed, rx, port, dsp>>
    BY <1>3, SameClient, Zenon DEF MenuClient!UiPoll, MenuLinks!UiPoll
  <2> QED
    BY <2>1, MenuTakes
<1>4. ASSUME NEW mode \in {"open", "closed"},
             MenuClient!Says([kind |-> "peer", mode |-> mode]), UNCHANGED dsp
      PROVE  MenuInv'
  <2> DEFINE f == [kind |-> "peer", mode |-> mode]
  <2>1. f \in MenuFrame /\ f.kind = "peer" /\ MenuClient!Says(f)
    BY <1>4 DEF MenuFrame
  <2> HIDE DEF f
  <2>2. dsp' = [mode |-> dsp'.mode, up |-> dsp'.up] /\ dsp'.mode = dsp.mode
    BY <1>4 DEF MenuInv, MenuWork, MenuTypes
  <2> QED
    BY <2>1, <2>2, MenuHears
<1>5. ASSUME MenuClient!Enters \/ MenuLinks!Enters
      PROVE  MenuInv'
  <2>1. PICK mode \in {"open", "closed"} : MenuClient!Says([kind |-> "peer", mode |-> mode])
    BY <1>5, Zenon DEF MenuClient!Enters, MenuLinks!Enters, MenuClient!Says, MenuLinks!Says
  <2>2. UNCHANGED dsp
    BY <1>5, Zenon DEF MenuClient!Enters, MenuLinks!Enters
  <2> QED
    BY <1>4, <2>1, <2>2
<1>6. ASSUME MenuClient!EntersUnheard \/ MenuLinks!EntersUnheard
      PROVE  MenuInv'
  <2>1. PICK mode \in {"open", "closed"} : queue' = Append(queue, mode)
    BY <1>6, Zenon DEF MenuClient!EntersUnheard, MenuLinks!EntersUnheard
  <2>2. /\ missed' = missed \cup {"unheard"}
        /\ UNCHANGED <<sent, wire, owed, rx, m, port, ui, dsp>>
    BY <1>6 DEF MenuClient!EntersUnheard, MenuLinks!EntersUnheard
  <2> QED
    BY <2>1, <2>2, MenuUnheard
<1>7. ASSUME MenuClient!Back \/ MenuLinks!Back
      PROVE  MenuInv'
  <2> DEFINE f == [kind |-> "back"]
  <2>1. MenuClient!Says(f) /\ UNCHANGED dsp
    BY <1>7, Zenon DEF MenuClient!Back, MenuLinks!Back, MenuClient!Says, MenuLinks!Says
  <2>2. f \in MenuFrame /\ f.kind = "back"
    BY DEF MenuFrame
  <2> HIDE DEF f
  <2>3. dsp' = [mode |-> dsp'.mode, up |-> dsp'.up] /\ dsp'.mode = dsp.mode
    BY <2>1 DEF MenuInv, MenuWork, MenuTypes
  <2> QED
    BY <2>1, <2>2, <2>3, MenuHears
<1>8. ASSUME MenuClient!Links \/ MenuLinks!Links
      PROVE  MenuInv'
  <2>1. PICK up \in BOOLEAN, mode \in {"open", "closed"} :
          /\ MenuClient!Says([kind |-> "link", up |-> up])
          /\ dsp' = [mode |-> IF up THEN dsp.mode ELSE mode, up |-> up]
    BY <1>8, Zenon DEF MenuClient!Links, MenuLinks!Links, MenuClient!Says, MenuLinks!Says
  <2> DEFINE f == [kind |-> "link", up |-> up]
  <2>2. f \in MenuFrame /\ f.kind = "link" /\ f.up = up /\ MenuClient!Says(f)
    BY <2>1 DEF MenuFrame
  <2>3. dsp' = [mode |-> dsp'.mode, up |-> dsp'.up]
    BY <2>1
  <2>4. CASE up = TRUE
    <3>1. dsp'.mode = dsp.mode
      BY <2>1, <2>4
    <3> HIDE DEF f
    <3> QED
      BY <2>2, <2>3, <3>1, MenuHears
  <2>5. CASE up = FALSE
    <3>1. ~f.up
      BY <2>2, <2>5
    <3> HIDE DEF f
    <3> QED
      BY <2>2, <2>3, <3>1, MenuHears
  <2> QED
    BY <2>4, <2>5
<1> QED
  BY <1>1, <1>2, <1>3, <1>5, <1>6, <1>7, <1>8

\* Every step of either instance keeps the invariant.
LEMMA MenuStep ==
  ASSUME MenuInv, MenuClient!Next \/ MenuLinks!Next
  PROVE  MenuInv'
<1>1. Bytes \in Nat \ {0}
  BY UsersAssumption DEF MenuClient!MenuAssumption, MenuClient!ExchangeAssumption
<1>2. \/ MenuClient!PollExpire \/ MenuClient!PollStart \/ MenuClient!PollGap
      \/ MenuClient!PollSend \/ MenuClient!PollDrain \/ MenuClient!PollWait
      \/ MenuClient!PollTimeout \/ MenuClient!Acquire \/ MenuClient!Release
      \/ MenuClient!FirstByte \/ MenuClient!RestOfFrame
      \/ MenuClient!Hear \/ MenuClient!Answer \/ MenuClient!LoseAnswer
      \/ MenuClient!Yield \/ MenuLinks!Yield \/ MenuClient!PortFails \/ MenuLinks!PortFails
      \/ MenuClient!UiPoll \/ MenuLinks!UiPoll \/ MenuClient!Enters \/ MenuLinks!Enters
      \/ MenuClient!EntersUnheard \/ MenuLinks!EntersUnheard
      \/ MenuClient!Back \/ MenuLinks!Back \/ MenuClient!Links \/ MenuLinks!Links
  BY SameSteps, Zenon DEF MenuClient!Next, MenuLinks!Next
<1> QED
  BY <1>1, <1>2, MenuBegins, MenuSends, MenuWaits, MenuPort, MenuReads, MenuHears, MenuBounded

\* Where nothing changes, it stays.
LEMMA MenuStays ==
  ASSUME MenuInv, UNCHANGED <<sent, wire, owed, rx, m, port, queue, ui, dsp, missed>>
  PROVE  MenuInv'
<1>1. MenuWork /\ MenuWish
  BY DEF MenuInv
<1> QED
  BY <1>1, WorkLost, WishStays DEF MenuInv

\* The mode that a client at rest goes by is the DSP's, and it wants what the user sees.
LEMMA MenuBelieves ==
  ASSUME MenuInv
  PROVE  MenuClient!MenuKnown /\ MenuClient!MenuIntent
<1>1. MenuClient!MenuKnown
  <2> SUFFICES ASSUME missed \cap {"late", "deadline"} = {}, ~MenuClient!Active(m),
                      port = "open", MenuClient!Boundary
               PROVE  m.mode \in {"unknown", dsp.mode}
    BY DEF MenuClient!MenuKnown, MenuClient!Agreed
  <2>1. GoesBy
    BY DEF MenuInv, MenuWork, ModeKnown, Sure
  <2>2. rx = <<>>
    BY DEF MenuClient!Boundary
  <2>3. ~Gone(rx)
    BY <2>2 DEF Gone
  <2>4. ~Asked(m)
    BY DEF Asked, MenuClient!Active
  <2> QED
    BY <2>1, <2>3, <2>4 DEF GoesBy
<1>2. MenuClient!MenuIntent
  <2> SUFFICES ASSUME queue = <<>>, missed \subseteq {"late", "deadline"}
               PROVE  m.desired \in {"none", ui}
    BY DEF MenuClient!MenuIntent
  <2>1. Wanted(queue, 1, m.desired, ui)
    BY DEF MenuInv, MenuWish, Lossless
  <2>2. OnlyBack(queue, 1)
    BY DEF OnlyBack
  <2> QED
    BY <2>1, <2>2 DEF Wanted
<1> QED
  BY <1>1, <1>2

-----------------------------------------------------------------------------
\* The composition.

UsersInv ==
  /\ part \in {"settings", "headset", "menu", "links"}
  /\ part = "settings" => SetInv
  /\ part = "headset" => HeadInv /\ Belief /\ sets \in 0..2
  /\ part \in {"menu", "links"} => MenuInv

\* The invariant of the component that is picked holds at first.
LEMMA UsersInit == Init => UsersInv
<1>1. HeadsetClient!Init => HeadInv
  BY HeadInit
<1>2. HeadsetClient!Init => sets \in 0..2
  BY DEF HeadsetClient!Init
<1>3. HeadsetClient!Init => Belief
  BY BeliefInit
<1> QED
  BY <1>1, <1>2, <1>3, SetInit, MenuInit DEF Init, UsersInv

\* A step is one of the component that runs.
LEMMA UserSteps ==
  ASSUME Next
  PROVE  /\ part' = part
         /\ part = "settings" => SettingsClient!Next
         /\ part = "headset" => HeadsetClient!Next
         /\ part \in {"menu", "links"} => MenuClient!Next \/ MenuLinks!Next
BY DEF Next, Of, Settings, Headset, Menu, Links

\* Where nothing changes, the invariants stay.
LEMMA UsersStay ==
  ASSUME UNCHANGED vars
  PROVE  /\ SetInv => SetInv'
         /\ HeadInv => HeadInv'
         /\ Belief => Belief'
         /\ MenuInv => MenuInv'
         /\ part' = part /\ sets' = sets
<1> USE DEF vars, commonVars, settingsOnly, headsetOnly, menuOnly
<1>1. SetInv => SetInv'
  BY SetUnseen
<1>2. HeadInv => HeadInv'
  BY HeadWorld
<1>3. Belief => Belief'
  BY BeliefStays
<1>4. MenuInv => MenuInv'
  BY MenuStays
<1> QED
  BY <1>1, <1>2, <1>3, <1>4

\* Every step of the component that runs, or none, keeps its invariant.
LEMMA UsersStep == UsersInv /\ [Next]_vars => UsersInv'
<1>1. ASSUME UsersInv, Next
      PROVE  UsersInv'
  BY <1>1, UserSteps, SetStep, HeadStep, BeliefStep, HeadSets, MenuStep DEF UsersInv
<1>2. ASSUME UsersInv, UNCHANGED vars
      PROVE  UsersInv'
  BY <1>2, UsersStay DEF UsersInv
<1> QED
  BY <1>1, <1>2

(* No write is handed over twice: a setting not for a token the host repeats *)
(* and the headset's volume not for one revision, but for the one repetition *)
(* after a read-back that shows neither (diagnostic_usb.c 117-126,           *)
(* headset_gain.c 196-208).                                                  *)
THEOREM UsersWrittenOnce == Spec => []WrittenOnce
<1>1. Init => UsersInv
  BY UsersInit
<1>2. UsersInv /\ [Next]_vars => UsersInv'
  BY UsersStep
<1>3. UsersInv => WrittenOnce
  <2> SUFFICES ASSUME UsersInv
               PROVE  WrittenOnce
    OBVIOUS
  <2>1. part = "settings" => SettingsClient!HostSetOnce
    BY DEF UsersInv, SetInv, HandedOver, SettingsClient!HostSetOnce
  <2>2. part = "headset" => HeadsetClient!TwoWrites
    BY DEF UsersInv, HeadsetClient!TwoWrites
  <2> QED
    BY <2>1, <2>2 DEF WrittenOnce
<1> QED
  BY <1>1, <1>2, <1>3, PTL DEF Spec

(* What the host is told of its setting is about its setting, and once it is *)
(* told how it ended it is told nothing else, whoever uses the client next   *)
(* (diagnostic_usb.c 164-211).                                               *)
THEOREM UsersOneAnswer == Spec => OneAnswer
<1>1. Init => UsersInv
  BY UsersInit
<1>2. UsersInv /\ [Next]_vars => UsersInv'
  BY UsersStep
<1>3. UsersInv /\ [Next]_vars => [part = "settings" => SettingsClient!KeepsAnswer]_vars
  BY UserSteps, AnswerKept DEF UsersInv
<1> QED
  BY <1>1, <1>2, <1>3, PTL DEF Spec, OneAnswer

(* What a client holds to be so is so. What the cache shows as set was set   *)
(* under this link, and an output mode is accepted only if the DSP was in it *)
(* since the request (dsp_settings.c 168-181, 364-372); a gain client that   *)
(* is quiet has the loudness the headset has (headset_gain.c 78-127,         *)
(* 227-290); a menu's client at rest goes by the mode the DSP is in, and     *)
(* wants what the user sees (remote_menu.c 18-52, 119-166).                  *)
THEOREM UsersBelieved == Spec => []BelievedIsSo
<1>1. Init => UsersInv
  BY UsersInit
<1>2. UsersInv /\ [Next]_vars => UsersInv'
  BY UsersStep
<1>3. UsersInv => BelievedIsSo
  <2> SUFFICES ASSUME UsersInv
               PROVE  BelievedIsSo
    OBVIOUS
  <2>1. part = "settings" => SettingsClient!SetUnderThisLink /\ SettingsClient!ModeSwitched
    BY DEF UsersInv, SetInv, Cached, Modes
  <2>2. part = "headset" => HeadsetClient!InStep
    BY BelievedInStep DEF UsersInv
  <2>3. part \in {"menu", "links"} => MenuClient!MenuKnown /\ MenuClient!MenuIntent
    BY MenuBelieves DEF UsersInv
  <2> QED
    BY <2>1, <2>2, <2>3 DEF UsersInv, BelievedIsSo
<1> QED
  BY <1>1, <1>2, <1>3, PTL DEF Spec

(* A report of the headset does not replace a volume the host has set since  *)
(* the report's first byte was read, and a volume that is taken over from a  *)
(* report is one the headset was dialed to (native_gain_adapter.c 187-199).  *)
THEOREM UsersHostKept == Spec => HostKept
<1>1. Init => UsersInv
  BY UsersInit
<1>2. UsersInv /\ [Next]_vars => UsersInv'
  BY UsersStep
<1>3. UsersInv /\ [Next]_vars =>
        [part = "headset" => HeadsetClient!KeepsHost /\ HeadsetClient!TakesDialed]_vars
  BY UserSteps, HeadStep, BeliefStep DEF UsersInv
<1> QED
  BY <1>1, <1>2, <1>3, PTL DEF Spec, HostKept
=============================================================================
