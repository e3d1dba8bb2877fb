----------------------------- MODULE MCDspUsers ------------------------------
(***************************************************************************)
(* Model checking the clients of UART3 that set something, one after the  *)
(* other in one run: `part' is the component that takes all the steps of a *)
(* behaviour, and a property is one that each of them must have in its own *)
(* way.                                                                    *)
(* Components have a variable of the same name in common to keep the state *)
(* small; in a behaviour only one of them uses it.                         *)
(***************************************************************************)
EXTENDS Integers

CONSTANTS
  \* of all: bytes of a request, bound of the frames that wait in the receive ring
  Bytes, RxFrames,
  \* of settings: the settings and their values, bounds of the requests of the host, of those
  \* of the mixer and the menu, and of what happens
  Controls, Value, MaxSettings, MaxOwn, MaxEvents,
  \* of headset: the loudness levels, bounds of the volumes the host sets, of the turns of
  \* the dial and of what goes wrong
  Level, MaxVolumes, MaxDials, MaxFaults,
  \* of menu and of links: places in the queue of controls; of menu the bounds of the keys and
  \* of the changes by the headset, of links those of the keys and of what goes wrong
  Capacity, MaxKeys, MaxPeers, MaxLinkKeys, MaxLinks

VARIABLES
  part,   \* which component it is, from the start
  \* the variables that two or more components have
  begun, sent, wire, owed, rx,
  port, dsp, events, missed,
  \* of settings alone
  req, phase, verifying, cancel, fault, seen, linkGen, cache, link, claim, allowed, turn, mail,
  snap, mixer, edit, own, was, handed, probed,
  \* of headset alone
  g, master, headset, echo, dialed, sets, hosts, dials,
  \* of menu alone
  m, queue, ui, bound

SettingsClient == INSTANCE DspSettings WITH MaxHost <- MaxSettings
HeadsetClient == INSTANCE HeadsetGain WITH MaxHost <- MaxVolumes, MaxEvents <- MaxFaults
MenuClient == INSTANCE RemoteMenu WITH MaxEvents <- 0
MenuLinks == INSTANCE RemoteMenu WITH MaxKeys <- MaxLinkKeys, MaxPeers <- 0,
  MaxEvents <- MaxLinks

ASSUME UsersAssumption ==
       SettingsClient!SettingsAssumption /\ HeadsetClient!HeadsetAssumption /\
       MenuClient!MenuAssumption /\ MenuLinks!MenuAssumption

\* A variable that the component does not have keeps this value.
Nothing == "nothing"
Without(v) == v = Nothing

settingsOnly == <<req, phase, verifying, cancel, fault, seen, linkGen, cache, link, claim,
                  allowed, turn, mail, snap, mixer, edit, own, was, handed, probed>>
headsetOnly == <<g, master, headset, echo, dialed, sets, hosts, dials>>
menuOnly == <<m, queue, ui, bound>>
commonVars == <<begun, sent, wire, owed, rx>>

NoCommon == /\ Without(begun) /\ Without(sent) /\ Without(wire) /\ Without(owed) /\ Without(rx)
NoSettings == /\ Without(req) /\ Without(phase) /\ Without(verifying) /\ Without(cancel)
              /\ Without(fault) /\ Without(seen) /\ Without(linkGen) /\ Without(cache)
              /\ Without(link) /\ Without(claim) /\ Without(allowed) /\ Without(turn)
              /\ Without(mail) /\ Without(snap) /\ Without(mixer) /\ Without(edit)
              /\ Without(own) /\ Without(was) /\ Without(handed) /\ Without(probed)
NoHeadset == /\ Without(g) /\ Without(master) /\ Without(headset) /\ Without(echo)
             /\ Without(dialed) /\ Without(sets) /\ Without(hosts) /\ Without(dials)
NoMenu == /\ Without(m) /\ Without(queue) /\ Without(ui) /\ Without(bound)

notSettings == <<headsetOnly, menuOnly, missed>>
notHeadset == <<settingsOnly, menuOnly, port, dsp>>
notMenu == <<settingsOnly, headsetOnly, events>>

Init ==
  \/ /\ part = "settings" /\ SettingsClient!Init /\ NoHeadset /\ NoMenu /\ Without(missed)
  \/ /\ part = "headset" /\ HeadsetClient!Init /\ NoSettings /\ NoMenu /\ Without(port)
     /\ Without(dsp)
  \/ /\ part = "menu" /\ MenuClient!Init /\ NoSettings /\ NoHeadset /\ Without(events)
  \/ /\ part = "links" /\ MenuLinks!Init /\ NoSettings /\ NoHeadset /\ Without(events)

\* The component p takes a step, and the variables of the others stay.
Of(p, Step, rest) == part = p /\ Step /\ UNCHANGED <<part, rest>>

Settings(Step) == Of("settings", Step, notSettings)
Headset(Step) == Of("headset", Step, notHeadset)
Menu(Step) == Of("menu", Step, notMenu)
Links(Step) == Of("links", Step, notMenu)

Next ==
  \/ Settings(SettingsClient!Next)
  \/ Headset(HeadsetClient!Next)
  \/ Menu(MenuClient!Next)
  \/ Links(MenuLinks!Next)

vars == <<part, commonVars, port, dsp, events, missed, settingsOnly, headsetOnly, menuOnly>>

\* The variables of the component that runs.
ownVars ==
  CASE part = "settings" -> <<commonVars, port, dsp, events, settingsOnly>>
    [] part = "headset" -> <<commonVars, events, missed, headsetOnly>>
    [] OTHER -> <<commonVars, port, dsp, missed, menuOnly>>

\* The fairness of the components, each of which is the only one that runs.
By(p) == part = p /\ UNCHANGED part
Spec ==
  /\ Init /\ [][Next]_vars
  /\ WF_ownVars(\/ By("settings") /\ SettingsClient!LoopStep
                \/ By("headset") /\ HeadsetClient!Loop
                \/ By("menu") /\ MenuClient!Loop
                \/ By("links") /\ MenuLinks!Loop)
  /\ WF_ownVars(\/ By("settings") /\ SettingsClient!Hear
                \/ By("headset") /\ HeadsetClient!Hear
                \/ By("menu") /\ MenuClient!PollExpire
                \/ By("links") /\ MenuLinks!PollExpire)
  /\ WF_ownVars(\/ By("headset") /\ HeadsetClient!LinkReturns
                \/ By("menu") /\ MenuClient!PollTimeout
                \/ By("links") /\ MenuLinks!PollTimeout)
  /\ SF_ownVars(\/ By("settings") /\ SettingsClient!TakesTooLong
                \/ By("headset") /\ HeadsetClient!PollTimeout)

-----------------------------------------------------------------------------
\* No write is handed over twice, not for a token the host repeats and not, but to read
\* it back once more, for a revision of the volume (diagnostic_usb.c 117-126,
\* headset_gain.c 196-208).
WrittenOnce ==
  CASE part = "settings" -> SettingsClient!HostSetOnce
    [] part = "headset" -> HeadsetClient!TwoWrites
    [] OTHER -> TRUE

\* What a client holds to be so is so: a setting was made under this link and the DSP
\* was in an output mode that is accepted (dsp_settings.c 168-181, 364-372); the headset
\* has the loudness that is settled (headset_gain.c 78-127), short of what HeadsetGain
\* says; the menu's client goes by the mode the DSP is in and wants what the user sees,
\* short of what RemoteMenu says of lost and overtaken frames (remote_menu.c 18-52).
BelievedIsSo ==
  CASE part = "settings" -> SettingsClient!SetUnderThisLink /\ SettingsClient!ModeSwitched
    [] part = "headset" -> HeadsetClient!InStep
    [] part \in {"menu", "links"} -> MenuClient!MenuKnown /\ MenuClient!MenuIntent

\* A volume of the host newer than the headset's report is left alone, and only a level
\* the headset was dialed to is taken over (native_gain_adapter.c 187-199).
HostKept == [][part = "headset" => HeadsetClient!KeepsHost /\ HeadsetClient!TakesDialed]_vars

\* The host is told one end of each of its settings, whoever uses the client next
\* (diagnostic_usb.c 164-211).
OneAnswer == [][part = "settings" => SettingsClient!KeepsAnswer]_vars

\* On a link that stays the headset comes to have the volume, whatever was dialed
\* meanwhile (headset_gain.c 156-225).
HeadsetSettles == <>[](part = "headset" /\ g.online /\ g.link = "up" /\ ~g.blocked)
                    => <>[](part = "headset" => HeadsetClient!Settled(g))

\* What is asked for ends, done or given up: a setting of the host (short of a DSP
\* probe) and a menu intent (diagnostic_usb.c 145-198, remote_menu.c 119-166).
Ends == []<>(CASE part = "settings" -> mail.phase \notin {"pending", "submitted"} \/ probed
               [] part \in {"menu", "links"} -> ~MenuClient!Busy(m)
               [] OTHER -> TRUE)
=============================================================================
