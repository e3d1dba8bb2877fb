----------------------------- MODULE MCDspReads ------------------------------
(***************************************************************************)
(* Model checking the transactions of the gain and the clients that ask,  *)
(* one after the other in one run: `part' is the component that takes all  *)
(* the steps of a behaviour, and a property is one that each of them must  *)
(* have in its own way.                                                    *)
(* Components have a variable of the same name in common to keep the state *)
(* small; in a behaviour only one of them uses it.                         *)
(***************************************************************************)
EXTENDS Integers

CONSTANTS
  \* of gain, probe, reads and meter: bytes of a request, bound of the receive ring
  Bytes, RxFrames,
  \* of gain and probe: the lane a trial attenuates and by how much, read-backs, bound of the
  \* writes of another writer
  First, Drop, Attempts, MaxOthers,
  \* of gain: the lanes, those of the mixer, the loudest level, bound of what changes
  GainLane, Masked, GainTop, MaxChanges,
  \* of probe: the lanes, the loudest level, the host's tokens, bound of the stops of playback
  ProbeLane, ProbeTop, TrialToken, MaxStops,
  \* of reads and meter: the host's tokens, bound of the replies published, and of the events
  QueryToken, MaxReplies, MaxReads,
  \* of turns: who is asked for something, and the bound of the events
  Asked, MaxTurns

VARIABLES
  part,   \* which component it is, from the start
  \* the variables that two or more components have
  phase, kind, sent, wire, owed, rx,
  step, acked, replied, tries, target, original, reduced, observed, posted, writes, met, others,
  raced,
  dsp, token, begun, port, events,
  \* of gain alone
  host, desired, submitted, verified, have, ready, fault, online, owned, ending, changes,
  \* of probe alone
  stage, stable, vphase, index, vack, vreply, gain_stage, restore, uart, allowed, stops,
  \* of reads alone
  who, got, yielding, headset, conn, percent, charge, charged, quirk, query, asked, cache,
  published, publishing, pages,
  \* of turns alone
  at, want, active, queued, gain, mode, repair, peer, turn, sample, gate, proved

NativeClient == INSTANCE NativeGain WITH Lane <- GainLane, Top <- GainTop, Kinds <- {"apply"}
ProbeClient == INSTANCE GainProbe WITH Lane <- ProbeLane, Top <- ProbeTop, Kinds <- {},
  Token <- TrialToken
ReadClient == INSTANCE ReadClients WITH Clients <- {"battery", "query"}, Token <- QueryToken,
  MaxReplies <- 0, MaxEvents <- MaxReads
MeterClient == INSTANCE ReadClients WITH Clients <- {"meter"}, Token <- QueryToken,
  MaxEvents <- MaxReads
Arbiter == INSTANCE GainArbiter WITH MaxEvents <- MaxTurns

ASSUME ReadsAssumption ==
  /\ NativeClient!NativeAssumption /\ ProbeClient!ProbeAssumption
  /\ ReadClient!ReadAssumption /\ MeterClient!ReadAssumption /\ Arbiter!ArbiterAssumption

\* A variable that the component does not have keeps this value.
Nothing == "nothing"
Without(v) == v = Nothing

gainOnly == <<host, desired, submitted, verified, have, ready, fault, online, owned, ending,
              changes>>
probeOnly == <<stage, stable, vphase, index, vack, vreply, gain_stage, restore, uart, allowed,
               stops>>
readsOnly == <<who, got, yielding, headset, conn, percent, charge, charged, quirk, query, asked,
               cache, published, publishing, pages>>
turnsOnly == <<at, want, active, queued, gain, mode, repair, peer, turn, sample, gate, proved>>
commonVars == <<phase, kind, sent, wire, owed, rx>>
gainProbeVars == <<step, acked, replied, tries, target, original, reduced, observed, posted,
                   writes, met, others, raced>>

NoCommon == /\ Without(phase) /\ Without(kind) /\ Without(sent) /\ Without(wire)
            /\ Without(owed) /\ Without(rx)
NoGainProbe == /\ Without(step) /\ Without(acked) /\ Without(replied) /\ Without(tries)
               /\ Without(target) /\ Without(original) /\ Without(reduced) /\ Without(observed)
               /\ Without(posted) /\ Without(writes) /\ Without(met) /\ Without(others)
               /\ Without(raced)
NoGain == /\ Without(host) /\ Without(desired) /\ Without(submitted) /\ Without(verified)
          /\ Without(have) /\ Without(ready) /\ Without(fault) /\ Without(online)
          /\ Without(owned) /\ Without(ending) /\ Without(changes)
NoProbe == /\ Without(stage) /\ Without(stable) /\ Without(vphase) /\ Without(index)
           /\ Without(vack) /\ Without(vreply) /\ Without(gain_stage) /\ Without(restore)
           /\ Without(uart) /\ Without(allowed) /\ Without(stops)
NoReads == /\ Without(who) /\ Without(got) /\ Without(yielding) /\ Without(headset)
           /\ Without(conn) /\ Without(percent) /\ Without(charge) /\ Without(charged)
           /\ Without(quirk) /\ Without(query) /\ Without(asked) /\ Without(cache)
           /\ Without(published) /\ Without(publishing) /\ Without(pages)
NoTurns == /\ Without(at) /\ Without(want) /\ Without(active) /\ Without(queued)
           /\ Without(gain) /\ Without(mode) /\ Without(repair) /\ Without(peer)
           /\ Without(turn) /\ Without(sample) /\ Without(gate) /\ Without(proved)

notGain == <<probeOnly, readsOnly, turnsOnly, token, begun, port, events>>
notProbe == <<gainOnly, readsOnly, turnsOnly, port, events>>
notReads == <<gainOnly, probeOnly, turnsOnly, gainProbeVars, dsp>>
notTurns == <<gainOnly, probeOnly, readsOnly, commonVars, gainProbeVars, token, begun>>

Init ==
  \/ /\ part = "gain" /\ NativeClient!Init /\ NoProbe /\ NoReads /\ NoTurns /\ Without(token)
     /\ Without(begun) /\ Without(port) /\ Without(events)
  \/ /\ part = "probe" /\ ProbeClient!Init /\ NoGain /\ NoReads /\ NoTurns /\ Without(port)
     /\ Without(events)
  \/ /\ part = "reads" /\ ReadClient!Init /\ NoGain /\ NoProbe /\ NoTurns /\ NoGainProbe
     /\ Without(dsp)
  \/ /\ part = "meter" /\ MeterClient!Init /\ NoGain /\ NoProbe /\ NoTurns /\ NoGainProbe
     /\ Without(dsp)
  \/ /\ part = "turns" /\ Arbiter!Init /\ NoGain /\ NoProbe /\ NoReads /\ NoCommon
     /\ NoGainProbe /\ Without(token) /\ Without(begun)

\* The component p takes a step, and the variables of the others stay.
Of(p, Step, rest) == part = p /\ Step /\ UNCHANGED <<part, rest>>

Gain(Step) == Of("gain", Step, notGain)
Probe(Step) == Of("probe", Step, notProbe)
Reads(Step) == Of("reads", Step, notReads)
Meter(Step) == Of("meter", Step, notReads)
Turns(Step) == Of("turns", Step, notTurns)

Next ==
  \/ Gain(NativeClient!Next)
  \/ Probe(ProbeClient!Next)
  \/ Reads(ReadClient!Next)
  \/ Meter(MeterClient!Next)
  \/ Turns(Arbiter!Next)

vars == <<part, commonVars, gainProbeVars, dsp, token, begun, port, events, gainOnly, probeOnly,
          readsOnly, turnsOnly>>

\* The variables of the component that runs.
ownVars ==
  CASE part = "gain" -> <<commonVars, gainProbeVars, dsp, gainOnly>>
    [] part = "probe" -> <<commonVars, gainProbeVars, dsp, token, begun, probeOnly>>
    [] part \in {"reads", "meter"} -> <<commonVars, token, begun, port, events, readsOnly>>
    [] OTHER -> <<dsp, port, events, turnsOnly>>

\* The fairness of the components, each of which is the only one that runs.
By(p) == part = p /\ UNCHANGED part
Spec ==
  /\ Init /\ [][Next]_vars
  /\ WF_ownVars(\/ By("gain") /\ NativeClient!Polls
                \/ By("probe") /\ ProbeClient!Main
                \/ By("reads") /\ ReadClient!Poll
                \/ By("meter") /\ MeterClient!Poll
                \/ By("turns") /\ Arbiter!Turn)
  /\ WF_ownVars(\/ By("gain") /\ NativeClient!TakesTooLong
                \/ By("probe") /\ ProbeClient!QueryFails
                \/ By("reads") /\ ReadClient!TakesTooLong
                \/ By("meter") /\ MeterClient!TakesTooLong
                \/ By("turns") /\ Arbiter!Comes)
  /\ WF_ownVars(\/ By("gain") /\ NativeClient!DspRuns
                \/ By("probe") /\ ProbeClient!GainPoll
                \/ By("reads") /\ ReadClient!QueryExpires
                \/ By("meter") /\ MeterClient!QueryExpires)
  /\ WF_ownVars(\/ By("reads") /\ ReadClient!RestOfFrame
                \/ By("meter") /\ MeterClient!RestOfFrame)
  /\ SF_ownVars(By("turns") /\ Arbiter!Quiet)
  /\ SF_ownVars(By("turns") /\ Arbiter!Over)
  /\ SF_ownVars(By("turns") /\ Arbiter!Leaves)

-----------------------------------------------------------------------------
\* No request is handed to the DSP twice, not when its answer is lost or late and not
\* when the host repeats its token; a trial writes once each way (dsp_gain_trial.c
\* 106-133, dsp_volume_probe.c 147-191, headset_query.c 53-62).
HandedOnce ==
  CASE part = "gain" -> NativeClient!SetOnce
    [] part = "probe" -> ProbeClient!OneTransaction
    [] part \in {"reads", "meter"} -> ReadClient!QueryOnce
    [] OTHER -> TRUE

\* What a client holds to be so is so, or was at a time that counts: gains the DSP has
\* had since the transaction began, a battery of a headset that is there, pages of one
\* reply (dsp_gain_trial.c 106-133, headset_battery.c 32-88, dsp_meter.c 101-111); and the
\* gate of the playback is open only with the gain and the output mode verified
\* (native_gain_adapter.c 200-263).
BelievedIsSo ==
  CASE part = "gain" -> NativeClient!DoneHeld
    [] part = "probe" -> ProbeClient!DoneHeld
    [] part = "reads" -> ReadClient!BatteryOfLink
    [] part = "meter" -> MeterClient!PagesAgree
    [] part = "turns" -> Arbiter!GateProved

\* What somebody else has set is left alone, lanes a write is not about, and a level the
\* service counts as verified is one the DSP has had since the transaction began
\* (dsp_gain_trial.c 9-20, native_gain.c 24-29); and a client starts only when no other is
\* under way (native_gain_adapter.c 265-307).
OthersKept ==
  [][CASE part = "gain" -> NativeClient!KeepsOthers /\ NativeClient!VerifiesHeld
       [] part = "probe" -> ProbeClient!KeepsOthers
       [] part = "turns" -> Arbiter!StartsAlone
       [] OTHER -> TRUE]_vars

\* On a port that stays the DSP comes to have the gain the host wants, whatever another
\* writer did (native_gain.c 30-81).
GainSettles == <>[](part = "gain" /\ online /\ ~fault)
                 => <>[](part = "gain" => ready /\ NativeClient!Meets(dsp, host))

\* A probe gives the port back and a query ends, whatever the DSP does
\* (dsp_volume_probe.c 147-191, headset_query.c 114-163); the headset has its turn and a
\* reservation of the port ends (native_gain_adapter.c 265-349).
Ends == []<>(CASE part = "probe" -> ~uart
               [] part \in {"reads", "meter"} -> query \notin {"queued", "active"}
               [] part = "turns" -> ~port.yielding /\ ~Arbiter!Waits
               [] OTHER -> TRUE)
=============================================================================
