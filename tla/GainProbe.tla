----------------------------- MODULE GainProbe -----------------------------
(***************************************************************************)
(* The volume probe, dsp_volume_probe.c with dsp_volume.c: once in the     *)
(* life of the firmware, when playback has been stable, it takes UART3 and *)
(* reads the DSP's mode and gain (a query of two exchanges); afterwards    *)
(* the host may ask, with a token, for one gain trial or one restore of    *)
(* GainTrial.  The request comes from the USB interrupt, which the main    *)
(* loop's poll cannot interrupt.                                           *)
(***************************************************************************)
EXTENDS GainTrial

CONSTANTS Token,        \* the host's tokens
          MaxStops      \* bound: times playback stops under the probe

ProbeAssumption == TrialAssumption /\ MaxStops \in Nat

VARIABLES
  stage, stable,               \* the probe: 0 not begun, 1 querying, 2 over; playback is stable
  vphase, index, vack, vreply, \* omni_dsp_volume: phase, query_index, got_ack, got_reply
  gain_stage, token, restore,  \* 0 idle, 1 requested, 2 running, 3 over; the host's request
  uart,                        \* uart_owned
  allowed, stops,              \* playback runs and lets the probe work
  begun                        \* ghost: transactions begun

queryVars == <<vphase, index, vack, vreply>>
probeVars == <<stage, stable, queryVars, gain_stage, uart, begun>>
hostVars == <<token, restore, allowed, stops>>
vars == <<gainVars, probeVars, hostVars>>

Init == /\ GainInit
        /\ stage = 0 /\ stable = FALSE
        /\ vphase = "idle" /\ index = 0 /\ vack = FALSE /\ vreply = FALSE
        /\ gain_stage = 0 /\ token = {} /\ restore = {}
        /\ uart = FALSE /\ allowed = FALSE /\ stops = 0 /\ begun = 0

-----------------------------------------------------------------------------
\* The host and playback.
Playback == /\ allowed' = ~allowed
            /\ allowed => stops < MaxStops
            /\ stops' = IF allowed THEN stops + 1 ELSE stops
            /\ UNCHANGED <<gainVars, probeVars, token, restore>>

\* A token is taken once; the host that repeats it is told so.
Requestable == stage = 2 /\ vphase = "complete" /\ token = {}

Request1(k) == /\ Requestable
               /\ \E t \in Token : token' = {t}
               /\ restore' = k
               /\ gain_stage' = 1
               /\ UNCHANGED <<gainVars, stage, stable, queryVars, uart, begun, allowed, stops>>

TrialRequest == Request1({})
RestoreRequest == \E f \in Levels : f[First] > Drop /\ Request1({f})

-----------------------------------------------------------------------------
\* The query.
\* Mutant of Finish: UART3 stays claimed.
FinishKeepsPort == UNCHANGED <<uart, lineVars>>
\* finish(): UART3 is given back.
Finish == uart' = FALSE /\ Reset

Still == UNCHANGED <<trialVars, dspVars, writes, gain_stage, begun, hostVars>>

Unstable == /\ stage = 0 /\ ~allowed /\ stable /\ stable' = FALSE
            /\ Still /\ UNCHANGED <<lineVars, stage, queryVars, uart>>
Stable == /\ stage = 0 /\ allowed /\ ~stable /\ stable' = TRUE
          /\ Still /\ UNCHANGED <<lineVars, stage, queryVars, uart>>

\* After half a second of it.
Claim == /\ stage = 0 /\ allowed /\ stable
         /\ \/ uart' = TRUE /\ vphase' = "send" /\ stage' = 1
            \/ uart' = FALSE /\ vphase' = "failed" /\ stage' = 2
         /\ Still /\ UNCHANGED <<lineVars, stable, index, vack, vreply>>

Querying == stage = 1 /\ allowed
QueryCode == IF index = 0 THEN "43" ELSE "47"
QueryRequest == [code |-> QueryCode, write |-> {}]
QueryEnds(p) == vphase' = p /\ stage' = 2 /\ Finish /\ UNCHANGED <<index, vack, vreply>>

QueryCancel == stage = 1 /\ ~allowed /\ QueryEnds("canceled") /\ Still /\ UNCHANGED stable
QueryFails == Querying /\ QueryEnds("failed") /\ Still /\ UNCHANGED stable

QuerySend == /\ Querying /\ vphase = "send" /\ Push(QueryRequest)
             /\ vphase' = IF sent' = Bytes THEN "drain" ELSE "send"
             /\ Still /\ UNCHANGED <<peerVars, stage, stable, index, vack, vreply, uart>>

Cooldown(p) == IF p = "wait" /\ vack' /\ vreply' THEN "cooldown" ELSE p

QueryDrain == /\ Querying /\ vphase = "drain" /\ Drained
              /\ UNCHANGED <<vack, vreply>>
              /\ vphase' = Cooldown("wait")
              /\ Still /\ UNCHANGED <<lineVars, stage, stable, index, uart>>

QueryMatches == Submitted /\ Frame.code = QueryCode

QueryReceive ==
  /\ Querying /\ rx # <<>>
  /\ \/ /\ QueryMatches /\ ~Frame.ok   \* refused, or not a reply that can be
        /\ QueryEnds("failed")
     \/ /\ QueryMatches => Frame.ok
        /\ Read /\ UNCHANGED <<sent, wire, owed>>
        /\ vack' = (vack \/ (QueryMatches /\ Frame.part = "ack"))
        /\ vreply' = (vreply \/ (QueryMatches /\ Frame.part = "reply"))
        /\ vphase' = Cooldown(vphase)
        /\ UNCHANGED <<stage, index, uart>>
  /\ Still /\ UNCHANGED stable

QueryAdvance ==
  /\ Querying /\ vphase = "cooldown"
  /\ \/ index = 1 /\ QueryEnds("complete")
     \/ /\ index = 0 /\ index' = 1 /\ vphase' = "send"
        /\ sent' = 0 /\ vack' = FALSE /\ vreply' = FALSE
        /\ UNCHANGED <<wire, peerVars, stage, uart>>
  /\ Still /\ UNCHANGED stable

Query == Unstable \/ Stable \/ Claim \/ QuerySend \/ QueryDrain \/ QueryReceive \/ QueryAdvance

-----------------------------------------------------------------------------
\* gain_poll.
Zero == [l \in Lane |-> 0]

GainBegin ==
  /\ gain_stage = 1 /\ allowed
  /\ gain_stage' = 2 /\ uart' = TRUE /\ begun' = begun + 1
  /\ \/ restore = {} /\ Begin("trial", target, Zero, Zero)
     \/ \E f \in restore : Begin("restore", target, f, Lower(f))
  /\ UNCHANGED <<stage, stable, queryVars, hostVars>>

\* UART3 cannot be had, or playback no longer allows it.
GainGivenUp ==
  /\ \/ gain_stage = 1 /\ allowed /\ phase' = "failed"
     \/ gain_stage \in {1, 2} /\ ~allowed /\ phase' = "canceled"
  /\ gain_stage' = 3 /\ Finish
  /\ UNCHANGED <<step, acked, replied, tries, kind, target, original, reduced, observed, dspVars,
                 writes, stage, stable, queryVars, begun, hostVars>>

\* When the transaction ends in this poll the port is given back; its rings are
\* reset the next time it is taken.
GainPoll ==
  /\ gain_stage = 2 /\ allowed
  /\ Poll \/ PollFails
  /\ IF phase' \in {"done", "failed"} THEN gain_stage' = 3 /\ uart' = FALSE
                                      ELSE UNCHANGED <<gain_stage, uart>>
  /\ UNCHANGED <<stage, stable, queryVars, begun, hostVars>>

World == Dsp /\ UNCHANGED <<probeVars, hostVars>>

Main == Query \/ QueryCancel \/ GainBegin \/ GainGivenUp \/ GainPoll

Next == Playback \/ TrialRequest \/ RestoreRequest \/ Main \/ QueryFails \/ World

Spec == Init /\ [][Next]_vars

\* The main loop polls the probe as long as it exists, and every exchange times out.
FairSpec == Spec /\ WF_vars(Main) /\ WF_vars(QueryFails) /\ WF_vars(GainPoll)

-----------------------------------------------------------------------------
ProbeTypeOK ==
  /\ GainTypeOK
  /\ stage \in 0..2 /\ index \in 0..1 /\ gain_stage \in 0..3
  /\ {stable, vack, vreply, uart, allowed} \subseteq BOOLEAN
  /\ vphase \in {"idle", "send", "drain", "wait", "cooldown", "complete", "failed", "canceled"}
  /\ token \subseteq Token /\ restore \subseteq Levels /\ stops \in 0..MaxStops

\* Whatever the host repeats, and whatever becomes of its first request, at most
\* one trial or restore writes to the DSP, and never while the probe does not
\* have UART3.
OneTransaction == /\ begun <= 1
                  /\ SetOnce
                  /\ (Busy \/ stage = 1) => uart

\* UART3 is not kept: a probe that has it gives it back.
ProbePortReturned == []<>~uart
=============================================================================
