----------------------------- MODULE GainTrial -----------------------------
(***************************************************************************)
(* One gain transaction with the DSP, dsp_gain_trial.c: read the output    *)
(* mode (step 0) and the gain of every lane (1), write the changed lanes   *)
(* (2), read them back (3).  A native transaction ("apply") ends there; a  *)
(* trial attenuates the first lane, holds it for ten seconds and writes    *)
(* the original back with the same four steps (4 to 7), which a restore    *)
(* does alone.  The DSP acknowledges a write and performs it later;        *)
(* another writer (the headset, the vendor's software) may change a lane   *)
(* at any time.                                                            *)
(***************************************************************************)
EXTENDS Exchange

CONSTANTS Lane, First,   \* the lanes of opcode 47, and the one a trial attenuates
          Top, Drop,     \* the loudest level, and the attenuation of a trial
          Attempts,      \* read-backs before a write counts as failed
          Kinds,         \* of transactions that may begin
          MaxOthers      \* bound: writes of another writer in a transaction

TrialAssumption ==
  /\ ExchangeAssumption
  /\ First \in Lane /\ Top \in Nat /\ Drop \in 1..Top
  /\ Attempts \in Nat \ {0} /\ MaxOthers \in Nat
  /\ Kinds \subseteq {"apply", "trial", "restore"}

Level == 0..Top
Levels == [Lane -> Level]
Targets == {f \in UNION {[S -> Level] : S \in SUBSET Lane} : First \in DOMAIN f}

VARIABLES
  phase, step, acked, replied, tries,   \* ack, reply and attempts of the record
  kind, target,                \* apply_only; targets, on the lanes of target_mask
  original, reduced, observed,
  dsp, posted,                 \* the gain of the DSP, and writes it has not performed
  writes, met, others, raced   \* ghosts: the writes handed over in this transaction, whether
                               \* the DSP has met its target since it began, the other
                               \* writer's writes, and whether one, or a write of an earlier
                               \* transaction, came after the DSP's last answer to a read

trialVars == <<phase, step, acked, replied, tries, kind, target, original, reduced, observed>>
dspVars == <<dsp, posted, met, others, raced>>
gainVars == <<trialVars, dspVars, writes, lineVars>>

Busy == phase \in {"send", "drain", "wait", "gap", "hold"}
Setting == step \in {2, 6}
ModeRead == step \in {0, 4}
Code == IF ModeRead THEN "43" ELSE "47"

\* f agrees with the target on the lanes the target names.
Meets(f, t) == \A l \in DOMAIN t : f[l] = t[l]
With(f, t) == [l \in Lane |-> IF l \in DOMAIN t THEN t[l] ELSE f[l]]
Lower(f) == [f EXCEPT ![First] = @ - Drop]

Value == IF step = 2 THEN reduced ELSE original
Request == IF Setting THEN [code |-> Code, write |-> {Value}]
                      ELSE [code |-> Code, write |-> {}]

GainInit == /\ LineInit
            /\ phase = "idle" /\ step = 0 /\ acked = FALSE /\ replied = FALSE /\ tries = 0
            /\ kind = "apply" /\ target = [l \in {First} |-> Top]
            /\ dsp = [l \in Lane |-> Top]
            /\ original = dsp /\ reduced = dsp /\ observed = dsp
            /\ posted = {} /\ writes = 0 /\ met = Meets(dsp, target) /\ others = 0 /\ raced = FALSE

-----------------------------------------------------------------------------
\* prepare(): the frame of step s.
Prepare(s) == /\ phase' = "send" /\ step' = s
              /\ sent' = 0 /\ acked' = FALSE /\ replied' = FALSE

\* The common part of omni_gain_trial_begin and its callers.
Begin(k, t, from, expected) ==
  /\ Prepare(IF k = "restore" THEN 4 ELSE 0)
  /\ tries' = 0
  /\ kind' = k /\ target' = t
  /\ original' = from /\ reduced' = expected /\ observed' = [l \in Lane |-> 0]
  /\ writes' = 0 /\ met' = Meets(dsp, t) /\ raced' = FALSE
  /\ UNCHANGED <<dsp, posted, others, wire, peerVars>>

Fail == phase' = "failed" /\ UNCHANGED <<step, acked, replied, tries>>

\* A timeout of the request or of the whole transaction, or a failed port.
PollFails == /\ Busy /\ Fail
             /\ UNCHANGED <<kind, target, original, reduced, observed, dspVars, writes, lineVars>>

PollSend ==
  /\ phase = "send"
  /\ Push(Request)
  /\ writes' = IF Setting /\ sent' = Bytes THEN writes + 1 ELSE writes
  /\ phase' = IF sent' = Bytes THEN "drain" ELSE "send"
  /\ UNCHANGED <<step, acked, replied, tries, kind, target, original, reduced, observed,
                 dspVars, peerVars>>

\* Both answers are there (a write has only the acknowledgement).
Answered(a, r) == a /\ (Setting \/ r)
Settle(p, a, r) == IF p = "wait" /\ Answered(a, r) THEN "gap" ELSE p

PollDrain ==
  /\ phase = "drain" /\ Drained
  /\ phase' = Settle("wait", acked, replied)
  /\ UNCHANGED <<step, acked, replied, tries, kind, target, original, reduced, observed,
                 dspVars, writes, lineVars>>

\* An answer counts only when the whole request has been handed over.
Pending == phase # "hold" /\ Submitted

Accept(a, r) == /\ acked' = a /\ replied' = r /\ phase' = Settle(phase, a, r)
                /\ UNCHANGED <<step, tries>>

PollAck ==
  /\ Frame.part = "ack"
  /\ IF ~(Pending /\ Frame.code = Code) THEN UNCHANGED <<phase, step, acked, replied, tries>>
     ELSE IF Frame.ok THEN Accept(TRUE, replied) ELSE Fail
  /\ UNCHANGED observed

PollReply ==
  /\ Frame.part = "reply"
  /\ IF ~(Pending /\ Frame.code = Code /\ ~Setting)
     THEN UNCHANGED <<phase, step, acked, replied, tries, observed>>
     ELSE IF ~Frame.ok THEN Fail /\ UNCHANGED observed
     ELSE /\ Accept(acked, TRUE)
          /\ observed' = IF ModeRead THEN observed ELSE Frame.value

PollReceive == /\ Busy /\ Read
               /\ PollAck \/ PollReply
               /\ UNCHANGED <<kind, target, original, reduced, dspVars, writes, sent, wire, owed>>

\* advance(), when the gap after the answers has passed.
End(p) == phase' = p /\ UNCHANGED <<step, sent, acked, replied, tries>>
NextStep == Prepare(step + 1) /\ tries' = 0

AdvanceRead ==
  /\ step = 1
  /\ original' = observed
  /\ \/ /\ kind = "apply"
        /\ reduced' = With(observed, target)
        /\ IF reduced' = observed THEN End("done") ELSE NextStep
     \/ /\ kind = "trial"
        /\ IF observed[First] <= Drop THEN End("failed") /\ reduced' = observed
           ELSE NextStep /\ reduced' = Lower(observed)

\* Mutant of AdvanceReadBack: a mismatch repeats the write.
AdvanceReadBackRepeat ==
  /\ step \in {3, 7}
  /\ \/ /\ observed # (IF step = 3 THEN reduced ELSE original)
        /\ Prepare(step - 1) /\ tries' = tries
     \/ /\ observed = (IF step = 3 THEN reduced ELSE original)
        /\ End(IF step = 3 /\ kind # "apply" THEN "hold" ELSE "done")
  /\ UNCHANGED <<original, reduced>>
\* A write is read back until it shows, a bounded number of times.
AdvanceReadBack ==
  /\ step \in {3, 7}
  /\ \/ /\ observed # (IF step = 3 THEN reduced ELSE original)
        /\ IF tries + 1 >= Attempts THEN End("failed")
           ELSE Prepare(step) /\ tries' = tries + 1
     \/ /\ observed = (IF step = 3 THEN reduced ELSE original)
        /\ End(IF step = 3 /\ kind # "apply" THEN "hold" ELSE "done")
  /\ UNCHANGED <<original, reduced>>

\* Before the original is writes back, nobody else has changed a lane.
AdvanceCheck == /\ step = 5
                /\ IF observed # reduced THEN End("failed") ELSE NextStep
                /\ UNCHANGED <<original, reduced>>

AdvancePlain == step \in {0, 2, 4, 6} /\ NextStep /\ UNCHANGED <<original, reduced>>

PollAdvance ==
  /\ phase = "gap"
  /\ AdvanceRead \/ AdvanceReadBack \/ AdvanceCheck \/ AdvancePlain
  /\ UNCHANGED <<kind, target, observed, dspVars, writes, wire, peerVars>>

\* Ten seconds have passed.
PollHold == /\ phase = "hold"
            /\ Prepare(4) /\ tries' = 0
            /\ UNCHANGED <<kind, target, original, reduced, observed, dspVars, writes, wire, peerVars>>

Poll == PollSend \/ PollDrain \/ PollReceive \/ PollAdvance \/ PollHold

Cancel == /\ Busy /\ phase' = "canceled"
          /\ UNCHANGED <<step, acked, replied, tries, kind, target, original, reduced, observed,
                         dspVars, writes, lineVars>>

-----------------------------------------------------------------------------
\* The DSP.  It answers a read with the gain it has then.
Answer(p, c) == [part |-> p, code |-> c]

Hear == \E f \in wire :
          /\ Leave(f, {Answer("ack", f.code)}
                      \cup IF f.write = {} THEN {Answer("reply", f.code)} ELSE {})
          /\ posted' = posted \cup f.write
          /\ UNCHANGED <<trialVars, dsp, met, others, raced, writes, sent, rx>>

DspAnswer(ok) ==
  \E a \in owed :
    /\ Give(a, [part |-> a.part, code |-> a.code, ok |-> ok, value |-> dsp])
    /\ raced' = (raced /\ ~(a.part = "reply" /\ a.code = "47"))
    /\ UNCHANGED <<trialVars, dsp, posted, met, others, writes, sent, wire>>

DspLoses == /\ \E a \in owed : Lose(a)
            /\ UNCHANGED <<trialVars, dspVars, writes, sent, wire, rx>>

\* It performs a write some 200 ms after it has accepted it.
DspApply == \E f \in posted :
              /\ dsp' = f /\ posted' = posted \ {f} /\ met' = (met \/ Meets(f, target))
              /\ raced' = (raced \/ writes = 0)   \* an earlier transaction's
              /\ UNCHANGED <<trialVars, others, writes, lineVars>>

OtherWrites == /\ others < MaxOthers
               /\ \E f \in Levels : dsp' = f /\ dsp' # dsp /\ met' = (met \/ Meets(f, target))
               /\ others' = others + 1 /\ raced' = TRUE
               /\ UNCHANGED <<trialVars, posted, writes, lineVars>>

Dsp == Hear \/ (\E ok \in BOOLEAN : DspAnswer(ok)) \/ DspLoses \/ DspApply \/ OtherWrites

-----------------------------------------------------------------------------
\* A transaction begins from idle, at a boundary of the line; its caller clears
\* the record of one that has ended.
Fresh == wire = {} /\ owed = {} /\ rx = <<>> /\ posted = {}

BeginAny ==
  /\ phase = "idle" /\ Fresh
  /\ \E k \in Kinds :
       \/ k = "apply" /\ \E t \in Targets : Begin(k, t, [l \in Lane |-> 0], [l \in Lane |-> 0])
       \/ k = "trial" /\ Begin(k, target, [l \in Lane |-> 0], [l \in Lane |-> 0])
       \/ /\ k = "restore"
          /\ \E f \in Levels : f[First] > Drop /\ Begin(k, target, f, Lower(f))

TrialNext == BeginAny \/ Poll \/ PollFails \/ Cancel \/ Dsp

TrialSpec == GainInit /\ [][TrialNext]_gainVars

-----------------------------------------------------------------------------
GainTypeOK ==
  /\ phase \in {"idle", "send", "drain", "wait", "gap", "hold", "done", "failed", "canceled"}
  /\ step \in 0..7 /\ acked \in BOOLEAN /\ replied \in BOOLEAN /\ tries \in 0..(Attempts - 1)
  /\ kind \in {"apply", "trial", "restore"} /\ target \in Targets
  /\ original \in Levels /\ reduced \in Levels /\ observed \in Levels
  /\ dsp \in Levels /\ posted \subseteq Levels /\ writes \in Nat /\ met \in BOOLEAN
  /\ others \in 0..MaxOthers /\ raced \in BOOLEAN
  /\ sent \in 0..Bytes /\ Len(rx) <= RxFrames

\* However the answers are lost or late, the DSP is sent a gain at most once
\* in a transaction, or once each way in a trial that restores.
SetOnce == writes <= IF kind = "trial" THEN 2 ELSE 1

\* A transaction that reports success has not merely been told so: the DSP has
\* had the gain wanted since it began.
DoneHeld == phase = "done" /\ kind = "apply" => met

\* Unless another writer got in after the read, a write changes only the lanes
\* it is meant to: the first of a trial, those of the target.
KeepsOthers ==
  writes' > writes /\ ~raced
    => \A l \in Lane \ (IF kind = "apply" THEN DOMAIN target ELSE {First}) : Value[l] = dsp[l]
OthersKept == [][KeepsOthers]_gainVars
=============================================================================
