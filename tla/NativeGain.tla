----------------------------- MODULE NativeGain -----------------------------
(***************************************************************************)
(* The gain owner of native_gain.c: it keeps the DSP's lanes at the levels *)
(* the host and the mixer want, one transaction of GainTrial at a time,    *)
(* and verifies them again every second.  Its caller, the service of       *)
(* native_gain_adapter.c, says whether playback lets it have UART3         *)
(* (online) and whether another client is at work on it (yielding), drops  *)
(* what was verified when the headset or the mode repair may have changed  *)
(* it, and reports faults of the port.                                     *)
(***************************************************************************)
EXTENDS GainTrial

CONSTANTS Masked,      \* the lanes the mixer owns (input_mask 5)
          MaxChanges   \* bound: changes of the host's wish, withdrawals and resets

NativeAssumption ==
  TrialAssumption /\ Masked \subseteq Lane /\ First \in Masked /\ MaxChanges \in Nat

Wish == [Masked -> Level]

VARIABLES
  host,      \* the levels the mixer wants now
  desired, submitted, verified,   \* the level tuples of the same names
  have, ready, fault, online, owned,
  ending,    \* in a poll, after the transaction has ended
  changes

nativeVars == <<desired, submitted, verified, have, ready, fault, online, owned, ending>>
vars == <<gainVars, nativeVars, host, changes>>

Init == /\ GainInit
        /\ host = [l \in Masked |-> 0]
        /\ desired = host /\ submitted = host /\ verified = host
        /\ have = FALSE /\ ready = FALSE /\ fault = FALSE /\ online = FALSE /\ owned = FALSE
        /\ ending = FALSE /\ changes = 0

HostWants == /\ changes < MaxChanges /\ changes' = changes + 1
             /\ \E w \in Wish : w # host /\ host' = w
             /\ UNCHANGED <<gainVars, nativeVars>>

-----------------------------------------------------------------------------
\* omni_native_gain_poll.
Forget == ready' = FALSE /\ have' = FALSE

\* Offline: the transfer is given up and the caller closes the port.
PollOffline ==
  /\ ~ending /\ online /\ changes < MaxChanges /\ changes' = changes + 1
  /\ desired' = host
  /\ online' = FALSE /\ fault' = FALSE /\ owned' = FALSE /\ Forget
  /\ phase' = IF Busy THEN "canceled" ELSE phase
  /\ Reset
  /\ UNCHANGED <<step, acked, replied, tries, kind, target, original, reduced, observed, dspVars,
                 writes, submitted, verified, ending, host>>

\* The transaction a poll begins with, for what it finds wanted.
BeginApply(w) ==
  /\ Begin("apply", w, [l \in Lane |-> 0], [l \in Lane |-> 0])
  /\ owned' = TRUE /\ submitted' = w

Stay == UNCHANGED <<gainVars, owned, submitted>>

\* The port cannot be had.
OpenFails == /\ fault' = TRUE /\ ready' = FALSE
             /\ UNCHANGED <<gainVars, owned, submitted>>

\* Mutant of Due: what has been verified is not verified again.
DueOnce(yielding) == ~yielding /\ rx = <<>> /\ ~(have /\ verified = host)
\* A transaction may begin; what is verified is verified again after a second.
Due(yielding) == ~yielding /\ rx = <<>>

\* Nothing in progress: what is verified stays so for a second.
PollIdle(yielding) ==
  /\ ~ending /\ ~owned
  /\ desired' = host /\ online' = TRUE
  /\ \/ fault /\ Stay /\ UNCHANGED <<ready, fault>>
     \/ /\ ~fault /\ (yielding \/ rx # <<>> \/ (have /\ verified = host))
        /\ Stay /\ UNCHANGED <<ready, fault>>
     \/ /\ ~fault /\ Due(yielding)
        /\ \/ BeginApply(host) /\ UNCHANGED <<ready, fault>>
           \/ OpenFails
  /\ UNCHANGED <<verified, have, ending, host, changes>>

\* The transaction goes on.
PollBusy ==
  /\ ~ending /\ owned /\ Poll
  /\ desired' = host
  /\ ending' = (phase' \in {"done", "failed"})
  /\ UNCHANGED <<submitted, verified, have, ready, fault, online, owned, host, changes>>

PollTimeout ==
  /\ ~ending /\ owned /\ PollFails
  /\ desired' = host /\ ending' = TRUE
  /\ UNCHANGED <<submitted, verified, have, ready, fault, online, owned, host, changes>>

\* Mutant of Taken: what is verified is what is wanted by now.
TakenDesired == desired
\* The levels a transaction has verified.
Taken == submitted

\* It has ended.  (The adapter makes a poll that found it in progress yield, so
\* that the next one does not begin in the same poll.)
PollEnd ==
  /\ ending /\ ending' = FALSE /\ owned' = FALSE
  /\ \/ /\ phase = "done"
        /\ verified' = Taken /\ have' = TRUE
        /\ ready' = (ready \/ Taken = desired)
        /\ UNCHANGED fault
     \/ /\ phase = "failed"
        /\ fault' = TRUE /\ ready' = FALSE
        /\ UNCHANGED <<verified, have>>
  /\ UNCHANGED <<gainVars, submitted, desired, online, host, changes>>

-----------------------------------------------------------------------------
\* What the service of native_gain_adapter.c does to it between two polls.
Adapter == ~ending /\ changes < MaxChanges /\ changes' = changes + 1

\* While no transaction is in progress the adapter reads the ring.
IdleRead == /\ ~owned /\ Read
            /\ UNCHANGED <<trialVars, dspVars, writes, sent, wire, owed, nativeVars, host, changes>>

\* The headset's bulk transfer may have changed the mode or the lanes.
AdapterResets == /\ Adapter /\ ~owned /\ online /\ Forget
                 /\ UNCHANGED <<gainVars, desired, submitted, verified, fault, online, owned, ending, host>>

\* A repaired mode: the fault is forgotten, after an exchange of the settings
\* client that leaves the line as it was at the beginning.
ModeRepaired == /\ Adapter /\ ~owned /\ online /\ fault
                /\ Forget /\ fault' = FALSE /\ Reset
                /\ UNCHANGED <<trialVars, dspVars, writes, desired, submitted, verified, online,
                               owned, ending, host>>

\* A client has found the port failed.
TransportFault ==
  /\ Adapter /\ online /\ ~fault
  /\ phase' = IF Busy THEN "canceled" ELSE phase
  /\ owned' = FALSE /\ fault' = TRUE /\ ready' = FALSE
  /\ Reset
  /\ UNCHANGED <<step, acked, replied, tries, kind, target, original, reduced, observed, dspVars,
                 writes, desired, submitted, verified, have, online, ending, host>>

World == Dsp /\ UNCHANGED <<nativeVars, host, changes>>

Main == PollBusy \/ PollEnd \/ IdleRead \/ \E y \in BOOLEAN : PollIdle(y)

Next == HostWants \/ PollOffline \/ Main \/ PollTimeout \/ AdapterResets \/ ModeRepaired \/ TransportFault \/ World

Native == UNCHANGED <<nativeVars, host, changes>>

Hears == Hear /\ Native
Performs == DspApply /\ Native

Spec == Init /\ [][Next]_vars

\* The main loop polls again and again, and other clients do not keep it from
\* the port for ever; a byte handed to the UART leaves, and the DSP performs
\* what it has accepted.  It need not answer: a poll then fails in the end.
Polls == PollBusy \/ PollIdle(FALSE) \/ PollEnd
DspRuns == Hears \/ Performs
TakesTooLong == IdleRead \/ PollTimeout
FairSpec == Spec /\ WF_vars(Polls) /\ WF_vars(TakesTooLong) /\ WF_vars(DspRuns)

-----------------------------------------------------------------------------
NativeTypeOK ==
  /\ GainTypeOK
  /\ {host, desired, submitted, verified} \subseteq Wish
  /\ {have, ready, fault, online, owned, ending} \subseteq BOOLEAN
  /\ changes \in 0..MaxChanges

\* The levels a transaction verifies are levels the DSP has had since the
\* transaction began: neither a stale answer nor a wish that came during it is
\* taken for them.
VerifiesHeld == ending /\ have' /\ verified' # verified => met /\ target = verified'
VerifiedHeld == [][VerifiesHeld]_vars

\* Once the host has made up its mind, the port stays and nothing fails, the DSP
\* ends up with the levels wanted, even if another writer changed them, and the
\* stream is let through.
GainSettles == <>[](online /\ ~fault) => <>[](ready /\ Meets(dsp, host))
=============================================================================
