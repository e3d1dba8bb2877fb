---------------------------- MODULE DeviceProof -----------------------------
(***************************************************************************)
(* Proofs about the parts of the device, directly about the composition:   *)
(* the cancellation of parked packets against the hardware (IsoCancel);    *)
(* the pages of the flash against power failures and flash errors, for any *)
(* number of edits of the equaliser (Storage); what MCU2 and the host are  *)
(* told, and the envelopes, for any length of them, any gains, bounds of   *)
(* what is asked for and of what goes wrong, and any range of the volume   *)
(* (Mcu2, AudioProbe); the endpoints of the streams (AudioProbe) and the   *)
(* slots of the feedback (IsoBanks, by what IsoBanksProof proves of any    *)
(* number of packets); the microphone with blocks and a ring of any size   *)
(* and any drift its packets make up for (Microphone); and the audio clock *)
(* with any timeouts (AudioClock).                                         *)
(***************************************************************************)
EXTENDS MCDevice, Sequences, TLAPS

-----------------------------------------------------------------------------
\* The cancellation.

Endpoint == 0..1

\* The round of reads that precedes a comparison, and the comparison with what follows.
Reading == pc \in {"selected", "peer", "compare", "store"}

\* The loop has read both banks of endpoint e in this round.
Looked(e) == \/ pc \in {"compare", "store"}
             \/ pc \in {"selected", "peer"} /\ e < i

\* What was read is old, and may be used because of what it says: a bank read idle is idle,
\* for nothing arms a bank while its endpoint is claimed; and no selector has moved since it
\* was compared, but that of an endpoint whose selected bank was read active.
CancelInv ==
  /\ Parking!TypeOK
  /\ \A e \in Endpoint : e \in claimed \/ Parking!Quiet(e)
  /\ pc = "top" \/ Reading => mask = claimed /\ mask # {}
  /\ Reading => skip = {}
  /\ pc \in {"selected", "peer"} => i \in mask
  /\ \A e \in mask :
       /\ Looked(e) \/ (pc = "peer" /\ e = i) => selected[e] \/ ~active[e][before[e]]
       /\ Looked(e) => peer[e] \/ ~active[e][1 - before[e]]
  /\ pc = "store" =>
       \A e \in Endpoint : (e \in mask /\ selected[e]) \/ inuse[e] = before[e]

\* Storing what is there changes nothing.
LEMMA ExceptSame ==
  ASSUME NEW S, NEW T, NEW f \in [S -> T], NEW x \in S
  PROVE  [f EXCEPT ![x] = f[x]] = f
  OBVIOUS

\* The cancellation begins with nothing read.
LEMMA CancelInit == Parking!Init => CancelInv /\ Parking!ParkInit
<1> USE DEF Parking!Init, CancelInv, Parking!TypeOK, Parking!Endpoint, Parking!Bank,
    Endpoint, Reading, Parking!Quiet
<1>1. Parking!Init => CancelInv
  OBVIOUS
<1>2. Parking!Init => Parking!ParkInit
  BY DEF Parking!ParkInit, Parking!Rx!Init, Parking!Feedback!Init, Parking!Rx!Bank,
     Parking!Feedback!Bank
<1> QED
  BY <1>1, <1>2

\* Neither the hardware nor the loop makes what was read untrue before it is used.
LEMMA CancelStep ==
  ASSUME CancelInv, Parking!Next
  PROVE  CancelInv'
<1> USE DEF CancelInv, Parking!TypeOK, Parking!Endpoint, Parking!Bank, Endpoint, Reading,
    Looked, Parking!Quiet, Parking!hwVars, Parking!cpuVars
<1>1. ASSUME NEW e \in Endpoint, Parking!Complete(e)
      PROVE  CancelInv'
  BY <1>1 DEF Parking!Complete
<1>2. ASSUME NEW e \in Endpoint, Parking!Skip(e)
      PROVE  CancelInv'
  BY <1>2 DEF Parking!Skip
<1>3. CASE Parking!Begin
  BY <1>3 DEF Parking!Begin
<1>4. CASE Parking!TopRead
  <2>1. mask # {} /\ mask \subseteq {0, 1}
    BY <1>4 DEF Parking!TopRead
  <2>2. PICK d \in mask : d \in {0, 1}
    BY <2>1, Zenon
  <2>3. Parking!First(mask) \in mask
    BY <2>2 DEF Parking!First
  <2>4. \A e \in mask : ~(e < Parking!First(mask))
    BY <2>3 DEF Parking!First
  <2> QED
    BY <1>4, <2>3, <2>4 DEF Parking!TopRead
<1>5. CASE Parking!GiveUp
  BY <1>5 DEF Parking!GiveUp
<1>6. CASE Parking!ReadSelected
  BY <1>6 DEF Parking!ReadSelected
<1>7. CASE Parking!ReadPeer
  BY <1>7 DEF Parking!ReadPeer
<1>8. CASE Parking!Compare
  BY <1>8 DEF Parking!Compare
<1>9. CASE Parking!StoreSkip
  BY <1>9 DEF Parking!StoreSkip, Parking!WantSkip
<1>10. CASE Parking!StoreSelect
  BY <1>10 DEF Parking!StoreSelect, Parking!WantSkip, Parking!WantSelect
<1>11. CASE Parking!StoreClear
  BY <1>11 DEF Parking!StoreClear, Parking!WantSkip, Parking!WantSelect
<1> QED
  BY <1>1, <1>2, <1>3, <1>4, <1>5, <1>6, <1>7, <1>8, <1>9, <1>10, <1>11 DEF
     Parking!Next, Parking!Loop

\* A step, seen from the banks of endpoint e: nothing; the bank in use is parked, with or
\* without a change of banks; an idle bank in use is left for the other; the endpoint is
\* released with both banks idle.
ParkOf(e) ==
  LET Same == e \in claimed' <=> e \in claimed
  IN  \/ Same /\ UNCHANGED <<active[e], inuse[e]>>
      \/ /\ Same /\ active[e][inuse[e]]
         /\ active'[e] = [active[e] EXCEPT ![inuse[e]] = FALSE]
         /\ inuse'[e] \in {inuse[e], 1 - inuse[e]}
      \/ /\ Same /\ ~active[e][inuse[e]]
         /\ inuse'[e] = 1 - inuse[e] /\ active'[e] = active[e]
      \/ /\ e \in claimed /\ e \notin claimed' /\ Parking!Quiet(e)
         /\ UNCHANGED <<active[e], inuse[e]>>

\* Every step is one of these for every endpoint, and no store takes back a request to park
\* that the hardware has not served.
LEMMA CancelParks ==
  ASSUME CancelInv, Parking!Next
  PROVE  /\ \A e \in Endpoint : ParkOf(e)
         /\ Parking!KeepsSkip
<1> USE DEF CancelInv, Parking!TypeOK, Parking!Endpoint, Parking!Bank, Endpoint, Reading,
    Looked, Parking!Quiet, Parking!hwVars, Parking!cpuVars
<1> DEFINE Goal == (\A e \in Endpoint : ParkOf(e)) /\ Parking!KeepsSkip
<1>1. ASSUME NEW e \in Endpoint, Parking!Complete(e)
      PROVE  Goal
  BY <1>1 DEF Parking!Complete, ParkOf, Parking!KeepsSkip
<1>2. ASSUME NEW e \in Endpoint, Parking!Skip(e)
      PROVE  Goal
  <2>1. /\ active'[e] = [active[e] EXCEPT ![inuse[e]] = FALSE]
        /\ \A d \in Endpoint \ {e} : active'[d] = active[d]
        /\ UNCHANGED <<inuse, claimed>>
    BY <1>2 DEF Parking!Skip
  <2>2. ASSUME ~active[e][inuse[e]]
        PROVE  active'[e] = active[e]
    <3>1. active[e] \in [{0, 1} -> BOOLEAN] /\ inuse[e] \in {0, 1}
      OBVIOUS
    <3>2. active[e][inuse[e]] = FALSE
      BY <2>2, <3>1
    <3>3. [active[e] EXCEPT ![inuse[e]] = active[e][inuse[e]]] = active[e]
      BY <3>1, ExceptSame
    <3> QED
      BY <2>1, <3>2, <3>3
  <2>3. \A d \in Endpoint : ParkOf(d)
    BY <2>1, <2>2 DEF ParkOf
  <2> QED
    BY <1>2, <2>1, <2>3 DEF Parking!Skip, Parking!KeepsSkip
<1>3. CASE Parking!Begin \/ Parking!TopRead \/ Parking!GiveUp \/ Parking!ReadSelected \/
          Parking!ReadPeer \/ Parking!Compare
  BY <1>3 DEF Parking!Begin, Parking!TopRead, Parking!GiveUp, Parking!ReadSelected,
     Parking!ReadPeer, Parking!Compare, ParkOf, Parking!KeepsSkip
<1>4. CASE Parking!StoreSkip
  BY <1>4 DEF Parking!StoreSkip, Parking!WantSkip, ParkOf, Parking!KeepsSkip
<1>5. CASE Parking!StoreSelect
  BY <1>5 DEF Parking!StoreSelect, Parking!WantSkip, Parking!WantSelect, ParkOf,
     Parking!KeepsSkip
<1>6. CASE Parking!StoreClear
  BY <1>6 DEF Parking!StoreClear, Parking!WantSkip, Parking!WantSelect, ParkOf,
     Parking!KeepsSkip
<1> QED
  BY <1>1, <1>2, <1>3, <1>4, <1>5, <1>6 DEF Parking!Next, Parking!Loop

\* For both endpoints they are steps of what a cancellation of one endpoint may do.
LEMMA ParkSteps ==
  ASSUME CancelInv, \A e \in Endpoint : ParkOf(e)
  PROVE  Parking!ParkStep
  BY DEF ParkOf, CancelInv, Endpoint, Parking!TypeOK, Parking!Endpoint, Parking!Bank,
     Parking!Quiet, Parking!ParkStep, Parking!Rx!Next, Parking!Rx!parkVars,
     Parking!Rx!Complete, Parking!Rx!Park, Parking!Rx!Select, Parking!Rx!Release,
     Parking!Rx!Bank, Parking!Feedback!Next, Parking!Feedback!parkVars,
     Parking!Feedback!Complete, Parking!Feedback!Park, Parking!Feedback!Select,
     Parking!Feedback!Release, Parking!Feedback!Bank

-----------------------------------------------------------------------------
\* The flash.

\* Once restored, the page in use holds what was confirmed last, and only the other page is
\* ever written: it is no younger, or torn, or holds a value whose writing was begun.
Kept ==
  restored =>
    /\ nextSeq = slot[active].seq + 1 /\ slot[active].value = confirmed
    /\ active = 1 => nextSeq > 1
    /\ \/ Pages!Pick = active
       \/ slot[1 - active].seq = nextSeq /\ slot[1 - active].value \in tried

\* While the equaliser is saved, and when the write has succeeded.
Saving == pc = "ui" /\ stage # "none" =>
             /\ restored /\ value \in tried
             /\ stage = "good" => slot[1 - active] = [seq |-> nextSeq, value |-> value]

\* A metadata page that calls for the recovery at the next start.
Calls(m) == m.intact /\ m.acked /\ m.force

\* Who may write the metadata page, and when: the acknowledgement before a recovery is
\* asked for, the preparation while one is; and what the page then holds.
Prepared ==
  /\ pc \in {"start", "loader"} =>
       recovery = 0 /\ ~commit /\ ~restored /\ ackStatus = "waiting" /\ stage = "none"
  /\ recovery # 0 => ackStatus = "ok"
  /\ pc = "ack" /\ stage # "none" => ackStatus = "waiting"
  /\ pc = "prepare" /\ stage # "none" => recovery = 1
  /\ pc = "prepare" /\ Pages!Writing => Calls(image)
  /\ pc = "prepare" /\ stage = "good" => Calls(meta)
  /\ recovery = 2 => Calls(meta)
  /\ commit => recovery = 2

StoreControl ==
  /\ pc \in {"start", "loader", "services", "ack", "ui", "prepare", "commit"}
  /\ stage \in {"none", "erase", "program", "verify", "good", "bad"}
  /\ stage # "none" => pc \in {"ack", "ui", "prepare"}
  /\ ackStatus \in {"waiting", "ok", "failed"}
  /\ recovery \in 0..3

StoreMeta == meta \in Pages!Meta /\ image \in Pages!Meta

StoreFlags ==
  /\ configured \in BOOLEAN /\ playing \in BOOLEAN /\ restored \in BOOLEAN
  /\ noticed \in BOOLEAN /\ settled \in BOOLEAN /\ dirty \in BOOLEAN /\ commit \in BOOLEAN

StoreValues == /\ value \in 0..MaxEdits /\ edits \in 0..MaxEdits /\ confirmed \in 0..MaxEdits
               /\ tried \subseteq 0..MaxEdits

StoreSlots == slot \in [Pages!Slot -> Pages!Page] /\ active \in 0..1 /\ nextSeq \in Nat \ {0}

StoreInv ==
  /\ StoreControl /\ StoreMeta /\ StoreFlags /\ StoreValues /\ StoreSlots
  /\ Kept /\ Saving /\ Prepared /\ Pages!SavedSurvives

\* An operation of the flash leaves the page as it was, torn, or as it was to be.
LEMMA PageOutcome ==
  ASSUME NEW page, NEW torn, NEW new, Pages!Writing, NEW r \in Pages!PageStep(page, torn, new)
  PROVE  r[1] \in {page, torn, new}
  BY DEF Pages!Writing, Pages!PageStep

\* A torn metadata page is one that can be read.
LEMMA TornMetaType == Pages!TornMeta \in Pages!Meta
  BY DEF Pages!TornMeta, Pages!Meta

\* Where the main loop is, and how far a page write is.
LEMMA StoreControlStep ==
  ASSUME StoreControl, Pages!Next
  PROVE  StoreControl'
<1> USE DEF StoreControl, Pages!hostVars, Pages!eqVars, Pages!recoveryVars
<1>1. CASE Pages!Services \/ Pages!AckSkip \/ Pages!UiSkip \/ Pages!PrepareSkip \/
          Pages!CommitSkip
  BY <1>1 DEF Pages!Services, Pages!Turn, Pages!AckSkip, Pages!UiSkip, Pages!PrepareSkip,
     Pages!CommitSkip
<1>2. CASE Pages!AckBegin \/ Pages!AckEnd
  BY <1>2 DEF Pages!AckBegin, Pages!AckDue, Pages!AckDone, Pages!AckInvalid, Pages!Acked,
     Pages!AckEnd, Pages!Turn
<1>3. CASE Pages!PrepareBegin \/ Pages!PrepareEnd
  BY <1>3 DEF Pages!PrepareBegin, Pages!PrepareInvalid, Pages!Forced, Pages!PrepareEnd,
     Pages!Turn
<1>4. CASE Pages!CommitReset \/ Pages!Crash
  BY <1>4 DEF Pages!CommitReset, Pages!Cleared, Pages!TornMeta, Pages!Crash
<1>5. CASE Pages!SetConfiguration \/ Pages!SetInterface \/ Pages!RequestPrepare \/
          Pages!RequestCommit \/ Pages!TwoSeconds
  BY <1>5 DEF Pages!SetConfiguration, Pages!HostUnchanged, Pages!SetInterface,
     Pages!RequestPrepare, Pages!Running, Pages!RequestCommit, Pages!TwoSeconds
<1>6. CASE Pages!Boot \/ Pages!LeaveLoader
  BY <1>6 DEF Pages!Boot, Pages!RestUnchanged, Pages!LeaveLoader, Pages!Fresh
<1>7. CASE Pages!Edit
  BY <1>7 DEF Pages!Edit, Pages!Usable
<1>8. CASE Pages!Restore
  BY <1>8 DEF Pages!Restore, Pages!Usable, Pages!Restored, Pages!NextSeq
<1>9. CASE Pages!Poll
  BY <1>9 DEF Pages!Poll, Pages!SaveDue, Pages!SettledNow, Pages!Turn, Pages!Usable
<1>10. CASE Pages!SaveEnd
  BY <1>10 DEF Pages!SaveEnd, Pages!Turn, Pages!Target
<1>11. CASE Pages!WriteMeta
  BY <1>11 DEF Pages!WriteMeta, Pages!Writing, Pages!PageStep
<1>12. CASE Pages!WriteEq
  BY <1>12 DEF Pages!WriteEq, Pages!Writing, Pages!PageStep, Pages!Target, Pages!Saved,
     Pages!Torn
<1> QED
  BY <1>1, <1>2, <1>3, <1>4, <1>5, <1>6, <1>7, <1>8, <1>9, <1>10, <1>11, <1>12 DEF
     Pages!Next, Pages!Main, Pages!Host

\* The metadata page and its image.
LEMMA StoreMetaStep ==
  ASSUME StoreControl, StoreMeta, Pages!Next
  PROVE  StoreMeta'
<1> USE DEF StoreControl, StoreMeta, Pages!hostVars, Pages!eqVars, Pages!recoveryVars
<1>1. CASE Pages!Services \/ Pages!AckSkip \/ Pages!UiSkip \/ Pages!PrepareSkip \/
          Pages!CommitSkip
  BY <1>1 DEF Pages!Services, Pages!AckSkip, Pages!UiSkip, Pages!PrepareSkip, Pages!CommitSkip
<1>2. CASE Pages!AckBegin \/ Pages!AckEnd
  <2>1. Pages!Acked \in Pages!Meta
    BY DEF Pages!Acked, Pages!Meta
  <2> QED
    BY <1>2, <2>1 DEF Pages!AckBegin, Pages!AckEnd
<1>3. CASE Pages!PrepareBegin \/ Pages!PrepareEnd
  <2>1. Pages!Forced \in Pages!Meta
    BY DEF Pages!Forced, Pages!Meta
  <2> QED
    BY <1>3, <2>1 DEF Pages!PrepareBegin, Pages!PrepareEnd
<1>4. CASE Pages!CommitReset \/ Pages!Crash
  BY <1>4, TornMetaType DEF Pages!CommitReset, Pages!Cleared, Pages!Crash
<1>5. CASE Pages!SetConfiguration \/ Pages!SetInterface \/ Pages!RequestPrepare \/
          Pages!RequestCommit \/ Pages!TwoSeconds
  BY <1>5 DEF Pages!SetConfiguration, Pages!HostUnchanged, Pages!SetInterface,
     Pages!RequestPrepare, Pages!Running, Pages!RequestCommit, Pages!TwoSeconds
<1>6. CASE Pages!Boot \/ Pages!LeaveLoader
  <2>1. [meta EXCEPT !.eligible = TRUE, !.pending = FALSE] \in Pages!Meta
    BY DEF Pages!Meta
  <2> QED
    BY <1>6, <2>1 DEF Pages!Boot, Pages!LeaveLoader, Pages!RestUnchanged, Pages!Fresh
<1>7. CASE Pages!Edit
  BY <1>7 DEF Pages!Edit, Pages!Usable
<1>8. CASE Pages!Restore
  BY <1>8 DEF Pages!Restore, Pages!Usable, Pages!Restored, Pages!NextSeq
<1>9. CASE Pages!Poll
  BY <1>9 DEF Pages!Poll, Pages!SaveDue, Pages!SettledNow, Pages!Turn, Pages!Usable
<1>10. CASE Pages!SaveEnd
  BY <1>10 DEF Pages!SaveEnd, Pages!Turn, Pages!Target
<1>11. CASE Pages!WriteMeta
  BY <1>11, PageOutcome, TornMetaType DEF Pages!WriteMeta
<1>12. CASE Pages!WriteEq
  BY <1>12 DEF Pages!WriteEq, Pages!Writing, Pages!PageStep, Pages!Target, Pages!Saved,
     Pages!Torn
<1> QED
  BY <1>1, <1>2, <1>3, <1>4, <1>5, <1>6, <1>7, <1>8, <1>9, <1>10, <1>11, <1>12 DEF
     Pages!Next, Pages!Main, Pages!Host

\* The flags.
LEMMA StoreFlagsStep ==
  ASSUME StoreFlags, Pages!Next
  PROVE  StoreFlags'
<1> USE DEF StoreFlags, Pages!hostVars, Pages!eqVars, Pages!recoveryVars
<1>1. CASE Pages!Services \/ Pages!AckSkip \/ Pages!UiSkip \/ Pages!PrepareSkip \/
          Pages!CommitSkip
  BY <1>1 DEF Pages!Services, Pages!Turn, Pages!AckSkip, Pages!UiSkip, Pages!PrepareSkip,
     Pages!CommitSkip
<1>2. CASE Pages!AckBegin \/ Pages!AckEnd
  BY <1>2 DEF Pages!AckBegin, Pages!AckDue, Pages!AckDone, Pages!AckInvalid, Pages!Acked,
     Pages!AckEnd, Pages!Turn
<1>3. CASE Pages!PrepareBegin \/ Pages!PrepareEnd
  BY <1>3 DEF Pages!PrepareBegin, Pages!PrepareInvalid, Pages!Forced, Pages!PrepareEnd,
     Pages!Turn
<1>4. CASE Pages!CommitReset \/ Pages!Crash
  BY <1>4 DEF Pages!CommitReset, Pages!Cleared, Pages!TornMeta, Pages!Crash
<1>5. CASE Pages!SetConfiguration \/ Pages!SetInterface \/ Pages!RequestPrepare \/
          Pages!RequestCommit \/ Pages!TwoSeconds
  BY <1>5 DEF Pages!SetConfiguration, Pages!HostUnchanged, Pages!SetInterface,
     Pages!RequestPrepare, Pages!Running, Pages!RequestCommit, Pages!TwoSeconds
<1>6. CASE Pages!Boot \/ Pages!LeaveLoader
  BY <1>6 DEF Pages!Boot, Pages!RestUnchanged, Pages!LeaveLoader, Pages!Fresh
<1>7. CASE Pages!Edit
  BY <1>7 DEF Pages!Edit, Pages!Usable
<1>8. CASE Pages!Restore
  BY <1>8 DEF Pages!Restore, Pages!Usable, Pages!Restored, Pages!NextSeq
<1>9. CASE Pages!Poll
  BY <1>9 DEF Pages!Poll, Pages!SaveDue, Pages!SettledNow, Pages!Turn, Pages!Usable
<1>10. CASE Pages!SaveEnd
  BY <1>10 DEF Pages!SaveEnd, Pages!Turn, Pages!Target
<1>11. CASE Pages!WriteMeta
  BY <1>11 DEF Pages!WriteMeta, Pages!Writing, Pages!PageStep
<1>12. CASE Pages!WriteEq
  BY <1>12 DEF Pages!WriteEq, Pages!Writing, Pages!PageStep, Pages!Target, Pages!Saved,
     Pages!Torn
<1> QED
  BY <1>1, <1>2, <1>3, <1>4, <1>5, <1>6, <1>7, <1>8, <1>9, <1>10, <1>11, <1>12 DEF
     Pages!Next, Pages!Main, Pages!Host

\* The equaliser, in the cache and in the history.
LEMMA StoreValuesStep ==
  ASSUME Pages!EditsAssumption, StoreSlots, StoreValues, Pages!Next
  PROVE  StoreValues'
<1> USE DEF StoreValues, Pages!EditsAssumption, Pages!hostVars, Pages!eqVars,
    Pages!recoveryVars
<1>1. CASE Pages!Services \/ Pages!AckSkip \/ Pages!UiSkip \/ Pages!PrepareSkip \/
          Pages!CommitSkip
  BY <1>1 DEF Pages!Services, Pages!Turn, Pages!AckSkip, Pages!UiSkip, Pages!PrepareSkip,
     Pages!CommitSkip
<1>2. CASE Pages!AckBegin \/ Pages!AckEnd
  BY <1>2 DEF Pages!AckBegin, Pages!AckDue, Pages!AckDone, Pages!AckInvalid, Pages!Acked,
     Pages!AckEnd, Pages!Turn
<1>3. CASE Pages!PrepareBegin \/ Pages!PrepareEnd
  BY <1>3 DEF Pages!PrepareBegin, Pages!PrepareInvalid, Pages!Forced, Pages!PrepareEnd,
     Pages!Turn
<1>4. CASE Pages!CommitReset \/ Pages!Crash
  <2>1. value' = 0 /\ UNCHANGED <<edits, confirmed, tried>>
    BY <1>4 DEF Pages!CommitReset, Pages!Cleared, Pages!Crash
  <2> QED
    BY <2>1
<1>5. CASE Pages!SetConfiguration \/ Pages!SetInterface \/ Pages!RequestPrepare \/
          Pages!RequestCommit \/ Pages!TwoSeconds
  BY <1>5 DEF Pages!SetConfiguration, Pages!HostUnchanged, Pages!SetInterface,
     Pages!RequestPrepare, Pages!Running, Pages!RequestCommit, Pages!TwoSeconds
<1>6. CASE Pages!Boot \/ Pages!LeaveLoader
  BY <1>6 DEF Pages!Boot, Pages!RestUnchanged, Pages!LeaveLoader, Pages!Fresh
<1>7. CASE Pages!Edit
  BY <1>7 DEF Pages!Edit, Pages!Usable
<1>8. CASE Pages!Restore
  <2>1. Pages!Restored \in 0..MaxEdits
    BY DEF Pages!Restored, Pages!Pick, StoreSlots, Pages!Slot, Pages!Page
  <2> QED
    BY <1>8, <2>1 DEF Pages!Restore
<1>9. CASE Pages!Poll
  BY <1>9 DEF Pages!Poll, Pages!SaveDue, Pages!SettledNow, Pages!Turn, Pages!Usable
<1>10. CASE Pages!SaveEnd
  BY <1>10 DEF Pages!SaveEnd, Pages!Turn, Pages!Target
<1>11. CASE Pages!WriteMeta
  BY <1>11 DEF Pages!WriteMeta, Pages!Writing, Pages!PageStep
<1>12. CASE Pages!WriteEq
  BY <1>12 DEF Pages!WriteEq, Pages!Writing, Pages!PageStep, Pages!Target, Pages!Saved,
     Pages!Torn
<1> QED
  BY <1>1, <1>2, <1>3, <1>4, <1>5, <1>6, <1>7, <1>8, <1>9, <1>10, <1>11, <1>12 DEF
     Pages!Next, Pages!Main, Pages!Host

\* The pages of the equaliser.
LEMMA StoreSlotsStep ==
  ASSUME Pages!EditsAssumption, StoreSlots, StoreValues, Pages!Next
  PROVE  StoreSlots'
<1> USE DEF StoreSlots, Pages!Slot, Pages!Page, Pages!Pick, StoreValues, Pages!hostVars,
    Pages!eqVars, Pages!recoveryVars
<1>1. CASE Pages!Services \/ Pages!AckSkip \/ Pages!UiSkip \/ Pages!PrepareSkip \/
          Pages!CommitSkip
  BY <1>1 DEF Pages!Services, Pages!Turn, Pages!AckSkip, Pages!UiSkip, Pages!PrepareSkip,
     Pages!CommitSkip
<1>2. CASE Pages!AckBegin \/ Pages!AckEnd
  BY <1>2 DEF Pages!AckBegin, Pages!AckDue, Pages!AckDone, Pages!AckInvalid, Pages!Acked,
     Pages!AckEnd, Pages!Turn
<1>3. CASE Pages!PrepareBegin \/ Pages!PrepareEnd
  BY <1>3 DEF Pages!PrepareBegin, Pages!PrepareInvalid, Pages!Forced, Pages!PrepareEnd,
     Pages!Turn
<1>4. CASE Pages!CommitReset \/ Pages!Crash
  BY <1>4 DEF Pages!CommitReset, Pages!Cleared, Pages!TornMeta, Pages!Crash
<1>5. CASE Pages!SetConfiguration \/ Pages!SetInterface \/ Pages!RequestPrepare \/
          Pages!RequestCommit \/ Pages!TwoSeconds
  BY <1>5 DEF Pages!SetConfiguration, Pages!HostUnchanged, Pages!SetInterface,
     Pages!RequestPrepare, Pages!Running, Pages!RequestCommit, Pages!TwoSeconds
<1>6. CASE Pages!Boot \/ Pages!LeaveLoader
  BY <1>6 DEF Pages!Boot, Pages!RestUnchanged, Pages!LeaveLoader, Pages!Fresh
<1>7. CASE Pages!Edit
  BY <1>7 DEF Pages!Edit, Pages!Usable
<1>8. CASE Pages!Restore
  BY <1>8 DEF Pages!Restore, Pages!Usable, Pages!Restored, Pages!NextSeq
<1>9. CASE Pages!Poll
  BY <1>9 DEF Pages!Poll, Pages!SaveDue, Pages!SettledNow, Pages!Turn, Pages!Usable
<1>10. CASE Pages!SaveEnd
  BY <1>10 DEF Pages!SaveEnd, Pages!Turn, Pages!Target
<1>11. CASE Pages!WriteMeta
  BY <1>11 DEF Pages!WriteMeta, Pages!Writing, Pages!PageStep
<1>12. CASE Pages!WriteEq
  <2>1. slot[1 - active] \in Pages!Page /\ Pages!Torn \in Pages!Page /\ Pages!Saved \in Pages!Page
    BY DEF Pages!Torn, Pages!Saved, Pages!EditsAssumption
  <2> HIDE DEF Pages!Page
  <2>2. PICK r \in Pages!PageStep(slot[1 - active], Pages!Torn, Pages!Saved) :
          slot' = [slot EXCEPT ![1 - active] = r[1]]
    BY <1>12 DEF Pages!WriteEq, Pages!Target
  <2>3. r[1] \in Pages!Page
    BY <1>12, <2>1, <2>2, PageOutcome DEF Pages!WriteEq
  <2> QED
    BY <1>12, <2>2, <2>3 DEF Pages!WriteEq
<1> QED
  BY <1>1, <1>2, <1>3, <1>4, <1>5, <1>6, <1>7, <1>8, <1>9, <1>10, <1>11, <1>12 DEF
     Pages!Next, Pages!Main, Pages!Host

\* The equaliser that is kept.
LEMMA SurvivesStep ==
  ASSUME StoreSlots, StoreControl, Prepared, Kept, Saving, Pages!SavedSurvives, Pages!Next
  PROVE  (Kept /\ Saving /\ Pages!SavedSurvives)'
<1> USE DEF Kept, Saving, Pages!SavedSurvives, Pages!Pick, Pages!Restored, StoreControl,
    Prepared, StoreSlots, Pages!Slot, Pages!Page, Pages!hostVars, Pages!eqVars,
    Pages!recoveryVars
<1>1. CASE Pages!Services \/ Pages!AckSkip \/ Pages!UiSkip \/ Pages!PrepareSkip \/
          Pages!CommitSkip
  BY <1>1 DEF Pages!Services, Pages!Turn, Pages!AckSkip, Pages!UiSkip, Pages!PrepareSkip,
     Pages!CommitSkip
<1>2. CASE Pages!AckBegin \/ Pages!AckEnd
  BY <1>2 DEF Pages!AckBegin, Pages!AckDue, Pages!AckDone, Pages!AckInvalid, Pages!Acked,
     Pages!AckEnd, Pages!Turn
<1>3. CASE Pages!PrepareBegin \/ Pages!PrepareEnd
  BY <1>3 DEF Pages!PrepareBegin, Pages!PrepareInvalid, Pages!Forced, Pages!PrepareEnd,
     Pages!Turn
<1>4. CASE Pages!CommitReset \/ Pages!Crash
  BY <1>4 DEF Pages!CommitReset, Pages!Cleared, Pages!TornMeta, Pages!Crash
<1>5. CASE Pages!SetConfiguration \/ Pages!SetInterface \/ Pages!RequestPrepare \/
          Pages!RequestCommit \/ Pages!TwoSeconds
  BY <1>5 DEF Pages!SetConfiguration, Pages!HostUnchanged, Pages!SetInterface,
     Pages!RequestPrepare, Pages!Running, Pages!RequestCommit, Pages!TwoSeconds
<1>6. CASE Pages!Boot \/ Pages!LeaveLoader
  BY <1>6 DEF Pages!Boot, Pages!RestUnchanged, Pages!LeaveLoader, Pages!Fresh
<1>7. CASE Pages!Edit
  BY <1>7 DEF Pages!Edit, Pages!Usable
<1>8. CASE Pages!Restore
  BY <1>8 DEF Pages!Restore, Pages!Usable, Pages!Restored, Pages!NextSeq
<1>9. CASE Pages!Poll
  BY <1>9 DEF Pages!Poll, Pages!SaveDue, Pages!SettledNow, Pages!Turn, Pages!Usable
<1>10. CASE Pages!SaveEnd
  BY <1>10 DEF Pages!SaveEnd, Pages!Turn, Pages!Target
<1>11. CASE Pages!WriteMeta
  BY <1>11 DEF Pages!WriteMeta, Pages!Writing, Pages!PageStep
<1>12. CASE Pages!WriteEq
  BY <1>12 DEF Pages!WriteEq, Pages!Writing, Pages!PageStep, Pages!Target, Pages!Saved,
     Pages!Torn
<1> QED
  BY <1>1, <1>2, <1>3, <1>4, <1>5, <1>6, <1>7, <1>8, <1>9, <1>10, <1>11, <1>12 DEF
     Pages!Next, Pages!Main, Pages!Host

\* The recovery that is prepared.
LEMMA PreparedStep ==
  ASSUME StoreControl, StoreMeta, Prepared, Pages!Next
  PROVE  Prepared'
<1> USE DEF Prepared, Calls, StoreControl, StoreMeta, Pages!Meta, Pages!Writing,
    Pages!hostVars, Pages!eqVars, Pages!recoveryVars
<1>1. CASE Pages!Services \/ Pages!AckSkip \/ Pages!UiSkip \/ Pages!PrepareSkip \/
          Pages!CommitSkip
  BY <1>1 DEF Pages!Services, Pages!Turn, Pages!AckSkip, Pages!UiSkip, Pages!PrepareSkip,
     Pages!CommitSkip
<1>2. CASE Pages!AckBegin \/ Pages!AckEnd
  BY <1>2 DEF Pages!AckBegin, Pages!AckDue, Pages!AckDone, Pages!AckInvalid, Pages!Acked,
     Pages!AckEnd, Pages!Turn
<1>3. CASE Pages!PrepareBegin \/ Pages!PrepareEnd
  BY <1>3 DEF Pages!PrepareBegin, Pages!PrepareInvalid, Pages!Forced, Pages!PrepareEnd,
     Pages!Turn
<1>4. CASE Pages!CommitReset \/ Pages!Crash
  BY <1>4 DEF Pages!CommitReset, Pages!Cleared, Pages!TornMeta, Pages!Crash
<1>5. CASE Pages!SetConfiguration \/ Pages!SetInterface \/ Pages!RequestPrepare \/
          Pages!RequestCommit \/ Pages!TwoSeconds
  BY <1>5 DEF Pages!SetConfiguration, Pages!HostUnchanged, Pages!SetInterface,
     Pages!RequestPrepare, Pages!Running, Pages!RequestCommit, Pages!TwoSeconds
<1>6. CASE Pages!Boot \/ Pages!LeaveLoader
  BY <1>6 DEF Pages!Boot, Pages!RestUnchanged, Pages!LeaveLoader, Pages!Fresh
<1>7. CASE Pages!Edit
  BY <1>7 DEF Pages!Edit, Pages!Usable
<1>8. CASE Pages!Restore
  BY <1>8 DEF Pages!Restore, Pages!Usable, Pages!Restored, Pages!NextSeq
<1>9. CASE Pages!Poll
  BY <1>9 DEF Pages!Poll, Pages!SaveDue, Pages!SettledNow, Pages!Turn, Pages!Usable
<1>10. CASE Pages!SaveEnd
  BY <1>10 DEF Pages!SaveEnd, Pages!Turn, Pages!Target
<1>11. CASE Pages!WriteMeta
  BY <1>11 DEF Pages!WriteMeta, Pages!Writing, Pages!PageStep
<1>12. CASE Pages!WriteEq
  BY <1>12 DEF Pages!WriteEq, Pages!Writing, Pages!PageStep, Pages!Target, Pages!Saved,
     Pages!Torn
<1> QED
  BY <1>1, <1>2, <1>3, <1>4, <1>5, <1>6, <1>7, <1>8, <1>9, <1>10, <1>11, <1>12 DEF
     Pages!Next, Pages!Main, Pages!Host

\* A device as it leaves the factory.
LEMMA StoreInit == Pages!EditsAssumption /\ Pages!Init => StoreInv
<1> SUFFICES ASSUME Pages!EditsAssumption, Pages!Init
             PROVE  StoreInv
  OBVIOUS
<1> USE DEF Pages!Init
<1>1. StoreControl
  BY DEF StoreControl
<1>2. StoreFlags
  BY DEF StoreFlags
<1>3. StoreMeta
  BY TornMetaType DEF StoreMeta, Pages!Fresh
<1>4. StoreSlots /\ StoreValues
  BY DEF StoreSlots, StoreValues, Pages!EditsAssumption, Pages!Slot, Pages!Page, Pages!Torn
<1>5. Kept /\ Saving /\ Prepared
  BY DEF Kept, Saving, Prepared, Pages!Writing
<1>6. Pages!SavedSurvives
  BY DEF Pages!SavedSurvives, Pages!Restored, Pages!Pick, Pages!Torn, Pages!Slot
<1> QED
  BY <1>1, <1>2, <1>3, <1>4, <1>5, <1>6 DEF StoreInv

\* Every step keeps every part.
LEMMA StoreStep ==
  ASSUME Pages!EditsAssumption, StoreInv, Pages!Next
  PROVE  StoreInv'
  BY StoreControlStep, StoreMetaStep, StoreFlagsStep, StoreValuesStep, StoreSlotsStep,
     SurvivesStep, PreparedStep DEF StoreInv

\* A recovery that is called for goes on being, until the loader has the processor.
LEMMA CallStep ==
  ASSUME StoreControl, StoreMeta, Prepared, Pages!Next
  PROVE  Pages!CallHolds
<1> SUFFICES ASSUME Pages!Called, ~Pages!Called'
             PROVE  pc' = "loader"
  BY DEF Pages!CallHolds
<1>1. CASE ~commit
  <2>1. pc = "start" /\ meta.force /\ meta.acked
    BY <1>1 DEF Pages!Called
  <2>2. Pages!Boot
    BY <2>1 DEF Pages!Next, Pages!Main, Pages!Host, Pages!Edit, Pages!Services, Pages!AckSkip,
       Pages!AckBegin, Pages!AckEnd, Pages!UiSkip, Pages!Restore, Pages!Poll, Pages!SaveEnd,
       Pages!PrepareSkip, Pages!PrepareBegin, Pages!PrepareEnd, Pages!CommitSkip,
       Pages!CommitReset, Pages!WriteMeta, Pages!WriteEq, Pages!SetConfiguration,
       Pages!SetInterface, Pages!RequestPrepare, Pages!RequestCommit, Pages!Running,
       Pages!TwoSeconds, Pages!Crash, Pages!LeaveLoader
  <2> QED
    BY <2>1, <2>2 DEF Pages!Boot
<1>2. CASE commit
  <2>1. ~commit'
    BY DEF Pages!Called
  <2>2. Pages!Cleared
    BY <1>2, <2>1 DEF Pages!Next, Pages!Main, Pages!Host, Pages!Edit, Pages!Services,
       Pages!AckSkip, Pages!AckBegin, Pages!AckEnd, Pages!UiSkip, Pages!Restore, Pages!Poll,
       Pages!SaveEnd, Pages!PrepareSkip, Pages!PrepareBegin, Pages!PrepareEnd,
       Pages!CommitSkip, Pages!CommitReset, Pages!WriteMeta, Pages!WriteEq,
       Pages!SetConfiguration, Pages!SetInterface, Pages!RequestPrepare,
       Pages!RequestCommit, Pages!TwoSeconds, Pages!Crash, Pages!Boot, Pages!LeaveLoader,
       Pages!RestUnchanged, Pages!HostUnchanged, Pages!hostVars, Pages!recoveryVars
  <2>3. Calls(meta)
    BY <1>2 DEF Prepared
  <2>4. Pages!Called'
    BY <2>2, <2>3 DEF Pages!Cleared, Pages!Called, Calls
  <2> QED
    BY <2>4
<1> QED
  BY <1>1, <1>2

-----------------------------------------------------------------------------
\* The gain told to MCU2.

\* The records keep their fields, and the host asks for nothing.
TxShape == tx = [kind |-> tx.kind, value |-> tx.value, generation |-> tx.generation,
                 used |-> tx.used]

LinkTypes ==
  /\ life \in [state : {"fresh", "started", "stopped"}, fault : BOOLEAN]
  /\ gain = [desired |-> gain.desired, generation |-> gain.generation, sent |-> gain.sent,
             sentGeneration |-> gain.sentGeneration]
  /\ gain.generation \in Nat /\ gain.sentGeneration \in Nat
  /\ TxShape /\ tx.generation \in Nat
  /\ selection = [state |-> selection.state, side |-> selection.side,
                  newer |-> selection.newer]
  /\ DOMAIN pending \subseteq GainLink!Kind
  /\ probe.stage = "idle" /\ probe.late = "none"

\* No generation is ahead of the gain's.  What waits to be sent is the gain that was asked
\* for last, and so is what is being sent or was sent under the present generation.
GainInv ==
  /\ LinkTypes
  /\ life.state = "fresh" => /\ gain.generation = 0 /\ gain.sentGeneration = 0
                             /\ gain.sent = gain.desired
                             /\ tx.kind # "gain" /\ "gain" \notin DOMAIN pending
  /\ gain.sentGeneration <= gain.generation /\ GainLink!GainTold
  /\ "gain" \in DOMAIN pending => pending["gain"] = gain.desired
  /\ tx.kind = "gain" => /\ tx.generation <= gain.generation
                         /\ tx.generation = gain.generation => tx.value = gain.desired

\* The kinds of commands, one by one.
LEMMA KindSet ==
  GainLink!Kind = {"version", "detect", "gain", "lifecycle", "controls", "select", "backend",
                   "dsp86"}
  BY DEF GainLink!Kind, GainLink!Order

\* What waits is sent in its turn.
LEMMA FirstWaits ==
  ASSUME DOMAIN pending \subseteq GainLink!Kind, DOMAIN pending # {}
  PROVE  GainLink!Order[GainLink!First] \in DOMAIN pending
<1> DEFINE P(n) == GainLink!Order[n] \in DOMAIN pending
<1>1. \E n \in 1..8 : P(n)
  BY DEF GainLink!Kind
<1>2. \E n \in 1..8 : P(n) /\ \A j \in 1..(n - 1) : ~P(j)
  <2> HIDE DEF P
  <2>1. P(1) \/ P(2) \/ P(3) \/ P(4) \/ P(5) \/ P(6) \/ P(7) \/ P(8)
    BY <1>1
  <2>2. \A m \in 1..8 : P(m) /\ (\A j \in 1..(m - 1) : ~P(j)) =>
        \E n \in 1..8 : P(n) /\ \A j \in 1..(n - 1) : ~P(j)
    OBVIOUS
  <2> QED
    BY <2>1, <2>2
<1> QED
  BY <1>2 DEF GainLink!First

\* A command that is asked for replaces what waits of its kind.
LEMMA Replaced ==
  ASSUME NEW k, NEW v
  PROVE  /\ DOMAIN GainLink!With(pending, k, v) = DOMAIN pending \cup {k}
         /\ GainLink!With(pending, k, v)[k] = v
         /\ \A x \in DOMAIN pending \ {k} : GainLink!With(pending, k, v)[x] = pending[x]
  BY DEF GainLink!With

\* Before the start nothing waits and nothing is sent.
LEMMA GainInit == GainLink!Mcu2Assumption /\ GainLink!Init => GainInv
  BY DEF GainLink!Mcu2Assumption, GainLink!Init, GainInv, LinkTypes, TxShape,
     GainLink!NoTx, GainLink!GainTold, GainLink!Kind, GainLink!None

\* No step shows an older gain as sent, and a selection is observed by a later report.
LEMMA GainStep ==
  ASSUME GainInv, GainLink!Next
  PROVE  GainInv' /\ GainLink!ObservesNewer
<1> USE DEF GainInv, LinkTypes, TxShape, GainLink!GainTold, GainLink!ObservesNewer,
    GainLink!On, GainLink!Event, GainLink!Said, GainLink!Failed, GainLink!Undecided,
    GainLink!None
<1> DEFINE Goal == GainInv' /\ GainLink!ObservesNewer
<1>1. CASE GainLink!Start
  <2> HIDE DEF GainInv
  <2>1. PICK first \in Gains :
           /\ gain' = [gain EXCEPT !.desired = first, !.generation = 1]
           /\ pending' = [k \in GainLink!Query \cup {"gain"} \cup ({} \cap {"backend"}) |->
                           IF k = "gain" THEN first ELSE 0]
    BY <1>1 DEF GainLink!Start
  <2>2. DOMAIN pending' = {"version", "detect", "gain"} /\ pending'["gain"] = first
    BY <2>1 DEF GainLink!Query
  <2> USE DEF GainInv
  <2> QED
    <3>1. /\ gain' = [desired |-> first, generation |-> 1, sent |-> gain.sent,
                     sentGeneration |-> 0]
          /\ life' = [state |-> "started", fault |-> life.fault]
          /\ UNCHANGED <<tx, selection, probe>> /\ life.state = "fresh"
      BY <1>1, <2>1 DEF GainLink!Start
    <3>2. LinkTypes' /\ UNCHANGED tx
      BY <2>2, <3>1, KindSet
    <3> QED
      BY <2>2, <3>1, <3>2
<1>2. CASE GainLink!Pick
  <2>1. GainLink!Order[GainLink!First] \in DOMAIN pending
    BY <1>2, FirstWaits DEF GainLink!Pick
  <2> QED
    BY <1>2, <2>1 DEF GainLink!Pick, GainLink!Without
<1>3. CASE GainLink!Byte
  BY <1>3 DEF GainLink!Byte
<1>4. CASE GainLink!Complete
  BY <1>4 DEF GainLink!Complete, GainLink!GainSent, GainLink!NoTx
<1>5. CASE GainLink!Faults
  BY <1>5 DEF GainLink!Faults
<1>6. CASE GainLink!Stop
  <2>1. /\ life'.state # "fresh"
        /\ life' \in [state : {"fresh", "started", "stopped"}, fault : BOOLEAN]
    <3>1. CASE life.fault
      BY <1>6, <3>1 DEF GainLink!Stop
    <3>2. CASE ~life.fault
      <4>1. life' = [state |-> "stopped", fault |-> tx.kind # "none" /\ tx.used > 0]
        BY <1>6, <3>2 DEF GainLink!Stop
      <4>2. (tx.kind # "none" /\ tx.used > 0) \in BOOLEAN
        OBVIOUS
      <4> QED
        BY <4>1, <4>2
    <3> QED
      BY <3>1, <3>2
  <2>2. pending' = pending \/ DOMAIN pending' = {}
    BY <1>6 DEF GainLink!Stop
  <2>3. selection' = selection \/ selection' = [selection EXCEPT !.state = "failed"]
    BY <1>6 DEF GainLink!Stop
  <2>4. UNCHANGED <<tx, gain, probe>>
    BY <1>6 DEF GainLink!Stop, GainLink!Busy
  <2> QED
    BY <1>6, <2>1, <2>2, <2>3, <2>4 DEF GainLink!Stop
<1>7. CASE GainLink!Report
  <2>1. /\ UNCHANGED <<life, pending, tx, gain, probe>>
        /\ selection' = [selection EXCEPT !.newer = TRUE]
    BY <1>7 DEF GainLink!Report, GainLink!State
  <2> QED
    BY <2>1
<1>8. CASE GainLink!Ready \/ GainLink!Ages
  BY <1>8 DEF GainLink!Ready, GainLink!Ages
<1>9. CASE GainLink!Verdict
  BY <1>9 DEF GainLink!Verdict, GainLink!Confirmed
<1>10. CASE GainLink!Taken
  BY <1>10 DEF GainLink!Taken
<1>11. CASE GainLink!Ended \/ GainLink!Stored
  BY <1>11 DEF GainLink!Ended, GainLink!Stored
<1>12. ASSUME NEW index \in Gains, GainLink!SetGain(index)
       PROVE  Goal
  <2> HIDE DEF GainInv
  <2>1. pending' = GainLink!With(pending, "gain", index)
    BY <1>12 DEF GainLink!SetGain
  <2>2. DOMAIN pending' = DOMAIN pending \cup {"gain"} /\ pending'["gain"] = index
    BY <2>1, Replaced
  <2>3. /\ gain' = [desired |-> index, generation |-> gain.generation + 1, sent |-> gain.sent,
                   sentGeneration |-> gain.sentGeneration]
        /\ UNCHANGED <<life, tx, selection, probe>> /\ life.state = "started"
    BY <1>12 DEF GainLink!SetGain, GainInv
  <2> USE DEF GainInv
  <2>4. LinkTypes'
    BY <2>2, <2>3, KindSet
  <2> QED
    BY <2>2, <2>3, <2>4
<1>13. ASSUME NEW side \in GainLink!Side, GainLink!Select(side)
       PROVE  Goal
  <2>1. \/ pending' = pending
        \/ /\ DOMAIN pending' = DOMAIN pending \cup {"select"}
           /\ "gain" \in DOMAIN pending => pending'["gain"] = pending["gain"]
    <3> HIDE DEF GainInv
    <3>1. pending' = pending \/ pending' = GainLink!With(pending, "select", side)
      BY <1>13 DEF GainLink!Select
    <3>2. /\ DOMAIN GainLink!With(pending, "select", side) = DOMAIN pending \cup {"select"}
          /\ \A k \in DOMAIN pending \ {"select"} :
               GainLink!With(pending, "select", side)[k] = pending[k]
      BY Replaced, ZenonT(40)
    <3> QED
      BY <3>1, <3>2
  <2>2. selection' = [state |-> selection'.state, side |-> selection'.side,
                      newer |-> selection'.newer]
    BY <1>13 DEF GainLink!Select
  <2>3. selection.state # "waiting" /\ UNCHANGED <<life, tx, gain, probe>>
    BY <1>13 DEF GainLink!Select
  <2> QED
    BY <2>1, <2>2, <2>3, KindSet
<1>14. ASSUME NEW q \in GainLink!Query, GainLink!Asks(q)
       PROVE  Goal
  BY <1>14, KindSet DEF GainLink!Asks, GainLink!With, GainLink!Query
<1>15. ASSUME NEW q \in GainLink!Query, GainLink!Reply(q) \/ GainLink!Lost(q)
       PROVE  Goal
  BY <1>15 DEF GainLink!Reply, GainLink!Lost
<1> QED
  BY <1>1, <1>2, <1>3, <1>4, <1>5, <1>6, <1>7, <1>8,
     <1>9, <1>10, <1>11, <1>12, <1>13, <1>14, <1>15 DEF GainLink!Next

-----------------------------------------------------------------------------
\* The queries of the host.

\* While a query is carried, what the code compares says what was observed: an envelope
\* counted since it was taken was completed since; and a reply counted since came after such
\* an envelope, or the count of the replies has only caught up with the envelopes completed
\* before.  If no answer was due when it was taken, none to an earlier envelope can come.
AskInv ==
  /\ query \in [AskedLink!Query -> [sent : Nat, replied : Nat, generation : Nat]]
  /\ probe = [stage |-> probe.stage, phase |-> probe.phase, q |-> probe.q,
              generation |-> probe.generation, sent |-> probe.sent, late |-> probe.late]
  /\ probe.q \in AskedLink!Query
  /\ probe.generation \in Nat /\ probe.sent \in Nat
  /\ asked = [due |-> asked.due, clear |-> asked.clear, sent |-> asked.sent,
              answer |-> asked.answer]
  /\ asked.clear \in BOOLEAN /\ asked.sent \in BOOLEAN
  /\ asked.answer \in {"none", "earlier", "own"}
  /\ asked.clear => asked.due = 0 /\ asked.answer # "earlier"
  /\ AskedLink!AnswerSince
  /\ probe.stage = "active" =>
       /\ probe.sent <= query[probe.q].sent
       /\ query[probe.q].sent # probe.sent => asked.sent
       /\ probe.generation <= query[probe.q].generation
       /\ query[probe.q].generation # probe.generation =>
            query[probe.q].replied = probe.sent \/ asked.answer # "none"

\* At first no query is carried.
LEMMA AskInit == AskedLink!Init => AskInv
  BY DEF AskedLink!Init, AskInv, AskedLink!AnswerSince, AskedLink!Succeeded,
     AskedLink!NotAsked, AskedLink!None, AskedLink!Query

\* A query ends in success only after a reply that came when an envelope was completed.
LEMMA AskStep ==
  ASSUME AskInv, AskedLink!Next
  PROVE  AskInv'
<1> USE DEF AskInv, AskedLink!AnswerSince, AskedLink!Succeeded, AskedLink!On,
    AskedLink!Event, AskedLink!Said, AskedLink!Query, AskedLink!None, AskedLink!Busy,
    AskedLink!Carried
<1>1. CASE AskedLink!Start \/ AskedLink!Pick \/ AskedLink!Byte
  BY <1>1 DEF AskedLink!Start, AskedLink!Pick, AskedLink!Byte
<1>2. CASE AskedLink!Complete
  <2>1. /\ UNCHANGED probe
        /\ query' = query \/ (\E q \in AskedLink!Query :
             q = tx.kind /\ query' = [query EXCEPT ![q].sent = @ + 1])
        /\ asked' = IF AskedLink!Carried(tx.kind) THEN [asked EXCEPT !.sent = TRUE] ELSE asked
    BY <1>2 DEF AskedLink!Complete
  <2>2. CASE query' = query
    BY <2>1, <2>2
  <2>3. ASSUME NEW q \in AskedLink!Query, q = tx.kind, query' = [query EXCEPT ![q].sent = @ + 1]
        PROVE  AskInv'
    <3>1. asked'.sent \in BOOLEAN /\ (asked.sent \/ AskedLink!Carried(q) => asked'.sent)
          /\ asked' = [due |-> asked.due, clear |-> asked.clear, sent |-> asked'.sent,
                       answer |-> asked.answer]
      BY <2>1, <2>3
    <3>2. /\ query' \in [AskedLink!Query -> [sent : Nat, replied : Nat, generation : Nat]]
          /\ query'[q].sent = query[q].sent + 1
          /\ query'[q].replied = query[q].replied /\ query'[q].generation = query[q].generation
          /\ \A p \in AskedLink!Query \ {q} : query'[p] = query[p]
      BY <2>3
    <3>3. CASE probe.q = q
      <4>1. CASE probe.stage = "active"
        <5>1. asked'.sent = TRUE
          BY <3>1, <3>3, <4>1
        <5>2. /\ probe.sent <= query'[q].sent /\ probe.generation <= query'[q].generation
              /\ query'[q].generation # probe.generation =>
                   query'[q].replied = probe.sent \/ asked.answer # "none"
          <6>1. query[q].sent \in Nat /\ probe.sent <= query[q].sent
            BY <3>3, <4>1
          <6> QED
            BY <3>2, <3>3, <4>1, <6>1
        <5> QED
          BY <2>1, <3>1, <3>2, <3>3, <4>1, <5>1, <5>2
      <4>2. CASE probe.stage # "active"
        BY <2>1, <3>1, <3>2, <4>2
      <4> QED
        BY <4>1, <4>2
    <3>4. CASE probe.q # q
      <4>1. query'[probe.q] = query[probe.q]
        BY <3>2, <3>4
      <4>2. query' \in [AskedLink!Query -> [sent : Nat, replied : Nat, generation : Nat]]
        BY <3>2
      <4> QED
        BY <2>1, <3>1, <4>1, <4>2
    <3> QED
      BY <3>3, <3>4
  <2> QED
    BY <2>1, <2>2, <2>3
<1>3. CASE AskedLink!Faults \/ AskedLink!Report \/ AskedLink!Ready \/ AskedLink!Ages \/
          AskedLink!Verdict
  BY <1>3 DEF AskedLink!Faults, AskedLink!Report, AskedLink!Ready, AskedLink!Ages,
     AskedLink!Verdict
<1>4. CASE AskedLink!Taken
  <2>1. /\ probe' = [stage |-> "active", phase |-> probe.phase, q |-> probe.q,
                     generation |-> query[probe.q].generation,
                     sent |-> query[probe.q].sent, late |-> probe.late]
        /\ UNCHANGED query
    BY <1>4 DEF AskedLink!Taken
  <2>2. asked' = [due |-> AskedLink!Due(probe.q), clear |-> AskedLink!Due(probe.q) = 0,
                  sent |-> FALSE, answer |-> "none"]
    BY <1>4 DEF AskedLink!Taken, AskedLink!NotAsked
  <2>3. PICK none \in BOOLEAN :
           /\ none <=> AskedLink!Due(probe.q) = 0
           /\ asked' = [due |-> AskedLink!Due(probe.q), clear |-> none, sent |-> FALSE,
                        answer |-> "none"]
    <3> HIDE DEF AskInv
    <3>1. (AskedLink!Due(probe.q) = 0) \in BOOLEAN
      OBVIOUS
    <3> QED
      BY <2>2, <3>1, Zenon
  <2> QED
    BY <2>1, <2>3
<1>5. CASE AskedLink!Ended
  BY <1>5 DEF AskedLink!Ended, AskedLink!Ends, AskedLink!Answered
<1>6. CASE AskedLink!Stored
  BY <1>6 DEF AskedLink!Stored
<1>7. CASE AskedLink!Stop
  BY <1>7 DEF AskedLink!Stop, AskedLink!Ends
<1>8. ASSUME NEW kind \in {"lifecycle"} \ {"backend"}, AskedLink!Command(kind)
      PROVE  AskInv'
  BY <1>8 DEF AskedLink!Command
<1>9. ASSUME NEW index \in {12}, AskedLink!SetGain(index)
      PROVE  AskInv'
  BY <1>9 DEF AskedLink!SetGain
<1>10. ASSUME NEW side \in AskedLink!Side, AskedLink!Select(side)
       PROVE  AskInv'
  BY <1>10 DEF AskedLink!Select
<1>11. ASSUME NEW q \in AskedLink!Query, AskedLink!Asks(q) \/ AskedLink!Lost(q)
       PROVE  AskInv'
  BY <1>11 DEF AskedLink!Asks, AskedLink!Lost
<1>12. ASSUME NEW q \in AskedLink!Query, AskedLink!Reply(q)
       PROVE  AskInv'
  <2>1. /\ query' = [query EXCEPT ![q].replied = query[q].sent, ![q].generation = @ + 1]
        /\ asked' = IF AskedLink!Carried(q) THEN AskedLink!Heard ELSE asked
        /\ UNCHANGED probe
    BY <1>12 DEF AskedLink!Reply
  <2> QED
    BY <2>1 DEF AskedLink!Heard, AskedLink!AnsweredBy
<1>13. ASSUME NEW q \in {"version", "detect"}, AskedLink!Request(q)
       PROVE  AskInv'
  BY <1>13 DEF AskedLink!Request
<1> QED
  BY <1>1, <1>2, <1>3, <1>4, <1>5, <1>6, <1>7, <1>8, <1>9, <1>10, <1>11, <1>12, <1>13
     DEF AskedLink!Next

-----------------------------------------------------------------------------
\* The volume.

\* What volume.c keeps.
Volumes == [current : 0..Top, muted : BOOLEAN, revision : Nat,
            pending : SUBSET Function!Selector]
\* The types of what the notification and the gain's service depend on.
VolumeTypes ==
  /\ volume \in Volumes
  /\ peer \in [revision : Nat, changed : BOOLEAN]
  /\ host \in [volume : 0..Top, mute : BOOLEAN, reads : SUBSET Function!Selector]
  /\ note \in [busy : BOOLEAN, selector : Function!Selector, sent : Nat,
               transfer : {"none", "queued", "taken"}]
\* The host has been told to read the selector and has not done it.
WillRead(selector) == selector \in host.reads

\* A notification that the host has taken, of the present revision, is still to be read or
\* was read since: only of such a one does the completion clear what is pending.
HandedOver ==
  /\ note.sent <= volume.revision
  /\ configured /\ note.transfer = "taken" /\ note.sent = volume.revision =>
       /\ note.selector = "volume" => WillRead("volume") \/ host.volume = volume.current
       /\ note.selector = "mute" => WillRead("mute") \/ host.mute = volume.muted

\* What the gain's service has read is of a revision before any change made since.
ReadBefore ==
  /\ peer.revision <= volume.revision
  /\ peer.changed => peer.revision < volume.revision

VolumeInv == VolumeTypes /\ Function!HostTold /\ HandedOver /\ ReadBefore

\* Nothing is told and nothing was read.
LEMMA VolumeInit == Function!ProbeAssumption /\ Function!Init => VolumeInv
  BY DEF Function!ProbeAssumption, Function!Init, VolumeInv, VolumeTypes, Function!HostTold,
     HandedOver, ReadBefore, Function!Selector, Function!NoNote, Volumes

\* A change of the volume is nothing, or another revision.
Revises(v, w) == v.revision <= w.revision /\ (w.revision = v.revision => w = v)

\* What a change alters the host is to be told.
Tells(v, w) == /\ v.pending \subseteq w.pending
               /\ w.current # v.current => "volume" \in w.pending
               /\ w.muted # v.muted => "mute" \in w.pending

\* A new level is a change of this kind, told to the host when it is made on the device.
LEMMA LevelRevised ==
  ASSUME NEW v \in Volumes, NEW level \in 0..Top, NEW local \in BOOLEAN
  PROVE  /\ Function!WithVolume(v, level, local) \in Volumes
         /\ Function!WithVolume(v, level, local).muted = v.muted
         /\ Function!WithVolume(v, level, local).current = level
         /\ Revises(v, Function!WithVolume(v, level, local))
         /\ IF local THEN Tells(v, Function!WithVolume(v, level, local))
            ELSE Function!WithVolume(v, level, local).pending = v.pending
<1> DEFINE p == IF local THEN v.pending \cup {"volume"} ELSE v.pending
<1>1. v = [current |-> v.current, muted |-> v.muted, revision |-> v.revision,
           pending |-> v.pending]
  BY DEF Volumes
<1>2. p \in SUBSET Function!Selector
  BY DEF Volumes, Function!Selector
<1>3. ASSUME level # v.current
      PROVE  Function!WithVolume(v, level, local) =
               [current |-> level, muted |-> v.muted, revision |-> v.revision + 1,
                pending |-> p]
  BY <1>1, <1>3 DEF Function!WithVolume
<1>4. ASSUME level = v.current
      PROVE  Function!WithVolume(v, level, local) = v
  BY <1>4 DEF Function!WithVolume
<1>5. v.revision \in Nat /\ v.revision # v.revision + 1 /\ v.revision <= v.revision + 1
  BY DEF Volumes
<1> HIDE DEF p
<1>6. /\ Function!WithVolume(v, level, local) \in Volumes
      /\ Function!WithVolume(v, level, local).muted = v.muted
      /\ Function!WithVolume(v, level, local).current = level
      /\ Revises(v, Function!WithVolume(v, level, local))
  BY <1>2, <1>3, <1>4, <1>5 DEF Volumes, Revises
<1>7. IF local THEN Tells(v, Function!WithVolume(v, level, local))
      ELSE Function!WithVolume(v, level, local).pending = v.pending
  BY <1>3, <1>4 DEF Tells, p
<1> QED
  BY <1>6, <1>7

\* And so is a new mute.
LEMMA MuteRevised ==
  ASSUME NEW v \in Volumes, NEW mute \in BOOLEAN, NEW local \in BOOLEAN
  PROVE  /\ Function!WithMute(v, mute, local) \in Volumes
         /\ Function!WithMute(v, mute, local).muted = mute
         /\ Function!WithMute(v, mute, local).current = v.current
         /\ Revises(v, Function!WithMute(v, mute, local))
         /\ IF local THEN Tells(v, Function!WithMute(v, mute, local))
            ELSE Function!WithMute(v, mute, local).pending = v.pending
<1> DEFINE p == IF local THEN v.pending \cup {"mute"} ELSE v.pending
<1>1. v = [current |-> v.current, muted |-> v.muted, revision |-> v.revision,
           pending |-> v.pending]
  BY DEF Volumes
<1>2. p \in SUBSET Function!Selector
  BY DEF Volumes, Function!Selector
<1>3. ASSUME mute # v.muted
      PROVE  Function!WithMute(v, mute, local) =
               [current |-> v.current, muted |-> mute, revision |-> v.revision + 1,
                pending |-> p]
  BY <1>1, <1>3 DEF Function!WithMute
<1>4. ASSUME mute = v.muted
      PROVE  Function!WithMute(v, mute, local) = v
  BY <1>4 DEF Function!WithMute
<1>5. v.revision \in Nat /\ v.revision # v.revision + 1 /\ v.revision <= v.revision + 1
  BY DEF Volumes
<1> HIDE DEF p
<1>6. /\ Function!WithMute(v, mute, local) \in Volumes
      /\ Function!WithMute(v, mute, local).muted = mute
      /\ Function!WithMute(v, mute, local).current = v.current
      /\ Revises(v, Function!WithMute(v, mute, local))
  BY <1>2, <1>3, <1>4, <1>5 DEF Volumes, Revises
<1>7. IF local THEN Tells(v, Function!WithMute(v, mute, local))
      ELSE Function!WithMute(v, mute, local).pending = v.pending
  BY <1>3, <1>4 DEF Tells, p
<1> QED
  BY <1>6, <1>7

\* And a level followed by a mute.
LEMMA BothRevised ==
  ASSUME NEW u \in Volumes, NEW v \in Volumes, NEW w \in Volumes,
         Revises(u, v), Tells(u, v), Revises(v, w), Tells(v, w)
  PROVE  Revises(u, w) /\ Tells(u, w)
<1>1. u.revision \in Nat /\ v.revision \in Nat /\ w.revision \in Nat
  BY DEF Volumes
<1>2. Revises(u, w)
  BY <1>1 DEF Revises
<1>3. Tells(u, w)
  BY DEF Tells
<1> QED
  BY <1>2, <1>3

\* A change made on the device leaves the host told, and what was read older.
LEMMA LocalStep ==
  ASSUME VolumeInv, NEW v \in Volumes, Revises(volume, v), Tells(volume, v),
         Function!Changes(v)
  PROVE  VolumeInv'
<1>1. /\ volume' = v /\ UNCHANGED <<note, host, configured>>
      /\ peer' = [revision |-> peer.revision,
                  changed |-> peer.changed \/ v.revision # volume.revision]
  BY DEF Function!Changes, Function!Sets, Function!streamVars, VolumeInv, VolumeTypes
<1>2. VolumeTypes' /\ volume.revision \in Nat /\ v.revision \in Nat
  BY <1>1 DEF VolumeInv, VolumeTypes, Volumes
<1>3. Function!HostTold'
  BY <1>1 DEF VolumeInv, Function!HostTold, Tells
<1>4. peer.revision \in Nat /\ note.sent \in Nat
  BY DEF VolumeInv, VolumeTypes
<1>5. volume.revision <= v.revision /\ (v.revision = volume.revision => v = volume)
  BY DEF Revises
<1>6. HandedOver'
  BY <1>1, <1>2, <1>4, <1>5 DEF VolumeInv, HandedOver, WillRead
<1>7. ReadBefore'
  <2>1. peer'.changed => peer.changed \/ v.revision # volume.revision
    BY <1>1
  <2>2. peer'.revision = peer.revision /\ volume'.revision = v.revision
    BY <1>1
  <2> QED
    BY <1>2, <1>4, <1>5, <2>1, <2>2 DEF VolumeInv, ReadBefore
<1> QED
  BY <1>2, <1>3, <1>6, <1>7 DEF VolumeInv

\* No step leaves the host untold, and the dial of the headset yields to what is newer.
LEMMA VolumeStep ==
  ASSUME Function!ProbeAssumption, VolumeInv, Function!Next
  PROVE  VolumeInv' /\ Function!YieldsToHost
<1>1. volume \in Volumes
  BY DEF VolumeInv, VolumeTypes
<1>2. Function!YieldsToHost
  BY DEF Function!YieldsToHost, Function!PeerVolume, Function!Expected, VolumeInv,
     VolumeTypes, Volumes, ReadBefore
<1> SUFFICES VolumeInv'
  BY <1>2
<1>3. CASE Function!SetInterface \/ Function!SetRate
  <2>1. /\ note' \in {note, [note EXCEPT !.transfer = "none"],
                      [note EXCEPT !.transfer = "none", !.busy = FALSE]}
        /\ UNCHANGED <<configured, volume, peer, host>>
    BY <1>3 DEF Function!SetInterface, Function!SetRate, Function!SetStream,
       Function!CloseFails, Function!Reopened, Function!Opened, Function!OpenFails,
       Function!Closed, Function!Freed, Function!Cancelled
  <2> QED
    BY <2>1 DEF VolumeInv, VolumeTypes, HandedOver, ReadBefore, Function!HostTold, WillRead
<1>4. ASSUME NEW next \in BOOLEAN, Function!SetConfiguration(next)
      PROVE  VolumeInv'
  <2>1. /\ note' \in {note, [note EXCEPT !.transfer = "none"],
                      [note EXCEPT !.transfer = "none", !.busy = FALSE]}
        /\ UNCHANGED <<volume, peer>>
        /\ \/ UNCHANGED <<configured, host>>
           \/ configured' = FALSE /\ UNCHANGED host
           \/ host' = [host EXCEPT !.reads = Function!Selector]
    BY <1>4 DEF Function!SetConfiguration, Function!Deconfigured,
       Function!Closed, Function!Freed, Function!Cancelled
  <2>2. VolumeTypes'
    BY <2>1 DEF VolumeInv, VolumeTypes
  <2>3. ReadBefore'
    BY <2>1 DEF VolumeInv, ReadBefore
  <2>4. note'.sent = note.sent /\ note'.selector = note.selector
        /\ note'.transfer \in {note.transfer, "none"} /\ note.selector \in Function!Selector
    BY <2>1 DEF VolumeInv, VolumeTypes
  <2>5. CASE configured' = FALSE
    BY <2>1, <2>2, <2>3, <2>4, <2>5 DEF VolumeInv, HandedOver, Function!HostTold
  <2>6. CASE UNCHANGED <<configured, host>>
    BY <2>1, <2>2, <2>3, <2>4, <2>6 DEF VolumeInv, HandedOver, Function!HostTold, WillRead
  <2>7. CASE host' = [host EXCEPT !.reads = Function!Selector]
    <3>1. host'.reads = {"volume", "mute"}
      BY <2>7 DEF VolumeInv, VolumeTypes, Function!Selector
    <3> QED
      BY <2>1, <2>2, <2>3, <2>4, <3>1 DEF VolumeInv, HandedOver, Function!HostTold, WillRead
  <2> QED
    BY <2>1, <2>5, <2>6, <2>7
<1>5. CASE Function!Reset
  BY <1>5 DEF Function!Reset, Function!Cancelled, VolumeInv, VolumeTypes, Function!HostTold,
     HandedOver, ReadBefore, WillRead
<1>6. CASE Function!Dial
  <2>1. PICK step \in {-1, 1} : Function!Changes(Function!Dialed(volume, step))
    BY <1>6 DEF Function!Dial
  <2> DEFINE level == CHOOSE x \in 0..Top : x = volume.current + step
                        \/ (volume.current + step \notin 0..Top /\ x = volume.current)
             turned == Function!WithVolume(volume, level, TRUE)
             v == Function!Dialed(volume, step)
  <2>2. level \in 0..Top
    BY <1>1 DEF Volumes, Function!ProbeAssumption
  <2> HIDE DEF level
  <2>3. turned \in Volumes /\ Revises(volume, turned) /\ Tells(volume, turned)
    BY <1>1, <2>2, LevelRevised
  <2>4. v \in {turned, Function!WithMute(turned, TRUE, TRUE),
               Function!WithMute(turned, FALSE, TRUE)}
    BY DEF Function!Dialed, level
  <2> HIDE DEF v, turned
  <2>5. v \in Volumes /\ Revises(volume, v) /\ Tells(volume, v)
    <3>1. CASE v = turned
      BY <2>3, <3>1
    <3>2. ASSUME NEW mute \in BOOLEAN, v = Function!WithMute(turned, mute, TRUE)
          PROVE  v \in Volumes /\ Revises(turned, v) /\ Tells(turned, v)
      BY <2>3, <3>2, MuteRevised
    <3> QED
      BY <1>1, <2>3, <2>4, <3>1, <3>2, BothRevised
  <2> QED
    BY <2>1, <2>5, LocalStep DEF v
<1>7. CASE Function!Local \/ Function!PeerVolume
  <2>1. PICK level \in 0..Top, mute \in BOOLEAN :
          Function!Changes(Function!WithMute(Function!WithVolume(volume, level, TRUE),
                                             mute, TRUE))
    BY <1>7 DEF Function!Local, Function!PeerVolume
  <2> DEFINE turned == Function!WithVolume(volume, level, TRUE)
             v == Function!WithMute(turned, mute, TRUE)
  <2>2. turned \in Volumes /\ Revises(volume, turned) /\ Tells(volume, turned)
    BY <1>1, LevelRevised
  <2> HIDE DEF turned
  <2>3. v \in Volumes /\ Revises(turned, v) /\ Tells(turned, v)
    BY <2>2, MuteRevised
  <2> HIDE DEF v
  <2>4. Revises(volume, v) /\ Tells(volume, v)
    BY <1>1, <2>2, <2>3, BothRevised
  <2> QED
    BY <2>1, <2>3, <2>4, LocalStep DEF v, turned
<1>8. CASE Function!Snapshot
  BY <1>1, <1>8 DEF Function!Snapshot, Function!streamVars, VolumeInv, VolumeTypes,
     HandedOver, ReadBefore, Function!HostTold, WillRead, Volumes
<1>9. CASE Function!HostSets
  <2>1. /\ peer' = [revision |-> peer.revision,
                    changed |-> peer.changed \/ volume'.revision # volume.revision]
        /\ UNCHANGED <<note, configured>>
    <3>1. peer' = [peer EXCEPT !.changed = @ \/ volume'.revision # volume.revision]
          /\ UNCHANGED <<note, configured>>
      BY <1>9 DEF Function!HostSets, Function!Sets, Function!streamVars
    <3>2. peer = [revision |-> peer.revision, changed |-> peer.changed]
      BY DEF VolumeInv, VolumeTypes
    <3> QED
      BY <3>1, <3>2
  <2>2. \/ \E level \in 0..Top : /\ volume' = Function!WithVolume(volume, level, FALSE)
                                 /\ host' = [host EXCEPT !.volume = level]
        \/ \E mute \in BOOLEAN : /\ volume' = Function!WithMute(volume, mute, FALSE)
                                 /\ host' = [host EXCEPT !.mute = mute]
    BY <1>9 DEF Function!HostSets, Function!Sets
  <2>3. volume' \in Volumes /\ Revises(volume, volume') /\ volume'.pending = volume.pending
    <3>1. ASSUME NEW level \in 0..Top, volume' = Function!WithVolume(volume, level, FALSE)
          PROVE  /\ volume' \in Volumes /\ Revises(volume, volume')
                 /\ volume'.pending = volume.pending
      BY <1>1, <3>1, LevelRevised
    <3>2. ASSUME NEW mute \in BOOLEAN, volume' = Function!WithMute(volume, mute, FALSE)
          PROVE  /\ volume' \in Volumes /\ Revises(volume, volume')
                 /\ volume'.pending = volume.pending
      BY <1>1, <3>2, MuteRevised
    <3> QED
      BY <2>2, <3>1, <3>2
  <2>4. VolumeTypes' /\ volume.revision \in Nat /\ volume'.revision \in Nat
        /\ peer.revision \in Nat /\ note.sent \in Nat
    BY <2>1, <2>2, <2>3 DEF VolumeInv, VolumeTypes, Volumes
  <2>5. /\ host'.reads = host.reads
        /\ \/ /\ host'.volume = volume'.current /\ host'.mute = host.mute
              /\ volume'.muted = volume.muted
           \/ /\ host'.mute = volume'.muted /\ host'.volume = host.volume
              /\ volume'.current = volume.current
    <3>1. host = [volume |-> host.volume, mute |-> host.mute, reads |-> host.reads]
      BY DEF VolumeInv, VolumeTypes
    <3>2. ASSUME NEW level \in 0..Top, volume' = Function!WithVolume(volume, level, FALSE),
                 host' = [host EXCEPT !.volume = level]
          PROVE  /\ host'.reads = host.reads /\ host'.mute = host.mute
                 /\ host'.volume = volume'.current /\ volume'.muted = volume.muted
      BY <1>1, <3>1, <3>2, LevelRevised
    <3>3. ASSUME NEW mute \in BOOLEAN, volume' = Function!WithMute(volume, mute, FALSE),
                 host' = [host EXCEPT !.mute = mute]
          PROVE  /\ host'.reads = host.reads /\ host'.mute = volume'.muted
                 /\ host'.volume = host.volume /\ volume'.current = volume.current
      <4>1. volume'.muted = mute /\ volume'.current = volume.current
        BY <1>1, <3>3, MuteRevised
      <4> QED
        BY <3>1, <3>3, <4>1
    <3> QED
      BY <2>2, <3>2, <3>3
  <2>6. volume.revision <= volume'.revision
        /\ (volume'.revision = volume.revision => volume' = volume)
    BY <2>3 DEF Revises
  <2>7. ReadBefore'
    <3>1. peer'.changed => peer.changed \/ volume'.revision # volume.revision
      BY <2>1
    <3> QED
      BY <2>1, <2>4, <2>6, <3>1 DEF VolumeInv, ReadBefore
  <2>8. HandedOver'
    BY <2>1, <2>4, <2>5, <2>6 DEF VolumeInv, HandedOver, WillRead
  <2>9. Function!HostTold'
    BY <2>1, <2>3, <2>5 DEF VolumeInv, Function!HostTold
  <2> QED
    BY <2>4, <2>7, <2>8, <2>9 DEF VolumeInv
<1>10. CASE Function!Poll
  BY <1>10 DEF Function!Poll, Function!streamVars, VolumeInv, VolumeTypes, Function!HostTold,
     HandedOver, ReadBefore, WillRead, Volumes, Function!Selector
<1>11. CASE Function!HostTakes
  BY <1>11 DEF Function!HostTakes, Function!streamVars, VolumeInv, VolumeTypes,
     HandedOver, ReadBefore, Function!HostTold, WillRead, Function!Selector
<1>12. CASE Function!Complete
  <2>1. /\ note.transfer = "taken" /\ note'.transfer = "none" /\ note'.sent = note.sent
        /\ UNCHANGED <<configured, peer, host>>
        /\ note' \in {[note EXCEPT !.transfer = "none"],
                     [note EXCEPT !.transfer = "none", !.busy = FALSE]}
        /\ \/ volume' = volume
           \/ /\ note.sent = volume.revision
              /\ volume' = [volume EXCEPT !.pending = @ \ {note.selector}]
    BY <1>12 DEF Function!Complete, Function!Told, Function!Cancelled, Function!streamVars,
       VolumeInv, VolumeTypes
  <2>2. volume' \in Volumes /\ volume'.revision = volume.revision
        /\ volume'.current = volume.current /\ volume'.muted = volume.muted
    BY <1>1, <2>1 DEF Volumes
  <2>3. \/ volume'.pending = volume.pending
        \/ note.sent = volume.revision /\ volume'.pending = volume.pending \ {note.selector}
    BY <1>1, <2>1 DEF Volumes
  <2>4. VolumeTypes'
    BY <2>1, <2>2 DEF VolumeInv, VolumeTypes
  <2>5. Function!HostTold'
    BY <2>1, <2>2, <2>3 DEF VolumeInv, HandedOver, Function!HostTold, WillRead
  <2>6. HandedOver' /\ ReadBefore'
    BY <2>1, <2>2 DEF VolumeInv, HandedOver, ReadBefore
  <2> QED
    BY <2>4, <2>5, <2>6 DEF VolumeInv
<1>13. CASE Function!Refused
  BY <1>13 DEF Function!Refused, Function!Cancelled, Function!streamVars, VolumeInv,
     VolumeTypes, HandedOver, ReadBefore, Function!HostTold, WillRead
<1>14. CASE Function!HostReads
  <2>1. /\ UNCHANGED <<volume, note, peer, configured>>
        /\ \/ host' = [host EXCEPT !.volume = volume.current, !.reads = @ \ {"volume"}]
           \/ host' = [host EXCEPT !.mute = volume.muted, !.reads = @ \ {"mute"}]
    BY <1>14 DEF Function!HostReads, Function!streamVars
  <2>2. host = [volume |-> host.volume, mute |-> host.mute, reads |-> host.reads]
        /\ volume.current \in 0..Top /\ volume.muted \in BOOLEAN
    BY <1>1 DEF VolumeInv, VolumeTypes, Volumes
  <2>3. \/ host' = [volume |-> volume.current, mute |-> host.mute,
                   reads |-> host.reads \ {"volume"}]
        \/ host' = [volume |-> host.volume, mute |-> volume.muted,
                   reads |-> host.reads \ {"mute"}]
    BY <2>1, <2>2
  <2>4. VolumeTypes'
    BY <2>1, <2>2, <2>3 DEF VolumeInv, VolumeTypes
  <2>5. \/ /\ host'.volume = volume.current /\ host'.mute = host.mute
           /\ host'.reads = host.reads \ {"volume"}
        \/ /\ host'.volume = host.volume /\ host'.mute = volume.muted
           /\ host'.reads = host.reads \ {"mute"}
    BY <2>3
  <2>6. Function!HostTold'
    BY <2>1, <2>5 DEF VolumeInv, Function!HostTold
  <2>7. HandedOver' /\ ReadBefore'
    BY <2>1, <2>5 DEF VolumeInv, HandedOver, ReadBefore, WillRead
  <2> QED
    BY <2>4, <2>6, <2>7 DEF VolumeInv
<1> QED
  BY <1>3, <1>4, <1>5, <1>6, <1>7, <1>8, <1>9, <1>10, <1>11, <1>12,
     <1>13, <1>14 DEF Function!Next

-----------------------------------------------------------------------------
\* The feedback packets.

\* The endpoint of the feedback, with what is proved of it for any number of packets and opens.
Banks == INSTANCE IsoBanksProof WITH Kind <- "feedback"

\* Its bounds are as IsoBanks assumes.
LEMMA BanksAssumption == Banks!KindAssumption /\ Banks!BoundsAssumption
  BY DeviceAssumption DEF Banks!KindAssumption, Banks!BoundsAssumption,
     FeedbackBanks!BoundsAssumption

\* Nothing is armed before the first open.
LEMMA BanksInit == FeedbackBanks!Init => Banks!IsoInv
<1>1. FeedbackBanks!Init => Banks!Init
  BY DEF FeedbackBanks!Init, Banks!Init, FeedbackBanks!Bank, Banks!Bank, FeedbackBanks!Slot,
     Banks!Slot, FeedbackBanks!NoSlot, Banks!NoSlot, FeedbackBanks!Free, Banks!Free
<1> QED
  BY <1>1, BanksAssumption, Banks!IsoInit

\* A step of the endpoint is one of those proved to keep the invariant.
LEMMA BanksStep == FeedbackBanks!Next /\ Banks!IsoInv => Banks!IsoInv'
<1>1. FeedbackBanks!Next => Banks!Next
  <2> USE DEF FeedbackBanks!Bank, Banks!Bank, FeedbackBanks!Slot, Banks!Slot,
      FeedbackBanks!NoSlot, Banks!NoSlot, FeedbackBanks!Free, Banks!Free,
      FeedbackBanks!hwVars, Banks!hwVars, FeedbackBanks!swVars, Banks!swVars,
      FeedbackBanks!cpuVars, Banks!cpuVars, FeedbackBanks!Arm, Banks!Arm,
      FeedbackBanks!ArmFails, Banks!ArmFails, FeedbackBanks!NextBank, Banks!NextBank,
      FeedbackBanks!Owned, Banks!Owned
  <2>1. \A bad \in BOOLEAN : FeedbackBanks!Token(bad) => Banks!Token(bad)
    BY DEF FeedbackBanks!Token, Banks!Token
  <2>2. FeedbackBanks!Open => Banks!Open
    BY DEF FeedbackBanks!Open, Banks!Open
  <2>3. FeedbackBanks!OpenFirst => Banks!OpenFirst
    BY DEF FeedbackBanks!OpenFirst, Banks!OpenFirst
  <2>4. FeedbackBanks!OpenSecond => Banks!OpenSecond
    BY DEF FeedbackBanks!OpenSecond, Banks!OpenSecond
  <2>5. FeedbackBanks!ServiceStart \/ FeedbackBanks!ServiceIgnore => Banks!Service
    BY DEF FeedbackBanks!ServiceStart, Banks!ServiceStart, FeedbackBanks!ServiceIgnore,
       Banks!ServiceIgnore, Banks!Service
  <2>6. FeedbackBanks!ServiceRead => Banks!Service
    BY DEF FeedbackBanks!ServiceRead, Banks!ServiceRead, FeedbackBanks!TakeBank,
       Banks!TakeBank, FeedbackBanks!LeaveBank, Banks!LeaveBank, Banks!Service
  <2>7. FeedbackBanks!ServiceArm => Banks!Service
    BY DEF FeedbackBanks!ServiceArm, Banks!ServiceArm, Banks!Service
  <2>8. FeedbackBanks!ServiceConsume => Banks!Service
    BY DEF FeedbackBanks!ServiceConsume, Banks!ServiceConsume, Banks!Service
  <2>9. \/ FeedbackBanks!Cancel \/ FeedbackBanks!CancelPark \/ FeedbackBanks!CancelSelect
        \/ FeedbackBanks!CancelRelease \/ FeedbackBanks!CancelGiveUp
        => Banks!Next
    BY DEF FeedbackBanks!Cancel, Banks!Cancel, FeedbackBanks!CancelPark, Banks!CancelPark,
       FeedbackBanks!CancelSelect, Banks!CancelSelect, FeedbackBanks!CancelRelease,
       Banks!CancelRelease, FeedbackBanks!CancelGiveUp, Banks!CancelGiveUp, Banks!Next
  <2> QED
    BY <2>1, <2>2, <2>3, <2>4, <2>5, <2>6, <2>7, <2>8, <2>9 DEF FeedbackBanks!Next,
       FeedbackBanks!Service, Banks!Next
<1>2. Banks!Next /\ Banks!IsoInv => Banks!IsoInv'
  BY BanksAssumption, Banks!IsoStep
<1> QED
  BY <1>1, <1>2

\* What the run checks of it follows.
LEMMA BanksSafe == Banks!IsoInv => FeedbackBanks!SlotOwnership
<1>1. Banks!IsoInv => Banks!SlotOwnership
  BY BanksAssumption, Banks!IsoSafe
<1>2. Banks!SlotOwnership => FeedbackBanks!SlotOwnership
  BY DEF Banks!SlotOwnership, FeedbackBanks!SlotOwnership, FeedbackBanks!Bank, Banks!Bank,
      FeedbackBanks!NoSlot, Banks!NoSlot
<1> QED
  BY <1>1, <1>2

\* The other parts leave it alone.
LEMMA BanksStutter ==
  ASSUME UNCHANGED vars, Banks!IsoInv
  PROVE  Banks!IsoInv'
<1>1. UNCHANGED Banks!vars
  BY DEF vars, feedbackOnly, Banks!vars, Banks!hwVars, Banks!swVars, Banks!cpuVars
<1> QED
  BY <1>1, BanksAssumption, Banks!IsoStep

-----------------------------------------------------------------------------
\* The envelopes of the link to the other processor.

\* The envelope has bytes of one command, of the one that is being sent if there is one.
EnvInv(bytes) ==
  /\ tx = [kind |-> tx.kind, value |-> tx.value, generation |-> tx.generation,
           used |-> tx.used]
  /\ tx.used \in 0..bytes /\ (tx.kind = "none" => tx.used = 0)
  /\ \E c : env \in Seq({c})
  /\ IF tx.used = 0 THEN Len(env) \in {0, bytes}
     ELSE env \in Seq({<<tx.kind, tx.value>>}) /\ Len(env) = tx.used

\* What a step may do to it: nothing; choose the command; send a byte; end.
EnvMoves(bytes) ==
  \/ UNCHANGED <<tx, env>>
  \/ /\ tx.kind = "none" /\ tx'.used = 0 /\ UNCHANGED env
     /\ tx' = [kind |-> tx'.kind, value |-> tx'.value, generation |-> tx'.generation,
               used |-> tx'.used]
  \/ /\ tx.used < bytes /\ tx.kind # "none"
     /\ tx' = [tx EXCEPT !.used = @ + 1]
     /\ env' = Append(IF Len(env) = bytes THEN <<>> ELSE env, <<tx.kind, tx.value>>)
  \/ tx.used = bytes /\ tx' = GainLink!NoTx /\ UNCHANGED env

\* No such step mixes two commands.
LEMMA EnvKept ==
  ASSUME NEW bytes \in Nat \ {0}, EnvInv(bytes), EnvMoves(bytes)
  PROVE  EnvInv(bytes)'
<1>1. CASE UNCHANGED <<tx, env>>
  BY <1>1 DEF EnvInv
<1>2. CASE /\ tx.kind = "none" /\ tx'.used = 0 /\ UNCHANGED env
           /\ tx' = [kind |-> tx'.kind, value |-> tx'.value, generation |-> tx'.generation,
                     used |-> tx'.used]
  BY <1>2 DEF EnvInv
<1>3. CASE /\ tx.used < bytes /\ tx.kind # "none"
           /\ tx' = [tx EXCEPT !.used = @ + 1]
           /\ env' = Append(IF Len(env) = bytes THEN <<>> ELSE env, <<tx.kind, tx.value>>)
  <2> DEFINE c == <<tx.kind, tx.value>>
             b == IF Len(env) = bytes THEN <<>> ELSE env
  <2>1. tx' = [kind |-> tx.kind, value |-> tx.value, generation |-> tx.generation,
               used |-> tx.used + 1]
    BY <1>3 DEF EnvInv
  <2>2. b \in Seq({c}) /\ Len(b) = tx.used
    <3>1. PICK d : env \in Seq({d})
      BY DEF EnvInv
    <3>2. CASE tx.used = 0
      <4>1. Len(env) \in {0, bytes}
        BY <3>2 DEF EnvInv
      <4>2. b = <<>>
        BY <3>1, <4>1
      <4>3. <<>> \in Seq({c}) /\ Len(<<>>) = 0
        OBVIOUS
      <4> HIDE DEF b, c
      <4> QED
        BY <3>2, <4>2, <4>3
    <3>3. CASE tx.used # 0
      BY <1>3, <3>3 DEF EnvInv
    <3> QED
      BY <3>2, <3>3
  <2> HIDE DEF b, c
  <2>3. env' = Append(b, c)
    BY <1>3 DEF b, c
  <2>4. env' \in Seq({c}) /\ Len(env') = tx.used + 1
    BY <2>2, <2>3
  <2>5. tx'.used = tx.used + 1 /\ tx'.kind = tx.kind /\ <<tx'.kind, tx'.value>> = c
    BY <2>1 DEF c
  <2>6. tx'.used \in 0..bytes /\ tx'.used # 0
    BY <1>3, <2>5 DEF EnvInv
  <2> QED
    BY <1>3, <2>1, <2>4, <2>5, <2>6 DEF EnvInv
<1>4. CASE tx.used = bytes /\ tx' = GainLink!NoTx /\ UNCHANGED env
  <2>1. tx.used # 0 /\ Len(env) = bytes
    BY <1>4 DEF EnvInv
  <2>2. tx' = [kind |-> "none", value |-> 0, generation |-> 0, used |-> 0]
    BY <1>4 DEF GainLink!NoTx, GainLink!None
  <2>3. tx'.used = 0 /\ tx'.kind = "none" /\ tx'.used \in 0..bytes
    BY <2>2
  <2> QED
    BY <1>4, <2>1, <2>2, <2>3 DEF EnvInv
<1> QED
  BY <1>1, <1>2, <1>3, <1>4 DEF EnvMoves

\* All its bytes are of the same command.
LEMMA EnvWhole == ASSUME NEW bytes, EnvInv(bytes) PROVE GainLink!Unmixed
<1>1. PICK c : env \in Seq({c})
  BY DEF EnvInv
<1>2. \A n \in 1..Len(env) : env[n] = c
  BY <1>1
<1>3. Len(env) \in Nat
  BY <1>1
<1> QED
  BY <1>2, <1>3 DEF GainLink!Unmixed

\* Nothing is sent before the start.
LEMMA EnvInit ==
  /\ GainLink!Init => EnvInv(GainBytes)
  /\ AskedLink!Init => EnvInv(AskedBytes)
<1>1. GainBytes \in Nat /\ AskedBytes \in Nat
  BY DeviceAssumption DEF GainLink!Mcu2Assumption, AskedLink!Mcu2Assumption
<1>2. <<>> \in Seq({0}) /\ Len(<<>>) = 0
  OBVIOUS
<1>3. ASSUME NEW bytes \in Nat, env = <<>>,
             tx = [kind |-> "none", value |-> 0, generation |-> 0, used |-> 0]
      PROVE  EnvInv(bytes)
  <2>1. tx.used = 0 /\ tx.kind = "none" /\ tx.used \in 0..bytes
    BY <1>3
  <2> QED
    BY <1>2, <1>3, <2>1 DEF EnvInv
<1> QED
  BY <1>1, <1>3 DEF GainLink!Init, AskedLink!Init, GainLink!NoTx, AskedLink!NoTx,
     GainLink!None, AskedLink!None

\* The steps of the two links are such.
LEMMA EnvSteps ==
  /\ GainLink!Next => EnvMoves(GainBytes)
  /\ AskedLink!Next => EnvMoves(AskedBytes)
<1>1. GainLink!Pick => EnvMoves(GainBytes)
  BY DEF GainLink!Pick, EnvMoves, GainLink!None
<1>2. GainLink!Byte => EnvMoves(GainBytes)
  BY DEF GainLink!Byte, EnvMoves, GainLink!None, GainLink!Value
<1>3. GainLink!Complete => EnvMoves(GainBytes)
  BY DEF GainLink!Complete, EnvMoves
<1>4. AskedLink!Pick => EnvMoves(AskedBytes)
  BY DEF AskedLink!Pick, EnvMoves, AskedLink!None
<1>5. AskedLink!Byte => EnvMoves(AskedBytes)
  BY DEF AskedLink!Byte, EnvMoves, AskedLink!None, AskedLink!Value
<1>6. AskedLink!Complete => EnvMoves(AskedBytes)
  BY DEF AskedLink!Complete, EnvMoves, AskedLink!NoTx, GainLink!NoTx, AskedLink!None,
     GainLink!None
<1>7. GainLink!Next => EnvMoves(GainBytes)
  BY <1>1, <1>2, <1>3 DEF EnvMoves, GainLink!Next, GainLink!Start, GainLink!Faults,
     GainLink!Report, GainLink!Ready, GainLink!Ages, GainLink!Verdict, GainLink!Taken,
     GainLink!Ended, GainLink!Stored, GainLink!Stop, GainLink!SetGain, GainLink!Command,
     GainLink!Select, GainLink!Asks, GainLink!Reply, GainLink!Lost, GainLink!Request
<1>8. AskedLink!Next => EnvMoves(AskedBytes)
  BY <1>4, <1>5, <1>6 DEF EnvMoves, AskedLink!Next, AskedLink!Start, AskedLink!Faults,
     AskedLink!Report, AskedLink!Ready, AskedLink!Ages, AskedLink!Verdict, AskedLink!Taken,
     AskedLink!Ended, AskedLink!Stored, AskedLink!Stop, AskedLink!SetGain,
     AskedLink!Command, AskedLink!Select, AskedLink!Asks, AskedLink!Reply, AskedLink!Lost,
     AskedLink!Request
<1> QED
  BY <1>7, <1>8

-----------------------------------------------------------------------------
\* The streams of the USB function.

\* The endpoints that are open, those of them that the controller may still hold, and the
\* alternates of the streams.
StreamInv ==
  /\ alternate \in [Function!Stream -> 0..2]
  /\ open \subseteq Function!Endpoint /\ closing \subseteq open
  /\ Function!StreamOwned

\* Nothing is open before the host configures the device.
LEMMA StreamInit == Function!Init => StreamInv
  BY DEF Function!Init, StreamInv, Function!StreamOwned, Function!Stream

\* What fails of an opening or a closing leaves no stream without its endpoints.
LEMMA StreamStep ==
  ASSUME StreamInv, Function!Next
  PROVE  StreamInv'
<1> USE DEF StreamInv, Function!StreamOwned, Function!Stream, Function!Endpoint,
    Function!EndpointsOf
<1>1. ASSUME NEW s \in Function!Stream, NEW next \in Function!Alternates(s), NEW r,
             configured, UNCHANGED configured, Function!SetStream(s, next, r)
      PROVE  StreamInv'
  <2>1. next \in 0..2
    BY DEF Function!Alternates
  <2>2. CASE Function!CloseFails(s, next, r)
    BY <1>1, <2>2 DEF Function!CloseFails, Function!Closed, Function!Left, Function!MayFail
  <2>3. CASE Function!Reopened(s, next, r)
    BY <1>1, <2>3 DEF Function!Reopened, Function!Closed, Function!Left
  <2>4. CASE Function!Opened(s, next, r)
    BY <1>1, <2>1, <2>4 DEF Function!Opened
  <2>5. CASE Function!OpenFails(s, next, r)
    BY <1>1, <2>5 DEF Function!OpenFails, Function!Left, Function!MayFail
  <2> QED
    BY <1>1, <2>2, <2>3, <2>4, <2>5 DEF Function!SetStream
<1>2. CASE Function!SetInterface
  BY <1>1, <1>2 DEF Function!SetInterface
<1>3. CASE Function!SetRate
  <2>1. alternate["playback"] \in 0..2 /\ "playback" \in Function!Stream
    OBVIOUS
  <2>2. alternate["playback"] \in Function!Alternates("playback")
    BY <2>1 DEF Function!Alternates
  <2> QED
    BY <1>1, <1>3, <2>1, <2>2 DEF Function!SetRate
<1>4. ASSUME NEW next \in BOOLEAN, Function!SetConfiguration(next)
      PROVE  StreamInv'
  BY <1>4 DEF Function!SetConfiguration, Function!Deconfigured, Function!Closed,
     Function!MayFail
<1>5. CASE Function!Reset
  BY <1>5 DEF Function!Reset
<1>6. CASE \/ Function!Dial \/ Function!Local \/ Function!Snapshot \/ Function!PeerVolume
           \/ Function!HostSets \/ Function!Poll \/ Function!HostTakes \/ Function!Complete
           \/ Function!Refused \/ Function!HostReads
  <2>1. UNCHANGED <<configured, alternate, open, closing>>
    BY <1>6 DEF Function!Dial, Function!Local, Function!Snapshot, Function!PeerVolume,
       Function!HostSets, Function!Poll, Function!HostTakes, Function!Complete,
       Function!Refused, Function!HostReads, Function!Changes, Function!streamVars
  <2> QED
    BY <2>1
<1> QED
  BY <1>2, <1>3, <1>4, <1>5, <1>6 DEF Function!Next

-----------------------------------------------------------------------------
\* The microphone.

\* The microphone, of any size.
Sampled(F, S, D, E) == INSTANCE Microphone WITH Frame <- F, SIZE <- S, Drift <- D,
  MaxEvents <- E

\* Samples of the blocks that were copied ahead of the packets.
Ahead(F) == IF lead = 0 THEN 0 ELSE IF lead = 1 THEN F ELSE F + F

MicTypes(D) ==
  /\ pc \in {"idle", "stop", "disable", "wait", "read", "written", "reset", "activate",
             "trigger"}
  /\ handler \in {"out", "entered", "copying"} /\ taken \subseteq {"a", "b", "e"}
  /\ flags \subseteq {"a", "b", "e"} /\ spent \in 0..1 /\ dma \in {"off", "on", "ending"}
  /\ pos \in 0..3 /\ behind \in 0..3 /\ fill \in Nat /\ lead \in 0..2 /\ held \in 0..D

MicFlags ==
  /\ active \in BOOLEAN /\ expectedB \in BOOLEAN /\ primed \in BOOLEAN
  /\ steady \in BOOLEAN /\ lost \in BOOLEAN /\ silent \in BOOLEAN

\* The channel is off while it is set up, and before the first time it was; the handler
\* works only on a microphone that is active.
MicControl ==
  /\ pc \in {"read", "written", "reset", "activate", "trigger"} \/ ~configured =>
       dma = "off" /\ flags = {} /\ behind = 0 /\ pos = 0 /\ handler = "out"
  /\ active => configured /\ pc \in {"idle", "stop", "trigger"}
  /\ pc \in {"written", "reset", "activate", "trigger"} => configured
  /\ handler # "out" => active
  /\ handler = "out" => spent = 0 /\ taken = {}
  /\ pc \in {"written", "reset", "activate"} => ~lost /\ ~silent
  /\ pc \in {"reset", "activate"} => fill = 0
  /\ pc = "activate" => ~primed /\ ~expectedB

\* The block filled last.
Blocks == {"a", "b"}
Filled == IF pos >= 2 THEN "a" ELSE "b"

\* The flags of the blocks filled and not copied are up, or were taken; the one expected is
\* the first of these blocks.
MicOrder ==
  active =>
    /\ behind = 0 => (flags \cup taken) \cap Blocks = {} /\ (expectedB <=> pos >= 2)
    /\ behind = 1 => (flags \cup taken) \cap Blocks = {Filled} /\ (expectedB <=> pos < 2)
    /\ behind >= 2 => Blocks \subseteq flags \cup taken
    /\ handler # "out" =>
         /\ flags \cap Blocks # {} =>
              spent = 1 /\ pos \in {0, 2} /\ flags \cap Blocks = {Filled}
         /\ flags \cap Blocks # {} /\ taken \cap Blocks # {} => behind >= 2
    /\ handler = "copying" =>
         /\ behind = 1 /\ taken = {Filled} /\ flags \cap Blocks = {}
         /\ pos \in {0, 2} \/ spent = 1

\* What the ring holds but for the blocks ahead: between one block and two, save for what
\* the last drift of a block has left to make up for; less at the start, a block or two
\* of silence having been given.
MicFill(F) ==
  active /\ steady =>
    /\ ~lost /\ ~silent
    /\ lead + behind <= 1 \/ (lead + behind = 2 /\ lead >= 1 /\ held = 0)
    /\ primed =>
         /\ fill <= Ahead(F) + F + F \/ fill + held <= Ahead(F) + F + F + F
         /\ fill + 1 >= Ahead(F) + F \/ fill + 1 >= Ahead(F) + held
         /\ lead + behind = 2 => fill <= Ahead(F) + F
    /\ ~primed =>
         /\ fill \in {0, F, F + F, F + F + F}
         /\ fill <= Ahead(F) + F \/ (held = 0 /\ fill <= Ahead(F) + F + F)
         /\ lead + behind = 2 => fill <= Ahead(F)

MicInv(F, D) == MicTypes(D) /\ MicFlags /\ MicControl /\ MicOrder /\ MicFill(F)

\* At the start the channel is off and the ring is empty.
LEMMA MicInit ==
  ASSUME NEW F \in Nat, NEW S \in Nat, NEW D \in Nat, NEW E \in Nat, Sampled(F, S, D, E)!Init
  PROVE  MicInv(F, D)
<1> USE DEF Sampled!Init
<1>1. MicTypes(D)
  BY DEF MicTypes
<1>2. MicFlags
  BY DEF MicFlags
<1>3. MicControl
  BY DEF MicControl
<1>4. MicOrder /\ MicFill(F)
  BY DEF MicOrder, MicFill
<1> QED
  BY <1>1, <1>2, <1>3, <1>4 DEF MicInv

\* What the run checks of the microphone follows, the ring having room for four blocks.
LEMMA MicSafe ==
  ASSUME NEW F \in Nat, NEW S \in Nat, NEW D \in Nat, NEW E \in Nat, MicInv(F, D)
  PROVE  Sampled(F, S, D, E)!BlockWhole /\ Sampled(F, S, D, E)!Gapless
<1>1. Sampled(F, S, D, E)!BlockWhole
  BY DEF Sampled!BlockWhole, MicInv, MicTypes, MicFlags, MicControl, MicOrder, Blocks, Filled
<1>2. Sampled(F, S, D, E)!Gapless
  BY DEF Sampled!Gapless, MicInv, MicTypes, MicFlags, MicFill, Ahead
<1> QED
  BY <1>1, <1>2
\* Two blocks before the first sample and a sample more or less in a packet keep the ring
\* from running empty or full: a packet makes up for a sample, and the clocks come a block
\* apart in no fewer packets than a block has samples.
LEMMA MicStep ==
  ASSUME NEW F \in Nat, NEW S \in Nat, NEW D \in Nat, NEW E \in Nat,
         F > 1, S >= 4 * F, D >= F, MicInv(F, D), Sampled(F, S, D, E)!Next
  PROVE  MicInv(F, D)'
<1> USE DEF MicInv, Sampled!mainVars, Sampled!streamVars, Sampled!handlerVars, Sampled!dmaVars,
    Sampled!clockVars, Sampled!At, Sampled!MainStep, Sampled!Disabled, Sampled!Leave,
    Sampled!Event
<1>1. CASE Sampled(F, S, D, E)!FillsHalf
  <2> USE <1>1 DEF Sampled!FillsHalf
  <2>1. MicTypes(D)'
    <3>1. pos' \in 0..3 /\ behind' \in 0..3 /\ spent' \in 0..1
      BY DEF MicTypes, MicControl, Sampled!Least, Sampled!HandlerTime
    <3>2. flags' \subseteq {"a", "b", "e"}
      BY DEF MicTypes
    <3> QED
      BY <3>1, <3>2 DEF MicTypes
  <2>2. MicFlags'
    BY DEF MicFlags
  <2>3. MicControl'
    BY DEF MicControl
  <2>4. MicOrder'
    BY DEF MicTypes, MicControl, MicOrder, Blocks, Filled, Sampled!Least, Sampled!HandlerTime
  <2>5. MicFill(F)'
    BY DEF MicTypes, MicFill, Ahead, Sampled!Least, Sampled!Jitter
  <2> QED
    BY <2>1, <2>2, <2>3, <2>4, <2>5
<1>2. CASE Sampled(F, S, D, E)!Enter
  <2> USE <1>2 DEF Sampled!Enter
  <2>1. MicTypes(D)'
    BY DEF MicTypes
  <2>2. MicFlags'
    BY DEF MicFlags
  <2>3. MicControl'
    BY DEF MicControl
  <2>4. MicOrder'
    BY DEF MicTypes, MicControl, MicOrder, Blocks, Filled
  <2>5. MicFill(F)'
    BY DEF MicFill, Ahead
  <2> QED
    BY <2>1, <2>2, <2>3, <2>4, <2>5
<1>3. CASE Sampled(F, S, D, E)!Verify
  <2> USE <1>3 DEF Sampled!Verify
  <2>1. MicTypes(D)'
    <3>1. handler' \in {"out", "copying"} /\ taken' \subseteq {"a", "b", "e"} /\ spent' \in 0..1
      <4>1. CASE Sampled(F, S, D, E)!InOrder
        <5>1. handler' = "copying" /\ taken' = taken /\ spent' = spent
          BY <4>1
        <5> QED
          BY <5>1 DEF MicTypes
      <4>2. CASE ~Sampled(F, S, D, E)!InOrder
        <5>1. handler' = "out" /\ taken' = {} /\ spent' = 0
          BY <4>2
        <5> QED
          BY <5>1
      <4> QED
        BY <4>1, <4>2
    <3>2. dma' \in {"off", "on", "ending"}
      BY DEF MicTypes
    <3> QED
      BY <3>1, <3>2 DEF MicTypes
  <2>2. MicFlags'
    BY DEF MicFlags
  <2>3. MicControl'
    BY DEF MicControl
  <2>4. MicOrder'
    BY DEF MicTypes, MicFlags, MicControl, MicOrder, Blocks, Filled, Sampled!InOrder,
       Sampled!OtherBegun
  <2>5. MicFill(F)'
    BY DEF MicFill, Ahead
  <2> QED
    BY <2>1, <2>2, <2>3, <2>4, <2>5
<1>4. CASE Sampled(F, S, D, E)!Publish
  <2> USE <1>4 DEF Sampled!Publish
  <2>1. MicTypes(D)'
    <3>1. fill' \in Nat
      BY DEF MicTypes, Sampled!Least
    <3>2. behind' \in 0..3 /\ lead' \in 0..2
      BY DEF MicTypes, MicFlags, MicControl, MicOrder, MicFill
    <3> QED
      BY <3>1, <3>2 DEF MicTypes
  <2>2. MicFlags'
    BY DEF MicFlags
  <2>3. MicControl'
    BY DEF MicControl
  <2>4. MicOrder'
    <3>1. behind = 1 /\ taken = {Filled} /\ flags \cap Blocks = {} /\ taken' = {} /\ behind' = 0
      BY DEF MicTypes, MicFlags, MicControl, MicOrder
    <3>2. expectedB' <=> pos' >= 2
      <4>1. expectedB <=> pos < 2
        BY <3>1 DEF MicControl, MicOrder
      <4>2. pos < 2 <=> ~(pos' >= 2)
        BY DEF MicTypes
      <4>3. expectedB' = ~expectedB /\ expectedB \in BOOLEAN
        BY DEF MicFlags
      <4> QED
        BY <4>1, <4>2, <4>3
    <3>3. (flags \cup taken)' \cap Blocks = {}
      BY <3>1 DEF Blocks
    <3> QED
      BY <3>1, <3>2, <3>3 DEF MicOrder, Blocks
  <2>5. MicFill(F)'
    BY DEF MicTypes, MicFlags, MicControl, MicOrder, MicFill, Ahead, Sampled!Least
  <2> QED
    BY <2>1, <2>2, <2>3, <2>4, <2>5
<1>5. CASE Sampled(F, S, D, E)!Packet
  <2> USE <1>5 DEF Sampled!Packet
  <2>1. MicTypes(D)'
    BY DEF MicTypes, Sampled!Least, Sampled!Given, Sampled!Count
  <2>2. MicFlags'
    BY DEF MicFlags, Sampled!Primed
  <2>3. MicControl'
    <3>1. primed' = (primed \/ fill >= 2 * F)
      BY DEF Sampled!Primed
    <3>2. pc \in {"written", "reset", "activate"} => ~silent'
      <4>1. pc \in {"written", "reset", "activate"} => ~active /\ ~silent
        BY DEF MicControl
      <4> QED
        BY <4>1
    <3>3. pc \in {"reset", "activate"} => fill' = 0
      BY DEF MicControl, Sampled!Given
    <3>4. pc = "activate" => ~primed'
      <4>1. pc = "activate" => ~primed /\ ~(fill >= 2 * F)
        BY DEF MicControl
      <4> QED
        BY <3>1, <4>1
    <3> QED
      BY <3>2, <3>3, <3>4 DEF MicControl
  <2>4. MicOrder'
    BY DEF MicOrder, Blocks, Filled
  <2>5. MicFill(F)'
    <3> SUFFICES ASSUME active, steady
                 PROVE  MicFill(F)'
      BY DEF MicFill
    <3> DEFINE ready == Sampled(F, S, D, E)!Primed
               count == Sampled(F, S, D, E)!Count
    <3>1. /\ ~lost' /\ active' /\ steady' /\ behind' = behind /\ lead \in 0..2 /\ held \in 0..D
          /\ fill \in Nat /\ behind \in 0..3
      BY DEF MicTypes, MicFlags, MicFill
    <3>2. CASE ~ready
      <4>1. ~primed /\ ~primed' /\ fill' = fill /\ fill < 2 * F /\ ~silent'
        BY <3>1, <3>2 DEF Sampled!Primed, Sampled!Given, MicFill, MicFlags, MicTypes
      <4>2. fill \in {0, F}
        BY <3>1, <4>1 DEF MicFill
      <4>3. /\ lead' = (IF lead = 0 THEN 0 ELSE lead - 1)
            /\ held' = (IF held < D THEN held + 1 ELSE D)
        BY <3>1 DEF Sampled!Least
      <4> QED
        BY <3>1, <4>1, <4>2, <4>3 DEF MicFill, Ahead
    <3>3. CASE ready
      <4>1. count = (IF fill > 3 * F THEN F + 1 ELSE IF fill < 2 * F THEN F - 1 ELSE F)
        BY <3>1, <3>3 DEF Sampled!Count
      <4>2. /\ lead' = (IF lead = 0 THEN 0 ELSE lead - 1) /\ (primed => lead > 0)
            /\ held' = (IF held < D THEN held + 1 ELSE D)
        BY <3>1 DEF Sampled!Least
      <4>3. fill >= F - 1 /\ (fill < 2 * F => primed)
        BY <3>1, <3>3, <4>2 DEF Sampled!Primed, MicFill, Ahead
      <4>4. count <= fill /\ fill' = fill - count
        BY <3>1, <3>3, <4>1, <4>3 DEF Sampled!Given, Sampled!Least
      <4>5. ~silent' /\ primed'
        <5>1. ~silent /\ ~(count > fill)
          BY <3>1, <4>1, <4>4 DEF MicFill
        <5> QED
          BY <3>3, <5>1
      <4> HIDE DEF ready, count
      <4>6. CASE primed
        BY <3>1, <4>1, <4>2, <4>4, <4>5, <4>6 DEF MicFill, Ahead
      <4>7. CASE ~primed
        BY <3>1, <4>1, <4>2, <4>3, <4>4, <4>5, <4>7 DEF MicFill, Ahead
      <4> QED
        BY <4>6, <4>7
    <3> QED
      BY <3>2, <3>3
  <2> QED
    BY <2>1, <2>2, <2>3, <2>4, <2>5
<1>6. CASE Sampled(F, S, D, E)!Begins
  <2> USE <1>6 DEF Sampled!Begins
  <2>1. MicTypes(D)'
    BY DEF MicTypes
  <2>2. MicFlags'
    BY DEF MicFlags
  <2>3. MicControl'
    BY DEF MicControl
  <2>4. MicOrder'
    BY DEF MicOrder, Blocks, Filled
  <2>5. MicFill(F)'
    BY DEF MicFill, Ahead
  <2> QED
    BY <2>1, <2>2, <2>3, <2>4, <2>5
<1>7. CASE Sampled(F, S, D, E)!Deactivate
  <2> USE <1>7 DEF Sampled!Deactivate
  <2>1. MicTypes(D)'
    BY DEF MicTypes
  <2>2. MicFlags'
    BY DEF MicFlags
  <2>3. MicControl'
    BY DEF MicTypes, MicControl
  <2>4. MicOrder'
    BY DEF MicOrder, Blocks, Filled
  <2>5. MicFill(F)'
    BY DEF MicFill, Ahead
  <2> QED
    BY <2>1, <2>2, <2>3, <2>4, <2>5
<1>8. CASE Sampled(F, S, D, E)!Disable
  <2> USE <1>8 DEF Sampled!Disable
  <2>1. MicTypes(D)'
    BY DEF MicTypes
  <2>2. MicFlags'
    BY DEF MicFlags
  <2>3. MicControl'
    BY DEF MicControl
  <2>4. MicOrder'
    BY DEF MicOrder, Blocks, Filled
  <2>5. MicFill(F)'
    BY DEF MicFill, Ahead
  <2> QED
    BY <2>1, <2>2, <2>3, <2>4, <2>5
<1>9. CASE Sampled(F, S, D, E)!Quiets
  <2> USE <1>9 DEF Sampled!Quiets
  <2>1. MicTypes(D)'
    BY DEF MicTypes
  <2>2. MicFlags'
    BY DEF MicFlags
  <2>3. MicControl'
    BY DEF MicControl
  <2>4. MicOrder'
    BY DEF MicOrder, Blocks, Filled
  <2>5. MicFill(F)'
    BY DEF MicFill, Ahead
  <2> QED
    BY <2>1, <2>2, <2>3, <2>4, <2>5
<1>10. CASE Sampled(F, S, D, E)!Stopped
  <2> USE <1>10 DEF Sampled!Stopped
  <2>1. MicTypes(D)'
    BY DEF MicTypes
  <2>2. MicFlags'
    BY DEF MicFlags
  <2>3. MicControl'
    BY DEF MicControl
  <2>4. MicOrder'
    BY DEF MicControl, MicOrder
  <2>5. MicFill(F)'
    BY DEF MicControl, MicFill
  <2> QED
    BY <2>1, <2>2, <2>3, <2>4, <2>5
<1>11. CASE Sampled(F, S, D, E)!GivesUp
  <2> USE <1>11 DEF Sampled!GivesUp
  <2>1. MicTypes(D)'
    BY DEF MicTypes
  <2>2. MicFlags'
    BY DEF MicFlags
  <2>3. MicControl'
    BY DEF MicControl
  <2>4. MicOrder'
    BY DEF MicOrder, Blocks, Filled
  <2>5. MicFill(F)'
    BY DEF MicFill, Ahead
  <2> QED
    BY <2>1, <2>2, <2>3, <2>4, <2>5
<1>12. CASE Sampled(F, S, D, E)!ClearRead
  <2> USE <1>12 DEF Sampled!ClearRead
  <2>1. MicTypes(D)'
    BY DEF MicTypes
  <2>2. MicFlags'
    BY DEF MicFlags
  <2>3. MicControl'
    BY DEF MicControl
  <2>4. MicOrder'
    BY DEF MicOrder, Blocks, Filled
  <2>5. MicFill(F)'
    BY DEF MicControl, MicFill
  <2> QED
    BY <2>1, <2>2, <2>3, <2>4, <2>5
<1>13. CASE Sampled(F, S, D, E)!ClearWritten
  <2> USE <1>13 DEF Sampled!ClearWritten
  <2>1. MicTypes(D)'
    BY DEF MicTypes
  <2>2. MicFlags'
    BY DEF MicFlags
  <2>3. MicControl'
    BY DEF MicControl
  <2>4. MicOrder'
    BY DEF MicOrder, Blocks, Filled
  <2>5. MicFill(F)'
    BY DEF MicControl, MicFill
  <2> QED
    BY <2>1, <2>2, <2>3, <2>4, <2>5
<1>14. CASE Sampled(F, S, D, E)!Reset
  <2> USE <1>14 DEF Sampled!Reset
  <2>1. MicTypes(D)'
    BY DEF MicTypes
  <2>2. MicFlags'
    BY DEF MicFlags
  <2>3. MicControl'
    BY DEF MicControl
  <2>4. MicOrder'
    BY DEF MicControl, MicOrder
  <2>5. MicFill(F)'
    BY DEF MicControl, MicFill
  <2> QED
    BY <2>1, <2>2, <2>3, <2>4, <2>5
<1>15. CASE Sampled(F, S, D, E)!Activate
  <2> USE <1>15 DEF Sampled!Activate
  <2>1. MicTypes(D)'
    BY DEF MicTypes
  <2>2. MicFlags'
    BY DEF MicFlags
  <2>3. MicControl'
    BY DEF MicTypes, MicControl
  <2>4. MicOrder'
    BY DEF MicTypes, MicControl, MicOrder, Blocks
  <2>5. MicFill(F)'
    BY DEF MicTypes, MicFlags, MicControl, MicFill, Ahead
  <2> QED
    BY <2>1, <2>2, <2>3, <2>4, <2>5
<1>16. CASE Sampled(F, S, D, E)!Trigger
  <2> USE <1>16 DEF Sampled!Trigger
  <2>1. MicTypes(D)'
    BY DEF MicTypes
  <2>2. MicFlags'
    BY DEF MicFlags
  <2>3. MicControl'
    BY DEF MicTypes, MicControl
  <2>4. MicOrder'
    BY DEF MicOrder, Blocks, Filled
  <2>5. MicFill(F)'
    BY DEF MicFill, Ahead
  <2> QED
    BY <2>1, <2>2, <2>3, <2>4, <2>5
<1>17. CASE Sampled(F, S, D, E)!HostCloses
  <2> USE <1>17 DEF Sampled!HostCloses
  <2>1. MicTypes(D)'
    BY DEF MicTypes
  <2>2. MicFlags'
    BY DEF MicFlags
  <2>3. MicControl'
    BY DEF MicControl
  <2>4. MicOrder'
    BY DEF MicOrder, Blocks, Filled
  <2>5. MicFill(F)'
    BY DEF MicFill, Ahead
  <2> QED
    BY <2>1, <2>2, <2>3, <2>4, <2>5
<1>18. CASE Sampled(F, S, D, E)!HostOpens
  <2> USE <1>18 DEF Sampled!HostOpens
  <2>1. MicTypes(D)'
    BY DEF MicTypes
  <2>2. MicFlags'
    BY DEF MicFlags
  <2>3. MicControl'
    BY DEF MicControl
  <2>4. MicOrder'
    BY DEF MicOrder, Blocks, Filled
  <2>5. MicFill(F)'
    BY DEF MicFill, Ahead
  <2> QED
    BY <2>1, <2>2, <2>3, <2>4, <2>5
<1>19. CASE Sampled(F, S, D, E)!Errs
  <2> USE <1>19 DEF Sampled!Errs
  <2>1. MicTypes(D)'
    BY DEF MicTypes
  <2>2. MicFlags'
    BY DEF MicFlags
  <2>3. MicControl'
    BY DEF MicControl
  <2>4. MicOrder'
    BY DEF MicOrder, Blocks, Filled
  <2>5. MicFill(F)'
    BY DEF MicFill, Ahead
  <2> QED
    BY <2>1, <2>2, <2>3, <2>4, <2>5
<1>20. CASE Sampled(F, S, D, E)!HostStalls
  <2> USE <1>20 DEF Sampled!HostStalls
  <2>1. MicTypes(D)'
    BY DEF MicTypes
  <2>2. MicFlags'
    BY DEF MicFlags
  <2>3. MicControl'
    BY DEF MicControl
  <2>4. MicOrder'
    BY DEF MicOrder, Blocks, Filled
  <2>5. MicFill(F)'
    BY DEF MicFill
  <2> QED
    BY <2>1, <2>2, <2>3, <2>4, <2>5
<1>21. CASE Sampled(F, S, D, E)!Slips
  <2> USE <1>21 DEF Sampled!Slips
  <2>1. MicTypes(D)'
    BY DEF MicTypes, Sampled!Jitter
  <2>2. MicFlags'
    BY DEF MicFlags
  <2>3. MicControl'
    BY DEF MicControl
  <2>4. MicOrder'
    BY DEF MicOrder, Blocks, Filled
  <2>5. MicFill(F)'
    BY DEF MicTypes, MicFill, Ahead, Sampled!Jitter
  <2> QED
    BY <2>1, <2>2, <2>3, <2>4, <2>5
<1> QED
  BY <1>1, <1>2, <1>3, <1>4, <1>5, <1>6, <1>7, <1>8, <1>9, <1>10, <1>11, <1>12,
     <1>13, <1>14, <1>15, <1>16, <1>17, <1>18, <1>19, <1>20, <1>21 DEF Sampled!Next

\* The microphone of the composition is one of these.
LEMMA MicSampled ==
  /\ Microphones!Init => Sampled(MicFrame, MicSize, MicDrift, MicEvents)!Init
  /\ Microphones!Next => Sampled(MicFrame, MicSize, MicDrift, MicEvents)!Next
  /\ Sampled(MicFrame, MicSize, MicDrift, MicEvents)!BlockWhole
     /\ Sampled(MicFrame, MicSize, MicDrift, MicEvents)!Gapless =>
       Microphones!BlockWhole /\ Microphones!Gapless
<1>1. Microphones!Init => Sampled(MicFrame, MicSize, MicDrift, MicEvents)!Init
  BY DEF Microphones!Init, Sampled!Init
<1>2. Microphones!Next => Sampled(MicFrame, MicSize, MicDrift, MicEvents)!Next
  BY DEF Microphones!Next, Sampled!Next, Microphones!FillsHalf, Sampled!FillsHalf,
     Microphones!Quiets, Sampled!Quiets, Microphones!Enter, Sampled!Enter,
     Microphones!Verify, Sampled!Verify, Microphones!Publish, Sampled!Publish,
     Microphones!Packet, Sampled!Packet, Microphones!Begins, Sampled!Begins,
     Microphones!Deactivate, Sampled!Deactivate, Microphones!Disable, Sampled!Disable,
     Microphones!Stopped, Sampled!Stopped, Microphones!GivesUp, Sampled!GivesUp,
     Microphones!ClearRead, Sampled!ClearRead, Microphones!ClearWritten,
     Sampled!ClearWritten, Microphones!Reset, Sampled!Reset, Microphones!Activate,
     Sampled!Activate, Microphones!Trigger, Sampled!Trigger, Microphones!HostCloses,
     Sampled!HostCloses, Microphones!HostOpens, Sampled!HostOpens, Microphones!Errs,
     Sampled!Errs, Microphones!HostStalls, Sampled!HostStalls, Microphones!Slips,
     Sampled!Slips, Microphones!mainVars, Sampled!mainVars, Microphones!streamVars,
     Sampled!streamVars, Microphones!handlerVars, Sampled!handlerVars, Microphones!dmaVars,
     Sampled!dmaVars, Microphones!clockVars, Sampled!clockVars, Microphones!At, Sampled!At,
     Microphones!MainStep, Sampled!MainStep, Microphones!Disabled, Sampled!Disabled,
     Microphones!Leave, Sampled!Leave, Microphones!Event, Sampled!Event, Microphones!Least,
     Sampled!Least, Microphones!Jitter, Sampled!Jitter, Microphones!HandlerTime,
     Sampled!HandlerTime, Microphones!Given, Sampled!Given, Microphones!Count,
     Sampled!Count, Microphones!Primed, Sampled!Primed, Microphones!InOrder,
     Sampled!InOrder, Microphones!OtherBegun, Sampled!OtherBegun
<1>3. Sampled(MicFrame, MicSize, MicDrift, MicEvents)!BlockWhole
      /\ Sampled(MicFrame, MicSize, MicDrift, MicEvents)!Gapless =>
        Microphones!BlockWhole /\ Microphones!Gapless
  BY DEF Microphones!BlockWhole, Sampled!BlockWhole, Microphones!Gapless, Sampled!Gapless
<1> QED
  BY <1>1, <1>2, <1>3

\* So is that with the numbers of the code.
LEMMA MicNominal ==
  /\ Nominal!Init => Sampled(48, 1024, 48, 0)!Init
  /\ Nominal!Next => Sampled(48, 1024, 48, 0)!Next
  /\ Sampled(48, 1024, 48, 0)!BlockWhole /\ Sampled(48, 1024, 48, 0)!Gapless =>
       Nominal!BlockWhole /\ Nominal!Gapless
<1>1. Nominal!Init => Sampled(48, 1024, 48, 0)!Init
  BY DEF Nominal!Init, Sampled!Init
<1>2. Nominal!Next => Sampled(48, 1024, 48, 0)!Next
  BY DEF Nominal!Next, Sampled!Next, Nominal!FillsHalf, Sampled!FillsHalf, Nominal!Quiets,
     Sampled!Quiets, Nominal!Enter, Sampled!Enter, Nominal!Verify, Sampled!Verify,
     Nominal!Publish, Sampled!Publish, Nominal!Packet, Sampled!Packet, Nominal!Begins,
     Sampled!Begins, Nominal!Deactivate, Sampled!Deactivate, Nominal!Disable,
     Sampled!Disable, Nominal!Stopped, Sampled!Stopped, Nominal!GivesUp, Sampled!GivesUp,
     Nominal!ClearRead, Sampled!ClearRead, Nominal!ClearWritten, Sampled!ClearWritten,
     Nominal!Reset, Sampled!Reset, Nominal!Activate, Sampled!Activate, Nominal!Trigger,
     Sampled!Trigger, Nominal!HostCloses, Sampled!HostCloses, Nominal!HostOpens,
     Sampled!HostOpens, Nominal!Errs, Sampled!Errs, Nominal!HostStalls, Sampled!HostStalls,
     Nominal!Slips, Sampled!Slips, Nominal!mainVars, Sampled!mainVars, Nominal!streamVars,
     Sampled!streamVars, Nominal!handlerVars, Sampled!handlerVars, Nominal!dmaVars,
     Sampled!dmaVars, Nominal!clockVars, Sampled!clockVars, Nominal!At, Sampled!At,
     Nominal!MainStep, Sampled!MainStep, Nominal!Disabled, Sampled!Disabled, Nominal!Leave,
     Sampled!Leave, Nominal!Event, Sampled!Event, Nominal!Least, Sampled!Least,
     Nominal!Jitter, Sampled!Jitter, Nominal!HandlerTime, Sampled!HandlerTime,
     Nominal!Given, Sampled!Given, Nominal!Count, Sampled!Count, Nominal!Primed,
     Sampled!Primed, Nominal!InOrder, Sampled!InOrder, Nominal!OtherBegun,
     Sampled!OtherBegun
<1>3. Sampled(48, 1024, 48, 0)!BlockWhole /\ Sampled(48, 1024, 48, 0)!Gapless =>
        Nominal!BlockWhole /\ Nominal!Gapless
  BY DEF Nominal!BlockWhole, Sampled!BlockWhole, Nominal!Gapless, Sampled!Gapless
<1> QED
  BY <1>1, <1>2, <1>3

\* The microphone keeps its state while another part runs.
LEMMA MicStutter ==
  ASSUME NEW F, NEW D, MicInv(F, D), UNCHANGED micOnly, UNCHANGED <<pc, active, configured>>
  PROVE  MicInv(F, D)'
<1> USE DEF MicInv, micOnly
<1>1. MicTypes(D)' /\ MicFlags' /\ MicControl'
  BY DEF MicTypes, MicFlags, MicControl
<1>2. MicOrder' /\ MicFill(F)'
  BY DEF MicOrder, MicFill, Blocks, Filled, Ahead
<1> QED
  BY <1>1, <1>2

-----------------------------------------------------------------------------
\* The audio clock.

\* The state of the sequencer, but for its flags.
ClockTypes ==
  /\ pc \in {"idle", "prepare", "oscillate", "reuse", "begin", "ready", "playing"}
            \cup Sequencer!Sequence
  /\ t \in Nat /\ now \in Nat \cup {-1} /\ phase \in Nat /\ age \in 0..12

\* MCLK does not come from the PLL while that is set up; the PLL has settled once it has
\* been waited for.
Unselected == {"xo", "waitXo", "pllDown", "pllUp", "waitPll", "divide", "select"}
Waited == {"divide", "select", "waitDiv", "verify"}

\* The PLL was powered up before the time that is called since.
UpBefore(since) == age = 12 \/ age >= t - 2 * since - 1

\* What the time that was read says of the PLL.
ClockAge ==
  /\ now # -1 => pc \in Sequencer!Sequence /\ 2 * now <= t
  /\ timing => pc = "waitPll"
  /\ pc \in Unselected => ~mclk
  /\ pc \in Waited => age = 12
  /\ pc \in Waited \cup {"waitPll"} => pll = "set"
  /\ pc = "waitPll" => /\ timing => UpBefore(phase)
                       /\ ~timing /\ now # -1 => UpBefore(now)
  /\ Sequencer!Settled

\* Registers are written in part only by the attempt that runs, or by the last, which is
\* not repeated.
ClockPart ==
  /\ partial /\ pc = "idle" => blocked
  /\ partial /\ pc # "idle" => wrote
  /\ partial => pc \notin {"prepare", "reuse", "ready", "playing"}

\* A clock of one's own is as it was set up.
ClockOwn ==
  /\ owned => /\ xoSet /\ xoReady /\ pll = "set" /\ ~dividing /\ mclk
              /\ pc = "playing" \/ nominal
              /\ pc \in {"idle", "prepare", "reuse", "ready", "playing"}
  /\ pc = "reuse" => owned

ClockInv == ClockTypes /\ ClockAge /\ ClockPart /\ ClockOwn

\* At the start there is no clock, and no attempt has been made.
LEMMA ClockInit == Sequencer!Init => ClockInv
  BY DEF Sequencer!Init, ClockInv, ClockTypes, ClockAge, ClockPart, ClockOwn, Sequencer!NotRead,
     Sequencer!Settled, Unselected, Waited

\* What the run checks follows: nothing but a clock that has settled is selected, none is set
\* up over a part of another, and one that is kept is as it was set up.
LEMMA ClockSafe == ClockInv => Sequencer!Settled /\ Sequencer!NotRetried /\ Sequencer!FoundAgain
  BY DEF ClockInv, ClockAge, ClockPart, ClockOwn, Sequencer!NotRetried, Sequencer!FoundAgain,
     Sequencer!Right

\* An attempt that failed is not repeated if it has written anything.
LEMMA ClockFails ==
  ASSUME ClockPart, pc # "idle", Sequencer!Fail, UNCHANGED partial
  PROVE  ClockPart'
<1>1. pc' = "idle" /\ partial' = partial
  BY DEF Sequencer!Fail
<1>2. partial => wrote
  BY DEF ClockPart
<1>3. wrote => blocked'
  BY Zenon DEF Sequencer!Fail
<1>4. partial' => partial
  BY <1>1, SMT
<1>5. partial' => blocked'
  BY <1>2, <1>3, <1>4, Zenon
<1> QED
  BY <1>1, <1>5 DEF ClockPart

\* Neither a step of the main loop nor one of the hardware, the tick and the diagnostics breaks
\* it.
LEMMA ClockStep ==
  ASSUME Sequencer!ClockAssumption, ClockInv, Sequencer!Next
  PROVE  ClockInv'
<1> USE DEF ClockTypes, Sequencer!callVars, Sequencer!timeVars, Sequencer!xoVars,
    Sequencer!pllVars, Sequencer!useVars, Sequencer!Sequence, Sequencer!NotRead,
    Sequencer!Settled, Unselected, Waited, UpBefore, Sequencer!Fail, Sequencer!Ready,
    Sequencer!Goes, Sequencer!Polls, Sequencer!Stays, Sequencer!Writes, Sequencer!Guard,
    Sequencer!Right, Sequencer!Since, Sequencer!Settle, Sequencer!SettleHalves,
    Sequencer!ClockAssumption
<1>1. CASE \/ Sequencer!Attempt \/ Sequencer!Unclocked \/ Sequencer!Prepare \/ Sequencer!Oscillates
           \/ Sequencer!NoOscillation \/ Sequencer!Reuse \/ Sequencer!Begin
  <2> USE DEF Sequencer!Attempt, Sequencer!Unclocked, Sequencer!Prepare, Sequencer!Oscillates,
           Sequencer!NoOscillation, Sequencer!Reuse, Sequencer!Begin
  <2>1. ClockTypes'
    BY <1>1 DEF ClockInv
  <2>2. ClockAge'
    BY <1>1 DEF ClockInv, ClockAge
  <2>3. ClockOwn'
    BY <1>1 DEF ClockInv, ClockOwn, ClockAge
  <2>4. ClockPart'
    <3> HIDE DEF Sequencer!Fail
    <3>1. CASE pc # "idle" /\ Sequencer!Fail /\ UNCHANGED partial
      BY <3>1, ClockFails DEF ClockInv
    <3>2. CASE ~(pc # "idle" /\ Sequencer!Fail /\ UNCHANGED partial)
      BY <1>1, <3>2 DEF ClockInv, ClockPart, ClockAge
    <3> QED
      BY <3>1, <3>2
  <2> QED
    BY <2>1, <2>2, <2>3, <2>4 DEF ClockInv
<1>2. CASE \/ Sequencer!ReadNow \/ Sequencer!Refused \/ Sequencer!Preflight
           \/ Sequencer!XoSetup \/ Sequencer!WaitXo \/ Sequencer!PllDown \/ Sequencer!PllUp
  <2> USE DEF Sequencer!ReadNow, Sequencer!Refused, Sequencer!Preflight,
           Sequencer!XoSetup, Sequencer!WaitXo, Sequencer!PllDown, Sequencer!PllUp
  <2>1. ClockTypes'
    BY <1>2 DEF ClockInv
  <2>2. ClockAge'
    BY <1>2 DEF ClockInv, ClockAge
  <2>3. ClockOwn'
    BY <1>2 DEF ClockInv, ClockOwn, ClockAge
  <2>4. ClockPart'
    <3> HIDE DEF Sequencer!Fail
    <3>1. CASE pc # "idle" /\ Sequencer!Fail /\ UNCHANGED partial
      BY <3>1, ClockFails DEF ClockInv
    <3>2. CASE ~(pc # "idle" /\ Sequencer!Fail /\ UNCHANGED partial)
      BY <1>2, <3>2 DEF ClockInv, ClockPart, ClockAge
    <3> QED
      BY <3>1, <3>2
  <2> QED
    BY <2>1, <2>2, <2>3, <2>4 DEF ClockInv
<1>3. CASE \/ Sequencer!WaitPll \/ Sequencer!Divide \/ Sequencer!Select
           \/ Sequencer!WaitDiv \/ Sequencer!Verify \/ Sequencer!PollsOut
  <2> USE DEF Sequencer!WaitPll, Sequencer!Divide, Sequencer!Select,
           Sequencer!WaitDiv, Sequencer!Verify, Sequencer!PollsOut
  <2>1. ClockTypes'
    BY <1>3 DEF ClockInv
  <2>2. ClockAge'
    BY <1>3 DEF ClockInv, ClockAge
  <2>3. ClockOwn'
    BY <1>3 DEF ClockInv, ClockOwn, ClockAge
  <2>4. ClockPart'
    <3> HIDE DEF Sequencer!Fail
    <3>1. CASE pc # "idle" /\ Sequencer!Fail /\ UNCHANGED partial
      BY <3>1, ClockFails DEF ClockInv
    <3>2. CASE ~(pc # "idle" /\ Sequencer!Fail /\ UNCHANGED partial)
      BY <1>3, <3>2 DEF ClockInv, ClockPart, ClockAge
    <3> QED
      BY <3>1, <3>2
  <2> QED
    BY <2>1, <2>2, <2>3, <2>4 DEF ClockInv
<1>4. CASE \/ Sequencer!CooledDown \/ Sequencer!Play \/ Sequencer!Teardown
           \/ Sequencer!Tick \/ Sequencer!Starts \/ Sequencer!Divides \/ Sequencer!Strays
  <2> USE DEF Sequencer!CooledDown, Sequencer!Play, Sequencer!Teardown,
           Sequencer!Tick, Sequencer!Starts, Sequencer!Divides, Sequencer!Strays
  <2>1. ClockTypes'
    BY <1>4 DEF ClockInv
  <2>2. ClockAge'
    BY <1>4 DEF ClockInv, ClockAge
  <2>3. ClockOwn'
    BY <1>4 DEF ClockInv, ClockOwn, ClockAge
  <2>4. ClockPart'
    BY <1>4 DEF ClockInv, ClockPart, ClockAge
  <2> QED
    BY <2>1, <2>2, <2>3, <2>4 DEF ClockInv
<1> QED
  BY <1>1, <1>2, <1>3, <1>4 DEF Sequencer!Next, Sequencer!Main

-----------------------------------------------------------------------------
\* The composition.

\* What holds of the part that runs.
DeviceInv == /\ part = "cancel" => CancelInv
             /\ part = "store" => StoreInv
             /\ part = "mcu" => GainInv /\ EnvInv(GainBytes)
             /\ part = "asks" => AskInv /\ EnvInv(AskedBytes)
             /\ part = "usb" => VolumeInv /\ StreamInv
             /\ part = "feedback" => Banks!IsoInv
             /\ part = "mic" => MicInv(MicFrame, MicDrift)
             /\ part = "rate" => MicInv(48, 48)
             /\ part = "clock" => ClockInv

\* Whichever part takes the steps.
LEMMA DeviceInit == Init => DeviceInv
<1>1. MicFrame \in Nat /\ MicSize \in Nat /\ MicDrift \in Nat /\ MicEvents \in Nat
  BY DeviceAssumption DEF Microphones!MicrophoneAssumption
<1>2. Microphones!Init => MicInv(MicFrame, MicDrift)
  BY <1>1, MicSampled, MicInit
<1>3. Nominal!Init => MicInv(48, 48)
  BY MicNominal, MicInit
<1> QED
  BY <1>2, <1>3, CancelInit, StoreInit, GainInit, AskInit, VolumeInit, BanksInit, EnvInit,
     StreamInit, ClockInit, DeviceAssumption DEF Init, DeviceInv

\* A step of the device is one of its parts, and leaves the choice of the part.
LEMMA PartStep ==
  ASSUME Next
  PROVE  /\ part' = part
         /\ part = "cancel" => Parking!Next
         /\ part = "store" => Pages!Next
         /\ part = "mcu" => GainLink!Next
         /\ part = "asks" => AskedLink!Next
         /\ part = "usb" => Function!Next
         /\ part = "feedback" => FeedbackBanks!Next
         /\ part = "mic" => Microphones!Next
         /\ part = "rate" => Nominal!Next
         /\ part = "clock" => Sequencer!Next
  BY DEF Next, Of, Feedback, Cancel, Store, Mcu, Asks, Usb, Mic, Rate, Clock

\* A step of the part, or none.
LEMMA DeviceStep == DeviceInv /\ [Next]_vars => DeviceInv'
<1>1. ASSUME DeviceInv, Next
      PROVE  DeviceInv'
  <2>1. GainBytes \in Nat \ {0} /\ AskedBytes \in Nat \ {0}
    BY DeviceAssumption DEF GainLink!Mcu2Assumption, AskedLink!Mcu2Assumption
  <2>2. /\ MicFrame \in Nat /\ MicSize \in Nat /\ MicDrift \in Nat /\ MicEvents \in Nat
        /\ MicFrame > 1 /\ MicSize >= 4 * MicFrame /\ MicDrift >= MicFrame
    BY DeviceAssumption DEF Microphones!MicrophoneAssumption
  <2>3. CASE part \in {"cancel", "store", "feedback", "clock"}
    BY <1>1, <2>3, PartStep, CancelStep, StoreStep, BanksStep, ClockStep, DeviceAssumption
       DEF DeviceInv
  <2>4. CASE part = "mcu"
    BY <1>1, <2>1, <2>4, PartStep, GainStep, EnvSteps, EnvKept, DeviceAssumption DEF DeviceInv
  <2>5. CASE part = "asks"
    BY <1>1, <2>1, <2>5, PartStep, AskStep, EnvSteps, EnvKept DEF DeviceInv
  <2>6. CASE part = "usb"
    BY <1>1, <2>6, PartStep, VolumeStep, StreamStep, DeviceAssumption DEF DeviceInv
  <2>7. CASE part = "mic"
    BY <1>1, <2>2, <2>7, PartStep, MicSampled, MicStep DEF DeviceInv
  <2>8. CASE part = "rate"
    BY <1>1, <2>8, PartStep, MicNominal, MicStep DEF DeviceInv
  <2>9. CASE part \notin {"cancel", "store", "feedback", "clock", "mcu", "asks", "usb", "mic",
                          "rate"}
    BY <1>1, <2>9, PartStep DEF DeviceInv
  <2> QED
    BY <2>3, <2>4, <2>5, <2>6, <2>7, <2>8, <2>9
<1>2. ASSUME DeviceInv, UNCHANGED vars
      PROVE  DeviceInv'
  <2> USE DEF vars, cancelOnly, storeOnly, mcuOnly, usbOnly, clockOnly
  <2>1. CancelInv => CancelInv'
    BY <1>2 DEF CancelInv, Parking!TypeOK, Parking!Quiet, Reading, Looked, Parking!Bank
  <2>2. StoreInv => StoreInv'
    <3>1. Kept => Kept'
      BY <1>2 DEF Kept, Pages!Pick
    <3>2. Saving => Saving'
      BY <1>2 DEF Saving
    <3>3. Prepared => Prepared'
      BY <1>2 DEF Prepared, Calls, Pages!Writing
    <3>4. Pages!SavedSurvives => Pages!SavedSurvives'
      BY <1>2 DEF Pages!SavedSurvives, Pages!Restored, Pages!Pick
    <3>5. StoreControl /\ StoreFlags => StoreControl' /\ StoreFlags'
      BY <1>2 DEF StoreControl, StoreFlags
    <3>6. StoreMeta /\ StoreSlots /\ StoreValues => StoreMeta' /\ StoreSlots' /\ StoreValues'
      BY <1>2 DEF StoreMeta, StoreSlots, StoreValues
    <3> QED
      BY <3>1, <3>2, <3>3, <3>4, <3>5, <3>6 DEF StoreInv
  <2>3. GainInv => GainInv'
    BY <1>2 DEF GainInv, LinkTypes, TxShape, GainLink!GainTold
  <2>4. AskInv => AskInv'
    BY <1>2 DEF AskInv, AskedLink!AnswerSince, AskedLink!Succeeded
  <2>5. VolumeInv => VolumeInv'
    <3>1. VolumeTypes /\ ReadBefore => VolumeTypes' /\ ReadBefore'
      BY <1>2 DEF VolumeTypes, ReadBefore
    <3>2. HandedOver => HandedOver'
      BY <1>2 DEF HandedOver, WillRead
    <3>3. Function!HostTold => Function!HostTold'
      BY <1>2 DEF Function!HostTold
    <3> QED
      BY <3>1, <3>2, <3>3 DEF VolumeInv
  <2>6. Banks!IsoInv => Banks!IsoInv'
    BY <1>2, BanksStutter
  <2>7. /\ EnvInv(GainBytes) => EnvInv(GainBytes)'
        /\ EnvInv(AskedBytes) => EnvInv(AskedBytes)'
    BY <1>2 DEF EnvInv
  <2>8. StreamInv => StreamInv'
    BY <1>2 DEF StreamInv, Function!StreamOwned
  <2>9. /\ MicInv(MicFrame, MicDrift) => MicInv(MicFrame, MicDrift)'
        /\ MicInv(48, 48) => MicInv(48, 48)'
    BY <1>2, MicStutter
  <2>10. ClockInv => ClockInv'
    <3>1. ClockTypes /\ ClockAge => ClockTypes' /\ ClockAge'
      BY <1>2 DEF ClockTypes, ClockAge, UpBefore, Sequencer!Settled
    <3>2. ClockPart /\ ClockOwn => ClockPart' /\ ClockOwn'
      BY <1>2 DEF ClockPart, ClockOwn
    <3> QED
      BY <3>1, <3>2 DEF ClockInv
  <2>11. DeviceInv /\ part' = part
    BY <1>2
  <2>12. CASE part \in {"mcu", "asks"}
    BY <2>3, <2>4, <2>7, <2>11, <2>12 DEF DeviceInv
  <2>13. CASE part = "mic"
    BY <2>9, <2>11, <2>13 DEF DeviceInv
  <2>14. CASE part = "rate"
    BY <2>9, <2>11, <2>14 DEF DeviceInv
  <2>15. CASE part \notin {"mcu", "asks", "mic", "rate"}
    BY <2>1, <2>2, <2>5, <2>6, <2>8, <2>10, <2>11, <2>15 DEF DeviceInv
  <2> QED
    BY <2>12, <2>13, <2>14, <2>15
<1> QED
  BY <1>1, <1>2

(* Whatever fails in the flash and whenever the power does, the equaliser   *)
(* that is restored was saved, or its writing was begun since; and nothing  *)
(* undoes the preparation of a recovery the host has committed to.          *)
THEOREM DeviceFlash == Spec => []FlashHolds
<1>1. Init => DeviceInv
  BY DeviceInit
<1>2. DeviceInv /\ [Next]_vars => DeviceInv'
  BY DeviceStep
<1>3. DeviceInv => FlashHolds
  BY DEF DeviceInv, FlashHolds, StoreInv, Prepared, Calls, Pages!CommitVerified
<1> QED
  BY <1>1, <1>2, <1>3, PTL DEF Spec

(* Once the host has committed to a recovery, nothing but the loader ends   *)
(* it: the reset and a power loss at any moment, also before the reset,     *)
(* find a page that calls for the loader, and the next start obeys it.      *)
THEOREM DeviceCalls == Spec => CallKept
<1>1. Init => DeviceInv
  BY DeviceInit
<1>2. DeviceInv /\ [Next]_vars => DeviceInv'
  BY DeviceStep
<1>3. DeviceInv /\ [Next]_vars => [part = "store" => Pages!CallHolds]_vars
  BY PartStep, CallStep DEF DeviceInv, StoreInv
<1> QED
  BY <1>1, <1>2, <1>3, PTL DEF Spec, CallKept

(* Seen from each endpoint, the cancellation only parks the bank in use,    *)
(* changes banks when that one is idle, and releases the endpoint with both *)
(* banks idle, though it decides by reads the hardware may overtake; and    *)
(* it takes back no request to park that was not served.                    *)
THEOREM DeviceParks == Spec => ParksAsSpecified
<1>1. Init => DeviceInv
  BY DeviceInit
<1>2. DeviceInv /\ [Next]_vars => DeviceInv'
  BY DeviceStep
<1>3. Init => (part = "cancel" => Parking!ParkInit)
  BY CancelInit DEF Init
<1>4. DeviceInv /\ [Next]_vars =>
        [part = "cancel" => Parking!ParkStep /\ Parking!KeepsSkip]_vars
  BY PartStep, CancelParks, ParkSteps DEF DeviceInv
<1> QED
  BY <1>1, <1>2, <1>3, <1>4, PTL DEF Spec, ParksAsSpecified

(* The status never shows a gain as sent that was asked for before the      *)
(* latest.  A query of the host succeeds only after a reply that came when  *)
(* an envelope of the query had been completed since it was taken; that     *)
(* this reply is to such an envelope holds if none was being sent or        *)
(* unanswered before, as replies carry no identifier.  And the host knows   *)
(* the volume, is being told or is to read it.                              *)
THEOREM DeviceTells == Spec => []ToldTruly
<1>1. Init => DeviceInv
  BY DeviceInit
<1>2. DeviceInv /\ [Next]_vars => DeviceInv'
  BY DeviceStep
<1>3. DeviceInv => ToldTruly
  BY DEF DeviceInv, ToldTruly, GainInv, AskInv, VolumeInv
<1> QED
  BY <1>1, <1>2, <1>3, PTL DEF Spec

(* An envelope is of one command, an armed feedback slot belongs to the     *)
(* hardware and to one bank, a stream has its endpoints and none of them    *)
(* still closing, the microphone's samples come whole and without a gap,    *)
(* whatever the size of its blocks and the drift, and the audio has no      *)
(* clock that has not settled or was set up over a part of another.         *)
THEOREM DeviceWhole == Spec => []Whole
<1>1. Init => DeviceInv
  BY DeviceInit
<1>2. DeviceInv /\ [Next]_vars => DeviceInv'
  BY DeviceStep
<1>3. DeviceInv => Whole
  <2>1. MicFrame \in Nat /\ MicSize \in Nat /\ MicDrift \in Nat /\ MicEvents \in Nat
    BY DeviceAssumption DEF Microphones!MicrophoneAssumption
  <2>2. MicInv(MicFrame, MicDrift) => Microphones!BlockWhole /\ Microphones!Gapless
    BY <2>1, MicSafe, MicSampled
  <2>3. MicInv(48, 48) => Nominal!BlockWhole /\ Nominal!Gapless
    BY MicSafe, MicNominal
  <2> QED
    BY <2>2, <2>3, EnvWhole, BanksSafe, ClockSafe DEF DeviceInv, Whole, StreamInv
<1> QED
  BY <1>1, <1>2, <1>3, PTL DEF Spec

(* A selection that was sent is observed only by a report that came after   *)
(* it, and the dial of the headset never sets the volume over a change made *)
(* since the gain's service read it.                                        *)
THEOREM DeviceNews == Spec => NotOnOldNews
<1>1. Init => DeviceInv
  BY DeviceInit
<1>2. DeviceInv /\ [Next]_vars => DeviceInv'
  BY DeviceStep
<1>3. DeviceInv /\ [Next]_vars =>
        [CASE part = "mcu" -> GainLink!ObservesNewer
           [] part = "usb" -> Function!YieldsToHost
           [] OTHER -> TRUE]_vars
  BY PartStep, GainStep, VolumeStep, DeviceAssumption DEF DeviceInv
<1> QED
  BY <1>1, <1>2, <1>3, PTL DEF Spec, NotOnOldNews

=============================================================================
