--------------------------- MODULE DspReadsProof ----------------------------
(***************************************************************************)
(* Proofs about the gain and the clients of UART3 that ask, directly about *)
(* the composition, for any numbers of bytes, lanes, levels, attempts,     *)
(* tokens and events: the transaction of the gain (GainTrial) as the gain  *)
(* service and the probe run it, the query and the battery, the pages of   *)
(* the meter, and the turns of the arbiter.                                *)
(***************************************************************************)
EXTENDS MCDspReads, Sequences, TLAPS

-----------------------------------------------------------------------------
\* The line of a gain transaction, for either client; L are its lanes' levels.

Ended == {"idle", "done", "failed", "canceled"}
Active == {"send", "drain", "wait", "gap", "hold"}
Settings == {2, 6}
Modes == {0, 4}
Reads47 == {1, 3, 5, 7}

Answers47 == [part : {"ack", "reply"}, code : {"43", "47"}]
Frames(L) == [part : {"ack", "reply"}, code : {"43", "47"}, ok : BOOLEAN, value : L]
Requests(L) == [code : {"43", "47"}, write : SUBSET L]

TrialTypes(L) ==
  /\ phase \in Ended \cup Active /\ step \in 0..7 /\ {acked, replied} \subseteq BOOLEAN
  /\ tries \in Nat /\ kind \in {"apply", "trial", "restore"}
  /\ original \in L /\ reduced \in L /\ observed \in L /\ dsp \in L /\ posted \subseteq L
  /\ writes \in Nat /\ met \in BOOLEAN /\ others \in Nat /\ raced \in BOOLEAN
  /\ sent \in 0..Bytes /\ wire \subseteq Requests(L) /\ owed \subseteq Answers47
  /\ rx \in Seq(Frames(L))

\* An answer to a read of the gain, owed or come.
Gain47 == [part |-> "reply", code |-> "47"]
IsGain(f) == f.part = "reply" /\ f.code = "47"
NoGain47 == Gain47 \notin owed /\ \A n \in 1..Len(rx) : ~IsGain(rx[n])
Clean == wire = {} /\ NoGain47

\* The gain is asked for once at a time, and nothing of an earlier question is left when the
\* next one is put.
LineInv ==
  /\ phase = "send" => sent < Bytes /\ ~replied
  /\ phase \in {"send", "gap", "hold"} => Clean
  /\ phase = "gap" /\ step \notin Settings => replied
  /\ phase = "hold" => step = 3
  /\ phase = "wait" => wire = {}
  /\ phase \in {"drain", "wait"} =>
       /\ step \notin Reads47 \/ replied \/ wire # {} => NoGain47
       /\ wire # {} => ~replied \/ step \notin Reads47
       /\ \A f \in wire : f.code = "47" /\ f.write = {} => step \in Reads47
       /\ Gain47 \in owed => \A n \in 1..Len(rx) : ~IsGain(rx[n])
       /\ \A m, n \in 1..Len(rx) : IsGain(rx[m]) /\ IsGain(rx[n]) => m = n

\* The write of step s has been handed over, as far as the phase tells.
Past(s) == step > s \/ (step = s /\ phase # "send")
Handed == /\ kind = "apply" => step <= 3 /\ phase # "hold"
          /\ kind = "restore" => step >= 4
          /\ writes <= (IF kind # "restore" /\ Past(2) THEN 1 ELSE 0) + (IF Past(6) THEN 1 ELSE 0)

-----------------------------------------------------------------------------
\* The gain service.

Levels == NativeClient!Levels

ServiceTypes ==
  /\ TrialTypes(Levels) /\ kind = "apply"
  /\ {host, desired, submitted, verified} \subseteq NativeClient!Wish
  /\ target \in [DOMAIN target -> 0..GainTop] /\ DOMAIN target \subseteq GainLane
  /\ {have, ready, fault, online, owned, ending} \subseteq BOOLEAN

\* Who owns the port, and what is left on it when nobody does.
Owned ==
  /\ owned => target = submitted
  /\ ending => owned
  /\ owned /\ ~ending => phase \in Active
  /\ ending => phase \in {"done", "failed"}
  /\ ~owned => phase \in Ended
  /\ phase \in {"idle", "done", "canceled"} => Clean
  /\ phase = "failed" /\ ~ending /\ ~fault => Clean

\* What was read is a gain the DSP has had.
Held ==
  /\ NativeClient!Meets(dsp, target) => met
  /\ phase \in {"drain", "wait"} =>
       \A n \in 1..Len(rx) : IsGain(rx[n]) /\ NativeClient!Meets(rx[n].value, target) => met
  /\ phase \in Active /\ replied /\ step \in Reads47 /\ NativeClient!Meets(observed, target) => met
  /\ step >= 2 => NativeClient!Meets(reduced, target)
  /\ phase = "done" => met

\* What was read is what the DSP has, unless someone got in between.
Unraced ==
  ~raced =>
    /\ phase \in {"drain", "wait"} /\ writes = 0 =>
         \A n \in 1..Len(rx) : IsGain(rx[n]) => rx[n].value = dsp
    /\ phase \in {"drain", "wait", "gap"} /\ step = 1 /\ replied => observed = dsp
    /\ phase = "send" /\ step = 2 => \A l \in GainLane \ DOMAIN target : reduced[l] = dsp[l]

ServiceInv == ServiceTypes /\ LineInv /\ Handed /\ Owned /\ Held /\ Unraced

-----------------------------------------------------------------------------
\* The probe.

ProbeLevels == ProbeClient!Levels

ProbeTypes ==
  /\ TrialTypes(ProbeLevels)
  /\ stage \in 0..2 /\ index \in 0..1 /\ gain_stage \in 0..3 /\ begun \in 0..1
  /\ {stable, vack, vreply, uart, allowed} \subseteq BOOLEAN
  /\ restore \subseteq ProbeLevels /\ \A f \in restore : f[First] > Drop

Probed ==
  /\ phase \in Active => gain_stage = 2 /\ uart
  /\ gain_stage = 2 => uart /\ begun = 1
  /\ stage = 1 => uart
  /\ gain_stage # 0 => stage = 2
  /\ token = {} => gain_stage = 0
  /\ gain_stage \in {0, 1} => begun = 0
  /\ gain_stage = 0 => phase = "idle"
  /\ begun = 0 => posted = {} /\ writes = 0 /\ \A f \in wire : f.write = {}
  /\ gain_stage = 0 /\ vphase = "complete" => Clean
  /\ gain_stage = 1 => Clean /\ phase = "idle"
  /\ kind = "apply" => phase \in Ended \ {"done"}

\* Nothing is written but what is to be, and what was read is what the DSP has or is told.
Alone ==
  /\ writes = 0 => posted = {} /\ \A f \in wire : f.write = {}
  /\ phase \in Active /\ ~Past(6) => posted \subseteq {reduced} /\
        \A f \in wire : f.write \subseteq {reduced}
  /\ phase \in Active /\ step >= 2 => reduced = ProbeClient!Lower(original)
  /\ phase \in Active /\ ~raced /\ ~Past(6) =>
       /\ phase \in {"drain", "wait"} =>
            \A n \in 1..Len(rx) : IsGain(rx[n]) =>
               rx[n].value = dsp \/ (writes > 0 /\ dsp = reduced)
       /\ step \in {1, 5} /\ replied => observed = dsp \/ (writes > 0 /\ dsp = reduced)
       /\ phase = "send" /\ step = 2 => original = dsp
       /\ phase = "send" /\ step = 6 => reduced = dsp

TrialInv == ProbeTypes /\ LineInv /\ Handed /\ Probed /\ Alone

-----------------------------------------------------------------------------
\* The clients that read.

Requested ==
  /\ query \in {"idle", "queued"} => asked = 0
  /\ who = "query" /\ phase = "send" => asked = 0
  /\ asked \in 0..1
  /\ phase = "send" => sent < Bytes
  /\ phase \in {"idle", "send", "drain", "wait"} /\ sent \in 0..Bytes

ReadInv == /\ Requested
           /\ percent \/ charge => conn # "off"
           /\ {percent, charge} \subseteq BOOLEAN
           /\ (who = "none") <=> (phase = "idle")
           /\ (query = "active") <=> (who = "query")

\* The published slot is whole, and the other is written from front to back.
Slots ==
  /\ cache \in [{0, 1} -> [first : Nat, last : Nat, generation : Nat]]
  /\ published \in {0, 1} /\ publishing \in 0..4
  /\ LET now == cache[published]
         spare == cache[1 - published]
     IN /\ now.first = now.generation /\ now.last = now.generation
        /\ publishing >= 2 => spare.first = now.generation + 1
        /\ publishing >= 3 => spare.last = now.generation + 1
        /\ publishing = 4 => spare.generation = now.generation + 1

MeterInv ==
  /\ ReadInv /\ Slots
  /\ who = "meter" => publishing = 0
  /\ pages \in [{1, 2} -> [generation : Nat, half : Nat]]
  /\ \A p \in {1, 2} : pages[p].half = pages[p].generation

-----------------------------------------------------------------------------
\* The turns.

Clients == {"battery", "headset", "query", "settings", "menu", "meter", "gain"}

TurnTypes ==
  /\ at \in {"idle", "samples", "bootstrap", "prime", "mode"} \cup Clients
  /\ active \subseteq Clients
  /\ port \in [open : BOOLEAN, tx : BOOLEAN, yielding : BOOLEAN, young : BOOLEAN]
  /\ gain \in [fault : BOOLEAN, ready : BOOLEAN, have : BOOLEAN, stale : BOOLEAN]
  /\ mode \in {"unset", "requested", "ready", "failed"}
  /\ peer \in [link : {"unknown", "up", "down"}, primed : BOOLEAN, blocked : BOOLEAN,
               ready : BOOLEAN, cancel : BOOLEAN, bulk : BOOLEAN, recovery : BOOLEAN,
                  reset : BOOLEAN]
  /\ sample \in [boundary : BOOLEAN, query : BOOLEAN, headset : BOOLEAN]
  /\ gate \in BOOLEAN /\ proved \in BOOLEAN

\* One client has the line, and who it may be when the mode is not set.
OneActive ==
  /\ \A c, d \in active : c = d
  /\ mode = "unset" => active \subseteq {"battery", "headset", "settings"}
  /\ mode \in {"requested", "failed"} => active \subseteq {"settings", "headset"}
  /\ at \in Clients => mode = "ready"
  /\ at = "mode" => mode # "ready"
  /\ at \in {"prime", "mode"} /\ mode = "unset" => "battery" \notin active
  /\ mode # "unset" \/ at \in {"prime", "mode"} \/ "settings" \in active =>
       ~(peer.link = "unknown" /\ port.young)
  /\ "headset" \in active => peer.link # "unknown"

\* A sample that was taken is good until somebody uses it.
Sampled ==
  /\ at \in {"bootstrap", "prime", "mode"} /\ sample.boundary => ~port.tx
  /\ at \in Clients /\ sample.boundary /\ port.tx => active # {}
  /\ sample.query \/ sample.headset => sample.boundary
  /\ sample.query => "gain" \notin active

\* A loudness that nobody polls keeps its bytes on the line.
Left ==
  /\ "headset" \notin active => ~peer.bulk /\ ~peer.cancel
  /\ "headset" \in active /\ ~peer.bulk /\ ~peer.cancel => peer.link = "up" /\ peer.primed
  /\ "headset" \in active /\ peer.reset /\ ~peer.bulk /\ ~peer.cancel => port.tx
  /\ at \in {"battery", "headset"} /\ "headset" \in active => ~peer.reset
  /\ "headset" \in active /\ mode # "ready" => peer.bulk \/ peer.cancel \/ port.tx
  /\ at \in {"mode"} \cup Clients /\ "headset" \in active => ~peer.bulk /\ ~peer.cancel

\* What the gate stands for.
Gated ==
  /\ gain.ready => proved \/ peer.reset
  /\ ~port.open => ~gain.ready /\ ~gate /\ active = {}
  /\ at # "idle" => port.open
  /\ at = "idle" /\ gate => gain.ready

TurnInv == TurnTypes /\ OneActive /\ Sampled /\ Left /\ Gated

-----------------------------------------------------------------------------
ReadsInv == /\ part \in {"gain", "probe", "reads", "meter", "turns"}
            /\ part = "gain" => ServiceInv
            /\ part = "probe" => TrialInv
            /\ part = "reads" => ReadInv
            /\ part = "meter" => MeterInv
            /\ part = "turns" => TurnInv

\* A request has a byte or more.
LEMMA SomeBytes == Bytes \in Nat \ {0}
  BY ReadsAssumption DEF NativeClient!NativeAssumption, NativeClient!TrialAssumption,
     NativeClient!ExchangeAssumption

-----------------------------------------------------------------------------
\* The clients that read.

LEMMA ReadInit == ReadClient!Init \/ MeterClient!Init => ReadInv
<1> SUFFICES ASSUME ReadClient!Init \/ MeterClient!Init
             PROVE  ReadInv
  OBVIOUS
<1>1. /\ who = "none" /\ phase = "idle" /\ query = "idle" /\ asked = 0 /\ sent = 0
      /\ percent = FALSE /\ charge = FALSE
  BY DEF ReadClient!Init, MeterClient!Init, ReadClient!LineInit, MeterClient!LineInit
<1>2. Requested
  BY <1>1, SomeBytes DEF Requested
<1>3. /\ percent \/ charge => conn # "off"
      /\ {percent, charge} \subseteq BOOLEAN
  BY <1>1, Zenon
<1>4. /\ (who = "none") <=> (phase = "idle")
      /\ (query = "active") <=> (who = "query")
  BY <1>1
<1> QED
  BY <1>2, <1>3, <1>4 DEF ReadInv

\* A query is handed over once, a battery shown is of a headset that may be there, and the
\* phases tell who has the line.
LEMMA ReadStep ==
  ASSUME ReadInv, ReadClient!Next \/ MeterClient!Next
  PROVE  ReadInv'
<1> USE SomeBytes DEF ReadInv, Requested
<1>1. CASE ReadClient!StartBattery \/ MeterClient!StartBattery
  BY <1>1
     DEF ReadClient!StartBattery, MeterClient!StartBattery, ReadClient!Begin,
         MeterClient!Begin, ReadClient!Boundary, MeterClient!Boundary,
         ReadClient!queryVars, MeterClient!queryVars, ReadClient!meterVars,
         MeterClient!meterVars
<1>2. CASE ReadClient!QueryRequest \/ MeterClient!QueryRequest
  BY <1>2
     DEF ReadClient!QueryRequest, MeterClient!QueryRequest, ReadClient!Fresh,
         MeterClient!Fresh, ReadClient!Event, MeterClient!Event, ReadClient!lineVars,
         MeterClient!lineVars, ReadClient!clientVars, MeterClient!clientVars,
         ReadClient!batteryVars, MeterClient!batteryVars, ReadClient!meterVars,
         MeterClient!meterVars
<1>3. CASE ReadClient!QueryExpires \/ MeterClient!QueryExpires
  BY <1>3
     DEF ReadClient!QueryExpires, MeterClient!QueryExpires, ReadClient!lineVars,
         MeterClient!lineVars, ReadClient!clientVars, MeterClient!clientVars,
         ReadClient!batteryVars, MeterClient!batteryVars, ReadClient!meterVars,
         MeterClient!meterVars
<1>4. CASE ReadClient!StartQuery \/ MeterClient!StartQuery
  BY <1>4
     DEF ReadClient!StartQuery, MeterClient!StartQuery, ReadClient!Begin,
         MeterClient!Begin, ReadClient!Boundary, MeterClient!Boundary,
         ReadClient!batteryVars, MeterClient!batteryVars, ReadClient!meterVars,
         MeterClient!meterVars
<1>5. CASE ReadClient!StartMeter \/ MeterClient!StartMeter
  BY <1>5
     DEF ReadClient!StartMeter, MeterClient!StartMeter, ReadClient!Begin,
         MeterClient!Begin, ReadClient!Boundary, MeterClient!Boundary,
         ReadClient!batteryVars, MeterClient!batteryVars, ReadClient!queryVars,
         MeterClient!queryVars, ReadClient!meterVars, MeterClient!meterVars
<1>6. CASE ReadClient!PollSend \/ MeterClient!PollSend
  BY <1>6
     DEF ReadClient!PollSend, MeterClient!PollSend, ReadClient!Push, MeterClient!Push,
         ReadClient!batteryVars, MeterClient!batteryVars, ReadClient!meterVars,
         MeterClient!meterVars
<1>7. CASE ReadClient!PollDrain \/ MeterClient!PollDrain
  BY <1>7
     DEF ReadClient!PollDrain, MeterClient!PollDrain, ReadClient!lineVars,
         MeterClient!lineVars, ReadClient!batteryVars, MeterClient!batteryVars,
         ReadClient!queryVars, MeterClient!queryVars, ReadClient!meterVars,
         MeterClient!meterVars
<1>8. CASE ReadClient!PollConclude \/ MeterClient!PollConclude
  BY <1>8
     DEF ReadClient!PollConclude, MeterClient!PollConclude, ReadClient!Finish,
         MeterClient!Finish, ReadClient!Release, MeterClient!Release, ReadClient!lineVars,
         MeterClient!lineVars, ReadClient!cacheVars, MeterClient!cacheVars
<1>9. CASE ReadClient!PollTimeout \/ MeterClient!PollTimeout
  BY <1>9
     DEF ReadClient!PollTimeout, MeterClient!PollTimeout, ReadClient!Finish,
         MeterClient!Finish, ReadClient!Release, MeterClient!Release, ReadClient!lineVars,
         MeterClient!lineVars, ReadClient!cacheVars, MeterClient!cacheVars
<1>10. CASE ReadClient!FirstByte \/ MeterClient!FirstByte
  BY <1>10
     DEF ReadClient!FirstByte, MeterClient!FirstByte, ReadClient!lineVars,
         MeterClient!lineVars, ReadClient!batteryVars, MeterClient!batteryVars,
         ReadClient!queryVars, MeterClient!queryVars, ReadClient!meterVars,
         MeterClient!meterVars
<1>11. CASE ReadClient!RestOfFrame \/ MeterClient!RestOfFrame
  BY <1>11
     DEF ReadClient!RestOfFrame, MeterClient!RestOfFrame, ReadClient!Link,
         MeterClient!Link, ReadClient!Value, MeterClient!Value,
         ReadClient!ConnectedOrUnknown, MeterClient!ConnectedOrUnknown,
         ReadClient!queryVars, MeterClient!queryVars, ReadClient!meterVars,
         MeterClient!meterVars
<1>12. CASE ReadClient!Expire \/ MeterClient!Expire
  BY <1>12
     DEF ReadClient!Expire, MeterClient!Expire, ReadClient!batteryVars,
         MeterClient!batteryVars, ReadClient!queryVars, MeterClient!queryVars,
         ReadClient!meterVars, MeterClient!meterVars
<1>13. CASE ReadClient!Yield \/ MeterClient!Yield
  BY <1>13
     DEF ReadClient!Yield, MeterClient!Yield, ReadClient!Unsent, MeterClient!Unsent,
         ReadClient!Release, MeterClient!Release, ReadClient!lineVars,
         MeterClient!lineVars, ReadClient!batteryVars, MeterClient!batteryVars,
         ReadClient!meterVars, MeterClient!meterVars
<1>14. CASE ReadClient!ClosePort \/ MeterClient!ClosePort
  <2>1. /\ who' = "none" /\ phase' = "idle" /\ sent' = 0 /\ asked' = asked
        /\ percent' = FALSE /\ charge' = FALSE
    BY <1>14
       DEF ReadClient!ClosePort, MeterClient!ClosePort, ReadClient!CloseUart,
           MeterClient!CloseUart, ReadClient!Release, MeterClient!Release, ReadClient!Reset,
           MeterClient!Reset, ReadClient!Cancelled, MeterClient!Cancelled,
           ReadClient!meterVars, MeterClient!meterVars
  <2>2. query' \in {"cancelled", "timeout", query} /\ query' # "active" /\ query' # "queued"
    BY <1>14
       DEF ReadClient!ClosePort, MeterClient!ClosePort, ReadClient!CloseUart,
           MeterClient!CloseUart, ReadClient!Release, MeterClient!Release, ReadClient!Reset,
           MeterClient!Reset, ReadClient!Cancelled, MeterClient!Cancelled,
           ReadClient!meterVars, MeterClient!meterVars
  <2>3. /\ percent' \/ charge' => conn' # "off"
        /\ {percent', charge'} \subseteq BOOLEAN
    BY <2>1, Zenon
  <2>4. /\ Requested'
        /\ (who' = "none") <=> (phase' = "idle")
        /\ (query' = "active") <=> (who' = "query")
    BY <2>1, <2>2
  <2> QED
    BY <2>3, <2>4
<1>15. CASE ReadClient!SendFails \/ MeterClient!SendFails
  <2>1. /\ who' = "none" /\ phase' = "idle" /\ sent' = 0 /\ asked' = asked
        /\ percent' = FALSE /\ charge' = FALSE
    BY <1>15
       DEF ReadClient!SendFails, MeterClient!SendFails, ReadClient!CloseUart,
           MeterClient!CloseUart, ReadClient!Release, MeterClient!Release, ReadClient!Reset,
           MeterClient!Reset, ReadClient!Cancelled, MeterClient!Cancelled,
           ReadClient!meterVars, MeterClient!meterVars
  <2>2. query' \in {"cancelled", "timeout", query} /\ query' # "active" /\ query' # "queued"
    BY <1>15
       DEF ReadClient!SendFails, MeterClient!SendFails, ReadClient!CloseUart,
           MeterClient!CloseUart, ReadClient!Release, MeterClient!Release, ReadClient!Reset,
           MeterClient!Reset, ReadClient!Cancelled, MeterClient!Cancelled,
           ReadClient!meterVars, MeterClient!meterVars
  <2>3. /\ percent' \/ charge' => conn' # "off"
        /\ {percent', charge'} \subseteq BOOLEAN
    BY <2>1, Zenon
  <2>4. /\ Requested'
        /\ (who' = "none") <=> (phase' = "idle")
        /\ (query' = "active") <=> (who' = "query")
    BY <2>1, <2>2
  <2> QED
    BY <2>3, <2>4
<1>16. CASE ReadClient!OpenPort \/ MeterClient!OpenPort
  BY <1>16
     DEF ReadClient!OpenPort, MeterClient!OpenPort, ReadClient!lineVars,
         MeterClient!lineVars, ReadClient!batteryVars, MeterClient!batteryVars,
         ReadClient!queryVars, MeterClient!queryVars, ReadClient!meterVars,
         MeterClient!meterVars
<1>17. CASE ReadClient!PublishStep \/ MeterClient!PublishStep
  BY <1>17
     DEF ReadClient!PublishStep, MeterClient!PublishStep, ReadClient!lineVars,
         MeterClient!lineVars, ReadClient!clientVars, MeterClient!clientVars,
         ReadClient!batteryVars, MeterClient!batteryVars, ReadClient!queryVars,
         MeterClient!queryVars
<1>18. CASE \E p \in {1, 2} : ReadClient!ReadPage(p) \/ MeterClient!ReadPage(p)
  BY <1>18
     DEF ReadClient!ReadPage, MeterClient!ReadPage, ReadClient!lineVars,
         MeterClient!lineVars, ReadClient!clientVars, MeterClient!clientVars,
         ReadClient!batteryVars, MeterClient!batteryVars, ReadClient!queryVars,
         MeterClient!queryVars
<1>19. CASE ReadClient!World \/ MeterClient!World
  BY <1>19
     DEF ReadClient!World, MeterClient!World, ReadClient!Hear, MeterClient!Hear,
         ReadClient!Leave, MeterClient!Leave, ReadClient!Reply, MeterClient!Reply,
         ReadClient!LoseReply, MeterClient!LoseReply, ReadClient!LinkChange,
         MeterClient!LinkChange, ReadClient!clientVars, MeterClient!clientVars,
         ReadClient!batteryVars, MeterClient!batteryVars, ReadClient!queryVars,
         MeterClient!queryVars, ReadClient!meterVars, MeterClient!meterVars
<1> QED
  BY <1>1, <1>2, <1>3, <1>4, <1>5, <1>6, <1>7, <1>8, <1>9, <1>10, <1>11, <1>12, <1>13, <1>14,
     <1>15, <1>16, <1>17, <1>18, <1>19
     DEF ReadClient!Next, MeterClient!Next, ReadClient!Poll, MeterClient!Poll

-----------------------------------------------------------------------------
\* The meter's pages.

SlotType == [first : Nat, last : Nat, generation : Nat]
Published == cache[published]
Unpublished == cache[1 - published]
Written(s) == cache' = [cache EXCEPT ![1 - published] = s]

\* The slots of the meter are empty at first, and whole (dsp_meter.c).
LEMMA MeterInit == MeterClient!Init => MeterInv
<1> SUFFICES ASSUME MeterClient!Init
             PROVE  MeterInv
  OBVIOUS
<1>1. /\ cache = [i \in {0, 1} |-> [first |-> 0, last |-> 0, generation |-> 0]]
      /\ published = 0 /\ publishing = 0 /\ who = "none"
      /\ pages = [p \in {1, 2} |-> [generation |-> 0, half |-> 0]]
  BY DEF MeterClient!Init, MeterClient!Empty
<1>2. Slots
  BY <1>1 DEF Slots
<1>3. /\ pages \in [{1, 2} -> [generation : Nat, half : Nat]]
      /\ \A p \in {1, 2} : pages[p].half = pages[p].generation
  BY <1>1
<1> QED
  BY <1>1, <1>2, <1>3, ReadInit DEF MeterInv

\* What a step of the meter does to its cache: nothing, a part of publish(), or the host
\* reads a page of the slot that is published.
LEMMA MeterSteps ==
  ASSUME MeterClient!Next
  PROVE  \/ /\ UNCHANGED <<cache, published, pages>>
            /\ \/ who' \in {who, "none"} /\ publishing' = publishing
               \/ who' = "none" /\ who = "meter" /\ publishing' = 1
               \/ who' = "meter" /\ publishing = 0 /\ publishing' = 0
         \/ MeterClient!PublishStep
         \/ \E p \in {1, 2} : MeterClient!ReadPage(p)
<1> USE DEF MeterClient!clientVars, MeterClient!batteryVars, MeterClient!queryVars,
            MeterClient!meterVars, MeterClient!cacheVars
<1>1. CASE MeterClient!StartBattery \/ MeterClient!StartQuery
  BY <1>1 DEF MeterClient!StartBattery, MeterClient!StartQuery, MeterClient!Begin
<1>2. CASE MeterClient!StartMeter
  BY <1>2 DEF MeterClient!StartMeter, MeterClient!Begin
<1>3. CASE MeterClient!QueryRequest \/ MeterClient!QueryExpires
  BY <1>3 DEF MeterClient!QueryRequest, MeterClient!QueryExpires
<1>4. CASE MeterClient!PollSend \/ MeterClient!PollDrain
  BY <1>4 DEF MeterClient!PollSend, MeterClient!PollDrain
<1>5. CASE MeterClient!PollConclude \/ MeterClient!PollTimeout
  BY <1>5 DEF MeterClient!PollConclude, MeterClient!PollTimeout, MeterClient!Finish,
     MeterClient!Release
<1>6. CASE MeterClient!FirstByte \/ MeterClient!RestOfFrame \/ MeterClient!Expire
  BY <1>6 DEF MeterClient!FirstByte, MeterClient!RestOfFrame, MeterClient!Expire
<1>7. CASE MeterClient!Yield
  BY <1>7 DEF MeterClient!Yield, MeterClient!Release
<1>8. CASE MeterClient!ClosePort \/ MeterClient!SendFails
  BY <1>8 DEF MeterClient!ClosePort, MeterClient!SendFails, MeterClient!CloseUart,
     MeterClient!Release
<1>9. CASE MeterClient!OpenPort \/ MeterClient!World
  BY <1>9 DEF MeterClient!OpenPort, MeterClient!World, MeterClient!Hear, MeterClient!Reply,
     MeterClient!LoseReply, MeterClient!LinkChange
<1> QED
  BY <1>1, <1>2, <1>3, <1>4, <1>5, <1>6, <1>7, <1>8, <1>9 DEF MeterClient!Next, MeterClient!Poll

\* The slot that is published stays whole while the other is written, so the pages the host
\* reads are of one reply if they carry one generation.
LEMMA MeterStep ==
  ASSUME MeterInv, MeterClient!Next
  PROVE  MeterInv'
<1>1. ReadInv'
  BY ReadStep DEF MeterInv
<1>2. CASE UNCHANGED <<cache, published, pages>> /\ (publishing' = publishing \/
              publishing' \in 0..1)
           /\ (who' = "meter" => publishing' = 0)
  <2>1. Slots'
    <3>1. CASE publishing' = publishing
      BY <1>2, <3>1 DEF MeterInv, Slots
    <3>2. CASE publishing' \in 0..1
      BY <1>2, <3>2 DEF MeterInv, Slots
    <3> QED
      BY <1>2, <3>1, <3>2
  <2> QED
    BY <1>1, <1>2, <2>1 DEF MeterInv
<1>3. CASE MeterClient!PublishStep
  <2> DEFINE n == Published.generation + 1
  <2>1. /\ Published \in SlotType /\ Unpublished \in SlotType /\ 1 - published \in {0, 1}
        /\ 1 - (1 - published) = published /\ 1 - published # published
        /\ n \in Nat
    BY DEF MeterInv, Slots, Published, Unpublished, SlotType
  <2>2. publishing \in 1..4 /\ publishing' = (publishing + 1) % 5 /\ UNCHANGED <<who, pages>>
    BY <1>3 DEF MeterClient!PublishStep, MeterClient!clientVars
  <2>3. who # "meter"
    BY <2>2 DEF MeterInv
  <2>4. Slots'
    <3>1. ASSUME NEW s \in SlotType, publishing \in 1..3, UNCHANGED published,
                 Written(s),
                 s.first = n,
                 publishing >= 2 => s.last = n,
                 publishing = 3 => s.generation = n
          PROVE  Slots'
      <4>1. publishing' = publishing + 1
        BY <2>2, <3>1
      <4>3. cache'[published] = Published /\ cache'[1 - published] = s
        BY <2>1, <3>1 DEF MeterInv, Slots, Published, Written
      <4>4. cache' \in [{0, 1} -> SlotType]
        BY <2>1, <3>1 DEF MeterInv, Slots, SlotType, Written
      <4> QED
        BY <3>1, <4>1, <4>3, <4>4 DEF MeterInv, Slots, Published, SlotType
    <3>2. CASE publishing = 4 /\ published' = 1 - published /\ UNCHANGED cache
      <4>1. publishing' = 0
        BY <2>2, <3>2
      <4>2. cache[published'].first = n /\ cache[published'].last = n
            /\ cache[published'].generation = n
        BY <3>2 DEF MeterInv, Slots, Published
      <4> QED
        BY <2>1, <3>2, <4>1, <4>2 DEF MeterInv, Slots
    <3>3. publishing = 1 \/ publishing = 2 \/ publishing = 3 \/ publishing = 4
      BY <2>2
    <3>4. Unpublished = [first |-> Unpublished.first, last |-> Unpublished.last,
                         generation |-> Unpublished.generation]
      BY <2>1 DEF SlotType
    <3>5. cache \in [{0, 1} -> SlotType]
      BY DEF MeterInv, Slots, SlotType
    <3>6. CASE publishing = 1
      <4>1. cache' = [cache EXCEPT ![1 - published].first = n] /\ UNCHANGED published
        BY <1>3, <3>6 DEF MeterClient!PublishStep, MeterClient!Spare, Published
      <4> DEFINE s == [Unpublished EXCEPT !.first = n]
      <4>2. Written(s)
        BY <2>1, <3>5, <4>1 DEF Unpublished, Written
      <4>3. s \in SlotType /\ s.first = n
        BY <2>1, <3>4 DEF SlotType
      <4> HIDE DEF s
      <4> QED
        BY <3>1, <3>6, <4>1, <4>2, <4>3
    <3>7. CASE publishing = 2
      <4>1. cache' = [cache EXCEPT ![1 - published].last = n] /\ UNCHANGED published
        BY <1>3, <3>7 DEF MeterClient!PublishStep, MeterClient!Spare, Published
      <4> DEFINE s == [Unpublished EXCEPT !.last = n]
      <4>2. Written(s)
        BY <2>1, <3>5, <4>1 DEF Unpublished, Written
      <4>3. s \in SlotType /\ s.first = Unpublished.first /\ s.last = n
        BY <2>1, <3>4 DEF SlotType
      <4>4. Unpublished.first = n
        BY <3>7 DEF MeterInv, Slots, Published, Unpublished
      <4> HIDE DEF s
      <4> QED
        BY <3>1, <3>7, <4>1, <4>2, <4>3, <4>4
    <3>8. CASE publishing = 3
      <4>1. cache' = [cache EXCEPT ![1 - published].generation = n] /\ UNCHANGED published
        BY <1>3, <3>8 DEF MeterClient!PublishStep, MeterClient!Spare, Published
      <4> DEFINE s == [Unpublished EXCEPT !.generation = n]
      <4>2. Written(s)
        BY <2>1, <3>5, <4>1 DEF Unpublished, Written
      <4>3. s \in SlotType /\ s.first = Unpublished.first /\ s.last = Unpublished.last
            /\ s.generation = n
        BY <2>1, <3>4 DEF SlotType
      <4>4. Unpublished.first = n /\ Unpublished.last = n
        BY <3>8 DEF MeterInv, Slots, Published, Unpublished
      <4> HIDE DEF s
      <4> QED
        BY <3>1, <3>8, <4>1, <4>2, <4>3, <4>4
    <3>9. CASE publishing = 4
      BY <1>3, <3>2, <3>9 DEF MeterClient!PublishStep
    <3> QED
      BY <3>3, <3>6, <3>7, <3>8, <3>9
  <2> QED
    BY <1>1, <2>2, <2>3, <2>4 DEF MeterInv
<1>4. ASSUME NEW p \in {1, 2}, MeterClient!ReadPage(p)
      PROVE  MeterInv'
  <2>1. /\ pages' = [pages EXCEPT ![p] =
             [generation |-> Published.generation,
              half |-> IF p = 1 THEN Published.first ELSE Published.last]]
        /\ UNCHANGED <<cache, published, publishing, who>>
    BY <1>4 DEF MeterClient!ReadPage, MeterClient!clientVars, Published
  <2>2. Published \in SlotType /\ Published.first = Published.generation
        /\ Published.last = Published.generation
    BY DEF MeterInv, Slots, Published, SlotType
  <2>3. pages' = [pages EXCEPT ![p] = [generation |-> Published.generation,
                                       half |-> Published.generation]]
    BY <2>1, <2>2
  <2>4. /\ pages' \in [{1, 2} -> [generation : Nat, half : Nat]]
        /\ \A q \in {1, 2} : pages'[q].half = pages'[q].generation
    BY <2>2, <2>3 DEF MeterInv, SlotType
  <2>5. Slots'
    BY <2>1 DEF MeterInv, Slots
  <2> QED
    BY <1>1, <2>1, <2>4, <2>5 DEF MeterInv
<1> QED
  BY MeterSteps, <1>2, <1>3, <1>4 DEF MeterInv

-----------------------------------------------------------------------------
\* The line of a gain transaction.

\* What is read, and what comes, moves the frames of the ring.
LEMMA Moved ==
  ASSUME NEW S, rx \in Seq(S)
  PROVE  /\ \A x \in S : LET s == Append(rx, x)
                         IN /\ s \in Seq(S) /\ Len(s) = Len(rx) + 1 /\ s[Len(rx) + 1] = x
                            /\ \A n \in 1..Len(rx) : s[n] = rx[n]
         /\ rx # <<>> => LET s == Tail(rx)
                         IN /\ s \in Seq(S) /\ Len(s) = Len(rx) - 1 /\ Len(rx) >= 1
                            /\ Head(rx) = rx[1]
                            /\ \A n \in 1..Len(s) : s[n] = rx[n + 1]
  OBVIOUS

\* Reading a frame leaves no gain that was not there, and not the one it reads.
LEMMA ReadFrame ==
  ASSUME NEW L, rx \in Seq(Frames(L)), rx # <<>>, rx' = Tail(rx)
  PROVE  /\ rx' \in Seq(Frames(L)) /\ rx[1] = Head(rx) /\ rx[1] \in Frames(L)
         /\ Len(rx) \in Nat /\ Len(rx) >= 1 /\ Len(rx') = Len(rx) - 1
         /\ \A n \in 1..Len(rx') : rx'[n] = rx[n + 1] /\ n + 1 \in 1..Len(rx)
<1>1. /\ rx' \in Seq(Frames(L)) /\ Len(rx') = Len(rx) - 1 /\ Len(rx) >= 1
      /\ Head(rx) = rx[1] /\ \A n \in 1..Len(rx') : rx'[n] = rx[n + 1]
  BY Moved
<1>2. Len(rx) \in Nat
  OBVIOUS
<1> QED
  BY <1>1, <1>2

\* A poll asks for the gain once, and goes on when nothing of the answers is left.
LEMMA LinePolls ==
  ASSUME NEW L, TrialTypes(L), LineInv, reduced' \in L,
         \/ NativeClient!Poll \/ ProbeClient!Poll
         \/ NativeClient!PollFails \/ ProbeClient!PollFails
  PROVE  TrialTypes(L)' /\ LineInv'
<1> USE SomeBytes DEF Settings, Reads47, Ended, Active
<1> USE DEF NativeClient!Setting, ProbeClient!Setting, NativeClient!ModeRead,
ProbeClient!ModeRead,
          NativeClient!Code, ProbeClient!Code
<1>1. CASE NativeClient!PollSend \/ ProbeClient!PollSend
  <2> USE DEF NativeClient!PollSend, ProbeClient!PollSend, NativeClient!Push, ProbeClient!Push,
          NativeClient!Request, ProbeClient!Request, NativeClient!Value, ProbeClient!Value,
          NativeClient!dspVars, ProbeClient!dspVars,
          NativeClient!peerVars, ProbeClient!peerVars
  <2>3. NativeClient!Request \in Requests(L) /\ ProbeClient!Request \in Requests(L)
    BY DEF TrialTypes, Requests
  <2>7. PICK n \in 0..(Bytes - sent), r \in {NativeClient!Request, ProbeClient!Request} :
          /\ sent' = sent + n
          /\ wire' = IF sent + n = Bytes THEN {r} ELSE wire
          /\ phase' = IF sent + n = Bytes THEN "drain" ELSE "send"
    BY <1>1
  <2>8. r \in Requests(L) /\ (r.code = "47" /\ r.write = {} => step \in Reads47)
    <3>1. step \in 0..7
      BY DEF TrialTypes
    <3>2. NativeClient!Request.code = "47" /\ NativeClient!Request.write = {} => step \in Reads47
      BY <3>1
    <3>3. ProbeClient!Request.code = "47" /\ ProbeClient!Request.write = {} => step \in Reads47
      BY <3>1
    <3> HIDE DEF NativeClient!Request, ProbeClient!Request, Reads47
    <3> QED
      BY <2>3, <3>2, <3>3
  <2> HIDE DEF NativeClient!Request, ProbeClient!Request
  <2>4. /\ sent' \in 0..Bytes /\ wire' \subseteq Requests(L) /\ phase' \in {"send", "drain"}
        /\ phase' = "send" => sent' < Bytes /\ UNCHANGED wire
        /\ phase' = "drain" => wire' = {r}
    BY <2>7, <2>8 DEF TrialTypes
  <2>5. phase = "send" /\ wire = {} /\ ~replied /\ NoGain47
    BY <1>1 DEF LineInv, Clean
  <2>6. /\ UNCHANGED <<step, acked, replied, tries, kind, original, reduced, observed, dsp, posted,
                       met, others, raced, owed, rx>>
        /\ writes' \in {writes, writes + 1}
    BY <1>1
  <2>1. TrialTypes(L)'
    BY <2>4, <2>6 DEF TrialTypes
  <2>2. LineInv'
    <3>1. NoGain47'
      BY <2>5, <2>6 DEF NoGain47, IsGain
    <3>2. ~replied'
      BY <2>5, <2>6
    <3>3. \A f \in wire' : f.code = "47" /\ f.write = {} => step' \in Reads47
      BY <2>4, <2>5, <2>6, <2>8
    <3> QED
      BY <2>4, <2>5, <2>6, <3>1, <3>2, <3>3 DEF LineInv, Clean, NoGain47
  <2> QED
    BY <2>1, <2>2
<1>2. CASE NativeClient!PollDrain \/ ProbeClient!PollDrain
  <2> USE DEF NativeClient!PollDrain, ProbeClient!PollDrain, NativeClient!Drained,
  ProbeClient!Drained,
          NativeClient!Settle, ProbeClient!Settle, NativeClient!Answered, ProbeClient!Answered,
          NativeClient!dspVars, ProbeClient!dspVars, NativeClient!lineVars, ProbeClient!lineVars
  <2>1. TrialTypes(L)'
    BY <1>2 DEF TrialTypes
  <2>2. LineInv'
    BY <1>2 DEF LineInv, Clean, NoGain47, TrialTypes
  <2> QED
    BY <2>1, <2>2
<1>3. CASE NativeClient!PollReceive \/ ProbeClient!PollReceive
  <2> USE DEF NativeClient!PollReceive, ProbeClient!PollReceive, NativeClient!Read,
  ProbeClient!Read,
          NativeClient!PollAck, ProbeClient!PollAck, NativeClient!PollReply,
          ProbeClient!PollReply, NativeClient!Pending, ProbeClient!Pending, NativeClient!Accept,
          ProbeClient!Accept, NativeClient!Settle, ProbeClient!Settle, NativeClient!Answered,
          ProbeClient!Answered, NativeClient!Submitted, ProbeClient!Submitted,
          NativeClient!Frame, ProbeClient!Frame, NativeClient!Fail, ProbeClient!Fail,
          NativeClient!dspVars, ProbeClient!dspVars
  <2>0. rx # <<>> /\ rx' = Tail(rx)
    BY <1>3
  <2>1. /\ rx' \in Seq(Frames(L)) /\ rx[1] = Head(rx) /\ rx[1] \in Frames(L)
        /\ Len(rx) \in Nat /\ Len(rx) >= 1 /\ Len(rx') = Len(rx) - 1
        /\ \A n \in 1..Len(rx') : rx'[n] = rx[n + 1] /\ n + 1 \in 1..Len(rx)
    BY <2>0, ReadFrame DEF TrialTypes
  <2>2. TrialTypes(L)'
    BY <1>3, <2>1, ZenonT(40) DEF TrialTypes, Frames
  <2>3. LineInv'
    <3>1. UNCHANGED <<step, owed, wire, sent>> \/ phase' = "failed"
      BY <1>3 DEF TrialTypes
    <3>2. \/ phase' = "failed"
          \/ UNCHANGED <<phase, replied>>
          \/ /\ UNCHANGED replied
             /\ phase' = "gap" /\ phase = "wait" /\ (step \in Settings \/ replied)
          \/ /\ replied' /\ phase' \in {phase, "gap"} /\ (phase' = phase \/ phase = "wait")
             /\ phase \notin {"send", "hold"} /\ (step \in Reads47 => IsGain(rx[1]))
      BY <1>3, <2>1 DEF LineInv, IsGain, TrialTypes
    <3>3. phase \in Active
      BY <1>3 DEF NativeClient!Busy, ProbeClient!Busy
    <3>4. NoGain47 => NoGain47' \/ phase' = "failed"
      BY <2>1, <3>1 DEF NoGain47, IsGain
    <3>5. IsGain(rx[1]) /\ phase \in Active =>
            /\ phase \in {"drain", "wait"} /\ wire = {} /\ Gain47 \notin owed
            /\ \A n \in 1..Len(rx') : ~IsGain(rx'[n])
      BY <2>1 DEF LineInv, Clean, NoGain47, IsGain
    <3>6. CASE phase' = "failed"
      BY <3>6 DEF LineInv
    <3>7. CASE /\ UNCHANGED <<phase, replied, step, owed, wire, sent>>
               /\ phase \in Active
      <4>1. Clean => Clean'
        BY <3>4, <3>7 DEF Clean
      <4>2. \A n \in 1..Len(rx') : IsGain(rx'[n]) => n + 1 \in 1..Len(rx) /\ IsGain(rx[n + 1])
        BY <2>1 DEF IsGain
      <4>3. /\ phase' \in {"drain", "wait"} /\ Gain47 \in owed' =>
                  \A n \in 1..Len(rx') : ~IsGain(rx'[n])
            /\ phase' \in {"drain", "wait"}
                 => \A m, n \in 1..Len(rx') : IsGain(rx'[m]) /\ IsGain(rx'[n]) => m = n
        BY <2>1, <3>7, <4>2, SMTT(40) DEF LineInv
      <4>5. /\ phase' \in {"drain", "wait"} /\ (step' \notin Reads47 \/ replied' \/ wire' # {}) =>
                  NoGain47'
            /\ phase' \in {"drain", "wait"} /\ wire' # {} => ~replied' \/ step' \notin Reads47
        BY <3>4, <3>7 DEF LineInv
      <4> QED
        BY <3>7, <4>1, <4>3, <4>5 DEF LineInv
    <3>8. CASE /\ UNCHANGED <<replied, step, owed, wire, sent>>
               /\ phase' = "gap" /\ phase = "wait" /\ (step \in Settings \/ replied)
      <4>1. Clean'
        BY <3>4, <3>8 DEF LineInv, Clean
      <4> QED
        BY <3>8, <4>1 DEF LineInv
    <3>9. CASE /\ UNCHANGED <<step, owed, wire, sent>> /\ phase \in Active
               /\ replied' /\ phase' \in {phase, "gap"} /\ (phase' = phase \/ phase = "wait")
               /\ phase \notin {"send", "hold"} /\ (step \in Reads47 => IsGain(rx[1]))
      <4>1. step \in Reads47 => NoGain47' /\ wire' = {}
        BY <3>5, <3>9 DEF NoGain47, IsGain
      <4>2. phase \in {"wait", "gap"} => wire = {}
        BY DEF LineInv, Clean
      <4>3. step \notin Reads47 => NoGain47'
        BY <3>4, <3>9 DEF LineInv, Clean
      <4> QED
        BY <3>9, <4>1, <4>2, <4>3 DEF LineInv, Clean, NoGain47
    <3> QED
      BY <3>1, <3>2, <3>3, <3>6, <3>7, <3>8, <3>9
  <2> QED
    BY <2>2, <2>3
<1>4. CASE NativeClient!PollAdvance \/ ProbeClient!PollAdvance
  <2> USE DEF NativeClient!PollAdvance, ProbeClient!PollAdvance, NativeClient!AdvanceRead,
          ProbeClient!AdvanceRead, NativeClient!AdvanceReadBack, ProbeClient!AdvanceReadBack,
          NativeClient!AdvanceCheck, ProbeClient!AdvanceCheck, NativeClient!AdvancePlain,
          ProbeClient!AdvancePlain, NativeClient!End, ProbeClient!End, NativeClient!NextStep,
          ProbeClient!NextStep, NativeClient!Prepare, ProbeClient!Prepare, NativeClient!dspVars,
          ProbeClient!dspVars, NativeClient!peerVars, ProbeClient!peerVars
  <2>3. {acked', replied'} \subseteq BOOLEAN
    BY <1>4, Zenon DEF TrialTypes
  <2>1. TrialTypes(L)'
    BY <1>4, <2>3 DEF TrialTypes
  <2>2. LineInv'
    BY <1>4 DEF LineInv, Clean, NoGain47, TrialTypes
  <2> QED
    BY <2>1, <2>2
<1>5. CASE NativeClient!PollHold \/ ProbeClient!PollHold
  <2> USE DEF NativeClient!PollHold, ProbeClient!PollHold, NativeClient!Prepare,
  ProbeClient!Prepare,
          NativeClient!dspVars, ProbeClient!dspVars, NativeClient!peerVars, ProbeClient!peerVars
  <2>3. {acked', replied'} \subseteq BOOLEAN
    BY <1>5, Zenon DEF TrialTypes
  <2>1. TrialTypes(L)'
    BY <1>5, <2>3 DEF TrialTypes
  <2>2. LineInv'
    BY <1>5 DEF LineInv, Clean, NoGain47, TrialTypes
  <2> QED
    BY <2>1, <2>2
<1>6. CASE NativeClient!PollFails \/ ProbeClient!PollFails
  <2> USE DEF NativeClient!PollFails, ProbeClient!PollFails, NativeClient!Fail, ProbeClient!Fail,
          NativeClient!dspVars, ProbeClient!dspVars, NativeClient!lineVars, ProbeClient!lineVars
  <2>1. TrialTypes(L)' /\ LineInv'
    BY <1>6 DEF TrialTypes, LineInv
  <2> QED
    BY <2>1
<1> QED
  BY <1>1, <1>2, <1>3, <1>4, <1>5, <1>6 DEF NativeClient!Poll, ProbeClient!Poll

\* What the DSP does leaves the transaction alone, and answers a question once.
LEMMA LineDsp ==
  ASSUME NEW L, TrialTypes(L), LineInv, dsp' \in L, NativeClient!Dsp \/ ProbeClient!Dsp
  PROVE  TrialTypes(L)' /\ LineInv'
<1> USE DEF NativeClient!trialVars, ProbeClient!trialVars, NativeClient!dspVars,
ProbeClient!dspVars,
          NativeClient!lineVars, ProbeClient!lineVars
<1>1. CASE NativeClient!Hear \/ ProbeClient!Hear
  <2>1. PICK f \in wire :
          /\ wire' = {} /\ posted' = posted \cup f.write
          /\ owed' = {[part |-> "ack", code |-> f.code]}
                     \cup (IF f.write = {} THEN {[part |-> "reply", code |-> f.code]} ELSE {})
          /\ UNCHANGED <<phase, step, acked, replied, tries, kind, original, reduced, observed,
                         dsp, met, others, raced, writes, sent, rx>>
    BY <1>1 DEF NativeClient!Hear, ProbeClient!Hear, NativeClient!Leave, ProbeClient!Leave,
          NativeClient!Answer, ProbeClient!Answer
  <2>2. f \in Requests(L)
    BY DEF TrialTypes
  <2>3. owed' \subseteq Answers47 /\ posted' \subseteq L
    BY <2>1, <2>2 DEF TrialTypes, Requests, Answers47
  <2>4. TrialTypes(L)'
    BY <2>1, <2>3 DEF TrialTypes
  <2>5. Gain47 \in owed' => f.code = "47" /\ f.write = {}
    BY <2>1, <2>2 DEF Gain47, Requests
  <2>6. LineInv'
    BY <2>1, <2>5 DEF LineInv, Clean, NoGain47
  <2> QED
    BY <2>4, <2>6
<1>2. CASE \E ok \in BOOLEAN : NativeClient!DspAnswer(ok) \/ ProbeClient!DspAnswer(ok)
  <2>1. PICK ok \in BOOLEAN, a \in owed :
          /\ owed' = owed \ {a}
          /\ rx' = Append(rx, [part |-> a.part, code |-> a.code, ok |-> ok, value |-> dsp])
          /\ UNCHANGED <<phase, step, acked, replied, tries, kind, original, reduced, observed,
                         dsp, posted, met, others, writes, sent, wire>>
          /\ raced' = (raced /\ ~(a.part = "reply" /\ a.code = "47"))
    BY <1>2 DEF NativeClient!DspAnswer, ProbeClient!DspAnswer, NativeClient!Give, ProbeClient!Give
  <2> DEFINE x == [part |-> a.part, code |-> a.code, ok |-> ok, value |-> dsp]
  <2>2. x \in Frames(L) /\ x.part = a.part /\ x.code = a.code /\ (IsGain(x) <=> a = Gain47)
    BY DEF TrialTypes, Frames, Answers47, IsGain, Gain47
  <2> HIDE DEF x
  <2>3. rx' = Append(rx, x)
    BY <2>1 DEF x
  <2>4. /\ rx' \in Seq(Frames(L)) /\ Len(rx) \in Nat /\ Len(rx') = Len(rx) + 1
        /\ rx'[Len(rx) + 1] = x /\ \A n \in 1..Len(rx) : rx'[n] = rx[n]
    BY <2>2, <2>3, Moved DEF TrialTypes
  <2>5. raced' \in BOOLEAN
    BY <2>1, Zenon DEF TrialTypes
  <2>6. TrialTypes(L)'
    BY <2>1, <2>4, <2>5 DEF TrialTypes
  <2>7. CASE a = Gain47
    <3>1. Gain47 \notin owed' /\ Gain47 \in owed
      BY <2>1, <2>7
    <3>2. IsGain(x) /\ \A n \in 1..Len(rx') : n \in 1..Len(rx) \/ n = Len(rx) + 1
      BY <2>2, <2>4, <2>7
    <3>3. (\A n \in 1..Len(rx) : ~IsGain(rx[n]))
            => \A m, n \in 1..Len(rx') : IsGain(rx'[m]) /\ IsGain(rx'[n]) => m = n
      BY <2>4, <3>2
    <3>4. ~NoGain47 /\ phase \notin {"send", "gap", "hold"}
      BY <3>1 DEF LineInv, Clean, NoGain47
    <3>5. phase \in {"drain", "wait"} =>
            /\ ~(step \notin Reads47 \/ replied \/ wire # {})
            /\ \A n \in 1..Len(rx) : ~IsGain(rx[n])
      BY <3>1, <3>4 DEF LineInv
    <3>6. UNCHANGED <<phase, step, replied, sent, wire>>
      BY <2>1
    <3>7. phase' \notin {"send", "gap", "hold"} /\ (phase' = "wait" => wire' = {})
          /\ (phase' \in {"drain", "wait"} => \A f \in wire' : f.code = "47" /\ f.write = {} =>
                step' \in Reads47)
      BY <3>4, <3>6 DEF LineInv
    <3>8. phase' \in {"drain", "wait"} => ~(step' \notin Reads47 \/ replied' \/ wire' # {})
      BY <3>5, <3>6
    <3>9. phase' \in {"drain", "wait"}
            => \A m, n \in 1..Len(rx') : IsGain(rx'[m]) /\ IsGain(rx'[n]) => m = n
      BY <3>3, <3>5, <3>6
    <3> QED
      BY <2>6, <3>1, <3>7, <3>8, <3>9 DEF LineInv, IsGain
  <2>8. CASE a # Gain47
    <3>1. ~IsGain(x) /\ \A n \in 1..Len(rx') : n \in 1..Len(rx) \/ n = Len(rx) + 1
      BY <2>2, <2>4, <2>8
    <3>2. \A n \in 1..Len(rx') : IsGain(rx'[n]) => n \in 1..Len(rx) /\ IsGain(rx[n])
      BY <2>4, <3>1
    <3>3. NoGain47 => NoGain47'
      BY <2>1, <3>2 DEF NoGain47
    <3>4. phase \in {"drain", "wait"} =>
            /\ Gain47 \in owed' => \A n \in 1..Len(rx') : ~IsGain(rx'[n])
            /\ \A m, n \in 1..Len(rx') : IsGain(rx'[m]) /\ IsGain(rx'[n]) => m = n
      BY <2>1, <3>2 DEF LineInv
    <3>5. Clean => Clean'
      BY <2>1, <3>3 DEF Clean
    <3>6. UNCHANGED <<phase, step, replied, sent, wire>>
      BY <2>1
    <3>7. /\ phase' = "send" => sent' < Bytes /\ ~replied'
          /\ phase' \in {"send", "gap", "hold"} => Clean'
          /\ phase' = "gap" /\ step' \notin Settings => replied'
          /\ phase' = "hold" => step' = 3
          /\ phase' = "wait" => wire' = {}
      BY <3>5, <3>6 DEF LineInv
    <3>8. phase' \in {"drain", "wait"} =>
            /\ step' \notin Reads47 \/ replied' \/ wire' # {} => NoGain47'
            /\ wire' # {} => ~replied' \/ step' \notin Reads47
            /\ \A f \in wire' : f.code = "47" /\ f.write = {} => step' \in Reads47
      BY <3>3, <3>6 DEF LineInv
    <3>9. phase' \in {"drain", "wait"} =>
            /\ Gain47 \in owed' => \A n \in 1..Len(rx') : ~IsGain(rx'[n])
            /\ \A m, n \in 1..Len(rx') : IsGain(rx'[m]) /\ IsGain(rx'[n]) => m = n
      BY <3>4, <3>6
    <3> QED
      BY <2>6, <3>7, <3>8, <3>9 DEF LineInv, IsGain
  <2> QED
    BY <2>6, <2>7, <2>8
<1>3. CASE NativeClient!DspLoses \/ ProbeClient!DspLoses
  <2>1. owed' \subseteq owed /\ UNCHANGED <<phase, step, acked, replied, tries, kind, original,
          reduced, observed, dsp, posted, met, others, raced, writes, sent, wire, rx>>
    BY <1>3 DEF NativeClient!DspLoses, ProbeClient!DspLoses, NativeClient!Lose, ProbeClient!Lose
  <2>2. TrialTypes(L)'
    BY <2>1 DEF TrialTypes
  <2>3. LineInv'
    BY <2>1 DEF LineInv, Clean, NoGain47
  <2> QED
    BY <2>2, <2>3
<1>4. CASE \/ NativeClient!DspApply \/ ProbeClient!DspApply
           \/ NativeClient!OtherWrites \/ ProbeClient!OtherWrites
  <2>1. /\ posted' \subseteq posted
        /\ UNCHANGED <<phase, step, acked, replied, tries, kind, original, reduced, observed,
                       writes, sent, wire, owed, rx>>
        /\ others' \in {others, others + 1}
    BY <1>4 DEF NativeClient!DspApply, ProbeClient!DspApply, NativeClient!OtherWrites,
          ProbeClient!OtherWrites
  <2>2. met' \in BOOLEAN /\ raced' \in BOOLEAN
    BY <1>4, Zenon DEF NativeClient!DspApply, ProbeClient!DspApply, NativeClient!OtherWrites,
          ProbeClient!OtherWrites
  <2>3. TrialTypes(L)'
    BY <2>1, <2>2 DEF TrialTypes
  <2>4. LineInv'
    BY <2>1 DEF LineInv, Clean, NoGain47
  <2> QED
    BY <2>3, <2>4
<1> QED
  BY <1>1, <1>2, <1>3, <1>4 DEF NativeClient!Dsp, ProbeClient!Dsp

\* A write is handed over once, or once each way.
LEMMA HandedPolls ==
  ASSUME NEW L, TrialTypes(L), LineInv, Handed,
         \/ NativeClient!Poll \/ ProbeClient!Poll
         \/ NativeClient!PollFails \/ ProbeClient!PollFails
  PROVE  Handed'
<1> USE SomeBytes DEF TrialTypes, Handed, Past, Ended, Active, NativeClient!Setting,
ProbeClient!Setting, NativeClient!ModeRead, ProbeClient!ModeRead,
          NativeClient!Code, ProbeClient!Code
<1>1. CASE NativeClient!PollSend \/ ProbeClient!PollSend
  BY <1>1 DEF LineInv, NativeClient!PollSend, ProbeClient!PollSend, NativeClient!Push,
     ProbeClient!Push
<1>2. CASE NativeClient!PollDrain \/ ProbeClient!PollDrain
  BY <1>2 DEF NativeClient!PollDrain, ProbeClient!PollDrain, NativeClient!Settle,
     ProbeClient!Settle,
          NativeClient!Answered, ProbeClient!Answered
<1>3. CASE NativeClient!PollReceive \/ ProbeClient!PollReceive
  <2>1. UNCHANGED <<kind, step, writes>> /\ (phase' = phase \/ phase' \in {"gap", "failed"})
    BY <1>3 DEF NativeClient!PollReceive, ProbeClient!PollReceive, NativeClient!Read,
       ProbeClient!Read,
          NativeClient!PollAck, ProbeClient!PollAck, NativeClient!PollReply,
          ProbeClient!PollReply, NativeClient!Pending, ProbeClient!Pending, NativeClient!Accept,
          ProbeClient!Accept, NativeClient!Settle, ProbeClient!Settle, NativeClient!Answered,
          ProbeClient!Answered, NativeClient!Submitted, ProbeClient!Submitted,
          NativeClient!Frame, ProbeClient!Frame, NativeClient!Fail, ProbeClient!Fail,
          NativeClient!dspVars, ProbeClient!dspVars
  <2> QED
    BY <2>1 DEF LineInv
<1>4. CASE NativeClient!PollAdvance \/ ProbeClient!PollAdvance
  BY <1>4 DEF NativeClient!PollAdvance, ProbeClient!PollAdvance, NativeClient!AdvanceRead,
          ProbeClient!AdvanceRead, NativeClient!AdvanceReadBack, ProbeClient!AdvanceReadBack,
          NativeClient!AdvanceCheck, ProbeClient!AdvanceCheck, NativeClient!AdvancePlain,
          ProbeClient!AdvancePlain, NativeClient!End, ProbeClient!End, NativeClient!NextStep,
          ProbeClient!NextStep, NativeClient!Prepare, ProbeClient!Prepare
<1>5. CASE NativeClient!PollHold \/ ProbeClient!PollHold
  BY <1>5 DEF LineInv, NativeClient!PollHold, ProbeClient!PollHold, NativeClient!Prepare,
     ProbeClient!Prepare
<1>6. CASE NativeClient!PollFails \/ ProbeClient!PollFails
  BY <1>6 DEF NativeClient!PollFails, ProbeClient!PollFails, NativeClient!Fail, ProbeClient!Fail
<1> QED
  BY <1>1, <1>2, <1>3, <1>4, <1>5, <1>6 DEF NativeClient!Poll, ProbeClient!Poll

\* What the DSP does, step by step.
LEMMA DspSteps ==
  ASSUME NEW L, TrialTypes(L), NativeClient!Dsp \/ ProbeClient!Dsp
  PROVE  /\ UNCHANGED <<phase, step, acked, replied, tries, kind, target, original, reduced,
                        observed, writes, sent>>
         /\ \/ /\ UNCHANGED <<dsp, met, raced, rx>> /\ wire # {} /\ wire' = {}
               /\ \E f \in wire : posted' = posted \cup f.write
            \/ /\ UNCHANGED <<dsp, met, posted, wire>>
               /\ \E x \in Frames(L) :
                    /\ rx' = Append(rx, x) /\ x.value = dsp /\ owed' \subseteq owed
                    /\ IsGain(x) => Gain47 \in owed
                    /\ ~IsGain(x) => raced' = raced
            \/ UNCHANGED <<dsp, met, posted, raced, wire, rx>> /\ owed' \subseteq owed
            \/ /\ UNCHANGED <<wire, owed, rx>> /\ dsp' \in posted /\ posted' = posted \ {dsp'}
               /\ (met' <=> met \/ NativeClient!Meets(dsp', target))
               /\ (raced' <=> raced \/ writes = 0)
            \/ /\ UNCHANGED <<wire, owed, rx, posted>>
               /\ (met' <=> met \/ NativeClient!Meets(dsp', target)) /\ raced'
<1> USE DEF NativeClient!trialVars, ProbeClient!trialVars, NativeClient!dspVars,
ProbeClient!dspVars,
          NativeClient!lineVars, ProbeClient!lineVars, NativeClient!Meets, ProbeClient!Meets
<1>1. CASE NativeClient!Hear \/ ProbeClient!Hear
  BY <1>1 DEF NativeClient!Hear, ProbeClient!Hear, NativeClient!Leave, ProbeClient!Leave,
          NativeClient!Answer, ProbeClient!Answer
<1>2. CASE \E ok \in BOOLEAN : NativeClient!DspAnswer(ok) \/ ProbeClient!DspAnswer(ok)
  <2>1. PICK ok \in BOOLEAN, a \in owed :
          /\ owed' = owed \ {a}
          /\ rx' = Append(rx, [part |-> a.part, code |-> a.code, ok |-> ok, value |-> dsp])
          /\ UNCHANGED <<phase, step, acked, replied, tries, kind, target, original, reduced,
                observed,
                         dsp, posted, met, others, writes, sent, wire>>
          /\ raced' = (raced /\ ~(a.part = "reply" /\ a.code = "47"))
    BY <1>2 DEF NativeClient!DspAnswer, ProbeClient!DspAnswer, NativeClient!Give, ProbeClient!Give
  <2> DEFINE x == [part |-> a.part, code |-> a.code, ok |-> ok, value |-> dsp]
  <2>2. x \in Frames(L) /\ x.value = dsp /\ (IsGain(x) <=> a = Gain47)
    BY DEF TrialTypes, Frames, Answers47, IsGain, Gain47
  <2>3. ~IsGain(x) => raced' = raced
    <3>1. IsGain(x) <=> (a.part = "reply" /\ a.code = "47")
      BY DEF IsGain
    <3>2. raced \in BOOLEAN
      BY DEF TrialTypes
    <3> QED
      BY <2>1, <3>1, <3>2, Zenon
  <2> HIDE DEF x
  <2>4. rx' = Append(rx, x)
    BY <2>1 DEF x
  <2> QED
    BY <2>1, <2>2, <2>3, <2>4
<1>3. CASE NativeClient!DspLoses \/ ProbeClient!DspLoses
  BY <1>3 DEF NativeClient!DspLoses, ProbeClient!DspLoses, NativeClient!Lose, ProbeClient!Lose
<1>4. CASE NativeClient!DspApply \/ ProbeClient!DspApply
  BY <1>4 DEF NativeClient!DspApply, ProbeClient!DspApply
<1>5. CASE NativeClient!OtherWrites \/ ProbeClient!OtherWrites
  BY <1>5 DEF NativeClient!OtherWrites, ProbeClient!OtherWrites
<1> QED
  BY <1>1, <1>2, <1>3, <1>4, <1>5 DEF NativeClient!Dsp, ProbeClient!Dsp

\* A line on which nothing of a question is left stays so until the next one is put.
LEMMA CleanDsp ==
  ASSUME NEW L, TrialTypes(L), Clean, NativeClient!Dsp \/ ProbeClient!Dsp
  PROVE  Clean'
<1>1. wire = {} /\ Gain47 \notin owed /\ \A n \in 1..Len(rx) : ~IsGain(rx[n])
  BY DEF Clean, NoGain47
<1>2. UNCHANGED wire /\ owed' \subseteq owed /\ (UNCHANGED rx \/
         \E x \in Frames(L) : rx' = Append(rx, x) /\ ~IsGain(x))
  <2>1. UNCHANGED <<wire, owed>> \/ owed' \subseteq owed
    BY <1>1, DspSteps
  <2> QED
    BY <1>1, <2>1, DspSteps
<1>3. CASE UNCHANGED rx
  BY <1>1, <1>2, <1>3 DEF Clean, NoGain47, IsGain
<1>4. ASSUME NEW x \in Frames(L), rx' = Append(rx, x), ~IsGain(x)
      PROVE  Clean'
  <2>1. /\ Len(rx) \in Nat /\ Len(rx') = Len(rx) + 1
        /\ rx'[Len(rx) + 1] = x /\ \A n \in 1..Len(rx) : rx'[n] = rx[n]
    BY <1>4, Moved DEF TrialTypes
  <2>2. \A n \in 1..Len(rx') : n \in 1..Len(rx) \/ n = Len(rx) + 1
    BY <2>1
  <2>3. \A n \in 1..Len(rx') : ~IsGain(rx'[n])
    BY <1>1, <1>4, <2>1, <2>2
  <2> QED
    BY <1>1, <1>2, <2>3 DEF Clean, NoGain47, IsGain
<1> QED
  BY <1>2, <1>3, <1>4

-----------------------------------------------------------------------------
\* The gain service.

LEMMA GainConstants ==
  /\ First \in GainLane /\ First \in Masked /\ Masked \subseteq GainLane
  /\ GainTop \in Nat /\ Drop \in 1..GainTop /\ MaxOthers \in Nat /\ Attempts \in Nat \ {0}
  BY ReadsAssumption DEF NativeClient!NativeAssumption, NativeClient!TrialAssumption

\* A wish is a target, and what is written for it meets it.
LEMMA WishMeets ==
  ASSUME NEW t, t \in [DOMAIN t -> 0..GainTop], DOMAIN t \subseteq GainLane, NEW f \in Levels
  PROVE  /\ NativeClient!With(f, t) \in Levels
         /\ NativeClient!Meets(NativeClient!With(f, t), t)
         /\ \A l \in GainLane \ DOMAIN t : NativeClient!With(f, t)[l] = f[l]
  BY DEF NativeClient!With, NativeClient!Meets, Levels, NativeClient!Levels, NativeClient!Level

\* The gain service has begun nothing at first (native_gain.c).
LEMMA ServiceInit == NativeClient!Init => ServiceInv
<1> SUFFICES ASSUME NativeClient!Init
             PROVE  ServiceInv
  OBVIOUS
<1> USE GainConstants, SomeBytes
<1>1. /\ phase = "idle" /\ step = 0 /\ acked = FALSE /\ replied = FALSE /\ tries = 0
      /\ kind = "apply" /\ posted = {} /\ writes = 0 /\ others = 0 /\ raced = FALSE
      /\ sent = 0 /\ wire = {} /\ owed = {} /\ rx = <<>>
      /\ target = [l \in {First} |-> GainTop] /\ dsp = [l \in GainLane |-> GainTop]
      /\ original = dsp /\ reduced = dsp /\ observed = dsp
      /\ host = [l \in Masked |-> 0] /\ desired = host /\ submitted = host /\ verified = host
      /\ have = FALSE /\ ready = FALSE /\ fault = FALSE /\ online = FALSE /\ owned = FALSE
      /\ ending = FALSE
  BY DEF NativeClient!Init, NativeClient!GainInit, NativeClient!LineInit
<1>2. met \in BOOLEAN /\ NativeClient!Meets(dsp, target) /\ met
  <2>1. NativeClient!Meets(dsp, target)
    BY <1>1 DEF NativeClient!Meets
  <2> QED
    BY <2>1, Zenon DEF NativeClient!Init, NativeClient!GainInit
<1>3. {acked, replied, raced} \subseteq BOOLEAN
  BY <1>1, Zenon
<1>4. dsp \in Levels
  BY <1>1 DEF Levels, NativeClient!Levels, NativeClient!Level
<1>5. TrialTypes(Levels)
  BY <1>1, <1>2, <1>3, <1>4 DEF TrialTypes, Ended
<1>6. {have, ready, fault, online, owned, ending} \subseteq BOOLEAN
  BY <1>1, Zenon
<1>7. host \in NativeClient!Wish /\ target \in [DOMAIN target -> 0..GainTop] /\
         DOMAIN target \subseteq GainLane
  BY <1>1 DEF NativeClient!Wish, NativeClient!Level
<1>8. ServiceTypes
  BY <1>1, <1>5, <1>6, <1>7 DEF ServiceTypes
<1>9. LineInv /\ Handed /\ Owned /\ Held /\ Unraced
  BY <1>1, <1>2 DEF LineInv, Handed, Owned, Held, Unraced, Past, Clean, NoGain47, Ended, Active
<1> QED
  BY <1>8, <1>9 DEF ServiceInv

\* Its polls of a transaction that goes on.
LEMMA ServicePolls ==
  ASSUME ServiceInv, NativeClient!PollBusy \/ NativeClient!PollTimeout
  PROVE  ServiceInv'
<1> DEFINE Goes == NativeClient!Poll \/ NativeClient!PollFails
<1>1. /\ Goes /\ ~ending /\ owned /\ desired' = host
      /\ UNCHANGED <<submitted, verified, have, ready, fault, online, owned, host, kind, target,
                     dsp, posted, met, others, raced>>
  BY DEF NativeClient!PollBusy, NativeClient!PollTimeout, NativeClient!Poll,
     NativeClient!PollFails, NativeClient!PollSend, NativeClient!PollDrain,
          NativeClient!PollReceive, NativeClient!PollAdvance, NativeClient!PollHold,
          NativeClient!dspVars
<1>2. /\ ending' \in BOOLEAN
      /\ phase' \in {"done", "failed"} => ending'
      /\ ending' => phase' \in {"done", "failed"}
  <2>1. CASE NativeClient!PollBusy
    <3>1. ending' = (phase' \in {"done", "failed"})
      BY <2>1 DEF NativeClient!PollBusy
    <3>2. ending' \in BOOLEAN
      BY <3>1
    <3>3. ending' <=> phase' \in {"done", "failed"}
      BY <3>1, Zenon
    <3> QED
      BY <3>2, <3>3
  <2>2. CASE NativeClient!PollTimeout
    <3>1. ending' = TRUE /\ phase' = "failed"
      BY <2>2 DEF NativeClient!PollTimeout, NativeClient!PollFails, NativeClient!Fail
    <3> QED
      BY <3>1, Zenon
  <2> QED
    BY <2>1, <2>2
<1>3. /\ phase' \in Active \cup {"done", "failed"}
      /\ phase' = "done" => phase = "gap" /\ UNCHANGED <<wire, owed, rx>>
  BY <1>1 DEF ServiceInv, ServiceTypes, Owned, TrialTypes, Active,
     NativeClient!Poll, NativeClient!PollFails, NativeClient!PollSend, NativeClient!PollDrain,
          NativeClient!PollHold, NativeClient!PollReceive, NativeClient!Read,
          NativeClient!PollAck, NativeClient!PollReply, NativeClient!Pending,
          NativeClient!Accept, NativeClient!Settle, NativeClient!Answered,
          NativeClient!Submitted, NativeClient!Frame, NativeClient!Fail, NativeClient!dspVars,
          NativeClient!PollAdvance, NativeClient!AdvanceRead, NativeClient!AdvanceReadBack,
          NativeClient!AdvanceCheck, NativeClient!AdvancePlain, NativeClient!End,
          NativeClient!NextStep, NativeClient!Prepare, NativeClient!dspVars,
          NativeClient!peerVars
<1>4. reduced' \in Levels
  <2>1. reduced' = reduced \/ (kind = "apply" /\
           reduced' = NativeClient!With(observed, target)) \/ kind = "trial"
    BY <1>1 DEF NativeClient!Poll, NativeClient!PollFails, NativeClient!PollSend,
       NativeClient!PollDrain,
          NativeClient!PollHold, NativeClient!PollReceive, NativeClient!Read,
          NativeClient!PollAck, NativeClient!PollReply, NativeClient!Pending,
          NativeClient!Accept, NativeClient!Settle, NativeClient!Answered,
          NativeClient!Submitted, NativeClient!Frame, NativeClient!Fail, NativeClient!dspVars,
          NativeClient!PollAdvance, NativeClient!AdvanceRead, NativeClient!AdvanceReadBack,
          NativeClient!AdvanceCheck, NativeClient!AdvancePlain, NativeClient!End,
          NativeClient!NextStep, NativeClient!Prepare, NativeClient!dspVars,
          NativeClient!peerVars
  <2> QED
    BY <2>1, WishMeets DEF ServiceInv, ServiceTypes, TrialTypes
<1>5. TrialTypes(Levels)' /\ LineInv' /\ Handed'
  <2>1. TrialTypes(Levels)' /\ LineInv'
    BY <1>1, <1>4, LinePolls DEF ServiceInv, ServiceTypes
  <2>2. Handed'
    BY <1>1, HandedPolls DEF ServiceInv, ServiceTypes
  <2> QED
    BY <2>1, <2>2
<1>6. ServiceTypes'
  BY <1>1, <1>2, <1>5 DEF ServiceInv, ServiceTypes
<1>7. Owned'
  <2>1. phase' = "done" => Clean'
    BY <1>3 DEF ServiceInv, LineInv, Clean, NoGain47, IsGain
  <2> QED
    BY <1>1, <1>2, <1>3, <2>1 DEF ServiceInv, Owned, Active, Ended
<1> DEFINE K == NativeClient!Meets(dsp, target)
<1>10. /\ step <= 3 /\ phase # "hold" /\ phase \in Active /\ kind = "apply"
       /\ step \in 0..7 /\ step' \in 0..7 /\ writes \in Nat /\ (~Past(2) => writes = 0)
  BY <1>1, <1>5, SMTT(40) DEF ServiceInv, ServiceTypes, Owned, Handed, TrialTypes, Past
<1>11. ASSUME NativeClient!PollSend \/ NativeClient!PollDrain
      PROVE  Held' /\ Unraced'
  <2>1. /\ UNCHANGED <<step, replied, reduced, original, observed, rx>>
        /\ phase \in {"send", "drain"} /\ phase' \in {"send", "drain", "wait", "gap"}
        /\ phase = "drain" => UNCHANGED writes /\ phase' \in {"wait", "gap"}
        /\ phase = "send" => phase' \in {"send", "drain"} /\ (phase' = "send" => UNCHANGED writes)
    BY <1>11 DEF NativeClient!PollSend, NativeClient!PollDrain, NativeClient!Push,
       NativeClient!Settle,
          NativeClient!Answered, NativeClient!dspVars, NativeClient!peerVars,
          NativeClient!lineVars
  <2>2. phase = "send" => NoGain47 /\ ~replied
    BY DEF ServiceInv, LineInv, Clean
  <2>3. Held'
    BY <1>1, <2>1, <2>2 DEF ServiceInv, Held, NoGain47, IsGain, Active, NativeClient!Meets
  <2>4. Unraced'
    BY <1>1, <1>10, <2>1, <2>2 DEF ServiceInv, Unraced, NoGain47, IsGain, Past
  <2> QED
    BY <2>3, <2>4
<1>12. ASSUME NativeClient!PollReceive
      PROVE  Held' /\ Unraced'
  <2>1. rx # <<>> /\ rx' = Tail(rx)
    BY <1>12 DEF NativeClient!PollReceive, NativeClient!Read
  <2>2. /\ rx[1] = Head(rx) /\ rx[1] \in Frames(Levels) /\ 1 \in 1..Len(rx)
        /\ \A n \in 1..Len(rx') : rx'[n] = rx[n + 1] /\ n + 1 \in 1..Len(rx)
    BY <2>1, ReadFrame DEF ServiceInv, ServiceTypes, TrialTypes
  <2>3. UNCHANGED <<step, reduced, original, writes>> /\ phase' \in {phase, "gap", "failed"}
        /\ (phase' = "gap" => phase \in {"gap", "wait"})
    BY <1>12 DEF NativeClient!PollReceive, NativeClient!Read, NativeClient!PollAck,
          NativeClient!PollReply, NativeClient!Pending, NativeClient!Accept,
          NativeClient!Settle, NativeClient!Answered, NativeClient!Submitted,
          NativeClient!Frame, NativeClient!Fail, NativeClient!dspVars
  <2> DEFINE Kept == replied' = replied /\ observed' = observed
             Came == IsGain(rx[1]) /\ observed' = rx[1].value
  <2>4. Kept \/ phase' = "failed" \/ step = 0 \/ (step \in {1, 3} /\ Came)
    <3>1. CASE NativeClient!PollAck
      BY <3>1 DEF NativeClient!PollAck, NativeClient!Accept, NativeClient!Fail
    <3>2. CASE /\ NativeClient!PollReply
               /\ ~(NativeClient!Pending /\ NativeClient!Frame.code = NativeClient!Code /\
                     ~NativeClient!Setting)
      BY <3>2 DEF NativeClient!PollReply
    <3>3. CASE /\ NativeClient!PollReply
               /\ NativeClient!Pending /\ NativeClient!Frame.code = NativeClient!Code /\
                     ~NativeClient!Setting
      <4>1. step \in {0, 1, 3} /\ phase \notin {"send", "hold"}
        BY <1>10, <3>3, SomeBytes DEF ServiceInv, LineInv, NativeClient!Pending, 
           NativeClient!Submitted, NativeClient!Setting
      <4>2. step # 0 => IsGain(rx[1])
        BY <2>2, <3>3, <4>1 DEF IsGain, NativeClient!PollReply, NativeClient!Frame,
           NativeClient!Code, NativeClient!ModeRead
      <4>3. phase' = "failed" \/ observed' = IF NativeClient!ModeRead THEN observed ELSE NativeClient!Frame.value
        BY <3>3 DEF NativeClient!PollReply, NativeClient!Fail
      <4>4. phase' = "failed" \/ (step = 0 /\ UNCHANGED observed) \/ (step # 0 /\
               observed' = rx[1].value)
        BY <2>2, <4>1, <4>3 DEF NativeClient!ModeRead, NativeClient!Frame
      <4> QED
        BY <4>1, <4>2, <4>4
    <3> QED
      BY <1>12, <3>1, <3>2, <3>3 DEF NativeClient!PollReceive
  <2>5. IsGain(rx[1]) => phase \in {"drain", "wait"}
    BY <1>10, <2>2 DEF ServiceInv, LineInv, Clean, NoGain47, Active, IsGain
  <2>6. Held'
    <3>1. phase' \in {"drain", "wait"} =>
             \A n \in 1..Len(rx') : IsGain(rx'[n]) /\ NativeClient!Meets(rx'[n].value, target) => met
      BY <2>2, <2>3 DEF ServiceInv, Held
    <3>2. phase' \in Active /\ replied' /\ step \in Reads47 /\
             NativeClient!Meets(observed', target) => met
      <4>1. CASE Kept
        BY <1>10, <2>3, <4>1 DEF ServiceInv, Held
      <4>2. CASE Came
        BY <2>2, <2>5, <4>2 DEF ServiceInv, Held
      <4> HIDE DEF Kept, Came
      <4> QED
        BY <2>4, <4>1, <4>2 DEF Reads47, Active
    <3> QED
      BY <1>1, <1>3, <2>3, <3>1, <3>2 DEF ServiceInv, Held, NativeClient!Meets, IsGain
  <2>7. Unraced'
    <3>1. ~raced /\ phase' \in {"drain", "wait"} /\ writes = 0 =>
             \A n \in 1..Len(rx') : IsGain(rx'[n]) => rx'[n].value = dsp
      BY <2>2, <2>3 DEF ServiceInv, Unraced
    <3>2. ~raced /\ phase' \in {"drain", "wait", "gap"} /\ step = 1 /\ replied' => observed' = dsp
      <4>1. CASE Kept
        <5>1. phase' \in {"drain", "wait", "gap"} => phase \in {"drain", "wait", "gap"}
          BY <2>3
        <5> QED
          BY <4>1, <5>1 DEF ServiceInv, Unraced
      <4>2. CASE step = 1 /\ Came
        <5>1. writes = 0
          BY <1>10, <4>2 DEF Past
        <5> QED
          BY <2>2, <2>5, <4>2, <5>1 DEF ServiceInv, Unraced
      <4> HIDE DEF Kept, Came
      <4> QED
        BY <2>4, <4>1, <4>2
    <3>3. ~raced /\ phase' = "send" /\ step = 2 =>
             \A l \in GainLane \ DOMAIN target : reduced[l] = dsp[l]
      BY <2>3 DEF ServiceInv, Unraced
    <3> QED
      BY <1>1, <2>3, <3>1, <3>2, <3>3 DEF Unraced, IsGain
  <2> QED
    BY <2>6, <2>7
<1>13. ASSUME NativeClient!PollAdvance
      PROVE  Held' /\ Unraced'
  <2>1. /\ phase = "gap" /\ UNCHANGED <<observed, rx, writes>>
        /\ phase' \in {"send", "done", "failed"}
        /\ phase' = "send" => ~replied'
    BY <1>10, <1>13 DEF NativeClient!PollAdvance, NativeClient!AdvanceRead,
       NativeClient!AdvanceReadBack,
          NativeClient!AdvanceCheck, NativeClient!AdvancePlain, NativeClient!End,
          NativeClient!NextStep, NativeClient!Prepare, NativeClient!dspVars,
          NativeClient!peerVars
  <2>2. /\ step # 1 => UNCHANGED reduced
        /\ step = 1 => reduced' = NativeClient!With(observed, target)
        /\ step' >= 2 => step >= 1
        /\ phase' = "send" /\ step' = 2 => step = 1
        /\ phase' = "done" => (step = 1 /\ reduced' = observed) \/ (step = 3 /\ reduced = observed)
        /\ phase' # "send" => step' = step
    BY <1>10, <1>13 DEF NativeClient!PollAdvance, NativeClient!AdvanceRead,
       NativeClient!AdvanceReadBack,
          NativeClient!AdvanceCheck, NativeClient!AdvancePlain, NativeClient!End,
          NativeClient!NextStep, NativeClient!Prepare, NativeClient!dspVars,
          NativeClient!peerVars
  <2>3. /\ \A l \in GainLane \ DOMAIN target : NativeClient!With(observed, target)[l] = observed[l]
        /\ NativeClient!Meets(NativeClient!With(observed, target), target)
    BY WishMeets DEF ServiceInv, ServiceTypes, TrialTypes
  <2>4. step \in {1, 3} => replied
    BY <2>1 DEF ServiceInv, LineInv, Settings
  <2>5. step >= 2 => NativeClient!Meets(reduced, target)
    BY DEF ServiceInv, Held
  <2>6. step' >= 2 => NativeClient!Meets(reduced', target)
    BY <1>10, <2>2, <2>3, <2>5
  <2>7. step \in {1, 3} /\ NativeClient!Meets(observed, target) => met
    BY <1>10, <2>4 DEF ServiceInv, Held, Reads47
  <2>8. phase' = "done" => met
    BY <2>2, <2>3, <2>5, <2>7
  <2>9. Held'
    BY <1>1, <2>1, <2>6, <2>8 DEF ServiceInv, Held, Active, NativeClient!Meets
  <2>10. ~raced /\ step = 1 => observed = dsp
    BY <2>1, <2>4 DEF ServiceInv, Unraced
  <2>11. Unraced'
    BY <1>1, <2>1, <2>2, <2>3, <2>10 DEF Unraced
  <2> QED
    BY <2>9, <2>11
<1>14. ASSUME NativeClient!PollFails
      PROVE  Held' /\ Unraced'
  <2>1. phase' = "failed" /\ UNCHANGED <<step, replied, reduced, original, observed, rx, writes>>
    BY <1>14 DEF NativeClient!PollFails, NativeClient!Fail, NativeClient!lineVars
  <2>2. Held' /\ Unraced'
    BY <1>1, <2>1 DEF ServiceInv, Held, Unraced, Active, NativeClient!Meets
  <2> QED
    BY <2>2
<1>15. Held' /\ Unraced'
  <2>1. ~NativeClient!PollHold
    BY <1>10 DEF NativeClient!PollHold
  <2> QED
    BY <1>1, <1>11, <1>12, <1>13, <1>14, <2>1 DEF NativeClient!Poll
<1> QED
  BY <1>5, <1>6, <1>7, <1>15 DEF ServiceInv

\* What the DSP and another writer do to it.
LEMMA ServiceWorld ==
  ASSUME ServiceInv, NativeClient!World
  PROVE  ServiceInv'
<1>1. NativeClient!Dsp /\ UNCHANGED <<desired, submitted, verified, have, ready, fault, online,
         owned,
                                      ending, host>>
  BY DEF NativeClient!World, NativeClient!nativeVars
<1> DEFINE Meets(g) == NativeClient!Meets(g, target)
<1>2. UNCHANGED <<phase, step, acked, replied, tries, kind, target, original, reduced, observed,
                  writes, sent>>
  BY <1>1, DspSteps DEF ServiceInv, ServiceTypes
<1>3. dsp' \in Levels
  BY <1>1 DEF ServiceInv, ServiceTypes, TrialTypes, Levels, NativeClient!Levels,
     NativeClient!Level, NativeClient!Dsp, NativeClient!Hear,
          NativeClient!DspAnswer, NativeClient!DspLoses, NativeClient!DspApply,
          NativeClient!OtherWrites, NativeClient!trialVars, NativeClient!dspVars
<1>4. TrialTypes(Levels)' /\ LineInv'
  BY <1>1, <1>3, LineDsp DEF ServiceInv, ServiceTypes
<1>5. ServiceTypes'
  BY <1>1, <1>2, <1>4 DEF ServiceInv, ServiceTypes
<1>6. Handed'
  BY <1>2 DEF ServiceInv, Handed, Past
<1>7. Owned'
  <2>1. Clean => Clean'
    BY <1>1, CleanDsp DEF ServiceInv, ServiceTypes
  <2> QED
    BY <1>1, <1>2, <2>1 DEF ServiceInv, Owned
<1>8. /\ writes \in Nat /\ (step = 1 => writes = 0) /\ (phase = "send" /\ step = 2 => writes = 0)
      /\ rx \in Seq(Frames(Levels))
  BY DEF ServiceInv, ServiceTypes, TrialTypes, Handed, Past
<1>9. Meets(dsp) => met
  BY DEF ServiceInv, Held
\* A frame that was there, of a gain the DSP had then or now.
<1> DEFINE Was == \A n \in 1..Len(rx) : IsGain(rx[n]) /\ Meets(rx[n].value) => met
           Now == \A n \in 1..Len(rx) : IsGain(rx[n]) => rx[n].value = dsp
<1>10. CASE UNCHANGED <<dsp, met, raced, rx>>
  BY <1>2, <1>4, <1>5, <1>6, <1>7, <1>10
     DEF ServiceInv, Held, Unraced, IsGain, NativeClient!Meets
<1>11. ASSUME UNCHANGED <<dsp, met>>,
              NEW x \in Frames(Levels), rx' = Append(rx, x), x.value = dsp,
              IsGain(x) => Gain47 \in owed,
              ~IsGain(x) => raced' = raced
       PROVE  ServiceInv'
  <2>1. /\ Len(rx) \in Nat /\ Len(rx') = Len(rx) + 1
        /\ rx'[Len(rx) + 1] = x /\ \A n \in 1..Len(rx) : rx'[n] = rx[n]
    BY <1>8, <1>11, Moved
  <2>2. \A n \in 1..Len(rx') : n \in 1..Len(rx) \/ n = Len(rx) + 1
    BY <2>1
  <2>3. Was => \A n \in 1..Len(rx') : IsGain(rx'[n]) /\ Meets(rx'[n].value) => met
    BY <1>9, <1>11, <2>1, <2>2
  <2>4. Held'
    BY <1>2, <1>11, <2>3 DEF ServiceInv, Held, IsGain, NativeClient!Meets
  <2>5. CASE IsGain(x)
    <3>1. ~NoGain47 /\ phase \notin {"send", "gap", "hold"}
      BY <1>11, <2>5 DEF ServiceInv, LineInv, Clean, NoGain47
    <3>2. phase \in {"drain", "wait"} =>
            /\ ~(step = 1 /\ replied) /\ \A n \in 1..Len(rx) : ~IsGain(rx[n])
      BY <1>11, <2>5, <3>1 DEF ServiceInv, LineInv, Reads47
    <3>3. phase \in {"drain", "wait"} => \A n \in 1..Len(rx') : IsGain(rx'[n]) => rx'[n].value = dsp
      BY <1>11, <2>1, <2>2, <3>2
    <3> QED
      BY <1>2, <1>4, <1>5, <1>6, <1>7, <1>11, <2>4, <3>1, <3>2, <3>3 DEF ServiceInv, Unraced,
         IsGain
  <2>6. CASE ~IsGain(x)
    <3>1. Now => \A n \in 1..Len(rx') : IsGain(rx'[n]) => rx'[n].value = dsp
      BY <1>11, <2>1, <2>2, <2>6
    <3>2. Unraced'
      BY <1>2, <1>11, <2>6, <3>1 DEF ServiceInv, Unraced, IsGain
    <3> QED
      BY <1>4, <1>5, <1>6, <1>7, <2>4, <3>2 DEF ServiceInv
  <2> QED
    BY <2>5, <2>6
<1>12. CASE /\ UNCHANGED rx
            /\ (met' <=> met \/ NativeClient!Meets(dsp', target))
            /\ (raced' <=> raced \/ writes = 0) \/ raced'
  <2>1. Held'
    BY <1>2, <1>12 DEF ServiceInv, Held, IsGain, NativeClient!Meets
  <2>2. Unraced'
    BY <1>2, <1>8, <1>12 DEF Unraced
  <2> QED
    BY <1>4, <1>5, <1>6, <1>7, <2>1, <2>2 DEF ServiceInv
<1> QED
  <2>1. \/ UNCHANGED <<dsp, met, raced, rx>>
        \/ /\ UNCHANGED <<dsp, met>>
           /\ \E x \in Frames(Levels) :
                /\ rx' = Append(rx, x) /\ x.value = dsp
                /\ IsGain(x) => Gain47 \in owed
                /\ ~IsGain(x) => raced' = raced
        \/ /\ UNCHANGED rx
           /\ (met' <=> met \/ NativeClient!Meets(dsp', target))
           /\ (raced' <=> raced \/ writes = 0) \/ raced'
    BY <1>1, DspSteps DEF ServiceInv, ServiceTypes
  <2> QED
    BY <1>10, <1>11, <1>12, <2>1

\* A transaction begins for the wish of the host, on a line on which nothing is left.
LEMMA ServiceBegins ==
  ASSUME ServiceInv, ~ending, ~owned, ~fault, rx = <<>>, desired' = host, online' = TRUE,
         NativeClient!BeginApply(host), UNCHANGED <<ready, fault, verified, have, ending, host>>
  PROVE  ServiceInv'
<1> USE GainConstants, SomeBytes
<1>1. /\ phase' = "send" /\ step' = 0 /\ sent' = 0 /\ acked' = FALSE /\ replied' = FALSE
      /\ tries' = 0 /\ kind' = "apply" /\ target' = host /\ writes' = 0
      /\ original' = [l \in GainLane |-> 0] /\ reduced' = [l \in GainLane |-> 0]
      /\ observed' = [l \in GainLane |-> 0]
      /\ owned' = TRUE /\ submitted' = host
      /\ UNCHANGED <<dsp, posted, others, wire, owed, rx>>
  BY DEF NativeClient!BeginApply, NativeClient!Begin, NativeClient!Prepare, NativeClient!peerVars
<1>2. (met' <=> NativeClient!Meets(dsp, host)) /\
         {met', acked', replied', raced', owned', online'} \subseteq BOOLEAN
  <2>1. /\ met' = NativeClient!Meets(dsp, host)
        /\ acked' = FALSE /\ replied' = FALSE /\ raced' = FALSE /\ owned' = TRUE /\ online' = TRUE
    BY DEF NativeClient!BeginApply, NativeClient!Begin, NativeClient!Prepare
  <2>2. met' \in BOOLEAN
    BY <2>1 DEF NativeClient!Meets
  <2>3. {acked', replied', raced', owned', online'} \subseteq BOOLEAN
    BY <2>1, Zenon
  <2>4. met' <=> NativeClient!Meets(dsp, host)
    BY <2>1, Zenon
  <2> QED
    BY <2>2, <2>3, <2>4
<1>3. original' \in Levels /\ reduced' \in Levels /\ observed' \in Levels
  BY <1>1 DEF Levels, NativeClient!Levels, NativeClient!Level
<1>4. host \in [DOMAIN host -> 0..GainTop] /\ DOMAIN host \subseteq GainLane
  BY DEF ServiceInv, ServiceTypes, NativeClient!Wish, NativeClient!Level
<1>5. TrialTypes(Levels)'
  BY <1>1, <1>2, <1>3 DEF ServiceInv, ServiceTypes, TrialTypes, Active
<1>6. ServiceTypes'
  BY <1>1, <1>2, <1>4, <1>5 DEF ServiceInv, ServiceTypes
<1>7. Clean'
  <2>1. Clean
    BY DEF ServiceInv, Owned, Ended
  <2> QED
    BY <1>1, <2>1 DEF Clean, NoGain47, IsGain
<1>8. LineInv'
  <2>1. ~replied'
    BY <1>1
  <2> QED
    BY <1>1, <1>7, <2>1 DEF LineInv
<1>9. Handed' /\ Unraced'
  BY <1>1 DEF Handed, Unraced, Past
<1>10. Owned'
  BY <1>1 DEF Owned, Active, Ended
<1>11. Held'
  <2>1. ~replied' /\ (met' <=> NativeClient!Meets(dsp, host))
    BY <1>1, <1>2
  <2> QED
    BY <1>1, <2>1 DEF Held, NativeClient!Meets
<1> QED
  BY <1>6, <1>8, <1>9, <1>10, <1>11 DEF ServiceInv


\* What else becomes of it leaves the record as it is, but for its end.
LEMMA ServiceKeeps ==
  ASSUME ServiceInv,
         UNCHANGED <<step, acked, replied, tries, kind, target, original, reduced, observed, dsp,
                     posted, met, others, raced, writes>>,
         {host', desired', submitted', verified'} \subseteq NativeClient!Wish,
         {have', ready', fault', online', owned', ending'} \subseteq BOOLEAN,
         \/ /\ UNCHANGED <<phase, sent, wire, owed, rx, owned, ending, submitted>>
            /\ fault => fault'
         \/ /\ ~owned /\ rx # <<>> /\ rx' = Tail(rx)
            /\ UNCHANGED <<phase, sent, wire, owed, owned, ending, submitted, fault>>
         \/ /\ sent' = 0 /\ wire' = {} /\ owed' = {} /\ rx' = <<>>
            /\ ~owned' /\ ~ending /\ ~ending' /\ phase' \in Ended
            /\ phase' \in {phase, "canceled"}
         \/ /\ UNCHANGED <<phase, sent, wire, owed, rx>>
            /\ ending /\ ~owned' /\ ~ending' /\ (phase = "failed" => fault')
  PROVE  ServiceInv'
<1> USE SomeBytes
<1> DEFINE Stays == /\ UNCHANGED <<phase, sent, wire, owed, rx, owned, ending, submitted>>
                    /\ fault => fault'
           WasRead == /\ ~owned /\ rx # <<>> /\ rx' = Tail(rx)
                    /\ UNCHANGED <<phase, sent, wire, owed, owned, ending, submitted, fault>>
           Resets == /\ sent' = 0 /\ wire' = {} /\ owed' = {} /\ rx' = <<>>
                     /\ ~owned' /\ ~ending /\ ~ending' /\ phase' \in Ended
                     /\ phase' \in {phase, "canceled"}
           EndsIt == /\ UNCHANGED <<phase, sent, wire, owed, rx>>
                     /\ ending /\ ~owned' /\ ~ending' /\ (phase = "failed" => fault')
<1>1. /\ ~owned => phase \in Ended
      /\ ending => phase \in {"done", "failed"}
      /\ phase \in {"idle", "done", "canceled"} => Clean
  BY DEF ServiceInv, Owned
<1>2. CASE Stays \/ EndsIt
  <2>5. TrialTypes(Levels)'
    BY <1>2 DEF ServiceInv, ServiceTypes, TrialTypes
  <2>6. LineInv'
    BY <1>2 DEF ServiceInv, LineInv, Clean, NoGain47, IsGain
  <2>7. Handed' /\ Held'
    BY <1>2 DEF ServiceInv, Handed, Past, Held, IsGain, NativeClient!Meets
  <2>8. Unraced'
    BY <1>2 DEF ServiceInv, Unraced, IsGain
  <2>1. TrialTypes(Levels)' /\ LineInv' /\ Handed' /\ Held' /\ Unraced'
    BY <2>5, <2>6, <2>7, <2>8
  <2>2. Clean => Clean'
    BY <1>2 DEF Clean, NoGain47, IsGain
  <2>3. Owned'
    BY <1>1, <1>2, <2>2 DEF ServiceInv, Owned, Ended, Active
  <2>4. ServiceTypes'
    BY <2>1 DEF ServiceInv, ServiceTypes
  <2> QED
    BY <2>1, <2>3, <2>4 DEF ServiceInv
<1>3. CASE WasRead \/ Resets
  <2>1. phase' \in Ended /\ ~owned' /\ (phase' = phase \/ phase' = "canceled")
    BY <1>1, <1>3 DEF ServiceInv, Owned
  <2>2. rx' \in Seq(Frames(Levels)) /\ wire' \subseteq wire /\ owed' \subseteq owed
        /\ sent' \in 0..Bytes /\ (NoGain47 => NoGain47')
    <3>1. CASE Resets
      BY <3>1 DEF ServiceInv, ServiceTypes, TrialTypes, NoGain47
    <3>2. CASE WasRead
      <4>1. /\ rx' \in Seq(Frames(Levels)) /\ UNCHANGED <<wire, owed, sent>>
            /\ \A n \in 1..Len(rx') : rx'[n] = rx[n + 1] /\ n + 1 \in 1..Len(rx)
        BY <3>2, ReadFrame DEF ServiceInv, ServiceTypes, TrialTypes
      <4> QED
        BY <4>1 DEF ServiceInv, ServiceTypes, TrialTypes, NoGain47, IsGain
    <3> QED
      BY <1>3, <3>1, <3>2
  <2>3. TrialTypes(Levels)' /\ Handed'
    BY <2>1, <2>2, SMTT(40) DEF ServiceInv, ServiceTypes, TrialTypes, Handed, Past, Ended
  <2>4. LineInv'
    BY <2>1 DEF LineInv, Ended
  <2>5. Held' /\ Unraced'
    BY <2>1 DEF ServiceInv, Held, Unraced, Ended, Active, NativeClient!Meets
  <2>6. Owned'
    <3>1. CASE Resets
      <4>1. Clean'
        BY <3>1 DEF Clean, NoGain47
      <4> QED
        BY <2>1, <3>1, <4>1 DEF Owned
    <3>2. CASE WasRead
      <4>1. Clean => Clean'
        BY <2>2, <3>2 DEF Clean
      <4> QED
        BY <2>1, <3>2, <4>1 DEF ServiceInv, Owned
    <3> QED
      BY <1>3, <3>1, <3>2
  <2>7. ServiceTypes'
    BY <2>3 DEF ServiceInv, ServiceTypes
  <2> QED
    BY <2>3, <2>4, <2>5, <2>6, <2>7 DEF ServiceInv
<1> QED
  BY <1>2, <1>3

\* The invariant of the gain service is kept by every step (native_gain.c 30-81,
\* dsp_gain_trial.c).
LEMMA ServiceStep == ServiceInv /\ NativeClient!Next => ServiceInv'
<1> SUFFICES ASSUME ServiceInv, NativeClient!Next
             PROVE  ServiceInv'
  OBVIOUS
<1> USE DEF NativeClient!gainVars, NativeClient!trialVars, NativeClient!dspVars,
            NativeClient!lineVars, NativeClient!nativeVars
<1>1. /\ {host, desired, submitted, verified} \subseteq NativeClient!Wish
      /\ {have, ready, fault, online, owned, ending} \subseteq BOOLEAN
      /\ (phase \in Active => phase \in Active) /\ phase \in Ended \cup Active
      /\ ~owned => phase \in Ended
      /\ ending => phase \in {"done", "failed"}
  BY DEF ServiceInv, ServiceTypes, TrialTypes, Owned
<1>2. CASE NativeClient!HostWants
  <2>1. host' \in NativeClient!Wish
    BY <1>2 DEF NativeClient!HostWants
  <2> QED
    BY <1>1, <1>2, <2>1, ServiceKeeps DEF NativeClient!HostWants
<1>3. CASE NativeClient!AdapterResets
  <2>1. have' = FALSE /\ ready' = FALSE
    BY <1>3 DEF NativeClient!AdapterResets, NativeClient!Forget
  <2>2. {have', ready'} \subseteq BOOLEAN
    BY <2>1, Zenon
  <2> QED
    BY <1>1, <1>3, <2>2, ServiceKeeps DEF NativeClient!AdapterResets
<1>4. CASE NativeClient!ModeRepaired
  <2>1. have' = FALSE /\ ready' = FALSE /\ fault' = FALSE
    BY <1>4 DEF NativeClient!ModeRepaired, NativeClient!Forget
  <2>2. {have', ready', fault'} \subseteq BOOLEAN
    BY <2>1, Zenon
  <2> QED
    BY <1>1, <1>4, <2>2, ServiceKeeps DEF NativeClient!ModeRepaired, NativeClient!Adapter,
       NativeClient!Reset
<1>5. CASE NativeClient!PollOffline
  <2>1. have' = FALSE /\ ready' = FALSE /\ fault' = FALSE /\ online' = FALSE /\ owned' = FALSE
    BY <1>5 DEF NativeClient!PollOffline, NativeClient!Forget
  <2>2. {have', ready', fault', online', owned'} \subseteq BOOLEAN /\ ~owned'
    BY <2>1, Zenon
  <2>3. phase' \in Ended /\ phase' \in {phase, "canceled"}
    BY <1>1, <1>5 DEF NativeClient!PollOffline, NativeClient!Busy, Ended, Active
  <2> QED
    BY <1>1, <1>5, <2>2, <2>3, ServiceKeeps DEF NativeClient!PollOffline, NativeClient!Reset
<1>6. CASE NativeClient!TransportFault
  <2>1. ready' = FALSE /\ fault' = TRUE /\ owned' = FALSE
    BY <1>6 DEF NativeClient!TransportFault
  <2>2. {ready', fault', owned'} \subseteq BOOLEAN /\ ~owned'
    BY <2>1, Zenon
  <2>3. phase' \in Ended /\ phase' \in {phase, "canceled"}
    BY <1>1, <1>6 DEF NativeClient!TransportFault, NativeClient!Busy, Ended, Active
  <2> QED
    BY <1>1, <1>6, <2>2, <2>3, ServiceKeeps DEF NativeClient!TransportFault,
       NativeClient!Adapter, NativeClient!Reset
<1>7. CASE NativeClient!IdleRead
  BY <1>1, <1>7, ServiceKeeps DEF NativeClient!IdleRead, NativeClient!Read
<1>8. CASE NativeClient!PollEnd
  <2>1. ending' = FALSE /\ owned' = FALSE
    BY <1>8 DEF NativeClient!PollEnd
  <2>2. {ending', owned'} \subseteq BOOLEAN /\ ~owned' /\ ~ending'
    BY <2>1, Zenon
  <2>3. /\ {have', fault'} \subseteq BOOLEAN
        /\ phase = "failed" => fault'
        /\ {host', desired', submitted', verified'} \subseteq NativeClient!Wish
    <3>1. /\ (have' = TRUE /\ UNCHANGED fault /\ phase = "done" /\ verified' = submitted)
             \/ (fault' = TRUE /\ UNCHANGED <<have, verified>>)
          /\ UNCHANGED <<host, desired, submitted>>
      BY <1>8 DEF NativeClient!PollEnd, NativeClient!Taken
    <3>2. CASE have' = TRUE /\ UNCHANGED fault /\ phase = "done" /\ verified' = submitted
      <4>1. have' \in BOOLEAN
        BY <3>2, Zenon
      <4> QED
        BY <1>1, <3>1, <3>2, <4>1
    <3>3. CASE fault' = TRUE /\ UNCHANGED <<have, verified>>
      <4>1. fault' \in BOOLEAN /\ fault'
        BY <3>3, Zenon
      <4> QED
        BY <1>1, <3>1, <3>3, <4>1
    <3> QED
      BY <3>1, <3>2, <3>3
  <2>4. ready' \in BOOLEAN
    <3>1. CASE ready' = FALSE
      BY <3>1, Zenon
    <3>2. CASE ready' = (ready \/ submitted = desired)
      BY <1>1, <3>2
    <3> QED
      BY <1>8, <3>1, <3>2 DEF NativeClient!PollEnd, NativeClient!Taken
  <2> QED
    BY <1>1, <1>8, <2>2, <2>3, <2>4, ServiceKeeps DEF NativeClient!PollEnd
<1>9. ASSUME NEW y \in BOOLEAN, NativeClient!PollIdle(y)
      PROVE  ServiceInv'
  <2>1. online' = TRUE
    BY <1>9 DEF NativeClient!PollIdle
  <2>2. online' \in BOOLEAN
    BY <2>1, Zenon
  <2>3. CASE NativeClient!Stay /\ UNCHANGED <<ready, fault>>
    BY <1>1, <1>9, <2>2, <2>3, ServiceKeeps DEF NativeClient!PollIdle, NativeClient!Stay
  <2>4. CASE NativeClient!OpenFails
    <3>1. ready' = FALSE /\ fault' = TRUE
      BY <2>4 DEF NativeClient!OpenFails
    <3>2. {ready', fault'} \subseteq BOOLEAN
      BY <3>1, Zenon
    <3> QED
      BY <1>1, <1>9, <2>2, <2>4, <3>2, ServiceKeeps DEF NativeClient!PollIdle,
         NativeClient!OpenFails
  <2>5. CASE ~fault /\ NativeClient!Due(y) /\ NativeClient!BeginApply(host) /\
                UNCHANGED <<ready, fault>>
    BY <1>9, <2>1, <2>5, ServiceBegins DEF NativeClient!PollIdle, NativeClient!Due
  <2> QED
    BY <1>9, <2>3, <2>4, <2>5 DEF NativeClient!PollIdle
<1> QED
  BY <1>2, <1>3, <1>4, <1>5, <1>6, <1>7, <1>8, <1>9, ServicePolls, ServiceWorld
     DEF NativeClient!Next, NativeClient!Main

\* What the gain service does: it writes the lanes it is meant to, once, and takes for
\* verified what the DSP has had.
LEMMA ServiceSafe ==
  ASSUME ServiceInv
  PROVE  NativeClient!SetOnce /\ NativeClient!DoneHeld
<1>1. writes <= 1
  BY DEF ServiceInv, ServiceTypes, Handed, TrialTypes, Past
<1> QED
  BY <1>1 DEF ServiceInv, ServiceTypes, Held, NativeClient!SetOnce, NativeClient!DoneHeld

\* Every step of the gain service leaves the lanes the wish is not about as they were read,
\* and takes as verified only what the DSP has had (dsp_gain_trial.c 9-20, native_gain.c 24-29).
LEMMA ServiceActs ==
  ASSUME ServiceInv, NativeClient!Next
  PROVE  NativeClient!KeepsOthers /\ NativeClient!VerifiesHeld
<1> USE DEF NativeClient!gainVars, NativeClient!trialVars, NativeClient!dspVars,
            NativeClient!lineVars, NativeClient!nativeVars
<1>0. writes \in Nat /\ kind = "apply" /\ step \in 0..7
  BY DEF ServiceInv, ServiceTypes, TrialTypes
<1>1. writes' <= writes \/ (NativeClient!PollSend /\ step \in {2, 6})
  <2>1. CASE NativeClient!PollBusy \/ NativeClient!PollTimeout
    BY <1>0, <2>1 DEF NativeClient!PollBusy, NativeClient!PollTimeout, NativeClient!Setting,
       NativeClient!AdvanceRead,
       NativeClient!Poll, NativeClient!PollSend, NativeClient!PollDrain,
          NativeClient!PollReceive, NativeClient!PollAdvance, NativeClient!PollHold,
          NativeClient!PollFails, NativeClient!dspVars
  <2>2. CASE NativeClient!World
    BY <1>0, <2>2, DspSteps DEF NativeClient!World, ServiceInv, ServiceTypes
  <2>3. CASE \E y \in BOOLEAN : NativeClient!PollIdle(y)
    BY <1>0, <2>3 DEF NativeClient!PollIdle, NativeClient!Stay, NativeClient!OpenFails,
       NativeClient!BeginApply, NativeClient!Begin
  <2>4. CASE \/ NativeClient!HostWants \/ NativeClient!AdapterResets \/ NativeClient!ModeRepaired
             \/ NativeClient!PollOffline \/ NativeClient!TransportFault
             \/ NativeClient!IdleRead \/ NativeClient!PollEnd
    BY <1>0, <2>4 DEF NativeClient!HostWants, NativeClient!AdapterResets,
       NativeClient!ModeRepaired,
       NativeClient!PollOffline, NativeClient!TransportFault, NativeClient!IdleRead,
       NativeClient!PollEnd
  <2> QED
    BY <2>1, <2>2, <2>3, <2>4 DEF NativeClient!Next, NativeClient!Main
<1>2. ASSUME writes' > writes, ~raced
      PROVE  \A l \in GainLane \ DOMAIN target : NativeClient!Value[l] = dsp[l]
  <2>1. writes' \in Nat
    BY ServiceStep DEF ServiceInv, ServiceTypes, TrialTypes
  <2>2. phase = "send" /\ step = 2
    BY <1>0, <1>1, <1>2, <2>1 DEF NativeClient!PollSend, ServiceInv, Handed
  <2> QED
    BY <1>2, <2>2 DEF ServiceInv, Unraced, NativeClient!Value
<1>3. NativeClient!KeepsOthers
  BY <1>0, <1>2 DEF NativeClient!KeepsOthers
<1>4. UNCHANGED verified \/ NativeClient!PollEnd
  BY DEF NativeClient!Next, NativeClient!Main, NativeClient!HostWants, NativeClient!AdapterResets,
     NativeClient!ModeRepaired, NativeClient!PollOffline, NativeClient!TransportFault,
     NativeClient!IdleRead, NativeClient!PollIdle, NativeClient!PollBusy,
     NativeClient!PollTimeout, NativeClient!World
<1>5. NativeClient!VerifiesHeld
  BY <1>4 DEF NativeClient!VerifiesHeld, NativeClient!PollEnd, NativeClient!Taken, ServiceInv,
     Owned, Held
<1> QED
  BY <1>3, <1>5

-----------------------------------------------------------------------------
\* The probe.

LEMMA ProbeConstants ==
  /\ First \in ProbeLane /\ ProbeTop \in Nat /\ Drop \in 1..ProbeTop
  BY ReadsAssumption DEF ProbeClient!ProbeAssumption, ProbeClient!TrialAssumption

\* A level that is loud enough can be lowered, on the first lane alone.
LEMMA Lowered ==
  ASSUME NEW f \in ProbeLevels, f[First] > Drop
  PROVE  /\ ProbeClient!Lower(f) \in ProbeLevels
         /\ \A l \in ProbeLane \ {First} : ProbeClient!Lower(f)[l] = f[l]
<1>1. f[First] \in 0..ProbeTop
  BY ProbeConstants DEF ProbeLevels, ProbeClient!Levels, ProbeClient!Level
<1>2. f[First] - Drop \in 0..ProbeTop
  BY <1>1, ProbeConstants
<1> QED
  BY <1>2, ProbeConstants DEF ProbeLevels, ProbeClient!Levels, ProbeClient!Level,
     ProbeClient!Lower

\* The probe has begun nothing at first (dsp_volume_probe.c).
LEMMA TrialInit == ProbeClient!Init => TrialInv
<1> SUFFICES ASSUME ProbeClient!Init
             PROVE  TrialInv
  OBVIOUS
<1> USE ProbeConstants, SomeBytes
<1>1. /\ phase = "idle" /\ step = 0 /\ acked = FALSE /\ replied = FALSE /\ tries = 0
      /\ kind = "apply" /\ posted = {} /\ writes = 0 /\ others = 0 /\ raced = FALSE
      /\ sent = 0 /\ wire = {} /\ owed = {} /\ rx = <<>>
      /\ target = [l \in {First} |-> ProbeTop] /\ dsp = [l \in ProbeLane |-> ProbeTop]
      /\ original = dsp /\ reduced = dsp /\ observed = dsp
      /\ stage = 0 /\ stable = FALSE /\ vphase = "idle" /\ index = 0 /\ vack = FALSE
      /\ vreply = FALSE /\ gain_stage = 0 /\ token = {} /\ restore = {} /\ uart = FALSE
      /\ allowed = FALSE /\ begun = 0
  BY DEF ProbeClient!Init, ProbeClient!GainInit, ProbeClient!LineInit
<1>2. met \in BOOLEAN
  <2>1. met = ProbeClient!Meets(dsp, target)
    BY DEF ProbeClient!Init, ProbeClient!GainInit
  <2> QED
    BY <2>1 DEF ProbeClient!Meets
<1>3. {acked, replied, raced, stable, vack, vreply, uart, allowed} \subseteq BOOLEAN
  BY <1>1, Zenon
<1>4. dsp \in ProbeLevels
  BY <1>1 DEF ProbeLevels, ProbeClient!Levels, ProbeClient!Level
<1>5. TrialTypes(ProbeLevels)
  BY <1>1, <1>2, <1>3, <1>4 DEF TrialTypes, Ended
<1>6. ProbeTypes
  BY <1>1, <1>3, <1>5 DEF ProbeTypes
<1>7. LineInv /\ Handed /\ Probed /\ Alone
  BY <1>1 DEF LineInv, Handed, Probed, Alone, Past, Clean, NoGain47, Ended, Active
<1> QED
  BY <1>6, <1>7 DEF TrialInv

\* Its polls of the transaction.
LEMMA TrialPolls ==
  ASSUME TrialInv, ProbeClient!GainPoll
  PROVE  TrialInv'
<1>1. /\ ProbeClient!Poll \/ ProbeClient!PollFails
      /\ gain_stage = 2 /\ (phase' \in {"done", "failed"} => gain_stage' = 3)
      /\ phase' \notin {"done", "failed"} => UNCHANGED <<gain_stage, uart>>
      /\ UNCHANGED <<stage, stable, vphase, index, vack, vreply, begun, token, restore, allowed>>
      /\ UNCHANGED <<kind, dsp, posted, met, others, raced>>
  BY DEF ProbeClient!GainPoll, ProbeClient!Poll, ProbeClient!PollFails, ProbeClient!PollSend,
          ProbeClient!PollDrain, ProbeClient!PollReceive, ProbeClient!PollAdvance,
          ProbeClient!PollHold, ProbeClient!queryVars, ProbeClient!hostVars, ProbeClient!dspVars
<1>2. uart' \in BOOLEAN
  <2>1. uart' = FALSE \/ uart' = uart
    BY DEF ProbeClient!GainPoll
  <2>2. uart \in BOOLEAN
    BY DEF TrialInv, ProbeTypes
  <2> QED
    BY <2>1, <2>2, Zenon
<1>3. phase' \in Active \cup {"done", "failed"} /\ phase \in Active /\ kind # "apply"
  BY <1>1 DEF TrialInv, ProbeTypes, Probed, TrialTypes, Active, Ended, ProbeClient!Busy,
     ProbeClient!Poll, ProbeClient!PollFails, ProbeClient!PollSend, ProbeClient!PollDrain,
          ProbeClient!PollHold, ProbeClient!PollReceive, ProbeClient!Read, ProbeClient!PollAck,
          ProbeClient!PollReply, ProbeClient!Pending, ProbeClient!Accept, ProbeClient!Settle,
          ProbeClient!Answered, ProbeClient!Submitted, ProbeClient!Frame, ProbeClient!Fail,
          ProbeClient!dspVars, ProbeClient!PollAdvance, ProbeClient!AdvanceRead,
          ProbeClient!AdvanceReadBack, ProbeClient!AdvanceCheck, ProbeClient!AdvancePlain,
          ProbeClient!End, ProbeClient!NextStep, ProbeClient!Prepare, ProbeClient!dspVars,
          ProbeClient!peerVars
<1>4. /\ step \in 0..7 /\ writes \in Nat
      /\ kind \in {"trial", "restore"} /\ (kind = "restore" => step >= 4)
      /\ ~Past(2) => writes = 0
  BY <1>3 DEF TrialInv, ProbeTypes, TrialTypes, Handed, Past
\* Which gains are those of the DSP.
<1> DEFINE Is(g) == g = dsp \/ (writes > 0 /\ dsp = reduced)
<1>5. reduced' \in ProbeLevels
  <2>1. \/ reduced' = reduced \/ reduced' = observed
        \/ observed[First] > Drop /\ reduced' = ProbeClient!Lower(observed)
    <3>1. observed[First] \in Int /\ Drop \in Int
      BY ProbeConstants DEF TrialInv, ProbeTypes, TrialTypes, ProbeLevels, ProbeClient!Levels,
         ProbeClient!Level
    <3> QED
      BY <1>1, <1>3, <3>1 DEF ProbeClient!Poll, ProbeClient!PollFails, ProbeClient!PollSend,
         ProbeClient!PollDrain,
          ProbeClient!PollHold, ProbeClient!PollReceive, ProbeClient!Read, ProbeClient!PollAck,
          ProbeClient!PollReply, ProbeClient!Pending, ProbeClient!Accept, ProbeClient!Settle,
          ProbeClient!Answered, ProbeClient!Submitted, ProbeClient!Frame, ProbeClient!Fail,
          ProbeClient!dspVars, ProbeClient!PollAdvance, ProbeClient!AdvanceRead,
          ProbeClient!AdvanceReadBack, ProbeClient!AdvanceCheck, ProbeClient!AdvancePlain,
          ProbeClient!End, ProbeClient!NextStep, ProbeClient!Prepare, ProbeClient!dspVars,
          ProbeClient!peerVars
  <2> QED
    BY <2>1, Lowered DEF TrialInv, ProbeTypes, TrialTypes
<1>6. TrialTypes(ProbeLevels)' /\ LineInv' /\ Handed'
  <2>1. TrialTypes(ProbeLevels)' /\ LineInv'
    BY <1>1, <1>5, LinePolls DEF TrialInv, ProbeTypes
  <2>2. Handed'
    BY <1>1, HandedPolls DEF TrialInv, ProbeTypes
  <2> QED
    BY <2>1, <2>2
<1>7. ProbeTypes'
  BY <1>1, <1>2, <1>6 DEF TrialInv, ProbeTypes
<1>8. Probed'
  <2>1. stage = 2 /\ begun = 1 /\ token # {}
    BY <1>1 DEF TrialInv, Probed
  <2>2. CASE phase' \in {"done", "failed"}
    BY <1>1, <1>3, <2>1, <2>2 DEF Probed, Active, Ended
  <2>3. CASE phase' \notin {"done", "failed"}
    <3>1. uart /\ uart'
      <4>1. uart /\ uart' = uart
        BY <1>1, <2>3 DEF TrialInv, Probed
      <4> QED
        BY <4>1, Zenon
    <3>2. phase' \in Active /\ kind' = kind /\ kind # "apply"
      BY <1>1, <1>3, <2>3
    <3> QED
      BY <1>1, <2>1, <2>3, <3>1, <3>2 DEF Probed, Active
  <2> QED
    BY <2>2, <2>3
<1>10. writes' \in Nat /\ (writes' = 0 => writes = 0)
  BY <1>1, <1>4 DEF ProbeClient!Poll, ProbeClient!PollFails, ProbeClient!PollSend,
     ProbeClient!PollDrain,
          ProbeClient!PollReceive, ProbeClient!PollAdvance, ProbeClient!PollHold
<1>11. ASSUME ProbeClient!PollSend
       PROVE  Alone'
  <2>1. /\ UNCHANGED <<step, replied, reduced, original, observed, rx>>
        /\ phase = "send" /\ phase' \in {"send", "drain"}
        /\ phase' = "send" => UNCHANGED <<wire, writes>>
        /\ phase' = "drain" => /\ wire' = {ProbeClient!Request}
                               /\ step \notin {2, 6} => UNCHANGED writes
                               /\ step \in {2, 6} => writes' > 0
    BY <1>4, <1>11, SomeBytes DEF TrialInv, LineInv, ProbeTypes, TrialTypes,
       ProbeClient!Setting, ProbeClient!PollSend, ProbeClient!Push, ProbeClient!peerVars
  <2>2. NoGain47 /\ ~replied /\ wire = {}
    BY <2>1 DEF TrialInv, LineInv, Clean
  <2>3. /\ ProbeClient!Request.write = IF step = 2 THEN {reduced} ELSE IF step = 6 THEN {original} ELSE {}
    BY <1>4 DEF ProbeClient!Request, ProbeClient!Setting, ProbeClient!Value
  <2> HIDE DEF ProbeClient!Request
  <2>4. writes' = 0 => posted' = {} /\ \A f \in wire' : f.write = {}
    BY <1>1, <1>4, <1>10, <2>1, <2>2, <2>3 DEF TrialInv, Alone
  <2>5. ~Past(6)' => posted' \subseteq {reduced'} /\ \A f \in wire' : f.write \subseteq {reduced'}
    BY <1>1, <1>3, <1>4, <2>1, <2>2, <2>3 DEF TrialInv, Alone, Past
  <2>6. step' >= 2 => reduced' = ProbeClient!Lower(original')
    BY <1>3, <2>1 DEF TrialInv, Alone
  <2>7. ~raced' /\ ~Past(6)' /\ phase' = "send" =>
          /\ step' = 2 => original' = dsp'
          /\ step' = 6 => reduced' = dsp'
    BY <1>1, <1>3, <1>4, <2>1 DEF TrialInv, Alone, Past
  <2>8. (\A n \in 1..Len(rx') : ~IsGain(rx'[n])) /\ ~replied'
    BY <2>1, <2>2 DEF NoGain47
  <2> QED
    BY <2>4, <2>5, <2>6, <2>7, <2>8 DEF Alone, IsGain
<1>12. ASSUME ProbeClient!PollDrain
       PROVE  Alone'
  <2>1. /\ UNCHANGED <<step, replied, reduced, original, observed, rx, wire, writes>>
        /\ phase = "drain" /\ phase' \in {"wait", "gap"}
    BY <1>12 DEF ProbeClient!PollDrain, ProbeClient!Settle, ProbeClient!Answered,
       ProbeClient!lineVars
  <2>2. Past(6)' <=> Past(6)
    BY <2>1 DEF Past
  <2> QED
    BY <1>1, <1>3, <2>1, <2>2 DEF TrialInv, Alone, IsGain
<1>13. ASSUME ProbeClient!PollReceive
       PROVE  Alone'
  <2>1. rx # <<>> /\ rx' = Tail(rx)
    BY <1>13 DEF ProbeClient!PollReceive, ProbeClient!Read
  <2>2. /\ rx[1] = Head(rx) /\ rx[1] \in Frames(ProbeLevels) /\ 1 \in 1..Len(rx)
        /\ \A n \in 1..Len(rx') : rx'[n] = rx[n + 1] /\ n + 1 \in 1..Len(rx)
    BY <2>1, ReadFrame DEF TrialInv, ProbeTypes, TrialTypes
  <2>3. UNCHANGED <<step, reduced, original, writes, wire>> /\ phase' \in {phase, "gap", "failed"}
        /\ (phase' = "gap" => phase # "send")
    BY <1>4, <1>13, SomeBytes DEF TrialInv, LineInv, ProbeClient!PollReceive, ProbeClient!Read,
       ProbeClient!PollAck, ProbeClient!PollReply,
          ProbeClient!Pending, ProbeClient!Accept, ProbeClient!Settle, ProbeClient!Answered,
          ProbeClient!Submitted, ProbeClient!Frame, ProbeClient!Fail, ProbeClient!dspVars
  <2> DEFINE Kept == replied' = replied /\ observed' = observed
             Came == IsGain(rx[1]) /\ observed' = rx[1].value
  <2>4. Kept \/ phase' = "failed" \/ step \in {0, 4} \/ (step \in {1, 3, 5, 7} /\ Came)
    <3>1. CASE ProbeClient!PollAck
      BY <3>1 DEF ProbeClient!PollAck, ProbeClient!Accept, ProbeClient!Fail
    <3>2. CASE /\ ProbeClient!PollReply
               /\ ~(ProbeClient!Pending /\ ProbeClient!Frame.code = ProbeClient!Code /\
                     ~ProbeClient!Setting)
      BY <3>2 DEF ProbeClient!PollReply
    <3>3. CASE /\ ProbeClient!PollReply
               /\ ProbeClient!Pending /\ ProbeClient!Frame.code = ProbeClient!Code /\
                     ~ProbeClient!Setting
      <4>1. step \in {0, 1, 3, 4, 5, 7}
        BY <1>4, <3>3 DEF ProbeClient!Setting
      <4>2. step \notin {0, 4} => IsGain(rx[1])
        BY <2>2, <3>3, <4>1 DEF IsGain, ProbeClient!PollReply, ProbeClient!Frame,
           ProbeClient!Code, ProbeClient!ModeRead
      <4>3. phase' = "failed" \/ observed' = IF ProbeClient!ModeRead THEN observed ELSE ProbeClient!Frame.value
        BY <3>3 DEF ProbeClient!PollReply, ProbeClient!Fail
      <4>4. phase' = "failed" \/ step \in {0, 4} \/ (step \notin {0, 4} /\ observed' = rx[1].value)
        BY <2>2, <4>1, <4>3 DEF ProbeClient!ModeRead, ProbeClient!Frame
      <4> QED
        BY <4>1, <4>2, <4>4
    <3> QED
      BY <1>13, <3>1, <3>2, <3>3 DEF ProbeClient!PollReceive
  <2>5. IsGain(rx[1]) => phase \in {"drain", "wait"}
    BY <1>3, <2>2 DEF TrialInv, LineInv, Clean, NoGain47, Active, IsGain
  <2>6. phase' \in Active => (Past(6)' <=> Past(6))
    BY <2>3 DEF Past, Active
  <2>7. phase' \in {"drain", "wait"} /\ ~raced /\ ~Past(6) =>
           \A n \in 1..Len(rx') : IsGain(rx'[n]) => Is(rx'[n].value)
    BY <1>3, <2>2, <2>3 DEF TrialInv, Alone
  <2>8. phase' \in Active /\ ~raced /\ ~Past(6) /\ step \in {1, 5} /\ replied' => Is(observed')
    <3>1. CASE Kept
      BY <1>3, <3>1 DEF TrialInv, Alone
    <3>2. CASE Came
      BY <1>3, <2>2, <2>5, <3>2 DEF TrialInv, Alone
    <3> HIDE DEF Kept, Came
    <3> QED
      BY <2>4, <3>1, <3>2 DEF Active
  <2>9. /\ writes' = 0 => posted' = {} /\ \A f \in wire' : f.write = {}
        /\ phase' \in Active /\ ~Past(6) =>
              posted' \subseteq {reduced'} /\ \A f \in wire' : f.write \subseteq {reduced'}
        /\ phase' \in Active /\ step' >= 2 => reduced' = ProbeClient!Lower(original')
        /\ phase' = "send" => phase = "send"
    BY <1>1, <1>3, <2>3 DEF TrialInv, Alone
  <2>10. phase' = "send" /\ ~raced /\ ~Past(6) => (step = 2 => original = dsp) /\ (step = 6 =>
            reduced = dsp)
    BY <1>3, <2>9 DEF TrialInv, Alone
  <2> QED
    BY <1>1, <2>3, <2>6, <2>7, <2>8, <2>9, <2>10 DEF Alone, IsGain
<1>14. ASSUME ProbeClient!PollAdvance
       PROVE  Alone'
  <2>1. /\ phase = "gap" /\ UNCHANGED <<observed, wire, rx, writes>>
        /\ phase' \in {"send", "hold", "done", "failed"}
        /\ phase' = "hold" => step = 3
        /\ phase' = "send" => ~replied'
        /\ phase' # "send" => step' = step
    BY <1>4, <1>14 DEF ProbeClient!PollAdvance, ProbeClient!AdvanceRead,
       ProbeClient!AdvanceReadBack,
          ProbeClient!AdvanceCheck, ProbeClient!AdvancePlain, ProbeClient!End,
          ProbeClient!NextStep, ProbeClient!Prepare, ProbeClient!dspVars, ProbeClient!peerVars
  <2>2. CASE phase' = "send"
    <3>1. /\ step # 1 => UNCHANGED <<reduced, original>>
          /\ step = 1 => original' = observed /\ reduced' = ProbeClient!Lower(observed)
          /\ step' = step + 1 \/ (step' = step /\ step \in {3, 7})
          /\ step = 5 => observed = reduced
      BY <1>4, <1>14, <2>2 DEF ProbeClient!PollAdvance, ProbeClient!AdvanceRead,
         ProbeClient!AdvanceReadBack,
          ProbeClient!AdvanceCheck, ProbeClient!AdvancePlain, ProbeClient!End,
          ProbeClient!NextStep, ProbeClient!Prepare, ProbeClient!dspVars, ProbeClient!peerVars
    <3>2. step \in {1, 5} => replied
      BY <2>1 DEF TrialInv, LineInv, Settings
    <3>3. step = 1 => writes = 0 /\ posted = {}
      BY <1>4, <2>1 DEF TrialInv, Alone, Past
    <3>4. step' \in 0..7 /\ (~Past(6)' => ~Past(6))
      <4>1. step' \in 0..7
        BY <1>6 DEF TrialTypes
      <4> QED
        BY <1>4, <2>1, <2>2, <3>1, <4>1 DEF Past
    <3>5. ~raced /\ step = 1 => observed = dsp
      BY <1>3, <1>4, <2>1, <3>2, <3>3 DEF TrialInv, Alone, Past
    <3>6. ~raced /\ step = 5 => reduced = dsp
      BY <1>3, <1>4, <2>1, <3>1, <3>2 DEF TrialInv, Alone, Past
    <3>7. step' >= 2 => reduced' = ProbeClient!Lower(original')
      BY <1>3, <1>4, <3>1 DEF TrialInv, Alone
    <3>8. wire = {}
      BY <2>1 DEF TrialInv, LineInv, Clean
    <3>9. ~Past(6)' => posted \subseteq {reduced'}
      BY <1>3, <1>4, <3>1, <3>3, <3>4 DEF TrialInv, Alone
    <3>10. (step' = 2 => step = 1) /\ (step' = 6 => step = 5)
      BY <1>4, <3>1
    <3> QED
      BY <1>1, <2>1, <2>2, <3>1, <3>5, <3>6, <3>7, <3>8, <3>9, <3>10 DEF TrialInv, Alone
  <2>3. CASE phase' = "hold"
    <3>1. UNCHANGED <<reduced, original>> /\ step = 3 /\ step' = 3
      BY <1>4, <1>14, <2>1, <2>3 DEF ProbeClient!PollAdvance, ProbeClient!AdvanceRead,
         ProbeClient!AdvanceReadBack,
          ProbeClient!AdvanceCheck, ProbeClient!AdvancePlain, ProbeClient!End,
          ProbeClient!NextStep, ProbeClient!Prepare, ProbeClient!dspVars, ProbeClient!peerVars
    <3>2. ~Past(6)
      BY <3>1 DEF Past
    <3> QED
      BY <1>1, <1>3, <2>1, <2>3, <3>1, <3>2 DEF TrialInv, Alone
  <2>4. CASE phase' \in {"done", "failed"}
    BY <1>1, <2>1, <2>4 DEF TrialInv, Alone, Active
  <2> QED
    BY <2>1, <2>2, <2>3, <2>4
<1>15. ASSUME ProbeClient!PollHold
       PROVE  Alone'
  <2>1. /\ phase = "hold" /\ phase' = "send" /\ step' = 4 /\ ~replied'
        /\ UNCHANGED <<reduced, original, wire, writes, rx>>
    BY <1>15 DEF ProbeClient!PollHold, ProbeClient!Prepare, ProbeClient!peerVars
  <2>2. step = 3 /\ ~Past(6)
    BY <2>1 DEF TrialInv, LineInv, Past
  <2> QED
    BY <1>1, <1>3, <2>1, <2>2 DEF TrialInv, Alone
<1>16. ASSUME ProbeClient!PollFails
       PROVE  Alone'
  <2>1. phase' = "failed" /\ UNCHANGED <<wire, writes>>
    BY <1>16 DEF ProbeClient!PollFails, ProbeClient!Fail, ProbeClient!lineVars
  <2> QED
    BY <1>1, <2>1 DEF TrialInv, Alone, Active
<1>9. Alone'
  BY <1>1, <1>11, <1>12, <1>13, <1>14, <1>15, <1>16 DEF ProbeClient!Poll
<1> QED
  BY <1>6, <1>7, <1>8, <1>9 DEF TrialInv

\* What the DSP and another writer do to it.
LEMMA TrialWorld ==
  ASSUME TrialInv, ProbeClient!World
  PROVE  TrialInv'
<1>1. /\ ProbeClient!Dsp
      /\ UNCHANGED <<stage, stable, vphase, index, vack, vreply, gain_stage, uart, begun, token,
                     restore, allowed>>
  BY DEF ProbeClient!World, ProbeClient!probeVars, ProbeClient!queryVars, ProbeClient!hostVars
<1>2. UNCHANGED <<phase, step, acked, replied, tries, kind, target, original, reduced, observed,
                  writes, sent>>
  BY <1>1, DspSteps DEF TrialInv, ProbeTypes
<1>3. dsp' \in ProbeLevels
  BY <1>1 DEF TrialInv, ProbeTypes, TrialTypes, ProbeLevels, ProbeClient!Levels,
     ProbeClient!Level, ProbeClient!Dsp, ProbeClient!Hear,
          ProbeClient!DspAnswer, ProbeClient!DspLoses, ProbeClient!DspApply,
          ProbeClient!OtherWrites, ProbeClient!trialVars, ProbeClient!dspVars
<1>4. TrialTypes(ProbeLevels)' /\ LineInv'
  BY <1>1, <1>3, LineDsp DEF TrialInv, ProbeTypes
<1>5. ProbeTypes'
  BY <1>1, <1>2, <1>4 DEF TrialInv, ProbeTypes
<1>6. Handed' /\ (Past(6)' <=> Past(6))
  BY <1>2 DEF TrialInv, Handed, Past
<1>7. /\ wire' \subseteq wire
      /\ posted' \subseteq posted \cup UNION {f.write : f \in wire}
  BY <1>1, DspSteps DEF TrialInv, ProbeTypes
<1>8. Probed'
  <2>1. Clean => Clean'
    BY <1>1, CleanDsp DEF TrialInv, ProbeTypes
  <2>2. begun = 0 => posted' = {} /\ \A f \in wire' : f.write = {}
    BY <1>7 DEF TrialInv, Probed
  <2> QED
    BY <1>1, <1>2, <2>1, <2>2 DEF TrialInv, Probed
<1>9. /\ writes' = 0 => posted' = {} /\ \A f \in wire' : f.write = {}
      /\ phase' \in Active /\ ~Past(6)' =>
            posted' \subseteq {reduced'} /\ \A f \in wire' : f.write \subseteq {reduced'}
      /\ phase' \in Active /\ step' >= 2 => reduced' = ProbeClient!Lower(original')
  BY <1>2, <1>6, <1>7 DEF TrialInv, Alone
<1>10. /\ writes \in Nat /\ rx \in Seq(Frames(ProbeLevels))
       /\ phase = "send" /\ step = 2 => writes = 0
  BY DEF TrialInv, ProbeTypes, TrialTypes, Handed, Past
<1> DEFINE Now == \A n \in 1..Len(rx) : IsGain(rx[n]) =>
   rx[n].value = dsp \/ (writes > 0 /\ dsp = reduced)
           After == \A n \in 1..Len(rx') : IsGain(rx'[n]) =>
              rx'[n].value = dsp' \/ (writes > 0 /\ dsp' = reduced)
           Told == \/ observed = dsp' \/ (writes > 0 /\ dsp' = reduced)
\* What is left to show, when someone else may have written.
<1>11. ASSUME phase \in Active /\ ~raced' /\ ~Past(6) =>
                /\ phase \in {"drain", "wait"} => After
                /\ step \in {1, 5} /\ replied => Told
                /\ phase = "send" /\ step = 2 => original = dsp'
                /\ phase = "send" /\ step = 6 => reduced = dsp'
       PROVE  TrialInv'
  <2>1. Alone'
    BY <1>2, <1>6, <1>9, <1>11 DEF Alone, IsGain
  <2> QED
    BY <1>4, <1>5, <1>6, <1>8, <2>1 DEF TrialInv
<1>12. CASE UNCHANGED <<dsp, raced, rx>>
  BY <1>11, <1>12 DEF TrialInv, Alone
<1>13. ASSUME UNCHANGED dsp,
              NEW x \in Frames(ProbeLevels), rx' = Append(rx, x), x.value = dsp,
              IsGain(x) => Gain47 \in owed,
              ~IsGain(x) => raced' = raced
       PROVE  TrialInv'
  <2>1. /\ Len(rx) \in Nat /\ Len(rx') = Len(rx) + 1
        /\ rx'[Len(rx) + 1] = x /\ \A n \in 1..Len(rx) : rx'[n] = rx[n]
    BY <1>10, <1>13, Moved
  <2>2. \A n \in 1..Len(rx') : n \in 1..Len(rx) \/ n = Len(rx) + 1
    BY <2>1
  <2>3. CASE IsGain(x)
    <3>1. ~NoGain47 /\ phase \notin {"send", "gap", "hold"}
      BY <1>13, <2>3 DEF TrialInv, LineInv, Clean, NoGain47
    <3>2. phase \in {"drain", "wait"} =>
            /\ ~(step \in {1, 5} /\ replied) /\ \A n \in 1..Len(rx) : ~IsGain(rx[n])
      BY <1>13, <2>3, <3>1 DEF TrialInv, LineInv, Reads47
    <3>3. phase \in {"drain", "wait"} => After
      BY <1>13, <2>1, <2>2, <3>2
    <3> HIDE DEF After, Told
    <3> QED
      BY <1>11, <3>1, <3>2, <3>3 DEF Active
  <2>4. CASE ~IsGain(x)
    <3>1. Now => After
      BY <1>13, <2>1, <2>2, <2>4
    <3>2. raced' = raced
      BY <1>13, <2>4
    <3> QED
      BY <1>11, <1>13, <3>1, <3>2 DEF TrialInv, Alone
  <2> QED
    BY <2>3, <2>4
<1>14. CASE UNCHANGED rx /\ dsp' \in posted /\ (raced' <=> raced \/ writes = 0)
  <2>1. phase \in Active /\ ~raced' /\ ~Past(6) => writes > 0 /\ dsp' = reduced
    BY <1>10, <1>14 DEF TrialInv, Alone
  <2> QED
    BY <1>10, <1>11, <2>1
<1>15. CASE raced'
  BY <1>11, <1>15
<1> QED
  <2>1. \/ UNCHANGED <<dsp, raced, rx>>
        \/ /\ UNCHANGED dsp
           /\ \E x \in Frames(ProbeLevels) :
                /\ rx' = Append(rx, x) /\ x.value = dsp
                /\ IsGain(x) => Gain47 \in owed
                /\ ~IsGain(x) => raced' = raced
        \/ UNCHANGED rx /\ dsp' \in posted /\ (raced' <=> raced \/ writes = 0)
        \/ raced'
    BY <1>1, DspSteps DEF TrialInv, ProbeTypes
  <2> QED
    BY <1>12, <1>13, <1>14, <1>15, <2>1

\* The host's transaction begins, once, on a line on which nothing is left.
LEMMA TrialBegins ==
  ASSUME TrialInv, ProbeClient!GainBegin
  PROVE  TrialInv'
<1> USE ProbeConstants, SomeBytes
<1>1. /\ gain_stage = 1 /\ gain_stage' = 2 /\ begun' = begun + 1
      /\ phase' = "send" /\ sent' = 0 /\ tries' = 0 /\ writes' = 0
      /\ observed' = [l \in ProbeLane |-> 0] /\ target' = target
      /\ UNCHANGED <<dsp, posted, others, wire, owed, rx>>
      /\ UNCHANGED <<stage, stable, vphase, index, vack, vreply, token, restore, allowed>>
      /\ acked' = FALSE /\ replied' = FALSE /\ raced' = FALSE /\ uart' = TRUE
      /\ met' = ProbeClient!Meets(dsp, target)
  BY DEF ProbeClient!GainBegin, ProbeClient!Begin, ProbeClient!Prepare, ProbeClient!peerVars,
          ProbeClient!queryVars, ProbeClient!hostVars, ProbeClient!Zero
<1>2. {acked', replied', raced', uart'} \subseteq BOOLEAN /\ ~replied' /\ uart'
  BY <1>1, Zenon
<1>3. met' \in BOOLEAN
  BY <1>1 DEF ProbeClient!Meets
<1>4. Clean /\ phase = "idle" /\ begun = 0 /\ stage = 2 /\ token # {} /\ posted = {}
  BY <1>1 DEF TrialInv, Probed
<1>5. \/ /\ step' = 0 /\ kind' = "trial"
         /\ original' = [l \in ProbeLane |-> 0] /\ reduced' = [l \in ProbeLane |-> 0]
      \/ /\ step' = 4 /\ kind' = "restore" /\ original' \in restore
         /\ reduced' = ProbeClient!Lower(original')
  BY DEF ProbeClient!GainBegin, ProbeClient!Begin, ProbeClient!Prepare, ProbeClient!Zero
<1>6. original' \in ProbeLevels /\ reduced' \in ProbeLevels /\ observed' \in ProbeLevels
  <2>1. [l \in ProbeLane |-> 0] \in ProbeLevels
    BY DEF ProbeLevels, ProbeClient!Levels, ProbeClient!Level
  <2>2. original' \in restore => original' \in ProbeLevels /\
           ProbeClient!Lower(original') \in ProbeLevels
    BY Lowered DEF TrialInv, ProbeTypes
  <2> QED
    BY <1>1, <1>5, <2>1, <2>2
<1>7. TrialTypes(ProbeLevels)'
  BY <1>1, <1>2, <1>3, <1>5, <1>6 DEF TrialInv, ProbeTypes, TrialTypes, Active
<1>8. ProbeTypes'
  BY <1>1, <1>2, <1>4, <1>7 DEF TrialInv, ProbeTypes
<1>9. Clean'
  BY <1>1, <1>4 DEF Clean, NoGain47, IsGain
<1>10. LineInv'
  BY <1>1, <1>2, <1>9 DEF LineInv
<1>11. Handed'
  BY <1>1, <1>5 DEF Handed, Past
<1>12. Probed'
  BY <1>1, <1>2, <1>4, <1>5 DEF Probed, Active
<1>13. Alone'
  BY <1>1, <1>2, <1>4, <1>5, <1>9 DEF Alone, Clean, Past, Active
<1> QED
  BY <1>8, <1>10, <1>11, <1>12, <1>13 DEF TrialInv

\* A request the probe cannot serve, or not any more.
LEMMA TrialGivenUp ==
  ASSUME TrialInv, ProbeClient!GainGivenUp
  PROVE  TrialInv'
<1> USE SomeBytes
<1>1. /\ gain_stage \in {1, 2} /\ gain_stage' = 3 /\ phase' \in {"failed", "canceled"}
      /\ sent' = 0 /\ wire' = {} /\ owed' = {} /\ rx' = <<>>
      /\ UNCHANGED <<step, acked, replied, tries, kind, original, reduced, observed, dsp, posted,
            met,
                     others, raced, writes>>
      /\ UNCHANGED <<stage, stable, vphase, index, vack, vreply, begun, token, restore, allowed>>
      /\ uart' = FALSE
  BY DEF ProbeClient!GainGivenUp, ProbeClient!Finish, ProbeClient!Reset, ProbeClient!dspVars,
          ProbeClient!queryVars, ProbeClient!hostVars
<1>2. uart' \in BOOLEAN /\ ~uart'
  BY <1>1, Zenon
<1>3. TrialTypes(ProbeLevels)'
  BY <1>1 DEF TrialInv, ProbeTypes, TrialTypes, Ended
<1>4. ProbeTypes'
  BY <1>1, <1>2, <1>3 DEF TrialInv, ProbeTypes
<1>5. LineInv' /\ Handed'
  BY <1>1 DEF TrialInv, ProbeTypes, TrialTypes, LineInv, Handed, Past
<1>6. Probed'
  BY <1>1 DEF TrialInv, Probed, Ended, Active
<1>7. Alone'
  BY <1>1 DEF TrialInv, Alone, Active
<1> QED
  BY <1>4, <1>5, <1>6, <1>7 DEF TrialInv

\* Before the host has asked for a transaction there is none.
LEMMA TrialIdle ==
  ASSUME TrialInv, gain_stage = 0,
         UNCHANGED <<phase, step, acked, replied, tries, kind, target, original, reduced, observed,
                     dsp, posted, met, others, raced, writes, begun>>,
         sent' \in 0..Bytes, wire' \subseteq Requests(ProbeLevels), owed' \subseteq owed,
         rx' \in Seq(Frames(ProbeLevels)),
         \A f \in wire' : f \in wire \/ f.write = {},
         stage' \in 0..2, index' \in 0..1, gain_stage' \in 0..1,
         {stable', vack', vreply', uart', allowed'} \subseteq BOOLEAN,
         restore' \subseteq ProbeLevels, \A f \in restore' : f[First] > Drop,
         stage' = 1 => uart',
         gain_stage' = 1 => stage' = 2 /\ token' # {} /\ Clean',
         gain_stage' = 0 /\ vphase' = "complete" => Clean'
  PROVE  TrialInv'
<1>1. /\ phase = "idle" /\ begun = 0 /\ posted = {} /\ writes = 0 /\ \A f \in wire : f.write = {}
  BY DEF TrialInv, Probed
<1>2. TrialTypes(ProbeLevels)'
  BY DEF TrialInv, ProbeTypes, TrialTypes
<1>3. ProbeTypes'
  BY <1>1, <1>2 DEF ProbeTypes
<1>4. LineInv' /\ Handed'
  BY <1>1 DEF TrialInv, LineInv, Handed, Past
<1>5. Probed'
  BY <1>1 DEF TrialInv, Probed, Active, Ended
<1>6. Alone'
  BY <1>1 DEF Alone, Active
<1> QED
  BY <1>3, <1>4, <1>5, <1>6 DEF TrialInv

\* The query, and what the host and playback do.
LEMMA TrialOthers ==
  ASSUME TrialInv,
         \/ ProbeClient!Query \/ ProbeClient!QueryCancel \/ ProbeClient!QueryFails
         \/ ProbeClient!Playback \/ ProbeClient!TrialRequest \/ ProbeClient!RestoreRequest
  PROVE  TrialInv'
<1> USE SomeBytes DEF ProbeClient!gainVars, ProbeClient!trialVars, ProbeClient!dspVars,
ProbeClient!lineVars,
          ProbeClient!queryVars, ProbeClient!probeVars, ProbeClient!hostVars
<1>1. /\ stage \in 0..2 /\ index \in 0..1 /\ gain_stage \in 0..3
      /\ {stable, vack, vreply, uart, allowed} \subseteq BOOLEAN
      /\ restore \subseteq ProbeLevels /\ (\A f \in restore : f[First] > Drop)
      /\ sent \in 0..Bytes /\ wire \subseteq Requests(ProbeLevels) /\
            rx \in Seq(Frames(ProbeLevels))
      /\ stage # 2 => gain_stage = 0
      /\ stage = 1 => uart
      /\ token = {} => gain_stage = 0
      /\ gain_stage = 0 /\ vphase = "complete" => Clean
  BY DEF TrialInv, ProbeTypes, TrialTypes, Probed
<1>2. UNCHANGED <<wire, owed, rx>> => (Clean => Clean')
  BY DEF Clean, NoGain47, IsGain
<1>3. CASE ProbeClient!Playback
  <2>1. allowed' = ~allowed
    BY <1>3 DEF ProbeClient!Playback
  <2>2. allowed' \in BOOLEAN
    BY <2>1
  <2> HIDE DEF ProbeClient!gainVars, ProbeClient!trialVars, ProbeClient!dspVars,
  ProbeClient!lineVars,
          ProbeClient!queryVars, ProbeClient!probeVars, ProbeClient!hostVars
  <2>3. UNCHANGED <<gain_stage, stage, stable, index, vack, vreply, uart, begun, token, restore,
           vphase>>
    BY <1>3 DEF ProbeClient!Playback, ProbeClient!probeVars, ProbeClient!queryVars
  <2>4. UNCHANGED <<phase, step, acked, replied, tries, kind, target, original, reduced, observed,
                    dsp, posted, met, others, raced, writes, sent, wire, owed, rx>>
    BY <1>3 DEF ProbeClient!Playback, ProbeClient!gainVars, ProbeClient!trialVars,
       ProbeClient!dspVars, ProbeClient!lineVars,
          ProbeClient!queryVars, ProbeClient!probeVars, ProbeClient!hostVars
  <2>5. ProbeTypes'
    BY <2>2, <2>3, <2>4 DEF TrialInv, ProbeTypes, TrialTypes
  <2>6. LineInv' /\ Handed'
    BY <2>4 DEF TrialInv, LineInv, Handed, Past, Clean, NoGain47, IsGain
  <2>7. Probed'
    BY <1>2, <2>3, <2>4 DEF TrialInv, Probed
  <2>8. Alone'
    BY <2>3, <2>4 DEF TrialInv, Alone, Past, IsGain
  <2> QED
    BY <2>5, <2>6, <2>7, <2>8 DEF TrialInv
<1>4. CASE ProbeClient!TrialRequest \/ ProbeClient!RestoreRequest
  <2>1. gain_stage = 0 /\ stage = 2 /\ vphase = "complete" /\ token' # {} /\ gain_stage' = 1
    BY <1>1, <1>4 DEF ProbeClient!TrialRequest, ProbeClient!RestoreRequest, ProbeClient!Request1,
       ProbeClient!Requestable
  <2>2. /\ UNCHANGED <<phase, step, acked, replied, tries, kind, target, original, reduced,
              observed,
                       dsp, posted, met, others, raced, writes, sent, wire, owed, rx>>
        /\ UNCHANGED <<stage, stable, index, vack, vreply, uart, begun, allowed>>
    BY <1>4 DEF ProbeClient!TrialRequest, ProbeClient!RestoreRequest, ProbeClient!Request1
  <2>3. restore' \subseteq ProbeLevels /\ \A f \in restore' : f[First] > Drop
    BY <1>4 DEF ProbeClient!TrialRequest, ProbeClient!RestoreRequest, ProbeClient!Request1,
       ProbeLevels
  <2> QED
    BY <1>1, <1>2, <2>1, <2>2, <2>3, TrialIdle
<1>5. CASE ProbeClient!Unstable \/ ProbeClient!Stable
  <2>1. stable' = FALSE \/ stable' = TRUE
    BY <1>5 DEF ProbeClient!Unstable, ProbeClient!Stable
  <2>2. stable' \in BOOLEAN
    BY <2>1, Zenon
  <2> QED
    BY <1>1, <1>2, <1>5, <2>2, TrialIdle DEF ProbeClient!Unstable, ProbeClient!Stable,
       ProbeClient!Still
<1>6. CASE ProbeClient!Claim
  <2>1. uart' = TRUE \/ uart' = FALSE
    BY <1>6 DEF ProbeClient!Claim
  <2>2. uart' \in BOOLEAN
    BY <2>1, Zenon
  <2>3. stage' = 1 => uart'
    <3>1. stage' = 1 => uart' = TRUE
      BY <1>6 DEF ProbeClient!Claim
    <3> QED
      BY <3>1, Zenon
  <2> QED
    BY <1>1, <1>2, <1>6, <2>2, <2>3, TrialIdle DEF ProbeClient!Claim, ProbeClient!Still
\* A query that ends leaves the port reset.
<1>7. ASSUME stage = 1, NEW p, ProbeClient!QueryEnds(p), ProbeClient!Still, UNCHANGED stable
      PROVE  TrialInv'
  <2>1. uart' = FALSE
    BY <1>7 DEF ProbeClient!QueryEnds, ProbeClient!Finish
  <2>2. uart' \in BOOLEAN
    BY <2>1, Zenon
  <2>3. wire' = {} /\ owed' = {} /\ rx' = <<>> /\ sent' = 0 /\ stage' = 2
    BY <1>7 DEF ProbeClient!QueryEnds, ProbeClient!Finish, ProbeClient!Reset
  <2>4. Clean'
    BY <2>3 DEF Clean, NoGain47
  <2> QED
    BY <1>1, <1>7, <2>2, <2>3, <2>4, TrialIdle DEF ProbeClient!QueryEnds, ProbeClient!Still
<1>8. CASE ProbeClient!QueryCancel \/ ProbeClient!QueryFails
  BY <1>7, <1>8 DEF ProbeClient!QueryCancel, ProbeClient!QueryFails, ProbeClient!Querying
<1>9. CASE ProbeClient!QuerySend
  <2>1. PICK n \in 0..(Bytes - sent) :
          /\ sent' = sent + n
          /\ wire' = IF sent + n = Bytes THEN {ProbeClient!QueryRequest} ELSE wire
    BY <1>9 DEF ProbeClient!QuerySend, ProbeClient!Push
  <2>2. ProbeClient!QueryRequest \in Requests(ProbeLevels) /\ ProbeClient!QueryRequest.write = {}
    BY DEF ProbeClient!QueryRequest, ProbeClient!QueryCode, Requests
  <2> HIDE DEF ProbeClient!QueryRequest
  <2>3. sent' \in 0..Bytes /\ wire' \subseteq Requests(ProbeLevels) /\
           \A f \in wire' : f \in wire \/ f.write = {}
    BY <1>1, <2>1, <2>2
  <2>4. vphase' # "complete" /\ UNCHANGED <<owed, rx>> /\ stage = 1
    BY <1>9 DEF ProbeClient!QuerySend, ProbeClient!Querying, ProbeClient!peerVars
  <2> QED
    BY <1>1, <1>9, <2>3, <2>4, TrialIdle DEF ProbeClient!QuerySend, ProbeClient!Still
<1>10. CASE ProbeClient!QueryDrain
  <2>1. vphase' # "complete" /\ stage = 1
    BY <1>10 DEF ProbeClient!QueryDrain, ProbeClient!Querying, ProbeClient!Cooldown
  <2> QED
    BY <1>1, <1>10, <2>1, TrialIdle DEF ProbeClient!QueryDrain, ProbeClient!Still
<1>11. CASE ProbeClient!QueryReceive
  <2>1. stage = 1 /\ rx # <<>> /\ ProbeClient!Still /\ UNCHANGED stable
    BY <1>11 DEF ProbeClient!QueryReceive, ProbeClient!Querying
  <2>2. CASE ProbeClient!QueryEnds("failed")
    BY <1>7, <2>1, <2>2
  <2>3. CASE /\ rx' = Tail(rx) /\ UNCHANGED <<sent, wire, owed>>
             /\ vack' = (vack \/ (ProbeClient!QueryMatches /\ ProbeClient!Frame.part = "ack"))
             /\ vreply' = (vreply \/ (ProbeClient!QueryMatches /\ ProbeClient!Frame.part = "reply"))
             /\ vphase' = ProbeClient!Cooldown(vphase)
             /\ UNCHANGED <<stage, index, uart>>
    <3>1. /\ rx' \in Seq(Frames(ProbeLevels))
          /\ \A n \in 1..Len(rx') : rx'[n] = rx[n + 1] /\ n + 1 \in 1..Len(rx)
      BY <1>1, <2>1, <2>3, ReadFrame
    <3>2. Clean => Clean'
      BY <2>3, <3>1 DEF Clean, NoGain47, IsGain
    <3>3. vack' \in BOOLEAN /\ vreply' \in BOOLEAN
      BY <1>1, <2>3
    <3>4. vphase' = "complete" => vphase = "complete"
      BY <2>3 DEF ProbeClient!Cooldown
    <3> QED
      BY <1>1, <2>1, <2>3, <3>1, <3>2, <3>3, <3>4, TrialIdle DEF ProbeClient!Still
  <2> QED
    BY <1>11, <2>2, <2>3 DEF ProbeClient!QueryReceive, ProbeClient!Read
<1>12. CASE ProbeClient!QueryAdvance
  <2>1. stage = 1 /\ ProbeClient!Still /\ UNCHANGED stable
    BY <1>12 DEF ProbeClient!QueryAdvance, ProbeClient!Querying
  <2>2. CASE ProbeClient!QueryEnds("complete")
    BY <1>7, <2>1, <2>2
  <2>3. CASE /\ index' = 1 /\ vphase' = "send" /\ sent' = 0 /\ vack' = FALSE /\ vreply' = FALSE
             /\ UNCHANGED <<wire, ProbeClient!peerVars, stage, uart>>
    <3>1. {vack', vreply'} \subseteq BOOLEAN
      BY <2>3, Zenon
    <3> QED
      BY <1>1, <2>1, <2>3, <3>1, TrialIdle DEF ProbeClient!Still, ProbeClient!peerVars
  <2> QED
    BY <1>12, <2>2, <2>3 DEF ProbeClient!QueryAdvance
<1> QED
  BY <1>3, <1>4, <1>5, <1>6, <1>8, <1>9, <1>10, <1>11, <1>12 DEF ProbeClient!Query

\* The invariant of the probe is kept by every step (dsp_volume_probe.c 147-191,
\* dsp_gain_trial.c).
LEMMA TrialStep == TrialInv /\ ProbeClient!Next => TrialInv'
  BY TrialPolls, TrialWorld, TrialBegins, TrialGivenUp, TrialOthers
     DEF ProbeClient!Next, ProbeClient!Main

\* What the probe does: it writes once each way, on the lane it is meant to, and has the
\* port whenever it is at work.
LEMMA TrialSafe ==
  ASSUME TrialInv
  PROVE  ProbeClient!OneTransaction
<1>1. kind \in {"apply", "trial", "restore"} /\ step \in 0..7 /\ writes \in Nat /\ begun <= 1
  BY DEF TrialInv, ProbeTypes, TrialTypes
<1>2. writes <= IF kind = "trial" THEN 2 ELSE 1
  BY <1>1 DEF TrialInv, Handed, Past
<1>3. ProbeClient!Busy \/ stage = 1 => uart
  BY DEF TrialInv, Probed, Active, ProbeClient!Busy
<1> QED
  BY <1>1, <1>2, <1>3 DEF ProbeClient!OneTransaction, ProbeClient!SetOnce

\* Every step of the probe changes the first lane alone (dsp_gain_trial.c 9-20).
LEMMA TrialActs ==
  ASSUME TrialInv, ProbeClient!Next
  PROVE  ProbeClient!KeepsOthers
<1>0. writes \in Nat /\ step \in 0..7
  BY DEF TrialInv, ProbeTypes, TrialTypes
<1>1. writes' <= writes \/ (ProbeClient!PollSend /\ step \in {2, 6})
  <2>1. CASE ProbeClient!GainPoll
    BY <1>0, <2>1 DEF ProbeClient!GainPoll, ProbeClient!Setting, ProbeClient!Poll,
       ProbeClient!PollSend, ProbeClient!PollDrain, ProbeClient!PollReceive,
          ProbeClient!PollAdvance, ProbeClient!PollHold, ProbeClient!PollFails,
          ProbeClient!dspVars
  <2>2. CASE ProbeClient!World
    BY <1>0, <2>2, DspSteps DEF ProbeClient!World, TrialInv, ProbeTypes
  <2>3. CASE ProbeClient!GainBegin
    BY <1>0, <2>3 DEF ProbeClient!GainBegin, ProbeClient!Begin
  <2>4. CASE \/ ProbeClient!Query \/ ProbeClient!QueryCancel \/ ProbeClient!QueryFails
             \/ ProbeClient!Playback \/ ProbeClient!TrialRequest \/ ProbeClient!RestoreRequest
             \/ ProbeClient!GainGivenUp
    <3>1. UNCHANGED writes
      BY <2>4 DEF ProbeClient!Query, ProbeClient!QueryCancel, ProbeClient!QueryFails,
         ProbeClient!Playback, ProbeClient!TrialRequest, ProbeClient!RestoreRequest,
         ProbeClient!Request1, ProbeClient!GainGivenUp, ProbeClient!Still, ProbeClient!Unstable,
         ProbeClient!Stable, ProbeClient!Claim, ProbeClient!QuerySend, ProbeClient!QueryDrain,
         ProbeClient!QueryReceive, ProbeClient!QueryAdvance, ProbeClient!gainVars
    <3> QED
      BY <1>0, <3>1
  <2> QED
    BY <2>1, <2>2, <2>3, <2>4 DEF ProbeClient!Next, ProbeClient!Main
<1>2. ASSUME writes' > writes, ~raced
      PROVE  /\ kind # "apply"
             /\ \A l \in ProbeLane \ {First} : ProbeClient!Value[l] = dsp[l]
  <2>1. writes' \in Nat
    BY TrialStep DEF TrialInv, ProbeTypes, TrialTypes
  <2>2. phase = "send" /\ step \in {2, 6}
    BY <1>0, <1>1, <1>2, <2>1 DEF ProbeClient!PollSend
  <2>3. kind # "apply" /\ reduced = ProbeClient!Lower(original) /\ original \in ProbeLevels
        /\ (step = 2 => original = dsp) /\ (step = 6 => reduced = dsp)
    BY <1>2, <2>2 DEF TrialInv, ProbeTypes, TrialTypes, Probed, Alone, Past, Active, Ended
  <2>4. \A l \in ProbeLane \ {First} : ProbeClient!Lower(original)[l] = original[l]
    BY <2>3, ProbeConstants DEF ProbeLevels, ProbeClient!Levels, ProbeClient!Lower
  <2> QED
    BY <2>2, <2>3, <2>4 DEF ProbeClient!Value
<1> QED
  BY <1>2 DEF ProbeClient!KeepsOthers

-----------------------------------------------------------------------------
\* The turns of the arbiter.

PortType == [open : BOOLEAN, tx : BOOLEAN, yielding : BOOLEAN, young : BOOLEAN]
GainType == [fault : BOOLEAN, ready : BOOLEAN, have : BOOLEAN, stale : BOOLEAN]
PeerType == [link : {"unknown", "up", "down"}, primed : BOOLEAN, blocked : BOOLEAN,
             ready : BOOLEAN, cancel : BOOLEAN, bulk : BOOLEAN, recovery : BOOLEAN, reset : BOOLEAN]
SampleType == [boundary : BOOLEAN, query : BOOLEAN, headset : BOOLEAN]

\* The records of the arbiter's state, each as a set of records.
LEMMA TurnTypesOf ==
  ASSUME TurnTypes
  PROVE  port \in PortType /\ gain \in GainType /\ peer \in PeerType /\ sample \in SampleType
  BY DEF TurnTypes, PortType, GainType, PeerType, SampleType

\* The port is closed at first, and no client has begun (native_gain_adapter.c).
LEMMA TurnInit == Arbiter!Init => TurnInv
<1> SUFFICES ASSUME Arbiter!Init
             PROVE  TurnInv
  OBVIOUS
<1>1. /\ at = "idle" /\ active = {} /\ mode = "unset"
      /\ port = Arbiter!Closed /\ gain = Arbiter!NoGain /\ peer = Arbiter!NoPeer
      /\ sample = Arbiter!NoSample /\ gate = FALSE /\ proved = FALSE
  BY DEF Arbiter!Init
<1>2. gate \in BOOLEAN /\ proved \in BOOLEAN
  BY <1>1, Zenon
<1>3. port \in PortType /\ gain \in GainType /\ peer \in PeerType /\ sample \in SampleType
  BY <1>1 DEF Arbiter!Closed, Arbiter!NoGain, Arbiter!NoPeer, Arbiter!NoSample, PortType,
     GainType, PeerType, SampleType
<1>4. TurnTypes
  BY <1>1, <1>2, <1>3 DEF TurnTypes, PortType, GainType, PeerType, SampleType
<1>5. OneActive /\ Sampled /\ Left /\ Gated
  BY <1>1 DEF OneActive, Sampled, Left, Gated, Arbiter!Closed, Arbiter!NoGain, Arbiter!NoPeer,
     Arbiter!NoSample, Clients
<1> QED
  BY <1>4, <1>5 DEF TurnInv

\* A failure of the port: nothing is under way, and the gate is closed.
LEMMA TurnFault ==
  ASSUME TurnInv, Arbiter!TransportFault
  PROVE  TurnInv'
<1>1. /\ at' = "idle" /\ active' = {} /\ mode' = "unset" /\ gate' = FALSE
      /\ peer' = Arbiter!NoPeer /\ sample' = Arbiter!NoSample /\ UNCHANGED proved
      /\ port' = [Arbiter!Closed EXCEPT !.yielding = port.yielding]
      /\ gain' = [gain EXCEPT !.fault = TRUE, !.ready = FALSE]
  BY DEF Arbiter!TransportFault, Arbiter!Cleared
<1>2. gate' \in BOOLEAN /\ proved' \in BOOLEAN
  BY <1>1, Zenon DEF TurnInv, TurnTypes
<1>3. port' \in PortType /\ ~port'.open /\ ~port'.tx
  BY <1>1, TurnTypesOf DEF TurnInv, Arbiter!Closed, PortType
<1>4. gain' \in GainType /\ ~gain'.ready
  BY <1>1, TurnTypesOf DEF TurnInv, GainType
<1>5. peer' \in PeerType /\ sample' \in SampleType
  BY <1>1 DEF Arbiter!NoPeer, Arbiter!NoSample, PeerType, SampleType
<1>6. TurnTypes'
  BY <1>1, <1>2, <1>3, <1>4, <1>5 DEF TurnTypes, PortType, GainType, PeerType, SampleType
<1>7. ~gate'
  BY <1>1, Zenon
<1>8. OneActive' /\ Left' /\ Gated'
  BY <1>1, <1>3, <1>4, <1>7 DEF OneActive, Left, Gated, Clients, Arbiter!NoPeer
<1>9. Sampled'
  BY <1>1, <1>3 DEF Sampled, Clients, Arbiter!NoSample
<1> QED
  BY <1>6, <1>8, <1>9 DEF TurnInv

\* The poll of a client other than the headset's and the gain: what may is told starts on a
\* line nobody has.
LEMMA TurnPoll ==
  ASSUME TurnInv,
         NEW c \in {"battery", "query", "settings", "menu", "meter"}, NEW next \in Clients, NEW may,
         at = c, next = "headset" => at = "battery", next # "battery",
         may /\ c \notin active => active = {} /\ ~port.tx,
         Arbiter!Poll(c, next, may)
  PROVE  TurnInv' /\ Arbiter!StartsAlone
<1>1. CASE Arbiter!Fails(c)
  <2>1. TurnInv'
    BY <1>1, TurnFault DEF Arbiter!Fails
  <2>2. active' = {}
    BY <1>1 DEF Arbiter!Fails, Arbiter!TransportFault, Arbiter!Cleared
  <2> QED
    BY <2>1, <2>2 DEF Arbiter!StartsAlone
<1>2. CASE ~Arbiter!Fails(c)
  <2>1. /\ at' = next /\ UNCHANGED <<sample, gain, mode, gate, proved, peer>>
    BY <1>2 DEF Arbiter!Poll, Arbiter!Then, Arbiter!restVars, Arbiter!Expires, Arbiter!Passes
  <2>2. port \in PortType /\ peer \in PeerType /\ sample \in SampleType /\ active \subseteq Clients
    BY TurnTypesOf DEF TurnInv, TurnTypes
  <2>3. /\ mode = "ready" /\ c \in Clients /\ \A d, e \in active : d = e
    BY DEF TurnInv, OneActive, Clients
  <2>4. /\ port' \in PortType /\ port'.open = port.open /\ port'.young = port.young
        /\ \/ active' = active /\ port' = port
           \/ c \in active /\ active' = active
           \/ c \in active /\ active' = active \ {c} /\ port' = port /\ ~port.tx
           \/ active = {} /\ ~port.tx /\ active' = {c} /\ port'.tx
    <3>1. CASE Arbiter!Goes(c)
      BY <2>2, <3>1 DEF Arbiter!Goes, PortType
    <3>2. CASE Arbiter!Ends(c)
      BY <2>2, <3>2 DEF Arbiter!Ends
    <3>3. CASE Arbiter!Expires(c) \/ Arbiter!Passes(c, may)
      BY <2>2, <3>3 DEF Arbiter!Expires, Arbiter!Passes
    <3>4. CASE c \in queued \ active /\ may /\ Arbiter!Starts(c)
      BY <2>2, <3>4 DEF Arbiter!Starts, PortType
    <3> QED
      BY <1>2, <3>1, <3>2, <3>3, <3>4 DEF Arbiter!Poll
  <2>5. TurnTypes'
    <3>1. active' \subseteq Clients /\ at' \in Clients
      BY <2>1, <2>2, <2>3, <2>4
    <3>2. port' \in PortType
      BY <2>4
    <3> QED
      BY <2>1, <3>1, <3>2 DEF TurnInv, TurnTypes, PortType
  <2>6. OneActive'
    BY <2>1, <2>2, <2>3, <2>4 DEF TurnInv, OneActive, Clients
  <2>7. Sampled'
    BY <2>1, <2>2, <2>3, <2>4 DEF TurnInv, Sampled, Clients
  <2>8. "headset" \in active' => "headset" \in active /\ port' = port
    BY <2>2, <2>3, <2>4
  <2>9. Left'
    BY <2>1, <2>2, <2>3, <2>4, <2>8 DEF TurnInv, Left, Clients
  <2>10. Gated'
    BY <2>1, <2>4 DEF TurnInv, Gated, Clients
  <2>11. Arbiter!StartsAlone
    BY <2>4 DEF Arbiter!StartsAlone
  <2> QED
    BY <2>5, <2>6, <2>7, <2>9, <2>10, <2>11 DEF TurnInv
<1> QED
  BY <1>1, <1>2

\* A sample of the boundary that is good when a client starts.
LEMMA TurnMay ==
  ASSUME TurnInv, at \in Clients, sample.query \/ sample.headset \/ sample.boundary
  PROVE  /\ active = {} => ~port.tx
         /\ sample.query => "gain" \notin active
  BY DEF TurnInv, Sampled

\* The polls of the battery, the query, the settings, the menu and the meter start on a line
\* nobody has (native_gain_adapter.c 265-307).
LEMMA TurnClients ==
  ASSUME TurnInv,
         \/ Arbiter!PollBattery \/ Arbiter!PollQuery \/ Arbiter!PollSettings
         \/ Arbiter!PollMenu \/ Arbiter!PollMeter
  PROVE  TurnInv' /\ Arbiter!StartsAlone
<1> USE DEF Arbiter!Free
<1>1. active \subseteq Clients
  BY DEF TurnInv, TurnTypes
<1>2. CASE Arbiter!PollBattery
  BY <1>1, <1>2, TurnMay, TurnPoll DEF Arbiter!PollBattery, Clients
<1>3. CASE Arbiter!PollQuery
  BY <1>1, <1>3, TurnMay, TurnPoll DEF Arbiter!PollQuery, Clients
<1>4. CASE Arbiter!PollSettings
  BY <1>1, <1>4, TurnMay, TurnPoll DEF Arbiter!PollSettings, Clients
<1>5. CASE Arbiter!PollMenu
  BY <1>1, <1>5, TurnMay, TurnPoll DEF Arbiter!PollMenu, Clients
<1>6. CASE Arbiter!PollMeter
  BY <1>1, <1>6, TurnMay, TurnPoll DEF Arbiter!PollMeter, Clients
<1> QED
  BY <1>2, <1>3, <1>4, <1>5, <1>6

\* The turn of the headset: it starts after its bulk data has come, and the first bulk
\* data that comes while it has the line is dealt with before the next turn.
LEMMA TurnHeadset ==
  ASSUME TurnInv, Arbiter!PollHeadset
  PROVE  TurnInv' /\ Arbiter!StartsAlone
<1>1. CASE Arbiter!Fails("headset")
  <2>1. TurnInv'
    BY <1>1, TurnFault DEF Arbiter!Fails
  <2>2. active' = {}
    BY <1>1 DEF Arbiter!Fails, Arbiter!TransportFault, Arbiter!Cleared
  <2> QED
    BY <2>1, <2>2 DEF Arbiter!StartsAlone
<1>2. CASE ~Arbiter!Fails("headset")
  <2>1. /\ at = "headset" /\ at' = "query" /\ UNCHANGED <<sample, gain, mode, gate, proved>>
    BY <1>2 DEF Arbiter!PollHeadset, Arbiter!Then, Arbiter!restVars
  <2>2. port \in PortType /\ peer \in PeerType /\ sample \in SampleType /\ active \subseteq Clients
    BY TurnTypesOf DEF TurnInv, TurnTypes
  <2>3. /\ mode = "ready" /\ \A d, e \in active : d = e
        /\ "headset" \in active => ~peer.reset /\ ~peer.bulk /\ ~peer.cancel
    BY <2>1 DEF TurnInv, OneActive, Left, Clients
  <2>4. /\ port' \in PortType /\ port'.open = port.open /\ port'.young = port.young
        /\ \/ active' = active /\ port' = port /\ peer' = peer
           \/ "headset" \in active /\ active' = active /\ peer' = peer
           \/ /\ "headset" \in active /\ active' = active \ {"headset"} /\ port' = port /\ ~port.tx
              /\ peer' \in PeerType /\ peer'.reset = peer.reset /\ peer'.link = peer.link
              /\ peer'.bulk = peer.bulk /\ peer'.cancel = peer.cancel
           \/ /\ active = {} /\ ~port.tx /\ active' = {"headset"} /\ port'.tx
              /\ peer' = peer /\ peer.link = "up" /\ peer.primed
    <3>1. CASE Arbiter!Then("query") /\ Arbiter!Goes("headset") /\ UNCHANGED <<queued, peer>>
      BY <2>2, <3>1 DEF Arbiter!Goes, PortType
    <3>2. CASE /\ Arbiter!Ends("headset")
               /\ \E ok \in BOOLEAN : peer' = [peer EXCEPT !.ready = ok, !.blocked = @ \/ ~ok]
      <4>1. PICK ok \in BOOLEAN : peer' = [peer EXCEPT !.ready = ok, !.blocked = @ \/ ~ok]
        BY <3>2
      <4>2. peer' \in PeerType /\ peer'.reset = peer.reset /\ peer'.link = peer.link
              /\ peer'.bulk = peer.bulk /\ peer'.cancel = peer.cancel
        BY <2>2, <4>1 DEF PeerType
      <4> QED
        BY <2>2, <3>2, <4>2 DEF Arbiter!Ends
    <3>3. CASE Arbiter!Passes("headset", Arbiter!HeadsetMay)
      BY <2>2, <3>3 DEF Arbiter!Passes
    <3>4. CASE "headset" \in queued \ active /\ Arbiter!HeadsetMay /\ Arbiter!Starts("headset") /\
                  UNCHANGED peer
      <4>1. active = {} /\ sample.headset /\ peer.link = "up" /\ peer.primed
        BY <2>2, <3>4 DEF Arbiter!HeadsetMay, Arbiter!HeadsetFree, Arbiter!Free, Clients
      <4>2. ~port.tx
        BY <2>1, <4>1, TurnMay DEF Clients
      <4> QED
        BY <2>2, <3>4, <4>1, <4>2 DEF Arbiter!Starts, PortType
    <3> QED
      BY <1>2, <3>1, <3>2, <3>3, <3>4 DEF Arbiter!PollHeadset
  <2>5. peer' \in PeerType /\ peer'.reset = peer.reset /\ peer'.link = peer.link
              /\ peer'.bulk = peer.bulk /\ peer'.cancel = peer.cancel
    BY <2>2, <2>4
  <2>6. TurnTypes'
    <3>1. active' \subseteq Clients /\ at' \in Clients
      BY <2>1, <2>2, <2>4 DEF Clients
    <3>2. port' \in PortType
      BY <2>4
    <3> QED
      BY <2>1, <2>5, <3>1, <3>2 DEF TurnInv, TurnTypes, PortType, PeerType
  <2>7. OneActive'
    BY <2>1, <2>2, <2>3, <2>4, <2>5 DEF TurnInv, OneActive, Clients
  <2>8. Sampled'
    BY <2>1, <2>2, <2>3, <2>4 DEF TurnInv, Sampled, Clients
  <2>9. Left'
    <3>1. CASE "headset" \notin active'
      <4>1. ~peer'.bulk /\ ~peer'.cancel
        BY <2>2, <2>3, <2>5 DEF TurnInv, Left
      <4> QED
        BY <2>1, <3>1, <4>1 DEF Left, Clients
    <3>2. CASE "headset" \in active'
      <4>1. peer' = peer /\ (("headset" \in active) \/ (port'.tx /\ peer.link = "up" /\
               peer.primed))
        BY <2>2, <2>4, <3>2
      <4>2. CASE "headset" \in active
        BY <2>1, <2>3, <3>2, <4>1, <4>2 DEF TurnInv, Left, Clients
      <4>3. CASE "headset" \notin active
        BY <2>1, <2>3, <3>2, <4>1, <4>3 DEF TurnInv, Left, Clients
      <4> QED
        BY <4>2, <4>3
    <3> QED
      BY <3>1, <3>2
  <2>10. Gated'
    BY <2>1, <2>4, <2>5 DEF TurnInv, Gated, Clients
  <2>11. Arbiter!StartsAlone
    BY <2>4 DEF Arbiter!StartsAlone
  <2> QED
    BY <2>6, <2>7, <2>8, <2>9, <2>10, <2>11 DEF TurnInv
<1> QED
  BY <1>1, <1>2

\* What is heard: the link is known for good, a change of it under a loudness is followed by
\* giving that up, and a first bulk answer is remembered.
LEMMA TurnHears ==
  ASSUME TurnInv, Arbiter!Hears
  PROVE  /\ peer' \in PeerType /\ proved' \in BOOLEAN /\ peer'.bulk = peer.bulk
         /\ peer'.link = "unknown" => peer.link = "unknown"
         /\ "headset" \notin active => ~peer'.cancel
         /\ "headset" \in active /\ ~peer'.bulk /\ ~peer'.cancel =>
              ~peer.cancel /\ peer'.link = "up" /\ peer'.primed /\ peer'.reset = peer.reset
         /\ gain.ready => proved' \/ peer'.reset
<1>1. PICK event \in {"none", "up", "down", "bulk"} : Arbiter!Heard(event)
  BY DEF Arbiter!Hears
<1>2. peer \in PeerType /\ proved \in BOOLEAN /\ active \subseteq Clients
  BY TurnTypesOf DEF TurnInv, TurnTypes
<1>3. /\ gain.ready => proved \/ peer.reset
      /\ "headset" \notin active => ~peer.cancel
      /\ "headset" \in active => peer.link # "unknown"
      /\ "headset" \in active /\ ~peer.bulk /\ ~peer.cancel => peer.link = "up" /\ peer.primed
  BY DEF TurnInv, Gated, Left, OneActive
<1>4. CASE event = "none"
  BY <1>1, <1>2, <1>3, <1>4 DEF Arbiter!Heard
<1>5. CASE event = "up"
  <2>1. /\ peer' = [peer EXCEPT !.link = "up",
                      !.cancel = @ \/ (peer.link = "down" /\ "headset" \in active),
                      !.primed = @ /\ peer.link = "up", !.ready = @ /\ peer.link = "up",
                      !.blocked = @ /\ peer.link = "up", !.recovery = @ \/ peer.link = "down"]
        /\ proved' = proved
    BY <1>1, <1>5 DEF Arbiter!Heard
  <2> DEFINE turned == peer.cancel \/ (peer.link = "down" /\ "headset" \in active)
             primed == peer.primed /\ peer.link = "up"
             able == peer.ready /\ peer.link = "up"
             blocked == peer.blocked /\ peer.link = "up"
             back == peer.recovery \/ peer.link = "down"
  <2>a. {turned, primed, able, blocked, back} \subseteq BOOLEAN
    BY <1>2, Zenon DEF PeerType
  <2>b. peer' = [peer EXCEPT !.link = "up", !.cancel = turned, !.primed = primed, !.ready = able,
                             !.blocked = blocked, !.recovery = back]
    BY <1>2, <2>1 DEF PeerType
  <2> HIDE DEF turned, primed, able, blocked, back
  <2>c. peer' = [link |-> "up", primed |-> primed, blocked |-> blocked, ready |-> able,
                 cancel |-> turned, bulk |-> peer.bulk, recovery |-> back, reset |-> peer.reset]
    BY <1>2, <2>b DEF PeerType
  <2>2. peer' \in PeerType
    BY <1>2, <2>a, <2>c DEF PeerType
  <2>3. /\ peer'.link = "up" /\ peer'.bulk = peer.bulk /\ peer'.reset = peer.reset
        /\ peer'.cancel <=> peer.cancel \/ (peer.link = "down" /\ "headset" \in active)
        /\ peer'.primed <=> peer.primed /\ peer.link = "up"
    BY <1>2, <2>1 DEF PeerType
  <2> QED
    BY <1>2, <1>3, <2>1, <2>2, <2>3 DEF PeerType
<1>6. CASE event = "down"
  <2>1. /\ peer' = [peer EXCEPT !.link = "down", !.cancel = "headset" \in active,
                                !.primed = FALSE, !.ready = FALSE]
        /\ proved' = proved
    BY <1>1, <1>6 DEF Arbiter!Heard
  <2> DEFINE held == "headset" \in active
  <2>a. held \in BOOLEAN
    OBVIOUS
  <2> HIDE DEF held
  <2>b. peer' = [peer EXCEPT !.link = "down", !.cancel = held, !.primed = FALSE, !.ready = FALSE]
    BY <2>1 DEF held
  <2>2. peer' \in PeerType
    BY <1>2, <2>a, <2>b DEF PeerType
  <2>3. /\ peer'.link = "down" /\ peer'.bulk = peer.bulk /\ peer'.reset = peer.reset
        /\ peer'.cancel <=> "headset" \in active
    BY <1>2, <2>1 DEF PeerType
  <2> QED
    BY <1>2, <1>3, <2>1, <2>2, <2>3 DEF PeerType
<1>7. CASE event = "bulk"
  <2>1. /\ peer' = [peer EXCEPT !.primed = TRUE, !.reset = @ \/ ~peer.primed]
        /\ (peer.primed /\ proved' = proved) \/ (~peer.primed /\ proved' = FALSE)
    BY <1>1, <1>7 DEF Arbiter!Heard
  <2>2. proved' \in BOOLEAN
    BY <1>2, <2>1, Zenon
  <2>3. peer' \in PeerType
    BY <1>2, <2>1 DEF PeerType
  <2>4. /\ peer'.link = peer.link /\ peer'.bulk = peer.bulk /\ peer'.cancel = peer.cancel
        /\ peer'.primed
        /\ peer'.reset <=> peer.reset \/ ~peer.primed
    BY <1>2, <2>1 DEF PeerType
  <2>5. gain.ready => proved' \/ peer'.reset
    <3>1. CASE peer.primed /\ proved' = proved
      BY <1>3, <2>4, <3>1, Zenon
    <3>2. CASE ~peer.primed
      BY <2>4, <3>2
    <3> QED
      BY <1>3, <2>1, <2>4, <3>1, <3>2
  <2>6. peer.primed => peer'.reset = peer.reset
    BY <1>2, <2>3, <2>4 DEF PeerType
  <2> QED
    BY <1>3, <2>2, <2>3, <2>4, <2>5, <2>6
<1> QED
  BY <1>1, <1>4, <1>5, <1>6, <1>7

\* The beginning of a turn.
LEMMA TurnBegin ==
  ASSUME TurnInv, Arbiter!Begin
  PROVE  TurnInv' /\ Arbiter!StartsAlone
<1>1. /\ at = "idle" /\ at' = "samples" /\ port.open
      /\ UNCHANGED <<active, gain, mode, sample, gate>>
  BY DEF Arbiter!Begin
<1>2. port \in PortType /\ peer \in PeerType /\ proved \in BOOLEAN /\ active \subseteq Clients
  BY TurnTypesOf DEF TurnInv, TurnTypes
<1>3. PICK tx \in {port.tx, port.tx /\ active # {}} :
        port' = [port EXCEPT !.tx = tx, !.yielding = @ \/ Arbiter!Releasing]
  BY DEF Arbiter!Begin
<1>4. port' \in PortType /\ port'.open = port.open /\ port'.young = port.young
  BY <1>2, <1>3 DEF PortType
<1>5. active # {} => port'.tx = port.tx
  BY <1>2, <1>3 DEF PortType
<1>6. /\ peer' \in PeerType /\ proved' \in BOOLEAN /\ peer'.bulk = peer.bulk
      /\ peer'.link = "unknown" => peer.link = "unknown"
      /\ "headset" \notin active => ~peer'.cancel
      /\ "headset" \in active /\ ~peer'.bulk /\ ~peer'.cancel =>
           ~peer.cancel /\ peer'.link = "up" /\ peer'.primed /\ peer'.reset = peer.reset
      /\ gain.ready => proved' \/ peer'.reset
  <2>1. CASE Arbiter!Releasing
    <3>1. /\ peer' = [peer EXCEPT !.cancel = @ \/ "headset" \in active] /\ proved' = proved
      BY <2>1 DEF Arbiter!Begin
    <3>2. peer' \in PeerType
      BY <1>2, <3>1 DEF PeerType
    <3>3. /\ peer'.link = peer.link /\ peer'.bulk = peer.bulk /\ peer'.reset = peer.reset
          /\ peer'.cancel <=> peer.cancel \/ "headset" \in active
      BY <1>2, <3>1 DEF PeerType
    <3> QED
      BY <1>2, <3>1, <3>2, <3>3 DEF TurnInv, Left, Gated
  <2>2. CASE ~Arbiter!Releasing /\ "gain" \in active
    <3>1. peer' = peer /\ proved' = proved /\ "headset" \notin active
      BY <2>2 DEF Arbiter!Begin, TurnInv, OneActive
    <3> QED
      BY <1>2, <3>1 DEF TurnInv, Left, Gated
  <2>3. CASE ~Arbiter!Releasing /\ "gain" \notin active
    BY <2>3, TurnHears DEF Arbiter!Begin
  <2> QED
    BY <2>1, <2>2, <2>3
<1>7. TurnTypes'
  BY <1>1, <1>2, <1>4, <1>6 DEF TurnInv, TurnTypes, PortType, PeerType
<1>8. OneActive'
  BY <1>1, <1>2, <1>4, <1>6 DEF TurnInv, OneActive, Clients
<1>9. Sampled'
  BY <1>1 DEF TurnInv, Sampled, Clients
<1>10. Left'
  BY <1>1, <1>2, <1>5, <1>6 DEF TurnInv, Left, Clients
<1>11. Gated'
  BY <1>1, <1>4, <1>6 DEF TurnInv, Gated, Clients
<1> QED
  BY <1>1, <1>7, <1>8, <1>9, <1>10, <1>11 DEF TurnInv, Arbiter!StartsAlone

\* The samples of a turn.
LEMMA TurnSamples ==
  ASSUME TurnInv, Arbiter!Samples
  PROVE  TurnInv' /\ Arbiter!StartsAlone
<1>1. /\ at = "samples" /\ at' = "bootstrap"
      /\ UNCHANGED <<port, active, gain, mode, gate, proved, peer>>
  BY DEF Arbiter!Samples, Arbiter!restVars
<1>2. port \in PortType /\ gain \in GainType /\ sample \in SampleType
  BY TurnTypesOf DEF TurnInv
<1>3. PICK b \in {FALSE, ~port.tx} :
        sample' = [boundary |-> b, query |-> b /\ ~port.yielding /\ Arbiter!Settled,
                   headset |-> b /\ ~port.yielding /\ gain.ready /\ gain.have /\ ~gain.fault
                               /\ "gain" \notin active /\ Arbiter!TurnOf]
  BY DEF Arbiter!Samples
<1>4. /\ sample' \in SampleType
      /\ sample'.boundary => ~port.tx
      /\ sample'.query \/ sample'.headset => sample'.boundary
      /\ sample'.query => "gain" \notin active
  BY <1>2, <1>3 DEF PortType, GainType, SampleType, Arbiter!Settled
<1>5. TurnTypes'
  BY <1>1, <1>4 DEF TurnInv, TurnTypes, SampleType
<1>6. OneActive' /\ Sampled' /\ Left' /\ Gated'
  BY <1>1, <1>4 DEF TurnInv, OneActive, Sampled, Left, Gated, Clients
<1> QED
  BY <1>1, <1>5, <1>6 DEF TurnInv, Arbiter!StartsAlone

\* The link is asked for on a line nobody has.
LEMMA TurnBootstrap ==
  ASSUME TurnInv, Arbiter!Bootstrap
  PROVE  TurnInv' /\ Arbiter!StartsAlone
<1> DEFINE Asks == /\ mode = "unset" /\ active \cap {"gain", "headset"} = {}
                   /\ ("battery" \in active \/ (peer.link = "unknown" /\ port.young))
<1>1. port \in PortType /\ sample \in SampleType /\ active \subseteq Clients /\ at = "bootstrap"
  BY TurnTypesOf DEF TurnInv, TurnTypes, Arbiter!Bootstrap
<1>2. \/ ~Asks /\ Arbiter!Then("prime") /\ UNCHANGED <<active, port, peer>>
      \/ Asks /\ Arbiter!Fails("battery")
      \/ /\ Asks /\ UNCHANGED <<gain, mode, peer, proved>>
         /\ \/ Arbiter!Goes("battery") \/ Arbiter!Ends("battery")
            \/ "battery" \notin active /\ UNCHANGED <<active, port>>
            \/ /\ "battery" \notin active /\ Arbiter!May
               /\ active' = active \cup {"battery"} /\ port' = [port EXCEPT !.tx = TRUE]
         /\ IF "battery" \in active' \/ peer.link = "unknown" THEN Arbiter!Cut
            ELSE at' = "prime" /\ UNCHANGED <<sample, gate>>
  BY DEF Arbiter!Bootstrap
<1>3. CASE ~Asks /\ Arbiter!Then("prime") /\ UNCHANGED <<active, port, peer>>
  <2>1. /\ at' = "prime"
        /\ UNCHANGED <<sample, gain, mode, gate, proved, active, port, peer>>
    BY <1>3 DEF Arbiter!Then, Arbiter!restVars
  <2>2. mode = "unset" => "battery" \notin active /\ ~(peer.link = "unknown" /\ port.young)
    BY <1>1, <1>3 DEF TurnInv, OneActive, Clients
  <2>3. TurnTypes' /\ OneActive'
    BY <1>1, <2>1, <2>2 DEF TurnInv, TurnTypes, OneActive, Clients
  <2>4. Sampled' /\ Left' /\ Gated'
    BY <1>1, <2>1 DEF TurnInv, Sampled, Left, Gated, Clients
  <2> QED
    BY <2>1, <2>3, <2>4 DEF TurnInv, Arbiter!StartsAlone
<1>4. CASE Asks /\ Arbiter!Fails("battery")
  <2>1. TurnInv'
    BY <1>4, TurnFault DEF Arbiter!Fails
  <2>2. active' = {}
    BY <1>4 DEF Arbiter!Fails, Arbiter!TransportFault, Arbiter!Cleared
  <2> QED
    BY <2>1, <2>2 DEF Arbiter!StartsAlone
<1>5. CASE /\ Asks /\ UNCHANGED <<gain, mode, peer, proved>>
           /\ \/ Arbiter!Goes("battery") \/ Arbiter!Ends("battery")
              \/ "battery" \notin active /\ UNCHANGED <<active, port>>
              \/ /\ "battery" \notin active /\ Arbiter!May
                 /\ active' = active \cup {"battery"} /\ port' = [port EXCEPT !.tx = TRUE]
           /\ IF "battery" \in active' \/ peer.link = "unknown" THEN Arbiter!Cut
              ELSE at' = "prime" /\ UNCHANGED <<sample, gate>>
  <2>1. mode = "unset" /\ UNCHANGED <<gain, mode, peer, proved>>
    BY <1>5
  <2>2. active \subseteq {"battery"}
    BY <1>1, <1>5 DEF TurnInv, OneActive, Clients
  <2>3. /\ port' \in PortType /\ port'.open = port.open /\ port'.young = port.young
        /\ \/ "battery" \in active /\ active' = active
           \/ active' = {} /\ port' = port
           \/ active = {} /\ ~port.tx /\ active' = {"battery"}
    <3>1. CASE Arbiter!Goes("battery")
      BY <1>1, <3>1 DEF Arbiter!Goes, PortType
    <3>2. CASE Arbiter!Ends("battery")
      BY <1>1, <2>2, <3>2 DEF Arbiter!Ends
    <3>3. CASE "battery" \notin active /\ UNCHANGED <<active, port>>
      BY <1>1, <2>2, <3>3
    <3>4. CASE /\ "battery" \notin active /\ Arbiter!May
               /\ active' = active \cup {"battery"} /\ port' = [port EXCEPT !.tx = TRUE]
      <4>1. ~port.tx
        BY <1>1, <3>4 DEF Arbiter!May, TurnInv, Sampled
      <4> QED
        BY <1>1, <2>2, <3>4, <4>1 DEF PortType
    <3> QED
      BY <1>5, <3>1, <3>2, <3>3, <3>4
  <2>4. \/ at' = "idle" /\ gate' = FALSE /\ sample' = Arbiter!NoSample
        \/ /\ at' = "prime" /\ UNCHANGED <<sample, gate>>
           /\ "battery" \notin active' /\ peer.link # "unknown"
    BY <1>5 DEF Arbiter!Cut
  <2>5. gate' \in BOOLEAN /\ (at' = "idle" => ~gate') /\ (~gate => ~gate')
    <3>1. gate \in BOOLEAN
      BY DEF TurnInv, TurnTypes
    <3>2. gate' = FALSE \/ (gate' = gate /\ at' # "idle")
      BY <2>4
    <3>3. CASE gate' = FALSE
      BY <3>3, Zenon
    <3>4. CASE gate' = gate /\ at' # "idle"
      BY <3>1, <3>4, Zenon
    <3> QED
      BY <3>2, <3>3, <3>4
  <2>6. sample' \in SampleType /\ (at' = "idle" =>
           ~sample'.boundary /\ ~sample'.query /\ ~sample'.headset)
    <3>1. CASE sample' = Arbiter!NoSample
      BY <3>1 DEF SampleType, Arbiter!NoSample
    <3>2. CASE at' = "prime" /\ sample' = sample
      BY <1>1, <3>2
    <3> QED
      BY <2>4, <3>1, <3>2
  <2>7. active' \subseteq {"battery"}
    BY <2>2, <2>3
  <2>8. TurnTypes'
    BY <2>1, <2>3, <2>4, <2>5, <2>6, <2>7 DEF TurnInv, TurnTypes, PortType, SampleType, Clients
  <2>9. OneActive'
    BY <2>1, <2>3, <2>4, <2>7 DEF TurnInv, OneActive, Clients
  <2>10. Sampled'
    BY <1>1, <2>3, <2>4, <2>6 DEF TurnInv, Sampled, Clients
  <2>11. Left'
    BY <2>1, <2>2, <2>4, <2>7 DEF TurnInv, Left, Clients
  <2>12. Gated'
    BY <1>1, <2>1, <2>2, <2>3, <2>4, <2>5 DEF TurnInv, Gated, Clients
  <2>13. Arbiter!StartsAlone
    BY <2>3 DEF Arbiter!StartsAlone
  <2> QED
    BY <2>8, <2>9, <2>10, <2>11, <2>12, <2>13 DEF TurnInv
<1> QED
  BY <1>2, <1>3, <1>4, <1>5

\* The first bulk data of the headset is dealt with once the line is nobody else's.
LEMMA TurnPrime ==
  ASSUME TurnInv, Arbiter!Prime
  PROVE  TurnInv' /\ Arbiter!StartsAlone
<1>1. /\ at = "prime" /\ ~Arbiter!Priming /\ UNCHANGED <<active, port, sample, gate, proved>>
      /\ at' = IF mode' = "ready" THEN "battery" ELSE "mode"
      /\ peer' = [peer EXCEPT !.reset = @ /\ ~Arbiter!Unowned]
  BY DEF Arbiter!Prime
<1>2. /\ peer \in PeerType /\ gain \in GainType /\ active \subseteq Clients
      /\ mode \in {"unset", "requested", "ready", "failed"}
  BY TurnTypesOf DEF TurnInv, TurnTypes
<1>3. \/ /\ active \subseteq {"headset"} /\ peer.reset /\ mode' = "unset"
         /\ gain' = [gain EXCEPT !.ready = FALSE, !.have = FALSE]
      \/ (active \subseteq {"headset"} => ~peer.reset) /\ UNCHANGED <<mode, gain>>
  BY DEF Arbiter!Prime, Arbiter!Afresh, Arbiter!Unowned
<1>4. /\ gain' \in GainType /\ (gain'.ready => gain.ready)
      /\ (gain'.ready /\ active \subseteq {"headset"} => ~peer.reset)
  <2>1. CASE gain' = [gain EXCEPT !.ready = FALSE, !.have = FALSE]
    BY <1>2, <2>1 DEF GainType
  <2>2. CASE gain' = gain /\ (active \subseteq {"headset"} => ~peer.reset)
    BY <1>2, <2>2
  <2> QED
    BY <1>3, <2>1, <2>2
<1>5. /\ peer' \in PeerType /\ peer'.link = peer.link /\ peer'.primed = peer.primed
      /\ peer'.bulk = peer.bulk /\ peer'.cancel = peer.cancel
      /\ peer'.reset <=> peer.reset /\ ~(active \subseteq {"headset"})
  <2>1. Arbiter!Unowned <=> active \subseteq {"headset"}
    BY DEF Arbiter!Unowned
  <2> QED
    BY <1>1, <1>2, <2>1 DEF PeerType
<1>6. "headset" \in active => active \subseteq {"headset"} /\ ~peer.bulk /\ ~peer.cancel
  BY <1>1 DEF TurnInv, OneActive, Arbiter!Priming, Arbiter!Unowned
<1>7. TurnTypes'
  BY <1>1, <1>2, <1>3, <1>4, <1>5 DEF TurnInv, TurnTypes, GainType, PeerType, Clients
<1>8. OneActive'
  BY <1>1, <1>2, <1>3, <1>5, <1>6 DEF TurnInv, OneActive, Clients
<1>9. Sampled'
  BY <1>1 DEF TurnInv, Sampled, Clients
<1>10. Left'
  <2>1. CASE "headset" \notin active
    BY <1>1, <1>5, <2>1 DEF TurnInv, Left, Clients
  <2>2. CASE "headset" \in active
    BY <1>1, <1>3, <1>5, <1>6, <2>2 DEF TurnInv, Left, Clients
  <2> QED
    BY <2>1, <2>2
<1>11. Gated'
  BY <1>1, <1>4, <1>5 DEF TurnInv, Gated, Clients
<1> QED
  BY <1>1, <1>7, <1>8, <1>9, <1>10, <1>11 DEF TurnInv, Arbiter!StartsAlone

\* The turn is cut short: the gate is closed and the samples are gone.
LEMMA TurnCut ==
  ASSUME Arbiter!Cut
  PROVE  /\ at' = "idle" /\ gate' \in BOOLEAN /\ ~gate'
         /\ sample' \in SampleType /\ ~sample'.boundary /\ ~sample'.query /\ ~sample'.headset
<1>1. at' = "idle" /\ gate' = FALSE /\ sample' = Arbiter!NoSample
  BY DEF Arbiter!Cut
<1>2. gate' \in BOOLEAN /\ ~gate'
  BY <1>1, Zenon
<1> QED
  BY <1>1, <1>2 DEF SampleType, Arbiter!NoSample

\* The bulk data of the headset is asked for, or its request given up.
LEMMA TurnBulk ==
  ASSUME TurnInv, Arbiter!Bulk
  PROVE  TurnInv' /\ Arbiter!StartsAlone
<1>1. CASE Arbiter!Fails("headset")
  <2>1. TurnInv'
    BY <1>1, TurnFault DEF Arbiter!Fails
  <2>2. active' = {}
    BY <1>1 DEF Arbiter!Fails, Arbiter!TransportFault, Arbiter!Cleared
  <2> QED
    BY <2>1, <2>2 DEF Arbiter!StartsAlone
<1>2. CASE ~Arbiter!Fails("headset")
  <2> DEFINE p == [peer EXCEPT !.reset = FALSE]
             given == [p EXCEPT !.bulk = FALSE, !.cancel = FALSE,
                                !.blocked = @ \/ ~(peer.primed \/ peer.cancel)]
             bulked == [p EXCEPT !.bulk = TRUE]
  <2>1. /\ at = "prime" /\ Arbiter!Priming /\ Arbiter!Afresh /\ Arbiter!Cut /\ UNCHANGED proved
        /\ \/ Arbiter!Goes("headset") /\ peer' = p
           \/ Arbiter!Ends("headset") /\ peer' = given
           \/ /\ "headset" \notin active /\ Arbiter!May /\ Arbiter!Starts("headset")
              /\ peer' = bulked
           \/ "headset" \notin active /\ peer' = p /\ UNCHANGED <<active, port>>
    BY <1>2 DEF Arbiter!Bulk
  <2>2. /\ port \in PortType /\ peer \in PeerType /\ gain \in GainType /\ active \subseteq Clients
    BY TurnTypesOf DEF TurnInv, TurnTypes
  <2>3. /\ active \subseteq {"headset"}
        /\ "headset" \in active => peer.bulk \/ peer.cancel
        /\ "headset" \notin active => peer.link = "up" /\ ~peer.bulk /\ ~peer.cancel
    BY <2>1 DEF Arbiter!Priming, Arbiter!Unowned, TurnInv, Left
  <2>4. mode' = "unset" /\ gain' \in GainType /\ ~gain'.ready
    BY <2>1, <2>2 DEF Arbiter!Afresh, GainType
  <2>5. /\ p \in PeerType /\ ~p.reset /\ p.link = peer.link /\ p.primed = peer.primed
        /\ p.bulk = peer.bulk /\ p.cancel = peer.cancel
    BY <2>2 DEF PeerType
  <2>6. /\ given \in PeerType /\ given.link = peer.link /\ ~given.bulk /\ ~given.cancel
    <3> DEFINE b == p.blocked \/ ~(peer.primed \/ peer.cancel)
    <3>1. b \in BOOLEAN /\ given = [p EXCEPT !.bulk = FALSE, !.cancel = FALSE, !.blocked = b]
      BY <2>2, <2>5 DEF PeerType
    <3> HIDE DEF b, p, given
    <3> QED
      BY <2>5, <3>1 DEF PeerType
  <2>7. bulked \in PeerType /\ bulked.link = peer.link /\ bulked.bulk /\ ~bulked.reset
    <3> HIDE DEF p
    <3> QED
      BY <2>5 DEF PeerType
  <2>8. /\ port' \in PortType /\ port'.open = port.open /\ port'.young = port.young
        /\ peer' \in PeerType /\ peer'.link = peer.link
        /\ \/ active' = {} /\ ~peer'.bulk /\ ~peer'.cancel
           \/ "headset" \in active /\ active' = active /\ (peer'.bulk \/ peer'.cancel)
           \/ active = {} /\ ~port.tx /\ active' = {"headset"} /\ peer'.bulk /\ peer.link = "up"
    <3> HIDE DEF p, given, bulked
    <3>1. CASE Arbiter!Goes("headset") /\ peer' = p
      BY <2>2, <2>3, <2>5, <3>1 DEF Arbiter!Goes, PortType
    <3>2. CASE Arbiter!Ends("headset") /\ peer' = given
      BY <2>2, <2>3, <2>6, <3>2 DEF Arbiter!Ends
    <3>3. CASE /\ "headset" \notin active /\ Arbiter!May /\ Arbiter!Starts("headset")
               /\ peer' = bulked
      <4>1. ~port.tx
        BY <2>1, <3>3 DEF Arbiter!May, TurnInv, Sampled
      <4> QED
        BY <2>2, <2>3, <2>7, <3>3, <4>1 DEF Arbiter!Starts, PortType
    <3>4. CASE "headset" \notin active /\ peer' = p /\ UNCHANGED <<active, port>>
      BY <2>2, <2>3, <2>5, <3>4
    <3> QED
      BY <2>1, <3>1, <3>2, <3>3, <3>4
  <2>9. /\ at' = "idle" /\ gate' \in BOOLEAN /\ ~gate'
        /\ sample' \in SampleType /\ ~sample'.boundary /\ ~sample'.query /\ ~sample'.headset
    BY <2>1, TurnCut
  <2>10. active' \subseteq {"headset"}
    BY <2>3, <2>8
  <2>11. TurnTypes'
    BY <2>1, <2>4, <2>8, <2>9, <2>10
       DEF TurnInv, TurnTypes, PortType, PeerType, GainType, SampleType, Clients
  <2>12. OneActive'
    BY <2>1, <2>4, <2>8, <2>9, <2>10 DEF TurnInv, OneActive, Clients
  <2>13. Sampled'
    BY <2>9 DEF Sampled, Clients
  <2>14. Left'
    BY <2>8, <2>9, <2>10 DEF Left, Clients
  <2>15. Gated'
    BY <2>1, <2>4, <2>8, <2>9 DEF TurnInv, Gated, Clients
  <2>16. Arbiter!StartsAlone
    BY <2>3, <2>8 DEF Arbiter!StartsAlone
  <2> QED
    BY <2>11, <2>12, <2>13, <2>14, <2>15, <2>16 DEF TurnInv
<1> QED
  BY <1>1, <1>2

\* The settings have the line while the mode is not set, or the headset whose bytes are
\* still to leave.
LEMMA TurnMode ==
  ASSUME TurnInv, at = "mode"
  PROVE  /\ active \subseteq {"settings", "headset"} /\ mode # "ready"
         /\ ~(peer.link = "unknown" /\ port.young) /\ port.open
         /\ sample.boundary /\ "settings" \notin active => active = {} /\ ~port.tx
<1>1. /\ active \subseteq {"settings", "headset"} /\ mode # "ready"
      /\ ~(peer.link = "unknown" /\ port.young) /\ port.open
  BY DEF TurnInv, TurnTypes, OneActive, Gated, Clients
<1>2. sample.boundary => ~port.tx
  BY DEF TurnInv, Sampled
<1>3. "headset" \in active => port.tx
  BY <1>1 DEF TurnInv, Left, Clients
<1> QED
  BY <1>1, <1>2, <1>3

\* The output mode is asked for.
LEMMA TurnModeAsk ==
  ASSUME TurnInv, Arbiter!ModeAsk
  PROVE  TurnInv' /\ Arbiter!StartsAlone
<1>1. /\ at = "mode" /\ mode = "unset" /\ "settings" \notin active /\ mode' = "requested"
      /\ UNCHANGED <<active, port, gain, peer, proved>>
  BY DEF Arbiter!ModeAsk
<1>2. /\ at' = "idle" /\ gate' \in BOOLEAN /\ ~gate'
      /\ sample' \in SampleType /\ ~sample'.boundary /\ ~sample'.query /\ ~sample'.headset
  BY TurnCut DEF Arbiter!ModeAsk
<1>3. TurnTypes'
  BY <1>1, <1>2 DEF TurnInv, TurnTypes, SampleType
<1>4. OneActive'
  BY <1>1, <1>2, TurnMode DEF TurnInv, OneActive, Clients
<1>5. Sampled' /\ Left' /\ Gated'
  BY <1>1, <1>2 DEF TurnInv, Sampled, Left, Gated, Clients
<1> QED
  BY <1>1, <1>3, <1>4, <1>5 DEF TurnInv, Arbiter!StartsAlone

\* The mode is set and read back, on a line nobody else has.
LEMMA TurnModePoll ==
  ASSUME TurnInv, Arbiter!ModePoll
  PROVE  TurnInv' /\ Arbiter!StartsAlone
<1>1. CASE Arbiter!Fails("settings")
  <2>1. TurnInv'
    BY <1>1, TurnFault DEF Arbiter!Fails
  <2>2. active' = {}
    BY <1>1 DEF Arbiter!Fails, Arbiter!TransportFault, Arbiter!Cleared
  <2> QED
    BY <2>1, <2>2 DEF Arbiter!StartsAlone
<1>2. CASE ~Arbiter!Fails("settings")
  <2>1. /\ at = "mode" /\ Arbiter!Cut /\ UNCHANGED <<gain, mode, peer, proved>>
        /\ \/ Arbiter!Goes("settings")
           \/ Arbiter!Ends("settings")
           \/ "settings" \notin active /\ sample.boundary /\ Arbiter!Starts("settings")
           \/ UNCHANGED <<active, port>>
    BY <1>2 DEF Arbiter!ModePoll, Arbiter!Expires
  <2>2. port \in PortType /\ active \subseteq Clients /\ \A c, d \in active : c = d
    BY TurnTypesOf DEF TurnInv, TurnTypes, OneActive
  <2>3. /\ at' = "idle" /\ gate' \in BOOLEAN /\ ~gate'
        /\ sample' \in SampleType /\ ~sample'.boundary /\ ~sample'.query /\ ~sample'.headset
    BY <2>1, TurnCut
  <2>4. /\ port' \in PortType /\ port'.open = port.open /\ port'.young = port.young
        /\ \/ active' = {}
           \/ active' = active /\ (port' = port \/ active = {"settings"})
           \/ active = {} /\ ~port.tx /\ active' = {"settings"}
    <3>1. CASE Arbiter!Goes("settings")
      BY <2>2, <3>1 DEF Arbiter!Goes, PortType
    <3>2. CASE Arbiter!Ends("settings")
      BY <2>2, <3>2 DEF Arbiter!Ends
    <3>3. CASE "settings" \notin active /\ sample.boundary /\ Arbiter!Starts("settings")
      <4>1. active = {} /\ ~port.tx
        BY <2>1, <3>3, TurnMode
      <4> QED
        BY <2>2, <3>3, <4>1 DEF Arbiter!Starts, PortType
    <3>4. CASE UNCHANGED <<active, port>>
      BY <2>2, <3>4
    <3> QED
      BY <2>1, <3>1, <3>2, <3>3, <3>4
  <2>5. active' \subseteq {"settings", "headset"}
    BY <2>1, <2>4, TurnMode
  <2>6. "headset" \in active' => active' = active /\ port' = port
    BY <2>4
  <2>7. TurnTypes'
    BY <2>1, <2>3, <2>4, <2>5 DEF TurnInv, TurnTypes, PortType, SampleType, Clients
  <2>8. OneActive'
    BY <2>1, <2>2, <2>3, <2>4, <2>5, TurnMode DEF TurnInv, OneActive, Clients
  <2>9. Sampled'
    BY <2>3 DEF Sampled, Clients
  <2>10. Left'
    <3>1. "headset" \notin active' => ~peer.bulk /\ ~peer.cancel
      <4>1. at \in {"mode"} \cup Clients /\ "headset" \in active => ~peer.bulk /\ ~peer.cancel
        BY DEF TurnInv, Left
      <4> QED
        BY <2>1, <4>1 DEF TurnInv, Left
    <3> QED
      BY <2>1, <2>3, <2>6, <3>1 DEF TurnInv, Left, Clients
  <2>11. Gated'
    BY <2>1, <2>3, <2>4, TurnMode DEF TurnInv, Gated, Clients
  <2>12. Arbiter!StartsAlone
    BY <2>4 DEF Arbiter!StartsAlone
  <2> QED
    BY <2>7, <2>8, <2>9, <2>10, <2>11, <2>12 DEF TurnInv
<1> QED
  BY <1>1, <1>2

\* The mode is established, or not.
LEMMA TurnModeEnds ==
  ASSUME TurnInv, Arbiter!ModeEnds
  PROVE  TurnInv' /\ Arbiter!StartsAlone
<1>1. /\ at = "mode" /\ mode = "requested" /\ Arbiter!Cut /\ UNCHANGED <<port, proved>>
      /\ active' = active \ {"settings"}
      /\ \/ /\ "settings" \in active /\ mode' = "ready"
            /\ gain' = (IF repair.pending \/ (peer.recovery /\ peer.primed)
                        THEN [gain EXCEPT !.fault = FALSE, !.ready = FALSE, !.have = FALSE]
                        ELSE gain)
            /\ peer' = [peer EXCEPT !.recovery = @ /\ ~peer.primed]
         \/ mode' = "failed" /\ UNCHANGED <<gain, peer>>
  BY DEF Arbiter!ModeEnds, Arbiter!Ends
<1>2. /\ peer \in PeerType /\ gain \in GainType /\ active \subseteq {"settings", "headset"}
      /\ \A c, d \in active : c = d
  BY <1>1, TurnTypesOf, TurnMode DEF TurnInv, OneActive
<1>3. /\ at' = "idle" /\ gate' \in BOOLEAN /\ ~gate'
      /\ sample' \in SampleType /\ ~sample'.boundary /\ ~sample'.query /\ ~sample'.headset
  BY <1>1, TurnCut
<1>4. gain' \in GainType /\ (gain'.ready => gain.ready)
  BY <1>1, <1>2 DEF GainType
<1>5. /\ peer' \in PeerType /\ peer'.link = peer.link /\ peer'.reset = peer.reset
      /\ peer'.bulk = peer.bulk /\ peer'.cancel = peer.cancel /\ peer'.primed = peer.primed
  BY <1>1, <1>2 DEF PeerType
<1>6. /\ mode' \in {"ready", "failed"} /\ active' \subseteq {"headset"} /\ active' \subseteq active
  BY <1>1, <1>2
<1>7. ~(peer.link = "unknown" /\ port.young) /\ port.open
  BY <1>1, TurnMode
<1>8. TurnTypes'
  BY <1>1, <1>3, <1>4, <1>5, <1>6
     DEF TurnInv, TurnTypes, GainType, PeerType, SampleType, Clients
<1>9. OneActive'
  BY <1>1, <1>2, <1>3, <1>5, <1>6, <1>7 DEF TurnInv, OneActive, Clients
<1>10. Sampled'
  BY <1>3 DEF Sampled, Clients
<1>11. Left'
  <2>1. "headset" \in active' <=> "headset" \in active
    BY <1>1
  <2> QED
    BY <1>1, <1>3, <1>5, <2>1 DEF TurnInv, Left, Clients
<1>12. Gated'
  BY <1>1, <1>3, <1>4, <1>5, <1>7 DEF TurnInv, Gated, Clients
<1> QED
  BY <1>6, <1>8, <1>9, <1>10, <1>11, <1>12 DEF TurnInv, Arbiter!StartsAlone

\* The turn ends: the gate is not open without the gain.
LEMMA TurnDone ==
  ASSUME NEW g \in GainType, Arbiter!Done(g)
  PROVE  /\ at' = "idle" /\ gain' = g /\ gate' \in BOOLEAN /\ (gate' => g.ready)
         /\ sample' \in SampleType /\ ~sample'.boundary /\ ~sample'.query /\ ~sample'.headset
<1>1. /\ at' = "idle" /\ gain' = g /\ sample' = Arbiter!NoSample
      /\ gate' = (g.ready /\ (peer.link = "up" => peer.ready /\ ~peer.blocked))
  BY DEF Arbiter!Done, Arbiter!Ready
<1>2. gate' \in BOOLEAN /\ (gate' => g.ready)
  BY <1>1, Zenon
<1> QED
  BY <1>1, <1>2 DEF SampleType, Arbiter!NoSample

\* The poll of the gain, at the end of a turn.
LEMMA TurnGain ==
  ASSUME TurnInv, Arbiter!PollGain \/ Arbiter!GainVerified
  PROVE  TurnInv' /\ Arbiter!StartsAlone
<1>1. /\ port \in PortType /\ peer \in PeerType /\ gain \in GainType /\ sample \in SampleType
      /\ active \subseteq Clients /\ \A c, d \in active : c = d
  BY TurnTypesOf DEF TurnInv, TurnTypes, OneActive
<1>2. at = "gain" /\ mode = "ready" /\ ~(peer.link = "unknown" /\ port.young) /\ port.open
  BY DEF TurnInv, OneActive, Gated, Clients, Arbiter!PollGain, Arbiter!GainVerified
<1>3. /\ at' = "idle" /\ gate' \in BOOLEAN /\ (gate' => gain'.ready)
      /\ gain' \in GainType /\ mode' = mode
      /\ sample' \in SampleType /\ ~sample'.boundary /\ ~sample'.query /\ ~sample'.headset
      /\ port' \in PortType /\ port'.open = port.open /\ port'.young = port.young
      /\ peer' \in PeerType /\ proved' \in BOOLEAN /\ peer'.bulk = peer.bulk
      /\ peer'.link = "unknown" => peer.link = "unknown"
      /\ "headset" \notin active => ~peer'.cancel
      /\ gain'.ready => proved' \/ peer'.reset
      /\ \/ active' = active /\ port' = port /\ peer' = peer
         \/ active = {"gain"} /\ active' \subseteq active
         \/ active = {} /\ ~port.tx /\ active' = {"gain"}
  <2>1. CASE "gain" \in active /\ Arbiter!PollGain
    <3>1. /\ Arbiter!Done(gain) /\ Arbiter!Hears /\ Arbiter!Goes("gain") /\ UNCHANGED mode
      BY <2>1 DEF Arbiter!PollGain
    <3>2. port' \in PortType /\ port'.open = port.open /\ port'.young = port.young
      BY <1>1, <3>1 DEF Arbiter!Goes, PortType
    <3>3. active = {"gain"} /\ active' = active
      BY <1>1, <2>1, <3>1 DEF Arbiter!Goes
    <3> QED
      BY <1>1, <3>1, <3>2, <3>3, TurnHears, TurnDone
  <2>2. CASE "gain" \notin active /\ Arbiter!PollGain
    <3>1. /\ UNCHANGED <<mode, peer, proved>>
          /\ \/ /\ Arbiter!GainStarts /\ active' = active \cup {"gain"}
                /\ port' = [port EXCEPT !.tx = TRUE]
                /\ Arbiter!Done([gain EXCEPT !.stale = FALSE])
             \/ Arbiter!Done(gain) /\ UNCHANGED <<active, port>>
      BY <2>2 DEF Arbiter!PollGain
    <3>2. /\ proved \in BOOLEAN /\ (gain.ready => proved \/ peer.reset)
          /\ "headset" \notin active => ~peer.cancel
      BY DEF TurnInv, TurnTypes, Left, Gated
    <3>3. CASE /\ Arbiter!GainStarts /\ active' = active \cup {"gain"}
               /\ port' = [port EXCEPT !.tx = TRUE]
               /\ Arbiter!Done([gain EXCEPT !.stale = FALSE])
      <4>1. active = {} /\ ~port.tx
        BY <1>1, <1>2, <3>3 DEF Arbiter!GainStarts, Arbiter!May, TurnInv, Sampled, Clients
      <4> DEFINE g == [gain EXCEPT !.stale = FALSE]
      <4>2. g \in GainType /\ g.ready = gain.ready
        BY <1>1 DEF GainType
      <4>3. /\ port' \in PortType /\ port'.open = port.open /\ port'.young = port.young
            /\ active' = {"gain"}
        BY <1>1, <3>3, <4>1 DEF PortType
      <4>4. Arbiter!Done(g)
        BY <3>3
      <4> HIDE DEF g
      <4> QED
        BY <1>1, <3>1, <3>2, <4>1, <4>2, <4>3, <4>4, TurnDone
    <3>4. CASE Arbiter!Done(gain) /\ UNCHANGED <<active, port>>
      BY <1>1, <3>1, <3>2, <3>4, TurnDone
    <3> QED
      BY <3>1, <3>3, <3>4
  <2>3. CASE Arbiter!GainVerified
    <3> DEFINE g == [gain EXCEPT !.have = TRUE, !.ready = @ \/ ~gain.stale]
    <3>1. /\ "gain" \in active /\ active' = active \ {"gain"} /\ Arbiter!Done(g)
          /\ proved' = ~peer.reset /\ UNCHANGED <<port, mode, peer>>
      BY <2>3 DEF Arbiter!GainVerified
    <3>2. g \in GainType
      <4> DEFINE r == gain.ready \/ ~gain.stale
      <4>1. r \in BOOLEAN /\ g = [gain EXCEPT !.have = TRUE, !.ready = r]
        BY <1>1 DEF GainType
      <4> HIDE DEF r, g
      <4> QED
        BY <1>1, <4>1 DEF GainType
    <3>3. proved' \in BOOLEAN /\ (proved' \/ peer.reset)
      BY <3>1, Zenon
    <3>4. "headset" \notin active => ~peer.cancel
      BY DEF TurnInv, Left
    <3> HIDE DEF g
    <3>5. active = {"gain"} /\ active' \subseteq active
      BY <1>1, <3>1
    <3> QED
      BY <1>1, <3>1, <3>2, <3>3, <3>4, <3>5, TurnDone
  <2> QED
    BY <2>1, <2>2, <2>3
<1>4. "headset" \in active' => active' = active /\ port' = port /\ peer' = peer
  BY <1>3
<1>5. active' \subseteq Clients /\ \A c, d \in active' : c = d
  BY <1>1, <1>3 DEF Clients
<1>6. TurnTypes'
  BY <1>2, <1>3, <1>5
     DEF TurnInv, TurnTypes, PortType, GainType, PeerType, SampleType, Clients
<1>7. OneActive'
  BY <1>2, <1>3, <1>4, <1>5 DEF TurnInv, OneActive, Clients
<1>8. Sampled'
  BY <1>3 DEF Sampled, Clients
<1>9. Left'
  <2>1. "headset" \notin active' => ~peer'.bulk /\ ~peer'.cancel
    <3>1. "headset" \in active => active' = active
      BY <1>3
    <3>2. "headset" \notin active => ~peer.bulk
      BY DEF TurnInv, Left
    <3> QED
      BY <1>3, <3>1, <3>2
  <2> QED
    BY <1>2, <1>3, <1>4, <2>1 DEF TurnInv, Left, Clients
<1>10. Gated'
  BY <1>2, <1>3 DEF TurnInv, Gated, Clients
<1>11. Arbiter!StartsAlone
  BY <1>3 DEF Arbiter!StartsAlone
<1> QED
  BY <1>6, <1>7, <1>8, <1>9, <1>10, <1>11 DEF TurnInv

\* The gain is not read back as it was set.
LEMMA TurnGainFails ==
  ASSUME TurnInv, Arbiter!GainFails
  PROVE  TurnInv' /\ Arbiter!StartsAlone
<1>1. CASE Arbiter!Fails("gain")
  <2>1. TurnInv'
    BY <1>1, TurnFault DEF Arbiter!Fails
  <2>2. active' = {}
    BY <1>1 DEF Arbiter!Fails, Arbiter!TransportFault, Arbiter!Cleared
  <2> QED
    BY <2>1, <2>2 DEF Arbiter!StartsAlone
<1>2. CASE ~Arbiter!Fails("gain")
  <2> DEFINE g == [gain EXCEPT !.fault = TRUE, !.ready = FALSE]
  <2>1. /\ at = "gain" /\ "gain" \in active /\ active' = active \ {"gain"} /\ Arbiter!Done(g)
        /\ UNCHANGED <<port, peer, proved>> /\ mode' \in {mode, "failed", "unset"}
    BY <1>2 DEF Arbiter!GainFails
  <2>2. gain \in GainType /\ active \subseteq Clients /\ \A c, d \in active : c = d
    BY TurnTypesOf DEF TurnInv, TurnTypes, OneActive
  <2>3. mode = "ready" /\ ~(peer.link = "unknown" /\ port.young) /\ port.open
    BY <2>1 DEF TurnInv, OneActive, Gated, Clients
  <2>4. g \in GainType /\ ~g.ready
    BY <2>2 DEF GainType
  <2>5. /\ at' = "idle" /\ gain' = g /\ gate' \in BOOLEAN /\ ~gate'
        /\ sample' \in SampleType /\ ~sample'.boundary /\ ~sample'.query /\ ~sample'.headset
    <3> HIDE DEF g
    <3> QED
      BY <2>1, <2>4, TurnDone
  <2>6. active' = {} /\ "headset" \notin active
    BY <2>1, <2>2
  <2> HIDE DEF g
  <2>7. TurnTypes'
    BY <2>1, <2>3, <2>4, <2>5, <2>6 DEF TurnInv, TurnTypes, GainType, SampleType, Clients
  <2>8. OneActive' /\ Sampled' /\ Gated' /\ Arbiter!StartsAlone
    BY <2>1, <2>3, <2>4, <2>5, <2>6
       DEF TurnInv, OneActive, Sampled, Gated, Clients, Arbiter!StartsAlone
  <2>9. Left'
    BY <2>1, <2>5, <2>6 DEF TurnInv, Left, Clients
  <2> QED
    BY <2>7, <2>8, <2>9 DEF TurnInv
<1> QED
  BY <1>1, <1>2

\* The port is opened, grows old, or is given up, closed already or not.
LEMMA TurnPort ==
  ASSUME TurnInv, \/ Arbiter!Open \/ Arbiter!Ages \/ Arbiter!GiveUp \/ Arbiter!GiveClosed
  PROVE  TurnInv' /\ Arbiter!StartsAlone
<1>1. /\ port \in PortType /\ peer \in PeerType /\ gain \in GainType /\ sample \in SampleType
      /\ active \subseteq Clients /\ gate \in BOOLEAN /\ proved \in BOOLEAN
  BY TurnTypesOf DEF TurnInv, TurnTypes
<1>2. CASE Arbiter!Open
  <2>1. /\ at = "idle" /\ at' = at /\ ~port.open /\ mode' = "unset" /\ proved' = FALSE
        /\ port' = [Arbiter!Closed EXCEPT !.open = TRUE, !.young = TRUE]
        /\ UNCHANGED <<active, gain, peer, sample, gate>>
    BY <1>2 DEF Arbiter!Open
  <2>2. port' \in PortType /\ port'.open
    BY <2>1 DEF Arbiter!Closed, PortType
  <2>3. active = {} /\ ~gain.ready /\ ~gate
    BY <2>1 DEF TurnInv, Gated
  <2>4. proved' \in BOOLEAN
    BY <2>1, Zenon
  <2>5. TurnTypes'
    BY <2>1, <2>2, <2>4 DEF TurnInv, TurnTypes, PortType
  <2>6. ~gate'
    BY <2>1, <2>3
  <2>7. OneActive' /\ Sampled' /\ Left' /\ Gated' /\ Arbiter!StartsAlone
    BY <2>1, <2>2, <2>3, <2>6
       DEF TurnInv, OneActive, Sampled, Left, Gated, Clients, Arbiter!StartsAlone
  <2> QED
    BY <2>5, <2>7 DEF TurnInv
<1>3. CASE Arbiter!Ages
  <2>1. /\ port' = [port EXCEPT !.young = FALSE]
        /\ UNCHANGED <<at, active, peer, sample, gain, mode, gate, proved>>
    BY <1>3 DEF Arbiter!Ages, Arbiter!restVars
  <2>2. port' \in PortType /\ port'.open = port.open /\ port'.tx = port.tx /\ ~port'.young
    BY <1>1, <2>1 DEF PortType
  <2>3. TurnTypes'
    BY <2>1, <2>2 DEF TurnInv, TurnTypes, PortType
  <2>4. OneActive' /\ Sampled' /\ Left' /\ Gated' /\ Arbiter!StartsAlone
    BY <2>1, <2>2 DEF TurnInv, OneActive, Sampled, Left, Gated, Clients, Arbiter!StartsAlone
  <2> QED
    BY <2>3, <2>4 DEF TurnInv
<1>4. CASE Arbiter!GiveUp
  <2>1. /\ at = "idle" /\ at' = at /\ active' = {} /\ mode' = "unset" /\ peer' = Arbiter!NoPeer
        /\ port' = Arbiter!Closed /\ gain' = [Arbiter!NoGain EXCEPT !.stale = gain.stale]
        /\ gate' = FALSE /\ UNCHANGED <<sample, proved>>
    BY <1>4 DEF Arbiter!GiveUp, Arbiter!Cleared
  <2>2. /\ port' \in PortType /\ ~port'.open /\ ~port'.tx
        /\ gain' \in GainType /\ ~gain'.ready
    BY <1>1, <2>1 DEF Arbiter!Closed, Arbiter!NoGain, PortType, GainType
  <2>3. peer' \in PeerType /\ ~peer'.bulk /\ ~peer'.cancel
    BY <2>1 DEF Arbiter!NoPeer, PeerType
  <2>4. gate' \in BOOLEAN /\ ~gate'
    BY <2>1, Zenon
  <2>5. TurnTypes'
    BY <2>1, <2>2, <2>3, <2>4 DEF TurnInv, TurnTypes, PortType, GainType, PeerType
  <2>6. OneActive' /\ Sampled' /\ Left' /\ Gated' /\ Arbiter!StartsAlone
    BY <2>1, <2>2, <2>3, <2>4
       DEF TurnInv, OneActive, Sampled, Left, Gated, Clients, Arbiter!StartsAlone
  <2> QED
    BY <2>5, <2>6 DEF TurnInv
<1>5. CASE Arbiter!GiveClosed
  <2>1. /\ at = "idle" /\ ~port.open /\ port' = Arbiter!Closed
        /\ UNCHANGED <<at, active, peer, sample, gain, mode, gate, proved>>
    BY <1>5 DEF Arbiter!GiveClosed, Arbiter!restVars
  <2>2. port' \in PortType /\ ~port'.open /\ ~port'.young
    BY <2>1 DEF Arbiter!Closed, PortType
  <2>3. active = {} /\ ~gain.ready /\ ~gate
    BY <2>1 DEF TurnInv, Gated
  <2>4. TurnTypes'
    BY <2>1, <2>2 DEF TurnInv, TurnTypes, PortType
  <2>5. OneActive' /\ Sampled' /\ Left' /\ Gated' /\ Arbiter!StartsAlone
    BY <2>1, <2>2, <2>3
       DEF TurnInv, OneActive, Sampled, Left, Gated, Clients, Arbiter!StartsAlone
  <2> QED
    BY <2>4, <2>5 DEF TurnInv
<1> QED
  BY <1>2, <1>3, <1>4, <1>5

\* The rest of the program.
LEMMA TurnWorld ==
  ASSUME TurnInv, \/ Arbiter!Wish \/ Arbiter!Change \/ Arbiter!Ask \/ Arbiter!Slips
  PROVE  TurnInv' /\ Arbiter!StartsAlone
<1>1. UNCHANGED <<at, port, active, mode, peer, sample, gate, proved>>
  BY DEF Arbiter!Wish, Arbiter!Change, Arbiter!Ask, Arbiter!Slips, Arbiter!restVars
<1>2. gain' = gain \/ gain' = [gain EXCEPT !.stale = TRUE]
  BY DEF Arbiter!Wish, Arbiter!Change, Arbiter!Ask, Arbiter!Slips, Arbiter!restVars
<1>3. gain' \in GainType /\ gain'.ready = gain.ready
  BY <1>2, TurnTypesOf DEF TurnInv, GainType
<1>4. TurnTypes'
  BY <1>1, <1>3 DEF TurnInv, TurnTypes, GainType
<1>5. OneActive' /\ Sampled' /\ Left' /\ Gated' /\ Arbiter!StartsAlone
  BY <1>1, <1>3 DEF TurnInv, OneActive, Sampled, Left, Gated, Clients, Arbiter!StartsAlone
<1> QED
  BY <1>4, <1>5 DEF TurnInv

\* The invariant of the turns is kept by every step, and a request starts on a line that is
\* free (native_gain_adapter.c 200-349).
LEMMA TurnStep ==
  ASSUME TurnInv, Arbiter!Next
  PROVE  TurnInv' /\ Arbiter!StartsAlone
  BY TurnBegin, TurnSamples, TurnBootstrap, TurnPrime, TurnBulk, TurnModeAsk, TurnModePoll,
     TurnModeEnds, TurnClients, TurnHeadset, TurnGain, TurnGainFails, TurnPort, TurnWorld
     DEF Arbiter!Next, Arbiter!Turn

\* The gate of the playback is open between two turns only with a gain that was verified.
LEMMA TurnSafe == TurnInv => Arbiter!GateProved
  BY DEF TurnInv, Gated, Arbiter!GateProved

-----------------------------------------------------------------------------
\* The composition: whichever component runs, its invariant holds.

LEMMA ReadsInit == Init => ReadsInv
<1> SUFFICES ASSUME Init
             PROVE  ReadsInv
  OBVIOUS
<1>1. \/ part = "gain" /\ NativeClient!Init
      \/ part = "probe" /\ ProbeClient!Init
      \/ part = "reads" /\ ReadClient!Init
      \/ part = "meter" /\ MeterClient!Init
      \/ part = "turns" /\ Arbiter!Init
  BY DEF Init
<1> QED
  BY <1>1, ServiceInit, TrialInit, ReadInit, MeterInit, TurnInit DEF ReadsInv

\* A step is one of the component that runs, which stays the same.
LEMMA ComponentStep ==
  ASSUME Next
  PROVE  /\ part' = part
         /\ part = "gain" => NativeClient!Next
         /\ part = "probe" => ProbeClient!Next
         /\ part = "reads" => ReadClient!Next
         /\ part = "meter" => MeterClient!Next
         /\ part = "turns" => Arbiter!Next
  BY DEF Next, Of, Gain, Probe, Reads, Meter, Turns

\* Where nothing changes, every part of the invariant stays.
LEMMA ReadsStay ==
  ASSUME UNCHANGED vars
  PROVE  /\ ServiceInv => ServiceInv'
         /\ TrialInv => TrialInv'
         /\ ReadInv => ReadInv'
         /\ MeterInv => MeterInv'
         /\ TurnInv => TurnInv'
<1> USE DEF vars, commonVars, gainProbeVars, gainOnly, probeOnly, readsOnly, turnsOnly
<1>1. ASSUME NEW L
      PROVE  TrialTypes(L) => TrialTypes(L)'
  BY DEF TrialTypes
<1>2. LineInv => LineInv'
  BY DEF LineInv, Clean, NoGain47, IsGain
<1>3. Handed => Handed'
  BY DEF Handed, Past
<1>4. ServiceInv => ServiceInv'
  <2>1. ServiceTypes => ServiceTypes'
    BY <1>1 DEF ServiceTypes, TrialTypes
  <2>2. Owned => Owned'
    BY DEF Owned, Clean, NoGain47, IsGain
  <2>3. Held => Held'
    BY DEF Held, IsGain, NativeClient!Meets
  <2>4. Unraced => Unraced'
    BY DEF Unraced, IsGain
  <2> QED
    BY <1>2, <1>3, <2>1, <2>2, <2>3, <2>4 DEF ServiceInv
<1>5. TrialInv => TrialInv'
  <2>1. ProbeTypes => ProbeTypes'
    BY DEF ProbeTypes, TrialTypes
  <2>2. Probed => Probed'
    BY DEF Probed, Clean, NoGain47, IsGain
  <2>3. Alone => Alone'
    BY DEF Alone, Past, IsGain, ProbeClient!Lower
  <2> QED
    BY <1>2, <1>3, <2>1, <2>2, <2>3 DEF TrialInv
<1>6. ReadInv => ReadInv'
  BY DEF ReadInv, Requested
<1>7. MeterInv => MeterInv'
  <2>1. Slots => Slots'
    BY DEF Slots
  <2> QED
    BY <1>6, <2>1 DEF MeterInv
<1>8. TurnInv => TurnInv'
  BY DEF TurnInv, TurnTypes, OneActive, Sampled, Left, Gated
<1> QED
  BY <1>4, <1>5, <1>6, <1>7, <1>8

\* Every step of the component that runs, or none, keeps its invariant.
LEMMA ReadsStep == ReadsInv /\ [Next]_vars => ReadsInv'
<1>1. ASSUME ReadsInv, Next
      PROVE  ReadsInv'
  BY <1>1, ComponentStep, ServiceStep, TrialStep, ReadStep, MeterStep, TurnStep DEF ReadsInv
<1>2. ASSUME ReadsInv, UNCHANGED vars
      PROVE  ReadsInv'
  <2>1. part' = part
    BY <1>2 DEF vars
  <2> QED
    BY <1>2, <2>1, ReadsStay DEF ReadsInv
<1> QED
  BY <1>1, <1>2

(* A gain is written to the DSP at most once in a transaction, and once each *)
(* way in a trial that restores, and the host's query is handed over at most *)
(* once, however the answers are lost, late or doubled and the host repeats  *)
(* its token (dsp_gain_trial.c 106-133, dsp_volume_probe.c 147-191,          *)
(* headset_query.c 53-62).                                                   *)
THEOREM ReadsHandedOnce == Spec => []HandedOnce
<1>1. Init => ReadsInv
  BY ReadsInit
<1>2. ReadsInv /\ [Next]_vars => ReadsInv'
  BY ReadsStep
<1>3. ReadsInv => HandedOnce
  <2> SUFFICES ASSUME ReadsInv
               PROVE  HandedOnce
    OBVIOUS
  <2>1. part = "gain" => NativeClient!SetOnce
    BY ServiceSafe DEF ReadsInv
  <2>2. part = "probe" => ProbeClient!OneTransaction
    BY TrialSafe DEF ReadsInv
  <2>3. part \in {"reads", "meter"} => ReadClient!QueryOnce
    BY DEF ReadsInv, MeterInv, ReadInv, Requested, ReadClient!QueryOnce
  <2> QED
    BY <2>1, <2>2, <2>3 DEF HandedOnce
<1> QED
  BY <1>1, <1>2, <1>3, PTL DEF Spec

(* A transaction that reports success is about a gain the DSP has had since  *)
(* it began; no battery is shown of a headset known to be gone; pages of one *)
(* generation are of one reply; and between two turns the gate of the        *)
(* playback is open only if the gain was verified, and with it the mode,     *)
(* since the headset's first bulk data (dsp_gain_trial.c 106-133,            *)
(* headset_battery.c 32-88, dsp_meter.c 101-111, native_gain_adapter.c       *)
(* 200-263).                                                                 *)
THEOREM ReadsBelievedIsSo == Spec => []BelievedIsSo
<1>1. Init => ReadsInv
  BY ReadsInit
<1>2. ReadsInv /\ [Next]_vars => ReadsInv'
  BY ReadsStep
<1>3. ReadsInv => BelievedIsSo
  <2> SUFFICES ASSUME ReadsInv
               PROVE  BelievedIsSo
    OBVIOUS
  <2>1. part = "gain" => NativeClient!DoneHeld
    BY ServiceSafe DEF ReadsInv
  <2>2. part = "probe" => ProbeClient!DoneHeld
    BY DEF ReadsInv, TrialInv, Probed, ProbeClient!DoneHeld
  <2>3. part = "reads" => ReadClient!BatteryOfLink
    <3>1. ASSUME ReadInv
          PROVE  ReadClient!BatteryOfLink
      BY <3>1, Zenon DEF ReadInv, ReadClient!BatteryOfLink
    <3> QED
      BY <3>1 DEF ReadsInv
  <2>4. part = "meter" => MeterClient!PagesAgree
    BY DEF ReadsInv, MeterInv, MeterClient!PagesAgree
  <2>5. part = "turns" => Arbiter!GateProved
    BY TurnSafe DEF ReadsInv
  <2> QED
    BY <2>1, <2>2, <2>3, <2>4, <2>5 DEF BelievedIsSo, ReadsInv
<1> QED
  BY <1>1, <1>2, <1>3, PTL DEF Spec

(* A write changes only the lanes it is about unless another writer got in   *)
(* after the read, what the service takes as verified the DSP has had since  *)
(* the transaction began (dsp_gain_trial.c 9-20, native_gain.c 24-29), and a *)
(* client starts only on a line that no other has and that is quiet          *)
(* (native_gain_adapter.c 265-307).                                          *)
THEOREM ReadsOthersKept == Spec => OthersKept
<1>1. Init => ReadsInv
  BY ReadsInit
<1>2. ReadsInv /\ [Next]_vars => ReadsInv'
  BY ReadsStep
<1>3. ReadsInv /\ [Next]_vars =>
        [CASE part = "gain" -> NativeClient!KeepsOthers /\ NativeClient!VerifiesHeld
           [] part = "probe" -> ProbeClient!KeepsOthers
           [] part = "turns" -> Arbiter!StartsAlone
           [] OTHER -> TRUE]_vars
  BY ComponentStep, ServiceActs, TrialActs, TurnStep DEF ReadsInv
<1> QED
  BY <1>1, <1>2, <1>3, PTL DEF Spec, OthersKept
=============================================================================
