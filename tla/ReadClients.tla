---------------------------- MODULE ReadClients ----------------------------
(***************************************************************************)
(* The clients of UART3 that only read: the headset's battery              *)
(* (headset_battery.c: link state, percentage, charge), one query at a     *)
(* time for the host (headset_query.c), and the DSP's level meter          *)
(* (dsp_meter.c), whose cache the USB interrupt reads.  The service of     *)
(* native_gain_adapter.c starts one of them at a time, at a boundary of    *)
(* the line, shows every byte it reads to all of them, and tells the query *)
(* and the meter to yield.                                                 *)
(***************************************************************************)
EXTENDS Exchange

CONSTANTS Clients,      \* of "battery", "query" and "meter"
          Token,        \* the host's query tokens
          MaxReplies,   \* bound: replies the meter publishes
          MaxEvents     \* bound: requests, link changes, yields and closings of the port

ReadAssumption ==
  /\ ExchangeAssumption
  /\ Clients \subseteq {"battery", "query", "meter"} /\ {MaxReplies, MaxEvents} \subseteq Nat

VARIABLES
  who, phase, got,     \* the active client, its phase, and what it was answered
  yielding,            \* the clients have been told to yield
  begun,               \* a frame of which the first byte is read: before ("early") or after
                       \* ("late") the whole request was handed over
  port,                \* "open", "closed", or "failed" until playback is withdrawn
  headset,             \* the headset is there
  conn, percent, charge, kind, charged,   \* headset_battery: connection, *_valid, kind,
                                          \* battery_scheduled
  token, quirk, query, \* headset_query: token, whether the profile is the one the headset
                       \* refuses before it answers, and phase ("active" once begun)
  asked,               \* ghost: times the query of the token was handed over
  cache, published, publishing,   \* dsp_meter: the two slots, the index, and how far
  pages,                          \* publish() is; what the host has read of two pages
  events

clientVars == <<who, phase, got, yielding, begun, port>>
batteryVars == <<conn, percent, charge, kind, charged>>
queryVars == <<token, quirk, query, asked>>
cacheVars == <<cache, published, pages>>
meterVars == <<cacheVars, publishing>>
vars == <<lineVars, clientVars, headset, batteryVars, queryVars, meterVars, events>>

Empty == [first |-> 0, last |-> 0, generation |-> 0]

Init == /\ LineInit
        /\ who = "none" /\ phase = "idle" /\ got = "none" /\ yielding = FALSE /\ begun = "no"
        /\ port = "closed" /\ headset = FALSE
        /\ conn = "unknown" /\ percent = FALSE /\ charge = FALSE /\ kind = 0 /\ charged = FALSE
        /\ token = 0 /\ quirk = FALSE /\ query = "idle" /\ asked = 0
        /\ cache = [i \in {0, 1} |-> Empty] /\ published = 0 /\ publishing = 0
        /\ pages = [p \in {1, 2} |-> [generation |-> 0, half |-> 0]]
        /\ events = 0

Event == events < MaxEvents /\ events' = events + 1

-----------------------------------------------------------------------------
\* What a client asks for: battery kinds 0 (E4), 1 and 2 (E2), the host's query
\* (any profile but the battery's own), the meter (50).
Request == CASE who = "battery" -> [code |-> IF kind = 0 THEN "E4" ELSE "E2", kind |-> kind]
             [] who = "query" -> [code |-> "D5", kind |-> 0]
             [] who = "meter" -> [code |-> "50", kind |-> 0]

\* Boundary of the line: nothing on it, nothing to read, no frame begun.
Boundary == port = "open" /\ ~yielding /\ who = "none" /\ Drained /\ rx = <<>> /\ begun = "no"

Begin(c) == /\ c \in Clients /\ Boundary
            /\ who' = c /\ phase' = "send" /\ got' = "none"
            /\ sent' = 0 /\ UNCHANGED <<wire, owed, rx, yielding, begun, port>>

ConnectedOrUnknown == conn \in {"unknown", "on"}

StartBattery ==
  /\ Begin("battery")
  /\ kind' = IF ConnectedOrUnknown THEN kind ELSE 0
  /\ charged' = (charged \/ kind' = 1)
  /\ UNCHANGED <<headset, conn, percent, charge, queryVars, meterVars, events>>

\* omni_headset_query_request: the token the record holds is not asked again.
Fresh(t) == query # "idle" => token # t

QueryRequest == /\ Event /\ "query" \in Clients
                /\ port # "failed" /\ query \notin {"queued", "active"}
                /\ \E t \in Token :
                     /\ Fresh(t)
                     /\ token' = t /\ query' = "queued"
                     /\ quirk' \in BOOLEAN
                     /\ asked' = IF token = t THEN asked ELSE 0
                /\ UNCHANGED <<lineVars, clientVars, headset, batteryVars, meterVars>>

\* It has waited two seconds for its turn, or playback has no use for the port.
QueryExpires == /\ query = "queued" /\ port # "failed"
                /\ query' = IF port = "open" THEN "timeout" ELSE "cancelled"
                /\ UNCHANGED <<lineVars, clientVars, headset, batteryVars, token, quirk, asked,
                               meterVars, events>>

StartQuery == /\ query = "queued" /\ Begin("query") /\ query' = "active"
              /\ UNCHANGED <<headset, batteryVars, token, quirk, asked, meterVars, events>>

StartMeter == /\ publishing = 0 /\ Begin("meter")
              /\ UNCHANGED <<headset, batteryVars, queryVars, meterVars, events>>

-----------------------------------------------------------------------------
PollSend ==
  /\ phase = "send" /\ Push(Request)
  /\ phase' = IF sent' = Bytes THEN "drain" ELSE "send"
  /\ asked' = IF who = "query" /\ sent' = Bytes THEN asked + 1 ELSE asked
  /\ UNCHANGED <<owed, rx, who, got, yielding, begun, port, headset, batteryVars, token, quirk, query,
                 meterVars, events>>

PollDrain == /\ phase = "drain" /\ Drained /\ phase' = "wait"
             /\ UNCHANGED <<lineVars, who, got, yielding, begun, port, headset, batteryVars,
                            queryVars, meterVars, events>>

\* finish_query: which of the three questions comes next.
NextKind(ok) ==
  \/ ok /\ kind = 0 /\ conn = "on" /\ kind' = 1
  \/ ok /\ kind = 1 /\ ConnectedOrUnknown /\ kind' = 2
  \/ /\ ~(ok /\ kind = 0 /\ conn = "on" /\ ~charged)
     /\ ~(ok /\ kind = 1 /\ ConnectedOrUnknown)
     /\ kind' = 0

Release == who' = "none" /\ phase' = "idle" /\ got' = "none"
Cancelled == IF query \in {"queued", "active"} THEN "cancelled" ELSE query

\* The exchange is over, for the client that began it.
Finish(result) ==
  /\ Release
  /\ IF who = "battery" THEN NextKind(result = "reply") ELSE UNCHANGED kind
  /\ query' = IF who # "query" THEN query
              ELSE IF yielding THEN "cancelled" ELSE IF result = "reply" THEN "done"
              ELSE IF result = "none" THEN "timeout" ELSE "nack"
  /\ publishing' = IF who = "meter" /\ result = "reply" /\ ~yielding THEN 1 ELSE publishing
  /\ UNCHANGED <<lineVars, yielding, begun, port, headset, conn, percent, charge, charged,
                 token, quirk, asked, cacheVars, events>>

PollConclude == /\ phase = "wait"
                /\ got \in {"reply", "negative"} \/ (yielding /\ who # "battery")
                /\ Finish(got)

\* No answer in time: the wait ends, without another try.  A refusal that was
\* put off is the answer.
PollTimeout == phase = "wait" /\ Finish(IF got = "deferred" THEN got ELSE "none")

-----------------------------------------------------------------------------
\* The first byte of a frame, and the rest of it.
FirstByte == /\ begun = "no" /\ rx # <<>> /\ port = "open"
             /\ begun' = IF who # "none" /\ Submitted THEN "late" ELSE "early"
             /\ UNCHANGED <<lineVars, who, phase, got, yielding, port, headset, batteryVars,
                            queryVars, meterVars, events>>

\* A frame can answer the request only if all of it came after it.
Eligible == who # "none" /\ Submitted /\ begun = "late"

Answers(f) == Eligible /\ f.code = Request.code /\ f.kind \in {Request.kind, 0}

\* A link report: with the connection the values of the battery go, and with a
\* new one they are asked for afresh.
Link(f) == /\ conn' = IF f.on THEN "on" ELSE "off"
           /\ percent' = (percent /\ f.on /\ conn = "on")
           /\ charge' = (charge /\ f.on /\ conn = "on")
           /\ charged' = (charged /\ (f.on => conn = "on"))

\* A value, asked for or not.
Value(f) == /\ UNCHANGED <<conn, charged>>
            /\ percent' = IF f.kind = 1 THEN f.ok /\ ConnectedOrUnknown ELSE percent
            /\ charge' = IF f.kind = 2 THEN f.ok /\ ConnectedOrUnknown ELSE charge

\* What a frame makes of the answer so far.  The battery goes by the last one;
\* for the others a refusal stands, and the meter ignores a reply that is not one.
Outcome(f) ==
  IF ~Answers(f) \/ (f.part = "ack" /\ f.ok) THEN got
  ELSE IF who = "battery"
       THEN IF f.part = "reply" /\ f.ok /\ (f.code = "E2" => ConnectedOrUnknown)
            THEN "reply" ELSE "negative"
  ELSE IF got = "negative" \/ (who = "meter" /\ f.part = "reply" /\ ~f.ok) THEN got
  ELSE IF f.part = "reply" /\ f.ok THEN "reply"
  ELSE IF who = "query" /\ quirk /\ f.part = "ack" THEN IF got = "none" THEN "deferred" ELSE got
  ELSE "negative"

RestOfFrame ==
  LET f == Frame IN
  /\ begun # "no" /\ Read /\ begun' = "no"
  /\ got' = Outcome(f)
  /\ IF f.part = "reply" /\ f.code = "E4" THEN Link(f) /\ "battery" \in Clients
     ELSE IF f.part = "reply" /\ f.code = "E2" THEN Value(f)
     ELSE UNCHANGED <<conn, percent, charge, charged>>
  /\ UNCHANGED <<sent, wire, owed, who, phase, yielding, port, headset, kind, queryVars, meterVars,
                 events>>

\* A gap of 20 ms in a frame: what there is of it is dropped.
Expire == /\ begun # "no" /\ Read /\ begun' = "no"
          /\ UNCHANGED <<sent, wire, owed, who, phase, got, yielding, port, headset, batteryVars,
                         queryVars, meterVars, events>>

-----------------------------------------------------------------------------
\* omni_headset_query_yield and omni_dsp_meter_yield: what has not begun is
\* cancelled at once, what is on the line when it has left it.
Unsent == \/ who \in {"query", "meter"} /\ phase = "send" /\ sent = 0
          \/ who = "meter" /\ phase = "wait"

Yield == /\ Event /\ yielding' = TRUE
         /\ IF Unsent THEN Release ELSE UNCHANGED <<who, phase, got>>
         /\ query' = IF query = "queued" \/ (Unsent /\ who = "query") THEN "cancelled" ELSE query
         /\ UNCHANGED <<lineVars, begun, port, headset, batteryVars, token, quirk, asked, meterVars>>

\* Every client is released, and what the battery showed is no longer known.
CloseUart(p) ==
  /\ port' = p /\ yielding' = FALSE
  /\ Release /\ begun' = "no" /\ Reset
  /\ conn' = "unknown" /\ percent' = FALSE /\ charge' = FALSE /\ kind' = 0 /\ charged' = FALSE
  /\ UNCHANGED <<headset, token, quirk, asked, meterVars>>

ClosePort == Event /\ port # "closed" /\ CloseUart("closed") /\ query' = Cancelled

\* A request that cannot be got out in time, or a failed port.
SendFails == /\ phase \in {"send", "drain"} /\ CloseUart("failed")
             /\ query' = IF who = "query" THEN "timeout" ELSE Cancelled
             /\ UNCHANGED events

OpenPort == /\ port = "closed" /\ port' = "open"
            /\ UNCHANGED <<lineVars, who, phase, got, yielding, begun, headset, batteryVars,
                           queryVars, meterVars, events>>

-----------------------------------------------------------------------------
\* publish(): the slot that is not published gets the two halves of the reply
\* and its generation, and then becomes the one that is.
\* Mutant of Spare: the slot the interrupt reads.
SpareSame == published
Spare == 1 - published

PublishStep ==
  /\ publishing \in 1..4
  /\ cache[published].generation < MaxReplies
  /\ LET n == cache[published].generation + 1 IN
     \/ publishing = 1 /\ cache' = [cache EXCEPT ![Spare].first = n] /\ UNCHANGED published
     \/ publishing = 2 /\ cache' = [cache EXCEPT ![Spare].last = n] /\ UNCHANGED published
     \/ publishing = 3 /\ cache' = [cache EXCEPT ![Spare].generation = n] /\ UNCHANGED published
     \/ publishing = 4 /\ published' = 1 - published /\ UNCHANGED cache
  /\ publishing' = (publishing + 1) % 5
  /\ UNCHANGED <<lineVars, clientVars, headset, batteryVars, queryVars, pages, events>>

\* The USB interrupt answers the host's report for one page.
ReadPage(p) ==
  /\ "meter" \in Clients
  /\ pages' = [pages EXCEPT ![p] =
       [generation |-> cache[published].generation,
        half |-> IF p = 1 THEN cache[published].first ELSE cache[published].last]]
  /\ UNCHANGED <<lineVars, clientVars, headset, batteryVars, queryVars, cache, published,
                 publishing, events>>

-----------------------------------------------------------------------------
\* The peer.
Msg(part, code, k) == [part |-> part, code |-> code, kind |-> k]

Hear == \E f \in wire :
          /\ Leave(f, {Msg("ack", f.code, f.kind), Msg("reply", f.code, f.kind)})
          /\ UNCHANGED <<sent, rx, clientVars, headset, batteryVars, queryVars, meterVars, events>>

Report(m, ok) == [part |-> m.part, code |-> m.code, kind |-> m.kind, ok |-> ok, on |-> headset]

Reply == \E m \in owed, ok \in BOOLEAN :
           /\ Give(m, Report(m, ok \/ m.code = "E4"))
           /\ UNCHANGED <<sent, wire, clientVars, headset, batteryVars, queryVars, meterVars,
                          events>>

LoseReply == /\ \E m \in owed : Lose(m)
             /\ UNCHANGED <<sent, wire, rx, clientVars, headset, batteryVars, queryVars, meterVars,
                            events>>

\* The headset comes or goes, and the DSP says so.
LinkChange == /\ Event /\ "battery" \in Clients
              /\ headset' = ~headset
              /\ port = "open" /\ Len(rx) < RxFrames
              /\ rx' = Append(rx, [part |-> "reply", code |-> "E4", kind |-> 0, ok |-> TRUE,
                                   on |-> headset'])
              /\ UNCHANGED <<sent, wire, owed, clientVars, batteryVars, queryVars, meterVars>>

World == Hear \/ Reply \/ LoseReply \/ LinkChange

Poll == PollSend \/ PollDrain \/ PollConclude

Next == \/ StartBattery \/ QueryRequest \/ QueryExpires \/ StartQuery \/ StartMeter
        \/ Poll \/ PollTimeout \/ FirstByte \/ RestOfFrame \/ Expire
        \/ Yield \/ ClosePort \/ SendFails \/ OpenPort
        \/ PublishStep \/ (\E p \in {1, 2} : ReadPage(p))
        \/ World

Spec == Init /\ [][Next]_vars

\* The main loop polls: it sends, reads what has come, and gives up what takes
\* too long; a query that waits for its turn expires.
TakesTooLong == PollTimeout \/ SendFails
FairSpec == /\ Spec /\ WF_vars(Poll) /\ WF_vars(TakesTooLong)
            /\ WF_vars(QueryExpires) /\ WF_vars(RestOfFrame)

-----------------------------------------------------------------------------
TypeOK ==
  /\ who \in Clients \cup {"none"} /\ phase \in {"idle", "send", "drain", "wait"}
  /\ got \in {"none", "reply", "negative", "deferred"} /\ begun \in {"no", "early", "late"}
  /\ {yielding, headset, percent, charge, charged, quirk} \subseteq BOOLEAN
  /\ port \in {"open", "closed", "failed"}
  /\ conn \in {"unknown", "on", "off"} /\ kind \in 0..2 /\ asked \in 0..1
  /\ token \in Token \cup {0}
  /\ query \in {"idle", "queued", "active", "done", "timeout", "cancelled", "nack"}
  /\ published \in {0, 1} /\ publishing \in 0..4 /\ events \in 0..MaxEvents

\* However often the host repeats a query with the same token, its request is
\* handed to the UART at most once.
QueryOnce == asked <= 1

\* Pages the host has read at different times, with the main loop publishing in
\* between, are of one reply if they carry the same generation.
PagesAgree == pages[1].generation = pages[2].generation => pages[1].half = pages[2].half

\* No value of the battery is shown for a headset known to be gone, and the
\* client that is on the line is the one the phases tell of.
BatteryOfLink == /\ (percent \/ charge) => conn # "off"
                 /\ (who = "none") = (phase = "idle")
                 /\ (query = "active") = (who = "query")

\* A query comes to an end, whatever the peer does.
QueryEnds == []<>(query \notin {"queued", "active"})
=============================================================================
