-------------------------------- MODULE Mcu2 --------------------------------
(***************************************************************************)
(* The link to MCU2 over UART7: mcu2_runtime.c, which sends the latest     *)
(* value of each kind of command in envelopes of a fixed size and takes in *)
(* what MCU2 reports, and mcu2_probe.c, which carries one explicit query   *)
(* of the host from the USB interrupt to it.  Replies carry no identifier: *)
(* an answer to an earlier envelope may be taken for that of the query.    *)
(*                                                                         *)
(* A poll of the main loop that does several things is several polls here, *)
(* each doing one.  Time is left out: what a timeout or an age decides may *)
(* happen at any time.  A report is read whole or not at all (the receiver *)
(* drops what is cut or damaged and searches for the next header).         *)
(***************************************************************************)
EXTENDS Integers, Sequences, FiniteSets

CONSTANTS Bytes,     \* bytes of an envelope (1036)
          Gain,      \* indices of the gain of the second source
          Say,       \* further kinds of commands in use, latest value only
          Detected,  \* sets of ports that are detected at a time
          MaxSays,   \* bound: commands given
          MaxSent,   \* bound: envelopes of one query
          Asked,     \* the queries the host asks for
          MaxAsks,   \* bound: explicit queries of the host
          MaxEvents  \* bound: lost replies, reports of MCU2's own, failures, and stops

Mcu2Assumption ==
  /\ Bytes \in Nat \ {0} /\ Gain \subseteq 0..12 /\ Gain # {}
  /\ Say \subseteq {"lifecycle", "controls", "backend", "dsp86"}
  /\ Detected \subseteq SUBSET (0..1) /\ Asked \subseteq {"version", "detect"}
  /\ {MaxSays, MaxSent, MaxAsks, MaxEvents} \subseteq Nat

Query == {"version", "detect"}
Side == 0..1
Mode(side) == 2 * side  \* its code in a report, where 1 is neither side
\* In the order in which they are sent.
Order == <<"version", "detect", "gain", "lifecycle", "controls", "select", "backend", "dsp86">>
Kind == {Order[i] : i \in 1..8}
None == "none"

VARIABLES
  life,     \* "fresh", "started" or "stopped", and whether fault is latched
  pending,  \* the kinds that wait to be sent, each with its prefix: prefixes and pending
  tx,       \* active, active_prefix, gain_active_generation and tx_used
  gain,     \* gain_desired, gain_generation, gain_sent and gain_sent_generation
  said,     \* the values of the other commands
  query,    \* query_sent and query_replied, the generation of what was reported, and
            \* version_attempts
  seen,     \* ready, active_mode, and what is known of the ports: reported ("state") and
            \* queried ("detect"), each fresh or not, and which is the later
  selection,\* selection, selected_side, and if a report came since it was sent
  probe,    \* stage and query_phase, the query and its marks, and a phase still to be
            \* stored
  env,      \* external: bytes of the envelope that MCU2 receives or has last received
  mcu2,     \* external: its active side, replies owed, and if it owes a report
  asked,    \* ghost: of the host's query, since the main loop took it, see NotAsked
  bound

vars == <<life, pending, tx, gain, said, query, seen, selection, probe, env, mcu2, asked, bound>>

NoTx == [kind |-> None, value |-> 0, generation |-> 0, used |-> 0]
NoPorts == [ports |-> {}, fresh |-> FALSE]

\* What is observed of a query of the host, that the code does not keep: the answers that
\* were due when it was taken and still are, if there were none, if an envelope of the query
\* was completed since, and what the first reply to come after that answers: an envelope
\* from before ("earlier") or one begun since ("own").
NotAsked == [due |-> 0, clear |-> TRUE, sent |-> FALSE, answer |-> None]

Init ==
  /\ life = [state |-> "fresh", fault |-> FALSE]
  /\ pending = [k \in {} |-> 0] /\ tx = NoTx
  /\ gain = [desired |-> 13, generation |-> 0, sent |-> 13, sentGeneration |-> 0]
  /\ said = [k \in Say |-> 0]
  /\ query = [q \in Query |-> [sent |-> 0, replied |-> 0, generation |-> 0]]
  /\ seen = [ready |-> FALSE, mode |-> 0, state |-> NoPorts, detect |-> NoPorts, latest |-> "state"]
  /\ selection = [state |-> "idle", side |-> 0, newer |-> FALSE]
  /\ probe = [stage |-> "idle", phase |-> "idle", q |-> "version", generation |-> 0, sent |-> 0,
              late |-> None]
  /\ env = <<>>
  /\ mcu2 = [side |-> 0, owed |-> [q \in Query |-> 0], report |-> FALSE]
  /\ asked = NotAsked /\ bound = [says |-> 0, asks |-> 0, events |-> 0]

On == life.state = "started" /\ ~life.fault /\ probe.late = None
Event == bound.events < MaxEvents /\ bound' = [bound EXCEPT !.events = @ + 1]
Said == bound.says < MaxSays /\ bound' = [bound EXCEPT !.says = @ + 1]

With(f, k, v) == [x \in DOMAIN f \cup {k} |-> IF x = k THEN v ELSE f[x]]
Without(f, k) == [x \in DOMAIN f \ {k} |-> f[x]]

\* A selection that is not decided fails with the link.
Undecided == selection.state \in {"queued", "waiting"}
Failed == IF Undecided THEN [selection EXCEPT !.state = "failed"] ELSE selection

-----------------------------------------------------------------------------
\* Commands: what is asked for replaces what waits.
Start ==
  /\ life.state = "fresh" /\ life' = [life EXCEPT !.state = "started"]
  /\ \E first \in Gain :
       /\ gain' = [gain EXCEPT !.desired = first, !.generation = 1]
       /\ pending' = [k \in Query \cup {"gain"} \cup (Say \cap {"backend"}) |-> IF k = "gain" THEN first ELSE 0]
  /\ UNCHANGED <<tx, said, query, seen, selection, probe, env, mcu2, asked, bound>>

SetGain(index) ==
  /\ On /\ index # gain.desired /\ Said
  /\ gain' = [gain EXCEPT !.desired = index, !.generation = @ + 1]
  /\ pending' = With(pending, "gain", index)
  /\ UNCHANGED <<life, tx, said, query, seen, selection, probe, env, mcu2, asked>>

Command(kind) ==
  /\ On /\ Said /\ said' = [said EXCEPT ![kind] = 1 - @]
  /\ pending' = With(pending, kind, said'[kind])
  /\ UNCHANGED <<life, tx, gain, query, seen, selection, probe, env, mcu2, asked>>

Ports == IF seen.detect.fresh /\ (~seen.state.fresh \/ seen.latest = "detect")
         THEN seen.detect.ports ELSE seen.state.ports

Select(side) ==
  /\ On /\ ~Undecided /\ (seen.detect.fresh \/ seen.state.fresh) /\ side \in Ports /\ Said
  /\ IF seen.state.fresh /\ seen.mode = Mode(side) /\ seen.ready
     THEN /\ selection' = [selection EXCEPT !.state = "observed", !.side = side]
          /\ UNCHANGED pending
     ELSE /\ selection' = [selection EXCEPT !.state = "queued", !.side = side]
          /\ pending' = With(pending, "select", side)
  /\ UNCHANGED <<life, tx, gain, said, query, seen, probe, env, mcu2, asked>>

\* Queries of its own: the version again while it is unknown, the ports now and then.
Asks(q) ==
  /\ On /\ query[q].sent < MaxSent /\ Event
  /\ q = "version" => /\ query[q].generation = 0 /\ query[q].sent \in 1..2
                      /\ tx.kind # q /\ q \notin DOMAIN pending
  /\ pending' = With(pending, q, 0)
  /\ UNCHANGED <<life, tx, gain, said, query, seen, selection, probe, env, mcu2, asked>>

-----------------------------------------------------------------------------
\* Sending.
First == CHOOSE i \in 1..8 : Order[i] \in DOMAIN pending
                             /\ \A j \in 1..(i - 1) : Order[j] \notin DOMAIN pending

Pick ==
  /\ On /\ tx.kind = None /\ DOMAIN pending # {}
  /\ LET kind == Order[First]
     IN /\ tx' = [kind |-> kind, value |-> pending[kind], used |-> 0,
                  generation |-> IF kind = "gain" THEN gain.generation ELSE 0]
        /\ pending' = Without(pending, kind)
  /\ UNCHANGED <<life, gain, said, query, seen, selection, probe, env, mcu2, asked, bound>>

Value == tx.value

\* MCU2 has a whole envelope.
Obeys(kind, value) ==
  \/ mcu2' = CASE kind \in Query -> [mcu2 EXCEPT !.owed[kind] = @ + 1]
               [] kind = "select" -> [mcu2 EXCEPT !.side = value, !.report = TRUE]
               [] OTHER -> mcu2
  \/ mcu2' = mcu2 /\ kind = "select"

Byte ==
  /\ On /\ tx.kind # None /\ tx.used < Bytes
  /\ tx' = [tx EXCEPT !.used = @ + 1]
  /\ env' = Append(IF Len(env) = Bytes THEN <<>> ELSE env, <<tx.kind, Value>>)
  /\ IF Len(env') < Bytes THEN UNCHANGED mcu2 ELSE Obeys(tx.kind, Value)
  /\ UNCHANGED <<life, pending, gain, said, query, seen, selection, probe, asked, bound>>

\* Mutant of GainSent: the generation is that of what was asked for last.
GainSentLatest == [gain EXCEPT !.sent = tx.value, !.sentGeneration = gain.generation]
GainSent == [gain EXCEPT !.sent = tx.value, !.sentGeneration = tx.generation]

\* A query of this kind is carried for the host.
Carried(kind) == probe.stage = "active" /\ kind = probe.q

\* complete_tx(); for the gain when the line has become idle.
Complete ==
  /\ On /\ tx.used = Bytes
  /\ gain' = IF tx.kind = "gain" THEN GainSent ELSE gain
  /\ query' = IF tx.kind \in Query THEN [query EXCEPT ![tx.kind].sent = @ + 1] ELSE query
  /\ selection' = IF tx.kind = "select" THEN [selection EXCEPT !.state = "waiting", !.newer = FALSE]
                  ELSE selection
  /\ asked' = IF Carried(tx.kind) THEN [asked EXCEPT !.sent = TRUE] ELSE asked
  /\ tx' = NoTx
  /\ UNCHANGED <<life, pending, said, seen, probe, env, mcu2, bound>>

\* The line fails, or an envelope is not accepted for three seconds.
Faults ==
  /\ On /\ Event /\ life' = [life EXCEPT !.fault = TRUE]
  /\ seen' = [seen EXCEPT !.ready = FALSE] /\ selection' = Failed
  /\ UNCHANGED <<pending, tx, gain, said, query, probe, env, mcu2, asked>>

-----------------------------------------------------------------------------
\* Receiving.  MCU2 answers in the order of the envelopes; an answer may be lost.
AnsweredBy == IF asked.due > 0 THEN "earlier" ELSE "own"
Heard == [asked EXCEPT !.due = IF @ > 0 THEN @ - 1 ELSE @,
                       !.answer = IF asked.sent /\ @ = None THEN AnsweredBy ELSE @]

Reply(q) ==
  /\ On /\ mcu2.owed[q] > 0 /\ mcu2' = [mcu2 EXCEPT !.owed[q] = @ - 1]
  /\ query' = [query EXCEPT ![q].replied = query[q].sent, ![q].generation = @ + 1]
  /\ \/ q = "version" /\ UNCHANGED seen
     \/ /\ q = "detect"
        /\ \E ports \in Detected :
             seen' = [seen EXCEPT !.detect = [ports |-> ports, fresh |-> TRUE], !.latest = "detect"]
  /\ asked' = IF Carried(q) THEN Heard ELSE asked
  /\ UNCHANGED <<life, pending, tx, gain, said, selection, probe, env, bound>>

Lost(q) ==
  /\ On /\ mcu2.owed[q] > 0 /\ Event /\ mcu2' = [mcu2 EXCEPT !.owed[q] = @ - 1]
  /\ \/ Carried(q) /\ asked.due > 0 /\ asked' = [asked EXCEPT !.due = @ - 1]
     \/ (Carried(q) => mcu2.owed[q] > asked.due) /\ UNCHANGED asked
  /\ UNCHANGED <<life, pending, tx, gain, said, query, seen, selection, probe, env>>

\* Any of these ports may be detected, whatever the mode.
State(mode) ==
  /\ \E ports \in Detected :
       seen' = [seen EXCEPT !.state = [ports |-> ports, fresh |-> TRUE], !.mode = mode, !.latest = "state"]
  /\ selection' = [selection EXCEPT !.newer = TRUE]

\* A report that is due, or one of its own, of the side it has or has changed to, or of
\* neither.
Report ==
  /\ On
  /\ \/ /\ mcu2.report /\ State(Mode(mcu2.side))
        /\ mcu2' = [mcu2 EXCEPT !.report = FALSE] /\ UNCHANGED bound
     \/ /\ Event
        /\ \/ \E side \in Side : State(Mode(side)) /\ mcu2' = [mcu2 EXCEPT !.side = side]
           \/ State(1) /\ UNCHANGED mcu2
  /\ UNCHANGED <<life, pending, tx, gain, said, query, probe, env, asked>>

Ready ==
  /\ On /\ Event /\ seen' = [seen EXCEPT !.ready = ~@]
  /\ UNCHANGED <<life, pending, tx, gain, said, query, selection, probe, env, mcu2, asked>>

\* What was seen grows old.
Ages ==
  /\ On /\ Event
  /\ \/ seen.state.fresh /\ seen' = [seen EXCEPT !.state.fresh = FALSE]
     \/ seen.detect.fresh /\ seen' = [seen EXCEPT !.detect.fresh = FALSE]
  /\ UNCHANGED <<life, pending, tx, gain, said, query, selection, probe, env, mcu2, asked>>

Confirmed == selection.newer /\ seen.ready /\ seen.mode = Mode(selection.side)
             /\ selection.side \in seen.state.ports

Verdict ==
  /\ On /\ selection.state = "waiting"
  /\ selection' = [selection EXCEPT !.state = IF Confirmed THEN "observed" ELSE "timeout"]
  /\ UNCHANGED <<life, pending, tx, gain, said, query, seen, probe, env, mcu2, asked, bound>>

-----------------------------------------------------------------------------
\* The query of the host: asked in the USB interrupt,
Busy == probe.stage \in {"queued", "active"}
Request(q) ==
  /\ ~Busy /\ life.state # "stopped" /\ ~life.fault
  /\ bound.asks < MaxAsks /\ bound' = [bound EXCEPT !.asks = @ + 1]
  /\ probe' = [probe EXCEPT !.stage = "queued", !.phase = "running", !.q = q]
  /\ UNCHANGED <<life, pending, tx, gain, said, query, seen, selection, env, mcu2, asked>>

\* taken by the service of the main loop,
Due(q) == mcu2.owed[q] + (IF tx.kind = q /\ tx.used < Bytes THEN 1 ELSE 0)
Taken ==
  /\ On /\ probe.stage = "queued"
  /\ probe' = [probe EXCEPT !.stage = "active", !.generation = query[probe.q].generation,
                            !.sent = query[probe.q].sent]
  /\ pending' = With(pending, probe.q, 0)
  /\ asked' = [NotAsked EXCEPT !.due = Due(probe.q), !.clear = (Due(probe.q) = 0)]
  /\ UNCHANGED <<life, tx, gain, said, query, seen, selection, env, mcu2, bound>>

\* Mutant of Answered: the envelopes sent are not looked at.
AnsweredAny == query[probe.q].generation # probe.generation
Answered == query[probe.q].generation # probe.generation /\ query[probe.q].replied # probe.sent

\* and ended: first the stage, then the phase are stored.
Ends(phase) == probe' = [probe EXCEPT !.stage = "terminal", !.late = phase]
Ended ==
  /\ On /\ probe.stage = "active" /\ Ends(IF Answered THEN "success" ELSE "timeout")
  /\ UNCHANGED <<life, pending, tx, gain, said, query, seen, selection, env, mcu2, asked, bound>>

Stored ==
  /\ probe.late # None /\ probe' = [probe EXCEPT !.phase = probe.late, !.late = None]
  /\ UNCHANGED <<life, pending, tx, gain, said, query, seen, selection, env, mcu2, asked, bound>>

\* After a fault, or for a recovery, the port is stopped for good.
Stop ==
  /\ life.state = "started" /\ probe.late = None
  /\ IF life.fault THEN UNCHANGED <<bound, life, pending, selection>> /\ Busy
     ELSE /\ Event /\ pending' = [k \in {} |-> 0] /\ selection' = Failed
          /\ life' = [state |-> "stopped", fault |-> tx.kind # None /\ tx.used > 0]
  /\ IF Busy THEN Ends(IF life.fault THEN "io_error" ELSE "cancelled") ELSE UNCHANGED probe
  /\ UNCHANGED <<tx, gain, said, query, seen, env, mcu2, asked>>

-----------------------------------------------------------------------------
Next ==
  \/ Start \/ Pick \/ Byte \/ Complete \/ Faults \/ Report \/ Ready \/ Ages \/ Verdict
  \/ Taken \/ Ended \/ Stored \/ Stop
  \/ \E i \in Gain : SetGain(i)
  \/ \E k \in Say \ {"backend"} : Command(k)
  \/ \E side \in Side : Select(side)
  \/ \E q \in Query : Asks(q) \/ Reply(q) \/ Lost(q)
  \/ \E q \in Asked : Request(q)

Spec == Init /\ [][Next]_vars

\* The main loop polls, the line takes bytes, and timeouts come.
Polls == Start \/ Pick \/ Byte \/ Complete \/ Verdict
Serves == Taken \/ Ended \/ Stored \/ (Stop /\ life.fault)
FairSpec == Spec /\ WF_vars(Polls) /\ WF_vars(Serves)

-----------------------------------------------------------------------------
TypeOK ==
  /\ DOMAIN pending \subseteq Kind /\ tx.kind \in Kind \cup {None} /\ tx.used \in 0..Bytes
  /\ selection.state \in {"idle", "queued", "waiting", "observed", "timeout", "failed"}
  /\ probe.stage \in {"idle", "queued", "active", "terminal"}
  /\ asked.due \in Nat /\ asked.answer \in {None, "earlier", "own"}
  /\ tx.used > 0 => Len(env) = tx.used

\* All bytes of an envelope are of one command, whatever is asked for meanwhile.
Unmixed == \A i \in 1..Len(env) : env[i] = env[1]

\* The status never shows a gain as sent that was asked for before the latest.
GainTold == gain.sentGeneration = gain.generation => gain.sent = gain.desired

Succeeded == probe.stage = "terminal"
             /\ (probe.late = "success" \/ (probe.late = None /\ probe.phase = "success"))

\* A query of the host succeeds only after a reply that came when an envelope of the query
\* had been completed since the main loop took it; and if then no envelope of the query was
\* being sent or unanswered, this reply answers one that was begun since.
AnswerSince == Succeeded => /\ asked.answer # None
                            /\ asked.clear => asked.answer = "own"

\* Without that condition it is not so: the answer to an earlier envelope, late enough to
\* come after the next one is completed, is taken for that of the query.  TLC refutes this.
OwnAnswer == Succeeded => asked.answer = "own"

\* A selection that had to be sent is observed by a report that came after it.
ObservesNewer ==
  selection.state = "waiting" /\ selection'.state = "observed"
    => selection.newer /\ seen.mode = Mode(selection.side)
SelectionObserved == [][ObservesNewer]_vars

\* What is asked for ends: the latest gain is sent, a selection and a query are decided.
AllDecided == \/ life.state = "stopped" \/ life.fault
              \/ gain.sentGeneration = gain.generation /\ ~Undecided
Decided == []<>AllDecided /\ []<>~Busy
=============================================================================
