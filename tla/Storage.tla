------------------------------ MODULE Storage ------------------------------
(***************************************************************************)
(* What the firmware keeps in flash, and the power loss that may interrupt *)
(* it: the equaliser in two pages written in turn (eq_persist.c, eq_nvm.c) *)
(* and the one page of boot metadata (boot_ack.c), rewritten when the      *)
(* image is acknowledged and when the host prepares a software recovery    *)
(* (diagnostic_usb.c).  Both are written by the main loop, followed here   *)
(* through the services concerned; the USB interrupt takes the requests    *)
(* for recovery and opens and closes playback in between, except while a   *)
(* flash driver masks it.  A page whose writing was cut short fails its    *)
(* checksum or its ECC and reads as blank; an intact page is readable.     *)
(***************************************************************************)
EXTENDS Integers

CONSTANT MaxEdits     \* bound: edits of the equaliser, over all restarts
EditsAssumption == MaxEdits \in Nat \ {0}

Slot == 0..1
Page == [seq : Nat, value : 0..MaxEdits]  \* value 0: the defaults, n: after edit n
Torn == [seq |-> 0, value |-> 0]
Meta == [intact : BOOLEAN, force : BOOLEAN, eligible : BOOLEAN, pending : BOOLEAN,
         acked : BOOLEAN]

VARIABLES
  slot, meta,         \* the two equaliser pages and the metadata page
  pc, stage,          \* the service the main loop is in, the step of a page write
  image,              \* metadata_page: what is being written to the metadata page
  ackStatus,          \* boot_ack_status: "waiting", "ok" or "failed"
  configured, playing,    \* configuration = 1, the playback alternate is not 0
  restored, value, edits, \* the equaliser in the cache; edits ever made
  noticed, settled,   \* last_gen = generation, 2 s have passed since change_ms
  dirty,              \* saved_gen # generation
  active, nextSeq,    \* active_slot, next_seq
  recovery, commit,   \* recovery_state, recovery_commit
  confirmed, tried    \* history: the value last restored or saved, those tried since

hostVars     == <<configured, playing>>
eqVars       == <<restored, value, edits, noticed, settled, dirty, active, nextSeq,
                  confirmed, tried>>
recoveryVars == <<recovery, commit>>
vars == <<slot, meta, pc, stage, image, ackStatus, hostVars, eqVars, recoveryVars>>

\* omni_eq_nvm_pick: the intact page with the highest sequence number.
Pick == IF slot[1].seq > slot[0].seq THEN 1 ELSE 0
Restored == slot[Pick].value

TornMeta == [intact |-> FALSE, force |-> FALSE, eligible |-> FALSE, pending |-> FALSE,
             acked |-> FALSE]
\* A new image as the loader hands it over.
Fresh == {m \in Meta : m.intact /\ m.pending /\ ~m.acked /\ ~m.force}

Init == /\ slot = [s \in Slot |-> Torn] /\ meta \in Fresh /\ image = TornMeta
        /\ pc = "start" /\ stage = "none" /\ ackStatus = "waiting"
        /\ configured = FALSE /\ playing = FALSE
        /\ restored = FALSE /\ value = 0 /\ edits = 0
        /\ noticed = TRUE /\ settled = FALSE /\ dirty = FALSE
        /\ active = 0 /\ nextSeq = 1 /\ confirmed = 0 /\ tried = {}
        /\ recovery = 0 /\ commit = FALSE

Running == pc \notin {"start", "loader"}
Usable == ackStatus = "ok" /\ recovery = 0

\* The next service of the main loop.
Turn == pc' = CASE pc = "services" -> "ack" [] pc = "ack" -> "ui" [] pc = "ui" -> "prepare"
                [] pc = "prepare" -> "commit" [] pc = "commit" -> "services"

-----------------------------------------------------------------------------
\* One step of a page write: what the ROM call may leave in the page, and what
\* comes next.  The first failure ends the write.  Programming may leave a bad
\* page without reporting it; the verification notices.
PageStep(page, torn, new) ==
  CASE stage = "erase"   -> {<<torn, "program">>, <<torn, "bad">>, <<page, "bad">>}
    [] stage = "program" -> {<<new, "verify">>, <<torn, "verify">>, <<torn, "bad">>}
    [] stage = "verify"  -> {<<page, "bad">>} \cup {<<p, "good">> : p \in {page} \cap {new}}

Writing == stage \in {"erase", "program", "verify"}
\* USB is stopped around the acknowledgement.  Interrupts are masked from before
\* the first ROM call of a preparation to its end, but only after the checks of the
\* poll in an equaliser write.
Masked == \/ stage \in {"program", "verify"}
          \/ stage = "erase" /\ pc = "prepare"
          \/ stage # "none" /\ pc = "ack"

\* The page images that omni_boot_ack_apply and omni_boot_recovery_apply write.
Acked  == [meta EXCEPT !.force = FALSE, !.acked = TRUE]
Forced == [meta EXCEPT !.force = TRUE]

WriteMeta == /\ pc \in {"ack", "prepare"} /\ Writing
             /\ \E r \in PageStep(meta, TornMeta, image) : meta' = r[1] /\ stage' = r[2]
             /\ UNCHANGED <<slot, pc, image, ackStatus, hostVars, eqVars, recoveryVars>>

-----------------------------------------------------------------------------
\* The main loop.

\* A reply or a menu changes the equaliser, or confirms it unchanged.
Edit == /\ pc = "services" /\ Usable /\ edits < MaxEdits
        /\ edits' = edits + 1 /\ value' \in {value, edits + 1}
        /\ noticed' = FALSE /\ dirty' = TRUE
        /\ UNCHANGED <<slot, meta, pc, stage, image, ackStatus, hostVars, restored, settled,
                       active, nextSeq, confirmed, tried, recoveryVars>>

Services == /\ pc = "services" /\ Turn
            /\ UNCHANGED <<slot, meta, stage, image, ackStatus, hostVars, eqVars, recoveryVars>>

\* omni_boot_ack_apply refuses the page it read, or finds nothing to do.
AckInvalid == ~meta.intact
              \/ (~meta.pending /\ ~(meta.eligible /\ meta.acked /\ ~meta.force))
AckDone == meta.acked /\ ~meta.force

AckDue == configured /\ ackStatus = "waiting"
AckSkip == /\ pc = "ack" /\ stage = "none" /\ ~AckDue /\ Turn
           /\ UNCHANGED <<slot, meta, stage, image, ackStatus, hostVars, eqVars, recoveryVars>>
AckBegin == /\ pc = "ack" /\ stage = "none" /\ AckDue
            /\ \/ stage' = "bad" /\ image' = image    \* the driver or the read fails
               \/ stage' = (IF AckDone THEN "good" ELSE "erase") /\ ~AckInvalid /\ image' = Acked
            /\ UNCHANGED <<slot, meta, pc, ackStatus, hostVars, eqVars, recoveryVars>>
AckEnd == /\ pc = "ack" /\ stage \in {"good", "bad"} /\ Turn
          /\ ackStatus' = IF stage = "good" THEN "ok" ELSE "failed"
          /\ stage' = "none"
          /\ UNCHANGED <<slot, meta, image, hostVars, eqVars, recoveryVars>>

\* omni_ui_poll runs once the image is acknowledged and recovery was not asked for.
UiSkip == /\ pc = "ui" /\ stage = "none" /\ ~Usable /\ Turn
          /\ UNCHANGED <<slot, meta, stage, image, ackStatus, hostVars, eqVars, recoveryVars>>

\* omni_eq_persist_restore, in the first omni_ui_poll.
NextSeq == slot[Pick].seq + 1
Restore == /\ pc = "ui" /\ stage = "none" /\ Usable /\ ~restored
           /\ restored' = TRUE
           /\ value' = Restored /\ active' = Pick /\ nextSeq' = NextSeq
           /\ noticed' = TRUE /\ dirty' = FALSE
           /\ confirmed' = Restored /\ tried' = {}
           /\ UNCHANGED <<slot, meta, pc, stage, image, ackStatus, hostVars, edits, settled,
                          recoveryVars>>

\* omni_eq_persist_poll: a change is noticed, then waited for, then written.
SettledNow == settled /\ noticed
SaveDue == dirty /\ SettledNow /\ ~playing
Poll == /\ pc = "ui" /\ stage = "none" /\ Usable /\ restored
        /\ noticed' = TRUE /\ settled' = SettledNow
        /\ IF SaveDue THEN stage' = "erase" /\ tried' = tried \cup {value} /\ pc' = pc
                      ELSE Turn /\ UNCHANGED <<stage, tried>>
        /\ UNCHANGED <<slot, meta, image, ackStatus, hostVars, restored, value, edits, dirty,
                       active, nextSeq, confirmed, recoveryVars>>

\* Mutant of Target: the page in use is written.
TargetActive == active
Target == 1 - active
Saved == [seq |-> nextSeq, value |-> value]
WriteEq == /\ pc = "ui" /\ Writing
           /\ \E r \in PageStep(slot[Target], Torn, Saved) :
                slot' = [slot EXCEPT ![Target] = r[1]] /\ stage' = r[2]
           /\ UNCHANGED <<meta, pc, image, ackStatus, hostVars, eqVars, recoveryVars>>
\* Mutant of SaveEnd: the change counts as saved even when the write failed.
SaveEndAlways ==
  /\ pc = "ui" /\ stage \in {"good", "bad"} /\ Turn
  /\ stage' = "none" /\ active' = Target /\ nextSeq' = nextSeq + 1 /\ dirty' = FALSE
  /\ confirmed' = (IF stage = "good" THEN value ELSE confirmed)
  /\ UNCHANGED <<slot, meta, image, ackStatus, hostVars, restored, value, edits,
                 noticed, settled, tried, recoveryVars>>
SaveEnd == /\ pc = "ui" /\ stage \in {"good", "bad"} /\ Turn
           /\ stage' = "none"
           /\ IF stage = "good"
              THEN /\ active' = Target /\ nextSeq' = nextSeq + 1 /\ dirty' = FALSE
                   /\ confirmed' = value /\ tried' = {}
              ELSE UNCHANGED <<active, nextSeq, dirty, confirmed, tried>>
           /\ UNCHANGED <<slot, meta, image, ackStatus, hostVars, restored, value, edits,
                          noticed, settled, recoveryVars>>

\* boot_prepare_recovery with omni_boot_recovery_apply.
PrepareInvalid == ~(meta.intact /\ meta.acked /\ (meta.eligible \/ meta.pending))
PrepareSkip ==
  /\ pc = "prepare" /\ stage = "none" /\ recovery # 1 /\ Turn
  /\ UNCHANGED <<slot, meta, stage, image, ackStatus, hostVars, eqVars, recoveryVars>>
PrepareBegin ==
  /\ pc = "prepare" /\ stage = "none" /\ recovery = 1
  /\ \/ stage' = "bad" /\ image' = image
     \/ stage' = (IF meta.force THEN "good" ELSE "erase") /\ ~PrepareInvalid /\ image' = Forced
  /\ UNCHANGED <<slot, meta, pc, ackStatus, hostVars, eqVars, recoveryVars>>
PrepareEnd ==
  /\ pc = "prepare" /\ stage \in {"good", "bad"} /\ Turn
  /\ recovery' = (IF stage = "good" THEN 2 ELSE 3) /\ stage' = "none"
  /\ UNCHANGED <<slot, meta, image, ackStatus, hostVars, eqVars, commit>>

\* The RAM of a fresh start, after a reset or a power loss.
Cleared == /\ pc' = "start" /\ stage' = "none" /\ ackStatus' = "waiting" /\ image' = TornMeta
           /\ configured' = FALSE /\ playing' = FALSE
           /\ restored' = FALSE /\ value' = 0
           /\ noticed' = TRUE /\ settled' = FALSE /\ dirty' = FALSE
           /\ active' = 0 /\ nextSeq' = 1
           /\ recovery' = 0 /\ commit' = FALSE
           /\ UNCHANGED <<slot, meta, edits, confirmed, tried>>

CommitSkip == /\ pc = "commit" /\ ~(commit /\ recovery = 2) /\ Turn
              /\ UNCHANGED <<slot, meta, stage, image, ackStatus, hostVars, eqVars, recoveryVars>>
CommitReset == pc = "commit" /\ commit /\ recovery = 2 /\ Cleared

Main == \/ Edit \/ Services \/ AckSkip \/ AckBegin \/ AckEnd \/ UiSkip \/ Restore \/ Poll
        \/ SaveEnd \/ PrepareSkip \/ PrepareBegin \/ PrepareEnd \/ CommitSkip \/ CommitReset

-----------------------------------------------------------------------------
\* The USB interrupt, the timer, and the world.

HostUnchanged == UNCHANGED <<slot, meta, pc, stage, image, ackStatus, eqVars>>
\* A bus reset and every configuration request close playback.
SetConfiguration == /\ Running /\ ~Masked /\ configured' \in BOOLEAN /\ playing' = FALSE
                    /\ HostUnchanged /\ UNCHANGED recoveryVars
SetInterface == /\ Running /\ ~Masked /\ configured /\ playing' = ~playing
                /\ HostUnchanged /\ UNCHANGED <<configured, recoveryVars>>

\* HID feature reports 5 and 7, with the token of the session: a report with
\* another one changes nothing.
RequestPrepare == /\ Running /\ ~Masked /\ ackStatus = "ok" /\ recovery = 0
                  /\ recovery' = 1
                  /\ HostUnchanged /\ UNCHANGED <<hostVars, commit>>
\* Mutant of RequestCommit: accepted while the preparation is still to run.
RequestCommitEarly == /\ Running /\ ~Masked /\ recovery # 0 /\ commit' = TRUE
                      /\ HostUnchanged /\ UNCHANGED <<hostVars, recovery>>
RequestCommit == /\ Running /\ ~Masked /\ recovery = 2
                 /\ commit' = TRUE
                 /\ HostUnchanged /\ UNCHANGED <<hostVars, recovery>>

TwoSeconds == /\ Running /\ ~settled /\ settled' = TRUE
              /\ UNCHANGED <<slot, meta, pc, stage, image, ackStatus, hostVars, restored, value,
                             edits, noticed, dirty, active, nextSeq, confirmed, tried,
                             recoveryVars>>

Crash == Running /\ Cleared

\* The loader: it keeps the processor when the force word is set in an
\* acknowledged page, and may count a pending image as eligible from then on.
RestUnchanged == UNCHANGED <<slot, stage, image, ackStatus, hostVars, eqVars, recoveryVars>>
Boot == /\ pc = "start"
        /\ IF meta.force /\ meta.acked
           THEN pc' = "loader" /\ meta' = meta
           ELSE /\ pc' \in {"services"} \cup (IF meta.intact THEN {} ELSE {"loader"})
                /\ meta' \in {meta} \cup (IF meta.acked /\ meta.pending
                                          THEN {[meta EXCEPT !.eligible = TRUE, !.pending = FALSE]}
                                          ELSE {})
        /\ RestUnchanged
\* The host ends the recovery, with a new image or with the one there is.
LeaveLoader == /\ pc = "loader" /\ pc' = "services"
               /\ meta' \in Fresh \cup {meta}
               /\ RestUnchanged

Host == SetConfiguration \/ SetInterface \/ RequestPrepare \/ RequestCommit
Next == Main \/ WriteMeta \/ WriteEq \/ Host \/ TwoSeconds \/ Crash \/ Boot \/ LeaveLoader

\* The device runs and its timer goes on; a page that is written again and again is
\* written in the end.
Runs == Main \/ WriteMeta \/ WriteEq \/ Boot
Saves(st) == pc = "ui" /\ stage = st
Fairness == /\ WF_vars(Runs) /\ WF_vars(TwoSeconds)
            /\ <>[]~Saves("erase") \/ []<>Saves("good")
Spec == Init /\ [][Next]_vars /\ Fairness

-----------------------------------------------------------------------------
\* Every variable keeps its range: a page write is only ever in progress in the
\* service that started it, and the recovery state is one of the four of the code.
TypeOK ==
  /\ slot \in [Slot -> Page] /\ meta \in Meta /\ image \in Meta
  /\ pc \in {"start", "loader", "services", "ack", "ui", "prepare", "commit"}
  /\ stage \in {"none", "erase", "program", "verify", "good", "bad"}
  /\ stage # "none" => pc \in {"ack", "ui", "prepare"}
  /\ ackStatus \in {"waiting", "ok", "failed"}
  /\ {configured, playing, restored, noticed, settled, dirty, commit} \subseteq BOOLEAN
  /\ {value, edits, confirmed} \cup tried \subseteq 0..MaxEdits
  /\ active \in Slot /\ nextSeq \in Nat \ {0} /\ recovery \in 0..3

\* Whenever power fails, also in the middle of a page and after any number of
\* failed writes and restarts, the equaliser that the next start restores is the
\* one last restored or saved, or one whose writing was begun since
\* (eq_persist.c 51, eq_nvm.c 57-68).
SavedSurvives == Restored \in {confirmed} \cup tried

\* Once the host has committed to a recovery, the metadata page is intact,
\* acknowledged and asks for the loader: nothing undoes the preparation, and a
\* failed preparation never authorises the reset (diagnostic_usb.c 480-502,
\* 2212-2228).
CommitVerified == commit => recovery = 2 /\ meta.intact /\ meta.acked /\ meta.force

\* A committed recovery reaches the loader, also when power fails first: neither a reset
\* nor a power loss ends in anything else.
Called == commit \/ (pc = "start" /\ meta.force /\ meta.acked)
CallHolds == Called /\ ~Called' => pc' = "loader"
CommitEntersLoader == [][CallHolds]_vars /\ []<>~Called

\* If playback stops for good, a change of the equaliser is in the end what a
\* restart would restore, unless a recovery or a restart comes first: deferral,
\* merging and failed writes never lose it (eq_persist.c 35-57).
SavedOrOver == ~Running \/ ~restored \/ recovery # 0 \/ (~dirty /\ Restored = value)
EventuallySaved == <>[]~playing => []<>SavedOrOver

=============================================================================
