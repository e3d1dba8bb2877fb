----------------------------- MODULE AudioClock ------------------------------
(***************************************************************************)
(* The clock of the audio, brought up by the main loop before a playback   *)
(* starts (bring_up_local_ready, diagnostic_usb.c 1875-1962): the crystal  *)
(* oscillator is prepared (audio_clock_startup.h 16-60), a clock that this *)
(* firmware set up before is used again if its registers are as they were, *)
(* and else the sequencer of audio_clock.c programs the PLL and routes it  *)
(* to MCLK, one register in a poll.                                        *)
(*                                                                         *)
(* Registers are grouped by what the sequencer compares together, and the  *)
(* reads of a group are one poll.  Time runs in halves of a millisecond;   *)
(* the counter of milliseconds is read before the poll it is used in, and  *)
(* may stop.  The register accesses of this board do not fail.             *)
(***************************************************************************)
EXTENDS Integers

CONSTANTS XoTimeout, PllTimeout, DivTimeout, TotalTimeout,  \* milliseconds
          MaxStrays   \* bound: times a diagnostic request enables I2S

Settle == 7           \* FRACTIONAL_SETTLE_MS
SettleHalves == 12    \* what the PLL needs: 6 ms
ClockAssumption == /\ {XoTimeout, DivTimeout, MaxStrays} \subseteq Nat
                   /\ PllTimeout \in Nat /\ PllTimeout > Settle
                   /\ TotalTimeout \in Nat /\ TotalTimeout > PllTimeout

VARIABLES
  pc,         \* where bring_up_local_ready is, or what follows it
  owned,      \* owned_and_settled
  attempted,  \* and the second of the cooldown is not over
  blocked,    \* pb_clock_blocked
  wrote,      \* xo_changed, or successful_writes # 0
  t,          \* halves of a millisecond in startup_run
  now,        \* now_ms of a poll that is about to run, or NotRead
  phase,      \* phase_ms
  timing,     \* the settling is being timed (step of WAIT_PLL)
  xoSet, xoReady,   \* the oscillator is as it must be, and runs
  pll,        \* its registers and power
  age,        \* halves since it was powered up
  dividing,   \* a divider has not taken its value yet
  mclk,       \* MCLK comes from the PLL
  nominal,    \* the multiplier is the nominal one
  routed,     \* I2S is fed from it (FCCLKSEL0 and 2)
  stray,      \* a diagnostic request has enabled I2S
  strays,
  partial     \* observer: registers written since a clock was last ready

callVars == <<owned, attempted, blocked, wrote>>
timeVars == <<t, now, phase, timing>>
xoVars == <<xoSet, xoReady>>
pllVars == <<pll, age, dividing, mclk>>
useVars == <<nominal, routed, stray, strays>>
vars == <<pc, callVars, timeVars, xoVars, pllVars, useVars, partial>>

NotRead == -1
Sequence == {"preflight", "xo", "waitXo", "pllDown", "pllUp", "waitPll", "divide", "select",
             "waitDiv", "verify"}

\* A cold start: the oscillator runs, and its mode may be another (startup.h 11-15).
Init ==
  /\ pc = "idle" /\ owned = FALSE /\ attempted = FALSE /\ blocked = FALSE /\ wrote = FALSE
  /\ t = 0 /\ now = NotRead /\ phase = 0 /\ timing = FALSE
  /\ xoSet \in BOOLEAN /\ xoReady \in BOOLEAN
  /\ pll = "other" /\ age = 0 /\ dividing = FALSE /\ mclk = FALSE
  /\ nominal = TRUE /\ routed = FALSE /\ stray = FALSE /\ strays = 0 /\ partial = FALSE

-----------------------------------------------------------------------------
\* ac_guard: nothing uses the PLL, and the audio path is off.
Guard == ~routed /\ ~stray

\* The registers that are compared, by startup_ready and by the sequencer at its end.
Right == xoSet /\ xoReady /\ pll = "set" /\ nominal /\ ~dividing /\ mclk

\* An attempt that failed is not repeated once it has written a register.
Fail ==
  /\ pc' = "idle" /\ owned' = FALSE /\ blocked' = (blocked \/ wrote)
  /\ t' = 0 /\ now' = NotRead /\ phase' = 0 /\ timing' = FALSE
  /\ UNCHANGED <<attempted, wrote>>

Ready ==
  /\ pc' = "ready" /\ owned' = TRUE /\ attempted' = FALSE /\ partial' = FALSE
  /\ t' = 0 /\ now' = NotRead /\ phase' = 0 /\ timing' = FALSE
  /\ UNCHANGED <<blocked, wrote>>

\* bring_up_local_ready, when the main loop wants to play.
Attempt ==
  /\ pc = "idle" /\ ~blocked /\ ~attempted
  /\ attempted' = TRUE /\ wrote' = FALSE /\ pc' = "prepare"
  /\ UNCHANGED <<owned, blocked, timeVars, xoVars, pllVars, useVars, partial>>

CooledDown == pc = "idle" /\ attempted /\ attempted' = FALSE /\
              UNCHANGED <<pc, owned, blocked, wrote, timeVars, xoVars, pllVars, useVars, partial>>

\* The analogue block has no clock: nothing can be read or written.
Unclocked ==
  /\ pc = "prepare" /\ pc' = "idle"
  /\ UNCHANGED <<callVars, timeVars, xoVars, pllVars, useVars, partial>>

\* omni_audio_clock_startup_prepare_xo, with interrupts masked.
Prepare ==
  /\ pc = "prepare"
  /\ \/ /\ xoSet /\ xoReady
        /\ pc' = IF owned THEN "reuse" ELSE "begin"
        /\ UNCHANGED <<callVars, timeVars, xoVars, partial>>
     \/ /\ ~(xoSet /\ xoReady) /\ Guard /\ ~mclk
        /\ xoSet' = TRUE /\ xoReady' \in BOOLEAN
        /\ wrote' = TRUE /\ partial' = TRUE /\ owned' = FALSE /\ pc' = "oscillate"
        /\ UNCHANGED <<attempted, blocked, timeVars>>
     \/ ~(xoSet /\ xoReady) /\ ~(Guard /\ ~mclk) /\ Fail /\ UNCHANGED <<xoVars, partial>>
  /\ UNCHANGED <<pllVars, useVars>>

\* The oscillator is waited for, but not for ever.
Oscillates == pc = "oscillate" /\ xoReady /\ pc' = "begin" /\
              UNCHANGED <<callVars, timeVars, xoVars, pllVars, useVars, partial>>
NoOscillation == pc = "oscillate" /\ ~xoReady /\ Fail /\
                 UNCHANGED <<xoVars, pllVars, useVars, partial>>

\* A clock of this firmware's own is used as it is.
Reuse ==
  /\ pc = "reuse"
  /\ \/ Right /\ Ready
     \/ ~Right /\ owned' = FALSE /\ pc' = "begin"
        /\ UNCHANGED <<attempted, blocked, wrote, timeVars, partial>>
  /\ UNCHANGED <<xoVars, pllVars, useVars>>

Begin ==
  /\ pc = "begin" /\ pc' = "preflight" /\ t' \in {0, 1}
  /\ UNCHANGED <<callVars, now, phase, timing, xoVars, pllVars, useVars, partial>>

-----------------------------------------------------------------------------
\* omni_audio_clock_startup_run: the milliseconds are read, and the poll follows.
ReadNow ==
  /\ pc \in Sequence /\ now = NotRead /\ now' = t \div 2
  /\ UNCHANGED <<pc, callVars, t, phase, timing, xoVars, pllVars, useVars, partial>>

\* The poll in the state s goes on to the state p, from now on; or it writes nothing.
Goes(p) == pc' = p /\ phase' = now /\ now' = NotRead /\ timing' = FALSE /\
           UNCHANGED <<owned, attempted, blocked, t>>
Polls(s) == pc = s /\ now # NotRead /\ now < TotalTimeout /\ Guard
Stays == now' = NotRead /\ UNCHANGED <<pc, phase, timing, owned, attempted, blocked, wrote, t>>
Writes == wrote' = TRUE /\ partial' = TRUE

Refused ==
  /\ pc \in Sequence /\ now # NotRead /\ (now >= TotalTimeout \/ ~Guard)
  /\ Fail /\ UNCHANGED <<xoVars, pllVars, useVars, partial>>

Preflight ==
  /\ Polls("preflight")
  /\ IF xoSet /\ ~mclk THEN Goes("xo") /\ UNCHANGED wrote ELSE Fail
  /\ UNCHANGED <<xoVars, pllVars, useVars, partial>>

XoSetup ==
  /\ Polls("xo") /\ Goes("waitXo") /\ Writes /\ xoReady' \in BOOLEAN
  /\ UNCHANGED <<xoSet, pllVars, useVars>>

WaitXo ==
  /\ Polls("waitXo")
  /\ CASE now - phase >= XoTimeout -> Fail
       [] now - phase < XoTimeout /\ xoReady -> Goes("pllDown") /\ UNCHANGED wrote
       [] OTHER -> Stays
  /\ UNCHANGED <<xoVars, pllVars, useVars, partial>>

\* The PLL is powered down and set; and powered up.
PllDown ==
  /\ Polls("pllDown") /\ Goes("pllUp") /\ Writes /\ pll' = "down" /\ nominal' = TRUE
  /\ UNCHANGED <<xoVars, age, dividing, mclk, routed, stray, strays>>
PllUp ==
  /\ Polls("pllUp") /\ Goes("waitPll") /\ Writes /\ pll' = "set" /\ age' = 0
  /\ UNCHANGED <<xoVars, dividing, mclk, useVars>>

\* The settling is timed from a later poll than the one that powered the PLL up, whose
\* time may have been read well before.
Since == IF timing THEN phase ELSE now
WaitPll ==
  /\ Polls("waitPll")
  /\ CASE now - Since >= PllTimeout -> Fail
       [] now - Since \in Settle..PllTimeout - 1 -> Goes("divide") /\ UNCHANGED wrote
       [] OTHER -> /\ phase' = Since /\ timing' = TRUE /\ now' = NotRead
                   /\ UNCHANGED <<pc, callVars, t>>
  /\ UNCHANGED <<xoVars, pllVars, useVars, partial>>

\* MCLK is divided before the PLL is its source.
Divide ==
  /\ Polls("divide") /\ Goes("select") /\ Writes /\ dividing' = TRUE
  /\ UNCHANGED <<xoVars, pll, age, mclk, useVars>>
Select ==
  /\ Polls("select") /\ Goes("waitDiv") /\ Writes /\ mclk' = TRUE
  /\ UNCHANGED <<xoVars, pll, age, dividing, useVars>>

WaitDiv ==
  /\ Polls("waitDiv")
  /\ CASE now - phase >= DivTimeout -> Fail
       [] now - phase < DivTimeout /\ ~dividing -> Goes("verify") /\ UNCHANGED wrote
       [] OTHER -> Stays
  /\ UNCHANGED <<xoVars, pllVars, useVars, partial>>

Verify ==
  /\ Polls("verify")
  /\ IF Right THEN Ready ELSE Fail /\ UNCHANGED partial
  /\ UNCHANGED <<xoVars, pllVars, useVars>>

\* The limit of polls, for when the milliseconds stop.
PollsOut == pc \in Sequence /\ Fail /\ UNCHANGED <<xoVars, pllVars, useVars, partial>>

-----------------------------------------------------------------------------
\* The playback routes the clock and steers the PLL while it runs; what tears it down
\* sets the nominal multiplier again (usb_audio_ring.c 113-130).
Play ==
  /\ pc = "ready" /\ pc' = "playing" /\ routed' = TRUE /\ nominal' \in BOOLEAN
  /\ UNCHANGED <<callVars, timeVars, xoVars, pllVars, stray, strays, partial>>
Teardown ==
  /\ pc \in {"ready", "playing"} /\ pc' = "idle" /\ nominal' = TRUE /\ stray' = FALSE
  /\ UNCHANGED <<callVars, timeVars, xoVars, pllVars, routed, strays, partial>>

\* Half a millisecond passes; the oscillator starts; the divider takes its value.
Tick ==
  /\ IF pc \in Sequence THEN t < 2 * TotalTimeout ELSE age < SettleHalves
  /\ t' = (IF pc \in Sequence THEN t + 1 ELSE t)
  /\ age' = IF age < SettleHalves THEN age + 1 ELSE age
  /\ UNCHANGED <<pc, callVars, now, phase, timing, xoVars, pll, dividing, mclk, useVars, partial>>
Starts == ~xoReady /\ xoReady' = TRUE /\
          UNCHANGED <<pc, callVars, timeVars, xoSet, pllVars, useVars, partial>>
Divides == dividing /\ dividing' = FALSE /\
           UNCHANGED <<pc, callVars, timeVars, xoVars, pll, age, mclk, useVars, partial>>

\* A diagnostic request of the host, in the USB interrupt (diagnostic_usb.c, opcode 30).
Strays ==
  /\ strays < MaxStrays /\ strays' = strays + 1 /\ stray' = TRUE
  /\ UNCHANGED <<pc, callVars, timeVars, xoVars, pllVars, nominal, routed, partial>>

Main ==
  \/ Attempt \/ Unclocked \/ Prepare \/ Oscillates \/ NoOscillation \/ Reuse \/ Begin
  \/ ReadNow \/ Refused \/ Preflight \/ XoSetup \/ WaitXo \/ PllDown \/ PllUp \/ WaitPll
  \/ Divide \/ Select \/ WaitDiv \/ Verify
Next == Main \/ PollsOut \/ CooledDown \/ Play \/ Teardown \/ Tick \/ Starts \/ Divides \/ Strays

\* The main loop runs, and comes to the end of its polls.
Spec == Init /\ [][Next]_vars
FairSpec == Spec /\ WF_vars(Main) /\ WF_vars(PollsOut)

-----------------------------------------------------------------------------
\* MCLK has the PLL for its source only once the PLL has settled, whatever interrupts
\* come between the time that is read and the registers that are written
\* (audio_clock.c 143-168, audio_clock.h on FRACTIONAL_SETTLE_MS).
Settled == mclk => pll = "set" /\ age = SettleHalves

\* A clock that was programmed in part is not programmed again
\* (diagnostic_usb.c 286-305, 1880).
NotRetried == pc = "prepare" => ~partial

\* The clock that a playback leaves is found as it was set up, so that the next playback
\* has it at once (audio_clock_startup.h 62-81).
FoundAgain == pc = "reuse" => Right

\* Every attempt ends, also when the milliseconds stand still.
Attempted == pc \in {"idle", "ready", "playing"}
AttemptEnds == []<>Attempted
=============================================================================
