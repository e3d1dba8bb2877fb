------------------------------ MODULE IsoBanks ------------------------------
(***************************************************************************)
(* One isochronous endpoint of usb_iso_banks.c: two hardware descriptors   *)
(* ("banks") that take turns, and the payload slots they point to.  The    *)
(* controller moves data between any two steps of the CPU; all CPU code    *)
(* here runs in the USB interrupt and is serialised.  A receive endpoint   *)
(* has a third slot, so that a completed bank is armed again before its    *)
(* packet is read.  A feedback endpoint refills the slot of the bank that  *)
(* completed.  The steps of a cancellation are those of IsoCancel, seen    *)
(* from one endpoint.                                                      *)
(***************************************************************************)
EXTENDS Integers, FiniteSets

CONSTANTS Kind,        \* "rx" for endpoint 0x03, "feedback" for endpoint 0x84
          MaxPackets,  \* bound: packets the host exchanges per generation
          MaxOpens     \* bound: how often the endpoint is opened

ASSUME KindAssumption == Kind \in {"rx", "feedback"}
ASSUME BoundsAssumption == MaxPackets \in Nat /\ MaxOpens \in Nat

Bank == 0..1
Slot == IF Kind = "rx" THEN 0..2 ELSE 0..1
NoSlot == 255

VARIABLES desc,       \* per bank: ACTIVE, the slot it points to, a malformed result
          inuse,      \* EPINUSE: the bank the controller uses next
          buf,        \* per slot: <<generation, number>> of the packet it holds
          host,       \* packets the controller has completed since the open
          irq,        \* the endpoint's bit in INTSTAT
          claimed, running, expected, bankSlot, owner,   \* omni_iso_banks_t
          opens,      \* how often the endpoint was opened
          last,       \* packets handed on or refilled since the open
          pc, old, fresh, completed   \* where the USB interrupt is

hwVars  == <<desc, inuse, buf, host, irq>>
swVars  == <<claimed, running, expected, bankSlot, owner, opens, last>>
cpuVars == <<pc, old, fresh, completed>>
vars    == <<hwVars, swVars, cpuVars>>

Free == [s \in Slot |-> "free"]

Init == /\ desc = [b \in Bank |-> [active |-> FALSE, slot |-> 0, bad |-> FALSE]]
        /\ inuse \in Bank
        /\ buf = [s \in Slot |-> <<0, 0>>]
        /\ host = 0
        /\ irq = FALSE
        /\ claimed = FALSE
        /\ running = FALSE
        /\ expected = 0
        /\ bankSlot = [b \in Bank |-> NoSlot]
        /\ owner = Free
        /\ opens = 0
        /\ last = 0
        /\ pc = "idle"
        /\ old = 0
        /\ fresh = 0
        /\ completed = 0

-----------------------------------------------------------------------------
\* The controller completes a transaction in the selected bank and turns to
\* the other one.  The descriptor it leaves behind may be malformed.
Token(bad) ==
  /\ desc[inuse].active
  /\ host < MaxPackets
  /\ desc' = [desc EXCEPT ![inuse].active = FALSE, ![inuse].bad = bad]
  /\ inuse' = 1 - inuse
  /\ buf' = [buf EXCEPT ![desc[inuse].slot] = <<opens, host + 1>>]
  /\ host' = host + 1
  /\ irq' = TRUE
  /\ UNCHANGED <<swVars, cpuVars>>

-----------------------------------------------------------------------------
\* arm_slot: the slot is the CPU's while it is filled, then the bank's.
Arm(b, s) ==
  /\ ~desc[b].active
  /\ desc' = [desc EXCEPT ![b] = [active |-> TRUE, slot |-> s, bad |-> FALSE]]
  /\ bankSlot' = [bankSlot EXCEPT ![b] = s]
  /\ owner' = [owner EXCEPT ![s] = "hardware"]
  /\ UNCHANGED <<inuse, buf, host, irq, running>>

\* The adapter refuses the buffer or finds the bank still active.
ArmFails(s) ==
  /\ owner' = [owner EXCEPT ![s] = "free"]
  /\ running' = FALSE
  /\ UNCHANGED <<hwVars, bankSlot>>

\* omni_usb_iso_open_format up to the first arm.
Open ==
  /\ pc = "idle"
  /\ ~claimed
  /\ opens < MaxOpens
  /\ \A b \in Bank : ~desc[b].active
  /\ irq' = FALSE
  /\ expected' = inuse
  /\ bankSlot' = [b \in Bank |-> NoSlot]
  /\ owner' = Free
  /\ claimed' = TRUE
  /\ running' = TRUE
  /\ opens' = opens + 1
  /\ last' = 0
  /\ host' = 0
  /\ pc' = "open1"
  /\ UNCHANGED <<desc, inuse, buf, old, fresh, completed>>

OpenFirst ==
  /\ pc = "open1"
  /\ \/ Arm(expected, 0) /\ pc' = "open2"
     \/ ArmFails(0) /\ pc' = "idle"
  /\ UNCHANGED <<claimed, expected, opens, last, old, fresh, completed>>

OpenSecond ==
  /\ pc = "open2"
  /\ \/ Arm(1 - expected, 1)
     \/ ArmFails(1)
  /\ pc' = "idle"
  /\ UNCHANGED <<claimed, expected, opens, last, old, fresh, completed>>

-----------------------------------------------------------------------------
\* omni_usb_iso_interrupt: the DCI has cleared the endpoint's INTSTAT bit.
ServiceStart ==
  /\ pc = "idle"
  /\ irq
  /\ claimed /\ running
  /\ irq' = FALSE
  /\ completed' = 0
  /\ pc' = "check"
  /\ UNCHANGED <<desc, inuse, buf, host, swVars, old, fresh>>

ServiceIgnore ==
  /\ pc = "idle"
  /\ irq
  /\ ~(claimed /\ running)
  /\ irq' = FALSE
  /\ UNCHANGED <<desc, inuse, buf, host, swVars, cpuVars>>

\* The bank the software waits for belongs to the controller.
Owned == bankSlot[expected] \in Slot /\ owner[bankSlot[expected]] = "hardware"

FreeSlots == {s \in Slot : owner[s] = "free"}
Lowest(S) == CHOOSE s \in S : \A t \in S : s <= t

\* Mutant of TakeBank: the completed slot is offered to the controller again.
TakeBankReuse ==
  /\ old' = bankSlot[expected]
  /\ fresh' = bankSlot[expected]
  /\ bankSlot' = [bankSlot EXCEPT ![expected] = NoSlot]
  /\ owner' = [owner EXCEPT ![bankSlot[expected]] = "cpu"]
  /\ UNCHANGED running
  /\ pc' = "arm"

\* A completed bank becomes the CPU's, and the slot to arm next is chosen.
TakeBank ==
  /\ old' = bankSlot[expected]
  /\ bankSlot' = [bankSlot EXCEPT ![expected] = NoSlot]
  /\ owner' = [owner EXCEPT ![bankSlot[expected]] = "cpu"]
  /\ IF Kind = "feedback" THEN
       fresh' = bankSlot[expected] /\ pc' = "arm" /\ UNCHANGED running
     ELSE IF FreeSlots = {} THEN
       running' = FALSE /\ pc' = "idle" /\ UNCHANGED fresh
     ELSE
       fresh' = Lowest(FreeSlots) /\ pc' = "arm" /\ UNCHANGED running

\* Nothing completed, or the endpoint stops with its ownership unchanged.
LeaveBank ==
  /\ running' = (Owned /\ desc[expected].active)
  /\ pc' = "idle"
  /\ UNCHANGED <<bankSlot, owner, old, fresh>>

\* The top of the service loop: ownership check and descriptor read.
ServiceRead ==
  /\ pc = "check"
  /\ IF Owned /\ ~desc[expected].active /\ ~desc[expected].bad THEN TakeBank
                                                                ELSE LeaveBank
  /\ UNCHANGED <<hwVars, claimed, expected, opens, last, completed>>

\* Mutant of NextBank: one packet per interrupt.
NextBankOnce ==
  /\ last' = last + 1
  /\ expected' = 1 - expected
  /\ completed' = completed + 1
  /\ pc' = "idle"

\* The end of the loop body, after which the loop goes on or the service ends.
NextBank ==
  /\ last' = last + 1
  /\ expected' = 1 - expected
  /\ completed' = completed + 1
  /\ pc' = IF completed' < 2 THEN "check" ELSE "idle"

ServiceArm ==
  /\ pc = "arm"
  /\ \/ /\ Arm(expected, fresh)
        /\ IF Kind = "rx" THEN pc' = "consume" /\ UNCHANGED <<last, expected, completed>>
                          ELSE NextBank
     \/ /\ ArmFails(fresh)
        /\ pc' = "idle"
        /\ UNCHANGED <<last, expected, completed>>
  /\ UNCHANGED <<claimed, opens, old, fresh>>

\* Mutant of ServiceConsume: the loop stays on the bank it has just served.
ServiceConsumeSameBank ==
  /\ pc = "consume"
  /\ owner' = [owner EXCEPT ![old] = "free"]
  /\ last' = last + 1
  /\ completed' = completed + 1
  /\ pc' = IF completed' < 2 THEN "check" ELSE "idle"
  /\ UNCHANGED <<hwVars, claimed, running, bankSlot, expected, opens, old, fresh>>

\* Mutant of ServiceConsume: the slot just read is never given back.
ServiceConsumeKeepSlot ==
  /\ pc = "consume"
  /\ NextBank
  /\ UNCHANGED <<hwVars, claimed, running, bankSlot, owner, opens, old, fresh>>

\* consume() has read the old payload; its slot is free again.
ServiceConsume ==
  /\ pc = "consume"
  /\ owner' = [owner EXCEPT ![old] = "free"]
  /\ NextBank
  /\ UNCHANGED <<hwVars, claimed, running, bankSlot, opens, old, fresh>>

-----------------------------------------------------------------------------
\* omni_usb_iso_cancel: stop, then park what is active, one selector at a time.
Cancel ==
  /\ pc = "idle"
  /\ claimed
  /\ running' = FALSE
  /\ pc' = "cancel"
  /\ UNCHANGED <<hwVars, claimed, expected, bankSlot, owner, opens, last,
                 old, fresh, completed>>

\* EPSKIP took effect on the selected bank.
CancelPark ==
  /\ pc = "cancel"
  /\ desc[inuse].active
  /\ desc' = [desc EXCEPT ![inuse].active = FALSE]
  /\ irq' = TRUE
  /\ UNCHANGED <<inuse, buf, host, swVars, cpuVars>>

CancelSelect ==
  /\ pc = "cancel"
  /\ ~desc[inuse].active
  /\ inuse' = 1 - inuse
  /\ UNCHANGED <<desc, buf, host, irq, swVars, cpuVars>>

\* Mutant of CancelRelease: only the selected bank is looked at.
CancelReleaseEarly ==
  /\ pc = "cancel"
  /\ ~desc[inuse].active
  /\ irq' = FALSE
  /\ bankSlot' = [b \in Bank |-> NoSlot]
  /\ owner' = Free
  /\ claimed' = FALSE
  /\ pc' = "idle"
  /\ UNCHANGED <<desc, inuse, buf, host, running, expected, opens, last,
                 old, fresh, completed>>

\* INTSTAT is cleared and omni_iso_banks_quiesced releases the slots.
CancelRelease ==
  /\ pc = "cancel"
  /\ \A b \in Bank : ~desc[b].active
  /\ irq' = FALSE
  /\ bankSlot' = [b \in Bank |-> NoSlot]
  /\ owner' = Free
  /\ claimed' = FALSE
  /\ pc' = "idle"
  /\ UNCHANGED <<desc, inuse, buf, host, running, expected, opens, last,
                 old, fresh, completed>>

\* The spin budget is used up: ownership stays as it is.
CancelGiveUp ==
  /\ pc = "cancel"
  /\ pc' = "idle"
  /\ UNCHANGED <<hwVars, swVars, old, fresh, completed>>

Service == ServiceStart \/ ServiceIgnore \/ ServiceRead \/ ServiceArm \/ ServiceConsume

Next == \/ \E bad \in BOOLEAN : Token(bad)
        \/ Open \/ OpenFirst \/ OpenSecond
        \/ Service
        \/ Cancel \/ CancelPark \/ CancelSelect \/ CancelRelease \/ CancelGiveUp

Spec == Init /\ [][Next]_vars

\* An interrupt that is pending is served, and what the USB interrupt has
\* begun runs to its end.
Progress == OpenFirst \/ OpenSecond \/ Service
FairSpec == Spec /\ WF_vars(Progress)

-----------------------------------------------------------------------------
Descriptor == [active : BOOLEAN, slot : Slot, bad : BOOLEAN]
Packet == (0..MaxOpens) \X (0..MaxPackets)

TypeOK ==
  /\ desc \in [Bank -> Descriptor]
  /\ inuse \in Bank
  /\ buf \in [Slot -> Packet]
  /\ host \in 0..MaxPackets
  /\ irq \in BOOLEAN
  /\ claimed \in BOOLEAN
  /\ running \in BOOLEAN
  /\ expected \in Bank
  /\ bankSlot \in [Bank -> Slot \cup {NoSlot}]
  /\ owner \in [Slot -> {"free", "hardware", "cpu"}]
  /\ opens \in 0..MaxOpens
  /\ last \in Nat
  /\ pc \in {"idle", "open1", "open2", "check", "arm", "consume", "cancel"}
  /\ old \in Slot
  /\ fresh \in Slot
  /\ completed \in 0..2

(* No memory is shared between the controller and the CPU: the slot of an  *)
(* armed bank is marked as the controller's, the two armed banks never     *)
(* point to the same slot, the slots the CPU is reading or about to arm    *)
(* are not armed, and after a release nothing is armed at all.             *)
SlotOwnership ==
  /\ \A b \in Bank : desc[b].active =>
       claimed /\ bankSlot[b] = desc[b].slot /\ owner[desc[b].slot] = "hardware"
  /\ bankSlot[0] = bankSlot[1] => bankSlot[0] = NoSlot
  /\ pc = "arm" => owner[old] = "cpu" /\ owner[fresh] # "hardware"
  /\ pc = "consume" => owner[old] = "cpu"

(* While the endpoint runs it never runs out of slots: between packets     *)
(* both banks have one and the third, if there is one, is free, so the     *)
(* ownership errors of the service loop are impossible.                    *)
NoSlotLost ==
  running /\ pc \in {"idle", "check"} =>
    /\ \A b \in Bank : bankSlot[b] \in Slot
    /\ \A s \in Slot : owner[s] = IF \E b \in Bank : bankSlot[b] = s
                                  THEN "hardware" ELSE "free"

(* The payload handed to consume() is the next packet of this generation   *)
(* in the order of the bus, complete, and neither overwritten by a later   *)
(* packet nor left over from before the last open.                         *)
InOrder == pc = "consume" => buf[old] = <<opens, last + 1>>

(* A slot in the hands of the CPU is not written by the controller.        *)
NoOverwriteWhileReading ==
  [][pc = "consume" => buf'[old] = buf[old]]_vars

(* No completion is forgotten: unless the endpoint is stopped, every       *)
(* packet the controller completed is handed on, even if it completed      *)
(* during a service that had already used up its two packets.              *)
EveryPacketServed ==
  \A n \in 1..MaxPackets : (running /\ host >= n) ~> (~running \/ last >= n)
=============================================================================
