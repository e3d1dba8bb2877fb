---------------------------- MODULE IsoBanksProof ----------------------------
(***************************************************************************)
(* Proofs about the isochronous banks for any number of packets and opens, *)
(* for the receive and for the feedback endpoint.                          *)
(***************************************************************************)
EXTENDS IsoBanks, TLAPS

(***************************************************************************)
(* The inductive invariant.  Pending counts the packets the controller has *)
(* completed and the service has not handed on: it determines which banks  *)
(* are armed, where the controller is and what the slots hold.             *)
(***************************************************************************)
Pending == host - last

\* The payload of slot s is the n-th packet the service will hand on next.
Holds(s, n) == buf[s] = <<opens, last + n>>

Idle ==
  pc \in {"idle", "check"} =>
    /\ Pending \in 0..2
    /\ \A b \in Bank : bankSlot[b] \in Slot
    /\ desc[expected].active <=> Pending = 0
    /\ desc[1 - expected].active <=> Pending <= 1
    /\ inuse = IF Pending = 1 THEN 1 - expected ELSE expected
    /\ Pending >= 1 => Holds(bankSlot[expected], 1)
    /\ Pending = 2 => Holds(bankSlot[1 - expected], 2)
    /\ \A s \in Slot : owner[s] # "cpu"

Arming ==
  pc = "arm" =>
    /\ Pending \in 1..2
    /\ bankSlot[expected] = NoSlot
    /\ bankSlot[1 - expected] \in Slot
    /\ ~desc[expected].active
    /\ desc[1 - expected].active <=> Pending = 1
    /\ inuse = IF Pending = 1 THEN 1 - expected ELSE expected
    /\ Holds(old, 1)
    /\ Pending = 2 => Holds(bankSlot[1 - expected], 2)
    /\ Kind = "feedback" => fresh = old
    /\ Kind = "rx" => fresh # old
    /\ \A s \in Slot : owner[s] = "cpu" => s = old

Consuming ==
  pc = "consume" =>
    /\ Kind = "rx"
    /\ Pending \in 1..3
    /\ \A b \in Bank : bankSlot[b] \in Slot
    /\ desc[1 - expected].active <=> Pending = 1
    /\ desc[expected].active <=> Pending <= 2
    /\ inuse = IF Pending = 2 THEN expected ELSE 1 - expected
    /\ Holds(old, 1)
    /\ Pending >= 2 => Holds(bankSlot[1 - expected], 2)
    /\ Pending = 3 => Holds(bankSlot[expected], 3)
    /\ \A s \in Slot : owner[s] = "cpu" => s = old

Opening ==
  /\ pc = "open1" =>
       /\ Pending = 0 /\ last = 0 /\ inuse = expected
       /\ \A b \in Bank : ~desc[b].active /\ bankSlot[b] = NoSlot
       /\ \A s \in Slot : owner[s] = "free"
  /\ pc = "open2" =>
       /\ Pending \in 0..1 /\ last = 0
       /\ bankSlot[expected] = 0 /\ bankSlot[1 - expected] = NoSlot
       /\ desc[expected].active <=> Pending = 0
       /\ ~desc[1 - expected].active
       /\ inuse = IF Pending = 1 THEN 1 - expected ELSE expected
       /\ Pending = 1 => Holds(0, 1)
       /\ \A s \in Slot : owner[s] # "cpu"

\* Bank slots, armed or not, are the controller's and never shared.
Marked ==
  /\ \A b \in Bank : bankSlot[b] \in Slot => owner[bankSlot[b]] = "hardware"
  /\ \A s \in Slot : owner[s] = "hardware" => \E b \in Bank : bankSlot[b] = s
  /\ \A b \in Bank : desc[b].active => claimed /\ bankSlot[b] = desc[b].slot
  /\ bankSlot[0] = bankSlot[1] => bankSlot[0] = NoSlot
  /\ pc = "arm" => owner[old] = "cpu" /\ owner[fresh] # "hardware"
  /\ pc = "consume" => owner[old] = "cpu"

Control ==
  /\ pc \notin {"idle", "cancel"} => running
  /\ running => claimed /\ pc # "cancel"
  /\ pc = "cancel" => claimed
  /\ pc \in {"check", "arm", "consume"} => completed < 2

IsoInv == /\ TypeOK /\ Marked /\ Control
          /\ running => Idle /\ Arming /\ Consuming /\ Opening

LEMMA SlotFacts ==
  /\ 0 \in Slot /\ 1 \in Slot /\ Slot \subseteq 0..2
  /\ NoSlot \notin Slot
  /\ Slot = 0..2 \/ Slot = 0..1
BY KindAssumption DEF Slot, NoSlot

LEMMA TokenDescriptor ==
  ASSUME desc \in [Bank -> Descriptor], NEW b \in Bank, NEW c \in BOOLEAN
  PROVE  [desc EXCEPT ![b].active = FALSE, ![b].bad = c] \in [Bank -> Descriptor]
<1>1. desc[b] \in Descriptor
  OBVIOUS
<1>2. [desc[b] EXCEPT !.active = FALSE] \in Descriptor
  BY <1>1 DEF Descriptor
<1>3. [desc[b] EXCEPT !.active = FALSE, !.bad = c] \in Descriptor
  BY <1>1 DEF Descriptor
<1> QED
  BY <1>2, <1>3

LEMMA ParkDescriptor ==
  ASSUME desc \in [Bank -> Descriptor], NEW b \in Bank
  PROVE  [desc EXCEPT ![b].active = FALSE] \in [Bank -> Descriptor]
<1>1. desc[b] \in Descriptor
  OBVIOUS
<1>2. [desc[b] EXCEPT !.active = FALSE] \in Descriptor
  BY <1>1 DEF Descriptor
<1> QED
  BY <1>2

LEMMA ArmType ==
  ASSUME TypeOK, NEW b \in Bank, NEW s \in Slot, Arm(b, s)
  PROVE  /\ desc' \in [Bank -> Descriptor]
         /\ bankSlot' \in [Bank -> Slot \cup {NoSlot}]
         /\ owner' \in [Slot -> {"free", "hardware", "cpu"}]
         /\ UNCHANGED <<inuse, buf, host, irq, running>>
<1>1. [active |-> TRUE, slot |-> s, bad |-> FALSE] \in Descriptor
  BY DEF Descriptor
<1>2. desc' \in [Bank -> Descriptor]
  BY <1>1 DEF Arm, TypeOK
<1>3. bankSlot' \in [Bank -> Slot \cup {NoSlot}]
  BY DEF Arm, TypeOK
<1>4. owner' \in [Slot -> {"free", "hardware", "cpu"}]
  BY DEF Arm, TypeOK
<1> QED
  BY <1>2, <1>3, <1>4 DEF Arm

LEMMA TokenStep ==
  ASSUME IsoInv, NEW bad \in BOOLEAN, Token(bad)
  PROVE  IsoInv'
<1>1. TypeOK'
  <2>1. desc' \in [Bank -> Descriptor]
    BY TokenDescriptor DEF IsoInv, TypeOK, Token
  <2>2. buf' \in [Slot -> Packet]
    BY BoundsAssumption DEF IsoInv, TypeOK, Token, Packet, Descriptor
  <2> QED
    BY <2>1, <2>2, BoundsAssumption
       DEF IsoInv, TypeOK, Token, Bank, swVars, cpuVars
<1> USE KindAssumption, BoundsAssumption DEF Bank, Slot, NoSlot, Free
<1>2. Marked'
  BY DEF IsoInv, TypeOK, Marked, Control, Packet, Token, hwVars, swVars, cpuVars
<1>3. Control'
  BY DEF IsoInv, TypeOK, Marked, Control, Packet, Token, hwVars, swVars, cpuVars
<1>4. running' => Idle'
  BY DEF IsoInv, TypeOK, Marked, Control, Packet, Descriptor, Idle, Arming, Consuming, Opening, Pending, Holds, Token, hwVars, swVars, cpuVars
<1>5. running' => Arming'
  BY DEF IsoInv, TypeOK, Marked, Control, Packet, Descriptor, Idle, Arming, Consuming, Opening, Pending, Holds, Token, hwVars, swVars, cpuVars
<1>6. running' => Consuming'
  BY DEF IsoInv, TypeOK, Marked, Control, Packet, Descriptor, Idle, Arming, Consuming, Opening, Pending, Holds, Token, hwVars, swVars, cpuVars
<1>7. running' => Opening'
  BY DEF IsoInv, TypeOK, Marked, Control, Packet, Descriptor, Idle, Arming, Consuming, Opening, Pending, Holds, Token, hwVars, swVars, cpuVars
<1> QED
  BY <1>1, <1>2, <1>3, <1>4, <1>5, <1>6, <1>7 DEF IsoInv

LEMMA OpenStep ==
  ASSUME IsoInv, Open
  PROVE  IsoInv'
<1>1. TypeOK'
  <2>1. bankSlot' \in [Bank -> Slot \cup {NoSlot}]
    BY DEF Open
  <2>2. owner' \in [Slot -> {"free", "hardware", "cpu"}]
    BY DEF Open, Free
  <2>3. opens' \in 0..MaxOpens /\ host' \in 0..MaxPackets /\ last' \in Nat
    BY BoundsAssumption DEF Open, IsoInv, TypeOK
  <2> QED
    BY <2>1, <2>2, <2>3 DEF IsoInv, TypeOK, Open
<1> USE KindAssumption, BoundsAssumption DEF Bank, Slot, NoSlot, Free
<1>2. Marked'
  BY DEF IsoInv, TypeOK, Marked, Control, Packet, Open, hwVars, swVars, cpuVars
<1>3. Control'
  BY DEF IsoInv, TypeOK, Marked, Control, Packet, Open, hwVars, swVars, cpuVars
<1>4. running' => Idle'
  BY DEF IsoInv, TypeOK, Marked, Control, Packet, Descriptor, Idle, Arming, Consuming, Opening, Pending, Holds, Open, hwVars, swVars, cpuVars
<1>5. running' => Arming'
  BY DEF IsoInv, TypeOK, Marked, Control, Packet, Descriptor, Idle, Arming, Consuming, Opening, Pending, Holds, Open, hwVars, swVars, cpuVars
<1>6. running' => Consuming'
  BY DEF IsoInv, TypeOK, Marked, Control, Packet, Descriptor, Idle, Arming, Consuming, Opening, Pending, Holds, Open, hwVars, swVars, cpuVars
<1>7. running' => Opening'
  BY DEF IsoInv, TypeOK, Marked, Control, Packet, Descriptor, Idle, Arming, Consuming, Opening, Pending, Holds, Open, hwVars, swVars, cpuVars
<1> QED
  BY <1>1, <1>2, <1>3, <1>4, <1>5, <1>6, <1>7 DEF IsoInv

LEMMA OpenFirstStep ==
  ASSUME IsoInv, OpenFirst
  PROVE  IsoInv'
<1>1. CASE Arm(expected, 0) /\ pc' = "open2"
  <2>1. expected \in Bank /\ 0 \in Slot
    BY SlotFacts DEF IsoInv, TypeOK, Bank
  <2>2. TypeOK'
    BY <1>1, <2>1, ArmType DEF IsoInv, TypeOK, OpenFirst
  <2>3. Marked'
    BY <1>1, <2>2, KindAssumption DEF IsoInv, TypeOK, Marked, Control, Packet, Descriptor, Idle, Arming, Consuming, Opening, Pending, Holds, Bank, Slot, NoSlot, OpenFirst, Arm
  <2>4. Control'
    BY <1>1 DEF IsoInv, Control, OpenFirst, Arm
  <2>5. running' => Idle' /\ Arming' /\ Consuming' /\ Opening'
    <3>1. running' => Idle'
      BY <1>1, <2>2, KindAssumption DEF IsoInv, TypeOK, Marked, Control, Packet, Descriptor, Idle, Arming, Consuming, Opening, Pending, Holds, Bank, Slot, NoSlot, OpenFirst, Arm
    <3>2. running' => Arming'
      BY <1>1, <2>2, KindAssumption DEF IsoInv, TypeOK, Marked, Control, Packet, Descriptor, Idle, Arming, Consuming, Opening, Pending, Holds, Bank, Slot, NoSlot, OpenFirst, Arm
    <3>3. running' => Consuming'
      BY <1>1, <2>2, KindAssumption DEF IsoInv, TypeOK, Marked, Control, Packet, Descriptor, Idle, Arming, Consuming, Opening, Pending, Holds, Bank, Slot, NoSlot, OpenFirst, Arm
    <3>4. running' => Opening'
      BY <1>1, <2>2, KindAssumption DEF IsoInv, TypeOK, Marked, Control, Packet, Descriptor, Idle, Arming, Consuming, Opening, Pending, Holds, Bank, Slot, NoSlot, OpenFirst, Arm
    <3> QED
      BY <3>1, <3>2, <3>3, <3>4
  <2> QED
    BY <2>2, <2>3, <2>4, <2>5 DEF IsoInv
<1>2. CASE ArmFails(0) /\ pc' = "idle"
  <2>1. TypeOK'
    BY <1>2, SlotFacts DEF IsoInv, TypeOK, OpenFirst, ArmFails, hwVars
  <2>2. Marked'
    BY <1>2, KindAssumption DEF IsoInv, TypeOK, Marked, Control, Packet, Descriptor, Idle, Arming, Consuming, Opening, Pending, Holds, Bank, Slot, NoSlot, OpenFirst, ArmFails, hwVars
  <2>3. Control' /\ ~running'
    BY <1>2, <2>1 DEF IsoInv, TypeOK, Control, OpenFirst, ArmFails
  <2> QED
    BY <2>1, <2>2, <2>3 DEF IsoInv
<1> QED
  BY <1>1, <1>2 DEF OpenFirst

LEMMA OpenSecondStep ==
  ASSUME IsoInv, OpenSecond
  PROVE  IsoInv'
<1>1. CASE Arm(1 - expected, 1)
  <2>1. 1 - expected \in Bank /\ 1 \in Slot
    BY SlotFacts DEF IsoInv, TypeOK, Bank
  <2>2. TypeOK'
    BY <1>1, <2>1, ArmType DEF IsoInv, TypeOK, OpenSecond
  <2>3. Marked'
    BY <1>1, <2>2, KindAssumption DEF IsoInv, TypeOK, Marked, Control, Packet, Descriptor, Idle, Arming, Consuming, Opening, Pending, Holds, Bank, Slot, NoSlot, OpenSecond, Arm
  <2>4. Control'
    BY <1>1 DEF IsoInv, Control, OpenSecond, Arm
  <2>5. running' => Idle' /\ Arming' /\ Consuming' /\ Opening'
    <3>1. running' => Idle'
      BY <1>1, <2>2, KindAssumption DEF IsoInv, TypeOK, Marked, Control, Packet, Descriptor, Idle, Arming, Consuming, Opening, Pending, Holds, Bank, Slot, NoSlot, OpenSecond, Arm
    <3>2. running' => Arming'
      BY <1>1, <2>2, KindAssumption DEF IsoInv, TypeOK, Marked, Control, Packet, Descriptor, Idle, Arming, Consuming, Opening, Pending, Holds, Bank, Slot, NoSlot, OpenSecond, Arm
    <3>3. running' => Consuming'
      BY <1>1, <2>2, KindAssumption DEF IsoInv, TypeOK, Marked, Control, Packet, Descriptor, Idle, Arming, Consuming, Opening, Pending, Holds, Bank, Slot, NoSlot, OpenSecond, Arm
    <3>4. running' => Opening'
      BY <1>1, <2>2, KindAssumption DEF IsoInv, TypeOK, Marked, Control, Packet, Descriptor, Idle, Arming, Consuming, Opening, Pending, Holds, Bank, Slot, NoSlot, OpenSecond, Arm
    <3> QED
      BY <3>1, <3>2, <3>3, <3>4
  <2> QED
    BY <2>2, <2>3, <2>4, <2>5 DEF IsoInv
<1>2. CASE ArmFails(1)
  <2>1. TypeOK'
    BY <1>2, SlotFacts DEF IsoInv, TypeOK, OpenSecond, ArmFails, hwVars
  <2>2. Marked'
    BY <1>2, KindAssumption DEF IsoInv, TypeOK, Marked, Control, Packet, Descriptor, Idle, Arming, Consuming, Opening, Pending, Holds, Bank, Slot, NoSlot, OpenSecond, ArmFails, hwVars
  <2>3. Control' /\ ~running'
    BY <1>2, <2>1 DEF IsoInv, TypeOK, Control, OpenSecond, ArmFails
  <2> QED
    BY <2>1, <2>2, <2>3 DEF IsoInv
<1> QED
  BY <1>1, <1>2 DEF OpenSecond

LEMMA ServiceStartStep ==
  ASSUME IsoInv, ServiceStart
  PROVE  IsoInv'
<1>1. TypeOK'
  BY SlotFacts, KindAssumption, BoundsAssumption DEF IsoInv, TypeOK, Marked, Control, Packet, ServiceStart, hwVars, swVars, cpuVars, Bank, Free
<1> USE KindAssumption, BoundsAssumption DEF Bank, Slot, NoSlot, Free
<1>2. Marked'
  BY DEF IsoInv, TypeOK, Marked, Control, Packet, ServiceStart, hwVars, swVars, cpuVars
<1>3. Control'
  BY DEF IsoInv, TypeOK, Marked, Control, Packet, ServiceStart, hwVars, swVars, cpuVars
<1>4. running' => Idle'
  BY DEF IsoInv, TypeOK, Marked, Control, Packet, Descriptor, Idle, Arming, Consuming, Opening, Pending, Holds, ServiceStart, hwVars, swVars, cpuVars
<1>5. running' => Arming'
  BY DEF IsoInv, TypeOK, Marked, Control, Packet, Descriptor, Idle, Arming, Consuming, Opening, Pending, Holds, ServiceStart, hwVars, swVars, cpuVars
<1>6. running' => Consuming'
  BY DEF IsoInv, TypeOK, Marked, Control, Packet, Descriptor, Idle, Arming, Consuming, Opening, Pending, Holds, ServiceStart, hwVars, swVars, cpuVars
<1>7. running' => Opening'
  BY DEF IsoInv, TypeOK, Marked, Control, Packet, Descriptor, Idle, Arming, Consuming, Opening, Pending, Holds, ServiceStart, hwVars, swVars, cpuVars
<1> QED
  BY <1>1, <1>2, <1>3, <1>4, <1>5, <1>6, <1>7 DEF IsoInv

LEMMA ServiceIgnoreStep ==
  ASSUME IsoInv, ServiceIgnore
  PROVE  IsoInv'
<1>1. TypeOK'
  BY SlotFacts, KindAssumption, BoundsAssumption DEF IsoInv, TypeOK, Marked, Control, Packet, ServiceIgnore, hwVars, swVars, cpuVars, Bank, Free
<1> USE KindAssumption, BoundsAssumption DEF Bank, Slot, NoSlot, Free
<1>2. Marked'
  BY DEF IsoInv, TypeOK, Marked, Control, Packet, ServiceIgnore, hwVars, swVars, cpuVars
<1>3. Control'
  BY DEF IsoInv, TypeOK, Marked, Control, Packet, ServiceIgnore, hwVars, swVars, cpuVars
<1>4. running' => Idle'
  BY DEF IsoInv, TypeOK, Marked, Control, Packet, Descriptor, Idle, Arming, Consuming, Opening, Pending, Holds, ServiceIgnore, hwVars, swVars, cpuVars
<1>5. running' => Arming'
  BY DEF IsoInv, TypeOK, Marked, Control, Packet, Descriptor, Idle, Arming, Consuming, Opening, Pending, Holds, ServiceIgnore, hwVars, swVars, cpuVars
<1>6. running' => Consuming'
  BY DEF IsoInv, TypeOK, Marked, Control, Packet, Descriptor, Idle, Arming, Consuming, Opening, Pending, Holds, ServiceIgnore, hwVars, swVars, cpuVars
<1>7. running' => Opening'
  BY DEF IsoInv, TypeOK, Marked, Control, Packet, Descriptor, Idle, Arming, Consuming, Opening, Pending, Holds, ServiceIgnore, hwVars, swVars, cpuVars
<1> QED
  BY <1>1, <1>2, <1>3, <1>4, <1>5, <1>6, <1>7 DEF IsoInv

LEMMA ServiceReadStep ==
  ASSUME IsoInv, ServiceRead
  PROVE  IsoInv'
<1>1. CASE TakeBank /\ Owned /\ ~desc[expected].active
  <2>1. bankSlot[expected] \in Slot /\ expected \in Bank
    BY <1>1 DEF IsoInv, TypeOK, Owned
  <2>2. /\ pc = "check" /\ UNCHANGED <<hwVars, claimed, expected, opens, last, completed>>
        /\ old' = bankSlot[expected]
        /\ bankSlot' = [bankSlot EXCEPT ![expected] = NoSlot]
        /\ owner' = [owner EXCEPT ![bankSlot[expected]] = "cpu"]
    BY <1>1 DEF ServiceRead, TakeBank
  <2>3. /\ fresh' \in Slot
        /\ \/ pc' = "arm" /\ running' = running
           \/ pc' = "idle" /\ running' = FALSE
        /\ pc' = "arm" => IF Kind = "feedback" THEN fresh' = old'
                                               ELSE owner[fresh'] = "free"
    <3>1. ASSUME FreeSlots # {}
          PROVE  Lowest(FreeSlots) \in FreeSlots
      BY <3>1, SlotFacts DEF FreeSlots, Lowest
    <3> QED
      BY <1>1, <2>1, <2>2, <3>1 DEF IsoInv, TypeOK, TakeBank, FreeSlots
  <2>4. TypeOK'
    BY <2>1, <2>2, <2>3 DEF IsoInv, TypeOK, hwVars
  <2>5. /\ owner[bankSlot[expected]] = "hardware"
        /\ running = TRUE /\ claimed = TRUE /\ completed < 2
    BY <1>1, <2>2 DEF Owned, IsoInv, TypeOK, Control
  <2>6. Marked'
    <3>1. \A b \in Bank : bankSlot'[b] \in Slot =>
            b # expected /\ bankSlot'[b] = bankSlot[b] /\ bankSlot[b] # bankSlot[expected]
      BY <2>1, <2>2, SlotFacts DEF IsoInv, TypeOK, Marked, Bank
    <3>2. /\ \A b \in Bank : bankSlot'[b] \in Slot => owner'[bankSlot'[b]] = "hardware"
          /\ bankSlot'[0] = bankSlot'[1] => bankSlot'[0] = NoSlot
      BY <2>1, <2>2, <2>4, <3>1, SlotFacts DEF IsoInv, TypeOK, Marked, Bank
    <3>3. ASSUME NEW s \in Slot, owner'[s] = "hardware"
          PROVE  \E b \in Bank : bankSlot'[b] = s
      <4>1. owner[s] = "hardware" /\ s # bankSlot[expected]
        BY <2>1, <2>2, <3>3 DEF IsoInv, TypeOK
      <4>2. PICK b \in Bank : bankSlot[b] = s
        BY <4>1 DEF IsoInv, Marked
      <4> QED
        BY <2>1, <2>2, <4>1, <4>2 DEF IsoInv, TypeOK
    <3>4. \A b \in Bank : desc'[b].active => claimed' /\ bankSlot'[b] = desc'[b].slot
      BY <1>1, <2>1, <2>2, <2>5 DEF IsoInv, TypeOK, Marked, hwVars
    <3>5. pc' = "arm" => owner'[old'] = "cpu" /\ owner'[fresh'] # "hardware"
      BY <2>1, <2>2, <2>3, <2>5 DEF IsoInv, TypeOK
    <3>6. pc' # "consume"
      BY <2>3
    <3> QED
      BY <3>2, <3>3, <3>4, <3>5, <3>6 DEF Marked
  <2>7. Control'
    <3>1. CASE pc' = "arm" /\ running' = running
      BY <2>2, <2>5, <3>1 DEF Control
    <3>2. CASE pc' = "idle" /\ running' = FALSE
      BY <3>2 DEF Control
    <3> QED
      BY <2>3, <3>1, <3>2
  <2>8. running' => Idle' /\ Arming' /\ Consuming' /\ Opening'
    <3>1. ASSUME running'
          PROVE  Arming'
      BY <1>1, <2>1, <2>2, <2>3, <2>4, <2>5, <3>1, KindAssumption
         DEF IsoInv, TypeOK, Marked, Control, Packet, Descriptor, Idle, Arming,
          Consuming, Opening, Pending, Holds, Bank, Slot, NoSlot, hwVars
    <3>2. running' => Idle' /\ Consuming' /\ Opening'
      BY <2>3 DEF Idle, Consuming, Opening
    <3> QED
      BY <3>1, <3>2
  <2> QED
    BY <2>4, <2>6, <2>7, <2>8 DEF IsoInv
<1>2. CASE LeaveBank
  <2>1. TypeOK'
    BY <1>2 DEF IsoInv, TypeOK, ServiceRead, LeaveBank, Owned, Descriptor, hwVars
  <2>2. Marked' /\ Control'
    BY <1>2, <2>1, KindAssumption DEF IsoInv, TypeOK, Marked, Control, Packet, Descriptor, Idle, Arming, Consuming, Opening, Pending, Holds, Bank, Slot, NoSlot, ServiceRead, LeaveBank, hwVars
  <2>3. running' => Idle' /\ Arming' /\ Consuming' /\ Opening'
    <3>1. running' => Idle'
      BY <1>2, <2>1, KindAssumption DEF IsoInv, TypeOK, Marked, Control, Packet, Descriptor, Idle, Arming, Consuming, Opening, Pending, Holds, Bank, Slot, NoSlot, ServiceRead, LeaveBank, hwVars
    <3>2. running' => Arming'
      BY <1>2, <2>1, KindAssumption DEF IsoInv, TypeOK, Marked, Control, Packet, Descriptor, Idle, Arming, Consuming, Opening, Pending, Holds, Bank, Slot, NoSlot, ServiceRead, LeaveBank, hwVars
    <3>3. running' => Consuming'
      BY <1>2, <2>1, KindAssumption DEF IsoInv, TypeOK, Marked, Control, Packet, Descriptor, Idle, Arming, Consuming, Opening, Pending, Holds, Bank, Slot, NoSlot, ServiceRead, LeaveBank, hwVars
    <3>4. running' => Opening'
      BY <1>2, <2>1, KindAssumption DEF IsoInv, TypeOK, Marked, Control, Packet, Descriptor, Idle, Arming, Consuming, Opening, Pending, Holds, Bank, Slot, NoSlot, ServiceRead, LeaveBank, hwVars
    <3> QED
      BY <3>1, <3>2, <3>3, <3>4
  <2> QED
    BY <2>1, <2>2, <2>3 DEF IsoInv
<1> QED
  BY <1>1, <1>2 DEF ServiceRead

LEMMA ServiceArmStep ==
  ASSUME IsoInv, ServiceArm
  PROVE  IsoInv'
<1>0. expected \in Bank /\ fresh \in Slot
  BY DEF IsoInv, TypeOK
<1>1. CASE /\ Arm(expected, fresh) /\ Kind = "rx" /\ pc' = "consume"
           /\ UNCHANGED <<last, expected, completed>>
  <2>1. TypeOK'
    BY <1>0, <1>1, ArmType DEF IsoInv, TypeOK, ServiceArm, NextBank, Control, Bank
  <2>2. Marked' /\ Control'
    BY <1>1, <2>1, KindAssumption DEF IsoInv, TypeOK, Marked, Control, Packet, Descriptor, Idle, Arming, Consuming, Opening, Pending, Holds, Bank, Slot, NoSlot, ServiceArm, Arm, NextBank
  <2>3. running' => Idle' /\ Arming' /\ Consuming' /\ Opening'
    <3>1. running' => Idle'
      BY <1>1, <2>1, KindAssumption DEF IsoInv, TypeOK, Marked, Control, Packet, Descriptor, Idle, Arming, Consuming, Opening, Pending, Holds, Bank, Slot, NoSlot, ServiceArm, Arm, NextBank
    <3>2. running' => Arming'
      BY <1>1, <2>1, KindAssumption DEF IsoInv, TypeOK, Marked, Control, Packet, Descriptor, Idle, Arming, Consuming, Opening, Pending, Holds, Bank, Slot, NoSlot, ServiceArm, Arm, NextBank
    <3>3. running' => Consuming'
      BY <1>1, <2>1, KindAssumption DEF IsoInv, TypeOK, Marked, Control, Packet, Descriptor, Idle, Arming, Consuming, Opening, Pending, Holds, Bank, Slot, NoSlot, ServiceArm, Arm, NextBank
    <3>4. running' => Opening'
      BY <1>1, <2>1, KindAssumption DEF IsoInv, TypeOK, Marked, Control, Packet, Descriptor, Idle, Arming, Consuming, Opening, Pending, Holds, Bank, Slot, NoSlot, ServiceArm, Arm, NextBank
    <3> QED
      BY <3>1, <3>2, <3>3, <3>4
  <2> QED
    BY <2>1, <2>2, <2>3 DEF IsoInv
<1>2. CASE Arm(expected, fresh) /\ Kind = "feedback" /\ NextBank
  <2>1. TypeOK'
    <3>1. /\ last' \in Nat /\ expected' \in Bank
          /\ completed' \in 0..2 /\ pc' \in {"check", "idle"}
      BY <1>2 DEF IsoInv, TypeOK, ServiceArm, NextBank, Control, Bank
    <3> QED
      BY <1>0, <1>2, <3>1, ArmType DEF IsoInv, TypeOK, ServiceArm
  <2>2. Marked' /\ Control'
    BY <1>2, <2>1, KindAssumption DEF IsoInv, TypeOK, Marked, Control, Packet, Descriptor, Idle, Arming, Consuming, Opening, Pending, Holds, Bank, Slot, NoSlot, ServiceArm, Arm, NextBank
  <2>3. running' => Idle' /\ Arming' /\ Consuming' /\ Opening'
    <3>1. running' => Idle'
      BY <1>2, <2>1, KindAssumption DEF IsoInv, TypeOK, Marked, Control, Packet, Descriptor, Idle, Arming, Consuming, Opening, Pending, Holds, Bank, Slot, NoSlot, ServiceArm, Arm, NextBank
    <3>2. running' => Arming'
      BY <1>2, <2>1, KindAssumption DEF IsoInv, TypeOK, Marked, Control, Packet, Descriptor, Idle, Arming, Consuming, Opening, Pending, Holds, Bank, Slot, NoSlot, ServiceArm, Arm, NextBank
    <3>3. running' => Consuming'
      BY <1>2, <2>1, KindAssumption DEF IsoInv, TypeOK, Marked, Control, Packet, Descriptor, Idle, Arming, Consuming, Opening, Pending, Holds, Bank, Slot, NoSlot, ServiceArm, Arm, NextBank
    <3>4. running' => Opening'
      BY <1>2, <2>1, KindAssumption DEF IsoInv, TypeOK, Marked, Control, Packet, Descriptor, Idle, Arming, Consuming, Opening, Pending, Holds, Bank, Slot, NoSlot, ServiceArm, Arm, NextBank
    <3> QED
      BY <3>1, <3>2, <3>3, <3>4
  <2> QED
    BY <2>1, <2>2, <2>3 DEF IsoInv
<1>3. CASE /\ ArmFails(fresh) /\ pc' = "idle"
           /\ UNCHANGED <<last, expected, completed>>
  <2>1. TypeOK'
    BY <1>0, <1>3 DEF IsoInv, TypeOK, ServiceArm, ArmFails, hwVars
  <2>2. Marked'
    BY <1>3, KindAssumption DEF IsoInv, TypeOK, Marked, Control, Packet, Descriptor, Idle, Arming, Consuming, Opening, Pending, Holds, Bank, Slot, NoSlot, ServiceArm, ArmFails, hwVars
  <2>3. Control' /\ ~running'
    BY <1>3, <2>1 DEF IsoInv, TypeOK, Control, ServiceArm, ArmFails
  <2> QED
    BY <2>1, <2>2, <2>3 DEF IsoInv
<1> QED
  BY <1>1, <1>2, <1>3, KindAssumption DEF ServiceArm

LEMMA ServiceConsumeStep ==
  ASSUME IsoInv, ServiceConsume
  PROVE  IsoInv'
<1>1. TypeOK'
  BY SlotFacts, KindAssumption, BoundsAssumption DEF IsoInv, TypeOK, Marked, Control, Packet, ServiceConsume, NextBank, hwVars, swVars, cpuVars, Bank, Free
<1> USE KindAssumption, BoundsAssumption DEF Bank, Slot, NoSlot, Free
<1>2. Marked'
  BY DEF IsoInv, TypeOK, Marked, Control, Packet, ServiceConsume, NextBank, hwVars, swVars, cpuVars
<1>3. Control'
  BY DEF IsoInv, TypeOK, Marked, Control, Packet, ServiceConsume, NextBank, hwVars, swVars, cpuVars
<1>4. running' => Idle'
  BY DEF IsoInv, TypeOK, Marked, Control, Packet, Descriptor, Idle, Arming, Consuming, Opening, Pending, Holds, ServiceConsume, NextBank, hwVars, swVars, cpuVars
<1>5. running' => Arming'
  BY DEF IsoInv, TypeOK, Marked, Control, Packet, Descriptor, Idle, Arming, Consuming, Opening, Pending, Holds, ServiceConsume, NextBank, hwVars, swVars, cpuVars
<1>6. running' => Consuming'
  BY DEF IsoInv, TypeOK, Marked, Control, Packet, Descriptor, Idle, Arming, Consuming, Opening, Pending, Holds, ServiceConsume, NextBank, hwVars, swVars, cpuVars
<1>7. running' => Opening'
  BY DEF IsoInv, TypeOK, Marked, Control, Packet, Descriptor, Idle, Arming, Consuming, Opening, Pending, Holds, ServiceConsume, NextBank, hwVars, swVars, cpuVars
<1> QED
  BY <1>1, <1>2, <1>3, <1>4, <1>5, <1>6, <1>7 DEF IsoInv

LEMMA CancelStep ==
  ASSUME IsoInv, Cancel
  PROVE  IsoInv'
<1>1. TypeOK'
  BY SlotFacts, KindAssumption, BoundsAssumption DEF IsoInv, TypeOK, Marked, Control, Packet, Cancel, hwVars, swVars, cpuVars, Bank, Free
<1> USE KindAssumption, BoundsAssumption DEF Bank, Slot, NoSlot, Free
<1>2. Marked'
  BY DEF IsoInv, TypeOK, Marked, Control, Packet, Cancel, hwVars, swVars, cpuVars
<1>3. Control'
  BY DEF IsoInv, TypeOK, Marked, Control, Packet, Cancel, hwVars, swVars, cpuVars
<1>4. running' => Idle'
  BY DEF IsoInv, TypeOK, Marked, Control, Packet, Descriptor, Idle, Arming, Consuming, Opening, Pending, Holds, Cancel, hwVars, swVars, cpuVars
<1>5. running' => Arming'
  BY DEF IsoInv, TypeOK, Marked, Control, Packet, Descriptor, Idle, Arming, Consuming, Opening, Pending, Holds, Cancel, hwVars, swVars, cpuVars
<1>6. running' => Consuming'
  BY DEF IsoInv, TypeOK, Marked, Control, Packet, Descriptor, Idle, Arming, Consuming, Opening, Pending, Holds, Cancel, hwVars, swVars, cpuVars
<1>7. running' => Opening'
  BY DEF IsoInv, TypeOK, Marked, Control, Packet, Descriptor, Idle, Arming, Consuming, Opening, Pending, Holds, Cancel, hwVars, swVars, cpuVars
<1> QED
  BY <1>1, <1>2, <1>3, <1>4, <1>5, <1>6, <1>7 DEF IsoInv

LEMMA CancelParkStep ==
  ASSUME IsoInv, CancelPark
  PROVE  IsoInv'
<1>1. TypeOK'
  <2>1. desc' \in [Bank -> Descriptor]
    BY ParkDescriptor DEF IsoInv, TypeOK, CancelPark
  <2> QED
    BY <2>1 DEF IsoInv, TypeOK, CancelPark, swVars, cpuVars
<1> USE KindAssumption, BoundsAssumption DEF Bank, Slot, NoSlot, Free
<1>2. Marked'
  BY DEF IsoInv, TypeOK, Marked, Control, Packet, CancelPark, hwVars, swVars, cpuVars
<1>3. Control'
  BY DEF IsoInv, TypeOK, Marked, Control, Packet, CancelPark, hwVars, swVars, cpuVars
<1>4. running' => Idle'
  BY DEF IsoInv, TypeOK, Marked, Control, Packet, Descriptor, Idle, Arming, Consuming, Opening, Pending, Holds, CancelPark, hwVars, swVars, cpuVars
<1>5. running' => Arming'
  BY DEF IsoInv, TypeOK, Marked, Control, Packet, Descriptor, Idle, Arming, Consuming, Opening, Pending, Holds, CancelPark, hwVars, swVars, cpuVars
<1>6. running' => Consuming'
  BY DEF IsoInv, TypeOK, Marked, Control, Packet, Descriptor, Idle, Arming, Consuming, Opening, Pending, Holds, CancelPark, hwVars, swVars, cpuVars
<1>7. running' => Opening'
  BY DEF IsoInv, TypeOK, Marked, Control, Packet, Descriptor, Idle, Arming, Consuming, Opening, Pending, Holds, CancelPark, hwVars, swVars, cpuVars
<1> QED
  BY <1>1, <1>2, <1>3, <1>4, <1>5, <1>6, <1>7 DEF IsoInv

LEMMA CancelSelectStep ==
  ASSUME IsoInv, CancelSelect
  PROVE  IsoInv'
<1>1. TypeOK'
  BY SlotFacts, KindAssumption, BoundsAssumption DEF IsoInv, TypeOK, Marked, Control, Packet, CancelSelect, hwVars, swVars, cpuVars, Bank, Free
<1> USE KindAssumption, BoundsAssumption DEF Bank, Slot, NoSlot, Free
<1>2. Marked'
  BY DEF IsoInv, TypeOK, Marked, Control, Packet, CancelSelect, hwVars, swVars, cpuVars
<1>3. Control'
  BY DEF IsoInv, TypeOK, Marked, Control, Packet, CancelSelect, hwVars, swVars, cpuVars
<1>4. running' => Idle'
  BY DEF IsoInv, TypeOK, Marked, Control, Packet, Descriptor, Idle, Arming, Consuming, Opening, Pending, Holds, CancelSelect, hwVars, swVars, cpuVars
<1>5. running' => Arming'
  BY DEF IsoInv, TypeOK, Marked, Control, Packet, Descriptor, Idle, Arming, Consuming, Opening, Pending, Holds, CancelSelect, hwVars, swVars, cpuVars
<1>6. running' => Consuming'
  BY DEF IsoInv, TypeOK, Marked, Control, Packet, Descriptor, Idle, Arming, Consuming, Opening, Pending, Holds, CancelSelect, hwVars, swVars, cpuVars
<1>7. running' => Opening'
  BY DEF IsoInv, TypeOK, Marked, Control, Packet, Descriptor, Idle, Arming, Consuming, Opening, Pending, Holds, CancelSelect, hwVars, swVars, cpuVars
<1> QED
  BY <1>1, <1>2, <1>3, <1>4, <1>5, <1>6, <1>7 DEF IsoInv

LEMMA CancelReleaseStep ==
  ASSUME IsoInv, CancelRelease
  PROVE  IsoInv'
<1>1. TypeOK'
  BY SlotFacts, KindAssumption, BoundsAssumption DEF IsoInv, TypeOK, Marked, Control, Packet, CancelRelease, hwVars, swVars, cpuVars, Bank, Free
<1> USE KindAssumption, BoundsAssumption DEF Bank, Slot, NoSlot, Free
<1>2. Marked'
  BY DEF IsoInv, TypeOK, Marked, Control, Packet, CancelRelease, hwVars, swVars, cpuVars
<1>3. Control'
  BY DEF IsoInv, TypeOK, Marked, Control, Packet, CancelRelease, hwVars, swVars, cpuVars
<1>4. running' => Idle'
  BY DEF IsoInv, TypeOK, Marked, Control, Packet, Descriptor, Idle, Arming, Consuming, Opening, Pending, Holds, CancelRelease, hwVars, swVars, cpuVars
<1>5. running' => Arming'
  BY DEF IsoInv, TypeOK, Marked, Control, Packet, Descriptor, Idle, Arming, Consuming, Opening, Pending, Holds, CancelRelease, hwVars, swVars, cpuVars
<1>6. running' => Consuming'
  BY DEF IsoInv, TypeOK, Marked, Control, Packet, Descriptor, Idle, Arming, Consuming, Opening, Pending, Holds, CancelRelease, hwVars, swVars, cpuVars
<1>7. running' => Opening'
  BY DEF IsoInv, TypeOK, Marked, Control, Packet, Descriptor, Idle, Arming, Consuming, Opening, Pending, Holds, CancelRelease, hwVars, swVars, cpuVars
<1> QED
  BY <1>1, <1>2, <1>3, <1>4, <1>5, <1>6, <1>7 DEF IsoInv

LEMMA CancelGiveUpStep ==
  ASSUME IsoInv, CancelGiveUp
  PROVE  IsoInv'
<1>1. TypeOK'
  BY SlotFacts, KindAssumption, BoundsAssumption DEF IsoInv, TypeOK, Marked, Control, Packet, CancelGiveUp, hwVars, swVars, cpuVars, Bank, Free
<1> USE KindAssumption, BoundsAssumption DEF Bank, Slot, NoSlot, Free
<1>2. Marked'
  BY DEF IsoInv, TypeOK, Marked, Control, Packet, CancelGiveUp, hwVars, swVars, cpuVars
<1>3. Control'
  BY DEF IsoInv, TypeOK, Marked, Control, Packet, CancelGiveUp, hwVars, swVars, cpuVars
<1>4. running' => Idle'
  BY DEF IsoInv, TypeOK, Marked, Control, Packet, Descriptor, Idle, Arming, Consuming, Opening, Pending, Holds, CancelGiveUp, hwVars, swVars, cpuVars
<1>5. running' => Arming'
  BY DEF IsoInv, TypeOK, Marked, Control, Packet, Descriptor, Idle, Arming, Consuming, Opening, Pending, Holds, CancelGiveUp, hwVars, swVars, cpuVars
<1>6. running' => Consuming'
  BY DEF IsoInv, TypeOK, Marked, Control, Packet, Descriptor, Idle, Arming, Consuming, Opening, Pending, Holds, CancelGiveUp, hwVars, swVars, cpuVars
<1>7. running' => Opening'
  BY DEF IsoInv, TypeOK, Marked, Control, Packet, Descriptor, Idle, Arming, Consuming, Opening, Pending, Holds, CancelGiveUp, hwVars, swVars, cpuVars
<1> QED
  BY <1>1, <1>2, <1>3, <1>4, <1>5, <1>6, <1>7 DEF IsoInv

LEMMA IsoInit ==
  ASSUME Init
  PROVE  IsoInv
<1>1. TypeOK
  <2>1. desc \in [Bank -> Descriptor]
    BY SlotFacts DEF Init, Descriptor
  <2>2. buf \in [Slot -> Packet] /\ host \in 0..MaxPackets /\ opens \in 0..MaxOpens
    BY BoundsAssumption DEF Init, Packet
  <2>3. /\ bankSlot \in [Bank -> Slot \cup {NoSlot}]
        /\ owner \in [Slot -> {"free", "hardware", "cpu"}]
    BY DEF Init, Free
  <2>4. last \in Nat /\ completed \in 0..2 /\ old \in Slot /\ fresh \in Slot
    BY SlotFacts DEF Init
  <2> QED
    <3>1. inuse \in Bank /\ expected \in Bank
      BY DEF Init, Bank
    <3>2. irq \in BOOLEAN /\ claimed \in BOOLEAN /\ running \in BOOLEAN
      BY DEF Init
    <3> QED
      BY <2>1, <2>2, <2>3, <2>4, <3>1, <3>2 DEF Init, TypeOK
<1>2. Marked
  <2>1. \A b \in Bank : bankSlot[b] = NoSlot /\ desc[b].active = FALSE
    BY DEF Init
  <2>2. \A s \in Slot : owner[s] = "free"
    BY DEF Init, Free
  <2>3. pc = "idle"
    BY DEF Init
  <2> QED
    BY <2>1, <2>2, <2>3, SlotFacts DEF Marked, Bank
<1>3. Control /\ ~running
  BY DEF Init, Control
<1> QED
  BY <1>1, <1>2, <1>3 DEF IsoInv

LEMMA IsoStep ==
  ASSUME IsoInv, [Next]_vars
  PROVE  IsoInv'
<1>1. CASE Next
  BY <1>1, TokenStep, OpenStep, OpenFirstStep, OpenSecondStep, ServiceStartStep,
     ServiceIgnoreStep, ServiceReadStep, ServiceArmStep, ServiceConsumeStep, CancelStep,
     CancelParkStep, CancelSelectStep, CancelReleaseStep, CancelGiveUpStep
     DEF Next, Service
<1>2. CASE UNCHANGED vars
  BY <1>2 DEF vars, hwVars, swVars, cpuVars, IsoInv, TypeOK, Marked, Control,
     Idle, Arming, Consuming, Opening, Pending, Holds
<1> QED
  BY <1>1, <1>2

LEMMA IsoSafe ==
  ASSUME IsoInv
  PROVE  TypeOK /\ SlotOwnership /\ NoSlotLost /\ InOrder
<1> USE KindAssumption DEF Bank, Slot, NoSlot
<1>1. SlotOwnership
  BY DEF IsoInv, TypeOK, Marked, SlotOwnership, Descriptor
<1>2. NoSlotLost
  BY DEF IsoInv, TypeOK, Marked, Idle, NoSlotLost
<1>3. InOrder
  BY DEF IsoInv, Control, Consuming, Holds, InOrder
<1> QED
  BY <1>1, <1>2, <1>3 DEF IsoInv

(* The endpoint is type correct, never shares a slot with the controller,  *)
(* never loses a slot while it runs and hands on the packets of the        *)
(* current generation in the order of the bus, for any number of packets   *)
(* and opens and however the controller and the service interleave.        *)
THEOREM IsoCorrect == Spec => [](TypeOK /\ SlotOwnership /\ NoSlotLost /\ InOrder)
<1>1. Init => IsoInv
  BY IsoInit
<1>2. IsoInv /\ [Next]_vars => IsoInv'
  BY IsoStep
<1>3. IsoInv => TypeOK /\ SlotOwnership /\ NoSlotLost /\ InOrder
  BY IsoSafe
<1> QED
  BY <1>1, <1>2, <1>3, PTL DEF Spec

(* The controller never writes the payload the CPU is reading.             *)
THEOREM ReadingSafe == Spec => NoOverwriteWhileReading
<1> DEFINE Safe == pc = "consume" => buf'[old] = buf[old]
<1>1. ASSUME IsoInv, Next
      PROVE  Safe
  <2>1. ASSUME NEW bad \in BOOLEAN, Token(bad), pc = "consume"
        PROVE  buf'[old] = buf[old]
    <3>1. desc[inuse].slot # old
      BY <1>1, <2>1 DEF IsoInv, TypeOK, Marked, Token
    <3> QED
      BY <1>1, <2>1, <3>1 DEF Token, IsoInv, TypeOK
  <2>2. ASSUME pc = "consume", ~\E bad \in BOOLEAN : Token(bad)
        PROVE  buf' = buf
    BY <1>1, <2>2 DEF Next, Service, Open, OpenFirst, OpenSecond, ServiceStart,
       ServiceIgnore, ServiceRead, ServiceArm, ServiceConsume, Cancel, CancelPark,
       CancelSelect, CancelRelease, CancelGiveUp, hwVars
  <2> QED
    BY <2>1, <2>2
<1>2. IsoInv /\ [Next]_vars => [Safe]_vars
  BY <1>1
<1>3. Init => IsoInv
  BY IsoInit
<1>4. IsoInv /\ [Next]_vars => IsoInv'
  BY IsoStep
<1> QED
  BY <1>2, <1>3, <1>4, PTL DEF Spec, NoOverwriteWhileReading
=============================================================================
