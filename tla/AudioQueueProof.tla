-------------------------- MODULE AudioQueueProof --------------------------
(***************************************************************************)
(* Proofs about the playback queue for every capacity, index width, packet *)
(* size and block size the assumptions of AudioQueue allow.                *)
(***************************************************************************)
EXTENDS AudioQueue, SequenceTheorems, TLAPS

(***************************************************************************)
(* Arithmetic of the indices: the unsigned differences and sums of         *)
(* audio_queue.c behave like those of the unbounded counters they stand    *)
(* for, because the capacity is at most half the index range.              *)
(***************************************************************************)
LEMMA AddType ==
  ASSUME NEW i \in 0..(Wrap - 1), NEW n \in 0..Wrap
  PROVE  Add(i, n) \in 0..(Wrap - 1)
BY WrapAssumption, FramesAssumption DEF Add

LEMMA FillType ==
  ASSUME NEW w \in 0..(Wrap - 1), NEW r \in 0..(Wrap - 1)
  PROVE  Sub(w, r) \in 0..(Wrap - 1) /\ Sub(w, r) \in Nat
BY WrapAssumption, FramesAssumption DEF Sub

LEMMA FillPublish ==
  ASSUME NEW w \in 0..(Wrap - 1), NEW r \in 0..(Wrap - 1), NEW n \in Nat,
         Sub(w, r) + n <= Frames
  PROVE  Sub(Add(w, n), r) = Sub(w, r) + n
BY WrapAssumption, FramesAssumption DEF Add, Sub

LEMMA FillRender ==
  ASSUME NEW w \in 0..(Wrap - 1), NEW r \in 0..(Wrap - 1), NEW n \in Nat,
         n <= Sub(w, r)
  PROVE  Sub(w, Add(r, n)) = Sub(w, r) - n
BY WrapAssumption, FramesAssumption DEF Add, Sub

LEMMA WrittenFromRead ==
  ASSUME NEW w \in 0..(Wrap - 1), NEW r \in 0..(Wrap - 1)
  PROVE  Add(r, Sub(w, r)) = w
BY WrapAssumption, FramesAssumption DEF Add, Sub

(***************************************************************************)
(* Slots: an index and the same index after a wrap name the same slot, and *)
(* indices less than a capacity apart name different slots.                *)
(***************************************************************************)
LEMMA DivMod ==
  ASSUME NEW x \in Nat
  PROVE  /\ x \div Frames \in Nat
         /\ Slot(x) \in 0..(Frames - 1)
         /\ x = Frames * (x \div Frames) + Slot(x)
BY FramesAssumption, Z3 DEF Slot

LEMMA RemainderUnique ==
  ASSUME NEW p \in Int, NEW q \in Int,
         NEW r \in 0..(Frames - 1), NEW s \in 0..(Frames - 1),
         Frames * p + r = Frames * q + s
  PROVE  p = q /\ r = s
<1>1. ASSUME NEW a \in Int, NEW b \in Int, a > b,
             NEW c \in 0..(Frames - 1), NEW d \in 0..(Frames - 1),
             Frames * a + c = Frames * b + d
      PROVE  FALSE
  <2>1. Frames * (a - b) >= Frames
    BY <1>1, FramesAssumption
  <2>2. Frames * (a - b) = d - c
    BY <1>1, FramesAssumption
  <2> QED
    BY <1>1, <2>1, <2>2, FramesAssumption
<1>2. ~(p > q)
  BY <1>1
<1>3. ~(q > p)
  BY <1>1
<1> QED
  BY <1>2, <1>3, FramesAssumption

LEMMA SlotWrap ==
  ASSUME NEW x \in Nat
  PROVE  Slot(x + Wrap) = Slot(x)
<1> DEFINE m == Wrap \div Frames
<1>1. m \in Nat /\ Wrap = Frames * m
  BY DivMod, WrapAssumption, FramesAssumption DEF Slot
<1>2. x + Wrap \in Nat
  BY WrapAssumption
<1>3. Frames * ((x + Wrap) \div Frames) + Slot(x + Wrap)
        = Frames * (x \div Frames) + Slot(x) + Frames * m
  BY <1>1, <1>2, DivMod
<1>4. \A a, b \in Int : Frames * (a + b) = Frames * a + Frames * b
  BY FramesAssumption
<1> HIDE DEF m
<1>5. Frames * ((x + Wrap) \div Frames) + Slot(x + Wrap)
        = Frames * ((x \div Frames) + m) + Slot(x)
  <2>1. Frames * ((x \div Frames) + m) = Frames * (x \div Frames) + Frames * m
    BY <1>1, <1>4, DivMod
  <2>2. Slot(x) \in Int /\ Frames * (x \div Frames) \in Int /\ Frames * m \in Int
    BY <1>1, DivMod, FramesAssumption
  <2> QED
    BY <1>3, <2>1, <2>2
<1> QED
  BY <1>1, <1>2, <1>5, DivMod, RemainderUnique

LEMMA SlotAdd ==
  ASSUME NEW i \in 0..(Wrap - 1), NEW n \in 0..Wrap, NEW k \in Nat
  PROVE  Slot(Add(i, n) + k) = Slot(i + n + k)
<1>1. CASE i + n >= Wrap
  <2>1. /\ i + n - Wrap + k \in Nat
        /\ i + n + k = (i + n - Wrap + k) + Wrap
    BY <1>1, WrapAssumption
  <2> QED
    BY <1>1, <2>1, SlotWrap DEF Add
<1>2. CASE ~(i + n >= Wrap)
  BY <1>2, WrapAssumption DEF Add
<1> QED
  BY <1>1, <1>2

LEMMA SlotDistinct ==
  ASSUME NEW x \in Nat, NEW y \in Nat, x < y, y - x < Frames
  PROVE  Slot(x) # Slot(y)
<1> SUFFICES ASSUME Slot(x) = Slot(y)
             PROVE  FALSE
  OBVIOUS
<1> DEFINE p == x \div Frames
           q == y \div Frames
<1>1. p \in Nat /\ q \in Nat /\ x = Frames * p + Slot(x) /\ y = Frames * q + Slot(x)
  BY DivMod
<1>2. Slot(x) \in Int
  BY DivMod
<1>3. y - x = Frames * (q - p)
  BY <1>1, <1>2, FramesAssumption
<1> HIDE DEF p, q
<1>4. CASE q > p
  <2>1. Frames * (q - p) >= Frames
    BY <1>1, <1>4, FramesAssumption
  <2> QED
    BY <1>3, <2>1, FramesAssumption
<1>5. CASE q <= p
  <2>1. Frames * (q - p) <= 0
    BY <1>1, <1>5, FramesAssumption
  <2> QED
    BY <1>3, <2>1, FramesAssumption
<1> QED
  BY <1>1, <1>4, <1>5

LEMMA PacketType ==
  ASSUME NEW pkt \in Packet
  PROVE  /\ Len(pkt) \in 1..MaxPacket
         /\ pkt \in [1..Len(pkt) -> Frame]
         /\ pkt \in Seq(Frame)
BY SizesAssumption DEF Packet

\* A frame already stored lies less than a ring before the next one.
LEMMA StoredDistance ==
  ASSUME NEW w \in Nat, NEW i \in Nat, NEW n \in Nat, NEW c \in Nat, NEW r \in Nat,
         NEW k \in 1..i, i < n, c + n <= r
  PROVE  /\ w + k - 1 \in Nat /\ w + i \in Nat
         /\ w + k - 1 < w + i
         /\ (w + i) - (w + k - 1) < r
  OBVIOUS

(***************************************************************************)
(* The inductive invariant of the queue.                                   *)
(***************************************************************************)
LEMMA PushFrame ==
  ASSUME QueueInv, PushCopy
  PROVE  QueueInv'
<1> USE FramesAssumption, WrapAssumption, SizesAssumption
<1>1. /\ usb.pc = "copy" /\ usb.pkt \in Packet /\ usb.w = written
      /\ usb.i \in 0..MaxPacket /\ usb.i < Len(usb.pkt)
      /\ written \in 0..(Wrap - 1) /\ Fill + Len(usb.pkt) <= Frames
  BY DEF QueueInv, TypeOK, Copying, PushCopy
<1>2. Len(usb.pkt) \in 1..MaxPacket /\ usb.pkt \in [1..Len(usb.pkt) -> Frame]
  BY <1>1, PacketType
<1>3. written + usb.i \in Nat /\ Slot(written + usb.i) \in 0..(Frames - 1)
  <2>1. written + usb.i \in Nat
    BY <1>1
  <2> QED
    BY <2>1, DivMod
<1>4. pcm' = [pcm EXCEPT ![Slot(written + usb.i)] = usb.pkt[usb.i + 1]]
  BY <1>1 DEF PushCopy
<1>5. usb' = [usb EXCEPT !.i = usb.i + 1]
  BY DEF PushCopy
<1>6. TypeOK'
  <2>1. usb.pkt[usb.i + 1] \in Frame
    BY <1>1, <1>2
  <2>2. pcm' \in [0..(Frames - 1) -> Frame]
    BY <1>3, <1>4, <2>1 DEF QueueInv, TypeOK
  <2>3. usb.i + 1 \in 0..MaxPacket
    BY <1>1, <1>2
  <2>4. usb' \in [pc : {"idle", "copy"}, pkt : {<<>>} \cup Packet,
                  w : 0..(Wrap - 1), i : 0..MaxPacket]
    BY <1>5, <2>3 DEF QueueInv, TypeOK
  <2> QED
    BY <2>2, <2>4 DEF QueueInv, TypeOK, PushCopy
<1>7. Fill' = Fill
  BY DEF PushCopy, Fill
<1>8. Bounded'
  BY <1>7 DEF QueueInv, Bounded
<1>9. Copying'
  <2>1. /\ usb'.pkt = usb.pkt /\ usb'.w = usb.w /\ usb'.i = usb.i + 1 /\ usb'.pc = "copy"
        /\ written' = written
    BY <1>1, <1>5 DEF QueueInv, TypeOK, PushCopy
  <2>2. ASSUME NEW k \in 1..(usb.i + 1)
        PROVE  pcm'[Slot(written + k - 1)] = usb.pkt[k]
    <3>1. CASE k = usb.i + 1
      <4>1. written + k - 1 = written + usb.i
        BY <1>1, <3>1
      <4> QED
        BY <1>3, <1>4, <3>1, <4>1 DEF QueueInv, TypeOK
    <3>2. CASE k # usb.i + 1
      <4>1. k \in 1..usb.i
        BY <1>1, <3>2
      <4>2. pcm[Slot(written + k - 1)] = usb.pkt[k]
        BY <1>1, <4>1 DEF QueueInv, Copying
      <4>3. Slot(written + k - 1) # Slot(written + usb.i)
        <5>1. /\ written + k - 1 \in Nat /\ written + usb.i \in Nat
              /\ written + k - 1 < written + usb.i
              /\ (written + usb.i) - (written + k - 1) < Frames
          <6>1. Fill \in Nat
            BY FillType DEF QueueInv, TypeOK, Fill
          <6>2. written \in Nat /\ usb.i \in Nat /\ Len(usb.pkt) \in Nat /\ Frames \in Nat
            BY <1>1, <1>2
          <6> HIDE FramesAssumption, WrapAssumption, SizesAssumption
          <6> QED
            BY <1>1, <4>1, <6>1, <6>2, StoredDistance
        <5> QED
          BY <5>1, SlotDistinct
      <4>4. Slot(written + k - 1) \in 0..(Frames - 1)
        <5>1. written + k - 1 \in Nat
          BY <1>1, <4>1
        <5> QED
          BY <5>1, DivMod
      <4> QED
        BY <1>3, <1>4, <4>2, <4>3, <4>4 DEF QueueInv, TypeOK
    <3> QED
      BY <3>1, <3>2
  <2> QED
    BY <1>1, <1>2, <1>7, <2>1, <2>2 DEF Copying
<1> QED
  BY <1>6, <1>8, <1>9 DEF QueueInv

LEMMA PublishFrames ==
  ASSUME QueueInv, PushPublish
  PROVE  QueueInv' /\ Fill' = Fill + Len(usb.pkt)
<1> USE FramesAssumption, WrapAssumption, SizesAssumption
<1>1. /\ usb.pkt \in Packet /\ usb.w = written
      /\ written \in 0..(Wrap - 1) /\ read \in 0..(Wrap - 1)
      /\ Fill + Len(usb.pkt) <= Frames
  BY DEF QueueInv, TypeOK, Copying, PushPublish
<1>2. Len(usb.pkt) \in 1..MaxPacket
  BY <1>1, PacketType
<1>3. Fill \in Nat
  BY <1>1, FillType DEF Fill
<1>4. Len(usb.pkt) \in 0..Wrap
  BY <1>1, <1>2, <1>3
<1>5. /\ written' = Add(written, Len(usb.pkt)) /\ read' = read /\ pcm' = pcm
      /\ usb' = Idle /\ UNCHANGED <<block, overflowed, underrun>>
  BY <1>1 DEF PushPublish
<1>6. TypeOK'
  <2>1. written' \in 0..(Wrap - 1)
    BY <1>1, <1>4, <1>5, AddType
  <2>2. Idle \in [pc : {"idle", "copy"}, pkt : {<<>>} \cup Packet,
                  w : 0..(Wrap - 1), i : 0..MaxPacket]
    BY DEF Idle
  <2> QED
    BY <1>5, <2>1, <2>2 DEF QueueInv, TypeOK
<1>7. Fill' = Fill + Len(usb.pkt)
  BY <1>1, <1>2, <1>5, FillPublish DEF Fill
<1>8. Bounded'
  BY <1>1, <1>7 DEF Bounded
<1>9. Copying'
  BY <1>5 DEF Copying, Idle
<1> QED
  BY <1>6, <1>7, <1>8, <1>9 DEF QueueInv

LEMMA RenderBlock ==
  ASSUME QueueInv, Render
  PROVE  /\ QueueInv'
         /\ Take \in 0..Block /\ Take <= Fill
         /\ Take = (IF Fill < Block THEN Fill ELSE Block)
         /\ Fill' = Fill - Take
<1> USE FramesAssumption, WrapAssumption, SizesAssumption
<1>1. written \in 0..(Wrap - 1) /\ read \in 0..(Wrap - 1) /\ Fill <= Frames
  BY DEF QueueInv, TypeOK, Bounded
<1>2. Fill \in 0..(Wrap - 1)
  BY <1>1, FillType DEF Fill
<1>3. /\ Take \in 0..Block /\ Take <= Fill
      /\ Take = (IF Fill < Block THEN Fill ELSE Block)
  BY <1>1, <1>2 DEF Take, Available
<1>4. Take \in 0..Wrap
  BY <1>2, <1>3
<1>5. /\ read' = Add(read, Take) /\ written' = written /\ pcm' = pcm /\ usb' = usb
      /\ overflowed' = overflowed
  BY DEF Render
<1>6. Fill' = Fill - Take
  BY <1>1, <1>3, <1>5, FillRender DEF Fill
<1>7. TypeOK'
  <2>1. read' \in 0..(Wrap - 1)
    BY <1>1, <1>4, <1>5, AddType
  <2>2. block' \in [1..Block -> Frame]
    <3>1. ASSUME NEW k \in 1..Take
          PROVE  pcm[Slot(read + k - 1)] \in Frame
      <4>1. read + k - 1 \in Nat
        BY <1>1, <1>3
      <4> QED
        BY <4>1, DivMod DEF QueueInv, TypeOK
    <3>2. \A k \in 1..Block : k <= Take => k \in 1..Take
      BY <1>3
    <3> QED
      BY <3>1, <3>2, SilenceAssumption DEF Render
  <2>3. underrun' \in BOOLEAN
    BY DEF Render, QueueInv, TypeOK
  <2> QED
    BY <1>5, <2>1, <2>2, <2>3 DEF QueueInv, TypeOK
<1>8. Bounded'
  BY <1>1, <1>2, <1>3, <1>6 DEF Bounded
<1>9. Copying'
  <2>1. ASSUME usb.pc = "copy"
        PROVE  usb.pkt \in Packet /\ Fill' + Len(usb.pkt) <= Frames
    <3>1. usb.pkt \in Packet /\ Fill + Len(usb.pkt) <= Frames
      BY <2>1 DEF QueueInv, Copying
    <3>2. Len(usb.pkt) \in 1..MaxPacket
      BY <3>1, PacketType
    <3> QED
      BY <1>2, <1>3, <1>6, <3>1, <3>2
  <2> QED
    BY <1>5, <2>1 DEF QueueInv, Copying
<1> QED
  BY <1>3, <1>6, <1>7, <1>8, <1>9 DEF QueueInv

LEMMA StartQueue ==
  ASSUME NEW p \in Primes, TypeOK, Start(p)
  PROVE  QueueInv' /\ Fill' = p
<1> USE FramesAssumption, WrapAssumption, SizesAssumption
<1>1. p \in 0..Frames
  OBVIOUS
<1>2. Fill' = p
  BY <1>1 DEF Start, Fill, Sub
<1>3. TypeOK'
  <2>1. written' \in 0..(Wrap - 1) /\ read' \in 0..(Wrap - 1)
    BY <1>1 DEF Start
  <2>2. pcm' \in [0..(Frames - 1) -> Frame]
    BY SilenceAssumption DEF Start
  <2> QED
    BY <2>1, <2>2 DEF TypeOK, Start
<1>4. Bounded' /\ Copying'
  BY <1>1, <1>2 DEF Start, Bounded, Copying
<1> QED
  BY <1>2, <1>3, <1>4 DEF QueueInv

LEMMA AdmitPacket ==
  ASSUME QueueInv, NEW pkt \in Packet, PushAdmit(pkt)
  PROVE  QueueInv'
<1> USE FramesAssumption, WrapAssumption, SizesAssumption
<1>1. /\ usb' = [pc |-> "copy", pkt |-> pkt, w |-> written, i |-> 0]
      /\ UNCHANGED <<pcm, written, read, block, overflowed, underrun>>
      /\ Len(pkt) <= Frames - Fill
  BY DEF PushAdmit, Fits
<1>2. Fill' = Fill /\ Fill \in Nat
  BY <1>1, FillType DEF Fill, QueueInv, TypeOK
<1>3. Len(pkt) \in 1..MaxPacket
  BY PacketType
<1>4. TypeOK'
  BY <1>1 DEF QueueInv, TypeOK
<1>5. Bounded'
  BY <1>2 DEF QueueInv, Bounded
<1>6. Copying'
  BY <1>1, <1>2, <1>3 DEF Copying
<1> QED
  BY <1>4, <1>5, <1>6 DEF QueueInv

LEMMA QueueStep ==
  ASSUME QueueInv, [Next]_vars
  PROVE  QueueInv'
<1>1. ASSUME NEW p \in Primes, Start(p)
      PROVE  QueueInv'
  BY <1>1, StartQueue DEF QueueInv
<1>2. ASSUME NEW pkt \in Packet, PushAdmit(pkt)
      PROVE  QueueInv'
  BY <1>2, AdmitPacket
<1>3. ASSUME NEW pkt \in Packet, PushRefuse(pkt)
      PROVE  QueueInv'
  BY <1>3 DEF PushRefuse, QueueInv, TypeOK, Bounded, Copying, Fill
<1>4. CASE PushCopy
  BY <1>4, PushFrame
<1>5. CASE PushPublish
  BY <1>5, PublishFrames
<1>6. CASE Render
  BY <1>6, RenderBlock
<1>7. CASE UNCHANGED vars
  BY <1>7 DEF vars, QueueInv, TypeOK, Bounded, Copying, Fill
<1> QED
  BY <1>1, <1>2, <1>3, <1>4, <1>5, <1>6, <1>7 DEF Next

LEMMA QueueInit ==
  ASSUME Init
  PROVE  QueueInv /\ Fill = written
<1> USE FramesAssumption, WrapAssumption, SizesAssumption
<1>1. written \in 0..Frames /\ read = 0 /\ usb = Idle
  BY DEF Init
<1>2. Fill = written
  BY <1>1 DEF Fill, Sub
<1>3. TypeOK
  <2>1. written \in 0..(Wrap - 1) /\ read \in 0..(Wrap - 1)
    BY <1>1
  <2>2. Idle \in [pc : {"idle", "copy"}, pkt : {<<>>} \cup Packet,
                  w : 0..(Wrap - 1), i : 0..MaxPacket]
    BY <2>1 DEF Idle
  <2>3. pcm \in [0..(Frames - 1) -> Frame] /\ block \in [1..Block -> Frame]
    BY SilenceAssumption DEF Init
  <2> QED
    BY <1>1, <2>1, <2>2, <2>3 DEF Init, TypeOK
<1>4. Bounded /\ Copying
  BY <1>1, <1>2 DEF Bounded, Copying, Idle
<1> QED
  BY <1>2, <1>3, <1>4 DEF QueueInv

(* The fill of the queue never exceeds its capacity and the packet being   *)
(* copied lies intact in free slots, in every reachable state: push may    *)
(* decide from a stale read index because render only frees slots.         *)
THEOREM QueueCorrect == Spec => [](TypeOK /\ Bounded /\ Copying)
<1>1. Init => QueueInv
  BY QueueInit
<1>2. QueueInv /\ [Next]_vars => QueueInv'
  BY QueueStep
<1>3. QueueInv => TypeOK /\ Bounded /\ Copying
  BY DEF QueueInv
<1> QED
  BY <1>1, <1>2, <1>3, PTL DEF Spec

\* A published frame lies less than a ring before the one being stored.
LEMMA LiveDistance ==
  ASSUME NEW r \in Nat, NEW c \in Nat, NEW i \in Nat, NEW n \in Nat, NEW f \in Nat,
         NEW k \in 0..(c - 1), i < n, c + n <= f
  PROVE  /\ r + k \in Nat /\ r + c + i \in Nat
         /\ r + k < r + c + i
         /\ (r + c + i) - (r + k) < f
  OBVIOUS

LEMMA CopyFrames ==
  ASSUME QueueInv, PushCopy
  PROVE  \A s \in LiveSlots : pcm'[s] = pcm[s]
<1> USE FramesAssumption, WrapAssumption, SizesAssumption
<1>1. /\ written \in 0..(Wrap - 1) /\ read \in 0..(Wrap - 1)
      /\ usb.w = written /\ usb.i \in Nat /\ usb.i < Len(usb.pkt)
      /\ usb.pkt \in Packet /\ Fill + Len(usb.pkt) <= Frames
  BY DEF QueueInv, TypeOK, Copying, PushCopy
<1>2. Fill \in 0..(Wrap - 1) /\ Fill \in 0..Wrap /\ Len(usb.pkt) \in 1..MaxPacket
  <2>1. Fill \in 0..(Wrap - 1)
    BY <1>1, FillType DEF Fill
  <2> QED
    BY <1>1, <2>1, PacketType
<1>3. SUFFICES ASSUME NEW k \in 0..(Fill - 1)
               PROVE  /\ Slot(written + usb.i) # Slot(read + k)
                      /\ Slot(read + k) \in 0..(Frames - 1)
  <2>1. pcm' = [pcm EXCEPT ![Slot(written + usb.i)] = usb.pkt[usb.i + 1]]
    BY <1>1 DEF PushCopy
  <2>2. pcm \in [0..(Frames - 1) -> Frame]
    BY DEF QueueInv, TypeOK
  <2>3. ASSUME NEW s \in LiveSlots
        PROVE  pcm'[s] = pcm[s]
    <3>1. PICK k \in 0..(Fill - 1) : s = Slot(read + k)
      BY DEF LiveSlots
    <3>2. Slot(written + usb.i) # s /\ s \in 0..(Frames - 1)
      BY <1>3, <3>1, Zenon
    <3> QED
      BY <2>1, <2>2, <3>2, Zenon
  <2> QED
    BY <2>3
<1>4. Slot(Add(read, Fill) + usb.i) = Slot(read + Fill + usb.i)
  <2>1. read \in 0..(Wrap - 1) /\ Fill \in 0..Wrap /\ usb.i \in Nat
    BY <1>1, <1>2
  <2> HIDE FramesAssumption, WrapAssumption, SizesAssumption
  <2> QED
    BY <2>1, SlotAdd
<1>5. Add(read, Fill) = written
  BY <1>1, WrittenFromRead DEF Fill
<1>6. /\ read + k \in Nat /\ read + Fill + usb.i \in Nat
      /\ read + k < read + Fill + usb.i
      /\ (read + Fill + usb.i) - (read + k) < Frames
  <2>1. read \in Nat /\ Fill \in Nat /\ Len(usb.pkt) \in Nat /\ Frames \in Nat
    BY <1>1, <1>2
  <2> HIDE FramesAssumption, WrapAssumption, SizesAssumption
  <2> QED
    BY <1>1, <2>1, LiveDistance
<1>7. Slot(read + k) # Slot(read + Fill + usb.i)
  BY <1>6, SlotDistinct
<1> QED
  BY <1>4, <1>5, <1>6, <1>7, DivMod

(* A push never writes a slot that holds a published frame which the DMA   *)
(* interrupt has not rendered yet.                                         *)
THEOREM LiveFramesSafe == Spec => NoLiveOverwrite
<1> DEFINE Safe == usb.pc = "copy" => \A s \in LiveSlots : pcm'[s] = pcm[s]
<1> USE FramesAssumption, WrapAssumption, SizesAssumption
<1>1. ASSUME QueueInv, Next
      PROVE  Safe
  <2>1. CASE PushCopy
    BY <1>1, <2>1, CopyFrames
  <2>2. CASE ~PushCopy
    <3>1. usb.pc = "copy" => pcm' = pcm
      BY <1>1, <2>2 DEF Next, Start, PushAdmit, PushRefuse, PushPublish, Render
    <3> QED
      BY <3>1
  <2> QED
    BY <2>1, <2>2
<1>2. QueueInv /\ [Next]_vars => [Safe]_vars
  BY <1>1
<1>3. Init => QueueInv
  BY QueueInit
<1>4. QueueInv /\ [Next]_vars => QueueInv'
  BY QueueStep
<1> QED
  BY <1>2, <1>3, <1>4, PTL DEF Spec, NoLiveOverwrite

(***************************************************************************)
(* The queue implements the abstract first-in first-out queue.             *)
(***************************************************************************)
LEMMA QueuedType ==
  ASSUME QueueInv
  PROVE  /\ Fill \in 0..(Wrap - 1) /\ Fill \in Nat
         /\ Queued \in Seq(Frame) /\ Len(Queued) = Fill
         /\ \A k \in 1..Fill : Queued[k] = pcm[Slot(read + k - 1)]
<1>1. Fill \in 0..(Wrap - 1) /\ Fill \in Nat
  BY FillType DEF QueueInv, TypeOK, Fill
<1>2. ASSUME NEW k \in 1..Fill
      PROVE  pcm[Slot(read + k - 1)] \in Frame
  <2>1. read + k - 1 \in Nat
    BY <1>1, WrapAssumption DEF QueueInv, TypeOK
  <2> QED
    BY <2>1, DivMod DEF QueueInv, TypeOK
<1>3. Queued \in [1..Fill -> Frame]
  BY <1>2 DEF Queued
<1> QED
  BY <1>1, <1>3 DEF Queued

LEMMA SequenceConcat ==
  ASSUME NEW s \in Seq(Frame), NEW t \in Seq(Frame)
  PROVE  /\ s \o t \in [1..(Len(s) + Len(t)) -> Frame]
         /\ \A k \in 1..(Len(s) + Len(t)) :
              (s \o t)[k] = IF k <= Len(s) THEN s[k] ELSE t[k - Len(s)]
<1>1. /\ s \o t \in Seq(Frame) /\ Len(s \o t) = Len(s) + Len(t)
      /\ \A k \in 1..(Len(s) + Len(t)) :
           (s \o t)[k] = IF k <= Len(s) THEN s[k] ELSE t[k - Len(s)]
  BY ConcatProperties, Zenon
<1>2. \A u \in Seq(Frame) : u \in [1..Len(u) -> Frame]
  OBVIOUS
<1> QED
  BY <1>1, <1>2, Zenon

LEMMA StepAccept ==
  ASSUME QueueInv, PushPublish
  PROVE  Fifo!Accept
<1> USE FramesAssumption, WrapAssumption, SizesAssumption
<1>1. /\ usb.pc = "copy" /\ usb.pkt \in Packet /\ usb.w = written
      /\ usb.i = Len(usb.pkt)
      /\ written \in 0..(Wrap - 1) /\ read \in 0..(Wrap - 1)
      /\ Fill + Len(usb.pkt) <= Frames
  BY DEF QueueInv, TypeOK, Copying, PushPublish
<1>2. QueueInv' /\ Fill' = Fill + Len(usb.pkt)
  BY PublishFrames
<1>3. /\ Fill \in 0..(Wrap - 1) /\ Fill \in Nat
      /\ Queued \in Seq(Frame) /\ Len(Queued) = Fill
      /\ \A k \in 1..Fill : Queued[k] = pcm[Slot(read + k - 1)]
  BY QueuedType
<1>4. Len(usb.pkt) \in 1..MaxPacket /\ usb.pkt \in Seq(Frame)
  BY <1>1, PacketType
<1>5. pcm' = pcm /\ read' = read /\ UNCHANGED <<block, overflowed, underrun>>
  BY DEF PushPublish
<1>6. Queued' = [k \in 1..(Fill + Len(usb.pkt)) |-> pcm[Slot(read + k - 1)]]
  BY <1>2, <1>5 DEF Queued
<1>7. /\ Queued \o usb.pkt \in [1..(Fill + Len(usb.pkt)) -> Frame]
      /\ \A k \in 1..(Fill + Len(usb.pkt)) :
           (Queued \o usb.pkt)[k] = IF k <= Fill THEN Queued[k] ELSE usb.pkt[k - Fill]
  <2>1. Queued \in Seq(Frame) /\ Len(Queued) = Fill /\ usb.pkt \in Seq(Frame)
    BY <1>3, <1>4
  <2>2. /\ Queued \o usb.pkt \in [1..(Len(Queued) + Len(usb.pkt)) -> Frame]
        /\ \A k \in 1..(Len(Queued) + Len(usb.pkt)) :
             (Queued \o usb.pkt)[k]
               = IF k <= Len(Queued) THEN Queued[k] ELSE usb.pkt[k - Len(Queued)]
    BY <2>1, SequenceConcat, Zenon
  <2> QED
    BY <2>1, <2>2, Zenon
<1>8. ASSUME NEW k \in 1..(Fill + Len(usb.pkt))
      PROVE  pcm[Slot(read + k - 1)]
               = IF k <= Fill THEN Queued[k] ELSE usb.pkt[k - Fill]
  <2>1. CASE k <= Fill
    <3>1. k \in 1..Fill
      BY <2>1, <1>3
    <3> QED
      BY <1>3, <2>1, <3>1
  <2>2. CASE ~(k <= Fill)
    <3>1. /\ k - Fill \in 1..usb.i /\ k - Fill - 1 \in Nat
          /\ read + Fill + (k - Fill - 1) = read + k - 1
      BY <1>1, <1>3, <1>4, <2>2
    <3>2. pcm[Slot(written + (k - Fill) - 1)] = usb.pkt[k - Fill]
      BY <1>1, <3>1 DEF QueueInv, Copying
    <3>3. Add(read, Fill) = written
      BY <1>1, WrittenFromRead DEF Fill
    <3>4. Slot(Add(read, Fill) + (k - Fill - 1)) = Slot(read + Fill + (k - Fill - 1))
      <4>1. Fill \in 0..Wrap
        BY <1>3
      <4> QED
        BY <1>1, <3>1, <4>1, SlotAdd
    <3>5. written + (k - Fill) - 1 = written + (k - Fill - 1)
      BY <1>1, <1>3
    <3> QED
      BY <2>2, <3>1, <3>2, <3>3, <3>4, <3>5
  <2> QED
    BY <2>1, <2>2
<1>9. Queued' = Queued \o usb.pkt
  BY <1>6, <1>7, <1>8, Zenon
<1>10. Incoming = usb.pkt /\ Incoming # <<>> /\ Incoming' = <<>>
  BY <1>1, <1>4 DEF PushPublish, Idle, Incoming
<1> QED
  BY <1>5, <1>9, <1>10 DEF Fifo!Accept

LEMMA StepRender ==
  ASSUME QueueInv, Render
  PROVE  Fifo!Render
<1> USE FramesAssumption, WrapAssumption, SizesAssumption
<1>1. /\ QueueInv' /\ Take \in 0..Block /\ Take <= Fill
      /\ Take = (IF Fill < Block THEN Fill ELSE Block)
      /\ Fill' = Fill - Take
  BY RenderBlock
<1>2. /\ Fill \in 0..(Wrap - 1) /\ Fill \in Nat
      /\ Len(Queued) = Fill
      /\ \A k \in 1..Fill : Queued[k] = pcm[Slot(read + k - 1)]
  BY QueuedType
<1>3. read \in 0..(Wrap - 1)
  BY DEF QueueInv, TypeOK
<1>4. Fifo!Take = Take
  BY <1>1, <1>2 DEF Fifo!Take
<1>5. block' = [k \in 1..Block |-> IF k <= Fifo!Take THEN Queued[k] ELSE Silence]
  <2>1. \A k \in 1..Block : k <= Take => k \in 1..Fill
    BY <1>1, <1>2
  <2>2. \A k \in 1..Block :
          (IF k <= Take THEN pcm[Slot(read + k - 1)] ELSE Silence)
            = (IF k <= Take THEN Queued[k] ELSE Silence)
    BY <1>2, <2>1, Zenon
  <2> QED
    BY <1>4, <2>2 DEF Render
<1>6. Queued' = [k \in 1..(Len(Queued) - Take) |-> Queued[k + Take]]
  <2>1. Queued' = [k \in 1..(Fill - Take) |-> pcm[Slot(Add(read, Take) + k - 1)]]
    BY <1>1 DEF Render, Queued
  <2>2. ASSUME NEW k \in 1..(Fill - Take)
        PROVE  pcm[Slot(Add(read, Take) + k - 1)] = Queued[k + Take]
    <3>1. /\ k + Take \in 1..Fill /\ k - 1 \in Nat /\ Take \in 0..Wrap
          /\ read + Take + (k - 1) = read + (k + Take) - 1
      BY <1>1, <1>2, <1>3
    <3>2. Slot(Add(read, Take) + (k - 1)) = Slot(read + Take + (k - 1))
      BY <1>3, <3>1, SlotAdd
    <3>3. Add(read, Take) + k - 1 = Add(read, Take) + (k - 1)
      <4>1. Add(read, Take) \in 0..(Wrap - 1)
        BY <1>3, <3>1, AddType
      <4> QED
        BY <4>1
    <3> QED
      BY <1>2, <3>1, <3>2, <3>3
  <2>3. [k \in 1..(Fill - Take) |-> pcm[Slot(Add(read, Take) + k - 1)]]
          = [k \in 1..(Fill - Take) |-> Queued[k + Take]]
    BY <2>2, Zenon
  <2> QED
    BY <1>2, <2>1, <2>3
<1>7. /\ underrun' = (underrun \/ Take < Block) /\ overflowed' = overflowed
      /\ Incoming' = Incoming
  BY DEF Render, Incoming
<1> QED
  BY <1>4, <1>5, <1>6, <1>7 DEF Fifo!Render

LEMMA StepQueue ==
  ASSUME QueueInv, [Next]_vars
  PROVE  [Fifo!Next]_Fifo!fifoVars
<1> USE FramesAssumption, WrapAssumption, SizesAssumption
<1>1. ASSUME NEW p \in Primes, Start(p)
      PROVE  Fifo!Start(p)
  <2>1. Fill' = p /\ p \in 0..Frames
    BY <1>1, StartQueue DEF QueueInv
  <2>2. Queued' = [k \in 1..p |-> pcm'[Slot(read' + k - 1)]]
    BY <2>1 DEF Queued
  <2>3. ASSUME NEW k \in 1..p
        PROVE  pcm'[Slot(read' + k - 1)] = Silence
    <3>1. read' + k - 1 \in Nat
      BY <1>1, <2>1 DEF Start
    <3>2. Slot(read' + k - 1) \in 0..(Frames - 1)
      BY <3>1, DivMod
    <3> QED
      BY <1>1, <3>2 DEF Start
  <2> QED
    BY <1>1, <2>2, <2>3 DEF Start, Incoming, Fifo!Start
<1>2. ASSUME NEW pkt \in Packet, PushRefuse(pkt)
      PROVE  Fifo!Refuse(pkt)
  <2>1. Len(Queued) = Fill /\ Fill \in Nat /\ Len(pkt) \in 1..MaxPacket
    BY QueuedType, PacketType
  <2>2. Fill + Len(pkt) > Frames
    BY <1>2, <2>1 DEF PushRefuse, Fits, QueueInv, Bounded
  <2>3. Queued' = Queued
    BY <1>2 DEF PushRefuse, Queued, Fill
  <2> QED
    BY <1>2, <2>1, <2>2, <2>3 DEF PushRefuse, Incoming, Fifo!Refuse
<1>3. ASSUME NEW pkt \in Packet, PushAdmit(pkt)
      PROVE  Fifo!Offer(pkt)
  <2>1. Len(Queued) = Fill /\ Fill \in Nat /\ Len(pkt) \in 1..MaxPacket
    BY QueuedType, PacketType
  <2>2. Fill + Len(pkt) <= Frames
    BY <1>3, <2>1 DEF PushAdmit, Fits, QueueInv, Bounded
  <2>3. Queued' = Queued
    BY <1>3 DEF PushAdmit, Queued, Fill
  <2>4. Incoming = <<>> /\ Incoming' = pkt
    BY <1>3 DEF PushAdmit, Incoming
  <2> QED
    BY <1>3, <2>1, <2>2, <2>3, <2>4 DEF PushAdmit, Fifo!Offer
<1>4. CASE PushCopy
  <2>1. \A s \in LiveSlots : pcm'[s] = pcm[s]
    BY <1>4, CopyFrames
  <2>2. ASSUME NEW k \in 1..Fill
        PROVE  pcm'[Slot(read + k - 1)] = pcm[Slot(read + k - 1)]
    <3>1. k - 1 \in 0..(Fill - 1) /\ read + (k - 1) = read + k - 1
      BY QueuedType DEF QueueInv, TypeOK
    <3> QED
      BY <2>1, <3>1 DEF LiveSlots
  <2>3. Queued' = Queued
    BY <1>4, <2>2 DEF PushCopy, Queued, Fill
  <2>4. Incoming' = Incoming
    BY <1>4 DEF PushCopy, Incoming, QueueInv, TypeOK
  <2> QED
    BY <1>4, <2>3, <2>4 DEF PushCopy, Fifo!fifoVars
<1>5. CASE PushPublish
  BY <1>5, StepAccept DEF Fifo!Next
<1>6. CASE Render
  BY <1>6, StepRender DEF Fifo!Next
<1>7. CASE UNCHANGED vars
  BY <1>7 DEF vars, Queued, Fill, Incoming, Fifo!fifoVars
<1> QED
  BY <1>1, <1>2, <1>3, <1>4, <1>5, <1>6, <1>7
     DEF Next, Fifo!Next, Fifo!Packet, Packet

(* The ring refines the abstract queue of AudioFifo for every capacity,    *)
(* index width, packet size and block size: push and render, interleaved   *)
(* in any way the two interrupts allow, neither lose, repeat nor reorder a *)
(* frame, queue each packet whole and as it was pushed, and never pad a    *)
(* block unreported.                                                       *)
THEOREM QueueRefinesFifo == Spec => ImplementsFifo
<1> USE FramesAssumption, WrapAssumption, SizesAssumption
<1>1. Init => Fifo!Init
  <2> SUFFICES ASSUME Init
               PROVE  Fifo!Init
    OBVIOUS
  <2>1. Fill = written /\ written \in Primes /\ written \in 0..Frames /\ read = 0
    BY QueueInit DEF Init
  <2>2. ASSUME NEW k \in 1..written
        PROVE  pcm[Slot(read + k - 1)] = Silence
    <3>1. read + k - 1 \in Nat
      BY <2>1
    <3>2. Slot(read + k - 1) \in 0..(Frames - 1)
      BY <3>1, DivMod
    <3> QED
      BY <3>2 DEF Init
  <2>3. Queued = [k \in 1..written |-> Silence]
    BY <2>1, <2>2 DEF Queued
  <2> QED
    BY <2>1, <2>3 DEF Init, Idle, Incoming, Fifo!Init
<1>2. QueueInv /\ [Next]_vars => [Fifo!Next]_Fifo!fifoVars
  BY StepQueue
<1>3. Init => QueueInv
  BY QueueInit
<1>4. QueueInv /\ [Next]_vars => QueueInv'
  BY QueueStep
<1> QED
  BY <1>1, <1>2, <1>3, <1>4, PTL DEF Spec, ImplementsFifo, Fifo!Spec
=============================================================================
