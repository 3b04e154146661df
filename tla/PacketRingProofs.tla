-------------------------- MODULE PacketRingProofs --------------------------
(***************************************************************************)
(* Proofs about PacketRing, for any number of frames, places in the        *)
(* channel and packets, the 1024 of each that the scanners use included:   *)
(* what holds until live packets hold every frame of the ring at once.     *)
(***************************************************************************)
EXTENDS PacketRing, FiniteSetTheorems, FunctionTheorems, TLAPS

-----------------------------------------------------------------------------
(* Remainders, which the prover has few facts about.  *)

LEMMA Multiples ==
  ASSUME NEW N \in Nat \ {0}, NEW p \in Int, NEW q \in Int, p < q
  PROVE  N * p + N <= N * q
<1>1. q = p + 1 + (q - p - 1) /\ q - p - 1 \in Nat
  OBVIOUS
<1> DEFINE d == q - p - 1
<1>2. d \in Nat /\ q = p + 1 + d
  BY <1>1
<1> HIDE DEF d
<1>3. N * d \in Nat
  BY <1>2
<1>4. N * q = N * p + N + N * d
  BY <1>2
<1>5. QED BY <1>3, <1>4

LEMMA DivMod ==
  ASSUME NEW N \in Nat \ {0}, NEW a \in Nat
  PROVE  /\ a % N \in 0..(N - 1)
         /\ \E q \in Nat : a = N * q + (a % N)
<1>1. a % N \in 0..(N - 1)
  OBVIOUS
<1>2. a = N * (a \div N) + (a % N)
  OBVIOUS
<1> DEFINE d == a \div N
           m == a % N
<1>3. d \in Int /\ a = N * d + m /\ m \in 0..(N - 1)
  BY <1>1, <1>2
<1> HIDE DEF d, m
<1>4. ~(d < 0)
  <2> SUFFICES ASSUME d < 0 PROVE FALSE
    OBVIOUS
  <2>1. N * d + N <= N * 0
    BY <1>3, Multiples
  <2>2. N * d \in Int /\ N * 0 = 0
    BY <1>3
  <2> QED BY <1>3, <2>1, <2>2
<1>5. d \in Nat /\ a = N * d + m
  BY <1>3, <1>4
<1>6. QED BY <1>1, <1>5 DEF m

LEMMA UniqueMod ==
  ASSUME NEW N \in Nat \ {0}, NEW a \in Nat, NEW q \in Nat, NEW s \in 0..(N - 1),
         a = N * q + s
  PROVE  a % N = s
<1>1. PICK k \in Nat : a = N * k + (a % N)
  BY DivMod
<1> DEFINE t == a % N
<1>2. t \in 0..(N-1) /\ a = N*k + t
  BY <1>1, DivMod
<1> HIDE DEF t
<1>3. ~(k < q)
  <2> SUFFICES ASSUME k < q PROVE FALSE
    OBVIOUS
  <2>1. N * k + N <= N * q
    BY Multiples
  <2>2. N * k \in Int /\ N * q \in Int
    OBVIOUS
  <2> QED BY <1>2, <2>1, <2>2
<1>4. ~(q < k)
  <2> SUFFICES ASSUME q < k PROVE FALSE
    OBVIOUS
  <2>1. N * q + N <= N * k
    BY Multiples
  <2>2. N * k \in Int /\ N * q \in Int
    OBVIOUS
  <2> QED BY <1>2, <2>1, <2>2
<1>5. k = q
  BY <1>3, <1>4
<1>6. N*q \in Int
  OBVIOUS
<1>7. t = s
  BY <1>2, <1>5, <1>6
<1> QED BY <1>7 DEF t

LEMMA ModApart ==
  ASSUME NEW N \in Nat \ {0}, NEW a \in Nat, NEW b \in Nat, a < b, b < a + N
  PROVE  a % N # b % N
<1> SUFFICES ASSUME a % N = b % N PROVE FALSE
  OBVIOUS
<1>1. PICK p \in Nat : a = N * p + (a % N)
  BY DivMod
<1>2. PICK q \in Nat : b = N * q + (b % N)
  BY DivMod
<1> DEFINE s == a % N
<1>3. s \in 0..(N-1) /\ a = N*p + s /\ b = N*q + s
  BY <1>1, <1>2, DivMod
<1> HIDE DEF s
<1>4. N*p \in Int /\ N*q \in Int
  OBVIOUS
<1>5. N*p < N*q /\ N*q < N*p + N
  BY <1>3, <1>4
<1>6. CASE p < q
  BY <1>4, <1>5, <1>6, Multiples
<1>7. CASE q < p
  BY <1>4, <1>5, <1>7, Multiples
<1>8. CASE p = q
  BY <1>4, <1>5, <1>8
<1> QED BY <1>6, <1>7, <1>8

LEMMA ModPlus ==
  ASSUME NEW N \in Nat \ {0}, NEW a \in Nat, NEW i \in Nat
  PROVE  ((a % N) + i) % N = (a + i) % N
<1>1. PICK p \in Nat : a = N * p + (a % N)
  BY DivMod
<1> DEFINE s == a % N
           x == s + i
<1>2. s \in 0..(N-1) /\ a = N * p + s /\ x \in Nat
  BY <1>1, DivMod
<1>3. PICK q \in Nat : x = N * q + (x % N)
  BY <1>2, DivMod
<1> DEFINE t == x % N
<1>4. t \in 0..(N-1) /\ x = N*q + t
  BY <1>2, <1>3, DivMod
<1>5. a + i = N * p + x
  BY <1>2
<1> HIDE DEF t, x
<1>6. N * (p + q) = N * p + N * q
  OBVIOUS
<1>7. a + i = N * (p + q) + t
  BY <1>4, <1>5, <1>6
<1> DEFINE m == p + q
           y == a + i
<1>9. m \in Nat /\ y \in Nat /\ y = N * m + t
  BY <1>7
<1> HIDE DEF m, y
<1>10. y % N = t
  BY <1>4, <1>9, UniqueMod
<1>8. (a + i) % N = t
  BY <1>10 DEF y
<1> QED BY <1>8 DEF t, x
-----------------------------------------------------------------------------
(* The ring, counted without wrapping: the packets b, b+1, ... r-1 are alive *)
(* and r, ... w-1 wait to be read, oldest first, packet j in frame Slot(j).  *)

Slot(j) == j % FrameCount

IsAt(packet, j) ==
  packet.frame = Slot(j) /\ packet.pkt = content[Slot(j)]

Spans(b, r, w) ==
  /\ b <= r /\ r <= w /\ w <= b + FrameCount
  /\ rx = Slot(r)
  /\ head = Slot(w)

Owned(b, w) ==
  \A f \in Frames : owner[f] = "user" <=> \E j \in b..(w - 1) : f = Slot(j)

HeldCount == IF held \in Packet THEN 1 ELSE 0
HandCount == IF hand \in Packet THEN 1 ELSE 0

\* An error is last in the channel.
ChannelCount ==
  IF channel # <<>> /\ channel[Len(channel)] = Error
  THEN Len(channel) - 1 ELSE Len(channel)

LiveAt(b, r) ==
  /\ r = b + HeldCount + ChannelCount + HandCount
  /\ held \in Packet => IsAt(held, b)
  /\ \A i \in 1..ChannelCount : IsAt(channel[i], b + HeldCount + i - 1)
  /\ hand \in Packet => IsAt(hand, r - 1)

\* What was delivered came in order.
InOrder == \A i, j \in DOMAIN delivered : i < j => delivered[i] < delivered[j]

\* Newer packets in later frames, and older ones delivered.
Ordered(b, w) ==
  /\ \A i, j \in b..(w - 1) : i < j => content[Slot(i)] < content[Slot(j)]
  /\ \A j \in b..(w - 1) : content[Slot(j)] \in 1..arrived
  /\ \A d \in DOMAIN delivered :
       /\ delivered[d] <= arrived
       /\ \A j \in b..(w - 1) : delivered[d] < content[Slot(j)]
  /\ InOrder

Layout(b, r, w) == Spans(b, r, w) /\ Owned(b, w) /\ LiveAt(b, r) /\ Ordered(b, w)

\* Where the background task can be.
TaskPlaced ==
  /\ hand # Nothing <=> task \in {"sending", "failing"}
  /\ hand = Error => task = "failing" \/ ~running
  /\ task = "failing" => hand = Error
  /\ mode # "channel" => task = "none" /\ channel = <<>>
  /\ mode = "off" => ~running /\ held = Nothing
  /\ ~alive => channel = <<>> /\ held = Nothing

\* After an error the task sends nothing more.
ErrorLast ==
  \A i \in DOMAIN channel : channel[i] = Error =>
    i = Len(channel) /\ ~running /\ task \in {"clearing", "top", "none"}

\* Inductive as long as live packets do not hold every frame.
RInv ==
  /\ TypeOK /\ TaskPlaced /\ ErrorLast
  /\ \E b, r, w \in Nat : Layout(b, r, w)

\* The inductive invariant.
IInv == ~filled => RInv

LEMMA PacketKinds ==
  /\ Nothing \notin Packet /\ Error \notin Packet /\ Nothing # Error
  /\ \A packet \in Packet : packet.frame \in Frames
BY RingAssumption DEF Packet, Nothing, Error, Frames

LEMMA SlotType == \A j \in Nat : Slot(j) \in Frames
BY DivMod, RingAssumption DEF Slot, Frames

\* Fewer than FrameCount apart, two packets are in different frames.
LEMMA SlotsApart ==
  ASSUME NEW i \in Nat, NEW j \in Nat, i < j, j < i + FrameCount
  PROVE  Slot(i) # Slot(j)
BY ModApart, RingAssumption DEF Slot

LEMMA SlotNext == \A j \in Nat : NextFrame(Slot(j)) = Slot(j + 1)
BY ModPlus, RingAssumption DEF Slot, NextFrame

LEMMA ChannelFacts ==
  ASSUME TypeOK, ErrorLast
  PROVE  /\ channel \in Seq(Packet \cup {Error}) /\ Len(channel) \in Nat
         /\ DOMAIN channel = 1..Len(channel)
         /\ ChannelCount \in Nat /\ ChannelCount <= Len(channel)
         /\ Len(channel) <= ChannelSize
         /\ \A i \in 1..ChannelCount : i \in DOMAIN channel /\ channel[i] \in Packet
         /\ \A i \in DOMAIN channel : channel[i] # Error => i <= ChannelCount
<1>1. channel \in Seq(Packet \cup {Error}) /\ Len(channel) <= ChannelSize
  BY DEF TypeOK
<1>2. Len(channel) \in Nat /\ DOMAIN channel = 1..Len(channel)
  BY <1>1
<1>3. channel # <<>> => Len(channel) > 0
  BY <1>1
<1>4. ChannelCount \in Nat /\ ChannelCount <= Len(channel)
  BY <1>2, <1>3 DEF ChannelCount
<1>5. ASSUME NEW i \in 1..ChannelCount
      PROVE  i \in DOMAIN channel /\ channel[i] \in Packet
  <2>1. i \in DOMAIN channel
    BY <1>2, <1>4
  <2>2. channel[i] # Error
    BY <1>2, <1>4, <2>1 DEF ErrorLast, ChannelCount
  <2>3. QED
    BY <1>1, <2>1, <2>2
<1>6. ASSUME NEW i \in DOMAIN channel, channel[i] # Error
      PROVE  i <= ChannelCount
  BY <1>2, <1>6 DEF ChannelCount
<1>7. QED
  BY <1>1, <1>2, <1>4, <1>5, <1>6

LEMMA Counts ==
  ASSUME TypeOK
  PROVE  HeldCount \in 0..1 /\ HandCount \in 0..1
BY DEF HeldCount, HandCount

\* The live packets are b to r-1, each in its frame.
LEMMA LivePackets ==
  ASSUME NEW b \in Nat, NEW r \in Nat, NEW w \in Nat, Layout(b, r, w),
         TypeOK, ErrorLast
  PROVE  /\ \A p \in Alive : \E j \in b..(r - 1) : IsAt(p, j)
         /\ \A j \in b..(r - 1) : \E p \in Alive : IsAt(p, j)
<1>1. HeldCount \in 0..1 /\ HandCount \in 0..1 /\ ChannelCount \in Nat
  BY Counts, ChannelFacts
<1>2. /\ r = b + HeldCount + ChannelCount + HandCount
      /\ held \in Packet => IsAt(held, b)
      /\ \A i \in 1..ChannelCount : IsAt(channel[i], b + HeldCount + i - 1)
      /\ hand \in Packet => IsAt(hand, r - 1)
  BY DEF Layout, LiveAt
<1>3. /\ held \in Packet <=> HeldCount = 1
      /\ hand \in Packet <=> HandCount = 1
  BY <1>1 DEF HeldCount, HandCount
<1>4. ASSUME NEW p \in Alive
      PROVE  \E j \in b..(r - 1) : IsAt(p, j)
  <2>1. CASE p = held
    <3>1. held \in Packet
      BY <1>4, <2>1 DEF Alive, TypeOK
    <3>2. b \in b..(r - 1)
      BY <1>1, <1>2, <1>3, <3>1
    <3>3. QED
      BY <1>2, <2>1, <3>1, <3>2
  <2>2. CASE p = hand
    <3>1. hand \in Packet
      BY <1>4, <2>2 DEF Alive, TypeOK
    <3>2. r - 1 \in b..(r - 1)
      BY <1>1, <1>2, <1>3, <3>1
    <3>3. QED
      BY <1>2, <2>2, <3>1, <3>2
  <2>3. CASE \E i \in DOMAIN channel : p = channel[i]
    <3>1. PICK i \in DOMAIN channel : p = channel[i]
      BY <2>3
    <3>2. i \in 1..ChannelCount
      BY <1>4, <3>1, ChannelFacts DEF Alive
    <3>3. b + HeldCount + i - 1 \in b..(r - 1)
      BY <1>1, <1>2, <3>2
    <3>4. QED
      BY <1>2, <3>1, <3>2, <3>3
  <2>4. QED
    BY <2>1, <2>2, <2>3 DEF Alive
<1>5. ASSUME NEW j \in b..(r - 1)
      PROVE  \E p \in Alive : IsAt(p, j)
  <2>1. CASE HeldCount = 1 /\ j = b
    BY <1>2, <1>3, <2>1, PacketKinds DEF Alive
  <2>2. CASE HandCount = 1 /\ j = r - 1
    BY <1>2, <1>3, <2>2, PacketKinds DEF Alive
  <2>3. CASE b + HeldCount <= j /\ j < b + HeldCount + ChannelCount
    <3>1. PICK i \in 1..ChannelCount : i = j - b - HeldCount + 1
      BY <1>1, <2>3
    <3>2. b + HeldCount + i - 1 = j
      BY <1>1, <3>1
    <3>3. IsAt(channel[i], j)
      BY <1>2, <3>2
    <3>4. i \in DOMAIN channel /\ channel[i] \in Packet
      BY ChannelFacts
    <3>5. QED
      BY <3>3, <3>4, PacketKinds DEF Alive
  <2>4. QED
    BY <1>1, <1>2, <2>1, <2>2, <2>3
<1>6. QED
  BY <1>4, <1>5

\* FrameCount numbers in a row use every frame.
LEMMA SlotsAll ==
  ASSUME NEW b \in Nat, NEW f \in Frames
  PROVE  \E j \in b..(b + FrameCount - 1) : Slot(j) = f
<1> PICK N \in Nat \ {0} : N = FrameCount
  BY RingAssumption
<1>1. f \in 0..(N - 1) /\ f \in Nat
  BY RingAssumption DEF Frames
<1>2. PICK q \in Nat : b = N * q + (b % N)
  BY DivMod
<1> PICK s \in 0..(N - 1) : s = b % N
  BY DivMod
<1> PICK m \in Nat : m = N * q
  OBVIOUS
<1>3. b = m + s
  BY <1>2
<1>4. CASE s <= f
  <2> PICK j \in Nat : j = m + f
    BY <1>1
  <2>1. j \in b..(b + N - 1)
    BY <1>1, <1>3, <1>4
  <2>2. j % N = f
    BY <1>1, UniqueMod
  <2>3. QED
    BY <2>1, <2>2 DEF Slot
<1>5. CASE f < s
  <2> PICK k \in Nat : k = q + 1
    OBVIOUS
  <2> PICK j \in Nat : j = m + N + f
    BY <1>1
  <2>1. j \in b..(b + N - 1)
    BY <1>1, <1>3, <1>5
  <2>2. N * k = m + N
    OBVIOUS
  <2>3. j = N * k + f
    BY <2>2
  <2>4. j % N = f
    BY <1>1, <2>3, UniqueMod
  <2>5. QED
    BY <2>1, <2>4 DEF Slot
<1>6. QED
  BY <1>1, <1>4, <1>5

\* The frame that the reader takes for one to be read really waits to be read,
\* if live packets do not hold every frame.
LEMMA ReaderNotRound ==
  ASSUME TypeOK, ErrorLast, NEW b \in Nat, NEW r \in Nat, NEW w \in Nat,
         Layout(b, r, w), FrameIsAvailable, ~(Frames \subseteq HeldFrames)
  PROVE  r < w
<1>1. PICK j \in b..(w - 1) : Slot(r) = Slot(j)
  BY SlotType DEF Layout, Spans, Owned, FrameIsAvailable
<1>2. b <= r /\ r <= w /\ w <= b + FrameCount /\ FrameCount \in Nat
  BY RingAssumption DEF Layout, Spans
<1>3. PICK f \in Frames : f \notin HeldFrames
  OBVIOUS
<1>4. PICK k \in b..(b + FrameCount - 1) : Slot(k) = f
  BY SlotsAll
<1>5. ~(k < r)
  <2> SUFFICES ASSUME k < r PROVE FALSE
    OBVIOUS
  <2>1. k \in b..(r - 1)
    BY <1>2
  <2>2. PICK p \in Alive : IsAt(p, k)
    BY <2>1, LivePackets
  <2>3. QED
    BY <1>3, <1>4, <2>2 DEF HeldFrames, IsAt
<1>6. r < b + FrameCount
  BY <1>2, <1>5
<1>7. ~(j < r)
  <2> SUFFICES ASSUME j < r PROVE FALSE
    OBVIOUS
  <2>1. j \in Nat /\ r < j + FrameCount
    BY <1>2, <1>6
  <2>2. QED
    BY <1>1, <2>1, SlotsApart
<1>8. QED
  BY <1>1, <1>2, <1>7
-----------------------------------------------------------------------------
(* What a step does to the layout of the ring.  *)

LEMMA LayoutInit == Init => Layout(0, 0, 0)
<1> SUFFICES ASSUME Init PROVE Layout(0, 0, 0)
  OBVIOUS
<1>1. HeldCount = 0 /\ HandCount = 0 /\ ChannelCount = 0
  BY PacketKinds DEF Init, HeldCount, HandCount, ChannelCount
<1>2. Slot(0) = 0
  BY RingAssumption DEF Slot
<1>3. 0..(0 - 1) = {}
  OBVIOUS
<1>4. Spans(0, 0, 0) /\ Owned(0, 0)
  BY <1>2, <1>3, RingAssumption DEF Init, Spans, Owned
<1>5. LiveAt(0, 0)
  BY <1>1, PacketKinds DEF Init, LiveAt
<1>6. Ordered(0, 0)
  BY <1>3 DEF Init, Ordered, InOrder
<1>7. QED
  BY <1>4, <1>5, <1>6 DEF Layout

\* The ring stays as it is, though a packet may have arrived in vain.
LEMMA RingStays ==
  ASSUME NEW b \in Nat, NEW r \in Nat, NEW w \in Nat, Layout(b, r, w),
         TypeOK, arrived' \in Nat, arrived <= arrived',
         UNCHANGED <<owner, content, head, rx, delivered>>
  PROVE  Spans(b, r, w)' /\ Owned(b, w)' /\ Ordered(b, w)'
<1>1. Spans(b, r, w)' /\ Owned(b, w)'
  BY DEF Layout, Spans, Owned
<1>2. arrived \in Nat /\ \A d \in DOMAIN delivered : delivered[d] \in Int
  BY RingAssumption DEF TypeOK
<1>3. Ordered(b, w)'
  BY <1>2 DEF Layout, Ordered, InOrder
<1>4. QED
  BY <1>1, <1>3

\* So do the live packets: only an error may come to the task's hand.
LEMMA PacketsStay ==
  ASSUME NEW b \in Nat, NEW r \in Nat, NEW w \in Nat, Layout(b, r, w),
         TypeOK, arrived' \in Nat, arrived <= arrived',
         UNCHANGED <<owner, content, head, rx, delivered, held, channel>>,
         hand' = hand \/ (hand \notin Packet /\ hand' \notin Packet)
  PROVE  Layout(b, r, w)'
<1>1. HeldCount' = HeldCount /\ ChannelCount' = ChannelCount /\ HandCount' = HandCount
  BY DEF HeldCount, ChannelCount, HandCount
<1>2. LiveAt(b, r)'
  BY <1>1 DEF Layout, LiveAt, IsAt
<1>3. QED
  BY <1>2, RingStays DEF Layout

LEMMA KernelLayout ==
  ASSUME NEW b \in Nat, NEW r \in Nat, NEW w \in Nat, Layout(b, r, w),
         TypeOK, ErrorLast, KernelWrite
  PROVE  Layout(b, r, w + 1)'
<1>1. /\ owner[head] = "kernel" /\ arrived' = arrived + 1
      /\ content' = [content EXCEPT ![head] = arrived + 1]
      /\ owner' = [owner EXCEPT ![head] = "user"]
      /\ head' = NextFrame(head)
      /\ UNCHANGED <<rx, hand, channel, held, delivered>>
  BY DEF KernelWrite, readerVars, taskVars
<1>2. /\ head = Slot(w) /\ rx = Slot(r) /\ b <= r /\ r <= w /\ w <= b + FrameCount
      /\ Slot(w) \in Frames
  BY SlotType DEF Layout, Spans
<1>3. w < b + FrameCount
  <2> SUFFICES ASSUME w = b + FrameCount PROVE FALSE
    BY <1>2, RingAssumption
  <2>1. Slot(w) = Slot(b)
    <3>1. (FrameCount % FrameCount) = 0
      BY UniqueMod, RingAssumption
    <3>2. ((b % FrameCount) + FrameCount) % FrameCount = (b + FrameCount) % FrameCount
      BY ModPlus, RingAssumption
    <3>3. ((FrameCount % FrameCount) + b) % FrameCount = (FrameCount + b) % FrameCount
      BY ModPlus, RingAssumption
    <3>4. FrameCount + b = b + FrameCount /\ 0 + b = b
      BY RingAssumption
    <3>5. QED
      BY <3>1, <3>3, <3>4 DEF Slot
  <2>2. b \in b..(w - 1)
    BY RingAssumption
  <2>3. owner[Slot(w)] = "user"
    BY <1>2, <2>1, <2>2 DEF Layout, Owned
  <2>4. QED
    BY <1>1, <1>2, <2>3
<1>4. \A j \in b..(w - 1) : Slot(j) # Slot(w) /\ Slot(j) \in Frames
  <2> SUFFICES ASSUME NEW j \in b..(w - 1) PROVE Slot(j) # Slot(w) /\ Slot(j) \in Frames
    OBVIOUS
  <2>1. j \in Nat /\ j < w /\ w < j + FrameCount
    BY <1>3, RingAssumption
  <2>2. QED
    BY <2>1, SlotsApart, SlotType
<1>5. Spans(b, r, w + 1)'
  BY <1>1, <1>2, <1>3, SlotNext, RingAssumption DEF Spans
<1>6. b..((w + 1) - 1) = b..(w - 1) \cup {w}
  BY <1>2
<1>7. Owned(b, w + 1)'
  <2>1. \A f \in Frames : owner'[f] = "user" <=> owner[f] = "user" \/ f = Slot(w)
    BY <1>1, <1>2 DEF TypeOK
  <2>2. QED
    BY <1>6, <2>1 DEF Layout, Owned
<1>8. /\ \A j \in b..(w - 1) : content'[Slot(j)] = content[Slot(j)]
      /\ content'[Slot(w)] = arrived + 1
  BY <1>1, <1>2, <1>4 DEF TypeOK
<1>9. LiveAt(b, r)'
  <2>1. HeldCount' = HeldCount /\ ChannelCount' = ChannelCount /\ HandCount' = HandCount
    BY <1>1 DEF HeldCount, ChannelCount, HandCount
  <2>2. HeldCount \in 0..1 /\ HandCount \in 0..1 /\ ChannelCount \in Nat
    BY Counts, ChannelFacts
  <2>3. r = b + HeldCount + ChannelCount + HandCount
    BY DEF Layout, LiveAt
  <2>4. held \in Packet => IsAt(held, b)'
    <3>1. held \in Packet => b \in b..(w - 1)
      BY <1>2, <2>2, <2>3 DEF HeldCount
    <3>2. QED
      BY <1>1, <1>8, <3>1 DEF Layout, LiveAt, IsAt
  <2>5. ASSUME NEW i \in 1..ChannelCount
        PROVE  IsAt(channel[i], b + HeldCount + i - 1)'
    <3>1. b + HeldCount + i - 1 \in b..(w - 1)
      BY <1>2, <2>2, <2>3
    <3>2. IsAt(channel[i], b + HeldCount + i - 1)
      BY DEF Layout, LiveAt
    <3>3. QED
      BY <1>1, <1>8, <2>1, <3>1, <3>2 DEF IsAt
  <2>6. hand \in Packet => IsAt(hand, r - 1)'
    <3>1. hand \in Packet => r - 1 \in b..(w - 1)
      BY <1>2, <2>2, <2>3 DEF HandCount
    <3>2. QED
      BY <1>1, <1>8, <3>1 DEF Layout, LiveAt, IsAt
  <2>7. QED
    BY <1>1, <2>1, <2>3, <2>4, <2>5, <2>6 DEF LiveAt
<1>10. Ordered(b, w + 1)'
  <2>1. arrived \in Nat /\ \A d \in DOMAIN delivered : delivered[d] \in Int
    BY RingAssumption DEF TypeOK
  <2>2. \A j \in b..(w - 1) : content[Slot(j)] \in 1..arrived
    BY DEF Layout, Ordered
  <2>3. ASSUME NEW i \in b..(w - 1) \cup {w}, NEW j \in b..(w - 1) \cup {w}, i < j
        PROVE  content'[Slot(i)] < content'[Slot(j)]
    <3>1. i \in b..(w - 1)
      BY <1>2, <2>3
    <3>2. CASE j = w
      BY <1>8, <2>1, <2>2, <3>1, <3>2
    <3>3. CASE j # w
      BY <1>8, <2>3, <3>1, <3>3 DEF Layout, Ordered
    <3>4. QED
      BY <3>2, <3>3
  <2>4. \A j \in b..(w - 1) \cup {w} : content'[Slot(j)] \in 1..arrived'
    BY <1>1, <1>8, <2>1, <2>2
  <2>5. ASSUME NEW d \in DOMAIN delivered
        PROVE  /\ delivered[d] <= arrived'
               /\ \A j \in b..(w - 1) \cup {w} : delivered[d] < content'[Slot(j)]
    <3>1. delivered[d] \in Int /\ delivered[d] <= arrived
      BY <2>1 DEF Layout, Ordered
    <3>2. \A j \in b..(w - 1) : delivered[d] < content[Slot(j)]
      BY DEF Layout, Ordered
    <3>3. QED
      BY <1>1, <1>8, <2>1, <3>1, <3>2
  <2>6. InOrder'
    BY <1>1 DEF Layout, Ordered, InOrder
  <2>7. QED
    BY <1>1, <1>6, <2>3, <2>4, <2>5, <2>6 DEF Ordered
<1>11. QED
  BY <1>5, <1>7, <1>9, <1>10 DEF Layout

\* A packet is read, to the task's hand or to the scanner.
LEMMA TakeLayout ==
  ASSUME NEW b \in Nat, NEW r \in Nat, NEW w \in Nat, Layout(b, r, w),
         TypeOK, ErrorLast, r < w, NEW packet \in Readable,
         rx' = NextFrame(rx), UNCHANGED <<owner, content, head, arrived, channel, delivered>>,
         \/ hand = Nothing /\ hand' = packet /\ UNCHANGED held
         \/ held = Nothing /\ held' = packet /\ UNCHANGED hand /\ hand = Nothing /\ channel = <<>>
  PROVE  packet \in Packet /\ Layout(b, r + 1, w)'
<1>1. /\ packet.frame = Slot(r) /\ packet.pkt = content[Slot(r)]
      /\ Slot(r) \in Frames
  BY SlotType DEF Readable, Layout, Spans
<1>2. packet \in Packet
  <2>1. r \in b..(w - 1)
    BY DEF Layout, Spans
  <2>2. content[Slot(r)] \in 1..arrived
    BY <2>1 DEF Layout, Ordered
  <2>3. arrived <= MaxPackets /\ arrived \in Nat /\ MaxPackets \in Nat
    BY RingAssumption DEF TypeOK
  <2>4. content[Slot(r)] \in Captures
    BY <2>2, <2>3 DEF Captures
  <2>5. PICK vlan \in BOOLEAN : packet = [frame |-> rx, pkt |-> content[rx], owned |-> vlan]
    BY DEF Readable
  <2>6. rx = Slot(r)
    BY DEF Layout, Spans
  <2>7. QED
    BY <1>1, <2>4, <2>5, <2>6 DEF Packet
<1>3. Spans(b, r + 1, w)'
  BY SlotNext DEF Layout, Spans
<1>4. Owned(b, w)' /\ Ordered(b, w)'
  BY DEF Layout, Owned, Ordered, InOrder
<1>5. ChannelCount' = ChannelCount
  BY DEF ChannelCount
<1>6. HeldCount \in 0..1 /\ HandCount \in 0..1 /\ ChannelCount \in Nat
  BY Counts, ChannelFacts
<1>7. LiveAt(b, r + 1)'
  <2>1. CASE hand = Nothing /\ hand' = packet /\ UNCHANGED held
    <3>1. HandCount = 0 /\ HandCount' = 1 /\ HeldCount' = HeldCount
      BY <1>2, <2>1, PacketKinds DEF HandCount, HeldCount
    <3>2. r + 1 = b + HeldCount + ChannelCount + 1 /\ (r + 1) - 1 = r
      BY <1>6, <3>1 DEF Layout, LiveAt
    <3>3. IsAt(packet, r)'
      BY <1>1 DEF IsAt
    <3>4. QED
      BY <1>5, <2>1, <3>1, <3>2, <3>3 DEF Layout, LiveAt, IsAt
  <2>2. CASE held = Nothing /\ held' = packet /\ UNCHANGED hand /\ hand = Nothing /\ channel = <<>>
    <3>1. HeldCount = 0 /\ HeldCount' = 1 /\ HandCount' = 0 /\ HandCount = 0 /\ ChannelCount = 0
      BY <1>2, <2>2, PacketKinds DEF HandCount, HeldCount, ChannelCount
    <3>2. r = b
      BY <3>1 DEF Layout, LiveAt
    <3>3. IsAt(packet, b)'
      BY <1>1, <3>2 DEF IsAt
    <3>4. 1..ChannelCount' = {} /\ hand' \notin Packet
      BY <1>5, <2>2, <3>1, PacketKinds
    <3>5. QED
      BY <1>5, <2>2, <3>1, <3>2, <3>3, <3>4 DEF LiveAt
  <2>3. QED
    BY <2>1, <2>2
<1>8. QED
  BY <1>2, <1>3, <1>4, <1>7 DEF Layout
-----------------------------------------------------------------------------
\* The task's hand goes to the end of the channel.
LEMMA SendLayout ==
  ASSUME NEW b \in Nat, NEW r \in Nat, NEW w \in Nat, Layout(b, r, w),
         TypeOK, ErrorLast, task \in {"sending", "failing"}, hand # Nothing,
         channel' = Append(channel, hand), hand' = Nothing,
         UNCHANGED <<owner, content, head, arrived, rx, held, delivered>>
  PROVE  Layout(b, r, w)'
<1>1. /\ channel \in Seq(Packet \cup {Error}) /\ Len(channel) \in Nat
      /\ DOMAIN channel = 1..Len(channel) /\ hand \in Packet \cup {Error}
  BY ChannelFacts DEF TypeOK
<1>2. ChannelCount = Len(channel)
  <2>1. channel # <<>> => Len(channel) \in DOMAIN channel
    BY <1>1
  <2>2. QED
    BY <2>1 DEF ErrorLast, ChannelCount
<1>3. /\ channel' # <<>> /\ Len(channel') = Len(channel) + 1
      /\ channel'[Len(channel')] = hand
      /\ \A i \in 1..Len(channel) : channel'[i] = channel[i]
  BY <1>1
<1>4. HeldCount' = HeldCount /\ HandCount' = 0 /\ HeldCount \in 0..1
  BY Counts, PacketKinds DEF HeldCount, HandCount
<1>5. /\ r = b + HeldCount + ChannelCount + HandCount
      /\ held \in Packet => IsAt(held, b)
      /\ \A i \in 1..ChannelCount : IsAt(channel[i], b + HeldCount + i - 1)
      /\ hand \in Packet => IsAt(hand, r - 1)
  BY DEF Layout, LiveAt
<1>9. Spans(b, r, w)' /\ Owned(b, w)' /\ Ordered(b, w)'
  <2>1. arrived' \in Nat /\ arrived <= arrived'
    BY RingAssumption DEF TypeOK
  <2>2. QED
    BY <2>1, RingStays
<1>6. CASE hand \in Packet
  <2>1. HandCount = 1 /\ ChannelCount' = Len(channel) + 1
    BY <1>3, <1>6, PacketKinds DEF HandCount, ChannelCount
  <2>2. r = b + HeldCount + ChannelCount' + HandCount'
    BY <1>1, <1>2, <1>4, <1>5, <2>1
  <2>3. ASSUME NEW i \in 1..ChannelCount'
        PROVE  IsAt(channel'[i], b + HeldCount + i - 1)
    <3>1. CASE i = Len(channel) + 1
      <4>1. b + HeldCount + i - 1 = r - 1
        BY <1>1, <1>2, <1>4, <1>5, <2>1, <3>1
      <4>2. QED
        BY <1>3, <1>5, <1>6, <3>1, <4>1
    <3>2. CASE i # Len(channel) + 1
      BY <1>1, <1>2, <1>3, <1>5, <2>1, <3>2
    <3>3. QED
      BY <3>1, <3>2
  <2>4. QED
    BY <1>4, <1>5, <1>9, <2>2, <2>3, PacketKinds DEF Layout, LiveAt, IsAt
<1>7. CASE hand = Error
  <2>1. HandCount = 0 /\ ChannelCount' = Len(channel)
    BY <1>1, <1>3, <1>7, PacketKinds DEF HandCount, ChannelCount
  <2>2. \A i \in 1..ChannelCount' : IsAt(channel'[i], b + HeldCount + i - 1)
    BY <1>2, <1>3, <1>5, <2>1
  <2>3. QED
    BY <1>2, <1>4, <1>5, <1>9, <2>1, <2>2, PacketKinds DEF Layout, LiveAt, IsAt
<1>8. QED
  BY <1>1, <1>6, <1>7

\* The head of the channel goes to the scanner.
LEMMA ReceiveLayout ==
  ASSUME NEW b \in Nat, NEW r \in Nat, NEW w \in Nat, Layout(b, r, w),
         TypeOK, ErrorLast, Receive
  PROVE  Layout(b, r, w)'
<1>1. /\ held = Nothing /\ channel # <<>>
      /\ held' = (IF Head(channel) = Error THEN Nothing ELSE Head(channel))
      /\ channel' = Tail(channel)
      /\ UNCHANGED <<owner, content, head, arrived, rx, hand, delivered>>
  BY DEF Receive, kernelVars, readerVars, taskVars
<1>2. /\ channel \in Seq(Packet \cup {Error}) /\ Len(channel) \in Nat
      /\ DOMAIN channel = 1..Len(channel)
  BY ChannelFacts
<1>3. /\ Len(channel) > 0 /\ Head(channel) = channel[1]
      /\ Len(channel') = Len(channel) - 1 /\ channel' \in Seq(Packet \cup {Error})
      /\ \A i \in 1..(Len(channel) - 1) : channel'[i] = channel[i + 1]
  BY <1>1, <1>2
<1>4. HeldCount = 0 /\ HandCount' = HandCount /\ HandCount \in 0..1
  BY <1>1, Counts, PacketKinds DEF HeldCount, HandCount
<1>5. /\ r = b + HeldCount + ChannelCount + HandCount
      /\ \A i \in 1..ChannelCount : IsAt(channel[i], b + HeldCount + i - 1)
      /\ hand \in Packet => IsAt(hand, r - 1)
  BY DEF Layout, LiveAt
<1>6. Spans(b, r, w)' /\ Owned(b, w)' /\ Ordered(b, w)'
  <2>1. arrived' \in Nat /\ arrived <= arrived'
    BY <1>1, RingAssumption DEF TypeOK
  <2>2. QED
    BY <1>1, <2>1, RingStays
<1>7. CASE channel[1] = Error
  <2>1. Len(channel) = 1
    BY <1>2, <1>3, <1>7 DEF ErrorLast
  <2>2. channel' = <<>> /\ held' = Nothing
    BY <1>1, <1>3, <1>7, <2>1
  <2>3. ChannelCount = 0 /\ ChannelCount' = 0 /\ HeldCount' = 0
    BY <1>1, <1>7, <2>1, <2>2, PacketKinds DEF ChannelCount, HeldCount
  <2>4. QED
    BY <1>1, <1>4, <1>5, <1>6, <2>2, <2>3, PacketKinds DEF Layout, LiveAt, IsAt
<1>8. CASE channel[1] # Error
  <2>1. held' = channel[1] /\ channel[1] \in Packet /\ HeldCount' = 1
    BY <1>1, <1>2, <1>3, <1>8 DEF HeldCount
  <2>2. ChannelCount >= 1 /\ ChannelCount' = ChannelCount - 1
    <3>1. CASE Len(channel) = 1
      <4>1. channel' = <<>>
        BY <1>3, <3>1
      <4>2. QED
        BY <1>1, <1>8, <3>1, <4>1 DEF ChannelCount
    <3>2. CASE Len(channel) # 1
      <4>1. channel' # <<>> /\ channel'[Len(channel')] = channel[Len(channel)]
        BY <1>2, <1>3, <3>2
      <4>2. QED
        BY <1>1, <1>2, <1>3, <3>2, <4>1 DEF ChannelCount
    <3>3. QED
      BY <3>1, <3>2
  <2>3. ChannelCount \in Nat /\ ChannelCount <= Len(channel)
    BY ChannelFacts
  <2>4. r = b + HeldCount' + ChannelCount' + HandCount'
    BY <1>4, <1>5, <2>1, <2>2, <2>3
  <2>5. IsAt(held', b)
    <3>1. IsAt(channel[1], b + HeldCount + 1 - 1)
      BY <1>5, <2>2, <2>3
    <3>2. QED
      BY <1>4, <2>1, <3>1
  <2>6. ASSUME NEW i \in 1..ChannelCount'
        PROVE  IsAt(channel'[i], b + HeldCount' + i - 1)
    <3>1. i + 1 \in 1..ChannelCount /\ i \in 1..(Len(channel) - 1)
      BY <2>2, <2>3
    <3>2. IsAt(channel[i + 1], b + HeldCount + (i + 1) - 1)
      BY <1>5, <3>1
    <3>3. b + HeldCount + (i + 1) - 1 = b + HeldCount' + i - 1
      BY <1>4, <2>1, <2>2, <2>3
    <3>4. QED
      BY <1>3, <3>1, <3>2, <3>3
  <2>7. QED
    BY <1>1, <1>5, <1>6, <2>4, <2>5, <2>6 DEF Layout, LiveAt, IsAt
<1>9. QED
  BY <1>7, <1>8
-----------------------------------------------------------------------------
\* The oldest k frames go back to the kernel.
LEMMA ReleaseOldest ==
  ASSUME NEW b \in Nat, NEW r \in Nat, NEW w \in Nat, NEW k \in Nat, NEW packets,
         Spans(b, r, w), Owned(b, w), b + k <= r, TypeOK, Release(packets),
         rx' = rx, head' = head,
         \A p \in packets :
           p.frame \in Frames => \E j \in b..(b + k - 1) : p.frame = Slot(j),
         \A j \in b..(b + k - 1) : \E p \in packets : p.frame = Slot(j)
  PROVE  Spans(b + k, r, w)' /\ Owned(b + k, w)'
<1>1. b <= r /\ r <= w /\ w <= b + FrameCount /\ FrameCount \in Nat
  BY RingAssumption DEF Spans
<1>2. Spans(b + k, r, w)'
  BY <1>1 DEF Spans
<1>3. ASSUME NEW f \in Frames
      PROVE  owner'[f] = "user" <=> \E j \in (b + k)..(w - 1) : f = Slot(j)
  <2>1. owner'[f] = IF \E p \in packets : p.frame = f THEN "kernel" ELSE owner[f]
    BY DEF Release
  <2>2. (\E p \in packets : p.frame = f) <=> \E j \in b..(b + k - 1) : f = Slot(j)
    OBVIOUS
  <2>3. owner[f] = "user" <=> \E j \in b..(w - 1) : f = Slot(j)
    BY DEF Owned
  <2>4. ASSUME NEW i \in b..(b + k - 1), NEW j \in (b + k)..(w - 1)
        PROVE  Slot(i) # Slot(j)
    <3>1. i \in Nat /\ j \in Nat /\ i < j /\ j < i + FrameCount
      BY <1>1
    <3>2. QED
      BY <3>1, SlotsApart
  <2>5. b..(w - 1) = b..(b + k - 1) \cup (b + k)..(w - 1)
    BY <1>1
  <2>6. QED
    BY <2>1, <2>2, <2>3, <2>4, <2>5
<1>4. QED
  BY <1>2, <1>3 DEF Owned

\* Fewer frames are still in order.
LEMMA OrderedSuffix ==
  ASSUME NEW b \in Nat, NEW w \in Nat, NEW k \in Nat, Ordered(b, w),
         UNCHANGED <<content, arrived, delivered>>
  PROVE  Ordered(b + k, w)'
<1>1. (b + k)..(w - 1) \subseteq b..(w - 1)
  OBVIOUS
<1>2. QED
  BY <1>1 DEF Ordered, InOrder

LEMMA DropEngineLayout ==
  ASSUME NEW b \in Nat, NEW r \in Nat, NEW w \in Nat, Layout(b, r, w),
         TypeOK, ErrorLast, DropEngine
  PROVE  \E c \in Nat : Layout(c, r, w)'
<1> PICK k \in Nat : k = ChannelCount
  BY ChannelFacts
<1> PICK packets : packets = {channel[i] : i \in DOMAIN channel}
  OBVIOUS
<1>1. /\ held = Nothing /\ channel' = <<>>
      /\ Release(packets)
      /\ UNCHANGED <<content, head, arrived, rx, hand, held, delivered>>
  BY DEF DropEngine, kernelVars, readerVars, taskVars
<1>2. HeldCount = 0 /\ HeldCount' = 0 /\ HandCount' = HandCount /\ ChannelCount' = 0
  BY <1>1, PacketKinds DEF HeldCount, HandCount, ChannelCount
<1>3. HandCount \in 0..1
  BY Counts
<1>4. /\ r = b + k + HandCount
      /\ \A i \in 1..k : IsAt(channel[i], b + i - 1)
      /\ hand \in Packet => IsAt(hand, r - 1)
  BY <1>2, <1>3 DEF Layout, LiveAt
<1>5. ASSUME NEW p \in packets, p.frame \in Frames
      PROVE  \E j \in b..(b + k - 1) : p.frame = Slot(j)
  <2>1. PICK i \in DOMAIN channel : p = channel[i]
    OBVIOUS
  <2>2. p # Error
    BY <1>5 DEF Error, Frames
  <2>3. i \in 1..k
    BY <2>1, <2>2, ChannelFacts
  <2>4. p.frame = Slot(b + i - 1)
    BY <1>4, <2>1, <2>3 DEF IsAt
  <2>5. b + i - 1 \in b..(b + k - 1)
    BY <2>3
  <2>6. QED
    BY <2>4, <2>5
<1>6. ASSUME NEW j \in b..(b + k - 1)
      PROVE  \E p \in packets : p.frame = Slot(j)
  <2>1. j - b + 1 \in 1..k /\ b + (j - b + 1) - 1 = j
    OBVIOUS
  <2>2. IsAt(channel[j - b + 1], j)
    BY <1>4, <2>1
  <2>3. j - b + 1 \in DOMAIN channel
    BY <2>1, ChannelFacts
  <2>4. QED
    BY <2>2, <2>3 DEF IsAt
<1>7. b + k <= r /\ b + k \in Nat
  BY <1>3, <1>4
<1>8. Spans(b + k, r, w)' /\ Owned(b + k, w)'
  BY <1>1, <1>5, <1>6, <1>7, ReleaseOldest DEF Layout
<1>9. Ordered(b + k, w)'
  BY <1>1, OrderedSuffix DEF Layout
<1>10. LiveAt(b + k, r)'
  BY <1>1, <1>2, <1>4, PacketKinds DEF LiveAt, IsAt
<1>11. QED
  BY <1>7, <1>8, <1>9, <1>10 DEF Layout

\* The receiver is gone: the packet in the task's hand is the only one alive.
LEMMA SendFailsLayout ==
  ASSUME NEW b \in Nat, NEW r \in Nat, NEW w \in Nat, Layout(b, r, w),
         TypeOK, ErrorLast, TaskPlaced, TaskSendFails
  PROVE  \E c \in Nat : Layout(c, r, w)'
<1> PICK k \in Nat : k = HandCount
  BY Counts
<1> PICK packets : packets = {hand}
  OBVIOUS
<1>1. /\ held = Nothing /\ channel = <<>> /\ hand' = Nothing
      /\ Release(packets) /\ hand \in Packet \cup {Nothing, Error}
      /\ UNCHANGED <<content, head, arrived, rx, channel, held, delivered>>
  BY DEF TaskSendFails, TaskPlaced, kernelVars, readerVars, TypeOK
<1>2. /\ HeldCount = 0 /\ HeldCount' = 0 /\ HandCount' = 0
      /\ ChannelCount = 0 /\ ChannelCount' = 0
  BY <1>1, PacketKinds DEF HeldCount, HandCount, ChannelCount
<1>3. r = b + k /\ (hand \in Packet => IsAt(hand, b))
  <2>1. k \in 0..1 /\ (hand \in Packet => k = 1)
    BY Counts DEF HandCount
  <2>2. r = b + k /\ (hand \in Packet => IsAt(hand, r - 1))
    BY <1>2 DEF Layout, LiveAt
  <2>3. hand \in Packet => r - 1 = b
    BY <2>1, <2>2
  <2>4. QED
    BY <2>2, <2>3
<1>4. ASSUME NEW p \in packets, p.frame \in Frames
      PROVE  \E j \in b..(b + k - 1) : p.frame = Slot(j)
  <2>1. p = hand /\ hand \in Packet
    BY <1>1, <1>4 DEF Nothing, Error, Frames
  <2>2. k = 1 /\ p.frame = Slot(b)
    BY <1>3, <2>1 DEF HandCount, IsAt
  <2>3. QED
    BY <2>2
<1>5. ASSUME NEW j \in b..(b + k - 1)
      PROVE  \E p \in packets : p.frame = Slot(j)
  <2>1. k = 1 /\ hand \in Packet
    BY DEF HandCount
  <2>2. j = b /\ hand \in packets
    BY <2>1
  <2>3. QED
    BY <1>3, <2>1, <2>2 DEF IsAt
<1>6. Spans(b + k, r, w)' /\ Owned(b + k, w)'
  <2>1. b + k <= r
    BY <1>3
  <2>2. QED
    BY <1>1, <1>4, <1>5, <2>1, ReleaseOldest DEF Layout
<1>7. Ordered(b + k, w)'
  BY <1>1, OrderedSuffix DEF Layout
<1>8. LiveAt(b + k, r)'
  BY <1>1, <1>2, <1>3, PacketKinds DEF LiveAt, IsAt
<1>9. QED
  BY <1>6, <1>7, <1>8 DEF Layout

\* The scanner's packet is the oldest: it is newer than what was delivered
\* before and older than what will be.
LEMMA CopyLayout ==
  ASSUME NEW b \in Nat, NEW r \in Nat, NEW w \in Nat, Layout(b, r, w),
         TypeOK, ErrorLast, CopyAndDrop
  PROVE  Layout(b + 1, r, w)' /\ delivered' \in Seq(0..MaxPackets)
<1> PICK packets : packets = {held}
  OBVIOUS
<1> PICK c : c = content[Slot(b)]
  OBVIOUS
<1>1. /\ held \in Packet /\ held' = Nothing /\ Release(packets)
      /\ delivered' = Append(delivered, IF held.owned THEN held.pkt
                                        ELSE content[held.frame])
      /\ UNCHANGED <<content, head, arrived, rx, hand, channel>>
  BY DEF CopyAndDrop, kernelVars, readerVars, taskVars, TypeOK
<1>2. /\ HeldCount = 1 /\ HeldCount' = 0 /\ HandCount' = HandCount
      /\ ChannelCount' = ChannelCount /\ HandCount \in 0..1 /\ ChannelCount \in Nat
  BY <1>1, PacketKinds, Counts, ChannelFacts DEF HeldCount, HandCount, ChannelCount
<1>3. /\ r = b + 1 + ChannelCount + HandCount
      /\ IsAt(held, b)
      /\ \A i \in 1..ChannelCount : IsAt(channel[i], b + 1 + i - 1)
      /\ hand \in Packet => IsAt(hand, r - 1)
  BY <1>1, <1>2 DEF Layout, LiveAt
<1>4. b + 1 <= r /\ r <= w /\ b \in b..(w - 1)
  BY <1>2, <1>3 DEF Layout, Spans
<1>5. delivered' = Append(delivered, c) /\ c \in 1..arrived
  BY <1>1, <1>3, <1>4 DEF IsAt, Layout, Ordered
<1>6. Spans(b + 1, r, w)' /\ Owned(b + 1, w)'
  <2>1. b..(b + 1 - 1) = {b}
    OBVIOUS
  <2>2. \A p \in packets :
          p.frame \in Frames => \E j \in b..(b + 1 - 1) : p.frame = Slot(j)
    BY <1>3, <2>1 DEF IsAt
  <2>3. \A j \in b..(b + 1 - 1) : \E p \in packets : p.frame = Slot(j)
    BY <1>3, <2>1 DEF IsAt
  <2>4. QED
    BY <1>1, <1>4, <2>2, <2>3, ReleaseOldest DEF Layout
<1>7. LiveAt(b + 1, r)'
  BY <1>1, <1>2, <1>3, PacketKinds DEF LiveAt, IsAt
<1>8. /\ delivered \in Seq(0..MaxPackets) /\ arrived \in Nat /\ arrived <= MaxPackets
      /\ MaxPackets \in Nat
  BY RingAssumption DEF TypeOK
<1>9. /\ delivered' \in Seq(0..MaxPackets) /\ Len(delivered) \in Nat
      /\ DOMAIN delivered' = DOMAIN delivered \cup {Len(delivered) + 1}
      /\ \A d \in DOMAIN delivered :
           d < Len(delivered) + 1 /\ d \in Nat /\ delivered'[d] = delivered[d]
      /\ delivered'[Len(delivered) + 1] = c
  <2>1. c \in 0..MaxPackets /\ Len(delivered) \in Nat
    BY <1>5, <1>8
  <2>2. delivered' \in Seq(0..MaxPackets) /\ Len(delivered') = Len(delivered) + 1
    BY <1>5, <1>8, <2>1
  <2>3. /\ DOMAIN delivered = 1..Len(delivered)
        /\ DOMAIN delivered' = 1..(Len(delivered) + 1)
    BY <1>8, <2>2
  <2>4. /\ \A d \in 1..Len(delivered) : delivered'[d] = delivered[d]
        /\ delivered'[Len(delivered) + 1] = c
    BY <1>5, <1>8, <2>1
  <2>5. QED
    BY <2>1, <2>2, <2>3, <2>4
<1>10. \A j \in (b + 1)..(w - 1) :
         j \in b..(w - 1) /\ content[Slot(j)] \in 1..arrived /\ c < content[Slot(j)]
  BY <1>4 DEF Layout, Ordered
<1>11. \A d \in DOMAIN delivered :
         /\ delivered[d] \in Int /\ delivered[d] <= arrived /\ delivered[d] < c
         /\ \A j \in b..(w - 1) : delivered[d] < content[Slot(j)]
  BY <1>4, <1>8 DEF Layout, Ordered
<1>12. Ordered(b + 1, w)'
  <2>1. ASSUME NEW i \in (b + 1)..(w - 1), NEW j \in (b + 1)..(w - 1), i < j
        PROVE  content[Slot(i)] < content[Slot(j)]
    BY <1>10, <2>1 DEF Layout, Ordered
  <2>2. ASSUME NEW d \in DOMAIN delivered'
        PROVE  /\ delivered'[d] <= arrived
               /\ \A j \in (b + 1)..(w - 1) : delivered'[d] < content[Slot(j)]
    BY <1>5, <1>8, <1>9, <1>10, <1>11
  <2>3. ASSUME NEW i \in DOMAIN delivered', NEW j \in DOMAIN delivered', i < j
        PROVE  delivered'[i] < delivered'[j]
    <3>1. i \in DOMAIN delivered
      BY <1>9, <2>3
    <3>2. CASE j \in DOMAIN delivered
      BY <1>9, <2>3, <3>1, <3>2 DEF Layout, Ordered, InOrder
    <3>3. CASE j = Len(delivered) + 1
      BY <1>9, <1>11, <3>1, <3>3
    <3>4. QED
      BY <1>9, <3>2, <3>3
  <2>4. QED
    BY <1>1, <1>10, <2>1, <2>2, <2>3 DEF Ordered, InOrder
<1>13. QED
  BY <1>6, <1>7, <1>9, <1>12 DEF Layout
-----------------------------------------------------------------------------
(* The invariant.  *)

\* Each step has a layout to go to, and what it reads is a packet.
LEMMA LayoutNext ==
  ASSUME ~filled', RInv, Next
  PROVE  /\ \E b, r, w \in Nat : Layout(b, r, w)'
         /\ (TaskRead \/ ReceiveDirect) =>
              hand' \in Packet \cup {Nothing, Error} /\ held' \in Packet \cup {Nothing}
         /\ CopyAndDrop => delivered' \in Seq(0..MaxPackets)
<1> USE DEF RInv
<1>1. PICK b \in Nat, r \in Nat, w \in Nat : Layout(b, r, w)
  OBVIOUS
<1>2. TypeOK /\ ErrorLast /\ TaskPlaced
  OBVIOUS
<1>a. arrived \in Nat
  BY <1>2 DEF TypeOK
<1>b. hand \in Packet => hand # Nothing /\ hand # Error
  BY PacketKinds
<1> USE DEF kernelVars, readerVars, engineVars, taskVars
<1>3. ASSUME UNCHANGED <<owner, content, head, rx, delivered, held, channel>>,
             arrived' = arrived \/ arrived' = arrived + 1,
             hand' = hand \/ (hand \notin Packet /\ hand' \notin Packet)
      PROVE  Layout(b, r, w)'
  <2>1. arrived' \in Nat /\ arrived <= arrived'
    BY <1>3, <1>a
  <2>2. QED
    BY <1>1, <1>2, <1>3, <2>1, PacketsStay
<1>4. CASE KernelWrite
  <2>1. Layout(b, r, w + 1)'
    BY <1>1, <1>2, <1>4, KernelLayout
  <2>2. QED
    BY <1>4, <2>1 DEF KernelWrite, TaskRead, ReceiveDirect, CopyAndDrop
<1>5. CASE KernelDrop
  BY <1>3, <1>5 DEF KernelDrop, TaskRead, ReceiveDirect, CopyAndDrop, TypeOK
<1>6. CASE Start \/ StartNoBackground \/ Stop
  BY <1>2, <1>3, <1>6 DEF Start, StartNoBackground, Stop, TypeOK
<1>7. CASE DropEngine
  <2>1. PICK c \in Nat : Layout(c, r, w)'
    BY <1>1, <1>2, <1>7, DropEngineLayout
  <2>2. QED
    BY <1>7, <2>1 DEF DropEngine, TaskRead, ReceiveDirect, CopyAndDrop, TypeOK
<1>8. CASE TaskLoop \/ TaskWake \/ TaskFindsNone \/ TaskClear
  <2>1. UNCHANGED <<owner, content, head, arrived, rx, delivered, held, channel, hand>>
    BY <1>8 DEF TaskLoop, TaskWake, TaskFindsNone, TaskClear
  <2>2. Layout(b, r, w)'
    BY <1>3, <2>1
  <2>3. QED
    BY <1>2, <2>1, <2>2 DEF TypeOK
<1>9. CASE TaskFdFails \/ TaskFindsStopped
  <2>1. hand = Nothing /\ hand' = Error
    BY <1>2, <1>9 DEF TaskFdFails, TaskFindsStopped, TaskPlaced, TypeOK
  <2>2. Layout(b, r, w)'
    BY <1>3, <1>9, <2>1, PacketKinds DEF TaskFdFails, TaskFindsStopped
  <2>3. QED
    BY <1>9, <2>1, <2>2 DEF TaskFdFails, TaskFindsStopped, TypeOK, CopyAndDrop
<1>10. CASE TaskFailed
  <2>1. hand = Error /\ task = "failing"
    BY <1>2, <1>10 DEF TaskFailed, TaskPlaced
  <2>2. CASE alive
    <3>1. channel' = Append(channel, hand) /\ hand' = Nothing /\ hand # Nothing
      BY <1>10, <2>1, <2>2, PacketKinds DEF TaskFailed
    <3>2. Layout(b, r, w)'
      BY <1>1, <1>2, <1>10, <2>1, <3>1, SendLayout DEF TaskFailed
    <3>3. QED
      BY <1>10, <3>2 DEF TaskFailed, TaskRead, ReceiveDirect, CopyAndDrop
  <2>3. CASE ~alive
    <3>1. channel' = channel /\ hand' = Nothing
      BY <1>10, <2>3 DEF TaskFailed
    <3>2. Layout(b, r, w)'
      BY <1>3, <1>10, <2>1, <3>1, PacketKinds DEF TaskFailed
    <3>3. QED
      BY <1>10, <3>2 DEF TaskFailed, TaskRead, ReceiveDirect, CopyAndDrop
  <2>4. QED
    BY <2>2, <2>3
<1>11. CASE TaskRead
  <2>1. hand = Nothing
    BY <1>2, <1>11 DEF TaskRead, TaskPlaced
  <2>2. PICK packet \in Readable : Take(packet) /\ hand' = packet
    BY <1>11 DEF TaskRead
  <2>3. r < w
    BY <1>1, <1>2, <2>2, ReaderNotRound DEF Take
  <2>4. packet \in Packet /\ Layout(b, r + 1, w)'
    BY <1>1, <1>2, <1>11, <2>1, <2>2, <2>3, TakeLayout DEF Take, TaskRead
  <2>5. QED
    BY <1>2, <1>11, <2>2, <2>4 DEF TaskRead, CopyAndDrop, TypeOK
<1>12. CASE TaskSend
  <2>1. hand # Nothing /\ task = "sending"
    BY <1>2, <1>12 DEF TaskSend, TaskPlaced
  <2>2. Layout(b, r, w)'
    BY <1>1, <1>2, <1>12, <2>1, SendLayout DEF TaskSend
  <2>3. QED
    BY <1>12, <2>2 DEF TaskSend, TaskRead, ReceiveDirect, CopyAndDrop
<1>13. CASE TaskSendFails
  <2>1. PICK c \in Nat : Layout(c, r, w)'
    BY <1>1, <1>2, <1>13, SendFailsLayout
  <2>2. QED
    BY <1>2, <1>13, <2>1 DEF TaskSendFails, TaskRead, ReceiveDirect, CopyAndDrop, TypeOK
<1>14. CASE Receive
  <2>1. Layout(b, r, w)'
    BY <1>1, <1>2, <1>14, ReceiveLayout
  <2>2. QED
    BY <1>14, <2>1 DEF Receive, TaskRead, ReceiveDirect, CopyAndDrop
<1>15. CASE ReceiveDirect
  <2>1. /\ held = Nothing /\ hand = Nothing /\ channel = <<>>
        /\ UNCHANGED <<content, head, arrived, hand, channel, delivered>>
    BY <1>2, <1>15 DEF ReceiveDirect, TaskPlaced
  <2>2. PICK packet \in Readable : Take(packet) /\ held' = packet
    BY <1>15 DEF ReceiveDirect
  <2>3. r < w
    BY <1>1, <1>2, <2>2, ReaderNotRound DEF Take
  <2>4. packet \in Packet /\ Layout(b, r + 1, w)'
    BY <1>1, <1>2, <2>1, <2>2, <2>3, TakeLayout DEF Take
  <2>5. QED
    BY <1>2, <1>15, <2>1, <2>2, <2>4 DEF CopyAndDrop, TypeOK
<1>16. CASE CopyAndDrop
  <2>1. Layout(b + 1, r, w)' /\ delivered' \in Seq(0..MaxPackets)
    BY <1>1, <1>2, <1>16, CopyLayout
  <2>2. QED
    BY <1>16, <2>1 DEF CopyAndDrop, TaskRead, ReceiveDirect
<1>17. QED
  BY <1>4, <1>5, <1>6, <1>7, <1>8, <1>9, <1>10, <1>11, <1>12, <1>13, <1>14, <1>15,
     <1>16 DEF Next, Kernel, Owner, Task, Scanner

LEMMA TypeNext ==
  ASSUME ~filled', RInv, Next
  PROVE  TypeOK'
<1>1. TypeOK /\ TaskPlaced
  BY DEF RInv
<1>2. \A f \in Frames : NextFrame(f) \in Frames
  BY DivMod, RingAssumption DEF NextFrame, Frames
<1>3. arrived < MaxPackets => arrived + 1 \in 0..MaxPackets
  BY <1>1, RingAssumption DEF TypeOK
<1>4. channel \in Seq(Packet \cup {Error}) /\ Len(channel) \in Nat /\ Len(channel) <= ChannelSize
  BY <1>1 DEF TypeOK
<1>5. /\ channel # <<>> => /\ Tail(channel) \in Seq(Packet \cup {Error})
                           /\ Len(Tail(channel)) <= ChannelSize
                           /\ Head(channel) \in Packet \cup {Error}
      /\ <<>> \in Seq(Packet \cup {Error}) /\ Len(<<>>) = 0
  BY <1>4, RingAssumption
<1>6. Len(channel) < ChannelSize /\ hand \in Packet \cup {Error} =>
        /\ Append(channel, hand) \in Seq(Packet \cup {Error})
        /\ Len(Append(channel, hand)) <= ChannelSize
  BY <1>4, RingAssumption
<1>7. ASSUME NEW packets, Release(packets) PROVE owner' \in [Frames -> {"kernel", "user"}]
  BY <1>1, <1>7 DEF Release, TypeOK
<1> USE DEF kernelVars, readerVars, engineVars, taskVars
<1>8. CASE KernelWrite
  BY <1>1, <1>2, <1>3, <1>8 DEF KernelWrite, TypeOK
<1>9. CASE KernelDrop
  BY <1>1, <1>3, <1>9 DEF KernelDrop, TypeOK
<1>10. CASE Start \/ StartNoBackground \/ Stop
  BY <1>1, <1>10 DEF Start, StartNoBackground, Stop, TypeOK
<1>11. CASE DropEngine
  <2>1. owner' \in [Frames -> {"kernel", "user"}]
    BY <1>7, <1>11 DEF DropEngine
  <2>2. channel' \in Seq(Packet \cup {Error}) /\ Len(channel') <= ChannelSize
    BY <1>5, <1>11, RingAssumption DEF DropEngine
  <2>3. QED
    BY <1>1, <1>11, <2>1, <2>2 DEF DropEngine, TypeOK
<1>12. CASE TaskLoop \/ TaskWake \/ TaskFindsNone \/ TaskClear
  BY <1>1, <1>12 DEF TaskLoop, TaskWake, TaskFindsNone, TaskClear, Clear, TypeOK
<1>13. CASE TaskFdFails \/ TaskFindsStopped
  BY <1>1, <1>13 DEF TaskFdFails, TaskFindsStopped, TypeOK
<1>14. CASE TaskFailed
  <2>1. hand \in Packet \cup {Error}
    BY <1>1, <1>14 DEF TaskFailed, TaskPlaced, TypeOK
  <2>2. channel' \in Seq(Packet \cup {Error}) /\ Len(channel') <= ChannelSize
    BY <1>4, <1>6, <1>14, <2>1 DEF TaskFailed
  <2>3. QED
    BY <1>1, <1>14, <2>2 DEF TaskFailed, TypeOK
<1>15. CASE TaskRead
  <2>1. hand' \in Packet \cup {Nothing, Error} /\ rx' \in Frames /\ UNCHANGED owner
    BY <1>1, <1>2, <1>15, LayoutNext DEF TaskRead, Take, TypeOK
  <2>2. filled' \in BOOLEAN
    BY <1>15, Zenon DEF TaskRead, Take
  <2>3. QED
    BY <1>1, <1>15, <2>1, <2>2 DEF TaskRead, TypeOK
<1>16. CASE TaskSend
  <2>1. hand \in Packet \cup {Error}
    BY <1>1, <1>16 DEF TaskSend, TaskPlaced, TypeOK
  <2>2. channel' \in Seq(Packet \cup {Error}) /\ Len(channel') <= ChannelSize
    BY <1>6, <1>16, <2>1 DEF TaskSend
  <2>3. QED
    BY <1>1, <1>16, <2>2 DEF TaskSend, TypeOK
<1>17. CASE TaskSendFails
  <2>1. owner' \in [Frames -> {"kernel", "user"}]
    BY <1>7, <1>17 DEF TaskSendFails
  <2>2. QED
    BY <1>1, <1>17, <2>1 DEF TaskSendFails, TypeOK
<1>18. CASE Receive
  BY <1>1, <1>5, <1>18 DEF Receive, TypeOK
<1>19. CASE ReceiveDirect
  <2>1. held' \in Packet \cup {Nothing} /\ rx' \in Frames /\ UNCHANGED owner
    BY <1>1, <1>2, <1>19, LayoutNext DEF ReceiveDirect, Take, TypeOK
  <2>2. filled' \in BOOLEAN
    BY <1>19, Zenon DEF ReceiveDirect, Take
  <2>3. QED
    BY <1>1, <1>19, <2>1, <2>2 DEF ReceiveDirect, TypeOK
<1>20. CASE CopyAndDrop
  <2>1. delivered' \in Seq(0..MaxPackets) /\ owner' \in [Frames -> {"kernel", "user"}]
    BY <1>7, <1>20, LayoutNext DEF CopyAndDrop
  <2>2. QED
    BY <1>1, <1>20, <2>1 DEF CopyAndDrop, TypeOK
<1>21. QED
  BY <1>8, <1>9, <1>10, <1>11, <1>12, <1>13, <1>14, <1>15, <1>16, <1>17, <1>18, <1>19,
     <1>20 DEF Next, Kernel, Owner, Task, Scanner

LEMMA TaskNext ==
  ASSUME TypeOK, TaskPlaced, ErrorLast, Next
  PROVE  TaskPlaced' /\ ErrorLast'
<1>1. /\ channel \in Seq(Packet \cup {Error}) /\ Len(channel) \in Nat
      /\ DOMAIN channel = 1..Len(channel)
  BY ChannelFacts
<1>2. hand \in Packet \cup {Nothing, Error}
  BY PacketKinds DEF TypeOK
<1> USE DEF kernelVars, readerVars, engineVars, taskVars, TaskPlaced
<1>3. CASE Kernel
  BY <1>3 DEF Kernel, KernelWrite, KernelDrop, ErrorLast
<1>4. CASE Start \/ StartNoBackground \/ Stop
  <2>1. Start \/ StartNoBackground => hand = Nothing /\ channel = <<>> /\ DOMAIN channel = {}
    BY <1>1 DEF Start, StartNoBackground
  <2>2. TaskPlaced'
    BY <1>4, <2>1, PacketKinds DEF Start, StartNoBackground, Stop
  <2>3. ErrorLast'
    BY <1>4, <2>1 DEF Start, StartNoBackground, Stop, ErrorLast
  <2>4. QED
    BY <2>2, <2>3
<1>13. CASE DropEngine
  <2>1. channel' = <<>> /\ DOMAIN channel' = {}
    BY <1>13 DEF DropEngine
  <2>2. TaskPlaced'
    BY <1>13, <2>1 DEF DropEngine
  <2>3. QED
    BY <2>1, <2>2 DEF ErrorLast
<1>5. CASE TaskLoop \/ TaskWake \/ TaskFindsNone \/ TaskClear
  BY <1>5 DEF TaskLoop, TaskWake, TaskFindsNone, TaskClear, ErrorLast
<1>6. CASE TaskFdFails \/ TaskFindsStopped
  BY <1>6, PacketKinds DEF TaskFdFails, TaskFindsStopped, ErrorLast
<1>7. CASE TaskFailed \/ TaskSend
  <2>1. TaskPlaced'
    BY <1>7, PacketKinds DEF TaskFailed, TaskSend
  <2>2. \A i \in DOMAIN channel : channel[i] # Error
    BY <1>7 DEF TaskFailed, TaskSend, ErrorLast
  <2>3. ASSUME channel' = Append(channel, hand)
        PROVE  /\ DOMAIN channel' = 1..(Len(channel) + 1) /\ Len(channel') = Len(channel) + 1
               /\ \A i \in 1..Len(channel) : channel'[i] # Error
               /\ channel'[Len(channel) + 1] = hand
    BY <1>1, <2>2, <2>3
  <2>4. ASSUME TaskFailed PROVE ErrorLast'
    <3>1. ~running' /\ task' = "none"
      BY <2>4 DEF TaskFailed
    <3>2. CASE channel' = Append(channel, hand)
      <4>1. ASSUME NEW i \in DOMAIN channel', channel'[i] = Error
            PROVE  i = Len(channel')
        BY <1>1, <2>3, <3>2, <4>1
      <4>2. QED
        BY <3>1, <4>1 DEF ErrorLast
    <3>3. CASE channel' = channel
      <4>1. \A i \in DOMAIN channel' : channel'[i] # Error
        BY <2>2, <3>3
      <4>2. QED
        BY <4>1 DEF ErrorLast
    <3>4. QED
      BY <2>4, <3>2, <3>3 DEF TaskFailed
  <2>5. ASSUME TaskSend PROVE ErrorLast'
    <3>1. hand = Error => ~running' /\ task' = "clearing"
      BY <2>5 DEF TaskSend
    <3>2. channel' = Append(channel, hand)
      BY <2>5 DEF TaskSend
    <3>3. QED
      BY <1>1, <2>3, <3>1, <3>2 DEF ErrorLast
  <2>6. QED
    BY <1>7, <2>1, <2>4, <2>5
<1>8. CASE TaskRead
  <2>1. hand' # Nothing /\ hand' # Error
    <3>1. PICK vlan \in BOOLEAN : hand' = [frame |-> rx, pkt |-> content[rx], owned |-> vlan]
      BY <1>8 DEF TaskRead, Readable
    <3>2. hand'.frame = rx /\ rx # -1
      BY <3>1, RingAssumption DEF TypeOK, Frames
    <3>3. QED
      BY <3>2 DEF Nothing, Error
  <2>2. QED
    BY <1>8, <2>1 DEF TaskRead, ErrorLast
<1>9. CASE TaskSendFails
  BY <1>9 DEF TaskSendFails, ErrorLast
<1>10. CASE Receive
  <2>1. /\ channel # <<>> /\ channel' = Tail(channel)
        /\ UNCHANGED <<running, alive, mode, task, hand>>
    BY <1>10 DEF Receive
  <2>2. /\ Len(channel') = Len(channel) - 1 /\ DOMAIN channel' = 1..(Len(channel) - 1)
        /\ \A i \in 1..(Len(channel) - 1) : channel'[i] = channel[i + 1]
        /\ \A i \in 1..(Len(channel) - 1) : i + 1 \in DOMAIN channel
    BY <1>1, <2>1
  <2>3. ErrorLast'
    BY <1>1, <2>1, <2>2 DEF ErrorLast
  <2>4. QED
    BY <1>10, <2>1, <2>3 DEF Receive
<1>11. CASE ReceiveDirect \/ CopyAndDrop
  BY <1>11 DEF ReceiveDirect, CopyAndDrop, ErrorLast
<1>12. QED
  BY <1>3, <1>4, <1>5, <1>6, <1>7, <1>8, <1>9, <1>10, <1>11, <1>13
     DEF Next, Kernel, Owner, Task, Scanner

LEMMA RInvInit == Init => RInv
<1> SUFFICES ASSUME Init PROVE RInv
  OBVIOUS
<1>1. 0 \in Frames /\ 0 \in 0..MaxPackets /\ ChannelSize \in Nat
  BY RingAssumption DEF Frames
<1>2. TypeOK
  BY <1>1 DEF Init, TypeOK
<1>3. TaskPlaced /\ ErrorLast
  BY PacketKinds DEF Init, TaskPlaced, ErrorLast
<1>4. QED
  BY <1>2, <1>3, LayoutInit DEF RInv

LEMMA RInvNext ==
  ASSUME ~filled', RInv, [Next]_vars
  PROVE  RInv'
<1>1. CASE Next
  <2>1. TypeOK /\ TaskPlaced /\ ErrorLast
    BY DEF RInv
  <2>2. TypeOK'
    BY <1>1, TypeNext
  <2>3. TaskPlaced' /\ ErrorLast'
    BY <1>1, <2>1, TaskNext
  <2>4. \E b, r, w \in Nat : Layout(b, r, w)'
    BY <1>1, LayoutNext
  <2>5. QED
    BY <2>2, <2>3, <2>4 DEF RInv
<1>2. CASE UNCHANGED vars
  <2>1. TypeOK' /\ TaskPlaced' /\ ErrorLast'
    BY <1>2 DEF vars, RInv, TypeOK, TaskPlaced, ErrorLast
  <2>2. PICK b \in Nat, r \in Nat, w \in Nat : Layout(b, r, w)
    BY DEF RInv
  <2>3. arrived' \in Nat /\ arrived <= arrived'
    BY <1>2, RingAssumption DEF vars, RInv, TypeOK
  <2>4. Layout(b, r, w)'
    BY <1>2, <2>2, <2>3, PacketsStay DEF vars, RInv
  <2>5. QED
    BY <2>1, <2>4 DEF RInv
<1>3. QED
  BY <1>1, <1>2
-----------------------------------------------------------------------------
(* What the layout says of the packets and of the frames.  *)

LEMMA UnreadFrames ==
  ASSUME NEW b \in Nat, NEW r \in Nat, NEW w \in Nat, Layout(b, r, w),
         TypeOK, ErrorLast
  PROVE  Unread = {Slot(j) : j \in r..(w - 1)}
<1>1. b <= r /\ r <= w /\ w <= b + FrameCount /\ FrameCount \in Nat
  BY RingAssumption DEF Layout, Spans
<1>2. HeldFrames = {Slot(j) : j \in b..(r - 1)}
  BY LivePackets DEF HeldFrames, IsAt
<1>3. {f \in Frames : owner[f] = "user"} = {Slot(j) : j \in b..(w - 1)}
  <2>1. \A j \in b..(w - 1) : j \in Nat /\ Slot(j) \in Frames
    BY SlotType
  <2>2. QED
    BY <2>1 DEF Layout, Owned
<1>4. b..(w - 1) = b..(r - 1) \cup r..(w - 1)
  BY <1>1
<1>5. ASSUME NEW i \in b..(r - 1), NEW j \in r..(w - 1)
      PROVE  Slot(i) # Slot(j)
  <2>1. i \in Nat /\ j \in Nat /\ i < j /\ j < i + FrameCount
    BY <1>1
  <2>2. QED
    BY <2>1, SlotsApart
<1>6. QED
  BY <1>2, <1>3, <1>4, <1>5 DEF Unread

\* As many frames as numbers.
LEMMA SlotsCounted ==
  ASSUME NEW r \in Nat, NEW w \in Nat, r <= w, w <= r + FrameCount
  PROVE  Cardinality({Slot(j) : j \in r..(w - 1)}) = w - r
<1> DEFINE S == {Slot(j) : j \in r..(w - 1)}
           F == [j \in r..(w - 1) |-> Slot(j)]
<1>1. F \in [r..(w - 1) -> S] /\ \A t \in S : \E j \in r..(w - 1) : F[j] = t
  OBVIOUS
<1>2. ASSUME NEW i \in r..(w - 1), NEW j \in r..(w - 1), F[i] = F[j]
      PROVE  i = j
  <2>1. i \in Nat /\ j \in Nat /\ j < i + FrameCount /\ i < j + FrameCount
    BY RingAssumption
  <2>2. Slot(i) = Slot(j)
    BY <1>2
  <2>3. QED
    BY <2>1, <2>2, SlotsApart
<1>3. F \in Bijection(r..(w - 1), S)
  BY <1>1, <1>2, Fun_IsBij
<1>4. ExistsBijection(r..(w - 1), S)
  BY <1>3, Fun_ExistsBij
<1>5. IsFiniteSet(r..(w - 1)) /\ Cardinality(r..(w - 1)) = w - r
  <2>1. r \in Int /\ w - 1 \in Int
    OBVIOUS
  <2>2. /\ IsFiniteSet(r..(w - 1))
        /\ Cardinality(r..(w - 1)) = IF r > w - 1 THEN 0 ELSE (w - 1) - r + 1
    BY <2>1, FS_Interval
  <2>3. QED
    BY <2>2
<1>6. Cardinality(S) = Cardinality(r..(w - 1))
  BY <1>4, <1>5, FS_Bijection
<1>7. QED
  BY <1>5, <1>6

LEMMA RInvSays ==
  ASSUME RInv
  PROVE  HeldFramesKept /\ DeliveredInOrder /\ NoHoles
<1>1. TypeOK /\ ErrorLast
  BY DEF RInv
<1>2. PICK b \in Nat, r \in Nat, w \in Nat : Layout(b, r, w)
  BY DEF RInv
<1>3. b <= r /\ r <= w /\ w <= b + FrameCount /\ FrameCount \in Nat \ {0}
  BY <1>2, RingAssumption DEF Layout, Spans
<1>4. HeldFramesKept
  <2>1. ASSUME NEW packet \in Alive
        PROVE  owner[packet.frame] = "user" /\ content[packet.frame] = packet.pkt
    <3>1. PICK j \in b..(r - 1) : IsAt(packet, j)
      BY <1>1, <1>2, LivePackets
    <3>2. j \in b..(w - 1) /\ Slot(j) \in Frames
      BY <1>3, SlotType
    <3>3. owner[Slot(j)] = "user"
      BY <1>2, <3>2 DEF Layout, Owned
    <3>4. QED
      BY <3>1, <3>3 DEF IsAt
  <2>2. QED
    BY <2>1 DEF HeldFramesKept
<1>5. DeliveredInOrder
  BY <1>2 DEF Layout, Ordered, InOrder, DeliveredInOrder
<1>6. NoHoles
  <2> PICK n \in Nat : n = w - r
    BY <1>3
  <2>1. Unread = {Slot(j) : j \in r..(w - 1)}
    BY <1>1, <1>2, UnreadFrames
  <2>2. Cardinality(Unread) = n
    BY <1>3, <2>1, SlotsCounted
  <2>3. \A i \in Nat : (rx + i) % FrameCount = Slot(r + i)
    BY <1>2, <1>3, ModPlus DEF Layout, Spans, Slot
  <2>4. {(rx + i) % FrameCount : i \in 0..(n - 1)} = {Slot(j) : j \in r..(w - 1)}
    <3>1. \A i \in 0..(n - 1) :
            r + i \in r..(w - 1) /\ (rx + i) % FrameCount = Slot(r + i)
      BY <2>3
    <3>2. \A j \in r..(w - 1) : j - r \in 0..(n - 1) /\ r + (j - r) = j
      OBVIOUS
    <3>3. \A j \in r..(w - 1) : \E i \in 0..(n - 1) : (rx + i) % FrameCount = Slot(j)
      BY <3>1, <3>2
    <3>4. QED
      BY <3>1, <3>3
  <2>5. head = (rx + n) % FrameCount
    <3>1. r + n = w
      BY <1>3
    <3>2. QED
      BY <1>2, <2>3, <3>1 DEF Layout, Spans
  <2>6. QED
    BY <2>1, <2>2, <2>4, <2>5 DEF NoHoles
<1>7. QED
  BY <1>4, <1>5, <1>6
-----------------------------------------------------------------------------
\* Once every frame has been held, the condition is lost for good.
LEMMA FilledStays == [Next]_vars => (~filled' => ~filled)
<1> SUFFICES ASSUME [Next]_vars, ~filled' PROVE ~filled
  OBVIOUS
<1> USE DEF kernelVars, readerVars, engineVars, taskVars
<1>1. CASE UNCHANGED vars
  BY <1>1 DEF vars
<1>2. CASE Kernel \/ Owner
  BY <1>2 DEF Kernel, KernelWrite, KernelDrop, Owner, Start,
     StartNoBackground, Stop, DropEngine
<1>3. CASE (Task /\ ~TaskRead) \/ TaskFdFails
  BY <1>3 DEF Task, TaskLoop, TaskWake, TaskFailed, TaskFindsNone,
     TaskFindsStopped, TaskSend, TaskSendFails, TaskClear, TaskFdFails
<1>4. CASE TaskRead \/ ReceiveDirect
  BY <1>4 DEF TaskRead, ReceiveDirect, Take
<1>5. CASE Receive \/ CopyAndDrop
  BY <1>5 DEF Receive, CopyAndDrop
<1>6. QED
  BY <1>1, <1>2, <1>3, <1>4, <1>5 DEF Next, Task, Scanner

LEMMA IInvHolds == Spec => []IInv
<1>1. Init => IInv
  BY RInvInit DEF IInv
<1>2. IInv /\ [Next]_vars => IInv'
  BY FilledStays, RInvNext DEF IInv
<1>3. QED
  BY <1>1, <1>2, PTL DEF Spec

LEMMA IInvSays == IInv => HeldFramesKept /\ DeliveredInOrder /\ NoHoles
<1>1. CASE filled
  BY <1>1 DEF HeldFramesKept, DeliveredInOrder, NoHoles
<1>2. CASE ~filled
  BY <1>2, RInvSays DEF IInv
<1>3. QED
  BY <1>1, <1>2

\* Whatever the sizes of the ring and of the channel: until live packets hold
\* every frame of the ring, the kernel never writes into a frame whose packet is
\* alive, in the scanner's hands, in the channel or in the background task's,
\* however many packets arrive.  (HeldFramesKept)
THEOREM FramesKept == Spec => []HeldFramesKept
BY IInvHolds, IInvSays, PTL

\* Until then the scanner sees each packet once, in the order of arrival: the
\* reader cannot lap the packets still alive.  (DeliveredInOrder)
THEOREM SeenOnce == Spec => []DeliveredInOrder
BY IInvHolds, IInvSays, PTL

\* And the frames that wait lie between rx and head without a hole, across the
\* end of the ring: the reader never stops before a frame of the kernel while
\* packets wait behind it.  (NoHoles)
THEOREM ReaderNeverStuck == Spec => []NoHoles
BY IInvHolds, IInvSays, PTL
=============================================================================
