---------------------------- MODULE SampleProofs ----------------------------
(* The samples that MmtDemuxer makes and their times, for every broadcast   *)
(* that is in order (OnAirAssumption), wherever reception begins and        *)
(* whatever is lost: TimesInv is inductive on top of ReceptionInv.  First   *)
(* what a broadcast in order says of its units and packets; then what one   *)
(* unit, and all units of a packet, make of the fields of the stream        *)
(* (UnitsRead); at last each step.                                          *)
EXTENDS ReceiverProofs, FiniteSetTheorems, WellFoundedInduction

(* What a packet is read as is defined by what it was before each unit.     *)
LEMMA ReadingsDefined ==
    ASSUME NEW s, NEW p, p.first \in Nat \ {0}, p.last \in Nat, p.first - 1 <= p.last
    PROVE  LET read == Readings(s, p) IN
           /\ read[p.first - 1] = Reading(s)
           /\ \A k \in p.first .. p.last : read[k] = ReadUnit(read[k - 1], p.mpu, k)
<1> DEFINE b == p.first - 1
           Step(g, k) == [j \in b .. k |->
                             IF j = b THEN Reading(s) ELSE ReadUnit(g[j - 1], p.mpu, j)]
           T == {k \in b .. p.last : ~\E g : g = Step(g, k)}
<1>1. b \in Nat /\ p.last \in Nat /\ b <= p.last /\ T \subseteq Nat
      OBVIOUS
<1>2. T = {}
  <2>1. SUFFICES ASSUME T # {} PROVE FALSE
        OBVIOUS
  <2>2. PICK k \in T : \A j \in T : ~(<<j, k>> \in OpToRel(<, Nat))
        BY <1>1, <2>1, NatLessThanWellFounded, WFMin
  <2>3. \A j \in T : ~(j < k)
        BY <1>1, <2>2 DEF OpToRel
  <2>4. k \in b .. p.last /\ ~\E g : g = Step(g, k)
        OBVIOUS
  <2>5. CASE k = b
    <3>1. \E g : g = [j \in b .. k |-> Reading(s)]
          OBVIOUS
    <3>2. \A g : g = [j \in b .. k |-> Reading(s)] => g = Step(g, k)
          BY <1>1, <2>5
    <3>3. QED
          BY <2>4, <3>1, <3>2
  <2>6. CASE k # b
    <3>1. k - 1 \in b .. p.last /\ k - 1 < k /\ k \in Nat
          BY <1>1, <2>4, <2>6
    <3>2. k - 1 \notin T
          BY <2>3, <3>1
    <3>3. \E g : g = Step(g, k - 1)
          BY <3>1, <3>2
    <3>4. PICK g : g = Step(g, k - 1)
          BY <3>3
    <3> DEFINE h == [j \in b .. k |-> IF j = k THEN ReadUnit(g[k - 1], p.mpu, k) ELSE g[j]]
    <3>5. \A j \in b .. k - 1 : h[j] = g[j]
          BY <1>1, <3>1
    <3>6. ASSUME NEW j \in b .. k
          PROVE  h[j] = IF j = b THEN Reading(s) ELSE ReadUnit(h[j - 1], p.mpu, j)
      <4>1. CASE j = k
        <5>1. h[j] = ReadUnit(g[k - 1], p.mpu, k) /\ h[k - 1] = g[k - 1]
              BY <1>1, <2>6, <3>1, <3>5, <4>1
        <5>2. QED
              BY <2>6, <4>1, <5>1
      <4>2. CASE j # k
        <5>1. j \in b .. k - 1 /\ h[j] = g[j]
              BY <1>1, <3>1, <4>2
        <5>2. g[j] = IF j = b THEN Reading(s) ELSE ReadUnit(g[j - 1], p.mpu, j)
              BY <3>4, <5>1
        <5>3. j # b => h[j - 1] = g[j - 1]
              BY <1>1, <3>1, <3>5, <5>1
        <5> HIDE DEF h
        <5>4. QED
              BY <5>1, <5>2, <5>3
      <4>3. QED
            BY <4>1, <4>2
    <3>7. h = [j \in b .. k |-> h[j]]
          OBVIOUS
    <3> HIDE DEF h
    <3>8. h = Step(h, k)
          BY <3>6, <3>7
    <3>9. QED
          BY <2>4, <3>8
  <2>7. QED
        BY <2>5, <2>6
<1>3. \E g : g = Step(g, p.last)
  <2>1. p.last \in b .. p.last
        BY <1>1
  <2>2. p.last \notin T
        BY <1>2
  <2>3. QED
        BY <2>1, <2>2
<1>4. {b} \cup Contents(p) = b .. p.last
      BY <1>1 DEF Contents
<1>5. Readings(s, p) = CHOOSE g : g = Step(g, p.last)
      BY <1>4 DEF Readings
<1> DEFINE read == Readings(s, p)
<1>6. read = Step(read, p.last)
      BY <1>3, <1>5
<1> HIDE DEF read
<1>7. /\ read[b] = Reading(s)
      /\ \A k \in p.first .. p.last : read[k] = ReadUnit(read[k - 1], p.mpu, k)
      BY <1>1, <1>6
<1>8. QED
      BY <1>7 DEF read

-----------------------------------------------------------------------------
(* The units and packets of a broadcast (OnAirAssumption).                  *)
Units == DOMAIN broadcast.nals

BeginsAt(k) == broadcast.type = "mp4a" \/ Delimiter(k)

\* Unit j comes before unit k, in another access unit.
Before(j, k) == Mpu(j) < Mpu(k) \/ (Mpu(j) = Mpu(k) /\ Au(j) < Au(k))

LEMMA UnitsOnAir ==
    ASSUME broadcast \in Broadcasts
    PROVE  /\ broadcast.type \in {"hev1", "mp4a"} /\ broadcast.aus \in Nat \ {0}
           /\ Len(broadcast.nals) \in Nat /\ Units = 1 .. Len(broadcast.nals)
           /\ \A k \in Units :
                 /\ k \in Nat \ {0} /\ Mpu(k) \in Nat /\ Au(k) \in Nat
                 /\ Delimiter(k) \in BOOLEAN /\ Au(k) < broadcast.aus
                 /\ k = 1 => BeginsAt(k) /\ Au(k) = 0
                 /\ k > 1 => k - 1 \in Units
                 /\ k > 1 /\ ~BeginsAt(k) => Mpu(k) = Mpu(k - 1) /\ Au(k) = Au(k - 1)
                 /\ k > 1 /\ BeginsAt(k) =>
                       /\ ~Delimiter(k - 1)
                       /\ \/ Mpu(k) = Mpu(k - 1) /\ Au(k) = Au(k - 1) + 1
                          \/ Mpu(k) = Mpu(k - 1) + 1 /\ Au(k) = 0
           /\ \A j, k \in Units :
                 j < k => Mpu(j) < Mpu(k) \/ (Mpu(j) = Mpu(k) /\ Au(j) <= Au(k))
<1>1. broadcast.type \in {"hev1", "mp4a"} /\ broadcast.aus \in Nat \ {0}
      /\ broadcast.nals \in Seq(NalUnits)
      BY MmtAssumption DEF MmtAssumption
<1>2. UnitsInOrder(broadcast)
      BY OnAirAssumption DEF OnAirAssumption
<1>3. Len(broadcast.nals) \in Nat /\ Units = 1 .. Len(broadcast.nals)
      BY <1>1 DEF Units
<1>4. ASSUME NEW k \in Units
      PROVE  /\ k \in Nat \ {0} /\ Mpu(k) \in Nat /\ Au(k) \in Nat
             /\ Delimiter(k) \in BOOLEAN /\ (k > 1 => k - 1 \in Units)
  <2>1. broadcast.nals[k] \in NalUnits
        BY <1>1 DEF Units
  <2>2. QED
        BY <1>3, <2>1 DEF NalUnits, Mpu, Au, Delimiter
<1>5. ASSUME NEW k \in Units
      PROVE  /\ Au(k) < broadcast.aus
             /\ k = 1 => BeginsAt(k) /\ Au(k) = 0
             /\ k > 1 /\ ~BeginsAt(k) => Mpu(k) = Mpu(k - 1) /\ Au(k) = Au(k - 1)
             /\ k > 1 /\ BeginsAt(k) =>
                   /\ ~Delimiter(k - 1)
                   /\ \/ Mpu(k) = Mpu(k - 1) /\ Au(k) = Au(k - 1) + 1
                      \/ Mpu(k) = Mpu(k - 1) + 1 /\ Au(k) = 0
  <2>1. /\ broadcast.nals[k].au < broadcast.aus
        /\ k = 1 => Begins(broadcast, k) /\ broadcast.nals[k].au = 0
        /\ k > 1 => IF Begins(broadcast, k)
                    THEN /\ ~broadcast.nals[k - 1].delimiter
                         /\ Unit(broadcast, k) \in Successors(Unit(broadcast, k - 1))
                    ELSE Unit(broadcast, k) = Unit(broadcast, k - 1)
        BY <1>2 DEF UnitsInOrder, Units
  <2>2. Begins(broadcast, k) <=> BeginsAt(k)
        BY DEF Begins, BeginsAt, Delimiter
  <2>3. \A j : /\ Unit(broadcast, j).mpu = Mpu(j) /\ Unit(broadcast, j).au = Au(j)
               /\ broadcast.nals[j].delimiter = Delimiter(j)
        BY DEF Unit, Mpu, Au, Delimiter
  <2>4. k > 1 /\ ~BeginsAt(k) => Mpu(k) = Mpu(k - 1) /\ Au(k) = Au(k - 1)
        BY <2>1, <2>2, <2>3
  <2>5. Unit(broadcast, k) \in Successors(Unit(broadcast, k - 1)) =>
           \/ Mpu(k) = Mpu(k - 1) /\ Au(k) = Au(k - 1) + 1
           \/ Mpu(k) = Mpu(k - 1) + 1 /\ Au(k) = 0
        BY <2>3 DEF Successors
  <2>6. QED
        BY <2>1, <2>2, <2>3, <2>4, <2>5 DEF Au
<1>6. \A j, k \in Units :
         j < k => Mpu(j) < Mpu(k) \/ (Mpu(j) = Mpu(k) /\ Au(j) <= Au(k))
      BY <1>2 DEF UnitsInOrder, Units, Mpu, Au
<1>7. QED
      BY <1>1, <1>3, <1>4, <1>5, <1>6

\* Later units are of the same access unit, of a later one or of a later MPU.
LEMMA UnitsGrow ==
    ASSUME broadcast \in Broadcasts, NEW j \in Units, NEW k \in Units
    PROVE  /\ j \in Nat \ {0} /\ k \in Nat \ {0}
           /\ Mpu(j) \in Nat /\ Mpu(k) \in Nat /\ Au(j) \in Nat /\ Au(k) \in Nat
           /\ j <= k => Mpu(j) < Mpu(k) \/ (Mpu(j) = Mpu(k) /\ Au(j) <= Au(k))
<1>1. /\ j \in Nat \ {0} /\ k \in Nat \ {0}
      /\ Mpu(j) \in Nat /\ Mpu(k) \in Nat /\ Au(j) \in Nat /\ Au(k) \in Nat
      BY UnitsOnAir
<1>2. CASE j = k
      BY <1>1, <1>2
<1>3. CASE j # k
  <2>1. j < k => Mpu(j) < Mpu(k) \/ (Mpu(j) = Mpu(k) /\ Au(j) <= Au(k))
        BY UnitsOnAir
  <2>2. QED
        BY <1>1, <1>3, <2>1
<1>4. QED
      BY <1>2, <1>3

\* Where an access unit begins, all before it are others than all that follow.
LEMMA UnitsDiffer ==
    ASSUME broadcast \in Broadcasts, NEW k \in Units, BeginsAt(k),
           NEW i \in Units, i < k, NEW j \in Units, k <= j
    PROVE  Before(i, j)
<1>1. /\ k > 1 /\ k - 1 \in Units /\ i \in Nat /\ k \in Nat /\ j \in Nat
      /\ Mpu(i) \in Nat /\ Au(i) \in Nat /\ Mpu(k) \in Nat /\ Au(k) \in Nat
      /\ Mpu(j) \in Nat /\ Au(j) \in Nat /\ Mpu(k - 1) \in Nat /\ Au(k - 1) \in Nat
      BY UnitsOnAir
<1>2. \/ Mpu(k) = Mpu(k - 1) /\ Au(k) = Au(k - 1) + 1
      \/ Mpu(k) = Mpu(k - 1) + 1 /\ Au(k) = 0
      BY <1>1, UnitsOnAir
<1>3. Mpu(i) < Mpu(k - 1) \/ (Mpu(i) = Mpu(k - 1) /\ Au(i) <= Au(k - 1))
  <2>1. i <= k - 1 /\ k - 1 \in Units
        BY <1>1
  <2>2. QED
        BY <2>1, UnitsGrow
<1>4. Mpu(k) < Mpu(j) \/ (Mpu(k) = Mpu(j) /\ Au(k) <= Au(j))
      BY UnitsGrow
<1>5. QED
      BY <1>1, <1>2, <1>3, <1>4 DEF Before

\* The packets of a broadcast, and the units each carries.
LEMMA PacketsInTurn ==
    ASSUME broadcast \in Broadcasts, NEW n \in DOMAIN broadcast.packets
    PROVE  LET p == Packet(n)
               q == Packet(n - 1)
           IN  /\ n \in Nat \ {0} /\ p.mpu \in Nat /\ p.kind \in MpuKinds
               /\ p.first \in Nat \ {0} /\ p.last \in Nat /\ p.first - 1 <= p.last
               /\ p.last <= Len(broadcast.nals)
               /\ p.kind = "Metadata" => p.last = p.first - 1
               /\ p.kind # "Metadata" => p.first <= p.last
               /\ p.kind \in {"FragmentHead", "FragmentBody", "FragmentTail"} =>
                     p.first = p.last
               /\ \A k \in p.first .. p.last : k \in Units /\ Mpu(k) = p.mpu
               /\ n = 1 => p.first = 1 /\ p.kind \notin {"FragmentBody", "FragmentTail"}
               /\ n > 1 =>
                     /\ n - 1 \in DOMAIN broadcast.packets
                     /\ p.mpu \in {q.mpu, q.mpu + 1}
                     /\ p.first = IF Unfinished(n - 1) THEN q.first ELSE q.last + 1
                     /\ Unfinished(n - 1) <=> p.kind \in {"FragmentBody", "FragmentTail"}
<1> DEFINE p == Packet(n)
           q == Packet(n - 1)
<1>1. /\ n \in Nat \ {0} /\ p \in Packets /\ p.kind \in MpuKinds
      /\ p.aggregated \in BOOLEAN /\ (p.aggregated => p.kind = "NotFragmented")
      /\ n > 1 => n - 1 \in DOMAIN broadcast.packets
      BY PacketsOnAir
<1>2. PacketsInOrder(broadcast)
      BY OnAirAssumption DEF OnAirAssumption
<1>3. /\ p.last <= Len(broadcast.nals)
      /\ IF p.kind = "Metadata" THEN p.last = p.first - 1 ELSE p.first <= p.last
      /\ p.kind # "Metadata" /\ ~p.aggregated => p.first = p.last
      /\ \A k \in p.first .. p.last : broadcast.nals[k].mpu = p.mpu
      /\ n = 1 => p.first = 1 /\ p.kind \notin {"FragmentBody", "FragmentTail"}
      /\ n > 1 => /\ p.mpu \in {q.mpu, q.mpu + 1}
                  /\ p.first = IF q.kind \in {"FragmentHead", "FragmentBody"}
                               THEN q.first ELSE q.last + 1
      BY <1>2 DEF PacketsInOrder, Packet
<1>4. p.mpu \in Nat /\ p.first \in Nat \ {0} /\ p.last \in Nat
      BY <1>1 DEF Packets
<1>5. p.first - 1 <= p.last
      BY <1>3, <1>4
<1>6. p.kind \in {"FragmentHead", "FragmentBody", "FragmentTail"} => p.first = p.last
      BY <1>1, <1>3
<1>7. \A k \in p.first .. p.last : k \in Units /\ Mpu(k) = p.mpu
      BY <1>3, <1>4, UnitsOnAir DEF Mpu
<1>8. n > 1 => (Unfinished(n - 1) <=> p.kind \in {"FragmentBody", "FragmentTail"})
  <2>1. n > 1 => (n - 1) + 1 = n
        BY <1>1
  <2>2. QED
        BY <1>1, <2>1, PacketsOnAir
<1>9. n > 1 => p.first = IF Unfinished(n - 1) THEN q.first ELSE q.last + 1
      BY <1>3 DEF Unfinished
<1> HIDE DEF p, q
<1>10. QED
      BY <1>1, <1>3, <1>4, <1>5, <1>6, <1>7, <1>8, <1>9 DEF p, q

\* The units up to the end of a packet belong to no later MPU than the packet, and
\* to none before the first.
LEMMA UnitsSoFar ==
    ASSUME broadcast \in Broadcasts
    PROVE  \A n \in DOMAIN broadcast.packets :
              /\ Packet(1).mpu <= Packet(n).mpu
              /\ \A k \in 1 .. Packet(n).last :
                    k \in Units /\ Mpu(k) \in Packet(1).mpu .. Packet(n).mpu
<1> DEFINE Good(n) == /\ Packet(1).mpu <= Packet(n).mpu
                      /\ \A k \in 1 .. Packet(n).last :
                            k \in Units /\ Mpu(k) \in Packet(1).mpu .. Packet(n).mpu
           T == {n \in DOMAIN broadcast.packets : ~Good(n)}
<1>1. SUFFICES ASSUME T # {} PROVE FALSE
      OBVIOUS
<1>2. T \subseteq Nat
      BY PacketsOnAir
<1>3. PICK n \in T : \A i \in T : ~(<<i, n>> \in OpToRel(<, Nat))
      BY <1>1, <1>2, NatLessThanWellFounded, WFMin
<1>4. \A i \in T : ~(i < n)
      BY <1>2, <1>3 DEF OpToRel
<1>5. n \in DOMAIN broadcast.packets /\ ~Good(n)
      OBVIOUS
<1> HIDE DEF T
<1>6. /\ n \in Nat \ {0} /\ Packet(n).mpu \in Nat
      /\ Packet(n).first \in Nat \ {0} /\ Packet(n).last \in Nat
      /\ \A k \in Packet(n).first .. Packet(n).last : k \in Units /\ Mpu(k) = Packet(n).mpu
      /\ n = 1 => Packet(n).first = 1
      BY <1>5, PacketsInTurn
<1>7. CASE n = 1
  <2>1. Packet(1).mpu <= Packet(n).mpu
        BY <1>6, <1>7
  <2>2. ASSUME NEW k \in 1 .. Packet(n).last
        PROVE  k \in Units /\ Mpu(k) \in Packet(1).mpu .. Packet(n).mpu
    <3>1. k \in Units /\ Mpu(k) = Packet(n).mpu
          BY <1>6, <1>7
    <3>2. QED
          BY <1>6, <1>7, <3>1
  <2>3. QED
        BY <1>5, <2>1, <2>2
<1>8. CASE n # 1
  <2> DEFINE q == Packet(n - 1)
  <2>1. /\ n - 1 \in DOMAIN broadcast.packets /\ Packet(n).mpu \in {q.mpu, q.mpu + 1}
        /\ Packet(n).first = q.first \/ Packet(n).first = q.last + 1
        BY <1>5, <1>6, <1>8, PacketsInTurn
  <2>2. q.mpu \in Nat /\ q.first \in Nat /\ q.last \in Nat /\ q.first - 1 <= q.last
        BY <2>1, PacketsInTurn
  <2>3. Good(n - 1)
        BY <1>4, <1>6, <2>1 DEF T
  <2>4. Packet(1).mpu \in Nat
    <3>1. 1 \in DOMAIN broadcast.packets
          BY <1>5, PacketsOnAir
    <3>2. QED
          BY <3>1, PacketsInTurn
  <2> HIDE DEF q
  <2>5. Packet(1).mpu <= q.mpu
        BY <2>3 DEF q
  <2>6. \A k \in 1 .. q.last : k \in Units /\ Mpu(k) \in Packet(1).mpu .. q.mpu
        BY <2>3 DEF q
  <2>7. Packet(1).mpu <= Packet(n).mpu /\ q.mpu <= Packet(n).mpu
        BY <2>1, <2>2, <2>4, <2>5
  <2>8. ASSUME NEW k \in 1 .. Packet(n).last
        PROVE  k \in Units /\ Mpu(k) \in Packet(1).mpu .. Packet(n).mpu
    <3>1. CASE k < Packet(n).first
      <4>1. k \in 1 .. q.last
            BY <1>6, <2>1, <2>2, <3>1
      <4>2. k \in Units /\ Mpu(k) \in Packet(1).mpu .. q.mpu
            BY <2>6, <4>1
      <4>3. QED
            BY <1>6, <2>2, <2>4, <2>7, <4>2
    <3>2. CASE k >= Packet(n).first
      <4>1. k \in Packet(n).first .. Packet(n).last
            BY <1>6, <3>2
      <4>2. k \in Units /\ Mpu(k) = Packet(n).mpu
            BY <1>6, <4>1
      <4>3. QED
            BY <1>6, <2>4, <2>7, <4>2
    <3>3. QED
          BY <1>6, <3>1, <3>2
  <2>9. QED
        BY <1>5, <2>7, <2>8
<1>9. QED
      BY <1>7, <1>8

\* Where the next packet stands among the units, and where the one after it does.
LEMMA HowFar ==
    ASSUME broadcast \in Broadcasts, next \in DOMAIN broadcast.packets
    PROVE  LET p == Packet(next)
           IN  /\ Done = p.first - 1 /\ Done \in Nat
               /\ Begun \in Nat
               /\ Begun = IF p.kind \in {"FragmentBody", "FragmentTail"}
                          THEN p.first ELSE p.first - 1
               /\ next' = next + 1 /\ broadcast' = broadcast =>
                     /\ Begun' = p.last
                     /\ Done' = IF Unfinished(next) THEN p.first - 1 ELSE p.last
<1> DEFINE p == Packet(next)
           q == Packet(next - 1)
<1>1. /\ next \in Nat \ {0} /\ p.first \in Nat \ {0}
      /\ next = 1 => p.first = 1 /\ p.kind \notin {"FragmentBody", "FragmentTail"}
      /\ next > 1 =>
            /\ next - 1 \in DOMAIN broadcast.packets
            /\ p.first = IF Unfinished(next - 1) THEN q.first ELSE q.last + 1
            /\ Unfinished(next - 1) <=> p.kind \in {"FragmentBody", "FragmentTail"}
      BY PacketsInTurn
<1>2. next > 1 => /\ q.first \in Nat \ {0} /\ q.last \in Nat
                  /\ Unfinished(next - 1) => q.first = q.last
      BY <1>1, PacketsInTurn DEF Unfinished
<1>3. next' = next + 1 /\ broadcast' = broadcast =>
         /\ Begun' = p.last
         /\ Done' = IF Unfinished(next) THEN p.first - 1 ELSE p.last
  <2>1. next' = next + 1 => next' - 1 = next /\ next' # 1
        BY <1>1
  <2>2. QED
        BY <2>1 DEF Begun, Done, Unfinished, Packet
<1>4. CASE next = 1
      BY <1>1, <1>3, <1>4 DEF Done, Begun
<1>5. CASE next # 1
  <2>1. next > 1
        BY <1>1, <1>5
  <2>2. /\ Done = IF Unfinished(next - 1) THEN q.first - 1 ELSE q.last
        /\ Begun = q.last
        BY <1>5 DEF Done, Begun
  <2> HIDE DEF p, q
  <2>3. /\ Done = p.first - 1 /\ Done \in Nat /\ Begun \in Nat
        /\ Begun = IF p.kind \in {"FragmentBody", "FragmentTail"}
                   THEN p.first ELSE p.first - 1
        BY <1>1, <1>2, <2>1, <2>2
  <2>4. QED
        BY <1>3, <2>3 DEF p
<1>6. QED
      BY <1>4, <1>5

-----------------------------------------------------------------------------
(* What leaves what was read as it was.                                     *)

\* The more is lost, the less is said.
LEMMA LossSaysLess ==
    ASSUME NEW s, NEW d, NEW m, NEW lost, NEW more, lost \subseteq more,
           UnitsRead(s, d, m, lost)
    PROVE  UnitsRead(s, d, m, more)
<1>1. \A u : (u \notin more => u \notin lost) /\ (SoundIn(u, more) => SoundIn(u, lost))
      BY DEF SoundIn
<1>2. Counted(s, d, m, more)
      BY <1>1 DEF UnitsRead, Counted
<1>3. Parsed(s, d, lost) => Parsed(s, d, more)
      BY <1>1 DEF Parsed
<1>4. Pending(s, d, lost) => Pending(s, d, more)
      BY <1>1 DEF Pending
<1>5. QED
      BY <1>2, <1>3, <1>4 DEF UnitsRead

\* Units of an MPU that is lost anyway are passed over.
LEMMA UnitsPassedOver ==
    ASSUME broadcast \in Broadcasts, NEW s, StreamTyped(s), NEW d \in Nat, NEW e \in Nat,
           d <= e, NEW m \in Nat, NEW lost, NEW u \in lost, m <= u,
           \A k \in d + 1 .. e : k \in Units /\ Mpu(k) = u,
           UnitsRead(s, d, m, lost)
    PROVE  UnitsRead(s, e, m, lost)
<1>1. CASE e = d
      BY <1>1
<1>2. CASE e # d
  <2>1. /\ e \in d + 1 .. e /\ d + 1 \in d + 1 .. e /\ e >= 1
        /\ e \in Units /\ Mpu(e) = u /\ Mpu(d + 1) = u
        BY <1>2
  <2>2. u \in Nat
        BY <2>1, UnitsOnAir
  <2>3. Counted(s, e, m, lost)
    <3>1. m \notin lost => Mpu(e) # m
          BY <2>1
    <3>2. ASSUME m \notin lost, e + 1 \in DOMAIN broadcast.nals
          PROVE  Mpu(e + 1) # m
      <4>1. e + 1 \in Units /\ e < e + 1
            BY <3>2 DEF Units
      <4>2. Mpu(e) <= Mpu(e + 1) /\ Mpu(e + 1) \in Nat
        <5>1. e \in Units /\ e <= e + 1
              BY <2>1, <4>1
        <5>2. /\ Mpu(e) \in Nat /\ Mpu(e + 1) \in Nat
              /\ Mpu(e) < Mpu(e + 1) \/ Mpu(e) = Mpu(e + 1)
              BY <4>1, <5>1, UnitsGrow
        <5>3. QED
              BY <5>2
      <4>3. m # u
            BY <3>2
      <4>4. QED
            BY <2>1, <2>2, <4>2, <4>3
    <3>3. ASSUME broadcast.type = "mp4a", NEW k \in DOMAIN broadcast.nals, k > e, Mpu(k) = m
          PROVE  s.auCount <= Au(k)
      <4>1. k \in Nat
            BY UnitsOnAir DEF Units
      <4>2. k > d
            BY <3>3, <4>1
      <4>3. QED
            BY <3>3, <4>2 DEF UnitsRead, Counted
    <3>4. QED
          BY <3>1, <3>2, <3>3 DEF Counted
  <2>4. Parsed(s, d, lost) => Parsed(s, e, lost)
    <3> SUFFICES ASSUME Parsed(s, d, lost) PROVE Parsed(s, e, lost)
        OBVIOUS
    <3>1. \A j \in DOMAIN s.parser : s.parser[j] \in 1 .. e
          BY DEF Parsed
    <3>2. ASSUME s.parser # << >>, \A j \in DOMAIN s.parser : SoundIn(Mpu(s.parser[j]), lost)
          PROVE  LET w == s.parser[Len(s.parser)]
                 IN  OneAccessUnit(s) /\ (w = e \/ Mpu(w + 1) # Mpu(w))
      <4> DEFINE w == s.parser[Len(s.parser)]
      <4>1. OneAccessUnit(s) /\ (w = d \/ Mpu(w + 1) # Mpu(w))
            BY <3>2 DEF Parsed
      <4>2. s.parser \in Seq(Nat)
            BY DEF StreamTyped, StreamTypes
      <4>3. Len(s.parser) \in DOMAIN s.parser
            BY <3>2, <4>2
      <4>4. Mpu(w) \notin lost
            BY <3>2, <4>3 DEF SoundIn
      <4> HIDE DEF w
      <4>5. w = d => Mpu(w + 1) # Mpu(w)
            BY <2>1, <4>4
      <4>6. QED
            BY <4>1, <4>5 DEF w
    <3>3. QED
          BY <3>1, <3>2 DEF Parsed
  <2>5. Pending(s, e, lost)
        BY <2>1 DEF Pending
  <2>6. QED
        BY <2>3, <2>4, <2>5 DEF UnitsRead
<1>3. QED
      BY <1>1, <1>2

\* A packet of another MPU, or the first one that is read: the count of access
\* units begins anew (mmt.rs:196-202).
LEMMA MpuEntered ==
    ASSUME broadcast \in Broadcasts, next \in DOMAIN broadcast.packets,
           TimesInv, panic = None, Packet(next).kind # "Metadata",
           NEW lost, damaged \subseteq lost
    PROVE  LET p == Packet(next)
               s == EnterMpu(p.mpu)
           IN  /\ StreamTyped(s)
               /\ s.type = stream.type /\ s.timestamps = stream.timestamps
               /\ UnitsRead(s, p.first - 1, p.mpu, lost)
<1> DEFINE p == Packet(next)
           s == EnterMpu(p.mpu)
           d == p.first - 1
<1>1. /\ StreamTyped(stream) /\ OnAirInv
      /\ IF deflagmenter.state = "Init"
         THEN stream.auCount = 0 /\ stream.parser = << >> /\ stream.dtsPts = None
         ELSE UnitsRead(stream, Done, mpu, damaged)
      BY DEF TimesInv
<1>2. /\ d = Done /\ d \in Nat /\ Begun \in Nat /\ d <= Begun
      /\ Begun = d \/ (Begun = d + 1 /\ Mpu(Begun) = p.mpu)
      /\ d + 1 = p.first /\ p.first \in p.first .. p.last
  <2>1. p.first \in Nat \ {0} /\ p.last \in Nat /\ p.first <= p.last
        /\ \A k \in p.first .. p.last : Mpu(k) = p.mpu
        BY PacketsInTurn
  <2>2. /\ Done = p.first - 1 /\ Begun \in Nat
        /\ Begun = IF p.kind \in {"FragmentBody", "FragmentTail"} THEN p.first ELSE p.first - 1
        BY HowFar
  <2> HIDE DEF p
  <2>3. QED
        BY <2>1, <2>2
<1>3. /\ StreamTyped(s) /\ s.type = stream.type /\ s.timestamps = stream.timestamps
      /\ s.parser = stream.parser /\ s.dtsPts = stream.dtsPts
      /\ s = stream \/ s.auCount = 0
  <2>1. stream \in StreamTypes /\ broadcast.aus \in Nat
        BY <1>1, UnitsOnAir DEF StreamTyped
  <2>2. CASE s = stream
        BY <1>1, <2>2
  <2>3. CASE s = [stream EXCEPT !.auCount = 0]
    <3>1. s \in StreamTypes /\ s.auCount = 0 /\ s.type = stream.type
          /\ s.timestamps = stream.timestamps
          /\ s.parser = stream.parser /\ s.dtsPts = stream.dtsPts
          BY <2>1, <2>3 DEF StreamTypes
    <3> HIDE DEF s
    <3>2. StreamTyped(s)
          BY <1>1, <2>1, <3>1 DEF StreamTyped
    <3>3. QED
          BY <3>1, <3>2
  <2>4. QED
        BY <2>2, <2>3 DEF EnterMpu
<1>4. \A u : (u \notin lost => u \notin damaged)
      OBVIOUS
<1>5. CASE deflagmenter.state # "Init" /\ p.mpu = mpu
  <2>1. s = stream
        BY <1>5 DEF EnterMpu
  <2>2. QED
        BY <1>1, <1>2, <1>3, <1>5, <2>1, LossSaysLess
<1>6. CASE deflagmenter.state = "Init" \/ p.mpu # mpu
  <2>1. s.auCount = 0
    <3>1. CASE deflagmenter.state = "Init"
          BY <1>1, <1>3, <3>1
    <3>2. CASE deflagmenter.state # "Init" /\ p.mpu # mpu
      <4>1. s = [stream EXCEPT !.auCount = 0]
            BY <3>2 DEF EnterMpu
      <4>2. QED
            BY <1>1, <4>1 DEF StreamTyped, StreamTypes
    <3>3. QED
          BY <1>6, <3>1, <3>2
  <2>2. ASSUME p.mpu \notin lost, d >= 1, Mpu(d) = p.mpu
        PROVE  FALSE
    <3>1. Begun >= 1 /\ Begun \in 1 .. Begun /\ Mpu(Begun) = p.mpu
          BY <1>2, <2>2
    <3>2. deflagmenter.state # "Init" /\ mpu = p.mpu
          BY <1>1, <1>4, <2>2, <3>1 DEF OnAirInv
    <3>3. QED
          BY <1>6, <3>2
  <2>3. Counted(s, d, p.mpu, lost)
    <3>1. \A k \in DOMAIN broadcast.nals : 0 <= Au(k)
          BY UnitsOnAir DEF Units
    <3> HIDE DEF s, d, p
    <3>2. QED
          BY <2>1, <2>2, <3>1 DEF Counted
  <2>4. CASE deflagmenter.state = "Init"
    <3>1. s.parser = << >> /\ s.dtsPts = None
          BY <1>1, <1>3, <2>4
    <3>2. d >= 1 => Mpu(d) \in lost
      <4>1. d >= 1 => d \in 1 .. Begun
            BY <1>2
      <4>2. QED
            BY <1>1, <1>4, <2>4, <4>1 DEF OnAirInv
    <3> HIDE DEF s, d, p
    <3>3. Parsed(s, d, lost) /\ Pending(s, d, lost)
          BY <3>1, <3>2 DEF Parsed, Pending
    <3>4. UnitsRead(s, d, p.mpu, lost)
          BY <2>3, <3>1, <3>3 DEF UnitsRead
    <3>5. QED
          BY <1>3, <3>4 DEF s, d, p
  <2>5. CASE deflagmenter.state # "Init"
    <3>1. UnitsRead(stream, d, mpu, lost)
          BY <1>1, <1>2, <2>5, LossSaysLess
    <3> HIDE DEF s, d, p
    <3>2. Parsed(stream, d, lost) => Parsed(s, d, lost)
          BY <1>3 DEF Parsed, OneAccessUnit
    <3>3. Pending(stream, d, lost) => Pending(s, d, lost)
          BY <1>3 DEF Pending
    <3>4. UnitsRead(s, d, p.mpu, lost)
          BY <1>3, <2>3, <3>1, <3>2, <3>3 DEF UnitsRead
    <3>5. QED
          BY <1>3, <3>4 DEF s, d, p
  <2>6. QED
        BY <2>4, <2>5
<1>7. QED
      BY <1>5, <1>6

-----------------------------------------------------------------------------
(* One unit more, number d + 1, of MPU m: what was read of the stream before *)
(* it is s, and t is s with the time that was taken (mmt.rs:225-245).       *)
Timed(s, t, m) ==
    /\ t.parser = s.parser
    /\ IF s.dtsPts # None \/ m \notin s.timestamps
       THEN t.dtsPts = s.dtsPts /\ t.auCount = s.auCount
       ELSE t.dtsPts = <<m, s.auCount>> /\ t.auCount = s.auCount + 1

SampleGood(sample, lost) ==
    (\A j \in DOMAIN sample.units : SoundIn(Mpu(sample.units[j]), lost)) =>
        SampleInTime(sample)

\* A delimiter completes an access unit, and nothing else does (hevc.rs).
LEMMA SampleOfParser ==
    ASSUME broadcast \in Broadcasts, broadcast.type = "hev1", NEW lost, NEW m,
           NEW s, StreamTyped(s), NEW d \in Nat, d + 1 \in Units, Delimiter(d + 1),
           Parsed(s, d, lost), s.parser # << >>, NEW t, Timed(s, t, m)
    PROVE  SampleGood([units |-> s.parser, time |-> t.dtsPts], lost)
<1> DEFINE u == s.parser
           w == u[Len(u)]
           f == u[1]
<1> SUFFICES ASSUME \A j \in DOMAIN u : SoundIn(Mpu(u[j]), lost)
             PROVE  SampleInTime([units |-> u, time |-> t.dtsPts])
    BY DEF SampleGood
<1>1. /\ u \in Seq(Nat) /\ u # << >> /\ Len(u) \in Nat \ {0} /\ DOMAIN u = 1 .. Len(u)
      /\ 1 \in DOMAIN u /\ Len(u) \in DOMAIN u
  <2>1. u \in Seq(Nat) /\ u # << >>
        BY DEF StreamTyped, StreamTypes
  <2> HIDE DEF u
  <2>2. QED
        BY <2>1
<1>2. OneAccessUnit(s) /\ (w = d \/ Mpu(w + 1) # Mpu(w))
      BY DEF Parsed
<1>3. /\ \A j \in DOMAIN u : u[j] \in Units /\ u[j] <= d
      /\ \A j \in Units : j \in Nat
  <2>1. \A j \in DOMAIN u : u[j] \in 1 .. d
        BY DEF Parsed
  <2>2. 1 .. d \subseteq Units
        BY UnitsOnAir
  <2>3. QED
        BY <2>1, <2>2, UnitsOnAir
<1>4. /\ \A j \in DOMAIN u : u[j] = f + j - 1 /\ Mpu(u[j]) = Mpu(w) /\ Au(u[j]) = Au(w)
      /\ Delimiter(f) \/ f = 2
      /\ s.dtsPts = IF Delimiter(w) THEN None ELSE <<Mpu(w), Au(w)>>
      BY <1>2 DEF OneAccessUnit
<1> HIDE DEF u
<1>5. w \in Units /\ f \in Units /\ w = f + Len(u) - 1 /\ f <= w /\ w <= d
      BY <1>1, <1>3, <1>4
<1>6. /\ w + 1 \in Units /\ BeginsAt(w + 1) /\ w \in Nat \ {0} /\ f \in Nat
      /\ w < w + 1
  <2>1. w \in Nat \ {0} /\ w + 1 \in Units /\ w + 1 > 1 /\ (w + 1) - 1 = w /\ f \in Nat
    <3>1. PICK n \in Nat : Units = 1 .. n
          BY UnitsOnAir
    <3>2. w \in 1 .. n /\ f \in 1 .. n /\ w <= d /\ d \in Nat /\ d + 1 \in 1 .. n
          BY <1>5, <3>1
    <3>3. w \in Nat \ {0} /\ f \in Nat /\ w + 1 \in 1 .. n /\ w + 1 > 1
          /\ (w + 1) - 1 = w
          BY <3>2
    <3>4. QED
          BY <3>1, <3>3
  <2>2. CASE w = d
        BY <2>1, <2>2 DEF BeginsAt
  <2>3. CASE Mpu(w + 1) # Mpu(w)
    <3>1. w \in Units
          BY <1>5
    <3>2. BeginsAt(w + 1) \/ Mpu(w + 1) = Mpu((w + 1) - 1)
          BY <2>1, UnitsOnAir
    <3>3. QED
          BY <2>1, <2>3, <3>2
  <2>4. QED
        BY <1>2, <2>1, <2>2, <2>3
<1>7. ~Delimiter(w)
  <2>1. w + 1 > 1 /\ (w + 1) - 1 = w
        BY <1>6
  <2>2. \A k \in Units : k > 1 /\ BeginsAt(k) => ~Delimiter(k - 1)
        BY UnitsOnAir
  <2>3. ~Delimiter((w + 1) - 1)
        BY <1>6, <2>1, <2>2
  <2>4. QED
        BY <2>1, <2>3
<1>8. t.dtsPts = <<Mpu(w), Au(w)>>
  <2>1. <<Mpu(w), Au(w)>> \in Nat \X Nat
        BY <1>5, UnitsOnAir
  <2>2. s.dtsPts # None
        BY <1>4, <1>7, <2>1, MmtAssumption DEF MmtAssumption
  <2>3. QED
        BY <1>4, <1>7, <2>2 DEF Timed
<1>9. Mpu(f) = Mpu(w) /\ Au(f) = Au(w)
      BY <1>1, <1>4
<1>10. {u[j] : j \in DOMAIN u} = f .. w
  <2>1. ASSUME NEW k \in f .. w
        PROVE  k \in {u[j] : j \in DOMAIN u}
    <3>1. k - f + 1 \in DOMAIN u /\ f + (k - f + 1) - 1 = k
          BY <1>1, <1>5, <1>6
    <3>2. u[k - f + 1] = k
          BY <1>4, <3>1
    <3>3. QED
          BY <3>1, <3>2
  <2>2. ASSUME NEW j \in DOMAIN u
        PROVE  u[j] \in f .. w
    <3>1. j \in 1 .. Len(u) /\ u[j] = f + j - 1
          BY <1>1, <1>4
    <3>2. PICK l \in Nat : l = Len(u)
          BY <1>1
    <3>3. w = f + l - 1 /\ w \in Nat /\ f \in Nat
          BY <1>5, <1>6, <3>2
    <3>4. j \in 1 .. l
          BY <3>1, <3>2
    <3>5. f + j - 1 \in f .. w
          BY <3>3, <3>4
    <3>6. QED
          BY <3>1, <3>5
  <2>3. QED
        BY <2>1, <2>2
<1> HIDE DEF w, f
<1> DEFINE a == AccessUnit(Mpu(f), Au(f))
<1>11. \A k \in f .. w : k \in a
  <2> TAKE k \in f .. w
  <2>1. k \in {u[j] : j \in DOMAIN u}
        BY <1>10
  <2>2. PICK j \in DOMAIN u : u[j] = k
        BY <2>1
  <2>3. k \in Units /\ Mpu(k) = Mpu(f) /\ Au(k) = Au(f)
        BY <1>3, <1>4, <1>9, <2>2
  <2>4. QED
        BY <2>3 DEF AccessUnit, Units, Mpu, Au
<1>12. \A k \in a : k \in Units /\ Mpu(k) = Mpu(f) /\ Au(k) = Au(f) /\ k \in Nat
       BY <1>3 DEF AccessUnit, Units, Mpu, Au
<1>13. \A k \in a : k <= w
  <2>1. ASSUME NEW k \in a, w + 1 <= k
        PROVE  FALSE
    <3>1. Before(w, k)
          BY <1>5, <1>6, <1>12, <2>1, UnitsDiffer
    <3>2. QED
          BY <1>5, <1>9, <1>12, <3>1, UnitsOnAir DEF Before
  <2>2. QED
        BY <1>6, <1>12, <2>1
<1>14. f # 2 => \A k \in a : f <= k
  <2>1. ASSUME f # 2, NEW k \in a, k < f
        PROVE  FALSE
    <3>1. BeginsAt(f)
          BY <1>4, <2>1 DEF BeginsAt
    <3>2. Before(k, f)
          BY <1>5, <1>6, <1>12, <2>1, <3>1, UnitsDiffer
    <3>3. QED
          BY <1>5, <1>12, <3>2, UnitsOnAir DEF Before
  <2>2. QED
        BY <1>6, <1>12, <2>1
<1>15. f .. w \in {a, a \ {1}}
  <2>1. CASE f # 2
    <3>1. \A k \in a : k \in f .. w
          BY <1>6, <1>12, <1>13, <1>14, <2>1
    <3>2. f .. w = a
          BY <1>11, <3>1
    <3>3. QED
          BY <3>2
  <2>2. CASE f = 2
    <3>1. \A k \in a : k # 1 => k \in f .. w
      <4> TAKE k \in a
      <4>1. k \in Nat \ {0} /\ k <= w
            BY <1>12, <1>13, UnitsOnAir
      <4>2. QED
            BY <1>6, <2>2, <4>1
    <3>2. 1 \notin f .. w
          BY <2>2
    <3> HIDE DEF a
    <3>3. f .. w = a \ {1}
          BY <1>11, <3>1, <3>2
    <3>4. QED
          BY <3>3
  <2>3. QED
        BY <2>1, <2>2
<1>16. QED
  <2> DEFINE x == [units |-> u, time |-> t.dtsPts]
  <2>1. x.units = u /\ x.time = <<Mpu(f), Au(f)>> /\ u[1] = f
        BY <1>8, <1>9 DEF f
  <2>2. /\ broadcast.nals[f].mpu = Mpu(f) /\ broadcast.nals[f].au = Au(f)
        BY DEF Mpu, Au
  <2>3. \A j \in DOMAIN u : u[j] = u[1] + j - 1
        BY <1>4 DEF f
  <2>4. {u[j] : j \in DOMAIN u} \in {a, a \ {1}}
        BY <1>10, <1>15
  <2> HIDE DEF x
  <2>5. SampleInTime(x)
        BY <2>1, <2>2, <2>3, <2>4 DEF SampleInTime
  <2>6. QED
        BY <2>5 DEF x

\* A NAL unit that is no delimiter goes into the buffer (hevc.rs).
LEMMA SliceRead ==
    ASSUME broadcast \in Broadcasts, broadcast.type = "hev1", NEW lost,
           NEW s, StreamTyped(s), NEW d \in Nat, d + 1 \in Units, ~Delimiter(d + 1),
           UnitsRead(s, d, Mpu(d + 1), lost),
           Mpu(d + 1) \notin lost => Mpu(d + 1) \in s.timestamps,
           NEW t, Timed(s, t, Mpu(d + 1)),
           NEW v, v.parser = Append(s.parser, d + 1),
           v.dtsPts = t.dtsPts, v.auCount = t.auCount
    PROVE  UnitsRead(v, d + 1, Mpu(d + 1), lost)
<1> DEFINE k == d + 1
           m == Mpu(k)
           u == s.parser
           x == v.parser
<1>1. /\ d \in Units /\ d >= 1 /\ k > 1 /\ Mpu(d) = m /\ Au(d) = Au(k)
      /\ m \in Nat /\ Au(d) \in Nat /\ k \in Nat /\ d < k /\ k # 1
  <2>1. ~BeginsAt(k)
        BY DEF BeginsAt
  <2>2. k \in Nat \ {0} /\ k # 1 /\ k - 1 = d
        BY <2>1, UnitsOnAir
  <2>3. k > 1
        BY <2>2
  <2>4. /\ k - 1 \in Units /\ Mpu(k) = Mpu(k - 1) /\ Au(k) = Au(k - 1)
        /\ Mpu(k) \in Nat /\ Au(k) \in Nat
        BY <2>1, <2>3, UnitsOnAir
  <2> HIDE DEF k
  <2>5. QED
        BY <2>2, <2>3, <2>4 DEF k
<1>2. /\ u \in Seq(Nat) /\ Len(u) \in Nat /\ x \in Seq(Nat) /\ Len(x) = Len(u) + 1
      /\ x # << >> /\ DOMAIN x = 1 .. Len(u) + 1 /\ DOMAIN u = 1 .. Len(u)
      /\ x[Len(x)] = k /\ \A j \in DOMAIN u : x[j] = u[j]
      /\ \A j \in DOMAIN x : j \in DOMAIN u \/ j = Len(x)
      /\ Len(x) \in DOMAIN x /\ DOMAIN u \subseteq DOMAIN x
  <2>1. u \in Seq(Nat) /\ k \in Nat /\ x = Append(u, k)
        BY <1>1 DEF StreamTyped, StreamTypes
  <2> HIDE DEF u, x, k
  <2>2. QED
        BY <2>1
<1>3. Parsed(s, d, lost) /\ Pending(s, d, lost) /\ Counted(s, d, m, lost)
      BY DEF UnitsRead
<1>4. \A j \in DOMAIN x : x[j] \in 1 .. k
  <2>1. \A j \in DOMAIN u : u[j] \in 1 .. d
        BY <1>3 DEF Parsed
  <2> HIDE DEF u, x, k
  <2>2. k \in 1 .. k /\ 1 .. d \subseteq 1 .. k
        BY <1>1
  <2>3. QED
        BY <1>2, <2>1, <2>2
<1>5. (\A j \in DOMAIN x : SoundIn(Mpu(x[j]), lost)) =>
         SoundIn(m, lost) /\ (\A j \in DOMAIN u : SoundIn(Mpu(u[j]), lost))
  <2> HIDE DEF u, x, k
  <2>1. QED
        BY <1>2
<1>6. m \notin lost => /\ v.dtsPts # None
                       /\ s.dtsPts # None => v.dtsPts = s.dtsPts /\ v.auCount = s.auCount
                       /\ s.dtsPts = None => /\ v.dtsPts = <<m, s.auCount>>
                                             /\ v.auCount = s.auCount + 1
  <2>1. <<m, s.auCount>> \in Nat \X Nat
        BY <1>1 DEF StreamTyped, StreamTypes
  <2>2. <<m, s.auCount>> # None
        BY <2>1, MmtAssumption DEF MmtAssumption
  <2>3. QED
        BY <2>2 DEF Timed
\* What a sound MPU has in the parser then.
<1>7. ASSUME m \notin lost, SoundIn(m, lost)
      PROVE  /\ \A j \in DOMAIN x : Mpu(x[j]) = m
             /\ v.auCount = Au(k) + 1
             /\ (\A j \in DOMAIN u : SoundIn(Mpu(u[j]), lost)) => OneAccessUnit(v)
  <2>1. s.auCount = Au(k) + (IF s.dtsPts = None THEN 0 ELSE 1) /\ s.auCount \in Nat
        BY <1>1, <1>3, <1>7 DEF Counted, StreamTyped, StreamTypes
  <2>2. v.auCount = Au(k) + 1
        BY <1>1, <1>6, <1>7, <2>1
  <2>3. /\ ~Delimiter(d) =>
              /\ u # << >> /\ u[Len(u)] = d /\ s.dtsPts # None
              /\ \A j \in DOMAIN u : Mpu(u[j]) = m
        /\ Delimiter(d) =>
              IF d = 1 THEN u = << >> /\ s.dtsPts = <<m, 0>>
              ELSE u = <<d>> /\ s.dtsPts = None
        BY <1>1, <1>3, <1>7 DEF Pending
  <2>4. \A j \in DOMAIN u : Mpu(u[j]) = m
    <3>1. CASE ~Delimiter(d)
          BY <2>3, <3>1
    <3>2. CASE u = << >>
          BY <3>2
    <3>3. CASE u = <<d>>
          BY <1>1, <3>3
    <3>4. QED
          BY <2>3, <3>1, <3>2, <3>3
  <2>5. \A j \in DOMAIN x : Mpu(x[j]) = m
    <3> HIDE DEF u, x, k, m
    <3>1. Mpu(k) = m
          BY DEF m
    <3>2. QED
          BY <1>2, <2>4, <3>1
  <2>6. v.dtsPts = <<Mpu(k), Au(k)>> =>
           OneAccessUnit(v) <=>
              /\ \A j \in DOMAIN x : x[j] = x[1] + j - 1 /\ Au(x[j]) = Au(k)
              /\ Delimiter(x[1]) \/ x[1] = 2
        BY <1>2, <2>5 DEF OneAccessUnit
  <2>7. CASE Delimiter(d) /\ d = 1
    <3>1. u = << >> /\ Len(u) = 0 /\ DOMAIN x = 1 .. 1 /\ x[1] = k /\ k = 2
          BY <1>2, <2>3, <2>7
    <3>2. v.dtsPts = <<m, 0>> /\ Au(k) = 0
      <4>1. Au(d) = 0
            BY <1>1, <2>7, UnitsOnAir
      <4>2. <<m, 0>> # None
        <5>1. <<m, 0>> \in Nat \X Nat
              BY <1>1
        <5>2. QED
              BY <5>1, MmtAssumption DEF MmtAssumption
      <4>3. QED
            BY <1>1, <1>6, <1>7, <2>3, <2>7, <4>1, <4>2
    <3>3. \A j \in DOMAIN x : j = 1
          BY <3>1
    <3> HIDE DEF u, x, k
    <3>4. QED
          BY <1>1, <2>2, <2>5, <2>6, <3>1, <3>2, <3>3
  <2>8. CASE Delimiter(d) /\ d # 1
    <3>1. u = <<d>> /\ s.dtsPts = None
          BY <2>3, <2>8
    <3>2. Len(u) = 1 /\ u[1] = d
          BY <3>1
    <3>3. DOMAIN x = 1 .. 2 /\ x[1] = d /\ x[2] = k
          BY <1>2, <3>2
    <3>4. v.dtsPts = <<Mpu(k), Au(k)>>
          BY <1>1, <1>6, <1>7, <2>1, <3>1
    <3>5. \A j \in DOMAIN x : j = 1 \/ j = 2
          BY <3>3
    <3>6. \A j \in DOMAIN x : x[j] = x[1] + j - 1 /\ Au(x[j]) = Au(k)
      <4>1. x[1] = x[1] + 1 - 1 /\ x[2] = x[1] + 2 - 1
            BY <1>1, <3>3
      <4> HIDE DEF u, x, k
      <4>2. QED
            BY <1>1, <3>3, <3>5, <4>1
    <3> HIDE DEF u, x, k
    <3>7. QED
          BY <2>2, <2>5, <2>6, <2>8, <3>3, <3>4, <3>6
  <2>9. CASE ~Delimiter(d)
    <3>1. u # << >> /\ u[Len(u)] = d /\ s.dtsPts # None
          BY <2>3, <2>9
    <3>2. ASSUME \A j \in DOMAIN u : SoundIn(Mpu(u[j]), lost)
          PROVE  OneAccessUnit(v)
      <4>1. OneAccessUnit(s)
            BY <1>3, <3>1, <3>2 DEF Parsed
      <4>2. /\ \A j \in DOMAIN u : u[j] = u[1] + j - 1 /\ Au(u[j]) = Au(d)
            /\ Delimiter(u[1]) \/ u[1] = 2
            /\ s.dtsPts = <<Mpu(d), Au(d)>>
            BY <2>9, <3>1, <4>1 DEF OneAccessUnit
      <4>3. v.dtsPts = <<Mpu(k), Au(k)>>
            BY <1>1, <1>6, <1>7, <3>1, <4>2
      <4>4. Len(u) >= 1 /\ 1 \in DOMAIN u /\ Len(u) \in DOMAIN u
            BY <1>2, <3>1
      <4>5. x[1] = u[1] /\ u[1] \in Nat /\ d = u[1] + Len(u) - 1
        <5> HIDE DEF u, x
        <5>1. u[Len(u)] = u[1] + Len(u) - 1
              BY <4>2, <4>4
        <5>2. u[1] \in Nat
              BY <1>2, <4>4
        <5>3. QED
              BY <1>2, <3>1, <4>4, <5>1, <5>2
      <4> HIDE DEF u, x
      <4>6. x[Len(x)] = x[1] + Len(x) - 1
            BY <1>2, <4>5
      <4> HIDE DEF k
      <4>7. \A j \in DOMAIN x : x[j] = x[1] + j - 1 /\ Au(x[j]) = Au(k)
            BY <1>1, <1>2, <4>2, <4>5, <4>6
      <4>8. QED
            BY <2>6, <4>2, <4>3, <4>5, <4>7
    <3>3. QED
          BY <2>2, <2>5, <3>2
  <2>10. QED
         BY <2>7, <2>8, <2>9
<1>8. Parsed(v, k, lost)
  <2> SUFFICES ASSUME \A j \in DOMAIN x : SoundIn(Mpu(x[j]), lost)
               PROVE  OneAccessUnit(v)
      BY <1>2, <1>4 DEF Parsed
  <2>1. SoundIn(m, lost) /\ m \notin lost
        BY <1>5 DEF SoundIn
  <2>2. QED
        BY <1>5, <1>7, <2>1
<1>9. Pending(v, k, lost)
      BY <1>1, <1>2, <1>6, <1>7 DEF Pending
<1>10. Counted(v, k, m, lost)
  <2>1. Mpu(k) = m /\ k # 0 /\ broadcast.type # "mp4a"
        BY <1>1
  <2>2. ASSUME m \notin lost, SoundIn(m, lost)
        PROVE  v.auCount = Au(k) + (IF broadcast.type = "hev1" /\ v.dtsPts = None THEN 0 ELSE 1)
        BY <1>6, <1>7, <2>2
  <2>3. QED
        BY <2>1, <2>2 DEF Counted
<1>11. QED
       BY <1>8, <1>9, <1>10 DEF UnitsRead

\* A delimiter that finds the buffer empty is not kept; only the first one on air
\* may do so in a sound MPU.
LEMMA DelimiterDropped ==
    ASSUME broadcast \in Broadcasts, broadcast.type = "hev1", NEW lost,
           NEW s, StreamTyped(s), NEW d \in Nat, d + 1 \in Units, Delimiter(d + 1),
           UnitsRead(s, d, Mpu(d + 1), lost), s.parser = << >>,
           Mpu(d + 1) \notin lost => Mpu(d + 1) \in s.timestamps,
           NEW t, Timed(s, t, Mpu(d + 1)),
           NEW v, v.parser = << >>, v.dtsPts = t.dtsPts, v.auCount = t.auCount
    PROVE  UnitsRead(v, d + 1, Mpu(d + 1), lost)
<1> DEFINE k == d + 1
           m == Mpu(k)
<1>1. k \in Nat \ {0} /\ k - 1 = d /\ m \in Nat /\ BeginsAt(k)
      BY UnitsOnAir DEF BeginsAt
<1>2. Parsed(s, d, lost) /\ Pending(s, d, lost) /\ Counted(s, d, m, lost)
      BY DEF UnitsRead
<1>3. ASSUME m \notin lost, SoundIn(m, lost)
      PROVE  k = 1
  <2> SUFFICES ASSUME k # 1 PROVE FALSE
      OBVIOUS
  <2>1. k > 1 /\ d >= 1
        BY <1>1
  <2>2. k - 1 \in Units /\ ~Delimiter(k - 1) /\ (m = Mpu(k - 1) \/ m = Mpu(k - 1) + 1)
        BY <1>1, <2>1, UnitsOnAir
  <2>3. d \in Units /\ ~Delimiter(d) /\ Mpu(d) \in Nat
        BY <1>1, <2>2, UnitsOnAir
  <2>4. Mpu(d) = m \/ Mpu(d) = m - 1
        BY <1>1, <2>2, <2>3
  <2>5. Mpu(d) \notin lost
        BY <1>3, <2>4 DEF SoundIn
  <2>6. QED
        BY <1>2, <2>1, <2>3, <2>5 DEF Pending
<1>4. ASSUME m \notin lost, k = 1
      PROVE  v.dtsPts = <<m, 0>> /\ v.auCount = 1 /\ Au(k) = 0 /\ v.dtsPts # None
  <2>1. d = 0 /\ s.dtsPts = None
        BY <1>2, <1>4 DEF Pending
  <2>2. s.auCount = 0
        BY <1>2, <1>4, <2>1 DEF Counted, Units
  <2>3. v.dtsPts = <<m, 0>> /\ v.auCount = 1
        BY <1>4, <2>1, <2>2 DEF Timed
  <2>4. <<m, 0>> \in Nat \X Nat
        BY <1>1
  <2>5. Au(k) = 0
        BY <1>4, UnitsOnAir
  <2>6. QED
        BY <2>3, <2>4, <2>5, MmtAssumption DEF MmtAssumption
<1>5. Parsed(v, k, lost)
      BY DEF Parsed
<1>6. Pending(v, k, lost)
      BY <1>1, <1>3, <1>4 DEF Pending
<1>7. Counted(v, k, m, lost)
  <2>1. k # 0 /\ broadcast.type # "mp4a" /\ Mpu(k) = m
        BY <1>1
  <2> HIDE DEF k, m
  <2>2. QED
        BY <1>3, <1>4, <2>1 DEF Counted
<1>8. QED
      BY <1>5, <1>6, <1>7 DEF UnitsRead

\* A delimiter that completes an access unit begins the next one.
LEMMA DelimiterRead ==
    ASSUME broadcast \in Broadcasts, broadcast.type = "hev1", NEW lost,
           NEW s, StreamTyped(s), NEW d \in Nat, d + 1 \in Units, Delimiter(d + 1),
           UnitsRead(s, d, Mpu(d + 1), lost), s.parser # << >>,
           NEW t, Timed(s, t, Mpu(d + 1)),
           NEW v, v.parser = <<d + 1>>, v.dtsPts = None, v.auCount = t.auCount
    PROVE  UnitsRead(v, d + 1, Mpu(d + 1), lost)
<1> DEFINE k == d + 1
           m == Mpu(k)
<1>1. /\ k \in Nat \ {0} /\ k - 1 = d /\ m \in Nat /\ BeginsAt(k)
      /\ broadcast.type # "mp4a" /\ Mpu(k) = m
      BY UnitsOnAir DEF BeginsAt
<1>2. Parsed(s, d, lost) /\ Pending(s, d, lost) /\ Counted(s, d, m, lost)
      BY DEF UnitsRead
<1>3. k # 1
  <2>1. 1 \in DOMAIN s.parser
    <3>1. s.parser \in Seq(Nat)
          BY DEF StreamTyped, StreamTypes
    <3>2. QED
          BY <3>1
  <2>2. s.parser[1] \in 1 .. d
        BY <1>2, <2>1 DEF Parsed
  <2>3. QED
        BY <1>1, <2>2
<1>4. k > 1 /\ d >= 1
      BY <1>1, <1>3
<1>5. /\ k - 1 \in Units /\ ~Delimiter(k - 1) /\ Au(k) \in Nat
      /\ \/ Mpu(k) = Mpu(k - 1) /\ Au(k) = Au(k - 1) + 1
         \/ Mpu(k) = Mpu(k - 1) + 1 /\ Au(k) = 0
      BY <1>1, <1>4, UnitsOnAir
<1>6. /\ d \in Units /\ ~Delimiter(d) /\ Mpu(d) \in Nat /\ Au(d) \in Nat
      /\ \/ m = Mpu(d) /\ Au(k) = Au(d) + 1
         \/ Mpu(d) = m - 1 /\ m # Mpu(d) /\ Au(k) = 0
  <2>1. d \in Units /\ ~Delimiter(d) /\ Mpu(d) \in Nat /\ Au(d) \in Nat
        BY <1>1, <1>5, UnitsOnAir
  <2>2. \/ m = Mpu(d) /\ Au(k) = Au(d) + 1
        \/ m = Mpu(d) + 1 /\ Au(k) = 0
        BY <1>1, <1>5
  <2> HIDE DEF k, m
  <2>3. QED
        BY <1>1, <2>1, <2>2
<1>7. ASSUME m \notin lost, SoundIn(m, lost)
      PROVE  v.auCount = Au(k)
  <2>1. Mpu(d) \notin lost
        BY <1>1, <1>6, <1>7 DEF SoundIn
  <2>2. s.dtsPts # None
        BY <1>2, <1>4, <1>6, <2>1 DEF Pending
  <2>3. v.auCount = s.auCount
        BY <2>2 DEF Timed
  <2>4. CASE m = Mpu(d) /\ Au(k) = Au(d) + 1
        BY <1>2, <1>4, <1>7, <2>2, <2>3, <2>4 DEF Counted
  <2>5. CASE m # Mpu(d) /\ Au(k) = 0
        BY <1>2, <1>7, <2>3, <2>5 DEF Counted, Units
  <2>6. QED
        BY <1>6, <2>4, <2>5
<1>8. /\ v.parser # << >> /\ Len(v.parser) = 1 /\ DOMAIN v.parser = {1} /\ v.parser[1] = k
      OBVIOUS
<1> HIDE DEF k, m
<1>9. v.parser = <<k>> /\ Delimiter(k)
      BY DEF k
<1>10. OneAccessUnit(v)
  <2>1. \A j \in DOMAIN v.parser : v.parser[j] = v.parser[1] + j - 1
        BY <1>1, <1>8
  <2>2. QED
        BY <1>8, <1>9, <2>1 DEF OneAccessUnit
<1>11. Parsed(v, k, lost)
  <2>1. \A j \in DOMAIN v.parser : v.parser[j] \in 1 .. k
        BY <1>1, <1>8
  <2>2. QED
        BY <1>8, <1>10, <2>1 DEF Parsed
<1>12. Pending(v, k, lost)
       BY <1>1, <1>3, <1>9 DEF Pending
<1>13. Counted(v, k, m, lost)
       BY <1>1, <1>5, <1>7 DEF Counted
<1>14. UnitsRead(v, k, m, lost)
       BY <1>1, <1>11, <1>12, <1>13 DEF UnitsRead
<1>15. QED
       BY <1>14 DEF k, m

\* An access unit of audio is a sample, and has its own time if its MPU is sound.
LEMMA AudioRead ==
    ASSUME broadcast \in Broadcasts, broadcast.type = "mp4a", NEW lost,
           NEW s, StreamTyped(s), NEW d \in Nat, d + 1 \in Units,
           UnitsRead(s, d, Mpu(d + 1), lost),
           Mpu(d + 1) \notin lost => Mpu(d + 1) \in s.timestamps,
           NEW t, Timed(s, t, Mpu(d + 1)),
           NEW v, v.parser = << >>, v.dtsPts = None, v.auCount = t.auCount
    PROVE  /\ UnitsRead(v, d + 1, Mpu(d + 1), lost)
           /\ SampleGood([units |-> <<d + 1>>, time |-> t.dtsPts], lost)
<1> DEFINE k == d + 1
           m == Mpu(k)
<1>1. /\ k \in Nat \ {0} /\ k - 1 = d /\ m \in Nat /\ Au(k) \in Nat /\ BeginsAt(k)
      /\ broadcast.type # "hev1" /\ Mpu(k) = m /\ s.auCount \in Nat
  <2>1. s.auCount \in Nat
        BY DEF StreamTyped, StreamTypes
  <2>2. QED
        BY <2>1, UnitsOnAir DEF BeginsAt
<1>2. Counted(s, d, m, lost) /\ s.parser = << >> /\ s.dtsPts = None
      BY DEF UnitsRead
<1>3. k > 1 => /\ d \in Units /\ d >= 1 /\ Mpu(d) \in Nat /\ Au(d) \in Nat
               /\ \/ m = Mpu(d) /\ Au(k) = Au(d) + 1
                  \/ m # Mpu(d) /\ Au(k) = 0
  <2>1. k > 1 =>
           /\ k - 1 \in Units
           /\ \/ Mpu(k) = Mpu(k - 1) /\ Au(k) = Au(k - 1) + 1
              \/ Mpu(k) = Mpu(k - 1) + 1 /\ Au(k) = 0
        BY <1>1, UnitsOnAir
  <2>2. k > 1 => d \in Units /\ Mpu(d) \in Nat /\ Au(d) \in Nat
        BY <1>1, <2>1, UnitsOnAir
  <2>3. k > 1 => \/ m = Mpu(d) /\ Au(k) = Au(d) + 1
                 \/ m = Mpu(d) + 1 /\ Au(k) = 0
        BY <1>1, <2>1
  <2> HIDE DEF m
  <2>4. QED
        BY <1>1, <2>2, <2>3
<1>4. ASSUME m \notin lost
      PROVE  s.auCount = Au(k)
  <2>1. SoundIn(m, lost) /\ k \in DOMAIN broadcast.nals
        BY <1>4 DEF SoundIn, Units
  <2>2. CASE k = 1
    <3>1. Au(k) = 0
          BY <2>2, UnitsOnAir
    <3>2. QED
          BY <1>2, <1>4, <2>1, <2>2, <3>1 DEF Counted
  <2>3. CASE k > 1 /\ m = Mpu(d) /\ Au(k) = Au(d) + 1
        BY <1>2, <1>3, <1>4, <2>1, <2>3 DEF Counted
  <2>4. CASE k > 1 /\ m # Mpu(d) /\ Au(k) = 0
        BY <1>2, <1>4, <2>1, <2>4 DEF Counted
  <2>5. QED
        BY <1>1, <1>3, <2>2, <2>3, <2>4
<1>5. /\ v.auCount = s.auCount \/ v.auCount = s.auCount + 1
      /\ m \notin lost => v.auCount = s.auCount + 1 /\ t.dtsPts = <<m, s.auCount>>
      BY <1>2 DEF Timed
\* No other unit belongs to its access unit.
<1>6. \A j \in Units :
         j \in Nat /\ (j < k => Before(j, k)) /\ (j > k => Before(k, j))
  <2> TAKE j \in Units
  <2>1. j \in Nat
        BY UnitsOnAir
  <2>2. CASE j < k
    <3>1. k \in Units /\ k <= k
          BY <1>1
    <3>2. Before(j, k)
          BY <1>1, <2>2, <3>1, UnitsDiffer
    <3>3. QED
          BY <1>1, <2>1, <2>2, <3>2
  <2>3. CASE j > k
    <3>1. BeginsAt(j) /\ j <= j
          BY <2>1 DEF BeginsAt
    <3>2. Before(k, j)
          BY <2>3, <3>1, UnitsDiffer
    <3>3. QED
          BY <1>1, <2>1, <2>3, <3>2
  <2>4. QED
        BY <1>1, <2>1, <2>2, <2>3
<1>7. Counted(v, k, m, lost)
  <2>1. m \notin lost => v.auCount = Au(k) + 1
        BY <1>4, <1>5
  <2>2. ASSUME NEW j \in DOMAIN broadcast.nals, j > k, Mpu(j) = m
        PROVE  v.auCount <= Au(j)
    <3>1. j \in Units /\ j \in Nat /\ Au(j) \in Nat /\ k \in DOMAIN broadcast.nals
          BY UnitsOnAir DEF Units
    <3>2. Before(k, j)
          BY <1>6, <2>2, <3>1
    <3>3. Au(k) < Au(j)
          BY <1>1, <2>2, <3>2 DEF Before
    <3>4. s.auCount <= Au(k)
      <4>1. k > d
            BY <1>1
      <4>2. QED
            BY <1>2, <3>1, <4>1 DEF Counted
    <3>5. QED
          BY <1>1, <1>5, <3>1, <3>3, <3>4
  <2> HIDE DEF k, m
  <2>3. QED
        BY <1>1, <2>1, <2>2 DEF Counted
<1>8. SampleGood([units |-> <<k>>, time |-> t.dtsPts], lost)
  <2> DEFINE x == [units |-> <<k>>, time |-> t.dtsPts]
  <2>1. /\ x.units = <<k>> /\ x.time = t.dtsPts
        /\ DOMAIN x.units = {1} /\ x.units[1] = k
        OBVIOUS
  <2> HIDE DEF x
  <2> SUFFICES ASSUME \A j \in DOMAIN x.units : SoundIn(Mpu(x.units[j]), lost)
               PROVE  SampleInTime(x)
      BY DEF SampleGood, x
  <2>2. m \notin lost
        BY <1>1, <2>1 DEF SoundIn
  <2>3. x.time = <<m, Au(k)>>
        BY <1>4, <1>5, <2>1, <2>2
  <2>4. AccessUnit(m, Au(k)) = {k}
    <3>1. k \in AccessUnit(m, Au(k))
          BY DEF AccessUnit, Units, Mpu, Au
    <3>2. ASSUME NEW j \in AccessUnit(m, Au(k))
          PROVE  j = k
      <4>1. j \in Units /\ Mpu(j) = m /\ Au(j) = Au(k)
            BY DEF AccessUnit, Units, Mpu, Au
      <4>2. ~Before(j, k) /\ ~Before(k, j)
            BY <1>1, <4>1 DEF Before
      <4>3. QED
            BY <1>1, <1>6, <4>1, <4>2
    <3>3. QED
          BY <3>1, <3>2
  <2>5. {x.units[j] : j \in DOMAIN x.units} = {k}
        BY <2>1
  <2>6. \A j \in DOMAIN x.units : x.units[j] = x.units[1] + j - 1
        BY <1>1, <2>1
  <2>7. broadcast.nals[x.units[1]].mpu = m /\ broadcast.nals[x.units[1]].au = Au(k)
        BY <2>1 DEF Mpu, Au
  <2> HIDE DEF k, m
  <2>8. QED
        BY <2>3, <2>4, <2>5, <2>6, <2>7 DEF SampleInTime
<1>9. UnitsRead(v, k, m, lost)
      BY <1>1, <1>7 DEF UnitsRead
<1>10. QED
       BY <1>8, <1>9

\* The index of an access unit is in its MPU, unless a packet of video was lost
\* (mmt.rs:233).
LEMMA InRange ==
    ASSUME broadcast \in Broadcasts, NEW lost, NEW s, StreamTyped(s),
           NEW d \in Nat, d + 1 \in Units, UnitsRead(s, d, Mpu(d + 1), lost),
           s.dtsPts = None, s.auCount >= broadcast.aus
    PROVE  broadcast.type = "hev1" /\ lost # {}
<1> DEFINE k == d + 1
           m == Mpu(k)
<1>1. /\ k \in DOMAIN broadcast.nals /\ k > d /\ k \in Units /\ m \in Nat
      /\ s.auCount \in Nat /\ broadcast.aus \in Nat /\ broadcast.aus > 0
      /\ broadcast.type \in {"hev1", "mp4a"}
      /\ \A j \in Units : Au(j) \in Nat /\ Au(j) < broadcast.aus
      BY UnitsOnAir DEF Units, StreamTyped, StreamTypes
<1>2. Counted(s, d, m, lost)
      BY DEF UnitsRead
<1>3. CASE broadcast.type = "mp4a"
  <2>1. s.auCount <= Au(k)
        BY <1>1, <1>2, <1>3 DEF Counted
  <2>2. Au(k) \in Nat /\ Au(k) < broadcast.aus
        BY <1>1
  <2>3. QED
        BY <1>1, <2>1, <2>2
<1>4. CASE broadcast.type = "hev1"
  <2> SUFFICES ASSUME lost = {} PROVE FALSE
      BY <1>4
  <2>1. m \notin lost /\ SoundIn(m, lost)
        BY DEF SoundIn
  <2>2. CASE d >= 1 /\ Mpu(d) = m
    <3>1. s.auCount = Au(d)
      <4>1. d \in Units
            BY <1>1, <2>2, UnitsOnAir
      <4>2. Au(d) \in Nat
            BY <1>1, <4>1
      <4>3. QED
            BY <1>2, <1>4, <2>1, <2>2, <4>2 DEF Counted
    <3>2. d \in Units
          BY <1>1, <2>2, UnitsOnAir
    <3>3. QED
          BY <1>1, <3>1, <3>2
  <2>3. CASE d = 0 \/ Mpu(d) # m
    <3>1. s.auCount = 0
          BY <1>1, <1>2, <2>1, <2>3 DEF Counted
    <3>2. QED
          BY <1>1, <3>1
  <2>4. QED
        BY <2>2, <2>3
<1>5. QED
      BY <1>1, <1>3, <1>4

-----------------------------------------------------------------------------
(* All units of a packet.                                                   *)
Samples == [units : Seq(Nat), time : (Nat \X Nat) \cup {None}]

ReadingTypes == [stream : StreamTypes, samples : Seq(Samples), outOfRange : BOOLEAN]

\* What was read of a packet for stream s up to unit d, in MPU m.
ReadSoFar(r, s, d, m, lost) ==
    /\ r \in ReadingTypes /\ StreamTyped(r.stream)
    /\ r.stream.type = s.type /\ r.stream.timestamps = s.timestamps
    /\ r.outOfRange => broadcast.type = "hev1" /\ s.type = "hev1" /\ lost # {}
    /\ ~r.outOfRange =>
          /\ UnitsRead(r.stream, d, m, lost)
          /\ \A i \in DOMAIN r.samples : SampleGood(r.samples[i], lost)

\* What is read is a record of a stream and its samples, ...
LEMMA ReadingOf ==
    ASSUME NEW v \in StreamTypes, NEW x \in Seq(Samples), NEW o \in BOOLEAN,
           NEW q, q = [stream |-> v, samples |-> x, outOfRange |-> o]
    PROVE  q \in ReadingTypes /\ q.stream = v /\ q.samples = x /\ q.outOfRange = o
BY DEF ReadingTypes

\* ... and a stream changes by its fields.
LEMMA OtherCount ==
    ASSUME NEW s \in StreamTypes, NEW n \in Nat
    PROVE  LET v == [s EXCEPT !.auCount = n]
           IN  /\ v \in StreamTypes /\ v.type = s.type /\ v.timestamps = s.timestamps
               /\ v.auCount = n /\ v.dtsPts = s.dtsPts /\ v.parser = s.parser
BY DEF StreamTypes

LEMMA OtherParser ==
    ASSUME NEW s \in StreamTypes, NEW u \in Seq(Nat)
    PROVE  LET v == [s EXCEPT !.parser = u]
           IN  /\ v \in StreamTypes /\ v.type = s.type /\ v.timestamps = s.timestamps
               /\ v.auCount = s.auCount /\ v.dtsPts = s.dtsPts /\ v.parser = u
BY DEF StreamTypes

LEMMA OtherTime ==
    ASSUME NEW s \in StreamTypes, NEW z \in (Nat \X Nat) \cup {None}
    PROVE  LET v == [s EXCEPT !.dtsPts = z]
           IN  /\ v \in StreamTypes /\ v.type = s.type /\ v.timestamps = s.timestamps
               /\ v.auCount = s.auCount /\ v.dtsPts = z /\ v.parser = s.parser
BY DEF StreamTypes

\* The time of the next access unit is taken only if none is pending.
LEMMA TimeTaken ==
    ASSUME broadcast \in Broadcasts, NEW m \in Nat,
           NEW r \in ReadingTypes, StreamTyped(r.stream)
    PROVE  LET t == TakeTime(r, m)
           IN  /\ t \in ReadingTypes /\ StreamTyped(t.stream) /\ t.samples = r.samples
               /\ t.stream.type = r.stream.type
               /\ t.stream.timestamps = r.stream.timestamps
               /\ r.outOfRange => t.outOfRange
               /\ ~t.outOfRange => ~r.outOfRange /\ Timed(r.stream, t.stream, m)
               /\ t.outOfRange /\ ~r.outOfRange =>
                     /\ r.stream.dtsPts = None /\ m \in r.stream.timestamps
                     /\ r.stream.auCount >= broadcast.aus
<1> DEFINE s == r.stream
           t == TakeTime(r, m)
<1>1. /\ s \in StreamTypes /\ s.auCount \in Nat /\ broadcast.aus \in Nat
      /\ s.auCount <= broadcast.aus /\ r.samples \in Seq(Samples)
      /\ r.outOfRange \in BOOLEAN
      BY UnitsOnAir DEF ReadingTypes, StreamTypes, StreamTyped
<1>2. CASE s.dtsPts # None \/ m \notin s.timestamps
  <2>1. t = r
        BY <1>2 DEF TakeTime
  <2>2. Timed(s, s, m)
        BY <1>2 DEF Timed
  <2>3. QED
        BY <1>1, <2>1, <2>2
<1>3. CASE s.dtsPts = None /\ m \in s.timestamps /\ s.auCount >= broadcast.aus
  <2>1. t = [r EXCEPT !.outOfRange = TRUE]
        BY <1>3 DEF TakeTime
  <2>2. t \in ReadingTypes /\ t.stream = s /\ t.samples = r.samples /\ t.outOfRange
        BY <2>1 DEF ReadingTypes
  <2>3. QED
        BY <1>3, <2>2
<1>4. CASE s.dtsPts = None /\ m \in s.timestamps /\ ~(s.auCount >= broadcast.aus)
  <2>1. t = [r EXCEPT !.stream.dtsPts = <<m, s.auCount>>, !.stream.auCount = @ + 1]
        BY <1>4 DEF TakeTime
  <2>2. /\ t.stream = [s EXCEPT !.dtsPts = <<m, s.auCount>>, !.auCount = @ + 1]
        /\ t.samples = r.samples /\ t.outOfRange = r.outOfRange
        /\ t = [stream |-> t.stream, samples |-> t.samples, outOfRange |-> t.outOfRange]
        BY <2>1 DEF ReadingTypes
  <2>3. /\ t.stream \in StreamTypes /\ t.stream.parser = s.parser
        /\ t.stream.type = s.type /\ t.stream.timestamps = s.timestamps
        /\ t.stream.dtsPts = <<m, s.auCount>> /\ t.stream.auCount = s.auCount + 1
    <3>1. <<m, s.auCount>> \in (Nat \X Nat) \cup {None} /\ s.auCount + 1 \in Nat
          /\ s.parser \in Seq(Nat)
          BY <1>1 DEF StreamTypes
    <3>2. t.stream = [s EXCEPT !.dtsPts = <<m, s.auCount>>, !.auCount = s.auCount + 1]
          BY <2>2
    <3> DEFINE z == <<m, s.auCount>>
               n == s.auCount + 1
    <3>3. z \in (Nat \X Nat) \cup {None} /\ n \in Nat /\ s \in StreamTypes
          BY <1>1, <3>1
    <3> DEFINE w == [s EXCEPT !.dtsPts = z]
    <3>4. t.stream = [w EXCEPT !.auCount = n]
          BY <1>1, <3>2 DEF StreamTypes
    <3> HIDE DEF t, s, z, n
    <3>5. /\ w \in StreamTypes /\ w.parser = s.parser /\ w.dtsPts = z
          /\ w.type = s.type /\ w.timestamps = s.timestamps
          BY <3>3, OtherTime
    <3> HIDE DEF w
    <3>6. /\ t.stream \in StreamTypes /\ t.stream.parser = s.parser
          /\ t.stream.type = s.type /\ t.stream.timestamps = s.timestamps
          /\ t.stream.dtsPts = z /\ t.stream.auCount = n
          BY <3>3, <3>4, <3>5, OtherCount
    <3>7. QED
          BY <3>6 DEF z, n
  <2> HIDE DEF t
  <2>4. t \in ReadingTypes
        BY <1>1, <2>2, <2>3 DEF ReadingTypes
  <2>5. StreamTyped(t.stream)
        BY <1>1, <1>4, <2>3 DEF StreamTyped
  <2>6. Timed(s, t.stream, m)
        BY <1>4, <2>3 DEF Timed
  <2>7. QED
        BY <1>1, <2>2, <2>3, <2>4, <2>5, <2>6 DEF t
<1>5. QED
      BY <1>2, <1>3, <1>4

\* One unit more of a packet (mmt.rs:225-280).
LEMMA UnitMore ==
    ASSUME broadcast \in Broadcasts, NEW lost, NEW s, NEW r, NEW d \in Nat, d + 1 \in Units,
           ReadSoFar(r, s, d, Mpu(d + 1), lost),
           Mpu(d + 1) \notin lost => Mpu(d + 1) \in s.timestamps
    PROVE  ReadSoFar(ReadUnit(r, Mpu(d + 1), d + 1), s, d + 1, Mpu(d + 1), lost)
<1> DEFINE k == d + 1
           m == Mpu(k)
           t == TakeTime(r, m)
           q == ReadUnit(r, m, k)
<1> SUFFICES ReadSoFar(q, s, k, m, lost)
    OBVIOUS
<1>1. /\ r \in ReadingTypes /\ StreamTyped(r.stream) /\ m \in Nat /\ k \in Nat
      /\ r.stream.type = s.type /\ r.stream.timestamps = s.timestamps
      /\ r.outOfRange \in BOOLEAN /\ k \in Units /\ d <= k
      BY UnitsOnAir DEF ReadSoFar, ReadingTypes
<1>2. /\ t \in ReadingTypes /\ StreamTyped(t.stream) /\ t.samples = r.samples
      /\ t.stream.type = s.type /\ t.stream.timestamps = s.timestamps
      /\ r.outOfRange => t.outOfRange
      /\ ~t.outOfRange => ~r.outOfRange /\ Timed(r.stream, t.stream, m)
      /\ t.outOfRange /\ ~r.outOfRange =>
            /\ r.stream.dtsPts = None /\ m \in r.stream.timestamps
            /\ r.stream.auCount >= broadcast.aus
      BY <1>1, TimeTaken
<1>3. q = IF t.outOfRange THEN t
          ELSE CASE t.stream.type = "hev1" -> ParseHevc(t, k)
                 [] t.stream.type = "mp4a" -> Emit(t, <<k>>)
                 [] OTHER -> t
      BY DEF ReadUnit
<1>4. /\ s.type \in {None, broadcast.type} /\ (s.timestamps # {} => s.type # None)
      /\ broadcast.type \in {"hev1", "mp4a"} /\ None \notin {"hev1", "mp4a"}
      BY <1>1, UnitsOnAir, MmtAssumption DEF StreamTyped, MmtAssumption
<1> HIDE DEF t, q
<1>5. CASE t.outOfRange
  <2>1. q = t
        BY <1>3, <1>5
  <2>2. broadcast.type = "hev1" /\ s.type = "hev1" /\ lost # {}
    <3>1. CASE r.outOfRange
          BY <3>1 DEF ReadSoFar
    <3>2. CASE ~r.outOfRange
      <4>1. UnitsRead(r.stream, d, Mpu(d + 1), lost)
            BY <3>2 DEF ReadSoFar
      <4>2. broadcast.type = "hev1" /\ lost # {}
            BY <1>1, <1>2, <1>5, <3>2, <4>1, InRange
      <4>3. s.type = "hev1"
            BY <1>1, <1>2, <1>4, <1>5, <3>2, <4>2
      <4>4. QED
            BY <4>2, <4>3
    <3>3. QED
          BY <3>1, <3>2
  <2>3. QED
        BY <1>2, <1>5, <2>1, <2>2 DEF ReadSoFar
<1>6. CASE ~t.outOfRange
  <2>1. /\ ~r.outOfRange /\ Timed(r.stream, t.stream, m)
        /\ UnitsRead(r.stream, d, m, lost)
        /\ \A i \in DOMAIN t.samples : SampleGood(t.samples[i], lost)
        /\ m \notin lost => m \in r.stream.timestamps
        BY <1>1, <1>2, <1>6 DEF ReadSoFar
  <2>2. /\ t.stream \in StreamTypes /\ t.samples \in Seq(Samples) /\ t.outOfRange = FALSE
        /\ t.stream.parser = r.stream.parser /\ t.stream.parser \in Seq(Nat)
        /\ t.stream.dtsPts \in (Nat \X Nat) \cup {None}
        BY <1>2, <1>6, <2>1 DEF ReadingTypes, Timed, StreamTypes
\* What a unit that is read leaves.
  <2>3. ASSUME NEW v \in StreamTypes,
               v.auCount = t.stream.auCount, v.type = s.type, v.timestamps = s.timestamps,
               UnitsRead(v, k, m, lost), NEW x \in Seq(Samples),
               q = [stream |-> v, samples |-> x, outOfRange |-> FALSE],
               \A i \in DOMAIN x : SampleGood(x[i], lost)
        PROVE  ReadSoFar(q, s, k, m, lost)
    <3>1. q \in ReadingTypes /\ q.stream = v /\ q.samples = x /\ q.outOfRange = FALSE
          BY <2>3, ReadingOf
    <3>2. StreamTyped(v)
          BY <1>2, <2>3 DEF StreamTyped
    <3>3. QED
          BY <2>3, <3>1, <3>2 DEF ReadSoFar
\* What a sample leaves.
  <2>4. ASSUME NEW u \in Seq(Nat),
               SampleGood([units |-> u, time |-> t.stream.dtsPts], lost)
        PROVE  LET e == Emit(t, u)
               IN  /\ e = [stream |-> [t.stream EXCEPT !.dtsPts = None],
                           samples |-> e.samples, outOfRange |-> FALSE]
                   /\ e.samples \in Seq(Samples)
                   /\ \A i \in DOMAIN e.samples : SampleGood(e.samples[i], lost)
    <3> DEFINE x == [units |-> u, time |-> t.stream.dtsPts]
               e == Emit(t, u)
    <3>1. x \in Samples
          BY <2>2 DEF Samples
    <3>2. t = [stream |-> t.stream, samples |-> t.samples, outOfRange |-> t.outOfRange]
          BY <1>2 DEF ReadingTypes
    <3>3. e = [stream |-> [t.stream EXCEPT !.dtsPts = None],
               samples |-> Append(t.samples, x), outOfRange |-> FALSE]
      <4>1. e = [t EXCEPT !.samples = Append(@, x), !.stream.dtsPts = None]
            BY DEF Emit
      <4> HIDE DEF x, e
      <4>2. QED
            BY <2>2, <3>2, <4>1
    <3>4. e.samples = Append(t.samples, x) /\ e.samples \in Seq(Samples)
      <4>1. e.samples = Append(t.samples, x)
            BY <3>3
      <4> HIDE DEF x, e
      <4>2. QED
            BY <2>2, <3>1, <4>1
    <3> HIDE DEF x, e
    <3>5. ASSUME NEW i \in DOMAIN e.samples
          PROVE  SampleGood(e.samples[i], lost)
      <4>1. (i \in DOMAIN t.samples /\ e.samples[i] = t.samples[i]) \/ e.samples[i] = x
            BY <2>2, <3>1, <3>4
      <4>2. SampleGood(x, lost)
            BY <2>4 DEF x
      <4>3. QED
            BY <2>1, <4>1, <4>2
    <3>6. QED
          BY <3>3, <3>4, <3>5 DEF e
  <2>5. CASE t.stream.type = "hev1"
    <3>1. broadcast.type = "hev1" /\ s.type = "hev1" /\ q = ParseHevc(t, k)
          BY <1>2, <1>3, <1>4, <1>6, <2>5
    <3>2. CASE ~Delimiter(k)
      <4>1. q = [t EXCEPT !.stream.parser = Append(@, k)]
            BY <3>1, <3>2 DEF ParseHevc, Delimiter
      <4> DEFINE v == [t.stream EXCEPT !.parser = Append(r.stream.parser, k)]
      <4>2. q = [stream |-> v, samples |-> t.samples, outOfRange |-> FALSE]
        <5>1. t = [stream |-> t.stream, samples |-> t.samples, outOfRange |-> FALSE]
              BY <1>2, <2>2 DEF ReadingTypes
        <5>2. QED
              BY <2>2, <4>1, <5>1
      <4>3. /\ v \in StreamTypes /\ v.parser = Append(r.stream.parser, k)
            /\ v.auCount = t.stream.auCount /\ v.dtsPts = t.stream.dtsPts
            /\ v.type = s.type /\ v.timestamps = s.timestamps
        <5>1. Append(r.stream.parser, k) \in Seq(Nat) /\ t.stream.auCount \in Nat
              BY <1>1, <2>2 DEF StreamTypes
        <5> HIDE DEF k
        <5>2. QED
              BY <1>2, <2>2, <5>1, OtherParser
      <4> HIDE DEF v
      <4>4. UnitsRead(v, d + 1, Mpu(d + 1), lost)
            BY <1>1, <2>1, <3>1, <3>2, <4>3, SliceRead
      <4>5. QED
            BY <2>1, <2>2, <2>3, <4>2, <4>3, <4>4
    <3>3. CASE Delimiter(k) /\ r.stream.parser = << >>
      <4>1. q = t
            BY <2>2, <3>1, <3>3 DEF ParseHevc, Delimiter
      <4>2. UnitsRead(t.stream, d + 1, Mpu(d + 1), lost)
            BY <1>1, <2>1, <2>2, <3>1, <3>3, DelimiterDropped
      <4>3. q = [stream |-> t.stream, samples |-> t.samples, outOfRange |-> FALSE]
            BY <1>2, <2>2, <4>1 DEF ReadingTypes
      <4>4. QED
            BY <1>2, <2>1, <2>2, <2>3, <4>1, <4>2, <4>3
    <3>4. CASE Delimiter(k) /\ r.stream.parser # << >>
      <4> DEFINE e == Emit(t, t.stream.parser)
      <4>1. q = [e EXCEPT !.stream.parser = <<k>>]
            BY <2>2, <3>1, <3>4 DEF ParseHevc, Delimiter
      <4>2. Parsed(r.stream, d, lost)
            BY <2>1, <3>1 DEF UnitsRead
      <4>3. SampleGood([units |-> r.stream.parser, time |-> t.stream.dtsPts], lost)
            BY <1>1, <2>1, <3>1, <3>4, <4>2, SampleOfParser
      <4> DEFINE w == [t.stream EXCEPT !.dtsPts = None]
                 v == [w EXCEPT !.parser = <<k>>]
      <4>4. /\ e = [stream |-> [t.stream EXCEPT !.dtsPts = None],
                    samples |-> e.samples, outOfRange |-> FALSE]
            /\ e.samples \in Seq(Samples)
            /\ \A i \in DOMAIN e.samples : SampleGood(e.samples[i], lost)
            BY <2>2, <2>4, <4>3
      <4>5. q = [stream |-> v, samples |-> e.samples, outOfRange |-> FALSE]
        <5> HIDE DEF e
        <5>1. q = [stream |-> [e.stream EXCEPT !.parser = <<k>>],
                   samples |-> e.samples, outOfRange |-> FALSE]
          <6>1. q = [e EXCEPT !.stream.parser = <<k>>]
                BY <4>1
          <6> DEFINE es == e.stream
                     x == e.samples
          <6>2. e = [stream |-> es, samples |-> x, outOfRange |-> FALSE]
                BY <4>4
          <6> HIDE DEF k, es, x
          <6>3. q = [stream |-> [es EXCEPT !.parser = <<k>>], samples |-> x, outOfRange |-> FALSE]
                BY <6>1, <6>2
          <6>4. QED
                BY <6>3 DEF es, x
        <5>2. e.stream = w
              BY <4>4
        <5> HIDE DEF w
        <5>3. QED
              BY <5>1, <5>2
      <4>6. /\ v \in StreamTypes /\ v.parser = <<k>>
            /\ v.auCount = t.stream.auCount /\ v.dtsPts = None
            /\ v.type = s.type /\ v.timestamps = s.timestamps
        <5>1. <<k>> \in Seq(Nat) /\ None \in (Nat \X Nat) \cup {None}
              BY <1>1
        <5>2. /\ w \in StreamTypes /\ w.auCount = t.stream.auCount /\ w.dtsPts = None
              /\ w.type = s.type /\ w.timestamps = s.timestamps
              BY <1>2, <2>2, <5>1, OtherTime
        <5> HIDE DEF k, w
        <5>3. QED
              BY <5>1, <5>2, OtherParser
      <4> HIDE DEF e, w, v
      <4>7. UnitsRead(v, d + 1, Mpu(d + 1), lost)
            BY <1>1, <2>1, <3>1, <3>4, <4>6, DelimiterRead
      <4>8. QED
            BY <2>3, <4>4, <4>5, <4>6, <4>7
    <3>5. QED
          BY <1>1, <3>2, <3>3, <3>4
  <2>6. CASE t.stream.type = "mp4a"
    <3>1. broadcast.type = "mp4a" /\ s.type = "mp4a" /\ q = Emit(t, <<k>>)
          BY <1>2, <1>3, <1>4, <1>6, <2>6
    <3>2. r.stream.parser = << >>
          BY <2>1, <3>1 DEF UnitsRead
    <3> DEFINE v == [t.stream EXCEPT !.dtsPts = None]
    <3>3. /\ v \in StreamTypes /\ v.parser = << >> /\ v.dtsPts = None
          /\ v.auCount = t.stream.auCount
          /\ v.type = s.type /\ v.timestamps = s.timestamps
      <4>1. t.stream.auCount \in Nat
            BY <2>2 DEF StreamTypes
      <4>2. QED
            BY <1>2, <2>2, <3>2, <4>1, OtherTime
    <3>4. <<k>> \in Seq(Nat)
          BY <1>1
    <3>5. /\ UnitsRead(v, d + 1, Mpu(d + 1), lost)
          /\ SampleGood([units |-> <<d + 1>>, time |-> t.stream.dtsPts], lost)
      <4> HIDE DEF v
      <4>1. QED
            BY <1>1, <2>1, <3>1, <3>3, AudioRead
    <3>6. /\ q = [stream |-> v, samples |-> q.samples, outOfRange |-> FALSE]
          /\ q.samples \in Seq(Samples)
          /\ \A i \in DOMAIN q.samples : SampleGood(q.samples[i], lost)
          BY <2>4, <3>1, <3>4, <3>5
    <3> HIDE DEF v
    <3>7. QED
          BY <2>3, <3>3, <3>5, <3>6
  <2>7. CASE t.stream.type \notin {"hev1", "mp4a"}
    <3>1. q = t /\ s.type = None /\ s.timestamps = {}
          BY <1>2, <1>3, <1>4, <1>6, <2>7
    <3>2. m \in lost /\ t.stream.dtsPts = r.stream.dtsPts
          /\ t.stream.auCount = r.stream.auCount
          BY <1>1, <2>1, <3>1 DEF Timed
    <3>3. UnitsRead(r.stream, k, m, lost)
      <4>1. \A j \in d + 1 .. k : j \in Units /\ Mpu(j) = m
            BY <1>1
      <4> HIDE DEF m, k
      <4>2. QED
            BY <1>1, <2>1, <3>2, <4>1, UnitsPassedOver
    <3>4. UnitsRead(t.stream, k, m, lost)
          BY <2>2, <3>2, <3>3
             DEF UnitsRead, Counted, Parsed, Pending, OneAccessUnit
    <3>5. q = [stream |-> t.stream, samples |-> t.samples, outOfRange |-> FALSE]
          BY <1>2, <2>2, <3>1 DEF ReadingTypes
    <3>6. QED
          BY <1>2, <2>1, <2>2, <2>3, <3>1, <3>4, <3>5
  <2>8. QED
        BY <2>5, <2>6, <2>7 DEF q
<1>7. QED
      BY <1>5, <1>6 DEF q

\* Before its first unit nothing of a packet is read.
LEMMA NothingRead ==
    ASSUME NEW s, StreamTyped(s)
    PROVE  LET r == Reading(s)
           IN  /\ r \in ReadingTypes /\ r.stream = s
               /\ DOMAIN r.samples = {} /\ r.outOfRange = FALSE
<1>1. s \in StreamTypes
      BY DEF StreamTyped
<1>2. Reading(s) = [stream |-> s, samples |-> << >>, outOfRange |-> FALSE]
      BY DEF Reading
<1>3. QED
      BY <1>1, <1>2 DEF ReadingTypes

\* All units of a packet, one after the other.
LEMMA UnitsOfAPacket ==
    ASSUME broadcast \in Broadcasts, NEW p, p.first \in Nat \ {0}, p.last \in Nat,
           p.first - 1 <= p.last, \A k \in p.first .. p.last : k \in Units /\ Mpu(k) = p.mpu,
           NEW lost, NEW s, StreamTyped(s), UnitsRead(s, p.first - 1, p.mpu, lost),
           p.mpu \notin lost => p.mpu \in s.timestamps
    PROVE  ReadSoFar(Readings(s, p)[p.last], s, p.last, p.mpu, lost)
<1> DEFINE b == p.first - 1
           read == Readings(s, p)
           T == {k \in b .. p.last : ~ReadSoFar(read[k], s, k, p.mpu, lost)}
<1>1. /\ b \in Nat /\ p.last \in Nat /\ b <= p.last /\ T \subseteq Nat
      /\ b \in b .. p.last /\ p.last \in b .. p.last
      OBVIOUS
<1>2. /\ read[b] = Reading(s)
      /\ \A k \in p.first .. p.last : read[k] = ReadUnit(read[k - 1], p.mpu, k)
      BY ReadingsDefined
<1>3. ReadSoFar(Reading(s), s, b, p.mpu, lost)
  <2>1. /\ Reading(s) \in ReadingTypes /\ Reading(s).stream = s
        /\ DOMAIN Reading(s).samples = {} /\ Reading(s).outOfRange = FALSE
        BY NothingRead
  <2>2. QED
        BY <2>1 DEF ReadSoFar
<1> SUFFICES T = {}
    BY <1>1
<1>4. SUFFICES ASSUME T # {} PROVE FALSE
      OBVIOUS
<1>5. PICK k \in T : \A j \in T : ~(<<j, k>> \in OpToRel(<, Nat))
      BY <1>1, <1>4, NatLessThanWellFounded, WFMin
<1>6. \A j \in T : ~(j < k)
      BY <1>1, <1>5 DEF OpToRel
<1>7. k \in b .. p.last /\ ~ReadSoFar(read[k], s, k, p.mpu, lost)
      OBVIOUS
<1>8. k # b
      BY <1>2, <1>3, <1>7
<1>9. /\ k - 1 \in b .. p.last /\ k - 1 < k /\ k \in p.first .. p.last /\ k - 1 \in Nat
      /\ (k - 1) + 1 = k
      BY <1>1, <1>7, <1>8
<1>10. ReadSoFar(read[k - 1], s, k - 1, p.mpu, lost)
       BY <1>6, <1>9
<1>11. k \in Units /\ Mpu(k) = p.mpu /\ read[k] = ReadUnit(read[k - 1], p.mpu, k)
       BY <1>2, <1>9
<1> HIDE DEF b, read, T
<1>12. QED
  <2> DEFINE d == k - 1
  <2>1. d \in Nat /\ d + 1 = k /\ ReadSoFar(read[d], s, d, p.mpu, lost)
        BY <1>9, <1>10
  <2>2. read[k] = ReadUnit(read[d], p.mpu, k)
        BY <1>11
  <2> HIDE DEF d
  <2>3. ReadSoFar(ReadUnit(read[d], Mpu(d + 1), d + 1), s, d + 1, Mpu(d + 1), lost)
        BY <1>11, <2>1, UnitMore
  <2>4. QED
        BY <1>7, <1>11, <2>1, <2>2, <2>3

\* What read_mfu() makes of the units of a packet (mmt.rs:205-300).
LEMMA ReadMfuOfUnits ==
    ASSUME broadcast \in Broadcasts, next \in DOMAIN broadcast.packets,
           Packet(next).kind # "Metadata",
           NEW s, NEW d, NEW clear \in BOOLEAN, ReadMfu(s, d, clear),
           Packet(next).aggregated \/ Accepts(d, Packet(next).kind),
           NEW lost, StreamTyped(s),
           UnitsRead(s, Packet(next).first - 1, Packet(next).mpu, lost),
           Packet(next).mpu \notin lost => Packet(next).mpu \in s.timestamps
    PROVE  LET p == Packet(next)
           IN  /\ StreamTyped(stream') /\ panic' \in {None, "length", "au_count"}
               /\ out'.units = Returned(d, clear)
               /\ panic' # None => out'.samples = << >>
               /\ panic' = "au_count" => stream'.type = "hev1" /\ lost # {}
               /\ panic' = None =>
                     /\ UnitsRead(stream',
                                  IF Returned(d, clear) = << >> THEN p.first - 1 ELSE p.last,
                                  p.mpu, lost)
                     /\ \A i \in DOMAIN out'.samples : SampleGood(out'.samples[i], lost)
<1> DEFINE p == Packet(next)
           units == Returned(d, clear)
           e == IF units = << >> THEN p.first - 1 ELSE p.last
           read == IF units = << >> THEN Reading(s) ELSE Readings(s, p)[p.last]
           bad == BadLength(units, p.aggregated)
<1>1. ReadSoFar(read, s, e, p.mpu, lost)
  <2>1. CASE units = << >>
    <3>1. read = Reading(s) /\ e = p.first - 1
          BY <2>1
    <3> HIDE DEF read, e
    <3>2. /\ read \in ReadingTypes /\ read.stream = s
          /\ DOMAIN read.samples = {} /\ read.outOfRange = FALSE
          BY <3>1, NothingRead
    <3>3. QED
          BY <3>1, <3>2 DEF ReadSoFar
  <2>2. CASE units # << >>
    <3>1. /\ p.first \in Nat \ {0} /\ p.last \in Nat /\ p.first - 1 <= p.last
          /\ \A k \in p.first .. p.last : k \in Units /\ Mpu(k) = p.mpu
          BY PacketsInTurn
    <3>2. ReadSoFar(Readings(s, p)[p.last], s, p.last, p.mpu, lost)
          BY <3>1, UnitsOfAPacket
    <3>3. QED
          BY <2>2, <3>2
  <2>3. QED
        BY <2>1, <2>2
<1>2. IF bad /\ ~read.outOfRange
      THEN /\ panic' = "length" /\ stream' = s
           /\ out' = [units |-> units, samples |-> << >>]
      ELSE /\ panic' = IF read.outOfRange THEN "au_count" ELSE None
           /\ stream' = read.stream
           /\ out' = [units |-> units,
                      samples |-> IF read.outOfRange THEN << >> ELSE read.samples]
      BY DEF ReadMfu, Returned, ReadOne
<1> HIDE DEF units, e, read, bad
<1>3. None \notin {"length", "au_count"}
      BY MmtAssumption DEF MmtAssumption
<1>4. CASE bad /\ ~read.outOfRange
      BY <1>2, <1>3, <1>4 DEF units
<1>5. CASE read.outOfRange
  <2>1. read.stream.type = "hev1" /\ lost # {} /\ StreamTyped(read.stream)
        BY <1>1, <1>5 DEF ReadSoFar
  <2>2. panic' = "au_count" /\ stream' = read.stream
        /\ out' = [units |-> units, samples |-> << >>]
        BY <1>2, <1>5
  <2>3. QED
        BY <1>3, <2>1, <2>2 DEF units
<1>6. CASE ~bad /\ ~read.outOfRange
  <2>1. /\ UnitsRead(read.stream, e, p.mpu, lost) /\ StreamTyped(read.stream)
        /\ \A i \in DOMAIN read.samples : SampleGood(read.samples[i], lost)
        BY <1>1, <1>6 DEF ReadSoFar
  <2>2. panic' = None /\ stream' = read.stream
        /\ out'.units = units /\ out'.samples = read.samples
        BY <1>2, <1>6
  <2>3. QED
        BY <1>3, <2>1, <2>2 DEF units, e
<1>7. QED
      BY <1>4, <1>5, <1>6

-----------------------------------------------------------------------------
(* Every step.                                                              *)

\* What is on air stays.
LEMMA StillOnAir ==
    ASSUME broadcast' = broadcast
    PROVE  /\ \A k : (Mpu(k))' = Mpu(k)
           /\ UnitsRead(stream, Done, mpu, damaged)'
                 <=> UnitsRead(stream', Done', mpu', damaged')
           /\ StreamTyped(stream)' <=> StreamTyped(stream')
           /\ (\A i \in DOMAIN out'.samples : SampleGood(out'.samples[i], damaged'))
                 => SamplesInTime'
<1>1. \A k : (Mpu(k))' = Mpu(k) /\ (Au(k))' = Au(k) /\ (Delimiter(k))' = Delimiter(k)
      BY DEF Mpu, Au, Delimiter
<1>2. UnitsRead(stream, Done, mpu, damaged)' <=> UnitsRead(stream', Done', mpu', damaged')
      BY DEF UnitsRead, Counted, Parsed, Pending, OneAccessUnit, SoundIn, Mpu, Au, Delimiter
<1>3. StreamTyped(stream)' <=> StreamTyped(stream')
      BY DEF StreamTyped
<1>4. (\A i \in DOMAIN out'.samples : SampleGood(out'.samples[i], damaged'))
         => SamplesInTime'
      BY DEF SampleGood, SamplesInTime, Sound, SoundIn, Mpu, SampleInTime, AccessUnit
<1>5. QED
      BY <1>1, <1>2, <1>3, <1>4

\* What is to be shown of a step.
LEMMA TimesAfter ==
    ASSUME TimesInv, broadcast' = broadcast, known' \in BOOLEAN, intact' \in BOOLEAN,
           mpu' \in Nat, StreamTyped(stream'),
           panic' \in {None, "length", "au_count"},
           panic' = "au_count" => stream'.type = "hev1" /\ damaged' # {},
           panic' = None =>
              /\ OnAirInv'
              /\ IF deflagmenter'.state = "Init"
                 THEN stream'.auCount = 0 /\ stream'.parser = << >> /\ stream'.dtsPts = None
                 ELSE UnitsRead(stream', Done', mpu', damaged'),
           \A i \in DOMAIN out'.samples : SampleGood(out'.samples[i], damaged')
    PROVE  TimesInv'
<1>1. /\ UnitsRead(stream, Done, mpu, damaged)'
            <=> UnitsRead(stream', Done', mpu', damaged')
      /\ StreamTyped(stream)' <=> StreamTyped(stream')
      /\ SamplesInTime'
      BY StillOnAir
<1>2. CountStaysInMpu'
      BY DEF CountStaysInMpu
<1>3. (broadcast.packets # << >>)'
      BY DEF TimesInv
<1>4. QED
      BY <1>1, <1>2, <1>3 DEF TimesInv

\* How far the packets have come, after one more: read, or skipped.
LEMMA OnAirKept ==
    ASSUME ReceptionInv, TimesInv, panic = None, next \in DOMAIN broadcast.packets,
           next' = next + 1, broadcast' = broadcast, damaged \subseteq damaged',
           \/ /\ Packet(next).kind # "Metadata"
              /\ deflagmenter'.state # "Init" /\ mpu' = Packet(next).mpu
              /\ Packet(next).mpu \notin damaged' =>
                    (intact' <=>
                       (Packet(next).kind \in {"FragmentBody", "FragmentTail"} => intact))
           \/ /\ deflagmenter' = deflagmenter /\ mpu' = mpu
              /\ Packet(next).kind = "Metadata" \/ Packet(next).mpu \in damaged'
    PROVE  OnAirInv'
<1> DEFINE p == Packet(next)
           q == Packet(next - 1)
<1>1. /\ broadcast \in Broadcasts /\ OnAirInv
      /\ deflagmenter.state # "Init" =>
            deflagmenter.last \in DOMAIN broadcast.packets /\ deflagmenter.last < next
      BY DEF ReceptionInv, TimesInv
<1>2. /\ next \in Nat \ {0} /\ p.mpu \in Nat /\ p.first \in Nat \ {0} /\ p.last \in Nat
      /\ p.kind = "Metadata" => p.last = p.first - 1
      /\ p.kind # "Metadata" => p.first <= p.last
      /\ \A k \in p.first .. p.last : k \in Units /\ Mpu(k) = p.mpu
      /\ next = 1 => p.first = 1 /\ p.kind \notin {"FragmentBody", "FragmentTail"}
      /\ next > 1 =>
            /\ next - 1 \in DOMAIN broadcast.packets
            /\ p.mpu \in {q.mpu, q.mpu + 1}
            /\ p.first = IF Unfinished(next - 1) THEN q.first ELSE q.last + 1
            /\ Unfinished(next - 1) <=> p.kind \in {"FragmentBody", "FragmentTail"}
      BY <1>1, PacketsInTurn
<1>3. /\ Begun \in Nat /\ Begun' = p.last
      /\ Begun = IF p.kind \in {"FragmentBody", "FragmentTail"} THEN p.first ELSE p.first - 1
      BY <1>1, HowFar
<1>4. /\ \A k \in 1 .. Begun : Mpu(k) \notin damaged => deflagmenter.state # "Init"
      /\ Begun >= 1 /\ Mpu(Begun) \notin damaged => mpu = Mpu(Begun)
      /\ deflagmenter.state # "Init" => mpu <= q.mpu
      /\ next > 1 /\ q.kind # "Metadata" /\ q.mpu \notin damaged => intact
      BY <1>1 DEF OnAirInv
<1>5. deflagmenter.state # "Init" => next > 1 /\ mpu \in Nat /\ q.mpu \in Nat
  <2>1. ASSUME deflagmenter.state # "Init" PROVE next > 1
    <3>1. deflagmenter.last \in Nat \ {0}
          BY <1>1, <2>1, PacketsInTurn
    <3>2. QED
          BY <1>1, <1>2, <2>1, <3>1
  <2>2. next > 1 => q.mpu \in Nat
        BY <1>1, <1>2, PacketsInTurn
  <2>3. QED
        BY <2>1, <2>2 DEF TimesInv
<1>6. deflagmenter.state # "Init" => mpu <= p.mpu
      BY <1>2, <1>4, <1>5
<1>7. next' - 1 = next /\ next' > 1 /\ (Packet(next - 1))' = p
      BY <1>2 DEF Packet
<1>8. p.kind = "Metadata" => Begun' = Begun
      BY <1>2, <1>3
\* The unit on air is intact if its MPU is.
<1>9. p.kind \in {"FragmentBody", "FragmentTail"} /\ p.mpu \notin damaged => intact
  <2> SUFFICES ASSUME p.kind \in {"FragmentBody", "FragmentTail"}, p.mpu \notin damaged
               PROVE  intact
      OBVIOUS
  <2>1. next > 1 /\ Unfinished(next - 1) /\ p.first = q.first /\ p.first <= p.last
        BY <1>2
  <2>2. /\ q.kind # "Metadata" /\ q.first = q.last
        /\ \A k \in q.first .. q.last : Mpu(k) = q.mpu
        BY <1>1, <1>2, <2>1, PacketsInTurn DEF Unfinished
  <2>3. p.first \in p.first .. p.last /\ q.first \in q.first .. q.last
        BY <1>2, <2>1, <2>2
  <2>4. q.mpu = p.mpu
        BY <1>2, <2>1, <2>2, <2>3
  <2>5. QED
        BY <1>4, <2>1, <2>2, <2>4
<1> HIDE DEF p, q
<1>10. ASSUME NEW k \in 1 .. Begun', Mpu(k) \notin damaged'
       PROVE  deflagmenter'.state # "Init"
  <2>1. CASE deflagmenter'.state # "Init"
        BY <2>1
  <2>2. CASE deflagmenter' = deflagmenter /\ (p.kind = "Metadata" \/ p.mpu \in damaged')
    <3>1. k \in 1 .. Begun
      <4>1. CASE p.kind = "Metadata"
            BY <1>8, <4>1
      <4>2. CASE p.mpu \in damaged'
        <5>1. ~(k \in p.first .. p.last)
              BY <1>2, <1>10, <4>2
        <5>2. QED
              BY <1>2, <1>3, <5>1
      <4>3. QED
            BY <2>2, <4>1, <4>2
    <3>2. QED
          BY <1>4, <1>10, <2>2, <3>1
  <2>3. QED
        BY <2>1, <2>2 DEF p
<1>11. Begun' >= 1 /\ Mpu(Begun') \notin damaged' => mpu' = Mpu(Begun')
  <2>1. CASE p.kind = "Metadata"
        BY <1>4, <1>8, <2>1 DEF p
  <2>2. CASE p.kind # "Metadata"
    <3>1. Mpu(Begun') = p.mpu
          BY <1>2, <1>3, <2>2
    <3>2. QED
          BY <2>2, <3>1 DEF p
  <2>3. QED
        BY <2>1, <2>2
<1>12. deflagmenter'.state # "Init" => mpu' <= p.mpu
       BY <1>2, <1>6 DEF p
<1>13. p.kind # "Metadata" /\ p.mpu \notin damaged' => intact'
       BY <1>9 DEF p
<1>14. \A k : (Mpu(k))' = Mpu(k)
       BY StillOnAir
<1>15. /\ (\A k \in 1 .. Begun : Mpu(k) \notin damaged => deflagmenter.state # "Init")'
       /\ (Begun >= 1 /\ Mpu(Begun) \notin damaged => mpu = Mpu(Begun))'
  <2>1. (Mpu(Begun))' = Mpu(Begun')
        BY DEF Mpu
  <2>2. QED
        BY <1>10, <1>11, <1>14, <2>1
<1>16. /\ (deflagmenter.state # "Init" => mpu <= Packet(next - 1).mpu)'
       /\ (next > 1 /\ Packet(next - 1).kind # "Metadata" /\ Packet(next - 1).mpu \notin damaged
             => intact)'
       BY <1>7, <1>12, <1>13
<1>17. QED
       BY <1>15, <1>16 DEF OnAirInv

\* Nothing is good, too.
LEMMA NothingGood ==
    ASSUME NEW lost
    PROVE  \A i \in DOMAIN Nothing.samples : SampleGood(Nothing.samples[i], lost)
<1>1. Nothing.samples = << >>
      BY DEF Nothing
<1>2. DOMAIN << >> = {}
      OBVIOUS
<1>3. QED
      BY <1>1, <1>2

\* A packet that is read (mmt.rs:160-300).
LEMMA ReadPacketKeepsTimes ==
    ASSUME ReceptionInv, TimesInv, Reads,
           ReadPacket(Outcome(Own, broadcast.scrambled))
    PROVE  TimesInv'
<1> DEFINE o == Outcome(Own, broadcast.scrambled)
           p == Packet(next)
           s == EnterMpu(p.mpu)
           d == Sync(deflagmenter, next)
<1>1. /\ broadcast \in Broadcasts /\ broadcast.scrambled \in BOOLEAN
      /\ DescramblerTypeOK /\ OwnKeysInv /\ next \in Nat \ {0}
      BY PacketsOnAir DEF ReceptionInv
<1>2. /\ panic = None /\ next \in DOMAIN broadcast.packets
      /\ next' = next + 1 /\ broadcast' = broadcast /\ ~Ignored(next)
      /\ known' = TRUE /\ mpu' = p.mpu /\ Remember(o = "clear")
      BY DEF ReadPacket, Advance
<1>3. /\ o \in {"clear", "garbled", "failed"}
      /\ Alone => o # "garbled"
      /\ o # "failed" => ~Deaf
      BY <1>1, KeysOfAStream
<1>4. /\ p.kind # "Metadata" /\ p.kind \in MpuKinds /\ p.mpu \in Nat
      /\ p.first \in Nat \ {0} /\ p.last \in Nat /\ p.first - 1 <= p.last
      /\ \A k \in p.first .. p.last : k \in Units /\ Mpu(k) = p.mpu
      BY <1>1, <1>2, PacketsInTurn DEF Ignored
<1>5. /\ damaged \subseteq damaged' /\ intact' \in BOOLEAN
      /\ p.mpu \notin damaged' =>
            /\ o = "clear" /\ p.mpu \in stream.timestamps
            /\ intact' <=> (p.kind \in {"FragmentBody", "FragmentTail"} => intact)
  <2>1. intact \in BOOLEAN
        BY DEF TimesInv
  <2>2. QED
        BY <1>2, <2>1 DEF Remember
<1>6. Done' = IF Unfinished(next) THEN p.first - 1 ELSE p.last
      BY <1>1, <1>2, HowFar
<1>7. /\ StreamTyped(s) /\ s.type = stream.type /\ s.timestamps = stream.timestamps
      /\ UnitsRead(s, p.first - 1, p.mpu, damaged')
      BY <1>1, <1>2, <1>4, <1>5, MpuEntered
<1>8. ASSUME deflagmenter'.state # "Init" PROVE OnAirInv'
      BY <1>2, <1>4, <1>5, <1>8, OnAirKept
\* A unit of which a packet was lost is passed over.
<1>9. ASSUME NEW v, StreamTyped(v), UnitsRead(v, p.first - 1, p.mpu, damaged'),
             p.mpu \in damaged'
      PROVE  UnitsRead(v, Done', p.mpu, damaged')
  <2> DEFINE b == p.first - 1
  <2>1. b \in Nat /\ b <= p.last /\ b + 1 = p.first
        BY <1>4
  <2> HIDE DEF p
  <2>2. UnitsRead(v, b, p.mpu, damaged')
        BY <1>9
  <2> HIDE DEF b
  <2>3. \A k \in b + 1 .. p.last : k \in Units /\ Mpu(k) = p.mpu
    <3>1. \A k \in p.first .. p.last : k \in Units /\ Mpu(k) = p.mpu
          BY <1>4
    <3>2. QED
          BY <2>1, <3>1
  <2>4. UnitsRead(v, p.last, p.mpu, damaged')
    <3>1. PICK e \in Nat, u \in damaged' : e = p.last /\ u = p.mpu /\ u \in Nat
          BY <1>4, <1>9
    <3>2. \A k \in b + 1 .. e : k \in Units /\ Mpu(k) = u
          BY <2>3, <3>1
    <3>3. b <= e /\ u <= u /\ UnitsRead(v, b, u, damaged')
          BY <2>1, <2>2, <3>1
    <3>4. UnitsRead(v, e, u, damaged')
          BY <1>1, <1>9, <2>1, <3>1, <3>2, <3>3, UnitsPassedOver
    <3>5. QED
          BY <3>1, <3>4
  <2>5. Done' = b \/ Done' = p.last
        BY <1>6 DEF b
  <2>6. QED
        BY <2>2, <2>4, <2>5
<1>10. CASE o = "failed"
  <2>1. deflagmenter' = d /\ out' = Nothing /\ panic' = None /\ stream' = s
        BY <1>2, <1>10 DEF ReadPacket
  <2>2. d.state # "Init"
        BY <1>2, AfterSync
  <2>3. p.mpu \in damaged'
        BY <1>5, <1>10
  <2> HIDE DEF p, s, d, o
  <2>4. UnitsRead(stream', Done', mpu', damaged')
        BY <1>2, <1>7, <1>9, <2>1, <2>3
  <2>5. \A i \in DOMAIN out'.samples : SampleGood(out'.samples[i], damaged')
        BY <2>1, NothingGood
  <2>6. OnAirInv' /\ deflagmenter'.state # "Init"
        BY <1>8, <2>1, <2>2
  <2>7. panic' \in {None, "length", "au_count"}
        /\ (panic' = "au_count" => stream'.type = "hev1" /\ damaged' # {})
        BY <2>1, MmtAssumption DEF MmtAssumption
  <2>8. /\ known' \in BOOLEAN /\ mpu' \in Nat /\ StreamTyped(stream')
        BY <1>2, <1>4, <1>7, <2>1
  <2>9. QED
        BY <1>2, <1>5, <2>4, <2>5, <2>6, <2>7, <2>8, TimesAfter
<1>11. ASSUME NEW clear \in BOOLEAN, o # "failed", (o = "clear") = clear
       PROVE  TimesInv'
  <2>1. ~Deaf /\ (Alone => clear)
        BY <1>3, <1>11
  <2>2. /\ p.aggregated \/ Accepts(d, p.kind)
        /\ Pushed(d, clear).state # "Init"
        /\ \A i \in DOMAIN Returned(d, clear) : Readable(Returned(d, clear)[i])
        /\ (intact \/ p.kind \in {"NotFragmented", "FragmentHead"}) /\ ~Unfinished(next) =>
              Len(Returned(d, clear)) = 1
        BY <1>2, <2>1, PushKeepsUnits
  <2>3. ReadMfu(s, d, o = "clear")
        BY <1>11 DEF ReadPacket
  <2>4. ReadMfu(s, d, clear)
        BY <1>11, <2>3
  <2>5. p.aggregated => p.kind = "NotFragmented"
        BY <1>1, <1>2, PacketsOnAir
  <2>6. Returned(d, clear) # << >> => ~Unfinished(next)
    <3>1. ASSUME Unfinished(next) PROVE Returned(d, clear) = << >>
          BY <2>5, <3>1 DEF Returned, Unfinished, Completed
    <3>2. QED
          BY <3>1
  <2> HIDE DEF s, d, o
  <2>7. deflagmenter' = Pushed(d, clear)
        BY <2>2, <2>4, ReadMfuOfAPacket
  <2>8. OnAirInv' /\ deflagmenter'.state # "Init"
        BY <1>8, <2>2, <2>7
  <2>9. /\ StreamTyped(stream') /\ panic' \in {None, "length", "au_count"}
        /\ panic' # None => out'.samples = << >>
        /\ panic' = "au_count" => stream'.type = "hev1" /\ damaged' # {}
        /\ panic' = None =>
              /\ UnitsRead(stream',
                           IF Returned(d, clear) = << >> THEN p.first - 1 ELSE p.last,
                           p.mpu, damaged')
              /\ \A i \in DOMAIN out'.samples : SampleGood(out'.samples[i], damaged')
        BY <1>1, <1>2, <1>4, <1>5, <1>7, <2>2, <2>4, ReadMfuOfUnits
  <2>10. \A i \in DOMAIN out'.samples : SampleGood(out'.samples[i], damaged')
    <3>1. DOMAIN << >> = {}
          OBVIOUS
    <3>2. QED
          BY <2>9, <3>1
\* A whole unit is returned with its last packet, unless a packet is missing.
  <2>11. ASSUME panic' = None PROVE UnitsRead(stream', Done', mpu', damaged')
    <3>1. CASE Returned(d, clear) # << >>
          BY <1>2, <1>6, <2>6, <2>9, <2>11, <3>1
    <3>2. CASE Returned(d, clear) = << >> /\ Unfinished(next)
          BY <1>2, <1>6, <2>9, <2>11, <3>2
    <3>3. CASE Returned(d, clear) = << >> /\ ~Unfinished(next)
      <4>1. Len(Returned(d, clear)) # 1
            BY <3>3
      <4>2. p.kind \in {"FragmentBody", "FragmentTail"} /\ ~intact
            BY <1>4, <2>2, <3>3, <4>1 DEF MpuKinds, Indicators
      <4>3. ~intact' \/ p.mpu \in damaged'
            BY <1>5, <4>2
      <4>4. p.mpu \notin damaged' => intact'
        <5>1. next' - 1 = next /\ next' > 1 /\ (Packet(next - 1))' = p
              BY <1>1, <1>2 DEF Packet
        <5>2. QED
              BY <1>4, <2>8, <5>1 DEF OnAirInv
      <4>5. UnitsRead(stream', p.first - 1, p.mpu, damaged')
            BY <2>9, <2>11, <3>3
      <4>6. UnitsRead(stream', Done', p.mpu, damaged')
            BY <1>9, <2>9, <4>3, <4>4, <4>5
      <4>7. QED
            BY <1>2, <4>6
    <3>4. QED
          BY <3>1, <3>2, <3>3
  <2>12. QED
         BY <1>2, <1>4, <1>5, <2>8, <2>9, <2>10, <2>11, TimesAfter
<1>12. (o = "clear") \in BOOLEAN
       OBVIOUS
<1>13. QED
       BY <1>3, <1>10, <1>11, <1>12

\* Before a packet its MPU, or an earlier one, was being read.
LEMMA MpuOfBefore ==
    ASSUME ReceptionInv, TimesInv, panic = None, next \in DOMAIN broadcast.packets,
           deflagmenter.state # "Init"
    PROVE  mpu <= Packet(next).mpu
<1>1. /\ broadcast \in Broadcasts /\ next \in Nat \ {0} /\ mpu \in Nat
      /\ deflagmenter.last \in DOMAIN broadcast.packets /\ deflagmenter.last < next
      /\ mpu <= Packet(next - 1).mpu
      BY DEF ReceptionInv, TimesInv, OnAirInv
<1>2. deflagmenter.last \in Nat \ {0}
      BY <1>1, PacketsInTurn
<1>3. next > 1
      BY <1>1, <1>2
<1>4. /\ next - 1 \in DOMAIN broadcast.packets /\ Packet(next).mpu \in Nat
      /\ Packet(next).mpu \in {Packet(next - 1).mpu, Packet(next - 1).mpu + 1}
      BY <1>1, <1>3, PacketsInTurn
<1>5. Packet(next - 1).mpu \in Nat
      BY <1>1, <1>4, PacketsInTurn
<1>6. QED
      BY <1>1, <1>4, <1>5

\* A packet that is ignored or lost: its MPU is damaged, unless it is metadata.
LEMMA SkipKeepsTimes ==
    ASSUME ReceptionInv, TimesInv, IgnorePacket \/ LosePacket
    PROVE  TimesInv'
<1> DEFINE p == Packet(next)
<1>1. broadcast \in Broadcasts /\ next \in Nat \ {0}
      BY DEF ReceptionInv
<1>2. /\ panic = None /\ panic' = None /\ next \in DOMAIN broadcast.packets
      /\ next' = next + 1 /\ broadcast' = broadcast /\ stream' = stream
      /\ deflagmenter' = deflagmenter /\ mpu' = mpu /\ out' = Nothing
      BY DEF IgnorePacket, LosePacket, Advance
<1>3. /\ p.kind \in MpuKinds /\ p.mpu \in Nat
      /\ p.first \in Nat \ {0} /\ p.last \in Nat /\ p.first - 1 <= p.last
      /\ p.kind = "Metadata" => p.last = p.first - 1
      /\ \A k \in p.first .. p.last : k \in Units /\ Mpu(k) = p.mpu
      BY <1>1, <1>2, PacketsInTurn
<1>4. /\ damaged \subseteq damaged' /\ intact' \in BOOLEAN /\ known' \in BOOLEAN
      /\ p.kind = "Metadata" \/ p.mpu \in damaged'
  <2>1. intact \in BOOLEAN /\ known \in BOOLEAN
        BY DEF TimesInv
  <2>2. CASE LosePacket
        BY <2>1, <2>2 DEF LosePacket
  <2>3. CASE IgnorePacket /\ p.kind = "Metadata"
        BY <2>1, <2>3 DEF IgnorePacket
  <2>4. CASE IgnorePacket /\ p.kind # "Metadata"
    <3>1. mpu = 0
          BY <2>4 DEF IgnorePacket, Ignored, ReceptionInv
    <3>2. Remember(FALSE) /\ known' = TRUE
          BY <2>4, <3>1 DEF IgnorePacket
    <3>3. QED
          BY <3>2 DEF Remember
  <2>5. QED
        BY <2>2, <2>3, <2>4
<1>5. OnAirInv'
      BY <1>1, <1>2, <1>4, OnAirKept
<1>6. /\ StreamTyped(stream) /\ mpu \in Nat /\ OnAirInv
      /\ IF deflagmenter.state = "Init"
         THEN stream.auCount = 0 /\ stream.parser = << >> /\ stream.dtsPts = None
         ELSE UnitsRead(stream, Done, mpu, damaged)
      BY <1>2 DEF TimesInv
<1>7. /\ Done = p.first - 1 /\ Done \in Nat
      /\ Done' = IF Unfinished(next) THEN p.first - 1 ELSE p.last
      BY <1>1, <1>2, HowFar
<1>8. ASSUME deflagmenter.state # "Init" PROVE UnitsRead(stream, Done', mpu, damaged')
  <2>1. UnitsRead(stream, Done, mpu, damaged')
        BY <1>4, <1>6, <1>8, LossSaysLess
  <2>2. CASE Done' = Done
        BY <2>1, <2>2
  <2>3. CASE Done' # Done
    <3>1. Done' = p.last /\ p.kind # "Metadata" /\ p.mpu \in damaged'
          BY <1>3, <1>4, <1>7, <2>3
    <3>2. mpu <= p.mpu
          BY <1>1, <1>2, <1>6, <1>8, MpuOfBefore
    <3>3. Done <= p.last /\ \A k \in Done + 1 .. p.last : k \in Units /\ Mpu(k) = p.mpu
          BY <1>3, <1>7
    <3> HIDE DEF p
    <3>4. UnitsRead(stream, p.last, mpu, damaged')
          BY <1>1, <1>3, <1>6, <1>7, <2>1, <3>1, <3>2, <3>3, UnitsPassedOver
    <3>5. QED
          BY <3>1, <3>4
  <2>4. QED
        BY <2>2, <2>3
<1>9. /\ deflagmenter'.state # "Init" => UnitsRead(stream', Done', mpu', damaged')
      /\ deflagmenter'.state = "Init" =>
            stream'.auCount = 0 /\ stream'.parser = << >> /\ stream'.dtsPts = None
      BY <1>2, <1>6, <1>8
<1>10. \A i \in DOMAIN out'.samples : SampleGood(out'.samples[i], damaged')
       BY <1>2, NothingGood
<1>11. panic' \in {None, "length", "au_count"}
       /\ (panic' = "au_count" => stream'.type = "hev1" /\ damaged' # {})
       BY <1>2, MmtAssumption DEF MmtAssumption
<1>12. QED
       BY <1>2, <1>4, <1>5, <1>6, <1>9, <1>10, <1>11, TimesAfter

\* What was read is in the parser, the count and the pending time.
LEMMA SameFields ==
    ASSUME NEW s, NEW v, v.parser = s.parser, v.auCount = s.auCount, v.dtsPts = s.dtsPts,
           NEW d, NEW m, NEW lost, UnitsRead(s, d, m, lost)
    PROVE  UnitsRead(v, d, m, lost)
<1>1. Counted(v, d, m, lost)
      BY DEF UnitsRead, Counted
<1>2. Parsed(s, d, lost) => Parsed(v, d, lost)
      BY DEF Parsed, OneAccessUnit
<1>3. Pending(s, d, lost) => Pending(v, d, lost)
      BY DEF Pending
<1>4. QED
      BY <1>1, <1>2, <1>3 DEF UnitsRead

\* Of the described MPUs no more are kept than there is room for: all but the
\* oldest of them are newer than it (mmt.rs:384-390).
LEMMA NewestFits ==
    ASSUME NEW S \in SUBSET Nat, IsFiniteSet(S)
    PROVE  Newest(S) \subseteq S /\ IsFiniteSet(Newest(S))
           /\ Cardinality(Newest(S)) <= MaxTimestamps
<1> DEFINE N == Newest(S)
<1>1. N \subseteq S /\ IsFiniteSet(N) /\ MaxTimestamps \in Nat \ {0}
      BY FS_Subset, MmtAssumption DEF Newest, MmtAssumption
<1>2. CASE N = {}
      BY <1>1, <1>2, FS_EmptySet
<1>3. CASE N # {}
  <2>1. PICK n \in N : \A k \in N : ~(<<k, n>> \in OpToRel(<, Nat))
        BY <1>1, <1>3, NatLessThanWellFounded, WFMin
  <2>2. n \in Nat /\ \A k \in N : k \in Nat /\ ~(k < n)
        BY <1>1, <2>1 DEF OpToRel
  <2> DEFINE newer == {k \in S : k > n}
  <2>3. Cardinality(newer) < MaxTimestamps
        BY DEF Newest
  <2>4. N \ {n} \subseteq newer
    <3>1. ASSUME NEW k \in N, k # n PROVE k \in S /\ k > n
          BY <1>1, <2>2, <3>1
    <3>2. QED
          BY <3>1
  <2>5. newer \subseteq S
        OBVIOUS
  <2> HIDE DEF N, newer
  <2>6. IsFiniteSet(newer) /\ Cardinality(newer) \in Nat
        BY <2>5, FS_Subset, FS_CardinalityType
  <2>7. IsFiniteSet(N \ {n}) /\ Cardinality(N \ {n}) <= Cardinality(newer)
        BY <2>4, <2>6, FS_Subset
  <2>8. Cardinality(N \ {n}) = Cardinality(N) - 1 /\ Cardinality(N) \in Nat
        BY <1>1, FS_RemoveElement, FS_CardinalityType
  <2>9. Cardinality(N) <= MaxTimestamps
        BY <1>1, <2>3, <2>6, <2>7, <2>8, FS_CardinalityType
  <2>10. QED
         BY <1>1, <2>9 DEF N
<1>4. QED
      BY <1>2, <1>3

\* What an MPT may describe.
LEMMA DescribableMpus ==
    ASSUME ReceptionInv, TimesInv, NEW mpus \in Describable
    PROVE  mpus \in SUBSET Nat /\ IsFiniteSet(mpus)
<1>1. /\ broadcast \in Broadcasts /\ next \in Nat \ {0}
      /\ next <= Len(broadcast.packets) + 1 /\ broadcast.packets # << >>
      BY DEF ReceptionInv, TimesInv
<1>2. /\ broadcast.packets \in Seq(Packets)
      /\ DOMAIN broadcast.packets = 1 .. Len(broadcast.packets)
      /\ Len(broadcast.packets) \in Nat
      BY <1>1, MmtAssumption DEF MmtAssumption
<1>3. Len(broadcast.packets) # 0
      BY <1>1, <1>2
<1>4. (IF next \in DOMAIN broadcast.packets THEN next ELSE next - 1)
         \in DOMAIN broadcast.packets
      BY <1>1, <1>2, <1>3
<1>5. OnAir \in Nat
      BY <1>1, <1>4, PacketsInTurn DEF OnAir
<1>6. mpus \subseteq {OnAir, OnAir + 1}
      BY DEF Describable
<1> DEFINE both == {OnAir, OnAir + 1}
<1>7. IsFiniteSet(both)
  <2>1. IsFiniteSet({OnAir})
        BY FS_Singleton
  <2>2. IsFiniteSet({OnAir} \cup {OnAir + 1})
        BY <2>1, FS_AddElement
  <2>3. both = {OnAir} \cup {OnAir + 1}
        OBVIOUS
  <2>4. QED
        BY <2>2, <2>3
<1>8. mpus \in SUBSET both
      BY <1>6
<1> HIDE DEF both
<1>9. IsFiniteSet(mpus)
      BY <1>7, <1>8, FS_Subset
<1>10. mpus \in SUBSET Nat
       BY <1>5, <1>6
<1>11. QED
       BY <1>9, <1>10

\* The times stay as they are with the stream.
LEMMA TimesStay ==
    ASSUME TimesInv, StreamTyped(stream'), stream'.parser = stream.parser,
           stream'.auCount = stream.auCount, stream'.dtsPts = stream.dtsPts,
           stream'.type = stream.type \/ panic = None,
           UNCHANGED <<broadcast, next, known, deflagmenter, mpu, out, panic, intact, damaged>>
    PROVE  TimesInv'
<1>1. /\ UnitsRead(stream, Done, mpu, damaged)'
            <=> UnitsRead(stream', Done', mpu', damaged')
      /\ StreamTyped(stream)' <=> StreamTyped(stream')
      BY StillOnAir
<1>2. Done' = Done /\ Begun' = Begun
      BY DEF Done, Begun, Unfinished, Packet
<1>3. ASSUME panic = None, deflagmenter.state # "Init"
      PROVE  UnitsRead(stream, Done, mpu, damaged)'
  <2>1. UnitsRead(stream, Done, mpu, damaged)
        BY <1>3 DEF TimesInv
  <2>2. UnitsRead(stream', Done, mpu, damaged)
        BY <2>1, SameFields
  <2>3. QED
        BY <1>1, <1>2, <2>2
<1>4. ASSUME panic = None PROVE OnAirInv'
  <2>1. OnAirInv
    <3>1. panic = None => OnAirInv
          BY DEF TimesInv
    <3>2. QED
          BY <1>4, <3>1
  <2>2. \A k : (Mpu(k))' = Mpu(k) /\ (Packet(k))' = Packet(k)
        BY DEF Mpu, Packet
  <2>3. (Mpu(Begun))' = Mpu(Begun)
        BY <1>2 DEF Mpu
  <2>4. (Packet(next - 1))' = Packet(next - 1)
        BY DEF Packet
  <2>5. /\ (\A k \in 1 .. Begun : Mpu(k) \notin damaged => deflagmenter.state # "Init")'
        /\ (Begun >= 1 /\ Mpu(Begun) \notin damaged => mpu = Mpu(Begun))'
        BY <1>2, <2>1, <2>2, <2>3 DEF OnAirInv
  <2>6. QED
        BY <2>1, <2>4, <2>5 DEF OnAirInv
<1>5. CountStaysInMpu'
  <2>1. None # "au_count"
        BY MmtAssumption DEF MmtAssumption
  <2>2. QED
        BY <2>1 DEF TimesInv, CountStaysInMpu
<1>6. SamplesInTime'
  <2>1. SamplesInTime
        BY DEF TimesInv
  <2>2. /\ \A k : Sound(broadcast.nals[k].mpu)' <=> Sound(broadcast.nals[k].mpu)
        /\ \A a : SampleInTime(a)' <=> SampleInTime(a)
        BY DEF Sound, SoundIn, SampleInTime, AccessUnit
  <2>3. out' = out /\ broadcast' = broadcast
        OBVIOUS
  <2>4. QED
        BY <2>1, <2>2, <2>3 DEF SamplesInTime
<1>7. QED
      BY <1>1, <1>3, <1>4, <1>5, <1>6 DEF TimesInv

\* An MPT (mmt.rs:330-392).
LEMMA MptKeepsTimes ==
    ASSUME ReceptionInv, TimesInv, NEW mpus \in Describable, ReadMpt(mpus)
    PROVE  TimesInv'
<1> DEFINE S == stream.timestamps \cup mpus
           N == Newest(S)
<1>1. broadcast \in Broadcasts /\ broadcast.type \in {"hev1", "mp4a"} /\ panic = None
      BY MmtAssumption DEF ReceptionInv, ReadMpt, MmtAssumption
<1>2. stream \in StreamTypes /\ stream.timestamps \in SUBSET Nat
      /\ IsFiniteSet(stream.timestamps) /\ stream.auCount <= broadcast.aus
      BY DEF TimesInv, StreamTyped, StreamTypes
<1>3. S \in SUBSET Nat /\ IsFiniteSet(S)
      BY <1>2, DescribableMpus, FS_Union
<1>4. N \in SUBSET Nat /\ IsFiniteSet(N) /\ Cardinality(N) <= MaxTimestamps
      BY <1>3, NewestFits
<1>5. stream' = [stream EXCEPT !.type = broadcast.type, !.timestamps = N]
      BY DEF ReadMpt
<1> HIDE DEF N, S
<1>6. /\ stream' \in StreamTypes /\ stream'.type = broadcast.type
      /\ stream'.timestamps = N /\ stream'.parser = stream.parser
      /\ stream'.auCount = stream.auCount /\ stream'.dtsPts = stream.dtsPts
      BY <1>1, <1>2, <1>4, <1>5 DEF StreamTypes
<1>7. StreamTyped(stream')
  <2>1. broadcast.type # None
        BY <1>1, MmtAssumption DEF MmtAssumption
  <2>2. QED
        BY <1>2, <1>4, <1>6, <2>1 DEF StreamTyped
<1>8. QED
      BY <1>1, <1>6, <1>7, TimesStay DEF ReadMpt

\* What the descrambler does by itself.
LEMMA OthersKeepTimes ==
    ASSUME TimesInv, UNCHANGED mmtVars
    PROVE  TimesInv'
<1>1. StreamTyped(stream')
      BY DEF TimesInv, mmtVars
<1>2. QED
      BY <1>1, TimesStay DEF mmtVars

\* Reception begins within the first MPU, which is damaged then.
LEMMA TimesAtFirst == Init => TimesInv
<1> SUFFICES ASSUME Init PROVE TimesInv
    OBVIOUS
<1>1. /\ broadcast \in Broadcasts /\ next \in DOMAIN broadcast.packets
      /\ Packet(next).mpu = Packet(1).mpu
      /\ deflagmenter = NewDefragmenter /\ mpu = 0 /\ out = Nothing
      /\ panic = None /\ intact = FALSE /\ known = FALSE /\ stream = NewStream
      /\ damaged = IF next = 1 THEN {} ELSE {Packet(1).mpu}
      BY DEF Init, MmtInit, Packet
<1>2. deflagmenter.state = "Init"
      BY <1>1 DEF NewDefragmenter
<1>3. broadcast.packets # << >>
  <2>1. DOMAIN << >> = {}
        OBVIOUS
  <2>2. QED
        BY <1>1, <2>1
<1>4. next \in Nat \ {0}
      BY <1>1, PacketsInTurn
<1>5. next > 1 => /\ next - 1 \in DOMAIN broadcast.packets /\ Packet(next - 1).mpu \in Nat
                  /\ Packet(next - 1).mpu = Packet(1).mpu /\ Packet(next - 1).last \in Nat
  <2> SUFFICES ASSUME next > 1
               PROVE  /\ next - 1 \in DOMAIN broadcast.packets
                      /\ Packet(next - 1).mpu \in Nat
                      /\ Packet(next - 1).mpu = Packet(1).mpu
                      /\ Packet(next - 1).last \in Nat
      OBVIOUS
  <2>1. /\ next - 1 \in DOMAIN broadcast.packets /\ Packet(next).mpu \in Nat
        /\ Packet(next).mpu \in {Packet(next - 1).mpu, Packet(next - 1).mpu + 1}
        BY <1>1, PacketsInTurn
  <2>2. Packet(next - 1).mpu \in Nat /\ Packet(1).mpu <= Packet(next - 1).mpu
        /\ Packet(next - 1).last \in Nat
        BY <1>1, <2>1, PacketsInTurn, UnitsSoFar
  <2>3. QED
        BY <1>1, <2>1, <2>2
<1>6. \A k \in 1 .. Begun : Mpu(k) \in damaged
  <2>1. CASE next = 1
        BY <2>1 DEF Begun
  <2>2. CASE next > 1
    <3>1. Begun = Packet(next - 1).last /\ damaged = {Packet(1).mpu}
          BY <1>1, <1>4, <2>2 DEF Begun
    <3>2. \A k \in 1 .. Packet(next - 1).last :
             k \in Units /\ Mpu(k) \in Packet(1).mpu .. Packet(next - 1).mpu
          BY <1>1, <1>5, <2>2, UnitsSoFar
    <3>3. \A k \in Units : Mpu(k) \in Nat
          BY <1>1, UnitsOnAir
    <3>4. QED
          BY <1>5, <2>2, <3>1, <3>2, <3>3
  <2>3. QED
        BY <1>4, <2>1, <2>2
<1>7. Begun \in Nat
      BY <1>4, <1>5 DEF Begun
<1>8. OnAirInv
  <2>1. Begun >= 1 => Begun \in 1 .. Begun
        BY <1>7
  <2>2. next > 1 => Packet(next - 1).mpu \in damaged
        BY <1>1, <1>4, <1>5
  <2>3. QED
        BY <1>2, <1>6, <2>1, <2>2 DEF OnAirInv
<1>9. StreamTyped(stream)
  <2>1. broadcast.aus \in Nat /\ MaxTimestamps \in Nat
        BY <1>1, MmtAssumption DEF MmtAssumption
  <2>2. stream \in StreamTypes
        BY <1>1 DEF NewStream, StreamTypes
  <2>3. stream.auCount = 0 /\ stream.timestamps = {} /\ stream.type = None
        BY <1>1 DEF NewStream
  <2>4. QED
        BY <2>1, <2>2, <2>3, FS_EmptySet DEF StreamTyped
<1>10. stream.auCount = 0 /\ stream.parser = << >> /\ stream.dtsPts = None
       BY <1>1 DEF NewStream
<1>11. SamplesInTime
  <2>1. out.samples = << >> /\ DOMAIN << >> = {}
        BY <1>1 DEF Nothing
  <2>2. QED
        BY <2>1 DEF SamplesInTime
<1>12. CountStaysInMpu
       BY <1>1, MmtAssumption DEF CountStaysInMpu, MmtAssumption
<1>13. QED
       BY <1>1, <1>2, <1>3, <1>8, <1>9, <1>10, <1>11, <1>12 DEF TimesInv

LEMMA TimesInEachStep ==
    ReceptionInv /\ TimesInv /\ [Next]_vars => TimesInv'
<1> SUFFICES ASSUME ReceptionInv, TimesInv, [Next]_vars
             PROVE  TimesInv'
    OBVIOUS
<1>1. CASE ReceivePacket
  <2>1. CASE Reads /\ ReadPacket(Outcome(Own, broadcast.scrambled))
        BY <2>1, ReadPacketKeepsTimes
  <2>2. CASE IgnorePacket \/ LosePacket
        BY <2>2, SkipKeepsTimes
  <2>3. QED
        BY <1>1, <2>1, <2>2 DEF ReceivePacket
<1>2. CASE ReceiveMpt
      BY <1>2, MptKeepsTimes DEF ReceiveMpt
<1>3. CASE UNCHANGED mmtVars
      BY <1>3, OthersKeepTimes
<1>4. QED
      BY <1>1, <1>2, <1>3
         DEF Next, ReceiveEcm, ReceiveKey, OtherStream, Worker, vars

\* All that holds of reception.
Received == ReceptionInv /\ NothingTorn /\ UnitsComeThrough /\ TimesInv

LEMMA AlwaysReceived == Spec => []Received
<1>1. Init => Received
      BY UnitsAtFirst, TimesAtFirst DEF Received
<1>2. Received /\ [Next]_vars => Received'
      BY UnitsInEachStep, TimesInEachStep DEF Received
<1>3. QED
      BY <1>1, <1>2, PTL DEF Spec

\* Wherever reception begins and whatever is lost: an access unit all of whose
\* NAL units are of MPUs that came whole and were described leaves as one
\* sample, with all of them in order, and with its own time of the MPT: the
\* counting of au_count and dts_pts (mmt.rs:225-245) never slips.
THEOREM SamplesHaveTheirTime == Spec => []SamplesInTime
<1>1. Received => SamplesInTime
      BY DEF Received, TimesInv
<1>2. QED
      BY <1>1, AlwaysReceived, PTL

\* The assertion on the index of an access unit (mmt.rs:233) can fail only for
\* video, and only after a loss or an MPU nobody described.
THEOREM AuCountStays == Spec => []CountStaysInMpu
<1>1. Received => CountStaysInMpu
      BY DEF Received, TimesInv
<1>2. QED
      BY <1>1, AlwaysReceived, PTL

\* The state of the demuxer keeps to its types, the descriptors of MPUs to
\* their bound (mmt.rs:384-390).
THEOREM ReceiverTypeOK == Spec => []TypeOK
<1>1. Received => TypeOK
  <2> SUFFICES ASSUME Received PROVE TypeOK
      OBVIOUS
  <2>1. /\ broadcast \in Broadcasts /\ next \in Nat \ {0}
        /\ next <= Len(broadcast.packets) + 1
        /\ deflagmenter.state \in States /\ deflagmenter.last \in Nat
        /\ DescramblerTypeOK
        BY DEF Received, ReceptionInv
  <2>2. /\ known \in BOOLEAN /\ intact \in BOOLEAN /\ mpu \in Nat /\ StreamTyped(stream)
        /\ panic \in {None, "fragment", "length", "au_count"}
        BY DEF Received, TimesInv
  <2>3. broadcast.type \in {"hev1", "mp4a"} /\ broadcast.aus \in Nat
        /\ Len(broadcast.packets) \in Nat
        BY <2>1, MmtAssumption DEF MmtAssumption
  <2>4. /\ stream.auCount \in 0 .. broadcast.aus
        /\ stream.type \in {None, "hev1", "mp4a"}
        /\ Cardinality(stream.timestamps) <= MaxTimestamps
        /\ (stream.timestamps # {} => stream.type # None)
        BY <2>2, <2>3 DEF StreamTyped, StreamTypes
  <2>5. next \in 1 .. Len(broadcast.packets) + 1
        BY <2>1, <2>3
  <2>6. QED
        BY <2>1, <2>2, <2>4, <2>5 DEF TypeOK
<1>2. QED
      BY <1>1, AlwaysReceived, PTL
=============================================================================
