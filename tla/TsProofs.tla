------------------------------ MODULE TsProofs ------------------------------
(* A stream of ISDB-T, for every broadcast and whatever is lost:            *)
(* TablesInTime by MuxerInv, which says which PMT is the last one, and      *)
(* SamplesClear by ClearInv, which says whose keys the descrambler holds    *)
(* and that all the tracks have collected is clear, SamplesComeThrough by   *)
(* PesInv, which says that each track holds the sample up to the next       *)
(* packet, SectionsComeThrough by SectionsInv, which says that each buffer  *)
(* of the section reader holds what came of the section that goes on in the *)
(* next packet, and GuideIsOnAir, where the CRC tells sections apart, by    *)
(* GuideInv, which says that what is held has the version remembered.       *)
EXTENDS TsReceiver, FiniteSetTheorems, WellFoundedInduction, TLAPS

-----------------------------------------------------------------------------
(* Sequences and numbers.                                                   *)

\* A sequence, of whatever it may be.
IsSequence(s) == Len(s) \in Nat /\ s = [i \in 1 .. Len(s) |-> s[i]]

LEMMA Joined ==
    ASSUME NEW s, IsSequence(s), NEW t, IsSequence(t)
    PROVE  /\ IsSequence(s \o t) /\ Len(s \o t) = Len(s) + Len(t)
           /\ DOMAIN (s \o t) = 1 .. Len(s) + Len(t)
           /\ \A i \in 1 .. Len(s) : (s \o t)[i] = s[i]
           /\ \A i \in Len(s) + 1 .. Len(s) + Len(t) : (s \o t)[i] = t[i - Len(s)]
<1> DEFINE S == {s[i] : i \in 1 .. Len(s)} \cup {t[i] : i \in 1 .. Len(t)}
<1>1. s \in Seq(S)
  <2>1. \A i \in 1 .. Len(s) : s[i] \in S
        OBVIOUS
  <2> HIDE DEF S
  <2>2. QED
        BY <2>1 DEF IsSequence
<1>2. t \in Seq(S)
  <2>1. \A i \in 1 .. Len(t) : t[i] \in S
        OBVIOUS
  <2> HIDE DEF S
  <2>2. QED
        BY <2>1 DEF IsSequence
<1> HIDE DEF S
<1>3. s \o t \in Seq(S)
      BY <1>1, <1>2
<1>4. Len(s \o t) = Len(s) + Len(t) /\ DOMAIN (s \o t) = 1 .. Len(s) + Len(t)
      BY <1>1, <1>2
<1>5. IsSequence(s \o t)
  <2> DEFINE u == s \o t
  <2>1. u \in Seq(S)
        BY <1>3
  <2> HIDE DEF u
  <2>2. IsSequence(u)
        BY <2>1 DEF IsSequence
  <2>3. QED
        BY <2>2 DEF u
<1>6. \A i \in 1 .. Len(s) : (s \o t)[i] = s[i]
      BY <1>1, <1>2
<1>7. \A i \in Len(s) + 1 .. Len(s) + Len(t) : (s \o t)[i] = t[i - Len(s)]
      BY <1>1, <1>2
<1>8. QED
      BY <1>4, <1>5, <1>6, <1>7

\* The largest of some numbers.
LEMMA LargestIs ==
    ASSUME NEW S \in SUBSET Int, NEW m \in S, \A n \in S : n <= m
    PROVE  Max(S) = m
<1>1. \A n \in S : m >= n
      OBVIOUS
<1>2. Max(S) \in S /\ \A n \in S : Max(S) >= n
      BY <1>1 DEF Max
<1>3. Max(S) \in Int /\ m \in Int /\ Max(S) >= m /\ m >= Max(S)
      BY <1>1, <1>2
<1>4. QED
      BY <1>3

\* A number is its quotient times the divisor, and the rest.
LEMMA Division ==
    ASSUME NEW m \in Int, m > 0, NEW x \in Int
    PROVE  x % m = x - (x \div m) * m
BY Z3

-----------------------------------------------------------------------------
(* Numbers in order.                                                        *)

\* The members of a set of numbers come in order, and each of them is one.
LEMMA AscendingIn ==
    ASSUME NEW S, S \subseteq Nat, IsFiniteSet(S), NEW i \in 1 .. Cardinality(S)
    PROVE  /\ Ascending(S)[i] \in S
           /\ Cardinality({m \in S : m <= Ascending(S)[i]}) = i
<1> DEFINE UpTo(n) == {m \in S : m <= n}
           Is(k) == \E n \in S : Cardinality(UpTo(n)) = k
           T == {k \in 1 .. Cardinality(S) : ~Is(k)}
<1>1. Cardinality(S) \in Nat /\ T \subseteq Nat
      BY FS_CardinalityType
<1>2. T = {}
  <2>1. SUFFICES ASSUME T # {} PROVE FALSE
        OBVIOUS
  <2>2. PICK k \in T : \A j \in T : ~(<<j, k>> \in OpToRel(<, Nat))
        BY <1>1, <2>1, NatLessThanWellFounded, WFMin
  <2>3. \A j \in T : ~(j < k)
        BY <1>1, <2>2 DEF OpToRel
  <2>4. k \in 1 .. Cardinality(S) /\ ~Is(k)
        OBVIOUS
  \* The smaller members are one less.
  <2>5. \E L \in SUBSET S : Cardinality(L) = k - 1 /\ \A m \in L, n \in S \ L : m < n
    <3>1. CASE k = 1
      <4>1. Cardinality({}) = 0
            BY FS_EmptySet
      <4>2. QED
            BY <3>1, <4>1
    <3>2. CASE k # 1
      <4>1. k - 1 \in 1 .. Cardinality(S) /\ k - 1 < k
            BY <1>1, <2>4, <3>2
      <4>2. k - 1 \notin T
            BY <2>3, <4>1
      <4>3. PICK n \in S : Cardinality(UpTo(n)) = k - 1
            BY <4>1, <4>2
      <4>4. UpTo(n) \in SUBSET S /\ \A m \in UpTo(n), o \in S \ UpTo(n) : m < o
            OBVIOUS
      <4> HIDE DEF UpTo
      <4>5. QED
            BY <4>3, <4>4
    <3>3. QED
          BY <3>1, <3>2
  <2>6. PICK L \in SUBSET S : Cardinality(L) = k - 1 /\ \A m \in L, n \in S \ L : m < n
        BY <2>5
  <2>7. IsFiniteSet(L)
        BY FS_Subset
  <2>8. S \ L # {}
    <3>1. SUFFICES ASSUME S \ L = {} PROVE FALSE
          OBVIOUS
    <3>2. S = L
          BY <3>1
    <3>3. QED
          BY <1>1, <2>4, <2>6, <3>2
  <2>9. PICK n \in S \ L : \A m \in S \ L : ~(<<m, n>> \in OpToRel(<, Nat))
        BY <2>8, NatLessThanWellFounded, WFMin
  <2>10. \A m \in S : m \in Nat
        OBVIOUS
  <2>11. ASSUME NEW m \in S \ L PROVE n <= m
    <3>1. m \in Nat /\ n \in Nat
          BY <2>10
    <3>2. ~(m < n)
          BY <2>9, <3>1 DEF OpToRel
    <3>3. QED
          BY <3>1, <3>2
  <2>12. UpTo(n) = L \cup {n}
    <3>1. \A m \in L : m <= n
          BY <2>6, <2>10
    <3>2. \A m \in S \ L : m <= n => m = n
          BY <2>10, <2>11
    <3>3. n <= n
          BY <2>10
    <3>4. QED
          BY <3>1, <3>2, <3>3
  <2>13. Cardinality(L \cup {n}) = k
    <3>1. Cardinality(L \cup {n}) = Cardinality(L) + 1
          BY <2>7, FS_AddElement
    <3>2. QED
          BY <2>4, <2>6, <3>1
  <2>14. Is(k)
        BY <2>12, <2>13
  <2>15. QED
        BY <2>4, <2>14
<1>3. \E n \in S : Cardinality({m \in S : m <= n}) = i
      BY <1>2
<1>4. Ascending(S)[i] = CHOOSE n \in S : Cardinality({m \in S : m <= n}) = i
      BY DEF Ascending
<1>5. QED
      BY <1>3, <1>4

\* A number comes where as many members of the set are as large at most.
LEMMA AscendingIs ==
    ASSUME NEW S, S \subseteq Nat, IsFiniteSet(S), NEW n \in S
    PROVE  LET i == Cardinality({m \in S : m <= n})
           IN  i \in 1 .. Cardinality(S) /\ Ascending(S)[i] = n
<1> DEFINE UpTo(k) == {m \in S : m <= k}
           i == Cardinality(UpTo(n))
<1>1. \A k \in S : IsFiniteSet(UpTo(k)) /\ Cardinality(UpTo(k)) \in Nat
                   /\ Cardinality(UpTo(k)) <= Cardinality(S)
  <2>1. SUFFICES ASSUME NEW k \in S
                 PROVE  /\ IsFiniteSet(UpTo(k)) /\ Cardinality(UpTo(k)) \in Nat
                        /\ Cardinality(UpTo(k)) <= Cardinality(S)
        OBVIOUS
  <2>2. UpTo(k) \in SUBSET S
        OBVIOUS
  <2> HIDE DEF UpTo
  <2>3. QED
        BY <2>2, FS_Subset, FS_CardinalityType
<1>2. i \in Nat \ {0}
  <2>1. n \in UpTo(n)
        OBVIOUS
  <2> HIDE DEF UpTo
  <2>2. UpTo(n) # {}
        BY <2>1
  <2>3. QED
        BY <1>1, <2>2, FS_EmptySet
<1>3. i \in 1 .. Cardinality(S)
  <2>1. Cardinality(S) \in Nat
        BY FS_CardinalityType
  <2>2. i <= Cardinality(S)
        BY <1>1
  <2> HIDE DEF i
  <2>3. QED
        BY <1>2, <2>1, <2>2
<1>4. PICK k : k = Ascending(S)[i]
      OBVIOUS
<1>5. k \in S /\ Cardinality(UpTo(k)) = i
  <2>1. PICK j \in 1 .. Cardinality(S) : j = i
        BY <1>3
  <2>2. /\ Ascending(S)[j] \in S
        /\ Cardinality({m \in S : m <= Ascending(S)[j]}) = j
        BY AscendingIn
  <2> HIDE DEF i
  <2>3. QED
        BY <1>4, <2>1, <2>2
\* Of two different numbers more members are as large as the larger at most.
<1>6. \A a, b \in S : Cardinality(UpTo(a)) = Cardinality(UpTo(b)) => ~(a < b)
  <2>1. SUFFICES ASSUME NEW a \in S, NEW b \in S, a < b,
                        Cardinality(UpTo(a)) = Cardinality(UpTo(b))
                 PROVE  FALSE
        OBVIOUS
  <2>2. a \in Nat /\ b \in Nat /\ \A m \in S : m \in Nat
        OBVIOUS
  <2>3. UpTo(a) \in SUBSET UpTo(b)
    <3>1. \A m \in S : m <= a => m <= b
          BY <2>1, <2>2
    <3>2. QED
          BY <3>1
  <2>4. b \in UpTo(b) /\ b \notin UpTo(a)
        BY <2>1, <2>2
  <2> HIDE DEF UpTo
  <2>5. UpTo(a) = UpTo(b)
        BY <1>1, <2>1, <2>3, FS_Subset
  <2>6. QED
        BY <2>4, <2>5
<1>7. k = n
  <2>1. k \in Nat /\ n \in Nat
        BY <1>5
  <2>2. ~(k < n) /\ ~(n < k)
        BY <1>5, <1>6
  <2>3. QED
        BY <2>1, <2>2
<1>8. QED
      BY <1>3, <1>4, <1>7

-----------------------------------------------------------------------------
(* What the muxer writes for a sample.                                      *)

\* The PIDs of the streams there are.
StreamPids == {pid \in MuxedPids \ {PatPid, PmtPid} : cc[pid] # None}

LEMMA StreamsAreSome == StreamPids \subseteq Nat /\ IsFiniteSet(StreamPids)
<1>1. PICK n \in Nat : n = 4352
      OBVIOUS
<1>2. \A pid \in MuxedPids : pid \in Nat /\ pid <= n
  <2>1. /\ PatPid \in Nat /\ PatPid <= n /\ PmtPid \in Nat /\ PmtPid <= n
        /\ \A type \in MuxedTypes : PidOf(type) \in Nat /\ PidOf(type) <= n
        BY <1>1, SMT DEF MuxedTypes, PidOf, PatPid, PmtPid
  <2> HIDE DEF MuxedTypes, PidOf, PatPid, PmtPid
  <2>2. QED
        BY <2>1 DEF MuxedPids
<1>3. StreamPids \in SUBSET Nat /\ \A pid \in StreamPids : pid <= n
      BY <1>2 DEF StreamPids
<1>4. QED
      BY <1>3, FS_BoundedSetOfNaturals, SMT

\* The PMT lists every stream.
LEMMA StreamsAreListed ==
    /\ DOMAIN StreamInfo = 1 .. Cardinality(StreamPids) /\ Cardinality(StreamPids) \in Nat
    /\ \A pid \in StreamPids : \E i \in DOMAIN StreamInfo : StreamInfo[i].pid = pid
<1>1. PICK S : S = StreamPids
      OBVIOUS
<1>2. S \subseteq Nat /\ IsFiniteSet(S)
      BY <1>1, StreamsAreSome
<1>3. StreamInfo = [i \in DOMAIN Ascending(S) |->
                       [pid |-> Ascending(S)[i], type |-> TypeOf(Ascending(S)[i]),
                        ca |-> << >>]]
      BY <1>1 DEF StreamInfo, StreamPids
<1>4. DOMAIN StreamInfo = 1 .. Cardinality(S)
      BY <1>3 DEF Ascending
<1>5. Cardinality(S) \in Nat
      BY <1>2, FS_CardinalityType
<1>6. ASSUME NEW pid \in S
      PROVE  \E i \in DOMAIN StreamInfo : StreamInfo[i].pid = pid
  <2>1. PICK i : i = Cardinality({m \in S : m <= pid})
        OBVIOUS
  <2>2. i \in 1 .. Cardinality(S) /\ Ascending(S)[i] = pid
        BY <1>2, <2>1, AscendingIs
  <2>3. StreamInfo[i].pid = Ascending(S)[i]
        BY <1>3, <1>4, <2>2
  <2>4. QED
        BY <1>4, <2>2, <2>3
<1>7. QED
      BY <1>1, <1>4, <1>5, <1>6

\* The packets of a PES packet, from one on.
PesFrom(p, first, pid, pes, dts) ==
    \A i \in first .. Len(p) :
        /\ p[i].kind = "pes" /\ p[i].pid = pid /\ p[i].pes = pes /\ p[i].dts = dts
        /\ p[i].start = (i = first)

LEMMA PacketsAre ==
    ASSUME NEW pid, NEW pes, NEW data \in Seq(ClearCells), NEW dts, NEW pts
    PROVE  LET packets == Packets(pid, pes, data, dts, pts)
           IN  /\ IsSequence(packets) /\ Len(packets) \in Nat \ {0}
               /\ PesFrom(packets, 1, pid, pes, dts)
               /\ cc[pid] \in Nat => \A i \in 1 .. Len(packets) : packets[i].counter \in Nat
<1> DEFINE more == IF Len(data) <= FirstPayload THEN 0
                   ELSE (Len(data) - FirstPayload + NextPayload - 1) \div NextPayload
<1>1. more \in Nat
  <2>1. Len(data) \in Nat /\ FirstPayload \in Nat /\ NextPayload \in Nat \ {0}
        BY MuxerAssumption
  <2>2. CASE Len(data) <= FirstPayload
        BY <2>2
  <2>3. CASE ~(Len(data) <= FirstPayload)
    <3> DEFINE a == Len(data) - FirstPayload + NextPayload - 1
    <3>1. a \in Nat
          BY <2>1, <2>3
    <3> HIDE DEF a
    <3>2. a \div NextPayload \in Nat
          BY <2>1, <3>1
    <3>3. QED
          BY <2>3, <3>2 DEF a
  <2>4. QED
        BY <2>2, <2>3
<1> DEFINE packets == Packets(pid, pes, data, dts, pts)
<1>2. /\ packets = [i \in 1 .. more + 1 |-> packets[i]]
      /\ \A i \in 1 .. more + 1 :
            /\ packets[i].kind = "pes" /\ packets[i].pid = pid
            /\ packets[i].pes = pes /\ packets[i].dts = dts
            /\ packets[i].start = (i = 1)
            /\ packets[i].counter = (cc[pid] + i) % 16
      BY DEF Packets
<1> SUFFICES /\ IsSequence(packets) /\ Len(packets) \in Nat \ {0}
             /\ PesFrom(packets, 1, pid, pes, dts)
             /\ cc[pid] \in Nat => \A i \in 1 .. Len(packets) : packets[i].counter \in Nat
      OBVIOUS
<1> HIDE DEF packets, more
<1>3. Len(packets) = more + 1
  <2>1. more + 1 \in Nat
        BY <1>1
  <2>2. DOMAIN packets = 1 .. more + 1
        BY <1>2
  <2>3. QED
        BY <2>1, <2>2
<1>4. ASSUME cc[pid] \in Nat, NEW i \in 1 .. Len(packets)
      PROVE  packets[i].counter \in Nat
  <2>1. (cc[pid] + i) % 16 \in Nat
        BY <1>1, <1>3, <1>4
  <2>2. QED
        BY <1>2, <1>3, <2>1
<1>5. QED
      BY <1>1, <1>2, <1>3, <1>4 DEF IsSequence, PesFrom

LEMMA TablesAre ==
    /\ IsSequence(Tables) /\ Len(Tables) = 2
    /\ Tables[1].kind = "pat" /\ Tables[2].kind = "pmt"
    /\ Tables[2].streams = StreamInfo
<1> DEFINE pat == [kind |-> "pat", pid |-> PatPid, counter |-> Next16(cc[PatPid])]
           pmt == [kind |-> "pmt", pid |-> PmtPid, counter |-> Next16(cc[PmtPid]),
                   program |-> 1, ca |-> << >>, streams |-> StreamInfo]
<1>1. Tables = <<pat, pmt>>
      BY DEF Tables
<1>2. pat.kind = "pat" /\ pmt.kind = "pmt" /\ pmt.streams = StreamInfo
      OBVIOUS
<1> HIDE DEF pat, pmt
<1>3. QED
      BY <1>1, <1>2 DEF IsSequence

-----------------------------------------------------------------------------
(* TablesInTime.                                                            *)

\* A PMT that is recent enough for packet n, and lists its track in time.
InTime(n) ==
    \E m \in DOMAIN air :
        /\ PmtFor(m, n)
        /\ CallOf(n).dts < CallOf(m + 1).dts + TableInterval
        /\ \/ Lists(air[m], air[n].pid)
           \/ \A b \in 1 .. n - 1 : Timed(b) /\ air[b].pid = air[n].pid =>
                 CallOf(n).dts < CallOf(b).dts + TableInterval

\* A PES packet is that of a call, on the PID of a stream.
OfACall(n) ==
    /\ air[n].pes \in 1 .. fed /\ air[n].pid \in StreamPids
    /\ CallOf(n).dts = None => air[n].dts = None

\* The PMT written last: it lists every stream that was written before it, and
\* what was written after it is no older.
LastTables(m) ==
    /\ m \in DOMAIN air /\ m + 1 \in DOMAIN air
    /\ air[m].kind = "pmt" /\ Timed(m + 1) /\ CallOf(m + 1).dts = lastPatPmtTs
    /\ \A b \in DOMAIN air : b < m /\ air[b].kind = "pes" => Lists(air[m], air[b].pid)
    /\ \A b \in DOMAIN air : b > m /\ Timed(b) => lastPatPmtTs <= CallOf(b).dts

\* The tracks of the muxer have a stream each.
StreamsInv ==
    /\ trackMap = [t \in TrackIds |-> trackMap[t]]
    /\ \A t \in TrackIds : trackMap[t] # None => trackMap[t] \in StreamPids
    /\ cc = [pid \in MuxedPids |-> cc[pid]]
    /\ \A pid \in StreamPids : cc[pid] \in Nat

\* What is written for the calls there were.
MuxerInv ==
    /\ broadcast \in Broadcasts /\ fed \in 0 .. Len(broadcast.samples)
    /\ StreamsInv
    /\ broadcast.samples # << >> =>
          /\ IsSequence(air)
          /\ \A n \in DOMAIN air : air[n].kind = "pes" => OfACall(n)
          /\ TimesGrow(broadcast.samples) =>
                /\ \A n \in DOMAIN air : Timed(n) => InTime(n)
                /\ lastPatPmtTs # None => \E m \in DOMAIN air : LastTables(m)

LEMMA MuxerStart == Init => MuxerInv
<1> SUFFICES ASSUME Init PROVE MuxerInv
      OBVIOUS
<1>1. /\ broadcast \in Broadcasts /\ fed = 0 /\ air = broadcast.packets
      /\ lastPatPmtTs = None
      BY DEF Init, MuxerInit
<1>2. /\ broadcast.packets = << >> \/ broadcast.samples = << >>
      /\ broadcast.samples \in Seq(Calls)
      BY <1>1, BroadcastAssumption
<1>3. Len(broadcast.samples) \in Nat
      BY <1>2
<1>4. ASSUME broadcast.samples # << >>
      PROVE  IsSequence(air) /\ DOMAIN air = {}
  <2>1. air = << >>
        BY <1>1, <1>2, <1>4
  <2>2. DOMAIN << >> = {}
        OBVIOUS
  <2>3. IsSequence(<< >>)
        BY DEF IsSequence
  <2>4. QED
        BY <2>1, <2>2, <2>3
<1>5. fed \in 0 .. Len(broadcast.samples)
      BY <1>1, <1>3
<1>6. StreamsInv
  <2>1. /\ trackMap = [t \in TrackIds |-> None]
        /\ cc = [pid \in MuxedPids |-> IF pid \in {PatPid, PmtPid} THEN 0 ELSE None]
        BY DEF Init, MuxerInit
  <2>2. StreamPids = {}
        BY <2>1 DEF StreamPids
  <2>3. /\ trackMap = [t \in TrackIds |-> trackMap[t]]
        /\ \A t \in TrackIds : trackMap[t] = None
        BY <2>1
  <2>4. cc = [pid \in MuxedPids |-> cc[pid]]
        BY <2>1
  <2>5. QED
        BY <2>2, <2>3, <2>4 DEF StreamsInv
<1>7. QED
      BY <1>1, <1>4, <1>5, <1>6 DEF MuxerInv

LEMMA Appended ==
    ASSUME NEW w, IsSequence(air), IsSequence(w), air' = air \o w
    PROVE  /\ IsSequence(air') /\ Len(air) \in Nat /\ Len(w) \in Nat
           /\ Len(air') = Len(air) + Len(w)
           /\ DOMAIN air = 1 .. Len(air) /\ DOMAIN air' = 1 .. Len(air) + Len(w)
           /\ \A i \in DOMAIN air : air'[i] = air[i]
           /\ \A i \in Len(air) + 1 .. Len(air) + Len(w) : air'[i] = w[i - Len(air)]
<1>1. Len(air) \in Nat /\ Len(w) \in Nat /\ DOMAIN air = 1 .. Len(air)
      BY DEF IsSequence
<1>2. QED
      BY <1>1, Joined

LEMMA NothingAppended ==
    ASSUME IsSequence(air), air' = air \o << >>
    PROVE  air' = air
<1>1. IsSequence(<< >>) /\ Len(<< >>) = 0
      BY DEF IsSequence
<1>2. /\ IsSequence(air') /\ Len(air') = Len(air) /\ Len(air) \in Nat
      /\ \A i \in 1 .. Len(air) : air'[i] = air[i]
      BY <1>1, Appended
<1>3. /\ air = [i \in 1 .. Len(air) |-> air[i]]
      /\ air' = [i \in 1 .. Len(air') |-> air'[i]]
      BY <1>2 DEF IsSequence
<1>4. QED
      BY <1>2, <1>3

\* What a call of the muxer writes.
LEMMA CallWrites ==
    ASSUME MuxerInv, Mux
    PROVE  /\ fed' = fed + 1 /\ fed + 1 \in 1 .. Len(broadcast.samples)
           /\ broadcast' = broadcast /\ broadcast.samples # << >>
           /\ broadcast.samples \in Seq(Calls)
           /\ broadcast.samples[fed + 1] \in Calls
<1>1. /\ broadcast \in Broadcasts /\ fed \in 0 .. Len(broadcast.samples)
      /\ fed < Len(broadcast.samples) /\ fed' = fed + 1 /\ broadcast' = broadcast
      BY DEF MuxerInv, Mux
<1>2. broadcast.samples \in Seq(Calls)
      BY <1>1, BroadcastAssumption
<1>3. fed + 1 \in 1 .. Len(broadcast.samples) /\ broadcast.samples # << >>
      BY <1>1, <1>2
<1>4. broadcast.samples[fed + 1] \in Calls
      BY <1>2, <1>3
<1>5. QED
      BY <1>1, <1>2, <1>3, <1>4

\* Where nothing is written, everything stays; there may be more streams.
LEMMA MuxerKept ==
    ASSUME MuxerInv, broadcast' = broadcast, air' = air, lastPatPmtTs' = lastPatPmtTs,
           fed' \in fed .. Len(broadcast.samples), StreamsInv', StreamPids \subseteq StreamPids'
    PROVE  MuxerInv'
<1>1. broadcast' \in Broadcasts
      BY DEF MuxerInv
<1>2. fed \in Nat /\ Len(broadcast.samples) \in Nat
  <2>1. broadcast.samples \in Seq(Calls)
        BY BroadcastAssumption DEF MuxerInv
  <2>2. QED
        BY <2>1 DEF MuxerInv
<1>3. fed' \in 0 .. Len(broadcast'.samples)
      BY <1>2
<1>4. ASSUME broadcast.samples # << >>
      PROVE  IsSequence(air') /\ \A n \in DOMAIN air' : air'[n].kind = "pes" => OfACall(n)'
  <2>1. SUFFICES ASSUME NEW n \in DOMAIN air, air[n].kind = "pes" PROVE OfACall(n)'
        BY <1>4 DEF MuxerInv
  <2>2. /\ air[n].pes \in 1 .. fed /\ air[n].pid \in StreamPids
        /\ CallOf(n).dts = None => air[n].dts = None
        BY <1>4, <2>1 DEF MuxerInv, OfACall
  <2>3. air[n].pes \in 1 .. fed'
        BY <1>2, <2>2
  <2>4. QED
        BY <2>2, <2>3 DEF OfACall, CallOf
<1>5. ASSUME broadcast.samples # << >>, TimesGrow(broadcast.samples)
      PROVE  /\ \A n \in DOMAIN air' : Timed(n)' => InTime(n)'
             /\ lastPatPmtTs' # None => \E m \in DOMAIN air' : LastTables(m)'
  <2>1. /\ \A n \in DOMAIN air : Timed(n) => InTime(n)
        /\ lastPatPmtTs # None => \E m \in DOMAIN air : LastTables(m)
        BY <1>5 DEF MuxerInv
  <2>2. \A n : (Timed(n)' <=> Timed(n)) /\ (InTime(n)' <=> InTime(n))
               /\ (LastTables(n)' <=> LastTables(n))
        BY DEF Timed, InTime, LastTables, PmtFor, CallOf, Lists
  <2>3. QED
        BY <2>1, <2>2
<1>6. QED
      BY <1>1, <1>3, <1>4, <1>5 DEF MuxerInv

\* Packets that are added change nothing of those before.
LEMMA OldInTime ==
    ASSUME IsSequence(air), IsSequence(air'), Len(air') >= Len(air),
           \A i \in DOMAIN air : air'[i] = air[i], broadcast' = broadcast,
           NEW n \in DOMAIN air, InTime(n)
    PROVE  InTime(n)'
<1>1. DOMAIN air = 1 .. Len(air) /\ DOMAIN air' = 1 .. Len(air') /\ Len(air) \in Nat /\ Len(air') \in Nat
      BY DEF IsSequence
<1>2. \A i \in DOMAIN air :
         /\ i \in DOMAIN air' /\ (Timed(i)' <=> Timed(i)) /\ CallOf(i)' = CallOf(i)
         /\ \A pid : Lists(air'[i], pid) <=> Lists(air[i], pid)
      BY <1>1 DEF Timed, CallOf, Lists
<1>3. PICK m \in DOMAIN air :
         /\ PmtFor(m, n)
         /\ CallOf(n).dts < CallOf(m + 1).dts + TableInterval
         /\ \/ Lists(air[m], air[n].pid)
            \/ \A b \in 1 .. n - 1 : Timed(b) /\ air[b].pid = air[n].pid =>
                  CallOf(n).dts < CallOf(b).dts + TableInterval
      BY DEF InTime
<1>4. m < n /\ air[m].kind = "pmt" /\ m + 1 \in DOMAIN air /\ Timed(m + 1)
      BY <1>3 DEF PmtFor
<1>5. m \in DOMAIN air' /\ PmtFor(m, n)'
      BY <1>2, <1>4 DEF PmtFor
<1>6. CallOf(n)'.dts < CallOf(m + 1)'.dts + TableInterval
      BY <1>2, <1>3, <1>4
<1>7. CASE Lists(air[m], air[n].pid)
  <2>1. Lists(air'[m], air'[n].pid)
        BY <1>2, <1>7
  <2>2. QED
        BY <1>5, <1>6, <2>1 DEF InTime
<1>8. CASE \A b \in 1 .. n - 1 : Timed(b) /\ air[b].pid = air[n].pid =>
                CallOf(n).dts < CallOf(b).dts + TableInterval
  <2>1. ASSUME NEW b \in 1 .. n - 1, Timed(b)', air'[b].pid = air'[n].pid
        PROVE  CallOf(n)'.dts < CallOf(b)'.dts + TableInterval
    <3>1. b \in DOMAIN air
          BY <1>1
    <3>2. QED
          BY <1>2, <1>8, <2>1, <3>1
  <2>2. QED
        BY <1>5, <1>6, <2>1 DEF InTime
<1>9. QED
      BY <1>3, <1>7, <1>8

\* A sample that is written, behind the tables or without them, at packet s.
LEMMA SampleIsWritten ==
    ASSUME MuxerInv, broadcast' = broadcast, broadcast.samples # << >>,
           broadcast.samples \in Seq(Calls),
           fed + 1 \in 1 .. Len(broadcast.samples), fed' = fed + 1,
           NEW w, IsSequence(w), air' = air \o w,
           NEW first \in {1, 3}, first <= Len(w),
           NEW pid \in StreamPids, NEW d, d = broadcast.samples[fed + 1].dts,
           PesFrom(w, first, pid, fed + 1, Wrapped(d)),
           first = 1 => ~TablesDue(d) /\ lastPatPmtTs' = lastPatPmtTs,
           first = 3 => /\ w[1].kind = "pat" /\ w[2].kind = "pmt"
                        /\ w[2].streams = StreamInfo /\ d # None /\ lastPatPmtTs' = d,
           StreamsInv', StreamPids \subseteq StreamPids'
    PROVE  MuxerInv'
<1>1. PICK s : s = Len(air) + first
      OBVIOUS
<1>2. IsSequence(air) /\ broadcast \in Broadcasts /\ fed \in Nat
  <2>1. Len(broadcast.samples) \in Nat
        OBVIOUS
  <2>2. QED
        BY <2>1 DEF MuxerInv
<1>3. /\ IsSequence(air') /\ Len(air) \in Nat /\ Len(w) \in Nat
      /\ Len(air') = Len(air) + Len(w)
      /\ DOMAIN air = 1 .. Len(air) /\ DOMAIN air' = 1 .. Len(air')
      /\ \A i \in DOMAIN air : air'[i] = air[i] /\ i \in DOMAIN air'
      /\ \A i \in Len(air) + 1 .. Len(air') : air'[i] = w[i - Len(air)]
  <2>1. /\ IsSequence(air') /\ Len(air) \in Nat /\ Len(w) \in Nat
        /\ Len(air') = Len(air) + Len(w)
        /\ DOMAIN air = 1 .. Len(air) /\ DOMAIN air' = 1 .. Len(air) + Len(w)
        /\ \A i \in DOMAIN air : air'[i] = air[i]
        /\ \A i \in Len(air) + 1 .. Len(air) + Len(w) : air'[i] = w[i - Len(air)]
        BY <1>2, Appended
  <2>2. QED
        BY <2>1
<1>4. s \in DOMAIN air' /\ s \notin DOMAIN air /\ s \in Nat
      BY <1>1, <1>3
\* The packets of the sample.
<1>5. \A n \in s .. Len(air') :
         /\ air'[n].kind = "pes" /\ air'[n].pid = pid /\ air'[n].pes = fed + 1
         /\ air'[n].dts = Wrapped(d) /\ air'[n].start = (n = s)
  <2>1. SUFFICES ASSUME NEW n \in s .. Len(air')
                 PROVE  /\ air'[n].kind = "pes" /\ air'[n].pid = pid /\ air'[n].pes = fed + 1
                        /\ air'[n].dts = Wrapped(d) /\ air'[n].start = (n = s)
        OBVIOUS
  <2>2. PICK i \in first .. Len(w) : i = n - Len(air)
        BY <1>1, <1>3
  <2>3. air'[n] = w[i] /\ (i = first <=> n = s)
        BY <1>1, <1>3, <2>2
  <2>4. /\ w[i].kind = "pes" /\ w[i].pid = pid /\ w[i].pes = fed + 1
        /\ w[i].dts = Wrapped(d) /\ w[i].start = (i = first)
        BY DEF PesFrom
  <2>5. QED
        BY <2>3, <2>4, Zenon
\* The tables before it.
<1>6. \A n \in DOMAIN air' \ DOMAIN air : n \notin s .. Len(air') =>
         air'[n].kind # "pes" /\ first = 3
  <2>1. SUFFICES ASSUME NEW n \in DOMAIN air' \ DOMAIN air, n \notin s .. Len(air')
                 PROVE  air'[n].kind # "pes" /\ first = 3
        OBVIOUS
  <2>2. n - Len(air) \in 1 .. first - 1 /\ air'[n] = w[n - Len(air)]
        BY <1>1, <1>3, <2>1
  <2>3. first = 3 /\ (n - Len(air) = 1 \/ n - Len(air) = 2)
        BY <2>2
  <2>4. QED
        BY <2>2, <2>3
<1>7. \A n \in DOMAIN air' : Timed(n)' => (n \in DOMAIN air /\ Timed(n)) \/ n = s
  <2>1. SUFFICES ASSUME NEW n \in DOMAIN air', Timed(n)', n # s
                 PROVE  n \in DOMAIN air /\ Timed(n)
        OBVIOUS
  <2>2. n \in DOMAIN air
    <3>1. SUFFICES ASSUME n \notin DOMAIN air PROVE FALSE
          OBVIOUS
    <3>2. air'[n].kind = "pes" /\ air'[n].start
          BY <2>1 DEF Timed
    <3>3. n \in s .. Len(air')
          BY <1>6, <3>1, <3>2
    <3>4. QED
          BY <1>5, <2>1, <3>2, <3>3
  <2>3. QED
        BY <1>3, <2>1, <2>2 DEF Timed
<1>8. CallOf(s)' = broadcast.samples[fed + 1] /\ air'[s].pid = pid
  <2>1. s \in s .. Len(air')
        BY <1>3, <1>4
  <2>2. QED
        BY <1>5, <2>1 DEF CallOf
<1>9. \A n \in DOMAIN air' : air'[n].kind = "pes" => OfACall(n)'
  <2>1. SUFFICES ASSUME NEW n \in DOMAIN air', air'[n].kind = "pes" PROVE OfACall(n)'
        OBVIOUS
  <2>2. CASE n \in DOMAIN air
    <3>1. /\ air[n].pes \in 1 .. fed /\ air[n].pid \in StreamPids
          /\ CallOf(n).dts = None => air[n].dts = None
          BY <1>3, <2>1, <2>2 DEF MuxerInv, OfACall
    <3>2. air[n].pes \in 1 .. fed'
          BY <1>2, <3>1
    <3>3. QED
          BY <1>3, <2>2, <3>1, <3>2 DEF OfACall, CallOf
  <2>3. CASE n \notin DOMAIN air
    <3>1. air'[n].pid = pid /\ air'[n].pes = fed + 1 /\ air'[n].dts = Wrapped(d)
          BY <1>5, <1>6, <2>1, <2>3
    <3>2. fed + 1 \in 1 .. fed'
          BY <1>2
    <3>3. d = None => Wrapped(d) = None
          BY DEF Wrapped
    <3>4. QED
          BY <3>1, <3>2, <3>3 DEF OfACall, CallOf
  <2>4. QED
        BY <2>2, <2>3
\* Where times grow.
<1>10. ASSUME TimesGrow(broadcast.samples)
       PROVE  /\ \A n \in DOMAIN air' : Timed(n)' => InTime(n)'
              /\ lastPatPmtTs' # None => \E m \in DOMAIN air' : LastTables(m)'
  <2>1. /\ \A n \in DOMAIN air : Timed(n) => InTime(n)
        /\ lastPatPmtTs # None => \E m \in DOMAIN air : LastTables(m)
        BY <1>10 DEF MuxerInv
  <2>2. \A n \in DOMAIN air : air[n].kind = "pes" => OfACall(n)
        BY DEF MuxerInv
  <2>3. \A i \in DOMAIN air :
           /\ (Timed(i)' <=> Timed(i)) /\ CallOf(i)' = CallOf(i)
           /\ \A p : Lists(air'[i], p) <=> Lists(air[i], p)
        BY <1>3 DEF Timed, CallOf, Lists
  \* What was written before is no later than the sample.
  <2>4. \A n \in DOMAIN air : Timed(n) =>
           /\ CallOf(n).dts \in Nat
           /\ d # None => CallOf(n).dts <= d
    <3>1. SUFFICES ASSUME NEW n \in DOMAIN air, Timed(n)
                   PROVE  CallOf(n).dts \in Nat /\ (d # None => CallOf(n).dts <= d)
          OBVIOUS
    <3>2. air[n].pes \in 1 .. fed /\ CallOf(n).dts # None
          BY <2>2, <3>1 DEF Timed, OfACall
    <3>3. PICK k : k = air[n].pes
          OBVIOUS
    <3>4. k \in DOMAIN broadcast.samples /\ fed + 1 \in DOMAIN broadcast.samples /\ k < fed + 1
      <4>1. DOMAIN broadcast.samples = 1 .. Len(broadcast.samples)
            OBVIOUS
      <4>2. QED
            BY <1>2, <3>2, <3>3, <4>1
    <3>5. broadcast.samples[k] \in Calls /\ broadcast.samples[k].dts # None
          BY <3>2, <3>3, <3>4 DEF CallOf
    <3>6. d # None => broadcast.samples[k].dts <= d
          BY <1>10, <3>4, <3>5 DEF TimesGrow
    <3>7. QED
          BY <3>3, <3>5, <3>6 DEF CallOf, Calls
  <2>5. d \in Nat \cup {None}
    <3>1. broadcast.samples[fed + 1] \in Calls
          OBVIOUS
    <3>2. QED
          BY <3>1 DEF Calls
  <2>6. Timed(s)' => d # None /\ d \in Nat
    <3>1. s \in s .. Len(air')
          BY <1>3, <1>4
    <3>2. Timed(s)' => Wrapped(d) # None
          BY <1>5, <3>1 DEF Timed
    <3>3. QED
          BY <2>5, <3>2 DEF Wrapped
  <2>7. ASSUME NEW n \in DOMAIN air, Timed(n)
        PROVE  InTime(n)'
    <3>1. Len(air') >= Len(air)
          BY <1>3
    <3>2. InTime(n)
          BY <2>1, <2>7
    <3>3. QED
          BY <1>2, <1>3, <3>1, <3>2, OldInTime
  <2>8. CASE first = 1
    <3>1. s = Len(air) + 1 /\ ~TablesDue(d) /\ lastPatPmtTs' = lastPatPmtTs
          BY <1>1, <2>8
    <3>2. ASSUME Timed(s)' PROVE InTime(s)'
      <4>1. d \in Nat /\ d # None /\ lastPatPmtTs # None
            /\ ~(d >= lastPatPmtTs + TableInterval)
            BY <2>6, <3>1, <3>2 DEF TablesDue
      <4>2. PICK m \in DOMAIN air : LastTables(m)
            BY <2>1, <4>1
      <4>3. /\ m + 1 \in DOMAIN air /\ air[m].kind = "pmt" /\ Timed(m + 1)
            /\ CallOf(m + 1).dts = lastPatPmtTs
            /\ \A b \in DOMAIN air : b < m /\ air[b].kind = "pes" => Lists(air[m], air[b].pid)
            /\ \A b \in DOMAIN air : b > m /\ Timed(b) => lastPatPmtTs <= CallOf(b).dts
            BY <4>2 DEF LastTables
      <4>4. lastPatPmtTs \in Nat /\ TableInterval \in Nat
            BY <2>4, <4>3, MuxerAssumption
      <4>5. d < lastPatPmtTs + TableInterval
            BY <4>1, <4>4
      <4>6. m \in DOMAIN air' /\ PmtFor(m, s)'
        <5>1. m < s
              BY <1>3, <3>1
        <5>2. QED
              BY <1>3, <2>3, <4>3, <5>1 DEF PmtFor
      <4>7. CallOf(s)'.dts < CallOf(m + 1)'.dts + TableInterval
            BY <1>8, <2>3, <4>3, <4>5
      <4>8. CASE Lists(air[m], pid)
        <5>1. Lists(air'[m], air'[s].pid)
              BY <1>8, <2>3, <4>8
        <5>2. QED
              BY <4>6, <4>7, <5>1 DEF InTime
      <4>9. CASE ~Lists(air[m], pid)
        <5>1. ASSUME NEW b \in 1 .. s - 1, Timed(b)', air'[b].pid = air'[s].pid
              PROVE  CallOf(s)'.dts < CallOf(b)'.dts + TableInterval
          <6>1. b \in DOMAIN air
                BY <1>3, <3>1
          <6>2. air[b].kind = "pes" /\ air[b].pid = pid /\ Timed(b)
                BY <1>3, <1>8, <2>3, <5>1, <6>1 DEF Timed
          <6>3. b # m /\ ~(b < m)
                BY <4>3, <4>9, <6>1, <6>2
          <6>4. b > m
                BY <1>3, <6>1, <6>3
          <6>5. lastPatPmtTs <= CallOf(b).dts /\ CallOf(b).dts \in Nat
                BY <2>4, <4>3, <6>1, <6>2, <6>4
          <6>6. d < CallOf(b).dts + TableInterval
                BY <4>1, <4>4, <4>5, <6>5
          <6>7. QED
                BY <1>8, <2>3, <6>1, <6>6
        <5>2. QED
              BY <4>6, <4>7, <5>1 DEF InTime
      <4>10. QED
            BY <4>8, <4>9
    <3>3. ASSUME lastPatPmtTs' # None
          PROVE  \E m \in DOMAIN air' : LastTables(m)'
      <4>1. PICK m \in DOMAIN air : LastTables(m)
            BY <2>1, <3>1, <3>3
      <4>2. /\ m + 1 \in DOMAIN air /\ air[m].kind = "pmt" /\ Timed(m + 1)
            /\ CallOf(m + 1).dts = lastPatPmtTs
            /\ \A b \in DOMAIN air : b < m /\ air[b].kind = "pes" => Lists(air[m], air[b].pid)
            /\ \A b \in DOMAIN air : b > m /\ Timed(b) => lastPatPmtTs <= CallOf(b).dts
            BY <4>1 DEF LastTables
      <4>3. \A b \in DOMAIN air' : b < m => b \in DOMAIN air
            BY <1>3
      <4>4. ASSUME NEW b \in DOMAIN air', b < m, air'[b].kind = "pes"
            PROVE  Lists(air'[m], air'[b].pid)
        <5>1. b \in DOMAIN air /\ air'[b] = air[b]
              BY <1>3, <4>3, <4>4
        <5>2. Lists(air[m], air[b].pid)
              BY <4>2, <4>4, <5>1
        <5>3. QED
              BY <2>3, <5>1, <5>2
      <4>5. ASSUME NEW b \in DOMAIN air', b > m, Timed(b)'
            PROVE  lastPatPmtTs' <= CallOf(b)'.dts
        <5>1. CASE b \in DOMAIN air
              BY <2>3, <3>1, <4>2, <4>5, <5>1
        <5>2. CASE b \notin DOMAIN air
          <6>1. b = s /\ d # None
                BY <1>7, <2>6, <4>5, <5>2
          <6>2. lastPatPmtTs <= d
                BY <2>4, <4>2, <6>1
          <6>3. QED
                BY <1>8, <3>1, <6>1, <6>2
        <5>3. QED
              BY <5>1, <5>2
      <4>6. /\ m \in DOMAIN air' /\ m + 1 \in DOMAIN air' /\ air'[m].kind = "pmt"
            /\ Timed(m + 1)' /\ CallOf(m + 1)'.dts = lastPatPmtTs'
            BY <1>3, <2>3, <3>1, <4>2
      <4>7. LastTables(m)'
            BY <4>4, <4>5, <4>6 DEF LastTables
      <4>8. QED
            BY <4>6, <4>7
    <3>4. QED
          BY <1>7, <2>7, <3>2, <3>3
  <2>9. CASE first = 3
    <3>1. PICK m \in Nat : m = Len(air) + 2
          BY <1>3
    <3>2. /\ s = m + 1 /\ m < s /\ m \in DOMAIN air' /\ m + 1 \in DOMAIN air'
          /\ m \notin DOMAIN air
          BY <1>1, <1>3, <2>9, <3>1
    <3>3. air'[m] = w[2]
      <4>1. m \in Len(air) + 1 .. Len(air') /\ m - Len(air) = 2
            BY <1>3, <2>9, <3>1
      <4>2. QED
            BY <1>3, <4>1
    <3>4. air'[m].kind = "pmt" /\ air'[m].streams = StreamInfo
          /\ d # None /\ d \in Nat /\ lastPatPmtTs' = d
          BY <2>5, <2>9, <3>3
    <3>5. \A p \in StreamPids : Lists(air'[m], p)
      <4>1. \A p \in StreamPids : \E i \in DOMAIN StreamInfo : StreamInfo[i].pid = p
            BY StreamsAreListed
      <4>2. QED
            BY <3>4, <4>1 DEF Lists
    <3>6. Timed(m + 1)' /\ CallOf(m + 1)'.dts = d
      <4>1. s \in s .. Len(air')
            BY <1>3, <1>4
      <4>2. Wrapped(d) # None
        <5>1. d % TimestampMax \in Nat
              BY <3>4, MuxerAssumption
        <5>2. QED
              BY <3>4, <5>1, BroadcastAssumption DEF Wrapped
      <4>3. QED
            BY <1>5, <1>8, <3>2, <4>1, <4>2 DEF Timed
    <3>7. InTime(s)'
      <4>1. PmtFor(m, s)'
            BY <3>2, <3>4, <3>6 DEF PmtFor
      <4>2. CallOf(s)'.dts < CallOf(m + 1)'.dts + TableInterval
        <5>1. d < d + TableInterval
              BY <3>4, MuxerAssumption
        <5>2. QED
              BY <3>2, <3>6, <5>1
      <4>3. Lists(air'[m], air'[s].pid)
            BY <1>8, <3>5
      <4>4. QED
            BY <3>2, <4>1, <4>2, <4>3 DEF InTime
    <3>8. LastTables(m)'
      <4>1. ASSUME NEW b \in DOMAIN air', b < m, air'[b].kind = "pes"
            PROVE  Lists(air'[m], air'[b].pid)
        <5>1. b \in DOMAIN air
          <6>1. SUFFICES ASSUME b \notin DOMAIN air PROVE FALSE
                OBVIOUS
          <6>2. b \in s .. Len(air')
                BY <1>6, <4>1, <6>1
          <6>3. QED
                BY <1>3, <3>1, <3>2, <4>1, <6>2
        <5>2. air[b].kind = "pes" /\ air'[b] = air[b]
              BY <1>3, <4>1, <5>1
        <5>3. air[b].pid \in StreamPids
              BY <2>2, <5>1, <5>2 DEF OfACall
        <5>4. QED
              BY <3>5, <5>2, <5>3
      <4>2. ASSUME NEW b \in DOMAIN air', b > m, Timed(b)'
            PROVE  lastPatPmtTs' <= CallOf(b)'.dts
        <5>1. b \notin DOMAIN air
              BY <1>3, <3>1, <4>2
        <5>2. b = s
              BY <1>7, <4>2, <5>1
        <5>3. QED
              BY <3>2, <3>4, <3>6, <5>2
      <4>3. QED
            BY <3>2, <3>4, <3>6, <4>1, <4>2 DEF LastTables
    <3>9. QED
          BY <1>7, <2>7, <3>2, <3>7, <3>8
  <2>10. QED
        BY <2>8, <2>9
<1>11. broadcast' \in Broadcasts /\ fed' \in 0 .. Len(broadcast'.samples)
       BY <1>2
<1>12. QED
       BY <1>3, <1>9, <1>10, <1>11 DEF MuxerInv

LEMMA NothingBefore ==
    ASSUME NEW p, IsSequence(p)
    PROVE  << >> \o p = p
<1>1. IsSequence(<< >>) /\ Len(<< >>) = 0
      BY DEF IsSequence
<1>2. Len(p) \in Nat
      BY DEF IsSequence
<1> DEFINE s == << >> \o p
<1>3. /\ IsSequence(s) /\ Len(s) = Len(<< >>) + Len(p)
      /\ \A i \in Len(<< >>) + 1 .. Len(<< >>) + Len(p) : s[i] = p[i - Len(<< >>)]
      BY <1>1, Joined
<1> HIDE DEF s
<1>4. IsSequence(s) /\ Len(s) = Len(p) /\ \A i \in 1 .. Len(p) : s[i] = p[i]
      BY <1>1, <1>2, <1>3
<1>5. p = [i \in 1 .. Len(p) |-> p[i]] /\ s = [i \in 1 .. Len(s) |-> s[i]]
      BY <1>4 DEF IsSequence
<1>6. s = p
      BY <1>4, <1>5
<1>7. QED
      BY <1>6 DEF s

\* The tables and a sample after them.
LEMMA TablesAndSample ==
    ASSUME NEW p, IsSequence(p), Len(p) # 0, NEW pid, NEW pes, NEW dts,
           PesFrom(p, 1, pid, pes, dts)
    PROVE  LET w == Tables \o p
           IN  /\ IsSequence(w) /\ Len(w) \in Nat /\ Len(w) > 2
               /\ w[1].kind = "pat" /\ w[2].kind = "pmt" /\ w[2].streams = StreamInfo
               /\ PesFrom(w, 3, pid, pes, dts)
<1>1. PICK t : t = Tables
      OBVIOUS
<1> DEFINE w == t \o p
<1>2. IsSequence(t)
      BY <1>1, TablesAre
<1>3. /\ IsSequence(w) /\ Len(w) = Len(t) + Len(p)
      /\ \A i \in 1 .. Len(t) : w[i] = t[i]
      /\ \A i \in Len(t) + 1 .. Len(t) + Len(p) : w[i] = p[i - Len(t)]
      BY <1>2, Joined
<1>4. /\ Len(t) = 2 /\ t[1].kind = "pat" /\ t[2].kind = "pmt"
      /\ t[2].streams = StreamInfo
      BY <1>1, TablesAre
<1>5. Len(p) \in Nat
      BY DEF IsSequence
<1> HIDE DEF w
<1>6. Len(w) = 2 + Len(p) /\ Len(w) > 2 /\ Len(w) \in Nat
      BY <1>3, <1>4, <1>5
<1>7. w[1] = t[1] /\ w[2] = t[2]
      BY <1>3, <1>4
<1>8. ASSUME NEW i \in 3 .. Len(w)
      PROVE  /\ w[i].kind = "pes" /\ w[i].pid = pid /\ w[i].pes = pes
             /\ w[i].dts = dts /\ w[i].start = (i = 3)
  <2>1. i - 2 \in 1 .. Len(p) /\ i \in Len(t) + 1 .. Len(t) + Len(p)
        BY <1>4, <1>5, <1>6
  <2>2. w[i] = p[i - 2]
        BY <1>3, <1>4, <2>1
  <2>3. (i - 2 = 1) = (i = 3)
        BY <1>6
  <2>4. QED
        BY <2>1, <2>2, <2>3 DEF PesFrom
<1>9. PesFrom(w, 3, pid, pes, dts)
      BY <1>8 DEF PesFrom
<1>10. QED
      BY <1>1, <1>3, <1>4, <1>6, <1>7, <1>9 DEF w

\* A track that is added has a stream, and the others keep theirs.
LEMMA AddTrackStreams ==
    ASSUME StreamsInv, NEW t \in TrackIds, NEW type \in MuxedTypes, AddTrack(t, type)
    PROVE  StreamsInv' /\ StreamPids \subseteq StreamPids'
<1>1. CASE UNCHANGED <<trackMap, cc>>
      BY <1>1 DEF StreamsInv, StreamPids
<1>2. CASE /\ trackMap' = [trackMap EXCEPT ![t] = PidOf(type)]
           /\ cc' = [cc EXCEPT ![PidOf(type)] = 0]
  <2>1. PICK pid : pid = PidOf(type)
        OBVIOUS
  <2>2. pid \in MuxedPids \ {PatPid, PmtPid}
    <3>1. PidOf(type) # PatPid /\ PidOf(type) # PmtPid
          BY SMT DEF MuxedTypes, PidOf, PatPid, PmtPid
    <3>2. QED
          BY <2>1, <3>1 DEF MuxedPids
  <2>3. /\ trackMap = [u \in TrackIds |-> trackMap[u]]
        /\ cc = [p \in MuxedPids |-> cc[p]]
        BY DEF StreamsInv
  <2>4. /\ cc' = [p \in MuxedPids |-> cc'[p]] /\ cc'[pid] = 0
        /\ \A p \in MuxedPids : p # pid => cc'[p] = cc[p]
        BY <1>2, <2>1, <2>2, <2>3
  <2>5. /\ trackMap' = [u \in TrackIds |-> trackMap'[u]] /\ trackMap'[t] = pid
        /\ \A u \in TrackIds : u # t => trackMap'[u] = trackMap[u]
        BY <1>2, <2>1, <2>3
  <2>6. 0 # None
        BY BroadcastAssumption
  <2>7. StreamPids' = StreamPids \cup {pid}
    <3>1. StreamPids' = {p \in MuxedPids \ {PatPid, PmtPid} : cc'[p] # None}
          BY DEF StreamPids
    <3> HIDE DEF MuxedPids, PatPid, PmtPid
    <3>2. \A p : p \in StreamPids' <=> p \in StreamPids \/ p = pid
          BY <2>2, <2>4, <2>6, <3>1 DEF StreamPids
    <3>3. QED
          BY <3>2
  <2>8. \A p \in StreamPids' : cc'[p] \in Nat
    <3>1. \A p \in StreamPids : cc[p] \in Nat /\ p \in MuxedPids
          BY DEF StreamsInv, StreamPids
    <3>2. QED
          BY <2>4, <2>7, <3>1
  <2>9. \A u \in TrackIds : trackMap'[u] # None => trackMap'[u] \in StreamPids'
        BY <2>5, <2>7 DEF StreamsInv
  <2>10. QED
        BY <2>4, <2>5, <2>7, <2>8, <2>9 DEF StreamsInv
<1>3. QED
      BY <1>1, <1>2 DEF AddTrack

\* A sample of a track leaves the streams as they are.
LEMMA WriteSampleStreams ==
    ASSUME StreamsInv, NEW pid \in StreamPids, NEW n \in Nat, trackMap' = trackMap,
           NEW due \in BOOLEAN,
           cc' = [q \in MuxedPids |->
                     IF q = pid THEN n
                     ELSE IF q \in {PatPid, PmtPid} /\ due THEN Next16(cc[q])
                     ELSE cc[q]]
    PROVE  StreamsInv' /\ StreamPids' = StreamPids
<1>1. pid \in MuxedPids \ {PatPid, PmtPid} /\ n # None
      BY BroadcastAssumption DEF StreamPids
<1>2. /\ cc' = [q \in MuxedPids |-> cc'[q]]
      /\ cc'[pid] = n
      /\ \A q \in MuxedPids \ {PatPid, PmtPid} : q # pid => cc'[q] = cc[q]
      BY <1>1
<1>3. StreamPids' = StreamPids
  <2>1. StreamPids' = {q \in MuxedPids \ {PatPid, PmtPid} : cc'[q] # None}
        BY DEF StreamPids
  <2> HIDE DEF MuxedPids, PatPid, PmtPid
  <2>2. \A q \in MuxedPids \ {PatPid, PmtPid} : cc'[q] # None <=> cc[q] # None
        BY <1>1, <1>2 DEF StreamPids
  <2>3. QED
        BY <2>1, <2>2 DEF StreamPids
<1>4. \A q \in StreamPids : cc'[q] \in Nat
  <2>1. \A q \in StreamPids : cc[q] \in Nat /\ q \in MuxedPids \ {PatPid, PmtPid}
        BY DEF StreamsInv, StreamPids
  <2>2. QED
        BY <1>2, <2>1
<1>5. QED
      BY <1>2, <1>3, <1>4 DEF StreamsInv

LEMMA MuxStep ==
    ASSUME MuxerInv, Mux
    PROVE  MuxerInv'
<1> DEFINE call == broadcast.samples[fed + 1]
<1>1. /\ fed' = fed + 1 /\ fed + 1 \in 1 .. Len(broadcast.samples)
      /\ broadcast' = broadcast /\ broadcast.samples # << >>
      /\ broadcast.samples \in Seq(Calls) /\ call \in Calls
      BY CallWrites
<1>2. IsSequence(air) /\ fed \in Nat /\ fed' \in fed .. Len(broadcast.samples) /\ StreamsInv
      BY <1>1 DEF MuxerInv
<1>3. call.cells \in Seq(ClearCells) /\ call.track \in TrackIds /\ call.type \in MuxedTypes
      BY <1>1 DEF Calls
<1>4. air' = air \o written'
      BY DEF Mux
<1>5. \/ AddTrack(call.track, call.type)
      \/ WriteSample(fed + 1, call.track, call.cells, call.dts, call.pts)
      BY DEF Mux
<1>6. PICK t, d, e, dts, pts, data :
         /\ t = call.track /\ d = call.dts /\ e = call.pts /\ data = call.cells
         /\ dts = Wrapped(d) /\ pts = Wrapped(e)
      OBVIOUS
<1> HIDE DEF call
<1>7. CASE AddTrack(call.track, call.type)
  <2>1. StreamsInv' /\ StreamPids \subseteq StreamPids'
        BY <1>2, <1>3, <1>7, AddTrackStreams
  <2>2. written' = << >> /\ lastPatPmtTs' = lastPatPmtTs
        BY <1>7 DEF AddTrack
  <2>3. air' = air
        BY <1>2, <1>4, <2>2, NothingAppended
  <2>4. QED
        BY <1>1, <1>2, <2>1, <2>2, <2>3, MuxerKept
<1>8. CASE WriteSample(fed + 1, call.track, call.cells, call.dts, call.pts) /\ trackMap[t] = None
  <2>1. written' = << >> /\ UNCHANGED <<trackMap, cc, lastPatPmtTs>>
        BY <1>6, <1>8 DEF WriteSample
  <2>2. air' = air
        BY <1>2, <1>4, <2>1, NothingAppended
  <2>3. StreamsInv' /\ StreamPids \subseteq StreamPids'
        BY <1>2, <2>1 DEF StreamsInv, StreamPids
  <2>4. QED
        BY <1>1, <1>2, <2>1, <2>2, <2>3, MuxerKept
<1>9. CASE WriteSample(fed + 1, call.track, call.cells, call.dts, call.pts) /\ trackMap[t] # None
  <2>1. PICK pid, p : pid = trackMap[t] /\ p = Packets(trackMap[t], fed + 1, data, dts, pts)
        OBVIOUS
  <2>2. pid \in StreamPids /\ cc[pid] \in Nat
        BY <1>2, <1>3, <1>6, <1>9, <2>1 DEF StreamsInv
  <2>3. /\ IsSequence(p) /\ Len(p) \in Nat \ {0}
        /\ PesFrom(p, 1, pid, fed + 1, dts)
        /\ \A i \in 1 .. Len(p) : p[i].counter \in Nat
    <3>1. data \in Seq(ClearCells)
          BY <1>3, <1>6
    <3>2. QED
          BY <2>1, <2>2, <3>1, PacketsAre
  <2>4. PICK n \in Nat : n = p[Len(p)].counter
    <3>1. Len(p) \in 1 .. Len(p)
          BY <2>3
    <3>2. QED
          BY <2>3, <3>1
  <2>5. PICK tables : tables = IF TablesDue(d) THEN Tables ELSE << >>
        OBVIOUS
  <2>6. /\ written' = tables \o p /\ trackMap' = trackMap
        /\ cc' = [q \in MuxedPids |->
                     IF q = pid THEN n
                     ELSE IF q \in {PatPid, PmtPid} /\ tables # << >> THEN Next16(cc[q])
                     ELSE cc[q]]
        /\ lastPatPmtTs' = IF tables # << >> THEN d ELSE lastPatPmtTs
    <3>1. WriteSample(fed + 1, t, data, d, e)
          BY <1>6, <1>9
    <3>2. QED
          BY <1>6, <1>9, <2>1, <2>4, <2>5, <3>1 DEF WriteSample
  <2>7. StreamsInv' /\ StreamPids \subseteq StreamPids'
    <3>1. PICK due \in BOOLEAN : due <=> tables # << >>
          OBVIOUS
    <3>2. cc' = [q \in MuxedPids |->
                    IF q = pid THEN n
                    ELSE IF q \in {PatPid, PmtPid} /\ due THEN Next16(cc[q])
                    ELSE cc[q]]
          BY <2>6, <3>1
    <3>3. QED
          BY <1>2, <2>2, <2>6, <3>2, WriteSampleStreams
  <2>8. d = broadcast.samples[fed + 1].dts /\ dts = Wrapped(d)
        BY <1>6 DEF call
  <2>9. CASE TablesDue(d)
    <3>1. PICK w : w = Tables \o p
          OBVIOUS
    <3>2. /\ IsSequence(w) /\ Len(w) \in Nat /\ Len(w) > 2
          /\ w[1].kind = "pat" /\ w[2].kind = "pmt" /\ w[2].streams = StreamInfo
          /\ PesFrom(w, 3, pid, fed + 1, dts)
          BY <2>3, <3>1, TablesAndSample
    <3>3. d # None
          BY <2>9 DEF TablesDue
    <3>4. Tables # << >>
      <4>1. PICK tabs : tabs = Tables
            OBVIOUS
      <4>2. Len(tabs) = 2
            BY <4>1, TablesAre
      <4>3. tabs # << >>
            BY <4>2
      <4>4. QED
            BY <4>1, <4>3
    <3>5. air' = air \o w /\ lastPatPmtTs' = d
          BY <1>4, <2>5, <2>6, <2>9, <3>1, <3>4
    <3>6. PICK first \in {1, 3} : first = 3
          OBVIOUS
    <3>7. first <= Len(w) /\ PesFrom(w, first, pid, fed + 1, Wrapped(d)) /\ first # 1
          BY <2>8, <3>2, <3>6
    <3>8. QED
          BY <1>1, <2>2, <2>7, <2>8, <3>2, <3>3, <3>5, <3>7, SampleIsWritten
  <2>10. CASE ~TablesDue(d)
    <3>1. air' = air \o p /\ lastPatPmtTs' = lastPatPmtTs
      <4>1. << >> \o p = p
            BY <2>3, NothingBefore
      <4>2. QED
            BY <1>4, <2>5, <2>6, <2>10, <4>1
    <3>2. PICK first \in {1, 3} : first = 1
          OBVIOUS
    <3>3. first <= Len(p) /\ PesFrom(p, first, pid, fed + 1, Wrapped(d)) /\ first # 3
          BY <2>3, <2>8, <3>2
    <3>4. QED
          BY <1>1, <2>2, <2>3, <2>7, <2>8, <2>10, <3>1, <3>3, SampleIsWritten
  <2>11. QED
        BY <2>9, <2>10
<1>10. QED
      BY <1>5, <1>7, <1>8, <1>9

LEMMA MuxerHolds == MuxerInv /\ [Next]_vars => MuxerInv'
<1> SUFFICES ASSUME MuxerInv, [Next]_vars PROVE MuxerInv'
      OBVIOUS
<1>1. Len(broadcast.samples) \in Nat
  <2>1. broadcast.samples \in Seq(Calls)
        BY BroadcastAssumption DEF MuxerInv
  <2>2. QED
        BY <2>1
<1>2. fed \in fed .. Len(broadcast.samples)
      BY <1>1 DEF MuxerInv
<1>3. CASE Mux
      BY <1>3, MuxStep
<1>4. CASE UNCHANGED <<broadcast, air, fed, muxerVars>>
  <2>1. /\ broadcast' = broadcast /\ air' = air /\ fed' = fed /\ lastPatPmtTs' = lastPatPmtTs
        /\ trackMap' = trackMap /\ cc' = cc
        BY <1>4 DEF muxerVars
  <2>2. StreamsInv' /\ StreamPids \subseteq StreamPids'
        BY <2>1 DEF MuxerInv, StreamsInv, StreamPids
  <2>3. QED
        BY <1>2, <2>1, <2>2, MuxerKept
<1>5. CASE \/ ReceivePat \/ ReceivePmt \/ ReceiveSection \/ IgnoreSection
           \/ ReceivePes \/ LosePacket
  <2>1. Advance
        BY <1>5 DEF ReceivePat, ReceivePmt, ReceiveSection, IgnoreSection, ReceivePes, LosePacket
  <2>2. QED
        BY <1>4, <2>1 DEF Advance
<1>6. CASE Finish
      BY <1>4, <1>6 DEF Finish
<1>7. CASE UNCHANGED vars
      BY <1>4, <1>7 DEF vars, receiverVars
<1>8. QED
      BY <1>3, <1>5, <1>6, <1>7 DEF Next

\* TablesInTime: where the times of the samples do not go back, with every
\* sample with a DTS that the muxer writes, a PMT was written within the last
\* 100 ms, whatever tracks are added and samples cut; and it lists its track
\* from 100 ms after its first sample on (m2ts.rs:592).
THEOREM TablesHaveTheirTime == Spec => []TablesInTime
<1>1. Init => MuxerInv
      BY MuxerStart
<1>2. MuxerInv /\ [Next]_vars => MuxerInv'
      BY MuxerHolds
<1>3. MuxerInv => TablesInTime
      BY DEF MuxerInv, InTime, TablesInTime
<1> HIDE DEF MuxerInv
<1>4. QED
      BY <1>1, <1>2, <1>3, PTL DEF Spec

-----------------------------------------------------------------------------
(* SamplesClear.                                                            *)

\* A packet the muxer writes: neither scrambled nor to do with keys.
Unkeyed(packet) ==
    /\ packet.kind # "section"
    /\ packet.kind = "pmt" => EcmPidsIn(packet) = {}
    /\ packet.kind = "pes" => packet.service = None

\* What every packet on air is like.
Fits(packet) ==
    /\ packet.kind = "pes" =>
          /\ packet.cells \in Seq(ClearCells)
          /\ packet.dts \in Nat \cup {None} /\ packet.pts \in Nat \cup {None}
    /\ packet.kind = "pmt" => \E L \in Nat : DOMAIN packet.streams = 1 .. L

\* What is on air.
AirInv ==
    /\ next \in Nat \ {0} /\ broadcast \in Broadcasts /\ target \in broadcast.targets
    /\ \A n \in DOMAIN air : n \in Nat /\ Fits(air[n])
    /\ broadcast.samples = << >> => air = broadcast.packets
    /\ broadcast.samples # << >> => \A n \in DOMAIN air : Unkeyed(air[n])

\* Tracks are those of the service, and all in them is clear.
TracksInv ==
    /\ tracks = [pid \in Pids |-> tracks[pid]]
    /\ \A pid \in Tracks : pid \in ListedBy(air, target)
    /\ ~keysLost =>
          /\ \A pid \in Tracks : tracks[pid].data \in Seq(ClearCells)
          /\ \A i \in DOMAIN out.samples : out.samples[i].data \in Seq(ClearCells)

\* The keys are those of the last ECM on its PID, once its PID is known.
KeysInv(pid) ==
    /\ ecmPids \subseteq {pid}
    /\ \A k \in DOMAIN air \ lost :
          k < next /\ PmtOf(air[k], target) => EcmPidsIn(air[k]) \subseteq ecmPids
    /\ ~keysLost =>
          /\ workKeys # None =>
                /\ pid \in ecmPids
                /\ \E m \in DOMAIN air :
                      /\ LastOnPid(air, pid, m, next)
                      /\ workKeys = KeysOf(target, EcmIn(air[m]).version)
          /\ EcmCame => workKeys # None

ClearInv ==
    /\ AirInv
    /\ target # None =>
          /\ TracksInv
          /\ broadcast.samples # << >> => ecmPids = {} /\ workKeys = None
          /\ broadcast.samples = << >> =>
                \A pid \in Pids : KeyedBy(air, target, pid) => KeysInv(pid)

-----------------------------------------------------------------------------
(* An ECM of one packet is what is read of the packet.                      *)

\* How far a section at the head of the rest of a buffer goes.
Rest(buffer, start) == SubSeq(buffer, start, Len(buffer))

Ends(buffer, start, garbage) == SectionEnd(Rest(buffer, start), garbage)

Incomplete(buffer, start, garbage) ==
    \/ Len(Rest(buffer, start)) < HeaderLength
    \/ Len(Rest(buffer, start)) < Ends(buffer, start, garbage)

Draining(buffer, garbage, drain, start) ==
    LET more == drain[start + Ends(buffer, start, garbage)]
    IN  IF Rest(buffer, start) # << >> /\ SkipsRest(Rest(buffer, start), garbage)
        THEN [sections |-> << >>, buffer |-> << >>]
        ELSE IF Incomplete(buffer, start, garbage)
        THEN [sections |-> << >>, buffer |-> Rest(buffer, start)]
        ELSE [sections |-> <<SubSeq(Rest(buffer, start), 1, Ends(buffer, start, garbage))>>
                              \o more.sections,
              buffer |-> more.buffer]

Progresses(buffer, garbage) ==
    \A start \in 1 .. Len(buffer) + 1 :
        ~Incomplete(buffer, start, garbage) =>
            /\ Ends(buffer, start, garbage) \in Nat \ {0}
            /\ start + Ends(buffer, start, garbage) <= Len(buffer) + 1

\* What is drained is defined by what is drained of less.
LEMMA DrainingDefined ==
    ASSUME NEW buffer, NEW garbage, Len(buffer) \in Nat, Progresses(buffer, garbage)
    PROVE  \E drain : /\ Drained(buffer, garbage) = drain[1]
                      /\ \A start \in 1 .. Len(buffer) + 1 :
                            drain[start] = Draining(buffer, garbage, drain, start)
<1>1. PICK L \in Nat : L = Len(buffer)
      OBVIOUS
<1> DEFINE Step(g, k) == [start \in L + 1 - k .. L + 1 |-> Draining(buffer, garbage, g, start)]
           T == {k \in 0 .. L : ~\E g : g = Step(g, k)}
<1>2. T \subseteq Nat
      OBVIOUS
<1>3. ASSUME NEW g, NEW h, NEW start \in 1 .. L + 1,
             \A i \in start + 1 .. L + 1 : g[i] = h[i]
      PROVE  Draining(buffer, garbage, g, start) = Draining(buffer, garbage, h, start)
  <2>1. CASE Incomplete(buffer, start, garbage)
        BY <2>1 DEF Draining
  <2>2. CASE ~Incomplete(buffer, start, garbage)
    <3>1. start + Ends(buffer, start, garbage) \in start + 1 .. L + 1
          BY <1>1, <2>2 DEF Progresses
    <3>2. g[start + Ends(buffer, start, garbage)] = h[start + Ends(buffer, start, garbage)]
          BY <1>3, <3>1
    <3>3. QED
          BY <3>2 DEF Draining
  <2>3. QED
        BY <2>1, <2>2
<1>4. \A k \in Nat : k <= L => \E b \in 1 .. L + 1 : b = L + 1 - k
  <2>1. ASSUME NEW k \in Nat, k <= L PROVE L + 1 - k \in 1 .. L + 1
        BY <2>1
  <2>2. QED
        BY <2>1
<1>5. T = {}
  <2>1. SUFFICES ASSUME T # {} PROVE FALSE
        OBVIOUS
  <2>2. PICK k \in T : \A j \in T : ~(<<j, k>> \in OpToRel(<, Nat))
        BY <1>2, <2>1, NatLessThanWellFounded, WFMin
  <2>3. \A j \in T : ~(j < k)
        BY <1>2, <2>2 DEF OpToRel
  <2>4. k \in 0 .. L /\ ~\E g : g = Step(g, k)
        OBVIOUS
  <2>5. k \in Nat /\ k <= L
        BY <1>1, <2>4
  <2> HIDE DEF T
  <2>6. PICK b \in 1 .. L + 1 : b = L + 1 - k
        BY <2>5, <1>4
  <2>7. \E g : \A start \in b + 1 .. L + 1 : g[start] = Draining(buffer, garbage, g, start)
    <3>1. CASE k = 0
      <4>1. b + 1 .. L + 1 = {}
            BY <2>6, <3>1
      <4>2. QED
            BY <4>1
    <3>2. CASE k # 0
      <4>1. k - 1 \in 0 .. L /\ k - 1 < k
            BY <2>4, <3>2
      <4>2. k - 1 \notin T
            BY <2>3, <4>1
      <4>3. \E g : g = Step(g, k - 1)
            BY <4>1, <4>2 DEF T
      <4>4. PICK g : g = Step(g, k - 1)
            BY <4>3
      <4>5. b + 1 = L + 1 - (k - 1)
            BY <2>4, <2>6
      <4>6. \A start \in b + 1 .. L + 1 : g[start] = Draining(buffer, garbage, g, start)
            BY <4>4, <4>5
      <4>7. QED
            BY <4>6
    <3>3. QED
          BY <3>1, <3>2
  <2>8. PICK g : \A start \in b + 1 .. L + 1 :
                     g[start] = Draining(buffer, garbage, g, start)
        BY <2>7
  <2> DEFINE h == [start \in b .. L + 1 |->
                      IF start = b THEN Draining(buffer, garbage, g, b) ELSE g[start]]
  <2>9. \A i \in b + 1 .. L + 1 : h[i] = g[i]
        BY <2>6
  <2>10. h[b] = Draining(buffer, garbage, g, b)
        BY <2>6
  <2>11. h = [start \in b .. L + 1 |-> h[start]]
        OBVIOUS
  <2> HIDE DEF h
  <2>12. ASSUME NEW start \in b .. L + 1
         PROVE  h[start] = Draining(buffer, garbage, h, start)
    <3>1. start \in 1 .. L + 1 /\ \A i \in start + 1 .. L + 1 : i \in b + 1 .. L + 1
          BY <2>6
    <3>2. Draining(buffer, garbage, g, start) = Draining(buffer, garbage, h, start)
      <4>1. \A i \in start + 1 .. L + 1 : g[i] = h[i]
            BY <2>9, <3>1
      <4>2. QED
            BY <1>3, <3>1, <4>1
    <3>3. h[start] = Draining(buffer, garbage, g, start)
      <4>1. CASE start = b
            BY <2>10, <4>1
      <4>2. CASE start # b
        <5>1. start \in b + 1 .. L + 1
              BY <2>6, <4>2
        <5>2. QED
              BY <2>8, <2>9, <5>1
      <4>3. QED
            BY <4>1, <4>2
    <3>4. QED
          BY <3>2, <3>3
  <2>13. h = [start \in b .. L + 1 |-> Draining(buffer, garbage, h, start)]
        BY <2>11, <2>12
  <2>14. h = Step(h, k)
        BY <2>6, <2>13
  <2>15. QED
        BY <2>4, <2>14
<1>6. \E g : g = Step(g, L)
  <2>1. L \in 0 .. L
        BY <1>1
  <2> HIDE DEF Step
  <2>2. \A k \in 0 .. L : \E g : g = Step(g, k)
        BY <1>5
  <2>3. QED
        BY <2>1, <2>2
<1>7. L + 1 - L = 1
      BY <1>1
<1>8. Drained(buffer, garbage) = (CHOOSE g : g = Step(g, L))[1]
      BY <1>1, <1>7 DEF Drained, Draining, Rest, Ends, Incomplete
<1>9. PICK drain : drain = CHOOSE g : g = Step(g, L)
      OBVIOUS
<1>10. drain = Step(drain, L)
      BY <1>6, <1>9
<1>11. \A start \in 1 .. L + 1 : drain[start] = Draining(buffer, garbage, drain, start)
      BY <1>7, <1>10
<1>12. Drained(buffer, garbage) = drain[1]
       BY <1>8, <1>9
<1> HIDE DEF Step
<1>13. QED
       BY <1>1, <1>11, <1>12

LEMMA EcmRead ==
    ASSUME NEW packet, NEW service, HoldsEcm(packet, service),
           NEW buffer, NEW garbage \in Garbage
    PROVE  /\ ReadSections(buffer, packet, garbage).sections = <<packet.cells>>
           /\ packet.cells[1] = [of |-> EcmIn(packet), at |-> 1]
           /\ 1 \in DOMAIN packet.cells
<1> DEFINE ecm == EcmIn(packet)
           cells == packet.cells
           L == ecm.length
<1>1. /\ packet.start /\ packet.offset = 0 /\ ecm # Stuffing
      /\ L \in Nat /\ L >= 2 /\ cells = [i \in 1 .. L |-> [of |-> ecm, at |-> i]]
      BY DEF HoldsEcm, IsWhole, Cells, HeaderLength, EcmIn
<1>2. garbage.length \in Nat /\ garbage.length >= 2
      BY M2tsAssumption DEF HeaderLength
<1> HIDE DEF ecm, cells, L
<1>3. /\ cells \in Seq({cells[i] : i \in 1 .. L}) /\ Len(cells) = L
      /\ \A i \in 1 .. L : cells[i] = [of |-> ecm, at |-> i]
  <2>1. \A i \in 1 .. L : cells[i] = [of |-> ecm, at |-> i]
        BY <1>1
  <2>2. \A i \in 1 .. L : cells[i] \in {cells[j] : j \in 1 .. L}
        OBVIOUS
  <2>3. cells = [i \in 1 .. L |-> cells[i]] /\ DOMAIN cells = 1 .. L
        BY <1>1
  <2>4. Len(cells) = L
        BY <1>1, <2>3
  <2>5. QED
        BY <1>1, <2>1, <2>2, <2>3, <2>4
<1>4. \A start \in 1 .. L + 1 :
         /\ Len(Rest(cells, start)) = L - start + 1
         /\ \A i \in 1 .. L - start + 1 :
               Rest(cells, start)[i] = [of |-> ecm, at |-> start + i - 1]
      BY <1>1, <1>3 DEF Rest
<1>5. Progresses(cells, garbage)
  <2>1. SUFFICES ASSUME NEW start \in 1 .. L + 1, ~Incomplete(cells, start, garbage)
                 PROVE  /\ Ends(cells, start, garbage) \in Nat \ {0}
                        /\ start + Ends(cells, start, garbage) <= L + 1
        BY <1>3 DEF Progresses
  <2>2. Len(Rest(cells, start)) = L - start + 1 /\ L - start + 1 >= 2
        BY <1>4, <2>1 DEF Incomplete, HeaderLength
  <2>3. Rest(cells, start)[2] = [of |-> ecm, at |-> start + 1]
    <3>1. 2 \in 1 .. L - start + 1 /\ start + 2 - 1 = start + 1
          BY <1>1, <2>2
    <3>2. QED
          BY <1>4, <3>1
  <2>4. Ends(cells, start, garbage) \in Nat \ {0}
        BY <1>1, <1>2, <2>3 DEF Ends, SectionEnd, L
  <2>5. ~(L - start + 1 < Ends(cells, start, garbage))
        BY <2>1, <2>2 DEF Incomplete
  <2>6. QED
        BY <1>1, <2>4, <2>5
<1>6. PICK drain : /\ Drained(cells, garbage) = drain[1]
                   /\ \A start \in 1 .. L + 1 :
                         drain[start] = Draining(cells, garbage, drain, start)
  <2>1. Len(cells) \in Nat
        BY <1>1, <1>3
  <2>2. \E drain : /\ Drained(cells, garbage) = drain[1]
                    /\ \A start \in 1 .. Len(cells) + 1 :
                          drain[start] = Draining(cells, garbage, drain, start)
        BY <1>5, <2>1, DrainingDefined
  <2>3. QED
        BY <1>3, <2>2
<1>7. Rest(cells, 1) = cells /\ Rest(cells, L + 1) = << >>
      BY <1>1, <1>3 DEF Rest
<1>8. Ends(cells, 1, garbage) = L /\ ~Incomplete(cells, 1, garbage)
  <2>1. cells[2] = [of |-> ecm, at |-> 2]
        BY <1>1, <1>3
  <2>2. Ends(cells, 1, garbage) = L
        BY <1>7, <2>1 DEF Ends, SectionEnd, L
  <2>3. QED
        BY <1>1, <1>3, <1>7, <2>2 DEF Incomplete, HeaderLength
<1>9. ~SkipsRest(cells, garbage) /\ cells[1] = [of |-> ecm, at |-> 1]
  <2>1. cells[1] = [of |-> ecm, at |-> 1]
        BY <1>1, <1>3
  <2>2. QED
        BY <1>1, <2>1 DEF SkipsRest, IsStuffing
<1>10. drain[L + 1].sections = << >>
  <2>1. Incomplete(cells, L + 1, garbage)
        BY <1>7 DEF Incomplete, HeaderLength
  <2>2. L + 1 \in 1 .. L + 1
        BY <1>1
  <2>3. Draining(cells, garbage, drain, L + 1) = [sections |-> << >>, buffer |-> << >>]
        BY <1>7, <2>1 DEF Draining
  <2>4. QED
        BY <1>6, <2>2, <2>3
<1>11. SubSeq(cells, 1, L) = cells
       BY <1>1, <1>3
<1>12. Drained(cells, garbage).sections = <<cells>>
  <2>1. 1 \in 1 .. L + 1 /\ 1 + L = L + 1
        BY <1>1
  <2>2. drain[1] = [sections |-> <<SubSeq(cells, 1, L)>> \o drain[L + 1].sections,
                    buffer |-> drain[L + 1].buffer]
        BY <1>6, <1>7, <1>8, <1>9, <2>1 DEF Draining
  <2>3. drain[1].sections = <<SubSeq(cells, 1, L)>> \o drain[L + 1].sections
        BY <2>2
  <2>4. drain[1].sections = <<cells>> \o << >>
        BY <1>10, <1>11, <2>3, Zenon
  <2>5. QED
        BY <1>6, <2>4
<1>13. ReadSections(buffer, packet, garbage)
           = Restarted(buffer, cells, 0, garbage)
  <2>1. ~(0 > Len(cells))
        BY <1>1, <1>3
  <2>2. QED
        BY <1>1, <2>1 DEF ReadSections, cells
<1>14. Restarted(buffer, cells, 0, garbage).sections = << >> \o <<cells>>
  <2>1. SubSeq(cells, 0 + 1, Len(cells)) = cells
        BY <1>1, <1>3
  <2>2. QED
        BY <1>12, <2>1 DEF Restarted
<1>15. 1 \in DOMAIN cells
       BY <1>1
<1>16. QED
       BY <1>9, <1>13, <1>14, <1>15 DEF cells, ecm

-----------------------------------------------------------------------------
(* What the rest of the PES packets gives.                                  *)

\* Sequences are put together one after another.
LEMMA FlattenDefined ==
    ASSUME NEW s, NEW L \in Nat, Len(s) = L, L # 0
    PROVE  \E f : /\ FlattenSeq(s) = f[L]
                  /\ \A i \in 1 .. L : f[i] = IF i = 1 THEN s[i] ELSE f[i - 1] \o s[i]
<1> DEFINE Is(g, i) == g[i] = IF i = 1 THEN s[i] ELSE g[i - 1] \o s[i]
           Good(k) == \E g : g = [i \in 1 .. k |-> g[i]] /\ \A i \in 1 .. k : Is(g, i)
           T == {k \in 1 .. L : ~Good(k)}
<1>1. \A k \in 1 .. L : k \in Nat
      OBVIOUS
<1>2. T = {}
  <2>1. SUFFICES ASSUME T # {} PROVE FALSE
        OBVIOUS
  <2>2. T \subseteq Nat
        BY <1>1, Zenon
  <2>3. PICK k \in T : \A j \in T : ~(<<j, k>> \in OpToRel(<, Nat))
        BY <2>1, <2>2, NatLessThanWellFounded, WFMin
  <2>4. k \in 1 .. L /\ ~Good(k)
        OBVIOUS
  <2> HIDE DEF T
  <2>5. \A j \in T : ~(j < k)
        BY <2>2, <2>3 DEF OpToRel
  <2>6. CASE k = 1
    <3> DEFINE g == [i \in 1 .. k |-> s[i]]
    <3>1. \A i \in 1 .. k : Is(g, i)
          BY <2>6
    <3>2. g = [i \in 1 .. k |-> g[i]]
          OBVIOUS
    <3> HIDE DEF g, Is
    <3>3. QED
          BY <2>4, <3>1, <3>2
  <2>7. CASE k # 1
    <3>1. k - 1 \in 1 .. L /\ k - 1 < k /\ k \in Nat
          BY <2>4, <2>7
    <3>2. k - 1 \notin T
          BY <2>5, <3>1
    <3>3. Good(k - 1)
          BY <3>1, <3>2 DEF T
    <3>4. PICK g : \A i \in 1 .. k - 1 : Is(g, i)
          BY <3>3
    <3> DEFINE h == [i \in 1 .. k |-> IF i = k THEN g[k - 1] \o s[k] ELSE g[i]]
    <3>5. \A i \in 1 .. k - 1 : i \in 1 .. k /\ i # k
          BY <3>1
    <3>6. \A i \in 1 .. k - 1 : h[i] = g[i]
          BY <3>5, Zenon
    <3>7. k \in 1 .. k
          BY <3>1
    <3>8. h[k] = g[k - 1] \o s[k]
          BY <3>7, Zenon
    <3>9. h = [i \in 1 .. k |-> h[i]]
          BY Zenon
    <3> HIDE DEF h
    <3>10. ASSUME NEW i \in 1 .. k
           PROVE  Is(h, i)
      <4>1. CASE i = k
        <5>1. k - 1 \in 1 .. k - 1
              BY <2>7, <3>1
        <5>2. h[k - 1] = g[k - 1]
              BY <3>6, <5>1
        <5>3. QED
              BY <2>7, <3>8, <4>1, <5>2
      <4>2. CASE i # k
        <5>1. i \in 1 .. k - 1 /\ (i # 1 => i - 1 \in 1 .. k - 1)
              BY <3>1, <4>2
        <5>2. g[i] = IF i = 1 THEN s[i] ELSE g[i - 1] \o s[i]
              BY <3>4, <5>1
        <5>3. h[i] = g[i] /\ (i # 1 => h[i - 1] = g[i - 1])
              BY <3>6, <5>1
        <5>4. QED
              BY <5>2, <5>3
      <4>3. QED
            BY <4>1, <4>2
    <3> HIDE DEF Is
    <3>11. Good(k)
          BY <3>9, <3>10
    <3>12. QED
          BY <2>4, <3>11
  <2>8. QED
        BY <2>6, <2>7
<1> DEFINE Step(g) == [i \in 1 .. L |-> IF i = 1 THEN s[i] ELSE g[i - 1] \o s[i]]
<1>3. PICK f : f = CHOOSE g : g = Step(g)
      OBVIOUS
<1>4. FlattenSeq(s) = f[L]
      BY <1>3 DEF FlattenSeq
<1>5. f = Step(f)
  <2>1. L \in 1 .. L
        OBVIOUS
  <2>2. Good(L)
    <3> HIDE DEF Good
    <3>1. QED
          BY <1>2, <2>1
  <2>3. PICK g : g = [i \in 1 .. L |-> g[i]] /\ \A i \in 1 .. L : Is(g, i)
        BY <2>2
  <2>4. g = Step(g)
        BY <2>3
  <2> HIDE DEF Step
  <2>5. QED
        BY <1>3, <2>4
<1>6. ASSUME NEW i \in 1 .. L
      PROVE  f[i] = IF i = 1 THEN s[i] ELSE f[i - 1] \o s[i]
  <2>1. Step(f)[i] = IF i = 1 THEN s[i] ELSE f[i - 1] \o s[i]
        OBVIOUS
  <2> HIDE DEF Step
  <2>2. f[i] = Step(f)[i]
        BY <1>5, Zenon
  <2>3. QED
        BY <2>1, <2>2, Zenon
<1> HIDE DEF Step, Good, Is, T
<1>7. QED
      BY <1>4, <1>6, Zenon

\* Sequences of members of a set are one when they are put together.
LEMMA Flattened ==
    ASSUME NEW S, NEW s, NEW L \in Nat, Len(s) = L, \A i \in 1 .. L : s[i] \in Seq(S),
           L # 0
    PROVE  FlattenSeq(s) \in Seq(S)
<1>1. \A k \in 1 .. L : k \in Nat
      OBVIOUS
<1>4. PICK f : /\ FlattenSeq(s) = f[L]
               /\ \A i \in 1 .. L : f[i] = IF i = 1 THEN s[i] ELSE f[i - 1] \o s[i]
      BY FlattenDefined
<1> DEFINE U == {i \in 1 .. L : f[i] \notin Seq(S)}
<1>6. U = {}
  <2>1. SUFFICES ASSUME U # {} PROVE FALSE
        OBVIOUS
  <2>2. U \subseteq Nat
        BY <1>1, Zenon
  <2>3. PICK i \in U : \A j \in U : ~(<<j, i>> \in OpToRel(<, Nat))
        BY <2>1, <2>2, NatLessThanWellFounded, WFMin
  <2>4. \A j \in U : ~(j < i)
        BY <2>3, <2>2 DEF OpToRel
  <2>5. i \in 1 .. L /\ f[i] \notin Seq(S)
        OBVIOUS
  <2>6. f[i] = IF i = 1 THEN s[i] ELSE f[i - 1] \o s[i]
        BY <1>4, <2>5
  <2>7. i # 1 => i - 1 \in 1 .. L /\ i - 1 < i
        BY <2>5
  <2>8. i # 1 => f[i - 1] \in Seq(S)
        BY <2>4, <2>7
  <2>9. s[i] \in Seq(S)
        BY <2>5
  <2>10. QED
        BY <2>5, <2>6, <2>8, <2>9
<1>7. \A i \in 1 .. L : f[i] \in Seq(S)
      BY <1>6
<1> HIDE DEF U
<1>8. L \in 1 .. L
      OBVIOUS
<1>9. QED
      BY <1>4, <1>7, <1>8, Zenon

\* What is left in the tracks is all that comes out at the end.
LEMMA FlushGives ==
    ASSUME Flush
    PROVE  \A i \in DOMAIN out'.samples : \E pid \in Tracks : out'.samples[i] = Sample(pid)
<1> DEFINE S == {Sample(pid) : pid \in Tracks}
           pids == Ascending(Tracks)
           s == [i \in DOMAIN pids |-> Finished(pids[i])]
<1>1. Tracks \subseteq Nat /\ IsFiniteSet(Tracks)
      BY M2tsAssumption, FS_Subset DEF Tracks
<1>2. PICK L \in Nat : L = Cardinality(Tracks)
      BY <1>1, FS_CardinalityType
<1>3. DOMAIN pids = 1 .. L
      BY <1>2 DEF Ascending
<1>4. \A i \in 1 .. L : pids[i] \in Tracks
      BY <1>1, <1>2, AscendingIn
<1> HIDE DEF pids
<1>5. ASSUME NEW i \in 1 .. L
      PROVE  s[i] \in Seq(S)
  <2>1. s[i] = Finished(pids[i]) /\ Sample(pids[i]) \in S
        BY <1>3, <1>4
  <2> HIDE DEF S, s
  <2>2. QED
        BY <2>1 DEF Finished
<1>6. Len(s) = L
      BY <1>2, <1>3
<1>7. out'.samples = FlattenSeq(s)
  <2>1. out' = [Nothing EXCEPT !.samples = FlattenSeq(s)]
        BY DEF Flush, pids
  <2> HIDE DEF s
  <2>2. QED
        BY <2>1 DEF Nothing
<1>8. CASE L = 0
  <2>1. FlattenSeq(s) = s
        BY <1>6, <1>8 DEF FlattenSeq
  <2>2. DOMAIN s = {}
        BY <1>3, <1>8
  <2>3. QED
        BY <1>7, <2>1, <2>2
<1>9. CASE L # 0
  <2>1. FlattenSeq(s) \in Seq(S)
    <3> HIDE DEF S, s
    <3>1. QED
          BY <1>5, <1>6, <1>9, Flattened
  <2>2. \A i \in DOMAIN FlattenSeq(s) : FlattenSeq(s)[i] \in S
    <3> HIDE DEF S, s
    <3>1. QED
          BY <2>1
  <2>3. QED
        BY <1>7, <2>2
<1>10. QED
       BY <1>8, <1>9

-----------------------------------------------------------------------------
(* AirInv.                                                                  *)

\* What a packet of a PES packet carries is a part of what the sample consists of.
LEMMA CellsCut ==
    ASSUME NEW pid, NEW pes, NEW data \in Seq(ClearCells), NEW dts, NEW pts
    PROVE  LET packets == Packets(pid, pes, data, dts, pts)
           IN  \A i \in 1 .. Len(packets) :
                  /\ packets[i].cells \in Seq(ClearCells)
                  /\ packets[i].kind = "pes" /\ packets[i].service = None
                  /\ packets[i].dts = dts /\ packets[i].pts = pts
<1> DEFINE more == IF Len(data) <= FirstPayload THEN 0
                   ELSE (Len(data) - FirstPayload + NextPayload - 1) \div NextPayload
           Start(i) == IF i = 0 THEN 1 ELSE FirstPayload + (i - 1) * NextPayload + 1
           End(i) == IF i = more THEN Len(data) ELSE Start(i + 1) - 1
           packets == Packets(pid, pes, data, dts, pts)
<1>1. packets = [i \in 1 .. more + 1 |-> packets[i]]
      BY DEF Packets
<1>2. \A i \in 1 .. more + 1 :
         /\ packets[i].cells = SubSeq(data, Start(i - 1), End(i - 1))
         /\ packets[i].kind = "pes" /\ packets[i].service = None
         /\ packets[i].dts = dts /\ packets[i].pts = pts
      BY DEF Packets
<1>3. PICK L, F, N \in Nat : L = Len(data) /\ F = FirstPayload /\ N = NextPayload /\ N > 0
      BY MuxerAssumption
<1>4. PICK m \in Nat : /\ m = more
                       /\ \A j \in 1 .. m : F + (j - 1) * N <= L
  <2>1. CASE L <= F
    <3>1. more = 0
          BY <1>3, <2>1
    <3>2. 0 \in Nat /\ \A j \in 1 .. 0 : F + (j - 1) * N <= L
          OBVIOUS
    <3> HIDE DEF more
    <3>3. QED
          BY <3>1, <3>2
  <2>2. CASE ~(L <= F)
    <3>1. L - F + N - 1 \in Nat
          BY <1>3, <2>2
    <3>2. PICK a \in Nat : a = L - F + N - 1
          BY <3>1
    <3>3. more = a \div N
          BY <1>3, <2>2, <3>2
    <3> HIDE DEF more
    <3>4. a \div N \in Nat /\ a % N \in 0 .. N - 1
          BY <1>3
    <3>5. a % N = a - (a \div N) * N
          BY <1>3, Division
    <3>6. PICK q \in Nat, r \in Nat : q = a \div N /\ r = a % N
          BY <3>4
    <3>7. r = a - q * N
          BY <3>5, <3>6
    <3>8. q * N <= L - F + N - 1
          BY <1>3, <3>2, <3>7
    <3>9. ASSUME NEW j \in 1 .. q
          PROVE  F + (j - 1) * N <= L
      <4>1. PICK i, k \in Nat : i = j - 1 /\ k = q - 1 /\ i <= k
        <5>1. j - 1 \in Nat /\ q - 1 \in Nat /\ j - 1 <= q - 1
              OBVIOUS
        <5>2. QED
              BY <5>1
      <4>2. i * N <= k * N
            BY <1>3, <4>1
      <4>3. q * N = k * N + N
            BY <1>3, <4>1
      <4>4. QED
            BY <1>3, <3>8, <4>1, <4>2, <4>3
    <3>10. q = more
          BY <3>3, <3>6
    <3>11. QED
           BY <3>9, <3>10
  <2>3. QED
        BY <1>3, <2>1, <2>2
<1>5. ASSUME NEW i \in 1 .. m + 1
      PROVE  SubSeq(data, Start(i - 1), End(i - 1)) \in Seq(ClearCells)
  <2>1. PICK s \in 1 .. L + 1, e \in 0 .. L :
            Start(i - 1) = s /\ End(i - 1) = e /\ e >= s - 1
    <3> DEFINE j == i - 1
    <3>1. j \in 0 .. m
          OBVIOUS
    <3> HIDE DEF j, more
    <3>2. Start(j) \in 1 .. L + 1
      <4>1. CASE j = 0
            BY <1>3, <4>1
      <4>2. CASE j # 0
        <5>1. j \in 1 .. m /\ F + (j - 1) * N <= L
              BY <1>4, <3>1, <4>2
        <5>2. (j - 1) * N \in Nat
          <6>1. j - 1 \in Nat
                BY <5>1
          <6>2. QED
                BY <6>1
        <5>3. F + (j - 1) * N + 1 \in 1 .. L + 1
              BY <5>1, <5>2
        <5>4. QED
              BY <1>3, <4>2, <5>3
      <4>3. QED
            BY <4>1, <4>2
    <3>3. End(j) \in 0 .. L /\ End(j) >= Start(j) - 1
      <4>1. CASE j = m
            BY <1>3, <1>4, <3>2, <4>1
      <4>2. CASE j # m
        <5>1. j + 1 \in 1 .. m /\ j + 1 # 0 /\ j + 1 - 1 = j /\ j \in Nat
              BY <3>1, <4>2
        <5>2. End(j) = F + j * N /\ F + j * N <= L
          <6>1. Start(j + 1) = F + j * N + 1
                BY <1>3, <5>1
          <6>2. End(j) = Start(j + 1) - 1
                BY <1>4, <4>2
          <6>3. F + j * N <= L
            <7>1. \A k \in 1 .. m : F + (k - 1) * N <= L
                  BY <1>4
            <7>2. F + ((j + 1) - 1) * N <= L
                  BY <5>1, <7>1
            <7>3. QED
                  BY <5>1, <7>2
          <6>4. j * N \in Nat
                BY <5>1
          <6> HIDE DEF Start, End
          <6>5. PICK x \in Nat : x = j * N
                BY <6>4
          <6>6. Start(j + 1) = F + x + 1
                BY <6>1, <6>5
          <6>7. End(j) = F + x
                BY <6>2, <6>6
          <6>8. QED
                BY <6>3, <6>5, <6>7
        <5>3. j * N \in Nat
              BY <5>1
        <5>4. Start(j) - 1 <= F + j * N
          <6>1. CASE j = 0
                BY <5>3, <6>1
          <6>2. CASE j # 0
            <7>1. PICK k \in Nat : k = j - 1 /\ j = k + 1
                  BY <5>1, <6>2
            <7>2. j * N = k * N + N /\ k * N \in Nat
                  BY <7>1
            <7>3. Start(j) = F + k * N + 1
                  BY <1>3, <6>2, <7>1
            <7> HIDE DEF Start
            <7>4. QED
                  BY <7>2, <7>3
          <6>3. QED
                BY <6>1, <6>2
        <5> HIDE DEF Start, End
        <5>5. QED
              BY <3>2, <5>2, <5>3, <5>4
      <4>3. QED
            BY <4>1, <4>2
    <3>4. QED
          BY <3>2, <3>3 DEF j
  <2> HIDE DEF Start, End
  <2>2. SubSeq(data, s, e) \in Seq(ClearCells)
        BY <1>3, <2>1
  <2>3. QED
        BY <2>1, <2>2
<1> HIDE DEF packets, more, Start, End
<1>6. Len(packets) = m + 1
  <2>1. DOMAIN packets = 1 .. m + 1 /\ m + 1 \in Nat
        BY <1>1, <1>4
  <2>2. QED
        BY <2>1
<1>7. \A i \in 1 .. Len(packets) :
         /\ packets[i].cells \in Seq(ClearCells)
         /\ packets[i].kind = "pes" /\ packets[i].service = None
         /\ packets[i].dts = dts /\ packets[i].pts = pts
      BY <1>2, <1>4, <1>5, <1>6
<1>8. QED
      BY <1>7 DEF packets

LEMMA CallIsUnkeyed ==
    ASSUME MuxerInv, Mux
    PROVE  /\ IsSequence(written')
           /\ \A i \in DOMAIN written' : Unkeyed(written'[i]) /\ Fits(written'[i])
<1> DEFINE call == broadcast.samples[fed + 1]
           packets == Packets(trackMap[call.track], fed + 1, call.cells,
                              Wrapped(call.dts), Wrapped(call.pts))
           Good(packet) == Unkeyed(packet) /\ Fits(packet)
<1>1. /\ call.cells \in Seq(ClearCells)
      /\ Wrapped(call.dts) \in Nat \cup {None} /\ Wrapped(call.pts) \in Nat \cup {None}
  <2>1. /\ call.cells \in Seq(ClearCells)
        /\ call.dts \in Nat \cup {None} /\ call.pts \in Nat \cup {None}
        BY CallWrites DEF Calls
  <2>2. \A time \in Nat \cup {None} : Wrapped(time) \in Nat \cup {None}
        BY MuxerAssumption DEF Wrapped
  <2> HIDE DEF call
  <2>3. QED
        BY <2>1, <2>2
<1>2. \/ written' = << >>
      \/ written' = (IF TablesDue(call.dts) THEN Tables ELSE << >>) \o packets
  <2>1. \/ AddTrack(call.track, call.type)
        \/ WriteSample(fed + 1, call.track, call.cells, call.dts, call.pts)
        BY DEF Mux
  <2> HIDE DEF call
  <2>2. CASE AddTrack(call.track, call.type)
        BY <2>2 DEF AddTrack
  <2>3. CASE WriteSample(fed + 1, call.track, call.cells, call.dts, call.pts)
        BY <2>3 DEF WriteSample
  <2>4. QED
        BY <2>1, <2>2, <2>3
<1>3. IsSequence(packets) /\ Len(packets) \in Nat
      BY <1>1, PacketsAre
<1>4. \A i \in 1 .. Len(packets) :
         /\ packets[i].cells \in Seq(ClearCells)
         /\ packets[i].kind = "pes" /\ packets[i].service = None
         /\ packets[i].dts \in Nat \cup {None} /\ packets[i].pts \in Nat \cup {None}
  <2>1. PICK dts, pts : dts = Wrapped(call.dts) /\ pts = Wrapped(call.pts)
        OBVIOUS
  <2>2. packets = Packets(trackMap[call.track], fed + 1, call.cells, dts, pts)
        BY <2>1
  <2> HIDE DEF packets, call
  <2>3. QED
        BY <1>1, <2>1, <2>2, CellsCut
<1> HIDE DEF packets, call
<1>5. \A i \in 1 .. Len(packets) : Good(packets[i])
      BY <1>4 DEF Unkeyed, Fits
<1>6. IsSequence(Tables) /\ Len(Tables) = 2 /\ Good(Tables[1]) /\ Good(Tables[2])
  <2>1. /\ IsSequence(Tables) /\ Len(Tables) = 2
        /\ Tables[1].kind = "pat" /\ Tables[2].kind = "pmt"
        BY TablesAre
  <2>2. EcmPidsIn(Tables[2]) = {}
    <3>1. Tables[2].ca = << >> /\ Tables[2].streams = StreamInfo
          BY DEF Tables
    <3>2. \A i \in DOMAIN StreamInfo : StreamInfo[i].ca = << >>
          BY DEF StreamInfo
    <3>3. EcmPidsOf(<< >>) = {}
      <4>1. DOMAIN << >> = {}
            OBVIOUS
      <4>2. QED
            BY <4>1 DEF EcmPidsOf
    <3>4. PICK packet : packet = Tables[2]
          OBVIOUS
    <3>5. packet.ca = << >> /\ \A i \in DOMAIN packet.streams : packet.streams[i].ca = << >>
          BY <3>1, <3>2, <3>4
    <3>6. EcmPidsIn(packet) = {}
          BY <3>3, <3>5 DEF EcmPidsIn, KnownStreams
    <3>7. QED
          BY <3>4, <3>6
  <2>3. \E L \in Nat : DOMAIN Tables[2].streams = 1 .. L
    <3>1. Tables[2].streams = StreamInfo
          BY DEF Tables
    <3>2. QED
          BY <3>1, StreamsAreListed
  <2>4. QED
        BY <2>1, <2>2, <2>3 DEF Unkeyed, Fits
<1> HIDE DEF Good
<1>7. CASE written' = << >>
  <2>1. DOMAIN << >> = {}
        OBVIOUS
  <2>2. IsSequence(<< >>)
        BY DEF IsSequence
  <2>3. QED
        BY <1>7, <2>1, <2>2
<1>8. CASE written' = (IF TablesDue(call.dts) THEN Tables ELSE << >>) \o packets
  <2>1. CASE TablesDue(call.dts)
    <3>1. PICK t, p, w : t = Tables /\ p = packets /\ w = t \o p
          OBVIOUS
    <3>2. IsSequence(t) /\ IsSequence(p)
          BY <1>3, <1>6, <3>1
    <3>3. /\ Len(t) = 2 /\ Good(t[1]) /\ Good(t[2])
          /\ Len(p) \in Nat /\ \A i \in 1 .. Len(p) : Good(p[i])
          BY <1>3, <1>5, <1>6, <3>1
    <3>4. /\ IsSequence(w) /\ DOMAIN w = 1 .. Len(t) + Len(p)
          /\ \A i \in 1 .. Len(t) : w[i] = t[i]
          /\ \A i \in Len(t) + 1 .. Len(t) + Len(p) : w[i] = p[i - Len(t)]
          BY <3>1, <3>2, Joined
    <3>5. \A i \in DOMAIN w : Good(w[i])
      <4>1. SUFFICES ASSUME NEW i \in DOMAIN w PROVE Good(w[i])
            OBVIOUS
      <4>2. CASE i \in 1 .. Len(t)
        <5>1. i = 1 \/ i = 2
              BY <3>3, <4>2
        <5>2. QED
              BY <3>3, <3>4, <4>2, <5>1
      <4>3. CASE i \notin 1 .. Len(t)
        <5>1. i \in Len(t) + 1 .. Len(t) + Len(p) /\ i - Len(t) \in 1 .. Len(p)
              BY <3>3, <3>4, <4>3
        <5>2. QED
              BY <3>3, <3>4, <5>1
      <4>4. QED
            BY <4>2, <4>3
    <3>6. written' = w
          BY <1>8, <2>1, <3>1
    <3>7. QED
          BY <3>4, <3>5, <3>6 DEF Good
  <2>2. CASE ~TablesDue(call.dts)
    <3>1. written' = packets
          BY <1>3, <1>8, <2>2, NothingBefore
    <3>2. DOMAIN packets = 1 .. Len(packets)
          BY <1>3 DEF IsSequence
    <3>3. QED
          BY <1>3, <1>5, <3>1, <3>2 DEF Good
  <2>3. QED
        BY <2>1, <2>2
<1>9. QED
      BY <1>2, <1>7, <1>8

LEMMA AirStart == Init => AirInv
<1> SUFFICES ASSUME Init PROVE AirInv
      OBVIOUS
<1>1. /\ broadcast \in Broadcasts /\ air = broadcast.packets /\ next = 1
      /\ target \in broadcast.targets
      BY DEF Init, DemuxerInit
<1>2. /\ broadcast.packets = << >> \/ broadcast.samples = << >>
      /\ \A n \in DOMAIN broadcast.packets :
            /\ n \in Nat
            /\ broadcast.packets[n].kind = "pes" =>
                  /\ broadcast.packets[n].cells \in Seq(ClearCells)
                  /\ broadcast.packets[n].dts \in Nat \cup {None}
                  /\ broadcast.packets[n].pts \in Nat \cup {None}
            /\ broadcast.packets[n].kind = "pmt" =>
                  broadcast.packets[n].streams \in Seq(ListedStreams)
      BY <1>1, BroadcastAssumption
<1>3. broadcast.samples # << >> => DOMAIN air = {}
  <2>1. DOMAIN << >> = {}
        OBVIOUS
  <2>2. QED
        BY <1>1, <1>2, <2>1
<1>4. ASSUME NEW n \in DOMAIN air
      PROVE  n \in Nat /\ Fits(air[n])
  <2>1. air[n].kind = "pmt" => \E L \in Nat : DOMAIN air[n].streams = 1 .. L
        BY <1>1, <1>2
  <2>2. QED
        BY <1>1, <1>2, <2>1 DEF Fits
<1>5. QED
      BY <1>1, <1>3, <1>4 DEF AirInv

\* A step reads the next packet, calls the muxer, or ends.
LEMMA Steps ==
    ASSUME [Next]_vars
    PROVE  \/ Mux /\ next' = next /\ target' = target /\ broadcast' = broadcast
           \/ /\ next' \in {next, next + 1}
              /\ air' = air /\ target' = target /\ broadcast' = broadcast
<1>1. CASE Mux
      BY <1>1 DEF Mux, demuxerVars
<1>2. CASE ReceivePat
      BY <1>2 DEF ReceivePat, Advance, ReadPat, SkipPacket
<1>3. CASE ReceivePmt
      BY <1>3 DEF ReceivePmt, Advance, ReadPmt
<1>4. CASE ReceiveSection
      BY <1>4 DEF ReceiveSection, Advance, ReadSectionPacket
<1>5. CASE IgnoreSection
      BY <1>5 DEF IgnoreSection, IgnoreSectionPacket, Advance, SkipPacket
<1>6. CASE ReceivePes
      BY <1>6 DEF ReceivePes, Advance, ReadPesPacket
<1>7. CASE LosePacket
      BY <1>7 DEF LosePacket, Advance, SkipPacket
<1>8. CASE Finish
      BY <1>8 DEF Finish, Flush
<1>9. CASE UNCHANGED vars
      BY <1>9 DEF vars, demuxerVars, receiverVars
<1>10. QED
       BY <1>1, <1>2, <1>3, <1>4, <1>5, <1>6, <1>7, <1>8, <1>9 DEF Next

LEMMA AirHolds ==
    ASSUME MuxerInv, AirInv, [Next]_vars
    PROVE  AirInv'
<1>1. CASE Mux /\ next' = next /\ target' = target /\ broadcast' = broadcast
  <2>1. IsSequence(air) /\ broadcast.samples # << >> /\ air' = air \o written'
        BY <1>1, CallWrites DEF MuxerInv, Mux
  <2>2. PICK w : w = written'
        OBVIOUS
  <2>3. /\ IsSequence(w)
        /\ \A i \in DOMAIN w : Unkeyed(w[i]) /\ Fits(w[i])
        BY <1>1, <2>2, CallIsUnkeyed
  <2>4. /\ Len(air) \in Nat /\ Len(w) \in Nat
        /\ DOMAIN air = 1 .. Len(air) /\ DOMAIN air' = 1 .. Len(air) + Len(w)
        /\ \A i \in DOMAIN air : air'[i] = air[i]
        /\ \A i \in Len(air) + 1 .. Len(air) + Len(w) : air'[i] = w[i - Len(air)]
        BY <2>1, <2>2, <2>3, Appended
  <2>5. ASSUME NEW n \in DOMAIN air'
        PROVE  n \in Nat /\ Fits(air'[n]) /\ Unkeyed(air'[n])
    <3>1. CASE n \in DOMAIN air
          BY <2>1, <2>4, <3>1 DEF AirInv
    <3>2. CASE n \notin DOMAIN air
      <4>1. n \in Len(air) + 1 .. Len(air) + Len(w) /\ n - Len(air) \in 1 .. Len(w)
            BY <2>4, <3>2
      <4>2. n - Len(air) \in DOMAIN w /\ air'[n] = w[n - Len(air)] /\ n \in Nat
            BY <2>3, <2>4, <4>1 DEF IsSequence
      <4>3. PICK j \in DOMAIN w : air'[n] = w[j]
            BY <4>2
      <4>4. Unkeyed(w[j]) /\ Fits(w[j])
            BY <2>3
      <4>5. QED
            BY <4>2, <4>3, <4>4
    <3>3. QED
          BY <3>1, <3>2
  <2>6. QED
        BY <1>1, <2>1, <2>5 DEF AirInv, Unkeyed, Fits
<1>2. CASE /\ next' \in {next, next + 1}
           /\ air' = air /\ target' = target /\ broadcast' = broadcast
      BY <1>2 DEF AirInv, Unkeyed, Fits
<1>3. QED
      BY <1>1, <1>2, Steps

-----------------------------------------------------------------------------
(* The keys of an ECM.                                                      *)

\* The periods of two keys in a row are of both parities.
LEMMA ParityTurns ==
    ASSUME NEW v \in Nat
    PROVE  /\ Parity(v) # Parity(v + 1)
           /\ Parity(v) \in {"odd", "even"} /\ Parity(v + 1) \in {"odd", "even"}
<1>1. v % 2 \in {0, 1} /\ (v + 1) % 2 \in {0, 1} /\ v % 2 # (v + 1) % 2
      OBVIOUS
<1>2. QED
      BY <1>1 DEF Parity

\* An ECM has the key of its period and that of the next.
LEMMA KeysAre ==
    ASSUME NEW service, NEW v \in Nat, NEW period \in {v, v + 1}
    PROVE  KeysOf(service, v)[Parity(period)] = [service |-> service, period |-> period]
<1>1. CASE period = v
      BY <1>1, ParityTurns DEF KeysOf
<1>2. CASE period = v + 1
      BY <1>2, ParityTurns DEF KeysOf
<1>3. QED
      BY <1>1, <1>2

LEMMA KeysAreSome ==
    ASSUME NEW service \in Services, NEW v \in 0 .. LastPeriod
    PROVE  KeysOf(service, v) # None
<1>1. v \in Periods /\ v + 1 \in Periods
      BY B25Assumption DEF Periods
<1>2. /\ [service |-> service, period |-> v] \in Keys
      /\ [service |-> service, period |-> v + 1] \in Keys
      BY <1>1 DEF Keys
<1>3. KeysOf(service, v) \in [{"odd", "even"} -> Keys]
  <2>1. \A parity \in {"odd", "even"} :
           [service |-> service,
            period |-> IF Parity(v) = parity THEN v ELSE v + 1] \in Keys
        BY <1>2
  <2>2. QED
        BY <2>1 DEF KeysOf
<1>4. QED
      BY <1>3, B25Assumption

\* What comes next for a track is in the clear or descrambled, unless no ECM
\* was to be had.
LEMMA KeyClear ==
    ASSUME ClearInv, target # None, ~keysLost,
           next \in DOMAIN air, air[next].kind = "pes", air[next].pid \in Tracks
    PROVE  \/ Decryption(air[next]) = "clear"
           \/ Decryption(air[next]) = "none" /\ ~EcmCame
<1> DEFINE packet == air[next]
<1>1. CASE packet.service = None
      BY <1>1 DEF Decryption
<1>2. CASE packet.service # None
  <2>1. AirInv /\ TracksInv
        BY DEF ClearInv
  <2>2. broadcast.samples = << >>
        BY <1>2, <2>1 DEF AirInv, Unkeyed
  <2>3. /\ broadcast \in Broadcasts /\ target \in broadcast.targets \ {None}
        /\ air = broadcast.packets
        BY <2>1, <2>2 DEF AirInv
  <2>4. PICK pid \in Pids : KeyedBy(air, target, pid)
        BY <2>3, BroadcastAssumption
  <2>5. KeysInv(pid)
        BY <2>2, <2>4 DEF ClearInv
  <2>6. packet.pid \in ListedBy(air, target)
        BY <2>1 DEF TracksInv
  <2>7. /\ packet.service = target
        /\ \E m \in DOMAIN air :
              /\ LastOnPid(air, pid, m, next)
              /\ packet.period \in {EcmIn(air[m]).version, EcmIn(air[m]).version + 1}
        BY <1>2, <2>4, <2>6 DEF KeyedBy
  <2>8. PICK m \in DOMAIN air :
              /\ LastOnPid(air, pid, m, next)
              /\ packet.period \in {EcmIn(air[m]).version, EcmIn(air[m]).version + 1}
        BY <2>7
  <2>9. CASE workKeys = None
    <3>1. Decryption(packet) = "none"
          BY <1>2, <2>9 DEF Decryption, Decrypted
    <3>2. ~EcmCame
          BY <2>5, <2>9 DEF KeysInv
    <3>3. QED
          BY <3>1, <3>2
  <2>10. CASE workKeys # None
    <3>1. PICK l \in DOMAIN air :
              /\ LastOnPid(air, pid, l, next)
              /\ workKeys = KeysOf(target, EcmIn(air[l]).version)
          BY <2>5, <2>10 DEF KeysInv
    <3>2. l = m
      <4>1. l \in Nat /\ m \in Nat /\ l < next /\ m < next
            BY <2>1, <2>8, <3>1 DEF AirInv, LastOnPid
      <4>2. ~(l < m) /\ ~(m < l)
            BY <2>8, <3>1 DEF LastOnPid
      <4>3. QED
            BY <4>1, <4>2
    <3>3. PICK v \in Nat : v = EcmIn(air[m]).version
      <4>1. HoldsEcm(air[m], target)
            BY <2>4, <2>8 DEF KeyedBy, LastOnPid
      <4>2. QED
            BY <4>1, B25Assumption DEF HoldsEcm
    <3>4. PICK period \in {v, v + 1} : period = packet.period
          BY <2>8, <3>3
    <3>5. workKeys[Parity(period)] = [service |-> target, period |-> period]
          BY <3>1, <3>2, <3>3, KeysAre
    <3>6. Decryption(packet) = "clear"
          BY <1>2, <2>7, <2>10, <3>4, <3>5 DEF Decryption, Decrypted
    <3>7. QED
          BY <3>6
  <2>11. QED
         BY <2>9, <2>10
<1>3. QED
      BY <1>1, <1>2

-----------------------------------------------------------------------------
(* TracksInv.                                                               *)

\* Some numbers up to a bound have a smallest and a largest one.
LEMMA FirstAndLast ==
    ASSUME NEW L \in Nat, NEW S, S \subseteq 1 .. L, S # {}
    PROVE  Min(S) \in S /\ Max(S) \in S
<1>1. S \subseteq Nat /\ \A n \in S : n <= L
      OBVIOUS
<1>2. Min(S) \in S
  <2>1. PICK n \in S : \A m \in S : ~(<<m, n>> \in OpToRel(<, Nat))
        BY <1>1, NatLessThanWellFounded, WFMin
  <2>2. \A m \in S : n <= m
    <3>1. SUFFICES ASSUME NEW m \in S PROVE n <= m
          OBVIOUS
    <3>2. m \in Nat /\ n \in Nat /\ ~(m < n)
          BY <1>1, <2>1 DEF OpToRel
    <3>3. QED
          BY <3>2
  <2>3. QED
        BY <2>2 DEF Min
<1>3. Max(S) \in S
  <2> DEFINE T == {t \in Nat : \A n \in S : n <= t}
  <2>1. L \in T /\ T \subseteq Nat
        BY <1>1
  <2>2. PICK t \in T : \A u \in T : ~(<<u, t>> \in OpToRel(<, Nat))
        BY <2>1, NatLessThanWellFounded, WFMin
  <2>3. t \in Nat /\ \A n \in S : n <= t
        OBVIOUS
  <2>4. t \in S
    <3>1. SUFFICES ASSUME t \notin S PROVE FALSE
          OBVIOUS
    <3>2. \A n \in S : n \in Nat /\ n < t
          BY <1>1, <2>3, <3>1
    <3>3. t # 0
      <4>1. PICK n \in S : n \in Nat /\ n < t
            BY <3>2
      <4>2. QED
            BY <2>3, <4>1
    <3>4. PICK u \in Nat : u = t - 1
          BY <2>3, <3>3
    <3>5. u \in T
          BY <2>3, <3>2, <3>4
    <3>6. u < t
          BY <2>3, <3>4
    <3>7. QED
          BY <2>2, <2>3, <3>4, <3>5, <3>6 DEF OpToRel
  <2>5. QED
        BY <2>3, <2>4, <1>1, LargestIs
<1>4. QED
      BY <1>2, <1>3

\* The tracks a PMT adds are among its streams.
LEMMA SelectedAre ==
    ASSUME NEW streams, NEW L \in Nat, DOMAIN streams = 1 .. L,
           NEW i \in DOMAIN Selected(streams)
    PROVE  \E j \in DOMAIN streams :
              Selected(streams)[i] = streams[j] /\ tracks[streams[j].pid] = None
<1> DEFINE new(types) == {j \in DOMAIN streams :
                             streams[j].type \in types /\ tracks[streams[j].pid] = None}
<1>1. PICK video, audio : /\ video = new({"Mpeg2Video"})
                          /\ audio = new({"AacAdts", "AacLatm"})
      OBVIOUS
<1>2. video \subseteq 1 .. L /\ audio \subseteq 1 .. L
      BY <1>1
<1>3. Selected(streams) =
         IF video = {} THEN << >>
         ELSE <<streams[Max(video)]>>
              \o (IF audio = {} THEN << >> ELSE <<streams[Min(audio)]>>)
      BY <1>1 DEF Selected
<1>4. video # {}
  <2>1. DOMAIN << >> = {}
        OBVIOUS
  <2>2. QED
        BY <1>3, <2>1
<1>5. PICK l \in DOMAIN streams : l = Max(video) /\ tracks[streams[l].pid] = None
      BY <1>1, <1>2, <1>4, FirstAndLast
<1>6. CASE audio = {}
  <2>1. Selected(streams) = <<streams[l]>>
    <3>1. Selected(streams) = <<streams[l]>> \o << >>
          BY <1>3, <1>4, <1>5, <1>6, Zenon
    <3>2. QED
          BY <3>1
  <2>2. DOMAIN <<streams[l]>> = {1} /\ <<streams[l]>>[1] = streams[l]
        OBVIOUS
  <2>3. QED
        BY <1>5, <2>1, <2>2
<1>7. CASE audio # {}
  <2>1. PICK k \in DOMAIN streams : k = Min(audio) /\ tracks[streams[k].pid] = None
        BY <1>1, <1>2, <1>7, FirstAndLast
  <2>2. Selected(streams) = <<streams[l]>> \o <<streams[k]>>
        BY <1>3, <1>4, <1>5, <1>7, <2>1, Zenon
  <2>3. PICK a, b : /\ a = <<streams[l]>> /\ IsSequence(a) /\ Len(a) = 1 /\ a[1] = streams[l]
                    /\ b = <<streams[k]>> /\ IsSequence(b) /\ Len(b) = 1 /\ b[1] = streams[k]
    <3>1. \A x : IsSequence(<<x>>) /\ Len(<<x>>) = 1 /\ <<x>>[1] = x
          BY DEF IsSequence
    <3>2. QED
          BY <3>1, Zenon
  <2>4. PICK w : w = a \o b
        OBVIOUS
  <2>5. w[1] = streams[l] /\ w[2] = streams[k] /\ DOMAIN w = 1 .. 2
        BY <2>3, <2>4, Joined
  <2>6. Selected(streams) = w
        BY <2>2, <2>3, <2>4, Zenon
  <2>7. \A n \in DOMAIN w : \E j \in DOMAIN streams :
            w[n] = streams[j] /\ tracks[streams[j].pid] = None
    <3>1. \A n \in 1 .. 2 : n = 1 \/ n = 2
          OBVIOUS
    <3>2. QED
          BY <1>5, <2>1, <2>5, <3>1
  <2>8. QED
        BY <2>6, <2>7
<1>8. QED
      BY <1>6, <1>7

LEMMA TracksQuiet ==
    ASSUME TracksInv, tracks' = tracks, out'.samples = << >> \/ out' = out,
           keysLost => keysLost', target' = target,
           \A n \in DOMAIN air : n \in DOMAIN air' /\ air'[n] = air[n]
    PROVE  TracksInv'
<1>1. ListedBy(air, target) \subseteq ListedBy(air', target')
      BY DEF ListedBy, PmtOf
<1>2. Tracks' = Tracks
      BY DEF Tracks
<1>3. \A i \in DOMAIN out'.samples : ~keysLost' => out'.samples[i].data \in Seq(ClearCells)
  <2>1. DOMAIN << >> = {}
        OBVIOUS
  <2>2. QED
        BY <2>1 DEF TracksInv
<1>4. QED
      BY <1>1, <1>2, <1>3 DEF TracksInv

LEMMA TracksPmt ==
    ASSUME AirInv, TracksInv, target # None, ReceivePmt
    PROVE  TracksInv'
<1> DEFINE packet == air[next]
<1>1. /\ next \in DOMAIN air /\ packet.kind = "pmt" /\ air' = air
      /\ target' = target /\ keysLost' = keysLost
      BY DEF ReceivePmt, CanRead, Advance, ReadPmt
<1>2. CASE ~ForTarget(packet)
  <2>1. tracks' = tracks /\ out' = Nothing
        BY <1>2 DEF ReceivePmt, ReadPmt
  <2>2. QED
        BY <1>1, <2>1, TracksQuiet DEF Nothing
<1>3. CASE ForTarget(packet)
  <2>1. PICK added :
           /\ added = IF PmtIsRead(packet) THEN Selected(packet.streams) ELSE << >>
           /\ tracks' = [pid \in Pids |->
                            IF \E i \in DOMAIN added : added[i].pid = pid
                            THEN NoPes ELSE tracks[pid]]
           /\ out'.samples = << >>
        BY <1>3 DEF ReceivePmt, ReadPmt, Nothing
  <2>2. PmtOf(packet, target)
        BY <1>1, <1>3 DEF ForTarget, PmtOf
  <2>3. \A i \in DOMAIN added : added[i].pid \in ListedBy(air, target)
    <3>1. SUFFICES ASSUME NEW i \in DOMAIN added
                   PROVE  added[i].pid \in ListedBy(air, target)
          OBVIOUS
    <3>2. PICK L \in Nat : DOMAIN packet.streams = 1 .. L
          BY <1>1 DEF AirInv, Fits
    <3>3. added = Selected(packet.streams)
      <4>1. DOMAIN << >> = {}
            OBVIOUS
      <4>2. QED
            BY <2>1, <4>1
    <3>4. PICK j \in DOMAIN packet.streams : added[i] = packet.streams[j]
          BY <3>2, <3>3, SelectedAre
    <3>5. QED
          BY <1>1, <2>2, <3>4 DEF ListedBy
  <2>4. \A pid \in Tracks' : pid \in Pids /\ (pid \in Tracks \/ tracks'[pid] = NoPes)
        BY <2>1 DEF Tracks
  <2>5. \A pid \in Tracks' : pid \in ListedBy(air, target)
    <3>1. \A pid \in Tracks' : pid \in Tracks \/ \E i \in DOMAIN added : added[i].pid = pid
          BY <2>1 DEF Tracks
    <3>2. QED
          BY <2>3, <3>1 DEF TracksInv
  <2>6. NoPes.data \in Seq(ClearCells)
        BY DEF NoPes
  <2>7. \A pid \in Tracks' : tracks'[pid] = NoPes \/ (pid \in Tracks /\ tracks'[pid] = tracks[pid])
        BY <2>1 DEF Tracks
  <2>8. tracks' = [pid \in Pids |-> tracks'[pid]]
        BY <2>1
  <2>9. DOMAIN out'.samples = {}
    <3>1. DOMAIN << >> = {}
          OBVIOUS
    <3>2. QED
          BY <2>1, <3>1
  <2>10. QED
         BY <1>1, <2>5, <2>6, <2>7, <2>8, <2>9 DEF TracksInv
<1>4. QED
      BY <1>2, <1>3

LEMMA TracksPes ==
    ASSUME ClearInv, target # None, ReceivePes
    PROVE  TracksInv'
<1> DEFINE packet == air[next]
<1>1. /\ next \in DOMAIN air /\ packet.kind = "pes" /\ air' = air
      /\ target' = target /\ keysLost' = keysLost
      BY DEF ReceivePes, CanRead, Advance, ReadPesPacket
<1>2. AirInv /\ TracksInv
      BY DEF ClearInv
<1>3. CASE Unreadable(packet) /\ out' = Nothing /\ UNCHANGED tracks
      BY <1>1, <1>2, <1>3, TracksQuiet DEF Nothing
<1>4. CASE ~Unreadable(packet) /\ (StartPes(packet) \/ ContinuePes(packet))
  <2>1. packet.pid \in Tracks /\ Decryption(packet) # "none"
        BY <1>4 DEF Unreadable
  <2>2. ~keysLost => Payload(packet) \in Seq(ClearCells)
    <3>1. SUFFICES ASSUME ~keysLost PROVE Payload(packet) \in Seq(ClearCells)
          OBVIOUS
    <3>2. Decryption(packet) = "clear"
          BY <1>1, <2>1, <3>1, KeyClear
    <3>3. packet.cells \in Seq(ClearCells)
          BY <1>1, <1>2 DEF AirInv, Fits
    <3>4. QED
          BY <3>2, <3>3 DEF Payload
  <2>3. PICK payload, pid : payload = Payload(packet) /\ pid = packet.pid
        OBVIOUS
  <2>4. pid \in Tracks /\ (~keysLost => payload \in Seq(ClearCells))
        BY <2>1, <2>2, <2>3
  <2>5. /\ tracks = [p \in Pids |-> tracks[p]]
        /\ \A p \in Tracks : p \in ListedBy(air, target)
        /\ ~keysLost => \A p \in Tracks : tracks[p].data \in Seq(ClearCells)
        BY <1>2 DEF TracksInv
  <2>6. pid \in Pids
        BY <2>4 DEF Tracks
  <2> SUFFICES /\ tracks' = [p \in Pids |-> tracks'[p]]
               /\ \A p \in Tracks' : p \in Tracks
               /\ ~keysLost =>
                     /\ \A p \in Tracks' : tracks'[p].data \in Seq(ClearCells)
                     /\ \A i \in DOMAIN out'.samples :
                           out'.samples[i].data \in Seq(ClearCells)
        BY <1>1, <2>5 DEF TracksInv
  <2>7. CASE StartPes(packet)
    <3>1. PICK pes : pes = [data |-> payload, dts |-> packet.dts, pts |-> packet.pts]
          OBVIOUS
    <3>2. tracks' = [tracks EXCEPT ![pid] = pes] /\ out'.samples = Finished(pid)
      <4>1. /\ tracks' = [tracks EXCEPT ![pid] = pes]
            /\ out' = [Nothing EXCEPT !.samples = Finished(pid)]
            BY <2>3, <2>7, <3>1 DEF StartPes
      <4>2. QED
            BY <4>1 DEF Nothing
    <3>3. pes.data = payload
          BY <3>1
    <3>4. tracks' = [p \in Pids |-> IF p = pid THEN pes ELSE tracks[p]]
      <4>1. [tracks EXCEPT ![pid] = pes] = [p \in DOMAIN tracks |-> IF p = pid THEN pes ELSE tracks[p]]
            OBVIOUS
      <4>2. DOMAIN tracks = Pids
            BY <2>5
      <4>3. QED
            BY <3>2, <4>1, <4>2
    <3>5. \A p \in Tracks' : p \in Tracks
          BY <2>4, <3>4 DEF Tracks
    <3>6. ~keysLost => \A p \in Tracks' : tracks'[p].data \in Seq(ClearCells)
      <4>1. \A p \in Tracks' : p \in Pids
            BY <3>5 DEF Tracks
      <4>2. \A p \in Tracks' : tracks'[p].data = (IF p = pid THEN payload ELSE tracks[p].data)
            BY <3>3, <3>4, <4>1
      <4>3. QED
            BY <2>4, <2>5, <3>5, <4>2
    <3>7. ~keysLost => \A i \in DOMAIN out'.samples :
                          out'.samples[i].data \in Seq(ClearCells)
      <4>1. CASE tracks[pid].data = << >>
        <5>1. DOMAIN << >> = {}
              OBVIOUS
        <5>2. QED
              BY <3>2, <4>1, <5>1 DEF Finished
      <4>2. CASE tracks[pid].data # << >>
        <5>1. PICK sample : sample = Sample(pid)
              OBVIOUS
        <5>2. out'.samples = <<sample>> /\ sample.data = tracks[pid].data
              BY <3>2, <4>2, <5>1 DEF Finished, Sample
        <5>3. \A i \in DOMAIN <<sample>> : <<sample>>[i] = sample
              OBVIOUS
        <5>4. QED
              BY <2>4, <2>5, <5>2, <5>3
      <4>3. QED
            BY <4>1, <4>2
    <3>8. tracks' = [p \in Pids |-> tracks'[p]]
          BY <3>4
    <3>9. QED
          BY <3>5, <3>6, <3>7, <3>8
  <2>8. CASE ContinuePes(packet)
    <3>1. PICK more : more = [tracks[pid] EXCEPT !.data = @ \o payload]
          OBVIOUS
    <3>2. out' = Nothing /\ (tracks' = tracks \/ tracks' = [tracks EXCEPT ![pid] = more])
      <4>1. [tracks EXCEPT ![pid].data = @ \o payload] = [tracks EXCEPT ![pid] = more]
            BY <3>1
      <4>2. tracks' = IF tracks[pid].data = << >> THEN tracks
                      ELSE [tracks EXCEPT ![pid].data = @ \o payload]
            BY <2>3, <2>8 DEF ContinuePes
      <4>3. QED
            BY <2>8, <4>1, <4>2 DEF ContinuePes
    <3>3. CASE tracks' = tracks
      <4>1. TracksInv'
            BY <1>1, <1>2, <3>2, <3>3, TracksQuiet DEF Nothing
      <4>2. QED
            BY <1>1, <3>3, <4>1 DEF TracksInv, Tracks
    <3>4. CASE tracks' = [tracks EXCEPT ![pid] = more]
      <4>1. tracks' = [p \in Pids |-> IF p = pid THEN more ELSE tracks[p]]
        <5>1. [tracks EXCEPT ![pid] = more] = [p \in DOMAIN tracks |-> IF p = pid THEN more ELSE tracks[p]]
              OBVIOUS
        <5>2. DOMAIN tracks = Pids
              BY <2>5
        <5>3. QED
              BY <3>4, <5>1, <5>2
      <4>2. \A p \in Tracks' : p \in Tracks /\ p \in Pids
            BY <2>4, <4>1 DEF Tracks
      <4>3. ~keysLost => more.data \in Seq(ClearCells)
        <5>1. SUFFICES ASSUME ~keysLost PROVE more.data \in Seq(ClearCells)
              OBVIOUS
        <5>2. tracks[pid].data \in Seq(ClearCells) /\ payload \in Seq(ClearCells)
              BY <2>4, <2>5, <5>1
        <5>3. tracks[pid].data \o payload \in Seq(ClearCells)
              BY <5>2
        <5>4. "data" \in DOMAIN tracks[pid] => more.data = tracks[pid].data \o payload
              BY <3>1
        <5>5. QED
              BY <5>2, <5>3, <5>4, <3>1
      <4>4. ~keysLost => \A p \in Tracks' : tracks'[p].data \in Seq(ClearCells)
            BY <2>5, <4>1, <4>2, <4>3
      <4>5. DOMAIN out'.samples = {}
        <5>1. DOMAIN << >> = {}
              OBVIOUS
        <5>2. QED
              BY <3>2, <5>1 DEF Nothing
      <4>6. tracks' = [p \in Pids |-> tracks'[p]]
            BY <4>1
      <4>7. QED
            BY <4>2, <4>4, <4>5, <4>6
    <3>5. QED
          BY <3>2, <3>3, <3>4
  <2>9. QED
        BY <1>4, <2>7, <2>8
<1>5. QED
      BY <1>3, <1>4 DEF ReceivePes, ReadPesPacket

LEMMA TracksStep ==
    ASSUME MuxerInv, ClearInv, target # None, [Next]_vars
    PROVE  TracksInv'
<1>1. AirInv /\ TracksInv
      BY DEF ClearInv
<1>2. CASE Mux
  <2>1. IsSequence(air) /\ broadcast.samples # << >> /\ air' = air \o written'
        BY <1>2, CallWrites DEF MuxerInv, Mux
  <2>2. PICK w : w = written'
        OBVIOUS
  <2>3. IsSequence(w)
        BY <1>2, <2>2, CallIsUnkeyed
  <2>4. \A n \in DOMAIN air : n \in DOMAIN air' /\ air'[n] = air[n]
        BY <2>1, <2>2, <2>3, Appended
  <2>5. QED
        BY <1>1, <1>2, <2>4, TracksQuiet DEF Mux, demuxerVars
<1>3. CASE ReceivePat
      BY <1>1, <1>3, TracksQuiet DEF ReceivePat, Advance, ReadPat, SkipPacket, Nothing
<1>4. CASE ReceivePmt
      BY <1>1, <1>4, TracksPmt
<1>5. CASE ReceiveSection
  <2>1. /\ tracks' = tracks /\ target' = target /\ air' = air
        /\ keysLost => keysLost'
        BY <1>5 DEF ReceiveSection, Advance, ReadSectionPacket
  <2>2. out'.samples = << >>
        BY <1>5 DEF ReceiveSection, ReadSectionPacket, Nothing
  <2>3. QED
        BY <1>1, <2>1, <2>2, TracksQuiet
<1>6. CASE ReceivePes
      BY <1>6, TracksPes
<1>7. CASE LosePacket
      BY <1>1, <1>7, TracksQuiet DEF LosePacket, Advance, SkipPacket, Nothing
<1>8. CASE Finish
  <2>1. /\ air' = air /\ target' = target /\ keysLost' = keysLost /\ Flush
        BY <1>8 DEF Finish, Flush
  <2>2. tracks' = [pid \in Pids |-> IF pid \in Tracks THEN NoPes ELSE None]
        BY <2>1 DEF Flush
  <2>3. \A pid \in Tracks' : pid \in Tracks /\ tracks'[pid] = NoPes
        BY <2>2 DEF Tracks
  <2>4. NoPes.data \in Seq(ClearCells)
        BY DEF NoPes
  <2>5. ~keysLost => \A i \in DOMAIN out'.samples :
                        out'.samples[i].data \in Seq(ClearCells)
    <3>1. SUFFICES ASSUME ~keysLost, NEW i \in DOMAIN out'.samples
                   PROVE  out'.samples[i].data \in Seq(ClearCells)
          OBVIOUS
    <3>2. PICK pid \in Tracks : out'.samples[i] = Sample(pid)
          BY <2>1, FlushGives
    <3>3. out'.samples[i].data = tracks[pid].data
          BY <3>2 DEF Sample
    <3>4. QED
          BY <1>1, <3>1, <3>3 DEF TracksInv
  <2>6. tracks' = [pid \in Pids |-> tracks'[pid]]
        BY <2>2
  <2>7. QED
        BY <1>1, <2>1, <2>3, <2>4, <2>5, <2>6 DEF TracksInv
<1>9. CASE UNCHANGED vars
      BY <1>1, <1>9, TracksQuiet DEF vars, demuxerVars, receiverVars
<1>10. CASE IgnoreSection
       BY <1>1, <1>10, TracksQuiet
          DEF IgnoreSection, IgnoreSectionPacket, Advance, SkipPacket, Nothing
<1>11. QED
       BY <1>2, <1>3, <1>4, <1>5, <1>6, <1>7, <1>8, <1>9, <1>10 DEF Next

-----------------------------------------------------------------------------
(* KeysInv.                                                                 *)

\* A packet that is no ECM.
LEMMA KeysQuiet ==
    ASSUME AirInv, NEW pid, KeyedBy(air, target, pid), KeysInv(pid),
           air' = air, target' = target, workKeys' = workKeys,
           ecmPids \subseteq ecmPids', ecmPids' \subseteq {pid},
           lost \subseteq lost', keysLost => keysLost', next' \in {next, next + 1},
           next' = next + 1 /\ next \in DOMAIN air =>
              /\ OnPid(air[next], pid) => keysLost'
              /\ PmtOf(air[next], target) /\ next \notin lost' =>
                    EcmPidsIn(air[next]) \subseteq ecmPids'
    PROVE  KeysInv(pid)'
<1>1. next \in Nat /\ \A n \in DOMAIN air : n \in Nat
      BY DEF AirInv
<1>2. ASSUME NEW k \in DOMAIN air' \ lost', k < next', PmtOf(air'[k], target')
      PROVE  EcmPidsIn(air'[k]) \subseteq ecmPids'
  <2>1. k \in DOMAIN air \ lost /\ PmtOf(air[k], target)
        BY <1>2
  <2>2. CASE k < next
        BY <2>1, <2>2 DEF KeysInv
  <2>3. CASE ~(k < next)
    <3>1. k = next /\ next' = next + 1
          BY <1>1, <1>2, <2>1, <2>3
    <3>2. QED
          BY <1>2, <2>1, <3>1
  <2>4. QED
        BY <2>2, <2>3
<1>3. ASSUME ~keysLost', workKeys' # None
      PROVE  /\ pid \in ecmPids'
             /\ \E m \in DOMAIN air' :
                   /\ LastOnPid(air', pid, m, next')
                   /\ workKeys' = KeysOf(target', EcmIn(air'[m]).version)
  <2>1. PICK m \in DOMAIN air :
           /\ LastOnPid(air, pid, m, next)
           /\ workKeys = KeysOf(target, EcmIn(air[m]).version)
        BY <1>3 DEF KeysInv
  <2>2. m < next'
        BY <1>1, <2>1 DEF LastOnPid
  <2>3. ASSUME NEW k \in DOMAIN air, m < k, k < next'
        PROVE  ~OnPid(air[k], pid)
    <3>1. CASE k < next
          BY <2>1, <2>3, <3>1 DEF LastOnPid
    <3>2. CASE ~(k < next)
      <4>1. k = next /\ next' = next + 1
            BY <1>1, <2>3, <3>2
      <4>2. QED
            BY <1>3, <4>1
    <3>3. QED
          BY <3>1, <3>2
  <2>4. LastOnPid(air', pid, m, next')
        BY <2>1, <2>2, <2>3 DEF LastOnPid
  <2>5. QED
        BY <1>3, <2>1, <2>4 DEF KeysInv
<1>4. ASSUME ~keysLost', EcmCame'
      PROVE  workKeys' # None
  <2>1. PICK k \in DOMAIN air \ lost', m \in DOMAIN air :
           /\ k < m /\ m < next' /\ PmtOf(air[k], target)
           /\ air[m].kind = "section" /\ air[m].pid \in EcmPidsIn(air[k])
        BY <1>4 DEF EcmCame
  <2>2. k \in DOMAIN air \ lost
        BY <2>1
  <2>3. OnPid(air[m], pid)
        BY <2>1 DEF KeyedBy, OnPid
  <2>4. m < next
    <3>1. SUFFICES ASSUME ~(m < next) PROVE FALSE
          OBVIOUS
    <3>2. m = next /\ next' = next + 1
          BY <1>1, <2>1, <3>1
    <3>3. QED
          BY <1>4, <2>3, <3>2
  <2>5. EcmCame
        BY <2>1, <2>2, <2>4 DEF EcmCame
  <2>6. QED
        BY <1>4, <2>5 DEF KeysInv
<1>5. QED
      BY <1>2, <1>3, <1>4 DEF KeysInv

\* Sections on a PID that no PMT has named yet.
LEMMA KeysUnnamed ==
    ASSUME AirInv, NEW pid, KeyedBy(air, target, pid), KeysInv(pid),
           next \in DOMAIN air, air[next].kind = "section", air[next].pid \notin ecmPids,
           next' = next + 1, air' = air, target' = target, ecmPids' = ecmPids,
           workKeys' = workKeys, keysLost => keysLost', lost \subseteq lost'
    PROVE  KeysInv(pid)'
<1> DEFINE packet == air[next]
<1>1. next \in Nat /\ \A n \in DOMAIN air : n \in Nat
      BY DEF AirInv
<1>2. CASE ~OnPid(packet, pid)
  <2>1. ~PmtOf(packet, target)
        BY DEF PmtOf
  <2>2. ecmPids \subseteq {pid}
        BY DEF KeysInv
  <2>3. QED
        BY <1>2, <2>1, <2>2, KeysQuiet
<1>3. CASE OnPid(packet, pid)
  <2>1. ecmPids = {}
        BY <1>3 DEF KeysInv, OnPid
  <2>2. \A k \in DOMAIN air \ lost :
           k < next' /\ PmtOf(air[k], target) => EcmPidsIn(air[k]) = {}
    <3>1. SUFFICES ASSUME NEW k \in DOMAIN air \ lost, k < next', PmtOf(air[k], target)
                   PROVE  EcmPidsIn(air[k]) \subseteq ecmPids
          BY <2>1
    <3>2. k # next
          BY <3>1 DEF PmtOf
    <3>3. k < next
          BY <1>1, <3>1, <3>2
    <3>4. QED
          BY <3>1, <3>3 DEF KeysInv
  <2>3. ~EcmCame'
    <3>1. SUFFICES ASSUME EcmCame' PROVE FALSE
          OBVIOUS
    <3>2. PICK k \in DOMAIN air \ lost, m \in DOMAIN air :
             /\ k < m /\ m < next' /\ PmtOf(air[k], target)
             /\ air[m].pid \in EcmPidsIn(air[k])
          BY <3>1 DEF EcmCame
    <3>3. k < next'
          BY <1>1, <3>2
    <3>4. QED
          BY <2>2, <3>2, <3>3
  <2>4. ~keysLost' => workKeys' = None
        BY <2>1 DEF KeysInv
  <2>5. QED
        BY <2>1, <2>2, <2>3, <2>4 DEF KeysInv
<1>4. QED
      BY <1>2, <1>3

\* An ECM, or another section.
LEMMA KeysSection ==
    ASSUME AirInv, NEW pid, KeyedBy(air, target, pid), KeysInv(pid),
           target \in Services, ReceiveSection
    PROVE  KeysInv(pid)'
<1> DEFINE packet == air[next]
<1>1. /\ next \in DOMAIN air /\ next' = next + 1 /\ packet.kind = "section"
      /\ air' = air /\ target' = target /\ lost' = lost /\ ecmPids' = ecmPids
      BY DEF ReceiveSection, CanRead, Advance, ReadSectionPacket
<1>2. next \in Nat /\ \A n \in DOMAIN air : n \in Nat
      BY DEF AirInv
<1>3. PICK garbage, outcome, answers :
         /\ garbage \in Garbage
         /\ answers \in [EcmsIn(packet, garbage) -> Answers]
         /\ ReadSectionPacket(packet, garbage, answers, outcome)
         /\ keysLost' = (keysLost \/ \E i \in DOMAIN answers : answers[i] # "keys")
      BY DEF ReceiveSection
<1>4. CASE packet.pid \notin ecmPids
  <2>1. keysLost => keysLost'
        BY <1>3
  <2>2. workKeys' = workKeys
        BY <1>3, <1>4 DEF ReadSectionPacket
  <2>3. QED
        BY <1>1, <1>4, <2>1, <2>2, KeysUnnamed
<1>5. CASE packet.pid \in ecmPids
  <2>1. packet.pid = pid /\ OnPid(packet, pid) /\ pid \in ecmPids'
        BY <1>1, <1>5 DEF KeysInv, OnPid
  <2>2. HoldsEcm(packet, target)
        BY <1>1, <2>1 DEF KeyedBy
  <2>3. ecmPids' \subseteq {pid}
        BY <1>1 DEF KeysInv
  <2>4. PICK sections :
           /\ sections = ReadSections(sectionBuffers[packet.pid], packet, garbage).sections
           /\ ReadEcms(sections, answers)
        BY <1>3, <1>5 DEF ReadSectionPacket
  <2>5. PICK cells : /\ cells = packet.cells /\ sections = <<cells>>
                     /\ cells[1] = [of |-> EcmIn(packet), at |-> 1]
        BY <1>3, <2>2, <2>4, EcmRead
  <2>6. PICK ecm : ecm = EcmIn(packet)
        OBVIOUS
  <2>7. cells[1].at = 1 /\ cells[1].of = ecm
        BY <2>5, <2>6
  <2>8. ecm.table = "ecm" /\ ecm.key = target /\ ecm.version \in 0 .. LastPeriod
        BY <2>2, <2>6 DEF HoldsEcm
  <2>9. /\ sections[1] = cells /\ EcmsAmong(sections) = {1}
        /\ DOMAIN answers = {1}
    <3>1. DOMAIN sections = {1} /\ sections[1] = cells
      <4>1. DOMAIN <<cells>> = {1} /\ <<cells>>[1] = cells
            OBVIOUS
      <4>2. QED
            BY <2>5, <4>1, Zenon
    <3>2. EcmsAmong(sections) = {1}
          BY <2>7, <2>8, <3>1 DEF EcmsAmong
    <3>3. DOMAIN answers = EcmsAmong(sections)
          BY <1>3, <1>5, <2>4 DEF EcmsIn
    <3>4. QED
          BY <3>1, <3>2, <3>3
  <2>10. ASSUME ~keysLost'
         PROVE  workKeys' = KeysOf(target, ecm.version) /\ workKeys' # None
    <3>1. answers[1] = "keys"
          BY <1>3, <2>9, <2>10
    <3>2. PushEcm(target, ecm.version, "keys")
      <4>1. {i \in {1} : answers[i] \in {"error", "panic"}} = {}
            BY <3>1
      <4>2. {i \in {1} : \A j \in {} : i < j} = {1}
            OBVIOUS
      <4>3. Max({1}) = 1
            BY LargestIs
      <4>4. {1} # {}
            OBVIOUS
      <4>5. ReadEcms(sections, answers) =>
               PushEcm(sections[1][1].of.key, sections[1][1].of.version, answers[1])
            BY <2>9, <4>1, <4>2, <4>3, <4>4 DEF ReadEcms
      <4>6. QED
            BY <2>4, <2>7, <2>8, <2>9, <3>1, <4>5
    <3>3. workKeys' = KeysOf(target, ecm.version)
          BY <3>2 DEF PushEcm
    <3>4. QED
          BY <2>8, <3>3, KeysAreSome
  <2>11. LastOnPid(air, pid, next, next')
    <3>1. \A k \in DOMAIN air : ~(next < k /\ k < next')
          BY <1>1, <1>2
    <3>2. QED
          BY <1>1, <1>2, <2>1, <3>1 DEF LastOnPid
  <2>12. \A k \in DOMAIN air \ lost :
            k < next' /\ PmtOf(air[k], target) => EcmPidsIn(air[k]) \subseteq ecmPids
    <3>1. SUFFICES ASSUME NEW k \in DOMAIN air \ lost, k < next', PmtOf(air[k], target)
                   PROVE  EcmPidsIn(air[k]) \subseteq ecmPids
          OBVIOUS
    <3>2. k # next
          BY <1>1, <3>1 DEF PmtOf
    <3>3. k < next
          BY <1>1, <1>2, <3>1, <3>2
    <3>4. QED
          BY <3>1, <3>3 DEF KeysInv
  <2>13. \E m \in DOMAIN air' : /\ LastOnPid(air', pid, m, next')
                                /\ ~keysLost' => workKeys' = KeysOf(target', EcmIn(air'[m]).version)
         BY <1>1, <2>6, <2>10, <2>11
  <2>14. QED
         BY <1>1, <2>1, <2>3, <2>10, <2>12, <2>13 DEF KeysInv
<1>6. QED
      BY <1>4, <1>5

LEMMA EcmIsCarried ==
    ASSUME NEW packet, NEW service, HoldsEcm(packet, service), packet.kind = "section"
    PROVE  CarriesEcm(packet)
<1> DEFINE ecm == EcmIn(packet)
           L == ecm.length
<1>1. /\ ecm # Stuffing /\ ecm.table = "ecm" /\ L \in Nat /\ L >= 2
      /\ packet.cells = [i \in 1 .. L |-> [of |-> ecm, at |-> i]]
      BY DEF HoldsEcm, IsWhole, Cells, HeaderLength, EcmIn
<1> HIDE DEF ecm, L
<1>2. 1 \in DOMAIN packet.cells /\ packet.cells[1].of = ecm
      BY <1>1
<1>3. ~IsStuffing(packet.cells[1]) /\ packet.cells[1].of.table = "ecm"
      BY <1>1, <1>2 DEF IsStuffing
<1>4. QED
      BY <1>2, <1>3 DEF CarriesEcm

LEMMA KeysStep ==
    ASSUME MuxerInv, AirInv, NEW pid, KeyedBy(air, target, pid), KeysInv(pid),
           target \in Services, target # None, broadcast.samples = << >>, [Next]_vars
    PROVE  KeysInv(pid)'
<1>1. ecmPids \subseteq {pid}
      BY DEF KeysInv
<1>2. ~Mux
  <2>1. Len(<< >>) = 0
        OBVIOUS
  <2>2. QED
        BY <2>1 DEF Mux, MuxerInv
<1>3. CASE ReceivePat
  <2>1. air[next].kind = "pat"
        BY <1>3 DEF ReceivePat, ReadPat
  <2>2. ~OnPid(air[next], pid) /\ ~PmtOf(air[next], target)
        BY <2>1 DEF OnPid, PmtOf
  <2>3. QED
        BY <1>1, <1>3, <2>2, KeysQuiet DEF ReceivePat, Advance, ReadPat, SkipPacket
<1>4. CASE ReceivePmt
  <2>1. /\ next \in DOMAIN air /\ air[next].kind = "pmt"
        /\ air' = air /\ target' = target /\ workKeys' = workKeys /\ lost' = lost
        /\ keysLost' = keysLost /\ next' = next + 1
        BY <1>4 DEF ReceivePmt, CanRead, Advance, ReadPmt
  <2>2. ~OnPid(air[next], pid)
        BY <2>1 DEF OnPid
  <2>3. CASE ForTarget(air[next])
    <3>1. PmtOf(air[next], target)
      <4>1. target = air[next].program
            BY <2>3 DEF ForTarget
      <4>2. QED
            BY <2>1, <4>1 DEF PmtOf
    <3>2. ecmPids' = ecmPids \cup EcmPidsIn(air[next])
          BY <1>4, <2>3 DEF ReceivePmt, ReadPmt
    <3>3. EcmPidsIn(air[next]) \subseteq {pid}
          BY <2>1, <3>1 DEF KeyedBy
    <3>4. QED
          BY <1>1, <2>1, <2>2, <3>2, <3>3, KeysQuiet
  <2>4. CASE ~ForTarget(air[next])
    <3>1. ~PmtOf(air[next], target)
          BY <2>4 DEF ForTarget, PmtOf
    <3>2. ecmPids' = ecmPids
          BY <1>4, <2>4 DEF ReceivePmt, ReadPmt
    <3>3. QED
          BY <1>1, <2>1, <2>2, <3>1, <3>2, KeysQuiet
  <2>5. QED
        BY <2>3, <2>4
<1>5. CASE ReceiveSection
      BY <1>5, KeysSection
<1>6. CASE ReceivePes
  <2>1. /\ air[next].kind = "pes" /\ air' = air /\ target' = target
        /\ workKeys' = workKeys /\ ecmPids' = ecmPids /\ keysLost' = keysLost
        /\ next' = next + 1 /\ lost \subseteq lost'
        BY <1>6 DEF ReceivePes, Advance, ReadPesPacket
  <2>2. ~OnPid(air[next], pid) /\ ~PmtOf(air[next], target)
        BY <2>1 DEF OnPid, PmtOf
  <2>3. QED
        BY <1>1, <2>1, <2>2, KeysQuiet
<1>7. CASE LosePacket
  <2>1. /\ next \in DOMAIN air /\ air' = air /\ target' = target
        /\ workKeys' = workKeys /\ ecmPids' = ecmPids /\ next' = next + 1
        /\ lost' = lost \cup {next} /\ (keysLost => keysLost')
        /\ (CarriesEcm(air[next]) => keysLost')
        BY <1>7 DEF LosePacket, CanRead, Advance, SkipPacket
  <2>2. OnPid(air[next], pid) => keysLost'
    <3>1. SUFFICES ASSUME OnPid(air[next], pid) PROVE CarriesEcm(air[next])
          BY <2>1
    <3>2. HoldsEcm(air[next], target)
          BY <2>1, <3>1 DEF KeyedBy
    <3>3. QED
          BY <3>1, <3>2, EcmIsCarried DEF OnPid
  <2>3. QED
        BY <1>1, <2>1, <2>2, KeysQuiet
<1>8. CASE Finish
  <2>1. /\ next = Len(air) + 1 /\ air' = air /\ target' = target
        /\ workKeys' = workKeys /\ ecmPids' = ecmPids /\ lost' = lost
        /\ keysLost' = keysLost /\ next' = next + 1
        BY <1>8 DEF Finish, Flush
  <2>2. Len(air) \in Nat /\ DOMAIN air = 1 .. Len(air)
        BY BroadcastAssumption DEF AirInv
  <2>3. next \notin DOMAIN air
        BY <2>1, <2>2
  <2>4. QED
        BY <1>1, <2>1, <2>3, KeysQuiet
<1>9. CASE UNCHANGED vars
  <2>1. /\ air' = air /\ target' = target /\ next' = next
        /\ workKeys' = workKeys /\ ecmPids' = ecmPids /\ lost' = lost
        /\ keysLost' = keysLost
        BY <1>9 DEF vars, demuxerVars, receiverVars
  <2>2. ~(next' = next + 1)
        BY <2>1 DEF AirInv
  <2>3. QED
        BY <1>1, <2>1, <2>2, KeysQuiet
<1>10. CASE IgnoreSection
  <2>1. /\ next \in DOMAIN air /\ air[next].kind = "section"
        /\ air[next].pid \notin ecmPids
        BY <1>10 DEF IgnoreSection, CanRead, IgnoreSectionPacket, Listening
  <2>2. /\ next' = next + 1 /\ air' = air /\ target' = target /\ ecmPids' = ecmPids
        /\ workKeys' = workKeys /\ keysLost' = keysLost /\ lost \subseteq lost'
        BY <1>10 DEF IgnoreSection, IgnoreSectionPacket, Advance, SkipPacket
  <2>3. QED
        BY <2>1, <2>2, KeysUnnamed
<1>11. QED
       BY <1>2, <1>3, <1>4, <1>5, <1>6, <1>7, <1>8, <1>9, <1>10 DEF Next

\* The muxer writes nothing from which keys could come.
LEMMA NoKeys ==
    ASSUME AirInv, broadcast.samples # << >>, ecmPids = {}, workKeys = None, [Next]_vars
    PROVE  ecmPids' = {} /\ workKeys' = None
<1>1. CASE Mux
      BY <1>1 DEF Mux, demuxerVars
<1>2. CASE ReceivePat
      BY <1>2 DEF ReceivePat, ReadPat, SkipPacket
<1>3. CASE ReceivePmt
  <2>1. next \in DOMAIN air /\ air[next].kind = "pmt"
        BY <1>3 DEF ReceivePmt, CanRead, ReadPmt
  <2>2. EcmPidsIn(air[next]) = {}
        BY <2>1 DEF AirInv, Unkeyed
  <2>3. QED
        BY <1>3, <2>2 DEF ReceivePmt, ReadPmt
<1>4. CASE ReceiveSection
  <2>1. next \in DOMAIN air /\ air[next].kind = "section"
        BY <1>4 DEF ReceiveSection, CanRead, ReadSectionPacket
  <2>2. QED
        BY <2>1 DEF AirInv, Unkeyed
<1>5. CASE ReceivePes
      BY <1>5 DEF ReceivePes, ReadPesPacket
<1>6. CASE LosePacket
      BY <1>6 DEF LosePacket, SkipPacket
<1>7. CASE Finish
      BY <1>7 DEF Finish, Flush
<1>8. CASE UNCHANGED vars
      BY <1>8 DEF vars, demuxerVars
<1>9. CASE IgnoreSection
      BY <1>9 DEF IgnoreSection, IgnoreSectionPacket, SkipPacket
<1>10. QED
       BY <1>1, <1>2, <1>3, <1>4, <1>5, <1>6, <1>7, <1>8, <1>9 DEF Next

LEMMA ClearHolds ==
    ASSUME MuxerInv, ClearInv, [Next]_vars
    PROVE  ClearInv'
<1>1. AirInv
      BY DEF ClearInv
<1>2. AirInv'
      BY <1>1, AirHolds
<1>3. target' = target /\ broadcast' = broadcast
      BY Steps
<1>4. ASSUME target # None PROVE TracksInv'
      BY <1>4, TracksStep
<1>5. ASSUME target # None, broadcast.samples # << >>
      PROVE  ecmPids' = {} /\ workKeys' = None
      BY <1>1, <1>5, NoKeys DEF ClearInv
<1>6. ASSUME target # None, broadcast.samples = << >>,
             NEW pid \in Pids, KeyedBy(air', target, pid)
      PROVE  KeysInv(pid)'
  <2>1. air' = air
        BY <1>1, <1>2, <1>3, <1>6 DEF AirInv
  <2>2. KeyedBy(air, target, pid) /\ KeysInv(pid)
        BY <1>6, <2>1 DEF ClearInv
  <2>3. target \in Services /\ target # None
        BY <1>1, <1>6, BroadcastAssumption DEF AirInv
  <2>4. QED
        BY <1>1, <1>6, <2>2, <2>3, KeysStep
<1>7. QED
      BY <1>2, <1>3, <1>4, <1>5, <1>6 DEF ClearInv

LEMMA ClearStart == Init => ClearInv
<1> SUFFICES ASSUME Init PROVE ClearInv
      OBVIOUS
<1>1. /\ next = 1 /\ keysLost = FALSE /\ lost = {} /\ ecmPids = {} /\ workKeys = None
      /\ tracks = [pid \in Pids |-> None] /\ out = Nothing
      BY DEF Init, DemuxerInit, B25Init
<1>2. AirInv
      BY AirStart
<1>3. TracksInv
  <2>1. Tracks = {}
        BY <1>1 DEF Tracks
  <2>2. DOMAIN out.samples = {}
    <3>1. DOMAIN << >> = {}
          OBVIOUS
    <3>2. QED
          BY <1>1, <3>1 DEF Nothing
  <2>3. QED
        BY <1>1, <2>1, <2>2 DEF TracksInv
<1>4. ASSUME NEW pid, broadcast.samples = << >> PROVE KeysInv(pid)
  <2>1. Len(air) \in Nat /\ DOMAIN air = 1 .. Len(air)
        BY <1>2, <1>4, BroadcastAssumption DEF AirInv
  <2>2. \A k \in DOMAIN air : ~(k < next)
        BY <1>1, <2>1
  <2>3. ~EcmCame
        BY <2>2 DEF EcmCame
  <2>4. QED
        BY <1>1, <2>2, <2>3 DEF KeysInv
<1>5. QED
      BY <1>1, <1>2, <1>3, <1>4 DEF ClearInv

\* A stream of one service is descrambled with the key of each packet as long as
\* its ECMs come and the card answers them, and nothing is made of it before the
\* first (descrambler.rs:52, m2ts.rs:138): in every broadcast whose services
\* have one PID for ECMs each, whatever else is lost.
THEOREM SamplesAreClear == Spec => []SamplesClear
<1>1. Init => MuxerInv /\ ClearInv
      BY MuxerStart, ClearStart
<1>2. MuxerInv /\ ClearInv /\ [Next]_vars => (MuxerInv /\ ClearInv)'
      BY MuxerHolds, ClearHolds
<1>3. ClearInv => SamplesClear
  <2>1. SUFFICES ASSUME ClearInv, ~keysLost, target # None PROVE
             /\ \A i \in DOMAIN out.samples : CellsOk(out.samples[i].data)
             /\ CanRead /\ air[next].kind = "pes" /\ air[next].pid \in Tracks =>
                   \/ Decryption(air[next]) = "clear"
                   \/ Decryption(air[next]) = "none" /\ ~EcmCame
        BY DEF SamplesClear
  <2>2. \A i \in DOMAIN out.samples : out.samples[i].data \in Seq(ClearCells)
        BY <2>1 DEF ClearInv, TracksInv
  <2>3. \A cell \in ClearCells : cell.code # "noise"
        BY DEF ClearCells
  <2>4. \A data \in Seq(ClearCells) : \A i \in DOMAIN data : data[i] \in ClearCells
        OBVIOUS
  <2>5. \A i \in DOMAIN out.samples : CellsOk(out.samples[i].data)
        BY <2>2, <2>3, <2>4 DEF CellsOk
  <2>6. QED
        BY <2>1, <2>5, KeyClear DEF CanRead
<1>4. QED
      BY <1>1, <1>2, <1>3, PTL DEF Spec

-----------------------------------------------------------------------------
(* SamplesComeThrough.                                                      *)

\* A number above all others comes last.
LEMMA AscendingGrows ==
    ASSUME NEW S, S \subseteq Nat, IsFiniteSet(S), NEW n \in Nat, \A m \in S : m < n
    PROVE  /\ S \cup {n} \subseteq Nat /\ IsFiniteSet(S \cup {n})
           /\ Cardinality(S \cup {n}) = Cardinality(S) + 1 /\ Cardinality(S) \in Nat
           /\ \A i \in 1 .. Cardinality(S) : Ascending(S \cup {n})[i] = Ascending(S)[i]
           /\ Ascending(S \cup {n})[Cardinality(S) + 1] = n
<1>1. PICK T : T = S \cup {n}
      OBVIOUS
<1>2. n \notin S /\ T \subseteq Nat
      BY <1>1
<1>3. IsFiniteSet(T) /\ Cardinality(T) = Cardinality(S) + 1 /\ Cardinality(S) \in Nat
      BY <1>1, <1>2, FS_AddElement, FS_CardinalityType
<1>4. ASSUME NEW i \in 1 .. Cardinality(S)
      PROVE  Ascending(T)[i] = Ascending(S)[i]
  <2>1. PICK k : k = Ascending(S)[i]
        OBVIOUS
  <2>2. k \in S /\ Cardinality({m \in S : m <= k}) = i
        BY <2>1, AscendingIn
  <2>3. k \in Nat /\ k < n
        BY <2>2
  <2>4. {m \in T : m <= k} = {m \in S : m <= k}
        BY <1>1, <2>3
  <2>5. Ascending(T)[Cardinality({m \in T : m <= k})] = k
        BY <1>1, <1>2, <1>3, <2>2, AscendingIs
  <2>6. QED
        BY <2>1, <2>2, <2>4, <2>5
<1>5. Ascending(T)[Cardinality(S) + 1] = n
  <2>1. {m \in T : m <= n} = T
    <3>1. \A m \in S : m \in Nat /\ m < n
          OBVIOUS
    <3>2. \A m \in T : m <= n
          BY <1>1, <3>1
    <3>3. QED
          BY <3>2
  <2>2. n \in T
        BY <1>1
  <2>3. Ascending(T)[Cardinality({m \in T : m <= n})] = n
        BY <1>2, <1>3, <2>2, AscendingIs
  <2>4. QED
        BY <1>3, <2>1, <2>3
<1>6. QED
      BY <1>1, <1>2, <1>3, <1>4, <1>5
\* A sequence with nothing after it or before it.
LEMMA JoinedNothing ==
    ASSUME NEW s, IsSequence(s)
    PROVE  s \o << >> = s /\ << >> \o s = s
<1>1. IsSequence(<< >>) /\ Len(<< >>) = 0
      BY DEF IsSequence
<1>2. PICK t, u : t = s \o << >> /\ u = << >> \o s
      OBVIOUS
<1>3. Len(s) \in Nat
      BY DEF IsSequence
<1>4. /\ IsSequence(t) /\ Len(t) = Len(s) /\ \A i \in 1 .. Len(s) : t[i] = s[i]
  <2>1. \A n \in Nat : n + 0 = n
        OBVIOUS
  <2>2. QED
        BY <1>1, <1>2, <1>3, <2>1, Joined
<1>5. /\ IsSequence(u) /\ Len(u) = Len(s) /\ \A i \in 1 .. Len(s) : u[i] = s[i]
  <2>1. /\ IsSequence(u) /\ Len(u) = 0 + Len(s)
        /\ \A i \in 0 + 1 .. 0 + Len(s) : u[i] = s[i - 0]
        BY <1>1, <1>2, Joined
  <2>2. \A n \in Nat : n + 0 = n /\ 0 + n = n /\ n - 0 = n
        OBVIOUS
  <2>3. \A i \in 1 .. Len(s) : i - 0 = i
        BY <1>3
  <2>4. QED
        BY <1>3, <2>1, <2>2, <2>3
<1>6. t = s
  <2>1. t = [i \in 1 .. Len(t) |-> t[i]] /\ s = [i \in 1 .. Len(s) |-> s[i]]
        BY <1>4 DEF IsSequence
  <2>2. QED
        BY <1>4, <2>1
<1>7. u = s
  <2>1. u = [i \in 1 .. Len(u) |-> u[i]] /\ s = [i \in 1 .. Len(s) |-> s[i]]
        BY <1>5 DEF IsSequence
  <2>2. QED
        BY <1>5, <2>1
<1>8. QED
      BY <1>2, <1>6, <1>7

\* One sequence more is put after the others.
LEMMA FlattenGrows ==
    ASSUME NEW s, NEW t, NEW L \in Nat, Len(s) = L, Len(t) = L + 1,
           \A i \in 1 .. L : t[i] = s[i], IsSequence(t[L + 1]), L = 0 => s = << >>
    PROVE  FlattenSeq(t) = FlattenSeq(s) \o t[L + 1]
<1>1. PICK g : /\ FlattenSeq(t) = g[L + 1]
               /\ \A i \in 1 .. L + 1 : g[i] = IF i = 1 THEN t[i] ELSE g[i - 1] \o t[i]
      BY FlattenDefined
<1>2. CASE L = 0
  <2>1. FlattenSeq(s) = << >>
        BY <1>2 DEF FlattenSeq
  <2>2. FlattenSeq(t) = t[L + 1]
        BY <1>1, <1>2
  <2>3. QED
        BY <2>1, <2>2, JoinedNothing
<1>3. CASE L # 0
  <2>1. PICK f : /\ FlattenSeq(s) = f[L]
                 /\ \A i \in 1 .. L : f[i] = IF i = 1 THEN s[i] ELSE f[i - 1] \o s[i]
        BY <1>3, FlattenDefined
  <2> DEFINE U == {i \in 1 .. L : g[i] # f[i]}
  <2>2. U = {}
    <3>1. SUFFICES ASSUME U # {} PROVE FALSE
          OBVIOUS
    <3>2. U \subseteq Nat
      <4>1. \A i \in 1 .. L : i \in Nat
            OBVIOUS
      <4>2. QED
            BY <4>1, Zenon
    <3>3. PICK i \in U : \A j \in U : ~(<<j, i>> \in OpToRel(<, Nat))
          BY <3>1, <3>2, NatLessThanWellFounded, WFMin
    <3>4. \A j \in U : ~(j < i)
          BY <3>2, <3>3 DEF OpToRel
    <3>5. i \in 1 .. L /\ i \in 1 .. L + 1 /\ g[i] # f[i]
          OBVIOUS
    <3>6. i # 1 => i - 1 \in 1 .. L /\ i - 1 < i
          BY <3>5
    <3>7. i # 1 => g[i - 1] = f[i - 1]
          BY <3>4, <3>6
    <3>8. /\ g[i] = IF i = 1 THEN t[i] ELSE g[i - 1] \o t[i]
          /\ f[i] = IF i = 1 THEN s[i] ELSE f[i - 1] \o s[i]
          BY <1>1, <2>1, <3>5
    <3>9. t[i] = s[i]
          BY <3>5
    <3>10. QED
           BY <3>5, <3>7, <3>8, <3>9
  <2>3. g[L] = f[L]
    <3>1. L \in 1 .. L
          BY <1>3
    <3>2. QED
          BY <2>2, <3>1
  <2>4. g[L + 1] = g[L] \o t[L + 1]
    <3>1. L + 1 \in 1 .. L + 1 /\ L + 1 # 1 /\ (L + 1) - 1 = L
          BY <1>3
    <3>2. g[L + 1] = g[(L + 1) - 1] \o t[L + 1]
          BY <1>1, <3>1
    <3>3. QED
          BY <3>1, <3>2
  <2>5. QED
        BY <1>1, <2>1, <2>3, <2>4
<1>4. QED
      BY <1>2, <1>3

\* What belongs to some numbers, put together in their order.
Joint(S, f) == FlattenSeq([i \in DOMAIN Ascending(S) |-> f[Ascending(S)[i]]])

\* Of no PID, nothing.
LEMMA JointNone ==
    ASSUME NEW f
    PROVE  Joint({}, f) = << >>
<1>1. PICK s : s = [i \in DOMAIN Ascending({}) |-> f[Ascending({})[i]]]
      OBVIOUS
<1>2. Cardinality({}) = 0
      BY FS_EmptySet
<1>3. DOMAIN s = 1 .. 0
      BY <1>1, <1>2 DEF Ascending
<1>4. s = << >>
  <2>1. s = [i \in 1 .. 0 |-> s[i]]
        BY <1>1, <1>3
  <2>2. \A i \in 1 .. 0 : FALSE
        OBVIOUS
  <2>3. QED
        BY <2>1, <2>2
<1>5. FlattenSeq(s) = << >>
      BY <1>4 DEF FlattenSeq
<1>6. QED
      BY <1>1, <1>5 DEF Joint

\* One PID more, above the others, appends its sample.
LEMMA JointGrows ==
    ASSUME NEW S, S \subseteq Nat, IsFiniteSet(S), NEW n \in Nat, \A m \in S : m < n,
           NEW f, IsSequence(f[n])
    PROVE  Joint(S \cup {n}, f) = Joint(S, f) \o f[n]
<1>1. PICK T, L, a, b : /\ T = S \cup {n} /\ L = Cardinality(S)
                        /\ a = Ascending(S) /\ b = Ascending(T)
      OBVIOUS
<1>2. /\ L \in Nat /\ Cardinality(T) = L + 1
      /\ \A i \in 1 .. L : b[i] = a[i]
      /\ b[L + 1] = n
      BY <1>1, AscendingGrows
<1>3. DOMAIN a = 1 .. L /\ DOMAIN b = 1 .. L + 1
      BY <1>1, <1>2 DEF Ascending
<1>4. PICK s, t : /\ s = [i \in 1 .. L |-> f[a[i]]]
                  /\ t = [i \in 1 .. L + 1 |-> f[b[i]]]
      OBVIOUS
<1>5. Len(s) = L /\ Len(t) = L + 1
      BY <1>2, <1>4
<1>6. \A i \in 1 .. L : t[i] = s[i]
  <2>1. \A i \in 1 .. L : i \in 1 .. L + 1
        BY <1>2
  <2>2. QED
        BY <1>2, <1>4, <2>1
<1>7. t[L + 1] = f[n]
  <2>1. L + 1 \in 1 .. L + 1
        BY <1>2
  <2>2. QED
        BY <1>2, <1>4, <2>1
<1>8. L = 0 => s = << >>
  <2>1. \A i \in 1 .. 0 : FALSE
        OBVIOUS
  <2>2. QED
        BY <1>4, <2>1
<1>9. FlattenSeq(t) = FlattenSeq(s) \o t[L + 1]
  <2>1. L \in Nat /\ IsSequence(t[L + 1])
        BY <1>2, <1>7
  <2>2. QED
        BY <1>5, <1>6, <1>8, <2>1, FlattenGrows
<1>10. Joint(S, f) = FlattenSeq(s) /\ Joint(T, f) = FlattenSeq(t)
       BY <1>1, <1>3, <1>4 DEF Joint
<1>11. QED
       BY <1>1, <1>7, <1>9, <1>10

\* It depends on what belongs to those numbers alone, and is made of the same.
LEMMA JointIn ==
    ASSUME NEW S, S \subseteq Nat, IsFiniteSet(S), NEW C, NEW f,
           \A m \in S : f[m] \in Seq(C)
    PROVE  Joint(S, f) \in Seq(C)
<1>1. CASE S = {}
  <2>1. << >> \in Seq(C)
        OBVIOUS
  <2>2. QED
        BY <1>1, <2>1, JointNone
<1>2. CASE S # {}
  <2>1. PICK L \in Nat : L = Cardinality(S) /\ L # 0
        BY <1>2, FS_EmptySet, FS_CardinalityType
  <2>2. PICK s : s = [i \in DOMAIN Ascending(S) |-> f[Ascending(S)[i]]]
        OBVIOUS
  <2>3. DOMAIN Ascending(S) = 1 .. L
        BY <2>1 DEF Ascending
  <2>4. Len(s) = L
        BY <2>2, <2>3
  <2>5. \A i \in 1 .. L : s[i] \in Seq(C)
    <3>1. SUFFICES ASSUME NEW i \in 1 .. L PROVE s[i] \in Seq(C)
          OBVIOUS
    <3>2. Ascending(S)[i] \in S
          BY <2>1, AscendingIn
    <3>3. s[i] = f[Ascending(S)[i]]
          BY <2>2, <2>3
    <3>4. QED
          BY <3>2, <3>3
  <2>6. FlattenSeq(s) \in Seq(C)
        BY <2>1, <2>4, <2>5, Flattened
  <2>7. QED
        BY <2>2, <2>6 DEF Joint
<1>3. QED
      BY <1>1, <1>2
\* The packets of PES packets that came on a PID.
Heard(pid, n) == {m \in (1 .. n - 1) \ lost : air[m].kind = "pes" /\ air[m].pid = pid}

\* The sample that a track holds.
Held(pid, pes) ==
    IF pes = None \/ pes.data = << >> THEN << >>
    ELSE << [pid |-> pid, data |-> Places(pes.data), dts |-> pes.dts, pts |-> pes.pts] >>

PesCell == ClearCells \cup NoiseCells

Carried == [m \in DOMAIN air |-> air[m].cells]

\* The packets that are collected came.
LEMMA CollectedIn ==
    ASSUME NEW pid, NEW n \in Nat
    PROVE  /\ Collected(pid, n) \subseteq Heard(pid, n)
           /\ Heard(pid, n) \subseteq 1 .. n - 1 /\ Heard(pid, n) \subseteq Nat
           /\ IsFiniteSet(Heard(pid, n)) /\ IsFiniteSet(Collected(pid, n))
<1>1. Heard(pid, n) \subseteq 1 .. n - 1
      BY DEF Heard
<1>2. Collected(pid, n) \subseteq Heard(pid, n)
      BY DEF Collected, Heard
<1>3. \A m \in 1 .. n - 1 : m \in Nat
      OBVIOUS
<1>4. IsFiniteSet(1 .. n - 1)
      BY FS_Interval
<1>5. IsFiniteSet(Heard(pid, n))
      BY <1>1, <1>4, FS_Subset
<1>6. IsFiniteSet(Collected(pid, n))
      BY <1>2, <1>5, FS_Subset
<1>7. QED
      BY <1>1, <1>2, <1>3, <1>5, <1>6

\* The same packets are collected of the same that came.
LEMMA CollectedSame ==
    ASSUME NEW pid, NEW n, NEW k, Heard(pid, k)' = Heard(pid, n),
           \A m \in Heard(pid, n) : air'[m] = air[m]
    PROVE  Collected(pid, k)' = Collected(pid, n)
<1>1. PICK H : H = Heard(pid, n)
      OBVIOUS
<1>2. PICK s, t : s = {m \in H : air[m].start} /\ t = {m \in H : air'[m].start}
      OBVIOUS
<1>3. s = t
      BY <1>1, <1>2
<1>4. Collected(pid, n) = IF s = {} THEN {} ELSE {m \in H : m >= Max(s)}
      BY <1>1, <1>2 DEF Collected, Heard
<1>5. Collected(pid, k)' = IF t = {} THEN {} ELSE {m \in H : m >= Max(t)}
  <2>1. H = Heard(pid, k)'
        BY <1>1
  <2>2. QED
        BY <1>2, <2>1 DEF Collected, Heard
<1>6. QED
      BY <1>3, <1>4, <1>5

\* The sample is that of the packets that are collected.
LEMMA SampleKept ==
    ASSUME NEW pid, NEW n, NEW k, Collected(pid, k)' = Collected(pid, n),
           Collected(pid, n) \subseteq Nat, IsFiniteSet(Collected(pid, n)),
           \A m \in Collected(pid, n) : air'[m] = air[m]
    PROVE  SampleUpTo(pid, k)' = SampleUpTo(pid, n)
<1>1. PICK C, p : C = Collected(pid, n) /\ p = Ascending(C)
      OBVIOUS
<1>2. DOMAIN p = 1 .. Cardinality(C) /\ Cardinality(C) \in Nat
      BY <1>1, FS_CardinalityType DEF Ascending
<1>3. \A i \in DOMAIN p : air'[p[i]] = air[p[i]]
      BY <1>1, <1>2, AscendingIn
<1>4. PICK s, t : /\ s = [i \in DOMAIN p |-> air[p[i]].cells]
                  /\ t = [i \in DOMAIN p |-> air'[p[i]].cells]
      OBVIOUS
<1>5. s = t
      BY <1>3, <1>4
<1>6. p = << >> \/ 1 \in DOMAIN p
  <2>1. CASE Cardinality(C) = 0
    <3>1. p = [i \in 1 .. 0 |-> p[i]]
          BY <1>1, <2>1 DEF Ascending
    <3>2. \A i \in 1 .. 0 : FALSE
          OBVIOUS
    <3>3. QED
          BY <3>1, <3>2
  <2>2. CASE Cardinality(C) # 0
        BY <1>2, <2>2
  <2>3. QED
        BY <2>1, <2>2
<1>7. SampleUpTo(pid, n) =
         IF p = << >> \/ air[p[1]].cells = << >> THEN << >>
         ELSE << [pid |-> pid, data |-> Places(FlattenSeq(s)), dts |-> air[p[1]].dts,
                  pts |-> air[p[1]].pts] >>
      BY <1>1, <1>4 DEF SampleUpTo
<1>8. SampleUpTo(pid, k)' =
         IF p = << >> \/ air'[p[1]].cells = << >> THEN << >>
         ELSE << [pid |-> pid, data |-> Places(FlattenSeq(t)), dts |-> air'[p[1]].dts,
                  pts |-> air'[p[1]].pts] >>
  <2>1. p = Ascending(Collected(pid, k)')
        BY <1>1
  <2>2. QED
        BY <1>4, <2>1 DEF SampleUpTo, Places
<1>9. QED
      BY <1>3, <1>5, <1>6, <1>7, <1>8

\* So it stays the same as long as no more packets come.
LEMMA SampleSame ==
    ASSUME NEW pid, NEW n \in Nat, NEW k, Heard(pid, k)' = Heard(pid, n),
           \A m \in Heard(pid, n) : air'[m] = air[m]
    PROVE  SampleUpTo(pid, k)' = SampleUpTo(pid, n)
<1>1. Collected(pid, k)' = Collected(pid, n)
      BY CollectedSame
<1>2. /\ Collected(pid, n) \subseteq Nat /\ IsFiniteSet(Collected(pid, n))
      /\ \A m \in Collected(pid, n) : air'[m] = air[m]
      BY CollectedIn
<1>3. QED
      BY <1>1, <1>2, SampleKept

\* Before the next packet as before any number equal to it.
LEMMA SampleAtNext ==
    ASSUME NEW pid, NEW k, k = next'
    PROVE  SampleUpTo(pid, next)' = SampleUpTo(pid, k)'
BY DEF SampleUpTo, Collected

\* It consists of what the packets carry, with the times of the first.
LEMMA SampleIs ==
    ASSUME NEW pid, NEW n, NEW C, C = Collected(pid, n), C \subseteq Nat, IsFiniteSet(C),
           C \subseteq DOMAIN air
    PROVE  /\ C = {} => SampleUpTo(pid, n) = << >>
           /\ C # {} =>
                 LET a == Ascending(C)[1]
                 IN  /\ a \in C
                     /\ SampleUpTo(pid, n) =
                           IF air[a].cells = << >> THEN << >>
                           ELSE << [pid |-> pid, data |-> Places(Joint(C, Carried)),
                                    dts |-> air[a].dts, pts |-> air[a].pts] >>
<1>1. PICK p : p = Ascending(C)
      OBVIOUS
<1>2. DOMAIN p = 1 .. Cardinality(C) /\ Cardinality(C) \in Nat
      BY <1>1, FS_CardinalityType DEF Ascending
<1>3. C = {} => p = << >>
  <2>1. SUFFICES ASSUME C = {} PROVE p = << >>
        OBVIOUS
  <2>2. Cardinality(C) = 0
        BY <2>1, FS_EmptySet
  <2>3. p = [i \in 1 .. 0 |-> p[i]]
        BY <1>1, <2>2 DEF Ascending
  <2>4. \A i \in 1 .. 0 : FALSE
        OBVIOUS
  <2>5. QED
        BY <2>3, <2>4
<1>4. C # {} => p # << >> /\ p[1] \in C
  <2>1. SUFFICES ASSUME C # {} PROVE p # << >> /\ p[1] \in C
        OBVIOUS
  <2>2. 1 \in 1 .. Cardinality(C)
        BY <1>2, <2>1, FS_EmptySet
  <2>3. DOMAIN << >> = {}
        OBVIOUS
  <2>4. p[1] \in C
        BY <1>1, <2>2, AscendingIn
  <2>5. QED
        BY <1>2, <2>2, <2>3, <2>4
<1>5. [i \in DOMAIN p |-> air[p[i]].cells] = [i \in DOMAIN p |-> Carried[p[i]]]
  <2>1. \A i \in DOMAIN p : p[i] \in DOMAIN air
        BY <1>1, <1>2, AscendingIn
  <2>2. \A i \in DOMAIN p : Carried[p[i]] = air[p[i]].cells
        BY <2>1 DEF Carried
  <2>3. QED
        BY <2>2
<1>6. SampleUpTo(pid, n) =
         IF p = << >> \/ air[p[1]].cells = << >> THEN << >>
         ELSE << [pid |-> pid,
                  data |-> Places(FlattenSeq([i \in DOMAIN p |-> air[p[i]].cells])),
                  dts |-> air[p[1]].dts, pts |-> air[p[1]].pts] >>
      BY <1>1 DEF SampleUpTo
<1>7. Joint(C, Carried) = FlattenSeq([i \in DOMAIN p |-> air[p[i]].cells])
      BY <1>1, <1>5 DEF Joint
<1>8. QED
      BY <1>1, <1>3, <1>4, <1>6, <1>7
\* What is collected starts over with a packet that begins one, and grows by
\* any other.
LEMMA CollectedMore ==
    ASSUME NEW n \in Nat \ {0}, n \notin lost, air[n].kind = "pes", NEW pid, pid = air[n].pid
    PROVE  /\ air[n].start => Collected(pid, n + 1) = {n}
           /\ ~air[n].start =>
                 Collected(pid, n + 1) = IF Collected(pid, n) = {} THEN {}
                                         ELSE Collected(pid, n) \cup {n}
<1>1. PICK H, I : H = Heard(pid, n) /\ I = Heard(pid, n + 1)
      OBVIOUS
<1>2. /\ H \subseteq 1 .. n - 1 /\ H \subseteq Nat /\ IsFiniteSet(H)
      /\ \A m \in H : m \in Nat /\ m < n
  <2>1. \A m \in 1 .. n - 1 : m \in Nat /\ m < n
        OBVIOUS
  <2>2. QED
        BY <1>1, <2>1, CollectedIn
<1>3. I = H \cup {n}
  <2>1. 1 .. (n + 1) - 1 = (1 .. n - 1) \cup {n}
        OBVIOUS
  <2>2. (1 .. (n + 1) - 1) \ lost = ((1 .. n - 1) \ lost) \cup {n}
        BY <2>1
  <2>3. QED
        BY <1>1, <2>2 DEF Heard
<1>4. PICK s, t : s = {m \in H : air[m].start} /\ t = {m \in I : air[m].start}
      OBVIOUS
<1>5. /\ Collected(pid, n) = IF s = {} THEN {} ELSE {m \in H : m >= Max(s)}
      /\ Collected(pid, n + 1) = IF t = {} THEN {} ELSE {m \in I : m >= Max(t)}
      BY <1>1, <1>4 DEF Collected, Heard
<1>6. CASE air[n].start
  <2>1. n \in t /\ t \in SUBSET Int /\ \A m \in t : m <= n
    <3>1. \A m \in I : m \in Int /\ m <= n
          BY <1>2, <1>3
    <3>2. n \in I /\ t \subseteq I
          BY <1>3, <1>4
    <3>3. QED
          BY <1>4, <1>6, <3>1, <3>2
  <2>2. Max(t) = n
        BY <2>1, LargestIs
  <2>3. \A m \in I : m >= n <=> m = n
        BY <1>2, <1>3
  <2>4. {m \in I : m >= n} = {n}
        BY <1>3, <2>3
  <2>5. QED
        BY <1>5, <1>6, <2>1, <2>2, <2>4
<1>7. CASE ~air[n].start
  <2>1. t = s
        BY <1>3, <1>4, <1>7
  <2>2. CASE s = {}
        BY <1>5, <1>7, <2>1, <2>2
  <2>3. CASE s # {}
    <3>1. PICK m : m = Max(s)
          OBVIOUS
    <3>2. m \in s /\ m \in Nat /\ m < n
      <4>1. PICK L \in Nat : L = n - 1
            OBVIOUS
      <4>2. s \subseteq 1 .. L
            BY <1>2, <1>4, <4>1
      <4>3. m \in s
            BY <2>3, <3>1, <4>2, FirstAndLast
      <4>4. QED
            BY <1>2, <1>4, <4>3
    <3>3. Collected(pid, n) = {k \in H : k >= m} /\ Collected(pid, n + 1) = {k \in I : k >= m}
          BY <1>5, <2>1, <2>3, <3>1
    <3>4. n >= m /\ m >= m
          BY <3>2
    <3>5. {k \in I : k >= m} = {k \in H : k >= m} \cup {n}
          BY <1>3, <3>4
    <3>6. m \in {k \in H : k >= m}
          BY <1>4, <3>2, <3>4
    <3>7. QED
          BY <1>7, <3>3, <3>5, <3>6
  <2>4. QED
        BY <2>2, <2>3
<1>8. QED
      BY <1>6, <1>7

\* One sequence after another is what it looks like.
LEMMA JoinedIs ==
    ASSUME NEW p, IsSequence(p), NEW q, IsSequence(q), NEW v, IsSequence(v),
           Len(v) = Len(p) + Len(q), \A i \in 1 .. Len(p) : v[i] = p[i],
           \A i \in Len(p) + 1 .. Len(p) + Len(q) : v[i] = q[i - Len(p)]
    PROVE  v = p \o q
<1>1. PICK u : u = p \o q
      OBVIOUS
<1>2. /\ IsSequence(u) /\ Len(u) = Len(p) + Len(q)
      /\ \A i \in 1 .. Len(p) : u[i] = p[i]
      /\ \A i \in Len(p) + 1 .. Len(p) + Len(q) : u[i] = q[i - Len(p)]
      BY <1>1, Joined
<1>3. PICK m \in Nat, l \in Nat : m = Len(p) /\ l = Len(q)
      BY DEF IsSequence
<1>4. ASSUME NEW i \in 1 .. m + l
      PROVE  u[i] = v[i]
  <2>1. i \in 1 .. m \/ i \in m + 1 .. m + l
        OBVIOUS
  <2>2. QED
        BY <1>2, <1>3, <2>1
<1>5. u = [i \in 1 .. m + l |-> u[i]] /\ v = [i \in 1 .. m + l |-> v[i]]
      BY <1>2, <1>3 DEF IsSequence
<1>6. QED
      BY <1>1, <1>4, <1>5

\* The places of cells that are put together.
LEMMA PlacesJoined ==
    ASSUME NEW s, IsSequence(s), NEW t, IsSequence(t)
    PROVE  Places(s \o t) = Places(s) \o Places(t)
<1>1. PICK u, v, p, q : u = s \o t /\ v = Places(u) /\ p = Places(s) /\ q = Places(t)
      OBVIOUS
<1>2. PICK m \in Nat, l \in Nat : /\ m = Len(s) /\ l = Len(t)
                                /\ DOMAIN s = 1 .. m /\ DOMAIN t = 1 .. l
      BY DEF IsSequence
<1>3. /\ DOMAIN u = 1 .. m + l
      /\ \A i \in 1 .. m : u[i] = s[i]
      /\ \A i \in m + 1 .. m + l : u[i] = t[i - m]
      BY <1>1, <1>2, Joined
<1>4. /\ IsSequence(p) /\ Len(p) = m
      /\ \A i \in 1 .. m : p[i] = <<s[i].pes, s[i].at>>
      BY <1>1, <1>2 DEF Places, IsSequence
<1>5. /\ IsSequence(q) /\ Len(q) = l
      /\ \A i \in 1 .. l : q[i] = <<t[i].pes, t[i].at>>
      BY <1>1, <1>2 DEF Places, IsSequence
<1>6. /\ IsSequence(v) /\ Len(v) = m + l
      /\ \A i \in 1 .. m + l : v[i] = <<u[i].pes, u[i].at>>
      BY <1>1, <1>3 DEF Places, IsSequence
<1>7. ASSUME NEW i \in 1 .. m
      PROVE  v[i] = p[i]
  <2>1. i \in 1 .. m + l
        OBVIOUS
  <2>2. v[i] = <<u[i].pes, u[i].at>>
        BY <1>6, <2>1, Zenon
  <2>3. p[i] = <<s[i].pes, s[i].at>> /\ u[i] = s[i]
        BY <1>3, <1>4, Zenon
  <2>4. QED
        BY <2>2, <2>3, Zenon
<1>8. ASSUME NEW i \in m + 1 .. m + l
      PROVE  v[i] = q[i - m]
  <2>1. i \in 1 .. m + l
        OBVIOUS
  <2>2. PICK k : k = i - m
        OBVIOUS
  <2>3. k \in 1 .. l
        BY <2>2
  <2>4. v[i] = <<u[i].pes, u[i].at>>
        BY <1>6, <2>1, Zenon
  <2>5. q[k] = <<t[k].pes, t[k].at>>
        BY <1>5, <2>3, Zenon
  <2>6. u[i] = t[k]
        BY <1>3, <2>2, Zenon
  <2>7. QED
        BY <2>2, <2>4, <2>5, <2>6, Zenon
<1>9. v = p \o q
      BY <1>4, <1>5, <1>6, <1>7, <1>8, JoinedIs
<1>10. QED
       BY <1>1, <1>9

\* A sample grows by what a packet carries.
LEMMA SampleMore ==
    ASSUME DOMAIN air = 1 .. Len(air), Len(air) \in Nat, NEW n \in DOMAIN air,
           \A m \in DOMAIN air : air[m].kind = "pes" => air[m].cells \in Seq(ClearCells),
           n \notin lost, air[n].kind = "pes", NEW pid, pid = air[n].pid
    PROVE  /\ air[n].start =>
                 SampleUpTo(pid, n + 1) =
                     IF air[n].cells = << >> THEN << >>
                     ELSE << [pid |-> pid, data |-> Places(air[n].cells),
                              dts |-> air[n].dts, pts |-> air[n].pts] >>
           /\ ~air[n].start /\ SampleUpTo(pid, n) = << >> => SampleUpTo(pid, n + 1) = << >>
           /\ \A sample :
                 ~air[n].start /\ SampleUpTo(pid, n) = <<sample>> =>
                     SampleUpTo(pid, n + 1) =
                         << [pid |-> pid, data |-> sample.data \o Places(air[n].cells),
                             dts |-> sample.dts, pts |-> sample.pts] >>
<1>1. n \in Nat \ {0} /\ n \in 1 .. Len(air) /\ (n + 1) - 1 = n
      OBVIOUS
<1>2. PICK C, D : C = Collected(pid, n) /\ D = Collected(pid, n + 1)
      OBVIOUS
<1>3. /\ C \subseteq 1 .. n - 1 /\ C \subseteq Nat /\ IsFiniteSet(C)
      /\ \A m \in C : air[m].kind = "pes"
  <2>1. /\ C \subseteq Heard(pid, n) /\ Heard(pid, n) \subseteq 1 .. n - 1
        /\ Heard(pid, n) \subseteq Nat /\ IsFiniteSet(C)
        BY <1>1, <1>2, CollectedIn
  <2>2. \A m \in Heard(pid, n) : air[m].kind = "pes"
        BY DEF Heard
  <2>3. QED
        BY <2>1, <2>2
<1>4. \A m \in C : m \in DOMAIN air /\ m < n
  <2>1. \A m \in 1 .. n - 1 : m \in 1 .. Len(air) /\ m < n
        BY <1>1
  <2>2. QED
        BY <1>3, <2>1
<1>5. Carried[n] = air[n].cells /\ Carried[n] \in Seq(ClearCells) /\ IsSequence(Carried[n])
  <2>1. Carried[n] = air[n].cells
        BY DEF Carried
  <2>2. \A c \in Seq(ClearCells) : IsSequence(c)
        BY DEF IsSequence
  <2>3. QED
        BY <2>1, <2>2
<1>6. CASE air[n].start
  <2>1. D = {n}
        BY <1>1, <1>2, <1>6, CollectedMore
  <2>2. Joint(D, Carried) = Carried[n]
    <3>1. {} \subseteq Nat /\ IsFiniteSet({}) /\ \A m \in {} : m < n
          BY FS_EmptySet
    <3>2. Joint({} \cup {n}, Carried) = Joint({}, Carried) \o Carried[n]
          BY <1>1, <1>5, <3>1, JointGrows
    <3>3. {} \cup {n} = D
          BY <2>1
    <3>4. QED
          BY <1>5, <3>2, <3>3, JointNone, JoinedNothing
  <2>3. D # {} /\ D \subseteq Nat /\ IsFiniteSet(D) /\ D \subseteq DOMAIN air
        BY <1>1, <2>1, FS_Singleton
  <2>4. PICK a : a = Ascending(D)[1]
        OBVIOUS
  <2>5. /\ a \in D
        /\ SampleUpTo(pid, n + 1) =
               IF air[a].cells = << >> THEN << >>
               ELSE << [pid |-> pid, data |-> Places(Joint(D, Carried)),
                        dts |-> air[a].dts, pts |-> air[a].pts] >>
        BY <1>2, <2>3, <2>4, SampleIs
  <2>6. a = n
        BY <2>1, <2>5
  <2>7. QED
        BY <1>5, <1>6, <2>2, <2>5, <2>6
<1>7. CASE ~air[n].start
  <2>1. D = IF C = {} THEN {} ELSE C \cup {n}
        BY <1>1, <1>2, <1>7, CollectedMore
  <2>2. C \subseteq DOMAIN air
        BY <1>4
  <2>3. CASE C = {}
    <3>1. /\ D = {} /\ D \subseteq Nat /\ IsFiniteSet(D) /\ D \subseteq DOMAIN air
          BY <2>1, <2>3, FS_EmptySet
    <3>2. SampleUpTo(pid, n) = << >> /\ SampleUpTo(pid, n + 1) = << >>
          BY <1>2, <1>3, <2>2, <2>3, <3>1, SampleIs
    <3>3. \A sample : << >> # <<sample>>
          OBVIOUS
    <3>4. QED
          BY <1>7, <3>2, <3>3
  <2>4. CASE C # {}
    <3>1. D = C \cup {n} /\ D # {} /\ D \subseteq Nat /\ D \subseteq DOMAIN air
          BY <1>1, <1>3, <2>1, <2>2, <2>4
    <3>2. /\ IsFiniteSet(D)
          /\ \A i \in 1 .. Cardinality(C) : Ascending(D)[i] = Ascending(C)[i]
      <4>1. n \in Nat /\ C \subseteq Nat /\ IsFiniteSet(C) /\ \A m \in C : m < n
            BY <1>1, <1>3, <1>4
      <4>2. /\ IsFiniteSet(C \cup {n})
            /\ \A i \in 1 .. Cardinality(C) : Ascending(C \cup {n})[i] = Ascending(C)[i]
            BY <4>1, AscendingGrows
      <4>3. QED
            BY <3>1, <4>2
    <3>3. 1 \in 1 .. Cardinality(C)
      <4>1. Cardinality(C) \in Nat /\ Cardinality(C) # 0
            BY <1>3, <2>4, FS_EmptySet, FS_CardinalityType
      <4>2. QED
            BY <4>1
    <3>4. PICK a : a = Ascending(C)[1]
          OBVIOUS
    <3>5. a = Ascending(D)[1]
          BY <3>2, <3>3, <3>4
    <3>6. /\ a \in C
          /\ SampleUpTo(pid, n) =
                 IF air[a].cells = << >> THEN << >>
                 ELSE << [pid |-> pid, data |-> Places(Joint(C, Carried)),
                          dts |-> air[a].dts, pts |-> air[a].pts] >>
          BY <1>2, <1>3, <2>2, <2>4, <3>4, SampleIs
    <3>7. SampleUpTo(pid, n + 1) =
             IF air[a].cells = << >> THEN << >>
             ELSE << [pid |-> pid, data |-> Places(Joint(D, Carried)),
                      dts |-> air[a].dts, pts |-> air[a].pts] >>
      <4>1. PICK b : b = Ascending(D)[1]
            OBVIOUS
      <4>2. SampleUpTo(pid, n + 1) =
               IF air[b].cells = << >> THEN << >>
               ELSE << [pid |-> pid, data |-> Places(Joint(D, Carried)),
                        dts |-> air[b].dts, pts |-> air[b].pts] >>
        <5>1. /\ D = Collected(pid, n + 1) /\ D # {} /\ D \subseteq Nat /\ IsFiniteSet(D)
              /\ D \subseteq DOMAIN air
              BY <1>2, <3>1, <3>2
        <5>2. QED
              BY <4>1, <5>1, SampleIs
      <4>3. b = a
            BY <3>5, <4>1
      <4>4. QED
            BY <4>2, <4>3
    <3>8. Joint(D, Carried) = Joint(C, Carried) \o Carried[n]
          BY <1>1, <1>3, <1>4, <1>5, <3>1, JointGrows
    <3>9. IsSequence(Joint(C, Carried))
      <4>1. \A m \in C : Carried[m] \in Seq(ClearCells)
            BY <1>3, <2>2 DEF Carried
      <4>2. Joint(C, Carried) \in Seq(ClearCells)
            BY <1>3, <4>1, JointIn
      <4>3. QED
            BY <4>2 DEF IsSequence
    <3>10. Places(Joint(D, Carried)) = Places(Joint(C, Carried)) \o Places(air[n].cells)
           BY <1>5, <3>8, <3>9, PlacesJoined
    <3>11. CASE air[a].cells = << >>
      <4>1. \A sample : << >> # <<sample>>
            OBVIOUS
      <4>2. QED
            BY <1>7, <3>6, <3>7, <3>11, <4>1
    <3>12. CASE air[a].cells # << >>
      <4>1. PICK d : d = Places(Joint(C, Carried))
            OBVIOUS
      <4>2. PICK one : one = [pid |-> pid, data |-> d, dts |-> air[a].dts, pts |-> air[a].pts]
            OBVIOUS
      <4>3. SampleUpTo(pid, n) = <<one>>
            BY <3>6, <3>12, <4>1, <4>2
      <4>4. \A sample : <<one>> = <<sample>> => sample = one
            OBVIOUS
      <4>5. one.data = d /\ one.dts = air[a].dts /\ one.pts = air[a].pts
            BY <4>2
      <4>6. SampleUpTo(pid, n + 1) =
               << [pid |-> pid, data |-> d \o Places(air[n].cells),
                   dts |-> air[a].dts, pts |-> air[a].pts] >>
            BY <3>7, <3>10, <3>12, <4>1
      <4>7. <<one>> # << >>
            OBVIOUS
      <4>8. QED
            BY <1>7, <4>3, <4>4, <4>5, <4>6, <4>7
    <3>13. QED
           BY <3>11, <3>12
  <2>5. QED
        BY <2>3, <2>4
<1>8. QED
      BY <1>6, <1>7
\* While packets come, a track holds the sample up to the next.
PesInv ==
    /\ lost \subseteq 1 .. next - 1
    /\ tracks \in [Pids -> PesBuffers \cup {None}]
    /\ ~ended =>
          /\ next <= Len(air) + 1
          /\ \A pid \in Pids : SampleUpTo(pid, next) = Held(pid, tracks[pid])

\* What PesInv and AirInv say of the packets' numbers.
LEMMA AirIs ==
    ASSUME MuxerInv, AirInv
    PROVE  /\ Len(air) \in Nat /\ DOMAIN air = 1 .. Len(air) /\ next \in Nat \ {0}
           /\ \A n \in DOMAIN air : Fits(air[n])
<1>1. CASE broadcast.samples = << >>
  <2>1. air = broadcast.packets /\ broadcast \in Broadcasts
        BY <1>1 DEF AirInv
  <2>2. Len(air) \in Nat /\ DOMAIN air = 1 .. Len(air)
        BY <2>1, BroadcastAssumption
  <2>3. QED
        BY <2>2 DEF AirInv
<1>2. CASE broadcast.samples # << >>
  <2>1. Len(air) \in Nat /\ DOMAIN air = 1 .. Len(air)
        BY <1>2 DEF MuxerInv, IsSequence
  <2>2. QED
        BY <2>1 DEF AirInv
<1>3. QED
      BY <1>1, <1>2

\* Nothing has come, and nothing is held.
LEMMA PesStart == Init => PesInv /\ SamplesComeThrough
<1> SUFFICES ASSUME Init PROVE PesInv /\ SamplesComeThrough
      OBVIOUS
<1>1. /\ next = 1 /\ lost = {} /\ tracks = [pid \in Pids |-> None]
      BY DEF Init, DemuxerInit
<1>2. Len(air) \in Nat /\ DOMAIN air = 1 .. Len(air)
      BY MuxerStart, AirStart, AirIs
<1>3. ASSUME NEW pid \in Pids
      PROVE  SampleUpTo(pid, next) = Held(pid, tracks[pid])
  <2>1. Collected(pid, 1) \subseteq 1 .. 1 - 1
        BY CollectedIn
  <2>2. 1 .. 1 - 1 = {}
        OBVIOUS
  <2>3. PICK C : C = Collected(pid, 1)
        OBVIOUS
  <2>4. C = {} /\ C \subseteq Nat /\ IsFiniteSet(C) /\ C \subseteq DOMAIN air
        BY <2>1, <2>2, <2>3, FS_EmptySet
  <2>5. SampleUpTo(pid, 1) = << >>
        BY <2>3, <2>4, SampleIs
  <2>6. QED
        BY <1>1, <2>5 DEF Held
<1>4. PesInv
      BY <1>1, <1>2, <1>3 DEF PesInv
<1>5. SamplesComeThrough
  <2>1. Current = 0
        BY <1>1 DEF Current
  <2>2. Current \notin DOMAIN air /\ Current # Len(air) + 1
        BY <1>2, <2>1
  <2>3. QED
        BY <2>2 DEF SamplesComeThrough, Received
<1>6. QED
      BY <1>4, <1>5

\* Nothing is begun in a track that was just added.
LEMMA HeldNothing ==
    ASSUME NEW pid
    PROVE  Held(pid, NoPes) = << >> /\ Held(pid, None) = << >> /\ NoPes \in PesBuffers
<1>1. NoPes.data = << >> /\ NoPes \in PesBuffers
  <2>1. << >> \in Seq(ClearCells \cup NoiseCells)
        OBVIOUS
  <2>2. QED
        BY <2>1 DEF NoPes, PesBuffers
<1>2. QED
      BY <1>1 DEF Held

\* A packet that is lost, or not of a PES packet.
LEMMA PesQuiet ==
    ASSUME MuxerInv, AirInv, PesInv, CanRead,
           air' = air, next' = next + 1, lost' = lost \/ lost' = lost \cup {next},
           next \in lost' \/ air[next].kind # "pes",
           tracks' = [pid \in Pids |-> tracks'[pid]],
           \A pid \in Pids : tracks'[pid] = tracks[pid]
                              \/ (tracks[pid] = None /\ tracks'[pid] = NoPes)
    PROVE  PesInv' /\ SamplesComeThrough'
<1>1. /\ next \in Nat \ {0} /\ Len(air) \in Nat /\ DOMAIN air = 1 .. Len(air)
      /\ next \in 1 .. Len(air) /\ ~ended
      BY AirIs DEF CanRead
<1>2. lost \subseteq 1 .. next - 1 /\ tracks \in [Pids -> PesBuffers \cup {None}]
      BY DEF PesInv
<1>3. PICK k : k = next'
      OBVIOUS
<1>4. ASSUME NEW pid \in Pids
      PROVE  SampleUpTo(pid, k)' = Held(pid, tracks'[pid])
  <2>1. Heard(pid, k)' = Heard(pid, next)
    <3>1. (1 .. k - 1) \ lost' = IF next \in lost' THEN (1 .. next - 1) \ lost
                                ELSE ((1 .. next - 1) \ lost) \cup {next}
      <4>1. 1 .. k - 1 = (1 .. next - 1) \cup {next} /\ next \notin 1 .. next - 1
            BY <1>1, <1>3
      <4>2. QED
            BY <1>2, <4>1
    <3>2. Heard(pid, k)' = {m \in (1 .. k - 1) \ lost' : air[m].kind = "pes" /\ air[m].pid = pid}
          BY DEF Heard
    <3>3. QED
          BY <3>1, <3>2 DEF Heard
  <2>2. \A m \in Heard(pid, next) : air'[m] = air[m]
        OBVIOUS
  <2>3. SampleUpTo(pid, k)' = SampleUpTo(pid, next)
        BY <1>1, <2>1, <2>2, SampleSame
  <2>4. SampleUpTo(pid, next) = Held(pid, tracks[pid])
        BY <1>1 DEF PesInv
  <2>5. QED
        BY <2>3, <2>4, HeldNothing
<1>5. PesInv'
  <2>1. lost' \subseteq 1 .. next' - 1
    <3>1. 1 .. next' - 1 = (1 .. next - 1) \cup {next}
          BY <1>1
    <3>2. QED
          BY <1>2, <3>1
  <2>2. tracks' \in [Pids -> PesBuffers \cup {None}]
        BY <1>2, HeldNothing
  <2>3. next' <= Len(air') + 1
        BY <1>1
  <2>4. \A pid \in Pids : SampleUpTo(pid, next)' = Held(pid, tracks[pid])'
    <3>1. SUFFICES ASSUME NEW pid \in Pids
                   PROVE  SampleUpTo(pid, next)' = Held(pid, tracks[pid])'
          OBVIOUS
    <3>2. SampleUpTo(pid, next)' = SampleUpTo(pid, k)'
          BY <1>3, SampleAtNext
    <3>3. Held(pid, tracks[pid])' = Held(pid, tracks'[pid])
          BY DEF Held, Places
    <3>4. QED
          BY <1>4, <3>2, <3>3
  <2>5. QED
        BY <2>1, <2>2, <2>3, <2>4 DEF PesInv
<1>6. SamplesComeThrough'
  <2>1. Current' = next
        BY <1>1 DEF Current
  <2>2. Current' # Len(air') + 1
        BY <1>1, <2>1
  <2>3. ~(Received' /\ air'[Current'].kind = "pes")
        BY <2>1 DEF Received
  <2>4. QED
        BY <2>2, <2>3 DEF SamplesComeThrough
<1>7. QED
      BY <1>5, <1>6
Outlines(samples) == [i \in DOMAIN samples |-> Outline(samples[i])]

\* What a track gives is what it holds.
LEMMA GivenIsHeld ==
    ASSUME NEW pid \in Tracks
    PROVE  /\ IsSequence(Finished(pid))
           /\ IsSequence(Held(pid, tracks[pid]))
           /\ Outlines(Finished(pid)) = Held(pid, tracks[pid])
<1>1. PICK pes : pes = tracks[pid] /\ pes # None
      BY DEF Tracks
<1>2. IsSequence(<< >>) /\ \A x : IsSequence(<<x>>)
      BY DEF IsSequence
<1>3. CASE pes.data = << >>
  <2>1. Finished(pid) = << >> /\ Held(pid, tracks[pid]) = << >>
        BY <1>1, <1>3 DEF Finished, Held
  <2>2. Outlines(<< >>) = << >>
    <3>1. DOMAIN << >> = {}
          OBVIOUS
    <3>2. Outlines(<< >>) = [i \in {} |-> Outline(<< >>[i])]
          BY <3>1 DEF Outlines
    <3>3. << >> = [i \in {} |-> Outline(<< >>[i])]
          OBVIOUS
    <3>4. QED
          BY <3>2, <3>3
  <2>3. QED
        BY <1>2, <2>1, <2>2
<1>4. CASE pes.data # << >>
  <2>1. PICK sample, outline :
           /\ sample = [pid |-> pid, data |-> pes.data, dts |-> pes.dts, pts |-> pes.pts]
           /\ outline = [pid |-> pid, data |-> Places(pes.data), dts |-> pes.dts,
                         pts |-> pes.pts]
        OBVIOUS
  <2>2. Finished(pid) = <<sample>> /\ Held(pid, tracks[pid]) = <<outline>>
        BY <1>1, <1>4, <2>1 DEF Finished, Held, Sample
  <2>3. Outline(sample) = outline
    <3>1. Outline(sample) = [sample EXCEPT !.data = Places(pes.data)]
          BY <2>1 DEF Outline
    <3>2. QED
          BY <2>1, <3>1
  <2>4. Outlines(<<sample>>) = <<outline>>
    <3>1. DOMAIN <<sample>> = 1 .. 1 /\ <<sample>>[1] = sample
          OBVIOUS
    <3>2. \A i \in 1 .. 1 : i = 1
          OBVIOUS
    <3>3. Outlines(<<sample>>) = [i \in 1 .. 1 |-> outline]
          BY <2>3, <3>1, <3>2 DEF Outlines
    <3>4. <<outline>> = [i \in 1 .. 1 |-> outline]
          OBVIOUS
    <3>5. QED
          BY <3>3, <3>4
  <2>5. QED
        BY <1>2, <2>2, <2>4
<1>5. QED
      BY <1>3, <1>4

\* Descrambled or garbled, the payload holds the cells of the packet.
LEMMA PayloadIs ==
    ASSUME NEW packet, packet.cells \in Seq(ClearCells)
    PROVE  /\ Payload(packet) \in Seq(PesCell)
           /\ Places(Payload(packet)) = Places(packet.cells)
           /\ Payload(packet) = << >> <=> packet.cells = << >>
<1>1. PICK c, p : c = packet.cells /\ p = Payload(packet)
      OBVIOUS
<1>2. c \in Seq(ClearCells) /\ Len(c) \in Nat /\ DOMAIN c = 1 .. Len(c)
      BY <1>1
<1>3. \A i \in DOMAIN c : c[i] \in ClearCells
      BY <1>2
<1>4. p = c \/ p = Garbled(c)
      BY <1>1 DEF Payload
<1>5. CASE p = c
  <2>1. \A i \in DOMAIN c : c[i] \in PesCell
    <3>1. \A cell \in ClearCells : cell \in PesCell
          BY DEF PesCell
    <3>2. QED
          BY <1>3, <3>1
  <2>2. c \in Seq(PesCell)
        BY <1>2, <2>1
  <2>3. QED
        BY <1>1, <1>5, <2>2
<1>6. CASE p = Garbled(c)
  <2>1. p = [i \in 1 .. Len(c) |-> [c[i] EXCEPT !.code = "noise"]]
        BY <1>2, <1>6 DEF Garbled
  <2>2. \A cell \in ClearCells :
           /\ [cell EXCEPT !.code = "noise"] \in PesCell
           /\ [cell EXCEPT !.code = "noise"].pes = cell.pes
           /\ [cell EXCEPT !.code = "noise"].at = cell.at
    <3>1. SUFFICES ASSUME NEW cell \in ClearCells
                   PROVE  /\ [cell EXCEPT !.code = "noise"] \in PesCell
                          /\ [cell EXCEPT !.code = "noise"].pes = cell.pes
                          /\ [cell EXCEPT !.code = "noise"].at = cell.at
          OBVIOUS
    <3>2. cell = [pes |-> cell.pes, at |-> cell.at, code |-> cell.code, value |-> cell.value]
          /\ cell.pes \in Nat /\ cell.at \in Nat /\ cell.value \in Nat
          BY DEF ClearCells
    <3>3. PICK e \in Nat, a \in Nat, v \in Nat : e = cell.pes /\ a = cell.at /\ v = cell.value
          BY <3>2
    <3>4. PICK noise : noise = [pes |-> e, at |-> a, code |-> "noise", value |-> v]
          OBVIOUS
    <3>5. [cell EXCEPT !.code = "noise"] = noise
          BY <3>2, <3>3, <3>4
    <3>6. noise \in PesCell
          BY <3>4 DEF PesCell, NoiseCells
    <3>7. noise.pes = e /\ noise.at = a
          BY <3>4
    <3>8. QED
          BY <3>3, <3>5, <3>6, <3>7
  <2>3. \A i \in 1 .. Len(c) : p[i] \in PesCell /\ p[i].pes = c[i].pes /\ p[i].at = c[i].at
        BY <1>2, <1>3, <2>1, <2>2
  <2>4. p \in Seq(PesCell) /\ DOMAIN p = 1 .. Len(c) /\ Len(p) = Len(c)
    <3>1. p = [i \in 1 .. Len(c) |-> p[i]]
          BY <2>1
    <3>2. QED
          BY <1>2, <2>3, <3>1
  <2>5. Places(p) = Places(c)
        BY <1>2, <2>3, <2>4 DEF Places
  <2>6. p = << >> <=> c = << >>
        BY <1>2, <2>4
  <2>7. QED
        BY <1>1, <2>4, <2>5, <2>6
<1>7. QED
      BY <1>4, <1>5, <1>6

\* A packet of a PES packet.
LEMMA PesRead ==
    ASSUME MuxerInv, AirInv, PesInv, ReceivePes
    PROVE  PesInv' /\ SamplesComeThrough'
<1> DEFINE packet == air[next]
<1>1. /\ next \in Nat \ {0} /\ Len(air) \in Nat /\ DOMAIN air = 1 .. Len(air)
      /\ next \in 1 .. Len(air) /\ ~ended
      /\ \A n \in DOMAIN air : Fits(air[n])
      BY AirIs DEF ReceivePes, CanRead
<1>2. /\ CanRead /\ ReadPesPacket(packet) /\ packet.kind = "pes"
      /\ next' = next + 1 /\ air' = air
      /\ lost' = IF Unreadable(packet) THEN lost \cup {next} ELSE lost
      BY DEF ReceivePes, Advance, ReadPesPacket
<1>3. lost \subseteq 1 .. next - 1 /\ tracks \in [Pids -> PesBuffers \cup {None}]
      BY DEF PesInv
<1>4. CASE Unreadable(packet)
  <2>1. tracks' = tracks
        BY <1>2, <1>4 DEF ReadPesPacket
  <2>2. tracks' = [pid \in Pids |-> tracks'[pid]]
        BY <1>3, <2>1
  <2>3. QED
        BY <1>2, <1>4, <2>1, <2>2, PesQuiet
<1>5. CASE ~Unreadable(packet)
  <2>1. PICK n, pid, pes : n = next /\ pid = packet.pid /\ pes = tracks[pid]
        OBVIOUS
  <2>2. /\ lost' = lost /\ n \notin lost /\ n \in DOMAIN air /\ next' = n + 1
        /\ n \in Nat \ {0} /\ n \notin 1 .. n - 1
        BY <1>1, <1>2, <1>3, <1>5, <2>1
  <2>3. /\ pid \in Pids /\ pid \in Tracks /\ pes # None /\ pes \in PesBuffers
    <3>1. packet.pid \in Tracks
          BY <1>5 DEF Unreadable
    <3> HIDE DEF packet
    <3>2. pid \in Pids /\ pes # None
          BY <2>1, <3>1 DEF Tracks
    <3>3. QED
          BY <1>3, <2>1, <3>1, <3>2
  <2>4. PICK payload : payload = Payload(packet)
        OBVIOUS
  <2>5. PICK cells : cells = packet.cells
        OBVIOUS
  <2>6. /\ cells \in Seq(ClearCells) /\ payload \in Seq(PesCell)
        /\ Places(payload) = Places(cells) /\ (payload = << >> <=> cells = << >>)
        /\ packet.dts \in Nat \cup {None} /\ packet.pts \in Nat \cup {None}
    <3>1. Fits(packet)
          BY <1>1
    <3> HIDE DEF packet
    <3>2. /\ packet.cells \in Seq(ClearCells)
          /\ packet.dts \in Nat \cup {None} /\ packet.pts \in Nat \cup {None}
          BY <1>2, <3>1 DEF Fits
    <3>3. QED
          BY <2>4, <2>5, <3>2, PayloadIs
  <2>7. SampleUpTo(pid, n) = Held(pid, pes)
        BY <1>1, <2>1, <2>3 DEF PesInv
  <2>8. /\ packet.start =>
              SampleUpTo(pid, n + 1) =
                  IF cells = << >> THEN << >>
                  ELSE << [pid |-> pid, data |-> Places(cells),
                           dts |-> packet.dts, pts |-> packet.pts] >>
        /\ ~packet.start /\ SampleUpTo(pid, n) = << >> => SampleUpTo(pid, n + 1) = << >>
        /\ \A sample :
              ~packet.start /\ SampleUpTo(pid, n) = <<sample>> =>
                  SampleUpTo(pid, n + 1) =
                      << [pid |-> pid, data |-> sample.data \o Places(cells),
                          dts |-> sample.dts, pts |-> sample.pts] >>
    <3>1. \A m \in DOMAIN air : air[m].kind = "pes" => air[m].cells \in Seq(ClearCells)
          BY <1>1 DEF Fits
    <3>2. packet = air[n] /\ air[n].kind = "pes" /\ pid = air[n].pid /\ cells = air[n].cells
          BY <1>2, <2>1, <2>5
    <3> HIDE DEF packet
    <3>3. QED
          BY <1>1, <2>2, <3>1, <3>2, SampleMore
  \* The track of the packet holds what comes up to the next one.
  <2>9. PICK new : /\ new \in PesBuffers /\ tracks' = [tracks EXCEPT ![pid] = new]
                   /\ SampleUpTo(pid, n + 1) = Held(pid, new)
                   /\ packet.start => out'.samples = Finished(pid)
    <3>1. CASE StartPes(packet)
      <4>1. PICK new : new = [data |-> payload, dts |-> packet.dts, pts |-> packet.pts]
            OBVIOUS
      <4>2. packet.start /\ tracks' = [tracks EXCEPT ![pid] = new]
            /\ out' = [Nothing EXCEPT !.samples = Finished(pid)]
            BY <2>1, <2>4, <3>1, <4>1 DEF StartPes
      <4>3. out'.samples = Finished(pid)
            BY <4>2 DEF Nothing
      <4> HIDE DEF packet
      <4>4. new \in PesBuffers
            BY <2>6, <4>1 DEF PesBuffers, PesCell
      <4>5. new # None
            BY <4>4, M2tsAssumption
      <4>6. /\ new.data = payload /\ new.dts = packet.dts /\ new.pts = packet.pts
            BY <4>1
      <4>7. Held(pid, new) = IF payload = << >> THEN << >>
                             ELSE << [pid |-> pid, data |-> Places(payload),
                                      dts |-> packet.dts, pts |-> packet.pts] >>
            BY <4>5, <4>6 DEF Held
      <4>8. SampleUpTo(pid, n + 1) = Held(pid, new)
            BY <2>6, <2>8, <4>2, <4>7
      <4>9. QED
            BY <4>2, <4>3, <4>4, <4>8
    <3>2. CASE ContinuePes(packet) /\ pes.data = << >>
      <4>1. ~packet.start /\ tracks' = tracks
            BY <2>1, <3>2 DEF ContinuePes
      <4>2. tracks = [tracks EXCEPT ![pid] = pes]
            BY <1>3, <2>1, <2>3
      <4>3. Held(pid, pes) = << >>
            BY <3>2 DEF Held
      <4>4. SampleUpTo(pid, n + 1) = << >>
            BY <2>7, <2>8, <4>1, <4>3
      <4>5. QED
            BY <2>3, <4>1, <4>2, <4>3, <4>4
    <3>3. CASE ContinuePes(packet) /\ pes.data # << >>
      <4>1. PICK new : new = [pes EXCEPT !.data = pes.data \o payload]
            OBVIOUS
      <4>2. ~packet.start /\ tracks' = [tracks EXCEPT ![pid] = new]
        <5>1. ~packet.start /\ tracks' = [tracks EXCEPT ![pid].data = @ \o payload]
              BY <2>1, <2>4, <3>3 DEF ContinuePes
        <5>2. QED
              BY <2>1, <4>1, <5>1
      <4>3. pes.data \in Seq(PesCell)
            BY <2>3 DEF PesBuffers, PesCell
      <4>4. /\ pes.data \o payload \in Seq(PesCell)
            /\ pes.data \o payload # << >>
            /\ IsSequence(pes.data) /\ IsSequence(payload)
        <5>1. PICK d : d = pes.data
              OBVIOUS
        <5>2. d \in Seq(PesCell) /\ d # << >> /\ payload \in Seq(PesCell)
              BY <2>6, <3>3, <4>3, <5>1
        <5>3. /\ d \o payload \in Seq(PesCell) /\ Len(d \o payload) = Len(d) + Len(payload)
              /\ Len(d) \in Nat \ {0} /\ Len(payload) \in Nat
              BY <5>2
        <5>4. d \o payload # << >>
              BY <5>3
        <5>5. IsSequence(d) /\ IsSequence(payload)
              BY <5>2 DEF IsSequence
        <5>6. QED
              BY <5>1, <5>3, <5>4, <5>5
      <4>5. new \in PesBuffers /\ new.data = pes.data \o payload
            /\ new.dts = pes.dts /\ new.pts = pes.pts
            BY <2>3, <4>1, <4>4 DEF PesBuffers, PesCell
      <4>6. new # None
            BY <4>5, M2tsAssumption
      <4>7. Places(new.data) = Places(pes.data) \o Places(cells)
        <5>1. PICK d : d = pes.data
              OBVIOUS
        <5>2. IsSequence(d) /\ IsSequence(payload)
              BY <4>4, <5>1
        <5>3. Places(d \o payload) = Places(d) \o Places(payload)
              BY <5>2, PlacesJoined
        <5>4. new.data = d \o payload
              BY <4>5, <5>1
        <5>5. QED
              BY <2>6, <5>1, <5>3, <5>4
      <4>8. PICK sample : sample = [pid |-> pid, data |-> Places(pes.data),
                                    dts |-> pes.dts, pts |-> pes.pts]
            OBVIOUS
      <4>9. Held(pid, pes) = <<sample>>
            BY <2>3, <3>3, <4>8 DEF Held
      <4>10. SampleUpTo(pid, n + 1) =
                << [pid |-> pid, data |-> sample.data \o Places(cells),
                    dts |-> sample.dts, pts |-> sample.pts] >>
             BY <2>7, <2>8, <4>2, <4>9
      <4>11. Held(pid, new) = << [pid |-> pid, data |-> Places(new.data),
                                  dts |-> new.dts, pts |-> new.pts] >>
             BY <4>4, <4>5, <4>6 DEF Held
      <4>12. /\ sample.data = Places(pes.data)
             /\ sample.dts = pes.dts /\ sample.pts = pes.pts
             BY <4>8
      <4>13. SampleUpTo(pid, n + 1) = Held(pid, new)
             BY <4>5, <4>7, <4>10, <4>11, <4>12
      <4>14. QED
             BY <4>2, <4>5, <4>13
    <3>4. QED
          BY <1>2, <1>5, <3>1, <3>2, <3>3 DEF ReadPesPacket
  <2>10. tracks' = [q \in Pids |-> IF q = pid THEN new ELSE tracks[q]]
    <3>1. DOMAIN tracks = Pids
          BY <1>3
    <3>2. [tracks EXCEPT ![pid] = new] = [q \in DOMAIN tracks |-> IF q = pid THEN new ELSE tracks[q]]
          OBVIOUS
    <3>3. QED
          BY <2>9, <3>1, <3>2
  <2> HIDE DEF packet
  \* What was lost is the same, so this holds after the step too.
  <2>11. \A q, k : Heard(q, k)' = Heard(q, k)
         BY <1>2, <2>2 DEF Heard
  <2>12. \A q, k : k \in Nat => SampleUpTo(q, k)' = SampleUpTo(q, k)
    <3>1. SUFFICES ASSUME NEW q, NEW k \in Nat PROVE SampleUpTo(q, k)' = SampleUpTo(q, k)
          OBVIOUS
    <3>2. Heard(q, k)' = Heard(q, k) /\ \A m \in Heard(q, k) : air'[m] = air[m]
          BY <1>2, <2>11
    <3>3. QED
          BY <3>2, SampleSame
  <2>13. \A q \in Pids : SampleUpTo(q, n + 1)' = Held(q, tracks'[q])
    <3>1. SUFFICES ASSUME NEW q \in Pids PROVE SampleUpTo(q, n + 1)' = Held(q, tracks'[q])
          OBVIOUS
    <3>2. CASE q = pid
      <4>1. SampleUpTo(q, n + 1)' = SampleUpTo(q, n + 1)
            BY <2>2, <2>12
      <4>2. QED
            BY <2>9, <2>10, <3>2, <4>1
    <3>3. CASE q # pid
      <4>1. Heard(q, n + 1)' = Heard(q, n)
        <5>1. 1 .. (n + 1) - 1 = (1 .. n - 1) \cup {n}
              BY <2>2
        <5>2. air[n].pid # q
              BY <2>1, <3>3 DEF packet
        <5>3. Heard(q, n + 1) = Heard(q, n)
              BY <5>1, <5>2 DEF Heard
        <5>4. QED
              BY <2>11, <5>3
      <4>2. \A m \in Heard(q, n) : air'[m] = air[m]
            BY <1>2
      <4>3. SampleUpTo(q, n + 1)' = SampleUpTo(q, n)
            BY <2>2, <4>1, <4>2, SampleSame
      <4>4. SampleUpTo(q, n) = Held(q, tracks[q])
            BY <1>1, <2>1 DEF PesInv
      <4>5. QED
            BY <2>10, <3>3, <4>3, <4>4
    <3>4. QED
          BY <3>2, <3>3
  <2>14. PesInv'
    <3>1. lost' \subseteq 1 .. next' - 1
      <4>1. \A m \in 1 .. next - 1 : m \in 1 .. (next + 1) - 1
            BY <1>1
      <4>2. QED
            BY <1>2, <1>3, <2>2, <4>1
    <3>2. tracks' \in [Pids -> PesBuffers \cup {None}]
          BY <1>3, <2>9, <2>10
    <3>3. next' <= Len(air') + 1
          BY <1>1, <1>2
    <3>4. \A q \in Pids : SampleUpTo(q, next)' = Held(q, tracks[q])'
      <4>1. SUFFICES ASSUME NEW q \in Pids
                     PROVE  SampleUpTo(q, next)' = Held(q, tracks[q])'
            OBVIOUS
      <4>2. PICK k : k = n + 1
            OBVIOUS
      <4>3. SampleUpTo(q, next)' = SampleUpTo(q, k)'
            BY <2>2, <4>2, SampleAtNext
      <4>4. Held(q, tracks[q])' = Held(q, tracks'[q])
            BY DEF Held, Places
      <4>5. SampleUpTo(q, k)' = Held(q, tracks'[q])
            BY <2>13, <4>2
      <4>6. QED
            BY <4>3, <4>4, <4>5
    <3>5. QED
          BY <3>1, <3>2, <3>3, <3>4 DEF PesInv
  <2>15. SamplesComeThrough'
    <3>1. Current' = n
          BY <2>1, <2>2 DEF Current
    <3>2. Current' # Len(air') + 1
          BY <1>1, <1>2, <2>1, <3>1
    <3>3. packet.start => Outlines(out'.samples) = SampleUpTo(pid, n)
          BY <2>1, <2>3, <2>7, <2>9, GivenIsHeld
    <3>4. SampleUpTo(pid, n)' = SampleUpTo(pid, n)
          BY <2>2, <2>12
    <3>5. air'[Current'].start =>
              Outlines(out'.samples) = SampleUpTo(air[Current].pid, Current)'
      <4>1. air'[Current'] = packet
            BY <1>2, <2>1, <3>1 DEF packet
      <4>2. SampleUpTo(air[Current].pid, Current)' = SampleUpTo(pid, n)'
            BY <2>1, <3>1, <4>1 DEF SampleUpTo, Collected
      <4>3. QED
            BY <3>3, <3>4, <4>1, <4>2
    <3>6. QED
          BY <3>2, <3>5 DEF SamplesComeThrough, Outlines, Outline, Places
  <2>16. QED
         BY <2>14, <2>15
<1>6. QED
      BY <1>4, <1>5
\* A sample of the muxer is read after those before.
LEMMA PesMux ==
    ASSUME MuxerInv, AirInv, PesInv, SamplesComeThrough, Mux
    PROVE  PesInv' /\ SamplesComeThrough'
<1>1. /\ next \in Nat \ {0} /\ Len(air) \in Nat /\ DOMAIN air = 1 .. Len(air)
      /\ next = Len(air) + 1
      BY AirIs DEF Mux
<1>2. /\ next' = next /\ lost' = lost /\ tracks' = tracks /\ out' = out /\ ended' = ended
      BY DEF Mux, demuxerVars
<1>3. /\ Len(air') \in Nat /\ Len(air') >= Len(air) /\ DOMAIN air' = 1 .. Len(air')
      /\ \A i \in DOMAIN air : air'[i] = air[i]
  <2>1. IsSequence(air) /\ air' = air \o written'
        BY CallWrites DEF MuxerInv, Mux
  <2>2. PICK w : w = written' /\ IsSequence(w)
        BY CallIsUnkeyed
  <2>3. /\ Len(w) \in Nat /\ Len(air') = Len(air) + Len(w)
        /\ DOMAIN air' = 1 .. Len(air) + Len(w)
        /\ \A i \in DOMAIN air : air'[i] = air[i]
        BY <2>1, <2>2, Appended
  <2>4. QED
        BY <1>1, <2>3
<1>4. ASSUME NEW pid, NEW k \in Nat, k <= next
      PROVE  SampleUpTo(pid, k)' = SampleUpTo(pid, k)
  <2>1. \A m \in 1 .. k - 1 : m \in DOMAIN air
        BY <1>1, <1>4
  <2>2. Heard(pid, k)' = Heard(pid, k)
        BY <1>2, <1>3, <2>1 DEF Heard
  <2>3. \A m \in Heard(pid, k) : air'[m] = air[m]
        BY <1>3, <2>1, CollectedIn
  <2>4. QED
        BY <2>2, <2>3, SampleSame
<1>5. PesInv'
  <2>1. next <= Len(air') + 1
        BY <1>1, <1>3
  <2>2. \A pid \in Pids : SampleUpTo(pid, next)' = SampleUpTo(pid, next)
    <3>1. SUFFICES ASSUME NEW pid \in Pids
                   PROVE  SampleUpTo(pid, next)' = SampleUpTo(pid, next)
          OBVIOUS
    <3>2. PICK k \in Nat : k = next /\ k <= next
          BY <1>1
    <3>3. SampleUpTo(pid, next)' = SampleUpTo(pid, k)'
          BY <1>2, <3>2, SampleAtNext
    <3>4. QED
          BY <1>4, <3>2, <3>3
  <2>3. \A pid \in Pids : Held(pid, tracks[pid])' = Held(pid, tracks[pid])
        BY <1>2 DEF Held, Places
  <2>4. QED
        BY <1>2, <2>1, <2>2, <2>3 DEF PesInv
<1>6. SamplesComeThrough'
  <2>1. PICK c : c = next - 1
        OBVIOUS
  <2>2. c \in Nat /\ c <= next /\ c = Len(air) /\ Current = c /\ Current' = c
        BY <1>1, <1>2, <2>1 DEF Current
  <2>3. Current' # Len(air') + 1
        BY <1>3, <2>2
  <2>4. ASSUME Received', air'[Current'].kind = "pes", air'[Current'].start
        PROVE  Outlines(out'.samples) = SampleUpTo(air[Current].pid, Current)'
    <3>1. c \in DOMAIN air /\ c \notin lost
          BY <1>1, <1>2, <1>3, <2>2, <2>4 DEF Received
    <3>2. PICK pid : pid = air[c].pid
          OBVIOUS
    <3>3. air'[c] = air[c] /\ air[c].kind = "pes" /\ air[c].start
          BY <1>3, <2>2, <2>4, <3>1
    <3>4. Outlines(out.samples) = SampleUpTo(pid, c)
          BY <2>2, <3>1, <3>2, <3>3 DEF SamplesComeThrough, Received, Outlines
    <3>5. SampleUpTo(air[Current].pid, Current)' = SampleUpTo(pid, c)'
          BY <2>2, <3>2, <3>3 DEF SampleUpTo, Collected
    <3>6. SampleUpTo(pid, c)' = SampleUpTo(pid, c)
          BY <1>4, <2>2
    <3>7. QED
          BY <1>2, <3>4, <3>5, <3>6
  <2>5. QED
        BY <2>3, <2>4 DEF SamplesComeThrough, Outlines, Outline, Places
<1>7. QED
      BY <1>5, <1>6

\* The outlines of samples that are put together.
LEMMA OutlinesJoined ==
    ASSUME NEW s, IsSequence(s), NEW t, IsSequence(t)
    PROVE  /\ Outlines(s \o t) = Outlines(s) \o Outlines(t)
           /\ IsSequence(Outlines(s))
<1>1. PICK u, v, p, q :
         u = s \o t /\ v = Outlines(u) /\ p = Outlines(s) /\ q = Outlines(t)
      OBVIOUS
<1>2. PICK m \in Nat, l \in Nat : /\ m = Len(s) /\ l = Len(t)
                                /\ DOMAIN s = 1 .. m /\ DOMAIN t = 1 .. l
      BY DEF IsSequence
<1>3. /\ DOMAIN u = 1 .. m + l
      /\ \A i \in 1 .. m : u[i] = s[i]
      /\ \A i \in m + 1 .. m + l : u[i] = t[i - m]
      BY <1>1, <1>2, Joined
<1>4. IsSequence(p) /\ Len(p) = m /\ \A i \in 1 .. m : p[i] = Outline(s[i])
      BY <1>1, <1>2 DEF Outlines, IsSequence
<1>5. IsSequence(q) /\ Len(q) = l /\ \A i \in 1 .. l : q[i] = Outline(t[i])
      BY <1>1, <1>2 DEF Outlines, IsSequence
<1>6. IsSequence(v) /\ Len(v) = m + l /\ \A i \in 1 .. m + l : v[i] = Outline(u[i])
      BY <1>1, <1>3 DEF Outlines, IsSequence
<1>7. \A i \in 1 .. m : v[i] = p[i]
  <2>1. \A i \in 1 .. m : i \in 1 .. m + l
        OBVIOUS
  <2>2. QED
        BY <1>3, <1>4, <1>6, <2>1
<1>8. \A i \in m + 1 .. m + l : v[i] = q[i - m]
  <2>1. \A i \in m + 1 .. m + l : i \in 1 .. m + l /\ i - m \in 1 .. l
        OBVIOUS
  <2>2. QED
        BY <1>3, <1>5, <1>6, <2>1
<1>9. v = p \o q
      BY <1>4, <1>5, <1>6, <1>7, <1>8, JoinedIs
<1>10. QED
       BY <1>1, <1>4, <1>9

\* There is a number above finitely many.
LEMMA AboveAll ==
    ASSUME NEW S, S \subseteq Nat, IsFiniteSet(S)
    PROVE  \E n \in Nat : \A m \in S : m < n
<1>1. CASE S = {}
      BY <1>1
<1>2. CASE S # {}
  <2>1. PICK L \in Nat : L = Cardinality(S) /\ L # 0
        BY <1>2, FS_EmptySet, FS_CardinalityType
  <2>2. PICK k : k = Ascending(S)[L]
        OBVIOUS
  <2>3. k \in S /\ Cardinality({m \in S : m <= k}) = L
    <3>1. L \in 1 .. Cardinality(S)
          BY <2>1
    <3>2. QED
          BY <2>2, <3>1, AscendingIn
  <2>4. {m \in S : m <= k} = S
    <3>1. PICK T : T = {m \in S : m <= k}
          OBVIOUS
    <3>2. T \in SUBSET S /\ Cardinality(S) = Cardinality(T)
          BY <2>1, <2>3, <3>1
    <3>3. S = T
          BY <3>2, FS_Subset
    <3>4. QED
          BY <3>1, <3>3
  <2>5. k + 1 \in Nat /\ \A m \in S : m < k + 1
    <3>1. \A m \in S : m <= k /\ m \in Nat
          BY <2>4
    <3>2. QED
          BY <2>3, <3>1
  <2>6. QED
        BY <2>5
<1>3. QED
      BY <1>1, <1>2
\* The tracks give all they hold in the order of the PIDs.
LEMMA FlushGivesHeld ==
    ASSUME Flush
    PROVE  Outlines(out'.samples) =
               Joint(Pids, [pid \in Pids |-> Held(pid, tracks[pid])])
<1> DEFINE S(n) == {pid \in Tracks : pid < n}
           P(n) == {pid \in Pids : pid < n}
<1>1. Pids \subseteq Nat /\ IsFiniteSet(Pids) /\ Tracks \subseteq Pids
      BY M2tsAssumption DEF Tracks
<1>2. PICK F, G, C : /\ F = [pid \in Tracks |-> Finished(pid)]
                     /\ G = [pid \in Pids |-> Held(pid, tracks[pid])]
                     /\ C = {Sample(pid) : pid \in Tracks}
      OBVIOUS
<1>3. ASSUME NEW pid \in Tracks
      PROVE  /\ F[pid] \in Seq(C) /\ IsSequence(F[pid]) /\ IsSequence(G[pid])
             /\ Outlines(F[pid]) = G[pid]
  <2>1. F[pid] = Finished(pid) /\ G[pid] = Held(pid, tracks[pid])
        BY <1>1, <1>2
  <2>2. Finished(pid) \in Seq(C)
    <3>1. Sample(pid) \in C
          BY <1>2
    <3>2. QED
          BY <3>1 DEF Finished
  <2>3. QED
        BY <2>1, <2>2, GivenIsHeld
<1>4. ASSUME NEW pid \in Pids \ Tracks
      PROVE  G[pid] = << >>
      BY <1>2, <1>4 DEF Held, Tracks
<1>5. \A n \in Nat : /\ S(n) \subseteq Nat /\ IsFiniteSet(S(n))
                     /\ P(n) \subseteq Nat /\ IsFiniteSet(P(n))
                     /\ \A m \in S(n) : m < n /\ m \in Tracks
                     /\ \A m \in P(n) : m < n
  <2>1. SUFFICES ASSUME NEW n \in Nat
                 PROVE  /\ S(n) \subseteq Nat /\ IsFiniteSet(S(n))
                        /\ P(n) \subseteq Nat /\ IsFiniteSet(P(n))
                        /\ \A m \in S(n) : m < n /\ m \in Tracks
                        /\ \A m \in P(n) : m < n
        OBVIOUS
  <2>2. S(n) \in SUBSET Pids /\ P(n) \in SUBSET Pids
        BY <1>1
  <2>3. IsFiniteSet(S(n)) /\ IsFiniteSet(P(n))
    <3> HIDE DEF S, P
    <3>1. QED
          BY <1>1, <2>2, FS_Subset
  <2>4. QED
        BY <1>1, <2>3
\* What is given of the PIDs below a number.
<1> DEFINE Good(n) == Outlines(Joint(S(n), F)) = Joint(P(n), G)
           U == {n \in Nat : ~Good(n)}
<1>6. \A n \in Nat : IsSequence(Joint(S(n), F)) /\ IsSequence(Outlines(Joint(S(n), F)))
  <2>1. SUFFICES ASSUME NEW n \in Nat
                 PROVE  IsSequence(Joint(S(n), F)) /\ IsSequence(Outlines(Joint(S(n), F)))
        OBVIOUS
  <2>2. /\ S(n) \subseteq Nat /\ IsFiniteSet(S(n)) /\ \A m \in S(n) : F[m] \in Seq(C)
        BY <1>3, <1>5
  <2>3. PICK j, T : T = S(n) /\ j = Joint(T, F)
        OBVIOUS
  <2>4. j \in Seq(C)
    <3> HIDE DEF S
    <3>1. QED
          BY <2>2, <2>3, JointIn
  <2>5. IsSequence(j) /\ IsSequence(Outlines(j))
    <3>1. IsSequence(j)
          BY <2>4 DEF IsSequence
    <3>2. QED
          BY <3>1, OutlinesJoined
  <2>6. QED
        BY <2>3, <2>5
<1>7. Good(0)
  <2>1. S(0) = {} /\ P(0) = {}
    <3>1. \A pid \in Pids : pid \in Nat
          BY <1>1
    <3>2. \A pid \in Pids : ~(pid < 0)
          BY <3>1
    <3>3. QED
          BY <1>1, <3>2
  <2>2. Joint({}, F) = << >> /\ Joint({}, G) = << >>
        BY JointNone
  <2>3. Outlines(<< >>) = << >>
    <3>1. DOMAIN << >> = {}
          OBVIOUS
    <3>2. Outlines(<< >>) = [i \in {} |-> Outline(<< >>[i])]
          BY <3>1 DEF Outlines
    <3>3. << >> = [i \in {} |-> Outline(<< >>[i])]
          OBVIOUS
    <3>4. QED
          BY <3>2, <3>3
  <2> HIDE DEF S, P
  <2>4. QED
        BY <2>1, <2>2, <2>3
<1>8. ASSUME NEW n \in Nat, Good(n)
      PROVE  Good(n + 1)
  <2>1. PICK s, p, s1, p1 : s = S(n) /\ p = P(n) /\ s1 = S(n + 1) /\ p1 = P(n + 1)
        OBVIOUS
  <2>2. /\ s \subseteq Nat /\ IsFiniteSet(s) /\ \A m \in s : m < n
        /\ p \subseteq Nat /\ IsFiniteSet(p) /\ \A m \in p : m < n
        BY <1>5, <2>1
  <2>3. /\ s1 = IF n \in Tracks THEN s \cup {n} ELSE s
        /\ p1 = IF n \in Pids THEN p \cup {n} ELSE p
    <3>1. \A pid \in Pids : pid < n + 1 <=> pid < n \/ pid = n
          BY <1>1
    <3>2. QED
          BY <1>1, <2>1, <3>1
  <2>4. PICK j : j = Joint(s, F)
        OBVIOUS
  <2>5. IsSequence(j) /\ IsSequence(Outlines(j)) /\ Outlines(j) = Joint(p, G)
        BY <1>6, <1>8, <2>1, <2>4
  <2> HIDE DEF S, P
  <2>6. Outlines(Joint(s1, F)) = Joint(p1, G)
    <3>1. CASE n \notin Pids
          BY <1>1, <2>3, <2>4, <2>5, <3>1
    <3>2. CASE n \in Pids \ Tracks
      <4>1. G[n] = << >> /\ IsSequence(G[n])
            BY <1>4, <3>2 DEF IsSequence
      <4>2. Joint(p \cup {n}, G) = Joint(p, G) \o G[n]
            BY <2>2, <4>1, JointGrows
      <4>3. Joint(p, G) \o << >> = Joint(p, G)
            BY <2>5, JoinedNothing
      <4>4. s1 = s /\ p1 = p \cup {n}
            BY <2>3, <3>2
      <4>5. QED
            BY <2>4, <2>5, <4>1, <4>2, <4>3, <4>4
    <3>3. CASE n \in Tracks
      <4>1. IsSequence(F[n]) /\ IsSequence(G[n]) /\ Outlines(F[n]) = G[n]
            BY <1>3, <3>3
      <4>2. Joint(s \cup {n}, F) = j \o F[n]
            BY <2>2, <2>4, <4>1, JointGrows
      <4>3. Joint(p \cup {n}, G) = Joint(p, G) \o G[n]
            BY <2>2, <4>1, JointGrows
      <4>4. Outlines(j \o F[n]) = Outlines(j) \o Outlines(F[n])
            BY <2>5, <4>1, OutlinesJoined
      <4>5. s1 = s \cup {n} /\ p1 = p \cup {n}
            BY <1>1, <2>3, <3>3
      <4>6. QED
            BY <2>5, <4>1, <4>2, <4>3, <4>4, <4>5
    <3>4. QED
          BY <3>1, <3>2, <3>3
  <2>7. QED
        BY <2>1, <2>6
<1>9. U = {}
  <2> HIDE DEF Good
  <2>1. SUFFICES ASSUME U # {} PROVE FALSE
        OBVIOUS
  <2>2. U \subseteq Nat
        OBVIOUS
  <2>3. PICK n \in U : \A m \in U : ~(<<m, n>> \in OpToRel(<, Nat))
        BY <2>1, <2>2, NatLessThanWellFounded, WFMin
  <2>4. n \in Nat /\ ~Good(n) /\ \A m \in U : ~(m < n)
        BY <2>2, <2>3 DEF OpToRel
  <2>5. n # 0
        BY <1>7, <2>4
  <2>6. PICK k \in Nat : n = k + 1 /\ k < n
    <3>1. n - 1 \in Nat /\ n = (n - 1) + 1 /\ n - 1 < n
          BY <2>4, <2>5
    <3>2. QED
          BY <3>1
  <2>7. k \notin U
        BY <2>4, <2>6
  <2>8. Good(k)
        BY <2>7
  <2>9. QED
        BY <1>8, <2>4, <2>6, <2>8
<1>10. PICK N \in Nat : \A m \in Pids : m < N
       BY <1>1, AboveAll
<1>11. S(N) = Tracks /\ P(N) = Pids
       BY <1>1, <1>10
<1>12. Outlines(Joint(Tracks, F)) = Joint(Pids, G)
  <2>1. Good(N)
    <3> HIDE DEF Good
    <3>1. QED
          BY <1>9
  <2> HIDE DEF S, P
  <2>2. QED
        BY <1>11, <2>1
<1>13. out'.samples = Joint(Tracks, F)
  <2>1. PICK pids : pids = Ascending(Tracks)
        OBVIOUS
  <2>2. IsFiniteSet(Tracks) /\ Tracks \subseteq Nat
        BY <1>1, FS_Subset
  <2>3. \A i \in DOMAIN pids : pids[i] \in Tracks
    <3>1. DOMAIN pids = 1 .. Cardinality(Tracks)
          BY <2>1 DEF Ascending
    <3>2. QED
          BY <2>1, <2>2, <3>1, AscendingIn
  <2>4. [i \in DOMAIN pids |-> Finished(pids[i])] = [i \in DOMAIN pids |-> F[pids[i]]]
        BY <1>2, <2>3
  <2>5. PICK all : all = FlattenSeq([i \in DOMAIN pids |-> Finished(pids[i])])
        OBVIOUS
  <2>6. out' = [Nothing EXCEPT !.samples = all]
        BY <2>1, <2>5 DEF Flush
  <2>7. out'.samples = all
        BY <2>6 DEF Nothing
  <2>8. QED
        BY <2>1, <2>4, <2>5, <2>7 DEF Joint
<1>14. QED
       BY <1>2, <1>12, <1>13

\* The input has ended, and with it every PES packet.
LEMMA PesFinish ==
    ASSUME MuxerInv, AirInv, PesInv, Finish
    PROVE  PesInv' /\ SamplesComeThrough'
<1>1. /\ next \in Nat \ {0} /\ Len(air) \in Nat /\ DOMAIN air = 1 .. Len(air)
      /\ next = Len(air) + 1 /\ ~ended
      BY AirIs DEF Finish
<1>2. /\ next' = next + 1 /\ lost' = lost /\ air' = air /\ ended' = TRUE /\ Flush
      BY DEF Finish
<1>3. PesInv'
  <2>1. lost' \subseteq 1 .. next' - 1
    <3>1. \A m \in 1 .. next - 1 : m \in 1 .. (next + 1) - 1
          BY <1>1
    <3>2. QED
          BY <1>2, <3>1 DEF PesInv
  <2>2. tracks' = [pid \in Pids |-> IF pid \in Tracks THEN NoPes ELSE None]
        BY <1>2 DEF Flush
  <2>3. tracks' \in [Pids -> PesBuffers \cup {None}]
        BY <2>2, HeldNothing
  <2>4. QED
        BY <1>2, <2>1, <2>3 DEF PesInv
<1>4. SamplesComeThrough'
  <2>1. Current' = Len(air) + 1 /\ Current' \notin DOMAIN air'
        BY <1>1, <1>2 DEF Current
  <2>2. PICK G : G = [pid \in Pids |-> Held(pid, tracks[pid])]
        OBVIOUS
  <2>3. Outlines(out'.samples) = Joint(Pids, G)
        BY <1>2, <2>2, FlushGivesHeld
  <2>4. \A pid \in Pids : SampleUpTo(pid, Len(air) + 1)' = G[pid]
    <3>1. SUFFICES ASSUME NEW pid \in Pids
                   PROVE  SampleUpTo(pid, Len(air) + 1)' = G[pid]
          OBVIOUS
    <3>2. SampleUpTo(pid, Len(air) + 1)' = SampleUpTo(pid, next)
          BY <1>1, <1>2 DEF SampleUpTo, Collected
    <3>3. SampleUpTo(pid, next) = Held(pid, tracks[pid])
          BY <1>1 DEF PesInv
    <3>4. QED
          BY <2>2, <3>2, <3>3
  <2>5. PICK pids : pids = Ascending(Pids)
        OBVIOUS
  <2>6. \A i \in DOMAIN pids : pids[i] \in Pids
    <3>1. Pids \subseteq Nat /\ IsFiniteSet(Pids)
          BY M2tsAssumption
    <3>2. DOMAIN pids = 1 .. Cardinality(Pids)
          BY <2>5 DEF Ascending
    <3>3. QED
          BY <2>5, <3>1, <3>2, AscendingIn
  <2>7. [i \in DOMAIN pids |-> SampleUpTo(pids[i], Len(air) + 1)'] =
        [i \in DOMAIN pids |-> G[pids[i]]]
        BY <2>4, <2>6
  <2>8. Joint(Pids, G) = FlattenSeq([i \in DOMAIN pids |-> SampleUpTo(pids[i], Len(air) + 1)'])
        BY <2>5, <2>7 DEF Joint
  <2>9. Outlines(out'.samples) =
           FlattenSeq([i \in DOMAIN pids |-> SampleUpTo(pids[i], Len(air) + 1)])'
        BY <2>3, <2>8
  <2>10. ~Received'
         BY <2>1 DEF Received
  <2>11. QED
         BY <2>5, <2>9, <2>10 DEF SamplesComeThrough, Outlines, Outline, Places
<1>5. QED
      BY <1>3, <1>4

\* Every step keeps it.
LEMMA PesHolds ==
    ASSUME MuxerInv, AirInv, PesInv, SamplesComeThrough, [Next]_vars
    PROVE  PesInv' /\ SamplesComeThrough'
<1>1. /\ next \in Nat \ {0} /\ tracks \in [Pids -> PesBuffers \cup {None}]
      /\ tracks = [pid \in Pids |-> tracks[pid]]
      BY AirIs DEF PesInv
<1>2. CASE Mux
      BY <1>2, PesMux
<1>3. CASE ReceivePat
  <2>1. /\ CanRead /\ air[next].kind = "pat" /\ air' = air /\ next' = next + 1
        /\ lost' = lost /\ tracks' = tracks
        BY <1>3 DEF ReceivePat, Advance, ReadPat, SkipPacket
  <2>2. QED
        BY <1>1, <2>1, PesQuiet
<1>4. CASE ReceivePmt
  <2>1. /\ CanRead /\ air[next].kind = "pmt" /\ air' = air /\ next' = next + 1
        /\ lost' = lost
        BY <1>4 DEF ReceivePmt, Advance, ReadPmt
  <2>2. CASE ~ForTarget(air[next])
    <3>1. tracks' = tracks
          BY <1>4, <2>2 DEF ReceivePmt, ReadPmt
    <3>2. QED
          BY <1>1, <2>1, <3>1, PesQuiet
  <2>3. CASE ForTarget(air[next])
    <3>1. PICK added :
             /\ added = IF PmtIsRead(air[next]) THEN Selected(air[next].streams)
                        ELSE << >>
             /\ tracks' = [pid \in Pids |->
                              IF \E i \in DOMAIN added : added[i].pid = pid
                              THEN NoPes ELSE tracks[pid]]
          BY <1>4, <2>3 DEF ReceivePmt, ReadPmt
    <3>2. PICK L \in Nat : DOMAIN air[next].streams = 1 .. L
          BY <2>1, AirIs DEF CanRead, Fits
    <3>3. \A i \in DOMAIN added : tracks[added[i].pid] = None
      <4>1. SUFFICES ASSUME NEW i \in DOMAIN added PROVE tracks[added[i].pid] = None
            OBVIOUS
      <4>2. PICK streams : streams = air[next].streams
            OBVIOUS
      <4>3. DOMAIN streams = 1 .. L /\ added = Selected(streams)
        <5>1. DOMAIN << >> = {}
              OBVIOUS
        <5>2. added = Selected(air[next].streams)
              BY <3>1, <4>1, <5>1
        <5>3. QED
              BY <3>2, <4>2, <5>2
      <4>4. \E j \in DOMAIN streams :
                Selected(streams)[i] = streams[j] /\ tracks[streams[j].pid] = None
            BY <4>3, SelectedAre
      <4>5. QED
            BY <4>3, <4>4
    <3>4. \A pid \in Pids : tracks'[pid] = tracks[pid]
                             \/ (tracks[pid] = None /\ tracks'[pid] = NoPes)
          BY <3>1, <3>3
    <3>5. tracks' = [pid \in Pids |-> tracks'[pid]]
          BY <3>1
    <3>6. QED
          BY <2>1, <3>4, <3>5, PesQuiet
  <2>4. QED
        BY <2>2, <2>3
<1>5. CASE ReceiveSection
  <2>1. /\ CanRead /\ air[next].kind = "section" /\ air' = air /\ next' = next + 1
        /\ lost' = lost /\ tracks' = tracks
        BY <1>5 DEF ReceiveSection, Advance, ReadSectionPacket
  <2>2. QED
        BY <1>1, <2>1, PesQuiet
<1>6. CASE ReceivePes
      BY <1>6, PesRead
<1>7. CASE LosePacket
  <2>1. /\ CanRead /\ air' = air /\ next' = next + 1
        /\ lost' = lost \cup {next} /\ tracks' = tracks
        BY <1>7 DEF LosePacket, Advance, SkipPacket
  <2>2. QED
        BY <1>1, <2>1, PesQuiet
<1>8. CASE Finish
      BY <1>8, PesFinish
<1>9. CASE UNCHANGED vars
  <2>1. /\ broadcast' = broadcast /\ air' = air /\ next' = next /\ lost' = lost
        /\ tracks' = tracks /\ out' = out /\ ended' = ended
        BY <1>9 DEF vars, receiverVars, demuxerVars
  <2>2. ASSUME NEW pid, NEW k
        PROVE  SampleUpTo(pid, k)' = SampleUpTo(pid, k)
        BY <2>1 DEF SampleUpTo, Collected
  <2>3. PesInv'
    <3>1. \A pid \in Pids : SampleUpTo(pid, next)' = SampleUpTo(pid, next)
      <4>1. SUFFICES ASSUME NEW pid \in Pids
                     PROVE  SampleUpTo(pid, next)' = SampleUpTo(pid, next)
            OBVIOUS
      <4>2. PICK k : k = next
            OBVIOUS
      <4>3. SampleUpTo(pid, next)' = SampleUpTo(pid, k)'
            BY <2>1, <4>2, SampleAtNext
      <4>4. QED
            BY <2>2, <4>2, <4>3
    <3>2. \A pid \in Pids : Held(pid, tracks[pid])' = Held(pid, tracks[pid])
          BY <2>1 DEF Held, Places
    <3>3. QED
          BY <2>1, <3>1, <3>2 DEF PesInv
  <2>4. SamplesComeThrough'
    <3>1. PICK c, l, pids : c = Current /\ l = Len(air) + 1 /\ pids = Ascending(Pids)
          OBVIOUS
    <3>2. Current' = c /\ (Len(air) + 1)' = l /\ Received' = Received
          BY <2>1, <3>1 DEF Current, Received
    <3>3. Outlines(out'.samples) = Outlines(out.samples)
          BY <2>1
    <3>4. ASSUME Received', air'[c].kind = "pes", air'[c].start
          PROVE  Outlines(out'.samples) = SampleUpTo(air[Current].pid, Current)'
      <4>1. PICK pid : pid = air[c].pid
            OBVIOUS
      <4>2. Outlines(out.samples) = SampleUpTo(pid, c)
            BY <2>1, <3>1, <3>2, <3>4, <4>1 DEF SamplesComeThrough, Outlines
      <4>3. SampleUpTo(air[Current].pid, Current)' = SampleUpTo(pid, c)'
            BY <2>1, <3>2, <4>1 DEF SampleUpTo, Collected
      <4>4. QED
            BY <2>2, <3>3, <4>2, <4>3
    <3>5. ASSUME c = l
          PROVE  Outlines(out'.samples) =
                    FlattenSeq([i \in DOMAIN pids |-> SampleUpTo(pids[i], Len(air) + 1)])'
      <4>1. Outlines(out.samples) = FlattenSeq([i \in DOMAIN pids |-> SampleUpTo(pids[i], l)])
            BY <3>1, <3>5 DEF SamplesComeThrough, Outlines
      <4>2. \A pid : SampleUpTo(pid, Len(air) + 1)' = SampleUpTo(pid, Len(air) + 1)
            BY <2>1 DEF SampleUpTo, Collected
      <4>3. [i \in DOMAIN pids |-> SampleUpTo(pids[i], Len(air) + 1)]' =
            [i \in DOMAIN pids |-> SampleUpTo(pids[i], Len(air) + 1)]
            BY <4>2
      <4>4. QED
            BY <3>1, <3>3, <4>1, <4>3
    <3>6. QED
          BY <3>1, <3>2, <3>4, <3>5 DEF SamplesComeThrough, Outlines, Outline, Places
  <2>5. QED
        BY <2>3, <2>4
<1>10. CASE IgnoreSection
  <2>1. /\ CanRead /\ air' = air /\ next' = next + 1
        /\ lost' = lost \cup {next} /\ tracks' = tracks
        BY <1>10 DEF IgnoreSection, IgnoreSectionPacket, Advance, SkipPacket
  <2>2. QED
        BY <1>1, <2>1, PesQuiet
<1>11. QED
       BY <1>2, <1>3, <1>4, <1>5, <1>6, <1>7, <1>8, <1>9, <1>10 DEF Next

\* Every PES packet whose start came with some of its payload leaves as one
\* sample, with its own times and exactly the payloads that came since, in their
\* order (m2ts.rs:238-266): of every broadcast, however its PES packets are cut
\* and mixed, whatever is lost, and of all that M2tsMuxer writes.
THEOREM SamplesAreWhole == Spec => []SamplesComeThrough
<1>1. Init => MuxerInv /\ AirInv /\ PesInv /\ SamplesComeThrough
      BY MuxerStart, AirStart, PesStart
<1>2. MuxerInv /\ AirInv /\ PesInv /\ SamplesComeThrough /\ [Next]_vars
         => (MuxerInv /\ AirInv /\ PesInv /\ SamplesComeThrough)'
      BY MuxerHolds, AirHolds, PesHolds
<1>3. QED
      BY <1>1, <1>2, PTL DEF Spec

-----------------------------------------------------------------------------
(* SectionsComeThrough.                                                     *)

\* The last cell of a packet belongs to a section that goes on.
Opens(cell) == ~IsStuffing(cell) /\ ~EndsSection(cell)

\* A part of a sequence, item by item.
LEMMA Part ==
    ASSUME NEW s, IsSequence(s), NEW i \in Nat \ {0}, NEW j \in Nat, j <= Len(s), i <= j + 1
    PROVE  /\ IsSequence(SubSeq(s, i, j)) /\ Len(SubSeq(s, i, j)) = j - i + 1
           /\ DOMAIN SubSeq(s, i, j) = 1 .. j - i + 1
           /\ \A k \in 1 .. j - i + 1 : SubSeq(s, i, j)[k] = s[i + k - 1]
<1> DEFINE S == {s[k] : k \in 1 .. Len(s)}
<1>1. PICK L \in Nat : L = Len(s)
      BY DEF IsSequence
<1>2. s \in Seq(S)
  <2>1. \A k \in 1 .. Len(s) : s[k] \in S
        OBVIOUS
  <2> HIDE DEF S
  <2>2. QED
        BY <2>1 DEF IsSequence
<1> HIDE DEF S
<1>3. PICK t : t = SubSeq(s, i, j)
      OBVIOUS
<1>4. /\ t \in Seq(S) /\ Len(t) = j - i + 1
      /\ \A k \in 1 .. j - i + 1 : t[k] = s[i + k - 1]
  <2>1. CASE i <= j
        BY <1>1, <1>2, <1>3, <2>1
  <2>2. CASE i = j + 1
        BY <1>1, <1>2, <1>3, <2>2
  <2>3. QED
        BY <1>1, <2>1, <2>2
<1>5. /\ DOMAIN t = 1 .. j - i + 1 /\ t = [k \in 1 .. Len(t) |-> t[k]] /\ Len(t) \in Nat
      BY <1>4
<1>6. QED
      BY <1>3, <1>4, <1>5 DEF IsSequence

\* The number of some rank.
LEMMA AscendingRank ==
    ASSUME NEW S, S \subseteq Nat, IsFiniteSet(S), NEW n \in S,
           NEW i, Cardinality({m \in S : m <= n}) = i
    PROVE  Ascending(S)[i] = n
<1>1. Ascending(S)[Cardinality({m \in S : m <= n})] = n
      BY AscendingIs
<1>2. QED
      BY <1>1

\* A number below the others comes first.
LEMMA AscendingPrepends ==
    ASSUME NEW S, S \subseteq Nat, IsFiniteSet(S), NEW n \in Nat, \A m \in S : n < m
    PROVE  /\ Cardinality({n} \cup S) = Cardinality(S) + 1 /\ Cardinality(S) \in Nat
           /\ IsFiniteSet({n} \cup S) /\ {n} \cup S \subseteq Nat
           /\ Ascending({n} \cup S)[1] = n
           /\ \A i \in 1 .. Cardinality(S) : Ascending({n} \cup S)[i + 1] = Ascending(S)[i]
<1>1. PICK T : T = {n} \cup S
      OBVIOUS
<1>2. n \notin S /\ T \subseteq Nat /\ n \in T
      BY <1>1
<1>3. IsFiniteSet(T) /\ Cardinality(T) = Cardinality(S) + 1 /\ Cardinality(S) \in Nat
      BY <1>1, <1>2, FS_AddElement, FS_CardinalityType
<1>4. Ascending(T)[1] = n
  <2>1. {m \in T : m <= n} = {n}
    <3>1. \A m \in T : m <= n <=> m = n
          BY <1>1, <1>2
    <3>2. QED
          BY <1>2, <3>1
  <2>2. Cardinality({m \in T : m <= n}) = 1
        BY <2>1, FS_Singleton
  <2>3. QED
        BY <1>2, <1>3, <2>2, AscendingRank
<1>5. ASSUME NEW i \in 1 .. Cardinality(S)
      PROVE  Ascending(T)[i + 1] = Ascending(S)[i]
  <2>1. PICK k : k = Ascending(S)[i]
        OBVIOUS
  <2>2. k \in S /\ Cardinality({m \in S : m <= k}) = i
        BY <2>1, AscendingIn
  <2>3. PICK U : U = {m \in S : m <= k}
        OBVIOUS
  <2>4. U \in SUBSET S /\ n \notin U
        BY <1>2, <2>3
  <2>5. IsFiniteSet(U) /\ Cardinality(U) = i
        BY <2>2, <2>3, <2>4, FS_Subset
  <2>6. {m \in T : m <= k} = U \cup {n}
        BY <1>1, <2>2, <2>3
  <2>7. Cardinality({m \in T : m <= k}) = i + 1
        BY <2>4, <2>5, <2>6, FS_AddElement
  <2>8. k \in T
        BY <1>1, <2>2
  <2>9. QED
    <3>1. PICK j : j = i + 1
          OBVIOUS
    <3>2. Cardinality({m \in T : m <= k}) = j
          BY <2>7, <3>1
    <3>3. Ascending(T)[j] = k
          BY <1>2, <1>3, <2>8, <3>2, AscendingRank
    <3>4. QED
          BY <2>1, <3>1, <3>3
<1>6. QED
      BY <1>1, <1>2, <1>3, <1>4, <1>5

\* The sections whose last cells are at the places of a set.
Listed(cells, S) ==
    [k \in DOMAIN Ascending(S) |-> Cells(cells[Ascending(S)[k]].of)]

\* A list of the sections that end at some cells, in the order of the cells.
Enumerates(l, L, cells, S) ==
    /\ IsSequence(l) /\ Len(l) = L /\ DOMAIN l = 1 .. L
    /\ \A k \in 1 .. L : l[k] = Cells(cells[Ascending(S)[k]].of)

\* Listed is one.
LEMMA ListedEnumerates ==
    ASSUME NEW cells, NEW S, S \subseteq Nat, IsFiniteSet(S)
    PROVE  Enumerates(Listed(cells, S), Cardinality(S), cells, S)
<1>1. PICK L, l : L \in Nat /\ L = Cardinality(S) /\ l = Listed(cells, S)
      BY FS_CardinalityType
<1>2. DOMAIN Ascending(S) = 1 .. L
      BY <1>1 DEF Ascending
<1>3. l = [k \in 1 .. L |-> Cells(cells[Ascending(S)[k]].of)]
      BY <1>1, <1>2 DEF Listed
<1>4. DOMAIN l = 1 .. L /\ \A k \in 1 .. L : l[k] = Cells(cells[Ascending(S)[k]].of)
      BY <1>3
<1>5. Len(l) = L /\ l = [k \in 1 .. L |-> l[k]]
      BY <1>1, <1>3, <1>4
<1>6. Enumerates(l, L, cells, S)
      BY <1>1, <1>4, <1>5 DEF IsSequence, Enumerates
<1>7. QED
      BY <1>1, <1>6

\* The same, item by item.
LEMMA ListedIs ==
    ASSUME NEW cells, NEW S, S \subseteq Nat, IsFiniteSet(S)
    PROVE  /\ IsSequence(Listed(cells, S)) /\ Len(Listed(cells, S)) = Cardinality(S)
           /\ DOMAIN Listed(cells, S) = 1 .. Cardinality(S)
           /\ \A k \in 1 .. Cardinality(S) :
                 Listed(cells, S)[k] = Cells(cells[Ascending(S)[k]].of)
<1>1. PICK L, l : L = Cardinality(S) /\ l = Listed(cells, S)
      OBVIOUS
<1>2. Enumerates(l, L, cells, S)
      BY <1>1, ListedEnumerates
<1>3. /\ IsSequence(l) /\ Len(l) = L /\ DOMAIN l = 1 .. L
      /\ \A k \in 1 .. L : l[k] = Cells(cells[Ascending(S)[k]].of)
      BY <1>2 DEF Enumerates
<1>4. QED
      BY <1>1, <1>3

\* Where nothing ends, nothing is listed.
LEMMA ListedNothing ==
    ASSUME NEW cells
    PROVE  Listed(cells, {}) = << >>
<1>1. Cardinality({}) = 0 /\ {} \subseteq Nat /\ IsFiniteSet({})
      BY FS_EmptySet
<1>2. PICK l : l = Listed(cells, {})
      OBVIOUS
<1>3. Len(l) = 0 /\ l = [k \in 1 .. Len(l) |-> l[k]]
      BY <1>1, <1>2, ListedIs DEF IsSequence
<1>4. l = << >>
  <2>1. l \in Seq({l[k] : k \in 1 .. 0})
        BY <1>3
  <2>2. QED
        BY <1>3, <2>1
<1>5. QED
      BY <1>2, <1>4

\* The section that ends first comes first.
LEMMA ListedPrepends ==
    ASSUME NEW cells, NEW S, S \subseteq Nat, IsFiniteSet(S), NEW n \in Nat,
           \A m \in S : n < m
    PROVE  Listed(cells, {n} \cup S) = <<Cells(cells[n].of)>> \o Listed(cells, S)
<1>1. PICK T, L, a, b : /\ T = {n} \cup S /\ L = Cardinality(S)
                        /\ a = Listed(cells, S) /\ b = Listed(cells, T)
      OBVIOUS
<1>2. /\ L \in Nat /\ Cardinality(T) = L + 1 /\ IsFiniteSet(T) /\ T \subseteq Nat
      /\ Ascending(T)[1] = n
      /\ \A i \in 1 .. L : Ascending(T)[i + 1] = Ascending(S)[i]
      BY <1>1, AscendingPrepends
<1>3. /\ IsSequence(a) /\ Len(a) = L
      /\ \A i \in 1 .. L : a[i] = Cells(cells[Ascending(S)[i]].of)
  <2>1. Enumerates(Listed(cells, S), Cardinality(S), cells, S)
        BY ListedEnumerates
  <2>2. QED
        BY <1>1, <2>1 DEF Enumerates
<1>4. /\ IsSequence(b) /\ Len(b) = L + 1
      /\ \A i \in 1 .. L + 1 : b[i] = Cells(cells[Ascending(T)[i]].of)
  <2>1. Enumerates(Listed(cells, T), Cardinality(T), cells, T)
        BY <1>2, ListedEnumerates
  <2>2. QED
        BY <1>1, <1>2, <2>1 DEF Enumerates
<1>5. PICK h : h = <<Cells(cells[n].of)>>
      OBVIOUS
<1>6. IsSequence(h) /\ Len(h) = 1 /\ h[1] = Cells(cells[n].of)
      BY <1>5 DEF IsSequence
<1>7. \A i \in 1 .. 1 : b[i] = h[i]
      BY <1>2, <1>4, <1>6
<1>8. ASSUME NEW i \in 1 + 1 .. 1 + L
      PROVE  b[i] = a[i - 1]
  <2>1. PICK k : k = i - 1
        OBVIOUS
  <2>2. k \in 1 .. L /\ k + 1 = i /\ i \in 1 .. L + 1
        BY <1>2, <2>1
  <2>3. b[i] = Cells(cells[Ascending(T)[i]].of)
        BY <1>4, <2>2
  <2>4. Ascending(T)[i] = Ascending(S)[k]
        BY <1>2, <2>2
  <2>5. a[k] = Cells(cells[Ascending(S)[k]].of)
        BY <1>3, <2>2
  <2>6. QED
        BY <2>1, <2>3, <2>4, <2>5
<1>9. b = h \o a
  <2>1. Len(b) = Len(h) + Len(a)
        BY <1>2, <1>3, <1>4, <1>6
  <2>2. \A i \in 1 .. Len(h) : b[i] = h[i]
        BY <1>6, <1>7
  <2>3. \A i \in Len(h) + 1 .. Len(h) + Len(a) : b[i] = a[i - Len(h)]
        BY <1>3, <1>6, <1>8
  <2>4. QED
        BY <1>3, <1>4, <1>6, <2>1, <2>2, <2>3, JoinedIs
<1>10. QED
       BY <1>1, <1>5, <1>9

\* A buffer of cells: of whatever sections, in whatever order.
IsBuffer(b) == IsSequence(b) /\ \A i \in DOMAIN b : IsCell(b[i])

\* The rest of a buffer is a buffer.
LEMMA RestIs ==
    ASSUME NEW b, IsBuffer(b), NEW L \in Nat, L = Len(b), NEW start \in 1 .. L + 1
    PROVE  /\ IsBuffer(Rest(b, start)) /\ Len(Rest(b, start)) = L - start + 1
           /\ \A k \in 1 .. L - start + 1 : Rest(b, start)[k] = b[start + k - 1]
<1>1. start \in Nat \ {0} /\ start <= L + 1
      OBVIOUS
<1>2. IsSequence(b) /\ DOMAIN b = 1 .. L
      BY DEF IsBuffer, IsSequence
<1>3. PICK r : r = Rest(b, start)
      OBVIOUS
<1>4. /\ IsSequence(r) /\ Len(r) = L - start + 1 /\ DOMAIN r = 1 .. L - start + 1
      /\ \A k \in 1 .. L - start + 1 : r[k] = b[start + k - 1]
      BY <1>1, <1>2, <1>3, Part DEF Rest
<1>5. ASSUME NEW k \in DOMAIN r
      PROVE  IsCell(r[k])
  <2>1. PICK i : i = start + k - 1
        OBVIOUS
  <2>2. i \in DOMAIN b /\ r[k] = b[i]
        BY <1>1, <1>2, <1>4, <2>1
  <2>3. QED
        BY <2>2 DEF IsBuffer
<1>6. QED
      BY <1>3, <1>4, <1>5 DEF IsBuffer

\* Whatever is read as a section_length, the reader goes on.
LEMMA GoesForward ==
    ASSUME NEW b, IsBuffer(b), NEW garbage \in Garbage
    PROVE  Progresses(b, garbage)
<1>1. PICK L \in Nat : L = Len(b)
      BY DEF IsBuffer, IsSequence
<1>2. garbage.length \in Nat /\ garbage.length >= 2
      BY M2tsAssumption DEF HeaderLength
<1>3. ASSUME NEW start \in 1 .. L + 1, ~Incomplete(b, start, garbage)
      PROVE  /\ Ends(b, start, garbage) \in Nat \ {0}
             /\ start + Ends(b, start, garbage) <= L + 1
  <2>1. PICK r : r = Rest(b, start)
        OBVIOUS
  <2>2. IsBuffer(r) /\ Len(r) = L - start + 1
        BY <1>1, <2>1, RestIs
  <2>3. PICK e : e = SectionEnd(r, garbage)
        OBVIOUS
  <2>4. ~(L - start + 1 < 2) /\ ~(L - start + 1 < e)
        BY <1>3, <2>1, <2>2, <2>3 DEF Incomplete, HeaderLength, Ends
  <2>5. IsCell(r[2])
    <3>1. 2 \in 1 .. L - start + 1
          BY <2>4
    <3>2. DOMAIN r = 1 .. L - start + 1
          BY <2>2 DEF IsBuffer, IsSequence
    <3>3. QED
          BY <2>2, <3>1, <3>2 DEF IsBuffer
  <2>6. r[2].at = 2 => r[2].of.length \in Nat /\ r[2].of.length >= 2
        BY <2>5 DEF IsCell, HeaderLength
  <2>7. e \in Nat \ {0}
        BY <1>2, <2>3, <2>6 DEF SectionEnd
  <2>8. start + e <= L + 1
        BY <2>4, <2>7
  <2>9. QED
        BY <2>1, <2>3, <2>7, <2>8 DEF Ends
<1>4. QED
      BY <1>1, <1>3 DEF Progresses

\* What the part of a buffer from a place on gives.
GivesNext(b, garbage, drain, start, L) ==
    LET r == Rest(b, start)
        e == SectionEnd(r, garbage)
        left == L - start + 1
    IN  \/ /\ r # << >> /\ SkipsRest(r, garbage)
           /\ drain[start] = [sections |-> << >>, buffer |-> << >>]
        \/ /\ ~(r # << >> /\ SkipsRest(r, garbage))
           /\ left < HeaderLength \/ left < e
           /\ drain[start] = [sections |-> << >>, buffer |-> r]
        \/ /\ ~(r # << >> /\ SkipsRest(r, garbage))
           /\ left >= HeaderLength /\ e \in 1 .. left
           /\ drain[start].sections = <<SubSeq(r, 1, e)>> \o drain[start + e].sections
           /\ drain[start].buffer = drain[start + e].buffer

\* What a part of a buffer gives follows from what shorter parts give.
LEMMA DrainedSteps ==
    ASSUME NEW b, IsBuffer(b), NEW L \in Nat, L = Len(b), NEW garbage \in Garbage
    PROVE  \E drain : /\ Drained(b, garbage) = drain[1]
                      /\ \A start \in 1 .. L + 1 : GivesNext(b, garbage, drain, start, L)
<1>1. Progresses(b, garbage)
      BY GoesForward
<1>2. PICK drain : /\ Drained(b, garbage) = drain[1]
                   /\ \A start \in 1 .. L + 1 :
                         drain[start] = Draining(b, garbage, drain, start)
  <2>1. \E drain : /\ Drained(b, garbage) = drain[1]
                   /\ \A start \in 1 .. Len(b) + 1 :
                         drain[start] = Draining(b, garbage, drain, start)
        BY <1>1, DrainingDefined
  <2>2. QED
        BY <2>1
<1>3. ASSUME NEW start \in 1 .. L + 1
      PROVE  GivesNext(b, garbage, drain, start, L)
  <2> DEFINE r == Rest(b, start)
             e == SectionEnd(r, garbage)
  <2>1. Len(r) = L - start + 1
        BY RestIs
  <2>2. Ends(b, start, garbage) = e
        BY DEF Ends
  <2>3. drain[start] = Draining(b, garbage, drain, start)
        BY <1>2
  <2> HIDE DEF r, e
  <2>4. CASE r # << >> /\ SkipsRest(r, garbage)
        BY <2>3, <2>4 DEF Draining, GivesNext, r, e
  <2>5. CASE ~(r # << >> /\ SkipsRest(r, garbage)) /\ Incomplete(b, start, garbage)
    <3>1. drain[start] = [sections |-> << >>, buffer |-> r]
          BY <2>3, <2>5 DEF Draining, r
    <3>2. L - start + 1 < HeaderLength \/ L - start + 1 < e
          BY <2>1, <2>2, <2>5 DEF Incomplete, r
    <3>3. QED
          BY <2>5, <3>1, <3>2 DEF GivesNext, r, e
  <2>6. CASE ~(r # << >> /\ SkipsRest(r, garbage)) /\ ~Incomplete(b, start, garbage)
    <3>1. e \in Nat \ {0} /\ start + e <= L + 1
          BY <1>1, <2>2, <2>6 DEF Progresses
    <3>2. ~(L - start + 1 < HeaderLength)
          BY <2>1, <2>6 DEF Incomplete, r
    <3>3. PICK more : more = drain[start + e]
          OBVIOUS
    <3>4. drain[start] = [sections |-> <<SubSeq(r, 1, e)>> \o more.sections,
                          buffer |-> more.buffer]
          BY <2>2, <2>3, <2>6, <3>3 DEF Draining, r
    <3>5. /\ drain[start].sections = <<SubSeq(r, 1, e)>> \o drain[start + e].sections
          /\ drain[start].buffer = drain[start + e].buffer
          BY <3>3, <3>4
    <3>6. e \in 1 .. L - start + 1 /\ L - start + 1 >= HeaderLength
          BY <3>1, <3>2 DEF HeaderLength
    <3>7. QED
          BY <2>6, <3>5, <3>6 DEF GivesNext, r, e
  <2>7. QED
        BY <2>4, <2>5, <2>6
<1>4. QED
      BY <1>2, <1>3

\* What holds of every end of a buffer holds of all of it.
LEMMA FromTheEnd ==
    ASSUME NEW L \in Nat, NEW Bad, Bad \subseteq 1 .. L + 1,
           \A start \in Bad : \E later \in Bad : later > start
    PROVE  Bad = {}
<1> DEFINE T == {k \in 0 .. L : L + 1 - k \in Bad}
<1>1. SUFFICES ASSUME NEW start \in Bad PROVE FALSE
      OBVIOUS
<1>2. T \subseteq Nat
      OBVIOUS
<1>3. L + 1 - start \in T
  <2>1. start \in 1 .. L + 1
        OBVIOUS
  <2>2. L + 1 - start \in 0 .. L /\ L + 1 - (L + 1 - start) = start
        BY <2>1
  <2>3. QED
        BY <2>2
<1>4. PICK k \in T : \A j \in T : ~(<<j, k>> \in OpToRel(<, Nat))
      BY <1>2, <1>3, NatLessThanWellFounded, WFMin
<1>5. \A j \in T : ~(j < k)
      BY <1>2, <1>4 DEF OpToRel
<1>6. k \in 0 .. L /\ L + 1 - k \in Bad
      OBVIOUS
<1>7. PICK later \in Bad : later > L + 1 - k
      BY <1>6
<1>8. later \in 1 .. L + 1
      OBVIOUS
<1>9. L + 1 - later \in 0 .. L /\ L + 1 - (L + 1 - later) = later /\ L + 1 - later < k
      BY <1>6, <1>7, <1>8
<1>10. L + 1 - later \in T
       BY <1>9
<1>11. QED
       BY <1>5, <1>9, <1>10

\* Sequences of the same length and members are the same.
LEMMA SameSequence ==
    ASSUME NEW p, IsSequence(p), NEW q, IsSequence(q), Len(p) = Len(q),
           \A i \in 1 .. Len(p) : p[i] = q[i]
    PROVE  p = q
<1>1. PICK n : n = Len(p)
      OBVIOUS
<1>2. p = [i \in 1 .. n |-> p[i]] /\ q = [i \in 1 .. n |-> q[i]]
      BY <1>1 DEF IsSequence
<1>3. [i \in 1 .. n |-> p[i]] = [i \in 1 .. n |-> q[i]]
      BY <1>1
<1>4. QED
      BY <1>2, <1>3

\* The cells of a section, one by one.
LEMMA CellsAre ==
    ASSUME NEW s, s.length \in Nat
    PROVE  /\ IsSequence(Cells(s)) /\ Len(Cells(s)) = s.length
           /\ \A i \in 1 .. s.length : Cells(s)[i] = [of |-> s, at |-> i]
<1>1. PICK l, c : l = s.length /\ c = Cells(s)
      OBVIOUS
<1>2. c = [i \in 1 .. l |-> [of |-> s, at |-> i]]
      BY <1>1 DEF Cells
<1>3. /\ DOMAIN c = 1 .. l /\ Len(c) = l
      /\ \A i \in 1 .. l : c[i] = [of |-> s, at |-> i]
      BY <1>1, <1>2
<1>4. c = [i \in 1 .. Len(c) |-> c[i]]
      BY <1>2, <1>3
<1>5. QED
      BY <1>1, <1>3, <1>4 DEF IsSequence

\* Whatever a buffer holds, sections are read and cells kept.
LEMMA DrainedTyped ==
    ASSUME NEW b, IsBuffer(b), NEW garbage \in Garbage
    PROVE  /\ IsSequence(Drained(b, garbage).sections)
           /\ IsBuffer(Drained(b, garbage).buffer)
<1>1. PICK L \in Nat : L = Len(b)
      BY DEF IsBuffer, IsSequence
<1>2. PICK drain : /\ Drained(b, garbage) = drain[1]
                   /\ \A start \in 1 .. L + 1 : GivesNext(b, garbage, drain, start, L)
      BY <1>1, DrainedSteps
<1> DEFINE Good(start) == IsSequence(drain[start].sections) /\ IsBuffer(drain[start].buffer)
           Bad == {start \in 1 .. L + 1 : ~Good(start)}
<1>3. IsSequence(<< >>) /\ IsBuffer(<< >>)
  <2>1. Len(<< >>) = 0 /\ << >> = [i \in 1 .. 0 |-> << >>[i]] /\ DOMAIN << >> = {}
        OBVIOUS
  <2>2. QED
        BY <2>1 DEF IsSequence, IsBuffer
<1>4. ASSUME NEW start \in 1 .. L + 1, ~\E later \in Bad : later > start
      PROVE  Good(start)
  <2>1. PICK r, e : r = Rest(b, start) /\ e = SectionEnd(r, garbage)
        OBVIOUS
  <2>2. IsBuffer(r) /\ Len(r) = L - start + 1
        BY <1>1, <2>1, RestIs
  <2>3. GivesNext(b, garbage, drain, start, L)
        BY <1>2
  <2>4. CASE drain[start] = [sections |-> << >>, buffer |-> << >>]
        BY <1>3, <2>4
  <2>5. CASE drain[start] = [sections |-> << >>, buffer |-> r]
        BY <1>3, <2>2, <2>5
  <2>6. CASE /\ e \in 1 .. L - start + 1
             /\ drain[start].sections = <<SubSeq(r, 1, e)>> \o drain[start + e].sections
             /\ drain[start].buffer = drain[start + e].buffer
    <3>1. start + e \in 1 .. L + 1 /\ start + e > start
          BY <2>6
    <3>2. Good(start + e)
          BY <1>4, <3>1
    <3>3. PICK h, t : h = <<SubSeq(r, 1, e)>> /\ t = drain[start + e].sections
          OBVIOUS
    <3>4. IsSequence(h)
      <4>1. Len(h) = 1 /\ h = [i \in 1 .. 1 |-> h[i]]
            BY <3>3
      <4>2. QED
            BY <4>1 DEF IsSequence
    <3>5. IsSequence(h \o t)
          BY <3>2, <3>3, <3>4, Joined
    <3>6. QED
          BY <2>6, <3>2, <3>3, <3>5
  <2>7. QED
        BY <2>1, <2>3, <2>4, <2>5, <2>6 DEF GivesNext
<1> HIDE DEF Good
<1>5. Bad = {}
  <2>1. \A start \in Bad : \E later \in Bad : later > start
        BY <1>4
  <2>2. Bad \subseteq 1 .. L + 1
        OBVIOUS
  <2> HIDE DEF Bad
  <2>3. QED
        BY <2>1, <2>2, FromTheEnd
<1>6. 1 \in 1 .. L + 1
      OBVIOUS
<1>7. Good(1)
      BY <1>5, <1>6
<1>8. QED
      BY <1>2, <1>7 DEF Good

\* What is left open at the end of a row.
Remains(b) ==
    IF b # << >> /\ Opens(b[Len(b)]) THEN SubSeq(Cells(b[Len(b)].of), 1, b[Len(b)].at)
    ELSE << >>

\* In a row, a section or stuffing follows the end of a section, and a cell of a
\* section is as far from its first one as its place says.
LEMMA RowGoesOn ==
    ASSUME NEW b, InRow(b), NEW L \in Nat, DOMAIN b = 1 .. L, NEW i \in 1 .. L,
           ~IsStuffing(b[i]), b[i].at = 1
    PROVE  /\ b[i].of.length \in Nat /\ b[i].of.length >= HeaderLength
           /\ \A k \in 1 .. b[i].of.length :
                 i + k - 1 <= L => b[i + k - 1] = [of |-> b[i].of, at |-> k]
<1>1. PICK c, s, l : c = b[i] /\ s = c.of /\ l = s.length
      OBVIOUS
<1>2. IsCell(c)
      BY <1>1 DEF InRow
<1>3. /\ c = [of |-> s, at |-> 1] /\ l \in Nat /\ l >= HeaderLength
      BY <1>1, <1>2 DEF IsCell, IsStuffing
<1>4. ASSUME NEW k \in 1 .. l, i + k - 1 <= L
      PROVE  b[i + k - 1] = [of |-> s, at |-> k]
  <2>1. CASE k = 1
    <3>1. i + k - 1 = i
          BY <2>1
    <3>2. QED
          BY <1>1, <1>3, <2>1, <3>1
  <2>2. CASE k # 1
    <3>1. PICK j : j = i + k - 1
          OBVIOUS
    <3>2. k \in Nat /\ k <= l /\ k > 1
          BY <1>3, <1>4, <2>2
    <3>3. j \in 1 .. L /\ i < j /\ j - i = k - 1 /\ 1 + (j - i) = k
          BY <1>4, <3>1, <3>2
    <3>4. Left(c) = l - 1
          BY <1>1, <1>3 DEF Left
    <3>5. j - i <= Left(c)
          BY <1>3, <3>2, <3>3, <3>4
    <3>6. b[j] = [of |-> c.of, at |-> c.at + (j - i)]
          BY <1>1, <3>3, <3>5 DEF InRow
    <3>7. c.of = s /\ c.at = 1
          BY <1>1
    <3>8. QED
          BY <3>1, <3>3, <3>6, <3>7
  <2>3. QED
        BY <2>1, <2>2
<1>5. QED
      BY <1>1, <1>3, <1>4

\* After the end of a section comes stuffing, or the first cell of the next.
LEMMA RowEnds ==
    ASSUME NEW b, InRow(b), NEW L \in Nat, DOMAIN b = 1 .. L, NEW i \in 1 .. L - 1,
           EndsSection(b[i])
    PROVE  IsStuffing(b[i + 1]) \/ b[i + 1].at = 1
<1>1. PICK j : j = i + 1
      OBVIOUS
<1>2. i \in DOMAIN b /\ j \in DOMAIN b /\ i < j /\ j - i = 1
      BY <1>1
<1>3. ~IsStuffing(b[i]) /\ Left(b[i]) = 0
      BY DEF EndsSection
<1>4. ~(j - i <= Left(b[i])) /\ j - i = Left(b[i]) + 1
      BY <1>2, <1>3
<1>5. IsStuffing(b[j]) \/ b[j].at = 1
      BY <1>2, <1>3, <1>4 DEF InRow
<1>6. QED
      BY <1>1, <1>5

\* After stuffing comes only stuffing.
LEMMA RowStuffed ==
    ASSUME NEW b, InRow(b), NEW L \in Nat, DOMAIN b = 1 .. L, NEW i \in 1 .. L,
           IsStuffing(b[i]), NEW j \in i .. L
    PROVE  IsStuffing(b[j])
<1>1. CASE j = i
      BY <1>1
<1>2. CASE j # i
  <2>1. i \in DOMAIN b /\ j \in DOMAIN b /\ i < j
        BY <1>2
  <2>2. QED
        BY <2>1 DEF InRow
<1>3. QED
      BY <1>1, <1>2

\* What a cell of a section says of where it is.
LEMMA CellAt ==
    ASSUME NEW s, s # Stuffing, s.length \in Nat, NEW k \in Nat, NEW cell,
           cell = [of |-> s, at |-> k]
    PROVE  /\ ~IsStuffing(cell) /\ Left(cell) = s.length - k
           /\ EndsSection(cell) <=> k = s.length
           /\ Opens(cell) <=> k # s.length
<1>1. cell.of = s /\ cell.at = k
      OBVIOUS
<1>2. ~IsStuffing(cell) /\ Left(cell) = s.length - k
      BY <1>1 DEF IsStuffing, Left
<1>3. s.length - k = 0 <=> k = s.length
      OBVIOUS
<1>4. QED
      BY <1>2, <1>3 DEF EndsSection, Opens

\* The places after the d-th at which a section ends.
Endings(cells, d, M) == {j \in d + 1 .. M : EndsSection(cells[j])}

\* A row that begins with a section: the beginning of one in the buffer and the
\* payload of a packet, or a part of it.  Its cells after the p-th are those of the
\* payload after the d-th.
BeginsRow(b, L, big, M, p, d) ==
    /\ IsBuffer(b) /\ InRow(b) /\ L \in Nat /\ Len(b) = L
    /\ L > 0 => IsStuffing(b[1]) \/ b[1].at = 1
    /\ M \in Nat /\ DOMAIN big = 1 .. M
    /\ p \in Nat /\ d \in Nat /\ p <= L /\ d <= M /\ M - d = L - p
    /\ \A i \in p + 1 .. L : b[i] = big[i - p + d]
    /\ \A i \in 1 .. p : ~EndsSection(b[i])

\* Of a row that begins with a section just its sections are read.
LEMMA DrainedRow ==
    ASSUME NEW b, NEW L, NEW big, NEW M, NEW p, NEW d, BeginsRow(b, L, big, M, p, d),
           NEW garbage \in Garbage
    PROVE  /\ Drained(b, garbage).sections =
                 Listed(big, Endings(big, d, M))
           /\ Drained(b, garbage).buffer = Remains(b)
<1> SUFFICES
       ASSUME IsBuffer(b), InRow(b), L \in Nat, Len(b) = L,
              L > 0 => IsStuffing(b[1]) \/ b[1].at = 1,
              M \in Nat, DOMAIN big = 1 .. M,
              p \in Nat, d \in Nat, p <= L, d <= M, M - d = L - p,
              \A i \in p + 1 .. L : b[i] = big[i - p + d],
              \A i \in 1 .. p : ~EndsSection(b[i])
       PROVE  /\ Drained(b, garbage).sections =
                    Listed(big, Endings(big, d, M))
              /\ Drained(b, garbage).buffer = Remains(b)
      BY DEF BeginsRow
<1> DEFINE E(start) == {j \in d + 1 .. M : EndsSection(big[j]) /\ j - d + p >= start}
           Begins1(start) == start = 1 \/ EndsSection(b[start - 1])
<1>1. PICK drain : /\ Drained(b, garbage) = drain[1]
                   /\ \A start \in 1 .. L + 1 : GivesNext(b, garbage, drain, start, L)
      BY DrainedSteps
<1> DEFINE Good(start) == /\ drain[start].sections = Listed(big, E(start))
                          /\ drain[start].buffer = Remains(b)
           Bad == {start \in 1 .. L + 1 : Begins1(start) /\ ~Good(start)}
<1>2. DOMAIN b = 1 .. L /\ (b = << >> <=> L = 0)
  <2>1. b = [i \in 1 .. L |-> b[i]]
        BY DEF IsBuffer, IsSequence
  <2>2. QED
        BY <2>1
<1>3. ASSUME NEW j \in d + 1 .. M
      PROVE  /\ j - d + p \in p + 1 .. L /\ b[j - d + p] = big[j]
             /\ j - d + p \in 1 .. L
  <2>1. PICK i : i = j - d + p
        OBVIOUS
  <2>2. i \in p + 1 .. L /\ i - p + d = j
        BY <2>1
  <2>3. b[i] = big[j]
        BY <2>2
  <2>4. QED
        BY <2>1, <2>2, <2>3
<1>4. ASSUME NEW start \in 1 .. L + 1
      PROVE  /\ E(start) \subseteq Nat /\ IsFiniteSet(E(start))
             /\ (\A i \in start .. L : ~EndsSection(b[i])) => E(start) = {}
  <2>1. E(start) \in SUBSET (d + 1 .. M)
        OBVIOUS
  <2>2. ASSUME \A i \in start .. L : ~EndsSection(b[i]), NEW j \in E(start)
        PROVE  FALSE
    <3>1. PICK i : i = j - d + p
          OBVIOUS
    <3>2. i \in start .. L /\ b[i] = big[j] /\ EndsSection(big[j])
          BY <1>3, <3>1
    <3>3. QED
          BY <2>2, <3>2
  <2>3. E(start) \subseteq Nat
        OBVIOUS
  <2>4. (\A i \in start .. L : ~EndsSection(b[i])) => E(start) = {}
        BY <2>2
  <2>5. IsFiniteSet(d + 1 .. M)
        BY FS_Interval
  <2> HIDE DEF E
  <2>6. QED
        BY <2>1, <2>3, <2>4, <2>5, FS_Subset
<1>5. ASSUME NEW start \in 1 .. L + 1, Begins1(start), ~\E later \in Bad : later > start
      PROVE  Good(start)
  <2>1. PICK r, e, left :
           r = Rest(b, start) /\ e = SectionEnd(r, garbage) /\ left = L - start + 1
        OBVIOUS
  <2>2. /\ IsBuffer(r) /\ Len(r) = left /\ left \in Nat
        /\ \A k \in 1 .. left : r[k] = b[start + k - 1]
    <3>1. left \in Nat
          BY <2>1
    <3>2. /\ IsBuffer(Rest(b, start)) /\ Len(Rest(b, start)) = L - start + 1
          /\ \A k \in 1 .. L - start + 1 : Rest(b, start)[k] = b[start + k - 1]
          BY RestIs
    <3>3. QED
          BY <2>1, <3>1, <3>2
  <2>3. GivesNext(b, garbage, drain, start, L)
        BY <1>1
  <2>4. CASE start = L + 1
    <3>1. left = 0 /\ r = << >>
      <4>1. left = 0
            BY <2>1, <2>4
      <4>2. r = [i \in 1 .. 0 |-> r[i]]
            BY <2>2, <4>1 DEF IsBuffer, IsSequence
      <4>3. QED
            BY <4>1, <4>2
    <3>2. drain[start] = [sections |-> << >>, buffer |-> << >>]
          BY <2>1, <2>3, <3>1 DEF GivesNext, HeaderLength
    <3>3. E(start) = {}
      <4>1. \A i \in start .. L : ~EndsSection(b[i])
            BY <2>4
      <4>2. QED
            BY <1>4, <4>1
    <3>4. Remains(b) = << >>
      <4>1. CASE L = 0
            BY <1>2, <4>1 DEF Remains
      <4>2. CASE L # 0
        <5>1. EndsSection(b[L])
              BY <1>5, <2>4, <4>2
        <5>2. QED
              BY <5>1 DEF Remains, Opens
      <4>3. QED
            BY <4>1, <4>2
    <3> HIDE DEF E
    <3>5. QED
          BY <3>2, <3>3, <3>4, ListedNothing
  <2>5. CASE start # L + 1
    <3>1. PICK c : c = b[start]
          OBVIOUS
    <3>2. start \in 1 .. L /\ left >= 1 /\ r[1] = c /\ r # << >>
      <4>1. start \in 1 .. L /\ left >= 1 /\ 1 \in 1 .. left /\ start + 1 - 1 = start
            BY <2>1, <2>5
      <4>2. r[1] = c
            BY <2>2, <3>1, <4>1
      <4>3. r # << >>
            BY <2>2, <4>1
      <4>4. QED
            BY <4>1, <4>2, <4>3
    <3>3. IsStuffing(c) \/ c.at = 1
      <4>1. CASE start = 1
            BY <3>1, <3>2, <4>1
      <4>2. CASE start # 1
        <5>1. PICK i : i = start - 1
              OBVIOUS
        <5>2. i \in 1 .. L - 1 /\ i + 1 = start /\ EndsSection(b[i])
              BY <1>5, <3>2, <4>2, <5>1
        <5>3. IsStuffing(b[i + 1]) \/ b[i + 1].at = 1
              BY <1>2, <5>2, RowEnds
        <5>4. QED
              BY <3>1, <5>2, <5>3
      <4>3. QED
            BY <4>1, <4>2
    <3>4. CASE IsStuffing(c)
      <4>1. SkipsRest(r, garbage)
            BY <3>2, <3>4 DEF SkipsRest
      <4>2. drain[start] = [sections |-> << >>, buffer |-> << >>]
            BY <2>1, <2>3, <3>2, <4>1 DEF GivesNext
      <4>3. \A i \in start .. L : IsStuffing(b[i])
            BY <1>2, <3>1, <3>2, <3>4, RowStuffed
      <4>4. E(start) = {}
        <5>1. \A i \in start .. L : ~EndsSection(b[i])
              BY <4>3 DEF EndsSection
        <5>2. QED
              BY <1>4, <5>1
      <4>5. Remains(b) = << >>
        <5>1. IsStuffing(b[L])
              BY <3>2, <4>3
        <5>2. QED
              BY <5>1 DEF Remains, Opens
      <4> HIDE DEF E
      <4>6. QED
            BY <4>2, <4>4, <4>5, ListedNothing
    <3>5. CASE ~IsStuffing(c)
      <4>1. PICK s, l : s = c.of /\ l = s.length
            OBVIOUS
      <4>2. /\ l \in Nat /\ l >= 2 /\ s # Stuffing
            /\ \A k \in 1 .. l : start + k - 1 <= L => b[start + k - 1] = [of |-> s, at |-> k]
        <5>1. ~IsStuffing(b[start]) /\ b[start].at = 1 /\ b[start].of = s
              BY <3>1, <3>3, <3>5, <4>1
        <5>2. /\ l \in Nat /\ l >= 2
              /\ \A k \in 1 .. l : start + k - 1 <= L => b[start + k - 1] = [of |-> s, at |-> k]
          <6>1. /\ b[start].of.length \in Nat /\ b[start].of.length >= HeaderLength
                /\ \A k \in 1 .. b[start].of.length :
                      start + k - 1 <= L =>
                          b[start + k - 1] = [of |-> b[start].of, at |-> k]
                BY <1>2, <3>2, <5>1, RowGoesOn
          <6>2. QED
                BY <4>1, <5>1, <6>1 DEF HeaderLength
        <5>3. s # Stuffing
              BY <3>5, <4>1 DEF IsStuffing
        <5>4. QED
              BY <5>2, <5>3
      <4>3. ASSUME NEW k \in 1 .. l, k <= left
            PROVE  /\ r[k] = [of |-> s, at |-> k] /\ b[start + k - 1] = [of |-> s, at |-> k]
                   /\ EndsSection(b[start + k - 1]) <=> k = l
                   /\ Opens(b[start + k - 1]) <=> k # l
        <5>1. k \in 1 .. left /\ start + k - 1 <= L /\ k \in Nat
              BY <2>1, <2>2, <4>2, <4>3
        <5>2. b[start + k - 1] = [of |-> s, at |-> k]
              BY <4>2, <5>1
        <5>3. /\ EndsSection(b[start + k - 1]) <=> k = l
              /\ Opens(b[start + k - 1]) <=> k # l
              BY <4>1, <4>2, <5>1, <5>2, CellAt
        <5>4. r[k] = [of |-> s, at |-> k]
              BY <2>2, <5>1, <5>2
        <5>5. QED
              BY <5>2, <5>3, <5>4
      <4>4. ~SkipsRest(r, garbage)
            BY <3>2, <3>3, <3>5 DEF SkipsRest
      <4>5. left >= 2 => e = l
        <5>1. SUFFICES ASSUME left >= 2 PROVE e = l
              OBVIOUS
        <5>2. 2 \in 1 .. l /\ 2 <= left
              BY <4>2, <5>1
        <5>3. r[2] = [of |-> s, at |-> 2]
              BY <4>3, <5>2
        <5>4. QED
              BY <2>1, <4>1, <5>3 DEF SectionEnd
      <4>6. CASE left < l
        <5>1. drain[start] = [sections |-> << >>, buffer |-> r]
          <6>1. left \in Nat /\ (left < 2 \/ left < e)
                BY <2>1, <4>2, <4>5, <4>6
          <6>2. ~(left >= 2 /\ e \in 1 .. left)
                BY <6>1
          <6>3. QED
                BY <2>1, <2>2, <2>3, <4>4, <6>2 DEF GivesNext, HeaderLength
        <5>2. E(start) = {}
          <6>1. ASSUME NEW i \in start .. L PROVE ~EndsSection(b[i])
            <7>1. PICK k : k = i - start + 1
                  OBVIOUS
            <7>2. k \in 1 .. l /\ k <= left /\ start + k - 1 = i /\ k # l
                  BY <2>1, <3>2, <4>2, <4>6, <6>1, <7>1
            <7>3. QED
                  BY <4>3, <7>2
          <6>2. QED
                BY <1>4, <6>1
        <5>3. Remains(b) = r
          <6>1. left \in 1 .. l /\ left <= left /\ start + left - 1 = L /\ left # l
            <7>1. left \in Nat /\ left >= 1
                  BY <2>2, <3>2
            <7>2. l \in Nat /\ left < l
                  BY <4>2, <4>6
            <7>3. left = L - start + 1
                  BY <2>1
            <7>4. QED
                  BY <7>1, <7>2, <7>3
          <6>2. b[L] = [of |-> s, at |-> left] /\ Opens(b[L])
                BY <4>3, <6>1
          <6>3. Remains(b) = SubSeq(Cells(s), 1, left)
            <7>1. b[Len(b)].of = s /\ b[Len(b)].at = left /\ b # << >>
                  BY <1>2, <3>2, <6>2
            <7>2. QED
                  BY <6>2, <7>1 DEF Remains
          <6>4. PICK q : q = SubSeq(Cells(s), 1, left)
                OBVIOUS
          <6>5. /\ IsSequence(Cells(s)) /\ Len(Cells(s)) = l
                /\ \A i \in 1 .. l : Cells(s)[i] = [of |-> s, at |-> i]
                BY <4>1, <4>2, CellsAre
          <6>6. /\ IsSequence(q) /\ Len(q) = left
                /\ \A i \in 1 .. left : q[i] = Cells(s)[i]
            <7>1. 1 \in Nat \ {0} /\ left <= Len(Cells(s)) /\ 1 <= left + 1 /\ left - 1 + 1 = left
                  BY <2>2, <4>6, <6>5
            <7>2. /\ IsSequence(q) /\ Len(q) = left - 1 + 1
                  /\ \A i \in 1 .. left - 1 + 1 : q[i] = Cells(s)[1 + i - 1]
                  BY <2>2, <6>4, <6>5, <7>1, Part
            <7>3. \A i \in 1 .. left : 1 + i - 1 = i
                  BY <2>2
            <7>4. QED
                  BY <7>1, <7>2, <7>3
          <6>7. \A i \in 1 .. left : q[i] = r[i]
            <7>1. \A i \in 1 .. left : i \in 1 .. l /\ i <= left
                  BY <2>2, <4>2, <4>6
            <7>2. ASSUME NEW i \in 1 .. left
                  PROVE  q[i] = r[i]
              <8>1. i \in 1 .. l /\ i <= left
                    BY <7>1
              <8>2. q[i] = Cells(s)[i] /\ Cells(s)[i] = [of |-> s, at |-> i]
                    BY <6>5, <6>6, <8>1
              <8>3. r[i] = [of |-> s, at |-> i]
                    BY <4>3, <8>1
              <8>4. QED
                    BY <8>2, <8>3
            <7>3. QED
                  BY <7>2
          <6>8. q = r
                BY <2>2, <6>6, <6>7, SameSequence DEF IsBuffer
          <6>9. QED
                BY <6>3, <6>4, <6>8
        <5> HIDE DEF E
        <5>4. QED
              BY <5>1, <5>2, <5>3, ListedNothing
      <4>7. CASE left >= l
        <5>1. e = l /\ left >= 2
              BY <2>2, <4>2, <4>5, <4>7
        <5>2. /\ drain[start].sections = <<SubSeq(r, 1, l)>> \o drain[start + l].sections
              /\ drain[start].buffer = drain[start + l].buffer
              BY <2>1, <2>3, <4>2, <4>4, <4>7, <5>1 DEF GivesNext, HeaderLength
        <5>3. SubSeq(r, 1, l) = Cells(s)
          <6>1. PICK q : q = SubSeq(r, 1, l)
                OBVIOUS
          <6>2. /\ IsSequence(Cells(s)) /\ Len(Cells(s)) = l
                /\ \A i \in 1 .. l : Cells(s)[i] = [of |-> s, at |-> i]
                BY <4>1, <4>2, CellsAre
          <6>3. /\ IsSequence(q) /\ Len(q) = l /\ \A i \in 1 .. l : q[i] = r[i]
            <7>1. 1 \in Nat \ {0} /\ l <= Len(r) /\ 1 <= l + 1 /\ l - 1 + 1 = l
                  BY <2>2, <4>2, <4>7
            <7>2. /\ IsSequence(q) /\ Len(q) = l - 1 + 1
                  /\ \A i \in 1 .. l - 1 + 1 : q[i] = r[1 + i - 1]
              <8>1. IsSequence(r) /\ l \in Nat
                    BY <2>2, <4>2 DEF IsBuffer
              <8>2. QED
                    BY <6>1, <7>1, <8>1, Part
            <7>3. \A i \in 1 .. l : 1 + i - 1 = i
                  BY <4>2
            <7>4. QED
                  BY <7>1, <7>2, <7>3
          <6>4. \A i \in 1 .. l : q[i] = Cells(s)[i]
            <7>1. \A i \in 1 .. l : i <= left
                  BY <2>2, <4>2, <4>7
            <7>2. QED
                  BY <4>3, <6>2, <6>3, <7>1
          <6>5. q = Cells(s)
                BY <6>2, <6>3, <6>4, SameSequence
          <6>6. QED
                BY <6>1, <6>5
        <5>4. PICK then, x : then = start + l /\ x = start + l - 1 - p + d
              OBVIOUS
        <5>5. then \in 1 .. L + 1 /\ then > start /\ then - 1 = start + l - 1
              /\ then - 1 \in 1 .. L
              BY <2>1, <3>2, <4>2, <4>7, <5>4
        <5>6. /\ b[then - 1] = [of |-> s, at |-> l] /\ EndsSection(b[then - 1])
          <6>1. l \in 1 .. l /\ l <= left
                BY <4>2, <4>7
          <6>2. QED
                BY <4>3, <5>5, <6>1
        <5>7. x \in d + 1 .. M /\ x - d + p = then - 1 /\ big[x] = b[then - 1]
          <6>1. ~(then - 1 \in 1 .. p)
                BY <5>6
          <6>2. then - 1 \in p + 1 .. L
                BY <5>5, <6>1
          <6>3. x = then - 1 - p + d
                BY <3>2, <4>2, <5>4
          <6>4. x \in d + 1 .. M /\ x - d + p = then - 1
            <7>1. PICK y : y = then - 1
                  OBVIOUS
            <7>2. y \in Int /\ y > p /\ y <= L /\ x = y - p + d
                  BY <6>2, <6>3, <7>1
            <7>3. x > d /\ x <= M /\ x \in Int /\ x - d + p = y
                  BY <7>2
            <7>4. QED
                  BY <7>1, <7>3
          <6>5. QED
                BY <1>3, <6>4
        <5>8. Good(then)
          <6>1. Begins1(then)
                BY <5>6
          <6>2. then \notin Bad
                BY <1>5, <5>5
          <6> HIDE DEF Good, Begins1
          <6>3. QED
                BY <5>5, <6>1, <6>2
        <5>9. E(start) = {x} \cup E(then) /\ \A m \in E(then) : x < m
          <6>1. ASSUME NEW j \in E(start), j # x
                PROVE  j \in E(then)
            <7>1. PICK i : i = j - d + p
                  OBVIOUS
            <7>2. /\ j \in d + 1 .. M /\ i \in 1 .. L /\ b[i] = big[j] /\ i >= start
                  /\ EndsSection(b[i])
                  BY <1>3, <6>1, <7>1
            <7>3. PICK k : k = i - start + 1
                  OBVIOUS
            <7>4. CASE i < then
              <8>1. k \in 1 .. l /\ k <= left /\ start + k - 1 = i
                    BY <2>1, <3>2, <4>2, <4>7, <5>4, <7>2, <7>3, <7>4
              <8>2. k = l
                    BY <4>3, <7>2, <8>1
              <8>3. j = x
                    BY <3>2, <4>2, <5>4, <7>1, <7>2, <7>3, <8>2
              <8>4. QED
                    BY <6>1, <8>3
            <7>5. CASE i >= then
                  BY <6>1, <7>1, <7>5
            <7>6. QED
                  BY <5>5, <7>2, <7>4, <7>5
          <6>2. E(then) \subseteq E(start)
                BY <5>5
          <6>3. x \in E(start)
                BY <5>5, <5>6, <5>7
          <6>4. \A m \in E(then) : x < m
                BY <5>5, <5>7
          <6> HIDE DEF E
          <6>5. QED
                BY <6>1, <6>2, <6>3, <6>4
        <5>10. Listed(big, E(start)) = <<Cells(s)>> \o Listed(big, E(then))
          <6>1. E(then) \subseteq Nat /\ IsFiniteSet(E(then))
            <7> HIDE DEF E
            <7>1. QED
                  BY <1>4, <5>5
          <6>2. x \in Nat
                BY <5>7
          <6>3. big[x].of = s
                BY <5>6, <5>7
          <6> HIDE DEF E
          <6>4. Listed(big, {x} \cup E(then)) = <<Cells(big[x].of)>> \o Listed(big, E(then))
                BY <5>9, <6>1, <6>2, ListedPrepends
          <6>5. QED
                BY <5>9, <6>3, <6>4
        <5> HIDE DEF E
        <5>11. drain[then].sections = Listed(big, E(then)) /\ drain[then].buffer = Remains(b)
               BY <5>8
        <5>12. drain[start].sections = Listed(big, E(start))
          <6>1. drain[start].sections = <<Cells(s)>> \o drain[then].sections
                BY <5>2, <5>3, <5>4
          <6>2. QED
                BY <5>10, <5>11, <6>1
        <5>13. drain[start].buffer = Remains(b)
               BY <5>2, <5>4, <5>11
        <5>14. QED
               BY <5>12, <5>13
      <4>8. left < l \/ left >= l
        <5>1. left \in Nat /\ l \in Nat
              BY <2>2, <4>2
        <5>2. QED
              BY <5>1
      <4>9. QED
            BY <4>6, <4>7, <4>8
    <3>6. QED
          BY <3>4, <3>5
  <2>6. QED
        BY <2>4, <2>5
<1>6. Bad = {}
  <2>1. \A start \in Bad : \E later \in Bad : later > start
        BY <1>5
  <2>2. Bad \subseteq 1 .. L + 1
        OBVIOUS
  <2> HIDE DEF Bad
  <2>3. QED
        BY <2>1, <2>2, FromTheEnd
<1>7. Good(1)
  <2>1. 1 \in 1 .. L + 1 /\ Begins1(1)
        OBVIOUS
  <2> HIDE DEF Good, Begins1
  <2>2. QED
        BY <1>6, <2>1
<1>8. E(1) = Endings(big, d, M)
  <2>1. ASSUME NEW j \in d + 1 .. M
        PROVE  j - d + p >= 1
    <3>1. j - d + p \in 1 .. L
          BY <1>3
    <3>2. QED
          BY <3>1
  <2>2. QED
        BY <2>1 DEF Endings
<1> HIDE DEF E
<1>9. QED
      BY <1>1, <1>7, <1>8

-----------------------------------------------------------------------------
(* What is read of a packet.                                                *)

\* A part of a row is a row.
LEMMA PartOfRow ==
    ASSUME NEW b, IsBuffer(b), InRow(b), NEW L \in Nat, Len(b) = L,
           NEW i \in Nat \ {0}, NEW j \in Nat, j <= L, i <= j + 1
    PROVE  /\ IsBuffer(SubSeq(b, i, j)) /\ InRow(SubSeq(b, i, j))
           /\ Len(SubSeq(b, i, j)) = j - i + 1
           /\ \A k \in 1 .. j - i + 1 : SubSeq(b, i, j)[k] = b[i + k - 1]
<1>1. PICK t, n : t = SubSeq(b, i, j) /\ n = j - i + 1
      OBVIOUS
<1>2. n \in Nat /\ IsSequence(b) /\ DOMAIN b = 1 .. L
      BY <1>1 DEF IsBuffer, IsSequence
<1>3. /\ IsSequence(t) /\ Len(t) = n /\ DOMAIN t = 1 .. n
      /\ \A k \in 1 .. n : t[k] = b[i + k - 1]
  <2>1. /\ IsSequence(SubSeq(b, i, j)) /\ Len(SubSeq(b, i, j)) = j - i + 1
        /\ \A k \in 1 .. j - i + 1 : SubSeq(b, i, j)[k] = b[i + k - 1]
    <3>1. IsSequence(b) /\ j <= Len(b)
          BY <1>2
    <3>2. IsSequence(SubSeq(b, i, j)) /\ Len(SubSeq(b, i, j)) = j - i + 1
          BY <3>1, Part
    <3>3. \A k \in 1 .. j - i + 1 : SubSeq(b, i, j)[k] = b[i + k - 1]
          BY <3>1, Part
    <3>4. QED
          BY <3>2, <3>3
  <2>2. t = SubSeq(b, i, j) /\ n = j - i + 1
        BY <1>1
  <2>3. /\ IsSequence(t) /\ Len(t) = n
        /\ \A k \in 1 .. n : t[k] = b[i + k - 1]
        BY <2>1, <2>2, Zenon
  <2>4. QED
        BY <2>3 DEF IsSequence
<1>4. ASSUME NEW k \in 1 .. n
      PROVE  i + k - 1 \in 1 .. L /\ t[k] = b[i + k - 1]
      BY <1>1, <1>2, <1>3
<1>5. ASSUME NEW k \in 1 .. n
      PROVE  IsCell(t[k])
  <2>1. PICK x : x = i + k - 1
        OBVIOUS
  <2>2. x \in DOMAIN b /\ t[k] = b[x]
        BY <1>2, <1>4, <2>1
  <2>3. QED
        BY <2>2 DEF IsBuffer
<1>6. ASSUME NEW k \in 1 .. n, NEW m \in 1 .. n, k < m
      PROVE  IF IsStuffing(t[k]) THEN IsStuffing(t[m])
             ELSE IF m - k <= Left(t[k])
             THEN t[m] = [of |-> t[k].of, at |-> t[k].at + (m - k)]
             ELSE m - k = Left(t[k]) + 1 => IsStuffing(t[m]) \/ t[m].at = 1
  <2>1. PICK x, y : x = i + k - 1 /\ y = i + m - 1
        OBVIOUS
  <2>2. x \in DOMAIN b /\ y \in DOMAIN b /\ t[k] = b[x] /\ t[m] = b[y]
        BY <1>2, <1>4, <2>1
  <2>3. x < y /\ y - x = m - k
        BY <1>1, <1>2, <1>6, <2>1
  <2>4. IF IsStuffing(b[x]) THEN IsStuffing(b[y])
        ELSE IF y - x <= Left(b[x])
        THEN b[y] = [of |-> b[x].of, at |-> b[x].at + (y - x)]
        ELSE y - x = Left(b[x]) + 1 => IsStuffing(b[y]) \/ b[y].at = 1
        BY <2>2, <2>3 DEF InRow
  <2>5. QED
        BY <2>2, <2>3, <2>4
<1>7. InRow(t)
      BY <1>3, <1>5, <1>6 DEF InRow
<1>8. IsBuffer(t)
      BY <1>3, <1>5 DEF IsBuffer
<1>9. QED
      BY <1>1, <1>3, <1>7, <1>8

\* A buffer holds all of the section that a packet goes on with.
Continued(buffer, cells, s, a) ==
    /\ s # Stuffing /\ s.length \in Nat /\ s.length >= HeaderLength
    /\ a \in Nat /\ 1 <= a /\ a < s.length
    /\ buffer = SubSeq(Cells(s), 1, a)
    /\ cells[1] = [of |-> s, at |-> a + 1]

\* The first cells of a section and the row that goes on with it are a row.
LEMMA RowJoined ==
    ASSUME NEW s, s # Stuffing, s.length \in Nat, s.length >= HeaderLength,
           NEW a \in Nat, 1 <= a, a < s.length,
           NEW t, IsBuffer(t), InRow(t), NEW n \in Nat \ {0}, Len(t) = n,
           t[1] = [of |-> s, at |-> a + 1],
           NEW buffer, buffer = SubSeq(Cells(s), 1, a)
    PROVE  /\ IsBuffer(buffer \o t) /\ InRow(buffer \o t) /\ Len(buffer \o t) = a + n
           /\ (buffer \o t)[1] = [of |-> s, at |-> 1]
           /\ \A i \in 1 .. a : ~EndsSection((buffer \o t)[i])
           /\ \A i \in a + 1 .. a + n : (buffer \o t)[i] = t[i - a]
<1>1. PICK l, b : l = s.length /\ b = buffer \o t
      OBVIOUS
<1>2. /\ IsSequence(buffer) /\ Len(buffer) = a
      /\ \A i \in 1 .. a : buffer[i] = [of |-> s, at |-> i]
  <2>1. /\ IsSequence(Cells(s)) /\ Len(Cells(s)) = l
        /\ \A i \in 1 .. l : Cells(s)[i] = [of |-> s, at |-> i]
        BY <1>1, CellsAre
  <2>2. 1 \in Nat \ {0} /\ a <= Len(Cells(s)) /\ 1 <= a + 1 /\ a - 1 + 1 = a
        BY <1>1, <2>1
  <2>3. /\ IsSequence(buffer) /\ Len(buffer) = a - 1 + 1
        /\ \A i \in 1 .. a - 1 + 1 : buffer[i] = Cells(s)[1 + i - 1]
        BY <2>1, <2>2, Part
  <2>4. \A i \in 1 .. a : 1 + i - 1 = i /\ i \in 1 .. l
        BY <1>1
  <2>5. QED
        BY <2>1, <2>2, <2>3, <2>4
<1>3. IsSequence(t) /\ DOMAIN t = 1 .. n
      BY DEF IsBuffer, IsSequence
<1>4. /\ IsSequence(b) /\ Len(b) = a + n /\ DOMAIN b = 1 .. a + n
      /\ \A i \in 1 .. a : b[i] = [of |-> s, at |-> i]
      /\ \A i \in a + 1 .. a + n : b[i] = t[i - a]
  <2>1. /\ IsSequence(b) /\ Len(b) = Len(buffer) + Len(t)
        /\ \A i \in 1 .. Len(buffer) : b[i] = buffer[i]
        /\ \A i \in Len(buffer) + 1 .. Len(buffer) + Len(t) : b[i] = t[i - Len(buffer)]
    <3>1. IsSequence(buffer) /\ IsSequence(t)
          BY <1>2, <1>3
    <3>2. IsSequence(buffer \o t) /\ Len(buffer \o t) = Len(buffer) + Len(t)
          BY <3>1, Joined
    <3>3. \A i \in 1 .. Len(buffer) : (buffer \o t)[i] = buffer[i]
          BY <3>1, Joined
    <3>4. \A i \in Len(buffer) + 1 .. Len(buffer) + Len(t) :
             (buffer \o t)[i] = t[i - Len(buffer)]
          BY <3>1, Joined
    <3>5. b = buffer \o t
          BY <1>1
    <3>6. QED
          BY <3>2, <3>3, <3>4, <3>5, Zenon
  <2>2. DOMAIN b = 1 .. Len(b)
        BY <2>1 DEF IsSequence
  <2>3. QED
        BY <1>2, <2>1, <2>2
<1>5. ASSUME NEW i \in 1 .. a
      PROVE  /\ b[i] = [of |-> s, at |-> i] /\ ~IsStuffing(b[i]) /\ Left(b[i]) = l - i
             /\ ~EndsSection(b[i]) /\ IsCell(b[i])
  <2>1. b[i] = [of |-> s, at |-> i] /\ i \in Nat
        BY <1>4
  <2>2. ~IsStuffing(b[i]) /\ Left(b[i]) = l - i /\ (EndsSection(b[i]) <=> i = l)
        BY <1>1, <2>1, CellAt
  <2>3. i # l /\ i \in 1 .. l
        BY <1>1
  <2>4. b[i].of = s /\ b[i].at = i
        BY <2>1
  <2>5. IsCell(b[i])
        BY <1>1, <2>1, <2>2, <2>3, <2>4 DEF IsCell
  <2>6. QED
        BY <2>1, <2>2, <2>3, <2>5
<1>6. ASSUME NEW j \in a + 1 .. a + n
      PROVE  j - a \in 1 .. n /\ b[j] = t[j - a] /\ IsCell(b[j])
  <2>1. PICK k : k = j - a
        OBVIOUS
  <2>2. k \in 1 .. n /\ b[j] = t[k]
        BY <1>4, <2>1
  <2>3. IsCell(t[k])
        BY <1>3, <2>2 DEF IsBuffer
  <2>4. QED
        BY <2>1, <2>2, <2>3
<1>7. \A i \in DOMAIN b : i \in 1 .. a \/ i \in a + 1 .. a + n
      BY <1>4
<1>8. IsBuffer(b)
      BY <1>4, <1>5, <1>6, <1>7 DEF IsBuffer
<1>9. ASSUME NEW i \in DOMAIN b, NEW j \in DOMAIN b, i < j
      PROVE  IF IsStuffing(b[i]) THEN IsStuffing(b[j])
             ELSE IF j - i <= Left(b[i])
             THEN b[j] = [of |-> b[i].of, at |-> b[i].at + (j - i)]
             ELSE j - i = Left(b[i]) + 1 => IsStuffing(b[j]) \/ b[j].at = 1
  <2>1. CASE i \in 1 .. a /\ j \in 1 .. a
    <3>1. j - i <= l - i /\ i + (j - i) = j
      <4>1. i \in Nat /\ j \in Nat /\ l \in Nat /\ j <= a /\ a < l
            BY <1>1, <2>1
      <4>2. QED
            BY <4>1
    <3>2. b[i].of = s /\ b[i].at = i /\ b[j] = [of |-> s, at |-> j]
      <4>1. b[i] = [of |-> s, at |-> i] /\ b[j] = [of |-> s, at |-> j]
            BY <1>5, <2>1
      <4>2. QED
            BY <4>1
    <3>3. ~IsStuffing(b[i]) /\ Left(b[i]) = l - i
          BY <1>5, <2>1
    <3>4. QED
          BY <3>1, <3>2, <3>3
  <2>2. CASE i \in 1 .. a /\ j \in a + 1 .. a + n
    <3>1. PICK k : k = j - a
          OBVIOUS
    <3>2. k \in 1 .. n /\ b[j] = t[k] /\ j = a + k
      <4>1. j - a \in 1 .. n /\ b[j] = t[j - a]
            BY <1>6, <2>2
      <4>2. j \in Nat
            BY <2>2
      <4>3. QED
            BY <3>1, <4>1, <4>2
    <3>3. /\ b[i].of = s /\ b[i].at = i /\ ~IsStuffing(b[i]) /\ Left(b[i]) = l - i
      <4>1. b[i] = [of |-> s, at |-> i] /\ ~IsStuffing(b[i]) /\ Left(b[i]) = l - i
            BY <1>5, <2>2
      <4>2. QED
            BY <4>1
    <3>4. CASE k = 1
      <4>1. b[j] = [of |-> s, at |-> j] /\ j - i <= l - i /\ i + (j - i) = j
            BY <1>1, <2>2, <3>2, <3>4
      <4>2. QED
            BY <3>3, <4>1
    <3>5. CASE k # 1
      <4>1. PICK c : c = t[1]
            OBVIOUS
      <4>2. c.of = s /\ c.at = a + 1 /\ ~IsStuffing(c) /\ Left(c) = l - (a + 1)
        <5>1. a + 1 \in Nat /\ c = [of |-> s, at |-> a + 1]
              BY <4>1
        <5>2. ~IsStuffing(c) /\ Left(c) = l - (a + 1)
              BY <1>1, <5>1, CellAt
        <5>3. QED
              BY <5>1, <5>2
      <4>3. 1 \in DOMAIN t /\ k \in DOMAIN t /\ 1 < k
            BY <1>3, <3>2, <3>5
      <4>4. IF k - 1 <= Left(c) THEN t[k] = [of |-> c.of, at |-> c.at + (k - 1)]
            ELSE k - 1 = Left(c) + 1 => IsStuffing(t[k]) \/ t[k].at = 1
            BY <4>1, <4>2, <4>3 DEF InRow
      <4>5. /\ k - 1 <= l - (a + 1) <=> j - i <= l - i
            /\ k - 1 = l - (a + 1) + 1 <=> j - i = l - i + 1
            /\ a + 1 + (k - 1) = j /\ i + (j - i) = j
        <5>1. i \in Nat /\ k \in Nat /\ l \in Nat /\ j = a + k
              BY <1>1, <2>2, <3>2
        <5>2. QED
              BY <5>1
      <4>6. CASE j - i <= l - i
        <5>1. t[k] = [of |-> s, at |-> j]
              BY <4>2, <4>4, <4>5, <4>6
        <5>2. QED
              BY <3>2, <3>3, <4>5, <4>6, <5>1
      <4>7. CASE ~(j - i <= l - i)
        <5>1. j - i = l - i + 1 => IsStuffing(b[j]) \/ b[j].at = 1
              BY <3>2, <4>2, <4>4, <4>5, <4>7
        <5>2. QED
              BY <3>3, <4>7, <5>1
      <4>8. QED
            BY <4>6, <4>7
    <3>6. QED
          BY <3>4, <3>5
  <2>3. CASE i \in a + 1 .. a + n
    <3>1. PICK x, y : x = i - a /\ y = j - a
          OBVIOUS
    <3>2. j \in a + 1 .. a + n
          BY <1>4, <1>9, <2>3
    <3>3. x \in DOMAIN t /\ y \in DOMAIN t /\ b[i] = t[x] /\ b[j] = t[y]
          BY <1>3, <1>6, <2>3, <3>1, <3>2
    <3>4. x < y /\ y - x = j - i
          BY <1>9, <2>3, <3>1, <3>2
    <3>5. IF IsStuffing(t[x]) THEN IsStuffing(t[y])
          ELSE IF y - x <= Left(t[x])
          THEN t[y] = [of |-> t[x].of, at |-> t[x].at + (y - x)]
          ELSE y - x = Left(t[x]) + 1 => IsStuffing(t[y]) \/ t[y].at = 1
          BY <3>3, <3>4 DEF InRow
    <3>6. QED
          BY <3>3, <3>4, <3>5
  <2>4. QED
        BY <1>7, <1>9, <2>1, <2>2, <2>3
<1>10. InRow(b)
  <2>1. \A i \in DOMAIN b : IsCell(b[i])
        BY <1>8 DEF IsBuffer
  <2>2. QED
        BY <1>9, <2>1 DEF InRow
<1>11. b[1] = [of |-> s, at |-> 1]
       BY <1>5
<1>12. QED
       BY <1>1, <1>4, <1>5, <1>8, <1>10, <1>11

\* Together they begin with a section.
LEMMA JoinedBegins ==
    ASSUME NEW t, IsBuffer(t), InRow(t), NEW n \in Nat \ {0}, Len(t) = n,
           NEW buffer, NEW s, NEW a, Continued(buffer, t, s, a)
    PROVE  BeginsRow(buffer \o t, a + n, t, n, a, 0)
<1>1. IsBuffer(buffer \o t)
      BY RowJoined DEF Continued
<1>2. InRow(buffer \o t)
      BY RowJoined DEF Continued
<1>3. Len(buffer \o t) = a + n
      BY RowJoined DEF Continued
<1>4. (buffer \o t)[1] = [of |-> s, at |-> 1]
      BY RowJoined DEF Continued
<1>5. \A i \in 1 .. a : ~EndsSection((buffer \o t)[i])
      BY RowJoined DEF Continued
<1>6. \A i \in a + 1 .. a + n : (buffer \o t)[i] = t[i - a]
      BY RowJoined DEF Continued
<1>7. a \in Nat
      BY DEF Continued
<1>8. PICK b, L : b = buffer \o t /\ L = a + n
      OBVIOUS
<1>9. /\ IsBuffer(b) /\ InRow(b) /\ L \in Nat /\ Len(b) = L /\ b[1].at = 1
      /\ \A i \in 1 .. a : ~EndsSection(b[i])
      BY <1>1, <1>2, <1>3, <1>4, <1>5, <1>7, <1>8
<1>10. ASSUME NEW i \in a + 1 .. L
       PROVE  b[i] = t[i - a + 0]
  <2>1. i - a + 0 = i - a /\ i \in a + 1 .. a + n
        BY <1>7, <1>8
  <2>2. QED
        BY <1>6, <1>8, <2>1
<1>11. n \in Nat /\ DOMAIN t = 1 .. n
       BY DEF IsBuffer, IsSequence
<1>12. 0 \in Nat /\ a <= L /\ 0 <= n /\ n - 0 = L - a
       BY <1>7, <1>8
<1>13. BeginsRow(b, L, t, n, a, 0)
       BY <1>7, <1>9, <1>10, <1>11, <1>12 DEF BeginsRow
<1>14. QED
       BY <1>8, <1>13

\* What is left open depends on the last cell.
LEMMA RemainsIs ==
    ASSUME NEW b, IsBuffer(b), NEW c, IsBuffer(c), Len(b) > 0, Len(c) > 0,
           b[Len(b)] = c[Len(c)]
    PROVE  Remains(b) = Remains(c)
<1>1. b # << >> /\ c # << >>
  <2>1. Len(<< >>) = 0
        OBVIOUS
  <2>2. QED
        BY <2>1
<1>2. PICK x : x = b[Len(b)] /\ x = c[Len(c)]
      OBVIOUS
<1>3. Remains(b) = IF Opens(x) THEN SubSeq(Cells(x.of), 1, x.at) ELSE << >>
      BY <1>1, <1>2 DEF Remains
<1>4. Remains(c) = IF Opens(x) THEN SubSeq(Cells(x.of), 1, x.at) ELSE << >>
      BY <1>1, <1>2 DEF Remains
<1>5. QED
      BY <1>3, <1>4

\* A section begins in a packet after its first o cells, or none does.
Pointed(cells, M, o) ==
    /\ IsBuffer(cells) /\ InRow(cells) /\ M \in Nat /\ Len(cells) = M
    /\ o \in 0 .. M /\ (o < M => cells[o + 1].at = 1)

\* What is given by the rest of it.
RestGives(read, cells, M, o) ==
    /\ read.sections = Listed(cells, Endings(cells, o, M))
    /\ o = M => read.buffer = << >>
    /\ o # M => read.buffer = Remains(cells)

\* The sections that begin in a packet are read from the pointer on.
LEMMA ReadRest ==
    ASSUME NEW cells, NEW M, NEW o, Pointed(cells, M, o), NEW garbage \in Garbage,
           NEW rest, rest = SubSeq(cells, o + 1, M)
    PROVE  RestGives(Drained(rest, garbage), cells, M, o)
<1> SUFFICES
       ASSUME IsBuffer(cells), InRow(cells), M \in Nat, Len(cells) = M, o \in 0 .. M,
              o < M => cells[o + 1].at = 1
       PROVE  RestGives(Drained(rest, garbage), cells, M, o)
      BY DEF Pointed
<1>1. PICK i, n : i = o + 1 /\ n = M - o
      OBVIOUS
<1>2. /\ i \in Nat \ {0} /\ M <= M /\ i <= M + 1 /\ n \in Nat /\ M - i + 1 = n
      /\ o \in Nat /\ o <= M
      BY <1>1
<1>3. /\ IsBuffer(rest) /\ InRow(rest) /\ Len(rest) = n
      /\ \A k \in 1 .. n : rest[k] = cells[i + k - 1]
  <2>1. /\ IsBuffer(SubSeq(cells, i, M)) /\ InRow(SubSeq(cells, i, M))
        /\ Len(SubSeq(cells, i, M)) = M - i + 1
        /\ \A k \in 1 .. M - i + 1 : SubSeq(cells, i, M)[k] = cells[i + k - 1]
        BY <1>2, PartOfRow
  <2>2. rest = SubSeq(cells, i, M)
        BY <1>1
  <2>3. QED
        BY <1>2, <2>1, <2>2
<1>4. DOMAIN cells = 1 .. M
      BY DEF IsBuffer, IsSequence
<1>5. n > 0 => IsStuffing(rest[1]) \/ rest[1].at = 1
  <2>1. SUFFICES ASSUME n > 0 PROVE rest[1].at = 1
        OBVIOUS
  <2>2. 1 \in 1 .. n /\ i + 1 - 1 = o + 1 /\ o < M
        BY <1>1, <1>2, <2>1
  <2>3. rest[1] = cells[o + 1]
        BY <1>3, <2>2
  <2>4. QED
        BY <2>2, <2>3
<1>6. \A k \in 0 + 1 .. n : rest[k] = cells[k - 0 + o]
  <2>1. SUFFICES ASSUME NEW k \in 0 + 1 .. n PROVE rest[k] = cells[k - 0 + o]
        OBVIOUS
  <2>2. k \in 1 .. n /\ i + k - 1 = k - 0 + o
        BY <1>1, <1>2
  <2>3. QED
        BY <1>3, <2>2
<1>7. \A k \in 1 .. 0 : ~EndsSection(rest[k])
      OBVIOUS
<1>8. 0 \in Nat /\ 0 <= n /\ M - o = n - 0
      BY <1>1, <1>2
<1>9. /\ Drained(rest, garbage).sections =
            Listed(cells, Endings(cells, o, M))
      /\ Drained(rest, garbage).buffer = Remains(rest)
  <2>1. PICK p : p = 0
        OBVIOUS
  <2>2. /\ p \in Nat /\ p <= n /\ M - o = n - p
        /\ \A k \in p + 1 .. n : rest[k] = cells[k - p + o]
        /\ \A k \in 1 .. p : ~EndsSection(rest[k])
        BY <1>6, <1>7, <1>8, <2>1
  <2>3. QED
    <3>1. BeginsRow(rest, n, cells, M, p, o)
          BY <1>2, <1>3, <1>4, <1>5, <2>2 DEF BeginsRow
    <3>2. QED
          BY <3>1, DrainedRow
<1>10. Remains(rest) = IF o = M THEN << >> ELSE Remains(cells)
  <2>1. CASE o = M
    <3>1. n = 0
          BY <1>1, <2>1
    <3>2. rest = [k \in 1 .. 0 |-> rest[k]]
          BY <1>3, <3>1 DEF IsBuffer, IsSequence
    <3>3. rest = << >>
          BY <3>2
    <3>4. QED
          BY <2>1, <3>3 DEF Remains
  <2>2. CASE o # M
    <3>1. n \in 1 .. n /\ n > 0 /\ M > 0 /\ i + n - 1 = M
          BY <1>1, <1>2, <2>2
    <3>2. rest[n] = cells[M]
          BY <1>3, <3>1
    <3>3. rest[Len(rest)] = cells[Len(cells)] /\ Len(rest) > 0 /\ Len(cells) > 0
          BY <1>3, <3>1, <3>2
    <3>4. Remains(rest) = Remains(cells)
          BY <1>3, <3>3, RemainsIs
    <3>5. QED
          BY <2>2, <3>4
  <2>3. QED
        BY <2>1, <2>2
<1>11. QED
       BY <1>9, <1>10 DEF RestGives

\* A section that was begun is read on.
LEMMA ReadOn ==
    ASSUME NEW cells, IsBuffer(cells), InRow(cells), NEW M \in Nat \ {0}, Len(cells) = M,
           NEW buffer, NEW s, NEW a, Continued(buffer, cells, s, a), NEW garbage \in Garbage
    PROVE  /\ Drained(buffer \o cells, garbage).sections = Listed(cells, Endings(cells, 0, M))
           /\ Drained(buffer \o cells, garbage).buffer = Remains(cells)
<1>1. PICK b, L : b = buffer \o cells /\ L = a + M
      OBVIOUS
<1>2. BeginsRow(b, L, cells, M, a, 0)
      BY <1>1, JoinedBegins
<1>3. /\ Drained(b, garbage).sections = Listed(cells, Endings(cells, 0, M))
      /\ Drained(b, garbage).buffer = Remains(b)
      BY <1>2, DrainedRow
<1>4. /\ IsBuffer(b) /\ Len(b) = L /\ L \in Nat /\ a \in Nat
      /\ \A i \in a + 1 .. L : b[i] = cells[i - a + 0]
      BY <1>2 DEF BeginsRow
<1>5. Remains(b) = Remains(cells)
  <2>1. L \in a + 1 .. L /\ L - a + 0 = M /\ L > 0 /\ M > 0
        BY <1>1, <1>4
  <2>2. b[L] = cells[M]
        BY <1>4, <2>1
  <2>3. b[Len(b)] = cells[Len(cells)] /\ Len(b) > 0 /\ Len(cells) > 0
        BY <1>4, <2>1, <2>2
  <2>4. QED
        BY <1>4, <2>3, RemainsIs
<1>6. QED
      BY <1>1, <1>3, <1>5

\* The end of a section that was begun is read before the pointer.
LEMMA ReadTail ==
    ASSUME NEW cells, IsBuffer(cells), InRow(cells), NEW M \in Nat \ {0}, Len(cells) = M,
           NEW buffer, NEW s, NEW a, Continued(buffer, cells, s, a), NEW garbage \in Garbage,
           NEW o \in 1 .. M, EndsSection(cells[o]),
           \A i \in 1 .. o : EndsSection(cells[i]) => i = o
    PROVE  Drained(buffer \o SubSeq(cells, 1, o), garbage).sections = <<Cells(cells[o].of)>>
<1>1. PICK t : t = SubSeq(cells, 1, o)
      OBVIOUS
<1>2. o \in Nat \ {0} /\ o <= M /\ o - 1 + 1 = o /\ 1 <= o + 1 /\ 1 \in Nat \ {0}
      OBVIOUS
<1>3. /\ IsBuffer(t) /\ InRow(t) /\ Len(t) = o
      /\ \A k \in 1 .. o : t[k] = cells[k]
  <2>1. /\ IsBuffer(SubSeq(cells, 1, o)) /\ InRow(SubSeq(cells, 1, o))
        /\ Len(SubSeq(cells, 1, o)) = o - 1 + 1
        /\ \A k \in 1 .. o - 1 + 1 : SubSeq(cells, 1, o)[k] = cells[1 + k - 1]
        BY <1>2, PartOfRow
  <2>2. \A k \in 1 .. o : 1 + k - 1 = k
        OBVIOUS
  <2>3. QED
        BY <1>1, <1>2, <2>1, <2>2
<1>4. t[1] = cells[1]
      BY <1>2, <1>3
<1>5. Continued(buffer, t, s, a)
      BY <1>4 DEF Continued
<1>6. Drained(buffer \o t, garbage).sections = Listed(t, Endings(t, 0, o))
      BY <1>2, <1>3, <1>5, ReadOn
<1>7. Endings(t, 0, o) = {o} \cup {}
  <2>1. \A j \in 1 .. o : EndsSection(t[j]) <=> j = o
        BY <1>3
  <2>2. 0 + 1 .. o = 1 .. o
        OBVIOUS
  <2>3. QED
        BY <1>2, <2>1, <2>2 DEF Endings
<1>8. Listed(t, {o} \cup {}) = <<Cells(t[o].of)>> \o Listed(t, {})
  <2>1. {} \subseteq Nat /\ IsFiniteSet({}) /\ \A m \in {} : o < m
        BY FS_EmptySet
  <2>2. QED
        BY <1>2, <2>1, ListedPrepends
<1>9. <<Cells(t[o].of)>> \o << >> = <<Cells(t[o].of)>>
  <2>1. PICK c : c = Cells(t[o].of)
        OBVIOUS
  <2>2. <<c>> \o << >> = <<c>>
    <3>1. <<c>> \in Seq({c})
          OBVIOUS
    <3>2. QED
          BY <3>1
  <2>3. QED
        BY <2>1, <2>2
<1>10. t[o] = cells[o]
       BY <1>2, <1>3
<1>11. QED
       BY <1>1, <1>6, <1>7, <1>8, <1>9, <1>10, ListedNothing

\* What follows the end of a section stuffs the packet, where no section begins.
LEMMA StuffedAfter ==
    ASSUME NEW cells, InRow(cells), NEW M \in Nat, DOMAIN cells = 1 .. M,
           NEW e \in 1 .. M, EndsSection(cells[e]), NEW j \in e + 1 .. M,
           \A k \in 1 .. j : cells[k].at # 1
    PROVE  IsStuffing(cells[j])
<1>1. PICK k : k = e + 1
      OBVIOUS
<1>2. e \in 1 .. M - 1 /\ k \in 1 .. M /\ k \in 1 .. j /\ j \in k .. M
      BY <1>1
<1>3. IsStuffing(cells[k])
  <2>1. IsStuffing(cells[e + 1]) \/ cells[e + 1].at = 1
        BY <1>2, RowEnds
  <2>2. QED
        BY <1>1, <1>2, <2>1
<1>4. QED
      BY <1>2, <1>3, RowStuffed

\* A buffer with the beginning of a section holds cells.
LEMMA BegunIs ==
    ASSUME NEW buffer, NEW cells, NEW s, NEW a, Continued(buffer, cells, s, a)
    PROVE  buffer # << >> /\ IsBuffer(buffer)
<1>1. /\ s # Stuffing /\ s.length \in Nat /\ s.length >= HeaderLength
      /\ a \in Nat /\ 1 <= a /\ a < s.length /\ buffer = SubSeq(Cells(s), 1, a)
      BY DEF Continued
<1>2. /\ IsSequence(Cells(s)) /\ Len(Cells(s)) = s.length
      /\ \A i \in 1 .. s.length : Cells(s)[i] = [of |-> s, at |-> i]
      BY <1>1, CellsAre
<1>3. 1 \in Nat \ {0} /\ a <= Len(Cells(s)) /\ 1 <= a + 1 /\ a - 1 + 1 = a
      BY <1>1, <1>2
<1>4. IsSequence(buffer) /\ Len(buffer) = a
  <2>1. IsSequence(SubSeq(Cells(s), 1, a)) /\ Len(SubSeq(Cells(s), 1, a)) = a - 1 + 1
        BY <1>1, <1>2, <1>3, Part
  <2>2. QED
        BY <1>1, <1>3, <2>1
<1>5. ASSUME NEW i \in 1 .. a
      PROVE  IsCell(buffer[i])
  <2>1. \A k \in 1 .. a - 1 + 1 : SubSeq(Cells(s), 1, a)[k] = Cells(s)[1 + k - 1]
        BY <1>1, <1>2, <1>3, Part
  <2>2. i \in Nat /\ 1 + i - 1 = i /\ i \in 1 .. a - 1 + 1 /\ i \in 1 .. s.length
        BY <1>1, <1>3
  <2>3. buffer[i] = [of |-> s, at |-> i]
        BY <1>1, <1>2, <2>1, <2>2
  <2>4. buffer[i].of = s /\ buffer[i].at = i
        BY <2>3
  <2>5. QED
        BY <1>1, <2>2, <2>3, <2>4 DEF IsCell, IsStuffing
<1>6. DOMAIN buffer = 1 .. a
      BY <1>4 DEF IsSequence
<1>7. IsBuffer(buffer)
      BY <1>4, <1>5, <1>6 DEF IsBuffer
<1>8. buffer # << >>
  <2>1. Len(<< >>) = 0
        OBVIOUS
  <2>2. a # 0 /\ Len(buffer) = a
        BY <1>1, <1>4
  <2>3. QED
        BY <2>1, <2>2
<1>9. QED
      BY <1>7, <1>8

\* Cells and cells are cells.
LEMMA BuffersJoined ==
    ASSUME NEW b, IsBuffer(b), NEW c, IsBuffer(c)
    PROVE  IsBuffer(b \o c)
<1>0. PICK d : d = b \o c
      OBVIOUS
<1>1. PICK l \in Nat, m \in Nat : l = Len(b) /\ m = Len(c)
      BY DEF IsBuffer, IsSequence
<1>2. IsSequence(b) /\ IsSequence(c) /\ DOMAIN b = 1 .. l /\ DOMAIN c = 1 .. m
      BY <1>1 DEF IsBuffer, IsSequence
<1>3. IsSequence(d) /\ Len(d) = l + m
  <2>1. IsSequence(b \o c) /\ Len(b \o c) = Len(b) + Len(c)
        BY <1>2, Joined
  <2>2. QED
        BY <1>0, <1>1, <2>1
<1>4. \A i \in 1 .. l : d[i] = b[i]
  <2>1. \A i \in 1 .. Len(b) : (b \o c)[i] = b[i]
        BY <1>2, Joined
  <2>2. QED
        BY <1>0, <1>1, <2>1
<1>5. \A i \in l + 1 .. l + m : d[i] = c[i - l]
  <2>1. \A i \in Len(b) + 1 .. Len(b) + Len(c) : (b \o c)[i] = c[i - Len(b)]
        BY <1>2, Joined
  <2>2. QED
        BY <1>0, <1>1, <2>1
<1>6. DOMAIN d = 1 .. l + m
      BY <1>3 DEF IsSequence
<1>7. ASSUME NEW i \in 1 .. l + m
      PROVE  IsCell(d[i])
  <2>1. CASE i \in 1 .. l
        BY <1>2, <1>4, <2>1 DEF IsBuffer
  <2>2. CASE i \in l + 1 .. l + m
    <3>1. PICK k : k = i - l
          OBVIOUS
    <3>2. k \in 1 .. m /\ d[i] = c[k]
          BY <1>5, <2>2, <3>1
    <3>3. QED
          BY <1>2, <3>2 DEF IsBuffer
  <2>3. i \in 1 .. l \/ i \in l + 1 .. l + m
        OBVIOUS
  <2>4. QED
        BY <2>1, <2>2, <2>3
<1>8. QED
      BY <1>0, <1>3, <1>6, <1>7 DEF IsBuffer

\* What remains of a packet with cells.
LEMMA RemainsOf ==
    ASSUME NEW cells, NEW M \in Nat \ {0}, Len(cells) = M
    PROVE  Remains(cells) = IF Opens(cells[M]) THEN SubSeq(Cells(cells[M].of), 1, cells[M].at)
                            ELSE << >>
<1>1. cells # << >>
  <2>1. Len(<< >>) = 0
        OBVIOUS
  <2>2. QED
        BY <2>1
<1>2. QED
      BY <1>1 DEF Remains

\* Of which sections that end in a packet the beginning came.
Arrived(cells, M, whole) == {i \in 1 .. M : EndsSection(cells[i]) /\ i \in whole}

\* What a buffer has to do with a packet: whole are the places of the cells before
\* which nothing of their section was lost, and clean is whether nothing was lost.
Fitting(buffer, cells, M, whole, clean) ==
    /\ \A i \in 1 .. M : \A j \in 1 .. i : cells[j].at = 1 => i \in whole
    /\ \A i \in whole : ~IsStuffing(cells[i]) /\ (\A j \in 1 .. i : cells[j].at # 1) =>
          \E s, a : Continued(buffer, cells, s, a)
    /\ clean => buffer = << >> \/ \E s, a : Continued(buffer, cells, s, a)
    /\ clean /\ buffer # << >> => \A i \in 1 .. M : i \in whole

\* What is to be read of the packet.
ReadsWell(read, cells, M, whole, clean) ==
    /\ \E more : /\ IsSequence(more) /\ (clean => more = << >>)
                 /\ read.sections = more \o Listed(cells, Arrived(cells, M, whole))
    /\ IsBuffer(read.buffer)
    /\ IF Opens(cells[M]) /\ M \in whole
       THEN read.buffer = SubSeq(Cells(cells[M].of), 1, cells[M].at)
       ELSE clean => read.buffer = << >>

\* A packet with nothing to read.
LEMMA NothingReads ==
    ASSUME NEW cells, NEW M \in Nat, NEW whole, NEW clean,
           Arrived(cells, M, whole) = {}, ~(Opens(cells[M]) /\ M \in whole)
    PROVE  ReadsWell([sections |-> << >>, buffer |-> << >>], cells, M, whole, clean)
<1>1. IsSequence(<< >>) /\ IsBuffer(<< >>) /\ << >> \o << >> = << >>
  <2>1. Len(<< >>) = 0 /\ << >> = [i \in 1 .. 0 |-> << >>[i]] /\ DOMAIN << >> = {}
        OBVIOUS
  <2>2. QED
        BY <2>1 DEF IsSequence, IsBuffer
<1>2. PICK read : read = [sections |-> << >>, buffer |-> << >>]
      OBVIOUS
<1>3. read.sections = << >> /\ read.buffer = << >>
      BY <1>2
<1>4. Listed(cells, Arrived(cells, M, whole)) = << >>
      BY ListedNothing
<1>5. ReadsWell(read, cells, M, whole, clean)
      BY <1>1, <1>3, <1>4 DEF ReadsWell
<1>6. QED
      BY <1>2, <1>5

\* The sections before the pointer, if any, and those that begin in the packet.
RestartGives(buffer, cells, M, o, garbage) ==
    LET read == Restarted(buffer, cells, o, garbage)
    IN  /\ read.sections =
              (IF o = 0 \/ buffer = << >> THEN << >>
               ELSE Drained(buffer \o SubSeq(cells, 1, o), garbage).sections)
              \o Listed(cells, Endings(cells, o, M))
        /\ read.buffer = (IF o = M THEN << >> ELSE Remains(cells))
        /\ IsBuffer(read.buffer)

\* A restart reads the rest of the section before the pointer, and what starts at it.
LEMMA RestartedIs ==
    ASSUME NEW cells, NEW M, NEW o, Pointed(cells, M, o), NEW buffer, NEW garbage \in Garbage
    PROVE  RestartGives(buffer, cells, M, o, garbage)
<1>1. PICK rest, before, after, read :
         /\ rest = SubSeq(cells, o + 1, M)
         /\ before = (IF o = 0 \/ buffer = << >> THEN << >>
                      ELSE Drained(buffer \o SubSeq(cells, 1, o), garbage).sections)
         /\ after = Drained(rest, garbage)
         /\ read = Restarted(buffer, cells, o, garbage)
      OBVIOUS
<1>2. M = Len(cells)
      BY DEF Pointed
<1>3. read = [sections |-> before \o after.sections, buffer |-> after.buffer]
      BY <1>1, <1>2 DEF Restarted
<1>4. read.sections = before \o after.sections /\ read.buffer = after.buffer
      BY <1>3
<1>5. rest = SubSeq(cells, o + 1, M)
      BY <1>1
<1>6. RestGives(Drained(rest, garbage), cells, M, o)
      BY <1>5, ReadRest
<1>7. RestGives(after, cells, M, o)
      BY <1>1, <1>6
<1>8. /\ after.sections = Listed(cells, Endings(cells, o, M))
      /\ after.buffer = (IF o = M THEN << >> ELSE Remains(cells))
      BY <1>7 DEF RestGives
<1>9. IsBuffer(rest)
  <2>1. PICK i : i = o + 1
        OBVIOUS
  <2>2. /\ IsBuffer(cells) /\ InRow(cells) /\ M \in Nat /\ Len(cells) = M
        /\ i \in Nat \ {0} /\ M <= M /\ i <= M + 1
        BY <2>1 DEF Pointed
  <2>3. IsBuffer(SubSeq(cells, i, M))
        BY <2>2, PartOfRow
  <2>4. QED
        BY <1>1, <2>1, <2>3
<1>10. IsBuffer(after.buffer)
      BY <1>1, <1>9, DrainedTyped
<1>11. QED
       BY <1>1, <1>4, <1>8, <1>10 DEF RestartGives

\* A packet in which a section begins.
LEMMA StartReads ==
    ASSUME NEW cells, IsBuffer(cells), InRow(cells), NEW M \in Nat \ {0}, Len(cells) = M,
           NEW o \in 0 .. M, o > 0 => EndsSection(cells[o]), o < M => cells[o + 1].at = 1,
           \A i \in 1 .. o : cells[i].at # 1,
           NEW buffer, IsBuffer(buffer), NEW whole, NEW clean,
           Fitting(buffer, cells, M, whole, clean), NEW garbage \in Garbage
    PROVE  ReadsWell(Restarted(buffer, cells, o, garbage), cells, M, whole, clean)
<1>1. PICK tail, before, read :
         /\ tail = SubSeq(cells, 1, o)
         /\ before = (IF o = 0 \/ buffer = << >> THEN << >>
                      ELSE Drained(buffer \o tail, garbage).sections)
         /\ read = Restarted(buffer, cells, o, garbage)
      OBVIOUS
<1>2. /\ read.sections = before \o Listed(cells, Endings(cells, o, M))
      /\ read.buffer = (IF o = M THEN << >> ELSE Remains(cells))
      /\ IsBuffer(read.buffer)
  <2>1. Pointed(cells, M, o)
        BY DEF Pointed
  <2>2. RestartGives(buffer, cells, M, o, garbage)
        BY <2>1, RestartedIs
  <2>3. QED
        BY <1>1, <2>2 DEF RestartGives
<1>4. DOMAIN cells = 1 .. M /\ o \in Nat
      BY DEF IsBuffer, IsSequence
<1>5. ASSUME NEW i \in o + 1 .. M
      PROVE  i \in whole
  <2>1. PICK k : k = o + 1
        OBVIOUS
  <2>2. k \in 1 .. i /\ i \in 1 .. M /\ o < M
        BY <1>4, <2>1
  <2>3. cells[k].at = 1
        BY <2>1, <2>2
  <2>4. QED
        BY <2>2, <2>3 DEF Fitting
<1>6. ASSUME NEW i \in 1 .. o, EndsSection(cells[i])
      PROVE  i = o
  <2>1. SUFFICES ASSUME i # o PROVE FALSE
        OBVIOUS
  <2>2. i \in 1 .. M /\ o \in i + 1 .. M /\ o > 0
        BY <1>4, <2>1
  <2>3. IsStuffing(cells[o])
        BY <1>4, <1>6, <2>2, StuffedAfter
  <2>4. QED
        BY <2>2, <2>3 DEF EndsSection
<1>7. PICK S : S = Endings(cells, o, M)
      OBVIOUS
<1>8. S \subseteq Nat /\ IsFiniteSet(S) /\ \A m \in S : o < m
  <2>1. IsFiniteSet(o + 1 .. M)
        BY <1>4, FS_Interval
  <2>2. S \in SUBSET (o + 1 .. M)
        BY <1>7 DEF Endings
  <2>3. IsFiniteSet(S)
        BY <2>1, <2>2, FS_Subset
  <2>4. \A m \in o + 1 .. M : m \in Nat /\ o < m
        BY <1>4
  <2>5. QED
        BY <2>2, <2>3, <2>4
<1>9. Arrived(cells, M, whole) = IF o > 0 /\ o \in whole THEN {o} \cup S ELSE S
  <2>1. ASSUME NEW i \in 1 .. M
        PROVE  i \in Arrived(cells, M, whole) <=> i \in S \/ (i = o /\ o \in whole)
    <3>1. CASE i \in o + 1 .. M
      <4>1. i # o /\ i \in whole
            BY <1>4, <1>5, <3>1
      <4>2. QED
            BY <1>7, <3>1, <4>1 DEF Arrived, Endings
    <3>2. CASE i \in 1 .. o
      <4>1. i \notin S /\ o > 0
            BY <1>4, <1>8, <3>2
      <4>2. EndsSection(cells[i]) <=> i = o
            BY <1>6, <3>2, <4>1
      <4>3. QED
            BY <4>1, <4>2 DEF Arrived
    <3>3. i \in o + 1 .. M \/ i \in 1 .. o
          BY <1>4
    <3>4. QED
          BY <3>1, <3>2, <3>3
  <2>2. Arrived(cells, M, whole) \subseteq 1 .. M /\ S \subseteq 1 .. M
        BY <1>4, <1>7 DEF Arrived, Endings
  <2>3. o > 0 => o \in 1 .. M
        BY <1>4
  <2>4. CASE o > 0 /\ o \in whole
        BY <2>1, <2>2, <2>3, <2>4
  <2>5. CASE ~(o > 0 /\ o \in whole)
    <3>1. \A i \in 1 .. M : ~(i = o /\ o \in whole)
          BY <1>4, <2>5
    <3>2. QED
          BY <2>1, <2>2, <2>5, <3>1
  <2>6. QED
        BY <2>4, <2>5
<1>10. \E more : /\ IsSequence(more) /\ (clean => more = << >>)
                 /\ read.sections = more \o Listed(cells, Arrived(cells, M, whole))
  <2>1. IsSequence(Listed(cells, S)) /\ IsSequence(<< >>)
    <3>1. IsSequence(<< >>)
          BY DEF IsSequence
    <3>2. QED
          BY <1>8, <3>1, ListedIs
  <2>2. << >> \o Listed(cells, S) = Listed(cells, S)
        BY <2>1, JoinedNothing
  <2>3. CASE o > 0 /\ o \in whole
    <3>1. EndsSection(cells[o]) /\ ~IsStuffing(cells[o]) /\ \A j \in 1 .. o : cells[j].at # 1
          BY <2>3 DEF EndsSection
    <3>2. PICK s, a : Continued(buffer, cells, s, a)
          BY <2>3, <3>1 DEF Fitting
    <3>3. buffer # << >>
          BY <3>2, BegunIs
    <3>4. before = <<Cells(cells[o].of)>>
      <4>1. o \in 1 .. M
            BY <1>4, <2>3
      <4>2. Drained(buffer \o tail, garbage).sections = <<Cells(cells[o].of)>>
            BY <1>1, <1>6, <3>1, <3>2, <4>1, ReadTail
      <4>3. QED
            BY <1>1, <2>3, <3>3, <4>2
    <3>5. Listed(cells, {o} \cup S) = <<Cells(cells[o].of)>> \o Listed(cells, S)
          BY <1>4, <1>8, ListedPrepends
    <3>6. read.sections = Listed(cells, Arrived(cells, M, whole))
          BY <1>2, <1>7, <1>9, <2>3, <3>4, <3>5
    <3>7. IsSequence(Listed(cells, Arrived(cells, M, whole)))
      <4>1. {o} \cup S \subseteq Nat /\ IsFiniteSet({o} \cup S)
            BY <1>4, <1>8, FS_AddElement
      <4>2. QED
            BY <1>9, <2>3, <4>1, ListedIs
    <3>8. << >> \o Listed(cells, Arrived(cells, M, whole)) = Listed(cells, Arrived(cells, M, whole))
          BY <3>7, JoinedNothing
    <3>9. QED
          BY <2>1, <3>6, <3>8
  <2>4. CASE ~(o > 0 /\ o \in whole)
    <3>1. Arrived(cells, M, whole) = S /\ read.sections = before \o Listed(cells, S)
          BY <1>2, <1>7, <1>9, <2>4
    <3>2. CASE o = 0 \/ buffer = << >>
      <4>1. before = << >>
            BY <1>1, <3>2
      <4>2. QED
            BY <2>1, <3>1, <4>1
    <3>3. CASE ~(o = 0 \/ buffer = << >>)
      <4>1. o \in 1 .. M /\ o \notin whole
            BY <1>4, <2>4, <3>3
      <4>2. ~clean
            BY <3>3, <4>1 DEF Fitting
      <4>3. IsBuffer(tail)
        <5>1. 1 \in Nat \ {0} /\ o <= M /\ 1 <= o + 1 /\ M \in Nat
              BY <1>4
        <5>2. QED
              BY <1>1, <1>4, <5>1, PartOfRow
      <4>4. IsBuffer(buffer \o tail)
            BY <4>3, BuffersJoined
      <4>5. IsSequence(before)
            BY <1>1, <3>3, <4>4, DrainedTyped
      <4>6. QED
            BY <3>1, <4>2, <4>5
    <3>4. QED
          BY <3>2, <3>3
  <2>5. QED
        BY <2>3, <2>4
<1>11. read.buffer = IF Opens(cells[M]) THEN SubSeq(Cells(cells[M].of), 1, cells[M].at)
                     ELSE << >>
  <2>1. CASE o = M
    <3>1. EndsSection(cells[M])
          BY <2>1
    <3>2. QED
          BY <1>2, <2>1, <3>1 DEF Opens
  <2>2. CASE o # M
        BY <1>2, <2>2, RemainsOf
  <2>3. QED
        BY <2>1, <2>2
<1>12. Opens(cells[M]) => M \in whole
  <2>1. CASE o = M
        BY <2>1 DEF Opens
  <2>2. CASE o # M
        BY <1>4, <1>5, <2>2
  <2>3. QED
        BY <2>1, <2>2
<1>13. ReadsWell(read, cells, M, whole, clean)
       BY <1>2, <1>10, <1>11, <1>12 DEF ReadsWell
<1>14. QED
       BY <1>1, <1>13

\* A packet in which no section begins, after others.
LEMMA ContinuedReads ==
    ASSUME NEW cells, IsBuffer(cells), InRow(cells), NEW M \in Nat \ {0}, Len(cells) = M,
           \A i \in 1 .. M : cells[i].at # 1,
           NEW buffer, IsBuffer(buffer), buffer # << >>, NEW whole, NEW clean,
           Fitting(buffer, cells, M, whole, clean), NEW garbage \in Garbage
    PROVE  ReadsWell(Drained(buffer \o cells, garbage), cells, M, whole, clean)
<1>1. PICK read, S, b :
         /\ read = Drained(buffer \o cells, garbage) /\ S = Endings(cells, 0, M)
         /\ b = (IF Opens(cells[M]) THEN SubSeq(Cells(cells[M].of), 1, cells[M].at) ELSE << >>)
      OBVIOUS
<1>2. M \in 1 .. M /\ DOMAIN cells = 1 .. M /\ 0 + 1 .. M = 1 .. M
      BY DEF IsBuffer, IsSequence
<1>3. ASSUME NEW s, NEW a, Continued(buffer, cells, s, a)
      PROVE  read.sections = Listed(cells, S) /\ read.buffer = b
  <2>1. read.sections = Listed(cells, S) /\ read.buffer = Remains(cells)
        BY <1>1, <1>3, ReadOn
  <2>2. Remains(cells) = b
        BY <1>1, RemainsOf
  <2>3. QED
        BY <2>1, <2>2
<1>4. IsSequence(read.sections) /\ IsBuffer(read.buffer)
      BY <1>1, BuffersJoined, DrainedTyped
<1>5. S \subseteq Nat /\ IsFiniteSet(S) /\ S \subseteq 1 .. M
  <2>1. S \in SUBSET (1 .. M) /\ 1 .. M \subseteq Nat
        BY <1>1, <1>2 DEF Endings
  <2>2. IsFiniteSet(1 .. M)
        BY FS_Interval
  <2>3. QED
        BY <2>1, <2>2, FS_Subset
<1>6. ASSUME NEW i \in 1 .. M, i \in whole, ~IsStuffing(cells[i])
      PROVE  \E s, a : Continued(buffer, cells, s, a)
  <2>1. \A j \in 1 .. i : cells[j].at # 1
        BY <1>6
  <2>2. QED
        BY <1>6, <2>1 DEF Fitting
<1>7. clean => (\E s, a : Continued(buffer, cells, s, a)) /\ \A i \in 1 .. M : i \in whole
      BY DEF Fitting
<1>8. clean => Arrived(cells, M, whole) = S
      BY <1>1, <1>2, <1>7 DEF Arrived, Endings
<1>9. \A i, j \in S : i = j
  <2>1. SUFFICES ASSUME NEW i \in S, NEW j \in S, i < j PROVE FALSE
        BY <1>5
  <2>2. i \in 1 .. M /\ j \in i + 1 .. M /\ EndsSection(cells[i]) /\ EndsSection(cells[j])
        BY <1>1, <1>5, <2>1 DEF Endings
  <2>3. \A k \in 1 .. j : cells[k].at # 1
        BY <2>2
  <2>4. IsStuffing(cells[j])
        BY <1>2, <2>2, <2>3, StuffedAfter
  <2>5. QED
        BY <2>2, <2>4 DEF EndsSection
<1>10. \E more : /\ IsSequence(more) /\ (clean => more = << >>)
                 /\ read.sections = more \o Listed(cells, Arrived(cells, M, whole))
  <2>1. IsSequence(Listed(cells, S)) /\ IsSequence(<< >>)
    <3>1. IsSequence(<< >>)
          BY DEF IsSequence
    <3>2. QED
          BY <1>5, <3>1, ListedIs
  <2>2. << >> \o Listed(cells, S) = Listed(cells, S)
        BY <2>1, JoinedNothing
  <2>3. CASE Arrived(cells, M, whole) # {} \/ clean
    <3>1. Arrived(cells, M, whole) = S
      <4>1. CASE clean
            BY <1>8, <4>1
      <4>2. CASE Arrived(cells, M, whole) # {}
        <5>1. Arrived(cells, M, whole) \subseteq S
              BY <1>1, <1>2 DEF Arrived, Endings
        <5>2. QED
              BY <1>9, <4>2, <5>1
      <4>3. QED
            BY <2>3, <4>1, <4>2
    <3>2. \E s, a : Continued(buffer, cells, s, a)
      <4>1. CASE clean
            BY <1>7, <4>1
      <4>2. CASE Arrived(cells, M, whole) # {}
        <5>1. PICK i \in 1 .. M : EndsSection(cells[i]) /\ i \in whole
              BY <4>2 DEF Arrived
        <5>2. QED
              BY <1>6, <5>1 DEF EndsSection
      <4>3. QED
            BY <2>3, <4>1, <4>2
    <3>3. read.sections = Listed(cells, S)
          BY <1>3, <3>2
    <3>4. QED
          BY <2>1, <2>2, <3>1, <3>3
  <2>4. CASE Arrived(cells, M, whole) = {} /\ ~clean
    <3>1. Listed(cells, Arrived(cells, M, whole)) = << >>
          BY <2>4, ListedNothing
    <3>2. read.sections \o << >> = read.sections
          BY <1>4, JoinedNothing
    <3>3. QED
          BY <1>4, <2>4, <3>1, <3>2
  <2>5. QED
        BY <2>3, <2>4
<1>11. IF Opens(cells[M]) /\ M \in whole
       THEN read.buffer = SubSeq(Cells(cells[M].of), 1, cells[M].at)
       ELSE clean => read.buffer = << >>
  <2>1. CASE Opens(cells[M]) /\ M \in whole
    <3>1. \E s, a : Continued(buffer, cells, s, a)
          BY <1>2, <1>6, <2>1 DEF Opens
    <3>2. QED
          BY <1>1, <1>3, <2>1, <3>1
  <2>2. CASE ~(Opens(cells[M]) /\ M \in whole)
    <3>1. SUFFICES ASSUME clean PROVE read.buffer = << >>
          BY <2>2
    <3>2. ~Opens(cells[M]) /\ read.buffer = b
          BY <1>2, <1>3, <1>7, <2>2, <3>1
    <3>3. QED
          BY <1>1, <3>2
  <2>3. QED
        BY <2>1, <2>2
<1>12. ReadsWell(read, cells, M, whole, clean)
       BY <1>4, <1>10, <1>11 DEF ReadsWell
<1>13. QED
       BY <1>1, <1>12

\* Whatever is read of a packet, it is read well.
LEMMA SectionsRead ==
    ASSUME NEW packet, NEW cells, cells = packet.cells, IsBuffer(cells), InRow(cells),
           NEW M \in Nat \ {0}, Len(cells) = M, PointsRight(packet),
           NEW buffer, IsBuffer(buffer), NEW whole, NEW clean,
           Fitting(buffer, cells, M, whole, clean), NEW garbage \in Garbage
    PROVE  ReadsWell(ReadSections(buffer, packet, garbage), cells, M, whole, clean)
<1>1. PICK o, read : o = packet.offset /\ read = ReadSections(buffer, packet, garbage)
      OBVIOUS
<1>2. o \in Nat /\ M \in Nat /\ DOMAIN cells = 1 .. M
      BY <1>1 DEF PointsRight, IsBuffer, IsSequence
<1>3. CASE packet.start /\ o <= M
  <2>1. read = Restarted(buffer, cells, o, garbage)
        BY <1>1, <1>2, <1>3 DEF ReadSections
  <2>2. /\ o > 0 => EndsSection(cells[o])
        /\ o < M => cells[o + 1].at = 1
        /\ \A i \in 1 .. o : cells[i].at # 1
        BY <1>1, <1>3 DEF PointsRight
  <2>3. o \in 0 .. M
        BY <1>2, <1>3
  <2>4. ReadsWell(Restarted(buffer, cells, o, garbage), cells, M, whole, clean)
        BY <2>2, <2>3, StartReads
  <2>5. QED
        BY <1>1, <2>1, <2>4
<1>4. CASE packet.start /\ ~(o <= M)
  <2>1. read = [sections |-> << >>, buffer |-> << >>]
        BY <1>1, <1>2, <1>4 DEF ReadSections
  <2>2. \A i \in 1 .. M : IsStuffing(cells[i])
        BY <1>1, <1>2, <1>4 DEF PointsRight
  <2>3. Arrived(cells, M, whole) = {} /\ ~Opens(cells[M])
    <3>1. M \in 1 .. M
          BY <1>2
    <3>2. QED
          BY <2>2, <3>1 DEF Arrived, EndsSection, Opens
  <2>4. QED
        BY <1>1, <1>2, <2>1, <2>3, NothingReads
<1>5. CASE ~packet.start
  <2>1. \A i \in 1 .. M : cells[i].at # 1
        BY <1>1, <1>2, <1>5 DEF PointsRight
  <2>2. CASE buffer # << >>
    <3>1. read = Drained(buffer \o cells, garbage)
          BY <1>1, <1>5, <2>2 DEF ReadSections
    <3>2. ReadsWell(Drained(buffer \o cells, garbage), cells, M, whole, clean)
          BY <2>1, <2>2, ContinuedReads
    <3>3. QED
          BY <1>1, <3>1, <3>2
  <2>3. CASE buffer = << >>
    <3>1. read = [sections |-> << >>, buffer |-> << >>]
          BY <1>1, <1>5, <2>3 DEF ReadSections
    <3>2. ASSUME NEW i \in 1 .. M, i \in whole
          PROVE  IsStuffing(cells[i])
      <4>1. SUFFICES ASSUME ~IsStuffing(cells[i]) PROVE FALSE
            OBVIOUS
      <4>2. \A j \in 1 .. i : cells[j].at # 1
            BY <2>1
      <4>3. PICK s, a : Continued(buffer, cells, s, a)
            BY <3>2, <4>1, <4>2 DEF Fitting
      <4>4. QED
            BY <2>3, <4>3, BegunIs
    <3>3. Arrived(cells, M, whole) = {} /\ ~(Opens(cells[M]) /\ M \in whole)
      <4>1. M \in 1 .. M
            BY <1>2
      <4>2. QED
            BY <3>2, <4>1 DEF Arrived, EndsSection, Opens
    <3>4. QED
          BY <1>1, <1>2, <3>1, <3>3, NothingReads
  <2>4. QED
        BY <2>2, <2>3
<1>6. QED
      BY <1>3, <1>4, <1>5

-----------------------------------------------------------------------------
(* What is in the buffers.                                                  *)

\* All of a section up to the end of packet n.
Begun(n) ==
    LET cell == Last(air[n].cells) IN SubSeq(Cells(cell.of), 1, cell.at)

\* A buffer holds what came of the section that goes on, or else nothing, unless
\* something was lost.
BufferHolds(pid) ==
    LET buffer == sectionBuffers[pid]
    IN  /\ IsBuffer(buffer)
        /\ (\A m \in DOMAIN air : m < next => ~OnPid(air[m], pid)) => buffer = << >>
        /\ \A n \in DOMAIN air : LastOnPid(air, pid, n, next) =>
              IF Opens(Last(air[n].cells)) /\ Came(n, Len(air[n].cells))
              THEN buffer = Begun(n)
              ELSE (\A k \in lost : air[k].pid # pid) => buffer = << >>

\* As long as the demuxer runs, every buffer is as it should be.
SectionsInv ==
    ~ended => /\ sectionBuffers = [pid \in Pids |-> sectionBuffers[pid]]
              /\ \A pid \in Pids : BufferHolds(pid)

\* The packets with sections are cut as they should be.
LEMMA AirCut ==
    ASSUME AirInv, NEW n \in DOMAIN air, air[n].kind = "section"
    PROVE  /\ air[n].pid \in Pids /\ PointsRight(air[n])
           /\ IsBuffer(air[n].cells) /\ InRow(air[n].cells)
           /\ Len(air[n].cells) \in Nat \ {0}
           /\ \A m \in DOMAIN air : LastOnPid(air, air[n].pid, m, n) =>
                 GoesOn(Last(air[m].cells), air[n].cells[1])
<1>1. broadcast.samples = << >>
      BY DEF AirInv, Unkeyed
<1>2. air = broadcast.packets /\ broadcast \in Broadcasts
      BY <1>1 DEF AirInv
<1>3. SectionsCut(broadcast.packets)
      BY <1>2, BroadcastAssumption
<1>4. SectionsCut(air)
      BY <1>2, <1>3
<1>5. PICK c : c = air[n].cells
      OBVIOUS
<1>6. /\ air[n].pid \in Pids /\ PointsRight(air[n]) /\ InRow(c)
      /\ c \in Seq(Range(c)) \ {<< >>}
      /\ \A m \in DOMAIN air : LastOnPid(air, air[n].pid, m, n) =>
            GoesOn(Last(air[m].cells), c[1])
      BY <1>4, <1>5 DEF SectionsCut
<1>7. IsSequence(c) /\ Len(c) \in Nat \ {0}
  <2>1. PICK R : R = Range(c)
        OBVIOUS
  <2>2. c \in Seq(R) /\ c # << >>
        BY <1>6, <2>1
  <2>3. QED
        BY <2>2 DEF IsSequence
<1>8. IsBuffer(c)
      BY <1>6, <1>7 DEF IsBuffer, InRow
<1>9. QED
      BY <1>5, <1>6, <1>7, <1>8

\* After some packet on a PID there is a last one.
LEMMA LastIs ==
    ASSUME DOMAIN air \subseteq Nat, NEW n \in Nat, NEW pid,
           NEW m \in DOMAIN air, m < n, OnPid(air[m], pid)
    PROVE  \E p \in DOMAIN air : LastOnPid(air, pid, p, n) /\ m <= p
<1> DEFINE T == {k \in Nat : k <= n /\ n - k \in DOMAIN air /\ k > 0 /\ OnPid(air[n - k], pid)}
<1>1. n - m \in T
  <2>1. m \in Nat /\ n - m \in Nat /\ n - m > 0 /\ n - (n - m) = m /\ n - m <= n
        OBVIOUS
  <2>2. QED
        BY <2>1
<1>2. T \subseteq Nat
      OBVIOUS
<1>3. PICK k \in T : \A j \in T : ~(<<j, k>> \in OpToRel(<, Nat))
      BY <1>1, <1>2, NatLessThanWellFounded, WFMin
<1>4. \A j \in T : ~(j < k)
      BY <1>2, <1>3 DEF OpToRel
<1>5. PICK p : p = n - k
      OBVIOUS
<1>6. k \in Nat /\ k <= n /\ k > 0 /\ p \in DOMAIN air /\ OnPid(air[p], pid)
      BY <1>3, <1>5
<1>7. p \in Nat /\ p < n
      BY <1>5, <1>6
<1>8. ASSUME NEW q \in DOMAIN air, p < q, q < n, OnPid(air[q], pid)
      PROVE  FALSE
  <2>1. q \in Nat /\ n - q \in Nat /\ n - q > 0 /\ n - (n - q) = q /\ n - q <= n /\ n - q < k
        BY <1>5, <1>6, <1>7, <1>8
  <2>2. n - q \in T
        BY <1>8, <2>1
  <2>3. QED
        BY <1>4, <2>1, <2>2
<1>9. m <= p
  <2>1. ~(n - m < k)
        BY <1>1, <1>4
  <2>2. m \in Nat
        OBVIOUS
  <2>3. QED
        BY <1>5, <1>6, <2>1, <2>2
<1>10. QED
       BY <1>6, <1>7, <1>8, <1>9 DEF LastOnPid

\* A packet after one with an open section goes on with it.
LEMMA ComesOn ==
    ASSUME NEW last, IsCell(last), Opens(last), NEW cells, GoesOn(last, cells[1]),
           NEW buffer, buffer = SubSeq(Cells(last.of), 1, last.at)
    PROVE  Continued(buffer, cells, last.of, last.at)
<1>1. PICK s, a : s = last.of /\ a = last.at
      OBVIOUS
<1>2. ~IsStuffing(last) /\ ~EndsSection(last)
      BY DEF Opens
<1>3. s # Stuffing /\ s.length \in Nat /\ s.length >= HeaderLength /\ a \in 1 .. s.length
  <2>1. last # [of |-> Stuffing, at |-> 0]
        BY <1>2 DEF IsStuffing
  <2>2. QED
        BY <1>1, <1>2, <2>1 DEF IsCell, IsStuffing
<1>4. a # s.length
      BY <1>1, <1>2, <1>3 DEF EndsSection, Left
<1>5. a \in Nat /\ 1 <= a /\ a < s.length
      BY <1>3, <1>4
<1>6. cells[1] = [of |-> s, at |-> a + 1]
      BY <1>1, <1>2 DEF GoesOn
<1>7. QED
      BY <1>1, <1>3, <1>5, <1>6 DEF Continued

\* The buffer fits the next packet.
LEMMA BufferFits ==
    ASSUME MuxerInv, AirInv, SectionsInv, ~ended, NEW n, n = next, n \in DOMAIN air,
           n \notin lost, air[n].kind = "section",
           NEW M, M = Len(air[n].cells), NEW pid, pid = air[n].pid,
           NEW clean, clean <=> \A k \in lost : air[k].pid # pid
    PROVE  Fitting(sectionBuffers[pid], air[n].cells, M, {i \in 1 .. M : Came(n, i)}, clean)
<1>1. PICK cells, buffer : cells = air[n].cells /\ buffer = sectionBuffers[pid]
      OBVIOUS
<1>2. /\ pid \in Pids /\ PointsRight(air[n]) /\ IsBuffer(cells) /\ InRow(cells)
      /\ M \in Nat \ {0} /\ DOMAIN cells = 1 .. M
      /\ \A m \in DOMAIN air : LastOnPid(air, pid, m, n) =>
            GoesOn(Last(air[m].cells), cells[1])
  <2>1. /\ air[n].pid \in Pids /\ PointsRight(air[n])
        /\ IsBuffer(air[n].cells) /\ InRow(air[n].cells)
        /\ Len(air[n].cells) \in Nat \ {0}
        /\ \A m \in DOMAIN air : LastOnPid(air, air[n].pid, m, n) =>
              GoesOn(Last(air[m].cells), air[n].cells[1])
        BY AirCut
  <2>2. QED
        BY <1>1, <2>1 DEF IsBuffer, IsSequence
<1>3. n \in Nat /\ DOMAIN air = 1 .. Len(air) /\ Len(air) \in Nat /\ DOMAIN air \subseteq Nat
      BY AirIs
<1>4. /\ (\A m \in DOMAIN air : m < n => ~OnPid(air[m], pid)) => buffer = << >>
      /\ \A p \in DOMAIN air : LastOnPid(air, pid, p, n) =>
            IF Opens(Last(air[p].cells)) /\ Came(p, Len(air[p].cells))
            THEN buffer = Begun(p)
            ELSE clean => buffer = << >>
      BY <1>1, <1>2 DEF SectionsInv, BufferHolds
<1>5. ASSUME NEW p \in DOMAIN air, LastOnPid(air, pid, p, n)
      PROVE  /\ p \in Nat /\ p < n /\ air[p].pid = pid /\ air[p].kind = "section"
             /\ Len(air[p].cells) \in Nat /\ DOMAIN air[p].cells = 1 .. Len(air[p].cells)
             /\ IsCell(Last(air[p].cells)) /\ GoesOn(Last(air[p].cells), cells[1])
  <2>1. p \in Nat /\ p < n /\ air[p].pid = pid /\ air[p].kind = "section"
        BY <1>3, <1>5 DEF LastOnPid, OnPid
  <2>2. IsBuffer(air[p].cells) /\ Len(air[p].cells) \in Nat \ {0}
        BY <2>1, AirCut
  <2>3. PICK c, l : c = air[p].cells /\ l = Len(c)
        OBVIOUS
  <2>4. l \in Nat \ {0} /\ DOMAIN c = 1 .. l
        BY <2>2, <2>3 DEF IsBuffer, IsSequence
  <2>5. l \in DOMAIN c /\ Last(c) = c[l]
        BY <2>3, <2>4 DEF Last
  <2>6. IsCell(Last(c))
        BY <2>2, <2>3, <2>5 DEF IsBuffer
  <2>7. QED
        BY <1>2, <1>5, <2>1, <2>3, <2>4, <2>6
<1>6. ASSUME NEW p \in DOMAIN air, LastOnPid(air, pid, p, n),
             Opens(Last(air[p].cells)), buffer = Begun(p)
      PROVE  \E s, a : Continued(buffer, cells, s, a)
  <2>1. PICK last : last = Last(air[p].cells)
        OBVIOUS
  <2>2. buffer = SubSeq(Cells(last.of), 1, last.at)
        BY <1>6, <2>1 DEF Begun
  <2>3. IsCell(last) /\ GoesOn(last, cells[1]) /\ Opens(last)
        BY <1>5, <1>6, <2>1
  <2>4. Continued(buffer, cells, last.of, last.at)
        BY <2>2, <2>3, ComesOn
  <2>5. QED
        BY <2>4
<1>7. ASSUME NEW i \in 1 .. M, NEW j \in 1 .. i, cells[j].at = 1
      PROVE  Came(n, i)
  <2>1. j \in DOMAIN cells /\ j <= i
        BY <1>2, <1>7
  <2>2. Begins(n, n, i)
        BY <1>1, <1>7, <2>1 DEF Begins
  <2>3. n \in 1 .. n /\ \A k \in n .. n : k = n
        BY <1>3
  <2>4. QED
        BY <2>2, <2>3 DEF Came
<1>8. ASSUME NEW i \in 1 .. M, Came(n, i), ~IsStuffing(cells[i]),
             \A j \in 1 .. i : cells[j].at # 1
      PROVE  \E s, a : Continued(buffer, cells, s, a)
  <2>1. PICK m \in 1 .. n : /\ Begins(m, n, i)
                            /\ \A k \in m .. n : air[k].pid = air[n].pid => k \notin lost
        BY <1>8 DEF Came
  <2>2. PICK x : /\ x \in DOMAIN air[m].cells /\ air[m].cells[x].at = 1 /\ (m < n \/ x <= i)
                 /\ air[m].kind = "section" /\ air[m].pid = pid
        BY <2>1 DEF Begins
  <2>3. m < n
    <3>1. SUFFICES ASSUME m = n PROVE FALSE
          BY <1>3
    <3>2. x \in 1 .. M /\ x <= i /\ cells[x].at = 1
          BY <1>1, <1>2, <1>3, <2>2, <3>1
    <3>3. x \in 1 .. i
          BY <3>2
    <3>4. QED
          BY <1>8, <3>2, <3>3
  <2>4. m \in DOMAIN air /\ OnPid(air[m], pid)
        BY <1>3, <2>2 DEF OnPid
  <2>5. PICK p \in DOMAIN air : LastOnPid(air, pid, p, n) /\ m <= p
        BY <1>3, <2>3, <2>4, LastIs
  <2>6. PICK l, last : l = Len(air[p].cells) /\ last = Last(air[p].cells)
        OBVIOUS
  <2>7. /\ p \in Nat /\ p < n /\ air[p].pid = pid /\ l \in Nat /\ DOMAIN air[p].cells = 1 .. l
        /\ GoesOn(last, cells[1])
        BY <1>5, <2>5, <2>6
  <2>8. Came(p, l)
    <3>1. Begins(m, p, l)
      <4>1. m < p \/ x <= l
        <5>1. CASE m = p
          <6>1. x \in 1 .. l
                BY <2>2, <2>7, <5>1
          <6>2. QED
                BY <6>1
        <5>2. CASE m # p
              BY <2>5, <2>7, <5>2
        <5>3. QED
              BY <5>1, <5>2
      <4>2. QED
            BY <2>2, <2>7, <4>1 DEF Begins
    <3>2. \A k \in m .. p : k \in m .. n
          BY <1>3, <2>7
    <3>3. \A k \in m .. p : air[k].pid = air[p].pid => k \notin lost
          BY <2>1, <2>7, <3>2
    <3>4. m \in 1 .. p
          BY <2>5, <2>7
    <3>5. QED
          BY <3>1, <3>3, <3>4 DEF Came
  <2>9. Opens(last)
    <3>1. SUFFICES ASSUME ~Opens(last) PROVE FALSE
          OBVIOUS
    <3>2. IsStuffing(cells[1]) \/ cells[1].at = 1
          BY <2>7, <3>1 DEF GoesOn, Opens
    <3>3. 1 \in 1 .. i /\ 1 \in 1 .. M /\ i \in 1 .. M
          BY <1>2
    <3>4. IsStuffing(cells[1])
          BY <1>8, <3>2, <3>3
    <3>5. IsStuffing(cells[i])
          BY <1>2, <3>3, <3>4, RowStuffed
    <3>6. QED
          BY <1>8, <3>5
  <2>10. buffer = Begun(p)
         BY <1>4, <2>5, <2>6, <2>8, <2>9
  <2>11. QED
         BY <1>6, <2>5, <2>6, <2>9, <2>10
<1>9. ASSUME buffer # << >>, clean
      PROVE  /\ \E s, a : Continued(buffer, cells, s, a)
             /\ \A i \in 1 .. M : Came(n, i)
  <2>1. PICK m \in DOMAIN air : m < n /\ OnPid(air[m], pid)
        BY <1>4, <1>9
  <2>2. PICK p \in DOMAIN air : LastOnPid(air, pid, p, n)
        BY <1>3, <2>1, LastIs
  <2>3. /\ Opens(Last(air[p].cells)) /\ Came(p, Len(air[p].cells)) /\ buffer = Begun(p)
        BY <1>4, <1>9, <2>2
  <2>4. \E s, a : Continued(buffer, cells, s, a)
        BY <1>6, <2>2, <2>3
  <2>5. ASSUME NEW i \in 1 .. M
        PROVE  Came(n, i)
    <3>1. PICK x \in 1 .. p : Begins(x, p, Len(air[p].cells))
          BY <2>3 DEF Came
    <3>2. p \in Nat /\ p < n /\ air[p].pid = pid
          BY <1>5, <2>2
    <3>3. x \in 1 .. n /\ x < n
          BY <1>3, <3>2
    <3>4. Begins(x, n, i)
          BY <3>1, <3>2, <3>3 DEF Begins
    <3>5. QED
          BY <1>9, <3>3, <3>4 DEF Came
  <2>6. QED
        BY <2>4, <2>5
<1>10. PICK whole : whole = {i \in 1 .. M : Came(n, i)}
       OBVIOUS
<1>11. Fitting(buffer, cells, M, whole, clean)
  <2>1. \A i \in 1 .. M : \A j \in 1 .. i : cells[j].at = 1 => i \in whole
        BY <1>7, <1>10
  <2>2. \A i \in whole : ~IsStuffing(cells[i]) /\ (\A j \in 1 .. i : cells[j].at # 1) =>
            \E s, a : Continued(buffer, cells, s, a)
        BY <1>8, <1>10
  <2>3. clean => buffer = << >> \/ \E s, a : Continued(buffer, cells, s, a)
        BY <1>9
  <2>4. clean /\ buffer # << >> => \A i \in 1 .. M : i \in whole
        BY <1>9, <1>10
  <2>5. QED
        BY <2>1, <2>2, <2>3, <2>4 DEF Fitting
<1>12. QED
       BY <1>1, <1>10, <1>11

\* The end of a sequence of two parts.
LEMMA EndOf ==
    ASSUME NEW p, IsSequence(p), NEW q, IsSequence(q), NEW r, r = p \o q
    PROVE  /\ Len(q) <= Len(r) /\ SubSeq(r, Len(r) - Len(q) + 1, Len(r)) = q
           /\ p = << >> => Len(r) = Len(q)
<1>1. PICK l \in Nat, m \in Nat : l = Len(p) /\ m = Len(q)
      BY DEF IsSequence
<1>2. IsSequence(r) /\ Len(r) = l + m
  <2>1. IsSequence(p \o q) /\ Len(p \o q) = Len(p) + Len(q)
        BY Joined
  <2>2. QED
        BY <1>1, <2>1
<1>3. \A i \in l + 1 .. l + m : r[i] = q[i - l]
  <2>1. \A i \in Len(p) + 1 .. Len(p) + Len(q) : (p \o q)[i] = q[i - Len(p)]
        BY Joined
  <2>2. QED
        BY <1>1, <2>1
<1>4. PICK i, j, t : i = l + 1 /\ j = l + m /\ t = SubSeq(r, i, j)
      OBVIOUS
<1>5. i \in Nat \ {0} /\ j \in Nat /\ j <= Len(r) /\ i <= j + 1 /\ j - i + 1 = m
      BY <1>2, <1>4
<1>6. IsSequence(t) /\ Len(t) = m
  <2>1. IsSequence(SubSeq(r, i, j)) /\ Len(SubSeq(r, i, j)) = j - i + 1
        BY <1>2, <1>5, Part
  <2>2. QED
        BY <1>4, <1>5, <2>1
<1>7. ASSUME NEW k \in 1 .. m
      PROVE  t[k] = q[k]
  <2>1. \A x \in 1 .. j - i + 1 : SubSeq(r, i, j)[x] = r[i + x - 1]
        BY <1>2, <1>5, Part
  <2>2. PICK x : x = i + k - 1
        OBVIOUS
  <2>3. k \in 1 .. j - i + 1 /\ x \in l + 1 .. l + m /\ x - l = k
        BY <1>4, <1>5, <2>2
  <2>4. t[k] = r[x] /\ r[x] = q[x - l]
        BY <1>3, <1>4, <2>1, <2>2, <2>3
  <2>5. QED
        BY <2>3, <2>4
<1>8. t = q
      BY <1>1, <1>6, <1>7, SameSequence
<1>9. SubSeq(r, Len(r) - Len(q) + 1, Len(r)) = q
  <2>1. Len(r) - Len(q) + 1 = i /\ Len(r) = j
        BY <1>1, <1>2, <1>4
  <2>2. QED
        BY <1>4, <1>8, <2>1
<1>10. p = << >> => Len(r) = Len(q)
  <2>1. SUFFICES ASSUME p = << >> PROVE Len(r) = Len(q)
        OBVIOUS
  <2>2. r = q
        BY <2>1, JoinedNothing
  <2>3. QED
        BY <2>2
<1>11. Len(q) <= Len(r)
       BY <1>1, <1>2
<1>12. QED
       BY <1>9, <1>10, <1>11

\* A packet that leaves the buffer of a PID alone.
LEMMA BufferKept ==
    ASSUME MuxerInv, AirInv, PesInv, CanRead, NEW pid \in Pids, BufferHolds(pid),
           air' = air, next' = next + 1, lost' = lost \/ lost' = lost \cup {next},
           sectionBuffers'[pid] = sectionBuffers[pid],
           next \in lost' \/ ~OnPid(air[next], pid)
    PROVE  BufferHolds(pid)'
<1>1. PICK n, buffer : n = next /\ buffer = sectionBuffers[pid]
      OBVIOUS
<1>2. /\ n \in Nat /\ n \in DOMAIN air /\ DOMAIN air \subseteq Nat
      /\ lost \subseteq 1 .. n - 1 /\ n \notin lost
  <2>1. n \in Nat \ {0} /\ DOMAIN air = 1 .. Len(air) /\ n \in DOMAIN air
        BY <1>1, AirIs DEF CanRead
  <2>2. lost \subseteq 1 .. n - 1
        BY <1>1 DEF PesInv
  <2>3. QED
        BY <2>1, <2>2
<1>3. /\ IsBuffer(buffer)
      /\ (\A m \in DOMAIN air : m < n => ~OnPid(air[m], pid)) => buffer = << >>
      /\ \A p \in DOMAIN air : LastOnPid(air, pid, p, n) =>
            IF Opens(Last(air[p].cells)) /\ Came(p, Len(air[p].cells))
            THEN buffer = Begun(p)
            ELSE (\A k \in lost : air[k].pid # pid) => buffer = << >>
      BY <1>1 DEF BufferHolds
<1>4. (\A m \in DOMAIN air' : m < next' => ~OnPid(air'[m], pid)) => buffer = << >>
  <2>1. \A m \in DOMAIN air : m < n => m < next'
        BY <1>1, <1>2
  <2>2. QED
        BY <1>3, <2>1
<1>5. ASSUME NEW p \in DOMAIN air, LastOnPid(air, pid, p, next')
      PROVE  IF Opens(Last(air'[p].cells)) /\ Came(p, Len(air[p].cells))'
             THEN buffer = Begun(p)'
             ELSE (\A k \in lost' : air'[k].pid # pid) => buffer = << >>
  <2>1. p \in Nat /\ p <= n /\ OnPid(air[p], pid)
        BY <1>1, <1>2, <1>5 DEF LastOnPid
  <2>2. CASE p = n
    <3>1. n \in lost' /\ air[n].pid = pid
          BY <1>1, <2>1, <2>2 DEF OnPid
    <3>2. ~Came(p, Len(air[p].cells))'
      <4>1. PICK i : i = Len(air[p].cells)
            OBVIOUS
      <4>2. SUFFICES ASSUME NEW m \in 1 .. n,
                            \A k \in m .. n : air'[k].pid = air'[n].pid => k \notin lost'
                     PROVE  FALSE
            BY <2>2 DEF Came
      <4>3. n \in m .. n
            BY <1>2, <4>2
      <4>4. QED
            BY <3>1, <4>2, <4>3
    <3>3. QED
          BY <3>1, <3>2
  <2>3. CASE p # n
    <3>1. p < n
          BY <1>2, <2>1, <2>3
    <3>2. LastOnPid(air, pid, p, n)
      <4>1. \A k \in DOMAIN air : k < n => k < next'
            BY <1>1, <1>2
      <4>2. QED
            BY <1>5, <3>1, <4>1 DEF LastOnPid
    <3>3. PICK l : l = Len(air[p].cells)
          OBVIOUS
    <3>4. Came(p, l)' <=> Came(p, l)
      <4>1. ASSUME NEW m \in 1 .. p
            PROVE  Begins(m, p, l)' <=> Begins(m, p, l)
            BY DEF Begins
      <4>2. ASSUME NEW m \in 1 .. p, NEW k \in m .. p
            PROVE  k \in lost' <=> k \in lost
        <5>1. k # n
              BY <1>2, <2>1, <3>1
        <5>2. QED
              BY <1>1, <5>1
      <4>3. QED
            BY <4>1, <4>2 DEF Came
    <3>5. Came(p, Len(air[p].cells))' <=> Came(p, Len(air[p].cells))
          BY <3>3, <3>4
    <3>6. Begun(p)' = Begun(p)
          BY DEF Begun
    <3>7. (\A k \in lost' : air'[k].pid # pid) => (\A k \in lost : air[k].pid # pid)
          OBVIOUS
    <3>8. IF Opens(Last(air[p].cells)) /\ Came(p, Len(air[p].cells))
          THEN buffer = Begun(p)
          ELSE (\A k \in lost : air[k].pid # pid) => buffer = << >>
          BY <1>3, <3>2
    <3>9. QED
          BY <3>5, <3>6, <3>7, <3>8
  <2>4. QED
        BY <2>2, <2>3
<1>6. sectionBuffers'[pid] = buffer
      BY <1>1
<1>7. QED
      BY <1>3, <1>4, <1>5, <1>6 DEF BufferHolds

\* A packet of which no section is read.
LEMMA SectionsQuiet ==
    ASSUME MuxerInv, AirInv, PesInv, SectionsInv, CanRead,
           air' = air, next' = next + 1, lost' = lost \/ lost' = lost \cup {next},
           sectionBuffers' = sectionBuffers, next \in lost' \/ air[next].kind # "section"
    PROVE  SectionsInv' /\ SectionsComeThrough'
<1>1. /\ sectionBuffers = [pid \in Pids |-> sectionBuffers[pid]]
      /\ \A pid \in Pids : BufferHolds(pid)
      BY DEF SectionsInv, CanRead
<1>2. ASSUME NEW pid \in Pids
      PROVE  BufferHolds(pid)'
  <2>1. next \in lost' \/ ~OnPid(air[next], pid)
        BY DEF OnPid
  <2>2. sectionBuffers'[pid] = sectionBuffers[pid] /\ BufferHolds(pid)
        BY <1>1
  <2>3. QED
        BY <2>1, <2>2, BufferKept
<1>3. SectionsInv'
  <2>1. sectionBuffers' = [pid \in Pids |-> sectionBuffers'[pid]]
        BY <1>1
  <2>2. QED
        BY <1>2, <2>1 DEF SectionsInv
<1>4. SectionsComeThrough'
  <2>1. next \in Nat \ {0}
        BY AirIs
  <2>2. Current' = next
        BY <2>1 DEF Current
  <2>3. ~(Received' /\ air'[Current'].kind = "section")
        BY <2>2 DEF Received
  <2>4. QED
        BY <2>3 DEF SectionsComeThrough
<1>5. QED
      BY <1>3, <1>4

\* A packet with sections.
LEMMA SectionsStep ==
    ASSUME MuxerInv, AirInv, PesInv, SectionsInv, ReceiveSection
    PROVE  /\ SectionsInv' /\ SectionsComeThrough'
           /\ \E more : IsSequence(more) /\ out'.sections = more \o WholeSections(next)
<1>1. PICK garbage, outcome, answers :
         /\ garbage \in Garbage
         /\ ReadSectionPacket(air[next], garbage, answers, outcome)
      BY DEF ReceiveSection
<1>2. /\ CanRead /\ air' = air /\ next' = next + 1 /\ lost' = lost
      BY DEF ReceiveSection, Advance
<1>3. PICK n, packet, pid, cells, M, buffer, read :
         /\ n = next /\ packet = air[n] /\ pid = packet.pid /\ cells = packet.cells
         /\ M = Len(cells) /\ buffer = sectionBuffers[pid]
         /\ read = ReadSections(buffer, packet, garbage)
      OBVIOUS
<1>4. /\ packet.kind = "section"
      /\ sectionBuffers' = [sectionBuffers EXCEPT ![pid] = read.buffer]
      BY <1>1, <1>3 DEF ReadSectionPacket
<1>5. out'.sections = read.sections
  <2>1. \/ out' = [Nothing EXCEPT !.sections = read.sections]
        \/ out' = [Nothing EXCEPT !.sections = read.sections,
                                  !.tables = TablesOf(read.sections, outcome)]
        BY <1>1, <1>3 DEF ReadSectionPacket
  <2>2. QED
        BY <2>1 DEF Nothing
<1>6. /\ n \in Nat \ {0} /\ n \in DOMAIN air /\ DOMAIN air \subseteq Nat /\ n \notin lost
      /\ ~ended /\ DOMAIN air = 1 .. Len(air)
  <2>1. n \in Nat \ {0} /\ DOMAIN air = 1 .. Len(air) /\ n \in DOMAIN air /\ ~ended
        BY <1>2, <1>3, AirIs DEF CanRead
  <2>2. lost \subseteq 1 .. n - 1
        BY <1>3 DEF PesInv
  <2>3. QED
        BY <2>1, <2>2
<1>7. /\ pid \in Pids /\ PointsRight(packet) /\ IsBuffer(cells) /\ InRow(cells)
      /\ M \in Nat \ {0} /\ DOMAIN cells = 1 .. M
  <2>1. /\ air[n].pid \in Pids /\ PointsRight(air[n])
        /\ IsBuffer(air[n].cells) /\ InRow(air[n].cells)
        /\ Len(air[n].cells) \in Nat \ {0}
        BY <1>3, <1>4, <1>6, AirCut
  <2>2. QED
        BY <1>3, <2>1 DEF IsBuffer, IsSequence
<1>8. /\ sectionBuffers = [p \in Pids |-> sectionBuffers[p]]
      /\ \A p \in Pids : BufferHolds(p)
      BY <1>6 DEF SectionsInv
<1>9. PICK whole, clean :
         /\ whole = {i \in 1 .. M : Came(n, i)}
         /\ clean = (\A k \in lost : air[k].pid # pid)
      OBVIOUS
<1>10. Fitting(buffer, cells, M, whole, clean)
  <2>1. clean <=> \A k \in lost : air[k].pid # pid
        BY <1>9
  <2>2. air[n].kind = "section" /\ M = Len(air[n].cells) /\ pid = air[n].pid /\ n = next
        BY <1>3, <1>4
  <2>3. Fitting(sectionBuffers[pid], air[n].cells, M, {i \in 1 .. M : Came(n, i)}, clean)
        BY <1>6, <2>1, <2>2, BufferFits
  <2>4. QED
        BY <1>3, <1>9, <2>3
<1>11. ReadsWell(read, cells, M, whole, clean)
  <2>1. IsBuffer(buffer)
        BY <1>3, <1>7, <1>8 DEF BufferHolds
  <2>2. cells = packet.cells /\ Len(cells) = M
        BY <1>3
  <2>3. ReadsWell(ReadSections(buffer, packet, garbage), cells, M, whole, clean)
        BY <1>1, <1>7, <1>10, <2>1, <2>2, SectionsRead
  <2>4. QED
        BY <1>3, <2>3
<1>12. ASSUME NEW i
       PROVE  Came(n, i)' <=> Came(n, i)
       BY <1>2 DEF Came, Begins
<1>13. sectionBuffers'[pid] = read.buffer
       BY <1>4, <1>7, <1>8
<1>14. BufferHolds(pid)'
  <2>1. IsBuffer(sectionBuffers'[pid])
        BY <1>11, <1>13 DEF ReadsWell
  <2>2. n < next' /\ OnPid(air'[n], pid)
        BY <1>2, <1>3, <1>4, <1>6 DEF OnPid
  <2>3. ASSUME NEW q \in DOMAIN air', LastOnPid(air', pid, q, next')
        PROVE  q = n
    <3>1. q \in Nat /\ q < n + 1 /\ ~(q < n)
          BY <1>2, <1>3, <1>6, <2>2, <2>3 DEF LastOnPid
    <3>2. QED
          BY <1>6, <3>1
  <2>4. M \in whole <=> Came(n, M)
    <3>1. M \in 1 .. M
          BY <1>7
    <3>2. QED
          BY <1>9, <3>1
  <2>5. Last(air'[n].cells) = cells[M] /\ Len(air'[n].cells) = M
        BY <1>2, <1>3 DEF Last
  <2>6. Came(n, Len(air[n].cells))' <=> Came(n, M)
    <3>1. Came(n, M)' <=> Came(n, M)
          BY <1>12
    <3>2. Came(n, Len(air[n].cells))' <=> Came(n, M)'
          BY <2>5 DEF Came, Begins
    <3>3. QED
          BY <3>1, <3>2
  <2>7. Begun(n)' = SubSeq(Cells(cells[M].of), 1, cells[M].at)
        BY <2>5 DEF Begun
  <2>8. IF Opens(cells[M]) /\ M \in whole
        THEN read.buffer = SubSeq(Cells(cells[M].of), 1, cells[M].at)
        ELSE clean => read.buffer = << >>
        BY <1>11 DEF ReadsWell
  <2>9. IF Opens(Last(air'[n].cells)) /\ Came(n, Len(air[n].cells))'
        THEN sectionBuffers'[pid] = Begun(n)'
        ELSE (\A k \in lost' : air'[k].pid # pid) => sectionBuffers'[pid] = << >>
    <3>1. clean <=> \A k \in lost' : air'[k].pid # pid
          BY <1>2, <1>9
    <3>2. QED
          BY <1>13, <2>4, <2>5, <2>6, <2>7, <2>8, <3>1
  <2>10. (\A m \in DOMAIN air' : m < next' => ~OnPid(air'[m], pid)) => sectionBuffers'[pid] = << >>
         BY <1>2, <1>6, <2>2
  <2>11. \A q \in DOMAIN air' : LastOnPid(air', pid, q, next') =>
            IF Opens(Last(air'[q].cells)) /\ Came(q, Len(air[q].cells))'
            THEN sectionBuffers'[pid] = Begun(q)'
            ELSE (\A k \in lost' : air'[k].pid # pid) => sectionBuffers'[pid] = << >>
         BY <2>3, <2>9
  <2>12. QED
         BY <2>1, <2>10, <2>11 DEF BufferHolds
<1>15. ASSUME NEW p \in Pids, p # pid
       PROVE  BufferHolds(p)'
  <2>1. sectionBuffers'[p] = sectionBuffers[p] /\ BufferHolds(p)
        BY <1>4, <1>8, <1>15
  <2>2. ~OnPid(air[next], p)
        BY <1>3, <1>15 DEF OnPid
  <2>3. QED
        BY <1>2, <2>1, <2>2, BufferKept
<1>16. SectionsInv'
  <2>1. sectionBuffers' = [p \in Pids |-> sectionBuffers'[p]]
        BY <1>4, <1>8
  <2>2. \A p \in Pids : BufferHolds(p)'
        BY <1>14, <1>15
  <2>3. QED
        BY <2>1, <2>2 DEF SectionsInv
<1>17. WholeSections(n)' = Listed(cells, Arrived(cells, M, whole))
  <2>1. {i \in DOMAIN cells : EndsSection(cells[i]) /\ Came(n, i)'} =
        Arrived(cells, M, whole)
        BY <1>7, <1>9, <1>12 DEF Arrived
  <2>2. air'[n].cells = cells
        BY <1>2, <1>3
  <2>3. QED
        BY <2>1, <2>2 DEF WholeSections, Listed
<1>18. SectionsComeThrough'
  <2>1. Current' = n
        BY <1>2, <1>3, <1>6 DEF Current
  <2>2. PICK more : /\ IsSequence(more) /\ (clean => more = << >>)
                    /\ read.sections = more \o Listed(cells, Arrived(cells, M, whole))
        BY <1>11 DEF ReadsWell
  <2>3. PICK w, r : w = Listed(cells, Arrived(cells, M, whole)) /\ r = read.sections
        OBVIOUS
  <2>4. IsSequence(w)
    <3>1. Arrived(cells, M, whole) \in SUBSET (1 .. M) /\ 1 .. M \subseteq Nat
          BY <1>7 DEF Arrived
    <3>2. IsFiniteSet(1 .. M)
          BY <1>7, FS_Interval
    <3>3. Arrived(cells, M, whole) \subseteq Nat /\ IsFiniteSet(Arrived(cells, M, whole))
          BY <3>1, <3>2, FS_Subset
    <3>4. QED
          BY <2>3, <3>3, ListedIs
  <2>5. /\ Len(w) <= Len(r) /\ SubSeq(r, Len(r) - Len(w) + 1, Len(r)) = w
        /\ more = << >> => Len(r) = Len(w)
    <3>1. r = more \o w
          BY <2>2, <2>3
    <3>2. QED
          BY <2>2, <2>4, <3>1, EndOf
  <2>6. WholeSections(Current)' = w
    <3>1. WholeSections(Current)' = WholeSections(n)'
          BY <2>1 DEF WholeSections, Came, Begins
    <3>2. QED
          BY <1>17, <2>3, <3>1
  <2>7. (\A k \in lost' : air'[k].pid # air'[Current'].pid) => more = << >>
        BY <1>2, <1>3, <1>9, <2>1, <2>2
  <2>8. out'.sections = r
        BY <1>5, <2>3
  <2>9. QED
        BY <2>5, <2>6, <2>7, <2>8 DEF SectionsComeThrough
<1>19. \E more : IsSequence(more) /\ out'.sections = more \o WholeSections(next)
  <2>1. PICK more : IsSequence(more)
                    /\ read.sections = more \o Listed(cells, Arrived(cells, M, whole))
        BY <1>11 DEF ReadsWell
  <2>2. WholeSections(n) = Listed(cells, Arrived(cells, M, whole))
    <3>1. {i \in DOMAIN cells : EndsSection(cells[i]) /\ Came(n, i)} =
          Arrived(cells, M, whole)
          BY <1>7, <1>9 DEF Arrived
    <3>2. air[n].cells = cells
          BY <1>3
    <3>3. QED
          BY <3>1, <3>2 DEF WholeSections, Listed
  <2>3. QED
        BY <1>3, <1>5, <2>1, <2>2
<1>20. QED
       BY <1>16, <1>18, <1>19

\* Nothing has come yet.
LEMMA SectionsStart == Init => SectionsInv /\ SectionsComeThrough
<1> SUFFICES ASSUME Init PROVE SectionsInv /\ SectionsComeThrough
      OBVIOUS
<1>1. next = 1 /\ sectionBuffers = [pid \in Pids |-> << >>]
      BY DEF Init, DemuxerInit
<1>2. Len(air) \in Nat /\ DOMAIN air = 1 .. Len(air)
      BY MuxerStart, AirStart, AirIs
<1>3. IsBuffer(<< >>)
  <2>1. Len(<< >>) = 0 /\ << >> = [i \in 1 .. 0 |-> << >>[i]] /\ DOMAIN << >> = {}
        OBVIOUS
  <2>2. QED
        BY <2>1 DEF IsSequence, IsBuffer
<1>4. ASSUME NEW pid \in Pids
      PROVE  BufferHolds(pid)
  <2>1. \A m \in DOMAIN air : ~(m < next)
        BY <1>1, <1>2
  <2>2. sectionBuffers[pid] = << >>
        BY <1>1
  <2>3. QED
        BY <1>3, <2>1, <2>2 DEF BufferHolds, LastOnPid
<1>5. SectionsInv
      BY <1>1, <1>4 DEF SectionsInv
<1>6. SectionsComeThrough
  <2>1. Current = 0
        BY <1>1 DEF Current
  <2>2. Current \notin DOMAIN air
        BY <1>2, <2>1
  <2>3. QED
        BY <2>2 DEF SectionsComeThrough, Received
<1>7. QED
      BY <1>5, <1>6

\* The muxer writes no sections but a PAT and a PMT.
LEMMA SectionsMux ==
    ASSUME MuxerInv, AirInv, SectionsInv, Mux
    PROVE  SectionsInv' /\ SectionsComeThrough'
<1>1. /\ ~ended /\ next = Len(air) + 1 /\ fed < Len(broadcast.samples)
      /\ sectionBuffers' = sectionBuffers /\ next' = next /\ ended' = ended
      /\ broadcast' = broadcast
      BY DEF Mux, demuxerVars
<1>2. broadcast.samples # << >>
  <2>1. SUFFICES ASSUME broadcast.samples = << >> PROVE FALSE
        OBVIOUS
  <2>2. Len(broadcast.samples) = 0
        BY <2>1
  <2>3. fed \in Nat
        BY DEF MuxerInv
  <2>4. QED
        BY <1>1, <2>2, <2>3
<1>3. AirInv'
      BY AirHolds DEF Next
<1>4. \A n \in DOMAIN air : air[n].kind # "section"
      BY <1>2 DEF AirInv, Unkeyed
<1>5. \A n \in DOMAIN air' : air'[n].kind # "section"
      BY <1>1, <1>2, <1>3 DEF AirInv, Unkeyed
<1>6. /\ sectionBuffers = [pid \in Pids |-> sectionBuffers[pid]]
      /\ \A pid \in Pids : BufferHolds(pid)
      BY <1>1 DEF SectionsInv
<1>7. ASSUME NEW pid \in Pids
      PROVE  BufferHolds(pid)'
  <2>1. IsBuffer(sectionBuffers[pid]) /\ sectionBuffers[pid] = << >>
        BY <1>4, <1>6 DEF BufferHolds, OnPid
  <2>2. \A n \in DOMAIN air' : ~LastOnPid(air', pid, n, next')
        BY <1>5 DEF LastOnPid, OnPid
  <2>3. QED
        BY <1>1, <2>1, <2>2 DEF BufferHolds
<1>8. SectionsInv'
      BY <1>1, <1>6, <1>7 DEF SectionsInv
<1>9. SectionsComeThrough'
      BY <1>5 DEF SectionsComeThrough, Received
<1>10. QED
       BY <1>8, <1>9

\* Every step preserves SectionsInv and SectionsComeThrough.
LEMMA SectionsHold ==
    ASSUME MuxerInv, AirInv, PesInv, SectionsInv, SectionsComeThrough, [Next]_vars
    PROVE  SectionsInv' /\ SectionsComeThrough'
<1>1. CASE Mux
      BY <1>1, SectionsMux
<1>2. CASE ReceivePat
  <2>1. /\ CanRead /\ air[next].kind = "pat" /\ air' = air /\ next' = next + 1
        /\ lost' = lost /\ sectionBuffers' = sectionBuffers
        BY <1>2 DEF ReceivePat, Advance, ReadPat, SkipPacket
  <2>2. QED
        BY <2>1, SectionsQuiet
<1>3. CASE ReceivePmt
  <2>1. /\ CanRead /\ air[next].kind = "pmt" /\ air' = air /\ next' = next + 1
        /\ lost' = lost /\ sectionBuffers' = sectionBuffers
        BY <1>3 DEF ReceivePmt, Advance, ReadPmt
  <2>2. QED
        BY <2>1, SectionsQuiet
<1>4. CASE ReceiveSection
      BY <1>4, SectionsStep
<1>5. CASE ReceivePes
  <2>1. /\ CanRead /\ air[next].kind = "pes" /\ air' = air /\ next' = next + 1
        /\ (lost' = lost \/ lost' = lost \cup {next}) /\ sectionBuffers' = sectionBuffers
        BY <1>5 DEF ReceivePes, Advance, ReadPesPacket
  <2>2. QED
        BY <2>1, SectionsQuiet
<1>6. CASE LosePacket
  <2>1. /\ CanRead /\ air' = air /\ next' = next + 1
        /\ lost' = lost \cup {next} /\ sectionBuffers' = sectionBuffers
        BY <1>6 DEF LosePacket, Advance, SkipPacket
  <2>2. next \in lost'
        BY <2>1
  <2>3. QED
        BY <2>1, <2>2, SectionsQuiet
<1>7. CASE Finish
  <2>1. ended' = TRUE
        BY <1>7 DEF Finish
  <2>2. QED
        BY <2>1 DEF SectionsInv, SectionsComeThrough
<1>8. CASE UNCHANGED vars
  <2>1. /\ air' = air /\ next' = next /\ lost' = lost /\ sectionBuffers' = sectionBuffers
        /\ out' = out /\ ended' = ended
        BY <1>8 DEF vars, receiverVars, demuxerVars
  <2>2. SectionsInv'
    <3>1. \A pid \in Pids : BufferHolds(pid)' <=> BufferHolds(pid)
          BY <2>1 DEF BufferHolds, Came, Begins, Begun
    <3>2. QED
          BY <2>1, <3>1 DEF SectionsInv
  <2>3. SectionsComeThrough'
    <3>1. Current' = Current /\ Received' = Received
          BY <2>1 DEF Current, Received
    <3>2. WholeSections(Current)' = WholeSections(Current)
          BY <2>1, <3>1 DEF WholeSections, Came, Begins
    <3>3. QED
          BY <2>1, <3>1, <3>2 DEF SectionsComeThrough
  <2>4. QED
        BY <2>2, <2>3
<1>9. CASE IgnoreSection
  <2>1. /\ CanRead /\ air' = air /\ next' = next + 1
        /\ lost' = lost \cup {next} /\ sectionBuffers' = sectionBuffers
        BY <1>9 DEF IgnoreSection, IgnoreSectionPacket, Advance, SkipPacket
  <2>2. next \in lost'
        BY <2>1
  <2>3. QED
        BY <2>1, <2>2, SectionsQuiet
<1>10. QED
       BY <1>1, <1>2, <1>3, <1>4, <1>5, <1>6, <1>7, <1>8, <1>9 DEF Next

\* The last of the sections that a packet gives are those that end in it and came
\* whole, in their order and once, however they are cut, packed and stuffed and
\* whatever was lost before; and as long as nothing of a PID is lost, no others are
\* read of it (m2ts.rs:309, read_sections).
THEOREM SectionsAreWhole == Spec => []SectionsComeThrough
<1>1. Init => MuxerInv /\ AirInv /\ PesInv /\ SamplesComeThrough
              /\ SectionsInv /\ SectionsComeThrough
      BY MuxerStart, AirStart, PesStart, SectionsStart
<1>2. MuxerInv /\ AirInv /\ PesInv /\ SamplesComeThrough
         /\ SectionsInv /\ SectionsComeThrough /\ [Next]_vars
         => (MuxerInv /\ AirInv /\ PesInv /\ SamplesComeThrough
             /\ SectionsInv /\ SectionsComeThrough)'
      BY MuxerHolds, AirHolds, PesHolds, SectionsHold
<1>3. QED
      BY <1>1, <1>2, PTL DEF Spec

-----------------------------------------------------------------------------
(* GuideIsOnAir.                                                            *)

\* What is stored has the version of what was taken.
Agrees(memory) ==
    /\ memory = [stored |-> memory.stored, guide |-> memory.guide]
    /\ memory.stored = [key \in DOMAIN memory.guide |-> SectionVersion(memory.guide[key])]

\* What is stored of a key, if anything is.
StoredOf(memory, key) ==
    IF key \in DOMAIN memory.stored THEN <<memory.stored[key]>> ELSE << >>

\* A section with a key is stored, and nothing else changes.
Stores(memory, section, after) ==
    /\ HasKey(section) => StoredOf(after, section[3].of.key) = <<SectionVersion(section)>>
    /\ \A key : ~HasKey(section) \/ key # section[3].of.key
          => StoredOf(after, key) = StoredOf(memory, key)

\* That is what Store does.
LEMMA StoreAgrees ==
    ASSUME NEW memory, Agrees(memory), NEW section, NEW after, after = Store(memory, section)
    PROVE  Agrees(after) /\ Stores(memory, section, after)
<1>1. PICK k, v, s, g : /\ k = section[3].of.key /\ v = SectionVersion(section)
                        /\ s = memory.stored /\ g = memory.guide
      OBVIOUS
<1>2. memory = [stored |-> s, guide |-> g]
      BY <1>1 DEF Agrees
<1>3. s = [key \in DOMAIN g |-> SectionVersion(g[key])] /\ DOMAIN s = DOMAIN g
      BY <1>1 DEF Agrees
<1>4. CASE ~HasKey(section) \/ (k \in DOMAIN s /\ s[k] = v)
  <2>1. after = memory
        BY <1>1, <1>4 DEF Store
  <2>2. k \in DOMAIN s /\ s[k] = v => StoredOf(after, k) = <<v>>
        BY <1>1, <2>1 DEF StoredOf
  <2>3. QED
        BY <1>1, <1>4, <2>1, <2>2 DEF Stores
<1>5. CASE ~(~HasKey(section) \/ (k \in DOMAIN s /\ s[k] = v))
  <2> DEFINE S == [x \in {k} \cup DOMAIN s |-> IF x = k THEN v ELSE s[x]]
             G == [x \in {k} \cup DOMAIN g |-> IF x = k THEN section ELSE g[x]]
  <2>1. after = [stored |-> Insert(s, k, v), guide |-> Insert(g, k, section)]
        BY <1>1, <1>5 DEF Store
  <2>2. Insert(s, k, v) = S
        BY DEF Insert
  <2>3. Insert(g, k, section) = G
        BY DEF Insert
  <2>4. after = [stored |-> S, guide |-> G]
        BY <2>1, <2>2, <2>3
  <2>5. after.stored = S /\ after.guide = G /\ after = [stored |-> after.stored, guide |-> after.guide]
        BY <2>4
  <2>6. S = [x \in DOMAIN G |-> SectionVersion(G[x])]
    <3>1. ASSUME NEW x \in {k} \cup DOMAIN s
          PROVE  S[x] = SectionVersion(G[x])
      <4>1. CASE x = k
            BY <1>1, <4>1
      <4>2. CASE x # k
        <5>1. x \in DOMAIN g /\ S[x] = s[x] /\ G[x] = g[x]
              BY <1>3, <4>2
        <5>2. QED
              BY <1>3, <5>1
      <4>3. QED
            BY <4>1, <4>2
    <3>2. DOMAIN G = {k} \cup DOMAIN s
          BY <1>3
    <3> HIDE DEF G
    <3>3. QED
          BY <3>1, <3>2
  <2>7. Agrees(after)
        BY <2>5, <2>6 DEF Agrees
  <2>8. k \in DOMAIN S /\ S[k] = v
        OBVIOUS
  <2>9. ASSUME NEW x, x # k
        PROVE  (x \in DOMAIN S <=> x \in DOMAIN s) /\ (x \in DOMAIN s => S[x] = s[x])
        BY <2>9
  <2> HIDE DEF S
  <2>10. StoredOf(after, k) = <<v>>
         BY <2>5, <2>8 DEF StoredOf
  <2>11. ASSUME NEW x, x # k
         PROVE  StoredOf(after, x) = StoredOf(memory, x)
         BY <1>1, <2>5, <2>9, <2>11 DEF StoredOf
  <2>12. QED
         BY <1>1, <1>5, <2>7, <2>10, <2>11 DEF Stores
<1>6. QED
      BY <1>4, <1>5

\* What some tables leave in the store, one after another.
Storing(f, tables, base, L) ==
    f = [i \in 0 .. L |-> IF i = 0 THEN base ELSE Store(f[i - 1], tables[i])]

\* There is one way to do so.
LEMMA StoredDefined ==
    ASSUME NEW tables, NEW base, NEW L \in Nat
    PROVE  \E f : Storing(f, tables, base, L)
<1> DEFINE Is(g, i) == g[i] = IF i = 0 THEN base ELSE Store(g[i - 1], tables[i])
           Good(k) == \E g : g = [i \in 0 .. k |-> g[i]] /\ \A i \in 0 .. k : Is(g, i)
           T == {k \in 0 .. L : ~Good(k)}
<1>1. T \subseteq Nat
  <2>1. \A k \in 0 .. L : k \in Nat
        OBVIOUS
  <2>2. QED
        BY <2>1, Zenon
<1>2. T = {}
  <2>1. SUFFICES ASSUME T # {} PROVE FALSE
        OBVIOUS
  <2>2. PICK k \in T : \A j \in T : ~(<<j, k>> \in OpToRel(<, Nat))
        BY <1>1, <2>1, NatLessThanWellFounded, WFMin
  <2>3. k \in 0 .. L /\ ~Good(k)
        OBVIOUS
  <2> HIDE DEF T
  <2>4. \A j \in T : ~(j < k)
        BY <1>1, <2>2 DEF OpToRel
  <2>5. CASE k = 0
    <3> DEFINE g == [i \in 0 .. k |-> base]
    <3>1. \A i \in 0 .. k : Is(g, i)
          BY <2>5
    <3>2. g = [i \in 0 .. k |-> g[i]]
          OBVIOUS
    <3> HIDE DEF g, Is
    <3>3. QED
          BY <2>3, <3>1, <3>2
  <2>6. CASE k # 0
    <3>1. k - 1 \in 0 .. L /\ k - 1 < k /\ k \in Nat
          BY <2>3, <2>6
    <3>2. k - 1 \notin T
          BY <2>4, <3>1
    <3>3. Good(k - 1)
          BY <3>1, <3>2 DEF T
    <3>4. PICK g : \A i \in 0 .. k - 1 : Is(g, i)
          BY <3>3
    <3> DEFINE h == [i \in 0 .. k |-> IF i = k THEN Store(g[k - 1], tables[k]) ELSE g[i]]
    <3>5. \A i \in 0 .. k - 1 : i \in 0 .. k /\ i # k
          BY <3>1
    <3>6. \A i \in 0 .. k - 1 : h[i] = g[i]
          BY <3>5, Zenon
    <3>7. k \in 0 .. k
          BY <3>1
    <3>8. h[k] = Store(g[k - 1], tables[k])
          BY <3>7
    <3>9. h = [i \in 0 .. k |-> h[i]]
          OBVIOUS
    <3> HIDE DEF h
    <3>10. ASSUME NEW i \in 0 .. k
           PROVE  Is(h, i)
      <4>1. CASE i = k
        <5>1. k - 1 \in 0 .. k - 1
              BY <2>6, <3>1
        <5>2. h[k - 1] = g[k - 1]
              BY <3>6, <5>1
        <5>3. QED
              BY <2>6, <3>8, <4>1, <5>2
      <4>2. CASE i # k
        <5>1. i \in 0 .. k - 1 /\ (i # 0 => i - 1 \in 0 .. k - 1)
              BY <3>1, <4>2
        <5>2. g[i] = IF i = 0 THEN base ELSE Store(g[i - 1], tables[i])
              BY <3>4, <5>1
        <5>3. h[i] = g[i] /\ (i # 0 => h[i - 1] = g[i - 1])
              BY <3>6, <5>1
        <5>4. QED
              BY <5>2, <5>3
      <4>3. QED
            BY <4>1, <4>2
    <3> HIDE DEF Is
    <3>11. Good(k)
          BY <3>9, <3>10
    <3>12. QED
          BY <2>3, <3>11
  <2>7. QED
        BY <2>5, <2>6
<1>3. Good(L)
  <2>1. L \in 0 .. L
        OBVIOUS
  <2> HIDE DEF Good
  <2>2. QED
        BY <1>2, <2>1
<1>4. PICK g : g = [i \in 0 .. L |-> g[i]] /\ \A i \in 0 .. L : Is(g, i)
      BY <1>3
<1>5. g = [i \in 0 .. L |-> IF i = 0 THEN base ELSE Store(g[i - 1], tables[i])]
      BY <1>4
<1>6. QED
      BY <1>5 DEF Storing

\* Tables are stored one after another.
StoredBy(f, tables, L) == \A i \in 1 .. L : f[i] = Store(f[i - 1], tables[i])

\* Process stores the tables one after another.
LEMMA ProcessIs ==
    ASSUME Process, NEW tables, tables = out'.tables, NEW L \in Nat, Len(tables) = L
    PROVE  \E f : /\ f[0] = [stored |-> stored, guide |-> guide]
                  /\ StoredBy(f, tables, L)
                  /\ stored' = f[L].stored /\ guide' = f[L].guide
<1>0. PICK base : base = [stored |-> stored, guide |-> guide]
      OBVIOUS
<1> DEFINE Step(f) == [i \in 0 .. L |-> IF i = 0 THEN base ELSE Store(f[i - 1], tables[i])]
<1>1. PICK f : f = CHOOSE g : g = Step(g)
      OBVIOUS
<1>2. stored' = f[L].stored /\ guide' = f[L].guide
      BY <1>0, <1>1 DEF Process
<1>3. f = Step(f)
  <2>1. \E g : g = Step(g)
    <3>1. PICK g : Storing(g, tables, base, L)
          BY StoredDefined
    <3>2. g = Step(g)
          BY <3>1 DEF Storing
    <3> HIDE DEF Step
    <3>3. QED
          BY <3>2
  <2> HIDE DEF Step
  <2>2. QED
        BY <1>1, <2>1
<1>4. ASSUME NEW i \in 0 .. L
      PROVE  f[i] = IF i = 0 THEN base ELSE Store(f[i - 1], tables[i])
  <2>1. Step(f)[i] = IF i = 0 THEN base ELSE Store(f[i - 1], tables[i])
        OBVIOUS
  <2> HIDE DEF Step
  <2>2. f[i] = Step(f)[i]
        BY <1>3, Zenon
  <2>3. QED
        BY <2>1, <2>2, Zenon
<1>5. f[0] = base
  <2>1. 0 \in 0 .. L
        OBVIOUS
  <2>2. QED
        BY <1>4, <2>1
<1>6. ASSUME NEW i \in 1 .. L
      PROVE  f[i] = Store(f[i - 1], tables[i])
  <2>1. i \in 0 .. L /\ i # 0
        OBVIOUS
  <2>2. QED
        BY <1>4, <2>1
<1>7. QED
      BY <1>0, <1>2, <1>5, <1>6 DEF StoredBy

\* What is stored in the end: the last of the tables with its key.
LEMMA StoredLast ==
    ASSUME NEW tables, NEW L \in Nat, NEW f, Agrees(f[0]),
           StoredBy(f, tables, L)
    PROVE  /\ Agrees(f[L])
           /\ \A i \in 1 .. L :
                 HasKey(tables[i])
                 /\ (\A j \in i + 1 .. L : tables[j][3].of.key # tables[i][3].of.key)
                 => StoredOf(f[L], tables[i][3].of.key) = <<SectionVersion(tables[i])>>
<1>1. ASSUME NEW i \in 1 .. L
      PROVE  i - 1 \in 0 .. L /\ i - 1 < i /\ i \in Nat /\ f[i] = Store(f[i - 1], tables[i])
  <2>1. i - 1 \in 0 .. L /\ i - 1 < i /\ i \in Nat
        OBVIOUS
  <2>2. QED
        BY <2>1 DEF StoredBy
<1>2. ASSUME NEW m \in 0 .. L PROVE Agrees(f[m])
  <2> DEFINE T == {k \in 0 .. L : ~Agrees(f[k])}
  <2>1. T = {}
    <3>1. SUFFICES ASSUME T # {} PROVE FALSE
          OBVIOUS
    <3>2. T \subseteq Nat
      <4>1. \A k \in 0 .. L : k \in Nat
            OBVIOUS
      <4>2. QED
            BY <4>1, Zenon
    <3>3. PICK k \in T : \A j \in T : ~(<<j, k>> \in OpToRel(<, Nat))
          BY <3>1, <3>2, NatLessThanWellFounded, WFMin
    <3>4. \A j \in T : ~(j < k)
          BY <3>2, <3>3 DEF OpToRel
    <3>5. k \in 0 .. L /\ ~Agrees(f[k])
          OBVIOUS
    <3>6. k \in 1 .. L
      <4>1. k # 0
            BY <3>5
      <4>2. QED
            BY <3>5, <4>1
    <3>7. Agrees(f[k - 1])
          BY <1>1, <3>4, <3>6
    <3>8. QED
          BY <1>1, <3>5, <3>6, <3>7, StoreAgrees
  <2>2. QED
        BY <2>1
<1>3. ASSUME NEW i \in 1 .. L, HasKey(tables[i]), NEW key, key = tables[i][3].of.key,
             \A j \in i + 1 .. L : tables[j][3].of.key # key,
             NEW v, v = SectionVersion(tables[i])
      PROVE  StoredOf(f[L], key) = <<v>>
  <2> DEFINE T == {k \in i .. L : StoredOf(f[k], key) # <<v>>}
  <2>1. T = {}
    <3>1. SUFFICES ASSUME T # {} PROVE FALSE
          OBVIOUS
    <3>2. T \subseteq Nat
      <4>1. \A k \in i .. L : k \in Nat
            OBVIOUS
      <4>2. QED
            BY <4>1, Zenon
    <3>3. PICK k \in T : \A j \in T : ~(<<j, k>> \in OpToRel(<, Nat))
          BY <3>1, <3>2, NatLessThanWellFounded, WFMin
    <3>4. \A j \in T : ~(j < k)
          BY <3>2, <3>3 DEF OpToRel
    <3>5. k \in i .. L /\ k \in 1 .. L /\ StoredOf(f[k], key) # <<v>>
      <4>1. k \in i .. L /\ StoredOf(f[k], key) # <<v>>
            OBVIOUS
      <4>2. QED
            BY <4>1
    <3>6. Agrees(f[k - 1]) /\ f[k] = Store(f[k - 1], tables[k])
          BY <1>1, <1>2, <3>5
    <3>7. Stores(f[k - 1], tables[k], f[k])
           BY <3>6, StoreAgrees
    <3>8. k # i
      <4>1. SUFFICES ASSUME k = i PROVE FALSE
            OBVIOUS
      <4>2. StoredOf(f[i], key) = <<v>>
            BY <1>3, <3>7, <4>1 DEF Stores
      <4>3. QED
            BY <3>5, <4>1, <4>2
    <3>9. k \in i + 1 .. L /\ k - 1 \in i .. L /\ k - 1 < k
          BY <3>5, <3>8
    <3>10. StoredOf(f[k - 1], key) = <<v>>
          BY <3>4, <3>9
    <3>11. tables[k][3].of.key # key
           BY <1>3, <3>9
    <3>12. StoredOf(f[k], key) = StoredOf(f[k - 1], key)
           BY <3>11, <3>7 DEF Stores
    <3>13. QED
           BY <3>5, <3>10, <3>12
  <2>2. L \in i .. L
        OBVIOUS
  <2>3. QED
        BY <2>1, <2>2
<1>4. Agrees(f[L])
  <2>1. L \in 0 .. L
        OBVIOUS
  <2>2. QED
        BY <1>2, <2>1
<1>5. QED
      BY <1>3, <1>4

\* Item i of a sequence comes in another one, and after it only later items.
ComesLast(tables, w, i) ==
    \E a \in DOMAIN tables :
        /\ tables[a] = w[i]
        /\ \A b \in DOMAIN tables : a < b => \E j \in DOMAIN w : i < j /\ tables[b] = w[j]

\* The end of a sequence comes last in it.
LEMMA EndComesLast ==
    ASSUME NEW more, IsSequence(more), NEW w, IsSequence(w), NEW i \in DOMAIN w
    PROVE  ComesLast(more \o w, w, i)
<1>1. PICK m, n, r : m \in Nat /\ n \in Nat /\ m = Len(more) /\ n = Len(w) /\ r = more \o w
      BY DEF IsSequence
<1>2. DOMAIN w = 1 .. n /\ i \in 1 .. n /\ m \in Nat /\ n \in Nat
      BY <1>1 DEF IsSequence
<1>3. /\ DOMAIN r = 1 .. m + n
      /\ \A k \in m + 1 .. m + n : r[k] = w[k - m]
  <2>1. /\ DOMAIN (more \o w) = 1 .. Len(more) + Len(w)
        /\ \A k \in Len(more) + 1 .. Len(more) + Len(w) : (more \o w)[k] = w[k - Len(more)]
        BY Joined
  <2>2. QED
        BY <1>1, <2>1
<1>4. m + i \in DOMAIN r /\ m + i \in m + 1 .. m + n /\ (m + i) - m = i
      BY <1>2, <1>3
<1>5. r[m + i] = w[i]
      BY <1>3, <1>4
<1>6. ASSUME NEW b \in DOMAIN r, m + i < b
      PROVE  \E j \in DOMAIN w : i < j /\ r[b] = w[j]
  <2>1. b \in m + 1 .. m + n /\ b - m \in 1 .. n /\ i < b - m
        BY <1>2, <1>3, <1>6
  <2>2. r[b] = w[b - m] /\ b - m \in DOMAIN w
        BY <1>2, <1>3, <2>1
  <2>3. QED
        BY <2>1, <2>2
<1>7. ComesLast(r, w, i)
      BY <1>4, <1>5, <1>6 DEF ComesLast
<1>8. QED
      BY <1>1, <1>7

\* So it does when those that are not whole are left out.
LEMMA WholeComeLast ==
    ASSUME NEW more, IsSequence(more), NEW w, IsSequence(w), NEW i \in DOMAIN w,
           \A j \in DOMAIN w : IsWhole(w[j])
    PROVE  ComesLast(WholeOnes(more \o w), w, i)
<1>1. PICK m, n, r, o :
         /\ m \in Nat /\ n \in Nat /\ m = Len(more) /\ n = Len(w)
         /\ r = more \o w /\ o = WholeOnes(r)
      BY DEF IsSequence
<1>2. DOMAIN w = 1 .. n /\ i \in 1 .. n /\ m \in Nat /\ n \in Nat
      BY <1>1 DEF IsSequence
<1>3. DOMAIN r = 1 .. m + n /\ \A k \in m + 1 .. m + n : r[k] = w[k - m]
  <2>1. /\ DOMAIN (more \o w) = 1 .. Len(more) + Len(w)
        /\ \A k \in Len(more) + 1 .. Len(more) + Len(w) : (more \o w)[k] = w[k - Len(more)]
        BY Joined
  <2>2. QED
        BY <1>1, <2>1
<1>4. PICK S : S = {k \in DOMAIN r : IsWhole(r[k])}
      OBVIOUS
<1>5. S \subseteq Nat /\ IsFiniteSet(S) /\ Cardinality(S) \in Nat
  <2>1. S \in SUBSET (1 .. m + n) /\ 1 .. m + n \subseteq Nat
        BY <1>2, <1>3, <1>4
  <2>2. IsFiniteSet(1 .. m + n)
        BY <1>2, FS_Interval
  <2>3. QED
        BY <2>1, <2>2, FS_Subset, FS_CardinalityType
<1>6. o = [k \in 1 .. Cardinality(S) |-> r[Ascending(S)[k]]]
  <2>1. DOMAIN Ascending(S) = 1 .. Cardinality(S)
        BY DEF Ascending
  <2>2. o = [k \in DOMAIN Ascending(S) |-> r[Ascending(S)[k]]]
        BY <1>1, <1>4 DEF WholeOnes
  <2>3. QED
        BY <2>1, <2>2
<1>7. m + i \in 1 .. m + n /\ m + i \in m + 1 .. m + n /\ (m + i) - m = i /\ m + i \in Nat
      BY <1>2
<1>8. r[m + i] = w[i] /\ m + i \in S
      BY <1>2, <1>3, <1>4, <1>7
<1>9. PICK a : a = Cardinality({k \in S : k <= m + i})
      OBVIOUS
<1>10. a \in 1 .. Cardinality(S) /\ Ascending(S)[a] = m + i
       BY <1>5, <1>8, <1>9, AscendingIs
<1>11. a \in DOMAIN o /\ o[a] = w[i]
       BY <1>6, <1>8, <1>10
<1>12. ASSUME NEW b \in DOMAIN o, a < b
       PROVE  \E j \in DOMAIN w : i < j /\ o[b] = w[j]
  <2>1. PICK p : p = Ascending(S)[b]
        OBVIOUS
  <2>2. b \in 1 .. Cardinality(S) /\ o[b] = r[p]
        BY <1>6, <2>1
  <2>3. p \in S /\ Cardinality({k \in S : k <= p}) = b
        BY <1>5, <2>1, <2>2, AscendingIn
  <2>4. m + i < p
    <3>1. SUFFICES ASSUME p <= m + i PROVE FALSE
          BY <1>5, <1>7, <2>3
    <3>2. {k \in S : k <= p} \in SUBSET {k \in S : k <= m + i}
      <4>1. \A k \in S : k \in Nat
            BY <1>5
      <4>2. m + i \in Nat /\ p \in Nat
            BY <1>7, <2>3, <4>1
      <4>3. \A k \in S : k <= p => k <= m + i
            BY <3>1, <4>1, <4>2
      <4>4. QED
            BY <4>3
    <3>3. IsFiniteSet({k \in S : k <= m + i})
          BY <1>5, FS_Subset
    <3>4. Cardinality({k \in S : k <= p}) <= Cardinality({k \in S : k <= m + i})
          BY <3>2, <3>3, FS_Subset
    <3>5. b <= a
          BY <1>9, <2>3, <3>4
    <3>6. QED
      <4>1. a \in Nat /\ b \in Nat
            BY <1>5, <1>10, <2>2
      <4>2. QED
            BY <1>12, <3>5, <4>1
  <2>5. p \in 1 .. m + n
        BY <1>3, <1>4, <2>3
  <2>6. p \in m + 1 .. m + n /\ p - m \in 1 .. n /\ i < p - m
    <3>1. p \in Nat /\ p <= m + n
          BY <1>2, <2>5
    <3>2. QED
          BY <1>2, <2>4, <3>1
  <2>7. r[p] = w[p - m] /\ p - m \in DOMAIN w
        BY <1>2, <1>3, <2>6
  <2>8. QED
        BY <2>2, <2>6, <2>7
<1>13. ComesLast(o, w, i)
       BY <1>11, <1>12 DEF ComesLast
<1>14. QED
       BY <1>1, <1>13

-----------------------------------------------------------------------------
(* What the packets leave in the guide.                                     *)

\* The whole sections of a packet have their keys.
WithKeys(w) ==
    /\ IsSequence(w)
    /\ \A i \in DOMAIN w : IsWhole(w[i]) /\ HasKey(w[i]) /\ w[i][1].of = w[i][3].of

\* The whole sections of a packet are such.
LEMMA WholeAre ==
    ASSUME MuxerInv, AirInv, NEW n \in DOMAIN air, air[n].kind = "section"
    PROVE  WithKeys(WholeSections(n))
<1>1. PICK cells, M, S, w :
         /\ cells = air[n].cells /\ M = Len(cells) /\ w = WholeSections(n)
         /\ S = {i \in DOMAIN cells : EndsSection(cells[i]) /\ Came(n, i)}
      OBVIOUS
<1>2. IsBuffer(cells) /\ M \in Nat /\ DOMAIN cells = 1 .. M
  <2>1. IsBuffer(air[n].cells) /\ Len(air[n].cells) \in Nat
        BY AirCut
  <2>2. QED
        BY <1>1, <2>1 DEF IsBuffer, IsSequence
<1>3. ASSUME NEW i \in DOMAIN cells, ~IsStuffing(cells[i])
      PROVE  cells[i].of.length > HeaderLength
  <2>1. broadcast.samples = << >>
        BY DEF AirInv, Unkeyed
  <2>2. air = broadcast.packets /\ broadcast \in Broadcasts
        BY <2>1 DEF AirInv
  <2>3. SectionsCut(air)
        BY <2>2, BroadcastAssumption
  <2>4. \A cell \in Range(cells) : ~IsStuffing(cell) => cell.of.length > HeaderLength
        BY <1>1, <2>3 DEF SectionsCut
  <2>5. cells[i] \in Range(cells)
        BY DEF Range
  <2>6. QED
        BY <1>3, <2>4, <2>5
<1>4. S \subseteq Nat /\ IsFiniteSet(S)
  <2>1. S \in SUBSET (1 .. M) /\ 1 .. M \subseteq Nat
        BY <1>1, <1>2
  <2>2. IsFiniteSet(1 .. M)
        BY <1>2, FS_Interval
  <2>3. QED
        BY <2>1, <2>2, FS_Subset
<1>5. w = Listed(cells, S)
      BY <1>1 DEF WholeSections, Listed
<1>6. Enumerates(w, Cardinality(S), cells, S)
      BY <1>4, <1>5, ListedEnumerates
<1>7. IsSequence(w) /\ DOMAIN w = 1 .. Cardinality(S)
      BY <1>6 DEF Enumerates
<1>8. ASSUME NEW i \in DOMAIN w
      PROVE  IsWhole(w[i]) /\ HasKey(w[i]) /\ w[i][1].of = w[i][3].of
  <2>1. PICK p, s : p = Ascending(S)[i] /\ s = cells[p].of
        OBVIOUS
  <2>2. i \in 1 .. Cardinality(S)
        BY <1>7
  <2>3. p \in S
        BY <1>4, <2>1, <2>2, AscendingIn
  <2>4. w[i] = Cells(s)
        BY <1>6, <2>1, <2>2 DEF Enumerates
  <2>5. p \in DOMAIN cells /\ ~IsStuffing(cells[p])
        BY <1>1, <2>3 DEF EndsSection
  <2>6. s.length \in Nat
    <3>1. PICK cell : cell = cells[p]
          OBVIOUS
    <3>2. IsCell(cell)
          BY <1>2, <2>5, <3>1 DEF IsBuffer
    <3>3. ~IsStuffing(cell)
          BY <2>5, <3>1
    <3>4. cell.of.length \in Nat
          BY <3>2, <3>3 DEF IsCell, IsStuffing
    <3>5. QED
          BY <2>1, <3>1, <3>4
  <2>7. s.length > 2
        BY <1>3, <2>1, <2>5 DEF HeaderLength
  <2>8. PICK l, c : l = s.length /\ c = Cells(s)
        OBVIOUS
  <2>9. Len(c) = l /\ \A k \in 1 .. l : c[k] = [of |-> s, at |-> k]
        BY <2>6, <2>8, CellsAre
  <2>10. 1 \in 1 .. l /\ 3 \in 1 .. l /\ l >= 3
         BY <2>6, <2>7, <2>8
  <2>11. c[1] = [of |-> s, at |-> 1] /\ c[3] = [of |-> s, at |-> 3]
         BY <2>9, <2>10
  <2>12. c # << >>
         BY <2>9, <2>10
  <2>13. IsWhole(c)
         BY <2>8, <2>11, <2>12 DEF IsWhole
  <2>14. HasKey(c) /\ c[1].of = c[3].of
         BY <2>9, <2>10, <2>11 DEF HasKey
  <2>15. QED
         BY <2>4, <2>8, <2>13, <2>14
<1>9. WithKeys(w)
      BY <1>7, <1>8 DEF WithKeys
<1>10. QED
       BY <1>1, <1>9

\* What is held has the version that is remembered.
GuideInv == Agrees([stored |-> stored, guide |-> guide])

\* The CRC tells a section from others of its key and version_number: what the
\* guide has with the version of a section on air is that section.
CrcTells ==
    Received /\ air[Current].kind = "section" =>
        LET whole == WholeSections(Current)
        IN  \A i \in DOMAIN whole :
               LET key == whole[i][1].of.key
               IN  key \in DOMAIN guide /\ SectionVersion(guide[key]) = SectionVersion(whole[i])
                   => guide[key] = whole[i]

\* Without tables nothing is stored.
LEMMA NothingStored ==
    ASSUME Process, out'.tables = << >>, GuideInv
    PROVE  GuideInv'
<1>1. PICK f : /\ f[0] = [stored |-> stored, guide |-> guide]
               /\ stored' = f[0].stored /\ guide' = f[0].guide
  <2>1. PICK tables : tables = out'.tables /\ Len(tables) = 0
        OBVIOUS
  <2>2. QED
        BY <2>1, ProcessIs
<1>2. stored' = stored /\ guide' = guide
      BY <1>1
<1>3. QED
      BY <1>2 DEF GuideInv

\* A packet with sections leaves the last whole ones of each key.
LEMMA GuideStep ==
    ASSUME MuxerInv, AirInv, PesInv, SectionsInv, GuideInv, ReceiveSection
    PROVE  GuideInv' /\ (CrcTells => GuideIsOnAir)'
<1>1. PICK garbage, outcome, answers :
         ReadSectionPacket(air[next], garbage, answers, outcome)
      BY DEF ReceiveSection
<1>2. /\ CanRead /\ air' = air /\ next' = next + 1 /\ lost' = lost /\ Process
      BY DEF ReceiveSection, Advance
<1>3. PICK n, w, sections, tables :
         /\ n = next /\ w = WholeSections(n) /\ sections = out'.sections /\ tables = out'.tables
      OBVIOUS
<1>4. n \in Nat \ {0} /\ n \in DOMAIN air /\ air[n].kind = "section"
      BY <1>1, <1>2, <1>3, AirIs DEF CanRead, ReadSectionPacket
<1>5. IsSequence(w) /\ \A i \in DOMAIN w : IsWhole(w[i]) /\ HasKey(w[i]) /\ w[i][1].of = w[i][3].of
  <2>1. WithKeys(w)
        BY <1>3, <1>4, WholeAre
  <2>2. QED
        BY <2>1 DEF WithKeys
<1>6. PICK more : IsSequence(more) /\ sections = more \o w
  <2>1. PICK more : IsSequence(more) /\ out'.sections = more \o WholeSections(next)
        BY SectionsStep
  <2>2. QED
        BY <1>3, <2>1
<1>7. /\ ecmPids' = ecmPids
      /\ \/ air[n].pid \in ecmPids /\ tables = << >>
         \/ air[n].pid \notin ecmPids /\ tables = TablesOf(sections, outcome)
  <2>1. PICK read : read = ReadSections(sectionBuffers[air[n].pid], air[n], garbage)
        OBVIOUS
  <2>2. /\ ecmPids' = ecmPids
        /\ \/ /\ air[n].pid \in ecmPids
              /\ out' = [Nothing EXCEPT !.sections = read.sections]
           \/ /\ air[n].pid \notin ecmPids
              /\ out' = [Nothing EXCEPT !.sections = read.sections,
                                        !.tables = TablesOf(read.sections, outcome)]
        BY <1>1, <1>3, <2>1 DEF ReadSectionPacket
  <2>3. QED
        BY <1>3, <2>2 DEF Nothing
<1>8. tables \in {sections, WholeOnes(sections), << >>}
      BY <1>7 DEF TablesOf
<1>9. Len(tables) \in Nat /\ DOMAIN tables = 1 .. Len(tables)
  <2>1. CASE tables = sections
    <3>1. IsSequence(more \o w)
          BY <1>5, <1>6, Joined
    <3>2. QED
          BY <1>6, <2>1, <3>1 DEF IsSequence
  <2>2. CASE tables = WholeOnes(sections)
    <3>1. IsSequence(more \o w)
          BY <1>5, <1>6, Joined
    <3>2. PICK m : m \in Nat /\ DOMAIN sections = 1 .. m
          BY <1>6, <3>1 DEF IsSequence
    <3>3. PICK S : S = {k \in DOMAIN sections : IsWhole(sections[k])}
          OBVIOUS
    <3>4. Cardinality(S) \in Nat
      <4>1. S \in SUBSET (1 .. m)
            BY <3>2, <3>3
      <4>2. IsFiniteSet(1 .. m)
            BY <3>2, FS_Interval
      <4>3. QED
            BY <4>1, <4>2, FS_Subset, FS_CardinalityType
    <3>5. DOMAIN Ascending(S) = 1 .. Cardinality(S)
          BY DEF Ascending
    <3>6. tables = [k \in DOMAIN Ascending(S) |-> sections[Ascending(S)[k]]]
          BY <2>2, <3>3 DEF WholeOnes
    <3>7. DOMAIN tables = 1 .. Cardinality(S)
          BY <3>5, <3>6
    <3>8. tables = [k \in 1 .. Cardinality(S) |-> sections[Ascending(S)[k]]]
          BY <3>5, <3>6
    <3>9. Len(tables) = Cardinality(S)
          BY <3>4, <3>8
    <3>10. QED
           BY <3>4, <3>7, <3>9
  <2>3. CASE tables = << >>
        BY <2>3
  <2>4. QED
        BY <1>8, <2>1, <2>2, <2>3
<1>10. PICK L : L = Len(tables)
       OBVIOUS
<1>11. L \in Nat /\ DOMAIN tables = 1 .. L
       BY <1>9, <1>10
<1>12. PICK f : /\ f[0] = [stored |-> stored, guide |-> guide]
                /\ StoredBy(f, tables, L)
                /\ stored' = f[L].stored /\ guide' = f[L].guide
  <2>1. tables = out'.tables /\ Len(tables) = L
        BY <1>3, <1>10
  <2>2. QED
        BY <1>2, <1>11, <2>1, ProcessIs
<1>13. Agrees(f[L])
  <2>1. Agrees(f[0])
        BY <1>12 DEF GuideInv
  <2>2. QED
        BY <1>12, <1>11, <2>1, StoredLast
<1>14. f[L] = [stored |-> stored', guide |-> guide']
  <2>1. PICK m : m = f[L]
        OBVIOUS
  <2>2. m = [stored |-> m.stored, guide |-> m.guide]
        BY <1>13, <2>1 DEF Agrees
  <2>3. m.stored = stored' /\ m.guide = guide'
        BY <1>12, <2>1
  <2>4. QED
        BY <2>1, <2>2, <2>3
<1>15. GuideInv'
       BY <1>13, <1>14 DEF GuideInv
<1>16. ASSUME NEW i \in DOMAIN w, ComesLast(tables, w, i), NEW key, key = w[i][1].of.key,
              \A j \in DOMAIN w : i < j => w[j][1].of.key # key
       PROVE  key \in DOMAIN guide' /\ SectionVersion(guide'[key]) = SectionVersion(w[i])
  <2>1. PICK a \in DOMAIN tables :
           /\ tables[a] = w[i]
           /\ \A b \in DOMAIN tables : a < b => \E j \in DOMAIN w : i < j /\ tables[b] = w[j]
        BY <1>16 DEF ComesLast
  <2>2. a \in 1 .. L /\ HasKey(tables[a]) /\ tables[a][3].of.key = key
        BY <1>5, <1>11, <1>16, <2>1
  <2>3. ASSUME NEW b \in a + 1 .. L
        PROVE  tables[b][3].of.key # key
    <3>1. b \in DOMAIN tables /\ a < b
          BY <1>11, <2>2
    <3>2. PICK j \in DOMAIN w : i < j /\ tables[b] = w[j]
          BY <2>1, <3>1
    <3>3. w[j][1].of.key # key /\ w[j][1].of = w[j][3].of
          BY <1>5, <1>16, <3>2
    <3>4. QED
          BY <3>2, <3>3
  <2>4. StoredOf(f[L], key) = <<SectionVersion(w[i])>>
    <3>1. Agrees(f[0])
          BY <1>12 DEF GuideInv
    <3>2. StoredOf(f[L], tables[a][3].of.key) = <<SectionVersion(tables[a])>>
          BY <1>12, <1>11, <2>2, <2>3, <3>1, StoredLast
    <3>3. QED
          BY <2>1, <2>2, <3>2
  <2>5. key \in DOMAIN stored' /\ stored'[key] = SectionVersion(w[i])
        BY <1>14, <2>4 DEF StoredOf
  <2>6. stored' = [k \in DOMAIN guide' |-> SectionVersion(guide'[k])]
        BY <1>13, <1>14 DEF Agrees
  <2>7. QED
        BY <2>5, <2>6
<1>17. Current' = n /\ air'[Current'].kind = "section" /\ WholeSections(Current)' = w
  <2>1. Current' = n
        BY <1>2, <1>3, <1>4 DEF Current
  <2>2. WholeSections(Current)' = WholeSections(n)
        BY <1>2, <2>1 DEF WholeSections, Came, Begins
  <2>3. QED
        BY <1>2, <1>3, <1>4, <2>1, <2>2
<1>18. ASSUME CrcTells', Received', air'[n].pid \notin ecmPids',
              tables # << >> \/ \A i \in DOMAIN sections : IsWhole(sections[i]),
              NEW i \in DOMAIN w, NEW key, key = w[i][1].of.key,
              \A j \in DOMAIN w : i < j => w[j][1].of.key # key
       PROVE  guide'[key] = w[i]
  <2>1. tables = sections \/ tables = WholeOnes(sections)
    <3>1. tables = TablesOf(sections, outcome)
          BY <1>2, <1>7, <1>18
    <3>2. QED
          BY <1>18, <3>1 DEF TablesOf
  <2>2. ComesLast(tables, w, i)
    <3>1. CASE tables = sections
      <4>1. ComesLast(more \o w, w, i)
            BY <1>5, <1>6, EndComesLast
      <4>2. QED
            BY <1>6, <3>1, <4>1
    <3>2. CASE tables = WholeOnes(sections)
      <4>1. ComesLast(WholeOnes(more \o w), w, i)
            BY <1>5, <1>6, WholeComeLast
      <4>2. QED
            BY <1>6, <3>2, <4>1
    <3>3. QED
          BY <2>1, <3>1, <3>2
  <2>3. key \in DOMAIN guide' /\ SectionVersion(guide'[key]) = SectionVersion(w[i])
        BY <1>16, <1>18, <2>2
  <2>4. QED
        BY <1>17, <1>18, <2>3 DEF CrcTells
<1>19. (CrcTells => GuideIsOnAir)'
  <2>1. SUFFICES ASSUME CrcTells', Received', air'[n].pid \notin ecmPids',
                        out'.tables # << >> \/ \A i \in DOMAIN out'.sections : IsWhole(out'.sections[i]),
                        NEW i \in DOMAIN w,
                        \A j \in i + 1 .. Len(w) : w[j][1].of.key # w[i][1].of.key
                 PROVE  guide'[w[i][1].of.key] = w[i]
        BY <1>17 DEF GuideIsOnAir
  <2>2. DOMAIN w = 1 .. Len(w) /\ Len(w) \in Nat
        BY <1>5 DEF IsSequence
  <2>3. ASSUME NEW j \in DOMAIN w, i < j
        PROVE  w[j][1].of.key # w[i][1].of.key
    <3>1. j \in i + 1 .. Len(w)
          BY <2>2, <2>3
    <3>2. QED
          BY <2>1, <3>1
  <2>4. QED
        BY <1>3, <1>18, <2>1, <2>3
<1>20. QED
       BY <1>15, <1>19

\* Nothing is held yet.
LEMMA GuideStart == Init => GuideInv /\ (CrcTells => GuideIsOnAir)
<1> SUFFICES ASSUME Init PROVE GuideInv /\ (CrcTells => GuideIsOnAir)
      OBVIOUS
<1>1. next = 1 /\ DOMAIN stored = {} /\ DOMAIN guide = {} /\ stored = [key \in {} |-> None]
      BY DEF Init
<1>2. GuideInv
  <2>1. stored = [key \in DOMAIN guide |-> SectionVersion(guide[key])]
        BY <1>1
  <2>2. QED
        BY <2>1 DEF GuideInv, Agrees
<1>3. GuideIsOnAir
  <2>1. DOMAIN air = 1 .. Len(air) /\ Len(air) \in Nat
        BY MuxerStart, AirStart, AirIs
  <2>2. Current \notin DOMAIN air
        BY <1>1, <2>1 DEF Current
  <2>3. QED
        BY <2>2 DEF GuideIsOnAir, Received
<1>4. QED
      BY <1>2, <1>3

\* A packet of which no section is read.
LEMMA GuideQuiet ==
    ASSUME MuxerInv, AirInv, GuideInv, CanRead, Process, out'.tables = << >>,
           air' = air, next' = next + 1, next \in lost' \/ air[next].kind # "section"
    PROVE  GuideInv' /\ (CrcTells => GuideIsOnAir)'
<1>1. GuideInv'
      BY NothingStored
<1>2. next \in Nat \ {0}
      BY AirIs
<1>3. Current' = next
      BY <1>2 DEF Current
<1>4. ~(Received' /\ air'[Current'].kind = "section")
      BY <1>3 DEF Received
<1>5. GuideIsOnAir'
      BY <1>4 DEF GuideIsOnAir
<1>6. QED
      BY <1>1, <1>5

\* Every step preserves GuideInv, and the guide is what is on air.
LEMMA GuideHolds ==
    ASSUME MuxerInv, AirInv, PesInv, SectionsInv, GuideInv, CrcTells => GuideIsOnAir,
           [Next]_vars
    PROVE  GuideInv' /\ (CrcTells => GuideIsOnAir)'
<1>1. CASE Mux
  <2>1. /\ fed < Len(broadcast.samples) /\ broadcast' = broadcast
        /\ stored' = stored /\ guide' = guide
        BY <1>1 DEF Mux
  <2>2. broadcast'.samples # << >>
    <3>1. SUFFICES ASSUME broadcast.samples = << >> PROVE FALSE
          BY <2>1
    <3>2. Len(broadcast.samples) = 0
          BY <3>1
    <3>3. fed \in Nat
          BY DEF MuxerInv
    <3>4. QED
          BY <2>1, <3>2, <3>3
  <2>3. AirInv'
        BY AirHolds
  <2>4. \A n \in DOMAIN air' : air'[n].kind # "section"
        BY <2>2, <2>3 DEF AirInv, Unkeyed
  <2>5. GuideIsOnAir'
        BY <2>4 DEF GuideIsOnAir, Received
  <2>6. QED
        BY <2>1, <2>5 DEF GuideInv
<1>2. CASE ReceivePat
  <2>1. /\ CanRead /\ air[next].kind = "pat" /\ air' = air /\ next' = next + 1 /\ Process
        /\ out' = Nothing
        BY <1>2 DEF ReceivePat, Advance, ReadPat, SkipPacket
  <2>2. out'.tables = << >>
        BY <2>1 DEF Nothing
  <2>3. QED
        BY <2>1, <2>2, GuideQuiet
<1>3. CASE ReceivePmt
  <2>1. /\ CanRead /\ air[next].kind = "pmt" /\ air' = air /\ next' = next + 1 /\ Process
        BY <1>3 DEF ReceivePmt, Advance, ReadPmt
  <2>2. out'.tables = << >>
    <3>1. out' = Nothing \/ \E added : out' = [Nothing EXCEPT !.added = added]
          BY <1>3 DEF ReceivePmt, ReadPmt
    <3>2. QED
          BY <3>1 DEF Nothing
  <2>3. QED
        BY <2>1, <2>2, GuideQuiet
<1>4. CASE ReceiveSection
      BY <1>4, GuideStep
<1>5. CASE ReceivePes
  <2>1. /\ CanRead /\ air[next].kind = "pes" /\ air' = air /\ next' = next + 1 /\ Process
        BY <1>5 DEF ReceivePes, Advance, ReadPesPacket
  <2>2. out'.tables = << >>
    <3>1. out' = Nothing \/ \E samples : out' = [Nothing EXCEPT !.samples = samples]
          BY <1>5 DEF ReceivePes, ReadPesPacket, StartPes, ContinuePes
    <3>2. QED
          BY <3>1 DEF Nothing
  <2>3. QED
        BY <2>1, <2>2, GuideQuiet
<1>6. CASE LosePacket
  <2>1. /\ CanRead /\ air' = air /\ next' = next + 1 /\ Process
        /\ lost' = lost \cup {next} /\ out' = Nothing
        BY <1>6 DEF LosePacket, Advance, SkipPacket
  <2>2. out'.tables = << >> /\ next \in lost'
        BY <2>1 DEF Nothing
  <2>3. QED
        BY <2>1, <2>2, GuideQuiet
<1>7. CASE Finish
  <2>1. ended' = TRUE /\ stored' = stored /\ guide' = guide
        BY <1>7 DEF Finish
  <2>2. QED
        BY <2>1 DEF GuideInv, GuideIsOnAir
<1>8. CASE UNCHANGED vars
  <2>1. /\ air' = air /\ next' = next /\ lost' = lost /\ stored' = stored /\ guide' = guide
        /\ out' = out /\ ended' = ended /\ ecmPids' = ecmPids
        BY <1>8 DEF vars, receiverVars, demuxerVars
  <2>2. GuideInv'
        BY <2>1 DEF GuideInv
  <2>3. /\ Current' = Current /\ Received' = Received
        /\ WholeSections(Current)' = WholeSections(Current)
    <3>1. Current' = Current /\ Received' = Received
          BY <2>1 DEF Current, Received
    <3>2. QED
          BY <2>1, <3>1 DEF WholeSections, Came, Begins
  <2>4. (CrcTells => GuideIsOnAir)'
    <3>1. CrcTells' = CrcTells
          BY <2>1, <2>3 DEF CrcTells
    <3>2. GuideIsOnAir' = GuideIsOnAir
          BY <2>1, <2>3 DEF GuideIsOnAir
    <3>3. QED
          BY <3>1, <3>2
  <2>5. QED
        BY <2>2, <2>4
<1>9. CASE IgnoreSection
  <2>1. /\ CanRead /\ air' = air /\ next' = next + 1 /\ Process
        /\ lost' = lost \cup {next} /\ out' = Nothing
        BY <1>9 DEF IgnoreSection, IgnoreSectionPacket, Advance, SkipPacket
  <2>2. out'.tables = << >> /\ next \in lost'
        BY <2>1 DEF Nothing
  <2>3. QED
        BY <2>1, <2>2, GuideQuiet
<1>10. QED
       BY <1>1, <1>2, <1>3, <1>4, <1>5, <1>6, <1>7, <1>8, <1>9 DEF Next

\* Whatever was lost or put together across a loss, the next whole section on air
\* replaces what the guide holds of its key (service_information.rs:265, store_section),
\* unless something with its version_number and its CRC was taken for it.
THEOREM GuideFollows == Spec => [](CrcTells => GuideIsOnAir)
<1>1. Init => /\ MuxerInv /\ AirInv /\ PesInv /\ SamplesComeThrough
              /\ SectionsInv /\ SectionsComeThrough
              /\ GuideInv /\ (CrcTells => GuideIsOnAir)
      BY MuxerStart, AirStart, PesStart, SectionsStart, GuideStart
<1>2. /\ MuxerInv /\ AirInv /\ PesInv /\ SamplesComeThrough
      /\ SectionsInv /\ SectionsComeThrough
      /\ GuideInv /\ (CrcTells => GuideIsOnAir) /\ [Next]_vars
      => (/\ MuxerInv /\ AirInv /\ PesInv /\ SamplesComeThrough
          /\ SectionsInv /\ SectionsComeThrough
          /\ GuideInv /\ (CrcTells => GuideIsOnAir))'
  <2>1. SUFFICES ASSUME MuxerInv, AirInv, PesInv, SamplesComeThrough, SectionsInv,
                        SectionsComeThrough, GuideInv, CrcTells => GuideIsOnAir, [Next]_vars
                 PROVE  (/\ MuxerInv /\ AirInv /\ PesInv /\ SamplesComeThrough
                         /\ SectionsInv /\ SectionsComeThrough
                         /\ GuideInv /\ (CrcTells => GuideIsOnAir))'
        OBVIOUS
  <2>2. (MuxerInv /\ AirInv /\ PesInv /\ SamplesComeThrough)'
        BY <2>1, MuxerHolds, AirHolds, PesHolds
  <2>3. (SectionsInv /\ SectionsComeThrough)'
        BY <2>1, SectionsHold
  <2>4. (GuideInv /\ (CrcTells => GuideIsOnAir))'
        BY <2>1, GuideHolds
  <2>5. QED
        BY <2>2, <2>3, <2>4
<1>3. QED
      BY <1>1, <1>2, PTL DEF Spec
=============================================================================
