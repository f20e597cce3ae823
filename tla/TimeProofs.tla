------------------------------ MODULE TimeProofs -----------------------------
(***************************************************************************)
(* The times of what the muxer (mp4.rs) writes, for every set of tracks,   *)
(* however they are multiplexed, whenever they are added and wherever the  *)
(* tuner begins to receive: TimeInv is inductive.  TimeTypes are the types *)
(* it needs and Live.TypeOK follows from both.                             *)
(***************************************************************************)
EXTENDS LiveProofs, WellFoundedInduction

USE Mp4Assumption DEF Mp4Assumption

TimeTypes ==
    /\ FragmentsInv
    /\ start \in [Tracks -> 0 .. Skew]
    /\ fed \in [Tracks -> 0 .. MaxUnits]
    /\ ended \in BOOLEAN
    /\ firstDts \in [Tracks -> Times \cup {None}]
    /\ syncStart \in Times \cup {None}
    /\ failed \in BOOLEAN
    /\ late \in SUBSET Tracks

(* Of some times one is the latest.                                        *)
LEMMA LatestIsATime ==
    ASSUME NEW S \in SUBSET Times, S # {}
    PROVE  Max(S) \in S /\ \A y \in S : y <= Max(S)
<1> DEFINE last == Skew + MaxUnits
           T == {last - x : x \in S}
<1>1. T \subseteq Nat /\ T # {}
  <2>1. \A x \in S : last - x \in Nat
        BY DEF Times
  <2>2. QED
        BY <2>1
<1>2. PICK m \in T : \A y \in T : ~(<<y, m>> \in OpToRel(<, Nat))
      BY <1>1, NatLessThanWellFounded, WFMin
<1>3. PICK x \in S : m = last - x
      OBVIOUS
<1>4. ASSUME NEW y \in S PROVE x >= y
  <2>1. last - y \in T /\ last - y \in Nat /\ m \in Nat
        BY <1>1
  <2>2. ~(last - y < m)
        BY <1>2, <2>1 DEF OpToRel
  <2>3. x \in Int /\ y \in Int
        BY DEF Times
  <2>4. QED
        BY <1>3, <2>2, <2>3
<1>5. Max(S) \in S /\ \A y \in S : Max(S) >= y
      BY <1>4 DEF Max
<1>6. QED
      BY <1>5 DEF Times

(* The later of two.                                                       *)
LEMMA LaterOfTwo ==
    ASSUME NEW a \in Int, NEW b \in Int
    PROVE  Max({a, b}) \in {a, b} /\ a <= Max({a, b}) /\ b <= Max({a, b})
<1>1. \E x \in {a, b} : \A y \in {a, b} : x >= y
  <2>1. CASE a >= b
        BY <2>1
  <2>2. CASE ~(a >= b)
        BY <2>2
  <2>3. QED
        BY <2>1, <2>2
<1>2. Max({a, b}) \in {a, b} /\ \A y \in {a, b} : Max({a, b}) >= y
      BY <1>1 DEF Max
<1>3. QED
      BY <1>2

(* What a track hands over is in hand as its sample.                       *)
LEMMA HandsOver ==
    ASSUME NEW t \in Tracks, NEW u \in AnyUnits, NEW dts \in Int \cup {None},
           NEW head \in BOOLEAN, Hand(t, u, dts, head)
    PROVE  /\ InHandOf(t)' /\ inHand'.n = u.n /\ inHand'.dts = dts
           /\ \A o \in Tracks \ {t} : ~InHandOf(o)'
<1>1. inHand' = [track |-> t, n |-> u.n, dts |-> dts, head |-> head] /\ u.n \in Int
      BY DEF Hand, AnyUnits
<1> DEFINE m == u.n
<1>2. m \in Int /\ inHand' = [track |-> t, n |-> m, dts |-> dts, head |-> head]
      BY <1>1
<1> HIDE DEF m
<1>3. inHand' # None /\ inHand'.track = t /\ inHand'.n = m /\ inHand'.dts = dts
      BY <1>2, Handed
<1>4. QED
      BY <1>3 DEF InHandOf, m

(* What arrives is the next unit of its track, with its own time or none.  *)
LEMMA ArrivingIsNext ==
    ASSUME TimeTypes, NEW t \in Tracks, NEW u \in Arriving(t)
    PROVE  /\ u \in AnyUnits /\ u.n = fed[t] + 1 /\ u.n \in 1 .. MaxUnits
           /\ u.dts \in {OwnTime(t, u.n), None}
           /\ \A o \in Tracks : start[t] + fed[t] <= start[o] + fed[o] + Skew
<1>1. /\ u \in Units /\ u.n = fed[t] + 1 /\ u.dts \in {NextTime(t), None}
      /\ \A o \in Tracks : NextTime(t) <= NextTime(o) + Skew
      BY DEF Arriving
<1>2. u.n \in 1 .. MaxUnits
      BY <1>1 DEF Units
<1>3. NextTime(t) = OwnTime(t, u.n)
      BY <1>1 DEF NextTime, OwnTime, TimeTypes
<1>4. QED
      BY <1>1, <1>2, <1>3, ArrivingIsUnit DEF NextTime

\* What a step of track t leaves alone.
OthersAlone(t) ==
    \A o \in Tracks \ {t} :
        /\ configured'[o] = configured[o] /\ held'[o] = held[o]
        /\ nextDts'[o] = nextDts[o] /\ overtaken'[o] = overtaken[o]
        /\ ~InHandOf(o)'

\* What a step of track t does to its counting: nothing it has is left out.
Counted(t) ==
    /\ UnitsCounted(t)'
    /\ SampleCounted(t)'
    /\ configured[t] => configured'[t]
    /\ overtaken[t] => overtaken'[t]
    /\ configured[t] /\ ~overtaken'[t] => Delivered(t)' = Delivered(t)

\* The first time observed of t is that of a unit received.
FirstInTime(t) == firstDts[t] # None => firstDts[t] <= OwnTime(t, fed[t])

(* A frame of MPEG-2 leaves with the time of its own, or with none.        *)
LEMMA FrameCounted ==
    ASSUME TimeTypes, NEW t \in Tracks, kind[t] = "mpeg2",
           UnitsCounted(t), held[t] # None, WriteFrame(t, held[t])
    PROVE  /\ InHandOf(t)' /\ inHand'.n = fed[t] /\ fed[t] \in 1 .. MaxUnits
           /\ inHand'.dts \in {OwnTime(t, fed[t]), None}
           /\ \A o \in Tracks \ {t} : ~InHandOf(o)' /\ nextDts'[o] = nextDts[o]
           /\ configured' = [configured EXCEPT ![t] = TRUE]
           /\ nextDts'[t] # None => nextDts'[t] = start[t] + fed[t]
<1> DEFINE dts == IF held[t].dts # None THEN held[t].dts ELSE nextDts[t]
<1>1. /\ held[t] \in AnyUnits /\ held[t].n = fed[t] /\ fed[t] \in 1 .. MaxUnits
      /\ held[t].dts \in {OwnTime(t, fed[t]), None}
      BY DEF TimeTypes, FragmentsInv, EntryTypes, UnitsCounted
<1>2. /\ Hand(t, held[t], dts, ~configured[t])
      /\ configured' = [configured EXCEPT ![t] = TRUE]
      /\ nextDts' = [nextDts EXCEPT ![t] = IF dts = None THEN None ELSE dts + 1]
      BY DEF WriteFrame
<1>3. OwnTime(t, fed[t]) \in Int /\ OwnTime(t, fed[t]) + 1 = start[t] + fed[t]
      BY <1>1 DEF OwnTime, TimeTypes
<1>4. dts \in {OwnTime(t, fed[t]), None}
  <2>1. CASE held[t].dts # None
        BY <1>1, <2>1
  <2>2. CASE held[t].dts = None
    <3>1. nextDts[t] # None => nextDts[t] = start[t] + fed[t] - 1
          BY DEF UnitsCounted, HeldBack
    <3>2. OwnTime(t, fed[t]) = start[t] + fed[t] - 1
          BY DEF OwnTime
    <3>3. QED
          BY <2>2, <3>1, <3>2
  <2>3. QED
        BY <2>1, <2>2
<1>5. (~configured[t]) \in BOOLEAN
      OBVIOUS
<1> HIDE DEF dts
<1>6. /\ InHandOf(t)' /\ inHand'.n = held[t].n /\ inHand'.dts = dts
      /\ \A o \in Tracks \ {t} : ~InHandOf(o)'
      BY <1>1, <1>2, <1>3, <1>4, <1>5, HandsOver
<1>7. nextDts \in [Tracks -> Int \cup {None}]
      BY DEF TimeTypes, FragmentsInv, EntryTypes
<1>8. /\ nextDts'[t] = IF dts = None THEN None ELSE dts + 1
      /\ \A o \in Tracks \ {t} : nextDts'[o] = nextDts[o]
      BY <1>2, <1>7
<1>9. nextDts'[t] # None => nextDts'[t] = start[t] + fed[t]
      BY <1>3, <1>4, <1>8
<1>10. QED
       BY <1>1, <1>2, <1>4, <1>6, <1>8, <1>9

\* Track t, added and counted so far, is given unit u.
Given(t, u) ==
    /\ TimeTypes /\ inHand = None /\ t \in added
    /\ u \in Arriving(t)
    /\ UnitsCounted(t) /\ SampleCounted(t)
    /\ fed' = [fed EXCEPT ![t] = @ + 1]
    /\ UNCHANGED <<kind, start, added, firstDts>>

(* What is known of a track and its unit, spelled out.                     *)
LEMMA GivenFacts ==
    ASSUME NEW t \in Tracks, NEW u, Given(t, u)
    PROVE  /\ u \in AnyUnits /\ u.n = fed[t] + 1 /\ u.dts \in {OwnTime(t, u.n), None}
           /\ fed[t] \in 0 .. MaxUnits /\ fed'[t] = fed[t] + 1
           /\ start'[t] = start[t] /\ start[t] \in Int
           /\ ~InHandOf(t) /\ (held[t] # None => held[t] \in AnyUnits)
           /\ configured \in [Tracks -> BOOLEAN] /\ overtaken \in [Tracks -> BOOLEAN]
           /\ FirstInTime(t)' /\ t \in added'
<1>1. /\ u \in AnyUnits /\ u.n = fed[t] + 1 /\ u.dts \in {OwnTime(t, u.n), None}
      BY ArrivingIsNext DEF Given
<1>2. /\ fed[t] \in 0 .. MaxUnits /\ fed'[t] = fed[t] + 1
      /\ start'[t] = start[t] /\ start[t] \in Int
      BY DEF Given, TimeTypes
<1>3. ~InHandOf(t)
      BY DEF Given, InHandOf
<1>4. held[t] # None => held[t] \in AnyUnits
      BY DEF Given, TimeTypes, FragmentsInv, EntryTypes
<1>5. configured \in [Tracks -> BOOLEAN] /\ overtaken \in [Tracks -> BOOLEAN]
      BY DEF Given, TimeTypes, FragmentsInv, EntryTypes
<1>6. FirstInTime(t)' /\ t \in added'
  <2>1. firstDts' = firstDts /\ t \in added' /\ firstDts[t] \in Int \cup {None}
        BY DEF Given, TimeTypes, Times
  <2>2. firstDts[t] # None => firstDts[t] <= start[t] + fed[t] - 1
        BY DEF Given, SampleCounted, OwnTime
  <2>3. firstDts[t] # None => firstDts[t] <= start'[t] + fed'[t] - 1
        BY <1>2, <2>1, <2>2
  <2>4. QED
        BY <2>1, <2>3 DEF FirstInTime, OwnTime
<1>7. QED
      BY <1>1, <1>2, <1>3, <1>4, <1>5, <1>6

(* A sample that is passed on in turn, with the time of its own or none.   *)
LEMMA InTurn ==
    ASSUME NEW t \in Tracks, configured'[t], FirstInTime(t)', t \in added',
           inHand'.n \in 1 .. fed'[t], inHand'.dts \in {start'[t] + inHand'.n - 1, None},
           overtaken'[t] \/ inHand'.n = Delivered(t)' + 1
    PROVE  SampleCounted(t)'
BY DEF SampleCounted, OwnTime, FirstInTime

(* A track of which no sample is in hand.                                  *)
LEMMA NoneInHand ==
    ASSUME NEW t \in Tracks, ~InHandOf(t)', FirstInTime(t)',
           configured'[t] => t \in added', firstDts'[t] # None => configured'[t]
    PROVE  SampleCounted(t)'
BY DEF SampleCounted, FirstInTime

(* A unit that is held in turn.                                            *)
LEMMA HeldInTurn ==
    ASSUME NEW t \in Tracks, NEW u \in AnyUnits, held'[t] = u, t \in added',
           kind'[t] # "audio", kind'[t] = "h265" => configured'[t] /\ u.dts # None,
           fed'[t] \in Nat \ {0}, u.n = fed'[t],
           u.dts \in {start'[t] + fed'[t] - 1, None},
           kind'[t] = "mpeg2" => ~overtaken'[t],
           nextDts'[t] # None => /\ kind'[t] = "mpeg2" /\ configured'[t]
                                 /\ nextDts'[t] = start'[t] + fed'[t] - 1
    PROVE  UnitsCounted(t)'
<1>1. u # None
      BY DEF AnyUnits
<1>2. HeldBack(t)' = 1
      BY <1>1 DEF HeldBack
<1>3. nextDts'[t] # None => /\ kind'[t] = "mpeg2" /\ configured'[t]
                            /\ nextDts'[t] = start'[t] + fed'[t] - HeldBack(t)'
      BY <1>2
<1>4. held'[t].n \in 1 .. fed'[t] /\ held'[t].n = fed'[t]
      OBVIOUS
<1>5. held'[t].dts \in {OwnTime(t, held[t].n)', None}
      BY <1>4 DEF OwnTime
<1>6. kind'[t] = "h265" => configured'[t] /\ held'[t].dts # None
      OBVIOUS
<1>7. QED
      BY <1>3, <1>4, <1>5, <1>6, Zenon DEF UnitsCounted

(* A frame of audio is passed on as it is.                                 *)
LEMMA AudioCounted ==
    ASSUME NEW t \in Tracks, NEW u, Given(t, u), AudioUnit(t, u)
    PROVE  Counted(t) /\ OthersAlone(t)
<1>1. /\ kind[t] = "audio" /\ kind'[t] = "audio" /\ held[t] = None
      /\ configured' = [configured EXCEPT ![t] = TRUE]
      /\ UNCHANGED <<held, overtaken, nextDts>>
      /\ nextDts[t] = None
      BY DEF AudioUnit, Given, UnitsCounted
<1>2. (~configured[t]) \in BOOLEAN
      OBVIOUS
<1>3. /\ InHandOf(t)' /\ inHand'.n = u.n /\ inHand'.dts = u.dts
      /\ \A o \in Tracks \ {t} : ~InHandOf(o)'
  <2>1. u \in AnyUnits
        BY GivenFacts
  <2>2. u.dts \in Int \cup {None}
        BY <2>1 DEF AnyUnits
  <2>3. Hand(t, u, u.dts, ~configured[t])
        BY DEF AudioUnit
  <2> DEFINE d == u.dts
             h == ~configured[t]
  <2>4. Hand(t, u, d, h) /\ d \in Int \cup {None} /\ h \in BOOLEAN
        BY <1>2, <2>2, <2>3
  <2> HIDE DEF d, h
  <2>5. /\ InHandOf(t)' /\ inHand'.n = u.n /\ inHand'.dts = d
        /\ \A o \in Tracks \ {t} : ~InHandOf(o)'
        BY <2>1, <2>4, HandsOver
  <2>6. QED
        BY <2>5 DEF d
<1>4. UnitsCounted(t)'
      BY <1>1 DEF UnitsCounted
<1>5. Delivered(t)' = Delivered(t) /\ inHand'.n = Delivered(t)' + 1
      BY <1>1, <1>3, GivenFacts DEF Delivered, InHandOf
<1>6. SampleCounted(t)'
  <2>1. /\ configured'[t] /\ inHand'.n \in 1 .. fed'[t]
        /\ inHand'.dts \in {start'[t] + inHand'.n - 1, None}
        BY <1>1, <1>3, GivenFacts DEF OwnTime
  <2>2. QED
        BY <1>5, <2>1, GivenFacts, InTurn
<1>7. QED
      BY <1>1, <1>3, <1>4, <1>5, <1>6, GivenFacts DEF Counted, OthersAlone

(* A frame of MPEG-2 is passed on when the next one begins.                *)
LEMMA Mpeg2Counted ==
    ASSUME NEW t \in Tracks, NEW u, Given(t, u), Mpeg2Unit(t, u)
    PROVE  Counted(t) /\ OthersAlone(t)
<1>1. /\ kind[t] = "mpeg2" /\ kind'[t] = "mpeg2" /\ ~overtaken[t]
      /\ held' = [held EXCEPT ![t] = u] /\ held'[t] = u
      /\ \A o \in Tracks \ {t} : held'[o] = held[o]
      /\ UNCHANGED <<overtaken, start, firstDts>>
      BY DEF Mpeg2Unit, Given, UnitsCounted, TimeTypes, FragmentsInv, EntryTypes
<1>2. u # None
      BY GivenFacts DEF AnyUnits
<1>3. /\ nextDts[t] # None => configured[t] /\ nextDts[t] = start[t] + fed[t] - HeldBack(t)
      /\ configured[t] => t \in added
      /\ firstDts[t] # None => configured[t]
      BY DEF Given, UnitsCounted, SampleCounted
<1>4. ASSUME nextDts'[t] # None => configured'[t] /\ nextDts'[t] = start[t] + fed[t]
      PROVE  UnitsCounted(t)'
  <2>1. nextDts'[t] # None => configured'[t] /\ nextDts'[t] = start'[t] + fed'[t] - 1
        BY <1>4, GivenFacts
  <2>2. fed'[t] \in Nat \ {0} /\ u.n = fed'[t] /\ u.dts \in {start'[t] + fed'[t] - 1, None}
        BY GivenFacts DEF OwnTime
  <2>3. QED
        BY <1>1, <2>1, <2>2, GivenFacts, HeldInTurn
<1>5. CASE held[t] = None /\ UNCHANGED <<configured, nextDts, inHand>>
  <2>1. \A o \in Tracks : ~InHandOf(o)'
        BY <1>5 DEF InHandOf, Given
  <2>2. UnitsCounted(t)'
    <3>1. HeldBack(t) = 0
          BY <1>5 DEF HeldBack
    <3>2. nextDts'[t] # None => configured'[t] /\ nextDts'[t] = start[t] + fed[t]
          BY <1>3, <1>5, <3>1, GivenFacts
    <3>3. QED
          BY <1>4, <3>2
  <2>3. Delivered(t)' = Delivered(t)
        BY <1>1, <1>2, <1>5, <2>1, GivenFacts DEF Delivered, InHandOf
  <2>4. SampleCounted(t)'
        BY <1>1, <1>3, <1>5, <2>1, GivenFacts, NoneInHand
  <2>5. QED
        BY <1>1, <1>5, <2>1, <2>2, <2>3, <2>4 DEF Counted, OthersAlone
<1>6. CASE held[t] # None /\ SkipFrame(t, held[t])
  <2>1. ~configured[t] /\ UNCHANGED <<configured, nextDts, inHand>>
        BY <1>6 DEF SkipFrame
  <2>2. \A o \in Tracks : ~InHandOf(o)'
        BY <2>1 DEF InHandOf, Given
  <2>3. UnitsCounted(t)'
        BY <1>3, <1>4, <2>1
  <2>4. SampleCounted(t)'
        BY <1>1, <1>3, <2>1, <2>2, GivenFacts, NoneInHand
  <2>5. QED
        BY <1>1, <2>1, <2>2, <2>3, <2>4 DEF Counted, OthersAlone
<1>7. CASE held[t] # None /\ WriteFrame(t, held[t])
  <2>1. /\ InHandOf(t)' /\ inHand'.n = fed[t] /\ fed[t] \in 1 .. MaxUnits
        /\ inHand'.dts \in {OwnTime(t, fed[t]), None}
        /\ \A o \in Tracks \ {t} : ~InHandOf(o)' /\ nextDts'[o] = nextDts[o]
        /\ configured' = [configured EXCEPT ![t] = TRUE]
        /\ nextDts'[t] # None => nextDts'[t] = start[t] + fed[t]
        BY <1>1, <1>7, FrameCounted DEF Given
  <2>2. configured'[t] /\ \A o \in Tracks \ {t} : configured'[o] = configured[o]
        BY <2>1, GivenFacts
  <2>3. UnitsCounted(t)'
        BY <1>4, <2>1, <2>2
  <2>4. Delivered(t)' = Delivered(t) /\ inHand'.n = Delivered(t)' + 1
        BY <1>1, <1>2, <1>7, <2>1, GivenFacts DEF Delivered, InHandOf
  <2>5. SampleCounted(t)'
    <3>1. /\ inHand'.n \in 1 .. fed'[t]
          /\ inHand'.dts \in {start'[t] + inHand'.n - 1, None}
          BY <2>1, GivenFacts DEF OwnTime
    <3>2. QED
          BY <2>2, <2>4, <3>1, GivenFacts, InTurn
  <2>6. QED
        BY <1>1, <2>1, <2>2, <2>3, <2>4, <2>5 DEF Counted, OthersAlone
<1>8. QED
      BY <1>5, <1>6, <1>7 DEF Mpeg2Unit

(* A unit of H.265 before the parameter sets is left out.                  *)
LEMMA SkippedCounted ==
    ASSUME NEW t \in Tracks, NEW u, Given(t, u), H265Skip(t, u)
    PROVE  Counted(t) /\ OthersAlone(t)
<1>1. /\ kind[t] = "h265" /\ ~configured[t] /\ nextDts[t] = None
      /\ UNCHANGED <<kind, start, added, configured, held, overtaken, nextDts, inHand, firstDts>>
      BY DEF H265Skip, Given, UnitsCounted
<1>2. \A o \in Tracks : ~InHandOf(o)'
      BY <1>1 DEF InHandOf, Given
<1>3. held[t] = None /\ (firstDts[t] # None => configured[t])
      BY <1>1 DEF Given, UnitsCounted, SampleCounted
<1>4. UnitsCounted(t)'
      BY <1>1, <1>3 DEF UnitsCounted
<1>5. SampleCounted(t)'
      BY <1>1, <1>2, <1>3, GivenFacts, NoneInHand
<1>6. QED
      BY <1>1, <1>2, <1>4, <1>5 DEF Counted, OthersAlone

(* A unit of H.265 without a timestamp is passed on at once.               *)
LEMMA UntimedCounted ==
    ASSUME NEW t \in Tracks, NEW u, Given(t, u), H265Untimed(t, u)
    PROVE  Counted(t) /\ OthersAlone(t)
<1>1. /\ kind[t] = "h265" /\ kind'[t] = "h265" /\ u.dts = None /\ nextDts[t] = None
      /\ configured' = [configured EXCEPT ![t] = TRUE]
      /\ overtaken' = [overtaken EXCEPT ![t] = @ \/ held[t] # None]
      /\ UNCHANGED <<held, nextDts>>
      BY DEF H265Untimed, Given, UnitsCounted
<1>2. configured'[t] /\ overtaken'[t] = (overtaken[t] \/ held[t] # None)
      BY <1>1, GivenFacts
<1>3. /\ InHandOf(t)' /\ inHand'.n = u.n /\ inHand'.dts = None
      /\ \A o \in Tracks \ {t} : ~InHandOf(o)'
  <2> DEFINE h == ~configured[t]
  <2>1. h \in BOOLEAN /\ Hand(t, u, None, h) /\ u \in AnyUnits
        BY GivenFacts DEF H265Untimed
  <2> HIDE DEF h
  <2>2. QED
        BY <2>1, HandsOver
<1>4. UnitsCounted(t)'
  <2>1. CASE held[t] = None
        BY <1>1, <2>1 DEF UnitsCounted
  <2>2. CASE held[t] # None
    <3>1. /\ held'[t] = held[t] /\ held[t].n \in 1 .. fed[t]
          /\ held[t].dts \in {OwnTime(t, held[t].n), None} /\ held[t].dts # None
          BY <1>1, <2>2 DEF Given, UnitsCounted
    <3>2. held[t].n \in 1 .. fed'[t] /\ held[t].dts = start'[t] + held[t].n - 1
          BY <3>1, GivenFacts DEF OwnTime
    <3>3. QED
          BY <1>1, <1>2, <2>2, <3>1, <3>2, GivenFacts DEF UnitsCounted, OwnTime
  <2>3. QED
        BY <2>1, <2>2
<1>5. ~overtaken'[t] => Delivered(t)' = Delivered(t) /\ inHand'.n = Delivered(t)' + 1
  <2>1. ~overtaken'[t] => held[t] = None
        BY <1>2
  <2>2. CASE held[t] = None
    <3>1. Delivered(t) = fed[t] - 0 - 0 /\ Delivered(t)' = fed'[t] - 0 - 1
          BY <1>1, <1>3, <2>2, GivenFacts DEF Delivered, InHandOf
    <3>2. QED
          BY <1>3, <2>2, <3>1, GivenFacts
  <2>3. QED
        BY <2>1, <2>2
<1>6. SampleCounted(t)'
  <2>1. inHand'.n \in 1 .. fed'[t] /\ inHand'.dts \in {start'[t] + inHand'.n - 1, None}
        BY <1>3, GivenFacts
  <2>2. QED
        BY <1>2, <1>5, <2>1, GivenFacts, InTurn
<1>7. QED
      BY <1>1, <1>2, <1>3, <1>4, <1>5, <1>6, GivenFacts DEF Counted, OthersAlone

(* Any other unit of H.265 is held, and the one held before is passed on.  *)
LEMMA H265Counted ==
    ASSUME NEW t \in Tracks, NEW u, Given(t, u), H265Unit(t, u)
    PROVE  Counted(t) /\ OthersAlone(t)
<1> DEFINE kept == [u EXCEPT !.head = ~configured[t]]
<1>1. /\ kind[t] = "h265" /\ kind'[t] = "h265" /\ u.dts # None /\ nextDts[t] = None
      /\ configured' = [configured EXCEPT ![t] = TRUE]
      /\ held' = [held EXCEPT ![t] = kept]
      /\ UNCHANGED <<overtaken, nextDts>>
      BY DEF H265Unit, Given, UnitsCounted
<1>2. kept \in AnyUnits /\ kept.n = u.n /\ kept.dts = u.dts
  <2>1. u \in [n : Int, dts : Int \cup {None}, head : BOOLEAN]
        BY GivenFacts DEF AnyUnits
  <2>2. (~configured[t]) \in BOOLEAN
        OBVIOUS
  <2>3. QED
        BY <2>1, <2>2 DEF AnyUnits
<1> HIDE DEF kept
<1>3. configured'[t] /\ held'[t] = kept /\ held'[t] # None
  <2>1. configured'[t] /\ held'[t] = kept
        BY <1>1, GivenFacts DEF Given, TimeTypes, FragmentsInv, EntryTypes
  <2>2. QED
        BY <1>2, <2>1 DEF AnyUnits
<1>4. UnitsCounted(t)'
  <2>1. nextDts'[t] = None
        BY <1>1
  <2>2. fed'[t] \in Nat \ {0} /\ kept.n = fed'[t] /\ kept.dts = start'[t] + fed'[t] - 1
        BY <1>1, <1>2, GivenFacts DEF OwnTime
  <2>3. kept.dts # None
        BY <1>1, <1>2
  <2>4. QED
        BY <1>1, <1>2, <1>3, <2>1, <2>2, <2>3, GivenFacts, HeldInTurn
<1>5. CASE held[t] = None
  <2>1. \A o \in Tracks : ~InHandOf(o)'
        BY <1>5 DEF H265Unit, InHandOf, Given
  <2>2. SampleCounted(t)'
        BY <1>3, <2>1, GivenFacts, NoneInHand
  <2>3. Delivered(t)' = Delivered(t)
        BY <1>3, <1>5, <2>1, GivenFacts DEF Delivered, InHandOf
  <2>4. QED
        BY <1>1, <1>3, <1>4, <2>1, <2>2, <2>3, GivenFacts
           DEF Counted, OthersAlone, Given, TimeTypes, FragmentsInv, EntryTypes
<1>6. CASE held[t] # None
  <2>1. /\ held[t] \in AnyUnits /\ held[t].n \in 1 .. fed[t]
        /\ held[t].dts = start[t] + held[t].n - 1
        /\ ~overtaken[t] => held[t].n = fed[t]
    <3>1. held[t].dts # None
          BY <1>1, <1>6 DEF Given, UnitsCounted
    <3>2. QED
          BY <1>6, <3>1, GivenFacts DEF Given, UnitsCounted, OwnTime
  <2>2. /\ InHandOf(t)' /\ inHand'.n = held[t].n /\ inHand'.dts = held[t].dts
        /\ \A o \in Tracks \ {t} : ~InHandOf(o)'
    <3>1. Hand(t, held[t], held[t].dts, held[t].head)
          BY <1>6 DEF H265Unit
    <3>2. held[t].dts \in Int \cup {None} /\ held[t].head \in BOOLEAN
          BY <2>1 DEF AnyUnits
    <3>3. held[t] \in AnyUnits
          BY <2>1
    <3> DEFINE d == held[t].dts
               h == held[t].head
    <3>4. Hand(t, held[t], d, h) /\ d \in Int \cup {None} /\ h \in BOOLEAN
          BY <3>1, <3>2
    <3> HIDE DEF d, h
    <3>5. /\ InHandOf(t)' /\ inHand'.n = held[t].n /\ inHand'.dts = d
          /\ \A o \in Tracks \ {t} : ~InHandOf(o)'
          BY <3>3, <3>4, HandsOver
    <3>6. QED
          BY <3>5 DEF d
  <2>3. overtaken[t] \/ (Delivered(t)' = Delivered(t) /\ inHand'.n = Delivered(t)' + 1)
        BY <1>3, <1>6, <2>1, <2>2, GivenFacts DEF Delivered, InHandOf
  <2>4. SampleCounted(t)'
    <3>1. inHand'.n \in 1 .. fed'[t] /\ inHand'.dts \in {start'[t] + inHand'.n - 1, None}
          BY <2>1, <2>2, GivenFacts
    <3>2. overtaken'[t] \/ inHand'.n = Delivered(t)' + 1
          BY <1>1, <2>3
    <3>3. QED
          BY <1>3, <3>1, <3>2, GivenFacts, InTurn
  <2>5. QED
        BY <1>1, <1>3, <1>4, <2>2, <2>3, <2>4, GivenFacts
           DEF Counted, OthersAlone, Given, TimeTypes, FragmentsInv, EntryTypes
<1>7. QED
      BY <1>5, <1>6

(* A unit of a track that was not added is no unit of any.                 *)
LEMMA UnknownCounted ==
    ASSUME TimeTypes, TimeInv, NEW t \in Tracks, Unknown(t), inHand = None,
           UNCHANGED <<kind, start, added, firstDts>>
    PROVE  Counted(t) /\ OthersAlone(t)
<1>1. /\ t \notin added /\ ~InHandOf(t)' /\ \A o \in Tracks \ {t} : ~InHandOf(o)'
      /\ UNCHANGED <<configured, held, overtaken, nextDts>>
      BY DEF Unknown, InHandOf
<1>2. UnitsCounted(t) /\ SampleCounted(t)
      BY DEF TimeInv
<1>3. /\ ~configured[t] /\ held[t] = None /\ nextDts[t] = None /\ firstDts[t] = None
      /\ kind[t] = "mpeg2" => ~overtaken[t]
      BY <1>1, <1>2 DEF UnitsCounted, SampleCounted
<1>4. UnitsCounted(t)'
      BY <1>1, <1>3 DEF UnitsCounted
<1>5. SampleCounted(t)'
      BY <1>1, <1>3 DEF SampleCounted
<1>6. QED
      BY <1>1, <1>3, <1>4, <1>5 DEF Counted, OthersAlone

(* Any unit is counted.                                                    *)
LEMMA ReceiveCounts ==
    ASSUME TimeTypes, TimeInv, NEW t \in Tracks, Receive(t)
    PROVE  Counted(t) /\ OthersAlone(t)
<1>1. PICK u \in Arriving(t) : Unknown(t) \/ (t \in added /\ TrackStep(t, u))
      BY DEF Receive, TrackStep
<1>2. /\ inHand = None /\ fed' = [fed EXCEPT ![t] = @ + 1]
      /\ UNCHANGED <<kind, start, added, firstDts>>
      BY DEF Receive, stateVars
<1>3. CASE Unknown(t)
      BY <1>2, <1>3, UnknownCounted
<1>4. CASE t \in added /\ TrackStep(t, u)
  <2>1. Given(t, u)
        BY <1>2, <1>4 DEF Given, TimeInv
  <2>2. QED
        BY <1>4, <2>1, AudioCounted, Mpeg2Counted, SkippedCounted, UntimedCounted, H265Counted
           DEF TrackStep
<1>5. QED
      BY <1>1, <1>3, <1>4

(* What a track holds at the end is counted too.                           *)
LEMMA FlushCounts ==
    ASSUME TimeTypes, TimeInv, NEW t \in Tracks, FlushTrack(t)
    PROVE  Counted(t) /\ OthersAlone(t)
<1>1. /\ UNCHANGED <<kind, start, added, fed, overtaken, firstDts>>
      /\ inHand = None /\ held[t] # None /\ held' = [held EXCEPT ![t] = None]
      /\ UnitsCounted(t) /\ SampleCounted(t)
      BY DEF FlushTrack, stateVars, TimeInv
<1>2. /\ held[t] \in AnyUnits /\ held'[t] = None
      /\ start[t] \in Int /\ fed[t] \in Nat
      /\ configured \in [Tracks -> BOOLEAN] /\ overtaken \in [Tracks -> BOOLEAN]
      /\ \A o \in Tracks \ {t} : held'[o] = held[o]
      BY <1>1 DEF TimeTypes, FragmentsInv, EntryTypes
<1>3. HeldBack(t) = 1 /\ HeldBack(t)' = 0
      BY <1>1, <1>2 DEF HeldBack
<1>4. /\ t \in added' /\ FirstInTime(t)' /\ (firstDts[t] # None => configured[t])
      /\ nextDts[t] # None => kind[t] = "mpeg2" /\ configured[t]
      BY <1>1 DEF SampleCounted, UnitsCounted, FirstInTime, OwnTime
<1>5. CASE kind[t] = "mpeg2" /\ SkipFrame(t, held[t])
  <2>1. ~configured[t] /\ UNCHANGED <<configured, nextDts, inHand>>
        BY <1>5 DEF SkipFrame
  <2>2. \A o \in Tracks : ~InHandOf(o)'
        BY <1>1, <2>1 DEF InHandOf
  <2>3. UnitsCounted(t)'
        BY <1>1, <1>2, <1>4, <1>5, <2>1 DEF UnitsCounted
  <2>4. SampleCounted(t)'
        BY <1>1, <1>4, <2>1, <2>2, NoneInHand
  <2>5. QED
        BY <1>1, <1>2, <2>1, <2>2, <2>3, <2>4 DEF Counted, OthersAlone
<1>6. CASE kind[t] = "mpeg2" /\ WriteFrame(t, held[t])
  <2>1. /\ InHandOf(t)' /\ inHand'.n = fed[t] /\ fed[t] \in 1 .. MaxUnits
        /\ inHand'.dts \in {OwnTime(t, fed[t]), None}
        /\ \A o \in Tracks \ {t} : ~InHandOf(o)' /\ nextDts'[o] = nextDts[o]
        /\ configured' = [configured EXCEPT ![t] = TRUE]
        /\ nextDts'[t] # None => nextDts'[t] = start[t] + fed[t]
        BY <1>1, <1>6, FrameCounted
  <2>2. configured'[t] /\ \A o \in Tracks \ {t} : configured'[o] = configured[o]
        BY <1>2, <2>1
  <2>3. UnitsCounted(t)'
    <3>1. kind'[t] = "mpeg2" /\ ~overtaken'[t] /\ held'[t] = None
          BY <1>1, <1>2, <1>6 DEF UnitsCounted
    <3>2. nextDts'[t] # None => nextDts'[t] = start'[t] + fed'[t] - HeldBack(t)'
          BY <1>1, <1>2, <1>3, <2>1
    <3>3. QED
          BY <2>2, <3>1, <3>2 DEF UnitsCounted
  <2>4. Delivered(t)' = Delivered(t) /\ inHand'.n = Delivered(t)' + 1
        BY <1>1, <1>2, <2>1 DEF Delivered, InHandOf
  <2>5. SampleCounted(t)'
    <3>1. inHand'.n \in 1 .. fed'[t] /\ inHand'.dts \in {start'[t] + inHand'.n - 1, None}
          BY <1>1, <1>2, <2>1 DEF OwnTime
    <3>2. QED
          BY <1>4, <2>2, <2>4, <3>1, InTurn
  <2>6. QED
        BY <1>1, <1>2, <2>1, <2>2, <2>3, <2>4, <2>5 DEF Counted, OthersAlone
<1>7. CASE /\ kind[t] = "h265" /\ Hand(t, held[t], held[t].dts, held[t].head)
           /\ UNCHANGED <<configured, nextDts>>
  <2>1. /\ held[t].n \in 1 .. fed[t] /\ held[t].dts = start[t] + held[t].n - 1
        /\ ~overtaken[t] => held[t].n = fed[t]
        /\ configured[t] /\ nextDts[t] = None
        BY <1>1, <1>7 DEF UnitsCounted, OwnTime
  <2>2. /\ InHandOf(t)' /\ inHand'.n = held[t].n /\ inHand'.dts = held[t].dts
        /\ \A o \in Tracks \ {t} : ~InHandOf(o)'
    <3> DEFINE d == held[t].dts
               h == held[t].head
    <3>1. d \in Int \cup {None} /\ h \in BOOLEAN
          BY <1>2 DEF AnyUnits
    <3>2. Hand(t, held[t], d, h)
          BY <1>7
    <3> HIDE DEF d, h
    <3>3. /\ InHandOf(t)' /\ inHand'.n = held[t].n /\ inHand'.dts = d
          /\ \A o \in Tracks \ {t} : ~InHandOf(o)'
          BY <1>2, <3>1, <3>2, HandsOver
    <3>4. QED
          BY <3>3 DEF d
  <2>3. UnitsCounted(t)'
        BY <1>1, <1>2, <1>7, <2>1 DEF UnitsCounted
  <2>4. overtaken[t] \/ (Delivered(t)' = Delivered(t) /\ inHand'.n = Delivered(t)' + 1)
        BY <1>1, <1>2, <2>1, <2>2 DEF Delivered, InHandOf
  <2>5. SampleCounted(t)'
    <3>1. /\ inHand'.n \in 1 .. fed'[t] /\ configured'[t]
          /\ inHand'.dts \in {start'[t] + inHand'.n - 1, None}
          BY <1>1, <1>2, <1>7, <2>1, <2>2
    <3>2. overtaken'[t] \/ inHand'.n = Delivered(t)' + 1
          BY <1>1, <2>4
    <3>3. QED
          BY <1>4, <3>1, <3>2, InTurn
  <2>6. QED
        BY <1>1, <1>2, <1>7, <2>1, <2>2, <2>3, <2>4, <2>5 DEF Counted, OthersAlone
<1>8. QED
      BY <1>5, <1>6, <1>7 DEF FlushTrack

-----------------------------------------------------------------------------
\* A later fragment of the same track has a later unit.
InOrder(t, i) ==
    \A j \in FragmentsOf(t) : i < j => Fragments[i].n < Fragments[j].n

\* The fragment is followed by that of the next unit, or is the last so far.
Followed(t, i) ==
    \/ (\A j \in FragmentsOf(t) : ~(i < j)) /\ Fragments[i].n = Delivered(t)
    \/ \E j \in FragmentsOf(t) : i < j /\ Fragments[j].n = Fragments[i].n + 1

\* NothingLost, of one track.
GapFree(t) ==
    \A i \in FragmentsOf(t) :
        InOrder(t, i) /\ (SlippedThrough(Fragments[i]) \/ Followed(t, i))

(* NothingLost says so of every track of which no unit was overtaken.      *)
LEMMA LosesNothing == NothingLost <=> \A t \in Tracks : ~overtaken[t] => GapFree(t)
<1>1. ASSUME NothingLost, NEW t \in Tracks, ~overtaken[t] PROVE GapFree(t)
  <2>1. SUFFICES ASSUME NEW i \in FragmentsOf(t)
                 PROVE  InOrder(t, i) /\ (SlippedThrough(Fragments[i]) \/ Followed(t, i))
        BY DEF GapFree
  <2>2. LET later == {j \in FragmentsOf(t) : i < j} IN
        /\ \A j \in later : Fragments[i].n < Fragments[j].n
        /\ \/ SlippedThrough(Fragments[i])
           \/ later = {} /\ Fragments[i].n = Delivered(t)
           \/ \E j \in later : Fragments[j].n = Fragments[i].n + 1
        BY <1>1, <2>1 DEF NothingLost
  <2>3. QED
        BY <2>2 DEF InOrder, Followed
<1>2. ASSUME \A t \in Tracks : ~overtaken[t] => GapFree(t) PROVE NothingLost
  <2>1. SUFFICES ASSUME NEW t \in Tracks, ~overtaken[t], NEW i \in FragmentsOf(t)
                 PROVE  LET later == {j \in FragmentsOf(t) : i < j} IN
                        /\ \A j \in later : Fragments[i].n < Fragments[j].n
                        /\ \/ SlippedThrough(Fragments[i])
                           \/ later = {} /\ Fragments[i].n = Delivered(t)
                           \/ \E j \in later : Fragments[j].n = Fragments[i].n + 1
        BY DEF NothingLost
  <2>2. InOrder(t, i) /\ (SlippedThrough(Fragments[i]) \/ Followed(t, i))
        BY <1>2, <2>1 DEF GapFree
  <2>3. QED
        BY <2>1, <2>2 DEF InOrder, Followed
<1>3. QED
      BY <1>1, <1>2

(* The same in the next state.                                             *)
LEMMA LosesNothingNext ==
    ASSUME \A t \in Tracks : ~overtaken'[t] => GapFree(t)'
    PROVE  NothingLost'
<1>1. SUFFICES ASSUME NEW t \in Tracks, ~overtaken'[t], NEW i \in FragmentsOf(t)'
               PROVE  LET later == {j \in FragmentsOf(t)' : i < j} IN
                      /\ \A j \in later : Fragments'[i].n < Fragments'[j].n
                      /\ \/ SlippedThrough(Fragments[i])'
                         \/ later = {} /\ Fragments'[i].n = Delivered(t)'
                         \/ \E j \in later : Fragments'[j].n = Fragments'[i].n + 1
      BY DEF NothingLost
<1>2. InOrder(t, i)' /\ (SlippedThrough(Fragments[i])' \/ Followed(t, i)')
      BY <1>1 DEF GapFree
<1>3. QED
      BY <1>1, <1>2 DEF InOrder, Followed

(* What is about the fragments stays so when none is added: a track that   *)
(* has passed samples on leaves none out after.                            *)
LEMMA FragmentsAlone ==
    ASSUME TimeTypes, TimeInv,
           UNCHANGED <<start, firstDts, syncStart, pending, written>>,
           added \subseteq added', added' \subseteq Tracks,
           syncStart # None => added' \ late' \subseteq added \ late,
           \A o \in Tracks :
              /\ configured[o] => configured'[o]
              /\ overtaken[o] => overtaken'[o]
              /\ configured[o] /\ ~overtaken'[o] => Delivered(o)' = Delivered(o)
    PROVE  (\A o \in Tracks : GoesOn(o)') /\ NothingLost' /\ BeginTogether'
<1>1. /\ Fragments' = Fragments
      /\ \A o \in Tracks : FragmentsOf(o)' = FragmentsOf(o) /\ FirstOf(o)' = FirstOf(o)
      BY DEF Fragments, FragmentsOf, FirstOf
<1>2. \A o \in Tracks : ~overtaken'[o] /\ FragmentsOf(o) # {} => Delivered(o)' = Delivered(o)
      BY DEF TimeInv, GoesOn
<1>3. ASSUME NEW o \in Tracks PROVE GoesOn(o)'
  <2>1. SUFFICES ASSUME NEW i \in FragmentsOf(o)
                 PROVE  LET f == Fragments[i] IN
                        /\ configured'[o]
                        /\ f.dts # None => syncStart # None /\ syncStart <= When(f)'
                        /\ ~overtaken'[o] => f.n <= Delivered(o)'
                        /\ ~overtaken'[o] /\ syncStart = None /\ firstDts[o] # None =>
                              When(f)' < firstDts[o]
        BY <1>1 DEF GoesOn
  <2>2. LET f == Fragments[i] IN
        /\ configured[o]
        /\ f.dts # None => syncStart # None /\ syncStart <= When(f)
        /\ ~overtaken[o] => f.n <= Delivered(o)
        /\ ~overtaken[o] /\ syncStart = None /\ firstDts[o] # None => When(f) < firstDts[o]
        BY <2>1 DEF TimeInv, GoesOn
  <2>3. When(Fragments[i])' = When(Fragments[i])
        BY <1>1 DEF When
  <2>4. ~overtaken'[o] => ~overtaken[o] /\ Delivered(o)' = Delivered(o)
        BY <1>2, <2>1
  <2>5. QED
        BY <1>1, <2>2, <2>3, <2>4
<1>4. ASSUME NEW o \in Tracks, ~overtaken'[o] PROVE GapFree(o)'
  <2>1. SUFFICES ASSUME NEW i \in FragmentsOf(o)
                 PROVE  InOrder(o, i)' /\ (SlippedThrough(Fragments[i])' \/ Followed(o, i)')
        BY <1>1 DEF GapFree
  <2>2. /\ ~overtaken[o] /\ Delivered(o)' = Delivered(o)
        /\ configured[o] /\ o \in added
        BY <1>2, <1>4, <2>1 DEF TimeInv, GoesOn, SampleCounted
  <2>3. InOrder(o, i) /\ (SlippedThrough(Fragments[i]) \/ Followed(o, i))
        BY <2>1, <2>2, LosesNothing DEF TimeInv, GapFree
  <2>4. InOrder(o, i)' /\ (Followed(o, i) => Followed(o, i)')
        BY <1>1, <2>2, <2>3 DEF InOrder, Followed
  <2>5. SlippedThrough(Fragments[i]) => SlippedThrough(Fragments[i])'
    <3>1. Fragments[i].track = o
          BY <2>1 DEF FragmentsOf
    <3>2. added # {o} => added' # {o}
          BY <2>2
    <3>3. When(Fragments[i])' = When(Fragments[i])
          BY <1>1 DEF When
    <3>4. QED
          BY <1>1, <3>1, <3>2, <3>3 DEF SlippedThrough
  <2>6. QED
        BY <2>3, <2>4, <2>5
<1>5. BeginTogether'
  <2>1. ASSUME syncStart # None, NEW o \in Tracks, Punctual(o)'
        PROVE  Punctual(o) /\ Begins(o)' = Begins(o)
    <3>1. Punctual(o)
          BY <2>1 DEF Punctual
    <3>2. configured[o]
          BY <2>1, <3>1 DEF TimeInv, StartKnown, SampleCounted, Punctual
    <3>3. Delivered(o)' = Delivered(o)
          BY <2>1, <3>2 DEF Punctual
    <3>4. Due(o)' = Due(o)
          BY <3>3 DEF Due
    <3>5. Begins(o)' = Begins(o)
          BY <1>1, <3>4 DEF Begins, When
    <3>6. QED
          BY <3>1, <3>5
  <2>2. QED
        BY <2>1 DEF TimeInv, BeginTogether
<1>6. QED
      BY <1>3, <1>4, <1>5, LosesNothingNext

(* A step of a track keeps the times.                                      *)
LEMMA TrackKeepsTimes ==
    ASSUME TimeTypes, TimeInv, NEW t \in Tracks, Receive(t) \/ FlushTrack(t)
    PROVE  TimeInv'
<1>1. Counted(t) /\ OthersAlone(t)
      BY ReceiveCounts, FlushCounts
<1>2. /\ UNCHANGED <<kind, start, added, late, firstDts, syncStart, pending, written>>
      /\ inHand = None
      BY DEF Receive, FlushTrack, stateVars
<1>3. /\ fed' = [fed EXCEPT ![t] = fed[t] + 1] \/ fed' = fed
      /\ fed'[t] \in {fed[t], fed[t] + 1}
      /\ \A o \in Tracks \ {t} : fed'[o] = fed[o]
      BY DEF Receive, FlushTrack, TimeTypes
<1>4. \A o \in Tracks : ~InHandOf(o)
      BY <1>2 DEF InHandOf
<1>5. ASSUME NEW o \in Tracks, o # t
      PROVE  /\ UnitsCounted(o)' /\ SampleCounted(o)' /\ Delivered(o)' = Delivered(o)
             /\ configured'[o] = configured[o] /\ overtaken'[o] = overtaken[o]
  <2>1. /\ configured'[o] = configured[o] /\ held'[o] = held[o]
        /\ nextDts'[o] = nextDts[o] /\ overtaken'[o] = overtaken[o]
        /\ ~InHandOf(o)' /\ ~InHandOf(o) /\ fed'[o] = fed[o]
        BY <1>1, <1>3, <1>4, <1>5 DEF OthersAlone
  <2>2. UnitsCounted(o) /\ SampleCounted(o)
        BY DEF TimeInv
  <2>3. UnitsCounted(o)'
        BY <1>2, <2>1, <2>2 DEF UnitsCounted, OwnTime, HeldBack
  <2>4. SampleCounted(o)'
        BY <1>2, <2>1, <2>2 DEF SampleCounted, OwnTime
  <2>5. Delivered(o)' = Delivered(o)
        BY <2>1 DEF Delivered, InHandOf
  <2>6. QED
        BY <2>1, <2>3, <2>4, <2>5
<1>6. (\A o \in Tracks : GoesOn(o)') /\ NothingLost' /\ BeginTogether'
  <2>1. \A o \in Tracks :
            /\ configured[o] => configured'[o]
            /\ overtaken[o] => overtaken'[o]
            /\ configured[o] /\ ~overtaken'[o] => Delivered(o)' = Delivered(o)
        BY <1>1, <1>5 DEF Counted
  <2>2. added \subseteq Tracks
        BY DEF TimeTypes, FragmentsInv, EntryTypes
  <2>3. QED
        BY <1>2, <2>1, <2>2, FragmentsAlone
<1>7. StartKnown'
      BY <1>2 DEF TimeInv, StartKnown, Fragments
<1>8. FedTogether'
  <2>1. \A o \in Tracks : start[o] \in Int /\ fed[o] \in Int /\ HeldBack(o)' \in {0, 1}
        BY DEF TimeTypes, HeldBack
  <2>2. \A o, u \in Tracks : start[o] + fed[o] <= start[u] + fed[u] + Skew + 1
        BY DEF TimeInv, FedTogether
  <2>3. start' = start
        BY <1>2
  <2>4. \A o \in Tracks \ {t} : ~InHandOf(o)'
        BY <1>1 DEF OthersAlone
  <2>5. CASE Receive(t)
    <3>1. fed'[t] = fed[t] + 1
          BY <2>5 DEF Receive, TimeTypes
    <3>2. PICK unit \in Arriving(t) : TRUE
          BY <2>5 DEF Receive
    <3>3. \A o \in Tracks : start[t] + fed[t] <= start[o] + fed[o] + Skew
          BY <3>2, ArrivingIsNext
    <3>4. ASSUME NEW o \in Tracks, NEW u \in Tracks
          PROVE  /\ start[o] + fed'[o] <= start[u] + fed'[u] + Skew + 1
                 /\ o # u /\ InHandOf(u)' =>
                       start[o] + fed'[o] <= start[u] + fed'[u] - HeldBack(u)' + Skew + 1
      <4>1. start[o] + fed'[o] <= start[u] + fed'[u] + Skew + 1
            BY <1>3, <2>1, <2>2, <3>1, <3>3
      <4>2. ASSUME o # u, u = t
            PROVE  start[o] + fed'[o] <= start[u] + fed'[u] - HeldBack(u)' + Skew + 1
        <5>1. start[o] + fed[o] <= start[t] + fed[t] + Skew + 1
              BY <2>2
        <5>2. HeldBack(t)' \in {0, 1}
              BY <2>1
        <5>3. QED
              BY <1>3, <2>1, <3>1, <4>2, <5>1, <5>2
      <4>3. QED
            BY <2>4, <4>1, <4>2
    <3>5. QED
          BY <2>3, <3>4 DEF FedTogether
  <2>6. CASE FlushTrack(t)
    <3>1. fed' = fed /\ held'[t] = None
          BY <2>6 DEF FlushTrack, TimeTypes, FragmentsInv, EntryTypes
    <3>2. HeldBack(t)' = 0
          BY <3>1 DEF HeldBack
    <3>3. ASSUME NEW o \in Tracks, NEW u \in Tracks
          PROVE  /\ start[o] + fed[o] <= start[u] + fed[u] + Skew + 1
                 /\ o # u /\ InHandOf(u)' =>
                       start[o] + fed[o] <= start[u] + fed[u] - HeldBack(u)' + Skew + 1
      <4>1. CASE u = t
            BY <2>1, <2>2, <3>2, <4>1
      <4>2. CASE u # t
            BY <2>2, <2>4, <4>2
      <4>3. QED
            BY <4>1, <4>2
    <3>4. QED
          BY <2>3, <3>1, <3>3 DEF FedTogether
  <2>7. QED
        BY <2>5, <2>6
<1>9. \A o \in Tracks : UnitsCounted(o)' /\ SampleCounted(o)'
      BY <1>1, <1>5 DEF Counted
<1>10. QED
       BY <1>6, <1>7, <1>8, <1>9 DEF TimeInv

(* Of a track all is the same that its counting is about.                  *)
LEMMA CountsAlone ==
    ASSUME TimeInv, added \subseteq added',
           UNCHANGED <<kind, start, fed, configured, held, overtaken, nextDts, inHand, firstDts>>
    PROVE  /\ \A o \in Tracks : UnitsCounted(o)' /\ SampleCounted(o)'
           /\ \A o \in Tracks : Delivered(o)' = Delivered(o)
           /\ FedTogether'
<1>1. /\ \A o \in Tracks : InHandOf(o)' = InHandOf(o) /\ HeldBack(o)' = HeldBack(o)
      /\ \A o \in Tracks : Delivered(o)' = Delivered(o)
      BY DEF InHandOf, HeldBack, Delivered
<1>2. ASSUME NEW o \in Tracks PROVE UnitsCounted(o)'
  <2>1. UnitsCounted(o)
        BY DEF TimeInv
  <2>2. QED
        BY <1>1, <2>1 DEF UnitsCounted, OwnTime
<1>3. ASSUME NEW o \in Tracks PROVE SampleCounted(o)'
  <2>1. SampleCounted(o)
        BY DEF TimeInv
  <2>2. QED
        BY <1>1, <2>1 DEF SampleCounted, OwnTime
<1>4. FedTogether'
      BY <1>1 DEF TimeInv, FedTogether
<1>5. QED
      BY <1>1, <1>2, <1>3, <1>4

(* A track more has no time yet; one that is late need not be waited for.  *)
LEMMA AddKeepsTimes ==
    ASSUME TimeTypes, TimeInv, NEW t \in Tracks, AddTrack(t)
    PROVE  TimeInv'
<1>1. /\ t \notin added /\ added' = added \cup {t} /\ added \subseteq Tracks
      /\ UNCHANGED <<kind, start, fed, configured, held, overtaken, nextDts, inHand>>
      /\ UNCHANGED <<firstDts, syncStart, pending, written>>
      /\ late' = IF syncStart = None /\ pending = <<>> /\ written = <<>>
                 THEN late ELSE late \cup {t}
      BY DEF AddTrack, stateVars, TimeTypes, FragmentsInv, EntryTypes
<1>2. /\ \A o \in Tracks : UnitsCounted(o)' /\ SampleCounted(o)'
      /\ \A o \in Tracks : Delivered(o)' = Delivered(o)
      /\ FedTogether'
      BY <1>1, CountsAlone
<1>3. (\A o \in Tracks : GoesOn(o)') /\ NothingLost' /\ BeginTogether'
      BY <1>1, <1>2, FragmentsAlone
<1>4. StartKnown'
  <2>1. firstDts[t] = None
        BY <1>1 DEF TimeInv, SampleCounted
  <2>2. Fragments' = Fragments
        BY <1>1 DEF Fragments
  <2>3. Fragments # <<>> => pending # <<>> \/ written # <<>>
        BY DEF Fragments
  <2>4. syncStart # None => \A o \in added' \ late' : firstDts[o] # None
        BY <1>1 DEF TimeInv, StartKnown
  <2>5. syncStart = None /\ Fragments # <<>> => \A o, u \in added' \ late' : o = u
        BY <1>1, <2>3 DEF TimeInv, StartKnown
  <2>6. QED
        BY <1>1, <2>1, <2>2, <2>4, <2>5 DEF StartKnown
<1>5. QED
      BY <1>2, <1>3, <1>4 DEF TimeInv

-----------------------------------------------------------------------------
(* What is known of a sample in hand when it is observed.                  *)
LEMMA ObservedFacts ==
    ASSUME TimeTypes, TimeInv, NEW t \in Tracks, WriteSample(t)
    PROVE  /\ InHandOf(t) /\ inHand \in AnySamples /\ configured[t] /\ t \in added
           /\ \A o \in Tracks \ {t} : ~InHandOf(o)
           /\ inHand.n \in 1 .. fed[t] /\ inHand.dts \in Times \cup {None}
           /\ inHand.dts # None => inHand.dts = OwnTime(t, inHand.n)
           /\ ~overtaken[t] => inHand.n = Delivered(t) + 1
           /\ UNCHANGED trackVars
           /\ \A o \in Tracks : start[o] \in Int /\ fed[o] \in Int /\ Delivered(o) \in Int
<1>1. /\ InHandOf(t) /\ UNCHANGED trackVars /\ inHand \in AnySamples
      BY DEF WriteSample, InHandOf, TimeTypes, FragmentsInv, EntryTypes
<1>2. /\ configured[t] /\ t \in added /\ inHand.n \in 1 .. fed[t]
      /\ inHand.dts \in {OwnTime(t, inHand.n), None}
      /\ ~overtaken[t] => inHand.n = Delivered(t) + 1
      BY <1>1 DEF TimeInv, SampleCounted
<1>3. \A o \in Tracks \ {t} : ~InHandOf(o)
      BY <1>1 DEF InHandOf
<1>4. \A o \in Tracks : start[o] \in 0 .. Skew /\ fed[o] \in 0 .. MaxUnits
      BY DEF TimeTypes
<1>5. \A o \in Tracks : Delivered(o) \in Int
      BY <1>4 DEF Delivered
<1>6. OwnTime(t, inHand.n) \in Times
      BY <1>2, <1>4 DEF OwnTime, Times
<1>7. QED
      BY <1>1, <1>2, <1>3, <1>4, <1>5, <1>6

\* The muxer has taken the sample of t in hand: it is dropped, or becomes the
\* last fragment.
BecomesLast(t) ==
    /\ Fragments \in Seq(AnySamples)
    /\ Fragments' = Append(Fragments, Fragment(t))

Taken(t) ==
    /\ WriteSample(t) /\ inHand' = None
    /\ \/ TooEarly /\ Fragments' = Fragments
       \/ ~TooEarly /\ BecomesLast(t)

(* A sample that is not refused is taken.                                  *)
LEMMA DropOrWrite ==
    ASSUME TimeTypes, NEW t \in Tracks, WriteSample(t)
    PROVE  Taken(t) \/ RefuseSample(t)
BY WriteFragments DEF TimeTypes, BecomesLast, Taken, DropSample, AcceptSample

(* What is taken is no longer in hand.                                     *)
LEMMA TakenFacts ==
    ASSUME TimeTypes, TimeInv, NEW t \in Tracks, Taken(t)
    PROVE  /\ \A o \in Tracks : ~InHandOf(o)'
           /\ \A o \in Tracks : Delivered(o)' = fed[o] - HeldBack(o)
           /\ Delivered(t)' = Delivered(t) + 1
           /\ \A o \in Tracks \ {t} : Delivered(o)' = Delivered(o)
<1>1. /\ inHand' = None /\ UNCHANGED trackVars
      /\ InHandOf(t) /\ \A o \in Tracks \ {t} : ~InHandOf(o)
      BY ObservedFacts DEF Taken
<1>2. \A o \in Tracks : ~InHandOf(o)'
      BY <1>1 DEF InHandOf
<1>3. \A o \in Tracks : fed[o] \in Int /\ HeldBack(o) \in {0, 1}
      BY ObservedFacts DEF HeldBack, Taken
<1>4. \A o \in Tracks : Delivered(o) = fed[o] - HeldBack(o) - (IF InHandOf(o) THEN 1 ELSE 0)
      BY DEF Delivered, HeldBack, InHandOf
<1>5. \A o \in Tracks : Delivered(o)' = fed[o] - HeldBack(o) - 0
      BY <1>1 DEF Delivered, HeldBack, trackVars
<1>6. \A o \in Tracks : Delivered(o)' = fed[o] - HeldBack(o)
      BY <1>3, <1>5
<1>7. Delivered(t)' = Delivered(t) + 1
      BY <1>1, <1>3, <1>4, <1>6
<1>8. \A o \in Tracks \ {t} : Delivered(o)' = Delivered(o)
      BY <1>1, <1>3, <1>4, <1>6
<1>9. QED
      BY <1>2, <1>6, <1>7, <1>8

\* The common start becomes known: it is the latest first time there is.
StartFound ==
    /\ syncStart = None /\ syncStart' \in Times
    /\ \A o \in added : firstDts'[o] # None /\ firstDts'[o] <= syncStart'
    /\ \E o \in added : firstDts'[o] = syncStart'

(* What is observed of a sample: the common start is that of all tracks    *)
(* there are.                                                              *)
LEMMA ObserveTimes ==
    ASSUME TimeTypes, TimeInv, NEW t \in Tracks, WriteSample(t)
    PROVE  /\ firstDts' = [firstDts EXCEPT ![t] = IF @ = None THEN inHand.dts ELSE @]
           /\ firstDts' \in [Tracks -> Times \cup {None}]
           /\ syncStart' \in Times \cup {None}
           /\ syncStart' = syncStart \/ StartFound
           /\ syncStart # None => syncStart' = syncStart
           /\ (\A o \in added : firstDts'[o] # None) => syncStart' # None
<1>1. /\ firstDts' = [firstDts EXCEPT ![t] = IF @ = None THEN inHand.dts ELSE @]
      /\ syncStart' = IF syncStart = None /\ \A u \in added : firstDts'[u] # None
                      THEN Max({firstDts'[u] : u \in added}) ELSE syncStart
      BY DEF WriteSample, Observe
<1>2. inHand.dts \in Times \cup {None} /\ t \in added /\ added \subseteq Tracks
      BY ObservedFacts DEF TimeTypes, FragmentsInv, EntryTypes
<1>3. firstDts' \in [Tracks -> Times \cup {None}]
      BY <1>1, <1>2 DEF TimeTypes
<1>4. None \notin Times
      BY DEF Times
<1>5. ASSUME \A o \in added : firstDts'[o] # None, syncStart = None
      PROVE  StartFound
  <2> DEFINE S == {firstDts'[o] : o \in added}
  <2>1. S \subseteq Times /\ S # {}
        BY <1>2, <1>3, <1>5
  <2>2. syncStart' = Max(S)
        BY <1>1, <1>5
  <2> HIDE DEF S
  <2>3. syncStart' \in S /\ \A y \in S : y <= syncStart'
        BY <2>1, <2>2, LatestIsATime
  <2>4. QED
        BY <1>5, <2>1, <2>3 DEF StartFound, S
<1>6. syncStart' = syncStart \/ StartFound
      BY <1>1, <1>5
<1>7. syncStart # None => syncStart' = syncStart
      BY <1>1
<1>8. syncStart' \in Times \cup {None}
      BY <1>6 DEF StartFound, TimeTypes
<1>9. (\A o \in added : firstDts'[o] # None) => syncStart' # None
      BY <1>4, <1>5, <1>7 DEF StartFound
<1>10. QED
       BY <1>1, <1>3, <1>6, <1>7, <1>8, <1>9

(* The library refuses only a sample without a time: nothing is observed.  *)
LEMMA RefusedKeepsTimes ==
    ASSUME TimeTypes, TimeInv, EntryInv, NEW t \in Tracks, WriteSample(t), RefuseSample(t)
    PROVE  TimeInv'
<1>1. inHand.dts = None
  <2>1. ~inHand.head /\ ~entry'[t]
    <3>1. ~ready[t] /\ ~Fragment(t).head
          BY DEF RefuseSample
    <3>2. Fragment(t).head = (inHand.head \/ (~ready[t] /\ entry'[t]))
          BY ObservedFacts DEF Fragment, AnySamples
    <3>3. QED
          BY <3>1, <3>2
  <2>2. entry'[t] = (entry[t] \/ inHand.head)
        BY DEF WriteSample, Observe, TimeTypes, FragmentsInv, EntryTypes
  <2>3. ~EntryKnown(t)
        BY <2>1, <2>2 DEF EntryKnown
  <2>4. QED
        BY <2>3, ObservedFacts DEF EntryInv, EntryOnItsWay
<1>2. firstDts' = firstDts /\ syncStart' = syncStart
  <2>1. firstDts' = firstDts
        BY <1>1, ObserveTimes DEF TimeTypes
  <2>2. ASSUME StartFound PROVE FALSE
    <3>1. added # {} /\ \A o \in added : firstDts[o] # None
          BY <2>1, <2>2, ObservedFacts DEF StartFound
    <3>2. syncStart # None
          BY <3>1 DEF TimeInv, StartKnown
    <3>3. QED
          BY <2>2, <3>2 DEF StartFound
  <2>3. QED
        BY <2>1, <2>2, ObserveTimes
<1>3. /\ UNCHANGED <<kind, start, added, late, fed, configured, held, overtaken, nextDts>>
      /\ UNCHANGED <<inHand, pending, written>>
      /\ added \subseteq Tracks
      BY ObservedFacts DEF trackVars, RefuseSample, TimeTypes, FragmentsInv, EntryTypes
<1>4. /\ \A o \in Tracks : UnitsCounted(o)' /\ SampleCounted(o)'
      /\ \A o \in Tracks : Delivered(o)' = Delivered(o)
      /\ FedTogether'
      BY <1>2, <1>3, CountsAlone
<1>5. (\A o \in Tracks : GoesOn(o)') /\ NothingLost' /\ BeginTogether'
      BY <1>2, <1>3, <1>4, FragmentsAlone
<1>6. StartKnown'
      BY <1>2, <1>3 DEF TimeInv, StartKnown, Fragments
<1>7. QED
      BY <1>4, <1>5, <1>6 DEF TimeInv

(* A fragment more: the first of its track, or what was first stays so.    *)
LEMMA OneFragmentMore ==
    ASSUME TimeTypes, TimeInv, NEW t \in Tracks, WriteSample(t), BecomesLast(t)
    PROVE  LET last == Len(Fragments) + 1 IN
           /\ \A i \in DOMAIN Fragments : i < last /\ i \in Nat /\ Fragments'[i] = Fragments[i]
           /\ last \in Nat
           /\ Fragments'[last].n = inHand.n /\ Fragments'[last].track = t
           /\ Fragments'[last].dts = inHand.dts
           /\ \A o \in Tracks \ {t} :
                 FragmentsOf(o)' = FragmentsOf(o) /\ FirstOf(o)' = FirstOf(o)
           /\ FragmentsOf(t)' = FragmentsOf(t) \cup {last}
           /\ FragmentsOf(t) = {} => FirstOf(t)' = {last}
           /\ FragmentsOf(t) # {} => FirstOf(t)' = FirstOf(t)
<1> DEFINE F == Fragments
           f == Fragment(t)
           last == Len(F) + 1
<1>1. inHand \in AnySamples /\ inHand.track = t
      BY ObservedFacts DEF InHandOf
<1>2. f \in AnySamples /\ f.n = inHand.n /\ f.track = t /\ f.dts = inHand.dts
  <2>1. f = [inHand EXCEPT !.head = inHand.head \/ (~ready[t] /\ entry'[t])]
        BY DEF Fragment
  <2>2. f.n = inHand.n /\ f.track = t /\ f.dts = inHand.dts
        BY <1>1, <2>1 DEF AnySamples
  <2>3. f \in AnySamples
        BY FragmentTypes DEF TimeTypes, FragmentsInv
  <2>4. QED
        BY <2>2, <2>3
<1>3. F \in Seq(AnySamples) /\ Fragments' = Append(F, f)
      BY DEF BecomesLast
<1> HIDE DEF F, f
<1>4. /\ DOMAIN F = 1 .. Len(F) /\ Len(F) \in Nat
      /\ DOMAIN Append(F, f) = 1 .. last /\ Append(F, f)[last] = f
      /\ \A i \in 1 .. Len(F) : Append(F, f)[i] = F[i]
      BY <1>2, <1>3
<1>5. /\ \A i \in DOMAIN F : i < last /\ i \in Nat /\ Fragments'[i] = F[i]
      /\ DOMAIN Fragments' = DOMAIN F \cup {last} /\ Fragments'[last] = f
      BY <1>3, <1>4
<1>6. \A o \in Tracks : FragmentsOf(o) = {i \in DOMAIN F : F[i].track = o}
      BY DEF FragmentsOf, F
<1>7. \A o \in Tracks : FragmentsOf(o)' = {i \in DOMAIN F \cup {last} : Fragments'[i].track = o}
      BY <1>5 DEF FragmentsOf
<1>8. last \notin DOMAIN F
      BY <1>4
<1>9. ASSUME NEW o \in Tracks \ {t} PROVE FragmentsOf(o)' = FragmentsOf(o)
  <2>1. \A i \in DOMAIN F : Fragments'[i].track = F[i].track
        BY <1>5
  <2>2. Fragments'[last].track # o
        BY <1>2, <1>5
  <2>3. FragmentsOf(o) = {i \in DOMAIN F : F[i].track = o}
        BY <1>6
  <2>4. FragmentsOf(o)' = {i \in DOMAIN F \cup {last} : Fragments'[i].track = o}
        BY <1>7
  <2>5. QED
        BY <2>1, <2>2, <2>3, <2>4
<1>10. FragmentsOf(t)' = FragmentsOf(t) \cup {last}
       BY <1>2, <1>5, <1>6, <1>7
<1>11. \A o \in Tracks \ {t} : FirstOf(o)' = FirstOf(o)
       BY <1>9 DEF FirstOf
<1>12. \A i \in FragmentsOf(t) : i < last /\ i \in Nat
       BY <1>5, <1>6
<1>13. FirstOf(t)' = {i \in FragmentsOf(t) \cup {last} : \A j \in FragmentsOf(t) \cup {last} : i <= j}
       BY <1>10 DEF FirstOf
<1>14. last \in Nat
       BY <1>4
<1>15. FragmentsOf(t) = {} => FirstOf(t)' = {last}
       BY <1>13, <1>14
<1>16. FragmentsOf(t) # {} => FirstOf(t)' = FirstOf(t)
  <2>1. SUFFICES ASSUME FragmentsOf(t) # {} PROVE FirstOf(t)' = FirstOf(t)
        OBVIOUS
  <2>2. \A i \in FirstOf(t)' : i \in FirstOf(t)
        BY <1>12, <1>13, <1>14, <2>1 DEF FirstOf
  <2>3. \A i \in FirstOf(t) : i \in FirstOf(t)'
        BY <1>12, <1>13, <1>14, <2>1 DEF FirstOf
  <2>4. QED
        BY <2>2, <2>3
<1>17. Fragments'[last].n = inHand.n /\ Fragments'[last].track = t /\ Fragments'[last].dts = inHand.dts
       BY <1>2, <1>5
<1>18. \A i \in DOMAIN F : i < last /\ i \in Nat /\ Fragments'[i] = F[i]
       BY <1>5
<1> HIDE DEF last
<1>19. QED
       BY <1>9, <1>10, <1>11, <1>14, <1>15, <1>16, <1>17, <1>18 DEF F, last

(* A sample that is dropped or written is a sample less in hand.           *)
LEMMA WriteKeepsCounts ==
    ASSUME TimeTypes, TimeInv, NEW t \in Tracks, Taken(t)
    PROVE  /\ \A o \in Tracks : UnitsCounted(o)' /\ SampleCounted(o)'
           /\ FedTogether'
<1>1. /\ UNCHANGED trackVars /\ InHandOf(t) /\ configured[t]
      /\ \A o \in Tracks : ~InHandOf(o)'
      /\ firstDts' = [firstDts EXCEPT ![t] = IF @ = None THEN inHand.dts ELSE @]
      BY ObservedFacts, ObserveTimes, TakenFacts DEF Taken
<1>2. \A o \in Tracks : UnitsCounted(o) /\ SampleCounted(o)
      BY DEF TimeInv
<1>3. \A o \in Tracks : UnitsCounted(o)'
      BY <1>1, <1>2 DEF UnitsCounted, OwnTime, HeldBack, trackVars
<1>4. ASSUME NEW o \in Tracks PROVE SampleCounted(o)'
  <2>1. CASE o # t
    <3>1. firstDts'[o] = firstDts[o]
          BY <1>1, <2>1 DEF TimeTypes
    <3>2. QED
          BY <1>1, <1>2, <3>1 DEF SampleCounted, trackVars, OwnTime
  <2>2. CASE o = t
    <3>1. firstDts'[t] = firstDts[t] \/ firstDts'[t] = inHand.dts
          BY <1>1 DEF TimeTypes
    <3>2. inHand.dts # None => inHand.dts <= OwnTime(t, fed[t])
          BY ObservedFacts DEF OwnTime, Taken
    <3>3. firstDts'[t] # None => firstDts'[t] <= OwnTime(t, fed[t])
          BY <1>2, <3>1, <3>2 DEF SampleCounted
    <3>4. QED
          BY <1>1, <1>2, <2>2, <3>3 DEF SampleCounted, trackVars, OwnTime
  <2>3. QED
        BY <2>1, <2>2
<1>5. FedTogether'
      BY <1>1 DEF TimeInv, FedTogether, trackVars
<1>6. QED
      BY <1>3, <1>4, <1>5

-----------------------------------------------------------------------------
(* A fragment of a track was written before, or is the sample just taken.  *)
LEMMA OldOrNew ==
    ASSUME TimeTypes, TimeInv, NEW t \in Tracks, Taken(t), NEW o \in Tracks
    PROVE  /\ FragmentsOf(o) \subseteq FragmentsOf(o)'
           /\ \A i \in FragmentsOf(o) : Fragments'[i] = Fragments[i]
           /\ o # t \/ TooEarly => FragmentsOf(o)' = FragmentsOf(o) /\ FirstOf(o)' = FirstOf(o)
           /\ o = t /\ ~TooEarly =>
                 \E i \in FragmentsOf(t)' :
                    /\ FragmentsOf(t)' = FragmentsOf(t) \cup {i}
                    /\ i \in Nat /\ \A j \in FragmentsOf(t) : j \in Nat /\ j < i
                    /\ Fragments'[i].n = inHand.n /\ Fragments'[i].dts = inHand.dts
                    /\ Fragments'[i].track = t
                    /\ FirstOf(t)' = IF FragmentsOf(t) = {} THEN {i} ELSE FirstOf(t)
<1>1. \A i \in FragmentsOf(o) : i \in DOMAIN Fragments
      BY DEF FragmentsOf
<1>2. CASE TooEarly
  <2>1. Fragments' = Fragments
        BY <1>2 DEF Taken
  <2>2. FragmentsOf(o)' = FragmentsOf(o) /\ FirstOf(o)' = FirstOf(o)
        BY <2>1 DEF FragmentsOf, FirstOf
  <2>3. QED
        BY <1>2, <2>1, <2>2
<1>3. CASE ~TooEarly /\ o # t
  <2>1. WriteSample(t) /\ BecomesLast(t)
        BY <1>3 DEF Taken
  <2>2. /\ FragmentsOf(o)' = FragmentsOf(o) /\ FirstOf(o)' = FirstOf(o)
        /\ \A i \in DOMAIN Fragments : Fragments'[i] = Fragments[i]
        BY <1>3, <2>1, OneFragmentMore
  <2>3. QED
        BY <1>1, <1>3, <2>2
<1>4. CASE ~TooEarly /\ o = t
  <2> DEFINE last == Len(Fragments) + 1
  <2>1. WriteSample(t) /\ BecomesLast(t)
        BY <1>4 DEF Taken
  <2>2. /\ \A i \in DOMAIN Fragments : i < last /\ i \in Nat /\ Fragments'[i] = Fragments[i]
        /\ last \in Nat
        /\ Fragments'[last].n = inHand.n /\ Fragments'[last].track = t
        /\ Fragments'[last].dts = inHand.dts
        /\ FragmentsOf(t)' = FragmentsOf(t) \cup {last}
        /\ FragmentsOf(t) = {} => FirstOf(t)' = {last}
        /\ FragmentsOf(t) # {} => FirstOf(t)' = FirstOf(t)
        BY <2>1, OneFragmentMore
  <2> HIDE DEF last
  <2>3. last \in FragmentsOf(t)'
        BY <2>2
  <2>4. QED
        BY <1>1, <1>4, <2>2, <2>3
<1>5. QED
      BY <1>2, <1>3, <1>4

(* A fragment is at the time of its unit.                                  *)
LEMMA WhenOf ==
    ASSUME TimeTypes, NEW o \in Tracks, NEW i \in FragmentsOf(o)
    PROVE  /\ Fragments[i].n \in Int /\ Fragments[i].track = o
           /\ When(Fragments[i]) = start[o] + Fragments[i].n - 1
           /\ When(Fragments[i]) \in Int
<1>1. Fragments \in Seq(AnySamples)
      BY DEF TimeTypes, FragmentsInv, EntryTypes, Fragments
<1>2. i \in DOMAIN Fragments /\ Fragments[i].track = o
      BY DEF FragmentsOf
<1>3. Fragments[i] \in AnySamples
      BY <1>1, <1>2
<1>4. Fragments[i].n \in Int /\ start[o] \in Int
      BY <1>3 DEF AnySamples, TimeTypes
<1>5. QED
      BY <1>2, <1>4 DEF When

(* What was written before the common start became known is before it.     *)
LEMMA WrittenBeforeStart ==
    ASSUME TimeTypes, TimeInv, NEW t \in Tracks, Taken(t), StartFound,
           NEW o \in Tracks, ~overtaken[o], NEW i \in FragmentsOf(o)
    PROVE  When(Fragments[i]) < syncStart'
<1>1. /\ configured[o] /\ Fragments[i].n <= Delivered(o)
      /\ firstDts[o] # None => When(Fragments[i]) < firstDts[o]
      BY DEF TimeInv, GoesOn, StartFound
<1>2. o \in added /\ firstDts'[o] # None /\ firstDts'[o] <= syncStart'
      BY <1>1 DEF TimeInv, SampleCounted, StartFound
<1>3. /\ firstDts' = [firstDts EXCEPT ![t] = IF @ = None THEN inHand.dts ELSE @]
      /\ firstDts \in [Tracks -> Int \cup {None}]
      BY ObserveTimes DEF Taken, TimeTypes, Times
<1>4. syncStart' \in Int
      BY DEF StartFound, Times
<1>5. CASE firstDts[o] # None
  <2>1. firstDts'[o] = firstDts[o] /\ firstDts[o] \in Int
        BY <1>3, <1>5
  <2>2. QED
        BY <1>1, <1>2, <1>4, <1>5, <2>1, WhenOf
<1>6. CASE firstDts[o] = None
  <2>1. o = t /\ firstDts'[t] = inHand.dts
        BY <1>2, <1>3, <1>6
  <2>2. inHand.dts = start[t] + Delivered(t) /\ start[t] \in Int /\ Delivered(t) \in Int
        BY <1>2, <2>1, ObservedFacts DEF OwnTime, Taken
  <2>3. QED
        BY <1>1, <1>2, <1>4, <2>1, <2>2, WhenOf
<1>7. QED
      BY <1>5, <1>6

(* What has slipped through has slipped through.                           *)
LEMMA SlipsStay ==
    ASSUME TimeTypes, TimeInv, NEW t \in Tracks, Taken(t),
           NEW o \in Tracks, ~overtaken[o], NEW i \in FragmentsOf(o),
           SlippedThrough(Fragments[i])
    PROVE  SlippedThrough(Fragments[i])'
<1>1. /\ Fragments'[i] = Fragments[i] /\ start' = start /\ added' = added
      BY OldOrNew, ObservedFacts DEF Taken, trackVars
<1>2. When(Fragments[i])' = When(Fragments[i])
      BY <1>1 DEF When
<1>3. CASE syncStart' = syncStart
      BY <1>1, <1>2, <1>3 DEF SlippedThrough
<1>4. CASE StartFound
  <2>1. syncStart' # None
        BY <1>4 DEF StartFound, Times
  <2>2. When(Fragments[i]) < syncStart'
        BY <1>4, WrittenBeforeStart
  <2>3. QED
        BY <1>1, <1>2, <2>1, <2>2 DEF SlippedThrough
<1>5. QED
      BY <1>3, <1>4, ObserveTimes DEF Taken

(* When a sample is too early, what its track has written slipped through. *)
LEMMA DroppedAfterSlips ==
    ASSUME TimeTypes, TimeInv, NEW t \in Tracks, Taken(t), TooEarly, ~overtaken[t],
           NEW i \in FragmentsOf(t)
    PROVE  SlippedThrough(Fragments[i])'
<1> DEFINE f == Fragments[i]
<1>1. /\ Fragments'[i] = f /\ start' = start /\ added' = added
      /\ f.track = t /\ When(f) = start[t] + f.n - 1 /\ f.n \in Int
      BY OldOrNew, ObservedFacts, WhenOf DEF Taken, trackVars
<1>2. When(Fragments[i])' = When(f)
      BY <1>1 DEF When
<1>3. /\ f.n <= Delivered(t)
      /\ f.dts # None => syncStart # None /\ syncStart <= When(f)
      BY DEF TimeInv, GoesOn
<1>4. /\ InHandOf(t) /\ inHand.n = Delivered(t) + 1
      /\ inHand.dts # None => inHand.dts = start[t] + Delivered(t)
      /\ start[t] \in Int /\ Delivered(t) \in Int
      BY ObservedFacts DEF Taken, OwnTime
<1>5. syncStart # None => syncStart' = syncStart
      BY ObserveTimes DEF Taken
<1> HIDE DEF f
<1>6. CASE syncStart' = None /\ added # {t}
  <2>1. f.dts = None
        BY <1>3, <1>5, <1>6
  <2>2. QED
        BY <1>1, <1>6, <2>1 DEF SlippedThrough
<1>7. CASE syncStart' # None /\ inHand.dts # None /\ inHand.dts < syncStart'
  <2>1. syncStart' \in Int
        BY <1>7, ObserveTimes DEF Taken, Times
  <2>2. When(f) < syncStart'
        BY <1>1, <1>3, <1>4, <1>7, <2>1
  <2>3. When(f) \in Int
        BY <1>1, <1>4
  <2>4. f.dts = None
    <3>1. ~(syncStart' <= When(f))
          BY <2>1, <2>2, <2>3
    <3>2. QED
          BY <1>3, <1>5, <3>1
  <2>5. QED
        BY <1>1, <1>2, <1>7, <2>2, <2>4 DEF SlippedThrough
<1>8. QED
      BY <1>4, <1>6, <1>7 DEF TooEarly, InHandOf

(* Nothing of a track that has begun is lost with this sample.             *)
LEMMA WriteLosesNothing ==
    ASSUME TimeTypes, TimeInv, NEW t \in Tracks, Taken(t)
    PROVE  NothingLost'
<1>1. SUFFICES ASSUME NEW o \in Tracks, ~overtaken'[o] PROVE GapFree(o)'
      BY LosesNothingNext
<1>2. ~overtaken[o]
      BY <1>1, ObservedFacts DEF trackVars, Taken
<1>3. \A i \in FragmentsOf(o) :
         /\ InOrder(o, i) /\ (SlippedThrough(Fragments[i]) \/ Followed(o, i))
         /\ Fragments[i].n <= Delivered(o)
      BY <1>2, LosesNothing DEF TimeInv, GapFree, GoesOn
<1>4. /\ \A i \in FragmentsOf(o) : Fragments'[i] = Fragments[i]
      /\ \A i \in FragmentsOf(o) : SlippedThrough(Fragments[i]) => SlippedThrough(Fragments[i])'
      BY <1>2, OldOrNew, SlipsStay
<1>5. CASE o # t
  <2>1. FragmentsOf(o)' = FragmentsOf(o) /\ Delivered(o)' = Delivered(o)
        BY <1>5, OldOrNew, TakenFacts
  <2>2. \A i \in FragmentsOf(o) : InOrder(o, i)' /\ (Followed(o, i) => Followed(o, i)')
        BY <1>3, <1>4, <2>1 DEF InOrder, Followed
  <2>3. QED
        BY <1>3, <1>4, <2>1, <2>2 DEF GapFree
<1>6. CASE o = t /\ TooEarly
  <2>1. FragmentsOf(o)' = FragmentsOf(o)
        BY <1>6, OldOrNew
  <2>2. \A i \in FragmentsOf(o) : InOrder(o, i)'
        BY <1>3, <1>4, <2>1 DEF InOrder
  <2>3. \A i \in FragmentsOf(o) : SlippedThrough(Fragments[i])'
        BY <1>2, <1>6, DroppedAfterSlips
  <2>4. QED
        BY <2>1, <2>2, <2>3 DEF GapFree
<1>7. CASE o = t /\ ~TooEarly
  <2>1. PICK last \in FragmentsOf(t)' :
           /\ FragmentsOf(t)' = FragmentsOf(t) \cup {last}
           /\ last \in Nat /\ \A j \in FragmentsOf(t) : j \in Nat /\ j < last
           /\ Fragments'[last].n = inHand.n
        BY <1>7, OldOrNew
  <2>2. /\ inHand.n = Delivered(t) + 1 /\ Delivered(t)' = Delivered(t) + 1
        /\ Delivered(t) \in Int
        BY <1>2, <1>7, ObservedFacts, TakenFacts DEF Taken
  <2>3. InOrder(t, last)' /\ Followed(t, last)'
    <3>1. \A j \in FragmentsOf(t)' : ~(last < j)
          BY <2>1
    <3>2. Fragments'[last].n = Delivered(t)'
          BY <2>1, <2>2
    <3>3. QED
          BY <3>1, <3>2 DEF InOrder, Followed
  <2>4. ASSUME NEW i \in FragmentsOf(t)
        PROVE  InOrder(t, i)' /\ (SlippedThrough(Fragments[i])' \/ Followed(t, i)')
    <3>1. /\ Fragments'[i] = Fragments[i] /\ i < last
          /\ Fragments[i].n \in Int /\ Fragments[i].n <= Delivered(t)
          BY <1>3, <1>4, <1>7, <2>1, WhenOf
    <3>2. Fragments'[i].n < Fragments'[last].n
          BY <2>1, <2>2, <3>1
    <3>3. InOrder(t, i)'
      <4>1. \A j \in FragmentsOf(t) : i < j => Fragments'[i].n < Fragments'[j].n
            BY <1>3, <1>4, <1>7 DEF InOrder
      <4>2. QED
            BY <2>1, <3>2, <4>1 DEF InOrder
    <3>4. CASE SlippedThrough(Fragments[i])
          BY <1>4, <1>7, <3>3, <3>4
    <3>5. CASE Followed(t, i)
      <4>1. CASE Fragments[i].n = Delivered(t)
        <5>1. Fragments'[last].n = Fragments'[i].n + 1
              BY <2>1, <2>2, <3>1, <4>1
        <5>2. Followed(t, i)'
              BY <2>1, <3>1, <5>1 DEF Followed
        <5>3. QED
              BY <3>3, <5>2
      <4>2. CASE \E j \in FragmentsOf(t) : i < j /\ Fragments[j].n = Fragments[i].n + 1
        <5>1. PICK j \in FragmentsOf(t) : i < j /\ Fragments[j].n = Fragments[i].n + 1
              BY <4>2
        <5>2. j \in FragmentsOf(t)' /\ Fragments'[j].n = Fragments'[i].n + 1
              BY <1>4, <1>7, <2>1, <3>1, <5>1
        <5>3. Followed(t, i)'
              BY <5>1, <5>2 DEF Followed
        <5>4. QED
              BY <3>3, <5>3
      <4>3. QED
            BY <3>5, <4>1, <4>2 DEF Followed
    <3>6. QED
          BY <1>3, <1>7, <3>4, <3>5
  <2>5. QED
        BY <1>7, <2>1, <2>3, <2>4 DEF GapFree
<1>8. QED
      BY <1>5, <1>6, <1>7

(* Of what is written, what has a time is at the common start or later.    *)
LEMMA WriteGoesOn ==
    ASSUME TimeTypes, TimeInv, NEW t \in Tracks, Taken(t)
    PROVE  StartKnown' /\ \A o \in Tracks : GoesOn(o)'
<1>1. /\ firstDts' = [firstDts EXCEPT ![t] = IF @ = None THEN inHand.dts ELSE @]
      /\ firstDts \in [Tracks -> Int \cup {None}]
      /\ syncStart' = syncStart \/ StartFound
      /\ syncStart # None => syncStart' = syncStart
      /\ (\A o \in added : firstDts'[o] # None) => syncStart' # None
      /\ syncStart' \in Int \cup {None} /\ syncStart \in Int \cup {None}
      BY ObserveTimes DEF Taken, TimeTypes, Times
<1>2. /\ configured' = configured /\ overtaken' = overtaken /\ start' = start
      /\ added' = added /\ late' = late /\ t \in added /\ InHandOf(t)
      /\ inHand.dts # None => inHand.dts = start[t] + inHand.n - 1
      BY ObservedFacts DEF Taken, trackVars, OwnTime
<1>3. ~TooEarly /\ syncStart' = None => added = {t} /\ inHand.dts = None
  <2>1. ~TooEarly /\ syncStart' = None => added = {t}
        BY <1>2 DEF TooEarly, InHandOf
  <2>2. added = {t} /\ inHand.dts # None => syncStart' # None
        BY <1>1
  <2>3. QED
        BY <2>1, <2>2
<1>4. StartKnown'
  <2>1. syncStart' # None => \A o \in added' \ late' : firstDts'[o] # None
    <3>1. CASE syncStart' = syncStart
      <4>1. syncStart # None => \A o \in added \ late : firstDts[o] # None
            BY DEF TimeInv, StartKnown
      <4>2. \A o \in Tracks : firstDts[o] # None => firstDts'[o] # None
            BY <1>1
      <4>3. added \subseteq Tracks
            BY DEF TimeTypes, FragmentsInv, EntryTypes
      <4>4. QED
            BY <1>2, <3>1, <4>1, <4>2, <4>3
    <3>2. CASE StartFound
          BY <1>2, <3>2 DEF StartFound
    <3>3. QED
          BY <1>1, <3>1, <3>2
  <2>2. syncStart' = None /\ Fragments' # <<>> => \A o, u \in added' \ late' : o = u
    <3>1. SUFFICES ASSUME syncStart' = None, Fragments' # <<>>
                   PROVE  \A o, u \in added \ late : o = u
          BY <1>2
    <3>2. CASE Fragments # <<>>
          BY <1>1, <3>1, <3>2 DEF TimeInv, StartKnown
    <3>3. CASE Fragments = <<>>
      <4>1. ~TooEarly
            BY <3>1, <3>3 DEF Taken
      <4>2. QED
            BY <1>3, <3>1, <4>1
    <3>4. QED
          BY <3>2, <3>3
  <2>3. QED
        BY <1>1, <1>2, <2>1, <2>2 DEF StartKnown
<1>5. ASSUME NEW o \in Tracks, NEW i \in FragmentsOf(o)'
      PROVE  LET f == Fragments'[i] IN
             /\ configured'[o]
             /\ f.dts # None => syncStart' # None /\ syncStart' <= When(Fragments[i])'
             /\ ~overtaken'[o] => f.n <= Delivered(o)'
             /\ ~overtaken'[o] /\ syncStart' = None /\ firstDts'[o] # None =>
                   When(Fragments[i])' < firstDts'[o]
  <2>1. CASE i \in FragmentsOf(o)
    <3> DEFINE f == Fragments[i]
    <3>1. Fragments'[i] = f
          BY <2>1, OldOrNew
    <3>2. /\ configured[o]
          /\ f.dts # None => syncStart # None /\ syncStart <= When(f)
          /\ ~overtaken[o] => f.n <= Delivered(o)
          /\ ~overtaken[o] /\ syncStart = None /\ firstDts[o] # None => When(f) < firstDts[o]
          BY <2>1 DEF TimeInv, GoesOn
    <3>3. f.n \in Int /\ When(f) = start[o] + f.n - 1 /\ When(f) \in Int
          BY <2>1, WhenOf
    <3>4. When(Fragments[i])' = When(f)
          BY <1>2, <3>1 DEF When
    <3>5. Delivered(o)' \in {Delivered(o), Delivered(o) + 1} /\ Delivered(o) \in Int
          BY TakenFacts, ObservedFacts DEF Taken
    <3> HIDE DEF f
    <3>6. ~overtaken[o] => f.n <= Delivered(o)'
          BY <3>2, <3>3, <3>5
    <3>7. ASSUME ~overtaken[o], syncStart' = None, firstDts'[o] # None
          PROVE  When(f) < firstDts'[o]
      <4>1. syncStart = None
            BY <1>1, <3>7
      <4>2. CASE firstDts[o] # None
        <5>1. firstDts'[o] = firstDts[o]
              BY <1>1, <4>2
        <5>2. QED
              BY <3>2, <3>7, <4>1, <4>2, <5>1
      <4>3. CASE firstDts[o] = None
        <5>1. o = t /\ firstDts'[t] = inHand.dts
              BY <1>1, <3>7, <4>3
        <5>2. inHand.dts = start[t] + Delivered(t) /\ start[t] \in Int
              BY <3>7, <5>1, ObservedFacts DEF Taken, OwnTime
        <5>3. QED
              BY <3>2, <3>3, <3>5, <3>7, <5>1, <5>2
      <4>4. QED
            BY <4>2, <4>3
    <3>8. QED
          BY <1>1, <1>2, <3>1, <3>2, <3>4, <3>6, <3>7
  <2>2. CASE i \notin FragmentsOf(o)
    <3>1. o = t /\ ~TooEarly
          BY <1>5, <2>2, OldOrNew
    <3>2. PICK last \in FragmentsOf(t)' :
             /\ FragmentsOf(t)' = FragmentsOf(t) \cup {last}
             /\ Fragments'[last].n = inHand.n /\ Fragments'[last].dts = inHand.dts
             /\ Fragments'[last].track = t
          BY <3>1, OldOrNew
    <3>3. i = last
          BY <1>5, <2>2, <3>1, <3>2
    <3>4. When(Fragments[i])' = start[t] + inHand.n - 1
          BY <1>2, <3>2, <3>3 DEF When
    <3>5. inHand.dts # None => syncStart' # None /\ syncStart' <= inHand.dts
      <4>1. ASSUME inHand.dts # None PROVE syncStart' # None /\ ~(inHand.dts < syncStart')
            BY <1>3, <3>1, <4>1 DEF TooEarly
      <4>2. inHand.dts \in Int \cup {None}
            BY ObservedFacts DEF Taken, Times
      <4>3. QED
            BY <1>1, <4>1, <4>2
    <3>6. ~overtaken[t] => inHand.n = Delivered(t)'
          BY ObservedFacts, TakenFacts DEF Taken
    <3>7. inHand.n \in Int
          BY ObservedFacts DEF Taken
    <3>8. syncStart' = None => firstDts'[t] = None
      <4>1. added = {t} /\ firstDts'[t] # None => syncStart' # None
            BY <1>1
      <4>2. QED
            BY <1>3, <3>1, <4>1
    <3>9. configured[t]
          BY ObservedFacts DEF Taken
    <3>10. QED
           BY <1>2, <3>1, <3>2, <3>3, <3>4, <3>5, <3>6, <3>7, <3>8, <3>9
  <2>3. QED
        BY <2>1, <2>2
<1>6. ASSUME NEW o \in Tracks PROVE GoesOn(o)'
      BY <1>5 DEF GoesOn
<1>7. QED
      BY <1>4, <1>6

-----------------------------------------------------------------------------
(* When a track begins that has begun, and when one that has not.          *)
LEMMA BeginsFacts ==
    ASSUME TimeTypes, NEW o \in Tracks, syncStart # None
    PROVE  /\ Due(o) = start[o] + Delivered(o) /\ Due(o) \in Int /\ syncStart \in Int
           /\ Begins(o) \subseteq Int
           /\ FragmentsOf(o) # {} => Begins(o) = {When(Fragments[i]) : i \in FirstOf(o)}
           /\ FragmentsOf(o) = {} =>
                 /\ Begins(o) = {Due(o), Max({Due(o), syncStart})}
                 /\ Due(o) <= Max({Due(o), syncStart})
                 /\ syncStart <= Max({Due(o), syncStart})
                 /\ Max({Due(o), syncStart}) \in {Due(o), syncStart}
<1>1. /\ start[o] \in 0 .. Skew /\ fed[o] \in 0 .. MaxUnits /\ syncStart \in Int
      BY DEF TimeTypes, Times
<1>2. Due(o) = start[o] + Delivered(o) /\ Due(o) \in Int
      BY <1>1 DEF Due, Delivered
<1>3. /\ Due(o) <= Max({Due(o), syncStart})
      /\ syncStart <= Max({Due(o), syncStart})
      /\ Max({Due(o), syncStart}) \in {Due(o), syncStart}
      BY <1>1, <1>2, LaterOfTwo
<1>4. \A i \in FirstOf(o) : When(Fragments[i]) \in Int
      BY WhenOf DEF FirstOf
<1>5. FragmentsOf(o) # {} => Begins(o) = {When(Fragments[i]) : i \in FirstOf(o)}
      BY DEF Begins
<1>6. FragmentsOf(o) = {} => Begins(o) = {Due(o), Max({Due(o), syncStart})}
  <2>1. FragmentsOf(o) = {} => FirstOf(o) = {}
        BY DEF FirstOf
  <2>2. QED
        BY <2>1 DEF Begins
<1>7. Begins(o) \subseteq Int
  <2>1. CASE FragmentsOf(o) # {}
        BY <1>4, <1>5, <2>1
  <2>2. CASE FragmentsOf(o) = {}
    <3>1. Max({Due(o), syncStart}) \in Int
          BY <1>1, <1>2, <1>3
    <3>2. QED
          BY <1>2, <1>6, <2>2, <3>1
  <2>3. QED
        BY <2>1, <2>2
<1>8. QED
      BY <1>1, <1>2, <1>3, <1>5, <1>6, <1>7

(* The same of the next state.                                             *)
LEMMA BeginsNext ==
    ASSUME TimeTypes, TimeInv, NEW t \in Tracks, Taken(t), NEW o \in Tracks, syncStart' # None
    PROVE  /\ Due(o)' = start[o] + Delivered(o)' /\ Due(o)' \in Int /\ syncStart' \in Int
           /\ FragmentsOf(o)' # {} => Begins(o)' = {When(Fragments[i])' : i \in FirstOf(o)'}
           /\ FragmentsOf(o)' = {} =>
                 /\ Begins(o)' = {Due(o)', Max({Due(o)', syncStart'})}
                 /\ Due(o)' <= Max({Due(o)', syncStart'})
                 /\ syncStart' <= Max({Due(o)', syncStart'})
                 /\ Max({Due(o)', syncStart'}) \in {Due(o)', syncStart'}
<1>1. /\ syncStart' \in Int /\ start' = start /\ start[o] \in Int
      /\ Delivered(o)' \in {Delivered(o), Delivered(o) + 1} /\ Delivered(o) \in Int
      BY ObserveTimes, ObservedFacts, TakenFacts DEF Taken, trackVars, Times
<1>2. Due(o)' = start[o] + Delivered(o)' /\ Due(o)' \in Int
      BY <1>1 DEF Due
<1>3. /\ Due(o)' <= Max({Due(o)', syncStart'})
      /\ syncStart' <= Max({Due(o)', syncStart'})
      /\ Max({Due(o)', syncStart'}) \in {Due(o)', syncStart'}
      BY <1>1, <1>2, LaterOfTwo
<1>4. FragmentsOf(o)' # {} => Begins(o)' = {When(Fragments[i])' : i \in FirstOf(o)'}
      BY DEF Begins
<1>5. FragmentsOf(o)' = {} => Begins(o)' = {Due(o)', Max({Due(o)', syncStart'})}
  <2>1. FragmentsOf(o)' = {} => FirstOf(o)' = {}
        BY DEF FirstOf
  <2>2. QED
        BY <2>1 DEF Begins
<1>6. QED
      BY <1>1, <1>2, <1>3, <1>4, <1>5

(* Once the common start is known, when a track begins is settled: within  *)
(* what it could be before.                                                *)
LEMMA BeginIsSettled ==
    ASSUME TimeTypes, TimeInv, NEW t \in Tracks, Taken(t), syncStart # None,
           NEW o \in Tracks, ~overtaken[o], NEW x \in Begins(o)'
    PROVE  /\ x \in Int
           /\ \E hi \in Begins(o) : x <= hi
           /\ \E lo \in Begins(o) : lo <= x
<1>1. /\ syncStart' = syncStart /\ syncStart \in Int /\ syncStart' # None
      /\ start' = start /\ start[o] \in Int /\ Delivered(o) \in Int
      BY ObserveTimes, ObservedFacts DEF trackVars, TimeTypes, Times, Taken
<1>2. SUFFICES ASSUME ~(x \in Begins(o))
               PROVE  /\ x \in Int
                      /\ \E hi \in Begins(o) : x <= hi
                      /\ \E lo \in Begins(o) : lo <= x
  <2>1. Begins(o) \subseteq Int
        BY BeginsFacts
  <2>2. x \in Begins(o) => x \in Int /\ x <= x
        BY <2>1
  <2>3. QED
        BY <2>2
<1>3. \A i \in FragmentsOf(o) : When(Fragments[i])' = When(Fragments[i])
      BY <1>1, OldOrNew DEF When
<1>4. FragmentsOf(o) = {}
  <2>1. SUFFICES ASSUME FragmentsOf(o) # {} PROVE FALSE
        OBVIOUS
  <2>2. FragmentsOf(o)' # {} /\ FirstOf(o)' = FirstOf(o)
        BY <2>1, OldOrNew
  <2>3. Begins(o) = {When(Fragments[i]) : i \in FirstOf(o)}
        BY <2>1, BeginsFacts
  <2>4. Begins(o)' = {When(Fragments[i])' : i \in FirstOf(o)}
        BY <1>1, <2>2, BeginsNext
  <2>5. FirstOf(o) \subseteq FragmentsOf(o)
        BY DEF FirstOf
  <2>6. QED
        BY <1>2, <1>3, <2>3, <2>4, <2>5
<1>5. /\ Begins(o) = {Due(o), Max({Due(o), syncStart})}
      /\ Due(o) = start[o] + Delivered(o) /\ Due(o) \in Int
      /\ syncStart <= Max({Due(o), syncStart}) /\ Due(o) <= Max({Due(o), syncStart})
      /\ Max({Due(o), syncStart}) \in {Due(o), syncStart}
      BY <1>4, BeginsFacts
<1>6. o = t
  <2>1. SUFFICES ASSUME o # t PROVE FALSE
        OBVIOUS
  <2>2. FragmentsOf(o)' = {} /\ Delivered(o)' = Delivered(o)
        BY <1>4, <2>1, OldOrNew, TakenFacts
  <2>3. Due(o)' = Due(o)
        BY <1>1, <2>2 DEF Due
  <2>4. Begins(o)' = {Due(o), Max({Due(o), syncStart})}
        BY <1>1, <2>2, <2>3, BeginsNext
  <2>5. QED
        BY <1>2, <1>5, <2>4
<1>7. /\ inHand.n = Delivered(t) + 1
      /\ inHand.dts # None => inHand.dts = Due(t)
      /\ Delivered(t)' = Delivered(t) + 1 /\ InHandOf(t)
      BY <1>1, <1>5, <1>6, ObservedFacts, TakenFacts DEF Taken, OwnTime
<1>8. CASE TooEarly
  <2>1. Due(t) < syncStart
        BY <1>1, <1>7, <1>8 DEF TooEarly
  <2>2. FragmentsOf(t)' = {}
        BY <1>4, <1>6, <1>8, OldOrNew
  <2>3. Due(t)' = Due(t) + 1
        BY <1>1, <1>5, <1>6, <1>7 DEF Due
  <2>4. x \in {Due(t)', syncStart}
        BY <1>1, <1>6, <2>2, BeginsNext
  <2>5. QED
        BY <1>1, <1>5, <1>6, <2>1, <2>3, <2>4
<1>9. CASE ~TooEarly
  <2>1. PICK i \in FragmentsOf(t)' :
           /\ Fragments'[i].n = inHand.n /\ Fragments'[i].track = t
           /\ FirstOf(t)' = {i}
        BY <1>4, <1>6, <1>9, OldOrNew
  <2>2. When(Fragments[i])' = Due(t)
        BY <1>1, <1>5, <1>6, <1>7, <2>1 DEF When
  <2>3. Begins(t)' = {When(Fragments[j])' : j \in FirstOf(t)'}
        BY <1>1, <2>1, BeginsNext
  <2>4. x = Due(t)
        BY <1>6, <2>1, <2>2, <2>3
  <2>5. QED
        BY <1>2, <1>5, <1>6, <2>4
<1>10. QED
       BY <1>8, <1>9

(* When it becomes known and nothing was written before, a track begins    *)
(* with what is due of it, with the sample in hand or at the common start. *)
LEMMA BeginIsFound ==
    ASSUME TimeTypes, TimeInv, NEW t \in Tracks, Taken(t), StartFound, Fragments = <<>>,
           NEW o \in Tracks, ~overtaken[o], NEW x \in Begins(o)'
    PROVE  /\ x \in Int
           /\ x = syncStart' \/ x <= start[o] + fed[o]
           /\ o # t => start[o] + fed[o] - 1 <= x
           /\ start[o] + fed[o] - HeldBack(o) - 1 <= x
<1>1. /\ syncStart' \in Int /\ syncStart' # None /\ start' = start
      /\ start[o] \in Int /\ fed[o] \in Int /\ HeldBack(o) \in {0, 1}
      BY ObservedFacts DEF trackVars, Times, HeldBack, StartFound, Taken
<1>2. /\ Delivered(o)' = fed[o] - HeldBack(o)
      /\ Due(o)' = start[o] + fed[o] - HeldBack(o) /\ Due(o)' \in Int
  <2>1. Delivered(o)' = fed[o] - HeldBack(o) /\ Due(o)' = start[o] + Delivered(o)' /\ Due(o)' \in Int
        BY <1>1, TakenFacts, BeginsNext
  <2>2. QED
        BY <1>1, <2>1
<1>3. FragmentsOf(o) = {}
      BY DEF FragmentsOf
<1>4. CASE FragmentsOf(o)' = {}
  <2>1. x \in {Due(o)', Max({Due(o)', syncStart'})}
        BY <1>1, <1>4, BeginsNext
  <2>2. x \in {Due(o)', syncStart'} /\ Due(o)' <= x
        BY <1>1, <1>2, <1>4, <2>1, BeginsNext
  <2>3. QED
        BY <1>1, <1>2, <2>2
<1>5. CASE FragmentsOf(o)' # {}
  <2>1. o = t /\ ~TooEarly
        BY <1>3, <1>5, OldOrNew
  <2>2. PICK i \in FragmentsOf(t)' :
           /\ Fragments'[i].n = inHand.n /\ Fragments'[i].track = t
           /\ FirstOf(t)' = {i}
        BY <1>3, <2>1, OldOrNew
  <2>3. Begins(t)' = {When(Fragments[j])' : j \in FirstOf(t)'}
        BY <1>1, <2>2, BeginsNext
  <2>4. When(Fragments[i])' = start[t] + inHand.n - 1
        BY <1>1, <2>2 DEF When
  <2>5. inHand.n = Delivered(t) + 1 /\ Delivered(t)' = Delivered(t) + 1 /\ Delivered(t) \in Int
        BY <2>1, ObservedFacts, TakenFacts DEF Taken
  <2>6. x = start[t] + fed[t] - HeldBack(t) - 1
    <3>1. x = start[t] + inHand.n - 1
          BY <2>1, <2>2, <2>3, <2>4
    <3>2. inHand.n = fed[t] - HeldBack(t)
          BY <1>2, <2>1, <2>5
    <3>3. QED
          BY <1>1, <2>1, <3>1, <3>2
  <2>7. QED
        BY <1>1, <2>1, <2>6
<1>6. QED
      BY <1>4, <1>5

(* So the tracks begin together.                                           *)
LEMMA WriteBeginsTogether ==
    ASSUME TimeTypes, TimeInv, NEW t \in Tracks, Taken(t)
    PROVE  BeginTogether'
<1>1. overtaken' = overtaken /\ added' = added /\ late' = late
      BY ObservedFacts DEF trackVars, Taken
<1>2. SUFFICES ASSUME syncStart' # None, NEW o \in Tracks, NEW u \in Tracks, o # u,
                      Punctual(o), Punctual(u),
                      NEW b \in Begins(o)', NEW c \in Begins(u)'
               PROVE  b <= c + Skew + 2
      BY <1>1 DEF BeginTogether, Punctual
<1>3. ~overtaken[o] /\ ~overtaken[u]
      BY <1>2 DEF Punctual
<1>4. CASE syncStart # None
  <2>1. b \in Int /\ c \in Int
        BY <1>2, <1>3, <1>4, BeginIsSettled
  <2>2. PICK hi \in Begins(o) : b <= hi
        BY <1>2, <1>3, <1>4, BeginIsSettled
  <2>3. PICK lo \in Begins(u) : lo <= c
        BY <1>2, <1>3, <1>4, BeginIsSettled
  <2>4. hi <= lo + Skew + 2
        BY <1>2, <1>4 DEF TimeInv, BeginTogether
  <2>5. hi \in Int /\ lo \in Int
        BY <1>4, BeginsFacts
  <2>6. QED
        BY <2>1, <2>2, <2>3, <2>4, <2>5
<1>5. CASE StartFound
  <2>1. Fragments = <<>>
        BY <1>2, <1>5 DEF TimeInv, StartKnown, StartFound, Punctual
  <2>2. b \in Int /\ (b = syncStart' \/ b <= start[o] + fed[o])
        BY <1>2, <1>3, <1>5, <2>1, BeginIsFound
  <2>3. /\ c \in Int
        /\ u # t => start[u] + fed[u] - 1 <= c
        /\ start[u] + fed[u] - HeldBack(u) - 1 <= c
        BY <1>2, <1>3, <1>5, <2>1, BeginIsFound
  <2>4. /\ start[o] + fed[o] <= start[u] + fed[u] + Skew + 1
        /\ u = t => start[o] + fed[o] <= start[u] + fed[u] - HeldBack(u) + Skew + 1
        BY <1>2, ObservedFacts DEF TimeInv, FedTogether, Taken
  <2>5. /\ start[o] \in Int /\ fed[o] \in Int /\ start[u] \in Int /\ fed[u] \in Int
        /\ HeldBack(u) \in {0, 1} /\ syncStart' \in Int
        BY <1>5, ObservedFacts DEF HeldBack, Times, StartFound, Taken
  <2>6. CASE b = syncStart'
    <3>1. PICK v \in added : firstDts'[v] = syncStart'
          BY <1>5 DEF StartFound
    <3>2. v \in Tracks
          BY DEF TimeTypes, FragmentsInv, EntryTypes
    <3>3. SampleCounted(v)' /\ firstDts'[v] # None
          BY <1>2, <3>1, <3>2, WriteKeepsCounts
    <3>4. syncStart' <= start[v] + fed[v] - 1
          BY <3>1, <3>3, ObservedFacts DEF SampleCounted, OwnTime, Taken, trackVars
    <3>5. start[v] + fed[v] <= start[u] + fed[u] + Skew + 1
          BY <3>2 DEF TimeInv, FedTogether
    <3>6. start[v] \in Int /\ fed[v] \in Int
          BY <3>2, ObservedFacts DEF Taken
    <3>7. QED
          BY <2>3, <2>5, <2>6, <3>4, <3>5, <3>6
  <2>7. CASE b <= start[o] + fed[o]
        BY <2>2, <2>3, <2>4, <2>5, <2>7
  <2>8. QED
        BY <2>2, <2>6, <2>7
<1>6. QED
      BY <1>2, <1>4, <1>5, ObserveTimes DEF Taken

-----------------------------------------------------------------------------
(* A muxer that has just been made has seen no time.                       *)
LEMMA TimesInitially == Mp4Init => TimeTypes /\ TimeInv
<1> SUFFICES ASSUME Mp4Init PROVE TimeTypes /\ TimeInv
    OBVIOUS
<1>1. TimeTypes
  <2>1. FragmentsInv
        BY EntryInitially DEF FragmentsInv, Mp4Init
  <2>2. start \in [Tracks -> 0 .. Skew] /\ fed \in [Tracks -> 0 .. MaxUnits]
        BY DEF Mp4Init
  <2>3. ended \in BOOLEAN /\ failed \in BOOLEAN /\ late \in SUBSET Tracks
        BY DEF Mp4Init
  <2>4. firstDts \in [Tracks -> Times \cup {None}] /\ syncStart \in Times \cup {None}
        BY DEF Mp4Init
  <2>5. QED
        BY <2>1, <2>2, <2>3, <2>4 DEF TimeTypes
<1>2. Fragments = <<>>
      BY DEF Mp4Init, Fragments
<1>3. \A t \in Tracks : FragmentsOf(t) = {}
      BY <1>2 DEF FragmentsOf
<1>4. \A t \in Tracks : ~InHandOf(t)
      BY DEF Mp4Init, InHandOf
<1>5. \A t \in Tracks : UnitsCounted(t) /\ SampleCounted(t) /\ GoesOn(t)
      BY <1>3, <1>4 DEF Mp4Init, UnitsCounted, SampleCounted, GoesOn
<1>6. FedTogether
      BY <1>4 DEF Mp4Init, FedTogether
<1>7. StartKnown /\ BeginTogether
      BY <1>2 DEF Mp4Init, StartKnown, BeginTogether
<1>8. NothingLost
      BY <1>3 DEF NothingLost
<1>9. QED
      BY <1>1, <1>5, <1>6, <1>7, <1>8 DEF TimeInv

(* The types of what the tracks and the muxer have.                        *)
LEMMA MuxerKeepsTypes ==
    ASSUME TimeTypes, TimeInv, NEW t \in Tracks, MuxerStep(t)
    PROVE  TimeTypes'
<1>1. CASE Receive(t)
  <2>1. EntryTypes'
        BY <1>1, ReceiveTypes DEF TimeTypes, FragmentsInv
  <2>2. /\ UNCHANGED <<start, ended, late, firstDts, syncStart, failed, written, pending>>
        /\ fed' = [fed EXCEPT ![t] = fed[t] + 1] /\ fed[t] < MaxUnits
        BY <1>1 DEF Receive, stateVars
  <2>3. fed' \in [Tracks -> 0 .. MaxUnits]
        BY <2>2 DEF TimeTypes
  <2>4. QED
        BY <2>1, <2>2, <2>3 DEF TimeTypes, FragmentsInv
<1>2. CASE FlushTrack(t)
  <2>1. EntryTypes'
        BY <1>2, FlushTypes DEF TimeTypes, FragmentsInv
  <2>2. UNCHANGED <<start, fed, ended, late, firstDts, syncStart, failed, written, pending>>
        BY <1>2 DEF FlushTrack, stateVars
  <2>3. QED
        BY <2>1, <2>2 DEF TimeTypes, FragmentsInv
<1>3. CASE AddTrack(t)
  <2>1. /\ UNCHANGED <<kind, start, fed, configured, overtaken, held, nextDts, ended, inHand>>
        /\ UNCHANGED <<firstDts, entry, ready, syncStart, failed, written, pending>>
        /\ added' = added \cup {t} /\ late' \in {late, late \cup {t}}
        BY <1>3 DEF AddTrack, stateVars
  <2>2. EntryTypes'
        BY <2>1 DEF TimeTypes, FragmentsInv, EntryTypes
  <2>3. late' \in SUBSET Tracks
        BY <2>1 DEF TimeTypes
  <2>4. QED
        BY <2>1, <2>2, <2>3 DEF TimeTypes, FragmentsInv
<1>4. CASE WriteSample(t)
  <2>1. FragmentsInv'
        BY <1>4, WriteFragments DEF TimeTypes
  <2>2. UNCHANGED <<start, fed, ended, late>>
        BY <1>4 DEF WriteSample, trackVars
  <2>3. firstDts' \in [Tracks -> Times \cup {None}] /\ syncStart' \in Times \cup {None}
        BY <1>4, ObserveTimes
  <2>4. failed' \in BOOLEAN
        BY <1>4 DEF WriteSample, DropSample, RefuseSample, HoldFragment, OpenStream,
                    WriteFragment, AcceptSample, TimeTypes
  <2>5. QED
        BY <2>1, <2>2, <2>3, <2>4 DEF TimeTypes
<1>5. QED
      BY <1>1, <1>2, <1>3, <1>4 DEF MuxerStep

(* What a sample is dropped, refused or written for keeps the times.       *)
LEMMA WriteKeepsTimes ==
    ASSUME TimeTypes, TimeInv, EntryInv, NEW t \in Tracks, WriteSample(t)
    PROVE  TimeInv'
<1>1. CASE Taken(t)
      BY <1>1, WriteKeepsCounts, WriteLosesNothing, WriteGoesOn, WriteBeginsTogether DEF TimeInv
<1>2. CASE RefuseSample(t)
      BY <1>2, RefusedKeepsTimes
<1>3. QED
      BY <1>1, <1>2, DropOrWrite

(* The end of the input, and what the viewers do, change no time.          *)
LEMMA TimesAlone ==
    ASSUME TimeTypes, TimeInv,
           UNCHANGED <<kind, start, added, fed, configured, held, overtaken, nextDts, late,
                       inHand, stateVars>>,
           ended' \in BOOLEAN
    PROVE  TimeTypes' /\ TimeInv'
<1>1. UNCHANGED <<firstDts, entry, ready, syncStart, pending, written, failed>>
      BY DEF stateVars
<1>2. TimeTypes'
  <2>1. EntryTypes'
        BY <1>1 DEF TimeTypes, FragmentsInv, EntryTypes
  <2>2. FragmentsInv'
        BY <1>1, <2>1 DEF TimeTypes, FragmentsInv
  <2>3. QED
        BY <1>1, <2>2 DEF TimeTypes
<1>3. /\ \A o \in Tracks : UnitsCounted(o)' /\ SampleCounted(o)'
      /\ \A o \in Tracks : Delivered(o)' = Delivered(o)
      /\ FedTogether'
      BY <1>1, CountsAlone
<1>4. added \subseteq Tracks
      BY DEF TimeTypes, FragmentsInv, EntryTypes
<1>5. (\A o \in Tracks : GoesOn(o)') /\ NothingLost' /\ BeginTogether'
      BY <1>1, <1>3, <1>4, FragmentsAlone
<1>6. StartKnown'
      BY <1>1 DEF TimeInv, StartKnown, Fragments
<1>7. QED
      BY <1>2, <1>3, <1>5, <1>6 DEF TimeInv

(* The times of the muxer, in every state.                                 *)
LEMMA TimesKept == Spec => [](TimeTypes /\ TimeInv)
<1> DEFINE Inv == TimeTypes /\ TimeInv
<1>1. Init => Inv
      BY TimesInitially DEF Init
<1>2. Inv /\ EntryInv /\ [Next]_vars => Inv'
  <2>1. SUFFICES ASSUME Inv, EntryInv, [Next]_vars PROVE Inv'
        OBVIOUS
  <2>2. ASSUME NEW t \in Tracks, MuxerStep(t) PROVE Inv'
        BY <2>1, <2>2, MuxerKeepsTypes, TrackKeepsTimes, AddKeepsTimes, WriteKeepsTimes
           DEF MuxerStep
  <2>3. CASE UNCHANGED mp4Vars
        BY <2>1, <2>3, TimesAlone DEF mp4Vars, trackVars, TimeTypes
  <2>4. CASE EndInput
        BY <2>1, <2>4, TimesAlone DEF EndInput
  <2>5. QED
        BY <2>1, <2>2, <2>3, <2>4 DEF Next, vars
<1>3. Spec => []EntryInv
      BY EntriesKept, PTL
<1> HIDE DEF Inv
<1>4. Spec => []Inv
      BY <1>1, <1>2, <1>3, PTL DEF Spec
<1>5. QED
      BY <1>4, PTL DEF Inv

(* From its first fragment on a track loses, repeats and reorders nothing  *)
(* (mp4.rs:652-736, and the tracks at 120-193 and 227-507), for every set  *)
(* of tracks, whenever they are added, and every multiplex and end of the  *)
(* input; but for what slipped through without a time.                     *)
THEOREM NothingLostHolds == Spec => []NothingLost
<1>1. TimeTypes /\ TimeInv => NothingLost
      BY DEF TimeInv
<1>2. QED
      BY <1>1, TimesKept, PTL

(* The tracks begin together (mp4.rs:57-68 and 666-688), as close as they  *)
(* are multiplexed and two units more.                                     *)
THEOREM StartTogetherHolds == Spec => []StartTogether
<1>1. TimeTypes /\ TimeInv => StartTogether
  <2>1. SUFFICES ASSUME TimeTypes, TimeInv, NEW t \in Tracks, NEW u \in Tracks,
                        Punctual(t), Punctual(u),
                        NEW i \in FirstOf(t), NEW j \in FirstOf(u)
                 PROVE  When(Fragments[i]) <= When(Fragments[j]) + Skew + 2
        BY DEF StartTogether
  <2>2. i \in FragmentsOf(t) /\ j \in FragmentsOf(u)
        BY DEF FirstOf
  <2>3. Fragments \in Seq(AnySamples) /\ i \in DOMAIN Fragments /\ j \in DOMAIN Fragments
        BY <2>1, <2>2 DEF TimeTypes, FragmentsInv, EntryTypes, Fragments, FragmentsOf
  <2>4. CASE t = u
    <3>1. i \in Nat /\ j \in Nat /\ i <= j /\ j <= i
          BY <2>3, <2>4 DEF FirstOf
    <3>2. i = j
          BY <3>1
    <3>3. When(Fragments[i]) \in Int
          BY <2>1, <2>2, WhenOf
    <3>4. QED
          BY <3>2, <3>3
  <2>5. CASE t # u
    <3>1. Fragments # <<>>
          BY <2>3
    <3>2. syncStart # None
          BY <2>1, <2>5, <3>1 DEF TimeInv, StartKnown, Punctual
    <3>3. When(Fragments[i]) \in Begins(t) /\ When(Fragments[j]) \in Begins(u)
          BY DEF Begins
    <3>4. QED
          BY <2>1, <2>5, <3>2, <3>3 DEF TimeInv, BeginTogether
  <2>6. QED
        BY <2>4, <2>5
<1>2. QED
      BY <1>1, TimesKept, PTL
-----------------------------------------------------------------------------
\* What is held back and written is of units that were received.
SamplesWritten ==
    /\ pending \in Seq(Samples)
    /\ written \in Seq(Samples \cup InitSegments)

(* The types of the tracks, the times they have being their own.           *)
LEMMA TracksTyped ==
    ASSUME TimeTypes, TimeInv
    PROVE  /\ held \in [Tracks -> Units \cup {None}]
           /\ nextDts \in [Tracks -> Times \cup {None}]
           /\ inHand \in Samples \cup {None}
<1>1. \A t \in Tracks : start[t] \in 0 .. Skew /\ fed[t] \in 0 .. MaxUnits
      BY DEF TimeTypes
<1>2. ASSUME NEW t \in Tracks, NEW n \in 1 .. fed[t]
      PROVE  n \in 1 .. MaxUnits /\ OwnTime(t, n) \in Times
  <2>1. start[t] \in 0 .. Skew /\ fed[t] \in 0 .. MaxUnits
        BY <1>1
  <2>2. QED
        BY <1>2, <2>1 DEF OwnTime, Times
<1>3. ASSUME NEW t \in Tracks, held[t] # None PROVE held[t] \in Units
  <2>1. held[t] \in AnyUnits
        BY <1>3 DEF TimeTypes, FragmentsInv, EntryTypes
  <2>2. held[t].n \in 1 .. fed[t] /\ held[t].dts \in {OwnTime(t, held[t].n), None}
        BY <1>3 DEF TimeInv, UnitsCounted
  <2>3. held[t].n \in 1 .. MaxUnits /\ held[t].dts \in Times \cup {None}
        BY <1>2, <2>2
  <2>4. QED
        BY <2>1, <2>3 DEF AnyUnits, Units
<1>4. ASSUME NEW t \in Tracks PROVE nextDts[t] \in Times \cup {None}
  <2>1. nextDts[t] \in {start[t] + fed[t] - HeldBack(t), None}
        BY DEF TimeInv, UnitsCounted
  <2>2. held[t] # None => 1 <= fed[t]
    <3>1. held[t] # None => held[t].n \in 1 .. fed[t]
          BY DEF TimeInv, UnitsCounted
    <3>2. QED
          BY <1>1, <3>1
  <2>3. start[t] + fed[t] - HeldBack(t) \in Times
        BY <1>1, <2>2 DEF HeldBack, Times
  <2>4. QED
        BY <2>1, <2>3
<1>5. ASSUME inHand # None PROVE inHand \in Samples
  <2>1. inHand \in AnySamples /\ inHand.track \in Tracks
        BY <1>5 DEF TimeTypes, FragmentsInv, EntryTypes, AnySamples
  <2>2. inHand.n \in 1 .. fed[inHand.track] /\ inHand.dts \in {OwnTime(inHand.track, inHand.n), None}
        BY <1>5, <2>1 DEF TimeInv, SampleCounted, InHandOf
  <2>3. inHand.n \in 1 .. MaxUnits /\ inHand.dts \in Times \cup {None}
        BY <1>2, <2>1, <2>2
  <2>4. QED
        BY <2>1, <2>3 DEF AnySamples, Samples
<1>6. QED
      BY <1>3, <1>4, <1>5 DEF TimeTypes, FragmentsInv, EntryTypes

(* Of fragments there is an init segment.                                  *)
LEMMA InitOfFragments ==
    ASSUME TimeTypes, NEW fragments \in Seq(Samples)
    PROVE  InitSegment(fragments) \in InitSegments
<1>1. \A i \in DOMAIN fragments : fragments[i].track \in Tracks
  <2>1. \A i \in DOMAIN fragments : fragments[i] \in Samples
        OBVIOUS
  <2>2. QED
        BY <2>1 DEF Samples
<1>2. {fragments[i].track : i \in {j \in DOMAIN fragments : fragments[j].head}} \subseteq Tracks
      BY <1>1
<1>3. added \in SUBSET Tracks
      BY DEF TimeTypes, FragmentsInv, EntryTypes
<1>4. QED
      BY <1>2, <1>3 DEF InitSegment, InitSegments

(* A fragment is the sample it was made of.                                *)
LEMMA WriteKeepsSamples ==
    ASSUME TimeTypes, TimeInv, SamplesWritten, NEW t \in Tracks, WriteSample(t)
    PROVE  SamplesWritten'
<1> DEFINE f == Fragment(t)
<1>1. f \in Samples
  <2>1. inHand \in Samples
        BY TracksTyped DEF WriteSample
  <2>2. f = [inHand EXCEPT !.head = inHand.head \/ (~ready[t] /\ entry'[t])]
        BY DEF Fragment
  <2>3. f \in AnySamples
        BY FragmentTypes DEF TimeTypes, FragmentsInv
  <2>4. f.track = inHand.track /\ f.n = inHand.n /\ f.dts = inHand.dts
        BY <2>1, <2>2 DEF Samples
  <2>5. f.track \in Tracks /\ f.n \in 1 .. MaxUnits /\ f.dts \in Times \cup {None}
        BY <2>1, <2>4 DEF Samples
  <2> HIDE DEF f
  <2>6. QED
        BY <2>3, <2>5 DEF AnySamples, Samples
<1>2. pending \in Seq(Samples) /\ written \in Seq(Samples \cup InitSegments)
      BY DEF SamplesWritten
<1> DEFINE fragments == Append(pending, f)
           opening == InitSegment(fragments)
<1>3. fragments \in Seq(Samples) /\ opening \in InitSegments
  <2> HIDE DEF f
  <2>1. fragments \in Seq(Samples)
        BY <1>1, <1>2
  <2> HIDE DEF fragments
  <2>2. QED
        BY <2>1, InitOfFragments
<1>4. \/ pending' = pending /\ written' = written
      \/ pending' = fragments /\ written' = written
      \/ pending' = <<>> /\ written' = <<opening>> \o fragments
      \/ pending' = pending /\ written' = Append(written, f)
      BY DEF WriteSample, DropSample, RefuseSample, HoldFragment, OpenStream, WriteFragment
<1> HIDE DEF f, fragments, opening
<1>5. pending' \in Seq(Samples)
  <2>1. pending' = pending \/ pending' = fragments \/ pending' = <<>>
        BY <1>4
  <2>2. <<>> \in Seq(Samples)
        OBVIOUS
  <2>3. QED
        BY <1>2, <1>3, <2>1, <2>2
<1>6. written' \in Seq(Samples \cup InitSegments)
  <2>1. <<opening>> \o fragments \in Seq(Samples \cup InitSegments)
    <3>1. fragments \in Seq(Samples \cup InitSegments)
          BY <1>3
    <3>2. <<opening>> \in Seq(Samples \cup InitSegments)
          BY <1>3
    <3>3. QED
          BY <3>1, <3>2
  <2>2. Append(written, f) \in Seq(Samples \cup InitSegments)
        BY <1>1, <1>2
  <2>3. QED
        BY <1>2, <1>4, <2>1, <2>2
<1>7. QED
      BY <1>5, <1>6 DEF SamplesWritten

(* Every variable of the remuxer and its viewers keeps its type (mp4.rs    *)
(* and stream.rs), the times what the tracks and their units allow.        *)
THEOREM LiveTypeOK == Spec => []TypeOK
<1> DEFINE Inv == TimeTypes /\ TimeInv
<1>1. Init => SamplesWritten
      BY DEF Init, Mp4Init, SamplesWritten
<1>2. Inv /\ SamplesWritten /\ [Next]_vars => SamplesWritten'
  <2>1. SUFFICES ASSUME Inv, SamplesWritten, [Next]_vars PROVE SamplesWritten'
        OBVIOUS
  <2>2. CASE UNCHANGED <<pending, written>>
        BY <2>1, <2>2 DEF SamplesWritten
  <2>3. ASSUME NEW t \in Tracks, MuxerStep(t) PROVE SamplesWritten'
    <3>1. CASE WriteSample(t)
          BY <2>1, <3>1, WriteKeepsSamples
    <3>2. CASE AddTrack(t) \/ Receive(t) \/ FlushTrack(t)
          BY <2>2, <3>2 DEF AddTrack, Receive, FlushTrack, stateVars
    <3>3. QED
          BY <2>3, <3>1, <3>2 DEF MuxerStep
  <2>4. CASE UNCHANGED mp4Vars
        BY <2>2, <2>4 DEF mp4Vars, stateVars
  <2>5. CASE EndInput
        BY <2>2, <2>5 DEF EndInput, stateVars
  <2>6. QED
        BY <2>1, <2>3, <2>4, <2>5 DEF Next, vars
<1>3. Inv /\ SamplesWritten => Mp4TypeOK
  <2>1. SUFFICES ASSUME Inv, SamplesWritten PROVE Mp4TypeOK
        OBVIOUS
  <2>2. EntryTypes
        BY <2>1 DEF TimeTypes, FragmentsInv
  <2>3. /\ kind \in Kinds /\ configured \in [Tracks -> BOOLEAN]
        /\ entry \in [Tracks -> BOOLEAN] /\ ready \in [Tracks -> BOOLEAN]
        /\ added \in SUBSET Tracks /\ overtaken \in [Tracks -> BOOLEAN]
        BY <2>2 DEF EntryTypes
  <2>4. QED
        BY <2>1, <2>3, TracksTyped DEF TimeTypes, SamplesWritten, Mp4TypeOK
<1>4. FanInv => FanTypeOK
      BY DEF FanInv
<1>5. Spec => []Inv
      BY TimesKept
<1> HIDE DEF Inv
<1>6. Spec => []SamplesWritten
      BY <1>1, <1>2, <1>5, PTL DEF Spec
<1>7. Mp4TypeOK /\ FanTypeOK => TypeOK
      BY DEF TypeOK
<1>8. QED
      BY <1>3, <1>4, <1>5, <1>6, <1>7, FanKept, PTL
=============================================================================
