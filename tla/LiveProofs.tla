----------------------------- MODULE LiveProofs -----------------------------
(***************************************************************************)
(* What a viewer gets, for every number of viewers, every capacity of the  *)
(* channel and every muxer: FanInv is inductive, whatever the muxer does.  *)
(* Then what the muxer writes: EntryInv follows the sample entries of the  *)
(* tracks, FragmentsInv what is held back until the tracks are known.      *)
(***************************************************************************)
EXTENDS Live, TLAPS

USE FanoutAssumption DEF FanoutAssumption

(* A stream that has just begun has sent nothing to nobody.                *)
LEMMA FanInitially == FanInit => FanInv
BY DEF FanInit, FanInv, FanTypeOK, ViewerInv, Clean, NoChunk

(* The muxer and the session's other work leave the viewers alone.         *)
LEMMA FanStutters == FanInv /\ UNCHANGED fanVars => FanInv'
BY DEF FanInv, FanTypeOK, ViewerInv, Clean, Oldest, fanVars

(* The writer takes the mutex only when nobody is subscribing.             *)
LEMMA LockToWriteKeeps == FanInv /\ LockToWrite => FanInv'
BY DEF FanInv, FanTypeOK, ViewerInv, Clean, LockToWrite

(* The init segment is kept while the writer has the mutex.                *)
LEMMA KeepInitKeeps == FanInv /\ KeepInit => FanInv'
BY DEF FanInv, FanTypeOK, ViewerInv, Clean, KeepInit, NoChunk

(* A chunk is sent while nobody is subscribing.                            *)
LEMMA SendChunkKeeps == FanInv /\ SendChunk => FanInv'
BY DEF FanInv, FanTypeOK, ViewerInv, Clean, SendChunk, NoChunk

(* A viewer that waits for the mutex, has it, or leaves has got nothing.   *)
LEMMA JoiningKeeps ==
    ASSUME FanInv, NEW c \in Viewers,
           LockToSubscribe(c) \/ CreateReceiver(c) \/ Leave(c)
    PROVE  FanInv'
<1>1. CASE LockToSubscribe(c)
      BY <1>1 DEF FanInv, FanTypeOK, ViewerInv, Clean, LockToSubscribe
<1>2. CASE CreateReceiver(c)
      BY <1>2 DEF FanInv, FanTypeOK, ViewerInv, Clean, CreateReceiver
<1>3. CASE Leave(c)
      BY <1>3 DEF FanInv, FanTypeOK, ViewerInv, Clean, Leave
<1>4. QED
      BY <1>1, <1>2, <1>3

(* The copy is of the init segment that the chunks to come belong to.      *)
LEMMA CopyInitKeeps == ASSUME FanInv, NEW c \in Viewers, CopyInit(c) PROVE FanInv'
BY DEF FanInv, FanTypeOK, ViewerInv, Clean, CopyInit, NoChunk

(* The next chunk follows the last one, or the lag before it.              *)
LEMMA DeliverKeeps == ASSUME FanInv, NEW c \in Viewers, Deliver(c) PROVE FanInv'
<1> DEFINE g == Append(got[c], next[c])
<1>1. /\ at[c] = "watching" /\ next[c] <= sent /\ lock # c
      /\ got' = [got EXCEPT ![c] = g] /\ next' = [next EXCEPT ![c] = next[c] + 1]
      /\ UNCHANGED <<sent, initSegment, lock, at>>
      BY DEF FanInv, ViewerInv, Deliver
<1>2. /\ FanTypeOK /\ got[c] \in Seq(Nat) /\ next[c] \in Nat \ {0}
      /\ Clean(got[c]) /\ (got[c] = <<>> <=> next[c] = 1)
      /\ Len(got[c]) > 1 => got[c][Len(got[c])] \in {Lagged, next[c] - 1}
      BY <1>1 DEF FanInv, FanTypeOK, ViewerInv
<1>3. PICK s \in Seq(Nat), n \in Nat \ {0}, l \in Nat :
         s = got[c] /\ n = next[c] /\ l = Len(s)
      BY <1>2
<1>4. /\ g \in Seq(Nat) /\ Len(g) = l + 1 /\ g[l + 1] = n
      /\ \A i \in 1 .. l : g[i] = s[i]
      BY <1>3
<1> HIDE DEF g
<1>5. Clean(g)
  <2>1. g[1] \in {1, Lagged}
    <3>1. CASE l = 0
      <4>1. Len(s) = 0
            BY <1>3, <3>1
      <4>2. s = <<>>
            BY <4>1
      <4>3. n = 1
            BY <1>2, <1>3, <4>2
      <4>4. QED
            BY <1>4, <3>1, <4>3
    <3>2. CASE l # 0
      <4>1. s[1] \in {1, Lagged} /\ g[1] = s[1]
            BY <1>2, <1>3, <1>4, <3>2 DEF Clean
      <4>2. QED
            BY <4>1
    <3>3. QED
          BY <3>1, <3>2
  <2>2. ASSUME NEW i \in 2 .. l + 1
        PROVE  /\ g[i] # 1
               /\ i < l + 1 /\ g[i] # Lagged /\ g[i + 1] # Lagged => g[i + 1] = g[i] + 1
    <3>1. CASE i = l + 1
      <4>1. s # <<>> /\ n # 1
            BY <1>2, <1>3, <3>1
      <4>2. QED
            BY <1>4, <3>1, <4>1
    <3>2. CASE i = l
      <4>1. s[l] # 1 /\ s[l] \in {Lagged, n - 1}
            BY <1>2, <1>3, <3>2 DEF Clean
      <4>2. g[i] = s[l] /\ g[i + 1] = n
            BY <1>4, <3>2
      <4>3. QED
            BY <4>1, <4>2
    <3>3. CASE i < l
      <4>1. i \in 2 .. l /\ i \in 1 .. l /\ i + 1 \in 1 .. l
            BY <3>3
      <4>2. s[i] # 1 /\ (s[i] # Lagged /\ s[i + 1] # Lagged => s[i + 1] = s[i] + 1)
            BY <1>2, <1>3, <3>3, <4>1 DEF Clean
      <4>3. g[i] = s[i] /\ g[i + 1] = s[i + 1]
            BY <1>4, <4>1
      <4>4. QED
            BY <4>2, <4>3
    <3>4. QED
          BY <3>1, <3>2, <3>3
  <2>3. QED
        BY <1>4, <2>1, <2>2 DEF Clean
<1>6. FanTypeOK'
  <2>1. next[c] + 1 \in Nat
        BY <1>2
  <2>2. QED
        BY <1>1, <1>2, <1>4, <2>1 DEF FanTypeOK
<1>7. ViewerInv(c)'
  <2>1. got'[c] = g /\ next'[c] = n + 1 /\ at'[c] = "watching" /\ lock' # c /\ sent' = sent
        BY <1>1, <1>2, <1>3 DEF FanTypeOK
  <2>2. n + 1 \in 1 .. sent + 1 /\ n + 1 # 1 /\ g # <<>> /\ g[Len(g)] = (n + 1) - 1
        BY <1>1, <1>2, <1>3, <1>4 DEF FanTypeOK
  <2>3. QED
        BY <1>5, <2>1, <2>2 DEF ViewerInv, Clean
<1>8. ASSUME NEW o \in Viewers, o # c PROVE ViewerInv(o)'
  <2>1. got'[o] = got[o] /\ next'[o] = next[o] /\ at'[o] = at[o] /\ lock' = lock /\ sent' = sent
        BY <1>1, <1>2, <1>8 DEF FanTypeOK
  <2>2. ViewerInv(o)
        BY DEF FanInv
  <2>3. QED
        BY <2>1, <2>2 DEF ViewerInv, Clean
<1>9. QED
      BY <1>1, <1>6, <1>7, <1>8 DEF FanInv

(* A viewer that lagged goes on behind the init segment.                   *)
LEMMA LagKeeps == ASSUME FanInv, NEW c \in Viewers, Lag(c) PROVE FanInv'
<1> DEFINE g == IF got[c] = <<>> THEN <<Lagged>> ELSE <<got[c][1], Lagged>>
<1>1. /\ at[c] = "watching" /\ next[c] < Oldest /\ Oldest \in 1 .. sent + 1
      /\ got' = [got EXCEPT ![c] = g] /\ next' = [next EXCEPT ![c] = Oldest]
      /\ UNCHANGED <<sent, initSegment, lock, at>>
      BY DEF FanInv, FanTypeOK, ViewerInv, Lag, Oldest
<1>2. FanTypeOK /\ got[c] \in Seq(Nat) /\ Clean(got[c]) /\ next[c] \in 1 .. sent + 1
      /\ (got[c] = <<>> <=> next[c] = 1)
      /\ lock # c
      BY <1>1 DEF FanInv, FanTypeOK, ViewerInv
<1>3. g \in Seq(Nat) /\ g # <<>> /\ g[Len(g)] = Lagged /\ Clean(g)
  <2>1. CASE got[c] = <<>>
        BY <2>1 DEF Clean, Lagged
  <2>2. CASE got[c] # <<>>
    <3>1. got[c][1] \in Nat /\ got[c][1] \in {1, Lagged}
          BY <1>2, <2>2 DEF Clean
    <3>2. PICK first \in Nat : first = got[c][1]
          BY <3>1
    <3>3. g = <<first, Lagged>>
          BY <2>2, <3>2
    <3>4. first \in {1, Lagged}
          BY <3>1, <3>2
    <3> HIDE DEF g
    <3>5. QED
          BY <3>3, <3>4 DEF Clean, Lagged
  <2>3. QED
        BY <2>1, <2>2
<1> HIDE DEF g
<1>4. FanTypeOK'
      BY <1>1, <1>2, <1>3 DEF FanTypeOK
<1>5. Oldest # 1
      BY <1>1, <1>2 DEF FanTypeOK
<1>6. ViewerInv(c)'
  <2>1. got'[c] = g /\ next'[c] = Oldest /\ at'[c] = "watching" /\ lock' # c /\ sent' = sent
        BY <1>1, <1>2 DEF FanTypeOK
  <2>2. QED
        BY <1>1, <1>3, <1>5, <2>1 DEF ViewerInv, Clean
<1>7. ASSUME NEW o \in Viewers, o # c PROVE ViewerInv(o)'
  <2>1. got'[o] = got[o] /\ next'[o] = next[o] /\ at'[o] = at[o] /\ lock' = lock /\ sent' = sent
        BY <1>1, <1>2, <1>7 DEF FanTypeOK
  <2>2. ViewerInv(o)
        BY DEF FanInv
  <2>3. QED
        BY <2>1, <2>2 DEF ViewerInv, Clean
<1>8. QED
      BY <1>1, <1>4, <1>6, <1>7 DEF FanInv

(* Whatever the remuxer does, and whenever a viewer comes and goes.        *)
LEMMA FanKept == Spec => []FanInv
<1>1. Init => FanInv
      BY FanInitially DEF Init
<1>2. FanInv /\ [Next]_vars => FanInv'
  <2>1. SUFFICES ASSUME FanInv, [Next]_vars PROVE FanInv'
        OBVIOUS
  <2>2. CASE UNCHANGED fanVars
        BY <2>1, <2>2, FanStutters
  <2>3. CASE WriterStep
        BY <2>1, <2>3, LockToWriteKeeps, KeepInitKeeps, SendChunkKeeps DEF WriterStep
  <2>4. ASSUME NEW c \in Viewers, ViewerStep(c) \/ Leave(c) PROVE FanInv'
        BY <2>1, <2>4, JoiningKeeps, CopyInitKeeps, DeliverKeeps, LagKeeps DEF ViewerStep
  <2>5. QED
        BY <2>1, <2>2, <2>3, <2>4 DEF Next, vars
<1>3. QED
      BY <1>1, <1>2, PTL DEF Spec

(* Whatever the moment a viewer joins, it begins with the init segment and *)
(* then gets every chunk in order unless it lags (stream.rs:54-98).        *)
THEOREM BeginsWithInitHolds == Spec => []BeginsWithInit
<1>1. FanInv => BeginsWithInit
      BY DEF FanInv, ViewerInv, BeginsWithInit
<1>2. QED
      BY <1>1, FanKept, PTL

-----------------------------------------------------------------------------
(***************************************************************************)
(* What the muxer writes, for every set of tracks, however they are        *)
(* multiplexed and wherever the tuner begins to receive: EntryInv follows  *)
(* the sample entry of a track through the muxer.                          *)
(***************************************************************************)
USE Mp4Assumption DEF Mp4Assumption

AnyUnits == [n : Int, dts : Int \cup {None}, head : BOOLEAN]
AnySamples == [track : Tracks, n : Int, dts : Int \cup {None}, head : BOOLEAN]

\* The types EntryInv needs.
EntryTypes ==
    /\ kind \in Kinds
    /\ start \in [Tracks -> Int]
    /\ added \in SUBSET Tracks
    /\ fed \in [Tracks -> Int]
    /\ configured \in [Tracks -> BOOLEAN]
    /\ overtaken \in [Tracks -> BOOLEAN]
    /\ held \in [Tracks -> AnyUnits \cup {None}]
    /\ nextDts \in [Tracks -> Int \cup {None}]
    /\ inHand \in AnySamples \cup {None}
    /\ firstDts \in [Tracks -> Int \cup {None}]
    /\ entry \in [Tracks -> BOOLEAN]
    /\ ready \in [Tracks -> BOOLEAN]
    /\ pending \in Seq(AnySamples)
    /\ written \in Seq(AnySamples \cup InitSegments)
    /\ written # <<>> => Tail(written) \in Seq(AnySamples)

(* A muxer that has just been made has seen no sample.                     *)
LEMMA EntryInitially == Mp4Init => EntryTypes /\ EntryInv
BY DEF Mp4Init, EntryTypes, EntryInv, EntryOnItsWay, EntryKnown, InHandOf, EntryWritten,
       HasEntry, AnySamples, AnyUnits

(* What is on air is a unit.                                               *)
LEMMA ArrivingIsUnit == ASSUME NEW t \in Tracks, NEW u \in Arriving(t) PROVE u \in AnyUnits
BY DEF Arriving, Units, Times, AnyUnits

\* What a track's step with unit u of track t may do.
TrackStep(t, u) ==
    \/ AudioUnit(t, u) \/ Mpeg2Unit(t, u)
    \/ H265Skip(t, u) \/ H265Untimed(t, u) \/ H265Unit(t, u)

(* A track turns units into samples, of itself.                            *)
LEMMA TrackStepTypes ==
    ASSUME EntryTypes, NEW t \in Tracks, NEW u \in AnyUnits, TrackStep(t, u)
    PROVE  /\ configured' \in [Tracks -> BOOLEAN]
           /\ overtaken' \in [Tracks -> BOOLEAN]
           /\ held' \in [Tracks -> AnyUnits \cup {None}]
           /\ nextDts' \in [Tracks -> Int \cup {None}]
           /\ inHand' \in AnySamples \cup {None}
<1>1. CASE AudioUnit(t, u)
      BY <1>1 DEF EntryTypes, AudioUnit, Hand, AnyUnits, AnySamples
<1>2. CASE Mpeg2Unit(t, u)
  <2>1. /\ held' \in [Tracks -> AnyUnits \cup {None}]
        /\ overtaken' \in [Tracks -> BOOLEAN]
        BY <1>2 DEF EntryTypes, Mpeg2Unit
  <2>2. CASE held[t] = None
        BY <1>2, <2>1, <2>2 DEF EntryTypes, Mpeg2Unit, SkipFrame, WriteFrame, Hand, AnyUnits, AnySamples
  <2>3. CASE held[t] # None /\ SkipFrame(t, held[t])
        BY <1>2, <2>1, <2>3 DEF EntryTypes, Mpeg2Unit, SkipFrame
  <2>4. CASE held[t] # None /\ WriteFrame(t, held[t])
        BY <1>2, <2>1, <2>4 DEF EntryTypes, Mpeg2Unit, WriteFrame, Hand, AnyUnits, AnySamples
  <2>5. QED
        BY <1>2, <2>2, <2>3, <2>4 DEF Mpeg2Unit
<1>3. CASE H265Skip(t, u)
      BY <1>3 DEF EntryTypes, H265Skip
<1>4. CASE H265Untimed(t, u)
  <2>1. /\ configured' = [configured EXCEPT ![t] = TRUE]
        /\ overtaken' = [overtaken EXCEPT ![t] = overtaken[t] \/ held[t] # None]
        /\ UNCHANGED <<held, nextDts>>
        BY <1>4 DEF H265Untimed
  <2>2. inHand' \in AnySamples \cup {None}
        BY <1>4 DEF EntryTypes, H265Untimed, Hand, AnyUnits, AnySamples
  <2>3. (overtaken[t] \/ held[t] # None) \in BOOLEAN
        OBVIOUS
  <2>4. QED
        BY <2>1, <2>2, <2>3 DEF EntryTypes
<1>5. CASE H265Unit(t, u)
  <2>1. /\ configured' = [configured EXCEPT ![t] = TRUE]
        /\ held' = [held EXCEPT ![t] = [u EXCEPT !.head = ~configured[t]]]
        /\ nextDts' = nextDts /\ overtaken' = overtaken
        BY <1>5 DEF H265Unit
  <2>2. [u EXCEPT !.head = ~configured[t]] \in AnyUnits
        BY DEF EntryTypes, AnyUnits
  <2>3. inHand' \in AnySamples \cup {None}
    <3>1. CASE held[t] = None
          BY <1>5, <3>1 DEF H265Unit, EntryTypes
    <3>2. CASE held[t] # None
          BY <1>5, <3>2 DEF H265Unit, EntryTypes, Hand, AnyUnits, AnySamples
    <3>3. QED
          BY <3>1, <3>2
  <2>4. QED
        BY <2>1, <2>2, <2>3 DEF EntryTypes
<1>6. QED
      BY <1>1, <1>2, <1>3, <1>4, <1>5 DEF TrackStep

(* The sample a track hands over.                                          *)
LEMMA Handed ==
    ASSUME NEW t \in Tracks, NEW n \in Int, NEW dts \in Int \cup {None}, NEW head \in BOOLEAN,
           inHand' = [track |-> t, n |-> n, dts |-> dts, head |-> head]
    PROVE  /\ inHand' \in AnySamples /\ inHand' # None
           /\ inHand'.track = t /\ inHand'.n = n /\ inHand'.dts = dts /\ inHand'.head = head
<1>1. inHand' \in [track : Tracks, n : Int, dts : Int \cup {None}, head : BOOLEAN]
      OBVIOUS
<1>2. QED
      BY <1>1 DEF AnySamples

(* The entry of a track is in hand, held or known after the track's step.  *)
LEMMA TrackStepKeepsEntries ==
    ASSUME EntryTypes, NEW t \in added, NEW u \in AnyUnits, TrackStep(t, u),
           inHand = None, EntryInv, UNCHANGED <<kind, added, stateVars>>
    PROVE  \A o \in Tracks : EntryOnItsWay(o)'
<1>1. \A o \in Tracks : ~InHandOf(o) /\ EntryOnItsWay(o)
      BY DEF EntryInv, InHandOf
<1>2. /\ kind' = kind /\ firstDts' = firstDts /\ entry' = entry /\ added' = added
      /\ t \in Tracks
      BY DEF stateVars, EntryTypes
<1>3. ASSUME NEW o \in Tracks, o # t PROVE EntryOnItsWay(o)'
  <2>1. configured'[o] = configured[o] /\ held'[o] = held[o]
        BY <1>2, <1>3 DEF TrackStep, AudioUnit, Mpeg2Unit, SkipFrame, WriteFrame,
                    H265Skip, H265Untimed, H265Unit, EntryTypes
  <2>2. inHand' = None \/ inHand'.track = t
        BY DEF TrackStep, AudioUnit, Mpeg2Unit, SkipFrame, WriteFrame,
               H265Skip, H265Untimed, H265Unit, Hand
  <2>3. QED
        BY <1>1, <1>2, <1>3, <2>1, <2>2 DEF EntryOnItsWay, EntryKnown, InHandOf
<1>4. EntryOnItsWay(t)'
  <2>1. EntryOnItsWay(t) /\ ~InHandOf(t)
        BY <1>1, <1>2
  <2>2. CASE inHand' = inHand /\ configured' = configured
             /\ (kind[t] = "h265" => held' = held)
        BY <1>2, <2>1, <2>2 DEF EntryOnItsWay, EntryKnown, InHandOf
  <2>3. ASSUME NEW n \in Int, NEW dts \in Int \cup {None}, kind[t] # "h265",
               inHand' = [track |-> t, n |-> n, dts |-> dts, head |-> ~configured[t]],
               configured' = [configured EXCEPT ![t] = TRUE]
        PROVE  EntryOnItsWay(t)'
    <3>1. (~configured[t]) \in BOOLEAN
          OBVIOUS
    <3>2. inHand' # None /\ inHand'.track = t /\ inHand'.head = ~configured[t]
          BY <1>2, <2>3, <3>1, Handed
    <3>3. EntryKnown(t)' /\ InHandOf(t)'
          BY <1>2, <2>1, <2>3, <3>2 DEF EntryOnItsWay, EntryKnown, InHandOf, EntryTypes
    <3>4. configured'[t]
          BY <1>2, <2>3 DEF EntryTypes
    <3>5. QED
          BY <1>2, <2>1, <2>3, <3>3, <3>4 DEF EntryOnItsWay
  <2>4. CASE AudioUnit(t, u)
    <3>1. /\ inHand' = [track |-> t, n |-> u.n, dts |-> u.dts, head |-> ~configured[t]]
          /\ kind[t] # "h265" /\ configured' = [configured EXCEPT ![t] = TRUE]
          BY <2>4 DEF AudioUnit, Hand
    <3>2. u.n \in Int /\ u.dts \in Int \cup {None}
          BY DEF AnyUnits
    <3>3. QED
          BY <2>3, <3>1, <3>2
  <2>5. CASE Mpeg2Unit(t, u)
    <3>1. CASE inHand' = inHand /\ configured' = configured
          BY <2>2, <2>5, <3>1 DEF Mpeg2Unit
    <3>2. CASE held[t] # None /\ WriteFrame(t, held[t])
      <4>1. held[t] \in AnyUnits /\ kind[t] # "h265"
            BY <1>2, <2>5, <3>2 DEF EntryTypes, Mpeg2Unit
      <4>2. PICK dts \in Int \cup {None} :
               inHand' = [track |-> t, n |-> held[t].n, dts |-> dts, head |-> ~configured[t]]
        <5>1. held[t].dts \in Int \cup {None} /\ nextDts[t] \in Int \cup {None}
              BY <1>2, <4>1 DEF EntryTypes, AnyUnits
        <5>2. QED
              BY <3>2, <5>1 DEF WriteFrame, Hand
      <4>3. held[t].n \in Int /\ configured' = [configured EXCEPT ![t] = TRUE]
            BY <3>2, <4>1 DEF AnyUnits, WriteFrame
      <4>4. QED
            BY <2>3, <4>1, <4>2, <4>3
    <3>3. QED
          BY <2>5, <3>1, <3>2 DEF Mpeg2Unit, SkipFrame
  <2>6. CASE H265Skip(t, u)
        BY <2>2, <2>6 DEF H265Skip
  <2>7. CASE H265Untimed(t, u)
    <3>1. /\ inHand' = [track |-> t, n |-> u.n, dts |-> None, head |-> ~configured[t]]
          /\ configured' = [configured EXCEPT ![t] = TRUE] /\ held' = held
          /\ overtaken' = [overtaken EXCEPT ![t] = overtaken[t] \/ held[t] # None]
          BY <2>7 DEF H265Untimed, Hand
    <3>2. u.n \in Int /\ None \in Int \cup {None} /\ (~configured[t]) \in BOOLEAN
          BY DEF AnyUnits
    <3>3. /\ inHand' # None /\ inHand'.track = t /\ inHand'.head = ~configured[t]
          /\ inHand'.dts = None
          BY <1>2, <3>1, <3>2, Handed
    <3>4. configured'[t] /\ overtaken'[t] = (overtaken[t] \/ held[t] # None)
          BY <1>2, <3>1 DEF EntryTypes
    <3>5. CASE ~configured[t]
          BY <1>2, <2>1, <3>1, <3>3, <3>4, <3>5 DEF EntryOnItsWay, EntryKnown, InHandOf
    <3>6. CASE configured[t]
          BY <1>2, <2>1, <3>1, <3>3, <3>4, <3>6 DEF EntryOnItsWay, EntryKnown, InHandOf
    <3>7. QED
          BY <3>5, <3>6
  <2>8. CASE H265Unit(t, u)
    <3>1. /\ held' = [held EXCEPT ![t] = [u EXCEPT !.head = ~configured[t]]]
          /\ configured' = [configured EXCEPT ![t] = TRUE] /\ overtaken' = overtaken
          BY <2>8 DEF H265Unit
    <3>2. /\ held'[t] \in AnyUnits /\ held'[t] # None /\ held'[t].head = ~configured[t]
          /\ configured'[t]
          BY <1>2, <3>1 DEF EntryTypes, AnyUnits
    <3>3. CASE held[t] = None
      <4>1. inHand' = inHand
            BY <2>8, <3>3 DEF H265Unit
      <4>2. QED
            BY <1>2, <2>1, <2>8, <3>2, <3>3, <4>1 DEF EntryOnItsWay, EntryKnown, InHandOf, H265Unit
    <3>4. CASE held[t] # None
      <4>1. /\ held[t] \in AnyUnits
            /\ inHand' = [track |-> t, n |-> held[t].n, dts |-> held[t].dts, head |-> held[t].head]
            BY <1>2, <2>8, <3>4 DEF H265Unit, Hand, EntryTypes
      <4>2. held[t].n \in Int /\ held[t].dts \in Int \cup {None} /\ held[t].head \in BOOLEAN
            BY <4>1 DEF AnyUnits
      <4>3. inHand' # None /\ inHand'.track = t /\ inHand'.head = held[t].head
            BY <1>2, <4>1, <4>2, Handed
      <4>4. EntryKnown(t)' /\ configured[t]
            BY <1>2, <2>1, <2>8, <3>4, <4>3 DEF EntryOnItsWay, EntryKnown, InHandOf, H265Unit
      <4>5. QED
            BY <1>2, <2>1, <2>8, <3>2, <4>4 DEF EntryOnItsWay, H265Unit
    <3>5. QED
          BY <3>3, <3>4
  <2>9. QED
        BY <2>4, <2>5, <2>6, <2>7, <2>8 DEF TrackStep
<1>5. QED
      BY <1>3, <1>4

(* finalize asks a track for what it holds.                                *)
LEMMA FlushKeepsEntries ==
    ASSUME EntryTypes, EntryInv, NEW t \in Tracks, FlushTrack(t)
    PROVE  EntryTypes' /\ EntryInv'
<1>1. /\ kind' = kind /\ start' = start /\ fed' = fed /\ added' = added /\ late' = late
      /\ firstDts' = firstDts /\ entry' = entry /\ ready' = ready /\ failed' = failed
      /\ syncStart' = syncStart /\ pending' = pending /\ written' = written
      /\ overtaken' = overtaken
      /\ held' = [held EXCEPT ![t] = None]
      /\ inHand = None /\ held[t] # None /\ held[t] \in AnyUnits
      BY DEF FlushTrack, stateVars, EntryTypes
<1>2. \A o \in Tracks : ~InHandOf(o) /\ EntryOnItsWay(o)
      BY <1>1 DEF EntryInv, InHandOf
<1>3. ~failed
      BY <1>1 DEF EntryInv
<1>4. CASE kind[t] = "mpeg2" /\ SkipFrame(t, held[t])
  <2>1. \A o \in Tracks : EntryOnItsWay(o)'
        BY <1>1, <1>2, <1>4 DEF SkipFrame, EntryOnItsWay, EntryKnown, InHandOf, EntryTypes
  <2>2. EntryTypes'
        BY <1>1, <1>4 DEF SkipFrame, EntryTypes
  <2>3. QED
        BY <1>1, <1>3, <2>1, <2>2 DEF EntryInv, EntryWritten
<1>5. CASE kind[t] = "mpeg2" /\ WriteFrame(t, held[t])
  <2>1. EntryTypes'
        BY <1>1, <1>5 DEF WriteFrame, Hand, EntryTypes, AnyUnits, AnySamples
  <2>2. \A o \in Tracks : EntryOnItsWay(o)'
    <3>1. /\ inHand' # None /\ inHand'.track = t
          /\ inHand'.head \/ configured[t]
      <4>1. PICK dts : inHand' = [track |-> t, n |-> held[t].n, dts |-> dts, head |-> ~configured[t]]
            BY <1>5 DEF WriteFrame, Hand
      <4>2. dts \in Int \cup {None}
            BY <1>1, <1>5, <4>1 DEF WriteFrame, Hand, EntryTypes, AnyUnits
      <4>3. (~configured[t]) \in BOOLEAN /\ held[t].n \in Int
            BY <1>1 DEF AnyUnits
      <4>4. QED
            BY <4>1, <4>2, <4>3, Handed
    <3>2. ASSUME NEW o \in Tracks, o # t PROVE EntryOnItsWay(o)'
          BY <1>1, <1>2, <1>5, <3>1, <3>2
             DEF WriteFrame, EntryOnItsWay, EntryKnown, InHandOf, EntryTypes
    <3>3. EntryOnItsWay(t)'
      <4>1. EntryKnown(t)' /\ configured'[t]
            BY <1>1, <1>2, <1>5, <3>1
               DEF WriteFrame, EntryOnItsWay, EntryKnown, InHandOf, EntryTypes
      <4>2. t \in added'
            BY <1>1, <1>2 DEF EntryOnItsWay
      <4>3. QED
            BY <1>1, <1>2, <1>5, <3>1, <4>1, <4>2 DEF EntryOnItsWay
    <3>4. QED
          BY <3>2, <3>3
  <2>3. QED
        BY <1>1, <1>3, <2>1, <2>2 DEF EntryInv, EntryWritten
<1>6. CASE /\ kind[t] = "h265" /\ Hand(t, held[t], held[t].dts, held[t].head)
           /\ UNCHANGED <<configured, nextDts>>
  <2>1. EntryTypes'
        BY <1>1, <1>6 DEF Hand, EntryTypes, AnyUnits, AnySamples
  <2>2. \A o \in Tracks : EntryOnItsWay(o)'
    <3>1. held[t].n \in Int /\ held[t].dts \in Int \cup {None} /\ held[t].head \in BOOLEAN
          BY <1>1 DEF AnyUnits
    <3>2. inHand' # None /\ inHand'.track = t /\ inHand'.head = held[t].head
          BY <1>6, <3>1, Handed DEF Hand
    <3>3. ASSUME NEW o \in Tracks, o # t PROVE EntryOnItsWay(o)'
          BY <1>1, <1>2, <1>6, <3>2, <3>3 DEF EntryOnItsWay, EntryKnown, InHandOf, EntryTypes
    <3>4. EntryOnItsWay(t)'
      <4>1. EntryKnown(t)' /\ configured'[t]
            BY <1>1, <1>2, <1>6, <3>2 DEF EntryOnItsWay, EntryKnown, InHandOf
      <4>2. t \in added' /\ held'[t] = None
            BY <1>1, <1>2 DEF EntryOnItsWay, EntryTypes
      <4>3. QED
            BY <1>1, <1>2, <1>6, <3>2, <4>1, <4>2 DEF EntryOnItsWay
    <3>5. QED
          BY <3>3, <3>4
  <2>3. QED
        BY <1>1, <1>3, <2>1, <2>2 DEF EntryInv, EntryWritten
<1>7. QED
      BY <1>4, <1>5, <1>6 DEF FlushTrack

(* A track added has no sample yet, and is late when the start is known.   *)
LEMMA AddKeepsEntries ==
    ASSUME EntryTypes, EntryInv, NEW t \in Tracks, AddTrack(t)
    PROVE  EntryTypes' /\ EntryInv'
<1>1. /\ UNCHANGED <<kind, start, fed, configured, held, overtaken, nextDts, inHand>>
      /\ UNCHANGED <<firstDts, entry, ready, syncStart, pending, written, failed>>
      /\ added' = added \cup {t} /\ inHand = None
      /\ late \subseteq late' /\ (syncStart # None => t \in late')
      BY DEF AddTrack, stateVars
<1>2. EntryTypes'
      BY <1>1 DEF EntryTypes
<1>3. \A o \in Tracks : EntryOnItsWay(o)'
      BY <1>1 DEF EntryInv, EntryOnItsWay, EntryKnown, InHandOf
<1>4. EntryWritten' /\ ~failed'
      BY <1>1 DEF EntryInv, EntryWritten, HasEntry
<1>5. (syncStart # None => \A o \in added \ late : firstDts[o] # None)'
      BY <1>1 DEF EntryInv
<1>6. QED
      BY <1>2, <1>3, <1>4, <1>5 DEF EntryInv

(* A fragment is behind those there were: every entry given stays given.   *)
LEMMA AppendKeepsEntries ==
    ASSUME NEW s \in Seq(AnySamples), NEW f \in AnySamples
    PROVE  \A t \in Tracks :
              HasEntry(t, s) \/ (f.track = t /\ f.head) => HasEntry(t, Append(s, f))
<1> DEFINE r == Append(s, f)
<1>1. /\ r \in Seq(AnySamples) /\ Len(r) = Len(s) + 1 /\ r[Len(s) + 1] = f
      /\ \A i \in 1 .. Len(s) : r[i] = s[i]
      OBVIOUS
<1>2. ASSUME NEW t \in Tracks, HasEntry(t, s) \/ (f.track = t /\ f.head) PROVE HasEntry(t, r)
      BY <1>1, <1>2 DEF HasEntry
<1>3. QED
      BY <1>2

(* A sample whose track's entry has not been seen is dropped, unless its   *)
(* What is written stays where it is when a fragment follows it.           *)
LEMMA AppendOne ==
    ASSUME NEW S, NEW s \in Seq(S), s # <<>>, NEW x \in S
    PROVE  /\ Append(s, x) \in Seq(S) /\ Append(s, x) # <<>>
           /\ Tail(Append(s, x)) = Append(Tail(s), x) /\ Append(s, x)[1] = s[1]
<1>1. Append(s, x) \in Seq(S) /\ Append(s, x) # <<>>
      OBVIOUS
<1>2. Append(s, x)[1] = s[1]
      OBVIOUS
<1>3. Tail(Append(s, x)) = Append(Tail(s), x)
      OBVIOUS
<1>4. QED
      BY <1>1, <1>2, <1>3

(* track alone decides when to begin.                                      *)
LEMMA WrittenIsDescribed ==
    ASSUME EntryTypes, EntryInv, NEW t \in Tracks, InHandOf(t), Observe(t)
    PROVE  /\ entry' = [entry EXCEPT ![t] = @ \/ inHand.head]
           /\ firstDts' \in [Tracks -> Int \cup {None}]
           /\ \A u \in Tracks : firstDts'[u] # None => entry'[u]
           /\ syncStart' # None => \A u \in added \ late : firstDts'[u] # None
           /\ ~TooEarly /\ ~entry'[t] => overtaken[t] /\ (t \in late \/ added = {t})
<1>1. /\ inHand \in AnySamples /\ inHand # None /\ inHand.track = t
      /\ \A u \in Tracks : EntryOnItsWay(u)
      BY DEF EntryTypes, EntryInv, InHandOf
<1>2. /\ entry' = [entry EXCEPT ![t] = @ \/ inHand.head]
      /\ firstDts' = [firstDts EXCEPT ![t] = IF @ = None THEN inHand.dts ELSE @]
      BY DEF Observe
<1>3. EntryKnown(t) => entry'[t]
      BY <1>2 DEF EntryTypes, EntryKnown
<1>4. firstDts' \in [Tracks -> Int \cup {None}]
      BY <1>1, <1>2 DEF EntryTypes, AnySamples
<1>5. \A u \in Tracks : firstDts'[u] # None => entry'[u]
  <2>1. ASSUME NEW u \in Tracks, u # t, firstDts'[u] # None PROVE entry'[u]
        BY <1>1, <1>2, <2>1 DEF EntryTypes, EntryOnItsWay
  <2>2. firstDts'[t] # None => firstDts[t] # None \/ inHand.dts # None
        BY <1>2 DEF EntryTypes
  <2>3. firstDts[t] # None \/ inHand.dts # None => EntryKnown(t)
        BY <1>1 DEF EntryOnItsWay, EntryKnown, InHandOf
  <2>4. QED
        BY <1>3, <2>1, <2>2, <2>3
<1>6. syncStart' # None => \A u \in added \ late : firstDts'[u] # None
  <2>1. CASE syncStart # None
        BY <1>2, <2>1 DEF EntryInv, EntryTypes
  <2>2. CASE syncStart = None
        BY <2>2 DEF Observe
  <2>3. QED
        BY <2>1, <2>2
<1>7. ASSUME ~TooEarly, ~entry'[t] PROVE overtaken[t] /\ (t \in late \/ added = {t})
  <2>1. overtaken[t] /\ t \in added
        BY <1>1, <1>3, <1>7 DEF EntryOnItsWay, InHandOf
  <2>2. CASE syncStart' # None
        BY <1>5, <1>6, <1>7, <2>1, <2>2
  <2>3. CASE syncStart' = None
        BY <1>1, <1>7, <2>1, <2>3 DEF TooEarly
  <2>4. QED
        BY <2>1, <2>2, <2>3
<1>8. QED
      BY <1>2, <1>4, <1>5, <1>6, <1>7

(* The five ends of write_track_samples.                                   *)
LEMMA WriteKeepsEntries ==
    ASSUME EntryTypes, EntryInv, NEW t \in Tracks, WriteSample(t)
    PROVE  EntryTypes' /\ EntryInv'
<1>1. /\ InHandOf(t) /\ Observe(t) /\ ~failed
      /\ kind' = kind /\ start' = start /\ fed' = fed /\ configured' = configured
      /\ held' = held /\ nextDts' = nextDts /\ added' = added /\ late' = late
      /\ overtaken' = overtaken
      BY DEF WriteSample, InHandOf, trackVars
<1>2. /\ entry' = [entry EXCEPT ![t] = @ \/ inHand.head]
      /\ firstDts' \in [Tracks -> Int \cup {None}]
      /\ \A u \in Tracks : firstDts'[u] # None => entry'[u]
      /\ syncStart' # None => \A u \in added \ late : firstDts'[u] # None
      /\ ~TooEarly /\ ~entry'[t] => overtaken[t] /\ (t \in late \/ added = {t})
      BY <1>1, WrittenIsDescribed
<1>3. /\ inHand \in AnySamples /\ inHand.track = t /\ t \in added
      /\ entry' \in [Tracks -> BOOLEAN] /\ inHand # None
      BY <1>1, <1>2 DEF EntryTypes, InHandOf, AnySamples, EntryInv, EntryOnItsWay
<1>4. inHand' \in {None, inHand}
      BY DEF WriteSample, DropSample, RefuseSample, HoldFragment, OpenStream, WriteFragment,
             AcceptSample
<1>5. \A u \in Tracks : EntryOnItsWay(u)'
  <2>1. \A u \in Tracks : EntryKnown(u) => entry'[u]
        BY <1>1, <1>2 DEF EntryKnown, InHandOf, EntryTypes
  <2>2. \A u \in Tracks : InHandOf(u)' => InHandOf(u) /\ inHand' = inHand
        BY <1>4 DEF InHandOf
  <2>3. QED
        BY <1>1, <1>2, <2>1, <2>2 DEF EntryInv, EntryOnItsWay, EntryKnown
<1>6. SUFFICES /\ ready' \in [Tracks -> BOOLEAN]
               /\ pending' \in Seq(AnySamples)
               /\ written' \in Seq(AnySamples \cup InitSegments)
               /\ written' # <<>> => Tail(written') \in Seq(AnySamples)
               /\ EntryWritten'
               /\ failed' => /\ inHand' # None
                             /\ overtaken[t] /\ (t \in late \/ added = {t})
      BY <1>1, <1>2, <1>3, <1>4, <1>5 DEF EntryTypes, EntryInv
<1>7. CASE DropSample(t)
      BY <1>1, <1>7 DEF DropSample, EntryTypes, EntryInv, EntryWritten
<1> DEFINE f == Fragment(t)
<1>8. /\ f \in AnySamples /\ f.track = t
      /\ f.head <=> inHand.head \/ (~ready[t] /\ entry'[t])
  <2>1. f = [inHand EXCEPT !.head = inHand.head \/ (~ready[t] /\ entry'[t])]
        BY DEF Fragment
  <2>2. QED
        BY <1>3, <2>1 DEF AnySamples
<1>9. CASE RefuseSample(t)
  <2>1. ~TooEarly /\ ~entry'[t] /\ inHand' = inHand
        BY <1>8, <1>9 DEF RefuseSample
  <2>2. QED
        BY <1>1, <1>2, <1>3, <1>9, <2>1 DEF RefuseSample, EntryTypes, EntryInv, EntryWritten
<1>10. ASSUME AcceptSample(t)
       PROVE  /\ ~failed'
              /\ ready' \in [Tracks -> BOOLEAN]
              /\ \A u \in Tracks : ready'[u] => ready[u] \/ (u = t /\ f.head)
  <2>1. ready' = [ready EXCEPT ![t] = ready[t] \/ f.head] /\ ~failed'
        BY <1>1, <1>10 DEF MarkReady, AcceptSample
  <2>2. (ready[t] \/ f.head) \in BOOLEAN
        OBVIOUS
  <2>3. QED
        BY <2>1, <2>2 DEF EntryTypes
<1>11. ASSUME AcceptSample(t), written = <<>>
       PROVE  /\ Append(pending, f) \in Seq(AnySamples)
              /\ \A i \in DOMAIN Append(pending, f) : Append(pending, f)[i].track \in added
              /\ \A u \in Tracks : ready'[u] => HasEntry(u, Append(pending, f))
  <2> DEFINE s == pending
  <2>1. /\ s \in Seq(AnySamples) /\ \A i \in DOMAIN s : s[i].track \in added
        /\ \A u \in Tracks : ready[u] => HasEntry(u, s)
        BY <1>11 DEF EntryTypes, EntryInv, EntryWritten
  <2>2. \A u \in Tracks : ready'[u] => ready[u] \/ (u = t /\ f.head)
        BY <1>10, <1>11
  <2> HIDE DEF s, f
  <2>3. \A u \in Tracks : ready'[u] => HasEntry(u, Append(s, f))
        BY <1>8, <2>1, <2>2, AppendKeepsEntries
  <2>4. \A i \in DOMAIN Append(s, f) : Append(s, f)[i].track \in added
        BY <1>3, <1>8, <2>1
  <2>5. QED
        BY <1>8, <2>1, <2>3, <2>4 DEF s
<1>12. CASE HoldFragment(t)
  <2>1. /\ AcceptSample(t) /\ written = <<>> /\ written' = <<>>
        /\ pending' = Append(pending, f)
        BY <1>12 DEF HoldFragment
  <2>2. QED
        BY <1>1, <1>10, <1>11, <2>1 DEF EntryWritten
<1>13. CASE OpenStream(t)
  <2> DEFINE fragments == Append(pending, f)
             opening == InitSegment(fragments)
  <2>1. /\ AcceptSample(t) /\ written = <<>> /\ pending' = <<>>
        /\ written' = <<opening>> \o fragments
        /\ \A u \in added : ready'[u]
        BY <1>13 DEF OpenStream
  <2>2. /\ fragments \in Seq(AnySamples)
        /\ \A i \in DOMAIN fragments : fragments[i].track \in added
        /\ \A u \in added : HasEntry(u, fragments)
        BY <1>11, <2>1 DEF EntryTypes
  <2> HIDE DEF fragments
  <2>3. {fragments[i].track : i \in {j \in DOMAIN fragments : fragments[j].head}} = added
        BY <2>2 DEF HasEntry
  <2>4. /\ opening.described = added /\ opening.known = added
        /\ opening \in InitSegments
        BY <2>3 DEF InitSegment, InitSegments, EntryTypes
  <2> HIDE DEF opening
  <2>5. /\ written' \in Seq(AnySamples \cup InitSegments) /\ written' # <<>>
        /\ Tail(written') = fragments /\ written'[1] = opening
        BY <2>1, <2>2, <2>4
  <2>6. EntryWritten'
        BY <2>1, <2>4, <2>5 DEF EntryWritten
  <2>7. pending' \in Seq(AnySamples)
        BY <2>1
  <2>8. QED
        BY <1>10, <2>1, <2>2, <2>5, <2>6, <2>7
<1>14. CASE WriteFragment(t)
  <2>1. /\ AcceptSample(t) /\ written # <<>> /\ pending' = pending
        /\ written' = Append(written, f)
        BY <1>14 DEF WriteFragment
  <2>2. /\ written \in Seq(AnySamples \cup InitSegments)
        /\ Tail(written) \in Seq(AnySamples)
        /\ \A i \in DOMAIN pending : pending[i].track \in added
        /\ written[1].described = written[1].known
        BY <2>1 DEF EntryTypes, EntryInv, EntryWritten
  <2> HIDE DEF f
  <2>3. /\ written' \in Seq(AnySamples \cup InitSegments) /\ written' # <<>>
        /\ Tail(written') = Append(Tail(written), f) /\ written'[1] = written[1]
    <3> DEFINE S == AnySamples \cup InitSegments
    <3>1. f \in S /\ written \in Seq(S)
          BY <1>8, <2>2
    <3>2. written' = Append(written, f) /\ written # <<>>
          BY <2>1
    <3> HIDE DEF S
    <3>3. /\ Append(written, f) \in Seq(S) /\ Append(written, f) # <<>>
          /\ Tail(Append(written, f)) = Append(Tail(written), f)
          /\ Append(written, f)[1] = written[1]
          BY <3>1, <3>2, AppendOne
    <3>4. QED
          BY <3>2, <3>3 DEF S
  <2>4. Tail(written') \in Seq(AnySamples)
    <3>1. Tail(written) \in Seq(AnySamples) /\ f \in AnySamples
          BY <1>8, <2>2
    <3>2. Append(Tail(written), f) \in Seq(AnySamples)
          BY <3>1
    <3>3. QED
          BY <2>3, <3>2
  <2>5. EntryWritten'
    <3>1. written'[1].described = written'[1].known
          BY <2>2, <2>3
    <3>2. \A i \in DOMAIN pending' : pending'[i].track \in added'
          BY <1>1, <2>1, <2>2
    <3>3. QED
          BY <2>3, <3>1, <3>2 DEF EntryWritten
  <2>6. pending' \in Seq(AnySamples)
        BY <2>1 DEF EntryTypes
  <2>7. QED
        BY <1>10, <2>1, <2>3, <2>4, <2>5, <2>6
<1>15. QED
       BY <1>1, <1>7, <1>9, <1>12, <1>13, <1>14 DEF WriteSample

(* Where the entry of each track is, in every state.                       *)
LEMMA EntriesKept == Spec => [](EntryTypes /\ EntryInv)
<1> DEFINE IInv == EntryTypes /\ EntryInv
<1>1. Init => IInv
      BY EntryInitially DEF Init
<1>2. IInv /\ [Next]_vars => IInv'
  <2>1. SUFFICES ASSUME IInv, [Next]_vars PROVE IInv'
        OBVIOUS
  <2>2. CASE UNCHANGED mp4Vars
        BY <2>1, <2>2
           DEF mp4Vars, trackVars, stateVars, EntryTypes, EntryInv, EntryOnItsWay,
               EntryKnown, InHandOf, EntryWritten, HasEntry
  <2>3. ASSUME NEW t \in Tracks, Receive(t) PROVE IInv'
    <3>1. PICK u \in Arriving(t) : Unknown(t) \/ (t \in added /\ TrackStep(t, u))
          BY <2>3 DEF Receive, TrackStep
    <3>2. /\ u \in AnyUnits /\ inHand = None /\ kind' = kind /\ start' = start
          /\ fed' = [fed EXCEPT ![t] = @ + 1] /\ UNCHANGED stateVars
          /\ UNCHANGED <<added, late>>
          BY <2>3, ArrivingIsUnit DEF Receive
    <3>3. /\ firstDts' = firstDts /\ entry' = entry /\ ready' = ready
          /\ pending' = pending /\ written' = written /\ syncStart' = syncStart
          /\ failed' = failed /\ ~failed
          BY <2>1, <3>2 DEF stateVars, EntryInv
    <3>4. fed' \in [Tracks -> Int]
          BY <2>1, <3>2 DEF EntryTypes
    <3>5. CASE Unknown(t)
      <4>1. UNCHANGED <<configured, held, overtaken, nextDts, inHand>>
            BY <3>5 DEF Unknown
      <4>2. EntryTypes'
            BY <2>1, <3>2, <3>3, <3>4, <4>1 DEF EntryTypes
      <4>3. QED
            BY <2>1, <3>2, <3>3, <4>1, <4>2 DEF EntryInv, EntryOnItsWay, EntryKnown, InHandOf,
               EntryWritten
    <3>6. CASE t \in added /\ TrackStep(t, u)
      <4>1. /\ configured' \in [Tracks -> BOOLEAN]
            /\ overtaken' \in [Tracks -> BOOLEAN]
            /\ held' \in [Tracks -> AnyUnits \cup {None}]
            /\ nextDts' \in [Tracks -> Int \cup {None}]
            /\ inHand' \in AnySamples \cup {None}
            BY <2>1, <3>2, <3>6, TrackStepTypes
      <4>2. \A o \in Tracks : EntryOnItsWay(o)'
            BY <2>1, <3>2, <3>6, TrackStepKeepsEntries
      <4>3. EntryTypes'
            BY <2>1, <3>2, <3>3, <3>4, <4>1 DEF EntryTypes
      <4>4. QED
            BY <2>1, <3>2, <3>3, <4>2, <4>3 DEF EntryInv, EntryWritten
    <3>7. QED
          BY <3>1, <3>5, <3>6
  <2>4. ASSUME NEW t \in Tracks, AddTrack(t) \/ WriteSample(t) \/ FlushTrack(t) PROVE IInv'
        BY <2>1, <2>4, AddKeepsEntries, WriteKeepsEntries, FlushKeepsEntries
  <2>5. CASE EndInput
        BY <2>1, <2>5
           DEF EndInput, stateVars, EntryTypes, EntryInv, EntryOnItsWay,
               EntryKnown, InHandOf, EntryWritten, HasEntry
  <2>6. QED
        BY <2>1, <2>2, <2>3, <2>4, <2>5 DEF Next, MuxerStep, vars
<1>3. QED
      BY <1>1, <1>2, PTL DEF Spec

(* The init segment describes every track there is when it is written, and *)
(* no first fragment is refused but for an H.265 unit that overtook the    *)
(* one with the entry (mp4.rs:652-736), for every set of tracks, in which  *)
(* order and whenever they are added.                                      *)
THEOREM AllDescribedHolds == Spec => []AllDescribed
<1>1. EntryInv => AllDescribed
      BY DEF AllDescribed, EntryInv, EntryWritten
<1>2. QED
      BY <1>1, EntriesKept, PTL

-----------------------------------------------------------------------------
(* The fragments, whatever the tracks are: nothing is held back any more   *)
(* once the stream is open.                                                *)
FragmentsInv ==
    /\ EntryTypes
    /\ written # <<>> => pending = <<>>

(* What is flushed, or held instead, is a sample.                          *)
LEMMA FlushTypes ==
    ASSUME EntryTypes, NEW t \in Tracks, FlushTrack(t)
    PROVE  EntryTypes'
<1>1. /\ kind' = kind /\ start' = start /\ fed' = fed /\ added' = added
      /\ firstDts' = firstDts /\ entry' = entry /\ ready' = ready
      /\ pending' = pending /\ written' = written /\ overtaken' = overtaken
      /\ held' = [held EXCEPT ![t] = None] /\ held[t] \in AnyUnits
      BY DEF FlushTrack, stateVars, EntryTypes
<1>2. /\ configured' \in [Tracks -> BOOLEAN]
      /\ nextDts' \in [Tracks -> Int \cup {None}]
      /\ inHand' \in AnySamples \cup {None}
  <2>1. CASE SkipFrame(t, held[t])
        BY <2>1 DEF SkipFrame, EntryTypes
  <2>2. CASE WriteFrame(t, held[t])
        BY <1>1, <2>2 DEF WriteFrame, Hand, EntryTypes, AnyUnits, AnySamples
  <2>3. CASE /\ Hand(t, held[t], held[t].dts, held[t].head)
             /\ UNCHANGED <<configured, nextDts>>
        BY <1>1, <2>3 DEF Hand, EntryTypes, AnyUnits, AnySamples
  <2>4. QED
        BY <2>1, <2>2, <2>3 DEF FlushTrack
<1>3. QED
      BY <1>1, <1>2 DEF EntryTypes

(* What a track makes of a unit is a sample, in any broadcast.             *)
LEMMA ReceiveTypes ==
    ASSUME EntryTypes, NEW t \in Tracks, Receive(t)
    PROVE  EntryTypes'
<1>1. PICK u \in Arriving(t) : Unknown(t) \/ TrackStep(t, u)
      BY DEF Receive, TrackStep
<1>2. /\ configured' \in [Tracks -> BOOLEAN]
      /\ held' \in [Tracks -> AnyUnits \cup {None}]
      /\ nextDts' \in [Tracks -> Int \cup {None}]
      /\ inHand' \in AnySamples \cup {None}
      /\ overtaken' \in [Tracks -> BOOLEAN]
      BY <1>1, ArrivingIsUnit, TrackStepTypes DEF Unknown, EntryTypes
<1>3. /\ UNCHANGED <<kind, start, added, firstDts, entry, ready, pending, written>>
      /\ fed' \in [Tracks -> Int]
      BY DEF Receive, stateVars, EntryTypes
<1>4. QED
      BY <1>2, <1>3 DEF EntryTypes

(* What is written or held back of a sample is a sample.                   *)
LEMMA FragmentTypes ==
    ASSUME EntryTypes, NEW t \in Tracks, WriteSample(t)
    PROVE  /\ Fragment(t) \in AnySamples
           /\ entry' \in [Tracks -> BOOLEAN]
           /\ firstDts' \in [Tracks -> Int \cup {None}]
<1>1. /\ inHand \in AnySamples
      /\ entry' = [entry EXCEPT ![t] = @ \/ inHand.head]
      /\ firstDts' = [firstDts EXCEPT ![t] = IF @ = None THEN inHand.dts ELSE @]
      BY DEF WriteSample, Observe, EntryTypes
<1>2. entry' \in [Tracks -> BOOLEAN] /\ firstDts' \in [Tracks -> Int \cup {None}]
      BY <1>1 DEF EntryTypes, AnySamples
<1>3. Fragment(t) = [inHand EXCEPT !.head = inHand.head \/ (~ready[t] /\ entry'[t])]
      BY DEF Fragment
<1>4. QED
      BY <1>1, <1>2, <1>3 DEF AnySamples

(* A sequence is a prefix of what it is continued to.                      *)
LEMMA PrefixOfAppend ==
    ASSUME NEW S, NEW s \in Seq(S), NEW x \in S
    PROVE  IsPrefix(s, Append(s, x)) /\ IsPrefix(s, s)
BY DEF IsPrefix

(* A sample is dropped or becomes the last of the fragments: the stream     *)
(* opens with what was held back and goes on from there.                   *)
LEMMA WriteFragments ==
    ASSUME FragmentsInv, NEW t \in Tracks, WriteSample(t)
    PROVE  /\ FragmentsInv'
           /\ Fragments \in Seq(AnySamples) /\ Fragment(t) \in AnySamples
           /\ \/ (DropSample(t) \/ RefuseSample(t)) /\ Fragments' = Fragments
              \/ AcceptSample(t) /\ Fragments' = Append(Fragments, Fragment(t))
<1> DEFINE f == Fragment(t)
<1>1. /\ f \in AnySamples
      /\ entry' \in [Tracks -> BOOLEAN]
      /\ firstDts' \in [Tracks -> Int \cup {None}]
      BY FragmentTypes DEF FragmentsInv
<1>2. /\ UNCHANGED <<kind, start, added, fed, configured, held, overtaken, nextDts>>
      /\ inHand' \in AnySamples \cup {None}
      BY DEF WriteSample, trackVars, DropSample, RefuseSample, HoldFragment, OpenStream,
             WriteFragment, AcceptSample, FragmentsInv, EntryTypes
<1>3. /\ pending \in Seq(AnySamples) /\ written \in Seq(AnySamples \cup InitSegments)
      /\ written # <<>> => Tail(written) \in Seq(AnySamples) /\ pending = <<>>
      /\ Fragments = IF written = <<>> THEN pending ELSE Tail(written)
      BY DEF FragmentsInv, EntryTypes, Fragments
<1>4. Fragments \in Seq(AnySamples)
      BY <1>3
<1>5. ready' \in [Tracks -> BOOLEAN]
  <2>1. UNCHANGED ready \/ AcceptSample(t)
        BY DEF WriteSample, DropSample, RefuseSample, HoldFragment, OpenStream, WriteFragment
  <2>2. (ready[t] \/ f.head) \in BOOLEAN
        OBVIOUS
  <2>3. QED
        BY <2>1, <2>2 DEF AcceptSample, MarkReady, FragmentsInv, EntryTypes
<1> HIDE DEF f
<1>6. SUFFICES /\ pending' \in Seq(AnySamples)
               /\ written' \in Seq(AnySamples \cup InitSegments)
               /\ written' # <<>> => Tail(written') \in Seq(AnySamples) /\ pending' = <<>>
               /\ \/ (DropSample(t) \/ RefuseSample(t)) /\ Fragments' = Fragments
                  \/ AcceptSample(t) /\ Fragments' = Append(Fragments, f)
      BY <1>1, <1>2, <1>4, <1>5 DEF FragmentsInv, EntryTypes, f
<1>7. CASE DropSample(t) \/ RefuseSample(t)
  <2>1. pending' = pending /\ written' = written /\ Fragments' = Fragments
        BY <1>7 DEF DropSample, RefuseSample, Fragments
  <2>2. QED
        BY <1>3, <1>7, <2>1
<1>8. CASE HoldFragment(t)
  <2>1. AcceptSample(t) /\ written = <<>> /\ written' = <<>> /\ pending' = Append(pending, f)
        BY <1>8 DEF HoldFragment, f
  <2>2. Fragments' = Append(Fragments, f)
        BY <1>1, <1>3, <2>1 DEF Fragments
  <2>3. QED
        BY <1>1, <1>3, <2>1, <2>2
<1>9. CASE OpenStream(t)
  <2> DEFINE fragments == Append(pending, f)
             opening == InitSegment(fragments)
  <2>1. AcceptSample(t) /\ written = <<>> /\ pending' = <<>> /\ written' = <<opening>> \o fragments
        BY <1>9 DEF OpenStream, f
  <2>2. fragments \in Seq(AnySamples)
        BY <1>1, <1>3
  <2>3. opening \in InitSegments
    <3>1. \A i \in DOMAIN fragments : fragments[i] \in AnySamples
          BY <2>2
    <3>2. {fragments[i].track : i \in {j \in DOMAIN fragments : fragments[j].head}} \subseteq Tracks
          BY <3>1 DEF AnySamples
    <3>3. added \in SUBSET Tracks
          BY DEF FragmentsInv, EntryTypes
    <3>4. QED
          BY <3>2, <3>3 DEF InitSegment, InitSegments
  <2>4. fragments = Append(Fragments, f)
        BY <1>3, <2>1
  <2> HIDE DEF fragments, opening
  <2>5. /\ written' \in Seq(AnySamples \cup InitSegments) /\ written' # <<>>
        /\ Tail(written') = fragments
        BY <2>1, <2>2, <2>3
  <2>6. Fragments' = fragments
        BY <2>1, <2>2, <2>5 DEF Fragments
  <2>7. AcceptSample(t) /\ Fragments' = Append(Fragments, f)
        BY <2>1, <2>4, <2>6
  <2>8. pending' \in Seq(AnySamples)
        BY <2>1
  <2>9. Tail(written') \in Seq(AnySamples) /\ pending' = <<>>
        BY <2>1, <2>2, <2>5
  <2>10. QED
         BY <2>5, <2>7, <2>8, <2>9
<1>10. CASE WriteFragment(t)
  <2>1. AcceptSample(t) /\ written # <<>> /\ pending' = pending /\ written' = Append(written, f)
        BY <1>10 DEF WriteFragment, f
  <2>2. /\ written' \in Seq(AnySamples \cup InitSegments) /\ written' # <<>>
        /\ Tail(written') = Append(Tail(written), f)
        BY <1>1, <1>3, <2>1
  <2>3. Fragments' = Append(Fragments, f)
    <3>1. Append(Tail(written), f) \in Seq(AnySamples) /\ pending = <<>>
          BY <1>1, <1>3, <2>1
    <3>2. QED
          BY <1>3, <2>1, <2>2, <3>1 DEF Fragments
  <2>4. Tail(written') \in Seq(AnySamples)
        BY <1>1, <1>3, <2>1, <2>2
  <2>5. pending' \in Seq(AnySamples) /\ pending' = <<>>
        BY <1>3, <2>1
  <2>6. QED
        BY <2>1, <2>2, <2>3, <2>4, <2>5
<1>11. QED
       BY <1>7, <1>8, <1>9, <1>10 DEF WriteSample

(* Fragments are only ever added (mp4.rs:718-736): what was held back is   *)
(* written first, in its order, for every set of tracks and multiplex.     *)
THEOREM HeldBackIsWrittenHolds == Spec => HeldBackIsWritten
<1>1. Init => FragmentsInv
      BY EntryInitially DEF Init, Mp4Init, FragmentsInv
<1>2. ASSUME FragmentsInv, UNCHANGED <<written, pending>>
      PROVE  IsPrefix(Fragments, Fragments')
  <2>1. Fragments \in Seq(AnySamples) /\ Fragments' = Fragments
        BY <1>2 DEF FragmentsInv, EntryTypes, Fragments
  <2>2. QED
        BY <2>1 DEF IsPrefix
<1>3. FragmentsInv /\ [Next]_vars => FragmentsInv' /\ [IsPrefix(Fragments, Fragments')]_mp4Vars
  <2>1. SUFFICES ASSUME FragmentsInv, [Next]_vars
                 PROVE  FragmentsInv' /\ IsPrefix(Fragments, Fragments')
        OBVIOUS
  <2>2. ASSUME NEW t \in Tracks, Receive(t)
        PROVE  FragmentsInv' /\ IsPrefix(Fragments, Fragments')
    <3>1. UNCHANGED <<written, pending>>
          BY <2>2 DEF Receive, stateVars
    <3>2. QED
          BY <1>2, <2>1, <2>2, <3>1, ReceiveTypes DEF FragmentsInv
  <2>3. ASSUME NEW t \in Tracks, FlushTrack(t)
        PROVE  FragmentsInv' /\ IsPrefix(Fragments, Fragments')
    <3>1. UNCHANGED <<written, pending>>
          BY <2>3 DEF FlushTrack, stateVars
    <3>2. QED
          BY <1>2, <2>1, <2>3, <3>1, FlushTypes DEF FragmentsInv
  <2>4. ASSUME NEW t \in Tracks, WriteSample(t)
        PROVE  FragmentsInv' /\ IsPrefix(Fragments, Fragments')
    <3>1. /\ FragmentsInv' /\ Fragments \in Seq(AnySamples) /\ Fragment(t) \in AnySamples
          /\ Fragments' \in {Fragments, Append(Fragments, Fragment(t))}
          BY <2>1, <2>4, WriteFragments
    <3> DEFINE f == Fragment(t)
               F == Fragments
    <3>2. F \in Seq(AnySamples) /\ f \in AnySamples
          BY <3>1
    <3> HIDE DEF f, F
    <3>3. IsPrefix(F, Append(F, f)) /\ IsPrefix(F, F)
          BY <3>2, PrefixOfAppend
    <3>4. QED
          BY <3>1, <3>3 DEF f, F
  <2>5. CASE (\E t \in Tracks : AddTrack(t)) \/ EndInput \/ UNCHANGED mp4Vars
    <3>1. UNCHANGED <<kind, start, fed, configured, held, overtaken, nextDts, inHand,
                      firstDts, entry, ready, pending, written>>
          BY <2>5 DEF AddTrack, EndInput, stateVars, mp4Vars, trackVars
    <3>2. added' \in SUBSET Tracks
          BY <2>1, <2>5 DEF AddTrack, EndInput, mp4Vars, trackVars, FragmentsInv, EntryTypes
    <3>3. QED
          BY <1>2, <2>1, <3>1, <3>2 DEF FragmentsInv, EntryTypes
  <2>6. QED
        BY <2>1, <2>2, <2>3, <2>4, <2>5 DEF Next, MuxerStep, vars
<1>4. QED
      BY <1>1, <1>3, PTL DEF Spec, HeldBackIsWritten
=============================================================================
