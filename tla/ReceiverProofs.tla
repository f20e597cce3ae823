--------------------------- MODULE ReceiverProofs ---------------------------
(* Proofs about Receiver for every broadcast, every capacity of the         *)
(* channels and any number of lost packets and refused ECMs: units come     *)
(* through whole, and none is lost with another.                            *)
EXTENDS Receiver, TLAPS

USE DescramblerAssumption, OwnAssumption DEF DescramblerAssumption, OwnAssumption

\* The packets on air are packets (mmtp.rs).
LEMMA PacketsOnAir ==
    ASSUME broadcast \in Broadcasts
    PROVE  /\ Len(broadcast.packets) \in Nat
           /\ DOMAIN broadcast.packets = 1..Len(broadcast.packets)
           /\ broadcast.scrambled \in BOOLEAN
           /\ broadcast.others \in SUBSET Clones /\ Own \notin broadcast.others
           /\ \A n \in DOMAIN broadcast.packets :
                 /\ Packet(n) \in Packets
                 /\ Packet(n).kind \in MpuKinds
                 /\ Packet(n).aggregated \in BOOLEAN
                 /\ Packet(n).aggregated => Packet(n).kind = "NotFragmented"
                 /\ n + 1 \in DOMAIN broadcast.packets =>
                       (Unfinished(n)
                          <=> Packet(n + 1).kind \in {"FragmentBody", "FragmentTail"})
<1>1. broadcast.packets \in Seq(Packets) /\ WellFormed(broadcast.packets)
      /\ broadcast.scrambled \in BOOLEAN
      /\ broadcast.others \in SUBSET Clones /\ Own \notin broadcast.others
  BY MmtAssumption DEF MmtAssumption
<1>2. /\ Len(broadcast.packets) \in Nat
      /\ DOMAIN broadcast.packets = 1..Len(broadcast.packets)
      /\ \A n \in DOMAIN broadcast.packets : Packet(n) \in Packets
  BY <1>1 DEF Packet
<1>3. ASSUME NEW n \in DOMAIN broadcast.packets
      PROVE  /\ Packet(n).kind \in MpuKinds
             /\ Packet(n).aggregated \in BOOLEAN
             /\ Packet(n).aggregated => Packet(n).kind = "NotFragmented"
             /\ n + 1 \in DOMAIN broadcast.packets =>
                   (Unfinished(n)
                      <=> Packet(n + 1).kind \in {"FragmentBody", "FragmentTail"})
  BY <1>1, <1>2 DEF Packet, Packets, WellFormed, Unfinished
<1> QED
  BY <1>1, <1>2, <1>3

DefragmenterType == [state : States, last : Nat, buf : Seq(Fragments)]

\* sync() before a packet is read (deflag.rs:26-54): a unit stays in progress
\* only if the packet before was the last one read.
LEMMA AfterSync ==
    ASSUME ReceptionInv, panic = None, next \in DOMAIN broadcast.packets,
           NEW d, d = Sync(deflagmenter, next)
    PROVE  /\ d \in DefragmenterType
           /\ d.state # "Init"
           /\ d.last = next
           /\ d.state \in {"InFragment", "NotStarted"} =>
                 /\ d.state = deflagmenter.state
                 /\ d.buf = deflagmenter.buf
                 /\ deflagmenter.last = next - 1
           /\ d.state = "Skip" => d.buf = << >>
           /\ deflagmenter.state # "Init" /\ deflagmenter.last = next - 1
                 => d.state = deflagmenter.state
<1> DEFINE b == deflagmenter
<1>1. b \in DefragmenterType /\ next \in Nat
      /\ (b.state # "Init" => b.last \in Nat /\ b.last < next)
  BY DEF ReceptionInv, DefragmenterType
<1>2. BufferInv
  BY DEF ReceptionInv
<1>3. CASE b.state = "Init"
  <2>1. d = [b EXCEPT !.state = "Skip", !.last = next]
    BY <1>3 DEF Sync
  <2>2. b.buf = << >>
    BY <1>2, <1>3 DEF BufferInv
  <2> QED
    BY <1>1, <1>3, <2>1, <2>2 DEF DefragmenterType, States
<1>4. CASE b.state # "Init" /\ next = b.last + 1
  <2>1. d = [b EXCEPT !.last = next]
    BY <1>1, <1>4 DEF Sync, Jump
  <2>2. b.state = "Skip" => b.buf = << >>
    BY <1>2 DEF BufferInv
  <2>3. b.last = next - 1
    BY <1>1, <1>4 DEF DefragmenterType
  <2> QED
    BY <1>1, <1>4, <2>1, <2>2, <2>3 DEF DefragmenterType, States
<1>5. CASE b.state # "Init" /\ next # b.last + 1
  <2>1. next \notin {b.last, b.last + 1}
    BY <1>1, <1>5 DEF DefragmenterType
  <2>2. d = [state |-> "Skip", last |-> next, buf |-> << >>]
    BY <1>5, <2>1 DEF Sync, Jump
  <2>3. b.last # next - 1
    BY <1>1, <1>5 DEF DefragmenterType
  <2> QED
    BY <1>1, <2>2, <2>3 DEF DefragmenterType, States
<1> QED
  BY <1>3, <1>4, <1>5

-----------------------------------------------------------------------------
\* The last key among the answers, if there is one, is that of an answer.
LEMMA LastKeyIsAKey ==
    ASSUME DescramblerTypeOK, NEW c \in Clones
    PROVE  /\ LastKey(c) = key[c] \/ \E i \in DOMAIN keys : LastKey(c) = keys[i].ecm
           /\ LastKey(c) = key[c] \/ LastKey(c) \in Clones
<1> DEFINE last == {i \in DOMAIN keys :
                       keys[i].ok /\ \A j \in i + 1 .. Len(keys) : ~keys[j].ok}
<1>1. CASE last = {}
  BY <1>1 DEF LastKey
<1>2. CASE last # {}
  <2>1. (CHOOSE i \in last : TRUE) \in last
    BY <1>2
  <2>2. LastKey(c) = keys[CHOOSE i \in last : TRUE].ecm
    BY <1>2 DEF LastKey
  <2>3. \A i \in last : i \in DOMAIN keys /\ keys[i] \in Answers
    BY DEF DescramblerTypeOK
  <2> HIDE DEF last
  <2> QED
    BY <2>1, <2>2, <2>3 DEF Answers
<1> QED
  BY <1>1, <1>2

\* What a stream gets: a key for good once it has one, and its own, so that no
\* payload is garbled, if no other stream uses the descrambler
\* (descrambler.rs:144-199).
LEMMA KeysOfAStream ==
    ASSUME DescramblerTypeOK, OwnKeysInv, NEW scrambled \in BOOLEAN
    PROVE  /\ Alone => KeyInUse(Own) \in {Own, None}
           /\ key[Own] # None => KeyInUse(Own) # None
           /\ Outcome(Own, scrambled) \in {"clear", "garbled", "failed"}
           /\ Alone => Outcome(Own, scrambled) # "garbled"
           /\ Outcome(Own, scrambled) # "failed" =>
                 ~Deaf /\ (scrambled => KeyInUse(Own) # None)
           /\ Outcome(Own, scrambled) = "failed" =>
                 Deaf \/ (scrambled /\ KeyInUse(Own) = None)
<1>1. key[Own] \in Clones \cup {None} /\ Own # None
  BY DEF DescramblerTypeOK
<1>2. KeyInUse(Own) = key[Own]
      \/ (KeyInUse(Own) \in Clones /\ \E i \in DOMAIN keys : KeyInUse(Own) = keys[i].ecm)
  BY LastKeyIsAKey DEF KeyInUse
<1>3. Alone => KeyInUse(Own) \in {Own, None}
  BY <1>2 DEF OwnKeysInv
<1>4. key[Own] # None => KeyInUse(Own) # None
  BY <1>1, <1>2
<1>5. Outcome(Own, scrambled) =
        IF Deaf THEN "failed"
        ELSE IF ~scrambled THEN "clear"
        ELSE IF KeyInUse(Own) = None THEN "failed"
        ELSE IF KeyInUse(Own) = Own THEN "clear"
        ELSE "garbled"
  BY DEF Outcome, Deaf
<1> QED
  BY <1>1, <1>3, <1>4, <1>5

\* A step of the descrambler, for any of the streams that use it.
DescramblerStep ==
    \/ \E c \in {Own} \cup broadcast.others : PushEcm(c) \/ RecvKey(c) \/ TakeKeys(c)
    \/ WorkerStep
    \/ UNCHANGED descramblerVars

\* The work of the descrambler keeps to its types.
LEMMA DescramblerKeepsType ==
    ASSUME DescramblerTypeOK, DescramblerStep, broadcast \in Broadcasts
    PROVE  DescramblerTypeOK'
<1>1. ASSUME NEW c \in Clones, PushEcm(c) PROVE DescramblerTypeOK'
  <2>1. CASE ecms' = ecms /\ waiting' = waiting
    BY <1>1, <2>1 DEF DescramblerTypeOK, PushEcm
  <2>2. CASE /\ Len(ecms) < ChannelCapacity /\ ecms' = Append(ecms, c)
             /\ waiting' = IF isAsync THEN waiting ELSE waiting \cup {c}
    <3>1. ecms' \in Seq(Clones) /\ Len(ecms') <= ChannelCapacity
      BY <2>2 DEF DescramblerTypeOK
    <3>2. waiting' \in SUBSET Clones
      BY <2>2 DEF DescramblerTypeOK
    <3> QED
      BY <1>1, <3>1, <3>2 DEF DescramblerTypeOK, PushEcm
  <2> QED
    BY <1>1, <2>1, <2>2 DEF PushEcm
<1>2. ASSUME NEW c \in Clones, RecvKey(c) PROVE DescramblerTypeOK'
  <2>1. waiting' \in SUBSET Clones
    BY <1>2 DEF DescramblerTypeOK, RecvKey
  <2>2. CASE /\ keys # << >> /\ keys' = Tail(keys)
             /\ key' = [key EXCEPT ![c] = KeyAfter(@, Head(keys))]
    <3>1. Head(keys) \in Answers /\ Tail(keys) \in Seq(Answers)
          /\ Len(Tail(keys)) <= ChannelCapacity
      BY <2>2 DEF DescramblerTypeOK
    <3>2. KeyAfter(key[c], Head(keys)) \in Clones \cup {None}
      BY <3>1 DEF DescramblerTypeOK, KeyAfter, Answers
    <3>3. key' \in [Clones -> Clones \cup {None}]
      BY <2>2, <3>2 DEF DescramblerTypeOK
    <3> QED
      BY <1>2, <2>1, <2>2, <3>1, <3>3 DEF DescramblerTypeOK, RecvKey
  <2>3. CASE key' = key /\ keys' = keys
    BY <1>2, <2>1, <2>3 DEF DescramblerTypeOK, RecvKey
  <2> QED
    BY <1>2, <2>2, <2>3 DEF RecvKey
<1>3. ASSUME NEW c \in Clones, TakeKeys(c) PROVE DescramblerTypeOK'
  <2>1. KeyInUse(c) \in Clones \cup {None}
    BY LastKeyIsAKey DEF KeyInUse, DescramblerTypeOK
  <2> QED
    BY <1>3, <2>1 DEF DescramblerTypeOK, TakeKeys
<1>4. CASE DecryptEcm
  <2>1. Head(ecms) \in Clones /\ Tail(ecms) \in Seq(Clones)
        /\ Len(Tail(ecms)) <= ChannelCapacity
    BY <1>4 DEF DescramblerTypeOK, DecryptEcm
  <2>2. CASE working' = [ecm |-> Head(ecms), ok |-> TRUE] /\ UNCHANGED errors
    BY <1>4, <2>1, <2>2 DEF DescramblerTypeOK, DecryptEcm, Answers
  <2>3. CASE /\ errors < MaxErrors /\ errors' = errors + 1
             /\ working' = [ecm |-> Head(ecms), ok |-> FALSE]
    <3>1. working' \in Answers
      BY <2>1, <2>3 DEF Answers
    <3>2. errors' \in 0..MaxErrors
      BY <2>3 DEF DescramblerTypeOK
    <3> QED
      BY <1>4, <2>1, <3>1, <3>2 DEF DescramblerTypeOK, DecryptEcm
  <2> QED
    BY <1>4, <2>2, <2>3 DEF DecryptEcm
<1>5. CASE SendKey
  BY <1>5 DEF DescramblerTypeOK, SendKey
<1>6. CASE WorkerDies
  <2>1. ecms' \in Seq(Clones) /\ Len(ecms') <= ChannelCapacity
    BY <1>6 DEF WorkerDies
  <2>2. errors' \in 0..MaxErrors
    BY <1>6 DEF DescramblerTypeOK, WorkerDies
  <2> QED
    BY <1>6, <2>1, <2>2 DEF DescramblerTypeOK, WorkerDies
<1>7. CASE UNCHANGED descramblerVars
  BY <1>7 DEF DescramblerTypeOK, descramblerVars
<1> QED
  BY <1>1, <1>2, <1>3, <1>4, <1>5, <1>6, <1>7, PacketsOnAir
     DEF WorkerStep, DescramblerStep

\* And a descrambler that is used alone knows nothing but its own ECM and key.
LEMMA OwnKeysKept ==
    ASSUME DescramblerTypeOK, DescramblerStep, OwnKeysInv, broadcast' = broadcast
    PROVE  OwnKeysInv'
<1> SUFFICES ASSUME Alone
             PROVE  /\ \A i \in DOMAIN ecms' : ecms'[i] = Own
                    /\ \A i \in DOMAIN keys' : keys'[i].ecm = Own
                    /\ working' # None => working'.ecm = Own
                    /\ key'[Own] \in {Own, None}
  BY DEF OwnKeysInv, Alone
<1>1. /\ \A i \in DOMAIN ecms : ecms[i] = Own
      /\ \A i \in DOMAIN keys : keys[i].ecm = Own
      /\ working # None => working.ecm = Own
      /\ key[Own] \in {Own, None}
      /\ ecms \in Seq(Clones) /\ keys \in Seq(Answers)
      /\ key \in [Clones -> Clones \cup {None}]
  BY DEF OwnKeysInv, DescramblerTypeOK
<1>2. ecms # << >> =>
         /\ Head(ecms) = Own
         /\ \A i \in DOMAIN Tail(ecms) : Tail(ecms)[i] = Own
  BY <1>1
<1>3. keys # << >> =>
         /\ Head(keys).ecm = Own
         /\ \A i \in DOMAIN Tail(keys) : Tail(keys)[i].ecm = Own
  BY <1>1
<1>4. CASE PushEcm(Own)
  <2>1. \A i \in DOMAIN Append(ecms, Own) : Append(ecms, Own)[i] = Own
    BY <1>1
  <2> QED
    BY <1>1, <1>4, <2>1 DEF PushEcm
<1>5. CASE RecvKey(Own)
  <2>1. keys # << >> => KeyAfter(key[Own], Head(keys)) \in {Own, None}
    BY <1>1, <1>3 DEF KeyAfter
  <2> QED
    BY <1>1, <1>3, <1>5, <2>1 DEF RecvKey
<1>6. CASE TakeKeys(Own)
  <2>1. KeyInUse(Own) \in {Own, None}
    BY KeysOfAStream
  <2> QED
    BY <1>1, <1>6, <2>1 DEF TakeKeys
<1>7. CASE DecryptEcm
  <2>1. working'.ecm = Own
    BY <1>2, <1>7 DEF DecryptEcm
  <2> QED
    BY <1>1, <1>2, <1>7, <2>1 DEF DecryptEcm
<1>8. CASE SendKey
  <2>1. working \in Answers /\ working.ecm = Own
    BY <1>1, <1>8 DEF SendKey
  <2>2. \A i \in DOMAIN Append(keys, working) : Append(keys, working)[i].ecm = Own
    BY <1>1, <2>1
  <2> QED
    BY <1>1, <1>8, <2>2 DEF SendKey
<1>9. CASE WorkerDies
  BY <1>1, <1>9 DEF WorkerDies
<1>10. CASE UNCHANGED descramblerVars
  BY <1>1, <1>10 DEF descramblerVars
<1> QED
  BY <1>4, <1>5, <1>6, <1>7, <1>8, <1>9, <1>10 DEF WorkerStep, DescramblerStep, Alone

-----------------------------------------------------------------------------
\* A packet that is read, and whether it was decrypted with its key.
ReadOne(clear) == [packet |-> next, clear |-> clear]

\* What the defragmenter d is after it, and the units it returns.
Pushed(d, clear) ==
    IF Packet(next).aggregated THEN d
    ELSE Push(d, Packet(next).kind, ReadOne(clear))

Returned(d, clear) ==
    IF Packet(next).aggregated THEN << <<ReadOne(clear)>> >>
    ELSE Completed(d, Packet(next).kind, ReadOne(clear))

Readable(unit) == Whole(unit) /\ (Alone => InTheClear(unit))

\* push() of a packet in the order of the broadcast (deflag.rs:59-117): its
\* assertions hold, the buffer stays the unit on air, and what is returned is
\* whole; nothing of an intact unit is missing.
LEMMA PushKeepsUnits ==
    ASSUME ReceptionInv, panic = None, next \in DOMAIN broadcast.packets,
           ~Deaf, ~Ignored(next),
           NEW d, d = Sync(deflagmenter, next),
           NEW clear \in BOOLEAN, Alone => clear
    PROVE  /\ Packet(next).aggregated \/ Accepts(d, Packet(next).kind)
           /\ Pushed(d, clear) \in DefragmenterType
           /\ Pushed(d, clear).last = next
           /\ Pushed(d, clear).state # "Init"
           /\ Pushed(d, clear).state = "InFragment" =>
                 /\ FromHead(Pushed(d, clear).buf)
                 /\ Pushed(d, clear).buf[Len(Pushed(d, clear).buf)].packet = next
                 /\ Unfinished(next)
           /\ Pushed(d, clear).state = "NotStarted" =>
                 Pushed(d, clear).buf = << >> /\ ~Unfinished(next)
           /\ Pushed(d, clear).state = "Skip" => Pushed(d, clear).buf = << >>
           /\ \A i \in DOMAIN Returned(d, clear) : Readable(Returned(d, clear)[i])
           /\ intact \/ Packet(next).kind \in {"NotFragmented", "FragmentHead"} =>
                 /\ Unfinished(next) => Pushed(d, clear).state = "InFragment"
                 /\ ~Unfinished(next) => Len(Returned(d, clear)) = 1
<1> DEFINE kind == Packet(next).kind
           f == ReadOne(clear)
           Goal == /\ Packet(next).aggregated \/ Accepts(d, kind)
                   /\ Pushed(d, clear) \in DefragmenterType
                   /\ Pushed(d, clear).last = next
                   /\ Pushed(d, clear).state # "Init"
                   /\ Pushed(d, clear).state = "InFragment" =>
                         /\ FromHead(Pushed(d, clear).buf)
                         /\ Pushed(d, clear).buf[Len(Pushed(d, clear).buf)].packet = next
                         /\ Unfinished(next)
                   /\ Pushed(d, clear).state = "NotStarted" =>
                         Pushed(d, clear).buf = << >> /\ ~Unfinished(next)
                   /\ Pushed(d, clear).state = "Skip" => Pushed(d, clear).buf = << >>
                   /\ \A i \in DOMAIN Returned(d, clear) : Readable(Returned(d, clear)[i])
                   /\ intact \/ kind \in {"NotFragmented", "FragmentHead"} =>
                         /\ Unfinished(next) => Pushed(d, clear).state = "InFragment"
                         /\ ~Unfinished(next) => Len(Returned(d, clear)) = 1
<1>1. /\ d \in DefragmenterType
      /\ d.state \in {"InFragment", "NotStarted", "Skip"}
      /\ d.last = next
      /\ d.state \in {"InFragment", "NotStarted"} =>
            /\ d.state = deflagmenter.state
            /\ d.buf = deflagmenter.buf
            /\ deflagmenter.last = next - 1
      /\ d.state = "Skip" => d.buf = << >>
      /\ deflagmenter.state # "Init" /\ deflagmenter.last = next - 1
            => d.state = deflagmenter.state
  BY AfterSync DEF DefragmenterType, States
<1>2. /\ broadcast \in Broadcasts /\ next \in Nat \ {0} /\ BufferInv /\ IntactInv
      /\ deflagmenter.state # "Init" => deflagmenter.last \in DOMAIN broadcast.packets
  BY DEF ReceptionInv
<1>3. /\ Packet(next).aggregated \in BOOLEAN
      /\ Packet(next).aggregated => kind = "NotFragmented"
      /\ next - 1 \in DOMAIN broadcast.packets =>
            (Unfinished(next - 1) <=> kind \in {"FragmentBody", "FragmentTail"})
  <2>1. (next - 1) + 1 = next
    BY <1>2
  <2> QED
    BY <1>2, <2>1, PacketsOnAir
<1>4. kind \in Indicators
  BY <1>2, PacketsOnAir DEF MpuKinds, Ignored
<1>5. f \in Fragments /\ f.packet = next /\ (Alone => f.clear)
  BY DEF ReadOne, Fragments
<1>13. /\ DOMAIN <<f>> = {1} /\ Len(<<f>>) = 1 /\ <<f>>[1] = f /\ <<f>> # << >>
       /\ <<f>> \in Seq(Fragments)
       /\ <<f>>[1].packet = <<f>>[1].packet + 1 - 1
  BY <1>2, <1>5
<1>6. d.state = "InFragment" =>
         /\ FromHead(d.buf) /\ d.buf[Len(d.buf)].packet = next - 1
         /\ kind \in {"FragmentBody", "FragmentTail"}
  BY <1>1, <1>2, <1>3 DEF BufferInv
<1>7. d.state = "NotStarted" =>
         d.buf = << >> /\ kind \notin {"FragmentBody", "FragmentTail"}
  BY <1>1, <1>2, <1>3 DEF BufferInv
<1>8. intact /\ kind \in {"FragmentBody", "FragmentTail"} => d.state = "InFragment"
  <2> SUFFICES ASSUME intact, kind \in {"FragmentBody", "FragmentTail"}
               PROVE  d.state = "InFragment"
    OBVIOUS
  <2>1. next > 1
    BY <1>2 DEF IntactInv
  <2>2. next - 1 \in DOMAIN broadcast.packets
    BY <1>2, <2>1, PacketsOnAir
  <2>3. deflagmenter.state = "InFragment" /\ deflagmenter.last = next - 1
    BY <1>2, <1>3, <2>2 DEF IntactInv
  <2> QED
    BY <1>1, <2>3
<1>9. CASE kind = "NotFragmented"
  <2>1. d.state \in {"NotStarted", "Skip"} /\ d.buf = << >>
    BY <1>1, <1>6, <1>7, <1>9
  <2>2. Readable(<<f>>)
    BY <1>5, <1>9, <1>13 DEF Whole, InTheClear, Readable
  <2>3. Returned(d, clear) = << <<f>> >>
    BY <1>9 DEF Returned, Completed
  <2>4. ~Unfinished(next)
    BY <1>9 DEF Unfinished
  <2>5. CASE Packet(next).aggregated
    <3>1. Pushed(d, clear) = d
      BY <2>5 DEF Pushed
    <3> QED
      BY <1>1, <2>1, <2>2, <2>3, <2>4, <2>5, <3>1
  <2>6. CASE ~Packet(next).aggregated
    <3>1. Pushed(d, clear) = [d EXCEPT !.state = "NotStarted"]
      BY <1>9, <2>6 DEF Pushed, Push
    <3>2. Accepts(d, kind)
      BY <1>9, <2>1 DEF Accepts
    <3> QED
      BY <1>1, <2>1, <2>2, <2>3, <2>4, <3>1, <3>2 DEF DefragmenterType, States
  <2> QED
    BY <2>5, <2>6
<1>10. CASE kind = "FragmentHead"
  <2>1. d.state \in {"NotStarted", "Skip"} /\ d.buf = << >>
    BY <1>1, <1>6, <1>7, <1>10
  <2>2. Returned(d, clear) = << >>
    BY <1>3, <1>10 DEF Returned, Completed
  <2>3. Pushed(d, clear) = [d EXCEPT !.state = "InFragment", !.buf = Append(@, f)]
    BY <1>3, <1>10 DEF Pushed, Push
  <2>4. Accepts(d, kind)
    BY <1>10, <2>1 DEF Accepts
  <2>5. Append(d.buf, f) = <<f>>
    BY <2>1
  <2>6. Pushed(d, clear).buf = <<f>> /\ Pushed(d, clear).state = "InFragment"
        /\ Pushed(d, clear).last = next /\ Pushed(d, clear) \in DefragmenterType
    <3>1. d \in [state : States, last : Nat, buf : Seq(Fragments)] /\ d.last = next
      BY <1>1 DEF DefragmenterType
    <3>2. <<f>> \in Seq(Fragments) /\ "InFragment" \in States
      BY <1>13 DEF States
    <3>3. Pushed(d, clear) = [d EXCEPT !.state = "InFragment", !.buf = <<f>>]
      BY <2>3, <2>5
    <3> HIDE DEF f
    <3> QED
      BY <3>1, <3>2, <3>3 DEF DefragmenterType
  <2>7. FromHead(<<f>>)
    BY <1>5, <1>10, <1>13 DEF FromHead, InTheClear
  <2>8. Unfinished(next)
    BY <1>10 DEF Unfinished
  <2> QED
    BY <1>5, <1>10, <1>13, <2>2, <2>4, <2>6, <2>7, <2>8
<1>11. CASE kind \in {"FragmentBody", "FragmentTail"} /\ d.state = "Skip"
  <2>1. Returned(d, clear) = << >>
    BY <1>3, <1>11 DEF Returned, Completed
  <2>2. Pushed(d, clear) = d
    BY <1>3, <1>11 DEF Pushed, Push
  <2>3. Accepts(d, kind)
    BY <1>11 DEF Accepts
  <2>4. ~(intact \/ kind \in {"NotFragmented", "FragmentHead"})
    BY <1>8, <1>11
  <2> QED
    BY <1>1, <1>11, <2>1, <2>2, <2>3, <2>4
<1>12. ASSUME kind \in {"FragmentBody", "FragmentTail"}, d.state = "InFragment"
       PROVE  Goal
  <2> DEFINE b == Append(d.buf, f)
  <2>1. d.buf \in Seq(Fragments) /\ Len(d.buf) \in Nat /\ d.buf # << >>
    BY <1>1, <1>6, <1>12 DEF DefragmenterType, FromHead
  <2>2. b \in Seq(Fragments) /\ Len(b) = Len(d.buf) + 1 /\ b[Len(b)] = f
        /\ DOMAIN b = 1..Len(b) /\ DOMAIN d.buf = 1..Len(d.buf) /\ Len(d.buf) >= 1
        /\ \A i \in 1..Len(d.buf) : b[i] = d.buf[i]
    BY <1>5, <2>1
  <2>3. \A i \in 1..Len(d.buf) :
           /\ Alone => d.buf[i].clear
           /\ d.buf[i].packet = d.buf[1].packet + i - 1
           /\ d.buf[i].packet \in Nat
    <3>1. \A n \in DOMAIN broadcast.packets : n \in Nat
      BY <1>2, PacketsOnAir
    <3>2. \A i \in 1..Len(d.buf) : d.buf[i] \in Fragments
      BY <2>1
    <3> QED
      BY <1>6, <1>12, <2>2, <3>1, <3>2 DEF FromHead, InTheClear, Fragments
  <2>4. \A i \in DOMAIN b :
           (Alone => b[i].clear) /\ b[i].packet = b[1].packet + i - 1
    <3>1. d.buf[Len(d.buf)].packet = next - 1 /\ Len(d.buf) \in 1..Len(d.buf)
          /\ 1 \in 1..Len(d.buf)
      BY <1>6, <1>12, <2>1, <2>2
    <3>2. b[1] = d.buf[1] /\ d.buf[1].packet \in Nat
          /\ next - 1 = d.buf[1].packet + Len(d.buf) - 1
      BY <2>2, <2>3, <3>1
    <3>3. \A i \in 1..Len(d.buf) :
             (Alone => b[i].clear) /\ b[i].packet = b[1].packet + i - 1
      BY <2>2, <2>3, <3>2
    <3>4. (Alone => b[Len(b)].clear) /\ b[Len(b)].packet = b[1].packet + Len(b) - 1
      <4> HIDE DEF b, f
      <4>1. b[Len(b)].packet = next /\ (Alone => b[Len(b)].clear) /\ next \in Nat
        BY <1>2, <1>5, <2>2
      <4>2. Len(b) = Len(d.buf) + 1 /\ Len(d.buf) \in Nat
        BY <2>1, <2>2
      <4>3. b[1].packet \in Nat /\ next - 1 = b[1].packet + Len(d.buf) - 1
        BY <3>2
      <4>4. PICK l \in Nat, p \in Nat : l = Len(d.buf) /\ p = b[1].packet
        BY <4>2, <4>3
      <4>5. next \in Nat /\ next - 1 = p + l - 1
        BY <4>1, <4>3, <4>4
      <4>6. next = p + (l + 1) - 1
        BY <4>5
      <4>7. Len(b) = l + 1
        BY <4>2, <4>4
      <4>8. b[Len(b)].packet = b[1].packet + Len(b) - 1
        BY <4>1, <4>4, <4>6, <4>7
      <4> QED
        BY <4>1, <4>8
    <3>5. \A i \in DOMAIN b : i \in 1..Len(d.buf) \/ i = Len(b)
      BY <2>1, <2>2
    <3> HIDE DEF b
    <3> QED
      BY <3>3, <3>4, <3>5
  <2>5. Packet(b[1].packet).kind = "FragmentHead" /\ b # << >>
    BY <1>6, <1>12, <2>2 DEF FromHead
  <2>6. Accepts(d, kind)
    BY <1>12 DEF Accepts
  <2>7. CASE kind = "FragmentBody"
    <3>1. Returned(d, clear) = << >>
      BY <1>3, <2>7 DEF Returned, Completed
    <3>2. Pushed(d, clear) = [d EXCEPT !.buf = Append(@, f)]
      BY <1>3, <1>12, <2>7 DEF Pushed, Push
    <3>3. Pushed(d, clear).buf = b /\ Pushed(d, clear).state = "InFragment"
          /\ Pushed(d, clear).last = next /\ Pushed(d, clear) \in DefragmenterType
      BY <1>1, <1>12, <2>2, <3>2 DEF DefragmenterType
    <3>4. FromHead(b) /\ b[Len(b)].packet = next
      BY <1>5, <2>2, <2>4, <2>5 DEF FromHead, InTheClear
    <3>5. Unfinished(next)
      BY <2>7 DEF Unfinished
    <3> HIDE DEF b
    <3> QED
      BY <2>6, <3>1, <3>3, <3>4, <3>5
  <2>8. CASE kind = "FragmentTail"
    <3>1. Returned(d, clear) = << b >>
      BY <1>3, <1>12, <2>8 DEF Returned, Completed
    <3>2. Pushed(d, clear) = [d EXCEPT !.state = "NotStarted", !.buf = << >>]
      BY <1>3, <1>12, <2>8 DEF Pushed, Push
    <3>3. Pushed(d, clear).buf = << >> /\ Pushed(d, clear).state = "NotStarted"
          /\ Pushed(d, clear).last = next /\ Pushed(d, clear) \in DefragmenterType
      <4>1. << >> \in Seq(Fragments)
        OBVIOUS
      <4> QED
        BY <1>1, <3>2, <4>1 DEF DefragmenterType, States
    <3>4. Readable(b)
      BY <1>5, <2>2, <2>4, <2>5, <2>8 DEF Whole, InTheClear, Readable
    <3>5. ~Unfinished(next)
      BY <2>8 DEF Unfinished
    <3> HIDE DEF b
    <3> QED
      BY <2>6, <3>1, <3>3, <3>4, <3>5
  <2> QED
    BY <1>12, <2>7, <2>8
<1> QED
  BY <1>1, <1>4, <1>7, <1>9, <1>10, <1>11, <1>12 DEF Indicators

\* A packet that is decrypted, with whatever key (mmt.rs:205-300): the
\* defragmenter goes on with what was pushed and gives what it returned, and
\* only a key of another stream makes the assertion on the lengths fail.
LEMMA ReadMfuOfAPacket ==
    ASSUME NEW s, NEW d, NEW clear \in BOOLEAN, ReadMfu(s, d, clear),
           Packet(next).aggregated \/ Accepts(d, Packet(next).kind),
           \A i \in DOMAIN Returned(d, clear) : Readable(Returned(d, clear)[i])
    PROVE  /\ deflagmenter' = Pushed(d, clear)
           /\ out'.units = Returned(d, clear)
           /\ panic' \in {None, "length", "au_count"}
           /\ Alone => panic' \in {None, "au_count"}
<1> DEFINE units == IF Packet(next).aggregated THEN << <<ReadOne(clear)>> >>
                    ELSE Completed(d, Packet(next).kind, ReadOne(clear))
           read == IF units = << >> THEN Reading(s)
                   ELSE Readings(s, Packet(next))[Packet(next).last]
<1>1. units = Returned(d, clear)
  BY DEF Returned
<1>2. Alone => ~BadLength(units, Packet(next).aggregated)
  BY <1>1 DEF BadLength, Readable
<1>3. /\ deflagmenter' = IF Packet(next).aggregated THEN d
                         ELSE Push(d, Packet(next).kind, ReadOne(clear))
      /\ out'.units = units
      /\ IF BadLength(units, Packet(next).aggregated) /\ ~read.outOfRange
         THEN panic' = "length"
         ELSE panic' = IF read.outOfRange THEN "au_count" ELSE None
  BY DEF ReadMfu, ReadOne
<1> HIDE DEF units, read
<1> QED
  BY <1>1, <1>2, <1>3 DEF Pushed

\* A packet that is read keeps what holds between packets.
LEMMA ReadPacketKeepsUnits ==
    ASSUME ReceptionInv, NothingTorn, Reads,
           ReadPacket(Outcome(Own, broadcast.scrambled)), TakeKeys(Own)
    PROVE  ReceptionInv' /\ NothingTorn' /\ UnitsComeThrough'
<1> DEFINE o == Outcome(Own, broadcast.scrambled)
           s == EnterMpu(Packet(next).mpu)
           d == Sync(deflagmenter, next)
<1>1. /\ broadcast \in Broadcasts /\ broadcast.scrambled \in BOOLEAN
      /\ DescramblerTypeOK /\ OwnKeysInv /\ next \in Nat \ {0}
      /\ DOMAIN broadcast.packets = 1..Len(broadcast.packets)
      /\ Len(broadcast.packets) \in Nat
  BY PacketsOnAir DEF ReceptionInv
<1>2. /\ panic = None /\ next \in DOMAIN broadcast.packets
      /\ next' = next + 1 /\ broadcast' = broadcast /\ ~Ignored(next)
  BY DEF ReadPacket, Advance
<1>3. /\ o \in {"clear", "garbled", "failed"}
      /\ Alone => o # "garbled"
      /\ o # "failed" => ~Deaf /\ (broadcast.scrambled => KeyInUse(Own) # None)
      /\ o = "failed" => Deaf \/ (broadcast.scrambled /\ KeyInUse(Own) = None)
      /\ key[Own] # None => KeyInUse(Own) # None
  BY <1>1, KeysOfAStream
<1>4. key'[Own] = KeyInUse(Own) /\ (Deaf' <=> Deaf)
  BY <1>1 DEF TakeKeys, Deaf, DescramblerTypeOK
<1>5. DescramblerTypeOK' /\ OwnKeysInv'
  BY <1>1, <1>2, DescramblerKeepsType, OwnKeysKept DEF DescramblerStep
<1>6. CASE o = "failed"
  <2>1. deflagmenter' = d /\ out' = Nothing /\ panic' = None /\ intact' = FALSE
    BY <1>2, <1>6 DEF ReadPacket, Remember
  <2>2. /\ d \in DefragmenterType
        /\ d.state # "Init" /\ d.last = next
        /\ d.state \in {"InFragment", "NotStarted"} =>
              /\ d.state = deflagmenter.state
              /\ d.buf = deflagmenter.buf
        /\ d.state = "Skip" => d.buf = << >>
    BY <1>2, AfterSync
  <2> HIDE DEF d
  <2>3. d.state \in {"InFragment", "NotStarted"} => Deaf
    BY <1>3, <1>6, <2>2 DEF ReceptionInv, KeyInv
  <2>4. d.state = "InFragment" => FromHead(d.buf)
    BY <1>2, <2>2 DEF ReceptionInv, BufferInv
  <2>5. d.state = "NotStarted" => d.buf = << >>
    BY <1>2, <2>2 DEF ReceptionInv, BufferInv
  <2>6. BufferInv'
    BY <1>2, <1>4, <2>1, <2>2, <2>3, <2>4, <2>5
       DEF BufferInv, FromHead, InTheClear, Alone, Packet, DefragmenterType, States
  <2>7. KeyInv'
    BY <1>2, <1>3, <1>4, <2>1, <2>2 DEF KeyInv, ReceptionInv
  <2>8. IntactInv' /\ UnitsComeThrough'
    BY <2>1 DEF IntactInv, UnitsComeThrough
  <2>9. NothingTorn'
    BY <1>2, <2>1 DEF NothingTorn, Nothing, Alone
  <2>10. deflagmenter' \in [state : States, last : Nat, buf : Seq(Fragments')]
    BY <1>2, <2>1, <2>2 DEF DefragmenterType, Fragments
  <2> QED
    BY <1>1, <1>2, <1>5, <2>1, <2>2, <2>6, <2>7, <2>8, <2>9, <2>10 DEF ReceptionInv
<1>7. ASSUME NEW clear \in BOOLEAN, o # "failed", (o = "clear") = clear
      PROVE  ReceptionInv' /\ NothingTorn' /\ UnitsComeThrough'
  <2>1. ~Deaf /\ (Alone => clear)
    BY <1>3, <1>7
  <2>2. /\ Packet(next).aggregated \/ Accepts(d, Packet(next).kind)
        /\ Pushed(d, clear) \in DefragmenterType
        /\ Pushed(d, clear).last = next
        /\ Pushed(d, clear).state # "Init"
        /\ Pushed(d, clear).state = "InFragment" =>
              /\ FromHead(Pushed(d, clear).buf)
              /\ Pushed(d, clear).buf[Len(Pushed(d, clear).buf)].packet = next
              /\ Unfinished(next)
        /\ Pushed(d, clear).state = "NotStarted" =>
              Pushed(d, clear).buf = << >> /\ ~Unfinished(next)
        /\ Pushed(d, clear).state = "Skip" => Pushed(d, clear).buf = << >>
        /\ \A i \in DOMAIN Returned(d, clear) : Readable(Returned(d, clear)[i])
        /\ intact \/ Packet(next).kind \in {"NotFragmented", "FragmentHead"} =>
              /\ Unfinished(next) => Pushed(d, clear).state = "InFragment"
              /\ ~Unfinished(next) => Len(Returned(d, clear)) = 1
    BY <1>2, <2>1, PushKeepsUnits
  <2>3. ReadMfu(s, d, o = "clear") /\ Remember(o = "clear")
    BY <1>7 DEF ReadPacket
  <2>4. ReadMfu(s, d, clear)
    BY <1>7, <2>3
  <2>5. intact' => (intact \/ Packet(next).kind \in {"NotFragmented", "FragmentHead"})
    <3>1. Packet(next).kind \in Indicators
      BY <1>1, <1>2, PacketsOnAir DEF MpuKinds, Ignored
    <3> QED
      BY <2>3, <3>1 DEF Remember, Indicators
  <2> HIDE DEF s, d, o
  <2>6. /\ deflagmenter' = Pushed(d, clear)
        /\ out'.units = Returned(d, clear)
        /\ panic' \in {None, "length", "au_count"}
        /\ Alone => panic' \in {None, "au_count"}
    BY <2>2, <2>4, ReadMfuOfAPacket
  <2>7. BufferInv'
    BY <1>2, <2>2, <2>6 DEF BufferInv, FromHead, InTheClear, Alone, Packet, Unfinished,
                            DefragmenterType, States
  <2>8. KeyInv'
    BY <1>2, <1>3, <1>4, <1>7 DEF KeyInv
  <2>9. next' > 1 /\ next' - 1 = next
    BY <1>1, <1>2
  <2>10. IntactInv'
    BY <1>2, <2>2, <2>5, <2>6, <2>9 DEF IntactInv, Unfinished, Packet
  <2>11. UnitsComeThrough'
    BY <1>2, <2>2, <2>5, <2>6, <2>9 DEF UnitsComeThrough, Unfinished, Packet
  <2>12. NothingTorn'
    <3>1. None \notin {"fragment", "length"}
      BY MmtAssumption DEF MmtAssumption
    <3>2. \A i \in DOMAIN Returned(d, clear) : Readable(Returned(d, clear)[i])
      BY <2>2
    <3>3. Alone' <=> Alone
      BY <1>2 DEF Alone
    <3>4. PICK units : units = Returned(d, clear)
      OBVIOUS
    <3>5. ASSUME NEW i \in DOMAIN units
          PROVE  Whole(units[i])' /\ (Alone' => InTheClear(units[i])')
      <4>1. Readable(units[i])
        BY <3>2, <3>4, <3>5
      <4>2. Whole(units[i])'
        BY <1>2, <4>1 DEF Readable, Whole, Packet
      <4>3. Alone' => InTheClear(units[i])'
        BY <3>3, <4>1 DEF Readable, InTheClear
      <4> QED
        BY <4>2, <4>3
    <3>6. out'.units = units
      BY <2>6, <3>4
    <3>7. (\A i \in DOMAIN out.units :
              Whole(out.units[i]) /\ (Alone => InTheClear(out.units[i])))'
      BY <3>5, <3>6
    <3>8. panic' # "fragment" /\ (Alone' => panic' # "length")
      BY <2>6, <3>1, <3>3
    <3> QED
      BY <3>7, <3>8 DEF NothingTorn
  <2>13. deflagmenter' \in [state : States, last : Nat, buf : Seq(Fragments')]
    BY <1>2, <2>2, <2>6 DEF DefragmenterType, Fragments
  <2> QED
    BY <1>1, <1>2, <1>5, <2>2, <2>6, <2>7, <2>8, <2>10, <2>11, <2>12, <2>13
       DEF ReceptionInv
<1>8. (o = "clear") \in BOOLEAN
  OBVIOUS
<1> QED
  BY <1>3, <1>6, <1>7, <1>8

\* A packet that is ignored or lost leaves the defragmenter alone; the unit on
\* air is intact no more, unless the packet is the metadata between two.
LEMMA SkipPacketKeepsUnits ==
    ASSUME ReceptionInv, NothingTorn, IgnorePacket \/ LosePacket,
           UNCHANGED descramblerVars
    PROVE  ReceptionInv' /\ NothingTorn' /\ UnitsComeThrough'
<1>1. /\ broadcast \in Broadcasts /\ DescramblerTypeOK /\ OwnKeysInv /\ next \in Nat \ {0}
      /\ DOMAIN broadcast.packets = 1..Len(broadcast.packets)
      /\ Len(broadcast.packets) \in Nat
  BY PacketsOnAir DEF ReceptionInv
<1>2. /\ panic = None /\ panic' = None /\ next \in DOMAIN broadcast.packets
      /\ next' = next + 1 /\ broadcast' = broadcast
      /\ deflagmenter' = deflagmenter /\ mpu' = mpu /\ out' = Nothing
  BY DEF IgnorePacket, LosePacket, Advance
<1>3. /\ isAsync' = isAsync /\ alive' = alive /\ key' = key
      /\ DescramblerTypeOK' /\ OwnKeysInv'
  BY <1>1, <1>2, DescramblerKeepsType, OwnKeysKept DEF descramblerVars, DescramblerStep
<1>4. \/ intact' = FALSE
      \/ /\ intact' = intact
         /\ Packet(next).kind = "Metadata"
  <2>1. CASE LosePacket
    BY <2>1 DEF LosePacket
  <2>2. CASE IgnorePacket /\ Packet(next).kind = "Metadata"
    BY <2>2 DEF IgnorePacket
  <2>3. CASE IgnorePacket /\ Packet(next).kind # "Metadata"
    <3>1. mpu = 0
      BY <2>3 DEF IgnorePacket, Ignored, ReceptionInv
    <3> QED
      BY <2>3, <3>1 DEF IgnorePacket, Remember
  <2> QED
    BY <2>1, <2>2, <2>3
<1>5. BufferInv'
  BY <1>2, <1>3 DEF ReceptionInv, BufferInv, FromHead, InTheClear, Alone, Packet,
                         Unfinished, Deaf
<1>6. KeyInv'
  BY <1>2, <1>3 DEF ReceptionInv, KeyInv
<1>7. next' > 1 /\ next' - 1 = next
  BY <1>1, <1>2
<1>8. IntactInv' /\ UnitsComeThrough'
  BY <1>2, <1>4, <1>7 DEF IntactInv, UnitsComeThrough, Unfinished, Packet
<1>9. NothingTorn'
  BY <1>2 DEF NothingTorn, Nothing, Alone
<1>10. deflagmenter' \in [state : States, last : Nat, buf : Seq(Fragments')]
  BY <1>2 DEF ReceptionInv, Fragments
<1> QED
  BY <1>1, <1>2, <1>3, <1>5, <1>6, <1>8, <1>9, <1>10 DEF ReceptionInv

\* What the descrambler does by itself: the thread of a stream that reads on
\* keeps its key, and a thread that has ended stays so.
LEMMA DescramblerKeepsUnits ==
    ASSUME ReceptionInv, NothingTorn, UnitsComeThrough, DescramblerStep,
           UNCHANGED <<broadcast, next, deflagmenter, mpu, out, panic, intact>>
    PROVE  ReceptionInv' /\ NothingTorn' /\ UnitsComeThrough'
<1>1. DescramblerTypeOK /\ DescramblerTypeOK' /\ OwnKeysInv /\ OwnKeysInv'
      /\ broadcast \in Broadcasts
  BY DescramblerKeepsType, OwnKeysKept DEF ReceptionInv
<1>2. (Deaf => Deaf') /\ (key[Own] # None => key'[Own] # None)
  <2>1. ASSUME NEW c \in {Own} \cup broadcast.others, PushEcm(c)
        PROVE  (Deaf => Deaf') /\ key' = key
    BY <2>1 DEF PushEcm, Deaf
  <2>2. ASSUME NEW c \in {Own} \cup broadcast.others, RecvKey(c)
        PROVE  (Deaf => Deaf') /\ (key[Own] # None => key'[Own] # None)
    <3>1. CASE key' = key
      BY <2>2, <3>1 DEF RecvKey, Deaf
    <3>2. CASE keys # << >> /\ key' = [key EXCEPT ![c] = KeyAfter(@, Head(keys))]
      <4>1. Head(keys) \in Answers
        BY <1>1, <3>2 DEF DescramblerTypeOK
      <4>2. key'[Own] = key[Own] \/ key'[Own] \in Clones
        BY <1>1, <3>2, <4>1 DEF DescramblerTypeOK, KeyAfter, Answers
      <4> QED
        BY <2>2, <4>2 DEF RecvKey, Deaf
    <3> QED
      BY <2>2, <3>1, <3>2 DEF RecvKey
  <2>3. ASSUME NEW c \in {Own} \cup broadcast.others, TakeKeys(c)
        PROVE  (Deaf => Deaf') /\ (key[Own] # None => key'[Own] # None)
    <3>1. key'[Own] = key[Own] \/ key'[Own] = KeyInUse(Own)
      BY <1>1, <2>3 DEF TakeKeys, DescramblerTypeOK
    <3>2. key[Own] # None => KeyInUse(Own) # None
      BY <1>1, PacketsOnAir, KeysOfAStream
    <3> QED
      BY <2>3, <3>1, <3>2 DEF TakeKeys, Deaf
  <2>4. CASE WorkerStep
    BY <2>4 DEF WorkerStep, DecryptEcm, SendKey, WorkerDies, Deaf
  <2>5. CASE UNCHANGED descramblerVars
    BY <2>5 DEF descramblerVars, Deaf
  <2> QED
    BY <2>1, <2>2, <2>3, <2>4, <2>5 DEF DescramblerStep
<1>3. (panic = None => BufferInv)'
  BY <1>2 DEF ReceptionInv, BufferInv, FromHead, InTheClear, Alone, Packet, Unfinished
<1>4. KeyInv'
  BY <1>2 DEF ReceptionInv, KeyInv
<1>5. IntactInv' /\ UnitsComeThrough'
  BY DEF ReceptionInv, IntactInv, UnitsComeThrough, Unfinished, Packet
<1>6. NothingTorn'
  BY DEF NothingTorn, Whole, InTheClear, Alone, Packet
<1>7. deflagmenter' \in [state : States, last : Nat, buf : Seq(Fragments')]
  BY DEF ReceptionInv, Fragments
<1> QED
  BY <1>1, <1>3, <1>4, <1>5, <1>6, <1>7 DEF ReceptionInv

-----------------------------------------------------------------------------
LEMMA UnitsAtFirst ==
    Init => ReceptionInv /\ NothingTorn /\ UnitsComeThrough
<1> SUFFICES ASSUME Init PROVE ReceptionInv /\ NothingTorn /\ UnitsComeThrough
  OBVIOUS
<1>1. /\ broadcast \in Broadcasts /\ next \in DOMAIN broadcast.packets
      /\ deflagmenter = NewDefragmenter /\ mpu = 0 /\ out = Nothing
      /\ panic = None /\ intact = FALSE
  BY DEF Init, MmtInit
<1>2. DOMAIN broadcast.packets = 1..Len(broadcast.packets)
      /\ Len(broadcast.packets) \in Nat
  BY <1>1, PacketsOnAir
<1>3. DescramblerTypeOK
  <2>1. isAsync \in BOOLEAN
    BY DEF Init, DescramblerInit
  <2>2. /\ ecms = << >> /\ keys = << >> /\ alive = TRUE /\ working = None
        /\ key = [c \in Clones |-> None] /\ waiting = {} /\ errors = 0
    BY DEF Init, DescramblerInit
  <2> QED
    BY <2>1, <2>2 DEF DescramblerTypeOK
<1>4. deflagmenter \in [state : States, last : Nat, buf : Seq(Fragments)]
  BY <1>1 DEF NewDefragmenter, States
<1>5. OwnKeysInv
  BY <1>3 DEF Init, DescramblerInit, OwnKeysInv
<1>7. BufferInv /\ KeyInv /\ IntactInv
  BY <1>1 DEF BufferInv, KeyInv, IntactInv, NewDefragmenter
<1>6. NothingTorn /\ UnitsComeThrough
  BY <1>1, MmtAssumption DEF NothingTorn, UnitsComeThrough, Nothing, MmtAssumption
<1> QED
  BY <1>1, <1>2, <1>3, <1>4, <1>5, <1>6, <1>7 DEF ReceptionInv, NewDefragmenter

LEMMA UnitsInEachStep ==
    ReceptionInv /\ NothingTorn /\ UnitsComeThrough /\ [Next]_vars
    => ReceptionInv' /\ NothingTorn' /\ UnitsComeThrough'
<1> SUFFICES ASSUME ReceptionInv, NothingTorn, UnitsComeThrough,
                    [Next]_vars
             PROVE  ReceptionInv' /\ NothingTorn' /\ UnitsComeThrough'
  OBVIOUS
<1>1. CASE ReceivePacket
  <2>1. CASE Reads /\ ReadPacket(Outcome(Own, broadcast.scrambled)) /\ TakeKeys(Own)
    BY <2>1, ReadPacketKeepsUnits
  <2>2. CASE (IgnorePacket \/ LosePacket) /\ UNCHANGED descramblerVars
    BY <2>2, SkipPacketKeepsUnits
  <2> QED
    BY <1>1, <2>1, <2>2 DEF ReceivePacket
<1>2. CASE ReceiveMpt
  BY <1>2, DescramblerKeepsUnits DEF DescramblerStep, ReceiveMpt, ReadMpt
<1>3. CASE ReceiveEcm
  BY <1>3, DescramblerKeepsUnits DEF DescramblerStep, ReceiveEcm, mmtVars
<1>4. CASE ReceiveKey
  BY <1>4, DescramblerKeepsUnits DEF DescramblerStep, ReceiveKey, mmtVars
<1>5. CASE OtherStream
  BY <1>5, DescramblerKeepsUnits DEF DescramblerStep, OtherStream, mmtVars
<1>6. CASE Worker
  BY <1>6, DescramblerKeepsUnits DEF DescramblerStep, Worker, mmtVars
<1>7. CASE UNCHANGED vars
  BY <1>7, DescramblerKeepsUnits DEF DescramblerStep, vars, mmtVars
<1> QED
  BY <1>1, <1>2, <1>3, <1>4, <1>5, <1>6, <1>7 DEF Next

\* Whatever packets are lost or cannot be decrypted: a unit that leaves the
\* defragmenter is a unit of the broadcast, and no assertion on the order of
\* fragments fails (deflag.rs:62-105).  If no other stream shares the descrambler
\* it was decrypted with its key, and no assertion on lengths fails
\* (mmt.rs:252).
THEOREM UnitsAreWhole == Spec => []NothingTorn
<1> DEFINE Inv == ReceptionInv /\ NothingTorn /\ UnitsComeThrough
<1>1. Init => Inv
  BY UnitsAtFirst
<1>2. Inv /\ [Next]_vars => Inv'
  BY UnitsInEachStep
<1> QED
  BY <1>1, <1>2, PTL DEF Spec

\* And each unit all of whose packets were read and decrypted with its key leaves
\* the defragmenter with the last of them: a loss, or a packet that cannot be
\* decrypted, costs no unit but the one it hits (deflag.rs:26-57).
THEOREM IntactUnitsComeThrough == Spec => []UnitsComeThrough
<1> DEFINE Inv == ReceptionInv /\ NothingTorn /\ UnitsComeThrough
<1>1. Init => Inv
  BY UnitsAtFirst
<1>2. Inv /\ [Next]_vars => Inv'
  BY UnitsInEachStep
<1> QED
  BY <1>1, <1>2, PTL DEF Spec

-----------------------------------------------------------------------------
\* What is under way between a stream that waits for its key and the card.
UnderWay == Len(ecms) + Len(keys) + (IF working = None THEN 0 ELSE 1)

OwedInv ==
    /\ DescramblerTypeOK /\ broadcast \in Broadcasts
    /\ IF isAsync THEN waiting = {} ELSE Alone /\ waiting \in {{}, {Own}}
    /\ ~isAsync /\ alive => UnderWay = IF waiting = {} THEN 0 ELSE 1

LEMMA OwedInEachStep ==
    ASSUME OwedInv, DescramblerStep, broadcast' = broadcast
    PROVE  OwedInv'
<1>1. DescramblerTypeOK /\ DescramblerTypeOK' /\ broadcast' \in Broadcasts
  BY DescramblerKeepsType DEF OwedInv
<1>2. isAsync' = isAsync
  BY DEF DescramblerStep, PushEcm, RecvKey, TakeKeys, WorkerStep, DecryptEcm, SendKey,
         WorkerDies, descramblerVars
<1>3. CASE isAsync
  <2>1. waiting = {}
    BY <1>3 DEF OwedInv
  <2>2. waiting' = {}
    BY <1>3, <2>1 DEF DescramblerStep, PushEcm, RecvKey, TakeKeys, WorkerStep,
                      DecryptEcm, SendKey, WorkerDies, descramblerVars
  <2> QED
    BY <1>1, <1>2, <1>3, <2>2 DEF OwedInv
<1>4. CASE ~isAsync
  <2>11. Alone /\ Alone'
    BY <1>4 DEF OwedInv, Alone
  <2> SUFFICES /\ waiting' \in {{}, {Own}}
               /\ alive' => UnderWay' = IF waiting' = {} THEN 0 ELSE 1
    BY <1>1, <1>2, <1>4, <2>11 DEF OwedInv
  <2>1. Len(ecms) \in Nat /\ Len(keys) \in Nat
    BY <1>1 DEF DescramblerTypeOK
  <2>2. /\ waiting \in {{}, {Own}} /\ {Own} # {}
        /\ alive => UnderWay = IF waiting = {} THEN 0 ELSE 1
    BY <1>4 DEF OwedInv
  <2>3. None \notin Answers
    OBVIOUS
  <2>4. CASE PushEcm(Own)
    <3>1. waiting = {} /\ waiting' = {Own} /\ ecms' = Append(ecms, Own)
      BY <1>4, <2>2, <2>4 DEF PushEcm
    <3>2. Len(ecms') = Len(ecms) + 1
      BY <1>1, <3>1 DEF DescramblerTypeOK
    <3> QED
      BY <2>1, <2>2, <2>4, <3>1, <3>2 DEF PushEcm, UnderWay
  <2>5. CASE RecvKey(Own)
    <3>1. waiting = {Own} /\ waiting' = {}
      BY <2>2, <2>5 DEF RecvKey
    <3>2. keys # << >> => Len(keys) >= 1 /\ Len(Tail(keys)) = Len(keys) - 1
      BY <1>1 DEF DescramblerTypeOK
    <3>3. CASE keys # << >> /\ keys' = Tail(keys)
      BY <2>1, <2>2, <2>5, <3>1, <3>2, <3>3 DEF RecvKey, UnderWay
    <3>4. CASE ~alive
      BY <2>5, <3>1, <3>4 DEF RecvKey
    <3> QED
      BY <2>5, <3>3, <3>4 DEF RecvKey
  <2>6. CASE TakeKeys(Own)
    BY <1>4, <2>2, <2>6 DEF TakeKeys, UnderWay
  <2>7. CASE DecryptEcm
    <3>1. Len(ecms') = Len(ecms) - 1
      BY <1>1, <2>7 DEF DescramblerTypeOK, DecryptEcm
    <3>2. working = None /\ working' # None
      <4>1. Head(ecms) \in Clones
        BY <1>1, <2>7 DEF DescramblerTypeOK, DecryptEcm
      <4>2. /\ [ecm |-> Head(ecms), ok |-> TRUE] \in Answers
            /\ [ecm |-> Head(ecms), ok |-> FALSE] \in Answers
        BY <4>1 DEF Answers
      <4>3. working' \in Answers
        BY <2>7, <4>2 DEF DecryptEcm
      <4> QED
        BY <2>3, <2>7, <4>3 DEF DecryptEcm
    <3> QED
      BY <2>1, <2>2, <2>7, <3>1, <3>2 DEF DecryptEcm, UnderWay
  <2>8. CASE SendKey
    <3>1. working # None /\ working' = None /\ Len(keys') = Len(keys) + 1
      BY <1>1, <2>3, <2>8 DEF DescramblerTypeOK, SendKey
    <3> QED
      BY <2>1, <2>2, <2>8, <3>1 DEF SendKey, UnderWay
  <2>9. CASE WorkerDies
    BY <2>2, <2>9 DEF WorkerDies
  <2>10. CASE UNCHANGED descramblerVars
    BY <2>2, <2>10 DEF descramblerVars, UnderWay
  <2> QED
    BY <2>4, <2>5, <2>6, <2>7, <2>8, <2>9, <2>10, <2>11
       DEF WorkerStep, DescramblerStep, Alone
<1> QED
  BY <1>1, <1>3, <1>4 DEF DescramblerTypeOK

\* A stream that waits for its key in push_ecm() has one ECM with the card and
\* no more, for any capacity of the channels and any number of refused ECMs: the
\* thread answers a refusal too, so the wait ends (descrambler.rs:41-99).
THEOREM WaitsForItsAnswer == Spec => []WaitingIsOwed
<1>1. Init => OwedInv
  <2> SUFFICES ASSUME Init PROVE OwedInv
    OBVIOUS
  <2>1. DescramblerTypeOK /\ broadcast \in Broadcasts
    BY UnitsAtFirst DEF ReceptionInv
  <2>2. ecms = << >> /\ keys = << >> /\ working = None /\ waiting = {}
        /\ (isAsync \/ Alone)
    BY DEF Init, DescramblerInit, Alone
  <2> QED
    BY <2>1, <2>2 DEF OwedInv, UnderWay
<1>2. OwedInv /\ [Next]_vars => OwedInv'
  <2> SUFFICES ASSUME OwedInv, [Next]_vars PROVE OwedInv'
    OBVIOUS
  <2>1. DescramblerStep
    BY DEF Next, ReceivePacket, ReceiveMpt, ReceiveEcm, ReceiveKey, OtherStream,
           Worker, vars, DescramblerStep
  <2>2. broadcast' = broadcast
    BY DEF Next, ReceivePacket, ReceiveMpt, ReceiveEcm, ReceiveKey, OtherStream,
           Worker, vars, mmtVars, ReadPacket, IgnorePacket, LosePacket, Advance, ReadMpt
  <2> QED
    BY <2>1, <2>2, OwedInEachStep
<1>3. OwedInv => WaitingIsOwed
  <2> SUFFICES ASSUME OwedInv, NEW c \in waiting, alive
               PROVE  UnderWay = 1
    BY DEF WaitingIsOwed, UnderWay
  <2>1. isAsync \in BOOLEAN
    BY DEF OwedInv, DescramblerTypeOK
  <2> QED
    BY <2>1 DEF OwedInv
<1> QED
  BY <1>1, <1>2, <1>3, PTL DEF Spec
=============================================================================
