------------------------------ MODULE Receiver ------------------------------
(* A stream of ISDB-S: the demuxer of MmtDemuxer on a clone of the          *)
(* Descrambler, next to the clones of other streams.                        *)
EXTENDS MmtDemuxer

CONSTANT Own \* the clone of the stream

ASSUME OwnAssumption ==
    Own \in Clones /\ \A b \in Broadcasts : Own \notin b.others

vars == <<mmtVars, descramblerVars>>

\* Only the descrambler of serve has clones, and it does not wait.
Init ==
    /\ MmtInit
    /\ DescramblerInit
    /\ isAsync \/ broadcast.others = {}

\* The thread of the stream reads; in push_ecm() it may wait for the card.
Reads == panic = None /\ Own \notin waiting

\* A packet of the asset, and what the descrambler makes of it.
ReceivePacket ==
    /\ Reads
    /\ \/ ReadPacket(Outcome(Own, broadcast.scrambled)) /\ TakeKeys(Own)
       \/ IgnorePacket /\ UNCHANGED descramblerVars
       \/ LosePacket /\ UNCHANGED descramblerVars

ReceiveMpt ==
    /\ Reads
    /\ \E mpus \in Describable : ReadMpt(mpus)
    /\ UNCHANGED descramblerVars

\* The ECM of the service, repeated on air for as long as it is scrambled.
ReceiveEcm ==
    /\ Reads /\ broadcast.scrambled /\ PushEcm(Own)
    /\ UNCHANGED mmtVars

ReceiveKey == RecvKey(Own) /\ UNCHANGED mmtVars

\* The streams of other services do the same on their clones.
OtherStream ==
    /\ \E c \in broadcast.others : PushEcm(c) \/ TakeKeys(c)
    /\ UNCHANGED mmtVars

Worker == WorkerStep /\ UNCHANGED mmtVars

Next ==
    \/ ReceivePacket \/ ReceiveMpt \/ ReceiveEcm \/ ReceiveKey
    \/ OtherStream \/ Worker

Spec == Init /\ [][Next]_vars

-----------------------------------------------------------------------------
TypeOK ==
    /\ broadcast \in Broadcasts
    /\ next \in 1..Len(broadcast.packets) + 1
    /\ known \in BOOLEAN /\ intact \in BOOLEAN
    /\ deflagmenter.state \in States
    /\ deflagmenter.last \in Nat
    /\ mpu \in Nat /\ stream.auCount \in 0..broadcast.aus
    /\ stream.type \in {None, "hev1", "mp4a"}
    /\ Cardinality(stream.timestamps) <= MaxTimestamps
    /\ (stream.timestamps # {} => stream.type # None)
    /\ panic \in {None, "fragment", "length", "au_count"}
    /\ DescramblerTypeOK

\* What of a unit the defragmenter holds.
Fragments == [packet : DOMAIN broadcast.packets, clear : BOOLEAN]

\* No other stream uses a clone of the descrambler.
Alone == broadcast.others = {}

\* The packets of one unit, from its head on, with none left out.
FromHead(fragments) ==
    /\ fragments # << >>
    /\ \A i \in DOMAIN fragments :
          fragments[i].packet = fragments[1].packet + i - 1
    /\ Alone => InTheClear(fragments)
    /\ Packet(fragments[1].packet).kind = "FragmentHead"

\* The packets that come before another one of their unit.
Unfinished(n) == Packet(n).kind \in {"FragmentHead", "FragmentBody"}

\* Once the thread of the descrambler has ended, no packet is read any more.
Deaf == isAsync /\ ~alive

\* What holds between packets: the buffer is the unit on air up to the last
\* packet, which is not its end; else it is empty.
BufferInv ==
    LET d == deflagmenter
    IN  CASE d.state = "InFragment" ->
               /\ FromHead(d.buf)
               /\ Deaf \/ /\ d.last = d.buf[Len(d.buf)].packet
                          /\ Unfinished(d.last)
          [] d.state = "NotStarted" -> d.buf = << >> /\ (Deaf \/ ~Unfinished(d.last))
          [] OTHER -> d.buf = << >>

\* Before anything was read, no key may be there; after it, it stays.
KeyInv ==
    deflagmenter.state \in {"InFragment", "NotStarted"} /\ broadcast.scrambled
        => key[Own] # None

\* A descrambler that is used alone knows only its own ECM and key.
OwnKeysInv ==
    Alone => /\ \A i \in DOMAIN ecms : ecms[i] = Own
             /\ \A i \in DOMAIN keys : keys[i].ecm = Own
             /\ working # None => working.ecm = Own
             /\ key[Own] \in {Own, None}

\* A unit all of whose packets were read is in the buffer.
IntactInv ==
    intact /\ panic = None =>
        /\ next > 1
        /\ Unfinished(next - 1) =>
              deflagmenter.state = "InFragment" /\ deflagmenter.last = next - 1

ReceptionInv ==
    /\ broadcast \in Broadcasts
    /\ next \in Nat \ {0} /\ next <= Len(broadcast.packets) + 1
    /\ deflagmenter \in [state : States, last : Nat, buf : Seq(Fragments)]
    /\ deflagmenter.state # "Init" =>
          deflagmenter.last \in DOMAIN broadcast.packets /\ deflagmenter.last < next
    /\ deflagmenter.state = "Init" => mpu = 0
    /\ panic = None => BufferInv
    /\ KeyInv /\ OwnKeysInv /\ IntactInv
    /\ DescramblerTypeOK

\* Whatever is lost, a unit that leaves the defragmenter is one unit of the
\* broadcast and all of it: no fragment follows that of another unit, and the
\* assertions on their order hold (deflag.rs:62-105).  If no other stream uses
\* the descrambler it was decrypted with its key, and the assertions on lengths
\* hold that a torn or garbled unit would fail (mmt.rs:252).
NothingTorn ==
    /\ \A i \in DOMAIN out.units :
          Whole(out.units[i]) /\ (Alone => InTheClear(out.units[i]))
    /\ panic # "fragment"
    /\ Alone => panic # "length"

\* And nothing else is lost: a unit whose packets were all read leaves the
\* defragmenter with the last of them, after any loss before it and after any
\* packet that could not be decrypted (deflag.rs:30-57).
UnitsComeThrough ==
    next > 1 /\ intact /\ panic = None
       /\ Packet(next - 1).kind \in {"NotFragmented", "FragmentTail"}
    => Len(out.units) = 1

\* An MPU that came whole and described, as did, for video, the one before it:
\* the access unit before is pending when it begins.
SoundIn(m, lost) == m \notin lost /\ (broadcast.type = "mp4a" \/ m - 1 \notin lost)

Sound(m) == SoundIn(m, damaged)

\* The NAL units of an access unit.
AccessUnit(m, a) ==
    {k \in DOMAIN broadcast.nals : broadcast.nals[k].mpu = m /\ broadcast.nals[k].au = a}

\* In a sound MPU the counting of access units (au_count, dts_pts) and the
\* parser agree: a sample is an access unit, with all its NAL units in order,
\* and has the time of that access unit.  The very first one goes without its
\* delimiter.
SampleInTime(sample) ==
    LET units == sample.units
        m == broadcast.nals[units[1]].mpu
        a == broadcast.nals[units[1]].au
    IN  /\ sample.time = <<m, a>>
        /\ \A j \in DOMAIN units : units[j] = units[1] + j - 1
        /\ {units[j] : j \in DOMAIN units} \in {AccessUnit(m, a), AccessUnit(m, a) \ {1}}

SamplesInTime ==
    \A i \in DOMAIN out.samples :
        LET units == out.samples[i].units
        IN  (\A j \in DOMAIN units : Sound(broadcast.nals[units[j]].mpu)) =>
                SampleInTime(out.samples[i])

\* The index into the offsets of an MPU stays in range as long as nothing is
\* lost or undescribed, and always for audio (mmt.rs:233).
CountStaysInMpu ==
    panic = "au_count" => stream.type = "hev1" /\ damaged # {}

\* assert!(stream.au_count < ext_timestamp.num_of_au as usize) (mmt.rs:233)
AuCountInRange == panic # "au_count"

\* assert_eq!(size as usize, bytes.remaining(), "insufficient buffer size")
\* (mmt.rs:252)
LengthsMatch == panic # "length"

\* A stream that waits for its key has one ECM with the card and no more: the
\* answer it gets is its own, and it does get one while the thread runs.
WaitingIsOwed ==
    \A c \in waiting :
        alive => Len(ecms) + Len(keys) + (IF working = None THEN 0 ELSE 1) = 1

-----------------------------------------------------------------------------
(* Why the times are right: how far the packets so far have come, ...       *)
Mpu(k) == broadcast.nals[k].mpu
Au(k) == broadcast.nals[k].au
Delimiter(k) == broadcast.nals[k].delimiter

\* The units that began, and those that ended, before the next packet.
Begun == IF next = 1 THEN 0 ELSE Packet(next - 1).last

Done ==
    IF next = 1 THEN 0
    ELSE IF Unfinished(next - 1) THEN Packet(next - 1).first - 1 ELSE Packet(next - 1).last

(* ... what stream s has in its fields then: that after d units the NAL     *)
(* units of sound MPUs in the parser are the beginning of an access unit,   *)
(* which has its time from its second NAL unit on, ...                      *)
StreamTypes ==
    [auCount : Nat, timestamps : SUBSET Nat, dtsPts : (Nat \X Nat) \cup {None},
     type : {None, "hev1", "mp4a"}, parser : Seq(Nat)]

StreamTyped(s) ==
    /\ s \in StreamTypes
    /\ s.auCount <= broadcast.aus
    /\ s.type \in {None, broadcast.type}
    /\ IsFiniteSet(s.timestamps) /\ Cardinality(s.timestamps) <= MaxTimestamps
    /\ s.timestamps # {} => s.type # None

OneAccessUnit(s) ==
    LET w == s.parser[Len(s.parser)]
    IN  /\ \A j \in DOMAIN s.parser :
              /\ s.parser[j] = s.parser[1] + j - 1
              /\ Mpu(s.parser[j]) = Mpu(w) /\ Au(s.parser[j]) = Au(w)
        /\ Delimiter(s.parser[1]) \/ s.parser[1] = 2
        /\ s.dtsPts = IF Delimiter(w) THEN None ELSE <<Mpu(w), Au(w)>>

Parsed(s, d, lost) ==
    /\ \A j \in DOMAIN s.parser : s.parser[j] \in 1 .. d
    /\ s.parser # << >> /\ (\A j \in DOMAIN s.parser : SoundIn(Mpu(s.parser[j]), lost)) =>
          LET w == s.parser[Len(s.parser)]
          IN  OneAccessUnit(s) /\ (w = d \/ Mpu(w + 1) # Mpu(w))

(* ... that in an MPU that came so far the parser has its last NAL unit, ...*)
Pending(s, d, lost) ==
    /\ d = 0 => s.dtsPts = None
    /\ d >= 1 /\ Mpu(d) \notin lost =>
          /\ ~Delimiter(d) =>
                /\ s.parser # << >> /\ s.parser[Len(s.parser)] = d
                /\ s.dtsPts # None
                /\ SoundIn(Mpu(d), lost) =>
                      \A j \in DOMAIN s.parser : Mpu(s.parser[j]) = Mpu(d)
          /\ Delimiter(d) /\ SoundIn(Mpu(d), lost) =>
                IF d = 1 THEN s.parser = << >> /\ s.dtsPts = <<Mpu(d), 0>>
                ELSE s.parser = <<d>> /\ s.dtsPts = None

(* ... and that in MPU m the access units are counted as they begin.        *)
Counted(s, d, m, lost) ==
    /\ m \notin lost =>
          /\ d >= 1 /\ Mpu(d) = m /\ SoundIn(m, lost) =>
                s.auCount = Au(d) + (IF broadcast.type = "hev1" /\ s.dtsPts = None THEN 0 ELSE 1)
          /\ d + 1 \in DOMAIN broadcast.nals /\ Mpu(d + 1) = m /\ (d = 0 \/ Mpu(d) # m) =>
                s.auCount = 0
    /\ broadcast.type = "mp4a" =>
          \A k \in DOMAIN broadcast.nals : k > d /\ Mpu(k) = m => s.auCount <= Au(k)

UnitsRead(s, d, m, lost) ==
    /\ Counted(s, d, m, lost)
    /\ broadcast.type = "hev1" => Parsed(s, d, lost) /\ Pending(s, d, lost)
    /\ broadcast.type = "mp4a" => s.parser = << >> /\ s.dtsPts = None

(* Reception had begun with the first unit of an MPU that came so far, mpu   *)
(* is that MPU, and all of the unit on air is in the buffer.                *)
OnAirInv ==
    /\ \A k \in 1 .. Begun : Mpu(k) \notin damaged => deflagmenter.state # "Init"
    /\ Begun >= 1 /\ Mpu(Begun) \notin damaged => mpu = Mpu(Begun)
    /\ deflagmenter.state # "Init" => mpu <= Packet(next - 1).mpu
    /\ next > 1 /\ Packet(next - 1).kind # "Metadata" /\ Packet(next - 1).mpu \notin damaged
          => intact

TimesInv ==
    /\ StreamTyped(stream) /\ mpu \in Nat /\ known \in BOOLEAN /\ intact \in BOOLEAN
    /\ panic \in {None, "fragment", "length", "au_count"}
    /\ broadcast.packets # << >>
    /\ panic = None =>
          /\ OnAirInv
          /\ IF deflagmenter.state = "Init"
             THEN stream.auCount = 0 /\ stream.parser = << >> /\ stream.dtsPts = None
             ELSE UnitsRead(stream, Done, mpu, damaged)
    /\ CountStaysInMpu /\ SamplesInTime
=============================================================================
