----------------------------- MODULE MmtDemuxer -----------------------------
(* MmtDemuxer of crates/chibitv/src/mmt.rs and its HevcParser (hevc.rs): it *)
(* makes timed access units of the packets of one asset of an MMT broadcast *)
(* (ISDB-S 4K/8K).                                                          *)
(*                                                                          *)
(* An asset comes in media processing units (MPUs), an MPU in access units, *)
(* an access unit of H.265 in NAL units, the first of which is a delimiter, *)
(* and a NAL unit in the fragments of one or more packets.  When an access  *)
(* unit is due is in the MPT, for each MPU ahead; an access unit knows its  *)
(* time by its place in the MPU, which the demuxer has to count (au_count). *)
(* Packets are lost on the way, and reception begins anywhere.              *)
EXTENDS Defragmenter, Descrambler, SequencesExt

CONSTANTS
    Broadcasts,   \* [type, scrambled, aus, nals, packets, others]: what may be
                  \* on air, and the clones other streams use meanwhile
    MaxTimestamps \* MAX_TIMESTAMP_DESCRIPTOR

MpuKinds == Indicators \cup {"Metadata"}

\* The NAL units of an asset (for audio: the access units) in their order: mpu
\* is the MPU of each, au the access unit, from 0 on.
NalUnits == [mpu : Nat, au : Nat, delimiter : BOOLEAN]

\* The packets of an asset, in the order of their packet_sequence_number: mpu
\* is the mpu_sequence_number, rap the rap_flag, kind the fragment_type and
\* the fragmentation_indicator; the packet carries the units from first to last
\* when aggregated, else one unit or a fragment of it.
Packets ==
    [mpu : Nat, rap : BOOLEAN, kind : MpuKinds, aggregated : BOOLEAN,
     first : Nat \ {0}, last : Nat]

WellFormed(packets) ==
    \A n \in DOMAIN packets :
        /\ n + 1 \in DOMAIN packets =>
              (packets[n].kind \in {"FragmentHead", "FragmentBody"}
                  <=> packets[n + 1].kind \in {"FragmentBody", "FragmentTail"})
        /\ packets[n].aggregated => packets[n].kind = "NotFragmented"

ASSUME MmtAssumption ==
    /\ \A b \in Broadcasts :
          /\ b.type \in {"hev1", "mp4a"} /\ b.scrambled \in BOOLEAN
          /\ b.aus \in Nat \ {0} /\ b.others \in SUBSET Clones
          /\ b.nals \in Seq(NalUnits)
          /\ b.packets \in Seq(Packets) /\ WellFormed(b.packets)
    /\ MaxTimestamps \in Nat \ {0}
    /\ None \notin {"hev1", "mp4a", "fragment", "length", "au_count"}
    /\ None \notin Nat \X Nat

\* Access units begin with a delimiter, which is not all of them.
Begins(b, k) == b.type = "mp4a" \/ b.nals[k].delimiter

Unit(b, k) == [mpu |-> b.nals[k].mpu, au |-> b.nals[k].au]

Successors(unit) ==
    {[mpu |-> unit.mpu, au |-> unit.au + 1], [mpu |-> unit.mpu + 1, au |-> 0]}

UnitsInOrder(b) ==
    /\ \A k \in DOMAIN b.nals :
          /\ b.nals[k].au < b.aus
          /\ k = 1 => Begins(b, k) /\ b.nals[k].au = 0
          /\ k > 1 => IF Begins(b, k)
                      THEN /\ ~b.nals[k - 1].delimiter
                           /\ Unit(b, k) \in Successors(Unit(b, k - 1))
                      ELSE Unit(b, k) = Unit(b, k - 1)
    /\ \A j, k \in DOMAIN b.nals :
          j < k => \/ b.nals[j].mpu < b.nals[k].mpu
                   \/ b.nals[j].mpu = b.nals[k].mpu /\ b.nals[j].au <= b.nals[k].au

PacketsInOrder(b) ==
    \A n \in DOMAIN b.packets :
        LET p == b.packets[n]
            q == b.packets[n - 1]
        IN  /\ p.last <= Len(b.nals)
            /\ IF p.kind = "Metadata" THEN p.last = p.first - 1 ELSE p.first <= p.last
            /\ p.kind # "Metadata" /\ ~p.aggregated => p.first = p.last
            /\ \A k \in p.first .. p.last : b.nals[k].mpu = p.mpu
            /\ n = 1 => p.first = 1 /\ p.kind \notin {"FragmentBody", "FragmentTail"}
            /\ n > 1 => /\ p.mpu \in {q.mpu, q.mpu + 1}
                        /\ p.first = IF q.kind \in {"FragmentHead", "FragmentBody"}
                                     THEN q.first ELSE q.last + 1

ASSUME OnAirAssumption ==
    \A b \in Broadcasts : UnitsInOrder(b) /\ PacketsInOrder(b)

VARIABLES
    broadcast, \* what is on air
    next,      \* the number of the packet that comes next
    known,     \* streams: there is an entry for the asset
    deflagmenter, \* deflagmenter of the MmtStream of the asset
    mpu,       \* its last_sequence_number
    stream,    \* its other fields
    out,       \* what the last packet gave: units, samples
    panic,     \* the assertion that ended the thread, or None
    intact,    \* every packet of the unit on air so far came and was decrypted,
               \* once the first random access point was there
    damaged    \* the MPUs of which a packet was lost or came undescribed

mmtVars ==
    <<broadcast, next, known, deflagmenter, mpu, stream, out, panic, intact, damaged>>

Packet(n) == broadcast.packets[n]

Nothing == [units |-> << >>, samples |-> << >>]

NewStream ==
    [auCount |-> 0, timestamps |-> {}, dtsPts |-> None, type |-> None,
     parser |-> << >>]

\* Reception begins at any packet of the first MPU.
MmtInit ==
    /\ broadcast \in Broadcasts
    /\ next \in {n \in DOMAIN broadcast.packets :
                    broadcast.packets[n].mpu = broadcast.packets[1].mpu}
    /\ known = FALSE
    /\ deflagmenter = NewDefragmenter
    /\ mpu = 0
    /\ stream = NewStream
    /\ out = Nothing
    /\ panic = None
    /\ intact = FALSE
    /\ damaged = IF next = 1 THEN {} ELSE {broadcast.packets[1].mpu}

-----------------------------------------------------------------------------
(* read_mfu() *)

\* A unit is readable if it is all there and was decrypted with its key.  The
\* fragments are [packet, clear].
InTheClear(fragments) == \A i \in DOMAIN fragments : fragments[i].clear

Whole(fragments) ==
    /\ \A i \in DOMAIN fragments :
          fragments[i].packet = fragments[1].packet + i - 1
    /\ Packet(fragments[1].packet).kind \in {"NotFragmented", "FragmentHead"}
    /\ Packet(fragments[Len(fragments)].packet).kind
          \in {"NotFragmented", "FragmentTail"}

\* The assertion on the length of an H.265 unit, and those on the lengths in an
\* aggregated packet.
BadLength(units, aggregated) ==
    /\ \E i \in DOMAIN units : ~(Whole(units[i]) /\ InTheClear(units[i]))
    /\ aggregated \/ stream.type = "hev1"

\* The units that a packet carries, or that end in it.
Contents(packet) == packet.first .. packet.last

\* The closure over the units: the stream, the samples, and whether the index
\* of an access unit was out of range.
Reading(s) == [stream |-> s, samples |-> << >>, outOfRange |-> FALSE]

\* The time of the next access unit of the MPU, taken when none is pending and
\* the MPU is described.  A time is named by the access unit it belongs to.
TakeTime(r, number) ==
    LET s == r.stream
    IN  IF s.dtsPts # None \/ number \notin s.timestamps THEN r
        ELSE IF s.auCount >= broadcast.aus THEN [r EXCEPT !.outOfRange = TRUE]
        ELSE [r EXCEPT !.stream.dtsPts = <<number, s.auCount>>,
                       !.stream.auCount = @ + 1]

\* Mutant: a sample that leaves the time pending.
EmitAndKeep(r, units) ==
    [r EXCEPT !.samples = Append(@, [units |-> units, time |-> r.stream.dtsPts])]

\* A sample takes the pending time with it.
Emit(r, units) ==
    [r EXCEPT !.samples = Append(@, [units |-> units, time |-> r.stream.dtsPts]),
              !.stream.dtsPts = None]

\* HevcParser::push(): a delimiter completes the access unit in the buffer; one
\* that finds it empty is not kept.
ParseHevc(r, k) ==
    IF ~broadcast.nals[k].delimiter THEN [r EXCEPT !.stream.parser = Append(@, k)]
    ELSE IF r.stream.parser = << >> THEN r
    ELSE [Emit(r, r.stream.parser) EXCEPT !.stream.parser = <<k>>]

ReadUnit(r, number, k) ==
    LET timed == TakeTime(r, number)
    IN  IF timed.outOfRange THEN timed
        ELSE CASE timed.stream.type = "hev1" -> ParseHevc(timed, k)
               [] timed.stream.type = "mp4a" -> Emit(timed, <<k>>)
               [] OTHER -> timed

\* What is read of a packet after each of its units.
Readings(s, packet) ==
    LET read[k \in {packet.first - 1} \cup Contents(packet)] ==
            IF k = packet.first - 1 THEN Reading(s)
            ELSE ReadUnit(read[k - 1], packet.mpu, k)
    IN  read

\* A packet of stream s and defragmenter d.  An aggregated one bypasses the
\* defragmenter.
ReadMfu(s, d, clear) ==
    LET packet == Packet(next)
        fragment == [packet |-> next, clear |-> clear]
        units == IF packet.aggregated THEN << <<fragment>> >>
                 ELSE Completed(d, packet.kind, fragment)
        read == IF units = << >> THEN Reading(s) ELSE Readings(s, packet)[packet.last]
    IN  IF ~packet.aggregated /\ ~Accepts(d, packet.kind)
        THEN /\ panic' = "fragment"
             /\ out' = Nothing
             /\ stream' = s /\ deflagmenter' = d
        ELSE /\ deflagmenter' = IF packet.aggregated THEN d
                                ELSE Push(d, packet.kind, fragment)
             /\ IF BadLength(units, packet.aggregated) /\ ~read.outOfRange
                THEN /\ panic' = "length"
                     /\ stream' = s
                     /\ out' = [units |-> units, samples |-> << >>]
                ELSE /\ panic' = IF read.outOfRange THEN "au_count" ELSE None
                     /\ stream' = read.stream
                     /\ out' = [units |-> units,
                                samples |-> IF read.outOfRange THEN << >> ELSE read.samples]

-----------------------------------------------------------------------------
(* read_packets() *)

\* Mutant: access units counted on from one MPU to the next.
CountOn(number) == stream

\* Another MPU than the one before: its access units are counted anew.
EnterMpu(number) ==
    IF deflagmenter.state # "Init" /\ number # mpu
    THEN [stream EXCEPT !.auCount = 0]
    ELSE stream

\* Before the first random access point, nothing is read.
Ignored(n) ==
    \/ Packet(n).kind = "Metadata"
    \/ deflagmenter.state = "Init" /\ ~Packet(n).rap

Advance ==
    /\ panic = None
    /\ next \in DOMAIN broadcast.packets
    /\ next' = next + 1
    /\ UNCHANGED broadcast

\* What the model remembers of the packet for the properties.
Remember(readable) ==
    /\ intact' =
          /\ readable
          /\ Packet(next).kind \in {"FragmentBody", "FragmentTail"} => intact
    /\ damaged' = IF readable /\ Packet(next).mpu \in stream.timestamps
                  THEN damaged ELSE damaged \cup {Packet(next).mpu}

\* A packet that carries nothing for a reader.
IgnorePacket ==
    /\ Advance
    /\ Ignored(next)
    /\ known' = TRUE
    /\ out' = Nothing
    /\ IF Packet(next).kind = "Metadata"
       THEN UNCHANGED <<intact, damaged>>
       ELSE Remember(mpu # 0)
    /\ UNCHANGED <<deflagmenter, mpu, stream, panic>>

\* A packet of a unit, which the descrambler decrypts with the right key
\* ("clear"), with another one ("garbled") or not at all ("failed").
ReadPacket(outcome) ==
    LET s == EnterMpu(Packet(next).mpu)
        d == Sync(deflagmenter, next)
    IN  /\ Advance
        /\ ~Ignored(next)
        /\ known' = TRUE
        /\ mpu' = Packet(next).mpu
        /\ \/ /\ outcome = "failed"
              /\ stream' = s /\ deflagmenter' = d
              /\ out' = Nothing
              /\ UNCHANGED panic
           \/ /\ outcome # "failed"
              /\ ReadMfu(s, d, outcome = "clear")
        /\ Remember(outcome = "clear")

\* A packet lost on the way.
LosePacket ==
    /\ Advance
    /\ out' = Nothing
    /\ intact' = FALSE
    /\ damaged' = damaged \cup {Packet(next).mpu}
    /\ UNCHANGED <<known, deflagmenter, mpu, stream, panic>>

\* Mutant: timestamps that are never evicted.
KeepAll(mpus) == mpus

\* What is left of timestamps when the oldest are evicted.
Newest(mpus) ==
    {m \in mpus : Cardinality({k \in mpus : k > m}) < MaxTimestamps}

\* read_message(): an MPT that describes the MPUs given.  It says nothing about
\* an asset of which no packet came yet.
ReadMpt(mpus) ==
    /\ panic = None
    /\ known
    /\ stream' = [stream EXCEPT !.type = broadcast.type,
                                !.timestamps = Newest(@ \cup mpus)]
    /\ UNCHANGED <<broadcast, next, known, deflagmenter, mpu, out, panic, intact, damaged>>

\* The MPUs an MPT may describe: the one on air and the one after it.
OnAir == Packet(IF next \in DOMAIN broadcast.packets THEN next ELSE next - 1).mpu
Describable == (SUBSET {OnAir, OnAir + 1}) \ {{}}
=============================================================================
