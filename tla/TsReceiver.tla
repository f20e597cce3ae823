----------------------------- MODULE TsReceiver ------------------------------
(* A stream of ISDB-T: what a broadcaster sends, or M2tsMuxer writes, goes  *)
(* through M2tsDemuxer, to the tracks of ElementaryStreams and to the       *)
(* memory of a ServiceInformationProcessor.                                 *)
EXTENDS M2tsDemuxer, M2tsMuxer, ElementaryStreams

CONSTANTS
    MaxLost,  \* bound on the packets that are lost
    Broadcasts
    \* [packets, samples, targets, aligned, misread]: the packets on air, or
    \* none of them and the calls of the muxer: a track is added or a sample
    \* written; whether every PES packet of audio begins with a frame; what the
    \* bytes of an ADTS header look like where there is none

\* A stream in a PMT, with its descriptors of conditional access.
ListedStreams == [pid : Nat, type : STRING, ca : Seq([system : Nat, pid : Nat] \cup {Broken})]

\* A call of the muxer.
Calls ==
    [track : TrackIds, add : BOOLEAN, type : MuxedTypes, cells : Seq(ClearCells),
     dts : Nat \cup {None}, pts : Nat \cup {None}]

\* The times of samples only grow: those of MMT, or of a transport stream that
\* is over before its clock wraps.
TimesGrow(samples) ==
    \A i, j \in DOMAIN samples :
        i < j /\ samples[i].dts # None /\ samples[j].dts # None =>
            samples[i].dts <= samples[j].dts

\* The PMT of a service.
PmtOf(packet, service) == packet.kind = "pmt" /\ packet.program = service

ListedBy(packets, service) ==
    UNION {{packets[n].streams[i].pid : i \in DOMAIN packets[n].streams} :
              n \in {m \in DOMAIN packets : PmtOf(packets[m], service)}}

EcmIn(packet) == packet.cells[1].of

\* A packet with an ECM of a service, as the card expects it.
HoldsEcm(packet, service) ==
    /\ packet.start /\ packet.offset = 0 /\ IsWhole(packet.cells)
    /\ EcmIn(packet) # Stuffing /\ EcmIn(packet).length \in Nat
    /\ EcmIn(packet).length >= HeaderLength
    /\ EcmIn(packet).table = "ecm" /\ EcmIn(packet).key = service
    /\ EcmIn(packet).version \in 0 .. LastPeriod

OnPid(packet, pid) == packet.kind = "section" /\ packet.pid = pid

\* Packet m is the last one on a PID before packet n.
LastOnPid(packets, pid, m, n) ==
    /\ m \in DOMAIN packets /\ m < n /\ OnPid(packets[m], pid)
    /\ \A k \in DOMAIN packets : m < k /\ k < n => ~OnPid(packets[k], pid)

\* On each PID sections, of more than a header, are cut into packets one after
\* the other.  What is on air may begin within a section.
SectionsCut(packets) ==
    \A n \in DOMAIN packets : packets[n].kind = "section" =>
        /\ packets[n].pid \in Pids
        /\ packets[n].cells \in Seq(Range(packets[n].cells)) \ {<< >>}
        /\ InRow(packets[n].cells) /\ PointsRight(packets[n])
        /\ \A cell \in Range(packets[n].cells) :
              ~IsStuffing(cell) => cell.of.length > HeaderLength
        /\ \A m \in DOMAIN packets :
              LastOnPid(packets, packets[n].pid, m, n) =>
                  GoesOn(Last(packets[m].cells), packets[n].cells[1])

\* The streams of a service are in the clear, or scrambled with a key of the ECM
\* that came last on the one PID for ECMs that its PMTs name: the descrambler
\* holds the keys of one ECM.
KeyedBy(packets, service, pid) ==
    \A n \in DOMAIN packets :
        /\ PmtOf(packets[n], service) => EcmPidsIn(packets[n]) \subseteq {pid}
        /\ OnPid(packets[n], pid) => HoldsEcm(packets[n], service)
        /\ packets[n].kind = "pes" /\ packets[n].pid \in ListedBy(packets, service)
           /\ packets[n].service # None =>
               /\ packets[n].service = service
               /\ \E m \in DOMAIN packets :
                     /\ LastOnPid(packets, pid, m, n)
                     /\ packets[n].period \in
                           {EcmIn(packets[m]).version, EcmIn(packets[m]).version + 1}

ASSUME BroadcastAssumption ==
    /\ None \notin Nat
    /\ \A b \in Broadcasts :
          /\ b.packets = << >> \/ b.samples = << >>
          /\ b.samples \in Seq(Calls) /\ b.misread \in Misreadings
          /\ Len(b.packets) \in Nat /\ DOMAIN b.packets = 1 .. Len(b.packets)
          /\ \A n \in DOMAIN b.packets :
                /\ b.packets[n].kind = "pes" =>
                      /\ b.packets[n].cells \in Seq(ClearCells)
                      /\ {b.packets[n].dts, b.packets[n].pts} \subseteq Nat \cup {None}
                /\ b.packets[n].kind = "pmt" => b.packets[n].streams \in Seq(ListedStreams)
          /\ SectionsCut(b.packets)
          /\ \A service \in b.targets \ {None} :
                service \in Services /\ \E pid \in Pids : KeyedBy(b.packets, service, pid)

VARIABLES
    broadcast,
    air,      \* the packets sent so far
    fed,      \* how many calls of the muxer were made
    next,     \* the number of the packet that comes next
    es,       \* the track of each PID in the muxer, or None
    frames,   \* what the tracks made of the last packet
    stored,   \* stored_sections: the SectionVersion of each section, by its key
    guide,    \* the section last taken for each key
    ended,    \* the input has ended
    lost,     \* the packets that were lost or could not be decrypted
    keysLost  \* an ECM was lost, or the card did not answer it with keys

receiverVars == <<broadcast, air, fed, next, es, frames, stored, guide, ended, lost, keysLost>>
vars == <<demuxerVars, muxerVars, receiverVars>>

Init ==
    /\ broadcast \in Broadcasts
    /\ DemuxerInit(broadcast.targets)
    /\ MuxerInit
    /\ air = broadcast.packets
    /\ fed = 0
    /\ next = 1
    /\ es = [pid \in Pids |-> None]
    /\ frames = << >>
    /\ stored = [key \in {} |-> None]
    /\ guide = [key \in {} |-> None]
    /\ ended = FALSE
    /\ lost = {}
    /\ keysLost = FALSE

-----------------------------------------------------------------------------
(* Remuxer::next() and finish(): what the demuxer gives goes to the tracks. *)

\* Mutant: only the first of the tracks is added.
AddFirstTrack(tracksNow, added) ==
    [pid \in Pids |->
        IF tracksNow[pid] = None /\ added # << >> /\ added[1].pid = pid
        THEN NewTrack(added[1].type) ELSE tracksNow[pid]]

AddTracks(tracksNow, added) ==
    [pid \in Pids |->
        IF tracksNow[pid] = None /\ \E i \in DOMAIN added : added[i].pid = pid
        THEN NewTrack((CHOOSE a \in {added[i] : i \in DOMAIN added} : a.pid = pid).type)
        ELSE tracksNow[pid]]

WriteOne(w, sample) ==
    LET one == WriteSampleOf(w.es[sample.pid], sample, broadcast.misread)
    IN  [es |-> [w.es EXCEPT ![sample.pid] = one.track],
         frames |-> w.frames \o one.frames, panic |-> w.panic \/ one.panic]

WriteAll(samples) ==
    FoldLeft(WriteOne, [es |-> es, frames |-> << >>, panic |-> FALSE], samples)

\* A packet that gives out adds tracks or writes samples.
Remux ==
    \E w \in {WriteAll(out'.samples)} :
        /\ es' = AddTracks(w.es, out'.added)
        /\ frames' = IF w.panic THEN << >> ELSE w.frames
        /\ ended' = (panic' \/ w.panic)

-----------------------------------------------------------------------------
(* store_section() of the ServiceInformationProcessor.  Where the third     *)
(* cell of a torn section is none of a header, its key is taken to be that  *)
(* of no section on air.                                                    *)

HasKey(section) == Len(section) >= 3 /\ section[3].at = 3

\* Mutant: the CRC is left out.
VersionNumber(section) == <<section[3].of.version>>

\* SectionVersion: version_number and crc_32, in the last bytes there are.
SectionVersion(section) ==
    <<section[3].of.version, section[Len(section)]>>

Insert(map, key, value) ==
    [k \in {key} \cup DOMAIN map |-> IF k = key THEN value ELSE map[k]]

Store(memory, section) ==
    LET key == section[3].of.key
        version == SectionVersion(section)
    IN  IF ~HasKey(section) \/ (key \in DOMAIN memory.stored
                                /\ memory.stored[key] = version)
        THEN memory
        ELSE [stored |-> Insert(memory.stored, key, version),
              guide |-> Insert(memory.guide, key, section)]

Process ==
    LET tables == out'.tables
        after[i \in 0 .. Len(tables)] ==
            IF i = 0 THEN [stored |-> stored, guide |-> guide]
            ELSE Store(after[i - 1], tables[i])
        memory == after[Len(tables)]
    IN  stored' = memory.stored /\ guide' = memory.guide

-----------------------------------------------------------------------------
CanRead == ~ended /\ next \in DOMAIN air

Advance ==
    /\ next' = next + 1
    /\ Remux /\ Process
    /\ UNCHANGED <<broadcast, air, fed, muxerVars>>

ReceivePat ==
    CanRead /\ ReadPat(air[next]) /\ Advance /\ UNCHANGED <<lost, keysLost>>

ReceivePmt ==
    CanRead /\ ReadPmt(air[next]) /\ Advance /\ UNCHANGED <<lost, keysLost>>

ReceiveSection ==
    CanRead /\ \E garbage \in Garbage, outcome \in Outcomes :
        \E answers \in [EcmsIn(air[next], garbage) -> Answers] :
            /\ ReadSectionPacket(air[next], garbage, answers, outcome)
            /\ Advance
            /\ keysLost' = (keysLost \/ \E i \in DOMAIN answers : answers[i] # "keys")
            /\ UNCHANGED lost

\* A packet that is not read is as good as lost.
IgnoreSection ==
    /\ CanRead /\ IgnoreSectionPacket(air[next])
    /\ Advance
    /\ lost' = lost \cup {next}
    /\ UNCHANGED keysLost

ReceivePes ==
    LET packet == air[next]
    IN  /\ CanRead
        /\ ReadPesPacket(packet)
        /\ Advance
        /\ lost' = IF Unreadable(packet) THEN lost \cup {next} ELSE lost
        /\ UNCHANGED keysLost

CarriesEcm(packet) ==
    packet.kind = "section"
    /\ \E i \in DOMAIN packet.cells :
          ~IsStuffing(packet.cells[i]) /\ packet.cells[i].of.table = "ecm"

LosePacket ==
    /\ CanRead
    /\ Cardinality(lost) < MaxLost
    /\ SkipPacket
    /\ Advance
    /\ lost' = lost \cup {next}
    /\ keysLost' = (keysLost \/ CarriesEcm(air[next]))

\* The muxer is called when the receiver has read what it wrote before.
Mux ==
    LET call == broadcast.samples[fed + 1]
    IN  /\ ~ended
        /\ next = Len(air) + 1
        /\ fed < Len(broadcast.samples)
        /\ fed' = fed + 1
        /\ IF call.add THEN AddTrack(call.track, call.type)
           ELSE WriteSample(fed + 1, call.track, call.cells, call.dts, call.pts)
        /\ air' = air \o written'
        /\ UNCHANGED <<demuxerVars, broadcast, next, es, frames, stored, guide, ended,
                       lost, keysLost>>

FinishTrack(track) ==
    IF track # None /\ track.type = "Mpeg2Video" THEN FinishVideo(track) ELSE Written(track)

\* The last packet, the rest of the PES packets, and of the video.
Finish ==
    /\ ~ended
    /\ next = Len(air) + 1
    /\ fed = Len(broadcast.samples)
    /\ Flush
    /\ \E w \in {WriteAll(out'.samples)} :
       \E finished \in {[pid \in Pids |-> FinishTrack(w.es[pid])]} :
           /\ es' = [pid \in Pids |-> finished[pid].track]
           /\ frames' = IF w.panic THEN << >>
                        ELSE w.frames \o FlattenSeq([i \in DOMAIN Ascending(Pids) |->
                                            finished[Ascending(Pids)[i]].frames])
    /\ ended' = TRUE
    /\ next' = next + 1
    /\ UNCHANGED <<broadcast, air, fed, stored, guide, lost, keysLost, muxerVars>>

Next ==
    \/ ReceivePat \/ ReceivePmt \/ ReceiveSection \/ IgnoreSection
    \/ ReceivePes \/ LosePacket \/ Mux \/ Finish

Spec == Init /\ [][Next]_vars

-----------------------------------------------------------------------------
TypeOK ==
    /\ DemuxerTypeOK
    /\ next \in 1 .. Len(air) + 2 /\ fed \in 0 .. Len(broadcast.samples)
    /\ lost \subseteq DOMAIN air /\ keysLost \in BOOLEAN /\ ended \in BOOLEAN
    /\ \A pid \in Pids : es[pid] # None <=> tracks[pid] # None

\* The packet read last, if any.
Current == next - 1

Received == Current \in DOMAIN air \ lost

\* A section begins in packet m, up to cell i of packet n of the same PID.
Begins(m, n, i) ==
    /\ air[m].kind = "section" /\ air[m].pid = air[n].pid
    /\ \E j \in DOMAIN air[m].cells : air[m].cells[j].at = 1 /\ (m < n \/ j <= i)

\* Every packet came of the section that cell i of packet n belongs to.
Came(n, i) ==
    \E m \in 1 .. n :
        /\ Begins(m, n, i)
        /\ \A k \in m .. n : air[k].pid = air[n].pid => k \notin lost

\* The sections that end in packet n and of which every packet came.
WholeSections(n) ==
    LET cells == air[n].cells
        ends == {i \in DOMAIN cells : EndsSection(cells[i]) /\ Came(n, i)}
        sorted == Ascending(ends)
    IN  [k \in DOMAIN sorted |-> Cells(cells[sorted[k]].of)]

\* The last of the sections a packet gives are those that end in it and came
\* whole, in their order and once, whatever was lost before them and however
\* they are cut, packed and stuffed; nothing else is read of a PID as long as
\* nothing is lost (m2ts.rs:309, read_sections).
SectionsComeThrough ==
    Received /\ air[Current].kind = "section" /\ ~ended =>
        LET whole == WholeSections(Current)
            read == Len(out.sections)
        IN  /\ Len(whole) <= read
            /\ SubSeq(out.sections, read - Len(whole) + 1, read) = whole
            /\ (\A n \in lost : air[n].pid # air[Current].pid) => read = Len(whole)

\* A section put together across a loss may have the right length and is read
\* as a table, for no CRC is verified.  But the next whole repetition replaces
\* what was taken from it, the same version_number or not, because the CRC is
\* part of its version (service_information.rs:39): as long as one section is
\* not torn into another of its key and version_number, whose CRC it then has.
\* Only an error in a torn section of the same packet can keep it back
\* (m2ts.rs:229).
GuideIsOnAir ==
    /\ Received /\ air[Current].kind = "section" /\ ~ended
    /\ air[Current].pid \notin ecmPids
    /\ out.tables # << >> \/ \A i \in DOMAIN out.sections : IsWhole(out.sections[i])
    => LET whole == WholeSections(Current)
       IN  \A i \in DOMAIN whole :
              (\A j \in i + 1 .. Len(whole) : whole[j][1].of.key # whole[i][1].of.key)
                  => guide[whole[i][1].of.key] = whole[i]

\* The packets before packet n that continue the PES packet begun last on a PID.
Collected(pid, n) ==
    LET pes == {m \in (1 .. n - 1) \ lost : air[m].kind = "pes" /\ air[m].pid = pid}
        starts == {m \in pes : air[m].start}
    IN  IF starts = {} THEN {} ELSE {m \in pes : m >= Max(starts)}

\* Which cells a sample consists of.
Places(data) == [i \in DOMAIN data |-> <<data[i].pes, data[i].at>>]

Outline(sample) == [sample EXCEPT !.data = Places(@)]

SampleUpTo(pid, n) ==
    LET packets == Ascending(Collected(pid, n))
        data == FlattenSeq([i \in DOMAIN packets |-> air[packets[i]].cells])
    IN  IF packets = << >> \/ air[packets[1]].cells = << >> THEN << >>
        ELSE << [pid |-> pid, data |-> Places(data), dts |-> air[packets[1]].dts,
                 pts |-> air[packets[1]].pts] >>

\* Every PES packet whose start came with some of its payload leaves as one
\* sample when the next one starts, or with the end of the input: with its own
\* times, and with exactly the payloads that came since, in order
\* (m2ts.rs:238-266).  So what M2tsMuxer wrote is read back.
SamplesComeThrough ==
    LET given == [i \in DOMAIN out.samples |-> Outline(out.samples[i])]
        pids == Ascending(Pids)
    IN  /\ Received /\ air[Current].kind = "pes" /\ air[Current].start =>
              given = SampleUpTo(air[Current].pid, Current)
        /\ Current = Len(air) + 1 =>
              given = FlattenSeq([i \in DOMAIN pids |-> SampleUpTo(pids[i], Len(air) + 1)])

\* An ECM came after a PMT of the service had named its PID.
EcmCame ==
    \E k \in DOMAIN air \ lost, m \in DOMAIN air :
        /\ k < m /\ m < next /\ PmtOf(air[k], target)
        /\ air[m].kind = "section" /\ air[m].pid \in EcmPidsIn(air[k])

\* A stream of one service is descrambled with the key of each packet through
\* all changes of keys, and never with the key of the period before or one of
\* another service in the transport stream, as long as its ECMs come and the
\* card answers them; before the first of them nothing is made of it
\* (descrambler.rs:52, m2ts.rs:138).
SamplesClear ==
    ~keysLost /\ target # None =>
        /\ \A i \in DOMAIN out.samples : CellsOk(out.samples[i].data)
        /\ CanRead /\ air[next].kind = "pes" /\ air[next].pid \in Tracks =>
              \/ Decryption(air[next]) = "clear"
              \/ Decryption(air[next]) = "none" /\ ~EcmCame

-----------------------------------------------------------------------------
PesPackets(pes) == {n \in DOMAIN air : air[n].kind = "pes" /\ air[n].pes = pes}

First(pes) == CHOOSE n \in PesPackets(pes) : air[n].start

PidOfPes(pes) == air[First(pes)].pid

PesOn(pid) == {air[n].pes : n \in {m \in DOMAIN air : air[m].kind = "pes" /\ air[m].pid = pid}}

Sound(pes) == PesPackets(pes) \cap lost = {}

\* The PES packet before another one on its PID came whole, if there is one.
SoundBefore(pes) ==
    LET before == {p \in PesOn(PidOfPes(pes)) : p < pes}
    IN  before # {} => Sound(Max(before))

Intact(pid) == \A n \in lost : air[n].pid # pid

CellsOf(pes) ==
    LET packets == Ascending(PesPackets(pes))
    IN  FlattenSeq([i \in DOMAIN packets |-> air[packets[i]].cells])

HasPicture(cells) == \E i \in DOMAIN cells : cells[i].code = "picture"

\* A PES packet lost its picture or its beginning, but not both.
Slipped(pid) ==
    \E pes \in PesOn(pid) :
        (First(pes) \in lost) # (\E n \in PesPackets(pes) \cap lost : HasPicture(air[n].cells))

IsVideo(frame) == es[PidOfPes(frame.data[1].pes)].type = "Mpeg2Video"

PictureIn(frame) == CHOOSE i \in DOMAIN frame.data : frame.data[i].code = "picture"

\* Frames take the times of PES packets from a queue (mp4.rs:120), and each
\* gets the time of the PES packet with its picture, through lost packets and
\* while it waits for a sequence header; unless a PES packet lost its picture
\* alone, which shifts the queue for good, or its picture has no DTS and one
\* before it was lost, which stops the clock for a frame.
VideoInTime ==
    ~keysLost =>
        \A i \in {j \in DOMAIN frames : IsVideo(frames[j])} :
            LET pes == frames[i].data[PictureIn(frames[i])].pes
                head == air[First(pes)]
            IN  ~Slipped(head.pid) /\ (head.dts # None \/ Intact(head.pid)) =>
                    frames[i].dts = Or(head.dts, head.pts)

\* A picture leaves the parser with all that belongs to it and nothing else,
\* when it came whole and so did its neighbours, wherever the packets cut it
\* and its start codes (mp2.rs:184).
VideoComesThrough ==
    \A i \in DOMAIN out.samples :
        LET next_pes == out.samples[i].data[1].pes
            pid == out.samples[i].pid
            before == {p \in PesOn(pid) : p < next_pes}
            pes == Max(before)
        IN  /\ es[pid].type = "Mpeg2Video" /\ before # {} /\ ~keysLost
            /\ Sound(next_pes) /\ Sound(pes) /\ SoundBefore(pes)
            /\ HasSequenceHeader(CellsOf(pes))
            => \E j \in DOMAIN frames : frames[j].data = CellsOf(pes)

\* Every frame of audio that ends in a sample is found, whole and with its own
\* time, in data that look like a header too: if nothing was lost; for LATM
\* whatever was lost before (mp4.rs:454); and for frames of ADTS aligned with PES
\* packets whatever was lost before, once the parser is empty when the sample
\* comes (mp4.rs:371) and the first frame of all was a true one.  A loss leaves it
\* empty one PES packet later, unless the rest of it passes for a header: then the
\* parser waits for as much data as that asks for (aac.rs:133).
AudioComesThrough ==
    [][\A i \in DOMAIN out'.samples :
        LET sample == out'.samples[i]
            pes == sample.data[1].pes
            track == es[sample.pid]
            resumed == \/ track.buffer = << >> /\ track.duration \in {None, 1}
                       \/ SoundBefore(pes) /\ broadcast.misread.length = 0
            reliable == \/ Intact(sample.pid)
                        \/ track.type = "AacLatm" /\ sample.data = CellsOf(pes)
                        \/ /\ track.type = "AacAdts" /\ broadcast.aligned
                           /\ Sound(pes) /\ resumed
        IN  track.type \in {"AacAdts", "AacLatm"} /\ reliable =>
                \A last \in {sample.data[j] : j \in DOMAIN sample.data} :
                    last.code = "last" /\ (last.pes = pes \/ Intact(sample.pid)) =>
                        \E f \in DOMAIN frames' :
                            LET data == frames'[f].data
                            IN  /\ data[1].value = last.value /\ data[Len(data)] = last
                                /\ \A c \in DOMAIN data :
                                      data[c].code # "length" => data[c].value = last.value
                                /\ frames'[f].dts = last.value]_vars

-----------------------------------------------------------------------------
(* The tables of the muxer, in time by the samples it was called with.      *)

\* A PES packet of the muxer that was written for a sample with a DTS.
Timed(n) == air[n].kind = "pes" /\ air[n].start /\ air[n].dts # None

CallOf(n) == broadcast.samples[air[n].pes]

\* A PMT is written for the sample that follows it.
PmtFor(m, n) == m < n /\ air[m].kind = "pmt" /\ m + 1 \in DOMAIN air /\ Timed(m + 1)

Lists(packet, pid) == \E i \in DOMAIN packet.streams : packet.streams[i].pid = pid

\* Who begins to read anywhere finds a PMT before any sample with a DTS, written
\* less than the interval before; and it lists the track, from the interval after
\* the track's first sample on: up to then it may have been written before the
\* track was added (m2ts.rs:599).  The times may wrap in the PES packets, not in
\* the calls.
TablesInTime ==
    broadcast.samples # << >> /\ TimesGrow(broadcast.samples) =>
        \A n \in DOMAIN air : Timed(n) =>
            \E m \in DOMAIN air :
                /\ PmtFor(m, n)
                /\ CallOf(n).dts < CallOf(m + 1).dts + TableInterval
                /\ \/ Lists(air[m], air[n].pid)
                   \/ \A b \in 1 .. n - 1 : Timed(b) /\ air[b].pid = air[n].pid =>
                         CallOf(n).dts < CallOf(b).dts + TableInterval
=============================================================================
