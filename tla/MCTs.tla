-------------------------------- MODULE MCTs ---------------------------------
(* Small instances of TsReceiver for TLC: pieces of a transport stream that *)
(* hold the cases one after the other, any packet of which may be lost.     *)
EXTENDS TsReceiver

\* Cuts a sequence into parts of the sizes given.
Cut(s, sizes) ==
    [i \in DOMAIN sizes |->
        LET before == FoldLeft(LAMBDA a, b : a + b, 0, SubSeq(sizes, 1, i - 1))
        IN  SubSeq(s, before + 1, before + sizes[i])]

Section(table, key, version, length) ==
    [table |-> table, key |-> key, version |-> version, length |-> length]

StuffingCell == [of |-> Stuffing, at |-> 0]

SectionPacket(pid, start, offset, cells) ==
    [kind |-> "section", pid |-> pid, start |-> start, offset |-> offset, cells |-> cells]

Pmt(program, ca, streams) ==
    [kind |-> "pmt", pid |-> 100 + program, program |-> program, ca |-> ca,
     streams |-> streams]

Pat == [kind |-> "pat", pid |-> 0]

Stream(pid, type, ca) == [pid |-> pid, type |-> type, ca |-> ca]

\* PES packet number pes with the codes and values given, cut in packets.
PesCells(pes, codes, values) ==
    [i \in DOMAIN codes |->
        [pes |-> pes, at |-> i, code |-> codes[i], value |-> values[i]]]

Scrambled(pid, pes, dts, pts, cells, sizes, service, period) ==
    LET parts == Cut(cells, sizes)
    IN  [i \in DOMAIN sizes |->
            [kind |-> "pes", pid |-> pid, start |-> i = 1, pes |-> pes, dts |-> dts,
             pts |-> pts, cells |-> parts[i], service |-> service, period |-> period]]

Clear(pid, pes, dts, pts, cells, sizes) ==
    Scrambled(pid, pes, dts, pts, cells, sizes, None, 0)

\* A picture without a sequence header.
Unheaded == << "prefix", "picture", "prefix", "slice" >>

Plain(codes) == [i \in DOMAIN codes |-> 0]

\* Data that look like a header of ADTS are none, or begin a frame of some length
\* and duration, of one block or several.
Refused == [length |-> 0, duration |-> 0, blocks |-> FALSE]

Misread(length, duration, blocks) ==
    [length |-> length, duration |-> duration, blocks |-> blocks]

Broadcast(packets, targets, aligned) ==
    [packets |-> packets, samples |-> << >>, targets |-> targets, aligned |-> aligned,
     misread |-> Refused]

-----------------------------------------------------------------------------
\* Three sections of the schedule and a revision of one, after the end of one
\* that began before: cut in the header,
\* packed together, ended in a packet of their own and stuffed.
A == Section("eit", "a", 1, 5)
B == Section("eit", "b", 1, 4)
C == Section("eit", "c", 1, 6)
A2 == Section("eit", "a", 2, 5)
A3 == Section("eit", "a", 2, 4)

Eit(start, offset, cells) == SectionPacket(18, start, offset, cells)

Schedule ==
    Broadcast(
        << Eit(FALSE, 0, SubSeq(Cells(C), 6, 6)), Eit(TRUE, 0, SubSeq(Cells(A), 1, 4)),
           Eit(TRUE, 1, SubSeq(Cells(A), 5, 5) \o SubSeq(Cells(B), 1, 3)),
           Eit(TRUE, 1, SubSeq(Cells(B), 4, 4) \o SubSeq(Cells(C), 1, 1)),
           Eit(FALSE, 0, SubSeq(Cells(C), 2, 4)),
           Eit(FALSE, 0, SubSeq(Cells(C), 5, 6) \o <<StuffingCell, StuffingCell>>),
           Eit(TRUE, 0, Cells(A2) \o SubSeq(Cells(B), 1, 2)),
           Eit(TRUE, 2, SubSeq(Cells(B), 3, 4) \o SubSeq(Cells(A3), 1, 3)),
           Eit(TRUE, 1, SubSeq(Cells(A3), 4, 4) \o Cells(B)),
           Eit(TRUE, 6, <<StuffingCell>>),
           Eit(TRUE, 0, SubSeq(Cells(A3), 1, 3)),
           Eit(TRUE, 1, SubSeq(Cells(A3), 4, 4)) >>,
        {None}, TRUE)

\* Two scrambled services of one transport stream; the keys change twice.  The
\* PMT of the first is broken first, and repeated after its ECM; two ECMs of the
\* second share a packet.
Descriptor(pid) ==
    << [system |-> CaSystemId, pid |-> pid], [system |-> CaSystemId, pid |-> NullPid],
       [system |-> 0, pid |-> 903] >>

EcmCells(service, period) == Cells(Section("ecm", service, period, 3))

EcmPacket(service, period) ==
    SectionPacket(900 + service, TRUE, 0, EcmCells(service, period))

Picture(pes, period, service, pid) ==
    Scrambled(pid, pes, pes, pes,
              PesCells(pes, Unheaded, Plain(Unheaded)),
              <<2, 2>>, service, period)

FirstPmt == Pmt(1, Descriptor(901), <<Stream(256, "Mpeg2Video", << >>)>>)

TwoServices ==
    Broadcast(
        << Pmt(1, Append(Descriptor(901), Broken), FirstPmt.streams), FirstPmt,
           Pmt(2, << >>, <<Stream(258, "other", << >>),
                        Stream(257, "Mpeg2Video", Descriptor(902))>>),
           EcmPacket(1, 0), EcmPacket(2, 0), FirstPmt >>
        \o Picture(1, 0, 1, 256) \o << EcmPacket(1, 1) >> \o Picture(2, 1, 1, 256)
        \o << SectionPacket(902, TRUE, 0, EcmCells(2, 1) \o EcmCells(2, 2)),
              EcmPacket(1, 2) >> \o Picture(3, 2, 1, 256),
        {None, 1}, TRUE)

\* Pictures with their headers.
VideoPmt == Pmt(1, << >>, <<Stream(256, "Mpeg2Video", << >>), Stream(272, "AacAdts", << >>)>>)

Headed ==
    << "prefix", "sequence", "parameters", "prefix", "group", "prefix", "picture",
       "prefix", "slice", "prefix", "slice" >>

VideoPes(pes, codes, sizes, dts) ==
    Clear(256, pes, dts, pes, PesCells(pes, codes, Plain(codes)), sizes)

\* The first one is headed or not, times are given or not.
Video(first, timed) ==
    Broadcast(
        << Pat, VideoPmt >> \o VideoPes(1, first, <<Len(first) - 3, 3>>, 1)
        \o VideoPes(2, Headed, <<3, 4, 4>>, IF timed THEN 2 ELSE None)
        \o VideoPes(3, Headed, <<7, 4>>, IF timed THEN 3 ELSE None)
        \o VideoPes(4, Headed, <<8, 3>>, IF timed THEN 4 ELSE None)
        \o VideoPes(5, Unheaded, <<4>>, 5),
        {1}, TRUE)

\* Frames of audio: the second holds what looks like a header.
AdtsFrame(k) ==
    IF k = 2 THEN << <<"sync", k>>, <<"layer", k>>, <<"length", 6>>, <<"sync", k>>,
                     <<"layer", k>>, <<"last", k>> >>
    ELSE << <<"sync", k>>, <<"layer", k>>, <<"length", 4>>, <<"last", k>> >>

AudioPes(pid, pes, time, coded, sizes) ==
    Clear(pid, pes, None, time,
          PesCells(pes, [i \in DOMAIN coded |-> coded[i][1]],
                   [i \in DOMAIN coded |-> coded[i][2]]), sizes)

Aligned ==
    Broadcast(
        << VideoPmt >>
        \o AudioPes(272, 1, 1, AdtsFrame(1) \o AdtsFrame(2), <<5, 5>>)
        \o AudioPes(272, 2, 3, AdtsFrame(3) \o AdtsFrame(4), <<6, 2>>)
        \o AudioPes(272, 3, 5, AdtsFrame(5) \o AdtsFrame(6), <<2, 6>>)
        \o AudioPes(272, 4, 7, AdtsFrame(7), <<4>>),
        {1}, TRUE)

\* PES packets that end in a sync word and in a frame.
AllFrames == AdtsFrame(1) \o AdtsFrame(2) \o AdtsFrame(3) \o AdtsFrame(4)

Unaligned ==
    Broadcast(
        << VideoPmt >>
        \o AudioPes(272, 1, 1, SubSeq(AllFrames, 1, 5), <<3, 2>>)
        \o AudioPes(272, 2, 3, SubSeq(AllFrames, 6, 12), <<4, 3>>)
        \o AudioPes(272, 3, 5, SubSeq(AllFrames, 13, 18), <<6>>),
        {1}, FALSE)

LoasFrame(k, kind) ==
    << <<"sync", k>>, <<"length", 3>>, <<kind, k>>, <<"data", k>>, <<"last", k>> >>

LatmPes(pes, k, sizes) ==
    Clear(4352, pes, k, k,
          LET coded == LoasFrame(k, "config") \o LoasFrame(k + 1, "same")
          IN  PesCells(pes, [i \in DOMAIN coded |-> coded[i][1]],
                       [i \in DOMAIN coded |-> coded[i][2]]), sizes)

\* The last PES packet begins in a packet without any of its payload.
Latm ==
    Broadcast(
        << Pmt(1, << >>, <<Stream(256, "Mpeg2Video", << >>), Stream(4352, "AacLatm", << >>)>>) >>
        \o LatmPes(1, 1, <<5, 1, 4>>) \o LatmPes(2, 3, <<3, 3, 4>>)
        \o LatmPes(3, 5, <<2, 8>>) \o LatmPes(4, 7, <<0, 10>>),
        {1}, TRUE)

-----------------------------------------------------------------------------
\* What a demuxer gives M2tsMuxer: a third track, and samples without a DTS.
Call(track, add, type, cells, dts, pts) ==
    [track |-> track, add |-> add, type |-> type, cells |-> cells, dts |-> dts,
     pts |-> pts]

Added(track, type) == Call(track, TRUE, type, << >>, None, None)

PictureAt(call, dts) ==
    Call(1, FALSE, "Mpeg2Video", PesCells(call, Unheaded, Plain(Unheaded)), dts, dts + 1)

AudioAt(call, dts, pts, value) ==
    LET coded == AdtsFrame(value)
    IN  Call(2, FALSE, "AacAdts",
             PesCells(call, [i \in DOMAIN coded |-> coded[i][1]],
                      [i \in DOMAIN coded |-> coded[i][2]]), dts, pts)

Calling(samples) ==
    [packets |-> << >>, targets |-> {None, 1}, aligned |-> TRUE, misread |-> Refused,
     samples |-> samples]

\* The audio comes later than the first PMT, and the 33 bits of a time end with 3.
Muxed ==
    Calling(
        << Added(1, "Mpeg2Video"), PictureAt(2, 1), Added(2, "AacAdts"),
           AudioAt(4, 1, 1, 1), Added(3, "AacAdts"),
           Call(3, FALSE, "AacAdts", << >>, 1, 1), PictureAt(7, 2), AudioAt(8, None, 2, 2),
           PictureAt(9, 3), AudioAt(10, 3, 3, 3), PictureAt(11, 5), AudioAt(12, 5, 5, 1) >>)

SomeBroadcasts ==
    {Schedule, TwoServices, Video(Headed, TRUE), Video(Unheaded, FALSE), Latm, Muxed}
    \cup {[audio EXCEPT !.misread = misread] :
             audio \in {Aligned, Unaligned},
             misread \in {Refused, Misread(3, 1, FALSE), Misread(6, 2, FALSE),
                          Misread(4, 1, TRUE)}}

SomeGarbage == {[length |-> 3, stuffing |-> FALSE], [length |-> 7, stuffing |-> FALSE],
                [length |-> 3, stuffing |-> TRUE]}
=============================================================================
