----------------------------- MODULE M2tsDemuxer -----------------------------
(* M2tsDemuxer of crates/chibitv/src/m2ts.rs: it makes samples and tables   *)
(* of the packets of an MPEG-2 transport stream (ISDB-T).                   *)
(*                                                                          *)
(* The crate mpeg2ts parses the packets and knows what each PID carries.  A *)
(* packet is one of                                                         *)
(*   kind "pmt"      program, ca, streams: a PMT, which fits one packet,    *)
(*                   with its descriptors in their order;                   *)
(*   kind "section"  pid, start, offset, cells: see SectionReader;          *)
(*   kind "pes"      pid, start, dts, pts, cells, service, period: part of  *)
(*                   a PES packet, scrambled if there is a service.         *)
(* A cell of a PES packet is [pes, at, code, value]: see ElementaryStreams. *)
EXTENDS SectionReader, B25Descrambler

CONSTANTS
    Pids,
    NullPid,      \* 0x1fff
    SectionPids,  \* B10_SECTION_PIDS
    CaSystemId,   \* what the card said of itself
    Broken,       \* a descriptor that B10Descriptor does not parse
    Garbage       \* [length, stuffing]: what the bytes of a torn section
                  \* may look like to the reader of the next

TrackTypes == {"Mpeg2Video", "H265", "AacAdts", "AacLatm"}

\* What is carried in PES packets.  No cell is on air as it looks when it is
\* descrambled with the wrong key.
ClearCells == [pes : Nat, at : Nat, code : STRING \ {"noise"}, value : Nat]
NoiseCells == [pes : Nat, at : Nat, code : {"noise"}, value : Nat]

\* What has been collected of a PES packet.
PesBuffers ==
    [data : Seq(ClearCells \cup NoiseCells),
     dts : Nat \cup {None}, pts : Nat \cup {None}]

ASSUME M2tsAssumption ==
    /\ NullPid \in Pids /\ Pids \subseteq Nat /\ IsFiniteSet(Pids)
    /\ SectionPids \subseteq Pids
    /\ None \notin PesBuffers
    /\ \A g \in Garbage : g.length \in Nat /\ g.length >= HeaderLength

VARIABLES
    target,         \* target_service_id, or None
    ecmPids,        \* ecm_pids
    tracks,         \* tracks: the PES buffer of each PID, or None
    sectionBuffers, \* section_buffers
    out,            \* what the last packet gave
    panic           \* the thread has ended

demuxerVars == <<target, ecmPids, tracks, sectionBuffers, workKeys, out, panic>>

NoPes == [data |-> << >>, dts |-> None, pts |-> None]

Nothing == [added |-> << >>, samples |-> << >>, sections |-> << >>, tables |-> << >>]

DemuxerInit(targets) ==
    /\ target \in targets
    /\ ecmPids = {}
    /\ tracks = [pid \in Pids |-> None]
    /\ sectionBuffers = [pid \in Pids |-> << >>]
    /\ out = Nothing
    /\ panic = FALSE
    /\ B25Init

Tracks == {pid \in Pids : tracks[pid] # None}

-----------------------------------------------------------------------------
(* The PMT. *)

\* Mutant: the PMT of any service is taken.
AnyService(packet) == TRUE

ForTarget(packet) == target \in {None, packet.program}

IsRead(descriptors) == \A i \in DOMAIN descriptors : descriptors[i] # Broken

\* ca_descriptor_pid(): the ECM PIDs that descriptors of the card's system name,
\* up to one that is broken.
EcmPidsOf(descriptors) ==
    LET read == {i \in DOMAIN descriptors : \A j \in 1 .. i : descriptors[j] # Broken}
    IN  {descriptors[i].pid : i \in {j \in read : descriptors[j].system = CaSystemId}}
            \ {0, NullPid}

\* A stream of no known type is skipped with its descriptors.
KnownStreams(packet) ==
    {i \in DOMAIN packet.streams : packet.streams[i].type \in TrackTypes}

\* The ECM PIDs of the service and of its streams: a broken descriptor is an
\* error, and loses the rest of the PMT.
EcmPidsIn(packet) ==
    LET known == KnownStreams(packet)
        looked == {i \in known :
                      IsRead(packet.ca)
                      /\ \A j \in known : j < i => IsRead(packet.streams[j].ca)}
    IN  EcmPidsOf(packet.ca) \cup UNION {EcmPidsOf(packet.streams[i].ca) : i \in looked}

PmtIsRead(packet) ==
    IsRead(packet.ca) /\ \A i \in KnownStreams(packet) : IsRead(packet.streams[i].ca)

\* The tracks a PMT adds: the last new video track of MPEG-2 and, if there is
\* one, the first new audio track.
Selected(streams) ==
    LET new(types) == {i \in DOMAIN streams :
                          streams[i].type \in types /\ tracks[streams[i].pid] = None}
        video == new({"Mpeg2Video"})
        audio == new({"AacAdts", "AacLatm"})
    IN  IF video = {} THEN << >>
        ELSE <<streams[Max(video)]>>
             \o (IF audio = {} THEN << >> ELSE <<streams[Min(audio)]>>)

ReadPmt(packet) ==
    /\ packet.kind = "pmt"
    /\ IF ~ForTarget(packet)
       THEN UNCHANGED <<ecmPids, tracks>> /\ out' = Nothing
       ELSE LET added == IF PmtIsRead(packet) THEN Selected(packet.streams) ELSE << >>
            IN  /\ ecmPids' = ecmPids \cup EcmPidsIn(packet)
                /\ tracks' = [pid \in Pids |->
                                 IF \E i \in DOMAIN added : added[i].pid = pid
                                 THEN NoPes ELSE tracks[pid]]
                /\ out' = [Nothing EXCEPT !.added =
                              [i \in DOMAIN added |->
                                  [pid |-> added[i].pid, type |-> added[i].type]]]
    /\ UNCHANGED <<target, sectionBuffers, workKeys, panic>>

-----------------------------------------------------------------------------
(* Sections. *)

\* read_ecm() takes no notice of other tables on its PID.
EcmsAmong(sections) ==
    {i \in DOMAIN sections : sections[i][1].at = 1 /\ sections[i][1].of.table = "ecm"}

\* One after the other is given to the card, up to an error; the last one that it
\* answers leaves its keys.
ReadEcms(sections, answers) ==
    LET ecms == EcmsAmong(sections)
        failed == {i \in ecms : answers[i] \in {"error", "panic"}}
        answered == {i \in ecms : \A j \in failed : i < j}
        last == sections[Max(answered)][1].of
    IN  /\ IF answered = {} THEN UNCHANGED workKeys
           ELSE PushEcm(last.key, last.version, answers[Max(answered)])
        /\ panic' = (failed # {} /\ answers[Min(failed)] = "panic")

WholeOnes(sections) ==
    LET whole == Ascending({i \in DOMAIN sections : IsWhole(sections[i])})
    IN  [k \in DOMAIN whole |-> sections[whole[k]]]

\* What B10Table::read makes of the sections.  One that is not whole reads as a
\* table, as an unknown one or as an error, which loses the other sections of
\* the packet with it.
TablesOf(sections, outcome) ==
    IF \A i \in DOMAIN sections : IsWhole(sections[i]) THEN sections
    ELSE CASE outcome = "table" -> sections
           [] outcome = "unknown" -> WholeOnes(sections)
           [] OTHER -> << >>

\* A torn section may also be one that ends the thread (unwrap, assert).
Outcomes == {"table", "unknown", "error", "panic"}

\* The crate tells the sections of the PIDs it was told of, and of no other.
Listening(pid) == pid \in SectionPids \cup ecmPids

\* The ECMs a packet completes, of which each is answered.
EcmsIn(packet, garbage) ==
    IF packet.pid \in ecmPids
    THEN EcmsAmong(ReadSections(sectionBuffers[packet.pid], packet, garbage).sections)
    ELSE {}

ReadSectionPacket(packet, garbage, answers, outcome) ==
    LET read == ReadSections(sectionBuffers[packet.pid], packet, garbage)
        torn == \E i \in DOMAIN read.sections : ~IsWhole(read.sections[i])
    IN  /\ packet.kind = "section" /\ Listening(packet.pid)
        /\ sectionBuffers' = [sectionBuffers EXCEPT ![packet.pid] = read.buffer]
        /\ \/ /\ packet.pid \in ecmPids
              /\ ReadEcms(read.sections, answers)
              /\ out' = [Nothing EXCEPT !.sections = read.sections]
           \/ /\ packet.pid \notin ecmPids
              /\ out' = [Nothing EXCEPT !.sections = read.sections,
                                        !.tables = TablesOf(read.sections, outcome)]
              /\ panic' = (torn /\ outcome = "panic")
              /\ UNCHANGED workKeys
        /\ UNCHANGED <<target, ecmPids, tracks>>

-----------------------------------------------------------------------------
(* PES packets. *)

Sample(pid) ==
    [pid |-> pid, data |-> tracks[pid].data, dts |-> tracks[pid].dts,
     pts |-> tracks[pid].pts]

Finished(pid) ==
    IF tracks[pid].data = << >> THEN << >> ELSE <<Sample(pid)>>

\* What the descrambler makes of the payload.
Decryption(packet) ==
    IF packet.service = None THEN "clear" ELSE Decrypted(packet.service, packet.period)

Garbled(cells) == [i \in DOMAIN cells |-> [cells[i] EXCEPT !.code = "noise"]]

Payload(packet) ==
    IF Decryption(packet) = "garbled" THEN Garbled(packet.cells) ELSE packet.cells

\* Mutant: a PES packet that begins does not finish the one before.
StartOver(packet) ==
    /\ packet.start
    /\ tracks' = [tracks EXCEPT ![packet.pid] =
                     [data |-> Payload(packet), dts |-> packet.dts, pts |-> packet.pts]]
    /\ out' = Nothing

StartPes(packet) ==
    /\ packet.start
    /\ tracks' = [tracks EXCEPT ![packet.pid] =
                     [data |-> Payload(packet), dts |-> packet.dts, pts |-> packet.pts]]
    /\ out' = [Nothing EXCEPT !.samples = Finished(packet.pid)]

ContinuePes(packet) ==
    /\ ~packet.start
    /\ tracks' = IF tracks[packet.pid].data = << >> THEN tracks
                 ELSE [tracks EXCEPT ![packet.pid].data = @ \o Payload(packet)]
    /\ out' = Nothing

\* Nothing is read of a PID that is no track, of a payload without a key, or of
\* a garbled PES header (Pes::read_from, an error).
Unreadable(packet) ==
    \/ packet.pid \notin Tracks
    \/ Decryption(packet) = "none"
    \/ packet.start /\ Decryption(packet) = "garbled"

ReadPesPacket(packet) ==
    /\ packet.kind = "pes"
    /\ \/ Unreadable(packet) /\ out' = Nothing /\ UNCHANGED tracks
       \/ ~Unreadable(packet) /\ (StartPes(packet) \/ ContinuePes(packet))
    /\ UNCHANGED <<target, ecmPids, sectionBuffers, workKeys, panic>>

-----------------------------------------------------------------------------
\* The input has ended: flush_pes_buffers() in the order of the PIDs.
Flush ==
    LET pids == Ascending(Tracks)
    IN  /\ out' = [Nothing EXCEPT !.samples =
                      FlattenSeq([i \in DOMAIN pids |-> Finished(pids[i])])]
        /\ tracks' = [pid \in Pids |-> IF pid \in Tracks THEN NoPes ELSE None]
        /\ UNCHANGED <<target, ecmPids, sectionBuffers, workKeys, panic>>

\* A packet that is lost, or that the reader cannot parse, leaves no trace: no
\* continuity_counter is compared.
SkipPacket ==
    /\ out' = Nothing
    /\ UNCHANGED <<target, ecmPids, tracks, sectionBuffers, workKeys, panic>>

IgnoreSectionPacket(packet) ==
    packet.kind = "section" /\ ~Listening(packet.pid) /\ SkipPacket

\* A PAT is for the crate mpeg2ts.
ReadPat(packet) == packet.kind = "pat" /\ SkipPacket

CellsOk(data) == \A i \in DOMAIN data : data[i].code # "noise"

DemuxerTypeOK ==
    /\ ecmPids \subseteq Pids \ {NullPid}
    /\ tracks \in [Pids -> PesBuffers \cup {None}]
    /\ panic \in BOOLEAN
    /\ B25TypeOK
=============================================================================
