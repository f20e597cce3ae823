------------------------------ MODULE M2tsMuxer ------------------------------
(* M2tsMuxer of crates/chibitv/src/m2ts.rs: it cuts samples into the        *)
(* packets of a transport stream with a video and an audio track, and       *)
(* repeats a PAT and a PMT.  The remux and live commands write with it what *)
(* a demuxer reads.                                                         *)
EXTENDS Naturals, Sequences, SequencesExt, FiniteSets, Optional

CONSTANTS
    TrackIds,
    FirstPayload,  \* how much data fits the first packet of a PES packet,
    NextPayload,   \* and any other one
    TableInterval, \* 100 ms
    TimestampMax   \* Timestamp::MAX, 2^33 - 1

ASSUME MuxerAssumption ==
    /\ FirstPayload \in Nat \ {0} /\ NextPayload \in Nat \ {0}
    /\ TableInterval \in Nat \ {0} /\ TimestampMax \in Nat \ {0}

PatPid == 0
PmtPid == 4096

\* The PID of a track by its type, and what the PMT says of it.
PidOf(type) ==
    CASE type = "Mpeg2Video" -> 256
      [] type = "AacAdts"    -> 272
      [] type = "H265"       -> 4113
      [] type = "AacLatm"    -> 4352

MuxedTypes == {"Mpeg2Video", "AacAdts", "H265", "AacLatm"}
MuxedPids == {PatPid, PmtPid} \cup {PidOf(type) : type \in MuxedTypes}

VARIABLES
    trackMap,     \* track_map: the PID of each track, or None
    cc,           \* streams: the continuity counter of each PID, or None
    lastPatPmtTs, \* last_pat_pmt_ts
    written       \* the packets of the last sample, with their counters

muxerVars == <<trackMap, cc, lastPatPmtTs, written>>

MuxerInit ==
    /\ trackMap = [t \in TrackIds |-> None]
    /\ cc = [pid \in MuxedPids |-> IF pid \in {PatPid, PmtPid} THEN 0 ELSE None]
    /\ lastPatPmtTs = None
    /\ written = << >>

\* Two tracks, and no changes after that.  A second track of a type shares the
\* PID of the first and resets its counter.
AddTrack(t, type) ==
    /\ IF Cardinality({u \in TrackIds : trackMap[u] # None}) >= 2
       THEN UNCHANGED <<trackMap, cc>>
       ELSE /\ trackMap' = [trackMap EXCEPT ![t] = PidOf(type)]
            /\ cc' = [cc EXCEPT ![PidOf(type)] = 0]
    /\ written' = << >>
    /\ UNCHANGED lastPatPmtTs

-----------------------------------------------------------------------------
\* Mutant: the tables come once.
TablesOnce(dts) == dts # None /\ lastPatPmtTs = None

\* A PMT is due with the first sample that has a DTS and 100 ms after the last.
TablesDue(dts) ==
    dts # None /\ (lastPatPmtTs = None \/ dts >= lastPatPmtTs + TableInterval)

TypeOf(pid) == CHOOSE type \in MuxedTypes : PidOf(type) = pid

\* The PMT lists the streams there are, in the order of their PIDs.
StreamInfo ==
    LET pids == {pid \in MuxedPids \ {PatPid, PmtPid} : cc[pid] # None}
        sorted == Ascending(pids)
    IN  [i \in DOMAIN sorted |->
            [pid |-> sorted[i], type |-> TypeOf(sorted[i]), ca |-> << >>]]

Next16(counter) == (counter + 1) % 16

Tables ==
    << [kind |-> "pat", pid |-> PatPid, counter |-> Next16(cc[PatPid])],
       [kind |-> "pmt", pid |-> PmtPid, counter |-> Next16(cc[PmtPid]),
        program |-> 1, ca |-> << >>, streams |-> StreamInfo] >>

\* The 33 bits of a time in the header of a PES packet.
Wrapped(time) == IF time = None THEN None ELSE time % TimestampMax

\* The first packet of a sample and the extra ones.
Packets(pid, pes, data, dts, pts) ==
    LET more == IF Len(data) <= FirstPayload THEN 0
                ELSE (Len(data) - FirstPayload + NextPayload - 1) \div NextPayload
        Start(i) == IF i = 0 THEN 1 ELSE FirstPayload + (i - 1) * NextPayload + 1
        End(i) == IF i = more THEN Len(data) ELSE Start(i + 1) - 1
    IN  [i \in 1 .. more + 1 |->
            [kind |-> "pes", pid |-> pid, counter |-> (cc[pid] + i) % 16,
             start |-> i = 1, pes |-> pes, dts |-> dts, pts |-> pts,
             cells |-> SubSeq(data, Start(i - 1), End(i - 1)),
             service |-> None, period |-> 0]]

\* write_sample(), write_pes(): nothing of a track that was not added.  A PES
\* packet has the number of its call.
WriteSample(call, t, data, dts, pts) ==
    LET pid == trackMap[t]
        tables == IF TablesDue(dts) THEN Tables ELSE << >>
        packets == Packets(pid, call, data, Wrapped(dts), Wrapped(pts))
    IN  IF pid = None
        THEN /\ written' = << >>
             /\ UNCHANGED <<trackMap, cc, lastPatPmtTs>>
        ELSE /\ written' = tables \o packets
             /\ cc' = [q \in MuxedPids |->
                          IF q = pid THEN packets[Len(packets)].counter
                          ELSE IF q \in {PatPid, PmtPid} /\ tables # << >>
                          THEN Next16(cc[q])
                          ELSE cc[q]]
             /\ lastPatPmtTs' = IF tables # << >> THEN dts ELSE lastPatPmtTs
             /\ UNCHANGED trackMap
=============================================================================
