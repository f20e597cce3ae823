-------------------------- MODULE ElementaryStreams --------------------------
(* The tracks of crates/chibitv/src/mp4.rs for the elementary streams of a  *)
(* transport stream, with their parsers in mp2.rs and aac.rs.               *)
(*                                                                          *)
(* A stream is a sequence of cells [pes, at, code, value].  Of MPEG-2 video *)
(* a start code is two cells, "prefix" (00 00 01) and its kind, for it may  *)
(* be cut in two by the end of a PES packet.  A frame of ADTS begins with   *)
(* "sync", "layer" and "length", one of LOAS with "sync", "length" and      *)
(* "config" or "same"; the value of a length is how many cells there are,   *)
(* of all the frame for ADTS and after the length for LOAS.                 *)
(* Times count in frames.                                                   *)
EXTENDS Naturals, Sequences, SequencesExt, FiniteSetsExt, Optional

From(s, i) == SubSeq(s, i, Len(s))

CodeAt(buffer, i, code) == i \in DOMAIN buffer /\ buffer[i].code = code

-----------------------------------------------------------------------------
(* Mp2Parser. *)

\* start_codes(): where those of the kinds given are.
StartCodes(buffer, kinds) ==
    {i \in DOMAIN buffer : buffer[i].code = "prefix"
        /\ \E k \in kinds : CodeAt(buffer, i + 1, k)}

\* Mutant: an access unit ends where the next picture begins.
BoundaryAtPicture(buffer) ==
    LET pictures == StartCodes(buffer, {"picture"})
    IN  IF Cardinality(pictures) < 2 THEN None
        ELSE Min(pictures \ {Min(pictures)})

\* find_access_unit_boundary(): where the second access unit begins, at its
\* picture or at the headers that come before it, after a slice of the first.
Boundary(buffer) ==
    LET pictures == StartCodes(buffer, {"picture"})
        first == Min(pictures)
        second == Min(pictures \ {first})
        slices == {i \in StartCodes(buffer, {"slice"}) : i > first}
        headers == {i \in StartCodes(buffer, {"sequence", "group"}) :
                       i < second /\ \E s \in slices : s < i}
    IN  IF Cardinality(pictures) < 2 THEN None ELSE Min(headers \cup {second})

\* push(), until no access unit is complete.
AccessUnits(buffer) ==
    LET split[start \in 1 .. Len(buffer) + 1] ==
            LET rest == From(buffer, start)
                boundary == Boundary(rest)
                more == split[start + boundary - 1]
            IN  IF boundary = None THEN [units |-> << >>, buffer |-> rest]
                ELSE [units |-> <<SubSeq(rest, 1, boundary - 1)>> \o more.units,
                      buffer |-> more.buffer]
    IN  split[1]

\* flush().
LastUnit(buffer) ==
    IF StartCodes(buffer, {"picture"}) = {} THEN << >> ELSE <<buffer>>

-----------------------------------------------------------------------------
(* AdtsParser. *)

AdtsHeader == 3

\* Mutant: a sync word split by the end of a PES packet is forgotten.
KeepNothing(buffer) == << >>

\* A sync word may be split after its first byte.
KeepLastByte(buffer) ==
    IF CodeAt(buffer, Len(buffer), "sync") THEN <<buffer[Len(buffer)]>> ELSE << >>

\* find_adts_sync_word().
AdtsSyncs(buffer) ==
    {i \in DOMAIN buffer : buffer[i].code = "sync" /\ CodeAt(buffer, i + 1, "layer")}

\* What a header that is torn, or data that look like one, say to the parser:
\* how long the frame is, or 0 if a check refuses them; for how long it lasts;
\* whether there are several blocks in it.
Misreadings == [length : Nat, duration : Nat, blocks : BOOLEAN]

\* AdtsHeader::parse() of all that begins with a sync word.
ParsedHeader(buffer, misread) ==
    IF CodeAt(buffer, AdtsHeader, "length")
    THEN [length |-> buffer[AdtsHeader].value, duration |-> 1, blocks |-> FALSE]
    ELSE misread

ValidHeader(header) == header.length >= AdtsHeader

\* push(), until no frame is complete.
AdtsFrames(buffer, misread) ==
    LET parse[start \in 1 .. Len(buffer) + 1] ==
            LET rest == From(buffer, start)
                offset == Min(AdtsSyncs(rest))
                frame == From(rest, offset)
                header == ParsedHeader(frame, misread)
                more == parse[start + offset - 1 + header.length]
            IN  IF AdtsSyncs(rest) = {}
                THEN [units |-> << >>, buffer |-> KeepLastByte(rest)]
                ELSE IF Len(frame) < AdtsHeader
                THEN [units |-> << >>, buffer |-> frame]
                ELSE IF ~ValidHeader(header) THEN parse[start + offset]
                ELSE IF Len(frame) < header.length
                THEN [units |-> << >>, buffer |-> frame]
                ELSE [units |-> <<SubSeq(frame, 1, header.length)>> \o more.units,
                      buffer |-> more.buffer]
    IN  parse[1]

-----------------------------------------------------------------------------
(* LoasFrame::next(), on the data of one PES packet. *)

LoasSyncs(data, position) ==
    {i \in DOMAIN data : i >= position /\ data[i].code = "sync"}

\* The frames from a position on; "truncated" if the data end right behind a
\* sync word, where the length is read all the same.  A frame that does not
\* repeat the configuration takes that of the one before, or is skipped.  The
\* bits of a frame with a hole are taken to fail one of the checks.
LoasFrames(data) ==
    LET next[position \in 1 .. Len(data) + 1, configured \in BOOLEAN] ==
            LET sync == Min(LoasSyncs(data, position))
                body == sync + 2
                end == sync + 1 + data[sync + 1].value
                more == next[end + 1, TRUE]
                none == [units |-> << >>, truncated |-> FALSE]
            IN  IF LoasSyncs(data, position) = {} THEN none
                ELSE IF sync = Len(data) THEN [none EXCEPT !.truncated = TRUE]
                ELSE IF end > Len(data) THEN none
                ELSE IF CodeAt(data, body, "config")
                        \/ (CodeAt(data, body, "same") /\ configured)
                THEN [more EXCEPT !.units = <<SubSeq(data, sync, end)>> \o @]
                ELSE IF CodeAt(data, body, "same") THEN next[body + 1, configured]
                ELSE none
    IN  next[1, FALSE]

-----------------------------------------------------------------------------
(* The tracks.  Each yields frames [data, dts]. *)

NewTrack(type) ==
    [type |-> type, buffer |-> << >>, timestamps |-> << >>, nextDts |-> None,
     nextPts |-> None, configured |-> FALSE, duration |-> None]

Later(time) == IF time = None THEN None ELSE time + 1

Written(track) == [track |-> track, frames |-> << >>, panic |-> FALSE]

\* SequenceHeader::parse(): a header with what follows its start code.
HasSequenceHeader(unit) ==
    \E i \in StartCodes(unit, {"sequence"}) : CodeAt(unit, i + 2, "parameters")

\* Mutant: what waits for a sequence header leaves its time in the queue.
WriteFrameLater(w, unit) ==
    LET t == w.track
        times == IF t.timestamps = << >> THEN <<t.nextDts, t.nextPts>>
                 ELSE Head(t.timestamps)
        dts == Or(times[1], Or(t.nextDts, times[2]))
    IN  IF ~t.configured /\ ~HasSequenceHeader(unit) THEN w
        ELSE [w EXCEPT !.frames = Append(@, [data |-> unit, dts |-> dts]),
                       !.track.timestamps = IF @ = << >> THEN @ ELSE Tail(@),
                       !.track.configured = TRUE,
                       !.track.nextDts = Later(dts),
                       !.track.nextPts = Later(times[2])]

\* write_frame() of Mpeg2VideoTrack: a frame takes the oldest time there is.
WriteVideoFrame(w, unit) ==
    LET t == w.track
        times == IF t.timestamps = << >> THEN <<t.nextDts, t.nextPts>>
                 ELSE Head(t.timestamps)
        dts == Or(times[1], Or(t.nextDts, times[2]))
        popped == [w EXCEPT !.track.timestamps = IF @ = << >> THEN @ ELSE Tail(@)]
    IN  IF ~t.configured /\ ~HasSequenceHeader(unit) THEN popped
        ELSE [popped EXCEPT !.frames = Append(@, [data |-> unit, dts |-> dts]),
                            !.track.configured = TRUE,
                            !.track.nextDts = Later(dts),
                            !.track.nextPts = Later(times[2])]

WriteVideo(track, sample) ==
    LET split == AccessUnits(track.buffer \o sample.data)
        t == [track EXCEPT !.buffer = split.buffer,
                           !.timestamps = Append(@, <<sample.dts, sample.pts>>)]
    IN  FoldLeft(WriteVideoFrame, Written(t), split.units)

FinishVideo(track) ==
    FoldLeft(WriteVideoFrame, Written([track EXCEPT !.buffer = << >>]),
             LastUnit(track.buffer))

\* Frames that follow each other without a gap, from a time on.
InSequence(units, time, duration) ==
    [i \in DOMAIN units |->
        [data |-> units[i], dts |-> IF time = None THEN None ELSE time + (i - 1) * duration]]

\* AacAdtsTrack: the clock is set when no part of a frame is left over, and the
\* first header says how fast it goes.  Several blocks are an error, which ends
\* the thread.
WriteAdts(track, sample, misread) ==
    LET parsed == AdtsFrames(track.buffer \o sample.data, misread)
        headers == [i \in DOMAIN parsed.units |-> ParsedHeader(parsed.units[i], misread)]
        duration == IF track.duration # None \/ headers = << >> THEN track.duration
                    ELSE headers[1].duration
        time == IF track.buffer = << >> THEN Or(sample.dts, sample.pts)
                ELSE track.nextDts
        after == IF time = None \/ headers = << >> THEN time
                 ELSE time + Len(headers) * duration
    IN  [track |-> [track EXCEPT !.buffer = parsed.buffer, !.nextDts = after,
                                 !.duration = duration],
         frames |-> InSequence(parsed.units, time, duration),
         panic |-> \E i \in DOMAIN headers : headers[i].blocks]

\* AacLatmTrack: frames are counted from the time of their PES packet.
WriteLatm(track, sample) ==
    LET parsed == LoasFrames(sample.data)
    IN  [Written(track) EXCEPT !.frames = InSequence(parsed.units, sample.dts, 1),
                               !.panic = parsed.truncated]

\* Track::write_sample().
WriteSampleOf(track, sample, misread) ==
    CASE track.type = "Mpeg2Video" -> WriteVideo(track, sample)
      [] track.type = "AacAdts"    -> WriteAdts(track, sample, misread)
      [] track.type = "AacLatm"    -> WriteLatm(track, sample)
=============================================================================
