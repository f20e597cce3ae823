---------------------------- MODULE SectionReader ----------------------------
(* read_sections() of crates/chibitv/src/m2ts.rs: it puts the sections of a *)
(* PID together from the payloads of its packets.                           *)
(*                                                                          *)
(* A section is [table, key, version, length], and a payload a sequence of  *)
(* cells [of, at]: the at-th cell of section `of`, or Stuffing (0xFF).  The *)
(* first cell is the table_id, the second the section_length, the third the *)
(* rest of the header and the last one the CRC.                             *)
EXTENDS Naturals, Sequences, SequencesExt

CONSTANT Stuffing

HeaderLength == 2 \* the three bytes up to the end of section_length

Cells(s) == [i \in 1 .. s.length |-> [of |-> s, at |-> i]]

IsWhole(section) == section # << >> /\ section = Cells(section[1].of)

IsStuffing(cell) == cell.of = Stuffing

-----------------------------------------------------------------------------
(* How sections lie in the packets of a PID.                                *)

IsCell(cell) ==
    \/ cell = [of |-> Stuffing, at |-> 0]
    \/ /\ cell = [of |-> cell.of, at |-> cell.at] /\ ~IsStuffing(cell)
       /\ cell.of.length \in Nat /\ cell.of.length >= HeaderLength
       /\ cell.at \in 1 .. cell.of.length

Left(cell) == cell.of.length - cell.at

EndsSection(cell) == ~IsStuffing(cell) /\ Left(cell) = 0

\* Cells in a row: a section goes on to its last cell, and another one or
\* stuffing follows it; stuffing goes on to the end of the packet.
InRow(cells) ==
    \A i \in DOMAIN cells :
        /\ IsCell(cells[i])
        /\ \A j \in DOMAIN cells : i < j =>
              IF IsStuffing(cells[i]) THEN IsStuffing(cells[j])
              ELSE IF j - i <= Left(cells[i])
              THEN cells[j] = [of |-> cells[i].of, at |-> cells[i].at + (j - i)]
              ELSE j - i = Left(cells[i]) + 1 => IsStuffing(cells[j]) \/ cells[j].at = 1

\* What the first cell of a packet is after the last one of the packet before.
GoesOn(last, first) ==
    IF ~IsStuffing(last) /\ ~EndsSection(last)
    THEN first = [of |-> last.of, at |-> last.at + 1]
    ELSE IsStuffing(first) \/ first.at = 1

\* The pointer_field says where the first section begins in a packet, or that it
\* begins after the packet; the one before has ended there.  One that points
\* beyond the payload has nothing but stuffing there.
PointsRight(packet) ==
    /\ packet.offset \in Nat
    /\ IF packet.start /\ packet.offset <= Len(packet.cells)
       THEN /\ packet.offset > 0 => EndsSection(packet.cells[packet.offset])
            /\ packet.offset < Len(packet.cells) => packet.cells[packet.offset + 1].at = 1
            /\ \A i \in 1 .. packet.offset : packet.cells[i].at # 1
       ELSE /\ \A i \in DOMAIN packet.cells : packet.cells[i].at # 1
            /\ packet.start => \A i \in DOMAIN packet.cells : IsStuffing(packet.cells[i])

-----------------------------------------------------------------------------
\* Where a section at the head of a buffer ends.  After a loss the head may be
\* any cell, and what is read there as section_length is garbage, or 0xFF.
SectionEnd(buffer, garbage) ==
    IF buffer[2].at = 2 THEN buffer[2].of.length ELSE garbage.length

SkipsRest(buffer, garbage) ==
    \/ IsStuffing(buffer[1])
    \/ buffer[1].at # 1 /\ garbage.stuffing

\* drain_complete_sections(): the sections in a buffer, and what stays of it.
Drained(buffer, garbage) ==
    LET drain[start \in 1 .. Len(buffer) + 1] ==
            LET rest == SubSeq(buffer, start, Len(buffer))
                end == SectionEnd(rest, garbage)
                more == drain[start + end]
            IN  IF rest # << >> /\ SkipsRest(rest, garbage)
                THEN [sections |-> << >>, buffer |-> << >>]
                ELSE IF Len(rest) < HeaderLength \/ Len(rest) < end
                THEN [sections |-> << >>, buffer |-> rest]
                ELSE [sections |-> <<SubSeq(rest, 1, end)>> \o more.sections,
                      buffer |-> more.buffer]
    IN  drain[1]

\* Mutant: the end of the section before is not read before the pointer.
WithoutTail(buffer, payload, offset, garbage) ==
    Drained(SubSeq(payload, offset + 1, Len(payload)), garbage)

\* A payload in which a section begins, at the pointer_field: first the end of
\* the section before it, if its beginning is there.
Restarted(buffer, payload, offset, garbage) ==
    LET tail == SubSeq(payload, 1, offset)
        before == IF offset = 0 \/ buffer = << >> THEN << >>
                  ELSE Drained(buffer \o tail, garbage).sections
        after == Drained(SubSeq(payload, offset + 1, Len(payload)), garbage)
    IN  [sections |-> before \o after.sections, buffer |-> after.buffer]

\* read_sections().
ReadSections(buffer, packet, garbage) ==
    IF packet.start
    THEN IF packet.offset > Len(packet.cells)
         THEN [sections |-> << >>, buffer |-> << >>]
         ELSE Restarted(buffer, packet.cells, packet.offset, garbage)
    ELSE IF buffer = << >> THEN [sections |-> << >>, buffer |-> << >>]
    ELSE Drained(buffer \o packet.cells, garbage)
=============================================================================
