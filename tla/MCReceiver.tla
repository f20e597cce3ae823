----------------------------- MODULE MCReceiver -----------------------------
(* Small instances of Receiver for TLC: broadcasts of three MPUs of two     *)
(* access units, packed the ways a broadcaster may pack them, and a shorter *)
(* one for a stream that shares the descrambler with another.               *)
EXTENDS Receiver, TLC

CONSTANTS c1, c2

\* A packet of access unit a in which the NAL units given begin: TRUE is a
\* delimiter.
Pack(m, a, kind, aggregated, delimiters) ==
    [mpu |-> m, rap |-> a = 0, kind |-> kind, aggregated |-> aggregated,
     nals |-> [i \in DOMAIN delimiters |->
                 [mpu |-> m, au |-> a, delimiter |-> delimiters[i]]]]

InTurn(AccessUnitOf(_, _), mpus, aus) ==
    FlattenSeq([i \in 1 .. mpus * aus |->
        AccessUnitOf(1 + (i - 1) \div aus, (i - 1) % aus)])

\* The units of all packets are numbered in their order.
OnTheAir(type, scrambled, aus, packets) ==
    LET Nals(n) == FlattenSeq([i \in 1 .. n |-> packets[i].nals])
        Number(n) ==
            [mpu |-> packets[n].mpu, rap |-> packets[n].rap, kind |-> packets[n].kind,
             aggregated |-> packets[n].aggregated,
             first |-> IF packets[n].kind \in {"FragmentBody", "FragmentTail"}
                       THEN Len(Nals(n)) ELSE Len(Nals(n - 1)) + 1,
             last |-> Len(Nals(n))]
    IN  [type |-> type, scrambled |-> scrambled, aus |-> aus, others |-> {},
         nals |-> Nals(Len(packets)), packets |-> [n \in DOMAIN packets |-> Number(n)]]

\* A delimiter and a slice of two packets.
Fragmented(m, a) ==
    << Pack(m, a, "NotFragmented", FALSE, <<TRUE>>),
       Pack(m, a, "FragmentHead", FALSE, <<FALSE>>),
       Pack(m, a, "FragmentTail", FALSE, << >>) >>

\* A delimiter and a first slice in one packet, another slice in the next; the
\* MPU begins with its metadata.
Aggregated(m, a) ==
    (IF a = 0 THEN << Pack(m, a, "Metadata", FALSE, << >>) >> ELSE << >>)
    \o << Pack(m, a, "NotFragmented", TRUE, <<TRUE, FALSE>>),
          Pack(m, a, "NotFragmented", FALSE, <<FALSE>>) >>

\* An access unit of audio in three packets.
Audio(m, a) ==
    << Pack(m, a, "FragmentHead", FALSE, <<FALSE>>),
       Pack(m, a, "FragmentBody", FALSE, << >>),
       Pack(m, a, "FragmentTail", FALSE, << >>) >>

Video == OnTheAir("hev1", TRUE, 2, InTurn(Fragmented, 3, 2))

ClearVideo == OnTheAir("hev1", FALSE, 2, InTurn(Aggregated, 3, 2))

AudioAlone == OnTheAir("mp4a", TRUE, 2, InTurn(Audio, 3, 2))

AudioNextToAnother ==
    [OnTheAir("mp4a", TRUE, 1, InTurn(Audio, 2, 1)) EXCEPT !.others = {c2}]

FourBroadcasts == {Video, ClearVideo, AudioAlone, AudioNextToAnother}

OneVideo == {Video}

VideoNextToAnother == {[Video EXCEPT !.others = {c2}]}
=============================================================================
