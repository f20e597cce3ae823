------------------------------- MODULE Layouts -------------------------------
(* How the readers of crates/chibitv_b10 and crates/chibitv_b60 take bytes  *)
(* apart: with Buf and split_to() of the crate bytes, which panic where     *)
(* there is too little, and with loops bounded in one of four ways.         *)
(*                                                                          *)
(* A layout is a sequence of items.  What a reader makes of a buffer is its *)
(* bytes with marks around each entry of a loop and around what split_to()  *)
(* cuts off.  All other values are kept as the bytes that hold them.        *)
EXTENDS Naturals, Sequences, SequencesExt

\* A number in `width` bytes, some bits of it below and above left aside.
Format(width, div, mod) == [width |-> width, div |-> div, mod |-> mod]

Byte == Format(1, 1, 256)
Word == Format(2, 1, 65536)
Low12 == Format(2, 1, 4096)  \* & 0x0FFF
Low10 == Format(2, 1, 1024)  \* & 0x03FF
High10 == Format(2, 64, 1024) \* (head & 0xFFC0) >> 6
Long == Format(4, 1, 16777216)

Item(kind, format, of) == [kind |-> kind, format |-> format, of |-> of]
Plain(kind, width) == Item(kind, Format(width, 1, 1), << >>)
Loop(kind, entry) == Item(kind, Format(0, 1, 1), entry)

Fixed(width) == Plain("fixed", width)
Time == Plain("time", 5)                  \* mjd, and h, m, s in BCD
Status == Plain("status", 0)              \* a running_status that is unwrapped
Mode == Plain("mode", 0)                  \* an MptMode, or an error
AtLeast(width) == Item("atLeast", Format(0, 1, 1), width)
Copied == Plain("copied", 0)              \* to_vec(), which takes nothing away
Error == Plain("error", 0)
Panic == Plain("panic", 0)                \* unreachable!(), unwrap()
Exact(format) == Item("exact", format, << >>)        \* assert_eq!(remaining(), n)
Within(format, layout) == Item("within", format, layout)   \* split_to(n)
Checked(format, layout) == Item("checked", format, layout) \* the same, or an error
Counted(format, entry) == Item("counted", format, entry)   \* for _ in 0..n
ToEnd(entry) == Loop("toEnd", entry)                 \* while has_remaining()
UntilCrc(entry) == Loop("untilCrc", entry)           \* while remaining() > 4

\* A loop whose length in bytes is taken for a count; none is written.
Miscounted(format, entry) == Item("miscounted", format, entry)

\* A tag and what follows it: of the known ones a sequence of [tag, layout], of
\* others one of [upTo, layout].
OneOf(format, known, others) ==
    [kind |-> "oneOf", format |-> format, of |-> known, others |-> others]

\* A flag in what the item behind it begins with.
ByFlag(format, known) == [OneOf(format, known, << >>) EXCEPT !.kind = "byFlag"]

Tagged(tag, layout) == [tag |-> tag, layout |-> layout]
UpTo(tag, layout) == [upTo |-> tag, layout |-> layout]

Data(format) == Within(format, <<Copied>>)

CrcWidth == 4
Crc == <<Fixed(CrcWidth)>>

Marks == [open |-> 1000, close |-> 1001, cut |-> 1002, end |-> 1003]
Unmarked(marked) == SelectSeq(marked, LAMBDA c : c < 256)
Entry(marked) == <<Marks.open>> \o marked \o <<Marks.close>>
Cut(marked) == <<Marks.cut>> \o marked \o <<Marks.end>>

-----------------------------------------------------------------------------
(* The reader. *)

Stopped(how) == [marked |-> << >>, rest |-> << >>, ends |-> how]

Got(marked, rest) == [marked |-> marked, rest |-> rest, ends |-> "ok"]

After(first, more) == [more EXCEPT !.marked = first \o @]

Rest(bytes, n) == SubSeq(bytes, n + 1, Len(bytes))

\* Get-calls of the crate bytes are big-endian.  No buffer has 2^24 bytes.
Value(bytes) ==
    CASE Len(bytes) = 1 -> bytes[1]
      [] Len(bytes) = 2 -> bytes[1] * 256 + bytes[2]
      [] OTHER -> IF bytes[1] > 0 THEN 16777215
                  ELSE bytes[2] * 65536 + bytes[3] * 256 + bytes[4]

Number(format, bytes) == (Value(bytes) \div format.div) % format.mod

Bcd(byte) == (byte \div 16) * 10 + (byte % 16)

\* parse_jst_time() and parse_start_time(), which unwrap from_hms_opt().
ValidTime(time) ==
    \/ time = [i \in 1 .. 5 |-> 255]
    \/ Bcd(time[3]) < 24 /\ Bcd(time[4]) < 60 /\ Bcd(time[5]) < 60

RECURSIVE Read(_, _), ReadEntries(_, _, _), ReadTimes(_, _, _)

\* Mutant: the loop ends a byte too early.
ReadEntriesShort(entry, bytes, keep) ==
    LET one == Read(entry, bytes)
    IN  IF Len(bytes) <= keep + 1 THEN Got(<< >>, bytes)
        ELSE IF one.ends # "ok" THEN one
        ELSE After(Entry(one.marked), ReadEntries(entry, one.rest, keep))

\* A loop that runs while more than `keep` bytes remain.
ReadEntries(entry, bytes, keep) ==
    LET one == Read(entry, bytes)
    IN  IF Len(bytes) <= keep THEN Got(<< >>, bytes)
        ELSE IF one.ends # "ok" THEN one
        ELSE After(Entry(one.marked), ReadEntries(entry, one.rest, keep))

\* A loop that runs n times.
ReadTimes(entry, bytes, n) ==
    LET one == Read(entry, bytes)
    IN  IF n = 0 THEN Got(<< >>, bytes)
        ELSE IF one.ends # "ok" THEN one
        ELSE After(Entry(one.marked), ReadTimes(entry, one.rest, n - 1))

\* What split_to() cuts off is read on its own; what is left of it is dropped.
ReadWithin(layout, body, length) ==
    LET inner == Read(layout, SubSeq(body, 1, length))
    IN  [inner EXCEPT !.marked = Cut(@), !.rest = Rest(body, length)]

\* What follows a tag.
Chosen(item, tag) ==
    LET known == SelectSeq(item.of, LAMBDA e : e.tag = tag)
        others == SelectSeq(item.others, LAMBDA e : tag <= e.upTo)
    IN  IF known # << >> THEN Head(known).layout ELSE Head(others).layout

ReadItem(item, bytes) ==
    LET kind == item.kind
        width == item.format.width
        head == SubSeq(bytes, 1, width)
        n == Number(item.format, head)
        body == Rest(bytes, width)
        here == Got(head, body)
    IN  CASE kind = "toEnd"    -> ReadEntries(item.of, bytes, 0)
          [] kind = "untilCrc" -> ReadEntries(item.of, bytes, CrcWidth)
          [] kind = "copied"   -> Got(bytes, bytes)
          [] kind = "error"    -> Stopped("error")
          [] kind = "atLeast"  -> IF Len(bytes) < item.of THEN Stopped("error") ELSE here
          [] kind = "panic" \/ Len(bytes) < width -> Stopped("panic")
          [] kind = "fixed"    -> here
          [] kind = "time"     -> IF ValidTime(head) THEN here ELSE Stopped("panic")
          [] kind = "status"   -> IF bytes = << >> \/ bytes[1] \div 32 > 4
                                  THEN Stopped("panic") ELSE here
          [] kind = "mode"     -> IF bytes = << >> THEN Stopped("panic")
                                  ELSE IF bytes[1] % 4 = 3 THEN Stopped("error") ELSE here
          [] kind = "exact"    -> IF n = Len(body) THEN here ELSE Stopped("panic")
          [] kind = "within"   -> IF n > Len(body) THEN Stopped("panic")
                                  ELSE After(head, ReadWithin(item.of, body, n))
          [] kind = "checked"  -> IF n > Len(body) THEN Stopped("error")
                                  ELSE After(head, ReadWithin(item.of, body, n))
          [] kind \in {"counted", "miscounted"} ->
                                  After(head, ReadTimes(item.of, body, n))
          [] kind = "oneOf"    -> After(head, Read(Chosen(item, n), body))
          [] kind = "byFlag"   -> Read(Chosen(item, n), bytes)

Read(layout, bytes) ==
    IF layout = << >> THEN Got(<< >>, bytes)
    ELSE LET first == ReadItem(Head(layout), bytes)
         IN  IF first.ends # "ok" THEN first
             ELSE After(first.marked, Read(Tail(layout), first.rest))

-----------------------------------------------------------------------------
(* What a broadcaster writes: every loop has n entries, and the k-th choice *)
(* is made wherever there is one, another in the next entry.  The fields    *)
(* hold zeros.                                                              *)

BigEndian(format, n) ==
    LET value == n * format.div
    IN  [i \in 1 .. format.width |->
            IF i = format.width THEN value % 256
            ELSE IF i = format.width - 1 THEN (value \div 256) % 256 ELSE 0]

RECURSIVE Written(_, _, _)

Entries(entry, n, k) == FlattenSeq([i \in 1 .. n |-> Entry(Written(entry, n, k + i - 1))])

\* The tags a broadcaster chooses from: the known ones and, if it is no error,
\* the least that is not known.
Tags(item) ==
    LET known == SelectSeq(item.of, LAMBDA e : Head(e.layout).kind # "panic")
        tags == [i \in DOMAIN known |-> known[i].tag]
        other == CHOOSE t \in 0 .. 255 : t \notin Range(tags) /\ \A u \in 0 .. t - 1 : u \in Range(tags)
        named == \E i \in DOMAIN item.others : item.others[i].layout # <<Error>>
    IN  tags \o (IF named THEN <<other>> ELSE << >>)

WrittenItem(item, n, k) ==
    LET kind == item.kind
    IN  CASE kind \in {"fixed", "time", "miscounted"} ->
                [i \in 1 .. item.format.width |-> 0]
          [] kind \in {"within", "checked"} ->
                LET inner == Written(item.of, n, k)
                IN  BigEndian(item.format, Len(Unmarked(inner))) \o Cut(inner)
          [] kind = "counted" -> BigEndian(item.format, n) \o Entries(item.of, n, k)
          [] kind \in {"toEnd", "untilCrc"} -> Entries(item.of, n, k)
          [] kind = "copied" -> [i \in 1 .. n |-> 0]
          [] kind = "oneOf" ->
                LET tag == Tags(item)[1 + (k % Len(Tags(item)))]
                IN  BigEndian(item.format, tag) \o Written(Chosen(item, tag), n, k)
          [] kind = "byFlag" ->
                LET tag == Tags(item)[1 + (k % Len(Tags(item)))]
                    flag == BigEndian(item.format, tag)
                    flagged == Written(Chosen(item, tag), n, k)
                IN  [i \in DOMAIN flagged |->
                        IF i \in DOMAIN flag THEN flagged[i] + flag[i] ELSE flagged[i]]
          [] OTHER -> << >>

Written(layout, n, k) ==
    IF layout = << >> THEN << >>
    ELSE LET more == Written(Tail(layout), n, k)
             first == Head(layout)
         IN  IF first.kind = "exact"
             THEN BigEndian(first.format, Len(Unmarked(more))) \o more
             ELSE WrittenItem(first, n, k) \o more
=============================================================================
