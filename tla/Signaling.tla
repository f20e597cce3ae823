------------------------------ MODULE Signaling ------------------------------
(* Reading what a broadcaster signals: a table or a message, by the layouts *)
(* of Tables, and the text in a descriptor of it, by the decoder of         *)
(* AribText.  No CRC is verified, so that a table may be damaged or torn.   *)
EXTENDS Tables, AribText

CONSTANTS
    None,
    TablesOnAir,     \* [layout, n, k]: the layout and the choices of Written
    LostPayloads,    \* how many bytes a loss may take out of sections
    Profiles,        \* of a decoder, Data and Caption
    DrcsMappings,    \* of a decoder, PrivateUse and Replacement
    Designations,    \* [set, width, final]: the sets a text may designate
    Controls,        \* the codes that print nothing
    Macros,          \* the default macros that a text may call
    MaxDesignations, \* bound on the sets a text designates
    MaxAccents       \* bound on the accents on one character

Layouts == B10Tables \o B60Tables \o <<PaMessage, M2SectionMessage>>

ASSUME SignalingAssumption == \A t \in TablesOnAir : t.layout \in DOMAIN Layouts

\* What a broadcaster may send, with the marks that Read makes of it.
Broadcasts ==
    {[layout |-> t.layout, sent |-> Written(Layouts[t.layout], t.n, t.k)] : t \in TablesOnAir}

VARIABLES
    subject,  \* "table" or "text"
    table,    \* the one on air of Broadcasts, or None
    received, \* its bytes, as the receiver has them
    fault,    \* what happened to them: "none", "damaged" or "torn"
    result,   \* what the reader made of them, or None
    writer,   \* the graphic sets at the broadcaster, or None
    decoder,  \* those of the receiver, with what the last code printed
    said      \* the characters the last code stands for

tableVars == <<table, received, fault, result>>
textVars == <<writer, decoder, said>>
vars == <<subject, tableVars, textVars>>

NewDecoders ==
    {WithProfile(p) : p \in Profiles} \cup {WithDrcsMapping(m) : m \in DrcsMappings}

NewWriter(d) ==
    [g |-> d.g, gl |-> 1, gr |-> 3, drcs |-> << >>, accents |-> << >>,
     designated |-> 0, ended |-> FALSE]

Init ==
    /\ fault = "none"
    /\ result = None
    /\ said = << >>
    /\ \/ /\ subject = "table"
          /\ table \in Broadcasts
          /\ received = Unmarked(table.sent)
          /\ writer = None
          /\ decoder = None
       \/ /\ subject = "text"
          /\ table = None
          /\ received = << >>
          /\ \E d \in NewDecoders : writer = NewWriter(d) /\ decoder = d

-----------------------------------------------------------------------------
(* Tables. *)

OnAir == subject = "table" /\ result = None /\ fault = "none"

DamagedBytes(byte) == {255, (byte + 1) % 256, (byte + 255) % 256} \ {byte}

Damage ==
    /\ OnAir
    /\ \E i \in {i \in DOMAIN table.sent : table.sent[i] < 256} :
       \E byte \in DamagedBytes(table.sent[i]) :
          /\ received' = Unmarked([table.sent EXCEPT ![i] = byte])
          /\ fault' = "damaged"
    /\ UNCHANGED <<subject, table, result, textVars>>

\* In ISDB-T packets are lost behind the header of a section.  It goes on with
\* the bytes that come then, of itself and of the section after it.
Tear ==
    /\ OnAir
    /\ table.layout \in DOMAIN B10Tables
    /\ \E next \in {b \in Broadcasts : b.layout = table.layout} :
       \E lost \in LostPayloads, i \in 3 .. Len(received) - 1 :
          LET stream == SubSeq(received, 1, i)
                          \o Rest(received \o Unmarked(next.sent), i + lost)
          IN  /\ Len(stream) >= Len(received)
              /\ received' = SubSeq(stream, 1, Len(received))
              /\ fault' = "torn"
    /\ UNCHANGED <<subject, table, result, textVars>>

ReadTable ==
    /\ subject = "table" /\ result = None
    /\ result' = Read(Layouts[table.layout], received)
    /\ UNCHANGED <<subject, table, received, fault, textVars>>

-----------------------------------------------------------------------------
(* Text. *)

Send(bytes, chars) ==
    /\ subject = "text" /\ ~writer.ended
    /\ decoder' = DecodeBytes([decoder EXCEPT !.output = << >>], bytes)
    /\ said' = chars
    /\ UNCHANGED <<subject, tableVars>>

\* The codes of the characters that a text prints in a set.
Repertoire(set) ==
    CASE set = Kanji -> {<<\h24, \h22>>, <<\h7A, \h23>>, <<\h21, \h2D>>}
      [] set \in {AdditionalSymbols, Unknown(2), JisX0213Plane1, JisX0213Plane2} ->
            {<<\h7A, \h23>>}
      [] set = DrCs(0) -> {<<\h21, \h21>>, <<\h21, \h22>>}
      [] set = Macro -> {}
      [] OTHER -> {<<\h21>>, <<\h41>>}

\* By the set invoked in GL, by that in GR, or by a single shift.
Invocations(g, code) ==
    LET high == [i \in DOMAIN code |-> code[i] + 128]
    IN  {bytes \in {code} : writer.gl = g} \cup {bytes \in {high} : writer.gr = g}
        \cup {<<\h19>> \o bytes : bytes \in {b \in {code, high} : g = 3}}
        \cup {<<\h1D>> \o bytes : bytes \in {b \in {code, high} : g = 4}}

\* A DRCS is one private character throughout a text, while there are any, or
\* is never shown.
PrivateChar(drcs, key) ==
    LET at == {i \in DOMAIN drcs : drcs[i] = key}
    IN  IF at # {} THEN PrivateUse(CHOOSE i \in at : TRUE)
        ELSE IF Len(drcs) < PrivateArea /\ decoder.drcsMapping = "PrivateUse"
        THEN PrivateUse(Len(drcs) + 1) ELSE Replacement

IsNew(drcs, key) ==
    /\ decoder.drcsMapping = "PrivateUse"
    /\ key \notin Range(drcs) /\ Len(drcs) < PrivateArea

Meaning(set, code) ==
    CASE set = Kanji /\ code[1] >= \h7A -> Char(AdditionalSymbols, code)
      [] set[1] = "DrCs" -> PrivateChar(writer.drcs, <<set, code>>)
      [] set[1] = "Unknown" -> Replacement
      [] OTHER -> Char(set, code)

\* Accents come behind the character that follows them.
SendChar(char, bytes) ==
    /\ Send(bytes, <<char>> \o writer.accents)
    /\ writer' = [writer EXCEPT !.accents = << >>]

WriteChar ==
    \E g \in 1 .. 4 : \E code \in Repertoire(writer.g[g]) :
    \E bytes \in Invocations(g, code) :
        LET set == writer.g[g]
            key == <<set, code>>
            char == Meaning(set, code)
        IN  CASE set = Mosaic -> Send(bytes, << >>) /\ UNCHANGED writer
              [] set = Kanji /\ code = <<\h21, \h2D>> ->
                    /\ Len(writer.accents) < MaxAccents
                    /\ Send(bytes, << >>)
                    /\ writer' = [writer EXCEPT !.accents = Append(@, char)]
              [] set[1] = "DrCs" /\ IsNew(writer.drcs, key) ->
                    /\ Send(bytes, <<char>> \o writer.accents)
                    /\ writer' = [writer EXCEPT !.accents = << >>,
                                                !.drcs = Append(@, key)]
              [] OTHER -> SendChar(char, bytes)

WriteSpace == SendChar(Space, <<\h20>>)

WriteNewLine == \E byte \in {\h0A, \h0D} : Send(<<byte>>, <<NewLine>>) /\ UNCHANGED writer

\* LS0 to LS3, and LS1R to LS3R.
LockingShift ==
    \/ \E g \in 1 .. 4 :
          /\ Send(<< <<\h0F>>, <<\h0E>>, <<\h1B, \h6E>>, <<\h1B, \h6F>> >>[g], << >>)
          /\ writer' = [writer EXCEPT !.gl = g]
    \/ \E g \in 2 .. 4 :
          /\ Send(<<\h1B, << \h7E, \h7D, \h7C >>[g - 1]>>, << >>)
          /\ writer' = [writer EXCEPT !.gr = g]

WriteDesignation ==
    \E g \in 1 .. 4, d \in Designations :
        /\ writer.designated < MaxDesignations
        /\ Send((IF d.width = 1 THEN <<\h1B, \h27 + g>>
                 ELSE IF g = 1 /\ Len(d.final) = 1 THEN <<\h1B, \h24>>
                 ELSE <<\h1B, \h24, \h27 + g>>) \o d.final, << >>)
        /\ writer' = [writer EXCEPT !.g[g] = d.set, !.designated = @ + 1]

\* A default macro, where the set of them is.
WriteMacro ==
    \E g \in 1 .. 4, byte \in Macros : \E bytes \in Invocations(g, <<byte>>) :
        /\ writer.g[g] = Macro
        /\ Send(bytes, << >>)
        /\ writer' = [writer EXCEPT !.g = MacroSets(byte), !.gl = 1, !.gr = 3]

WriteControl == \E bytes \in Controls : Send(bytes, << >>) /\ UNCHANGED writer

EndText ==
    /\ subject = "text" /\ ~writer.ended
    /\ decoder' = EndOfText([decoder EXCEPT !.output = << >>])
    /\ said' = writer.accents
    /\ writer' = [writer EXCEPT !.ended = TRUE, !.accents = << >>]
    /\ UNCHANGED <<subject, tableVars>>

Text ==
    /\ subject = "text"
    /\ \/ WriteChar \/ WriteSpace \/ WriteNewLine \/ LockingShift
       \/ WriteDesignation \/ WriteMacro \/ WriteControl \/ EndText

Next == Damage \/ Tear \/ ReadTable \/ Text

Spec == Init /\ [][Next]_vars

-----------------------------------------------------------------------------
IsRead == subject = "table" /\ result # None

BoundedByCrc(layout) == \E i \in DOMAIN layout : layout[i].kind = "untilCrc"

\* Whatever a loss or a damaged byte makes of a section whose loop runs up to
\* the CRC, if it is read at all, the last four bytes are taken for the CRC and
\* nothing is left: SectionVersion, which takes two sections for the same by
\* their version and CRC (service_information.rs:39), compares the bytes in
\* which broadcasters write it, and never those of an entry.
CrcComesLast ==
    IsRead /\ fault # "none" /\ BoundedByCrc(Layouts[table.layout])
    /\ result.ends = "ok" =>
        /\ result.rest = << >>
        /\ LET n == Len(result.marked)
           IN  SubSeq(result.marked, n - CrcWidth + 1, n)
                 = Rest(received, Len(received) - CrcWidth)

\* What the decoder prints for each code is what the broadcaster wrote, however
\* it got there: by locking and single shifts, sets designated before, macros,
\* DRCS and accents, with controls in between (chibitv_b24/src/lib.rs:125).
TextComesThrough == subject = "text" => decoder.output = said
=============================================================================
