------------------------------- MODULE AribText ------------------------------
(* Decoder of crates/chibitv_b24/src/lib.rs: text of ARIB STD-B24, with its *)
(* graphic sets G0 to G3, of which one is invoked in GL and one in GR.      *)
(*                                                                          *)
(* A graphic set is <<name, n>>, where n is the number of a DRCS or the     *)
(* width of an unknown set.  A character is [set, code]: which glyph a code *)
(* stands for is left to the tables, but for what is no character of its    *)
(* own there.                                                               *)
EXTENDS Naturals, Sequences

CONSTANT PrivateArea \* how many characters there are for DRCS, U+EC00 to U+F8FF

ASSUME PrivateAreaAssumption == PrivateArea \in Nat

GraphicSet(name) == <<name, 0>>
Kanji == GraphicSet("Kanji")
Alphanumeric == GraphicSet("Alphanumeric")
Hiragana == GraphicSet("Hiragana")
Katakana == GraphicSet("Katakana")
Mosaic == GraphicSet("Mosaic")
Macro == GraphicSet("Macro")
AdditionalSymbols == GraphicSet("AdditionalSymbols")
JisX0213Plane1 == GraphicSet("JisX0213Plane1")
JisX0213Plane2 == GraphicSet("JisX0213Plane2")
DrCs(n) == <<"DrCs", n>>
Unknown(width) == <<"Unknown", width>>

\* DRCS-0 is the one of two bytes.
IsTwoByte(set) ==
    set \in {Kanji, JisX0213Plane1, JisX0213Plane2, AdditionalSymbols, DrCs(0), Unknown(2)}

\* with_drcs_mapping(), which default() calls PrivateUse.
WithDrcsMapping(mapping) ==
    [g |-> <<Kanji, Alphanumeric, Hiragana, Katakana>>, gl |-> 1, gr |-> 3,
     drcsMapping |-> mapping, drcs |-> << >>, pending |-> << >>, output |-> << >>]

\* with_profile().
WithProfile(profile) ==
    [WithDrcsMapping("PrivateUse") EXCEPT !.g[4] = IF profile = "Caption" THEN Macro ELSE @]

Skip(bytes, n) == SubSeq(bytes, n + 1, Len(bytes))
Low(byte) == byte % 128

-----------------------------------------------------------------------------
(* Characters. *)

Char(set, code) == [set |-> set, code |-> code]
Replacement == Char(GraphicSet("Replacement"), << >>)
Space == Char(GraphicSet("Space"), << >>)
NewLine == Char(GraphicSet("NewLine"), << >>)
PrivateUse(n) == Char(GraphicSet("PrivateUse"), <<n>>)

\* decode_two_byte(): rows 90 to 94 of the kanji are additional symbols.
TwoByteChar(set, code) ==
    IF set = Kanji /\ code[1] \in \h7A .. \h7E THEN Char(AdditionalSymbols, code)
    ELSE IF set = Unknown(2) THEN Replacement ELSE Char(set, code)

\* decode_one_byte(): a proportional set has the characters of the plain one.
OneByteChar(set, code) ==
    CASE set = GraphicSet("ProportionalAlphanumeric") -> Char(Alphanumeric, code)
      [] set = GraphicSet("ProportionalHiragana") -> Char(Hiragana, code)
      [] set = GraphicSet("ProportionalKatakana") -> Char(Katakana, code)
      [] set = Unknown(1) -> Replacement
      [] OTHER -> Char(set, code)

\* is_arib_nonspacing(): accents, in row 1 of the kanji, and the circle.
IsNonspacing(char) ==
    char.set = Kanji /\ (\/ char.code[1] = \h21 /\ char.code[2] \in \h2D .. \h32
                         \/ char.code = <<\h22, \h7E>>)

\* An accent is sent before its character and printed behind it.
PushGraphic(d, char) ==
    IF IsNonspacing(char) THEN [d EXCEPT !.pending = Append(@, char)]
    ELSE [d EXCEPT !.output = (@ \o <<char>>) \o d.pending, !.pending = << >>]

\* decode_drcs(): each code gets the next private character when it is first
\* met, unless they are all replaced.
PushDrcs(d, set, code) ==
    LET key == <<set, code>>
        known == {i \in DOMAIN d.drcs : d.drcs[i] = key}
    IN  IF d.drcsMapping = "Replacement" THEN PushGraphic(d, Replacement)
        ELSE IF known # {} THEN PushGraphic(d, PrivateUse(CHOOSE i \in known : TRUE))
        ELSE IF Len(d.drcs) >= PrivateArea THEN PushGraphic(d, Replacement)
        ELSE PushGraphic([d EXCEPT !.drcs = Append(@, key)], PrivateUse(Len(d.drcs) + 1))

\* apply_default_macro().
MacroSets(byte) ==
    CASE byte = \h60 -> <<Kanji, Alphanumeric, Hiragana, Macro>>
      [] byte = \h61 -> <<Kanji, Katakana, Hiragana, Macro>>
      [] byte = \h62 -> <<Kanji, DrCs(1), Hiragana, Macro>>
      [] byte \in {\h63, \h64} -> <<Mosaic, Mosaic, Mosaic, Macro>>
      [] byte = \h65 -> <<Mosaic, DrCs(1), Mosaic, Macro>>
      [] byte \in \h66 .. \h6A ->
            LET first == (byte - \h66) * 3 + 1
            IN  <<DrCs(first), DrCs(first + 1), DrCs(first + 2), Macro>>
      [] byte \in \h6B .. \h6D -> <<Kanji, DrCs(byte - \h69), Hiragana, Macro>>
      [] byte = \h6E -> <<Katakana, Hiragana, Alphanumeric, Macro>>
      [] byte = \h6F -> <<Alphanumeric, Mosaic, DrCs(1), Macro>>

ApplyDefaultMacro(d, byte) ==
    IF byte \notin \h60 .. \h6F THEN d
    ELSE [d EXCEPT !.g = MacroSets(byte), !.gl = 1, !.gr = 3]

-----------------------------------------------------------------------------
(* One code of a string.  Each operator gives [d, rest]. *)

Then(d, rest) == [d |-> d, rest |-> rest]

\* decode_graphic().  A string that ends within a character loses it.
DecodeGraphic(d, set, byte, rest) ==
    IF set = Macro THEN Then(ApplyDefaultMacro(d, byte), rest)
    ELSE IF IsTwoByte(set) /\ rest = << >> THEN Then(d, rest)
    ELSE LET code == IF IsTwoByte(set) THEN <<byte, Low(Head(rest))>> ELSE <<byte>>
             after == IF IsTwoByte(set) THEN Tail(rest) ELSE rest
         IN  IF set = Mosaic THEN Then(d, after)
             ELSE IF set[1] = "DrCs" THEN Then(PushDrcs(d, set, code), after)
             ELSE IF IsTwoByte(set) THEN Then(PushGraphic(d, TwoByteChar(set, code)), after)
             ELSE Then(PushGraphic(d, OneByteChar(set, code)), after)

IsGraphic(byte) == Low(byte) \in \h21 .. \h7E

\* Mutant: a single shift is one for good.
SingleShiftLocks(d, g, rest) == Then([d EXCEPT !.gl = g], rest)

\* decode_single_shift(): for one character, in either half.
SingleShift(d, g, rest) ==
    IF rest = << >> THEN Then(d, rest)
    ELSE IF ~IsGraphic(Head(rest)) THEN Then(d, Tail(rest))
    ELSE DecodeGraphic(d, d.g[g], Low(Head(rest)), Tail(rest))

\* graphic_set_from_final().
SetOfFinal(final, width) ==
    CASE width = 2 /\ final = \h42 -> Kanji
      [] width = 2 /\ final = \h39 -> JisX0213Plane1
      [] width = 2 /\ final = \h3A -> JisX0213Plane2
      [] width = 2 /\ final = \h3B -> AdditionalSymbols
      [] width = 1 /\ final = \h4A -> Alphanumeric
      [] width = 1 /\ final = \h30 -> Hiragana
      [] width = 1 /\ final = \h31 -> Katakana
      [] width = 1 /\ final \in \h32 .. \h35 -> Mosaic
      [] width = 1 /\ final = \h36 -> GraphicSet("ProportionalAlphanumeric")
      [] width = 1 /\ final = \h37 -> GraphicSet("ProportionalHiragana")
      [] width = 1 /\ final = \h38 -> GraphicSet("ProportionalKatakana")
      [] width = 1 /\ final = \h49 -> GraphicSet("JisX0201Katakana")
      [] width = 1 /\ final = \h70 -> Macro
      [] OTHER -> Unknown(width)

\* drcs_from_final().
DrcsOfFinal(final, width) ==
    IF width = 2 /\ final = \h40 THEN DrCs(0)
    ELSE IF width = 1 /\ final \in \h41 .. \h4F THEN DrCs(final - \h40)
    ELSE Unknown(width)

\* decode_singlebyte_designation(), and decode_multibyte_designation() behind
\* the byte that names the set.
Designate(d, g, width, rest) ==
    IF rest = << >> \/ (Head(rest) = \h20 /\ Len(rest) = 1) THEN Then(d, << >>)
    ELSE IF Head(rest) = \h20
    THEN Then([d EXCEPT !.g[g] = DrcsOfFinal(rest[2], width)], Skip(rest, 2))
    ELSE Then([d EXCEPT !.g[g] = SetOfFinal(Head(rest), width)], Tail(rest))

\* decode_escape().
Escape(d, rest) ==
    LET first == Head(rest)
        more == Tail(rest)
    IN  IF rest = << >> THEN Then(d, rest)
        ELSE CASE first = \h6E -> Then([d EXCEPT !.gl = 3], more)
               [] first = \h6F -> Then([d EXCEPT !.gl = 4], more)
               [] first = \h7C -> Then([d EXCEPT !.gr = 4], more)
               [] first = \h7D -> Then([d EXCEPT !.gr = 3], more)
               [] first = \h7E -> Then([d EXCEPT !.gr = 2], more)
               [] first \in \h28 .. \h2B -> Designate(d, first - \h27, 1, more)
               [] first = \h24 ->
                     IF more = << >> THEN Then(d, more)
                     ELSE IF Head(more) \in \h28 .. \h2B
                     THEN Designate(d, Head(more) - \h27, 2, Tail(more))
                     ELSE Then([d EXCEPT !.g[1] = SetOfFinal(Head(more), 2)], Tail(more))
               [] OTHER -> Then(d, more)

\* skip_control_sequence(): up to the final byte.
SkipControlSequence(rest) ==
    LET finals == {i \in DOMAIN rest : rest[i] \in \h40 .. \h7E}
    IN  IF finals = {} THEN << >>
        ELSE Skip(rest, CHOOSE i \in finals : \A j \in finals : i <= j)

RECURSIVE SkipDefinition(_)

\* Up to MACRO 0x4F; the macro code of another definition is none.
SkipDefinition(rest) ==
    IF Len(rest) < 2 THEN << >>
    ELSE CASE Head(rest) = \h95 /\ rest[2] = \h4F -> Skip(rest, 2)
           [] Head(rest) = \h95 /\ rest[2] \in {\h40, \h41} -> SkipDefinition(Skip(rest, 3))
           [] OTHER -> SkipDefinition(Tail(rest))

\* skip_macro(): what a macro stands for is not kept.
SkipMacro(rest) ==
    IF rest = << >> THEN rest
    ELSE IF Head(rest) \notin {\h40, \h41} THEN Tail(rest)
    ELSE SkipDefinition(Skip(rest, 2))

\* How many bytes behind a control are no text.
Parameters(byte, rest) ==
    LET second == rest # << >> /\ Head(rest) = \h20
    IN  CASE byte \in {\h16, \h8B, \h91, \h93, \h94, \h97, \h98} -> 1
          [] byte = \h1C -> 2
          [] byte \in {\h90, \h92} -> IF second THEN 2 ELSE 1
          [] byte = \h9D -> IF second \/ (rest # << >> /\ Head(rest) = \h28) THEN 2 ELSE 1
          [] OTHER -> 0

\* The arms of decode().
DecodeOne(d, byte, rest) ==
    CASE byte = \h0E -> Then([d EXCEPT !.gl = 2], rest)
      [] byte = \h0F -> Then([d EXCEPT !.gl = 1], rest)
      [] byte = \h19 -> SingleShift(d, 3, rest)
      [] byte = \h1D -> SingleShift(d, 4, rest)
      [] byte = \h1B -> Escape(d, rest)
      [] byte = \h20 -> Then(PushGraphic(d, Space), rest)
      [] byte \in {\h0A, \h0D} -> Then([d EXCEPT !.output = Append(@, NewLine)], rest)
      [] byte \in \h21 .. \h7E -> DecodeGraphic(d, d.g[d.gl], byte, rest)
      [] byte \in \hA1 .. \hFE -> DecodeGraphic(d, d.g[d.gr], Low(byte), rest)
      [] byte = \h95 -> Then(d, SkipMacro(rest))
      [] byte = \h9B \/ (byte = \h9D /\ rest # << >> /\ Head(rest) = \h29) ->
            Then(d, SkipControlSequence(rest))
      [] OTHER -> Then(d, Skip(rest, Parameters(byte, rest)))

RECURSIVE DecodeBytes(_, _)

\* The loop of decode().
DecodeBytes(d, bytes) ==
    IF bytes = << >> THEN d
    ELSE LET one == DecodeOne(d, Head(bytes), Tail(bytes)) IN DecodeBytes(one.d, one.rest)

\* The end of decode(): accents that no character followed.
EndOfText(d) == [d EXCEPT !.output = @ \o d.pending, !.pending = << >>]
=============================================================================
