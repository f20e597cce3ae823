----------------------------- MODULE MCSignaling -----------------------------
(* Small instances of Signaling for TLC. *)
EXTENDS Signaling

\* Loops of up to two entries, with every choice of a tag.
SomeTables ==
    {t \in [layout : DOMAIN Layouts, n : 0 .. 2, k : 0 .. 7] :
        t.n = 2 => t.k \in {0, 3}}

Designation(set, width, final) == [set |-> set, width |-> width, final |-> final]

SomeDesignations ==
    {Designation(Kanji, 2, <<\h42>>), Designation(AdditionalSymbols, 2, <<\h3B>>),
     Designation(JisX0213Plane1, 2, <<\h39>>), Designation(JisX0213Plane2, 2, <<\h3A>>),
     Designation(Unknown(2), 2, <<\h7F>>), Designation(DrCs(0), 2, <<\h20, \h40>>),
     Designation(Alphanumeric, 1, <<\h4A>>), Designation(Hiragana, 1, <<\h30>>),
     Designation(GraphicSet("JisX0201Katakana"), 1, <<\h49>>),
     Designation(Mosaic, 1, <<\h32>>), Designation(Macro, 1, <<\h70>>),
     Designation(DrCs(1), 1, <<\h20, \h41>>), Designation(Unknown(1), 1, <<\h7F>>)}

\* Of each kind that has parameters one, with parameters that could be text:
\* PAPF, APS, SZX, COL of one and of two, FLC, CDC, POL, WMM, a macro that is
\* defined, one that is defined with another in it, HLC, RPC, CSI, and TIME in its three forms.
SomeControls ==
    {<<\h0C>>, <<\h16, \h42>>, <<\h1C, \h41, \h42>>, <<\h89>>, <<\h8B, \h45>>, <<\h90, \h48>>,
     <<\h90, \h20, \h42>>, <<\h91, \h40>>, <<\h92, \h20, \h42>>, <<\h93, \h40>>,
     <<\h94, \h40>>, <<\h95, \h40, \h21, \h24, \h22, \h95, \h4F>>, <<\h97, \h40>>,
     <<\h95, \h40, \h21, \h24, \h95, \h41, \h22, \h30, \h95, \h4F>>,
     <<\h98, \h42>>, <<\h9B, \h31, \h3B, \h32, \h20, \h53>>, <<\h9D, \h20, \h41>>,
     <<\h9D, \h28, \h41>>, <<\h9D, \h29, \h31, \h42>>}
=============================================================================
