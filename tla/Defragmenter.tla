---------------------------- MODULE Defragmenter ----------------------------
(* Defragmenter of crates/chibitv_b60/src/deflag.rs: it joins the fragments *)
(* of a unit that came in consecutive packets, and drops what a lost packet *)
(* has torn.                                                                *)
(*                                                                          *)
(* A defragmenter is the record [state, last, buf].  A packet is known by   *)
(* its packet_sequence_number; buf lists the packets whose payload it       *)
(* holds.  The numbers do not wrap here: the release build wraps them, 2^32 *)
(* packets apart.                                                           *)
EXTENDS Naturals, Sequences

States == {"Init", "NotStarted", "InFragment", "Skip"}

\* FragmentationIndicator.
Indicators == {"NotFragmented", "FragmentHead", "FragmentBody", "FragmentTail"}

NewDefragmenter == [state |-> "Init", last |-> 0, buf |-> << >>]

\* Mutant: a jump that nobody notices.
JumpUnnoticed(d, number) == [d EXCEPT !.last = number]

\* Mutant: a jump that starts over, with the wait for a random access point.
JumpToInit(d, number) ==
    IF number \in {d.last, d.last + 1}
    THEN [d EXCEPT !.last = number]
    ELSE [state |-> "Init", last |-> number, buf |-> << >>]

\* A number other than the next one: packets were lost, and with them a part
\* of the unit in the buffer.
Jump(d, number) ==
    IF number \in {d.last, d.last + 1}
    THEN [d EXCEPT !.last = number]
    ELSE [state |-> "Skip", last |-> number, buf |-> << >>]

\* sync()
Sync(d, number) ==
    IF d.state = "Init"
    THEN [d EXCEPT !.state = "Skip", !.last = number]
    ELSE Jump(d, number)

\* The assertions of push(): a unit begins when none is in progress, and goes
\* on when one is.
Accepts(d, indicator) ==
    IF indicator \in {"NotFragmented", "FragmentHead"}
    THEN d.state # "InFragment"
    ELSE d.state \in {"InFragment", "Skip"}

\* push(): what the defragmenter is after a packet it accepts...
Push(d, indicator, packet) ==
    CASE indicator = "NotFragmented" -> [d EXCEPT !.state = "NotStarted"]
      [] indicator = "FragmentHead" ->
            [d EXCEPT !.state = "InFragment", !.buf = Append(@, packet)]
      [] indicator = "FragmentBody" ->
            IF d.state = "Skip" THEN d ELSE [d EXCEPT !.buf = Append(@, packet)]
      [] indicator = "FragmentTail" ->
            IF d.state = "Skip" THEN d
            ELSE [d EXCEPT !.state = "NotStarted", !.buf = << >>]

\* ...and the units it returns: none, or the packets of one.
Completed(d, indicator, packet) ==
    CASE indicator = "NotFragmented" -> << <<packet>> >>
      [] indicator = "FragmentTail" /\ d.state # "Skip" -> << Append(d.buf, packet) >>
      [] OTHER -> << >>
=============================================================================
