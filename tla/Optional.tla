------------------------------ MODULE Optional ------------------------------
(* What the modules of the transport stream share: the value of an Option   *)
(* that holds nothing, and a set of numbers in order.                       *)
EXTENDS Naturals, FiniteSets

CONSTANT None

Or(option, other) == IF option # None THEN option ELSE other

Ascending(numbers) ==
    [i \in 1 .. Cardinality(numbers) |->
        CHOOSE n \in numbers : Cardinality({m \in numbers : m <= n}) = i]
=============================================================================
