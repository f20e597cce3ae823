------------------------------ MODULE MCGuide -------------------------------
(* Small instances of Guide for TLC: what the sections of a service may    *)
(* list together, and which descriptors they carry.                        *)
EXTENDS Guide, TLC

CONSTANTS s1, s2, e1

\* Sections with the same descriptors: an event is listed by one at a time.
OneTable == [s \in Sections |-> "short"]
Disjoint ==
    {a \in [Sections -> SUBSET Events] :
        \A s, t \in Sections : s # t => a[s] \cap a[t] = {}}

\* Both sections are of the schedule, or one is of the present and following
\* table.
All == {Sections}
AllOrOne == {Sections, {s1}}

\* A section of the basic and one of the extended schedule table describe
\* the same event with different descriptors.
TwoTables == s1 :> "short" @@ s2 :> "extended"
AlwaysBoth == {[s \in Sections |-> Events]}
=============================================================================
