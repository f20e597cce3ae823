------------------------------ MODULE MCServer ------------------------------
(* Small instances of Server for TLC: two services, each on a channel of   *)
(* its own, and crawls that visit one or both channels.                    *)
EXTENDS Server, TLC

CONSTANTS ch1, ch2, s1, s2

BothChannels == {ch1, ch2}
OneChannelEach == s1 :> ch1 @@ s2 :> ch2
OneServiceOnly == s1 :> ch1
VisitOne == <<ch2>>
VisitBoth == <<ch1, ch2>>
VisitNone == <<>>

Interchangeable == Permutations(Clients) \cup Permutations(Sessions)
=============================================================================
