------------------------------- MODULE MCLive -------------------------------
(* Small instances of Live for TLC: a service of ISDB-T or of ISDB-S.      *)
EXTENDS Live, TLC

CONSTANTS v, a

Services == {v :> "mpeg2" @@ a :> "audio", v :> "h265" @@ a :> "audio"}

\* Bounds what is on air while somebody watches; the muxer alone goes on.
MaxWatched == 4

Watched ==
    (\E c \in Viewers : at[c] # "away") =>
        \A t, u \in Tracks : t # u => fed[t] + fed[u] <= MaxWatched
=============================================================================
