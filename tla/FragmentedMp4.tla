--------------------------- MODULE FragmentedMp4 ----------------------------
(***************************************************************************)
(* FragmentedMp4Muxer (crates/chibitv/src/mp4.rs) and the tracks it asks   *)
(* for samples.  The demuxer adds a track when a PMT or an MPT announces   *)
(* it, at any time, and hands over one unit of a track after the other,    *)
(* from wherever in the broadcast the tuner began to receive; the muxer    *)
(* holds everything back until every track added can be described, and     *)
(* drops what comes before the tracks' common start.                       *)
(*                                                                         *)
(* The units of a track are counted from the first one received; time is   *)
(* counted in units, all of the same duration.                             *)
(***************************************************************************)
EXTENDS Integers, SequencesExt

CONSTANTS
    Tracks,
    Kinds,      \* what the tracks may be: "mpeg2", "h265" or "audio"
    Skew,       \* how far apart in time the tracks are multiplexed at most
    MaxUnits,   \* bound on the units of a track
    None

ASSUME Mp4Assumption ==
    /\ Tracks # {} /\ IsFiniteSet(Tracks)
    /\ Kinds \subseteq [Tracks -> {"mpeg2", "h265", "audio"}]
    /\ Skew \in Nat /\ MaxUnits \in Nat
    /\ None \notin Int
    /\ None \notin [n : Int, dts : Int \cup {None}, head : BOOLEAN]
    /\ None \notin [track : Tracks, n : Int, dts : Int \cup {None}, head : BOOLEAN]

VARIABLES
    kind,        \* kind[t]: the TrackType of t
    start,       \* start[t]: when the first unit of t received is decoded
    added,       \* the tracks the muxer has: track_map, track_states
    fed,         \* fed[t]: units of t received
    configured,  \* configured[t]: the track has its metadata
    held,        \* held[t]: what the track keeps until the next unit comes
    overtaken,   \* history: a unit of t was passed on before the one held
    nextDts,     \* nextDts[t]: next_dts of Mpeg2VideoTrack
    ended,       \* the input has ended: finalize
    inHand,      \* the sample write_track_samples was called with
    firstDts, entry, ready,  \* FragmentedTrackState
    syncStart,   \* sync_start_dts
    pending,     \* pending_fragments
    written,     \* the init segment and the fragments given to the writer
    failed,      \* the sample in hand was refused, the remuxer thread ends
    late         \* history: the tracks added when the muxer had begun

trackVars == <<kind, start, added, fed, configured, held, overtaken, nextDts,
               ended, late>>
stateVars == <<firstDts, entry, ready, syncStart, pending, written, failed>>
mp4Vars == <<trackVars, inHand, stateVars>>

\* A unit of a track: head tells whether it has the headers, or the sample
\* entry made of them, that describe the track.
Times == 0 .. Skew + MaxUnits
Units == [n : 1 .. MaxUnits, dts : Times \cup {None}, head : BOOLEAN]
Samples ==
    [track : Tracks, n : 1 .. MaxUnits, dts : Times \cup {None}, head : BOOLEAN]

\* The tracks an init segment describes, and those there were (history).
InitSegments == [described : SUBSET Tracks, known : SUBSET Tracks]

Mp4TypeOK ==
    /\ kind \in Kinds
    /\ start \in [Tracks -> 0 .. Skew]
    /\ added \in SUBSET Tracks
    /\ fed \in [Tracks -> 0 .. MaxUnits]
    /\ configured \in [Tracks -> BOOLEAN]
    /\ held \in [Tracks -> Units \cup {None}]
    /\ overtaken \in [Tracks -> BOOLEAN]
    /\ nextDts \in [Tracks -> Times \cup {None}]
    /\ ended \in BOOLEAN
    /\ inHand \in Samples \cup {None}
    /\ firstDts \in [Tracks -> Times \cup {None}]
    /\ entry \in [Tracks -> BOOLEAN]
    /\ ready \in [Tracks -> BOOLEAN]
    /\ syncStart \in Times \cup {None}
    /\ pending \in Seq(Samples)
    /\ written \in Seq(Samples \cup InitSegments)
    /\ failed \in BOOLEAN
    /\ late \in SUBSET Tracks

\* Time is counted from the first unit on the air.
Mp4Init ==
    /\ kind \in Kinds
    /\ start \in [Tracks -> 0 .. Skew]
    /\ \E t \in Tracks : start[t] = 0
    /\ added = {}
    /\ fed = [t \in Tracks |-> 0]
    /\ configured = [t \in Tracks |-> FALSE]
    /\ held = [t \in Tracks |-> None]
    /\ overtaken = [t \in Tracks |-> FALSE]
    /\ nextDts = [t \in Tracks |-> None]
    /\ ended = FALSE
    /\ inHand = None
    /\ firstDts = [t \in Tracks |-> None]
    /\ entry = [t \in Tracks |-> FALSE]
    /\ ready = [t \in Tracks |-> FALSE]
    /\ syncStart = None
    /\ pending = <<>>
    /\ written = <<>>
    /\ failed = FALSE
    /\ late = {}

\* add_track; not while a sample is written, both are calls of one thread.
AddTrack(t) ==
    /\ ~ended /\ inHand = None
    /\ t \notin added
    /\ added' = added \cup {t}
    /\ late' = IF syncStart = None /\ pending = <<>> /\ written = <<>>
               THEN late ELSE late \cup {t}
    /\ UNCHANGED <<kind, start, fed, configured, held, overtaken, nextDts, ended,
                   inHand, stateVars>>

-----------------------------------------------------------------------------
(* The tracks: from units to samples.                                      *)

NextTime(t) == start[t] + fed[t]

\* The next unit of t on air; the multiplexer keeps the tracks together.  Any
\* unit may come without a time: a PES packet may have neither DTS nor PTS, and
\* a unit of MMT has none when the MPT that describes it was not received.
Arriving(t) ==
    {u \in Units :
        /\ u.n = fed[t] + 1
        /\ u.dts \in {NextTime(t), None}
        /\ \A other \in Tracks : NextTime(t) <= NextTime(other) + Skew}

Hand(t, u, dts, head) ==
    inHand' = [track |-> t, n |-> u.n, dts |-> dts, head |-> head]

\* AacAdtsTrack, AacLatmTrack: every frame has its header.
AudioUnit(t, u) ==
    /\ kind[t] = "audio"
    /\ Hand(t, u, u.dts, ~configured[t])
    /\ configured' = [configured EXCEPT ![t] = TRUE]
    /\ UNCHANGED <<held, overtaken, nextDts>>

\* write_frame of Mpeg2VideoTrack: nothing before a sequence header.
SkipFrame(t, u) ==
    /\ ~configured[t] /\ ~u.head
    /\ UNCHANGED <<configured, nextDts, inHand>>

\* Mutant: next_dts goes on by two fields of a frame's duration each.
WriteFrameTwice(t, u) ==
    LET dts == IF u.dts # None THEN u.dts ELSE nextDts[t] IN
    /\ configured[t] \/ u.head
    /\ Hand(t, u, dts, ~configured[t])
    /\ configured' = [configured EXCEPT ![t] = TRUE]
    /\ nextDts' = [nextDts EXCEPT ![t] = IF dts = None THEN None ELSE dts + 2]

WriteFrame(t, u) ==
    LET dts == IF u.dts # None THEN u.dts ELSE nextDts[t] IN
    /\ configured[t] \/ u.head
    /\ Hand(t, u, dts, ~configured[t])
    /\ configured' = [configured EXCEPT ![t] = TRUE]
    /\ nextDts' = [nextDts EXCEPT ![t] = IF dts = None THEN None ELSE dts + 1]

\* The parser knows a picture is complete when the next one begins.
Mpeg2Unit(t, u) ==
    /\ kind[t] = "mpeg2"
    /\ held' = [held EXCEPT ![t] = u]
    /\ UNCHANGED overtaken
    /\ \/ held[t] = None /\ UNCHANGED <<configured, nextDts, inHand>>
       \/ held[t] # None /\ SkipFrame(t, held[t])
       \/ held[t] # None /\ WriteFrame(t, held[t])

\* H265Track drops what comes before the parameter sets, ...
H265Skip(t, u) ==
    /\ kind[t] = "h265" /\ ~configured[t] /\ ~u.head
    /\ UNCHANGED <<configured, held, overtaken, nextDts, inHand>>

\* ... passes a unit without a timestamp on ...
H265Untimed(t, u) ==
    /\ kind[t] = "h265" /\ (configured[t] \/ u.head)
    /\ u.dts = None
    /\ Hand(t, u, None, ~configured[t])
    /\ configured' = [configured EXCEPT ![t] = TRUE]
    /\ overtaken' = [overtaken EXCEPT ![t] = @ \/ held[t] # None]
    /\ UNCHANGED <<held, nextDts>>

\* ... and keeps any other until the next one tells its duration.
H265Unit(t, u) ==
    /\ kind[t] = "h265" /\ (configured[t] \/ u.head)
    /\ u.dts # None
    /\ held' = [held EXCEPT ![t] = [u EXCEPT !.head = ~configured[t]]]
    /\ configured' = [configured EXCEPT ![t] = TRUE]
    /\ IF held[t] = None THEN UNCHANGED inHand
       ELSE Hand(t, held[t], held[t].dts, held[t].head)
    /\ UNCHANGED <<overtaken, nextDts>>

\* A unit of a track that has not been added: no track has its id.
Unknown(t) ==
    /\ t \notin added
    /\ UNCHANGED <<configured, held, overtaken, nextDts, inHand>>

\* Mux::write_sample, up to the samples the track returns.
Receive(t) ==
    /\ ~ended /\ inHand = None
    /\ fed[t] < MaxUnits
    /\ \E u \in Arriving(t) :
          \/ Unknown(t)
          \/ t \in added /\ \/ AudioUnit(t, u) \/ Mpeg2Unit(t, u)
                            \/ H265Skip(t, u) \/ H265Untimed(t, u) \/ H265Unit(t, u)
    /\ fed' = [fed EXCEPT ![t] = @ + 1]
    /\ UNCHANGED <<kind, start, added, ended, late, stateVars>>

-----------------------------------------------------------------------------
(* write_track_samples.                                                    *)

Observe(t) ==
    /\ firstDts' = [firstDts EXCEPT ![t] = IF @ = None THEN inHand.dts ELSE @]
    /\ entry' = [entry EXCEPT ![t] = @ \/ inHand.head]
    /\ syncStart' = IF syncStart = None /\ \A u \in added : firstDts'[u] # None
                    THEN Max({firstDts'[u] : u \in added})
                    ELSE syncStart

\* Mutant: samples are kept while the common start is not known.
TooEarlyOnly ==
    /\ syncStart' # None /\ inHand.dts # None
    /\ inHand.dts < syncStart'

\* A track has not begun yet, or the sample is older than the common start.
TooEarly ==
    \/ syncStart' = None /\ added # {inHand.track}
    \/ /\ syncStart' # None /\ inHand.dts # None
       /\ inHand.dts < syncStart'

\* Mutant: the entry observed on a dropped sample is forgotten.
FragmentAsIs(t) == inHand

\* The first sample of a track written carries the entry that was observed,
\* on a dropped one perhaps.
Fragment(t) ==
    [inHand EXCEPT !.head = @ \/ (~ready[t] /\ entry'[t])]

MarkReady(t) == ready' = [ready EXCEPT ![t] = @ \/ Fragment(t).head]

DropSample(t) ==
    /\ TooEarly
    /\ inHand' = None
    /\ UNCHANGED <<ready, pending, written, failed>>

\* The muxer library refuses a track's first sample when it has no entry: the
\* error ends the remuxer thread, the sample stays where it is.
RefuseSample(t) ==
    /\ ~TooEarly
    /\ ~ready[t] /\ ~Fragment(t).head
    /\ failed' = TRUE
    /\ UNCHANGED <<inHand, ready, pending, written>>

AcceptSample(t) ==
    /\ ~TooEarly
    /\ MarkReady(t) /\ ready'[t]
    /\ inHand' = None
    /\ UNCHANGED failed

HoldFragment(t) ==
    /\ AcceptSample(t) /\ written = <<>>
    /\ \E u \in added : ~ready'[u]
    /\ pending' = Append(pending, Fragment(t))
    /\ UNCHANGED written

\* What Fmp4SegmentMuxer has been given an entry of.
InitSegment(fragments) ==
    [described |-> {fragments[i].track :
                       i \in {j \in DOMAIN fragments : fragments[j].head}},
     known |-> added]

\* Mutant: the fragments held back are not drained.
OpenStreamAlone(t) ==
    LET fragments == Append(pending, Fragment(t)) IN
    /\ AcceptSample(t) /\ written = <<>>
    /\ \A u \in added : ready'[u]
    /\ written' = <<InitSegment(fragments), Fragment(t)>>
    /\ pending' = <<>>

OpenStream(t) ==
    LET fragments == Append(pending, Fragment(t)) IN
    /\ AcceptSample(t) /\ written = <<>>
    /\ \A u \in added : ready'[u]
    /\ written' = <<InitSegment(fragments)>> \o fragments
    /\ pending' = <<>>

WriteFragment(t) ==
    /\ AcceptSample(t) /\ written # <<>>
    /\ written' = Append(written, Fragment(t))
    /\ UNCHANGED pending

WriteSample(t) ==
    /\ ~failed /\ inHand # None /\ inHand.track = t
    /\ Observe(t)
    /\ \/ DropSample(t) \/ RefuseSample(t)
       \/ HoldFragment(t) \/ OpenStream(t) \/ WriteFragment(t)
    /\ UNCHANGED trackVars

-----------------------------------------------------------------------------
\* The input has ended; finalize asks every track for what it holds.
EndInput ==
    /\ ~ended /\ inHand = None
    /\ ended' = TRUE
    /\ UNCHANGED <<kind, start, added, fed, configured, held, overtaken, nextDts,
                   late, inHand, stateVars>>

\* Mutant: what a track holds at the end is lost.
FlushTrackShort(t) ==
    /\ ended /\ inHand = None /\ held[t] # None
    /\ held' = [held EXCEPT ![t] = None]
    /\ UNCHANGED <<kind, start, added, fed, configured, overtaken, nextDts, ended,
                   late, inHand, stateVars>>

FlushTrack(t) ==
    /\ ended /\ inHand = None /\ held[t] # None
    /\ held' = [held EXCEPT ![t] = None]
    /\ \/ kind[t] = "mpeg2" /\ (SkipFrame(t, held[t]) \/ WriteFrame(t, held[t]))
       \/ /\ kind[t] = "h265"
          /\ Hand(t, held[t], held[t].dts, held[t].head)
          /\ UNCHANGED <<configured, nextDts>>
    /\ UNCHANGED <<kind, start, added, fed, overtaken, ended, late, stateVars>>

Mp4Next ==
    \/ \E t \in Tracks : AddTrack(t) \/ Receive(t) \/ WriteSample(t) \/ FlushTrack(t)
    \/ EndInput

-----------------------------------------------------------------------------
\* The fragments so far, whether written or held back, and which of them are
\* of track t.
Fragments == (IF written = <<>> THEN <<>> ELSE Tail(written)) \o pending
FragmentsOf(t) == LET all == Fragments IN {i \in DOMAIN all : all[i].track = t}
FirstOf(t) == LET own == FragmentsOf(t) IN {i \in own : \A j \in own : i <= j}

(* mp4.rs: the init segment comes first and describes every track there is *)
(* when it is written, though the sample an entry came with may have been  *)
(* dropped.  For the same reason the muxer library is given the entry of a *)
(* track with its first fragment, and refuses none; except that an H.265   *)
(* track which alone decides when to begin may begin with a unit that came *)
(* without a timestamp and overtook the one with the entry.                *)
AllDescribed ==
    /\ written # <<>> => written[1].described = written[1].known
    /\ failed => \E t \in added : overtaken[t] /\ (t \in late \/ added = {t})

(* From its first fragment on a track loses, repeats and reorders nothing: *)
(* what has left it is in the fragments, through the held back sample, the *)
(* pending fragments and the end of the input.  There are two exceptions.  *)
(* A sample without a time is never too early: one may slip through before *)
(* the common start, and what follows it is dropped until then.  And of an *)
(* H.265 track with a unit that came without a timestamp and overtook the  *)
(* one held nothing is said.                                               *)
Delivered(t) ==
    fed[t] - (IF held[t] # None THEN 1 ELSE 0)
           - (IF inHand # None /\ inHand.track = t THEN 1 ELSE 0)

When(f) == start[f.track] + f.n - 1

SlippedThrough(f) ==
    /\ f.dts = None
    /\ IF syncStart = None THEN added # {f.track} ELSE When(f) < syncStart

NothingLost ==
    \A t \in Tracks :
        LET all == Fragments
            own == FragmentsOf(t)
        IN  ~overtaken[t] =>
                \A i \in own :
                    LET later == {j \in own : i < j} IN
                    /\ \A j \in later : all[i].n < all[j].n
                    /\ \/ SlippedThrough(all[i])
                       \/ later = {} /\ all[i].n = Delivered(t)
                       \/ \E j \in later : all[j].n = all[i].n + 1

(* Fragments are only ever added: opening the stream writes what was held  *)
(* back, in the order it was held back, and then goes on.                  *)
HeldBackIsWritten == [][IsPrefix(Fragments, Fragments')]_mp4Vars

(* The tracks begin together: how far apart their first fragments are is   *)
(* bounded by how far apart they are multiplexed and what a track holds    *)
(* back, not by when their headers come.  The fragments carry no time of   *)
(* their own, so what the tracks are apart here they stay apart.  Nothing  *)
(* is said of a track that was added when the muxer had begun without it,  *)
(* nor again of one with a unit that overtook the one held.                *)
Punctual(t) == t \in added \ late /\ ~overtaken[t]

StartTogether ==
    \A t, u \in Tracks : Punctual(t) /\ Punctual(u) =>
        \A i \in FirstOf(t), j \in FirstOf(u) :
            When(Fragments[i]) <= When(Fragments[j]) + Skew + 2

(* Why every track is described: where its entry is while the sample that  *)
(* brings it is held, in hand, dropped, held back and written.             *)
InHandOf(t) == inHand # None /\ inHand.track = t

EntryKnown(t) == entry[t] \/ (InHandOf(t) /\ inHand.head)

EntryOnItsWay(t) ==
    /\ configured[t] => \/ EntryKnown(t)
                        \/ kind[t] = "h265" /\ held[t] # None /\ held[t].head
    /\ held[t] # None => t \in added /\ (kind[t] = "h265" => configured[t])
    /\ InHandOf(t) => /\ t \in added /\ configured[t]
                      /\ EntryKnown(t) \/ (overtaken[t] /\ inHand.dts = None)
    /\ firstDts[t] # None => entry[t]

HasEntry(t, fragments) ==
    \E i \in DOMAIN fragments : fragments[i].track = t /\ fragments[i].head

\* What is held back is of tracks the init segment will describe.
EntryWritten ==
    /\ \A i \in DOMAIN pending : pending[i].track \in added
    /\ written = <<>> => \A t \in Tracks : ready[t] => HasEntry(t, pending)
    /\ written # <<>> => written[1].described = written[1].known

EntryInv ==
    /\ syncStart # None => \A t \in added \ late : firstDts[t] # None
    /\ \A t \in Tracks : EntryOnItsWay(t)
    /\ EntryWritten
    /\ failed => /\ inHand # None
                 /\ \E t \in added : overtaken[t] /\ (t \in late \/ added = {t})

(* Why nothing is lost and the tracks begin together: what a track passes  *)
(* on is counted and has its own time, ...                                 *)
HeldBack(t) == IF held[t] # None THEN 1 ELSE 0
OwnTime(t, n) == start[t] + n - 1

UnitsCounted(t) ==
    /\ kind[t] = "mpeg2" => ~overtaken[t]
    /\ nextDts[t] # None => /\ kind[t] = "mpeg2" /\ configured[t]
                            /\ nextDts[t] = start[t] + fed[t] - HeldBack(t)
    /\ held[t] # None =>
          /\ t \in added /\ kind[t] # "audio"
          /\ kind[t] = "h265" => configured[t] /\ held[t].dts # None
          /\ held[t].n \in 1 .. fed[t]
          /\ held[t].dts \in {OwnTime(t, held[t].n), None}
          /\ ~overtaken[t] => held[t].n = fed[t]

SampleCounted(t) ==
    /\ configured[t] => t \in added
    /\ firstDts[t] # None => configured[t] /\ firstDts[t] <= OwnTime(t, fed[t])
    /\ InHandOf(t) =>
          /\ configured[t]
          /\ inHand.n \in 1 .. fed[t]
          /\ inHand.dts \in {OwnTime(t, inHand.n), None}
          /\ ~overtaken[t] => inHand.n = Delivered(t) + 1

(* ... the tracks are fed together and the common start is that of all, ...*)
FedTogether ==
    \A t, u \in Tracks :
        /\ start[t] + fed[t] <= start[u] + fed[u] + Skew + 1
        /\ t # u /\ InHandOf(u) =>
              start[t] + fed[t] <= start[u] + fed[u] - HeldBack(u) + Skew + 1

StartKnown ==
    /\ added # {} /\ (\A t \in added : firstDts[t] # None) => syncStart # None
    /\ syncStart # None => \A t \in added \ late : firstDts[t] # None
    /\ syncStart = None /\ Fragments # <<>> => \A t, u \in added \ late : t = u

(* ... what has a time is not earlier than the common start, ...           *)
GoesOn(t) ==
    \A i \in FragmentsOf(t) :
        LET f == Fragments[i] IN
        /\ configured[t]
        /\ f.dts # None => syncStart # None /\ syncStart <= When(f)
        /\ ~overtaken[t] => f.n <= Delivered(t)
        /\ ~overtaken[t] /\ syncStart = None /\ firstDts[t] # None =>
              When(f) < firstDts[t]

(* ... and when a track begins is settled as soon as the start is known.   *)
Due(t) == start[t] + Delivered(t)
Begins(t) ==
    {When(Fragments[i]) : i \in FirstOf(t)} \cup
    (IF FragmentsOf(t) # {} THEN {}
     ELSE {Due(t), Max({Due(t), syncStart})})

BeginTogether ==
    syncStart # None =>
        \A t, u \in Tracks : t # u /\ Punctual(t) /\ Punctual(u) =>
            \A b \in Begins(t), c \in Begins(u) : b <= c + Skew + 2

TimeInv ==
    /\ \A t \in Tracks : UnitsCounted(t) /\ SampleCounted(t) /\ GoesOn(t)
    /\ FedTogether /\ StartKnown /\ NothingLost /\ BeginTogether
=============================================================================
