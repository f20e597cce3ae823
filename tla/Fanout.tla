------------------------------- MODULE Fanout -------------------------------
(***************************************************************************)
(* How one stream reaches its viewers (crates/chibitv/src/stream.rs): the  *)
(* Fmp4StreamWriter of the remuxer thread keeps the first chunk, the init  *)
(* segment, behind a mutex and sends every chunk to a bounded broadcast    *)
(* channel; a viewer takes the init segment and a receiver under the same  *)
(* mutex and then reads on its own.  Chunks are known by their position in *)
(* what the muxer writes: the init segment is chunk 1.                     *)
(***************************************************************************)
EXTENDS Integers, Sequences

CONSTANTS
    Viewers,
    Capacity,   \* BROADCAST_CAPACITY
    Writer,     \* the remuxer thread
    Nobody

ASSUME FanoutAssumption ==
    /\ Capacity \in Nat \ {0}
    /\ Writer \notin Viewers /\ Nobody \notin Viewers \cup {Writer}

VARIABLES
    sent,         \* the number of chunks sent so far
    initSegment,  \* the chunk in init_segment
    lock,         \* who holds its mutex
    at,           \* at[c]: where viewer c is
    next,         \* next[c]: the chunk its receiver is at
    got           \* got[c]: the first chunk c was sent and those since it lagged

fanVars == <<sent, initSegment, lock, at, next, got>>

Lagged == 0
NoChunk == 0

FanTypeOK ==
    /\ sent \in Nat
    /\ initSegment \in Nat
    /\ lock \in Viewers \cup {Writer, Nobody}
    /\ at \in [Viewers -> {"away", "locked", "subscribed", "watching"}]
    /\ next \in [Viewers -> Nat]
    /\ got \in [Viewers -> Seq(Nat)]

FanInit ==
    /\ sent = 0
    /\ initSegment = NoChunk
    /\ lock = Nobody
    /\ at = [c \in Viewers |-> "away"]
    /\ next = [c \in Viewers |-> 0]
    /\ got = [c \in Viewers |-> <<>>]

-----------------------------------------------------------------------------
(* write_fragment.                                                         *)
LockToWrite ==
    /\ lock = Nobody
    /\ lock' = Writer
    /\ UNCHANGED <<sent, initSegment, at, next, got>>

\* Mutant: the mutex is released before the chunk is sent.
KeepInitUnlocked ==
    /\ lock = Writer /\ initSegment = NoChunk
    /\ initSegment' = sent + 1
    /\ lock' = Nobody
    /\ UNCHANGED <<sent, at, next, got>>

KeepInit ==
    /\ lock = Writer /\ initSegment = NoChunk
    /\ initSegment' = sent + 1
    /\ UNCHANGED <<sent, lock, at, next, got>>

SendChunk ==
    /\ lock = Writer /\ initSegment # NoChunk
    /\ sent' = sent + 1
    /\ lock' = Nobody
    /\ UNCHANGED <<initSegment, at, next, got>>

-----------------------------------------------------------------------------
(* subscribe_fmp4 and the response stream of a viewer.                     *)
LockToSubscribe(c) ==
    /\ at[c] = "away" /\ lock = Nobody
    /\ lock' = c
    /\ at' = [at EXCEPT ![c] = "locked"]
    /\ UNCHANGED <<sent, initSegment, next, got>>

CreateReceiver(c) ==
    /\ at[c] = "locked"
    /\ next' = [next EXCEPT ![c] = sent + 1]
    /\ at' = [at EXCEPT ![c] = "subscribed"]
    /\ UNCHANGED <<sent, initSegment, lock, got>>

\* The init segment, if there is one, goes before what the receiver gets.
CopyInit(c) ==
    /\ at[c] = "subscribed"
    /\ got' = [got EXCEPT ![c] = IF initSegment = NoChunk THEN <<>> ELSE <<initSegment>>]
    /\ at' = [at EXCEPT ![c] = "watching"]
    /\ lock' = Nobody
    /\ UNCHANGED <<sent, initSegment, next>>

\* The channel keeps the last Capacity chunks.
Oldest == IF sent > Capacity THEN sent - Capacity + 1 ELSE 1

Deliver(c) ==
    /\ at[c] = "watching"
    /\ Oldest <= next[c] /\ next[c] <= sent
    /\ got' = [got EXCEPT ![c] = Append(@, next[c])]
    /\ next' = [next EXCEPT ![c] = @ + 1]
    /\ UNCHANGED <<sent, initSegment, lock, at>>

\* Lagged: the error is filtered out and the receiver goes on at the oldest.
Lag(c) ==
    /\ at[c] = "watching"
    /\ next[c] < Oldest
    /\ got' = [got EXCEPT ![c] = IF @ = <<>> THEN <<Lagged>> ELSE <<@[1], Lagged>>]
    /\ next' = [next EXCEPT ![c] = Oldest]
    /\ UNCHANGED <<sent, initSegment, lock, at>>

Leave(c) ==
    /\ at[c] = "watching"
    /\ at' = [at EXCEPT ![c] = "away"]
    /\ next' = [next EXCEPT ![c] = 0]
    /\ got' = [got EXCEPT ![c] = <<>>]
    /\ UNCHANGED <<sent, initSegment, lock>>

ViewerStep(c) ==
    \/ LockToSubscribe(c) \/ CreateReceiver(c) \/ CopyInit(c)
    \/ Deliver(c) \/ Lag(c)

-----------------------------------------------------------------------------
Clean(chunks) ==
    /\ chunks # <<>> => chunks[1] \in {1, Lagged}
    /\ \A i \in 2 .. Len(chunks) :
          /\ chunks[i] # 1
          /\ i < Len(chunks) /\ chunks[i] # Lagged /\ chunks[i + 1] # Lagged =>
                 chunks[i + 1] = chunks[i] + 1

(* Whatever the moment a viewer joins, it begins with the init segment,    *)
(* gets it once, and then every chunk sent since it joined, in order; only *)
(* a viewer that falls behind by more than the channel keeps misses any.   *)
BeginsWithInit == \A c \in Viewers : Clean(got[c])

(* What makes it so, step by step: the mutex keeps the init segment and    *)
(* the first chunk together, and between the receiver and the copy of the  *)
(* init segment nothing is sent.                                           *)
ViewerInv(c) ==
    /\ lock = c <=> at[c] \in {"locked", "subscribed"}
    /\ at[c] # "watching" => got[c] = <<>>
    /\ at[c] = "subscribed" => next[c] = sent + 1
    /\ at[c] = "watching" =>
          /\ next[c] \in 1 .. sent + 1
          /\ got[c] = <<>> <=> next[c] = 1
          /\ Len(got[c]) > 1 => got[c][Len(got[c])] \in {Lagged, next[c] - 1}
    /\ Clean(got[c])

FanInv ==
    /\ FanTypeOK
    /\ initSegment \in {NoChunk, 1}
    /\ initSegment = NoChunk => sent = 0
    /\ sent = 0 /\ initSegment # NoChunk => lock = Writer
    /\ \A c \in Viewers : ViewerInv(c)
=============================================================================
