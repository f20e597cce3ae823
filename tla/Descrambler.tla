---------------------------- MODULE Descrambler -----------------------------
(* Descrambler of crates/chibitv_b61/src/descrambler.rs: streams hand the   *)
(* ECMs they receive to a thread that asks the CAS card for the keys.       *)
(*                                                                          *)
(* serve opens one descrambler and every stream of ISDB-S works on a clone  *)
(* of it (stream.rs:187): the clones share the channel of ECMs, the thread  *)
(* and the channel of keys; only the key in use is a clone's own.  The      *)
(* crawler and the commands open one each and wait for its answers, serve   *)
(* does not (is_async).                                                     *)
(*                                                                          *)
(* A clone belongs to one service, and the service's ECM is named like it:  *)
(* the ECM on air does not change within a behaviour, because the keys of   *)
(* an ECM outlast the few seconds a behaviour stands for.                   *)
EXTENDS Naturals, Sequences, FiniteSets

CONSTANTS
    Clones,          \* the descramblers cloned from one, each for a service
    ChannelCapacity, \* sync_channel(16)
    MaxErrors,       \* how often the card refuses an ECM
    None

\* What the thread answers to an ECM: the key (Some) or nothing.
Answers == [ecm : Clones, ok : BOOLEAN]

ASSUME DescramblerAssumption ==
    /\ Clones # {} /\ None \notin Clones /\ None \notin Answers
    /\ ChannelCapacity \in Nat \ {0}
    /\ MaxErrors \in Nat

VARIABLES
    isAsync, \* is_async: answers are collected before each packet
    ecms,    \* ecm_tx, ecm_rx: the ECMs the thread has not taken yet
    alive,   \* the thread runs
    working, \* the answer the thread is about to send, or None
    keys,    \* key_rx: the answers no clone has taken yet
    key,     \* key of each clone: whose ECM it was decrypted from
    waiting, \* the clones whose push_ecm waits in recv()
    errors   \* how often the card has refused

descramblerVars == <<isAsync, ecms, alive, working, keys, key, waiting, errors>>

DescramblerInit ==
    /\ isAsync \in BOOLEAN
    /\ ecms = << >>
    /\ alive = TRUE
    /\ working = None
    /\ keys = << >>
    /\ key = [c \in Clones |-> None]
    /\ waiting = {}
    /\ errors = 0

\* push_ecm() of clone c with the ECM of its service.  A full channel drops
\* the ECM of a stream that does not wait; it is on air again soon.
PushEcm(c) ==
    /\ c \notin waiting
    /\ key[c] # c
    /\ alive
    /\ \/ isAsync /\ Len(ecms) = ChannelCapacity /\ UNCHANGED <<ecms, waiting>>
       \/ /\ Len(ecms) < ChannelCapacity
          /\ ecms' = Append(ecms, c)
          /\ waiting' = IF isAsync THEN waiting ELSE waiting \cup {c}
    /\ UNCHANGED <<isAsync, alive, working, keys, key, errors>>

\* The key a clone has after it took answer.
KeyAfter(current, answer) == IF answer.ok THEN answer.ecm ELSE current

\* recv_key(true): the end of the push_ecm of a clone that waits.
RecvKey(c) ==
    /\ c \in waiting
    /\ \/ /\ keys # << >>
          /\ key' = [key EXCEPT ![c] = KeyAfter(@, Head(keys))]
          /\ keys' = Tail(keys)
       \/ keys = << >> /\ ~alive /\ UNCHANGED <<key, keys>>
    /\ waiting' = waiting \ {c}
    /\ UNCHANGED <<isAsync, alive, ecms, working, errors>>

\* The last of the answers in the channel that carries a key.
LastKey(c) ==
    LET last == {i \in DOMAIN keys :
                    keys[i].ok /\ \A j \in i + 1 .. Len(keys) : ~keys[j].ok}
    IN  IF last = {} THEN key[c] ELSE keys[CHOOSE i \in last : TRUE].ecm

\* The key a clone works with when it descrambles: recv_key(false) takes
\* every answer there is, whoever asked for it.
KeyInUse(c) == IF isAsync THEN LastKey(c) ELSE key[c]

TakeKeys(c) ==
    /\ c \notin waiting
    /\ key' = [key EXCEPT ![c] = KeyInUse(c)]
    /\ keys' = IF isAsync THEN << >> ELSE keys
    /\ UNCHANGED <<isAsync, alive, ecms, working, waiting, errors>>

\* What descramble() makes of a payload of the service of c.
Outcome(c, scrambled) ==
    IF isAsync /\ ~alive THEN "failed"
    ELSE IF ~scrambled THEN "clear"
    ELSE IF KeyInUse(c) = None THEN "failed"
    ELSE IF KeyInUse(c) = c THEN "clear"
    ELSE "garbled"

\* Mutant: a thread that sends no answer to an ECM the card refuses.
DecryptOrSkip ==
    /\ alive
    /\ working = None
    /\ ecms # << >>
    /\ ecms' = Tail(ecms)
    /\ \/ working' = [ecm |-> Head(ecms), ok |-> TRUE] /\ UNCHANGED errors
       \/ errors < MaxErrors /\ errors' = errors + 1 /\ UNCHANGED working
    /\ UNCHANGED <<isAsync, alive, keys, key, waiting>>

\* The thread of init(): it takes an ECM and asks the card...
DecryptEcm ==
    /\ alive
    /\ working = None
    /\ ecms # << >>
    /\ ecms' = Tail(ecms)
    /\ \/ working' = [ecm |-> Head(ecms), ok |-> TRUE] /\ UNCHANGED errors
       \/ /\ errors < MaxErrors
          /\ errors' = errors + 1
          /\ working' = [ecm |-> Head(ecms), ok |-> FALSE]
    /\ UNCHANGED <<isAsync, alive, keys, key, waiting>>

\* ...and sends the answer when the channel of keys has room.
SendKey ==
    /\ working \in Answers
    /\ Len(keys) < ChannelCapacity
    /\ keys' = Append(keys, working)
    /\ working' = None
    /\ UNCHANGED <<isAsync, alive, ecms, key, waiting, errors>>

\* A card that answers with another hash ends the thread (assert_eq!), and
\* both channels with it.
WorkerDies ==
    /\ alive
    /\ working = None
    /\ ecms # << >>
    /\ errors < MaxErrors
    /\ errors' = errors + 1
    /\ alive' = FALSE
    /\ ecms' = << >>
    /\ UNCHANGED <<isAsync, working, keys, key, waiting>>

WorkerStep == DecryptEcm \/ SendKey \/ WorkerDies

DescramblerTypeOK ==
    /\ isAsync \in BOOLEAN
    /\ ecms \in Seq(Clones) /\ Len(ecms) <= ChannelCapacity
    /\ alive \in BOOLEAN
    /\ working \in Answers \cup {None}
    /\ keys \in Seq(Answers) /\ Len(keys) <= ChannelCapacity
    /\ key \in [Clones -> Clones \cup {None}]
    /\ waiting \in SUBSET Clones
    /\ errors \in 0..MaxErrors
=============================================================================
