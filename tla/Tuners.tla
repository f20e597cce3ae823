------------------------------- MODULE Tuners -------------------------------
(***************************************************************************)
(* The tuner pool of crates/chibitv/src/tuner.rs and the devices behind it *)
(* (tuner/dvb.rs): one semaphore permit per slot, the lease that holds it, *)
(* the channel a frontend is tuned to, and the readers open on a device.   *)
(* This module owns the state and the operations; Streams and EventCrawler *)
(* say when they are called.                                               *)
(***************************************************************************)
EXTENDS Naturals

CONSTANTS
    TunerCount,  \* slots 0 .. TunerCount - 1, numbered as serve.rs numbers them
    Users,       \* whoever can hold a lease: stream starters and crawls
    Channels,    \* what a tuner can be tuned to
    None

TunerIds == 0 .. TunerCount - 1

ASSUME TunersAssumption ==
    /\ TunerCount \in Nat \ {0}
    /\ None \notin TunerIds \cup Users \cup Channels

VARIABLES
    permit,   \* permit[t]: the semaphore of slot t has its permit available
    cursor,   \* cursor[u]: the slot a try_acquire in progress looks at next
    lease,    \* lease[u]: the slot whose TunerLease u owns
    tunedTo,  \* tunedTo[t]: the channel the frontend has a lock on
    reader    \* reader[u]: the device u reads from

tunerVars == <<permit, cursor, lease, tunedTo, reader>>

TunersTypeOK ==
    /\ permit \in [TunerIds -> BOOLEAN]
    /\ cursor \in [Users -> TunerIds \cup {None}]
    /\ lease \in [Users -> TunerIds \cup {None}]
    /\ tunedTo \in [TunerIds -> Channels \cup {None}]
    /\ reader \in [Users -> TunerIds \cup {None}]

TunersInit ==
    /\ permit = [t \in TunerIds |-> TRUE]
    /\ cursor = [u \in Users |-> None]
    /\ lease = [u \in Users |-> None]
    /\ tunedTo = [t \in TunerIds |-> None]
    /\ reader = [u \in Users |-> None]

-----------------------------------------------------------------------------
(* try_acquire walks the slots in id order and takes the first permit it   *)
(* finds; nothing keeps the slots it has passed from being released.       *)

BeginScan(u) ==
    /\ cursor' = [cursor EXCEPT ![u] = 0]
    /\ UNCHANGED <<permit, lease, tunedTo, reader>>

\* Mutant: the semaphore is not asked.
TakePermitUnasked(u) ==
    /\ cursor[u] # None
    /\ permit' = [permit EXCEPT ![cursor[u]] = FALSE]
    /\ lease' = [lease EXCEPT ![u] = cursor[u]]
    /\ cursor' = [cursor EXCEPT ![u] = None]
    /\ UNCHANGED <<tunedTo, reader>>

TakePermit(u) ==
    /\ cursor[u] # None
    /\ permit[cursor[u]]
    /\ permit' = [permit EXCEPT ![cursor[u]] = FALSE]
    /\ lease' = [lease EXCEPT ![u] = cursor[u]]
    /\ cursor' = [cursor EXCEPT ![u] = None]
    /\ UNCHANGED <<tunedTo, reader>>

SkipSlot(u) ==
    /\ cursor[u] # None
    /\ ~permit[cursor[u]]
    /\ cursor[u] + 1 \in TunerIds
    /\ cursor' = [cursor EXCEPT ![u] = cursor[u] + 1]
    /\ UNCHANGED <<permit, lease, tunedTo, reader>>

AllInUse(u) ==
    /\ cursor[u] # None
    /\ ~permit[cursor[u]]
    /\ cursor[u] + 1 \notin TunerIds
    /\ cursor' = [cursor EXCEPT ![u] = None]
    /\ UNCHANGED <<permit, lease, tunedTo, reader>>

Tune(u, channel) ==
    /\ tunedTo' = [tunedTo EXCEPT ![lease[u]] = channel]
    /\ UNCHANGED <<permit, cursor, lease, reader>>

\* tune fails: "No signal", or locked on the channel but no PES filter set.
TuneFails(u, channel) ==
    \E lock \in {None, channel} : tunedTo' = [tunedTo EXCEPT ![lease[u]] = lock]

OpenReader(u) ==
    /\ reader' = [reader EXCEPT ![u] = lease[u]]
    /\ UNCHANGED <<permit, cursor, lease, tunedTo>>

CloseReader(u) ==
    /\ reader' = [reader EXCEPT ![u] = None]
    /\ UNCHANGED <<permit, cursor, lease, tunedTo>>

ReturnPermit(u) ==
    /\ permit' = [permit EXCEPT ![lease[u]] = TRUE]
    /\ lease' = [lease EXCEPT ![u] = None]

DropLease(u) ==
    /\ ReturnPermit(u)
    /\ UNCHANGED <<cursor, tunedTo, reader>>

-----------------------------------------------------------------------------
(* A permit is out exactly while one lease holds it: two users never share *)
(* a tuner, and no permit is lost with its lease (tuner.rs, OwnedPermit).  *)
LeaseExclusive ==
    /\ \A u, v \in Users :
          lease[u] # None /\ lease[u] = lease[v] => u = v
    /\ \A t \in TunerIds :
          ~permit[t] <=> \E u \in Users : lease[u] = t

(* "Keep the reader before the lease so the device is closed before the    *)
(* tuner is released": whoever has a device open still leases its tuner.   *)
ReaderHoldsLease ==
    \A u \in Users : reader[u] # None => lease[u] = reader[u]

PoolInv == TunersTypeOK /\ LeaseExclusive /\ ReaderHoldsLease
=============================================================================
