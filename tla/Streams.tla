------------------------------ MODULE Streams -------------------------------
(***************************************************************************)
(* Stream sharing: crates/chibitv/src/stream.rs with its callers in        *)
(* workspace.rs and rpc.rs.  A client's Stream RPC takes the async mutex   *)
(* over the service -> Weak<Stream> map, joins the live stream it finds or *)
(* runs a blocking starter under the lock, and retries while tuners are    *)
(* busy.  Every started stream has a remuxer thread that owns the tuner.   *)
(*                                                                         *)
(* A session is one run of stream_starter together with the Stream and the *)
(* thread it may produce.  session[c] = x says that the future or response *)
(* of client c owns x: the JoinHandle of the starter, later the            *)
(* Arc<Stream>; the clients that own x are its strong count.               *)
(***************************************************************************)
EXTENDS Tuners

CONSTANTS
    Clients,
    Services,
    Sessions,           \* bound on the sessions alive at one time
    ChannelOf           \* the channel workspace.rs finds for a service

ASSUME StreamsAssumption ==
    /\ Sessions \subseteq Users
    /\ None \notin Clients \cup Services \cup Sessions
    /\ ChannelOf \in [Services -> Channels]

VARIABLES
    lock,      \* holder of the tokio mutex around the map
    streams,   \* streams[s]: the session whose Weak is stored for service s
    service,   \* service[x]: the service session x was started for
    phase,     \* phase[x]: how far the starter of x is
    thread,    \* thread[x]: where the remuxer thread of x is
    stage,     \* stage[c]: where the subscribe of client c is
    want,      \* want[c]: the service client c asked for
    expired,   \* expired[c]: the acquire deadline of c has passed
    session    \* session[c]: what c owns

streamVars ==
    <<lock, streams, service, phase, thread, stage, want, expired, session>>

Starting == {"scanning", "tuning", "opening", "preparing", "abandoning"}
Outcomes == {"built", "busy", "failed"}
Pending == {"waiting", "starting", "sleeping"}

StreamsTypeOK ==
    /\ lock \in Clients \cup {None}
    /\ streams \in [Services -> Sessions \cup {None}]
    /\ service \in [Sessions -> Services \cup {None}]
    /\ phase \in [Sessions -> {"free", "shared"} \cup Starting \cup Outcomes]
    /\ thread \in [Sessions -> {"none", "check", "read", "finish", "closed"}]
    /\ stage \in [Clients -> {"idle", "viewing"} \cup Pending]
    /\ want \in [Clients -> Services \cup {None}]
    /\ expired \in [Clients -> BOOLEAN]
    /\ session \in [Clients -> Sessions \cup {None}]

StreamsInit ==
    /\ lock = None
    /\ streams = [s \in Services |-> None]
    /\ service = [x \in Sessions |-> None]
    /\ phase = [x \in Sessions |-> "free"]
    /\ thread = [x \in Sessions |-> "none"]
    /\ stage = [c \in Clients |-> "idle"]
    /\ want = [c \in Clients |-> None]
    /\ expired = [c \in Clients |-> FALSE]
    /\ session = [c \in Clients |-> None]

Owners(x) == {c \in Clients : session[c] = x}

\* Weak::upgrade succeeds: the Stream exists and its strong count is positive.
Live(x) == x # None /\ phase[x] = "shared" /\ Owners(x) # {}

\* The last Arc is gone: Drop for Stream has sent the kill signal.
Killed(x) == phase[x] = "shared" /\ Owners(x) = {}

\* A session the model may start anew: nothing refers to it any more.
Fresh(x) ==
    \/ phase[x] = "free"
    \/ Killed(x) /\ thread[x] = "none" /\ \A s \in Services : streams[s] # x

-----------------------------------------------------------------------------
(* The subscribing client.                                                 *)

Request(c, s) ==
    /\ stage[c] = "idle"
    /\ stage' = [stage EXCEPT ![c] = "waiting"]
    /\ want' = [want EXCEPT ![c] = s]
    /\ UNCHANGED <<tunerVars, lock, streams, service, phase, thread, expired, session>>

\* The map has a stream somebody still holds: take another Arc of it.
Join(c) ==
    LET x == streams[want[c]] IN
    /\ stage[c] = "waiting" /\ lock = None
    /\ Live(x)
    /\ session' = [session EXCEPT ![c] = x]
    /\ stage' = [stage EXCEPT ![c] = "viewing"]
    /\ expired' = [expired EXCEPT ![c] = FALSE]
    /\ UNCHANGED <<tunerVars, lock, streams, service, phase, thread, want>>

\* Mutant: the lock is let go before the starter has run.
SpawnStarterUnlocked(c, x) ==
    /\ stage[c] = "waiting" /\ lock = None
    /\ ~Live(streams[want[c]])
    /\ Fresh(x)
    /\ stage' = [stage EXCEPT ![c] = "starting"]
    /\ session' = [session EXCEPT ![c] = x]
    /\ service' = [service EXCEPT ![x] = want[c]]
    /\ phase' = [phase EXCEPT ![x] = "scanning"]
    /\ BeginScan(x)
    /\ UNCHANGED <<lock, streams, thread, want, expired>>

\* Nobody streams the service: spawn_blocking(starter), keeping the lock.
SpawnStarter(c, x) ==
    /\ stage[c] = "waiting" /\ lock = None
    /\ ~Live(streams[want[c]])
    /\ Fresh(x)
    /\ lock' = c
    /\ stage' = [stage EXCEPT ![c] = "starting"]
    /\ session' = [session EXCEPT ![c] = x]
    /\ service' = [service EXCEPT ![x] = want[c]]
    /\ phase' = [phase EXCEPT ![x] = "scanning"]
    /\ BeginScan(x)
    /\ UNCHANGED <<streams, thread, want, expired>>

\* The guard of subscribe goes out of scope and the RPC fails.
ReplyError(c) ==
    /\ stage' = [stage EXCEPT ![c] = "idle"]
    /\ want' = [want EXCEPT ![c] = None]
    /\ expired' = [expired EXCEPT ![c] = FALSE]

\* Mutant: retain keeps the dead entries and drops the live ones.
RememberDead(x) ==
    streams' = [s \in Services |->
                  IF s = service[x] THEN x
                  ELSE IF Live(streams[s]) THEN None ELSE streams[s]]

\* retain(strong_count > 0), then insert: the client's own Arc makes x live.
Remember(x) ==
    streams' = [s \in Services |->
                  IF s = service[x] THEN x
                  ELSE IF Live(streams[s]) THEN streams[s] ELSE None]

TakeStream(c) ==
    LET x == session[c] IN
    /\ stage[c] = "starting" /\ phase[x] = "built"
    /\ Remember(x)
    /\ phase' = [phase EXCEPT ![x] = "shared"]
    /\ stage' = [stage EXCEPT ![c] = "viewing"]
    /\ expired' = [expired EXCEPT ![c] = FALSE]
    /\ lock' = None
    /\ UNCHANGED <<tunerVars, service, thread, want, session>>

DiscardStarter(c) ==
    /\ phase' = [phase EXCEPT ![session[c]] = "free"]
    /\ session' = [session EXCEPT ![c] = None]
    /\ lock' = None
    /\ UNCHANGED <<tunerVars, streams, service, thread>>

\* Mutant: a busy starter is retried whatever the deadline.
TakeBusyForever(c) ==
    /\ stage[c] = "starting" /\ phase[session[c]] = "busy"
    /\ DiscardStarter(c)
    /\ stage' = [stage EXCEPT ![c] = "sleeping"]
    /\ UNCHANGED <<want, expired>>

TakeBusy(c) ==
    /\ stage[c] = "starting" /\ phase[session[c]] = "busy"
    /\ DiscardStarter(c)
    /\ IF expired[c]
       THEN ReplyError(c)
       ELSE /\ stage' = [stage EXCEPT ![c] = "sleeping"]
            /\ UNCHANGED <<want, expired>>

TakeFailure(c) ==
    /\ stage[c] = "starting" /\ phase[session[c]] = "failed"
    /\ DiscardStarter(c)
    /\ ReplyError(c)

Wake(c) ==
    /\ stage[c] = "sleeping"
    /\ stage' = [stage EXCEPT ![c] = "waiting"]
    /\ UNCHANGED <<tunerVars, lock, streams, service, phase, thread, want, expired, session>>

\* Five seconds have passed since the request.
PassDeadline(c) ==
    /\ stage[c] \in Pending /\ ~expired[c]
    /\ expired' = [expired EXCEPT ![c] = TRUE]
    /\ UNCHANGED <<tunerVars, lock, streams, service, phase, thread, stage, want, session>>

-----------------------------------------------------------------------------
(* The client goes away: its future, or its response stream, is dropped.   *)
(* A starter already running is not: it ends with nobody to take what it   *)
(* made, and the result is dropped with it.                                *)

\* What becomes of a starter that ends with p: kept for the one awaiting it.
Outcome(x, p) ==
    IF Owners(x) # {} THEN p ELSE IF p = "built" THEN "shared" ELSE "free"

Hangup(c) ==
    /\ session' = [session EXCEPT ![c] = None]
    /\ stage' = [stage EXCEPT ![c] = "idle"]
    /\ want' = [want EXCEPT ![c] = None]
    /\ expired' = [expired EXCEPT ![c] = FALSE]
    /\ UNCHANGED <<tunerVars, streams, service, thread>>

HangupWaiting(c) ==
    /\ stage[c] \in {"waiting", "sleeping"}
    /\ Hangup(c)
    /\ UNCHANGED <<lock, phase>>

\* Mutant: a dropped future leaves the map locked.
HangupStartingLocked(c) ==
    LET x == session[c] IN
    /\ stage[c] = "starting"
    /\ Hangup(c)
    /\ UNCHANGED lock
    /\ phase' = [phase EXCEPT ![x] =
                   CASE @ = "built" -> "shared"
                     [] @ \in {"busy", "failed"} -> "free"
                     [] OTHER -> @]

HangupStarting(c) ==
    LET x == session[c] IN
    /\ stage[c] = "starting"
    /\ Hangup(c)
    /\ lock' = None
    /\ phase' = [phase EXCEPT ![x] =
                   CASE @ = "built" -> "shared"
                     [] @ \in {"busy", "failed"} -> "free"
                     [] OTHER -> @]

HangupViewing(c) ==
    /\ stage[c] = "viewing"
    /\ Hangup(c)
    /\ UNCHANGED <<lock, phase>>

-----------------------------------------------------------------------------
(* The starter, on a blocking thread: stream_starter and start_stream.     *)

Move(x, from, to) ==
    /\ phase[x] = from
    /\ phase' = [phase EXCEPT ![x] = to]
    /\ UNCHANGED <<lock, streams, service, stage, want, expired, session>>

StarterScan(x) ==
    /\ UNCHANGED thread
    /\ \/ Move(x, "scanning", "tuning") /\ TakePermit(x)
       \/ Move(x, "scanning", "scanning") /\ SkipSlot(x)
       \/ Move(x, "scanning", Outcome(x, "busy")) /\ AllInUse(x)

\* Mutant: an error of tune is overlooked.
StarterTuneAnyway(x) ==
    /\ Move(x, "tuning", "opening")
    /\ Tune(x, ChannelOf[service[x]]) \/ Tune(x, None)
    /\ UNCHANGED thread

StarterTune(x) ==
    /\ Move(x, "tuning", "opening")
    /\ Tune(x, ChannelOf[service[x]])
    /\ UNCHANGED thread

\* Mutant: a starter that fails forgets its lease.
StarterFailLeaks(x) ==
    /\ UNCHANGED <<thread, cursor, reader, permit, lease>>
    /\ \/ Move(x, "tuning", Outcome(x, "failed")) /\ TuneFails(x, ChannelOf[service[x]])
       \/ Move(x, "opening", Outcome(x, "failed")) /\ UNCHANGED tunedTo

\* tune or open failed: the lease is dropped with the starter's locals.
StarterFail(x) ==
    /\ UNCHANGED <<thread, cursor, reader>>
    /\ \/ Move(x, "tuning", Outcome(x, "failed")) /\ TuneFails(x, ChannelOf[service[x]])
       \/ Move(x, "opening", Outcome(x, "failed")) /\ UNCHANGED tunedTo
    /\ ReturnPermit(x)

StarterOpen(x) ==
    /\ Move(x, "opening", "preparing")
    /\ OpenReader(x)
    /\ UNCHANGED thread

\* The descrambler is set up and the remuxer thread runs.
StarterBuild(x) ==
    /\ Move(x, "preparing", Outcome(x, "built"))
    /\ thread' = [thread EXCEPT ![x] = "check"]
    /\ UNCHANGED tunerVars

\* No descrambler: TunerInput closes its reader, then drops its lease.
StarterAbandon(x) ==
    /\ UNCHANGED thread
    /\ \/ Move(x, "preparing", "abandoning") /\ CloseReader(x)
       \/ Move(x, "abandoning", Outcome(x, "failed")) /\ DropLease(x)

StarterStep(x) ==
    \/ StarterScan(x) \/ StarterTune(x) \/ StarterFail(x)
    \/ StarterOpen(x) \/ StarterBuild(x) \/ StarterAbandon(x)

-----------------------------------------------------------------------------
(* The remuxer thread.  The kill signal is looked at only after            *)
(* Remuxer::next has returned a signaling event.                           *)

Run(x, from, to) ==
    /\ thread[x] = from
    /\ thread' = [thread EXCEPT ![x] = to]
    /\ UNCHANGED <<lock, streams, service, phase, stage, want, expired, session>>

\* Mutant: the kill signal is not looked at.
CheckNothing(x) == Run(x, "check", "read") /\ UNCHANGED tunerVars

CheckKill(x) ==
    /\ Run(x, "check", IF Killed(x) THEN "finish" ELSE "read")
    /\ UNCHANGED tunerVars

\* next returned signaling and the processor took it.
ReadSignaling(x) == Run(x, "read", "check") /\ UNCHANGED tunerVars

\* End of the input, or an error of the muxer or the processor.
ReadEnds(x) == Run(x, "read", "finish") /\ UNCHANGED tunerVars

\* Mutant: the lease is dropped before the reader.
ThreadReleaseFirst(x) == Run(x, "finish", "closed") /\ DropLease(x)

ThreadClose(x) == Run(x, "finish", "closed") /\ CloseReader(x)

ThreadRelease(x) == Run(x, "closed", "none") /\ DropLease(x)

ThreadStep(x) == CheckKill(x) \/ ThreadClose(x) \/ ThreadRelease(x)

NextReturns(x) == ReadSignaling(x) \/ ReadEnds(x)

EnterSubscribe(c) == Join(c) \/ \E x \in Sessions : SpawnStarter(c, x)

LeaveSubscribe(c) == TakeStream(c) \/ TakeBusy(c) \/ TakeFailure(c)

HangupStep(c) == HangupWaiting(c) \/ HangupStarting(c) \/ HangupViewing(c)

ClientStep(c) ==
    \/ \E s \in Services : Request(c, s)
    \/ EnterSubscribe(c) \/ LeaveSubscribe(c)
    \/ Wake(c) \/ PassDeadline(c)
    \/ HangupStep(c)

StreamsNext ==
    \/ \E c \in Clients : ClientStep(c)
    \/ \E x \in Sessions : StarterStep(x) \/ ThreadStep(x) \/ NextReturns(x)
=============================================================================
