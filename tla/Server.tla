------------------------------- MODULE Server -------------------------------
(***************************************************************************)
(* What serve.rs puts together: Streams and the event crawler over one     *)
(* pool of tuners.                                                         *)
(***************************************************************************)
EXTENDS Streams, EventCrawler

ASSUME ServerAssumption ==
    /\ Users = Sessions \cup Crawls
    /\ Sessions \cap Crawls = {}

vars == <<tunerVars, streamVars, crawlVars>>

TypeOK == TunersTypeOK /\ StreamsTypeOK /\ CrawlerTypeOK

Init == TunersInit /\ StreamsInit /\ CrawlerInit

Next ==
    \/ StreamsNext /\ UNCHANGED crawlVars
    \/ CrawlerNext /\ UNCHANGED streamVars

Spec == Init /\ [][Next]_vars

(* Blocking tasks and threads are scheduled and device calls return (WF of *)
(* the starter, thread and crawl steps); a tuned channel goes on carrying  *)
(* packets and signaling (WF of what follows Demux::next_packet and        *)
(* Remuxer::next); timers fire and woken tasks run (WF); the tokio mutex   *)
(* is FIFO, so a waiter is not passed over forever (SF).  Clients ask,     *)
(* leave and read when they like.                                          *)
SessionsRun ==
    \A x \in Sessions :
        /\ WF_vars(StarterStep(x) /\ UNCHANGED crawlVars)
        /\ WF_vars(ThreadStep(x) /\ UNCHANGED crawlVars)

SignalingArrives ==
    /\ \A x \in Sessions : WF_vars(NextReturns(x) /\ UNCHANGED crawlVars)
    /\ \A k \in Crawls : WF_vars(PacketReturns(k) /\ UNCHANGED streamVars)

SubscribersRun ==
    \A c \in Clients :
        /\ SF_vars(EnterSubscribe(c) /\ UNCHANGED crawlVars)
        /\ WF_vars(LeaveSubscribe(c) /\ UNCHANGED crawlVars)
        /\ WF_vars(Wake(c) /\ UNCHANGED crawlVars)
        /\ WF_vars(PassDeadline(c) /\ UNCHANGED crawlVars)

CrawlsRun == \A k \in Crawls : WF_vars(CrawlStep(k) /\ UNCHANGED streamVars)

\* The input may fall silent: the antenna loses the signal while streaming.
SilentSpec == Spec /\ SessionsRun /\ SubscribersRun /\ CrawlsRun

FairSpec == SilentSpec /\ SignalingArrives

-----------------------------------------------------------------------------
Target(u) ==
    IF u \in Sessions THEN ChannelOf[service[u]] ELSE Schedule[position[u]]

(* Nobody retunes a device while somebody else still reads from it: what a *)
(* remuxer or a crawl reads is always the channel it asked for, whatever   *)
(* happens between tune, open, the end of the thread and the next lease.   *)
ReadsOwnChannel ==
    \A u \in Users : reader[u] # None => tunedTo[reader[u]] = Target(u)

(* Who has a lease and an open reader, and what the tuner is tuned to, at  *)
(* every point of a starter, a remuxer thread and a crawl: the invariant   *)
(* the exclusive use of the tuners rests on.                               *)
SessionHolds(x) ==
    /\ phase[x] # "free" => service[x] \in Services
    /\ thread[x] # "none" => phase[x] \in {"built", "shared"}
    /\ lease[x] # None <=> \/ phase[x] \in Starting \ {"scanning"}
                          \/ thread[x] # "none"
    /\ reader[x] # None => \/ phase[x] = "preparing"
                          \/ thread[x] \in {"check", "read", "finish"}
    /\ \/ phase[x] \in {"opening", "preparing"}
       \/ thread[x] \in {"check", "read", "finish"}
       => tunedTo[lease[x]] = ChannelOf[service[x]]

CrawlHolds(k) ==
    /\ lease[k] # None <=> crawl[k] \notin {"idle", "scanning"}
    /\ reader[k] # None => crawl[k] \in {"reading", "sending", "closing", "aborting"}
    /\ crawl[k] \in {"opening", "reading", "sending", "closing", "aborting"}
       => More(k) /\ tunedTo[lease[k]] = Schedule[position[k]]

WantsKnown == \A c \in Clients : stage[c] # "idle" => want[c] \in Services

LeaseInv ==
    /\ PoolInv /\ StreamsTypeOK /\ CrawlerTypeOK
    /\ WantsKnown
    /\ \A x \in Sessions : SessionHolds(x)
    /\ \A k \in Crawls : CrawlHolds(k)

(* Clients that view the same service share one session, and it is the one *)
(* new clients will be given, even when starters were abandoned half way   *)
(* by clients that hung up (Streams::subscribe).                           *)
OneSessionPerService ==
    \A c \in Clients :
        stage[c] = "viewing" => /\ streams[want[c]] = session[c]
                                /\ service[session[c]] = want[c]

(* What the streams lock protects: only its holder has a starter running   *)
(* for it, the service of that starter has no live stream, and the entry   *)
(* of a viewed service is the viewers' session.                            *)
ClientOwns(c) ==
    /\ stage[c] \in {"starting", "viewing"} <=> session[c] # None
    /\ lock = c <=> stage[c] = "starting"
    /\ stage[c] = "starting" =>
          /\ service[session[c]] = want[c]
          /\ phase[session[c]] \in Starting \cup Outcomes
          /\ ~Live(streams[want[c]])
    /\ stage[c] = "viewing" =>
          /\ service[session[c]] = want[c]
          /\ phase[session[c]] = "shared"
          /\ streams[want[c]] = session[c]

MapHolds(s) ==
    streams[s] # None => service[streams[s]] = s /\ phase[streams[s]] = "shared"

SharingInv ==
    /\ \A c \in Clients : ClientOwns(c)
    /\ \A s \in Services : MapHolds(s)

(* The tuner pool keeps the promise of LeasePool, through scans that are   *)
(* not atomic, failing starters, abandoned ones and crawls (tuner.rs).     *)
OwnerOf(t) ==
    IF permit[t] THEN None ELSE CHOOSE u \in Users : lease[u] = t

owners == [t \in TunerIds |-> OwnerOf(t)]

Pool == INSTANCE LeasePool
            WITH Tuners <- TunerIds, Nobody <- None, owner <- owners

GrantsLikeAPool == Pool!Spec

(* The clients see the sharing of SharedViewing, through the lock, the     *)
(* Weak map, the retries and the hang-ups (Streams::subscribe).            *)
ViewOf(c) == IF stage[c] = "viewing" THEN want[c] ELSE None

SourceOf(s) ==
    IF \E c \in Clients : ViewOf(c) = s THEN streams[s] ELSE None

views == [c \in Clients |-> ViewOf(c)]
sources == [s \in Services |-> SourceOf(s)]

Viewing == INSTANCE SharedViewing
               WITH Sources <- Sessions, viewing <- views, source <- sources

SharesLikeViewing == Viewing!Spec

-----------------------------------------------------------------------------
(* Every subscriber is answered in the end: with a stream, or with an      *)
(* error (the deadline is looked at only after a busy starter).            *)
SubscribersAnswered ==
    \A c \in Clients : stage[c] \in Pending ~> stage[c] \notin Pending

(* A tuner comes back after nobody wants it any more: the last client of a *)
(* stream or the one client of a starter has hung up, or the client of a   *)
(* crawl has stopped listening.                                            *)
Unwanted(u) ==
    IF u \in Sessions THEN Owners(u) = {} ELSE ~listening[u]

TunersReturned ==
    \A u \in Users : lease[u] # None /\ Unwanted(u) ~> lease[u] = None

-----------------------------------------------------------------------------
(* Statements of the repository that the code does not keep.               *)

(* stream.rs:140, "Returns the running stream for the service": a client   *)
(* is not given a stream whose thread has ended.                           *)
JoinsRunningStream ==
    [][\A c \in Clients : Join(c) => thread[streams[want[c]]] # "none"]_vars

(* stream.rs:69, "dropping the last one signals the remuxer thread to      *)
(* stop, which closes the tuner device and releases the lease".            *)
DroppingReleasesTuner ==
    \A x \in Sessions : Killed(x) /\ lease[x] # None ~> lease[x] = None
=============================================================================
