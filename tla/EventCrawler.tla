---------------------------- MODULE EventCrawler ----------------------------
(***************************************************************************)
(* EventCrawler::crawl (crates/chibitv/src/event_crawler.rs) on the thread *)
(* that refresh_events of rpc.rs spawns for it.  One lease is kept over    *)
(* all the channels; every channel is tuned, opened, read until its        *)
(* deadline and closed.  What a crawl collects is left out here; that it   *)
(* blocks while the queue to its client is full is not.                    *)
(***************************************************************************)
EXTENDS Tuners, Sequences

CONSTANTS
    Crawls,     \* the crawls that may run at the same time
    Schedule    \* the configured channels, in order

ASSUME CrawlerAssumption ==
    /\ Crawls \subseteq Users
    /\ Schedule \in Seq(Channels)

VARIABLES
    crawl,      \* crawl[k]: what the crawling thread is doing
    position,   \* position[k]: index of the channel it is at
    listening   \* listening[k]: the client still holds the response stream

crawlVars == <<crawl, position, listening>>

CrawlerTypeOK ==
    /\ crawl \in [Crawls -> {"idle", "scanning", "tuning", "opening", "reading",
                             "sending", "closing", "aborting"}]
    /\ position \in [Crawls -> 1 .. Len(Schedule) + 1]
    /\ listening \in [Crawls -> BOOLEAN]

CrawlerInit ==
    /\ crawl = [k \in Crawls |-> "idle"]
    /\ position = [k \in Crawls |-> 1]
    /\ listening = [k \in Crawls |-> FALSE]

Goto(k, from, to) ==
    /\ crawl[k] = from
    /\ crawl' = [crawl EXCEPT ![k] = to]

Stay == UNCHANGED <<position, listening>>

\* The RPC handler spawns the thread and returns the receiving end.
Refresh(k) ==
    /\ Goto(k, "idle", "scanning")
    /\ listening' = [listening EXCEPT ![k] = TRUE]
    /\ position' = [position EXCEPT ![k] = 1]
    /\ BeginScan(k)

\* Dropping the response stream closes the queue; the thread is not told.
StopListening(k) ==
    /\ crawl[k] # "idle" /\ listening[k]
    /\ listening' = [listening EXCEPT ![k] = FALSE]
    /\ UNCHANGED <<tunerVars, crawl, position>>

CrawlScan(k) ==
    \/ Goto(k, "scanning", "tuning") /\ TakePermit(k) /\ Stay
    \/ Goto(k, "scanning", "scanning") /\ SkipSlot(k) /\ Stay
    \/ /\ Goto(k, "scanning", "idle") /\ AllInUse(k)
       /\ listening' = [listening EXCEPT ![k] = FALSE]
       /\ UNCHANGED position

More(k) == position[k] <= Len(Schedule)

CrawlTune(k) ==
    /\ More(k)
    /\ Goto(k, "tuning", "opening")
    /\ Tune(k, Schedule[position[k]])
    /\ Stay

NextChannel(k) ==
    /\ position' = [position EXCEPT ![k] = @ + 1]
    /\ UNCHANGED listening

\* A channel that cannot be tuned or opened is passed over.
SkipChannel(k) ==
    /\ More(k)
    /\ \/ Goto(k, "tuning", "tuning") /\ TuneFails(k, Schedule[position[k]])
       \/ Goto(k, "opening", "tuning") /\ UNCHANGED tunedTo
    /\ NextChannel(k)
    /\ UNCHANGED <<permit, cursor, lease, reader>>

CrawlOpen(k) ==
    /\ Goto(k, "opening", "reading")
    /\ OpenReader(k)
    /\ Stay

\* emit: blocking_send waits while the queue of 16 is full, until the client
\* takes an event ...
Emit(k) == Goto(k, "reading", "sending") /\ Stay /\ UNCHANGED tunerVars

ClientTakes(k) ==
    /\ listening[k]
    /\ Goto(k, "sending", "reading") /\ Stay
    /\ UNCHANGED tunerVars

\* ... or has gone, which ends the crawl.
EmitFails(k) ==
    /\ ~listening[k]
    /\ Goto(k, "sending", "aborting") /\ Stay
    /\ UNCHANGED tunerVars

\* The deadline has passed (it is looked at between packets), or the input has
\* ended.
DwellEnds(k) == Goto(k, "reading", "closing") /\ Stay /\ UNCHANGED tunerVars

\* No descrambler, or the processor failed: the error ends the crawl.
CrawlFails(k) == Goto(k, "reading", "aborting") /\ Stay /\ UNCHANGED tunerVars

CrawlClose(k) ==
    /\ CloseReader(k)
    /\ \/ Goto(k, "closing", "tuning") /\ NextChannel(k)
       \/ /\ Goto(k, "aborting", "tuning")
          /\ position' = [position EXCEPT ![k] = Len(Schedule) + 1]
          /\ UNCHANGED listening

\* crawl returns: the lease goes, then the thread and its sender.
CrawlReturns(k) ==
    /\ ~More(k)
    /\ Goto(k, "tuning", "idle")
    /\ listening' = [listening EXCEPT ![k] = FALSE]
    /\ position' = [position EXCEPT ![k] = 1]
    /\ DropLease(k)

\* The steps of the thread, as opposed to those of its client.
CrawlStep(k) ==
    \/ CrawlScan(k) \/ CrawlTune(k) \/ SkipChannel(k) \/ CrawlOpen(k)
    \/ EmitFails(k) \/ CrawlClose(k) \/ CrawlReturns(k)

\* What may follow when next_packet returns.
PacketReturns(k) == Emit(k) \/ DwellEnds(k) \/ CrawlFails(k)

CrawlAction(k) ==
    \/ Refresh(k) \/ StopListening(k) \/ ClientTakes(k)
    \/ CrawlStep(k) \/ PacketReturns(k)

CrawlerNext == \E k \in Crawls : CrawlAction(k)
=============================================================================
