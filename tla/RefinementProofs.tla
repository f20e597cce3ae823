-------------------------- MODULE RefinementProofs --------------------------
(***************************************************************************)
(* The server implements its two abstract specifications: LeasePool, what  *)
(* the tuner pool promises, and SharedViewing, what clients are promised.  *)
(***************************************************************************)
EXTENDS ServerProofs

(* Who owns a tuner in the abstract pool is who holds its lease.           *)
OwnerIsHolder(t) ==
    /\ permit[t] => OwnerOf(t) = None
    /\ ~permit[t] => OwnerOf(t) \in Users /\ lease[OwnerOf(t)] = t
    /\ \A u \in Users : lease[u] = t => OwnerOf(t) = u

(* The owner of a tuner, as the refinement mapping picks it, is its one    *)
(* holder.                                                                 *)
LEMMA OwnersHold == PoolInv => \A t \in TunerIds : OwnerIsHolder(t)
<1> SUFFICES ASSUME PoolInv, NEW t \in TunerIds PROVE OwnerIsHolder(t)
    OBVIOUS
<1>1. ~permit[t] => OwnerOf(t) \in Users /\ lease[OwnerOf(t)] = t
      BY DEF PoolInv, LeaseExclusive, OwnerOf
<1>2. ASSUME NEW u \in Users, lease[u] = t
      PROVE  OwnerOf(t) = u
      BY <1>1, <1>2, NoneIsNoTuner DEF PoolInv, LeaseExclusive
<1>3. QED
      BY <1>1, <1>2 DEF OwnerOf, OwnerIsHolder

(* The same of the state a step leads to.                                  *)
LEMMA OwnersHoldNext == PoolInv' => \A t \in TunerIds : OwnerIsHolder(t)'
<1>1. PoolInv' => (\A t \in TunerIds : OwnerIsHolder(t))'
      BY OwnersHold, PTL
<1>2. QED
      BY <1>1

(* A step takes one permit, returns one, or leaves the pool's books alone. *)
PoolStep ==
    \/ UNCHANGED <<permit, lease>>
    \/ \E u \in Users : lease[u] = None /\ TakePermit(u)
    \/ \E u \in Users : lease[u] # None /\ ReturnPermit(u)

(* A step of the server takes one free permit, returns one lease, or       *)
(* touches neither.                                                        *)
LEMMA EveryStepIsAPoolStep == LeaseInv /\ [Next]_vars => PoolStep
<1> SUFFICES ASSUME LeaseInv, [Next]_vars PROVE PoolStep
    OBVIOUS
<1>1. CASE UNCHANGED tunerVars
      BY <1>1 DEF tunerVars, PoolStep
<1>2. ASSUME NEW c \in Clients, ClientStep(c) PROVE PoolStep
      BY <1>2, ClientSettles DEF PoolStep, tunerVars, SpawnStarter, BeginScan
<1>3. ASSUME NEW x \in Sessions, StarterStep(x) PROVE PoolStep
  <2>1. x \in Users /\ SessionHolds(x)
        BY UsersSplit DEF LeaseInv
  <2>2. CASE Move(x, "scanning", "tuning") /\ TakePermit(x)
        BY <2>1, <2>2 DEF SessionHolds, Move, PoolStep, Starting
  <2>3. CASE /\ ReturnPermit(x)
             /\ phase[x] \in {"tuning", "opening", "abandoning"}
        BY <2>1, <2>3 DEF SessionHolds, PoolStep, Starting
  <2>4. QED
        BY <1>3, <2>2, <2>3
           DEF StarterStep, StarterScan, StarterTune, StarterFail, StarterOpen, StarterBuild,
               StarterAbandon, Move, SkipSlot, AllInUse, Tune, OpenReader, CloseReader,
               DropLease, tunerVars, PoolStep
<1>4. ASSUME NEW x \in Sessions, ThreadStep(x) \/ NextReturns(x) PROVE PoolStep
  <2>1. x \in Users /\ SessionHolds(x)
        BY UsersSplit DEF LeaseInv
  <2>2. CASE ThreadRelease(x)
        BY <2>1, <2>2 DEF ThreadRelease, Run, DropLease, SessionHolds, PoolStep
  <2>3. QED
        BY <1>4, <2>2
           DEF ThreadStep, NextReturns, CheckKill, ReadSignaling, ReadEnds, ThreadClose,
               CloseReader, tunerVars, PoolStep
<1>5. ASSUME NEW k \in Crawls,
             CrawlAction(k)
      PROVE  PoolStep
  <2>1. k \in Users /\ CrawlHolds(k)
        BY UsersSplit DEF LeaseInv
  <2>2. CASE Goto(k, "scanning", "tuning") /\ TakePermit(k)
        BY <2>1, <2>2 DEF CrawlHolds, Goto, PoolStep
  <2>3. CASE CrawlReturns(k)
        BY <2>1, <2>3 DEF CrawlReturns, Goto, DropLease, CrawlHolds, PoolStep
  <2>4. QED
        BY <1>5, <2>2, <2>3
           DEF CrawlAction, PacketReturns, Refresh, StopListening, ClientTakes, CrawlStep, CrawlScan, CrawlTune,
               SkipChannel, CrawlOpen, Emit, EmitFails, DwellEnds, CrawlFails,
               CrawlClose, BeginScan, SkipSlot, AllInUse, Tune, OpenReader, CloseReader,
               tunerVars, PoolStep
<1>6. QED
      BY <1>1, <1>2, <1>3, <1>4, <1>5 DEF Next, StreamsNext, CrawlerNext, vars

(* Taking a permit is a Grant, returning a lease a Return, the rest a      *)
(* stutter.                                                                *)
LEMMA PoolStepRefines ==
    ASSUME PoolInv, PoolInv', PoolStep
    PROVE  Pool!Next \/ UNCHANGED owners
<1>1. CASE UNCHANGED <<permit, lease>>
      BY <1>1 DEF owners, OwnerOf
<1>2. ASSUME NEW u \in Users, lease[u] = None, TakePermit(u)
      PROVE  Pool!Next
  <2>1. PICK t \in TunerIds : t = cursor[u]
        BY <1>2 DEF TakePermit, PoolInv, TunersTypeOK
  <2>2. permit[t] /\ OwnerOf(t) = None
        BY <1>2, <2>1, OwnersHold DEF TakePermit, OwnerIsHolder
  <2>3. \A r \in TunerIds : OwnerOf(r) # u
        BY <1>2, OwnersHold, NoneIsNoTuner, TunersAssumption
           DEF TunersAssumption, OwnerIsHolder
  <2>4. lease'[u] = t
        BY <1>2, <2>1 DEF TakePermit, PoolInv, TunersTypeOK
  <2>5. OwnerOf(t)' = u
        BY <2>4, OwnersHoldNext DEF OwnerIsHolder
  <2>6. ASSUME NEW r \in TunerIds, r # t PROVE OwnerOf(r)' = OwnerOf(r)
    <3>1. permit'[r] = permit[r]
          BY <1>2, <2>1, <2>6 DEF TakePermit, PoolInv, TunersTypeOK
    <3>2. \A v \in Users : lease'[v] = r <=> lease[v] = r
          BY <1>2, <2>1, <2>6, NoneIsNoTuner DEF TakePermit, PoolInv, TunersTypeOK
    <3>3. QED
          BY <3>1, <3>2, OwnersHold, OwnersHoldNext DEF OwnerIsHolder
  <2>7. Pool!Grant(u, t)
        BY <2>2, <2>3, <2>5, <2>6 DEF Pool!Grant, owners
  <2>8. QED
        BY <2>7 DEF Pool!Next
<1>3. ASSUME NEW u \in Users, lease[u] # None, ReturnPermit(u)
      PROVE  Pool!Next
  <2>1. PICK t \in TunerIds : t = lease[u]
        BY <1>3 DEF PoolInv, TunersTypeOK
  <2>2. OwnerOf(t) = u /\ u # None
        BY <2>1, OwnersHold, TunersAssumption DEF TunersAssumption, OwnerIsHolder
  <2>3. permit'[t]
        BY <1>3, <2>1 DEF ReturnPermit, PoolInv, TunersTypeOK
  <2>4. OwnerOf(t)' = None
        BY <2>3 DEF OwnerOf
  <2>5. ASSUME NEW r \in TunerIds, r # t PROVE OwnerOf(r)' = OwnerOf(r)
    <3>1. permit'[r] = permit[r]
          BY <1>3, <2>1, <2>5 DEF ReturnPermit, PoolInv, TunersTypeOK
    <3>2. \A v \in Users : lease'[v] = r <=> lease[v] = r
          BY <1>3, <2>1, <2>5, NoneIsNoTuner DEF ReturnPermit, PoolInv, TunersTypeOK
    <3>3. QED
          BY <3>1, <3>2, OwnersHold, OwnersHoldNext DEF OwnerIsHolder
  <2>6. Pool!Return(t)
        BY <2>2, <2>4, <2>5 DEF Pool!Return, owners
  <2>7. QED
        BY <2>6 DEF Pool!Next
<1>4. QED
      BY <1>1, <1>2, <1>3 DEF PoolStep

(* The tuner pool implements LeasePool.                                    *)
THEOREM PoolRefines == Spec => GrantsLikeAPool
<1>1. Init => Pool!Init
      BY DEF Init, TunersInit, Pool!Init, owners, OwnerOf
<1>2. LeaseInv /\ LeaseInv' /\ [Next]_vars => [Pool!Next]_owners
      BY EveryStepIsAPoolStep, PoolStepRefines DEF LeaseInv
<1>3. QED
      BY <1>1, <1>2, LeasesKept, PTL DEF Spec, GrantsLikeAPool, Pool!Spec

-----------------------------------------------------------------------------
(* A viewer's view is what the map has for its service.                    *)
LEMMA ViewersSource ==
    ASSUME SharingInv, StreamTypes, NEW s \in Services
    PROVE  /\ SourceOf(s) # None <=> \E d \in Clients : ViewOf(d) = s
           /\ SourceOf(s) # None <=> Live(streams[s])
           /\ SourceOf(s) # None => SourceOf(s) = streams[s]
<1>1. ASSUME NEW d \in Clients, ViewOf(d) = s
      PROVE  Live(streams[s]) /\ SourceOf(s) = streams[s]
  <2>1. stage[d] = "viewing" /\ want[d] = s
        BY <1>1, ChannelsKnown DEF ViewOf
  <2>2. QED
        BY <1>1, <2>1, ChannelsKnown
           DEF SharingInv, ClientOwns, StreamTypes, Live, Owners, SourceOf
<1>2. ASSUME Live(streams[s])
      PROVE  \E d \in Clients : ViewOf(d) = s
  <2>1. PICK d \in Clients : session[d] = streams[s]
        BY <1>2 DEF Live, Owners
  <2>2. service[session[d]] = s /\ phase[session[d]] = "shared" /\ session[d] # None
        BY <1>2, <2>1 DEF SharingInv, MapHolds, Live
  <2>3. stage[d] = "viewing" /\ want[d] = s
        BY <2>2 DEF SharingInv, ClientOwns, Starting, Outcomes
  <2>4. QED
        BY <2>3 DEF ViewOf
<1>3. QED
      BY <1>1, <1>2 DEF SourceOf, Live

(* Joining the live stream of the map is a Share.                          *)
LEMMA JoinShares ==
    ASSUME SharingInv, StreamTypes, NEW c \in Clients, Join(c)
    PROVE  Viewing!Share(c, want[c])
<1>1. want[c] \in Services /\ stage[c] = "waiting" /\ Live(streams[want[c]])
      BY DEF Join, StreamTypes
<1>2. SourceOf(want[c]) # None
      BY <1>1, ViewersSource
<1>3. UNCHANGED <<streams, want>> /\ stage' = [stage EXCEPT ![c] = "viewing"]
      BY DEF Join
<1>4. /\ ViewOf(c) = None /\ ViewOf(c)' = want[c]
      /\ \A d \in Clients \ {c} : ViewOf(d)' = ViewOf(d)
      BY <1>1, <1>3 DEF ViewOf, StreamTypes
<1>5. PICK e \in Clients : ViewOf(e) = want[c]
      BY <1>1, <1>2, ViewersSource
<1>6. ASSUME NEW s \in Services PROVE SourceOf(s)' = SourceOf(s)
  <2>1. (\E d \in Clients : ViewOf(d)' = s) <=> (\E d \in Clients : ViewOf(d) = s)
        BY <1>1, <1>4, <1>5, ChannelsKnown
  <2>2. QED
        BY <1>3, <2>1 DEF SourceOf
<1>7. QED
      BY <1>1, <1>2, <1>4, <1>6 DEF Viewing!Share, views, sources

(* Taking the stream of one's own starter is a Start from a source nobody  *)
(* uses.                                                                   *)
LEMMA TakeStarts ==
    ASSUME SharingInv, StreamTypes, NEW c \in Clients, TakeStream(c)
    PROVE  Viewing!Start(c, want[c], session[c])
<1>1. /\ stage[c] = "starting" /\ phase[session[c]] = "built"
      /\ session[c] \in Sessions /\ want[c] \in Services
      /\ service[session[c]] = want[c] /\ ~Live(streams[want[c]])
      BY DEF TakeStream, SharingInv, ClientOwns, StreamTypes
<1>2. /\ streams' = [s \in Services |->
                       IF s = want[c] THEN session[c]
                       ELSE IF Live(streams[s]) THEN streams[s] ELSE None]
      /\ stage' = [stage EXCEPT ![c] = "viewing"]
      /\ UNCHANGED want
      BY <1>1 DEF TakeStream, Remember
<1>3. /\ ViewOf(c) = None /\ ViewOf(c)' = want[c]
      /\ \A d \in Clients \ {c} : ViewOf(d)' = ViewOf(d)
      BY <1>1, <1>2 DEF ViewOf, StreamTypes
<1>4. SourceOf(want[c]) = None
      BY <1>1, ViewersSource
<1>5. \A r \in Services : SourceOf(r) # session[c]
  <2>1. \A r \in Services : streams[r] # session[c]
        BY <1>1, ChannelsKnown DEF SharingInv, MapHolds
  <2>2. QED
        BY <1>1, <2>1, ViewersSource, ChannelsKnown
<1>6. ASSUME NEW s \in Services
      PROVE  SourceOf(s)' = IF s = want[c] THEN session[c] ELSE SourceOf(s)
  <2>1. CASE s = want[c]
        BY <1>2, <1>3, <2>1 DEF SourceOf
  <2>2. CASE s # want[c]
    <3>1. (\E d \in Clients : ViewOf(d)' = s) <=> (\E d \in Clients : ViewOf(d) = s)
          BY <1>3, <2>2, ChannelsKnown
    <3>2. (\E d \in Clients : ViewOf(d) = s) => streams'[s] = streams[s]
      <4>1. (\E d \in Clients : ViewOf(d) = s) => Live(streams[s])
            BY ViewersSource
      <4>2. Live(streams[s]) => streams'[s] = streams[s]
            BY <1>2, <2>2
      <4>3. QED
            BY <4>1, <4>2
    <3>3. QED
          BY <2>2, <3>1, <3>2 DEF SourceOf
  <2>3. QED
        BY <2>1, <2>2
<1>7. QED
      BY <1>1, <1>3, <1>4, <1>5, <1>6 DEF Viewing!Start, views, sources

(* A viewer that hangs up is a Leave, and the last one takes the source    *)
(* along.                                                                  *)
LEMMA HangupLeaves ==
    ASSUME SharingInv, StreamTypes, NEW c \in Clients, HangupViewing(c)
    PROVE  Viewing!Leave(c, want[c])
<1>1. /\ stage[c] = "viewing" /\ want[c] \in Services
      /\ stage' = [stage EXCEPT ![c] = "idle"]
      /\ want' = [want EXCEPT ![c] = None]
      /\ UNCHANGED streams
      BY DEF HangupViewing, Hangup, StreamTypes
<1>2. /\ ViewOf(c) = want[c] /\ ViewOf(c)' = None
      /\ \A d \in Clients \ {c} : ViewOf(d)' = ViewOf(d)
      BY <1>1 DEF ViewOf, StreamTypes
<1>3. ASSUME NEW s \in Services
      PROVE  SourceOf(s)' = IF s = want[c] /\ ~\E d \in Clients \ {c} : ViewOf(d) = s
                            THEN None ELSE SourceOf(s)
      BY <1>1, <1>2, ChannelsKnown DEF SourceOf
<1>4. CASE \E d \in Clients \ {c} : ViewOf(d) = want[c]
      BY <1>1, <1>2, <1>3, <1>4 DEF Viewing!Leave, views, sources
<1>5. CASE ~\E d \in Clients \ {c} : ViewOf(d) = want[c]
      BY <1>1, <1>2, <1>3, <1>5 DEF Viewing!Leave, views, sources
<1>6. QED
      BY <1>4, <1>5

\* Steps no client can see: nobody starts or stops viewing.
Unseen ==
    /\ UNCHANGED streams
    /\ \A d \in Clients : ViewOf(d)' = ViewOf(d)

(* What changes no view, no entry and no owner is a stutter of             *)
(* SharedViewing.                                                          *)
LEMMA UnseenStutters == Unseen => UNCHANGED <<views, sources>>
BY DEF Unseen, views, sources, SourceOf

(* Every other step of the server is one the viewers do not see.           *)
LEMMA OthersUnseen ==
    ASSUME SharingInv, StreamTypes, [Next]_vars,
           \A c \in Clients : ~Join(c) /\ ~TakeStream(c) /\ ~HangupViewing(c)
    PROVE  Unseen
<1>1. ASSUME NEW c \in Clients, ClientStep(c) PROVE Unseen
      BY <1>1
         DEF ClientStep, EnterSubscribe, LeaveSubscribe, HangupStep, Request, SpawnStarter,
             TakeBusy, TakeFailure, DiscardStarter, ReplyError, Wake, PassDeadline,
             HangupWaiting, HangupStarting, Hangup, Unseen, ViewOf, StreamTypes
<1>2. CASE UNCHANGED <<streams, stage, want>>
      BY <1>2 DEF Unseen, ViewOf
<1>3. ASSUME NEW x \in Sessions, StarterStep(x) \/ ThreadStep(x) \/ NextReturns(x)
      PROVE  Unseen
      BY <1>2, <1>3
         DEF StarterStep, StarterScan, StarterTune, StarterFail, StarterOpen, StarterBuild,
             StarterAbandon, Move, ThreadStep, NextReturns, CheckKill, ReadSignaling,
             ReadEnds, ThreadClose, ThreadRelease, Run
<1>4. CASE UNCHANGED streamVars
      BY <1>2, <1>4 DEF streamVars
<1>5. QED
      BY <1>1, <1>3, <1>4 DEF Next, StreamsNext, vars

(* Stream sharing implements SharedViewing.                                *)
THEOREM SharingRefines == Spec => SharesLikeViewing
<1>1. Init => Viewing!Init
  <2> SUFFICES ASSUME Init PROVE Viewing!Init
      OBVIOUS
  <2>1. \A c \in Clients : ViewOf(c) = None
        BY DEF Init, StreamsInit, ViewOf
  <2>2. \A s \in Services : SourceOf(s) = None
        BY DEF Init, StreamsInit, SourceOf
  <2>3. QED
        BY <2>1, <2>2 DEF Viewing!Init, views, sources
<1>2. LeaseInv /\ SharingInv /\ [Next]_vars => [Viewing!Next]_<<views, sources>>
  <2> SUFFICES ASSUME LeaseInv, SharingInv, [Next]_vars
               PROVE  [Viewing!Next]_<<views, sources>>
      OBVIOUS
  <2>1. StreamTypes
        BY TypesOfStreams
  <2>2. ASSUME NEW c \in Clients, Join(c) PROVE Viewing!Next
    <3>1. want[c] \in Services
          BY <2>1, <2>2 DEF Join, StreamTypes
    <3>2. QED
          BY <2>1, <2>2, <3>1, JoinShares DEF Viewing!Next
  <2>3. ASSUME NEW c \in Clients, TakeStream(c) PROVE Viewing!Next
    <3>1. want[c] \in Services /\ session[c] \in Sessions
          BY <2>1, <2>3 DEF TakeStream, SharingInv, ClientOwns, StreamTypes
    <3>2. QED
          BY <2>1, <2>3, <3>1, TakeStarts DEF Viewing!Next
  <2>4. ASSUME NEW c \in Clients, HangupViewing(c) PROVE Viewing!Next
    <3>1. want[c] \in Services
          BY <2>1, <2>4 DEF HangupViewing, StreamTypes
    <3>2. QED
          BY <2>1, <2>4, <3>1, HangupLeaves DEF Viewing!Next
  <2>5. QED
        BY <2>1, <2>2, <2>3, <2>4, OthersUnseen, UnseenStutters
<1>3. QED
      BY <1>1, <1>2, LeasesKept, SharingKept, PTL DEF Spec, SharesLikeViewing, Viewing!Spec
=============================================================================
