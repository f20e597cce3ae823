---------------------------- MODULE ServerProofs ----------------------------
(***************************************************************************)
(* The server, for every number of tuners, clients, services, channels,    *)
(* crawls and sessions.  The tuners are in exclusive use: LeaseInv is      *)
(* shown inductive, with each step of one session or crawl split into what *)
(* it does to the pool, to itself, and to nobody else (Elsewhere).  The    *)
(* sharing of streams: SharingInv is inductive on top of LeaseInv (its     *)
(* types), and what clients see follows SharedViewing.                     *)
(***************************************************************************)
EXTENDS Server, TLAPS

(* What each operation of the pool preserves, whoever calls it.            *)

(* None is neither a tuner nor a channel.                                  *)
LEMMA NoneIsNoTuner == None \notin TunerIds /\ None \notin Channels
BY TunersAssumption DEF TunersAssumption

(* A pool that has just been set up has all its permits.                   *)
LEMMA PoolInitially == TunersInit => PoolInv
BY NoneIsNoTuner DEF TunersInit, PoolInv, TunersTypeOK, LeaseExclusive, ReaderHoldsLease

(* A scan that begins, moves on or gives up touches no permit and no lease. *)
LEMMA ScanKeepsPool ==
    ASSUME PoolInv, NEW u \in Users, BeginScan(u) \/ SkipSlot(u) \/ AllInUse(u)
    PROVE  PoolInv'
<1>1. UNCHANGED <<permit, lease, tunedTo, reader>>
      BY DEF BeginScan, SkipSlot, AllInUse
<1>2. cursor' \in [Users -> TunerIds \cup {None}]
  <2>1. CASE BeginScan(u)
        BY <2>1, TunersAssumption
           DEF TunersAssumption, BeginScan, PoolInv, TunersTypeOK, TunerIds
  <2>2. CASE SkipSlot(u)
        BY <2>2 DEF SkipSlot, PoolInv, TunersTypeOK
  <2>3. CASE AllInUse(u)
        BY <2>3 DEF AllInUse, PoolInv, TunersTypeOK
  <2>4. QED
        BY <2>1, <2>2, <2>3
<1>3. QED
      BY <1>1, <1>2 DEF PoolInv, TunersTypeOK, LeaseExclusive, ReaderHoldsLease

(* A user without a lease takes a free permit.                             *)
LEMMA TakePermitKeepsPool ==
    ASSUME PoolInv, NEW u \in Users, TakePermit(u), lease[u] = None
    PROVE  PoolInv'
<1>1. PICK t \in TunerIds : t = cursor[u]
      BY DEF TakePermit, PoolInv, TunersTypeOK
<1>2. TunersTypeOK'
      BY <1>1 DEF TakePermit, PoolInv, TunersTypeOK
<1>3. /\ permit' = [permit EXCEPT ![t] = FALSE]
      /\ lease' = [lease EXCEPT ![u] = t]
      /\ permit[t]
      BY <1>1 DEF TakePermit
<1>4. \A v \in Users : lease[v] # t
      BY <1>1, <1>3 DEF PoolInv, LeaseExclusive
<1>5. LeaseExclusive'
  <2>1. ASSUME NEW v \in Users, NEW w \in Users, lease'[v] # None, lease'[v] = lease'[w]
        PROVE  v = w
        BY <1>3, <1>4, <2>1 DEF PoolInv, LeaseExclusive, TunersTypeOK
  <2>2. ASSUME NEW r \in TunerIds
        PROVE  ~permit'[r] <=> \E v \in Users : lease'[v] = r
    <3>1. CASE r = t
          BY <3>1, <1>3 DEF PoolInv, TunersTypeOK
    <3>2. CASE r # t
      <4>1. permit'[r] = permit[r]
            BY <3>2, <1>3 DEF PoolInv, TunersTypeOK
      <4>2. \A v \in Users : lease'[v] = r <=> lease[v] = r
            BY <3>2, <1>3, NoneIsNoTuner DEF PoolInv, TunersTypeOK
      <4>3. QED
            BY <4>1, <4>2 DEF PoolInv, LeaseExclusive
    <3>3. QED
          BY <3>1, <3>2
  <2>3. QED
        BY <2>1, <2>2 DEF LeaseExclusive
<1>6. ReaderHoldsLease'
      BY <1>3 DEF TakePermit, PoolInv, TunersTypeOK, ReaderHoldsLease
<1>7. QED
      BY <1>2, <1>5, <1>6 DEF PoolInv

(* The device must be closed before the permit goes back.                  *)
LEMMA ReturnPermitKeepsPool ==
    ASSUME PoolInv, NEW u \in Users, ReturnPermit(u),
           lease[u] # None, reader[u] = None,
           tunedTo' \in [TunerIds -> Channels \cup {None}],
           UNCHANGED <<cursor, reader>>
    PROVE  PoolInv'
<1>1. PICK t \in TunerIds : t = lease[u]
      BY DEF PoolInv, TunersTypeOK
<1>2. /\ permit' = [permit EXCEPT ![t] = TRUE]
      /\ lease' = [lease EXCEPT ![u] = None]
      BY <1>1 DEF ReturnPermit
<1>3. TunersTypeOK'
      BY <1>2 DEF PoolInv, TunersTypeOK
<1>4. LeaseExclusive'
  <2>1. ASSUME NEW v \in Users, NEW w \in Users, lease'[v] # None, lease'[v] = lease'[w]
        PROVE  v = w
        BY <1>2, <2>1 DEF PoolInv, LeaseExclusive, TunersTypeOK
  <2>2. ASSUME NEW r \in TunerIds
        PROVE  ~permit'[r] <=> \E v \in Users : lease'[v] = r
    <3>1. CASE r = t
      <4>1. permit'[r]
            BY <3>1, <1>2 DEF PoolInv, TunersTypeOK
      <4>2. \A v \in Users : lease'[v] # r
            BY <3>1, <1>1, <1>2, NoneIsNoTuner DEF PoolInv, TunersTypeOK, LeaseExclusive
      <4>3. QED
            BY <4>1, <4>2
    <3>2. CASE r # t
      <4>1. permit'[r] = permit[r]
            BY <3>2, <1>2 DEF PoolInv, TunersTypeOK
      <4>2. \A v \in Users : lease'[v] = r <=> lease[v] = r
            BY <3>2, <1>1, <1>2, NoneIsNoTuner DEF PoolInv, TunersTypeOK
      <4>3. QED
            BY <4>1, <4>2 DEF PoolInv, LeaseExclusive
    <3>3. QED
          BY <3>1, <3>2
  <2>3. QED
        BY <2>1, <2>2 DEF LeaseExclusive
<1>5. ReaderHoldsLease'
      BY <1>2 DEF PoolInv, TunersTypeOK, ReaderHoldsLease
<1>6. QED
      BY <1>3, <1>4, <1>5 DEF PoolInv

(* Opening the device of one's own lease, or closing it, keeps the pool    *)
(* consistent.                                                             *)
LEMMA OpenKeepsPool ==
    ASSUME PoolInv, NEW u \in Users, OpenReader(u) \/ CloseReader(u)
    PROVE  PoolInv'
BY DEF OpenReader, CloseReader, PoolInv, TunersTypeOK, LeaseExclusive, ReaderHoldsLease

(* What a frontend is tuned to is no matter of the permits.                *)
LEMMA TuneKeepsPool ==
    ASSUME PoolInv, NEW u \in Users, NEW channel \in Channels \cup {None},
           tunedTo' = [tunedTo EXCEPT ![lease[u]] = channel],
           UNCHANGED <<permit, cursor, lease, reader>>
    PROVE  PoolInv'
BY DEF PoolInv, TunersTypeOK, LeaseExclusive, ReaderHoldsLease

(* A step that leaves the pool alone keeps it consistent.                  *)
LEMMA UnchangedKeepsPool ==
    PoolInv /\ UNCHANGED tunerVars => PoolInv'
BY DEF tunerVars, PoolInv, TunersTypeOK, LeaseExclusive, ReaderHoldsLease
-----------------------------------------------------------------------------
(* What an operation of u leaves alone: everything of every other user.    *)
Elsewhere(u) ==
    \A v \in Users \ {u} :
        /\ lease'[v] = lease[v]
        /\ reader'[v] = reader[v]
        /\ lease[v] # None => tunedTo'[lease[v]] = tunedTo[lease[v]]

(* A scan touches nobody else's lease, reader or tuning.                   *)
LEMMA ScanElsewhere ==
    ASSUME NEW u \in Users, BeginScan(u) \/ SkipSlot(u) \/ AllInUse(u)
    PROVE  Elsewhere(u)
BY DEF BeginScan, SkipSlot, AllInUse, Elsewhere

(* Taking or returning a lease touches nobody else's.                      *)
LEMMA LeaseElsewhere ==
    ASSUME PoolInv, NEW u \in Users, TakePermit(u) \/ DropLease(u)
    PROVE  Elsewhere(u)
BY DEF TakePermit, DropLease, ReturnPermit, Elsewhere, PoolInv, TunersTypeOK

(* Opening or closing a device touches nobody else's.                      *)
LEMMA OpenElsewhere ==
    ASSUME PoolInv, NEW u \in Users, OpenReader(u) \/ CloseReader(u)
    PROVE  Elsewhere(u)
BY DEF OpenReader, CloseReader, Elsewhere, PoolInv, TunersTypeOK

(* Tuning one's own tuner leaves the tuning of every other lease alone.    *)
LEMMA TuneElsewhere ==
    ASSUME PoolInv, NEW u \in Users, NEW channel,
           tunedTo' = [tunedTo EXCEPT ![lease[u]] = channel],
           lease' = lease \/ lease' = [lease EXCEPT ![u] = None],
           lease[u] # None, reader' = reader
    PROVE  Elsewhere(u)
BY DEF Elsewhere, PoolInv, TunersTypeOK, LeaseExclusive

(* A step that leaves the pool alone touches nobody.                       *)
LEMMA UnchangedElsewhere ==
    ASSUME NEW u, UNCHANGED tunerVars
    PROVE  Elsewhere(u)
BY DEF Elsewhere, tunerVars

-----------------------------------------------------------------------------
(* Exclusive use of the tuners.                                            *)

(* The users are the sessions and the crawls, and nobody is both.          *)
LEMMA UsersSplit ==
    /\ \A x \in Sessions : x \in Users /\ x \notin Crawls
    /\ \A k \in Crawls : k \in Users /\ k \notin Sessions
    /\ \A x \in Sessions, k \in Crawls : x # k
BY ServerAssumption DEF ServerAssumption

(* A session whose service is set has a channel to tune to.                *)
LEMMA ChannelsKnown ==
    /\ \A s \in Services : ChannelOf[s] \in Channels
    /\ None \notin Sessions /\ None \notin Services /\ None \notin Clients
BY StreamsAssumption DEF StreamsAssumption

(* A step of session x that leaves the others' fields alone keeps what     *)
(* LeaseInv says of them.                                                  *)
LEMMA OthersHold ==
    ASSUME LeaseInv, NEW x \in Sessions, Elsewhere(x), UNCHANGED crawlVars,
           \A y \in Sessions \ {x} :
               phase'[y] = phase[y] /\ thread'[y] = thread[y] /\ service'[y] = service[y]
    PROVE  /\ \A y \in Sessions \ {x} : SessionHolds(y)'
           /\ \A k \in Crawls : CrawlHolds(k)'
<1>1. ASSUME NEW y \in Sessions \ {x}
      PROVE  SessionHolds(y)'
  <2>1. /\ lease'[y] = lease[y] /\ reader'[y] = reader[y]
        /\ lease[y] # None => tunedTo'[lease[y]] = tunedTo[lease[y]]
        BY UsersSplit DEF Elsewhere
  <2>2. SessionHolds(y)
        BY DEF LeaseInv
  <2>3. QED
        BY <2>1, <2>2 DEF SessionHolds, Starting
<1>2. ASSUME NEW k \in Crawls
      PROVE  CrawlHolds(k)'
  <2>1. /\ lease'[k] = lease[k] /\ reader'[k] = reader[k]
        /\ lease[k] # None => tunedTo'[lease[k]] = tunedTo[lease[k]]
        BY UsersSplit DEF Elsewhere
  <2>2. CrawlHolds(k)
        BY DEF LeaseInv
  <2>3. crawl'[k] = crawl[k] /\ position'[k] = position[k]
        BY DEF crawlVars
  <2>4. QED
        BY <2>1, <2>2, <2>3 DEF CrawlHolds, More
<1>3. QED
      BY <1>1, <1>2

(* A step of one user leaves what LeaseInv says of the other crawls alone. *)
LEMMA CrawlElsewhere ==
    ASSUME LeaseInv, NEW k \in Crawls, Elsewhere(k), UNCHANGED streamVars,
           \A j \in Crawls \ {k} : crawl'[j] = crawl[j] /\ position'[j] = position[j]
    PROVE  /\ \A x \in Sessions : SessionHolds(x)'
           /\ \A j \in Crawls \ {k} : CrawlHolds(j)'
<1>1. ASSUME NEW x \in Sessions
      PROVE  SessionHolds(x)'
  <2>1. /\ lease'[x] = lease[x] /\ reader'[x] = reader[x]
        /\ lease[x] # None => tunedTo'[lease[x]] = tunedTo[lease[x]]
        BY UsersSplit DEF Elsewhere
  <2>2. SessionHolds(x)
        BY DEF LeaseInv
  <2>3. QED
        BY <2>1, <2>2 DEF SessionHolds, Starting, streamVars
<1>2. ASSUME NEW j \in Crawls \ {k}
      PROVE  CrawlHolds(j)'
  <2>1. /\ lease'[j] = lease[j] /\ reader'[j] = reader[j]
        /\ lease[j] # None => tunedTo'[lease[j]] = tunedTo[lease[j]]
        BY UsersSplit DEF Elsewhere
  <2>2. CrawlHolds(j)
        BY DEF LeaseInv
  <2>3. QED
        BY <2>1, <2>2 DEF CrawlHolds, More
<1>3. QED
      BY <1>1, <1>2

-----------------------------------------------------------------------------
(* The starter.                                                            *)

(* A step of a starter keeps the pool consistent and touches no other      *)
(* user.                                                                   *)
LEMMA StarterKeepsPool ==
    ASSUME LeaseInv, NEW x \in Sessions, StarterStep(x)
    PROVE  PoolInv' /\ Elsewhere(x)
<1>1. x \in Users /\ PoolInv /\ SessionHolds(x)
      BY UsersSplit DEF LeaseInv
<1>2. CASE StarterScan(x)
  <2>1. CASE Move(x, "scanning", "tuning") /\ TakePermit(x)
    <3>1. lease[x] = None
          BY <1>1, <2>1 DEF SessionHolds, Move, Starting
    <3>2. QED
          BY <1>1, <2>1, <3>1, TakePermitKeepsPool, LeaseElsewhere
  <2>2. CASE SkipSlot(x) \/ AllInUse(x)
        BY <1>1, <2>2, ScanKeepsPool, ScanElsewhere
  <2>3. QED
        BY <1>2, <2>1, <2>2 DEF StarterScan
<1>3. CASE StarterTune(x)
  <2>1. lease[x] # None /\ ChannelOf[service[x]] \in Channels
        BY <1>1, <1>3, ChannelsKnown DEF StarterTune, SessionHolds, Move, Starting
  <2>2. /\ tunedTo' = [tunedTo EXCEPT ![lease[x]] = ChannelOf[service[x]]]
        /\ UNCHANGED <<permit, cursor, lease, reader>>
        BY <1>3 DEF StarterTune, Tune
  <2>3. PoolInv'
        BY <1>1, <2>1, <2>2, TuneKeepsPool
  <2>4. Elsewhere(x)
        BY <1>1, <2>1, <2>2, TuneElsewhere
  <2>5. QED
        BY <2>3, <2>4
<1>4. CASE StarterFail(x)
  <2>1. lease[x] # None /\ reader[x] = None
        BY <1>1, <1>4 DEF StarterFail, SessionHolds, Move, Starting
  <2>2. PICK channel \in Channels \cup {None} :
            tunedTo' = [tunedTo EXCEPT ![lease[x]] = channel]
    <3>1. CASE TuneFails(x, ChannelOf[service[x]])
          BY <1>1, <1>4, <2>1, <3>1, ChannelsKnown DEF TuneFails, SessionHolds, StarterFail, Move
    <3>2. CASE tunedTo' = tunedTo
          BY <1>1, <2>1, <3>2 DEF PoolInv, TunersTypeOK
    <3>3. QED
          BY <1>4, <3>1, <3>2 DEF StarterFail
  <2>3. tunedTo' \in [TunerIds -> Channels \cup {None}]
        BY <1>1, <2>2 DEF PoolInv, TunersTypeOK
  <2>4. PoolInv'
        BY <1>1, <1>4, <2>1, <2>3, ReturnPermitKeepsPool DEF StarterFail
  <2>5. Elsewhere(x)
        BY <1>1, <1>4, <2>1, <2>2, TuneElsewhere DEF StarterFail, ReturnPermit
  <2>6. QED
        BY <2>4, <2>5
<1>5. CASE StarterOpen(x)
      BY <1>1, <1>5, OpenKeepsPool, OpenElsewhere DEF StarterOpen
<1>6. CASE StarterBuild(x)
      BY <1>1, <1>6, UnchangedKeepsPool, UnchangedElsewhere DEF StarterBuild
<1>7. CASE StarterAbandon(x)
  <2>1. CASE CloseReader(x)
        BY <1>1, <2>1, OpenKeepsPool, OpenElsewhere
  <2>2. CASE Move(x, "abandoning", Outcome(x, "failed")) /\ DropLease(x)
    <3>1. lease[x] # None /\ reader[x] = None
          BY <1>1, <2>2 DEF SessionHolds, Move, Starting
    <3>2. tunedTo' \in [TunerIds -> Channels \cup {None}]
          BY <1>1, <2>2 DEF DropLease, PoolInv, TunersTypeOK
    <3>3. QED
          BY <1>1, <2>2, <3>1, <3>2, ReturnPermitKeepsPool, LeaseElsewhere DEF DropLease
  <2>3. QED
        BY <1>7, <2>1, <2>2 DEF StarterAbandon
<1>8. QED
      BY <1>2, <1>3, <1>4, <1>5, <1>6, <1>7 DEF StarterStep

(* What a starter may end with.                                            *)
LEMMA OutcomeCases ==
    ASSUME NEW x, NEW p \in Outcomes
    PROVE  /\ Outcome(x, p) \in {p, "shared", "free"}
           /\ Outcome(x, p) \in {"free", "shared"} \cup Outcomes
           /\ p = "built" => Outcome(x, p) # "free"
           /\ p # "built" => Outcome(x, p) # "shared"
BY DEF Outcome, Outcomes

(* A starter has the lease, the reader and the tuning of the point it is   *)
(* at.                                                                     *)
LEMMA StarterHolds ==
    ASSUME LeaseInv, NEW x \in Sessions, StarterStep(x)
    PROVE  SessionHolds(x)'
<1>1. /\ PoolInv /\ SessionHolds(x) /\ x \in Users
      /\ phase \in [Sessions -> {"free", "shared"} \cup Starting \cup Outcomes]
      /\ thread \in [Sessions -> {"none", "check", "read", "finish", "closed"}]
      /\ lease \in [Users -> TunerIds \cup {None}]
      /\ tunedTo \in [TunerIds -> Channels \cup {None}]
      /\ reader \in [Users -> TunerIds \cup {None}]
      BY UsersSplit DEF LeaseInv, PoolInv, TunersTypeOK, StreamsTypeOK
<1>2. service' = service
      BY DEF StarterStep, StarterScan, StarterTune, StarterFail, StarterOpen,
             StarterBuild, StarterAbandon, Move
<1>3. thread[x] = "none" \/ phase[x] \in {"built", "shared"}
      BY <1>1 DEF SessionHolds
<1> USE DEF Starting, Outcomes
<1>4. CASE StarterScan(x)
  <2>1. CASE Move(x, "scanning", "tuning") /\ TakePermit(x)
    <3>1. reader[x] = None /\ lease'[x] # None
      <4>1. cursor[x] \in TunerIds
            BY <1>1, <2>1 DEF TakePermit, PoolInv, TunersTypeOK
      <4>2. QED
            BY <1>1, <1>3, <2>1, <4>1, NoneIsNoTuner DEF TakePermit, SessionHolds, Move
    <3>2. QED
          BY <1>1, <1>2, <1>3, <1>4, <2>1, <3>1
             DEF StarterScan, SessionHolds, Move, TakePermit
  <2>2. CASE Move(x, "scanning", "scanning") /\ SkipSlot(x)
        BY <1>1, <1>2, <1>3, <1>4, <2>2 DEF StarterScan, SessionHolds, Move, SkipSlot
  <2>3. CASE Move(x, "scanning", Outcome(x, "busy")) /\ AllInUse(x)
        BY <1>1, <1>2, <1>3, <1>4, <2>3, OutcomeCases
           DEF StarterScan, SessionHolds, Move, AllInUse
  <2>4. QED
        BY <1>4, <2>1, <2>2, <2>3 DEF StarterScan
<1>5. CASE StarterTune(x)
      BY <1>1, <1>2, <1>3, <1>5 DEF StarterTune, SessionHolds, Move, Tune
<1>6. CASE StarterFail(x)
      BY <1>1, <1>2, <1>3, <1>6, OutcomeCases
         DEF StarterFail, SessionHolds, Move, ReturnPermit
<1>7. CASE StarterOpen(x)
      BY <1>1, <1>2, <1>3, <1>7 DEF StarterOpen, SessionHolds, Move, OpenReader
<1>8. CASE StarterBuild(x)
      BY <1>1, <1>2, <1>3, <1>8, OutcomeCases
         DEF StarterBuild, SessionHolds, Move, tunerVars
<1>9. CASE StarterAbandon(x)
  <2>1. CASE Move(x, "preparing", "abandoning") /\ CloseReader(x)
        BY <1>1, <1>2, <1>3, <1>9, <2>1
           DEF StarterAbandon, SessionHolds, Move, CloseReader
  <2>2. CASE Move(x, "abandoning", Outcome(x, "failed")) /\ DropLease(x)
        BY <1>1, <1>2, <1>3, <1>9, <2>2, OutcomeCases
           DEF StarterAbandon, SessionHolds, Move, DropLease, ReturnPermit
  <2>3. QED
        BY <1>9, <2>1, <2>2 DEF StarterAbandon
<1>10. QED
      BY <1>4, <1>5, <1>6, <1>7, <1>8, <1>9 DEF StarterStep

(* A step of a starter keeps the types of the streams.                     *)
LEMMA StarterTyped ==
    ASSUME LeaseInv, NEW x \in Sessions, StarterStep(x)
    PROVE  /\ StreamsTypeOK' /\ WantsKnown'
           /\ \A y \in Sessions \ {x} :
                  phase'[y] = phase[y] /\ thread'[y] = thread[y] /\ service'[y] = service[y]
<1>1. PICK to \in {"free", "shared"} \cup Starting \cup Outcomes :
          phase' = [phase EXCEPT ![x] = to]
      BY OutcomeCases
         DEF StarterStep, StarterScan, StarterTune, StarterFail, StarterOpen,
             StarterBuild, StarterAbandon, Move, Starting, Outcomes
<1>2. UNCHANGED <<lock, streams, service, stage, want, expired, session>>
      BY DEF StarterStep, StarterScan, StarterTune, StarterFail, StarterOpen,
             StarterBuild, StarterAbandon, Move
<1>3. thread' = thread \/ thread' = [thread EXCEPT ![x] = "check"]
      BY DEF StarterStep, StarterScan, StarterTune, StarterFail, StarterOpen,
             StarterBuild, StarterAbandon
<1>4. StreamsTypeOK /\ WantsKnown
      BY DEF LeaseInv
<1>5. StreamsTypeOK'
      BY <1>1, <1>2, <1>3, <1>4 DEF StreamsTypeOK
<1>6. WantsKnown'
      BY <1>2, <1>4 DEF WantsKnown
<1>7. QED
      BY <1>1, <1>2, <1>3, <1>4, <1>5, <1>6 DEF StreamsTypeOK

-----------------------------------------------------------------------------
(* The remuxer thread.                                                     *)

(* A step of a remuxer thread keeps the pool consistent and touches no     *)
(* other user.                                                             *)
LEMMA ThreadKeepsPool ==
    ASSUME LeaseInv, NEW x \in Sessions, ThreadStep(x) \/ NextReturns(x)
    PROVE  PoolInv' /\ Elsewhere(x)
<1>1. x \in Users /\ PoolInv /\ SessionHolds(x)
      BY UsersSplit DEF LeaseInv
<1>2. CASE UNCHANGED tunerVars
      BY <1>1, <1>2, UnchangedKeepsPool, UnchangedElsewhere
<1>3. CASE ThreadClose(x)
      BY <1>1, <1>3, OpenKeepsPool, OpenElsewhere DEF ThreadClose
<1>4. CASE ThreadRelease(x)
  <2>1. lease[x] # None /\ reader[x] = None
        BY <1>1, <1>4 DEF ThreadRelease, Run, SessionHolds
  <2>2. tunedTo' \in [TunerIds -> Channels \cup {None}]
        BY <1>1, <1>4 DEF ThreadRelease, DropLease, PoolInv, TunersTypeOK
  <2>3. QED
        BY <1>1, <1>4, <2>1, <2>2, ReturnPermitKeepsPool, LeaseElsewhere
           DEF ThreadRelease, DropLease
<1>5. QED
      BY <1>2, <1>3, <1>4
         DEF ThreadStep, NextReturns, CheckKill, ReadSignaling, ReadEnds

(* A remuxer thread has its lease until it ends and its reader until it    *)
(* closes it.                                                              *)
LEMMA ThreadHolds ==
    ASSUME LeaseInv, NEW x \in Sessions, ThreadStep(x) \/ NextReturns(x)
    PROVE  SessionHolds(x)'
<1>1. /\ SessionHolds(x) /\ x \in Users
      /\ thread \in [Sessions -> {"none", "check", "read", "finish", "closed"}]
      /\ lease \in [Users -> TunerIds \cup {None}]
      /\ reader \in [Users -> TunerIds \cup {None}]
      BY UsersSplit DEF LeaseInv, PoolInv, TunersTypeOK, StreamsTypeOK
<1>2. phase' = phase /\ service' = service /\ tunedTo' = tunedTo
      BY DEF ThreadStep, NextReturns, CheckKill, ReadSignaling, ReadEnds, ThreadClose,
             ThreadRelease, Run, CloseReader, DropLease, tunerVars
<1>3. CASE \/ Run(x, "check", IF Killed(x) THEN "finish" ELSE "read") /\ UNCHANGED tunerVars
           \/ Run(x, "read", "check") /\ UNCHANGED tunerVars
           \/ Run(x, "read", "finish") /\ UNCHANGED tunerVars
      BY <1>1, <1>2, <1>3 DEF Run, SessionHolds, tunerVars
<1>4. CASE ThreadClose(x)
      BY <1>1, <1>2, <1>4 DEF ThreadClose, Run, SessionHolds, CloseReader, Starting
<1>5. CASE ThreadRelease(x)
      BY <1>1, <1>2, <1>5 DEF ThreadRelease, Run, SessionHolds, DropLease, ReturnPermit, Starting
<1>6. QED
      BY <1>3, <1>4, <1>5 DEF ThreadStep, NextReturns, CheckKill, ReadSignaling, ReadEnds

(* A step of a remuxer thread keeps the types of the streams.              *)
LEMMA ThreadTyped ==
    ASSUME LeaseInv, NEW x \in Sessions, ThreadStep(x) \/ NextReturns(x)
    PROVE  /\ StreamsTypeOK' /\ WantsKnown'
           /\ \A y \in Sessions \ {x} :
                  phase'[y] = phase[y] /\ thread'[y] = thread[y] /\ service'[y] = service[y]
<1>1. PICK to \in {"none", "check", "read", "finish", "closed"} :
          thread' = [thread EXCEPT ![x] = to]
      BY DEF ThreadStep, NextReturns, CheckKill, ReadSignaling, ReadEnds, ThreadClose,
             ThreadRelease, Run
<1>2. UNCHANGED <<lock, streams, service, phase, stage, want, expired, session>>
      BY DEF ThreadStep, NextReturns, CheckKill, ReadSignaling, ReadEnds, ThreadClose,
             ThreadRelease, Run
<1>3. StreamsTypeOK /\ WantsKnown
      BY DEF LeaseInv
<1>4. QED
      BY <1>1, <1>2, <1>3 DEF StreamsTypeOK, WantsKnown

-----------------------------------------------------------------------------
(* The clients.  They touch the pool only to begin the scan of a starter.  *)

(* A step of a client keeps the types of the streams.                      *)
LEMMA ClientTyped ==
    ASSUME LeaseInv, NEW c \in Clients, ClientStep(c)
    PROVE  StreamsTypeOK' /\ WantsKnown'
<1>1. StreamsTypeOK /\ WantsKnown
      BY DEF LeaseInv
<1> USE DEF StreamsTypeOK, WantsKnown, Pending
<1>2. CASE \E s \in Services : Request(c, s)
      BY <1>1, <1>2 DEF Request
<1>3. CASE Join(c)
      BY <1>1, <1>3 DEF Join, Live
<1>4. CASE \E x \in Sessions : SpawnStarter(c, x)
      BY <1>1, <1>4 DEF SpawnStarter, Starting
<1>5. CASE TakeStream(c)
      BY <1>1, <1>5 DEF TakeStream, Remember
<1>6. CASE TakeBusy(c)
  <2>1. /\ phase' = [phase EXCEPT ![session[c]] = "free"]
        /\ session' = [session EXCEPT ![c] = None] /\ lock' = None
        /\ UNCHANGED <<streams, service, thread>>
        BY <1>6 DEF TakeBusy, DiscardStarter
  <2>2. CASE expired[c]
    <3>1. /\ stage' = [stage EXCEPT ![c] = "idle"] /\ want' = [want EXCEPT ![c] = None]
          /\ expired' = [expired EXCEPT ![c] = FALSE]
          BY <1>6, <2>2 DEF TakeBusy, ReplyError
    <3>2. QED
          BY <1>1, <2>1, <3>1
  <2>3. CASE ~expired[c]
    <3>1. stage[c] = "starting" /\ stage' = [stage EXCEPT ![c] = "sleeping"]
          /\ UNCHANGED <<want, expired>>
          BY <1>6, <2>3 DEF TakeBusy
    <3>2. QED
          BY <1>1, <2>1, <3>1
  <2>4. QED
        BY <2>2, <2>3
<1>7. CASE TakeFailure(c)
  <2>1. /\ phase' = [phase EXCEPT ![session[c]] = "free"]
        /\ session' = [session EXCEPT ![c] = None] /\ lock' = None
        /\ stage' = [stage EXCEPT ![c] = "idle"] /\ want' = [want EXCEPT ![c] = None]
        /\ expired' = [expired EXCEPT ![c] = FALSE]
        /\ UNCHANGED <<streams, service, thread>>
        BY <1>7 DEF TakeFailure, DiscardStarter, ReplyError
  <2>2. StreamsTypeOK'
        BY <1>1, <2>1
  <2>3. WantsKnown'
        BY <1>1, <2>1
  <2>4. QED
        BY <2>2, <2>3
<1>8. CASE Wake(c) \/ PassDeadline(c)
      BY <1>1, <1>8 DEF Wake, PassDeadline
<1>9. CASE HangupStep(c)
  <2>1. CASE HangupWaiting(c)
        BY <1>1, <2>1 DEF HangupWaiting, Hangup
  <2>2. CASE HangupStarting(c)
        BY <1>1, <2>2 DEF HangupStarting, Hangup
  <2>3. CASE HangupViewing(c)
        BY <1>1, <2>3 DEF HangupViewing, Hangup
  <2>4. QED
        BY <1>9, <2>1, <2>2, <2>3 DEF HangupStep
<1>10. QED
      BY <1>2, <1>3, <1>4, <1>5, <1>6, <1>7, <1>8, <1>9
         DEF ClientStep, EnterSubscribe, LeaveSubscribe

\* What a client does to a session other than starting it.
Settles(y) ==
    \/ phase'[y] = phase[y]
    \/ phase[y] = "built" /\ phase'[y] = "shared"
    \/ phase[y] \in {"busy", "failed"} /\ phase'[y] = "free"

(* A client moves the phase of a session only once its starter has ended.  *)
LEMMA ClientSettles ==
    ASSUME LeaseInv, NEW c \in Clients, ClientStep(c),
           ~\E x \in Sessions : SpawnStarter(c, x)
    PROVE  /\ UNCHANGED tunerVars
           /\ UNCHANGED <<thread, service>>
           /\ \A y \in Sessions : Settles(y)
<1>1. phase \in [Sessions -> {"free", "shared"} \cup Starting \cup Outcomes]
      BY DEF LeaseInv, StreamsTypeOK
<1> USE DEF Settles
<1>2. CASE (\E s \in Services : Request(c, s)) \/ Join(c) \/ Wake(c) \/ PassDeadline(c)
      BY <1>2 DEF Request, Join, Wake, PassDeadline
<1>3. CASE TakeStream(c)
      BY <1>1, <1>3 DEF TakeStream
<1>4. CASE TakeBusy(c) \/ TakeFailure(c)
      BY <1>1, <1>4 DEF TakeBusy, TakeFailure, DiscardStarter
<1>5. CASE HangupStep(c)
      BY <1>1, <1>5 DEF HangupStep, HangupWaiting, HangupStarting, HangupViewing, Hangup
<1>6. QED
      BY <1>2, <1>3, <1>4, <1>5 DEF ClientStep, EnterSubscribe, LeaveSubscribe

(* A step of a client keeps LeaseInv: it never touches a lease of its own  *)
(* accord.                                                                 *)
LEMMA ClientKeepsInv ==
    ASSUME LeaseInv, NEW c \in Clients, ClientStep(c), UNCHANGED crawlVars
    PROVE  LeaseInv'
<1>1. StreamsTypeOK' /\ WantsKnown' /\ CrawlerTypeOK'
  <2>1. CrawlerTypeOK'
        BY DEF LeaseInv, CrawlerTypeOK, crawlVars
  <2>2. QED
        BY <2>1, ClientTyped
<1>2. CASE \E x \in Sessions : SpawnStarter(c, x)
  <2>1. PICK x \in Sessions : SpawnStarter(c, x)
        BY <1>2
  <2>2. PoolInv' /\ Elsewhere(x)
        BY <2>1, UsersSplit, ScanKeepsPool, ScanElsewhere DEF SpawnStarter, LeaseInv
  <2>3. /\ phase' = [phase EXCEPT ![x] = "scanning"] /\ thread' = thread
        /\ service' = [service EXCEPT ![x] = want[c]] /\ want[c] \in Services
        /\ UNCHANGED <<lease, reader>>
        BY <2>1 DEF SpawnStarter, BeginScan, LeaseInv, WantsKnown
  <2>4. \A y \in Sessions \ {x} :
            phase'[y] = phase[y] /\ thread'[y] = thread[y] /\ service'[y] = service[y]
        BY <2>3 DEF LeaseInv, StreamsTypeOK
  <2>5. SessionHolds(x)'
    <3>1. thread[x] = "none" /\ phase[x] \in {"free", "shared"}
          BY <2>1 DEF SpawnStarter, Fresh, Killed, LeaseInv, SessionHolds
    <3>2. lease[x] = None /\ reader[x] = None
          BY <3>1 DEF LeaseInv, SessionHolds, Starting
    <3>3. phase'[x] = "scanning" /\ service'[x] = want[c]
          BY <2>3 DEF LeaseInv, StreamsTypeOK
    <3>4. QED
          BY <2>3, <3>1, <3>2, <3>3 DEF SessionHolds, Starting
  <2>6. QED
        BY <1>1, <2>2, <2>4, <2>5, OthersHold DEF LeaseInv
<1>3. CASE ~\E x \in Sessions : SpawnStarter(c, x)
  <2>1. /\ UNCHANGED tunerVars /\ UNCHANGED <<thread, service>>
        /\ \A y \in Sessions : Settles(y)
        BY <1>3, ClientSettles
  <2>2. ASSUME NEW y \in Sessions PROVE SessionHolds(y)'
        BY <2>1 DEF LeaseInv, SessionHolds, Settles, tunerVars, Starting
  <2>3. ASSUME NEW k \in Crawls PROVE CrawlHolds(k)'
        BY <2>1 DEF LeaseInv, CrawlHolds, More, tunerVars, crawlVars
  <2>4. PoolInv'
        BY <2>1, UnchangedKeepsPool DEF LeaseInv
  <2>5. QED
        BY <1>1, <2>2, <2>3, <2>4 DEF LeaseInv
<1>4. QED
      BY <1>2, <1>3

(* A step of a starter or of a remuxer thread keeps LeaseInv.              *)
LEMMA SessionKeepsInv ==
    ASSUME LeaseInv, NEW x \in Sessions, UNCHANGED crawlVars,
           StarterStep(x) \/ ThreadStep(x) \/ NextReturns(x)
    PROVE  LeaseInv'
<1>1. PoolInv' /\ Elsewhere(x)
      BY StarterKeepsPool, ThreadKeepsPool
<1>2. SessionHolds(x)'
      BY StarterHolds, ThreadHolds
<1>3. /\ StreamsTypeOK' /\ WantsKnown'
      /\ \A y \in Sessions \ {x} :
             phase'[y] = phase[y] /\ thread'[y] = thread[y] /\ service'[y] = service[y]
      BY StarterTyped, ThreadTyped
<1>4. CrawlerTypeOK'
      BY DEF LeaseInv, CrawlerTypeOK, crawlVars
<1>5. (\A y \in Sessions \ {x} : SessionHolds(y)') /\ \A k \in Crawls : CrawlHolds(k)'
      BY <1>1, <1>3, OthersHold
<1>6. QED
      BY <1>1, <1>2, <1>3, <1>4, <1>5 DEF LeaseInv

-----------------------------------------------------------------------------
(* The crawls.                                                             *)

(* Every position of a crawl in its schedule is a channel.                 *)
LEMMA ScheduleKnown ==
    /\ Len(Schedule) \in Nat
    /\ \A i \in 1 .. Len(Schedule) : Schedule[i] \in Channels
BY CrawlerAssumption DEF CrawlerAssumption

(* A step of a crawl or of its client keeps the types of the crawls.       *)
LEMMA CrawlTyped ==
    ASSUME LeaseInv, NEW k \in Crawls,
           CrawlAction(k)
    PROVE  /\ CrawlerTypeOK'
           /\ \A j \in Crawls \ {k} : crawl'[j] = crawl[j] /\ position'[j] = position[j]
<1> DEFINE Positions == 1 .. Len(Schedule) + 1
<1>1. /\ crawl \in [Crawls -> {"idle", "scanning", "tuning", "opening", "reading",
                               "sending", "closing", "aborting"}]
      /\ position \in [Crawls -> Positions]
      /\ listening \in [Crawls -> BOOLEAN]
      BY DEF LeaseInv, CrawlerTypeOK
<1>2. /\ 1 \in Positions
      /\ Len(Schedule) + 1 \in Positions
      /\ \A i \in Positions : i <= Len(Schedule) => i + 1 \in Positions
      BY ScheduleKnown
<1>3. PICK to \in {"idle", "scanning", "tuning", "opening", "reading",
                   "sending", "closing", "aborting"} :
          crawl' = [crawl EXCEPT ![k] = to]
      BY <1>1 DEF CrawlAction, PacketReturns, Refresh, StopListening, ClientTakes, CrawlStep, CrawlScan, CrawlTune,
             SkipChannel, CrawlOpen, Emit, EmitFails, DwellEnds, CrawlFails,
             CrawlClose, CrawlReturns, Goto
<1>4. crawl[k] = "closing" => position[k] <= Len(Schedule)
      BY DEF LeaseInv, CrawlHolds, More
<1>5. PICK i \in Positions : position' = [position EXCEPT ![k] = i]
  <2>1. CASE UNCHANGED position
        BY <1>1, <2>1
  <2>2. CASE NextChannel(k) /\ position[k] <= Len(Schedule)
        BY <1>1, <1>2, <2>2 DEF NextChannel
  <2>3. CASE \/ position' = [position EXCEPT ![k] = 1]
             \/ position' = [position EXCEPT ![k] = Len(Schedule) + 1]
        BY <1>2, <2>3
  <2>4. QED
        BY <1>4, <2>1, <2>2, <2>3
           DEF CrawlAction, PacketReturns, Refresh, StopListening, ClientTakes, CrawlStep, CrawlScan, CrawlTune,
               SkipChannel, CrawlOpen, Emit, EmitFails, DwellEnds, CrawlFails,
               CrawlClose, CrawlReturns, Goto, Stay, More
<1>6. PICK b \in BOOLEAN : listening' = [listening EXCEPT ![k] = b]
      BY <1>1
         DEF CrawlAction, PacketReturns, Refresh, StopListening, ClientTakes, CrawlStep, CrawlScan, CrawlTune,
             SkipChannel, CrawlOpen, Emit, EmitFails, DwellEnds, CrawlFails,
             CrawlClose, CrawlReturns, Stay, NextChannel
<1>7. CrawlerTypeOK'
      BY <1>1, <1>3, <1>5, <1>6 DEF CrawlerTypeOK
<1>8. QED
      BY <1>1, <1>3, <1>5, <1>7

(* A step of a crawl keeps the pool consistent and touches no other user.  *)
LEMMA CrawlKeepsPool ==
    ASSUME LeaseInv, NEW k \in Crawls,
           CrawlAction(k)
    PROVE  PoolInv' /\ Elsewhere(k)
<1>1. k \in Users /\ PoolInv /\ CrawlHolds(k) /\ CrawlerTypeOK
      BY UsersSplit DEF LeaseInv
<1>2. CASE UNCHANGED tunerVars
      BY <1>1, <1>2, UnchangedKeepsPool, UnchangedElsewhere
<1>3. CASE BeginScan(k) \/ SkipSlot(k) \/ AllInUse(k)
      BY <1>1, <1>3, ScanKeepsPool, ScanElsewhere
<1>4. CASE Goto(k, "scanning", "tuning") /\ TakePermit(k)
  <2>1. lease[k] = None
        BY <1>1, <1>4 DEF CrawlHolds, Goto
  <2>2. QED
        BY <1>1, <1>4, <2>1, TakePermitKeepsPool, LeaseElsewhere
<1>5. CASE CrawlTune(k)
  <2>1. lease[k] # None /\ Schedule[position[k]] \in Channels
        BY <1>1, <1>5, ScheduleKnown DEF CrawlTune, CrawlHolds, Goto, More, CrawlerTypeOK
  <2>2. PoolInv'
        BY <1>1, <1>5, <2>1, TuneKeepsPool DEF CrawlTune, Tune
  <2>3. Elsewhere(k)
        BY <1>1, <1>5, <2>1, TuneElsewhere DEF CrawlTune, Tune
  <2>4. QED
        BY <2>2, <2>3
<1>6. CASE SkipChannel(k)
  <2>1. lease[k] # None
        BY <1>1, <1>6 DEF SkipChannel, CrawlHolds, Goto
  <2>2. UNCHANGED <<permit, cursor, lease, reader>>
        BY <1>6 DEF SkipChannel
  <2>3. CASE TuneFails(k, Schedule[position[k]])
    <3>1. Schedule[position[k]] \in Channels
          BY <1>1, <1>6, ScheduleKnown DEF SkipChannel, CrawlHolds, More, CrawlerTypeOK
    <3>2. PICK channel \in Channels \cup {None} :
              tunedTo' = [tunedTo EXCEPT ![lease[k]] = channel]
          BY <2>3, <3>1 DEF TuneFails
    <3>3. QED
          BY <1>1, <2>1, <2>2, <3>2, TuneKeepsPool, TuneElsewhere
  <2>4. CASE UNCHANGED tunedTo
        BY <1>1, <2>2, <2>4, UnchangedKeepsPool, UnchangedElsewhere DEF tunerVars
  <2>5. QED
        BY <1>6, <2>3, <2>4 DEF SkipChannel
<1>7. CASE OpenReader(k) \/ CloseReader(k)
      BY <1>1, <1>7, OpenKeepsPool, OpenElsewhere
<1>8. CASE CrawlReturns(k)
  <2>1. lease[k] # None /\ reader[k] = None
        BY <1>1, <1>8 DEF CrawlReturns, CrawlHolds, Goto
  <2>2. tunedTo' \in [TunerIds -> Channels \cup {None}]
        BY <1>1, <1>8 DEF CrawlReturns, DropLease, PoolInv, TunersTypeOK
  <2>3. QED
        BY <1>1, <1>8, <2>1, <2>2, ReturnPermitKeepsPool, LeaseElsewhere
           DEF CrawlReturns, DropLease
<1>9. QED
      BY <1>2, <1>3, <1>4, <1>5, <1>6, <1>7, <1>8
         DEF CrawlAction, PacketReturns, Refresh, StopListening, ClientTakes, CrawlStep, CrawlScan, CrawlOpen,
             Emit, EmitFails, DwellEnds, CrawlFails, CrawlClose

(* A crawl has its lease from the scan to its return, and its reader while *)
(* it reads.                                                               *)
LEMMA CrawlHoldsOn ==
    ASSUME LeaseInv, NEW k \in Crawls,
           CrawlAction(k)
    PROVE  CrawlHolds(k)'
<1>1. /\ CrawlHolds(k) /\ k \in Users /\ CrawlerTypeOK /\ TunersTypeOK
      BY UsersSplit DEF LeaseInv, PoolInv
<1> USE ScheduleKnown, NoneIsNoTuner
        DEF CrawlHolds, CrawlerTypeOK, TunersTypeOK, Goto, Stay, NextChannel, More
<1>2. CASE Refresh(k)
      BY <1>1, <1>2 DEF Refresh, BeginScan
<1>3. CASE StopListening(k) \/ ClientTakes(k)
      BY <1>1, <1>3 DEF StopListening, ClientTakes, tunerVars
<1>4. CASE CrawlScan(k)
      BY <1>1, <1>4 DEF CrawlScan, TakePermit, SkipSlot, AllInUse
<1>5. CASE CrawlTune(k)
      BY <1>1, <1>5 DEF CrawlTune, Tune
<1>6. CASE SkipChannel(k)
      BY <1>1, <1>6 DEF SkipChannel
<1>7. CASE CrawlOpen(k)
      BY <1>1, <1>7 DEF CrawlOpen, OpenReader
<1>8. CASE Emit(k) \/ EmitFails(k) \/ DwellEnds(k) \/ CrawlFails(k)
      BY <1>1, <1>8 DEF Emit, EmitFails, DwellEnds, CrawlFails, tunerVars
<1>9. CASE CrawlClose(k)
      BY <1>1, <1>9 DEF CrawlClose, CloseReader
<1>10. CASE CrawlReturns(k)
      BY <1>1, <1>10 DEF CrawlReturns, DropLease, ReturnPermit
<1>11. QED
      BY <1>2, <1>3, <1>4, <1>5, <1>6, <1>7, <1>8, <1>9, <1>10 DEF CrawlStep, CrawlAction, PacketReturns

(* A step of a crawl or of its client keeps LeaseInv.                      *)
LEMMA CrawlerKeepsInv ==
    ASSUME LeaseInv, CrawlerNext, UNCHANGED streamVars
    PROVE  LeaseInv'
<1>1. PICK k \in Crawls :
          CrawlAction(k)
      BY DEF CrawlerNext
<1>2. PoolInv' /\ Elsewhere(k) /\ CrawlHolds(k)' /\ CrawlerTypeOK'
      BY <1>1, CrawlKeepsPool, CrawlHoldsOn, CrawlTyped
<1>3. (\A x \in Sessions : SessionHolds(x)') /\ \A j \in Crawls \ {k} : CrawlHolds(j)'
      BY <1>1, <1>2, CrawlTyped, CrawlElsewhere
<1>4. StreamsTypeOK' /\ WantsKnown'
      BY DEF LeaseInv, StreamsTypeOK, WantsKnown, streamVars
<1>5. QED
      BY <1>2, <1>3, <1>4 DEF LeaseInv

-----------------------------------------------------------------------------
(* A server that has just started has no lease out.                        *)
LEMMA LeaseInvInitially == Init => LeaseInv
<1> SUFFICES ASSUME Init PROVE LeaseInv
    OBVIOUS
<1>1. PoolInv
      BY PoolInitially DEF Init
<1>2. StreamsTypeOK /\ WantsKnown
      BY DEF Init, StreamsInit, StreamsTypeOK, WantsKnown
<1>3. CrawlerTypeOK
      BY ScheduleKnown DEF Init, CrawlerInit, CrawlerTypeOK
<1>4. ASSUME NEW x \in Sessions PROVE SessionHolds(x)
      BY UsersSplit DEF Init, TunersInit, StreamsInit, SessionHolds, Starting
<1>5. ASSUME NEW k \in Crawls PROVE CrawlHolds(k)
      BY UsersSplit DEF Init, TunersInit, CrawlerInit, CrawlHolds
<1>6. QED
      BY <1>1, <1>2, <1>3, <1>4, <1>5 DEF LeaseInv

(* LeaseInv is inductive.                                                  *)
LEMMA LeaseInvNext == LeaseInv /\ [Next]_vars => LeaseInv'
<1> SUFFICES ASSUME LeaseInv, [Next]_vars PROVE LeaseInv'
    OBVIOUS
<1>1. CASE StreamsNext /\ UNCHANGED crawlVars
      BY <1>1, ClientKeepsInv, SessionKeepsInv DEF StreamsNext
<1>2. CASE CrawlerNext /\ UNCHANGED streamVars
      BY <1>2, CrawlerKeepsInv
<1>3. CASE UNCHANGED vars
  <2>1. PoolInv'
        BY <1>3, UnchangedKeepsPool DEF vars, LeaseInv
  <2>2. StreamsTypeOK' /\ WantsKnown' /\ CrawlerTypeOK'
        BY <1>3 DEF vars, streamVars, crawlVars, LeaseInv, StreamsTypeOK, WantsKnown,
                    CrawlerTypeOK
  <2>3. ASSUME NEW x \in Sessions PROVE SessionHolds(x)'
        BY <1>3 DEF vars, tunerVars, streamVars, LeaseInv, SessionHolds
  <2>4. ASSUME NEW k \in Crawls PROVE CrawlHolds(k)'
        BY <1>3 DEF vars, tunerVars, crawlVars, LeaseInv, CrawlHolds, More
  <2>5. QED
        BY <2>1, <2>2, <2>3, <2>4 DEF LeaseInv
<1>4. QED
      BY <1>1, <1>2, <1>3 DEF Next

(* Every variable keeps its type, and every point of a starter, a remuxer  *)
(* thread and a crawl has the lease, the reader and the tuning it should.  *)
THEOREM LeasesKept == Spec => []LeaseInv
BY LeaseInvInitially, LeaseInvNext, PTL DEF Spec

(* Every variable of the server keeps its type.                            *)
THEOREM Typed == Spec => []TypeOK
<1>1. LeaseInv => TypeOK
      BY DEF LeaseInv, PoolInv, TypeOK
<1>2. QED
      BY <1>1, LeasesKept, PTL

(* No two users ever share a tuner, and no permit is lost.                 *)
THEOREM ExclusiveLeases == Spec => []LeaseExclusive
<1>1. LeaseInv => LeaseExclusive
      BY DEF LeaseInv, PoolInv
<1>2. QED
      BY <1>1, LeasesKept, PTL

(* The device is closed before its tuner is released.                      *)
THEOREM ReadersLease == Spec => []ReaderHoldsLease
<1>1. LeaseInv => ReaderHoldsLease
      BY DEF LeaseInv, PoolInv
<1>2. QED
      BY <1>1, LeasesKept, PTL

(* Nobody ever reads a channel somebody else has tuned to.                 *)
THEOREM OwnChannelRead == Spec => []ReadsOwnChannel
<1>1. ASSUME LeaseInv, NEW u \in Users, reader[u] # None
      PROVE  tunedTo[reader[u]] = Target(u)
  <2>1. lease[u] = reader[u]
        BY <1>1 DEF LeaseInv, PoolInv, ReaderHoldsLease
  <2>2. CASE u \in Sessions
        BY <1>1, <2>1, <2>2 DEF LeaseInv, SessionHolds, Target
  <2>3. CASE u \in Crawls
        BY <1>1, <2>1, <2>3, UsersSplit DEF LeaseInv, CrawlHolds, Target
  <2>4. QED
        BY <2>2, <2>3, ServerAssumption DEF ServerAssumption
<1>2. LeaseInv => ReadsOwnChannel
      BY <1>1 DEF ReadsOwnChannel
<1>3. QED
      BY <1>2, LeasesKept, PTL

-----------------------------------------------------------------------------
(* The sharing of streams.                                                 *)

\* The types SharingInv needs, from LeaseInv.
StreamTypes ==
    /\ lock \in Clients \cup {None}
    /\ streams \in [Services -> Sessions \cup {None}]
    /\ service \in [Sessions -> Services \cup {None}]
    /\ phase \in [Sessions -> {"free", "shared"} \cup Starting \cup Outcomes]
    /\ stage \in [Clients -> {"idle", "viewing"} \cup Pending]
    /\ want \in [Clients -> Services \cup {None}]
    /\ session \in [Clients -> Sessions \cup {None}]
    /\ \A c \in Clients : stage[c] # "idle" => want[c] \in Services

(* LeaseInv gives the types of everything the sharing of streams reads.    *)
LEMMA TypesOfStreams == LeaseInv => StreamTypes
BY DEF LeaseInv, StreamsTypeOK, StreamTypes, WantsKnown

(* A server that has just started shares nothing.                          *)
LEMMA SharingInitially == Init => SharingInv
BY ChannelsKnown DEF Init, StreamsInit, SharingInv, ClientOwns, MapHolds

(* Two clients with the same starter are one: it is theirs by the lock.    *)
LEMMA StarterHasOneOwner ==
    ASSUME SharingInv, NEW c \in Clients, NEW d \in Clients,
           stage[c] = "starting", session[d] = session[c], StreamTypes
    PROVE  c = d
BY ChannelsKnown DEF SharingInv, ClientOwns, StreamTypes, Starting, Outcomes

(* The client that starts a starter holds the lock for it from then on.    *)
LEMMA SpawnKeepsSharing ==
    ASSUME SharingInv, StreamTypes, NEW c \in Clients, NEW x \in Sessions, SpawnStarter(c, x)
    PROVE  SharingInv'
<1>1. /\ lock = None /\ stage[c] = "waiting" /\ session[c] = None
      /\ ~Live(streams[want[c]]) /\ want[c] \in Services
      BY DEF SpawnStarter, SharingInv, ClientOwns, StreamTypes
<1>2. /\ \A d \in Clients : session[d] # x
      /\ \A s \in Services : streams[s] # x
  <2>1. CASE phase[x] = "free"
        BY <2>1, ChannelsKnown
           DEF SharingInv, ClientOwns, MapHolds, StreamTypes, Starting, Outcomes, Pending
  <2>2. CASE phase[x] # "free"
        BY <2>2 DEF SpawnStarter, Fresh, Killed, Owners
  <2>3. QED
        BY <2>1, <2>2
<1>3. /\ lock' = c
      /\ stage' = [stage EXCEPT ![c] = "starting"]
      /\ session' = [session EXCEPT ![c] = x]
      /\ service' = [service EXCEPT ![x] = want[c]]
      /\ phase' = [phase EXCEPT ![x] = "scanning"]
      /\ streams' = streams /\ want' = want
      BY DEF SpawnStarter
<1>4. ASSUME NEW s \in Services PROVE MapHolds(s)'
      BY <1>2, <1>3 DEF SharingInv, MapHolds, StreamTypes
<1>5. ASSUME NEW d \in Clients PROVE ClientOwns(d)'
  <2>1. CASE d = c
    <3>1. ~Live(streams[want[c]])'
      <4>1. streams[want[c]] # x
            BY <1>1, <1>2
      <4>2. \A e \in Clients : session'[e] = streams[want[c]] => session[e] = streams[want[c]]
            BY <1>3, <4>1 DEF StreamTypes
      <4>3. QED
            BY <1>1, <1>3, <4>1, <4>2 DEF Live, Owners, StreamTypes
    <3>2. QED
          BY <1>3, <2>1, <3>1, ChannelsKnown DEF ClientOwns, StreamTypes, Starting
  <2>2. CASE d # c
        BY <1>1, <1>2, <1>3, <2>2, ChannelsKnown DEF SharingInv, ClientOwns, StreamTypes
  <2>3. QED
        BY <2>1, <2>2
<1>6. QED
      BY <1>4, <1>5 DEF SharingInv

(* Joining the live stream of the map makes no second one.                 *)
LEMMA JoinKeepsSharing ==
    ASSUME SharingInv, StreamTypes, NEW c \in Clients, Join(c)
    PROVE  SharingInv'
<1> DEFINE x == streams[want[c]]
<1>1. /\ lock = None /\ stage[c] = "waiting" /\ want[c] \in Services
      /\ x \in Sessions /\ phase[x] = "shared" /\ service[x] = want[c]
      BY DEF Join, Live, SharingInv, MapHolds, StreamTypes
<1>2. /\ session' = [session EXCEPT ![c] = x]
      /\ stage' = [stage EXCEPT ![c] = "viewing"]
      /\ UNCHANGED <<lock, streams, service, phase, want>>
      BY DEF Join
<1>3. ASSUME NEW d \in Clients PROVE ClientOwns(d)'
      BY <1>1, <1>2, ChannelsKnown DEF SharingInv, ClientOwns, StreamTypes
<1>4. ASSUME NEW s \in Services PROVE MapHolds(s)'
      BY <1>2 DEF SharingInv, MapHolds
<1>5. QED
      BY <1>3, <1>4 DEF SharingInv

(* Taking a built stream replaces a dead entry only: viewers keep theirs.  *)
LEMMA TakeKeepsSharing ==
    ASSUME SharingInv, StreamTypes, NEW c \in Clients, TakeStream(c)
    PROVE  SharingInv'
<1> DEFINE x == session[c]
<1>1. /\ stage[c] = "starting" /\ phase[x] = "built" /\ lock = c
      /\ x \in Sessions /\ want[c] \in Services /\ service[x] = want[c]
      /\ ~Live(streams[want[c]])
      BY DEF TakeStream, SharingInv, ClientOwns, StreamTypes
<1>2. /\ streams' = [s \in Services |->
                       IF s = want[c] THEN x
                       ELSE IF Live(streams[s]) THEN streams[s] ELSE None]
      /\ phase' = [phase EXCEPT ![x] = "shared"]
      /\ stage' = [stage EXCEPT ![c] = "viewing"]
      /\ lock' = None
      /\ UNCHANGED <<service, want, session>>
      BY <1>1 DEF TakeStream, Remember
<1>3. ASSUME NEW s \in Services PROVE MapHolds(s)'
  <2>1. CASE s = want[c]
        BY <1>1, <1>2, <2>1 DEF MapHolds, StreamTypes
  <2>2. CASE s # want[c]
        BY <1>1, <1>2, <2>2 DEF SharingInv, MapHolds, StreamTypes
  <2>3. QED
        BY <2>1, <2>2
<1>4. ASSUME NEW d \in Clients PROVE ClientOwns(d)'
  <2>1. CASE d = c
        BY <1>1, <1>2, <2>1, ChannelsKnown DEF ClientOwns, StreamTypes
  <2>2. CASE d # c /\ stage[d] = "viewing"
    <3>1. /\ phase[session[d]] = "shared" /\ streams[want[d]] = session[d]
          /\ want[d] \in Services /\ session[d] \in Sessions
          /\ service[session[d]] = want[d]
          BY <2>2 DEF SharingInv, ClientOwns, StreamTypes
    <3>2. Live(streams[want[d]])
          BY <3>1, ChannelsKnown DEF Live, Owners
    <3>3. want[d] # want[c]
          BY <1>1, <3>2
    <3>4. streams'[want[d]] = session[d]
          BY <1>2, <3>1, <3>2, <3>3
    <3>5. phase'[session[d]] = "shared"
          BY <1>1, <1>2, <3>1 DEF StreamTypes
    <3>6. QED
          BY <1>2, <2>2, <3>1, <3>4, <3>5, ChannelsKnown DEF ClientOwns, StreamTypes
  <2>3. CASE d # c /\ stage[d] # "viewing"
        BY <1>1, <1>2, <2>3, ChannelsKnown DEF SharingInv, ClientOwns, StreamTypes
  <2>4. QED
        BY <2>1, <2>2, <2>3
<1>5. QED
      BY <1>3, <1>4 DEF SharingInv

(* Leaving, by an error or by hanging up: c gives up what it owns, and a   *)
(* starter that has ended is settled.                                      *)
LEMMA LeaveKeepsSharing ==
    ASSUME SharingInv, StreamTypes, NEW c \in Clients,
           session' = [session EXCEPT ![c] = None],
           lock' = IF stage[c] = "starting" THEN None ELSE lock,
           stage' \in {[stage EXCEPT ![c] = "idle"], [stage EXCEPT ![c] = "sleeping"]},
           \A d \in Clients \ {c} : want'[d] = want[d],
           \A y \in Sessions : \/ phase'[y] = phase[y]
                               \/ stage[c] = "starting" /\ y = session[c],
           UNCHANGED <<streams, service>>
    PROVE  SharingInv'
<1>1. \A y \in Sessions : phase[y] = "shared" => phase'[y] = "shared"
      BY DEF SharingInv, ClientOwns, StreamTypes, Starting, Outcomes
<1>2. ASSUME NEW s \in Services PROVE MapHolds(s)'
      BY <1>1 DEF SharingInv, MapHolds, StreamTypes
<1>3. ASSUME NEW d \in Clients PROVE ClientOwns(d)'
  <2>1. CASE d = c
        BY <2>1, ChannelsKnown DEF SharingInv, ClientOwns, StreamTypes
  <2>2. CASE d # c /\ stage[d] = "starting"
    <3>1. stage[c] # "starting" /\ lock = d
          BY <2>2 DEF SharingInv, ClientOwns
    <3>2. ~Live(streams[want[d]])'
          BY <2>2, <3>1, ChannelsKnown
             DEF SharingInv, ClientOwns, StreamTypes, Live, Owners
    <3>3. QED
          BY <2>2, <3>1, <3>2, ChannelsKnown DEF SharingInv, ClientOwns, StreamTypes
  <2>3. CASE d # c /\ stage[d] # "starting"
        BY <1>1, <2>3, ChannelsKnown DEF SharingInv, ClientOwns, StreamTypes
  <2>4. QED
        BY <2>1, <2>2, <2>3
<1>4. QED
      BY <1>2, <1>3 DEF SharingInv

(* Request, Wake and PassDeadline stay outside the lock.                   *)
LEMMA WaitKeepsSharing ==
    ASSUME SharingInv, StreamTypes, NEW c \in Clients,
           (\E s \in Services : Request(c, s)) \/ Wake(c) \/ PassDeadline(c)
    PROVE  SharingInv'
<1>1. UNCHANGED <<lock, streams, service, phase, session>>
      BY DEF Request, Wake, PassDeadline
<1>2. CASE UNCHANGED <<stage, want>>
      BY <1>1, <1>2 DEF SharingInv, ClientOwns, MapHolds, Live, Owners
<1>3. CASE /\ stage' = [stage EXCEPT ![c] = "waiting"]
           /\ stage[c] \in {"idle", "sleeping"}
           /\ \A d \in Clients \ {c} : want'[d] = want[d]
      BY <1>1, <1>3 DEF SharingInv, ClientOwns, MapHolds, Live, Owners, StreamTypes
<1>4. QED
      BY <1>2, <1>3 DEF Request, Wake, PassDeadline, StreamTypes

(* A step of a client keeps SharingInv.                                    *)
LEMMA ClientKeepsSharing ==
    ASSUME SharingInv, StreamTypes, NEW c \in Clients, ClientStep(c)
    PROVE  SharingInv'
<1>1. CASE TakeBusy(c) \/ TakeFailure(c)
  <2>1. /\ stage[c] = "starting"
        /\ session' = [session EXCEPT ![c] = None] /\ lock' = None
        /\ phase' = [phase EXCEPT ![session[c]] = "free"]
        /\ UNCHANGED <<streams, service>>
        /\ stage' \in {[stage EXCEPT ![c] = "idle"], [stage EXCEPT ![c] = "sleeping"]}
        /\ want' = [want EXCEPT ![c] = None] \/ want' = want
        BY <1>1 DEF TakeBusy, TakeFailure, DiscardStarter, ReplyError
  <2>2. QED
        BY <2>1, LeaveKeepsSharing DEF StreamTypes
<1>2. CASE HangupStep(c)
  <2>1. /\ session' = [session EXCEPT ![c] = None]
        /\ stage' = [stage EXCEPT ![c] = "idle"]
        /\ want' = [want EXCEPT ![c] = None]
        /\ UNCHANGED <<streams, service>>
        BY <1>2 DEF HangupStep, HangupWaiting, HangupStarting, HangupViewing, Hangup
  <2>2. lock' = IF stage[c] = "starting" THEN None ELSE lock
        BY <1>2 DEF HangupStep, HangupWaiting, HangupStarting, HangupViewing
  <2>3. \A y \in Sessions : \/ phase'[y] = phase[y]
                            \/ stage[c] = "starting" /\ y = session[c]
        BY <1>2 DEF HangupStep, HangupWaiting, HangupStarting, HangupViewing, StreamTypes
  <2>4. QED
        BY <2>1, <2>2, <2>3, LeaveKeepsSharing DEF StreamTypes
<1>3. QED
      BY <1>1, <1>2, SpawnKeepsSharing, JoinKeepsSharing, TakeKeepsSharing, WaitKeepsSharing
         DEF ClientStep, EnterSubscribe, LeaveSubscribe

(* A starter that is awaited ends in an outcome; one that is not is not in *)
(* the map, so what becomes of it touches no client.                       *)
LEMMA SessionKeepsSharing ==
    ASSUME SharingInv, StreamTypes, NEW x \in Sessions,
           StarterStep(x) \/ ThreadStep(x) \/ NextReturns(x)
    PROVE  SharingInv'
<1>1. UNCHANGED <<lock, streams, service, stage, want, session>>
      BY DEF StarterStep, StarterScan, StarterTune, StarterFail, StarterOpen, StarterBuild,
             StarterAbandon, Move, ThreadStep, NextReturns, CheckKill, ReadSignaling,
             ReadEnds, ThreadClose, ThreadRelease, Run
<1>2. CASE UNCHANGED phase
      BY <1>1, <1>2 DEF SharingInv, ClientOwns, MapHolds, Live, Owners
<1>3. CASE phase' # phase
  <2>1. phase[x] \in Starting
        BY <1>3 DEF StarterStep, StarterScan, StarterTune, StarterFail, StarterOpen,
             StarterBuild, StarterAbandon, Move, ThreadStep, NextReturns, CheckKill,
             ReadSignaling, ReadEnds, ThreadClose, ThreadRelease, Run, Starting
  <2>2. PICK to \in {"free", "shared"} \cup Starting \cup Outcomes :
            /\ phase' = [phase EXCEPT ![x] = to]
            /\ Owners(x) # {} => to \in Starting \cup Outcomes
        BY <1>3 DEF StarterStep, StarterScan, StarterTune, StarterFail, StarterOpen,
             StarterBuild, StarterAbandon, Move, Outcome, ThreadStep, NextReturns, CheckKill,
             ReadSignaling, ReadEnds, ThreadClose, ThreadRelease, Run, Starting, Outcomes
  <2>3. \A s \in Services : streams[s] # x
        BY <2>1, ChannelsKnown DEF SharingInv, MapHolds, Starting
  <2>4. ASSUME NEW s \in Services PROVE MapHolds(s)'
        BY <1>1, <2>2, <2>3 DEF SharingInv, MapHolds, StreamTypes
  <2>5. ASSUME NEW d \in Clients PROVE ClientOwns(d)'
    <3>1. ClientOwns(d)
          BY DEF SharingInv
    <3>2. CASE stage[d] = "starting"
      <4>1. want[d] \in Services /\ session[d] \in Sessions
            BY <3>1, <3>2 DEF ClientOwns, StreamTypes
      <4>2. phase'[session[d]] \in Starting \cup Outcomes
            BY <2>2, <3>1, <3>2, <4>1 DEF ClientOwns, Owners, StreamTypes
      <4>3. ~Live(streams[want[d]])'
            BY <1>1, <2>2, <2>3, <3>1, <3>2, <4>1 DEF ClientOwns, Live, Owners, StreamTypes
      <4>4. QED
            BY <1>1, <3>1, <3>2, <4>2, <4>3 DEF ClientOwns
    <3>3. CASE stage[d] # "starting"
          BY <1>1, <2>1, <2>2, <3>1, <3>3 DEF ClientOwns, StreamTypes, Starting
    <3>4. QED
          BY <3>2, <3>3
  <2>6. QED
        BY <2>4, <2>5 DEF SharingInv
<1>4. QED
      BY <1>2, <1>3

(* SharingInv is inductive relative to LeaseInv.                           *)
LEMMA SharingInvNext == LeaseInv /\ SharingInv /\ [Next]_vars => SharingInv'
<1> SUFFICES ASSUME LeaseInv, SharingInv, [Next]_vars PROVE SharingInv'
    OBVIOUS
<1>1. CASE StreamsNext
      BY <1>1, TypesOfStreams, ClientKeepsSharing, SessionKeepsSharing DEF StreamsNext
<1>2. CASE UNCHANGED streamVars
      BY <1>2 DEF streamVars, SharingInv, ClientOwns, MapHolds, Live, Owners
<1>3. QED
      BY <1>1, <1>2 DEF Next, vars

(* What the streams lock protects is protected in every instance.          *)
THEOREM SharingKept == Spec => []SharingInv
BY SharingInitially, SharingInvNext, LeasesKept, PTL DEF Spec

(* Viewers of one service share one session, and new ones will join it.    *)
THEOREM OneSession == Spec => []OneSessionPerService
<1>1. SharingInv => OneSessionPerService
      BY DEF SharingInv, ClientOwns, OneSessionPerService
<1>2. QED
      BY <1>1, SharingKept, PTL
=============================================================================
