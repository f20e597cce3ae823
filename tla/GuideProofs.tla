---------------------------- MODULE GuideProofs -----------------------------
(***************************************************************************)
(* The programme guide, for every number of sections, events, kinds of     *)
(* descriptors, revisions and faults: its types, and, as long as one       *)
(* processor runs at a time, that a section is remembered only while the   *)
(* registry holds its events (HeldInv) and the store will have them        *)
(* (KeptInv).  Two processors break both: the run guide_merge.             *)
(***************************************************************************)
EXTENDS Guide, TLAPS

-----------------------------------------------------------------------------
(* Types: what a processor has looked up is typed by where it is.          *)

Lookups == [map : Maps, event : Events, previous : Contents \cup {None}]

Working(p) == step[p] \in {"putting", "merging", "queueing"}

StepTyped(p) ==
    /\ step[p] = "learning" => base[p] \in Maps \cup {None}
    /\ step[p] = "merging" => base[p] \in Lookups
    /\ step[p] = "queueing" => base[p] \in Updates
    /\ Working(p) => job[p] \in Jobs

GuideTyped ==
    /\ TypeOK
    /\ base \in [Processors -> Maps \cup {None} \cup Lookups \cup Updates]
    /\ \A p \in Processors : StepTyped(p)

-----------------------------------------------------------------------------
(* One processor.                                                          *)

OneProcessor == \A p, q \in Processors : p = q

\* The broadcaster lists an event in one section of a table at a time.
Apart ==
    \A a \in Airings : \A s, t \in Sections :
        s # t /\ PartOf[s] = PartOf[t] => a[s] \cap a[t] = {}

\* Nothing remembered is ahead of what is on air.
MemoryBehind(p) ==
    \A s \in Sections : memory[p][s] # None => memory[p][s] <= version[s]

\* The section in hand is newer than the one remembered, and lists what is on
\* air unless it was revised meanwhile.
JobIsNews(p) ==
    LET s == job[p].section
        v == job[p].version IN
    /\ v <= version[s]
    /\ memory[p][s] # None => memory[p][s] < v
    /\ v = version[s] => job[p].listed = aired[s]
    /\ todo[p] \subseteq job[p].listed

Held(e, s, v) ==
    /\ catalog # None /\ maps[catalog][e] # None
    /\ maps[catalog][e][PartOf[s]] = <<s, v>>

\* What was put of a section without loss is in the registry.
PutIsHeld(p) ==
    complete[p] =>
        \A e \in job[p].listed \ todo[p] : Held(e, job[p].section, job[p].version)

\* The section in hand does not touch what a remembered one has put.
JobIsApart(p) ==
    \A s \in Sections :
        Current(p, s) /\ s # job[p].section /\ PartOf[s] = PartOf[job[p].section] =>
            job[p].listed \cap aired[s] = {}

\* Nobody comes between a lookup and its use.
LookupHolds(p) ==
    /\ step[p] = "learning" => base[p] = catalog
    /\ step[p] = "merging" =>
          /\ catalog # None /\ base[p].map = catalog
          /\ base[p].event \in job[p].listed
          /\ base[p].previous = maps[catalog][base[p].event]
    /\ step[p] = "queueing" =>
          /\ base[p].section = job[p].section /\ base[p].version = job[p].version
          /\ complete[p] /\ todo[p] = {}

\* Part of HeldInv and of KeptInv.
Progress ==
    \A p \in Processors :
        /\ MemoryBehind(p)
        /\ Working(p) => JobIsNews(p)
        /\ LookupHolds(p)

HeldInv ==
    /\ \A p \in Processors : Working(p) => PutIsHeld(p) /\ JobIsApart(p)
    /\ RememberedIsHeld

\* Nothing the store has of section s, or will have, is ahead of version v.
AtMost(s, v) ==
    /\ written[s] # None => written[s] <= v
    /\ inHand # None /\ inHand.section = s => inHand.version <= v
    /\ \A i \in DOMAIN queue : queue[i].section = s => queue[i].version <= v

\* The versions of a section are written in their order.
InOrder ==
    /\ inHand # None /\ written[inHand.section] # None =>
          written[inHand.section] <= inHand.version
    /\ \A i \in DOMAIN queue :
          /\ written[queue[i].section] # None =>
                written[queue[i].section] <= queue[i].version
          /\ inHand # None /\ inHand.section = queue[i].section =>
                inHand.version <= queue[i].version
          /\ \A j \in DOMAIN queue :
                i < j /\ queue[i].section = queue[j].section =>
                    queue[i].version <= queue[j].version

KeptInv ==
    /\ \A s \in Sections : AtMost(s, version[s])
    /\ \A p \in Processors : Working(p) => AtMost(job[p].section, job[p].version)
    /\ InOrder
    /\ RememberedIsKept

\* An event is listed in one section at a time, whatever it says of it.
ListedOnce ==
    \A a \in Airings : \A s, t \in Sections : s # t => a[s] \cap a[t] = {}

\* An update says what is on air, unless its section was revised meanwhile.
Faithful(u) ==
    u.version = version[u.section] => DOMAIN u.listed = aired[u.section]

\* Events listed by a section t leave those of section s on air alone.
Spares(t, listed, s) == t = s \/ listed \cap aired[s] = {}

Settled(s) == written[s] = version[s]

InHandIs(s) == inHand # None /\ inHand.section = s /\ inHand.version = version[s]
Queued(i, s) == queue[i].section = s /\ queue[i].version = version[s]

\* What comes after a section as it is on air does not list its events.
Following ==
    \A s \in Sections :
        /\ Settled(s) /\ inHand # None => Spares(inHand.section, DOMAIN inHand.listed, s)
        /\ \A j \in DOMAIN queue :
              (Settled(s) \/ InHandIs(s) \/ \E i \in DOMAIN queue : i < j /\ Queued(i, s)) =>
                  Spares(queue[j].section, DOMAIN queue[j].listed, s)
        /\ \A p \in Processors :
              Working(p) /\ (Settled(s) \/ OnItsWay(s)) => Spares(job[p].section, job[p].listed, s)

ListedInv ==
    /\ inHand # None => Faithful(inHand)
    /\ \A i \in DOMAIN queue : Faithful(queue[i])
    /\ \A p \in Processors : step[p] = "queueing" => DOMAIN base[p].listed = job[p].listed
    /\ Following
    /\ \A s \in Sections :
          Settled(s) => \A e \in aired[s] : rows[e] # None /\ rows[e].section = s

OneInv ==
    /\ Progress
    /\ Apart => HeldInv
    /\ KeptInv
    /\ ListedOnce => ListedInv

-----------------------------------------------------------------------------
(* A server that has just started is typed.                                *)
LEMMA TypedInitially == Init => GuideTyped
<1>1. SUFFICES ASSUME Init PROVE GuideTyped
      OBVIOUS
<1>2. queue \in Seq(Updates) /\ Len(queue) <= QueueCapacity
      BY <1>1, StoreAssumption DEF Init, StoreInit
<1>3. version \in [Sections -> Versions]
      BY <1>1, StoreAssumption DEF Init, Versions
<1>4. maps \in [Maps -> [Events -> Contents \cup {None}]]
      BY <1>1 DEF Init, NoEvents
<1>5. faults \in 0 .. MaxFaults
      BY <1>1, GuideAssumption DEF Init
<1>6. catalog \in Maps \cup {None}
      BY <1>1 DEF Init, Maps
<1>7. \A p \in Processors : StepTyped(p)
      BY <1>1 DEF Init, StepTyped, Working
<1>8. QED
      BY <1>1, <1>2, <1>3, <1>4, <1>5, <1>6, <1>7 DEF Init, StoreInit, GuideTyped, TypeOK

(* A revised section lists events and has a version.                       *)
LEMMA ReviseTyped ==
    ASSUME GuideTyped, NEW s \in Sections, Revise(s)
    PROVE  GuideTyped'
<1>1. version' \in [Sections -> Versions]
      BY StoreAssumption DEF GuideTyped, TypeOK, Revise, Versions
<1>2. aired' \in Airings
      BY DEF Revise
<1>3. UNCHANGED <<queue, inHand, rows, written, scheduled, seeded, catalog, maps, memory, step,
                  job, todo, complete, base, failed, faults>>
      BY DEF Revise, storeVars, processing
<1>4. QED
      BY <1>1, <1>2, <1>3 DEF GuideTyped, TypeOK, StepTyped, Working

(* What FindService looks up is a map or nothing, what it inserts a map.   *)
LEMMA ServiceTyped ==
    ASSUME GuideTyped, NEW p \in Processors, FindService(p) \/ InsertService(p)
    PROVE  GuideTyped'
<1>1. UNCHANGED <<queue, inHand, rows, written, aired, version, scheduled, seeded, maps, memory,
                  job, todo, complete, failed, faults>>
      BY DEF FindService, InsertService, storeVars, broadcast
<1>2. p \in Maps
      BY DEF Maps
<1>3. catalog' \in Maps \cup {None}
      BY <1>2 DEF FindService, InsertService, GuideTyped, TypeOK, StepTyped
<1>4. /\ step' \in [Processors -> {"off", "idle", "learning", "putting", "merging", "queueing"}]
      /\ base' \in [Processors -> Maps \cup {None} \cup Lookups \cup Updates]
      BY DEF FindService, InsertService, GuideTyped, TypeOK
<1>5. ASSUME NEW q \in Processors PROVE StepTyped(q)'
  <2>1. CASE q = p
        BY <1>1, <2>1 DEF FindService, InsertService, GuideTyped, TypeOK, StepTyped, Working
  <2>2. CASE q # p
    <3>1. step'[q] = step[q] /\ base'[q] = base[q] /\ job'[q] = job[q]
          BY <1>1, <2>2 DEF FindService, InsertService, GuideTyped, TypeOK
    <3>2. QED
          BY <3>1 DEF GuideTyped, StepTyped, Working
  <2>3. QED
        BY <2>1, <2>2
<1>6. QED
      BY <1>1, <1>3, <1>4, <1>5 DEF GuideTyped, TypeOK

(* A section that arrives lists events of the service.                     *)
LEMMA ReceiveTyped ==
    ASSUME GuideTyped, NEW p \in Processors, NEW s \in Sections, Receive(p, s)
    PROVE  GuideTyped'
<1>1. UNCHANGED <<queue, inHand, rows, written, aired, version, scheduled, seeded, catalog, maps,
                  memory, base, failed, faults>>
      BY DEF Receive, storeVars, broadcast
<1>2. aired[s] \in SUBSET Events /\ version[s] \in Versions
      BY GuideAssumption DEF GuideTyped, TypeOK
<1>3. [section |-> s, version |-> version[s], listed |-> aired[s]] \in Jobs
      BY <1>2 DEF Jobs
<1>4. /\ step' \in [Processors -> {"off", "idle", "learning", "putting", "merging", "queueing"}]
      /\ job' \in [Processors -> Jobs \cup {None}]
      /\ todo' \in [Processors -> SUBSET Events]
      /\ complete' \in [Processors -> BOOLEAN]
      BY <1>2, <1>3 DEF Receive, GuideTyped, TypeOK
<1>5. ASSUME NEW q \in Processors PROVE StepTyped(q)'
  <2>1. CASE q = p
        BY <1>1, <1>3, <2>1 DEF Receive, GuideTyped, TypeOK, StepTyped, Working
  <2>2. CASE q # p
    <3>1. step'[q] = step[q] /\ base'[q] = base[q] /\ job'[q] = job[q]
          BY <1>1, <2>2 DEF Receive, GuideTyped, TypeOK
    <3>2. QED
          BY <3>1 DEF GuideTyped, StepTyped, Working
  <2>3. QED
        BY <2>1, <2>2
<1>6. QED
      BY <1>1, <1>4, <1>5 DEF GuideTyped, TypeOK

(* A lookup has a map, an event and what the map has of it.                *)
LEMMA FindEventTyped ==
    ASSUME GuideTyped, NEW p \in Processors, NEW e \in Events, FindEvent(p, e)
    PROVE  GuideTyped'
<1>1. UNCHANGED <<queue, inHand, rows, written, aired, version, scheduled, seeded, catalog, maps,
                  memory, job, todo, complete, failed, faults>>
      BY DEF FindEvent, storeVars, broadcast
<1>2. [map |-> catalog, event |-> e, previous |-> maps[catalog][e]] \in Lookups
      BY DEF FindEvent, GuideTyped, TypeOK, Lookups
<1>3. /\ step' \in [Processors -> {"off", "idle", "learning", "putting", "merging", "queueing"}]
      /\ base' \in [Processors -> Maps \cup {None} \cup Lookups \cup Updates]
      BY <1>2 DEF FindEvent, GuideTyped, TypeOK
<1>4. ASSUME NEW q \in Processors PROVE StepTyped(q)'
  <2>1. CASE q = p
        BY <1>1, <1>2, <2>1 DEF FindEvent, GuideTyped, TypeOK, StepTyped, Working
  <2>2. CASE q # p
    <3>1. step'[q] = step[q] /\ base'[q] = base[q] /\ job'[q] = job[q]
          BY <1>1, <2>2 DEF FindEvent, GuideTyped, TypeOK
    <3>2. QED
          BY <3>1 DEF GuideTyped, StepTyped, Working
  <2>3. QED
        BY <2>1, <2>2
<1>5. QED
      BY <1>1, <1>3, <1>4 DEF GuideTyped, TypeOK

(* A dropped event leaves the rest of the section to do.                   *)
LEMMA DropEventTyped ==
    ASSUME GuideTyped, NEW p \in Processors, NEW e \in Events, DropEvent(p, e)
    PROVE  GuideTyped'
BY DEF DropEvent, GuideTyped, TypeOK, StepTyped, Working, storeVars, broadcast

(* What is merged is an event: its parts come from sections of the service.*)
LEMMA MergedIsContents ==
    ASSUME NEW previous \in Contents \cup {None}, NEW j \in Jobs
    PROVE  Merged(previous, j) \in Contents
<1>1. <<j.section, j.version>> \in Source
      BY DEF Jobs, Source
<1>2. QED
      BY <1>1 DEF Merged, Contents

LEMMA InsertEventTyped ==
    ASSUME GuideTyped, NEW p \in Processors, InsertEvent(p)
    PROVE  GuideTyped'
<1>1. UNCHANGED <<queue, inHand, rows, written, aired, version, scheduled, seeded, catalog,
                  memory, job, complete, failed, faults>>
      BY DEF InsertEvent, storeVars, broadcast
<1>2. base[p] \in Lookups /\ job[p] \in Jobs
      BY DEF InsertEvent, GuideTyped, StepTyped, Working
<1>3. Merged(base[p].previous, job[p]) \in Contents
      BY <1>2, MergedIsContents DEF Lookups
<1>4. maps' \in [Maps -> [Events -> Contents \cup {None}]]
      BY <1>2, <1>3 DEF InsertEvent, GuideTyped, TypeOK, Lookups
<1>5. /\ step' \in [Processors -> {"off", "idle", "learning", "putting", "merging", "queueing"}]
      /\ base' \in [Processors -> Maps \cup {None} \cup Lookups \cup Updates]
      /\ todo' \in [Processors -> SUBSET Events]
      BY DEF InsertEvent, GuideTyped, TypeOK
<1>6. ASSUME NEW q \in Processors PROVE StepTyped(q)'
  <2>1. CASE q = p
        BY <1>1, <1>2, <2>1 DEF InsertEvent, GuideTyped, TypeOK, StepTyped, Working
  <2>2. CASE q # p
    <3>1. step'[q] = step[q] /\ base'[q] = base[q] /\ job'[q] = job[q]
          BY <1>1, <2>2 DEF InsertEvent, GuideTyped, TypeOK
    <3>2. QED
          BY <3>1 DEF GuideTyped, StepTyped, Working
  <2>3. QED
        BY <2>1, <2>2
<1>7. QED
      BY <1>1, <1>4, <1>5, <1>6 DEF GuideTyped, TypeOK

(* A section that is done with leaves the processor as it was.             *)
LEMMA DoneTyped ==
    ASSUME GuideTyped, NEW p \in Processors,
           GiveUp(p) \/ KeepInMemory(p) \/ RefuseSection(p)
    PROVE  GuideTyped'
<1>1. UNCHANGED <<queue, inHand, rows, written, aired, version, scheduled, seeded, catalog, maps,
                  todo, failed, faults>>
      BY DEF GiveUp, KeepInMemory, RefuseSection, Finish, storeVars, broadcast
<1>2. job[p] \in Jobs
      BY DEF GiveUp, KeepInMemory, RefuseSection, AllPut, GuideTyped, StepTyped, Working
<1>3. memory' \in [Processors -> [Sections -> Versions \cup {None}]]
  <2>1. CASE GiveUp(p) \/ RefuseSection(p)
        BY <2>1 DEF GiveUp, RefuseSection, GuideTyped, TypeOK
  <2>2. CASE KeepInMemory(p)
        BY <1>2, <2>2 DEF KeepInMemory, Remember, GuideTyped, TypeOK, Jobs
  <2>3. QED
        BY <2>1, <2>2
<1>4. /\ step' = [step EXCEPT ![p] = "idle"]
      /\ job' = [job EXCEPT ![p] = None]
      /\ complete' = [complete EXCEPT ![p] = FALSE]
      /\ base' = base \/ base' = [base EXCEPT ![p] = None]
      BY DEF GiveUp, KeepInMemory, RefuseSection, Finish
<1>5. ASSUME NEW q \in Processors PROVE StepTyped(q)'
      BY <1>4 DEF GuideTyped, TypeOK, StepTyped, Working
<1>6. QED
      BY <1>1, <1>3, <1>4, <1>5 DEF GuideTyped, TypeOK

(* What is read back is an update: events of the service that are there.   *)
LEMMA ReadBackTyped ==
    ASSUME GuideTyped, NEW p \in Processors, ReadBack(p)
    PROVE  GuideTyped'
<1> DEFINE found == {e \in job[p].listed : catalog # None /\ maps[catalog][e] # None}
           listed == [e \in found |-> maps[catalog][e]]
           update == [section |-> job[p].section, version |-> job[p].version, listed |-> listed]
<1>1. UNCHANGED <<queue, inHand, rows, written, aired, version, scheduled, seeded, catalog, maps,
                  memory, job, todo, complete, failed, faults>>
      BY DEF ReadBack, storeVars, broadcast
<1>2. /\ step' = [step EXCEPT ![p] = "queueing"]
      /\ base' = [base EXCEPT ![p] = update]
      BY DEF ReadBack
<1>3. job[p] \in Jobs
      BY DEF ReadBack, AllPut, GuideTyped, StepTyped, Working
<1>4. found \in SUBSET Events
      BY <1>3 DEF Jobs
<1>5. ASSUME NEW e \in found PROVE maps[catalog][e] \in Contents
      BY <1>4 DEF GuideTyped, TypeOK
<1>6. listed \in [found -> Contents]
      BY <1>5
<1> HIDE DEF found
<1>7. listed \in UNION {[L -> Contents] : L \in SUBSET Events}
      BY <1>4, <1>6
<1> HIDE DEF listed
<1>8. update \in Updates
      BY <1>3, <1>7 DEF Jobs, Updates
<1> HIDE DEF update
<1>9. /\ step' \in [Processors -> {"off", "idle", "learning", "putting", "merging", "queueing"}]
      /\ base' \in [Processors -> Maps \cup {None} \cup Lookups \cup Updates]
      BY <1>2, <1>8 DEF GuideTyped, TypeOK
<1>10. ASSUME NEW q \in Processors PROVE StepTyped(q)'
  <2>1. CASE q = p
        BY <1>1, <1>2, <1>3, <1>8, <2>1 DEF GuideTyped, TypeOK, StepTyped, Working
  <2>2. CASE q # p
    <3>1. step'[q] = step[q] /\ base'[q] = base[q] /\ job'[q] = job[q]
          BY <1>1, <1>2, <2>2 DEF GuideTyped, TypeOK
    <3>2. QED
          BY <3>1 DEF GuideTyped, StepTyped, Working
  <2>3. QED
        BY <2>1, <2>2
<1>11. QED
       BY <1>1, <1>9, <1>10 DEF GuideTyped, TypeOK

(* The queue holds updates, and no more than its capacity.                 *)
LEMMA QueueSectionTyped ==
    ASSUME GuideTyped, NEW p \in Processors, QueueSection(p)
    PROVE  GuideTyped'
<1>1. UNCHANGED <<inHand, rows, written, aired, version, scheduled, seeded, catalog, maps,
                  todo, failed, faults>>
      BY DEF QueueSection, Enqueue, Finish, broadcast
<1>2. job[p] \in Jobs /\ base[p] \in Updates
      BY DEF QueueSection, GuideTyped, StepTyped, Working
<1>3. queue' \in Seq(Updates) /\ Len(queue') <= QueueCapacity
      BY <1>2, StoreAssumption DEF QueueSection, Enqueue, HasRoom, GuideTyped, TypeOK
<1>4. memory' \in [Processors -> [Sections -> Versions \cup {None}]]
      BY <1>2 DEF QueueSection, Remember, GuideTyped, TypeOK, Jobs
<1>5. /\ step' = [step EXCEPT ![p] = "idle"]
      /\ job' = [job EXCEPT ![p] = None]
      /\ complete' = [complete EXCEPT ![p] = FALSE]
      /\ base' = [base EXCEPT ![p] = None]
      BY DEF QueueSection, Finish
<1>6. ASSUME NEW q \in Processors PROVE StepTyped(q)'
      BY <1>5 DEF GuideTyped, TypeOK, StepTyped, Working
<1>7. QED
      BY <1>1, <1>3, <1>4, <1>5, <1>6 DEF GuideTyped, TypeOK

(* A committed section leaves rows that say where they are filed.          *)
LEMMA RowsTyped ==
    ASSUME GuideTyped, NEW u \in Updates, ReplaceSection(u.section, u.listed)
    PROVE  rows' \in [Events -> [section : Sections, content : Contents] \cup {None}]
<1>1. PICK L \in SUBSET Events : u.listed \in [L -> Contents]
      BY DEF Updates
<1>2. u.section \in Sections
      BY DEF Updates
<1>3. ASSUME NEW e \in Events
      PROVE  (IF e \in DOMAIN u.listed THEN [section |-> u.section, content |-> u.listed[e]]
              ELSE IF e \in FiledUnder(u.section) THEN None
              ELSE rows[e]) \in [section : Sections, content : Contents] \cup {None}
  <2>1. rows[e] \in [section : Sections, content : Contents] \cup {None}
        BY DEF GuideTyped, TypeOK
  <2>2. CASE e \in DOMAIN u.listed
        BY <1>1, <1>2, <2>2
  <2>3. CASE e \notin DOMAIN u.listed
        BY <2>1, <2>3
  <2>4. QED
        BY <2>2, <2>3
<1>4. QED
      BY <1>3 DEF ReplaceSection

LEMMA WriterTyped ==
    ASSUME GuideTyped, WriterStep \/ FailWrite
    PROVE  GuideTyped'
<1>1. UNCHANGED guideVars
      BY DEF WriterStep, FailWrite
<1>2. /\ queue' \in Seq(Updates) /\ Len(queue') <= QueueCapacity
      /\ inHand' \in Updates \cup {None}
  <2>1. CASE TakeUpdate
    <3>1. queue \in Seq(Updates) /\ queue # <<>> /\ Len(queue) <= QueueCapacity
          BY <2>1 DEF TakeUpdate, GuideTyped, TypeOK
    <3>2. Head(queue) \in Updates /\ Tail(queue) \in Seq(Updates) /\ Len(Tail(queue)) <= Len(queue)
          BY <3>1
    <3>3. Len(Tail(queue)) <= QueueCapacity
          BY <3>1, <3>2, StoreAssumption
    <3>4. QED
          BY <2>1, <3>2, <3>3 DEF TakeUpdate
  <2>2. CASE Commit \/ WriteFails
        BY <2>2 DEF Commit, WriteFails, GuideTyped, TypeOK
  <2>3. QED
        BY <2>1, <2>2 DEF WriterStep, FailWrite
<1>3. /\ rows' \in [Events -> [section : Sections, content : Contents] \cup {None}]
      /\ written' \in [Sections -> Versions \cup {None}]
  <2>1. CASE Commit
    <3>1. inHand \in Updates
          BY <2>1 DEF Commit, GuideTyped, TypeOK
    <3>2. rows' \in [Events -> [section : Sections, content : Contents] \cup {None}]
          BY <2>1, <3>1, RowsTyped DEF Commit
    <3>3. written' \in [Sections -> Versions \cup {None}]
          BY <2>1, <3>1 DEF Commit, GuideTyped, TypeOK, Updates
    <3>4. QED
          BY <3>2, <3>3
  <2>2. CASE TakeUpdate \/ WriteFails
        BY <2>2 DEF TakeUpdate, WriteFails, GuideTyped, TypeOK
  <2>3. QED
        BY <2>1, <2>2 DEF WriterStep, FailWrite
<1>4. faults' \in 0 .. MaxFaults
  <2>1. faults \in 0 .. MaxFaults
        BY DEF GuideTyped, TypeOK
  <2>2. faults' = faults \/ (faults < MaxFaults /\ faults' = faults + 1)
        BY DEF WriterStep, FailWrite, Fault
  <2>3. QED
        BY <2>1, <2>2, GuideAssumption
<1>5. failed' \in BOOLEAN
  <2>1. failed' = failed \/ failed' = TRUE
        BY DEF WriterStep, FailWrite
  <2>2. QED
        BY <2>1 DEF GuideTyped, TypeOK
<1>6. QED
      BY <1>1, <1>2, <1>3, <1>4, <1>5 DEF guideVars, GuideTyped, TypeOK, StepTyped, Working

(* Streams come and go.                                                    *)
LEMMA StreamTyped ==
    ASSUME GuideTyped, NEW p \in Processors, StartStream(p) \/ EndStream(p)
    PROVE  GuideTyped'
<1>1. UNCHANGED <<queue, inHand, rows, written, aired, version, scheduled, seeded, catalog, maps,
                  job, todo, complete, base, failed>>
      BY DEF StartStream, EndStream, Forget, storeVars, broadcast, processing
<1>2. memory' \in [Processors -> [Sections -> Versions \cup {None}]]
      BY DEF StartStream, EndStream, Forget, GuideTyped, TypeOK
<1>3. faults' \in 0 .. MaxFaults
      BY GuideAssumption DEF StartStream, EndStream, Fault, GuideTyped, TypeOK
<1>4. step' = [step EXCEPT ![p] = "idle"] \/ step' = [step EXCEPT ![p] = "off"]
      BY DEF StartStream, EndStream
<1>5. ASSUME NEW q \in Processors PROVE StepTyped(q)'
      BY <1>1, <1>4 DEF GuideTyped, TypeOK, StepTyped, Working
<1>6. QED
      BY <1>1, <1>2, <1>3, <1>4, <1>5 DEF GuideTyped, TypeOK

(* What a restart restores are the contents of rows.                       *)
LEMMA RestartTyped ==
    ASSUME GuideTyped, Restart
    PROVE  GuideTyped'
<1>1. UNCHANGED <<rows, written, aired, version, scheduled, seeded, failed>>
      BY DEF Restart, LoseUpdates, Forget, broadcast
<1>2. /\ queue' \in Seq(Updates) /\ Len(queue') <= QueueCapacity
      /\ inHand' \in Updates \cup {None}
      BY StoreAssumption DEF Restart, LoseUpdates
<1>3. ASSUME NEW e \in Events
      PROVE  (IF rows[e] = None THEN None ELSE rows[e].content) \in Contents \cup {None}
      BY DEF GuideTyped, TypeOK
<1>4. NoEvents \in [Events -> Contents \cup {None}]
      BY DEF NoEvents
<1>5. [e \in Events |-> IF rows[e] = None THEN None ELSE rows[e].content]
          \in [Events -> Contents \cup {None}]
      BY <1>3
<1>6. maps' \in [Maps -> [Events -> Contents \cup {None}]]
      BY <1>4, <1>5 DEF Restart
<1>7. catalog' \in Maps \cup {None}
      BY DEF Restart, Maps
<1>8. memory' \in [Processors -> [Sections -> Versions \cup {None}]]
      BY DEF Restart, Forget, GuideTyped, TypeOK
<1>9. faults' \in 0 .. MaxFaults
      BY GuideAssumption DEF Restart, Fault, GuideTyped, TypeOK
<1>10. /\ step' = [p \in Processors |-> "off"]
       /\ job' = [p \in Processors |-> None]
       /\ todo' = [p \in Processors |-> {}]
       /\ complete' = [p \in Processors |-> FALSE]
       /\ base' = [p \in Processors |-> None]
       BY DEF Restart
<1>11. \A p \in Processors : StepTyped(p)'
       BY <1>10 DEF StepTyped, Working
<1>12. QED
       BY <1>1, <1>2, <1>6, <1>7, <1>8, <1>9, <1>10, <1>11 DEF GuideTyped, TypeOK

LEMMA StutterTyped ==
    ASSUME GuideTyped, UNCHANGED vars
    PROVE  GuideTyped'
BY DEF vars, storeVars, guideVars, GuideTyped, TypeOK, StepTyped, Working

LEMMA NextTyped ==
    ASSUME GuideTyped, [Next]_vars
    PROVE  GuideTyped'
<1>1. ASSUME NEW p \in Processors, ProcessStep(p) PROVE GuideTyped'
      BY <1>1, ServiceTyped, FindEventTyped, DropEventTyped, InsertEventTyped, DoneTyped,
         ReadBackTyped, QueueSectionTyped DEF ProcessStep
<1>2. ASSUME NEW p \in Processors, StartStream(p) \/ EndStream(p) PROVE GuideTyped'
      BY <1>2, StreamTyped
<1>3. ASSUME NEW p \in Processors, FindService(p) PROVE GuideTyped'
      BY <1>3, ServiceTyped
<1>4. ASSUME NEW p \in Processors, NEW s \in Sections, Receive(p, s) PROVE GuideTyped'
      BY <1>4, ReceiveTyped
<1>5. QED
      BY <1>1, <1>2, <1>3, <1>4, ReviseTyped, WriterTyped, RestartTyped, StutterTyped DEF Next

(* TypeOK: in particular the queue of event.rs:21 never exceeds its        *)
(* capacity, however many processors fill it, and what is restored from    *)
(* the database are events.                                                *)
THEOREM GuideIsTyped == Spec => []TypeOK
<1>1. GuideTyped /\ [Next]_vars => GuideTyped'
      BY NextTyped
<1>2. GuideTyped => TypeOK
      BY DEF GuideTyped
<1>3. QED
      BY <1>1, <1>2, TypedInitially, PTL DEF Spec

-----------------------------------------------------------------------------
(* One processor: what it looked up still holds when it is used.           *)

(* Versions are numbers, None is not.                                      *)
LEMMA VersionsAreNumbers ==
    ASSUME GuideTyped, NEW p \in Processors, NEW s \in Sections
    PROVE  /\ version[s] \in Versions /\ version[s] \in Int /\ version[s] # None
           /\ memory[p][s] # None => memory[p][s] \in Int
           /\ written[s] # None => written[s] \in Int
BY StoreAssumption, NoneAssumption DEF GuideTyped, TypeOK, Versions

(* A remembered section that is revised is not current any more.           *)
LEMMA RevisedIsNotCurrent ==
    ASSUME GuideTyped, NEW p \in Processors, MemoryBehind(p),
           NEW s \in Sections, Revise(s), NEW t \in Sections, Current(p, t)'
    PROVE  t # s /\ Current(p, t) /\ version'[t] = version[t] /\ aired'[t] = aired[t]
<1>1. /\ version' = [version EXCEPT ![s] = @ + 1] /\ memory' = memory
      /\ \A u \in Sections \ {s} : aired'[u] = aired[u]
      BY DEF Revise
<1>2. memory[p][t] = version'[t]
      BY <1>1 DEF Current
<1>3. t # s
  <2>1. SUFFICES ASSUME t = s PROVE FALSE
        OBVIOUS
  <2>2. version'[s] = version[s] + 1 /\ version'[s] \in Versions
        BY <1>1, StoreAssumption DEF Revise, GuideTyped, TypeOK, Versions
  <2>3. memory[p][s] # None
        BY <1>2, <2>1, <2>2, NoneAssumption
  <2>4. QED
        BY <1>2, <2>1, <2>2, <2>3, VersionsAreNumbers DEF MemoryBehind
<1>4. QED
      BY <1>1, <1>2, <1>3 DEF Current, GuideTyped, TypeOK

LEMMA ReviseProgress ==
    ASSUME GuideTyped, Progress, NEW s \in Sections, Revise(s)
    PROVE  Progress'
<1>1. /\ version' = [version EXCEPT ![s] = @ + 1]
      /\ \A u \in Sections \ {s} : aired'[u] = aired[u]
      /\ UNCHANGED <<catalog, maps, memory, step, job, todo, complete, base>>
      BY DEF Revise, processing
<1>2. ASSUME NEW t \in Sections
      PROVE  /\ version[t] \in Int /\ version'[t] \in Int /\ version[t] <= version'[t]
             /\ t # s => version'[t] = version[t] /\ aired'[t] = aired[t]
             /\ t = s => version'[t] = version[t] + 1
      BY <1>1, StoreAssumption DEF GuideTyped, TypeOK, Versions
<1>3. ASSUME NEW p \in Processors PROVE MemoryBehind(p)'
  <2>1. ASSUME NEW t \in Sections, memory[p][t] # None PROVE memory[p][t] <= version'[t]
        BY <1>2, <2>1, VersionsAreNumbers DEF Progress, MemoryBehind
  <2>2. QED
        BY <1>1, <2>1 DEF MemoryBehind
<1>4. ASSUME NEW p \in Processors, Working(p)' PROVE JobIsNews(p)'
  <2> DEFINE t == job[p].section
  <2>1. Working(p) /\ JobIsNews(p)
        BY <1>1, <1>4 DEF Progress, Working
  <2>2. t \in Sections /\ job[p].version \in Int
        BY <2>1, StoreAssumption DEF GuideTyped, StepTyped, Jobs, Versions
  <2>3. job[p].version <= version'[t]
        BY <1>2, <2>1, <2>2 DEF JobIsNews
  <2>4. job[p].version = version'[t] => t # s
        BY <1>2, <2>1, <2>2 DEF JobIsNews
  <2>5. job[p].version = version'[t] => job[p].listed = aired'[t]
        BY <1>2, <2>1, <2>2, <2>4 DEF JobIsNews
  <2>6. QED
        BY <1>1, <2>1, <2>3, <2>5 DEF JobIsNews
<1>5. ASSUME NEW p \in Processors PROVE LookupHolds(p)'
      BY <1>1 DEF Progress, LookupHolds
<1>6. QED
      BY <1>3, <1>4, <1>5 DEF Progress

LEMMA ServiceProgress ==
    ASSUME OneProcessor, GuideTyped, Progress,
           NEW p \in Processors, FindService(p) \/ InsertService(p)
    PROVE  Progress'
<1>1. UNCHANGED <<version, memory>>
      BY DEF FindService, InsertService, broadcast
<1>2. step'[p] \in {"learning", "idle"} /\ ~Working(p)'
      BY DEF FindService, InsertService, GuideTyped, TypeOK, Working
<1>3. LookupHolds(p)'
      BY DEF FindService, InsertService, GuideTyped, TypeOK, LookupHolds
<1>4. MemoryBehind(p)'
      BY <1>1 DEF Progress, MemoryBehind
<1>5. QED
      BY <1>2, <1>3, <1>4 DEF Progress, OneProcessor

LEMMA ReceiveProgress ==
    ASSUME OneProcessor, GuideTyped, Progress,
           NEW p \in Processors, NEW s \in Sections, Receive(p, s)
    PROVE  Progress'
<1>1. UNCHANGED <<version, aired, memory>>
      BY DEF Receive, broadcast
<1>2. /\ step'[p] = "putting" /\ todo'[p] = aired[s]
      /\ job'[p] = [section |-> s, version |-> version[s], listed |-> aired[s]]
      BY DEF Receive, GuideTyped, TypeOK
<1>3. LookupHolds(p)'
      BY <1>2 DEF LookupHolds
<1>4. MemoryBehind(p)' /\ MemoryBehind(p)
      BY <1>1 DEF Progress, MemoryBehind
<1>5. memory[p][s] # None => memory[p][s] < version[s]
      BY <1>4, VersionsAreNumbers DEF MemoryBehind, Receive
<1>6. JobIsNews(p)'
      BY <1>1, <1>2, <1>5, VersionsAreNumbers DEF JobIsNews
<1>7. QED
      BY <1>3, <1>4, <1>6 DEF Progress, OneProcessor

LEMMA PutProgress ==
    ASSUME OneProcessor, GuideTyped, Progress,
           NEW p \in Processors, NEW e,
           (e \in Events /\ (FindEvent(p, e) \/ DropEvent(p, e))) \/ InsertEvent(p)
    PROVE  Progress'
<1>1. UNCHANGED <<version, aired, memory, job>>
      BY DEF FindEvent, DropEvent, InsertEvent, broadcast
<1>2. Working(p) /\ JobIsNews(p) /\ MemoryBehind(p)
      BY DEF FindEvent, DropEvent, InsertEvent, Progress, Working
<1>3. todo'[p] \subseteq todo[p]
      BY DEF FindEvent, DropEvent, InsertEvent, GuideTyped, TypeOK
<1>4. JobIsNews(p)' /\ MemoryBehind(p)'
      BY <1>1, <1>2, <1>3 DEF JobIsNews, MemoryBehind
<1>5. LookupHolds(p)'
  <2>1. CASE FindEvent(p, e)
    <3>1. /\ step'[p] = "merging" /\ UNCHANGED <<catalog, maps>>
          /\ base'[p] = [map |-> catalog, event |-> e, previous |-> maps[catalog][e]]
          BY <2>1 DEF FindEvent, GuideTyped, TypeOK
    <3>2. catalog # None /\ e \in job[p].listed
          BY <1>2, <2>1 DEF FindEvent, JobIsNews
    <3>3. QED
          BY <1>1, <3>1, <3>2 DEF LookupHolds
  <2>2. CASE DropEvent(p, e) \/ InsertEvent(p)
    <3>1. step'[p] = "putting"
          BY <2>2 DEF DropEvent, InsertEvent, GuideTyped, TypeOK
    <3>2. QED
          BY <3>1 DEF LookupHolds
  <2>3. QED
        BY <2>1, <2>2
<1>6. QED
      BY <1>4, <1>5 DEF Progress, OneProcessor

LEMMA ReadBackProgress ==
    ASSUME OneProcessor, GuideTyped, Progress, NEW p \in Processors, ReadBack(p)
    PROVE  Progress'
<1>1. UNCHANGED <<version, aired, memory, job, todo, complete>>
      BY DEF ReadBack, broadcast
<1>2. Working(p) /\ JobIsNews(p) /\ MemoryBehind(p)
      BY DEF ReadBack, AllPut, Progress, Working
<1>3. JobIsNews(p)' /\ MemoryBehind(p)'
      BY <1>1, <1>2 DEF JobIsNews, MemoryBehind
<1>4. /\ step'[p] = "queueing" /\ complete[p] /\ todo[p] = {}
      /\ base'[p].section = job[p].section /\ base'[p].version = job[p].version
      BY DEF ReadBack, AllPut, GuideTyped, TypeOK
<1>5. LookupHolds(p)'
      BY <1>1, <1>4 DEF LookupHolds
<1>6. QED
      BY <1>3, <1>5 DEF Progress, OneProcessor

(* A processor remembers only what is on air, or was.                      *)
LEMMA FinishProgress ==
    ASSUME OneProcessor, GuideTyped, Progress, NEW p \in Processors, Working(p),
           Finish(p), version' = version, memory' = memory \/ Remember(p)
    PROVE  Progress'
<1>1. step'[p] = "idle"
      BY DEF Finish, GuideTyped, TypeOK
<1>2. JobIsNews(p) /\ MemoryBehind(p) /\ job[p] \in Jobs
      BY DEF Progress, GuideTyped, StepTyped
<1>3. MemoryBehind(p)'
  <2>1. CASE memory' = memory
        BY <1>2, <2>1 DEF MemoryBehind
  <2>2. CASE Remember(p)
    <3>1. memory'[p] = [memory[p] EXCEPT ![job[p].section] = job[p].version]
          BY <2>2 DEF Remember, GuideTyped, TypeOK
    <3>2. ASSUME NEW s \in Sections, memory'[p][s] # None PROVE memory'[p][s] <= version[s]
      <4>1. CASE s = job[p].section
            BY <1>2, <3>1, <4>1 DEF JobIsNews, GuideTyped, TypeOK
      <4>2. CASE s # job[p].section
            BY <1>2, <3>1, <3>2, <4>2 DEF MemoryBehind
      <4>3. QED
            BY <4>1, <4>2
    <3>3. QED
          BY <3>2 DEF MemoryBehind
  <2>3. QED
        BY <2>1, <2>2
<1>4. ~Working(p)' /\ LookupHolds(p)'
      BY <1>1 DEF Working, LookupHolds
<1>5. QED
      BY <1>3, <1>4 DEF Progress, OneProcessor

LEMMA DoneProgress ==
    ASSUME OneProcessor, GuideTyped, Progress, NEW p \in Processors,
           GiveUp(p) \/ KeepInMemory(p) \/ QueueSection(p) \/ RefuseSection(p)
    PROVE  Progress'
<1>1. Working(p) /\ Finish(p) /\ version' = version
      BY DEF GiveUp, KeepInMemory, QueueSection, RefuseSection, AllPut, Working, broadcast
<1>2. memory' = memory \/ Remember(p)
      BY DEF GiveUp, KeepInMemory, QueueSection, RefuseSection
<1>3. QED
      BY <1>1, <1>2, FinishProgress

LEMMA StreamProgress ==
    ASSUME OneProcessor, GuideTyped, Progress, NEW p \in Processors,
           StartStream(p) \/ EndStream(p)
    PROVE  Progress'
<1>1. step'[p] \in {"idle", "off"}
      BY DEF StartStream, EndStream, GuideTyped, TypeOK
<1>2. version' = version
      BY DEF StartStream, EndStream, Forget, broadcast
<1>3. \A s \in Sections : memory'[p][s] = memory[p][s] \/ memory'[p][s] = None
      BY DEF StartStream, EndStream, Forget
<1>4. MemoryBehind(p)'
      BY <1>2, <1>3 DEF Progress, MemoryBehind
<1>5. ~Working(p)' /\ LookupHolds(p)'
      BY <1>1 DEF Working, LookupHolds
<1>6. QED
      BY <1>4, <1>5 DEF Progress, OneProcessor

LEMMA RestartProgress ==
    ASSUME Restart
    PROVE  Progress'
<1>1. ASSUME NEW p \in Processors
      PROVE  step'[p] = "off" /\ \A s \in Sections : memory'[p][s] = None
      BY DEF Restart, Forget
<1>2. ASSUME NEW p \in Processors
      PROVE  MemoryBehind(p)' /\ ~Working(p)' /\ LookupHolds(p)'
      BY <1>1 DEF MemoryBehind, Working, LookupHolds
<1>3. QED
      BY <1>2 DEF Progress

LEMMA SettledProgress ==
    ASSUME Progress, UNCHANGED guideVars
    PROVE  Progress'
BY DEF guideVars, Progress, MemoryBehind, Working, JobIsNews, LookupHolds

LEMMA NextProgress ==
    ASSUME OneProcessor, GuideTyped, Progress, [Next]_vars
    PROVE  Progress'
<1>1. ASSUME NEW p \in Processors, ProcessStep(p) PROVE Progress'
      BY <1>1, ServiceProgress, PutProgress, DoneProgress, ReadBackProgress
         DEF ProcessStep
<1>2. ASSUME NEW p \in Processors, StartStream(p) \/ EndStream(p) PROVE Progress'
      BY <1>2, StreamProgress
<1>3. ASSUME NEW p \in Processors, FindService(p) PROVE Progress'
      BY <1>3, ServiceProgress
<1>4. ASSUME NEW p \in Processors, NEW s \in Sections, Receive(p, s) PROVE Progress'
      BY <1>4, ReceiveProgress
<1>5. ASSUME WriterStep \/ FailWrite \/ UNCHANGED vars PROVE Progress'
      BY <1>5, SettledProgress DEF WriterStep, FailWrite, vars
<1>6. QED
      BY <1>1, <1>2, <1>3, <1>4, <1>5, ReviseProgress, RestartProgress DEF Next

-----------------------------------------------------------------------------
(* One processor: the registry has what the processor remembers.           *)

(* What the registry has of the remembered sections stays, as long as the  *)
(* memory, the sections on air and the maps do.                            *)
LEMMA HeldUnlessPut ==
    ASSUME HeldInv, UNCHANGED <<catalog, maps, aired, version, memory>>,
           \A p \in Processors : Working(p)' =>
               /\ Working(p) /\ job'[p] = job[p]
               /\ complete'[p] => complete[p] /\ todo'[p] = todo[p]
    PROVE  HeldInv'
<1>1. RememberedIsHeld'
      BY DEF HeldInv, RememberedIsHeld, Current
<1>2. ASSUME NEW p \in Processors, Working(p)' PROVE PutIsHeld(p)'
      BY <1>2 DEF HeldInv, PutIsHeld, Held
<1>3. ASSUME NEW p \in Processors, Working(p)' PROVE JobIsApart(p)'
      BY <1>3 DEF HeldInv, JobIsApart, Current
<1>4. QED
      BY <1>1, <1>2, <1>3 DEF HeldInv

LEMMA ReviseHeld ==
    ASSUME GuideTyped, Progress, HeldInv, NEW s \in Sections, Revise(s)
    PROVE  HeldInv'
<1>1. UNCHANGED <<catalog, maps, memory, step, job, todo, complete>>
      BY DEF Revise, processing
<1>2. ASSUME NEW p \in Processors, NEW t \in Sections, Current(p, t)'
      PROVE  Current(p, t) /\ version'[t] = version[t] /\ aired'[t] = aired[t]
      BY <1>2, RevisedIsNotCurrent DEF Progress
<1>3. RememberedIsHeld'
      BY <1>1, <1>2 DEF HeldInv, RememberedIsHeld
<1>4. ASSUME NEW p \in Processors, Working(p)' PROVE PutIsHeld(p)' /\ JobIsApart(p)'
  <2>1. Working(p) /\ PutIsHeld(p) /\ JobIsApart(p)
        BY <1>1, <1>4 DEF HeldInv, Working
  <2>2. PutIsHeld(p)'
        BY <1>1, <2>1 DEF PutIsHeld, Held
  <2>3. JobIsApart(p)'
        BY <1>1, <1>2, <2>1 DEF JobIsApart
  <2>4. QED
        BY <2>2, <2>3
<1>5. QED
      BY <1>3, <1>4 DEF HeldInv

LEMMA ServiceHeld ==
    ASSUME OneProcessor, GuideTyped, Progress, HeldInv,
           NEW p \in Processors, FindService(p) \/ InsertService(p)
    PROVE  HeldInv'
<1>1. UNCHANGED <<aired, version, maps, memory, job, todo, complete>>
      BY DEF FindService, InsertService, broadcast
<1>2. ~Working(p)'
      BY DEF FindService, InsertService, GuideTyped, TypeOK, Working
<1>3. catalog # None => catalog' = catalog
      BY DEF FindService, InsertService, Progress, LookupHolds
<1>4. catalog' = None => catalog = None
      BY <1>3
<1>5. RememberedIsHeld'
      BY <1>1, <1>3, <1>4 DEF HeldInv, RememberedIsHeld, Current
<1>6. QED
      BY <1>2, <1>5 DEF HeldInv, OneProcessor

LEMMA ReceiveHeld ==
    ASSUME OneProcessor, Apart, GuideTyped, HeldInv,
           NEW p \in Processors, NEW s \in Sections, Receive(p, s)
    PROVE  HeldInv'
<1>1. UNCHANGED <<aired, version, catalog, maps, memory>>
      BY DEF Receive, broadcast
<1>2. /\ todo'[p] = aired[s]
      /\ job'[p] = [section |-> s, version |-> version[s], listed |-> aired[s]]
      BY DEF Receive, GuideTyped, TypeOK
<1>3. PutIsHeld(p)'
      BY <1>2 DEF PutIsHeld
<1>4. aired \in Airings
      BY DEF GuideTyped, TypeOK
<1>5. JobIsApart(p)'
      BY <1>1, <1>2, <1>4 DEF JobIsApart, Apart
<1>6. RememberedIsHeld'
      BY <1>1 DEF HeldInv, RememberedIsHeld, Current
<1>7. QED
      BY <1>3, <1>5, <1>6 DEF HeldInv, OneProcessor

LEMMA FindEventHeld ==
    ASSUME OneProcessor, GuideTyped, HeldInv,
           NEW p \in Processors, NEW e \in Events, FindEvent(p, e) \/ DropEvent(p, e)
    PROVE  HeldInv'
<1>1. UNCHANGED <<aired, version, catalog, maps, memory, job>> /\ Working(p)
      BY DEF FindEvent, DropEvent, broadcast, Working
<1>2. complete'[p] => complete[p] /\ todo'[p] = todo[p]
      BY DEF FindEvent, DropEvent, GuideTyped, TypeOK
<1>3. QED
      BY <1>1, <1>2, HeldUnlessPut DEF OneProcessor

(* The event that is put keeps its other parts, and no remembered section  *)
(* has put the part it gets.                                               *)
LEMMA InsertEventHeld ==
    ASSUME OneProcessor, GuideTyped, Progress, HeldInv, NEW p \in Processors, InsertEvent(p)
    PROVE  HeldInv'
<1> DEFINE e == base[p].event
           s == job[p].section
           v == job[p].version
<1>1. /\ UNCHANGED <<aired, version, catalog, memory, job, complete>>
      /\ todo' = [todo EXCEPT ![p] = @ \ {e}]
      BY DEF InsertEvent, broadcast
<1>2. /\ Working(p) /\ JobIsNews(p) /\ LookupHolds(p) /\ PutIsHeld(p) /\ JobIsApart(p)
      /\ base[p] \in Lookups /\ job[p] \in Jobs /\ s \in Sections
      BY DEF InsertEvent, Progress, HeldInv, GuideTyped, StepTyped, Working, Jobs
<1>3. /\ catalog # None /\ catalog \in Maps /\ e \in Events /\ e \in job[p].listed
      /\ base[p].map = catalog /\ base[p].previous = maps[catalog][e]
      BY <1>2 DEF InsertEvent, LookupHolds, Lookups
<1>4. /\ maps'[catalog][e] = Merged(maps[catalog][e], job[p])
      /\ \A d \in Events \ {e} : maps'[catalog][d] = maps[catalog][d]
      BY <1>3 DEF InsertEvent, GuideTyped, TypeOK
<1>5. Merged(maps[catalog][e], job[p]) \in Contents
      BY <1>2, <1>3, MergedIsContents DEF Lookups
<1>6. /\ maps'[catalog][e] # None
      /\ maps'[catalog][e][PartOf[s]] = <<s, v>>
      /\ \A q \in Parts : q # PartOf[s] /\ maps[catalog][e] # None =>
             maps'[catalog][e][q] = maps[catalog][e][q]
      BY <1>2, <1>4, <1>5, NoneAssumption, GuideAssumption DEF Merged
<1>7. PutIsHeld(p)'
  <2>1. ASSUME complete[p], NEW d \in job[p].listed \ todo'[p] PROVE Held(d, s, v)'
    <3>1. CASE d = e
          BY <1>1, <1>3, <1>6, <3>1 DEF Held
    <3>2. CASE d # e
      <4>1. d \in Events /\ d \in job[p].listed \ todo[p]
            BY <1>1, <1>2, <2>1, <3>2 DEF Jobs, GuideTyped, TypeOK
      <4>2. Held(d, s, v)
            BY <1>2, <2>1, <4>1 DEF PutIsHeld
      <4>3. QED
            BY <1>1, <1>4, <3>2, <4>1, <4>2 DEF Held
    <3>3. QED
          BY <3>1, <3>2
  <2>2. QED
        BY <1>1, <2>1 DEF PutIsHeld
<1>8. JobIsApart(p)'
      BY <1>1, <1>2 DEF JobIsApart, Current
<1>9. RememberedIsHeld'
  <2>1. ASSUME NEW t \in Sections, Current(p, t), NEW d \in aired[t]
        PROVE  maps'[catalog][d] # None /\ maps'[catalog][d][PartOf[t]] = <<t, version[t]>>
    <3>1. d \in Events /\ PartOf[t] \in Parts
          BY GuideAssumption DEF GuideTyped, TypeOK
    <3>2. maps[catalog][d] # None /\ maps[catalog][d][PartOf[t]] = <<t, version[t]>>
          BY <2>1 DEF HeldInv, RememberedIsHeld
    <3>3. CASE d # e
          BY <1>4, <3>1, <3>2, <3>3
    <3>4. CASE d = e
      <4>1. t # s
        <5>1. SUFFICES ASSUME t = s PROVE FALSE
              OBVIOUS
        <5>2. memory[p][s] = version[s] /\ memory[p][s] # None
              BY <1>2, <2>1, <5>1, VersionsAreNumbers DEF Current
        <5>3. QED
              BY <1>2, <5>2, VersionsAreNumbers, StoreAssumption
                 DEF JobIsNews, Jobs, Versions
      <4>2. PartOf[t] # PartOf[s]
            BY <1>2, <1>3, <2>1, <3>4, <4>1 DEF JobIsApart
      <4>3. QED
            BY <1>6, <3>1, <3>2, <3>4, <4>2
    <3>5. QED
          BY <3>3, <3>4
  <2>2. QED
        BY <1>1, <1>3, <2>1 DEF RememberedIsHeld, Current, OneProcessor
<1>10. QED
       BY <1>7, <1>8, <1>9 DEF HeldInv, OneProcessor

(* A section is remembered after its last event was put, without loss.     *)
LEMMA RememberHeld ==
    ASSUME OneProcessor, GuideTyped, Progress, HeldInv, NEW p \in Processors,
           Working(p), Finish(p), complete[p], todo[p] = {}, Remember(p),
           UNCHANGED <<aired, version, catalog, maps>>
    PROVE  HeldInv'
<1> DEFINE s == job[p].section
<1>1. JobIsNews(p) /\ PutIsHeld(p) /\ job[p] \in Jobs
      BY DEF Progress, HeldInv, GuideTyped, StepTyped
<1>2. /\ ~Working(p)'
      /\ memory'[p] = [memory[p] EXCEPT ![s] = job[p].version]
      BY DEF Finish, Remember, GuideTyped, TypeOK, Working
<1>3. ASSUME NEW t \in Sections, Current(p, t)', NEW e \in aired[t]
      PROVE  Held(e, t, version[t])
  <2>1. CASE t # s
    <3>1. Current(p, t)
          BY <1>2, <1>3, <2>1 DEF Current, GuideTyped, TypeOK
    <3>2. QED
          BY <1>3, <3>1 DEF HeldInv, RememberedIsHeld, Held
  <2>2. CASE t = s
    <3>1. job[p].version = version[s]
          BY <1>2, <1>3, <2>2 DEF Current, GuideTyped, TypeOK
    <3>2. e \in job[p].listed \ todo[p]
          BY <1>1, <1>3, <2>2, <3>1 DEF JobIsNews
    <3>3. QED
          BY <1>1, <2>2, <3>1, <3>2 DEF PutIsHeld
  <2>3. QED
        BY <2>1, <2>2
<1>4. RememberedIsHeld'
      BY <1>3 DEF RememberedIsHeld, Held, OneProcessor
<1>5. QED
      BY <1>2, <1>4 DEF HeldInv, OneProcessor

LEMMA DoneHeld ==
    ASSUME OneProcessor, GuideTyped, Progress, HeldInv, NEW p \in Processors,
           GiveUp(p) \/ KeepInMemory(p) \/ ReadBack(p) \/ QueueSection(p) \/ RefuseSection(p)
    PROVE  HeldInv'
<1>1. UNCHANGED <<aired, version, catalog, maps>> /\ Working(p)
      BY DEF GiveUp, KeepInMemory, ReadBack, QueueSection, RefuseSection, AllPut, Working, broadcast
<1>2. CASE GiveUp(p) \/ RefuseSection(p)
  <2>1. memory' = memory /\ ~Working(p)'
        BY <1>2 DEF GiveUp, RefuseSection, Finish, GuideTyped, TypeOK, Working
  <2>2. QED
        BY <1>1, <2>1, HeldUnlessPut DEF OneProcessor
<1>3. CASE ReadBack(p)
  <2>1. UNCHANGED <<memory, job, todo, complete>>
        BY <1>3 DEF ReadBack
  <2>2. QED
        BY <1>1, <2>1, HeldUnlessPut DEF OneProcessor
<1>4. CASE KeepInMemory(p) \/ QueueSection(p)
  <2>1. Finish(p) /\ Remember(p)
        BY <1>4 DEF KeepInMemory, QueueSection
  <2>2. complete[p] /\ todo[p] = {}
        BY <1>4 DEF KeepInMemory, AllPut, QueueSection, Progress, LookupHolds
  <2>3. QED
        BY <1>1, <2>1, <2>2, RememberHeld
<1>5. QED
      BY <1>2, <1>3, <1>4

LEMMA StreamHeld ==
    ASSUME OneProcessor, GuideTyped, HeldInv, NEW p \in Processors, StartStream(p) \/ EndStream(p)
    PROVE  HeldInv'
<1>1. UNCHANGED <<aired, version, catalog, maps>> /\ ~Working(p)'
      BY DEF StartStream, EndStream, Forget, broadcast, GuideTyped, TypeOK, Working
<1>2. \A s \in Sections : memory'[p][s] = memory[p][s] \/ memory'[p][s] = None
      BY DEF StartStream, EndStream, Forget
<1>3. \A s \in Sections : Current(p, s)' => Current(p, s)
      BY <1>1, <1>2, VersionsAreNumbers DEF Current
<1>4. RememberedIsHeld'
      BY <1>1, <1>3 DEF HeldInv, RememberedIsHeld, OneProcessor
<1>5. QED
      BY <1>1, <1>4 DEF HeldInv, OneProcessor

(* After a restart nothing is remembered.                                  *)
LEMMA RestartForgets ==
    ASSUME GuideTyped, Restart, NEW p \in Processors
    PROVE  ~Working(p)' /\ \A s \in Sections : ~Current(p, s)'
<1>1. /\ step'[p] = "off" /\ version' = version
      /\ \A s \in Sections : memory'[p][s] = None
      BY DEF Restart, Forget, broadcast
<1>2. QED
      BY <1>1, VersionsAreNumbers DEF Working, Current

LEMMA NextHeld ==
    ASSUME OneProcessor, Apart, GuideTyped, Progress, HeldInv, [Next]_vars
    PROVE  HeldInv'
<1>1. ASSUME NEW p \in Processors, ProcessStep(p) PROVE HeldInv'
      BY <1>1, ServiceHeld, FindEventHeld, InsertEventHeld, DoneHeld DEF ProcessStep
<1>2. ASSUME NEW p \in Processors, StartStream(p) \/ EndStream(p) PROVE HeldInv'
      BY <1>2, StreamHeld
<1>3. ASSUME NEW p \in Processors, FindService(p) PROVE HeldInv'
      BY <1>3, ServiceHeld
<1>4. ASSUME NEW p \in Processors, NEW s \in Sections, Receive(p, s) PROVE HeldInv'
      BY <1>4, ReceiveHeld
<1>5. ASSUME WriterStep \/ FailWrite \/ UNCHANGED vars PROVE HeldInv'
  <2>1. UNCHANGED guideVars
        BY <1>5 DEF WriterStep, FailWrite, vars
  <2>2. QED
        BY <2>1, HeldUnlessPut DEF guideVars, Working
<1>6. ASSUME Restart PROVE HeldInv'
      BY <1>6, RestartForgets DEF HeldInv, RememberedIsHeld
<1>7. QED
      BY <1>1, <1>2, <1>3, <1>4, <1>5, <1>6, ReviseHeld DEF Next

-----------------------------------------------------------------------------
(* One processor: the store has, or is about to have, what the processor   *)
(* remembers.                                                              *)

LEMMA UpdateVersions ==
    ASSUME NEW u \in Updates
    PROVE  u.section \in Sections /\ u.version \in Int /\ u # None
BY StoreAssumption, NoneAssumption DEF Updates, Versions

LEMMA StoreVersions ==
    ASSUME GuideTyped
    PROVE  /\ \A i \in DOMAIN queue : queue[i].section \in Sections /\ queue[i].version \in Int
           /\ inHand # None => inHand.section \in Sections /\ inHand.version \in Int
<1>1. \A i \in DOMAIN queue : queue[i] \in Updates
      BY DEF GuideTyped, TypeOK
<1>2. inHand # None => inHand \in Updates
      BY DEF GuideTyped, TypeOK
<1>3. QED
      BY <1>1, <1>2, UpdateVersions

LEMMA WrittenVersions ==
    ASSUME GuideTyped, NEW s \in Sections, written[s] # None
    PROVE  written[s] \in Int
BY StoreAssumption DEF GuideTyped, TypeOK, Versions

LEMMA VersionsOnAir ==
    ASSUME GuideTyped, NEW s \in Sections
    PROVE  version[s] \in Int /\ version[s] # None
BY StoreAssumption, NoneAssumption DEF GuideTyped, TypeOK, Versions

LEMMA JobVersions ==
    ASSUME GuideTyped, NEW p \in Processors, Working(p)
    PROVE  job[p].section \in Sections /\ job[p].version \in Int
BY StoreAssumption DEF GuideTyped, StepTyped, Jobs, Versions

LEMMA KeptUnlessTouched ==
    ASSUME KeptInv, UNCHANGED <<storeVars, version, scheduled, memory, failed>>,
           \A p \in Processors : Working(p)' => Working(p) /\ job'[p] = job[p]
    PROVE  KeptInv'
<1>1. UNCHANGED <<queue, inHand, rows, written>>
      BY DEF storeVars
<1>2. \A s \in Sections : AtMost(s, version[s])'
      BY <1>1 DEF KeptInv, AtMost
<1>3. ASSUME NEW p \in Processors, Working(p)' PROVE AtMost(job[p].section, job[p].version)'
      BY <1>1, <1>3 DEF KeptInv, AtMost
<1>4. InOrder'
      BY <1>1 DEF KeptInv, InOrder
<1>5. RememberedIsKept'
      BY <1>1 DEF KeptInv, RememberedIsKept, Current, OnItsWay
<1>6. QED
      BY <1>2, <1>3, <1>4, <1>5 DEF KeptInv

LEMMA ReviseKept ==
    ASSUME GuideTyped, Progress, KeptInv, NEW s \in Sections, Revise(s)
    PROVE  KeptInv'
<1>1. UNCHANGED <<queue, inHand, rows, written, scheduled, memory, step, job, failed>>
      BY DEF Revise, storeVars, processing
<1>2. ASSUME NEW t \in Sections
      PROVE  version[t] \in Int /\ version'[t] \in Int /\ version[t] <= version'[t]
      BY StoreAssumption DEF Revise, GuideTyped, TypeOK, Versions
<1>3. ASSUME NEW t \in Sections PROVE AtMost(t, version[t])'
      BY <1>1, <1>2, StoreVersions, WrittenVersions DEF KeptInv, AtMost
<1>4. ASSUME NEW p \in Processors, Working(p)' PROVE AtMost(job[p].section, job[p].version)'
      BY <1>1, <1>4 DEF KeptInv, AtMost, Working
<1>5. InOrder'
      BY <1>1 DEF KeptInv, InOrder
<1>6. ASSUME NEW p \in Processors, NEW t \in Sections, Current(p, t)'
      PROVE  Current(p, t) /\ version'[t] = version[t]
      BY <1>6, RevisedIsNotCurrent DEF Progress
<1>7. ASSUME NEW p \in Processors, NEW t \in scheduled', Current(p, t)'
      PROVE  (written[t] = version[t] \/ OnItsWay(t) \/ failed)'
  <2>1. t \in Sections /\ t \in scheduled
        BY <1>1, GuideAssumption DEF GuideTyped, TypeOK
  <2>2. version'[t] = version[t] /\ (written[t] = version[t] \/ OnItsWay(t) \/ failed)
        BY <1>6, <1>7, <2>1 DEF KeptInv, RememberedIsKept
  <2>3. QED
        BY <1>1, <2>2 DEF OnItsWay
<1>8. RememberedIsKept'
      BY <1>7 DEF RememberedIsKept
<1>9. QED
      BY <1>3, <1>4, <1>5, <1>8 DEF KeptInv

LEMMA ReceiveKept ==
    ASSUME OneProcessor, GuideTyped, KeptInv,
           NEW p \in Processors, NEW s \in Sections, Receive(p, s)
    PROVE  KeptInv'
<1>1. UNCHANGED <<queue, inHand, rows, written, version, scheduled, memory, failed>>
      BY DEF Receive, storeVars, broadcast
<1>2. job'[p].section = s /\ job'[p].version = version[s]
      BY DEF Receive, GuideTyped, TypeOK
<1>3. ASSUME NEW t \in Sections PROVE AtMost(t, version[t])'
      BY <1>1 DEF KeptInv, AtMost
<1>4. AtMost(job[p].section, job[p].version)'
      BY <1>1, <1>2, <1>3 DEF AtMost
<1>5. InOrder'
      BY <1>1 DEF KeptInv, InOrder
<1>6. RememberedIsKept'
      BY <1>1 DEF KeptInv, RememberedIsKept, Current, OnItsWay
<1>7. QED
      BY <1>3, <1>4, <1>5, <1>6 DEF KeptInv, OneProcessor

(* A section that is not worth keeping is remembered alone.                *)
LEMMA KeepInMemoryKept ==
    ASSUME OneProcessor, GuideTyped, KeptInv, NEW p \in Processors, KeepInMemory(p)
    PROVE  KeptInv'
<1>1. UNCHANGED <<queue, inHand, rows, written, version, scheduled, failed>>
      BY DEF KeepInMemory, storeVars, broadcast
<1>2. ~Working(p)' /\ job[p].section \notin scheduled
      BY DEF KeepInMemory, Finish, GuideTyped, TypeOK, Working
<1>3. \A t \in scheduled : memory'[p][t] = memory[p][t]
      BY <1>2, GuideAssumption DEF KeepInMemory, Remember, GuideTyped, TypeOK
<1>4. RememberedIsKept'
      BY <1>1, <1>3 DEF KeptInv, RememberedIsKept, Current, OnItsWay, OneProcessor
<1>5. \A s \in Sections : AtMost(s, version[s])'
      BY <1>1 DEF KeptInv, AtMost
<1>6. InOrder'
      BY <1>1 DEF KeptInv, InOrder
<1>7. QED
      BY <1>2, <1>4, <1>5, <1>6 DEF KeptInv, OneProcessor

(* What is queued last is the newest of its section.                       *)
LEMMA QueueSectionKept ==
    ASSUME OneProcessor, GuideTyped, Progress, KeptInv, NEW p \in Processors, QueueSection(p)
    PROVE  KeptInv'
<1> DEFINE s == job[p].section
           v == job[p].version
           n == Len(queue)
<1>1. /\ queue' = Append(queue, base[p])
      /\ UNCHANGED <<inHand, rows, written, version, scheduled, failed>>
      /\ Remember(p)
      BY DEF QueueSection, Enqueue, broadcast
<1>2. /\ Working(p) /\ JobIsNews(p) /\ AtMost(s, v) /\ base[p] \in Updates
      /\ base[p].section = s /\ base[p].version = v
      BY DEF QueueSection, Progress, LookupHolds, KeptInv, GuideTyped, StepTyped, Working
<1>3. ~Working(p)'
      BY DEF QueueSection, Finish, GuideTyped, TypeOK, Working
<1>4. s \in Sections /\ v \in Int
      BY <1>2, JobVersions
<1>5. /\ n \in Nat /\ DOMAIN queue = 1 .. n /\ DOMAIN queue' = 1 .. n + 1
      /\ \A i \in 1 .. n : queue'[i] = queue[i]
      /\ queue'[n + 1] = base[p]
      BY <1>1, <1>2 DEF GuideTyped, TypeOK
<1> HIDE DEF s, v, n
<1>6. ASSUME NEW t \in Sections PROVE AtMost(t, version[t])'
  <2>1. AtMost(t, version[t]) /\ (t = s => v <= version[t])
        BY <1>2 DEF KeptInv, JobIsNews, s, v
  <2>2. QED
        BY <1>1, <1>2, <1>5, <2>1 DEF AtMost
<1>7. InOrder'
  <2>1. ASSUME NEW i \in DOMAIN queue'
        PROVE  /\ written[queue'[i].section] # None =>
                      written[queue'[i].section] <= queue'[i].version
               /\ inHand # None /\ inHand.section = queue'[i].section =>
                      inHand.version <= queue'[i].version
    <3>1. CASE i \in 1 .. n
          BY <1>5, <3>1 DEF KeptInv, InOrder
    <3>2. CASE i = n + 1
          BY <1>2, <1>5, <3>2 DEF AtMost
    <3>3. QED
          BY <1>5, <3>1, <3>2
  <2>2. ASSUME NEW i \in DOMAIN queue', NEW j \in DOMAIN queue',
               i < j, queue'[i].section = queue'[j].section
        PROVE  queue'[i].version <= queue'[j].version
    <3>1. CASE j \in 1 .. n
          BY <1>5, <2>2, <3>1 DEF KeptInv, InOrder
    <3>2. CASE j = n + 1
          BY <1>2, <1>5, <2>2, <3>2 DEF AtMost
    <3>3. QED
          BY <1>5, <3>1, <3>2
  <2>3. inHand # None /\ written[inHand.section] # None =>
            written[inHand.section] <= inHand.version
        BY DEF KeptInv, InOrder
  <2>4. QED
        BY <1>1, <2>1, <2>2, <2>3 DEF InOrder
<1>8. ASSUME NEW t \in scheduled, Current(p, t)'
      PROVE  written[t] = version[t] \/ OnItsWay(t)' \/ failed
  <2>1. t \in Sections
        BY GuideAssumption DEF GuideTyped, TypeOK
  <2>2. CASE Current(p, t)
    <3>1. written[t] = version[t] \/ OnItsWay(t) \/ failed
          BY <2>2 DEF KeptInv, RememberedIsKept
    <3>2. OnItsWay(t) => OnItsWay(t)'
          BY <1>1, <1>5 DEF OnItsWay
    <3>3. QED
          BY <3>1, <3>2
  <2>3. CASE ~Current(p, t)
    <3>1. t = s /\ v = version[t]
          BY <1>1, <1>4, <1>8, <2>1, <2>3 DEF Remember, Current, GuideTyped, TypeOK, s, v
    <3>2. QED
          BY <1>1, <1>2, <1>5, <3>1 DEF OnItsWay
  <2>4. QED
        BY <2>2, <2>3
<1>9. RememberedIsKept'
      BY <1>1, <1>8 DEF RememberedIsKept, OneProcessor
<1>10. QED
       BY <1>3, <1>6, <1>7, <1>9 DEF KeptInv, OneProcessor

(* The writing task takes the updates in their order.                      *)
LEMMA TakeKept ==
    ASSUME GuideTyped, KeptInv, TakeUpdate, UNCHANGED <<guideVars, failed>>
    PROVE  KeptInv'
<1> DEFINE n == Len(queue)
<1>1. /\ UNCHANGED <<rows, written, version, scheduled, memory, step, job, failed>>
      /\ inHand = None /\ inHand' = queue[1]
      BY DEF TakeUpdate, guideVars
<1>2. /\ queue \in Seq(Updates) /\ n \in Nat \ {0} /\ DOMAIN queue = 1 .. n
      BY DEF TakeUpdate, GuideTyped, TypeOK
<1>3. /\ DOMAIN queue' = 1 .. n - 1
      /\ \A i \in 1 .. n - 1 : queue'[i] = queue[i + 1]
      BY <1>2 DEF TakeUpdate
<1>4. inHand' # None
      BY <1>1, <1>2, UpdateVersions
<1> HIDE DEF n
<1>5. ASSUME NEW s, NEW v, AtMost(s, v)
      PROVE  /\ written[s] # None => written[s] <= v
             /\ queue[1].section = s => queue[1].version <= v
             /\ \A i \in 1 .. n - 1 : queue'[i].section = s => queue'[i].version <= v
      BY <1>2, <1>3, <1>5 DEF AtMost
<1>6. ASSUME NEW s \in Sections PROVE AtMost(s, version[s])'
      BY <1>1, <1>3, <1>5 DEF KeptInv, AtMost
<1>7. ASSUME NEW p \in Processors, Working(p)' PROVE AtMost(job[p].section, job[p].version)'
  <2>1. AtMost(job[p].section, job[p].version)
        BY <1>1, <1>7 DEF KeptInv, Working
  <2>2. PICK s, v : s = job[p].section /\ v = job[p].version
        OBVIOUS
  <2>3. s = job'[p].section /\ v = job'[p].version /\ AtMost(s, v)
        BY <1>1, <2>1, <2>2
  <2>4. AtMost(s, v)'
        BY <1>1, <1>3, <1>5, <2>3 DEF AtMost
  <2>5. QED
        BY <2>3, <2>4 DEF AtMost
<1>8. InOrder'
  <2>1. InOrder /\ 1 \in 1 .. n
        BY <1>2 DEF KeptInv
  <2>2. written[queue[1].section] # None => written[queue[1].section] <= queue[1].version
        BY <1>2, <2>1 DEF InOrder
  <2>3. ASSUME NEW i \in 1 .. n - 1
        PROVE  /\ written[queue'[i].section] # None =>
                      written[queue'[i].section] <= queue'[i].version
               /\ queue[1].section = queue'[i].section =>
                      queue[1].version <= queue'[i].version
               /\ \A j \in 1 .. n - 1 :
                      i < j /\ queue'[i].section = queue'[j].section =>
                          queue'[i].version <= queue'[j].version
    <3>1. i + 1 \in 1 .. n /\ 1 < i + 1
          BY <1>2
    <3>2. \A j \in 1 .. n - 1 : j + 1 \in 1 .. n /\ (i < j => i + 1 < j + 1)
          BY <1>2
    <3>3. QED
          BY <1>2, <1>3, <2>1, <3>1, <3>2 DEF InOrder
  <2>4. QED
        BY <1>1, <1>3, <2>2, <2>3 DEF InOrder
<1>9. ASSUME NEW t, OnItsWay(t) PROVE OnItsWay(t)'
  <2>1. PICK i \in 1 .. n : queue[i].section = t /\ queue[i].version = version[t]
        BY <1>1, <1>2, <1>9 DEF OnItsWay
  <2>2. CASE i = 1
        BY <1>1, <1>4, <2>1, <2>2 DEF OnItsWay
  <2>3. CASE i # 1
    <3>1. i - 1 \in 1 .. n - 1 /\ queue'[i - 1] = queue[i]
          BY <1>2, <1>3, <2>3
    <3>2. QED
          BY <1>1, <1>3, <2>1, <3>1 DEF OnItsWay
  <2>4. QED
        BY <2>2, <2>3
<1>10. RememberedIsKept'
       BY <1>1, <1>9 DEF KeptInv, RememberedIsKept, Current
<1>11. QED
       BY <1>6, <1>7, <1>8, <1>10 DEF KeptInv

(* What is committed is not older than what was, and what comes not older  *)
(* than what is.                                                           *)
LEMMA CommitKept ==
    ASSUME GuideTyped, KeptInv, Commit, UNCHANGED <<guideVars, failed>>
    PROVE  KeptInv'
<1> DEFINE h == inHand.section
<1>1. /\ UNCHANGED <<queue, version, scheduled, memory, step, job, failed>>
      /\ inHand # None /\ inHand' = None
      BY DEF Commit, guideVars
<1>2. h \in Sections /\ inHand.version \in Int
      BY <1>1, StoreVersions
<1>3. /\ written'[h] = inHand.version
      /\ \A t \in Sections : t # h => written'[t] = written[t]
      BY <1>2 DEF Commit, GuideTyped, TypeOK
<1> HIDE DEF h
<1>4. ASSUME NEW s \in Sections, NEW v, AtMost(s, v)
      PROVE  written'[s] # None => written'[s] <= v
      BY <1>1, <1>3, <1>4 DEF AtMost, h
<1>5. ASSUME NEW s \in Sections PROVE AtMost(s, version[s])'
  <2>1. AtMost(s, version[s])
        BY DEF KeptInv
  <2>2. QED
        BY <1>1, <1>4, <2>1 DEF AtMost
<1>6. ASSUME NEW p \in Processors, Working(p)' PROVE AtMost(job[p].section, job[p].version)'
  <2>1. Working(p)
        BY <1>1, <1>6 DEF Working
  <2>2. AtMost(job[p].section, job[p].version) /\ job[p].section \in Sections
        BY <2>1, JobVersions DEF KeptInv
  <2>3. QED
        BY <1>1, <1>4, <2>2 DEF AtMost
<1>7. InOrder'
  <2>1. ASSUME NEW i \in DOMAIN queue
        PROVE  written'[queue[i].section] # None =>
                   written'[queue[i].section] <= queue[i].version
    <3>1. CASE queue[i].section = h
          BY <1>1, <1>3, <3>1 DEF KeptInv, InOrder, h
    <3>2. CASE queue[i].section # h
          BY <1>3, <3>2, StoreVersions DEF KeptInv, InOrder
    <3>3. QED
          BY <3>1, <3>2
  <2>2. QED
        BY <1>1, <2>1 DEF KeptInv, InOrder
<1>8. ASSUME NEW t \in Sections, written[t] = version[t] PROVE written'[t] = version[t]
  <2>1. CASE t = h
    <3>1. version[t] \in Int /\ written[t] # None
          BY <1>8, StoreAssumption, NoneAssumption DEF GuideTyped, TypeOK, Versions
    <3>2. written[t] <= inHand.version /\ inHand.version <= version[t]
          BY <1>1, <2>1, <3>1 DEF KeptInv, InOrder, AtMost, h
    <3>3. QED
          BY <1>2, <1>3, <1>8, <2>1, <3>1, <3>2
  <2>2. CASE t # h
        BY <1>3, <1>8, <2>2
  <2>3. QED
        BY <2>1, <2>2
<1>9. ASSUME NEW t \in Sections, OnItsWay(t)
      PROVE  OnItsWay(t)' \/ written'[t] = version[t]
  <2>1. CASE \E i \in DOMAIN queue : queue[i].section = t /\ queue[i].version = version[t]
        BY <1>1, <2>1 DEF OnItsWay
  <2>2. CASE inHand # None /\ inHand.section = t /\ inHand.version = version[t]
        BY <1>3, <2>2 DEF h
  <2>3. QED
        BY <1>9, <2>1, <2>2 DEF OnItsWay
<1>10. RememberedIsKept'
  <2>1. scheduled \subseteq Sections
        BY GuideAssumption DEF GuideTyped, TypeOK
  <2>2. QED
        BY <1>1, <1>8, <1>9, <2>1 DEF KeptInv, RememberedIsKept, Current
<1>11. QED
       BY <1>5, <1>6, <1>7, <1>10 DEF KeptInv

(* A failed transaction is the excuse of RememberedIsKept.                 *)
LEMMA FailWriteKept ==
    ASSUME GuideTyped, KeptInv, FailWrite
    PROVE  KeptInv'
<1>1. /\ UNCHANGED <<queue, written, version, scheduled, memory, step, job>>
      /\ inHand' = None /\ failed'
      BY DEF FailWrite, WriteFails, guideVars
<1>2. \A s \in Sections : AtMost(s, version[s])'
      BY <1>1 DEF KeptInv, AtMost
<1>3. ASSUME NEW p \in Processors, Working(p)' PROVE AtMost(job[p].section, job[p].version)'
      BY <1>1, <1>3 DEF KeptInv, AtMost, Working
<1>4. InOrder'
      BY <1>1 DEF KeptInv, InOrder
<1>5. RememberedIsKept'
      BY <1>1 DEF RememberedIsKept
<1>6. QED
      BY <1>2, <1>3, <1>4, <1>5 DEF KeptInv

LEMMA StreamKept ==
    ASSUME OneProcessor, GuideTyped, KeptInv, NEW p \in Processors, StartStream(p) \/ EndStream(p)
    PROVE  KeptInv'
<1>1. UNCHANGED <<queue, inHand, rows, written, version, scheduled, failed>> /\ ~Working(p)'
      BY DEF StartStream, EndStream, Forget, storeVars, broadcast, GuideTyped, TypeOK, Working
<1>2. \A s \in Sections : memory'[p][s] = memory[p][s] \/ memory'[p][s] = None
      BY DEF StartStream, EndStream, Forget
<1>3. scheduled \subseteq Sections
      BY GuideAssumption DEF GuideTyped, TypeOK
<1>4. \A s \in Sections : Current(p, s)' => Current(p, s)
      BY <1>1, <1>2, VersionsAreNumbers DEF Current
<1>5. RememberedIsKept'
      BY <1>1, <1>3, <1>4 DEF KeptInv, RememberedIsKept, OnItsWay, OneProcessor
<1>6. \A s \in Sections : AtMost(s, version[s])'
      BY <1>1 DEF KeptInv, AtMost
<1>7. InOrder'
      BY <1>1 DEF KeptInv, InOrder
<1>8. QED
      BY <1>1, <1>5, <1>6, <1>7 DEF KeptInv, OneProcessor

(* A restart loses the queue, and the memory of what was queued with it.   *)
LEMMA RestartKept ==
    ASSUME GuideTyped, KeptInv, Restart
    PROVE  KeptInv'
<1>1. queue' = <<>> /\ inHand' = None /\ UNCHANGED <<written, version, scheduled>>
      BY DEF Restart, LoseUpdates, Forget, broadcast
<1>2. \A s \in Sections : AtMost(s, version[s])'
      BY <1>1 DEF KeptInv, AtMost
<1>3. InOrder'
      BY <1>1 DEF InOrder
<1>4. scheduled \subseteq Sections
      BY GuideAssumption DEF GuideTyped, TypeOK
<1>5. RememberedIsKept'
      BY <1>1, <1>4, RestartForgets DEF RememberedIsKept
<1>6. QED
      BY <1>2, <1>3, <1>5, RestartForgets DEF KeptInv

LEMMA ProcessKept ==
    ASSUME OneProcessor, GuideTyped, Progress, KeptInv, NEW p \in Processors,
           FindService(p) \/ ProcessStep(p)
    PROVE  KeptInv'
<1>1. CASE FindService(p) \/ InsertService(p) \/ GiveUp(p) \/ RefuseSection(p)
  <2>1. /\ UNCHANGED <<storeVars, version, scheduled, memory, failed>>
        /\ step'[p] \in {"learning", "idle"}
        BY <1>1 DEF FindService, InsertService, GiveUp, RefuseSection, Finish, broadcast,
                    GuideTyped, TypeOK
  <2>2. QED
        BY <2>1, KeptUnlessTouched DEF OneProcessor, Working
<1>2. ASSUME NEW e \in Events, FindEvent(p, e) \/ DropEvent(p, e)
      PROVE  KeptInv'
  <2>1. UNCHANGED <<storeVars, version, scheduled, memory, failed, job>> /\ Working(p)
        BY <1>2 DEF FindEvent, DropEvent, broadcast, Working
  <2>2. QED
        BY <2>1, KeptUnlessTouched DEF OneProcessor
<1>3. ASSUME InsertEvent(p) \/ ReadBack(p) PROVE KeptInv'
  <2>1. UNCHANGED <<storeVars, version, scheduled, memory, failed, job>> /\ Working(p)
        BY <1>3 DEF InsertEvent, ReadBack, AllPut, broadcast, Working
  <2>2. QED
        BY <2>1, KeptUnlessTouched DEF OneProcessor
<1>4. QED
      BY <1>1, <1>2, <1>3, KeepInMemoryKept, QueueSectionKept DEF ProcessStep

LEMMA NextKept ==
    ASSUME OneProcessor, GuideTyped, Progress, KeptInv, [Next]_vars
    PROVE  KeptInv'
<1>1. ASSUME NEW p \in Processors, StartStream(p) \/ EndStream(p) PROVE KeptInv'
      BY <1>1, StreamKept
<1>2. ASSUME NEW p \in Processors, FindService(p) \/ ProcessStep(p) PROVE KeptInv'
      BY <1>2, ProcessKept
<1>3. ASSUME NEW p \in Processors, NEW s \in Sections, Receive(p, s) PROVE KeptInv'
      BY <1>3, ReceiveKept
<1>4. ASSUME WriterStep PROVE KeptInv'
      BY <1>4, TakeKept, CommitKept DEF WriterStep
<1>5. ASSUME UNCHANGED vars PROVE KeptInv'
      BY <1>5, KeptUnlessTouched DEF vars, guideVars, Working
<1>6. QED
      BY <1>1, <1>2, <1>3, <1>4, <1>5, ReviseKept, FailWriteKept, RestartKept DEF Next

-----------------------------------------------------------------------------
(* One processor: what is written of a section lists what is on air, and   *)
(* nothing that comes later takes its events away.                         *)

LEMMA ListedUnlessTouched ==
    ASSUME ListedInv, UNCHANGED <<storeVars, version, aired>>,
           \A p \in Processors :
               /\ Working(p)' => Working(p) /\ job'[p] = job[p]
               /\ step'[p] = "queueing" => step[p] = "queueing" /\ base'[p] = base[p]
    PROVE  ListedInv'
<1>1. UNCHANGED <<queue, inHand, rows, written>>
      BY DEF storeVars
<1>2. /\ inHand' # None => Faithful(inHand)'
      /\ \A i \in DOMAIN queue' : Faithful(queue[i])'
      BY <1>1 DEF ListedInv, Faithful
<1>3. \A p \in Processors : step'[p] = "queueing" => DOMAIN base'[p].listed = job'[p].listed
      BY DEF ListedInv, Working
<1>4. \A s \in Sections : Settled(s)' => \A e \in aired'[s] : rows'[e] # None /\ rows'[e].section = s
      BY <1>1 DEF ListedInv, Settled
<1>5. Following'
      BY <1>1 DEF ListedInv, Following, Settled, InHandIs, Queued, OnItsWay, Spares
<1>6. QED
      BY <1>2, <1>3, <1>4, <1>5 DEF ListedInv

(* A revised section is not settled any more, nor on its way.              *)
LEMMA ReviseListed ==
    ASSUME GuideTyped, KeptInv, ListedInv, NEW s \in Sections, Revise(s)
    PROVE  ListedInv'
<1>1. /\ UNCHANGED <<queue, inHand, rows, written, step, job, base>>
      /\ \A u \in Sections \ {s} : aired'[u] = aired[u] /\ version'[u] = version[u]
      /\ version'[s] = version[s] + 1
      BY DEF Revise, storeVars, processing, GuideTyped, TypeOK
<1>2. AtMost(s, version[s]) /\ version[s] \in Int /\ version'[s] \in Int /\ version'[s] # None
      BY <1>1, StoreAssumption, NoneAssumption DEF KeptInv, Revise, GuideTyped, TypeOK, Versions
<1>3. written[s] # version'[s]
      BY <1>1, <1>2 DEF AtMost
<1>4. inHand # None /\ inHand.section = s => inHand.version # version'[s]
      BY <1>1, <1>2, StoreVersions DEF AtMost
<1>5. \A i \in DOMAIN queue : queue[i].section = s => queue[i].version # version'[s]
      BY <1>1, <1>2, StoreVersions DEF AtMost
<1>6. ASSUME NEW t \in Sections
      PROVE  /\ Settled(t)' => t # s /\ Settled(t)
             /\ InHandIs(t)' => t # s /\ InHandIs(t)
             /\ \A i \in DOMAIN queue : Queued(i, t)' => t # s /\ Queued(i, t)
             /\ OnItsWay(t)' => t # s /\ OnItsWay(t)
      BY <1>1, <1>3, <1>4, <1>5 DEF Settled, InHandIs, Queued, OnItsWay
<1>7. inHand' # None => Faithful(inHand)'
      BY <1>1, <1>4, StoreVersions DEF ListedInv, Faithful
<1>8. \A i \in DOMAIN queue' : Faithful(queue[i])'
      BY <1>1, <1>5, StoreVersions DEF ListedInv, Faithful
<1>9. \A p \in Processors : step'[p] = "queueing" => DOMAIN base'[p].listed = job'[p].listed
      BY <1>1 DEF ListedInv
<1>10. \A t \in Sections : Settled(t)' => \A e \in aired'[t] : rows'[e] # None /\ rows'[e].section = t
      BY <1>1, <1>6 DEF ListedInv
<1>11. ASSUME NEW t \in Sections, Settled(t)', inHand # None
       PROVE  Spares(inHand.section, DOMAIN inHand.listed, t)'
  <2>1. t # s /\ Spares(inHand.section, DOMAIN inHand.listed, t)
        BY <1>6, <1>11 DEF ListedInv, Following
  <2>2. QED
        BY <1>1, <2>1 DEF Spares
<1>12. ASSUME NEW t \in Sections, NEW j \in DOMAIN queue,
              Settled(t)' \/ InHandIs(t)' \/ \E i \in DOMAIN queue : i < j /\ Queued(i, t)'
       PROVE  Spares(queue[j].section, DOMAIN queue[j].listed, t)'
  <2>1. t # s /\ (Settled(t) \/ InHandIs(t) \/ \E i \in DOMAIN queue : i < j /\ Queued(i, t))
        BY <1>6, <1>12
  <2>2. Spares(queue[j].section, DOMAIN queue[j].listed, t)
        BY <1>12, <2>1 DEF ListedInv, Following
  <2>3. QED
        BY <1>1, <2>1, <2>2 DEF Spares
<1>13. ASSUME NEW t \in Sections, NEW p \in Processors, Working(p)', Settled(t)' \/ OnItsWay(t)'
       PROVE  Spares(job[p].section, job[p].listed, t)'
  <2>1. t # s /\ (Settled(t) \/ OnItsWay(t)) /\ Working(p)
        BY <1>1, <1>6, <1>13 DEF Working
  <2>2. Spares(job[p].section, job[p].listed, t)
        BY <1>13, <2>1 DEF ListedInv, Following
  <2>3. QED
        BY <1>1, <2>1, <2>2 DEF Spares
<1>14. Following'
       BY <1>1, <1>11, <1>12, <1>13 DEF Following
<1>15. QED
       BY <1>7, <1>8, <1>9, <1>10, <1>14 DEF ListedInv

(* A section that arrives lists no event of another one on air.            *)
LEMMA ReceiveListed ==
    ASSUME OneProcessor, ListedOnce, GuideTyped, ListedInv,
           NEW p \in Processors, NEW s \in Sections, Receive(p, s)
    PROVE  ListedInv'
<1>1. UNCHANGED <<queue, inHand, rows, written, version, aired>>
      BY DEF Receive, storeVars, broadcast
<1>2. step'[p] = "putting" /\ job'[p].section = s /\ job'[p].listed = aired[s]
      BY DEF Receive, GuideTyped, TypeOK
<1>3. ASSUME NEW t \in Sections PROVE Spares(job'[p].section, job'[p].listed, t)
      BY <1>2 DEF Spares, ListedOnce, GuideTyped, TypeOK
<1>4. Following'
      BY <1>1, <1>3
         DEF ListedInv, Following, Settled, InHandIs, Queued, OnItsWay, Spares, OneProcessor
<1>5. /\ inHand' # None => Faithful(inHand)'
      /\ \A i \in DOMAIN queue' : Faithful(queue[i])'
      BY <1>1 DEF ListedInv, Faithful
<1>6. \A q \in Processors : step'[q] # "queueing"
      BY <1>2 DEF OneProcessor
<1>7. \A t \in Sections : Settled(t)' => \A e \in aired'[t] : rows'[e] # None /\ rows'[e].section = t
      BY <1>1 DEF ListedInv, Settled
<1>8. QED
      BY <1>4, <1>5, <1>6, <1>7 DEF ListedInv

(* Every event of a section that was put without loss is read back.        *)
LEMMA ReadBackListed ==
    ASSUME OneProcessor, GuideTyped, HeldInv, ListedInv, NEW p \in Processors, ReadBack(p)
    PROVE  ListedInv'
<1> DEFINE found == {e \in job[p].listed : catalog # None /\ maps[catalog][e] # None}
<1>1. /\ UNCHANGED <<queue, inHand, rows, written, version, aired, job>>
      /\ Working(p) /\ complete[p] /\ todo[p] = {}
      BY DEF ReadBack, AllPut, storeVars, broadcast, Working
<1>2. DOMAIN base'[p].listed = found
      BY DEF ReadBack, GuideTyped, TypeOK
<1>3. found = job[p].listed
      BY <1>1 DEF HeldInv, PutIsHeld, Held
<1> HIDE DEF found
<1>4. \A q \in Processors : DOMAIN base'[q].listed = job'[q].listed
      BY <1>1, <1>2, <1>3 DEF OneProcessor
<1>5. Following'
      BY <1>1
         DEF ListedInv, Following, Settled, InHandIs, Queued, OnItsWay, Spares, OneProcessor
<1>6. /\ inHand' # None => Faithful(inHand)'
      /\ \A i \in DOMAIN queue' : Faithful(queue[i])'
      BY <1>1 DEF ListedInv, Faithful
<1>7. \A t \in Sections : Settled(t)' => \A e \in aired'[t] : rows'[e] # None /\ rows'[e].section = t
      BY <1>1 DEF ListedInv, Settled
<1>8. QED
      BY <1>4, <1>5, <1>6, <1>7 DEF ListedInv

LEMMA QueueSectionListed ==
    ASSUME OneProcessor, GuideTyped, Progress, ListedInv, NEW p \in Processors, QueueSection(p)
    PROVE  ListedInv'
<1> DEFINE n == Len(queue)
<1>1. /\ queue' = Append(queue, base[p])
      /\ UNCHANGED <<inHand, rows, written, version, aired>>
      BY DEF QueueSection, Enqueue, broadcast
<1>2. /\ Working(p) /\ JobIsNews(p) /\ base[p].section = job[p].section
      /\ base[p].version = job[p].version /\ DOMAIN base[p].listed = job[p].listed
      BY DEF QueueSection, Progress, LookupHolds, ListedInv, Working
<1>3. /\ ~Working(p)' /\ step'[p] # "queueing"
      BY DEF QueueSection, Finish, GuideTyped, TypeOK, Working
<1>4. base[p] \in Updates
      BY DEF QueueSection, GuideTyped, StepTyped
<1>5. /\ n \in Nat /\ DOMAIN queue = 1 .. n /\ DOMAIN queue' = 1 .. n + 1
      /\ \A i \in 1 .. n : queue'[i] = queue[i]
      /\ queue'[n + 1] = base[p]
      BY <1>1, <1>4 DEF GuideTyped, TypeOK
<1> HIDE DEF n
<1>6. inHand' # None => Faithful(inHand)'
      BY <1>1 DEF ListedInv, Faithful
<1>7. ASSUME NEW i \in DOMAIN queue' PROVE Faithful(queue[i])'
  <2>1. CASE i \in 1 .. n
        BY <1>1, <1>5, <2>1 DEF ListedInv, Faithful
  <2>2. CASE i = n + 1
        BY <1>1, <1>2, <1>5, <2>2 DEF Faithful, JobIsNews
  <2>3. QED
        BY <1>5, <2>1, <2>2
<1>8. \A t \in Sections : Settled(t)' => \A e \in aired'[t] : rows'[e] # None /\ rows'[e].section = t
      BY <1>1 DEF ListedInv, Settled
<1>9. ASSUME NEW t \in Sections, NEW j \in DOMAIN queue',
             Settled(t)' \/ InHandIs(t)' \/ \E i \in DOMAIN queue' : i < j /\ Queued(i, t)'
      PROVE  Spares(queue'[j].section, DOMAIN queue'[j].listed, t)
  <2>1. Settled(t) \/ InHandIs(t) \/ \E i \in 1 .. n : i < j /\ Queued(i, t)
        BY <1>1, <1>5, <1>9 DEF Settled, InHandIs, Queued
  <2>2. CASE j \in 1 .. n
        BY <1>5, <2>1, <2>2 DEF ListedInv, Following
  <2>3. CASE j = n + 1
    <3>1. Settled(t) \/ OnItsWay(t)
          BY <1>5, <2>1 DEF OnItsWay, InHandIs, Queued
    <3>2. Spares(job[p].section, job[p].listed, t)
          BY <1>2, <3>1 DEF ListedInv, Following
    <3>3. QED
          BY <1>2, <1>5, <2>3, <3>2
  <2>4. QED
        BY <1>5, <2>2, <2>3
<1>10. Following'
  <2>1. ASSUME NEW t \in Sections
        PROVE  Settled(t)' /\ inHand' # None => Spares(inHand.section, DOMAIN inHand.listed, t)'
        BY <1>1 DEF ListedInv, Following, Settled, Spares
  <2>2. ASSUME NEW t \in Sections, NEW j \in DOMAIN queue',
               Settled(t)' \/ InHandIs(t)' \/ \E i \in DOMAIN queue' : i < j /\ Queued(i, t)'
        PROVE  Spares(queue[j].section, DOMAIN queue[j].listed, t)'
        BY <1>1, <1>9, <2>2 DEF Spares
  <2>3. \A q \in Processors : ~Working(q)'
        BY <1>3 DEF OneProcessor
  <2>4. QED
        BY <2>1, <2>2, <2>3 DEF Following
<1>11. QED
       BY <1>3, <1>6, <1>7, <1>8, <1>10 DEF ListedInv, OneProcessor

LEMMA TakeListed ==
    ASSUME GuideTyped, ListedInv, TakeUpdate, UNCHANGED guideVars
    PROVE  ListedInv'
<1> DEFINE n == Len(queue)
<1>1. /\ UNCHANGED <<rows, written, version, aired, step, job, base>>
      /\ inHand = None /\ inHand' = queue[1]
      BY DEF TakeUpdate, guideVars
<1>2. /\ queue \in Seq(Updates) /\ n \in Nat \ {0} /\ DOMAIN queue = 1 .. n
      BY DEF TakeUpdate, GuideTyped, TypeOK
<1>3. /\ DOMAIN queue' = 1 .. n - 1
      /\ \A i \in 1 .. n - 1 : queue'[i] = queue[i + 1]
      BY <1>2 DEF TakeUpdate
<1> HIDE DEF n
<1>4. 1 \in DOMAIN queue /\ \A i \in 1 .. n - 1 : i + 1 \in DOMAIN queue /\ 1 < i + 1
      BY <1>2
<1>5. ASSUME NEW t \in Sections
      PROVE  /\ Settled(t)' => Settled(t)
             /\ InHandIs(t)' => Queued(1, t)
             /\ \A i \in 1 .. n - 1 : Queued(i, t)' => Queued(i + 1, t)
             /\ OnItsWay(t)' => OnItsWay(t)
  <2>1. Settled(t)' => Settled(t)
        BY <1>1 DEF Settled
  <2>2. InHandIs(t)' => Queued(1, t)
        BY <1>1 DEF InHandIs, Queued
  <2>3. \A i \in 1 .. n - 1 : Queued(i, t)' => Queued(i + 1, t)
        BY <1>1, <1>3 DEF Queued
  <2>4. OnItsWay(t)' => OnItsWay(t)
        BY <1>1, <1>3, <1>4 DEF OnItsWay
  <2>5. QED
        BY <2>1, <2>2, <2>3, <2>4
<1>6. Faithful(inHand)' /\ \A i \in DOMAIN queue' : Faithful(queue[i])'
      BY <1>1, <1>3, <1>4 DEF ListedInv, Faithful
<1>7. \A t \in Sections : Settled(t)' => \A e \in aired'[t] : rows'[e] # None /\ rows'[e].section = t
      BY <1>1, <1>5 DEF ListedInv
<1>8. \A p \in Processors : step'[p] = "queueing" => DOMAIN base'[p].listed = job'[p].listed
      BY <1>1 DEF ListedInv
<1>9. ASSUME NEW t \in Sections, Settled(t)'
      PROVE  Spares(inHand.section, DOMAIN inHand.listed, t)'
      BY <1>1, <1>4, <1>5, <1>9 DEF ListedInv, Following, Spares
<1>10. ASSUME NEW t \in Sections, NEW j \in 1 .. n - 1,
              Settled(t)' \/ InHandIs(t)' \/ \E i \in 1 .. n - 1 : i < j /\ Queued(i, t)'
       PROVE  Spares(queue[j].section, DOMAIN queue[j].listed, t)'
  <2>1. Settled(t) \/ \E i \in DOMAIN queue : i < j + 1 /\ Queued(i, t)
    <3>1. ASSUME NEW i \in 1 .. n - 1, i < j, Queued(i, t)'
          PROVE  \E k \in DOMAIN queue : k < j + 1 /\ Queued(k, t)
      <4>1. i + 1 \in DOMAIN queue /\ i + 1 < j + 1 /\ Queued(i + 1, t)
            BY <1>2, <1>4, <1>5, <3>1
      <4>2. QED
            BY <4>1
    <3>2. QED
          BY <1>4, <1>5, <1>10, <3>1
  <2>2. Spares(queue[j + 1].section, DOMAIN queue[j + 1].listed, t)
        BY <1>4, <2>1 DEF ListedInv, Following
  <2>3. QED
        BY <1>1, <1>3, <2>2 DEF Spares
<1>11. ASSUME NEW t \in Sections, NEW p \in Processors, Working(p)', Settled(t)' \/ OnItsWay(t)'
       PROVE  Spares(job[p].section, job[p].listed, t)'
       BY <1>1, <1>5, <1>11 DEF ListedInv, Following, Working, Spares
<1>12. Following'
       BY <1>3, <1>9, <1>10, <1>11 DEF Following
<1>13. QED
       BY <1>6, <1>7, <1>8, <1>12 DEF ListedInv

(* A committed section has the rows of its events, and spares the others'. *)
LEMMA CommitListed ==
    ASSUME GuideTyped, ListedInv, Commit, UNCHANGED guideVars
    PROVE  ListedInv'
<1> DEFINE h == inHand.section
<1>1. /\ UNCHANGED <<queue, version, aired, step, job, base>>
      /\ inHand # None /\ inHand' = None /\ ReplaceSection(h, inHand.listed)
      /\ written' = [written EXCEPT ![h] = inHand.version]
      BY DEF Commit, guideVars
<1>2. h \in Sections
      BY <1>1, StoreVersions
<1> HIDE DEF h
<1>3. ASSUME NEW t \in Sections, Settled(t)'
      PROVE  \/ t = h /\ InHandIs(t)
             \/ t # h /\ Settled(t)
      BY <1>1, <1>2, <1>3 DEF Settled, InHandIs, GuideTyped, TypeOK, h
<1>4. ASSUME NEW t \in Sections, OnItsWay(t)' PROVE OnItsWay(t)
      BY <1>1, <1>4 DEF OnItsWay
<1>5. ASSUME NEW t \in Sections, Settled(t)', NEW e \in aired[t]
      PROVE  rows'[e] # None /\ rows'[e].section = t
  <2>1. e \in Events
        BY GuideAssumption DEF GuideTyped, TypeOK
  <2>2. rows'[e] = IF e \in DOMAIN inHand.listed THEN [section |-> h, content |-> inHand.listed[e]]
                   ELSE IF e \in FiledUnder(h) THEN None
                   ELSE rows[e]
        BY <1>1, <2>1 DEF ReplaceSection
  <2>3. CASE t = h /\ InHandIs(t)
    <3>1. e \in DOMAIN inHand.listed
          BY <1>1, <2>3 DEF ListedInv, Faithful, InHandIs
    <3>2. rows'[e] = [section |-> h, content |-> inHand.listed[e]]
          BY <2>2, <3>1
    <3>3. rows'[e] # None
      <4>1. rows'[e] \in [section : Sections, content : Contents]
        <5>1. inHand \in Updates
              BY <1>1 DEF GuideTyped, TypeOK
        <5>2. PICK L \in SUBSET Events : inHand.listed \in [L -> Contents]
              BY <5>1 DEF Updates
        <5>3. inHand.listed[e] \in Contents
              BY <3>1, <5>2
        <5>4. QED
              BY <1>2, <3>2, <5>3
      <4>2. QED
            BY <4>1, NoneAssumption
    <3>4. QED
          BY <2>3, <3>2, <3>3
  <2>4. CASE t # h /\ Settled(t)
    <3>1. rows[e] # None /\ rows[e].section = t
          BY <1>5, <2>4 DEF ListedInv
    <3>2. e \notin DOMAIN inHand.listed
          BY <1>1, <1>5, <2>4 DEF ListedInv, Following, Spares, h
    <3>3. e \notin FiledUnder(h)
          BY <2>4, <3>1 DEF FiledUnder
    <3>4. QED
          BY <2>2, <3>1, <3>2, <3>3
  <2>5. QED
        BY <1>3, <1>5, <2>3, <2>4
<1>6. \A i \in DOMAIN queue' : Faithful(queue[i])'
      BY <1>1 DEF ListedInv, Faithful
<1>7. ASSUME NEW t \in Sections, NEW j \in DOMAIN queue',
             Settled(t)' \/ InHandIs(t)' \/ \E i \in DOMAIN queue' : i < j /\ Queued(i, t)'
      PROVE  Spares(queue[j].section, DOMAIN queue[j].listed, t)'
  <2>1. Settled(t) \/ InHandIs(t) \/ \E i \in DOMAIN queue : i < j /\ Queued(i, t)
        BY <1>1, <1>3, <1>7 DEF InHandIs, Queued
  <2>2. QED
        BY <1>1, <1>7, <2>1 DEF ListedInv, Following, Spares
<1>8. ASSUME NEW t \in Sections, NEW p \in Processors, Working(p)', Settled(t)' \/ OnItsWay(t)'
      PROVE  Spares(job[p].section, job[p].listed, t)'
  <2>1. Settled(t) \/ OnItsWay(t)
        BY <1>3, <1>4, <1>8 DEF InHandIs, OnItsWay
  <2>2. QED
        BY <1>1, <1>8, <2>1 DEF ListedInv, Following, Working, Spares
<1>9. Following'
      BY <1>1, <1>7, <1>8 DEF Following
<1>10. \A p \in Processors : step'[p] = "queueing" => DOMAIN base'[p].listed = job'[p].listed
       BY <1>1 DEF ListedInv
<1>11. QED
       BY <1>1, <1>5, <1>6, <1>9, <1>10 DEF ListedInv

LEMMA FailWriteListed ==
    ASSUME ListedInv, FailWrite
    PROVE  ListedInv'
<1>1. /\ UNCHANGED <<queue, rows, written, version, aired, step, job, base>>
      /\ inHand' = None
      BY DEF FailWrite, WriteFails, guideVars
<1>2. Following'
      BY <1>1 DEF ListedInv, Following, Settled, InHandIs, Queued, OnItsWay, Spares, Working
<1>3. QED
      BY <1>1, <1>2 DEF ListedInv, Faithful, Settled

(* The database is what it was: written and its rows survive together.     *)
LEMMA RestartListed ==
    ASSUME GuideTyped, ListedInv, Restart
    PROVE  ListedInv'
<1>1. /\ queue' = <<>> /\ inHand' = None /\ UNCHANGED <<rows, written, version, aired>>
      /\ \A p \in Processors : step'[p] = "off" /\ ~Working(p)'
      BY DEF Restart, LoseUpdates, Forget, broadcast, Working
<1>2. DOMAIN queue' = {}
      BY <1>1
<1>3. Following'
      BY <1>1, <1>2 DEF Following
<1>4. QED
      BY <1>1, <1>2, <1>3 DEF ListedInv, Settled

LEMMA ProcessListed ==
    ASSUME OneProcessor, GuideTyped, Progress, HeldInv, ListedInv, NEW p \in Processors,
           FindService(p) \/ ProcessStep(p)
    PROVE  ListedInv'
<1>1. CASE FindService(p) \/ InsertService(p) \/ GiveUp(p) \/ KeepInMemory(p) \/ RefuseSection(p)
  <2>1. /\ UNCHANGED <<storeVars, version, aired>>
        /\ step'[p] \in {"learning", "idle"}
        BY <1>1 DEF FindService, InsertService, GiveUp, KeepInMemory, RefuseSection, Finish,
                    broadcast, GuideTyped, TypeOK
  <2>2. QED
        BY <2>1, ListedUnlessTouched DEF OneProcessor, Working
<1>2. ASSUME NEW e \in Events, FindEvent(p, e) \/ DropEvent(p, e) PROVE ListedInv'
  <2>1. /\ UNCHANGED <<storeVars, version, aired, job>> /\ Working(p)
        /\ step'[p] # "queueing"
        BY <1>2 DEF FindEvent, DropEvent, broadcast, Working, GuideTyped, TypeOK
  <2>2. QED
        BY <2>1, ListedUnlessTouched DEF OneProcessor
<1>3. ASSUME InsertEvent(p) PROVE ListedInv'
  <2>1. /\ UNCHANGED <<storeVars, version, aired, job>> /\ Working(p)
        /\ step'[p] # "queueing"
        BY <1>3 DEF InsertEvent, broadcast, Working, GuideTyped, TypeOK
  <2>2. QED
        BY <2>1, ListedUnlessTouched DEF OneProcessor
<1>4. QED
      BY <1>1, <1>2, <1>3, ReadBackListed, QueueSectionListed DEF ProcessStep

LEMMA NextListed ==
    ASSUME OneProcessor, ListedOnce, GuideTyped, Progress, HeldInv, KeptInv, ListedInv,
           [Next]_vars
    PROVE  ListedInv'
<1>1. ASSUME NEW p \in Processors, StartStream(p) \/ EndStream(p) PROVE ListedInv'
  <2>1. UNCHANGED <<storeVars, version, aired>> /\ step'[p] \in {"idle", "off"}
        BY <1>1 DEF StartStream, EndStream, Forget, broadcast, GuideTyped, TypeOK
  <2>2. QED
        BY <2>1, ListedUnlessTouched DEF OneProcessor, Working
<1>2. ASSUME NEW p \in Processors, FindService(p) \/ ProcessStep(p) PROVE ListedInv'
      BY <1>2, ProcessListed
<1>3. ASSUME NEW p \in Processors, NEW s \in Sections, Receive(p, s) PROVE ListedInv'
      BY <1>3, ReceiveListed
<1>4. ASSUME WriterStep PROVE ListedInv'
      BY <1>4, TakeListed, CommitListed DEF WriterStep
<1>5. ASSUME UNCHANGED vars PROVE ListedInv'
      BY <1>5, ListedUnlessTouched DEF vars, guideVars, Working
<1>6. QED
      BY <1>1, <1>2, <1>3, <1>4, <1>5, ReviseListed, FailWriteListed, RestartListed DEF Next

-----------------------------------------------------------------------------
LEMMA OneInitially ==
    ASSUME Init
    PROVE  OneInv
<1>1. GuideTyped
      BY TypedInitially
<1>2. ASSUME NEW p \in Processors
      PROVE  ~Working(p) /\ LookupHolds(p) /\ MemoryBehind(p)
      BY DEF Init, Working, LookupHolds, MemoryBehind
<1>3. ASSUME NEW p \in Processors, NEW s \in Sections PROVE ~Current(p, s)
      BY <1>1, VersionsAreNumbers DEF Init, Current
<1>4. scheduled \subseteq Sections
      BY <1>1, GuideAssumption DEF GuideTyped, TypeOK
<1>5. DOMAIN queue = {} /\ inHand = None /\ \A s \in Sections : written[s] = None
  <2>1. queue = <<>> /\ inHand = None /\ \A s \in Sections : written[s] = None
        BY DEF Init, StoreInit
  <2>2. DOMAIN queue = {}
        BY <2>1
  <2>3. QED
        BY <2>1, <2>2
<1>6. InOrder /\ \A s \in Sections : AtMost(s, version[s])
      BY <1>5 DEF AtMost, InOrder
<1>7. ListedInv
  <2>1. \A s \in Sections : ~Settled(s)
        BY <1>1, <1>5, VersionsOnAir DEF Settled
  <2>2. \A p \in Processors : step[p] # "queueing"
        BY <1>2 DEF Working
  <2>3. QED
        BY <1>2, <1>5, <2>1, <2>2 DEF ListedInv, Following
<1>8. QED
      BY <1>2, <1>3, <1>4, <1>6, <1>7
         DEF OneInv, Progress, HeldInv, RememberedIsHeld, KeptInv, RememberedIsKept

LEMMA OneStep ==
    GuideTyped /\ (OneProcessor => OneInv) /\ [Next]_vars => (OneProcessor => OneInv)'
<1>1. SUFFICES ASSUME GuideTyped, OneProcessor, OneInv, [Next]_vars PROVE OneInv'
      BY DEF OneProcessor
<1>2. Progress' /\ KeptInv'
      BY <1>1, NextProgress, NextKept DEF OneInv
<1>3. (Apart => HeldInv)'
      BY <1>1, NextHeld DEF OneInv, Apart
<1>4. (ListedOnce => ListedInv)'
  <2>1. ListedOnce => Apart
        BY DEF ListedOnce, Apart
  <2>2. QED
        BY <1>1, <2>1, NextListed DEF OneInv, ListedOnce
<1>5. QED
      BY <1>2, <1>3, <1>4 DEF OneInv

(* service_information.rs:262: of one processor, and a broadcaster that    *)
(* lists an event in one section of a table, a section is remembered only  *)
(* while the registry has what it says of every event, through restarts,   *)
(* ended streams, revisions and a service that is not known yet.           *)
THEOREM OneProcessorHolds == Spec => [](OneProcessor /\ Apart => RememberedIsHeld)
<1>1. GuideTyped /\ [Next]_vars => GuideTyped'
      BY NextTyped
<1>2. Init => (OneProcessor => OneInv)
      BY OneInitially
<1>3. (OneProcessor => OneInv) => (OneProcessor /\ Apart => RememberedIsHeld)
      BY DEF OneInv, HeldInv
<1>4. QED
      BY <1>1, <1>2, <1>3, TypedInitially, OneStep, PTL DEF Spec

(* event.rs:136: of one processor, whatever it remembers of the schedule   *)
(* is written or on its way, unless a transaction failed: a restart loses  *)
(* both, and the queue keeps the order of the revisions.                   *)
THEOREM OneProcessorKeeps == Spec => [](OneProcessor => RememberedIsKept)
<1>1. GuideTyped /\ [Next]_vars => GuideTyped'
      BY NextTyped
<1>2. Init => (OneProcessor => OneInv)
      BY OneInitially
<1>3. (OneProcessor => OneInv) => (OneProcessor => RememberedIsKept)
      BY DEF OneInv, KeptInv
<1>4. QED
      BY <1>1, <1>2, <1>3, TypedInitially, OneStep, PTL DEF Spec

(* sqlite.rs:229, "keeps_the_events_of_the_other_sections": of one         *)
(* processor, and a broadcaster that lists an event in one section at a    *)
(* time, a section written as it is on air has a row for every event it    *)
(* lists, whatever was queued or is written after it.                      *)
THEOREM OneProcessorLists == Spec => [](OneProcessor /\ ListedOnce => WrittenIsListed)
<1>1. GuideTyped /\ [Next]_vars => GuideTyped'
      BY NextTyped
<1>2. Init => (OneProcessor => OneInv)
      BY OneInitially
<1>3. GuideTyped /\ (OneProcessor => OneInv) => (OneProcessor /\ ListedOnce => WrittenIsListed)
  <2>1. GuideTyped => scheduled \subseteq Sections
        BY GuideAssumption DEF GuideTyped, TypeOK
  <2>2. QED
        BY <2>1 DEF OneInv, ListedInv, Settled, WrittenIsListed
<1>4. QED
      BY <1>1, <1>2, <1>3, TypedInitially, OneStep, PTL DEF Spec
=============================================================================
