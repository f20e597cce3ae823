------------------------------- MODULE Guide --------------------------------
(***************************************************************************)
(* The programme guide: EIT sections are repeated on air, every stream and *)
(* crawl runs a ServiceInformationProcessor over them (crates/chibitv/src/ *)
(* service_information.rs), the processors share one Registry of lock-free *)
(* maps (registry.rs), and what the registry took is queued for the        *)
(* SectionStore, from which a restart restores it.                         *)
(*                                                                         *)
(* The registry's Service of the watched service refers to a map of events *)
(* behind an Arc.  A map is named by who created it: a processor that      *)
(* meets the service in the SDT, or Seed for the configuration.            *)
(***************************************************************************)
EXTENDS SectionStore, FiniteSets

CONSTANTS
    Processors,   \* the processors that may run at the same time
    Seed,
    Parts,        \* the kinds of descriptors an event is assembled from
    PartOf,       \* the one section s carries
    Schedulings,  \* which sections may be of the schedule tables: worth keeping
    Airings,      \* which sections may list which events together
    MayFail,      \* transactions may fail
    MaxFaults     \* bound on crashes, ended streams and failed transactions

ASSUME GuideAssumption ==
    /\ PartOf \in [Sections -> Parts]
    /\ Schedulings \subseteq SUBSET Sections
    /\ Airings \subseteq [Sections -> SUBSET Events]
    /\ Seed \notin Processors /\ None \notin Processors \cup {Seed}
    /\ MayFail \in BOOLEAN
    /\ MaxFaults \in Nat

VARIABLES
    aired,     \* aired[s]: the events section s lists on air
    version,   \* version[s]: its version and CRC
    scheduled, \* the sections of the schedule tables
    seeded,    \* the service is named in the configuration
    catalog,   \* the map of events the registry has for the service
    maps,      \* maps[m][e]: the event e of map m
    memory,    \* memory[p][s]: stored_sections of processor p
    step,      \* step[p]: where process() of p is
    job,       \* job[p]: the section p is processing
    todo,      \* todo[p]: the events of it not put yet
    complete,  \* complete[p]: every event so far could be stored
    base,      \* base[p]: what p has looked up and not used yet
    failed,    \* a transaction has failed
    faults

guideVars ==
    <<aired, version, scheduled, seeded, catalog, maps, memory, step, job, todo, complete, base>>
processing == <<job, todo, complete, base>>
broadcast == <<aired, version, scheduled, seeded>>
vars == <<storeVars, guideVars, failed, faults>>

Maps == Processors \cup {Seed}

\* An event: the section and version each part of it was last taken from.
Contents == [Parts -> Source \cup {None}]
NoEvents == [e \in Events |-> None]

\* A section on the stream: what demuxers hand to the processors.
Jobs == [section : Sections, version : Versions, listed : SUBSET Events]

Updates ==
    [section : Sections, version : Versions,
     listed : UNION {[L -> Contents] : L \in SUBSET Events}]

\* None is a value of its own.
ASSUME NoneAssumption ==
    /\ None \notin Versions /\ None \notin Contents
    /\ None \notin Jobs /\ None \notin Updates
    /\ None \notin [section : Sections, content : Contents]

TypeOK ==
    /\ queue \in Seq(Updates) /\ Len(queue) <= QueueCapacity
    /\ inHand \in Updates \cup {None}
    /\ rows \in [Events -> [section : Sections, content : Contents] \cup {None}]
    /\ written \in [Sections -> Versions \cup {None}]
    /\ aired \in Airings
    /\ version \in [Sections -> Versions]
    /\ scheduled \in Schedulings
    /\ seeded \in BOOLEAN /\ failed \in BOOLEAN
    /\ catalog \in Maps \cup {None}
    /\ maps \in [Maps -> [Events -> Contents \cup {None}]]
    /\ memory \in [Processors -> [Sections -> Versions \cup {None}]]
    /\ step \in [Processors -> {"off", "idle", "learning", "putting", "merging", "queueing"}]
    /\ job \in [Processors -> Jobs \cup {None}]
    /\ todo \in [Processors -> SUBSET Events]
    /\ complete \in [Processors -> BOOLEAN]
    /\ faults \in 0 .. MaxFaults

Init ==
    /\ StoreInit
    /\ aired \in Airings
    /\ version = [s \in Sections |-> 0]
    /\ scheduled \in Schedulings
    /\ seeded \in BOOLEAN
    /\ catalog = IF seeded THEN Seed ELSE None
    /\ maps = [m \in Maps |-> NoEvents]
    /\ memory = [p \in Processors |-> [s \in Sections |-> None]]
    /\ step = [p \in Processors |-> "off"]
    /\ job = [p \in Processors |-> None]
    /\ todo = [p \in Processors |-> {}]
    /\ complete = [p \in Processors |-> FALSE]
    /\ base = [p \in Processors |-> None]
    /\ failed = FALSE
    /\ faults = 0

-----------------------------------------------------------------------------
(* The broadcaster revises one section: it lists other events, or says     *)
(* something new of the same ones.                                         *)
Revise(s) ==
    /\ version[s] < MaxVersion
    /\ aired' \in {a \in Airings : \A t \in Sections \ {s} : a[t] = aired[t]}
    /\ version' = [version EXCEPT ![s] = @ + 1]
    /\ UNCHANGED <<storeVars, scheduled, seeded, catalog, maps, memory, step, processing, failed, faults>>

-----------------------------------------------------------------------------
(* The SDT: put_b10_service looks the service up and inserts it again with *)
(* the map it had, or with a new one; put_service leaves a known one alone.*)
FindService(p) ==
    /\ step[p] = "idle"
    /\ step' = [step EXCEPT ![p] = "learning"]
    /\ base' = [base EXCEPT ![p] = catalog]
    /\ UNCHANGED <<storeVars, broadcast, catalog, maps, memory, job, todo, complete, failed, faults>>

InsertService(p) ==
    /\ step[p] = "learning"
    /\ step' = [step EXCEPT ![p] = "idle"]
    /\ catalog' = IF base[p] = None THEN p ELSE base[p]
    /\ base' = [base EXCEPT ![p] = None]
    /\ UNCHANGED <<storeVars, broadcast, maps, memory, job, todo, complete, failed, faults>>

-----------------------------------------------------------------------------
(* The EIT: store_section, put_events and keep_events.                     *)

\* A section arrives whose version is not the one remembered.
Receive(p, s) ==
    /\ step[p] = "idle"
    /\ memory[p][s] # version[s]
    /\ step' = [step EXCEPT ![p] = "putting"]
    /\ job' = [job EXCEPT ![p] =
                 [section |-> s, version |-> version[s], listed |-> aired[s]]]
    /\ todo' = [todo EXCEPT ![p] = aired[s]]
    /\ complete' = [complete EXCEPT ![p] = TRUE]
    /\ UNCHANGED <<storeVars, broadcast, catalog, maps, memory, base, failed, faults>>

\* put_event looks the service and the event up ...
FindEvent(p, e) ==
    /\ step[p] = "putting" /\ e \in todo[p]
    /\ catalog # None
    /\ step' = [step EXCEPT ![p] = "merging"]
    /\ base' = [base EXCEPT ![p] =
                  [map |-> catalog, event |-> e, previous |-> maps[catalog][e]]]
    /\ UNCHANGED <<storeVars, broadcast, catalog, maps, memory, job, todo, complete, failed, faults>>

\* ... or drops an event of a service it does not know.
DropEvent(p, e) ==
    /\ step[p] = "putting" /\ e \in todo[p]
    /\ catalog = None
    /\ todo' = [todo EXCEPT ![p] = @ \ {e}]
    /\ complete' = [complete EXCEPT ![p] = FALSE]
    /\ UNCHANGED <<storeVars, broadcast, catalog, maps, memory, step, job, base, failed, faults>>

\* Mutant: a part that is there already is not taken again.
MergedOnce(previous, j) ==
    [q \in Parts |-> IF previous # None /\ previous[q] # None THEN previous[q]
                     ELSE IF q = PartOf[j.section] THEN <<j.section, j.version>>
                     ELSE None]

Merged(previous, j) ==
    [q \in Parts |-> IF q = PartOf[j.section] THEN <<j.section, j.version>>
                     ELSE IF previous = None THEN None ELSE previous[q]]

\* ... and inserts what it had looked up with the part the section carries.
InsertEvent(p) ==
    /\ step[p] = "merging"
    /\ maps' = [maps EXCEPT ![base[p].map][base[p].event] =
                  Merged(base[p].previous, job[p])]
    /\ step' = [step EXCEPT ![p] = "putting"]
    /\ todo' = [todo EXCEPT ![p] = @ \ {base[p].event}]
    /\ base' = [base EXCEPT ![p] = None]
    /\ UNCHANGED <<storeVars, broadcast, catalog, memory, job, complete, failed, faults>>

AllPut(p) == step[p] = "putting" /\ todo[p] = {}

Finish(p) ==
    /\ step' = [step EXCEPT ![p] = "idle"]
    /\ job' = [job EXCEPT ![p] = None]
    /\ complete' = [complete EXCEPT ![p] = FALSE]
    /\ UNCHANGED todo

Remember(p) ==
    memory' = [memory EXCEPT ![p][job[p].section] = job[p].version]

\* Mutant: an incomplete section is remembered.
GiveUpRemembering(p) ==
    /\ AllPut(p) /\ ~complete[p]
    /\ Remember(p)
    /\ Finish(p)
    /\ UNCHANGED <<storeVars, broadcast, catalog, maps, base, failed, faults>>

\* An event was dropped: the next repetition of the section tries again.
GiveUp(p) ==
    /\ AllPut(p) /\ ~complete[p]
    /\ Finish(p)
    /\ UNCHANGED <<storeVars, broadcast, catalog, maps, memory, base, failed, faults>>

\* The section is not one worth keeping: the registry alone has it.
KeepInMemory(p) ==
    /\ AllPut(p) /\ complete[p] /\ job[p].section \notin scheduled
    /\ Remember(p)
    /\ Finish(p)
    /\ UNCHANGED <<storeVars, broadcast, catalog, maps, base, failed, faults>>

\* keep_events reads the events back; those it does not find are left out.
ReadBack(p) ==
    LET found == {e \in job[p].listed : catalog # None /\ maps[catalog][e] # None} IN
    /\ AllPut(p) /\ complete[p] /\ job[p].section \in scheduled
    /\ step' = [step EXCEPT ![p] = "queueing"]
    /\ base' = [base EXCEPT ![p] =
                  [section |-> job[p].section, version |-> job[p].version,
                   listed |-> [e \in found |-> maps[catalog][e]]]]
    /\ UNCHANGED <<storeVars, broadcast, catalog, maps, memory, job, todo, complete, failed, faults>>

QueueSection(p) ==
    /\ step[p] = "queueing"
    /\ Enqueue(base[p])
    /\ Remember(p)
    /\ Finish(p)
    /\ base' = [base EXCEPT ![p] = None]
    /\ UNCHANGED <<broadcast, catalog, maps, failed, faults>>

\* Mutant: a refused section is remembered.
RefuseRemembering(p) ==
    /\ step[p] = "queueing" /\ ~HasRoom
    /\ Remember(p)
    /\ Finish(p)
    /\ base' = [base EXCEPT ![p] = None]
    /\ UNCHANGED <<storeVars, broadcast, catalog, maps, failed, faults>>

\* try_send finds the queue full: the section stays unremembered.
RefuseSection(p) ==
    /\ step[p] = "queueing" /\ ~HasRoom
    /\ Finish(p)
    /\ base' = [base EXCEPT ![p] = None]
    /\ UNCHANGED <<storeVars, broadcast, catalog, maps, memory, failed, faults>>

ProcessStep(p) ==
    \/ InsertService(p)
    \/ \E e \in Events : FindEvent(p, e) \/ DropEvent(p, e)
    \/ InsertEvent(p) \/ GiveUp(p) \/ KeepInMemory(p)
    \/ ReadBack(p) \/ QueueSection(p) \/ RefuseSection(p)

-----------------------------------------------------------------------------
(* The writing task, and what can go wrong.                                *)

WriterStep == (TakeUpdate \/ Commit) /\ UNCHANGED <<guideVars, failed, faults>>

Fault == faults < MaxFaults /\ faults' = faults + 1

FailWrite ==
    /\ MayFail /\ Fault /\ WriteFails
    /\ failed' = TRUE
    /\ UNCHANGED guideVars

Forget(ps) ==
    /\ memory' = [p \in Processors |->
                    IF p \in ps THEN [s \in Sections |-> None] ELSE memory[p]]
    /\ UNCHANGED broadcast

\* A stream or a crawl starts, with a processor that remembers nothing ...
StartStream(p) ==
    /\ step[p] = "off"
    /\ step' = [step EXCEPT ![p] = "idle"]
    /\ UNCHANGED <<storeVars, broadcast, catalog, maps, memory, processing, failed, faults>>

\* ... and ends.
EndStream(p) ==
    /\ Fault
    /\ step[p] = "idle"
    /\ step' = [step EXCEPT ![p] = "off"]
    /\ Forget({p})
    /\ UNCHANGED <<storeVars, catalog, maps, processing, failed>>

\* The server dies and starts again: restore_events fills the map of a
\* configured service from the rows.
Restart ==
    /\ Fault
    /\ LoseUpdates
    /\ Forget(Processors)
    /\ catalog' = IF seeded THEN Seed ELSE None
    /\ maps' = [m \in Maps |->
                  IF m = Seed /\ seeded
                  THEN [e \in Events |-> IF rows[e] = None THEN None ELSE rows[e].content]
                  ELSE NoEvents]
    /\ step' = [p \in Processors |-> "off"]
    /\ job' = [p \in Processors |-> None]
    /\ todo' = [p \in Processors |-> {}]
    /\ complete' = [p \in Processors |-> FALSE]
    /\ base' = [p \in Processors |-> None]
    /\ UNCHANGED failed

Next ==
    \/ \E s \in Sections : Revise(s)
    \/ \E p \in Processors :
          \/ StartStream(p) \/ EndStream(p)
          \/ FindService(p) \/ ProcessStep(p)
          \/ \E s \in Sections : Receive(p, s)
    \/ WriterStep \/ FailWrite \/ Restart

Spec == Init /\ [][Next]_vars

(* The threads of the processors and the writing task run (WF); the SDT    *)
(* and every section are repeated on air every few seconds, so each of     *)
(* them reaches a processor that is idle again and again (SF).             *)
FairSpec ==
    /\ Spec
    /\ WF_vars(WriterStep)
    /\ \A p \in Processors :
          /\ WF_vars(ProcessStep(p))
          /\ SF_vars(FindService(p))
          /\ \A s \in Sections : SF_vars(Receive(p, s))

-----------------------------------------------------------------------------
Current(p, s) == memory[p][s] = version[s]

(* service_information.rs:262, "A section is only remembered once the      *)
(* registry took every event of it": while a remembered section is on air, *)
(* the registry has what it says of every event it lists.                  *)
RememberedIsHeld ==
    \A p \in Processors, s \in Sections :
        Current(p, s) =>
            \A e \in aired[s] :
                /\ catalog # None /\ maps[catalog][e] # None
                /\ maps[catalog][e][PartOf[s]] = <<s, version[s]>>

(* event.rs:136, "Queues a section, reporting whether the store took it":  *)
(* what a processor remembers, and will not send again, is written, or on  *)
(* its way, unless a transaction failed: that is logged and not tried      *)
(* again (event.rs:120).                                                   *)
OnItsWay(s) ==
    \/ \E i \in DOMAIN queue : queue[i].section = s /\ queue[i].version = version[s]
    \/ inHand # None /\ inHand.section = s /\ inHand.version = version[s]

RememberedIsKept ==
    \A p \in Processors, s \in scheduled :
        Current(p, s) => written[s] = version[s] \/ OnItsWay(s) \/ failed

(* sqlite.rs:229, "keeps_the_events_of_the_other_sections": once a section *)
(* is written as it is on air, every event it lists has a row, also when   *)
(* an older version of another section that listed it is written after it; *)
(* as long as no other section lists the event at the same time.           *)
WrittenIsListed ==
    \A s \in scheduled :
        written[s] = version[s] => \A e \in aired[s] : rows[e] # None

(* event.rs:4, "so a programme the broadcaster cancelled disappears instead*)
(* of lingering forever": an event no section lists any more loses its row *)
(* in the end, through restarts, ended streams and a full queue, as long   *)
(* as somebody streams or crawls the channel again and again and no        *)
(* transaction fails.                                                      *)
Watched == []<>(\E p \in Processors : step[p] # "off") /\ []~failed

Cancelled(e) == \A s \in Sections : e \notin aired[s]

CancelledDisappears ==
    Watched => \A e \in Events : Cancelled(e) ~> rows[e] = None \/ ~Cancelled(e)

(* A section that is not revised any more is in the store in the end, with *)
(* what it says, unless a transaction fails: lost queues only cost another *)
(* round.                                                                  *)
Stored(s) ==
    \A e \in aired[s] : rows[e] # None /\ rows[e].content[PartOf[s]] = <<s, version[s]>>

ScheduleIsStored ==
    Watched => \A s \in Sections : <>[](s \in scheduled => Stored(s))
=============================================================================
