---------------------------- MODULE SectionStore ----------------------------
(***************************************************************************)
(* How the broadcast schedule reaches the database: the bounded queue and  *)
(* the writing task of crates/chibitv/src/store/event.rs, and the table of *)
(* store/sqlite.rs, one row per event of a service.  The model follows one *)
(* service; its sections are told apart by table id and section number.    *)
(***************************************************************************)
EXTENDS Integers, Sequences

CONSTANTS
    Sections,       \* the EIT sections of the service
    Events,         \* the event ids they may list
    QueueCapacity,  \* QUEUE_CAPACITY
    MaxVersion,     \* bound on the revisions of a section
    None

ASSUME StoreAssumption ==
    /\ QueueCapacity \in Nat \ {0}
    /\ MaxVersion \in Nat
    /\ None \notin Sections

VARIABLES
    queue,      \* section updates on their way to the store
    inHand,     \* the update the writing task is executing
    rows,       \* rows[e]: the row of event e and the section it is filed under
    written     \* history: the version of a section last committed

storeVars == <<queue, inHand, rows, written>>

Versions == 0 .. MaxVersion

\* What one section says of one event.
Source == Sections \X Versions

StoreInit ==
    /\ queue = <<>>
    /\ inHand = None
    /\ rows = [e \in Events |-> None]
    /\ written = [s \in Sections |-> None]

-----------------------------------------------------------------------------
HasRoom == Len(queue) < QueueCapacity

\* Mutant: the queue has no bound.
EnqueueAlways(update) ==
    /\ queue' = Append(queue, update)
    /\ UNCHANGED <<inHand, rows, written>>

Enqueue(update) ==
    /\ HasRoom
    /\ queue' = Append(queue, update)
    /\ UNCHANGED <<inHand, rows, written>>

TakeUpdate ==
    /\ inHand = None /\ queue # <<>>
    /\ inHand' = Head(queue)
    /\ queue' = Tail(queue)
    /\ UNCHANGED <<rows, written>>

\* The rows filed under section s.
FiledUnder(s) == {e \in Events : rows[e] # None /\ rows[e].section = s}

\* Mutant: INSERT OR IGNORE leaves an event with the section that had it.
ReplaceOrIgnore(s, listed) ==
    rows' = [e \in Events |->
               IF e \in DOMAIN listed /\ (rows[e] = None \/ e \in FiledUnder(s))
               THEN [section |-> s, content |-> listed[e]]
               ELSE IF e \in FiledUnder(s) THEN None
               ELSE rows[e]]

\* Mutant: nothing is deleted.
ReplaceWithoutDelete(s, listed) ==
    rows' = [e \in Events |->
               IF e \in DOMAIN listed THEN [section |-> s, content |-> listed[e]]
               ELSE rows[e]]

\* replace_section: DELETE what is filed under the section, then INSERT OR
\* REPLACE what it lists, which takes an event listed elsewhere over.
ReplaceSection(s, listed) ==
    rows' = [e \in Events |->
               IF e \in DOMAIN listed THEN [section |-> s, content |-> listed[e]]
               ELSE IF e \in FiledUnder(s) THEN None
               ELSE rows[e]]

Commit ==
    /\ inHand # None
    /\ ReplaceSection(inHand.section, inHand.listed)
    /\ written' = [written EXCEPT ![inHand.section] = inHand.version]
    /\ inHand' = None
    /\ UNCHANGED queue

\* The transaction is rolled back; the error is logged and that is all.
WriteFails ==
    /\ inHand # None
    /\ inHand' = None
    /\ UNCHANGED <<queue, rows, written>>

\* The process dies: the queue and an uncommitted transaction are gone.
LoseUpdates ==
    /\ queue' = <<>>
    /\ inHand' = None
    /\ UNCHANGED <<rows, written>>
=============================================================================
