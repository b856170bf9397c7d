---------------------------- MODULE PaperLedger ----------------------------
(***************************************************************************)
(* LedgerStore.append_event of python/research/paper.py, one file-system   *)
(* operation at a time: the numbered event files of one paper account, the *)
(* ledger manifest that lists them, and the processes (paper-run, paper-   *)
(* approve) that append.  Nothing but the daily cycle's lock keeps two of  *)
(* them apart, and a process may die between any two operations.           *)
(***************************************************************************)
EXTENDS Naturals, Sequences

CONSTANTS
    Processes,
    Keys,       \* idempotency keys
    Payloads,   \* what an event says beyond its key and its place
    None,       \* no append in progress
    Locked      \* TRUE: every process runs under the lock of the daily cycle

Event == [key : Keys, payload : Payloads]

(***************************************************************************)
(* A manifest entry is the sequence number, event id and hash of an event; *)
(* the event stands for its id and hash.  last_sequence is always written  *)
(* with the value of event_count.                                          *)
(***************************************************************************)
Entry    == [sequence : Nat, event : Event]
Manifest == [event_count : Nat, events : Seq(Entry)]

Process ==
    [event    : Event,
     phase    : {"asked", "numbered", "checked", "installed", "listed"},
     sequence : Nat,          \* its number, 0 before it has one
     old      : Seq(Entry)]   \* the entries of the manifest it will extend

ASSUME LedgerAssumption ==
    /\ Locked \in BOOLEAN
    /\ None \notin Process

VARIABLES
    files,     \* event-000001.json and so on; they are always contiguous
    manifest,  \* ledger-manifest.json
    process,   \* the append each process is in, or None
    returned   \* the events append_event has returned (history)

vars == <<files, manifest, process, returned>>

(***************************************************************************)
(* events(): the files are those the manifest lists, in order.             *)
(***************************************************************************)
Counted  == manifest.event_count = Len(manifest.events)
Readable ==
    /\ Counted
    /\ Len(files) = manifest.event_count
    /\ \A i \in DOMAIN files : manifest.events[i] = [sequence |-> i, event |-> files[i]]

Idle == \A p \in Processes : process[p] = None

At(p, phase) == process[p] # None /\ process[p].phase = phase

-----------------------------------------------------------------------------

\* initialize, before its first append.
Init ==
    /\ files = <<>>
    /\ manifest = [event_count |-> 0, events |-> <<>>]
    /\ process = [p \in Processes |-> None]
    /\ returned = {}

\* Faulty variant: the ledger is not searched for the key.
AskForEventBlindly(p, e) ==
    /\ process[p] = None
    /\ Locked => Idle
    /\ Readable
    /\ process' = [process EXCEPT ![p] =
                       [event |-> e, phase |-> "asked", sequence |-> 0, old |-> <<>>]]
    /\ UNCHANGED <<files, manifest, returned>>

(***************************************************************************)
(* event_for_idempotency: an event that is there is returned when it says  *)
(* the same; one that says something else is a conflict and not a step.    *)
(***************************************************************************)
AskForEvent(p, e) ==
    /\ process[p] = None
    /\ Locked => Idle
    /\ Readable
    /\ IF \A i \in DOMAIN files : files[i].key # e.key
       THEN /\ process' = [process EXCEPT ![p] =
                              [event |-> e, phase |-> "asked", sequence |-> 0, old |-> <<>>]]
            /\ UNCHANGED returned
       ELSE /\ \E i \in DOMAIN files : files[i] = e
            /\ returned' = returned \cup {e}
            /\ UNCHANGED process
    /\ UNCHANGED <<files, manifest>>

\* len(self.events()) + 1, from a second reading.
NumberEvent(p) ==
    /\ At(p, "asked")
    /\ Readable
    /\ process' = [process EXCEPT ![p].phase = "numbered", ![p].sequence = Len(files) + 1]
    /\ UNCHANGED <<files, manifest, returned>>

(***************************************************************************)
(* _write_immutable, its check: a path that is taken is an error unless it *)
(* already holds these bytes.                                              *)
(***************************************************************************)
CheckPath(p) ==
    LET n == process[p].sequence IN
    /\ At(p, "numbered")
    /\ n \in DOMAIN files => files[n] = process[p].event
    /\ process' = [process EXCEPT ![p].phase = IF n \in DOMAIN files THEN "installed" ELSE "checked"]
    /\ UNCHANGED <<files, manifest, returned>>

(***************************************************************************)
(* _write_immutable, its rename, which replaces what is there by then.     *)
(***************************************************************************)
InstallEvent(p) ==
    LET n == process[p].sequence IN
    /\ At(p, "checked")
    /\ files' = IF n \in DOMAIN files THEN [files EXCEPT ![n] = process[p].event]
                ELSE Append(files, process[p].event)
    /\ process' = [process EXCEPT ![p].phase = "installed"]
    /\ UNCHANGED <<manifest, returned>>

\* The manifest is read again, without a look at the files.
ReadManifest(p) ==
    /\ At(p, "installed")
    /\ Counted
    /\ process' = [process EXCEPT ![p].phase = "listed", ![p].old = manifest.events]
    /\ UNCHANGED <<files, manifest, returned>>

\* Faulty variant: the manifest is written with the new entry alone.
ListEventAlone(p) ==
    LET e == process[p].event
        n == process[p].sequence IN
    /\ At(p, "listed")
    /\ manifest' = [event_count |-> n, events |-> <<[sequence |-> n, event |-> e]>>]
    /\ returned' = returned \cup {e}
    /\ process' = [process EXCEPT ![p] = None]
    /\ UNCHANGED files

\* Faulty variant: append_event returns although the manifest was not replaced.
ListEventOrNot(p) ==
    LET e == process[p].event
        n == process[p].sequence IN
    /\ At(p, "listed")
    /\ \/ manifest' = [event_count |-> n,
                       events |-> Append(process[p].old, [sequence |-> n, event |-> e])]
       \/ UNCHANGED manifest
    /\ returned' = returned \cup {e}
    /\ process' = [process EXCEPT ![p] = None]
    /\ UNCHANGED files

(***************************************************************************)
(* _write_atomic of the manifest, and the return to the caller.            *)
(***************************************************************************)
ListEvent(p) ==
    LET e == process[p].event
        n == process[p].sequence IN
    /\ At(p, "listed")
    /\ manifest' = [event_count |-> n,
                    events |-> Append(process[p].old, [sequence |-> n, event |-> e])]
    /\ returned' = returned \cup {e}
    /\ process' = [process EXCEPT ![p] = None]
    /\ UNCHANGED files

(***************************************************************************)
(* A process that dies, or meets an error: an unreadable ledger, a path    *)
(* that is taken, a manifest whose count is wrong, a full disk.            *)
(***************************************************************************)
Stop(p) ==
    /\ process[p] # None
    /\ process' = [process EXCEPT ![p] = None]
    /\ UNCHANGED <<files, manifest, returned>>

Next ==
    \E p \in Processes :
       \/ \E e \in Event : AskForEvent(p, e)
       \/ NumberEvent(p)
       \/ CheckPath(p)
       \/ InstallEvent(p)
       \/ ReadManifest(p)
       \/ ListEvent(p)
       \/ Stop(p)

Spec == Init /\ [][Next]_vars

-----------------------------------------------------------------------------

TypeOK ==
    /\ files \in Seq(Event)
    /\ manifest \in Manifest
    /\ process \in [Processes -> Process \cup {None}]
    /\ returned \subseteq Event

(***************************************************************************)
(* An idempotency key takes effect once, whatever is interrupted and run   *)
(* again ("Paper ledger event identities ... prevent duplicate cash,       *)
(* order, fill, or approval effects", operations-recovery.md).             *)
(***************************************************************************)
EffectsHappenOnce ==
    \A i, j \in DOMAIN files : files[i].key = files[j].key => i = j

(***************************************************************************)
(* The manifest never runs ahead of the files and never lists another      *)
(* event than theirs: an interrupted append leaves the ledger as it was    *)
(* and at most one file more (append_event writes the file first).         *)
(***************************************************************************)
ListedEventsAreThere ==
    /\ Len(files) \in {Len(manifest.events), Len(manifest.events) + 1}
    /\ \A i \in DOMAIN manifest.events :
          manifest.events[i] = [sequence |-> i, event |-> files[i]]

(***************************************************************************)
(* Files and manifest implement a log that only grows and keeps what it    *)
(* acknowledged (EventLog).                                                *)
(***************************************************************************)
Log == INSTANCE EventLog
          WITH EventSet <- Event,
               log  <- [i \in DOMAIN manifest.events |-> manifest.events[i].event],
               told <- returned

ImplementsEventLog == Log!LogSpec

=============================================================================
