--------------------------- MODULE NormalizedStore ---------------------------
(***************************************************************************)
(* One partition of the normalized Parquet store (internal/normalize): the *)
(* immutable content-named part files, the manifest.json that commits a    *)
(* set of them, and the collector processes that publish into it.  A step  *)
(* is one file-system operation others can see; between any two of them a  *)
(* writer may die or fail, and the machine may lose power, which keeps     *)
(* what the directory fsyncs have made durable and possibly more.          *)
(***************************************************************************)
EXTENDS Naturals, FiniteSets, FiniteSetsExt

CONSTANTS
    Writers,     \* collector processes
    Runs,        \* write attempts, one ingestion_run_id and ingested_at each
    Keys,        \* natural keys of the partition
    Values,      \* canonical contents of a row
    None,        \* no write in progress
    Serialized   \* TRUE: all collectors run under one lock (daily.lock)

Row  == [key : Keys, value : Values, run : Runs]
Part == (SUBSET Row) \ {{}}   \* a part file, named by the hash of its rows; never empty

(***************************************************************************)
(* manifest is the set of parts manifest.json lists, {} when there is no   *)
(* manifest.json (validateManifest refuses an empty list).  Its row_count  *)
(* is always the sum of its parts' counts, which validateManifest checks.  *)
(***************************************************************************)
Directory == [parts : SUBSET Part, manifest : SUBSET Part]

Write == [phase    : {"staged", "installed", "synced", "planned", "published"},
          base     : SUBSET Part,   \* the manifest readCommitted read
          delta    : Part,          \* the new rows, in a temporary file
          previous : SUBSET Part]   \* the manifest publish reads again

ASSUME StoreAssumption ==
    /\ Serialized \in BOOLEAN
    /\ None \notin Write

VARIABLES
    disk,      \* the partition directory every process sees
    durable,   \* the directory a power loss is sure to leave
    writer,    \* the write each process is in, or None
    reported   \* rows returned to a caller as published (history)

vars == <<disk, durable, writer, reported>>

Empty == [parts |-> {}, manifest |-> {}]

Rows(parts)     == UNION parts
RowCount(parts) == MapThenSumSet(Cardinality, parts)

UniqueKeys(parts) ==
    \A p, q \in parts : \A r \in p, s \in q : r.key = s.key => p = q /\ r = s

(***************************************************************************)
(* readCommitted, and ValidateExisting for this partition: every listed    *)
(* part is there, no natural key is committed twice, and Parquet files     *)
(* without a manifest are refused (ErrMigrationRequired).                  *)
(***************************************************************************)
CommittedReadable(d) == d.manifest \subseteq d.parts /\ UniqueKeys(d.manifest)
Readable(d) == CommittedReadable(d) /\ (d.manifest = {} => d.parts = {})

Idle == \A w \in Writers : writer[w] = None

\* No row of this attempt exists yet: attempts have their own ingested_at.
Fresh(run) ==
    /\ \A r \in Rows(disk.parts) : r.run # run
    /\ \A w \in Writers : writer[w] # None => \A r \in writer[w].delta : r.run # run

Batches == UNION {[K -> Values] : K \in SUBSET Keys}

\* The rows of a batch whose key is not committed yet.
NewRows(batch, existing, run) ==
    {[key |-> k, value |-> batch[k], run |-> run] :
        k \in {k \in DOMAIN batch : \A r \in existing : r.key # k}}

Conflicts(batch, existing) ==
    {k \in DOMAIN batch : \E r \in existing : r.key = k /\ r.value # batch[k]}

Advance(w, phase) == writer' = [writer EXCEPT ![w].phase = phase]

-----------------------------------------------------------------------------

Init ==
    /\ disk = Empty
    /\ durable = Empty
    /\ writer = [w \in Writers |-> None]
    /\ reported = {}

\* Faulty variant: a revised value is admitted next to the committed one.
BeginWriteAdmittingRevisions(w, run, batch, quarantine) ==
    /\ writer[w] = None
    /\ Serialized => Idle
    /\ Readable(disk) /\ Fresh(run)
    /\ LET existing == Rows(disk.manifest)
           revised  == NewRows(batch, {r \in existing : r.key \notin Conflicts(batch, existing)}, run) IN
       /\ revised # {}
       /\ writer' = [writer EXCEPT ![w] = [phase |-> "staged", base |-> disk.manifest,
                                           delta |-> revised, previous |-> {}]]
    /\ UNCHANGED <<disk, durable, reported>>

(***************************************************************************)
(* A Write... call up to its temporary part: read the committed rows, keep *)
(* the first value of every natural key, and write the new rows to a       *)
(* synced temporary file.  A conflicting value fails the call, except in   *)
(* WritePricesQuarantining, which drops it.  A call that is refused or has *)
(* nothing new changes nothing and is not a step.                          *)
(***************************************************************************)
BeginWrite(w, run, batch, quarantine) ==
    LET existing == Rows(disk.manifest)
        delta    == NewRows(batch, existing, run) IN
    /\ writer[w] = None
    /\ Serialized => Idle
    /\ Readable(disk) /\ Fresh(run)
    /\ Conflicts(batch, existing) # {} => quarantine
    /\ delta # {}
    /\ writer' = [writer EXCEPT ![w] = [phase |-> "staged", base |-> disk.manifest,
                                        delta |-> delta, previous |-> {}]]
    /\ UNCHANGED <<disk, durable, reported>>

(***************************************************************************)
(* writePart: rename the temporary file to its content name, then sync it  *)
(* and the directory.                                                      *)
(***************************************************************************)
InstallPart(w) ==
    /\ writer[w] # None /\ writer[w].phase = "staged"
    /\ disk' = [disk EXCEPT !.parts = @ \cup {writer[w].delta}]
    /\ Advance(w, "installed")
    /\ UNCHANGED <<durable, reported>>

\* Faulty variant: the directory is not synced before the manifest.
SyncPartFileOnly(w) ==
    /\ writer[w] # None /\ writer[w].phase = "installed"
    /\ Advance(w, "synced")
    /\ UNCHANGED <<disk, durable, reported>>

SyncPart(w) ==
    /\ writer[w] # None /\ writer[w].phase = "installed"
    /\ durable' = disk
    /\ Advance(w, "synced")
    /\ UNCHANGED <<disk, reported>>

(***************************************************************************)
(* publish reads the manifest again and plans previous parts + new part.   *)
(* validateManifest refuses a duplicate part and a row count that is not   *)
(* the one of the rows read first.                                         *)
(***************************************************************************)
ReadPrevious(w) ==
    /\ writer[w] # None /\ writer[w].phase = "synced"
    /\ writer[w].delta \notin disk.manifest
    /\ RowCount(disk.manifest) = RowCount(writer[w].base)
    /\ writer' = [writer EXCEPT ![w].phase = "planned", ![w].previous = disk.manifest]
    /\ UNCHANGED <<disk, durable, reported>>

(***************************************************************************)
(* writeManifest: rename the synced temporary manifest over manifest.json, *)
(* then sync the directory and return the admitted rows to the caller.     *)
(***************************************************************************)
InstallManifest(w) ==
    /\ writer[w] # None /\ writer[w].phase = "planned"
    /\ disk' = [disk EXCEPT !.manifest = writer[w].previous \cup {writer[w].delta}]
    /\ Advance(w, "published")
    /\ UNCHANGED <<durable, reported>>

\* Faulty variant: success is returned without the directory sync.
SyncManifestLater(w) ==
    /\ writer[w] # None /\ writer[w].phase = "published"
    /\ reported' = reported \cup writer[w].delta
    /\ writer' = [writer EXCEPT ![w] = None]
    /\ UNCHANGED <<disk, durable>>

SyncManifest(w) ==
    /\ writer[w] # None /\ writer[w].phase = "published"
    /\ durable' = disk
    /\ reported' = reported \cup writer[w].delta
    /\ writer' = [writer EXCEPT ![w] = None]
    /\ UNCHANGED disk

(***************************************************************************)
(* A writer that dies, or whose next operation returns an error, leaves    *)
(* what it has renamed so far; its temporary files are invisible.          *)
(***************************************************************************)
StopWriter(w) ==
    /\ writer[w] # None
    /\ writer' = [writer EXCEPT ![w] = None]
    /\ UNCHANGED <<disk, durable, reported>>

(***************************************************************************)
(* Every process dies; each unsynced rename is kept or lost, the part      *)
(* files independently of the manifest.                                    *)
(***************************************************************************)
PowerLoss ==
    /\ \E kept \in SUBSET (disk.parts \ durable.parts), m \in {durable.manifest, disk.manifest} :
          disk' = [parts |-> durable.parts \cup kept, manifest |-> m]
    /\ durable' = disk'
    /\ writer' = [w \in Writers |-> None]
    /\ UNCHANGED reported

Next ==
    \/ \E w \in Writers :
          \/ \E run \in Runs, batch \in Batches, quarantine \in BOOLEAN :
                BeginWrite(w, run, batch, quarantine)
          \/ InstallPart(w)
          \/ SyncPart(w)
          \/ ReadPrevious(w)
          \/ InstallManifest(w)
          \/ SyncManifest(w)
          \/ StopWriter(w)
    \/ PowerLoss

Spec == Init /\ [][Next]_vars

-----------------------------------------------------------------------------

TypeOK ==
    /\ disk \in Directory
    /\ durable \in Directory
    /\ writer \in [Writers -> Write \cup {None}]
    /\ reported \subseteq Row

(***************************************************************************)
(* Whatever stops when, the manifest a reader finds, now or after a power  *)
(* loss, lists only files that exist and commits no natural key twice, so  *)
(* readCommitted accepts it (TestManifestPublicationSyncsPartBefore-       *)
(* ManifestRename, readCommitted's duplicate key check).                   *)
(***************************************************************************)
CommittedAlwaysReadable == CommittedReadable(disk) /\ CommittedReadable(durable)

(***************************************************************************)
(* A row a Write... call returned as published is committed for good: the  *)
(* collector records it as written and projects it afterwards (publish,    *)
(* writeManifest).                                                         *)
(***************************************************************************)
ReportedIsCommitted == reported \subseteq Rows(disk.manifest) \cap Rows(durable.manifest)

(***************************************************************************)
(* Publication only appends: a durably committed row never leaves the      *)
(* manifest and is never replaced by a revised value ("each manifest lists *)
(* the complete current part set", manifest.go).                           *)
(***************************************************************************)
CommittedIsKept == [][Rows(durable.manifest) \subseteq Rows(durable'.manifest)]_vars

(***************************************************************************)
(* The files implement a table that only grows (CommittedTable).           *)
(***************************************************************************)
Table == INSTANCE CommittedTable
            WITH RowSet <- Row, table <- UNION disk.manifest, acknowledged <- reported

ImplementsTable == Table!TableSpec

=============================================================================
