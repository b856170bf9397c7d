----------------------- MODULE NormalizedStoreProofs -----------------------
(***************************************************************************)
(* Proofs about NormalizedStore when all collectors run under one lock,    *)
(* for any number of writers, attempts, keys and values.  The invariant    *)
(* says what each phase of the one write in progress may rely on.          *)
(***************************************************************************)
EXTENDS NormalizedStore, TLAPS

OneWriter == \A v, w \in Writers : writer[v] # None /\ writer[w] # None => v = w

\* The new rows are new: one per key, none of a key the base commits.
NewDelta(u) ==
    /\ \A r, s \in u.delta : r.key = s.key => r = s
    /\ \A p \in u.base : \A r \in p, s \in u.delta : r.key # s.key

\* What a write u may rely on, given the visible and the durable directory.
PhaseInv(u, d, e) ==
    /\ NewDelta(u)
    /\ u.phase # "published" => d.manifest = u.base
    /\ u.phase = "published" => d.manifest = u.base \cup {u.delta}
    /\ u.phase = "installed" => u.delta \in d.parts
    /\ u.phase \in {"synced", "planned", "published"} => u.delta \in e.parts
    /\ u.phase = "planned" => u.previous = u.base

WriterInv == \A w \in Writers : writer[w] # None => PhaseInv(writer[w], disk, durable)

DirectoryInv ==
    /\ UniqueKeys(disk.manifest)
    /\ disk.manifest \subseteq durable.parts
    /\ durable.manifest \subseteq disk.manifest
    /\ durable.parts \subseteq disk.parts
    /\ reported \subseteq Rows(durable.manifest)

IInv == TypeOK /\ OneWriter /\ WriterInv /\ DirectoryInv

-----------------------------------------------------------------------------

(***************************************************************************)
(* Adding a part whose keys are new keeps the committed keys unique.       *)
(***************************************************************************)
LEMMA AppendKeepsKeysUnique ==
    ASSUME NEW u, UniqueKeys(u.base), NewDelta(u)
    PROVE  UniqueKeys(u.base \cup {u.delta})
<1> SUFFICES ASSUME NEW p \in u.base \cup {u.delta}, NEW q \in u.base \cup {u.delta},
                    NEW r \in p, NEW s \in q, r.key = s.key
             PROVE  p = q /\ r = s
    BY DEF UniqueKeys
<1>1. CASE p \in u.base /\ q \in u.base
    BY <1>1 DEF UniqueKeys
<1>2. CASE p = u.delta /\ q = u.delta
    BY <1>2 DEF NewDelta
<1>3. CASE p \in u.base /\ q = u.delta
    BY <1>3 DEF NewDelta
<1>4. CASE p = u.delta /\ q \in u.base
    BY <1>4 DEF NewDelta
<1> QED  BY <1>1, <1>2, <1>3, <1>4

LEMMA InvImplies ==
    IInv => CommittedAlwaysReadable /\ ReportedIsCommitted
BY DEF IInv, DirectoryInv, CommittedAlwaysReadable, CommittedReadable, ReportedIsCommitted,
       UniqueKeys, Rows

LEMMA InitEstablishes == Init => IInv
BY DEF Init, Empty, IInv, TypeOK, Directory, OneWriter, WriterInv, DirectoryInv, UniqueKeys, Rows

(***************************************************************************)
(* Under the lock, a write that advances is the only one, so it is enough  *)
(* to look at its own phase.                                               *)
(***************************************************************************)
LEMMA AdvanceKeeps ==
    ASSUME IInv, NEW w \in Writers, writer[w] # None, NEW STATE u, u \in Write,
           writer' = [writer EXCEPT ![w] = u], PhaseInv(u, disk', durable')
    PROVE  OneWriter' /\ WriterInv' /\ writer' \in [Writers -> Write \cup {None}]
<1>1. writer'[w] = u /\ \A v \in Writers \ {w} : writer'[v] = writer[v] /\ writer[v] = None
    BY DEF IInv, TypeOK, OneWriter
<1>2. OneWriter'
    BY <1>1 DEF OneWriter
<1>3. WriterInv'
    BY <1>1 DEF WriterInv, PhaseInv
<1> QED  BY <1>2, <1>3 DEF IInv, TypeOK

LEMMA BeginWriteKeeps ==
    ASSUME Serialized, IInv, NEW w \in Writers, NEW run \in Runs, NEW batch \in Batches,
           NEW quarantine \in BOOLEAN, BeginWrite(w, run, batch, quarantine)
    PROVE  IInv'
<1> DEFINE existing == Rows(disk.manifest)
           delta == NewRows(batch, existing, run)
           u == [phase |-> "staged", base |-> disk.manifest, delta |-> delta, previous |-> {}]
<1>1. delta \in Part
    <2>1. \A k \in DOMAIN batch : k \in Keys /\ batch[k] \in Values
        BY DEF Batches
    <2>2. delta \subseteq Row
        BY <2>1 DEF NewRows, Row
    <2>3. delta # {}
        BY DEF BeginWrite
    <2> QED  BY <2>2, <2>3 DEF Part
<1>2. u \in Write
    BY <1>1 DEF Write, IInv, TypeOK, Directory
<1>3. \A v \in Writers : writer[v] = None
    BY DEF BeginWrite, Idle
<1>4. writer' = [writer EXCEPT ![w] = u] /\ UNCHANGED <<disk, durable, reported>>
    BY DEF BeginWrite
<1>5. PhaseInv(u, disk', durable')
    <2>1. NewDelta(u)
        BY DEF NewDelta, NewRows, Rows
    <2> QED  BY <2>1, <1>4 DEF PhaseInv, NewDelta
<1>6. writer'[w] = u /\ (\A v \in Writers \ {w} : writer'[v] = None)
    BY <1>3, <1>4 DEF IInv, TypeOK
<1>7. OneWriter' /\ WriterInv'
    BY <1>5, <1>6 DEF OneWriter, WriterInv, PhaseInv
<1>8. TypeOK'
    BY <1>2, <1>4 DEF IInv, TypeOK
<1>9. DirectoryInv'
    BY <1>4 DEF IInv, DirectoryInv
<1> QED  BY <1>7, <1>8, <1>9 DEF IInv

LEMMA InstallPartKeeps ==
    ASSUME IInv, NEW w \in Writers, InstallPart(w)
    PROVE  IInv'
<1> DEFINE u == [writer[w] EXCEPT !.phase = "installed"]
<1>0. writer[w] \in Write /\ PhaseInv(writer[w], disk, durable)
    BY DEF IInv, TypeOK, WriterInv, InstallPart
<1>1. /\ u \in Write /\ u.phase = "installed" /\ u.base = writer[w].base
      /\ u.delta = writer[w].delta /\ u.previous = writer[w].previous
    BY <1>0 DEF Write
<1>2. /\ disk'.parts = disk.parts \cup {u.delta} /\ disk'.manifest = disk.manifest
      /\ disk' \in Directory /\ UNCHANGED <<durable, reported>>
    BY <1>1 DEF InstallPart, IInv, TypeOK, Directory, Write
<1>3. PhaseInv(u, disk', durable')
    BY <1>0, <1>1, <1>2 DEF PhaseInv, NewDelta, InstallPart
<1>4. OneWriter' /\ WriterInv' /\ writer' \in [Writers -> Write \cup {None}]
    <2>1. writer' = [writer EXCEPT ![w] = u] /\ writer[w] # None
        BY DEF InstallPart, Advance
    <2> QED  BY <2>1, <1>1, <1>3, AdvanceKeeps
<1>5. DirectoryInv'
    BY <1>2 DEF IInv, DirectoryInv
<1> QED  BY <1>2, <1>4, <1>5 DEF IInv, TypeOK

LEMMA SyncPartKeeps ==
    ASSUME IInv, NEW w \in Writers, SyncPart(w)
    PROVE  IInv'
<1> DEFINE u == [writer[w] EXCEPT !.phase = "synced"]
<1>0. writer[w] \in Write /\ PhaseInv(writer[w], disk, durable)
    BY DEF IInv, TypeOK, WriterInv, SyncPart
<1>1. /\ u \in Write /\ u.phase = "synced" /\ u.base = writer[w].base
      /\ u.delta = writer[w].delta /\ u.previous = writer[w].previous
    BY <1>0 DEF Write
<1>2. durable' = disk /\ UNCHANGED <<disk, reported>>
    BY DEF SyncPart
<1>3. PhaseInv(u, disk', durable')
    BY <1>0, <1>1, <1>2 DEF PhaseInv, NewDelta, SyncPart
<1>4. OneWriter' /\ WriterInv' /\ writer' \in [Writers -> Write \cup {None}]
    <2>1. writer' = [writer EXCEPT ![w] = u] /\ writer[w] # None
        BY DEF SyncPart, Advance
    <2> QED  BY <2>1, <1>1, <1>3, AdvanceKeeps
<1>5. DirectoryInv'
    BY <1>2 DEF IInv, DirectoryInv, Rows
<1> QED  BY <1>2, <1>4, <1>5 DEF IInv, TypeOK

LEMMA ReadPreviousKeeps ==
    ASSUME IInv, NEW w \in Writers, ReadPrevious(w)
    PROVE  IInv'
<1> DEFINE u == [writer[w] EXCEPT !.phase = "planned", !.previous = disk.manifest]
<1>0. writer[w] \in Write /\ PhaseInv(writer[w], disk, durable) /\ disk \in Directory
    BY DEF IInv, TypeOK, WriterInv, ReadPrevious
<1>1. /\ u \in Write /\ u.phase = "planned" /\ u.base = writer[w].base
      /\ u.delta = writer[w].delta /\ u.previous = disk.manifest
    BY <1>0 DEF Write, Directory
<1>2. UNCHANGED <<disk, durable, reported>>
    BY DEF ReadPrevious
<1>3. PhaseInv(u, disk', durable')
    BY <1>0, <1>1, <1>2 DEF PhaseInv, NewDelta, ReadPrevious
<1>4. OneWriter' /\ WriterInv' /\ writer' \in [Writers -> Write \cup {None}]
    <2>1. writer' = [writer EXCEPT ![w] = u] /\ writer[w] # None
        BY DEF ReadPrevious
    <2> QED  BY <2>1, <1>1, <1>3, AdvanceKeeps
<1>5. DirectoryInv'
    BY <1>2 DEF IInv, DirectoryInv
<1> QED  BY <1>2, <1>4, <1>5 DEF IInv, TypeOK

LEMMA InstallManifestKeeps ==
    ASSUME IInv, NEW w \in Writers, InstallManifest(w)
    PROVE  IInv'
<1> DEFINE u == [writer[w] EXCEPT !.phase = "published"]
<1>0. writer[w] \in Write /\ PhaseInv(writer[w], disk, durable)
    BY DEF IInv, TypeOK, WriterInv, InstallManifest
<1>1. /\ u \in Write /\ u.phase = "published" /\ u.base = writer[w].base
      /\ u.delta = writer[w].delta /\ u.previous = writer[w].previous
    BY <1>0 DEF Write
<1>2. /\ disk'.parts = disk.parts /\ disk'.manifest = u.base \cup {u.delta}
      /\ disk' \in Directory /\ UNCHANGED <<durable, reported>>
    BY <1>0, <1>1 DEF InstallManifest, IInv, TypeOK, Directory, Write, PhaseInv
<1>3. PhaseInv(u, disk', durable')
    BY <1>0, <1>1, <1>2 DEF PhaseInv, NewDelta, InstallManifest
<1>4. OneWriter' /\ WriterInv' /\ writer' \in [Writers -> Write \cup {None}]
    <2>1. writer' = [writer EXCEPT ![w] = u] /\ writer[w] # None
        BY DEF InstallManifest, Advance
    <2> QED  BY <2>1, <1>1, <1>3, AdvanceKeeps
<1>5. DirectoryInv'
    <2>1. u.base = disk.manifest /\ u.delta \in durable.parts /\ NewDelta(u)
        BY <1>0, <1>1 DEF PhaseInv, NewDelta, InstallManifest
    <2>2. UniqueKeys(u.base \cup {u.delta})
        BY <2>1, AppendKeepsKeysUnique DEF IInv, DirectoryInv
    <2> QED  BY <2>1, <2>2, <1>2 DEF IInv, DirectoryInv
<1> QED  BY <1>2, <1>4, <1>5 DEF IInv, TypeOK

LEMMA SyncManifestKeeps ==
    ASSUME IInv, NEW w \in Writers, SyncManifest(w)
    PROVE  IInv'
<1>0. writer[w] \in Write /\ PhaseInv(writer[w], disk, durable) /\ writer[w].phase = "published"
    BY DEF IInv, TypeOK, WriterInv, SyncManifest
<1>1. durable' = disk /\ disk' = disk /\ reported' = reported \cup writer[w].delta
    BY DEF SyncManifest
<1>2. TypeOK'
    BY <1>0, <1>1 DEF SyncManifest, IInv, TypeOK, Write, Part
<1>3. \A v \in Writers : writer'[v] = None
    BY DEF SyncManifest, IInv, TypeOK, OneWriter
<1>4. DirectoryInv'
    <2>1. writer[w].delta \subseteq Rows(disk.manifest)
        BY <1>0 DEF PhaseInv, Rows
    <2> QED  BY <2>1, <1>1 DEF IInv, DirectoryInv, Rows
<1> QED  BY <1>2, <1>3, <1>4 DEF IInv, OneWriter, WriterInv

LEMMA StopWriterKeeps ==
    ASSUME IInv, NEW w \in Writers, StopWriter(w)
    PROVE  IInv'
<1>1. \A v \in Writers : writer'[v] = None
    BY DEF StopWriter, IInv, TypeOK, OneWriter
<1>2. UNCHANGED <<disk, durable, reported>> /\ writer' \in [Writers -> Write \cup {None}]
    BY DEF StopWriter, IInv, TypeOK
<1> QED  BY <1>1, <1>2 DEF IInv, TypeOK, OneWriter, WriterInv, DirectoryInv

LEMMA PowerLossKeeps ==
    ASSUME IInv, PowerLoss
    PROVE  IInv'
<1>1. PICK kept \in SUBSET (disk.parts \ durable.parts), m \in {durable.manifest, disk.manifest} :
          disk' = [parts |-> durable.parts \cup kept, manifest |-> m]
    BY DEF PowerLoss
<1>2. /\ disk'.parts = durable.parts \cup kept /\ disk'.manifest = m
      /\ durable' = disk' /\ reported' = reported
    BY <1>1 DEF PowerLoss
<1>3. \A v \in Writers : writer'[v] = None
    BY DEF PowerLoss
<1>4. TypeOK'
    BY <1>1, <1>2 DEF PowerLoss, IInv, TypeOK, Directory
<1>5. DirectoryInv'
    <2>1. m \subseteq disk.manifest /\ durable.manifest \subseteq m
        BY DEF IInv, DirectoryInv
    <2> QED  BY <2>1, <1>2 DEF IInv, DirectoryInv, UniqueKeys, Rows
<1> QED  BY <1>3, <1>4, <1>5 DEF IInv, OneWriter, WriterInv

LEMMA NextKeeps ==
    ASSUME Serialized PROVE IInv /\ [Next]_vars => IInv'
<1> SUFFICES ASSUME IInv, [Next]_vars PROVE IInv'
    OBVIOUS
<1>1. CASE UNCHANGED vars
    BY <1>1 DEF vars, IInv, TypeOK, OneWriter, WriterInv, PhaseInv, NewDelta, DirectoryInv
<1>2. ASSUME NEW w \in Writers, NEW run \in Runs, NEW batch \in Batches,
             NEW quarantine \in BOOLEAN, BeginWrite(w, run, batch, quarantine)
      PROVE  IInv'
    BY <1>2, BeginWriteKeeps
<1> QED
    BY <1>1, <1>2, InstallPartKeeps, SyncPartKeeps, ReadPreviousKeeps, InstallManifestKeeps,
       SyncManifestKeeps, StopWriterKeeps, PowerLossKeeps
    DEF Next

THEOREM Inductive == ASSUME Serialized PROVE Spec => []IInv
<1>1. IInv /\ [Next]_vars => IInv'
    BY NextKeeps
<1> QED  BY InitEstablishes, <1>1, PTL DEF Spec

(***************************************************************************)
(* Under one lock a manifest never lists a missing part and never commits  *)
(* a natural key twice, through crashes and power losses (publish).        *)
(***************************************************************************)
THEOREM CommittedAlwaysReadableHolds == ASSUME Serialized PROVE Spec => []CommittedAlwaysReadable
BY Inductive, InvImplies, PTL

(***************************************************************************)
(* Under one lock a row returned as published stays committed, on disk and *)
(* after any power loss (writeManifest).                                   *)
(***************************************************************************)
THEOREM ReportedIsCommittedHolds == ASSUME Serialized PROVE Spec => []ReportedIsCommitted
BY Inductive, InvImplies, PTL

(***************************************************************************)
(* Under one lock publication only appends to what is durable (publish's   *)
(* previous parts and the new one).                                        *)
(***************************************************************************)
THEOREM CommittedIsKeptHolds == ASSUME Serialized PROVE Spec => CommittedIsKept
<1> DEFINE Kept == Rows(durable.manifest) \subseteq Rows(durable'.manifest)
<1>1. IInv /\ [Next]_vars => [Kept]_vars
    <2> SUFFICES ASSUME IInv, Next PROVE Kept
        OBVIOUS
    <2>1. CASE PowerLoss
        <3>1. durable'.manifest \in {durable.manifest, disk.manifest}
            BY <2>1 DEF PowerLoss
        <3> QED  BY <3>1 DEF IInv, DirectoryInv, Rows
    <2>2. CASE durable' \in {durable, disk}
        BY <2>2 DEF IInv, DirectoryInv, Rows
    <2> QED
        BY <2>1, <2>2 DEF Next, BeginWrite, InstallPart, SyncPart, ReadPrevious, InstallManifest,
                          SyncManifest, StopWriter
<1> QED  BY <1>1, Inductive, PTL DEF Spec, CommittedIsKept

(***************************************************************************)
(* Under one lock the files implement the table of CommittedTable: every   *)
(* manifest rename is an append, every return an acknowledgement, and a    *)
(* power loss only undoes what nobody was told about.                      *)
(***************************************************************************)
THEOREM StoreImplementsTable == ASSUME Serialized PROVE Spec => ImplementsTable
<1> DEFINE table == UNION disk.manifest
<1>1. Init => Table!TableInit
    BY DEF Init, Empty, Table!TableInit
<1>2. IInv /\ [Next]_vars => [Table!TableNext]_(Table!tableVars)
    <2> SUFFICES ASSUME IInv, [Next]_vars PROVE [Table!TableNext]_(Table!tableVars)
        OBVIOUS
    <2> USE DEF Table!TableNext, Table!tableVars
    <2>1. ASSUME NEW w \in Writers, InstallManifest(w) PROVE Table!Append
        <3> DEFINE u == writer[w]
        <3>1. u \in Write /\ PhaseInv(u, disk, durable) /\ u.phase = "planned"
            BY <2>1 DEF IInv, TypeOK, WriterInv, InstallManifest
        <3>2. disk.manifest = u.base /\ disk'.manifest = u.base \cup {u.delta}
            BY <2>1, <3>1 DEF PhaseInv, InstallManifest, IInv, TypeOK, Directory
        <3>3. table' = table \cup u.delta
            BY <3>2
        <3>4. u.delta \subseteq Row /\ table \subseteq Row
            BY <3>1 DEF Write, Part, IInv, TypeOK, Directory
        <3>5. \A r \in table', s \in table' \ table : r.key = s.key => r = s
            BY <3>1, <3>2, <3>3 DEF PhaseInv, NewDelta
        <3> QED  BY <2>1, <3>3, <3>4, <3>5 DEF Table!Append, InstallManifest
    <2>2. ASSUME NEW w \in Writers, SyncManifest(w) PROVE Table!Acknowledge
        <3>1. PhaseInv(writer[w], disk, durable) /\ writer[w].phase = "published"
            BY <2>2 DEF IInv, WriterInv, SyncManifest
        <3>2. writer[w].delta \subseteq table
            BY <3>1 DEF PhaseInv
        <3>3. reported \subseteq table
            BY DEF IInv, DirectoryInv, Rows
        <3> QED  BY <2>2, <3>2, <3>3 DEF Table!Acknowledge, SyncManifest
    <2>3. CASE PowerLoss
        <3>1. /\ disk'.manifest \in {durable.manifest, disk.manifest}
              /\ reported' = reported
            BY <2>3 DEF PowerLoss
        <3>2. reported \subseteq Rows(durable.manifest) /\ durable.manifest \subseteq disk.manifest
            BY DEF IInv, DirectoryInv
        <3> QED  BY <3>1, <3>2 DEF Table!LoseUnacknowledged, Rows
    <2>4. ASSUME NEW w \in Writers, InstallPart(w) PROVE UNCHANGED Table!tableVars
        BY <2>4 DEF InstallPart, IInv, TypeOK, Directory
    <2>5. CASE UNCHANGED <<disk, reported>>
        BY <2>5
    <2> QED
        BY <2>1, <2>2, <2>3, <2>4, <2>5
        DEF Next, vars, BeginWrite, SyncPart, ReadPrevious, StopWriter
<1> QED  BY <1>1, <1>2, Inductive, PTL DEF Spec, ImplementsTable, Table!TableSpec

=============================================================================
