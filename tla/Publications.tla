----------------------------- MODULE Publications -----------------------------
(***************************************************************************)
(* Publication of immutable research artifacts: feature artifacts and the  *)
(* batches over them (features.py, derived_artifacts.py, batches.py),      *)
(* documents (documents.py), backtest results (backtest_results.py),       *)
(* experiment specifications (experiments.py) and adjusted price series    *)
(* (adjustments.py).                                                       *)
(*                                                                         *)
(* A batch works on a catalogue registered as in PointInTime, while the    *)
(* collector goes on.  Publishers run at the same time on one disk; a      *)
(* process may die between any two steps, and a disk may fail a write.  A  *)
(* file is Torn from its creation to the end of the write.                 *)
(***************************************************************************)
EXTENDS PointInTime, FeatureSets

CONSTANTS
    Publishers,
    Requests,       \* what may be asked of a publisher, by theme
    ResultFiles,    \* names of the documents of a backtest result, in order
    Torn,
    MaxCommands,    \* bounds the commands started, by theme
    MaxFaults       \* bounds the deaths and the disk failures

\* The registry of feature sets resolves no other name; a batch is asked for finitely many
\* instants and for finitely many securities, which have an order; no bytes of a document or of
\* a result are those of an unfinished write; only the manifest of a result has its name.
ASSUME RequestsAssumption ==
    \A t \in DOMAIN Batches : \A r \in Requests[t] :
       /\ r.kind = "batch" => /\ r.set \in FeatureFamilies /\ r.calendar \in Int
                              /\ \A range \in {r.schedule, r.securities} :
                                    IsFiniteSet(range) /\ range \subseteq Int
       /\ r.kind = "document" => r.raw # Torn
       /\ r.kind = "result" => r.run # Torn

\* The vintage of a macro row is absent or a number; the rows of one fundamental series, which is
\* what the query partitions by, are of one concept and one fiscal period.
ASSUME SeriesAssumption ==
    LET rows == UNION UNION {Batches[t] : t \in DOMAIN Batches}
        fundamentals == {r \in rows : r.of = "fundamentals"}
    IN  /\ \A r \in rows : r.of = "macro" =>
              "vintage" \in DOMAIN r /\ (r.vintage # None => r.vintage \in Int)
        /\ \A r \in fundamentals : {"series", "concept", "fiscal"} \subseteq DOMAIN r
        /\ \A r, s \in fundamentals :
              r.series = s.series => r.concept = s.concept /\ r.fiscal = s.fiscal

ASSUME ResultFilesAssumption == ResultFiles \in Seq(STRING \ {"manifest"})

VARIABLES
    disk,      \* directories, files with their content, temporary files left
    pub,       \* what each publisher is doing
    started,   \* commands started
    faults

publication == <<disk, pub, started, faults>>
pubVars == <<vars, publication>>
store == <<now, theme, manifests, lost, torn>>

NoJob == [family |-> "none", dir |-> "none", files |-> <<>>]

Resting == [phase |-> "idle", request |-> None, parts |-> {}, todo |-> {},
            accepted |-> {}, rejected |-> {}, job |-> NoJob, at |-> 0]

PubInit ==
    /\ Init
    /\ disk = [dirs |-> {}, files |-> <<>>, temps |-> {}]
    /\ pub = [p \in Publishers |-> Resting]
    /\ started = 0
    /\ faults = 0

-----------------------------------------------------------------------------
(***************************************************************************)
(* Files.  A job is a directory and the files to write there, in order;    *)
(* the last one is the manifest.                                           *)
(***************************************************************************)
Path(job, i) == <<job.dir, job.files[i].name>>
Content(job, i) == job.files[i].content
File(name, content) == [name |-> name, content |-> content]

Present(path) == path \in DOMAIN disk.files
Whole(path) == Present(path) /\ disk.files[path] # Torn
ManifestName == <<"manifest">>
PartFile == <<"part">>
ManifestAt(dir) == disk.files[<<dir, ManifestName>>]
HasWholeManifest(dir) == Whole(<<dir, ManifestName>>)
FilesIn(dir) == {path \in DOMAIN disk.files \cup disk.temps : path[1] = dir}

Put(path, content) ==
    [p \in DOMAIN disk.files \cup {path} |-> IF p = path THEN content ELSE disk.files[p]]

-----------------------------------------------------------------------------
(***************************************************************************)
(* Jobs.                                                                   *)
(***************************************************************************)
\* Faulty variant: the manifest is written before the part it lists.
PublishedManifestFirst(m) ==
    [family |-> m.set, dir |-> m.id, files |-> <<File(ManifestName, m), File(PartFile, m.part)>>]

PublishedPartFirst(m) ==
    [family |-> m.set, dir |-> m.id, files |-> <<File(PartFile, m.part), File(ManifestName, m)>>]

BasicJob(envelope, subject, features) ==
    PublishedPartFirst(BasicManifest(envelope, subject, features))

MomentumJob(envelope, subject, features) ==
    PublishedPartFirst(BasicManifest(envelope, subject, features))

\* The derived families check their timing and lineage before they write.
Accepts(envelope) ==
    envelope.set \in Derived => TimingHolds(envelope) /\ LineageListed(envelope)

DerivedJob(envelope, subject, features) ==
    PublishedPartFirst(DerivedManifest(envelope, subject, features))

FeatureJob(envelope, subject, features) ==
    CASE envelope.set = "market-basic" -> BasicJob(envelope, subject, features)
      [] envelope.set = "market-momentum" -> MomentumJob(envelope, subject, features)
      [] envelope.set \in Derived -> DerivedJob(envelope, subject, features)

BatchId(request, accepted) ==
    [of |-> "batch", set |-> request.set, schedule |-> request.schedule,
     universe |-> request.securities, calendar |-> request.calendar,
     manifests |-> UNION {a.manifest.manifests : a \in accepted},
     parts |-> UNION {a.manifest.parts : a \in accepted}]

BatchJob(request, accepted, rejected) ==
    LET id == BatchId(request, accepted) IN
    [family |-> "batch", dir |-> id,
     files |-> <<File(ManifestName,
                      [id |-> id, commit |-> request.commit,
                       requested |-> Cardinality(request.schedule \X request.securities),
                       accepted |-> accepted, rejected |-> rejected])>>]

\* Text is extracted after the raw bytes are kept; it may fail.
ExtractText(request) == IF request.readable THEN <<File(<<"text", request.raw>>, request.raw)>> ELSE <<>>

DocumentJob(request) ==
    [family |-> "document", dir |-> [of |-> "document", id |-> request.document],
     files |-> <<File(<<"raw", request.raw>>, request.raw)>> \o ExtractText(request)
                 \o <<File(ManifestName, [kind |-> "document", raw |-> request.raw,
                                        retrieved |-> request.retrieved,
                                        readable |-> request.readable])>>]

ResultJob(request) ==
    [family |-> "result", dir |-> [of |-> "result", id |-> request.run],
     files |-> [i \in 1..Len(ResultFiles) |-> File(<<ResultFiles[i]>>, request.run)]
                 \o <<File(ManifestName, [kind |-> "result", run |-> request.run])>>]

SpecJob(request) ==
    [family |-> "spec", dir |-> [of |-> "spec", id |-> request.experiment],
     files |-> <<File(ManifestName, [kind |-> "spec", experiment |-> request.experiment])>>]

\* The raw series is read from its manifest, not from a catalogue.
KnownActions(decision) == CorporateActionsAsOf(Committed("actions"), decision)

AdjustedRows(decision) ==
    IF KnownActions(decision).refused \/ manifests["prices"].parts \cap lost # {}
    THEN Refused
    ELSE AdjustedPrices(Committed("prices"), manifests["prices"].parts,
                        KnownActions(decision).rows, decision)

AdjustedJob(decision, rows) ==
    LET selected == SelectActions(KnownActions(decision).rows, decision).rows
        id == [of |-> "adjusted", decision |-> decision,
               raw |-> PartNames(manifests["prices"].parts), actions |-> {r.id : r \in selected}]
        part == [kind |-> "part", id |-> id, rows |-> rows]
    IN  [family |-> "adjusted", dir |-> id,
         files |-> <<File(PartFile, part),
                     File(ManifestName, [kind |-> "adjusted", id |-> id, part |-> part])>>]

-----------------------------------------------------------------------------
(***************************************************************************)
(* Readers: what they accept on the disk.                                  *)
(***************************************************************************)
\* A manifest, exactly its part, and both as the family demands.
OnlyPart(dir) ==
    /\ HasWholeManifest(dir)
    /\ FilesIn(dir) = {<<dir, ManifestName>>, <<dir, PartFile>>}
    /\ disk.files[<<dir, PartFile>>] = ManifestAt(dir).part

BasicReadable(dir) ==
    OnlyPart(dir) /\ LET m == ManifestAt(dir) IN BasicManifestValid(m) /\ BasicPartHolds(m.part, m)

MomentumReadable(dir) ==
    OnlyPart(dir) /\ LET m == ManifestAt(dir) IN
                     MomentumManifestValid(m) /\ MomentumPartHolds(m.part, m)

DerivedReadable(dir) ==
    OnlyPart(dir) /\ LET m == ManifestAt(dir) IN
                     DerivedManifestValid(m) /\ DerivedPartHolds(m.part, m)

\* The manifest says which family reads it.
ArtifactReadable(dir) ==
    /\ HasWholeManifest(dir)
    /\ CASE ManifestAt(dir).set \in Derived -> DerivedReadable(dir)
         [] ManifestAt(dir).set = "market-momentum" -> MomentumReadable(dir)
         [] OTHER -> BasicReadable(dir)

Partition(item) == <<item.decision, item.security>>

BatchManifestValid(m) ==
    /\ \A items \in {m.accepted, m.rejected} :
          Cardinality({Partition(i) : i \in items}) = Cardinality(items)
    /\ m.requested = Cardinality(m.accepted) + Cardinality(m.rejected)

BatchReadable(dir) ==
    /\ HasWholeManifest(dir)
    /\ FilesIn(dir) = {<<dir, ManifestName>>}
    /\ LET m == ManifestAt(dir) IN
       /\ BatchManifestValid(m)
       /\ m.id = dir
       /\ dir.manifests = UNION {a.manifest.manifests : a \in m.accepted}
       /\ dir.parts = UNION {a.manifest.parts : a \in m.accepted}
       /\ \A a \in m.accepted :
             /\ ArtifactReadable(a.id)
             /\ ManifestAt(a.id) = a.manifest
             /\ a.manifest.set = dir.set
             /\ a.security \in dir.universe /\ a.decision \in dir.schedule
             /\ <<a.manifest.part.security, a.manifest.part.decision>> = <<a.security, a.decision>>

DocumentReadable(dir) ==
    /\ HasWholeManifest(dir)
    /\ LET m == ManifestAt(dir) IN
       /\ Whole(<<dir, <<"raw", m.raw>>>>) /\ disk.files[<<dir, <<"raw", m.raw>>>>] = m.raw
       /\ m.readable => /\ Whole(<<dir, <<"text", m.raw>>>>)
                        /\ disk.files[<<dir, <<"text", m.raw>>>>] = m.raw

ResultWhole(dir) ==
    /\ HasWholeManifest(dir)
    /\ \A i \in DOMAIN ResultFiles :
          /\ Whole(<<dir, <<ResultFiles[i]>>>>)
          /\ disk.files[<<dir, <<ResultFiles[i]>>>>] = ManifestAt(dir).run

\* A file the manifest does not list is refused too.
ResultReadable(dir) == ResultWhole(dir) /\ FilesIn(dir) \subseteq DOMAIN disk.files

AdjustedWhole(dir) ==
    /\ HasWholeManifest(dir)
    /\ FilesIn(dir) = {<<dir, ManifestName>>, <<dir, PartFile>>}
    /\ disk.files[<<dir, PartFile>>] = ManifestAt(dir).part

\* The raw manifest must still be the one that was pinned.
AdjustedReadable(dir) == AdjustedWhole(dir) /\ dir.raw = PartNames(manifests["prices"].parts)

-----------------------------------------------------------------------------
(***************************************************************************)
(* Commands.                                                               *)
(***************************************************************************)
Become(p, state) == pub' = [pub EXCEPT ![p] = state]

CanStart(p) == pub[p].phase = "idle" /\ started < MaxCommands[theme]

\* The calendar must have been known at every decision of the schedule.
CalendarKnown(request) == \A d \in request.schedule : request.calendar <= d

\* A batch takes the catalogue that has just been registered.
StartBatch(p, request) ==
    /\ CanStart(p) /\ request.kind = "batch" /\ view.phase = "registered"
    /\ CalendarKnown(request)
    /\ Become(p, [Resting EXCEPT !.phase = "partition", !.request = request, !.parts = view.parts,
                                 !.todo = request.schedule \X request.securities])
    /\ view' = Idle
    /\ started' = started + 1
    /\ UNCHANGED <<store, asked, disk, faults>>

\* The other commands have one artifact to publish.
StartJob(p, request, job) ==
    /\ CanStart(p)
    /\ Become(p, [Resting EXCEPT !.phase = "open", !.request = request, !.job = job])
    /\ started' = started + 1
    /\ UNCHANGED <<store, view, asked, disk, faults>>

StartDocument(p, request) == request.kind = "document" /\ StartJob(p, request, DocumentJob(request))
StartResult(p, request) == request.kind = "result" /\ StartJob(p, request, ResultJob(request))
StartSpec(p, request) == request.kind = "spec" /\ StartJob(p, request, SpecJob(request))

StartAdjusted(p, request) ==
    /\ request.kind = "adjusted"
    /\ LET adjusted == AdjustedRows(request.decision) IN
       /\ ~adjusted.refused
       /\ StartJob(p, request, AdjustedJob(request.decision, adjusted.rows))

-----------------------------------------------------------------------------
(***************************************************************************)
(* A batch goes through its partitions by decision, then by security.      *)
(***************************************************************************)
NextPartition(todo) ==
    CHOOSE t \in todo : \A u \in todo : t[1] < u[1] \/ (t[1] = u[1] /\ t[2] <= u[2])

Subject(request, security) ==
    CASE request.set = "fundamental-growth" ->
            [security |-> security, issuer |-> request.issuers[security]]
      [] request.set = "macro-state" -> [security |-> security, series |-> request.series]
      [] OTHER -> [security |-> security]

\* The reason stands for the recorded reason and its detail.
Rejection(t, reason) == [decision |-> t[1], security |-> t[2], reason |-> reason]

Reject(p, t, reason) ==
    Become(p, [pub[p] EXCEPT !.phase = "partition", !.job = NoJob, !.at = 0, !.todo = @ \ {t},
                             !.rejected = @ \cup {Rejection(t, reason)}])

LacksMapping(request, security) ==
    request.set = "fundamental-growth" /\ request.issuers[security] = None

SkipPartition(p) ==
    /\ pub[p].phase = "partition" /\ pub[p].todo # {}
    /\ LET t == NextPartition(pub[p].todo) IN
       /\ LacksMapping(pub[p].request, t[2])
       /\ Reject(p, t, "mapping missing")
    /\ UNCHANGED <<vars, disk, started, faults>>

\* Select, compute and pin; what the inputs do not allow is recorded.
SelectPartition(p) ==
    /\ pub[p].phase = "partition" /\ pub[p].todo # {}
    /\ LET request == pub[p].request
           t == NextPartition(pub[p].todo)
           subject == Subject(request, t[2])
           selected == Selected(request.set, RowsOf(pub[p].parts), subject, t[1])
           features == Features(request.set, selected)
           lineage == SelectedLineage(selected, pub[p].parts, manifests)
           envelope == Envelope(request.set, request.commit, t[1], request.calendar,
                                InputAvailable(selected, request.calendar), lineage)
       IN  /\ ~LacksMapping(request, t[2])
           /\ IF \/ features.refused
                 \/ ~LineageHolds(selected, pub[p].parts, manifests, lost)
                 \/ ~Accepts(envelope)
              THEN Reject(p, t, "inputs refused")
              ELSE Become(p, [pub[p] EXCEPT !.phase = "open",
                                            !.job = FeatureJob(envelope, subject, TheOnly(features.rows))])
    /\ UNCHANGED <<vars, disk, started, faults>>

InstallBatch(p) ==
    /\ pub[p].phase = "partition" /\ pub[p].todo = {}
    /\ Become(p, [pub[p] EXCEPT !.phase = "open",
                                !.job = BatchJob(pub[p].request, pub[p].accepted, pub[p].rejected)])
    /\ UNCHANGED <<vars, disk, started, faults>>

Accepted(p, t, dir) ==
    [pub[p] EXCEPT !.phase = "partition", !.job = NoJob, !.at = 0, !.todo = @ \ {t},
                   !.accepted = @ \cup {[decision |-> t[1], security |-> t[2], id |-> dir,
                                         manifest |-> ManifestAt(dir)]}]

\* The child is read back: a command that cannot read it fails.
AcceptChild(p) ==
    /\ pub[p].phase = "published" /\ pub[p].todo # {}
    /\ LET dir == pub[p].job.dir IN
       Become(p, IF ArtifactReadable(dir) THEN Accepted(p, NextPartition(pub[p].todo), dir)
                 ELSE [pub[p] EXCEPT !.phase = "failed"])
    /\ UNCHANGED <<vars, disk, started, faults>>

Return(p) ==
    /\ pub[p].phase \in {"published", "failed"}
    /\ pub[p].phase = "published" => pub[p].todo = {}
    /\ Become(p, Resting)
    /\ UNCHANGED <<vars, disk, started, faults>>

-----------------------------------------------------------------------------
(***************************************************************************)
(* Opening a directory.  Feature artifacts, batches and adjusted series    *)
(* belong to the publisher that creates the directory; whoever finds it    *)
(* must find there exactly what it would have written.                     *)
(***************************************************************************)
Exclusive == FeatureFamilies \cup {"batch", "adjusted"}

Readable(job) ==
    CASE job.family = "batch"    -> BatchReadable(job.dir)
      [] job.family = "adjusted" -> AdjustedReadable(job.dir)
      [] OTHER                   -> ArtifactReadable(job.dir)

OpenExclusive(job) ==
    IF job.dir \notin disk.dirs THEN "directory"
    ELSE IF /\ HasWholeManifest(job.dir) /\ Readable(job)
            /\ ManifestAt(job.dir) = Content(job, Len(job.files))
         THEN "published" ELSE "failed"

OpenResult(job) ==
    IF job.dir \in disk.dirs /\ ~Present(<<job.dir, ManifestName>>) THEN "failed" ELSE "write"

Open(p) ==
    LET job == pub[p].job IN
    /\ pub[p].phase = "open"
    /\ Become(p, [pub[p] EXCEPT !.at = 1,
                      !.phase = IF job.family \in Exclusive THEN OpenExclusive(job)
                                ELSE IF job.family = "result" THEN OpenResult(job)
                                ELSE "write"])
    /\ UNCHANGED <<vars, disk, started, faults>>

MakeDirectory(p) ==
    LET dir == pub[p].job.dir IN
    /\ pub[p].phase = "directory"
    /\ Become(p, [pub[p] EXCEPT !.phase = IF dir \in disk.dirs THEN "failed" ELSE "write"])
    /\ disk' = [disk EXCEPT !.dirs = @ \cup {dir}]
    /\ UNCHANGED <<vars, started, faults>>

-----------------------------------------------------------------------------
(***************************************************************************)
(* Writing one file after the other.                                       *)
(***************************************************************************)
Written(p) ==
    IF pub[p].at = Len(pub[p].job.files)
    THEN [pub[p] EXCEPT !.phase = "published"]
    ELSE [pub[p] EXCEPT !.phase = "write", !.at = @ + 1]

Here(p) == Path(pub[p].job, pub[p].at)
Mine(p) == Content(pub[p].job, pub[p].at)

\* open("xb") creates the file; the bytes follow.
CreateFile(p) ==
    /\ pub[p].phase = "write" /\ pub[p].job.family \in Exclusive
    /\ IF Present(Here(p))
       THEN Become(p, [pub[p] EXCEPT !.phase = "failed"]) /\ UNCHANGED disk
       ELSE /\ Become(p, [pub[p] EXCEPT !.phase = "fill"])
            /\ disk' = [disk EXCEPT !.files = Put(Here(p), Torn)]
    /\ UNCHANGED <<vars, started, faults>>

FillFile(p) ==
    /\ pub[p].phase = "fill"
    /\ Become(p, Written(p))
    /\ disk' = [disk EXCEPT !.files = Put(Here(p), Mine(p))]
    /\ UNCHANGED <<vars, started, faults>>

\* What an immutable write does about a file that is there.
Examine(p) ==
    IF ~Present(Here(p)) THEN [pub[p] EXCEPT !.phase = "stage"]
    ELSE IF disk.files[Here(p)] = Mine(p) THEN Written(p)
    ELSE [pub[p] EXCEPT !.phase = "failed"]

ExamineFile(p) ==
    /\ pub[p].phase = "write" /\ pub[p].job.family \notin Exclusive
    /\ Become(p, Examine(p))
    /\ disk' = [disk EXCEPT !.dirs = @ \cup {pub[p].job.dir}]
    /\ UNCHANGED <<vars, started, faults>>

\* A specification is written in place: an existing file is truncated.
Overwrite(p) ==
    /\ pub[p].phase = "stage" /\ pub[p].job.family = "spec"
    /\ Become(p, [pub[p] EXCEPT !.phase = "fill"])
    /\ disk' = [disk EXCEPT !.files = Put(Here(p), Torn)]
    /\ UNCHANGED <<vars, started, faults>>

Temporary(p) == <<pub[p].job.dir, p>>

\* Faulty variant: the bytes go to the final name.
WriteInPlace(p) ==
    /\ pub[p].phase = "stage" /\ pub[p].job.family # "spec"
    /\ Become(p, [pub[p] EXCEPT !.phase = "link"])
    /\ disk' = [disk EXCEPT !.files = Put(Here(p), Torn)]
    /\ UNCHANGED <<vars, started, faults>>

WriteTemporary(p) ==
    /\ pub[p].phase = "stage" /\ pub[p].job.family # "spec"
    /\ Become(p, [pub[p] EXCEPT !.phase = "link"])
    /\ disk' = [disk EXCEPT !.temps = @ \cup {Temporary(p)}]
    /\ UNCHANGED <<vars, started, faults>>

\* Faulty variant: the temporary file replaces whatever has the name.
ReplaceFile(p) ==
    /\ pub[p].phase = "link"
    /\ Become(p, [pub[p] EXCEPT !.phase = "unlink"])
    /\ disk' = [disk EXCEPT !.files = Put(Here(p), Mine(p))]
    /\ UNCHANGED <<vars, started, faults>>

\* Linking fails on an existing file: then its bytes must be the own ones.
LinkFile(p) ==
    /\ pub[p].phase = "link"
    /\ Become(p, [pub[p] EXCEPT !.phase = IF Present(Here(p)) /\ disk.files[Here(p)] # Mine(p)
                                          THEN "unlink and fail" ELSE "unlink"])
    /\ disk' = IF Present(Here(p)) THEN disk
               ELSE [disk EXCEPT !.files = Put(Here(p), Mine(p))]
    /\ UNCHANGED <<vars, started, faults>>

UnlinkTemporary(p) ==
    /\ pub[p].phase \in {"unlink", "unlink and fail"}
    /\ Become(p, IF pub[p].phase = "unlink" THEN Written(p) ELSE [pub[p] EXCEPT !.phase = "failed"])
    /\ disk' = [disk EXCEPT !.temps = @ \ {Temporary(p)}]
    /\ UNCHANGED <<vars, started, faults>>

-----------------------------------------------------------------------------
(***************************************************************************)
(* Deaths and disk failures.                                               *)
(***************************************************************************)
Crash(p) ==
    /\ pub[p].phase # "idle" /\ faults < MaxFaults
    /\ Become(p, Resting)
    /\ faults' = faults + 1
    /\ UNCHANGED <<vars, disk, started>>

\* What the handlers of OSError remove: an adjusted series goes as a whole, a
\* temporary file goes, a file created in place stays as it is.
CleanedUp(p) ==
    LET job == pub[p].job IN
    IF job.family = "adjusted" /\ pub[p].phase = "fill"
    THEN [disk EXCEPT !.dirs = @ \ {job.dir},
                      !.files = [path \in {q \in DOMAIN @ : q[1] # job.dir} |-> @[path]]]
    ELSE [disk EXCEPT !.temps = @ \ {Temporary(p)}]

Child(p) == pub[p].job.family \in FeatureFamilies

\* A child that could not be written is taken for one its inputs refuse.
DiskError(p) ==
    /\ pub[p].phase \in {"directory", "fill", "stage", "link"} /\ faults < MaxFaults
    /\ IF Child(p) THEN Reject(p, NextPartition(pub[p].todo), "disk failed")
       ELSE Become(p, [pub[p] EXCEPT !.phase = "failed"])
    /\ disk' = CleanedUp(p)
    /\ faults' = faults + 1
    /\ UNCHANGED <<vars, started>>

Step(p) ==
    \/ SkipPartition(p)
    \/ SelectPartition(p)
    \/ AcceptChild(p)
    \/ InstallBatch(p)
    \/ Open(p)
    \/ MakeDirectory(p)
    \/ CreateFile(p)
    \/ FillFile(p)
    \/ ExamineFile(p)
    \/ Overwrite(p)
    \/ WriteTemporary(p)
    \/ LinkFile(p)
    \/ UnlinkTemporary(p)
    \/ Return(p)

PubNext ==
    \/ Next /\ UNCHANGED publication
    \/ \E p \in Publishers, request \in Requests[theme] :
          \/ StartBatch(p, request)
          \/ StartDocument(p, request)
          \/ StartResult(p, request)
          \/ StartSpec(p, request)
          \/ StartAdjusted(p, request)
    \/ \E p \in Publishers : Step(p) \/ Crash(p) \/ DiskError(p)

PubSpec == PubInit /\ [][PubNext]_pubVars

-----------------------------------------------------------------------------
(***************************************************************************)
(* Properties.                                                             *)
(***************************************************************************)
Published(family) ==
    {dir \in disk.dirs : dir.of = family /\ HasWholeManifest(dir)}

(***************************************************************************)
(* A published manifest can be relied on.  Whatever two publishers, a      *)
(* death or a failed write do in between, each file a whole manifest names *)
(* is there, whole and with the content it names, and every child of a     *)
(* batch can be read: the manifest is the last file of every family.       *)
(***************************************************************************)
PublishedIsReadable ==
    /\ \A dir \in Published("artifact") : ArtifactReadable(dir)
    /\ \A dir \in Published("batch") : BatchReadable(dir)
    /\ \A dir \in Published("document") : DocumentReadable(dir)
    /\ \A dir \in Published("result") : ResultWhole(dir)
    /\ \A dir \in Published("adjusted") : AdjustedWhole(dir)

PartsNamed(names) == {part \in CommittedParts : PartName(part) \in names}

(***************************************************************************)
(* An artifact is reproducible from what it pins.  Selecting and computing *)
(* again over the input parts its manifest lists, and nothing else, gives  *)
(* its features, although the catalogue the batch worked on may be older   *)
(* than the manifests it hashed and may miss parts the store has gained.   *)
(***************************************************************************)
ArtifactsAreReproducible ==
    \A dir \in Published("artifact") :
        LET inputs == dir.inputs
            selected == Selected(inputs.set, RowsOf(PartsNamed(inputs.parts)), dir.subject,
                                 inputs.decision)
        IN  Features(inputs.set, selected).rows = {ManifestAt(dir).part.features}

(***************************************************************************)
(* A refusal has a reason.  A feature artifact or a batch that finds its   *)
(* directory taken is refused only when the manifest there is missing or   *)
(* torn, was generated by another commit, or, for a batch, records other   *)
(* children or other rejections: never because the same identity stands    *)
(* for other features.                                                     *)
(***************************************************************************)
ConflictsAreExplained ==
    [][\A p \in Publishers :
          LET job == pub[p].job
              own == Content(job, Len(job.files))
              other == ManifestAt(job.dir)
          IN  (/\ pub[p].phase = "open" /\ pub'[p].phase = "failed"
               /\ job.family \in Exclusive \ {"adjusted"})
              => \/ ~HasWholeManifest(job.dir)
                 \/ other.commit # own.commit
                 \/ /\ job.family = "batch"
                    /\ <<other.accepted, other.rejected>> # <<own.accepted, own.rejected>>]_pubVars

(***************************************************************************)
(* A batch that was interrupted can be resumed ("a rerun can safely reuse  *)
(* children left behind by an interrupted process", batches.py): while     *)
(* nobody else publishes, no child is refused for lack of its manifest.    *)
(* In no run: a death between directory and manifest breaks it.            *)
(***************************************************************************)
InterruptedBatchesResume ==
    [][\A p \in Publishers :
          (/\ Child(p) /\ pub[p].phase = "open" /\ pub'[p].phase = "failed"
           /\ \A q \in Publishers \ {p} : pub[q].phase = "idle")
          => HasWholeManifest(pub[p].job.dir)]_pubVars

(***************************************************************************)
(* An interrupted document can be collected again.  As long as a document  *)
(* has no manifest, every file a publication of one of its versions would  *)
(* write is absent or has those bytes: raw bytes and text are named by     *)
(* their hash and appear by a link, so a death leaves nothing in the way.  *)
(***************************************************************************)
DocumentsCanBeRerun ==
    \A request \in Requests[theme] :
        request.kind = "document" =>
            LET job == DocumentJob(request) IN
            Present(<<job.dir, ManifestName>>) \/
            \A i \in DOMAIN job.files :
                Present(Path(job, i)) => disk.files[Path(job, i)] = Content(job, i)

(***************************************************************************)
(* The immutable families implement a write-once registry: a manifest      *)
(* appears under its identity once and is never altered or removed.  A     *)
(* specification is left out: two commands that write it in place may      *)
(* truncate each other's.                                                  *)
(***************************************************************************)
Registry ==
    [dir \in {d \in disk.dirs : d.of # "spec" /\ HasWholeManifest(d)} |-> ManifestAt(dir)]

Immutable == INSTANCE WriteOnce WITH registry <- Registry

ImplementsWriteOnce == Immutable!Spec

=============================================================================
