----------------------------- MODULE PointInTime -----------------------------
(***************************************************************************)
(* Readers of the normalized store over time.  The collector publishes     *)
(* batches of rows, some long after they became available; a reader        *)
(* registers the catalogue (python/research/catalog.py) while the          *)
(* collector goes on, and asks one question as of a decision that may lie  *)
(* in the past.  What the store gains afterwards must not change the       *)
(* answer, unless it could have been known at the decision.                *)
(*                                                                         *)
(* The history rows are read through the same committed parts; in the code *)
(* the caller hands them to the resolvers.                                 *)
(***************************************************************************)
EXTENDS MarketReads

CONSTANTS
    Batches,     \* the rows published together, by the theme of a behaviour
    Keys,        \* tickers, listings and securities asked about, by theme
    MaxTime,     \* bounds the clock, by theme
    MaxDamage    \* bounds the parts and manifests damaged from outside, by theme

\* A part is written for at least one new row, and every row has its key, which has its place in
\* the order of the store, its dataset, its revision and the instant at which it became available.
ASSUME BatchesAssumption ==
    \A t \in DOMAIN Batches : \A batch \in Batches[t] :
       /\ IsFiniteSet(batch) /\ batch # {}
       /\ \A r \in batch : /\ {"id", "of", "revision", "available"} \subseteq DOMAIN r
                            /\ r.id \in Int /\ r.revision \in Int /\ r.available \in Int

VARIABLES
    now,
    theme,       \* what this behaviour is about
    manifests,   \* per dataset, the row count and the parts its manifest lists
    lost,        \* parts that are gone or no longer have their hash
    torn,        \* what a damaged manifest no longer lists
    view,        \* the catalogue being registered, and what was committed before
    asked        \* the question, its answer and what was known then

vars == <<now, theme, manifests, lost, torn, view, asked>>

\* A part is named by its content: it is the set of its rows.
DatasetsOf(t) == {r.of : r \in UNION Batches[t]}

Datasets == UNION {DatasetsOf(t) : t \in DOMAIN Batches}

RowsOf(parts) == UNION parts

Committed(dataset) == RowsOf(manifests[dataset].parts \cup torn[dataset])

AllCommitted == UNION {Committed(d) : d \in Datasets}

Ids(rows) == {r.id : r \in rows}

SumOfRows(parts) == Cardinality(UNION {{<<p, r>> : r \in p} : p \in parts})

\* An absent manifest has no parts.
HasManifest(dataset) == manifests[dataset].count > 0

Idle == [phase |-> "none", todo |-> {}, parts |-> {}, before |-> {}]

Init ==
    /\ now = 0
    /\ theme \in DOMAIN Batches
    /\ manifests = [d \in Datasets |-> [count |-> 0, parts |-> {}]]
    /\ lost = {}
    /\ torn = [d \in Datasets |-> {}]
    /\ view = Idle
    /\ asked = None

Tick ==
    /\ now < MaxTime[theme]
    /\ now' = now + 1
    /\ UNCHANGED <<theme, manifests, lost, torn, view, asked>>

\* The collector commits one batch: a part, and the manifest that lists it.
Publish(batch) ==
    LET dataset == (CHOOSE r \in batch : TRUE).of
        part == {Extended([recorded |-> now], r) : r \in batch}
    IN  /\ \A r \in batch : r.available <= now
        /\ Ids(batch) \cap Ids(AllCommitted) = {}
        /\ torn[dataset] = {}
        /\ manifests' = [manifests EXCEPT ![dataset] =
                            [count |-> @.count + Cardinality(part),
                             parts |-> @.parts \cup {part}]]
        /\ UNCHANGED <<now, theme, lost, torn, view, asked>>

-----------------------------------------------------------------------------
(***************************************************************************)
(* Something outside damages a committed file.                             *)
(***************************************************************************)
Undamaged == Cardinality(lost) + Cardinality(UNION {torn[d] : d \in Datasets}) < MaxDamage[theme]

LosePart(dataset, part) ==
    /\ Undamaged
    /\ lost' = lost \cup {part}
    /\ UNCHANGED <<now, theme, manifests, torn, view, asked>>

TearManifest(dataset, part) ==
    /\ Undamaged
    /\ manifests' = [manifests EXCEPT ![dataset].parts = @ \ {part}]
    /\ torn' = [torn EXCEPT ![dataset] = @ \cup {part}]
    /\ UNCHANGED <<now, theme, lost, view, asked>>

-----------------------------------------------------------------------------
(***************************************************************************)
(* Registration goes from one dataset to the next: its manifest is looked  *)
(* for, read and checked.  A dataset without one gets empty views.  Then   *)
(* the parts that are listed are verified and become the views.            *)
(***************************************************************************)
BeginRegister ==
    /\ view.phase = "none" /\ asked = None
    /\ view' = [phase |-> "reading",
                todo |-> DatasetsOf(theme),
                parts |-> {},
                before |-> AllCommitted]
    /\ UNCHANGED <<now, theme, manifests, lost, torn, asked>>

\* Faulty variant: the row count is not compared with the parts.
ManifestListsParts(manifest) == manifest.parts # {}

ManifestValid(manifest) ==
    /\ manifest.parts # {}
    /\ SumOfRows(manifest.parts) = manifest.count

\* The order of _DATASETS.  The history is read by others, at any time.
RegistrationOrder == <<"prices", "fundamentals", "macro", "filings", "fx">>

Precedes(d, e) ==
    \E i, j \in DOMAIN RegistrationOrder :
       i < j /\ RegistrationOrder[i] = d /\ RegistrationOrder[j] = e

ReadManifest(dataset) ==
    /\ view.phase = "reading" /\ dataset \in view.todo
    /\ \A d \in view.todo : ~Precedes(d, dataset)
    /\ view' = IF HasManifest(dataset) => ManifestValid(manifests[dataset])
               THEN [view EXCEPT !.todo = @ \ {dataset},
                                 !.parts = @ \cup manifests[dataset].parts]
               ELSE [Idle EXCEPT !.phase = "refused"]
    /\ UNCHANGED <<now, theme, manifests, lost, torn, asked>>

PartValid(part) ==
    /\ part \notin lost
    /\ \A r \in part : r.of = "fx" => FxContract(r)

VerifyParts ==
    /\ view.phase = "reading" /\ view.todo = {}
    /\ view' = IF \A p \in view.parts : PartValid(p)
               THEN [view EXCEPT !.phase = "registered"]
               ELSE [Idle EXCEPT !.phase = "refused"]
    /\ UNCHANGED <<now, theme, manifests, lost, torn, asked>>

-----------------------------------------------------------------------------
(***************************************************************************)
(* Questions.                                                              *)
(***************************************************************************)
Of(rows, dataset) == {r \in rows : r.of = dataset}

PriceParts(parts) == {p \in parts : \A r \in p : r.of = "prices"}

\* The answer to a question over the rows of some committed parts.
Answer(q, parts) ==
    LET rows == RowsOf(parts) IN
    CASE q.kind = "identifier" -> SecurityIdentifierAsOf(rows, q.key, q.asOf, q.decision)
      [] q.kind = "listings"   -> ListingsAsOf(rows, q.asOf, q.decision)
      [] q.kind = "universe"   -> UniverseAsOf(rows, q.asOf, q.decision)
      [] q.kind = "execution"  -> AfterCloseExecutionSession(Of(rows, "sessions"), q.decision)
      [] q.kind = "calendar"   -> CalendarManifestAsOf(Of(rows, "calendars"), q.decision)
      [] q.kind = "snapshot"   -> Found({ResearchSnapshot(Of(rows, "prices"), Of(rows, "fundamentals"),
                                                          Of(rows, "macro"), q.decision)})
      [] q.kind = "inputs"     -> Found(FundamentalInputs(Of(rows, "fundamentals"), q.decision)
                                        \cup MacroInputs(Of(rows, "macro"), q.decision))
      [] q.kind = "filings"    -> Found(FilingsAsOf(rows, q.decision, q.key))
      [] q.kind = "fx"         -> FxAsOf(rows, q.asOf, q.decision)
      [] q.kind = "adjusted"   ->
            LET actions == CorporateActionsAsOf(Of(rows, "actions"), q.decision) IN
            IF actions.refused THEN Refused
            ELSE AdjustedPrices(Of(rows, "prices"), PriceParts(parts), actions.rows, q.decision)

\* What the reader of each theme asks.
KindsOf == [identifiers  |-> {"identifier"},
            listings     |-> {"listings"},
            memberships  |-> {"universe"},
            calendars    |-> {"execution", "calendar"},
            observations |-> {"snapshot", "inputs"},
            filings      |-> {"filings"},
            fixings      |-> {"fx"},
            adjustments  |-> {"adjusted"}]

Questions(t) == IF t \in DOMAIN KindsOf THEN KindsOf[t] ELSE {}

Dated == {"identifier", "listings", "universe", "fx"}

Ask(kind, key, asOf, decision) ==
    LET q == [kind |-> kind, key |-> key, asOf |-> asOf, decision |-> decision] IN
    /\ view.phase = "registered"
    /\ view.parts \cap lost = {}
    /\ asked' = [question |-> q,
                 answer   |-> Answer(q, view.parts),
                 known    |-> Known(RowsOf(view.parts), decision),
                 prices   |-> PriceParts(view.parts)]
    /\ view' = Idle
    /\ UNCHANGED <<now, theme, manifests, lost, torn>>

GiveUp ==
    /\ view.phase \in {"registered", "refused"}
    /\ view' = Idle
    /\ UNCHANGED <<now, theme, manifests, lost, torn, asked>>

Next ==
    \/ Tick
    \/ \E b \in Batches[theme] : Publish(b)
    \/ \E d \in Datasets : \E p \in manifests[d].parts : LosePart(d, p) \/ TearManifest(d, p)
    \/ BeginRegister
    \/ \E d \in Datasets : ReadManifest(d)
    \/ VerifyParts
    \/ \E kind \in Questions(theme), key \in Keys[theme], decision \in 0..now :
          \E asOf \in (IF kind \in Dated THEN 0..MaxTime[theme] ELSE {0}) :
              Ask(kind, key, asOf, decision)
    \/ GiveUp

Spec == Init /\ [][Next]_vars

-----------------------------------------------------------------------------
(***************************************************************************)
(* Properties.                                                             *)
(***************************************************************************)
\* Every committed part, the ones a damaged manifest dropped included.
CommittedParts == UNION {manifests[d].parts \cup torn[d] : d \in Datasets}

(***************************************************************************)
(* An answer depends on what could be known at its decision and on nothing *)
(* the store gained later: asked again over everything committed since,    *)
(* the question has the same answer, as long as no row that was available  *)
(* by the decision has been recorded in between.  No resolver or query of  *)
(* historical.py, catalog.py and fx.py looks past the cutoff, and an       *)
(* action announced later moves no bar of an earlier adjusted series.  The *)
(* adjusted series also needs the price part it was read from.             *)
(***************************************************************************)
AnswersDependOnKnownRows ==
    asked # None =>
        LET q == asked.question IN
        (/\ Known(AllCommitted, q.decision) = asked.known
         /\ q.kind = "adjusted" => PriceParts(CommittedParts) = asked.prices)
        => Answer(q, CommittedParts) = asked.answer

Families(rows, kind) ==
    CASE kind = "identifiers" -> [r \in rows |-> <<r.key, r.value, r.from>>]
      [] kind \in {"listings", "memberships"} -> [r \in rows |-> <<r.key, r.from>>]
      [] kind = "adjustments" -> [r \in rows |-> r.event]

\* The rows the resolvers of a theme select for a moment of the world.
Resolved(rows, kind, asOf, decision) ==
    CASE kind = "identifiers" ->
            UNION {SecurityIdentifierAsOf(rows, k, asOf, decision).rows : k \in Keys[kind]}
      [] kind = "listings"    -> ListingsAsOf(rows, asOf, decision).rows
      [] kind = "memberships" ->
            UNION {MembershipAsOf(rows, k, asOf, decision).rows : k \in {r.key : r \in rows}}
      [] kind = "adjustments" -> CorporateActionsAsOf(rows, decision).rows

(***************************************************************************)
(* A superseded assertion never leaks.  Whatever moment is asked about, a  *)
(* row the resolvers return has no correction of its own family that was   *)
(* knowable at the decision and outranks it: a notice that ends an         *)
(* interval earlier, reverses a membership or cancels an action silences   *)
(* the row it corrects (_collapse_revisions before _interval_contains).    *)
(***************************************************************************)
SupersededNeverLeaks ==
    theme \in {"identifiers", "listings", "memberships", "adjustments"} =>
        LET rows == IF theme = "adjustments" THEN Of(AllCommitted, "actions") ELSE AllCommitted
            family == Families(rows, theme)
        IN  \A decision \in 0..now, asOf \in 0..MaxTime[theme] :
                \A r \in Resolved(rows, theme, asOf, decision) :
                    ~\E s \in Known(rows, decision) :
                        family[s] = family[r] /\ RanksAbove(s, r)

(***************************************************************************)
(* A catalogue that registers has every row committed before it began, and *)
(* no row that was never committed, although it reads one manifest after   *)
(* the other while the collector publishes, and although parts or          *)
(* manifests were damaged: then it refuses.                                *)
(***************************************************************************)
CatalogIsComplete ==
    view.phase = "registered" =>
        /\ view.before \subseteq RowsOf(view.parts)
        /\ RowsOf(view.parts) \subseteq AllCommitted

\* Macro rows of one series whose revisions become available in their order: a further row of an
\* observation has the next revision, and its vintage is no later than its availability.
RevisionsInOrder ==
    "observations" \in DOMAIN Batches =>
        LET macro == {r \in UNION Batches["observations"] : r.of = "macro"} IN
        \A r, s \in macro :
            /\ {"series", "observed"} \subseteq DOMAIN r
            /\ r.observed \in Int /\ r.series = s.series
            /\ r.vintage # None => r.vintage <= r.available
            /\ r.observed = s.observed /\ r.revision >= s.revision => r.available >= s.available
            /\ r.observed = s.observed /\ r.revision = s.revision => r = s

(***************************************************************************)
(* The two readers agree.  The macro row of the joined snapshot is the     *)
(* newest observation of point_in_time_inputs at the same decision, and    *)
(* its fundamental row is one of theirs, although the two queries order    *)
(* their rows differently: the revisions of one observation become         *)
(* available in their order.                                               *)
(***************************************************************************)
SnapshotAgreesWithInputs ==
    theme = "observations" =>
        LET rows == AllCommitted IN
        \A decision \in 0..now :
            LET snapshot == ResearchSnapshot(Of(rows, "prices"), Of(rows, "fundamentals"),
                                             Of(rows, "macro"), decision)
                macro == MacroInputs(Of(rows, "macro"), decision)
            IN  /\ snapshot.fundamental
                     \subseteq FundamentalInputs(Of(rows, "fundamentals"), decision)
                /\ snapshot.macro = {r \in macro : \A s \in macro : s.observed <= r.observed}

-----------------------------------------------------------------------------
\* The closes of a security that only its own actions move.
Closes(days, actions) ==
    LET close[day \in 0..days] ==
            IF day = 0 THEN <<24, 1>>
            ELSE LET today == {a \in actions : Day(a.observed) = day}
                     cash == {a \in today : a.type = "cash_dividend"}
                     paid == IF cash = {} THEN 0 ELSE (CHOOSE a \in cash : TRUE).cash
                 IN  Times(<<close[day - 1][1] - paid * close[day - 1][2], close[day - 1][2]>>,
                           Product({a \in today : a.type = "split"}, LAMBDA a : <<a.pre, a.post>>))
    IN  close

(***************************************************************************)
(* Adjustment removes exactly what the actions did.  A security whose raw  *)
(* closes move only because of its own splits and dividends has a flat     *)
(* adjusted series, whichever of them comes first and whatever corrections *)
(* have done to them (_adjust_rows; one dividend a day: two on a day are   *)
(* compounded from the same prior close).                                  *)
(***************************************************************************)
AdjustedSeriesIsFlat ==
    theme = "adjustments" =>
        \A decision \in 0..now :
            LET resolved == CorporateActionsAsOf(Of(AllCommitted, "actions"), decision).rows
                selected == SelectActions(resolved, decision)
                close == Closes(Day(decision), selected.rows)
                raw == {[observed |-> d * UnitsPerDay, close |-> close[d]] : d \in DOMAIN close}
            IN  (~selected.refused /\ Adjustable(raw, selected.rows)) =>
                    \A x, y \in AdjustRows(raw, selected.rows) : Same(x.adjusted, y.adjusted)

=============================================================================
