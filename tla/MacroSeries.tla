----------------------------- MODULE MacroSeries -----------------------------
(***************************************************************************)
(* One current-vintage macro series (sources fred and bcb), from the       *)
(* provider's answer to the dashboard: WriteEconomics turns changed values *)
(* into new revisions of the Parquet partition, and FinalizeRun projects   *)
(* the observations, with the revisions WriteEconomics put into them, into *)
(* market_macro_snapshots.  The collector may stop between the two.        *)
(*                                                                         *)
(* One run at a time writes the series; what happens inside a write and    *)
(* when writers overlap is the subject of NormalizedStore, and concurrent  *)
(* finalizations that of RunCatalog.                                       *)
(***************************************************************************)
EXTENDS Naturals, FiniteSets, SequencesExt, FiniteSetsExt

CONSTANTS
    Dates,    \* observed_at: positive microseconds
    Values,   \* canonical decimals
    MaxRuns,  \* bound on the number of runs
    None      \* no snapshot row

ASSUME DatesAssumption ==
    /\ Dates \subseteq Nat \ {0}
    /\ MaxRuns \in Nat

Stamps == 1..MaxRuns   \* a run's ingested_at, its rows' published_at and available_at
Row    == [observed : Dates, published : Stamps, revision : Nat, value : Values]

ASSUME NoneAssumption == None \notin Row

VARIABLES
    parts,     \* the committed parts, in manifest order
    clock,     \* the stamp of the latest run
    inFlight,  \* the observations a run has written and not yet finalized, or {}
    outcome,   \* how the latest step of a run ended
    snapshot,  \* the market_macro_snapshots row of the series, or None
    served     \* the values each date was collected with, one entry a change (history)

vars == <<parts, clock, inFlight, outcome, snapshot, served>>

Response == UNION {[D -> Values] : D \in (SUBSET Dates) \ {{}}}

Committed == UNION {parts[i] : i \in DOMAIN parts}

RowsOf(d) == {r \in Committed : r.observed = d}

latestEconomic(d) ==
    CHOOSE r \in RowsOf(d) : \A s \in RowsOf(d) : s.revision <= r.revision

\* Faulty variant: a value the date ever had is not a change.
UnchangedByValue(response, d) == \E r \in RowsOf(d) : r.value = response[d]

Unchanged(response, d) == RowsOf(d) # {} /\ latestEconomic(d).value = response[d]

\* Faulty variant: an unchanged observation keeps the adapter's revision.
EffectiveRevisionAsReceived(response, d) ==
    IF RowsOf(d) = {} \/ Unchanged(response, d) THEN 0 ELSE latestEconomic(d).revision + 1

(***************************************************************************)
(* The adapters send revision 0; a change gets the next ordinal of the     *)
(* date and an unchanged observation the committed one.                    *)
(***************************************************************************)
EffectiveRevision(response, d) ==
    IF RowsOf(d) = {} THEN 0
    ELSE latestEconomic(d).revision + (IF Unchanged(response, d) THEN 0 ELSE 1)

Observation(response, d) ==
    [observed |-> d, published |-> clock + 1,
     revision |-> EffectiveRevision(response, d), value |-> response[d]]

Observations(response) == {Observation(response, d) : d \in DOMAIN response}

(***************************************************************************)
(* economicKey orders rows as text: observed_at, published_at and revision *)
(* in decimal, so 10 comes before 9.                                       *)
(***************************************************************************)
Digits(n) == CHOOSE w \in 1..(n + 1) : 10^(w - 1) <= n /\ n < 10^w

TextBefore(m, n) ==
    IF Digits(m) <= Digits(n)
    THEN m # n /\ m * 10^(Digits(n) - Digits(m)) <= n
    ELSE m < n * 10^(Digits(m) - Digits(n))

\* Rows of one series differ in date or in stamp.
KeyBefore(r, s) ==
    \/ TextBefore(r.observed, s.observed)
    \/ r.observed = s.observed /\ TextBefore(r.published, s.published)

(***************************************************************************)
(* slices.Equal(existing, rows): the parts one after the other, each       *)
(* sorted by key, are the whole partition sorted by key.                   *)
(***************************************************************************)
InKeyOrder ==
    \A i, j \in DOMAIN parts : i < j => \A r \in parts[i], s \in parts[j] : KeyBefore(r, s)

(***************************************************************************)
(* macroSnapshotIsNewer, for candidates of one series, whose available_at  *)
(* and ingested_at are the run's stamp.                                    *)
(***************************************************************************)
macroSnapshotIsNewer(r, s) ==
    \/ r.observed > s.observed
    \/ /\ r.observed = s.observed
       /\ \/ r.revision > s.revision
          \/ r.revision = s.revision /\ r.published > s.published

-----------------------------------------------------------------------------

Init ==
    /\ parts = <<>>
    /\ clock = 0
    /\ inFlight = {}
    /\ outcome = "none"
    /\ snapshot = None
    /\ served = [d \in Dates |-> <<>>]

\* The rows a response adds to the partition.
NewRows(response) ==
    {Observation(response, d) : d \in {d \in DOMAIN response : ~Unchanged(response, d)}}

\* The response as a reader of the provider's pages would note it down.
Note(response) ==
    [d \in Dates |->
        IF d \in DOMAIN response /\ (served[d] = <<>> \/ Last(served[d]).value # response[d])
        THEN Append(served[d], [value |-> response[d], at |-> clock + 1])
        ELSE served[d]]

(***************************************************************************)
(* WriteEconomics, published or, with nothing new, left as it is: the      *)
(* observations take their effective revisions only on success.            *)
(***************************************************************************)
WriteEconomics(response) ==
    /\ inFlight = {} /\ clock < MaxRuns
    /\ NewRows(response) # {} \/ InKeyOrder
    /\ parts' = IF NewRows(response) = {} THEN parts ELSE Append(parts, NewRows(response))
    /\ inFlight' = Observations(response)
    /\ served' = Note(response)
    /\ outcome' = "written"
    /\ clock' = clock + 1
    /\ UNCHANGED snapshot

(***************************************************************************)
(* WriteEconomics, refused: metadataFromRows has no row to take metadata   *)
(* from and the partition does not read back in key order.                 *)
(***************************************************************************)
WriteEconomicsRefused(response) ==
    /\ inFlight = {} /\ clock < MaxRuns
    /\ NewRows(response) = {} /\ ~InKeyOrder
    /\ outcome' = "refused"
    /\ clock' = clock + 1
    /\ UNCHANGED <<parts, inFlight, snapshot, served>>

\* Faulty variant: the batch's first candidate is taken for its latest.
FinalizeRunUncollapsed ==
    /\ inFlight # {}
    /\ \E first \in inFlight :
          /\ \A r \in inFlight : first.observed <= r.observed
          /\ snapshot' = IF snapshot = None \/ macroSnapshotIsNewer(first, snapshot)
                         THEN first ELSE snapshot
    /\ inFlight' = {}
    /\ outcome' = "finalized"
    /\ UNCHANGED <<parts, clock, served>>

(***************************************************************************)
(* FinalizeRun: collapseLatestMacros and the guarded upsert.               *)
(***************************************************************************)
FinalizeRun ==
    /\ inFlight # {}
    /\ \E latest \in inFlight :
          /\ \A r \in inFlight : ~macroSnapshotIsNewer(r, latest)
          /\ snapshot' = IF snapshot = None \/ macroSnapshotIsNewer(latest, snapshot)
                         THEN latest ELSE snapshot
    /\ inFlight' = {}
    /\ outcome' = "finalized"
    /\ UNCHANGED <<parts, clock, served>>

(***************************************************************************)
(* The process dies, or its finalization is rolled back: the revisions are *)
(* published and the dashboard has not heard of them.                      *)
(***************************************************************************)
StopRun ==
    /\ inFlight # {}
    /\ inFlight' = {}
    /\ outcome' = "stopped"
    /\ UNCHANGED <<parts, clock, snapshot, served>>

Next ==
    \/ \E response \in Response : WriteEconomics(response) \/ WriteEconomicsRefused(response)
    \/ FinalizeRun
    \/ StopRun

Spec == Init /\ [][Next]_vars

-----------------------------------------------------------------------------

TypeOK ==
    /\ parts \in Seq((SUBSET Row) \ {{}})
    /\ clock \in 0..MaxRuns
    /\ inFlight \subseteq Row
    /\ outcome \in {"none", "written", "refused", "finalized", "stopped"}
    /\ snapshot \in Row \cup {None}
    /\ served \in [Dates -> Seq([value : Values, at : Stamps])]

(***************************************************************************)
(* The partition tells the history the provider served: the n-th value a   *)
(* date was collected with is its revision n - 1, stamped with the run     *)
(* that saw the change, an A -> B -> A history keeps three rows, and there *)
(* is nothing else (WriteEconomics; "Macro revisions preserve an A -> B -> *)
(* A history rather than collapsing by value").  A reader as of any        *)
(* available_at therefore finds the value known then.                      *)
(***************************************************************************)
RevisionsTellTheHistory ==
    \A d \in Dates :
       RowsOf(d) = {[observed |-> d, published |-> served[d][n].at,
                     revision |-> n - 1, value |-> served[d][n].value] : n \in DOMAIN served[d]}

(***************************************************************************)
(* The dashboard never shows a value under a revision the Parquet history  *)
(* does not have it under, although the run that wrote the row and the run *)
(* that projected it may differ ("so callers can publish the same          *)
(* effective revisions in their snapshots").                               *)
(***************************************************************************)
SnapshotIsCommitted ==
    snapshot # None =>
       \E r \in Committed : /\ r.observed = snapshot.observed
                            /\ r.revision = snapshot.revision
                            /\ r.value = snapshot.value

(***************************************************************************)
(* A finalized run leaves the dashboard at least at the newest revision of *)
(* every date it collected, also when an earlier run published the         *)
(* revision and stopped before it was projected.                           *)
(***************************************************************************)
FinalizedRunCatchesUp ==
    [][outcome' = "finalized" =>
          \A o \in inFlight : \A r \in RowsOf(o.observed) :
             \/ r.observed < snapshot'.observed
             \/ r.observed = snapshot'.observed /\ r.revision <= snapshot'.revision]_vars

=============================================================================
