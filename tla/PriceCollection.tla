--------------------------- MODULE PriceCollection ---------------------------
(***************************************************************************)
(* collectPrices of cmd/collector/main.go across the three stores it       *)
(* writes: per security the raw response, then the normalized bars; at the *)
(* end the run's raw manifest and the FinalizeRun transaction of           *)
(* RunCatalog.  A process may die between any two of these, a signal may   *)
(* cancel its context, and an operator may cancel the run it left behind.  *)
(*                                                                         *)
(* Run keys are numbered in the order they are claimed, and the number is  *)
(* the run's clock: a bar is a candidate whose ingested field is the run   *)
(* that fetched it and whose hash stands for its canonical content.  The   *)
(* store operations are one step each; what can happen inside a normalized *)
(* write is the subject of NormalizedStore.                                *)
(***************************************************************************)
EXTENDS RunCatalog, FiniteSets

VARIABLES
    raw,        \* <<security, run>> of the responses in the raw store
    table,      \* the bars committed to the price partitions
    manifest,   \* the raw manifests stored, with the securities each lists
    work,       \* what each live collector process holds in memory, or None
    confirmed   \* <<security, observed>> of the bars succeeded runs collected (history)

collectionVars == <<vars, raw, table, manifest, work, confirmed>>
storeVars      == <<raw, table, manifest, confirmed>>

Securities == Entities
Session    == {c.observed : c \in Candidates}

(***************************************************************************)
(* The locals of collectPrices.  response is the set of bars of the        *)
(* security at hand, between storeRaw and the write, or {}.                *)
(***************************************************************************)
Work ==
    [todo      : SUBSET Securities,
     response  : SUBSET Candidates,
     stored    : SUBSET Securities,      \* m.Manifest's entries
     seen      : SUBSET (Securities \X Session),
     accepted  : SUBSET Candidates,      \* the snapshots slice
     written   : BOOLEAN,                \* m.OutputRows > 0
     rejected  : BOOLEAN,                \* m.Rejected > 0
     err       : {"none", "error", "canceled"},
     signalled : BOOLEAN,                \* ctx is canceled
     published : BOOLEAN]                \* the raw manifest is stored

ASSUME WorkAssumption ==
    /\ None \notin Work
    /\ \A c \in Candidates : c.ingested \in RunKeys

Fresh == [todo |-> Securities, response |-> {}, stored |-> {}, seen |-> {}, accepted |-> {},
          written |-> FALSE, rejected |-> FALSE, err |-> "none",
          signalled |-> FALSE, published |-> FALSE]

\* The bars a provider can answer run k with for security s, possibly none.
Responses(s, k) ==
    {B \in SUBSET {c \in Candidates : c.entity = s /\ c.ingested = k} :
        \A a, b \in B : a.observed = b.observed => a = b}

SameKey(a, b) == a.entity = b.entity /\ a.observed = b.observed

\* WritePricesQuarantining: the bars whose natural key is not committed yet.
Admitted(bars) == {b \in bars : \A r \in table : ~SameKey(r, b)}

\* context.Canceled anywhere in the joined error is what classify sees.
Join(e, f) ==
    IF "canceled" \in {e, f} THEN "canceled" ELSE IF "error" \in {e, f} THEN "error" ELSE "none"

MetricsOf(w) ==
    [err      |-> Join(w.err, IF w.rejected THEN "error" ELSE "none"),
     written  |-> w.written,
     raw      |-> w.stored # {},
     rejected |-> w.rejected]

Busy(c) == work[c] # None

-----------------------------------------------------------------------------

CollectionInit ==
    /\ Init
    /\ raw = {}
    /\ table = {}
    /\ manifest = {}
    /\ work = [c \in Clients |-> None]
    /\ confirmed = {}

\* start: a key that has a row gives no work.
Start(c, k) ==
    /\ ~Busy(c)
    /\ status[k] = "absent" /\ \A j \in RunKeys : j < k => status[j] # "absent"
    /\ StartRun(c, k)
    /\ work' = [work EXCEPT ![c] = Fresh]
    /\ UNCHANGED storeVars

\* SIGTERM or an interrupt: the context of the collection is canceled.
Signal(c) ==
    /\ Busy(c) /\ ~work[c].signalled
    /\ work' = [work EXCEPT ![c].signalled = TRUE]
    /\ UNCHANGED <<vars, storeVars>>

(***************************************************************************)
(* The provider does not answer, or not usably, or the Put fails; with     *)
(* evidence, the response that failed to parse is kept.  A canceled        *)
(* context fails every request and every Put.                              *)
(***************************************************************************)
CollectFails(c, s, evidence) ==
    /\ Busy(c) /\ s \in work[c].todo /\ work[c].response = {}
    /\ work[c].signalled => ~evidence
    /\ raw' = IF evidence THEN raw \cup {<<s, client[c]>>} ELSE raw
    /\ work' = [work EXCEPT ![c].todo   = @ \ {s},
                            ![c].stored = IF evidence THEN @ \cup {s} ELSE @,
                            ![c].err    = Join(@, IF work[c].signalled THEN "canceled" ELSE "error")]
    /\ UNCHANGED <<vars, table, manifest, confirmed>>

\* Faulty variant: a failed Put does not stop the security.
StoreRawErrorIgnored(c, s, bars, rejected) ==
    /\ Busy(c) /\ s \in work[c].todo /\ work[c].response = {} /\ ~work[c].signalled
    /\ work' = [work EXCEPT ![c].todo     = @ \ {s},
                            ![c].response = bars,
                            ![c].stored   = @ \cup {s},
                            ![c].seen     = @ \cup {<<b.entity, b.observed>> : b \in bars},
                            ![c].rejected = @ \/ rejected]
    /\ UNCHANGED <<vars, raw, table, manifest, confirmed>>

(***************************************************************************)
(* Collect and storeRaw.                                                   *)
(***************************************************************************)
StoreRaw(c, s, bars, rejected) ==
    /\ Busy(c) /\ s \in work[c].todo /\ work[c].response = {} /\ ~work[c].signalled
    /\ raw' = raw \cup {<<s, client[c]>>}
    /\ work' = [work EXCEPT ![c].todo     = @ \ {s},
                            ![c].response = bars,
                            ![c].stored   = @ \cup {s},
                            ![c].seen     = @ \cup {<<b.entity, b.observed>> : b \in bars},
                            ![c].rejected = @ \/ rejected]
    /\ UNCHANGED <<vars, table, manifest, confirmed>>

(***************************************************************************)
(* WritePricesQuarantining: committed bars stay as they are, only new ones *)
(* are written and only those become snapshot candidates.                  *)
(***************************************************************************)
WritePrices(c) ==
    LET new == Admitted(work[c].response) IN
    /\ Busy(c) /\ work[c].response # {}
    /\ table' = table \cup new
    /\ work' = [work EXCEPT ![c].response = {},
                            ![c].accepted = @ \cup new,
                            ![c].written  = @ \/ new # {}]
    /\ UNCHANGED <<vars, raw, manifest, confirmed>>

\* Faulty variant: the bars are projected although the write failed.
WritePricesFailsUnnoticed(c, committed) ==
    LET new == Admitted(work[c].response) IN
    /\ Busy(c) /\ work[c].response # {}
    /\ table' = IF committed THEN table \cup new ELSE table
    /\ work' = [work EXCEPT ![c].response = {}, ![c].err = Join(@, "error"),
                            ![c].accepted = @ \cup new]
    /\ UNCHANGED <<vars, raw, manifest, confirmed>>

\* Faulty variant: the error of the write is logged and dropped.
WritePricesFailsSilently(c, committed) ==
    LET new == Admitted(work[c].response) IN
    /\ Busy(c) /\ work[c].response # {}
    /\ table' = IF committed THEN table \cup new ELSE table
    /\ work' = [work EXCEPT ![c].response = {}]
    /\ UNCHANGED <<vars, raw, manifest, confirmed>>

(***************************************************************************)
(* The write returns an error, before the manifest is renamed or after     *)
(* (the directory sync that follows the rename failed).                    *)
(***************************************************************************)
WritePricesFails(c, committed) ==
    LET new == Admitted(work[c].response) IN
    /\ Busy(c) /\ work[c].response # {}
    /\ table' = IF committed THEN table \cup new ELSE table
    /\ work' = [work EXCEPT ![c].response = {}, ![c].err = Join(@, "error")]
    /\ UNCHANGED <<vars, raw, manifest, confirmed>>

\* Every security has been tried.
Collected(c) == Busy(c) /\ work[c].todo = {} /\ work[c].response = {}

\* Faulty variant: a raw manifest that cannot be stored does not end the run.
PublishRawManifestOrNot(c) ==
    /\ Collected(c) /\ ~work[c].published
    /\ \/ manifest' = manifest \cup {[run |-> client[c], lists |-> work[c].stored]}
       \/ UNCHANGED manifest
    /\ work' = [work EXCEPT ![c].published = TRUE]
    /\ UNCHANGED <<vars, raw, table, confirmed>>

(***************************************************************************)
(* finish, its first half: PublishRawManifest, under a context that is not *)
(* canceled.  When it fails the process ends and the run stays active.     *)
(***************************************************************************)
PublishRawManifest(c) ==
    /\ Collected(c) /\ ~work[c].published
    /\ manifest' = manifest \cup {[run |-> client[c], lists |-> work[c].stored]}
    /\ work' = [work EXCEPT ![c].published = TRUE]
    /\ UNCHANGED <<vars, raw, table, confirmed>>

(***************************************************************************)
(* finish, its second half: the FinalizeRun transaction.                   *)
(***************************************************************************)
Finish(c) ==
    LET m == MetricsOf(work[c]) IN
    /\ Collected(c) /\ work[c].published
    /\ FinalizeRun(c, m, work[c].accepted)
    /\ work' = [work EXCEPT ![c] = None]
    /\ confirmed' = IF classify(m) = "succeeded" THEN confirmed \cup work[c].seen ELSE confirmed
    /\ UNCHANGED <<raw, table, manifest>>

\* The process dies, or finish returns an error.
Die(c) ==
    /\ Busy(c)
    /\ FinalizeRunFails(c)
    /\ work' = [work EXCEPT ![c] = None]
    /\ UNCHANGED storeVars

Operate ==
    /\ \E o \in Operators : (\E k \in RunKeys : LookupRun(o, k)) \/ CancelRun(o)
    /\ UNCHANGED <<storeVars, work>>

CollectionNext ==
    \/ \E c \in Clients :
          \/ \E k \in RunKeys : Start(c, k)
          \/ Signal(c)
          \/ \E s \in Securities, evidence \in BOOLEAN : CollectFails(c, s, evidence)
          \/ \E s \in Securities, rejected \in BOOLEAN :
                \E bars \in Responses(s, client[c]) : StoreRaw(c, s, bars, rejected)
          \/ WritePrices(c)
          \/ \E committed \in BOOLEAN : WritePricesFails(c, committed)
          \/ PublishRawManifest(c)
          \/ Finish(c)
          \/ Die(c)
    \/ Operate

CollectionSpec == CollectionInit /\ [][CollectionNext]_collectionVars

-----------------------------------------------------------------------------

CollectionTypeOK ==
    /\ TypeOK
    /\ raw \subseteq Securities \X RunKeys
    /\ table \subseteq Candidates
    /\ manifest \subseteq [run : RunKeys, lists : SUBSET Securities]
    /\ work \in [Clients -> Work \cup {None}]
    /\ \A c \in Clients : Busy(c) <=> client[c] # None
    /\ confirmed \subseteq Securities \X Session

(***************************************************************************)
(* No bar is ever committed without the response it came from: evidence    *)
(* first, whoever stops when ("continue" after every storeRaw error).      *)
(***************************************************************************)
BarsHaveEvidence == \A r \in table : <<r.entity, r.ingested>> \in raw

(***************************************************************************)
(* The dashboard shows committed history only: every projected bar is a    *)
(* row of the Parquet table, first seen by the run the projection names.   *)
(***************************************************************************)
ProjectionIsCommitted ==
    \A s \in Securities :
       snapshot[s] # None => /\ snapshot[s].candidate \in table
                             /\ snapshot[s].run = snapshot[s].candidate.ingested

(***************************************************************************)
(* A run that recorded its own end can be replayed from its raw manifest:  *)
(* the manifest exists, lists stored responses only, and lists one for     *)
(* every bar the run committed (finish publishes it before FinalizeRun).   *)
(***************************************************************************)
FinishedRunsCanBeReplayed ==
    \A k \in RunKeys :
       status[k] \in Terminal /\ errorMessage[k] # "operator" =>
          \E f \in manifest :
             /\ f.run = k
             /\ \A s \in f.lists : <<s, k>> \in raw
             /\ \A r \in table : r.ingested = k => r.entity \in f.lists

(***************************************************************************)
(* A succeeded run is complete: it has evidence of every security, and     *)
(* every bar it committed was offered to the projection.                   *)
(***************************************************************************)
SucceededRunsAreComplete ==
    \A k \in RunKeys :
       status[k] = "succeeded" =>
          /\ [run |-> k, lists |-> Securities] \in manifest
          /\ \A r \in table : r.ingested = k => [candidate |-> r, run |-> k] \in finalized

(***************************************************************************)
(* A bar that a succeeded run collected is on the dashboard, or a newer    *)
(* one of its security is ("a PostgreSQL state machine make interrupted    *)
(* work safe to reconcile and rerun", architecture.md).                    *)
(***************************************************************************)
ConfirmedBarsAreProjected ==
    \A bar \in confirmed :
       snapshot[bar[1]] # None /\ snapshot[bar[1]].candidate.observed >= bar[2]

=============================================================================
