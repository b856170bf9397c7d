----------------------------- MODULE RunCatalog -----------------------------
(***************************************************************************)
(* The PostgreSQL run catalog of internal/metadata/postgres.go, seen from  *)
(* one data source: the ingestion_runs rows, keyed by run key, and the     *)
(* latest-only snapshot tables that FinalizeRun updates.                   *)
(*                                                                         *)
(* The callers are collector processes (Clients), which claim a run, work  *)
(* outside this module and finalize it, and operators, who look a run up   *)
(* and cancel it in two separate statements.  Every action is one          *)
(* PostgreSQL transaction or the death of a caller between transactions.   *)
(***************************************************************************)
EXTENDS Naturals

CONSTANTS
    RunKeys,      \* values of ingestion_runs.run_key
    Clients,      \* collector process slots
    Operators,    \* people running collector --cancel-run
    Candidates,   \* snapshot candidates a provider response can yield
    None          \* no run, no row, no candidate

(***************************************************************************)
(* A candidate is one observation of an entity (a security or a macro      *)
(* series), reduced to the fields its precedence is decided by: times are  *)
(* microseconds, as canonicalTime and timestamptz keep them.  A price      *)
(* candidate has revision 0, for PriceBar carries none.                    *)
(***************************************************************************)
CandidateFields ==
    [entity : Nat, observed : Nat, revision : Nat, available : Nat, ingested : Nat, hash : Nat]

Entities == {c.entity : c \in Candidates}

\* No statement of the code writes 'queued', the other active status.
Active   == {"running"}
Terminal == {"succeeded", "partial", "failed", "cancelled"}
Status   == {"absent"} \cup Active \cup Terminal

ErrorMessage == {"none", "collection", "operator"}

Row    == [candidate : Candidates, run : RunKeys]
Lookup == [run : RunKeys, status : Status]

ASSUME CandidatesAssumption ==
    /\ Candidates \subseteq CandidateFields
    /\ None \notin Candidates
    /\ None \notin RunKeys
    /\ None \notin Row
    /\ None \notin Lookup

VARIABLES
    status,       \* ingestion_runs.status by run key, "absent": no row
    errorMessage, \* ingestion_runs.error_message by run key
    snapshot,     \* the latest-only snapshot row of each entity, or None
    finalized,    \* every candidate committed by a FinalizeRun so far (history)
    client,       \* the run each live collector process holds, or None
    operator      \* the row each operator has looked up, or None

vars == <<status, errorMessage, snapshot, finalized, client, operator>>

(***************************************************************************)
(* The counters and error a collector passes to FinalizeRun.  Counters     *)
(* matter only as zero or not; "canceled" is context.Canceled somewhere in *)
(* the joined error.  Nothing is written or projected without a stored     *)
(* raw object, because every collect function stores before it writes.     *)
(***************************************************************************)
Metrics ==
    {m \in [err      : {"none", "error", "canceled"},
            written  : BOOLEAN,
            raw      : BOOLEAN,
            rejected : BOOLEAN] : m.written => m.raw}

classify(m) ==
    CASE m.err = "canceled"                        -> "cancelled"
      [] m.err = "error" /\ (m.written \/ m.raw)    -> "partial"
      [] m.err = "error" /\ ~(m.written \/ m.raw)   -> "failed"
      [] m.err = "none" /\ m.rejected               -> "partial"
      [] OTHER                                      -> "succeeded"

(***************************************************************************)
(* The precedence of the snapshot tables: observed_at, then revision (the  *)
(* macro table only), available_at, ingested_at and the raw payload hash.  *)
(* It is strict, so an equal candidate leaves the row alone.               *)
(***************************************************************************)
snapshotIsNewer(a, b) ==
    \/ a.observed > b.observed
    \/ /\ a.observed = b.observed
       /\ \/ a.revision > b.revision
          \/ /\ a.revision = b.revision
             /\ \/ a.available > b.available
                \/ /\ a.available = b.available
                   /\ \/ a.ingested > b.ingested
                      \/ a.ingested = b.ingested /\ a.hash > b.hash

(***************************************************************************)
(* One latest candidate per entity of the batch, None for an entity the    *)
(* batch does not mention.                                                 *)
(***************************************************************************)
CollapsesTo(batch, latest) ==
    \A e \in Entities :
        IF \E c \in batch : c.entity = e
        THEN /\ latest[e] \in {c \in batch : c.entity = e}
             /\ \A c \in batch : c.entity = e => ~snapshotIsNewer(c, latest[e])
        ELSE latest[e] = None

\* Faulty variant: the upsert has no WHERE, the last run to finish wins.
UpsertSnapshotsAlways(k, latest) ==
    [e \in Entities |->
        IF latest[e] # None THEN [candidate |-> latest[e], run |-> k] ELSE snapshot[e]]

(***************************************************************************)
(* INSERT ... ON CONFLICT DO UPDATE ... WHERE the candidate is newer.      *)
(***************************************************************************)
UpsertSnapshots(k, latest) ==
    [e \in Entities |->
        IF /\ latest[e] # None
           /\ snapshot[e] # None => snapshotIsNewer(latest[e], snapshot[e].candidate)
        THEN [candidate |-> latest[e], run |-> k]
        ELSE snapshot[e]]

-----------------------------------------------------------------------------

Init ==
    /\ status       = [k \in RunKeys |-> "absent"]
    /\ errorMessage = [k \in RunKeys |-> "none"]
    /\ snapshot     = [e \in Entities |-> None]
    /\ finalized    = {}
    /\ client       = [c \in Clients |-> None]
    /\ operator     = [o \in Operators |-> None]

\* Faulty variant: an active key is taken over instead of refused.
StartRunTakingOver(c, k) ==
    /\ client[c] = None
    /\ status[k] \in {"absent"} \cup Active
    /\ status' = [status EXCEPT ![k] = "running"]
    /\ client' = [client EXCEPT ![c] = k]
    /\ UNCHANGED <<errorMessage, snapshot, finalized, operator>>

(***************************************************************************)
(* StartRun: the insert claims a key that has no row.  Otherwise the row,  *)
(* read FOR UPDATE, makes the collector skip (succeeded) or give up        *)
(* ("already active", "already finished as ..."); neither changes it.      *)
(***************************************************************************)
StartRun(c, k) ==
    /\ client[c] = None
    /\ IF status[k] = "absent"
       THEN /\ status' = [status EXCEPT ![k] = "running"]
            /\ client' = [client EXCEPT ![c] = k]
       ELSE UNCHANGED <<status, client>>
    /\ UNCHANGED <<errorMessage, snapshot, finalized, operator>>

(***************************************************************************)
(* FinalizeRun, committed: the snapshot upserts and the terminal row are   *)
(* one transaction.  The candidates all carry the run's own provenance.    *)
(***************************************************************************)
FinalizeRun(c, m, batch) ==
    LET k == client[c] IN
    /\ k # None
    /\ status[k] \in Active
    /\ batch # {} => m.raw
    /\ finalized'    = finalized \cup [candidate : batch, run : {k}]
    /\ status'       = [status EXCEPT ![k] = classify(m)]
    /\ errorMessage' = [errorMessage EXCEPT ![k] =
                            IF m.err = "none" THEN "none" ELSE "collection"]
    /\ client'       = [client EXCEPT ![c] = None]
    /\ \E latest \in [Entities -> batch \cup {None}] :
          /\ CollapsesTo(batch, latest)
          /\ snapshot' = UpsertSnapshots(k, latest)
    /\ UNCHANGED operator

(***************************************************************************)
(* FinalizeRun, rolled back: the run is no longer active when the guarded  *)
(* UPDATE runs, or a statement or the commit fails, or the five second     *)
(* finish deadline passes.  The process ends without touching any table.   *)
(***************************************************************************)
FinalizeRunFails(c) ==
    /\ client[c] # None
    /\ client' = [client EXCEPT ![c] = None]
    /\ UNCHANGED <<status, errorMessage, snapshot, finalized, operator>>

(***************************************************************************)
(* LookupRun reads a row; CancelRun decides on the status that was read    *)
(* and then runs an UPDATE guarded by the status of that moment.           *)
(***************************************************************************)
LookupRun(o, k) ==
    /\ operator[o] = None
    /\ status[k] # "absent"
    /\ operator' = [operator EXCEPT ![o] = [run |-> k, status |-> status[k]]]
    /\ UNCHANGED <<status, errorMessage, snapshot, finalized, client>>

\* Faulty variant: the UPDATE trusts the status that was looked up.
CancelRunAsLookedUp(o) ==
    LET k == operator[o].run IN
    /\ operator[o] # None
    /\ IF operator[o].status \in Active
       THEN /\ status'       = [status EXCEPT ![k] = "cancelled"]
            /\ errorMessage' = [errorMessage EXCEPT ![k] = "operator"]
       ELSE UNCHANGED <<status, errorMessage>>
    /\ operator' = [operator EXCEPT ![o] = None]
    /\ UNCHANGED <<snapshot, finalized, client>>

CancelRun(o) ==
    LET k == operator[o].run IN
    /\ operator[o] # None
    /\ IF operator[o].status \in Active /\ status[k] \in Active
       THEN /\ status'       = [status EXCEPT ![k] = "cancelled"]
            /\ errorMessage' = [errorMessage EXCEPT ![k] = "operator"]
       ELSE UNCHANGED <<status, errorMessage>>
    /\ operator' = [operator EXCEPT ![o] = None]
    /\ UNCHANGED <<snapshot, finalized, client>>

Next ==
    \/ \E c \in Clients :
          \/ \E k \in RunKeys : StartRun(c, k)
          \/ \E m \in Metrics, batch \in SUBSET Candidates : FinalizeRun(c, m, batch)
          \/ FinalizeRunFails(c)
    \/ \E o \in Operators :
          \/ \E k \in RunKeys : LookupRun(o, k)
          \/ CancelRun(o)

Spec == Init /\ [][Next]_vars

-----------------------------------------------------------------------------

TypeOK ==
    /\ status       \in [RunKeys -> Status]
    /\ errorMessage \in [RunKeys -> ErrorMessage]
    /\ snapshot     \in [Entities -> Row \cup {None}]
    /\ finalized    \subseteq Row
    /\ client       \in [Clients -> RunKeys \cup {None}]
    /\ operator     \in [Operators -> Lookup \cup {None}]

(***************************************************************************)
(* A terminal row is final: no retry, no late finalization of a cancelled  *)
(* run and no cancellation decided on a stale lookup changes its status or *)
(* its error (finishRunSQL, cancelRunSQL, StartRun).                       *)
(***************************************************************************)
TerminalIsFinal ==
    [][\A k \in RunKeys :
          status[k] \in Terminal => /\ status'[k] = status[k]
                                    /\ errorMessage'[k] = errorMessage[k]]_vars

(***************************************************************************)
(* At most one collector process works on a run key: the loser of the      *)
(* insert of startRunSQL never performs the work.                          *)
(***************************************************************************)
OneOwner ==
    \A c, d \in Clients : client[c] # None /\ client[c] = client[d] => c = d

(***************************************************************************)
(* The projection moves only in the transaction that also finishes the run *)
(* it then names, and that run was not cancelled by an operator: the       *)
(* snapshot tables and ingestion_runs never disagree, whoever stops when   *)
(* (FinalizeRun, CancelRun).                                               *)
(***************************************************************************)
ProjectionMovesWithItsRun ==
    [][\A e \in Entities :
          snapshot'[e] # snapshot[e] =>
             LET k == snapshot'[e].run IN
             /\ status[k] \in Active
             /\ status'[k] \in Terminal \ {"failed"}
             /\ errorMessage'[k] # "operator"]_vars

(***************************************************************************)
(* Whatever the order in which runs of a source finish, the row of an      *)
(* entity is a committed candidate no committed candidate is newer than    *)
(* (collapseLatestPrices, collapseLatestMacros and the upserts' WHERE).    *)
(***************************************************************************)
ProjectionIsNewest ==
    \A e \in Entities :
       LET committed == {r \in finalized : r.candidate.entity = e} IN
       IF snapshot[e] = None
       THEN committed = {}
       ELSE /\ snapshot[e] \in committed
            /\ \A r \in committed : ~snapshotIsNewer(r.candidate, snapshot[e].candidate)

(***************************************************************************)
(* No revision, however high, brings an older observation back, and at the *)
(* same observation no lower revision does ("a high-revision historical    *)
(* row cannot displace a newer observation", macroSnapshotIsNewer).        *)
(***************************************************************************)
HistoryDoesNotDisplace ==
    \A r \in finalized :
       LET shown == snapshot[r.candidate.entity].candidate IN
       /\ r.candidate.observed <= shown.observed
       /\ r.candidate.observed = shown.observed => r.candidate.revision <= shown.revision

(***************************************************************************)
(* A run recorded as failed committed no candidate: a collection that had  *)
(* evidence to publish is partial at worst (classify).                     *)
(***************************************************************************)
FailedRunsPublishNothing ==
    \A r \in finalized : status[r.run] \in Terminal \ {"failed"}

=============================================================================
