---------------------------- MODULE RunCatalogTx ----------------------------
(***************************************************************************)
(* FinalizeRun statement by statement.  RunCatalog takes the transaction   *)
(* for one step; here its upserts, its guarded UPDATE and its COMMIT       *)
(* interleave with those of other collectors and with cancellations, under *)
(* the row locks of PostgreSQL's READ COMMITTED: a statement that writes a *)
(* row waits for the transaction that holds it and then sees what that     *)
(* one committed.  TxSpec implements Spec with tx hidden.                  *)
(***************************************************************************)
EXTENDS RunCatalog

VARIABLE tx  \* the open FinalizeRun transaction of each collector, or None

txVars == <<vars, tx>>

Tx == [batch   : SUBSET Candidates,
       latest  : [Entities -> Candidates \cup {None}],  \* the collapsed batch
       locked  : SUBSET Entities,                       \* snapshot rows upserted so far
       rows    : [Entities -> Row \cup {None}],         \* and what this transaction sees there
       updated : BOOLEAN]                               \* the run row is updated and locked

ASSUME TxAssumption == None \notin Tx

Open(c) == tx[c] # None

RunLocked(k)  == \E c \in Clients : Open(c) /\ tx[c].updated /\ client[c] = k
LockedByOther(c, e) == \E d \in Clients \ {c} : Open(d) /\ e \in tx[d].locked

TxInit == Init /\ tx = [c \in Clients |-> None]

(***************************************************************************)
(* prepareFinalizationSnapshots and BEGIN.                                 *)
(***************************************************************************)
Begin(c, batch) ==
    /\ client[c] # None /\ ~Open(c)
    /\ \E latest \in [Entities -> batch \cup {None}] :
          /\ CollapsesTo(batch, latest)
          /\ tx' = [tx EXCEPT ![c] = [batch |-> batch, latest |-> latest,
                                      locked |-> {}, rows |-> [e \in Entities |-> None],
                                      updated |-> FALSE]]
    /\ UNCHANGED vars

(***************************************************************************)
(* One upsert, in whatever order the batch first mentions the entities.    *)
(* ON CONFLICT DO UPDATE locks the row even when its WHERE rejects.        *)
(***************************************************************************)
Upsert(c, e) ==
    /\ Open(c) /\ tx[c].latest[e] # None /\ e \notin tx[c].locked
    /\ ~LockedByOther(c, e)
    /\ tx' = [tx EXCEPT ![c].locked  = @ \cup {e},
                        ![c].rows[e] = UpsertSnapshots(client[c], tx[c].latest)[e]]
    /\ UNCHANGED vars

(***************************************************************************)
(* finishRunSQL, when it affects one row.                                  *)
(***************************************************************************)
UpdateRun(c) ==
    /\ Open(c) /\ ~tx[c].updated
    /\ \A e \in Entities : tx[c].latest[e] # None => e \in tx[c].locked
    /\ status[client[c]] \in Active
    /\ tx' = [tx EXCEPT ![c].updated = TRUE]
    /\ UNCHANGED vars

\* Faulty variant: the upserts are committed before the run is finished.
CommitSnapshotsFirst(c, m) ==
    /\ Open(c) /\ tx[c].updated
    /\ tx[c].batch # {} => m.raw
    /\ snapshot' = [e \in Entities |-> IF e \in tx[c].locked THEN tx[c].rows[e] ELSE snapshot[e]]
    /\ finalized' = finalized \cup [candidate : tx[c].batch, run : {client[c]}]
    /\ tx' = [tx EXCEPT ![c].locked = {}]
    /\ UNCHANGED <<status, errorMessage, client, operator>>

(***************************************************************************)
(* COMMIT.  The metrics are bound to the UPDATE before; they are chosen    *)
(* here because nothing reads them in between.                             *)
(***************************************************************************)
Commit(c, m) ==
    LET k == client[c]
        t == tx[c] IN
    /\ Open(c) /\ t.updated
    /\ t.batch # {} => m.raw
    /\ snapshot'     = [e \in Entities |-> IF e \in t.locked THEN t.rows[e] ELSE snapshot[e]]
    /\ finalized'    = finalized \cup [candidate : t.batch, run : {k}]
    /\ status'       = [status EXCEPT ![k] = classify(m)]
    /\ errorMessage' = [errorMessage EXCEPT ![k] =
                            IF m.err = "none" THEN "none" ELSE "collection"]
    /\ client'       = [client EXCEPT ![c] = None]
    /\ tx'           = [tx EXCEPT ![c] = None]
    /\ UNCHANGED operator

(***************************************************************************)
(* A collector that ends with its transaction rolled back: it died, the    *)
(* deadline passed, a statement failed (the run is no longer active, a     *)
(* CHECK, a deadlock with another finalization broken by PostgreSQL).      *)
(***************************************************************************)
Rollback(c) ==
    /\ FinalizeRunFails(c)
    /\ tx' = [tx EXCEPT ![c] = None]

\* Faulty variant: the cancellation does not wait for the row.
CancelRunTxWithoutWaiting(o) == CancelRun(o) /\ UNCHANGED tx

(***************************************************************************)
(* cancelRunSQL waits for a finalization that holds the row, then sees the *)
(* status it committed.                                                    *)
(***************************************************************************)
CancelRunTx(o) ==
    /\ operator[o] # None /\ ~RunLocked(operator[o].run)
    /\ CancelRun(o)
    /\ UNCHANGED tx

(***************************************************************************)
(* So does the SELECT ... FOR UPDATE of StartRun.                          *)
(***************************************************************************)
StartRunTx(c, k) == ~RunLocked(k) /\ StartRun(c, k) /\ UNCHANGED tx

TxNext ==
    \/ \E c \in Clients :
          \/ \E k \in RunKeys : StartRunTx(c, k)
          \/ \E batch \in SUBSET Candidates : Begin(c, batch)
          \/ \E e \in Entities : Upsert(c, e)
          \/ UpdateRun(c)
          \/ \E m \in Metrics : Commit(c, m)
          \/ Rollback(c)
    \/ \E o \in Operators :
          \/ \E k \in RunKeys : LookupRun(o, k) /\ UNCHANGED tx
          \/ CancelRunTx(o)

TxSpec == TxInit /\ [][TxNext]_txVars

-----------------------------------------------------------------------------

TxTypeOK == TypeOK /\ tx \in [Clients -> Tx \cup {None}]

(***************************************************************************)
(* A transaction only ever holds rows that are up to date: what it will    *)
(* commit for a locked entity is its candidate compared with the row as it *)
(* is now, so no concurrent finalization is overwritten (the row locks     *)
(* FinalizeRun relies on).                                                 *)
(***************************************************************************)
LockedRowsAreCurrent ==
    \A c \in Clients :
       Open(c) => \A e \in tx[c].locked :
                     tx[c].rows[e] = UpsertSnapshots(client[c], tx[c].latest)[e]

(***************************************************************************)
(* The interleaved statements behave as the one-step finalizations of      *)
(* RunCatalog: "FinalizeRun atomically publishes accepted latest-only      *)
(* snapshots and moves an active ingestion run to its terminal status".    *)
(***************************************************************************)
ImplementsRunCatalog == Spec

=============================================================================
