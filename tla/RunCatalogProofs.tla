-------------------------- MODULE RunCatalogProofs --------------------------
(***************************************************************************)
(* Proofs about RunCatalog, about RunCatalogTx as an implementation of it, *)
(* and about the collection of prices that works through it, for any run   *)
(* keys, any number of collectors and operators, any candidates and bars.  *)
(* The inductive invariant of RunCatalog is IInv, that of RunCatalogTx is  *)
(* TxIInv, that of PriceCollection is PCInv; the precedence lemmas come    *)
(* first because ProjectionIsNewest rests on them.                         *)
(***************************************************************************)
EXTENDS RunCatalogTx, PriceCollection, TLAPS

Claimed == \A c \in Clients : client[c] # None => status[client[c]] # "absent"

IInv == TypeOK /\ OneOwner /\ Claimed /\ ProjectionIsNewest /\ FailedRunsPublishNothing

-----------------------------------------------------------------------------

(***************************************************************************)
(* The precedence is a strict weak order on candidates: irreflexive,       *)
(* transitive, and with a transitive incomparability, so a batch may be    *)
(* collapsed first and compared with the row afterwards                    *)
(* (priceSnapshotIsNewer, macroSnapshotIsNewer).                           *)
(***************************************************************************)
LEMMA NewerTransitive ==
    ASSUME NEW a \in CandidateFields, NEW b \in CandidateFields, NEW c \in CandidateFields,
           snapshotIsNewer(a, b), snapshotIsNewer(b, c)
    PROVE  snapshotIsNewer(a, c)
BY DEF CandidateFields, snapshotIsNewer

LEMMA NotNewerTransitive ==
    ASSUME NEW a \in CandidateFields, NEW b \in CandidateFields, NEW c \in CandidateFields,
           ~snapshotIsNewer(a, b), ~snapshotIsNewer(b, c)
    PROVE  ~snapshotIsNewer(a, c)
BY DEF CandidateFields, snapshotIsNewer

LEMMA NewerIrreflexive ==
    ASSUME NEW a \in CandidateFields
    PROVE  ~snapshotIsNewer(a, a)
BY DEF CandidateFields, snapshotIsNewer

(***************************************************************************)
(* classify answers with a terminal status, and with "failed" only when    *)
(* there is no raw evidence.                                               *)
(***************************************************************************)
LEMMA ClassifyTerminal ==
    ASSUME NEW m \in Metrics
    PROVE  /\ classify(m) \in Terminal
           /\ m.raw => classify(m) # "failed"
BY DEF Metrics, classify, Terminal

-----------------------------------------------------------------------------

(***************************************************************************)
(* What a committed FinalizeRun does to the projection: each entity's row  *)
(* stays the newest of everything committed, the new batch included.       *)
(***************************************************************************)
LEMMA UpsertKeepsNewest ==
    ASSUME TypeOK, ProjectionIsNewest,
           NEW k \in RunKeys, NEW batch \in SUBSET Candidates,
           NEW latest \in [Entities -> batch \cup {None}],
           CollapsesTo(batch, latest),
           snapshot' = UpsertSnapshots(k, latest),
           finalized' = finalized \cup [candidate : batch, run : {k}]
    PROVE  ProjectionIsNewest'
<1> DEFINE old(e) == {r \in finalized : r.candidate.entity = e}
           new(e) == {r \in finalized' : r.candidate.entity = e}
<1> SUFFICES ASSUME NEW e \in Entities
             PROVE  IF snapshot'[e] = None
                    THEN new(e) = {}
                    ELSE /\ snapshot'[e] \in new(e)
                         /\ \A r \in new(e) : ~snapshotIsNewer(r.candidate, snapshot'[e].candidate)
    BY DEF ProjectionIsNewest
<1>0. /\ batch \subseteq Candidates
      /\ Candidates \subseteq CandidateFields
      /\ None \notin Candidates /\ None \notin Row
      /\ finalized \subseteq Row
      /\ snapshot \in [Entities -> Row \cup {None}]
    BY CandidatesAssumption DEF TypeOK
<1>1. new(e) = old(e) \cup {r \in [candidate : batch, run : {k}] : r.candidate.entity = e}
    OBVIOUS
<1>2. IF snapshot[e] = None
      THEN old(e) = {}
      ELSE /\ snapshot[e] \in old(e)
           /\ \A r \in old(e) : ~snapshotIsNewer(r.candidate, snapshot[e].candidate)
    BY DEF ProjectionIsNewest
<1>3. CASE ~ \E c \in batch : c.entity = e
    <2>1. latest[e] = None
        BY <1>3 DEF CollapsesTo
    <2>2. snapshot'[e] = snapshot[e]
        BY <2>1 DEF UpsertSnapshots
    <2>3. new(e) = old(e)
        BY <1>1, <1>3
    <2> QED  BY <1>2, <2>2, <2>3
<1>4. CASE \E c \in batch : c.entity = e
    <2>1. /\ latest[e] \in batch
          /\ latest[e].entity = e
          /\ \A c \in batch : c.entity = e => ~snapshotIsNewer(c, latest[e])
        BY <1>4 DEF CollapsesTo
    <2>2. latest[e] # None /\ latest[e] \in CandidateFields
        BY <2>1, <1>0
    <2> DEFINE upserted == [candidate |-> latest[e], run |-> k]
    <2>3. upserted \in new(e) /\ upserted # None
        BY <2>1, <1>1, <1>0 DEF Row
    <2>4. \A r \in new(e) \ old(e) : /\ r.candidate \in CandidateFields
                                     /\ ~snapshotIsNewer(r.candidate, latest[e])
        BY <2>1, <1>1, <1>0
    <2>5. \A r \in old(e) : r.candidate \in CandidateFields
        BY <1>0 DEF Row
    <2>6. CASE snapshot[e] = None
        <3>1. snapshot'[e] = upserted
            BY <2>6, <2>2 DEF UpsertSnapshots
        <3> QED  BY <3>1, <2>3, <2>4, <2>6, <1>2
    <2>7. CASE snapshot[e] # None /\ snapshotIsNewer(latest[e], snapshot[e].candidate)
        <3>1. snapshot'[e] = upserted
            BY <2>7, <2>2 DEF UpsertSnapshots
        <3>2. \A r \in old(e) : ~snapshotIsNewer(r.candidate, latest[e])
            BY <2>7, <1>2, <2>5, <2>2, NewerTransitive
        <3> QED  BY <3>1, <3>2, <2>3, <2>4
    <2>8. CASE snapshot[e] # None /\ ~snapshotIsNewer(latest[e], snapshot[e].candidate)
        <3>1. snapshot'[e] = snapshot[e]
            BY <2>8 DEF UpsertSnapshots
        <3>2. snapshot[e] \in old(e) /\ snapshot[e].candidate \in CandidateFields
            BY <2>8, <1>2, <2>5
        <3>3. \A r \in new(e) \ old(e) : ~snapshotIsNewer(r.candidate, snapshot[e].candidate)
            BY <2>8, <2>4, <2>2, <3>2, NotNewerTransitive
        <3> QED  BY <3>1, <3>2, <3>3, <2>8, <1>1, <1>2
    <2> QED  BY <2>6, <2>7, <2>8
<1> QED  BY <1>3, <1>4

-----------------------------------------------------------------------------

LEMMA InitEstablishes == Init => IInv
<1> SUFFICES ASSUME Init PROVE IInv
    OBVIOUS
<1>1. TypeOK
    BY DEF Init, TypeOK, Status, ErrorMessage
<1>2. OneOwner /\ Claimed /\ FailedRunsPublishNothing
    BY DEF Init, OneOwner, Claimed, FailedRunsPublishNothing
<1>3. ProjectionIsNewest
    BY DEF Init, ProjectionIsNewest
<1> QED  BY <1>1, <1>2, <1>3 DEF IInv

LEMMA StartRunKeeps ==
    ASSUME IInv, NEW c \in Clients, NEW k \in RunKeys, StartRun(c, k)
    PROVE  IInv'
<1> USE DEF IInv, StartRun
<1>1. None \notin RunKeys
    BY CandidatesAssumption
<1>2. TypeOK'
    BY DEF TypeOK, Status, Active
<1>3. OneOwner' /\ Claimed'
    BY <1>1 DEF OneOwner, Claimed, TypeOK
<1>4. FailedRunsPublishNothing'
    BY DEF FailedRunsPublishNothing, Terminal, TypeOK, Row
<1>5. ProjectionIsNewest'
    BY DEF ProjectionIsNewest
<1> QED  BY <1>2, <1>3, <1>4, <1>5

LEMMA FinalizeRunKeeps ==
    ASSUME IInv, NEW c \in Clients, NEW m \in Metrics, NEW batch \in SUBSET Candidates,
           FinalizeRun(c, m, batch)
    PROVE  IInv'
<1> DEFINE k == client[c]
<1>0. k \in RunKeys /\ None \notin RunKeys
    BY CandidatesAssumption DEF IInv, TypeOK, FinalizeRun
<1>1. PICK latest \in [Entities -> batch \cup {None}] :
          CollapsesTo(batch, latest) /\ snapshot' = UpsertSnapshots(k, latest)
    BY DEF FinalizeRun
<1>2. classify(m) \in Terminal /\ (m.raw => classify(m) # "failed")
    BY ClassifyTerminal
<1>3. snapshot' \in [Entities -> Row \cup {None}]
    <2> SUFFICES ASSUME NEW e \in Entities
                 PROVE  UpsertSnapshots(k, latest)[e] \in Row \cup {None}
        BY <1>1 DEF UpsertSnapshots
    <2>1. latest[e] # None => latest[e] \in Candidates
        OBVIOUS
    <2> QED  BY <2>1, <1>0 DEF UpsertSnapshots, Row, IInv, TypeOK
<1>4. TypeOK'
    <2>1. status' \in [RunKeys -> Status] /\ client' \in [Clients -> RunKeys \cup {None}]
        BY <1>2 DEF FinalizeRun, IInv, TypeOK, Status
    <2>2. errorMessage' \in [RunKeys -> ErrorMessage]
        BY DEF FinalizeRun, IInv, TypeOK, ErrorMessage
    <2>3. finalized' \subseteq Row /\ operator' = operator
        BY <1>0 DEF FinalizeRun, IInv, TypeOK, Row
    <2> QED  BY <1>3, <2>1, <2>2, <2>3 DEF TypeOK, IInv
<1>5. OneOwner' /\ Claimed'
    BY <1>0, <1>2 DEF FinalizeRun, IInv, OneOwner, Claimed, TypeOK, Terminal
<1>6. FailedRunsPublishNothing'
    <2> SUFFICES ASSUME NEW r \in finalized'
                 PROVE  status'[r.run] \in Terminal \ {"failed"}
        BY DEF FailedRunsPublishNothing
    <2>1. CASE r \in finalized
        <3>1. r.run \in RunKeys /\ status[r.run] \in Terminal \ {"failed"}
            BY <2>1 DEF IInv, TypeOK, Row, FailedRunsPublishNothing
        <3>2. r.run # k
            BY <3>1 DEF FinalizeRun, Active, Terminal
        <3> QED  BY <3>1, <3>2, <1>0 DEF FinalizeRun, IInv, TypeOK
    <2>2. CASE r \in [candidate : batch, run : {k}]
        <3>1. r.run = k /\ m.raw
            BY <2>2 DEF FinalizeRun
        <3> QED  BY <3>1, <1>0, <1>2 DEF FinalizeRun, IInv, TypeOK
    <2> QED  BY <2>1, <2>2 DEF FinalizeRun
<1>7. ProjectionIsNewest'
    BY <1>0, <1>1, UpsertKeepsNewest DEF FinalizeRun, IInv
<1> QED  BY <1>4, <1>5, <1>6, <1>7 DEF IInv

LEMMA CancelRunKeeps ==
    ASSUME IInv, NEW o \in Operators, CancelRun(o)
    PROVE  IInv'
<1> DEFINE k == operator[o].run
<1>0. k \in RunKeys
    BY DEF IInv, TypeOK, CancelRun, Lookup
<1>1. TypeOK'
    BY <1>0 DEF IInv, TypeOK, CancelRun, Status, Terminal, ErrorMessage
<1>2. OneOwner' /\ Claimed'
    BY <1>0 DEF IInv, TypeOK, CancelRun, OneOwner, Claimed, Active
<1>3. FailedRunsPublishNothing'
    BY <1>0 DEF IInv, TypeOK, CancelRun, FailedRunsPublishNothing, Row, Active, Terminal
<1>4. ProjectionIsNewest'
    BY DEF IInv, CancelRun, ProjectionIsNewest
<1> QED  BY <1>1, <1>2, <1>3, <1>4 DEF IInv

LEMMA NextKeeps == IInv /\ [Next]_vars => IInv'
<1> SUFFICES ASSUME IInv, [Next]_vars PROVE IInv'
    OBVIOUS
<1>1. ASSUME NEW c \in Clients, NEW k \in RunKeys, StartRun(c, k) PROVE IInv'
    BY <1>1, StartRunKeeps
<1>2. ASSUME NEW c \in Clients, NEW m \in Metrics, NEW batch \in SUBSET Candidates,
             FinalizeRun(c, m, batch)
      PROVE  IInv'
    BY <1>2, FinalizeRunKeeps
<1>3. ASSUME NEW c \in Clients, FinalizeRunFails(c) PROVE IInv'
    BY <1>3, CandidatesAssumption
    DEF FinalizeRunFails, IInv, TypeOK, OneOwner, Claimed, ProjectionIsNewest, FailedRunsPublishNothing
<1>4. ASSUME NEW o \in Operators, NEW k \in RunKeys, LookupRun(o, k) PROVE IInv'
    BY <1>4
    DEF LookupRun, IInv, TypeOK, Lookup, OneOwner, Claimed, ProjectionIsNewest, FailedRunsPublishNothing
<1>5. ASSUME NEW o \in Operators, CancelRun(o) PROVE IInv'
    BY <1>5, CancelRunKeeps
<1>6. CASE UNCHANGED vars
    BY <1>6 DEF vars, IInv, TypeOK, OneOwner, Claimed, ProjectionIsNewest, FailedRunsPublishNothing
<1> QED  BY <1>1, <1>2, <1>3, <1>4, <1>5, <1>6 DEF Next

THEOREM Inductive == Spec => []IInv
BY InitEstablishes, NextKeeps, PTL DEF Spec

(***************************************************************************)
(* The type invariant of the run catalog.                                  *)
(***************************************************************************)
THEOREM TypeCorrect == Spec => []TypeOK
BY Inductive, PTL DEF IInv

(***************************************************************************)
(* However many collectors race for a key, at most one ever works on it    *)
(* (the INSERT ... ON CONFLICT DO NOTHING of StartRun).                    *)
(***************************************************************************)
THEOREM OneOwnerHolds == Spec => []OneOwner
BY Inductive, PTL DEF IInv

(***************************************************************************)
(* The snapshot tables hold the newest committed candidate of every        *)
(* entity, for any number of runs that finish in any order.                *)
(***************************************************************************)
THEOREM ProjectionIsNewestHolds == Spec => []ProjectionIsNewest
BY Inductive, PTL DEF IInv

(***************************************************************************)
(* A revised old observation never displaces a newer one, whatever the     *)
(* batches and the order of the runs (macroSnapshotIsNewer).               *)
(***************************************************************************)
THEOREM HistoryDoesNotDisplaceHolds == Spec => []HistoryDoesNotDisplace
<1>1. IInv => HistoryDoesNotDisplace
    <2> SUFFICES ASSUME IInv, NEW r \in finalized
                 PROVE  LET shown == snapshot[r.candidate.entity].candidate IN
                        /\ r.candidate.observed <= shown.observed
                        /\ r.candidate.observed = shown.observed
                              => r.candidate.revision <= shown.revision
        BY DEF HistoryDoesNotDisplace
    <2> DEFINE e == r.candidate.entity
    <2>1. /\ r \in Row /\ r.candidate \in CandidateFields
          /\ e \in Entities
        BY CandidatesAssumption DEF IInv, TypeOK, Row, Entities
    <2>2. /\ snapshot[e] \in finalized
          /\ ~snapshotIsNewer(r.candidate, snapshot[e].candidate)
        BY <2>1 DEF IInv, ProjectionIsNewest
    <2>3. snapshot[e].candidate \in CandidateFields
        BY <2>2, CandidatesAssumption DEF IInv, TypeOK, Row
    <2> QED  BY <2>1, <2>2, <2>3 DEF snapshotIsNewer, CandidateFields
<1> QED  BY <1>1, Inductive, PTL

(***************************************************************************)
(* No candidate of a failed run is ever committed (classify).              *)
(***************************************************************************)
THEOREM FailedRunsPublishNothingHolds == Spec => []FailedRunsPublishNothing
BY Inductive, PTL DEF IInv

(***************************************************************************)
(* A terminal row keeps its status and its error for ever, through stale   *)
(* cancellations and late finalizations (finishRunSQL, cancelRunSQL).      *)
(***************************************************************************)
THEOREM TerminalIsFinalHolds == Spec => TerminalIsFinal
<1> DEFINE Final == \A k \in RunKeys :
                       status[k] \in Terminal => /\ status'[k] = status[k]
                                                 /\ errorMessage'[k] = errorMessage[k]
<1>1. TypeOK /\ [Next]_vars => [Final]_vars
    <2> SUFFICES ASSUME TypeOK, Next, NEW k \in RunKeys, status[k] \in Terminal
                 PROVE  status'[k] = status[k] /\ errorMessage'[k] = errorMessage[k]
        OBVIOUS
    <2>0. status[k] \notin Active /\ status[k] # "absent"
        BY DEF Terminal, Active
    <2>1. ASSUME NEW c \in Clients, NEW j \in RunKeys, StartRun(c, j)
          PROVE  status'[k] = status[k] /\ errorMessage'[k] = errorMessage[k]
        BY <2>0, <2>1 DEF StartRun, TypeOK
    <2>2. ASSUME NEW c \in Clients, NEW m \in Metrics, NEW batch \in SUBSET Candidates,
                 FinalizeRun(c, m, batch)
          PROVE  status'[k] = status[k] /\ errorMessage'[k] = errorMessage[k]
        BY <2>0, <2>2 DEF FinalizeRun, TypeOK
    <2>3. ASSUME NEW o \in Operators, CancelRun(o)
          PROVE  status'[k] = status[k] /\ errorMessage'[k] = errorMessage[k]
        BY <2>0, <2>3 DEF CancelRun, TypeOK
    <2> QED  BY <2>1, <2>2, <2>3 DEF Next, FinalizeRunFails, LookupRun
<1> QED  BY <1>1, TypeCorrect, PTL DEF Spec, TerminalIsFinal

(***************************************************************************)
(* A snapshot row changes only in the transaction that finishes the run it *)
(* then names, and never for a run an operator cancelled (FinalizeRun,     *)
(* CancelRun).                                                             *)
(***************************************************************************)
THEOREM ProjectionMovesWithItsRunHolds == Spec => ProjectionMovesWithItsRun
<1> DEFINE Moves == \A e \in Entities :
                       snapshot'[e] # snapshot[e] =>
                          LET k == snapshot'[e].run IN
                          /\ status[k] \in Active
                          /\ status'[k] \in Terminal \ {"failed"}
                          /\ errorMessage'[k] # "operator"
<1>1. TypeOK /\ [Next]_vars => [Moves]_vars
    <2> SUFFICES ASSUME TypeOK, Next, NEW e \in Entities, snapshot'[e] # snapshot[e]
                 PROVE  LET k == snapshot'[e].run IN
                        /\ status[k] \in Active
                        /\ status'[k] \in Terminal \ {"failed"}
                        /\ errorMessage'[k] # "operator"
        OBVIOUS
    <2>1. PICK c \in Clients, m \in Metrics, batch \in SUBSET Candidates :
             FinalizeRun(c, m, batch)
        BY DEF Next, StartRun, FinalizeRunFails, LookupRun, CancelRun
    <2>2. client[c] \in RunKeys
        BY <2>1 DEF FinalizeRun, TypeOK
    <2>3. PICK latest \in [Entities -> batch \cup {None}] :
             CollapsesTo(batch, latest) /\ snapshot' = UpsertSnapshots(client[c], latest)
        BY <2>1 DEF FinalizeRun
    <2>4. latest[e] # None /\ snapshot'[e] = [candidate |-> latest[e], run |-> client[c]]
        BY <2>3 DEF UpsertSnapshots
    <2>5. batch # {}
        BY <2>4
    <2>6. classify(m) \in Terminal \ {"failed"}
        BY <2>1, <2>5, ClassifyTerminal DEF FinalizeRun
    <2> QED  BY <2>1, <2>2, <2>4, <2>6 DEF FinalizeRun, TypeOK
<1> QED  BY <1>1, TypeCorrect, PTL DEF Spec, ProjectionMovesWithItsRun

-----------------------------------------------------------------------------
(***************************************************************************)
(* Finalizations statement by statement.  TxSpec implements Spec.  The     *)
(* invariant says what two-phase locking gives: locks are exclusive,       *)
(* locked rows are current, and a run row that has been updated stays      *)
(* active until its transaction ends.                                      *)
(***************************************************************************)
LocksExclusive ==
    \A c, d \in Clients : Open(c) /\ Open(d) /\ c # d => tx[c].locked \cap tx[d].locked = {}

WellFormed(c) ==
    LET t == tx[c] IN
    /\ client[c] \in RunKeys
    /\ t.latest \in [Entities -> t.batch \cup {None}]
    /\ CollapsesTo(t.batch, t.latest)
    /\ t.updated => /\ \A e \in Entities : t.latest[e] # None => e \in t.locked
                    /\ status[client[c]] \in Active

TransactionsWellFormed == \A c \in Clients : Open(c) => WellFormed(c)

TxIInv ==
    /\ TypeOK /\ OneOwner /\ Claimed
    /\ tx \in [Clients -> Tx \cup {None}]
    /\ LocksExclusive /\ LockedRowsAreCurrent /\ TransactionsWellFormed

(***************************************************************************)
(* COMMIT is RunCatalog's FinalizeRun: the locked rows are current and     *)
(* every entity the batch mentions is locked.                              *)
(***************************************************************************)
LEMMA CommitIsFinalizeRun ==
    ASSUME TxIInv, NEW c \in Clients, NEW m \in Metrics, Commit(c, m)
    PROVE  FinalizeRun(c, m, tx[c].batch) /\ tx[c].batch \in SUBSET Candidates
<1> DEFINE t == tx[c]
           k == client[c]
<1>1. WellFormed(c) /\ t \in Tx /\ t.updated
    BY DEF TxIInv, TransactionsWellFormed, Commit, Open
<1>2. k # None
    BY <1>1, CandidatesAssumption DEF WellFormed
<1>3. snapshot' = UpsertSnapshots(k, t.latest)
    <2> SUFFICES ASSUME NEW e \in Entities
                 PROVE  snapshot'[e] = UpsertSnapshots(k, t.latest)[e]
        BY DEF Commit, UpsertSnapshots
    <2>1. CASE e \in t.locked
        BY <2>1 DEF Commit, TxIInv, LockedRowsAreCurrent
    <2>2. CASE e \notin t.locked
        BY <2>2, <1>1 DEF Commit, WellFormed, UpsertSnapshots
    <2> QED  BY <2>1, <2>2
<1> QED  BY <1>1, <1>2, <1>3 DEF Commit, FinalizeRun, WellFormed, Tx

(***************************************************************************)
(* A step that leaves every transaction and the snapshot tables alone, and *)
(* the runs of open transactions active, keeps the transactions in order.  *)
(***************************************************************************)
LEMMA OutsideTransactions ==
    ASSUME TxIInv, UNCHANGED <<tx, snapshot>>,
           \A c \in Clients : Open(c) => client'[c] = client[c],
           \A k \in RunKeys : RunLocked(k) /\ status[k] \in Active => status'[k] \in Active
    PROVE  LocksExclusive' /\ LockedRowsAreCurrent' /\ TransactionsWellFormed'
<1>1. LocksExclusive'
    BY DEF TxIInv, LocksExclusive, Open
<1>2. LockedRowsAreCurrent'
    BY DEF TxIInv, LockedRowsAreCurrent, Open, UpsertSnapshots
<1>3. TransactionsWellFormed'
    <2> SUFFICES ASSUME NEW c \in Clients, Open(c) PROVE WellFormed(c)'
        BY DEF TransactionsWellFormed, Open
    <2>1. WellFormed(c)
        BY DEF TxIInv, TransactionsWellFormed
    <2>2. tx[c].updated => RunLocked(client[c])
        BY DEF RunLocked
    <2> QED  BY <2>1, <2>2 DEF WellFormed
<1> QED  BY <1>1, <1>2, <1>3

LEMMA StartRunTxKeeps ==
    ASSUME TxIInv, NEW c \in Clients, NEW k \in RunKeys, StartRunTx(c, k)
    PROVE  TxIInv'
<1>0. None \notin RunKeys
    BY CandidatesAssumption
<1>1. TypeOK' /\ OneOwner' /\ Claimed'
    BY <1>0 DEF TxIInv, StartRunTx, StartRun, TypeOK, OneOwner, Claimed, Status, Active
<1>2. ~Open(c)
    BY <1>0 DEF StartRunTx, StartRun, TxIInv, TransactionsWellFormed, WellFormed
<1>3. \A d \in Clients : Open(d) => client'[d] = client[d]
    BY <1>2 DEF StartRunTx, StartRun, TxIInv, TypeOK
<1>4. \A j \in RunKeys : RunLocked(j) /\ status[j] \in Active => status'[j] \in Active
    BY DEF StartRunTx, StartRun, TxIInv, TypeOK
<1>5. UNCHANGED <<tx, snapshot>>
    BY DEF StartRunTx, StartRun
<1>6. LocksExclusive' /\ LockedRowsAreCurrent' /\ TransactionsWellFormed'
    BY <1>3, <1>4, <1>5, OutsideTransactions
<1> QED  BY <1>1, <1>5, <1>6 DEF TxIInv

LEMMA CancelRunTxKeeps ==
    ASSUME TxIInv, NEW o \in Operators, CancelRunTx(o)
    PROVE  TxIInv'
<1> DEFINE k == operator[o].run
<1>0. k \in RunKeys
    BY DEF TxIInv, TypeOK, CancelRunTx, Lookup
<1>1. TypeOK' /\ OneOwner' /\ Claimed'
    BY <1>0
    DEF TxIInv, TypeOK, CancelRunTx, CancelRun, Status, Terminal, ErrorMessage, OneOwner, Claimed, Active
<1>2. \A j \in RunKeys : RunLocked(j) /\ status[j] \in Active => status'[j] \in Active
    BY <1>0 DEF CancelRunTx, CancelRun, TxIInv, TypeOK
<1>3. UNCHANGED <<tx, snapshot, client>>
    BY DEF CancelRunTx, CancelRun
<1>4. LocksExclusive' /\ LockedRowsAreCurrent' /\ TransactionsWellFormed'
    BY <1>2, <1>3, OutsideTransactions
<1> QED  BY <1>1, <1>3, <1>4 DEF TxIInv

LEMMA LookupRunTxKeeps ==
    ASSUME TxIInv, NEW o \in Operators, NEW k \in RunKeys, LookupRun(o, k), UNCHANGED tx
    PROVE  TxIInv'
<1>1. TypeOK' /\ OneOwner' /\ Claimed'
    BY DEF TxIInv, TypeOK, LookupRun, Lookup, OneOwner, Claimed
<1>2. LocksExclusive' /\ LockedRowsAreCurrent' /\ TransactionsWellFormed'
    BY OutsideTransactions DEF LookupRun
<1> QED  BY <1>1, <1>2 DEF TxIInv

LEMMA BeginKeeps ==
    ASSUME TxIInv, NEW c \in Clients, NEW batch \in SUBSET Candidates, Begin(c, batch)
    PROVE  TxIInv'
<1>0. TypeOK' /\ OneOwner' /\ Claimed'
    BY DEF TxIInv, TypeOK, Begin, vars, OneOwner, Claimed
<1>1. PICK latest \in [Entities -> batch \cup {None}] :
          /\ CollapsesTo(batch, latest)
          /\ tx' = [tx EXCEPT ![c] = [batch |-> batch, latest |-> latest,
                                      locked |-> {}, rows |-> [e \in Entities |-> None],
                                      updated |-> FALSE]]
    BY DEF Begin
<1> DEFINE t == [batch |-> batch, latest |-> latest, locked |-> {},
                 rows |-> [e \in Entities |-> None], updated |-> FALSE]
<1>2. t \in Tx
    <2>1. latest \in [Entities -> Candidates \cup {None}]
        OBVIOUS
    <2> QED  BY <2>1 DEF Tx
<1>3. /\ tx' \in [Clients -> Tx \cup {None}]
      /\ tx'[c] = t
      /\ \A d \in Clients \ {c} : tx'[d] = tx[d]
    BY <1>1, <1>2 DEF TxIInv
<1>4. UNCHANGED <<snapshot, client, status>>
    BY DEF Begin, vars
<1>5. LocksExclusive'
    BY <1>3 DEF TxIInv, LocksExclusive, Open
<1>6. LockedRowsAreCurrent'
    <2> SUFFICES ASSUME NEW d \in Clients, Open(d)', NEW x \in tx'[d].locked
                 PROVE  tx'[d].rows[x] = UpsertSnapshots(client[d], tx'[d].latest)[x]
        BY <1>4 DEF LockedRowsAreCurrent, UpsertSnapshots
    <2>1. d # c
        BY <1>3
    <2> QED  BY <2>1, <1>3 DEF TxIInv, LockedRowsAreCurrent, Open
<1>7. TransactionsWellFormed'
    <2> SUFFICES ASSUME NEW d \in Clients, Open(d)' PROVE WellFormed(d)'
        BY DEF TransactionsWellFormed
    <2>1. CASE d = c
        BY <2>1, <1>1, <1>3, <1>4 DEF WellFormed, Begin, TxIInv, TypeOK
    <2>2. CASE d # c
        BY <2>2, <1>3, <1>4 DEF WellFormed, TxIInv, TransactionsWellFormed, Open
    <2> QED  BY <2>1, <2>2
<1> QED  BY <1>0, <1>3, <1>5, <1>6, <1>7 DEF TxIInv

LEMMA UpsertKeeps ==
    ASSUME TxIInv, NEW c \in Clients, NEW e \in Entities, Upsert(c, e)
    PROVE  TxIInv'
<1>0. TypeOK' /\ OneOwner' /\ Claimed'
    BY DEF TxIInv, TypeOK, Upsert, vars, OneOwner, Claimed
<1>1. tx[c] \in Tx /\ WellFormed(c)
    BY DEF TxIInv, Upsert, Open, TransactionsWellFormed
<1> DEFINE row == UpsertSnapshots(client[c], tx[c].latest)[e]
           t == [tx[c] EXCEPT !.locked = @ \cup {e}, !.rows[e] = row]
<1>2. row \in Row \cup {None}
    <2>1. tx[c].latest[e] \in Candidates
        BY <1>1 DEF Tx, Upsert
    <2> QED  BY <2>1, <1>1 DEF UpsertSnapshots, Row, WellFormed, TxIInv, TypeOK
<1>3. t \in Tx
    BY <1>1, <1>2 DEF Tx
<1>4. /\ tx' \in [Clients -> Tx \cup {None}]
      /\ tx'[c] = t
      /\ \A d \in Clients \ {c} : tx'[d] = tx[d]
    BY <1>3 DEF TxIInv, Upsert
<1>5. /\ t.locked = tx[c].locked \cup {e}
      /\ t.rows = [tx[c].rows EXCEPT ![e] = row]
      /\ t.latest = tx[c].latest /\ t.batch = tx[c].batch /\ t.updated = tx[c].updated
    BY <1>1 DEF Tx
<1>6. UNCHANGED <<snapshot, client, status>>
    BY DEF Upsert, vars
<1>7. LocksExclusive'
    BY <1>4, <1>5 DEF TxIInv, LocksExclusive, Open, Upsert, LockedByOther
<1>8. LockedRowsAreCurrent'
    <2> SUFFICES ASSUME NEW d \in Clients, Open(d)', NEW x \in tx'[d].locked
                 PROVE  tx'[d].rows[x] = UpsertSnapshots(client[d], tx'[d].latest)[x]
        BY <1>6 DEF LockedRowsAreCurrent, UpsertSnapshots
    <2>1. CASE d # c
        BY <2>1, <1>4 DEF TxIInv, LockedRowsAreCurrent, Open
    <2>2. CASE d = c /\ x = e
        BY <2>2, <1>1, <1>4, <1>5 DEF Tx
    <2>3. CASE d = c /\ x # e
        BY <2>3, <1>1, <1>4, <1>5 DEF Tx, TxIInv, LockedRowsAreCurrent, Upsert
    <2> QED  BY <2>1, <2>2, <2>3
<1>9. TransactionsWellFormed'
    <2> SUFFICES ASSUME NEW d \in Clients, Open(d)' PROVE WellFormed(d)'
        BY DEF TransactionsWellFormed
    <2>1. CASE d = c
        BY <2>1, <1>1, <1>4, <1>5, <1>6 DEF WellFormed
    <2>2. CASE d # c
        BY <2>2, <1>4, <1>6 DEF WellFormed, TxIInv, TransactionsWellFormed, Open
    <2> QED  BY <2>1, <2>2
<1> QED  BY <1>0, <1>4, <1>7, <1>8, <1>9 DEF TxIInv

LEMMA UpdateRunKeeps ==
    ASSUME TxIInv, NEW c \in Clients, UpdateRun(c)
    PROVE  TxIInv'
<1>0. TypeOK' /\ OneOwner' /\ Claimed'
    BY DEF TxIInv, TypeOK, UpdateRun, vars, OneOwner, Claimed
<1>1. tx[c] \in Tx /\ WellFormed(c)
    BY DEF TxIInv, UpdateRun, Open, TransactionsWellFormed
<1> DEFINE t == [tx[c] EXCEPT !.updated = TRUE]
<1>2. /\ t \in Tx /\ t.updated
      /\ t.locked = tx[c].locked /\ t.rows = tx[c].rows
      /\ t.latest = tx[c].latest /\ t.batch = tx[c].batch
    BY <1>1 DEF Tx
<1>3. /\ tx' \in [Clients -> Tx \cup {None}]
      /\ tx'[c] = t
      /\ \A d \in Clients \ {c} : tx'[d] = tx[d]
    BY <1>2 DEF TxIInv, UpdateRun
<1>4. UNCHANGED <<snapshot, client, status>>
    BY DEF UpdateRun, vars
<1>5. LocksExclusive'
    BY <1>2, <1>3 DEF TxIInv, LocksExclusive, Open, UpdateRun
<1>6. LockedRowsAreCurrent'
    <2> SUFFICES ASSUME NEW d \in Clients, Open(d)', NEW x \in tx'[d].locked
                 PROVE  tx'[d].rows[x] = UpsertSnapshots(client[d], tx'[d].latest)[x]
        BY <1>4 DEF LockedRowsAreCurrent, UpsertSnapshots
    <2> QED  BY <1>2, <1>3 DEF TxIInv, LockedRowsAreCurrent, Open, UpdateRun
<1>7. TransactionsWellFormed'
    <2> SUFFICES ASSUME NEW d \in Clients, Open(d)' PROVE WellFormed(d)'
        BY DEF TransactionsWellFormed
    <2>1. CASE d = c
        BY <2>1, <1>1, <1>2, <1>3, <1>4 DEF WellFormed, UpdateRun
    <2>2. CASE d # c
        BY <2>2, <1>3, <1>4 DEF WellFormed, TxIInv, TransactionsWellFormed, Open
    <2> QED  BY <2>1, <2>2
<1> QED  BY <1>0, <1>3, <1>5, <1>6, <1>7 DEF TxIInv

LEMMA CommitKeeps ==
    ASSUME TxIInv, NEW c \in Clients, NEW m \in Metrics, Commit(c, m)
    PROVE  TxIInv'
<1> DEFINE k == client[c]
           t == tx[c]
<1>1. FinalizeRun(c, m, t.batch) /\ t.batch \in SUBSET Candidates
    BY CommitIsFinalizeRun
<1>2. k \in RunKeys /\ None \notin RunKeys /\ t \in Tx
    BY CandidatesAssumption DEF TxIInv, TypeOK, Commit, Open, TransactionsWellFormed, WellFormed
<1>3. classify(m) \in Terminal
    BY ClassifyTerminal
<1>4. snapshot' \in [Entities -> Row \cup {None}]
    BY <1>2 DEF Commit, TxIInv, TypeOK, Tx
<1>5. TypeOK' /\ OneOwner' /\ Claimed'
    <2>1. status' \in [RunKeys -> Status] /\ client' \in [Clients -> RunKeys \cup {None}]
        BY <1>3 DEF Commit, TxIInv, TypeOK, Status
    <2>2. errorMessage' \in [RunKeys -> ErrorMessage]
        BY DEF Commit, TxIInv, TypeOK, ErrorMessage
    <2>3. finalized' \subseteq Row /\ operator' = operator
        BY <1>1, <1>2 DEF Commit, TxIInv, TypeOK, Row
    <2>4. OneOwner' /\ Claimed'
        BY <1>2, <1>3 DEF Commit, TxIInv, OneOwner, Claimed, TypeOK, Terminal
    <2> QED  BY <1>4, <2>1, <2>2, <2>3, <2>4 DEF TypeOK, TxIInv
<1>6. /\ tx' \in [Clients -> Tx \cup {None}]
      /\ tx'[c] = None
      /\ \A d \in Clients \ {c} : tx'[d] = tx[d] /\ client'[d] = client[d]
    BY DEF TxIInv, TypeOK, Commit
<1>7. LocksExclusive'
    BY <1>6 DEF TxIInv, LocksExclusive, Open
<1>8. LockedRowsAreCurrent'
    <2> SUFFICES ASSUME NEW d \in Clients, Open(d)', NEW x \in tx'[d].locked
                 PROVE  (tx[d].rows[x] = UpsertSnapshots(client[d], tx[d].latest)[x])'
        BY DEF LockedRowsAreCurrent
    <2>1. d # c /\ Open(d) /\ tx'[d] = tx[d] /\ client'[d] = client[d]
        BY <1>6 DEF Open
    <2>2. x \in Entities
        BY <2>1 DEF TxIInv, Tx, Open
    <2>3. x \notin t.locked
        BY <2>1 DEF TxIInv, LocksExclusive, Commit
    <2>4. snapshot'[x] = snapshot[x]
        BY <2>2, <2>3 DEF Commit
    <2>5. tx[d].rows[x] = UpsertSnapshots(client[d], tx[d].latest)[x]
        BY <2>1 DEF TxIInv, LockedRowsAreCurrent
    <2> QED  BY <2>1, <2>2, <2>4, <2>5 DEF UpsertSnapshots
<1>9. TransactionsWellFormed'
    <2> SUFFICES ASSUME NEW d \in Clients, Open(d)' PROVE WellFormed(d)'
        BY DEF TransactionsWellFormed
    <2>1. d # c /\ Open(d) /\ tx'[d] = tx[d] /\ client'[d] = client[d] /\ WellFormed(d)
        BY <1>6 DEF Open, TxIInv, TransactionsWellFormed
    <2>2. client[d] # k
        BY <2>1, <1>2 DEF TxIInv, OneOwner
    <2>3. status'[client[d]] = status[client[d]]
        BY <2>1, <2>2, <1>2 DEF Commit, TxIInv, TypeOK, WellFormed
    <2> QED  BY <2>1, <2>3 DEF WellFormed
<1> QED  BY <1>5, <1>6, <1>7, <1>8, <1>9 DEF TxIInv

LEMMA RollbackKeeps ==
    ASSUME TxIInv, NEW c \in Clients, Rollback(c)
    PROVE  TxIInv'
<1>1. TypeOK' /\ OneOwner' /\ Claimed'
    BY CandidatesAssumption DEF Rollback, FinalizeRunFails, TxIInv, TypeOK, OneOwner, Claimed
<1>2. /\ tx' \in [Clients -> Tx \cup {None}]
      /\ tx'[c] = None
      /\ \A d \in Clients \ {c} : tx'[d] = tx[d] /\ client'[d] = client[d]
      /\ UNCHANGED <<snapshot, status>>
    BY DEF TxIInv, TypeOK, Rollback, FinalizeRunFails
<1>3. LocksExclusive'
    BY <1>2 DEF TxIInv, LocksExclusive, Open
<1>4. LockedRowsAreCurrent'
    <2> SUFFICES ASSUME NEW d \in Clients, Open(d)', NEW x \in tx'[d].locked
                 PROVE  (tx[d].rows[x] = UpsertSnapshots(client[d], tx[d].latest)[x])'
        BY DEF LockedRowsAreCurrent
    <2>1. d # c /\ Open(d) /\ tx'[d] = tx[d] /\ client'[d] = client[d]
        BY <1>2 DEF Open
    <2>2. tx[d].rows[x] = UpsertSnapshots(client[d], tx[d].latest)[x]
        BY <2>1 DEF TxIInv, LockedRowsAreCurrent
    <2> QED  BY <1>2, <2>1, <2>2 DEF UpsertSnapshots
<1>5. TransactionsWellFormed'
    <2> SUFFICES ASSUME NEW d \in Clients, Open(d)' PROVE WellFormed(d)'
        BY DEF TransactionsWellFormed
    <2>1. d # c /\ Open(d) /\ tx'[d] = tx[d] /\ client'[d] = client[d] /\ WellFormed(d)
        BY <1>2 DEF Open, TxIInv, TransactionsWellFormed
    <2> QED  BY <1>2, <2>1 DEF WellFormed
<1> QED  BY <1>1, <1>2, <1>3, <1>4, <1>5 DEF TxIInv

LEMMA TxInitEstablishes == TxInit => TxIInv
<1> SUFFICES ASSUME TxInit PROVE TxIInv
    OBVIOUS
<1>1. TypeOK /\ OneOwner /\ Claimed
    BY InitEstablishes DEF TxInit, IInv
<1>2. \A c \in Clients : ~Open(c)
    BY DEF TxInit, Open
<1> QED  BY <1>1, <1>2
         DEF TxInit, TxIInv, LocksExclusive, LockedRowsAreCurrent, TransactionsWellFormed

LEMMA TxNextKeeps == TxIInv /\ [TxNext]_txVars => TxIInv'
<1> SUFFICES ASSUME TxIInv, [TxNext]_txVars PROVE TxIInv'
    OBVIOUS
<1>1. CASE UNCHANGED txVars
    <2>1. UNCHANGED <<tx, status, errorMessage, snapshot, finalized, client, operator>>
        BY <1>1 DEF txVars, vars
    <2>2. TypeOK' /\ OneOwner' /\ Claimed'
        BY <2>1 DEF TxIInv, TypeOK, OneOwner, Claimed
    <2> QED  BY <2>1, <2>2, OutsideTransactions DEF TxIInv
<1> QED
    BY <1>1, StartRunTxKeeps, BeginKeeps, UpsertKeeps, UpdateRunKeeps, CommitKeeps, RollbackKeeps,
       LookupRunTxKeeps, CancelRunTxKeeps
    DEF TxNext

THEOREM TxInductive == TxSpec => []TxIInv
BY TxInitEstablishes, TxNextKeeps, PTL DEF TxSpec

(***************************************************************************)
(* No concurrent finalization is overwritten: a transaction's locked rows  *)
(* are current whatever the interleaving (the upserts of FinalizeRun).     *)
(***************************************************************************)
THEOREM LockedRowsAreCurrentHolds == TxSpec => []LockedRowsAreCurrent
BY TxInductive, PTL DEF TxIInv

(***************************************************************************)
(* The interleaved statements implement the one-step catalog, so every     *)
(* theorem about Spec holds of them: FinalizeRun is atomic.                *)
(***************************************************************************)
THEOREM TxImplementsRunCatalog == TxSpec => ImplementsRunCatalog
<1>1. TxInit => Init
    BY DEF TxInit
<1>2. TxIInv /\ [TxNext]_txVars => [Next]_vars
    <2> SUFFICES ASSUME TxIInv, TxNext PROVE [Next]_vars
        BY DEF txVars
    <2>1. ASSUME NEW c \in Clients, NEW m \in Metrics, Commit(c, m) PROVE Next
        BY <2>1, CommitIsFinalizeRun DEF Next
    <2>2. ASSUME NEW c \in Clients, NEW k \in RunKeys, StartRunTx(c, k) PROVE Next
        BY <2>2 DEF Next, StartRunTx
    <2>3. ASSUME NEW o \in Operators, CancelRunTx(o) PROVE Next
        BY <2>3 DEF Next, CancelRunTx
    <2> QED  BY <2>1, <2>2, <2>3 DEF TxNext, Next, Begin, Upsert, UpdateRun, Rollback
<1> QED  BY <1>1, <1>2, TxInductive, PTL DEF TxSpec, Spec, ImplementsRunCatalog

-----------------------------------------------------------------------------

(***************************************************************************)
(* The collection.  Every step of PriceCollection is a transaction of      *)
(* RunCatalog or leaves the catalogue alone, so the theorems above hold of *)
(* it; what the collection adds is an invariant between the three stores   *)
(* and the memory of each live process, WorkIsRecorded.                    *)
(***************************************************************************)

(***************************************************************************)
(* What the memory w of the process that works on run k says is so in the  *)
(* stores, and the table holds no bar of run k beyond it.                  *)
(***************************************************************************)
WorkIsRecorded(w, k) ==
    /\ w.err = "none" => w.todo \cup w.stored = Securities
    /\ w.written => w.stored # {}
    /\ \A s \in w.stored : <<s, k>> \in raw
    /\ \A b \in w.response : b.ingested = k /\ b.entity \in w.stored
    /\ \A b \in w.accepted : b.ingested = k /\ b \in table
    /\ \A r \in table : r.ingested = k => /\ r.entity \in w.stored
                                          /\ w.err = "none" => r \in w.accepted
    /\ w.published => /\ w.todo = {} /\ w.response = {}
                      /\ [run |-> k, lists |-> w.stored] \in manifest

\* The run a live process works on ends by that process or by an operator.
StillOwned(k) ==
    \/ status[k] \in Active
    \/ status[k] = "cancelled" /\ errorMessage[k] = "operator"

WorkInv == \A c \in Clients : Busy(c) => WorkIsRecorded(work[c], client[c]) /\ StillOwned(client[c])

TableIsClaimed == \A r \in table : status[r.ingested] # "absent"

FinalizedIsCommitted ==
    \A r \in finalized : r.candidate \in table /\ r.run = r.candidate.ingested

CollectionInv ==
    /\ IInv
    /\ CollectionTypeOK
    /\ WorkInv
    /\ TableIsClaimed
    /\ FinalizedIsCommitted
    /\ BarsHaveEvidence
    /\ FinishedRunsCanBeReplayed
    /\ SucceededRunsAreComplete

-----------------------------------------------------------------------------

(***************************************************************************)
(* The metrics a live process finishes with are metrics of the catalogue,  *)
(* and no error is lost on the way to the status (classify).               *)
(***************************************************************************)
LEMMA MetricsSound ==
    ASSUME NEW w \in Work, w.written => w.stored # {}
    PROVE  /\ MetricsOf(w) \in Metrics
           /\ classify(MetricsOf(w)) = "succeeded" => w.err = "none"
<1> DEFINE m == MetricsOf(w)
<1>1. /\ m \in [err : {"none", "error", "canceled"}, written : BOOLEAN, raw : BOOLEAN,
                rejected : BOOLEAN]
      /\ m.written = w.written /\ m.raw = (w.stored # {})
      /\ m.err = "none" => w.err = "none"
    BY DEF Work, MetricsOf, Join
<1>2. m \in Metrics
    BY <1>1 DEF Metrics
<1> HIDE DEF m
<1>3. classify(m) = "succeeded" => m.err = "none"
    BY <1>1 DEF classify
<1> QED  BY <1>1, <1>2, <1>3 DEF m

(***************************************************************************)
(* Every step of a collection is a transaction of the run catalogue or     *)
(* leaves the catalogue as it is.                                          *)
(***************************************************************************)
LEMMA StepsAreCatalogSteps == CollectionInv /\ [CollectionNext]_collectionVars => [Next]_vars
<1> SUFFICES ASSUME CollectionInv, CollectionNext PROVE Next \/ UNCHANGED vars
    BY DEF collectionVars
<1>1. ASSUME NEW c \in Clients, NEW k \in RunKeys, Start(c, k) PROVE Next
    BY <1>1 DEF Start, Next
<1>2. ASSUME NEW c \in Clients, Finish(c) PROVE Next
    <2>1. work[c] \in Work /\ WorkIsRecorded(work[c], client[c])
        BY <1>2 DEF CollectionInv, CollectionTypeOK, WorkInv, Finish, Collected, Busy
    <2>2. MetricsOf(work[c]) \in Metrics
        BY <2>1, MetricsSound DEF WorkIsRecorded
    <2>3. work[c].accepted \in SUBSET Candidates
        BY <2>1 DEF Work
    <2> QED  BY <1>2, <2>2, <2>3 DEF Finish, Next
<1>3. ASSUME NEW c \in Clients, Die(c) PROVE Next
    BY <1>3 DEF Die, Next
<1>4. CASE Operate
    BY <1>4 DEF Operate, Next
<1>5. ASSUME NEW c \in Clients,
             \/ Signal(c)
             \/ \E s \in Securities, evidence \in BOOLEAN : CollectFails(c, s, evidence)
             \/ \E s \in Securities, rejected \in BOOLEAN :
                   \E bars \in Responses(s, client[c]) : StoreRaw(c, s, bars, rejected)
             \/ WritePrices(c)
             \/ \E committed \in BOOLEAN : WritePricesFails(c, committed)
             \/ PublishRawManifest(c)
      PROVE  UNCHANGED vars
    BY <1>5 DEF Signal, CollectFails, StoreRaw, WritePrices, WritePricesFails, PublishRawManifest
<1> QED  BY <1>1, <1>2, <1>3, <1>4, <1>5 DEF CollectionNext

-----------------------------------------------------------------------------

(***************************************************************************)
(* A process that advances without a transaction of the catalogue disturbs *)
(* only its own records: the stores only grow, by rows of its own run.     *)
(***************************************************************************)
LEMMA AdvanceKeeps ==
    ASSUME CollectionInv, NEW c \in Clients, Busy(c), NEW STATE u, u \in Work,
           work' = [work EXCEPT ![c] = u], WorkIsRecorded(work[c], client[c])',
           UNCHANGED <<vars, confirmed>>,
           raw \subseteq raw', raw' \subseteq Securities \X RunKeys,
           manifest \subseteq manifest', manifest' \subseteq [run : RunKeys, lists : SUBSET Securities],
           table \subseteq table', table' \subseteq Candidates,
           \A r \in table' \ table : r.ingested = client[c] /\ <<r.entity, r.ingested>> \in raw
    PROVE  CollectionInv'
<1> DEFINE k == client[c]
<1>0. /\ work \in [Clients -> Work \cup {None}]
      /\ work'[c] = u /\ \A d \in Clients \ {c} : work'[d] = work[d]
      /\ k \in RunKeys /\ k # None /\ StillOwned(k)
    BY DEF CollectionInv, CollectionTypeOK, WorkInv, Busy, TypeOK
<1>1. IInv'
    BY NextKeeps DEF CollectionInv
<1>2. CollectionTypeOK'
    <2>1. u # None
        BY WorkAssumption
    <2>2. work' \in [Clients -> Work \cup {None}]
        BY <1>0
    <2>3. \A d \in Clients : Busy(d)' <=> client'[d] # None
        BY <1>0, <2>1 DEF CollectionInv, CollectionTypeOK, Busy, vars
    <2> QED  BY <1>1, <2>2, <2>3 DEF CollectionInv, CollectionTypeOK, IInv
<1>3. WorkInv'
    <2> SUFFICES ASSUME NEW d \in Clients, Busy(d)'
                 PROVE  WorkIsRecorded(work[d], client[d])' /\ StillOwned(client[d])'
        BY DEF WorkInv
    <2>1. CASE d = c
        BY <2>1, <1>0 DEF StillOwned, vars
    <2>2. CASE d # c
        <3>1. Busy(d) /\ client[d] # k
            BY <1>0, <2>2 DEF CollectionInv, IInv, OneOwner, CollectionTypeOK, Busy
        <3>2. WorkIsRecorded(work[d], client[d]) /\ StillOwned(client[d])
            BY <3>1 DEF CollectionInv, WorkInv
        <3>3. WorkIsRecorded(work[d], client[d])'
            BY <1>0, <2>2, <3>1, <3>2, ZenonT(40) DEF WorkIsRecorded, vars
        <3> QED  BY <3>2, <3>3 DEF StillOwned, vars
    <2> QED  BY <2>1, <2>2
<1>4. TableIsClaimed'
    BY <1>0 DEF CollectionInv, IInv, Claimed, TableIsClaimed, vars
<1>5. FinalizedIsCommitted' /\ BarsHaveEvidence'
    BY DEF CollectionInv, FinalizedIsCommitted, BarsHaveEvidence, vars
<1>6. FinishedRunsCanBeReplayed'
    <2> SUFFICES ASSUME NEW j \in RunKeys, status[j] \in Terminal, errorMessage[j] # "operator"
                 PROVE  \E f \in manifest' :
                           /\ f.run = j
                           /\ \A s \in f.lists : <<s, j>> \in raw'
                           /\ \A r \in table' : r.ingested = j => r.entity \in f.lists
        BY DEF FinishedRunsCanBeReplayed, vars
    <2>1. j # k
        BY <1>0 DEF StillOwned, Active, Terminal
    <2>2. PICK f \in manifest : /\ f.run = j
                                /\ \A s \in f.lists : <<s, j>> \in raw
                                /\ \A r \in table : r.ingested = j => r.entity \in f.lists
        BY DEF CollectionInv, FinishedRunsCanBeReplayed
    <2> QED  BY <2>1, <2>2
<1>7. SucceededRunsAreComplete'
    BY <1>0 DEF CollectionInv, SucceededRunsAreComplete, StillOwned, Active, vars
<1> QED  BY <1>1, <1>2, <1>3, <1>4, <1>5, <1>6, <1>7 DEF CollectionInv

LEMMA SignalKeeps ==
    ASSUME CollectionInv, NEW c \in Clients, Signal(c)
    PROVE  CollectionInv'
<1> DEFINE u == [work[c] EXCEPT !.signalled = TRUE]
<1>1. work[c] \in Work /\ WorkIsRecorded(work[c], client[c])
    BY DEF Signal, CollectionInv, CollectionTypeOK, WorkInv, Busy
<1>2. work' = [work EXCEPT ![c] = u] /\ UNCHANGED <<vars, storeVars>>
    BY DEF Signal
<1>3. u \in Work
    BY <1>1, Zenon DEF Work
<1>4. /\ u.todo = work[c].todo /\ u.response = work[c].response
      /\ u.stored = work[c].stored /\ u.accepted = work[c].accepted
      /\ u.written = work[c].written /\ u.err = work[c].err /\ u.published = work[c].published
    BY <1>1, Zenon DEF Work
<1> HIDE DEF u
<1>5. work'[c] = u
    BY <1>2 DEF CollectionInv, CollectionTypeOK
<1>6. WorkIsRecorded(work[c], client[c])'
    BY <1>1, <1>2, <1>4, <1>5 DEF WorkIsRecorded, vars, storeVars
<1> QED  BY <1>2, <1>3, <1>6, AdvanceKeeps
    DEF Signal, storeVars, CollectionInv, CollectionTypeOK

LEMMA CollectFailsKeeps ==
    ASSUME CollectionInv, NEW c \in Clients, NEW s \in Securities, NEW evidence \in BOOLEAN,
           CollectFails(c, s, evidence)
    PROVE  CollectionInv'
<1> DEFINE w == work[c]
           u == [w EXCEPT !.todo   = @ \ {s},
                          !.stored = IF evidence THEN @ \cup {s} ELSE @,
                          !.err    = Join(@, IF w.signalled THEN "canceled" ELSE "error")]
<1>1. w \in Work /\ WorkIsRecorded(w, client[c]) /\ client[c] \in RunKeys
    BY DEF CollectFails, CollectionInv, CollectionTypeOK, WorkInv, Busy, TypeOK
<1>2. work' = [work EXCEPT ![c] = u]
    BY DEF CollectFails
<1>3. /\ u \in Work /\ u.err # "none"
      /\ u.todo = w.todo \ {s}
      /\ u.stored = IF evidence THEN w.stored \cup {s} ELSE w.stored
      /\ u.response = w.response /\ u.accepted = w.accepted
      /\ u.written = w.written /\ u.published = w.published
    BY <1>1 DEF Work, Join
<1> HIDE DEF u
<1>4. work'[c] = u
    BY <1>2 DEF CollectionInv, CollectionTypeOK
<1>5. WorkIsRecorded(work[c], client[c])'
    <2>1. client' = client /\ table' = table /\ manifest' = manifest /\ s \in w.todo
        BY DEF CollectFails, vars
    <2>2. raw' = IF evidence THEN raw \cup {<<s, client[c]>>} ELSE raw
        BY DEF CollectFails
    <2>3. CASE evidence
        BY <1>1, <1>3, <1>4, <2>1, <2>2, <2>3 DEF WorkIsRecorded
    <2>4. CASE ~evidence
        BY <1>1, <1>3, <1>4, <2>1, <2>2, <2>4 DEF WorkIsRecorded
    <2> QED  BY <2>3, <2>4
<1>6. raw \subseteq raw' /\ raw' \subseteq Securities \X RunKeys
    BY <1>1 DEF CollectFails, CollectionInv, CollectionTypeOK
<1> QED  BY <1>2, <1>3, <1>5, <1>6, AdvanceKeeps
    DEF CollectFails, CollectionInv, CollectionTypeOK

LEMMA StoreRawKeeps ==
    ASSUME CollectionInv, NEW c \in Clients, NEW s \in Securities, NEW rejected \in BOOLEAN,
           NEW bars \in Responses(s, client[c]), StoreRaw(c, s, bars, rejected)
    PROVE  CollectionInv'
<1> DEFINE w == work[c]
           dates == {<<b.entity, b.observed>> : b \in bars}
           u == [w EXCEPT !.todo     = @ \ {s},
                          !.response = bars,
                          !.stored   = @ \cup {s},
                          !.seen     = @ \cup dates,
                          !.rejected = @ \/ rejected]
<1>1. w \in Work /\ WorkIsRecorded(w, client[c]) /\ client[c] \in RunKeys
    BY DEF StoreRaw, CollectionInv, CollectionTypeOK, WorkInv, Busy, TypeOK
<1>2. work' = [work EXCEPT ![c] = u]
    BY DEF StoreRaw
<1>3. /\ bars \subseteq Candidates
      /\ \A b \in bars : b.entity = s /\ b.ingested = client[c]
    BY DEF Responses
<1>4. dates \subseteq Securities \X Session
    BY <1>3 DEF Securities, Entities, Session
<1> HIDE DEF dates
<1>5. u \in Work
    BY <1>1, <1>3, <1>4 DEF Work
<1>6. /\ u.todo = w.todo \ {s} /\ u.response = bars /\ u.stored = w.stored \cup {s}
      /\ u.accepted = w.accepted /\ u.err = w.err
      /\ u.written = w.written /\ u.published = w.published
    BY <1>1 DEF Work
<1> HIDE DEF u
<1>7. work'[c] = u
    BY <1>2 DEF CollectionInv, CollectionTypeOK
<1>8. WorkIsRecorded(work[c], client[c])'
    BY <1>1, <1>3, <1>6, <1>7 DEF WorkIsRecorded, StoreRaw, vars
<1>9. raw \subseteq raw' /\ raw' \subseteq Securities \X RunKeys
    <2>1. raw' = raw \cup {<<s, client[c]>>}
        BY DEF StoreRaw
    <2> QED  BY <1>1, <2>1 DEF CollectionInv, CollectionTypeOK
<1> QED  BY <1>2, <1>5, <1>8, <1>9, AdvanceKeeps
    DEF StoreRaw, CollectionInv, CollectionTypeOK

LEMMA WritePricesKeeps ==
    ASSUME CollectionInv, NEW c \in Clients, WritePrices(c)
    PROVE  CollectionInv'
<1> DEFINE w == work[c]
           new == Admitted(w.response)
           some == new # {}
           u == [w EXCEPT !.response = {}, !.accepted = @ \cup new, !.written = @ \/ some]
<1>1. w \in Work /\ WorkIsRecorded(w, client[c])
    BY DEF WritePrices, CollectionInv, CollectionTypeOK, WorkInv, Busy
<1>2. work' = [work EXCEPT ![c] = u] /\ table' = table \cup new
    BY DEF WritePrices
<1>3. /\ new \subseteq w.response /\ new \subseteq Candidates
      /\ \A b \in new : b.ingested = client[c] /\ b.entity \in w.stored
    BY <1>1 DEF Admitted, Work, WorkIsRecorded
<1>4. some \in BOOLEAN /\ (some => w.stored # {})
    BY <1>3
<1> HIDE DEF new, some
<1>5. u \in Work
    BY <1>1, <1>3, <1>4 DEF Work
<1>6. /\ u.todo = w.todo /\ u.response = {} /\ u.stored = w.stored
      /\ u.accepted = w.accepted \cup new /\ u.err = w.err
      /\ u.published = w.published /\ (u.written => w.written \/ some)
    BY <1>1 DEF Work
<1> HIDE DEF u
<1>7. work'[c] = u
    BY <1>2 DEF CollectionInv, CollectionTypeOK
<1>8. client' = client /\ raw' = raw /\ manifest' = manifest
    BY DEF WritePrices, vars
<1>9. WorkIsRecorded(work[c], client[c])'
    BY <1>1, <1>2, <1>3, <1>4, <1>6, <1>7, <1>8 DEF WorkIsRecorded
<1>10. \A r \in table' \ table : r.ingested = client[c] /\ <<r.entity, r.ingested>> \in raw
    BY <1>1, <1>2, <1>3 DEF WorkIsRecorded
<1> QED  BY <1>2, <1>3, <1>5, <1>9, <1>10, AdvanceKeeps
    DEF WritePrices, CollectionInv, CollectionTypeOK

LEMMA WritePricesFailsKeeps ==
    ASSUME CollectionInv, NEW c \in Clients, NEW committed \in BOOLEAN, WritePricesFails(c, committed)
    PROVE  CollectionInv'
<1> DEFINE w == work[c]
           new == IF committed THEN Admitted(w.response) ELSE {}
           u == [w EXCEPT !.response = {}, !.err = Join(@, "error")]
<1>1. w \in Work /\ WorkIsRecorded(w, client[c]) /\ w.response # {}
    BY DEF WritePricesFails, CollectionInv, CollectionTypeOK, WorkInv, Busy
<1>2. work' = [work EXCEPT ![c] = u] /\ table' = table \cup new
    BY DEF WritePricesFails
<1>3. /\ new \subseteq Candidates
      /\ \A b \in new : b.ingested = client[c] /\ b.entity \in w.stored
    BY <1>1 DEF Admitted, Work, WorkIsRecorded
<1> HIDE DEF new
<1>4. /\ u \in Work /\ u.err # "none" /\ u.response = {}
      /\ u.todo = w.todo /\ u.stored = w.stored /\ u.accepted = w.accepted
      /\ u.written = w.written /\ u.published = w.published
    BY <1>1 DEF Work, Join
<1> HIDE DEF u
<1>5. work'[c] = u
    BY <1>2 DEF CollectionInv, CollectionTypeOK
<1>6. client' = client /\ raw' = raw /\ manifest' = manifest
    BY DEF WritePricesFails, vars
<1>7. WorkIsRecorded(work[c], client[c])'
    BY <1>1, <1>2, <1>3, <1>4, <1>5, <1>6 DEF WorkIsRecorded
<1>8. \A r \in table' \ table : r.ingested = client[c] /\ <<r.entity, r.ingested>> \in raw
    BY <1>1, <1>2, <1>3 DEF WorkIsRecorded
<1> QED  BY <1>2, <1>3, <1>4, <1>7, <1>8, AdvanceKeeps
    DEF WritePricesFails, CollectionInv, CollectionTypeOK

LEMMA PublishRawManifestKeeps ==
    ASSUME CollectionInv, NEW c \in Clients, PublishRawManifest(c)
    PROVE  CollectionInv'
<1> DEFINE w == work[c]
           f == [run |-> client[c], lists |-> w.stored]
           u == [w EXCEPT !.published = TRUE]
<1>1. w \in Work /\ WorkIsRecorded(w, client[c]) /\ client[c] \in RunKeys
    BY DEF PublishRawManifest, Collected, CollectionInv, CollectionTypeOK, WorkInv, Busy, TypeOK
<1>2. work' = [work EXCEPT ![c] = u] /\ manifest' = manifest \cup {f}
    BY DEF PublishRawManifest
<1>3. u \in Work
    BY <1>1, Zenon DEF Work
<1>4. /\ u.todo = w.todo /\ u.response = w.response /\ u.stored = w.stored
      /\ u.accepted = w.accepted /\ u.written = w.written /\ u.err = w.err
    BY <1>1, Zenon DEF Work
<1> HIDE DEF u
<1>5. work'[c] = u
    BY <1>2 DEF CollectionInv, CollectionTypeOK
<1>6. /\ client' = client /\ raw' = raw /\ table' = table
      /\ w.todo = {} /\ w.response = {}
    BY DEF PublishRawManifest, Collected, vars
<1>7. WorkIsRecorded(work[c], client[c])'
    BY <1>1, <1>2, <1>4, <1>5, <1>6 DEF WorkIsRecorded
<1>8. manifest' \subseteq [run : RunKeys, lists : SUBSET Securities]
    BY <1>1, <1>2 DEF CollectionInv, CollectionTypeOK, Work
<1> QED  BY <1>2, <1>3, <1>7, <1>8, AdvanceKeeps
    DEF PublishRawManifest, Collected, CollectionInv, CollectionTypeOK

-----------------------------------------------------------------------------

LEMMA CollectionInitEstablishes == CollectionInit => CollectionInv
<1> SUFFICES ASSUME CollectionInit PROVE CollectionInv
    OBVIOUS
<1>1. IInv
    BY InitEstablishes DEF CollectionInit
<1>2. CollectionTypeOK /\ WorkInv
    BY <1>1 DEF CollectionInit, Init, IInv, CollectionTypeOK, WorkInv, Busy
<1>3. TableIsClaimed /\ FinalizedIsCommitted /\ BarsHaveEvidence
    BY DEF CollectionInit, Init, TableIsClaimed, FinalizedIsCommitted, BarsHaveEvidence
<1>4. FinishedRunsCanBeReplayed /\ SucceededRunsAreComplete
    BY DEF CollectionInit, Init, FinishedRunsCanBeReplayed, SucceededRunsAreComplete, Terminal
<1> QED  BY <1>1, <1>2, <1>3, <1>4 DEF CollectionInv

LEMMA StartKeeps ==
    ASSUME CollectionInv, NEW c \in Clients, NEW k \in RunKeys, Start(c, k)
    PROVE  CollectionInv'
<1>1. Fresh \in Work /\ Fresh # None
    <2>1. Fresh \in Work
        BY DEF Work, Fresh
    <2> QED  BY <2>1, WorkAssumption
<1>2. /\ status[k] = "absent" /\ client[c] = None /\ work[c] = None
      /\ status' = [status EXCEPT ![k] = "running"]
      /\ client' = [client EXCEPT ![c] = k]
      /\ work' = [work EXCEPT ![c] = Fresh]
      /\ UNCHANGED <<errorMessage, snapshot, finalized, raw, table, manifest, confirmed>>
    BY DEF Start, StartRun, Busy, storeVars
<1> HIDE DEF Fresh
<1>3. /\ work'[c] = Fresh /\ client'[c] = k /\ k # None
      /\ \A d \in Clients \ {c} : work'[d] = work[d] /\ client'[d] = client[d]
      /\ \A j \in RunKeys \ {k} : status'[j] = status[j]
      /\ status'[k] = "running"
    BY <1>2, CandidatesAssumption DEF CollectionInv, CollectionTypeOK, TypeOK
<1>4. IInv'
    BY StartRunKeeps DEF CollectionInv, Start
<1>5. CollectionTypeOK'
    <2>1. \A d \in Clients : Busy(d)' <=> client'[d] # None
        BY <1>1, <1>3 DEF CollectionInv, CollectionTypeOK, Busy
    <2>2. work' \in [Clients -> Work \cup {None}]
        BY <1>1, <1>2 DEF CollectionInv, CollectionTypeOK
    <2> QED  BY <1>2, <1>4, <2>1, <2>2 DEF CollectionInv, CollectionTypeOK, IInv
<1>6. \A r \in table : r.ingested # k /\ r.ingested \in RunKeys
    BY <1>2, WorkAssumption DEF CollectionInv, CollectionTypeOK, TableIsClaimed
<1>7. WorkInv'
    <2> SUFFICES ASSUME NEW d \in Clients, Busy(d)'
                 PROVE  WorkIsRecorded(work[d], client[d])' /\ StillOwned(client[d])'
        BY DEF WorkInv
    <2>1. CASE d = c
        BY <1>2, <1>3, <1>6, <2>1 DEF WorkIsRecorded, StillOwned, Fresh, Active
    <2>2. CASE d # c
        <3>1. Busy(d) /\ client[d] \in RunKeys
            BY <1>3, <2>2 DEF CollectionInv, CollectionTypeOK, TypeOK, Busy
        <3>2. WorkIsRecorded(work[d], client[d]) /\ StillOwned(client[d])
            BY <3>1 DEF CollectionInv, WorkInv
        <3>3. client[d] # k
            BY <1>2, <3>2 DEF StillOwned, Active
        <3> QED  BY <1>2, <1>3, <2>2, <3>1, <3>2, <3>3 DEF WorkIsRecorded, StillOwned
    <2> QED  BY <2>1, <2>2
<1>8. TableIsClaimed' /\ FinalizedIsCommitted' /\ BarsHaveEvidence'
    BY <1>2, <1>3, <1>6 DEF CollectionInv, TableIsClaimed, FinalizedIsCommitted, BarsHaveEvidence
<1>9. FinishedRunsCanBeReplayed' /\ SucceededRunsAreComplete'
    <2>1. \A j \in RunKeys : status'[j] \in Terminal => status[j] = status'[j]
        BY <1>3 DEF Terminal
    <2> QED  BY <1>2, <2>1
             DEF CollectionInv, FinishedRunsCanBeReplayed, SucceededRunsAreComplete, Terminal
<1> QED  BY <1>4, <1>5, <1>7, <1>8, <1>9 DEF CollectionInv

(***************************************************************************)
(* The end of a process: its memory is gone, the stores keep what they     *)
(* have, and the records of the other processes stay true.                 *)
(***************************************************************************)
LEMMA EndKeepsWork ==
    ASSUME CollectionInv, NEW c \in Clients, Busy(c),
           client' = [client EXCEPT ![c] = None], work' = [work EXCEPT ![c] = None],
           UNCHANGED <<raw, table, manifest>>,
           \A j \in RunKeys : j # client[c] => status'[j] = status[j] /\ errorMessage'[j] = errorMessage[j]
    PROVE  /\ WorkInv'
           /\ work' \in [Clients -> Work \cup {None}]
           /\ \A d \in Clients : Busy(d)' <=> client'[d] # None
<1>1. /\ work'[c] = None /\ client'[c] = None
      /\ \A d \in Clients \ {c} : work'[d] = work[d] /\ client'[d] = client[d]
    BY DEF CollectionInv, CollectionTypeOK, TypeOK
<1>2. WorkInv'
    <2> SUFFICES ASSUME NEW d \in Clients, Busy(d)'
                 PROVE  WorkIsRecorded(work[d], client[d])' /\ StillOwned(client[d])'
        BY DEF WorkInv
    <2>1. d # c /\ Busy(d) /\ client[d] \in RunKeys /\ client[d] # client[c]
        BY <1>1 DEF CollectionInv, IInv, CollectionTypeOK, TypeOK, OneOwner, Busy
    <2>2. WorkIsRecorded(work[d], client[d]) /\ StillOwned(client[d])
        BY <2>1 DEF CollectionInv, WorkInv
    <2> QED  BY <1>1, <2>1, <2>2 DEF WorkIsRecorded, StillOwned
<1>3. work' \in [Clients -> Work \cup {None}]
    BY DEF CollectionInv, CollectionTypeOK
<1>4. \A d \in Clients : Busy(d)' <=> client'[d] # None
    BY <1>1 DEF CollectionInv, CollectionTypeOK, Busy
<1> QED  BY <1>2, <1>3, <1>4

LEMMA DieKeeps ==
    ASSUME CollectionInv, NEW c \in Clients, Die(c)
    PROVE  CollectionInv'
<1>1. /\ Busy(c) /\ client' = [client EXCEPT ![c] = None] /\ work' = [work EXCEPT ![c] = None]
      /\ UNCHANGED <<status, errorMessage, snapshot, finalized, raw, table, manifest, confirmed>>
    BY DEF Die, FinalizeRunFails, storeVars
<1>2. IInv'
    BY NextKeeps DEF Die, Next, CollectionInv
<1>3. WorkInv' /\ CollectionTypeOK'
    BY <1>1, <1>2, EndKeepsWork DEF CollectionInv, CollectionTypeOK, IInv
<1>4. (/\ TableIsClaimed /\ FinalizedIsCommitted /\ BarsHaveEvidence
       /\ FinishedRunsCanBeReplayed /\ SucceededRunsAreComplete)'
    BY <1>1 DEF CollectionInv, TableIsClaimed, FinalizedIsCommitted, BarsHaveEvidence,
                FinishedRunsCanBeReplayed, SucceededRunsAreComplete
<1> QED  BY <1>2, <1>3, <1>4 DEF CollectionInv

LEMMA FinishKeeps ==
    ASSUME CollectionInv, NEW c \in Clients, Finish(c)
    PROVE  CollectionInv'
<1> DEFINE w == work[c]
           k == client[c]
           m == MetricsOf(w)
<1>1. /\ Busy(c) /\ w \in Work /\ WorkIsRecorded(w, k)
      /\ k \in RunKeys /\ status[k] \in Active /\ w.published
    BY DEF Finish, FinalizeRun, Collected, CollectionInv, CollectionTypeOK, WorkInv, Busy, TypeOK
<1>2. /\ m \in Metrics /\ classify(m) \in Terminal
      /\ classify(m) = "succeeded" => w.err = "none"
    BY <1>1, MetricsSound, ClassifyTerminal DEF WorkIsRecorded
<1> HIDE DEF m
<1>3. /\ client' = [client EXCEPT ![c] = None]
      /\ work' = [work EXCEPT ![c] = None]
      /\ status' = [status EXCEPT ![k] = classify(m)]
      /\ errorMessage' = [errorMessage EXCEPT ![k] = IF m.err = "none" THEN "none" ELSE "collection"]
      /\ finalized' = finalized \cup [candidate : w.accepted, run : {k}]
      /\ confirmed' = IF classify(m) = "succeeded" THEN confirmed \cup w.seen ELSE confirmed
      /\ UNCHANGED <<raw, table, manifest>>
    BY DEF Finish, FinalizeRun, m
<1>4. \A j \in RunKeys : j # k => status'[j] = status[j] /\ errorMessage'[j] = errorMessage[j]
    BY <1>3 DEF CollectionInv, CollectionTypeOK, TypeOK
<1>5. status'[k] = classify(m) /\ errorMessage'[k] # "operator"
    BY <1>1, <1>3 DEF CollectionInv, CollectionTypeOK, TypeOK
<1>6. IInv'
    BY StepsAreCatalogSteps, NextKeeps DEF CollectionInv, CollectionNext
<1>7. WorkInv' /\ CollectionTypeOK'
    <2>1. confirmed' \subseteq Securities \X Session
        BY <1>1, <1>3 DEF Work, CollectionInv, CollectionTypeOK
    <2> QED  BY <1>1, <1>3, <1>4, <1>6, <2>1, EndKeepsWork DEF CollectionInv, CollectionTypeOK, IInv
<1>8. TableIsClaimed'
    <2> SUFFICES ASSUME NEW r \in table PROVE status'[r.ingested] # "absent"
        BY <1>3 DEF TableIsClaimed
    <2>1. r.ingested \in RunKeys /\ status[r.ingested] # "absent"
        BY WorkAssumption DEF CollectionInv, CollectionTypeOK, TableIsClaimed
    <2> QED  BY <1>2, <1>4, <1>5, <2>1 DEF Terminal
<1>9. FinalizedIsCommitted'
    BY <1>1, <1>3 DEF CollectionInv, FinalizedIsCommitted, WorkIsRecorded
<1>10. BarsHaveEvidence'
    BY <1>3 DEF CollectionInv, BarsHaveEvidence
<1>11. FinishedRunsCanBeReplayed'
    <2> SUFFICES ASSUME NEW j \in RunKeys, status'[j] \in Terminal, errorMessage'[j] # "operator"
                 PROVE  \E f \in manifest :
                           /\ f.run = j
                           /\ \A s \in f.lists : <<s, j>> \in raw
                           /\ \A r \in table : r.ingested = j => r.entity \in f.lists
        BY <1>3 DEF FinishedRunsCanBeReplayed
    <2>1. CASE j = k
        <3> DEFINE f == [run |-> k, lists |-> w.stored]
        <3>1. f \in manifest
            BY <1>1 DEF WorkIsRecorded
        <3> QED  BY <1>1, <2>1, <3>1 DEF WorkIsRecorded
    <2>2. CASE j # k
        BY <1>4, <2>2 DEF CollectionInv, FinishedRunsCanBeReplayed
    <2> QED  BY <2>1, <2>2
<1>12. SucceededRunsAreComplete'
    <2> SUFFICES ASSUME NEW j \in RunKeys, status'[j] = "succeeded"
                 PROVE  /\ [run |-> j, lists |-> Securities] \in manifest
                        /\ \A r \in table : r.ingested = j => [candidate |-> r, run |-> j] \in finalized'
        BY <1>3 DEF SucceededRunsAreComplete
    <2>1. CASE j = k
        <3>1. w.err = "none" /\ w.todo = {} /\ [run |-> k, lists |-> w.stored] \in manifest
            BY <1>1, <1>2, <1>5, <2>1 DEF WorkIsRecorded
        <3>2. w.stored = Securities
            BY <1>1, <3>1 DEF WorkIsRecorded
        <3>3. \A r \in table : r.ingested = k => r \in w.accepted
            BY <1>1, <3>1 DEF WorkIsRecorded
        <3> QED  BY <1>3, <2>1, <3>1, <3>2, <3>3
    <2>2. CASE j # k
        BY <1>3, <1>4, <2>2 DEF CollectionInv, SucceededRunsAreComplete
    <2> QED  BY <2>1, <2>2
<1> QED  BY <1>6, <1>7, <1>8, <1>9, <1>10, <1>11, <1>12 DEF CollectionInv

LEMMA OperateKeeps ==
    ASSUME CollectionInv, Operate
    PROVE  CollectionInv'
<1>1. /\ UNCHANGED <<raw, table, manifest, confirmed, work, client, snapshot, finalized>>
      /\ \A k \in RunKeys :
            \/ status'[k] = status[k] /\ errorMessage'[k] = errorMessage[k]
            \/ status[k] \in Active /\ status'[k] = "cancelled" /\ errorMessage'[k] = "operator"
    <2>1. ASSUME NEW o \in Operators, NEW k \in RunKeys, LookupRun(o, k)
          PROVE  UNCHANGED <<status, errorMessage, client, snapshot, finalized>>
        BY <2>1 DEF LookupRun
    <2>2. ASSUME NEW o \in Operators, CancelRun(o)
          PROVE  /\ UNCHANGED <<client, snapshot, finalized>>
                 /\ \A k \in RunKeys :
                       \/ status'[k] = status[k] /\ errorMessage'[k] = errorMessage[k]
                       \/ /\ status[k] \in Active /\ status'[k] = "cancelled"
                          /\ errorMessage'[k] = "operator"
        BY <2>2 DEF CancelRun, CollectionInv, CollectionTypeOK, TypeOK
    <2> QED  BY <2>1, <2>2 DEF Operate, storeVars
<1>2. IInv'
    BY StepsAreCatalogSteps, NextKeeps DEF CollectionInv, CollectionNext
<1>3. CollectionTypeOK'
    BY <1>1, <1>2 DEF CollectionInv, CollectionTypeOK, IInv, Busy
<1>4. WorkInv'
    <2> SUFFICES ASSUME NEW c \in Clients, Busy(c)
                 PROVE  WorkIsRecorded(work[c], client[c])' /\ StillOwned(client[c])'
        BY <1>1 DEF WorkInv, Busy
    <2>1. /\ WorkIsRecorded(work[c], client[c]) /\ StillOwned(client[c])
          /\ client[c] \in RunKeys
        BY DEF CollectionInv, CollectionTypeOK, TypeOK, WorkInv, Busy
    <2> QED  BY <1>1, <2>1 DEF WorkIsRecorded, StillOwned
<1>5. TableIsClaimed'
    BY <1>1, WorkAssumption DEF CollectionInv, CollectionTypeOK, TableIsClaimed
<1>6. FinalizedIsCommitted' /\ BarsHaveEvidence'
    BY <1>1 DEF CollectionInv, FinalizedIsCommitted, BarsHaveEvidence
<1>7. FinishedRunsCanBeReplayed' /\ SucceededRunsAreComplete'
    BY <1>1 DEF CollectionInv, FinishedRunsCanBeReplayed, SucceededRunsAreComplete
<1> QED  BY <1>2, <1>3, <1>4, <1>5, <1>6, <1>7 DEF CollectionInv

LEMMA CollectionNextKeeps == CollectionInv /\ [CollectionNext]_collectionVars => CollectionInv'
<1> SUFFICES ASSUME CollectionInv, [CollectionNext]_collectionVars PROVE CollectionInv'
    OBVIOUS
<1>1. ASSUME NEW c \in Clients,
             \/ \E k \in RunKeys : Start(c, k)
             \/ Signal(c)
             \/ \E s \in Securities, evidence \in BOOLEAN : CollectFails(c, s, evidence)
             \/ \E s \in Securities, rejected \in BOOLEAN :
                   \E bars \in Responses(s, client[c]) : StoreRaw(c, s, bars, rejected)
             \/ WritePrices(c)
             \/ \E committed \in BOOLEAN : WritePricesFails(c, committed)
             \/ PublishRawManifest(c)
             \/ Finish(c)
             \/ Die(c)
      PROVE  CollectionInv'
    BY <1>1, StartKeeps, SignalKeeps, CollectFailsKeeps, StoreRawKeeps, WritePricesKeeps,
       WritePricesFailsKeeps, PublishRawManifestKeeps, FinishKeeps, DieKeeps
<1>2. CASE Operate
    BY <1>2, OperateKeeps
<1>3. CASE UNCHANGED collectionVars
    BY <1>3
    DEF collectionVars, vars, CollectionInv, IInv, TypeOK, OneOwner, Claimed, ProjectionIsNewest,
        FailedRunsPublishNothing, CollectionTypeOK, WorkInv, WorkIsRecorded, StillOwned, Busy,
        TableIsClaimed, FinalizedIsCommitted, BarsHaveEvidence, FinishedRunsCanBeReplayed,
        SucceededRunsAreComplete
<1> QED  BY <1>1, <1>2, <1>3 DEF CollectionNext

-----------------------------------------------------------------------------

THEOREM CollectionInductive == CollectionSpec => []CollectionInv
BY CollectionInitEstablishes, CollectionNextKeeps, PTL DEF CollectionSpec

(***************************************************************************)
(* The type invariant of the collection.                                   *)
(***************************************************************************)
THEOREM CollectionTypeCorrect == CollectionSpec => []CollectionTypeOK
BY CollectionInductive, PTL DEF CollectionInv

(***************************************************************************)
(* No bar is committed without the response it came from, for any number   *)
(* of collectors that die, are signalled or whose writes fail at any point *)
(* (storeRaw before WritePricesQuarantining).                              *)
(***************************************************************************)
THEOREM BarsHaveEvidenceHolds == CollectionSpec => []BarsHaveEvidence
BY CollectionInductive, PTL DEF CollectionInv

(***************************************************************************)
(* The dashboard never shows a bar the Parquet table does not hold, and    *)
(* names the run that committed it (finish, upsertPriceSnapshots).         *)
(***************************************************************************)
THEOREM ProjectionIsCommittedHolds == CollectionSpec => []ProjectionIsCommitted
<1>1. CollectionInv => ProjectionIsCommitted
    BY DEF CollectionInv, IInv, ProjectionIsNewest, FinalizedIsCommitted,
           ProjectionIsCommitted, Securities
<1> QED  BY <1>1, CollectionInductive, PTL

(***************************************************************************)
(* A run that recorded its own end has a raw manifest it can be replayed   *)
(* from (PublishRawManifest before FinalizeRun, finish).                   *)
(***************************************************************************)
THEOREM FinishedRunsCanBeReplayedHolds == CollectionSpec => []FinishedRunsCanBeReplayed
BY CollectionInductive, PTL DEF CollectionInv

(***************************************************************************)
(* A run recorded as succeeded lost nothing on the way: it has evidence of *)
(* every security and every bar it committed was offered to the projection *)
(* (collectPrices, classify).                                              *)
(***************************************************************************)
THEOREM SucceededRunsAreCompleteHolds == CollectionSpec => []SucceededRunsAreComplete
BY CollectionInductive, PTL DEF CollectionInv

(***************************************************************************)
(* A collection implements the run catalogue: every step is a transaction  *)
(* of RunCatalog or leaves its variables alone, so whatever is proved of   *)
(* the catalogue holds while bars, evidence and manifests are written.     *)
(***************************************************************************)
THEOREM CollectionImplementsCatalog == CollectionSpec => Spec
<1>1. CollectionInit => Init
    BY DEF CollectionInit
<1> QED  BY <1>1, StepsAreCatalogSteps, CollectionInductive, PTL DEF CollectionSpec, Spec

(***************************************************************************)
(* The finality of terminal rows and the precedence of the projection, for *)
(* the collection as a whole.                                              *)
(***************************************************************************)
THEOREM CollectionKeepsCatalogPromises ==
    CollectionSpec => TerminalIsFinal /\ ProjectionMovesWithItsRun /\ []ProjectionIsNewest
BY CollectionImplementsCatalog, TerminalIsFinalHolds, ProjectionMovesWithItsRunHolds,
   ProjectionIsNewestHolds, PTL

=============================================================================
