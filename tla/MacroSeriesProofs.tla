-------------------------- MODULE MacroSeriesProofs --------------------------
(***************************************************************************)
(* Proofs about MacroSeries, for every set of dates and of values and      *)
(* every number of runs: the partition tells the history the provider      *)
(* served, and the dashboard never leaves it.                              *)
(*                                                                         *)
(* The argument: the revisions of a date are exactly the positions of its  *)
(* history, so the row latestEconomic chooses is the last entry of it      *)
(* (LatestIsLast) and a value is a change for WriteEconomics exactly when  *)
(* it is one for the history (SameChanges).  The observation a run keeps   *)
(* for its finalization then names the newest revision of its date, and    *)
(* no other run writes while one is in flight.                             *)
(***************************************************************************)
EXTENDS MacroSeries, TLAPS

\* The row the n-th entry of a date's history stands for.
Told(d, n) ==
    [observed |-> d, published |-> served[d][n].at,
     revision |-> n - 1, value |-> served[d][n].value]

(***************************************************************************)
(* An observation waiting for its finalization names a committed revision, *)
(* and the newest one of its date.                                         *)
(***************************************************************************)
InFlightIsNewest ==
    \A o \in inFlight :
       /\ \E r \in RowsOf(o.observed) : r.revision = o.revision /\ r.value = o.value
       /\ \A r \in RowsOf(o.observed) : r.revision <= o.revision

\* The inductive invariant.
SeriesInv ==
    /\ TypeOK
    /\ RevisionsTellTheHistory
    /\ InFlightIsNewest
    /\ SnapshotIsCommitted

-----------------------------------------------------------------------------
(***************************************************************************)
(* The operators of the model, while the history is told.                  *)
(***************************************************************************)

\* Appending a part commits its rows.
LEMMA AppendCommits ==
    ASSUME NEW S, NEW s \in Seq(S), NEW e \in S
    PROVE  UNION {Append(s, e)[i] : i \in DOMAIN Append(s, e)}
              = (UNION {s[i] : i \in DOMAIN s}) \cup e
<1>1. /\ Append(s, e) \in Seq(S)
      /\ Len(Append(s, e)) = Len(s) + 1
      /\ \A i \in 1..Len(s) : Append(s, e)[i] = s[i]
      /\ Append(s, e)[Len(s) + 1] = e
      /\ Len(s) \in Nat
      /\ DOMAIN s = 1..Len(s) /\ DOMAIN Append(s, e) = 1..(Len(s) + 1)
  OBVIOUS
<1>2. \A x : x \in (UNION {s[i] : i \in DOMAIN s}) \cup e
               => x \in UNION {Append(s, e)[i] : i \in DOMAIN Append(s, e)}
  <2>1. ASSUME NEW x, x \in UNION {s[i] : i \in DOMAIN s}
        PROVE  x \in UNION {Append(s, e)[i] : i \in DOMAIN Append(s, e)}
    <3>1. PICK i \in 1..Len(s) : x \in s[i]
      BY <2>1, <1>1
    <3>2. i \in 1..(Len(s) + 1) /\ x \in Append(s, e)[i]
      BY <3>1, <1>1
    <3>. QED
      BY <3>2, <1>1
  <2>2. ASSUME NEW x, x \in e
        PROVE  x \in UNION {Append(s, e)[i] : i \in DOMAIN Append(s, e)}
    <3>1. Len(s) + 1 \in 1..(Len(s) + 1) /\ x \in Append(s, e)[Len(s) + 1]
      BY <2>2, <1>1
    <3>. QED
      BY <3>1, <1>1
  <2>. QED
    BY <2>1, <2>2
<1>3. ASSUME NEW x, x \in UNION {Append(s, e)[i] : i \in DOMAIN Append(s, e)}
      PROVE  x \in (UNION {s[i] : i \in DOMAIN s}) \cup e
  <2>1. PICK i \in 1..(Len(s) + 1) : x \in Append(s, e)[i]
    BY <1>3, <1>1
  <2>2. CASE i \in 1..Len(s)
    BY <2>1, <2>2, <1>1
  <2>3. CASE i = Len(s) + 1
    BY <2>1, <2>3, <1>1
  <2>. QED
    BY <2>1, <2>2, <2>3, <1>1
<1>. QED
  BY <1>2, <1>3

\* A sequence that is not empty has a length above 0.
LEMMA NonemptyLength ==
    ASSUME NEW S, NEW s \in Seq(S), s # <<>>
    PROVE  Len(s) \in Nat \ {0} /\ DOMAIN s = 1..Len(s)
<1>1. Len(s) \in Nat /\ DOMAIN s = 1..Len(s)
  OBVIOUS
<1>2. Len(s) # 0
  OBVIOUS
<1>. QED
  BY <1>1, <1>2

\* The history of a date is a sequence of values and stamps.
LEMMA HistoryTyped ==
    ASSUME TypeOK, NEW d \in Dates
    PROVE  /\ served[d] \in Seq([value : Values, at : Stamps])
           /\ Len(served[d]) \in Nat
<1>1. served[d] \in Seq([value : Values, at : Stamps])
  BY DEF TypeOK
<1>. QED
  BY <1>1

\* The rows of a date are told by its history, one for each entry.
LEMMA RowsAreTold ==
    ASSUME RevisionsTellTheHistory, NEW d \in Dates
    PROVE  RowsOf(d) = {Told(d, n) : n \in DOMAIN served[d]}
BY DEF RevisionsTellTheHistory, Told

\* The row latestEconomic chooses is the last entry of the date's history.
LEMMA LatestIsLast ==
    ASSUME TypeOK, RevisionsTellTheHistory, NEW d \in Dates, served[d] # <<>>
    PROVE  /\ RowsOf(d) # {}
           /\ latestEconomic(d) = Told(d, Len(served[d]))
           /\ \A r \in RowsOf(d) : r.revision <= Len(served[d]) - 1
<1>1. /\ served[d] \in Seq([value : Values, at : Stamps])
      /\ Len(served[d]) \in Nat \ {0}
      /\ DOMAIN served[d] = 1..Len(served[d])
  BY HistoryTyped, NonemptyLength
<1>2. \A n \in 1..Len(served[d]) : Told(d, n) \in RowsOf(d) /\ Told(d, n).revision = n - 1
  BY <1>1, RowsAreTold DEF Told
<1>3. \A r \in RowsOf(d) : \E n \in 1..Len(served[d]) : r = Told(d, n)
  BY <1>1, RowsAreTold
<1>4. Told(d, Len(served[d])) \in RowsOf(d)
  BY <1>1, <1>2
<1>5. ASSUME NEW r \in RowsOf(d) PROVE r.revision <= Len(served[d]) - 1
  <2>1. PICK n \in 1..Len(served[d]) : r = Told(d, n)
    BY <1>3
  <2>. QED
    BY <2>1, <1>1, <1>2
<1>6. \A s \in RowsOf(d) : s.revision <= Told(d, Len(served[d])).revision
  BY <1>1, <1>2, <1>5
<1>7. ASSUME NEW r \in RowsOf(d), \A s \in RowsOf(d) : s.revision <= r.revision
      PROVE  r = Told(d, Len(served[d]))
  <2>1. PICK n \in 1..Len(served[d]) : r = Told(d, n)
    BY <1>3
  <2>2. Told(d, Len(served[d])).revision <= r.revision
    BY <1>4, <1>7
  <2>3. n = Len(served[d])
    BY <2>1, <2>2, <1>1, <1>2
  <2>. QED
    BY <2>1, <2>3
<1>8. latestEconomic(d) = Told(d, Len(served[d]))
  BY <1>4, <1>6, <1>7 DEF latestEconomic
<1>. QED
  BY <1>4, <1>5, <1>8

\* A date without history has no rows, and the other way round.
LEMMA EmptyHistory ==
    ASSUME TypeOK, RevisionsTellTheHistory, NEW d \in Dates
    PROVE  RowsOf(d) = {} <=> served[d] = <<>>
<1>1. served[d] = <<>> => DOMAIN served[d] = {}
  OBVIOUS
<1>2. served[d] = <<>> => RowsOf(d) = {}
  BY <1>1, RowsAreTold
<1>. QED
  BY <1>2, LatestIsLast

\* A value is a change for WriteEconomics exactly when it is one for the history.
LEMMA SameChanges ==
    ASSUME TypeOK, RevisionsTellTheHistory, NEW d \in Dates, NEW response
    PROVE  Unchanged(response, d)
              <=> served[d] # <<>> /\ Last(served[d]).value = response[d]
<1>1. CASE served[d] = <<>>
  BY <1>1, EmptyHistory DEF Unchanged
<1>2. CASE served[d] # <<>>
  <2>1. latestEconomic(d).value = served[d][Len(served[d])].value
    BY <1>2, LatestIsLast DEF Told
  <2>2. Last(served[d]) = served[d][Len(served[d])]
    BY DEF Last
  <2>. QED
    BY <1>2, <2>1, <2>2, LatestIsLast DEF Unchanged
<1>. QED
  BY <1>1, <1>2

\* The effective revision is the position of the value in the date's history.
LEMMA RevisionIsPosition ==
    ASSUME TypeOK, RevisionsTellTheHistory, NEW d \in Dates, NEW response
    PROVE  EffectiveRevision(response, d)
              = IF Unchanged(response, d) THEN Len(served[d]) - 1 ELSE Len(served[d])
<1>1. CASE served[d] = <<>>
  BY <1>1, EmptyHistory DEF EffectiveRevision, Unchanged
<1>2. CASE served[d] # <<>>
  <2>1. RowsOf(d) # {} /\ latestEconomic(d).revision = Len(served[d]) - 1
    BY <1>2, LatestIsLast DEF Told
  <2>2. Len(served[d]) \in Nat
    BY HistoryTyped
  <2>3. CASE Unchanged(response, d)
    BY <2>1, <2>2, <2>3 DEF EffectiveRevision
  <2>4. CASE ~Unchanged(response, d)
    BY <2>1, <2>2, <2>4 DEF EffectiveRevision
  <2>. QED
    BY <2>3, <2>4
<1>. QED
  BY <1>1, <1>2

\* What a run keeps for its finalization are rows.
LEMMA ObservationIsRow ==
    ASSUME TypeOK, RevisionsTellTheHistory, clock < MaxRuns,
           NEW response, NEW d \in Dates, response[d] \in Values
    PROVE  /\ Observation(response, d) \in Row
           /\ clock + 1 \in Stamps
<1>1. clock + 1 \in Stamps
  BY DatesAssumption DEF TypeOK, Stamps
<1>2. Len(served[d]) \in Nat
  BY HistoryTyped
<1>3. Unchanged(response, d) => Len(served[d]) \in Nat \ {0}
  BY HistoryTyped, SameChanges, NonemptyLength
<1>4. EffectiveRevision(response, d) \in Nat
  BY <1>2, <1>3, RevisionIsPosition
<1>. QED
  BY <1>1, <1>4 DEF Observation, Row

-----------------------------------------------------------------------------
(***************************************************************************)
(* WriteEconomics.                                                         *)
(***************************************************************************)

\* The response of a write: dates of the series, each with a value.
LEMMA ResponseShape ==
    ASSUME NEW response \in Response
    PROVE  /\ DOMAIN response \subseteq Dates
           /\ \A d \in DOMAIN response : response[d] \in Values
BY DEF Response

\* A write adds its new rows to the partition and takes none away.
LEMMA WriteCommits ==
    ASSUME TypeOK, RevisionsTellTheHistory, NEW response \in Response, WriteEconomics(response)
    PROVE  /\ parts' \in Seq((SUBSET Row) \ {{}})
           /\ Committed' = Committed \cup NewRows(response)
<1>1. NewRows(response) \subseteq Row
  BY ResponseShape, ObservationIsRow DEF NewRows, WriteEconomics
<1>2. parts \in Seq((SUBSET Row) \ {{}})
  BY DEF TypeOK
<1>3. CASE NewRows(response) = {}
  <2>1. parts' = parts
    BY <1>3 DEF WriteEconomics
  <2>. QED
    BY <1>2, <1>3, <2>1 DEF Committed
<1>4. CASE NewRows(response) # {}
  <2>1. parts' = Append(parts, NewRows(response))
    BY <1>4 DEF WriteEconomics
  <2>2. NewRows(response) \in (SUBSET Row) \ {{}}
    BY <1>1, <1>4
  <2>3. parts' \in Seq((SUBSET Row) \ {{}})
    BY <1>2, <2>1, <2>2
  <2>4. UNION {Append(parts, NewRows(response))[i] : i \in DOMAIN Append(parts, NewRows(response))}
           = (UNION {parts[i] : i \in DOMAIN parts}) \cup NewRows(response)
    BY <1>2, <2>2, AppendCommits
  <2>. QED
    BY <2>1, <2>3, <2>4 DEF Committed
<1>. QED
  BY <1>3, <1>4

\* A write extends the history of the dates whose value changed, and no other.
LEMMA WriteNotes ==
    ASSUME TypeOK, RevisionsTellTheHistory, NEW response \in Response, WriteEconomics(response),
           NEW d \in Dates
    PROVE  served'[d] = IF d \in DOMAIN response /\ ~Unchanged(response, d)
                        THEN Append(served[d], [value |-> response[d], at |-> clock + 1])
                        ELSE served[d]
<1>1. served' = Note(response)
  BY DEF WriteEconomics
<1>. QED
  BY <1>1, SameChanges DEF Note

\* The history after a write is typed.
LEMMA WriteNotesTyped ==
    ASSUME TypeOK, RevisionsTellTheHistory, NEW response \in Response, WriteEconomics(response)
    PROVE  served' \in [Dates -> Seq([value : Values, at : Stamps])]
<1>1. ASSUME NEW d \in Dates PROVE served'[d] \in Seq([value : Values, at : Stamps])
  <2>1. served[d] \in Seq([value : Values, at : Stamps])
    BY HistoryTyped
  <2>2. CASE d \in DOMAIN response
    <3>1. response[d] \in Values
      BY <2>2, ResponseShape
    <3>2. [value |-> response[d], at |-> clock + 1] \in [value : Values, at : Stamps]
      BY <3>1, ObservationIsRow DEF WriteEconomics
    <3>3. Append(served[d], [value |-> response[d], at |-> clock + 1])
             \in Seq([value : Values, at : Stamps])
      BY <2>1, <3>2
    <3>. QED
      BY <2>1, <3>3, WriteNotes
  <2>3. CASE d \notin DOMAIN response
    BY <2>1, <2>3, WriteNotes
  <2>. QED
    BY <2>2, <2>3
<1>2. served' = [d \in Dates |-> served'[d]]
  <2>1. served' = Note(response)
    BY DEF WriteEconomics
  <2>. QED
    BY <2>1 DEF Note
<1>. QED
  BY <1>1, <1>2

\* The rows of a date after a write: the new observation joins them if it is a change.
LEMMA WriteRows ==
    ASSUME TypeOK, RevisionsTellTheHistory, NEW response \in Response, WriteEconomics(response),
           NEW d \in Dates
    PROVE  RowsOf(d)' = IF d \in DOMAIN response /\ ~Unchanged(response, d)
                        THEN RowsOf(d) \cup {Observation(response, d)}
                        ELSE RowsOf(d)
<1>1. RowsOf(d)' = RowsOf(d) \cup {r \in NewRows(response) : r.observed = d}
  BY WriteCommits DEF RowsOf
<1>2. \A e : Observation(response, e).observed = e
  BY DEF Observation
<1>3. ASSUME d \in DOMAIN response, ~Unchanged(response, d)
      PROVE  {r \in NewRows(response) : r.observed = d} = {Observation(response, d)}
  BY <1>2, <1>3 DEF NewRows
<1>4. ASSUME ~(d \in DOMAIN response /\ ~Unchanged(response, d))
      PROVE  {r \in NewRows(response) : r.observed = d} = {}
  BY <1>2, <1>4 DEF NewRows
<1>. QED
  BY <1>1, <1>3, <1>4

\* After a write the rows of every date are still told by its history.
LEMMA WriteTells ==
    ASSUME TypeOK, RevisionsTellTheHistory, NEW response \in Response, WriteEconomics(response),
           NEW d \in Dates
    PROVE  RowsOf(d)' = {Told(d, n)' : n \in DOMAIN served'[d]}
<1>1. RowsOf(d) = {Told(d, n) : n \in DOMAIN served[d]}
  BY RowsAreTold
<1>2. CASE d \in DOMAIN response /\ ~Unchanged(response, d)
  <2> DEFINE entry == [value |-> response[d], at |-> clock + 1]
  <2>1. /\ RowsOf(d)' = RowsOf(d) \cup {Observation(response, d)}
        /\ served'[d] = Append(served[d], entry)
    BY <1>2, WriteRows, WriteNotes
  <2>2. entry \in [value : Values, at : Stamps]
    BY <1>2, ResponseShape, ObservationIsRow DEF WriteEconomics
  <2>3. entry.value = response[d] /\ entry.at = clock + 1
    OBVIOUS
  <2> HIDE DEF entry
  <2>4. /\ DOMAIN served[d] = 1..Len(served[d])
        /\ DOMAIN served'[d] = 1..(Len(served[d]) + 1)
        /\ \A n \in 1..Len(served[d]) : served'[d][n] = served[d][n]
        /\ served'[d][Len(served[d]) + 1] = entry
        /\ Len(served[d]) \in Nat
    BY <2>1, <2>2, HistoryTyped
  <2>5. \A n \in 1..Len(served[d]) : Told(d, n)' = Told(d, n)
    BY <2>4 DEF Told
  <2>6. ASSUME NEW n, n = Len(served[d]) + 1 PROVE Told(d, n)' = Observation(response, d)
    <3>1. EffectiveRevision(response, d) = Len(served[d])
      BY <1>2, RevisionIsPosition
    <3>2. n - 1 = Len(served[d]) /\ served'[d][n] = entry
      BY <2>4, <2>6
    <3>. QED
      BY <2>3, <3>1, <3>2 DEF Told, Observation
  <2>7. \A n \in 1..(Len(served[d]) + 1) : n \in 1..Len(served[d]) \/ n = Len(served[d]) + 1
    BY <2>4
  <2>8. 1..Len(served[d]) \subseteq 1..(Len(served[d]) + 1)
           /\ Len(served[d]) + 1 \in 1..(Len(served[d]) + 1)
    BY <2>4
  <2>. QED
    BY <1>1, <2>1, <2>4, <2>5, <2>6, <2>7, <2>8
<1>3. CASE ~(d \in DOMAIN response /\ ~Unchanged(response, d))
  <2>1. RowsOf(d)' = RowsOf(d) /\ served'[d] = served[d]
    BY <1>3, WriteRows, WriteNotes
  <2>. QED
    BY <1>1, <2>1 DEF Told
<1>. QED
  BY <1>2, <1>3

(***************************************************************************)
(* After a write the observation of a date stands for the last entry of    *)
(* its history, whether it is that entry or repeats it.                    *)
(***************************************************************************)
LEMMA ObservationIsLast ==
    ASSUME TypeOK, RevisionsTellTheHistory, NEW response \in Response, WriteEconomics(response),
           NEW d \in DOMAIN response
    PROVE  /\ Len(served'[d]) \in DOMAIN served'[d]
           /\ Observation(response, d).observed = d
           /\ Observation(response, d).revision = Len(served'[d]) - 1
           /\ Observation(response, d).value = served'[d][Len(served'[d])].value
<1>1. d \in Dates /\ response[d] \in Values
  BY ResponseShape
<1>2. Len(served[d]) \in Nat /\ served[d] \in Seq([value : Values, at : Stamps])
  BY <1>1, HistoryTyped
<1>3. /\ Observation(response, d).observed = d
      /\ Observation(response, d).revision = EffectiveRevision(response, d)
      /\ Observation(response, d).value = response[d]
  BY DEF Observation
<1>4. CASE Unchanged(response, d)
  <2>1. served[d] # <<>> /\ Last(served[d]).value = response[d]
    BY <1>1, <1>4, SameChanges
  <2>2. served'[d] = served[d] /\ EffectiveRevision(response, d) = Len(served[d]) - 1
    BY <1>1, <1>4, WriteNotes, RevisionIsPosition
  <2>3. Len(served[d]) \in DOMAIN served[d]
    BY <1>2, <2>1, NonemptyLength
  <2>4. Last(served[d]) = served[d][Len(served[d])]
    BY DEF Last
  <2>. QED
    BY <1>3, <2>1, <2>2, <2>3, <2>4
<1>5. CASE ~Unchanged(response, d)
  <2> DEFINE entry == [value |-> response[d], at |-> clock + 1]
  <2>1. served'[d] = Append(served[d], entry) /\ EffectiveRevision(response, d) = Len(served[d])
    BY <1>1, <1>5, WriteNotes, RevisionIsPosition
  <2>2. entry \in [value : Values, at : Stamps]
    BY <1>1, ObservationIsRow DEF WriteEconomics
  <2>3. entry.value = response[d]
    OBVIOUS
  <2> HIDE DEF entry
  <2>4. /\ Len(served'[d]) = Len(served[d]) + 1
        /\ DOMAIN served'[d] = 1..(Len(served[d]) + 1)
        /\ served'[d][Len(served[d]) + 1] = entry
    BY <1>2, <2>1, <2>2
  <2>. QED
    BY <1>2, <1>3, <2>1, <2>3, <2>4
<1>. QED
  BY <1>4, <1>5

\* What a write leaves in flight is committed under its revision, the newest of its date.
LEMMA WriteLeavesNewest ==
    ASSUME TypeOK, RevisionsTellTheHistory, NEW response \in Response, WriteEconomics(response)
    PROVE  InFlightIsNewest'
<1> SUFFICES ASSUME NEW o \in inFlight'
             PROVE  /\ \E r \in RowsOf(o.observed)' : r.revision = o.revision /\ r.value = o.value
                    /\ \A r \in RowsOf(o.observed)' : r.revision <= o.revision
  BY DEF InFlightIsNewest
<1>0. PICK d \in DOMAIN response : o = Observation(response, d)
  BY DEF WriteEconomics, Observations
<1>1. /\ Len(served'[d]) \in DOMAIN served'[d]
      /\ o.observed = d
      /\ o.revision = Len(served'[d]) - 1
      /\ o.value = served'[d][Len(served'[d])].value
  BY <1>0, ObservationIsLast
<1>2. d \in Dates /\ RowsOf(d)' = {Told(d, n)' : n \in DOMAIN served'[d]}
  BY ResponseShape, WriteTells
<1>3. \A n : Told(d, n)'.revision = n - 1 /\ Told(d, n)'.value = served'[d][n].value
  BY DEF Told
<1>4. served'[d] \in Seq([value : Values, at : Stamps])
  BY <1>2, WriteNotesTyped
<1>5. DOMAIN served'[d] = 1..Len(served'[d]) /\ Len(served'[d]) \in Nat
  BY <1>4
<1>6. \E r \in RowsOf(d)' : r.revision = o.revision /\ r.value = o.value
  BY <1>1, <1>2, <1>3
<1>7. \A r \in RowsOf(d)' : r.revision <= o.revision
  BY <1>1, <1>2, <1>3, <1>5
<1>. QED
  BY <1>1, <1>6, <1>7

\* WriteEconomics keeps the invariant.
LEMMA WriteEconomicsKeeps ==
    ASSUME SeriesInv, NEW response \in Response, WriteEconomics(response)
    PROVE  SeriesInv'
<1>1. TypeOK /\ RevisionsTellTheHistory /\ SnapshotIsCommitted
  BY DEF SeriesInv
<1>2. TypeOK'
  <2>1. Observations(response) \subseteq Row
    BY <1>1, ResponseShape, ObservationIsRow DEF Observations, WriteEconomics
  <2>2. /\ clock' \in 0..MaxRuns
        /\ inFlight' \subseteq Row
        /\ outcome' = "written"
        /\ snapshot' = snapshot
    BY <1>1, <2>1, DatesAssumption DEF WriteEconomics, TypeOK
  <2>. QED
    BY <1>1, <2>2, WriteCommits, WriteNotesTyped DEF TypeOK
<1>3. RevisionsTellTheHistory'
  BY <1>1, WriteTells DEF RevisionsTellTheHistory, Told
<1>4. SnapshotIsCommitted'
  <2>1. snapshot' = snapshot /\ Committed \subseteq Committed'
    BY <1>1, WriteCommits DEF WriteEconomics
  <2>. QED
    BY <1>1, <2>1 DEF SnapshotIsCommitted
<1>. QED
  BY <1>1, <1>2, <1>3, <1>4, WriteLeavesNewest DEF SeriesInv

-----------------------------------------------------------------------------
(***************************************************************************)
(* The other steps of a run, and the invariant.                            *)
(***************************************************************************)

\* A refused write changes nothing but the clock.
LEMMA WriteEconomicsRefusedKeeps ==
    ASSUME SeriesInv, NEW response \in Response, WriteEconomicsRefused(response)
    PROVE  SeriesInv'
<1>1. /\ UNCHANGED <<parts, inFlight, snapshot, served>>
      /\ clock' = clock + 1 /\ clock < MaxRuns
      /\ outcome' = "refused"
  BY DEF WriteEconomicsRefused
<1>2. clock' \in 0..MaxRuns
  BY <1>1, DatesAssumption DEF SeriesInv, TypeOK
<1>3. TypeOK'
  BY <1>1, <1>2 DEF SeriesInv, TypeOK
<1>. QED
  BY <1>1, <1>3
  DEF SeriesInv, RevisionsTellTheHistory, InFlightIsNewest, SnapshotIsCommitted, RowsOf, Committed

\* FinalizeRun projects an observation that is committed.
LEMMA FinalizeRunKeeps ==
    ASSUME SeriesInv, FinalizeRun
    PROVE  SeriesInv'
<1>1. /\ inFlight' = {}
      /\ outcome' = "finalized"
      /\ UNCHANGED <<parts, clock, served>>
  BY DEF FinalizeRun
<1>2. snapshot' = snapshot \/ snapshot' \in inFlight
  BY DEF FinalizeRun
<1>3. TypeOK'
  BY <1>1, <1>2 DEF SeriesInv, TypeOK
<1>4. SnapshotIsCommitted'
  <2>1. Committed' = Committed
    BY <1>1 DEF Committed
  <2>2. CASE snapshot' = snapshot
    BY <2>1, <2>2 DEF SeriesInv, SnapshotIsCommitted
  <2>3. CASE snapshot' \in inFlight
    <3>1. PICK r \in RowsOf(snapshot'.observed) : r.revision = snapshot'.revision
                                                   /\ r.value = snapshot'.value
      BY <2>3 DEF SeriesInv, InFlightIsNewest
    <3>2. r \in Committed /\ r.observed = snapshot'.observed
      BY <3>1 DEF RowsOf
    <3>. QED
      BY <2>1, <3>1, <3>2 DEF SnapshotIsCommitted
  <2>. QED
    BY <1>2, <2>2, <2>3
<1>. QED
  BY <1>1, <1>3, <1>4
  DEF SeriesInv, RevisionsTellTheHistory, InFlightIsNewest, RowsOf, Committed

\* A run that stops leaves what it has published.
LEMMA StopRunKeeps ==
    ASSUME SeriesInv, StopRun
    PROVE  SeriesInv'
<1>1. /\ inFlight' = {}
      /\ outcome' = "stopped"
      /\ UNCHANGED <<parts, clock, snapshot, served>>
  BY DEF StopRun
<1>2. TypeOK'
  BY <1>1 DEF SeriesInv, TypeOK
<1>. QED
  BY <1>1, <1>2
  DEF SeriesInv, RevisionsTellTheHistory, InFlightIsNewest, SnapshotIsCommitted, RowsOf, Committed

(***************************************************************************)
(* The invariant is inductive: it holds in the empty archive, and every    *)
(* write, refusal, finalization and stop of a run keeps it.                *)
(***************************************************************************)
THEOREM SeriesInductive == Spec => []SeriesInv
<1>1. Init => SeriesInv
  <2> SUFFICES ASSUME Init PROVE SeriesInv
    OBVIOUS
  <2>1. Committed = {} /\ \A d \in Dates : served[d] = <<>> /\ DOMAIN served[d] = {}
    BY DEF Init, Committed
  <2>2. TypeOK
    <3>1. <<>> \in Seq((SUBSET Row) \ {{}}) /\ <<>> \in Seq([value : Values, at : Stamps])
      OBVIOUS
    <3>. QED
      BY <3>1, DatesAssumption DEF Init, TypeOK
  <2>3. RevisionsTellTheHistory
    BY <2>1 DEF RevisionsTellTheHistory, RowsOf
  <2>. QED
    BY <2>2, <2>3 DEF Init, SeriesInv, InFlightIsNewest, SnapshotIsCommitted
<1>2. SeriesInv /\ [Next]_vars => SeriesInv'
  <2> SUFFICES ASSUME SeriesInv, [Next]_vars PROVE SeriesInv'
    OBVIOUS
  <2>1. ASSUME NEW response \in Response, WriteEconomics(response) PROVE SeriesInv'
    BY <2>1, WriteEconomicsKeeps
  <2>2. ASSUME NEW response \in Response, WriteEconomicsRefused(response) PROVE SeriesInv'
    BY <2>2, WriteEconomicsRefusedKeeps
  <2>3. CASE FinalizeRun
    BY <2>3, FinalizeRunKeeps
  <2>4. CASE StopRun
    BY <2>4, StopRunKeeps
  <2>5. CASE UNCHANGED vars
    <3>1. UNCHANGED <<parts, clock, inFlight, outcome, snapshot, served>>
      BY <2>5 DEF vars
    <3>2. TypeOK'
      BY <3>1 DEF SeriesInv, TypeOK
    <3>. QED
      BY <3>1, <3>2
      DEF SeriesInv, RevisionsTellTheHistory, InFlightIsNewest, SnapshotIsCommitted,
          RowsOf, Committed
  <2>. QED
    BY <2>1, <2>2, <2>3, <2>4, <2>5 DEF Next
<1>. QED
  BY <1>1, <1>2, PTL DEF Spec

\* The types of the partition, the clock, the run in flight, the snapshot and the history.
THEOREM SeriesTypeCorrect == Spec => []TypeOK
<1>1. SeriesInv => TypeOK
  BY DEF SeriesInv
<1>. QED
  BY <1>1, SeriesInductive, PTL

(***************************************************************************)
(* The committed rows of a date are its history, value for value: an       *)
(* A -> B -> A history keeps three revisions, whatever stops between them. *)
(***************************************************************************)
THEOREM RevisionsTellTheHistoryHolds == Spec => []RevisionsTellTheHistory
<1>1. SeriesInv => RevisionsTellTheHistory
  BY DEF SeriesInv
<1>. QED
  BY <1>1, SeriesInductive, PTL

\* What the dashboard shows is committed in Parquet under the same revision and value.
THEOREM SnapshotIsCommittedHolds == Spec => []SnapshotIsCommitted
<1>1. SeriesInv => SnapshotIsCommitted
  BY DEF SeriesInv
<1>. QED
  BY <1>1, SeriesInductive, PTL

(***************************************************************************)
(* A finalized run leaves the dashboard at or past the newest revision of  *)
(* every date it collected.  FinalizeRun picks a candidate no other of the *)
(* batch is newer than, and the upsert keeps the newer of it and the row.  *)
(***************************************************************************)
THEOREM FinalizedRunCatchesUpHolds == Spec => FinalizedRunCatchesUp
<1> DEFINE CatchesUp ==
      outcome' = "finalized" =>
         \A o \in inFlight : \A r \in RowsOf(o.observed) :
            \/ r.observed < snapshot'.observed
            \/ r.observed = snapshot'.observed /\ r.revision <= snapshot'.revision
<1>1. SeriesInv /\ [Next]_vars => [CatchesUp]_vars
  <2> SUFFICES ASSUME SeriesInv, Next, outcome' = "finalized",
                      NEW o \in inFlight, NEW r \in RowsOf(o.observed)
               PROVE  \/ r.observed < snapshot'.observed
                      \/ r.observed = snapshot'.observed /\ r.revision <= snapshot'.revision
    OBVIOUS
  <2>1. FinalizeRun
    BY DEF Next, WriteEconomics, WriteEconomicsRefused, StopRun
  <2>2. PICK latest \in inFlight :
          /\ ~macroSnapshotIsNewer(o, latest)
          /\ snapshot' = IF snapshot = None \/ macroSnapshotIsNewer(latest, snapshot)
                         THEN latest ELSE snapshot
    BY <2>1 DEF FinalizeRun
  <2>3. o \in Row /\ latest \in Row /\ (snapshot # None => snapshot \in Row)
    BY DEF SeriesInv, TypeOK
  <2>4. \A s \in Row : s.observed \in Nat /\ s.revision \in Nat /\ s.published \in Nat
    <3>1. Dates \subseteq Nat /\ Stamps \subseteq Nat
      BY DatesAssumption DEF Stamps
    <3>2. \A s \in Row : s.observed \in Dates /\ s.revision \in Nat /\ s.published \in Stamps
      BY DEF Row
    <3>. QED
      BY <3>1, <3>2
  <2>5. r \in Row /\ r.observed = o.observed /\ r.revision <= o.revision
    <3>1. parts \in Seq((SUBSET Row) \ {{}})
      BY DEF SeriesInv, TypeOK
    <3>2. Committed \subseteq Row
      BY <3>1 DEF Committed
    <3>. QED
      BY <3>2 DEF SeriesInv, InFlightIsNewest, RowsOf
  <2>6. \/ o.observed < latest.observed
        \/ o.observed = latest.observed /\ o.revision <= latest.revision
    BY <2>2, <2>3, <2>4 DEF macroSnapshotIsNewer
  <2>7. \/ latest.observed < snapshot'.observed
        \/ latest.observed = snapshot'.observed /\ latest.revision <= snapshot'.revision
    BY <2>2, <2>3, <2>4 DEF macroSnapshotIsNewer
  <2>8. snapshot' \in Row
    BY <2>2, <2>3
  <2>. QED
    BY <2>3, <2>4, <2>5, <2>6, <2>7, <2>8
<1>. QED
  BY <1>1, SeriesInductive, PTL DEF Spec, FinalizedRunCatchesUp

=============================================================================
