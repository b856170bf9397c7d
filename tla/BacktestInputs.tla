---------------------------- MODULE BacktestInputs ----------------------------
(***************************************************************************)
(* The hash-pinned inputs of an experiment, as python/research/            *)
(* backtest_inputs.py loads them, and the point-in-time reads              *)
(* python/research/backtest.py makes of them.  An artifact is its envelope *)
(* (the instant all of it was available) and a set of rows, every row with *)
(* the instant it became available itself.                                 *)
(***************************************************************************)
EXTENDS ExperimentSpec

CONSTANT None

Kinds == {"prices", "calendar", "membership", "corporate_actions", "fx", "risk_free"}

\* No two rows have the same identity.
UniqueBy(rows, Identity(_)) == \A r, q \in rows : Identity(r) = Identity(q) => r = q

-----------------------------------------------------------------------------
(***************************************************************************)
(* What each parser refuses, beyond the wrong shape.                       *)
(***************************************************************************)
PriceRows(rows) ==
    /\ UniqueBy(rows, LAMBDA r : <<r.security, r.date>>)
    /\ \A r \in rows :
          /\ r.available >= r.observed
          /\ r.basis = "raw"
          /\ r.low > 0 /\ r.volume >= 0
          /\ {r.open, r.close} \subseteq r.low..r.high

CalendarRows(rows) ==
    /\ UniqueBy(rows, LAMBDA r : r.date)
    /\ \A r \in rows : r.open < r.close

MembershipRows(rows) ==
    /\ UniqueBy(rows, LAMBDA r : <<r.security, r.from, r.until, r.revision>>)
    /\ \A r \in rows : r.until # None => r.from < r.until

ActionRows(rows) ==
    /\ UniqueBy(rows, LAMBDA r : r.id)
    /\ \A r \in rows :
          /\ r.type \in {"split", "cash_dividend", "delisting"}
          /\ r.type = "split" => r.numerator > 0 /\ r.denominator > 0
          /\ r.type = "cash_dividend" => r.payment # None /\ r.cash > 0
          /\ r.payment # None => r.effective <= r.payment
          /\ r.settlement # None => r.settlement > 0

FxRows(rows) ==
    /\ UniqueBy(rows, LAMBDA r : <<r.fixing, r.base, r.quote>>)
    /\ \A r \in rows : r.base # r.quote /\ r.rate > 0

ObservationRows(rows) == UniqueBy(rows, LAMBDA r : <<r.observed, r.revision>>)

Rows(kind, rows) ==
    CASE kind = "prices"            -> PriceRows(rows)
      [] kind = "calendar"          -> CalendarRows(rows)
      [] kind = "membership"        -> MembershipRows(rows)
      [] kind = "corporate_actions" -> ActionRows(rows)
      [] kind = "fx"                -> FxRows(rows)
      [] kind = "risk_free"         -> ObservationRows(rows)

(***************************************************************************)
(* An artifact loads when the file is the one the reference pins and no    *)
(* row is later than the envelope.                                         *)
(***************************************************************************)
Loads(ref, disk) ==
    /\ disk[ref.kind] = ref.artifact
    /\ Rows(ref.kind, ref.artifact.rows)
    /\ \A r \in ref.artifact.rows : r.available <= ref.artifact.available

CanLoad(spec, disk) == Inputs(spec.inputs) /\ \A ref \in spec.inputs : Loads(ref, disk)

\* The rows of every kind, none for a kind without a reference.
Load(spec) ==
    [kind \in Kinds |-> UNION {r.artifact.rows : r \in {r \in spec.inputs : r.kind = kind}}]

-----------------------------------------------------------------------------
(***************************************************************************)
(* Reads as of an instant.  Where the code raises on no answer or on       *)
(* conflicting ones, the operator gives the set of the answers.            *)
(***************************************************************************)
PriceRow(in, security, date, asOf) ==
    LET found == {r \in in.prices : r.security = security /\ r.date = date /\ r.available <= asOf}
    IN  IF found = {} THEN None ELSE CHOOSE r \in found : TRUE

Leaders(rows) ==
    {r \in rows : \A q \in rows :
        q.available < r.available \/ (q.available = r.available /\ q.revision <= r.revision)}

MembershipState(in, security, date, asOf) ==
    {r.member : r \in Leaders({r \in in.membership :
        /\ r.security = security
        /\ r.from <= date
        /\ r.until = None \/ date < r.until
        /\ r.available <= asOf})}

\* A rate is <<numerator, denominator>>: target units for one source unit.
\* Faulty variant: a fixing counts from its own instant, not from when it was available.
FxRateEarly(in, source, target, asOf) ==
    LET known  == {r \in in.fx : {r.base, r.quote} = {source, target} /\ r.fixing <= asOf}
        latest == {r \in known : \A q \in known : q.fixing <= r.fixing}
    IN  IF source = target THEN {<<1, 1>>}
        ELSE {IF r.base = source THEN <<r.rate, 1>> ELSE <<1, r.rate>> : r \in latest}

FxRate(in, source, target, asOf) ==
    LET known  == {r \in in.fx : /\ {r.base, r.quote} = {source, target}
                                 /\ r.fixing <= asOf /\ r.available <= asOf}
        latest == {r \in known : \A q \in known : q.fixing <= r.fixing}
    IN  IF source = target THEN {<<1, 1>>}
        ELSE {IF r.base = source THEN <<r.rate, 1>> ELSE <<1, r.rate>> : r \in latest}

HasRate(in, source, target, asOf) == Cardinality(FxRate(in, source, target, asOf)) = 1

Convert(in, amount, source, target, asOf) ==
    LET rate == CHOOSE r \in FxRate(in, source, target, asOf) : TRUE
    IN  (amount * rate[1]) \div rate[2]

RiskFreeRate(in, metrics, asOf) ==
    LET known  == {r \in in.risk_free : r.observed <= asOf /\ r.available <= asOf}
        latest == {r \in known : \A q \in known : q.observed <= r.observed}
    IN  IF metrics.risk_free_source = "constant_annual" THEN metrics.risk_free_annual
        ELSE {r.value : r \in Leaders(latest)}

(***************************************************************************)
(* The sessions of the period, in order.                                   *)
(***************************************************************************)
CalendarSessions(spec, in) ==
    Sorted({r \in in.calendar : spec.period.start <= r.date /\ r.date <= spec.period.end},
           LAMBDA r, q : r.date < q.date)

DatePartition(spec, date) == {p \in spec.partitions : p.start <= date /\ date <= p.end}

SessionsAccepted(spec, in) ==
    LET sessions == ToSet(CalendarSessions(spec, in))
    IN  /\ sessions # {}
        /\ \A s \in sessions : s.available <= s.open /\ DatePartition(spec, s.date) # {}
        /\ \A kind \in ToSet(PartitionKinds) :
              \E s \in sessions : \E p \in DatePartition(spec, s.date) : p.kind = kind

=============================================================================
