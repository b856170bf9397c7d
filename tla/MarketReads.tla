----------------------------- MODULE MarketReads -----------------------------
(***************************************************************************)
(* What a decision may read of the canonical observations: the queries of  *)
(* python/research/catalog.py over prices, fundamentals, macro series,     *)
(* filings and PTAX fixings, the selection and the conversion of           *)
(* python/research/fx.py, and the adjusted series of                       *)
(* python/research/adjustments.py.                                         *)
(*                                                                         *)
(* A query's ORDER BY ... DESC is the tuple of its keys; the row kept is   *)
(* the one with the greatest tuple, and the place of the row in the store  *)
(* (its manifest and part, here its id) decides last.                      *)
(***************************************************************************)
EXTENDS Historical, Sequences, Folds

Exceeds(s, t) == \E i \in DOMAIN s : s[i] > t[i] /\ \A j \in 1..(i - 1) : s[j] = t[j]

First(rows, order) == {r \in rows : \A s \in rows : ~Exceeds(order[s], order[r])}

\* The rows kept by QUALIFY row_number() OVER (PARTITION BY ...) = 1.
Qualify(rows, partition, order) ==
    UNION {First({r \in rows : partition[r] = p}, order) : p \in {partition[r] : r \in rows}}

\* What can be known and has happened by the decision.
Eligible(rows, decision) == {r \in rows : r.available <= decision /\ r.observed <= decision}

PriceInputs(rows, decision) ==
    LET eligible == Eligible(rows, decision) IN
    Qualify(eligible,
            [r \in eligible |-> <<r.series, r.observed>>],
            [r \in eligible |-> <<r.available, r.recorded, r.id>>])

FundamentalInputs(rows, decision) ==
    LET eligible == {r \in Eligible(rows, decision) : r.period <= decision} IN
    Qualify(eligible,
            [r \in eligible |-> <<r.series, r.period>>],
            [r \in eligible |-> <<r.available, r.revision, r.recorded, r.id>>])

\* A row without a vintage comes after the rows that have one.
Vintage(row) == IF row.vintage = None THEN -1 ELSE row.vintage

MacroInputs(rows, decision) ==
    LET eligible == {r \in Eligible(rows, decision) : Vintage(r) <= decision} IN
    Qualify(eligible,
            [r \in eligible |-> <<r.series, r.observed>>],
            [r \in eligible |-> <<r.available, r.revision, Vintage(r), r.recorded, r.id>>])

\* Faulty variant: the newest observation, whichever of its revisions is older.
SnapshotByRevision(prices, fundamentals, macro, decision) ==
    LET reported == {r \in Eligible(fundamentals, decision) : r.period <= decision}
        observed == Eligible(macro, decision)
    IN  [prices |-> PriceInputs(prices, decision),
         fundamental |-> First(reported, [r \in reported |->
                             <<r.available, r.period, r.revision, r.recorded, r.id>>]),
         macro |-> First(observed, [r \in observed |->
                       <<r.observed, -r.revision, r.available, r.recorded, r.id>>])]

\* The joined snapshot: every price, and one fundamental and one macro row.
ResearchSnapshot(prices, fundamentals, macro, decision) ==
    LET reported == {r \in Eligible(fundamentals, decision) : r.period <= decision}
        observed == Eligible(macro, decision)
    IN  [prices |-> PriceInputs(prices, decision),
         fundamental |-> First(reported, [r \in reported |->
                             <<r.available, r.period, r.revision, r.recorded, r.id>>]),
         macro |-> First(observed, [r \in observed |->
                       <<r.observed, r.revision, r.available, r.recorded, r.id>>])]

FilingsAsOf(rows, decision, mode) ==
    {r \in Known(rows, decision) :
        /\ r.observed # None => r.observed <= decision
        /\ mode = "historical" => ~r.cad}

-----------------------------------------------------------------------------
(***************************************************************************)
(* PTAX fixings.  One fixing in `UnitsPerDay' units of time is a day's.    *)
(***************************************************************************)
CONSTANT UnitsPerDay

Day(moment) == moment \div UnitsPerDay

FxContract(row) ==
    /\ row.revision = 0
    /\ 0 < row.buy /\ row.buy <= row.sell
    /\ row.fixing = row.available
    /\ row.available <= row.recorded

FxAsOf(rows, date, decision) ==
    LET eligible == {r \in Known(rows, decision) : Day(r.fixing) = date} IN
    IF /\ \A r \in Known(rows, decision) : FxContract(r)
       /\ Cardinality(eligible) = 1
    THEN Found(eligible)
    ELSE Refused

\* Amounts are exact fractions.
Times(a, b) == <<a[1] * b[1], a[2] * b[2]>>
Reciprocal(a) == <<a[2], a[1]>>
Same(a, b) == a[1] * b[2] = b[1] * a[2]

ConvertCurrency(amount, from, to, rows) ==
    LET sell == {<<r.sell, 1>> : r \in rows} IN
    IF from = to
    THEN IF rows = {} THEN {amount} ELSE {}
    ELSE IF <<from, to>> = <<"USD", "BRL">>
    THEN {Times(amount, r) : r \in sell}
    ELSE {Times(amount, Reciprocal(r)) : r \in sell}

-----------------------------------------------------------------------------
(***************************************************************************)
(* Adjusted prices.  `raw' are the rows of one manifest of daily raw       *)
(* prices, the actions the resolved snapshot of the same security.         *)
(***************************************************************************)
RawRows(rows, parts, decision) ==
    LET eligible == Eligible(rows, decision) IN
    IF /\ Cardinality(parts) = 1
       /\ eligible # {}
       /\ \A r, s \in eligible : r.observed = s.observed => r = s
    THEN Found(eligible)
    ELSE Refused

SelectActions(actions, decision) ==
    LET effective == {a \in actions : a.effective <= decision /\ a.observed <= decision} IN
    IF \/ \E a, b \in actions : a.event = b.event /\ a # b
       \/ \E a \in actions : a.available > decision
       \/ \E a \in effective : a.status # "active"
    THEN Refused
    ELSE Found(effective)

Prior(rows, action) == {r \in rows : Day(r.observed) < Day(action.observed)}

LastOf(rows) == CHOOSE r \in rows : \A s \in rows : s.observed <= r.observed

\* Faulty variant: a dividend is taken off the close of its own ex-date.
PriceFactorOnExDate(rows, a) ==
    IF a.type = "split" THEN <<a.pre, a.post>>
    ELSE LET close == LastOf({r \in rows : Day(r.observed) <= Day(a.observed)}).close
         IN  <<close[1] - a.cash * close[2], close[1]>>

PriceFactor(rows, a) ==
    IF a.type = "split" THEN <<a.pre, a.post>>
    ELSE LET close == LastOf(Prior(rows, a)).close
         IN  <<close[1] - a.cash * close[2], close[1]>>

VolumeFactor(a) == IF a.type = "split" THEN <<a.post, a.pre>> ELSE <<1, 1>>

Product(actions, Factor(_)) ==
    MapThenFoldSet(Times, <<1, 1>>, Factor, LAMBDA A : CHOOSE a \in A : TRUE, actions)

\* A dividend needs a prior close it is smaller than.
Adjustable(rows, actions) ==
    \A a \in actions : a.type = "cash_dividend" =>
        /\ Prior(rows, a) # {}
        /\ LET close == LastOf(Prior(rows, a)).close IN a.cash * close[2] < close[1]

AdjustRows(rows, actions) ==
    LET After(r) == {a \in actions : Day(r.observed) < Day(a.observed)}
        Price(a) == PriceFactor(rows, a)
    IN  {[observed |-> r.observed, raw |-> r.close,
          adjusted |-> Times(r.close, Product(After(r), Price)),
          volume |-> Product(After(r), VolumeFactor)] : r \in rows}

AdjustedPrices(rows, parts, actions, decision) ==
    LET raw == RawRows(rows, parts, decision)
        selected == SelectActions(actions, decision)
    IN  IF raw.refused \/ selected.refused \/ ~Adjustable(raw.rows, selected.rows)
        THEN Refused
        ELSE Found(AdjustRows(raw.rows, selected.rows))
=============================================================================
