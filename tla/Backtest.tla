------------------------------- MODULE Backtest -------------------------------
(***************************************************************************)
(* The daily engine of python/research/backtest.py: what one session does  *)
(* to the state of a run.  Before the open it applies corporate actions,   *)
(* at the open it executes the orders the session before decided, at the   *)
(* close it values the account and, unless the session is the last,        *)
(* decides the orders of the next.                                         *)
(*                                                                         *)
(* Securities are numbered in the order of their ids, and dates are        *)
(* numbers.  Amounts are whole units: shares are not fractional, a rate of *)
(* the cost policy is a number of Scale-ths, and the instances choose      *)
(* prices for which a charge is exact.  An exception ends a run and loses  *)
(* the state in memory, so it is a reason in halt, after which the         *)
(* remaining steps do nothing.                                             *)
(***************************************************************************)
EXTENDS BacktestInputs

CONSTANTS
    Securities,   \* 1..n
    Currencies,
    Month,        \* the month of a date
    Scale         \* the unit of commission, spread, slippage and tax rates

ASSUME ScaleAssumption == Scale \in Nat \ {0}

ASSUME SecuritiesAssumption == IsFiniteSet(Securities) /\ Securities \subseteq Int

ASSUME CurrenciesAssumption == IsFiniteSet(Currencies)

Largest(S)   == CHOOSE x \in S : \A y \in S : y <= x
Smaller(x, y) == IF x < y THEN x ELSE y
Larger(x, y)  == IF x < y THEN y ELSE x

SumOver(S, Value(_)) == FoldSet(LAMBDA x, total : total + Value(x), 0, S)

-----------------------------------------------------------------------------
(***************************************************************************)
(* _State.  pending holds indices into orders, as a set because the code   *)
(* sorts them whenever it goes through them; currency is                   *)
(* security_currency; decided is the date of the last decision; costs are  *)
(* by session and spent is their total; marks and holdings are the rows of *)
(* the result.                                                             *)
(***************************************************************************)
Row(session, type, currency, amount, security, qty) ==
    [date |-> session.date, type |-> type, currency |-> currency, amount |-> amount,
     security |-> security, qty |-> qty]

Book(st, row) == [st EXCEPT !.ledger = Append(@, row)]

Halt(st, reason) == [st EXCEPT !.halt = reason]

Initial(spec, in) ==
    LET base == spec.accounting.base_currency
        cash == spec.accounting.initial_cash
    IN  [cash      |-> [c \in Currencies |-> IF c = base THEN cash ELSE 0],
         qty       |-> [s \in Securities |-> 0],
         currency  |-> [s \in Securities |-> None],
         orders    |-> <<>>,
         fills     |-> <<>>,
         ledger    |-> <<Row(CalendarSessions(spec, in)[1], "initial_cash", base, cash, None, 0)>>,
         pending   |-> {},
         processed |-> {},
         held      |-> FALSE,
         decided   |-> None,
         nav       |-> 0,
         benchmark |-> None,
         costs     |-> [d \in {s.date : s \in in.calendar} |-> 0],
         spent     |-> 0,
         rejected  |-> 0,
         idle      |-> 0,
         marks     |-> <<>>,
         holdings  |-> {},
         halt      |-> "none"]

-----------------------------------------------------------------------------
(***************************************************************************)
(* Corporate actions, splits first.  An action nobody holds the security   *)
(* of is marked processed and leaves no trace.                             *)
(***************************************************************************)
Priority(a) == CASE a.type = "split" -> 0 [] a.type = "cash_dividend" -> 1 [] OTHER -> 2

ActionEvents(in, date) ==
    Sorted({a \in in.corporate_actions :
                date = IF a.type = "cash_dividend" THEN a.payment ELSE a.effective},
           LAMBDA a, b : \/ Priority(a) < Priority(b)
                         \/ Priority(a) = Priority(b) /\ a.id < b.id)

ApplyAction(spec, in, session, st, a) ==
    LET q       == st.qty[a.security]
        base    == spec.accounting.base_currency
        done    == [st EXCEPT !.processed = @ \cup {a.id}]
        split   == (q * a.numerator) \div a.denominator
        gain(p) == [done EXCEPT !.cash[a.currency] = @ + q * p]
    IN  IF st.halt # "none" \/ a.id \in st.processed THEN st
        ELSE IF q = 0 THEN done
        ELSE IF a.available > session.open THEN Halt(st, "action not available")
        ELSE IF st.currency[a.security] # a.currency THEN Halt(st, "action currency")
        ELSE IF a.type = "split"
             THEN Book([done EXCEPT !.qty[a.security] = split],
                       Row(session, "split", a.currency, 0, a.security, split - q))
        ELSE IF ~HasRate(in, a.currency, base, session.open) THEN Halt(st, "no FX rate")
        ELSE IF a.type = "cash_dividend"
             THEN Book(gain(a.cash),
                       Row(session, "dividend", a.currency, q * a.cash, a.security, q))
        ELSE IF a.settlement = None THEN Halt(st, "no settlement price")
        ELSE Book([gain(a.settlement) EXCEPT !.qty[a.security] = 0],
                  Row(session, "delisting", a.currency, q * a.settlement, a.security, -q))

ApplyActions(spec, in, st, session) ==
    FoldLeft(LAMBDA s, a : ApplyAction(spec, in, session, s, a), st, ActionEvents(in, session.date))

-----------------------------------------------------------------------------
(***************************************************************************)
(* Orders.  What a fill costs, and the most that can be bought: the code   *)
(* bisects, the operator names the limit.                                  *)
(***************************************************************************)
FillTerms(cost, row, side, q) ==
    LET gross   == row.open * q
        sign    == IF side = "buy" THEN 1 ELSE -1
        spread  == (gross * cost.spread) \div (2 * Scale)
        slip    == (gross * cost.slippage) \div Scale
        fee     == Larger((gross * cost.commission) \div Scale + cost.fixed_fee, cost.minimum_fee)
    IN  [gross |-> gross, notional |-> gross + sign * (spread + slip), fee |-> fee,
         tax |-> (gross * cost.tax) \div Scale, slip |-> spread + slip]

BuyCost(cost, row, q) ==
    LET terms == FillTerms(cost, row, "buy", q) IN terms.notional + terms.fee + terms.tax

MaxAffordableQuantity(cost, row, q, available) ==
    Largest({0} \cup {n \in 1..q : BuyCost(cost, row, n) <= available})

\* What buying in currency can draw on: its own balance and the base currency's.
Spendable(spec, in, st, currency, session) ==
    LET base == spec.accounting.base_currency
    IN  st.cash[currency]
          + IF currency = base THEN 0 ELSE Convert(in, st.cash[base], base, currency, session.open)

CanFund(spec, in, st, currency, required, session) ==
    LET base  == spec.accounting.base_currency
        short == required - st.cash[currency]
    IN  \/ short <= 0
        \/ currency # base /\ Convert(in, short, currency, base, session.open) <= st.cash[base]

\* Faulty variant: all the currency a buy needs is exchanged, whatever is there already.
FundTradeCurrencyTwice(spec, in, st, currency, required, session) ==
    LET base   == spec.accounting.base_currency
        inBase == Convert(in, required, currency, base, session.open)
    IN  IF required <= st.cash[currency] \/ currency = base THEN st
        ELSE Book(Book([st EXCEPT !.cash[currency] = @ + required, !.cash[base] = @ - inBase],
                       Row(session, "fx_conversion", base, -inBase, None, 0)),
                  Row(session, "fx_conversion", currency, required, None, 0))

\* Faulty variant: only the leg that takes the base currency is booked.
FundTradeCurrencyOneLeg(spec, in, st, currency, required, session) ==
    LET base   == spec.accounting.base_currency
        short  == required - st.cash[currency]
        inBase == Convert(in, short, currency, base, session.open)
    IN  IF short <= 0 THEN st
        ELSE Book([st EXCEPT !.cash[currency] = @ + short, !.cash[base] = @ - inBase],
                  Row(session, "fx_conversion", base, -inBase, None, 0))

\* Exchange base cash for what the currency lacks, with a row for either leg.
FundTradeCurrency(spec, in, st, currency, required, session) ==
    LET base   == spec.accounting.base_currency
        short  == required - st.cash[currency]
        inBase == Convert(in, short, currency, base, session.open)
    IN  IF short <= 0 THEN st
        ELSE Book(Book([st EXCEPT !.cash[currency] = @ + short, !.cash[base] = @ - inBase],
                       Row(session, "fx_conversion", base, -inBase, None, 0)),
                  Row(session, "fx_conversion", currency, short, None, 0))

Signed(o) == IF o.side = "buy" THEN o.qty ELSE -o.qty

RejectOrder(spec, st, i, session) ==
    LET o == st.orders[i]
        rejected == Book([st EXCEPT !.orders[i].status = "rejected", !.rejected = @ + 1],
                         Row(session, "reject", o.currency, 0, o.security, Signed(o)))
    IN  IF spec.missing = "halt_experiment" THEN Halt(rejected, "order rejected") ELSE rejected

FillOrder(spec, in, st, i, row, q, session) ==
    LET o      == st.orders[i]
        base   == spec.accounting.base_currency
        terms  == FillTerms(spec.cost, row, o.side, q)
        sign   == IF o.side = "buy" THEN 1 ELSE -1
        cost   == Convert(in, terms.fee + terms.tax + terms.slip, o.currency, base, session.open)
        funded == IF o.side = "buy"
                  THEN FundTradeCurrency(spec, in, st, o.currency,
                                         terms.notional + terms.fee + terms.tax, session)
                  ELSE st
        filled == [funded EXCEPT
            !.cash[o.currency] = @ - sign * terms.notional - terms.fee - terms.tax,
            !.qty[o.security]  = Larger(0, @ + sign * q),
            !.orders[i]        = [@ EXCEPT !.status = "filled", !.qty = q],
            !.fills            = Append(@, [order |-> i, date |-> session.date, security |-> o.security,
                                            side |-> o.side, qty |-> q, notional |-> terms.notional,
                                            fee |-> terms.fee, tax |-> terms.tax]),
            !.spent            = @ + cost,
            !.costs[session.date] = @ + cost]
    IN  Book(Book(Book(filled,
            Row(session, "fill", o.currency, -sign * terms.notional, o.security, sign * q)),
            Row(session, "fee", o.currency, -terms.fee, o.security, 0)),
            Row(session, "tax", o.currency, -terms.tax, o.security, 0))

ExecuteOrder(spec, in, session, st, i) ==
    LET o      == st.orders[i]
        base   == spec.accounting.base_currency
        row    == PriceRow(in, o.security, session.date, session.open)
        wanted == IF o.side = "sell" THEN Smaller(o.qty, st.qty[o.security]) ELSE o.qty
        part   == spec.risk.max_participation
        money  == Spendable(spec, in, st, o.currency, session)
        q      == IF o.side = "buy" THEN MaxAffordableQuantity(spec.cost, row, wanted, money) ELSE wanted
        crowded == IF row.has_volume THEN wanted * part[2] > row.volume * part[1] ELSE part[1] < part[2]
        short   == /\ o.side = "buy"
                   /\ ~CanFund(spec, in, st, o.currency, BuyCost(spec.cost, row, q), session)
    IN  IF st.halt # "none" THEN st
        ELSE IF row = None THEN RejectOrder(spec, st, i, session)
        ELSE IF row.currency # o.currency THEN Halt(st, "order currency")
        ELSE IF wanted = 0 \/ crowded THEN RejectOrder(spec, st, i, session)
        ELSE IF ~HasRate(in, o.currency, base, session.open) THEN Halt(st, "no FX rate")
        ELSE IF q = 0 \/ short THEN RejectOrder(spec, st, i, session)
        ELSE FillOrder(spec, in, st, i, row, q, session)

Due(st, session) == {i \in st.pending : st.orders[i].execution = session.date}

InOrder(indices) == Sorted(indices, LAMBDA i, j : i < j)

\* Faulty variant: executed orders stay pending.
ExecuteOrdersKept(spec, in, st, session) ==
    FoldLeft(LAMBDA s, i : ExecuteOrder(spec, in, session, s, i), st, InOrder(Due(st, session)))

ExecuteOrders(spec, in, st, session) ==
    FoldLeft(LAMBDA s, i : ExecuteOrder(spec, in, session, s, i),
             [st EXCEPT !.pending = @ \ Due(st, session)],
             InOrder(Due(st, session)))

-----------------------------------------------------------------------------
(***************************************************************************)
(* The close.  Every balance and every position needs a rate and a price   *)
(* that were available by then, and so does the benchmark.                 *)
(***************************************************************************)
Held(st) == {s \in Securities : st.qty[s] > 0}

Mark(spec, in, st, session) ==
    LET base      == spec.accounting.base_currency
        reporting == spec.accounting.reporting_currency
        close(s)  == PriceRow(in, s, session.date, session.close)
        value(s)  == Convert(in, st.qty[s] * close(s).close, close(s).currency, base, session.close)
        money     == {c \in Currencies : st.cash[c] # 0}
        needed    == money \cup {close(s).currency : s \in Held(st) \cup {spec.benchmark}}
        cash      == SumOver(money, LAMBDA c : Convert(in, st.cash[c], c, base, session.close))
        positions == SumOver(Held(st), value)
        nav       == cash + positions
        index     == Convert(in, close(spec.benchmark).close, close(spec.benchmark).currency, base,
                             session.close)
        start     == IF st.benchmark = None THEN index ELSE st.benchmark
        mark      == [date |-> session.date, cash |-> cash, positions |-> positions, nav |-> nav,
                      benchmark |-> (spec.accounting.initial_cash * index) \div start,
                      partition |-> (CHOOSE p \in DatePartition(spec, session.date) : TRUE).kind,
                      reporting |-> IF reporting = None THEN None
                                    ELSE Convert(in, nav, base, reporting, session.close)]
    IN  IF st.halt # "none" THEN st
        ELSE IF \E s \in Held(st) \cup {spec.benchmark} : close(s) = None THEN Halt(st, "missing close")
        ELSE IF \E c \in needed : ~HasRate(in, c, base, session.close) THEN Halt(st, "no FX rate")
        ELSE IF nav <= 0 THEN Halt(st, "NAV not positive")
        ELSE IF reporting # None /\ ~HasRate(in, base, reporting, session.close) THEN Halt(st, "no FX rate")
        ELSE Book([st EXCEPT
                     !.currency  = [s \in Securities |-> IF s \in Held(st) THEN close(s).currency ELSE @[s]],
                     !.marks     = Append(@, mark),
                     !.holdings  = @ \cup {[date |-> session.date, security |-> s,
                                            qty |-> st.qty[s], value |-> value(s)] : s \in Held(st)},
                     !.benchmark = start,
                     !.nav       = nav,
                     !.idle      = @ + (IF positions = 0 THEN 1 ELSE 0)],
                  Row(session, "mark", base, positions, None, 0))

-----------------------------------------------------------------------------
(***************************************************************************)
(* Targets: the weights are weight[s] / of, for the securities the         *)
(* strategy names.                                                         *)
(***************************************************************************)
ActiveMembers(spec, in, session) ==
    {s \in spec.universe : /\ MembershipState(in, s, session.date, session.close) = {TRUE}
                           /\ PriceRow(in, s, session.date, session.close) # None}

EqualWeightTargets(selected) ==
    [of |-> Larger(1, Cardinality(selected)), weight |-> [s \in selected |-> 1]]

(***************************************************************************)
(* The top_k active members by their return from the session lookback      *)
(* before the cutoff to the cutoff, skip sessions ago; nothing while the   *)
(* history is too short.                                                   *)
(***************************************************************************)
MomentumTargets(spec, in, sessions, k, active) ==
    LET parameters == spec.strategy.parameters
        end        == k - parameters.skip_sessions
        begin      == end - parameters.lookback_sessions
        close(s, i) == PriceRow(in, s, sessions[i].date, sessions[k].close)
        scored     == {s \in active : close(s, begin) # None /\ close(s, end) # None}
        first(s)   == close(s, begin).close
        last(s)    == close(s, end).close
        beats(s, r) == \/ last(s) * first(r) > last(r) * first(s)
                       \/ last(s) * first(r) = last(r) * first(s) /\ s < r
    IN  EqualWeightTargets(
            IF begin < 1 THEN {}
            ELSE {s \in scored : Cardinality({r \in scored : beats(r, s)}) < parameters.top_k})

RebalanceDue(spec, session, previous) ==
    \/ previous = None
    \/ /\ spec.strategy.name # "buy_and_hold"
       /\ \/ spec.strategy.parameters.rebalance_frequency = "daily"
          \/ Month[session.date] # Month[previous]

(***************************************************************************)
(* Held securities that left the universe are sold; between rebalances the *)
(* others keep the weight they have drifted to.                            *)
(***************************************************************************)
TargetWeights(spec, in, sessions, k, st) ==
    LET session == sessions[k]
        base    == spec.accounting.base_currency
        active  == ActiveMembers(spec, in, session)
        hold    == spec.strategy.name = "buy_and_hold"
        first   == hold /\ ~st.held
        due     == RebalanceDue(spec, session, st.decided)
        close(s) == PriceRow(in, s, session.date, session.close)
        value(s) == Convert(in, st.qty[s] * close(s).close, close(s).currency, base, session.close)
        picked  == CASE first \/ (due /\ spec.strategy.name = "equal_weight") -> EqualWeightTargets(active)
                     [] due /\ spec.strategy.name = "momentum_12_1" ->
                            MomentumTargets(spec, in, sessions, k, active)
                     [] OTHER -> [of |-> st.nav, weight |-> <<>>]
        kept    == IF due \/ first THEN {} ELSE Held(st) \cap active
    IN  [of     |-> picked.of,
         weight |-> [s \in DOMAIN picked.weight \cup kept \cup (Held(st) \ active) |->
                        CASE s \in Held(st) \ active -> 0
                          [] s \in kept -> value(s)
                          [] OTHER -> picked.weight[s]]]

WithinLimits(spec, targets) ==
    LET weight(s) == <<targets.weight[s], targets.of>>
    IN  /\ \A s \in DOMAIN targets.weight : AtMost(weight(s), spec.risk.max_position_weight)
        /\ AtMost(<<SumOver(DOMAIN targets.weight, LAMBDA s : targets.weight[s]), targets.of>>,
                  spec.risk.max_gross_exposure)

-----------------------------------------------------------------------------
(***************************************************************************)
(* The decision after the close of session k: an order for every security  *)
(* whose holding differs from the whole shares its target is worth.        *)
(***************************************************************************)
TargetQuantity(spec, in, session, st, targets, s) ==
    LET row    == PriceRow(in, s, session.date, session.close)
        weight == IF s \in DOMAIN targets.weight THEN targets.weight[s] ELSE 0
    IN  Convert(in, st.nav * weight, spec.accounting.base_currency, row.currency, session.close)
            \div (targets.of * row.close)

PlaceOrder(spec, in, session, next, st, targets, s) ==
    LET row   == PriceRow(in, s, session.date, session.close)
        delta == TargetQuantity(spec, in, session, st, targets, s) - st.qty[s]
        o     == [decision |-> session.date, execution |-> next.date, security |-> s,
                  side |-> IF delta > 0 THEN "buy" ELSE "sell", qty |-> Larger(delta, -delta),
                  currency |-> row.currency, status |-> "proposed"]
    IN  IF delta = 0 THEN st
        ELSE Book([st EXCEPT !.orders = Append(@, o), !.pending = @ \cup {Len(st.orders) + 1}],
                  Row(session, "order", row.currency, 0, s, delta))

Decide(spec, in, sessions, k, st) ==
    LET session  == sessions[k]
        base     == spec.accounting.base_currency
        targets  == TargetWeights(spec, in, sessions, k, st)
        chosen   == Sorted(DOMAIN targets.weight \cup Held(st), LAMBDA s, r : s < r)
        cur(s)   == PriceRow(in, s, session.date, session.close).currency
        checked  == \/ spec.strategy.name = "buy_and_hold"
                    \/ RebalanceDue(spec, session, st.decided)
                    \/ \E s \in DOMAIN targets.weight : targets.weight[s] = 0
        decided  == [st EXCEPT
                        !.decided  = session.date,
                        !.held     = @ \/ spec.strategy.name = "buy_and_hold",
                        !.currency = [s \in Securities |-> IF s \in ToSet(chosen) THEN cur(s) ELSE @[s]]]
    IN  IF st.halt # "none" THEN st
        ELSE IF \E s \in spec.universe :
                    Cardinality(MembershipState(in, s, session.date, session.close)) # 1
             THEN Halt(st, "membership unavailable")
        ELSE IF checked /\ ~WithinLimits(spec, targets) THEN Halt(st, "target exceeds a limit")
        ELSE IF \E s \in ToSet(chosen) : ~HasRate(in, base, cur(s), session.close)
             THEN Halt(st, "no FX rate")
        ELSE FoldLeft(LAMBDA d, s : PlaceOrder(spec, in, session, sessions[k + 1], d, targets, s),
                      decided, chosen)

\* One turn of the loop of simulate_backtest, up to the checkpoint.
Session(spec, in, k, st) ==
    LET sessions == CalendarSessions(spec, in)
        marked   == Mark(spec, in,
                         ExecuteOrders(spec, in, ApplyActions(spec, in, st, sessions[k]), sessions[k]),
                         sessions[k])
    IN  IF k = Len(sessions) THEN marked ELSE Decide(spec, in, sessions, k, marked)

-----------------------------------------------------------------------------
(***************************************************************************)
(* The metrics, but for the statistical estimates: the rates over the      *)
(* periods between marks, the counts and totals, the largest drop from a   *)
(* peak, and what each partition contributed.                              *)
(***************************************************************************)
RiskFreeSeries(spec, in, st) ==
    LET sessions == CalendarSessions(spec, in)
    IN  [k \in 2..Len(st.marks) |-> RiskFreeRate(in, spec.metrics, sessions[k].close)]

MaxDrawdown(marks) ==
    LET drop(peak, nav) == (Scale * (peak - nav)) \div peak
        pairs == {p \in (DOMAIN marks) \X (DOMAIN marks) : p[1] < p[2]}
    IN  Largest({0} \cup {drop(marks[p[1]].nav, marks[p[2]].nav) : p \in pairs})

\* Faulty variant: the session that opens a partition is left out of its costs.
AttributionOpen(st) ==
    LET marksOf(p) == SelectSeq(st.marks, LAMBDA m : m.partition = p)
        dates(p)   == {m.date : m \in ToSet(Tail(marksOf(p)))}
    IN  [p \in {m.partition : m \in ToSet(st.marks)} |->
            [start  |-> marksOf(p)[1].nav,
             end    |-> marksOf(p)[Len(marksOf(p))].nav,
             trades |-> Cardinality({i \in DOMAIN st.fills : st.fills[i].date \in dates(p)}),
             cost   |-> SumOver(dates(p), LAMBDA d : st.costs[d])]]

Attribution(st) ==
    LET marksOf(p) == SelectSeq(st.marks, LAMBDA m : m.partition = p)
        dates(p)   == {m.date : m \in {x \in ToSet(st.marks) : x.partition = p}}
    IN  [p \in {m.partition : m \in ToSet(st.marks)} |->
            [start  |-> marksOf(p)[1].nav,
             end    |-> marksOf(p)[Len(marksOf(p))].nav,
             trades |-> Cardinality({i \in DOMAIN st.fills : st.fills[i].date \in dates(p)}),
             cost   |-> SumOver(dates(p), LAMBDA d : st.costs[d])]]

Metrics(spec, in, st) ==
    [risk_free    |-> RiskFreeSeries(spec, in, st),
     total_return |-> <<st.marks[Len(st.marks)].nav - st.marks[1].nav, st.marks[1].nav>>,
     max_drawdown |-> MaxDrawdown(st.marks),
     total_cost   |-> st.spent,
     rejected     |-> st.rejected,
     out_of_market |-> st.idle,
     by_partition |-> Attribution(st)]

=============================================================================
