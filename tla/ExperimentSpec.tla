---------------------------- MODULE ExperimentSpec ----------------------------
(***************************************************************************)
(* The experiment specification of python/research/experiments.py: what    *)
(* normalize_experiment_spec admits.  A specification is a record; dates   *)
(* and instants are numbers, an amount or a weight is a fraction           *)
(* <<numerator, denominator>> where it need not be whole, and an input is  *)
(* pinned by its content, which stands for its sha256.                     *)
(***************************************************************************)
EXTENDS Integers, Sequences, FiniteSets, SequencesExt

Strategies     == {"buy_and_hold", "equal_weight", "momentum_12_1"}
PartitionKinds == <<"development", "validation", "holdout">>
RequiredKinds  == {"prices", "calendar", "membership"}

\* The elements of S, each before those it is Before of.
Sorted(S, Before(_, _)) ==
    [i \in 1..Cardinality(S) |->
        CHOOSE x \in S : Cardinality({y \in S : Before(y, x)}) = i - 1]

AtMost(x, y) == x[1] * y[2] <= y[1] * x[2]

IsRange(r) == r.start <= r.end

-----------------------------------------------------------------------------
Parameters(strategy) ==
    CASE strategy.name = "buy_and_hold"  -> DOMAIN strategy.parameters = {}
      [] strategy.name = "equal_weight"  ->
            /\ DOMAIN strategy.parameters = {"rebalance_frequency"}
            /\ strategy.parameters.rebalance_frequency \in {"daily", "monthly"}
      [] strategy.name = "momentum_12_1" ->
            /\ DOMAIN strategy.parameters =
                   {"lookback_sessions", "skip_sessions", "top_k", "rebalance_frequency"}
            /\ strategy.parameters.rebalance_frequency \in {"daily", "monthly"}
            /\ strategy.parameters.top_k >= 1
            /\ 1 <= strategy.parameters.skip_sessions
            /\ strategy.parameters.skip_sessions < strategy.parameters.lookback_sessions

(***************************************************************************)
(* An input reference: only inputs admitted as safe for a backtest, one    *)
(* per kind, and the three kinds no run can do without.                    *)
(***************************************************************************)
Inputs(refs) ==
    LET kinds == {r.kind : r \in refs}
    IN  /\ \A r \in refs : r.fitness = "backtest_safe"
        /\ Cardinality(kinds) = Cardinality(refs)
        /\ RequiredKinds \subseteq kinds

RiskPolicy(risk) ==
    /\ risk.max_position_weight[1] > 0
    /\ AtMost(risk.max_position_weight, risk.max_gross_exposure)
    /\ AtMost(risk.max_participation, <<1, 1>>)

CostPolicy(cost) ==
    \A field \in {"commission", "fixed_fee", "minimum_fee", "spread", "slippage", "tax"} :
        cost[field] >= 0

\* A rate is either written down or read from an input, never both.
MetricsPolicy(metrics, kinds) ==
    IF metrics.risk_free_source = "constant_annual"
    THEN "risk_free" \notin kinds /\ metrics.risk_free_annual # {}
    ELSE "risk_free" \in kinds /\ metrics.risk_free_annual = {}

(***************************************************************************)
(* The partitions, in the order of their starts: one of each kind, apart,  *)
(* inside the period, development first and holdout last.                  *)
(***************************************************************************)
Partitions(partitions) == Sorted(partitions, LAMBDA p, q : p.start < q.start)

PartitionsAccepted(partitions, period) ==
    /\ \A p \in partitions : IsRange(p) /\ period.start <= p.start /\ p.end <= period.end
    /\ {p.kind : p \in partitions} = ToSet(PartitionKinds)
    /\ Cardinality(partitions) = Len(PartitionKinds)
    /\ \A p, q \in partitions : p = q \/ p.end < q.start \/ q.end < p.start
    /\ [i \in DOMAIN Partitions(partitions) |-> Partitions(partitions)[i].kind] = PartitionKinds

WindowsAccepted(windows, period) ==
    \A w \in windows :
        /\ \A part \in {w.train, w.calibration, w.test} : IsRange(part)
        /\ w.train.end < w.calibration.start
        /\ w.calibration.end < w.test.start
        /\ period.start <= w.train.start
        /\ w.test.end <= period.end

-----------------------------------------------------------------------------
SpecAccepted(spec) ==
    /\ spec.strategy.name \in Strategies
    /\ Parameters(spec.strategy)
    /\ IsRange(spec.period)
    /\ spec.universe # {}
    /\ Inputs(spec.inputs)
    /\ spec.accounting.initial_cash > 0
    /\ CostPolicy(spec.cost)
    /\ RiskPolicy(spec.risk)
    /\ MetricsPolicy(spec.metrics, {r.kind : r \in spec.inputs})
    /\ PartitionsAccepted(spec.partitions, spec.period)
    /\ WindowsAccepted(spec.windows, spec.period)
    /\ spec.missing \in {"reject_trade", "halt_experiment"}

=============================================================================
