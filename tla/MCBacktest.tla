------------------------------ MODULE MCBacktest ------------------------------
(***************************************************************************)
(* Small instances of BacktestRuns: two securities, one of them foreign,   *)
(* five sessions on six dates (date 3 is none), and markets that differ    *)
(* from a base case in one respect each.                                   *)
(***************************************************************************)
EXTENDS BacktestRuns

Symmetry == Permutations(Commands)

Dates    == {1, 2, 4, 5, 6}
OpenAt(d)  == 2 * d - 1
CloseAt(d) == 2 * d

MonthOf == <<1, 1, 1, 2, 2, 2>>

CalendarArtifact ==
    [available |-> 100,
     rows |-> {[date |-> d, open |-> OpenAt(d), close |-> CloseAt(d), available |-> 0] : d \in Dates}]

\* The session of date 2 closes after that of date 4: no parser refuses it.
LateClose ==
    [CalendarArtifact EXCEPT !.rows = {IF r.date = 2 THEN [r EXCEPT !.close = 9] ELSE r : r \in @}]

Price(s, d, o, c, available) ==
    [security |-> s, date |-> d, observed |-> OpenAt(d), available |-> available,
     currency |-> IF s = 1 THEN "BRL" ELSE "USD", basis |-> "raw",
     open |-> o, close |-> c, low |-> 10, high |-> 40, volume |-> 30, has_volume |-> TRUE]

\* Prices by security and date; all available at the open but those in late.
Prices(path, late) ==
    [available |-> 100,
     rows |-> {Price(s, d, path[s][d], path[s][d + 1],
                     IF <<s, d>> \in late THEN CloseAt(d) ELSE OpenAt(d)) : s \in {1, 2}, d \in Dates}]

Down   == << <<10, 10, 10, 10, 10, 10, 10>>, <<10, 20, 20, 20, 20, 20, 20>> >>
Calm   == << <<10, 10, 10, 10, 10, 10, 10>>, <<10, 10, 10, 10, 10, 10, 10>> >>
Moving == << <<10, 20, 20, 20, 10, 10, 10>>, <<10, 10, 20, 20, 20, 10, 20>> >>

Membership(rows) ==
    [available |-> 100,
     rows |-> {[security |-> s, from |-> 1, until |-> None, member |-> TRUE,
                available |-> 0, revision |-> 0] : s \in {1, 2}} \cup rows]

\* Security 1 leaves on date 4, known by then or only a session later.
Leaves(available) ==
    {[security |-> 1, from |-> 4, until |-> None, member |-> FALSE,
      available |-> available, revision |-> 1]}

Action(id, s, type, effective, payment, available, cash) ==
    [id |-> id, security |-> s, type |-> type, effective |-> effective, payment |-> payment,
     available |-> available, currency |-> IF s = 1 THEN "BRL" ELSE "USD",
     numerator |-> 2, denominator |-> 1, cash |-> cash,
     settlement |-> IF type = "delisting" THEN 20 ELSE None]

Actions(rows) == [available |-> 100, rows |-> rows]

Fx(rows) ==
    [available |-> 100,
     rows |-> {[base |-> "USD", quote |-> "BRL", fixing |-> 0, available |-> 0, rate |-> 2]} \cup rows]

Dearer(fixing, available) ==
    {[base |-> "USD", quote |-> "BRL", fixing |-> fixing, available |-> available, rate |-> 4]}

RiskFree ==
    [available |-> 100,
     rows |-> {[observed |-> o, available |-> o + 1, revision |-> 0, value |-> o] : o \in {1, 6}}]

-----------------------------------------------------------------------------
Base ==
    [prices |-> Prices(Moving, {}), membership |-> Membership({}), actions |-> Actions({}), fx |-> Fx({})]

\* The local security alone can be afforded, and less of it each session.
Falling == [Base EXCEPT !.prices = Prices(Down, {}), !.membership = Membership(Leaves(7))]

\* The foreign security pays before all of the account moves into it.
Rotating ==
    [Base EXCEPT !.prices = Prices(Calm, {}), !.membership = Membership(Leaves(7)),
                 !.actions = Actions({Action(1, 2, "cash_dividend", 2, 4, 0, 5)})]

Markets ==
    {Base,
     [Base EXCEPT !.prices = Prices(Calm, {<<1, 2>>, <<2, 4>>})],
     [Base EXCEPT !.membership = Membership(Leaves(7))],
     [Base EXCEPT !.membership = Membership(Leaves(9))],
     [Base EXCEPT !.actions = Actions({Action(1, 1, "split", 2, None, 0, 0),
                                       Action(2, 1, "cash_dividend", 2, 4, 0, 3),
                                       Action(3, 1, "split", 4, None, 7, 0)})],
     [Base EXCEPT !.actions = Actions({Action(1, 1, "delisting", 5, None, 9, 0),
                                       Action(2, 2, "cash_dividend", 2, 5, 0, 2)}),
                  !.membership = Membership(Leaves(7))],
     [Base EXCEPT !.actions = Actions({Action(1, 2, "delisting", 4, None, 8, 0)})],
     [Base EXCEPT !.fx = Fx(Dearer(4, 4))],
     [Base EXCEPT !.fx = Fx({[base |-> "BRL", quote |-> "USD", fixing |-> 8, available |-> 8, rate |-> 1],
                             [base |-> "USD", quote |-> "BRL", fixing |-> 8, available |-> 8, rate |-> 2]})],
     [Base EXCEPT !.prices = Prices(Moving, {<<1, 4>>}), !.membership = Membership(
         {[security |-> 2, from |-> 1, until |-> 5, member |-> FALSE, available |-> 0, revision |-> 0]})],
     [Base EXCEPT !.prices = [Prices(Moving, {}) EXCEPT !.rows =
                                 {IF r.date = 5 THEN [r EXCEPT !.available = 12] ELSE r : r \in @}]],
     [Base EXCEPT !.fx = Fx(Dearer(4, 8))]}

Ref(kind, artifact) == [kind |-> kind, artifact |-> artifact, fitness |-> "backtest_safe"]

Daily    == [rebalance_frequency |-> "daily"]
Monthly  == [rebalance_frequency |-> "monthly"]
Momentum == [lookback_sessions |-> 2, skip_sessions |-> 1, top_k |-> 1, rebalance_frequency |-> "daily"]

StrategyChoices ==
    {[name |-> "buy_and_hold", parameters |-> <<>>],
     [name |-> "equal_weight", parameters |-> Daily],
     [name |-> "equal_weight", parameters |-> Monthly],
     [name |-> "momentum_12_1", parameters |-> Momentum]}

Experiment(market, strategy, missing) ==
    [strategy   |-> strategy,
     period     |-> [start |-> 1, end |-> 6],
     universe   |-> {1, 2},
     inputs     |-> {Ref("prices", market.prices), Ref("calendar", CalendarArtifact),
                     Ref("membership", market.membership), Ref("corporate_actions", market.actions),
                     Ref("fx", market.fx), Ref("risk_free", RiskFree)},
     benchmark  |-> 1,
     accounting |-> [base_currency |-> "BRL", reporting_currency |-> None, initial_cash |-> 200],
     cost       |-> [commission |-> 1, fixed_fee |-> 0, minimum_fee |-> 12, spread |-> 2,
                     slippage |-> 0, tax |-> 1],
     risk       |-> [max_position_weight |-> <<1, 1>>, max_gross_exposure |-> <<2, 1>>,
                     max_participation |-> <<1, 3>>],
     metrics    |-> [risk_free_source |-> "artifact", risk_free_annual |-> {}],
     partitions |-> {[kind |-> "development", start |-> 1, end |-> 2],
                     [kind |-> "validation", start |-> 3, end |-> 4],
                     [kind |-> "holdout", start |-> 5, end |-> 6]},
     windows    |-> {[train |-> [start |-> 1, end |-> 2], calibration |-> [start |-> 3, end |-> 4],
                      test |-> [start |-> 5, end |-> 6]]},
     missing    |-> missing]

Limited(e)  == [e EXCEPT !.risk.max_position_weight = <<1, 2>>]
Cash(e, n)  == [e EXCEPT !.accounting.initial_cash = n]

\* The first periods have no risk-free rate.
Unrated(e)  == [e EXCEPT !.inputs = {IF r.kind = "risk_free" THEN [r EXCEPT !.artifact.rows =
                                         {o \in @ : o.observed > 1}] ELSE r : r \in @}]

\* The calendar of the experiment has a session that closes late.
Overlapping(e) == [e EXCEPT !.inputs = {IF r.kind = "calendar" THEN Ref("calendar", LateClose)
                                        ELSE r : r \in @}]

\* Specifications with partitions that overlap, are out of order or leave a
\* session out, and one with no session in a partition.
Misplaced ==
    LET two == Experiment(Base, [name |-> "buy_and_hold", parameters |-> <<>>], "reject_trade")
        with(partitions) == [two EXCEPT !.partitions = partitions]
    IN  {with({[kind |-> "development", start |-> 1, end |-> 4],
               [kind |-> "validation", start |-> 2, end |-> 5],
               [kind |-> "holdout", start |-> 6, end |-> 6]}),
         with({[kind |-> "holdout", start |-> 1, end |-> 2],
               [kind |-> "validation", start |-> 3, end |-> 4],
               [kind |-> "development", start |-> 5, end |-> 6]}),
         with({[kind |-> "development", start |-> 1, end |-> 1],
               [kind |-> "validation", start |-> 4, end |-> 4],
               [kind |-> "holdout", start |-> 5, end |-> 6]}),
         with({[kind |-> "development", start |-> 1, end |-> 2],
               [kind |-> "validation", start |-> 3, end |-> 3],
               [kind |-> "holdout", start |-> 4, end |-> 6]})}

SharedExperiments ==
    {Experiment(Base, s, "reject_trade") : s \in StrategyChoices}

Experiments ==
    {Experiment(m, s, "reject_trade") : m \in Markets, s \in StrategyChoices}
        \cup {Experiment(Base, s, "halt_experiment") : s \in StrategyChoices}
        \cup {Limited(Experiment(Base, s, "reject_trade")) : s \in StrategyChoices}
        \cup {Cash(Experiment(Falling, s, "reject_trade"), 42) : s \in StrategyChoices}
        \cup {Cash(Experiment(Base, s, "reject_trade"), 108) : s \in StrategyChoices}
        \cup {Cash(Experiment(Rotating, s, "reject_trade"), 160) : s \in StrategyChoices}
        \cup {Unrated(Experiment(Base, s, "reject_trade")) : s \in StrategyChoices}
        \cup {Overlapping(Experiment([Base EXCEPT !.fx = Fx(Dearer(4, 9))], s, "reject_trade")) :
                  s \in StrategyChoices}
        \cup Misplaced

=============================================================================
