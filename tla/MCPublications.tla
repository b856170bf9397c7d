---------------------------- MODULE MCPublications ----------------------------
(***************************************************************************)
(* The themes of MCPointInTime and four themes of publications: batches of *)
(* price features, batches of fundamental and macro features, documents    *)
(* with results and specifications, and adjusted series.                   *)
(***************************************************************************)
EXTENDS MCPointInTime, Publications

\* A bar is known when it closes; a security is its number.
Bar(id, security, observed, available, revision, close) ==
    [of |-> "prices", id |-> id, security |-> security, series |-> security,
     observed |-> observed, available |-> available, revision |-> revision,
     close |-> <<close, 1>>, high |-> <<close + 1, 1>>, low |-> <<close, 1>>, volume |-> 10]

\* Two securities in one part.
PriceBatches == {{Bar(1, 1, 0, 0, 0, 1), Bar(2, 1, 1, 1, 0, 2), Bar(3, 2, 0, 0, 0, 2)}}

MomentumBatches ==
    {{Bar(1, 1, 0, 0, 0, 1), Bar(2, 1, 1, 1, 0, 2)},
     {Bar(4, 1, 2, 2, 0, 1)}, {Bar(5, 1, 0, 1, 1, 2)}}

BatchRequest(set, schedule, securities, issuers, commit) ==
    [kind |-> "batch", set |-> set, schedule |-> schedule, securities |-> securities,
     issuers |-> issuers, series |-> "m", calendar |-> 0, commit |-> commit]

PriceRequests ==
    {BatchRequest("market-basic", {1}, {1, 2}, <<>>, "c1"),
     BatchRequest("market-basic", {1}, {1}, <<>>, "c2")}

MomentumRequests == {BatchRequest("market-momentum", {1, 2}, {1}, <<>>, "c1")}

Reported(id, concept, period, available, revision, value) ==
    [of |-> "fundamentals", id |-> id, issuer |-> "i1", concept |-> concept, fiscal |-> 4,
     series |-> concept, period |-> period, observed |-> period, available |-> available,
     revision |-> revision, value |-> value]

MacroValue(id, observed, available, revision, value) ==
    [of |-> "macro", id |-> id, series |-> "m", observed |-> observed, available |-> available,
     vintage |-> available, revision |-> revision, value |-> value]

GrowthBatches ==
    {{Reported(1, "revenue", 0, 0, 0, 4), Reported(2, "revenue", 2, 2, 0, 6),
      Reported(3, "operating_income", 2, 2, 0, 3)},
     {Reported(4, "revenue", 0, 1, 1, 5)},
     {MacroValue(5, 0, 0, 0, 4), MacroValue(6, 2, 2, 0, None), MacroValue(7, 2, 2, 1, 8)}}

GrowthRequests ==
    {BatchRequest("fundamental-growth", {2}, {1, 2}, <<"i1", None>>, "c1"),
     BatchRequest("macro-state", {2}, {1}, <<>>, "c1")}

\* Two retrievals of one document, one of them with other bytes.
ArtifactRequests ==
    {[kind |-> "document", document |-> "d", raw |-> "r1", retrieved |-> 1, readable |-> TRUE],
     [kind |-> "document", document |-> "d", raw |-> "r1", retrieved |-> 2, readable |-> TRUE],
     [kind |-> "document", document |-> "d", raw |-> "r2", retrieved |-> 2, readable |-> FALSE],
     [kind |-> "result", run |-> "x"],
     [kind |-> "spec", experiment |-> "e"]}

SeriesBatches ==
    {{Price(1, 0, 24)}, {Price(2, 1, 10)},
     {Action(3, "split", 0, 1, 1, "active", "split", 2, 0)}}

\* The decision may still lie ahead.
SeriesRequests == {[kind |-> "adjusted", decision |-> 2]}

PubOwn == [prices |-> PriceBatches, momentum |-> MomentumBatches, growth |-> GrowthBatches,
           artifacts |-> {}, series |-> SeriesBatches]

PubBatches == PubOwn @@ MCBatches

PubRequests == [prices |-> PriceRequests, momentum |-> MomentumRequests,
                growth |-> GrowthRequests, artifacts |-> ArtifactRequests,
                series |-> SeriesRequests]
               @@ [t \in DOMAIN MCBatches |-> {}]

PubMaxTime == [prices |-> 1, momentum |-> 2, growth |-> 2, artifacts |-> 0, series |-> 2] @@ MCMaxTime

PubDamage == [t \in DOMAIN PubOwn |-> 0] @@ MCDamage

PubKeys == [t \in DOMAIN PubOwn |-> {}] @@ MCKeys

\* Two batches run side by side in the theme of prices.
PubCommands == [t \in DOMAIN PubBatches |-> IF t \in {"momentum", "growth"} THEN 1 ELSE 2]

MCTaxonomy == [revenue |-> [sign |-> 1, periods |-> {4}],
               operating_income |-> [sign |-> -1, periods |-> {4}]]

MCResultFiles == <<"nav", "metrics">>

Symmetry == Permutations(Publishers)
=============================================================================
