----------------------------- MODULE FeatureSets -----------------------------
(***************************************************************************)
(* The four feature sets of python/research: which rows one security and   *)
(* decision select, what is computed of them, and the identity and the     *)
(* manifest of the artifact that is published (features.py,                *)
(* market_momentum.py, fundamental_growth.py, macro_state.py,              *)
(* derived_artifacts.py).                                                  *)
(*                                                                         *)
(* Values are exact fractions; an absent value is the empty set, a present *)
(* one a set of one.  The hash of a file is its content: a part is named   *)
(* by the rows it has, a manifest by the parts it lists.                   *)
(***************************************************************************)
EXTENDS MarketReads

CONSTANTS
    Horizons,     \* of the returns, in bars
    Window,       \* of the volatility and of the drawdown, in bars
    YearLength,   \* units of time in a year
    Taxonomy,     \* per concept, the sign and the fiscal periods reviewed
    TaxonomyVersion,
    Delay         \* computation delay of the feature registry

Less(a, b) == a[1] * b[2] < b[1] * a[2]
Plus(a, b) == <<a[1] * b[2] + b[1] * a[2], a[2] * b[2]>>
Minus(a, b) == Plus(a, <<-b[1], b[2]>>)
Growth(value, before) == Minus(Times(value, Reciprocal(before)), <<1, 1>>)

Year(moment) == moment \div YearLength

TheOnly(set) == CHOOSE x \in set : TRUE

Total(values, S) == MapThenFoldSet(Plus, <<0, 1>>, LAMBDA x : values[x], TheOnly, S)

-----------------------------------------------------------------------------
(***************************************************************************)
(* Prices.  `Back(bars, k)' is the bar with k later ones.                  *)
(***************************************************************************)
OneSeries(bars) == \A r, s \in bars : r.series = s.series

Back(bars, k) == {r \in bars : Cardinality({s \in bars : s.observed > r.observed}) = k}

BasicFeatures(bars) ==
    LET last == TheOnly(Back(bars, 0))
        before == Back(bars, 1)
    IN  IF \/ ~OneSeries(bars)
           \/ Less(last.high, last.low)
           \/ \E r \in before : r.close[1] = 0
        THEN Refused
        ELSE Found({[close  |-> last.close,
                     change |-> {Growth(last.close, r.close) : r \in before},
                     range  |-> Minus(last.high, last.low),
                     volume |-> last.volume]})

\* All the last `length' closes, or none of them.
CompleteWindow(bars, length) ==
    IF Cardinality(bars) < length THEN {} ELSE UNION {Back(bars, k) : k \in 0..(length - 1)}

SimpleReturns(bars) ==
    [h \in Horizons |->
        {Growth(r.close, s.close) : r \in Back(bars, 0), s \in Back(bars, h)}]

\* The sample variance of the returns: its root is annualized by a constant.
RealizedVariance(bars) ==
    IF CompleteWindow(bars, Window + 1) = {} THEN {}
    ELSE LET change == [k \in 1..Window |->
                           Growth(TheOnly(Back(bars, k - 1)).close, TheOnly(Back(bars, k)).close)]
             mean == Times(Total(change, 1..Window), <<1, Window>>)
             square == [k \in 1..Window |-> Times(Minus(change[k], mean), Minus(change[k], mean))]
         IN  {Times(Total(square, 1..Window), <<1, Window - 1>>)}

MaxDrawdown(bars) ==
    LET window == CompleteWindow(bars, Window)
        Peak(r) == TheOnly({s \in window : /\ s.observed <= r.observed
                                           /\ \A t \in window : t.observed <= r.observed =>
                                                 ~Less(s.close, t.close)}).close
        drawdowns == {Growth(r.close, Peak(r)) : r \in window}
    IN  {d \in drawdowns : \A e \in drawdowns : ~Less(e, d)}

MomentumFeatures(bars) ==
    IF \/ ~OneSeries(bars)
       \/ \E r \in bars : r.close[1] < 0
       \/ \E h \in Horizons : \E r \in Back(bars, h) : r.close[1] = 0
       \/ \E r \in CompleteWindow(bars, Window + 1) \cup CompleteWindow(bars, Window) :
             r.close[1] = 0
    THEN Refused
    ELSE Found({[returns  |-> SimpleReturns(bars),
                 variance |-> RealizedVariance(bars),
                 drawdown |-> MaxDrawdown(bars)]})

-----------------------------------------------------------------------------
(***************************************************************************)
(* Fundamentals and macro series.                                          *)
(***************************************************************************)
PeriodRows(rows, concept) ==
    {r \in rows : r.concept = concept /\ r.fiscal \in Taxonomy[concept].periods}

LatestPeriod(rows) == First(rows, [r \in rows |-> <<r.period, r.fiscal, r.available, r.revision>>])

SamePriorYear(rows, current) ==
    LatestPeriod({r \in rows : /\ r.fiscal = current.fiscal
                               /\ Year(r.period) = Year(current.period) - 1})

SignedValues(rows) == {<<Taxonomy[r.concept].sign * r.value, 1>> : r \in {s \in rows : s.value # None}}

Ratios(above, below) ==
    {Times(pair[1], Reciprocal(pair[2])) : pair \in above \X {b \in below : b[1] # 0}}

Changes(after, before) == {Minus(ratio, <<1, 1>>) : ratio \in Ratios(after, before)}

FundamentalFeatures(rows) ==
    LET revenues == PeriodRows(rows, "revenue")
        current == LatestPeriod(revenues)
        prior == UNION {SamePriorYear(revenues, c) : c \in current}
        income == {r \in PeriodRows(rows, "operating_income") :
                      \E c \in current : r.fiscal = c.fiscal /\ r.period = c.period}
    IN  IF current = {} THEN Refused
        ELSE Found({[revenue |-> SignedValues(current),
                     growth  |-> Changes(SignedValues(current), SignedValues(prior)),
                     margin  |-> Ratios(SignedValues(income), SignedValues(current))]})

LatestMacro(rows) == First(rows, [r \in rows |-> <<r.observed, r.revision, r.available, Vintage(r)>>])

PriorYearMacro(rows, current) ==
    LatestMacro({r \in rows : r.observed = current.observed - YearLength})

MacroValues(rows) == {<<r.value, 1>> : r \in {s \in rows : s.value # None}}

MacroFeatures(rows) ==
    LET current == LatestMacro(rows)
        prior == UNION {PriorYearMacro(rows, c) : c \in current}
    IN  IF current = {} \/ \E r \in rows : r.vintage = None THEN Refused
        ELSE Found({[level  |-> MacroValues(current),
                     change |-> Changes(MacroValues(current), MacroValues(prior))]})

-----------------------------------------------------------------------------
(***************************************************************************)
(* Selection.  A subject names the security and, for fundamentals, the     *)
(* issuer, for macro-state, the series.                                    *)
(***************************************************************************)
SelectPrices(rows, subject, decision) ==
    PriceInputs({r \in rows : r.of = "prices" /\ r.security = subject.security}, decision)

SelectFundamentals(rows, subject, decision) ==
    LET known == FundamentalInputs({r \in rows : r.of = "fundamentals" /\ r.issuer = subject.issuer},
                                   decision)
    IN  UNION {PeriodRows(known, c) : c \in DOMAIN Taxonomy}

\* The series stands for its source, geography, unit and frequency too.
SelectMacro(rows, subject, decision) ==
    MacroInputs({r \in rows : r.of = "macro" /\ r.series = subject.series}, decision)

Selected(set, rows, subject, decision) ==
    CASE set \in {"market-basic", "market-momentum"} -> SelectPrices(rows, subject, decision)
      [] set = "fundamental-growth" -> SelectFundamentals(rows, subject, decision)
      [] set = "macro-state" -> SelectMacro(rows, subject, decision)

Features(set, selected) ==
    IF selected = {} THEN Refused
    ELSE CASE set = "market-basic" -> BasicFeatures(selected)
           [] set = "market-momentum" -> MomentumFeatures(selected)
           [] set = "fundamental-growth" -> FundamentalFeatures(selected)
           [] set = "macro-state" -> MacroFeatures(selected)

PartName(part) == {r.id : r \in part}

PartNames(parts) == {PartName(p) : p \in parts}

\* Faulty variant: only the part of the newest row is pinned.
LineageOfNewest(selected, parts, manifests) ==
    LET newest == {r \in selected : \A s \in selected : s.available <= r.available}
    IN  [manifests |-> {<<r.of, PartNames(manifests[r.of].parts)>> : r \in selected},
         parts     |-> PartNames({p \in parts : p \cap newest # {}})]

\* The manifests are hashed as they are now, the parts as they were registered.
SelectedLineage(selected, parts, manifests) ==
    [manifests |-> {<<r.of, PartNames(manifests[r.of].parts)>> : r \in selected},
     parts     |-> PartNames({p \in parts : p \cap selected # {}})]

LineageHolds(selected, parts, manifests, lost) ==
    \A p \in parts : p \cap selected # {} =>
        /\ p \notin lost
        /\ \A r \in p : p \in manifests[r.of].parts

Latest(moments) == CHOOSE m \in moments : \A n \in moments : n <= m

InputAvailable(selected, calendar) == Latest({calendar} \cup {r.available : r \in selected})

-----------------------------------------------------------------------------
(***************************************************************************)
(* The manifest of an artifact.  The families share their fields; the two  *)
(* derived ones also name what they are about, and fundamentals the        *)
(* reviewed taxonomy.                                                      *)
(***************************************************************************)
Derived == {"fundamental-growth", "macro-state"}
FeatureFamilies == {"market-basic", "market-momentum"} \cup Derived

Mapping(set) == IF set = "fundamental-growth" THEN {TaxonomyVersion} ELSE {}

InputFingerprint(m) ==
    [calendar |-> m.calendar, decision |-> m.decision, set |-> m.set,
     manifests |-> m.manifests, parts |-> m.parts, mapping |-> m.mapping]

\* Faulty variant: the identity leaves out what the artifact is about.
ArtifactIdOfInputs(set, subject, fingerprint) ==
    [of |-> "artifact", set |-> set, subject |-> [security |-> None], inputs |-> fingerprint]

ArtifactId(set, subject, fingerprint) ==
    [of |-> "artifact", set |-> set, subject |-> subject, inputs |-> fingerprint]

DerivedArtifactId(subject, fingerprint) ==
    [of |-> "artifact", set |-> fingerprint.set, subject |-> subject, inputs |-> fingerprint]

\* What a publication knows before it has an identity.
Envelope(set, commit, decision, calendar, available, lineage) ==
    [set |-> set, commit |-> commit, decision |-> decision, calendar |-> calendar,
     inputAvailable |-> available, available |-> available + Delay,
     manifests |-> lineage.manifests, parts |-> lineage.parts, mapping |-> Mapping(set)]

\* The one row of the output part repeats the manifest.
Row(m, subject, features) ==
    [security |-> subject.security, set |-> m.set, commit |-> m.commit, id |-> m.id,
     decision |-> m.decision, inputAvailable |-> m.inputAvailable, available |-> m.available,
     fingerprint |-> m.fingerprint, features |-> features]

BasicManifest(envelope, subject, features) ==
    LET fingerprint == InputFingerprint(envelope)
        m == Extended([id |-> ArtifactId(envelope.set, subject, fingerprint),
                       fingerprint |-> fingerprint], envelope)
    IN  Extended([names |-> DOMAIN features, part |-> Row(m, subject, features)], m)

DerivedManifest(envelope, subject, features) ==
    LET fingerprint == InputFingerprint(envelope)
        m == Extended([id |-> DerivedArtifactId(subject, fingerprint), fingerprint |-> fingerprint],
                      envelope)
    IN  Extended([names |-> DOMAIN features, identity |-> subject,
                  part |-> Extended([identity |-> subject, mapping |-> m.mapping],
                                    Row(m, subject, features))], m)

-----------------------------------------------------------------------------
(***************************************************************************)
(* What the readers demand of a manifest and of its part.                  *)
(***************************************************************************)
CalendarPinHolds(m) == m.calendar <= m.decision

TimingHolds(m) ==
    /\ CalendarPinHolds(m)
    /\ m.calendar <= m.inputAvailable
    /\ m.inputAvailable <= m.decision
    /\ m.available = m.inputAvailable + Delay

LineageListed(m) == m.manifests # {} /\ m.parts # {}

BasicNames == {"close", "change", "range", "volume"}
MomentumNames == {"returns", "variance", "drawdown"}
DerivedNames == [s \in Derived |-> IF s = "macro-state" THEN {"level", "change"}
                                   ELSE {"revenue", "growth", "margin"}]

BasicManifestValid(m) ==
    /\ m.set = "market-basic" /\ m.names = BasicNames
    /\ TimingHolds(m)
    /\ LineageListed(m)
    /\ m.fingerprint = InputFingerprint(m)

MomentumManifestValid(m) ==
    /\ m.set = "market-momentum" /\ m.names = MomentumNames
    /\ TimingHolds(m)
    /\ LineageListed(m)
    /\ m.fingerprint = InputFingerprint(m)

IdentityFields(set) ==
    IF set = "macro-state" THEN {"security", "series"} ELSE {"security", "issuer"}

DerivedManifestValid(m) ==
    /\ m.set \in Derived /\ m.names = DerivedNames[m.set]
    /\ DOMAIN m.identity = IdentityFields(m.set)
    /\ m.mapping = Mapping(m.set)
    /\ TimingHolds(m)
    /\ LineageListed(m)
    /\ m.fingerprint = InputFingerprint(m)

Agreed == {"set", "commit", "id", "decision", "inputAvailable", "available", "fingerprint"}

BasicPartHolds(part, m) ==
    /\ \A field \in Agreed : part[field] = m[field]
    /\ DOMAIN part.features = BasicNames

MomentumPartHolds(part, m) ==
    /\ \A field \in Agreed : part[field] = m[field]
    /\ DOMAIN part.features = MomentumNames

DerivedPartHolds(part, m) ==
    /\ \A field \in Agreed \cup {"identity", "mapping"} : part[field] = m[field]
    /\ DOMAIN part.features = DerivedNames[m.set]
=============================================================================
