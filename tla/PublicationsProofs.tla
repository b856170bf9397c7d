-------------------------- MODULE PublicationsProofs --------------------------
(***************************************************************************)
(* Proofs about PointInTime and Publications, for any rows, any clock, any *)
(* damage to the store, any number of publishers, requests, deaths and     *)
(* disk failures.                                                          *)
(***************************************************************************)
EXTENDS Publications, FiniteSetTheorems, SequenceTheorems, WellFoundedInduction, TLAPS

-----------------------------------------------------------------------------
(***************************************************************************)
(* The resolvers look at what was known and at nothing else                *)
(* (historical.py): a selection needs its candidates only, and nothing is  *)
(* resolved from nothing.                                                  *)
(***************************************************************************)
LEMMA SelectionNeedsCandidates ==
    ASSUME NEW rows, NEW f, NEW g, \A r \in rows : f[r] = g[r]
    PROVE  SelectLatest(rows, f) = SelectLatest(rows, g)
<1>1. {f[r] : r \in Leaders(rows)} = {g[r] : r \in Leaders(rows)}
  BY DEF Leaders
<1>. QED
  BY <1>1, Zenon DEF SelectLatest

LEMMA NothingToSelect ==
    ASSUME NEW identity
    PROVE  SelectLatest({}, identity) = Found({})
<1>1. Leaders({}) = {}
  BY DEF Leaders
<1>2. {identity[r] : r \in Leaders({})} = {}
  BY <1>1
<1>3. ~(Cardinality({identity[r] : r \in Leaders({})}) > 1)
  BY <1>2, FS_EmptySet
<1>4. {r \in Leaders({}) : \A s \in Leaders({}) : s.id <= r.id} = {}
  BY <1>1
<1>. QED
  BY <1>3, <1>4, Zenon DEF SelectLatest

LEMMA NothingToResolve ==
    ASSUME NEW family, NEW asOf
    PROVE  Resolve({}, family, asOf) = Found({})
<1> DEFINE collapsed == CollapseRevisions({}, family, Assertions({}))
<1>1. collapsed = Found({})
  <2>1. {SelectLatest({r \in {} : family[r] = f}, Assertions({})) : f \in {family[r] : r \in {}}} = {}
    OBVIOUS
  <2>. QED
    BY <2>1 DEF CollapseRevisions, Found
<1>2. ~collapsed.refused /\ collapsed.rows = {}
  BY <1>1 DEF Found
<1>3. {r \in collapsed.rows : IntervalContains(r, asOf)} = {}
  BY <1>2
<1>4. Resolve({}, family, asOf) = SelectLatest({}, Values({}))
  BY <1>2, <1>3, Zenon DEF Resolve
<1>. QED
  BY <1>4, NothingToSelect

LEMMA SameAbout ==
    ASSUME NEW A, NEW B, NEW key, NEW decision, Known(A, decision) = Known(B, decision)
    PROVE  About(A, key, decision) = About(B, key, decision)
BY DEF About

LEMMA NothingAbout ==
    ASSUME NEW A, NEW decision, NEW key, key \notin {r.key : r \in Known(A, decision)}
    PROVE  About(A, key, decision) = {}
BY DEF About

\* An answer that found nothing does not change a list.
LEMMA SameList ==
    ASSUME NEW A, NEW B, A \cup {Found({})} = B \cup {Found({})}
    PROVE  All(A) = All(B)
<1>1. ~Found({}).refused /\ Found({}).rows = {}
  BY DEF Found
<1>2. (\E a \in A : a.refused) <=> (\E b \in B : b.refused)
  BY <1>1
<1>3. UNION {a.rows : a \in A} = UNION {b.rows : b \in B}
  <2>1. \A x, X : x \in UNION {a.rows : a \in X} <=> \E a \in X : x \in a.rows
    OBVIOUS
  <2>2. \A x : (\E a \in A : x \in a.rows) <=> (\E b \in B : x \in b.rows)
    BY <1>1
  <2>. QED
    BY <2>1, <2>2
<1>. QED
  BY <1>2, <1>3, Zenon DEF All

LEMMA SameListings ==
    ASSUME NEW A, NEW B, NEW asOf, NEW decision, Known(A, decision) = Known(B, decision)
    PROVE  ListingsAsOf(A, asOf, decision) = ListingsAsOf(B, asOf, decision)
<1> DEFINE keys(X) == {r.key : r \in X}
           list(X) == {ListingAsOf(X, k, asOf, decision) : k \in keys(X)}
<1>1. \A k : ListingAsOf(A, k, asOf, decision) = ListingAsOf(B, k, asOf, decision)
  <2>1. ASSUME NEW k
        PROVE  ListingAsOf(A, k, asOf, decision) = ListingAsOf(B, k, asOf, decision)
    <3>1. About(A, k, decision) = About(B, k, decision)
      BY SameAbout
    <3>. QED
      BY <3>1, Zenon DEF ListingAsOf
  <2>. QED
    BY <2>1
<1>2. ASSUME NEW X, NEW k, k \notin keys(Known(X, decision))
      PROVE  ListingAsOf(X, k, asOf, decision) = Found({})
  <2>1. About(X, k, decision) = {}
    BY <1>2, NothingAbout
  <2>. QED
    BY <2>1, NothingToResolve, Zenon DEF ListingAsOf
<1>3. \A X : keys(Known(X, decision)) \subseteq keys(X)
  BY DEF Known
<1>4. list(A) \cup {Found({})} = list(B) \cup {Found({})}
  <2>1. ASSUME NEW k \in keys(A)
        PROVE  ListingAsOf(A, k, asOf, decision) \in list(B) \cup {Found({})}
    BY <1>1, <1>2, <1>3
  <2>2. ASSUME NEW k \in keys(B)
        PROVE  ListingAsOf(B, k, asOf, decision) \in list(A) \cup {Found({})}
    BY <1>1, <1>2, <1>3
  <2>. HIDE DEF keys
  <2>. QED
    BY <2>1, <2>2
<1>. HIDE DEF list
<1>5. All(list(A)) = All(list(B))
  BY <1>4, SameList
<1>. QED
  BY <1>5 DEF list, ListingsAsOf

LEMMA SameMembers ==
    ASSUME NEW A, NEW B, NEW asOf, NEW decision, Known(A, decision) = Known(B, decision)
    PROVE  UniverseAsOf(A, asOf, decision) = UniverseAsOf(B, asOf, decision)
<1> DEFINE keys(X) == {r.key : r \in X}
           list(X) == {MembershipAsOf(X, k, asOf, decision) : k \in keys(X)}
<1>1. \A k : MembershipAsOf(A, k, asOf, decision) = MembershipAsOf(B, k, asOf, decision)
  <2>1. ASSUME NEW k
        PROVE  MembershipAsOf(A, k, asOf, decision) = MembershipAsOf(B, k, asOf, decision)
    <3>1. About(A, k, decision) = About(B, k, decision)
      BY SameAbout
    <3>. QED
      BY <3>1, Zenon DEF MembershipAsOf
  <2>. QED
    BY <2>1
<1>2. ASSUME NEW X, NEW k, k \notin keys(Known(X, decision))
      PROVE  MembershipAsOf(X, k, asOf, decision) = Found({})
  <2>1. About(X, k, decision) = {}
    BY <1>2, NothingAbout
  <2>. QED
    BY <2>1, NothingToResolve, Zenon DEF MembershipAsOf
<1>3. \A X : keys(Known(X, decision)) \subseteq keys(X)
  BY DEF Known
<1>4. list(A) \cup {Found({})} = list(B) \cup {Found({})}
  <2>1. ASSUME NEW k \in keys(A)
        PROVE  MembershipAsOf(A, k, asOf, decision) \in list(B) \cup {Found({})}
    BY <1>1, <1>2, <1>3
  <2>2. ASSUME NEW k \in keys(B)
        PROVE  MembershipAsOf(B, k, asOf, decision) \in list(A) \cup {Found({})}
    BY <1>1, <1>2, <1>3
  <2>. HIDE DEF keys
  <2>. QED
    BY <2>1, <2>2
<1>. HIDE DEF list
<1>5. All(list(A)) = All(list(B))
  BY <1>4, SameList
<1>. QED
  BY <1>5 DEF list, UniverseAsOf

LEMMA SameSessions ==
    ASSUME NEW A, NEW B, NEW decision, Known(A, decision) = Known(B, decision)
    PROVE  AfterCloseExecutionSession(A, decision) = AfterCloseExecutionSession(B, decision)
<1> DEFINE inside(X) == {r \in X : /\ CalendarRowMatches(r, decision)
                                   /\ r.opens <= decision /\ decision < r.closes}
           later(X) == {r \in X : CalendarRowMatches(r, decision) /\ r.opens > decision}
<1>1. inside(A) = inside(B) /\ later(A) = later(B)
  BY DEF Known, CalendarRowMatches
<1>2. TradingSessionAt(A, decision, decision) = TradingSessionAt(B, decision, decision)
  <2>1. \A r \in inside(A) : SessionIdentity(A)[r] = SessionIdentity(B)[r]
    BY <1>1 DEF SessionIdentity
  <2>2. SelectLatest(inside(A), SessionIdentity(A)) = SelectLatest(inside(A), SessionIdentity(B))
    BY <2>1, SelectionNeedsCandidates
  <2>. QED
    BY <1>1, <2>2, Zenon DEF TradingSessionAt
<1>3. NextTradingSession(A, decision, decision) = NextTradingSession(B, decision, decision)
  <2> DEFINE byDate(m) == All({SelectLatest({r \in m : r.date = d}, SessionIdentity(m)) :
                                  d \in {r.date : r \in m}})
             next(m) == [byDate(m) EXCEPT !.rows = {r \in @ : \A s \in @ : r.opens <= s.opens}]
  <2>1. \A X : NextTradingSession(X, decision, decision) = next(later(X))
    BY DEF NextTradingSession
  <2>. HIDE DEF next, later
  <2>. QED
    BY <1>1, <2>1
<1>. QED
  BY <1>2, <1>3, Zenon DEF AfterCloseExecutionSession

-----------------------------------------------------------------------------
(***************************************************************************)
(* The queries of catalog.py and fx.py and the adjusted series.            *)
(***************************************************************************)
LEMMA SameDataset ==
    ASSUME NEW A, NEW B, NEW decision, Known(A, decision) = Known(B, decision)
    PROVE  \A d : Known(Of(A, d), decision) = Known(Of(B, d), decision)
BY DEF Known, Of

LEMMA SameEligible ==
    ASSUME NEW A, NEW B, NEW decision, Known(A, decision) = Known(B, decision)
    PROVE  Eligible(A, decision) = Eligible(B, decision)
BY DEF Known, Eligible

LEMMA SameSnapshot ==
    ASSUME NEW A, NEW B, NEW decision, Known(A, decision) = Known(B, decision)
    PROVE  ResearchSnapshot(Of(A, "prices"), Of(A, "fundamentals"), Of(A, "macro"), decision)
             = ResearchSnapshot(Of(B, "prices"), Of(B, "fundamentals"), Of(B, "macro"), decision)
<1>1. \A d : Eligible(Of(A, d), decision) = Eligible(Of(B, d), decision)
  BY SameDataset, SameEligible
<1>. QED
  BY <1>1, Zenon DEF ResearchSnapshot, PriceInputs

LEMMA SameInputs ==
    ASSUME NEW A, NEW B, NEW decision, Known(A, decision) = Known(B, decision)
    PROVE  /\ FundamentalInputs(Of(A, "fundamentals"), decision)
                = FundamentalInputs(Of(B, "fundamentals"), decision)
           /\ MacroInputs(Of(A, "macro"), decision) = MacroInputs(Of(B, "macro"), decision)
<1>1. \A d : Eligible(Of(A, d), decision) = Eligible(Of(B, d), decision)
  BY SameDataset, SameEligible
<1>. QED
  BY <1>1, Zenon DEF FundamentalInputs, MacroInputs

LEMMA SameSeries ==
    ASSUME NEW A, NEW B, NEW parts, NEW actions, NEW decision,
           Known(A, decision) = Known(B, decision)
    PROVE  AdjustedPrices(Of(A, "prices"), parts, actions, decision)
             = AdjustedPrices(Of(B, "prices"), parts, actions, decision)
<1>1. Eligible(Of(A, "prices"), decision) = Eligible(Of(B, "prices"), decision)
  BY SameDataset, SameEligible
<1>2. RawRows(Of(A, "prices"), parts, decision) = RawRows(Of(B, "prices"), parts, decision)
  BY <1>1, Zenon DEF RawRows
<1>. QED
  BY <1>2, Zenon DEF AdjustedPrices

Kinds == UNION {KindsOf[t] : t \in DOMAIN KindsOf}

LEMMA KindsAreThese ==
    Kinds = {"identifier", "listings", "universe", "execution", "calendar", "snapshot", "inputs",
             "filings", "fx", "adjusted"}
BY DEF Kinds, KindsOf

(***************************************************************************)
(* The same question over two sets of parts that hold the same known rows  *)
(* has the same answer.                                                    *)
(***************************************************************************)
LEMMA SameAnswer ==
    ASSUME NEW P, NEW Q, NEW q, q.kind \in Kinds,
           Known(RowsOf(P), q.decision) = Known(RowsOf(Q), q.decision),
           q.kind = "adjusted" => PriceParts(P) = PriceParts(Q)
    PROVE  Answer(q, P) = Answer(q, Q)
<1>1. CASE q.kind = "identifier"
  <2>1. SecurityIdentifierAsOf(RowsOf(P), q.key, q.asOf, q.decision)
          = SecurityIdentifierAsOf(RowsOf(Q), q.key, q.asOf, q.decision)
    <3>1. About(RowsOf(P), q.key, q.decision) = About(RowsOf(Q), q.key, q.decision)
      BY SameAbout
    <3>. QED
      BY <3>1, Zenon DEF SecurityIdentifierAsOf
  <2>. QED
    BY <1>1, <2>1 DEF Answer
<1>2. CASE q.kind = "listings"
  BY <1>2, SameListings DEF Answer
<1>3. CASE q.kind = "universe"
  BY <1>3, SameMembers DEF Answer
<1>4. CASE q.kind = "execution"
  <2>1. AfterCloseExecutionSession(Of(RowsOf(P), "sessions"), q.decision)
          = AfterCloseExecutionSession(Of(RowsOf(Q), "sessions"), q.decision)
    BY SameDataset, SameSessions
  <2>. QED
    BY <1>4, <2>1 DEF Answer
<1>5. CASE q.kind = "calendar"
  <2>1. CalendarManifestAsOf(Of(RowsOf(P), "calendars"), q.decision)
          = CalendarManifestAsOf(Of(RowsOf(Q), "calendars"), q.decision)
    <3>1. Known(Of(RowsOf(P), "calendars"), q.decision) = Known(Of(RowsOf(Q), "calendars"), q.decision)
      BY SameDataset
    <3>. QED
      BY <3>1, Zenon DEF CalendarManifestAsOf
  <2>. QED
    BY <1>5, <2>1 DEF Answer
<1>6. CASE q.kind = "snapshot"
  BY <1>6, SameSnapshot DEF Answer
<1>7. CASE q.kind = "inputs"
  BY <1>7, SameInputs DEF Answer
<1>8. CASE q.kind = "filings"
  <2>1. FilingsAsOf(RowsOf(P), q.decision, q.key) = FilingsAsOf(RowsOf(Q), q.decision, q.key)
    BY Zenon DEF FilingsAsOf
  <2>. QED
    BY <1>8, <2>1 DEF Answer
<1>9. CASE q.kind = "fx"
  <2>1. FxAsOf(RowsOf(P), q.asOf, q.decision) = FxAsOf(RowsOf(Q), q.asOf, q.decision)
    BY Zenon DEF FxAsOf
  <2>. QED
    BY <1>9, <2>1 DEF Answer
<1>10. CASE q.kind = "adjusted"
  <2>1. CorporateActionsAsOf(Of(RowsOf(P), "actions"), q.decision)
          = CorporateActionsAsOf(Of(RowsOf(Q), "actions"), q.decision)
    <3>1. Known(Of(RowsOf(P), "actions"), q.decision) = Known(Of(RowsOf(Q), "actions"), q.decision)
      BY SameDataset
    <3>. QED
      BY <3>1, Zenon DEF CorporateActionsAsOf
  <2>2. \A actions : AdjustedPrices(Of(RowsOf(P), "prices"), PriceParts(P), actions, q.decision)
                       = AdjustedPrices(Of(RowsOf(Q), "prices"), PriceParts(Q), actions, q.decision)
    BY <1>10, SameSeries
  <2>. QED
    BY <1>10, <2>1, <2>2 DEF Answer
<1>. QED
  BY KindsAreThese, <1>1, <1>2, <1>3, <1>4, <1>5, <1>6, <1>7, <1>8, <1>9, <1>10

-----------------------------------------------------------------------------
(***************************************************************************)
(* Corrections: what a resolver returns is not outranked in its family.    *)
(***************************************************************************)
LEMMA SelectedLead ==
    ASSUME NEW rows, NEW identity, NEW r \in SelectLatest(rows, identity).rows
    PROVE  r \in rows /\ \A s \in rows : ~RanksAbove(s, r)
<1>1. SelectLatest(rows, identity) = Found({q \in Leaders(rows) : \A s \in Leaders(rows) : s.id <= q.id})
  BY DEF SelectLatest, Refused
<1>2. r \in Leaders(rows)
  BY <1>1 DEF Found
<1>. QED
  BY <1>2 DEF Leaders

LEMMA CollapsedLead ==
    ASSUME NEW rows, NEW family, NEW assertion,
           NEW r \in CollapseRevisions(rows, family, assertion).rows
    PROVE  r \in rows /\ \A s \in rows : family[s] = family[r] => ~RanksAbove(s, r)
<1> DEFINE kin(f) == {q \in rows : family[q] = f}
           latest == {SelectLatest(kin(f), assertion) : f \in {family[q] : q \in rows}}
<1>1. r \in UNION {l.rows : l \in latest}
  <2>1. CollapseRevisions(rows, family, assertion)
          = IF \E l \in latest : l.refused THEN Refused ELSE Found(UNION {l.rows : l \in latest})
    BY Zenon DEF CollapseRevisions
  <2>. HIDE DEF latest
  <2>. QED
    BY <2>1 DEF Refused, Found
<1>2. PICK f : r \in SelectLatest(kin(f), assertion).rows
  BY <1>1
<1>. HIDE DEF kin
<1>3. r \in kin(f) /\ \A s \in kin(f) : ~RanksAbove(s, r)
  BY <1>2, SelectedLead
<1>. QED
  BY <1>3 DEF kin

LEMMA ResolvedLead ==
    ASSUME NEW known, NEW family, NEW asOf, NEW r \in Resolve(known, family, asOf).rows
    PROVE  r \in known /\ \A s \in known : family[s] = family[r] => ~RanksAbove(s, r)
<1> DEFINE collapsed == CollapseRevisions(known, family, Assertions(known))
           inForce   == {q \in collapsed.rows : IntervalContains(q, asOf)}
<1>1. r \in SelectLatest(inForce, Values(known)).rows
  <2>1. Resolve(known, family, asOf)
          = IF collapsed.refused THEN Refused ELSE SelectLatest(inForce, Values(known))
    BY Zenon DEF Resolve
  <2>. HIDE DEF collapsed, inForce
  <2>. QED
    BY <2>1 DEF Refused
<1>2. r \in collapsed.rows
  <2>. HIDE DEF collapsed
  <2>. QED
    BY <1>1, SelectedLead
<1>. QED
  BY <1>2, CollapsedLead

LEMMA ListedInOne ==
    ASSUME NEW answers, NEW r \in All(answers).rows
    PROVE  \E a \in answers : r \in a.rows
<1>1. All(answers) = IF \E a \in answers : a.refused THEN Refused
                     ELSE Found(UNION {a.rows : a \in answers})
  BY Zenon DEF All
<1>. QED
  BY <1>1 DEF Refused, Found

LEMMA TwoEqual == \A a, b, c, d : <<a, b>> = <<c, d>> => a = c /\ b = d
OBVIOUS

LEMMA ThreeEqual == \A a, b, c, d, e, f : <<a, b, c>> = <<d, e, f>> => a = d /\ b = e /\ c = f
OBVIOUS

\* A row about the same key, of the same family by the key and by `from'.
LEMMA PairedLead ==
    ASSUME NEW rows, NEW k, NEW decision, NEW asOf, NEW known, known = About(rows, k, decision),
           NEW r \in Resolve(known, [q \in known |-> <<q.key, q.from>>], asOf).rows,
           NEW s \in Known(rows, decision), <<s.key, s.from>> = <<r.key, r.from>>
    PROVE  ~RanksAbove(s, r)
<1> DEFINE family == [q \in known |-> <<q.key, q.from>>]
<1>1. r \in known /\ (s \in known /\ family[s] = family[r] => ~RanksAbove(s, r))
  <2>. HIDE DEF family
  <2>. QED
    BY ResolvedLead DEF family
<1>2. r.key = k /\ s.key = r.key
  BY <1>1, TwoEqual DEF About
<1>3. s \in known
  BY <1>2 DEF About
<1>. QED
  BY <1>1, <1>3

LEMMA NoneAboveResolved ==
    ASSUME NEW rows, NEW kind \in {"identifiers", "listings", "memberships", "adjustments"},
           NEW asOf, NEW decision, NEW r \in Resolved(rows, kind, asOf, decision),
           NEW s \in Known(rows, decision), Families(rows, kind)[s] = Families(rows, kind)[r]
    PROVE  ~RanksAbove(s, r)
<1>0. s \in rows
  BY DEF Known
<1>1. CASE kind = "identifiers"
  <2>1. PICK k : r \in SecurityIdentifierAsOf(rows, k, asOf, decision).rows
    BY <1>1 DEF Resolved
  <2> DEFINE known  == About(rows, k, decision)
             family == [q \in known |-> <<q.value, q.key, q.from>>]
  <2>2. r \in Resolve(known, family, asOf).rows
    BY <2>1, Zenon DEF SecurityIdentifierAsOf
  <2>3. r \in known /\ (s \in known /\ family[s] = family[r] => ~RanksAbove(s, r))
    <3>. HIDE DEF known, family
    <3>. QED
      BY <2>2, ResolvedLead
  <2>4. r \in rows /\ r.key = k
    BY <2>3 DEF About, Known
  <2>5. <<s.key, s.value, s.from>> = <<r.key, r.value, r.from>>
    BY <1>0, <1>1, <2>4 DEF Families
  <2>6. s.key = r.key /\ s.value = r.value /\ s.from = r.from
    BY <2>5, ThreeEqual
  <2>7. s \in known
    BY <2>4, <2>6 DEF About
  <2>8. family[s] = family[r]
    BY <2>3, <2>6, <2>7
  <2>. QED
    BY <2>3, <2>7, <2>8
<1>2. CASE kind = "listings"
  <2>1. PICK k : r \in ListingAsOf(rows, k, asOf, decision).rows
    <3>1. r \in ListingsAsOf(rows, asOf, decision).rows
      BY <1>2 DEF Resolved
    <3>2. PICK a \in {ListingAsOf(rows, k, asOf, decision) : k \in {q.key : q \in rows}} : r \in a.rows
      BY <3>1, ListedInOne DEF ListingsAsOf
    <3>. QED
      BY <3>2
  <2> DEFINE known == About(rows, k, decision)
  <2>2. r \in Resolve(known, [q \in known |-> <<q.key, q.from>>], asOf).rows
    BY <2>1, Zenon DEF ListingAsOf
  <2>3. r \in rows
    <3> DEFINE family == [q \in known |-> <<q.key, q.from>>]
    <3>1. r \in known
      <4>. HIDE DEF family
      <4>. QED
        BY <2>2, ResolvedLead DEF family
    <3>. QED
      BY <3>1 DEF About, Known
  <2>4. <<s.key, s.from>> = <<r.key, r.from>>
    BY <1>0, <1>2, <2>3 DEF Families
  <2>. HIDE DEF known
  <2>. QED
    BY <2>2, <2>4, PairedLead DEF known
<1>3. CASE kind = "memberships"
  <2>1. PICK k : r \in MembershipAsOf(rows, k, asOf, decision).rows
    BY <1>3 DEF Resolved
  <2> DEFINE known == About(rows, k, decision)
  <2>2. r \in Resolve(known, [q \in known |-> <<q.key, q.from>>], asOf).rows
    BY <2>1, Zenon DEF MembershipAsOf
  <2>3. r \in rows
    <3> DEFINE family == [q \in known |-> <<q.key, q.from>>]
    <3>1. r \in known
      <4>. HIDE DEF family
      <4>. QED
        BY <2>2, ResolvedLead DEF family
    <3>. QED
      BY <3>1 DEF About, Known
  <2>4. <<s.key, s.from>> = <<r.key, r.from>>
    BY <1>0, <1>3, <2>3 DEF Families
  <2>. HIDE DEF known
  <2>. QED
    BY <2>2, <2>4, PairedLead DEF known
<1>4. CASE kind = "adjustments"
  <2> DEFINE known  == Known(rows, decision)
             family == [q \in known |-> q.event]
  <2>1. PICK assertion : r \in CollapseRevisions(known, family, assertion).rows
    <3>1. r \in CorporateActionsAsOf(rows, decision).rows
      BY <1>4 DEF Resolved
    <3> DEFINE assertion == [q \in known |-> <<q.event, q.status, q.type, q.observed, q.effective,
                                               q.post, q.pre, q.cash>>]
               selected  == CollapseRevisions(known, family, assertion)
    <3>2. CorporateActionsAsOf(rows, decision)
            = [selected EXCEPT !.rows = {q \in @ : q.status # "cancelled"}]
      BY Zenon DEF CorporateActionsAsOf
    <3>3. selected = Refused \/ \E R : selected = Found(R)
      BY Zenon DEF CollapseRevisions
    <3>. HIDE DEF selected
    <3>4. r \in selected.rows
      BY <3>1, <3>2, <3>3 DEF Refused, Found
    <3>. QED
      BY <3>4 DEF selected
  <2>2. r \in known /\ (family[s] = family[r] => ~RanksAbove(s, r))
    <3>. HIDE DEF family
    <3>. QED
      BY <2>1, CollapsedLead
  <2>3. r \in rows
    BY <2>2 DEF Known
  <2>4. s.event = r.event
    BY <1>0, <1>4, <2>3 DEF Families
  <2>5. family[s] = s.event /\ family[r] = r.event
    BY <2>2
  <2>. QED
    BY <2>2, <2>4, <2>5
<1>. QED
  BY <1>1, <1>2, <1>3, <1>4

-----------------------------------------------------------------------------
(***************************************************************************)
(* The inductive invariant of the readers.  A part is never empty, so a    *)
(* manifest whose count is the number of rows it lists lists every part    *)
(* that was ever committed; a catalogue that is being registered has what  *)
(* was committed before it began, or has still to read the manifest of it. *)
(***************************************************************************)
Stored == {Extended([recorded |-> n], r) : n \in Nat, r \in UNION UNION {Batches[t] : t \in DOMAIN Batches}}

StoreTypeOK ==
    /\ now \in Nat
    /\ theme \in DOMAIN Batches
    /\ manifests \in [Datasets -> [count : Nat, parts : SUBSET SUBSET Stored]]
    /\ torn \in [Datasets -> SUBSET SUBSET Stored]
    /\ view \in [phase : {"none", "reading", "registered", "refused"}, todo : SUBSET Datasets,
                 parts : SUBSET SUBSET Stored, before : SUBSET Stored]

\* A set of parts that n rows tell apart from every smaller one.
Counted(parts, n) ==
    /\ IsFiniteSet(parts)
    /\ \A p \in parts : IsFiniteSet(p) /\ p # {}
    /\ n = SumOfRows(parts)

CountsTell == \A d \in Datasets : Counted(manifests[d].parts \cup torn[d], manifests[d].count)

ViewIsCommitted == view.parts \subseteq CommittedParts

ViewLosesNothing ==
    /\ view.phase = "reading" =>
          view.before \subseteq RowsOf(view.parts) \cup UNION {Committed(d) : d \in view.todo}
    /\ view.phase = "registered" => view.before \subseteq RowsOf(view.parts)

\* The parts an answer was read from have been committed.
AnsweredFrom(parts) ==
    LET q == asked.question IN
    /\ q.kind \in Kinds
    /\ asked.answer = Answer(q, parts)
    /\ asked.known = Known(RowsOf(parts), q.decision)
    /\ asked.prices = PriceParts(parts)

AnswerIsFounded == asked # None => \E parts : AnsweredFrom(parts)

\* The collector writes what the behaviour is about.
OnlyTheme == \A d \in Datasets \ DatasetsOf(theme) : ~HasManifest(d)

ReaderInv ==
    /\ StoreTypeOK /\ CountsTell /\ OnlyTheme
    /\ ViewIsCommitted /\ ViewLosesNothing /\ AnswerIsFounded

-----------------------------------------------------------------------------
(***************************************************************************)
(* Counting the rows of parts.                                             *)
(***************************************************************************)
PairsOf(parts) == UNION {{<<p, r>> : r \in p} : p \in parts}

LEMMA InPairs == \A parts, p, r : <<p, r>> \in PairsOf(parts) <=> p \in parts /\ r \in p
BY DEF PairsOf

LEMMA PairsFinite ==
    ASSUME NEW parts, IsFiniteSet(parts), \A p \in parts : IsFiniteSet(p)
    PROVE  IsFiniteSet(PairsOf(parts))
<1> DEFINE rows(p) == {<<p, r>> : r \in p}
           all == {rows(p) : p \in parts}
<1>1. \A p \in parts : IsFiniteSet(rows(p))
  <2>1. ASSUME NEW p \in parts PROVE IsFiniteSet(rows(p))
    <3>1. [r \in p |-> <<p, r>>] \in Surjection(p, rows(p))
      BY DEF Surjection
    <3>. HIDE DEF rows
    <3>. QED
      BY <3>1, FS_Surjection
  <2>. HIDE DEF rows
  <2>. QED
    BY <2>1
<1>2. IsFiniteSet(all)
  <2>. HIDE DEF rows
  <2>1. [p \in parts |-> rows(p)] \in Surjection(parts, all)
    BY DEF Surjection
  <2>. HIDE DEF all
  <2>. QED
    BY <2>1, FS_Surjection
<1>3. \A T \in all : IsFiniteSet(T)
  <2>. HIDE DEF rows
  <2>. QED
    BY <1>1
<1>4. PairsOf(parts) = UNION all
  BY Zenon DEF PairsOf
<1>. HIDE DEF all
<1>. QED
  BY <1>2, <1>3, <1>4, FS_UNION

\* The rows of one part, told apart by the part, are as many as its rows.
LEMMA PairsOfOne ==
    ASSUME NEW p, IsFiniteSet(p)
    PROVE  /\ IsFiniteSet(PairsOf({p}))
           /\ Cardinality(PairsOf({p})) = Cardinality(p)
<1> DEFINE f == [r \in p |-> <<p, r>>]
<1>1. f \in [p -> PairsOf({p})]
  BY InPairs
<1>2. \A r, s \in p : f[r] = f[s] => r = s
  BY TwoEqual
<1>3. \A t \in PairsOf({p}) : \E r \in p : f[r] = t
  BY DEF PairsOf
<1>4. f \in Bijection(p, PairsOf({p}))
  <2>. HIDE DEF f
  <2>. QED
    BY <1>1, <1>2, <1>3 DEF Bijection, Injection, Surjection, IsInjective
<1>5. ExistsBijection(p, PairsOf({p}))
  BY <1>4 DEF ExistsBijection
<1>. QED
  BY <1>5, FS_Bijection

LEMMA CountGrows ==
    ASSUME NEW parts, NEW n \in Nat, Counted(parts, n), NEW p, IsFiniteSet(p), p # {}, p \notin parts
    PROVE  Counted(parts \cup {p}, n + Cardinality(p))
<1>1. /\ IsFiniteSet(PairsOf(parts)) /\ IsFiniteSet(PairsOf({p}))
      /\ n = Cardinality(PairsOf(parts)) /\ Cardinality(PairsOf({p})) = Cardinality(p)
  BY PairsFinite, PairsOfOne DEF Counted, SumOfRows, PairsOf
<1>2. PairsOf(parts \cup {p}) = PairsOf(parts) \cup PairsOf({p})
  BY DEF PairsOf
<1>3. PairsOf(parts) \cap PairsOf({p}) = {}
  <2>1. \A x \in PairsOf(parts), y \in PairsOf({p}) : x # y
    <3>1. ASSUME NEW x \in PairsOf(parts), NEW y \in PairsOf({p}) PROVE x # y
      <4>1. PICK q \in parts : \E r \in q : x = <<q, r>>
        BY DEF PairsOf
      <4>2. PICK s \in p : y = <<p, s>>
        BY DEF PairsOf
      <4>. QED
        BY <4>1, <4>2, TwoEqual
    <3>. QED
      BY <3>1
  <2>. QED
    BY <2>1
<1>4. Cardinality(PairsOf(parts \cup {p})) = n + Cardinality(p)
  <2>1. Cardinality(PairsOf(parts) \cap PairsOf({p})) = 0
    BY <1>3, FS_EmptySet
  <2>2. Cardinality(p) \in Nat
    BY FS_CardinalityType
  <2>3. Cardinality(PairsOf(parts) \cup PairsOf({p}))
          = Cardinality(PairsOf(parts)) + Cardinality(PairsOf({p}))
              - Cardinality(PairsOf(parts) \cap PairsOf({p}))
    BY <1>1, FS_Union
  <2>. QED
    <3>1. Cardinality(PairsOf(parts \cup {p})) = n + Cardinality(p) - 0
      BY <1>1, <1>2, <2>1, <2>3, Zenon
    <3>. QED
      BY <2>2, <3>1
<1>5. IsFiniteSet(parts \cup {p})
  BY FS_AddElement DEF Counted
<1>. QED
  BY <1>4, <1>5 DEF Counted, SumOfRows, PairsOf

\* Fewer parts have fewer rows.
LEMMA CountTells ==
    ASSUME NEW parts, NEW n, Counted(parts, n), NEW some, some \subseteq parts, SumOfRows(some) = n
    PROVE  some = parts
<1>1. IsFiniteSet(PairsOf(parts)) /\ n = Cardinality(PairsOf(parts))
  BY PairsFinite DEF Counted, SumOfRows, PairsOf
<1>2. PairsOf(some) \subseteq PairsOf(parts) /\ Cardinality(PairsOf(some)) = n
  BY DEF PairsOf, SumOfRows
<1>3. PairsOf(parts) = PairsOf(some)
  BY <1>1, <1>2, FS_Subset
<1>4. ASSUME NEW p \in parts PROVE p \in some
  <2>1. PICK r : r \in p
    BY DEF Counted
  <2>. QED
    <3>1. <<p, r>> \in PairsOf(some)
      BY <2>1, <1>3, InPairs, Zenon
    <3>. QED
      BY <3>1, InPairs, Zenon
<1>. QED
  BY <1>4

LEMMA CountedNothing ==
    ASSUME NEW parts, NEW n, Counted(parts, n)
    PROVE  n \in Nat /\ (~(n > 0) => parts = {})
<1>1. IsFiniteSet(PairsOf(parts)) /\ n = Cardinality(PairsOf(parts))
  BY PairsFinite DEF Counted, SumOfRows, PairsOf
<1>2. n \in Nat
  BY <1>1, FS_CardinalityType
<1>3. ASSUME ~(n > 0) PROVE parts = {}
  <2>1. PairsOf(parts) = {}
    BY <1>1, <1>2, <1>3, FS_EmptySet
  <2>2. ASSUME NEW p \in parts PROVE FALSE
    <3>1. PICK r : r \in p
      BY DEF Counted
    <3>2. <<p, r>> \in PairsOf(parts)
      BY <3>1, InPairs, Zenon
    <3>. QED
      BY <2>1, <3>2
  <2>. QED
    BY <2>2
<1>. QED
  BY <1>2, <1>3

-----------------------------------------------------------------------------
(***************************************************************************)
(* The store only gains parts.                                             *)
(***************************************************************************)
StoreGrows ==
    \A d \in Datasets : manifests[d].parts \cup torn[d] \subseteq manifests'[d].parts \cup torn'[d]

LEMMA GrowingKeeps ==
    ASSUME StoreGrows
    PROVE  /\ CommittedParts \subseteq CommittedParts'
           /\ \A d \in Datasets : Committed(d) \subseteq Committed(d)'
<1>1. CommittedParts \subseteq CommittedParts'
  BY DEF StoreGrows, CommittedParts
<1>2. ASSUME NEW d \in Datasets PROVE Committed(d) \subseteq Committed(d)'
  BY DEF StoreGrows, Committed, RowsOf
<1>. QED
  BY <1>1, <1>2

\* A catalogue that does not move stays committed, and loses nothing.
LEMMA ViewKept ==
    ASSUME ReaderInv, StoreGrows, UNCHANGED <<view, asked>>
    PROVE  ViewIsCommitted' /\ ViewLosesNothing' /\ AnswerIsFounded'
<1>1. ViewIsCommitted'
  BY GrowingKeeps DEF ReaderInv, ViewIsCommitted
<1>2. ViewLosesNothing'
  <2>1. view.todo \subseteq Datasets
    BY DEF ReaderInv, StoreTypeOK
  <2>2. UNION {Committed(d) : d \in view.todo} \subseteq UNION {Committed(d)' : d \in view.todo}
    BY <2>1, GrowingKeeps
  <2>. QED
    BY <2>2 DEF ReaderInv, ViewLosesNothing
<1>3. AnswerIsFounded'
  BY DEF ReaderInv, AnswerIsFounded, AnsweredFrom
<1>. QED
  BY <1>1, <1>2, <1>3

\* A step of a reader leaves the store as it is.
StoreSame == UNCHANGED <<now, theme, manifests, torn>>

LEMMA StoreSameKeeps ==
    ASSUME ReaderInv, StoreSame
    PROVE  /\ CountsTell' /\ OnlyTheme' /\ StoreGrows /\ CommittedParts' = CommittedParts
           /\ \A d : Committed(d)' = Committed(d)
<1>1. CountsTell'
  BY DEF StoreSame, ReaderInv, CountsTell
<1>2. StoreGrows
  BY DEF StoreSame, StoreGrows
<1>3. CommittedParts' = CommittedParts
  BY DEF StoreSame, CommittedParts
<1>4. \A d : Committed(d)' = Committed(d)
  BY DEF StoreSame, Committed
<1>5. OnlyTheme'
  BY DEF StoreSame, ReaderInv, OnlyTheme, HasManifest
<1>. QED
  BY <1>1, <1>2, <1>3, <1>4, <1>5

LEMMA RecordedKeeps == \A n, r : "id" \in DOMAIN r => Extended([recorded |-> n], r).id = r.id
BY DEF Extended

\* What a batch becomes when it is recorded: a new part of one of the datasets.
LEMMA NewPart ==
    ASSUME ReaderInv, NEW batch \in Batches[theme], Ids(batch) \cap Ids(AllCommitted) = {},
           NEW d, d = (CHOOSE r \in batch : TRUE).of, NEW part,
           part = {Extended([recorded |-> now], r) : r \in batch}
    PROVE  /\ d \in Datasets /\ d \in DatasetsOf(theme)
           /\ part \in SUBSET Stored /\ IsFiniteSet(part) /\ part # {}
           /\ part \notin manifests[d].parts
<1>1. /\ theme \in DOMAIN Batches /\ now \in Nat
      /\ IsFiniteSet(batch) /\ batch # {} /\ \A r \in batch : {"id", "of"} \subseteq DOMAIN r
  BY BatchesAssumption DEF ReaderInv, StoreTypeOK
<1>2. PICK r \in batch : d = r.of
  BY <1>1
<1>3. batch \subseteq UNION UNION {Batches[t] : t \in DOMAIN Batches}
  BY <1>1
<1>4. d \in Datasets /\ d \in DatasetsOf(theme)
  <2>1. r \in UNION Batches[theme]
    OBVIOUS
  <2>2. d \in DatasetsOf(theme)
    BY <1>2, <2>1 DEF DatasetsOf
  <2>. QED
    BY <1>1, <2>2 DEF Datasets
<1>5. part \in SUBSET Stored
  BY <1>1, <1>3 DEF Stored
<1>6. IsFiniteSet(part)
  <2>1. [q \in batch |-> Extended([recorded |-> now], q)] \in Surjection(batch, part)
    BY DEF Surjection
  <2>. QED
    BY <1>1, <2>1, FS_Surjection
<1>7. part # {}
  BY <1>1
<1>8. part \notin manifests[d].parts
  <2>1. SUFFICES ASSUME part \in manifests[d].parts PROVE FALSE
    OBVIOUS
  <2>2. Extended([recorded |-> now], r) \in AllCommitted
    BY <1>4, <2>1 DEF AllCommitted, Committed, RowsOf
  <2>3. Extended([recorded |-> now], r).id = r.id
    BY <1>1, RecordedKeeps
  <2>4. r.id \in Ids(AllCommitted) /\ r.id \in Ids(batch)
    BY <2>2, <2>3 DEF Ids
  <2>. QED
    BY <2>4
<1>. QED
  BY <1>4, <1>5, <1>6, <1>7, <1>8

-----------------------------------------------------------------------------
(***************************************************************************)
(* The steps.                                                              *)
(***************************************************************************)
LEMMA ReaderInit == Init => ReaderInv
<1>. SUFFICES ASSUME Init PROVE ReaderInv
  OBVIOUS
<1>1. StoreTypeOK
  BY DEF Init, StoreTypeOK, Idle
<1>2. CountsTell
  <2>1. ASSUME NEW d \in Datasets PROVE Counted(manifests[d].parts \cup torn[d], manifests[d].count)
    <3>1. manifests[d].parts \cup torn[d] = {} /\ manifests[d].count = 0
      BY DEF Init
    <3>2. SumOfRows({}) = 0
      <4>1. UNION {{<<p, r>> : r \in p} : p \in {}} = {}
        OBVIOUS
      <4>. QED
        BY <4>1, FS_EmptySet DEF SumOfRows
    <3>3. Counted({}, 0)
      BY <3>2, FS_EmptySet DEF Counted
    <3>. QED
      BY <3>1, <3>3
  <2>. QED
    BY <2>1 DEF CountsTell
<1>3. OnlyTheme /\ ViewIsCommitted /\ ViewLosesNothing /\ AnswerIsFounded
  BY DEF Init, Idle, OnlyTheme, HasManifest, ViewIsCommitted, ViewLosesNothing, AnswerIsFounded
<1>. QED
  BY <1>1, <1>2, <1>3 DEF ReaderInv

LEMMA PublishKeeps ==
    ASSUME ReaderInv, NEW batch \in Batches[theme], Publish(batch)
    PROVE  ReaderInv'
<1>1. PICK d, part : /\ d = (CHOOSE r \in batch : TRUE).of
                     /\ part = {Extended([recorded |-> now], r) : r \in batch}
  OBVIOUS
<1>2. /\ Ids(batch) \cap Ids(AllCommitted) = {}
      /\ torn[d] = {}
      /\ manifests' = [manifests EXCEPT ![d] = [count |-> @.count + Cardinality(part),
                                                parts |-> @.parts \cup {part}]]
      /\ UNCHANGED <<now, theme, lost, torn, view, asked>>
  BY <1>1, Zenon DEF Publish
<1>3. /\ d \in Datasets /\ d \in DatasetsOf(theme)
      /\ part \in SUBSET Stored /\ IsFiniteSet(part) /\ part # {}
      /\ part \notin manifests[d].parts
  BY <1>1, <1>2, NewPart
<1>4. /\ manifests[d].count \in Nat /\ manifests[d].parts \in SUBSET SUBSET Stored
      /\ manifests'[d].count = manifests[d].count + Cardinality(part)
      /\ manifests'[d].parts = manifests[d].parts \cup {part}
      /\ \A e \in Datasets : e # d => manifests'[e] = manifests[e]
  BY <1>2, <1>3 DEF ReaderInv, StoreTypeOK
<1>5. StoreTypeOK'
  <2>1. Cardinality(part) \in Nat
    BY <1>3, FS_CardinalityType
  <2>2. [count |-> manifests[d].count + Cardinality(part), parts |-> manifests[d].parts \cup {part}]
          \in [count : Nat, parts : SUBSET SUBSET Stored]
    BY <1>3, <1>4, <2>1
  <2>3. manifests' \in [Datasets -> [count : Nat, parts : SUBSET SUBSET Stored]]
    BY <1>2, <2>2 DEF ReaderInv, StoreTypeOK
  <2>. QED
    BY <1>2, <2>3 DEF ReaderInv, StoreTypeOK
<1>6. CountsTell'
  <2>1. Counted(manifests[d].parts \cup {part}, manifests[d].count + Cardinality(part))
    <3>1. Counted(manifests[d].parts, manifests[d].count)
      BY <1>2, <1>3 DEF ReaderInv, CountsTell
    <3>. QED
      BY <1>3, <1>4, <3>1, CountGrows
  <2>2. Counted(manifests'[d].parts \cup torn'[d], manifests'[d].count)
    BY <1>2, <1>4, <2>1
  <2>3. ASSUME NEW e \in Datasets, e # d
        PROVE  Counted(manifests'[e].parts \cup torn'[e], manifests'[e].count)
    BY <1>2, <1>4, <2>3 DEF ReaderInv, CountsTell
  <2>. QED
    BY <2>2, <2>3 DEF CountsTell
<1>7. StoreGrows
  BY <1>2, <1>4 DEF StoreGrows
<1>8. OnlyTheme'
  BY <1>2, <1>3, <1>4 DEF ReaderInv, OnlyTheme, HasManifest
<1>. QED
  BY <1>2, <1>5, <1>6, <1>7, <1>8, ViewKept DEF ReaderInv

LEMMA TearKeeps ==
    ASSUME ReaderInv, NEW d \in Datasets, NEW part \in manifests[d].parts, TearManifest(d, part)
    PROVE  ReaderInv'
<1>1. /\ manifests[d].count \in Nat /\ manifests[d].parts \in SUBSET SUBSET Stored
      /\ manifests'[d].count = manifests[d].count
      /\ manifests'[d].parts = manifests[d].parts \ {part}
      /\ torn'[d] = torn[d] \cup {part}
      /\ \A e \in Datasets : e # d => manifests'[e] = manifests[e] /\ torn'[e] = torn[e]
      /\ UNCHANGED <<now, theme, lost, view, asked>>
  BY DEF ReaderInv, StoreTypeOK, TearManifest
<1>2. StoreTypeOK'
  <2>1. manifests' \in [Datasets -> [count : Nat, parts : SUBSET SUBSET Stored]]
    BY DEF ReaderInv, StoreTypeOK, TearManifest
  <2>2. torn' \in [Datasets -> SUBSET SUBSET Stored]
    BY <1>1 DEF ReaderInv, StoreTypeOK, TearManifest
  <2>. QED
    BY <1>1, <2>1, <2>2 DEF ReaderInv, StoreTypeOK
<1>3. \A e \in Datasets : /\ manifests'[e].parts \cup torn'[e] = manifests[e].parts \cup torn[e]
                          /\ manifests'[e].count = manifests[e].count
  BY <1>1
<1>4. CountsTell' /\ OnlyTheme' /\ StoreGrows
  BY <1>1, <1>3 DEF ReaderInv, CountsTell, OnlyTheme, HasManifest, StoreGrows
<1>. QED
  BY <1>1, <1>2, <1>4, ViewKept DEF ReaderInv

LEMMA BeginKeeps == ASSUME ReaderInv, BeginRegister PROVE ReaderInv'
<1>1. /\ StoreSame /\ asked' = asked /\ view'.phase = "reading" /\ view'.parts = {}
      /\ view'.todo = DatasetsOf(theme) /\ view'.before = AllCommitted
  BY DEF BeginRegister, StoreSame
<1>2. AllCommitted \subseteq UNION {Committed(d) : d \in view'.todo}
  <2>1. ASSUME NEW d \in Datasets, ~HasManifest(d) PROVE Committed(d) = {}
    <3>1. manifests[d].parts \cup torn[d] = {}
      BY <2>1, CountedNothing DEF ReaderInv, CountsTell, HasManifest
    <3>. QED
      BY <3>1 DEF Committed, RowsOf
  <2>. QED
    BY <1>1, <2>1 DEF AllCommitted, ReaderInv, OnlyTheme
<1>3. ViewLosesNothing'
  BY <1>1, <1>2, StoreSameKeeps DEF ViewLosesNothing
<1>4. AllCommitted \subseteq Stored
  BY DEF AllCommitted, Committed, RowsOf, ReaderInv, StoreTypeOK
<1>5. StoreTypeOK'
  <2>1. DatasetsOf(theme) \subseteq Datasets
    BY DEF ReaderInv, StoreTypeOK, Datasets
  <2>. QED
    BY <1>1, <1>4, <2>1 DEF ReaderInv, StoreTypeOK, StoreSame, BeginRegister
<1>6. ViewIsCommitted' /\ AnswerIsFounded'
  BY <1>1 DEF ReaderInv, ViewIsCommitted, AnswerIsFounded, AnsweredFrom
<1>. QED
  BY <1>1, <1>3, <1>5, <1>6, StoreSameKeeps DEF ReaderInv

\* A manifest whose count is the rows it lists has lost no part.
LEMMA ReadKeeps == ASSUME ReaderInv, NEW d \in Datasets, ReadManifest(d) PROVE ReaderInv'
<1>1. /\ StoreSame /\ asked' = asked /\ view.phase = "reading" /\ d \in view.todo
  BY DEF ReadManifest, StoreSame
<1>2. CountsTell' /\ OnlyTheme' /\ AnswerIsFounded'
  BY <1>1, StoreSameKeeps DEF ReaderInv, AnswerIsFounded, AnsweredFrom
<1>3. CASE HasManifest(d) => ManifestValid(manifests[d])
  <2>1. view' = [view EXCEPT !.todo = @ \ {d}, !.parts = @ \cup manifests[d].parts]
    BY <1>3 DEF ReadManifest
  <2>2. /\ view'.phase = "reading" /\ view'.todo = view.todo \ {d} /\ view'.before = view.before
        /\ view'.parts = view.parts \cup manifests[d].parts
    BY <1>1, <2>1 DEF ReaderInv, StoreTypeOK
  <2>3. StoreTypeOK'
    BY <1>1, <2>1 DEF ReaderInv, StoreTypeOK, StoreSame
  <2>4. ViewIsCommitted'
    BY <1>1, <2>2, StoreSameKeeps DEF ReaderInv, ViewIsCommitted, CommittedParts
  <2>5. Committed(d) = RowsOf(manifests[d].parts)
    <3>1. manifests[d].parts = manifests[d].parts \cup torn[d]
      <4>1. Counted(manifests[d].parts \cup torn[d], manifests[d].count)
        BY DEF ReaderInv, CountsTell
      <4>2. CASE ~HasManifest(d)
        BY <4>1, <4>2, CountedNothing DEF HasManifest
      <4>3. CASE SumOfRows(manifests[d].parts) = manifests[d].count
        <5>1. manifests[d].parts \subseteq manifests[d].parts \cup torn[d]
          OBVIOUS
        <5>. QED
          BY <4>1, <4>3, <5>1, CountTells
      <4>. QED
        BY <1>3, <4>2, <4>3 DEF ManifestValid
    <3>. QED
      BY <3>1 DEF Committed
  <2>6. ViewLosesNothing'
    <3>1. view.before \subseteq RowsOf(view'.parts) \cup UNION {Committed(e) : e \in view'.todo}
      BY <1>1, <2>2, <2>5 DEF ReaderInv, ViewLosesNothing, RowsOf
    <3>. QED
      BY <1>1, <2>2, <3>1, StoreSameKeeps DEF ViewLosesNothing
  <2>. QED
    BY <1>2, <2>3, <2>4, <2>6 DEF ReaderInv
<1>4. CASE ~(HasManifest(d) => ManifestValid(manifests[d]))
  <2>1. view' = [Idle EXCEPT !.phase = "refused"]
    BY <1>4 DEF ReadManifest
  <2>2. StoreTypeOK' /\ ViewIsCommitted' /\ ViewLosesNothing'
    BY <1>1, <2>1 DEF ReaderInv, StoreTypeOK, StoreSame, Idle, ViewIsCommitted, ViewLosesNothing
  <2>. QED
    BY <1>2, <2>2 DEF ReaderInv
<1>. QED
  BY <1>3, <1>4

LEMMA VerifyKeeps == ASSUME ReaderInv, VerifyParts PROVE ReaderInv'
<1>1. StoreSame /\ asked' = asked /\ view.phase = "reading" /\ view.todo = {}
  BY DEF VerifyParts, StoreSame
<1>2. CountsTell' /\ OnlyTheme' /\ AnswerIsFounded' /\ CommittedParts' = CommittedParts
  BY <1>1, StoreSameKeeps DEF ReaderInv, AnswerIsFounded, AnsweredFrom
<1>3. CASE view' = [view EXCEPT !.phase = "registered"]
  <2>1. StoreTypeOK' /\ ViewIsCommitted' /\ ViewLosesNothing'
    BY <1>1, <1>2, <1>3 DEF ReaderInv, StoreTypeOK, StoreSame, ViewIsCommitted, ViewLosesNothing
  <2>. QED
    BY <1>2, <2>1 DEF ReaderInv
<1>4. CASE view' = [Idle EXCEPT !.phase = "refused"]
  <2>1. StoreTypeOK' /\ ViewIsCommitted' /\ ViewLosesNothing'
    BY <1>1, <1>4 DEF ReaderInv, StoreTypeOK, StoreSame, Idle, ViewIsCommitted, ViewLosesNothing
  <2>. QED
    BY <1>2, <2>1 DEF ReaderInv
<1>. QED
  BY <1>3, <1>4 DEF VerifyParts

LEMMA AskKeeps ==
    ASSUME ReaderInv, NEW kind \in Questions(theme), NEW key, NEW asOf, NEW decision,
           Ask(kind, key, asOf, decision)
    PROVE  ReaderInv'
<1>1. PICK q, parts : /\ q = [kind |-> kind, key |-> key, asOf |-> asOf, decision |-> decision]
                      /\ parts = view.parts
  OBVIOUS
<1>2. /\ StoreSame /\ view' = Idle
      /\ asked' = [question |-> q, answer |-> Answer(q, parts),
                   known |-> Known(RowsOf(parts), decision), prices |-> PriceParts(parts)]
  BY <1>1, Zenon DEF Ask, StoreSame
<1>3. q.kind \in Kinds /\ q.decision = decision
  BY <1>1 DEF Questions, Kinds
<1>4. AnswerIsFounded'
  <2> DEFINE a == Answer(q, parts)
             k == Known(RowsOf(parts), decision)
             f == PriceParts(parts)
  <2>1. asked' = [question |-> q, answer |-> a, known |-> k, prices |-> f]
    BY <1>2
  <2>. HIDE DEF a, k, f
  <2>2. asked'.question = q /\ asked'.answer = a /\ asked'.known = k /\ asked'.prices = f
    BY <2>1
  <2>3. AnsweredFrom(parts)'
    BY <1>3, <2>2 DEF AnsweredFrom, a, k, f
  <2>. QED
    BY <2>3 DEF AnswerIsFounded
<1>5. StoreTypeOK' /\ ViewIsCommitted' /\ ViewLosesNothing'
  BY <1>2 DEF ReaderInv, StoreTypeOK, StoreSame, Idle, ViewIsCommitted, ViewLosesNothing
<1>. QED
  BY <1>2, <1>4, <1>5, StoreSameKeeps DEF ReaderInv

LEMMA GiveUpKeeps == ASSUME ReaderInv, GiveUp PROVE ReaderInv'
<1>1. StoreSame /\ asked' = asked /\ view' = Idle
  BY DEF GiveUp, StoreSame
<1>2. StoreTypeOK' /\ ViewIsCommitted' /\ ViewLosesNothing' /\ AnswerIsFounded'
  BY <1>1 DEF ReaderInv, StoreTypeOK, StoreSame, Idle, ViewIsCommitted, ViewLosesNothing,
              AnswerIsFounded, AnsweredFrom
<1>. QED
  BY <1>1, <1>2, StoreSameKeeps DEF ReaderInv

LEMMA ReaderStep == ReaderInv /\ [Next]_vars => ReaderInv'
<1>. SUFFICES ASSUME ReaderInv, [Next]_vars PROVE ReaderInv'
  OBVIOUS
<1>1. ASSUME now' \in Nat, UNCHANGED <<theme, manifests, torn, view, asked>> PROVE ReaderInv'
  <2>1. StoreTypeOK' /\ CountsTell' /\ OnlyTheme' /\ StoreGrows
    BY <1>1 DEF ReaderInv, StoreTypeOK, CountsTell, OnlyTheme, HasManifest, StoreGrows
  <2>. QED
    BY <1>1, <2>1, ViewKept DEF ReaderInv
<1>2. CASE Tick
  BY <1>1, <1>2 DEF Tick, ReaderInv, StoreTypeOK
<1>3. ASSUME NEW batch \in Batches[theme], Publish(batch) PROVE ReaderInv'
  BY <1>3, PublishKeeps
<1>4. ASSUME NEW d \in Datasets, NEW p \in manifests[d].parts, LosePart(d, p) PROVE ReaderInv'
  BY <1>1, <1>4 DEF LosePart, ReaderInv, StoreTypeOK
<1>5. ASSUME NEW d \in Datasets, NEW p \in manifests[d].parts, TearManifest(d, p) PROVE ReaderInv'
  BY <1>5, TearKeeps
<1>6. CASE BeginRegister
  BY <1>6, BeginKeeps
<1>7. ASSUME NEW d \in Datasets, ReadManifest(d) PROVE ReaderInv'
  BY <1>7, ReadKeeps
<1>8. CASE VerifyParts
  BY <1>8, VerifyKeeps
<1>9. ASSUME NEW kind \in Questions(theme), NEW key, NEW asOf, NEW decision,
             Ask(kind, key, asOf, decision)
      PROVE  ReaderInv'
  BY <1>9, AskKeeps
<1>10. CASE GiveUp
  BY <1>10, GiveUpKeeps
<1>11. CASE UNCHANGED vars
  BY <1>1, <1>11 DEF vars, ReaderInv, StoreTypeOK
<1>. QED
  BY <1>2, <1>3, <1>4, <1>5, <1>6, <1>7, <1>8, <1>9, <1>10, <1>11 DEF Next

-----------------------------------------------------------------------------
(***************************************************************************)
(* What the readers promise.                                               *)
(***************************************************************************)
\* Whatever collectors publish and files are damaged, the invariant of the readers holds.
THEOREM ReadersInductive == Spec => []ReaderInv
<1>1. Init => ReaderInv
  BY ReaderInit
<1>2. ReaderInv /\ [Next]_vars => ReaderInv'
  BY ReaderStep
<1>. QED
  BY <1>1, <1>2, PTL DEF Spec

LEMMA CommittedRows == RowsOf(CommittedParts) = AllCommitted
BY DEF RowsOf, CommittedParts, AllCommitted, Committed

(***************************************************************************)
(* An answer depends on what could be known at its decision and on nothing *)
(* the store gained later, for every resolver and query and any rows.      *)
(***************************************************************************)
THEOREM AnswersDependOnKnownRowsHolds == Spec => []AnswersDependOnKnownRows
<1>1. ReaderInv => AnswersDependOnKnownRows
  <2>. SUFFICES ASSUME ReaderInv, asked # None,
                       Known(AllCommitted, asked.question.decision) = asked.known,
                       asked.question.kind = "adjusted" => PriceParts(CommittedParts) = asked.prices
                PROVE  Answer(asked.question, CommittedParts) = asked.answer
    BY Zenon DEF AnswersDependOnKnownRows
  <2>1. PICK parts : AnsweredFrom(parts)
    BY DEF ReaderInv, AnswerIsFounded
  <2>2. PICK q : q = asked.question
    OBVIOUS
  <2>3. /\ q.kind \in Kinds /\ asked.answer = Answer(q, parts)
        /\ Known(RowsOf(CommittedParts), q.decision) = Known(RowsOf(parts), q.decision)
        /\ q.kind = "adjusted" => PriceParts(CommittedParts) = PriceParts(parts)
    BY <2>1, <2>2, CommittedRows DEF AnsweredFrom
  <2>4. Answer(q, CommittedParts) = Answer(q, parts)
    BY <2>3, SameAnswer
  <2>. QED
    BY <2>2, <2>3, <2>4
<1>. QED
  BY <1>1, ReadersInductive, PTL

(***************************************************************************)
(* Whatever moment is asked about, no row the resolvers return has a       *)
(* correction of its family that was knowable and outranks it: the         *)
(* corrections are collapsed before the interval is looked at.             *)
(***************************************************************************)
THEOREM SupersededNeverLeaksHolds == Spec => []SupersededNeverLeaks
<1>1. SupersededNeverLeaks
  <2> DEFINE rows == IF theme = "adjustments" THEN Of(AllCommitted, "actions") ELSE AllCommitted
  <2>1. ASSUME theme \in {"identifiers", "listings", "memberships", "adjustments"},
               NEW decision, NEW asOf, NEW r \in Resolved(rows, theme, asOf, decision),
               NEW s \in Known(rows, decision), Families(rows, theme)[s] = Families(rows, theme)[r]
        PROVE  ~RanksAbove(s, r)
    <3>. HIDE DEF rows
    <3>. QED
      BY <2>1, NoneAboveResolved
  <2>. HIDE DEF rows
  <2>2. theme \in {"identifiers", "listings", "memberships", "adjustments"} =>
           \A decision, asOf : \A r \in Resolved(rows, theme, asOf, decision) :
              ~\E s \in Known(rows, decision) :
                  Families(rows, theme)[s] = Families(rows, theme)[r] /\ RanksAbove(s, r)
    BY <2>1
  <2>. QED
    BY <2>2, Zenon DEF SupersededNeverLeaks, rows
<1>. QED
  BY <1>1, PTL

(***************************************************************************)
(* A catalogue that registers has every row committed before it began and  *)
(* none that was never committed, whatever was published meanwhile and     *)
(* whatever was damaged.                                                   *)
(***************************************************************************)
THEOREM CatalogIsCompleteHolds == Spec => []CatalogIsComplete
<1>1. ReaderInv => CatalogIsComplete
  <2>. SUFFICES ASSUME ReaderInv, view.phase = "registered"
                PROVE  view.before \subseteq RowsOf(view.parts) /\ RowsOf(view.parts) \subseteq AllCommitted
    BY DEF CatalogIsComplete
  <2>1. RowsOf(view.parts) \subseteq RowsOf(CommittedParts)
    BY DEF ReaderInv, ViewIsCommitted, RowsOf
  <2>. QED
    BY <2>1, CommittedRows DEF ReaderInv, ViewLosesNothing
<1>. QED
  BY <1>1, ReadersInductive, PTL

\* A step of the publishers is a step of the readers, or none.
LEMMA PublishersRead == [PubNext]_pubVars => [Next]_vars
<1>. SUFFICES ASSUME [PubNext]_pubVars PROVE [Next]_vars
  OBVIOUS
<1>1. CASE Next
  BY <1>1
<1>2. ASSUME NEW p, NEW request, StartBatch(p, request) PROVE [Next]_vars
  <2>1. GiveUp
    BY <1>2 DEF StartBatch, GiveUp, store
  <2>. QED
    BY <2>1 DEF Next
<1>3. ASSUME NEW p, NEW request,
             \/ StartDocument(p, request) \/ StartResult(p, request)
             \/ StartSpec(p, request) \/ StartAdjusted(p, request)
      PROVE  [Next]_vars
  <2>1. ASSUME NEW job, StartJob(p, request, job) PROVE UNCHANGED vars
    BY <2>1 DEF StartJob, store, vars
  <2>2. \E job : StartJob(p, request, job)
    BY <1>3, Zenon DEF StartDocument, StartResult, StartSpec, StartAdjusted
  <2>. QED
    BY <2>1, <2>2
<1>4. ASSUME NEW p, Step(p) \/ Crash(p) \/ DiskError(p) PROVE [Next]_vars
  <2>1. UNCHANGED vars
    BY <1>4, Zenon DEF Step, Crash, DiskError, SkipPartition, SelectPartition, AcceptChild,
               InstallBatch, Open, MakeDirectory, CreateFile, FillFile, ExamineFile, Overwrite,
               WriteTemporary, LinkFile, UnlinkTemporary, Return
  <2>. QED
    BY <2>1
<1>5. CASE UNCHANGED pubVars
  BY <1>5 DEF pubVars, vars
<1>. QED
  BY <1>1, <1>2, <1>3, <1>4, <1>5 DEF PubNext

(***************************************************************************)
(* The publishers take the catalogue like any reader and leave the store   *)
(* alone, so that what holds of the readers holds in Publications.         *)
(***************************************************************************)
THEOREM PublicationsImplementReaders == PubSpec => Spec
<1>1. PubInit => Init
  BY DEF PubInit
<1>. QED
  BY <1>1, PublishersRead, PTL DEF PubSpec, Spec

\* The three promises of the readers, while artifacts are published from their catalogues.
THEOREM PublicationsKeepReaderPromises ==
    PubSpec => []AnswersDependOnKnownRows /\ []SupersededNeverLeaks /\ []CatalogIsComplete
BY PublicationsImplementReaders, AnswersDependOnKnownRowsHolds, SupersededNeverLeaksHolds,
   CatalogIsCompleteHolds, PTL

-----------------------------------------------------------------------------
(***************************************************************************)
(* Publishers.  The jobs: a feature artifact, a batch and an adjusted      *)
(* series have a directory of their own kind and write their manifest      *)
(* last; the others are what a request asks for.                           *)
(***************************************************************************)
ManifestLast(family, m) ==
    IF family = "batch" THEN <<File(ManifestName, m)>>
    ELSE <<File(PartFile, m.part), File(ManifestName, m)>>

DirectoryKind(family) == IF family \in FeatureFamilies THEN "artifact" ELSE family

ExclusiveJob(job) ==
    /\ job.family \in Exclusive
    /\ job.dir.of = DirectoryKind(job.family)
    /\ \E m : job.files = ManifestLast(job.family, m)

Asked == UNION {Requests[t] : t \in DOMAIN Batches}

SharedJob(job) ==
    \E r \in Asked :
       \/ r.kind = "document" /\ job = DocumentJob(r)
       \/ r.kind = "result" /\ job = ResultJob(r)
       \/ r.kind = "spec" /\ job = SpecJob(r)

JobFits(job) == ExclusiveJob(job) \/ SharedJob(job)

LEMMA OneEqual == \A a, b : <<a>> = <<b>> => a = b
OBVIOUS

LEMMA NotTheManifest == PartFile # ManifestName
BY OneEqual DEF PartFile, ManifestName

\* Lists of one, two and three files.
LEMMA ListOfOne == ASSUME NEW a PROVE Len(<<a>>) = 1 /\ <<a>>[1] = a
OBVIOUS

LEMMA ListOfTwo == ASSUME NEW a, NEW b PROVE Len(<<a, b>>) = 2 /\ <<a, b>>[1] = a /\ <<a, b>>[2] = b
OBVIOUS

LEMMA ListOfThree ==
    ASSUME NEW a, NEW b, NEW c
    PROVE  Len(<<a, b, c>>) = 3 /\ <<a, b, c>>[1] = a /\ <<a, b, c>>[2] = b /\ <<a, b, c>>[3] = c
OBVIOUS

LEMMA FileFields == ASSUME NEW n, NEW c PROVE File(n, c).name = n /\ File(n, c).content = c
BY DEF File

LEMMA ExclusiveShape ==
    ASSUME NEW job, ExclusiveJob(job)
    PROVE  /\ Len(job.files) \in Nat /\ Len(job.files) # 0
           /\ \A i \in 1..Len(job.files) : job.files[i].name = ManifestName <=> i = Len(job.files)
<1>1. PICK m : job.files = ManifestLast(job.family, m)
  BY DEF ExclusiveJob
<1>2. CASE job.family = "batch"
  <2>1. job.files = <<File(ManifestName, m)>>
    BY <1>1, <1>2 DEF ManifestLast
  <2>2. Len(job.files) = 1 /\ job.files[1] = File(ManifestName, m)
    BY <2>1, ListOfOne
  <2>. QED
    BY <2>2, FileFields
<1>3. CASE job.family # "batch"
  <2>1. job.files = <<File(PartFile, m.part), File(ManifestName, m)>>
    BY <1>1, <1>3 DEF ManifestLast
  <2>2. /\ Len(job.files) = 2
        /\ job.files[1] = File(PartFile, m.part) /\ job.files[2] = File(ManifestName, m)
    BY <2>1, ListOfTwo
  <2>3. job.files[1].name = PartFile /\ job.files[2].name = ManifestName
    BY <2>2, FileFields
  <2>. QED
    BY <2>2, <2>3, NotTheManifest
<1>. QED
  BY <1>2, <1>3

LEMMA PartFirstFits ==
    ASSUME NEW m, m.set \in FeatureFamilies, m.id.of = "artifact"
    PROVE  ExclusiveJob(PublishedPartFirst(m)) /\ PublishedPartFirst(m).family = m.set
<1>1. /\ PublishedPartFirst(m).family = m.set /\ PublishedPartFirst(m).dir = m.id
      /\ PublishedPartFirst(m).files = <<File(PartFile, m.part), File(ManifestName, m)>>
  BY DEF PublishedPartFirst
<1>2. m.set # "batch"
  BY DEF FeatureFamilies, Derived
<1>3. PublishedPartFirst(m).files = ManifestLast(m.set, m)
  BY <1>1, <1>2 DEF ManifestLast
<1>. QED
  BY <1>1, <1>3 DEF ExclusiveJob, Exclusive, DirectoryKind

\* A field that the first record lacks is the second's.
LEMMA ExtendedFields ==
    ASSUME NEW f, NEW g
    PROVE  /\ DOMAIN Extended(f, g) = DOMAIN f \cup DOMAIN g
           /\ \A x \in DOMAIN f : Extended(f, g)[x] = f[x]
           /\ \A x \in DOMAIN g \ DOMAIN f : Extended(f, g)[x] = g[x]
BY DEF Extended

LEMMA EnvelopeFields ==
    ASSUME NEW set, NEW commit, NEW decision, NEW calendar, NEW available, NEW lineage
    PROVE  LET e == Envelope(set, commit, decision, calendar, available, lineage) IN
           /\ DOMAIN e = {"set", "commit", "decision", "calendar", "inputAvailable", "available",
                          "manifests", "parts", "mapping"}
           /\ e.set = set
BY DEF Envelope

\* The identity and the feature set of the manifests of FeatureSets.
LEMMA BasicIdentity ==
    ASSUME NEW e, NEW subject, NEW features,
           DOMAIN e = {"set", "commit", "decision", "calendar", "inputAvailable", "available",
                       "manifests", "parts", "mapping"}
    PROVE  /\ BasicManifest(e, subject, features).set = e.set
           /\ BasicManifest(e, subject, features).id.of = "artifact"
           /\ BasicManifest(e, subject, features).id = ArtifactId(e.set, subject, InputFingerprint(e))
<1> DEFINE fingerprint == InputFingerprint(e)
           id == ArtifactId(e.set, subject, fingerprint)
           head == [id |-> id, fingerprint |-> fingerprint]
           m == Extended(head, e)
           top == [names |-> DOMAIN features, part |-> Row(m, subject, features)]
<1>1. BasicManifest(e, subject, features) = Extended(top, m)
  BY Zenon DEF BasicManifest
<1>2. DOMAIN head = {"id", "fingerprint"} /\ head.id = id
  OBVIOUS
<1>3. DOMAIN top = {"names", "part"}
  OBVIOUS
<1>4. id.of = "artifact"
  BY DEF ArtifactId
<1>. HIDE DEF fingerprint, id, head, top
<1>5. /\ DOMAIN m = DOMAIN head \cup DOMAIN e
      /\ \A x \in DOMAIN head : m[x] = head[x]
      /\ \A x \in DOMAIN e \ DOMAIN head : m[x] = e[x]
  BY ExtendedFields
<1>. HIDE DEF m
<1>6. \A x \in DOMAIN m \ DOMAIN top : Extended(top, m)[x] = m[x]
  BY ExtendedFields
<1>7. m.id = id /\ m.set = e.set /\ "id" \in DOMAIN m /\ "set" \in DOMAIN m
  BY <1>2, <1>5
<1>8. Extended(top, m).id = m.id /\ Extended(top, m).set = m.set
  BY <1>3, <1>6, <1>7
<1>. QED
  BY <1>1, <1>4, <1>7, <1>8 DEF id, fingerprint

LEMMA DerivedIdentity ==
    ASSUME NEW e, NEW subject, NEW features,
           DOMAIN e = {"set", "commit", "decision", "calendar", "inputAvailable", "available",
                       "manifests", "parts", "mapping"}
    PROVE  /\ DerivedManifest(e, subject, features).set = e.set
           /\ DerivedManifest(e, subject, features).id.of = "artifact"
           /\ DerivedManifest(e, subject, features).id = DerivedArtifactId(subject, InputFingerprint(e))
<1> DEFINE fingerprint == InputFingerprint(e)
           id == DerivedArtifactId(subject, fingerprint)
           head == [id |-> id, fingerprint |-> fingerprint]
           m == Extended(head, e)
           part == Extended([identity |-> subject, mapping |-> m.mapping], Row(m, subject, features))
           top == [names |-> DOMAIN features, identity |-> subject, part |-> part]
<1>1. DerivedManifest(e, subject, features) = Extended(top, m)
  BY Zenon DEF DerivedManifest
<1>2. DOMAIN head = {"id", "fingerprint"} /\ head.id = id
  OBVIOUS
<1>3. DOMAIN top = {"names", "identity", "part"}
  OBVIOUS
<1>4. id.of = "artifact"
  BY DEF DerivedArtifactId
<1>. HIDE DEF fingerprint, id, head, top, part
<1>5. /\ DOMAIN m = DOMAIN head \cup DOMAIN e
      /\ \A x \in DOMAIN head : m[x] = head[x]
      /\ \A x \in DOMAIN e \ DOMAIN head : m[x] = e[x]
  BY ExtendedFields
<1>. HIDE DEF m
<1>6. \A x \in DOMAIN m \ DOMAIN top : Extended(top, m)[x] = m[x]
  BY ExtendedFields
<1>7. m.id = id /\ m.set = e.set /\ "id" \in DOMAIN m /\ "set" \in DOMAIN m
  BY <1>2, <1>5
<1>8. Extended(top, m).id = m.id /\ Extended(top, m).set = m.set
  BY <1>3, <1>6, <1>7
<1>. QED
  BY <1>1, <1>4, <1>7, <1>8 DEF id, fingerprint

LEMMA FeatureJobFits ==
    ASSUME NEW e, NEW subject, NEW features, e.set \in FeatureFamilies,
           DOMAIN e = {"set", "commit", "decision", "calendar", "inputAvailable", "available",
                       "manifests", "parts", "mapping"}
    PROVE  ExclusiveJob(FeatureJob(e, subject, features)) /\ FeatureJob(e, subject, features).family = e.set
<1>1. \/ FeatureJob(e, subject, features) = PublishedPartFirst(BasicManifest(e, subject, features))
      \/ FeatureJob(e, subject, features) = PublishedPartFirst(DerivedManifest(e, subject, features))
  BY DEF FeatureJob, BasicJob, MomentumJob, DerivedJob, FeatureFamilies, Derived
<1>2. ASSUME NEW m, m.set = e.set, m.id.of = "artifact",
             FeatureJob(e, subject, features) = PublishedPartFirst(m)
      PROVE  ExclusiveJob(FeatureJob(e, subject, features))
             /\ FeatureJob(e, subject, features).family = e.set
  BY <1>2, PartFirstFits
<1>3. BasicManifest(e, subject, features).set = e.set
      /\ BasicManifest(e, subject, features).id.of = "artifact"
  BY BasicIdentity
<1>4. DerivedManifest(e, subject, features).set = e.set
      /\ DerivedManifest(e, subject, features).id.of = "artifact"
  BY DerivedIdentity
<1>. QED
  BY <1>1, <1>2, <1>3, <1>4

LEMMA BatchJobFits ==
    ASSUME NEW request, NEW accepted, NEW rejected
    PROVE  ExclusiveJob(BatchJob(request, accepted, rejected))
           /\ BatchJob(request, accepted, rejected).family = "batch"
<1> DEFINE id == BatchId(request, accepted)
           content == [id |-> id, commit |-> request.commit,
                       requested |-> Cardinality(request.schedule \X request.securities),
                       accepted |-> accepted, rejected |-> rejected]
           job == BatchJob(request, accepted, rejected)
<1>1. job = [family |-> "batch", dir |-> id, files |-> <<File(ManifestName, content)>>]
  BY Zenon DEF BatchJob
<1>2. id.of = "batch"
  BY DEF BatchId
<1>. HIDE DEF id, content, job
<1>3. job.family = "batch" /\ job.dir = id /\ job.files = <<File(ManifestName, content)>>
  BY <1>1
<1>4. job.files = ManifestLast(job.family, content)
  BY <1>3 DEF ManifestLast
<1>5. DirectoryKind("batch") = "batch"
  BY DEF DirectoryKind, FeatureFamilies, Derived
<1>6. ExclusiveJob(job) /\ job.family = "batch"
  BY <1>2, <1>3, <1>4, <1>5 DEF ExclusiveJob, Exclusive
<1>. QED
  BY <1>6 DEF job

LEMMA AdjustedJobFits ==
    ASSUME NEW decision, NEW rows
    PROVE  ExclusiveJob(AdjustedJob(decision, rows)) /\ AdjustedJob(decision, rows).family = "adjusted"
<1> DEFINE selected == SelectActions(KnownActions(decision).rows, decision).rows
           id == [of |-> "adjusted", decision |-> decision,
                  raw |-> PartNames(manifests["prices"].parts), actions |-> {r.id : r \in selected}]
           part == [kind |-> "part", id |-> id, rows |-> rows]
           manifest == [kind |-> "adjusted", id |-> id, part |-> part]
           job == AdjustedJob(decision, rows)
<1>1. job = [family |-> "adjusted", dir |-> id,
             files |-> <<File(PartFile, part), File(ManifestName, manifest)>>]
  BY Zenon DEF AdjustedJob
<1>2. id.of = "adjusted" /\ manifest.part = part
  OBVIOUS
<1>. HIDE DEF id, part, manifest, job
<1>3. /\ job.family = "adjusted" /\ job.dir = id
      /\ job.files = <<File(PartFile, part), File(ManifestName, manifest)>>
  BY <1>1
<1>4. job.files = ManifestLast(job.family, manifest)
  BY <1>2, <1>3 DEF ManifestLast
<1>5. DirectoryKind("adjusted") = "adjusted"
  BY DEF DirectoryKind, FeatureFamilies, Derived
<1>6. ExclusiveJob(job) /\ job.family = "adjusted"
  BY <1>2, <1>3, <1>4, <1>5 DEF ExclusiveJob, Exclusive
<1>. QED
  BY <1>6 DEF job

LEMMA JoinedTwo == ASSUME NEW a, NEW c PROVE <<a>> \o <<>> \o <<c>> = <<a, c>>
<1> DEFINE any == {a, c}
<1>1. <<a>> \in Seq(any) /\ <<c>> \in Seq(any) /\ <<>> \in Seq(any) /\ <<a, c>> \in Seq(any)
  OBVIOUS
<1>. HIDE DEF any
<1>2. <<a>> \o <<>> = <<a>>
  BY <1>1, ConcatEmptySeq
<1>3. \A i \in 1..2 : (<<a>> \o <<c>>)[i] = <<a, c>>[i]
  BY <1>1, ListOfOne, ListOfTwo, ConcatProperties
<1>4. Len(<<a>> \o <<c>>) = 2 /\ <<a>> \o <<c>> \in Seq(any)
  BY <1>1, ListOfOne, ConcatProperties
<1>5. <<a>> \o <<c>> = <<a, c>>
  BY <1>1, <1>3, <1>4, ListOfTwo, SeqEqual
<1>. QED
  BY <1>2, <1>5

LEMMA JoinedThree == ASSUME NEW a, NEW b, NEW c PROVE <<a>> \o <<b>> \o <<c>> = <<a, b, c>>
<1> DEFINE any == {a, b, c}
<1>1. <<a>> \in Seq(any) /\ <<b>> \in Seq(any) /\ <<c>> \in Seq(any) /\ <<a, b, c>> \in Seq(any)
      /\ <<a, b>> \in Seq(any)
  OBVIOUS
<1>2. <<a>> \o <<b>> = <<a, b>>
  BY JoinedTwo, <1>1, ConcatEmptySeq
<1>. HIDE DEF any
<1>3. \A i \in 1..3 : (<<a, b>> \o <<c>>)[i] = <<a, b, c>>[i]
  BY <1>1, ListOfOne, ListOfTwo, ListOfThree, ConcatProperties
<1>4. Len(<<a, b>> \o <<c>>) = 3 /\ <<a, b>> \o <<c>> \in Seq(any)
  BY <1>1, ListOfOne, ListOfTwo, ConcatProperties
<1>5. <<a, b>> \o <<c>> = <<a, b, c>>
  BY <1>1, <1>3, <1>4, ListOfThree, SeqEqual
<1>. QED
  BY <1>2, <1>5

\* The files of the other jobs.
LEMMA DocumentShape ==
    ASSUME NEW r
    PROVE  LET job == DocumentJob(r)
               raw == File(<<"raw", r.raw>>, r.raw)
               text == File(<<"text", r.raw>>, r.raw)
               m == [kind |-> "document", raw |-> r.raw, retrieved |-> r.retrieved,
                     readable |-> r.readable]
           IN  /\ job.family = "document" /\ job.dir = [of |-> "document", id |-> r.document]
               /\ job.files = IF r.readable THEN <<raw, text, File(ManifestName, m)>>
                              ELSE <<raw, File(ManifestName, m)>>
               /\ Len(job.files) \in {2, 3}
<1> DEFINE raw == File(<<"raw", r.raw>>, r.raw)
           text == File(<<"text", r.raw>>, r.raw)
           m == [kind |-> "document", raw |-> r.raw, retrieved |-> r.retrieved,
                 readable |-> r.readable]
           last == File(ManifestName, m)
           job == DocumentJob(r)
<1>1. job = [family |-> "document", dir |-> [of |-> "document", id |-> r.document],
             files |-> <<raw>> \o (IF r.readable THEN <<text>> ELSE <<>>) \o <<last>>]
  BY Zenon DEF DocumentJob, ExtractText
<1>. HIDE DEF raw, text, m, last, job
<1>4. /\ job.family = "document" /\ job.dir = [of |-> "document", id |-> r.document]
      /\ job.files = <<raw>> \o (IF r.readable THEN <<text>> ELSE <<>>) \o <<last>>
  BY <1>1
<1>5. job.files = IF r.readable THEN <<raw, text, last>> ELSE <<raw, last>>
  BY <1>4, JoinedThree, JoinedTwo
<1>6. Len(job.files) \in {2, 3}
  BY <1>5, ListOfTwo, ListOfThree
<1>. QED
  BY <1>4, <1>5, <1>6, Zenon DEF raw, text, m, last, job

LEMMA ResultShape ==
    ASSUME NEW r
    PROVE  LET job == ResultJob(r) IN
           /\ job.family = "result" /\ job.dir = [of |-> "result", id |-> r.run]
           /\ Len(job.files) = Len(ResultFiles) + 1
           /\ \A i \in 1..Len(ResultFiles) : job.files[i] = File(<<ResultFiles[i]>>, r.run)
           /\ job.files[Len(job.files)] = File(ManifestName, [kind |-> "result", run |-> r.run])
<1> DEFINE last == File(ManifestName, [kind |-> "result", run |-> r.run])
           documents == [i \in 1..Len(ResultFiles) |-> File(<<ResultFiles[i]>>, r.run)]
           any == {documents[i] : i \in 1..Len(ResultFiles)} \cup {last}
           job == ResultJob(r)
<1>1. job = [family |-> "result", dir |-> [of |-> "result", id |-> r.run],
             files |-> documents \o <<last>>]
  BY Zenon DEF ResultJob
<1>2. Len(ResultFiles) \in Nat
  BY ResultFilesAssumption
<1>3. documents \in Seq(any) /\ Len(documents) = Len(ResultFiles) /\ last \in any
  BY <1>2
<1>4. \A i \in 1..Len(ResultFiles) : documents[i] = File(<<ResultFiles[i]>>, r.run)
  OBVIOUS
<1>. HIDE DEF last, documents, any, job
<1>5. /\ Len(documents \o <<last>>) = Len(ResultFiles) + 1
      /\ \A i \in 1..Len(ResultFiles) : (documents \o <<last>>)[i] = documents[i]
      /\ (documents \o <<last>>)[Len(ResultFiles) + 1] = last
  BY <1>2, <1>3
<1>6. /\ job.family = "result" /\ job.dir = [of |-> "result", id |-> r.run]
      /\ job.files = documents \o <<last>>
  BY <1>1
<1>. QED
  BY <1>4, <1>5, <1>6 DEF job, last

LEMMA SpecShape ==
    ASSUME NEW r
    PROVE  LET job == SpecJob(r) IN
           /\ job.family = "spec" /\ job.dir = [of |-> "spec", id |-> r.experiment]
           /\ job.files = <<File(ManifestName, [kind |-> "spec", experiment |-> r.experiment])>>
BY DEF SpecJob

LEMMA SharedShape ==
    ASSUME NEW job, SharedJob(job)
    PROVE  /\ job.family \in {"document", "result", "spec"}
           /\ job.dir.of = job.family
           /\ Len(job.files) \in Nat /\ Len(job.files) # 0
<1>1. ASSUME NEW r, job = DocumentJob(r) PROVE job.family = "document" /\ job.dir.of = "document"
                                             /\ Len(job.files) \in {2, 3}
  <2>1. job.family = "document" /\ job.dir = [of |-> "document", id |-> r.document]
    BY <1>1, DocumentShape, Zenon
  <2>2. Len(job.files) \in {2, 3}
    BY <1>1, DocumentShape, Zenon
  <2>. QED
    BY <2>1, <2>2
<1>2. ASSUME NEW r, job = ResultJob(r) PROVE job.family = "result" /\ job.dir.of = "result"
                                           /\ Len(job.files) = Len(ResultFiles) + 1
  <2>1. /\ job.family = "result" /\ job.dir = [of |-> "result", id |-> r.run]
        /\ Len(job.files) = Len(ResultFiles) + 1
    BY <1>2, ResultShape, Zenon
  <2>. QED
    BY <2>1
<1>3. ASSUME NEW r, job = SpecJob(r) PROVE job.family = "spec" /\ job.dir.of = "spec"
                                         /\ Len(job.files) = 1
  <2>1. job.family = "spec" /\ job.dir = [of |-> "spec", id |-> r.experiment]
    BY <1>3, SpecShape, Zenon
  <2>2. \E a : job.files = <<a>>
    BY <1>3, SpecShape, Zenon
  <2>3. Len(job.files) = 1
    BY <2>2, ListOfOne
  <2>. QED
    BY <2>1, <2>3
<1>4. Len(ResultFiles) \in Nat
  BY ResultFilesAssumption
<1>5. \/ \E r : job = DocumentJob(r)
      \/ \E r : job = ResultJob(r)
      \/ \E r : job = SpecJob(r)
  BY DEF SharedJob
<1>6. job.family \in {"document", "result", "spec"} /\ job.dir.of = job.family
  BY <1>1, <1>2, <1>3, <1>5
<1>7. Len(job.files) \in {1, 2, 3} \/ Len(job.files) = Len(ResultFiles) + 1
  BY <1>1, <1>2, <1>3, <1>5
<1>8. Len(job.files) \in Nat /\ Len(job.files) # 0
  <2> DEFINE n == Len(job.files)
             k == Len(ResultFiles)
  <2>1. k \in Nat /\ (n \in {1, 2, 3} \/ n = k + 1)
    BY <1>4, <1>7
  <2>. HIDE DEF n, k
  <2>2. n \in Nat /\ n # 0
    BY <2>1
  <2>. QED
    BY <2>2 DEF n
<1>. QED
  BY <1>6, <1>8

LEMMA JobShape ==
    ASSUME NEW job, JobFits(job)
    PROVE  /\ Len(job.files) \in Nat /\ Len(job.files) # 0
           /\ job.family \in Exclusive \cup {"document", "result", "spec"}
           /\ job.dir.of = DirectoryKind(job.family)
           /\ job.family \in Exclusive => ExclusiveJob(job)
           /\ job.family \notin Exclusive => SharedJob(job)
BY ExclusiveShape, SharedShape
   DEF JobFits, ExclusiveJob, Exclusive, DirectoryKind, FeatureFamilies, Derived
Fields == {"phase", "request", "parts", "todo", "accepted", "rejected", "job", "at"}

\* What a publisher is about to do fits its job.
Fits(s) ==
    /\ DOMAIN s = Fields
    /\ s.at \in Nat
    /\ s.phase \notin {"idle", "partition", "failed"} => JobFits(s.job)
    /\ s.phase \in {"directory", "write", "fill", "stage", "link", "unlink", "unlink and fail"}
          => s.at \in 1..Len(s.job.files)
    /\ s.phase = "directory" => s.job.family \in Exclusive
    /\ s.phase = "fill" => s.job.family \in Exclusive \cup {"spec"}
    /\ s.phase \in {"stage", "link", "unlink", "unlink and fail"} => s.job.family \notin Exclusive
    /\ s.phase \in {"link", "unlink", "unlink and fail"} => s.job.family # "spec"
    /\ s.phase = "partition" \/ s.todo # {} \/ s.job.family \in FeatureFamilies
          => s.request.set \in FeatureFamilies

LEMMA RestingFields ==
    /\ DOMAIN Resting = Fields
    /\ Resting.phase = "idle" /\ Resting.at = 0 /\ Resting.todo = {} /\ Resting.job.family = "none"
BY DEF Resting, Fields, NoJob

LEMMA RestingFits == Fits(Resting)
BY RestingFields DEF Fits, Exclusive, FeatureFamilies, Derived

\* A step that only moves on with the same job.
LEMMA MovedFits ==
    ASSUME NEW s, NEW t, Fits(s), DOMAIN t = Fields, JobFits(s.job), t.at \in Nat,
           \A f \in Fields \ {"phase", "at"} : t[f] = s[f],
           \/ t.phase \in {"published", "failed"}
           \/ t.phase = "directory" /\ t.at \in 1..Len(s.job.files) /\ s.job.family \in Exclusive
           \/ t.phase = "write" /\ t.at \in 1..Len(s.job.files)
           \/ t.phase = "fill" /\ t.at \in 1..Len(s.job.files) /\ s.job.family \in Exclusive \cup {"spec"}
           \/ t.phase = "stage" /\ t.at \in 1..Len(s.job.files) /\ s.job.family \notin Exclusive
           \/ /\ t.phase \in {"link", "unlink", "unlink and fail"} /\ t.at \in 1..Len(s.job.files)
              /\ s.job.family \notin Exclusive \cup {"spec"}
    PROVE  Fits(t)
<1>1. t.job = s.job /\ t.todo = s.todo /\ t.request = s.request
  BY DEF Fields
<1>2. t.phase # "partition"
  OBVIOUS
<1>3. s.todo # {} \/ s.job.family \in FeatureFamilies => s.request.set \in FeatureFamilies
  BY DEF Fits
<1>. QED
  BY <1>1, <1>2, <1>3 DEF Fits

-----------------------------------------------------------------------------
(***************************************************************************)
(* The disk and those who write there.  A publisher of an exclusive family *)
(* that is writing is alone in its directory, and has not yet published.   *)
(***************************************************************************)
WholeIn(a, d) == <<d, ManifestName>> \in DOMAIN a.files /\ a.files[<<d, ManifestName>>] # Torn
RegisteredIn(a) == {d \in a.dirs : d.of # "spec" /\ WholeIn(a, d)}
RegistryIn(a) == [d \in RegisteredIn(a) |-> a.files[<<d, ManifestName>>]]

LEMMA RegistryIsIn == Registry = RegistryIn(disk)
BY DEF Registry, RegistryIn, RegisteredIn, WholeIn, HasWholeManifest, Whole, Present, ManifestAt

ExclusivelyWriting(s) == s.phase \in {"write", "fill"} /\ s.job.family \in Exclusive
Holds(s) == ExclusivelyWriting(s) \/ s.phase \in {"fill", "stage", "link"}

DiskInv(a, b) ==
    /\ DOMAIN a = {"dirs", "files", "temps"}
    /\ \A path \in DOMAIN a.files : path[1] \in a.dirs
    /\ \A p \in Publishers : Holds(b[p]) => b[p].job.dir \in a.dirs
    /\ \A p \in Publishers : ExclusivelyWriting(b[p]) => ~WholeIn(a, b[p].job.dir)
    /\ \A p, q \in Publishers :
          ExclusivelyWriting(b[p]) /\ ExclusivelyWriting(b[q]) /\ p # q => b[p].job.dir # b[q].job.dir

PubInv ==
    /\ DOMAIN pub = Publishers
    /\ \A p \in Publishers : Fits(pub[p])
    /\ DiskInv(disk, pub)

\* What a step does to the registry: nothing, or one directory more.
Gains(a, b, dir) ==
    /\ RegisteredIn(a) \subseteq RegisteredIn(b)
    /\ RegisteredIn(b) \subseteq RegisteredIn(a) \cup {dir}
    /\ \A d \in RegisteredIn(a) : b.files[<<d, ManifestName>>] = a.files[<<d, ManifestName>>]

OneMore(f, g, dir) ==
    /\ dir \in DOMAIN g /\ dir \notin DOMAIN f
    /\ g = [i \in DOMAIN f \cup {dir} |-> IF i = dir THEN g[dir] ELSE f[i]]

LEMMA GainsIsPublish ==
    \A a, b, dir : Gains(a, b, dir) => \/ RegistryIn(b) = RegistryIn(a)
                                      \/ OneMore(RegistryIn(a), RegistryIn(b), dir)
BY DEF Gains, RegistryIn, OneMore

\* The steps that do not touch directories and files.
LEMMA QuietStep ==
    ASSUME PubInv, NEW p \in Publishers, NEW t, pub' = [pub EXCEPT ![p] = t],
           DOMAIN disk' = DOMAIN disk, disk'.dirs = disk.dirs, disk'.files = disk.files,
           Fits(t), ~ExclusivelyWriting(t), Holds(t) => t.job.dir \in disk.dirs
    PROVE  PubInv' /\ Gains(disk, disk', p)
<1>1. DOMAIN pub' = Publishers /\ pub'[p] = t /\ \A q \in Publishers \ {p} : pub'[q] = pub[q]
  BY DEF PubInv
<1>2. \A d : WholeIn(disk', d) = WholeIn(disk, d)
  BY DEF WholeIn
<1>3. RegisteredIn(disk') = RegisteredIn(disk)
  BY <1>2 DEF RegisteredIn
<1>4. DiskInv(disk', pub')
  BY <1>1, <1>2 DEF PubInv, DiskInv
<1>. QED
  BY <1>1, <1>3, <1>4 DEF PubInv, Gains
-----------------------------------------------------------------------------
(***************************************************************************)
(* Commands and partitions: the disk is left alone.                        *)
(***************************************************************************)
LEMMA QuietDisk ==
    ASSUME PubInv, NEW p \in Publishers, NEW t, pub' = [pub EXCEPT ![p] = t], UNCHANGED disk,
           Fits(t), t.phase \in {"idle", "partition", "open", "directory", "published", "failed"}
    PROVE  PubInv' /\ Gains(disk, disk', p)
BY QuietStep DEF ExclusivelyWriting, Holds

LEMMA StartBatchKeeps ==
    ASSUME PubInv, NEW p \in Publishers, NEW request \in Asked, StartBatch(p, request)
    PROVE  PubInv' /\ Gains(disk, disk', p)
<1> DEFINE t == [Resting EXCEPT !.phase = "partition", !.request = request, !.parts = view.parts,
                                !.todo = request.schedule \X request.securities]
<1>1. pub' = [pub EXCEPT ![p] = t] /\ UNCHANGED disk /\ request.kind = "batch"
  BY DEF StartBatch, Become
<1>2. request.set \in FeatureFamilies
  BY <1>1, RequestsAssumption DEF Asked
<1>3. /\ DOMAIN t = Fields /\ t.phase = "partition" /\ t.request = request
      /\ t.job = Resting.job /\ t.at = Resting.at
  BY RestingFields DEF Fields
<1>. HIDE DEF t
<1>4. Fits(t)
  BY <1>2, <1>3, RestingFields DEF Fits
<1>. QED
  BY <1>1, <1>3, <1>4, QuietDisk

LEMMA StartJobKeeps ==
    ASSUME PubInv, NEW p \in Publishers, NEW request, NEW job, StartJob(p, request, job),
           JobFits(job), job.family \notin FeatureFamilies
    PROVE  PubInv' /\ Gains(disk, disk', p)
<1> DEFINE t == [Resting EXCEPT !.phase = "open", !.request = request, !.job = job]
<1>1. pub' = [pub EXCEPT ![p] = t] /\ UNCHANGED disk
  BY DEF StartJob, Become
<1>2. /\ DOMAIN t = Fields /\ t.phase = "open" /\ t.job = job
      /\ t.todo = Resting.todo /\ t.at = Resting.at
  BY RestingFields DEF Fields
<1>. HIDE DEF t
<1>3. Fits(t)
  BY <1>2, RestingFields DEF Fits
<1>. QED
  BY <1>1, <1>2, <1>3, QuietDisk

LEMMA StartKeeps ==
    ASSUME PubInv, NEW p \in Publishers, NEW request \in Asked,
           \/ StartBatch(p, request) \/ StartDocument(p, request) \/ StartResult(p, request)
           \/ StartSpec(p, request) \/ StartAdjusted(p, request)
    PROVE  PubInv' /\ Gains(disk, disk', p)
<1>1. CASE StartBatch(p, request)
  BY <1>1, StartBatchKeeps
<1>2. ASSUME NEW job, SharedJob(job), StartJob(p, request, job)
      PROVE  PubInv' /\ Gains(disk, disk', p)
  <2>1. JobFits(job) /\ job.family \notin FeatureFamilies
    BY <1>2, SharedShape DEF JobFits, FeatureFamilies, Derived
  <2>. QED
    BY <1>2, <2>1, StartJobKeeps
<1>3. CASE StartDocument(p, request)
  BY <1>2, <1>3 DEF StartDocument, SharedJob
<1>4. CASE StartResult(p, request)
  BY <1>2, <1>4 DEF StartResult, SharedJob
<1>5. CASE StartSpec(p, request)
  BY <1>2, <1>5 DEF StartSpec, SharedJob
<1>6. CASE StartAdjusted(p, request)
  <2>1. PICK rows : StartJob(p, request, AdjustedJob(request.decision, rows))
    BY <1>6 DEF StartAdjusted
  <2> DEFINE job == AdjustedJob(request.decision, rows)
  <2>2. ExclusiveJob(job) /\ job.family = "adjusted"
    BY AdjustedJobFits
  <2>. HIDE DEF job
  <2>3. JobFits(job) /\ job.family \notin FeatureFamilies
    BY <2>2 DEF JobFits, FeatureFamilies, Derived
  <2>4. StartJob(p, request, job)
    BY <2>1 DEF job
  <2>. QED
    BY <2>3, <2>4, StartJobKeeps
<1>. QED
  BY <1>1, <1>3, <1>4, <1>5, <1>6

\* A partition that is left is followed by the next one.
LEMMA RejectKeeps ==
    ASSUME PubInv, NEW p \in Publishers, NEW d, NEW reason, Reject(p, d, reason),
           pub[p].request.set \in FeatureFamilies
    PROVE  \E t : /\ pub' = [pub EXCEPT ![p] = t] /\ Fits(t) /\ t.phase = "partition"
<1> DEFINE s == pub[p]
           t == [s EXCEPT !.phase = "partition", !.job = NoJob, !.at = 0, !.todo = @ \ {d},
                          !.rejected = @ \cup {Rejection(d, reason)}]
<1>1. pub' = [pub EXCEPT ![p] = t]
  BY DEF Reject, Become
<1>2. Fits(s)
  BY DEF PubInv
<1>3. DOMAIN t = Fields /\ t.phase = "partition" /\ t.at = 0 /\ t.request = s.request
  BY <1>2 DEF Fits, Fields
<1>. HIDE DEF t
<1>4. Fits(t)
  BY <1>3 DEF Fits
<1>. QED
  BY <1>1, <1>3, <1>4

LEMMA SkipKeeps ==
    ASSUME PubInv, NEW p \in Publishers, SkipPartition(p)
    PROVE  PubInv' /\ Gains(disk, disk', p)
<1>1. pub[p].request.set \in FeatureFamilies
  BY DEF PubInv, Fits, SkipPartition
<1>2. PICK d, reason : Reject(p, d, reason)
  BY DEF SkipPartition
<1>3. UNCHANGED disk
  BY DEF SkipPartition
<1>. QED
  BY <1>1, <1>2, <1>3, RejectKeeps, QuietDisk

\* A publisher that has found its job opens the directory.
LEMMA OpeningFits ==
    ASSUME NEW s, NEW job, Fits(s), s.phase = "partition", JobFits(job)
    PROVE  LET t == [s EXCEPT !.phase = "open", !.job = job] IN Fits(t) /\ t.phase = "open"
<1> DEFINE t == [s EXCEPT !.phase = "open", !.job = job]
<1>1. DOMAIN t = Fields /\ t.phase = "open" /\ t.at = s.at /\ t.request = s.request /\ t.job = job
  BY DEF Fits, Fields
<1>. HIDE DEF t
<1>2. Fits(t)
  BY <1>1 DEF Fits
<1>. QED
  BY <1>1, <1>2 DEF t

LEMMA SelectKeeps ==
    ASSUME PubInv, NEW p \in Publishers, SelectPartition(p)
    PROVE  PubInv' /\ Gains(disk, disk', p)
<1> DEFINE request == pub[p].request
           d == NextPartition(pub[p].todo)
           subject == Subject(request, d[2])
           selected == Selected(request.set, RowsOf(pub[p].parts), subject, d[1])
           features == Features(request.set, selected)
           lineage == SelectedLineage(selected, pub[p].parts, manifests)
           available == InputAvailable(selected, request.calendar)
           envelope == Envelope(request.set, request.commit, d[1], request.calendar, available, lineage)
           job == FeatureJob(envelope, subject, TheOnly(features.rows))
<1>1. Fits(pub[p]) /\ pub[p].phase = "partition" /\ UNCHANGED disk
  BY DEF PubInv, SelectPartition
<1>2. request.set \in FeatureFamilies
  BY <1>1 DEF Fits
<1>3. \/ Reject(p, d, "inputs refused")
      \/ Become(p, [pub[p] EXCEPT !.phase = "open", !.job = job])
  BY Zenon DEF SelectPartition
<1>. HIDE DEF subject, selected, features, lineage, available
<1>4. /\ envelope.set = request.set
      /\ DOMAIN envelope = {"set", "commit", "decision", "calendar", "inputAvailable", "available",
                            "manifests", "parts", "mapping"}
  BY EnvelopeFields
<1>. HIDE DEF envelope
<1>5. JobFits(job)
  BY <1>2, <1>4, FeatureJobFits DEF JobFits
<1>. HIDE DEF job, d
<1>6. CASE Reject(p, d, "inputs refused")
  BY <1>1, <1>2, <1>6, RejectKeeps, QuietDisk
<1>7. CASE Become(p, [pub[p] EXCEPT !.phase = "open", !.job = job])
  BY <1>1, <1>5, <1>7, OpeningFits, QuietDisk DEF Become
<1>. QED
  BY <1>3, <1>6, <1>7

LEMMA InstallKeeps ==
    ASSUME PubInv, NEW p \in Publishers, InstallBatch(p)
    PROVE  PubInv' /\ Gains(disk, disk', p)
<1> DEFINE job == BatchJob(pub[p].request, pub[p].accepted, pub[p].rejected)
<1>1. Fits(pub[p]) /\ pub[p].phase = "partition" /\ UNCHANGED disk
  BY DEF PubInv, InstallBatch
<1>2. Become(p, [pub[p] EXCEPT !.phase = "open", !.job = job])
  BY DEF InstallBatch
<1>3. JobFits(job)
  BY BatchJobFits DEF JobFits
<1>. HIDE DEF job
<1>. QED
  BY <1>1, <1>2, <1>3, OpeningFits, QuietDisk DEF Become

LEMMA AcceptKeeps ==
    ASSUME PubInv, NEW p \in Publishers, AcceptChild(p)
    PROVE  PubInv' /\ Gains(disk, disk', p)
<1> DEFINE s == pub[p]
           dir == s.job.dir
           d == NextPartition(s.todo)
           a == [decision |-> d[1], security |-> d[2], id |-> dir, manifest |-> ManifestAt(dir)]
           accepted == [s EXCEPT !.phase = "partition", !.job = NoJob, !.at = 0, !.todo = @ \ {d},
                                 !.accepted = @ \cup {a}]
           failed == [s EXCEPT !.phase = "failed"]
<1>1. Fits(s) /\ s.todo # {} /\ s.phase = "published" /\ UNCHANGED disk
  BY DEF PubInv, AcceptChild
<1>2. pub' = [pub EXCEPT ![p] = accepted] \/ pub' = [pub EXCEPT ![p] = failed]
  BY Zenon DEF AcceptChild, Become, Accepted
<1>3. /\ DOMAIN accepted = Fields /\ accepted.phase = "partition" /\ accepted.at = 0
      /\ accepted.request = s.request
  BY <1>1 DEF Fits, Fields
<1>4. DOMAIN failed = Fields /\ failed.phase = "failed" /\ \A f \in Fields \ {"phase"} : failed[f] = s[f]
  BY <1>1 DEF Fits, Fields
<1>. HIDE DEF accepted, failed
<1>5. Fits(accepted)
  BY <1>1, <1>3 DEF Fits
<1>6. Fits(failed)
  BY <1>1, <1>4, MovedFits DEF Fits, Fields
<1>. QED
  BY <1>1, <1>2, <1>3, <1>4, <1>5, <1>6, QuietDisk

LEMMA LeaveKeeps ==
    ASSUME PubInv, NEW p \in Publishers, Return(p) \/ Crash(p)
    PROVE  PubInv' /\ Gains(disk, disk', p)
<1>1. pub' = [pub EXCEPT ![p] = Resting] /\ UNCHANGED disk
  BY DEF Return, Crash, Become
<1>. QED
  BY <1>1, RestingFits, RestingFields, QuietDisk

LEMMA OpenKeeps ==
    ASSUME PubInv, NEW p \in Publishers, Open(p)
    PROVE  PubInv' /\ Gains(disk, disk', p)
<1> DEFINE s == pub[p]
           job == s.job
           phase == IF job.family \in Exclusive THEN OpenExclusive(job)
                    ELSE IF job.family = "result" THEN OpenResult(job) ELSE "write"
           t == [s EXCEPT !.at = 1, !.phase = phase]
<1>1. Fits(s) /\ s.phase = "open" /\ UNCHANGED disk
  BY DEF PubInv, Open
<1>2. pub' = [pub EXCEPT ![p] = t]
  BY DEF Open, Become
<1>3. /\ job.family \in Exclusive => phase \in {"directory", "published", "failed"}
      /\ job.family \notin Exclusive => phase \in {"write", "failed"}
  BY DEF OpenExclusive, OpenResult
<1>. HIDE DEF phase
<1>4. DOMAIN t = Fields /\ t.at = 1 /\ t.phase = phase /\ \A f \in Fields \ {"phase", "at"} : t[f] = s[f]
  BY <1>1 DEF Fits, Fields
<1>. HIDE DEF t
<1>5. JobFits(job)
  BY <1>1 DEF Fits
<1>6. 1 \in 1..Len(job.files)
  BY <1>5, JobShape
<1>7. Fits(t)
  <2>1. t.at \in Nat /\ t.at \in 1..Len(s.job.files)
    BY <1>4, <1>6
  <2>2. \/ t.phase \in {"published", "failed"}
        \/ t.phase = "directory" /\ t.at \in 1..Len(s.job.files) /\ s.job.family \in Exclusive
        \/ t.phase = "write" /\ t.at \in 1..Len(s.job.files)
    BY <1>3, <1>4, <2>1
  <2>. QED
    BY <1>1, <1>4, <1>5, <2>1, <2>2, MovedFits
<1>8. t.job = job
  BY <1>4 DEF Fields
<1>9. ~ExclusivelyWriting(t) /\ ~Holds(t)
  BY <1>3, <1>4, <1>8 DEF ExclusivelyWriting, Holds
<1>. QED
  BY <1>1, <1>2, <1>7, <1>9, QuietStep
-----------------------------------------------------------------------------
(***************************************************************************)
(* Steps that write: what a publisher does in its directory disturbs only  *)
(* those who write there exclusively, and it meets none of them.           *)
(***************************************************************************)
Alone(p, dir) == \A q \in Publishers \ {p} : ExclusivelyWriting(pub[q]) => pub[q].job.dir # dir

LEMMA ExclusiveWriterIsAlone ==
    ASSUME PubInv, NEW p \in Publishers, ExclusivelyWriting(pub[p])
    PROVE  Alone(p, pub[p].job.dir) /\ ~WholeIn(disk, pub[p].job.dir)
BY DEF Alone, PubInv, DiskInv

LEMMA WriterFits ==
    ASSUME PubInv, NEW p \in Publishers, pub[p].phase \notin {"idle", "partition", "failed"}
    PROVE  /\ Fits(pub[p]) /\ JobFits(pub[p].job)
           /\ pub[p].job.family \in Exclusive => ExclusiveJob(pub[p].job)
           /\ pub[p].job.family \notin Exclusive => SharedJob(pub[p].job)
BY JobShape DEF PubInv, Fits

LEMMA ExclusiveKind ==
    ASSUME NEW job, ExclusiveJob(job) PROVE job.dir.of \in {"artifact", "batch", "adjusted"}
BY DEF ExclusiveJob, Exclusive, DirectoryKind

LEMMA SharedWriterIsAlone ==
    ASSUME PubInv, NEW p \in Publishers, SharedJob(pub[p].job)
    PROVE  Alone(p, pub[p].job.dir)
<1>1. pub[p].job.dir.of \in {"document", "result", "spec"}
  BY SharedShape
<1>2. ASSUME NEW q \in Publishers, ExclusivelyWriting(pub[q])
      PROVE  pub[q].job.dir.of \in {"artifact", "batch", "adjusted"}
  BY <1>2, WriterFits, ExclusiveKind DEF ExclusivelyWriting
<1>. QED
  BY <1>1, <1>2 DEF Alone

LEMMA WriteStep ==
    ASSUME PubInv, NEW p \in Publishers, NEW t, pub' = [pub EXCEPT ![p] = t], Fits(t),
           NEW x, t.job.dir = x, x \in disk'.dirs, Alone(p, x),
           DOMAIN disk' = DOMAIN disk,
           disk.dirs \subseteq disk'.dirs, disk'.dirs \subseteq disk.dirs \cup {x},
           \A path \in DOMAIN disk'.files : path \in DOMAIN disk.files \/ path[1] = x,
           \A d : d # x => /\ WholeIn(disk', d) <=> WholeIn(disk, d)
                           /\ WholeIn(disk, d) => disk'.files[<<d, ManifestName>>]
                                                    = disk.files[<<d, ManifestName>>],
           ExclusivelyWriting(t) => ~WholeIn(disk', x),
           x \in RegisteredIn(disk) => /\ WholeIn(disk', x)
                                       /\ disk'.files[<<x, ManifestName>>]
                                            = disk.files[<<x, ManifestName>>]
    PROVE  PubInv' /\ Gains(disk, disk', x)
<1>1. DOMAIN pub' = Publishers /\ pub'[p] = t /\ \A q \in Publishers \ {p} : pub'[q] = pub[q]
  BY DEF PubInv
<1>2. \A d \in RegisteredIn(disk) : d # x => d \in RegisteredIn(disk')
  BY DEF RegisteredIn
<1>3. \A d \in RegisteredIn(disk') : d # x => d \in RegisteredIn(disk)
  BY DEF RegisteredIn
<1>4. x \in RegisteredIn(disk) => x \in RegisteredIn(disk')
  BY DEF RegisteredIn
<1>5. Gains(disk, disk', x)
  BY <1>2, <1>3, <1>4 DEF Gains, RegisteredIn
<1>6. \A path \in DOMAIN disk'.files : path[1] \in disk'.dirs
  BY DEF PubInv, DiskInv
<1>7. \A q \in Publishers : Holds(pub'[q]) => pub'[q].job.dir \in disk'.dirs
  BY <1>1 DEF PubInv, DiskInv
<1>8. \A q \in Publishers : ExclusivelyWriting(pub'[q]) => ~WholeIn(disk', pub'[q].job.dir)
  BY <1>1 DEF PubInv, DiskInv, Alone
<1>9. \A q, r \in Publishers :
         ExclusivelyWriting(pub'[q]) /\ ExclusivelyWriting(pub'[r]) /\ q # r
            => pub'[q].job.dir # pub'[r].job.dir
  BY <1>1 DEF PubInv, DiskInv, Alone
<1>10. DiskInv(disk', pub')
  BY <1>6, <1>7, <1>8, <1>9 DEF PubInv, DiskInv
<1>. QED
  BY <1>1, <1>5, <1>10 DEF PubInv

LEMMA OnlyDirectories ==
    ASSUME PubInv, NEW x, disk' = [disk EXCEPT !.dirs = @ \cup {x}]
    PROVE  /\ DOMAIN disk' = DOMAIN disk
           /\ disk'.dirs = disk.dirs \cup {x} /\ disk'.files = disk.files /\ disk'.temps = disk.temps
           /\ \A d : WholeIn(disk', d) <=> WholeIn(disk, d)
<1>1. /\ DOMAIN disk' = DOMAIN disk
      /\ disk'.dirs = disk.dirs \cup {x} /\ disk'.files = disk.files /\ disk'.temps = disk.temps
  BY DEF PubInv, DiskInv
<1>. QED
  BY <1>1 DEF WholeIn

LEMMA OnlyFile ==
    ASSUME PubInv, NEW x, NEW n, NEW c, disk' = [disk EXCEPT !.files = Put(<<x, n>>, c)]
    PROVE  /\ DOMAIN disk' = DOMAIN disk
           /\ disk'.dirs = disk.dirs /\ disk'.temps = disk.temps
           /\ disk'.files = Put(<<x, n>>, c)
           /\ DOMAIN disk'.files = DOMAIN disk.files \cup {<<x, n>>}
           /\ disk'.files[<<x, n>>] = c
           /\ \A path \in DOMAIN disk.files : path # <<x, n>> => disk'.files[path] = disk.files[path]
           /\ \A d : d # x \/ n # ManifestName
                        => /\ WholeIn(disk', d) <=> WholeIn(disk, d)
                           /\ WholeIn(disk, d) => disk'.files[<<d, ManifestName>>]
                                                    = disk.files[<<d, ManifestName>>]
<1>1. /\ DOMAIN disk' = DOMAIN disk
      /\ disk'.dirs = disk.dirs /\ disk'.temps = disk.temps /\ disk'.files = Put(<<x, n>>, c)
  BY DEF PubInv, DiskInv
<1>2. /\ DOMAIN disk'.files = DOMAIN disk.files \cup {<<x, n>>}
      /\ disk'.files[<<x, n>>] = c
      /\ \A path \in DOMAIN disk.files : path # <<x, n>> => disk'.files[path] = disk.files[path]
  BY <1>1 DEF Put
<1>3. \A d : d # x \/ n # ManifestName => <<d, ManifestName>> # <<x, n>>
  BY TwoEqual
<1>. QED
  BY <1>1, <1>2, <1>3 DEF WholeIn

LEMMA MakeDirectoryKeeps ==
    ASSUME PubInv, NEW p \in Publishers, MakeDirectory(p)
    PROVE  PubInv' /\ \E x : Gains(disk, disk', x)
<1> DEFINE s == pub[p]
           x == s.job.dir
           t == [s EXCEPT !.phase = IF x \in disk.dirs THEN "failed" ELSE "write"]
<1>1. /\ s.phase = "directory" /\ pub' = [pub EXCEPT ![p] = t]
      /\ disk' = [disk EXCEPT !.dirs = @ \cup {x}]
  BY DEF MakeDirectory, Become
<1>2. Fits(s) /\ JobFits(s.job) /\ s.at \in Nat /\ s.at \in 1..Len(s.job.files)
  BY <1>1, WriterFits DEF Fits
<1>3. /\ DOMAIN t = Fields /\ \A f \in Fields \ {"phase"} : t[f] = s[f]
      /\ t.phase = IF x \in disk.dirs THEN "failed" ELSE "write"
  BY <1>2 DEF Fits, Fields
<1>. HIDE DEF t
<1>4. t.job = s.job /\ t.at = s.at
  BY <1>3 DEF Fields
<1>5. Fits(t)
  <2>1. \/ t.phase \in {"published", "failed"}
        \/ t.phase = "write" /\ t.at \in 1..Len(s.job.files)
    BY <1>2, <1>3, <1>4
  <2>2. t.at \in Nat /\ \A f \in Fields \ {"phase", "at"} : t[f] = s[f]
    BY <1>2, <1>3, <1>4
  <2>. QED
    BY <1>2, <1>3, <2>1, <2>2, MovedFits
<1>6. /\ DOMAIN disk' = DOMAIN disk
      /\ disk'.dirs = disk.dirs \cup {x} /\ disk'.files = disk.files
      /\ \A d : WholeIn(disk', d) <=> WholeIn(disk, d)
  BY <1>1, OnlyDirectories
<1>7. CASE x \in disk.dirs
  <2>1. ~ExclusivelyWriting(t) /\ ~Holds(t)
    BY <1>3, <1>7 DEF ExclusivelyWriting, Holds
  <2>2. disk'.dirs = disk.dirs
    BY <1>6, <1>7
  <2>. QED
    BY <1>1, <1>5, <1>6, <2>1, <2>2, QuietStep
<1>8. CASE x \notin disk.dirs
  <2>1. Alone(p, x)
    BY <1>8 DEF Alone, PubInv, DiskInv, Holds
  <2>2. <<x, ManifestName>>[1] = x
    OBVIOUS
  <2>3. ~WholeIn(disk, x)
    BY <1>8, <2>2 DEF WholeIn, PubInv, DiskInv
  <2>4. \A d : WholeIn(disk, d) => disk'.files[<<d, ManifestName>>] = disk.files[<<d, ManifestName>>]
    BY <1>6
  <2>5. x \notin RegisteredIn(disk)
    BY <1>8 DEF RegisteredIn
  <2>. HIDE DEF x
  <2>6. PubInv' /\ Gains(disk, disk', x)
    BY <1>1, <1>4, <1>5, <1>6, <2>1, <2>3, <2>4, <2>5, WriteStep DEF x
  <2>. QED
    BY <2>6
<1>. QED
  BY <1>7, <1>8

LEMMA NextPlace == ASSUME NEW n \in Nat, NEW k \in 1..n, k # n PROVE k + 1 \in Nat /\ k + 1 \in 1..n
OBVIOUS

\* After a file comes the next one, or the end.
LEMMA WrittenFits ==
    ASSUME PubInv, NEW p \in Publishers,
           pub[p].phase \in {"write", "fill", "stage", "link", "unlink", "unlink and fail"}
    PROVE  /\ Fits(Written(p)) /\ Written(p).job = pub[p].job
           /\ \/ pub[p].at = Len(pub[p].job.files) /\ Written(p).phase = "published"
              \/ /\ pub[p].at # Len(pub[p].job.files) /\ Written(p).phase = "write"
                 /\ Written(p).at = pub[p].at + 1
<1> DEFINE s == pub[p]
           n == Len(s.job.files)
           done == [s EXCEPT !.phase = "published"]
           more == [s EXCEPT !.phase = "write", !.at = @ + 1]
<1>1. Fits(s) /\ JobFits(s.job) /\ s.at \in Nat /\ s.at \in 1..n /\ DOMAIN s = Fields
  BY WriterFits DEF Fits
<1>2. n \in Nat
  BY <1>1, JobShape
<1>3. DOMAIN done = Fields /\ done.phase = "published" /\ \A f \in Fields \ {"phase"} : done[f] = s[f]
  BY <1>1 DEF Fields
<1>4. /\ DOMAIN more = Fields /\ more.phase = "write" /\ more.at = s.at + 1
      /\ \A f \in Fields \ {"phase", "at"} : more[f] = s[f]
  BY <1>1 DEF Fields
<1>5. Written(p) = IF s.at = n THEN done ELSE more
  BY Zenon DEF Written
<1>. HIDE DEF done, more
<1>6. done.at = s.at /\ done.job = s.job /\ more.job = s.job
  BY <1>3, <1>4 DEF Fields
<1>7. Fits(done)
  BY <1>1, <1>3, <1>6, MovedFits
<1>8. s.at # n => more.at \in Nat /\ more.at \in 1..n
  <2>. HIDE DEF s, n
  <2>1. s.at # n => s.at + 1 \in Nat /\ s.at + 1 \in 1..n
    BY <1>1, <1>2, NextPlace
  <2>. QED
    BY <1>4, <2>1
<1>9. s.at # n => Fits(more)
  BY <1>1, <1>4, <1>8, MovedFits
<1>. QED
  BY <1>3, <1>4, <1>5, <1>6, <1>7, <1>9

LEMMA CreateKeeps ==
    ASSUME PubInv, NEW p \in Publishers, CreateFile(p)
    PROVE  PubInv' /\ \E x : Gains(disk, disk', x)
<1> DEFINE s == pub[p]
           x == s.job.dir
           n == s.job.files[s.at].name
           failed == [s EXCEPT !.phase = "failed"]
           t == [s EXCEPT !.phase = "fill"]
<1>1. s.phase = "write" /\ s.job.family \in Exclusive /\ ExclusivelyWriting(s) /\ Here(p) = <<x, n>>
  BY DEF CreateFile, ExclusivelyWriting, Here, Path
<1>2. \/ pub' = [pub EXCEPT ![p] = failed] /\ UNCHANGED disk
      \/ /\ ~Present(<<x, n>>) /\ pub' = [pub EXCEPT ![p] = t]
         /\ disk' = [disk EXCEPT !.files = Put(<<x, n>>, Torn)]
  BY <1>1, Zenon DEF CreateFile, Become
<1>3. Fits(s) /\ JobFits(s.job) /\ s.at \in Nat /\ s.at \in 1..Len(s.job.files) /\ DOMAIN s = Fields
  BY <1>1, WriterFits DEF Fits
<1>4. /\ DOMAIN failed = Fields /\ failed.phase = "failed"
      /\ \A f \in Fields \ {"phase"} : failed[f] = s[f]
  BY <1>3 DEF Fields
<1>5. DOMAIN t = Fields /\ t.phase = "fill" /\ \A f \in Fields \ {"phase"} : t[f] = s[f]
  BY <1>3 DEF Fields
<1>. HIDE DEF failed, t
<1>6. failed.at = s.at /\ t.at = s.at /\ t.job = s.job
  BY <1>4, <1>5 DEF Fields
<1>7. Fits(failed)
  BY <1>3, <1>4, <1>6, MovedFits
<1>8. Fits(t)
  BY <1>1, <1>3, <1>5, <1>6, MovedFits
<1>9. CASE pub' = [pub EXCEPT ![p] = failed] /\ UNCHANGED disk
  BY <1>4, <1>7, <1>9, QuietDisk
<1>10. CASE /\ ~Present(<<x, n>>) /\ pub' = [pub EXCEPT ![p] = t]
            /\ disk' = [disk EXCEPT !.files = Put(<<x, n>>, Torn)]
  <2>1. Alone(p, x) /\ ~WholeIn(disk, x) /\ x \in disk.dirs
    BY <1>1, ExclusiveWriterIsAlone DEF PubInv, DiskInv, Holds
  <2>2. x \notin RegisteredIn(disk)
    BY <2>1 DEF RegisteredIn
  <2>. HIDE DEF n, x
  <2>3. /\ DOMAIN disk' = DOMAIN disk /\ disk'.dirs = disk.dirs
        /\ DOMAIN disk'.files = DOMAIN disk.files \cup {<<x, n>>}
        /\ disk'.files[<<x, n>>] = Torn
        /\ \A d : d # x \/ n # ManifestName
                      => /\ WholeIn(disk', d) <=> WholeIn(disk, d)
                         /\ WholeIn(disk, d) => disk'.files[<<d, ManifestName>>]
                                                  = disk.files[<<d, ManifestName>>]
    BY <1>10, OnlyFile
  <2>4. ~WholeIn(disk', x)
    BY <2>1, <2>3 DEF WholeIn
  <2>5. <<x, n>>[1] = x
    OBVIOUS
  <2>6. t.job.dir = x
    BY <1>6 DEF x
  <2>7. PubInv' /\ Gains(disk, disk', x)
    BY <1>8, <1>10, <2>1, <2>2, <2>3, <2>4, <2>5, <2>6, WriteStep
  <2>. QED
    BY <2>7
<1>. QED
  BY <1>2, <1>9, <1>10

LEMMA FillKeeps ==
    ASSUME PubInv, NEW p \in Publishers, FillFile(p)
    PROVE  PubInv' /\ \E x : Gains(disk, disk', x)
<1> DEFINE s == pub[p]
           x == s.job.dir
           n == s.job.files[s.at].name
           c == s.job.files[s.at].content
           t == Written(p)
<1>1. s.phase = "fill" /\ Here(p) = <<x, n>> /\ Mine(p) = c
  BY DEF FillFile, Here, Mine, Path, Content
<1>2. pub' = [pub EXCEPT ![p] = t] /\ disk' = [disk EXCEPT !.files = Put(<<x, n>>, c)]
  BY <1>1, Zenon DEF FillFile, Become
<1>3. /\ Fits(s) /\ JobFits(s.job) /\ s.at \in 1..Len(s.job.files)
      /\ s.job.family \in Exclusive \cup {"spec"}
  BY <1>1, WriterFits DEF Fits
<1>4. /\ Fits(t) /\ t.job = s.job
      /\ \/ s.at = Len(s.job.files) /\ t.phase = "published"
         \/ s.at # Len(s.job.files) /\ t.phase = "write"
  BY <1>1, WrittenFits
<1>5. x \in disk.dirs
  BY <1>1 DEF PubInv, DiskInv, Holds
<1>6. /\ Alone(p, x)
      /\ s.job.family \in Exclusive => ~WholeIn(disk, x) /\ (t.phase = "write" => n # ManifestName)
      /\ s.job.family \notin Exclusive => x.of = "spec"
  <2>1. CASE s.job.family \in Exclusive
    <3>1. ExclusivelyWriting(s) /\ ExclusiveJob(s.job)
      BY <1>1, <1>3, <2>1, JobShape DEF ExclusivelyWriting
    <3>2. t.phase = "write" => n # ManifestName
      BY <1>3, <1>4, <3>1, ExclusiveShape
    <3>. QED
      BY <2>1, <3>1, <3>2, ExclusiveWriterIsAlone
  <2>2. CASE s.job.family \notin Exclusive
    <3>1. SharedJob(s.job) /\ s.job.family = "spec"
      BY <1>3, <2>2, JobShape
    <3>. QED
      BY <2>2, <3>1, SharedShape, SharedWriterIsAlone
  <2>. QED
    BY <2>1, <2>2
<1>7. x \notin RegisteredIn(disk)
  BY <1>3, <1>6 DEF RegisteredIn
<1>8. ExclusivelyWriting(t) => n # ManifestName /\ ~WholeIn(disk, x)
  BY <1>4, <1>6 DEF ExclusivelyWriting
<1>9. t.job.dir = x
  BY <1>4
<1>. HIDE DEF t, c, n, x
<1>10. /\ DOMAIN disk' = DOMAIN disk /\ disk'.dirs = disk.dirs
       /\ DOMAIN disk'.files = DOMAIN disk.files \cup {<<x, n>>}
       /\ \A d : d # x \/ n # ManifestName
                     => /\ WholeIn(disk', d) <=> WholeIn(disk, d)
                        /\ WholeIn(disk, d) => disk'.files[<<d, ManifestName>>]
                                                 = disk.files[<<d, ManifestName>>]
  BY <1>2, OnlyFile, SMTT(40)
<1>11. ExclusivelyWriting(t) => ~WholeIn(disk', x)
  BY <1>8, <1>10
<1>12. <<x, n>>[1] = x
  OBVIOUS
<1>13. PubInv' /\ Gains(disk, disk', x)
  BY <1>2, <1>4, <1>5, <1>6, <1>7, <1>9, <1>10, <1>11, <1>12, WriteStep
<1>. QED
  BY <1>13

LEMMA ExamineKeeps ==
    ASSUME PubInv, NEW p \in Publishers, ExamineFile(p)
    PROVE  PubInv' /\ \E x : Gains(disk, disk', x)
<1> DEFINE s == pub[p]
           x == s.job.dir
           t == Examine(p)
           stage == [s EXCEPT !.phase = "stage"]
           failed == [s EXCEPT !.phase = "failed"]
<1>1. s.phase = "write" /\ s.job.family \notin Exclusive
  BY DEF ExamineFile
<1>2. pub' = [pub EXCEPT ![p] = t] /\ disk' = [disk EXCEPT !.dirs = @ \cup {x}]
  BY Zenon DEF ExamineFile, Become
<1>3. /\ Fits(s) /\ JobFits(s.job) /\ SharedJob(s.job) /\ s.at \in Nat /\ s.at \in 1..Len(s.job.files)
      /\ DOMAIN s = Fields
  BY <1>1, WriterFits DEF Fits
<1>4. t = stage \/ t = Written(p) \/ t = failed
  BY Zenon DEF Examine
<1>5. /\ DOMAIN stage = Fields /\ stage.phase = "stage"
      /\ \A f \in Fields \ {"phase"} : stage[f] = s[f]
  BY <1>3 DEF Fields
<1>6. /\ DOMAIN failed = Fields /\ failed.phase = "failed"
      /\ \A f \in Fields \ {"phase"} : failed[f] = s[f]
  BY <1>3 DEF Fields
<1>. HIDE DEF stage, failed, t
<1>7. stage.at = s.at /\ stage.job = s.job /\ failed.at = s.at /\ failed.job = s.job
  BY <1>5, <1>6 DEF Fields
<1>8. Fits(stage)
  BY <1>1, <1>3, <1>5, <1>7, MovedFits
<1>9. Fits(failed)
  BY <1>3, <1>6, <1>7, MovedFits
<1>10. Fits(Written(p)) /\ Written(p).job = s.job
  BY <1>1, WrittenFits
<1>11. Fits(t) /\ t.job = s.job
  BY <1>4, <1>7, <1>8, <1>9, <1>10
<1>12. Alone(p, x) /\ ~ExclusivelyWriting(t) /\ t.job.dir = x
  BY <1>1, <1>3, <1>11, SharedWriterIsAlone DEF ExclusivelyWriting
<1>. HIDE DEF x
<1>13. /\ DOMAIN disk' = DOMAIN disk
       /\ disk'.dirs = disk.dirs \cup {x} /\ disk'.files = disk.files
       /\ \A d : WholeIn(disk', d) <=> WholeIn(disk, d)
  BY <1>2, OnlyDirectories
<1>14. x \in RegisteredIn(disk) => WholeIn(disk, x)
  BY DEF RegisteredIn
<1>15. PubInv' /\ Gains(disk, disk', x)
  BY <1>2, <1>11, <1>12, <1>13, <1>14, WriteStep
<1>. QED
  BY <1>15

LEMMA OverwriteKeeps ==
    ASSUME PubInv, NEW p \in Publishers, Overwrite(p)
    PROVE  PubInv' /\ \E x : Gains(disk, disk', x)
<1> DEFINE s == pub[p]
           x == s.job.dir
           n == s.job.files[s.at].name
           t == [s EXCEPT !.phase = "fill"]
<1>1. s.phase = "stage" /\ s.job.family = "spec" /\ Here(p) = <<x, n>>
  BY DEF Overwrite, Here, Path
<1>2. pub' = [pub EXCEPT ![p] = t] /\ disk' = [disk EXCEPT !.files = Put(<<x, n>>, Torn)]
  BY <1>1, Zenon DEF Overwrite, Become
<1>3. /\ Fits(s) /\ JobFits(s.job) /\ s.at \in Nat /\ s.at \in 1..Len(s.job.files) /\ DOMAIN s = Fields
      /\ s.job.family \notin Exclusive
  BY <1>1, WriterFits DEF Fits
<1>4. SharedJob(s.job) /\ x.of = "spec"
  BY <1>1, <1>3, JobShape, SharedShape
<1>5. DOMAIN t = Fields /\ t.phase = "fill" /\ \A f \in Fields \ {"phase"} : t[f] = s[f]
  BY <1>3 DEF Fields
<1>. HIDE DEF t
<1>6. t.at = s.at /\ t.job = s.job
  BY <1>5 DEF Fields
<1>7. Fits(t)
  BY <1>1, <1>3, <1>5, <1>6, MovedFits
<1>8. Alone(p, x) /\ x \in disk.dirs /\ ~ExclusivelyWriting(t) /\ t.job.dir = x /\ x \notin RegisteredIn(disk)
  BY <1>1, <1>3, <1>4, <1>6, SharedWriterIsAlone
     DEF ExclusivelyWriting, PubInv, DiskInv, Holds, RegisteredIn
<1>. HIDE DEF n, x
<1>9. /\ DOMAIN disk' = DOMAIN disk /\ disk'.dirs = disk.dirs
      /\ DOMAIN disk'.files = DOMAIN disk.files \cup {<<x, n>>}
      /\ \A d : d # x \/ n # ManifestName
                    => /\ WholeIn(disk', d) <=> WholeIn(disk, d)
                       /\ WholeIn(disk, d) => disk'.files[<<d, ManifestName>>]
                                                = disk.files[<<d, ManifestName>>]
  BY <1>2, OnlyFile
<1>10. <<x, n>>[1] = x
  OBVIOUS
<1>11. PubInv' /\ Gains(disk, disk', x)
  BY <1>2, <1>7, <1>8, <1>9, <1>10, WriteStep
<1>. QED
  BY <1>11

\* A temporary file comes and goes.
LEMMA TemporaryKeeps ==
    ASSUME PubInv, NEW p \in Publishers, WriteTemporary(p) \/ UnlinkTemporary(p)
    PROVE  PubInv' /\ \E x : Gains(disk, disk', x)
<1> DEFINE s == pub[p]
           link == [s EXCEPT !.phase = "link"]
           failed == [s EXCEPT !.phase = "failed"]
           t == IF s.phase = "stage" THEN link ELSE IF s.phase = "unlink" THEN Written(p) ELSE failed
<1>1. \/ s.phase = "stage" /\ s.job.family # "spec"
      \/ s.phase \in {"unlink", "unlink and fail"}
  BY DEF WriteTemporary, UnlinkTemporary
<1>2. pub' = [pub EXCEPT ![p] = t]
  BY <1>1, Zenon DEF WriteTemporary, UnlinkTemporary, Become
<1>3. \E temps : disk' = [disk EXCEPT !.temps = temps]
  BY DEF WriteTemporary, UnlinkTemporary
<1>4. DOMAIN disk' = DOMAIN disk /\ disk'.dirs = disk.dirs /\ disk'.files = disk.files
  BY <1>3 DEF PubInv, DiskInv
<1>5. /\ Fits(s) /\ JobFits(s.job) /\ s.at \in Nat /\ s.at \in 1..Len(s.job.files) /\ DOMAIN s = Fields
      /\ s.job.family \notin Exclusive
  BY <1>1, WriterFits DEF Fits
<1>6. /\ DOMAIN link = Fields /\ link.phase = "link"
      /\ \A f \in Fields \ {"phase"} : link[f] = s[f]
  BY <1>5 DEF Fields
<1>7. /\ DOMAIN failed = Fields /\ failed.phase = "failed"
      /\ \A f \in Fields \ {"phase"} : failed[f] = s[f]
  BY <1>5 DEF Fields
<1>. HIDE DEF link, failed
<1>8. (t = link /\ s.phase = "stage") \/ (t = Written(p) /\ s.phase = "unlink") \/ t = failed
  OBVIOUS
<1>. HIDE DEF t
<1>9. link.at = s.at /\ link.job = s.job /\ failed.at = s.at /\ failed.job = s.job
  BY <1>6, <1>7 DEF Fields
<1>10. s.phase = "stage" => Fits(link)
  BY <1>1, <1>5, <1>6, <1>9, MovedFits
<1>11. Fits(failed)
  BY <1>5, <1>7, <1>9, MovedFits
<1>12. s.phase = "unlink" => /\ Fits(Written(p)) /\ Written(p).job = s.job
                            /\ Written(p).phase \in {"write", "published"}
  BY <1>1, WrittenFits
<1>13. Fits(t) /\ t.job = s.job /\ (t.phase \in {"write", "published", "failed"} \/ s.phase = "stage")
  BY <1>7, <1>8, <1>9, <1>10, <1>11, <1>12
<1>14. ~ExclusivelyWriting(t)
  BY <1>5, <1>13 DEF ExclusivelyWriting
<1>15. Holds(t) => t.job.dir \in disk.dirs
  BY <1>13, <1>14 DEF Holds, PubInv, DiskInv
<1>. QED
  BY <1>2, <1>4, <1>13, <1>14, <1>15, QuietStep

LEMMA LinkKeeps ==
    ASSUME PubInv, NEW p \in Publishers, LinkFile(p)
    PROVE  PubInv' /\ \E x : Gains(disk, disk', x)
<1> DEFINE s == pub[p]
           x == s.job.dir
           n == s.job.files[s.at].name
           c == s.job.files[s.at].content
           t == [s EXCEPT !.phase = IF Present(<<x, n>>) /\ disk.files[<<x, n>>] # c
                                    THEN "unlink and fail" ELSE "unlink"]
<1>1. s.phase = "link" /\ Here(p) = <<x, n>> /\ Mine(p) = c
  BY DEF LinkFile, Here, Mine, Path, Content
<1>2. /\ pub' = [pub EXCEPT ![p] = t]
      /\ disk' = IF Present(<<x, n>>) THEN disk ELSE [disk EXCEPT !.files = Put(<<x, n>>, c)]
  BY <1>1, Zenon DEF LinkFile, Become
<1>3. /\ Fits(s) /\ JobFits(s.job) /\ s.at \in Nat /\ s.at \in 1..Len(s.job.files) /\ DOMAIN s = Fields
      /\ s.job.family \notin Exclusive \cup {"spec"}
  BY <1>1, WriterFits DEF Fits
<1>4. SharedJob(s.job)
  BY <1>3, JobShape
<1>5. /\ DOMAIN t = Fields /\ t.phase \in {"unlink", "unlink and fail"}
      /\ \A f \in Fields \ {"phase"} : t[f] = s[f]
  BY <1>3 DEF Fields
<1>. HIDE DEF t
<1>6. t.at = s.at /\ t.job = s.job
  BY <1>5 DEF Fields
<1>7. Fits(t)
  BY <1>3, <1>5, <1>6, MovedFits
<1>8. /\ Alone(p, x) /\ x \in disk.dirs /\ ~ExclusivelyWriting(t) /\ ~Holds(t) /\ t.job.dir = x
  BY <1>1, <1>3, <1>4, <1>5, <1>6, SharedWriterIsAlone DEF ExclusivelyWriting, PubInv, DiskInv, Holds
<1>. HIDE DEF c, n, x
<1>9. CASE Present(<<x, n>>)
  BY <1>2, <1>7, <1>8, <1>9, QuietStep
<1>10. CASE ~Present(<<x, n>>)
  <2>1. /\ DOMAIN disk' = DOMAIN disk /\ disk'.dirs = disk.dirs
        /\ DOMAIN disk'.files = DOMAIN disk.files \cup {<<x, n>>}
        /\ \A d : d # x \/ n # ManifestName
                      => /\ WholeIn(disk', d) <=> WholeIn(disk, d)
                         /\ WholeIn(disk, d) => disk'.files[<<d, ManifestName>>]
                                                  = disk.files[<<d, ManifestName>>]
    BY <1>2, <1>10, OnlyFile
  <2>2. x \in RegisteredIn(disk) => WholeIn(disk, x) /\ n # ManifestName
    BY <1>10 DEF RegisteredIn, WholeIn, Present
  <2>3. <<x, n>>[1] = x
    OBVIOUS
  <2>4. PubInv' /\ Gains(disk, disk', x)
    BY <1>2, <1>7, <1>8, <2>1, <2>2, <2>3, WriteStep
  <2>. QED
    BY <2>4
<1>. QED
  BY <1>9, <1>10

\* An adjusted series that could not be written goes with its directory; nobody else is there.
LEMMA RemovalKeeps ==
    ASSUME PubInv, NEW p \in Publishers, NEW t, pub' = [pub EXCEPT ![p] = t], Fits(t),
           ~ExclusivelyWriting(t), ~Holds(t), ExclusivelyWriting(pub[p]),
           NEW x, pub[p].job.dir = x,
           disk' = [disk EXCEPT !.dirs = @ \ {x},
                                !.files = [path \in {q \in DOMAIN @ : q[1] # x} |-> @[path]]]
    PROVE  PubInv' /\ Gains(disk, disk', x)
<1>1. DOMAIN pub' = Publishers /\ pub'[p] = t /\ \A q \in Publishers \ {p} : pub'[q] = pub[q]
  BY DEF PubInv
<1>2. /\ DOMAIN disk' = DOMAIN disk /\ disk'.dirs = disk.dirs \ {x}
      /\ disk'.files = [path \in {q \in DOMAIN disk.files : q[1] # x} |-> disk.files[path]]
  BY DEF PubInv, DiskInv
<1>3. Alone(p, x) /\ ~WholeIn(disk, x)
  BY ExclusiveWriterIsAlone
<1>4. \A d : <<d, ManifestName>>[1] = d
  OBVIOUS
<1>5. ~WholeIn(disk', x)
  BY <1>2, <1>4 DEF WholeIn
<1>6. \A d : d # x => /\ WholeIn(disk', d) <=> WholeIn(disk, d)
                      /\ WholeIn(disk, d) => disk'.files[<<d, ManifestName>>]
                                               = disk.files[<<d, ManifestName>>]
  BY <1>2, <1>4 DEF WholeIn
<1>7. Gains(disk, disk', x)
  BY <1>2, <1>3, <1>5, <1>6 DEF Gains, RegisteredIn
<1>8. x.of \in {"artifact", "batch", "adjusted"}
  BY WriterFits, ExclusiveKind DEF ExclusivelyWriting
<1>9. ASSUME NEW q \in Publishers \ {p}, Holds(pub[q]) PROVE pub[q].job.dir # x
  <2>1. CASE ExclusivelyWriting(pub[q])
    BY <1>3, <2>1 DEF Alone
  <2>2. CASE ~ExclusivelyWriting(pub[q])
    <3>1. pub[q].phase \in {"fill", "stage", "link"}
      BY <1>9, <2>2 DEF Holds
    <3>2. pub[q].job.family \notin Exclusive
      BY <2>2, <3>1, WriterFits DEF ExclusivelyWriting, Fits
    <3>3. pub[q].job.dir.of \in {"document", "result", "spec"}
      BY <3>1, <3>2, WriterFits, SharedShape
    <3>. QED
      BY <1>8, <3>3
  <2>. QED
    BY <2>1, <2>2
<1>10. \A path \in DOMAIN disk'.files : path[1] \in disk'.dirs
  BY <1>2 DEF PubInv, DiskInv
<1>11. \A q \in Publishers : Holds(pub'[q]) => pub'[q].job.dir \in disk'.dirs
  BY <1>1, <1>2, <1>9 DEF PubInv, DiskInv
<1>12. \A q \in Publishers : ExclusivelyWriting(pub'[q]) => ~WholeIn(disk', pub'[q].job.dir)
  BY <1>1, <1>3, <1>6 DEF PubInv, DiskInv, Alone
<1>13. \A q, r \in Publishers :
          ExclusivelyWriting(pub'[q]) /\ ExclusivelyWriting(pub'[r]) /\ q # r
             => pub'[q].job.dir # pub'[r].job.dir
  BY <1>1 DEF PubInv, DiskInv
<1>14. DiskInv(disk', pub')
  BY <1>2, <1>10, <1>11, <1>12, <1>13 DEF PubInv, DiskInv
<1>. QED
  BY <1>1, <1>7, <1>14 DEF PubInv

\* A publisher whose disk fails rejects the partition or fails.
LEMMA DiskErrorShape ==
    ASSUME PubInv, NEW p \in Publishers, DiskError(p)
    PROVE  /\ \E t : /\ pub' = [pub EXCEPT ![p] = t] /\ Fits(t) /\ t.phase \in {"partition", "failed"}
           /\ \/ /\ ExclusivelyWriting(pub[p]) /\ pub[p].job.family = "adjusted"
                 /\ LET x == pub[p].job.dir IN
                    disk' = [disk EXCEPT !.dirs = @ \ {x},
                                  !.files = [path \in {q \in DOMAIN @ : q[1] # x} |-> @[path]]]
              \/ /\ DOMAIN disk' = DOMAIN disk /\ disk'.dirs = disk.dirs /\ disk'.files = disk.files
                 /\ disk'.temps = disk.temps \ {Temporary(p)}
<1> DEFINE s == pub[p]
           failed == [s EXCEPT !.phase = "failed"]
<1>1. s.phase \in {"directory", "fill", "stage", "link"} /\ disk' = CleanedUp(p)
  BY DEF DiskError
<1>2. Fits(s) /\ JobFits(s.job) /\ s.at \in Nat /\ DOMAIN s = Fields
  BY <1>1, WriterFits DEF Fits
<1>3. \E t : pub' = [pub EXCEPT ![p] = t] /\ Fits(t) /\ t.phase \in {"partition", "failed"}
  <2>1. CASE Child(p)
    <3>1. s.request.set \in FeatureFamilies
      BY <1>2, <2>1 DEF Child, Fits
    <3>2. \E d, reason : Reject(p, d, reason)
      BY <2>1, Zenon DEF DiskError
    <3>. QED
      BY <3>1, <3>2, RejectKeeps
  <2>2. CASE ~Child(p)
    <3>1. pub' = [pub EXCEPT ![p] = failed]
      BY <2>2, Zenon DEF DiskError, Become
    <3>2. /\ DOMAIN failed = Fields /\ failed.phase = "failed"
          /\ \A f \in Fields \ {"phase"} : failed[f] = s[f]
      BY <1>2 DEF Fields
    <3>. HIDE DEF failed
    <3>3. failed.at = s.at
      BY <3>2 DEF Fields
    <3>4. Fits(failed)
      BY <1>2, <3>2, <3>3, MovedFits
    <3>. QED
      BY <3>1, <3>2, <3>4
  <2>. QED
    BY <2>1, <2>2
<1>4. CASE s.job.family = "adjusted" /\ s.phase = "fill"
  <2>1. ExclusivelyWriting(s)
    BY <1>4 DEF ExclusivelyWriting, Exclusive
  <2>2. LET x == s.job.dir IN
        disk' = [disk EXCEPT !.dirs = @ \ {x},
                             !.files = [path \in {q \in DOMAIN @ : q[1] # x} |-> @[path]]]
    BY <1>1, <1>4, Zenon DEF CleanedUp
  <2>. QED
    BY <1>3, <1>4, <2>1, <2>2, Zenon
<1>5. CASE ~(s.job.family = "adjusted" /\ s.phase = "fill")
  <2>1. disk' = [disk EXCEPT !.temps = @ \ {Temporary(p)}]
    BY <1>1, <1>5, Zenon DEF CleanedUp
  <2>2. /\ DOMAIN disk' = DOMAIN disk /\ disk'.dirs = disk.dirs /\ disk'.files = disk.files
        /\ disk'.temps = disk.temps \ {Temporary(p)}
    BY <2>1 DEF PubInv, DiskInv
  <2>. QED
    BY <1>3, <2>2, Zenon
<1>. QED
  BY <1>4, <1>5

LEMMA DiskErrorKeeps ==
    ASSUME PubInv, NEW p \in Publishers, DiskError(p)
    PROVE  PubInv' /\ \E x : Gains(disk, disk', x)
<1>1. PICK t : pub' = [pub EXCEPT ![p] = t] /\ Fits(t) /\ t.phase \in {"partition", "failed"}
  BY DiskErrorShape
<1>2. ~ExclusivelyWriting(t) /\ ~Holds(t)
  BY <1>1 DEF ExclusivelyWriting, Holds
<1> DEFINE x == pub[p].job.dir
<1>3. pub[p].job.dir = x
  OBVIOUS
<1>4. \/ /\ ExclusivelyWriting(pub[p])
         /\ disk' = [disk EXCEPT !.dirs = @ \ {x},
                                 !.files = [path \in {q \in DOMAIN @ : q[1] # x} |-> @[path]]]
      \/ DOMAIN disk' = DOMAIN disk /\ disk'.dirs = disk.dirs /\ disk'.files = disk.files
  BY DiskErrorShape, Zenon
<1>. HIDE DEF x
<1>5. CASE /\ ExclusivelyWriting(pub[p])
           /\ disk' = [disk EXCEPT !.dirs = @ \ {x},
                                   !.files = [path \in {q \in DOMAIN @ : q[1] # x} |-> @[path]]]
  BY <1>1, <1>2, <1>3, <1>5, RemovalKeeps
<1>6. CASE DOMAIN disk' = DOMAIN disk /\ disk'.dirs = disk.dirs /\ disk'.files = disk.files
  BY <1>1, <1>2, <1>6, QuietStep
<1>. QED
  BY <1>4, <1>5, <1>6

LEMMA PubInitHolds == PubInit => PubInv /\ RegistryIn(disk) = <<>>
<1>. SUFFICES ASSUME PubInit PROVE PubInv /\ RegistryIn(disk) = <<>>
  OBVIOUS
<1>1. DOMAIN disk = {"dirs", "files", "temps"} /\ disk.dirs = {} /\ disk.files = <<>>
  BY DEF PubInit
<1>2. DOMAIN disk.files = {}
  BY <1>1
<1>3. DOMAIN pub = Publishers /\ \A p \in Publishers : pub[p] = Resting
  BY DEF PubInit
<1>4. DiskInv(disk, pub)
  BY <1>1, <1>2, <1>3, RestingFields DEF DiskInv, Holds, ExclusivelyWriting
<1>5. RegisteredIn(disk) = {}
  BY <1>1 DEF RegisteredIn
<1>6. RegistryIn(disk) = <<>>
  BY <1>5 DEF RegistryIn
<1>. QED
  BY <1>3, <1>4, <1>6, RestingFits DEF PubInv

LEMMA PubStep ==
    ASSUME PubInv, theme \in DOMAIN Batches, [PubNext]_pubVars
    PROVE  PubInv' /\ \E x : Gains(disk, disk', x)
<1>1. CASE UNCHANGED <<disk, pub>>
  <2>1. PubInv'
    BY <1>1, ZenonT(40) DEF PubInv, DiskInv, Fits, ExclusivelyWriting, Holds, WholeIn
  <2>2. Gains(disk, disk', 0)
    BY <1>1 DEF Gains, RegisteredIn, WholeIn
  <2>. QED
    BY <2>1, <2>2
<1>2. ASSUME NEW p \in Publishers, NEW request \in Requests[theme],
             \/ StartBatch(p, request) \/ StartDocument(p, request) \/ StartResult(p, request)
             \/ StartSpec(p, request) \/ StartAdjusted(p, request)
      PROVE  PubInv' /\ \E x : Gains(disk, disk', x)
  <2>1. request \in Asked
    BY <1>2 DEF Asked
  <2>. QED
    BY <1>2, <2>1, StartKeeps
<1>3. ASSUME NEW p \in Publishers, Step(p) PROVE PubInv' /\ \E x : Gains(disk, disk', x)
  BY <1>3, SkipKeeps, SelectKeeps, AcceptKeeps, InstallKeeps, OpenKeeps, MakeDirectoryKeeps,
     CreateKeeps, FillKeeps, ExamineKeeps, OverwriteKeeps, TemporaryKeeps, LinkKeeps, LeaveKeeps
     DEF Step
<1>4. ASSUME NEW p \in Publishers, Crash(p) \/ DiskError(p)
      PROVE  PubInv' /\ \E x : Gains(disk, disk', x)
  BY <1>4, LeaveKeeps, DiskErrorKeeps
<1>5. CASE PubNext
  BY <1>1, <1>2, <1>3, <1>4, <1>5 DEF PubNext, publication
<1>6. CASE UNCHANGED pubVars
  BY <1>1, <1>6 DEF pubVars, publication
<1>. QED
  BY <1>5, <1>6

-----------------------------------------------------------------------------
(***************************************************************************)
(* The publications implement the write-once registry.                     *)
(***************************************************************************)
THEOREM PublishersInductive == PubSpec => []PubInv
<1>1. PubInv /\ StoreTypeOK /\ [PubNext]_pubVars => PubInv'
  BY PubStep DEF StoreTypeOK
<1>2. PubSpec => []StoreTypeOK
  <2>1. ReaderInv => StoreTypeOK
    BY DEF ReaderInv
  <2>. QED
    BY <2>1, PublicationsImplementReaders, ReadersInductive, PTL
<1>. QED
  BY <1>1, <1>2, PubInitHolds, PTL DEF PubSpec

THEOREM PublicationsImplementWriteOnce == PubSpec => ImplementsWriteOnce
<1>1. PubInit => Immutable!Init
  BY PubInitHolds, RegistryIsIn DEF Immutable!Init
<1>2. PubInv /\ StoreTypeOK /\ [PubNext]_pubVars => [Immutable!Next]_Registry
  <2>. SUFFICES ASSUME PubInv, StoreTypeOK, [PubNext]_pubVars PROVE [Immutable!Next]_Registry
    OBVIOUS
  <2>1. PICK x : Gains(disk, disk', x)
    BY PubStep DEF StoreTypeOK
  <2>2. Registry = RegistryIn(disk) /\ Registry' = RegistryIn(disk')
    BY DEF Registry, RegistryIn, RegisteredIn, WholeIn, HasWholeManifest, Whole, Present, ManifestAt
  <2>3. CASE RegistryIn(disk') = RegistryIn(disk)
    BY <2>2, <2>3
  <2>4. CASE OneMore(RegistryIn(disk), RegistryIn(disk'), x)
    <3>1. OneMore(Registry, Registry', x)
      BY <2>2, <2>4
    <3>2. Immutable!Publish(x, Registry'[x]) /\ x \in DOMAIN Registry'
      BY <3>1, Zenon DEF Immutable!Publish, OneMore
    <3>. QED
      BY <3>2 DEF Immutable!Next
  <2>. QED
    BY <2>1, <2>3, <2>4, GainsIsPublish
<1>3. PubSpec => []StoreTypeOK
  <2>1. ReaderInv => StoreTypeOK
    BY DEF ReaderInv
  <2>. QED
    BY <2>1, PublicationsImplementReaders, ReadersInductive, PTL
<1>. QED
  BY <1>1, <1>2, <1>3, PublishersInductive, PTL DEF PubSpec, ImplementsWriteOnce, Immutable!Spec
-----------------------------------------------------------------------------
(***************************************************************************)
(* Documents and results.  Their files appear by a link, whole, and are    *)
(* never altered or removed; who links the manifest has linked all before. *)
(***************************************************************************)
Shared(d) == d.of \in {"document", "result"}

Kept(a, path, c) == path \in DOMAIN a.files /\ a.files[path] = c /\ c # Torn

\* The files a manifest of these families names.
Holding(a, d) ==
    LET m == a.files[<<d, ManifestName>>] IN
    /\ d.of = "document" => /\ Kept(a, <<d, <<"raw", m.raw>>>>, m.raw)
                            /\ m.readable => Kept(a, <<d, <<"text", m.raw>>>>, m.raw)
    /\ d.of = "result" => \A i \in 1..Len(ResultFiles) : Kept(a, <<d, <<ResultFiles[i]>>>>, m.run)

InPlace(a, job, i) == Path(job, i) \in DOMAIN a.files /\ a.files[Path(job, i)] = Content(job, i)

\* The files before the n-th one.
Done(a, job, n) == \A i \in 1..Len(job.files) : i < n => InPlace(a, job, i)

\* Those and the n-th one.
DoneWith(a, job, n) == Done(a, job, n) /\ InPlace(a, job, n)

\* What a publisher of these families has linked so far.
Progress(a, s) ==
    s.job.family \in {"document", "result"} =>
       /\ s.phase \in {"write", "stage", "link"} => Done(a, s.job, s.at)
       /\ s.phase = "unlink" => DoneWith(a, s.job, s.at)

NamedByContent(a) ==
    \A d, n : d.of = "document" /\ <<d, n>> \in DOMAIN a.files
                 => n = ManifestName \/ \E k : n = <<k, a.files[<<d, n>>]>>

ManifestsHold(a) == \A d : Shared(d) /\ WholeIn(a, d) => Holding(a, d)

SharedInv ==
    /\ NamedByContent(disk)
    /\ ManifestsHold(disk)
    /\ \A p \in Publishers : Progress(disk, pub[p])

\* The files of these families are there to stay.
Grown(a, b) ==
    \A d, n : Shared(d) /\ <<d, n>> \in DOMAIN a.files
                 => <<d, n>> \in DOMAIN b.files /\ b.files[<<d, n>>] = a.files[<<d, n>>]

NothingNew(a, b) == \A d, n : Shared(d) /\ <<d, n>> \in DOMAIN b.files => <<d, n>> \in DOMAIN a.files

LEMMA HoldingGrows ==
    ASSUME NEW a, NEW b, NEW d, Grown(a, b), Shared(d), WholeIn(a, d), Holding(a, d)
    PROVE  Holding(b, d)
<1> DEFINE m == a.files[<<d, ManifestName>>]
<1>1. b.files[<<d, ManifestName>>] = m
  BY DEF Grown, WholeIn
<1>2. \A n, c : Kept(a, <<d, n>>, c) => Kept(b, <<d, n>>, c)
  BY DEF Grown, Kept
<1>. HIDE DEF m
<1>3. /\ d.of = "document" => /\ Kept(a, <<d, <<"raw", m.raw>>>>, m.raw)
                              /\ m.readable => Kept(a, <<d, <<"text", m.raw>>>>, m.raw)
      /\ d.of = "result" => \A i \in 1..Len(ResultFiles) : Kept(a, <<d, <<ResultFiles[i]>>>>, m.run)
  BY Zenon DEF Holding, m
<1>4. /\ d.of = "document" => /\ Kept(b, <<d, <<"raw", m.raw>>>>, m.raw)
                              /\ m.readable => Kept(b, <<d, <<"text", m.raw>>>>, m.raw)
      /\ d.of = "result" => \A i \in 1..Len(ResultFiles) : Kept(b, <<d, <<ResultFiles[i]>>>>, m.run)
  BY <1>2, <1>3
<1>. QED
  BY <1>1, <1>4, Zenon DEF Holding

LEMMA SharedDirectory ==
    ASSUME NEW job, SharedJob(job), job.family # "spec" PROVE Shared(job.dir)
BY SharedShape DEF Shared

LEMMA DoneGrows ==
    ASSUME NEW a, NEW b, Grown(a, b), NEW job, Shared(job.dir), NEW n, Done(a, job, n)
    PROVE  Done(b, job, n)
BY DEF Done, InPlace, Path, Grown

LEMMA ProgressGrows ==
    ASSUME PubInv, NEW q \in Publishers, Progress(disk, pub[q]), Grown(disk, disk')
    PROVE  Progress(disk', pub[q])
<1>. SUFFICES ASSUME pub[q].job.family \in {"document", "result"},
                     pub[q].phase \in {"write", "stage", "link", "unlink"}
              PROVE  Progress(disk', pub[q])
  BY DEF Progress
<1>1. Shared(pub[q].job.dir)
  <2>1. pub[q].job.family \notin Exclusive
    BY DEF Exclusive, FeatureFamilies, Derived
  <2>. QED
    BY <2>1, WriterFits, SharedDirectory
<1>2. \A n : Done(disk, pub[q].job, n) => Done(disk', pub[q].job, n)
  BY <1>1, DoneGrows
<1>3. \A n : InPlace(disk, pub[q].job, n) => InPlace(disk', pub[q].job, n)
  BY <1>1 DEF InPlace, Path, Grown
<1>. QED
  BY <1>2, <1>3 DEF Progress, DoneWith

\* A step that adds no file to a document or a result.
LEMMA NoNewFiles ==
    ASSUME PubInv, SharedInv, NEW p \in Publishers, NEW t, pub' = [pub EXCEPT ![p] = t],
           Grown(disk, disk'), NothingNew(disk, disk'),
           Progress(disk', t)
    PROVE  SharedInv'
<1>1. pub'[p] = t /\ \A q \in Publishers \ {p} : pub'[q] = pub[q]
  BY DEF PubInv
<1>2. \A q \in Publishers : Progress(disk', pub'[q])
  BY <1>1, ProgressGrows DEF SharedInv
<1>3. NamedByContent(disk')
  <2>. SUFFICES ASSUME NEW d, NEW n, d.of = "document", <<d, n>> \in DOMAIN disk'.files
                PROVE  n = ManifestName \/ \E k : n = <<k, disk'.files[<<d, n>>]>>
    BY DEF NamedByContent
  <2>1. <<d, n>> \in DOMAIN disk.files /\ disk'.files[<<d, n>>] = disk.files[<<d, n>>]
    BY DEF Grown, NothingNew, Shared
  <2>. QED
    BY <2>1 DEF SharedInv, NamedByContent
<1>4. ManifestsHold(disk')
  <2>. SUFFICES ASSUME NEW d, Shared(d), WholeIn(disk', d) PROVE Holding(disk', d)
    BY DEF ManifestsHold
  <2>1. WholeIn(disk, d)
    BY DEF WholeIn, Grown, NothingNew
  <2>. QED
    BY <2>1, HoldingGrows DEF SharedInv, ManifestsHold
<1>. QED
  BY <1>2, <1>3, <1>4 DEF SharedInv

LEMMA SameFilesGrow ==
    ASSUME disk'.files = disk.files
    PROVE  Grown(disk, disk') /\ NothingNew(disk, disk')
BY DEF Grown, NothingNew

\* Another phase with the same job.
LEMMA PhaseFields ==
    ASSUME NEW s, DOMAIN s = Fields, NEW phase
    PROVE  LET t == [s EXCEPT !.phase = phase] IN
           /\ DOMAIN t = Fields /\ t.phase = phase /\ t.at = s.at /\ t.job = s.job /\ t.todo = s.todo
           /\ t.request = s.request /\ t.parts = s.parts
           /\ t.accepted = s.accepted /\ t.rejected = s.rejected
BY DEF Fields
LEMMA PairIsNotSingle == \A a, b, c : <<a, b>> # <<c>>
<1>. SUFFICES ASSUME NEW a, NEW b, NEW c, <<a, b>> = <<c>> PROVE FALSE
  OBVIOUS
<1>1. Len(<<a, b>>) = 2 /\ Len(<<c>>) = 1
  BY ListOfOne, ListOfTwo
<1>. QED
  BY <1>1

\* The files of a document by their place.
LEMMA DocumentFiles ==
    ASSUME NEW r, NEW job, job = DocumentJob(r)
    PROVE  LET n == Len(job.files) IN
           /\ n \in {2, 3}
           /\ job.files[1].name = <<"raw", r.raw>> /\ job.files[1].content = r.raw
           /\ n = 3 => job.files[2].name = <<"text", r.raw>> /\ job.files[2].content = r.raw
           /\ job.files[n].name = ManifestName
           /\ job.files[n].content = [kind |-> "document", raw |-> r.raw, retrieved |-> r.retrieved,
                                      readable |-> r.readable]
           /\ r.readable => n = 3
<1> DEFINE raw == File(<<"raw", r.raw>>, r.raw)
           text == File(<<"text", r.raw>>, r.raw)
           m == [kind |-> "document", raw |-> r.raw, retrieved |-> r.retrieved, readable |-> r.readable]
           last == File(ManifestName, m)
<1>1. job.files = IF r.readable THEN <<raw, text, last>> ELSE <<raw, last>>
  BY DocumentShape, Zenon
<1>2. /\ raw.name = <<"raw", r.raw>> /\ raw.content = r.raw
      /\ text.name = <<"text", r.raw>> /\ text.content = r.raw
      /\ last.name = ManifestName /\ last.content = m
  BY FileFields
<1>. HIDE DEF raw, text, last, m
<1>3. CASE r.readable
  <2>1. /\ Len(job.files) = 3
        /\ job.files[1] = raw /\ job.files[2] = text /\ job.files[3] = last
    BY <1>1, <1>3, ListOfThree
  <2>. QED
    BY <1>2, <2>1 DEF m
<1>4. CASE ~r.readable
  <2>1. /\ Len(job.files) = 2
        /\ job.files[1] = raw /\ job.files[2] = last
    BY <1>1, <1>4, ListOfTwo
  <2>. QED
    BY <1>2, <1>4, <2>1 DEF m
<1>. QED
  BY <1>3, <1>4

\* When the last file of a document or a result is the manifest, the others are there.
LEMMA AllInPlace ==
    ASSUME NEW a, NEW job, SharedJob(job), job.family # "spec",
           Done(a, job, Len(job.files)),
           a.files[<<job.dir, ManifestName>>] = job.files[Len(job.files)].content
    PROVE  Holding(a, job.dir)
<1> DEFINE n == Len(job.files)
           d == job.dir
<1>1. PICK r \in Asked : \/ r.kind = "document" /\ job = DocumentJob(r)
                         \/ r.kind = "result" /\ job = ResultJob(r)
                         \/ r.kind = "spec" /\ job = SpecJob(r)
  BY DEF SharedJob
<1>2. (r.kind = "document" => r.raw # Torn) /\ (r.kind = "result" => r.run # Torn)
  BY RequestsAssumption DEF Asked
<1>3. \A i : InPlace(a, job, i) /\ job.files[i].content # Torn
               => Kept(a, <<d, job.files[i].name>>, job.files[i].content)
  BY DEF InPlace, Kept, Path, Content
<1>7. n = Len(job.files) /\ \A i \in 1..n : i < n => InPlace(a, job, i)
  BY DEF Done
<1>4. CASE r.kind = "document" /\ job = DocumentJob(r)
  <2> DEFINE m == [kind |-> "document", raw |-> r.raw, retrieved |-> r.retrieved,
                   readable |-> r.readable]
  <2>1. /\ n \in {2, 3}
        /\ job.files[1].name = <<"raw", r.raw>> /\ job.files[1].content = r.raw
        /\ n = 3 => job.files[2].name = <<"text", r.raw>> /\ job.files[2].content = r.raw
        /\ job.files[n].content = m
        /\ r.readable => n = 3
    BY <1>4, DocumentFiles, ZenonT(40)
  <2>2. d = [of |-> "document", id |-> r.document]
    BY <1>4, DocumentShape, Zenon
  <2>9. d.of = "document"
    BY <2>2
  <2>3. m.raw = r.raw /\ m.readable = r.readable
    OBVIOUS
  <2>. HIDE DEF n, d, m
  <2>10. 1 \in 1..n /\ 1 < n /\ (n = 3 => 2 \in 1..n /\ 2 < n)
    BY <2>1
  <2>4. InPlace(a, job, 1) /\ (n = 3 => InPlace(a, job, 2))
    BY <1>7, <2>10, Zenon
  <2>5. Kept(a, <<d, <<"raw", r.raw>>>>, r.raw)
    BY <1>2, <1>3, <1>4, <2>1, <2>4
  <2>6. r.readable => Kept(a, <<d, <<"text", r.raw>>>>, r.raw)
    BY <1>2, <1>3, <1>4, <2>1, <2>4
  <2>7. a.files[<<d, ManifestName>>] = m
    BY <2>1 DEF d, n
  <2>8. Holding(a, d)
    BY <2>3, <2>5, <2>6, <2>7, <2>9 DEF Holding
  <2>. QED
    BY <2>8 DEF d
<1>5. CASE r.kind = "result" /\ job = ResultJob(r)
  <2>1. /\ d = [of |-> "result", id |-> r.run] /\ n = Len(ResultFiles) + 1
        /\ \A i \in 1..Len(ResultFiles) : job.files[i] = File(<<ResultFiles[i]>>, r.run)
        /\ job.files[n] = File(ManifestName, [kind |-> "result", run |-> r.run])
    BY <1>5, ResultShape, Zenon
  <2>2. d.of = "result" /\ job.files[n].content.run = r.run
    BY <2>1, FileFields
  <2>3. Len(ResultFiles) \in Nat
    BY ResultFilesAssumption
  <2>. HIDE DEF n, d
  <2>4. \A i \in 1..Len(ResultFiles) : i \in 1..n /\ i < n
    BY <2>1, <2>3
  <2>5. ASSUME NEW i \in 1..Len(ResultFiles) PROVE Kept(a, <<d, <<ResultFiles[i]>>>>, r.run)
    <3>1. InPlace(a, job, i)
      BY <1>7, <2>4
    <3>2. job.files[i] = File(<<ResultFiles[i]>>, r.run)
      BY <2>1
    <3>3. job.files[i].name = <<ResultFiles[i]>> /\ job.files[i].content = r.run
      BY <3>2, FileFields
    <3>. QED
      BY <1>2, <1>3, <1>5, <3>1, <3>3
  <2>. QED
    BY <2>2, <2>5 DEF Holding, n, d
<1>6. CASE r.kind = "spec" /\ job = SpecJob(r)
  BY <1>6, SpecShape, Zenon
<1>. QED
  BY <1>1, <1>4, <1>5, <1>6

\* A file of a document is its manifest or is named by its content; so are those of a result.
LEMMA SharedFiles ==
    ASSUME NEW job, SharedJob(job), job.family # "spec", NEW i \in 1..Len(job.files)
    PROVE  /\ job.files[i].name = ManifestName <=> i = Len(job.files)
           /\ job.family = "document" /\ i # Len(job.files)
                 => \E k : job.files[i].name = <<k, job.files[i].content>>
<1>1. PICK r \in Asked : \/ r.kind = "document" /\ job = DocumentJob(r)
                         \/ r.kind = "result" /\ job = ResultJob(r)
                         \/ r.kind = "spec" /\ job = SpecJob(r)
  BY DEF SharedJob
<1>2. CASE job = DocumentJob(r)
  <2>1. /\ Len(job.files) \in {2, 3}
        /\ job.files[1].name = <<"raw", r.raw>> /\ job.files[1].content = r.raw
        /\ Len(job.files) = 3 => job.files[2].name = <<"text", r.raw>> /\ job.files[2].content = r.raw
        /\ job.files[Len(job.files)].name = ManifestName
    BY <1>2, DocumentFiles, ZenonT(40)
  <2>2. i # Len(job.files) => i = 1 \/ (i = 2 /\ Len(job.files) = 3)
    BY <2>1
  <2>3. i # Len(job.files) => \E k : job.files[i].name = <<k, job.files[i].content>>
    BY <2>1, <2>2
  <2>4. i # Len(job.files) => job.files[i].name # ManifestName
    BY <2>3, PairIsNotSingle DEF ManifestName
  <2>. QED
    BY <2>1, <2>3, <2>4
<1>3. CASE job = ResultJob(r)
  <2>1. /\ Len(job.files) = Len(ResultFiles) + 1
        /\ \A j \in 1..Len(ResultFiles) : job.files[j] = File(<<ResultFiles[j]>>, r.run)
        /\ job.files[Len(job.files)] = File(ManifestName, [kind |-> "result", run |-> r.run])
        /\ job.family = "result"
    BY <1>3, ResultShape, Zenon
  <2>2. Len(ResultFiles) \in Nat /\ \A j \in 1..Len(ResultFiles) : ResultFiles[j] # "manifest"
    BY ResultFilesAssumption
  <2>3. i # Len(job.files) => i \in 1..Len(ResultFiles)
    BY <2>1, <2>2
  <2>4. ASSUME i # Len(job.files) PROVE job.files[i].name # ManifestName
    <3>1. job.files[i] = File(<<ResultFiles[i]>>, r.run) /\ ResultFiles[i] # "manifest"
      BY <2>1, <2>2, <2>3, <2>4
    <3>2. job.files[i].name = <<ResultFiles[i]>>
      BY <3>1, FileFields
    <3>. QED
      BY <3>1, <3>2, OneEqual DEF ManifestName
  <2>5. job.files[Len(job.files)].name = ManifestName
    BY <2>1, FileFields
  <2>. QED
    BY <2>1, <2>4, <2>5
<1>4. CASE job = SpecJob(r)
  BY <1>4, SpecShape, Zenon
<1>. QED
  BY <1>1, <1>2, <1>3, <1>4
-----------------------------------------------------------------------------
\* The steps of a publisher that are not about a file.
LEMMA QuietSteps ==
    ASSUME PubInv, NEW p \in Publishers,
           \/ \E request : \/ StartBatch(p, request) \/ StartDocument(p, request)
                           \/ StartResult(p, request) \/ StartSpec(p, request)
                           \/ StartAdjusted(p, request)
           \/ SkipPartition(p) \/ SelectPartition(p) \/ InstallBatch(p) \/ AcceptChild(p)
           \/ Return(p) \/ Crash(p)
    PROVE  \E t : /\ pub' = [pub EXCEPT ![p] = t] /\ UNCHANGED disk
                  /\ t.phase \in {"idle", "partition", "open", "failed"}
<1> DEFINE Goal == \E t : /\ pub' = [pub EXCEPT ![p] = t] /\ UNCHANGED disk
                          /\ t.phase \in {"idle", "partition", "open", "failed"}
<1>1. DOMAIN pub[p] = Fields
  BY DEF PubInv, Fits
<1>2. ASSUME NEW request, StartBatch(p, request) PROVE Goal
  <2> DEFINE t == [Resting EXCEPT !.phase = "partition", !.request = request, !.parts = view.parts,
                                  !.todo = request.schedule \X request.securities]
  <2>1. pub' = [pub EXCEPT ![p] = t] /\ UNCHANGED disk
    BY <1>2 DEF StartBatch, Become
  <2>2. t.phase = "partition"
    BY RestingFields DEF Fields
  <2>. QED
    BY <2>1, <2>2
<1>3. ASSUME NEW request, NEW job, StartJob(p, request, job) PROVE Goal
  <2> DEFINE t == [Resting EXCEPT !.phase = "open", !.request = request, !.job = job]
  <2>1. pub' = [pub EXCEPT ![p] = t] /\ UNCHANGED disk
    BY <1>3 DEF StartJob, Become
  <2>2. t.phase = "open"
    BY RestingFields DEF Fields
  <2>. QED
    BY <2>1, <2>2
<1>4. ASSUME NEW d, NEW reason, Reject(p, d, reason), UNCHANGED disk PROVE Goal
  <2> DEFINE t == [pub[p] EXCEPT !.phase = "partition", !.job = NoJob, !.at = 0, !.todo = @ \ {d},
                                 !.rejected = @ \cup {Rejection(d, reason)}]
  <2>1. pub' = [pub EXCEPT ![p] = t] /\ UNCHANGED disk
    BY <1>4 DEF Reject, Become
  <2>2. t.phase = "partition"
    BY <1>1 DEF Fields
  <2>. QED
    BY <2>1, <2>2
<1>5. ASSUME NEW job, Become(p, [pub[p] EXCEPT !.phase = "open", !.job = job]), UNCHANGED disk
      PROVE  Goal
  <2> DEFINE t == [pub[p] EXCEPT !.phase = "open", !.job = job]
  <2>1. pub' = [pub EXCEPT ![p] = t] /\ UNCHANGED disk
    BY <1>5 DEF Become
  <2>2. t.phase = "open"
    BY <1>1 DEF Fields
  <2>. QED
    BY <2>1, <2>2
<1>6. ASSUME AcceptChild(p) PROVE Goal
  <2> DEFINE s == pub[p]
             dir == s.job.dir
             d == NextPartition(s.todo)
             accepted == [s EXCEPT !.phase = "partition", !.job = NoJob, !.at = 0, !.todo = @ \ {d},
                                   !.accepted = @ \cup {[decision |-> d[1], security |-> d[2],
                                                         id |-> dir, manifest |-> ManifestAt(dir)]}]
             failed == [s EXCEPT !.phase = "failed"]
  <2>1. (pub' = [pub EXCEPT ![p] = accepted] \/ pub' = [pub EXCEPT ![p] = failed]) /\ UNCHANGED disk
    BY <1>6, Zenon DEF AcceptChild, Become, Accepted
  <2>2. accepted.phase = "partition" /\ failed.phase = "failed"
    BY <1>1 DEF Fields
  <2>. HIDE DEF accepted, failed
  <2>. QED
    BY <2>1, <2>2
<1>7. ASSUME Return(p) \/ Crash(p) PROVE Goal
  BY <1>7, RestingFields DEF Return, Crash, Become
<1>8. ASSUME SkipPartition(p) PROVE Goal
  <2>1. (\E d, reason : Reject(p, d, reason)) /\ UNCHANGED disk
    BY <1>8 DEF SkipPartition
  <2>. QED
    BY <1>4, <2>1
<1>9. ASSUME SelectPartition(p) PROVE Goal
  <2>1. /\ UNCHANGED disk
        /\ \/ \E d, reason : Reject(p, d, reason)
           \/ \E job : Become(p, [pub[p] EXCEPT !.phase = "open", !.job = job])
    BY <1>9, Zenon DEF SelectPartition
  <2>. QED
    BY <1>4, <1>5, <2>1
<1>10. ASSUME InstallBatch(p) PROVE Goal
  <2>1. UNCHANGED disk /\ \E job : Become(p, [pub[p] EXCEPT !.phase = "open", !.job = job])
    BY <1>10, Zenon DEF InstallBatch
  <2>. QED
    BY <1>5, <2>1
<1>11. ASSUME NEW request, \/ StartDocument(p, request) \/ StartResult(p, request)
                           \/ StartSpec(p, request) \/ StartAdjusted(p, request)
       PROVE  Goal
  <2>1. \E job : StartJob(p, request, job)
    BY <1>11, Zenon DEF StartDocument, StartResult, StartSpec, StartAdjusted
  <2>. QED
    BY <1>3, <2>1
<1>. HIDE DEF Goal
<1>12. Goal
  BY <1>2, <1>6, <1>7, <1>8, <1>9, <1>10, <1>11
<1>. QED
  BY <1>12 DEF Goal

LEMMA QuietShared ==
    ASSUME PubInv, SharedInv, NEW p \in Publishers, NEW t, pub' = [pub EXCEPT ![p] = t],
           disk'.files = disk.files,
           \/ t.phase \notin {"write", "stage", "link", "unlink"}
           \/ t.job.family \notin {"document", "result"}
    PROVE  SharedInv'
BY SameFilesGrow, NoNewFiles DEF Progress

\* Those who write to other directories.
LEMMA NotShared ==
    ASSUME PubInv, NEW p \in Publishers, pub[p].phase \notin {"idle", "partition", "failed"},
           pub[p].job.family \in Exclusive \cup {"spec"}
    PROVE  ~Shared(pub[p].job.dir) /\ pub[p].job.family \notin {"document", "result"}
<1>1. CASE pub[p].job.family \in Exclusive
  BY <1>1, WriterFits, ExclusiveKind DEF Shared, Exclusive, FeatureFamilies, Derived
<1>2. CASE pub[p].job.family \notin Exclusive
  BY <1>2, WriterFits, SharedShape DEF Shared
<1>. QED
  BY <1>1, <1>2

LEMMA OtherPutShared ==
    ASSUME PubInv, NEW x, NEW n, NEW c, ~Shared(x),
           disk' = [disk EXCEPT !.files = Put(<<x, n>>, c)]
    PROVE  Grown(disk, disk') /\ NothingNew(disk, disk')
<1>1. /\ DOMAIN disk'.files = DOMAIN disk.files \cup {<<x, n>>}
      /\ \A path \in DOMAIN disk.files : path # <<x, n>> => disk'.files[path] = disk.files[path]
  BY OnlyFile
<1>2. \A d, m : Shared(d) => <<d, m>> # <<x, n>>
  BY TwoEqual
<1>. QED
  BY <1>1, <1>2 DEF Grown, NothingNew

LEMMA OtherWritersShared ==
    ASSUME PubInv, SharedInv, NEW p \in Publishers,
           MakeDirectory(p) \/ CreateFile(p) \/ FillFile(p) \/ Overwrite(p)
    PROVE  SharedInv'
<1> DEFINE s == pub[p]
           x == s.job.dir
<1>1. /\ s.phase \in {"directory", "write", "fill", "stage"}
      /\ s.job.family \in Exclusive \cup {"spec"}
  BY WriterFits DEF MakeDirectory, CreateFile, FillFile, Overwrite, Fits
<1>2. ~Shared(x) /\ s.job.family \notin {"document", "result"} /\ DOMAIN s = Fields
  BY <1>1, NotShared, WriterFits DEF Fits
<1>3. \E t : pub' = [pub EXCEPT ![p] = t] /\ t.job = s.job
  <2>1. \A phase : [s EXCEPT !.phase = phase].job = s.job
    BY <1>2 DEF Fields
  <2>2. s.phase = "fill" => Written(p).job = s.job
    BY WrittenFits
  <2>3. FillFile(p) => s.phase = "fill" /\ pub' = [pub EXCEPT ![p] = Written(p)]
    BY DEF FillFile, Become
  <2>4. ~FillFile(p) => \E phase : pub' = [pub EXCEPT ![p] = [s EXCEPT !.phase = phase]]
    BY Zenon DEF MakeDirectory, CreateFile, Overwrite, Become
  <2>. QED
    BY <2>1, <2>2, <2>3, <2>4
<1>4. \/ disk'.files = disk.files
      \/ \E n, c : disk' = [disk EXCEPT !.files = Put(<<x, n>>, c)]
  <2>1. MakeDirectory(p) => disk'.files = disk.files
    BY OnlyDirectories DEF MakeDirectory
  <2>2. ~MakeDirectory(p) => \/ UNCHANGED disk
                             \/ \E n, c : disk' = [disk EXCEPT !.files = Put(<<x, n>>, c)]
    BY Zenon DEF CreateFile, FillFile, Overwrite, Here, Path
  <2>. QED
    BY <2>1, <2>2
<1>5. Grown(disk, disk') /\ NothingNew(disk, disk')
  BY <1>2, <1>4, SameFilesGrow, OtherPutShared
<1>6. PICK t : pub' = [pub EXCEPT ![p] = t] /\ t.job = s.job
  BY <1>3
<1>7. Progress(disk', t)
  BY <1>2, <1>6 DEF Progress
<1>. QED
  BY <1>5, <1>6, <1>7, NoNewFiles
LEMMA RemovalShared ==
    ASSUME PubInv, SharedInv, NEW p \in Publishers, DiskError(p)
    PROVE  SharedInv'
<1>1. PICK t : pub' = [pub EXCEPT ![p] = t] /\ t.phase \in {"partition", "failed"}
  BY DiskErrorShape
<1>2. CASE disk'.files = disk.files
  BY <1>1, <1>2, QuietShared
<1>3. CASE disk'.files # disk.files
  <2> DEFINE x == pub[p].job.dir
  <2>1. /\ ExclusivelyWriting(pub[p])
        /\ disk' = [disk EXCEPT !.dirs = @ \ {x},
                                !.files = [path \in {q \in DOMAIN @ : q[1] # x} |-> @[path]]]
    BY <1>3, DiskErrorShape, Zenon
  <2>2. ~Shared(x)
    BY <2>1, NotShared DEF ExclusivelyWriting
  <2>. HIDE DEF x
  <2>3. disk'.files = [path \in {q \in DOMAIN disk.files : q[1] # x} |-> disk.files[path]]
    BY <2>1 DEF PubInv, DiskInv
  <2>4. \A d, n : <<d, n>>[1] = d
    OBVIOUS
  <2>5. Grown(disk, disk') /\ NothingNew(disk, disk')
    BY <2>2, <2>3, <2>4 DEF Grown, NothingNew
  <2>6. Progress(disk', t)
    BY <1>1 DEF Progress
  <2>. QED
    BY <1>1, <2>5, <2>6, NoNewFiles
<1>. QED
  BY <1>2, <1>3

LEMMA OpenShared ==
    ASSUME PubInv, SharedInv, NEW p \in Publishers, Open(p)
    PROVE  SharedInv'
<1> DEFINE s == pub[p]
           phase == IF s.job.family \in Exclusive THEN OpenExclusive(s.job)
                    ELSE IF s.job.family = "result" THEN OpenResult(s.job) ELSE "write"
           t == [s EXCEPT !.at = 1, !.phase = phase]
<1>1. DOMAIN s = Fields /\ pub' = [pub EXCEPT ![p] = t] /\ UNCHANGED disk
  BY DEF PubInv, Fits, Open, Become
<1>2. phase \in {"directory", "published", "failed", "write"}
  BY DEF OpenExclusive, OpenResult
<1>. HIDE DEF phase
<1>3. t.at = 1 /\ t.phase = phase
  BY <1>1 DEF Fields
<1>. HIDE DEF t
<1>4. Progress(disk', t)
  BY <1>2, <1>3 DEF Progress, Done
<1>5. disk'.files = disk.files
  BY <1>1
<1>. QED
  BY <1>1, <1>4, <1>5, SameFilesGrow, NoNewFiles

LEMMA NextDone ==
    ASSUME NEW a, NEW job, Len(job.files) \in Nat, NEW n \in Nat, DoneWith(a, job, n),
           NEW m, m = n + 1
    PROVE  Done(a, job, m)
<1> DEFINE k == Len(job.files)
<1>1. k \in Nat
  OBVIOUS
<1>2. \A i \in 1..k : i < n => InPlace(a, job, i)
  BY DEF DoneWith, Done
<1>3. InPlace(a, job, n)
  BY DEF DoneWith
<1>. HIDE DEF k
<1>4. \A i \in 1..k : i < n + 1 => i < n \/ i = n
  BY <1>1
<1>5. \A i \in 1..k : i < m => InPlace(a, job, i)
  BY <1>2, <1>3, <1>4
<1>. QED
  BY <1>5 DEF Done, k

\* Where a publisher stands that goes to the next file.
LEMMA WrittenProgress ==
    ASSUME PubInv, NEW p \in Publishers,
           pub[p].phase \in {"write", "fill", "stage", "link", "unlink", "unlink and fail"},
           DoneWith(disk, pub[p].job, pub[p].at)
    PROVE  Progress(disk, Written(p))
<1>1. /\ Written(p).job = pub[p].job
      /\ \/ Written(p).phase = "published"
         \/ Written(p).phase = "write" /\ Written(p).at = pub[p].at + 1
  BY WrittenFits
<1>2. pub[p].at \in Nat /\ Len(pub[p].job.files) \in Nat
  BY WriterFits, JobShape DEF Fits
<1>3. Written(p).phase = "write" => Done(disk, Written(p).job, Written(p).at)
  BY <1>1, <1>2, NextDone, Zenon
<1>4. Written(p).phase \in {"write", "published"}
  BY <1>1
<1>. QED
  BY <1>3, <1>4 DEF Progress

LEMMA ExamineShared ==
    ASSUME PubInv, SharedInv, NEW p \in Publishers, ExamineFile(p)
    PROVE  SharedInv'
<1> DEFINE s == pub[p]
           t == Examine(p)
           stage == [s EXCEPT !.phase = "stage"]
           failed == [s EXCEPT !.phase = "failed"]
<1>1. s.phase = "write" /\ s.job.family \notin Exclusive /\ pub' = [pub EXCEPT ![p] = t]
  BY DEF ExamineFile, Become
<1>2. disk'.files = disk.files
  BY OnlyDirectories DEF ExamineFile
<1>3. DOMAIN s = Fields
  BY DEF PubInv, Fits
<1>4. /\ stage.phase = "stage" /\ stage.at = s.at /\ stage.job = s.job
      /\ failed.phase = "failed"
  BY <1>3, PhaseFields
<1>5. \/ t = stage \/ t = failed
      \/ /\ t = Written(p) /\ InPlace(disk, s.job, s.at)
  BY Zenon DEF Examine, InPlace, Present, Here, Mine
<1>. HIDE DEF stage, failed, t
<1>6. CASE s.job.family \in {"document", "result"}
  <2>1. Done(disk, s.job, s.at)
    BY <1>1, <1>6 DEF SharedInv, Progress
  <2>2. Progress(disk, stage)
    BY <1>4, <2>1 DEF Progress
  <2>3. Progress(disk, failed)
    BY <1>4 DEF Progress
  <2>4. ASSUME t = Written(p), InPlace(disk, s.job, s.at) PROVE Progress(disk, t)
    <3>1. DoneWith(disk, s.job, s.at)
      BY <2>1, <2>4 DEF DoneWith
    <3>2. Progress(disk, Written(p))
      BY <1>1, <3>1, WrittenProgress
    <3>. QED
      BY <2>4, <3>2
  <2>5. Progress(disk, t)
    BY <1>5, <2>2, <2>3, <2>4
  <2>6. Progress(disk', t)
    BY <1>2, <2>5 DEF Progress, DoneWith, Done, InPlace
  <2>. QED
    BY <1>1, <1>2, <2>6, SameFilesGrow, NoNewFiles
<1>7. CASE s.job.family \notin {"document", "result"}
  <2>1. Written(p).job = s.job
    BY <1>1, WrittenFits
  <2>2. t.job = s.job \/ t.phase = "failed"
    BY <1>4, <1>5, <2>1
  <2>. QED
    BY <1>1, <1>2, <1>7, <2>2, QuietShared
<1>. QED
  BY <1>6, <1>7

LEMMA TemporaryShared ==
    ASSUME PubInv, SharedInv, NEW p \in Publishers, WriteTemporary(p) \/ UnlinkTemporary(p)
    PROVE  SharedInv'
<1> DEFINE s == pub[p]
           link == [s EXCEPT !.phase = "link"]
           failed == [s EXCEPT !.phase = "failed"]
<1>1. \/ s.phase = "stage" /\ pub' = [pub EXCEPT ![p] = link]
      \/ s.phase = "unlink" /\ pub' = [pub EXCEPT ![p] = Written(p)]
      \/ s.phase = "unlink and fail" /\ pub' = [pub EXCEPT ![p] = failed]
  BY DEF WriteTemporary, UnlinkTemporary, Become
<1>2. disk'.files = disk.files
  BY DEF WriteTemporary, UnlinkTemporary, PubInv, DiskInv
<1>3. DOMAIN s = Fields
  BY DEF PubInv, Fits
<1>4. link.phase = "link" /\ link.at = s.at /\ link.job = s.job /\ failed.phase = "failed"
  BY <1>3, PhaseFields
<1>. HIDE DEF link, failed
<1>5. Progress(disk, s)
  BY DEF SharedInv
<1>6. s.phase = "stage" => Progress(disk, link)
  BY <1>4, <1>5 DEF Progress
<1>7. Progress(disk, failed)
  BY <1>4 DEF Progress
<1>8. ASSUME s.phase = "unlink" PROVE Progress(disk, Written(p))
  <2>1. CASE s.job.family \in {"document", "result"}
    <3>1. DoneWith(disk, s.job, s.at)
      BY <1>5, <1>8, <2>1 DEF Progress
    <3>. QED
      BY <1>8, <3>1, WrittenProgress
  <2>2. CASE s.job.family \notin {"document", "result"}
    <3>1. Written(p).job = s.job
      BY <1>8, WrittenFits
    <3>. QED
      BY <2>2, <3>1 DEF Progress
  <2>. QED
    BY <2>1, <2>2
<1>9. PICK t : pub' = [pub EXCEPT ![p] = t] /\ Progress(disk, t)
  BY <1>1, <1>6, <1>7, <1>8
<1>10. Progress(disk', t)
  BY <1>2, <1>9 DEF Progress, DoneWith, Done, InPlace
<1>. QED
  BY <1>2, <1>9, <1>10, SameFilesGrow, NoNewFiles
\* One file more.
Added(a, b, path, c) ==
    /\ DOMAIN b.files = DOMAIN a.files \cup {path} /\ b.files[path] = c
    /\ \A q \in DOMAIN a.files : q # path => b.files[q] = a.files[q]

LEMMA FileAdded ==
    ASSUME PubInv, NEW x, NEW n, NEW c, disk' = [disk EXCEPT !.files = Put(<<x, n>>, c)]
    PROVE  Added(disk, disk', <<x, n>>, c)
<1>1. /\ DOMAIN disk' = DOMAIN disk /\ disk'.files = Put(<<x, n>>, c)
  BY DEF PubInv, DiskInv
<1>. QED
  BY <1>1 DEF Added, Put

\* A new file of a document or a result; when it is the manifest, the others are there.
LEMMA PlaceShared ==
    ASSUME PubInv, SharedInv, NEW p \in Publishers, NEW t, pub' = [pub EXCEPT ![p] = t],
           NEW job, pub[p].job = job, SharedJob(job), job.family # "spec",
           NEW i \in 1..Len(job.files), Done(disk, job, i),
           NEW n, NEW c, Path(job, i) = <<job.dir, n>>, Content(job, i) = c,
           <<job.dir, n>> \notin DOMAIN disk.files,
           Added(disk, disk', <<job.dir, n>>, c),
           t.job = job, t.at = i, t.phase \in {"unlink", "unlink and fail"}
    PROVE  SharedInv'
<1> DEFINE x == job.dir
<1>0. Added(disk, disk', <<x, n>>, c) /\ Shared(x) /\ x.of = job.family
  BY SharedDirectory, SharedShape
<1>. HIDE DEF x
<1>1. /\ DOMAIN disk'.files = DOMAIN disk.files \cup {<<x, n>>} /\ disk'.files[<<x, n>>] = c
      /\ \A path \in DOMAIN disk.files : path # <<x, n>> => disk'.files[path] = disk.files[path]
      /\ \A d : d # x \/ n # ManifestName => (WholeIn(disk', d) <=> WholeIn(disk, d))
  <2>1. \A d : d # x \/ n # ManifestName => <<d, ManifestName>> # <<x, n>>
    BY TwoEqual
  <2>. QED
    BY <1>0, <2>1 DEF Added, WholeIn
<1>2. n = job.files[i].name /\ c = job.files[i].content
  BY TwoEqual DEF Path, Content
<1>3. /\ n = ManifestName <=> i = Len(job.files)
      /\ job.family = "document" /\ i # Len(job.files) => \E k : n = <<k, c>>
  BY <1>2, SharedFiles
<1>6. Path(job, i) = <<x, n>> /\ Content(job, i) = c
  BY DEF x
<1>7. Grown(disk, disk')
  <2>1. <<x, n>> \notin DOMAIN disk.files
    BY DEF x
  <2>2. \A path \in DOMAIN disk.files : path \in DOMAIN disk'.files /\ disk'.files[path] = disk.files[path]
    BY <1>1, <2>1
  <2>. QED
    BY <2>2 DEF Grown
<1>8. InPlace(disk', job, i)
  BY <1>1, <1>6 DEF InPlace
<1>9. Done(disk', job, i)
  <2>1. \A k : Done(disk, job, k) => Done(disk', job, k)
    BY <1>0, <1>7, DoneGrows DEF x
  <2>. QED
    BY <2>1, Zenon
<1>10. DoneWith(disk', job, i)
  BY <1>8, <1>9 DEF DoneWith
<1>11. Progress(disk', t)
  BY <1>10 DEF Progress
<1>12. \A q \in Publishers : Progress(disk', pub'[q])
  <2>1. pub'[p] = t /\ \A q \in Publishers \ {p} : pub'[q] = pub[q]
    BY DEF PubInv
  <2>. QED
    BY <1>7, <1>11, <2>1, ProgressGrows DEF SharedInv
<1>13. NamedByContent(disk')
  <2>. SUFFICES ASSUME NEW d, NEW m, d.of = "document", <<d, m>> \in DOMAIN disk'.files
                PROVE  m = ManifestName \/ \E k : m = <<k, disk'.files[<<d, m>>]>>
    BY DEF NamedByContent
  <2>1. CASE <<d, m>> = <<x, n>>
    <3>1. d = x /\ m = n /\ disk'.files[<<d, m>>] = c
      BY <1>1, <2>1, TwoEqual
    <3>. QED
      BY <1>0, <1>3, <3>1
  <2>2. CASE <<d, m>> # <<x, n>>
    <3>1. <<d, m>> \in DOMAIN disk.files /\ disk'.files[<<d, m>>] = disk.files[<<d, m>>]
      BY <1>1, <2>2
    <3>2. m = ManifestName \/ \E k : m = <<k, disk.files[<<d, m>>]>>
      BY <3>1 DEF SharedInv, NamedByContent
    <3>. QED
      BY <3>1, <3>2, Zenon
  <2>. QED
    BY <2>1, <2>2
<1>14. ManifestsHold(disk')
  <2>. SUFFICES ASSUME NEW d, Shared(d), WholeIn(disk', d) PROVE Holding(disk', d)
    BY DEF ManifestsHold
  <2>1. CASE d # x \/ n # ManifestName
    <3>1. WholeIn(disk, d)
      BY <1>1, <2>1
    <3>. QED
      BY <1>7, <3>1, HoldingGrows DEF SharedInv, ManifestsHold
  <2>2. CASE d = x /\ n = ManifestName
    <3>1. i = Len(job.files)
      BY <1>3, <2>2
    <3>2. Done(disk', job, Len(job.files))
      BY <1>9, <3>1
    <3>3. disk'.files[<<job.dir, ManifestName>>] = job.files[Len(job.files)].content
      BY <1>1, <1>2, <2>2, <3>1 DEF x
    <3>4. Holding(disk', job.dir)
      BY <3>2, <3>3, AllInPlace
    <3>. QED
      BY <2>2, <3>4 DEF x
  <2>. QED
    BY <2>1, <2>2
<1>. QED
  BY <1>12, <1>13, <1>14 DEF SharedInv

LEMMA LinkShared ==
    ASSUME PubInv, SharedInv, NEW p \in Publishers, LinkFile(p)
    PROVE  SharedInv'
<1> DEFINE s == pub[p]
           job == s.job
           n == job.files[s.at].name
           c == job.files[s.at].content
           t == [s EXCEPT !.phase = IF Present(<<job.dir, n>>) /\ disk.files[<<job.dir, n>>] # c
                                    THEN "unlink and fail" ELSE "unlink"]
<1>1. s.phase = "link" /\ Here(p) = <<job.dir, n>> /\ Mine(p) = c
  BY DEF LinkFile, Here, Mine, Path, Content
<1>2. /\ pub' = [pub EXCEPT ![p] = t]
      /\ disk' = IF Present(<<job.dir, n>>) THEN disk
                 ELSE [disk EXCEPT !.files = Put(<<job.dir, n>>, c)]
  BY <1>1, Zenon DEF LinkFile, Become
<1>3. /\ Fits(s) /\ JobFits(job) /\ s.at \in Nat /\ s.at \in 1..Len(job.files) /\ DOMAIN s = Fields
      /\ job.family \notin Exclusive \cup {"spec"}
  BY <1>1, WriterFits DEF Fits
<1>4. SharedJob(job) /\ job.family \in {"document", "result"} /\ Len(job.files) \in Nat
  BY <1>3, JobShape, SharedShape
<1>5. /\ t.at = s.at /\ t.job = job
      /\ t.phase = IF Present(<<job.dir, n>>) /\ disk.files[<<job.dir, n>>] # c
                   THEN "unlink and fail" ELSE "unlink"
  BY <1>3, PhaseFields
<1>. HIDE DEF t
<1>6. Done(disk, job, s.at)
  BY <1>1, <1>4 DEF SharedInv, Progress
<1>7. CASE Present(<<job.dir, n>>)
  <2>1. disk' = disk
    BY <1>2, <1>7
  <2>2. t.phase = "unlink" => InPlace(disk, job, s.at)
    BY <1>5, <1>7 DEF InPlace, Present, Path, Content
  <2>3. t.phase = "unlink" => DoneWith(disk, job, s.at)
    BY <1>6, <2>2 DEF DoneWith
  <2>4. t.phase \in {"unlink", "unlink and fail"}
    BY <1>5, Zenon
  <2>5. Progress(disk, t)
    BY <1>5, <2>3, <2>4 DEF Progress
  <2>6. Progress(disk', t)
    BY <2>1, <2>5
  <2>. QED
    BY <1>2, <2>1, <2>6, SameFilesGrow, NoNewFiles
<1>8. CASE ~Present(<<job.dir, n>>)
  <2>1. Added(disk, disk', <<job.dir, n>>, c) /\ t.phase = "unlink"
    <3>1. disk' = [disk EXCEPT !.files = Put(<<job.dir, n>>, c)]
      BY <1>2, <1>8
    <3>. QED
      BY <1>5, <1>8, <3>1, FileAdded
  <2>2. <<job.dir, n>> \notin DOMAIN disk.files /\ job.family # "spec"
    BY <1>3, <1>8 DEF Present
  <2>3. Path(job, s.at) = <<job.dir, n>> /\ Content(job, s.at) = c
    BY DEF Path, Content
  <2>4. /\ pub' = [pub EXCEPT ![p] = t] /\ pub[p].job = job /\ SharedJob(job)
        /\ s.at \in 1..Len(job.files) /\ t.job = job /\ t.at = s.at /\ Done(disk, job, s.at)
        /\ t.phase \in {"unlink", "unlink and fail"}
    BY <1>2, <1>3, <1>4, <1>5, <1>6, <2>1, Zenon
  <2>. HIDE DEF job, s, n, c
  <2>. QED
    BY <2>1, <2>2, <2>3, <2>4, PlaceShared, Zenon
<1>. QED
  BY <1>7, <1>8

LEMMA SharedInitHolds == PubInit => SharedInv
<1>. SUFFICES ASSUME PubInit PROVE SharedInv
  OBVIOUS
<1>1. DOMAIN disk.files = {}
  BY DEF PubInit
<1>2. \A p \in Publishers : pub[p] = Resting
  BY DEF PubInit
<1>3. \A p \in Publishers : Progress(disk, pub[p])
  BY <1>2, RestingFields DEF Progress
<1>. QED
  BY <1>1, <1>3 DEF SharedInv, NamedByContent, ManifestsHold, WholeIn

LEMMA SharedStep ==
    ASSUME PubInv, SharedInv, [PubNext]_pubVars
    PROVE  SharedInv'
<1>1. CASE UNCHANGED <<disk, pub>>
  BY <1>1 DEF SharedInv, NamedByContent, ManifestsHold, WholeIn, Holding, Kept, Progress, DoneWith, Done, InPlace
<1>2. ASSUME NEW p \in Publishers,
             \/ \E request : \/ StartBatch(p, request) \/ StartDocument(p, request)
                             \/ StartResult(p, request) \/ StartSpec(p, request)
                             \/ StartAdjusted(p, request)
             \/ SkipPartition(p) \/ SelectPartition(p) \/ InstallBatch(p) \/ AcceptChild(p)
             \/ Return(p) \/ Crash(p)
      PROVE  SharedInv'
  <2>1. PICK t : /\ pub' = [pub EXCEPT ![p] = t] /\ UNCHANGED disk
                 /\ t.phase \in {"idle", "partition", "open", "failed"}
    BY <1>2, QuietSteps
  <2>2. disk'.files = disk.files
    BY <2>1
  <2>. QED
    BY <2>1, <2>2, QuietShared
<1>3. ASSUME NEW p \in Publishers, Step(p) PROVE SharedInv'
  BY <1>2, <1>3, OpenShared, OtherWritersShared, ExamineShared, TemporaryShared, LinkShared DEF Step
<1>4. CASE PubNext
  BY <1>1, <1>2, <1>3, <1>4, RemovalShared DEF PubNext, publication
<1>5. CASE UNCHANGED pubVars
  BY <1>1, <1>5 DEF pubVars, publication
<1>. QED
  BY <1>4, <1>5

(***************************************************************************)
(* Documents and results, in every reachable state: the invariant by which *)
(* they can be rerun and relied on.                                        *)
(***************************************************************************)
THEOREM SharedInductive == PubSpec => []SharedInv
BY SharedInitHolds, SharedStep, PublishersInductive, PTL DEF PubSpec

(***************************************************************************)
(* An interrupted document can be collected again.                         *)
(***************************************************************************)
THEOREM InterruptedDocumentsCanBeRerun == PubSpec => []DocumentsCanBeRerun
<1>1. SharedInv => DocumentsCanBeRerun
  <2>. SUFFICES ASSUME SharedInv, NEW r \in Requests[theme], NEW job, job = DocumentJob(r),
                       ~Present(<<job.dir, ManifestName>>), NEW i \in DOMAIN job.files,
                       Present(Path(job, i))
                PROVE  disk.files[Path(job, i)] = Content(job, i)
    BY Zenon DEF DocumentsCanBeRerun
  <2>9. job.dir = [of |-> "document", id |-> r.document]
    BY DocumentShape, Zenon
  <2>1. job.dir.of = "document"
    BY <2>9
  <2>2. /\ Len(job.files) \in {2, 3}
        /\ job.files[1].name = <<"raw", r.raw>> /\ job.files[1].content = r.raw
        /\ Len(job.files) = 3 => job.files[2].name = <<"text", r.raw>> /\ job.files[2].content = r.raw
        /\ job.files[Len(job.files)].name = ManifestName
    BY DocumentFiles, Zenon
  <2> DEFINE n == job.files[i].name
  <2>3. i # Len(job.files)
    BY <2>2 DEF Path
  <2>4. \E k : n = <<k, job.files[i].content>>
    BY <2>2, <2>3
  <2>5. n # ManifestName
    BY <2>4, PairIsNotSingle DEF ManifestName
  <2>6. <<job.dir, n>> \in DOMAIN disk.files
    BY DEF Present, Path
  <2>. HIDE DEF n
  <2>7. \E k : n = <<k, disk.files[<<job.dir, n>>]>>
    BY <2>1, <2>5, <2>6 DEF SharedInv, NamedByContent
  <2>8. disk.files[<<job.dir, n>>] = job.files[i].content
    BY <2>4, <2>7, TwoEqual
  <2>. QED
    BY <2>8 DEF n, Path, Content
<1>. QED
  BY <1>1, SharedInductive, PTL

(***************************************************************************)
(* A published document and a published result can be relied on: the files *)
(* their manifest names are there, whole and with the content it names.    *)
(***************************************************************************)
THEOREM DocumentsAndResultsAreReadable ==
    PubSpec => [](/\ \A dir \in Published("document") : DocumentReadable(dir)
                  /\ \A dir \in Published("result") : ResultWhole(dir))
<1> DEFINE Claim == /\ \A dir \in Published("document") : DocumentReadable(dir)
                    /\ \A dir \in Published("result") : ResultWhole(dir)
<1>1. SharedInv => Claim
  <2>. SUFFICES ASSUME SharedInv PROVE Claim
    OBVIOUS
  <2>1. ASSUME NEW d, d \in Published("document") \cup Published("result")
        PROVE  HasWholeManifest(d) /\ Shared(d) /\ Holding(disk, d)
    BY <2>1 DEF Published, Shared, SharedInv, ManifestsHold, WholeIn, HasWholeManifest, Whole, Present
  <2>2. ASSUME NEW d \in Published("document") PROVE DocumentReadable(d)
    <3>1. HasWholeManifest(d) /\ Holding(disk, d) /\ d.of = "document"
      BY <2>1, <2>2 DEF Published
    <3>. QED
      BY <3>1, Zenon DEF DocumentReadable, Holding, Kept, ManifestAt, Whole, Present
  <2>3. ASSUME NEW d \in Published("result") PROVE ResultWhole(d)
    <3>1. HasWholeManifest(d) /\ Holding(disk, d) /\ d.of = "result"
      BY <2>1, <2>3 DEF Published
    <3>2. DOMAIN ResultFiles = 1..Len(ResultFiles)
      BY ResultFilesAssumption
    <3>. QED
      BY <3>1, <3>2 DEF ResultWhole, Holding, Kept, ManifestAt, Whole, Present
  <2>. QED
    BY <2>2, <2>3
<1>2. PubSpec => []SharedInv
  BY SharedInductive
<1>. QED
  BY <1>1, <1>2, PTL

-----------------------------------------------------------------------------
(***************************************************************************)
(* Feature artifacts, batches and adjusted series.  The publisher that     *)
(* made a directory of theirs has laid the files before the one it is at,  *)
(* and no other file is there; a whole manifest has exactly its files, and *)
(* a batch has been through every partition of its request once.           *)
(***************************************************************************)
HasOneWriter(d) == d.of \in {"artifact", "batch", "adjusted"}

FilesOf(a, d) == {path \in DOMAIN a.files \cup a.temps : path[1] = d}

\* What the readers of a family demand of a manifest and its part.
FamilyHolds(m) ==
    IF m.set \in Derived THEN DerivedManifestValid(m) /\ DerivedPartHolds(m.part, m)
    ELSE IF m.set = "market-momentum" THEN MomentumManifestValid(m) /\ MomentumPartHolds(m.part, m)
    ELSE BasicManifestValid(m) /\ BasicPartHolds(m.part, m)

\* An accepted child is published, as it was when it was accepted.
ChildAt(a, c) ==
    /\ c.id.of = "artifact" /\ WholeIn(a, c.id)
    /\ a.files[<<c.id, ManifestName>>] = c.manifest

Tells(c, set) ==
    /\ c.manifest.set = set
    /\ <<c.manifest.part.security, c.manifest.part.decision>> = <<c.security, c.decision>>

BatchHolds(d, m) ==
    /\ BatchManifestValid(m)
    /\ m.id = d
    /\ d.manifests = UNION {c.manifest.manifests : c \in m.accepted}
    /\ d.parts = UNION {c.manifest.parts : c \in m.accepted}
    /\ \A c \in m.accepted : Tells(c, d.set) /\ c.security \in d.universe /\ c.decision \in d.schedule

WithPart(a, d, m) ==
    /\ FilesOf(a, d) = {<<d, ManifestName>>, <<d, PartFile>>}
    /\ a.files[<<d, PartFile>>] = m.part

Sealed(a, d) ==
    LET m == a.files[<<d, ManifestName>>] IN
    /\ d.of \in {"artifact", "adjusted"} => WithPart(a, d, m)
    /\ d.of = "artifact" => FamilyHolds(m)
    /\ d.of = "batch" => /\ FilesOf(a, d) = {<<d, ManifestName>>}
                         /\ BatchHolds(d, m)
                         /\ \A c \in m.accepted : ChildAt(a, c)

-----------------------------------------------------------------------------
(***************************************************************************)
(* What a publisher knows of its batch.                                    *)
(***************************************************************************)
Grid(r) == r.schedule \X r.securities

RunsBatch(s) == s.phase = "partition" \/ s.todo # {} \/ s.job.family \in FeatureFamilies \cup {"batch"}

\* Every partition is still to be done, accepted or rejected, once.
OnceEach(s) ==
    /\ s.todo \subseteq Grid(s.request)
    /\ {Partition(i) : i \in s.accepted \cup s.rejected} = Grid(s.request) \ s.todo
    /\ \A i, j \in s.accepted \cup s.rejected : Partition(i) = Partition(j) => i = j
    /\ s.accepted \cap s.rejected = {}

ListingOK(s) ==
    /\ s.request \in Asked /\ s.request.kind = "batch" /\ CalendarKnown(s.request)
    /\ s.parts \subseteq SUBSET Stored
    /\ OnceEach(s)
    /\ \A c \in s.accepted : Tells(c, s.request.set)

Listed(a, s) == RunsBatch(s) => ListingOK(s) /\ \A c \in s.accepted : ChildAt(a, c)

\* The manifest of the partition that is next.
Describes(m, s) ==
    /\ FamilyHolds(m) /\ m.set = s.request.set
    /\ <<m.part.decision, m.part.security>> = NextPartition(s.todo)

JobOK(s) ==
    /\ s.phase = "directory" => s.at = 1
    /\ s.todo # {} => s.phase = "partition" \/ s.job.family \in FeatureFamilies
    /\ s.job.family \in FeatureFamilies =>
          s.todo # {} /\ \E m : s.job.files = ManifestLast(s.job.family, m) /\ Describes(m, s)
    /\ s.job.family = "batch" => s.todo = {} /\ s.job = BatchJob(s.request, s.accepted, s.rejected)

\* The files that are in the directory of a publisher that writes.
Begun(s) == {i \in 1..Len(s.job.files) : i < s.at \/ (i = s.at /\ s.phase = "fill")}

Laid(a, s) ==
    ExclusivelyWriting(s) =>
       /\ FilesOf(a, s.job.dir) = {Path(s.job, i) : i \in Begun(s)}
       /\ Done(a, s.job, s.at)

\* The manifest of a child that is published is the publisher's own, and stays.
Finished(a, s) ==
    s.phase = "published" /\ s.job.family \in FeatureFamilies =>
       /\ s.job.dir \in a.dirs
       /\ <<s.job.dir, ManifestName>> \in DOMAIN a.files
       /\ a.files[<<s.job.dir, ManifestName>>] = Content(s.job, Len(s.job.files))

Unwritten(b, s) ==
    s.phase = "published" /\ s.job.family \in FeatureFamilies =>
       \A q \in Publishers : ExclusivelyWriting(b[q]) => b[q].job.dir # s.job.dir

OwnedInv ==
    /\ \A path \in disk.temps : ~HasOneWriter(path[1])
    /\ \A d : HasOneWriter(d) /\ WholeIn(disk, d) => Sealed(disk, d)
    /\ \A p \in Publishers :
          /\ Listed(disk, pub[p]) /\ JobOK(pub[p])
          /\ Laid(disk, pub[p]) /\ Finished(disk, pub[p]) /\ Unwritten(pub, pub[p])

-----------------------------------------------------------------------------
(***************************************************************************)
(* Finite sets of numbers and of pairs of numbers have an end.             *)
(***************************************************************************)
LEMMA LeastNumber ==
    ASSUME NEW N, N \subseteq Nat, N # {} PROVE \E n \in N : \A k \in N : n <= k
<1>1. PICK n \in N : \A k \in N : ~(<<k, n>> \in OpToRel(<, Nat))
  BY WFMin, NatLessThanWellFounded, Zenon
<1>2. \A k \in N : k < n => <<k, n>> \in OpToRel(<, Nat)
  BY DEF OpToRel
<1>3. \A k \in N : ~(k < n)
  BY <1>1, <1>2, Zenon
<1>4. \A k \in N : n <= k
  BY <1>3
<1>. QED
  BY <1>4

\* In a finite set, a strict order has a minimal element.
LEMMA MinimalElement ==
    ASSUME NEW S, IsFiniteSet(S), S # {}, NEW below, \A t \in S : below[t] \subseteq S,
           \A t \in S : t \notin below[t],
           \A t, u \in S : u \in below[t] => below[u] \subseteq below[t]
    PROVE  \E t \in S : below[t] = {}
<1>1. \A t \in S : IsFiniteSet(below[t]) /\ Cardinality(below[t]) \in Nat
  BY FS_Subset, FS_CardinalityType
<1> DEFINE N == {Cardinality(below[t]) : t \in S}
<1>2. PICK n \in N : \A k \in N : n <= k
  <2>1. N \subseteq Nat /\ N # {}
    BY <1>1
  <2>. HIDE DEF N
  <2>. QED
    BY <2>1, LeastNumber
<1>3. PICK t \in S : n = Cardinality(below[t])
  BY <1>2
<1>4. ASSUME NEW u \in below[t] PROVE FALSE
  <2>1. u \in S
    OBVIOUS
  <2>2. below[u] \subseteq below[t] /\ below[u] # below[t]
    BY <1>4, <2>1
  <2>3. Cardinality(below[u]) < Cardinality(below[t])
    <3>1. IsFiniteSet(below[t]) /\ below[u] \in SUBSET below[t]
      BY <1>1, <2>2
    <3>2. /\ Cardinality(below[u]) <= Cardinality(below[t])
          /\ Cardinality(below[t]) = Cardinality(below[u]) => below[t] = below[u]
      BY <3>1, FS_Subset
    <3>3. Cardinality(below[u]) \in Nat /\ Cardinality(below[t]) \in Nat
      BY <1>1, <2>1
    <3>. QED
      BY <2>2, <3>2, <3>3
  <2>4. Cardinality(below[u]) \in N
    BY <2>1
  <2>5. n <= Cardinality(below[u])
    BY <1>2, <2>4
  <2>. QED
    BY <1>1, <1>3, <2>1, <2>3, <2>5
<1>. QED
  BY <1>4

\* The partition that is next is one that is left.
LEMMA NextIsLeft ==
    ASSUME NEW S, IsFiniteSet(S), S # {}, \A t \in S : t[1] \in Int /\ t[2] \in Int
    PROVE  NextPartition(S) \in S
<1> DEFINE Before(u, t) == u[1] < t[1] \/ (u[1] = t[1] /\ u[2] < t[2])
           below == [t \in S |-> {u \in S : Before(u, t)}]
<1>1. \A t \in S : below[t] \subseteq S /\ t \notin below[t]
  OBVIOUS
<1>2. \A t, u \in S : u \in below[t] => below[u] \subseteq below[t]
  <2>. SUFFICES ASSUME NEW t \in S, NEW u \in S, Before(u, t), NEW v \in S, Before(v, u)
                PROVE  Before(v, t)
    OBVIOUS
  <2>1. /\ t[1] \in Int /\ t[2] \in Int /\ u[1] \in Int /\ u[2] \in Int
        /\ v[1] \in Int /\ v[2] \in Int
    OBVIOUS
  <2>. QED
    BY <2>1
<1>3. PICK t \in S : below[t] = {}
  <2>. HIDE DEF below
  <2>. QED
    BY <1>1, <1>2, MinimalElement
<1>4. \A u \in S : ~Before(u, t)
  BY <1>3
<1>5. \A u \in S : t[1] < u[1] \/ (t[1] = u[1] /\ t[2] <= u[2])
  <2>. SUFFICES ASSUME NEW u \in S PROVE t[1] < u[1] \/ (t[1] = u[1] /\ t[2] <= u[2])
    OBVIOUS
  <2>1. t[1] \in Int /\ t[2] \in Int /\ u[1] \in Int /\ u[2] \in Int
    OBVIOUS
  <2>. QED
    BY <1>4, <2>1
<1>. QED
  BY <1>5, Zenon DEF NextPartition

\* Instants that are not later than some instant have a last one.
LEMMA LatestIsLast ==
    ASSUME NEW S, S \subseteq Int, S # {}, NEW end \in Int, \A n \in S : n <= end
    PROVE  Latest(S) \in S /\ \A n \in S : n <= Latest(S)
<1> DEFINE N == {end - n : n \in S}
<1>1. N \subseteq Nat /\ N # {}
  <2>1. \A n \in S : end - n \in Nat
    OBVIOUS
  <2>. QED
    BY <2>1
<1>2. PICK k \in N : \A l \in N : k <= l
  <2>. HIDE DEF N
  <2>. QED
    BY <1>1, LeastNumber
<1>3. PICK m \in S : k = end - m
  BY <1>2
<1>4. ASSUME NEW n \in S PROVE n <= m
  <2>1. k <= end - n
    BY <1>2
  <2>2. n \in Int /\ m \in Int
    OBVIOUS
  <2>. QED
    BY <1>3, <2>1, <2>2
<1>. QED
  BY <1>4, Zenon DEF Latest

LEMMA TheOnlyOne == ASSUME NEW x PROVE TheOnly({x}) = x
BY DEF TheOnly

\* As many items as partitions, when every partition has one.
LEMMA ItemsCounted ==
    ASSUME NEW S, NEW G, IsFiniteSet(G), {Partition(i) : i \in S} = G,
           \A i, j \in S : Partition(i) = Partition(j) => i = j
    PROVE  IsFiniteSet(S) /\ Cardinality(S) = Cardinality(G)
<1>1. PICK f : f = [i \in S |-> Partition(i)]
  OBVIOUS
<1>2. f \in Injection(S, G)
  BY <1>1 DEF Injection, IsInjective
<1>3. f \in Surjection(S, G)
  BY <1>1 DEF Surjection
<1>. QED
  BY <1>2, <1>3, FS_Injection

LEMMA PartitionsOfBatch ==
    ASSUME NEW s, OnceEach(s), s.todo = {}, IsFiniteSet(Grid(s.request))
    PROVE  /\ \A items \in {s.accepted, s.rejected} :
                 Cardinality({Partition(i) : i \in items}) = Cardinality(items)
           /\ Cardinality(Grid(s.request)) = Cardinality(s.accepted) + Cardinality(s.rejected)
<1> DEFINE A == s.accepted
           R == s.rejected
           G == Grid(s.request)
<1>1. {Partition(i) : i \in A \cup R} = G /\ A \cap R = {}
  BY DEF OnceEach
<1>2. \A i, j \in A \cup R : Partition(i) = Partition(j) => i = j
  BY DEF OnceEach
<1>. HIDE DEF A, R, G
<1>3. IsFiniteSet(A \cup R) /\ Cardinality(A \cup R) = Cardinality(G)
  BY <1>1, <1>2, ItemsCounted DEF G
<1>4. IsFiniteSet(A) /\ IsFiniteSet(R)
  BY <1>3, FS_Subset
<1>5. Cardinality(A \cup R) = Cardinality(A) + Cardinality(R)
  <2>1. Cardinality(A \cap R) = 0
    BY <1>1, FS_EmptySet
  <2>2. Cardinality(A) \in Nat /\ Cardinality(R) \in Nat
    BY <1>4, FS_CardinalityType
  <2>3. Cardinality(A \cup R) = Cardinality(A) + Cardinality(R) - Cardinality(A \cap R)
    BY <1>4, FS_Union
  <2>. QED
    BY <2>1, <2>2, <2>3
<1>6. ASSUME NEW items \in {A, R} PROVE Cardinality({Partition(i) : i \in items}) = Cardinality(items)
  <2>1. PICK H : H = {Partition(i) : i \in items}
    OBVIOUS
  <2>2. H \subseteq G /\ \A i, j \in items : Partition(i) = Partition(j) => i = j
    BY <1>1, <1>2, <2>1
  <2>3. IsFiniteSet(H)
    BY <2>2, FS_Subset DEF G
  <2>. QED
    BY <2>1, <2>2, <2>3, ItemsCounted
<1>. QED
  BY <1>3, <1>5, <1>6 DEF A, R, G

-----------------------------------------------------------------------------
(***************************************************************************)
(* What a step leaves alone.  A step touches one directory x at most: one  *)
(* that its publisher is writing exclusively, or one of a shared family.   *)
(***************************************************************************)
SameIn(a, b, d) ==
    /\ FilesOf(b, d) = FilesOf(a, d)
    /\ \A path : path[1] = d => /\ path \in DOMAIN b.files <=> path \in DOMAIN a.files
                                /\ path \in DOMAIN a.files => b.files[path] = a.files[path]

Touches(p, x) ==
    /\ \A d : d # x => SameIn(disk, disk', d)
    /\ HasOneWriter(x) => \/ SameIn(disk, disk', x)
                          \/ ExclusivelyWriting(pub[p]) /\ pub[p].job.dir = x

LEMMA SameManifest ==
    ASSUME NEW a, NEW b, NEW d, SameIn(a, b, d)
    PROVE  /\ WholeIn(b, d) <=> WholeIn(a, d)
           /\ <<d, ManifestName>> \in DOMAIN b.files <=> <<d, ManifestName>> \in DOMAIN a.files
           /\ <<d, ManifestName>> \in DOMAIN a.files
                 => b.files[<<d, ManifestName>>] = a.files[<<d, ManifestName>>]
<1>1. <<d, ManifestName>>[1] = d
  OBVIOUS
<1>. QED
  BY <1>1 DEF SameIn, WholeIn

\* A directory of one writer that is whole, or that another one writes, is left alone.
LEMMA LeftAlone ==
    ASSUME PubInv, NEW p \in Publishers, NEW x, Touches(p, x), NEW d, HasOneWriter(d),
           \/ WholeIn(disk, d)
           \/ \E q \in Publishers \ {p} : ExclusivelyWriting(pub[q]) /\ pub[q].job.dir = d
           \/ ~\E q \in Publishers : ExclusivelyWriting(pub[q]) /\ pub[q].job.dir = d
    PROVE  SameIn(disk, disk', d)
<1>1. CASE d # x
  BY <1>1 DEF Touches
<1>2. CASE d = x /\ ExclusivelyWriting(pub[p]) /\ pub[p].job.dir = x
  <2>1. Alone(p, d) /\ ~WholeIn(disk, d)
    BY <1>2, ExclusiveWriterIsAlone
  <2>. QED
    BY <1>2, <2>1 DEF Alone
<1>. QED
  BY <1>1, <1>2 DEF Touches

LEMMA ChildKept ==
    ASSUME PubInv, NEW p \in Publishers, NEW x, Touches(p, x), NEW c, ChildAt(disk, c)
    PROVE  ChildAt(disk', c)
<1>1. HasOneWriter(c.id) /\ WholeIn(disk, c.id)
  BY DEF ChildAt, HasOneWriter
<1>2. SameIn(disk, disk', c.id)
  BY <1>1, LeftAlone
<1>. QED
  BY <1>1, <1>2, SameManifest DEF ChildAt, WholeIn

LEMMA SealedKept ==
    ASSUME PubInv, OwnedInv, NEW p \in Publishers, NEW x, Touches(p, x),
           NEW d, HasOneWriter(d), WholeIn(disk, d)
    PROVE  Sealed(disk', d)
<1>1. SameIn(disk, disk', d)
  BY LeftAlone
<1>2. PICK m : m = disk.files[<<d, ManifestName>>]
  OBVIOUS
<1>3. disk'.files[<<d, ManifestName>>] = m
  BY <1>1, <1>2, SameManifest DEF WholeIn
<1>4. Sealed(disk, d)
  BY DEF OwnedInv
<1>5. WithPart(disk, d, m) => WithPart(disk', d, m)
  <2>. SUFFICES ASSUME WithPart(disk, d, m) PROVE WithPart(disk', d, m)
    OBVIOUS
  <2>1. <<d, PartFile>>[1] = d
    OBVIOUS
  <2>2. FilesOf(disk', d) = FilesOf(disk, d)
    BY <1>1 DEF SameIn
  <2>3. <<d, PartFile>> \in DOMAIN disk.files
    <3>1. <<d, PartFile>> \in DOMAIN disk.files \cup disk.temps
      BY DEF WithPart, FilesOf
    <3>2. <<d, PartFile>> \notin disk.temps
      BY <2>1 DEF OwnedInv
    <3>. QED
      BY <3>1, <3>2
  <2>4. disk'.files[<<d, PartFile>>] = disk.files[<<d, PartFile>>]
    BY <1>1, <2>1, <2>3 DEF SameIn
  <2>. QED
    BY <2>2, <2>4 DEF WithPart
<1>6. FilesOf(disk', d) = FilesOf(disk, d)
  BY <1>1 DEF SameIn
<1>7. \A c : ChildAt(disk, c) => ChildAt(disk', c)
  BY ChildKept
<1>8. /\ d.of \in {"artifact", "adjusted"} => WithPart(disk, d, m)
      /\ d.of = "artifact" => FamilyHolds(m)
      /\ d.of = "batch" => /\ FilesOf(disk, d) = {<<d, ManifestName>>}
                           /\ BatchHolds(d, m)
                           /\ \A c \in m.accepted : ChildAt(disk, c)
  BY <1>2, <1>4, Zenon DEF Sealed
<1>9. /\ d.of \in {"artifact", "adjusted"} => WithPart(disk', d, m)
      /\ d.of = "artifact" => FamilyHolds(m)
      /\ d.of = "batch" => /\ FilesOf(disk', d) = {<<d, ManifestName>>}
                           /\ BatchHolds(d, m)
                           /\ \A c \in m.accepted : ChildAt(disk', c)
  BY <1>5, <1>6, <1>7, <1>8, Zenon
<1>. QED
  BY <1>3, <1>9, Zenon DEF Sealed

\* Those who write elsewhere find what they have laid.
LEMMA LaidKept ==
    ASSUME PubInv, OwnedInv, NEW p \in Publishers, NEW x, Touches(p, x), NEW q \in Publishers \ {p}
    PROVE  Laid(disk', pub[q])
<1>. SUFFICES ASSUME ExclusivelyWriting(pub[q])
              PROVE  /\ FilesOf(disk', pub[q].job.dir) = {Path(pub[q].job, i) : i \in Begun(pub[q])}
                     /\ Done(disk', pub[q].job, pub[q].at)
  BY DEF Laid
<1> DEFINE d == pub[q].job.dir
<1>1. HasOneWriter(d)
  BY WriterFits, ExclusiveKind DEF ExclusivelyWriting, HasOneWriter
<1>2. SameIn(disk, disk', d)
  BY <1>1, LeftAlone
<1>3. Laid(disk, pub[q])
  BY DEF OwnedInv
<1>4. \A i : Path(pub[q].job, i)[1] = d
  BY DEF Path
<1>5. \A i : InPlace(disk, pub[q].job, i) => InPlace(disk', pub[q].job, i)
  BY <1>2, <1>4 DEF InPlace, SameIn
<1>6. Done(disk', pub[q].job, pub[q].at)
  BY <1>3, <1>5 DEF Laid, Done
<1>. QED
  BY <1>2, <1>3, <1>6 DEF Laid, SameIn

LEMMA FinishedKept ==
    ASSUME PubInv, OwnedInv, NEW p \in Publishers, NEW x, Touches(p, x), NEW q \in Publishers,
           \A d \in disk.dirs : d \in disk'.dirs \/ d.of = "adjusted"
    PROVE  Finished(disk', pub[q])
<1>. SUFFICES ASSUME pub[q].phase = "published", pub[q].job.family \in FeatureFamilies
              PROVE  Finished(disk', pub[q])
  BY DEF Finished
<1> DEFINE d == pub[q].job.dir
<1>1. d.of = "artifact"
  BY WriterFits, JobShape DEF DirectoryKind
<1>2. HasOneWriter(d)
  BY <1>1 DEF HasOneWriter
<1>3. \A r \in Publishers : ExclusivelyWriting(pub[r]) => pub[r].job.dir # d
  BY DEF OwnedInv, Unwritten
<1>4. Finished(disk, pub[q])
  BY DEF OwnedInv
<1>5. d \in disk.dirs /\ d \in disk'.dirs
  BY <1>1, <1>4 DEF Finished
<1>. HIDE DEF d
<1>6. SameIn(disk, disk', d)
  BY <1>2, <1>3, LeftAlone
<1>7. /\ <<d, ManifestName>> \in DOMAIN disk'.files
      /\ disk'.files[<<d, ManifestName>>] = Content(pub[q].job, Len(pub[q].job.files))
  BY <1>4, <1>6, SameManifest DEF Finished, d
<1>. QED
  BY <1>5, <1>7 DEF Finished, d

LEMMA OwnedStep ==
    ASSUME PubInv, OwnedInv, NEW p \in Publishers, NEW t, pub' = [pub EXCEPT ![p] = t],
           NEW x, Touches(p, x),
           \A path \in disk'.temps : ~HasOneWriter(path[1]),
           \A d \in disk.dirs : d \in disk'.dirs \/ d.of = "adjusted",
           HasOneWriter(x) /\ ~WholeIn(disk, x) /\ WholeIn(disk', x) => Sealed(disk', x),
           RunsBatch(t) => ListingOK(t) /\ \A c \in t.accepted : ChildAt(disk, c),
           JobOK(t), Laid(disk', t), Finished(disk', t), Unwritten(pub', t),
           ExclusivelyWriting(t) => \/ ExclusivelyWriting(pub[p]) /\ pub[p].job.dir = t.job.dir
                                    \/ t.job.dir \notin disk.dirs
    PROVE  OwnedInv'
<1>1. pub'[p] = t /\ \A q \in Publishers \ {p} : pub'[q] = pub[q]
  BY DEF PubInv
<1>2. \A c : ChildAt(disk, c) => ChildAt(disk', c)
  BY ChildKept
<1>3. ASSUME NEW d, HasOneWriter(d), WholeIn(disk', d) PROVE Sealed(disk', d)
  <2>1. CASE WholeIn(disk, d)
    BY <1>3, <2>1, SealedKept
  <2>2. CASE ~WholeIn(disk, d) /\ d = x
    BY <1>3, <2>2
  <2>3. CASE ~WholeIn(disk, d) /\ d # x
    <3>1. SameIn(disk, disk', d)
      BY <2>3 DEF Touches
    <3>. QED
      BY <1>3, <2>3, <3>1, SameManifest
  <2>. QED
    BY <2>1, <2>2, <2>3
<1>4. ASSUME NEW q \in Publishers
      PROVE  Listed(disk', pub'[q]) /\ JobOK(pub'[q]) /\ Laid(disk', pub'[q]) /\ Finished(disk', pub'[q])
  <2>1. CASE q = p
    BY <1>1, <1>2, <2>1 DEF Listed
  <2>2. CASE q # p
    <3>1. pub'[q] = pub[q] /\ Listed(disk, pub[q]) /\ JobOK(pub[q])
      BY <1>1, <2>2 DEF OwnedInv
    <3>2. Laid(disk', pub[q]) /\ Finished(disk', pub[q])
      BY <2>2, LaidKept, FinishedKept
    <3>. QED
      BY <1>2, <3>1, <3>2 DEF Listed
  <2>. QED
    BY <2>1, <2>2
<1>5. ASSUME NEW q \in Publishers PROVE Unwritten(pub', pub'[q])
  <2>1. CASE q = p
    BY <1>1, <2>1
  <2>2. CASE q # p
    <3>. SUFFICES ASSUME pub[q].phase = "published", pub[q].job.family \in FeatureFamilies,
                         NEW r \in Publishers, ExclusivelyWriting(pub'[r])
                  PROVE  pub'[r].job.dir # pub[q].job.dir
      BY <1>1, <2>2 DEF Unwritten
    <3>1. Unwritten(pub, pub[q]) /\ Finished(disk, pub[q])
      BY DEF OwnedInv
    <3>2. \A o \in Publishers : ExclusivelyWriting(pub[o]) => pub[o].job.dir # pub[q].job.dir
      BY <3>1 DEF Unwritten
    <3>3. pub[q].job.dir \in disk.dirs
      BY <3>1 DEF Finished
    <3>4. CASE r # p
      BY <1>1, <3>2, <3>4
    <3>5. CASE r = p
      BY <1>1, <3>2, <3>3, <3>5
    <3>. QED
      BY <3>4, <3>5
  <2>. QED
    BY <2>1, <2>2
<1>. QED
  BY <1>3, <1>4, <1>5 DEF OwnedInv

-----------------------------------------------------------------------------
(***************************************************************************)
(* The manifest of a feature artifact is what its readers demand.          *)
(***************************************************************************)
EnvelopeNames == {"set", "commit", "decision", "calendar", "inputAvailable", "available",
                  "manifests", "parts", "mapping"}

\* The fields a manifest has from its envelope.
Carries(m, e) == \A x \in EnvelopeNames : m[x] = e[x]

LEMMA CarriedHolds ==
    ASSUME NEW m, NEW e, Carries(m, e)
    PROVE  /\ TimingHolds(m) <=> TimingHolds(e)
           /\ LineageListed(m) <=> LineageListed(e)
           /\ InputFingerprint(m) = InputFingerprint(e)
           /\ m.set = e.set /\ m.decision = e.decision /\ m.mapping = e.mapping
<1>1. /\ m.set = e.set /\ m.decision = e.decision /\ m.calendar = e.calendar
      /\ m.inputAvailable = e.inputAvailable /\ m.available = e.available
      /\ m.manifests = e.manifests /\ m.parts = e.parts /\ m.mapping = e.mapping
  BY DEF Carries, EnvelopeNames
<1>2. TimingHolds(m) <=> TimingHolds(e)
  BY <1>1, Zenon DEF TimingHolds, CalendarPinHolds
<1>3. LineageListed(m) <=> LineageListed(e)
  BY <1>1, Zenon DEF LineageListed
<1>4. InputFingerprint(m) = InputFingerprint(e)
  BY <1>1, Zenon DEF InputFingerprint
<1>. QED
  BY <1>1, <1>2, <1>3, <1>4

LEMMA EnvelopeValues ==
    ASSUME NEW set, NEW commit, NEW decision, NEW calendar, NEW available, NEW lineage, NEW e,
           e = Envelope(set, commit, decision, calendar, available, lineage)
    PROVE  /\ DOMAIN e = EnvelopeNames
           /\ e.set = set /\ e.decision = decision /\ e.calendar = calendar
           /\ e.inputAvailable = available /\ e.available = available + Delay
           /\ e.manifests = lineage.manifests /\ e.parts = lineage.parts /\ e.mapping = Mapping(set)
BY DEF Envelope, EnvelopeNames

\* Agreement of the row of the part with the manifest.
LEMMA RowAgrees ==
    ASSUME NEW m, NEW subject, NEW features, NEW row, row = Row(m, subject, features)
    PROVE  /\ DOMAIN row = {"security", "set", "commit", "id", "decision", "inputAvailable",
                            "available", "fingerprint", "features"}
           /\ \A field \in Agreed : row[field] = m[field]
           /\ row.features = features /\ row.security = subject.security
<1>1. /\ DOMAIN row = {"security", "set", "commit", "id", "decision", "inputAvailable",
                       "available", "fingerprint", "features"}
      /\ row.features = features /\ row.security = subject.security
      /\ row.set = m.set /\ row.commit = m.commit /\ row.id = m.id /\ row.decision = m.decision
      /\ row.inputAvailable = m.inputAvailable /\ row.available = m.available
      /\ row.fingerprint = m.fingerprint
  BY DEF Row
<1>. QED
  BY <1>1 DEF Agreed

LEMMA BasicManifestFields ==
    ASSUME NEW e, DOMAIN e = EnvelopeNames, NEW subject, NEW features,
           NEW m, m = BasicManifest(e, subject, features)
    PROVE  /\ Carries(m, e) /\ m.names = DOMAIN features /\ m.fingerprint = InputFingerprint(e)
           /\ \A field \in Agreed : m.part[field] = m[field]
           /\ m.part.features = features /\ m.part.security = subject.security
<1> DEFINE fingerprint == InputFingerprint(e)
           head == [id |-> ArtifactId(e.set, subject, fingerprint), fingerprint |-> fingerprint]
           n == Extended(head, e)
           top == [names |-> DOMAIN features, part |-> Row(n, subject, features)]
<1>1. m = Extended(top, n)
  BY Zenon DEF BasicManifest
<1>2. DOMAIN head = {"id", "fingerprint"} /\ head.fingerprint = fingerprint
  OBVIOUS
<1>3. DOMAIN top = {"names", "part"} /\ top.names = DOMAIN features
      /\ top.part = Row(n, subject, features)
  OBVIOUS
<1>. HIDE DEF fingerprint, head, top
<1>4. /\ DOMAIN n = DOMAIN head \cup DOMAIN e
      /\ \A x \in DOMAIN head : n[x] = head[x]
      /\ \A x \in DOMAIN e \ DOMAIN head : n[x] = e[x]
  BY ExtendedFields
<1>. HIDE DEF n
<1>5. /\ \A x \in DOMAIN top : Extended(top, n)[x] = top[x]
      /\ \A x \in DOMAIN n \ DOMAIN top : Extended(top, n)[x] = n[x]
  BY ExtendedFields
<1>6. m.names = DOMAIN features /\ m.part = Row(n, subject, features)
  BY <1>1, <1>3, <1>5
<1>7. \A x \in EnvelopeNames : n[x] = e[x] /\ m[x] = n[x]
  BY <1>1, <1>2, <1>3, <1>4, <1>5 DEF EnvelopeNames
<1>8. m.fingerprint = n.fingerprint /\ n.fingerprint = fingerprint /\ m.id = n.id
  BY <1>1, <1>2, <1>3, <1>4, <1>5
<1>9. \A field \in Agreed : m[field] = n[field]
  BY <1>7, <1>8 DEF Agreed, EnvelopeNames
<1>10. /\ \A field \in Agreed : m.part[field] = n[field]
       /\ m.part.features = features /\ m.part.security = subject.security
  BY <1>6, RowAgrees
<1>. QED
  BY <1>6, <1>7, <1>8, <1>9, <1>10 DEF Carries, fingerprint

LEMMA DerivedManifestFields ==
    ASSUME NEW e, DOMAIN e = EnvelopeNames, NEW subject, NEW features,
           NEW m, m = DerivedManifest(e, subject, features)
    PROVE  /\ Carries(m, e) /\ m.names = DOMAIN features /\ m.fingerprint = InputFingerprint(e)
           /\ m.identity = subject
           /\ \A field \in Agreed \cup {"identity", "mapping"} : m.part[field] = m[field]
           /\ m.part.features = features /\ m.part.security = subject.security
<1> DEFINE fingerprint == InputFingerprint(e)
           head == [id |-> DerivedArtifactId(subject, fingerprint), fingerprint |-> fingerprint]
           n == Extended(head, e)
           row == Row(n, subject, features)
           more == [identity |-> subject, mapping |-> n.mapping]
           part == Extended(more, row)
           top == [names |-> DOMAIN features, identity |-> subject, part |-> part]
<1>1. m = Extended(top, n)
  BY Zenon DEF DerivedManifest
<1>2. DOMAIN head = {"id", "fingerprint"} /\ head.fingerprint = fingerprint
  OBVIOUS
<1>3. DOMAIN top = {"names", "identity", "part"} /\ top.names = DOMAIN features
      /\ top.part = part /\ top.identity = subject
  OBVIOUS
<1>4. DOMAIN more = {"identity", "mapping"} /\ more.identity = subject /\ more.mapping = n.mapping
  OBVIOUS
<1>. HIDE DEF fingerprint, head, top, more
<1>5. /\ DOMAIN n = DOMAIN head \cup DOMAIN e
      /\ \A x \in DOMAIN head : n[x] = head[x]
      /\ \A x \in DOMAIN e \ DOMAIN head : n[x] = e[x]
  BY ExtendedFields
<1>. HIDE DEF n
<1>6. /\ DOMAIN row = {"security", "set", "commit", "id", "decision", "inputAvailable",
                       "available", "fingerprint", "features"}
      /\ \A field \in Agreed : row[field] = n[field]
      /\ row.features = features /\ row.security = subject.security
  BY RowAgrees
<1>. HIDE DEF row
<1>7. /\ \A x \in DOMAIN more : part[x] = more[x]
      /\ \A x \in DOMAIN row \ DOMAIN more : part[x] = row[x]
  BY ExtendedFields
<1>. HIDE DEF part
<1>8. /\ \A x \in DOMAIN top : Extended(top, n)[x] = top[x]
      /\ \A x \in DOMAIN n \ DOMAIN top : Extended(top, n)[x] = n[x]
  BY ExtendedFields
<1>9. m.names = DOMAIN features /\ m.part = part /\ m.identity = subject
  BY <1>1, <1>3, <1>8
<1>10. \A x \in EnvelopeNames : n[x] = e[x] /\ m[x] = n[x]
  BY <1>1, <1>2, <1>3, <1>5, <1>8 DEF EnvelopeNames
<1>11. m.fingerprint = n.fingerprint /\ n.fingerprint = fingerprint /\ m.id = n.id
  BY <1>1, <1>2, <1>3, <1>5, <1>8
<1>12. \A field \in Agreed : m[field] = n[field]
  BY <1>10, <1>11 DEF Agreed, EnvelopeNames
<1>13. \A field \in Agreed : part[field] = n[field]
  BY <1>4, <1>6, <1>7 DEF Agreed
<1>14. part.features = features /\ part.security = subject.security
  BY <1>4, <1>6, <1>7
<1>15. part.identity = subject /\ part.mapping = n.mapping /\ m.mapping = n.mapping
  BY <1>4, <1>7, <1>10 DEF EnvelopeNames
<1>16. \A field \in Agreed \cup {"identity", "mapping"} : m.part[field] = m[field]
  BY <1>9, <1>12, <1>13, <1>15
<1>. QED
  BY <1>9, <1>10, <1>11, <1>14, <1>16 DEF Carries, fingerprint

\* What is computed, if it is.
NamesOf(set) ==
    IF set = "market-basic" THEN BasicNames ELSE IF set = "market-momentum" THEN MomentumNames
    ELSE DerivedNames[set]

Computes(answer, names) == answer = Refused \/ \E f : answer = Found({f}) /\ DOMAIN f = names

LEMMA BasicComputes == ASSUME NEW bars PROVE Computes(BasicFeatures(bars), BasicNames)
<1> DEFINE last == TheOnly(Back(bars, 0))
           before == Back(bars, 1)
           f == [close  |-> last.close,
                 change |-> {Growth(last.close, r.close) : r \in before},
                 range  |-> Minus(last.high, last.low),
                 volume |-> last.volume]
<1>1. BasicFeatures(bars) = Refused \/ BasicFeatures(bars) = Found({f})
  BY Zenon DEF BasicFeatures
<1>2. DOMAIN f = BasicNames
  BY DEF BasicNames
<1>. QED
  BY <1>1, <1>2, Zenon DEF Computes

LEMMA MomentumComputes == ASSUME NEW bars PROVE Computes(MomentumFeatures(bars), MomentumNames)
<1> DEFINE f == [returns  |-> SimpleReturns(bars),
                 variance |-> RealizedVariance(bars),
                 drawdown |-> MaxDrawdown(bars)]
<1>1. MomentumFeatures(bars) = Refused \/ MomentumFeatures(bars) = Found({f})
  BY Zenon DEF MomentumFeatures
<1>2. DOMAIN f = MomentumNames
  BY DEF MomentumNames
<1>. QED
  BY <1>1, <1>2, Zenon DEF Computes

LEMMA FundamentalComputes ==
    ASSUME NEW rows PROVE Computes(FundamentalFeatures(rows), DerivedNames["fundamental-growth"])
<1> DEFINE revenues == PeriodRows(rows, "revenue")
           current == LatestPeriod(revenues)
           prior == UNION {SamePriorYear(revenues, c) : c \in current}
           income == {r \in PeriodRows(rows, "operating_income") :
                         \E c \in current : r.fiscal = c.fiscal /\ r.period = c.period}
           f == [revenue |-> SignedValues(current),
                 growth  |-> Changes(SignedValues(current), SignedValues(prior)),
                 margin  |-> Ratios(SignedValues(income), SignedValues(current))]
<1>1. FundamentalFeatures(rows) = Refused \/ FundamentalFeatures(rows) = Found({f})
  BY Zenon DEF FundamentalFeatures
<1>2. DOMAIN f = {"revenue", "growth", "margin"}
  OBVIOUS
<1>3. DerivedNames["fundamental-growth"] = {"revenue", "growth", "margin"}
  BY DEF DerivedNames, Derived
<1>. QED
  BY <1>1, <1>2, <1>3, Zenon DEF Computes

LEMMA MacroComputes ==
    ASSUME NEW rows PROVE Computes(MacroFeatures(rows), DerivedNames["macro-state"])
<1> DEFINE current == LatestMacro(rows)
           prior == UNION {PriorYearMacro(rows, c) : c \in current}
           f == [level  |-> MacroValues(current),
                 change |-> Changes(MacroValues(current), MacroValues(prior))]
<1>1. MacroFeatures(rows) = Refused \/ MacroFeatures(rows) = Found({f})
  BY Zenon DEF MacroFeatures
<1>2. DOMAIN f = {"level", "change"}
  OBVIOUS
<1>3. DerivedNames["macro-state"] = {"level", "change"}
  BY DEF DerivedNames, Derived
<1>. QED
  BY <1>1, <1>2, <1>3, Zenon DEF Computes

LEMMA FeaturesCompute ==
    ASSUME NEW set \in FeatureFamilies, NEW selected, ~Features(set, selected).refused
    PROVE  /\ selected # {}
           /\ DOMAIN TheOnly(Features(set, selected).rows) = NamesOf(set)
           /\ Features(set, selected).rows = {TheOnly(Features(set, selected).rows)}
<1>1. Refused.refused /\ \A rows : Found(rows).rows = rows
  BY DEF Refused, Found
<1>2. selected # {}
  BY <1>1 DEF Features
<1>3. Computes(Features(set, selected), NamesOf(set))
  <2>1. CASE set = "market-basic"
    <3>1. Features(set, selected) = BasicFeatures(selected)
      BY <1>2, <2>1 DEF Features
    <3>. QED
      BY <2>1, <3>1, BasicComputes DEF NamesOf
  <2>2. CASE set = "market-momentum"
    <3>1. Features(set, selected) = MomentumFeatures(selected)
      BY <1>2, <2>2 DEF Features
    <3>. QED
      BY <2>2, <3>1, MomentumComputes DEF NamesOf
  <2>3. CASE set = "fundamental-growth"
    <3>1. Features(set, selected) = FundamentalFeatures(selected)
      BY <1>2, <2>3 DEF Features
    <3>. QED
      BY <2>3, <3>1, FundamentalComputes DEF NamesOf
  <2>4. CASE set = "macro-state"
    <3>1. Features(set, selected) = MacroFeatures(selected)
      BY <1>2, <2>4 DEF Features
    <3>. QED
      BY <2>4, <3>1, MacroComputes DEF NamesOf
  <2>. QED
    BY <2>1, <2>2, <2>3, <2>4 DEF FeatureFamilies, Derived
<1>4. PICK f : Features(set, selected) = Found({f}) /\ DOMAIN f = NamesOf(set)
  BY <1>1, <1>3 DEF Computes
<1>5. Features(set, selected).rows = {f}
  BY <1>1, <1>4
<1>6. TheOnly(Features(set, selected).rows) = f
  BY <1>5, TheOnlyOne
<1>. QED
  BY <1>2, <1>4, <1>5, <1>6

-----------------------------------------------------------------------------
\* A selection takes rows of the catalogue, and for price features known ones.
LEMMA QualifyKeeps == ASSUME NEW rows, NEW by, NEW order PROVE Qualify(rows, by, order) \subseteq rows
BY DEF Qualify, First

LEMMA SelectedRows ==
    ASSUME NEW set \in FeatureFamilies, NEW rows, NEW subject, NEW decision
    PROVE  /\ Selected(set, rows, subject, decision) \subseteq rows
           /\ set \notin Derived =>
                 \A r \in Selected(set, rows, subject, decision) : r.available <= decision
<1>1. \A X : Eligible(X, decision) \subseteq X /\ \A r \in Eligible(X, decision) : r.available <= decision
  BY DEF Eligible
<1>2. \A X : PriceInputs(X, decision) \subseteq Eligible(X, decision)
  BY QualifyKeeps DEF PriceInputs
<1>3. \A X : FundamentalInputs(X, decision) \subseteq Eligible(X, decision)
  BY QualifyKeeps DEF FundamentalInputs
<1>4. \A X : MacroInputs(X, decision) \subseteq Eligible(X, decision)
  BY QualifyKeeps DEF MacroInputs
<1>5. CASE set \in {"market-basic", "market-momentum"}
  <2> DEFINE X == {r \in rows : r.of = "prices" /\ r.security = subject.security}
  <2>1. Selected(set, rows, subject, decision) = PriceInputs(X, decision)
    BY <1>5 DEF Selected, SelectPrices
  <2>2. X \subseteq rows
    OBVIOUS
  <2>. HIDE DEF X
  <2>3. PriceInputs(X, decision) \subseteq Eligible(X, decision) /\ Eligible(X, decision) \subseteq X
    BY <1>1, <1>2
  <2>. QED
    BY <1>1, <2>1, <2>2, <2>3
<1>6. CASE set = "fundamental-growth"
  <2> DEFINE X == {r \in rows : r.of = "fundamentals" /\ r.issuer = subject.issuer}
             known == FundamentalInputs(X, decision)
  <2>1. Selected(set, rows, subject, decision) = UNION {PeriodRows(known, c) : c \in DOMAIN Taxonomy}
    BY <1>6 DEF Selected, SelectFundamentals
  <2>2. X \subseteq rows
    OBVIOUS
  <2>. HIDE DEF X
  <2>3. known \subseteq rows
    BY <1>1, <1>3, <2>2
  <2>. HIDE DEF known
  <2>4. \A c : PeriodRows(known, c) \subseteq known
    BY DEF PeriodRows
  <2>. QED
    BY <1>6, <2>1, <2>3, <2>4 DEF Derived
<1>7. CASE set = "macro-state"
  <2> DEFINE X == {r \in rows : r.of = "macro" /\ r.series = subject.series}
  <2>1. Selected(set, rows, subject, decision) = MacroInputs(X, decision)
    BY <1>7 DEF Selected, SelectMacro
  <2>2. X \subseteq rows
    OBVIOUS
  <2>. HIDE DEF X
  <2>. QED
    BY <1>1, <1>4, <1>7, <2>1, <2>2 DEF Derived
<1>. QED
  BY <1>5, <1>6, <1>7 DEF FeatureFamilies, Derived

LEMMA StoredAvailable == ASSUME NEW r \in Stored PROVE r.available \in Int
<1>1. PICK n \in Nat, q \in UNION UNION {Batches[t] : t \in DOMAIN Batches} : r = Extended([recorded |-> n], q)
  BY DEF Stored
<1>2. "available" \in DOMAIN q /\ q.available \in Int
  BY BatchesAssumption
<1>3. r.available = q.available
  BY <1>1, <1>2 DEF Extended
<1>. QED
  BY <1>2, <1>3

\* What a publication pins of the rows it selected.
LEMMA PinnedHolds ==
    ASSUME NEW parts, parts \subseteq SUBSET Stored, NEW selected, selected \subseteq RowsOf(parts),
           selected # {}, NEW set, NEW commit, NEW decision \in Int, NEW calendar \in Int,
           calendar <= decision,
           NEW e, e = Envelope(set, commit, decision, calendar, InputAvailable(selected, calendar),
                               SelectedLineage(selected, parts, manifests))
    PROVE  /\ LineageListed(e)
           /\ (\A r \in selected : r.available <= decision) => TimingHolds(e)
<1> DEFINE lineage == SelectedLineage(selected, parts, manifests)
           moments == {calendar} \cup {r.available : r \in selected}
<1>1. PICK r \in selected : TRUE
  OBVIOUS
<1>2. PICK p \in parts : r \in p
  BY <1>1 DEF RowsOf
<1>3. lineage.manifests = {<<q.of, PartNames(manifests[q.of].parts)>> : q \in selected}
  BY DEF SelectedLineage
<1>4. lineage.parts = {PartName(q) : q \in {q \in parts : q \cap selected # {}}}
  BY Zenon DEF SelectedLineage, PartNames
<1>5. /\ e.decision = decision /\ e.calendar = calendar
      /\ e.inputAvailable = InputAvailable(selected, calendar)
      /\ e.available = InputAvailable(selected, calendar) + Delay
      /\ e.manifests = lineage.manifests /\ e.parts = lineage.parts
  BY EnvelopeValues
<1>. HIDE DEF lineage
<1>6. LineageListed(e)
  <2>1. <<r.of, PartNames(manifests[r.of].parts)>> \in lineage.manifests
    BY <1>3, Zenon
  <2>2. p \in {q \in parts : q \cap selected # {}}
    BY <1>1, <1>2
  <2>3. PartName(p) \in lineage.parts
    BY <1>4, <2>2, Zenon
  <2>. QED
    BY <1>5, <2>1, <2>3 DEF LineageListed
<1>7. ASSUME \A q \in selected : q.available <= decision PROVE TimingHolds(e)
  <2>1. moments \subseteq Int
    BY StoredAvailable DEF RowsOf
  <2>2. moments # {} /\ \A n \in moments : n <= decision
    BY <1>7
  <2>3. calendar \in moments /\ InputAvailable(selected, calendar) = Latest(moments)
    BY DEF InputAvailable
  <2>. HIDE DEF moments
  <2>4. Latest(moments) \in moments /\ \A n \in moments : n <= Latest(moments)
    BY <2>1, <2>2, LatestIsLast
  <2>5. calendar <= Latest(moments) /\ Latest(moments) <= decision
    BY <2>2, <2>3, <2>4
  <2>. QED
    BY <1>5, <2>3, <2>5 DEF TimingHolds, CalendarPinHolds
<1>. QED
  BY <1>6, <1>7

LEMMA SubjectNames ==
    ASSUME NEW request, request.set \in FeatureFamilies, NEW security,
           NEW subject, subject = Subject(request, security)
    PROVE  /\ subject.security = security
           /\ request.set \in Derived => DOMAIN subject = IdentityFields(request.set)
BY DEF Subject, FeatureFamilies, Derived, IdentityFields

\* The manifest and the part of a job of features are what its readers demand.
LEMMA ManifestHolds ==
    ASSUME NEW e, DOMAIN e = EnvelopeNames, e.set \in FeatureFamilies, e.mapping = Mapping(e.set),
           TimingHolds(e), LineageListed(e), NEW subject,
           e.set \in Derived => DOMAIN subject = IdentityFields(e.set),
           NEW features, DOMAIN features = NamesOf(e.set),
           NEW job, job = FeatureJob(e, subject, features)
    PROVE  /\ job.family = e.set
           /\ \E m : /\ job.files = ManifestLast(job.family, m)
                     /\ FamilyHolds(m) /\ m.set = e.set
                     /\ m.part.decision = e.decision /\ m.part.security = subject.security
<1>1. e.set # "batch"
  BY DEF FeatureFamilies, Derived
<1>2. CASE e.set \notin Derived
  <2>1. PICK m : m = BasicManifest(e, subject, features)
    OBVIOUS
  <2>2. job = PublishedPartFirst(m)
    BY <1>2, <2>1 DEF FeatureJob, BasicJob, MomentumJob, FeatureFamilies
  <2>3. /\ Carries(m, e) /\ m.names = DOMAIN features /\ m.fingerprint = InputFingerprint(e)
        /\ \A field \in Agreed : m.part[field] = m[field]
        /\ m.part.features = features /\ m.part.security = subject.security
    BY <2>1, BasicManifestFields
  <2>4. /\ TimingHolds(m) /\ LineageListed(m) /\ m.fingerprint = InputFingerprint(m)
        /\ m.set = e.set /\ m.decision = e.decision
    BY <2>3, CarriedHolds
  <2>5. m.part.decision = e.decision
    BY <2>3, <2>4 DEF Agreed
  <2>6. FamilyHolds(m)
    <3>1. CASE e.set = "market-momentum"
      BY <1>2, <2>3, <2>4, <3>1
         DEF FamilyHolds, MomentumManifestValid, MomentumPartHolds, NamesOf
    <3>2. CASE e.set = "market-basic"
      BY <1>2, <2>3, <2>4, <3>2 DEF FamilyHolds, BasicManifestValid, BasicPartHolds, NamesOf
    <3>. QED
      BY <1>2, <3>1, <3>2 DEF FeatureFamilies
  <2>7. job.family = m.set /\ job.files = <<File(PartFile, m.part), File(ManifestName, m)>>
    BY <2>2 DEF PublishedPartFirst
  <2>8. job.files = ManifestLast(job.family, m)
    BY <1>1, <2>4, <2>7 DEF ManifestLast
  <2>. QED
    BY <2>3, <2>4, <2>5, <2>6, <2>7, <2>8
<1>3. CASE e.set \in Derived
  <2>1. PICK m : m = DerivedManifest(e, subject, features)
    OBVIOUS
  <2>2. job = PublishedPartFirst(m)
    BY <1>3, <2>1 DEF FeatureJob, DerivedJob, Derived
  <2>3. /\ Carries(m, e) /\ m.names = DOMAIN features /\ m.fingerprint = InputFingerprint(e)
        /\ m.identity = subject
        /\ \A field \in Agreed \cup {"identity", "mapping"} : m.part[field] = m[field]
        /\ m.part.features = features /\ m.part.security = subject.security
    BY <2>1, DerivedManifestFields
  <2>4. /\ TimingHolds(m) /\ LineageListed(m) /\ m.fingerprint = InputFingerprint(m)
        /\ m.set = e.set /\ m.decision = e.decision /\ m.mapping = Mapping(m.set)
    BY <2>3, CarriedHolds
  <2>5. m.part.decision = e.decision
    BY <2>3, <2>4 DEF Agreed
  <2>6. NamesOf(m.set) = DerivedNames[m.set]
    BY <1>3, <2>4 DEF NamesOf, Derived
  <2>7. DerivedManifestValid(m) /\ DerivedPartHolds(m.part, m)
    BY <1>3, <2>3, <2>4, <2>6 DEF DerivedManifestValid, DerivedPartHolds
  <2>8. job.family = m.set /\ job.files = <<File(PartFile, m.part), File(ManifestName, m)>>
    BY <2>2 DEF PublishedPartFirst
  <2>9. job.files = ManifestLast(job.family, m)
    BY <1>1, <2>4, <2>8 DEF ManifestLast
  <2>10. FamilyHolds(m)
    BY <1>3, <2>4, <2>7 DEF FamilyHolds
  <2>. QED
    BY <2>3, <2>4, <2>5, <2>8, <2>9, <2>10
<1>. QED
  BY <1>2, <1>3

-----------------------------------------------------------------------------
(***************************************************************************)
(* The manifest of a batch is what its readers demand.                     *)
(***************************************************************************)
LEMMA BatchManifestHolds ==
    ASSUME NEW s, OnceEach(s), s.todo = {}, IsFiniteSet(Grid(s.request)),
           \A c \in s.accepted : Tells(c, s.request.set),
           NEW job, job = BatchJob(s.request, s.accepted, s.rejected)
    PROVE  /\ Len(job.files) = 1
           /\ BatchHolds(job.dir, Content(job, 1))
           /\ Content(job, 1).accepted = s.accepted
<1> DEFINE r == s.request
           id == BatchId(r, s.accepted)
           m == [id |-> id, commit |-> r.commit, requested |-> Cardinality(r.schedule \X r.securities),
                 accepted |-> s.accepted, rejected |-> s.rejected]
<1>1. job = [family |-> "batch", dir |-> id, files |-> <<File(ManifestName, m)>>]
  BY Zenon DEF BatchJob
<1>2. /\ m.id = id /\ m.accepted = s.accepted /\ m.rejected = s.rejected
      /\ m.requested = Cardinality(Grid(r))
  BY DEF Grid
<1>3. /\ id.set = r.set /\ id.universe = r.securities /\ id.schedule = r.schedule
      /\ id.manifests = UNION {c.manifest.manifests : c \in s.accepted}
      /\ id.parts = UNION {c.manifest.parts : c \in s.accepted}
  BY DEF BatchId
<1>. HIDE DEF id, m
<1>4. job.dir = id /\ job.files = <<File(ManifestName, m)>>
  BY <1>1
<1>5. Len(job.files) = 1 /\ Content(job, 1) = m
  BY <1>4, ListOfOne, FileFields DEF Content
<1>6. BatchManifestValid(m)
  <2>1. /\ \A items \in {s.accepted, s.rejected} :
              Cardinality({Partition(i) : i \in items}) = Cardinality(items)
        /\ Cardinality(Grid(r)) = Cardinality(s.accepted) + Cardinality(s.rejected)
    BY PartitionsOfBatch
  <2>. QED
    BY <1>2, <2>1, Zenon DEF BatchManifestValid
<1>7. ASSUME NEW c \in s.accepted PROVE c.security \in r.securities /\ c.decision \in r.schedule
  <2>1. Partition(c) \in Grid(r)
    BY DEF OnceEach
  <2>. QED
    BY <2>1 DEF Partition, Grid
<1>8. BatchHolds(id, m)
  BY <1>2, <1>3, <1>6, <1>7 DEF BatchHolds
<1>. QED
  BY <1>2, <1>4, <1>5, <1>8

-----------------------------------------------------------------------------
(***************************************************************************)
(* A batch keeps account of its partitions.                                *)
(***************************************************************************)
LEMMA NextOfBatch ==
    ASSUME NEW s, ListingOK(s)
    PROVE  /\ s.request.set \in FeatureFamilies /\ s.request.calendar \in Int
           /\ IsFiniteSet(Grid(s.request))
           /\ s.todo # {} => LET d == NextPartition(s.todo) IN
                             /\ d \in s.todo /\ d = <<d[1], d[2]>>
                             /\ d[1] \in Int /\ s.request.calendar <= d[1]
<1>1. s.request \in Asked /\ s.request.kind = "batch" /\ CalendarKnown(s.request) /\ OnceEach(s)
  BY DEF ListingOK
<1>2. /\ s.request.set \in FeatureFamilies /\ s.request.calendar \in Int
      /\ IsFiniteSet(s.request.schedule) /\ s.request.schedule \subseteq Int
      /\ IsFiniteSet(s.request.securities) /\ s.request.securities \subseteq Int
  BY <1>1, RequestsAssumption DEF Asked
<1>3. IsFiniteSet(Grid(s.request))
  BY <1>2, FS_Product DEF Grid
<1>4. ASSUME s.todo # {}, NEW d, d = NextPartition(s.todo)
      PROVE  d \in s.todo /\ d = <<d[1], d[2]>> /\ d[1] \in Int /\ s.request.calendar <= d[1]
  <2>1. s.todo \subseteq Grid(s.request)
    BY <1>1 DEF OnceEach
  <2>2. IsFiniteSet(s.todo)
    BY <1>3, <2>1, FS_Subset
  <2>3. \A t \in s.todo : t[1] \in Int /\ t[2] \in Int /\ t[1] \in s.request.schedule /\ t = <<t[1], t[2]>>
    BY <1>2, <2>1 DEF Grid
  <2>4. d \in s.todo
    BY <1>4, <2>2, <2>3, NextIsLeft
  <2>. QED
    BY <1>1, <2>3, <2>4 DEF CalendarKnown
<1>. QED
  BY <1>2, <1>3, <1>4, Zenon

\* One partition less, one item more.
LEMMA OnceMore ==
    ASSUME NEW s, OnceEach(s), NEW d \in s.todo, NEW c, Partition(c) = d, NEW t,
           t.request = s.request, t.todo = s.todo \ {d},
           \/ t.accepted = s.accepted \cup {c} /\ t.rejected = s.rejected
           \/ t.accepted = s.accepted /\ t.rejected = s.rejected \cup {c}
    PROVE  OnceEach(t)
<1> DEFINE I == s.accepted \cup s.rejected
           G == Grid(s.request)
<1>1. /\ s.todo \subseteq G /\ {Partition(i) : i \in I} = G \ s.todo
      /\ \A i, j \in I : Partition(i) = Partition(j) => i = j
      /\ s.accepted \cap s.rejected = {}
  BY DEF OnceEach
<1>2. t.accepted \cup t.rejected = I \cup {c}
  OBVIOUS
<1>. HIDE DEF I, G
<1>3. \A i \in I : Partition(i) # d
  BY <1>1
<1>4. {Partition(i) : i \in I \cup {c}} = {Partition(i) : i \in I} \cup {d}
  OBVIOUS
<1>5. {Partition(i) : i \in I \cup {c}} = G \ t.todo
  BY <1>1, <1>4
<1>6. \A i, j \in I \cup {c} : Partition(i) = Partition(j) => i = j
  BY <1>1, <1>3
<1>7. c \notin I
  BY <1>3
<1>8. t.accepted \cap t.rejected = {}
  BY <1>1, <1>7 DEF I
<1>9. t.todo \subseteq G
  BY <1>1
<1>. QED
  BY <1>2, <1>5, <1>6, <1>8, <1>9 DEF OnceEach, G

\* A state that differs in its phase and its place only.
LEMMA SameListed ==
    ASSUME NEW s, NEW t, \A f \in Fields \ {"phase", "at", "job"} : t[f] = s[f],
           RunsBatch(s), Listed(disk, s)
    PROVE  ListingOK(t) /\ Listed(disk, t)
<1>1. /\ t.request = s.request /\ t.parts = s.parts /\ t.todo = s.todo
      /\ t.accepted = s.accepted /\ t.rejected = s.rejected
  BY DEF Fields
<1>2. ListingOK(s) /\ \A c \in s.accepted : ChildAt(disk, c)
  BY DEF Listed
<1>3. OnceEach(t)
  BY <1>1, <1>2, Zenon DEF ListingOK, OnceEach
<1>4. ListingOK(t)
  BY <1>1, <1>2, <1>3 DEF ListingOK
<1>. QED
  BY <1>1, <1>2, <1>4 DEF Listed

LEMMA MovedOwned ==
    ASSUME OwnedInv, NEW p \in Publishers, NEW t,
           pub[p].phase # "partition", t.phase # "partition",
           \A f \in Fields \ {"phase", "at"} : t[f] = pub[p][f],
           t.phase = "directory" => t.at = 1
    PROVE  Listed(disk, t) /\ JobOK(t)
<1> DEFINE s == pub[p]
<1>1. /\ t.request = s.request /\ t.todo = s.todo /\ t.job = s.job
      /\ t.accepted = s.accepted /\ t.rejected = s.rejected
  BY DEF Fields
<1>2. Listed(disk, s) /\ JobOK(s)
  BY DEF OwnedInv
<1>3. RunsBatch(t) => RunsBatch(s)
  BY <1>1 DEF RunsBatch
<1>4. Listed(disk, t)
  BY <1>2, <1>3, SameListed DEF Listed
<1>5. \A m : Describes(m, t) <=> Describes(m, s)
  BY <1>1 DEF Describes
<1>. HIDE DEF s
<1>6. JobOK(t)
  <2>1. t.todo # {} => t.job.family \in FeatureFamilies
    BY <1>1, <1>2 DEF JobOK, s
  <2>2. t.job.family \in FeatureFamilies =>
           t.todo # {} /\ \E m : t.job.files = ManifestLast(t.job.family, m) /\ Describes(m, t)
    BY <1>1, <1>2, <1>5 DEF JobOK
  <2>3. t.job.family = "batch" => t.todo = {} /\ t.job = BatchJob(t.request, t.accepted, t.rejected)
    BY <1>1, <1>2 DEF JobOK
  <2>. QED
    BY <2>1, <2>2, <2>3 DEF JobOK
<1>. QED
  BY <1>4, <1>6

-----------------------------------------------------------------------------
(***************************************************************************)
(* The steps that leave the disk alone.                                    *)
(***************************************************************************)
LEMMA OwnedQuiet ==
    ASSUME PubInv, OwnedInv, NEW p \in Publishers, NEW t, pub' = [pub EXCEPT ![p] = t], UNCHANGED disk,
           Listed(disk, t), JobOK(t), ~ExclusivelyWriting(t), Finished(disk, t), Unwritten(pub', t)
    PROVE  OwnedInv'
<1>1. Touches(p, p)
  BY DEF Touches, SameIn
<1>2. \A path \in disk'.temps : ~HasOneWriter(path[1])
  BY DEF OwnedInv
<1>3. \A d \in disk.dirs : d \in disk'.dirs
  OBVIOUS
<1>4. Laid(disk', t) /\ Finished(disk', t)
  BY DEF Laid
<1>5. ~WholeIn(disk, p) => ~WholeIn(disk', p)
  OBVIOUS
<1>6. RunsBatch(t) => ListingOK(t) /\ \A c \in t.accepted : ChildAt(disk, c)
  BY DEF Listed
<1>. QED
  BY <1>1, <1>2, <1>3, <1>4, <1>5, <1>6, OwnedStep

LEMMA OwnedNotWriting ==
    ASSUME PubInv, OwnedInv, NEW p \in Publishers, NEW t, pub' = [pub EXCEPT ![p] = t], UNCHANGED disk,
           Listed(disk, t), JobOK(t), t.phase \in {"idle", "partition", "open", "directory", "failed"}
    PROVE  OwnedInv'
BY OwnedQuiet DEF ExclusivelyWriting, Finished, Unwritten

\* A publisher that runs no batch.
LEMMA NoBatch ==
    ASSUME NEW t, t.phase \in {"idle", "open"}, t.todo = {},
           t.job.family \notin FeatureFamilies \cup {"batch"}
    PROVE  Listed(disk, t) /\ JobOK(t)
BY DEF Listed, JobOK, RunsBatch

LEMMA OwnedLeave ==
    ASSUME PubInv, OwnedInv, NEW p \in Publishers, Return(p) \/ Crash(p)
    PROVE  OwnedInv'
<1>1. pub' = [pub EXCEPT ![p] = Resting] /\ UNCHANGED disk
  BY DEF Return, Crash, Become
<1>2. Listed(disk, Resting) /\ JobOK(Resting)
  BY RestingFields, NoBatch DEF FeatureFamilies, Derived
<1>. QED
  BY <1>1, <1>2, RestingFields, OwnedNotWriting

LEMMA OwnedStartJob ==
    ASSUME PubInv, OwnedInv, NEW p \in Publishers, NEW request, NEW job, StartJob(p, request, job),
           job.family \notin FeatureFamilies \cup {"batch"}
    PROVE  OwnedInv'
<1> DEFINE t == [Resting EXCEPT !.phase = "open", !.request = request, !.job = job]
<1>1. pub' = [pub EXCEPT ![p] = t] /\ UNCHANGED disk
  BY DEF StartJob, Become
<1>2. t.phase = "open" /\ t.job = job /\ t.todo = {}
  BY RestingFields DEF Fields
<1>. HIDE DEF t
<1>3. Listed(disk, t) /\ JobOK(t)
  BY <1>2, NoBatch
<1>. QED
  BY <1>1, <1>2, <1>3, OwnedNotWriting

LEMMA OwnedStartBatch ==
    ASSUME PubInv, OwnedInv, StoreTypeOK, NEW p \in Publishers, NEW request \in Asked,
           StartBatch(p, request)
    PROVE  OwnedInv'
<1> DEFINE t == [Resting EXCEPT !.phase = "partition", !.request = request, !.parts = view.parts,
                                !.todo = request.schedule \X request.securities]
<1>1. /\ pub' = [pub EXCEPT ![p] = t] /\ UNCHANGED disk
      /\ request.kind = "batch" /\ CalendarKnown(request)
  BY DEF StartBatch, Become
<1>2. /\ t.phase = "partition" /\ t.request = request /\ t.parts = view.parts
      /\ t.todo = Grid(request) /\ t.accepted = {} /\ t.rejected = {} /\ t.job.family = "none"
  BY RestingFields DEF Fields, Resting, Grid, NoJob
<1>. HIDE DEF t
<1>3. view.parts \subseteq SUBSET Stored
  BY DEF StoreTypeOK
<1>4. ListingOK(t)
  BY <1>1, <1>2, <1>3 DEF ListingOK, OnceEach
<1>5. Listed(disk, t) /\ JobOK(t)
  BY <1>2, <1>4 DEF Listed, JobOK, FeatureFamilies, Derived
<1>. QED
  BY <1>1, <1>2, <1>5, OwnedNotWriting

LEMMA OwnedStart ==
    ASSUME PubInv, OwnedInv, StoreTypeOK, NEW p \in Publishers, NEW request \in Asked,
           \/ StartBatch(p, request) \/ StartDocument(p, request) \/ StartResult(p, request)
           \/ StartSpec(p, request) \/ StartAdjusted(p, request)
    PROVE  OwnedInv'
<1>1. CASE StartBatch(p, request)
  BY <1>1, OwnedStartBatch
<1>2. ASSUME NEW job, SharedJob(job), StartJob(p, request, job) PROVE OwnedInv'
  <2>1. job.family \notin FeatureFamilies \cup {"batch"}
    BY <1>2, SharedShape DEF FeatureFamilies, Derived
  <2>. QED
    BY <1>2, <2>1, OwnedStartJob
<1>3. CASE StartDocument(p, request)
  BY <1>2, <1>3 DEF StartDocument, SharedJob
<1>4. CASE StartResult(p, request)
  BY <1>2, <1>4 DEF StartResult, SharedJob
<1>5. CASE StartSpec(p, request)
  BY <1>2, <1>5 DEF StartSpec, SharedJob
<1>6. CASE StartAdjusted(p, request)
  <2>1. PICK rows : StartJob(p, request, AdjustedJob(request.decision, rows))
    BY <1>6 DEF StartAdjusted
  <2> DEFINE job == AdjustedJob(request.decision, rows)
  <2>2. job.family = "adjusted"
    BY AdjustedJobFits
  <2>. HIDE DEF job
  <2>3. StartJob(p, request, job)
    BY <2>1 DEF job
  <2>. QED
    BY <2>2, <2>3, OwnedStartJob DEF FeatureFamilies, Derived
<1>. QED
  BY <1>1, <1>3, <1>4, <1>5, <1>6

\* An item more, whether accepted or rejected.
LEMMA OwnedItem ==
    ASSUME OwnedInv, NEW p \in Publishers, RunsBatch(pub[p]), NEW d \in pub[p].todo,
           NEW c, Partition(c) = d, NEW t,
           t.phase = "partition", t.job = NoJob, t.request = pub[p].request, t.parts = pub[p].parts,
           t.todo = pub[p].todo \ {d},
           \/ t.accepted = pub[p].accepted /\ t.rejected = pub[p].rejected \cup {c}
           \/ /\ t.accepted = pub[p].accepted \cup {c} /\ t.rejected = pub[p].rejected
              /\ Tells(c, pub[p].request.set) /\ ChildAt(disk, c)
    PROVE  Listed(disk, t) /\ JobOK(t)
<1>1. ListingOK(pub[p]) /\ \A e \in pub[p].accepted : ChildAt(disk, e)
  BY DEF OwnedInv, Listed
<1>2. OnceEach(t)
  <2>1. OnceEach(pub[p])
    BY <1>1 DEF ListingOK
  <2>. QED
    BY <2>1, OnceMore
<1>3. \A e \in t.accepted : Tells(e, t.request.set) /\ ChildAt(disk, e)
  BY <1>1 DEF ListingOK
<1>4. ListingOK(t)
  BY <1>1, <1>2, <1>3 DEF ListingOK
<1>5. t.job.family = "none"
  BY DEF NoJob
<1>. QED
  BY <1>3, <1>4, <1>5 DEF Listed, JobOK, FeatureFamilies, Derived

LEMMA RejectedState ==
    ASSUME PubInv, OwnedInv, NEW p \in Publishers, RunsBatch(pub[p]), pub[p].todo # {}, NEW reason,
           Reject(p, NextPartition(pub[p].todo), reason)
    PROVE  \E t : /\ pub' = [pub EXCEPT ![p] = t] /\ t.phase = "partition"
                  /\ Listed(disk, t) /\ JobOK(t)
<1>1. PICK d : d = NextPartition(pub[p].todo)
  OBVIOUS
<1> DEFINE s == pub[p]
           c == Rejection(d, reason)
           t == [s EXCEPT !.phase = "partition", !.job = NoJob, !.at = 0, !.todo = @ \ {d},
                          !.rejected = @ \cup {c}]
<1>2. pub' = [pub EXCEPT ![p] = t]
  BY <1>1 DEF Reject, Become
<1>3. d \in s.todo /\ d = <<d[1], d[2]>>
  <2>1. ListingOK(s)
    BY DEF OwnedInv, Listed
  <2>. QED
    BY <1>1, <2>1, NextOfBatch, Zenon
<1>4. Partition(c) = d
  BY <1>3 DEF Partition, Rejection
<1>5. DOMAIN s = Fields
  BY DEF PubInv, Fits
<1>. HIDE DEF c
<1>6. /\ t.phase = "partition" /\ t.job = NoJob /\ t.request = s.request /\ t.parts = s.parts
      /\ t.todo = s.todo \ {d} /\ t.accepted = s.accepted /\ t.rejected = s.rejected \cup {c}
  BY <1>5 DEF Fields
<1>. HIDE DEF t
<1>7. Listed(disk, t) /\ JobOK(t)
  BY <1>3, <1>4, <1>6, OwnedItem
<1>. QED
  BY <1>2, <1>6, <1>7

LEMMA OwnedSkip ==
    ASSUME PubInv, OwnedInv, NEW p \in Publishers, SkipPartition(p)
    PROVE  OwnedInv'
<1>1. PICK reason : Reject(p, NextPartition(pub[p].todo), reason)
  BY DEF SkipPartition
<1>2. RunsBatch(pub[p]) /\ pub[p].todo # {} /\ UNCHANGED disk
  BY DEF SkipPartition, RunsBatch
<1>3. PICK t : /\ pub' = [pub EXCEPT ![p] = t] /\ t.phase = "partition"
               /\ Listed(disk, t) /\ JobOK(t)
  BY <1>1, <1>2, RejectedState
<1>. QED
  BY <1>2, <1>3, OwnedNotWriting

LEMMA OwnedSelect ==
    ASSUME PubInv, OwnedInv, NEW p \in Publishers, SelectPartition(p)
    PROVE  OwnedInv'
<1> DEFINE s == pub[p]
           request == s.request
           Subj(d) == Subject(request, d[2])
           Sel(d, subject) == Selected(request.set, RowsOf(s.parts), subject, d[1])
           Env(d, selected) == Envelope(request.set, request.commit, d[1], request.calendar,
                                        InputAvailable(selected, request.calendar),
                                        SelectedLineage(selected, s.parts, manifests))
<1>1. /\ s.phase = "partition" /\ s.todo # {} /\ UNCHANGED disk /\ RunsBatch(s)
      /\ DOMAIN s = Fields
  BY DEF SelectPartition, PubInv, Fits, RunsBatch
<1>2. ListingOK(s) /\ Listed(disk, s)
  BY <1>1 DEF OwnedInv, Listed
<1>3. PICK d : d = NextPartition(s.todo)
  OBVIOUS
<1>4. PICK subject : subject = Subj(d)
  OBVIOUS
<1>5. PICK selected : selected = Sel(d, subject)
  OBVIOUS
<1>6. PICK features : features = Features(request.set, selected)
  OBVIOUS
<1>7. PICK e : e = Env(d, selected)
  OBVIOUS
<1>8. PICK job : job = FeatureJob(e, subject, TheOnly(features.rows))
  OBVIOUS
<1>9. IF \/ features.refused
         \/ ~LineageHolds(selected, s.parts, manifests, lost)
         \/ ~Accepts(e)
      THEN Reject(p, d, "inputs refused")
      ELSE Become(p, [s EXCEPT !.phase = "open", !.job = job])
  BY <1>3, <1>4, <1>5, <1>6, <1>7, <1>8, Zenon DEF SelectPartition
<1>10. CASE Reject(p, d, "inputs refused")
  <2>1. PICK reason : reason = "inputs refused"
    OBVIOUS
  <2>2. Reject(p, NextPartition(s.todo), reason)
    BY <1>3, <1>10, <2>1
  <2>. HIDE DEF s
  <2>3. PICK t : /\ pub' = [pub EXCEPT ![p] = t] /\ t.phase = "partition"
                 /\ Listed(disk, t) /\ JobOK(t)
    BY <1>1, <2>2, RejectedState DEF s
  <2>. QED
    BY <1>1, <2>3, OwnedNotWriting
<1>11. CASE ~features.refused /\ Accepts(e) /\ Become(p, [s EXCEPT !.phase = "open", !.job = job])
  <2>1. /\ request.set \in FeatureFamilies /\ request.calendar \in Int
        /\ d \in s.todo /\ d = <<d[1], d[2]>> /\ d[1] \in Int /\ request.calendar <= d[1]
    BY <1>1, <1>2, <1>3, NextOfBatch, Zenon
  <2>2. s.parts \subseteq SUBSET Stored
    BY <1>2 DEF ListingOK
  <2>3. /\ selected \subseteq RowsOf(s.parts)
        /\ request.set \notin Derived => \A r \in selected : r.available <= d[1]
    BY <1>5, <2>1, SelectedRows
  <2>4. selected # {} /\ DOMAIN TheOnly(features.rows) = NamesOf(request.set)
    BY <1>6, <1>11, <2>1, FeaturesCompute
  <2>5. /\ DOMAIN e = EnvelopeNames /\ e.set = request.set /\ e.decision = d[1]
        /\ e.mapping = Mapping(e.set)
    BY <1>7, EnvelopeValues
  <2>6. LineageListed(e) /\ ((\A r \in selected : r.available <= d[1]) => TimingHolds(e))
    BY <1>7, <2>1, <2>2, <2>3, <2>4, PinnedHolds
  <2>7. TimingHolds(e)
    BY <1>11, <2>3, <2>5, <2>6 DEF Accepts
  <2>8. subject.security = d[2] /\ (request.set \in Derived => DOMAIN subject = IdentityFields(request.set))
    BY <1>4, <2>1, SubjectNames
  <2>9. /\ job.family = request.set
        /\ \E m : /\ job.files = ManifestLast(job.family, m)
                  /\ FamilyHolds(m) /\ m.set = request.set
                  /\ m.part.decision = d[1] /\ m.part.security = d[2]
    BY <1>8, <2>1, <2>4, <2>5, <2>6, <2>7, <2>8, ManifestHolds
  <2> DEFINE t == [s EXCEPT !.phase = "open", !.job = job]
  <2>10. pub' = [pub EXCEPT ![p] = t]
    BY <1>11 DEF Become
  <2>11. /\ t.phase = "open" /\ t.job = job /\ t.todo = s.todo /\ t.request = request
         /\ \A f \in Fields \ {"phase", "at", "job"} : t[f] = s[f]
    BY <1>1 DEF Fields
  <2>. HIDE DEF t, s
  <2>12. Listed(disk, t)
    BY <1>1, <1>2, <2>11, SameListed
  <2>13. \E m : job.files = ManifestLast(job.family, m) /\ Describes(m, t)
    BY <1>3, <2>1, <2>9, <2>11 DEF Describes
  <2>14. request.set # "batch"
    BY <2>1 DEF FeatureFamilies, Derived
  <2>15. JobOK(t)
    BY <1>1, <2>1, <2>9, <2>11, <2>13, <2>14 DEF JobOK
  <2>. QED
    BY <1>1, <2>10, <2>11, <2>12, <2>15, OwnedNotWriting
<1>. QED
  BY <1>9, <1>10, <1>11

LEMMA OwnedInstall ==
    ASSUME PubInv, OwnedInv, NEW p \in Publishers, InstallBatch(p)
    PROVE  OwnedInv'
<1> DEFINE s == pub[p]
<1>1. PICK job : job = BatchJob(s.request, s.accepted, s.rejected)
  OBVIOUS
<1> DEFINE t == [s EXCEPT !.phase = "open", !.job = job]
<1>2. /\ s.phase = "partition" /\ s.todo = {} /\ UNCHANGED disk /\ RunsBatch(s) /\ DOMAIN s = Fields
      /\ pub' = [pub EXCEPT ![p] = t]
  BY <1>1 DEF InstallBatch, Become, PubInv, Fits, RunsBatch
<1>3. Listed(disk, s)
  BY DEF OwnedInv
<1>4. /\ t.phase = "open" /\ t.job = job /\ t.todo = {} /\ t.request = s.request
      /\ t.accepted = s.accepted /\ t.rejected = s.rejected
      /\ \A f \in Fields \ {"phase", "at", "job"} : t[f] = s[f]
  BY <1>2 DEF Fields
<1>. HIDE DEF t, s
<1>5. Listed(disk, t)
  BY <1>2, <1>3, <1>4, SameListed
<1>6. job.family = "batch"
  BY <1>1, BatchJobFits
<1>7. JobOK(t)
  BY <1>1, <1>4, <1>6 DEF JobOK, FeatureFamilies, Derived
<1>. QED
  BY <1>2, <1>4, <1>5, <1>7, OwnedNotWriting DEF s

LEMMA LastOfTwo ==
    ASSUME NEW job, NEW m, job.family # "batch", job.files = ManifestLast(job.family, m)
    PROVE  /\ Len(job.files) = 2
           /\ Path(job, 1) = <<job.dir, PartFile>> /\ Content(job, 1) = m.part
           /\ Path(job, 2) = <<job.dir, ManifestName>> /\ Content(job, 2) = m
<1>1. job.files = <<File(PartFile, m.part), File(ManifestName, m)>>
  BY DEF ManifestLast
<1>. QED
  BY <1>1, ListOfTwo, FileFields DEF Path, Content

LEMMA OwnedAccept ==
    ASSUME PubInv, OwnedInv, NEW p \in Publishers, AcceptChild(p)
    PROVE  OwnedInv'
<1> DEFINE s == pub[p]
           dir == s.job.dir
           failed == [s EXCEPT !.phase = "failed"]
<1>1. PICK d : d = NextPartition(s.todo)
  OBVIOUS
<1>2. PICK c : c = [decision |-> d[1], security |-> d[2], id |-> dir, manifest |-> ManifestAt(dir)]
  OBVIOUS
<1> DEFINE t == [s EXCEPT !.phase = "partition", !.job = NoJob, !.at = 0, !.todo = @ \ {d},
                          !.accepted = @ \cup {c}]
<1>3. s.phase = "published" /\ s.todo # {} /\ UNCHANGED disk /\ RunsBatch(s) /\ DOMAIN s = Fields
  BY DEF AcceptChild, PubInv, Fits, RunsBatch
<1>4. \/ pub' = [pub EXCEPT ![p] = t] /\ ArtifactReadable(dir)
      \/ pub' = [pub EXCEPT ![p] = failed]
  BY <1>1, <1>2, Zenon DEF AcceptChild, Become, Accepted
<1>5. CASE pub' = [pub EXCEPT ![p] = t] /\ ArtifactReadable(dir)
  <2>1. JobOK(s) /\ Listed(disk, s) /\ Finished(disk, s)
    BY DEF OwnedInv
  <2>2. s.job.family \in FeatureFamilies
    BY <1>3, <2>1 DEF JobOK
  <2>3. PICK m : s.job.files = ManifestLast(s.job.family, m) /\ Describes(m, s)
    BY <2>1, <2>2 DEF JobOK
  <2>4. ListingOK(s)
    BY <1>3, <2>1 DEF Listed
  <2>5. d \in s.todo /\ d = <<d[1], d[2]>>
    BY <1>1, <1>3, <2>4, NextOfBatch, Zenon
  <2>6. s.job.family # "batch"
    BY <2>2 DEF FeatureFamilies, Derived
  <2>7. ManifestAt(dir) = m
    BY <1>3, <2>1, <2>2, <2>3, <2>6, LastOfTwo DEF Finished, ManifestAt
  <2>8. /\ c.decision = d[1] /\ c.security = d[2] /\ c.id = dir /\ c.manifest = m
    BY <1>2, <2>7
  <2>9. Tells(c, s.request.set)
    <3>1. m.set = s.request.set /\ <<m.part.decision, m.part.security>> = d
      BY <1>1, <2>3 DEF Describes
    <3>2. m.part.decision = d[1] /\ m.part.security = d[2]
      BY <2>5, <3>1
    <3>. QED
      BY <2>8, <3>1, <3>2 DEF Tells
  <2>10. dir.of = "artifact"
    BY <1>3, <2>2, WriterFits, JobShape DEF DirectoryKind
  <2>11. ChildAt(disk, c)
    <3>1. WholeIn(disk, dir)
      BY <1>5 DEF ArtifactReadable, HasWholeManifest, Whole, Present, WholeIn
    <3>2. disk.files[<<dir, ManifestName>>] = m
      BY <2>7 DEF ManifestAt
    <3>. QED
      BY <2>8, <2>10, <3>1, <3>2 DEF ChildAt
  <2>12. Partition(c) = d
    BY <2>5, <2>8 DEF Partition
  <2>13. /\ t.phase = "partition" /\ t.job = NoJob /\ t.request = s.request /\ t.parts = s.parts
         /\ t.todo = s.todo \ {d} /\ t.rejected = s.rejected /\ t.accepted = s.accepted \cup {c}
    BY <1>3 DEF Fields
  <2>. HIDE DEF t
  <2>14. Listed(disk, t) /\ JobOK(t)
    BY <1>3, <2>5, <2>9, <2>11, <2>12, <2>13, OwnedItem
  <2>. QED
    BY <1>3, <1>5, <2>13, <2>14, OwnedNotWriting
<1>6. CASE pub' = [pub EXCEPT ![p] = failed]
  <2>1. failed.phase = "failed" /\ \A f \in Fields \ {"phase", "at"} : failed[f] = s[f]
    BY <1>3 DEF Fields
  <2>. HIDE DEF failed
  <2>2. Listed(disk, failed) /\ JobOK(failed)
    BY <1>3, <2>1, MovedOwned
  <2>. QED
    BY <1>3, <1>6, <2>1, <2>2, OwnedNotWriting
<1>. QED
  BY <1>4, <1>5, <1>6

\* Whoever finds the directory taken and the manifest its own, leaves both alone.
LEMMA OwnedOpen ==
    ASSUME PubInv, OwnedInv, NEW p \in Publishers, Open(p)
    PROVE  OwnedInv'
<1> DEFINE s == pub[p]
           job == s.job
           phase == IF job.family \in Exclusive THEN OpenExclusive(job)
                    ELSE IF job.family = "result" THEN OpenResult(job) ELSE "write"
           t == [s EXCEPT !.at = 1, !.phase = phase]
<1>1. DOMAIN s = Fields /\ s.phase = "open" /\ UNCHANGED disk /\ pub' = [pub EXCEPT ![p] = t]
  BY DEF PubInv, Fits, Open, Become
<1>2. /\ job.family \in Exclusive => phase \in {"directory", "published", "failed"}
      /\ phase \in {"directory", "published", "failed", "write"}
  BY DEF OpenExclusive, OpenResult
<1>3. phase = "published" =>
         /\ job.dir \in disk.dirs /\ HasWholeManifest(job.dir)
         /\ ManifestAt(job.dir) = Content(job, Len(job.files))
  BY DEF OpenExclusive, OpenResult
<1>. HIDE DEF phase
<1>4. t.at = 1 /\ t.phase = phase /\ t.job = job /\ \A f \in Fields \ {"phase", "at"} : t[f] = s[f]
  BY <1>1 DEF Fields
<1>. HIDE DEF t
<1>5. Listed(disk, t) /\ JobOK(t)
  BY <1>1, <1>2, <1>4, MovedOwned
<1>6. ~ExclusivelyWriting(t)
  BY <1>2, <1>4 DEF ExclusivelyWriting
<1>7. Finished(disk, t)
  BY <1>3, <1>4 DEF Finished, HasWholeManifest, Whole, Present, ManifestAt
<1>8. pub'[p] = t /\ \A q \in Publishers \ {p} : pub'[q] = pub[q]
  BY <1>1 DEF PubInv
<1>9. Unwritten(pub', t)
  <2>. SUFFICES ASSUME t.phase = "published", NEW q \in Publishers, ExclusivelyWriting(pub'[q])
                PROVE  pub'[q].job.dir # job.dir
    BY <1>4 DEF Unwritten
  <2>1. q # p /\ pub'[q] = pub[q]
    BY <1>6, <1>8
  <2>2. ~WholeIn(disk, pub[q].job.dir)
    BY <2>1 DEF PubInv, DiskInv
  <2>3. WholeIn(disk, job.dir)
    BY <1>3, <1>4 DEF HasWholeManifest, Whole, Present, WholeIn
  <2>. QED
    BY <2>1, <2>2, <2>3
<1>. QED
  BY <1>1, <1>5, <1>6, <1>7, <1>9, OwnedQuiet

-----------------------------------------------------------------------------
(***************************************************************************)
(* The steps that write.                                                   *)
(***************************************************************************)
LEMMA OwnedMakeDirectory ==
    ASSUME PubInv, OwnedInv, NEW p \in Publishers, MakeDirectory(p)
    PROVE  OwnedInv'
<1> DEFINE s == pub[p]
           x == s.job.dir
           t == [s EXCEPT !.phase = IF x \in disk.dirs THEN "failed" ELSE "write"]
<1>1. /\ s.phase = "directory" /\ pub' = [pub EXCEPT ![p] = t]
      /\ disk' = [disk EXCEPT !.dirs = @ \cup {x}]
  BY DEF MakeDirectory, Become
<1>2. DOMAIN s = Fields
  BY DEF PubInv, Fits
<1>3. s.job.family \in Exclusive /\ ExclusiveJob(s.job) /\ HasOneWriter(x)
  BY <1>1, WriterFits, ExclusiveKind DEF Fits, HasOneWriter
<1>4. JobOK(s) /\ s.at = 1
  BY <1>1 DEF OwnedInv, JobOK
<1>5. /\ t.phase = IF x \in disk.dirs THEN "failed" ELSE "write"
      /\ t.job = s.job /\ t.at = 1 /\ \A f \in Fields \ {"phase", "at"} : t[f] = s[f]
  BY <1>2, <1>4 DEF Fields
<1>. HIDE DEF t, x
<1>6. Listed(disk, t) /\ JobOK(t)
  BY <1>1, <1>5, MovedOwned
<1>7. disk'.dirs = disk.dirs \cup {x} /\ disk'.files = disk.files /\ disk'.temps = disk.temps
  BY <1>1, OnlyDirectories
<1>8. \A d : SameIn(disk, disk', d)
  BY <1>7 DEF SameIn, FilesOf
<1>9. Touches(p, x)
  BY <1>8 DEF Touches
<1>10. \A path \in disk'.temps : ~HasOneWriter(path[1])
  BY <1>7 DEF OwnedInv
<1>11. WholeIn(disk', x) <=> WholeIn(disk, x)
  BY <1>7 DEF WholeIn
<1>12. Finished(disk', t) /\ Unwritten(pub', t)
  BY <1>5 DEF Finished, Unwritten
<1>13. x \notin disk.dirs => FilesOf(disk', x) = {}
  BY <1>3, <1>7 DEF FilesOf, OwnedInv, PubInv, DiskInv
<1>14. ExclusivelyWriting(t) => x \notin disk.dirs
  BY <1>5 DEF ExclusivelyWriting
<1>15. t.phase # "fill"
  BY <1>5
<1>16. Laid(disk', t)
  <2>. SUFFICES ASSUME ExclusivelyWriting(t)
                PROVE  /\ FilesOf(disk', x) = {Path(s.job, i) : i \in Begun(t)}
                       /\ Done(disk', s.job, 1)
    BY <1>5 DEF Laid, x
  <2>1. Begun(t) = {}
    BY <1>5, <1>15 DEF Begun
  <2>2. Done(disk', s.job, 1)
    BY DEF Done
  <2>. QED
    BY <1>13, <1>14, <2>1, <2>2
<1>17. t.job.dir = x
  BY <1>5 DEF x
<1>18. RunsBatch(t) => ListingOK(t) /\ \A c \in t.accepted : ChildAt(disk, c)
  BY <1>6 DEF Listed
<1>19. \A d \in disk.dirs : d \in disk'.dirs
  BY <1>7
<1>. QED
  BY <1>1, <1>6, <1>9, <1>10, <1>11, <1>12, <1>14, <1>16, <1>17, <1>18, <1>19, OwnedStep

\* A file is put into one directory.
LEMMA PutTouches ==
    ASSUME PubInv, NEW p \in Publishers, NEW x, NEW n, NEW c,
           disk' = [disk EXCEPT !.files = Put(<<x, n>>, c)],
           HasOneWriter(x) => ExclusivelyWriting(pub[p]) /\ pub[p].job.dir = x
    PROVE  /\ Touches(p, x) /\ disk'.temps = disk.temps /\ disk'.dirs = disk.dirs
           /\ FilesOf(disk', x) = FilesOf(disk, x) \cup {<<x, n>>}
<1>1. /\ disk'.dirs = disk.dirs /\ disk'.temps = disk.temps
      /\ DOMAIN disk'.files = DOMAIN disk.files \cup {<<x, n>>}
      /\ \A path \in DOMAIN disk.files : path # <<x, n>> => disk'.files[path] = disk.files[path]
  BY OnlyFile
<1>2. <<x, n>>[1] = x
  OBVIOUS
<1>3. \A d, path : d # x /\ path[1] = d => path # <<x, n>>
  BY <1>2
<1>4. FilesOf(disk', x) = FilesOf(disk, x) \cup {<<x, n>>}
  BY <1>1, <1>2 DEF FilesOf
<1>5. \A d : d # x => FilesOf(disk', d) = FilesOf(disk, d)
  BY <1>1, <1>2 DEF FilesOf
<1>6. \A d : d # x => SameIn(disk, disk', d)
  BY <1>1, <1>3, <1>5 DEF SameIn
<1>. QED
  BY <1>1, <1>4, <1>6 DEF Touches

LEMMA ExclusiveFiles ==
    ASSUME NEW job, ExclusiveJob(job)
    PROVE  /\ Len(job.files) \in {1, 2}
           /\ \A i \in 1..Len(job.files) : job.files[i].name = ManifestName <=> i = Len(job.files)
           /\ \A i, j \in 1..Len(job.files) : i # j => Path(job, i) # Path(job, j)
<1>1. PICK m : job.files = ManifestLast(job.family, m)
  BY DEF ExclusiveJob
<1>2. Len(job.files) \in {1, 2}
  BY <1>1, ListOfOne, ListOfTwo DEF ManifestLast
<1>3. \A i \in 1..Len(job.files) : job.files[i].name = ManifestName <=> i = Len(job.files)
  BY ExclusiveShape
<1>4. ASSUME NEW i \in 1..Len(job.files), NEW j \in 1..Len(job.files), i # j
      PROVE  Path(job, i) # Path(job, j)
  <2>1. job.files[i].name # job.files[j].name
    BY <1>2, <1>3, <1>4
  <2>. QED
    BY <2>1, TwoEqual DEF Path
<1>. QED
  BY <1>2, <1>3, <1>4

LEMMA OwnedCreate ==
    ASSUME PubInv, OwnedInv, NEW p \in Publishers, CreateFile(p)
    PROVE  OwnedInv'
<1> DEFINE s == pub[p]
           x == s.job.dir
           n == s.job.files[s.at].name
           failed == [s EXCEPT !.phase = "failed"]
           t == [s EXCEPT !.phase = "fill"]
<1>1. /\ s.phase = "write" /\ s.job.family \in Exclusive /\ ExclusivelyWriting(s)
      /\ Here(p) = <<x, n>> /\ Path(s.job, s.at) = <<x, n>>
  BY DEF CreateFile, ExclusivelyWriting, Here, Path
<1>2. \/ pub' = [pub EXCEPT ![p] = failed] /\ UNCHANGED disk
      \/ /\ ~Present(<<x, n>>) /\ pub' = [pub EXCEPT ![p] = t]
         /\ disk' = [disk EXCEPT !.files = Put(<<x, n>>, Torn)]
  BY <1>1, Zenon DEF CreateFile, Become
<1>3. DOMAIN s = Fields /\ s.at \in 1..Len(s.job.files) /\ ExclusiveJob(s.job) /\ HasOneWriter(x)
  BY <1>1, WriterFits, ExclusiveKind DEF Fits, HasOneWriter
<1>4. Laid(disk, s)
  BY DEF OwnedInv
<1>5. FilesOf(disk, x) = {Path(s.job, i) : i \in Begun(s)} /\ Done(disk, s.job, s.at)
  BY <1>1, <1>4 DEF Laid
<1>6. failed.phase = "failed" /\ \A f \in Fields \ {"phase", "at"} : failed[f] = s[f]
  BY <1>3 DEF Fields
<1>7. /\ t.phase = "fill" /\ t.job = s.job /\ t.at = s.at
      /\ \A f \in Fields \ {"phase", "at"} : t[f] = s[f]
  BY <1>3 DEF Fields
<1>8. CASE pub' = [pub EXCEPT ![p] = failed] /\ UNCHANGED disk
  <2>. HIDE DEF failed
  <2>1. Listed(disk, failed) /\ JobOK(failed)
    BY <1>1, <1>6, MovedOwned
  <2>. QED
    BY <1>6, <1>8, <2>1, OwnedNotWriting
<1>. HIDE DEF n, failed
<1>9. CASE /\ ~Present(<<x, n>>) /\ pub' = [pub EXCEPT ![p] = t]
           /\ disk' = [disk EXCEPT !.files = Put(<<x, n>>, Torn)]
  <2>. HIDE DEF t
  <2>1. /\ Touches(p, x) /\ disk'.temps = disk.temps /\ disk'.dirs = disk.dirs
        /\ FilesOf(disk', x) = FilesOf(disk, x) \cup {<<x, n>>}
    <3>. HIDE DEF x
    <3>1. HasOneWriter(x) => ExclusivelyWriting(pub[p]) /\ pub[p].job.dir = x
      BY <1>1 DEF x
    <3>. QED
      BY <1>9, <3>1, PutTouches
  <2>2. Listed(disk, t) /\ JobOK(t)
    BY <1>1, <1>7, MovedOwned
  <2>3. Begun(t) = Begun(s) \cup {s.at}
    BY <1>1, <1>3, <1>7 DEF Begun
  <2>4. FilesOf(disk', x) = {Path(s.job, i) : i \in Begun(t)}
    BY <1>1, <1>5, <2>1, <2>3
  <2>5. Done(disk', s.job, s.at)
    <3>1. \A path \in DOMAIN disk.files :
             path # <<x, n>> => path \in DOMAIN disk'.files /\ disk'.files[path] = disk.files[path]
      <4>. HIDE DEF x
      <4>1. /\ DOMAIN disk'.files = DOMAIN disk.files \cup {<<x, n>>}
            /\ \A path \in DOMAIN disk.files : path # <<x, n>> => disk'.files[path] = disk.files[path]
        BY <1>9, OnlyFile
      <4>. QED
        BY <4>1
    <3>2. \A i : InPlace(disk, s.job, i) => InPlace(disk', s.job, i)
      BY <1>9, <3>1 DEF InPlace, Present
    <3>. QED
      BY <1>5, <3>2 DEF Done
  <2>6. Laid(disk', t)
    BY <1>7, <2>4, <2>5 DEF Laid
  <2>7. ExclusivelyWriting(t)
    BY <1>1, <1>7 DEF ExclusivelyWriting
  <2>8. ~WholeIn(disk', x)
    <3>1. PubInv' /\ pub'[p] = t
      BY <1>9, CreateKeeps DEF PubInv
    <3>. QED
      BY <1>7, <2>7, <3>1 DEF PubInv, DiskInv
  <2>9. Finished(disk', t) /\ Unwritten(pub', t)
    BY <1>7 DEF Finished, Unwritten
  <2>10. \A path \in disk'.temps : ~HasOneWriter(path[1])
    BY <2>1 DEF OwnedInv
  <2>11. \A d \in disk.dirs : d \in disk'.dirs
    BY <2>1
  <2>12. RunsBatch(t) => ListingOK(t) /\ \A c \in t.accepted : ChildAt(disk, c)
    BY <2>2 DEF Listed
  <2>. QED
    BY <1>1, <1>7, <1>9, <2>1, <2>2, <2>6, <2>8, <2>9, <2>10, <2>11, <2>12, OwnedStep
<1>. QED
  BY <1>2, <1>8, <1>9

\* A publisher that has laid all its files has sealed the directory.
LEMMA AllLaid ==
    ASSUME NEW a, NEW s, ExclusiveJob(s.job), JobOK(s), NEW x, s.job.dir = x, Listed(disk, s),
           FilesOf(a, x) = {Path(s.job, i) : i \in 1..Len(s.job.files)},
           \A i \in 1..Len(s.job.files) : InPlace(a, s.job, i),
           \A c : ChildAt(disk, c) => ChildAt(a, c)
    PROVE  Sealed(a, x)
<1> DEFINE job == s.job
           m == a.files[<<x, ManifestName>>]
<1>1. x.of = DirectoryKind(job.family) /\ job.family \in Exclusive
  BY DEF ExclusiveJob
<1>2. CASE job.family = "batch"
  <2>1. x.of = "batch" /\ RunsBatch(s)
    BY <1>1, <1>2 DEF DirectoryKind, FeatureFamilies, Derived, RunsBatch
  <2>2. ListingOK(s) /\ \A c \in s.accepted : ChildAt(a, c)
    BY <2>1 DEF Listed
  <2>3. s.todo = {} /\ job = BatchJob(s.request, s.accepted, s.rejected)
    BY <1>2 DEF JobOK
  <2>. HIDE DEF job
  <2>4. /\ OnceEach(s) /\ IsFiniteSet(Grid(s.request))
        /\ \A c \in s.accepted : Tells(c, s.request.set)
    BY <2>2, NextOfBatch DEF ListingOK
  <2>5. /\ Len(job.files) = 1
        /\ BatchHolds(job.dir, Content(job, 1))
        /\ Content(job, 1).accepted = s.accepted
    BY <2>3, <2>4, BatchManifestHolds
  <2>6. job.files[1].name = ManifestName
    BY <2>5, ExclusiveShape DEF job
  <2>7. Path(job, 1) = <<x, ManifestName>>
    BY <2>6 DEF Path, job
  <2>8. InPlace(a, job, 1) /\ FilesOf(a, x) = {Path(job, 1)}
    BY <2>5 DEF job
  <2>9. m = Content(job, 1)
    BY <2>7, <2>8 DEF InPlace
  <2>10. BatchHolds(x, m) /\ m.accepted = s.accepted
    BY <2>5, <2>9 DEF job
  <2>. HIDE DEF m
  <2>11. /\ FilesOf(a, x) = {<<x, ManifestName>>} /\ BatchHolds(x, m)
         /\ \A c \in m.accepted : ChildAt(a, c)
    BY <2>2, <2>7, <2>8, <2>10
  <2>. QED
    BY <2>1, <2>11, Zenon DEF Sealed, m
<1>3. CASE job.family # "batch"
  <2>1. PICK k : /\ job.files = ManifestLast(job.family, k)
                 /\ job.family \in FeatureFamilies => FamilyHolds(k)
    BY DEF ExclusiveJob, JobOK, Describes
  <2>2. /\ Len(job.files) = 2
        /\ Path(job, 1) = <<x, PartFile>> /\ Content(job, 1) = k.part
        /\ Path(job, 2) = <<x, ManifestName>> /\ Content(job, 2) = k
    BY <1>3, <2>1, LastOfTwo
  <2>. HIDE DEF job
  <2>3. FilesOf(a, x) = {Path(job, i) : i \in 1..2} /\ InPlace(a, job, 1) /\ InPlace(a, job, 2)
    BY <2>2 DEF job
  <2>4. FilesOf(a, x) = {Path(job, 1), Path(job, 2)}
    <3>1. 1..2 = {1, 2}
      OBVIOUS
    <3>. QED
      BY <2>3, <3>1
  <2>5. m = k /\ a.files[<<x, PartFile>>] = k.part
    BY <2>2, <2>3 DEF InPlace
  <2>6. WithPart(a, x, k)
    BY <2>2, <2>4, <2>5 DEF WithPart
  <2>7. x.of # "batch" /\ (x.of = "artifact" => FamilyHolds(k))
    BY <1>1, <1>3, <2>1 DEF DirectoryKind, Exclusive, FeatureFamilies, Derived
  <2>. HIDE DEF m
  <2>. QED
    BY <2>5, <2>6, <2>7, Zenon DEF Sealed, m
<1>. QED
  BY <1>2, <1>3

LEMMA OwnedFill ==
    ASSUME PubInv, OwnedInv, NEW p \in Publishers, FillFile(p), pub[p].job.family \in Exclusive
    PROVE  OwnedInv'
<1> DEFINE s == pub[p]
           job == s.job
           x == job.dir
           n == job.files[s.at].name
           c == Content(job, s.at)
           t == Written(p)
           last == Len(job.files)
<1>1. /\ s.phase = "fill" /\ ExclusivelyWriting(s) /\ Path(job, s.at) = <<x, n>>
      /\ pub' = [pub EXCEPT ![p] = t] /\ disk' = [disk EXCEPT !.files = Put(<<x, n>>, c)]
  BY DEF FillFile, ExclusivelyWriting, Become, Here, Mine, Path
<1>2. DOMAIN s = Fields /\ s.at \in 1..last /\ ExclusiveJob(job) /\ HasOneWriter(x)
  BY <1>1, WriterFits, ExclusiveKind DEF Fits, HasOneWriter
<1>3. /\ last \in {1, 2} /\ job.files[last].name = ManifestName
      /\ \A i, j \in 1..last : i # j => Path(job, i) # Path(job, j)
  BY <1>2, ExclusiveFiles
<1>4. /\ JobOK(s) /\ Listed(disk, s)
      /\ FilesOf(disk, x) = {Path(job, i) : i \in Begun(s)} /\ Done(disk, job, s.at)
  BY <1>1 DEF OwnedInv, Laid
<1>5. /\ t.job = job
      /\ \/ s.at = last /\ t.phase = "published"
         \/ s.at # last /\ t.phase = "write" /\ t.at = s.at + 1
  BY <1>1, WrittenFits
<1>6. \A f \in Fields \ {"phase", "at"} : t[f] = s[f]
  <2> DEFINE done == [s EXCEPT !.phase = "published"]
             more == [s EXCEPT !.phase = "write", !.at = @ + 1]
  <2>1. t = done \/ t = more
    BY Zenon DEF Written
  <2>2. \A f \in Fields \ {"phase", "at"} : done[f] = s[f] /\ more[f] = s[f]
    BY <1>2 DEF Fields
  <2>. QED
    BY <2>1, <2>2
<1>. HIDE DEF t
<1>7. Listed(disk, t) /\ JobOK(t)
  BY <1>1, <1>5, <1>6, MovedOwned
<1>. HIDE DEF x, n, c, last
<1>8. /\ Touches(p, x) /\ disk'.temps = disk.temps /\ disk'.dirs = disk.dirs
      /\ FilesOf(disk', x) = FilesOf(disk, x) \cup {<<x, n>>}
  <2>1. HasOneWriter(x) => ExclusivelyWriting(pub[p]) /\ pub[p].job.dir = x
    BY <1>1 DEF x
  <2>. QED
    BY <1>1, <2>1, PutTouches
<1>9. /\ DOMAIN disk'.files = DOMAIN disk.files \cup {<<x, n>>} /\ disk'.files[<<x, n>>] = c
      /\ \A path \in DOMAIN disk.files : path # <<x, n>> => disk'.files[path] = disk.files[path]
  BY <1>1, OnlyFile
<1>10. InPlace(disk', job, s.at)
  BY <1>1, <1>9 DEF InPlace, c
<1>11. ASSUME NEW i \in 1..last, i < s.at PROVE InPlace(disk', job, i)
  <2>1. InPlace(disk, job, i)
    BY <1>4, <1>11 DEF Done, last
  <2>2. s.at \in Int /\ i # s.at
    BY <1>2, <1>3, <1>11
  <2>3. Path(job, i) # <<x, n>>
    BY <1>1, <1>2, <1>3, <2>2
  <2>. QED
    BY <1>9, <2>1, <2>3 DEF InPlace
<1>12. Begun(s) = {i \in 1..last : i <= s.at}
  BY <1>1, <1>2, <1>3 DEF Begun, last
<1>13. FilesOf(disk', x) = {Path(job, i) : i \in Begun(s)}
  BY <1>1, <1>2, <1>3, <1>4, <1>8, <1>12
<1>14. pub'[p] = t /\ \A q \in Publishers \ {p} : pub'[q] = pub[q]
  BY <1>1 DEF PubInv
<1>15. Laid(disk', t) /\ (ExclusivelyWriting(t) => ~WholeIn(disk', x))
  <2>. SUFFICES ASSUME ExclusivelyWriting(t)
                PROVE  /\ FilesOf(disk', x) = {Path(job, i) : i \in Begun(t)}
                       /\ Done(disk', job, t.at) /\ ~WholeIn(disk', x)
    BY <1>5 DEF Laid, x
  <2>1. t.phase = "write" /\ t.at = s.at + 1
    BY <1>5 DEF ExclusivelyWriting
  <2>2. Begun(t) = Begun(s)
    BY <1>2, <1>3, <1>5, <1>12, <2>1 DEF Begun, last
  <2>3. \A i \in 1..last : i < t.at => i < s.at \/ i = s.at
    BY <1>2, <1>3, <2>1
  <2>4. Done(disk', job, t.at)
    BY <1>10, <1>11, <2>3 DEF Done, last
  <2>5. PubInv'
    BY FillKeeps
  <2>6. ~WholeIn(disk', x)
    BY <1>5, <1>14, <2>5 DEF PubInv, DiskInv, x
  <2>. QED
    BY <1>13, <2>2, <2>4, <2>6
<1>16. ASSUME s.at = last PROVE Sealed(disk', x)
  <2>1. Begun(s) = 1..last
    BY <1>3, <1>12, <1>16
  <2>2. \A i \in 1..last : InPlace(disk', job, i)
    BY <1>3, <1>10, <1>11, <1>16
  <2>3. \A e : ChildAt(disk, e) => ChildAt(disk', e)
    BY <1>8, ChildKept
  <2>4. /\ FilesOf(disk', x) = {Path(s.job, i) : i \in 1..Len(s.job.files)}
        /\ \A i \in 1..Len(s.job.files) : InPlace(disk', s.job, i)
        /\ s.job.dir = x
    BY <1>13, <2>1, <2>2 DEF last, x
  <2>. QED
    BY <1>2, <1>4, <2>3, <2>4, AllLaid
<1>17. Finished(disk', t) /\ Unwritten(pub', t)
  <2>1. ASSUME t.phase = "published" PROVE s.at = last /\ ~ExclusivelyWriting(t)
    BY <1>5, <2>1 DEF ExclusivelyWriting
  <2>2. Finished(disk', t)
    <3>. SUFFICES ASSUME t.phase = "published"
                  PROVE  /\ x \in disk'.dirs
                         /\ <<x, ManifestName>> \in DOMAIN disk'.files
                         /\ disk'.files[<<x, ManifestName>>] = Content(job, last)
      BY <1>5 DEF Finished, x, last
    <3>1. x \in disk'.dirs
      BY <1>1, <1>8 DEF PubInv, DiskInv, Holds, x
    <3>2. n = ManifestName
      BY <1>3, <2>1 DEF n
    <3>. QED
      BY <1>9, <2>1, <3>1, <3>2 DEF c
  <2>3. Unwritten(pub', t)
    <3>. SUFFICES ASSUME t.phase = "published", NEW q \in Publishers, ExclusivelyWriting(pub'[q])
                  PROVE  pub'[q].job.dir # x
      BY <1>5 DEF Unwritten, x
    <3>1. q # p /\ pub'[q] = pub[q]
      BY <1>14, <2>1
    <3>. QED
      BY <1>1, <3>1, ExclusiveWriterIsAlone DEF Alone, x
  <2>. QED
    BY <2>2, <2>3
<1>18. WholeIn(disk', x) => Sealed(disk', x)
  BY <1>1, <1>5, <1>15, <1>16 DEF ExclusivelyWriting
<1>19. \A path \in disk'.temps : ~HasOneWriter(path[1])
  BY <1>8 DEF OwnedInv
<1>20. \A d \in disk.dirs : d \in disk'.dirs
  BY <1>8
<1>21. RunsBatch(t) => ListingOK(t) /\ \A e \in t.accepted : ChildAt(disk, e)
  BY <1>7 DEF Listed
<1>22. t.job.dir = pub[p].job.dir
  BY <1>5
<1>. HIDE DEF s, job
<1>. QED
  BY <1>1, <1>7, <1>8, <1>15, <1>17, <1>18, <1>19, <1>20, <1>21, <1>22, OwnedStep DEF s

-----------------------------------------------------------------------------
\* The steps of those who write to directories of the other families.
LEMMA OwnedElsewhere ==
    ASSUME PubInv, OwnedInv, NEW p \in Publishers, NEW t, pub' = [pub EXCEPT ![p] = t],
           pub[p].phase \notin {"idle", "partition", "failed"}, pub[p].job.family \notin Exclusive,
           t.phase \notin {"partition", "directory"},
           \A f \in Fields \ {"phase", "at"} : t[f] = pub[p][f],
           \A d : d # pub[p].job.dir => SameIn(disk, disk', d),
           disk'.temps \subseteq disk.temps \cup {Temporary(p)},
           \A d \in disk.dirs : d \in disk'.dirs
    PROVE  OwnedInv'
<1> DEFINE x == pub[p].job.dir
<1>1. ~HasOneWriter(x)
  BY WriterFits, SharedShape DEF HasOneWriter
<1>2. Touches(p, x)
  BY <1>1 DEF Touches
<1>3. \A path \in disk'.temps : ~HasOneWriter(path[1])
  <2>1. Temporary(p)[1] = x
    BY DEF Temporary
  <2>. QED
    BY <1>1, <2>1 DEF OwnedInv
<1>4. t.job = pub[p].job
  BY DEF Fields
<1>5. Listed(disk, t) /\ JobOK(t)
  BY MovedOwned
<1>6. ~ExclusivelyWriting(t) /\ t.job.family \notin FeatureFamilies
  BY <1>4 DEF ExclusivelyWriting, Exclusive
<1>7. Laid(disk', t) /\ Finished(disk', t) /\ Unwritten(pub', t)
  BY <1>6 DEF Laid, Finished, Unwritten
<1>8. RunsBatch(t) => ListingOK(t) /\ \A c \in t.accepted : ChildAt(disk, c)
  BY <1>5 DEF Listed
<1>. HIDE DEF x
<1>. QED
  BY <1>1, <1>2, <1>3, <1>5, <1>6, <1>7, <1>8, OwnedStep

LEMMA WrittenMoves ==
    ASSUME NEW p, DOMAIN pub[p] = Fields
    PROVE  /\ \A f \in Fields \ {"phase", "at"} : Written(p)[f] = pub[p][f]
           /\ Written(p).phase \in {"published", "write"}
<1> DEFINE s == pub[p]
           done == [s EXCEPT !.phase = "published"]
           more == [s EXCEPT !.phase = "write", !.at = @ + 1]
<1>1. Written(p) = done \/ Written(p) = more
  BY Zenon DEF Written
<1>2. /\ \A f \in Fields \ {"phase", "at"} : done[f] = s[f] /\ more[f] = s[f]
      /\ done.phase = "published" /\ more.phase = "write"
  BY DEF Fields
<1>. QED
  BY <1>1, <1>2

LEMMA PhaseMoves ==
    ASSUME NEW s, DOMAIN s = Fields, NEW phase
    PROVE  LET t == [s EXCEPT !.phase = phase] IN
           t.phase = phase /\ \A f \in Fields \ {"phase", "at"} : t[f] = s[f]
BY DEF Fields

LEMMA PutElsewhere ==
    ASSUME PubInv, NEW x, NEW n, NEW c, disk' = [disk EXCEPT !.files = Put(<<x, n>>, c)]
    PROVE  /\ \A d : d # x => SameIn(disk, disk', d)
           /\ disk'.temps = disk.temps /\ disk'.dirs = disk.dirs
<1>1. disk'.dirs = disk.dirs /\ disk'.temps = disk.temps /\ disk'.files = Put(<<x, n>>, c)
  BY OnlyFile, SMTT(40)
<1>2. /\ DOMAIN disk'.files = DOMAIN disk.files \cup {<<x, n>>}
      /\ \A path \in DOMAIN disk.files : path # <<x, n>> => disk'.files[path] = disk.files[path]
  BY <1>1 DEF Put
<1>3. <<x, n>>[1] = x
  OBVIOUS
<1>4. \A d, path : d # x /\ path[1] = d => path # <<x, n>>
  BY <1>3
<1>5. \A d : d # x => FilesOf(disk', d) = FilesOf(disk, d)
  BY <1>1, <1>2, <1>3 DEF FilesOf
<1>. QED
  BY <1>1, <1>2, <1>4, <1>5 DEF SameIn

LEMMA OwnedShared ==
    ASSUME PubInv, OwnedInv, NEW p \in Publishers,
           \/ ExamineFile(p) \/ Overwrite(p) \/ WriteTemporary(p) \/ LinkFile(p) \/ UnlinkTemporary(p)
           \/ FillFile(p) /\ pub[p].job.family \notin Exclusive
    PROVE  OwnedInv'
<1> DEFINE s == pub[p]
           x == s.job.dir
           n == s.job.files[s.at].name
           Moved(t) == /\ pub' = [pub EXCEPT ![p] = t]
                       /\ \A f \in Fields \ {"phase", "at"} : t[f] = s[f]
                       /\ t.phase \notin {"partition", "directory"}
           Elsewhere == /\ \A d : d # x => SameIn(disk, disk', d)
                        /\ disk'.temps \subseteq disk.temps \cup {Temporary(p)}
                        /\ \A d \in disk.dirs : d \in disk'.dirs
<1>1. /\ s.phase \in {"write", "fill", "stage", "link", "unlink", "unlink and fail"}
      /\ s.job.family \notin Exclusive /\ DOMAIN s = Fields
  BY WriterFits DEF ExamineFile, Overwrite, WriteTemporary, LinkFile, UnlinkTemporary, FillFile, Fits,
                    PubInv
<1>2. \E t : Moved(t)
  <2>1. \A phase \in {"stage", "failed", "fill", "link", "unlink", "unlink and fail"} :
           pub' = [pub EXCEPT ![p] = [s EXCEPT !.phase = phase]] => Moved([s EXCEPT !.phase = phase])
    BY <1>1, PhaseMoves
  <2>2. pub' = [pub EXCEPT ![p] = Written(p)] => Moved(Written(p))
    BY <1>1, WrittenMoves
  <2>3. \/ pub' = [pub EXCEPT ![p] = Written(p)]
        \/ \E phase \in {"stage", "failed", "fill", "link", "unlink", "unlink and fail"} :
              pub' = [pub EXCEPT ![p] = [s EXCEPT !.phase = phase]]
    <3>1. ExamineFile(p) => \/ pub' = [pub EXCEPT ![p] = Written(p)]
                            \/ pub' = [pub EXCEPT ![p] = [s EXCEPT !.phase = "stage"]]
                            \/ pub' = [pub EXCEPT ![p] = [s EXCEPT !.phase = "failed"]]
      BY Zenon DEF ExamineFile, Examine, Become
    <3>2. Overwrite(p) => pub' = [pub EXCEPT ![p] = [s EXCEPT !.phase = "fill"]]
      BY Zenon DEF Overwrite, Become
    <3>3. WriteTemporary(p) => pub' = [pub EXCEPT ![p] = [s EXCEPT !.phase = "link"]]
      BY Zenon DEF WriteTemporary, Become
    <3>4. LinkFile(p) => \/ pub' = [pub EXCEPT ![p] = [s EXCEPT !.phase = "unlink"]]
                         \/ pub' = [pub EXCEPT ![p] = [s EXCEPT !.phase = "unlink and fail"]]
      BY Zenon DEF LinkFile, Become
    <3>5. UnlinkTemporary(p) => \/ pub' = [pub EXCEPT ![p] = Written(p)]
                                \/ pub' = [pub EXCEPT ![p] = [s EXCEPT !.phase = "failed"]]
      BY Zenon DEF UnlinkTemporary, Become
    <3>6. FillFile(p) => pub' = [pub EXCEPT ![p] = Written(p)]
      BY Zenon DEF FillFile, Become
    <3>7. \A phase \in {"stage", "failed", "fill", "link", "unlink", "unlink and fail"} :
             pub' = [pub EXCEPT ![p] = [s EXCEPT !.phase = phase]] =>
             \E ph \in {"stage", "failed", "fill", "link", "unlink", "unlink and fail"} :
                pub' = [pub EXCEPT ![p] = [s EXCEPT !.phase = ph]]
      BY Zenon
    <3>. QED
      BY <3>1, <3>2, <3>3, <3>4, <3>5, <3>6, <3>7
  <2>. HIDE DEF Moved
  <2>. QED
    BY <2>1, <2>2, <2>3
<1>3. Elsewhere
  <2>1. CASE ExamineFile(p)
    <3>1. disk'.dirs = disk.dirs \cup {x} /\ disk'.files = disk.files /\ disk'.temps = disk.temps
      BY <2>1, OnlyDirectories DEF ExamineFile
    <3>. QED
      BY <3>1 DEF SameIn, FilesOf
  <2>2. CASE WriteTemporary(p) \/ UnlinkTemporary(p)
    <3>1. /\ disk'.dirs = disk.dirs /\ disk'.files = disk.files
          /\ disk'.temps = disk.temps \cup {Temporary(p)} \/ disk'.temps = disk.temps \ {Temporary(p)}
      BY <2>2 DEF WriteTemporary, UnlinkTemporary, PubInv, DiskInv
    <3>2. Temporary(p)[1] = x
      BY DEF Temporary
    <3>3. \A d : d # x => FilesOf(disk', d) = FilesOf(disk, d)
      BY <3>1, <3>2 DEF FilesOf
    <3>4. \A d : d # x => SameIn(disk, disk', d)
      BY <3>1, <3>3 DEF SameIn
    <3>. QED
      BY <3>1, <3>4
  <2>3. CASE Overwrite(p) \/ LinkFile(p) \/ FillFile(p)
    <3>1. UNCHANGED disk \/ \E c : disk' = [disk EXCEPT !.files = Put(<<x, n>>, c)]
      BY <2>3, Zenon DEF Overwrite, LinkFile, FillFile, Here, Path
    <3>. HIDE DEF x, n
    <3>2. CASE UNCHANGED disk
      BY <3>2 DEF SameIn
    <3>3. ASSUME NEW c, disk' = [disk EXCEPT !.files = Put(<<x, n>>, c)] PROVE Elsewhere
      BY <3>3, PutElsewhere
    <3>. QED
      BY <3>1, <3>2, <3>3
  <2>. QED
    BY <2>1, <2>2, <2>3
<1>4. PICK t : Moved(t)
  BY <1>2
<1>. QED
  BY <1>1, <1>3, <1>4, OwnedElsewhere

-----------------------------------------------------------------------------
(***************************************************************************)
(* Disk failures.                                                          *)
(***************************************************************************)
LEMMA DiskErrorState ==
    ASSUME PubInv, OwnedInv, NEW p \in Publishers, DiskError(p)
    PROVE  \E t : /\ pub' = [pub EXCEPT ![p] = t] /\ t.phase \in {"partition", "failed"}
                  /\ Listed(disk, t) /\ JobOK(t)
<1> DEFINE s == pub[p]
           failed == [s EXCEPT !.phase = "failed"]
<1>1. s.phase \in {"directory", "fill", "stage", "link"} /\ DOMAIN s = Fields
  BY DEF DiskError, PubInv, Fits
<1>2. CASE Child(p)
  <2>1. s.job.family \in FeatureFamilies
    BY <1>2 DEF Child
  <2>2. RunsBatch(s) /\ s.todo # {}
    BY <2>1 DEF RunsBatch, OwnedInv, JobOK
  <2>3. PICK reason : Reject(p, NextPartition(s.todo), reason)
    BY <1>2, Zenon DEF DiskError
  <2>. HIDE DEF failed
  <2>. QED
    BY <2>2, <2>3, RejectedState
<1>3. CASE ~Child(p)
  <2>1. pub' = [pub EXCEPT ![p] = failed]
    BY <1>3, Zenon DEF DiskError, Become
  <2>2. failed.phase = "failed" /\ \A f \in Fields \ {"phase", "at"} : failed[f] = s[f]
    BY <1>1, PhaseMoves
  <2>. HIDE DEF failed
  <2>3. Listed(disk, failed) /\ JobOK(failed)
    BY <1>1, <2>2, MovedOwned
  <2>. QED
    BY <2>1, <2>2, <2>3
<1>. QED
  BY <1>2, <1>3

\* A temporary file goes: none of them is in a directory of one writer.
LEMMA TemporaryGone ==
    ASSUME OwnedInv, NEW p \in Publishers, disk'.files = disk.files,
           disk'.temps = disk.temps \ {Temporary(p)}
    PROVE  Touches(p, pub[p].job.dir)
<1> DEFINE x == pub[p].job.dir
<1>1. Temporary(p)[1] = x
  BY DEF Temporary
<1>2. HasOneWriter(x) => Temporary(p) \notin disk.temps
  BY <1>1 DEF OwnedInv
<1>3. \A d : d # x \/ HasOneWriter(x) => FilesOf(disk', d) = FilesOf(disk, d)
  BY <1>1, <1>2 DEF FilesOf
<1>4. \A d : d # x \/ HasOneWriter(x) => SameIn(disk, disk', d)
  BY <1>3 DEF SameIn
<1>. QED
  BY <1>4 DEF Touches

\* A directory goes with all of its files.
LEMMA DirectoryGone ==
    ASSUME PubInv, NEW x,
           disk' = [disk EXCEPT !.dirs = @ \ {x},
                                !.files = [path \in {q \in DOMAIN @ : q[1] # x} |-> @[path]]]
    PROVE  /\ \A d : d # x => SameIn(disk, disk', d)
           /\ disk'.dirs = disk.dirs \ {x} /\ disk'.temps = disk.temps /\ ~WholeIn(disk', x)
<1>1. disk'.dirs = disk.dirs \ {x} /\ disk'.temps = disk.temps
  BY DEF PubInv, DiskInv
<1>2. disk'.files = [path \in {q \in DOMAIN disk.files : q[1] # x} |-> disk.files[path]]
  BY DEF PubInv, DiskInv
<1>3. /\ DOMAIN disk'.files = {q \in DOMAIN disk.files : q[1] # x}
      /\ \A path \in DOMAIN disk.files : path[1] # x => disk'.files[path] = disk.files[path]
  BY <1>2
<1>4. <<x, ManifestName>>[1] = x
  OBVIOUS
<1>5. ~WholeIn(disk', x)
  BY <1>3, <1>4 DEF WholeIn
<1>6. \A d : d # x => FilesOf(disk', d) = FilesOf(disk, d)
  BY <1>1, <1>3 DEF FilesOf
<1>7. \A d : d # x => SameIn(disk, disk', d)
  BY <1>3, <1>6 DEF SameIn
<1>. QED
  BY <1>1, <1>5, <1>7

LEMMA OwnedDiskError ==
    ASSUME PubInv, OwnedInv, NEW p \in Publishers, DiskError(p)
    PROVE  OwnedInv'
<1>1. PICK t : /\ pub' = [pub EXCEPT ![p] = t] /\ t.phase \in {"partition", "failed"}
               /\ Listed(disk, t) /\ JobOK(t)
  BY DiskErrorState
<1>2. RunsBatch(t) => ListingOK(t) /\ \A c \in t.accepted : ChildAt(disk, c)
  BY <1>1 DEF Listed
<1>3. /\ ~ExclusivelyWriting(t)
      /\ Laid(disk', t) /\ Finished(disk', t) /\ Unwritten(pub', t)
  BY <1>1 DEF ExclusivelyWriting, Laid, Finished, Unwritten
<1>4. \A path \in disk.temps : ~HasOneWriter(path[1])
  BY DEF OwnedInv
<1> DEFINE x == pub[p].job.dir
<1>5. x = pub[p].job.dir
  OBVIOUS
<1>6. \/ /\ ExclusivelyWriting(pub[p]) /\ pub[p].job.family = "adjusted"
         /\ disk' = [disk EXCEPT !.dirs = @ \ {x},
                                 !.files = [path \in {q \in DOMAIN @ : q[1] # x} |-> @[path]]]
      \/ /\ disk'.dirs = disk.dirs /\ disk'.files = disk.files
         /\ disk'.temps = disk.temps \ {Temporary(p)}
  BY DiskErrorShape, Zenon
<1>. HIDE DEF x
<1>7. CASE /\ ExclusivelyWriting(pub[p]) /\ pub[p].job.family = "adjusted"
           /\ disk' = [disk EXCEPT !.dirs = @ \ {x},
                                   !.files = [path \in {q \in DOMAIN @ : q[1] # x} |-> @[path]]]
  <2>1. /\ \A d : d # x => SameIn(disk, disk', d)
        /\ disk'.dirs = disk.dirs \ {x} /\ disk'.temps = disk.temps /\ ~WholeIn(disk', x)
    BY <1>7, DirectoryGone
  <2>2. Touches(p, x)
    BY <1>5, <1>7, <2>1 DEF Touches
  <2>3. x.of = "adjusted"
    <3>1. JobFits(pub[p].job)
      BY <1>7, WriterFits DEF ExclusivelyWriting
    <3>. QED
      BY <1>5, <1>7, <3>1, JobShape DEF DirectoryKind, FeatureFamilies, Derived
  <2>4. \A d \in disk.dirs : d \in disk'.dirs \/ d.of = "adjusted"
    BY <2>1, <2>3
  <2>5. \A path \in disk'.temps : ~HasOneWriter(path[1])
    BY <1>4, <2>1
  <2>. QED
    BY <1>1, <1>2, <1>3, <2>1, <2>2, <2>4, <2>5, OwnedStep
<1>8. CASE /\ disk'.dirs = disk.dirs /\ disk'.files = disk.files
           /\ disk'.temps = disk.temps \ {Temporary(p)}
  <2>1. Touches(p, x)
    BY <1>5, <1>8, TemporaryGone
  <2>2. WholeIn(disk', x) <=> WholeIn(disk, x)
    BY <1>8 DEF WholeIn
  <2>3. \A path \in disk'.temps : ~HasOneWriter(path[1])
    BY <1>4, <1>8
  <2>4. \A d \in disk.dirs : d \in disk'.dirs
    BY <1>8
  <2>. QED
    BY <1>1, <1>2, <1>3, <2>1, <2>2, <2>3, <2>4, OwnedStep
<1>. QED
  BY <1>6, <1>7, <1>8

-----------------------------------------------------------------------------
LEMMA OwnedInitHolds == PubInit => OwnedInv
<1>. SUFFICES ASSUME PubInit PROVE OwnedInv
  OBVIOUS
<1>1. DOMAIN disk.files = {} /\ disk.temps = {}
  BY DEF PubInit
<1>2. \A p \in Publishers : pub[p] = Resting
  BY DEF PubInit
<1>3. Listed(disk, Resting) /\ JobOK(Resting)
  BY RestingFields, NoBatch DEF FeatureFamilies, Derived
<1>4. Laid(disk, Resting) /\ Finished(disk, Resting) /\ Unwritten(pub, Resting)
  BY RestingFields DEF Laid, Finished, Unwritten, ExclusivelyWriting
<1>5. \A d : ~WholeIn(disk, d)
  BY <1>1 DEF WholeIn
<1>. QED
  BY <1>1, <1>2, <1>3, <1>4, <1>5 DEF OwnedInv

LEMMA OwnedNext ==
    ASSUME PubInv, OwnedInv, StoreTypeOK, [PubNext]_pubVars
    PROVE  OwnedInv'
<1>1. CASE UNCHANGED <<disk, pub>>
  BY <1>1 DEF OwnedInv
<1>2. ASSUME NEW p \in Publishers, NEW request \in Requests[theme],
             \/ StartBatch(p, request) \/ StartDocument(p, request) \/ StartResult(p, request)
             \/ StartSpec(p, request) \/ StartAdjusted(p, request)
      PROVE  OwnedInv'
  <2>1. request \in Asked
    BY <1>2 DEF Asked, StoreTypeOK
  <2>. QED
    BY <1>2, <2>1, OwnedStart
<1>3. ASSUME NEW p \in Publishers, CreateFile(p) \/ FillFile(p) \/ MakeDirectory(p)
      PROVE  OwnedInv'
  <2>1. CASE FillFile(p) /\ pub[p].job.family \in Exclusive
    BY <2>1, OwnedFill
  <2>2. CASE FillFile(p) /\ pub[p].job.family \notin Exclusive
    BY <2>2, OwnedShared
  <2>. QED
    BY <1>3, <2>1, <2>2, OwnedCreate, OwnedMakeDirectory
<1>4. ASSUME NEW p \in Publishers, Step(p) PROVE OwnedInv'
  BY <1>3, <1>4, OwnedSkip, OwnedSelect, OwnedAccept, OwnedInstall, OwnedOpen, OwnedShared, OwnedLeave
     DEF Step
<1>5. ASSUME NEW p \in Publishers, Crash(p) \/ DiskError(p) PROVE OwnedInv'
  BY <1>5, OwnedLeave, OwnedDiskError
<1>6. CASE PubNext
  BY <1>1, <1>2, <1>4, <1>5, <1>6 DEF PubNext, publication
<1>7. CASE UNCHANGED pubVars
  BY <1>1, <1>7 DEF pubVars, publication
<1>. QED
  BY <1>6, <1>7

(***************************************************************************)
(* Feature artifacts, batches and adjusted series, in every reachable      *)
(* state: a directory belongs to the publisher that made it until its      *)
(* manifest is whole, a whole manifest has exactly its files, and a batch  *)
(* accounts for each partition of its request once.                        *)
(***************************************************************************)
THEOREM OwnedInductive == PubSpec => []OwnedInv
<1>1. PubInv /\ OwnedInv /\ StoreTypeOK /\ [PubNext]_pubVars => OwnedInv'
  BY OwnedNext
<1>2. PubSpec => []StoreTypeOK
  <2>1. ReaderInv => StoreTypeOK
    BY DEF ReaderInv
  <2>. QED
    BY <2>1, PublicationsImplementReaders, ReadersInductive, PTL
<1>. QED
  BY <1>1, <1>2, OwnedInitHolds, PublishersInductive, PTL DEF PubSpec

LEMMA WholeManifest == ASSUME NEW d PROVE HasWholeManifest(d) <=> WholeIn(disk, d)
BY DEF HasWholeManifest, Whole, Present, WholeIn

LEMMA SealedArtifact ==
    ASSUME NEW d, d.of = "artifact", WholeIn(disk, d), Sealed(disk, d)
    PROVE  ArtifactReadable(d)
<1>1. PICK m : m = ManifestAt(d)
  OBVIOUS
<1>2. WithPart(disk, d, m) /\ FamilyHolds(m)
  BY <1>1, Zenon DEF Sealed, ManifestAt
<1>3. HasWholeManifest(d)
  BY WholeManifest
<1>4. OnlyPart(d)
  BY <1>1, <1>2, <1>3 DEF OnlyPart, WithPart, FilesIn, FilesOf
<1>5. CASE m.set \in Derived
  <2>1. DerivedReadable(d)
    BY <1>1, <1>2, <1>4, <1>5, Zenon DEF DerivedReadable, FamilyHolds
  <2>2. m.set # "market-momentum"
    BY <1>5 DEF Derived
  <2>. QED
    BY <1>1, <1>3, <1>5, <2>1, <2>2 DEF ArtifactReadable
<1>6. CASE m.set \notin Derived /\ m.set = "market-momentum"
  <2>1. MomentumReadable(d)
    BY <1>1, <1>2, <1>4, <1>6, Zenon DEF MomentumReadable, FamilyHolds
  <2>. QED
    BY <1>1, <1>3, <1>6, <2>1 DEF ArtifactReadable
<1>7. CASE m.set \notin Derived /\ m.set # "market-momentum"
  <2>1. BasicReadable(d)
    BY <1>1, <1>2, <1>4, <1>7, Zenon DEF BasicReadable, FamilyHolds
  <2>. QED
    BY <1>1, <1>3, <1>7, <2>1 DEF ArtifactReadable
<1>. QED
  BY <1>5, <1>6, <1>7

\* The children of a batch are there, each as the batch has kept it.
LEMMA SealedBatch ==
    ASSUME OwnedInv, NEW d, d.of = "batch", WholeIn(disk, d), Sealed(disk, d)
    PROVE  BatchReadable(d)
<1>1. PICK m : m = ManifestAt(d)
  OBVIOUS
<1>2. /\ FilesOf(disk, d) = {<<d, ManifestName>>} /\ BatchHolds(d, m)
      /\ \A c \in m.accepted : ChildAt(disk, c)
  BY <1>1, Zenon DEF Sealed, ManifestAt
<1>3. ASSUME NEW c \in m.accepted
      PROVE  /\ ArtifactReadable(c.id)
             /\ ManifestAt(c.id) = c.manifest
             /\ c.manifest.set = d.set
             /\ c.security \in d.universe /\ c.decision \in d.schedule
             /\ <<c.manifest.part.security, c.manifest.part.decision>> = <<c.security, c.decision>>
  <2>1. ChildAt(disk, c) /\ Tells(c, d.set) /\ c.security \in d.universe /\ c.decision \in d.schedule
    BY <1>2, <1>3 DEF BatchHolds
  <2>2. c.id.of = "artifact" /\ WholeIn(disk, c.id) /\ ManifestAt(c.id) = c.manifest
    BY <2>1, Zenon DEF ChildAt, ManifestAt
  <2>3. Sealed(disk, c.id)
    BY <2>2 DEF OwnedInv, HasOneWriter
  <2>4. ArtifactReadable(c.id)
    BY <2>2, <2>3, SealedArtifact
  <2>. QED
    BY <2>1, <2>2, <2>4, Zenon DEF Tells
<1>4. HasWholeManifest(d) /\ FilesIn(d) = {<<d, ManifestName>>}
  BY <1>2, WholeManifest DEF FilesIn, FilesOf
<1>5. /\ BatchManifestValid(m) /\ m.id = d
      /\ d.manifests = UNION {c.manifest.manifests : c \in m.accepted}
      /\ d.parts = UNION {c.manifest.parts : c \in m.accepted}
  BY <1>2, Zenon DEF BatchHolds
<1>. QED
  BY <1>1, <1>3, <1>4, <1>5, Zenon DEF BatchReadable

LEMMA SealedAdjusted ==
    ASSUME NEW d, d.of = "adjusted", WholeIn(disk, d), Sealed(disk, d)
    PROVE  AdjustedWhole(d)
<1>1. WithPart(disk, d, ManifestAt(d))
  BY DEF Sealed, ManifestAt
<1>. QED
  BY <1>1, WholeManifest DEF AdjustedWhole, WithPart, FilesIn, FilesOf

(***************************************************************************)
(* A published manifest can be relied on, whatever publishers, deaths and  *)
(* failed writes do in between: each file a whole manifest names is there  *)
(* with the content it names, and every child of a batch can be read.      *)
(***************************************************************************)
THEOREM PublishedManifestsCanBeReliedOn == PubSpec => []PublishedIsReadable
<1> DEFINE Others == /\ \A dir \in Published("document") : DocumentReadable(dir)
                     /\ \A dir \in Published("result") : ResultWhole(dir)
<1>1. OwnedInv /\ Others => PublishedIsReadable
  <2>. SUFFICES ASSUME OwnedInv, Others PROVE PublishedIsReadable
    OBVIOUS
  <2>1. ASSUME NEW family \in {"artifact", "batch", "adjusted"}, NEW d \in Published(family)
        PROVE  d.of = family /\ WholeIn(disk, d) /\ Sealed(disk, d)
    <3>1. d.of = family /\ WholeIn(disk, d)
      BY <2>1, WholeManifest DEF Published
    <3>. QED
      BY <3>1 DEF OwnedInv, HasOneWriter
  <2>2. \A d \in Published("artifact") : ArtifactReadable(d)
    BY <2>1, SealedArtifact
  <2>3. \A d \in Published("batch") : BatchReadable(d)
    BY <2>1, SealedBatch
  <2>4. \A d \in Published("adjusted") : AdjustedWhole(d)
    BY <2>1, SealedAdjusted
  <2>. QED
    BY <2>2, <2>3, <2>4, Zenon DEF PublishedIsReadable
<1>2. PubSpec => []Others
  BY DocumentsAndResultsAreReadable
<1>. QED
  BY <1>1, <1>2, OwnedInductive, PTL

-----------------------------------------------------------------------------
(***************************************************************************)
(* The order of the rows of a query.  Tuples of as many numbers are        *)
(* ordered strictly and transitively, so among finitely many rows one that *)
(* is exceeded is exceeded by a first one.                                 *)
(***************************************************************************)
Numbers(s, n) == DOMAIN s = 1..n /\ \A i \in 1..n : s[i] \in Int

LEMMA ExceedsIsStrict == ASSUME NEW n \in Nat, NEW s, Numbers(s, n) PROVE ~Exceeds(s, s)
BY DEF Exceeds, Numbers

LEMMA ExceedsIsTransitive ==
    ASSUME NEW n \in Nat, NEW s, NEW t, NEW u, Numbers(s, n), Numbers(t, n), Numbers(u, n),
           Exceeds(s, t), Exceeds(t, u)
    PROVE  Exceeds(s, u)
<1>1. PICK i \in 1..n : s[i] > t[i] /\ \A j \in 1..(i - 1) : s[j] = t[j]
  BY DEF Exceeds, Numbers
<1>2. PICK k \in 1..n : t[k] > u[k] /\ \A j \in 1..(k - 1) : t[j] = u[j]
  BY DEF Exceeds, Numbers
<1>3. CASE i < k
  <2>1. i \in 1..(k - 1)
    BY <1>3
  <2>2. \A j \in 1..(i - 1) : j \in 1..(k - 1)
    BY <1>3
  <2>3. s[i] > u[i] /\ \A j \in 1..(i - 1) : s[j] = u[j]
    BY <1>1, <1>2, <2>1, <2>2
  <2>. QED
    BY <2>3 DEF Exceeds, Numbers
<1>4. CASE k < i
  <2>1. k \in 1..(i - 1)
    BY <1>4
  <2>2. \A j \in 1..(k - 1) : j \in 1..(i - 1)
    BY <1>4
  <2>3. s[k] > u[k] /\ \A j \in 1..(k - 1) : s[j] = u[j]
    BY <1>1, <1>2, <2>1, <2>2
  <2>. QED
    BY <2>3 DEF Exceeds, Numbers
<1>5. CASE i = k
  <2>1. s[i] \in Int /\ t[i] \in Int /\ u[i] \in Int
    BY DEF Numbers
  <2>2. s[i] > u[i]
    BY <1>1, <1>2, <1>5, <2>1
  <2>3. \A j \in 1..(i - 1) : s[j] = u[j]
    BY <1>1, <1>2, <1>5
  <2>. QED
    BY <2>2, <2>3 DEF Exceeds, Numbers
<1>. QED
  BY <1>3, <1>4, <1>5

\* What is exceeded at all is exceeded by one that nothing exceeds.
LEMMA TopAbove ==
    ASSUME NEW S, IsFiniteSet(S), NEW order, NEW n \in Nat, \A r \in S : Numbers(order[r], n),
           NEW r \in S, NEW s \in S, Exceeds(order[s], order[r])
    PROVE  \E t \in S : Exceeds(order[t], order[r]) /\ \A u \in S : ~Exceeds(order[u], order[t])
<1> DEFINE B == {u \in S : Exceeds(order[u], order[r])}
           below == [t \in B |-> {u \in B : Exceeds(order[u], order[t])}]
<1>1. IsFiniteSet(B) /\ B # {} /\ B \subseteq S
  BY FS_Subset
<1>2. \A t \in B : below[t] \subseteq B
  OBVIOUS
<1>3. \A t \in B : t \notin below[t]
  BY ExceedsIsStrict
<1>4. \A t, u \in B : u \in below[t] => below[u] \subseteq below[t]
  <2>. SUFFICES ASSUME NEW t \in B, NEW u \in below[t], NEW v \in below[u] PROVE v \in below[t]
    OBVIOUS
  <2>1. /\ t \in S /\ u \in S /\ v \in S /\ v \in B
        /\ Exceeds(order[u], order[t]) /\ Exceeds(order[v], order[u])
    OBVIOUS
  <2>2. Exceeds(order[v], order[t])
    BY <2>1, ExceedsIsTransitive
  <2>. QED
    BY <2>1, <2>2
<1>5. PICK t \in B : below[t] = {}
  <2>. HIDE DEF B, below
  <2>. QED
    BY <1>1, <1>2, <1>3, <1>4, MinimalElement
<1>6. ASSUME NEW u \in S, Exceeds(order[u], order[t]) PROVE FALSE
  <2>1. Exceeds(order[u], order[r])
    BY <1>6, ExceedsIsTransitive
  <2>2. u \in below[t]
    BY <1>6, <2>1
  <2>. QED
    BY <1>5, <2>2
<1>. QED
  BY <1>5, <1>6

LEMMA Qualified ==
    ASSUME NEW rows, NEW by, NEW order, NEW r
    PROVE  r \in Qualify(rows, by, order)
              <=> r \in rows /\ \A s \in rows : by[s] = by[r] => ~Exceeds(order[s], order[r])
<1>1. ASSUME r \in Qualify(rows, by, order)
      PROVE  r \in rows /\ \A s \in rows : by[s] = by[r] => ~Exceeds(order[s], order[r])
  <2>1. PICK p \in {by[q] : q \in rows} : r \in First({q \in rows : by[q] = p}, order)
    BY <1>1 DEF Qualify
  <2>. QED
    BY <2>1 DEF First
<1>2. ASSUME r \in rows, \A s \in rows : by[s] = by[r] => ~Exceeds(order[s], order[r])
      PROVE  r \in Qualify(rows, by, order)
  <2>1. r \in First({q \in rows : by[q] = by[r]}, order)
    BY <1>2 DEF First
  <2>2. by[r] \in {by[q] : q \in rows}
    BY <1>2
  <2>. QED
    BY <2>1, <2>2 DEF Qualify
<1>. QED
  BY <1>1, <1>2

\* Fewer rows with all that qualify have the same ones that qualify.
LEMMA QualifyFewer ==
    ASSUME NEW rows, IsFiniteSet(rows), NEW few, few \subseteq rows, NEW W,
           NEW by, NEW order, NEW n \in Nat, \A r \in rows : Numbers(order[r], n),
           NEW by2, NEW order2, \A r \in few : by2[r] = by[r] /\ order2[r] = order[r],
           \A r, s \in rows : r \in W /\ by[r] = by[s] => s \in W,
           Qualify(rows, by, order) \cap W \subseteq few
    PROVE  Qualify(few, by2, order2) \cap W = Qualify(rows, by, order) \cap W
<1>1. ASSUME NEW r \in W, r \in Qualify(rows, by, order) PROVE r \in Qualify(few, by2, order2)
  <2>1. r \in few /\ \A s \in rows : by[s] = by[r] => ~Exceeds(order[s], order[r])
    BY <1>1, Qualified
  <2>. QED
    BY <2>1, Qualified
<1>2. ASSUME NEW r \in W, r \in Qualify(few, by2, order2) PROVE r \in Qualify(rows, by, order)
  <2>1. r \in few /\ \A s \in few : by2[s] = by2[r] => ~Exceeds(order2[s], order2[r])
    BY <1>2, Qualified
  <2>2. \A s \in few : by[s] = by[r] => ~Exceeds(order[s], order[r])
    BY <2>1
  <2>3. ASSUME NEW s \in rows, by[s] = by[r], Exceeds(order[s], order[r]) PROVE FALSE
    <3>1. PICK S : S = {q \in rows : by[q] = by[r]}
      OBVIOUS
    <3>2. IsFiniteSet(S) /\ S \subseteq rows /\ r \in S /\ s \in S
      BY <2>1, <2>3, <3>1, FS_Subset
    <3>3. PICK t \in S : Exceeds(order[t], order[r]) /\ \A u \in S : ~Exceeds(order[u], order[t])
      BY <2>3, <3>2, TopAbove
    <3>4. t \in Qualify(rows, by, order)
      BY <3>1, <3>3, Qualified
    <3>5. t \in W
      BY <2>1, <3>1
    <3>6. t \in few
      BY <3>4, <3>5
    <3>. QED
      BY <2>2, <3>1, <3>3, <3>6
  <2>. QED
    BY <2>1, <2>3, Qualified
<1>. QED
  BY <1>1, <1>2

-----------------------------------------------------------------------------
(***************************************************************************)
(* A selection over fewer rows.  What a query keeps of all the rows it     *)
(* keeps of any of them that include it.                                   *)
(***************************************************************************)
LEMMA StoredRow ==
    ASSUME NEW r \in Stored
    PROVE  \E q \in UNION UNION {Batches[t] : t \in DOMAIN Batches} :
              \A x \in DOMAIN q : x # "recorded" => r[x] = q[x]
<1>1. PICK n \in Nat, q \in UNION UNION {Batches[t] : t \in DOMAIN Batches} : r = Extended([recorded |-> n], q)
  BY DEF Stored
<1>2. \A x \in DOMAIN q : x # "recorded" => r[x] = q[x]
  BY <1>1 DEF Extended
<1>. QED
  BY <1>2

\* The keys that decide between two rows are numbers.
LEMMA StoredKeys ==
    ASSUME NEW r \in Stored
    PROVE  /\ r.id \in Int /\ r.revision \in Int /\ r.available \in Int /\ r.recorded \in Int
           /\ r.of = "macro" => Vintage(r) \in Int
<1>1. PICK n \in Nat, q \in UNION UNION {Batches[t] : t \in DOMAIN Batches} : r = Extended([recorded |-> n], q)
  BY DEF Stored
<1>2. /\ {"id", "of", "revision", "available"} \subseteq DOMAIN q
      /\ q.id \in Int /\ q.revision \in Int /\ q.available \in Int
  BY BatchesAssumption
<1>3. r.recorded = n
  BY <1>1 DEF Extended
<1>4. r.id = q.id /\ r.of = q.of /\ r.revision = q.revision /\ r.available = q.available
  BY <1>1, <1>2 DEF Extended
<1>5. ASSUME r.of = "macro" PROVE Vintage(r) \in Int
  <2>1. "vintage" \in DOMAIN q /\ (q.vintage # None => q.vintage \in Int)
    BY <1>4, <1>5, SeriesAssumption
  <2>2. r.vintage = q.vintage
    BY <1>1, <2>1 DEF Extended
  <2>. QED
    BY <2>1, <2>2 DEF Vintage
<1>. QED
  BY <1>2, <1>3, <1>4, <1>5

\* A fundamental series is of one concept and one fiscal period.
LEMMA StoredSeries ==
    ASSUME NEW r \in Stored, NEW s \in Stored, r.of = "fundamentals", s.of = "fundamentals",
           r.series = s.series
    PROVE  r.concept = s.concept /\ r.fiscal = s.fiscal
<1> DEFINE all == UNION UNION {Batches[t] : t \in DOMAIN Batches}
<1>1. ASSUME NEW x \in Stored, x.of = "fundamentals"
      PROVE  \E q \in all : /\ q.of = "fundamentals" /\ q.series = x.series
                            /\ q.concept = x.concept /\ q.fiscal = x.fiscal
  <2>1. PICK q \in all : \A f \in DOMAIN q : f # "recorded" => x[f] = q[f]
    BY StoredRow
  <2>2. "of" \in DOMAIN q
    BY BatchesAssumption
  <2>3. q.of = "fundamentals"
    BY <1>1, <2>1, <2>2
  <2>4. {"series", "concept", "fiscal"} \subseteq DOMAIN q
    BY <2>3, SeriesAssumption
  <2>. QED
    BY <2>1, <2>3, <2>4
<1>2. PICK a \in all : /\ a.of = "fundamentals" /\ a.series = r.series
                       /\ a.concept = r.concept /\ a.fiscal = r.fiscal
  BY <1>1
<1>3. PICK b \in all : /\ b.of = "fundamentals" /\ b.series = s.series
                       /\ b.concept = s.concept /\ b.fiscal = s.fiscal
  BY <1>1
<1>4. a.series = b.series => a.concept = b.concept /\ a.fiscal = b.fiscal
  BY <1>2, <1>3, SeriesAssumption
<1>. QED
  BY <1>2, <1>3, <1>4

LEMMA ThreeNumbers ==
    ASSUME NEW a \in Int, NEW b \in Int, NEW c \in Int PROVE Numbers(<<a, b, c>>, 3)
BY DEF Numbers

LEMMA FourNumbers ==
    ASSUME NEW a \in Int, NEW b \in Int, NEW c \in Int, NEW d \in Int PROVE Numbers(<<a, b, c, d>>, 4)
BY DEF Numbers

LEMMA FiveNumbers ==
    ASSUME NEW a \in Int, NEW b \in Int, NEW c \in Int, NEW d \in Int, NEW e \in Int
    PROVE  Numbers(<<a, b, c, d, e>>, 5)
BY DEF Numbers

LEMMA PricesFewer ==
    ASSUME NEW rows, IsFiniteSet(rows), rows \subseteq Stored, NEW few, few \subseteq rows, NEW decision,
           PriceInputs(rows, decision) \subseteq few
    PROVE  PriceInputs(few, decision) = PriceInputs(rows, decision)
<1>1. PICK R : R = Eligible(rows, decision)
  OBVIOUS
<1>2. PICK F : F = Eligible(few, decision)
  OBVIOUS
<1>3. F = R \cap few /\ R \subseteq rows /\ F \subseteq R
  BY <1>1, <1>2 DEF Eligible
<1> DEFINE by(E) == [r \in E |-> <<r.series, r.observed>>]
           order(E) == [r \in E |-> <<r.available, r.recorded, r.id>>]
<1>4. /\ PriceInputs(rows, decision) = Qualify(R, by(R), order(R))
      /\ PriceInputs(few, decision) = Qualify(F, by(F), order(F))
  BY <1>1, <1>2, Zenon DEF PriceInputs
<1>5. \A r \in R : Numbers(order(R)[r], 3)
  BY <1>3, StoredKeys, ThreeNumbers
<1>6. \A r \in F : by(F)[r] = by(R)[r] /\ order(F)[r] = order(R)[r]
  BY <1>3
<1>7. PICK br, bf, or, of : br = by(R) /\ bf = by(F) /\ or = order(R) /\ of = order(F)
  OBVIOUS
<1>. HIDE DEF by, order
<1>8. IsFiniteSet(R)
  BY <1>3, FS_Subset
<1>9. Qualify(R, br, or) \cap R \subseteq F
  BY <1>3, <1>4, <1>7, QualifyKeeps
<1>10. /\ \A r \in R : Numbers(or[r], 3)
       /\ \A r \in F : bf[r] = br[r] /\ of[r] = or[r]
       /\ \A r, s \in R : r \in R /\ br[r] = br[s] => s \in R
       /\ 3 \in Nat /\ F \subseteq R
  BY <1>3, <1>5, <1>6, <1>7
<1>11. Qualify(F, bf, of) \cap R = Qualify(R, br, or) \cap R
  BY <1>8, <1>9, <1>10, QualifyFewer
<1>12. Qualify(F, bf, of) \subseteq R /\ Qualify(R, br, or) \subseteq R
  BY <1>3, QualifyKeeps
<1>. QED
  BY <1>4, <1>7, <1>11, <1>12

LEMMA MacroFewer ==
    ASSUME NEW rows, IsFiniteSet(rows), rows \subseteq Stored, \A r \in rows : r.of = "macro",
           NEW few, few \subseteq rows, NEW decision, MacroInputs(rows, decision) \subseteq few
    PROVE  MacroInputs(few, decision) = MacroInputs(rows, decision)
<1>1. PICK R : R = {r \in Eligible(rows, decision) : Vintage(r) <= decision}
  OBVIOUS
<1>2. PICK F : F = {r \in Eligible(few, decision) : Vintage(r) <= decision}
  OBVIOUS
<1>3. F = R \cap few /\ R \subseteq rows /\ F \subseteq R
  BY <1>1, <1>2 DEF Eligible
<1> DEFINE by(E) == [r \in E |-> <<r.series, r.observed>>]
           order(E) == [r \in E |-> <<r.available, r.revision, Vintage(r), r.recorded, r.id>>]
<1>4. /\ MacroInputs(rows, decision) = Qualify(R, by(R), order(R))
      /\ MacroInputs(few, decision) = Qualify(F, by(F), order(F))
  BY <1>1, <1>2, Zenon DEF MacroInputs
<1>5. \A r \in R : Numbers(order(R)[r], 5)
  BY <1>3, StoredKeys, FiveNumbers
<1>6. \A r \in F : by(F)[r] = by(R)[r] /\ order(F)[r] = order(R)[r]
  BY <1>3
<1>7. PICK br, bf, or, of : br = by(R) /\ bf = by(F) /\ or = order(R) /\ of = order(F)
  OBVIOUS
<1>. HIDE DEF by, order
<1>8. IsFiniteSet(R)
  BY <1>3, FS_Subset
<1>9. Qualify(R, br, or) \cap R \subseteq F
  BY <1>3, <1>4, <1>7, QualifyKeeps
<1>10. /\ \A r \in R : Numbers(or[r], 5)
       /\ \A r \in F : bf[r] = br[r] /\ of[r] = or[r]
       /\ \A r, s \in R : r \in R /\ br[r] = br[s] => s \in R
       /\ 5 \in Nat /\ F \subseteq R
  BY <1>3, <1>5, <1>6, <1>7
<1>11. Qualify(F, bf, of) \cap R = Qualify(R, br, or) \cap R
  BY <1>8, <1>9, <1>10, QualifyFewer
<1>12. Qualify(F, bf, of) \subseteq R /\ Qualify(R, br, or) \subseteq R
  BY <1>3, QualifyKeeps
<1>. QED
  BY <1>4, <1>7, <1>11, <1>12

\* The rows of the reviewed concepts and fiscal periods.
Reviewed(rows) == {r \in rows : r.concept \in DOMAIN Taxonomy /\ r.fiscal \in Taxonomy[r.concept].periods}

LEMMA ReviewedRows ==
    ASSUME NEW rows PROVE UNION {PeriodRows(rows, c) : c \in DOMAIN Taxonomy} = Reviewed(rows)
BY DEF PeriodRows, Reviewed

\* Whether a row is reviewed depends on its series.
LEMMA FundamentalsFewer ==
    ASSUME NEW rows, IsFiniteSet(rows), rows \subseteq Stored, \A r \in rows : r.of = "fundamentals",
           NEW few, few \subseteq rows, NEW decision,
           Reviewed(FundamentalInputs(rows, decision)) \subseteq few
    PROVE  Reviewed(FundamentalInputs(few, decision)) = Reviewed(FundamentalInputs(rows, decision))
<1>1. PICK R : R = {r \in Eligible(rows, decision) : r.period <= decision}
  OBVIOUS
<1>2. PICK F : F = {r \in Eligible(few, decision) : r.period <= decision}
  OBVIOUS
<1>3. F = R \cap few /\ R \subseteq rows /\ F \subseteq R
  BY <1>1, <1>2 DEF Eligible
<1> DEFINE by(E) == [r \in E |-> <<r.series, r.period>>]
           order(E) == [r \in E |-> <<r.available, r.revision, r.recorded, r.id>>]
<1>4. /\ FundamentalInputs(rows, decision) = Qualify(R, by(R), order(R))
      /\ FundamentalInputs(few, decision) = Qualify(F, by(F), order(F))
  BY <1>1, <1>2, Zenon DEF FundamentalInputs
<1>5. \A r \in R : Numbers(order(R)[r], 4)
  BY <1>3, StoredKeys, FourNumbers
<1>6. \A r \in F : by(F)[r] = by(R)[r] /\ order(F)[r] = order(R)[r]
  BY <1>3
<1>7. \A r, s \in R : by(R)[r] = by(R)[s] => r.series = s.series
  OBVIOUS
<1>8. PICK br, bf, or, of : br = by(R) /\ bf = by(F) /\ or = order(R) /\ of = order(F)
  OBVIOUS
<1>. HIDE DEF by, order
<1>9. PICK W : W = Reviewed(R)
  OBVIOUS
<1>10. ASSUME NEW r \in R, NEW s \in R, r \in W, br[r] = br[s] PROVE s \in W
  <2>1. r.series = s.series
    BY <1>7, <1>8, <1>10
  <2>2. r.concept = s.concept /\ r.fiscal = s.fiscal
    BY <1>3, <2>1, StoredSeries
  <2>. QED
    BY <1>9, <1>10, <2>2 DEF Reviewed
<1>11. IsFiniteSet(R)
  BY <1>3, FS_Subset
<1>12. \A Q : Q \subseteq R => Reviewed(Q) = Q \cap W
  BY <1>9 DEF Reviewed
<1>13. Qualify(F, bf, of) \subseteq R /\ Qualify(R, br, or) \subseteq R
  BY <1>3, QualifyKeeps
<1>14. Qualify(R, br, or) \cap W \subseteq F
  BY <1>3, <1>4, <1>8, <1>12, <1>13
<1>15. /\ \A r \in R : Numbers(or[r], 4)
       /\ \A r \in F : bf[r] = br[r] /\ of[r] = or[r]
       /\ \A r, s \in R : r \in W /\ br[r] = br[s] => s \in W
       /\ 4 \in Nat /\ F \subseteq R
  BY <1>3, <1>5, <1>6, <1>8, <1>10
<1>16. Qualify(F, bf, of) \cap W = Qualify(R, br, or) \cap W
  BY <1>11, <1>14, <1>15, QualifyFewer
<1>. QED
  BY <1>4, <1>8, <1>12, <1>13, <1>16

\* Selecting again over rows that include what was selected.
LEMMA SelectedFewer ==
    ASSUME NEW set \in FeatureFamilies, NEW rows, IsFiniteSet(rows), rows \subseteq Stored,
           NEW subject, NEW decision, NEW few, few \subseteq rows,
           Selected(set, rows, subject, decision) \subseteq few
    PROVE  Selected(set, few, subject, decision) = Selected(set, rows, subject, decision)
<1>1. CASE set \in {"market-basic", "market-momentum"}
  <2> DEFINE Queried(X) == {r \in X : r.of = "prices" /\ r.security = subject.security}
  <2>1. \A X : Selected(set, X, subject, decision) = PriceInputs(Queried(X), decision)
    BY <1>1 DEF Selected, SelectPrices
  <2>2. Queried(few) \subseteq Queried(rows) /\ Queried(rows) \subseteq rows /\ Queried(few) = Queried(rows) \cap few
    OBVIOUS
  <2>3. PICK A, B : A = Queried(rows) /\ B = Queried(few)
    OBVIOUS
  <2>. HIDE DEF Queried
  <2>4. IsFiniteSet(A) /\ A \subseteq Stored
    BY <2>2, <2>3, FS_Subset
  <2>5. PriceInputs(A, decision) \subseteq A
    <3>1. PriceInputs(A, decision) \subseteq Eligible(A, decision)
      BY QualifyKeeps DEF PriceInputs
    <3>. QED
      BY <3>1 DEF Eligible
  <2>6. PriceInputs(A, decision) \subseteq B
    BY <2>1, <2>2, <2>3, <2>5
  <2>. QED
    BY <2>1, <2>2, <2>3, <2>4, <2>6, PricesFewer
<1>2. CASE set = "fundamental-growth"
  <2> DEFINE Queried(X) == {r \in X : r.of = "fundamentals" /\ r.issuer = subject.issuer}
  <2>1. \A X : Selected(set, X, subject, decision) = Reviewed(FundamentalInputs(Queried(X), decision))
    BY <1>2, ReviewedRows, Zenon DEF Selected, SelectFundamentals
  <2>2. /\ Queried(few) \subseteq Queried(rows) /\ Queried(rows) \subseteq rows /\ Queried(few) = Queried(rows) \cap few
        /\ \A r \in Queried(rows) : r.of = "fundamentals"
    OBVIOUS
  <2>3. PICK A, B : A = Queried(rows) /\ B = Queried(few)
    OBVIOUS
  <2>. HIDE DEF Queried
  <2>4. IsFiniteSet(A) /\ A \subseteq Stored
    BY <2>2, <2>3, FS_Subset
  <2>5. Reviewed(FundamentalInputs(A, decision)) \subseteq A
    <3>1. FundamentalInputs(A, decision) \subseteq {r \in Eligible(A, decision) : r.period <= decision}
      BY QualifyKeeps DEF FundamentalInputs
    <3>. QED
      BY <3>1 DEF Eligible, Reviewed
  <2>6. Reviewed(FundamentalInputs(A, decision)) \subseteq B
    BY <2>1, <2>2, <2>3, <2>5
  <2>. QED
    BY <2>1, <2>2, <2>3, <2>4, <2>6, FundamentalsFewer
<1>3. CASE set = "macro-state"
  <2> DEFINE Queried(X) == {r \in X : r.of = "macro" /\ r.series = subject.series}
  <2>1. \A X : Selected(set, X, subject, decision) = MacroInputs(Queried(X), decision)
    BY <1>3 DEF Selected, SelectMacro
  <2>2. /\ Queried(few) \subseteq Queried(rows) /\ Queried(rows) \subseteq rows /\ Queried(few) = Queried(rows) \cap few
        /\ \A r \in Queried(rows) : r.of = "macro"
    OBVIOUS
  <2>3. PICK A, B : A = Queried(rows) /\ B = Queried(few)
    OBVIOUS
  <2>. HIDE DEF Queried
  <2>4. IsFiniteSet(A) /\ A \subseteq Stored
    BY <2>2, <2>3, FS_Subset
  <2>5. MacroInputs(A, decision) \subseteq A
    <3>1. MacroInputs(A, decision) \subseteq {r \in Eligible(A, decision) : Vintage(r) <= decision}
      BY QualifyKeeps DEF MacroInputs
    <3>. QED
      BY <3>1 DEF Eligible
  <2>6. MacroInputs(A, decision) \subseteq B
    BY <2>1, <2>2, <2>3, <2>5
  <2>. QED
    BY <2>1, <2>2, <2>3, <2>4, <2>6, MacroFewer
<1>. QED
  BY <1>1, <1>2, <1>3 DEF FeatureFamilies, Derived

-----------------------------------------------------------------------------
(***************************************************************************)
(* What an artifact is founded on.  Its directory names the parts its rows *)
(* were selected from; over those parts alone the selection, the features  *)
(* and, with the commit, the whole manifest come out the same.             *)
(***************************************************************************)
SelectedOf(d, hit) == Selected(d.inputs.set, RowsOf(hit), d.subject, d.inputs.decision)

EnvelopeOf(d, hit, commit) ==
    Envelope(d.inputs.set, commit, d.inputs.decision, d.inputs.calendar,
             InputAvailable(SelectedOf(d, hit), d.inputs.calendar),
             [manifests |-> d.inputs.manifests, parts |-> d.inputs.parts])

Rebuilt(d, hit, commit) ==
    FeatureJob(EnvelopeOf(d, hit, commit), d.subject,
               TheOnly(Features(d.inputs.set, SelectedOf(d, hit)).rows))

Founded(d, m, hit) ==
    /\ d.inputs.set \in FeatureFamilies
    /\ d.inputs.parts = PartNames(hit)
    /\ ~Features(d.inputs.set, SelectedOf(d, hit)).refused
    /\ m = Content(Rebuilt(d, hit, m.commit), 2)

Pinned(parts, d, m) == \E hit \in SUBSET parts : Founded(d, m, hit)

\* The files of a feature artifact.
LEMMA FeatureFiles ==
    ASSUME NEW e, DOMAIN e = EnvelopeNames, e.set \in FeatureFamilies, NEW subject, NEW features,
           NEW job, job = FeatureJob(e, subject, features)
    PROVE  /\ job.family = e.set /\ Len(job.files) = 2
           /\ job.dir.subject = subject /\ job.dir.inputs = InputFingerprint(e)
           /\ Content(job, 2).commit = e.commit /\ Content(job, 2).part.features = features
<1>1. ASSUME NEW m, job = PublishedPartFirst(m), m.id.subject = subject,
             m.id.inputs = InputFingerprint(e), Carries(m, e), m.part.features = features
      PROVE  /\ job.family = e.set /\ Len(job.files) = 2
             /\ job.dir.subject = subject /\ job.dir.inputs = InputFingerprint(e)
             /\ Content(job, 2).commit = e.commit /\ Content(job, 2).part.features = features
  <2>1. job.family = m.set /\ job.dir = m.id /\ job.files = <<File(PartFile, m.part), File(ManifestName, m)>>
    BY <1>1 DEF PublishedPartFirst
  <2>2. m.set = e.set /\ m.commit = e.commit
    BY <1>1 DEF Carries, EnvelopeNames
  <2>3. Len(job.files) = 2 /\ Content(job, 2) = m
    BY <2>1, ListOfTwo, FileFields DEF Content
  <2>. QED
    BY <1>1, <2>1, <2>2, <2>3
<1>2. CASE e.set \notin Derived
  <2>1. PICK m : m = BasicManifest(e, subject, features)
    OBVIOUS
  <2>2. job = PublishedPartFirst(m)
    BY <1>2, <2>1 DEF FeatureJob, BasicJob, MomentumJob, FeatureFamilies
  <2>3. Carries(m, e) /\ m.part.features = features
    BY <2>1, BasicManifestFields
  <2>4. m.id = ArtifactId(e.set, subject, InputFingerprint(e))
    BY <2>1, BasicIdentity DEF EnvelopeNames
  <2>5. m.id.subject = subject /\ m.id.inputs = InputFingerprint(e)
    BY <2>4 DEF ArtifactId
  <2>. QED
    BY <1>1, <2>2, <2>3, <2>5
<1>3. CASE e.set \in Derived
  <2>1. PICK m : m = DerivedManifest(e, subject, features)
    OBVIOUS
  <2>2. job = PublishedPartFirst(m)
    BY <1>3, <2>1 DEF FeatureJob, DerivedJob, Derived
  <2>3. Carries(m, e) /\ m.part.features = features
    BY <2>1, DerivedManifestFields
  <2>4. m.id = DerivedArtifactId(subject, InputFingerprint(e))
    BY <2>1, DerivedIdentity DEF EnvelopeNames
  <2>5. m.id.subject = subject /\ m.id.inputs = InputFingerprint(e)
    BY <2>4 DEF DerivedArtifactId
  <2>. QED
    BY <1>1, <2>2, <2>3, <2>5
<1>. QED
  BY <1>2, <1>3

LEMMA RowsFinite ==
    ASSUME NEW parts, IsFiniteSet(parts), \A p \in parts : IsFiniteSet(p)
    PROVE  IsFiniteSet(RowsOf(parts))
BY FS_UNION DEF RowsOf

\* A selection pins the parts it has rows of.
LEMMA SelectionPinned ==
    ASSUME NEW parts, IsFiniteSet(parts), \A p \in parts : IsFiniteSet(p), parts \subseteq SUBSET Stored,
           NEW set \in FeatureFamilies, NEW commit, NEW decision, NEW calendar, NEW subject,
           NEW selected, selected = Selected(set, RowsOf(parts), subject, decision),
           ~Features(set, selected).refused,
           NEW e, e = Envelope(set, commit, decision, calendar, InputAvailable(selected, calendar),
                               SelectedLineage(selected, parts, manifests)),
           NEW job, job = FeatureJob(e, subject, TheOnly(Features(set, selected).rows))
    PROVE  Len(job.files) = 2 /\ Pinned(parts, job.dir, Content(job, 2))
<1>1. PICK hit : hit = {p \in parts : p \cap selected # {}}
  OBVIOUS
<1>2. PICK lineage : lineage = SelectedLineage(selected, parts, manifests)
  OBVIOUS
<1>3. lineage.parts = PartNames(hit) /\ lineage = [manifests |-> lineage.manifests, parts |-> lineage.parts]
  BY <1>1, <1>2 DEF SelectedLineage
<1>4. /\ DOMAIN e = EnvelopeNames /\ e.set = set /\ e.decision = decision /\ e.calendar = calendar
      /\ e.manifests = lineage.manifests /\ e.parts = lineage.parts
  BY <1>2, EnvelopeValues
<1>5. e.commit = commit
  BY DEF Envelope
<1>6. /\ Len(job.files) = 2
      /\ job.dir.subject = subject /\ job.dir.inputs = InputFingerprint(e)
      /\ Content(job, 2).commit = commit
  BY <1>4, <1>5, FeatureFiles
<1>7. PICK d : d = job.dir
  OBVIOUS
<1>8. /\ d.inputs.set = set /\ d.inputs.decision = decision /\ d.inputs.calendar = calendar
      /\ d.inputs.manifests = lineage.manifests /\ d.inputs.parts = lineage.parts
      /\ d.subject = subject
  BY <1>4, <1>6, <1>7 DEF InputFingerprint
<1>9. SelectedOf(d, hit) = selected
  <2>1. Selected(set, RowsOf(parts), subject, decision) \subseteq RowsOf(hit)
    <3>1. selected \subseteq RowsOf(parts)
      BY SelectedRows
    <3>. QED
      BY <1>1, <3>1 DEF RowsOf
  <2>2. RowsOf(hit) \subseteq RowsOf(parts)
    BY <1>1 DEF RowsOf
  <2>3. RowsOf(parts) \subseteq Stored /\ IsFiniteSet(RowsOf(parts))
    BY RowsFinite DEF RowsOf
  <2>4. Selected(set, RowsOf(hit), subject, decision) = selected
    BY <2>1, <2>2, <2>3, SelectedFewer
  <2>. QED
    BY <1>8, <2>4, Zenon DEF SelectedOf
<1>10. EnvelopeOf(d, hit, commit) = e
  BY <1>2, <1>3, <1>8, <1>9, Zenon DEF EnvelopeOf
<1>11. Rebuilt(d, hit, commit) = job
  BY <1>8, <1>9, <1>10, Zenon DEF Rebuilt
<1>12. Founded(d, Content(job, 2), hit)
  BY <1>3, <1>6, <1>8, <1>9, <1>11, Zenon DEF Founded
<1>13. hit \in SUBSET parts
  BY <1>1
<1>. QED
  BY <1>6, <1>7, <1>12, <1>13 DEF Pinned

-----------------------------------------------------------------------------
(***************************************************************************)
(* Every artifact is rooted in the store.  A part is known by the names of *)
(* its rows, and there are finitely many, so what an artifact lists is     *)
(* what was selected; a feature job and a whole manifest are founded on    *)
(* parts that are committed.                                               *)
(***************************************************************************)
NamesTell == \A p, q \in CommittedParts : PartName(p) = PartName(q) => p = q

Final(job) == Content(job, Len(job.files))

\* A batch records its children, and nothing its request does not say.
BatchRecord(m) ==
    m = [id |-> m.id, commit |-> m.commit, requested |-> m.requested,
         accepted |-> m.accepted, rejected |-> m.rejected]

Rooted(parts, s) ==
    /\ s.parts \subseteq parts
    /\ s.job.family \in FeatureFamilies => Pinned(parts, s.job.dir, Final(s.job))

ManifestsRooted(parts, a) ==
    \A d : WholeIn(a, d) =>
       /\ d.of = "artifact" => Pinned(parts, d, a.files[<<d, ManifestName>>])
       /\ d.of = "batch" => BatchRecord(a.files[<<d, ManifestName>>])

RootedInv ==
    /\ IsFiniteSet(CommittedParts) /\ NamesTell
    /\ ManifestsRooted(CommittedParts, disk)
    /\ \A p \in Publishers : Rooted(CommittedParts, pub[p])

LEMMA PinnedGrows ==
    ASSUME NEW P, NEW Q, P \subseteq Q, NEW d, NEW m, Pinned(P, d, m) PROVE Pinned(Q, d, m)
BY DEF Pinned

\* Parts with the names of other parts are those parts.
LEMMA NamedApart ==
    ASSUME NamesTell, NEW A, NEW B, A \subseteq CommittedParts, B \subseteq CommittedParts,
           PartNames(A) = PartNames(B)
    PROVE  A = B
<1>1. ASSUME NEW X, NEW Y, X \subseteq CommittedParts, Y \subseteq CommittedParts,
             PartNames(X) = PartNames(Y), NEW p \in X
      PROVE  p \in Y
  <2>1. PartName(p) \in PartNames(X)
    BY <1>1, Zenon DEF PartNames
  <2>2. PICK q \in Y : PartName(q) = PartName(p)
    BY <1>1, <2>1 DEF PartNames
  <2>3. p \in CommittedParts /\ q \in CommittedParts
    BY <1>1
  <2>. QED
    BY <2>2, <2>3 DEF NamesTell
<1>. QED
  BY <1>1

LEMMA PartsAreSound ==
    ASSUME ReaderInv
    PROVE  /\ CommittedParts \subseteq SUBSET Stored
           /\ \A p \in CommittedParts : IsFiniteSet(p) /\ p # {}
<1>1. \A d \in Datasets : Counted(manifests[d].parts \cup torn[d], manifests[d].count)
  BY DEF ReaderInv, CountsTell
<1>2. \A p \in CommittedParts : IsFiniteSet(p) /\ p # {}
  BY <1>1 DEF Counted, CommittedParts
<1>3. CommittedParts \subseteq SUBSET Stored
  BY DEF ReaderInv, StoreTypeOK, CommittedParts
<1>. QED
  BY <1>2, <1>3

-----------------------------------------------------------------------------
\* What a step of the readers does to the committed parts.
LEMMA PartAdded ==
    ASSUME ReaderInv, NEW batch \in Batches[theme], Publish(batch)
    PROVE  \E part : /\ CommittedParts' = CommittedParts \cup {part}
                     /\ part = {Extended([recorded |-> now], r) : r \in batch}
                     /\ part # {} /\ PartName(part) = Ids(batch)
                     /\ Ids(batch) \cap Ids(AllCommitted) = {}
<1>1. PICK d, part : /\ d = (CHOOSE r \in batch : TRUE).of
                     /\ part = {Extended([recorded |-> now], r) : r \in batch}
  OBVIOUS
<1>2. /\ Ids(batch) \cap Ids(AllCommitted) = {}
      /\ manifests' = [manifests EXCEPT ![d] = [count |-> @.count + Cardinality(part),
                                                parts |-> @.parts \cup {part}]]
      /\ UNCHANGED <<now, theme, lost, torn, view, asked>>
  BY <1>1, Zenon DEF Publish
<1>3. d \in Datasets /\ part # {}
  BY <1>1, <1>2, NewPart
<1>4. /\ manifests'[d].parts = manifests[d].parts \cup {part}
      /\ \A e \in Datasets : e # d => manifests'[e] = manifests[e]
  BY <1>2, <1>3 DEF ReaderInv, StoreTypeOK
<1>5. CommittedParts' = CommittedParts \cup {part}
  BY <1>2, <1>3, <1>4 DEF CommittedParts
<1>6. PartName(part) = Ids(batch)
  <2>1. \A r \in batch : Extended([recorded |-> now], r).id = r.id
    BY RecordedKeeps, BatchesAssumption DEF ReaderInv, StoreTypeOK
  <2>. QED
    BY <1>1, <2>1 DEF PartName, Ids
<1>. QED
  BY <1>1, <1>2, <1>3, <1>5, <1>6

LEMMA PartsTorn ==
    ASSUME ReaderInv, NEW d \in Datasets, NEW part \in manifests[d].parts, TearManifest(d, part)
    PROVE  CommittedParts' = CommittedParts
<1>1. /\ manifests'[d].parts = manifests[d].parts \ {part}
      /\ torn'[d] = torn[d] \cup {part}
      /\ \A e \in Datasets : e # d => manifests'[e] = manifests[e] /\ torn'[e] = torn[e]
  BY DEF ReaderInv, StoreTypeOK, TearManifest
<1>. QED
  BY <1>1 DEF CommittedParts

\* Only a publication of the collector changes what is committed.
LEMMA CommittedChanges ==
    ASSUME ReaderInv, [Next]_vars
    PROVE  CommittedParts' = CommittedParts \/ \E batch \in Batches[theme] : Publish(batch)
<1>1. ASSUME UNCHANGED <<manifests, torn>> PROVE CommittedParts' = CommittedParts
  BY <1>1 DEF CommittedParts
<1>2. CASE Next
  <2>1. ASSUME NEW d \in Datasets, NEW part \in manifests[d].parts, LosePart(d, part) \/ TearManifest(d, part)
        PROVE  CommittedParts' = CommittedParts
    <3>1. CASE LosePart(d, part)
      BY <1>1, <3>1 DEF LosePart
    <3>. QED
      BY <2>1, <3>1, PartsTorn
  <2>2. ASSUME \/ Tick \/ BeginRegister \/ VerifyParts \/ GiveUp
               \/ \E d \in Datasets : ReadManifest(d)
               \/ \E kind, key, asOf, decision : Ask(kind, key, asOf, decision)
        PROVE  UNCHANGED <<manifests, torn>>
    BY <2>2, Zenon DEF Tick, BeginRegister, VerifyParts, GiveUp, ReadManifest, Ask
  <2>. QED
    BY <1>1, <1>2, <2>1, <2>2, Zenon DEF Next
<1>3. CASE UNCHANGED vars
  BY <1>1, <1>3 DEF vars
<1>. QED
  BY <1>2, <1>3

LEMMA CommittedStep ==
    ASSUME ReaderInv, IsFiniteSet(CommittedParts), NamesTell, [Next]_vars
    PROVE  CommittedParts \subseteq CommittedParts' /\ IsFiniteSet(CommittedParts)' /\ NamesTell'
<1>1. ASSUME NEW batch \in Batches[theme], Publish(batch)
      PROVE  CommittedParts \subseteq CommittedParts' /\ IsFiniteSet(CommittedParts)' /\ NamesTell'
  <2>1. PICK part : /\ CommittedParts' = CommittedParts \cup {part}
                    /\ part # {} /\ PartName(part) = Ids(batch)
                    /\ Ids(batch) \cap Ids(AllCommitted) = {}
    BY <1>1, PartAdded
  <2>2. IsFiniteSet(CommittedParts')
    BY <2>1, FS_AddElement
  <2>3. \A p \in CommittedParts : PartName(p) \subseteq Ids(AllCommitted)
    BY CommittedRows DEF PartName, Ids, RowsOf
  <2>4. PartName(part) # {}
    BY <2>1 DEF PartName
  <2>5. \A p \in CommittedParts : PartName(p) # PartName(part)
    BY <2>1, <2>3, <2>4
  <2>6. NamesTell'
    BY <2>1, <2>5 DEF NamesTell
  <2>. QED
    BY <2>1, <2>2, <2>6
<1>2. CASE CommittedParts' = CommittedParts
  BY <1>2 DEF NamesTell
<1>. QED
  BY <1>1, <1>2, CommittedChanges

-----------------------------------------------------------------------------
(***************************************************************************)
(* The parts and the job a step gives a publisher.                         *)
(***************************************************************************)
Tamed(p, t) ==
    /\ t.parts \in {pub[p].parts, {}, view.parts}
    /\ t.job = pub[p].job \/ t.job.family \notin FeatureFamilies

Becomes(p) == \E t : pub' = [pub EXCEPT ![p] = t] /\ Tamed(p, t)

LEMMA NoFeatures == {"none", "batch", "document", "result", "spec", "adjusted"} \cap FeatureFamilies = {}
BY DEF FeatureFamilies, Derived

LEMMA ForgetsIsTamed == ASSUME NEW p PROVE Tamed(p, Resting)
BY NoFeatures DEF Tamed, Resting, NoJob

LEMMA PhaseIsTamed ==
    ASSUME NEW p, DOMAIN pub[p] = Fields, NEW phase
    PROVE  Tamed(p, [pub[p] EXCEPT !.phase = phase]) /\ Tamed(p, [pub[p] EXCEPT !.at = 1, !.phase = phase])
BY DEF Tamed, Fields

LEMMA WrittenIsTamed == ASSUME NEW p, DOMAIN pub[p] = Fields PROVE Tamed(p, Written(p))
<1>1. \A f \in Fields \ {"phase", "at"} : Written(p)[f] = pub[p][f]
  BY WrittenMoves
<1>. QED
  BY <1>1 DEF Tamed, Fields

LEMMA ItemIsTamed ==
    ASSUME NEW p, DOMAIN pub[p] = Fields, NEW d, NEW c
    PROVE  /\ Tamed(p, [pub[p] EXCEPT !.phase = "partition", !.job = NoJob, !.at = 0, !.todo = @ \ {d},
                                      !.accepted = @ \cup {c}])
           /\ Tamed(p, [pub[p] EXCEPT !.phase = "partition", !.job = NoJob, !.at = 0, !.todo = @ \ {d},
                                      !.rejected = @ \cup {c}])
<1>1. NoJob.family \notin FeatureFamilies
  BY NoFeatures DEF NoJob
<1>. QED
  BY <1>1 DEF Tamed, Fields

LEMMA RejectTamed ==
    ASSUME NEW p, DOMAIN pub[p] = Fields, NEW d, NEW reason, Reject(p, d, reason)
    PROVE  Becomes(p)
<1>1. PICK c : c = Rejection(d, reason)
  OBVIOUS
<1>2. pub' = [pub EXCEPT ![p] = [pub[p] EXCEPT !.phase = "partition", !.job = NoJob, !.at = 0,
                                               !.todo = @ \ {d}, !.rejected = @ \cup {c}]]
  BY <1>1, Zenon DEF Reject, Become
<1>. QED
  BY <1>2, ItemIsTamed, Zenon DEF Becomes

LEMMA AcceptTamed ==
    ASSUME NEW p, DOMAIN pub[p] = Fields, AcceptChild(p)
    PROVE  Becomes(p)
<1>1. PICK d : d = NextPartition(pub[p].todo)
  OBVIOUS
<1>2. PICK c : c = [decision |-> d[1], security |-> d[2], id |-> pub[p].job.dir,
                    manifest |-> ManifestAt(pub[p].job.dir)]
  OBVIOUS
<1>3. PICK phase : phase = "failed"
  OBVIOUS
<1>4. \/ pub' = [pub EXCEPT ![p] = [pub[p] EXCEPT !.phase = "partition", !.job = NoJob, !.at = 0,
                                                  !.todo = @ \ {d}, !.accepted = @ \cup {c}]]
      \/ pub' = [pub EXCEPT ![p] = [pub[p] EXCEPT !.phase = phase]]
  BY <1>1, <1>2, <1>3, Zenon DEF AcceptChild, Become, Accepted
<1>5. ASSUME NEW t, pub' = [pub EXCEPT ![p] = t], Tamed(p, t) PROVE Becomes(p)
  BY <1>5 DEF Becomes
<1>6. /\ Tamed(p, [pub[p] EXCEPT !.phase = "partition", !.job = NoJob, !.at = 0, !.todo = @ \ {d},
                                 !.accepted = @ \cup {c}])
      /\ Tamed(p, [pub[p] EXCEPT !.phase = phase])
  BY ItemIsTamed, PhaseIsTamed
<1>. QED
  BY <1>4, <1>5, <1>6, Zenon

LEMMA WritingTamed ==
    ASSUME NEW p, DOMAIN pub[p] = Fields,
           \/ Open(p) \/ MakeDirectory(p) \/ CreateFile(p) \/ FillFile(p) \/ ExamineFile(p)
           \/ Overwrite(p) \/ WriteTemporary(p) \/ LinkFile(p) \/ UnlinkTemporary(p)
    PROVE  Becomes(p)
<1> DEFINE s == pub[p]
           Phased == \E phase : pub' = [pub EXCEPT ![p] = [s EXCEPT !.phase = phase]]
           Opened == \E phase : pub' = [pub EXCEPT ![p] = [s EXCEPT !.at = 1, !.phase = phase]]
<1>1. Open(p) => Opened
  BY Zenon DEF Open, Become
<1>2. MakeDirectory(p) \/ CreateFile(p) \/ Overwrite(p) \/ WriteTemporary(p) \/ LinkFile(p) => Phased
  <2>1. MakeDirectory(p) => Phased
    BY Zenon DEF MakeDirectory, Become
  <2>2. CreateFile(p) => Phased
    BY Zenon DEF CreateFile, Become
  <2>3. Overwrite(p) \/ WriteTemporary(p) => Phased
    BY Zenon DEF Overwrite, WriteTemporary, Become
  <2>4. LinkFile(p) => Phased
    BY Zenon DEF LinkFile, Become
  <2>. QED
    BY <2>1, <2>2, <2>3, <2>4
<1>3. FillFile(p) => pub' = [pub EXCEPT ![p] = Written(p)]
  BY Zenon DEF FillFile, Become
<1>4. UnlinkTemporary(p) => pub' = [pub EXCEPT ![p] = Written(p)] \/ Phased
  BY Zenon DEF UnlinkTemporary, Become
<1>5. ExamineFile(p) => pub' = [pub EXCEPT ![p] = Written(p)] \/ Phased
  <2>1. PICK t : t = Examine(p)
    OBVIOUS
  <2>2. \/ t = [s EXCEPT !.phase = "stage"] \/ t = Written(p) \/ t = [s EXCEPT !.phase = "failed"]
    BY <2>1, Zenon DEF Examine
  <2>3. ExamineFile(p) => pub' = [pub EXCEPT ![p] = t]
    BY <2>1, Zenon DEF ExamineFile, Become
  <2>. QED
    BY <2>2, <2>3, Zenon
<1>6. pub' = [pub EXCEPT ![p] = Written(p)] => Becomes(p)
  BY WrittenIsTamed, Zenon DEF Becomes
<1>7. Phased \/ Opened => Becomes(p)
  BY PhaseIsTamed, Zenon DEF Becomes
<1>. QED
  BY <1>1, <1>2, <1>3, <1>4, <1>5, <1>6, <1>7

LEMMA StartTamed ==
    ASSUME NEW p, NEW request,
           \/ StartBatch(p, request) \/ StartDocument(p, request) \/ StartResult(p, request)
           \/ StartSpec(p, request) \/ StartAdjusted(p, request)
    PROVE  Becomes(p)
<1>1. CASE StartBatch(p, request)
  <2>1. PICK parts, todo : parts = view.parts /\ todo = request.schedule \X request.securities
    OBVIOUS
  <2> DEFINE t == [Resting EXCEPT !.phase = "partition", !.request = request, !.parts = parts, !.todo = todo]
  <2>2. pub' = [pub EXCEPT ![p] = t]
    BY <1>1, <2>1, Zenon DEF StartBatch, Become
  <2>3. t.parts = parts /\ t.job.family = "none"
    BY RestingFields DEF Resting, NoJob
  <2>4. Tamed(p, t)
    BY <2>1, <2>3, NoFeatures DEF Tamed
  <2>. QED
    BY <2>2, <2>4 DEF Becomes
<1>2. ASSUME NEW job, StartJob(p, request, job), job.family \in {"document", "result", "spec", "adjusted"}
      PROVE  Becomes(p)
  <2> DEFINE t == [Resting EXCEPT !.phase = "open", !.request = request, !.job = job]
  <2>1. pub' = [pub EXCEPT ![p] = t]
    BY <1>2 DEF StartJob, Become
  <2>2. t.parts = {} /\ t.job = job
    BY DEF Resting
  <2>3. Tamed(p, t)
    BY <1>2, <2>2, NoFeatures DEF Tamed
  <2>. QED
    BY <2>1, <2>3 DEF Becomes
<1>3. CASE StartDocument(p, request) \/ StartResult(p, request) \/ StartSpec(p, request)
  <2>1. PICK job : StartJob(p, request, job)
                   /\ job \in {DocumentJob(request), ResultJob(request), SpecJob(request)}
    BY <1>3, Zenon DEF StartDocument, StartResult, StartSpec
  <2>2. job.family \in {"document", "result", "spec"}
    BY <2>1 DEF DocumentJob, ResultJob, SpecJob
  <2>. QED
    BY <1>2, <2>1, <2>2
<1>4. CASE StartAdjusted(p, request)
  <2>1. PICK rows : StartJob(p, request, AdjustedJob(request.decision, rows))
    BY <1>4 DEF StartAdjusted
  <2>2. AdjustedJob(request.decision, rows).family = "adjusted"
    BY AdjustedJobFits
  <2>. QED
    BY <1>2, <2>1, <2>2
<1>. QED
  BY <1>1, <1>3, <1>4

LEMMA StepTamed ==
    ASSUME PubInv, NEW p \in Publishers, Step(p) \/ Crash(p) \/ DiskError(p), ~SelectPartition(p)
    PROVE  Becomes(p)
<1>1. DOMAIN pub[p] = Fields
  BY DEF PubInv, Fits
<1>2. CASE SkipPartition(p)
  <2>1. \E d, reason : Reject(p, d, reason)
    BY <1>2, Zenon DEF SkipPartition
  <2>. QED
    BY <1>1, <2>1, RejectTamed
<1>3. CASE InstallBatch(p)
  <2>1. PICK job : job = BatchJob(pub[p].request, pub[p].accepted, pub[p].rejected)
    OBVIOUS
  <2>2. job.family = "batch"
    BY <2>1 DEF BatchJob
  <2> DEFINE t == [pub[p] EXCEPT !.phase = "open", !.job = job]
  <2>3. pub' = [pub EXCEPT ![p] = t]
    BY <1>3, <2>1 DEF InstallBatch, Become
  <2>4. t.job = job /\ t.parts = pub[p].parts
    BY <1>1 DEF Fields
  <2>5. Tamed(p, t)
    BY <2>2, <2>4, NoFeatures DEF Tamed
  <2>. QED
    BY <2>3, <2>5 DEF Becomes
<1>4. CASE Return(p) \/ Crash(p)
  <2>1. pub' = [pub EXCEPT ![p] = Resting]
    BY <1>4 DEF Return, Crash, Become
  <2>. QED
    BY <2>1, ForgetsIsTamed, Zenon DEF Becomes
<1>5. CASE DiskError(p)
  <2>1. PICK phase : phase = "failed"
    OBVIOUS
  <2>2. (\E d, reason : Reject(p, d, reason)) \/ pub' = [pub EXCEPT ![p] = [pub[p] EXCEPT !.phase = phase]]
    BY <1>5, <2>1, Zenon DEF DiskError, Become
  <2>3. Tamed(p, [pub[p] EXCEPT !.phase = phase])
    BY <1>1, PhaseIsTamed
  <2>4. ASSUME NEW t, pub' = [pub EXCEPT ![p] = t], Tamed(p, t) PROVE Becomes(p)
    BY <2>4 DEF Becomes
  <2>. QED
    BY <1>1, <2>2, <2>3, <2>4, RejectTamed, Zenon
<1>. QED
  BY <1>1, <1>2, <1>3, <1>4, <1>5, AcceptTamed, WritingTamed DEF Step

-----------------------------------------------------------------------------
(***************************************************************************)
(* Where the whole manifest of an artifact or of a batch comes from: it    *)
(* was there, or it is the last file of a publisher that has the directory.*)
(***************************************************************************)
Remains(d) == WholeIn(disk, d) /\ disk'.files[<<d, ManifestName>>] = disk.files[<<d, ManifestName>>]

LaidBy(p, d) ==
    /\ pub[p].job.dir = d /\ ExclusiveJob(pub[p].job)
    /\ disk'.files[<<d, ManifestName>>] = Final(pub[p].job)

LEMMA SameFilesRemain ==
    ASSUME disk'.files = disk.files, NEW d, WholeIn(disk', d) PROVE Remains(d)
BY DEF WholeIn, Remains

LEMMA PutRemains ==
    ASSUME PubInv, NEW x, NEW n, NEW c, disk' = [disk EXCEPT !.files = Put(<<x, n>>, c)],
           NEW d, WholeIn(disk', d)
    PROVE  Remains(d) \/ (d = x /\ n = ManifestName /\ c # Torn /\ disk'.files[<<d, ManifestName>>] = c)
<1>1. disk'.files = Put(<<x, n>>, c)
  BY OnlyFile, SMTT(40)
<1>2. /\ DOMAIN disk'.files = DOMAIN disk.files \cup {<<x, n>>}
      /\ disk'.files[<<x, n>>] = c
      /\ \A path \in DOMAIN disk.files : path # <<x, n>> => disk'.files[path] = disk.files[path]
  BY <1>1 DEF Put
<1>3. CASE d # x \/ n # ManifestName
  <2>1. <<d, ManifestName>> # <<x, n>>
    BY <1>3, TwoEqual
  <2>. QED
    BY <1>2, <2>1 DEF WholeIn, Remains
<1>4. CASE d = x /\ n = ManifestName
  BY <1>2, <1>4 DEF WholeIn
<1>. QED
  BY <1>3, <1>4

LEMMA ManifestComes ==
    ASSUME PubInv, NEW p \in Publishers, Step(p) \/ Crash(p) \/ DiskError(p),
           NEW d, d.of \in {"artifact", "batch"}, WholeIn(disk', d)
    PROVE  Remains(d) \/ LaidBy(p, d)
<1> DEFINE job == pub[p].job
           x == job.dir
           at == pub[p].at
           n == job.files[at].name
<1>1. CASE disk'.files = disk.files
  BY <1>1, SameFilesRemain
<1>2. ASSUME CreateFile(p) \/ Overwrite(p) PROVE Remains(d)
  <2>1. disk'.files = disk.files \/ disk' = [disk EXCEPT !.files = Put(<<x, n>>, Torn)]
    BY <1>2, Zenon DEF CreateFile, Overwrite, Here, Path
  <2>. HIDE DEF x, n
  <2>. QED
    BY <1>1, <2>1, PutRemains, SameFilesRemain
<1>3. ASSUME FillFile(p) \/ LinkFile(p) PROVE Remains(d) \/ LaidBy(p, d)
  <2>1. \/ disk'.files = disk.files
        \/ disk' = [disk EXCEPT !.files = Put(<<x, n>>, Content(job, at))]
    BY <1>3, Zenon DEF FillFile, LinkFile, Here, Path, Mine
  <2>2. pub[p].phase \in {"fill", "link"}
    BY <1>3 DEF FillFile, LinkFile
  <2>3. JobFits(job) /\ at \in 1..Len(job.files)
    BY <2>2, WriterFits DEF Fits
  <2>4. CASE d = x /\ n = ManifestName /\ disk'.files[<<d, ManifestName>>] = Content(job, at)
    <3>1. job.family \in Exclusive /\ ExclusiveJob(job)
      <4>1. job.family \notin Exclusive => x.of \in {"document", "result", "spec"}
        BY <2>3, JobShape, SharedShape
      <4>. QED
        BY <2>3, <2>4, <4>1, JobShape
    <3>2. at = Len(job.files)
      BY <2>3, <2>4, <3>1, ExclusiveShape
    <3>. QED
      BY <2>4, <3>1, <3>2 DEF LaidBy, Final
  <2>. HIDE DEF x, n, job, at
  <2>5. disk'.files = disk.files \/ Remains(d)
        \/ (d = x /\ n = ManifestName /\ disk'.files[<<d, ManifestName>>] = Content(job, at))
    BY <2>1, PutRemains
  <2>. QED
    BY <2>4, <2>5, SameFilesRemain
<1>4. ASSUME DiskError(p) PROVE Remains(d)
  <2>1. \/ disk' = [disk EXCEPT !.dirs = @ \ {x},
                                !.files = [path \in {q \in DOMAIN @ : q[1] # x} |-> @[path]]]
        \/ disk'.files = disk.files
    BY <1>4, DiskErrorShape, Zenon
  <2>. HIDE DEF x
  <2>2. CASE disk' = [disk EXCEPT !.dirs = @ \ {x},
                                  !.files = [path \in {q \in DOMAIN @ : q[1] # x} |-> @[path]]]
    <3>1. (\A e : e # x => SameIn(disk, disk', e)) /\ ~WholeIn(disk', x)
      BY <2>2, DirectoryGone
    <3>2. SameIn(disk, disk', d)
      BY <3>1
    <3>. QED
      BY <3>2, SameManifest DEF Remains, WholeIn
  <2>. QED
    BY <2>1, <2>2, SameFilesRemain
<1>5. ASSUME MakeDirectory(p) \/ ExamineFile(p) \/ WriteTemporary(p) \/ UnlinkTemporary(p)
      PROVE  disk'.files = disk.files
  BY <1>5 DEF MakeDirectory, ExamineFile, WriteTemporary, UnlinkTemporary, PubInv, DiskInv
<1>6. ASSUME \/ SkipPartition(p) \/ SelectPartition(p) \/ AcceptChild(p) \/ InstallBatch(p)
             \/ Open(p) \/ Return(p) \/ Crash(p)
      PROVE  disk'.files = disk.files
  <2>1. UNCHANGED disk
    BY <1>6, Zenon DEF SkipPartition, SelectPartition, AcceptChild, InstallBatch, Open, Return, Crash
  <2>. QED
    BY <2>1
<1>. QED
  BY <1>1, <1>2, <1>3, <1>4, <1>5, <1>6, Zenon DEF Step

-----------------------------------------------------------------------------
LEMMA SelectRooted ==
    ASSUME PubInv, OwnedInv, ReaderInv, RootedInv, NEW p \in Publishers, SelectPartition(p)
    PROVE  \E t : pub' = [pub EXCEPT ![p] = t] /\ Rooted(CommittedParts, t)
<1> DEFINE s == pub[p]
           request == s.request
           Subj(d) == Subject(request, d[2])
           Sel(d, subject) == Selected(request.set, RowsOf(s.parts), subject, d[1])
           Env(d, selected) == Envelope(request.set, request.commit, d[1], request.calendar,
                                        InputAvailable(selected, request.calendar),
                                        SelectedLineage(selected, s.parts, manifests))
<1>1. s.phase = "partition" /\ DOMAIN s = Fields /\ request.set \in FeatureFamilies
  BY DEF SelectPartition, PubInv, Fits
<1>2. PICK d : d = NextPartition(s.todo)
  OBVIOUS
<1>3. PICK subject : subject = Subj(d)
  OBVIOUS
<1>4. PICK selected : selected = Sel(d, subject)
  OBVIOUS
<1>5. PICK features : features = Features(request.set, selected)
  OBVIOUS
<1>6. PICK e : e = Env(d, selected)
  OBVIOUS
<1>7. PICK job : job = FeatureJob(e, subject, TheOnly(features.rows))
  OBVIOUS
<1>8. IF \/ features.refused
         \/ ~LineageHolds(selected, s.parts, manifests, lost)
         \/ ~Accepts(e)
      THEN Reject(p, d, "inputs refused")
      ELSE Become(p, [s EXCEPT !.phase = "open", !.job = job])
  BY <1>2, <1>3, <1>4, <1>5, <1>6, <1>7, Zenon DEF SelectPartition
<1>9. Rooted(CommittedParts, s)
  BY DEF RootedInv
<1>10. CASE Reject(p, d, "inputs refused")
  <2>1. Becomes(p)
    BY <1>1, <1>10, RejectTamed
  <2>2. PICK t : /\ pub' = [pub EXCEPT ![p] = t] /\ t.parts \in {s.parts, {}, view.parts}
                 /\ t.job = s.job \/ t.job.family \notin FeatureFamilies
    BY <2>1 DEF Becomes, Tamed
  <2>3. view.parts \subseteq CommittedParts
    BY DEF ReaderInv, ViewIsCommitted
  <2>4. Rooted(CommittedParts, t)
    BY <1>9, <2>2, <2>3 DEF Rooted
  <2>. QED
    BY <2>2, <2>4
<1>11. CASE ~features.refused /\ Become(p, [s EXCEPT !.phase = "open", !.job = job])
  <2>1. /\ s.parts \subseteq CommittedParts /\ IsFiniteSet(s.parts)
        /\ s.parts \subseteq SUBSET Stored /\ \A q \in s.parts : IsFiniteSet(q)
    <3>1. s.parts \subseteq CommittedParts
      BY <1>9 DEF Rooted
    <3>2. IsFiniteSet(s.parts)
      BY <3>1, FS_Subset DEF RootedInv
    <3>. QED
      BY <3>1, <3>2, PartsAreSound
  <2>2. PICK set, commit, decision, calendar, parts :
           /\ set = request.set /\ commit = request.commit /\ decision = d[1]
           /\ calendar = request.calendar /\ parts = s.parts
    OBVIOUS
  <2>3. /\ selected = Selected(set, RowsOf(parts), subject, decision)
        /\ e = Envelope(set, commit, decision, calendar, InputAvailable(selected, calendar),
                        SelectedLineage(selected, parts, manifests))
        /\ job = FeatureJob(e, subject, TheOnly(Features(set, selected).rows))
        /\ ~Features(set, selected).refused
    BY <1>4, <1>5, <1>6, <1>7, <1>11, <2>2, Zenon
  <2>4. Len(job.files) = 2 /\ Pinned(parts, job.dir, Content(job, 2))
    <3>1. set \in FeatureFamilies /\ IsFiniteSet(parts) /\ parts \subseteq SUBSET Stored
          /\ \A q \in parts : IsFiniteSet(q)
      BY <1>1, <2>1, <2>2
    <3>. HIDE DEF s
    <3>. QED
      BY <2>3, <3>1, SelectionPinned
  <2>5. Pinned(CommittedParts, job.dir, Final(job))
    BY <2>1, <2>2, <2>4, PinnedGrows DEF Final
  <2> DEFINE t == [s EXCEPT !.phase = "open", !.job = job]
  <2>6. pub' = [pub EXCEPT ![p] = t]
    BY <1>11 DEF Become
  <2>7. t.parts = s.parts /\ t.job = job
    BY <1>1 DEF Fields
  <2>. HIDE DEF t
  <2>8. Rooted(CommittedParts, t)
    BY <2>1, <2>5, <2>7 DEF Rooted
  <2>. QED
    BY <2>6, <2>8
<1>. QED
  BY <1>8, <1>10, <1>11

LEMMA RootedGrows ==
    ASSUME NEW P, NEW Q, P \subseteq Q
    PROVE  /\ \A s : Rooted(P, s) => Rooted(Q, s)
           /\ \A a : ManifestsRooted(P, a) => ManifestsRooted(Q, a)
<1>1. \A d, m : Pinned(P, d, m) => Pinned(Q, d, m)
  BY PinnedGrows
<1>. QED
  BY <1>1, Zenon DEF Rooted, ManifestsRooted

LEMMA BatchRecorded ==
    ASSUME NEW request, NEW accepted, NEW rejected, NEW job, job = BatchJob(request, accepted, rejected)
    PROVE  BatchRecord(Final(job))
<1> DEFINE m == [id |-> BatchId(request, accepted), commit |-> request.commit,
                 requested |-> Cardinality(request.schedule \X request.securities),
                 accepted |-> accepted, rejected |-> rejected]
<1>1. job.files = <<File(ManifestName, m)>>
  BY Zenon DEF BatchJob
<1>2. BatchRecord(m)
  BY DEF BatchRecord
<1>. HIDE DEF m
<1>3. Final(job) = m
  BY <1>1, ListOfOne, FileFields DEF Final, Content
<1>. QED
  BY <1>2, <1>3

\* The manifests of a step that writes.
LEMMA ManifestsStayRooted ==
    ASSUME PubInv, OwnedInv, RootedInv, NEW p \in Publishers, Step(p) \/ Crash(p) \/ DiskError(p)
    PROVE  ManifestsRooted(CommittedParts, disk')
<1>. SUFFICES ASSUME NEW d, WholeIn(disk', d), d.of \in {"artifact", "batch"}
              PROVE  /\ d.of = "artifact" => Pinned(CommittedParts, d, disk'.files[<<d, ManifestName>>])
                     /\ d.of = "batch" => BatchRecord(disk'.files[<<d, ManifestName>>])
  BY DEF ManifestsRooted
<1>1. CASE Remains(d)
  BY <1>1 DEF Remains, RootedInv, ManifestsRooted
<1>2. CASE LaidBy(p, d)
  <2>1. PICK job : job = pub[p].job
    OBVIOUS
  <2>2. ExclusiveJob(job) /\ job.dir = d /\ disk'.files[<<d, ManifestName>>] = Final(job)
    BY <1>2, <2>1 DEF LaidBy
  <2>3. CASE job.family \in FeatureFamilies
    <3>1. d.of = "artifact"
      BY <2>2, <2>3 DEF ExclusiveJob, DirectoryKind
    <3>2. Pinned(CommittedParts, d, Final(job))
      BY <2>1, <2>2, <2>3 DEF RootedInv, Rooted
    <3>. QED
      BY <2>2, <3>1, <3>2
  <2>4. CASE job.family = "batch"
    <3>1. d.of = "batch"
      BY <2>2, <2>4, NoFeatures DEF ExclusiveJob, DirectoryKind
    <3>2. PICK request, accepted, rejected : job = BatchJob(request, accepted, rejected)
      BY <2>1, <2>4 DEF OwnedInv, JobOK
    <3>3. BatchRecord(Final(job))
      BY <3>2, BatchRecorded
    <3>. QED
      BY <2>2, <3>1, <3>3
  <2>5. CASE job.family = "adjusted"
    BY <2>2, <2>5, NoFeatures DEF ExclusiveJob, DirectoryKind
  <2>. QED
    BY <2>2, <2>3, <2>4, <2>5 DEF ExclusiveJob, Exclusive
<1>. QED
  BY <1>1, <1>2, ManifestComes

-----------------------------------------------------------------------------
LEMMA BecomesRooted ==
    ASSUME PubInv, RootedInv, view.parts \subseteq CommittedParts, NEW p \in Publishers,
           Becomes(p) \/ \E t : pub' = [pub EXCEPT ![p] = t] /\ Rooted(CommittedParts, t)
    PROVE  \A q \in Publishers : Rooted(CommittedParts, pub'[q])
<1>1. \A q \in Publishers : Rooted(CommittedParts, pub[q])
  BY DEF RootedInv
<1>2. PICK t : pub' = [pub EXCEPT ![p] = t] /\ Rooted(CommittedParts, t)
  <2>1. ASSUME NEW t, Tamed(p, t) PROVE Rooted(CommittedParts, t)
    BY <1>1, <2>1 DEF Tamed, Rooted
  <2>. QED
    BY <2>1 DEF Becomes
<1>3. DOMAIN pub = Publishers
  BY DEF PubInv
<1>. QED
  BY <1>1, <1>2, <1>3

LEMMA RootedInitHolds == PubInit => RootedInv
<1>. SUFFICES ASSUME PubInit PROVE RootedInv
  OBVIOUS
<1>1. CommittedParts = {}
  BY DEF PubInit, Init, CommittedParts
<1>2. IsFiniteSet(CommittedParts) /\ NamesTell
  BY <1>1, FS_EmptySet DEF NamesTell
<1>3. \A d : ~WholeIn(disk, d)
  <2>1. disk.files = <<>>
    BY DEF PubInit
  <2>. QED
    BY <2>1 DEF WholeIn
<1>4. ManifestsRooted(CommittedParts, disk)
  BY <1>3 DEF ManifestsRooted
<1>5. \A p \in Publishers : pub[p] = Resting
  BY DEF PubInit
<1>6. Rooted(CommittedParts, Resting)
  BY NoFeatures DEF Rooted, Resting, NoJob
<1>. QED
  BY <1>2, <1>4, <1>5, <1>6 DEF RootedInv

LEMMA RootedNext ==
    ASSUME PubInv, OwnedInv, ReaderInv, RootedInv, [PubNext]_pubVars
    PROVE  RootedInv'
<1>1. [Next]_vars
  BY PublishersRead
<1>2. IsFiniteSet(CommittedParts) /\ NamesTell
  BY DEF RootedInv
<1>3. CommittedParts \subseteq CommittedParts' /\ IsFiniteSet(CommittedParts)' /\ NamesTell'
  BY <1>1, <1>2, CommittedStep
<1>4. view.parts \subseteq CommittedParts
  BY DEF ReaderInv, ViewIsCommitted
<1>5. /\ ManifestsRooted(CommittedParts, disk')
      /\ \A q \in Publishers : Rooted(CommittedParts, pub'[q])
  <2>1. CASE UNCHANGED <<disk, pub>>
    <3>1. disk' = disk /\ pub' = pub
      BY <2>1
    <3>. QED
      BY <3>1 DEF RootedInv
  <2>2. ASSUME NEW p \in Publishers, NEW request \in Requests[theme],
               \/ StartBatch(p, request) \/ StartDocument(p, request) \/ StartResult(p, request)
               \/ StartSpec(p, request) \/ StartAdjusted(p, request)
        PROVE  /\ ManifestsRooted(CommittedParts, disk')
               /\ \A q \in Publishers : Rooted(CommittedParts, pub'[q])
    <3>1. disk' = disk
      BY <2>2, Zenon DEF StartBatch, StartDocument, StartResult, StartSpec, StartAdjusted, StartJob
    <3>2. ManifestsRooted(CommittedParts, disk')
      BY <3>1 DEF RootedInv
    <3>3. Becomes(p)
      BY <2>2, StartTamed
    <3>. QED
      BY <1>4, <3>2, <3>3, BecomesRooted
  <2>3. ASSUME NEW p \in Publishers, Step(p) \/ Crash(p) \/ DiskError(p)
        PROVE  /\ ManifestsRooted(CommittedParts, disk')
               /\ \A q \in Publishers : Rooted(CommittedParts, pub'[q])
    <3>1. ManifestsRooted(CommittedParts, disk')
      BY <2>3, ManifestsStayRooted
    <3>2. CASE SelectPartition(p)
      BY <1>4, <3>1, <3>2, SelectRooted, BecomesRooted
    <3>3. CASE ~SelectPartition(p)
      <4>1. Becomes(p)
        BY <2>3, <3>3, StepTamed
      <4>. QED
        BY <1>4, <3>1, <4>1, BecomesRooted
    <3>. QED
      BY <3>2, <3>3
  <2>4. CASE PubNext
    BY <2>1, <2>2, <2>3, <2>4 DEF PubNext, publication
  <2>5. CASE UNCHANGED pubVars
    BY <2>1, <2>5 DEF pubVars, publication
  <2>. QED
    BY <2>4, <2>5
<1>6. PICK P : P = CommittedParts
  OBVIOUS
<1>7. PICK Q : Q = CommittedParts'
  OBVIOUS
<1>8. ManifestsRooted(Q, disk') /\ \A q \in Publishers : Rooted(Q, pub'[q])
  <2>1. P \subseteq Q
    BY <1>3, <1>6, <1>7
  <2>. QED
    BY <1>5, <1>6, <2>1, RootedGrows
<1>. QED
  BY <1>3, <1>7, <1>8, Zenon DEF RootedInv, ManifestsRooted, Rooted, WholeIn

(***************************************************************************)
(* A feature artifact is founded on what is committed, in every reachable  *)
(* state: over the committed parts its directory names, and nothing else,  *)
(* the selection, the features and, with the commit, the whole manifest    *)
(* come out the same, whatever the store gains or loses afterwards.        *)
(***************************************************************************)
THEOREM RootedInductive == PubSpec => []RootedInv
<1>1. PubInv /\ OwnedInv /\ ReaderInv /\ RootedInv /\ [PubNext]_pubVars => RootedInv'
  BY RootedNext
<1>2. PubSpec => []ReaderInv
  BY PublicationsImplementReaders, ReadersInductive, PTL
<1>. QED
  BY <1>1, <1>2, RootedInitHolds, PublishersInductive, OwnedInductive, PTL DEF PubSpec

LEMMA RootedFeatures ==
    ASSUME NamesTell, NEW d, NEW m, Pinned(CommittedParts, d, m)
    PROVE  LET inputs == d.inputs
               selected == Selected(inputs.set, RowsOf(PartsNamed(inputs.parts)), d.subject,
                                    inputs.decision)
           IN  Features(inputs.set, selected).rows = {m.part.features}
<1>1. PICK hit \in SUBSET CommittedParts : Founded(d, m, hit)
  BY DEF Pinned
<1>2. PartsNamed(d.inputs.parts) = hit
  <2>1. d.inputs.parts = PartNames(hit)
    BY <1>1 DEF Founded
  <2>2. \A part \in CommittedParts : PartName(part) \in PartNames(hit) <=> part \in hit
    BY <1>1 DEF PartNames, NamesTell
  <2>. QED
    BY <1>1, <2>1, <2>2 DEF PartsNamed
<1>3. PICK selected : selected = SelectedOf(d, hit)
  OBVIOUS
<1>4. selected = Selected(d.inputs.set, RowsOf(PartsNamed(d.inputs.parts)), d.subject, d.inputs.decision)
  BY <1>2, <1>3, Zenon DEF SelectedOf
<1>5. PICK set : set = d.inputs.set
  OBVIOUS
<1>6. set \in FeatureFamilies /\ ~Features(set, selected).refused
  BY <1>1, <1>3, <1>5, Zenon DEF Founded
<1>7. PICK rows : rows = Features(set, selected).rows
  OBVIOUS
<1>8. rows = {TheOnly(rows)}
  BY <1>6, <1>7, FeaturesCompute
<1>9. PICK e : e = EnvelopeOf(d, hit, m.commit)
  OBVIOUS
<1>10. PICK job : job = FeatureJob(e, d.subject, TheOnly(rows))
  OBVIOUS
<1>11. m = Content(job, 2)
  BY <1>1, <1>3, <1>5, <1>7, <1>9, <1>10, Zenon DEF Founded, Rebuilt
<1>12. DOMAIN e = EnvelopeNames /\ e.set = set
  BY <1>5, <1>9, EnvelopeValues DEF EnvelopeOf
<1>13. m.part.features = TheOnly(rows)
  BY <1>6, <1>10, <1>11, <1>12, FeatureFiles
<1>. QED
  BY <1>4, <1>5, <1>7, <1>8, <1>13, Zenon

(***************************************************************************)
(* An artifact is reproducible from what it pins: selecting and computing  *)
(* again over the committed parts its directory names gives its features,  *)
(* although the catalogue it was built from may be older than the          *)
(* manifests it hashed and may miss parts the store has gained.            *)
(***************************************************************************)
THEOREM ArtifactsAreReproducibleHolds == PubSpec => []ArtifactsAreReproducible
<1>1. RootedInv => ArtifactsAreReproducible
  <2>. SUFFICES ASSUME RootedInv, NEW d \in Published("artifact")
                PROVE  LET inputs == d.inputs
                           selected == Selected(inputs.set, RowsOf(PartsNamed(inputs.parts)), d.subject,
                                                inputs.decision)
                       IN  Features(inputs.set, selected).rows = {ManifestAt(d).part.features}
    BY Zenon DEF ArtifactsAreReproducible
  <2>1. d.of = "artifact" /\ WholeIn(disk, d)
    BY WholeManifest DEF Published
  <2>2. PICK m : m = ManifestAt(d)
    OBVIOUS
  <2>3. Pinned(CommittedParts, d, m)
    BY <2>1, <2>2 DEF RootedInv, ManifestsRooted, ManifestAt
  <2>4. NamesTell
    BY DEF RootedInv
  <2>. QED
    BY <2>2, <2>3, <2>4, RootedFeatures, Zenon
<1>. QED
  BY <1>1, RootedInductive, PTL

-----------------------------------------------------------------------------
(***************************************************************************)
(* Refusals.  A publisher fails as it opens only on what it finds in its   *)
(* directory; what it finds there is whole and readable, or has no whole   *)
(* manifest.                                                               *)
(***************************************************************************)
LEMMA OpensItself ==
    ASSUME PubInv, [PubNext]_pubVars, NEW p \in Publishers,
           pub[p].phase = "open", pub'[p].phase = "failed"
    PROVE  Open(p)
<1>1. ASSUME NEW q \in Publishers, NEW t, pub' = [pub EXCEPT ![q] = t] PROVE q = p
  BY <1>1 DEF PubInv
<1>2. ~UNCHANGED pub
  OBVIOUS
<1>3. ASSUME NEW q \in Publishers, NEW request \in Requests[theme],
             \/ StartBatch(q, request) \/ StartDocument(q, request) \/ StartResult(q, request)
             \/ StartSpec(q, request) \/ StartAdjusted(q, request)
      PROVE  FALSE
  <2>1. Becomes(q)
    BY <1>3, StartTamed
  <2>2. q = p
    BY <1>1, <2>1 DEF Becomes
  <2>3. pub[q].phase = "idle"
    BY <1>3, Zenon DEF StartBatch, StartDocument, StartResult, StartSpec, StartAdjusted, StartJob, CanStart
  <2>. QED
    BY <2>2, <2>3
<1>4. ASSUME NEW q \in Publishers, Step(q) \/ Crash(q) \/ DiskError(q) PROVE Open(p)
  <2>1. CASE SelectPartition(q)
    <3>1. pub[q].phase = "partition"
      BY <2>1 DEF SelectPartition
    <3>2. \E t : pub' = [pub EXCEPT ![q] = t]
      BY <2>1, Zenon DEF SelectPartition, Reject, Become
    <3>. QED
      BY <1>1, <3>1, <3>2
  <2>2. CASE ~SelectPartition(q)
    <3>1. Becomes(q)
      BY <1>4, <2>2, StepTamed
    <3>2. q = p
      BY <1>1, <3>1 DEF Becomes
    <3>3. ASSUME Crash(p) PROVE FALSE
      <4>1. pub' = [pub EXCEPT ![p] = Resting]
        BY <3>3, Zenon DEF Crash, Become
      <4>2. pub'[p] = Resting
        BY <4>1 DEF PubInv
      <4>. QED
        BY <4>2, RestingFields
    <3>4. ASSUME DiskError(p) PROVE FALSE
      BY <3>4 DEF DiskError
    <3>5. ASSUME Step(p) PROVE Open(p)
      <4>1. \/ pub[p].phase \in {"partition", "published", "failed", "directory", "write", "fill",
                                "stage", "link", "unlink", "unlink and fail"}
            \/ Open(p)
        BY <3>5 DEF Step, SkipPartition, SelectPartition, AcceptChild, InstallBatch, MakeDirectory, CreateFile,
           FillFile, ExamineFile, Overwrite, WriteTemporary, LinkFile, UnlinkTemporary, Return
      <4>. QED
        BY <4>1
    <3>. QED
      BY <1>4, <3>2, <3>3, <3>4, <3>5
  <2>. QED
    BY <2>1, <2>2
<1>5. CASE PubNext
  BY <1>2, <1>3, <1>4, <1>5 DEF PubNext, publication
<1>6. CASE UNCHANGED pubVars
  BY <1>2, <1>6 DEF pubVars, publication
<1>. QED
  BY <1>5, <1>6

\* Two artifacts of one identity and one commit have one manifest.
LEMMA SameArtifact ==
    ASSUME NamesTell, NEW d, NEW m, NEW n, Pinned(CommittedParts, d, m), Pinned(CommittedParts, d, n),
           m.commit = n.commit
    PROVE  m = n
<1>1. PICK A \in SUBSET CommittedParts : Founded(d, m, A)
  BY DEF Pinned
<1>2. PICK B \in SUBSET CommittedParts : Founded(d, n, B)
  BY DEF Pinned
<1>3. PartNames(A) = PartNames(B)
  BY <1>1, <1>2 DEF Founded
<1>4. A = B
  BY <1>3, NamedApart
<1>5. PICK commit : commit = m.commit
  OBVIOUS
<1>6. m = Content(Rebuilt(d, A, commit), 2) /\ n = Content(Rebuilt(d, B, commit), 2)
  BY <1>1, <1>2, <1>5, Zenon DEF Founded
<1>. QED
  BY <1>4, <1>6

\* So do two batches that list the same children and the same rejections.
LEMMA SameBatch ==
    ASSUME NEW d, NEW m, NEW n, BatchRecord(m), BatchRecord(n), BatchHolds(d, m), BatchHolds(d, n),
           m.commit = n.commit, m.accepted = n.accepted, m.rejected = n.rejected
    PROVE  m = n
<1>1. m.id = n.id
  BY DEF BatchHolds
<1>2. m.requested = n.requested
  BY DEF BatchHolds, BatchManifestValid
<1>. QED
  BY <1>1, <1>2, Zenon DEF BatchRecord

\* A taken directory whose whole manifest tells nothing else is the own one.
LEMMA RefusalHasReason ==
    ASSUME PubInv, OwnedInv, RootedInv, NEW p \in Publishers, pub[p].phase = "open",
           NEW job, job = pub[p].job, job.family \in Exclusive \ {"adjusted"},
           HasWholeManifest(job.dir), ManifestAt(job.dir).commit = Final(job).commit,
           job.family = "batch" => /\ ManifestAt(job.dir).accepted = Final(job).accepted
                                   /\ ManifestAt(job.dir).rejected = Final(job).rejected
    PROVE  Readable(job) /\ ManifestAt(job.dir) = Final(job)
<1>1. PICK d, m, own : d = job.dir /\ m = ManifestAt(d) /\ own = Final(job)
  OBVIOUS
<1>2. WholeIn(disk, d) /\ m = disk.files[<<d, ManifestName>>]
  BY <1>1, WholeManifest DEF ManifestAt
<1>3. d.of = DirectoryKind(job.family)
  <2>1. JobFits(job)
    BY DEF PubInv, Fits
  <2>. QED
    BY <1>1, <2>1, JobShape
<1>4. NamesTell /\ ManifestsRooted(CommittedParts, disk) /\ Rooted(CommittedParts, pub[p])
  BY DEF RootedInv
<1>5. CASE job.family \in FeatureFamilies
  <2>1. d.of = "artifact"
    BY <1>3, <1>5 DEF DirectoryKind
  <2>2. Pinned(CommittedParts, d, m)
    BY <1>2, <1>4, <2>1 DEF ManifestsRooted
  <2>3. Pinned(CommittedParts, d, own)
    BY <1>1, <1>4, <1>5 DEF Rooted
  <2>4. m = own
    BY <1>1, <1>4, <2>2, <2>3, SameArtifact
  <2>5. ArtifactReadable(d)
    <3>1. Sealed(disk, d)
      BY <1>2, <2>1 DEF OwnedInv, HasOneWriter
    <3>. QED
      BY <1>2, <2>1, <3>1, SealedArtifact
  <2>6. Readable(job)
    BY <1>1, <1>5, <2>5, NoFeatures DEF Readable
  <2>. QED
    BY <1>1, <2>4, <2>6
<1>6. CASE job.family = "batch"
  <2>1. d.of = "batch"
    BY <1>3, <1>6, NoFeatures DEF DirectoryKind
  <2>2. BatchRecord(m)
    BY <1>2, <1>4, <2>1 DEF ManifestsRooted
  <2>3. Sealed(disk, d)
    BY <1>2, <2>1 DEF OwnedInv, HasOneWriter
  <2>4. BatchHolds(d, m)
    BY <1>2, <2>1, <2>3, Zenon DEF Sealed
  <2>5. BatchRecord(own) /\ BatchHolds(d, own)
    <3>1. PICK s : s = pub[p]
      OBVIOUS
    <3>2. JobOK(s) /\ Listed(disk, s)
      BY <3>1 DEF OwnedInv
    <3>3. s.todo = {} /\ job = BatchJob(s.request, s.accepted, s.rejected)
      BY <1>6, <3>1, <3>2 DEF JobOK
    <3>4. ListingOK(s)
      BY <1>6, <3>1, <3>2 DEF Listed, RunsBatch
    <3>5. /\ OnceEach(s) /\ IsFiniteSet(Grid(s.request))
          /\ \A c \in s.accepted : Tells(c, s.request.set)
      BY <3>4, NextOfBatch DEF ListingOK
    <3>6. Len(job.files) = 1 /\ BatchHolds(job.dir, Content(job, 1))
      BY <3>3, <3>5, BatchManifestHolds
    <3>7. BatchRecord(Final(job))
      BY <3>3, BatchRecorded
    <3>. QED
      BY <1>1, <3>6, <3>7 DEF Final
  <2>6. m = own
    BY <1>1, <1>6, <2>2, <2>4, <2>5, SameBatch
  <2>7. Readable(job)
    <3>1. BatchReadable(d)
      BY <1>2, <2>1, <2>3, SealedBatch
    <3>. QED
      BY <1>1, <1>6, <3>1 DEF Readable
  <2>. QED
    BY <1>1, <2>6, <2>7
<1>. QED
  BY <1>5, <1>6 DEF Exclusive

(***************************************************************************)
(* A refusal has a reason: a feature artifact or a batch that finds its    *)
(* directory taken is refused only when the manifest there is missing or   *)
(* torn, was generated by another commit, or, for a batch, records other   *)
(* children or other rejections.                                           *)
(***************************************************************************)
THEOREM RefusalsAreExplained == PubSpec => ConflictsAreExplained
<1> DEFINE Explained ==
        \A p \in Publishers :
          LET job == pub[p].job
              own == Content(job, Len(job.files))
              other == ManifestAt(job.dir)
          IN  (/\ pub[p].phase = "open" /\ pub'[p].phase = "failed"
               /\ job.family \in Exclusive \ {"adjusted"})
              => \/ ~HasWholeManifest(job.dir)
                 \/ other.commit # own.commit
                 \/ /\ job.family = "batch"
                    /\ <<other.accepted, other.rejected>> # <<own.accepted, own.rejected>>
<1>1. ASSUME PubInv, OwnedInv, RootedInv, [PubNext]_pubVars PROVE Explained
  <2>. SUFFICES ASSUME NEW p \in Publishers, NEW job, job = pub[p].job,
                       pub[p].phase = "open", pub'[p].phase = "failed",
                       job.family \in Exclusive \ {"adjusted"},
                       HasWholeManifest(job.dir), ManifestAt(job.dir).commit = Final(job).commit,
                       job.family = "batch" =>
                          /\ ManifestAt(job.dir).accepted = Final(job).accepted
                          /\ ManifestAt(job.dir).rejected = Final(job).rejected
                PROVE  FALSE
    BY DEF Final
  <2>1. Open(p)
    BY <1>1, OpensItself
  <2>2. Readable(job) /\ ManifestAt(job.dir) = Final(job)
    BY <1>1, RefusalHasReason
  <2>3. OpenExclusive(job) # "failed"
    BY <2>2 DEF OpenExclusive, Final
  <2>4. pub'[p].phase = OpenExclusive(job)
    <3>1. PICK phase : phase = OpenExclusive(job)
      OBVIOUS
    <3>2. pub' = [pub EXCEPT ![p] = [pub[p] EXCEPT !.at = 1, !.phase = phase]]
      BY <2>1, <3>1 DEF Open, Become
    <3>3. DOMAIN pub[p] = Fields /\ DOMAIN pub = Publishers
      BY <1>1 DEF PubInv, Fits
    <3>. QED
      BY <3>1, <3>2, <3>3 DEF Fields
  <2>. QED
    BY <2>3, <2>4
<1>2. PubInv /\ OwnedInv /\ RootedInv /\ [PubNext]_pubVars => [Explained]_pubVars
  BY <1>1
<1>3. [][Explained]_pubVars => ConflictsAreExplained
  BY DEF ConflictsAreExplained
<1>. HIDE DEF Explained
<1>. QED
  BY <1>2, <1>3, RootedInductive, PublishersInductive, OwnedInductive, PTL DEF PubSpec

-----------------------------------------------------------------------------
(***************************************************************************)
(* The two readers of the observations.  They order the revisions of one   *)
(* observation by different keys, which agree when the revisions become    *)
(* available in their order.                                               *)
(***************************************************************************)
LEMMA UpToThree == 1..0 = {} /\ 1..1 = {1} /\ 1..2 = {1, 2} /\ 1..3 = {1, 2, 3}
OBVIOUS

LEMMA UpToFive == 1..4 = {1, 2, 3, 4} /\ 1..5 = {1, 2, 3, 4, 5}
OBVIOUS

LEMMA FourExceed ==
    ASSUME NEW a1, NEW a2, NEW a3, NEW a4, NEW b1, NEW b2, NEW b3, NEW b4
    PROVE  Exceeds(<<a1, a2, a3, a4>>, <<b1, b2, b3, b4>>)
              <=> \/ a1 > b1
                  \/ a1 = b1 /\ a2 > b2
                  \/ a1 = b1 /\ a2 = b2 /\ a3 > b3
                  \/ a1 = b1 /\ a2 = b2 /\ a3 = b3 /\ a4 > b4
<1>1. PICK s, t : s = <<a1, a2, a3, a4>> /\ t = <<b1, b2, b3, b4>>
  OBVIOUS
<1>2. /\ DOMAIN s = {1, 2, 3, 4}
      /\ s[1] = a1 /\ s[2] = a2 /\ s[3] = a3 /\ s[4] = a4
      /\ t[1] = b1 /\ t[2] = b2 /\ t[3] = b3 /\ t[4] = b4
  BY <1>1
<1>3. 1 - 1 = 0 /\ 2 - 1 = 1 /\ 3 - 1 = 2 /\ 4 - 1 = 3
  OBVIOUS
<1>4. Exceeds(s, t) <=> \/ s[1] > t[1] /\ \A j \in 1..0 : s[j] = t[j]
                        \/ s[2] > t[2] /\ \A j \in 1..1 : s[j] = t[j]
                        \/ s[3] > t[3] /\ \A j \in 1..2 : s[j] = t[j]
                        \/ s[4] > t[4] /\ \A j \in 1..3 : s[j] = t[j]
  BY <1>2, <1>3, Zenon DEF Exceeds
<1>. QED
  BY <1>1, <1>2, <1>4, UpToThree, Zenon

LEMMA FiveExceed ==
    ASSUME NEW a1, NEW a2, NEW a3, NEW a4, NEW a5, NEW b1, NEW b2, NEW b3, NEW b4, NEW b5
    PROVE  Exceeds(<<a1, a2, a3, a4, a5>>, <<b1, b2, b3, b4, b5>>)
              <=> \/ a1 > b1
                  \/ a1 = b1 /\ a2 > b2
                  \/ a1 = b1 /\ a2 = b2 /\ a3 > b3
                  \/ a1 = b1 /\ a2 = b2 /\ a3 = b3 /\ a4 > b4
                  \/ a1 = b1 /\ a2 = b2 /\ a3 = b3 /\ a4 = b4 /\ a5 > b5
<1>1. PICK s, t : s = <<a1, a2, a3, a4, a5>> /\ t = <<b1, b2, b3, b4, b5>>
  OBVIOUS
<1>2. /\ DOMAIN s = {1, 2, 3, 4, 5}
      /\ s[1] = a1 /\ s[2] = a2 /\ s[3] = a3 /\ s[4] = a4 /\ s[5] = a5
      /\ t[1] = b1 /\ t[2] = b2 /\ t[3] = b3 /\ t[4] = b4 /\ t[5] = b5
  BY <1>1
<1>3. 1 - 1 = 0 /\ 2 - 1 = 1 /\ 3 - 1 = 2 /\ 4 - 1 = 3 /\ 5 - 1 = 4
  OBVIOUS
<1>4. Exceeds(s, t) <=> \/ s[1] > t[1] /\ \A j \in 1..0 : s[j] = t[j]
                        \/ s[2] > t[2] /\ \A j \in 1..1 : s[j] = t[j]
                        \/ s[3] > t[3] /\ \A j \in 1..2 : s[j] = t[j]
                        \/ s[4] > t[4] /\ \A j \in 1..3 : s[j] = t[j]
                        \/ s[5] > t[5] /\ \A j \in 1..4 : s[j] = t[j]
  BY <1>2, <1>3, Zenon DEF Exceeds
<1>. QED
  BY <1>1, <1>2, <1>4, UpToThree, UpToFive, Zenon

\* A newer report of one period is a newer report.
LEMMA FundamentalAgrees ==
    ASSUME NEW reported
    PROVE  First(reported, [r \in reported |-> <<r.available, r.period, r.revision, r.recorded, r.id>>])
              \subseteq Qualify(reported, [r \in reported |-> <<r.series, r.period>>],
                                [r \in reported |-> <<r.available, r.revision, r.recorded, r.id>>])
<1>1. PICK by, order, first :
         /\ by = [r \in reported |-> <<r.series, r.period>>]
         /\ order = [r \in reported |-> <<r.available, r.revision, r.recorded, r.id>>]
         /\ first = [r \in reported |-> <<r.available, r.period, r.revision, r.recorded, r.id>>]
  OBVIOUS
<1>2. ASSUME NEW r \in reported, NEW s \in reported, by[s] = by[r], Exceeds(order[s], order[r])
      PROVE  Exceeds(first[s], first[r])
  <2>1. s.period = r.period
    BY <1>1, <1>2, TwoEqual
  <2>2. Exceeds(<<s.available, s.revision, s.recorded, s.id>>, <<r.available, r.revision, r.recorded, r.id>>)
    BY <1>1, <1>2
  <2>3. Exceeds(<<s.available, s.period, s.revision, s.recorded, s.id>>,
                <<r.available, r.period, r.revision, r.recorded, r.id>>)
    BY <2>1, <2>2, FourExceed, FiveExceed
  <2>. QED
    BY <1>1, <2>3
<1>3. First(reported, first) \subseteq Qualify(reported, by, order)
  BY <1>2, Qualified DEF First
<1>. QED
  BY <1>1, <1>3, Zenon

\* Of one observation, the keys of the two queries say the same.
LEMMA SameOrder ==
    ASSUME NEW r, NEW s, s.observed = r.observed, r.observed \in Int,
           r.revision \in Int, s.revision \in Int, r.available \in Int, s.available \in Int,
           Vintage(r) \in Int, Vintage(s) \in Int,
           r.revision >= s.revision => r.available >= s.available,
           s.revision >= r.revision => s.available >= r.available,
           r.revision = s.revision => Vintage(r) = Vintage(s)
    PROVE  Exceeds(<<s.observed, s.revision, s.available, s.recorded, s.id>>,
                   <<r.observed, r.revision, r.available, r.recorded, r.id>>)
              <=> Exceeds(<<s.available, s.revision, Vintage(s), s.recorded, s.id>>,
                          <<r.available, r.revision, Vintage(r), r.recorded, r.id>>)
<1>1. PICK o, a, b, p, q, v, w, m, n, i, j :
         /\ o = r.observed /\ a = s.available /\ b = r.available /\ p = s.revision /\ q = r.revision
         /\ v = Vintage(s) /\ w = Vintage(r) /\ m = s.recorded /\ n = r.recorded /\ i = s.id /\ j = r.id
  OBVIOUS
<1>2. /\ Exceeds(<<o, p, a, m, i>>, <<o, q, b, n, j>>)
            <=> \/ o > o
                \/ o = o /\ p > q
                \/ o = o /\ p = q /\ a > b
                \/ o = o /\ p = q /\ a = b /\ m > n
                \/ o = o /\ p = q /\ a = b /\ m = n /\ i > j
      /\ Exceeds(<<a, p, v, m, i>>, <<b, q, w, n, j>>)
            <=> \/ a > b
                \/ a = b /\ p > q
                \/ a = b /\ p = q /\ v > w
                \/ a = b /\ p = q /\ v = w /\ m > n
                \/ a = b /\ p = q /\ v = w /\ m = n /\ i > j
  BY FiveExceed
<1>3. /\ o \in Int /\ a \in Int /\ b \in Int /\ p \in Int /\ q \in Int /\ v \in Int /\ w \in Int
      /\ q >= p => b >= a
      /\ p >= q => a >= b
      /\ p = q => v = w
  BY <1>1
<1>4. /\ ~(o > o)
      /\ p = q => a = b /\ v = w /\ ~(a > b) /\ ~(v > w)
      /\ p > q => a > b \/ a = b
      /\ ~(p > q) /\ p # q => ~(a > b)
  BY <1>3
<1>5. Exceeds(<<o, p, a, m, i>>, <<o, q, b, n, j>>) <=> Exceeds(<<a, p, v, m, i>>, <<b, q, w, n, j>>)
  BY <1>2, <1>4, Zenon
<1>. QED
  BY <1>1, <1>5

\* Of the rows of one key one qualifies.
LEMMA QualifiedAbove ==
    ASSUME NEW O, IsFiniteSet(O), NEW by, NEW order, NEW n \in Nat, \A r \in O : Numbers(order[r], n),
           NEW s \in O
    PROVE  \E t \in Qualify(O, by, order) : by[t] = by[s]
<1>1. PICK S : S = {q \in O : by[q] = by[s]}
  OBVIOUS
<1>2. S \subseteq O /\ IsFiniteSet(S) /\ s \in S
  BY <1>1, FS_Subset
<1>3. \E t \in S : \A u \in S : ~Exceeds(order[u], order[t])
  <2>1. CASE \E u \in S : Exceeds(order[u], order[s])
    BY <1>2, <2>1, TopAbove
  <2>2. CASE ~\E u \in S : Exceeds(order[u], order[s])
    BY <1>2, <2>2
  <2>. QED
    BY <2>1, <2>2
<1>4. PICK t \in S : \A u \in S : ~Exceeds(order[u], order[t])
  BY <1>3
<1>5. t \in O /\ by[t] = by[s] /\ \A u \in O : by[u] = by[t] => ~Exceeds(order[u], order[t])
  BY <1>1, <1>4
<1>6. t \in Qualify(O, by, order)
  BY <1>5, Qualified
<1>. QED
  BY <1>5, <1>6

\* Two orders that agree on the rows of one observation, the first of which puts a newer observation
\* before an older one.
SameReading(O, first, by, order) ==
    /\ \A r \in O : r.observed \in Int /\ Numbers(order[r], 5)
    /\ \A r, s \in O : by[s] = by[r] <=> s.observed = r.observed
    /\ \A r, s \in O : s.observed = r.observed
                          => (Exceeds(first[s], first[r]) <=> Exceeds(order[s], order[r]))
    /\ \A r, s \in O : s.observed > r.observed => Exceeds(first[s], first[r])
    /\ \A r, s \in O : Exceeds(first[s], first[r]) => s.observed > r.observed \/ s.observed = r.observed

\* The newest of the rows that qualify is the newest row.
LEMMA NewestQualifies ==
    ASSUME NEW O, IsFiniteSet(O), NEW first, NEW by, NEW order, SameReading(O, first, by, order)
    PROVE  First(O, first) = {r \in Qualify(O, by, order) :
                                 \A s \in Qualify(O, by, order) : s.observed <= r.observed}
<1>1. PICK M : M = Qualify(O, by, order)
  OBVIOUS
<1>2. /\ \A r \in O : r.observed \in Int /\ Numbers(order[r], 5)
      /\ \A r, s \in O : by[s] = by[r] <=> s.observed = r.observed
  BY DEF SameReading
<1>3. /\ \A r, s \in O : s.observed = r.observed
                            => (Exceeds(first[s], first[r]) <=> Exceeds(order[s], order[r]))
      /\ \A r, s \in O : s.observed > r.observed => Exceeds(first[s], first[r])
      /\ \A r, s \in O : Exceeds(first[s], first[r]) => s.observed > r.observed \/ s.observed = r.observed
  BY DEF SameReading
<1>4. \A r : r \in M <=> r \in O /\ \A s \in O : by[s] = by[r] => ~Exceeds(order[s], order[r])
  BY <1>1, Qualified
<1>5. ASSUME NEW s \in O PROVE \E t \in M : t.observed = s.observed
  <2>1. PICK t \in M : by[t] = by[s]
    BY <1>1, <1>2, QualifiedAbove
  <2>. QED
    BY <1>4, <1>2, <2>1
<1>6. ASSUME NEW r \in First(O, first) PROVE r \in M /\ \A s \in M : s.observed <= r.observed
  <2>1. r \in O /\ \A s \in O : ~Exceeds(first[s], first[r])
    BY <1>6 DEF First
  <2>2. r \in M
    BY <1>4, <1>2, <1>3, <2>1
  <2>3. ASSUME NEW s \in M PROVE s.observed <= r.observed
    <3>1. s \in O
      BY <1>4, <2>3
    <3>2. ~(s.observed > r.observed)
      BY <1>3, <2>1, <3>1
    <3>. QED
      BY <1>2, <2>1, <3>1, <3>2
  <2>. QED
    BY <2>2, <2>3
<1>7. ASSUME NEW r \in M, \A s \in M : s.observed <= r.observed PROVE r \in First(O, first)
  <2>1. r \in O
    BY <1>4, <1>7
  <2>2. ASSUME NEW s \in O, Exceeds(first[s], first[r]) PROVE FALSE
    <3>1. CASE s.observed > r.observed
      <4>1. PICK t \in M : t.observed = s.observed
        BY <1>5, <2>2
      <4>2. s.observed \in Int /\ r.observed \in Int /\ t.observed <= r.observed
        BY <1>2, <1>7, <2>1, <2>2, <4>1
      <4>. QED
        BY <3>1, <4>1, <4>2
    <3>2. CASE s.observed = r.observed
      BY <1>4, <1>2, <1>3, <1>7, <2>1, <2>2, <3>2
    <3>. QED
      BY <1>3, <2>1, <2>2, <3>1, <3>2
  <2>. QED
    BY <2>1, <2>2 DEF First
<1>8. First(O, first) = {r \in M : \A s \in M : s.observed <= r.observed}
  BY <1>6, <1>7
<1>. QED
  BY <1>1, <1>8

\* Rows of one series whose revisions become available in their order.
InOrder(O) ==
    /\ \A r \in O : /\ r.observed \in Int /\ r.revision \in Int /\ r.available \in Int
                    /\ Vintage(r) \in Int /\ r.recorded \in Int /\ r.id \in Int
    /\ \A r, s \in O :
          /\ r.series = s.series
          /\ r.observed = s.observed /\ r.revision >= s.revision => r.available >= s.available
          /\ r.observed = s.observed /\ r.revision = s.revision => Vintage(r) = Vintage(s)

LEMMA MacroAgrees ==
    ASSUME NEW O, IsFiniteSet(O), InOrder(O)
    PROVE  LET M == Qualify(O, [r \in O |-> <<r.series, r.observed>>],
                            [r \in O |-> <<r.available, r.revision, Vintage(r), r.recorded, r.id>>])
           IN  First(O, [r \in O |-> <<r.observed, r.revision, r.available, r.recorded, r.id>>])
                  = {r \in M : \A s \in M : s.observed <= r.observed}
<1> DEFINE Key(r) == <<r.observed, r.revision, r.available, r.recorded, r.id>>
           Order(r) == <<r.available, r.revision, Vintage(r), r.recorded, r.id>>
<1>1. /\ \A r \in O : /\ r.observed \in Int /\ r.revision \in Int /\ r.available \in Int
                       /\ Vintage(r) \in Int /\ r.recorded \in Int /\ r.id \in Int
      /\ \A r, s \in O :
            /\ r.series = s.series
            /\ r.observed = s.observed /\ r.revision >= s.revision => r.available >= s.available
            /\ r.observed = s.observed /\ r.revision = s.revision => Vintage(r) = Vintage(s)
  BY DEF InOrder
<1>2. ASSUME NEW r \in O, NEW s \in O, s.observed = r.observed
      PROVE  Exceeds(Key(s), Key(r)) <=> Exceeds(Order(s), Order(r))
  <2>1. /\ r.revision >= s.revision => r.available >= s.available
        /\ s.revision >= r.revision => s.available >= r.available
        /\ r.revision = s.revision => Vintage(r) = Vintage(s)
    BY <1>1, <1>2
  <2>. QED
    BY <1>1, <1>2, <2>1, SameOrder, Zenon
<1>3. ASSUME NEW r \in O, NEW s \in O
      PROVE  /\ s.observed > r.observed => Exceeds(Key(s), Key(r))
             /\ Exceeds(Key(s), Key(r)) => s.observed > r.observed \/ s.observed = r.observed
  BY FiveExceed
<1>4. PICK first, by, order :
         /\ first = [r \in O |-> Key(r)] /\ order = [r \in O |-> Order(r)]
         /\ by = [r \in O |-> <<r.series, r.observed>>]
  OBVIOUS
<1>5. \A r \in O : Numbers(Order(r), 5)
  BY <1>1, FiveNumbers
<1>6. \A r \in O : first[r] = Key(r) /\ order[r] = Order(r) /\ by[r] = <<r.series, r.observed>>
  BY <1>4
<1>7. \A r, s \in O : by[s] = by[r] <=> s.observed = r.observed
  BY <1>1, <1>6, TwoEqual
<1>. HIDE DEF Key, Order
<1>8. SameReading(O, first, by, order)
  <2>1. \A r \in O : r.observed \in Int /\ Numbers(order[r], 5)
    BY <1>1, <1>5, <1>6
  <2>2. \A r, s \in O : s.observed = r.observed
                            => (Exceeds(first[s], first[r]) <=> Exceeds(order[s], order[r]))
    BY <1>2, <1>6
  <2>3. \A r, s \in O : s.observed > r.observed => Exceeds(first[s], first[r])
    BY <1>3, <1>6
  <2>4. \A r, s \in O : Exceeds(first[s], first[r]) => s.observed > r.observed \/ s.observed = r.observed
    BY <1>3, <1>6
  <2>. QED
    BY <1>7, <2>1, <2>2, <2>3, <2>4 DEF SameReading
<1>9. First(O, first) = {r \in Qualify(O, by, order) :
                            \A s \in Qualify(O, by, order) : s.observed <= r.observed}
  BY <1>8, NewestQualifies, Zenon
<1>. QED
  BY <1>4, <1>9, Zenon DEF Key, Order

-----------------------------------------------------------------------------
(***************************************************************************)
(* What is committed is finite, and every row of it is a row of a batch of *)
(* the theme and when it was recorded.                                     *)
(***************************************************************************)
CommittedOfTheme ==
    /\ IsFiniteSet(CommittedParts)
    /\ \A part \in CommittedParts : \A r \in part :
          \E q \in UNION Batches[theme], n \in Nat : r = Extended([recorded |-> n], q)

LEMMA CommittedOfThemeInit == ASSUME Init PROVE CommittedOfTheme
<1>1. \A d \in Datasets : manifests[d].parts \cup torn[d] = {}
  BY DEF Init
<1>2. CommittedParts = {}
  BY <1>1 DEF CommittedParts
<1>. QED
  BY <1>2, FS_EmptySet DEF CommittedOfTheme

LEMMA CommittedOfThemeStep ==
    ASSUME ReaderInv, CommittedOfTheme, [Next]_vars
    PROVE  CommittedOfTheme'
<1>1. theme' = theme
  BY Zenon DEF Next, vars, Tick, Publish, LosePart, TearManifest, BeginRegister, ReadManifest, VerifyParts, Ask,
               GiveUp
<1>2. ASSUME NEW batch \in Batches[theme], Publish(batch)
      PROVE  CommittedOfTheme'
  <2>1. PICK part : /\ CommittedParts' = CommittedParts \cup {part}
                    /\ part = {Extended([recorded |-> now], r) : r \in batch}
    BY <1>2, PartAdded
  <2>2. IsFiniteSet(CommittedParts')
    BY <2>1, FS_AddElement DEF CommittedOfTheme
  <2>3. now \in Nat
    BY DEF ReaderInv, StoreTypeOK
  <2>4. \A r \in part : \E q \in UNION Batches[theme], n \in Nat : r = Extended([recorded |-> n], q)
    BY <2>1, <2>3
  <2>. QED
    BY <1>1, <2>1, <2>2, <2>4 DEF CommittedOfTheme
<1>3. CASE CommittedParts' = CommittedParts
  BY <1>1, <1>3 DEF CommittedOfTheme
<1>. QED
  BY <1>2, <1>3, CommittedChanges

LEMMA CommittedIsFinite == ASSUME ReaderInv, CommittedOfTheme PROVE IsFiniteSet(AllCommitted)
<1>1. \A part \in CommittedParts : IsFiniteSet(part)
  BY DEF ReaderInv, CountsTell, Counted, CommittedParts
<1>2. IsFiniteSet(UNION CommittedParts)
  BY <1>1, FS_UNION DEF CommittedOfTheme
<1>. QED
  BY <1>2, CommittedRows DEF RowsOf

LEMMA RecordedSays ==
    \A n, q : LET r == Extended([recorded |-> n], q) IN
              r.recorded = n /\ \A x \in DOMAIN q : x # "recorded" => r[x] = q[x]
BY DEF Extended

MacroRows == {q \in UNION Batches["observations"] : q.of = "macro"}

\* A committed macro row says what a row of a batch says.
LEMMA MacroRowSays ==
    ASSUME ReaderInv, CommittedOfTheme, RevisionsInOrder, theme = "observations",
           NEW r \in Of(AllCommitted, "macro")
    PROVE  /\ \E q \in MacroRows : /\ r.observed = q.observed /\ r.series = q.series
                                   /\ r.revision = q.revision /\ r.available = q.available
                                   /\ Vintage(r) = Vintage(q)
           /\ r.observed \in Int /\ r.revision \in Int /\ r.available \in Int
           /\ Vintage(r) \in Int /\ r.recorded \in Int /\ r.id \in Int
           /\ Vintage(r) <= r.available \/ Vintage(r) = -1
<1>1. "observations" \in DOMAIN Batches
  BY DEF ReaderInv, StoreTypeOK
<1>2. r.of = "macro" /\ \E part \in CommittedParts : r \in part
  BY CommittedRows DEF Of, RowsOf
<1>3. PICK q \in UNION Batches["observations"], n \in Nat : r = Extended([recorded |-> n], q)
  BY <1>2 DEF CommittedOfTheme
<1>4. /\ {"id", "of", "revision", "available"} \subseteq DOMAIN q
      /\ q.id \in Int /\ q.revision \in Int /\ q.available \in Int
  BY <1>1, BatchesAssumption
<1>5. r.recorded = n /\ \A x \in DOMAIN q : x # "recorded" => r[x] = q[x]
  BY <1>3, RecordedSays
<1>6. r.of = q.of /\ r.id = q.id /\ r.revision = q.revision /\ r.available = q.available
  BY <1>4, <1>5
<1>7. q \in MacroRows
  BY <1>2, <1>6 DEF MacroRows
<1>8. /\ {"series", "observed"} \subseteq DOMAIN q
      /\ q.observed \in Int
      /\ q.vintage # None => q.vintage <= q.available
  BY <1>1, <1>7 DEF RevisionsInOrder, MacroRows
<1>9. /\ "vintage" \in DOMAIN q
      /\ q.vintage # None => q.vintage \in Int
  BY <1>1, <1>7, SeriesAssumption DEF MacroRows
<1>10. r.observed = q.observed /\ r.series = q.series /\ r.vintage = q.vintage
  BY <1>5, <1>8, <1>9
<1>11. /\ Vintage(r) = Vintage(q)
       /\ Vintage(q) \in Int
       /\ Vintage(q) <= q.available \/ Vintage(q) = -1
  BY <1>4, <1>8, <1>9, <1>10 DEF Vintage
<1>. QED
  BY <1>4, <1>5, <1>6, <1>7, <1>8, <1>10, <1>11

(***************************************************************************)
(* The two readers agree.  At one decision the row of the snapshot is the  *)
(* newest of the rows of point_in_time_inputs.                             *)
(***************************************************************************)
LEMMA ReadersAgree ==
    ASSUME ReaderInv, CommittedOfTheme, RevisionsInOrder, theme = "observations"
    PROVE  SnapshotAgreesWithInputs
<1> DEFINE rows == AllCommitted
<1>. SUFFICES ASSUME NEW decision \in 0..now
              PROVE  LET snapshot == ResearchSnapshot(Of(rows, "prices"), Of(rows, "fundamentals"),
                                                      Of(rows, "macro"), decision)
                         macro == MacroInputs(Of(rows, "macro"), decision)
                     IN  /\ snapshot.fundamental
                              \subseteq FundamentalInputs(Of(rows, "fundamentals"), decision)
                         /\ snapshot.macro = {r \in macro : \A s \in macro : s.observed <= r.observed}
  BY Zenon DEF SnapshotAgreesWithInputs
<1>1. decision \in Nat
  BY DEF ReaderInv, StoreTypeOK
<1>2. PICK O : O = Eligible(Of(AllCommitted, "macro"), decision)
  OBVIOUS
<1>3. O \subseteq Of(AllCommitted, "macro") /\ \A r \in O : r.available <= decision
  BY <1>2 DEF Eligible
<1>4. IsFiniteSet(O)
  BY <1>3, CommittedIsFinite, FS_Subset DEF Of
<1>5. \A r \in O : /\ r.observed \in Int /\ r.revision \in Int /\ r.available \in Int
                   /\ Vintage(r) \in Int /\ r.recorded \in Int /\ r.id \in Int
  BY <1>3, MacroRowSays
<1>6. ASSUME NEW r \in O, NEW s \in O
      PROVE  /\ r.series = s.series
             /\ r.observed = s.observed /\ r.revision >= s.revision => r.available >= s.available
             /\ r.observed = s.observed /\ r.revision = s.revision => Vintage(r) = Vintage(s)
  <2>1. PICK q \in MacroRows : /\ r.observed = q.observed /\ r.series = q.series
                               /\ r.revision = q.revision /\ r.available = q.available
                               /\ Vintage(r) = Vintage(q)
    BY <1>3, MacroRowSays
  <2>2. PICK t \in MacroRows : /\ s.observed = t.observed /\ s.series = t.series
                               /\ s.revision = t.revision /\ s.available = t.available
                               /\ Vintage(s) = Vintage(t)
    BY <1>3, MacroRowSays
  <2>3. /\ q.series = t.series
        /\ q.observed = t.observed /\ q.revision >= t.revision => q.available >= t.available
        /\ q.observed = t.observed /\ q.revision = t.revision => q = t
    BY DEF RevisionsInOrder, MacroRows, ReaderInv, StoreTypeOK
  <2>. QED
    BY <2>1, <2>2, <2>3
<1>7. InOrder(O)
  BY <1>5, <1>6 DEF InOrder
<1>8. {r \in O : Vintage(r) <= decision} = O
  <2>1. ASSUME NEW r \in O PROVE Vintage(r) <= decision
    <3>1. /\ r.available \in Int /\ Vintage(r) \in Int /\ r.available <= decision
          /\ Vintage(r) <= r.available \/ Vintage(r) = -1
      BY <1>3, MacroRowSays
    <3>. QED
      BY <1>1, <3>1
  <2>. QED
    BY <2>1
<1>9. PICK macro : macro = MacroInputs(Of(AllCommitted, "macro"), decision)
  OBVIOUS
<1>10. macro = Qualify(O, [r \in O |-> <<r.series, r.observed>>],
                       [r \in O |-> <<r.available, r.revision, Vintage(r), r.recorded, r.id>>])
  BY <1>2, <1>8, <1>9, Zenon DEF MacroInputs
<1>11. LET M == Qualify(O, [r \in O |-> <<r.series, r.observed>>],
                        [r \in O |-> <<r.available, r.revision, Vintage(r), r.recorded, r.id>>])
       IN  First(O, [r \in O |-> <<r.observed, r.revision, r.available, r.recorded, r.id>>])
              = {r \in M : \A s \in M : s.observed <= r.observed}
  BY <1>4, <1>7, MacroAgrees, Zenon
<1>12. PICK snapshot : snapshot = ResearchSnapshot(Of(AllCommitted, "prices"), Of(AllCommitted, "fundamentals"),
                                                  Of(AllCommitted, "macro"), decision)
  OBVIOUS
<1>13. snapshot.macro = First(O, [r \in O |-> <<r.observed, r.revision, r.available, r.recorded, r.id>>])
  BY <1>2, <1>12 DEF ResearchSnapshot
<1>14. snapshot.macro = {r \in macro : \A s \in macro : s.observed <= r.observed}
  BY <1>13, <1>10, <1>11
<1>15. snapshot.fundamental \subseteq FundamentalInputs(Of(AllCommitted, "fundamentals"), decision)
  <2>1. PICK reported : reported = {r \in Eligible(Of(AllCommitted, "fundamentals"), decision) : r.period <= decision}
    OBVIOUS
  <2>2. snapshot.fundamental = First(reported, [r \in reported |->
                                  <<r.available, r.period, r.revision, r.recorded, r.id>>])
    BY <1>12, <2>1 DEF ResearchSnapshot
  <2>3. FundamentalInputs(Of(AllCommitted, "fundamentals"), decision)
           = Qualify(reported, [r \in reported |-> <<r.series, r.period>>],
                     [r \in reported |-> <<r.available, r.revision, r.recorded, r.id>>])
    BY <2>1, Zenon DEF FundamentalInputs
  <2>. QED
    BY <2>2, <2>3, FundamentalAgrees, Zenon
<1>. QED
  BY <1>9, <1>12, <1>14, <1>15, Zenon

\* The two readers agree for every batch of observations whose revisions become available in their
\* order: the macro row of the snapshot is the newest of the inputs at its decision.
THEOREM SnapshotsAgree == Spec => [](RevisionsInOrder => SnapshotAgreesWithInputs)
<1>1. Init => CommittedOfTheme
  BY CommittedOfThemeInit
<1>2. ReaderInv /\ CommittedOfTheme /\ [Next]_vars => CommittedOfTheme'
  BY CommittedOfThemeStep
<1>3. ReaderInv /\ CommittedOfTheme => (RevisionsInOrder => SnapshotAgreesWithInputs)
  <2>1. CASE theme = "observations"
    BY <2>1, ReadersAgree
  <2>2. CASE theme # "observations"
    BY <2>2 DEF SnapshotAgreesWithInputs
  <2>. QED
    BY <2>1, <2>2
<1>. QED
  BY <1>1, <1>2, <1>3, ReadersInductive, PTL DEF Spec

===============================================================================
