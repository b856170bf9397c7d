------------------------------ MODULE Historical ------------------------------
(***************************************************************************)
(* The resolvers of python/research/historical.py: which assertion about   *)
(* an identifier, a listing, a membership, a corporate action or a trading *)
(* session holds at a moment of the world, as far as it could be known at  *)
(* a decision.                                                             *)
(*                                                                         *)
(* Every stored assertion is a row with the instant it became available,   *)
(* its revision and the instant it was recorded; a correction is a further *)
(* row.  A resolver returns a set of rows or refuses, as the code raises   *)
(* AmbiguousHistoricalResolution.                                          *)
(***************************************************************************)
EXTENDS Integers, FiniteSets

CONSTANT None        \* an open end, an absent instant

\* What f says, and g where f says nothing (@@ of TLC, which has no definition for a proof).
Extended(f, g) == [x \in DOMAIN f \cup DOMAIN g |-> IF x \in DOMAIN f THEN f[x] ELSE g[x]]

Found(rows) == [refused |-> FALSE, rows |-> rows]
Refused == [refused |-> TRUE, rows |-> {}]

IntervalContains(row, asOf) ==
    row.from <= asOf /\ (row.until # None => asOf < row.until)

Known(rows, decision) == {r \in rows : r.available <= decision}

\* The order of the corrections: available, then revision, then recorded.
RanksAbove(r, s) ==
    \/ r.available > s.available
    \/ r.available = s.available /\ r.revision > s.revision
    \/ r.available = s.available /\ r.revision = s.revision /\ r.recorded > s.recorded

Leaders(rows) == {r \in rows : \A s \in rows : ~RanksAbove(s, r)}

\* What a row asserts, or whom it is about, is a function of the rows.
SelectLatest(rows, identity) ==
    LET top == Leaders(rows) IN
    IF Cardinality({identity[r] : r \in top}) > 1
    THEN Refused
    ELSE Found({r \in top : \A s \in top : s.id <= r.id})

\* The latest knowable correction of every family of assertions.
CollapseRevisions(rows, family, assertion) ==
    LET latest == {SelectLatest({r \in rows : family[r] = f}, assertion) :
                      f \in {family[r] : r \in rows}}
    IN  IF \E l \in latest : l.refused
        THEN Refused
        ELSE Found(UNION {l.rows : l \in latest})

-----------------------------------------------------------------------------
(***************************************************************************)
(* Interval assertions.  `key' is what the assertion is about (the scoped  *)
(* ticker; the security and the MIC; the universe and the security) and    *)
(* `value' what it says (the security; the issuer, the currency and        *)
(* whether the listing is primary; whether it is a member).  The family of *)
(* an identifier also has the security it names.                           *)
(***************************************************************************)
Assertions(rows) == [r \in rows |-> <<r.key, r.value, r.from, r.until>>]

Values(rows) == [r \in rows |-> r.value]

\* Faulty variant: the interval is tested before the corrections are collapsed.
ResolveInForce(known, family, asOf) ==
    LET collapsed == CollapseRevisions({r \in known : IntervalContains(r, asOf)}, family,
                                       Assertions(known))
    IN  IF collapsed.refused THEN Refused
        ELSE SelectLatest(collapsed.rows, Values(known))

Resolve(known, family, asOf) ==
    LET collapsed == CollapseRevisions(known, family, Assertions(known))
    IN  IF collapsed.refused
        THEN Refused
        ELSE SelectLatest({r \in collapsed.rows : IntervalContains(r, asOf)}, Values(known))

\* Faulty variant: every stored row of the key is a candidate.
EverRecorded(rows, key, decision) == {r \in rows : r.key = key}

About(rows, key, decision) == {r \in Known(rows, decision) : r.key = key}

SecurityIdentifierAsOf(rows, ticker, asOf, decision) ==
    LET known == About(rows, ticker, decision) IN
    Resolve(known, [r \in known |-> <<r.value, r.key, r.from>>], asOf)

ListingAsOf(rows, key, asOf, decision) ==
    LET known == About(rows, key, decision) IN
    Resolve(known, [r \in known |-> <<r.key, r.from>>], asOf)

MembershipAsOf(rows, security, asOf, decision) ==
    LET known == About(rows, security, decision) IN
    Resolve(known, [r \in known |-> <<r.key, r.from>>], asOf)

\* One refusal refuses the whole list.
All(answers) ==
    IF \E a \in answers : a.refused
    THEN Refused
    ELSE Found(UNION {a.rows : a \in answers})

ListingsAsOf(rows, asOf, decision) ==
    All({ListingAsOf(rows, k, asOf, decision) : k \in {r.key : r \in rows}})

UniverseAsOf(rows, asOf, decision) ==
    LET members == All({MembershipAsOf(rows, k, asOf, decision) : k \in {r.key : r \in rows}})
    IN  [members EXCEPT !.rows = {r \in @ : r.value = TRUE}]

-----------------------------------------------------------------------------
(***************************************************************************)
(* Calendars.  A manifest is ranked without a revision.  A session row is  *)
(* open, with both instants, or closed, with neither.                      *)
(***************************************************************************)
CalendarManifestAsOf(rows, decision) ==
    LET known == Known(rows, decision)
        top == {r \in known : \A s \in known :
                   \/ s.available < r.available
                   \/ s.available = r.available /\ s.recorded <= r.recorded}
    IN  IF Cardinality({<<r.id, r.version>> : r \in top}) > 1 THEN Refused ELSE Found(top)

CalendarRowMatches(row, decision) ==
    row.open /\ row.opens # None /\ row.closes # None /\ row.available <= decision

SessionIdentity(rows) == [r \in rows |-> <<r.open, r.opens, r.closes>>]

TradingSessionAt(rows, moment, decision) ==
    SelectLatest({r \in rows : /\ CalendarRowMatches(r, decision)
                               /\ r.opens <= moment /\ moment < r.closes},
                 SessionIdentity(rows))

NextTradingSession(rows, after, decision) ==
    LET matches == {r \in rows : CalendarRowMatches(r, decision) /\ r.opens > after}
        byDate == All({SelectLatest({r \in matches : r.date = d}, SessionIdentity(matches)) :
                          d \in {r.date : r \in matches}})
    IN  [byDate EXCEPT !.rows = {r \in @ : \A s \in @ : r.opens <= s.opens}]

AfterCloseExecutionSession(rows, decision) ==
    LET inside == TradingSessionAt(rows, decision, decision) IN
    IF inside.refused \/ inside.rows # {}
    THEN Refused
    ELSE NextTradingSession(rows, decision, decision)

-----------------------------------------------------------------------------
\* Corporate actions: one row per event, the cancelled ones left out.
CorporateActionsAsOf(rows, decision) ==
    LET known == Known(rows, decision)
        selected == CollapseRevisions(known, [r \in known |-> r.event],
                        [r \in known |-> <<r.event, r.status, r.type, r.observed, r.effective,
                                           r.post, r.pre, r.cash>>])
    IN  [selected EXCEPT !.rows = {r \in @ : r.status # "cancelled"}]
=============================================================================
