---------------------------- MODULE MCPointInTime ----------------------------
(***************************************************************************)
(* Small themes for TLC.  A trading session opens on an even unit of time  *)
(* and closes on the next one; bars, actions and fixings are dated by the  *)
(* unit itself.                                                            *)
(***************************************************************************)
EXTENDS PointInTime, TLC

Assertion(of, id, key, value, from, until, available, revision) ==
    [of |-> of, id |-> id, key |-> key, value |-> value, from |-> from, until |-> until,
     available |-> available, revision |-> revision]

\* A ticker that names s1, is ended by a correction, and goes on to name s2.
IdentifierBatches ==
    {{Assertion("identifiers", 1, "t", "s1", 0, None, 0, 0)},
     {Assertion("identifiers", 2, "t", "s1", 0, 2, 1, 1)},
     {Assertion("identifiers", 3, "t", "s2", 2, None, 2, 0)},
     {Assertion("identifiers", 4, "t", "s2", 0, None, 0, 0)}}

ListingBatches ==
    {{Assertion("listings", 1, "XNAS", "i1", 0, None, 0, 0),
      Assertion("listings", 2, "BVMF", "i1", 1, None, 1, 0)},
     {Assertion("listings", 3, "XNAS", "i1", 0, 1, 2, 1)},
     {Assertion("listings", 4, "XNAS", "i2", 1, None, 2, 0)},
     {Assertion("listings", 5, "XNAS", "i2", 1, None, 3, 0)}}

MembershipBatches ==
    {{Assertion("memberships", 1, "s1", TRUE, 0, None, 0, 0)},
     {Assertion("memberships", 2, "s1", TRUE, 0, 2, 1, 1)},
     {Assertion("memberships", 3, "s1", FALSE, 1, None, 2, 0),
      Assertion("memberships", 4, "s2", TRUE, 1, 3, 1, 0)},
     {Assertion("memberships", 5, "s2", FALSE, 1, 3, 1, 0)}}

SessionRow(id, date, open, available, revision) ==
    [of |-> "sessions", id |-> id, date |-> date, open |-> open,
     opens  |-> IF open THEN 2 * date ELSE None,
     closes |-> IF open THEN 2 * date + 1 ELSE None,
     available |-> available, revision |-> revision]

CalendarBatches ==
    {{SessionRow(1, 0, TRUE, 0, 0), SessionRow(2, 1, TRUE, 0, 0)},
     {SessionRow(3, 2, TRUE, 1, 0)},
     {SessionRow(4, 1, FALSE, 1, 1)},
     {[of |-> "calendars", id |-> 5, version |-> "v1", available |-> 0, revision |-> 0]},
     {[of |-> "calendars", id |-> 6, version |-> "v2", available |-> 1, revision |-> 0]}}

Observed(of, id, observed, available, revision) ==
    [of |-> of, id |-> id, series |-> "s", concept |-> "revenue", fiscal |-> 4,
     observed |-> observed, period |-> observed, available |-> available, revision |-> revision,
     vintage |-> IF of = "macro" /\ revision > 0 THEN available ELSE None]

ObservationBatches ==
    {{Observed("macro", 1, 0, 0, 0), Observed("macro", 3, 1, 1, 0)},
     {Observed("macro", 2, 0, 2, 1)},
     {Observed("macro", 4, 1, 3, 1), Observed("macro", 8, 0, 3, 2)},
     {Observed("fundamentals", 5, 0, 1, 0), Observed("fundamentals", 6, 1, 2, 0)},
     {Observed("prices", 7, 0, 1, 0)}}

FilingRow(id, observed, available, cad) ==
    [of |-> "filings", id |-> id, observed |-> observed, available |-> available, cad |-> cad,
     revision |-> 0]

FilingBatches ==
    {{FilingRow(1, None, 1, FALSE)}, {FilingRow(2, 1, 2, FALSE)}, {FilingRow(3, 0, 0, TRUE)}}

Fixing(id, at, sell) ==
    [of |-> "fx", id |-> id, fixing |-> at, available |-> at, buy |-> 4, sell |-> sell,
     revision |-> 0]

FixingBatches == {{Fixing(1, 1, 5)}, {Fixing(2, 2, 6)}, {Fixing(3, 3, 5)}, {Fixing(4, 1, 6)}}

Price(id, observed, close) ==
    [of |-> "prices", id |-> id, series |-> "s", observed |-> observed, available |-> observed + 1,
     revision |-> 0, close |-> <<close, 1>>]

Action(id, event, revision, available, day, status, type, post, cash) ==
    [of |-> "actions", id |-> id, event |-> event, revision |-> revision, available |-> available,
     observed |-> day, effective |-> day, status |-> status, type |-> type,
     post |-> post, pre |-> 1, cash |-> cash]

\* A split and a dividend that change places, and the dividend is cancelled.
AdjustmentBatches ==
    {{Price(1, 0, 24), Price(2, 1, 10)},
     {Action(3, "split", 0, 1, 1, "active", "split", 2, 0),
      Action(4, "dividend", 0, 1, 2, "active", "cash_dividend", 1, 4)},
     {Action(5, "split", 1, 2, 2, "active", "split", 3, 0),
      Action(6, "dividend", 1, 2, 1, "active", "cash_dividend", 1, 4)},
     {Action(7, "dividend", 2, 3, 1, "cancelled", "cash_dividend", 1, 4)}}

MCBatches == [identifiers |-> IdentifierBatches, listings |-> ListingBatches,
              memberships |-> MembershipBatches, calendars |-> CalendarBatches,
              observations |-> ObservationBatches, filings |-> FilingBatches,
              fixings |-> FixingBatches, adjustments |-> AdjustmentBatches]

\* Files are damaged in the themes that read several datasets or the fewest rows.
MCDamage == [t \in DOMAIN MCBatches |-> IF t \in {"filings", "adjustments"} THEN 1 ELSE 0]

MCMaxTime == [t \in DOMAIN MCBatches |-> 3]

MCKeys == [t \in DOMAIN MCBatches |->
              CASE t = "identifiers" -> {"t"}
                [] t = "filings"     -> {"historical", "installation_replay"}
                [] OTHER             -> {"all"}]

\* The hypothesis of the theorem about the two readers of the observations.
ASSUME RevisionsInOrderHere == RevisionsInOrder
=============================================================================
