--------------------------- MODULE MCPaperAccount ---------------------------
(***************************************************************************)
(* Small instances of PaperAccount: a local and a foreign security, three  *)
(* sessions in two weeks (decide; settle and decide; settle, and decide if *)
(* the second session did not), an opening price above the close the order *)
(* was sized at, and one below the charges on a sale.                      *)
(***************************************************************************)
EXTENDS PaperAccount

ThreeSessions == 1..3
Weeks         == <<1, 2, 2>>

OpenPrices  == << <<2, 2>>, <<2, 2>>, <<3, 1>> >>
ClosePrices == << <<2, 2>>, <<2, 2>>, <<2, 2>> >>

\* Buy one, both, or more than there is cash for; then buy, keep or sell; last a
\* target that is refused.
PlansBySession ==
    << { <<1, 1>>, <<0, 3>>, <<1, 0>>, <<1, 3>> }, { <<1, 1>>, <<0, 2>>, <<0, 0>> }, { <<1, 2>> } >>

RefusedPlans == { <<1, 2>> }

DelistingAndSplit ==
    { [session |-> 3, security |-> 1, growth |-> -1, cash |-> 2],
      [session |-> 3, security |-> 2, growth |-> 1, cash |-> 0] }

\* A close is missing in the last session, for a security bought in it.
MissingClose == { [session |-> 3, bundle |-> 1, phase |-> "value", security |-> 1] }

-----------------------------------------------------------------------------
(***************************************************************************)
(* The instance of the violation, where the operator approves.             *)
(***************************************************************************)
Dividend == { [session |-> 3, security |-> 2, growth |-> 0, cash |-> 1] }

MissingOpen == { [session |-> 3, bundle |-> 1, phase |-> "settle", security |-> 1] }

-----------------------------------------------------------------------------
(***************************************************************************)
(* Two instances of interrupted conversions, in which the code breaks      *)
(* ConversionsAreComplete and ForeignCashIsCovered: one foreign security,  *)
(* bought in every session.  In one the next session is run before the     *)
(* interrupted one is run again, and a dividend makes up for the shortfall *)
(* in between; in the other a session is decided with two input bundles.   *)
(***************************************************************************)
FourSessions == 1..4

EverySession(n) == [s \in 1..n |-> 0]

TwoEach(n) == [s \in 1..n |-> <<2>>]

Growing == << {<<1>>}, {<<2>>}, {<<2>>}, {<<2>>} >>

DailyFour   == EverySession(4)
PricesFour  == TwoEach(4)

LateDividend == { [session |-> 4, security |-> 1, growth |-> 0, cash |-> 4] }

TwoSessions == 1..2

DailyTwo  == EverySession(2)
PricesTwo == TwoEach(2)

OneUnit == << {<<1>>}, {<<1>>} >>

Nothing == {}

=============================================================================
