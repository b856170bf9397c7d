---------------------------- MODULE PaperAccount ----------------------------
(***************************************************************************)
(* One paper account of python/research/paper.py: create_paper_account,    *)
(* run_paper_session with corporate actions, settlement, valuation and     *)
(* decision, and approve_paper_decision, over a ledger of events.          *)
(* Appending one event is one step here (PaperLedger takes it apart).  A   *)
(* command may die between any two events; the operator runs sessions in   *)
(* any order and again, with any input bundle, and answers a decision at   *)
(* any time, since answering takes no lock.                                *)
(*                                                                         *)
(* Securities are numbered in the order of their ids.  Amounts are whole   *)
(* units and every exchange rate is 1: what matters is which currency an   *)
(* amount is in and when it is booked.                                     *)
(***************************************************************************)
EXTENDS Integers, Sequences, FiniteSets, Functions

CONSTANTS
    Sessions,     \* 1..n, the sessions of the account's calendar
    Bundles,      \* the input bundles a session can be run with
    Securities,   \* 1..n
    Foreign,      \* the securities not traded in the base currency
    Open, Close,  \* [Sessions -> [Securities -> Nat]]: prices
    Period,       \* [Sessions -> Nat]: the week or month of a rebalance, or 0 for
                  \*    one in every session
    Actions,      \* [session, security, growth, cash]: corporate actions, by what
                  \*    they add per unit: a split 1 and 0, a dividend 0 and its
                  \*    amount, a delisting -1 and its settlement price
    Gaps,         \* [session, bundle, phase, security]: data a bundle lacks
    InitialCash,
    Fee, Tax,     \* the charges on an order
    Plans,        \* [Sessions -> SUBSET [Securities -> Nat]]: what the strategy may ask for
    Refused,      \* the quantities another rule of the risk policy rejects
    Answered,     \* bound on the sessions whose decisions the operator answers
    MaxCrashes,   \* bound on the commands that die
    AutoApprove,  \* TRUE: approval_policy.mode is "auto"
    None

Decisions == Sessions \X Bundles

Phases == {"create", "actions", "settle", "value", "decide", "report"}

(***************************************************************************)
(* An event.  kind, session, bundle and security are its idempotency key   *)
(* (0 where the key has none; an order is named by its decision and its    *)
(* security); qty is the quantity_delta, or the signed quantity of an      *)
(* order; base and foreign are the amount in either currency; nav is that  *)
(* of a valuation; note is the status in its details, and of a valuation    *)
(* whether its cash_base is negative.                                      *)
(***************************************************************************)
Kinds ==
    {"deposit", "action", "fx", "fx-credit", "fill", "fee", "tax", "valuation", "decision",
     "target", "risk", "order", "no-op", "approval", "halt"}

Notes == {"none", "no_op", "approved", "rejected", "halted", "overdrawn"}

Event ==
    [kind     : Kinds,
     session  : Sessions \cup {0},
     bundle   : Bundles \cup {0},
     security : Securities \cup {0},
     qty      : Int,
     base     : Int,
     foreign  : Int,
     nav      : Nat,
     note     : Notes]

Ev(kind, s, b, x) ==
    [kind |-> kind, session |-> s, bundle |-> b, security |-> x,
     qty |-> 0, base |-> 0, foreign |-> 0, nav |-> 0, note |-> "none"]

Noted(e, note)   == [e EXCEPT !.note = note]
Booked(e, n)     == IF e.security \in Foreign THEN [e EXCEPT !.foreign = n] ELSE [e EXCEPT !.base = n]
SameKey(e, f)    == /\ e.kind = f.kind /\ e.session = f.session
                    /\ e.bundle = f.bundle /\ e.security = f.security

\* The session an event is dated: an order is executed in the session after its decision.
sessionDate(e) ==
    IF e.kind \in {"fx", "fx-credit", "fill", "fee", "tax"} THEN e.session + 1 ELSE e.session

(***************************************************************************)
(* The live command: creating the account, or a session with its position  *)
(* in run_paper_session, the approvals and orders _settle_orders has read, *)
(* and the events it appends next.                                         *)
(***************************************************************************)
Command ==
    [phase    : Phases,
     session  : Sessions \cup {0},
     bundle   : Bundles \cup {0},
     orders   : SUBSET Nat,      \* by their places in the ledger
     queue    : Seq(Event)]

Target == [quantity : [Securities -> Nat], verdict : {"approved", "rejected"},
           held     : [Securities -> Int]]    \* the holdings it was built from

Report == [bundle   : Bundles,
           status   : {"no_op", "proposed", "approved", "rejected", "halted"},
           approval : {"not_required", "pending", "approved", "rejected"}]

ASSUME AccountAssumption ==
    /\ None \notin Command /\ None \notin Target /\ None \notin Report
    /\ Answered \subseteq Sessions /\ Bundles \subseteq Nat \ {0}
    /\ Plans \in [Sessions -> SUBSET [Securities -> Nat]]
    /\ IsFiniteSet(Sessions) /\ IsFiniteSet(Securities)
    /\ Sessions = 1..Cardinality(Sessions) /\ Securities = 1..Cardinality(Securities)
    /\ Open \in [Sessions -> [Securities -> Nat]]
    /\ InitialCash \in Nat /\ Fee \in Nat /\ Tax \in Nat /\ MaxCrashes \in Nat
    /\ \A a \in Actions : /\ a.session \in Sessions /\ a.security \in Securities
                          /\ a.growth \in Int /\ a.growth >= -1
                          /\ a.cash \in Nat

VARIABLES
    account,   \* how far the account directory exists
    ledger,    \* the events, in order
    cash,      \* the sums rebuild_state takes over the ledger: the cash in
    held,      \*    either currency, and the quantity of each security
    targets,   \* the target file of each decision, or None
    reports,   \* the report file of each session, or None
    command,   \* the live command, or None
    crashes

books == <<ledger, cash, held>>
vars  == <<account, books, targets, reports, command, crashes>>

-----------------------------------------------------------------------------
(***************************************************************************)
(* Readings of the ledger.                                                 *)
(***************************************************************************)
Recorded(e)   == \E i \in DOMAIN ledger : SameKey(ledger[i], e)
RecordedAs(e) == \E i \in DOMAIN ledger : ledger[i] = e
Keyed(e)      == {f \in Range(ledger) : SameKey(f, e)}

EventsOf(kind)      == SelectSeq(ledger, LAMBDA e : e.kind = kind)
Latest(kind)        == EventsOf(kind)[Len(EventsOf(kind))]
Answer(d, note)     == Noted(Ev("approval", d[1], d[2], 0), note)

\* _validate_event accepts every event; otherwise events() raises for every command.
Legible == \A i \in DOMAIN ledger : ledger[i].note # "overdrawn"

\* Faulty variant: a decision nobody has rejected counts as approved.
approvedUnlessRejected == {d \in Decisions : ~RecordedAs(Answer(d, "rejected"))}

approved == {d \in Decisions : RecordedAs(Answer(d, "approved"))}

\* The last decision, whatever its status, belongs to another period.
Due(s) ==
    \/ Period[s] = 0 \/ EventsOf("decision") = <<>>
    \/ Period[Latest("decision").session] # Period[s]

\* positions_value at the close of a session.
Value(s, quantity) == FoldFunction(+, 0, [x \in Securities |-> quantity[x] * Close[s][x]])

-----------------------------------------------------------------------------

Start(phase, s, b) ==
    command' = [phase |-> phase, session |-> s, bundle |-> b, orders |-> {}, queue |-> <<>>]

At(phase) == command # None /\ command.phase = phase /\ command.queue = <<>>

\* The command goes on to this phase after appending these events.
Then(phase, events) == command' = [command EXCEPT !.phase = phase, !.queue = events]

\* An error that run_paper_session does not turn into a halt.
Raise == command' = None

Lacks(phase, x) ==
    [session |-> command.session, bundle |-> command.bundle,
     phase |-> phase, security |-> x] \in Gaps

-----------------------------------------------------------------------------

Init ==
    /\ account = "absent"
    /\ ledger = <<>>
    /\ cash = [base |-> 0, foreign |-> 0]
    /\ held = [x \in Securities |-> 0]
    /\ targets = [d \in Decisions |-> None]
    /\ reports = [s \in Sessions |-> None]
    /\ command = None
    /\ crashes = 0

(***************************************************************************)
(* initialize: directories, account.json, an empty manifest, the deposit.  *)
(* A directory in use is refused, an account.json taken for all of it.     *)
(***************************************************************************)
CreateAccount ==
    /\ command = None /\ account = "absent"
    /\ account' = "prepared"
    /\ Start("create", 0, 0)
    /\ UNCHANGED <<books, targets, reports, crashes>>

SpecifyAccount ==
    /\ At("create") /\ account = "prepared"
    /\ account' = "specified"
    /\ UNCHANGED <<books, targets, reports, command, crashes>>

OpenLedger ==
    /\ At("create") /\ account = "specified"
    /\ account' = "open"
    /\ Then("create", <<[Ev("deposit", 0, 0, 0) EXCEPT !.base = InitialCash]>>)
    /\ UNCHANGED <<books, targets, reports, crashes>>

FinishCreation ==
    /\ At("create") /\ account = "open"
    /\ command' = None
    /\ UNCHANGED <<account, books, targets, reports, crashes>>

\* Faulty variant: nobody asks whether the session has a report.
StartSessionAgain(s, b) ==
    /\ command = None /\ account = "open" /\ ledger # <<>> /\ Legible
    /\ Start("actions", s, b)
    /\ UNCHANGED <<account, books, targets, reports, crashes>>

(***************************************************************************)
(* run_paper_session.  With a report there is nothing to do, and without a *)
(* first event, or with one it cannot read, rebuild_state raises.          *)
(***************************************************************************)
StartSession(s, b) ==
    /\ command = None /\ account = "open" /\ ledger # <<>> /\ Legible
    /\ reports[s] = None
    /\ Start("actions", s, b)
    /\ UNCHANGED <<account, books, targets, reports, crashes>>

\* An order is written for what a target changes, and for nothing else.
Book(e) ==
    IF Recorded(e) \/ (e.kind = "order" /\ e.qty = 0) THEN UNCHANGED books
    ELSE /\ ledger' = Append(ledger, e)
         /\ cash' = [base |-> cash.base + e.base, foreign |-> cash.foreign + e.foreign]
         /\ held' = IF e.kind = "order" \/ e.security = 0 THEN held
                    ELSE [held EXCEPT ![e.security] = @ + e.qty]

\* append_event: an event that is there is not repeated, one that differs is an error.
AppendNext ==
    /\ command # None /\ command.queue # <<>>
    /\ LET e == Head(command.queue) IN
       \/ /\ Recorded(e) => RecordedAs(e)
          /\ Book(e)
          /\ command' = [command EXCEPT !.queue = Tail(@)]
       \/ /\ Recorded(e) /\ ~RecordedAs(e)
          /\ Raise
          /\ UNCHANGED books
    /\ UNCHANGED <<account, targets, reports, crashes>>

\* _append_halt, then the report.
Halt ==
    LET decision == Noted(Ev("decision", command.session, command.bundle, 0), "halted") IN
    Then("report", (IF Recorded(decision) THEN <<>> ELSE <<decision>>)
                   \o <<Noted(Ev("halt", command.session, command.bundle, 0), "halted")>>)

(***************************************************************************)
(* _apply_actions: the actions of the session that are not booked yet, in  *)
(* order; without a position they are booked with nothing.                 *)
(***************************************************************************)
ActionEvent(a) ==
    Booked([Ev("action", a.session, 0, a.security) EXCEPT !.qty = held[a.security] * a.growth],
           held[a.security] * a.cash)

DueActions == {a \in Actions : a.session = command.session /\ ~Recorded(ActionEvent(a))}

ApplyAction ==
    /\ At("actions")
    /\ \E a \in DueActions :
          /\ \A b \in DueActions : a.security <= b.security
          /\ IF held[a.security] > 0 /\ Lacks("actions", a.security) THEN Halt
             ELSE Then("actions", <<ActionEvent(a)>>)
    /\ UNCHANGED <<account, books, targets, reports, crashes>>

\* The approvals and the orders _settle_orders will go through.
ReadOrders ==
    /\ At("actions") /\ DueActions = {}
    /\ LET current(e) == /\ e.kind = "order" /\ e.session + 1 = command.session
                         /\ <<e.session, e.bundle>> \in approved
       IN  command' = [command EXCEPT !.phase = "settle",
                                      !.orders = {i \in DOMAIN ledger : current(ledger[i])}]
    /\ UNCHANGED <<account, books, targets, reports, crashes>>

-----------------------------------------------------------------------------
(***************************************************************************)
(* _settle_orders, one order: buys need their price and charges in cash,   *)
(* converting what is missing; sales need the holding.  The events of a    *)
(* settlement are computed before the first of them is written.            *)
(***************************************************************************)
Price(o)    == Open[command.session][o.security]
Trade(o)    == o.qty * Price(o)             \* negative for a sale

\* Faulty variant: the charges are not provided for.
RequiredWithoutCharges(o) == Trade(o)

Required(o) == Trade(o) + Fee + Tax

Funds(o) == IF o.security \in Foreign THEN cash.foreign + cash.base ELSE cash.base

Of(o, kind) == Ev(kind, o.session, o.bundle, o.security)

\* Faulty variant: the credit is booked first.
ConversionCreditFirst(o) ==
    LET shortfall == Required(o) - cash.foreign IN
    IF o.security \in Foreign /\ shortfall > 0
    THEN <<[Of(o, "fx-credit") EXCEPT !.foreign = shortfall], [Of(o, "fx") EXCEPT !.base = -shortfall]>>
    ELSE <<>>

Conversion(o) ==
    LET shortfall == Required(o) - cash.foreign IN
    IF o.security \in Foreign /\ shortfall > 0
    THEN <<[Of(o, "fx") EXCEPT !.base = -shortfall], [Of(o, "fx-credit") EXCEPT !.foreign = shortfall]>>
    ELSE <<>>

Fill(o) == << Booked([Of(o, "fill") EXCEPT !.qty = o.qty], -Trade(o)),
              Booked(Of(o, "fee"), -Fee),
              Booked(Of(o, "tax"), -Tax) >>

SettleOrder ==
    /\ At("settle")
    /\ \E i \in command.orders :
          LET o == ledger[i]
              Next(events) == command' = [command EXCEPT !.orders = @ \ {i}, !.queue = events]
          IN  /\ \A j \in command.orders : i <= j
              /\ IF Recorded(Of(o, "fill")) THEN Next(<<>>)
                 ELSE IF Lacks("settle", o.security) THEN Halt
                 ELSE IF o.qty > 0
                      THEN IF Funds(o) < Required(o) THEN Raise ELSE Next(Conversion(o) \o Fill(o))
                      ELSE IF held[o.security] < -o.qty THEN Raise ELSE Next(Fill(o))
    /\ UNCHANGED <<account, books, targets, reports, crashes>>

\* _append_valuation: once per session, whatever is booked later, and whatever the cash.
AppendValuation ==
    /\ At("settle") /\ command.orders = {}
    /\ LET s == command.session
           nav == cash.base + cash.foreign + Value(s, held)
           sign == IF cash.base + cash.foreign < 0 THEN "overdrawn" ELSE "none"
           valuation == Noted([Ev("valuation", s, 0, 0) EXCEPT !.nav = nav], sign)
       IN  IF \E x \in Securities : held[x] > 0 /\ Lacks("value", x) THEN Halt
           ELSE IF nav \notin Nat \ {0} THEN Raise
           ELSE Then("decide", IF Recorded(valuation) THEN <<>> ELSE <<valuation>>)
    /\ UNCHANGED <<account, books, targets, reports, crashes>>

-----------------------------------------------------------------------------

\* target_orders: the differences, in security order; none in the last session.
Changed(quantity) ==
    IF command.session + 1 \notin Sessions THEN {} ELSE {x \in Securities : quantity[x] # held[x]}

OrdersFor(quantity) ==
    [x \in Securities |-> [Ev("order", command.session, command.bundle, x)
                              EXCEPT !.qty = quantity[x] - held[x]]]

(***************************************************************************)
(* assess_target: what is left of the last valuation pays for the charges  *)
(* (the minimum cash reserve), and no other rule is against it.            *)
(***************************************************************************)
Verdict(quantity) ==
    IF /\ quantity \notin Refused
       /\ Latest("valuation").nav >=
             Value(command.session, quantity) + Cardinality(Changed(quantity)) * (Fee + Tax)
    THEN "approved" ELSE "rejected"

DecisionEvents(target) ==
    LET s == command.session
        b == command.bundle
    IN  << Noted(Ev("decision", s, b, 0), target.verdict), Ev("target", s, b, 0),
           Noted(Ev("risk", s, b, 0), target.verdict) >>
        \o IF target.verdict = "rejected" THEN <<>>
           ELSE IF Changed(target.quantity) = {} THEN <<Ev("no-op", s, b, 0)>>
           ELSE OrdersFor(target.quantity) \o IF AutoApprove THEN <<Answer(<<s, b>>, "approved")>> ELSE <<>>

(***************************************************************************)
(* build_target and write_target, then the events of the decision.  The    *)
(* target is a function of the inputs, the valuation and the holdings; one *)
(* that a dead command has left must say the same.                         *)
(***************************************************************************)
WriteTarget(quantity) ==
    LET d      == <<command.session, command.bundle>>
        target == [quantity |-> quantity, verdict |-> Verdict(quantity), held |-> held]
    IN  /\ targets[d] # None /\ targets[d].held = held => target = targets[d]
        /\ IF targets[d] = None \/ targets[d] = target
           THEN targets' = [targets EXCEPT ![d] = target] /\ Then("report", DecisionEvents(target))
           ELSE UNCHANGED targets /\ Raise

Decide ==
    /\ At("decide")
    /\ LET s == command.session
           b == command.bundle
           unchanged == Noted(Ev("decision", s, b, 0), "no_op")
       IN  IF ~Legible THEN Raise /\ UNCHANGED targets
           ELSE IF Recorded(unchanged) THEN Then("report", <<>>) /\ UNCHANGED targets
           ELSE IF ~Due(s)
                THEN Then("report", <<unchanged, Ev("no-op", s, b, 0)>>) /\ UNCHANGED targets
           ELSE IF \E x \in Securities : Lacks("decide", x) THEN Halt /\ UNCHANGED targets
           ELSE \E quantity \in Plans[s] : WriteTarget(quantity)
    /\ UNCHANGED <<account, books, reports, crashes>>

(***************************************************************************)
(* _report_from_events and write_report.                                   *)
(***************************************************************************)
ReportOf(s, b) ==
    LET decision   == (CHOOSE e \in Keyed(Ev("decision", s, b, 0)) : TRUE).note
        answers    == Keyed(Ev("approval", s, b, 0))
        orders     == UNION {Keyed(Ev("order", s, b, x)) : x \in Securities}
        open       == answers = {} /\ \E o \in orders : ~Recorded(Of(o, "fill"))
    IN  [bundle   |-> b,
         status   |-> IF decision # "approved" THEN decision
                      ELSE IF orders = {} THEN "no_op"
                      ELSE IF open THEN "proposed" ELSE "approved",
         approval |-> IF orders = {} THEN "not_required"
                      ELSE IF answers = {} THEN "pending" ELSE (CHOOSE a \in answers : TRUE).note]

PublishReport ==
    /\ At("report")
    /\ reports' = [reports EXCEPT ![command.session] = ReportOf(command.session, command.bundle)]
    /\ command' = None
    /\ UNCHANGED <<account, books, targets, crashes>>

-----------------------------------------------------------------------------

\* approve_paper_decision, beside whatever command is running.
ApproveDecision(d, answer) ==
    /\ account = "open" /\ Legible
    /\ Recorded(Ev("decision", d[1], d[2], 0)) /\ ~Recorded(Answer(d, answer))
    /\ Book(Answer(d, answer))
    /\ UNCHANGED <<account, targets, reports, command, crashes>>

Die ==
    /\ command # None /\ crashes < MaxCrashes
    /\ command' = None
    /\ crashes' = crashes + 1
    /\ UNCHANGED <<account, books, targets, reports>>

Next ==
    \/ CreateAccount \/ SpecifyAccount \/ OpenLedger \/ FinishCreation
    \/ \E s \in Sessions, b \in Bundles : StartSession(s, b)
    \/ AppendNext \/ ApplyAction \/ ReadOrders \/ SettleOrder \/ AppendValuation
    \/ Decide \/ PublishReport
    \/ \E d \in Answered \X Bundles, answer \in {"approved", "rejected"} : ApproveDecision(d, answer)
    \/ Die

Spec == Init /\ [][Next]_vars

-----------------------------------------------------------------------------

(***************************************************************************)
(* Every value has its type, and no idempotency key is in the ledger       *)
(* twice: append_event looks for it first, even when a dead command has    *)
(* left half of what its successor appends.                                *)
(***************************************************************************)
TypeOK ==
    /\ account \in {"absent", "prepared", "specified", "open"}
    /\ ledger \in Seq(Event)
    /\ \A i, j \in DOMAIN ledger : SameKey(ledger[i], ledger[j]) => i = j
    /\ cash \in [base : Int, foreign : Int] /\ held \in [Securities -> Int]
    /\ targets \in [Decisions -> Target \cup {None}]
    /\ reports \in [Sessions -> Report \cup {None}]
    /\ command = None \/ command \in Command
    /\ crashes \in 0..MaxCrashes

(***************************************************************************)
(* Nothing is traded without an order of the same quantity, of a decision  *)
(* that the risk policy approved and that was then approved by the         *)
(* operator or the account's policy, all recorded before the fill.         *)
(***************************************************************************)
FillsAreAuthorized ==
    \A i \in DOMAIN ledger : ledger[i].kind = "fill" =>
       LET f == ledger[i]
           Before(e) == \E j \in 1..(i - 1) : SameKey(ledger[j], e) /\ ledger[j].qty = e.qty
                                              /\ ledger[j].note = e.note
       IN  /\ Before([Of(f, "order") EXCEPT !.qty = f.qty])
           /\ Before(Noted(Ev("decision", f.session, f.bundle, 0), "approved"))
           /\ Before(Answer(<<f.session, f.bundle>>, "approved"))

(***************************************************************************)
(* No holding is ever negative, and cash is overdrawn by no more than the  *)
(* charges of the sales that brought in less than they cost, for which     *)
(* _settle_orders asks for no cash: not by a purchase or a conversion, not *)
(* between the events of one settlement, nor after one that was cut short. *)
(* As long as no command has died, that holds of the foreign currency too  *)
(* (see ForeignCashIsCovered for what a death can do).                     *)
(***************************************************************************)
Losing(e) == e.kind = "fill" /\ e.qty < 0 /\ e.base + e.foreign < Fee + Tax

LosingSales(securities) ==
    {i \in DOMAIN ledger : Losing(ledger[i]) /\ ledger[i].security \in securities}

Uncovered(securities) == Cardinality(LosingSales(securities)) * (Fee + Tax)

OnlyLossesOverdraw ==
    /\ \A x \in Securities : held[x] >= 0
    /\ cash.base + Uncovered(Securities \ Foreign) >= 0
    /\ crashes = 0 => cash.foreign + Uncovered(Foreign) >= 0

(***************************************************************************)
(* Nothing is credited that was not debited: before the credit of a        *)
(* conversion its debit is in the ledger, of the same amount, although a   *)
(* command may have died between the two and the shortfall of the rerun    *)
(* may be another one.                                                     *)
(***************************************************************************)
CreditsAreDebited ==
    \A i \in DOMAIN ledger : ledger[i].kind = "fx-credit" =>
       \E j \in 1..(i - 1) : /\ SameKey(ledger[j], Of(ledger[i], "fx"))
                             /\ ledger[j].base = -ledger[i].foreign

(***************************************************************************)
(* Once a session has its report, running it again, with whatever inputs,  *)
(* adds nothing to it but the answers of the operator, and the report      *)
(* stays as it is.                                                         *)
(***************************************************************************)
ReportedSessionsAreClosed ==
    [][\A s \in Sessions : reports[s] # None =>
          /\ reports'[s] = reports[s]
          /\ \A i \in DOMAIN ledger' \ DOMAIN ledger :
                sessionDate(ledger'[i]) = s => ledger'[i].kind = "approval"]_vars

(***************************************************************************)
(* What is spent in the foreign currency was converted or earned           *)
(* ("insufficient cash for approved order" otherwise, _settle_orders).     *)
(***************************************************************************)
ForeignCashIsCovered == cash.foreign >= 0

(***************************************************************************)
(* A currency conversion has both its legs in every session that was       *)
(* completed without a halt, even if a command died between them ("recover *)
(* the account without losing or duplicating effects", ADR 0018).          *)
(***************************************************************************)
ConversionsAreComplete ==
    \A i \in DOMAIN ledger :
       LET e == ledger[i]
           s == sessionDate(e)
       IN  (/\ e.kind = "fx" /\ reports[s] # None
            /\ ~Recorded(Ev("halt", s, reports[s].bundle, 0)))
           => Recorded(Of(e, "fx-credit"))

(***************************************************************************)
(* What a completed session has filled, it has charged ("recover the       *)
(* account without losing or duplicating effects", ADR 0018).              *)
(***************************************************************************)
FillsAreCharged ==
    \A i \in DOMAIN ledger :
       LET e == ledger[i] IN
       e.kind = "fill" /\ reports[sessionDate(e)] # None
       => Recorded(Of(e, "fee")) /\ Recorded(Of(e, "tax"))

(***************************************************************************)
(* A ledger that was opened can be read ("rebuild derives positions, cash, *)
(* and NAV from ledger events", docs/how-to-use.md): what append_event     *)
(* writes, _validate_event accepts.  In no run: a sale below its charges   *)
(* that overdraws the account breaks it.                                   *)
(***************************************************************************)
LedgersStayLegible == Legible

=============================================================================
