-------------------------- MODULE PaperAccountProofs --------------------------
(***************************************************************************)
(* Proofs about PaperAccount, for every calendar, every set of bundles and *)
(* securities, all prices, actions, gaps and plans, any number of dead     *)
(* commands, and sessions run in any order: fills are authorized, cash is  *)
(* overdrawn by the charges of losing sales and by nothing else (but the   *)
(* foreign currency after a death), conversions credit what they debited,  *)
(* and reported sessions are closed.                                       *)
(*                                                                         *)
(* The argument: only the live command books trades, so what it has read   *)
(* and computed for the events of one order still holds when they are      *)
(* appended; the operator's answers, which may come in between, carry no   *)
(* money.  An event with a key that is there is skipped or ends the        *)
(* command, which is why a settlement needs its fill to be missing.        *)
(***************************************************************************)
EXTENDS PaperAccount, FiniteSetTheorems, TLAPS

-----------------------------------------------------------------------------
(***************************************************************************)
(* The events of one order.                                                *)
(***************************************************************************)
ApprovedDecision(e) == Noted(Ev("decision", e.session, e.bundle, 0), "approved")
ApprovalOf(e)       == Answer(<<e.session, e.bundle>>, "approved")

Debit(o, n)  == [Of(o, "fx") EXCEPT !.base = -n]
Credit(o, n) == [Of(o, "fx-credit") EXCEPT !.foreign = n]
Filled(o)    == Booked([Of(o, "fill") EXCEPT !.qty = o.qty], -Trade(o))
FeeOf(o)     == Booked(Of(o, "fee"), -Fee)
TaxOf(o)     == Booked(Of(o, "tax"), -Tax)

TradeKinds == {"action", "fx", "fx-credit", "fill", "fee", "tax"}

\* The cash in either currency, without the charges no sale has earned.
BaseReserve    == cash.base + Uncovered(Securities \ Foreign)
ForeignReserve == cash.foreign + Uncovered(Foreign)

\* The cash of the order's currency covers the amount; a foreign one only before a death.
CanPay(o, amount) ==
    IF o.security \in Foreign THEN crashes = 0 => ForeignReserve >= amount
    ELSE BaseReserve >= amount

-----------------------------------------------------------------------------
(***************************************************************************)
(* The inductive invariant: the ledger.                                    *)
(***************************************************************************)

\* The part of a note that belongs to the kind of an event.
NoteFits(e) ==
    /\ e.kind = "decision" => e.note \in {"no_op", "approved", "rejected", "halted"}
    /\ e.kind = "approval" => e.note \in {"approved", "rejected"}
    /\ e.kind = "order" =>
          e.note = "none" /\ e.session \in Sessions /\ e.bundle \in Bundles /\ e.security \in Securities

NotesFit == \A i \in DOMAIN ledger : NoteFits(ledger[i])

\* Every order is for something, and of a decision the risk policy approved.
OrdersAreDecided ==
    \A i \in DOMAIN ledger : ledger[i].kind = "order" =>
       ledger[i].qty # 0 /\ RecordedAs(ApprovedDecision(ledger[i]))

\* As long as no command has died, an order whose conversion was begun is filled or about to be.
ConversionsInHand ==
    crashes = 0 =>
       \A i \in DOMAIN ledger : ledger[i].kind \in {"fx", "fx-credit"} =>
          \/ Recorded(Of(ledger[i], "fill"))
          \/ /\ command # None
             /\ \E k \in DOMAIN command.queue : SameKey(command.queue[k], Of(ledger[i], "fill"))

(***************************************************************************)
(* The inductive invariant: the live command.                              *)
(***************************************************************************)

\* Only the creation of the account has no session; a session that runs has no report.
Located ==
    IF command.phase = "create" THEN command.session = 0
    ELSE command.session \in Sessions /\ command.bundle \in Bundles /\ reports[command.session] = None

\* The orders to settle are approved orders of the session.
OrdersAreApproved ==
    \A i \in command.orders :
       /\ i \in DOMAIN ledger
       /\ ledger[i].kind = "order" /\ ledger[i].session + 1 = command.session
       /\ RecordedAs(ApprovalOf(ledger[i]))

\* A queue without trades: events of the command's session that carry no debit.
Plain(queue) ==
    \A i \in DOMAIN queue :
       LET e == queue[i] IN
       /\ e.kind \notin TradeKinds /\ e.session = command.session
       /\ e.base >= 0 /\ e.foreign >= 0
       /\ e.kind # "order" => e.security = 0
       /\ NoteFits(e)
       /\ e.kind = "order" => \/ RecordedAs(ApprovedDecision(e))
                              \/ \E j \in DOMAIN queue : j < i /\ queue[j] = ApprovedDecision(e)

\* The queue of a corporate action.
Acting(queue) ==
    \E e \in Event :
       /\ queue = <<e>>
       /\ e.kind = "action" /\ e.session = command.session /\ e.security \in Securities
       /\ e.base >= 0 /\ e.foreign >= 0
       /\ held[e.security] + e.qty >= 0

\* What is left of the settlement of an order, and what it still needs.
Fillable(o) ==
    /\ ~Recorded(Of(o, "fill"))
    /\ held[o.security] + o.qty >= 0

Converting(queue, o, n) ==
    /\ queue = <<Debit(o, n), Credit(o, n), Filled(o), FeeOf(o), TaxOf(o)>>
    /\ o.security \in Foreign /\ Fillable(o)
    /\ BaseReserve >= n
    /\ crashes = 0 => /\ ~Recorded(Of(o, "fx")) /\ ~Recorded(Of(o, "fx-credit"))
                      /\ ForeignReserve + n >= Required(o)

Crediting(queue, o, n) ==
    /\ queue = <<Credit(o, n), Filled(o), FeeOf(o), TaxOf(o)>>
    /\ o.security \in Foreign /\ Fillable(o)
    /\ RecordedAs(Debit(o, n))
    /\ crashes = 0 => /\ ~Recorded(Of(o, "fx-credit"))
                      /\ ForeignReserve + n >= Required(o)

Filling(queue, o) ==
    /\ queue = <<Filled(o), FeeOf(o), TaxOf(o)>>
    /\ Fillable(o) /\ (o.qty < 0 \/ CanPay(o, Required(o)))

Charging(queue, o) ==
    \/ queue = <<FeeOf(o), TaxOf(o)>> /\ CanPay(o, Fee + Tax)
    \/ queue = <<TaxOf(o)>> /\ CanPay(o, Tax)

Settling(queue) ==
    \E o \in Event :
       /\ o.kind = "order" /\ o.session + 1 = command.session
       /\ RecordedAs(o) /\ RecordedAs(ApprovalOf(o))
       /\ \/ \E n \in Nat : Converting(queue, o, n) \/ Crediting(queue, o, n)
          \/ Filling(queue, o)
          \/ Charging(queue, o)

QueueFits == Plain(command.queue) \/ Acting(command.queue) \/ Settling(command.queue)

\* The decision a report will speak of is in the ledger, or comes first.
Reportable ==
    command.phase = "report" =>
       LET decision == Ev("decision", command.session, command.bundle, 0) IN
       \/ Recorded(decision)
       \/ command.queue # <<>> /\ SameKey(command.queue[1], decision)

CommandFits == command # None => Located /\ OrdersAreApproved /\ QueueFits /\ Reportable

AccountInv ==
    /\ TypeOK
    /\ NotesFit
    /\ OrdersAreDecided
    /\ FillsAreAuthorized
    /\ CreditsAreDebited
    /\ OnlyLossesOverdraw
    /\ ConversionsInHand
    /\ CommandFits

-----------------------------------------------------------------------------
(***************************************************************************)
(* Sequences and tuples.                                                   *)
(***************************************************************************)

\* Head and Tail of a sequence that is not empty.
LEMMA FirstAndRest ==
    ASSUME NEW S, NEW s \in Seq(S), s # <<>>
    PROVE  /\ Head(s) \in S /\ Head(s) = s[1] /\ 1 \in DOMAIN s
           /\ Tail(s) \in Seq(S)
           /\ \A i \in DOMAIN Tail(s) : i + 1 \in DOMAIN s /\ Tail(s)[i] = s[i + 1]
           /\ \A i \in DOMAIN s : i = 1 \/ (i - 1 \in DOMAIN Tail(s) /\ s[i] = Tail(s)[i - 1])
<1>1. Len(s) \in Nat \ {0} /\ DOMAIN s = 1..Len(s) /\ s \in [1..Len(s) -> S]
  OBVIOUS
<1>2. Tail(s) \in Seq(S) /\ Len(Tail(s)) = Len(s) - 1 /\ DOMAIN Tail(s) = 1..(Len(s) - 1)
  BY <1>1
<1>3. \A i \in 1..(Len(s) - 1) : Tail(s)[i] = s[i + 1]
  BY <1>1
<1>4. Head(s) = s[1] /\ 1 \in 1..Len(s)
  BY <1>1
<1>. QED
  BY <1>1, <1>2, <1>3, <1>4

\* Sequences with the same elements are the same.
LEMMA SameElements ==
    ASSUME NEW S, NEW s \in Seq(S), NEW t \in Seq(S), Len(s) = Len(t),
           \A i \in 1..Len(s) : s[i] = t[i]
    PROVE  s = t
<1>1. s \in [1..Len(s) -> S] /\ t \in [1..Len(s) -> S]
  OBVIOUS
<1>. QED
  BY <1>1

\* A conversion before a fill.
LEMMA Joined ==
    ASSUME NEW S, NEW a \in S, NEW b \in S, NEW c \in S, NEW d \in S, NEW e \in S
    PROVE  <<a, b>> \o <<c, d, e>> = <<a, b, c, d, e>> /\ <<a, b, c, d, e>> \in Seq(S)
<1> DEFINE s == <<a, b>> \o <<c, d, e>>
           t == <<a, b, c, d, e>>
<1>1. s \in Seq(S) /\ Len(s) = 5
  OBVIOUS
<1>2. s[1] = a /\ s[2] = b /\ s[3] = c /\ s[4] = d /\ s[5] = e
  OBVIOUS
<1>3. t \in Seq(S) /\ Len(t) = 5 /\ t[1] = a /\ t[2] = b /\ t[3] = c /\ t[4] = d /\ t[5] = e
  BY <1>1
<1>4. \A i \in 1..5 : s[i] = t[i]
  BY <1>2, <1>3
<1> HIDE DEF s, t
<1>5. s = t
  BY <1>1, <1>3, <1>4, SameElements
<1>. QED
  BY <1>5 DEF s, t

\* The rest of the tuples a settlement consists of.
LEMMA Tuples ==
    ASSUME NEW S, NEW a \in S, NEW b \in S, NEW c \in S, NEW d \in S, NEW e \in S
    PROVE  /\ <<a, b, c, d, e>> # <<>> /\ Head(<<a, b, c, d, e>>) = a
           /\ Tail(<<a, b, c, d, e>>) = <<b, c, d, e>>
           /\ <<b, c, d, e>> # <<>> /\ Head(<<b, c, d, e>>) = b
           /\ Tail(<<b, c, d, e>>) = <<c, d, e>>
           /\ <<c, d, e>> # <<>> /\ Head(<<c, d, e>>) = c /\ Tail(<<c, d, e>>) = <<d, e>>
           /\ <<d, e>> # <<>> /\ Head(<<d, e>>) = d /\ Tail(<<d, e>>) = <<e>>
           /\ <<e>> # <<>> /\ Head(<<e>>) = e /\ Tail(<<e>>) = <<>>
           /\ <<>> \o <<c, d, e>> = <<c, d, e>>
           /\ <<c, d, e>> \in Seq(S) /\ <<b, c, d, e>> \in Seq(S) /\ <<a, b, c, d, e>> \in Seq(S)
           /\ <<d, e>> \in Seq(S) /\ <<e>> \in Seq(S) /\ <<>> \in Seq(S)
<1>1. /\ <<>> \in Seq(S) /\ <<e>> \in Seq(S) /\ <<d, e>> \in Seq(S) /\ <<a, b>> \in Seq(S)
      /\ <<c, d, e>> \in Seq(S) /\ <<b, c, d, e>> \in Seq(S) /\ <<a, b, c, d, e>> \in Seq(S)
  OBVIOUS
<1>2. Len(<<a, b, c, d, e>>) = 5 /\ Len(<<b, c, d, e>>) = 4 /\ Len(<<>>) = 0
  OBVIOUS
<1>3. Tail(<<a, b, c, d, e>>) = <<b, c, d, e>>
  OBVIOUS
<1>4. /\ <<a, b, c, d, e>> # <<>> /\ Head(<<a, b, c, d, e>>) = a
      /\ <<b, c, d, e>> # <<>> /\ Head(<<b, c, d, e>>) = b
  BY <1>2
<1>5. Tail(<<b, c, d, e>>) = <<c, d, e>>
  OBVIOUS
<1>6. <<c, d, e>> # <<>> /\ Head(<<c, d, e>>) = c /\ Tail(<<c, d, e>>) = <<d, e>>
  OBVIOUS
<1>7. <<d, e>> # <<>> /\ Head(<<d, e>>) = d /\ Tail(<<d, e>>) = <<e>>
  OBVIOUS
<1>8. <<e>> # <<>> /\ Head(<<e>>) = e /\ Tail(<<e>>) = <<>>
  OBVIOUS
<1>9. <<>> \o <<c, d, e>> = <<c, d, e>>
  OBVIOUS
<1>. QED
  BY <1>1, <1>2, <1>3, <1>4, <1>5, <1>6, <1>7, <1>8, <1>9

\* The elements of a concatenation, with their places.
LEMMA Concatenation ==
    ASSUME NEW S, NEW s \in Seq(S), NEW t \in Seq(S)
    PROVE  /\ s \o t \in Seq(S)
           /\ \A i \in DOMAIN s : i \in DOMAIN (s \o t) /\ (s \o t)[i] = s[i]
           /\ \A i \in DOMAIN (s \o t) :
                 \/ i \in DOMAIN s
                 \/ i > Len(s) /\ \E k \in DOMAIN t : (s \o t)[i] = t[k]
<1>1. /\ Len(s) \in Nat /\ Len(t) \in Nat
      /\ DOMAIN s = 1..Len(s) /\ DOMAIN t = 1..Len(t)
      /\ s \o t \in Seq(S) /\ DOMAIN (s \o t) = 1..(Len(s) + Len(t))
  OBVIOUS
<1>2. \A i \in 1..Len(s) : (s \o t)[i] = s[i]
  OBVIOUS
<1>3. ASSUME NEW i \in 1..(Len(s) + Len(t)), i \notin 1..Len(s)
      PROVE  i > Len(s) /\ \E k \in 1..Len(t) : (s \o t)[i] = t[k]
  <2>1. i > Len(s) /\ i - Len(s) \in 1..Len(t)
    BY <1>1, <1>3
  <2>2. (s \o t)[i] = t[i - Len(s)]
    BY <1>1, <1>3, <2>1
  <2>. QED
    BY <2>1, <2>2
<1>4. \A i \in DOMAIN s : i \in DOMAIN (s \o t) /\ (s \o t)[i] = s[i]
  BY <1>1, <1>2
<1>5. ASSUME NEW i \in DOMAIN (s \o t), i \notin DOMAIN s
      PROVE  i > Len(s) /\ \E k \in DOMAIN t : (s \o t)[i] = t[k]
  BY <1>1, <1>3, <1>5, Zenon
<1>. QED
  BY <1>1, <1>4, <1>5, Zenon

-----------------------------------------------------------------------------
(***************************************************************************)
(* Types of the events.                                                    *)
(***************************************************************************)

\* Sessions and securities are numbered from 1.
LEMMA Numbers ==
    /\ Sessions \subseteq Nat \ {0} /\ Securities \subseteq Nat \ {0} /\ Bundles \subseteq Nat \ {0}
    /\ 0 \notin Sessions /\ 0 \notin Securities /\ 0 \notin Bundles
    /\ InitialCash \in Nat /\ Fee \in Nat /\ Tax \in Nat /\ MaxCrashes \in Nat
<1>1. \A n : \A k \in 1..n : k \in Nat \ {0}
  OBVIOUS
<1>. QED
  BY <1>1, AccountAssumption

\* A bare event, and what it does not say.
LEMMA EvTyped ==
    ASSUME NEW kind \in Kinds, NEW s \in Sessions \cup {0}, NEW b \in Bundles \cup {0},
           NEW x \in Securities \cup {0}
    PROVE  /\ Ev(kind, s, b, x) \in Event
           /\ LET e == Ev(kind, s, b, x) IN
              /\ e.kind = kind /\ e.session = s /\ e.bundle = b /\ e.security = x
              /\ e.qty = 0 /\ e.base = 0 /\ e.foreign = 0 /\ e.nav = 0 /\ e.note = "none"
BY DEF Ev, Event, Notes

\* An event with a note.
LEMMA NotedTyped ==
    ASSUME NEW e \in Event,
           NEW note \in Notes
    PROVE  /\ Noted(e, note) \in Event
           /\ LET f == Noted(e, note) IN
              /\ SameKey(f, e) /\ f.note = note
              /\ f.kind = e.kind /\ f.session = e.session /\ f.bundle = e.bundle
              /\ f.security = e.security
              /\ f.qty = e.qty /\ f.base = e.base /\ f.foreign = e.foreign
BY DEF Noted, Event, SameKey

\* An event with an amount in the currency of its security.
LEMMA BookedTyped ==
    ASSUME NEW e \in Event, NEW n \in Int
    PROVE  /\ Booked(e, n) \in Event
           /\ LET f == Booked(e, n) IN
              /\ f.kind = e.kind /\ f.session = e.session /\ f.bundle = e.bundle
              /\ f.security = e.security /\ f.note = e.note /\ f.qty = e.qty
              /\ e.security \in Foreign => f.foreign = n /\ f.base = e.base
              /\ e.security \notin Foreign => f.base = n /\ f.foreign = e.foreign
<1>1. CASE e.security \in Foreign
  BY <1>1 DEF Booked, Event
<1>2. CASE e.security \notin Foreign
  BY <1>2 DEF Booked, Event
<1>. QED
  BY <1>1, <1>2

-----------------------------------------------------------------------------
(***************************************************************************)
(* What appending an event does to the ledger.                             *)
(***************************************************************************)

\* The ledger is as it was, or has this event at its end, the first with its key.
GrownBy(e) ==
    /\ ledger' \in Seq(Event) /\ DOMAIN ledger \subseteq DOMAIN ledger'
    /\ \A i \in DOMAIN ledger : ledger'[i] = ledger[i]
    /\ \A i \in DOMAIN ledger' \ DOMAIN ledger :
          /\ ledger'[i] = e /\ ~Recorded(e) /\ (e.kind = "order" => e.qty # 0)
          /\ i \in Nat /\ DOMAIN ledger = 1..(i - 1)

LEMMA SameKeyIsEquivalence ==
    \A e, f, g : /\ SameKey(e, e)
                 /\ SameKey(e, f) => SameKey(f, e)
                 /\ SameKey(e, f) /\ SameKey(f, g) => SameKey(e, g)
BY DEF SameKey

LEMMA LedgerUnchanged ==
    ASSUME TypeOK, ledger' = ledger, NEW e
    PROVE  GrownBy(e)
BY DEF GrownBy, TypeOK

LEMMA BookGrows ==
    ASSUME TypeOK, NEW e \in Event, Book(e)
    PROVE  /\ GrownBy(e)
           /\ \A i, j \in DOMAIN ledger' : SameKey(ledger'[i], ledger'[j]) => i = j
           /\ e.kind # "order" => \E i \in DOMAIN ledger' : SameKey(ledger'[i], e)
           /\ ~Recorded(e) /\ e.kind # "order" => \E i \in DOMAIN ledger' : ledger'[i] = e
<1>1. ledger \in Seq(Event) /\ \A i, j \in DOMAIN ledger : SameKey(ledger[i], ledger[j]) => i = j
  BY DEF TypeOK
<1>2. CASE Recorded(e) \/ (e.kind = "order" /\ e.qty = 0)
  <2>1. ledger' = ledger
    BY <1>2 DEF Book, books
  <2>2. GrownBy(e)
    BY <2>1, LedgerUnchanged
  <2>. QED
    BY <1>1, <1>2, <2>1, <2>2 DEF Recorded
<1>3. CASE ~Recorded(e) /\ (e.kind = "order" => e.qty # 0)
  <2> DEFINE n == Len(ledger)
  <2>1. n \in Nat /\ DOMAIN ledger = 1..n
    BY <1>1
  <2>2. ledger' = Append(ledger, e)
    BY <1>3 DEF Book
  <2>3. /\ ledger' \in Seq(Event) /\ DOMAIN ledger' = 1..(n + 1)
        /\ \A i \in 1..n : ledger'[i] = ledger[i]
        /\ ledger'[n + 1] = e
    BY <1>1, <2>1, <2>2
  <2> HIDE DEF n
  <2>4. \A i \in 1..(n + 1) : i \in 1..n \/ i = n + 1
    BY <2>1
  <2>5. n + 1 \in 1..(n + 1) /\ n + 1 \notin 1..n /\ 1..n \subseteq 1..(n + 1) /\ (n + 1) - 1 = n
    BY <2>1
  <2>6. GrownBy(e)
    BY <1>3, <2>1, <2>3, <2>4, <2>5 DEF GrownBy
  <2>7. \A i \in 1..n : ~SameKey(ledger[i], e)
    BY <1>3, <2>1 DEF Recorded
  <2>8. ASSUME NEW i \in 1..(n + 1), NEW j \in 1..(n + 1), SameKey(ledger'[i], ledger'[j])
        PROVE  i = j
    <3>1. CASE i \in 1..n /\ j \in 1..n
      BY <1>1, <2>1, <2>3, <2>8, <3>1
    <3>2. CASE i = n + 1 /\ j \in 1..n
      BY <2>3, <2>7, <2>8, <3>2, SameKeyIsEquivalence
    <3>3. CASE i \in 1..n /\ j = n + 1
      BY <2>3, <2>7, <2>8, <3>3
    <3>. QED
      BY <2>4, <3>1, <3>2, <3>3
  <2>. QED
    BY <2>3, <2>5, <2>6, <2>8, SameKeyIsEquivalence
<1>. QED
  BY <1>2, <1>3

\* What is recorded stays recorded; what is new is the event.
LEMMA RecordedGrows ==
    ASSUME NEW e, GrownBy(e), NEW f
    PROVE  /\ Recorded(f) => Recorded(f)'
           /\ RecordedAs(f) => RecordedAs(f)'
           /\ Recorded(f)' => Recorded(f) \/ SameKey(e, f)
<1>1. Recorded(f) => Recorded(f)'
  BY DEF GrownBy, Recorded
<1>2. RecordedAs(f) => RecordedAs(f)'
  BY DEF GrownBy, RecordedAs
<1>3. Recorded(f)' => Recorded(f) \/ SameKey(e, f)
  BY DEF GrownBy, Recorded
<1>. QED
  BY <1>1, <1>2, <1>3

\* What booking an event does to the sums.
LEMMA BookMoney ==
    ASSUME TypeOK, NEW e \in Event, Book(e)
    PROVE  /\ cash' \in [base : Int, foreign : Int] /\ held' \in [Securities -> Int]
           /\ \/ cash' = cash /\ held' = held
              \/ /\ ~Recorded(e)
                 /\ cash'.base = cash.base + e.base /\ cash'.foreign = cash.foreign + e.foreign
                 /\ e.kind = "order" \/ e.security = 0 => held' = held
                 /\ e.kind # "order" /\ e.security # 0 =>
                       /\ held'[e.security] = held[e.security] + e.qty
                       /\ \A x \in Securities : x # e.security => held'[x] = held[x]
           /\ Recorded(e) => cash' = cash /\ held' = held
<1>1. cash \in [base : Int, foreign : Int] /\ held \in [Securities -> Int]
  BY DEF TypeOK
<1>2. e.base \in Int /\ e.foreign \in Int /\ e.qty \in Int /\ e.security \in Securities \cup {0}
  BY DEF Event
<1>3. CASE Recorded(e) \/ (e.kind = "order" /\ e.qty = 0)
  BY <1>1, <1>3 DEF Book, books
<1>4. CASE ~Recorded(e) /\ ~(e.kind = "order" /\ e.qty = 0)
  <2>1. cash' = [base |-> cash.base + e.base, foreign |-> cash.foreign + e.foreign]
    BY <1>4 DEF Book
  <2>2. cash' \in [base : Int, foreign : Int]
    BY <1>1, <1>2, <2>1
  <2>3. CASE e.kind = "order" \/ e.security = 0
    <3>1. held' = held
      BY <1>4, <2>3 DEF Book
    <3>. QED
      BY <1>1, <1>4, <2>1, <2>2, <2>3, <3>1
  <2>4. CASE e.kind # "order" /\ e.security # 0
    <3>1. held' = [held EXCEPT ![e.security] = @ + e.qty]
      BY <1>4, <2>4 DEF Book
    <3>2. /\ held' \in [Securities -> Int]
          /\ held'[e.security] = held[e.security] + e.qty
          /\ \A x \in Securities : x # e.security => held'[x] = held[x]
      BY <1>1, <1>2, <2>4, <3>1
    <3>. QED
      BY <1>4, <2>1, <2>2, <2>4, <3>2
  <2>. QED
    BY <2>3, <2>4
<1>. QED
  BY <1>3, <1>4

-----------------------------------------------------------------------------
(***************************************************************************)
(* What is uncovered, and the reserves.                                    *)
(***************************************************************************)

\* The places in a ledger can be counted.
LEMMA PlacesCounted ==
    ASSUME NEW events \in Seq(Event), NEW places \in SUBSET DOMAIN events
    PROVE  IsFiniteSet(places) /\ Cardinality(places) \in Nat
<1>1. Len(events) \in Nat /\ DOMAIN events = 1..Len(events)
  OBVIOUS
<1>2. IsFiniteSet(DOMAIN events)
  BY <1>1, FS_Interval
<1>. QED
  BY <1>2, FS_Subset, FS_CardinalityType

\* Products of a charge.
LEMMA Multiples ==
    \A a, b, k \in Nat : /\ a * k \in Nat
                         /\ a <= b => a * k <= b * k
                         /\ (a + 1) * k = a * k + k
<1>1. \A a, k \in Nat : a * k \in Nat /\ (a + 1) * k = a * k + k
  OBVIOUS
<1>2. ASSUME NEW a \in Nat, NEW b \in Nat, NEW k \in Nat, a <= b
      PROVE  a * k <= b * k
  <2>1. (b - a) * k \in Nat /\ (b - a) * k = b * k - a * k
    BY <1>1, <1>2
  <2>. QED
    BY <1>1, <2>1
<1>. QED
  BY <1>1, <1>2

\* What is uncovered is a number.
LEMMA UncoveredCounted ==
    ASSUME TypeOK, NEW S
    PROVE  Uncovered(S) \in Nat
<1>1. LosingSales(S) \in SUBSET DOMAIN ledger /\ ledger \in Seq(Event)
  BY DEF LosingSales, TypeOK
<1>2. Cardinality(LosingSales(S)) \in Nat
  BY <1>1, PlacesCounted
<1>. QED
  BY <1>2, Numbers, Multiples DEF Uncovered

\* What is uncovered grows by the charges of every losing sale that is booked, and never shrinks.
LEMMA UncoveredGrows ==
    ASSUME TypeOK, NEW e \in Event, Book(e), NEW S
    PROVE  /\ Uncovered(S) \in Nat /\ Uncovered(S)' \in Nat
           /\ Uncovered(S)' >= Uncovered(S)
           /\ ~Recorded(e) /\ Losing(e) /\ e.security \in S =>
                 Uncovered(S)' = Uncovered(S) + Fee + Tax
<1>1. /\ ledger \in Seq(Event) /\ GrownBy(e) /\ ledger' \in Seq(Event)
      /\ \A i, j \in DOMAIN ledger' : SameKey(ledger'[i], ledger'[j]) => i = j
  BY BookGrows DEF TypeOK, GrownBy
<1> DEFINE before == LosingSales(S)
           after  == LosingSales(S)'
<1>2. /\ before \in SUBSET DOMAIN ledger /\ after \in SUBSET DOMAIN ledger'
      /\ before \subseteq after
  BY <1>1 DEF LosingSales, Losing, GrownBy
<1>3. /\ IsFiniteSet(before) /\ Cardinality(before) \in Nat
      /\ IsFiniteSet(after) /\ Cardinality(after) \in Nat
  BY <1>1, <1>2, PlacesCounted
<1>4. Cardinality(before) <= Cardinality(after)
  BY <1>2, <1>3, FS_Subset
<1>5. Fee + Tax \in Nat /\ Fee \in Nat /\ Tax \in Nat
  BY Numbers
<1>6. /\ Uncovered(S) = Cardinality(before) * (Fee + Tax)
      /\ Uncovered(S)' = Cardinality(after) * (Fee + Tax)
  BY DEF Uncovered
<1>7. ASSUME ~Recorded(e), Losing(e), e.security \in S
      PROVE  Cardinality(after) = Cardinality(before) + 1
  <2>1. PICK i \in DOMAIN ledger' : ledger'[i] = e
    BY <1>7, BookGrows DEF Losing
  <2>2. i \notin DOMAIN ledger
    BY <1>1, <1>7, <2>1, SameKeyIsEquivalence DEF GrownBy, Recorded
  <2>3. \A j \in DOMAIN ledger' \ DOMAIN ledger : j = i
    BY <1>1, <2>1, SameKeyIsEquivalence DEF GrownBy
  <2>4. after = before \cup {i}
    <3>1. i \in after
      BY <1>7, <2>1 DEF LosingSales, Losing
    <3>2. \A j \in after : j \in before \/ j = i
      BY <1>1, <2>3 DEF LosingSales, Losing, GrownBy
    <3>. QED
      BY <1>2, <3>1, <3>2
  <2>5. i \notin before
    BY <1>2, <2>2
  <2> HIDE DEF before, after
  <2>. QED
    BY <1>3, <2>4, <2>5, FS_AddElement
<1> HIDE DEF before, after
<1>8. Uncovered(S) \in Nat /\ Uncovered(S)' \in Nat /\ Uncovered(S)' >= Uncovered(S)
  BY <1>3, <1>4, <1>5, <1>6, Multiples
<1>9. ASSUME ~Recorded(e), Losing(e), e.security \in S
      PROVE  Uncovered(S)' = Uncovered(S) + Fee + Tax
  <2>1. (Cardinality(before) + 1) * (Fee + Tax) = Cardinality(before) * (Fee + Tax) + (Fee + Tax)
    BY <1>3, <1>5, Multiples
  <2>. QED
    BY <1>5, <1>6, <1>7, <1>8, <1>9, <2>1
<1>. QED
  BY <1>8, <1>9

\* The property, of the reserves.
LEMMA ReservesHold ==
    /\ OnlyLossesOverdraw <=> /\ \A x \in Securities : held[x] >= 0
                              /\ BaseReserve >= 0
                              /\ crashes = 0 => ForeignReserve >= 0
    /\ OnlyLossesOverdraw' <=> /\ \A x \in Securities : held'[x] >= 0
                               /\ BaseReserve' >= 0
                               /\ crashes' = 0 => ForeignReserve' >= 0
<1>1. OnlyLossesOverdraw <=> /\ \A x \in Securities : held[x] >= 0
                             /\ BaseReserve >= 0
                             /\ crashes = 0 => ForeignReserve >= 0
  BY Zenon DEF OnlyLossesOverdraw, BaseReserve, ForeignReserve
<1>2. OnlyLossesOverdraw' <=> /\ \A x \in Securities : held'[x] >= 0
                              /\ BaseReserve' >= 0
                              /\ crashes' = 0 => ForeignReserve' >= 0
  BY Zenon DEF OnlyLossesOverdraw, BaseReserve, ForeignReserve
<1>. QED
  BY <1>1, <1>2, Zenon

\* Only fills change what is uncovered.
LEMMA ReservesStay ==
    ASSUME NEW e, GrownBy(e), e.kind # "fill", cash' = cash
    PROVE  BaseReserve' = BaseReserve /\ ForeignReserve' = ForeignReserve
<1>1. ASSUME NEW S
      PROVE  LosingSales(S)' = LosingSales(S)
  BY DEF LosingSales, Losing, GrownBy
<1>2. \A S : Uncovered(S)' = Uncovered(S)
  BY <1>1 DEF Uncovered
<1>. QED
  BY <1>2 DEF BaseReserve, ForeignReserve

LEMMA ReservesUnchanged ==
    ASSUME ledger' = ledger, cash' = cash
    PROVE  BaseReserve' = BaseReserve /\ ForeignReserve' = ForeignReserve
BY DEF BaseReserve, ForeignReserve, Uncovered, LosingSales

\* What booking an event does to the reserves: what it does to the cash, or better.
LEMMA ReserveMoney ==
    ASSUME TypeOK, NEW e \in Event, Book(e)
    PROVE  /\ BaseReserve \in Int /\ BaseReserve' \in Int
           /\ ForeignReserve \in Int /\ ForeignReserve' \in Int
           /\ \/ BaseReserve' >= BaseReserve /\ ForeignReserve' >= ForeignReserve
              \/ /\ BaseReserve' >= BaseReserve + e.base
                 /\ ForeignReserve' >= ForeignReserve + e.foreign
           /\ ~Recorded(e) /\ e.kind # "order" =>
                 /\ BaseReserve' >= BaseReserve + e.base
                 /\ ForeignReserve' >= ForeignReserve + e.foreign
                 /\ Losing(e) /\ e.security \in Securities \ Foreign =>
                       BaseReserve' = BaseReserve + e.base + Fee + Tax
                 /\ Losing(e) /\ e.security \in Foreign =>
                       ForeignReserve' = ForeignReserve + e.foreign + Fee + Tax
<1>1. /\ cash \in [base : Int, foreign : Int] /\ cash' \in [base : Int, foreign : Int]
      /\ e.base \in Int /\ e.foreign \in Int /\ Fee \in Nat /\ Tax \in Nat
  BY BookMoney, Numbers DEF TypeOK, Event
<1>2. PICK u, v, w, z : /\ u = Uncovered(Securities \ Foreign) /\ v = Uncovered(Securities \ Foreign)'
                        /\ w = Uncovered(Foreign) /\ z = Uncovered(Foreign)'
  OBVIOUS
<1>3. /\ u \in Nat /\ v \in Nat /\ v >= u /\ w \in Nat /\ z \in Nat /\ z >= w
      /\ ~Recorded(e) /\ Losing(e) /\ e.security \in Securities \ Foreign => v = u + Fee + Tax
      /\ ~Recorded(e) /\ Losing(e) /\ e.security \in Foreign => z = w + Fee + Tax
  BY <1>2, UncoveredGrows
<1>4. /\ BaseReserve = cash.base + u /\ BaseReserve' = cash'.base + v
      /\ ForeignReserve = cash.foreign + w /\ ForeignReserve' = cash'.foreign + z
  BY <1>2 DEF BaseReserve, ForeignReserve
<1>5. \/ cash' = cash
      \/ cash'.base = cash.base + e.base /\ cash'.foreign = cash.foreign + e.foreign
  BY BookMoney
<1>6. ~Recorded(e) /\ e.kind # "order" =>
         cash'.base = cash.base + e.base /\ cash'.foreign = cash.foreign + e.foreign
  BY <1>1 DEF Book
<1>7. /\ BaseReserve \in Int /\ BaseReserve' \in Int
      /\ ForeignReserve \in Int /\ ForeignReserve' \in Int
  BY <1>1, <1>3, <1>4
<1>8. \/ BaseReserve' >= BaseReserve /\ ForeignReserve' >= ForeignReserve
      \/ BaseReserve' >= BaseReserve + e.base /\ ForeignReserve' >= ForeignReserve + e.foreign
  <2>1. CASE cash' = cash
    BY <1>1, <1>3, <1>4, <2>1
  <2>2. CASE cash'.base = cash.base + e.base /\ cash'.foreign = cash.foreign + e.foreign
    BY <1>1, <1>3, <1>4, <2>2
  <2>. QED
    BY <1>5, <2>1, <2>2
<1>9. ASSUME ~Recorded(e), e.kind # "order"
      PROVE  /\ BaseReserve' >= BaseReserve + e.base
             /\ ForeignReserve' >= ForeignReserve + e.foreign
             /\ Losing(e) /\ e.security \in Securities \ Foreign =>
                   BaseReserve' = BaseReserve + e.base + Fee + Tax
             /\ Losing(e) /\ e.security \in Foreign =>
                   ForeignReserve' = ForeignReserve + e.foreign + Fee + Tax
  <2>1. cash'.base = cash.base + e.base /\ cash'.foreign = cash.foreign + e.foreign
    BY <1>6, <1>9
  <2>2. /\ BaseReserve' >= BaseReserve + e.base
        /\ ForeignReserve' >= ForeignReserve + e.foreign
    BY <1>1, <1>3, <1>4, <2>1
  <2>3. ASSUME Losing(e), e.security \in Securities \ Foreign
        PROVE  BaseReserve' = BaseReserve + e.base + Fee + Tax
    <3>1. v = u + Fee + Tax
      BY <1>3, <1>9, <2>3
    <3>. QED
      BY <1>1, <1>3, <1>4, <2>1, <3>1
  <2>4. ASSUME Losing(e), e.security \in Foreign
        PROVE  ForeignReserve' = ForeignReserve + e.foreign + Fee + Tax
    <3>1. z = w + Fee + Tax
      BY <1>3, <1>9, <2>4
    <3>. QED
      BY <1>1, <1>3, <1>4, <2>1, <3>1
  <2>. QED
    BY <2>2, <2>3, <2>4
<1>. QED
  BY <1>7, <1>8, <1>9

-----------------------------------------------------------------------------
(***************************************************************************)
(* The invariants of the ledger, when an event is appended.                *)
(***************************************************************************)
EarlierIn(events, i, e) ==
    \E j \in 1..(i - 1) : SameKey(events[j], e) /\ events[j].qty = e.qty /\ events[j].note = e.note

AuthorizedIn(events, i) ==
    /\ EarlierIn(events, i, [Of(events[i], "order") EXCEPT !.qty = events[i].qty])
    /\ EarlierIn(events, i, ApprovedDecision(events[i]))
    /\ EarlierIn(events, i, ApprovalOf(events[i]))

LEMMA FillsAreAuthorizedIn ==
    FillsAreAuthorized <=> \A i \in DOMAIN ledger : ledger[i].kind = "fill" => AuthorizedIn(ledger, i)
BY DEF FillsAreAuthorized, AuthorizedIn, EarlierIn, ApprovedDecision, ApprovalOf

\* A later end does not change what comes earlier.
LEMMA AuthorizedStays ==
    ASSUME NEW s, NEW t, NEW i \in Nat, \A j \in 1..i : t[j] = s[j], i \in 1..i, AuthorizedIn(s, i)
    PROVE  AuthorizedIn(t, i)
<1>1. t[i] = s[i]
  OBVIOUS
<1>2. \A e : EarlierIn(s, i, e) => EarlierIn(t, i, e)
  <2>1. 1..(i - 1) \subseteq 1..i
    OBVIOUS
  <2>. QED
    BY <2>1 DEF EarlierIn
<1>. QED
  BY <1>1, <1>2 DEF AuthorizedIn

\* Ledger places are numbered from 1, and what is below one is one.
LEMMA Places ==
    ASSUME TypeOK
    PROVE  /\ \A i \in DOMAIN ledger : i \in Nat /\ i \in 1..i /\ 1..i \subseteq DOMAIN ledger
           /\ \A i \in DOMAIN ledger : 1..(i - 1) \subseteq DOMAIN ledger /\ ledger[i] \in Event
           /\ DOMAIN ledger \subseteq Nat
<1>1. ledger \in Seq(Event)
  BY DEF TypeOK
<1>2. Len(ledger) \in Nat /\ DOMAIN ledger = 1..Len(ledger) /\ \A i \in 1..Len(ledger) : ledger[i] \in Event
  BY <1>1
<1>. QED
  BY <1>2

\* What an event needs to be appended.
Founded(e) ==
    /\ NoteFits(e)
    /\ e.kind = "order" => RecordedAs(ApprovedDecision(e))
    /\ e.kind = "fill" =>
          \E o \in Event :
             /\ o.kind = "order" /\ RecordedAs(o) /\ RecordedAs(ApprovalOf(o))
             /\ o.session = e.session /\ o.bundle = e.bundle /\ o.security = e.security
             /\ o.qty = e.qty
    /\ e.kind = "fx-credit" =>
          \E i \in DOMAIN ledger : SameKey(ledger[i], Of(e, "fx")) /\ ledger[i].base = -e.foreign

LEMMA LedgerKeeps ==
    ASSUME TypeOK, NotesFit, OrdersAreDecided, FillsAreAuthorized, CreditsAreDebited,
           NEW e \in Event, GrownBy(e), Founded(e) \/ ledger' = ledger
    PROVE  NotesFit' /\ OrdersAreDecided' /\ FillsAreAuthorized' /\ CreditsAreDebited'
<1>1. /\ \A i \in DOMAIN ledger : ledger'[i] = ledger[i] /\ i \in DOMAIN ledger'
      /\ \A i \in DOMAIN ledger' :
            \/ i \in DOMAIN ledger
            \/ /\ ledger'[i] = e /\ (e.kind = "order" => e.qty # 0)
               /\ i \in Nat /\ DOMAIN ledger = 1..(i - 1)
               /\ Founded(e)
  BY DEF GrownBy
<1>2. NotesFit'
  BY <1>1 DEF NotesFit, Founded
<1>3. OrdersAreDecided'
  <2> SUFFICES ASSUME NEW i \in DOMAIN ledger', ledger'[i].kind = "order"
               PROVE  ledger'[i].qty # 0 /\ RecordedAs(ApprovedDecision(ledger[i]))'
    BY DEF OrdersAreDecided
  <2>1. PICK f : f = ledger'[i]
    OBVIOUS
  <2>2. f.qty # 0 /\ RecordedAs(ApprovedDecision(f))
    BY <1>1, <2>1 DEF OrdersAreDecided, Founded
  <2>3. RecordedAs(ApprovedDecision(f))'
    BY <2>2, RecordedGrows
  <2>. QED
    BY <2>1, <2>2, <2>3
<1>4. FillsAreAuthorized'
  <2> SUFFICES ASSUME NEW i \in DOMAIN ledger', ledger'[i].kind = "fill"
               PROVE  AuthorizedIn(ledger', i)
    BY DEF FillsAreAuthorized, AuthorizedIn, EarlierIn, ApprovedDecision, ApprovalOf
  <2>1. CASE i \in DOMAIN ledger
    <3>1. AuthorizedIn(ledger, i)
      BY <1>1, <2>1, FillsAreAuthorizedIn
    <3>2. \A j \in 1..i : ledger'[j] = ledger[j]
      BY <1>1, <2>1, Places
    <3>. QED
      BY <2>1, <3>1, <3>2, Places, AuthorizedStays
  <2>2. CASE i \notin DOMAIN ledger
    <3>1. /\ ledger'[i] = e /\ e.kind = "fill" /\ i \in Nat /\ DOMAIN ledger = 1..(i - 1)
          /\ Founded(e)
      BY <1>1, <2>2
    <3>2. PICK o \in Event :
             /\ o.kind = "order" /\ RecordedAs(o) /\ RecordedAs(ApprovalOf(o))
             /\ o.session = e.session /\ o.bundle = e.bundle /\ o.security = e.security
             /\ o.qty = e.qty
      BY <3>1 DEF Founded
    <3>3. RecordedAs(ApprovedDecision(o)) /\ o.note = "none"
      BY <3>2 DEF OrdersAreDecided, NotesFit, NoteFits, RecordedAs
    <3>4. \A f : RecordedAs(f) => EarlierIn(ledger', i, f)
      BY <1>1, <3>1, SameKeyIsEquivalence DEF RecordedAs, EarlierIn
    <3>5. ApprovedDecision(o) = ApprovedDecision(e) /\ ApprovalOf(o) = ApprovalOf(e)
      BY <3>2 DEF ApprovedDecision, ApprovalOf
    <3>6. LET f == [Of(e, "order") EXCEPT !.qty = e.qty]
          IN  SameKey(o, f) /\ o.qty = f.qty /\ o.note = f.note
      BY <3>2, <3>3 DEF SameKey, Of, Ev
    <3>7. \E j \in 1..(i - 1) : ledger'[j] = o
      BY <1>1, <3>1, <3>2 DEF RecordedAs
    <3>8. EarlierIn(ledger', i, [Of(e, "order") EXCEPT !.qty = e.qty])
      BY <3>6, <3>7 DEF EarlierIn
    <3>. QED
      BY <3>1, <3>2, <3>3, <3>4, <3>5, <3>8 DEF AuthorizedIn
  <2>. QED
    BY <2>1, <2>2
<1>5. CreditsAreDebited'
  <2> SUFFICES ASSUME NEW i \in DOMAIN ledger', ledger'[i].kind = "fx-credit"
               PROVE  \E j \in 1..(i - 1) : /\ SameKey(ledger'[j], Of(ledger'[i], "fx"))
                                            /\ ledger'[j].base = -ledger'[i].foreign
    BY DEF CreditsAreDebited
  <2>1. CASE i \in DOMAIN ledger
    BY <1>1, <2>1, Places DEF CreditsAreDebited
  <2>2. CASE i \notin DOMAIN ledger
    <3>1. /\ ledger'[i] = e /\ e.kind = "fx-credit" /\ DOMAIN ledger = 1..(i - 1)
          /\ Founded(e)
      BY <1>1, <2>2
    <3>. QED
      BY <1>1, <3>1 DEF Founded
  <2>. QED
    BY <2>1, <2>2
<1>. QED
  BY <1>2, <1>3, <1>4, <1>5

-----------------------------------------------------------------------------
(***************************************************************************)
(* The events of a settlement, a corporate action and a conversion.        *)
(***************************************************************************)

\* A product with a factor below zero, and one with a factor of at least -1.
LEMMA Products ==
    /\ \A q \in Int, p \in Nat : q * p \in Int /\ (q <= -1 => q * p <= -p)
    /\ \A h \in Nat, g \in Int : h * g \in Int /\ (g >= -1 => h + h * g >= 0)
<1>1. \A q \in Int, p \in Int : q * p \in Int
  OBVIOUS
<1>2. ASSUME NEW q \in Int, NEW p \in Nat, q <= -1
      PROVE  q * p <= -p
  <2>1. (-(q + 1)) \in Nat /\ (-(q + 1)) * p >= 0
    BY <1>2
  <2>2. (-(q + 1)) * p = -(q * p) - p
    OBVIOUS
  <2>. QED
    BY <2>1, <2>2, <1>1
<1>3. ASSUME NEW h \in Nat, NEW g \in Int, g >= -1
      PROVE  h + h * g >= 0
  <2>1. g + 1 \in Nat /\ h * (g + 1) >= 0
    BY <1>3
  <2>2. h * (g + 1) = h + h * g
    OBVIOUS
  <2>. QED
    BY <2>1, <2>2
<1>. QED
  BY <1>1, <1>2, <1>3

LEMMA ConversionTyped ==
    ASSUME NEW o \in Event, o.session \in Sessions, o.bundle \in Bundles, o.security \in Securities,
           NEW n \in Nat
    PROVE  /\ Debit(o, n) \in Event /\ Credit(o, n) \in Event
           /\ SameKey(Debit(o, n), Of(o, "fx")) /\ SameKey(Credit(o, n), Of(o, "fx-credit"))
           /\ LET e == Debit(o, n) IN
              /\ e.kind = "fx" /\ e.session = o.session /\ e.bundle = o.bundle
              /\ e.security = o.security /\ e.qty = 0 /\ e.base = -n /\ e.foreign = 0
           /\ LET e == Credit(o, n) IN
              /\ e.kind = "fx-credit" /\ e.session = o.session /\ e.bundle = o.bundle
              /\ e.security = o.security /\ e.qty = 0 /\ e.base = 0 /\ e.foreign = n
<1>1. \A kind \in Kinds : Of(o, kind) \in Event /\ Of(o, kind).kind = kind
        /\ Of(o, kind).session = o.session /\ Of(o, kind).bundle = o.bundle
        /\ Of(o, kind).security = o.security /\ Of(o, kind).qty = 0
        /\ Of(o, kind).base = 0 /\ Of(o, kind).foreign = 0
  BY EvTyped DEF Of
<1>2. "fx" \in Kinds /\ "fx-credit" \in Kinds
  BY DEF Kinds
<1>3. -n \in Int
  OBVIOUS
<1>. QED
  BY <1>1, <1>2, <1>3 DEF Debit, Credit, Event, SameKey

\* The events of a fill and its charges.
LEMMA SettlementTyped ==
    ASSUME NEW o \in Event, o.session \in Sessions, o.bundle \in Bundles, o.security \in Securities,
           command.session \in Sessions
    PROVE  /\ Trade(o) \in Int /\ Required(o) = Trade(o) + Fee + Tax /\ Required(o) \in Int
           /\ o.qty <= -1 => Trade(o) <= 0
           /\ Filled(o) \in Event /\ FeeOf(o) \in Event /\ TaxOf(o) \in Event
           /\ SameKey(Filled(o), Of(o, "fill"))
           /\ LET e == Filled(o) IN
              /\ e.kind = "fill" /\ e.session = o.session /\ e.bundle = o.bundle
              /\ e.security = o.security /\ e.qty = o.qty
              /\ o.security \in Foreign => e.foreign = -Trade(o) /\ e.base = 0
              /\ o.security \notin Foreign => e.base = -Trade(o) /\ e.foreign = 0
           /\ LET e == FeeOf(o) IN
              /\ e.kind = "fee" /\ e.session = o.session /\ e.bundle = o.bundle
              /\ e.security = o.security /\ e.qty = 0
              /\ o.security \in Foreign => e.foreign = -Fee /\ e.base = 0
              /\ o.security \notin Foreign => e.base = -Fee /\ e.foreign = 0
           /\ LET e == TaxOf(o) IN
              /\ e.kind = "tax" /\ e.session = o.session /\ e.bundle = o.bundle
              /\ e.security = o.security /\ e.qty = 0
              /\ o.security \in Foreign => e.foreign = -Tax /\ e.base = 0
              /\ o.security \notin Foreign => e.base = -Tax /\ e.foreign = 0
<1>1. \A kind \in Kinds : Of(o, kind) \in Event /\ Of(o, kind).kind = kind
        /\ Of(o, kind).session = o.session /\ Of(o, kind).bundle = o.bundle
        /\ Of(o, kind).security = o.security /\ Of(o, kind).qty = 0
        /\ Of(o, kind).base = 0 /\ Of(o, kind).foreign = 0
  BY EvTyped DEF Of
<1>2. "fill" \in Kinds /\ "fee" \in Kinds /\ "tax" \in Kinds
  BY DEF Kinds
<1>3. o.qty \in Int
  BY DEF Event
<1>4. Price(o) \in Nat
  BY AccountAssumption DEF Price
<1>5. Trade(o) \in Int /\ (o.qty <= -1 => Trade(o) <= -Price(o))
  BY <1>3, <1>4, Products DEF Trade
<1>6. Required(o) = Trade(o) + Fee + Tax
  BY DEF Required
<1>7. Required(o) \in Int /\ (o.qty <= -1 => Trade(o) <= 0) /\ -Fee \in Int /\ -Tax \in Int
      /\ -Trade(o) \in Int
  BY <1>4, <1>5, <1>6, Numbers
<1>8. LET e == [Of(o, "fill") EXCEPT !.qty = o.qty] IN
      /\ e \in Event /\ e.kind = "fill" /\ e.session = o.session /\ e.bundle = o.bundle
      /\ e.security = o.security /\ e.qty = o.qty /\ e.base = 0 /\ e.foreign = 0
  BY <1>1, <1>2, <1>3 DEF Event
<1>9. /\ Filled(o) \in Event
      /\ LET e == Filled(o) IN
         /\ e.kind = "fill" /\ e.session = o.session /\ e.bundle = o.bundle
         /\ e.security = o.security /\ e.qty = o.qty
         /\ o.security \in Foreign => e.foreign = -Trade(o) /\ e.base = 0
         /\ o.security \notin Foreign => e.base = -Trade(o) /\ e.foreign = 0
  BY <1>7, <1>8, BookedTyped DEF Filled
<1>10. SameKey(Filled(o), Of(o, "fill"))
  BY <1>1, <1>2, <1>9 DEF SameKey
<1>11. /\ FeeOf(o) \in Event
       /\ LET e == FeeOf(o) IN
          /\ e.kind = "fee" /\ e.session = o.session /\ e.bundle = o.bundle
          /\ e.security = o.security /\ e.qty = 0
          /\ o.security \in Foreign => e.foreign = -Fee /\ e.base = 0
          /\ o.security \notin Foreign => e.base = -Fee /\ e.foreign = 0
  <2> DEFINE bare == Of(o, "fee")
  <2>1. /\ bare \in Event /\ bare.kind = "fee" /\ bare.session = o.session
        /\ bare.bundle = o.bundle /\ bare.security = o.security
        /\ bare.qty = 0 /\ bare.base = 0 /\ bare.foreign = 0
    BY <1>1, <1>2
  <2>2. FeeOf(o) = Booked(bare, -Fee)
    BY DEF FeeOf
  <2> HIDE DEF bare
  <2>3. LET f == Booked(bare, -Fee) IN
        /\ f \in Event /\ f.kind = bare.kind /\ f.session = bare.session /\ f.bundle = bare.bundle
        /\ f.security = bare.security /\ f.qty = bare.qty
        /\ bare.security \in Foreign => f.foreign = -Fee /\ f.base = bare.base
        /\ bare.security \notin Foreign => f.base = -Fee /\ f.foreign = bare.foreign
    BY <1>7, <2>1, BookedTyped
  <2>. QED
    BY <2>1, <2>2, <2>3
<1>12. /\ TaxOf(o) \in Event
       /\ LET e == TaxOf(o) IN
          /\ e.kind = "tax" /\ e.session = o.session /\ e.bundle = o.bundle
          /\ e.security = o.security /\ e.qty = 0
          /\ o.security \in Foreign => e.foreign = -Tax /\ e.base = 0
          /\ o.security \notin Foreign => e.base = -Tax /\ e.foreign = 0
  <2> DEFINE bare == Of(o, "tax")
  <2>1. /\ bare \in Event /\ bare.kind = "tax" /\ bare.session = o.session
        /\ bare.bundle = o.bundle /\ bare.security = o.security
        /\ bare.qty = 0 /\ bare.base = 0 /\ bare.foreign = 0
    BY <1>1, <1>2
  <2>2. TaxOf(o) = Booked(bare, -Tax)
    BY DEF TaxOf
  <2> HIDE DEF bare
  <2>3. LET f == Booked(bare, -Tax) IN
        /\ f \in Event /\ f.kind = bare.kind /\ f.session = bare.session /\ f.bundle = bare.bundle
        /\ f.security = bare.security /\ f.qty = bare.qty
        /\ bare.security \in Foreign => f.foreign = -Tax /\ f.base = bare.base
        /\ bare.security \notin Foreign => f.base = -Tax /\ f.foreign = bare.foreign
    BY <1>7, <2>1, BookedTyped
  <2>. QED
    BY <2>1, <2>2, <2>3
<1>. QED
  BY <1>5, <1>6, <1>7, <1>9, <1>10, <1>11, <1>12

\* The parts that depend on the command depend on its session.
LEMMA SettlementFixed ==
    ASSUME NEW o, command'.session = command.session
    PROVE  Filled(o)' = Filled(o) /\ Required(o)' = Required(o)
<1>1. Trade(o)' = Trade(o)
  BY DEF Trade, Price
<1>. QED
  BY <1>1 DEF Filled, Booked, Required

-----------------------------------------------------------------------------
(***************************************************************************)
(* The live command, and the changes made to it.                           *)
(***************************************************************************)
LEMMA CommandTyped ==
    ASSUME TypeOK, command # None
    PROVE  /\ command \in Command /\ command.queue \in Seq(Event) /\ command.phase \in Phases
           /\ command.session \in Sessions \cup {0} /\ command.bundle \in Bundles \cup {0}
           /\ command.orders \in SUBSET Nat
BY DEF TypeOK, Command

LEMMA NextPhase ==
    ASSUME TypeOK, command # None, NEW phase \in Phases, NEW events \in Seq(Event),
           Then(phase, events)
    PROVE  /\ command' \in Command /\ command' # None
           /\ command'.session = command.session /\ command'.bundle = command.bundle
           /\ command'.phase = phase /\ command'.queue = events
           /\ command'.orders = command.orders
<1>1. command' \in Command
  BY CommandTyped DEF Then, Command
<1>. QED
  BY <1>1, CommandTyped, AccountAssumption DEF Then, Command

LEMMA NextOrders ==
    ASSUME TypeOK, command # None, NEW phase \in Phases, NEW places \in SUBSET Nat,
           NEW events \in Seq(Event),
           \/ command' = [command EXCEPT !.phase = phase, !.orders = places] /\ events = command.queue
           \/ command' = [command EXCEPT !.orders = places, !.queue = events] /\ phase = command.phase
    PROVE  /\ command' \in Command /\ command' # None
           /\ command'.session = command.session /\ command'.bundle = command.bundle
           /\ command'.phase = phase /\ command'.queue = events
           /\ command'.orders = places
<1>1. command' \in Command
  BY CommandTyped DEF Command
<1>. QED
  BY <1>1, CommandTyped, AccountAssumption DEF Command

LEMMA NextEvent ==
    ASSUME TypeOK, command # None, command.queue # <<>>,
           command' = [command EXCEPT !.queue = Tail(@)]
    PROVE  /\ command' \in Command /\ command' # None
           /\ command'.session = command.session /\ command'.bundle = command.bundle
           /\ command'.phase = command.phase /\ command'.queue = Tail(command.queue)
           /\ command'.orders = command.orders
<1>1. Tail(command.queue) \in Seq(Event)
  BY CommandTyped, FirstAndRest
<1>2. command' \in Command
  BY <1>1, CommandTyped DEF Command
<1>. QED
  BY <1>2, CommandTyped, AccountAssumption DEF Command

-----------------------------------------------------------------------------
(***************************************************************************)
(* Appending the next event of the queue.                                  *)
(***************************************************************************)
Advances(e) ==
    /\ command # None /\ command.queue # <<>> /\ e = Head(command.queue)
    /\ Recorded(e) => RecordedAs(e)
    /\ Book(e)
    /\ command' = [command EXCEPT !.queue = Tail(@)]
    /\ UNCHANGED <<account, targets, reports, crashes>>

\* What is to be shown of each form of the queue.
AdvancesWell(e) ==
    /\ Founded(e)
    /\ OnlyLossesOverdraw'
    /\ QueueFits'
    /\ e.kind \in {"fx", "fx-credit"} =>
          \E k \in DOMAIN command.queue : k > 1 /\ SameKey(command.queue[k], Of(e, "fill"))

\* What appending the next event always does.
LEMMA Advanced ==
    ASSUME TypeOK, NEW e, Advances(e)
    PROVE  /\ e \in Event /\ GrownBy(e) /\ crashes' = crashes
           /\ command'.session = command.session /\ command'.queue = Tail(command.queue)
           /\ command' \in Command /\ command' # None
           /\ e.kind # "order" => RecordedAs(e)' /\ Recorded(e)'
<1>1. e \in Event
  BY CommandTyped, FirstAndRest DEF Advances
<1>2. Book(e)
  BY DEF Advances
<1>3. GrownBy(e)
  BY <1>1, <1>2, BookGrows
<1>4. ASSUME e.kind # "order"
      PROVE  RecordedAs(e)'
  <2>1. CASE Recorded(e)
    BY <1>3, <2>1, RecordedGrows DEF Advances
  <2>2. CASE ~Recorded(e)
    BY <1>1, <1>2, <1>4, <2>2, BookGrows DEF RecordedAs
  <2>. QED
    BY <2>1, <2>2
<1>5. RecordedAs(e)' => Recorded(e)'
  BY SameKeyIsEquivalence DEF RecordedAs, Recorded
<1>6. /\ command'.session = command.session /\ command'.queue = Tail(command.queue)
      /\ command' \in Command /\ command' # None
  BY NextEvent DEF Advances
<1>. QED
  BY <1>1, <1>3, <1>4, <1>5, <1>6 DEF Advances

LEMMA EmptyQueueFits ==
    ASSUME command'.queue = <<>>
    PROVE  QueueFits'
<1>1. DOMAIN <<>> = {}
  OBVIOUS
<1>. QED
  BY <1>1 DEF QueueFits, Plain

LEMMA PlainAdvances ==
    ASSUME AccountInv, NEW e, Advances(e), Plain(command.queue)
    PROVE  AdvancesWell(e)
<1> DEFINE queue == command.queue
<1>1. /\ TypeOK /\ OnlyLossesOverdraw /\ Book(e)
      /\ queue \in Seq(Event) /\ queue # <<>> /\ e = Head(queue)
  BY CommandTyped DEF AccountInv, Advances
<1>2. e \in Event /\ e = queue[1] /\ 1 \in DOMAIN queue
  BY <1>1, FirstAndRest
<1>3. /\ e.kind \notin TradeKinds /\ e.session = command.session
      /\ e.base >= 0 /\ e.foreign >= 0
      /\ e.kind # "order" => e.security = 0
      /\ NoteFits(e)
      /\ e.kind = "order" => RecordedAs(ApprovedDecision(e))
  <2>1. \A j \in DOMAIN queue : ~(j < 1)
    BY <1>1
  <2>. QED
    BY <1>2, <2>1 DEF Plain
<1>4. Founded(e)
  BY <1>3 DEF Founded, TradeKinds
<1>5. e.base \in Int /\ e.foreign \in Int /\ crashes' = crashes
  BY <1>1, <1>2 DEF Event, Advances
<1>6. OnlyLossesOverdraw'
  <2>1. held' = held
    BY <1>1, <1>2, <1>3, BookMoney
  <2>2. /\ BaseReserve' >= BaseReserve /\ ForeignReserve' >= ForeignReserve
        /\ BaseReserve \in Int /\ BaseReserve' \in Int
        /\ ForeignReserve \in Int /\ ForeignReserve' \in Int
    BY <1>1, <1>2, <1>3, <1>5, ReserveMoney
  <2>. QED
    BY <1>1, <1>5, <2>1, <2>2, ReservesHold
<1>7. Plain(command.queue)'
  <2> SUFFICES ASSUME NEW i \in DOMAIN command'.queue,
                      NEW f, f = command'.queue[i]
               PROVE  /\ f.kind \notin TradeKinds /\ f.session = command'.session
                      /\ f.base >= 0 /\ f.foreign >= 0
                      /\ f.kind # "order" => f.security = 0
                      /\ NoteFits(f)
                      /\ f.kind = "order" =>
                            \/ RecordedAs(ApprovedDecision(f))'
                            \/ \E j \in DOMAIN command'.queue :
                                  j < i /\ command'.queue[j] = ApprovedDecision(f)
    BY DEF Plain
  <2>1. command'.queue = Tail(queue) /\ command'.session = command.session /\ GrownBy(e)
    BY <1>1, Advanced
  <2>2. i + 1 \in DOMAIN queue /\ f = queue[i + 1] /\ i \in Nat
    BY <1>1, <2>1, FirstAndRest
  <2>3. /\ f.kind \notin TradeKinds /\ f.session = command.session
        /\ f.base >= 0 /\ f.foreign >= 0
        /\ f.kind # "order" => f.security = 0
        /\ NoteFits(f)
        /\ f.kind = "order" => \/ RecordedAs(ApprovedDecision(f))
                               \/ \E j \in DOMAIN queue : j < i + 1 /\ queue[j] = ApprovedDecision(f)
    BY <2>2 DEF Plain
  <2>4. ASSUME f.kind = "order", NEW j \in DOMAIN queue, j < i + 1, queue[j] = ApprovedDecision(f)
        PROVE  \/ RecordedAs(ApprovedDecision(f))'
               \/ \E k \in DOMAIN command'.queue : k < i /\ command'.queue[k] = ApprovedDecision(f)
    <3>1. CASE j = 1
      <4>1. e = ApprovedDecision(f)
        BY <1>2, <2>4, <3>1
      <4>2. e.kind = "decision"
        BY <4>1 DEF ApprovedDecision, Noted, Ev
      <4>. QED
        BY <1>1, <4>1, <4>2, Advanced
    <3>2. CASE j # 1
      <4>1. j - 1 \in DOMAIN Tail(queue) /\ Tail(queue)[j - 1] = queue[j] /\ j \in Nat
        BY <1>1, <3>2, FirstAndRest
      <4>2. j - 1 < i
        BY <2>2, <2>4, <4>1
      <4>. QED
        BY <2>1, <2>4, <4>1, <4>2
    <3>. QED
      BY <3>1, <3>2
  <2>5. RecordedAs(ApprovedDecision(f)) => RecordedAs(ApprovedDecision(f))'
    BY <2>1, RecordedGrows
  <2>. QED
    BY <2>1, <2>3, <2>4, <2>5
<1>. QED
  BY <1>3, <1>4, <1>6, <1>7 DEF AdvancesWell, QueueFits, TradeKinds

LEMMA ActingAdvances ==
    ASSUME AccountInv, NEW e, Advances(e), Acting(command.queue)
    PROVE  AdvancesWell(e)
<1>1. TypeOK /\ OnlyLossesOverdraw /\ Book(e) /\ e = Head(command.queue) /\ e \in Event
      /\ crashes' = crashes
  BY Advanced DEF AccountInv, Advances
<1>2. PICK f \in Event :
         /\ command.queue = <<f>>
         /\ f.kind = "action" /\ f.session = command.session /\ f.security \in Securities
         /\ f.base >= 0 /\ f.foreign >= 0
         /\ held[f.security] + f.qty >= 0
  BY DEF Acting
<1>3. f = e /\ Tail(command.queue) = <<>>
  BY <1>1, <1>2
<1>4. Founded(e)
  BY <1>2, <1>3 DEF Founded, NoteFits
<1>5. QueueFits'
  BY <1>1, <1>3, Advanced, EmptyQueueFits
<1>6. /\ BaseReserve' >= BaseReserve /\ ForeignReserve' >= ForeignReserve
      /\ BaseReserve \in Int /\ BaseReserve' \in Int
      /\ ForeignReserve \in Int /\ ForeignReserve' \in Int
  <2>1. e.base \in Int /\ e.foreign \in Int
    BY <1>1 DEF Event
  <2>. QED
    BY <1>1, <1>2, <1>3, <2>1, ReserveMoney
<1>7. OnlyLossesOverdraw'
  <2>1. CASE held' = held
    BY <1>1, <1>6, <2>1, ReservesHold
  <2>2. CASE held' # held
    <3>1. /\ held'[e.security] = held[e.security] + e.qty
          /\ \A x \in Securities : x # e.security => held'[x] = held[x]
      BY <1>1, <1>2, <1>3, <2>2, BookMoney, Numbers
    <3>. QED
      BY <1>1, <1>2, <1>3, <1>6, <3>1, ReservesHold
  <2>. QED
    BY <2>1, <2>2
<1>. QED
  BY <1>2, <1>3, <1>4, <1>5, <1>7 DEF AdvancesWell

-----------------------------------------------------------------------------
(***************************************************************************)
(* Appending the next event of a settlement.                               *)
(***************************************************************************)

\* The order a settlement is of.
SettlesOrder(o) ==
    /\ o \in Event /\ o.kind = "order" /\ o.session + 1 = command.session
    /\ RecordedAs(o) /\ RecordedAs(ApprovalOf(o))

\* What the settlement of the order has left to do is in the queue.
Remaining(queue, o) ==
    \/ \E n \in Nat : Converting(queue, o, n) \/ Crediting(queue, o, n)
    \/ Filling(queue, o)
    \/ Charging(queue, o)

LEMMA SettlingIs ==
    Settling(command.queue) <=> \E o : SettlesOrder(o) /\ Remaining(command.queue, o)
BY DEF Settling, SettlesOrder, Remaining

LEMMA OrderTyped ==
    ASSUME AccountInv, command # None, NEW o, SettlesOrder(o)
    PROVE  /\ o \in Event /\ o.kind = "order" /\ o.note = "none" /\ o.qty # 0 /\ o.qty \in Int
           /\ o.session \in Sessions /\ o.bundle \in Bundles /\ o.security \in Securities
           /\ command.session \in Sessions
<1>1. PICK i \in DOMAIN ledger : ledger[i] = o
  BY DEF SettlesOrder, RecordedAs
<1>2. NoteFits(o) /\ o.qty # 0 /\ o \in Event /\ o.kind = "order"
  BY <1>1 DEF AccountInv, NotesFit, OrdersAreDecided, SettlesOrder
<1>3. o.session \in Nat \ {0} /\ o.session + 1 = command.session
  BY <1>2, Numbers DEF NoteFits, SettlesOrder
<1>4. command.session \in Sessions \cup {0} /\ command.session # 0
  BY <1>3, CommandTyped DEF AccountInv
<1>. QED
  BY <1>2, <1>4 DEF NoteFits, Event

LEMMA OrderStays ==
    ASSUME TypeOK, NEW e, Advances(e), NEW o, SettlesOrder(o)
    PROVE  SettlesOrder(o)'
<1>1. GrownBy(e) /\ command'.session = command.session
  BY Advanced
<1>. QED
  BY <1>1, RecordedGrows DEF SettlesOrder

\* A key of another kind is not recorded by the event.
LEMMA OtherKind ==
    ASSUME NEW e, GrownBy(e), NEW f, e.kind # f.kind, ~Recorded(f)
    PROVE  ~Recorded(f)'
BY RecordedGrows DEF SameKey

\* The kinds that name an order, and the money of events for a security.
LEMMA OfKinds ==
    \A o, kind : Of(o, kind).kind = kind
BY DEF Of, Ev

LEMMA SameOrder ==
    ASSUME NEW e, NEW o, e.session = o.session, e.bundle = o.bundle, e.security = o.security, NEW kind
    PROVE  Of(e, kind) = Of(o, kind)
BY DEF Of

LEMMA ConvertingAdvances ==
    ASSUME AccountInv, NEW e, Advances(e), NEW o, SettlesOrder(o), NEW n \in Nat,
           Converting(command.queue, o, n)
    PROVE  AdvancesWell(e)
<1>1. /\ TypeOK /\ OnlyLossesOverdraw /\ Book(e) /\ e = Head(command.queue) /\ e \in Event
      /\ crashes' = crashes /\ GrownBy(e) /\ command # None
      /\ command'.session = command.session
      /\ command'.queue = Tail(command.queue)
  BY Advanced DEF AccountInv, Advances
<1>2. /\ o \in Event /\ o.session \in Sessions /\ o.bundle \in Bundles /\ o.security \in Securities
      /\ command.session \in Sessions
  BY <1>1, OrderTyped
<1>3. /\ Debit(o, n) \in Event /\ Credit(o, n) \in Event /\ Filled(o) \in Event
      /\ FeeOf(o) \in Event /\ TaxOf(o) \in Event
  BY <1>2, ConversionTyped, SettlementTyped
<1>4. command.queue = <<Debit(o, n), Credit(o, n), Filled(o), FeeOf(o), TaxOf(o)>>
  BY DEF Converting
<1>5. e = Debit(o, n) /\ command'.queue = <<Credit(o, n), Filled(o), FeeOf(o), TaxOf(o)>>
  BY <1>1, <1>3, <1>4, Tuples
<1>6. /\ e.kind = "fx" /\ e.session = o.session /\ e.bundle = o.bundle
      /\ e.security = o.security /\ e.qty = 0 /\ e.base = -n /\ e.foreign = 0
  BY <1>2, <1>5, ConversionTyped
<1>7. Founded(e)
  BY <1>6 DEF Founded, NoteFits
<1>8. /\ held \in [Securities -> Int] /\ held' \in [Securities -> Int]
      /\ BaseReserve \in Int /\ BaseReserve' \in Int
      /\ ForeignReserve \in Int /\ ForeignReserve' \in Int
  BY <1>1, BookMoney, ReserveMoney DEF TypeOK
<1>9. held' = held
  <2>1. \A x \in Securities : held'[x] = held[x]
    BY <1>1, <1>2, <1>6, <1>8, BookMoney, Numbers
  <2>. QED
    BY <1>8, <2>1
<1>10. ForeignReserve' >= ForeignReserve /\ BaseReserve' >= BaseReserve - n
  BY <1>1, <1>6, <1>8, ReserveMoney
<1>11. OnlyLossesOverdraw'
  BY <1>1, <1>8, <1>9, <1>10, ReservesHold DEF Converting
<1>12. Fillable(o)'
  <2>1. ~Recorded(Of(o, "fill")) /\ held[o.security] + o.qty >= 0
    BY DEF Converting, Fillable
  <2>2. ~Recorded(Of(o, "fill"))'
    BY <1>1, <1>6, <2>1, OtherKind, OfKinds
  <2>. QED
    BY <1>9, <2>1, <2>2 DEF Fillable
<1>13. RecordedAs(Debit(o, n))'
  BY <1>5, <1>6, Advanced, <1>1
<1>14. crashes = 0 => ~Recorded(Of(o, "fx-credit"))'
  BY <1>1, <1>6, OtherKind, OfKinds DEF Converting
<1>15. Crediting(command.queue, o, n)'
  <2>1. Filled(o)' = Filled(o) /\ Required(o)' = Required(o)
    BY <1>1, SettlementFixed
  <2>2. crashes = 0 => ForeignReserve' + n >= Required(o)
    <3>1. Required(o) \in Int
      BY <1>2, SettlementTyped
    <3>. QED
      BY <1>8, <1>10, <3>1 DEF Converting
  <2>3. command'.queue = <<Credit(o, n), Filled(o)', FeeOf(o), TaxOf(o)>>
    BY <1>5, <2>1
  <2>. QED
    BY <1>1, <1>12, <1>13, <1>14, <2>1, <2>2, <2>3 DEF Crediting, Converting
<1>16. QueueFits'
  <2>1. SettlesOrder(o)'
    BY <1>1, OrderStays
  <2>. QED
    BY <1>15, <2>1 DEF QueueFits, Settling, SettlesOrder
<1>17. \E k \in DOMAIN command.queue : k > 1 /\ SameKey(command.queue[k], Of(e, "fill"))
  <2>1. SameKey(Filled(o), Of(o, "fill")) /\ Of(e, "fill") = Of(o, "fill")
    BY <1>2, <1>6, SettlementTyped, SameOrder
  <2>2. command.queue[3] = Filled(o) /\ 3 \in DOMAIN command.queue
    BY <1>4
  <2>. QED
    BY <2>1, <2>2
<1>. QED
  BY <1>7, <1>11, <1>16, <1>17 DEF AdvancesWell

LEMMA CreditingAdvances ==
    ASSUME AccountInv, NEW e, Advances(e), NEW o, SettlesOrder(o), NEW n \in Nat,
           Crediting(command.queue, o, n)
    PROVE  AdvancesWell(e)
<1>1. /\ TypeOK /\ OnlyLossesOverdraw /\ Book(e) /\ e = Head(command.queue) /\ e \in Event
      /\ crashes' = crashes /\ GrownBy(e) /\ command # None
      /\ command'.session = command.session
      /\ command'.queue = Tail(command.queue)
  BY Advanced DEF AccountInv, Advances
<1>2. /\ o \in Event /\ o.session \in Sessions /\ o.bundle \in Bundles /\ o.security \in Securities
      /\ command.session \in Sessions
  BY <1>1, OrderTyped
<1>3. /\ Credit(o, n) \in Event /\ Filled(o) \in Event
      /\ FeeOf(o) \in Event /\ TaxOf(o) \in Event
  BY <1>2, ConversionTyped, SettlementTyped
<1>4. command.queue = <<Credit(o, n), Filled(o), FeeOf(o), TaxOf(o)>>
  BY DEF Crediting
<1>5. e = Credit(o, n) /\ command'.queue = <<Filled(o), FeeOf(o), TaxOf(o)>>
  BY <1>1, <1>3, <1>4, Tuples
<1>6. /\ e.kind = "fx-credit" /\ e.session = o.session /\ e.bundle = o.bundle
      /\ e.security = o.security /\ e.qty = 0 /\ e.base = 0 /\ e.foreign = n
  BY <1>2, <1>5, ConversionTyped
<1>7. Founded(e)
  <2>1. PICK i \in DOMAIN ledger : ledger[i] = Debit(o, n)
    BY DEF Crediting, RecordedAs
  <2>2. SameKey(Debit(o, n), Of(o, "fx")) /\ Of(e, "fx") = Of(o, "fx") /\ Debit(o, n).base = -n
    BY <1>2, <1>6, ConversionTyped, SameOrder
  <2>. QED
    BY <1>6, <2>1, <2>2 DEF Founded, NoteFits
<1>8. /\ held \in [Securities -> Int] /\ held' \in [Securities -> Int]
      /\ BaseReserve \in Int /\ BaseReserve' \in Int
      /\ ForeignReserve \in Int /\ ForeignReserve' \in Int
  BY <1>1, BookMoney, ReserveMoney DEF TypeOK
<1>9. held' = held
  <2>1. \A x \in Securities : held'[x] = held[x]
    BY <1>1, <1>2, <1>6, <1>8, BookMoney, Numbers
  <2>. QED
    BY <1>8, <2>1
<1>10. BaseReserve' >= BaseReserve /\ ForeignReserve' >= ForeignReserve
  BY <1>1, <1>6, <1>8, ReserveMoney
<1>11. OnlyLossesOverdraw'
  BY <1>1, <1>8, <1>9, <1>10, ReservesHold
<1>12. Fillable(o)'
  <2>1. ~Recorded(Of(o, "fill")) /\ held[o.security] + o.qty >= 0
    BY DEF Crediting, Fillable
  <2>2. ~Recorded(Of(o, "fill"))'
    BY <1>1, <1>6, <2>1, OtherKind, OfKinds
  <2>. QED
    BY <1>9, <2>1, <2>2 DEF Fillable
<1>13. Required(o) \in Int /\ Filled(o)' = Filled(o) /\ Required(o)' = Required(o)
  BY <1>1, <1>2, SettlementTyped, SettlementFixed
<1>14. crashes = 0 => ForeignReserve' >= Required(o)
  <2> HAVE crashes = 0
  <2>1. ~Recorded(Of(o, "fx-credit")) /\ ForeignReserve + n >= Required(o)
    BY DEF Crediting
  <2>2. SameKey(e, Of(o, "fx-credit"))
    BY <1>2, <1>5, ConversionTyped
  <2>3. ~Recorded(e)
    BY <2>1, <2>2, SameKeyIsEquivalence DEF Recorded
  <2>4. ForeignReserve' >= ForeignReserve + n
    BY <1>1, <1>6, <2>3, ReserveMoney
  <2>. QED
    BY <1>8, <1>13, <2>1, <2>4
<1>15. Filling(command.queue, o)'
  <2>1. command'.queue = <<Filled(o)', FeeOf(o), TaxOf(o)>>
    BY <1>5, <1>13
  <2>. QED
    BY <1>1, <1>12, <1>13, <1>14, <2>1 DEF Filling, CanPay, Crediting
<1>16. QueueFits'
  <2>1. SettlesOrder(o)'
    BY <1>1, OrderStays
  <2>. QED
    BY <1>15, <2>1 DEF QueueFits, Settling, SettlesOrder
<1>17. \E k \in DOMAIN command.queue : k > 1 /\ SameKey(command.queue[k], Of(e, "fill"))
  <2>1. SameKey(Filled(o), Of(o, "fill")) /\ Of(e, "fill") = Of(o, "fill")
    BY <1>2, <1>6, SettlementTyped, SameOrder
  <2>2. command.queue[2] = Filled(o) /\ 2 \in DOMAIN command.queue
    BY <1>4
  <2>. QED
    BY <2>1, <2>2
<1>. QED
  BY <1>7, <1>11, <1>16, <1>17 DEF AdvancesWell

LEMMA FillingAdvances ==
    ASSUME AccountInv, NEW e, Advances(e), NEW o, SettlesOrder(o), Filling(command.queue, o)
    PROVE  AdvancesWell(e)
<1>1. /\ TypeOK /\ OnlyLossesOverdraw /\ Book(e) /\ e = Head(command.queue) /\ e \in Event
      /\ crashes' = crashes /\ GrownBy(e) /\ command # None
      /\ command'.session = command.session
      /\ command'.queue = Tail(command.queue)
  BY Advanced DEF AccountInv, Advances
<1>2. /\ o \in Event /\ o.session \in Sessions /\ o.bundle \in Bundles /\ o.security \in Securities
      /\ command.session \in Sessions /\ o.qty \in Int
  BY <1>1, OrderTyped
<1>3. Filled(o) \in Event /\ FeeOf(o) \in Event /\ TaxOf(o) \in Event
  BY <1>2, SettlementTyped
<1>4. /\ command.queue = <<Filled(o), FeeOf(o), TaxOf(o)>>
      /\ ~Recorded(Of(o, "fill")) /\ held[o.security] + o.qty >= 0
      /\ o.qty < 0 \/ CanPay(o, Required(o))
  BY DEF Filling, Fillable
<1>5. e = Filled(o) /\ command'.queue = <<FeeOf(o), TaxOf(o)>>
  BY <1>1, <1>3, <1>4, Tuples
<1>6. /\ e.kind = "fill" /\ e.session = o.session /\ e.bundle = o.bundle
      /\ e.security = o.security /\ e.qty = o.qty
      /\ o.security \in Foreign => e.foreign = -Trade(o) /\ e.base = 0
      /\ o.security \notin Foreign => e.base = -Trade(o) /\ e.foreign = 0
  BY <1>2, <1>5, SettlementTyped
<1>7. Founded(e)
  BY <1>6 DEF Founded, NoteFits, SettlesOrder
<1>8. /\ held \in [Securities -> Int]
      /\ BaseReserve \in Int /\ BaseReserve' \in Int
      /\ ForeignReserve \in Int /\ ForeignReserve' \in Int
  BY <1>1, ReserveMoney DEF TypeOK
<1>9. Trade(o) \in Int /\ (o.qty <= -1 => Trade(o) <= 0) /\ Required(o) = Trade(o) + Fee + Tax /\ Fee \in Nat /\ Tax \in Nat
  BY <1>2, SettlementTyped, Numbers
<1>10. ~Recorded(e) /\ held' = [held EXCEPT ![e.security] = @ + e.qty]
  <2>1. ~Recorded(e)
    <3>1. SameKey(e, Of(o, "fill"))
      BY <1>2, <1>5, SettlementTyped
    <3>. QED
      BY <1>4, <3>1, SameKeyIsEquivalence DEF Recorded
  <2>2. e.kind # "order" /\ e.security # 0
    BY <1>2, <1>6, Numbers
  <2>. QED
    BY <1>1, <2>1, <2>2 DEF Book
<1>11. \A x \in Securities : held'[x] >= 0
  BY <1>1, <1>2, <1>4, <1>6, <1>8, <1>10 DEF OnlyLossesOverdraw
<1>12. CanPay(o, Fee + Tax)' /\ BaseReserve' >= 0 /\ (crashes = 0 => ForeignReserve' >= 0)
  <2>1. /\ BaseReserve' >= BaseReserve + e.base /\ ForeignReserve' >= ForeignReserve + e.foreign
        /\ Losing(e) /\ o.security \notin Foreign =>
              BaseReserve' = BaseReserve + e.base + Fee + Tax
        /\ Losing(e) /\ o.security \in Foreign =>
              ForeignReserve' = ForeignReserve + e.foreign + Fee + Tax
    BY <1>1, <1>2, <1>6, <1>10, ReserveMoney
  <2>2. BaseReserve >= 0 /\ (crashes = 0 => ForeignReserve >= 0)
    BY <1>1, ReservesHold
  <2>3. o.qty < 0 => Losing(e) \/ -Trade(o) >= Fee + Tax
    BY <1>2, <1>6, <1>9 DEF Losing
  <2>4. CASE o.security \in Foreign
    <3>1. e.base = 0 /\ e.foreign = -Trade(o)
      BY <1>6, <2>4
    <3>2. crashes = 0 /\ ~(o.qty < 0) => ForeignReserve >= Trade(o) + Fee + Tax
      BY <1>4, <1>9, <2>4 DEF CanPay
    <3>3. crashes = 0 => ForeignReserve' >= Fee + Tax
      BY <1>2, <1>8, <1>9, <2>1, <2>2, <2>3, <2>4, <3>1, <3>2
    <3>. QED
      BY <1>1, <1>8, <1>9, <2>1, <2>2, <2>4, <3>1, <3>3 DEF CanPay
  <2>5. CASE o.security \notin Foreign
    <3>1. e.foreign = 0 /\ e.base = -Trade(o)
      BY <1>6, <2>5
    <3>2. ~(o.qty < 0) => BaseReserve >= Trade(o) + Fee + Tax
      BY <1>4, <1>9, <2>5 DEF CanPay
    <3>3. BaseReserve' >= Fee + Tax
      BY <1>2, <1>8, <1>9, <2>1, <2>2, <2>3, <2>5, <3>1, <3>2
    <3>. QED
      BY <1>1, <1>8, <1>9, <2>1, <2>2, <2>5, <3>1, <3>3 DEF CanPay
  <2>. QED
    BY <2>4, <2>5
<1>13. OnlyLossesOverdraw'
  BY <1>1, <1>11, <1>12, ReservesHold
<1>14. QueueFits'
  <2>1. SettlesOrder(o)'
    BY <1>1, OrderStays
  <2>2. Charging(command.queue, o)'
    BY <1>5, <1>12 DEF Charging
  <2>. QED
    BY <2>1, <2>2 DEF QueueFits, Settling, SettlesOrder
<1>. QED
  BY <1>6, <1>7, <1>13, <1>14 DEF AdvancesWell

\* A charge is paid with what was kept for it.
LEMMA ChargePaid ==
    ASSUME AccountInv, NEW e, Advances(e), NEW o, o.security \in Securities,
           NEW n \in Nat, NEW rest \in Nat, CanPay(o, n + rest),
           e.kind # "order", e.security = o.security, e.qty = 0,
           o.security \in Foreign => e.foreign = -n /\ e.base = 0,
           o.security \notin Foreign => e.base = -n /\ e.foreign = 0
    PROVE  OnlyLossesOverdraw' /\ CanPay(o, rest)'
<1>1. TypeOK /\ OnlyLossesOverdraw /\ Book(e) /\ e \in Event /\ crashes' = crashes
  BY Advanced DEF AccountInv, Advances
<1>2. /\ held \in [Securities -> Int]
      /\ BaseReserve \in Int /\ BaseReserve' \in Int
      /\ ForeignReserve \in Int /\ ForeignReserve' \in Int
  BY <1>1, ReserveMoney DEF TypeOK
<1>3. \A x \in Securities : held'[x] = held[x]
  BY <1>1, <1>2, BookMoney, Numbers
<1>4. \/ BaseReserve' >= BaseReserve /\ ForeignReserve' >= ForeignReserve
      \/ BaseReserve' >= BaseReserve + e.base /\ ForeignReserve' >= ForeignReserve + e.foreign
  BY <1>1, ReserveMoney
<1>5. CASE o.security \in Foreign
  <2>1. BaseReserve' >= BaseReserve /\ ForeignReserve' >= ForeignReserve - n
    BY <1>2, <1>4, <1>5
  <2>2. crashes = 0 => ForeignReserve >= n + rest
    BY <1>5 DEF CanPay
  <2>. QED
    BY <1>1, <1>2, <1>3, <1>5, <2>1, <2>2, ReservesHold DEF CanPay
<1>6. CASE o.security \notin Foreign
  <2>1. ForeignReserve' >= ForeignReserve /\ BaseReserve' >= BaseReserve - n
    BY <1>2, <1>4, <1>6
  <2>2. BaseReserve >= n + rest
    BY <1>6 DEF CanPay
  <2>. QED
    BY <1>1, <1>2, <1>3, <1>6, <2>1, <2>2, ReservesHold DEF CanPay
<1>. QED
  BY <1>5, <1>6

LEMMA ChargingAdvances ==
    ASSUME AccountInv, NEW e, Advances(e), NEW o, SettlesOrder(o), Charging(command.queue, o)
    PROVE  AdvancesWell(e)
<1>1. /\ TypeOK /\ e = Head(command.queue) /\ e \in Event /\ command # None
      /\ command'.session = command.session
      /\ command'.queue = Tail(command.queue)
  BY Advanced DEF AccountInv, Advances
<1>2. /\ o \in Event /\ o.session \in Sessions /\ o.bundle \in Bundles /\ o.security \in Securities
      /\ command.session \in Sessions
  BY <1>1, OrderTyped
<1>3. FeeOf(o) \in Event /\ TaxOf(o) \in Event
  BY <1>2, SettlementTyped
<1>4. Fee \in Nat /\ Tax \in Nat /\ 0 \in Nat /\ Tax + 0 = Tax
  BY Numbers
<1>5. CASE command.queue = <<FeeOf(o), TaxOf(o)>> /\ CanPay(o, Fee + Tax)
  <2>1. e = FeeOf(o) /\ command'.queue = <<TaxOf(o)>>
    BY <1>1, <1>3, <1>5, Tuples
  <2>2. /\ e.kind = "fee" /\ e.security = o.security /\ e.qty = 0
        /\ o.security \in Foreign => e.foreign = -Fee /\ e.base = 0
        /\ o.security \notin Foreign => e.base = -Fee /\ e.foreign = 0
    BY <1>2, <2>1, SettlementTyped
  <2>3. OnlyLossesOverdraw' /\ CanPay(o, Tax)'
    BY <1>2, <1>4, <1>5, <2>2, ChargePaid
  <2>4. SettlesOrder(o)'
    BY <1>1, OrderStays
  <2>5. QueueFits'
    BY <2>1, <2>3, <2>4 DEF QueueFits, Settling, SettlesOrder, Charging
  <2>. QED
    BY <2>2, <2>3, <2>5 DEF AdvancesWell, Founded, NoteFits
<1>6. CASE command.queue = <<TaxOf(o)>> /\ CanPay(o, Tax)
  <2>1. e = TaxOf(o) /\ command'.queue = <<>>
    BY <1>1, <1>3, <1>6, Tuples
  <2>2. /\ e.kind = "tax" /\ e.security = o.security /\ e.qty = 0
        /\ o.security \in Foreign => e.foreign = -Tax /\ e.base = 0
        /\ o.security \notin Foreign => e.base = -Tax /\ e.foreign = 0
    BY <1>2, <2>1, SettlementTyped
  <2>3. CanPay(o, Tax + 0)
    BY <1>4, <1>6
  <2>4. OnlyLossesOverdraw'
    BY <1>2, <1>4, <2>2, <2>3, ChargePaid
  <2>5. QueueFits'
    BY <2>1, EmptyQueueFits
  <2>. QED
    BY <2>2, <2>4, <2>5 DEF AdvancesWell, Founded, NoteFits
<1>. QED
  BY <1>5, <1>6 DEF Charging

LEMMA EveryQueueAdvances ==
    ASSUME AccountInv, NEW e, Advances(e)
    PROVE  AdvancesWell(e)
<1>1. QueueFits
  BY DEF AccountInv, CommandFits, Advances
<1>2. CASE Settling(command.queue)
  <2>1. PICK o : SettlesOrder(o) /\ Remaining(command.queue, o)
    BY <1>2, SettlingIs
  <2>. QED
    BY <2>1, ConvertingAdvances, CreditingAdvances, FillingAdvances, ChargingAdvances DEF Remaining
<1>. QED
  BY <1>1, <1>2, PlainAdvances, ActingAdvances DEF QueueFits

-----------------------------------------------------------------------------
(***************************************************************************)
(* Every action keeps the invariant.                                       *)
(***************************************************************************)
LedgerFits == NotesFit /\ OrdersAreDecided /\ FillsAreAuthorized /\ CreditsAreDebited

\* What a step does not book it does not disturb.
LEMMA BooksStay ==
    ASSUME UNCHANGED books
    PROVE  /\ ledger' = ledger /\ cash' = cash /\ held' = held
           /\ LedgerFits => LedgerFits'
           /\ \A e : (Recorded(e)' <=> Recorded(e)) /\ (RecordedAs(e)' <=> RecordedAs(e))
<1>1. ledger' = ledger /\ cash' = cash /\ held' = held
  BY DEF books
<1>2. \A e : (Recorded(e)' <=> Recorded(e)) /\ (RecordedAs(e)' <=> RecordedAs(e))
  BY <1>1 DEF Recorded, RecordedAs
<1>3. NotesFit => NotesFit'
  BY <1>1 DEF NotesFit
<1>4. OrdersAreDecided => OrdersAreDecided'
  BY <1>1 DEF OrdersAreDecided, RecordedAs
<1>5. FillsAreAuthorized => FillsAreAuthorized'
  BY <1>1 DEF FillsAreAuthorized
<1>6. CreditsAreDebited => CreditsAreDebited'
  BY <1>1 DEF CreditsAreDebited
<1>. QED
  BY <1>1, <1>2, <1>3, <1>4, <1>5, <1>6 DEF LedgerFits

\* A step of a command that has nothing to append, or of none, that books nothing.
Quiet ==
    /\ UNCHANGED books /\ crashes' = crashes
    /\ command = None \/ command.queue = <<>>

LEMMA QuietKeeps ==
    ASSUME AccountInv, Quiet
    PROVE  LedgerFits' /\ OnlyLossesOverdraw' /\ ConversionsInHand'
<1>1. /\ ledger' = ledger /\ cash' = cash /\ held' = held /\ crashes' = crashes /\ LedgerFits'
  BY BooksStay DEF AccountInv, LedgerFits, Quiet
<1>2. OnlyLossesOverdraw'
  BY <1>1, ReservesUnchanged, ReservesHold DEF AccountInv
<1>3. crashes = 0 => \A i \in DOMAIN ledger : ledger[i].kind \in {"fx", "fx-credit"} =>
                        Recorded(Of(ledger[i], "fill"))
  <2>1. DOMAIN <<>> = {}
    OBVIOUS
  <2>. QED
    BY <2>1 DEF AccountInv, ConversionsInHand, Quiet
<1>4. ConversionsInHand'
  BY <1>1, <1>3 DEF ConversionsInHand, Recorded
<1>. QED
  BY <1>1, <1>2, <1>4

\* Events with the same key are recorded together.
LEMMA RecordedTogether ==
    ASSUME NEW f, NEW g, SameKey(f, g)
    PROVE  (Recorded(f) => Recorded(g)) /\ (Recorded(f)' => Recorded(g)')
BY SameKeyIsEquivalence DEF Recorded

LEMMA AdvancesKeeps ==
    ASSUME AccountInv, NEW e, Advances(e)
    PROVE  AccountInv'
<1>1. /\ TypeOK /\ e \in Event /\ GrownBy(e) /\ Book(e) /\ crashes' = crashes
      /\ command # None /\ command' \in Command /\ command' # None
      /\ command'.session = command.session /\ command'.bundle = command.bundle
      /\ command'.phase = command.phase /\ command'.orders = command.orders
      /\ command'.queue = Tail(command.queue)
      /\ command.queue \in Seq(Event) /\ command.queue # <<>>
      /\ e.kind # "order" => RecordedAs(e)' /\ Recorded(e)'
  BY Advanced, NextEvent, CommandTyped DEF AccountInv, Advances
<1>2. AdvancesWell(e)
  BY EveryQueueAdvances
<1>3. TypeOK'
  <2>1. /\ ledger' \in Seq(Event)
        /\ \A i, j \in DOMAIN ledger' : SameKey(ledger'[i], ledger'[j]) => i = j
    BY <1>1, BookGrows DEF GrownBy
  <2>2. cash' \in [base : Int, foreign : Int] /\ held' \in [Securities -> Int]
    BY <1>1, BookMoney
  <2>. QED
    BY <1>1, <2>1, <2>2 DEF TypeOK, Advances
<1>4. NotesFit' /\ OrdersAreDecided' /\ FillsAreAuthorized' /\ CreditsAreDebited'
  BY <1>1, <1>2, LedgerKeeps DEF AccountInv, AdvancesWell
<1>5. ConversionsInHand'
  <2> SUFFICES ASSUME crashes = 0, NEW i \in DOMAIN ledger', NEW g, g = ledger'[i],
                      g.kind \in {"fx", "fx-credit"}
               PROVE  \/ Recorded(Of(g, "fill"))'
                      \/ \E k \in DOMAIN command'.queue :
                            SameKey(command'.queue[k], Of(g, "fill"))
    BY <1>1 DEF ConversionsInHand
  <2>1. ASSUME NEW k \in DOMAIN command.queue, SameKey(command.queue[k], Of(g, "fill"))
        PROVE  \/ Recorded(Of(g, "fill"))'
               \/ \E l \in DOMAIN command'.queue : SameKey(command'.queue[l], Of(g, "fill"))
    <3>1. CASE k = 1
      <4>1. e = command.queue[k]
        BY <1>1, <3>1, FirstAndRest DEF Advances
      <4>2. e.kind = "fill"
        BY <2>1, <4>1, OfKinds DEF SameKey
      <4>3. Recorded(e)'
        BY <1>1, <4>2
      <4>. QED
        BY <2>1, <4>1, <4>3, RecordedTogether
    <3>2. CASE k # 1
      <4>1. /\ k - 1 \in DOMAIN Tail(command.queue)
            /\ Tail(command.queue)[k - 1] = command.queue[k]
        BY <1>1, <3>2, FirstAndRest
      <4>. QED
        BY <1>1, <2>1, <4>1
    <3>. QED
      BY <3>1, <3>2
  <2>2. \/ Recorded(Of(g, "fill"))
        \/ \E k \in DOMAIN command.queue : SameKey(command.queue[k], Of(g, "fill"))
    <3>1. CASE i \in DOMAIN ledger
      BY <1>1, <3>1 DEF AccountInv, ConversionsInHand, GrownBy
    <3>2. CASE i \notin DOMAIN ledger
      <4>1. g = e
        BY <1>1, <3>2 DEF GrownBy
      <4>. QED
        BY <1>2, <4>1 DEF AdvancesWell
    <3>. QED
      BY <3>1, <3>2
  <2>. QED
    BY <1>1, <2>1, <2>2, RecordedGrows
<1>6. CommandFits'
  <2>1. Located /\ OrdersAreApproved /\ Reportable
    BY <1>1 DEF AccountInv, CommandFits
  <2>2. Located'
    BY <1>1, <2>1 DEF Located, Advances
  <2>3. OrdersAreApproved'
    <3> SUFFICES ASSUME NEW i \in command'.orders, NEW o, o = ledger'[i]
                 PROVE  /\ i \in DOMAIN ledger'
                        /\ o.kind = "order" /\ o.session + 1 = command'.session
                        /\ RecordedAs(ApprovalOf(o))'
      BY DEF OrdersAreApproved
    <3>1. i \in DOMAIN ledger /\ o = ledger[i] /\ i \in DOMAIN ledger'
      BY <1>1, <2>1 DEF OrdersAreApproved, GrownBy
    <3>. QED
      BY <1>1, <2>1, <3>1, RecordedGrows DEF OrdersAreApproved
  <2>4. Reportable'
    <3>0. PICK decision : decision = Ev("decision", command.session, command.bundle, 0)
      OBVIOUS
    <3>1. SUFFICES ASSUME command.phase = "report"
                   PROVE  Recorded(decision)'
      BY <1>1, <3>0 DEF Reportable, Recorded
    <3>2. CASE Recorded(decision)
      BY <1>1, <3>2, RecordedGrows
    <3>3. CASE SameKey(command.queue[1], decision)
      <4>1. SameKey(e, decision) /\ decision.kind = "decision"
        BY <1>1, <3>0, <3>3, FirstAndRest DEF Advances, Ev
      <4>2. Recorded(e)'
        BY <1>1, <4>1 DEF SameKey
      <4>. QED
        BY <4>1, <4>2, RecordedTogether
    <3>. QED
      BY <2>1, <3>0, <3>1, <3>2, <3>3 DEF Reportable
  <2>. QED
    BY <1>2, <2>2, <2>3, <2>4 DEF CommandFits, AdvancesWell
<1>. QED
  BY <1>2, <1>3, <1>4, <1>5, <1>6 DEF AccountInv, AdvancesWell

\* An event that differs from the one with its key ends the command; before a death
\* no conversion is left without its fill by that.
LEMMA RaiseKeeps ==
    ASSUME AccountInv, command # None, command.queue # <<>>, NEW e, e = Head(command.queue),
           Recorded(e), ~RecordedAs(e), command' = None, UNCHANGED books,
           UNCHANGED <<account, targets, reports, crashes>>
    PROVE  AccountInv'
<1>1. /\ TypeOK /\ LedgerFits /\ QueueFits /\ command.queue \in Seq(Event) /\ e \in Event
      /\ e = command.queue[1]
  BY CommandTyped, FirstAndRest DEF AccountInv, LedgerFits, CommandFits
<1>2. /\ ledger' = ledger /\ cash' = cash /\ held' = held /\ crashes' = crashes /\ LedgerFits'
  BY <1>1, BooksStay
<1>3. TypeOK'
  BY <1>1, <1>2 DEF TypeOK
<1>4. ASSUME crashes = 0
      PROVE  \A k \in DOMAIN command.queue : command.queue[k].kind # "fill"
  <2>1. CASE Plain(command.queue)
    BY <2>1 DEF Plain, TradeKinds
  <2>2. CASE Acting(command.queue)
    BY <2>2 DEF Acting
  <2>3. CASE Settling(command.queue)
    <3>1. PICK o : SettlesOrder(o) /\ Remaining(command.queue, o)
      BY <2>3, SettlingIs
    <3>2. /\ o \in Event /\ o.session \in Sessions /\ o.bundle \in Bundles
          /\ o.security \in Securities /\ command.session \in Sessions
      BY <3>1, OrderTyped
    <3>3. /\ SameKey(Filled(o), Of(o, "fill")) /\ Filled(o) \in Event
          /\ FeeOf(o) \in Event /\ FeeOf(o).kind = "fee" /\ TaxOf(o) \in Event /\ TaxOf(o).kind = "tax"
      BY <3>2, SettlementTyped
    <3>4. \A f, g : SameKey(f, g) /\ Recorded(f) => Recorded(g)
      BY RecordedTogether
    <3>5. ASSUME NEW n \in Nat, Converting(command.queue, o, n) \/ Crediting(command.queue, o, n)
          PROVE  FALSE
      <4>1. /\ SameKey(Debit(o, n), Of(o, "fx")) /\ SameKey(Credit(o, n), Of(o, "fx-credit"))
            /\ Debit(o, n) \in Event /\ Credit(o, n) \in Event
        BY <3>2, ConversionTyped
      <4>2. CASE Converting(command.queue, o, n)
        <5>1. e = Debit(o, n)
          BY <1>1, <4>2 DEF Converting
        <5>. QED
          BY <1>4, <3>4, <4>1, <4>2, <5>1 DEF Converting
      <4>3. CASE Crediting(command.queue, o, n)
        <5>1. e = Credit(o, n)
          BY <1>1, <4>3 DEF Crediting
        <5>. QED
          BY <1>4, <3>4, <4>1, <4>3, <5>1 DEF Crediting
      <4>. QED
        BY <3>5, <4>2, <4>3
    <3>6. ~Filling(command.queue, o)
      <4>1. SUFFICES ASSUME Filling(command.queue, o)
                     PROVE  FALSE
        OBVIOUS
      <4>2. e = Filled(o) /\ ~Recorded(Of(o, "fill"))
        BY <1>1, <4>1 DEF Filling, Fillable
      <4>. QED
        BY <3>3, <3>4, <4>2
    <3>7. CASE Charging(command.queue, o)
      <4>1. command.queue = <<FeeOf(o), TaxOf(o)>> \/ command.queue = <<TaxOf(o)>>
        BY <3>7 DEF Charging
      <4>. QED
        BY <3>3, <4>1
    <3>. QED
      BY <3>1, <3>5, <3>6, <3>7 DEF Remaining
  <2>. QED
    BY <1>1, <2>1, <2>2, <2>3 DEF QueueFits
<1>5. ConversionsInHand'
  <2> SUFFICES ASSUME crashes = 0, NEW i \in DOMAIN ledger, ledger[i].kind \in {"fx", "fx-credit"}
               PROVE  Recorded(Of(ledger[i], "fill"))
    BY <1>2 DEF ConversionsInHand, Recorded
  <2>1. \A k \in DOMAIN command.queue : ~SameKey(command.queue[k], Of(ledger[i], "fill"))
    BY <1>4, OfKinds DEF SameKey
  <2>. QED
    BY <2>1 DEF AccountInv, ConversionsInHand
<1>6. OnlyLossesOverdraw'
  BY <1>2, ReservesUnchanged, ReservesHold DEF AccountInv
<1>. QED
  BY <1>2, <1>3, <1>5, <1>6 DEF AccountInv, LedgerFits, CommandFits

LEMMA AppendNextKeeps ==
    ASSUME AccountInv, AppendNext
    PROVE  AccountInv'
<1>1. PICK e : e = Head(command.queue)
  OBVIOUS
<1>2. CASE Advances(e)
  BY <1>2, AdvancesKeeps
<1>3. CASE ~Advances(e)
  <2>1. /\ command # None /\ command.queue # <<>> /\ Recorded(e) /\ ~RecordedAs(e)
        /\ command' = None /\ UNCHANGED books /\ UNCHANGED <<account, targets, reports, crashes>>
    BY <1>1, <1>3 DEF AppendNext, Advances, Raise
  <2>. QED
    BY <1>1, <2>1, RaiseKeeps
<1>. QED
  BY <1>2, <1>3

-----------------------------------------------------------------------------
(***************************************************************************)
(* The actions that book nothing.                                          *)
(***************************************************************************)
LEMMA QuietStep ==
    ASSUME AccountInv, Quiet,
           account' \in {"absent", "prepared", "specified", "open"},
           targets' \in [Decisions -> Target \cup {None}],
           reports' \in [Sessions -> Report \cup {None}],
           \/ command' = None
           \/ command' \in Command /\ Located' /\ OrdersAreApproved' /\ QueueFits' /\ Reportable'
    PROVE  AccountInv'
<1>1. LedgerFits' /\ OnlyLossesOverdraw' /\ ConversionsInHand'
  BY QuietKeeps
<1>2. /\ TypeOK /\ ledger' = ledger /\ cash' = cash /\ held' = held /\ crashes' = crashes
  BY BooksStay DEF Quiet, AccountInv
<1>3. TypeOK'
  BY <1>2 DEF TypeOK
<1>4. CommandFits'
  BY DEF CommandFits
<1>. QED
  BY <1>1, <1>3, <1>4 DEF AccountInv, LedgerFits

LEMMA CommandEnds ==
    ASSUME AccountInv, Quiet, command' = None, UNCHANGED <<account, targets, reports>>
    PROVE  AccountInv'
<1>1. TypeOK
  BY DEF AccountInv
<1>. QED
  BY <1>1, QuietStep DEF TypeOK

\* The rest of the invariant when a command goes on to another phase.
LEMMA PhaseKeeps ==
    ASSUME AccountInv, command # None, command.queue = <<>>, Quiet,
           NEW phase \in Phases, NEW events \in Seq(Event), Then(phase, events),
           phase = "create" <=> command.phase = "create",
           account' \in {"absent", "prepared", "specified", "open"}, reports' = reports,
           targets' \in [Decisions -> Target \cup {None}],
           QueueFits', phase = "report" => Reportable'
    PROVE  AccountInv'
<1>1. /\ TypeOK /\ Located /\ OrdersAreApproved
      /\ reports \in [Sessions -> Report \cup {None}]
  BY DEF AccountInv, CommandFits, TypeOK
<1>2. /\ command' \in Command /\ command'.session = command.session
      /\ command'.bundle = command.bundle /\ command'.phase = phase
      /\ command'.orders = command.orders
  BY <1>1, NextPhase
<1>3. Located'
  BY <1>1, <1>2 DEF Located
<1>4. OrdersAreApproved'
  <2>1. ledger' = ledger
    BY DEF Quiet, books
  <2>. QED
    BY <1>1, <1>2, <2>1 DEF OrdersAreApproved, RecordedAs
<1>5. Reportable'
  BY <1>2 DEF Reportable
<1>. QED
  BY <1>1, <1>2, <1>3, <1>4, <1>5, QuietStep

\* An event about a session, without an amount to pay.
Notice(e) ==
    /\ e.kind \notin TradeKinds /\ e.kind # "order" /\ e.session = command.session
    /\ e.base >= 0 /\ e.foreign >= 0 /\ e.security = 0
    /\ NoteFits(e)

LEMMA NoticesArePlain ==
    ASSUME NEW queue, \A i \in DOMAIN queue : Notice(queue[i])
    PROVE  Plain(queue)
BY DEF Notice, Plain

\* A notice with its status.
LEMMA NoticeTyped ==
    ASSUME TypeOK, command # None,
           NEW kind \in {"decision", "target", "risk", "no-op", "halt", "approval"},
           NEW note \in {"none", "no_op", "approved", "rejected", "halted"},
           kind = "decision" => note # "none",
           kind = "approval" => note \in {"approved", "rejected"}
    PROVE  LET bare == Ev(kind, command.session, command.bundle, 0) IN
           /\ Noted(bare, note) \in Event /\ Notice(Noted(bare, note))
           /\ SameKey(Noted(bare, note), bare)
           /\ kind # "decision" /\ kind # "approval" => bare \in Event /\ Notice(bare)
<1> DEFINE bare == Ev(kind, command.session, command.bundle, 0)
<1>1. kind \in Kinds /\ kind \notin TradeKinds /\ kind # "order"
  BY DEF Kinds, TradeKinds
<1>2. /\ bare \in Event /\ bare.kind = kind /\ bare.session = command.session
      /\ bare.security = 0 /\ bare.base = 0 /\ bare.foreign = 0
  <2>1. /\ command.session \in Sessions \cup {0} /\ command.bundle \in Bundles \cup {0}
        /\ 0 \in Securities \cup {0} /\ kind \in Kinds
    BY <1>1, CommandTyped
  <2> HIDE DEF bare
  <2>2. \A s \in Sessions \cup {0}, b \in Bundles \cup {0}, x \in Securities \cup {0} :
           LET e == Ev(kind, s, b, x) IN
           /\ e \in Event /\ e.kind = kind /\ e.session = s /\ e.security = x
           /\ e.base = 0 /\ e.foreign = 0
    BY <1>1, EvTyped
  <2>. QED
    BY <2>1, <2>2 DEF bare
<1> HIDE DEF bare
<1>3. /\ Noted(bare, note) \in Event /\ SameKey(Noted(bare, note), bare)
      /\ Noted(bare, note).kind = kind /\ Noted(bare, note).session = command.session
      /\ Noted(bare, note).security = 0 /\ Noted(bare, note).note = note
      /\ Noted(bare, note).base = 0 /\ Noted(bare, note).foreign = 0
  BY <1>2, NotedTyped DEF Notes
<1>4. Notice(Noted(bare, note))
  BY <1>1, <1>3 DEF Notice, NoteFits
<1>5. kind # "decision" /\ kind # "approval" => Notice(bare)
  BY <1>1, <1>2 DEF Notice, NoteFits
<1>. QED
  BY <1>2, <1>3, <1>4, <1>5 DEF bare

\* A queue that is plain before the step is plain after it.
LEMMA PlainStays ==
    ASSUME NEW queue, Plain(queue), command'.queue = queue, command'.session = command.session,
           UNCHANGED books
    PROVE  QueueFits'
<1>1. Plain(command.queue)'
  <2>1. ledger' = ledger
    BY BooksStay
  <2>. QED
    BY <2>1 DEF Plain, RecordedAs
<1>. QED
  BY <1>1 DEF QueueFits

LEMMA HaltKeeps ==
    ASSUME AccountInv, command # None, command.queue = <<>>, command.phase # "create", Halt,
           UNCHANGED <<account, books, targets, reports, crashes>>
    PROVE  AccountInv'
<1> DEFINE bare     == Ev("decision", command.session, command.bundle, 0)
           decision == Noted(bare, "halted")
           halt     == Noted(Ev("halt", command.session, command.bundle, 0), "halted")
           first    == IF Recorded(decision) THEN <<>> ELSE <<decision>>
           events   == first \o <<halt>>
<1>1. TypeOK
  BY DEF AccountInv
<1>2. decision \in Event /\ Notice(decision) /\ SameKey(decision, bare)
  BY <1>1, NoticeTyped
<1>3. halt \in Event /\ Notice(halt)
  BY <1>1, NoticeTyped
<1>4. Then("report", events)
  BY DEF Halt
<1> HIDE DEF bare, decision, halt
<1>5. /\ first \in Seq(Event) /\ <<halt>> \in Seq(Event) /\ DOMAIN <<halt>> = {1}
      /\ \A i \in DOMAIN first : first[i] = decision
      /\ ~Recorded(decision) => 1 \in DOMAIN first /\ first[1] = decision
  BY <1>2, <1>3
<1> HIDE DEF first
<1>6. /\ events \in Seq(Event)
      /\ \A i \in DOMAIN events : events[i] \in {decision, halt}
      /\ ~Recorded(decision) => 1 \in DOMAIN events /\ events[1] = decision
  BY <1>3, <1>5, Concatenation
<1> HIDE DEF events
<1>7. Plain(events)
  BY <1>2, <1>3, <1>6, NoticesArePlain
<1>8. /\ command' \in Command /\ command'.session = command.session
      /\ command'.bundle = command.bundle /\ command'.phase = "report"
      /\ command'.queue = events
  BY <1>1, <1>4, <1>6, NextPhase DEF Phases
<1>9. QueueFits'
  BY <1>7, <1>8, PlainStays
<1>10. Reportable'
  <2>1. CASE Recorded(decision)
    <3>1. Recorded(bare)
      BY <1>2, <2>1, SameKeyIsEquivalence DEF Recorded
    <3>2. ledger' = ledger
      BY BooksStay
    <3>. QED
      BY <1>8, <3>1, <3>2 DEF Reportable, Recorded, bare
  <2>2. CASE ~Recorded(decision)
    <3>1. events # <<>> /\ SameKey(events[1], bare)
      BY <1>2, <1>6, <2>2
    <3>. QED
      BY <1>8, <3>1 DEF Reportable, bare
  <2>. QED
    BY <2>1, <2>2
<1>11. Quiet
  BY DEF Quiet
<1>12. "report" \in Phases
  BY DEF Phases
<1>. QED
  BY <1>1, <1>4, <1>6, <1>9, <1>10, <1>11, <1>12, PhaseKeeps DEF TypeOK

LEMMA CreateAccountKeeps ==
    ASSUME AccountInv, CreateAccount
    PROVE  AccountInv'
<1>1. command' = [phase |-> "create", session |-> 0, bundle |-> 0, orders |-> {}, queue |-> <<>>]
  BY DEF CreateAccount, Start
<1>2. command' \in Command
  BY <1>1 DEF Command, Phases
<1>3. Located' /\ OrdersAreApproved' /\ QueueFits' /\ Reportable'
  BY <1>1, EmptyQueueFits DEF Located, OrdersAreApproved, Reportable
<1>4. Quiet /\ account' = "prepared" /\ targets' = targets /\ reports' = reports
  BY DEF Quiet, CreateAccount
<1>. QED
  BY <1>2, <1>3, <1>4, QuietStep DEF AccountInv, TypeOK

LEMMA SpecifyAccountKeeps ==
    ASSUME AccountInv, SpecifyAccount
    PROVE  AccountInv'
<1>1. /\ Quiet /\ account' = "specified" /\ command # None
      /\ UNCHANGED <<ledger, targets, reports, command>>
  BY DEF Quiet, SpecifyAccount, At, books
<1>2. command' \in Command
  BY <1>1 DEF AccountInv, TypeOK
<1>3. Located' /\ OrdersAreApproved' /\ QueueFits' /\ Reportable'
  <2>1. Located /\ OrdersAreApproved /\ Reportable
    BY <1>1 DEF AccountInv, CommandFits
  <2>2. command'.queue = <<>>
    BY <1>1 DEF SpecifyAccount, At
  <2>. QED
    BY <1>1, <2>1, <2>2, EmptyQueueFits DEF Located, OrdersAreApproved, Reportable, RecordedAs, Recorded
<1>. QED
  BY <1>1, <1>2, <1>3, QuietStep DEF AccountInv, TypeOK

LEMMA OpenLedgerKeeps ==
    ASSUME AccountInv, OpenLedger
    PROVE  AccountInv'
<1> DEFINE deposit == [Ev("deposit", 0, 0, 0) EXCEPT !.base = InitialCash]
           events  == <<deposit>>
<1>1. /\ TypeOK /\ Quiet /\ command # None /\ command.queue = <<>> /\ command.phase = "create"
      /\ account' = "open" /\ Then("create", events)
      /\ UNCHANGED books /\ targets' = targets /\ reports' = reports
  BY DEF AccountInv, Quiet, OpenLedger, At
<1>2. command.session = 0
  BY <1>1 DEF AccountInv, CommandFits, Located
<1>3. /\ deposit \in Event /\ deposit.kind = "deposit" /\ deposit.session = 0
      /\ deposit.security = 0 /\ deposit.base = InitialCash /\ deposit.foreign = 0
  <2>1. "deposit" \in Kinds
    BY DEF Kinds
  <2>. QED
    BY <2>1, EvTyped, Numbers DEF Event
<1>4. Notice(deposit)
  BY <1>2, <1>3, Numbers DEF Notice, NoteFits, TradeKinds
<1> HIDE DEF deposit
<1>5. events \in Seq(Event) /\ \A i \in DOMAIN events : events[i] = deposit
  BY <1>3
<1> HIDE DEF events
<1>6. Plain(events) /\ "create" \in Phases
  BY <1>4, <1>5, NoticesArePlain DEF Phases
<1>7. QueueFits'
  BY <1>1, <1>5, <1>6, NextPhase, PlainStays
<1>. QED
  BY <1>1, <1>5, <1>6, <1>7, PhaseKeeps DEF TypeOK

LEMMA FinishCreationKeeps ==
    ASSUME AccountInv, FinishCreation
    PROVE  AccountInv'
BY CommandEnds DEF FinishCreation, Quiet, At

LEMMA StartSessionKeeps ==
    ASSUME AccountInv, NEW s \in Sessions, NEW b \in Bundles, StartSession(s, b)
    PROVE  AccountInv'
<1>1. command' = [phase |-> "actions", session |-> s, bundle |-> b, orders |-> {}, queue |-> <<>>]
  BY DEF StartSession, Start
<1>2. command' \in Command
  BY <1>1 DEF Command, Phases
<1>3. reports'[s] = None
  BY DEF StartSession
<1>4. Located' /\ OrdersAreApproved' /\ QueueFits' /\ Reportable'
  BY <1>1, <1>3, EmptyQueueFits DEF Located, OrdersAreApproved, Reportable
<1>5. Quiet /\ account' = account /\ targets' = targets /\ reports' = reports
  BY DEF Quiet, StartSession
<1>. QED
  BY <1>2, <1>4, <1>5, QuietStep DEF AccountInv, TypeOK

LEMMA ApplyActionKeeps ==
    ASSUME AccountInv, ApplyAction
    PROVE  AccountInv'
<1>1. /\ TypeOK /\ OnlyLossesOverdraw /\ Quiet /\ command # None /\ command.queue = <<>>
      /\ command.phase = "actions" /\ UNCHANGED <<account, books, targets, reports, crashes>>
  BY DEF AccountInv, Quiet, ApplyAction, At
<1>2. PICK a \in DueActions :
         IF held[a.security] > 0 /\ Lacks("actions", a.security) THEN Halt
         ELSE Then("actions", <<ActionEvent(a)>>)
  BY DEF ApplyAction
<1>3. CASE Halt
  BY <1>1, <1>3, HaltKeeps
<1>4. CASE Then("actions", <<ActionEvent(a)>>)
  <2>1. /\ a.session \in Sessions /\ a.security \in Securities /\ a.growth \in Int
        /\ a.growth >= -1 /\ a.cash \in Nat /\ a.session = command.session
    BY AccountAssumption DEF DueActions
  <2>2. held[a.security] \in Nat
    BY <1>1, <2>1, ReservesHold DEF TypeOK
  <2> DEFINE qty  == held[a.security] * a.growth
             cost == held[a.security] * a.cash
             bare == [Ev("action", a.session, 0, a.security) EXCEPT !.qty = qty]
  <2>3. qty \in Int /\ held[a.security] + qty >= 0
    BY <2>1, <2>2, Products
  <2>4. cost \in Int /\ cost >= 0
    BY <2>1, <2>2
  <2> HIDE DEF qty, cost
  <2>5. /\ bare \in Event /\ bare.kind = "action" /\ bare.session = a.session
        /\ bare.security = a.security /\ bare.qty = qty /\ bare.base = 0 /\ bare.foreign = 0
    <3>1. "action" \in Kinds
      BY DEF Kinds
    <3>. QED
      BY <2>1, <2>3, <3>1, EvTyped DEF Event
  <2>6. PICK e : e = ActionEvent(a)
    OBVIOUS
  <2>7. e = Booked(bare, cost)
    BY <2>6 DEF ActionEvent, qty, cost
  <2> HIDE DEF bare
  <2>8. /\ e \in Event /\ e.kind = "action" /\ e.session = command.session
        /\ e.security = a.security /\ e.qty = qty /\ e.base >= 0 /\ e.foreign >= 0
    <3>1. LET f == Booked(bare, cost) IN
          /\ f \in Event /\ f.kind = bare.kind /\ f.session = bare.session
          /\ f.security = bare.security /\ f.qty = bare.qty
          /\ bare.security \in Foreign => f.foreign = cost /\ f.base = bare.base
          /\ bare.security \notin Foreign => f.base = cost /\ f.foreign = bare.foreign
      BY <2>4, <2>5, BookedTyped
    <3>2. CASE bare.security \in Foreign
      BY <2>1, <2>4, <2>5, <2>7, <3>1, <3>2
    <3>3. CASE bare.security \notin Foreign
      BY <2>1, <2>4, <2>5, <2>7, <3>1, <3>3
    <3>. QED
      BY <3>2, <3>3
  <2>9. <<e>> \in Seq(Event) /\ "actions" \in Phases /\ Then("actions", <<e>>)
    BY <1>4, <2>6, <2>8 DEF Phases
  <2>10. command'.queue = <<e>> /\ command'.session = command.session
    BY <1>1, <2>9, NextPhase
  <2>11. held' = held
    BY <1>1, BooksStay
  <2>12. Acting(command.queue)'
    BY <2>1, <2>3, <2>8, <2>10, <2>11 DEF Acting
  <2>13. QueueFits'
    BY <2>12 DEF QueueFits
  <2>. QED
    BY <1>1, <2>9, <2>13, PhaseKeeps DEF TypeOK
<1>. QED
  BY <1>2, <1>3, <1>4

LEMMA ReadOrdersKeeps ==
    ASSUME AccountInv, ReadOrders
    PROVE  AccountInv'
<1> DEFINE current(e) == /\ e.kind = "order" /\ e.session + 1 = command.session
                         /\ <<e.session, e.bundle>> \in approved
           places == {i \in DOMAIN ledger : current(ledger[i])}
<1>1. /\ TypeOK /\ Quiet /\ command # None /\ command.queue = <<>> /\ command.phase = "actions"
      /\ UNCHANGED <<account, books, targets, reports, crashes>>
      /\ Located
  BY DEF AccountInv, Quiet, ReadOrders, At, CommandFits
<1>2. places \in SUBSET Nat
  BY <1>1, Places
<1>3. command' = [command EXCEPT !.phase = "settle", !.orders = places]
  BY DEF ReadOrders
<1>4. \A i \in places : /\ i \in DOMAIN ledger /\ ledger[i].kind = "order"
                        /\ ledger[i].session + 1 = command.session
                        /\ RecordedAs(ApprovalOf(ledger[i]))
  BY DEF approved, ApprovalOf
<1> HIDE DEF places
<1>5. /\ command' \in Command /\ command'.session = command.session
      /\ command'.bundle = command.bundle /\ command'.phase = "settle"
      /\ command'.queue = <<>> /\ command'.orders = places
  <2>1. "settle" \in Phases /\ command.queue \in Seq(Event)
    BY <1>1, CommandTyped DEF Phases
  <2>. QED
    BY <1>1, <1>2, <1>3, <2>1, NextOrders
<1>6. ledger' = ledger
  BY <1>1, BooksStay
<1>7. OrdersAreApproved'
  BY <1>4, <1>5, <1>6 DEF OrdersAreApproved, RecordedAs
<1>8. Located' /\ Reportable' /\ QueueFits'
  BY <1>1, <1>5, EmptyQueueFits DEF Located, Reportable
<1>. QED
  BY <1>1, <1>5, <1>7, <1>8, QuietStep DEF TypeOK

LEMMA DieKeeps ==
    ASSUME AccountInv, Die
    PROVE  AccountInv'
<1>1. /\ TypeOK /\ LedgerFits /\ OnlyLossesOverdraw /\ command' = None /\ crashes' = crashes + 1
      /\ crashes \in Nat /\ crashes' \in 0..MaxCrashes
      /\ UNCHANGED books /\ UNCHANGED <<account, targets, reports>>
  BY Numbers DEF AccountInv, LedgerFits, Die, TypeOK
<1>2. ledger' = ledger /\ cash' = cash /\ held' = held /\ LedgerFits'
  BY <1>1, BooksStay
<1>3. TypeOK'
  BY <1>1, <1>2 DEF TypeOK
<1>4. OnlyLossesOverdraw' /\ ConversionsInHand'
  BY <1>1, <1>2, ReservesUnchanged, ReservesHold DEF ConversionsInHand
<1>. QED
  BY <1>1, <1>2, <1>3, <1>4 DEF AccountInv, LedgerFits, CommandFits

-----------------------------------------------------------------------------
(***************************************************************************)
(* The settlement of an order, and the answers of the operator.            *)
(***************************************************************************)

\* A queue that fits the state still fits it when no trade is booked.
LEMMA QueueStays ==
    ASSUME NEW queue, Plain(queue) \/ Acting(queue) \/ Settling(queue),
           command'.queue = queue, command'.session = command.session,
           NEW e, GrownBy(e), e.kind \notin TradeKinds,
           cash' = cash, held' = held, crashes' = crashes
    PROVE  QueueFits'
<1>1. BaseReserve' = BaseReserve /\ ForeignReserve' = ForeignReserve
  BY ReservesStay DEF TradeKinds
<1>2. CASE Plain(queue)
  <2>1. \A f : RecordedAs(f) => RecordedAs(f)'
    BY RecordedGrows
  <2>2. Plain(command.queue)'
    <3> SUFFICES ASSUME NEW i \in DOMAIN queue, NEW f, f = queue[i]
                 PROVE  /\ f.kind \notin TradeKinds /\ f.session = command'.session
                        /\ f.base >= 0 /\ f.foreign >= 0
                        /\ f.kind # "order" => f.security = 0
                        /\ NoteFits(f)
                        /\ f.kind = "order" =>
                              \/ RecordedAs(ApprovedDecision(f))'
                              \/ \E j \in DOMAIN queue : j < i /\ queue[j] = ApprovedDecision(f)
      BY DEF Plain
    <3>. QED
      BY <1>2, <2>1 DEF Plain
  <2>. QED
    BY <2>2 DEF QueueFits
<1>3. CASE Acting(queue)
  BY <1>3 DEF QueueFits, Acting
<1>4. CASE Settling(queue)
  <2>1. PICK o \in Event :
           /\ o.kind = "order" /\ o.session + 1 = command.session
           /\ RecordedAs(o) /\ RecordedAs(ApprovalOf(o))
           /\ \/ \E n \in Nat : Converting(queue, o, n) \/ Crediting(queue, o, n)
              \/ Filling(queue, o)
              \/ Charging(queue, o)
    BY <1>4 DEF Settling
  <2>2. RecordedAs(o)' /\ RecordedAs(ApprovalOf(o))'
    BY <2>1, RecordedGrows
  <2>3. Filled(o)' = Filled(o) /\ Required(o)' = Required(o)
    BY SettlementFixed
  <2>4. ASSUME NEW kind \in {"fx", "fx-credit", "fill"}, ~Recorded(Of(o, kind))
        PROVE  ~Recorded(Of(o, kind))'
    <3>1. Of(o, kind).kind = kind /\ e.kind # kind
      BY OfKinds DEF TradeKinds
    <3>. QED
      BY <2>4, <3>1, OtherKind
  <2>5. Fillable(o) => Fillable(o)'
    BY <2>4 DEF Fillable
  <2>6. ASSUME NEW n \in Nat, Converting(queue, o, n)
        PROVE  Converting(command.queue, o, n)'
    <3>1. command'.queue = <<Debit(o, n), Credit(o, n), Filled(o)', FeeOf(o), TaxOf(o)>>
      BY <2>3, <2>6 DEF Converting
    <3>. QED
      BY <1>1, <2>3, <2>4, <2>5, <2>6, <3>1 DEF Converting
  <2>7. ASSUME NEW n \in Nat, Crediting(queue, o, n)
        PROVE  Crediting(command.queue, o, n)'
    <3>1. command'.queue = <<Credit(o, n), Filled(o)', FeeOf(o), TaxOf(o)>>
      BY <2>3, <2>7 DEF Crediting
    <3>2. RecordedAs(Debit(o, n))'
      BY <2>7, RecordedGrows DEF Crediting
    <3>. QED
      BY <1>1, <2>3, <2>4, <2>5, <2>7, <3>1, <3>2 DEF Crediting
  <2>8. ASSUME Filling(queue, o)
        PROVE  Filling(command.queue, o)'
    <3>1. command'.queue = <<Filled(o)', FeeOf(o), TaxOf(o)>>
      BY <2>3, <2>8 DEF Filling
    <3>. QED
      BY <1>1, <2>3, <2>5, <2>8, <3>1 DEF Filling, CanPay
  <2>9. Charging(queue, o) => Charging(command.queue, o)'
    BY <1>1 DEF Charging, CanPay
  <2>10. Settling(command.queue)'
    BY <2>1, <2>2, <2>6, <2>7, <2>8, <2>9 DEF Settling
  <2>. QED
    BY <2>10 DEF QueueFits
<1>. QED
  BY <1>2, <1>3, <1>4

LEMMA ApproveDecisionKeeps ==
    ASSUME AccountInv, NEW d \in Answered \X Bundles, NEW answer \in {"approved", "rejected"},
           ApproveDecision(d, answer)
    PROVE  AccountInv'
<1> DEFINE bare == Ev("approval", d[1], d[2], 0)
           e    == Answer(d, answer)
<1>1. TypeOK /\ Book(e) /\ UNCHANGED <<account, targets, reports, command, crashes>>
  BY DEF AccountInv, ApproveDecision
<1>2. bare \in Event /\ bare.kind = "approval" /\ bare.security = 0 /\ bare.qty = 0
      /\ bare.base = 0 /\ bare.foreign = 0
  <2>1. /\ "approval" \in Kinds /\ d[1] \in Sessions \cup {0} /\ d[2] \in Bundles \cup {0}
        /\ 0 \in Securities \cup {0}
    BY AccountAssumption DEF Kinds
  <2>2. \A s \in Sessions \cup {0}, b \in Bundles \cup {0}, x \in Securities \cup {0} :
           LET f == Ev("approval", s, b, x) IN
           /\ f \in Event /\ f.kind = "approval" /\ f.security = x
           /\ f.qty = 0 /\ f.base = 0 /\ f.foreign = 0
    BY <2>1, EvTyped
  <2>. QED
    BY <2>1, <2>2
<1>3. e = Noted(bare, answer)
  BY DEF Answer
<1> HIDE DEF bare, e
<1>4. /\ e \in Event /\ e.kind = "approval" /\ e.security = 0 /\ e.qty = 0
      /\ e.base = 0 /\ e.foreign = 0 /\ e.note = answer
  BY <1>2, <1>3, NotedTyped DEF Notes
<1>5. /\ GrownBy(e) /\ ledger' \in Seq(Event)
      /\ \A i, j \in DOMAIN ledger' : SameKey(ledger'[i], ledger'[j]) => i = j
  BY <1>1, <1>4, BookGrows DEF GrownBy
<1>6. cash \in [base : Int, foreign : Int]
  BY <1>1 DEF TypeOK
<1>7. held' = held
  BY <1>1, <1>4, BookMoney
<1>8. cash' = cash
  <2>1. cash' \in [base : Int, foreign : Int]
    BY <1>1, <1>4, BookMoney
  <2>2. cash'.base = cash.base /\ cash'.foreign = cash.foreign
    BY <1>1, <1>4, <1>6, BookMoney
  <2>. QED
    BY <1>6, <2>1, <2>2
<1>9. TypeOK'
  BY <1>1, <1>5, <1>7, <1>8 DEF TypeOK
<1>10. Founded(e)
  BY <1>4 DEF Founded, NoteFits
<1>11. NotesFit' /\ OrdersAreDecided' /\ FillsAreAuthorized' /\ CreditsAreDebited'
  BY <1>4, <1>5, <1>10, LedgerKeeps DEF AccountInv
<1>12. OnlyLossesOverdraw'
  <2>1. BaseReserve' = BaseReserve /\ ForeignReserve' = ForeignReserve
    BY <1>4, <1>5, <1>8, ReservesStay
  <2>. QED
    BY <1>1, <1>7, <2>1, ReservesHold DEF AccountInv
<1>13. ConversionsInHand'
  <2> SUFFICES ASSUME crashes = 0, NEW i \in DOMAIN ledger', NEW g, g = ledger'[i],
                      g.kind \in {"fx", "fx-credit"}
               PROVE  \/ Recorded(Of(g, "fill"))'
                      \/ /\ command # None
                         /\ \E k \in DOMAIN command.queue : SameKey(command.queue[k], Of(g, "fill"))
    BY <1>1 DEF ConversionsInHand
  <2>1. i \in DOMAIN ledger /\ g = ledger[i]
    BY <1>4, <1>5 DEF GrownBy
  <2>. QED
    BY <1>5, <2>1, RecordedGrows DEF AccountInv, ConversionsInHand
<1>14. CommandFits'
  <2> SUFFICES ASSUME command # None
               PROVE  Located' /\ OrdersAreApproved' /\ QueueFits' /\ Reportable'
    BY <1>1 DEF CommandFits
  <2>1. Located /\ OrdersAreApproved /\ QueueFits /\ Reportable
    BY DEF AccountInv, CommandFits
  <2>2. Located'
    BY <1>1, <2>1 DEF Located
  <2>3. OrdersAreApproved'
    <3> SUFFICES ASSUME NEW i \in command.orders, NEW o, o = ledger'[i]
                 PROVE  /\ i \in DOMAIN ledger'
                        /\ o.kind = "order" /\ o.session + 1 = command.session
                        /\ RecordedAs(ApprovalOf(o))'
      BY <1>1 DEF OrdersAreApproved
    <3>1. i \in DOMAIN ledger /\ o = ledger[i] /\ i \in DOMAIN ledger'
      BY <1>5, <2>1 DEF OrdersAreApproved, GrownBy
    <3>. QED
      BY <1>5, <2>1, <3>1, RecordedGrows DEF OrdersAreApproved
  <2>4. QueueFits'
    <3>1. e.kind \notin TradeKinds
      BY <1>4 DEF TradeKinds
    <3>. QED
      BY <1>1, <1>5, <1>7, <1>8, <2>1, <3>1, QueueStays DEF QueueFits
  <2>5. Reportable'
    <3>1. PICK f : f = Ev("decision", command.session, command.bundle, 0)
      OBVIOUS
    <3>2. Recorded(f) => Recorded(f)'
      BY <1>5, RecordedGrows
    <3>. QED
      BY <1>1, <2>1, <3>1, <3>2 DEF Reportable
  <2>. QED
    BY <2>2, <2>3, <2>4, <2>5
<1>. QED
  BY <1>9, <1>11, <1>12, <1>13, <1>14 DEF AccountInv

\* The next order is settled, by this queue.
LEMMA OrderQueued ==
    ASSUME AccountInv, command # None, command.queue = <<>>, command.phase = "settle",
           UNCHANGED <<account, books, targets, reports, crashes>>,
           NEW i \in command.orders, NEW events \in Seq(Event),
           command' = [command EXCEPT !.orders = @ \ {i}, !.queue = events],
           Plain(events) \/ Settling(events)
    PROVE  AccountInv'
<1>1. TypeOK /\ Located /\ OrdersAreApproved /\ Quiet
  BY DEF AccountInv, CommandFits, Quiet
<1>2. command' = [command EXCEPT !.orders = command.orders \ {i}, !.queue = events]
  OBVIOUS
<1>3. /\ command' \in Command /\ command'.session = command.session
      /\ command'.bundle = command.bundle /\ command'.phase = "settle"
      /\ command'.queue = events /\ command'.orders = command.orders \ {i}
  <2>1. "settle" \in Phases /\ command.orders \ {i} \in SUBSET Nat
    BY <1>1, CommandTyped DEF Phases
  <2>. QED
    BY <1>1, <1>2, <2>1, NextOrders
<1>4. ledger' = ledger /\ cash' = cash /\ held' = held /\ crashes' = crashes
  BY BooksStay
<1>5. Located' /\ Reportable'
  BY <1>1, <1>3 DEF Located, Reportable
<1>6. OrdersAreApproved'
  BY <1>1, <1>3, <1>4 DEF OrdersAreApproved, RecordedAs
<1>7. QueueFits'
  <2>1. PICK e : e = Ev("deposit", 0, 0, 0)
    OBVIOUS
  <2>2. e.kind \notin TradeKinds
    BY <2>1 DEF Ev, TradeKinds
  <2>3. GrownBy(e)
    BY <1>1, <1>4, LedgerUnchanged
  <2>. QED
    BY <1>3, <1>4, <2>2, <2>3, QueueStays
<1>. QED
  BY <1>1, <1>3, <1>5, <1>6, <1>7, QuietStep DEF TypeOK

\* Before a death, an order without a fill has no conversion either.
LEMMA NothingConverted ==
    ASSUME AccountInv, command.queue = <<>>, crashes = 0, NEW o, ~Recorded(Of(o, "fill"))
    PROVE  ~Recorded(Of(o, "fx")) /\ ~Recorded(Of(o, "fx-credit"))
<1>1. SUFFICES ASSUME NEW kind \in {"fx", "fx-credit"}, Recorded(Of(o, kind))
               PROVE  FALSE
  OBVIOUS
<1>2. PICK i \in DOMAIN ledger : SameKey(ledger[i], Of(o, kind))
  BY <1>1 DEF Recorded
<1>3. /\ ledger[i].kind = kind /\ ledger[i].session = o.session
      /\ ledger[i].bundle = o.bundle /\ ledger[i].security = o.security
  BY <1>2 DEF SameKey, Of, Ev
<1>4. Of(ledger[i], "fill") = Of(o, "fill")
  BY <1>3, SameOrder
<1>5. DOMAIN <<>> = {}
  OBVIOUS
<1>. QED
  BY <1>3, <1>4, <1>5 DEF AccountInv, ConversionsInHand

LEMMA SettleOrderKeeps ==
    ASSUME AccountInv, SettleOrder
    PROVE  AccountInv'
<1>1. /\ TypeOK /\ OnlyLossesOverdraw /\ Quiet /\ command # None /\ command.queue = <<>>
      /\ command.phase = "settle" /\ UNCHANGED <<account, books, targets, reports, crashes>>
      /\ OrdersAreApproved
  BY DEF AccountInv, Quiet, SettleOrder, At, CommandFits
<1> DEFINE Goes(i, events) == command' = [command EXCEPT !.orders = @ \ {i}, !.queue = events]
<1>2. PICK i \in command.orders :
         LET o == ledger[i] IN
         IF Recorded(Of(o, "fill")) THEN Goes(i, <<>>)
         ELSE IF Lacks("settle", o.security) THEN Halt
         ELSE IF o.qty > 0
              THEN IF Funds(o) < Required(o) THEN Raise ELSE Goes(i, Conversion(o) \o Fill(o))
              ELSE IF held[o.security] < -o.qty THEN Raise ELSE Goes(i, Fill(o))
  BY DEF SettleOrder
<1>3. PICK o : o = ledger[i]
  OBVIOUS
<1>4. i \in DOMAIN ledger /\ SettlesOrder(o)
  BY <1>1, <1>3, Places DEF OrdersAreApproved, SettlesOrder, RecordedAs
<1>5. /\ o \in Event /\ o.kind = "order" /\ o.qty # 0 /\ o.qty \in Int
      /\ o.session \in Sessions /\ o.bundle \in Bundles /\ o.security \in Securities
      /\ command.session \in Sessions
  BY <1>1, <1>4, OrderTyped
<1>6. /\ Trade(o) \in Int /\ Required(o) = Trade(o) + Fee + Tax /\ Required(o) \in Int
      /\ Filled(o) \in Event /\ FeeOf(o) \in Event /\ TaxOf(o) \in Event
  BY <1>5, SettlementTyped
<1>7. /\ cash.base \in Int /\ cash.foreign \in Int
      /\ BaseReserve \in Int /\ BaseReserve >= cash.base
      /\ ForeignReserve \in Int /\ ForeignReserve >= cash.foreign
      /\ held[o.security] \in Int /\ held[o.security] >= 0
  <2>1. PICK u, v : u = Uncovered(Securities \ Foreign) /\ v = Uncovered(Foreign)
    OBVIOUS
  <2>2. u \in Nat /\ v \in Nat
    BY <1>1, <2>1, UncoveredCounted
  <2>3. BaseReserve = cash.base + u /\ ForeignReserve = cash.foreign + v
    BY <2>1 DEF BaseReserve, ForeignReserve
  <2>4. cash.base \in Int /\ cash.foreign \in Int /\ held[o.security] \in Int
    BY <1>1, <1>5 DEF TypeOK
  <2>. QED
    BY <1>1, <1>5, <2>2, <2>3, <2>4, ReservesHold
<1>8. Fill(o) = <<Filled(o), FeeOf(o), TaxOf(o)>>
  BY DEF Fill, Filled, FeeOf, TaxOf
<1>9. ASSUME Filling(Fill(o), o)
      PROVE  Settling(Fill(o))
  BY <1>4, <1>9 DEF Settling, SettlesOrder
<1>10. Fill(o) \in Seq(Event)
  BY <1>6, <1>8, Tuples
<1>11. CASE Recorded(Of(o, "fill"))
  <2>1. Goes(i, <<>>)
    BY <1>2, <1>3, <1>11
  <2>2. Plain(<<>>) /\ <<>> \in Seq(Event)
    BY DEF Plain
  <2>. QED
    BY <1>1, <2>1, <2>2, OrderQueued
<1>12. CASE ~Recorded(Of(o, "fill")) /\ Lacks("settle", o.security)
  BY <1>1, <1>2, <1>3, <1>12, HaltKeeps
<1>13. CASE Raise
  BY <1>1, <1>13, CommandEnds DEF Raise
<1>14. CASE /\ ~Recorded(Of(o, "fill")) /\ o.qty > 0 /\ ~(Funds(o) < Required(o))
            /\ Goes(i, Conversion(o) \o Fill(o))
  <2>1. Fillable(o)
    BY <1>5, <1>7, <1>14 DEF Fillable
  <2> DEFINE shortfall == Required(o) - cash.foreign
  <2>2. CASE o.security \in Foreign /\ shortfall > 0
    <3>1. shortfall \in Nat
      BY <1>6, <1>7, <2>2
    <3>2. PICK n \in Nat : n = shortfall
      BY <3>1
    <3>3. Conversion(o) = <<Debit(o, n), Credit(o, n)>>
      BY <2>2, <3>2 DEF Conversion, Debit, Credit
    <3>4. Debit(o, n) \in Event /\ Credit(o, n) \in Event
      BY <1>5, ConversionTyped
    <3>5. /\ Conversion(o) \o Fill(o) = <<Debit(o, n), Credit(o, n), Filled(o), FeeOf(o), TaxOf(o)>>
          /\ Conversion(o) \o Fill(o) \in Seq(Event)
      <4>1. /\ <<Debit(o, n), Credit(o, n)>> \o <<Filled(o), FeeOf(o), TaxOf(o)>>
                  = <<Debit(o, n), Credit(o, n), Filled(o), FeeOf(o), TaxOf(o)>>
            /\ <<Debit(o, n), Credit(o, n), Filled(o), FeeOf(o), TaxOf(o)>> \in Seq(Event)
        <5>1. \A a, b, c, d, e \in Event :
                 /\ <<a, b>> \o <<c, d, e>> = <<a, b, c, d, e>>
                 /\ <<a, b, c, d, e>> \in Seq(Event)
          BY Joined
        <5>. QED
          BY <1>6, <3>4, <5>1
      <4>. QED
        BY <1>8, <3>3, <4>1
    <3>6. BaseReserve >= n /\ ForeignReserve + n >= Required(o)
      <4>1. ~(cash.foreign + cash.base < Required(o))
        BY <1>14, <2>2 DEF Funds
      <4>. QED
        BY <1>6, <1>7, <3>2, <4>1
    <3>7. Converting(Conversion(o) \o Fill(o), o, n)
      BY <1>1, <1>14, <2>1, <2>2, <3>5, <3>6, NothingConverted DEF Converting
    <3>8. Settling(Conversion(o) \o Fill(o))
      BY <1>4, <3>7 DEF Settling, SettlesOrder
    <3>. QED
      BY <1>1, <1>14, <3>5, <3>8, OrderQueued
  <2>3. CASE ~(o.security \in Foreign /\ shortfall > 0)
    <3>1. Conversion(o) = <<>>
      BY <2>3 DEF Conversion
    <3>2. Conversion(o) \o Fill(o) = Fill(o)
      BY <1>6, <1>8, <3>1, Tuples
    <3>3. CanPay(o, Required(o))
      BY <1>6, <1>7, <1>14, <2>3 DEF CanPay, Funds
    <3>4. Filling(Fill(o), o)
      BY <1>8, <2>1, <3>3 DEF Filling
    <3>. QED
      BY <1>1, <1>9, <1>10, <1>14, <3>2, <3>4, OrderQueued
  <2>. QED
    BY <2>2, <2>3
<1>15. CASE /\ ~Recorded(Of(o, "fill")) /\ ~(o.qty > 0) /\ ~(held[o.security] < -o.qty)
            /\ Goes(i, Fill(o))
  <2>1. o.qty <= -1 /\ held[o.security] + o.qty >= 0
    BY <1>5, <1>7, <1>15
  <2>2. Filling(Fill(o), o)
    BY <1>5, <1>8, <1>15, <2>1 DEF Filling, Fillable
  <2>. QED
    BY <1>1, <1>9, <1>10, <1>15, <2>2, OrderQueued
<1> HIDE DEF Goes
<1>. QED
  BY <1>2, <1>3, <1>11, <1>12, <1>13, <1>14, <1>15

LEMMA AppendValuationKeeps ==
    ASSUME AccountInv, AppendValuation
    PROVE  AccountInv'
<1> DEFINE nav       == cash.base + cash.foreign + Value(command.session, held)
           sign      == IF cash.base + cash.foreign < 0 THEN "overdrawn" ELSE "none"
           valuation == Noted([Ev("valuation", command.session, 0, 0) EXCEPT !.nav = nav], sign)
           events    == IF Recorded(valuation) THEN <<>> ELSE <<valuation>>
<1>1. /\ TypeOK /\ Quiet /\ command # None /\ command.queue = <<>>
      /\ command.phase = "settle" /\ UNCHANGED <<account, books, targets, reports, crashes>>
  BY DEF AccountInv, Quiet, AppendValuation, At
<1>2. \/ Halt \/ Raise
      \/ nav \in Nat \ {0} /\ Then("decide", events)
  BY DEF AppendValuation
<1>3. CASE Halt
  BY <1>1, <1>3, HaltKeeps
<1>4. CASE Raise
  BY <1>1, <1>4, CommandEnds DEF Raise
<1>5. CASE nav \in Nat \ {0} /\ Then("decide", events)
  <2> DEFINE valued == [Ev("valuation", command.session, 0, 0) EXCEPT !.nav = nav]
  <2> HIDE DEF nav
  <2>1. /\ valuation \in Event /\ valuation.kind = "valuation"
        /\ valuation.session = command.session /\ valuation.security = 0
        /\ valuation.base = 0 /\ valuation.foreign = 0
    <3> DEFINE bare == Ev("valuation", command.session, 0, 0)
    <3>1. "valuation" \in Kinds /\ command.session \in Sessions \cup {0}
      BY <1>1, CommandTyped DEF Kinds
    <3>2. \A s \in Sessions \cup {0} :
             LET e == Ev("valuation", s, 0, 0) IN
             /\ e \in Event /\ e.kind = "valuation" /\ e.session = s /\ e.security = 0
             /\ e.base = 0 /\ e.foreign = 0
      BY <3>1, EvTyped
    <3>3. /\ bare \in Event /\ bare.kind = "valuation" /\ bare.session = command.session
          /\ bare.security = 0 /\ bare.base = 0 /\ bare.foreign = 0
      BY <3>1, <3>2
    <3>4. valued = [bare EXCEPT !.nav = nav] /\ valuation = Noted(valued, sign)
      OBVIOUS
    <3>5. sign \in Notes
      BY DEF Notes
    <3> HIDE DEF bare, valued, valuation, sign
    <3>6. /\ valued \in Event /\ valued.kind = "valuation" /\ valued.session = command.session
          /\ valued.security = 0 /\ valued.base = 0 /\ valued.foreign = 0
      BY <1>5, <3>3, <3>4 DEF Event
    <3>. QED
      BY <3>4, <3>5, <3>6, NotedTyped
  <2>2. Notice(valuation)
    BY <2>1 DEF Notice, NoteFits, TradeKinds
  <2> HIDE DEF valuation
  <2>3. events \in Seq(Event) /\ \A i \in DOMAIN events : events[i] = valuation
    BY <2>1
  <2> HIDE DEF events
  <2>4. Plain(events) /\ "decide" \in Phases
    BY <2>2, <2>3, NoticesArePlain DEF Phases
  <2>5. QueueFits'
    BY <1>1, <1>5, <2>3, <2>4, NextPhase, PlainStays
  <2>. QED
    BY <1>1, <1>5, <2>3, <2>4, <2>5, PhaseKeeps DEF TypeOK
<1>. QED
  BY <1>2, <1>3, <1>4, <1>5

-----------------------------------------------------------------------------
(***************************************************************************)
(* The decision and the report.                                            *)
(***************************************************************************)

\* Notices that begin with the decision the report will speak of.
LEMMA NoticesKeep ==
    ASSUME AccountInv, command # None, command.queue = <<>>, command.phase = "decide",
           UNCHANGED <<account, books, reports, crashes>>,
           targets' \in [Decisions -> Target \cup {None}],
           NEW events \in Seq(Event), Then("report", events), Plain(events),
           LET decision == Ev("decision", command.session, command.bundle, 0) IN
           Recorded(decision) \/ (events # <<>> /\ SameKey(events[1], decision))
    PROVE  AccountInv'
<1>1. TypeOK /\ Quiet /\ "report" \in Phases
  BY DEF AccountInv, Quiet, Phases
<1>2. /\ command'.session = command.session /\ command'.bundle = command.bundle
      /\ command'.phase = "report" /\ command'.queue = events
  BY <1>1, NextPhase
<1>3. QueueFits'
  BY <1>2, PlainStays
<1>4. ledger' = ledger
  BY BooksStay
<1>5. Reportable'
  BY <1>2, <1>4 DEF Reportable, Recorded
<1>. QED
  BY <1>1, <1>3, <1>5, PhaseKeeps DEF TypeOK

\* The orders of a decision, one per security.
LEMMA OrdersTyped ==
    ASSUME TypeOK, command # None, command.session \in Sessions, command.bundle \in Bundles,
           NEW quantity \in [Securities -> Nat]
    PROVE  /\ OrdersFor(quantity) \in Seq(Event)
           /\ \A i \in DOMAIN OrdersFor(quantity) :
                 LET e == OrdersFor(quantity)[i] IN
                 /\ e.kind = "order" /\ e.session = command.session /\ e.bundle = command.bundle
                 /\ e.base = 0 /\ e.foreign = 0
                 /\ NoteFits(e)
<1> DEFINE order(x) == [Ev("order", command.session, command.bundle, x) EXCEPT
                           !.qty = quantity[x] - held[x]]
<1>1. OrdersFor(quantity) = [x \in Securities |-> order(x)]
  BY DEF OrdersFor
<1>2. ASSUME NEW x \in Securities
      PROVE  /\ order(x) \in Event /\ order(x).kind = "order"
             /\ order(x).session = command.session /\ order(x).bundle = command.bundle
             /\ order(x).base = 0 /\ order(x).foreign = 0
             /\ NoteFits(order(x))
  <2> DEFINE bare == Ev("order", command.session, command.bundle, x)
             qty  == quantity[x] - held[x]
  <2>1. "order" \in Kinds
    BY DEF Kinds
  <2>2. /\ bare \in Event /\ bare.kind = "order" /\ bare.session = command.session
        /\ bare.bundle = command.bundle /\ bare.security = x /\ bare.note = "none"
        /\ bare.base = 0 /\ bare.foreign = 0
    BY <2>1, EvTyped
  <2>3. qty \in Int
    BY DEF TypeOK
  <2>4. order(x) = [bare EXCEPT !.qty = qty]
    OBVIOUS
  <2> HIDE DEF bare, qty, order
  <2>5. /\ order(x) \in Event /\ order(x).kind = "order"
        /\ order(x).session = command.session /\ order(x).bundle = command.bundle
        /\ order(x).security = x /\ order(x).note = "none"
        /\ order(x).base = 0 /\ order(x).foreign = 0
    BY <2>2, <2>3, <2>4 DEF Event
  <2>. QED
    BY <2>5 DEF NoteFits
<1> HIDE DEF order
<1>3. OrdersFor(quantity) \in Seq(Event)
  <2>1. PICK n \in Nat : Securities = 1..n
    BY AccountAssumption, FS_CardinalityType
  <2>. QED
    BY <1>1, <1>2, <2>1
<1>. QED
  BY <1>1, <1>2, <1>3

\* The events of a decision: the orders come behind the decision that they belong to.
LEMMA DecisionEventsPlain ==
    ASSUME TypeOK, command # None, command.session \in Sessions, command.bundle \in Bundles,
           NEW target \in Target
    PROVE  /\ DecisionEvents(target) \in Seq(Event) /\ DecisionEvents(target) # <<>>
           /\ Plain(DecisionEvents(target))
           /\ SameKey(DecisionEvents(target)[1], Ev("decision", command.session, command.bundle, 0))
<1> DEFINE s == command.session
           b == command.bundle
           decision == Noted(Ev("decision", s, b, 0), target.verdict)
           record   == Ev("target", s, b, 0)
           risk     == Noted(Ev("risk", s, b, 0), target.verdict)
           no_op    == Ev("no-op", s, b, 0)
           answer   == Answer(<<s, b>>, "approved")
           head     == <<decision, record, risk>>
           last     == IF AutoApprove THEN <<answer>> ELSE <<>>
           tail     == IF target.verdict = "rejected" THEN <<>>
                       ELSE IF Changed(target.quantity) = {} THEN <<no_op>>
                       ELSE OrdersFor(target.quantity) \o last
<1>1. target.quantity \in [Securities -> Nat] /\ target.verdict \in {"approved", "rejected"}
  BY DEF Target
<1>2. /\ decision \in Event /\ Notice(decision)
      /\ SameKey(decision, Ev("decision", s, b, 0))
  BY <1>1, NoticeTyped
<1>3. record \in Event /\ Notice(record) /\ no_op \in Event /\ Notice(no_op)
  BY NoticeTyped
<1>4. risk \in Event /\ Notice(risk)
  BY <1>1, NoticeTyped
<1>5. answer \in Event /\ Notice(answer)
  <2>1. answer = Noted(Ev("approval", s, b, 0), "approved")
    BY DEF Answer
  <2>. QED
    BY <2>1, NoticeTyped
<1>6. ASSUME target.verdict # "rejected", NEW e, e.session = s, e.bundle = b
      PROVE  decision = ApprovedDecision(e)
  BY <1>1, <1>6 DEF ApprovedDecision
<1>7. DecisionEvents(target) = head \o tail
  BY DEF DecisionEvents
<1> DEFINE orders == OrdersFor(target.quantity)
<1>8. /\ orders \in Seq(Event)
      /\ \A i \in DOMAIN orders :
            LET e == orders[i] IN
            /\ e.kind = "order" /\ e.session = s /\ e.bundle = b
            /\ e.base = 0 /\ e.foreign = 0 /\ NoteFits(e)
  BY <1>1, OrdersTyped
<1> HIDE DEF s, b, decision, record, risk, no_op, answer, orders
<1>9. last \in Seq(Event) /\ \A i \in DOMAIN last : Notice(last[i])
  BY <1>5
<1> HIDE DEF last
<1>10. /\ orders \o last \in Seq(Event)
       /\ \A i \in DOMAIN (orders \o last) :
             LET e == (orders \o last)[i] IN
             \/ Notice(e)
             \/ /\ e.kind = "order" /\ e.session = s /\ e.bundle = b
                /\ e.base = 0 /\ e.foreign = 0 /\ NoteFits(e)
  BY <1>8, <1>9, Concatenation
<1>11. /\ tail \in Seq(Event)
       /\ \A i \in DOMAIN tail :
             LET e == tail[i] IN
             \/ Notice(e)
             \/ /\ target.verdict # "rejected"
                /\ e.kind = "order" /\ e.session = s /\ e.bundle = b
                /\ e.base = 0 /\ e.foreign = 0 /\ NoteFits(e)
  <2>1. CASE target.verdict = "rejected"
    BY <2>1
  <2>2. CASE target.verdict # "rejected" /\ Changed(target.quantity) = {}
    <3>1. tail = <<no_op>>
      BY <2>2
    <3>2. <<no_op>> \in Seq(Event) /\ \A i \in DOMAIN <<no_op>> : Notice(<<no_op>>[i])
      BY <1>3
    <3> HIDE DEF tail
    <3>. QED
      BY <3>1, <3>2
  <2>3. CASE target.verdict # "rejected" /\ Changed(target.quantity) # {}
    <3>1. tail = orders \o last
      BY <2>3 DEF orders
    <3>. QED
      BY <1>10, <2>3, <3>1
  <2>. QED
    BY <2>1, <2>2, <2>3
<1> HIDE DEF tail
<1>12. /\ head \in Seq(Event) /\ head[1] = decision /\ 1 \in DOMAIN head /\ Len(head) = 3
       /\ \A i \in DOMAIN head : Notice(head[i])
  BY <1>2, <1>3, <1>4
<1> HIDE DEF head
<1> DEFINE events == head \o tail
<1>13. /\ events \in Seq(Event) /\ 1 \in DOMAIN events /\ events[1] = decision
       /\ \A i \in DOMAIN events :
             LET e == events[i] IN
             \/ Notice(e)
             \/ /\ target.verdict # "rejected" /\ i > 1
                /\ e.kind = "order" /\ e.session = s /\ e.bundle = b
                /\ e.base = 0 /\ e.foreign = 0 /\ NoteFits(e)
  BY <1>11, <1>12, Concatenation
<1> HIDE DEF events
<1>14. Plain(events)
  <2> SUFFICES ASSUME NEW i \in DOMAIN events, NEW e, e = events[i]
               PROVE  /\ e.kind \notin TradeKinds /\ e.session = command.session
                      /\ e.base >= 0 /\ e.foreign >= 0
                      /\ e.kind # "order" => e.security = 0
                      /\ NoteFits(e)
                      /\ e.kind = "order" =>
                            \/ RecordedAs(ApprovedDecision(e))
                            \/ \E j \in DOMAIN events : j < i /\ events[j] = ApprovedDecision(e)
    BY DEF Plain
  <2>1. CASE Notice(e)
    BY <2>1 DEF Notice
  <2>2. CASE /\ target.verdict # "rejected" /\ i > 1
             /\ e.kind = "order" /\ e.session = s /\ e.bundle = b
             /\ e.base = 0 /\ e.foreign = 0 /\ NoteFits(e)
    <3>1. decision = ApprovedDecision(e)
      BY <1>6, <2>2
    <3>2. 1 < i
      BY <2>2
    <3>3. \E j \in DOMAIN events : j < i /\ events[j] = ApprovedDecision(e)
      BY <1>13, <3>1, <3>2
    <3>4. e.kind \notin TradeKinds
      BY <2>2 DEF TradeKinds
    <3>. QED
      BY <2>2, <3>3, <3>4 DEF s
  <2>. QED
    BY <1>13, <2>1, <2>2
<1>. QED
  BY <1>2, <1>7, <1>13, <1>14 DEF events, s, b

LEMMA DecideKeeps ==
    ASSUME AccountInv, Decide
    PROVE  AccountInv'
<1> DEFINE s         == command.session
           b         == command.bundle
           bare      == Ev("decision", s, b, 0)
           unchanged == Noted(bare, "no_op")
           no_op     == Ev("no-op", s, b, 0)
<1>1. /\ TypeOK /\ Quiet /\ command # None /\ command.queue = <<>> /\ command.phase = "decide"
      /\ UNCHANGED <<account, books, reports, crashes>>
  BY DEF AccountInv, Quiet, Decide, At
<1>2. s \in Sessions /\ b \in Bundles
  BY <1>1 DEF AccountInv, CommandFits, Located
<1>3. targets \in [Decisions -> Target \cup {None}]
  BY <1>1 DEF TypeOK
<1>4. /\ unchanged \in Event /\ Notice(unchanged) /\ SameKey(unchanged, bare)
      /\ no_op \in Event /\ Notice(no_op)
  BY <1>1, NoticeTyped
<1>5. \/ Recorded(unchanged) /\ Then("report", <<>>) /\ UNCHANGED targets
      \/ Then("report", <<unchanged, no_op>>) /\ UNCHANGED targets
      \/ Halt /\ UNCHANGED targets
      \/ Raise /\ UNCHANGED targets
      \/ \E quantity \in Plans[s] : WriteTarget(quantity)
  BY DEF Decide
<1> HIDE DEF unchanged, no_op, bare
<1>6. CASE Recorded(unchanged) /\ Then("report", <<>>) /\ UNCHANGED targets
  <2>1. Recorded(bare)
    BY <1>4, <1>6, RecordedTogether
  <2>2. Plain(<<>>) /\ <<>> \in Seq(Event)
    BY DEF Plain
  <2>. QED
    BY <1>1, <1>3, <1>6, <2>1, <2>2, NoticesKeep DEF bare
<1>7. CASE Then("report", <<unchanged, no_op>>) /\ UNCHANGED targets
  <2> DEFINE events == <<unchanged, no_op>>
  <2>1. /\ events \in Seq(Event) /\ events # <<>> /\ events[1] = unchanged
        /\ \A i \in DOMAIN events : Notice(events[i])
    BY <1>4
  <2>2. Then("report", events)
    BY <1>7
  <2> HIDE DEF events
  <2>3. Plain(events) /\ SameKey(events[1], bare)
    BY <1>4, <2>1, NoticesArePlain
  <2>. QED
    BY <1>1, <1>3, <1>7, <2>1, <2>2, <2>3, NoticesKeep DEF bare
<1>8. CASE Halt /\ UNCHANGED targets
  BY <1>1, <1>8, HaltKeeps
<1>9. CASE \E quantity \in Plans[s] : WriteTarget(quantity)
  <2>1. PICK quantity \in Plans[s] : WriteTarget(quantity)
    BY <1>9
  <2>2. PICK target : target = [quantity |-> quantity, verdict |-> Verdict(quantity), held |-> held]
    OBVIOUS
  <2>3. target \in Target
    <3>1. quantity \in [Securities -> Nat]
      BY <1>2, AccountAssumption
    <3>2. Verdict(quantity) \in {"approved", "rejected"}
      BY DEF Verdict
    <3>. QED
      BY <1>1, <2>2, <3>1, <3>2 DEF TypeOK, Target
  <2>4. \/ targets' = [targets EXCEPT ![<<s, b>>] = target] /\ Then("report", DecisionEvents(target))
        \/ UNCHANGED targets /\ Raise
    BY <2>1, <2>2 DEF WriteTarget
  <2>5. CASE targets' = [targets EXCEPT ![<<s, b>>] = target] /\ Then("report", DecisionEvents(target))
    <3>1. targets' \in [Decisions -> Target \cup {None}]
      BY <1>3, <2>3, <2>5
    <3>2. PICK events : events = DecisionEvents(target)
      OBVIOUS
    <3>3. /\ events \in Seq(Event) /\ events # <<>> /\ Plain(events)
          /\ SameKey(events[1], Ev("decision", s, b, 0))
      BY <1>1, <1>2, <2>3, <3>2, DecisionEventsPlain
    <3>. QED
      BY <1>1, <2>5, <3>1, <3>2, <3>3, NoticesKeep
  <2>6. CASE UNCHANGED targets /\ Raise
    BY <1>1, <2>6, CommandEnds DEF Raise
  <2>. QED
    BY <2>4, <2>5, <2>6
<1>10. CASE Raise /\ UNCHANGED targets
  BY <1>1, <1>10, CommandEnds DEF Raise
<1>. QED
  BY <1>5, <1>6, <1>7, <1>8, <1>9, <1>10

\* What a report says is in the ledger: a decision with its status, answers with theirs.
LEMMA ReportTyped ==
    ASSUME TypeOK, NotesFit, NEW s, NEW b \in Bundles, Recorded(Ev("decision", s, b, 0))
    PROVE  ReportOf(s, b) \in Report
<1> DEFINE decisions == Keyed(Ev("decision", s, b, 0))
           decision  == CHOOSE e \in decisions : TRUE
           answers   == Keyed(Ev("approval", s, b, 0))
           answer    == CHOOSE a \in answers : TRUE
           orders    == UNION {Keyed(Ev("order", s, b, x)) : x \in Securities}
           open      == answers = {} /\ \E o \in orders : ~Recorded(Of(o, "fill"))
           status    == IF decision.note # "approved" THEN decision.note
                        ELSE IF orders = {} THEN "no_op"
                        ELSE IF open THEN "proposed" ELSE "approved"
           approval  == IF orders = {} THEN "not_required"
                        ELSE IF answers = {} THEN "pending" ELSE answer.note
<1>1. ReportOf(s, b) = [bundle |-> b, status |-> status, approval |-> approval]
  BY DEF ReportOf
<1>2. \A e : \A f \in Keyed(e) : f.kind = e.kind /\ NoteFits(f)
  BY DEF Keyed, SameKey, NotesFit, Range
<1>3. Ev("decision", s, b, 0).kind = "decision" /\ Ev("approval", s, b, 0).kind = "approval"
  BY DEF Ev
<1>4. decisions # {}
  BY DEF Recorded, Keyed, Range
<1>5. decision \in decisions
  BY <1>4
<1>6. decision.note \in {"no_op", "approved", "rejected", "halted"}
  <2>1. decision.kind = "decision" /\ NoteFits(decision)
    BY <1>2, <1>3, <1>5
  <2>. QED
    BY <2>1 DEF NoteFits
<1>7. answers # {} => answer.note \in {"approved", "rejected"}
  <2> HAVE answers # {}
  <2>1. answer \in answers
    OBVIOUS
  <2>2. answer.kind = "approval" /\ NoteFits(answer)
    BY <1>2, <1>3, <2>1
  <2>. QED
    BY <2>2 DEF NoteFits
<1> HIDE DEF decision, answer, answers, orders, open
<1>8. status \in {"no_op", "proposed", "approved", "rejected", "halted"}
  BY <1>6
<1>9. approval \in {"not_required", "pending", "approved", "rejected"}
  BY <1>7
<1> HIDE DEF status, approval
<1>. QED
  BY <1>1, <1>8, <1>9 DEF Report

LEMMA PublishReportKeeps ==
    ASSUME AccountInv, PublishReport
    PROVE  AccountInv'
<1>1. /\ TypeOK /\ NotesFit /\ Quiet /\ command # None /\ command.queue = <<>>
      /\ command.phase = "report" /\ command' = None
      /\ reports' = [reports EXCEPT ![command.session] = ReportOf(command.session, command.bundle)]
      /\ UNCHANGED <<account, targets>>
  BY DEF AccountInv, Quiet, PublishReport, At
<1>2. command.session \in Sessions /\ command.bundle \in Bundles
  BY <1>1 DEF AccountInv, CommandFits, Located
<1>3. Recorded(Ev("decision", command.session, command.bundle, 0))
  BY <1>1 DEF AccountInv, CommandFits, Reportable
<1>4. ReportOf(command.session, command.bundle) \in Report
  BY <1>1, <1>2, <1>3, ReportTyped
<1>5. reports' \in [Sessions -> Report \cup {None}]
  BY <1>1, <1>2, <1>4 DEF TypeOK
<1>. QED
  BY <1>1, <1>5, QuietStep DEF TypeOK

-----------------------------------------------------------------------------
(***************************************************************************)
(* The theorems.                                                           *)
(***************************************************************************)

\* The account starts with nothing.
LEMMA AccountInitially ==
    ASSUME Init
    PROVE  AccountInv
<1>1. DOMAIN <<>> = {} /\ <<>> \in Seq(Event)
  OBVIOUS
<1>2. TypeOK
  BY <1>1, Numbers DEF Init, TypeOK
<1>3. OnlyLossesOverdraw
  <2>1. Uncovered(Securities \ Foreign) \in Nat /\ Uncovered(Foreign) \in Nat
    BY <1>2, UncoveredCounted
  <2>. QED
    BY <2>1 DEF Init, OnlyLossesOverdraw
<1>. QED
  BY <1>1, <1>2, <1>3 DEF Init, AccountInv, NotesFit, OrdersAreDecided, FillsAreAuthorized,
                          CreditsAreDebited, ConversionsInHand, CommandFits

\* A step that changes nothing keeps the invariant.
LEMMA StutterKeeps ==
    ASSUME AccountInv, UNCHANGED vars
    PROVE  AccountInv'
<1>1. /\ TypeOK /\ LedgerFits /\ UNCHANGED books
      /\ UNCHANGED <<account, targets, reports, command, crashes>>
  BY DEF AccountInv, LedgerFits, vars
<1>2. ledger' = ledger /\ cash' = cash /\ held' = held /\ LedgerFits'
  BY <1>1, BooksStay
<1>3. TypeOK' /\ OnlyLossesOverdraw' /\ ConversionsInHand'
  <2>1. TypeOK' /\ ConversionsInHand'
    BY <1>1, <1>2 DEF AccountInv, TypeOK, ConversionsInHand, Recorded
  <2>2. BaseReserve' = BaseReserve /\ ForeignReserve' = ForeignReserve
    BY <1>2, ReservesUnchanged
  <2>. QED
    BY <1>1, <1>2, <2>1, <2>2, ReservesHold DEF AccountInv
<1>4. CommandFits'
  <2>1. CommandFits
    BY DEF AccountInv
  <2>2. Located <=> Located'
    BY <1>1 DEF Located
  <2>3. OrdersAreApproved => OrdersAreApproved'
    BY <1>1, <1>2 DEF OrdersAreApproved, RecordedAs
  <2>4. Reportable => Reportable'
    BY <1>1, <1>2 DEF Reportable, Recorded
  <2>5. QueueFits => QueueFits'
    <3>1. PICK e : e = Ev("deposit", 0, 0, 0)
      OBVIOUS
    <3>2. e.kind \notin TradeKinds
      BY <3>1 DEF Ev, TradeKinds
    <3>3. GrownBy(e)
      BY <1>1, <1>2, LedgerUnchanged
    <3>. QED
      BY <1>1, <1>2, <3>2, <3>3, QueueStays DEF QueueFits
  <2>. QED
    BY <1>1, <2>1, <2>2, <2>3, <2>4, <2>5 DEF CommandFits
<1>. QED
  BY <1>2, <1>3, <1>4 DEF AccountInv, LedgerFits

(***************************************************************************)
(* The invariant of the account holds in every state, whatever order the   *)
(* sessions, their reruns and the operator's answers come in.              *)
(***************************************************************************)
THEOREM AccountInductive == Spec => []AccountInv
<1>1. Init => AccountInv
  BY AccountInitially
<1>2. AccountInv /\ [Next]_vars => AccountInv'
  <2> SUFFICES ASSUME AccountInv, [Next]_vars
               PROVE  AccountInv'
    OBVIOUS
  <2>1. CASE CreateAccount
    BY <2>1, CreateAccountKeeps
  <2>2. CASE SpecifyAccount
    BY <2>2, SpecifyAccountKeeps
  <2>3. CASE OpenLedger
    BY <2>3, OpenLedgerKeeps
  <2>4. CASE FinishCreation
    BY <2>4, FinishCreationKeeps
  <2>5. CASE \E s \in Sessions, b \in Bundles : StartSession(s, b)
    BY <2>5, StartSessionKeeps
  <2>6. CASE AppendNext
    BY <2>6, AppendNextKeeps
  <2>7. CASE ApplyAction
    BY <2>7, ApplyActionKeeps
  <2>8. CASE ReadOrders
    BY <2>8, ReadOrdersKeeps
  <2>9. CASE SettleOrder
    BY <2>9, SettleOrderKeeps
  <2>10. CASE AppendValuation
    BY <2>10, AppendValuationKeeps
  <2>11. CASE Decide
    BY <2>11, DecideKeeps
  <2>12. CASE PublishReport
    BY <2>12, PublishReportKeeps
  <2>13. CASE \E d \in Answered \X Bundles, answer \in {"approved", "rejected"} :
                 ApproveDecision(d, answer)
    BY <2>13, ApproveDecisionKeeps
  <2>14. CASE Die
    BY <2>14, DieKeeps
  <2>15. CASE UNCHANGED vars
    BY <2>15, StutterKeeps
  <2>. QED
    BY <2>1, <2>2, <2>3, <2>4, <2>5, <2>6, <2>7, <2>8, <2>9, <2>10, <2>11, <2>12, <2>13, <2>14,
       <2>15 DEF Next
<1>. QED
  BY <1>1, <1>2, PTL DEF Spec

(***************************************************************************)
(* Every value keeps its type, and no idempotency key is booked twice.     *)
(***************************************************************************)
THEOREM AccountTypeCorrect == Spec => []TypeOK
<1>1. AccountInv => TypeOK
  BY DEF AccountInv
<1>. QED
  BY <1>1, AccountInductive, PTL

(***************************************************************************)
(* Nothing is traded without an order of its quantity, of a decision that  *)
(* the risk policy and the operator (or the policy of the account) have    *)
(* approved, all of them in the ledger before the fill.                    *)
(***************************************************************************)
THEOREM FillsAreAuthorizedHolds == Spec => []FillsAreAuthorized
<1>1. AccountInv => FillsAreAuthorized
  BY DEF AccountInv
<1>. QED
  BY <1>1, AccountInductive, PTL

(***************************************************************************)
(* No holding is ever negative, and no cash is overdrawn by more than the  *)
(* charges of the sales that brought in less than they cost, for any       *)
(* prices and charges; of the foreign currency as long as no command has   *)
(* died.                                                                   *)
(***************************************************************************)
THEOREM OnlyLossesOverdrawHolds == Spec => []OnlyLossesOverdraw
<1>1. AccountInv => OnlyLossesOverdraw
  BY DEF AccountInv
<1>. QED
  BY <1>1, AccountInductive, PTL

(***************************************************************************)
(* Before the credit of a conversion comes its debit, of the same amount.  *)
(***************************************************************************)
THEOREM CreditsAreDebitedHolds == Spec => []CreditsAreDebited
<1>1. AccountInv => CreditsAreDebited
  BY DEF AccountInv
<1>. QED
  BY <1>1, AccountInductive, PTL

-----------------------------------------------------------------------------
(***************************************************************************)
(* Reported sessions.                                                      *)
(***************************************************************************)

\* A command appends events of its own session, and of no other.
LEMMA EventsAreDated ==
    ASSUME AccountInv, NEW e, Advances(e)
    PROVE  sessionDate(e) = command.session
<1>1. /\ QueueFits /\ command # None /\ command.queue \in Seq(Event) /\ e = command.queue[1]
      /\ 1 \in DOMAIN command.queue
  BY CommandTyped, FirstAndRest DEF AccountInv, CommandFits, Advances
<1>2. CASE Plain(command.queue)
  BY <1>1, <1>2 DEF Plain, TradeKinds, sessionDate
<1>3. CASE Acting(command.queue)
  BY <1>1, <1>3 DEF Acting, sessionDate
<1>4. CASE Settling(command.queue)
  <2>1. PICK o : SettlesOrder(o) /\ Remaining(command.queue, o)
    BY <1>4, SettlingIs
  <2>2. /\ o \in Event /\ o.session \in Sessions /\ o.bundle \in Bundles
        /\ o.security \in Securities /\ command.session \in Sessions
        /\ o.session + 1 = command.session
    BY <1>1, <2>1, OrderTyped DEF SettlesOrder
  <2>3. /\ Filled(o).kind = "fill" /\ Filled(o).session = o.session
        /\ FeeOf(o).kind = "fee" /\ FeeOf(o).session = o.session
        /\ TaxOf(o).kind = "tax" /\ TaxOf(o).session = o.session
    BY <2>2, SettlementTyped
  <2>4. \A n \in Nat : /\ Debit(o, n).kind = "fx" /\ Debit(o, n).session = o.session
                       /\ Credit(o, n).kind = "fx-credit" /\ Credit(o, n).session = o.session
    BY <2>2, ConversionTyped
  <2>5. \/ \E n \in Nat : e = Debit(o, n) \/ e = Credit(o, n)
        \/ e = Filled(o) \/ e = FeeOf(o) \/ e = TaxOf(o)
    BY <1>1, <2>1 DEF Remaining, Converting, Crediting, Filling, Charging
  <2>6. e.kind \in {"fx", "fx-credit", "fill", "fee", "tax"} /\ e.session = o.session
    BY <2>3, <2>4, <2>5
  <2>. QED
    BY <2>2, <2>6 DEF sessionDate
<1>. QED
  BY <1>1, <1>2, <1>3, <1>4 DEF QueueFits

Closed ==
    \A s \in Sessions : reports[s] # None =>
       /\ reports'[s] = reports[s]
       /\ \A i \in DOMAIN ledger' \ DOMAIN ledger :
             sessionDate(ledger'[i]) = s => ledger'[i].kind = "approval"

LEMMA StepsKeepReportsClosed ==
    ASSUME AccountInv, Next
    PROVE  Closed
<1>1. TypeOK /\ CommandFits
  BY DEF AccountInv
<1>2. ASSUME ledger' = ledger, reports' = reports
      PROVE  Closed
  BY <1>2 DEF Closed
<1>3. CASE \/ CreateAccount \/ SpecifyAccount \/ OpenLedger \/ FinishCreation
           \/ \E s \in Sessions, b \in Bundles : StartSession(s, b)
           \/ ApplyAction \/ ReadOrders \/ SettleOrder \/ AppendValuation \/ Decide \/ Die
  BY <1>2, <1>3 DEF CreateAccount, SpecifyAccount, OpenLedger, FinishCreation, StartSession,
                    ApplyAction, ReadOrders, SettleOrder, AppendValuation, Decide, Die, books
<1>4. CASE AppendNext
  <2>1. PICK e : e = Head(command.queue)
    OBVIOUS
  <2>2. command # None /\ reports' = reports
    BY <1>4 DEF AppendNext
  <2>3. CASE Advances(e)
    <3>1. GrownBy(e) /\ sessionDate(e) = command.session
      BY <1>1, <2>3, Advanced, EventsAreDated
    <3>2. command.session \in Sessions => reports[command.session] = None
      BY <1>1, <2>2, Numbers DEF CommandFits, Located
    <3>3. \A i \in DOMAIN ledger' \ DOMAIN ledger : ledger'[i] = e
      BY <3>1 DEF GrownBy
    <3>. QED
      BY <2>2, <3>1, <3>2, <3>3 DEF Closed
  <2>4. CASE ~Advances(e)
    <3>1. UNCHANGED books
      BY <1>4, <2>1, <2>4 DEF AppendNext, Advances
    <3>. QED
      BY <1>2, <2>2, <3>1, BooksStay
  <2>. QED
    BY <2>3, <2>4
<1>5. CASE PublishReport
  <2>1. /\ command # None /\ command.phase = "report" /\ ledger' = ledger
        /\ reports' = [reports EXCEPT ![command.session] = ReportOf(command.session, command.bundle)]
    BY <1>5 DEF PublishReport, At, books
  <2>2. reports[command.session] = None
    BY <1>1, <2>1 DEF CommandFits, Located
  <2>3. \A s \in Sessions : s # command.session => reports'[s] = reports[s]
    BY <1>1, <2>1 DEF TypeOK
  <2>. QED
    BY <2>1, <2>2, <2>3 DEF Closed
<1>6. CASE \E d \in Answered \X Bundles, answer \in {"approved", "rejected"} :
              ApproveDecision(d, answer)
  <2>1. PICK d \in Answered \X Bundles, answer \in {"approved", "rejected"} :
           ApproveDecision(d, answer)
    BY <1>6
  <2>2. PICK e : e = Answer(d, answer)
    OBVIOUS
  <2>3. Book(e) /\ reports' = reports
    BY <2>1, <2>2 DEF ApproveDecision
  <2>4. e.kind = "approval"
    BY <2>2 DEF Answer, Noted, Ev
  <2>5. \A i \in DOMAIN ledger' \ DOMAIN ledger : ledger'[i] = e
    <3>1. CASE ledger' = ledger
      BY <3>1
    <3>2. CASE ledger' = Append(ledger, e)
      <4>1. ledger \in Seq(Event) /\ Len(ledger) \in Nat /\ DOMAIN ledger = 1..Len(ledger)
        BY <1>1 DEF TypeOK
      <4>2. DOMAIN ledger' = 1..(Len(ledger) + 1) /\ ledger'[Len(ledger) + 1] = e
        BY <3>2, <4>1
      <4>. QED
        BY <4>1, <4>2
    <3>. QED
      BY <2>3, <3>1, <3>2 DEF Book, books
  <2>. QED
    BY <2>3, <2>4, <2>5 DEF Closed
<1>. QED
  BY <1>3, <1>4, <1>5, <1>6 DEF Next

(***************************************************************************)
(* A session that has its report keeps it, and gets no further event but   *)
(* the operator's answers: no rerun with other inputs, and no command that *)
(* was started before, books anything for it.                              *)
(***************************************************************************)
THEOREM ReportedSessionsAreClosedHolds == Spec => ReportedSessionsAreClosed
<1>1. AccountInv /\ [Next]_vars => [Closed]_vars
  BY StepsKeepReportsClosed
<1>2. [][Closed]_vars => ReportedSessionsAreClosed
  BY DEF Closed, ReportedSessionsAreClosed
<1>. QED
  BY <1>1, <1>2, AccountInductive, PTL DEF Spec

=============================================================================
