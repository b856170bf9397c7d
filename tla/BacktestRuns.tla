----------------------------- MODULE BacktestRuns -----------------------------
(***************************************************************************)
(* simulate_backtest as commands: several may run the same experiment over *)
(* one checkpoint root, die at any point and be resumed, while someone may *)
(* rewrite an input file.  A command keeps its state in memory; what it    *)
(* leaves behind are the checkpoints, one per completed session, each      *)
(* installed under its own name or not at all.                             *)
(***************************************************************************)
EXTENDS Backtest

CONSTANTS
    Commands,
    Specs,        \* the experiments a run of the model may be about
    Shared,       \* bound: the experiments several commands run at once
    Rewritten,    \* the kinds of input someone may rewrite
    Stops,        \* the values of stop_after_session, 0 for none
    MaxCrashes    \* bound on the commands that die

(***************************************************************************)
(* The types of the fields a parser reads: dates, instants, ids, prices,   *)
(* rates and charges are whole numbers, and what a document names is a     *)
(* security or a currency.                                                 *)
(***************************************************************************)
TypedInputs(in) ==
    /\ \A r \in in.calendar : r.date \in Int /\ r.open \in Int /\ r.close \in Int
    /\ \A r \in in.prices : /\ r.available \in Int
                            /\ r.currency \in Currencies /\ r.low \in Int /\ r.high \in Int
    /\ \A r \in in.membership : r.available \in Int
    /\ \A a \in in.corporate_actions :
          /\ a.id \in Int /\ a.available \in Int
          /\ a.security \in Securities /\ a.currency \in Currencies
          /\ a.type = "split" => a.numerator \in Int /\ a.denominator \in Int
          /\ a.type = "cash_dividend" => a.cash \in Int
          /\ a.settlement # None => a.settlement \in Int
    /\ \A r \in in.fx : r.available \in Int /\ r.rate \in Int

TypedAccount(e) ==
    /\ e.universe \subseteq Securities
    /\ e.accounting.base_currency \in Currencies /\ e.accounting.initial_cash \in Int
    /\ \A field \in {"commission", "fixed_fee", "minimum_fee", "spread", "slippage", "tax"} :
          e.cost[field] \in Int

\* An experiment is a document and so is every input, with finitely many rows.
ASSUME SpecsAssumption ==
    \A e \in Specs : /\ TypedAccount(e) /\ TypedInputs(Load(e))
                     /\ \A kind \in Kinds : IsFiniteSet(Load(e)[kind])

VARIABLES
    spec,         \* the experiment; its inputs pin the artifacts
    disk,         \* [Kinds -> artifact]: the files under the data root
    checkpoints,  \* checkpoint-<k>.json, by k
    run,          \* [Commands -> the state of a command]
    crashes

vars == <<spec, disk, checkpoints, run, crashes>>

Sessions == CalendarSessions(spec, Load(spec))

Idle == [pc |-> "idle", k |-> 0, st |-> None, saves |-> FALSE, stop |-> 0]

\* The file someone writes over an input.
Changed == [available |-> 0, rows |-> {}]

-----------------------------------------------------------------------------
(***************************************************************************)
(* A checkpoint is bound to the experiment, its inputs and its place; what *)
(* it holds of the state is everything but the reason of a halt.           *)
(***************************************************************************)
StateDocument(st) == [field \in (DOMAIN st) \ {"halt"} |-> st[field]]

CheckpointPayload(k, st) == [spec |-> spec, next |-> k, state |-> StateDocument(st)]

LatestCheckpoint == IF DOMAIN checkpoints = {} THEN 0 ELSE Largest(DOMAIN checkpoints)

RestoreAccepted(payload, k) ==
    /\ payload.spec = spec
    /\ payload.next = k /\ k \in 1..Len(Sessions)
    /\ Len(payload.state.marks) = k
    /\ \A i \in 1..k : payload.state.marks[i].date = Sessions[i].date
    /\ payload.state.marks[k].nav = payload.state.nav
    /\ payload.state.pending \subseteq DOMAIN payload.state.orders

Restored(state) ==
    [field \in (DOMAIN state) \cup {"halt"} |-> IF field = "halt" THEN "none" ELSE state[field]]

\* Faulty variant: a restored run forgets that it has bought its holdings.
RestoreCheckpointForgetful(payload) == [Restored(payload.state) EXCEPT !.held = FALSE]

RestoreCheckpoint(payload) == Restored(payload.state)

-----------------------------------------------------------------------------
Init ==
    /\ spec \in Specs
    /\ disk = [kind \in Kinds |->
                  IF \E r \in spec.inputs : r.kind = kind
                  THEN (CHOOSE r \in spec.inputs : r.kind = kind).artifact
                  ELSE Changed]
    /\ checkpoints = <<>>
    /\ run = [c \in Commands |-> Idle]
    /\ crashes = 0

Admitted ==
    /\ SpecAccepted(spec)
    /\ CanLoad(spec, disk)
    /\ SessionsAccepted(spec, Load(spec))

Free(c) == run[c].pc = "idle" /\ (spec \notin Shared => run = [d \in Commands |-> Idle])

\* A new run: with a checkpoint root only where it holds no checkpoint yet.
Start(c, saves, stop) ==
    /\ Free(c)
    /\ Admitted
    /\ stop = 0 \/ stop \in 1..(Len(Sessions) - 1)
    /\ saves => LatestCheckpoint = 0
    /\ run' = [run EXCEPT ![c] = [pc |-> "running", k |-> 0, st |-> Initial(spec, Load(spec)),
                                  saves |-> saves, stop |-> stop]]
    /\ UNCHANGED <<spec, disk, checkpoints, crashes>>

Resume(c) ==
    /\ Free(c)
    /\ Admitted
    /\ LatestCheckpoint # 0
    /\ RestoreAccepted(checkpoints[LatestCheckpoint], LatestCheckpoint)
    /\ run' = [run EXCEPT ![c] = [pc |-> "running", k |-> LatestCheckpoint,
                                  st |-> RestoreCheckpoint(checkpoints[LatestCheckpoint]),
                                  saves |-> TRUE, stop |-> 0]]
    /\ UNCHANGED <<spec, disk, checkpoints, crashes>>

RunSession(c) ==
    /\ run[c].pc = "running" /\ run[c].k < Len(Sessions)
    /\ LET after == Session(spec, Load(spec), run[c].k + 1, run[c].st)
       IN  run' = [run EXCEPT ![c] = [run[c] EXCEPT
                      !.pc = IF after.halt # "none" THEN "failed"
                             ELSE IF run[c].saves THEN "saving" ELSE "running",
                      !.k  = @ + 1,
                      !.st = after]]
    /\ UNCHANGED <<spec, disk, checkpoints, crashes>>

(***************************************************************************)
(* The checkpoint is linked under its name, unless the name is taken: then *)
(* it has to be the same document.  stop_after_session ends the command    *)
(* after it.                                                               *)
(***************************************************************************)
WriteCheckpoint(c) ==
    LET k       == run[c].k
        payload == CheckpointPayload(k, run[c].st)
        taken   == k \in DOMAIN checkpoints
    IN  /\ run[c].pc = "saving"
        /\ checkpoints' = IF taken THEN checkpoints
                          ELSE [i \in DOMAIN checkpoints \cup {k} |->
                                   IF i = k THEN payload ELSE checkpoints[i]]
        /\ run' = [run EXCEPT ![c] =
                      IF taken /\ checkpoints[k] # payload THEN [@ EXCEPT !.pc = "conflict"]
                      ELSE IF run[c].stop = k THEN Idle ELSE [@ EXCEPT !.pc = "running"]]
        /\ UNCHANGED <<spec, disk, crashes>>

CanFinish(st) ==
    /\ st.pending = {}
    /\ \A k \in 2..Len(Sessions) : Cardinality(RiskFreeSeries(spec, Load(spec), st)[k]) = 1

Finish(c) ==
    /\ run[c].pc = "running" /\ run[c].k = Len(Sessions)
    /\ run' = [run EXCEPT ![c].pc = IF CanFinish(run[c].st) THEN "done" ELSE "failed"]
    /\ UNCHANGED <<spec, disk, checkpoints, crashes>>

Crash(c) ==
    /\ run[c].pc \in {"running", "saving"}
    /\ crashes < MaxCrashes
    /\ crashes' = crashes + 1
    /\ run' = [run EXCEPT ![c] = Idle]
    /\ UNCHANGED <<spec, disk, checkpoints>>

ReplaceInput(kind) ==
    /\ disk[kind] # Changed
    /\ disk' = [disk EXCEPT ![kind] = Changed]
    /\ UNCHANGED <<spec, checkpoints, run, crashes>>

Next ==
    \/ \E c \in Commands :
          \/ \E saves \in BOOLEAN, stop \in Stops : Start(c, saves, stop)
          \/ Resume(c)
          \/ RunSession(c)
          \/ WriteCheckpoint(c)
          \/ Finish(c)
          \/ Crash(c)
    \/ \E kind \in Rewritten : ReplaceInput(kind)

Spec == Init /\ [][Next]_vars

-----------------------------------------------------------------------------
(***************************************************************************)
(* What a run without any interruption has in memory after k sessions.     *)
(***************************************************************************)
Uninterrupted(in, k) ==
    FoldLeft(LAMBDA st, i : Session(spec, in, i, st), Initial(spec, in), [i \in 1..k |-> i])

Live(c) == run[c].pc \notin {"idle", "failed"}

(***************************************************************************)
(* Interrupting, resuming and running twice at once leave no trace: what a *)
(* command holds, and what any checkpoint holds, is what an uninterrupted  *)
(* run has after as many sessions, so no ledger row, order or fill is lost *)
(* or repeated and two commands never disagree about a checkpoint.         *)
(* (simulate_backtest, _write_checkpoint and _restore_checkpoint)          *)
(***************************************************************************)
ResumeIsTransparent ==
    /\ \A c \in Commands : Live(c) =>
          /\ run[c].pc # "conflict"
          /\ run[c].st = Uninterrupted(Load(spec), run[c].k)
    /\ \A k \in DOMAIN checkpoints :
          checkpoints[k].state = StateDocument(Uninterrupted(Load(spec), k))

(***************************************************************************)
(* A run never sees the future: after a session it is in the state it      *)
(* would be in had the inputs held only the rows that were available by    *)
(* the latest close so far, which is the close of the session unless       *)
(* sessions overlap, and no parser of a calendar forbids that.  Which      *)
(* actions are marked processed is left out: one that comes late for a     *)
(* security nobody holds is marked too.                                    *)
(* (_price_row, _membership_state, _fx_rate, _apply_actions)               *)
(***************************************************************************)
LatestClose(k) == Largest({Sessions[i].close : i \in 1..k})

AvailableBy(in, asOf) ==
    [kind \in Kinds |-> IF kind = "calendar" THEN in[kind]
                        ELSE {r \in in[kind] : r.available <= asOf}]

Outcome(st) == [st EXCEPT !.processed = {}]

NoLookAhead ==
    \A c \in Commands : Live(c) /\ run[c].k > 0 =>
        Outcome(run[c].st) =
            Outcome(Uninterrupted(AvailableBy(Load(spec), LatestClose(run[c].k)), run[c].k))

\* What the rows of a ledger come to for a currency and for a security.
Amount(row) == IF row.type = "mark" THEN 0 ELSE row.amount

Quantity(row) == IF row.type \in {"split", "fill", "delisting"} THEN row.qty ELSE 0

Balance(ledger, cur) ==
    SumOver({i \in DOMAIN ledger : ledger[i].currency = cur}, LAMBDA i : Amount(ledger[i]))

Position(ledger, s) ==
    SumOver({i \in DOMAIN ledger : ledger[i].security = s}, LAMBDA i : Quantity(ledger[i]))

(***************************************************************************)
(* The ledger accounts for everything: the rows of a currency add up to    *)
(* its balance and the quantities of splits, fills and delistings to the   *)
(* holdings, conversions and charges included.                             *)
(* (_ledger as called from _apply_actions, _fund_trade_currency and        *)
(* _execute_orders)                                                        *)
(***************************************************************************)
LedgerExplainsBalances ==
    \A c \in Commands : Live(c) =>
        LET st == run[c].st
        IN  /\ \A cur \in Currencies : st.cash[cur] = Balance(st.ledger, cur)
            /\ \A s \in Securities : st.qty[s] = Position(st.ledger, s)

(***************************************************************************)
(* An order is settled once, at the open right after the close that        *)
(* decided it: it is pending exactly until that session has run, and it    *)
(* has one fill of its quantity or none and counts as rejected.            *)
(* (the pending list of simulate_backtest and _execute_orders)             *)
(***************************************************************************)
OrdersSettleOnce ==
    \A c \in Commands : Live(c) =>
        LET st      == run[c].st
            fills(i) == {f \in DOMAIN st.fills : st.fills[f].order = i}
            after(d) == {s.date : s \in {s \in ToSet(Sessions) : s.date > d}}
            settled(o) == \E m \in ToSet(st.marks) : m.date >= o.execution
        IN  /\ \A i \in DOMAIN st.orders :
                  LET o == st.orders[i]
                  IN  /\ o.execution \in after(o.decision)
                      /\ \A d \in after(o.decision) : o.execution <= d
                      /\ settled(o) <=> o.status # "proposed"
                      /\ settled(o) <=> i \notin st.pending
                      /\ IF o.status = "filled" THEN \E f \in DOMAIN st.fills : fills(i) = {f}
                                                ELSE fills(i) = {}
                      /\ \A f \in fills(i) :
                            st.fills[f].date = o.execution /\ st.fills[f].qty = o.qty
            /\ st.rejected = Cardinality({i \in DOMAIN st.orders : st.orders[i].status = "rejected"})

(***************************************************************************)
(* Only a sale can overdraw a balance, when its charges exceed what it     *)
(* brings in: a buy, with the conversion that funds it, never does, in     *)
(* whatever order the buys of a session come.                              *)
(* (_max_affordable_quantity, _fund_trade_currency, _execute_orders)       *)
(***************************************************************************)
BuysNeverOverdraw ==
    \A c \in Commands : Live(c) =>
        \/ \A cur \in Currencies : run[c].st.cash[cur] >= 0
        \/ \E f \in ToSet(run[c].st.fills) : f.side = "sell" /\ f.notional < f.fee + f.tax

(***************************************************************************)
(* What the partitions cost and traded adds up to the totals of the run,   *)
(* whichever session a fill fell on.  (_attribution, _metrics)             *)
(***************************************************************************)
CostsAreAttributed ==
    \A c \in Commands : run[c].pc = "done" =>
        LET metrics == Metrics(spec, Load(spec), run[c].st)
            parts   == metrics.by_partition
        IN  /\ metrics.total_cost = SumOver(DOMAIN parts, LAMBDA p : parts[p].cost)
            /\ Len(run[c].st.fills) = SumOver(DOMAIN parts, LAMBDA p : parts[p].trades)

=============================================================================
