------------------------------ MODULE EventLog ------------------------------
(***************************************************************************)
(* What the paper ledger promises its callers, without files: a log that   *)
(* only grows at its end, in which an idempotency key occurs once, and a   *)
(* set of events whose append has been acknowledged, all of them in the    *)
(* log.  PaperLedger implements it.                                        *)
(***************************************************************************)
EXTENDS Sequences

CONSTANT EventSet   \* records with a field key, the idempotency key

VARIABLES
    log,   \* the events in order
    told   \* the events some caller was told are in the log

logVars == <<log, told>>

Events(s) == {s[i] : i \in DOMAIN s}

LogInit == log = <<>> /\ told = {}

AppendToLog ==
    \E e \in EventSet :
       /\ \A f \in Events(log) : f.key # e.key
       /\ log' = Append(log, e)
       /\ told' \in {told, told \cup {e}}

Tell ==
    /\ told \subseteq told'
    /\ told' \subseteq Events(log)
    /\ UNCHANGED log

LogNext == AppendToLog \/ Tell

LogSpec == LogInit /\ [][LogNext]_logVars

=============================================================================
