--------------------------- MODULE CommittedTable ---------------------------
(***************************************************************************)
(* What a normalized partition promises its callers and readers, without   *)
(* files: a table that only grows by rows with fresh natural keys, and a   *)
(* set of rows whose publication has been acknowledged, which survive      *)
(* everything.  NormalizedStore implements it.                             *)
(***************************************************************************)
CONSTANT RowSet   \* records with a field key, the natural key

VARIABLES
    table,        \* the rows a reader finds
    acknowledged  \* the rows some writer was told are published

tableVars == <<table, acknowledged>>

TableInit == table = {} /\ acknowledged = {}

Append ==
    /\ table \subseteq table'
    /\ table' \subseteq RowSet
    /\ \A r \in table', s \in table' \ table : r.key = s.key => r = s
    /\ UNCHANGED acknowledged

Acknowledge ==
    /\ acknowledged \subseteq acknowledged'
    /\ acknowledged' \subseteq table
    /\ UNCHANGED table

\* A power loss may undo publications nobody was told about.
LoseUnacknowledged ==
    /\ acknowledged \subseteq table'
    /\ table' \subseteq table
    /\ UNCHANGED acknowledged

TableNext == Append \/ Acknowledge \/ LoseUnacknowledged

TableSpec == TableInit /\ [][TableNext]_tableVars

=============================================================================
