---------------------------- MODULE MCMacroSeries ----------------------------
(***************************************************************************)
(* A small instance of MacroSeries.  The dates 9 and 10 differ in their    *)
(* number of digits, as microseconds before and after 2001-09-09 do.       *)
(***************************************************************************)
EXTENDS MacroSeries, TLC

CONSTANTS x, y

Symmetry == Permutations(Values)

=============================================================================
