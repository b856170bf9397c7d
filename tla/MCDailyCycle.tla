---------------------------- MODULE MCDailyCycle ----------------------------
(***************************************************************************)
(* Small instances of DailyCycle.                                          *)
(***************************************************************************)
EXTENDS DailyCycle

=============================================================================
