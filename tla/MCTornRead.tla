----------------------------- MODULE MCTornRead -----------------------------
(***************************************************************************)
(* An instance of TornRead for TLC: one total, as totals share nothing but *)
(* the read that refreshes them.                                           *)
(***************************************************************************)
EXTENDS TornRead

CONSTANT generation

MCTotals == {generation}
=============================================================================
