-------------------------- MODULE MCLiveSubmission --------------------------
(***************************************************************************)
(* Two entries: one of two units, which may fill in parts, and one of one  *)
(* unit, sent after it or before.                                          *)
(***************************************************************************)
EXTENDS LiveSubmission

CONSTANTS k1, k2

MCSymbolOf == [k \in Intents |-> "BTC"]
MCSize     == [k \in Intents |-> IF k = k1 THEN 2 ELSE 1]
=============================================================================
