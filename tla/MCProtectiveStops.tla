------------------------- MODULE MCProtectiveStops --------------------------
(***************************************************************************)
(* A position of two units; two stops for the whole of it and one for one  *)
(* unit, an exit for the whole of it and a smaller one; two price levels.  *)
(***************************************************************************)
EXTENDS ProtectiveStops

CONSTANTS e, s1, s2, s3, x1, x2

MCSymbolOf == [k \in Intents |-> "BTC"]
MCSize     == [k \in Intents |-> IF k \in {s3, x2} THEN 1 ELSE 2]
=============================================================================
