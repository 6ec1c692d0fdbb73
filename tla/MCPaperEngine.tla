--------------------------- MODULE MCPaperEngine ----------------------------
(***************************************************************************)
(* Two entries of one unit, an exit for the whole of two units and one for *)
(* one.  Two entries take at most four attempts to place a stop, for one   *)
(* unit or for two.                                                        *)
(***************************************************************************)
EXTENDS PaperEngine

CONSTANTS b1, b2, x1, x2

MCStops    == (1 .. Attempts) \X {1, 2}
MCSells    == {x1, x2} \cup MCStops
MCSymbolOf == [i \in Intents |-> "BTC"]
MCSize     == [i \in Intents |-> IF i \in MCStops THEN i[2]
                                 ELSE IF i = x2 THEN 2 ELSE 1]
=============================================================================
