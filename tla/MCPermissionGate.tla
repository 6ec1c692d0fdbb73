-------------------------- MODULE MCPermissionGate --------------------------
(***************************************************************************)
(* A small set of orders: both sides, every effect, sizes 0 and 1 against  *)
(* inventories 0 and 1 or unknown, the two ways the lifecycle asks         *)
(* (authorize and submit, draft), and risk decisions that differ in each   *)
(* field the gate reads.                                                   *)
(***************************************************************************)
EXTENDS PermissionGate

Known == [e \in EvidenceOf |-> "KNOWN"]

Decisions ==
  {NoDecision} \cup
  [present : {TRUE}, reduce_only : BOOLEAN, headroom : BOOLEAN,
   evidence : {Known, [Known EXCEPT !["calibration"] = "UNKNOWN"],
               [Known EXCEPT !["ood"] = "MISSING"],
               [Known EXCEPT !["regime"] = "STALE"]},
   waived : BOOLEAN]

\* <<inventory known, free, size>>
Stocks == {<<TRUE, 0, 1>>, <<TRUE, 1, 1>>, <<FALSE, 0, 1>>, <<TRUE, 1, 0>>}
\* <<require_price, enforce_inventory, draft>>
Asks == {<<TRUE, TRUE, FALSE>>, <<FALSE, FALSE, TRUE>>}

MCOrders ==
  {[health |-> "NORMAL", effect |-> e, risk |-> r, price_trusted |-> TRUE,
    reconciliation |-> "NONE", protection_required |-> FALSE,
    manual_blocked |-> FALSE, kill_switch |-> FALSE,
    inventory_known |-> s[1], free |-> s[2], size |-> s[3], side |-> d,
    require_price |-> a[1], enforce_inventory |-> a[2], draft |-> a[3],
    broker_state |-> b] :
     e \in Effects, r \in Decisions, s \in Stocks, d \in Sides, a \in Asks,
     b \in {"none", "unknown"}}
=============================================================================
