----------------------------- MODULE Permission -----------------------------
(***************************************************************************)
(* The unified order permission gate (execution/permission.py): a pure     *)
(* decision ALLOW | REDUCE_ONLY | BLOCK over the controls that hold when   *)
(* an order is drafted, authorized or submitted.                           *)
(*                                                                         *)
(* Abstractions.  Quantities are naturals.  "free" is the sellable         *)
(* inventory the caller supplies and "inventory_known" says that it is a   *)
(* finite number the caller vouches for.  "price_trusted" folds the        *)
(* finite/positive/fresh tests of the price.  "headroom" folds             *)
(* allowed_target_exposure and max_new_exposure, which the constructor of  *)
(* the risk decision orders, into "both are positive".                     *)
(***************************************************************************)
EXTENDS Naturals

Sides      == {"buy", "sell"}
Effects    == {"INCREASE", "REDUCE", "NEUTRAL"}
Healths    == {"NORMAL", "RECONCILING", "MANUAL_BLOCKED", "DATA_UNTRUSTED",
               "PROTECTION_GAP", "REDUCE_ONLY"}
Recons     == {"NONE", "STARTED", "RESOLVED"}
Evidence   == {"KNOWN", "UNKNOWN", "MISSING", "STALE"}
EvidenceOf == {"calibration", "ood", "regime"}

RiskDecision ==
  [present : BOOLEAN, reduce_only : BOOLEAN, headroom : BOOLEAN,
   evidence : [EvidenceOf -> Evidence], waived : BOOLEAN]

\* risk_decision=None
NoDecision ==
  [present |-> FALSE, reduce_only |-> FALSE, headroom |-> FALSE,
   evidence |-> [e \in EvidenceOf |-> "MISSING"], waived |-> FALSE]

Permissions == {"ALLOW", "REDUCE_ONLY", "BLOCK"}

\* PermissionContext.  broker_state is what the caller saw at the venue.
Context ==
  [health : Healths, effect : Effects, risk : RiskDecision,
   price_trusted : BOOLEAN, reconciliation : Recons,
   protection_required : BOOLEAN, manual_blocked : BOOLEAN,
   kill_switch : BOOLEAN, inventory_known : BOOLEAN,
   free : Nat, size : Nat,
   side : Sides, require_price : BOOLEAN, enforce_inventory : BOOLEAN,
   broker_state : {"none", "known", "unknown"}, draft : BOOLEAN]

InventoryRefuses(c) ==
  /\ c.enforce_inventory
  /\ \/ c.effect = "REDUCE" /\ ~c.inventory_known
     \/ c.side = "sell" /\ (~c.inventory_known \/ c.size > c.free)

SafeReduce(c) ==
  /\ c.inventory_known
  /\ \/ c.effect = "REDUCE"
     \/ /\ c.side = "sell" /\ c.effect = "NEUTRAL"
        /\ c.risk.present /\ c.risk.reduce_only

ManualControl(c) == c.manual_blocked \/ c.health = "MANUAL_BLOCKED"
GapControl(c)    == c.health = "PROTECTION_GAP" \/ c.protection_required
StaleControl(c)  == c.require_price /\ (~c.price_trusted \/ c.health = "DATA_UNTRUSTED")
ReconControl(c)  == c.reconciliation = "STARTED" \/ c.health = "RECONCILING"
KillControl(c)   == c.kill_switch

EvidenceOk(r, e) ==
  r.evidence[e] = "KNOWN" \/ (r.waived /\ r.evidence[e] = "UNKNOWN")

\* What the risk decision itself says about an order that does not reduce.
\* "" means that it raises no objection.
RiskObjection(c) ==
  IF c.effect = "REDUCE" THEN ""
  ELSE IF ~c.risk.present
       THEN IF c.draft THEN ""
            ELSE IF c.effect = "INCREASE" THEN "missing_risk_decision"
            ELSE "kill_switch_neutral"
  ELSE IF c.effect = "INCREASE"
       THEN IF ~c.risk.headroom \/ c.risk.reduce_only
            THEN "high_risk_new_exposure"
            ELSE IF ~EvidenceOk(c.risk, "calibration")
                 THEN "missing_calibration_evidence"
            ELSE IF ~EvidenceOk(c.risk, "ood") THEN "missing_ood_evidence"
            ELSE IF ~EvidenceOk(c.risk, "regime") THEN "missing_regime_evidence"
            ELSE ""
  ELSE IF ~c.risk.headroom /\ ~(c.side = "sell" /\ c.risk.reduce_only)
       THEN "kill_switch_neutral" ELSE ""

Result(p, reason) == [permission |-> p, reason |-> reason]

\* Mutants: a control blocks exits too, forgets the inventory, lets all reduce.
DegradedBlocks(c, reason)  == Result("BLOCK", reason)
DegradedBlindly(c, reason) ==
  Result(IF c.effect = "REDUCE" THEN "REDUCE_ONLY" ELSE "BLOCK", reason)
DegradedReduces(c, reason) == Result("REDUCE_ONLY", reason)

Degraded(c, reason) ==
  Result(IF SafeReduce(c) THEN "REDUCE_ONLY" ELSE "BLOCK", reason)

EvaluateOrderPermission(c) ==
  IF c.size = 0 THEN Result("BLOCK", "invalid_order")
  ELSE IF c.broker_state = "unknown" THEN Result("BLOCK", "unknown_broker_state")
  ELSE IF InventoryRefuses(c)
       THEN Result("BLOCK", IF c.inventory_known THEN "insufficient_inventory"
                            ELSE "unknown_inventory_state")
  ELSE IF ManualControl(c) THEN Degraded(c, "manual_blocked")
  ELSE IF GapControl(c)    THEN Degraded(c, "protection_gap")
  ELSE IF StaleControl(c)  THEN Degraded(c, "stale_market_data")
  ELSE IF ReconControl(c)  THEN Degraded(c, "reconciliation_unresolved")
  ELSE IF KillControl(c)
       THEN Degraded(c, IF c.effect = "NEUTRAL" THEN "kill_switch_neutral"
                        ELSE "kill_switch_increase")
  ELSE IF RiskObjection(c) # "" THEN Result("BLOCK", RiskObjection(c))
  ELSE IF SafeReduce(c) THEN Result("REDUCE_ONLY", "reduce_only")
  ELSE IF c.risk.present /\ c.risk.reduce_only
       THEN Result("BLOCK", "high_risk_new_exposure")
  ELSE Result("ALLOW", "normal")

Blocked(c) == EvaluateOrderPermission(c).permission = "BLOCK"
=============================================================================
