--------------------------- MODULE PermissionGate ---------------------------
(***************************************************************************)
(* The permission gate seen over time: one order is asked about again and  *)
(* again while the controls around it tighten and loosen (an operator      *)
(* pulls the kill switch, reconciliation starts, a price goes stale, the   *)
(* lifecycle's health changes).                                            *)
(***************************************************************************)
EXTENDS Permission

CONSTANT Orders     \* contexts of orders, every control at rest

ASSUME OrdersAssumption == Orders \subseteq Context

VARIABLE ctx

Controls == {"manual", "protection", "price", "reconciliation", "kill"}

\* Mutant: a reconciliation in progress gets a name of its own.
WithControlRenamed(c, k, on) == [c EXCEPT !.reconciliation = "IN_PROGRESS"]

\* The context in which control k is active (on) or at rest.
WithControl(c, k, on) ==
  CASE k = "manual"         -> [c EXCEPT !.manual_blocked = on]
    [] k = "protection"     -> [c EXCEPT !.protection_required = on]
    [] k = "price"          -> [c EXCEPT !.price_trusted = ~on]
    [] k = "reconciliation" -> [c EXCEPT !.reconciliation =
                                          IF on THEN "STARTED" ELSE "RESOLVED"]
    [] k = "kill"           -> [c EXCEPT !.kill_switch = on]

Init == ctx \in Orders

Tighten == \E k \in Controls : ctx' = WithControl(ctx, k, TRUE)
Loosen  == \E k \in Controls : ctx' = WithControl(ctx, k, FALSE)
Degrade == /\ ctx.health = "NORMAL"
           /\ \E h \in Healths : ctx' = [ctx EXCEPT !.health = h]
Recover == ctx' = [ctx EXCEPT !.health = "NORMAL"]

Next == Tighten \/ Loosen \/ Degrade \/ Recover
Spec == Init /\ [][Next]_ctx

-----------------------------------------------------------------------------
\* The context stays one the gate accepts.
TypeOK == ctx \in Context

AnyControl(c) ==
  ManualControl(c) \/ GapControl(c) \/ StaleControl(c) \/ ReconControl(c)
    \/ KillControl(c)

RiskAdmits(c) ==
  \/ c.effect = "REDUCE"
  \/ ~c.risk.present /\ c.draft
  \/ /\ c.risk.present /\ c.effect = "INCREASE"
     /\ c.risk.headroom /\ ~c.risk.reduce_only
     /\ \A e \in EvidenceOf : EvidenceOk(c.risk, e)
  \/ /\ c.risk.present /\ c.effect = "NEUTRAL"
     /\ c.risk.headroom \/ (c.side = "sell" /\ c.risk.reduce_only)

\* What the gate is meant to decide, stated without any order of checks: the
\* cascade of early returns in _evaluate_order_permission may pick a different
\* reason when two controls hold at once, never a different permission.
Expected(c) ==
  IF \/ c.size = 0
     \/ c.broker_state = "unknown"
     \/ InventoryRefuses(c)
     \/ AnyControl(c) /\ ~SafeReduce(c)
     \/ ~AnyControl(c) /\ ~RiskAdmits(c)
     \/ ~SafeReduce(c) /\ c.risk.present /\ c.risk.reduce_only
  THEN "BLOCK"
  ELSE IF SafeReduce(c) THEN "REDUCE_ONLY" ELSE "ALLOW"

\* The early-return cascade decides what the order-free rule decides.
DecidesAsSpecified == EvaluateOrderPermission(ctx).permission = Expected(ctx)

\* A way out stays open: an order that provably reduces a known position is
\* never blocked by a control, however many of them hold.
ExitNeverBlocked ==
  (/\ ctx.size > 0 /\ ctx.broker_state # "unknown"
   /\ ctx.size =< ctx.free /\ SafeReduce(ctx)) => ~Blocked(ctx)

Rank(p) == CASE p = "BLOCK" -> 0 [] p = "REDUCE_ONLY" -> 1 [] p = "ALLOW" -> 2

\* Turning a control on never upgrades the permission of the order: there is
\* no pair of controls of which the second masks the first.
TighteningNeverUpgrades ==
  [][Tighten => Rank(EvaluateOrderPermission(ctx').permission)
                  =< Rank(EvaluateOrderPermission(ctx).permission)]_ctx
=============================================================================
