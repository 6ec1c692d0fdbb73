--------------------------- MODULE PermissionProofs ---------------------------
(***************************************************************************)
(* The permission gate, for every order and every history of controls.     *)
(***************************************************************************)
EXTENDS PermissionGate, TLAPS

\* Turning a control on or off gives a context again.
LEMMA WithControlType ==
  ASSUME NEW c \in Context, NEW k \in Controls, NEW on \in BOOLEAN
  PROVE  WithControl(c, k, on) \in Context
  BY DEF WithControl, Controls, Context, Recons

\* A next state is a context reached by one of the four moves.
LEMMA NextType ==
  ASSUME TypeOK, Next
  PROVE  TypeOK'
<1>1. CASE Tighten
  BY <1>1, WithControlType DEF Tighten, TypeOK
<1>2. CASE Loosen
  BY <1>2, WithControlType DEF Loosen, TypeOK
<1>3. CASE Degrade
  BY <1>3 DEF Degrade, TypeOK, Context
<1>4. CASE Recover
  BY <1>4 DEF Recover, TypeOK, Context, Healths
<1>5. QED
  BY <1>1, <1>2, <1>3, <1>4 DEF Next

\* Every context the gate is asked about is one its caller can build
\* (_permission_result and PermissionContext.__post_init__).
THEOREM GateTypeCorrect == Spec => []TypeOK
<1>1. Init => TypeOK
  BY OrdersAssumption DEF Init, TypeOK
<1>2. TypeOK /\ [Next]_ctx => TypeOK'
  BY NextType DEF TypeOK
<1>3. QED
  BY <1>1, <1>2, PTL DEF Spec

\* The objections of the risk section, and only they, refuse an order on which
\* no control holds.
LEMMA RiskObjectionIsRefusal ==
  ASSUME NEW c \in Context
  PROVE  RiskObjection(c) = "" <=> RiskAdmits(c)
  BY DEF RiskObjection, RiskAdmits, Context, Effects, EvidenceOf

\* The risk section never objects to a safe reduction.
LEMMA SafeReduceIsAdmitted ==
  ASSUME NEW c
  PROVE  SafeReduce(c) => RiskAdmits(c)
  BY DEF SafeReduce, RiskAdmits

\* The cascade of early returns decides what the order-free rule decides.
LEMMA CascadeIsRule ==
  ASSUME NEW c \in Context
  PROVE  EvaluateOrderPermission(c).permission = Expected(c)
<1>1. CASE \/ c.size = 0 \/ c.broker_state = "unknown" \/ InventoryRefuses(c)
  BY <1>1 DEF EvaluateOrderPermission, Expected, Result
<1> DEFINE passed == ~(c.size = 0 \/ c.broker_state = "unknown" \/ InventoryRefuses(c))
<1>2. CASE passed /\ AnyControl(c)
  <2>1. EvaluateOrderPermission(c).permission =
          IF SafeReduce(c) THEN "REDUCE_ONLY" ELSE "BLOCK"
    BY <1>2 DEF EvaluateOrderPermission, AnyControl, Degraded, Result
  <2>2. SafeReduce(c) => Expected(c) = "REDUCE_ONLY"
    BY <1>2 DEF Expected
  <2>3. ~SafeReduce(c) => Expected(c) = "BLOCK"
    BY <1>2 DEF Expected
  <2>4. QED
    BY <2>1, <2>2, <2>3
<1>3. CASE passed /\ ~AnyControl(c)
  BY <1>3, RiskObjectionIsRefusal
  DEF EvaluateOrderPermission, AnyControl, Expected, Result
<1>4. QED
  BY <1>1, <1>2, <1>3

\* The decision does not depend on the order of the checks.
THEOREM GateDecides == Spec => []DecidesAsSpecified
<1>1. TypeOK => DecidesAsSpecified
  BY CascadeIsRule DEF TypeOK, DecidesAsSpecified
<1>2. QED
  BY <1>1, GateTypeCorrect, PTL

\* An order that provably reduces a known position is never blocked, however
\* many controls hold.
THEOREM ExitsStayOpen == Spec => []ExitNeverBlocked
<1>1. ASSUME TypeOK, ctx.size > 0, ctx.broker_state # "unknown",
             ctx.size =< ctx.free, SafeReduce(ctx)
      PROVE  ~Blocked(ctx)
  <2>1. ctx \in Context
    BY <1>1 DEF TypeOK
  <2>2. ~InventoryRefuses(ctx)
    BY <1>1, <2>1 DEF InventoryRefuses, SafeReduce, Context
  <2>3. RiskAdmits(ctx)
    BY <1>1, SafeReduceIsAdmitted
  <2>4. Expected(ctx) = "REDUCE_ONLY"
    BY <1>1, <2>1, <2>2, <2>3 DEF Expected, Context
  <2>5. QED
    BY <2>1, <2>4, CascadeIsRule DEF Blocked
<1>2. TypeOK => ExitNeverBlocked
  BY <1>1 DEF ExitNeverBlocked
<1>3. QED
  BY <1>2, GateTypeCorrect, PTL

\* A control switched on is one more reason to refuse: nothing else about the
\* order changes.
LEMMA TighteningKeepsTheOrder ==
  ASSUME NEW c \in Context, NEW k \in Controls,
         NEW d, d = WithControl(c, k, TRUE)
  PROVE  /\ d.size = c.size /\ d.broker_state = c.broker_state
         /\ InventoryRefuses(d) <=> InventoryRefuses(c)
         /\ SafeReduce(d) <=> SafeReduce(c)
         /\ d.risk = c.risk
         /\ AnyControl(c) => AnyControl(d)
         /\ RiskAdmits(d) <=> RiskAdmits(c)
  BY DEF WithControl, Controls, Context, InventoryRefuses, SafeReduce, AnyControl,
         ManualControl, GapControl, StaleControl, ReconControl, KillControl,
         RiskAdmits

\* Hence the rule never answers more permissively with the control on.
LEMMA TighteningRestrictsTheRule ==
  ASSUME NEW c \in Context, NEW k \in Controls,
         NEW d, d = WithControl(c, k, TRUE)
  PROVE  /\ Expected(c) = "BLOCK" => Expected(d) = "BLOCK"
         /\ Expected(c) = "REDUCE_ONLY" => Expected(d) # "ALLOW"
<1>1. /\ d.size = c.size /\ d.broker_state = c.broker_state /\ d.risk = c.risk
      /\ InventoryRefuses(d) <=> InventoryRefuses(c)
      /\ SafeReduce(d) <=> SafeReduce(c)
      /\ AnyControl(c) => AnyControl(d)
      /\ RiskAdmits(d) <=> RiskAdmits(c)
  BY TighteningKeepsTheOrder
<1>2. SafeReduce(c) => RiskAdmits(c)
  BY SafeReduceIsAdmitted
<1>3. QED
  BY <1>1, <1>2 DEF Expected

\* No control masks another: turning one on never upgrades a permission.
THEOREM ControlsOnlyRestrict == Spec => TighteningNeverUpgrades
<1>1. ASSUME TypeOK, Tighten
      PROVE  Rank(EvaluateOrderPermission(ctx').permission)
                =< Rank(EvaluateOrderPermission(ctx).permission)
  <2>1. PICK k \in Controls : ctx' = WithControl(ctx, k, TRUE)
    BY <1>1 DEF Tighten
  <2>2. ctx \in Context /\ ctx' \in Context
    BY <1>1, <2>1, WithControlType DEF TypeOK
  <2>3. Expected(ctx) = "BLOCK" => Expected(ctx') = "BLOCK"
    BY <2>1, <2>2, TighteningRestrictsTheRule
  <2>4. Expected(ctx) = "REDUCE_ONLY" => Expected(ctx') # "ALLOW"
    BY <2>1, <2>2, TighteningRestrictsTheRule
  <2>5. Expected(ctx) \in Permissions /\ Expected(ctx') \in Permissions
    BY DEF Expected, Permissions
  <2>6. QED
    BY <2>2, <2>3, <2>4, <2>5, CascadeIsRule DEF Rank, Permissions
<1>2. TypeOK /\ [Next]_ctx =>
        [Tighten => Rank(EvaluateOrderPermission(ctx').permission)
                      =< Rank(EvaluateOrderPermission(ctx).permission)]_ctx
  BY <1>1
<1>3. QED
  BY <1>2, GateTypeCorrect, PTL DEF Spec, TighteningNeverUpgrades
=============================================================================
