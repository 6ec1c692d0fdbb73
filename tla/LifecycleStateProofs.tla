------------------------- MODULE LifecycleStateProofs -------------------------
(***************************************************************************)
(* Facts about the handlers of the lifecycle and the lock table, for every *)
(* set of intents: what they preserve, and that they are congruences for   *)
(* the ledger, so that a difference between two states in the health, a    *)
(* risk decision or an exchange identifier never spreads to the ledger.    *)
(* Last, what the proofs of other modules need of sums over finite sets.   *)
(***************************************************************************)
EXTENDS LifecycleState, FiniteSetTheorems, WellFoundedInduction, TLAPS

LEMMA TruncatedType ==
  ASSUME NEW m \in Nat, NEW n \in Nat
  PROVE  Truncated(m, n) \in Nat
  BY DEF Truncated

LEMMA RemainingReservedType ==
  ASSUME NEW o \in Order
  PROVE  RemainingReserved(o) \in Nat
<1>1. o.reserved \in Nat /\ o.filled + o.released \in Nat
  BY DEF Order
<1>2. QED
  BY <1>1, TruncatedType DEF RemainingReserved

LEMMA NoDecisionType == NoDecision \in RiskDecision
  BY DEF NoDecision, RiskDecision, Evidence

LEMMA NewOrderType ==
  ASSUME NEW status \in Statuses
  PROVE  NewOrder(status) \in Order
  BY NoDecisionType DEF NewOrder, Order

LEMMA EmptyStateType == EmptyState \in State
  BY NewOrderType DEF EmptyState, State, Recons, Healths, Statuses

LEMMA UpdateOrderType ==
  ASSUME NEW s \in State, NEW i \in Intents, NEW o \in Order
  PROVE  UpdateOrder(s, i, o) \in State
  BY DEF UpdateOrder, State

LEMMA WithStatusType ==
  ASSUME NEW s \in State, NEW i \in Intents, NEW status \in Statuses
  PROVE  WithStatus(s, i, status) \in State
<1>1. [s.orders[i] EXCEPT !.status = status] \in Order
  BY DEF State, Order
<1>2. QED
  BY <1>1, UpdateOrderType DEF WithStatus

LEMMA ResolveManualIntentType ==
  ASSUME NEW s \in State, NEW i \in Intents
  PROVE  ResolveManualIntent(s, i) \in State
  BY DEF ResolveManualIntent, State, Healths

LEMMA SettledType ==
  ASSUME NEW s \in State, NEW i \in Intents, NEW status \in Statuses
  PROVE  Settled(s, i, status) \in State
  BY WithStatusType, ResolveManualIntentType DEF Settled

LEMMA ReleaseType ==
  ASSUME NEW s \in State, NEW i \in Intents
  PROVE  ReleaseSellRemainder(s, i) \in State
<1> DEFINE o == s.orders[i]
<1>1. o \in Order
  BY DEF State
<1>2. RemainingReserved(o) \in Nat
  BY <1>1, RemainingReservedType
<1>3. [o EXCEPT !.released = @ + RemainingReserved(o)] \in Order
  BY <1>1, <1>2 DEF Order
<1>4. QED
  BY <1>3, UpdateOrderType DEF ReleaseSellRemainder

\* Every handler leaves a state that load() can rebuild (_apply).
LEMMA ApplyType ==
  ASSUME NEW s \in State, NEW e \in Event
  PROVE  Apply(s, e) \in State
<1> DEFINE i == e.intent
           o == s.orders[i]
<1>1. /\ i \in Intents /\ e.qty \in Nat /\ e.authorized \in Nat
      /\ e.risk \in RiskDecision /\ e.exchange_id \in BOOLEAN
      /\ e.type \in EventTypes /\ o \in Order
  BY DEF Event, State
<1> HIDE DEF i, o
<1>2. OnOrderIntentCreated(s, e) \in State
  BY <1>1, NewOrderType DEF OnOrderIntentCreated, State, Statuses, i
<1>3. OnRiskApproved(s, e) \in State
  <2>1. [o EXCEPT !.status = "APPROVED",
                  !.risk = IF e.risk.present THEN e.risk ELSE @] \in Order
    BY <1>1 DEF Order, Statuses
  <2>2. QED
    BY <1>1, <2>1, UpdateOrderType DEF OnRiskApproved, i, o
<1>4. OnOrderAuthorized(s, e) \in State
  <2>1. [o EXCEPT !.status = "AUTHORIZED", !.authorized = e.authorized] \in Order
    BY <1>1 DEF Order, Statuses
  <2>2. QED
    BY <1>1, <2>1, UpdateOrderType DEF OnOrderAuthorized, i, o
<1>5. OnBrokerSubmissionRequested(s, e) \in State
  <2>1. [o EXCEPT !.requested = TRUE] \in Order
    BY <1>1 DEF Order
  <2>2. QED
    BY <1>1, <2>1, UpdateOrderType DEF OnBrokerSubmissionRequested, i, o
<1>6. OnBrokerIoStarted(s, e) \in State
  <2>1. [o EXCEPT !.io_started = TRUE] \in Order
    BY <1>1 DEF Order
  <2>2. QED
    BY <1>1, <2>1, UpdateOrderType DEF OnBrokerIoStarted, i, o
<1>7. OnOrderSubmitted(s, e) \in State
  <2>1. [o EXCEPT
           !.status      = IF @ \in {"APPROVED", "AUTHORIZED", "MANUAL"}
                           THEN "SUBMITTED" ELSE @,
           !.exchange_id = e.exchange_id,
           !.authorized  = IF i \in Sells THEN e.authorized ELSE @,
           !.reserved    = IF i \in Sells THEN e.qty ELSE @] \in Order
    BY <1>1 DEF Order, Statuses
  <2>2. QED
    BY <1>1, <2>1, UpdateOrderType DEF OnOrderSubmitted, i, o
<1>8. OnOrderRejected(s, e) \in State
  BY <1>1, ReleaseType, SettledType DEF OnOrderRejected, Statuses, i
<1>9. /\ OnBrokerAcknowledged(s, e) \in State
      /\ OnBrokerStateReconciled(s, e) \in State
      /\ OnLocalSubmissionFailed(s, e) \in State
  BY <1>1, SettledType
  DEF OnBrokerAcknowledged, OnBrokerStateReconciled, OnLocalSubmissionFailed,
      Statuses, i
<1>10. /\ OnBrokerStateUnknown(s, e) \in State
       /\ OnManualInterventionRequired(s, e) \in State
  <2>1. WithStatus(s, i, "MANUAL") \in State
    BY <1>1, WithStatusType DEF Statuses
  <2>2. QED
    BY <1>1, <2>1
    DEF OnBrokerStateUnknown, OnManualInterventionRequired, State, Recons,
        Healths, i
<1>11. ApplyFill(s, e) \in State
  <2> DEFINE f == IF o.filled + e.qty < Size[i] THEN o.filled + e.qty ELSE Size[i]
  <2>1. f \in Nat
    BY <1>1, IntentsAssumption DEF Order
  <2> HIDE DEF f
  <2>2. [o EXCEPT !.filled = f,
                  !.status = IF f = Size[i] THEN "FILLED"
                             ELSE "PARTIALLY_FILLED"] \in Order
    BY <1>1, <2>1 DEF Order, Statuses
  <2>3. QED
    BY <1>1, <2>2 DEF ApplyFill, State, i, o, f
<1>12. OnCancelRequested(s, e) \in State
  BY <1>1, WithStatusType DEF OnCancelRequested, Statuses, i
<1>13. OnCancelConfirmed(s, e) \in State
  BY <1>1, WithStatusType, ReleaseType DEF OnCancelConfirmed, Statuses, i
<1>14. /\ OnProtectiveOrderCreated(s, e) \in State
       /\ OnProtectiveOrderAcknowledged(s, e) \in State
  BY <1>1 DEF OnProtectiveOrderCreated, OnProtectiveOrderAcknowledged, State, i
<1>15. /\ OnReconciliationStarted(s) \in State
       /\ OnReconciliationResolved(s) \in State
  BY DEF OnReconciliationStarted, OnReconciliationResolved, State, Recons, Healths
<1>16. QED
  BY <1>1, <1>2, <1>3, <1>4, <1>5, <1>6, <1>7, <1>8, <1>9, <1>10, <1>11, <1>12,
     <1>13, <1>14, <1>15
  DEF Apply, EventTypes

-----------------------------------------------------------------------------
(* The ledger of the next state depends on the ledger of the state only.   *)

LEMMA SameLedgerReflexive ==
  ASSUME NEW s
  PROVE  SameLedger(s, s)
  BY DEF SameLedger, SameOrderLedger

LEMMA SameLedgerTransitive ==
  ASSUME NEW s, NEW t, NEW u, SameLedger(s, t), SameLedger(t, u)
  PROVE  SameLedger(s, u)
  BY DEF SameLedger, SameOrderLedger

LEMMA UpdateOrderLedger ==
  ASSUME NEW s \in State, NEW t \in State, NEW i \in Intents,
         NEW o \in Order, NEW p \in Order,
         SameLedger(s, t), SameOrderLedger(o, p)
  PROVE  SameLedger(UpdateOrder(s, i, o), UpdateOrder(t, i, p))
  BY DEF UpdateOrder, SameLedger, SameOrderLedger, State, Exists

LEMMA WithStatusLedger ==
  ASSUME NEW s \in State, NEW t \in State, NEW i \in Intents,
         NEW status \in Statuses, SameLedger(s, t)
  PROVE  SameLedger(WithStatus(s, i, status), WithStatus(t, i, status))
<1> DEFINE o == [s.orders[i] EXCEPT !.status = status]
           p == [t.orders[i] EXCEPT !.status = status]
<1>1. o \in Order /\ p \in Order
  BY DEF State, Order
<1>2. SameOrderLedger(o, p)
  BY DEF SameLedger, SameOrderLedger, State, Order
<1>3. QED
  BY <1>1, <1>2, UpdateOrderLedger DEF WithStatus

LEMMA ResolveManualIntentLedger ==
  ASSUME NEW s \in State, NEW t \in State, NEW i \in Intents, SameLedger(s, t)
  PROVE  SameLedger(ResolveManualIntent(s, i), ResolveManualIntent(t, i))
  BY DEF ResolveManualIntent, SameLedger, SameOrderLedger, State

LEMMA SettledLedger ==
  ASSUME NEW s \in State, NEW t \in State, NEW i \in Intents,
         NEW status \in Statuses, SameLedger(s, t)
  PROVE  SameLedger(Settled(s, i, status), Settled(t, i, status))
<1>1. Exists(s, i) <=> Exists(t, i)
  BY DEF Exists, SameLedger, SameOrderLedger
<1>2. QED
  BY <1>1, WithStatusType, WithStatusLedger, ResolveManualIntentLedger DEF Settled

LEMMA ReleaseLedger ==
  ASSUME NEW s \in State, NEW t \in State, NEW i \in Intents, SameLedger(s, t)
  PROVE  SameLedger(ReleaseSellRemainder(s, i), ReleaseSellRemainder(t, i))
<1> DEFINE released(o) == [o EXCEPT !.released = @ + RemainingReserved(o)]
<1>1. s.orders[i] \in Order /\ t.orders[i] \in Order
  BY DEF State
<1>2. RemainingReserved(s.orders[i]) \in Nat /\ RemainingReserved(t.orders[i]) \in Nat
  BY <1>1, RemainingReservedType
<1>3. released(s.orders[i]) \in Order /\ released(t.orders[i]) \in Order
  BY <1>1, <1>2 DEF Order
<1>4. RemainingReserved(s.orders[i]) = RemainingReserved(t.orders[i])
  BY DEF RemainingReserved, SameLedger, SameOrderLedger
<1>5. SameOrderLedger(released(s.orders[i]), released(t.orders[i]))
  BY <1>1, <1>4 DEF SameLedger, SameOrderLedger, Order
<1>6. QED
  BY <1>3, <1>5, UpdateOrderLedger DEF ReleaseSellRemainder

\* Events act on the ledger alone: two states with one ledger have one ledger
\* after any event.
LEMMA ApplyLedger ==
  ASSUME NEW s \in State, NEW t \in State, NEW e \in Event, SameLedger(s, t)
  PROVE  SameLedger(Apply(s, e), Apply(t, e))
<1> DEFINE i == e.intent
           o == s.orders[i]
           p == t.orders[i]
<1>1. /\ i \in Intents /\ e.qty \in Nat /\ e.authorized \in Nat
      /\ e.risk \in RiskDecision /\ e.exchange_id \in BOOLEAN
      /\ e.type \in EventTypes /\ o \in Order /\ p \in Order
  BY DEF Event, State
<1>2. SameOrderLedger(o, p)
  BY <1>1 DEF SameLedger
<1>3. Exists(s, i) <=> Exists(t, i)
  BY <1>2 DEF Exists, SameOrderLedger
<1> HIDE DEF i, o, p
<1>4. SameLedger(OnOrderIntentCreated(s, e), OnOrderIntentCreated(t, e))
  BY <1>1 DEF OnOrderIntentCreated, SameLedger, SameOrderLedger, State, i
<1>5. SameLedger(OnRiskApproved(s, e), OnRiskApproved(t, e))
  <2> DEFINE q(x) == [x EXCEPT !.status = "APPROVED",
                               !.risk = IF e.risk.present THEN e.risk ELSE @]
  <2>1. q(o) \in Order /\ q(p) \in Order /\ SameOrderLedger(q(o), q(p))
    BY <1>1, <1>2 DEF Order, Statuses, SameOrderLedger
  <2>2. QED
    BY <1>1, <2>1, UpdateOrderLedger DEF OnRiskApproved, i, o, p
<1>6. SameLedger(OnOrderAuthorized(s, e), OnOrderAuthorized(t, e))
  <2> DEFINE q(x) == [x EXCEPT !.status = "AUTHORIZED",
                               !.authorized = e.authorized]
  <2>1. q(o) \in Order /\ q(p) \in Order /\ SameOrderLedger(q(o), q(p))
    BY <1>1, <1>2 DEF Order, Statuses, SameOrderLedger
  <2>2. QED
    BY <1>1, <2>1, UpdateOrderLedger DEF OnOrderAuthorized, i, o, p
<1>7. /\ SameLedger(OnBrokerSubmissionRequested(s, e),
                    OnBrokerSubmissionRequested(t, e))
      /\ SameLedger(OnBrokerIoStarted(s, e), OnBrokerIoStarted(t, e))
  <2> DEFINE q(x) == [x EXCEPT !.requested = TRUE]
             r(x) == [x EXCEPT !.io_started = TRUE]
  <2>1. q(o) \in Order /\ q(p) \in Order /\ SameOrderLedger(q(o), q(p))
    BY <1>1, <1>2 DEF Order, SameOrderLedger
  <2>2. r(o) \in Order /\ r(p) \in Order /\ SameOrderLedger(r(o), r(p))
    BY <1>1, <1>2 DEF Order, SameOrderLedger
  <2>3. QED
    BY <1>1, <2>1, <2>2, UpdateOrderLedger
    DEF OnBrokerSubmissionRequested, OnBrokerIoStarted, i, o, p
<1>8. SameLedger(OnOrderSubmitted(s, e), OnOrderSubmitted(t, e))
  <2> DEFINE q(x) == [x EXCEPT
           !.status      = IF @ \in {"APPROVED", "AUTHORIZED", "MANUAL"}
                           THEN "SUBMITTED" ELSE @,
           !.exchange_id = e.exchange_id,
           !.authorized  = IF i \in Sells THEN e.authorized ELSE @,
           !.reserved    = IF i \in Sells THEN e.qty ELSE @]
  <2>1. q(o) \in Order /\ q(p) \in Order /\ SameOrderLedger(q(o), q(p))
    BY <1>1, <1>2 DEF Order, Statuses, SameOrderLedger
  <2>2. QED
    BY <1>1, <2>1, UpdateOrderLedger DEF OnOrderSubmitted, i, o, p
<1>9. SameLedger(OnOrderRejected(s, e), OnOrderRejected(t, e))
  BY <1>1, ReleaseType, ReleaseLedger, SettledLedger DEF OnOrderRejected, Statuses, i
<1>10. /\ SameLedger(OnBrokerAcknowledged(s, e), OnBrokerAcknowledged(t, e))
       /\ SameLedger(OnBrokerStateReconciled(s, e), OnBrokerStateReconciled(t, e))
       /\ SameLedger(OnLocalSubmissionFailed(s, e), OnLocalSubmissionFailed(t, e))
  BY <1>1, SettledLedger
  DEF OnBrokerAcknowledged, OnBrokerStateReconciled, OnLocalSubmissionFailed,
      Statuses, i
<1>11. /\ SameLedger(OnBrokerStateUnknown(s, e), OnBrokerStateUnknown(t, e))
       /\ SameLedger(OnManualInterventionRequired(s, e),
                     OnManualInterventionRequired(t, e))
  <2>1. /\ WithStatus(s, i, "MANUAL") \in State /\ WithStatus(t, i, "MANUAL") \in State
        /\ SameLedger(WithStatus(s, i, "MANUAL"), WithStatus(t, i, "MANUAL"))
    BY <1>1, WithStatusType, WithStatusLedger DEF Statuses
  <2> DEFINE m == WithStatus(s, i, "MANUAL")
             n == WithStatus(t, i, "MANUAL")
  <2>2. OnBrokerStateUnknown(s, e) =
          [m EXCEPT !.manual_blocked = TRUE, !.unresolved = @ \cup {i},
             !.reconciliation = "STARTED",
             !.health = IF @ = "PROTECTION_GAP" THEN @ ELSE "RECONCILING"]
        /\ OnBrokerStateUnknown(t, e) =
          [n EXCEPT !.manual_blocked = TRUE, !.unresolved = @ \cup {i},
             !.reconciliation = "STARTED",
             !.health = IF @ = "PROTECTION_GAP" THEN @ ELSE "RECONCILING"]
    BY DEF OnBrokerStateUnknown, i
  <2>3. OnManualInterventionRequired(s, e) =
          [m EXCEPT !.manual_blocked = TRUE, !.unresolved = @ \cup {i},
             !.health = IF @ = "PROTECTION_GAP" THEN @ ELSE "MANUAL_BLOCKED"]
        /\ OnManualInterventionRequired(t, e) =
          [n EXCEPT !.manual_blocked = TRUE, !.unresolved = @ \cup {i},
             !.health = IF @ = "PROTECTION_GAP" THEN @ ELSE "MANUAL_BLOCKED"]
    BY DEF OnManualInterventionRequired, i
  <2> HIDE DEF m, n
  <2>4. m \in State /\ n \in State /\ SameLedger(m, n)
    BY <2>1 DEF m, n
  <2>5. SameLedger(OnBrokerStateUnknown(s, e), OnBrokerStateUnknown(t, e))
    BY <2>2, <2>4 DEF State, SameLedger
  <2>6. SameLedger(OnManualInterventionRequired(s, e),
                   OnManualInterventionRequired(t, e))
    BY <2>3, <2>4 DEF State, SameLedger
  <2>7. QED
    BY <2>5, <2>6
<1>12. SameLedger(ApplyFill(s, e), ApplyFill(t, e))
  <2> DEFINE f == IF o.filled + e.qty < Size[i] THEN o.filled + e.qty ELSE Size[i]
             q(x) == [x EXCEPT !.filled = f,
                               !.status = IF f = Size[i] THEN "FILLED"
                                          ELSE "PARTIALLY_FILLED"]
  <2>1. o.filled = p.filled
    BY <1>2 DEF SameOrderLedger
  <2> HIDE DEF f
  <2>2. SameOrderLedger(q(o), q(p))
    BY <1>1, <1>2 DEF Order, SameOrderLedger
  <2> DEFINE next(x, y) ==
               [x EXCEPT !.orders[i] = y,
                         !.protection[i] = IF i \in Buys
                                           THEN "PROTECTION_REQUIRED" ELSE @]
  <2>3. Exists(s, i) => ApplyFill(s, e) = next(s, q(o))
    BY DEF ApplyFill, i, o, f
  <2>4. Exists(t, i) => ApplyFill(t, e) = next(t, q(p))
    BY <2>1 DEF ApplyFill, i, p, o, f
  <2>5. ~Exists(s, i) => ApplyFill(s, e) = s
    BY DEF ApplyFill, i
  <2>6. ~Exists(t, i) => ApplyFill(t, e) = t
    BY DEF ApplyFill, i
  <2> HIDE DEF q
  <2>7. SameLedger(next(s, q(o)), next(t, q(p)))
    BY <1>1, <2>2 DEF State, SameLedger
  <2>8. QED
    BY <1>3, <2>3, <2>4, <2>5, <2>6, <2>7
<1>13. SameLedger(OnCancelRequested(s, e), OnCancelRequested(t, e))
  BY <1>1, <1>2, WithStatusLedger
  DEF OnCancelRequested, SameOrderLedger, Statuses, i, o, p
<1>14. SameLedger(OnCancelConfirmed(s, e), OnCancelConfirmed(t, e))
  BY <1>1, WithStatusLedger, ReleaseType, ReleaseLedger
  DEF OnCancelConfirmed, Statuses, i
<1>15. /\ SameLedger(OnProtectiveOrderCreated(s, e), OnProtectiveOrderCreated(t, e))
       /\ SameLedger(OnProtectiveOrderAcknowledged(s, e),
                     OnProtectiveOrderAcknowledged(t, e))
  BY <1>1, <1>3
  DEF OnProtectiveOrderCreated, OnProtectiveOrderAcknowledged, State, SameLedger,
      SameOrderLedger, i
<1>16. /\ SameLedger(OnReconciliationStarted(s), OnReconciliationStarted(t))
       /\ SameLedger(OnReconciliationResolved(s), OnReconciliationResolved(t))
  BY DEF OnReconciliationStarted, OnReconciliationResolved, State, SameLedger,
         SameOrderLedger
<1>17. QED
  BY <1>1, <1>4, <1>5, <1>6, <1>7, <1>8, <1>9, <1>10, <1>11, <1>12, <1>13,
     <1>14, <1>15, <1>16
  DEF Apply, EventTypes

-----------------------------------------------------------------------------
(* What holds of every state of the log, and what makes it inductive.      *)

\* The manual block and the set of its reasons agree.
UnresolvedBlocks(s) ==
  /\ \A j \in Intents : s.orders[j].status = "MANUAL" => j \in s.unresolved
  /\ s.manual_blocked <=> s.unresolved # {}

\* Once nothing is unresolved a running reconciliation is the only reason left,
\* so that its resolution returns to NORMAL.
HealthNamesReason(s) ==
  /\ s.health \in {"NORMAL", "RECONCILING", "MANUAL_BLOCKED", "PROTECTION_GAP"}
  /\ s.reconciliation = "STARTED" /\ s.unresolved = {}
       => s.health \in {"NORMAL", "RECONCILING"}

\* Every bought quantity has a protection record.
FilledIsGuarded(s) ==
  \A j \in Buys : s.orders[j].filled > 0 => s.protection[j] # "NONE"

Sound(s) ==
  s \in State /\ UnresolvedBlocks(s) /\ HealthNamesReason(s) /\ FilledIsGuarded(s)

\* A reconciliation is resolved only when it runs and nothing is unresolved
\* (resolve_reconciliation).
Admissible(s, e) ==
  /\ e \in Event
  /\ e.type = "RECONCILIATION_RESOLVED" =>
       s.reconciliation = "STARTED" /\ s.unresolved = {}

LEMMA EmptyStateSound == Sound(EmptyState)
  BY EmptyStateType
  DEF Sound, EmptyState, UnresolvedBlocks, HealthNamesReason, FilledIsGuarded,
      NewOrder, Recons, Intents

\* Changing the order of one intent leaves the rest of the state alone.
LEMMA UpdateOrderFrame ==
  ASSUME NEW s \in State, NEW i \in Intents, NEW o \in Order, NEW r,
         r = UpdateOrder(s, i, o)
  PROVE  /\ r.health = s.health /\ r.reconciliation = s.reconciliation
         /\ r.unresolved = s.unresolved /\ r.manual_blocked = s.manual_blocked
         /\ r.protection = s.protection
         /\ \A j \in Intents : j # i => r.orders[j] = s.orders[j]
         /\ r.orders[i] = s.orders[i] \/ r.orders[i] = o
  BY DEF UpdateOrder, State

LEMMA UpdateOrderSound ==
  ASSUME NEW s, Sound(s), NEW i \in Intents, NEW o \in Order,
         o.status = "MANUAL" => i \in s.unresolved,
         o.filled =< s.orders[i].filled
  PROVE  Sound(UpdateOrder(s, i, o))
<1> DEFINE r == UpdateOrder(s, i, o)
<1>1. s \in State /\ r \in State
  BY UpdateOrderType DEF Sound
<1>2. /\ r.health = s.health /\ r.reconciliation = s.reconciliation
      /\ r.unresolved = s.unresolved /\ r.manual_blocked = s.manual_blocked
      /\ r.protection = s.protection
      /\ \A j \in Intents : j # i => r.orders[j] = s.orders[j]
      /\ r.orders[i] = s.orders[i] \/ r.orders[i] = o
  BY <1>1, UpdateOrderFrame
<1> HIDE DEF r
<1>3. UnresolvedBlocks(r)
  BY <1>2 DEF Sound, UnresolvedBlocks
<1>4. HealthNamesReason(r)
  BY <1>2 DEF Sound, HealthNamesReason
<1>5. FilledIsGuarded(r)
  <2>1. ASSUME NEW j \in Buys, r.orders[j].filled > 0
        PROVE  s.orders[j].filled > 0
    <3>1. j \in Intents /\ s.orders[j].filled \in Nat /\ o.filled \in Nat
      BY <1>1 DEF Intents, State, Order
    <3>2. QED
      BY <1>2, <2>1, <3>1
  <2>2. QED
    BY <1>2, <2>1 DEF Sound, FilledIsGuarded
<1>6. QED
  BY <1>1, <1>3, <1>4, <1>5 DEF Sound, r

LEMMA WithStatusSound ==
  ASSUME NEW s, Sound(s), NEW i \in Intents, NEW status \in Statuses,
         status = "MANUAL" => i \in s.unresolved
  PROVE  Sound(WithStatus(s, i, status))
<1> DEFINE o == [s.orders[i] EXCEPT !.status = status]
<1>1. o \in Order /\ o.status = status /\ o.filled = s.orders[i].filled
      /\ o.filled \in Nat
  BY DEF Sound, State, Order
<1>2. WithStatus(s, i, status) = UpdateOrder(s, i, o)
  BY DEF WithStatus
<1> HIDE DEF o
<1>3. o.filled =< s.orders[i].filled
  BY <1>1
<1>4. QED
  BY <1>1, <1>2, <1>3, UpdateOrderSound

LEMMA ReleaseSound ==
  ASSUME NEW s, Sound(s), NEW i \in Intents
  PROVE  Sound(ReleaseSellRemainder(s, i))
<1> DEFINE q == s.orders[i]
           o == [q EXCEPT !.released = @ + RemainingReserved(q)]
<1>1. q \in Order
  BY DEF Sound, State
<1>2. o \in Order /\ o.status = q.status /\ o.filled = q.filled /\ q.filled \in Nat
  BY <1>1, RemainingReservedType DEF Order
<1>3. o.status = "MANUAL" => i \in s.unresolved
  BY <1>2 DEF Sound, UnresolvedBlocks
<1>4. ReleaseSellRemainder(s, i) \in {s, UpdateOrder(s, i, o)}
  BY DEF ReleaseSellRemainder
<1>5. o.filled =< s.orders[i].filled
  BY <1>2
<1> HIDE DEF o
<1>6. Sound(UpdateOrder(s, i, o))
  BY <1>2, <1>3, <1>5, UpdateOrderSound
<1>7. QED
  BY <1>4, <1>6

LEMMA SettledSound ==
  ASSUME NEW s, Sound(s), NEW i \in Intents, NEW status \in Statuses \ {"MANUAL"}
  PROVE  Sound(Settled(s, i, status))
<1>1. CASE ~Exists(s, i)
  BY <1>1 DEF Settled
<1>2. CASE Exists(s, i)
  <2> DEFINE r == WithStatus(s, i, status)
             u == ResolveManualIntent(r, i)
  <2>1. Sound(r)
    BY WithStatusSound
  <2>2. r.orders[i].status = status
    BY <1>2 DEF WithStatus, UpdateOrder, Sound, State, Order
  <2> HIDE DEF r
  <2>3. u \in State
    BY <2>1, ResolveManualIntentType DEF Sound
  <2>4. UnresolvedBlocks(u)
    BY <2>1, <2>2 DEF Sound, UnresolvedBlocks, ResolveManualIntent, State
  <2>5. HealthNamesReason(u)
    BY <2>1 DEF Sound, HealthNamesReason, ResolveManualIntent, State
  <2>6. FilledIsGuarded(u)
    BY <2>1 DEF Sound, FilledIsGuarded, ResolveManualIntent, State
  <2>7. QED
    BY <1>2, <2>3, <2>4, <2>5, <2>6 DEF Sound, Settled, r
<1>3. QED
  BY <1>1, <1>2

\* Replay keeps a sound state sound (_apply, any event of a log).
LEMMA ApplySound ==
  ASSUME NEW s, Sound(s), NEW e, Admissible(s, e)
  PROVE  Sound(Apply(s, e))
<1> DEFINE i == e.intent
           o == s.orders[i]
           r == Apply(s, e)
<1>1. /\ s \in State /\ e \in Event /\ i \in Intents /\ o \in Order
      /\ e.qty \in Nat /\ e.type \in EventTypes
      /\ o.filled \in Nat /\ e.authorized \in Nat /\ e.risk \in RiskDecision
      /\ e.exchange_id \in BOOLEAN
  BY DEF Sound, Admissible, Event, State, Order
<1>2. r \in State
  BY <1>1, ApplyType
<1> HIDE DEF i, o, r
<1> SUFFICES Sound(r)
  BY DEF r
\* Handlers that rewrite one order without touching its fills.
<1>3. ASSUME NEW q \in Order, q.filled = o.filled, q.status # "MANUAL",
             r = UpdateOrder(s, i, q)
      PROVE  Sound(r)
  BY <1>1, <1>3, UpdateOrderSound DEF o
<1>4. CASE e.type = "ORDER_INTENT_CREATED"
  <2> DEFINE q == NewOrder("PENDING")
  <2>1. q.status = "PENDING" /\ q.filled = 0
    BY DEF NewOrder
  <2>2. r = [s EXCEPT !.orders[i] = q]
    BY <1>4 DEF r, i, Apply, OnOrderIntentCreated
  <2> HIDE DEF q
  <2>3. UnresolvedBlocks(r) /\ HealthNamesReason(r) /\ FilledIsGuarded(r)
    BY <1>1, <2>1, <2>2
    DEF Sound, State, UnresolvedBlocks, HealthNamesReason, FilledIsGuarded, Intents
  <2>4. QED
    BY <1>2, <2>3 DEF Sound
<1>5. CASE e.type \in {"RISK_APPROVED", "ORDER_AUTHORIZED"}
  <2> DEFINE q == [o EXCEPT !.status = "APPROVED",
                            !.risk = IF e.risk.present THEN e.risk ELSE @]
             p == [o EXCEPT !.status = "AUTHORIZED", !.authorized = e.authorized]
  <2>1. q \in Order /\ q.filled = o.filled /\ q.status # "MANUAL"
    BY <1>1 DEF Order, Statuses
  <2>2. p \in Order /\ p.filled = o.filled /\ p.status # "MANUAL"
    BY <1>1 DEF Order, Statuses
  <2>3. r = UpdateOrder(s, i, q) \/ r = UpdateOrder(s, i, p)
    BY <1>5 DEF r, i, o, Apply, OnRiskApproved, OnOrderAuthorized
  <2> HIDE DEF q, p
  <2>4. QED
    BY <1>3, <2>1, <2>2, <2>3
<1>6. CASE e.type \in {"BROKER_SUBMISSION_REQUESTED", "BROKER_IO_STARTED"}
  <2> DEFINE q == [o EXCEPT !.requested = TRUE]
             p == [o EXCEPT !.io_started = TRUE]
  <2>1. q \in Order /\ q.filled = o.filled /\ q.status = o.status
    BY <1>1 DEF Order
  <2>2. p \in Order /\ p.filled = o.filled /\ p.status = o.status
    BY <1>1 DEF Order
  <2>3. r = UpdateOrder(s, i, q) \/ r = UpdateOrder(s, i, p)
    BY <1>6 DEF r, i, o, Apply, OnBrokerSubmissionRequested, OnBrokerIoStarted
  <2>4. o.status = "MANUAL" => i \in s.unresolved
    BY <1>1 DEF Sound, UnresolvedBlocks, o
  <2> HIDE DEF q, p
  <2>5. q.filled =< s.orders[i].filled /\ p.filled =< s.orders[i].filled
    BY <1>1, <2>1, <2>2 DEF o
  <2>6. QED
    BY <1>1, <2>1, <2>2, <2>3, <2>4, <2>5, UpdateOrderSound
<1>7. CASE e.type = "ORDER_SUBMITTED"
  <2> DEFINE q == [o EXCEPT
           !.status      = IF @ \in {"APPROVED", "AUTHORIZED", "MANUAL"}
                           THEN "SUBMITTED" ELSE @,
           !.exchange_id = e.exchange_id,
           !.authorized  = IF i \in Sells THEN e.authorized ELSE @,
           !.reserved    = IF i \in Sells THEN e.qty ELSE @]
  <2>1. q \in Order /\ q.filled = o.filled /\ q.status # "MANUAL"
    BY <1>1 DEF Order, Statuses
  <2>2. r = UpdateOrder(s, i, q)
    BY <1>7 DEF r, i, o, Apply, OnOrderSubmitted
  <2> HIDE DEF q
  <2>3. QED
    BY <1>3, <2>1, <2>2
<1>8. CASE e.type \in {"ORDER_REJECTED", "BROKER_ACKNOWLEDGED",
                       "BROKER_STATE_RECONCILED", "LOCAL_SUBMISSION_FAILED"}
  <2>1. Sound(ReleaseSellRemainder(s, i))
    BY <1>1, ReleaseSound
  <2>2. \/ r = Settled(ReleaseSellRemainder(s, i), i, "REJECTED")
        \/ r = Settled(s, i, "ACKNOWLEDGED") \/ r = Settled(s, i, "REJECTED")
    BY <1>8 DEF r, i, Apply, OnOrderRejected, OnBrokerAcknowledged,
                OnBrokerStateReconciled, OnLocalSubmissionFailed
  <2>3. QED
    BY <1>1, <2>1, <2>2, SettledSound DEF Statuses
<1>9. CASE e.type \in {"BROKER_STATE_UNKNOWN", "MANUAL_INTERVENTION_REQUIRED"}
  <2> DEFINE m == WithStatus(s, i, "MANUAL")
             q == [o EXCEPT !.status = "MANUAL"]
  <2>1. q \in Order /\ q.filled = o.filled
    BY <1>1 DEF Order, Statuses
  <2>2. m = UpdateOrder(s, i, q)
    BY DEF WithStatus, o
  <2> HIDE DEF m, q
  <2>3. /\ m \in State
        /\ m.health = s.health /\ m.unresolved = s.unresolved
        /\ m.protection = s.protection
        /\ \A j \in Intents : j # i => m.orders[j] = s.orders[j]
        /\ m.orders[i] = s.orders[i] \/ m.orders[i] = q
    BY <1>1, <2>1, <2>2, UpdateOrderType, UpdateOrderFrame, SMTT(20)
  <2>4. /\ r.manual_blocked = TRUE /\ r.unresolved = s.unresolved \cup {i}
        /\ r.health \in {"PROTECTION_GAP", "RECONCILING", "MANUAL_BLOCKED"}
        /\ r.orders = m.orders /\ r.protection = s.protection
    BY <1>9, <2>3
    DEF r, m, i, Apply, OnBrokerStateUnknown, OnManualInterventionRequired, State
  <2>5. UnresolvedBlocks(r) /\ HealthNamesReason(r)
    BY <1>1, <2>3, <2>4 DEF Sound, UnresolvedBlocks, HealthNamesReason
  <2>6. ASSUME NEW j \in Buys, r.orders[j].filled > 0
        PROVE  r.protection[j] # "NONE"
    BY <1>1, <2>1, <2>3, <2>4, <2>6 DEF Sound, FilledIsGuarded, Intents, o
  <2>7. QED
    BY <1>2, <2>5, <2>6 DEF Sound, FilledIsGuarded
<1>10. CASE e.type \in {"PARTIAL_FILL_RECEIVED", "FILL_RECEIVED"}
  <2>1. CASE ~Exists(s, i)
    BY <1>10, <2>1 DEF r, i, Apply, ApplyFill
  <2>2. CASE Exists(s, i)
    <3> DEFINE f == IF o.filled + e.qty < Size[i] THEN o.filled + e.qty
                    ELSE Size[i]
               q == [o EXCEPT !.filled = f,
                              !.status = IF f = Size[i] THEN "FILLED"
                                         ELSE "PARTIALLY_FILLED"]
    <3>1. /\ q.status \in {"FILLED", "PARTIALLY_FILLED"}
          /\ r = [s EXCEPT !.orders[i] = q,
                           !.protection[i] = IF i \in Buys
                                             THEN "PROTECTION_REQUIRED" ELSE @]
      BY <1>1, <1>10, <2>2 DEF r, i, o, Apply, ApplyFill, Order
    <3> HIDE DEF q
    <3>2. UnresolvedBlocks(r) /\ HealthNamesReason(r)
      BY <1>1, <3>1 DEF Sound, State, UnresolvedBlocks, HealthNamesReason
    <3>3. FilledIsGuarded(r)
      BY <1>1, <3>1 DEF Sound, State, FilledIsGuarded, Intents
    <3>4. QED
      BY <1>2, <3>2, <3>3 DEF Sound
  <2>3. QED
    BY <2>1, <2>2
<1>11. CASE e.type = "CANCEL_REQUESTED"
  BY <1>1, <1>11, WithStatusSound DEF r, i, Apply, OnCancelRequested, Statuses
<1>12. CASE e.type = "CANCEL_CONFIRMED"
  BY <1>1, <1>12, WithStatusSound, ReleaseSound
  DEF r, i, Apply, OnCancelConfirmed, Statuses
<1>13. CASE e.type \in {"PROTECTIVE_ORDER_CREATED",
                        "PROTECTIVE_ORDER_ACKNOWLEDGED"}
  <2>1. /\ r.orders = s.orders /\ r.unresolved = s.unresolved
        /\ r.manual_blocked = s.manual_blocked /\ r.health = s.health
        /\ r.reconciliation = s.reconciliation
        /\ \A j \in Intents : r.protection[j] \in {s.protection[j], "PROTECTED"}
    BY <1>1, <1>13
    DEF r, i, Apply, OnProtectiveOrderCreated, OnProtectiveOrderAcknowledged, State
  <2>2. QED
    BY <1>2, <2>1
    DEF Sound, UnresolvedBlocks, HealthNamesReason, FilledIsGuarded, Intents
<1>14. CASE e.type \in {"RECONCILIATION_STARTED", "RECONCILIATION_RESOLVED"}
  <2>1. /\ r.orders = s.orders /\ r.unresolved = s.unresolved
        /\ r.manual_blocked = (s.manual_blocked /\ s.unresolved # {})
             \/ r.manual_blocked = s.manual_blocked
        /\ r.protection = s.protection
        /\ r.reconciliation = "STARTED" => r.health = "RECONCILING"
        /\ r.health \in {"NORMAL", "RECONCILING", s.health}
    BY <1>1, <1>14
    DEF r, Apply, OnReconciliationStarted, OnReconciliationResolved, State
  <2>2. QED
    BY <1>2, <2>1
    DEF Sound, UnresolvedBlocks, HealthNamesReason, FilledIsGuarded
<1>15. QED
  BY <1>1, <1>4, <1>5, <1>6, <1>7, <1>8, <1>9, <1>10, <1>11, <1>12, <1>13, <1>14
  DEF EventTypes

-----------------------------------------------------------------------------
(* Halts: two states that agree on the ledger may name different reasons   *)
(* for a halt, but are halted together.                                    *)

SameHalt(s, t) ==
  s.reconciliation = "STARTED" \/ (s.health = "NORMAL" <=> t.health = "NORMAL")

Agrees(s, t) == SameLedger(s, t) /\ SameHalt(s, t)

LEMMA AgreesReflexive ==
  ASSUME NEW s
  PROVE  Agrees(s, s)
  BY SameLedgerReflexive DEF Agrees, SameHalt

LEMMA AgreesTransitive ==
  ASSUME NEW s, NEW t, NEW u, Agrees(s, t), Agrees(t, u)
  PROVE  Agrees(s, u)
<1>1. SameLedger(s, u)
  BY SameLedgerTransitive DEF Agrees
<1>2. QED
  BY <1>1 DEF Agrees, SameHalt, SameLedger

LEMMA AgreesSymmetric ==
  ASSUME NEW s, NEW t, Agrees(s, t)
  PROVE  Agrees(t, s)
  BY DEF Agrees, SameHalt, SameLedger, SameOrderLedger

HaltEvents ==
  {"BROKER_STATE_UNKNOWN", "MANUAL_INTERVENTION_REQUIRED",
   "RECONCILIATION_STARTED", "RECONCILIATION_RESOLVED"}

\* What an event does to the halt.
LEMMA ApplyHalt ==
  ASSUME NEW s, Sound(s), NEW e, Admissible(s, e), NEW r, r = Apply(s, e)
  PROVE  /\ e.type \notin HaltEvents =>
              /\ r.reconciliation = s.reconciliation
              /\ s.reconciliation # "STARTED" => r.health = s.health
         /\ e.type \in {"BROKER_STATE_UNKNOWN", "RECONCILIATION_STARTED"} =>
              r.reconciliation = "STARTED"
         /\ e.type = "MANUAL_INTERVENTION_REQUIRED" =>
              r.reconciliation = s.reconciliation /\ r.health # "NORMAL"
         /\ e.type = "RECONCILIATION_RESOLVED" => r.health = "NORMAL"
<1> DEFINE i == e.intent
<1>1. s \in State /\ i \in Intents /\ e.type \in EventTypes
  BY DEF Sound, Admissible, Event
<1> HIDE DEF i
<1>2. ASSUME NEW status
      PROVE  /\ WithStatus(s, i, status).health = s.health
             /\ WithStatus(s, i, status).reconciliation = s.reconciliation
  BY <1>1 DEF WithStatus, UpdateOrder, State
<1>3. ASSUME NEW u \in State, NEW status \in Statuses
      PROVE  LET v == Settled(u, i, status) IN
             /\ v.reconciliation = u.reconciliation
             /\ u.reconciliation # "STARTED" => v.health = u.health
  BY <1>1 DEF Settled, ResolveManualIntent, WithStatus, UpdateOrder, State
<1>4. /\ ReleaseSellRemainder(s, i) \in State
      /\ ReleaseSellRemainder(s, i).health = s.health
      /\ ReleaseSellRemainder(s, i).reconciliation = s.reconciliation
  BY <1>1, ReleaseType DEF ReleaseSellRemainder, UpdateOrder, State
<1>5. CASE e.type \in HaltEvents
  <2>1. WithStatus(s, i, "MANUAL") \in State
    BY <1>1, WithStatusType DEF Statuses
  <2>2. QED
    BY <1>1, <1>2, <1>5, <2>1
    DEF HaltEvents, i, Apply, OnBrokerStateUnknown, OnManualInterventionRequired,
        OnReconciliationStarted, OnReconciliationResolved, State, Admissible,
        Sound, HealthNamesReason
<1>6. CASE e.type \in {"ORDER_REJECTED", "BROKER_ACKNOWLEDGED",
                       "BROKER_STATE_RECONCILED", "LOCAL_SUBMISSION_FAILED"}
  BY <1>1, <1>3, <1>4, <1>6
  DEF HaltEvents, i, Apply, OnOrderRejected, OnBrokerAcknowledged,
      OnBrokerStateReconciled, OnLocalSubmissionFailed, Statuses
<1>7. CASE e.type \in {"CANCEL_REQUESTED", "CANCEL_CONFIRMED"}
  BY <1>1, <1>2, <1>4, <1>7
  DEF HaltEvents, i, Apply, OnCancelRequested, OnCancelConfirmed, WithStatus,
      UpdateOrder, State
<1>8. CASE e.type \in {"ORDER_INTENT_CREATED", "RISK_APPROVED",
                       "ORDER_AUTHORIZED", "BROKER_SUBMISSION_REQUESTED",
                       "BROKER_IO_STARTED", "ORDER_SUBMITTED"}
  BY <1>1, <1>8
  DEF HaltEvents, i, Apply, OnOrderIntentCreated, OnRiskApproved,
      OnOrderAuthorized, OnBrokerSubmissionRequested, OnBrokerIoStarted,
      OnOrderSubmitted, UpdateOrder, State
<1>9. CASE e.type \in {"PARTIAL_FILL_RECEIVED", "FILL_RECEIVED",
                       "PROTECTIVE_ORDER_CREATED",
                       "PROTECTIVE_ORDER_ACKNOWLEDGED"}
  BY <1>1, <1>9
  DEF HaltEvents, i, Apply, ApplyFill, OnProtectiveOrderCreated,
      OnProtectiveOrderAcknowledged, State
<1>10. QED
  BY <1>1, <1>5, <1>6, <1>7, <1>8, <1>9 DEF EventTypes, HaltEvents

\* States that agree keep agreeing.
LEMMA ApplyAgrees ==
  ASSUME NEW s, NEW t, Sound(s), Sound(t), Agrees(s, t),
         NEW e, Admissible(s, e)
  PROVE  Agrees(Apply(s, e), Apply(t, e))
<1>1. Admissible(t, e)
  BY DEF Admissible, Agrees, SameLedger
<1>2. SameLedger(Apply(s, e), Apply(t, e))
  BY ApplyLedger DEF Agrees, Sound, Admissible
<1> DEFINE r == Apply(s, e)
           u == Apply(t, e)
<1>3. r.reconciliation = u.reconciliation /\ s.reconciliation = t.reconciliation
  BY <1>2 DEF SameLedger, Agrees
<1> HIDE DEF r, u
<1>4. SameHalt(r, u)
  <2>1. CASE e.type \notin HaltEvents
    <3>1. /\ r.reconciliation = s.reconciliation
          /\ s.reconciliation # "STARTED" => r.health = s.health
      BY <2>1, ApplyHalt DEF r
    <3>2. t.reconciliation # "STARTED" => u.health = t.health
      BY <1>1, <2>1, ApplyHalt DEF u
    <3>3. QED
      BY <1>3, <3>1, <3>2 DEF Agrees, SameHalt
  <2>2. CASE e.type \in {"BROKER_STATE_UNKNOWN", "RECONCILIATION_STARTED"}
    BY <2>2, ApplyHalt DEF r, SameHalt
  <2>3. CASE e.type = "MANUAL_INTERVENTION_REQUIRED"
    BY <1>1, <2>3, ApplyHalt DEF r, u, SameHalt
  <2>4. CASE e.type = "RECONCILIATION_RESOLVED"
    BY <1>1, <2>4, ApplyHalt DEF r, u, SameHalt
  <2>5. QED
    BY <2>1, <2>2, <2>3, <2>4 DEF HaltEvents
<1>5. QED
  BY <1>2, <1>4 DEF Agrees, r, u

-----------------------------------------------------------------------------
(* Requests and the lock table.                                            *)

\* Only BROKER_SUBMISSION_REQUESTED requests, and only its own intent.
LEMMA ApplyRequested ==
  ASSUME NEW s \in State, NEW e \in Event, NEW j \in Intents,
         Apply(s, e).orders[j].requested
  PROVE  \/ s.orders[j].requested
         \/ e.type = "BROKER_SUBMISSION_REQUESTED" /\ j = e.intent
<1> DEFINE i == e.intent
           asked(t) == t.orders[j].requested
<1>1. i \in Intents /\ e.type \in EventTypes /\ s.orders[i] \in Order
  BY DEF Event, State
<1>2. ASSUME NEW t \in State, NEW status \in Statuses, asked(WithStatus(t, i, status))
      PROVE  asked(t)
  BY <1>1, <1>2 DEF WithStatus, UpdateOrder, State, Order
<1>3. ASSUME NEW t \in State, NEW status \in Statuses, asked(Settled(t, i, status))
      PROVE  asked(t)
  <2>1. WithStatus(t, i, status) \in State
    BY <1>1, WithStatusType
  <2>2. asked(ResolveManualIntent(WithStatus(t, i, status), i)) =>
          asked(WithStatus(t, i, status))
    BY <2>1 DEF ResolveManualIntent, State
  <2>3. QED
    BY <1>2, <1>3, <2>2 DEF Settled
<1>4. /\ ReleaseSellRemainder(s, i) \in State
      /\ asked(ReleaseSellRemainder(s, i)) => asked(s)
  <2>1. ReleaseSellRemainder(s, i) \in State
    BY <1>1, ReleaseType
  <2>2. ASSUME NEW n PROVE asked(UpdateOrder(s, i, [s.orders[i] EXCEPT !.released = n]))
                             => asked(s)
    BY <1>1 DEF UpdateOrder, State, Order
  <2>3. QED
    BY <2>1, <2>2 DEF ReleaseSellRemainder
<1>5. CASE e.type \in {"ORDER_REJECTED", "BROKER_ACKNOWLEDGED",
                       "BROKER_STATE_RECONCILED", "LOCAL_SUBMISSION_FAILED"}
  BY <1>1, <1>3, <1>4, <1>5
  DEF Apply, OnOrderRejected, OnBrokerAcknowledged, OnBrokerStateReconciled,
      OnLocalSubmissionFailed, Statuses
<1>6. CASE e.type \in {"BROKER_STATE_UNKNOWN", "MANUAL_INTERVENTION_REQUIRED"}
  <2>1. WithStatus(s, i, "MANUAL") \in State
    BY <1>1, WithStatusType DEF Statuses
  <2>2. Apply(s, e).orders = WithStatus(s, i, "MANUAL").orders
    BY <1>6, <2>1
    DEF Apply, OnBrokerStateUnknown, OnManualInterventionRequired, State
  <2>3. QED
    BY <1>2, <2>2 DEF Statuses
<1>7. CASE e.type \in {"CANCEL_REQUESTED", "CANCEL_CONFIRMED"}
  BY <1>1, <1>2, <1>4, <1>7 DEF Apply, OnCancelRequested, OnCancelConfirmed, Statuses
<1>8. CASE e.type \in {"ORDER_INTENT_CREATED", "RISK_APPROVED",
                       "ORDER_AUTHORIZED", "BROKER_SUBMISSION_REQUESTED",
                       "BROKER_IO_STARTED", "ORDER_SUBMITTED"}
  BY <1>1, <1>8
  DEF Apply, OnOrderIntentCreated, OnRiskApproved, OnOrderAuthorized,
      OnBrokerSubmissionRequested, OnBrokerIoStarted, OnOrderSubmitted,
      UpdateOrder, NewOrder, State, Order
<1>9. CASE e.type \in {"PARTIAL_FILL_RECEIVED", "FILL_RECEIVED",
                       "PROTECTIVE_ORDER_CREATED", "RECONCILIATION_STARTED",
                       "PROTECTIVE_ORDER_ACKNOWLEDGED",
                       "RECONCILIATION_RESOLVED"}
  BY <1>1, <1>9
  DEF Apply, ApplyFill, OnProtectiveOrderCreated, OnProtectiveOrderAcknowledged,
      OnReconciliationStarted, OnReconciliationResolved, State, Order
<1>10. QED
  BY <1>1, <1>5, <1>6, <1>7, <1>8, <1>9 DEF EventTypes

LEMMA ReservationProjectionType ==
  ASSUME NEW rows \in [Intents -> Row], NEW e \in Event
  PROVE  ReservationProjection(rows, e) \in [Intents -> Row]
<1> DEFINE i == e.intent
           r == rows[i]
<1>1. i \in Intents /\ r \in Row /\ e.qty \in Nat
  BY DEF Event
<1> HIDE DEF i, r
<1>2. [status |-> "active", reserved |-> e.qty, filled |-> 0, released |-> 0] \in Row
  BY <1>1 DEF Row
<1>3. r.filled + e.qty \in Nat /\ Truncated(r.reserved, r.filled) \in Nat
  <2>1. r.filled \in Nat /\ r.reserved \in Nat
    BY <1>1 DEF Row
  <2>2. r.filled + e.qty \in Nat
    BY <1>1, <2>1
  <2>3. Truncated(r.reserved, r.filled) \in Nat
    BY <2>1, TruncatedType
  <2>4. QED
    BY <2>2, <2>3
<1>4. [r EXCEPT !.filled = @ + e.qty,
                !.status = IF r.filled + e.qty = r.reserved
                           THEN "filled" ELSE "active"] \in Row
  BY <1>1, <1>3 DEF Row
<1>5. [r EXCEPT !.released = Truncated(r.reserved, r.filled),
                !.status = IF e.type = "CANCEL_CONFIRMED"
                           THEN "canceled" ELSE "rejected"] \in Row
  BY <1>1, <1>3 DEF Row
<1> DEFINE filled == [r EXCEPT !.filled = @ + e.qty,
                               !.status = IF r.filled + e.qty = r.reserved
                                          THEN "filled" ELSE "active"]
           closed == [r EXCEPT !.released = Truncated(r.reserved, r.filled),
                               !.status = IF e.type = "CANCEL_CONFIRMED"
                                          THEN "canceled" ELSE "rejected"]
           opened == [status |-> "active", reserved |-> e.qty, filled |-> 0,
                      released |-> 0]
<1>6. ReservationProjection(rows, e) \in
        {rows, [rows EXCEPT ![i] = opened], [rows EXCEPT ![i] = filled],
         [rows EXCEPT ![i] = closed]}
  BY <1>1 DEF ReservationProjection, i, r
<1>7. opened \in Row /\ filled \in Row /\ closed \in Row
  BY <1>2, <1>4, <1>5
<1> HIDE DEF opened, filled, closed
<1>8. QED
  BY <1>1, <1>6, <1>7
-----------------------------------------------------------------------------
(* What an event does to the order it is about, and that it does nothing   *)
(* to any other.                                                           *)

FillEvents == {"PARTIAL_FILL_RECEIVED", "FILL_RECEIVED"}

PreparingEvents ==
  {"RISK_APPROVED", "ORDER_AUTHORIZED", "BROKER_SUBMISSION_REQUESTED",
   "BROKER_IO_STARTED"}

\* The events whose handler goes by Settled, and the status they lead to.
SettlingEvents ==
  {"ORDER_REJECTED", "BROKER_ACKNOWLEDGED", "BROKER_STATE_RECONCILED",
   "LOCAL_SUBMISSION_FAILED"}

SettledStatus(e) ==
  IF e.type \in {"BROKER_ACKNOWLEDGED", "BROKER_STATE_RECONCILED"}
  THEN "ACKNOWLEDGED" ELSE "REJECTED"

LEMMA WithStatusAt ==
  ASSUME NEW s \in State, NEW i \in Intents, NEW status \in Statuses
  PROVE  /\ WithStatus(s, i, status) \in State
         /\ WithStatus(s, i, status).unresolved = s.unresolved
         /\ WithStatus(s, i, status).orders[i] =
              IF Exists(s, i) THEN [s.orders[i] EXCEPT !.status = status]
              ELSE s.orders[i]
         /\ \A j \in Intents : j # i =>
              WithStatus(s, i, status).orders[j] = s.orders[j]
<1>1. WithStatus(s, i, status) \in State
  BY WithStatusType
<1>2. QED
  BY <1>1 DEF WithStatus, UpdateOrder, State

LEMMA SettledAt ==
  ASSUME NEW s \in State, NEW i \in Intents, NEW status \in Statuses
  PROVE  /\ Settled(s, i, status) \in State
         /\ Settled(s, i, status).unresolved =
              IF Exists(s, i) THEN s.unresolved \ {i} ELSE s.unresolved
         /\ Settled(s, i, status).orders[i] =
              IF Exists(s, i) THEN [s.orders[i] EXCEPT !.status = status]
              ELSE s.orders[i]
         /\ \A j \in Intents : j # i =>
              Settled(s, i, status).orders[j] = s.orders[j]
<1> DEFINE w == WithStatus(s, i, status)
<1>1. /\ w \in State /\ w.unresolved = s.unresolved
      /\ w.orders[i] = IF Exists(s, i) THEN [s.orders[i] EXCEPT !.status = status]
                       ELSE s.orders[i]
      /\ \A j \in Intents : j # i => w.orders[j] = s.orders[j]
  BY WithStatusAt
<1>2. Settled(s, i, status) = IF Exists(s, i) THEN ResolveManualIntent(w, i) ELSE s
  BY DEF Settled
<1> HIDE DEF w
<1>3. Settled(s, i, status) \in State
  BY SettledType
<1>4. /\ ResolveManualIntent(w, i).orders = w.orders
      /\ ResolveManualIntent(w, i).unresolved = w.unresolved \ {i}
  BY <1>1 DEF ResolveManualIntent, State
<1>5. QED
  BY <1>1, <1>2, <1>3, <1>4

\* What two orders share when only the released quantity tells them apart.
ButReleased(o, p) ==
  /\ p.status = o.status /\ p.risk = o.risk /\ p.exchange_id = o.exchange_id
  /\ p.filled = o.filled /\ p.authorized = o.authorized
  /\ p.reserved = o.reserved /\ p.requested = o.requested
  /\ p.io_started = o.io_started

LEMMA ReleaseAt ==
  ASSUME NEW s \in State, NEW i \in Intents
  PROVE  /\ ReleaseSellRemainder(s, i) \in State
         /\ ReleaseSellRemainder(s, i).unresolved = s.unresolved
         /\ ButReleased(s.orders[i], ReleaseSellRemainder(s, i).orders[i])
         /\ ~Exists(s, i) => ReleaseSellRemainder(s, i) = s
         /\ Exists(ReleaseSellRemainder(s, i), i) <=> Exists(s, i)
         /\ \A j \in Intents : j # i =>
              ReleaseSellRemainder(s, i).orders[j] = s.orders[j]
<1>1. ReleaseSellRemainder(s, i) \in State
  BY ReleaseType
<1> DEFINE o == [s.orders[i] EXCEPT !.released = @ + RemainingReserved(s.orders[i])]
<1>2. ReleaseSellRemainder(s, i) =
        IF i \in Sells /\ Exists(s, i) THEN [s EXCEPT !.orders[i] = o] ELSE s
  BY DEF ReleaseSellRemainder, UpdateOrder
<1>3. ButReleased(s.orders[i], o)
  BY DEF ButReleased, State, Order
<1> HIDE DEF o
<1>4. /\ ReleaseSellRemainder(s, i).unresolved = s.unresolved
      /\ ReleaseSellRemainder(s, i).orders[i] =
           IF i \in Sells /\ Exists(s, i) THEN o ELSE s.orders[i]
      /\ \A j \in Intents : j # i =>
           ReleaseSellRemainder(s, i).orders[j] = s.orders[j]
  BY <1>2 DEF State
<1>5. QED
  BY <1>1, <1>2, <1>3, <1>4 DEF ButReleased, Exists

LEMMA ApplyElsewhere ==
  ASSUME NEW s \in State, NEW e \in Event, NEW r, r = Apply(s, e),
         NEW j \in Intents, j # e.intent
  PROVE  /\ r.orders[j] = s.orders[j]
         /\ j \in r.unresolved <=> j \in s.unresolved
<1> DEFINE i == e.intent
<1>1. i \in Intents /\ i # j /\ j # i /\ e.type \in EventTypes
  BY DEF Event
<1>0. "MANUAL" \in Statuses
  BY DEF Statuses
<1> HIDE DEF i
<1>2. CASE e.type \in {"BROKER_STATE_UNKNOWN", "MANUAL_INTERVENTION_REQUIRED"}
  <2> DEFINE m == WithStatus(s, i, "MANUAL")
  <2>1. m \in State /\ m.unresolved = s.unresolved /\ m.orders[j] = s.orders[j]
    BY <1>0, <1>1, WithStatusAt
  <2>2. r.orders = m.orders /\ r.unresolved = m.unresolved \cup {i}
    BY <1>2, <2>1
    DEF Apply, OnBrokerStateUnknown, OnManualInterventionRequired, State, i
  <2>3. QED
    BY <1>1, <2>1, <2>2
<1>3. CASE e.type \in SettlingEvents
  <2> DEFINE u == IF e.type = "ORDER_REJECTED" THEN ReleaseSellRemainder(s, i) ELSE s
  <2>1. u \in State /\ u.unresolved = s.unresolved /\ u.orders[j] = s.orders[j]
    BY <1>1, ReleaseAt
  <2>2. r = Settled(u, i, SettledStatus(e))
    BY <1>3
    DEF Apply, OnOrderRejected, OnBrokerAcknowledged, OnBrokerStateReconciled,
        OnLocalSubmissionFailed, SettlingEvents, SettledStatus, i
  <2> HIDE DEF u
  <2>3. SettledStatus(e) \in Statuses
    BY DEF SettledStatus, Statuses
  <2> DEFINE v == Settled(u, i, SettledStatus(e))
  <2>4. v.orders[j] = u.orders[j] /\ v.unresolved \in {u.unresolved \ {i}, u.unresolved}
    BY <1>1, <2>1, <2>3, SettledAt
  <2> HIDE DEF v
  <2>5. r.orders[j] = u.orders[j] /\ r.unresolved \in {u.unresolved \ {i}, u.unresolved}
    BY <2>2, <2>4 DEF v
  <2>6. QED
    BY <1>1, <2>1, <2>5
<1>4. CASE e.type \in {"CANCEL_REQUESTED", "CANCEL_CONFIRMED"}
  <2> DEFINE u == IF e.type = "CANCEL_CONFIRMED" /\ e.evidence # "FILLED"
                  THEN ReleaseSellRemainder(s, i) ELSE s
  <2>1. u \in State /\ u.unresolved = s.unresolved /\ u.orders[j] = s.orders[j]
    BY <1>1, ReleaseAt
  <2>2. \/ r = s
        \/ \E status \in Statuses : r = WithStatus(u, i, status)
    BY <1>4 DEF Apply, OnCancelRequested, OnCancelConfirmed, Statuses, i
  <2> HIDE DEF u
  <2>3. \A status \in Statuses :
          /\ WithStatus(u, i, status).orders[j] = u.orders[j]
          /\ WithStatus(u, i, status).unresolved = u.unresolved
    BY <1>1, <2>1, WithStatusAt
  <2>4. QED
    BY <1>1, <2>1, <2>2, <2>3
<1>5. CASE e.type \in PreparingEvents \cup {"ORDER_INTENT_CREATED", "ORDER_SUBMITTED"}
  BY <1>1, <1>5
  DEF PreparingEvents, Apply, OnOrderIntentCreated, OnRiskApproved,
      OnOrderAuthorized, OnBrokerSubmissionRequested, OnBrokerIoStarted,
      OnOrderSubmitted, UpdateOrder, State, i
<1>6. CASE e.type \in FillEvents \cup
             {"PROTECTIVE_ORDER_CREATED", "PROTECTIVE_ORDER_ACKNOWLEDGED",
              "RECONCILIATION_STARTED", "RECONCILIATION_RESOLVED"}
  BY <1>1, <1>6
  DEF FillEvents, Apply, ApplyFill, OnProtectiveOrderCreated,
      OnProtectiveOrderAcknowledged, OnReconciliationStarted,
      OnReconciliationResolved, State, i
<1>7. QED
  BY <1>1, <1>2, <1>3, <1>4, <1>5, <1>6
  DEF EventTypes, PreparingEvents, SettlingEvents, FillEvents

\* Only its creation brings an intent about; an event about any other is ignored.
\* The fields an order keeps for good, and the events that write each of them.
LEMMA ApplyAt ==
  ASSUME NEW s \in State, NEW e \in Event, NEW r, r = Apply(s, e),
         NEW i, i = e.intent, NEW o, o = s.orders[i], NEW p, p = r.orders[i]
  PROVE  /\ e.type = "ORDER_INTENT_CREATED" => p = NewOrder("PENDING")
         /\ e.type # "ORDER_INTENT_CREATED" =>
              /\ Exists(r, i) <=> Exists(s, i)
              /\ ~Exists(s, i) => p = o
              /\ e.type # "RISK_APPROVED" => p.risk = o.risk
              /\ e.type # "ORDER_SUBMITTED" =>
                   p.exchange_id = o.exchange_id /\ p.reserved = o.reserved
              /\ e.type \notin {"ORDER_AUTHORIZED", "ORDER_SUBMITTED"} =>
                   p.authorized = o.authorized
              /\ e.type \notin FillEvents => p.filled = o.filled
              /\ e.type \notin {"ORDER_REJECTED", "CANCEL_CONFIRMED"} =>
                   p.released = o.released
              /\ e.type # "BROKER_SUBMISSION_REQUESTED" => p.requested = o.requested
              /\ e.type # "BROKER_IO_STARTED" => p.io_started = o.io_started
<1>1. /\ i \in Intents /\ e.type \in EventTypes /\ o \in Order
      /\ e.risk \in RiskDecision /\ e.qty \in Nat
  BY DEF Event, State
<1>2. ASSUME NEW u \in State, NEW status \in Statuses \ {"ABSENT"},
             NEW v, v = WithStatus(u, i, status) \/ v = Settled(u, i, status)
      PROVE  /\ Exists(v, i) <=> Exists(u, i)
             /\ ~Exists(u, i) => v.orders[i] = u.orders[i]
             /\ v.orders[i].risk = u.orders[i].risk
             /\ v.orders[i].exchange_id = u.orders[i].exchange_id
             /\ v.orders[i].reserved = u.orders[i].reserved
             /\ v.orders[i].authorized = u.orders[i].authorized
             /\ v.orders[i].filled = u.orders[i].filled
             /\ v.orders[i].released = u.orders[i].released
             /\ v.orders[i].requested = u.orders[i].requested
             /\ v.orders[i].io_started = u.orders[i].io_started
  <2>1. status \in Statuses
    OBVIOUS
  <2>2. v.orders[i] = IF Exists(u, i) THEN [u.orders[i] EXCEPT !.status = status]
                      ELSE u.orders[i]
    <3>1. CASE v = WithStatus(u, i, status)
      BY <1>1, <2>1, <3>1, WithStatusAt
    <3>2. CASE v = Settled(u, i, status)
      BY <1>1, <2>1, <3>2, SettledAt
    <3>3. QED
      BY <1>2, <3>1, <3>2
  <2>3. u.orders[i] \in Order
    BY <1>1 DEF State
  <2>4. QED
    BY <2>2, <2>3 DEF Order, Exists
<1>3. CASE e.type = "ORDER_INTENT_CREATED"
  BY <1>1, <1>3 DEF Apply, OnOrderIntentCreated, State
<1>4. CASE e.type \in {"BROKER_STATE_UNKNOWN", "MANUAL_INTERVENTION_REQUIRED"}
  <2> DEFINE m == WithStatus(s, i, "MANUAL")
  <2>1. m \in State
    BY <1>1, WithStatusType DEF Statuses
  <2>2. r.orders = m.orders
    BY <1>4, <2>1
    DEF Apply, OnBrokerStateUnknown, OnManualInterventionRequired, State
  <2>3. "MANUAL" \in Statuses \ {"ABSENT"}
    BY DEF Statuses
  <2> HIDE DEF m
  <2>4. QED
    BY <1>2, <1>4, <2>2, <2>3 DEF m, Exists, FillEvents
<1>5. CASE e.type \in SettlingEvents
  <2> DEFINE u == IF e.type = "ORDER_REJECTED" THEN ReleaseSellRemainder(s, i) ELSE s
  <2>1. /\ u \in State /\ ButReleased(o, u.orders[i])
        /\ Exists(u, i) <=> Exists(s, i)
        /\ ~Exists(s, i) \/ e.type # "ORDER_REJECTED" => u = s
    BY <1>1, ReleaseAt DEF ButReleased
  <2>2. r = Settled(u, i, SettledStatus(e))
    BY <1>5
    DEF Apply, OnOrderRejected, OnBrokerAcknowledged, OnBrokerStateReconciled,
        OnLocalSubmissionFailed, SettlingEvents, SettledStatus
  <2>3. SettledStatus(e) \in Statuses \ {"ABSENT"}
    BY DEF SettledStatus, Statuses
  <2> HIDE DEF u
  <2>4. QED
    BY <1>2, <1>5, <2>1, <2>2, <2>3 DEF ButReleased, FillEvents, SettlingEvents
<1>6. CASE e.type \in {"CANCEL_REQUESTED", "CANCEL_CONFIRMED"}
  <2> DEFINE u == IF e.type = "CANCEL_CONFIRMED" /\ e.evidence # "FILLED"
                  THEN ReleaseSellRemainder(s, i) ELSE s
  <2>1. /\ u \in State /\ ButReleased(o, u.orders[i])
        /\ Exists(u, i) <=> Exists(s, i)
        /\ ~Exists(s, i) \/ e.type # "CANCEL_CONFIRMED" => u = s
    BY <1>1, ReleaseAt DEF ButReleased
  <2>2. \/ r = s
        \/ \E status \in Statuses \ {"ABSENT"} : r = WithStatus(u, i, status)
    BY <1>6 DEF Apply, OnCancelRequested, OnCancelConfirmed, Statuses
  <2> HIDE DEF u
  <2>3. CASE r = s
    BY <1>6, <2>3 DEF FillEvents
  <2>4. CASE \E status \in Statuses \ {"ABSENT"} : r = WithStatus(u, i, status)
    BY <1>2, <1>6, <2>1, <2>4 DEF ButReleased, FillEvents
  <2>5. QED
    BY <2>2, <2>3, <2>4
<1>7. CASE e.type \in PreparingEvents \cup {"ORDER_SUBMITTED"}
  BY <1>1, <1>7
  DEF PreparingEvents, FillEvents, Apply, OnRiskApproved, OnOrderAuthorized,
      OnBrokerSubmissionRequested, OnBrokerIoStarted, OnOrderSubmitted,
      UpdateOrder, State, Order, Exists
<1>8. CASE e.type \in FillEvents
  <2>1. ~Exists(s, i) => r = s
    BY <1>8 DEF FillEvents, Apply, ApplyFill
  <2>2. ASSUME Exists(s, i)
        PROVE  \E n : r.orders[i] =
                 [o EXCEPT !.filled = n, !.status = IF n = Size[i] THEN "FILLED"
                                                    ELSE "PARTIALLY_FILLED"]
    BY <1>1, <1>8, <2>2 DEF FillEvents, Apply, ApplyFill, State
  <2>3. QED
    BY <1>1, <1>8, <2>1, <2>2 DEF Exists, Order, FillEvents
<1>9. CASE e.type \in
             {"PROTECTIVE_ORDER_CREATED", "PROTECTIVE_ORDER_ACKNOWLEDGED",
              "RECONCILIATION_STARTED", "RECONCILIATION_RESOLVED"}
  BY <1>1, <1>9
  DEF Apply, OnProtectiveOrderCreated, OnProtectiveOrderAcknowledged,
      OnReconciliationStarted, OnReconciliationResolved, State, Exists
<1>10. QED
  BY <1>1, <1>3, <1>4, <1>5, <1>6, <1>7, <1>8, <1>9
  DEF EventTypes, PreparingEvents, SettlingEvents, FillEvents

\* Where an event leaves the order it is about, and whether it needs an operator.
LEMMA ApplyStatus ==
  ASSUME NEW s \in State, NEW e \in Event, NEW r, r = Apply(s, e),
         NEW i, i = e.intent, NEW o, o = s.orders[i], NEW p, p = r.orders[i],
         Exists(s, i)
  PROVE  /\ e.type = "RISK_APPROVED" =>
              /\ p.status = "APPROVED"
              /\ p.risk = IF e.risk.present THEN e.risk ELSE o.risk
         /\ e.type = "ORDER_AUTHORIZED" =>
              p.status = "AUTHORIZED" /\ p.authorized = e.authorized
         /\ e.type = "BROKER_SUBMISSION_REQUESTED" =>
              p.status = o.status /\ p.requested
         /\ e.type = "BROKER_IO_STARTED" => p.status = o.status /\ p.io_started
         /\ e.type = "ORDER_SUBMITTED" =>
              /\ p.status = IF o.status \in {"APPROVED", "AUTHORIZED", "MANUAL"}
                            THEN "SUBMITTED" ELSE o.status
              /\ p.exchange_id = e.exchange_id
         /\ e.type \in SettlingEvents =>
              p.status = SettledStatus(e) /\ r.unresolved = s.unresolved \ {i}
         /\ e.type \in {"BROKER_STATE_UNKNOWN", "MANUAL_INTERVENTION_REQUIRED"} =>
              p.status = "MANUAL" /\ r.unresolved = s.unresolved \cup {i}
         /\ e.type \in FillEvents =>
              /\ p.filled = IF o.filled + e.qty < Size[i] THEN o.filled + e.qty
                            ELSE Size[i]
              /\ p.status = IF p.filled = Size[i] THEN "FILLED" ELSE "PARTIALLY_FILLED"
         /\ e.type = "CANCEL_REQUESTED" =>
              p.status = IF o.status = "FILLED" THEN "FILLED" ELSE "CANCEL_REQUESTED"
         /\ e.type = "CANCEL_CONFIRMED" =>
              p.status = IF e.evidence = "FILLED" THEN "FILLED" ELSE "CANCELED"
         /\ e.type \in {"RECONCILIATION_STARTED", "RECONCILIATION_RESOLVED"} =>
              p = o
         /\ e.type \notin SettlingEvents \cup {"BROKER_STATE_UNKNOWN",
                                               "MANUAL_INTERVENTION_REQUIRED"} =>
              r.unresolved = s.unresolved
<1>1. /\ i \in Intents /\ e.type \in EventTypes /\ o \in Order
      /\ e.risk \in RiskDecision /\ e.qty \in Nat /\ e.exchange_id \in BOOLEAN
      /\ s.unresolved \subseteq Intents
  BY DEF Event, State
<1>2. CASE e.type = "ORDER_INTENT_CREATED"
  BY <1>1, <1>2
  DEF Apply, OnOrderIntentCreated, State, SettlingEvents, FillEvents
<1>3. CASE e.type \in {"BROKER_STATE_UNKNOWN", "MANUAL_INTERVENTION_REQUIRED"}
  <2> DEFINE m == WithStatus(s, i, "MANUAL")
  <2>1. /\ m \in State /\ m.unresolved = s.unresolved
        /\ m.orders[i] = [o EXCEPT !.status = "MANUAL"]
    <3>1. "MANUAL" \in Statuses
      BY DEF Statuses
    <3>2. QED
      BY <1>1, <3>1, WithStatusAt
  <2>2. r.orders = m.orders /\ r.unresolved = s.unresolved \cup {i}
    BY <1>3, <2>1
    DEF Apply, OnBrokerStateUnknown, OnManualInterventionRequired, State
  <2>3. QED
    BY <1>1, <1>3, <2>1, <2>2 DEF SettlingEvents, FillEvents, Order
<1>4. CASE e.type \in SettlingEvents
  <2> DEFINE u == IF e.type = "ORDER_REJECTED" THEN ReleaseSellRemainder(s, i) ELSE s
  <2>1. /\ u \in State /\ u.unresolved = s.unresolved /\ Exists(u, i)
        /\ u.orders[i] \in Order
    <3>1. u \in State /\ u.unresolved = s.unresolved /\ Exists(u, i)
      BY <1>1, ReleaseAt
    <3> HIDE DEF u
    <3>2. QED
      BY <1>1, <3>1 DEF State
  <2>2. r = Settled(u, i, SettledStatus(e))
    BY <1>4
    DEF Apply, OnOrderRejected, OnBrokerAcknowledged, OnBrokerStateReconciled,
        OnLocalSubmissionFailed, SettlingEvents, SettledStatus
  <2>3. SettledStatus(e) \in Statuses
    BY DEF SettledStatus, Statuses
  <2> HIDE DEF u
  <2>4. /\ Settled(u, i, SettledStatus(e)).unresolved = s.unresolved \ {i}
        /\ Settled(u, i, SettledStatus(e)).orders[i] =
             [u.orders[i] EXCEPT !.status = SettledStatus(e)]
    <3>1. /\ Settled(u, i, SettledStatus(e)).unresolved = u.unresolved \ {i}
          /\ Settled(u, i, SettledStatus(e)).orders[i] =
               [u.orders[i] EXCEPT !.status = SettledStatus(e)]
      BY <1>1, <2>1, <2>3, SettledAt, Zenon
    <3>2. QED
      BY <2>1, <3>1
  <2>5. QED
    BY <1>4, <2>1, <2>2, <2>4 DEF SettlingEvents, FillEvents, Order
<1>5. CASE e.type \in {"CANCEL_REQUESTED", "CANCEL_CONFIRMED"}
  <2> DEFINE u == IF e.type = "CANCEL_CONFIRMED" /\ e.evidence # "FILLED"
                  THEN ReleaseSellRemainder(s, i) ELSE s
             status == IF e.type = "CANCEL_REQUESTED" THEN "CANCEL_REQUESTED"
                       ELSE IF e.evidence = "FILLED" THEN "FILLED" ELSE "CANCELED"
  <2>1. /\ u \in State /\ u.unresolved = s.unresolved /\ Exists(u, i)
        /\ u.orders[i] \in Order
    <3>1. u \in State /\ u.unresolved = s.unresolved /\ Exists(u, i)
      BY <1>1, ReleaseAt
    <3> HIDE DEF u
    <3>2. QED
      BY <1>1, <3>1 DEF State
  <2>2. \/ r = s /\ e.type = "CANCEL_REQUESTED" /\ o.status = "FILLED"
        \/ /\ r = WithStatus(u, i, status)
           /\ e.type = "CANCEL_REQUESTED" => o.status # "FILLED"
    BY <1>5 DEF Apply, OnCancelRequested, OnCancelConfirmed
  <2>3. status \in Statuses
    BY DEF Statuses
  <2>4. ASSUME r = WithStatus(u, i, status)
        PROVE  r.unresolved = s.unresolved /\ r.orders[i].status = status
    <3> HIDE DEF u, status
    <3>1. /\ WithStatus(u, i, status).unresolved = s.unresolved
          /\ WithStatus(u, i, status).orders[i] = [u.orders[i] EXCEPT !.status = status]
      BY <1>1, <2>1, <2>3, WithStatusAt
    <3>2. QED
      BY <2>1, <2>4, <3>1 DEF Order
  <2>5. QED
    BY <1>5, <2>2, <2>4 DEF SettlingEvents, FillEvents
<1>6. CASE e.type \in PreparingEvents
  BY <1>1, <1>6
  DEF PreparingEvents, FillEvents, SettlingEvents, Apply, OnRiskApproved,
      OnOrderAuthorized, OnBrokerSubmissionRequested, OnBrokerIoStarted,
      UpdateOrder, State, Order, Exists
<1>7. CASE e.type = "ORDER_SUBMITTED"
  BY <1>1, <1>7
  DEF FillEvents, SettlingEvents, Apply, OnOrderSubmitted, UpdateOrder, State,
      Order, Exists
<1>8. CASE e.type \in FillEvents
  <2> DEFINE n == IF o.filled + e.qty < Size[i] THEN o.filled + e.qty ELSE Size[i]
  <2>1. r = [s EXCEPT
              !.orders[i] = [o EXCEPT !.filled = n,
                                      !.status = IF n = Size[i] THEN "FILLED"
                                                 ELSE "PARTIALLY_FILLED"],
              !.protection[i] = IF i \in Buys THEN "PROTECTION_REQUIRED" ELSE @]
    BY <1>8 DEF FillEvents, Apply, ApplyFill
  <2> HIDE DEF n
  <2>2. /\ p.filled = n /\ r.unresolved = s.unresolved
        /\ p.status = IF n = Size[i] THEN "FILLED" ELSE "PARTIALLY_FILLED"
    BY <1>1, <2>1 DEF State, Order
  <2>3. QED
    BY <1>8, <2>2 DEF SettlingEvents, FillEvents, n
<1>9. CASE e.type \in
             {"PROTECTIVE_ORDER_CREATED", "PROTECTIVE_ORDER_ACKNOWLEDGED",
              "RECONCILIATION_STARTED", "RECONCILIATION_RESOLVED"}
  BY <1>1, <1>9
  DEF FillEvents, SettlingEvents, Apply, OnProtectiveOrderCreated,
      OnProtectiveOrderAcknowledged, OnReconciliationStarted,
      OnReconciliationResolved, State
<1>10. QED
  BY <1>1, <1>2, <1>3, <1>4, <1>5, <1>6, <1>7, <1>8, <1>9
  DEF EventTypes, PreparingEvents, SettlingEvents, FillEvents

\* Only an unknown outcome or a call for the operator leaves an intent unresolved.
LEMMA ApplyUnresolved ==
  ASSUME NEW s \in State, NEW e \in Event,
         e.type \notin {"BROKER_STATE_UNKNOWN", "MANUAL_INTERVENTION_REQUIRED"}
  PROVE  Apply(s, e).unresolved \subseteq s.unresolved
<1> DEFINE i == e.intent
<1>1. i \in Intents /\ e.type \in EventTypes
  BY DEF Event
<1> HIDE DEF i
<1>2. CASE e.type \in SettlingEvents
  <2> DEFINE u == IF e.type = "ORDER_REJECTED" THEN ReleaseSellRemainder(s, i) ELSE s
  <2>1. u \in State /\ u.unresolved = s.unresolved
    BY <1>1, ReleaseAt
  <2>2. SettledStatus(e) \in Statuses
    BY DEF SettledStatus, Statuses
  <2>3. Apply(s, e) = Settled(u, i, SettledStatus(e))
    BY <1>2
    DEF Apply, OnOrderRejected, OnBrokerAcknowledged, OnBrokerStateReconciled,
        OnLocalSubmissionFailed, SettlingEvents, SettledStatus, i
  <2> HIDE DEF u
  <2>4. Settled(u, i, SettledStatus(e)).unresolved \subseteq u.unresolved
    BY <1>1, <2>1, <2>2, SettledAt
  <2>5. QED
    BY <2>1, <2>3, <2>4
<1>3. CASE e.type \in {"CANCEL_REQUESTED", "CANCEL_CONFIRMED"}
  <2> DEFINE u == IF e.type = "CANCEL_CONFIRMED" /\ e.evidence # "FILLED"
                  THEN ReleaseSellRemainder(s, i) ELSE s
  <2>1. u \in State /\ u.unresolved = s.unresolved
    BY <1>1, ReleaseAt
  <2>2. \/ Apply(s, e) = s
        \/ \E status \in Statuses : Apply(s, e) = WithStatus(u, i, status)
    BY <1>3 DEF Apply, OnCancelRequested, OnCancelConfirmed, Statuses, i
  <2> HIDE DEF u
  <2>3. \A status \in Statuses : WithStatus(u, i, status).unresolved = u.unresolved
    BY <1>1, <2>1, WithStatusAt
  <2>4. QED
    BY <2>1, <2>2, <2>3
<1>4. CASE e.type \in PreparingEvents \cup FillEvents \cup
             {"ORDER_INTENT_CREATED", "ORDER_SUBMITTED",
              "PROTECTIVE_ORDER_CREATED", "PROTECTIVE_ORDER_ACKNOWLEDGED",
              "RECONCILIATION_STARTED", "RECONCILIATION_RESOLVED"}
  BY <1>4
  DEF PreparingEvents, FillEvents, Apply, OnOrderIntentCreated, OnRiskApproved,
      OnOrderAuthorized, OnBrokerSubmissionRequested, OnBrokerIoStarted,
      OnOrderSubmitted, UpdateOrder, ApplyFill, OnProtectiveOrderCreated,
      OnProtectiveOrderAcknowledged, OnReconciliationStarted,
      OnReconciliationResolved, State
<1>5. QED
  BY <1>1, <1>2, <1>3, <1>4
  DEF EventTypes, PreparingEvents, SettlingEvents, FillEvents
\* What an event does to the lock of the order it is about.
LEMMA ApplyLock ==
  ASSUME NEW s \in State, NEW e \in Event, NEW r, r = Apply(s, e),
         NEW i, i = e.intent, NEW o, o = s.orders[i], NEW p, p = r.orders[i],
         Exists(s, i)
  PROVE  /\ e.type = "ORDER_SUBMITTED" =>
              /\ p.reserved = IF i \in Sells THEN e.qty ELSE o.reserved
              /\ p.authorized = IF i \in Sells THEN e.authorized ELSE o.authorized
         /\ e.type = "ORDER_REJECTED"
            \/ (e.type = "CANCEL_CONFIRMED" /\ e.evidence # "FILLED") =>
              p.released = IF i \in Sells THEN o.released + RemainingReserved(o)
                           ELSE o.released
         /\ e.type = "CANCEL_CONFIRMED" /\ e.evidence = "FILLED" =>
              p.released = o.released
         /\ e.type \in {"PROTECTIVE_ORDER_CREATED",
                        "PROTECTIVE_ORDER_ACKNOWLEDGED"} => p = o
<1>1. i \in Intents /\ o \in Order /\ e.type \in EventTypes
  BY DEF Event, State
<1> DEFINE u == ReleaseSellRemainder(s, i)
<1>2. /\ u \in State /\ Exists(u, i)
      /\ u.orders[i].released = IF i \in Sells THEN o.released + RemainingReserved(o)
                                ELSE o.released
  <2>1. u \in State /\ Exists(u, i)
    BY <1>1, ReleaseAt
  <2>2. u = IF i \in Sells
            THEN [s EXCEPT !.orders[i] = [o EXCEPT !.released = @ + RemainingReserved(o)]]
            ELSE s
    BY DEF ReleaseSellRemainder, UpdateOrder
  <2> DEFINE n == o.released + RemainingReserved(o)
             x == [o EXCEPT !.released = n]
  <2>3. x.released = n
    BY <1>1 DEF Order
  <2>4. u.orders[i] = IF i \in Sells THEN x ELSE o
    <3> HIDE DEF n
    <3>1. u = IF i \in Sells THEN [s EXCEPT !.orders[i] = x] ELSE s
      BY <1>1, <2>2 DEF n, Order
    <3> HIDE DEF x, u
    <3>2. QED
      BY <1>1, <3>1 DEF State
  <2> HIDE DEF n, x, u
  <2>5. QED
    BY <2>1, <2>3, <2>4 DEF n
<1> HIDE DEF u
<1>3. CASE e.type = "ORDER_SUBMITTED"
  BY <1>1, <1>3 DEF Apply, OnOrderSubmitted, UpdateOrder, State, Order
<1>4. CASE e.type = "ORDER_REJECTED"
  <2>1. "REJECTED" \in Statuses
    BY DEF Statuses
  <2>2. r = Settled(u, i, "REJECTED")
    BY <1>4 DEF Apply, OnOrderRejected, u
  <2>3. Settled(u, i, "REJECTED").orders[i] = [u.orders[i] EXCEPT !.status = "REJECTED"]
    BY <1>1, <1>2, <2>1, SettledAt
  <2>4. u.orders[i] \in Order
    BY <1>1, <1>2 DEF State
  <2>5. p.released = u.orders[i].released
    BY <2>2, <2>3, <2>4 DEF Order
  <2>6. QED
    BY <1>2, <1>4, <2>5
<1>5. CASE e.type = "CANCEL_CONFIRMED"
  <2> DEFINE v == IF e.evidence = "FILLED" THEN s ELSE u
             status == IF e.evidence = "FILLED" THEN "FILLED" ELSE "CANCELED"
  <2>1. status \in Statuses
    BY DEF Statuses
  <2>2. r = WithStatus(v, i, status)
    BY <1>5 DEF Apply, OnCancelConfirmed, u
  <2>3. v \in State /\ Exists(v, i)
    BY <1>2
  <2>4. v.orders[i].released = IF e.evidence = "FILLED" THEN o.released
                               ELSE u.orders[i].released
    OBVIOUS
  <2> HIDE DEF v, status
  <2>5. WithStatus(v, i, status).orders[i] = [v.orders[i] EXCEPT !.status = status]
    BY <1>1, <2>1, <2>3, WithStatusAt
  <2>6. v.orders[i] \in Order
    BY <1>1, <2>3 DEF State
  <2>7. p.released = v.orders[i].released
    BY <2>2, <2>5, <2>6 DEF Order
  <2>8. QED
    BY <1>2, <1>5, <2>4, <2>7
<1>6. CASE e.type \in {"PROTECTIVE_ORDER_CREATED", "PROTECTIVE_ORDER_ACKNOWLEDGED"}
  BY <1>1, <1>6
  DEF Apply, OnProtectiveOrderCreated, OnProtectiveOrderAcknowledged, State
<1>7. QED
  BY <1>3, <1>4, <1>5, <1>6

-----------------------------------------------------------------------------
(* The sum of a family of integers over a finite set, as MapThenSumSet     *)
(* computes it: one chosen element, and the sum of the rest.  The books of *)
(* SELL locks are such sums (ActiveRows, ActiveSellReservations); what the *)
(* proofs about them need is that a sum is a number, that it vanishes with *)
(* its terms, and that it moves with each of its terms.                    *)

Chosen(s) == CHOOSE x \in s : TRUE

\* f is the table of the partial sums of g over the subsets of S.
PartialSums(g, S, f) ==
  f = [s \in SUBSET S |->
         IF s = {} THEN 0 ELSE g[Chosen(s)] + f[s \ {Chosen(s)}]]

Sum(g, S) == (CHOOSE f : PartialSums(g, S, f))[S]

\* Induction over the subsets of a finite set, as a least counterexample.
LEMMA MinimalSubset ==
  ASSUME NEW S, IsFiniteSet(S), NEW B \in SUBSET (SUBSET S), B # {}
  PROVE  \E t \in B : \A u \in B : u \subseteq t => u = t
<1>1. IsWellFoundedOn(StrictSubsetOrdering(S), SUBSET S)
  BY FS_StrictSubsetOrderingWellFounded, FS_FiniteSubsetsOfFinite
<1>2. PICK t \in B : \A u \in B : <<u, t>> \notin StrictSubsetOrdering(S)
  <2> HIDE DEF StrictSubsetOrdering
  <2>1. QED
    BY <1>1, WFMin
<1>3. ASSUME NEW u \in B, u \subseteq t, u # t
      PROVE  FALSE
  BY <1>2, <1>3 DEF StrictSubsetOrdering
<1>4. QED
  BY <1>3

LEMMA ChosenIn ==
  ASSUME NEW s, s # {}
  PROVE  Chosen(s) \in s
  BY DEF Chosen

\* The table, read at one subset.
LEMMA PartialSumsAt ==
  ASSUME NEW g, NEW S, NEW f, PartialSums(g, S, f), NEW s \in SUBSET S
  PROVE  f[s] = IF s = {} THEN 0 ELSE g[Chosen(s)] + f[s \ {Chosen(s)}]
  BY DEF PartialSums

\* Tables agree where they overlap.
LEMMA PartialSumsUnique ==
  ASSUME NEW g, NEW S, NEW f, PartialSums(g, S, f),
         NEW W \in SUBSET S, IsFiniteSet(W), NEW h, PartialSums(g, W, h)
  PROVE  \A s \in SUBSET W : f[s] = h[s]
<1> DEFINE B == {s \in SUBSET W : f[s] # h[s]}
<1> SUFFICES ASSUME B # {}
             PROVE  FALSE
  OBVIOUS
<1>1. PICK t \in B : \A u \in B : u \subseteq t => u = t
  <2> HIDE DEF B
  <2>1. B \in SUBSET (SUBSET W)
    BY DEF B
  <2>2. QED
    BY <2>1, MinimalSubset
<1>2. t \in SUBSET W /\ t \in SUBSET S /\ f[t] # h[t]
  OBVIOUS
<1>3. f[t] = IF t = {} THEN 0 ELSE g[Chosen(t)] + f[t \ {Chosen(t)}]
  BY <1>2, PartialSumsAt
<1>4. h[t] = IF t = {} THEN 0 ELSE g[Chosen(t)] + h[t \ {Chosen(t)}]
  BY <1>2, PartialSumsAt
<1>5. ASSUME t # {}
      PROVE  f[t \ {Chosen(t)}] = h[t \ {Chosen(t)}]
  <2>1. Chosen(t) \in t
    BY <1>5, ChosenIn
  <2>2. t \ {Chosen(t)} \subseteq t /\ t \ {Chosen(t)} # t
    BY <2>1
  <2>3. QED
    BY <1>1, <1>2, <2>2
<1>6. QED
  BY <1>2, <1>3, <1>4, <1>5

\* A part of a table is a table.
LEMMA PartialSumsRestrict ==
  ASSUME NEW g, NEW S, NEW f, PartialSums(g, S, f), NEW W \in SUBSET S
  PROVE  PartialSums(g, W, [s \in SUBSET W |-> f[s]])
<1> DEFINE h == [s \in SUBSET W |-> f[s]]
<1>1. ASSUME NEW s \in SUBSET W
      PROVE  f[s] = IF s = {} THEN 0 ELSE g[Chosen(s)] + h[s \ {Chosen(s)}]
  <2>1. s \in SUBSET S /\ s \ {Chosen(s)} \in SUBSET W
    OBVIOUS
  <2>2. f[s] = IF s = {} THEN 0 ELSE g[Chosen(s)] + f[s \ {Chosen(s)}]
    BY <2>1, PartialSumsAt
  <2>3. QED
    BY <2>1, <2>2
<1>2. QED
  BY <1>1 DEF PartialSums

\* Every finite set has a table.
LEMMA PartialSumsExist ==
  ASSUME NEW g, NEW S, IsFiniteSet(S)
  PROVE  \E f : PartialSums(g, S, f)
<1> DEFINE B == {s \in SUBSET S : ~ \E f : PartialSums(g, s, f)}
<1> SUFFICES ASSUME B # {}
             PROVE  FALSE
  BY DEF B
<1>1. PICK t \in B : \A u \in B : u \subseteq t => u = t
  <2>1. B \in SUBSET (SUBSET S)
    OBVIOUS
  <2> HIDE DEF B
  <2>2. QED
    BY <2>1, MinimalSubset
<1>2. t \in SUBSET S /\ ~ \E f : PartialSums(g, t, f)
  OBVIOUS
<1>3. \A u \in SUBSET t : u # t => \E f : PartialSums(g, u, f)
  BY <1>1, <1>2
<1> HIDE DEF B
\* What the strict subsets of t sum to.
<1>4. ASSUME NEW u \in SUBSET t, u # t
      PROVE  Sum(g, u) = IF u = {} THEN 0
                         ELSE g[Chosen(u)] + Sum(g, u \ {Chosen(u)})
  <2> DEFINE k == CHOOSE f : PartialSums(g, u, f)
             v == u \ {Chosen(u)}
             m == CHOOSE f : PartialSums(g, v, f)
  <2>1. PartialSums(g, u, k)
    BY <1>3, <1>4
  <2>2. v \in SUBSET u /\ v \in SUBSET t /\ (u # {} => v # t) /\ u \in SUBSET u
    BY <1>4
  <2>3. u # {} => PartialSums(g, v, m)
    BY <1>3, <2>2
  <2>4. IsFiniteSet(v)
    BY <1>2, <2>2, FS_Subset
  <2> HIDE DEF k, m, v
  <2>5. u # {} => k[v] = m[v]
    BY <2>1, <2>2, <2>3, <2>4, PartialSumsUnique
  <2>6. k[u] = IF u = {} THEN 0 ELSE g[Chosen(u)] + k[v]
    BY <2>1, <2>2, PartialSumsAt DEF v
  <2>7. Sum(g, u) = k[u] /\ Sum(g, v) = m[v]
    BY DEF Sum, k, m
  <2>8. QED
    BY <2>5, <2>6, <2>7 DEF v
<1> DEFINE h == [s \in SUBSET t |-> IF s = {} THEN 0
                                    ELSE g[Chosen(s)] + Sum(g, s \ {Chosen(s)})]
<1>5. ASSUME NEW s \in SUBSET t, s # {}
      PROVE  h[s \ {Chosen(s)}] = Sum(g, s \ {Chosen(s)})
  <2>1. Chosen(s) \in s
    BY <1>5, ChosenIn
  <2>2. s \ {Chosen(s)} \in SUBSET t /\ s \ {Chosen(s)} # t
    BY <2>1
  <2>3. QED
    BY <1>4, <2>2
<1>6. PartialSums(g, t, h)
  <2>1. \A s \in SUBSET t :
          h[s] = IF s = {} THEN 0 ELSE g[Chosen(s)] + h[s \ {Chosen(s)}]
    BY <1>5
  <2>2. h = [s \in SUBSET t |-> h[s]]
    OBVIOUS
  <2> HIDE DEF h
  <2>3. [s \in SUBSET t |-> h[s]] =
          [s \in SUBSET t |->
             IF s = {} THEN 0 ELSE g[Chosen(s)] + h[s \ {Chosen(s)}]]
    BY <2>1
  <2>4. QED
    BY <2>2, <2>3 DEF PartialSums
<1>7. QED
  BY <1>2, <1>6

\* Any table gives the sum.
LEMMA SumIsTable ==
  ASSUME NEW g, NEW S, IsFiniteSet(S), NEW f, PartialSums(g, S, f)
  PROVE  f[S] = Sum(g, S)
<1> DEFINE k == CHOOSE h : PartialSums(g, S, h)
<1>1. PartialSums(g, S, k)
  OBVIOUS
<1> HIDE DEF k
<1>2. f[S] = k[S]
  BY <1>1, PartialSumsUnique
<1>3. QED
  BY <1>2 DEF Sum, k
-----------------------------------------------------------------------------
(* What the sums are.                                                      *)

\* Every partial sum of integers is an integer.
LEMMA PartialSumsType ==
  ASSUME NEW S, IsFiniteSet(S), NEW g \in [S -> Int], NEW f, PartialSums(g, S, f)
  PROVE  \A s \in SUBSET S : f[s] \in Int
<1> DEFINE B == {s \in SUBSET S : f[s] \notin Int}
<1> SUFFICES ASSUME B # {}
             PROVE  FALSE
  OBVIOUS
<1>1. B \in SUBSET (SUBSET S)
  OBVIOUS
<1> HIDE DEF B
<1>2. PICK t \in B : \A u \in B : u \subseteq t => u = t
  BY <1>1, MinimalSubset
<1>3. t \in SUBSET S /\ f[t] \notin Int
  BY DEF B
<1>4. f[t] = IF t = {} THEN 0 ELSE g[Chosen(t)] + f[t \ {Chosen(t)}]
  BY <1>3, PartialSumsAt
<1>5. t # {} /\ Chosen(t) \in t
  BY <1>3, <1>4, ChosenIn
<1>6. t \ {Chosen(t)} \subseteq t /\ t \ {Chosen(t)} # t
      /\ t \ {Chosen(t)} \in SUBSET S
  BY <1>3, <1>5
<1>7. f[t \ {Chosen(t)}] \in Int
  BY <1>2, <1>6 DEF B
<1>8. g[Chosen(t)] \in Int
  BY <1>3, <1>5
<1>9. QED
  BY <1>3, <1>4, <1>5, <1>7, <1>8

LEMMA SumType ==
  ASSUME NEW S, IsFiniteSet(S), NEW g \in [S -> Int]
  PROVE  Sum(g, S) \in Int
<1>1. PICK f : PartialSums(g, S, f)
  BY PartialSumsExist
<1>2. f[S] \in Int
  BY <1>1, PartialSumsType
<1>3. QED
  BY <1>1, <1>2, SumIsTable

\* The terms decide the sum, and a smaller family has a smaller sum.
LEMMA SumMonotone ==
  ASSUME NEW S, IsFiniteSet(S), NEW g \in [S -> Int], NEW h \in [S -> Int],
         \A y \in S : g[y] =< h[y]
  PROVE  Sum(g, S) =< Sum(h, S)
<1>1. PICK f : PartialSums(g, S, f)
  BY PartialSumsExist
<1>2. PICK k : PartialSums(h, S, k)
  BY PartialSumsExist
<1>3. \A s \in SUBSET S : f[s] \in Int /\ k[s] \in Int
  BY <1>1, <1>2, PartialSumsType
<1> DEFINE B == {s \in SUBSET S : ~(f[s] =< k[s])}
<1>4. B = {}
  <2> SUFFICES ASSUME B # {}
               PROVE  FALSE
    OBVIOUS
  <2>1. B \in SUBSET (SUBSET S)
    OBVIOUS
  <2> HIDE DEF B
  <2>2. PICK t \in B : \A u \in B : u \subseteq t => u = t
    BY <2>1, MinimalSubset
  <2>3. t \in SUBSET S /\ ~(f[t] =< k[t])
    BY DEF B
  <2> DEFINE c == Chosen(t)
             r == t \ {c}
  <2>4. /\ f[t] = IF t = {} THEN 0 ELSE g[c] + f[r]
        /\ k[t] = IF t = {} THEN 0 ELSE h[c] + k[r]
    BY <1>1, <1>2, <2>3, PartialSumsAt
  <2>5. t # {} /\ c \in t
    BY <2>3, <2>4, ChosenIn
  <2>6. r \subseteq t /\ r # t /\ r \in SUBSET S /\ c \in S
    BY <2>3, <2>5
  <2> HIDE DEF c, r
  <2>7. f[r] =< k[r]
    BY <2>2, <2>6 DEF B
  <2>8. f[r] \in Int /\ k[r] \in Int /\ g[c] \in Int /\ h[c] \in Int /\ g[c] =< h[c]
    BY <1>3, <2>6
  <2>9. QED
    BY <2>3, <2>4, <2>5, <2>7, <2>8
<1>5. f[S] =< k[S]
  BY <1>4
<1>6. QED
  BY <1>1, <1>2, <1>5, SumIsTable
LEMMA SumSame ==
  ASSUME NEW S, IsFiniteSet(S), NEW g \in [S -> Int], NEW h \in [S -> Int],
         \A y \in S : g[y] = h[y]
  PROVE  Sum(g, S) = Sum(h, S)
<1>1. \A y \in S : g[y] =< h[y] /\ h[y] =< g[y]
  OBVIOUS
<1>2. Sum(g, S) =< Sum(h, S) /\ Sum(h, S) =< Sum(g, S)
  BY <1>1, SumMonotone
<1>3. Sum(g, S) \in Int /\ Sum(h, S) \in Int
  BY SumType
<1>4. QED
  BY <1>2, <1>3

LEMMA SumZero ==
  ASSUME NEW S, IsFiniteSet(S), NEW g, \A y \in S : g[y] = 0
  PROVE  Sum(g, S) = 0
<1>1. PICK f : PartialSums(g, S, f)
  BY PartialSumsExist
<1> DEFINE B == {s \in SUBSET S : f[s] # 0}
<1>2. B = {}
  <2> SUFFICES ASSUME B # {}
               PROVE  FALSE
    OBVIOUS
  <2>1. B \in SUBSET (SUBSET S)
    OBVIOUS
  <2> HIDE DEF B
  <2>2. PICK t \in B : \A u \in B : u \subseteq t => u = t
    BY <2>1, MinimalSubset
  <2>3. t \in SUBSET S /\ f[t] # 0
    BY DEF B
  <2>4. f[t] = IF t = {} THEN 0 ELSE g[Chosen(t)] + f[t \ {Chosen(t)}]
    BY <1>1, <2>3, PartialSumsAt
  <2>5. t # {} /\ Chosen(t) \in t
    BY <2>3, <2>4, ChosenIn
  <2>6. t \ {Chosen(t)} \subseteq t /\ t \ {Chosen(t)} # t
        /\ t \ {Chosen(t)} \in SUBSET S
    BY <2>3, <2>5
  <2>7. f[t \ {Chosen(t)}] = 0
    BY <2>2, <2>6 DEF B
  <2>8. g[Chosen(t)] = 0
    BY <2>3, <2>5
  <2>9. QED
    BY <2>3, <2>4, <2>5, <2>7, <2>8
<1>3. f[S] = 0
  BY <1>2
<1>4. QED
  BY <1>1, <1>3, SumIsTable

\* Naturals sum to a natural.
LEMMA SumNat ==
  ASSUME NEW S, IsFiniteSet(S), NEW g \in [S -> Nat]
  PROVE  Sum(g, S) \in Nat
<1> DEFINE z == [y \in S |-> 0]
<1>1. z \in [S -> Int] /\ g \in [S -> Int] /\ \A y \in S : z[y] = 0
  OBVIOUS
<1>2. \A y \in S : z[y] =< g[y]
  OBVIOUS
<1> HIDE DEF z
<1>3. Sum(z, S) = 0 /\ Sum(z, S) =< Sum(g, S)
  BY <1>1, <1>2, SumZero, SumMonotone
<1>4. Sum(g, S) \in Int
  BY <1>1, SumType
<1>5. QED
  BY <1>3, <1>4

\* When one term changes, the sum changes by as much.
LEMMA SumMoves ==
  ASSUME NEW S, IsFiniteSet(S), NEW g \in [S -> Int], NEW h \in [S -> Int],
         NEW x \in S, \A y \in S : y # x => h[y] = g[y]
  PROVE  Sum(h, S) = Sum(g, S) + (h[x] - g[x])
<1>1. PICK f : PartialSums(g, S, f)
  BY PartialSumsExist
<1>2. PICK k : PartialSums(h, S, k)
  BY PartialSumsExist
<1>3. \A s \in SUBSET S : f[s] \in Int /\ k[s] \in Int
  BY <1>1, <1>2, PartialSumsType
<1> DEFINE moved(s) == f[s] + (IF x \in s THEN h[x] - g[x] ELSE 0)
           B == {s \in SUBSET S : k[s] # moved(s)}
<1>4. B = {}
  <2> SUFFICES ASSUME B # {}
               PROVE  FALSE
    OBVIOUS
  <2>1. B \in SUBSET (SUBSET S)
    OBVIOUS
  <2> HIDE DEF B
  <2>2. PICK t \in B : \A u \in B : u \subseteq t => u = t
    BY <2>1, MinimalSubset
  <2>3. t \in SUBSET S /\ k[t] # moved(t)
    BY DEF B
  <2> DEFINE c == Chosen(t)
             r == t \ {c}
  <2>4. /\ f[t] = IF t = {} THEN 0 ELSE g[c] + f[r]
        /\ k[t] = IF t = {} THEN 0 ELSE h[c] + k[r]
    <3>1. t \in SUBSET S
      BY <2>3
    <3>2. f[t] = IF t = {} THEN 0 ELSE g[c] + f[r]
      BY <1>1, <3>1, PartialSumsAt
    <3>3. k[t] = IF t = {} THEN 0 ELSE h[c] + k[r]
      BY <1>2, <3>1, PartialSumsAt
    <3>4. QED
      BY <3>2, <3>3
  <2>5. t # {} /\ c \in t
    BY <2>3, <2>4, ChosenIn
  <2>6. /\ r \subseteq t /\ r # t /\ r \in SUBSET S /\ c \in S
        /\ x \in r <=> (x \in t /\ x # c)
    BY <2>3, <2>5
  <2> HIDE DEF c, r
  <2>7. k[r] = moved(r)
    BY <2>2, <2>6 DEF B
  <2>8. /\ f[r] \in Int /\ k[r] \in Int /\ g[c] \in Int /\ h[c] \in Int
        /\ g[x] \in Int /\ h[x] \in Int /\ (c # x => h[c] = g[c])
    BY <1>3, <2>6
  <2>9. QED
    BY <2>3, <2>4, <2>5, <2>6, <2>7, <2>8
<1>5. k[S] = moved(S)
  BY <1>4
<1>6. f[S] = Sum(g, S) /\ k[S] = Sum(h, S)
  BY <1>1, <1>2, SumIsTable
<1>7. QED
  BY <1>5, <1>6
=============================================================================
