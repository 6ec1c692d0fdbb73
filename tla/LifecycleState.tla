--------------------------- MODULE LifecycleState ---------------------------
(***************************************************************************)
(* The projected state of the execution lifecycle and the semantic handler *)
(* of every event type (execution/lifecycle/lifecycle.py), together with   *)
(* the SELL-lock table the event store keeps in the same transaction       *)
(* (execution/lifecycle/store.py).  Everything here is a function of a     *)
(* state and an event: the commands are in ExecutionLifecycle.             *)
(*                                                                         *)
(* Abstractions.  An intent's side, symbol, size and idempotency key are   *)
(* fixed by the constants, quantities are naturals (the 1e-9 tolerances    *)
(* vanish), and identifiers are kept as "present or not".  Fees, prices,   *)
(* reasons, timestamps and hashes guard nothing and are left out.          *)
(***************************************************************************)
EXTENDS Permission, Integers, FiniteSetsExt

CONSTANTS
  Buys, Sells,      \* intents by side
  Protective,       \* the sells whose identifier starts with "prot_"
  SymbolOf, Size    \* functions on the intents

Intents == Buys \cup Sells

ASSUME IntentsAssumption ==
  /\ Intents # {} /\ Buys \cap Sells = {}
  /\ Protective \subseteq Sells
  /\ Size \in [Intents -> Nat \ {0}]

\* A log holds finitely many intents.
ASSUME FiniteAssumption == IsFiniteSet(Intents)

Statuses == {"ABSENT", "PENDING", "APPROVED", "AUTHORIZED", "SUBMITTED",
             "ACKNOWLEDGED", "PARTIALLY_FILLED", "FILLED", "CANCEL_REQUESTED",
             "CANCELED", "REJECTED", "MANUAL"}

LiveStatuses == {"AUTHORIZED", "SUBMITTED", "ACKNOWLEDGED", "PARTIALLY_FILLED"}

Order ==
  [status : Statuses, risk : RiskDecision, exchange_id : BOOLEAN, filled : Nat,
   authorized : Nat, reserved : Nat, released : Nat, requested : BOOLEAN,
   io_started : BOOLEAN]

NewOrder(status) ==
  [status |-> status, risk |-> NoDecision, exchange_id |-> FALSE, filled |-> 0,
   authorized |-> 0, reserved |-> 0, released |-> 0, requested |-> FALSE,
   io_started |-> FALSE]

\* protective: the intents a protective order is linked to.
State ==
  [orders : [Intents -> Order], protective : SUBSET Intents,
   protection : [Intents -> {"NONE", "PROTECTION_REQUIRED", "PROTECTED"}],
   reconciliation : Recons, health : Healths, manual_blocked : BOOLEAN,
   unresolved : SUBSET Intents]

EmptyState ==
  [orders |-> [i \in Intents |-> NewOrder("ABSENT")], protective |-> {},
   protection |-> [i \in Intents |-> "NONE"], reconciliation |-> "NONE",
   health |-> "NORMAL", manual_blocked |-> FALSE, unresolved |-> {}]

Exists(s, i) == s.orders[i].status # "ABSENT"
IsLive(o)    == o.status \in LiveStatuses

\* Mutant: the max(0, .) is dropped.
Difference(m, n) == m - n

Truncated(m, n) == IF m > n THEN m - n ELSE 0

Remaining(o, i)       == Truncated(Size[i], o.filled)
RemainingReserved(o)  == Truncated(o.reserved, o.filled + o.released)

-----------------------------------------------------------------------------
(* Events.  The fields an event type does not carry are at rest.           *)

EventTypes ==
  {"ORDER_INTENT_CREATED", "RISK_APPROVED", "ORDER_AUTHORIZED",
   "BROKER_SUBMISSION_REQUESTED", "BROKER_IO_STARTED", "ORDER_SUBMITTED",
   "ORDER_REJECTED", "BROKER_ACKNOWLEDGED", "BROKER_STATE_UNKNOWN",
   "BROKER_STATE_RECONCILED", "LOCAL_SUBMISSION_FAILED",
   "PARTIAL_FILL_RECEIVED", "FILL_RECEIVED", "CANCEL_REQUESTED",
   "CANCEL_CONFIRMED", "PROTECTIVE_ORDER_CREATED",
   "PROTECTIVE_ORDER_ACKNOWLEDGED", "MANUAL_INTERVENTION_REQUIRED",
   "RECONCILIATION_STARTED", "RECONCILIATION_RESOLVED"}

Event ==
  [type : EventTypes, intent : Intents, qty : Nat, authorized : Nat,
   risk : RiskDecision, exchange_id : BOOLEAN, evidence : {"CANCELED", "FILLED"}]

Ev(type, i) ==
  [type |-> type, intent |-> i, qty |-> 0, authorized |-> 0,
   risk |-> NoDecision, exchange_id |-> FALSE, evidence |-> "CANCELED"]

-----------------------------------------------------------------------------
(* The semantic handlers: one per event type.  A handler ignores an        *)
(* aggregate it does not know.                                             *)

UpdateOrder(s, i, o) == IF Exists(s, i) THEN [s EXCEPT !.orders[i] = o] ELSE s

WithStatus(s, i, status) ==
  UpdateOrder(s, i, [s.orders[i] EXCEPT !.status = status])

\* Mutant: the block outlives its last reason.
ResolveIntentOnly(s, i) == [s EXCEPT !.unresolved = @ \ {i}]

\* An unresolved intent stops blocking once a durable broker fact settles it.
ResolveManualIntent(s, i) ==
  LET left == s.unresolved \ {i} IN
  [s EXCEPT !.unresolved = left,
            !.manual_blocked = @ /\ left # {},
            !.health = IF left = {} /\ s.reconciliation = "STARTED"
                       THEN "RECONCILING" ELSE @]

Settled(s, i, status) ==
  IF Exists(s, i) THEN ResolveManualIntent(WithStatus(s, i, status), i) ELSE s

OnOrderIntentCreated(s, e) ==
  [s EXCEPT !.orders[e.intent] = NewOrder("PENDING")]

OnRiskApproved(s, e) ==
  UpdateOrder(s, e.intent,
    [s.orders[e.intent] EXCEPT !.status = "APPROVED",
                               !.risk = IF e.risk.present THEN e.risk ELSE @])

OnOrderAuthorized(s, e) ==
  UpdateOrder(s, e.intent,
    [s.orders[e.intent] EXCEPT !.status = "AUTHORIZED",
                               !.authorized = e.authorized])

OnBrokerSubmissionRequested(s, e) ==
  UpdateOrder(s, e.intent, [s.orders[e.intent] EXCEPT !.requested = TRUE])

OnBrokerIoStarted(s, e) ==
  UpdateOrder(s, e.intent, [s.orders[e.intent] EXCEPT !.io_started = TRUE])

OnOrderSubmitted(s, e) ==
  UpdateOrder(s, e.intent,
    [s.orders[e.intent] EXCEPT
       !.status      = IF @ \in {"APPROVED", "AUTHORIZED", "MANUAL"}
                       THEN "SUBMITTED" ELSE @,
       !.exchange_id = e.exchange_id,
       !.authorized  = IF e.intent \in Sells THEN e.authorized ELSE @,
       !.reserved    = IF e.intent \in Sells THEN e.qty ELSE @])

ReleaseSellRemainder(s, i) ==
  IF i \in Sells
  THEN UpdateOrder(s, i, [s.orders[i] EXCEPT
                            !.released = @ + RemainingReserved(s.orders[i])])
  ELSE s

\* Mutant: the remainder stays locked.
RejectedKeepsLock(s, e) == Settled(s, e.intent, "REJECTED")

OnOrderRejected(s, e) ==
  Settled(ReleaseSellRemainder(s, e.intent), e.intent, "REJECTED")

OnBrokerAcknowledged(s, e)    == Settled(s, e.intent, "ACKNOWLEDGED")
OnBrokerStateReconciled(s, e) == Settled(s, e.intent, "ACKNOWLEDGED")
OnLocalSubmissionFailed(s, e) == Settled(s, e.intent, "REJECTED")

OnBrokerStateUnknown(s, e) ==
  [WithStatus(s, e.intent, "MANUAL") EXCEPT
     !.manual_blocked = TRUE,
     !.unresolved     = @ \cup {e.intent},
     !.reconciliation = "STARTED",
     !.health         = IF @ = "PROTECTION_GAP" THEN @ ELSE "RECONCILING"]

\* Mutant: only the command blocks, not the handler.
ManualStatusOnly(s, e) == WithStatus(s, e.intent, "MANUAL")

OnManualInterventionRequired(s, e) ==
  [WithStatus(s, e.intent, "MANUAL") EXCEPT
     !.manual_blocked = TRUE,
     !.unresolved     = @ \cup {e.intent},
     !.health         = IF @ = "PROTECTION_GAP" THEN @ ELSE "MANUAL_BLOCKED"]

ApplyFill(s, e) ==
  LET i == e.intent
      o == s.orders[i]
      f == IF o.filled + e.qty < Size[i] THEN o.filled + e.qty ELSE Size[i]
  IN  IF ~Exists(s, i) THEN s
      ELSE [s EXCEPT
              !.orders[i] = [o EXCEPT !.filled = f,
                                      !.status = IF f = Size[i] THEN "FILLED"
                                                 ELSE "PARTIALLY_FILLED"],
              !.protection[i] = IF i \in Buys THEN "PROTECTION_REQUIRED" ELSE @]

OnCancelRequested(s, e) ==
  IF s.orders[e.intent].status = "FILLED" THEN s
  ELSE WithStatus(s, e.intent, "CANCEL_REQUESTED")

OnCancelConfirmed(s, e) ==
  IF e.evidence = "FILLED" THEN WithStatus(s, e.intent, "FILLED")
  ELSE WithStatus(ReleaseSellRemainder(s, e.intent), e.intent, "CANCELED")

OnProtectiveOrderCreated(s, e) ==
  IF Exists(s, e.intent) THEN [s EXCEPT !.protective = @ \cup {e.intent}] ELSE s

OnProtectiveOrderAcknowledged(s, e) ==
  IF e.intent \in s.protective /\ Exists(s, e.intent)
  THEN [s EXCEPT !.protection[e.intent] = "PROTECTED"] ELSE s

OnReconciliationStarted(s) ==
  [s EXCEPT !.reconciliation = "STARTED", !.health = "RECONCILING"]

OnReconciliationResolved(s) ==
  [s EXCEPT
     !.reconciliation = "RESOLVED",
     !.manual_blocked = @ /\ s.unresolved # {},
     !.health = IF s.unresolved = {} /\ @ \in {"MANUAL_BLOCKED", "RECONCILING"}
                THEN "NORMAL" ELSE @]

Apply(s, e) ==
  CASE e.type = "ORDER_INTENT_CREATED"          -> OnOrderIntentCreated(s, e)
    [] e.type = "RISK_APPROVED"                 -> OnRiskApproved(s, e)
    [] e.type = "ORDER_AUTHORIZED"              -> OnOrderAuthorized(s, e)
    [] e.type = "BROKER_SUBMISSION_REQUESTED"   -> OnBrokerSubmissionRequested(s, e)
    [] e.type = "BROKER_IO_STARTED"             -> OnBrokerIoStarted(s, e)
    [] e.type = "ORDER_SUBMITTED"               -> OnOrderSubmitted(s, e)
    [] e.type = "ORDER_REJECTED"                -> OnOrderRejected(s, e)
    [] e.type = "BROKER_ACKNOWLEDGED"           -> OnBrokerAcknowledged(s, e)
    [] e.type = "BROKER_STATE_UNKNOWN"          -> OnBrokerStateUnknown(s, e)
    [] e.type = "BROKER_STATE_RECONCILED"       -> OnBrokerStateReconciled(s, e)
    [] e.type = "LOCAL_SUBMISSION_FAILED"       -> OnLocalSubmissionFailed(s, e)
    [] e.type \in {"PARTIAL_FILL_RECEIVED", "FILL_RECEIVED"} -> ApplyFill(s, e)
    [] e.type = "CANCEL_REQUESTED"              -> OnCancelRequested(s, e)
    [] e.type = "CANCEL_CONFIRMED"              -> OnCancelConfirmed(s, e)
    [] e.type = "PROTECTIVE_ORDER_CREATED"      -> OnProtectiveOrderCreated(s, e)
    [] e.type = "PROTECTIVE_ORDER_ACKNOWLEDGED" -> OnProtectiveOrderAcknowledged(s, e)
    [] e.type = "MANUAL_INTERVENTION_REQUIRED"  -> OnManualInterventionRequired(s, e)
    [] e.type = "RECONCILIATION_STARTED"        -> OnReconciliationStarted(s)
    [] e.type = "RECONCILIATION_RESOLVED"       -> OnReconciliationResolved(s)

-----------------------------------------------------------------------------
(* What two states must share to be the same to the capital at risk.       *)

SameOrderLedger(o, p) ==
  /\ o.status = p.status /\ o.filled = p.filled
  /\ o.authorized = p.authorized /\ o.reserved = p.reserved
  /\ o.released = p.released /\ o.requested = p.requested
  /\ o.io_started = p.io_started

\* The capital-relevant part of the state.  The health, the risk decision and
\* the exchange identifier are left out: commands write them in memory only.
SameLedger(s, t) ==
  /\ \A i \in Intents : SameOrderLedger(s.orders[i], t.orders[i])
  /\ s.protective = t.protective /\ s.protection = t.protection
  /\ s.reconciliation = t.reconciliation
  /\ s.manual_blocked = t.manual_blocked /\ s.unresolved = t.unresolved

-----------------------------------------------------------------------------
(* The store's execution_sell_reservations table.                          *)

Row == [status : {"none", "active", "filled", "canceled", "rejected"},
        reserved : Nat, filled : Nat, released : Nat]

NoRow == [status |-> "none", reserved |-> 0, filled |-> 0, released |-> 0]

RowActive(r) ==
  IF r.status = "active" THEN r.reserved - r.filled - r.released ELSE 0

ActiveRows(rows, symbol) ==
  MapThenSumSet(LAMBDA j : RowActive(rows[j]),
                {j \in Sells : SymbolOf[j] = symbol})

\* Mutant: each reservation is checked alone.
AcceptsEachAlone(rows, e) ==
  e.type = "ORDER_SUBMITTED" => /\ e.qty =< e.authorized
                                /\ rows[e.intent].status = "none"

\* FALSE where append raises and rolls the event back: a reservation above the
\* authorized quantity, a second row for an intent, or fills above the
\* reservation.
ReservationAccepts(rows, e) ==
  CASE e.type = "ORDER_SUBMITTED" /\ e.intent \in Sells \ Protective ->
         /\ e.qty > 0
         /\ ActiveRows(rows, SymbolOf[e.intent]) + e.qty =< e.authorized
         /\ rows[e.intent].status = "none"
    [] e.type \in {"PARTIAL_FILL_RECEIVED", "FILL_RECEIVED"} ->
         \/ rows[e.intent].status = "none"
         \/ rows[e.intent].filled + e.qty =< rows[e.intent].reserved
    [] OTHER -> TRUE

ReservationProjection(rows, e) ==
  LET i == e.intent
      r == rows[i]
  IN  CASE e.type = "ORDER_SUBMITTED" /\ i \in Sells \ Protective ->
             [rows EXCEPT ![i] = [status |-> "active", reserved |-> e.qty,
                                  filled |-> 0, released |-> 0]]
        [] /\ e.type \in {"PARTIAL_FILL_RECEIVED", "FILL_RECEIVED"}
           /\ r.status # "none" ->
             [rows EXCEPT ![i] = [r EXCEPT !.filled = @ + e.qty,
                                           !.status = IF r.filled + e.qty = r.reserved
                                                      THEN "filled" ELSE "active"]]
        [] /\ e.type \in {"CANCEL_CONFIRMED", "ORDER_REJECTED"}
           /\ r.status # "none" ->
             [rows EXCEPT ![i] = [r EXCEPT !.released = Truncated(r.reserved, r.filled),
                                           !.status = IF e.type = "CANCEL_CONFIRMED"
                                                      THEN "canceled" ELSE "rejected"]]
        [] OTHER -> rows
=============================================================================
