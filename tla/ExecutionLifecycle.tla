------------------------- MODULE ExecutionLifecycle -------------------------
(***************************************************************************)
(* The event-sourced execution lifecycle: the commands of the aggregate    *)
(* (execution/lifecycle/lifecycle.py) on top of the handlers of            *)
(* LifecycleState.  A command validates against the in-memory state, then  *)
(* appends events; each event is durable (with the store's SELL-lock       *)
(* table) before it is applied in memory.  A command may also write the    *)
(* in-memory state directly; those writes are not in the log.  The process *)
(* may die after any of the durable writes of a command.                   *)
(*                                                                         *)
(*   mem        the state of the running process (self.state)              *)
(*   replayed   the whole log replayed from the empty state                *)
(*   recovered  what load() would rebuild now: the latest snapshot and the *)
(*              events after it, or the whole log when none was saved      *)
(*   rows       the store's execution_sell_reservations table              *)
(*   claims     the store's execution_submission_claims table              *)
(*   registered the intents in execution_order_intents                     *)
(*                                                                         *)
(* The log itself is not kept: every log is represented by the states it   *)
(* replays to.  The kill switch, the trusted price and the venue inventory *)
(* are callables read afresh by each command, hence parameters (env) that  *)
(* may differ from one call to the next.                                   *)
(***************************************************************************)
EXTENDS LifecycleState

CONSTANTS
  KeyOf,            \* the idempotency key each intent is created with
  RiskDecisions,    \* the risk decisions the authority may issue
  Envs,             \* the answers of the kill switch, price and inventory
  Commands,         \* the commands the callers use
  Saves             \* the sets of events of a command a snapshot follows

\* What a command reads from the callables it was built with: the kill switch,
\* whether a trusted fresh price exists, and the venue inventory, if known.
Env == [kill : BOOLEAN, price : BOOLEAN, known : BOOLEAN, free : Nat]

ASSUME LifecycleAssumption ==
  /\ RiskDecisions \subseteq {d \in RiskDecision : d.present}
  /\ Envs \subseteq Env
  /\ Saves \subseteq SUBSET EventTypes

VARIABLES mem, replayed, recovered, rows, claims, registered

vars == <<mem, replayed, recovered, rows, claims, registered>>

\* The decision emergency_reduce issues for itself.
EmergencyDecision ==
  [present |-> TRUE, reduce_only |-> TRUE, headroom |-> FALSE,
   evidence |-> [e \in EvidenceOf |-> "KNOWN"], waived |-> FALSE]

Init ==
  /\ mem = EmptyState /\ replayed = EmptyState /\ recovered = EmptyState
  /\ rows = [i \in Intents |-> NoRow]
  /\ claims = {} /\ registered = {}

-----------------------------------------------------------------------------
(* A command maps the current World to the one it leaves behind.  Every    *)
(* durable write on the way adds to "crashes" the world a restart would    *)
(* find had the process died just before it.                               *)

World == [mem |-> mem, replayed |-> replayed, recovered |-> recovered,
          rows |-> rows, claims |-> claims, registered |-> registered,
          crashes |-> {}]

\* load(): the memory is lost and rebuilt.
Reloaded(w) ==
  [mem |-> w.recovered, replayed |-> w.replayed, recovered |-> w.recovered,
   rows |-> w.rows, claims |-> w.claims, registered |-> w.registered]

\* Mutant: the snapshot is taken before the handler ran, yet counts the event.
EmitSnapshotFirst(w, e, saves) ==
  [w EXCEPT
     !.mem       = Apply(@, e),
     !.replayed  = Apply(@, e),
     !.recovered = IF e.type \in saves THEN w.mem ELSE Apply(@, e),
     !.rows      = ReservationProjection(@, e),
     !.crashes   = @ \cup {Reloaded(w)}]

\* _emit: durable append and apply; then, when a snapshot is due, the live
\* state is saved and recovery starts from it.
Emit(w, e, saves) ==
  [w EXCEPT
     !.mem       = Apply(@, e),
     !.replayed  = Apply(@, e),
     !.recovered = Apply(IF e.type \in saves THEN w.mem ELSE @, e),
     !.rows      = ReservationProjection(@, e),
     !.crashes   = @ \cup {Reloaded(w)}]

\* Transactions of their own, before the event they announce.
Claim(w, i) ==
  [w EXCEPT !.claims = @ \cup {i}, !.crashes = @ \cup {Reloaded(w)}]

Register(w, i) ==
  [w EXCEPT !.registered = @ \cup {i}, !.crashes = @ \cup {Reloaded(w)}]

Become(w) ==
  /\ mem' = w.mem /\ replayed' = w.replayed /\ recovered' = w.recovered
  /\ rows' = w.rows /\ claims' = w.claims /\ registered' = w.registered

\* The command completes, or the process dies on the way and restarts.
Commit(w) == Become(w) \/ \E c \in w.crashes : Become(c)

Side(i) == IF i \in Buys THEN "buy" ELSE "sell"

ActiveSellReservations(s, i) ==
  MapThenSumSet(LAMBDA j : RemainingReserved(s.orders[j]),
                {j \in Sells \ (Protective \cup {i}) : SymbolOf[j] = SymbolOf[i]})

AvailableSellInventory(s, i, env) ==
  Truncated(env.free, ActiveSellReservations(s, i))

DetermineExposureEffect(s, i, env) ==
  IF i \in Sells /\ env.known /\ Size[i] =< AvailableSellInventory(s, i, env)
  THEN "REDUCE" ELSE "INCREASE"

\* Mutant: the protection state is not passed to the gate.
ContextWithoutProtection(s, i, env) ==
  [health |-> s.health, effect |-> DetermineExposureEffect(s, i, env),
   risk |-> NoDecision, price_trusted |-> env.price,
   reconciliation |-> s.reconciliation, protection_required |-> FALSE,
   manual_blocked |-> s.manual_blocked, kill_switch |-> env.kill,
   inventory_known |-> i \in Sells => env.known,
   free |-> IF i \in Sells THEN AvailableSellInventory(s, i, env) ELSE 0,
   size |-> Size[i], side |-> Side(i), require_price |-> FALSE,
   enforce_inventory |-> FALSE, broker_state |-> "none", draft |-> TRUE]

\* The context both permission checks of the lifecycle share.
BaseContext(s, i, env) ==
  [health |-> s.health, effect |-> DetermineExposureEffect(s, i, env),
   risk |-> NoDecision, price_trusted |-> env.price,
   reconciliation |-> s.reconciliation,
   protection_required |-> \E j \in Intents : s.protection[j] = "PROTECTION_REQUIRED",
   manual_blocked |-> s.manual_blocked, kill_switch |-> env.kill,
   inventory_known |-> i \in Sells => env.known,
   free |-> IF i \in Sells THEN AvailableSellInventory(s, i, env) ELSE 0,
   size |-> Size[i], side |-> Side(i), require_price |-> FALSE,
   enforce_inventory |-> FALSE, broker_state |-> "none", draft |-> TRUE]

-----------------------------------------------------------------------------
(* Intent, risk approval, authorization                                    *)

\* Mutant: the registry is unique on the intent instead of the key.
IntentFree(i) == i \notin registered

KeyFree(i) == \A j \in registered : KeyOf[j] = KeyOf[i] => j = i

DraftAdmitted(s, i, env) ==
  LET r == EvaluateOrderPermission(BaseContext(s, i, env)) IN
  r.permission # "BLOCK" \/ r.reason = "reconciliation_unresolved"

\* Mutant: an intent may be created again.
CreateAgain(i, env, saves) ==
  /\ DraftAdmitted(mem, i, env)
  /\ KeyFree(i)
  /\ Commit(Emit(Register(World, i), Ev("ORDER_INTENT_CREATED", i), saves))

\* create_order_intent
CreateOrderIntent(i, env, saves) ==
  /\ DraftAdmitted(mem, i, env)
  /\ ~Exists(mem, i)
  /\ KeyFree(i)
  /\ Commit(Emit(Register(World, i), Ev("ORDER_INTENT_CREATED", i), saves))

\* approve_risk writes the decision in memory, then appends it; the draft path
\* (risk_decision=None) appends none.
Approve(w, i, d, saves) ==
  Emit([w EXCEPT !.mem.orders[i].risk = d],
       [Ev("RISK_APPROVED", i) EXCEPT !.risk = d], saves)

ApproveRisk(i, d, saves) ==
  /\ mem.orders[i].status \in {"PENDING", "APPROVED"}
  /\ Commit(Approve(World, i, d, saves))

\* The exposure an order leaves, relative to the exposure before it.  Within
\* the tolerance, or at the clamp, an order changes nothing.
AuthorizedEffects(i) ==
  IF i \in Buys THEN {"INCREASE", "NEUTRAL"} ELSE {"REDUCE", "NEUTRAL"}

\* Mutant: authorization asks the gate what a draft asks it.
AuthorizableAsDraft(s, i, env, effect) ==
  /\ s.orders[i].status = "APPROVED"
  /\ s.orders[i].risk.reduce_only => effect # "INCREASE"
  /\ ~Blocked(BaseContext(s, i, env))

\* The checks of authorize_order.  The portfolio is valid and the exposure
\* within the limits of the decision for some data, so only the reduce-only
\* test remains of the limits.
Authorizable(s, i, env, effect) ==
  /\ s.orders[i].status = "APPROVED"
  /\ s.orders[i].risk.present
  /\ KeyFree(i)
  /\ env.price
  /\ s.orders[i].risk.reduce_only => effect # "INCREASE"
  /\ ~Blocked([BaseContext(s, i, env) EXCEPT
                 !.effect = effect, !.risk = s.orders[i].risk,
                 !.free = env.free, !.require_price = TRUE,
                 !.enforce_inventory = TRUE, !.draft = FALSE])

Authorization(i) == [Ev("ORDER_AUTHORIZED", i) EXCEPT !.authorized = Size[i]]

AuthorizeOrder(i, env, effect, saves) ==
  /\ Authorizable(mem, i, env, effect)
  /\ Commit(Emit(World, Authorization(i), saves))

-----------------------------------------------------------------------------
(* Submission                                                              *)

\* The revalidation request_broker_submission does after it took the claim.
SubmissionAllowed(s, i, env) ==
  LET o == s.orders[i] IN
  /\ ~Blocked([BaseContext(s, i, env) EXCEPT
                 !.risk = o.risk, !.require_price = TRUE,
                 !.enforce_inventory = TRUE, !.draft = FALSE])
  /\ o.authorized > 0 => Size[i] =< o.authorized
  /\ i \in Sells => Size[i] =< AvailableSellInventory(s, i, env)

\* Mutant: the request is appended without a claim.
RequestUnclaimed(w, i, env, saves) ==
  IF SubmissionAllowed(w.mem, i, env)
  THEN Emit(w, Ev("BROKER_SUBMISSION_REQUESTED", i), saves) ELSE w

\* The claim stays when a later check refuses the order.
Request(w, i, env, saves) ==
  IF i \in w.claims THEN w
  ELSE IF SubmissionAllowed(w.mem, i, env)
       THEN Emit(Claim(w, i), Ev("BROKER_SUBMISSION_REQUESTED", i), saves)
       ELSE Claim(w, i)

RequestBrokerSubmission(i, env, saves) ==
  /\ mem.orders[i].status \in {"APPROVED", "AUTHORIZED"}
  /\ Commit(Request(World, i, env, saves))

RecordBrokerIoStarted(i, saves) ==
  /\ mem.orders[i].requested /\ ~mem.orders[i].io_started
  /\ Commit(Emit(World, Ev("BROKER_IO_STARTED", i), saves))

Submission(o, i, env, has_id) ==
  [Ev("ORDER_SUBMITTED", i) EXCEPT
     !.exchange_id = has_id,
     !.qty         = IF i \in Sells THEN Size[i] ELSE 0,
     !.authorized  = IF o.authorized > 0 THEN o.authorized ELSE env.free]

NeedsRequest(o) == ~o.requested /\ o.status \in {"APPROVED", "AUTHORIZED"}

\* An unknown inventory cannot stand in for a missing authorized quantity.
Recordable(o, i, env) ==
  /\ o.authorized > 0 => Size[i] =< o.authorized
  /\ i \in Sells /\ o.authorized = 0 => env.known

\* submit_order, called with the broker's answer.  An order that was never
\* requested is requested here; when the store then refuses the reservation
\* the request stays.
SubmitOrder(i, env, has_id, saves) ==
  LET o == mem.orders[i]
      w == IF NeedsRequest(o) THEN Request(World, i, env, saves) ELSE World
      e == Submission(o, i, env, has_id)
  IN
  /\ ~(IsLive(o) /\ o.exchange_id)
  /\ o.status \in {"APPROVED", "AUTHORIZED", "SUBMITTED", "ACKNOWLEDGED"}
  /\ Commit(IF /\ ~NeedsRequest(w.mem.orders[i]) /\ Recordable(o, i, env)
               /\ ReservationAccepts(rows, e)
            THEN Emit(w, e, saves) ELSE w)

\* emergency_reduce: create, approve, authorize and request in one call, no
\* idempotency key registered; a refusal on the way leaves what was appended.
EmergencyReduce(i, env, effect, saves) ==
  LET w == Approve(Emit(World, Ev("ORDER_INTENT_CREATED", i), saves),
                   i, EmergencyDecision, saves)
  IN
  /\ i \in Sells
  /\ ~Exists(mem, i)
  /\ Commit(IF Authorizable(w.mem, i, env, effect)
            THEN Request(Emit(w, Authorization(i), saves), i, env, saves)
            ELSE w)

-----------------------------------------------------------------------------
(* Broker feedback                                                         *)

AcknowledgeBroker(i, saves) ==
  /\ mem.orders[i].status = "SUBMITTED"
  /\ Commit(Emit(World, Ev("BROKER_ACKNOWLEDGED", i), saves))

\* require_manual_intervention blocks in memory first, then appends.
RequireManual(w, i, saves) ==
  Emit([w EXCEPT
          !.mem.manual_blocked = TRUE,
          !.mem.unresolved     = @ \cup {i},
          !.mem.health         = IF @ = "PROTECTION_GAP" THEN @
                                 ELSE "MANUAL_BLOCKED"],
       Ev("MANUAL_INTERVENTION_REQUIRED", i), saves)

Fill(i, n, type) == [Ev(type, i) EXCEPT !.qty = n]

\* receive_fill.  A buy filled without a protective trigger opens a gap.
ReceiveFill(i, n, trigger, saves) ==
  LET o == mem.orders[i]
      e == Fill(i, n, IF n = Remaining(o, i) THEN "FILL_RECEIVED"
                      ELSE "PARTIAL_FILL_RECEIVED")
      w == Emit(World, e, saves)
  IN
  /\ o.status \in LiveStatuses \cup {"APPROVED", "CANCEL_REQUESTED", "MANUAL"}
  /\ n =< Remaining(o, i)
  /\ i \in Sells => n =< RemainingReserved(o)
  /\ ReservationAccepts(rows, e)
  /\ Commit(IF i \in Buys /\ ~trigger
            THEN RequireManual([w EXCEPT !.mem.health = "PROTECTION_GAP"], i, saves)
            ELSE w)

RequestCancel(i, saves) ==
  /\ mem.orders[i].status \in LiveStatuses \cup {"APPROVED"}
  /\ Commit(Emit(World, Ev("CANCEL_REQUESTED", i), saves))

\* confirm_cancel with terminal evidence: CANCELED stands for CANCELED,
\* REJECTED and EXPIRED, which are handled alike.
ConfirmCancel(i, evidence, saves) ==
  /\ mem.orders[i].status = "CANCEL_REQUESTED"
  /\ evidence = "FILLED" => Remaining(mem.orders[i], i) = 0
  /\ Commit(Emit(World, [Ev("CANCEL_CONFIRMED", i) EXCEPT !.evidence = evidence],
                 saves))

RejectOrder(i, saves) ==
  /\ mem.orders[i].status \notin {"ABSENT", "FILLED", "CANCELED", "REJECTED"}
  /\ Commit(Emit(World, Ev("ORDER_REJECTED", i), saves))

\* A protective order is created for a parent and acknowledged with evidence
\* of a resting broker order.
CreateProtectiveOrder(i, saves) ==
  Commit(Emit(World, Ev("PROTECTIVE_ORDER_CREATED", i), saves))

AcknowledgeProtectiveOrder(i, saves) ==
  /\ i \in mem.protective
  /\ Commit(Emit(World, Ev("PROTECTIVE_ORDER_ACKNOWLEDGED", i), saves))

-----------------------------------------------------------------------------
(* Typed broker facts.  qty is the filled quantity the raw response        *)
(* carries, 0 when it has no positive quantity and price.                  *)

FactStates == {"ACCEPTED", "PARTIALLY_FILLED", "FILLED", "REJECTED", "UNKNOWN",
               "FAILED_LOCAL", "UNRECOGNIZED"}

FillStates == {"PARTIALLY_FILLED", "FILLED"}

Facts(i) ==
  [state : FactStates \ FillStates, qty : {0}]
    \cup [state : FillStates, qty : 0..Size[i]]

\* The reconciliation events belong to an aggregate of their own: no handler
\* reads the intent of one.
ReconEv(type) == Ev(type, CHOOSE i \in Intents : TRUE)

FillRefused(w, i, fact) ==
  /\ fact.state \in FillStates /\ fact.qty > 0
  /\ ~ReservationAccepts(w.rows, Fill(i, fact.qty, "FILL_RECEIVED"))

\* An acknowledgement and then the fill, which the store may refuse.
RecordFill(w, i, fact, saves) ==
  LET acked == Emit(w, Ev("BROKER_ACKNOWLEDGED", i), saves) IN
  IF fact.qty = 0
  THEN Emit(RequireManual(acked, i, saves), ReconEv("RECONCILIATION_STARTED"), saves)
  ELSE IF FillRefused(w, i, fact) THEN acked
  ELSE Emit(acked,
            Fill(i, fact.qty, IF fact.state = "FILLED" THEN "FILL_RECEIVED"
                              ELSE "PARTIAL_FILL_RECEIVED"), saves)

RecordUnknown(w, i, saves) ==
  Emit(Emit([w EXCEPT
               !.mem.orders[i].status = "MANUAL",
               !.mem.manual_blocked   = TRUE,
               !.mem.unresolved       = @ \cup {i},
               !.mem.health           = IF @ = "PROTECTION_GAP" THEN @
                                        ELSE "MANUAL_BLOCKED"],
            Ev("BROKER_STATE_UNKNOWN", i), saves),
       ReconEv("RECONCILIATION_STARTED"), saves)

RecordFact(w, i, fact, saves) ==
  CASE fact.state = "ACCEPTED"     -> Emit(w, Ev("BROKER_ACKNOWLEDGED", i), saves)
    [] fact.state \in FillStates   -> RecordFill(w, i, fact, saves)
    [] fact.state = "REJECTED"     -> Emit(w, Ev("ORDER_REJECTED", i), saves)
    [] fact.state = "UNKNOWN"      -> RecordUnknown(w, i, saves)
    [] fact.state = "FAILED_LOCAL" -> Emit(w, Ev("LOCAL_SUBMISSION_FAILED", i), saves)
    [] fact.state = "UNRECOGNIZED" -> RequireManual(w, i, saves)

RecordBrokerSubmitResult(i, fact, saves) ==
  /\ Exists(mem, i)
  /\ Commit(RecordFact(World, i, fact, saves))

\* record_reconciled_broker_submit_result: a later lookup settles an UNKNOWN.
RecordReconciledBrokerSubmitResult(i, fact, saves) ==
  LET o    == mem.orders[i]
      e    == [Ev("ORDER_SUBMITTED", i) EXCEPT
                 !.exchange_id = TRUE, !.authorized = o.authorized,
                 !.qty = IF i \in Sells THEN Size[i] ELSE 0]
      live == fact.state \in FillStates \cup {"ACCEPTED"}
      w1   == IF live THEN Emit(World, e, saves) ELSE World
      w2   == RecordFact(w1, i, fact, saves)
  IN
  /\ Exists(mem, i)
  /\ mem.reconciliation = "STARTED"
  /\ i \in mem.unresolved
  /\ fact.state \notin {"UNKNOWN", "FAILED_LOCAL"}
  /\ live => ReservationAccepts(rows, e)
  /\ Commit(IF /\ ~FillRefused(w1, i, fact)
               /\ w2.mem.unresolved = {} /\ w2.mem.reconciliation = "STARTED"
            THEN Emit(w2, ReconEv("RECONCILIATION_RESOLVED"), saves) ELSE w2)

-----------------------------------------------------------------------------
(* Reconciliation and manual intervention                                  *)

StartReconciliation(saves) ==
  Commit(Emit(World, ReconEv("RECONCILIATION_STARTED"), saves))

ResolveReconciliation(saves) ==
  /\ mem.reconciliation = "STARTED" /\ mem.unresolved = {}
  /\ Commit(Emit(World, ReconEv("RECONCILIATION_RESOLVED"), saves))

RequireManualIntervention(i, saves) == Commit(RequireManual(World, i, saves))

\* The events reconcile_broker_state appends between RECONCILIATION_STARTED and
\* its end: BROKER_STATE_RECONCILED for each cancel race and
\* MANUAL_INTERVENTION_REQUIRED for each lost order, in any order.
Reconciled(s, races, lost) ==
  LET left == (s.unresolved \ races) \cup lost IN
  [s EXCEPT
     !.orders = [i \in Intents |->
                   IF i \in races THEN [@[i] EXCEPT !.status = "ACKNOWLEDGED"]
                   ELSE IF i \in lost THEN [@[i] EXCEPT !.status = "MANUAL"]
                   ELSE @[i]],
     !.unresolved     = left,
     !.manual_blocked = IF lost # {} THEN TRUE
                        ELSE IF races # {} THEN @ /\ left # {} ELSE @,
     !.health = IF lost # {} THEN "MANUAL_BLOCKED" ELSE "RECONCILING"]

\* A race's exchange identifier is written in memory only.
Identified(s, races) ==
  [s EXCEPT !.orders = [i \in Intents |->
                          IF i \in races THEN [@[i] EXCEPT !.exchange_id = TRUE]
                          ELSE @[i]]]

Audit(w, races, lost, saves) ==
  LET live  == Identified(w.mem, races)
      saved == saves \cap {"BROKER_STATE_RECONCILED",
                           "MANUAL_INTERVENTION_REQUIRED"} # {}
  IN
  [w EXCEPT
     !.mem       = Reconciled(live, races, lost),
     !.replayed  = Reconciled(@, races, lost),
     !.recovered = Reconciled(IF saved THEN live ELSE @, races, lost)]

\* The process may die between any two of those events.
Audited(w, races, lost, saves) ==
  [Audit(w, races, lost, saves) EXCEPT
     !.crashes = @ \cup {Reloaded(Audit(w, R, L, saves)) :
                         R \in SUBSET races, L \in SUBSET lost}]

\* broker[i]: what the venue says of intent i; "missing" also stands for a
\* status outside the known ones.
CancelRaces(broker) ==
  {i \in Intents : /\ broker[i] = "open"
                   /\ mem.orders[i].status \in {"CANCEL_REQUESTED", "CANCELED"}}

LostOrders(broker) ==
  {i \in Intents : IsLive(mem.orders[i]) /\ broker[i] = "missing"}

\* The health after races is written in memory only, and stays when unresolved
\* intents then forbid the resolution.
ReconcileBrokerState(broker, saves) ==
  LET races == CancelRaces(broker)
      lost  == LostOrders(broker)
      w1    == Emit(World, ReconEv("RECONCILIATION_STARTED"), saves)
      w2    == Audited(w1, races, lost, saves)
      w3    == IF races # {} THEN [w2 EXCEPT !.mem.health = "NORMAL"] ELSE w2
  IN
  Commit(IF lost # {} THEN w2
         ELSE IF w2.mem.unresolved # {} THEN w3
         ELSE Emit(w3, ReconEv("RECONCILIATION_RESOLVED"), saves))

\* The process dies between two commands.
CrashRestart == Become(Reloaded(World))

-----------------------------------------------------------------------------
May(command) == command \in Commands

OrderCommand(i, env, saves) ==
  \/ May("create_order_intent") /\ CreateOrderIntent(i, env, saves)
  \/ May("request_broker_submission") /\ RequestBrokerSubmission(i, env, saves)
  \/ \E effect \in AuthorizedEffects(i) :
       \/ May("authorize_order") /\ AuthorizeOrder(i, env, effect, saves)
       \/ May("emergency_reduce") /\ EmergencyReduce(i, env, effect, saves)
  \/ \E has_id \in BOOLEAN :
       May("submit_order") /\ SubmitOrder(i, env, has_id, saves)

FeedbackCommand(i, saves) ==
  \/ \E d \in RiskDecisions \cup {NoDecision} :
       May("approve_risk") /\ ApproveRisk(i, d, saves)
  \/ May("record_broker_io_started") /\ RecordBrokerIoStarted(i, saves)
  \/ May("acknowledge_broker") /\ AcknowledgeBroker(i, saves)
  \/ \E n \in 1..Size[i], trigger \in BOOLEAN :
       May("receive_fill") /\ ReceiveFill(i, n, trigger, saves)
  \/ May("request_cancel") /\ RequestCancel(i, saves)
  \/ \E evidence \in {"CANCELED", "FILLED"} :
       May("confirm_cancel") /\ ConfirmCancel(i, evidence, saves)
  \/ May("reject_order") /\ RejectOrder(i, saves)
  \/ May("require_manual_intervention") /\ RequireManualIntervention(i, saves)
  \/ \E fact \in Facts(i) :
       \/ May("record_broker_submit_result")
          /\ RecordBrokerSubmitResult(i, fact, saves)
       \/ May("record_reconciled_broker_submit_result")
          /\ RecordReconciledBrokerSubmitResult(i, fact, saves)

\* Only bought positions are protected.
ProtectionCommand(i, saves) ==
  \/ May("create_protective_order") /\ CreateProtectiveOrder(i, saves)
  \/ May("acknowledge_protective_order") /\ AcknowledgeProtectiveOrder(i, saves)

ReconciliationCommand(saves) ==
  \/ May("start_reconciliation") /\ StartReconciliation(saves)
  \/ May("resolve_reconciliation") /\ ResolveReconciliation(saves)
  \/ \E broker \in [Intents -> {"open", "known", "missing"}] :
       May("reconcile_broker_state") /\ ReconcileBrokerState(broker, saves)

Next ==
  \/ \E saves \in Saves :
       \/ \E i \in Intents, env \in Envs : OrderCommand(i, env, saves)
       \/ \E i \in Intents : FeedbackCommand(i, saves)
       \/ \E i \in Buys : ProtectionCommand(i, saves)
       \/ ReconciliationCommand(saves)
  \/ CrashRestart

Spec == Init /\ [][Next]_vars

-----------------------------------------------------------------------------
\* Type invariant.
TypeOK ==
  /\ mem \in State /\ replayed \in State /\ recovered \in State
  /\ rows \in [Intents -> Row]
  /\ claims \subseteq Intents /\ registered \subseteq Intents

\* Crash recovery is exact: whatever snapshots were taken and wherever the
\* process died, the running state and the state load() would rebuild carry the
\* ledger that replaying the whole log gives.  The direct writes of
\* require_manual_intervention, receive_fill, record_broker_submit_result and
\* reconcile_broker_state never leak into it.
LedgerIsReplay == SameLedger(mem, replayed) /\ SameLedger(recovered, replayed)

Halted(s) ==
  \/ s.manual_blocked \/ s.reconciliation = "STARTED"
  \/ s.health \in {"MANUAL_BLOCKED", "PROTECTION_GAP", "RECONCILING"}
  \/ \E i \in Intents : s.protection[i] = "PROTECTION_REQUIRED"

\* A restart neither lifts a halt nor invents one, although the health that
\* names its reason may differ (_on_* handlers against the commands' own
\* writes of execution_health).
HaltSurvivesRestart == Halted(mem) <=> Halted(recovered)

\* An order in MANUAL is always among the unresolved intents, and the manual
\* block holds exactly while there is one (_resolve_manual_intent and
\* _on_reconciliation_resolved clear both together).
ManualIsUnresolved ==
  /\ \A i \in Intents : mem.orders[i].status = "MANUAL" => i \in mem.unresolved
  /\ mem.manual_blocked <=> mem.unresolved # {}

\* While any bought quantity has no acknowledged protective order no entry can
\* be requested, whatever the kill switch, price and inventory answer
\* (invariant 4 of the lifecycle's docstring).
UnprotectedPositionBlocksEntry ==
  (\E i \in Buys : mem.orders[i].filled > 0 /\ mem.protection[i] # "PROTECTED")
    => \A j \in Buys, env \in Envs : ~SubmissionAllowed(mem, j, env)

\* An authorized entry rests on a durable risk decision that leaves room for
\* new exposure: a draft approval and a reduce-only decision never become
\* executable by any order of approve_risk, authorize_order and restarts.
AuthorizedEntryIsAdmitted ==
  \A i \in Buys :
    replayed.orders[i].authorized > 0 =>
      /\ replayed.orders[i].risk.present
      /\ replayed.orders[i].risk.headroom /\ ~replayed.orders[i].risk.reduce_only

\* A submission request in the log is backed by the claim that excludes every
\* other caller, a crash between the two included (claim_submission precedes
\* the event in request_broker_submission).
RequestedIsClaimed ==
  \A i \in Intents : replayed.orders[i].requested => i \in claims

\* The way out stays open: however many halts have piled up, an authorized sell
\* within the free inventory of a venue that answers can be requested, the kill
\* switch on or off (invariant 7 is the only limit on an exit).
ExitStaysOpen ==
  \A i \in Sells, env \in Envs, kill \in BOOLEAN :
    (/\ mem.orders[i].status = "AUTHORIZED"
     /\ env.price /\ env.known /\ Size[i] =< AvailableSellInventory(mem, i, env))
      => SubmissionAllowed(mem, i, [env EXCEPT !.kill = kill])

\* What was filled stays filled: no command and no restart loses a fill
\* (a second ORDER_INTENT_CREATED would reset the order).
FillsOnlyGrow ==
  [][\A i \in Intents : mem'.orders[i].filled >= mem.orders[i].filled]_vars

\* The two books of SELL locks agree: the store's transactional table and the
\* reservations reconstructed from events give each order the same lock.
LocksAgree ==
  \A i \in Sells \ Protective :
    RemainingReserved(replayed.orders[i]) =
      IF RowActive(rows[i]) > 0 THEN RowActive(rows[i]) ELSE 0

\* The locks of a symbol never add up to more than an inventory the venue has
\* reported, although each order is checked against its own authorization.
TotalLocksWithinInventory ==
  \A i \in Sells : \E env \in Envs :
    env.known /\ ActiveRows(rows, SymbolOf[i]) =< env.free

\* Two intents of one idempotency key never both enter the log through
\* create_order_intent, a crash between the registration and the event included.
OneIntentPerKey ==
  \A i, j \in Intents :
    Exists(replayed, i) /\ Exists(replayed, j) /\ KeyOf[i] = KeyOf[j] => i = j
=============================================================================
