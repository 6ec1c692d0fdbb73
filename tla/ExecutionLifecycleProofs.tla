----------------------- MODULE ExecutionLifecycleProofs -----------------------
(***************************************************************************)
(* Crash recovery of the execution lifecycle, for every set of intents,    *)
(* every answer of the callables and every snapshot policy.                *)
(*                                                                         *)
(* A world a command builds is consistent when its three states are sound, *)
(* agree on the ledger and on being halted, and every request is claimed.  *)
(* Each durable write keeps the world consistent, and so does each restart *)
(* it could be cut short by; a command is a chain of such writes.          *)
(***************************************************************************)
EXTENDS ExecutionLifecycle, LifecycleStateProofs

Cores ==
  [mem : State, replayed : State, recovered : State, rows : [Intents -> Row],
   claims : SUBSET Intents, registered : SUBSET Intents]

Worlds ==
  [mem : State, replayed : State, recovered : State, rows : [Intents -> Row],
   claims : SUBSET Intents, registered : SUBSET Intents, crashes : SUBSET Cores]

\* What is durable agrees with the log.
Durable(w) ==
  /\ Sound(w.replayed) /\ Sound(w.recovered) /\ Agrees(w.recovered, w.replayed)
  /\ \A i \in Intents : w.replayed.orders[i].requested => i \in w.claims

\* The running state agrees with it too.
Live(w) == Sound(w.mem) /\ Agrees(w.mem, w.replayed)

CrashesOk(w) == \A c \in w.crashes : Durable(c) /\ Live(c)

WorldOk(w) == w \in Worlds /\ Durable(w) /\ Live(w) /\ CrashesOk(w)

-----------------------------------------------------------------------------
(* Durable writes.                                                         *)

LEMMA ReloadedOk ==
  ASSUME NEW w \in Worlds, Durable(w)
  PROVE  Reloaded(w) \in Cores /\ Durable(Reloaded(w)) /\ Live(Reloaded(w))
  BY DEF Reloaded, Worlds, Cores, Durable, Live

\* An event appended when the running state may already be ahead of the log:
\* it is enough that the event itself closes the gap.
LEMMA EmitCloses ==
  ASSUME NEW w \in Worlds, Durable(w), CrashesOk(w), Sound(w.mem), NEW e, NEW saves,
         Admissible(w.mem, e), Admissible(w.replayed, e),
         Agrees(Apply(w.mem, e), Apply(w.replayed, e)),
         e.type = "BROKER_SUBMISSION_REQUESTED" => e.intent \in w.claims
  PROVE  WorldOk(Emit(w, e, saves))
<1> DEFINE v == Emit(w, e, saves)
           base == IF e.type \in saves THEN w.mem ELSE w.recovered
<1>1. /\ Sound(w.replayed) /\ Sound(w.recovered) /\ e \in Event
      /\ w.recovered \in State /\ w.replayed \in State /\ w.mem \in State
      /\ w.rows \in [Intents -> Row]
  BY DEF Durable, Admissible, Sound, Worlds
<1>2. Admissible(w.recovered, e)
  BY DEF Admissible, Durable, Agrees, SameLedger
<1>3. Agrees(Apply(w.recovered, e), Apply(w.replayed, e))
  BY <1>1, <1>2, ApplyAgrees DEF Durable
<1>4. Sound(Apply(base, e)) /\ Agrees(Apply(base, e), Apply(w.replayed, e))
  BY <1>1, <1>2, <1>3, ApplySound
<1>5. Sound(Apply(w.mem, e)) /\ Sound(Apply(w.replayed, e))
  BY <1>1, ApplySound
<1>6. /\ Reloaded(w) \in Cores /\ Durable(Reloaded(w)) /\ Live(Reloaded(w))
  BY ReloadedOk
<1>7. ReservationProjection(w.rows, e) \in [Intents -> Row]
  BY <1>1, ReservationProjectionType
<1>8. /\ v.mem = Apply(w.mem, e) /\ v.replayed = Apply(w.replayed, e)
      /\ v.recovered = Apply(base, e) /\ v.claims = w.claims
      /\ v.rows = ReservationProjection(w.rows, e)
      /\ v.registered = w.registered
      /\ v.crashes = w.crashes \cup {Reloaded(w)}
  BY DEF Emit, Worlds
<1>9. v \in Worlds
  <2>1. /\ Apply(w.mem, e) \in State /\ Apply(w.replayed, e) \in State
        /\ Apply(base, e) \in State
    BY <1>4, <1>5 DEF Sound
  <2> HIDE DEF base
  <2>2. QED
    BY <1>6, <1>7, <2>1 DEF Emit, Worlds, base
<1>10. \A i \in Intents : v.replayed.orders[i].requested => i \in v.claims
  BY <1>1, <1>8, ApplyRequested DEF Durable
<1> HIDE DEF v, base
<1>11. Durable(v) /\ Live(v)
  BY <1>4, <1>5, <1>8, <1>10 DEF Durable, Live
<1>12. CrashesOk(v)
  BY <1>6, <1>8 DEF CrashesOk
<1>13. QED
  BY <1>9, <1>11, <1>12 DEF WorldOk, v

\* An event appended by a command that has written nothing ahead of the log.
LEMMA EmitOk ==
  ASSUME NEW w, WorldOk(w), NEW e, NEW saves, Admissible(w.mem, e),
         e.type = "BROKER_SUBMISSION_REQUESTED" => e.intent \in w.claims
  PROVE  WorldOk(Emit(w, e, saves))
<1>1. Admissible(w.replayed, e)
  BY DEF WorldOk, Live, Admissible, Agrees, SameLedger
<1>2. Agrees(Apply(w.mem, e), Apply(w.replayed, e))
  BY ApplyAgrees DEF WorldOk, Live, Durable
<1>3. QED
  BY <1>1, <1>2, EmitCloses DEF WorldOk, Live

Plain(e) ==
  /\ e \in Event
  /\ e.type \notin {"BROKER_SUBMISSION_REQUESTED", "RECONCILIATION_RESOLVED"}

LEMMA EmitPlain ==
  ASSUME NEW w, WorldOk(w), NEW e, NEW saves, Plain(e)
  PROVE  WorldOk(Emit(w, e, saves))
  BY EmitOk DEF Plain, Admissible

LEMMA ClaimOk ==
  ASSUME NEW w, WorldOk(w), NEW i \in Intents
  PROVE  WorldOk(Claim(w, i)) /\ i \in Claim(w, i).claims
<1> DEFINE v == Claim(w, i)
<1>1. Reloaded(w) \in Cores /\ Durable(Reloaded(w)) /\ Live(Reloaded(w))
  BY ReloadedOk DEF WorldOk
<1>2. /\ v \in Worlds
      /\ v.mem = w.mem /\ v.replayed = w.replayed /\ v.recovered = w.recovered
      /\ v.claims = w.claims \cup {i} /\ v.crashes = w.crashes \cup {Reloaded(w)}
  BY <1>1 DEF Claim, WorldOk, Worlds
<1> HIDE DEF v
<1>3. Durable(v) /\ Live(v)
  BY <1>2 DEF WorldOk, Durable, Live
<1>4. CrashesOk(v)
  BY <1>1, <1>2 DEF CrashesOk, WorldOk
<1>5. QED
  BY <1>2, <1>3, <1>4 DEF WorldOk, v

LEMMA RegisterOk ==
  ASSUME NEW w, WorldOk(w), NEW i \in Intents
  PROVE  WorldOk(Register(w, i))
<1> DEFINE v == Register(w, i)
<1>1. Reloaded(w) \in Cores /\ Durable(Reloaded(w)) /\ Live(Reloaded(w))
  BY ReloadedOk DEF WorldOk
<1>2. /\ v \in Worlds
      /\ v.mem = w.mem /\ v.replayed = w.replayed /\ v.recovered = w.recovered
      /\ v.claims = w.claims /\ v.crashes = w.crashes \cup {Reloaded(w)}
  BY <1>1 DEF Register, WorldOk, Worlds
<1> HIDE DEF v
<1>3. Durable(v) /\ Live(v)
  BY <1>2 DEF WorldOk, Durable, Live
<1>4. CrashesOk(v)
  BY <1>1, <1>2 DEF CrashesOk, WorldOk
<1>5. QED
  BY <1>2, <1>3, <1>4 DEF WorldOk, v

\* A command that writes the running state itself: the rest of the world stays.
LEMMA MemoryOnly ==
  ASSUME NEW w \in Worlds, NEW m \in State, NEW v, v = [w EXCEPT !.mem = m]
  PROVE  /\ v \in Worlds /\ v.mem = m
         /\ v.replayed = w.replayed /\ v.recovered = w.recovered
         /\ v.claims = w.claims /\ v.crashes = w.crashes /\ v.rows = w.rows
         /\ Durable(w) => Durable(v)
         /\ CrashesOk(w) => CrashesOk(v)
  BY DEF Worlds, Durable, CrashesOk

-----------------------------------------------------------------------------
(* The invariant.                                                          *)

\* The inductive invariant: between commands the world is consistent.
IInv == WorldOk(World)

LEMMA CommitOk ==
  ASSUME NEW w, WorldOk(w), Commit(w)
  PROVE  IInv'
<1>1. ASSUME NEW c, c \in Cores \/ c \in Worlds, Durable(c), Live(c), Become(c)
      PROVE  IInv'
  <2>1. World' = [mem |-> c.mem, replayed |-> c.replayed,
                  recovered |-> c.recovered, rows |-> c.rows,
                  claims |-> c.claims, registered |-> c.registered,
                  crashes |-> {}]
    BY <1>1 DEF Become, World
  <2> DEFINE v == World'
  <2>2. /\ v.mem = c.mem /\ v.replayed = c.replayed /\ v.recovered = c.recovered
        /\ v.claims = c.claims /\ v.crashes = {}
    BY <2>1
  <2>3. v \in Worlds
    BY <1>1, <2>1 DEF Worlds, Cores
  <2> HIDE DEF v
  <2>4. WorldOk(v)
    BY <1>1, <2>2, <2>3 DEF WorldOk, Durable, Live, CrashesOk
  <2>5. QED
    BY <2>4 DEF IInv, v
<1>2. w \in Worlds /\ Durable(w) /\ Live(w) /\ CrashesOk(w)
  BY DEF WorldOk
<1>3. CASE Become(w)
  BY <1>1, <1>2, <1>3
<1>4. ASSUME NEW c \in w.crashes, Become(c)
      PROVE  IInv'
  BY <1>1, <1>2, <1>4 DEF CrashesOk, Worlds
<1>5. QED
  BY <1>3, <1>4 DEF Commit

-----------------------------------------------------------------------------
(* Commands as chains of writes.                                           *)

LEMMA EvType ==
  ASSUME NEW type \in EventTypes, NEW i \in Intents
  PROVE  /\ Ev(type, i) \in Event
         /\ Ev(type, i).type = type /\ Ev(type, i).intent = i
  BY NoDecisionType DEF Ev, Event

LEMMA EvPlain ==
  ASSUME NEW type \in EventTypes \ {"BROKER_SUBMISSION_REQUESTED",
                                    "RECONCILIATION_RESOLVED"},
         NEW i \in Intents
  PROVE  Plain(Ev(type, i))
  BY EvType DEF Plain

LEMMA ReconEvType ==
  ASSUME NEW type \in EventTypes
  PROVE  ReconEv(type) \in Event /\ ReconEv(type).type = type
<1>1. (CHOOSE i \in Intents : TRUE) \in Intents
  BY IntentsAssumption
<1>2. QED
  BY <1>1, EvType DEF ReconEv

LEMMA FillPlain ==
  ASSUME NEW i \in Intents, NEW n \in Nat,
         NEW type \in {"PARTIAL_FILL_RECEIVED", "FILL_RECEIVED"}
  PROVE  Plain(Fill(i, n, type))
<1>1. Fill(i, n, type) \in Event /\ Fill(i, n, type).type = type
  BY NoDecisionType DEF Fill, Ev, Event, EventTypes
<1>2. QED
  BY <1>1 DEF Plain

LEMMA AuthorizationPlain ==
  ASSUME NEW i \in Intents
  PROVE  Plain(Authorization(i))
<1>1. Size[i] \in Nat
  BY IntentsAssumption
<1>2. Authorization(i) \in Event /\ Authorization(i).type = "ORDER_AUTHORIZED"
  BY <1>1, NoDecisionType DEF Authorization, Ev, Event, EventTypes
<1>3. QED
  BY <1>2 DEF Plain

\* A risk decision, a health or an exchange identifier written in memory alone
\* leaves the ledger untouched.
LEMMA ApproveOk ==
  ASSUME NEW w, WorldOk(w), NEW i \in Intents, NEW d \in RiskDecision, NEW saves
  PROVE  WorldOk(Approve(w, i, d, saves))
<1> DEFINE m == [w.mem EXCEPT !.orders[i].risk = d]
           v == [w EXCEPT !.mem = m]
           e == [Ev("RISK_APPROVED", i) EXCEPT !.risk = d]
<1>1. w \in Worlds /\ w.mem \in State
  BY DEF WorldOk, Worlds
<1>2. m \in State
  <2>1. w.mem.orders[i] \in Order
    BY <1>1 DEF State
  <2>2. [w.mem.orders[i] EXCEPT !.risk = d] \in Order
    BY <2>1 DEF Order
  <2>3. QED
    BY <1>1, <2>2 DEF State
<1>3. Agrees(m, w.mem)
  BY <1>1 DEF Agrees, SameHalt, SameLedger, SameOrderLedger, State, Order
<1>4. Sound(m)
  <2>1. /\ m.health = w.mem.health /\ m.reconciliation = w.mem.reconciliation
        /\ m.unresolved = w.mem.unresolved /\ m.protection = w.mem.protection
        /\ m.manual_blocked = w.mem.manual_blocked
        /\ \A j \in Intents : /\ m.orders[j].status = w.mem.orders[j].status
                              /\ m.orders[j].filled = w.mem.orders[j].filled
    BY <1>1 DEF State, Order
  <2> HIDE DEF m
  <2>2. QED
    BY <1>2, <2>1
    DEF WorldOk, Live, Sound, UnresolvedBlocks, HealthNamesReason, FilledIsGuarded,
        Intents
<1>5. Plain(e)
  BY NoDecisionType DEF Plain, Ev, Event, EventTypes
<1>6. Approve(w, i, d, saves) = Emit(v, e, saves)
  BY DEF Approve
<1> HIDE DEF m, e
<1>7. Agrees(m, w.replayed)
  BY <1>3, AgreesTransitive DEF WorldOk, Live
<1>8. WorldOk(v)
  BY <1>1, <1>2, <1>4, <1>7, MemoryOnly DEF WorldOk, Live
<1>9. QED
  BY <1>5, <1>6, <1>8, EmitPlain

\* A status reads and writes the orders alone.
LEMMA StatusOfOrders ==
  ASSUME NEW s \in State, NEW t \in State, NEW i \in Intents,
         NEW status \in Statuses, s.orders = t.orders
  PROVE  WithStatus(s, i, status).orders = WithStatus(t, i, status).orders
  BY DEF WithStatus, UpdateOrder, Exists, State

LEMMA StatusFrame ==
  ASSUME NEW s \in State, NEW i \in Intents, NEW status \in Statuses, NEW r,
         r = WithStatus(s, i, status)
  PROVE  /\ r \in State
         /\ r.protective = s.protective /\ r.protection = s.protection
         /\ r.reconciliation = s.reconciliation
         /\ r.unresolved = s.unresolved /\ r.manual_blocked = s.manual_blocked
<1>1. r \in State
  BY WithStatusType
<1>2. QED
  BY <1>1 DEF WithStatus, UpdateOrder, State

\* A manual intervention or an unknown answer gives the same ledger whether or
\* not the command has already written it in memory.
LEMMA ManualAgain ==
  ASSUME NEW s \in State, NEW t \in State, NEW e, e.intent \in Intents,
         WithStatus(s, e.intent, "MANUAL").orders
           = WithStatus(t, e.intent, "MANUAL").orders,
         s.protective = t.protective, s.protection = t.protection,
         s.unresolved \cup {e.intent} = t.unresolved \cup {e.intent}
  PROVE  /\ s.reconciliation = t.reconciliation =>
              SameLedger(OnManualInterventionRequired(s, e),
                         OnManualInterventionRequired(t, e))
         /\ SameLedger(OnBrokerStateUnknown(s, e), OnBrokerStateUnknown(t, e))
<1> DEFINE x == WithStatus(s, e.intent, "MANUAL")
           y == WithStatus(t, e.intent, "MANUAL")
<1>1. "MANUAL" \in Statuses
  BY DEF Statuses
<1>2. /\ x \in State /\ y \in State /\ x.orders = y.orders
      /\ x.protective = y.protective /\ x.protection = y.protection
      /\ x.unresolved = s.unresolved /\ y.unresolved = t.unresolved
      /\ x.reconciliation = s.reconciliation /\ y.reconciliation = t.reconciliation
  BY <1>1, StatusFrame
<1> HIDE DEF x, y
<1>3. /\ s.reconciliation = t.reconciliation =>
           SameLedger([x EXCEPT
                         !.manual_blocked = TRUE,
                         !.unresolved     = @ \cup {e.intent},
                         !.health         = IF @ = "PROTECTION_GAP" THEN @
                                            ELSE "MANUAL_BLOCKED"],
                      [y EXCEPT
                         !.manual_blocked = TRUE,
                         !.unresolved     = @ \cup {e.intent},
                         !.health         = IF @ = "PROTECTION_GAP" THEN @
                                            ELSE "MANUAL_BLOCKED"])
  BY <1>2 DEF SameLedger, SameOrderLedger, State
<1>4. SameLedger([x EXCEPT
                    !.manual_blocked = TRUE,
                    !.unresolved     = @ \cup {e.intent},
                    !.reconciliation = "STARTED",
                    !.health         = IF @ = "PROTECTION_GAP" THEN @
                                       ELSE "RECONCILING"],
                 [y EXCEPT
                    !.manual_blocked = TRUE,
                    !.unresolved     = @ \cup {e.intent},
                    !.reconciliation = "STARTED",
                    !.health         = IF @ = "PROTECTION_GAP" THEN @
                                       ELSE "RECONCILING"])
  BY <1>2 DEF SameLedger, SameOrderLedger, State
<1>5. QED
  BY <1>3, <1>4
  DEF OnManualInterventionRequired, OnBrokerStateUnknown, x, y

\* require_manual_intervention blocks in memory before its event is durable;
\* the event then says the same of the log.
LEMMA RequireManualOk ==
  ASSUME NEW w \in Worlds, Durable(w), CrashesOk(w),
         UnresolvedBlocks(w.mem), FilledIsGuarded(w.mem),
         w.mem.health \in {"NORMAL", "RECONCILING", "MANUAL_BLOCKED",
                           "PROTECTION_GAP"},
         SameLedger(w.mem, w.replayed), NEW i \in Intents, NEW saves
  PROVE  WorldOk(RequireManual(w, i, saves))
<1> DEFINE m == [w.mem EXCEPT
                   !.manual_blocked = TRUE,
                   !.unresolved     = @ \cup {i},
                   !.health         = IF @ = "PROTECTION_GAP" THEN @
                                      ELSE "MANUAL_BLOCKED"]
           v == [w EXCEPT !.mem = m]
           e == Ev("MANUAL_INTERVENTION_REQUIRED", i)
<1>1. w.mem \in State /\ m \in State /\ w.replayed \in State
  BY DEF Worlds, State, Healths
<1>2. Sound(m)
  BY <1>1
  DEF Sound, State, UnresolvedBlocks, HealthNamesReason, FilledIsGuarded, Intents
<1>3. /\ v \in Worlds /\ v.mem = m /\ v.replayed = w.replayed
      /\ v.claims = w.claims /\ Durable(v) /\ CrashesOk(v)
  BY <1>1, MemoryOnly
<1>4. Plain(e) /\ e.type = "MANUAL_INTERVENTION_REQUIRED" /\ e.intent = i
  BY EvType, EvPlain DEF EventTypes
<1>5. RequireManual(w, i, saves) = Emit(v, e, saves)
  BY DEF RequireManual, Worlds
<1>6. Apply(m, e) = OnManualInterventionRequired(m, e)
  BY <1>4 DEF Apply
<1>7. Apply(w.mem, e) = OnManualInterventionRequired(w.mem, e)
  BY <1>4 DEF Apply
<1>8. SameLedger(Apply(m, e), Apply(w.mem, e))
  <2>1. /\ m.orders = w.mem.orders /\ m.protective = w.mem.protective
        /\ m.protection = w.mem.protection
        /\ m.reconciliation = w.mem.reconciliation
        /\ m.unresolved = w.mem.unresolved \cup {i}
    BY <1>1 DEF State
  <2> HIDE DEF m, e
  <2>2. WithStatus(m, i, "MANUAL").orders = WithStatus(w.mem, i, "MANUAL").orders
    BY <1>1, <2>1, StatusOfOrders DEF Statuses
  <2>3. QED
    BY <1>1, <1>4, <1>6, <1>7, <2>1, <2>2, ManualAgain
<1> HIDE DEF m, e, v
<1>9. e \in Event /\ Admissible(m, e) /\ Admissible(w.replayed, e)
  BY <1>4 DEF Plain, Admissible
<1>10. SameLedger(Apply(m, e), Apply(w.replayed, e))
  BY <1>1, <1>8, <1>9, ApplyLedger, SameLedgerTransitive
<1>11. Apply(m, e).health # "NORMAL" /\ Apply(w.replayed, e).health # "NORMAL"
  BY <1>2, <1>4, <1>9, ApplyHalt DEF Durable
<1>12. Agrees(Apply(m, e), Apply(w.replayed, e))
  BY <1>10, <1>11 DEF Agrees, SameHalt
<1>13. QED
  BY <1>2, <1>3, <1>4, <1>5, <1>9, <1>12, EmitCloses

LEMMA RequireManualLive ==
  ASSUME NEW w, WorldOk(w), NEW i \in Intents, NEW saves
  PROVE  WorldOk(RequireManual(w, i, saves))
  BY RequireManualOk DEF WorldOk, Live, Agrees, Sound, HealthNamesReason

LEMMA StartReconciliationOk ==
  ASSUME NEW w, WorldOk(w), NEW saves
  PROVE  WorldOk(Emit(w, ReconEv("RECONCILIATION_STARTED"), saves))
<1>1. Plain(ReconEv("RECONCILIATION_STARTED"))
  BY ReconEvType DEF Plain, EventTypes
<1>2. QED
  BY <1>1, EmitPlain

LEMMA ResolveReconciliationOk ==
  ASSUME NEW w, WorldOk(w), NEW saves,
         w.mem.reconciliation = "STARTED", w.mem.unresolved = {}
  PROVE  WorldOk(Emit(w, ReconEv("RECONCILIATION_RESOLVED"), saves))
<1>1. /\ ReconEv("RECONCILIATION_RESOLVED") \in Event
      /\ ReconEv("RECONCILIATION_RESOLVED").type = "RECONCILIATION_RESOLVED"
  BY ReconEvType DEF EventTypes
<1>2. QED
  BY <1>1, EmitOk DEF Admissible

\* The claim precedes the request in the log.
LEMMA RequestOk ==
  ASSUME NEW w, WorldOk(w), NEW i \in Intents, NEW env, NEW saves
  PROVE  WorldOk(Request(w, i, env, saves))
<1> DEFINE e == Ev("BROKER_SUBMISSION_REQUESTED", i)
<1>1. e \in Event /\ e.type = "BROKER_SUBMISSION_REQUESTED" /\ e.intent = i
  BY EvType DEF EventTypes
<1> HIDE DEF e
<1>2. WorldOk(Claim(w, i)) /\ i \in Claim(w, i).claims
  BY ClaimOk
<1>3. WorldOk(Emit(Claim(w, i), e, saves))
  BY <1>1, <1>2, EmitOk DEF Admissible
<1>4. QED
  BY <1>2, <1>3 DEF Request, e

-----------------------------------------------------------------------------
(* Broker facts.                                                           *)

\* record_broker_submit_result blocks in memory before BROKER_STATE_UNKNOWN is
\* durable; the event closes the gap.
LEMMA RecordUnknownOk ==
  ASSUME NEW w, WorldOk(w), NEW i \in Intents, Exists(w.mem, i), NEW saves
  PROVE  WorldOk(RecordUnknown(w, i, saves))
<1> DEFINE m == [w.mem EXCEPT
                   !.orders[i].status = "MANUAL",
                   !.manual_blocked   = TRUE,
                   !.unresolved       = @ \cup {i},
                   !.health           = IF @ = "PROTECTION_GAP" THEN @
                                        ELSE "MANUAL_BLOCKED"]
           v == [w EXCEPT !.mem = m]
           e == Ev("BROKER_STATE_UNKNOWN", i)
<1>1. /\ w \in Worlds /\ w.mem \in State /\ w.replayed \in State
      /\ Sound(w.mem) /\ SameLedger(w.mem, w.replayed)
  BY DEF WorldOk, Live, Agrees, Worlds
<1>2. m \in State
  <2>1. [w.mem.orders[i] EXCEPT !.status = "MANUAL"] \in Order
    BY <1>1 DEF State, Order, Statuses
  <2>2. [w.mem.orders EXCEPT ![i].status = "MANUAL"] \in [Intents -> Order]
    BY <1>1, <2>1 DEF State
  <2>3. (IF w.mem.health = "PROTECTION_GAP" THEN w.mem.health
         ELSE "MANUAL_BLOCKED") \in Healths
    BY DEF Healths
  <2>4. w.mem.unresolved \cup {i} \in SUBSET Intents
    BY <1>1 DEF State
  <2>5. QED
    BY <1>1, <2>2, <2>3, <2>4 DEF State
<1>3. /\ m.protective = w.mem.protective /\ m.protection = w.mem.protection
      /\ m.reconciliation = w.mem.reconciliation
      /\ m.unresolved = w.mem.unresolved \cup {i} /\ m.manual_blocked
      /\ m.health = IF w.mem.health = "PROTECTION_GAP" THEN "PROTECTION_GAP"
                    ELSE "MANUAL_BLOCKED"
      /\ \A j \in Intents :
           /\ m.orders[j].status = IF j = i THEN "MANUAL" ELSE w.mem.orders[j].status
           /\ m.orders[j].filled = w.mem.orders[j].filled
      /\ m.orders = [w.mem.orders EXCEPT ![i].status = "MANUAL"]
  BY <1>1 DEF State, Order
<1>4. RecordUnknown(w, i, saves)
        = Emit(Emit(v, e, saves), ReconEv("RECONCILIATION_STARTED"), saves)
  BY DEF RecordUnknown, WorldOk, Worlds
<1>5. /\ v \in Worlds /\ v.mem = m /\ v.replayed = w.replayed
      /\ v.claims = w.claims /\ Durable(v) /\ CrashesOk(v)
  BY <1>1, <1>2, MemoryOnly DEF WorldOk
<1> HIDE DEF m, v
<1>6. Sound(m)
  BY <1>1, <1>2, <1>3
  DEF Sound, UnresolvedBlocks, HealthNamesReason, FilledIsGuarded, Intents
<1>7. Plain(e) /\ e.type = "BROKER_STATE_UNKNOWN" /\ e.intent = i
  BY EvType, EvPlain DEF EventTypes
<1> HIDE DEF e
<1>8. /\ Apply(m, e) = OnBrokerStateUnknown(m, e)
      /\ Apply(w.mem, e) = OnBrokerStateUnknown(w.mem, e)
  BY <1>7 DEF Apply
<1>9. WithStatus(m, i, "MANUAL").orders = WithStatus(w.mem, i, "MANUAL").orders
  <2>1. Exists(m, i)
    BY <1>3 DEF Exists
  <2>2. WithStatus(w.mem, i, "MANUAL").orders
          = [w.mem.orders EXCEPT ![i].status = "MANUAL"]
    BY <1>1 DEF WithStatus, UpdateOrder, State
  <2>3. WithStatus(m, i, "MANUAL").orders
          = [m.orders EXCEPT ![i] = [m.orders[i] EXCEPT !.status = "MANUAL"]]
    BY <1>2, <2>1 DEF WithStatus, UpdateOrder, State
  <2>4. m.orders[i] = [w.mem.orders[i] EXCEPT !.status = "MANUAL"]
    BY <1>1, <1>3 DEF State
  <2>5. w.mem.orders[i] \in Order /\ w.mem.orders \in [Intents -> Order]
    BY <1>1 DEF State
  <2>6. [m.orders[i] EXCEPT !.status = "MANUAL"] = m.orders[i]
    BY <2>4, <2>5 DEF Order
  <2>7. [m.orders EXCEPT ![i] = m.orders[i]] = m.orders
    BY <1>2 DEF State
  <2>8. QED
    BY <1>3, <2>2, <2>3, <2>6, <2>7
<1>10. SameLedger(Apply(m, e), Apply(w.mem, e))
  BY <1>1, <1>2, <1>3, <1>7, <1>8, <1>9, ManualAgain
<1>11. e \in Event /\ Admissible(m, e) /\ Admissible(w.replayed, e)
  BY <1>7 DEF Plain, Admissible
<1>12. SameLedger(Apply(m, e), Apply(w.replayed, e))
  BY <1>1, <1>10, <1>11, ApplyLedger, SameLedgerTransitive
<1>13. Apply(m, e).reconciliation = "STARTED"
  BY <1>6, <1>7, <1>11, ApplyHalt
<1>14. Agrees(Apply(m, e), Apply(w.replayed, e))
  BY <1>12, <1>13 DEF Agrees, SameHalt
<1>15. WorldOk(Emit(v, e, saves))
  BY <1>5, <1>6, <1>7, <1>11, <1>14, EmitCloses
<1>16. QED
  BY <1>4, <1>15, StartReconciliationOk

LEMMA RecordFillOk ==
  ASSUME NEW w, WorldOk(w), NEW i \in Intents, NEW fact, fact.qty \in Nat,
         NEW saves
  PROVE  WorldOk(RecordFill(w, i, fact, saves))
<1> DEFINE acked == Emit(w, Ev("BROKER_ACKNOWLEDGED", i), saves)
           type  == IF fact.state = "FILLED" THEN "FILL_RECEIVED"
                    ELSE "PARTIAL_FILL_RECEIVED"
<1>1. WorldOk(acked)
  BY EvPlain, EmitPlain DEF EventTypes
<1>2. Plain(Fill(i, fact.qty, type))
  BY FillPlain
<1> HIDE DEF acked, type
<1>3. WorldOk(Emit(acked, Fill(i, fact.qty, type), saves))
  BY <1>1, <1>2, EmitPlain
<1>4. WorldOk(Emit(RequireManual(acked, i, saves),
                   ReconEv("RECONCILIATION_STARTED"), saves))
  BY <1>1, RequireManualLive, StartReconciliationOk
<1>5. QED
  BY <1>1, <1>3, <1>4 DEF RecordFill, acked, type

LEMMA RecordFactOk ==
  ASSUME NEW w, WorldOk(w), NEW i \in Intents, NEW fact \in Facts(i), NEW saves,
         fact.state = "UNKNOWN" => Exists(w.mem, i)
  PROVE  WorldOk(RecordFact(w, i, fact, saves))
<1>1. fact.qty \in Nat /\ fact.state \in FactStates
  BY IntentsAssumption DEF Facts, FactStates, FillStates
<1>2. WorldOk(Emit(w, Ev("BROKER_ACKNOWLEDGED", i), saves))
  BY EvPlain, EmitPlain DEF EventTypes
<1>3. WorldOk(Emit(w, Ev("ORDER_REJECTED", i), saves))
  BY EvPlain, EmitPlain DEF EventTypes
<1>4. WorldOk(Emit(w, Ev("LOCAL_SUBMISSION_FAILED", i), saves))
  BY EvPlain, EmitPlain DEF EventTypes
<1>5. WorldOk(RecordFill(w, i, fact, saves))
  BY <1>1, RecordFillOk
<1>6. fact.state = "UNKNOWN" => WorldOk(RecordUnknown(w, i, saves))
  BY RecordUnknownOk
<1>7. WorldOk(RequireManual(w, i, saves))
  BY RequireManualLive
<1>8. QED
  BY <1>1, <1>2, <1>3, <1>4, <1>5, <1>6, <1>7 DEF RecordFact, FactStates, FillStates

-----------------------------------------------------------------------------
(* reconcile_broker_state.                                                 *)

LEMMA ReconciledType ==
  ASSUME NEW s \in State, NEW races \in SUBSET Intents, NEW lost \in SUBSET Intents
  PROVE  Reconciled(s, races, lost) \in State
<1>1. \A i \in Intents :
        (IF i \in races THEN [s.orders[i] EXCEPT !.status = "ACKNOWLEDGED"]
         ELSE IF i \in lost THEN [s.orders[i] EXCEPT !.status = "MANUAL"]
         ELSE s.orders[i]) \in Order
  BY DEF State, Order, Statuses
<1>2. QED
  BY <1>1 DEF Reconciled, State, Healths

LEMMA ReconciledSound ==
  ASSUME NEW s, Sound(s), NEW races \in SUBSET Intents, NEW lost \in SUBSET Intents
  PROVE  Sound(Reconciled(s, races, lost))
<1> DEFINE r == Reconciled(s, races, lost)
<1>1. s \in State /\ r \in State
  BY ReconciledType DEF Sound
<1>2. /\ r.unresolved = (s.unresolved \ races) \cup lost
      /\ r.manual_blocked = IF lost # {} THEN TRUE
                            ELSE IF races # {}
                            THEN s.manual_blocked /\ r.unresolved # {}
                            ELSE s.manual_blocked
      /\ r.health = IF lost # {} THEN "MANUAL_BLOCKED" ELSE "RECONCILING"
      /\ r.protection = s.protection
      /\ \A i \in Intents :
           /\ r.orders[i].filled = s.orders[i].filled
           /\ r.orders[i].status = IF i \in races THEN "ACKNOWLEDGED"
                                   ELSE IF i \in lost THEN "MANUAL"
                                   ELSE s.orders[i].status
  <2>1. /\ r.unresolved = (s.unresolved \ races) \cup lost
        /\ r.health = IF lost # {} THEN "MANUAL_BLOCKED" ELSE "RECONCILING"
        /\ r.protection = s.protection
    BY <1>1 DEF Reconciled, State
  <2>2. r.manual_blocked = IF lost # {} THEN TRUE
                           ELSE IF races # {}
                           THEN s.manual_blocked /\ r.unresolved # {}
                           ELSE s.manual_blocked
    BY <1>1 DEF Reconciled, State
  <2>3. \A i \in Intents :
           /\ r.orders[i].filled = s.orders[i].filled
           /\ r.orders[i].status = IF i \in races THEN "ACKNOWLEDGED"
                                   ELSE IF i \in lost THEN "MANUAL"
                                   ELSE s.orders[i].status
    <3>1. ASSUME NEW i \in Intents
          PROVE  r.orders[i] = IF i \in races
                               THEN [s.orders[i] EXCEPT !.status = "ACKNOWLEDGED"]
                               ELSE IF i \in lost
                               THEN [s.orders[i] EXCEPT !.status = "MANUAL"]
                               ELSE s.orders[i]
      BY <1>1 DEF Reconciled, State
    <3>2. \A i \in Intents : s.orders[i] \in Order
      BY <1>1 DEF State
    <3> HIDE DEF r
    <3>3. QED
      BY <3>1, <3>2 DEF Order
  <2>4. QED
    BY <2>1, <2>2, <2>3
<1> HIDE DEF r
<1>3. UnresolvedBlocks(r)
  BY <1>2 DEF Sound, UnresolvedBlocks
<1>4. HealthNamesReason(r)
  BY <1>2 DEF HealthNamesReason
<1>5. FilledIsGuarded(r)
  BY <1>2 DEF Sound, FilledIsGuarded, Intents
<1>6. QED
  BY <1>1, <1>3, <1>4, <1>5 DEF Sound, r

LEMMA ReconciledAgrees ==
  ASSUME NEW s \in State, NEW t \in State, SameLedger(s, t),
         NEW races \in SUBSET Intents, NEW lost \in SUBSET Intents
  PROVE  Agrees(Reconciled(s, races, lost), Reconciled(t, races, lost))
<1>1. ASSUME NEW i \in Intents
      PROVE  SameOrderLedger(Reconciled(s, races, lost).orders[i],
                             Reconciled(t, races, lost).orders[i])
  BY DEF Reconciled, State, Order, SameLedger, SameOrderLedger
<1>2. QED
  BY <1>1 DEF Reconciled, Agrees, SameHalt, SameLedger, State

LEMMA IdentifiedOk ==
  ASSUME NEW s, Sound(s), NEW races \in SUBSET Intents
  PROVE  Sound(Identified(s, races)) /\ SameLedger(Identified(s, races), s)
<1> DEFINE r == Identified(s, races)
<1>1. s \in State
  BY DEF Sound
<1>2. r \in State
  <2>1. \A i \in Intents :
          (IF i \in races THEN [s.orders[i] EXCEPT !.exchange_id = TRUE]
           ELSE s.orders[i]) \in Order
    <3>1. \A o \in Order : [o EXCEPT !.exchange_id = TRUE] \in Order
      BY DEF Order
    <3>2. QED
      BY <1>1, <3>1 DEF State
  <2>2. QED
    BY <1>1, <2>1 DEF Identified, State
<1>3. /\ r.unresolved = s.unresolved /\ r.manual_blocked = s.manual_blocked
      /\ r.health = s.health /\ r.protection = s.protection
      /\ r.protective = s.protective /\ r.reconciliation = s.reconciliation
      /\ \A i \in Intents : SameOrderLedger(r.orders[i], s.orders[i])
  BY <1>1 DEF Identified, State, Order, SameOrderLedger
<1> HIDE DEF r
<1>4. SameLedger(r, s)
  BY <1>3 DEF SameLedger
<1>5. UnresolvedBlocks(r) /\ HealthNamesReason(r) /\ FilledIsGuarded(r)
  BY <1>3
  DEF Sound, UnresolvedBlocks, HealthNamesReason, FilledIsGuarded, SameOrderLedger,
      Intents
<1>6. QED
  BY <1>2, <1>4, <1>5 DEF Sound, r

LEMMA AuditOk ==
  ASSUME NEW w, WorldOk(w), NEW races \in SUBSET Intents,
         NEW lost \in SUBSET Intents, NEW saves
  PROVE  WorldOk(Audit(w, races, lost, saves))
<1> DEFINE v    == Audit(w, races, lost, saves)
           live == Identified(w.mem, races)
           base == IF saves \cap {"BROKER_STATE_RECONCILED",
                                  "MANUAL_INTERVENTION_REQUIRED"} # {}
                   THEN live ELSE w.recovered
<1>1. /\ w \in Worlds /\ Sound(w.mem) /\ Sound(w.replayed) /\ Sound(w.recovered)
      /\ SameLedger(w.mem, w.replayed) /\ SameLedger(w.recovered, w.replayed)
      /\ \A i \in Intents : w.replayed.orders[i].requested => i \in w.claims
      /\ CrashesOk(w)
  BY DEF WorldOk, Durable, Live, Agrees
<1>2. Sound(live) /\ SameLedger(live, w.replayed)
  BY <1>1, IdentifiedOk, SameLedgerTransitive
<1>3. Sound(base) /\ SameLedger(base, w.replayed)
  BY <1>1, <1>2
<1>4. /\ Reconciled(live, races, lost) \in State
      /\ Reconciled(w.replayed, races, lost) \in State
      /\ Reconciled(base, races, lost) \in State
  BY <1>1, <1>2, <1>3, ReconciledType DEF Sound
<1>5. /\ v \in Worlds
      /\ v.mem = Reconciled(live, races, lost)
      /\ v.replayed = Reconciled(w.replayed, races, lost)
      /\ v.recovered = Reconciled(base, races, lost)
      /\ v.claims = w.claims /\ v.crashes = w.crashes
  BY <1>1, <1>4 DEF Audit, Worlds
<1>6. \A i \in Intents :
        Reconciled(w.replayed, races, lost).orders[i].requested
          = w.replayed.orders[i].requested
  BY <1>1 DEF Reconciled, Sound, State, Order
<1> HIDE DEF v, live, base
<1>7. Sound(v.mem) /\ Sound(v.replayed) /\ Sound(v.recovered)
  BY <1>1, <1>2, <1>3, <1>5, ReconciledSound
<1>8. Agrees(v.mem, v.replayed) /\ Agrees(v.recovered, v.replayed)
  BY <1>1, <1>2, <1>3, <1>5, ReconciledAgrees DEF Sound
<1>9. QED
  BY <1>1, <1>5, <1>6, <1>7, <1>8 DEF WorldOk, Durable, Live, CrashesOk, v

\* The crashes a run of reconciliation events may be cut short by, and the
\* health a race leaves in memory.
LEMMA ReconcileBrokerStateOk ==
  ASSUME WorldOk(World), NEW broker, NEW saves, ReconcileBrokerState(broker, saves)
  PROVE  IInv'
<1> DEFINE e     == ReconEv("RECONCILIATION_STARTED")
           w1    == Emit(World, e, saves)
           races == CancelRaces(broker)
           lost  == LostOrders(broker)
           w2    == Audited(w1, races, lost, saves)
           calm  == [w2 EXCEPT !.mem.health = "NORMAL"]
           w3    == IF races # {} THEN calm ELSE w2
           audit == Audit(w1, races, lost, saves)
           cut   == {Reloaded(Audit(w1, R, L, saves)) :
                       R \in SUBSET races, L \in SUBSET lost}
<1>1. WorldOk(w1)
  BY StartReconciliationOk
<1>2. w1.mem.reconciliation = "STARTED"
  <2>1. /\ Sound(World.mem) /\ World \in Worlds
        /\ e \in Event /\ e.type = "RECONCILIATION_STARTED"
    BY ReconEvType DEF WorldOk, Live, EventTypes
  <2>2. w1.mem = Apply(World.mem, e)
    BY <2>1 DEF Emit, Worlds
  <2>3. QED
    BY <2>1, <2>2, ApplyHalt DEF Admissible
<1>3. races \in SUBSET Intents /\ lost \in SUBSET Intents
  BY DEF CancelRaces, LostOrders
<1>4. Commit(IF lost # {} THEN w2
             ELSE IF w2.mem.unresolved # {} THEN w3
             ELSE Emit(w3, ReconEv("RECONCILIATION_RESOLVED"), saves))
  BY DEF ReconcileBrokerState
<1> HIDE DEF e, w1, races, lost
<1>5. WorldOk(audit)
  BY <1>1, <1>3, AuditOk
<1>6. audit.mem.reconciliation = "STARTED"
  <2>1. audit.mem = Reconciled(Identified(w1.mem, races), races, lost)
    BY <1>1 DEF Audit, WorldOk, Worlds
  <2>2. w1.mem \in State
    BY <1>1 DEF WorldOk, Worlds
  <2>3. QED
    BY <1>2, <2>1, <2>2 DEF Reconciled, Identified, State
<1>7. ASSUME NEW c \in cut
      PROVE  c \in Cores /\ Durable(c) /\ Live(c)
  <2>1. PICK R \in SUBSET races, L \in SUBSET lost :
          c = Reloaded(Audit(w1, R, L, saves))
    OBVIOUS
  <2>2. WorldOk(Audit(w1, R, L, saves))
    BY <1>1, <1>3, AuditOk
  <2>3. QED
    BY <2>1, <2>2, ReloadedOk DEF WorldOk
<1> HIDE DEF audit, cut
<1>8. /\ w2 \in Worlds /\ w2.mem = audit.mem
      /\ w2.replayed = audit.replayed /\ w2.recovered = audit.recovered
      /\ w2.claims = audit.claims /\ w2.crashes = audit.crashes \cup cut
  <2>1. audit \in Worlds /\ audit.crashes \cup cut \in SUBSET Cores
    BY <1>5, <1>7 DEF WorldOk, Worlds
  <2>2. w2 = [audit EXCEPT !.crashes = @ \cup cut]
    BY DEF Audited, audit, cut
  <2> HIDE DEF w2
  <2>3. QED
    BY <2>1, <2>2 DEF Worlds
<1> HIDE DEF w2
<1>9. WorldOk(w2)
  BY <1>5, <1>7, <1>8 DEF WorldOk, Durable, Live, CrashesOk
<1>10. WorldOk(calm) /\ calm.mem.reconciliation = "STARTED"
       /\ calm.mem.unresolved = w2.mem.unresolved
  <2> DEFINE m == [w2.mem EXCEPT !.health = "NORMAL"]
  <2>1. w2 \in Worlds /\ w2.mem \in State /\ w2.mem.reconciliation = "STARTED"
    BY <1>6, <1>8, <1>9 DEF Worlds
  <2>2. m \in State
    BY <2>1 DEF State, Healths
  <2>3. /\ m.orders = w2.mem.orders /\ m.protective = w2.mem.protective
        /\ m.protection = w2.mem.protection /\ m.reconciliation = "STARTED"
        /\ m.manual_blocked = w2.mem.manual_blocked
        /\ m.unresolved = w2.mem.unresolved /\ m.health = "NORMAL"
    BY <2>1 DEF State
  <2>4. calm = [w2 EXCEPT !.mem = m]
    BY <2>1 DEF Worlds
  <2> HIDE DEF m, calm
  <2>5. Sound(m)
    BY <1>9, <2>2, <2>3
    DEF WorldOk, Live, Sound, UnresolvedBlocks, HealthNamesReason, FilledIsGuarded
  <2>6. Agrees(m, w2.mem)
    BY <2>1, <2>3 DEF Agrees, SameHalt, SameLedger, SameOrderLedger
  <2>7. Agrees(m, w2.replayed)
    BY <1>9, <2>6, AgreesTransitive DEF WorldOk, Live
  <2>8. QED
    BY <1>9, <2>1, <2>2, <2>3, <2>4, <2>5, <2>7, MemoryOnly DEF WorldOk, Live
<1> HIDE DEF calm
<1>11. WorldOk(w3) /\ w3.mem.reconciliation = "STARTED"
       /\ w3.mem.unresolved = w2.mem.unresolved
  BY <1>6, <1>8, <1>9, <1>10
<1> HIDE DEF w3
<1>12. w2.mem.unresolved = {} =>
         WorldOk(Emit(w3, ReconEv("RECONCILIATION_RESOLVED"), saves))
  BY <1>11, ResolveReconciliationOk
<1>13. QED
  BY <1>4, <1>9, <1>11, <1>12, CommitOk

-----------------------------------------------------------------------------
(* The commands that write several events.                                 *)

LEMMA NoDecisionIsDecision ==
  ASSUME NEW d \in RiskDecisions \cup {NoDecision}
  PROVE  d \in RiskDecision
  BY LifecycleAssumption, NoDecisionType

LEMMA SubmissionPlain ==
  ASSUME NEW o \in Order, NEW i \in Intents, NEW env \in Envs,
         NEW has_id \in BOOLEAN
  PROVE  Plain(Submission(o, i, env, has_id))
<1>1. /\ (IF i \in Sells THEN Size[i] ELSE 0) \in Nat
      /\ (IF o.authorized > 0 THEN o.authorized ELSE env.free) \in Nat
  BY IntentsAssumption, LifecycleAssumption DEF Order, Env
<1>2. /\ Submission(o, i, env, has_id) \in Event
      /\ Submission(o, i, env, has_id).type = "ORDER_SUBMITTED"
  BY <1>1, NoDecisionType DEF Submission, Ev, Event, EventTypes
<1>3. QED
  BY <1>2 DEF Plain

LEMMA SubmitOrderOk ==
  ASSUME WorldOk(World), NEW i \in Intents, NEW env \in Envs,
         NEW has_id \in BOOLEAN, NEW saves, SubmitOrder(i, env, has_id, saves)
  PROVE  IInv'
<1> DEFINE o == mem.orders[i]
           w == IF NeedsRequest(o) THEN Request(World, i, env, saves) ELSE World
           e == Submission(o, i, env, has_id)
<1>1. o \in Order
  BY DEF WorldOk, Worlds, World, State
<1>2. WorldOk(w)
  BY RequestOk
<1>3. Plain(e)
  BY <1>1, SubmissionPlain
<1>4. Commit(IF /\ ~NeedsRequest(w.mem.orders[i]) /\ Recordable(o, i, env)
                /\ ReservationAccepts(rows, e)
             THEN Emit(w, e, saves) ELSE w)
  BY DEF SubmitOrder
<1> HIDE DEF w, e, o
<1>5. WorldOk(Emit(w, e, saves))
  BY <1>2, <1>3, EmitPlain
<1>6. QED
  BY <1>2, <1>4, <1>5, CommitOk

LEMMA EmergencyReduceOk ==
  ASSUME WorldOk(World), NEW i \in Intents, NEW env, NEW effect, NEW saves,
         EmergencyReduce(i, env, effect, saves)
  PROVE  IInv'
<1> DEFINE c == Emit(World, Ev("ORDER_INTENT_CREATED", i), saves)
           w == Approve(c, i, EmergencyDecision, saves)
           a == Emit(w, Authorization(i), saves)
<1>1. WorldOk(c)
  BY EvPlain, EmitPlain DEF EventTypes
<1>2. EmergencyDecision \in RiskDecision
  BY DEF EmergencyDecision, RiskDecision, Evidence
<1>3. WorldOk(w)
  BY <1>1, <1>2, ApproveOk
<1>4. WorldOk(a)
  BY <1>3, AuthorizationPlain, EmitPlain
<1>5. WorldOk(Request(a, i, env, saves))
  BY <1>4, RequestOk
<1>6. Commit(IF Authorizable(w.mem, i, env, effect)
             THEN Request(a, i, env, saves) ELSE w)
  BY DEF EmergencyReduce
<1> HIDE DEF c, w, a
<1>7. QED
  BY <1>3, <1>5, <1>6, CommitOk

\* A fill without a trigger writes PROTECTION_GAP in memory alone.
LEMMA ReceiveFillOk ==
  ASSUME WorldOk(World), NEW i \in Intents, NEW n \in Nat, NEW trigger, NEW saves,
         ReceiveFill(i, n, trigger, saves)
  PROVE  IInv'
<1> DEFINE e == Fill(i, n, IF n = Remaining(mem.orders[i], i) THEN "FILL_RECEIVED"
                           ELSE "PARTIAL_FILL_RECEIVED")
           w == Emit(World, e, saves)
           m == [w.mem EXCEPT !.health = "PROTECTION_GAP"]
           v == [w EXCEPT !.mem.health = "PROTECTION_GAP"]
<1>1. WorldOk(w)
  BY FillPlain, EmitPlain
<1>2. Commit(IF i \in Buys /\ ~trigger THEN RequireManual(v, i, saves) ELSE w)
  BY DEF ReceiveFill
<1> HIDE DEF w
<1>3. w \in Worlds /\ w.mem \in State /\ v = [w EXCEPT !.mem = m]
  BY <1>1 DEF WorldOk, Worlds
<1>4. m \in State
  BY <1>3 DEF State, Healths
<1>5. /\ m.orders = w.mem.orders /\ m.protective = w.mem.protective
      /\ m.protection = w.mem.protection
      /\ m.reconciliation = w.mem.reconciliation
      /\ m.manual_blocked = w.mem.manual_blocked
      /\ m.unresolved = w.mem.unresolved /\ m.health = "PROTECTION_GAP"
  BY <1>3 DEF State
<1>6. /\ v \in Worlds /\ v.mem = m /\ v.replayed = w.replayed
      /\ Durable(v) /\ CrashesOk(v)
  BY <1>1, <1>3, <1>4, MemoryOnly DEF WorldOk
<1> HIDE DEF m, v
<1>7. UnresolvedBlocks(m) /\ FilledIsGuarded(m)
  BY <1>1, <1>5 DEF WorldOk, Live, Sound, UnresolvedBlocks, FilledIsGuarded
<1>8. SameLedger(m, w.replayed)
  BY <1>1, <1>5 DEF WorldOk, Live, Agrees, SameLedger
<1>9. WorldOk(RequireManual(v, i, saves))
  BY <1>5, <1>6, <1>7, <1>8, RequireManualOk
<1>10. QED
  BY <1>1, <1>2, <1>9, CommitOk

LEMMA RecordReconciledOk ==
  ASSUME WorldOk(World), NEW i \in Intents, NEW fact \in Facts(i), NEW saves,
         RecordReconciledBrokerSubmitResult(i, fact, saves)
  PROVE  IInv'
<1> DEFINE o    == mem.orders[i]
           e    == [Ev("ORDER_SUBMITTED", i) EXCEPT
                      !.exchange_id = TRUE, !.authorized = o.authorized,
                      !.qty = IF i \in Sells THEN Size[i] ELSE 0]
           live == fact.state \in FillStates \cup {"ACCEPTED"}
           w1   == IF live THEN Emit(World, e, saves) ELSE World
           w2   == RecordFact(w1, i, fact, saves)
<1>1. o.authorized \in Nat /\ (IF i \in Sells THEN Size[i] ELSE 0) \in Nat
  BY IntentsAssumption DEF WorldOk, Worlds, World, State, Order
<1>2. Plain(e)
  BY <1>1, NoDecisionType DEF Plain, Ev, Event, EventTypes
<1>3. WorldOk(w1)
  BY <1>2, EmitPlain
<1>4. fact.state # "UNKNOWN"
  BY DEF RecordReconciledBrokerSubmitResult
<1>5. WorldOk(w2)
  BY <1>3, <1>4, RecordFactOk
<1>6. Commit(IF /\ ~FillRefused(w1, i, fact)
                /\ w2.mem.unresolved = {} /\ w2.mem.reconciliation = "STARTED"
             THEN Emit(w2, ReconEv("RECONCILIATION_RESOLVED"), saves) ELSE w2)
  BY DEF RecordReconciledBrokerSubmitResult
<1> HIDE DEF w1, w2
<1>7. QED
  BY <1>5, <1>6, ResolveReconciliationOk, CommitOk

-----------------------------------------------------------------------------
(* The invariant is inductive.                                             *)

LEMMA InitIInv == Init => IInv
<1> SUFFICES ASSUME Init
             PROVE  WorldOk(World)
  BY DEF IInv
<1>1. World = [mem |-> EmptyState, replayed |-> EmptyState, recovered |-> EmptyState,
               rows |-> [i \in Intents |-> NoRow], claims |-> {}, registered |-> {},
               crashes |-> {}]
  BY DEF Init, World
<1>2. EmptyState \in State /\ Sound(EmptyState) /\ Agrees(EmptyState, EmptyState)
  BY EmptyStateType, EmptyStateSound, AgreesReflexive
<1>3. \A i \in Intents : ~EmptyState.orders[i].requested
  BY DEF EmptyState, NewOrder
<1>4. NoRow \in Row
  BY DEF NoRow, Row
<1>5. World \in Worlds
  BY <1>1, <1>2, <1>4 DEF Worlds
<1>6. QED
  BY <1>1, <1>2, <1>3, <1>5 DEF WorldOk, Durable, Live, CrashesOk

\* Commands that write one event.
LEMMA OneEventOk ==
  ASSUME NEW w, WorldOk(w), NEW e, Plain(e), NEW saves, Commit(Emit(w, e, saves))
  PROVE  IInv'
  BY EmitPlain, CommitOk

LEMMA NextIInv == IInv /\ [Next]_vars => IInv'
<1> SUFFICES ASSUME IInv, [Next]_vars
             PROVE  IInv'
  OBVIOUS
<1> USE DEF IInv
<1>1. ASSUME NEW i \in Intents, NEW env \in Envs, NEW saves,
             CreateOrderIntent(i, env, saves)
      PROVE  IInv'
  BY <1>1, RegisterOk, EvPlain, OneEventOk DEF CreateOrderIntent, EventTypes
<1>2. ASSUME NEW i \in Intents, NEW env \in Envs, NEW saves,
             RequestBrokerSubmission(i, env, saves)
      PROVE  IInv'
  BY <1>2, RequestOk, CommitOk DEF RequestBrokerSubmission
<1>3. ASSUME NEW i \in Intents, NEW env \in Envs, NEW effect, NEW saves,
             AuthorizeOrder(i, env, effect, saves)
      PROVE  IInv'
  BY <1>3, AuthorizationPlain, OneEventOk DEF AuthorizeOrder
<1>4. ASSUME NEW i \in Intents, NEW env \in Envs, NEW effect, NEW saves,
             EmergencyReduce(i, env, effect, saves)
      PROVE  IInv'
  BY <1>4, EmergencyReduceOk
<1>5. ASSUME NEW i \in Intents, NEW env \in Envs, NEW has_id \in BOOLEAN,
             NEW saves, SubmitOrder(i, env, has_id, saves)
      PROVE  IInv'
  BY <1>5, SubmitOrderOk
<1>6. ASSUME NEW i \in Intents, NEW d \in RiskDecisions \cup {NoDecision},
             NEW saves, ApproveRisk(i, d, saves)
      PROVE  IInv'
  BY <1>6, NoDecisionIsDecision, ApproveOk, CommitOk DEF ApproveRisk
<1>7. ASSUME NEW i \in Intents, NEW saves,
             \/ RecordBrokerIoStarted(i, saves) \/ AcknowledgeBroker(i, saves)
             \/ RequestCancel(i, saves) \/ RejectOrder(i, saves)
             \/ CreateProtectiveOrder(i, saves) \/ AcknowledgeProtectiveOrder(i, saves)
      PROVE  IInv'
  BY <1>7, EvPlain, OneEventOk
  DEF RecordBrokerIoStarted, AcknowledgeBroker, RequestCancel, RejectOrder,
      CreateProtectiveOrder, AcknowledgeProtectiveOrder, EventTypes
<1>8. ASSUME NEW i \in Intents, NEW evidence \in {"CANCELED", "FILLED"}, NEW saves,
             ConfirmCancel(i, evidence, saves)
      PROVE  IInv'
  <2>1. Plain([Ev("CANCEL_CONFIRMED", i) EXCEPT !.evidence = evidence])
    BY NoDecisionType DEF Plain, Ev, Event, EventTypes
  <2>2. QED
    BY <1>8, <2>1, OneEventOk DEF ConfirmCancel
<1>9. ASSUME NEW i \in Intents, NEW n \in 1..Size[i], NEW trigger, NEW saves,
             ReceiveFill(i, n, trigger, saves)
      PROVE  IInv'
  BY <1>9, IntentsAssumption, ReceiveFillOk
<1>10. ASSUME NEW i \in Intents, NEW saves, RequireManualIntervention(i, saves)
       PROVE  IInv'
  BY <1>10, RequireManualLive, CommitOk DEF RequireManualIntervention
<1>11. ASSUME NEW i \in Intents, NEW fact \in Facts(i), NEW saves,
              RecordBrokerSubmitResult(i, fact, saves)
       PROVE  IInv'
  <2>1. Exists(World.mem, i)
    BY <1>11 DEF RecordBrokerSubmitResult, World
  <2>2. QED
    BY <1>11, <2>1, RecordFactOk, CommitOk DEF RecordBrokerSubmitResult
<1>12. ASSUME NEW i \in Intents, NEW fact \in Facts(i), NEW saves,
              RecordReconciledBrokerSubmitResult(i, fact, saves)
       PROVE  IInv'
  BY <1>12, RecordReconciledOk
<1>13. ASSUME NEW saves, StartReconciliation(saves)
       PROVE  IInv'
  BY <1>13, StartReconciliationOk, CommitOk DEF StartReconciliation
<1>14. ASSUME NEW saves, ResolveReconciliation(saves)
       PROVE  IInv'
  <2>1. World.mem.reconciliation = "STARTED" /\ World.mem.unresolved = {}
    BY <1>14 DEF ResolveReconciliation, World
  <2>2. QED
    BY <1>14, <2>1, ResolveReconciliationOk, CommitOk DEF ResolveReconciliation
<1>15. ASSUME NEW broker, NEW saves, ReconcileBrokerState(broker, saves)
       PROVE  IInv'
  BY <1>15, ReconcileBrokerStateOk
<1>16. CASE CrashRestart
  <2> DEFINE w == [World EXCEPT !.crashes = {Reloaded(World)}]
  <2>1. Reloaded(World) \in Cores /\ Durable(Reloaded(World)) /\ Live(Reloaded(World))
    BY ReloadedOk DEF WorldOk
  <2>2. /\ w \in Worlds /\ w.mem = World.mem /\ w.replayed = World.replayed
        /\ w.recovered = World.recovered /\ w.claims = World.claims
        /\ w.crashes = {Reloaded(World)}
    BY <2>1 DEF WorldOk, Worlds
  <2> HIDE DEF w
  <2>3. WorldOk(w)
    BY <2>1, <2>2 DEF WorldOk, Durable, Live, CrashesOk
  <2>4. Commit(w)
    BY <1>16, <2>2 DEF CrashRestart, Commit
  <2>5. QED
    BY <2>3, <2>4, CommitOk
<1>17. CASE UNCHANGED vars
  BY <1>17 DEF vars, World
<1>18. QED
  <2>1. ASSUME NEW i \in Intents, NEW env \in Envs, NEW saves,
               OrderCommand(i, env, saves)
        PROVE  IInv'
    BY <1>1, <1>2, <1>3, <1>4, <1>5, <2>1 DEF OrderCommand
  <2>2. ASSUME NEW i \in Intents, NEW saves, FeedbackCommand(i, saves)
        PROVE  IInv'
    BY <1>6, <1>7, <1>8, <1>9, <1>10, <1>11, <1>12, <2>2 DEF FeedbackCommand
  <2>3. ASSUME NEW i \in Buys, NEW saves, ProtectionCommand(i, saves)
        PROVE  IInv'
    BY <1>7, <2>3 DEF ProtectionCommand, Intents
  <2>4. ASSUME NEW saves, ReconciliationCommand(saves)
        PROVE  IInv'
    BY <1>13, <1>14, <1>15, <2>4 DEF ReconciliationCommand
  <2>5. QED
    BY <1>16, <1>17, <2>1, <2>2, <2>3, <2>4 DEF Next

LEMMA InvariantHolds == Spec => []IInv
  BY InitIInv, NextIInv, PTL DEF Spec

-----------------------------------------------------------------------------
(* What the invariant gives.                                               *)

\* What the world says of the variables.
LEMMA WorldOfVariables ==
  ASSUME IInv
  PROVE  /\ World \in Worlds /\ Durable(World) /\ Live(World)
         /\ World.mem = mem /\ World.replayed = replayed
         /\ World.recovered = recovered /\ World.rows = rows
         /\ World.claims = claims /\ World.registered = registered
  BY DEF IInv, WorldOk, World

\* Every state of the aggregate, running, replayed or recovered, and every row
\* of the store's lock table is one the code can represent.
THEOREM LifecycleTypeCorrect == Spec => []TypeOK
<1>1. IInv => TypeOK
  BY WorldOfVariables DEF TypeOK, Worlds
<1>2. QED
  BY <1>1, InvariantHolds, PTL

\* Wherever the process dies and whatever was snapshotted, load() rebuilds the
\* ledger that the log replays to, and the running process holds the same one.
THEOREM RecoveryIsExact == Spec => []LedgerIsReplay
<1>1. IInv => LedgerIsReplay
  BY WorldOfVariables DEF LedgerIsReplay, Durable, Live, Agrees
<1>2. QED
  BY <1>1, InvariantHolds, PTL

\* A restart neither lifts nor invents a halt (load() against the health that
\* commands write in memory).
THEOREM HaltsSurvive == Spec => []HaltSurvivesRestart
<1>1. ASSUME NEW s, NEW t, Sound(s), Sound(t), Agrees(s, t)
      PROVE  Halted(s) <=> Halted(t)
  <2>1. s.health \in {"NORMAL", "RECONCILING", "MANUAL_BLOCKED", "PROTECTION_GAP"}
        /\ t.health \in {"NORMAL", "RECONCILING", "MANUAL_BLOCKED", "PROTECTION_GAP"}
    BY <1>1 DEF Sound, HealthNamesReason
  <2>2. QED
    BY <1>1, <2>1 DEF Halted, Agrees, SameHalt, SameLedger
<1>2. IInv => HaltSurvivesRestart
  <2> SUFFICES ASSUME IInv
               PROVE  HaltSurvivesRestart
    OBVIOUS
  <2>1. /\ Sound(mem) /\ Sound(replayed) /\ Sound(recovered)
        /\ Agrees(mem, replayed) /\ Agrees(recovered, replayed)
    BY WorldOfVariables DEF Durable, Live
  <2>2. QED
    BY <1>1, <2>1 DEF HaltSurvivesRestart
<1>3. QED
  BY <1>2, InvariantHolds, PTL

\* The manual block holds exactly while an intent is unresolved, and no order
\* stays in MANUAL once its intent is resolved.
THEOREM ManualBlocks == Spec => []ManualIsUnresolved
<1>1. IInv => ManualIsUnresolved
  BY WorldOfVariables DEF ManualIsUnresolved, Live, Sound, UnresolvedBlocks
<1>2. QED
  BY <1>1, InvariantHolds, PTL

\* No submission is requested without the claim that excludes other callers.
THEOREM RequestsAreClaimed == Spec => []RequestedIsClaimed
<1>1. IInv => RequestedIsClaimed
  BY WorldOfVariables DEF RequestedIsClaimed, Durable
<1>2. QED
  BY <1>1, InvariantHolds, PTL

\* While a bought quantity is unprotected no entry passes the revalidation of
\* request_broker_submission, whatever the callables answer.
THEOREM UnprotectedBlocks == Spec => []UnprotectedPositionBlocksEntry
<1>1. ASSUME NEW c, c.side = "buy", c.effect = "INCREASE", c.protection_required
      PROVE  Blocked(c)
  BY <1>1
  DEF Blocked, EvaluateOrderPermission, Result, Degraded, SafeReduce, GapControl
<1>2. ASSUME IInv, NEW i \in Buys, mem.orders[i].filled > 0,
             mem.protection[i] # "PROTECTED", NEW j \in Buys, NEW env \in Envs
      PROVE  ~SubmissionAllowed(mem, j, env)
  <2> DEFINE c == [BaseContext(mem, j, env) EXCEPT
                     !.risk = mem.orders[j].risk, !.require_price = TRUE,
                     !.enforce_inventory = TRUE, !.draft = FALSE]
  <2>1. mem \in State /\ FilledIsGuarded(mem)
    BY <1>2, WorldOfVariables DEF Live, Sound
  <2>2. mem.protection[i] = "PROTECTION_REQUIRED"
    BY <1>2, <2>1 DEF FilledIsGuarded, State, Intents
  <2>3. j \notin Sells
    BY IntentsAssumption
  <2>4. c.side = "buy" /\ c.effect = "INCREASE" /\ c.protection_required
    BY <2>2, <2>3 DEF BaseContext, Side, DetermineExposureEffect, Intents
  <2>5. QED
    BY <1>1, <2>4 DEF SubmissionAllowed
<1>3. IInv => UnprotectedPositionBlocksEntry
  BY <1>2 DEF UnprotectedPositionBlocksEntry
<1>4. QED
  BY <1>3, InvariantHolds, PTL
=============================================================================
