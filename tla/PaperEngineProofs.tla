-------------------------- MODULE PaperEngineProofs --------------------------
(***************************************************************************)
(* The engine on its paper venue never books what the venue did not do,    *)
(* lets no exit out beside a stop it believes working, and no entry while  *)
(* an earlier one has no stop: for every set of entries, exits and stops,  *)
(* every size, any number of attempts and of deaths.                       *)
(*                                                                         *)
(* The argument: lifecycle and venue are compared in every world a death   *)
(* inside a call may leave (Safe), and every such world is compared with   *)
(* the state the call began in (StepOk).                                   *)
(***************************************************************************)
EXTENDS PaperEngine, LifecycleStateProofs

-----------------------------------------------------------------------------
(* The invariant                                                           *)

\* What the lifecycle's state s says of i is true of the venue, only an order
\* that reached the venue has inventory reserved, and nothing is said of an order
\* that does not exist.
OrderOk(s, i, v) ==
  LET o == s.orders[i] IN
  /\ o.filled > 0 => v = "filled" /\ Exists(s, i)
  /\ o.status = "REJECTED" => v = "rejected"
  /\ o.status = "CANCELED" => v \in {"canceled", "rejected"}
  /\ o.reserved > 0 => v # "none" /\ Exists(s, i)
  /\ o.exchange_id => Exists(s, i)

\* The stops the lifecycle knows.  Each attempt placed at most one of them.
Laid(s) == {t \in Stops : Exists(s, t)}

Numbered(s) ==
  /\ \A t \in Laid(s) : t[1] =< Cardinality(Laid(s))
  /\ \A t, u \in Laid(s) : t[1] = u[1] => t = u

\* There is a stop the venue accepted for each booked entry that no longer
\* waits for one.
Served(s) == {b \in Buys : s.orders[b].filled > 0
                           /\ s.protection[b] # "PROTECTION_REQUIRED"}

Identified(s) == {t \in Stops : s.orders[t].exchange_id}

Counted(s) == Cardinality(Served(s)) =< Cardinality(Identified(s))

Safe(w) ==
  /\ \A i \in Intents : OrderOk(w.mem, i, w.venue[i])
  /\ Numbered(w.mem) /\ Counted(w.mem)

IInv == TypeOK /\ Safe(World)

-----------------------------------------------------------------------------
(* A world that a call may leave, against the state the call began in.     *)

\* An entry may be sent.
EntryDue ==
  /\ ~mem.manual_blocked
  /\ Cardinality({b \in Buys : mem.orders[b].filled > 0}) =<
       Cardinality(Identified(mem))

\* Nothing the lifecycle believes working can still fire.
Quiet(w, s) == Recorded(w, s) => w.venue[s] # "open"
Yields(w)   == \A s \in Stops : Quiet(w, s)

\* r arouses no stop that was quiet in w.
NoLouder(w, r) == \A s \in Stops : Quiet(w, s) => Quiet(r, s)

BuysKept(w)  == \A b \in Buys : w.venue[b] = venue[b]
ExitsKept(w) == \A x \in Exits : w.venue[x] = venue[x]

StepOk(w) == (BuysKept(w) \/ EntryDue) /\ (ExitsKept(w) \/ Yields(w))

Venues == [Intents -> {"none", "open", "filled", "canceled", "rejected"}]

Cores ==
  [mem : State, venue : Venues, held : Nat, crashes : {{}},
   canceled : SUBSET Stops, refused : BOOLEAN]

Worlds ==
  [mem : State, venue : Venues, held : Nat, crashes : SUBSET Cores,
   canceled : SUBSET Stops, refused : BOOLEAN]

Good(w) ==
  /\ w \in Worlds /\ Safe(w) /\ StepOk(w)
  /\ \A c \in w.crashes : Safe(c) /\ StepOk(c)

\* Nothing was entered, sold or placed yet.
Calm(w) == Good(w) /\ BuysKept(w) /\ ExitsKept(w) /\ Laid(w.mem) = Laid(mem)

\* r and w differ in the lifecycle alone.
Beside(w, r) ==
  /\ r.venue = w.venue /\ r.held = w.held
  /\ r.canceled = w.canceled /\ r.refused = w.refused

\* r and w agree in everything that is compared.
SameBooks(w, r) == r.mem = w.mem /\ r.venue = w.venue

-----------------------------------------------------------------------------
(* Types                                                                   *)

LEMMA KindsType ==
  /\ Stops \subseteq Sells /\ Exits \subseteq Sells /\ Stops \cap Exits = {}
  /\ Sells = Stops \cup Exits /\ Buys \cap Sells = {}
  /\ Intents = Buys \cup Exits \cup Stops /\ Attempts \in Nat
  BY IntentsAssumption, PaperAssumption DEF Exits, Stops, Intents

LEMMA IntentType ==
  ASSUME NEW i \in Intents
  PROVE  Size[i] \in Nat /\ Size[i] > 0
  BY IntentsAssumption

LEMMA StopType ==
  ASSUME NEW s \in Stops
  PROVE  /\ s \in Intents /\ s \in Sells /\ s \notin Buys /\ s \notin Exits
         /\ s[1] \in 1 .. Attempts /\ s[2] = Size[s] /\ s = <<s[1], s[2]>>
  BY KindsType, PaperAssumption DEF Intents

LEMMA SetsFinite == IsFiniteSet(Stops) /\ IsFiniteSet(Buys)
  BY KindsType, FiniteAssumption, FS_Subset DEF Intents

LEMMA CardOfStops ==
  ASSUME NEW T, T \subseteq Stops
  PROVE  IsFiniteSet(T) /\ Cardinality(T) \in Nat
  BY SetsFinite, FS_Subset, FS_CardinalityType

LEMMA CardOfBuys ==
  ASSUME NEW B, B \subseteq Buys
  PROVE  IsFiniteSet(B) /\ Cardinality(B) \in Nat
  BY SetsFinite, FS_Subset, FS_CardinalityType

LEMMA GoodType ==
  ASSUME NEW w, Good(w)
  PROVE  /\ w \in Worlds /\ w.mem \in State /\ w.venue \in Venues /\ w.held \in Nat
         /\ w.canceled \subseteq Stops /\ w.refused \in BOOLEAN
         /\ w.crashes \subseteq Cores /\ Safe(w) /\ StepOk(w)
  BY DEF Good, Worlds

LEMMA OrderFacts ==
  ASSUME NEW w, Good(w), NEW i \in Intents
  PROVE  /\ w.mem.orders[i] \in Order /\ OrderOk(w.mem, i, w.venue[i])
         /\ w.mem.orders[i].filled \in Nat /\ w.mem.orders[i].reserved \in Nat
         /\ w.mem.orders[i].released \in Nat
         /\ w.mem.orders[i].status \in Statuses
         /\ w.venue[i] \in {"none", "open", "filled", "canceled", "rejected"}
<1>1. w.mem.orders[i] \in Order /\ w.venue[i] \in {"none", "open", "filled", "canceled", "rejected"}
  BY GoodType DEF State, Venues
<1>2. QED
  BY <1>1, GoodType DEF Order, Safe

LEMMA SameIsSafe ==
  ASSUME NEW w, NEW r, SameBooks(w, r)
  PROVE  /\ Safe(w) => Safe(r)
         /\ StepOk(w) => StepOk(r)
         /\ NoLouder(w, r) /\ (Yields(w) => Yields(r))
         /\ ExitsKept(w) => ExitsKept(r)
         /\ BuysKept(w) => BuysKept(r)
  BY DEF SameBooks, Safe, StepOk, NoLouder, Yields, Quiet, ExitsKept, BuysKept, Recorded

LEMMA WorldGood ==
  ASSUME IInv
  PROVE  Calm(World) /\ World.mem = mem /\ World.venue = venue /\ World.held = held
         /\ ~World.refused
<1>1. World \in Worlds
  BY DEF IInv, TypeOK, World, Worlds, Venues
<1>2. /\ World.crashes = {} /\ World.mem = mem /\ World.venue = venue
      /\ World.held = held /\ World.refused = FALSE
  BY DEF World
<1>3. BuysKept(World) /\ ExitsKept(World)
  BY <1>2 DEF BuysKept, ExitsKept
<1>4. QED
  BY <1>1, <1>2, <1>3 DEF IInv, Good, Calm, StepOk

LEMMA DurablyGood ==
  ASSUME NEW w, Good(w), NEW next \in Worlds, next.crashes = w.crashes,
         Safe(next), StepOk(next)
  PROVE  /\ Good(Durably(w, next)) /\ SameBooks(next, Durably(w, next))
         /\ Beside(next, Durably(w, next))
<1> DEFINE core == [w EXCEPT !.crashes = {}]
           r == Durably(w, next)
<1>1. core \in Cores /\ SameBooks(w, core)
  BY DEF Good, Worlds, Cores, SameBooks
<1>2. Safe(core) /\ StepOk(core)
  BY <1>1, SameIsSafe DEF Good
<1> HIDE DEF core
<1>3. /\ r \in Worlds /\ SameBooks(next, r) /\ Beside(next, r)
      /\ r.crashes = w.crashes \cup {core}
  BY <1>1 DEF Durably, Worlds, core, SameBooks, Beside
<1> HIDE DEF r
<1>4. Safe(r) /\ StepOk(r)
  BY <1>3, SameIsSafe
<1>5. QED
  BY <1>2, <1>3, <1>4 DEF Good, r

-----------------------------------------------------------------------------
(* Writing to the lifecycle                                                *)

BookingEvents ==
  PreparingEvents \cup
  {"ORDER_INTENT_CREATED", "ORDER_SUBMITTED", "ORDER_REJECTED",
   "BROKER_ACKNOWLEDGED", "FILL_RECEIVED", "CANCEL_REQUESTED", "CANCEL_CONFIRMED",
   "PROTECTIVE_ORDER_CREATED", "PROTECTIVE_ORDER_ACKNOWLEDGED",
   "MANUAL_INTERVENTION_REQUIRED"}

\* The name of the next stop is unused.
Unused(s, t) == t[1] = 1 + Cardinality(Laid(s))

\* When an event, about an order that the venue has at v, says no more than that.
\* An entry counts as protected after its stop was identified.
Justified(s, e, v) ==
  LET k == e.intent IN
  /\ e.type \in BookingEvents
  /\ e.type = "ORDER_INTENT_CREATED" /\ k \in Stops => Unused(s, k)
  /\ e.type = "ORDER_SUBMITTED" => v # "none" /\ e.exchange_id
  /\ e.type = "ORDER_REJECTED" => v = "rejected"
  /\ e.type = "FILL_RECEIVED" => v = "filled"
  /\ e.type = "CANCEL_CONFIRMED" =>
       v \in {"canceled", "rejected"} /\ e.evidence = "CANCELED"
  /\ e.type = "PROTECTIVE_ORDER_ACKNOWLEDGED" =>
       Cardinality(Served(s)) < Cardinality(Identified(s))

LEMMA ApplyOrderOk ==
  ASSUME NEW s \in State, NEW e \in Event, NEW v, OrderOk(s, e.intent, v),
         Justified(s, e, v)
  PROVE  OrderOk(Apply(s, e), e.intent, v)
<1> DEFINE k == e.intent
           r == Apply(s, e)
           o == s.orders[k]
           p == r.orders[k]
<1>1. /\ k \in Intents /\ o \in Order /\ r \in State /\ p \in Order /\ e.qty \in Nat
      /\ o.filled \in Nat /\ p.filled \in Nat /\ o.reserved \in Nat /\ p.reserved \in Nat
  BY ApplyType DEF Event, State, Order
<1>2. /\ o.filled > 0 => v = "filled" /\ Exists(s, k)
      /\ o.status = "REJECTED" => v = "rejected"
      /\ o.status = "CANCELED" => v \in {"canceled", "rejected"}
      /\ o.reserved > 0 => v # "none" /\ Exists(s, k)
      /\ o.exchange_id => Exists(s, k)
  BY DEF OrderOk
<1>3. SUFFICES /\ p.filled > 0 => v = "filled" /\ Exists(r, k)
               /\ p.status = "REJECTED" => v = "rejected"
               /\ p.status = "CANCELED" => v \in {"canceled", "rejected"}
               /\ p.reserved > 0 => v # "none" /\ Exists(r, k)
               /\ p.exchange_id => Exists(r, k)
  BY DEF OrderOk
<1>4. CASE e.type = "ORDER_INTENT_CREATED"
  <2>1. p = NewOrder("PENDING")
    BY <1>4, ApplyAt
  <2>2. QED
    BY <1>1, <2>1 DEF NewOrder, Exists
<1>5. CASE e.type # "ORDER_INTENT_CREATED" /\ ~Exists(s, k)
  <2>1. p = o
    BY <1>5, ApplyAt
  <2>2. QED
    BY <1>2, <1>5, <2>1
<1>6. CASE e.type # "ORDER_INTENT_CREATED" /\ Exists(s, k)
  <2>1. /\ Exists(r, k)
        /\ e.type # "ORDER_SUBMITTED" => p.reserved = o.reserved
        /\ e.type \notin FillEvents => p.filled = o.filled
    BY <1>6, ApplyAt
  <2>2. /\ e.type = "FILL_RECEIVED" => v = "filled"
        /\ e.type = "ORDER_SUBMITTED" => v # "none"
    BY DEF Justified
  <2>3. e.type # "PARTIAL_FILL_RECEIVED"
    BY DEF Justified, BookingEvents, PreparingEvents
  <2>4. p.filled > 0 => v = "filled"
    BY <1>2, <2>1, <2>2, <2>3 DEF FillEvents
  <2>5. p.reserved > 0 => v # "none"
    BY <1>2, <2>1, <2>2
  <2>6. /\ p.status = "REJECTED" => v = "rejected"
        /\ p.status = "CANCELED" => v \in {"canceled", "rejected"}
    <3>1. CASE e.type \in PreparingEvents
      BY <1>2, <1>6, <3>1, ApplyStatus DEF PreparingEvents
    <3>2. CASE e.type \in {"ORDER_SUBMITTED", "FILL_RECEIVED", "CANCEL_REQUESTED",
                           "CANCEL_CONFIRMED", "MANUAL_INTERVENTION_REQUIRED"}
      <4>1. e.type = "CANCEL_CONFIRMED" => v \in {"canceled", "rejected"}
        BY DEF Justified
      <4>2. QED
        BY <1>2, <1>6, <3>2, <4>1, ApplyStatus DEF FillEvents
    <3>3. CASE e.type \in {"ORDER_REJECTED", "BROKER_ACKNOWLEDGED"}
      <4>1. e.type = "ORDER_REJECTED" => v = "rejected"
        BY DEF Justified
      <4>2. QED
        BY <1>6, <3>3, <4>1, ApplyStatus DEF SettlingEvents, SettledStatus
    <3>4. CASE e.type \in {"PROTECTIVE_ORDER_CREATED", "PROTECTIVE_ORDER_ACKNOWLEDGED"}
      BY <1>2, <1>6, <3>4, ApplyLock
    <3>5. QED
      BY <1>6, <3>1, <3>2, <3>3, <3>4 DEF Justified, BookingEvents
  <2>7. QED
    BY <2>1, <2>4, <2>5, <2>6
<1>7. QED
  BY <1>4, <1>5, <1>6

\* Only a fill opens a gap, only an acknowledgement closes one, and only a call
\* for the operator blocks.
LEMMA ApplyProtection ==
  ASSUME NEW s \in State, NEW e \in Event, e.type \in BookingEvents, NEW r, r = Apply(s, e)
  PROVE  /\ e.type \notin {"FILL_RECEIVED", "PROTECTIVE_ORDER_ACKNOWLEDGED"} =>
              r.protection = s.protection
         /\ \A j \in Intents : j # e.intent => r.protection[j] = s.protection[j]
         /\ e.type = "FILL_RECEIVED" /\ e.intent \in Buys /\ Exists(s, e.intent) =>
              r.protection[e.intent] = "PROTECTION_REQUIRED"
         /\ e.type \in PreparingEvents \cup {"ORDER_INTENT_CREATED"} =>
              r.manual_blocked = s.manual_blocked
<1> DEFINE i == e.intent
<1>1. i \in Intents /\ s.orders[i] \in Order
  BY DEF Event, State
<1>2. CASE e.type \in PreparingEvents \cup {"ORDER_SUBMITTED"}
  BY <1>1, <1>2
  DEF PreparingEvents, Apply, OnRiskApproved, OnOrderAuthorized,
      OnBrokerSubmissionRequested, OnBrokerIoStarted, OnOrderSubmitted, UpdateOrder, State
<1>3. CASE e.type = "ORDER_INTENT_CREATED"
  BY <1>1, <1>3 DEF PreparingEvents, Apply, OnOrderIntentCreated, State
<1>4. CASE e.type \in {"ORDER_REJECTED", "BROKER_ACKNOWLEDGED", "CANCEL_REQUESTED",
                       "CANCEL_CONFIRMED", "MANUAL_INTERVENTION_REQUIRED"}
  <2>1. ASSUME NEW u \in State, NEW status
        PROVE  /\ WithStatus(u, i, status).protection = u.protection
               /\ Settled(u, i, status).protection = u.protection
    BY <1>1 DEF WithStatus, UpdateOrder, Settled, ResolveManualIntent, State
  <2>2. /\ ReleaseSellRemainder(s, i) \in State
        /\ ReleaseSellRemainder(s, i).protection = s.protection
    BY <1>1, ReleaseType DEF ReleaseSellRemainder, UpdateOrder, State
  <2>3. [WithStatus(s, i, "MANUAL") EXCEPT
           !.manual_blocked = TRUE,
           !.unresolved     = @ \cup {i},
           !.health         = IF @ = "PROTECTION_GAP" THEN @ ELSE "MANUAL_BLOCKED"].protection
          = WithStatus(s, i, "MANUAL").protection
    <3>1. WithStatus(s, i, "MANUAL") \in State
      BY <1>1, WithStatusType DEF Statuses
    <3>2. QED
      BY <3>1 DEF State
  <2>4. r.protection = s.protection
    BY <1>4, <2>1, <2>2, <2>3
    DEF Apply, OnOrderRejected, OnBrokerAcknowledged, OnCancelRequested,
        OnCancelConfirmed, OnManualInterventionRequired
  <2>5. QED
    BY <1>4, <2>4 DEF PreparingEvents
<1>5. CASE e.type \in {"FILL_RECEIVED", "PROTECTIVE_ORDER_CREATED",
                       "PROTECTIVE_ORDER_ACKNOWLEDGED"}
  BY <1>1, <1>5
  DEF PreparingEvents, Apply, ApplyFill, OnProtectiveOrderCreated,
      OnProtectiveOrderAcknowledged, State
<1>6. QED
  BY <1>2, <1>3, <1>4, <1>5 DEF BookingEvents

LEMMA ApplyLaid ==
  ASSUME NEW s \in State, NEW e \in Event
  PROVE  Laid(Apply(s, e)) =
           IF e.type = "ORDER_INTENT_CREATED" /\ e.intent \in Stops
           THEN Laid(s) \cup {e.intent} ELSE Laid(s)
<1> DEFINE r == Apply(s, e)
           k == e.intent
<1>1. \A t \in Stops : t # k => r.orders[t] = s.orders[t]
  BY StopType, ApplyElsewhere
<1>2. e.type # "ORDER_INTENT_CREATED" => (Exists(r, k) <=> Exists(s, k))
  BY ApplyAt
<1>3. e.type = "ORDER_INTENT_CREATED" => Exists(r, k)
  BY ApplyAt DEF Exists, NewOrder
<1>4. QED
  BY <1>1, <1>2, <1>3 DEF Laid, Exists

LEMMA UnusedIsNew ==
  ASSUME NEW s, Numbered(s), NEW t \in Stops, Unused(s, t)
  PROVE  t \notin Laid(s)
<1>1. Laid(s) \subseteq Stops
  BY DEF Laid
<1>2. Cardinality(Laid(s)) \in Nat
  BY <1>1, CardOfStops
<1>3. t \in Laid(s) => t[1] =< Cardinality(Laid(s))
  BY DEF Numbered
<1>4. QED
  BY <1>2, <1>3, StopType DEF Unused

LEMMA ApplyNumbered ==
  ASSUME NEW s \in State, NEW e \in Event, NEW v, Justified(s, e, v), Numbered(s)
  PROVE  Numbered(Apply(s, e))
<1> DEFINE r == Apply(s, e)
           k == e.intent
<1>1. CASE e.type = "ORDER_INTENT_CREATED" /\ k \in Stops
  <2>1. Laid(r) = Laid(s) \cup {k} /\ Unused(s, k) /\ k \notin Laid(s)
    BY <1>1, ApplyLaid, UnusedIsNew DEF Justified
  <2>2. Laid(s) \subseteq Stops
    BY DEF Laid
  <2>3. IsFiniteSet(Laid(s)) /\ Cardinality(Laid(s)) \in Nat
    BY <2>2, CardOfStops
  <2>4. Cardinality(Laid(r)) = Cardinality(Laid(s)) + 1
    BY <2>1, <2>3, FS_AddElement
  <2>5. \A t \in Laid(s) : t[1] \in Nat /\ t[1] =< Cardinality(Laid(s))
    BY <2>2, StopType DEF Numbered
  <2>6. k[1] = Cardinality(Laid(s)) + 1
    BY <2>1, <2>3 DEF Unused
  <2>7. \A t \in Laid(r) : t[1] =< Cardinality(Laid(r))
    BY <2>1, <2>3, <2>4, <2>5, <2>6
  <2>8. \A t, u \in Laid(r) : t[1] = u[1] => t = u
    BY <2>1, <2>3, <2>5, <2>6 DEF Numbered
  <2>9. QED
    BY <2>7, <2>8 DEF Numbered
<1>2. CASE ~(e.type = "ORDER_INTENT_CREATED" /\ k \in Stops)
  <2>1. Laid(r) = Laid(s)
    BY <1>2, ApplyLaid
  <2>2. QED
    BY <2>1 DEF Numbered
<1>3. QED
  BY <1>1, <1>2

LEMMA ApplyIdentified ==
  ASSUME NEW s \in State, NEW e \in Event, NEW v, Justified(s, e, v), Numbered(s),
         \A t \in Stops : s.orders[t].exchange_id => Exists(s, t)
  PROVE  /\ Identified(s) \subseteq Identified(Apply(s, e))
         /\ e.type = "ORDER_SUBMITTED" /\ e.intent \in Laid(s) =>
              e.intent \in Identified(Apply(s, e))
<1> DEFINE r == Apply(s, e)
           k == e.intent
<1>1. \A t \in Stops : t # k => r.orders[t] = s.orders[t]
  BY StopType, ApplyElsewhere
<1>2. ASSUME k \in Stops, s.orders[k].exchange_id
      PROVE  r.orders[k].exchange_id
  <2>1. Exists(s, k) /\ k \in Laid(s)
    BY <1>2 DEF Laid
  <2>2. e.type # "ORDER_INTENT_CREATED"
    BY <1>2, <2>1, UnusedIsNew DEF Justified
  <2>3. CASE e.type # "ORDER_SUBMITTED"
    BY <1>2, <2>2, <2>3, ApplyAt
  <2>4. CASE e.type = "ORDER_SUBMITTED"
    BY <2>1, <2>4, ApplyStatus DEF Justified
  <2>5. QED
    BY <2>3, <2>4
<1>3. ASSUME e.type = "ORDER_SUBMITTED", k \in Laid(s)
      PROVE  r.orders[k].exchange_id
  BY <1>3, ApplyStatus DEF Justified, Laid
<1>4. k \in Laid(s) => k \in Stops
  BY DEF Laid
<1>5. QED
  BY <1>1, <1>2, <1>3, <1>4 DEF Identified

LEMMA ApplyServed ==
  ASSUME NEW s \in State, NEW e \in Event, NEW v, Justified(s, e, v)
  PROVE  /\ e.type # "PROTECTIVE_ORDER_ACKNOWLEDGED" =>
              Served(Apply(s, e)) \subseteq Served(s)
         /\ Served(Apply(s, e)) \subseteq Served(s) \cup {e.intent}
<1> DEFINE r == Apply(s, e)
           k == e.intent
<1>1. e.type \in BookingEvents /\ e.type # "PARTIAL_FILL_RECEIVED" /\ k \in Intents
  BY DEF Justified, BookingEvents, PreparingEvents, Event
<1>2. \A b \in Buys : b # k => r.orders[b] = s.orders[b]
                               /\ r.protection[b] = s.protection[b]
  BY <1>1, ApplyElsewhere, ApplyProtection, KindsType
<1>3. ASSUME e.type # "PROTECTIVE_ORDER_ACKNOWLEDGED", k \in Buys,
             r.orders[k].filled > 0, r.protection[k] # "PROTECTION_REQUIRED"
      PROVE  s.orders[k].filled > 0 /\ s.protection[k] # "PROTECTION_REQUIRED"
  <2>1. CASE e.type = "ORDER_INTENT_CREATED"
    <3>1. r.orders[k] = NewOrder("PENDING")
      BY <2>1, ApplyAt
    <3>2. QED
      BY <1>3, <3>1 DEF NewOrder
  <2>2. CASE e.type = "FILL_RECEIVED"
    <3>1. ~Exists(s, k)
      BY <1>1, <1>3, <2>2, ApplyProtection
    <3>2. Apply(s, e) = s
      BY <2>2, <3>1 DEF Apply, ApplyFill
    <3>3. QED
      BY <1>3, <3>2
  <2>3. CASE e.type \notin {"ORDER_INTENT_CREATED", "FILL_RECEIVED"}
    <3>1. r.orders[k].filled = s.orders[k].filled
      BY <1>1, <2>3, ApplyAt DEF FillEvents
    <3>2. r.protection = s.protection
      BY <1>1, <1>3, <2>3, ApplyProtection
    <3>3. QED
      BY <1>3, <3>1, <3>2
  <2>4. QED
    BY <2>1, <2>2, <2>3
<1>4. QED
  BY <1>2, <1>3 DEF Served

LEMMA ApplyCounted ==
  ASSUME NEW s \in State, NEW e \in Event, NEW v, Justified(s, e, v), Numbered(s),
         \A t \in Stops : s.orders[t].exchange_id => Exists(s, t), Counted(s)
  PROVE  Counted(Apply(s, e))
<1> DEFINE r == Apply(s, e)
<1>1. /\ Served(r) \subseteq Buys /\ Served(s) \subseteq Buys
      /\ Identified(r) \subseteq Stops /\ Identified(s) \subseteq Stops
  BY DEF Served, Identified
<1>2. /\ IsFiniteSet(Served(s)) /\ Cardinality(Served(s)) \in Nat
      /\ IsFiniteSet(Served(r)) /\ Cardinality(Served(r)) \in Nat
      /\ IsFiniteSet(Identified(s)) /\ Cardinality(Identified(s)) \in Nat
      /\ IsFiniteSet(Identified(r)) /\ Cardinality(Identified(r)) \in Nat
  BY <1>1, CardOfBuys, CardOfStops
<1>3. Cardinality(Identified(s)) =< Cardinality(Identified(r))
  BY <1>2, ApplyIdentified, FS_Subset
<1>4. CASE e.type # "PROTECTIVE_ORDER_ACKNOWLEDGED"
  <2>1. Cardinality(Served(r)) =< Cardinality(Served(s))
    BY <1>2, <1>4, ApplyServed, FS_Subset
  <2>2. QED
    BY <1>2, <1>3, <2>1 DEF Counted
<1>5. CASE e.type = "PROTECTIVE_ORDER_ACKNOWLEDGED"
  <2> DEFINE T == Served(s) \cup {e.intent}
  <2>1. /\ IsFiniteSet(T) /\ Cardinality(T) \in Nat
        /\ Cardinality(T) =< Cardinality(Served(s)) + 1
    <3>1. /\ IsFiniteSet(T)
          /\ Cardinality(T) = IF e.intent \in Served(s) THEN Cardinality(Served(s))
                              ELSE Cardinality(Served(s)) + 1
      BY <1>2, FS_AddElement
    <3>2. QED
      BY <1>2, <3>1
  <2>2. Cardinality(Served(r)) =< Cardinality(T)
    BY <2>1, ApplyServed, FS_Subset
  <2>3. Cardinality(Served(s)) < Cardinality(Identified(s))
    BY <1>5 DEF Justified
  <2> HIDE DEF T, r
  <2>4. QED
    BY <1>2, <1>3, <2>1, <2>2, <2>3 DEF Counted, r
<1>6. QED
  BY <1>4, <1>5

\* One event.  The lock of a stop only ever grows when the stop is identified.
LEMMA ApplyYields ==
  ASSUME NEW w, Good(w), NEW e \in Event, Justified(w.mem, e, w.venue[e.intent]),
         NEW s \in Stops, w.venue[s] = "open",
         e.type = "ORDER_SUBMITTED" => e.intent # s,
         RemainingReserved(Apply(w.mem, e).orders[s]) > 0
  PROVE  RemainingReserved(w.mem.orders[s]) > 0
<1> DEFINE k == e.intent
           r == Apply(w.mem, e)
           o == w.mem.orders[s]
           p == r.orders[s]
<1>1. w.mem \in State
  BY GoodType
<1>2. CASE s # k
  <2>1. p = o
    BY <1>1, <1>2, StopType, ApplyElsewhere
  <2>2. QED
    BY <2>1
<1>3. CASE s = k
  <2>1. /\ e.type \notin {"ORDER_REJECTED", "FILL_RECEIVED", "CANCEL_CONFIRMED",
                          "ORDER_SUBMITTED", "PARTIAL_FILL_RECEIVED"}
    BY <1>3 DEF Justified, BookingEvents, PreparingEvents
  <2>2. CASE e.type = "ORDER_INTENT_CREATED"
    <3>1. p = NewOrder("PENDING")
      BY <1>1, <1>3, <2>2, ApplyAt
    <3>2. QED
      BY <3>1 DEF NewOrder, RemainingReserved, Truncated
  <2>3. CASE e.type # "ORDER_INTENT_CREATED"
    <3>1. p.reserved = o.reserved /\ p.filled = o.filled /\ p.released = o.released
      BY <1>1, <1>3, <2>1, <2>3, ApplyAt DEF FillEvents
    <3>2. QED
      BY <3>1 DEF RemainingReserved
  <2>4. QED
    BY <2>2, <2>3
<1>4. QED
  BY <1>2, <1>3

\* What a call learns from writing one event.
Logged(w, e, r) ==
  /\ Good(r) /\ Beside(w, r) /\ r.mem = Apply(w.mem, e)
  /\ (e.type = "ORDER_SUBMITTED" => e.intent \notin Stops) => NoLouder(w, r)
  /\ Laid(r.mem) = IF e.type = "ORDER_INTENT_CREATED" /\ e.intent \in Stops
                   THEN Laid(w.mem) \cup {e.intent} ELSE Laid(w.mem)
  /\ Identified(w.mem) \subseteq Identified(r.mem)
  /\ e.type # "PROTECTIVE_ORDER_ACKNOWLEDGED" => Served(r.mem) \subseteq Served(w.mem)

LEMMA LogGood ==
  ASSUME NEW w, Good(w), NEW e \in Event, Justified(w.mem, e, w.venue[e.intent]),
         e.type = "ORDER_SUBMITTED" /\ e.intent \in Stops => ExitsKept(w)
  PROVE  Logged(w, e, Log(w, e))
<1> DEFINE next == [w EXCEPT !.mem = Apply(@, e)]
           k == e.intent
<1>1. /\ w \in Worlds /\ w.mem \in State /\ w.venue \in Venues /\ Safe(w)
      /\ StepOk(w) /\ k \in Intents
  BY GoodType DEF Event
<1>2. Apply(w.mem, e) \in State
  BY <1>1, ApplyType
<1>3. /\ next \in Worlds /\ next.crashes = w.crashes /\ Beside(w, next)
      /\ next.mem = Apply(w.mem, e)
  BY <1>1, <1>2 DEF Worlds, Beside
<1>4. Log(w, e) = Durably(w, next)
  BY DEF Log
<1> HIDE DEF next
<1>5. Safe(next)
  <2>1. \A i \in Intents : OrderOk(w.mem, i, w.venue[i])
    BY <1>1 DEF Safe
  <2>2. ASSUME NEW i \in Intents
        PROVE  OrderOk(next.mem, i, next.venue[i])
    <3>1. next.venue[i] = w.venue[i]
      BY <1>3 DEF Beside
    <3>2. CASE i = k
      BY <1>1, <1>3, <2>1, <3>1, <3>2, ApplyOrderOk
    <3>3. CASE i # k
      <4>1. Apply(w.mem, e).orders[i] = w.mem.orders[i]
        BY <1>1, <3>3, ApplyElsewhere
      <4>2. QED
        BY <1>3, <2>1, <3>1, <4>1 DEF OrderOk, Exists
    <3>4. QED
      BY <3>2, <3>3
  <2>3. \A t \in Stops : w.mem.orders[t].exchange_id => Exists(w.mem, t)
    BY <2>1, StopType DEF OrderOk
  <2>4. Numbered(w.mem) /\ Counted(w.mem)
    BY <1>1 DEF Safe
  <2>5. Numbered(next.mem) /\ Counted(next.mem)
    BY <1>1, <1>3, <2>3, <2>4, ApplyNumbered, ApplyCounted
  <2>6. QED
    BY <2>2, <2>5 DEF Safe
<1>6. ASSUME e.type = "ORDER_SUBMITTED" => k \notin Stops
      PROVE  NoLouder(w, next)
  <2>1. ASSUME NEW s \in Stops, Quiet(w, s), Recorded(next, s), next.venue[s] = "open"
        PROVE  FALSE
    <3>1. w.venue[s] = "open" /\ RemainingReserved(Apply(w.mem, e).orders[s]) > 0
      BY <1>3, <2>1 DEF Beside, Recorded
    <3>2. Recorded(w, s)
      BY <1>6, <3>1, ApplyYields DEF Recorded
    <3>3. QED
      BY <2>1, <3>1, <3>2 DEF Quiet
  <2>2. QED
    BY <2>1 DEF NoLouder, Quiet
<1>7. StepOk(next)
  <2>1. /\ BuysKept(w) => BuysKept(next)
        /\ ExitsKept(w) => ExitsKept(next)
    BY <1>3 DEF Beside, BuysKept, ExitsKept
  <2>2. QED
    BY <1>1, <1>6, <2>1 DEF StepOk, NoLouder, Yields
<1>8. /\ Good(Durably(w, next)) /\ SameBooks(next, Durably(w, next))
      /\ Beside(next, Durably(w, next))
  BY <1>1, <1>3, <1>5, <1>7, DurablyGood
<1>9. (e.type = "ORDER_SUBMITTED" => k \notin Stops) => NoLouder(w, Durably(w, next))
  BY <1>6, <1>8, SameIsSafe DEF NoLouder
<1>10. Log(w, e).mem = Apply(w.mem, e)
  BY <1>3, <1>4, <1>8 DEF SameBooks
<1>11. /\ Numbered(w.mem)
       /\ \A t \in Stops : w.mem.orders[t].exchange_id => Exists(w.mem, t)
  BY <1>1, StopType DEF Safe, OrderOk
<1>12. Laid(Log(w, e).mem) =
         IF e.type = "ORDER_INTENT_CREATED" /\ k \in Stops
         THEN Laid(w.mem) \cup {k} ELSE Laid(w.mem)
  BY <1>1, <1>10, ApplyLaid
<1>13. Identified(w.mem) \subseteq Identified(Log(w, e).mem)
  BY <1>1, <1>10, <1>11, ApplyIdentified
<1>14. e.type # "PROTECTIVE_ORDER_ACKNOWLEDGED" =>
         Served(Log(w, e).mem) \subseteq Served(w.mem)
  BY <1>1, <1>10, ApplyServed
<1>15. Good(Log(w, e)) /\ Beside(w, Log(w, e))
  BY <1>3, <1>4, <1>8 DEF Beside
<1>16. QED
  BY <1>4, <1>9, <1>10, <1>12, <1>13, <1>14, <1>15 DEF Logged

\* r follows w: only the lifecycle moved, and it identified, protected and laid
\* nothing new.
Follows(w, r) ==
  /\ Good(r) /\ Beside(w, r) /\ NoLouder(w, r)
  /\ Laid(r.mem) = Laid(w.mem)
  /\ Identified(w.mem) \subseteq Identified(r.mem)
  /\ Served(r.mem) \subseteq Served(w.mem)

LEMMA FollowsSelf ==
  ASSUME NEW w, Good(w)
  PROVE  Follows(w, w)
  BY DEF Follows, Beside, NoLouder

LEMMA FollowsFurther ==
  ASSUME NEW u, NEW v, NEW w, Follows(u, v), Follows(v, w)
  PROVE  Follows(u, w)
  BY DEF Follows, Beside, NoLouder

LEMMA FollowsKeeps ==
  ASSUME NEW w, NEW r, Follows(w, r)
  PROVE  /\ ExitsKept(w) => ExitsKept(r)
         /\ BuysKept(w) => BuysKept(r)
         /\ Yields(w) => Yields(r)
         /\ Calm(w) => Calm(r)
  BY DEF Follows, Beside, ExitsKept, BuysKept, Calm, NoLouder, Yields

LEMMA EvType ==
  ASSUME NEW k \in Intents, NEW type \in EventTypes, NEW n \in Nat, NEW m \in Nat,
         NEW d \in RiskDecision
  PROVE  /\ Ev(type, k) \in Event
         /\ [Ev(type, k) EXCEPT !.qty = n] \in Event
         /\ [Ev(type, k) EXCEPT !.risk = d] \in Event
         /\ [Ev(type, k) EXCEPT !.authorized = n] \in Event
         /\ [Ev(type, k) EXCEPT !.exchange_id = TRUE, !.qty = n, !.authorized = m]
              \in Event
  BY NoDecisionType DEF Ev, Event

\* Events that say nothing about the venue.
PlainEvents ==
  PreparingEvents \cup
  {"BROKER_ACKNOWLEDGED", "CANCEL_REQUESTED", "PROTECTIVE_ORDER_CREATED",
   "MANUAL_INTERVENTION_REQUIRED"}

LEMMA PlainFollows ==
  ASSUME NEW w, Good(w), NEW e \in Event, e.type \in PlainEvents
  PROVE  Follows(w, Log(w, e)) /\ Log(w, e).mem = Apply(w.mem, e)
<1>1. Justified(w.mem, e, w.venue[e.intent])
  BY DEF Justified, BookingEvents, PlainEvents, PreparingEvents
<1>2. e.type \notin {"ORDER_SUBMITTED", "ORDER_INTENT_CREATED",
                     "PROTECTIVE_ORDER_ACKNOWLEDGED"}
  BY DEF PlainEvents, PreparingEvents
<1>3. Logged(w, e, Log(w, e))
  BY <1>1, <1>2, LogGood
<1>4. QED
  BY <1>2, <1>3 DEF Logged, Follows

LEMMA PlainEvFollows ==
  ASSUME NEW w, Good(w), NEW k \in Intents, NEW type \in PlainEvents
  PROVE  /\ Follows(w, Log(w, Ev(type, k)))
         /\ Log(w, Ev(type, k)).mem = Apply(w.mem, Ev(type, k))
<1>1. Ev(type, k) \in Event /\ Ev(type, k).type = type
  BY NoDecisionType DEF Ev, Event, EventTypes, PlainEvents, PreparingEvents
<1>2. QED
  BY <1>1, PlainFollows

-----------------------------------------------------------------------------
(* Requests                                                                *)

\* The lifecycle lets an entry pass.
Open(s) ==
  ~s.manual_blocked /\ \A j \in Intents : s.protection[j] # "PROTECTION_REQUIRED"

LEMMA PreparedAt ==
  ASSUME NEW w, Good(w), NEW e \in Event, e.type \in PreparingEvents,
         NEW i, i = e.intent, Exists(w.mem, i), NEW r, r = Log(w, e)
  PROVE  /\ Follows(w, r) /\ Exists(r.mem, i)
         /\ r.mem.orders[i].filled = w.mem.orders[i].filled
         /\ r.mem.orders[i].exchange_id = w.mem.orders[i].exchange_id
         /\ e.type # "BROKER_SUBMISSION_REQUESTED" =>
              r.mem.orders[i].requested = w.mem.orders[i].requested
         /\ e.type = "RISK_APPROVED" => r.mem.orders[i].status = "APPROVED"
         /\ e.type = "ORDER_AUTHORIZED" => r.mem.orders[i].status = "AUTHORIZED"
         /\ e.type \in {"BROKER_SUBMISSION_REQUESTED", "BROKER_IO_STARTED"} =>
              r.mem.orders[i].status = w.mem.orders[i].status
         /\ Open(r.mem) => Open(w.mem)
<1>1. Follows(w, r) /\ r.mem = Apply(w.mem, e) /\ w.mem \in State
  BY PlainFollows, GoodType DEF PlainEvents
<1>2. /\ Exists(r.mem, i) /\ r.mem.orders[i].filled = w.mem.orders[i].filled
      /\ r.mem.orders[i].exchange_id = w.mem.orders[i].exchange_id
      /\ e.type # "BROKER_SUBMISSION_REQUESTED" =>
           r.mem.orders[i].requested = w.mem.orders[i].requested
  BY <1>1, ApplyAt DEF PreparingEvents, FillEvents
<1>3. /\ e.type = "RISK_APPROVED" => r.mem.orders[i].status = "APPROVED"
      /\ e.type = "ORDER_AUTHORIZED" => r.mem.orders[i].status = "AUTHORIZED"
      /\ e.type \in {"BROKER_SUBMISSION_REQUESTED", "BROKER_IO_STARTED"} =>
           r.mem.orders[i].status = w.mem.orders[i].status
  BY <1>1, ApplyStatus
<1>4. r.mem.protection = w.mem.protection /\ r.mem.manual_blocked = w.mem.manual_blocked
  BY <1>1, ApplyProtection DEF BookingEvents, PreparingEvents
<1>5. QED
  BY <1>1, <1>2, <1>3, <1>4 DEF Open

\* An order created and approved anew.
Fresh(s, i) ==
  /\ Exists(s, i) /\ s.orders[i].filled = 0 /\ ~s.orders[i].exchange_id

LEMMA ApprovedGood ==
  ASSUME NEW w, Good(w), NEW i \in Intents, NEW d \in RiskDecision,
         i \in Stops => Unused(w.mem, i)
  PROVE  LET r == Approved(w, i, d) IN
         /\ Good(r) /\ Beside(w, r) /\ NoLouder(w, r)
         /\ Laid(r.mem) = IF i \in Stops THEN Laid(w.mem) \cup {i} ELSE Laid(w.mem)
         /\ Identified(w.mem) \subseteq Identified(r.mem)
         /\ Served(r.mem) \subseteq Served(w.mem)
         /\ Fresh(r.mem, i) /\ ~r.mem.orders[i].requested
         /\ Open(r.mem) => Open(w.mem)
<1> DEFINE e == Ev("ORDER_INTENT_CREATED", i)
           v == Log(w, e)
           a == [Ev("RISK_APPROVED", i) EXCEPT !.risk = d]
<1>1. /\ e \in Event /\ e.type = "ORDER_INTENT_CREATED" /\ e.intent = i
      /\ a \in Event /\ a.type = "RISK_APPROVED" /\ a.intent = i
  <2>1. {"ORDER_INTENT_CREATED", "RISK_APPROVED"} \subseteq EventTypes
    BY DEF EventTypes
  <2>2. e \in Event /\ a \in Event
    BY <2>1, EvType, NoDecisionType
  <2>3. QED
    BY <2>2 DEF Ev
<1>2. Approved(w, i, d) = Log(v, a)
  BY DEF Approved
<1> HIDE DEF e, v, a
<1>3. Justified(w.mem, e, w.venue[i])
  BY <1>1 DEF Justified, BookingEvents
<1>4. Logged(w, e, v)
  BY <1>1, <1>3, LogGood DEF v
<1>5. v.mem = Apply(w.mem, e) /\ Good(v) /\ w.mem \in State
  BY <1>4, GoodType DEF Logged
<1>6. v.mem.orders[i] = NewOrder("PENDING")
  BY <1>1, <1>5, ApplyAt
<1>7. Fresh(v.mem, i) /\ ~v.mem.orders[i].requested
  BY <1>6 DEF Fresh, Exists, NewOrder
<1>8. v.mem.protection = w.mem.protection /\ v.mem.manual_blocked = w.mem.manual_blocked
  BY <1>1, <1>5, ApplyProtection DEF BookingEvents
<1>9. /\ Follows(v, Log(v, a)) /\ Fresh(Log(v, a).mem, i)
      /\ ~Log(v, a).mem.orders[i].requested
      /\ Open(Log(v, a).mem) => Open(v.mem)
  <2>1. a \in Event /\ a.type \in PreparingEvents /\ Exists(v.mem, a.intent)
    BY <1>1, <1>7 DEF Fresh, PreparingEvents
  <2> DEFINE r == Log(v, a)
  <2>2. /\ Follows(v, r)
        /\ r.mem.orders[i].filled = v.mem.orders[i].filled
        /\ r.mem.orders[i].exchange_id = v.mem.orders[i].exchange_id
        /\ a.type # "BROKER_SUBMISSION_REQUESTED" =>
             r.mem.orders[i].requested = v.mem.orders[i].requested
        /\ Exists(r.mem, i) /\ (Open(r.mem) => Open(v.mem))
    <3> HIDE DEF r
    <3>1. r = Log(v, a)
      BY DEF r
    <3>2. QED
      BY <1>1, <1>5, <2>1, <3>1, PreparedAt
  <2>3. QED
    BY <1>1, <1>7, <2>2 DEF Fresh
<1>10. QED
  BY <1>1, <1>2, <1>4, <1>8, <1>9 DEF Logged, Follows, Beside, Open, NoLouder

\* The gate lets no entry pass beside a block or an unprotected position.
LEMMA EntryPassesGate ==
  ASSUME NEW s, NEW i \in Buys, NEW env, Lifecycle!SubmissionAllowed(s, i, env)
  PROVE  Open(s)
<1> DEFINE c == [Lifecycle!BaseContext(s, i, env) EXCEPT
                   !.risk = s.orders[i].risk, !.require_price = TRUE,
                   !.enforce_inventory = TRUE, !.draft = FALSE]
<1>1. ~Lifecycle!Blocked(c)
  BY DEF Lifecycle!SubmissionAllowed
<1>2. i \notin Sells
  BY KindsType
<1>3. /\ c.effect = "INCREASE" /\ c.side = "buy"
      /\ c.manual_blocked = s.manual_blocked
      /\ c.protection_required =
           \E j \in Intents : s.protection[j] = "PROTECTION_REQUIRED"
  BY <1>2
  DEF Lifecycle!BaseContext, Lifecycle!DetermineExposureEffect, Lifecycle!Side,
      Lifecycle!Intents, Intents
<1> HIDE DEF c
<1>4. ~Lifecycle!SafeReduce(c)
  BY <1>3 DEF Lifecycle!SafeReduce
<1>5. \A reason : Lifecycle!Degraded(c, reason).permission = "BLOCK"
  BY <1>4 DEF Lifecycle!Degraded, Lifecycle!Result
<1>6. \A reason : Lifecycle!Result("BLOCK", reason).permission = "BLOCK"
  BY DEF Lifecycle!Result
<1>7. ~Lifecycle!ManualControl(c) /\ ~Lifecycle!GapControl(c)
  BY <1>1, <1>5, <1>6 DEF Lifecycle!Blocked, Lifecycle!EvaluateOrderPermission
<1>8. QED
  BY <1>3, <1>7 DEF Lifecycle!ManualControl, Lifecycle!GapControl, Open

LEMMA AuthorizedOk ==
  ASSUME NEW w, Good(w), NEW i \in Intents, Fresh(w.mem, i), NEW env,
         NEW r, r = Authorized(w, i, env)
  PROVE  /\ Follows(w, r) /\ Fresh(r.mem, i) /\ (Open(r.mem) => Open(w.mem))
         /\ r.mem.orders[i].requested = w.mem.orders[i].requested
<1> DEFINE e == Lifecycle!Authorization(i)
           v == Log(w, e)
<1>1. r = w \/ r = v
  BY DEF Authorized
<1>2. e = [Ev("ORDER_AUTHORIZED", i) EXCEPT !.authorized = Size[i]]
  BY DEF Lifecycle!Authorization, Lifecycle!Ev, Ev, Lifecycle!NoDecision, NoDecision,
         Lifecycle!EvidenceOf, EvidenceOf
<1>3. e \in Event
  <2>1. "ORDER_AUTHORIZED" \in EventTypes /\ Size[i] \in Nat
    BY IntentType DEF EventTypes
  <2>2. [Ev("ORDER_AUTHORIZED", i) EXCEPT !.authorized = Size[i]] \in Event
    BY <2>1, EvType, NoDecisionType
  <2>3. QED
    BY <1>2, <2>2
<1>4. e.type \in PreparingEvents /\ e.intent = i /\ e.type # "BROKER_SUBMISSION_REQUESTED"
  BY <1>2 DEF Ev, PreparingEvents
<1> HIDE DEF e, v
<1>5. v = Log(w, e) /\ Exists(w.mem, i)
  BY DEF v, Fresh
<1>6. /\ Follows(w, v) /\ Exists(v.mem, i) /\ (Open(v.mem) => Open(w.mem))
      /\ v.mem.orders[i].filled = w.mem.orders[i].filled
      /\ v.mem.orders[i].exchange_id = w.mem.orders[i].exchange_id
      /\ v.mem.orders[i].requested = w.mem.orders[i].requested
  BY <1>3, <1>4, <1>5, PreparedAt
<1>7. QED
  BY <1>1, <1>6, FollowsSelf DEF Fresh

LEMMA SubmissionRequestedOk ==
  ASSUME NEW w, Good(w), NEW i \in Intents, Fresh(w.mem, i),
         ~w.mem.orders[i].requested, NEW env,
         NEW r, r = SubmissionRequested(w, i, env)
  PROVE  /\ Follows(w, r) /\ Fresh(r.mem, i) /\ (Open(r.mem) => Open(w.mem))
         /\ r.mem.orders[i].requested =>
              /\ r.mem.orders[i].status = "AUTHORIZED"
              /\ Lifecycle!SubmissionAllowed(w.mem, i, env)
<1> DEFINE e == Ev("BROKER_SUBMISSION_REQUESTED", i)
           v == Log(w, e)
<1>1. CASE r = w
  BY <1>1, FollowsSelf
<1>2. CASE r # w
  <2>1. /\ r = v /\ w.mem.orders[i].status = "AUTHORIZED"
        /\ Lifecycle!SubmissionAllowed(w.mem, i, env)
    BY <1>2 DEF SubmissionRequested
  <2>2. e \in Event /\ e.type = "BROKER_SUBMISSION_REQUESTED" /\ e.intent = i
    BY NoDecisionType DEF Ev, Event, EventTypes
  <2>3. e.type \in PreparingEvents /\ Exists(w.mem, i)
    BY <2>2 DEF PreparingEvents, Fresh
  <2>4. v = Log(w, e)
    OBVIOUS
  <2> HIDE DEF e, v
  <2>5. /\ Follows(w, v) /\ Exists(v.mem, i) /\ (Open(v.mem) => Open(w.mem))
        /\ v.mem.orders[i].filled = w.mem.orders[i].filled
        /\ v.mem.orders[i].exchange_id = w.mem.orders[i].exchange_id
        /\ v.mem.orders[i].status = w.mem.orders[i].status
    BY <2>2, <2>3, <2>4, PreparedAt
  <2>6. QED
    BY <2>1, <2>5 DEF Fresh
<1>3. QED
  BY <1>1, <1>2

\* r is w with i created, approved and, as far as it is allowed, requested.
RequestedFrom(w, i, r) ==
  /\ Good(r) /\ Beside(w, r) /\ NoLouder(w, r)
  /\ Laid(r.mem) = IF i \in Stops THEN Laid(w.mem) \cup {i} ELSE Laid(w.mem)
  /\ Identified(w.mem) \subseteq Identified(r.mem)
  /\ Served(r.mem) \subseteq Served(w.mem)
  /\ Fresh(r.mem, i)

LEMMA RequestGood ==
  ASSUME NEW w, Good(w), NEW i \in Intents, NEW d \in RiskDecision, NEW price,
         i \in Stops => Unused(w.mem, i), NEW r, r = Request(w, i, d, price)
  PROVE  /\ RequestedFrom(w, i, r)
         /\ Requested(r, i) =>
              /\ r.mem.orders[i].status = "AUTHORIZED"
              /\ i \in Buys => Open(w.mem)
<1> DEFINE env == Env(w, price)
           u == Approved(w, i, d)
           v == Authorized(u, i, env)
<1>1. r = SubmissionRequested(v, i, env) /\ v = Authorized(u, i, env)
  BY DEF Request
<1>2. /\ Good(u) /\ Beside(w, u) /\ NoLouder(w, u)
      /\ Laid(u.mem) = IF i \in Stops THEN Laid(w.mem) \cup {i} ELSE Laid(w.mem)
      /\ Identified(w.mem) \subseteq Identified(u.mem)
      /\ Served(u.mem) \subseteq Served(w.mem)
      /\ Fresh(u.mem, i) /\ ~u.mem.orders[i].requested
      /\ Open(u.mem) => Open(w.mem)
  BY ApprovedGood
<1> HIDE DEF u, v, env
<1>3. /\ Follows(u, v) /\ Fresh(v.mem, i) /\ (Open(v.mem) => Open(u.mem))
      /\ v.mem.orders[i].requested = u.mem.orders[i].requested
  BY <1>1, <1>2, AuthorizedOk
<1>4. Good(v)
  BY <1>3 DEF Follows
<1>5. /\ Follows(v, r) /\ Fresh(r.mem, i) /\ (Open(r.mem) => Open(v.mem))
      /\ r.mem.orders[i].requested =>
           /\ r.mem.orders[i].status = "AUTHORIZED"
           /\ Lifecycle!SubmissionAllowed(v.mem, i, env)
  BY <1>1, <1>2, <1>3, <1>4, SubmissionRequestedOk
<1>6. Follows(u, r)
  BY <1>3, <1>5, FollowsFurther
<1>7. RequestedFrom(w, i, r)
  BY <1>2, <1>5, <1>6 DEF Follows, Beside, RequestedFrom, NoLouder
<1>8. ASSUME Requested(r, i), i \in Buys
      PROVE  Open(w.mem)
  <2>1. Lifecycle!SubmissionAllowed(v.mem, i, env)
    BY <1>5, <1>8 DEF Requested
  <2>2. Open(v.mem)
    BY <1>8, <2>1, EntryPassesGate
  <2>3. QED
    BY <1>2, <1>3, <2>2
<1>9. QED
  BY <1>5, <1>7, <1>8 DEF Requested

\* Where the lifecycle is open, every booked entry has its stop.
LEMMA OpenIsDue ==
  ASSUME Open(mem), Counted(mem)
  PROVE  EntryDue
<1>1. Served(mem) = {b \in Buys : mem.orders[b].filled > 0}
  BY KindsType DEF Served, Open
<1>2. QED
  BY <1>1 DEF Open, Counted, EntryDue

-----------------------------------------------------------------------------
(* The venue                                                               *)

VenueStates == {"none", "open", "filled", "canceled", "rejected"}

\* r is w with the venue's word on i changed to v.
Moved(w, r, i, v) ==
  /\ Good(r) /\ r.mem = w.mem /\ r.venue = [w.venue EXCEPT ![i] = v]
  /\ r.canceled = w.canceled /\ r.refused = w.refused
  /\ Yields(w) /\ (i \in Stops => v # "open") => Yields(r)

LEMMA VenueGood ==
  ASSUME NEW w, Good(w), NEW i \in Intents, NEW v \in VenueStates,
         OrderOk(w.mem, i, v),
         i \in Buys => EntryDue, i \in Exits => Yields(w),
         i \in Stops /\ v = "open" => ExitsKept(w),
         NEW next \in Worlds, next.crashes = w.crashes, next.mem = w.mem,
         next.venue = [w.venue EXCEPT ![i] = v],
         next.canceled = w.canceled, next.refused = w.refused,
         NEW r, r = Durably(w, next)
  PROVE  Moved(w, r, i, v) /\ r.held = next.held
<1>1. /\ w.venue \in Venues /\ Safe(w) /\ StepOk(w)
  BY GoodType
<1>2. \A j \in Intents : next.venue[j] = IF j = i THEN v ELSE w.venue[j]
  BY <1>1 DEF Venues
<1>3. Safe(next)
  BY <1>1, <1>2 DEF Safe
<1>4. Yields(w) /\ (i \in Stops => v # "open") => Yields(next)
  BY <1>2, StopType DEF Yields, Quiet, Recorded
<1>5. BuysKept(next) \/ EntryDue
  <2>1. i \notin Buys => \A b \in Buys : next.venue[b] = w.venue[b]
    BY <1>2, KindsType
  <2>2. QED
    BY <1>1, <2>1 DEF StepOk, BuysKept
<1>6. ExitsKept(next) \/ Yields(next)
  <2>1. i \notin Exits => \A x \in Exits : next.venue[x] = w.venue[x]
    BY <1>2, KindsType
  <2>2. i \in Exits => i \notin Stops
    BY KindsType
  <2>3. QED
    BY <1>1, <1>4, <2>1, <2>2 DEF StepOk, ExitsKept
<1>7. StepOk(next)
  BY <1>5, <1>6 DEF StepOk
<1>8. Good(r) /\ SameBooks(next, r) /\ Beside(next, r)
  BY <1>3, <1>7, DurablyGood
<1>9. Yields(next) => Yields(r)
  BY <1>8, SameIsSafe
<1>10. QED
  BY <1>4, <1>8, <1>9 DEF SameBooks, Beside, Moved

\* Nothing is booked or settled yet, so whatever the venue says is news.
Unsettled(s, i) ==
  s.orders[i].filled = 0 /\ s.orders[i].status \notin {"REJECTED", "CANCELED"}

LEMMA UnsettledOk ==
  ASSUME NEW w, Good(w), NEW i \in Intents, Unsettled(w.mem, i),
         NEW v \in VenueStates \ {"none"}
  PROVE  OrderOk(w.mem, i, v)
<1>1. OrderOk(w.mem, i, w.venue[i])
  BY OrderFacts
<1>2. QED
  BY <1>1 DEF OrderOk, Unsettled

LEMMA ExecuteFillOk ==
  ASSUME NEW w, Good(w), NEW i \in Intents, Unsettled(w.mem, i),
         i \in Buys => EntryDue, i \in Exits => Yields(w),
         NEW r, r = ExecuteFill(w, i)
  PROVE  /\ Moved(w, r, i, r.venue[i]) /\ r.venue[i] \in {"filled", "rejected"}
         /\ i \in Buys /\ r.venue[i] = "filled" => r.held = w.held + Size[i]
<1> DEFINE refused == [w EXCEPT !.venue[i] = "rejected"]
           filled  == [w EXCEPT !.venue[i] = "filled",
                                !.held = IF i \in Buys THEN @ + Size[i]
                                         ELSE @ - Size[i]]
<1>1. w \in Worlds /\ w.venue \in Venues /\ w.held \in Nat /\ Size[i] \in Nat
  BY GoodType, IntentType
<1>2. OrderOk(w.mem, i, "filled") /\ OrderOk(w.mem, i, "rejected")
  BY UnsettledOk DEF VenueStates
<1>3. CASE i \in Sells /\ w.held < Size[i]
  <2>1. /\ refused \in Worlds /\ refused.crashes = w.crashes /\ refused.mem = w.mem
        /\ refused.venue = [w.venue EXCEPT ![i] = "rejected"]
        /\ refused.canceled = w.canceled /\ refused.refused = w.refused
    BY <1>1 DEF Worlds, Venues
  <2>2. r = Durably(w, refused)
    BY <1>3 DEF ExecuteFill
  <2> HIDE DEF refused
  <2>3. Moved(w, r, i, "rejected")
    BY <1>2, <2>1, <2>2, VenueGood DEF VenueStates
  <2>4. r.venue[i] = "rejected"
    BY <1>1, <2>3 DEF Moved, Venues
  <2>5. QED
    BY <2>3, <2>4
<1>4. CASE ~(i \in Sells /\ w.held < Size[i])
  <2>1. (IF i \in Buys THEN w.held + Size[i] ELSE w.held - Size[i]) \in Nat
    BY <1>1, <1>4 DEF Intents
  <2>2. /\ filled \in Worlds /\ filled.crashes = w.crashes /\ filled.mem = w.mem
        /\ filled.venue = [w.venue EXCEPT ![i] = "filled"]
        /\ filled.canceled = w.canceled /\ filled.refused = w.refused
    BY <1>1, <2>1 DEF Worlds, Venues
  <2>3. filled.held = IF i \in Buys THEN w.held + Size[i] ELSE w.held - Size[i]
    BY <1>1, <2>1 DEF Worlds
  <2>4. r = Durably(w, filled)
    BY <1>4 DEF ExecuteFill
  <2> HIDE DEF filled
  <2>5. Moved(w, r, i, "filled") /\ r.held = filled.held
    <3>1. "filled" \in VenueStates /\ "filled" # "open"
      BY DEF VenueStates
    <3>2. QED
      BY <1>2, <2>2, <2>4, <3>1, VenueGood
  <2>6. r.venue[i] = "filled"
    BY <1>1, <2>5 DEF Moved, Venues
  <2>7. QED
    BY <2>5, <2>6, <2>3
<1>5. QED
  BY <1>3, <1>4

LEMMA PlaceMarketOrderOk ==
  ASSUME NEW w, Good(w), NEW i \in Intents, Unsettled(w.mem, i), NEW fills,
         i \in Buys => EntryDue, i \in Exits => Yields(w),
         NEW r, r = PlaceMarketOrder(w, i, fills)
  PROVE  /\ Moved(w, r, i, r.venue[i]) /\ r.venue[i] \in {"filled", "rejected"}
         /\ i \in Buys /\ r.venue[i] = "filled" => r.held = w.held + Size[i]
<1> DEFINE refused == [w EXCEPT !.venue[i] = "rejected"]
<1>1. CASE fills
  BY <1>1, ExecuteFillOk DEF PlaceMarketOrder
<1>2. CASE ~fills
  <2>1. w \in Worlds /\ w.venue \in Venues
    BY GoodType
  <2>2. /\ refused \in Worlds /\ refused.crashes = w.crashes /\ refused.mem = w.mem
        /\ refused.venue = [w.venue EXCEPT ![i] = "rejected"]
        /\ refused.canceled = w.canceled /\ refused.refused = w.refused
    BY <2>1 DEF Worlds, Venues
  <2>3. r = Durably(w, refused)
    BY <1>2 DEF PlaceMarketOrder
  <2>4. OrderOk(w.mem, i, "rejected")
    BY UnsettledOk DEF VenueStates
  <2> HIDE DEF refused
  <2>5. Moved(w, r, i, "rejected")
    BY <2>2, <2>3, <2>4, VenueGood DEF VenueStates
  <2>6. r.venue[i] = "rejected"
    BY <2>1, <2>5 DEF Moved, Venues
  <2>7. QED
    BY <2>5, <2>6
<1>3. QED
  BY <1>1, <1>2

LEMMA PlaceStopOrderOk ==
  ASSUME NEW w, Good(w), NEW s \in Stops, Unsettled(w.mem, s), ExitsKept(w), NEW rests,
         NEW r, r = PlaceStopOrder(w, s, rests)
  PROVE  /\ Moved(w, r, s, r.venue[s]) /\ r.venue[s] \in {"open", "rejected"}
         /\ r.held = w.held
<1> DEFINE v == IF rests THEN "open" ELSE "rejected"
           next == [w EXCEPT !.venue[s] = v]
<1>1. w \in Worlds /\ w.venue \in Venues /\ s \in Intents /\ s \notin Buys /\ s \notin Exits
  BY GoodType, StopType
<1>2. v \in {"open", "rejected"}
  OBVIOUS
<1>3. r = Durably(w, next)
  BY DEF PlaceStopOrder
<1> HIDE DEF v
<1>4. v \in VenueStates /\ v # "none"
  BY <1>2 DEF VenueStates
<1>5. /\ next \in Worlds /\ next.crashes = w.crashes /\ next.mem = w.mem
      /\ next.venue = [w.venue EXCEPT ![s] = v] /\ next.held = w.held
      /\ next.canceled = w.canceled /\ next.refused = w.refused
  BY <1>1, <1>4 DEF Worlds, Venues, VenueStates
<1> HIDE DEF next
<1>6. OrderOk(w.mem, s, v)
  BY <1>1, <1>4, UnsettledOk
<1>7. Moved(w, r, s, v) /\ r.held = w.held
  BY <1>1, <1>3, <1>4, <1>5, <1>6, VenueGood
<1>8. r.venue[s] = v
  BY <1>1, <1>7 DEF Moved, Venues
<1>9. QED
  BY <1>2, <1>7, <1>8

\* What is open at the venue is not settled in the lifecycle.
LEMMA OpenIsUnsettled ==
  ASSUME NEW w, Good(w), NEW i \in Intents, w.venue[i] = "open"
  PROVE  Unsettled(w.mem, i)
  BY OrderFacts DEF OrderOk, Unsettled

\* A stop ends at the venue, if it was open there.
StopMoved(w, r, s) ==
  /\ Good(r) /\ r.mem = w.mem /\ r.canceled = w.canceled /\ r.refused = w.refused
  /\ \A i \in Intents : i # s \/ w.venue[s] # "open" => r.venue[i] = w.venue[i]
  /\ r.venue[s] # "open" /\ (w.venue[s] # "none" => r.venue[s] # "none")

LEMMA TriggerOk ==
  ASSUME NEW w, Good(w), NEW s \in Stops, NEW r, r = Trigger(w, s)
  PROVE  StopMoved(w, r, s)
<1>1. s \in Intents /\ s \notin Buys /\ s \notin Exits /\ w.venue \in Venues
  BY StopType, GoodType
<1>2. CASE w.venue[s] = "open"
  <2>1. r = ExecuteFill(w, s) /\ Unsettled(w.mem, s)
    BY <1>1, <1>2, OpenIsUnsettled DEF Trigger
  <2>2. Moved(w, r, s, r.venue[s]) /\ r.venue[s] \in {"filled", "rejected"}
    BY <1>1, <2>1, ExecuteFillOk
  <2>3. \A i \in Intents : i # s => r.venue[i] = w.venue[i]
    BY <1>1, <2>2 DEF Moved, Venues
  <2>4. QED
    BY <1>2, <2>2, <2>3 DEF Moved, StopMoved
<1>3. CASE w.venue[s] # "open"
  BY <1>3 DEF Trigger, StopMoved
<1>4. QED
  BY <1>2, <1>3

LEMMA CancelOrderOk ==
  ASSUME NEW w, Good(w), NEW s \in Stops, NEW r, r = CancelOrder(w, s)
  PROVE  /\ StopMoved(w, r, s)
         /\ r.venue[s] = IF w.venue[s] = "open" THEN "canceled" ELSE w.venue[s]
<1> DEFINE next == [w EXCEPT !.venue[s] = "canceled"]
<1>1. /\ s \in Intents /\ s \notin Buys /\ s \notin Exits /\ w.venue \in Venues
      /\ w \in Worlds
  BY StopType, GoodType
<1>2. CASE w.venue[s] = "open"
  <2>1. r = Durably(w, next)
    BY <1>2 DEF CancelOrder
  <2>2. OrderOk(w.mem, s, "canceled")
    BY <1>1, <1>2, OpenIsUnsettled, UnsettledOk DEF VenueStates
  <2>3. /\ next \in Worlds /\ next.crashes = w.crashes /\ next.mem = w.mem
        /\ next.venue = [w.venue EXCEPT ![s] = "canceled"]
        /\ next.canceled = w.canceled /\ next.refused = w.refused
    BY <1>1 DEF Worlds, Venues
  <2> HIDE DEF next
  <2>4. Moved(w, r, s, "canceled")
    BY <1>1, <2>1, <2>2, <2>3, VenueGood DEF VenueStates
  <2>5. \A i \in Intents : r.venue[i] = IF i = s THEN "canceled" ELSE w.venue[i]
    BY <1>1, <2>4 DEF Moved, Venues
  <2>6. QED
    BY <1>1, <1>2, <2>4, <2>5 DEF Moved, StopMoved
<1>3. CASE w.venue[s] # "open"
  BY <1>3 DEF CancelOrder, StopMoved
<1>4. QED
  BY <1>2, <1>3

\* r is w after the market order i was sent.
Sent(w, r, i) ==
  /\ Good(r) /\ Laid(r.mem) = Laid(w.mem)
  /\ r.canceled = w.canceled /\ r.refused = w.refused
  /\ \A j \in Intents : j # i => r.venue[j] = w.venue[j]
  /\ r.venue[i] \in {"filled", "rejected"}
  /\ i \in Buys /\ r.venue[i] = "filled" => r.held = w.held + Size[i]

LEMMA StartIoOk ==
  ASSUME NEW w, Good(w), NEW i \in Intents, Fresh(w.mem, i),
         NEW r, r = StartIo(w, i)
  PROVE  /\ Follows(w, r) /\ Fresh(r.mem, i)
         /\ r.mem.orders[i].status = w.mem.orders[i].status
<1> DEFINE e == Ev("BROKER_IO_STARTED", i)
<1>1. e \in Event /\ e.type = "BROKER_IO_STARTED" /\ e.intent = i
  BY NoDecisionType DEF Ev, Event, EventTypes
<1>2. e.type \in PreparingEvents /\ Exists(w.mem, i)
  BY <1>1 DEF PreparingEvents, Fresh
<1>3. r = Log(w, e)
  BY DEF StartIo
<1> HIDE DEF e
<1>4. /\ Follows(w, r) /\ Exists(r.mem, i)
      /\ r.mem.orders[i].filled = w.mem.orders[i].filled
      /\ r.mem.orders[i].exchange_id = w.mem.orders[i].exchange_id
      /\ r.mem.orders[i].status = w.mem.orders[i].status
  BY <1>1, <1>2, <1>3, PreparedAt
<1>5. QED
  BY <1>4 DEF Fresh

LEMMA SubmitMarketOrderOk ==
  ASSUME NEW w, Good(w), NEW i \in Intents \ Stops, Fresh(w.mem, i),
         w.mem.orders[i].status = "AUTHORIZED", NEW fills,
         i \in Buys => EntryDue, i \in Exits => Yields(w),
         NEW r, r = SubmitMarketOrder(w, i, fills)
  PROVE  Sent(w, r, i)
<1> DEFINE v == StartIo(w, i)
<1>1. /\ Follows(w, v) /\ Fresh(v.mem, i)
      /\ v.mem.orders[i].status = w.mem.orders[i].status
  BY StartIoOk
<1>2. r = PlaceMarketOrder(v, i, fills)
  BY DEF SubmitMarketOrder
<1> HIDE DEF v
<1>3. Good(v) /\ Unsettled(v.mem, i) /\ (i \in Exits => Yields(v)) /\ v.venue \in Venues
  BY <1>1, GoodType, FollowsKeeps DEF Follows, Fresh, Unsettled
<1>4. /\ Moved(v, r, i, r.venue[i]) /\ r.venue[i] \in {"filled", "rejected"}
      /\ i \in Buys /\ r.venue[i] = "filled" => r.held = v.held + Size[i]
  BY <1>2, <1>3, PlaceMarketOrderOk
<1>5. \A j \in Intents : j # i => r.venue[j] = v.venue[j]
  BY <1>3, <1>4 DEF Moved, Venues
<1>6. QED
  BY <1>1, <1>4, <1>5 DEF Follows, Beside, Moved, Sent

-----------------------------------------------------------------------------
(* Recording what the venue said                                           *)

LEMMA FillFollows ==
  ASSUME NEW w, Good(w), NEW i \in Intents, w.venue[i] = "filled", NEW n \in Nat
  PROVE  Follows(w, Log(w, [Ev("FILL_RECEIVED", i) EXCEPT !.qty = n]))
<1> DEFINE e == [Ev("FILL_RECEIVED", i) EXCEPT !.qty = n]
<1>1. e.type = "FILL_RECEIVED" /\ e.intent = i
  BY DEF Ev
<1>2. e \in Event
  <2>1. "FILL_RECEIVED" \in EventTypes
    BY DEF EventTypes
  <2>2. QED
    BY <2>1, EvType, NoDecisionType
<1> HIDE DEF e
<1>3. Justified(w.mem, e, w.venue[e.intent])
  BY <1>1 DEF Justified, BookingEvents
<1>4. Logged(w, e, Log(w, e))
  BY <1>1, <1>2, <1>3, LogGood
<1>5. Follows(w, Log(w, e))
  BY <1>1, <1>4 DEF Logged, Follows
<1>6. QED
  BY <1>5 DEF e

LEMMA EndFollows ==
  ASSUME NEW w, Good(w), NEW i \in Intents, NEW type,
         \/ type = "ORDER_REJECTED" /\ w.venue[i] = "rejected"
         \/ type = "CANCEL_CONFIRMED" /\ w.venue[i] \in {"canceled", "rejected"}
  PROVE  Follows(w, Log(w, Ev(type, i)))
<1> DEFINE e == Ev(type, i)
<1>1. e.type = type /\ e.intent = i /\ e.evidence = "CANCELED" /\ e \in Event
  BY NoDecisionType DEF Ev, Event, EventTypes
<1> HIDE DEF e
<1>2. Justified(w.mem, e, w.venue[e.intent])
  BY <1>1 DEF Justified, BookingEvents
<1>3. Logged(w, e, Log(w, e))
  BY <1>1, <1>2, LogGood
<1>4. Follows(w, Log(w, e))
  BY <1>1, <1>3 DEF Logged, Follows
<1>5. QED
  BY <1>4 DEF e

\* The venue answered with the truth.
Answered(w, i, f) ==
  /\ f.status \in {"open", "filled", "expired"} /\ f.filled \in Nat
  /\ f.status = "filled" => w.venue[i] = "filled"
  /\ f.status = "expired" => w.venue[i] = "rejected"

LEMMA SubmitResultFollows ==
  ASSUME NEW w, Good(w), NEW i \in Intents, NEW f, Answered(w, i, f)
  PROVE  Follows(w, RecordSubmitResult(w, i, f))
<1> DEFINE v == Log(w, Ev("BROKER_ACKNOWLEDGED", i))
<1>1. Follows(w, v)
  BY PlainEvFollows DEF PlainEvents
<1> HIDE DEF v
<1>2. CASE f.status = "open"
  BY <1>1, <1>2 DEF RecordSubmitResult, v
<1>3. CASE f.status = "filled"
  <2> DEFINE r == Log(v, [Ev("FILL_RECEIVED", i) EXCEPT !.qty = f.filled])
  <2>1. Good(v) /\ v.venue[i] = "filled" /\ f.filled \in Nat
    BY <1>1, <1>3 DEF Follows, Beside, Answered
  <2>2. Follows(v, r)
    BY <2>1, FillFollows
  <2>3. RecordSubmitResult(w, i, f) = r
    BY <1>3 DEF RecordSubmitResult, v
  <2> HIDE DEF r
  <2>4. QED
    BY <1>1, <2>2, <2>3, FollowsFurther
<1>4. CASE f.status = "expired"
  BY <1>4, EndFollows DEF Answered, RecordSubmitResult
<1>5. QED
  BY <1>2, <1>3, <1>4 DEF Answered

LEMMA AnswerIsTrue ==
  ASSUME NEW w, NEW i \in Intents, w.venue[i] \in {"open", "filled", "rejected"}
  PROVE  Answered(w, i, Answer(w, i))
  BY IntentType DEF Answer, Answered

LEMMA RecordAnswerFollows ==
  ASSUME NEW w, Good(w), NEW i \in Intents, w.venue[i] \in {"filled", "rejected"}
  PROVE  Follows(w, RecordAnswer(w, i))
  BY AnswerIsTrue, SubmitResultFollows DEF RecordAnswer

\* r is w with the venue's answer about i recorded, which may identify i.
Recording(w, i, r) ==
  /\ Good(r) /\ Beside(w, r) /\ Laid(r.mem) = Laid(w.mem)
  /\ Identified(w.mem) \subseteq Identified(r.mem)
  /\ Served(r.mem) \subseteq Served(w.mem)
  /\ i \in Laid(w.mem) /\ w.venue[i] = "open" => i \in Identified(r.mem)

LEMMA IdentifyOk ==
  ASSUME NEW w, Good(w), NEW i \in Intents, w.venue[i] # "none",
         i \in Stops => ExitsKept(w), NEW r, r = Identify(w, i)
  PROVE  Recording(w, i, r)
<1> DEFINE e == [Ev("ORDER_SUBMITTED", i) EXCEPT !.exchange_id = TRUE,
                    !.qty = Size[i], !.authorized = Size[i]]
<1>1. /\ e.type = "ORDER_SUBMITTED" /\ e.intent = i /\ e.exchange_id
      /\ r = Log(w, e)
  BY DEF Ev, Identify
<1>2. e \in Event
  <2>1. "ORDER_SUBMITTED" \in EventTypes /\ Size[i] \in Nat
    BY IntentType DEF EventTypes
  <2>2. QED
    BY <2>1, EvType, NoDecisionType
<1> HIDE DEF e
<1>3. Justified(w.mem, e, w.venue[e.intent])
  BY <1>1 DEF Justified, BookingEvents
<1>4. Logged(w, e, r)
  BY <1>1, <1>2, <1>3, LogGood
<1>5. Numbered(w.mem) /\ \A t \in Stops : w.mem.orders[t].exchange_id => Exists(w.mem, t)
  BY GoodType, StopType DEF Safe, OrderOk
<1>6. i \in Laid(w.mem) => i \in Identified(r.mem)
  BY <1>1, <1>2, <1>3, <1>4, <1>5, GoodType, ApplyIdentified DEF Logged
<1>7. QED
  BY <1>1, <1>4, <1>6 DEF Logged, Recording

LEMMA RecordFactOk ==
  ASSUME NEW w, Good(w), NEW i \in Intents,
         w.venue[i] \in {"open", "filled", "rejected"},
         i \in Stops => ExitsKept(w), NEW r, r = RecordFact(w, i)
  PROVE  Recording(w, i, r)
<1> DEFINE f == Answer(w, i)
           v == IF f.status \in Accepted /\ ~w.mem.orders[i].exchange_id
                THEN Identify(w, i) ELSE w
<1>1. Answered(w, i, f) /\ (w.venue[i] = "open" => f.status = "open")
  BY AnswerIsTrue DEF Answer
<1>2. r = RecordSubmitResult(v, i, f)
  BY DEF RecordFact, RecordBrokerFact
<1> HIDE DEF f
<1>3. Recording(w, i, v)
  <2>1. CASE f.status \in Accepted /\ ~w.mem.orders[i].exchange_id
    BY <2>1, IdentifyOk
  <2>2. CASE ~(f.status \in Accepted /\ ~w.mem.orders[i].exchange_id)
    <3>1. w.venue[i] = "open" => w.mem.orders[i].exchange_id
      BY <1>1, <2>2 DEF Accepted
    <3>2. v = w
      BY <2>2
    <3> HIDE DEF v
    <3>3. QED
      BY <3>1, <3>2 DEF Recording, Beside, Laid, Identified
  <2>3. QED
    BY <2>1, <2>2
<1> HIDE DEF v
<1>4. Good(v) /\ Answered(v, i, f)
  BY <1>1, <1>3 DEF Recording, Beside, Answered
<1>5. Follows(v, r)
  BY <1>2, <1>4, SubmitResultFollows
<1>6. QED
  BY <1>3, <1>5 DEF Follows, Recording, Beside

-----------------------------------------------------------------------------
(* Loops over the stops.  A loop is a run h of worlds: h[n] is what is     *)
(* reached once the stop of attempt n was visited.                         *)

LEMMA Climb ==
  ASSUME NEW m \in Nat, NEW S, 0 \in S, \A n \in 1 .. m : n - 1 \in S => n \in S
  PROVE  \A n \in 0 .. m : n \in S
<1> DEFINE N == 0 .. m
           B == {t \in SUBSET N : \E n \in N : n \notin S /\ t = 0 .. n}
<1>1. ASSUME NEW n \in N, n \notin S
      PROVE  B # {}
  <2>1. 0 .. n \in SUBSET N
    OBVIOUS
  <2>2. 0 .. n \in B
    BY <1>1, <2>1
  <2>3. QED
    BY <2>2
<1> SUFFICES ASSUME B # {}
             PROVE  FALSE
  BY <1>1
<1>2. PICK t \in B : \A u \in B : u \subseteq t => u = t
  <2>1. IsFiniteSet(N) /\ B \in SUBSET (SUBSET N)
    BY FS_Interval
  <2> HIDE DEF B, N
  <2>2. QED
    BY <2>1, MinimalSubset
<1>3. PICK k \in N : k \notin S /\ t = 0 .. k
  OBVIOUS
<1>4. k \in 1 .. m /\ k - 1 \in 0 .. m /\ k - 1 \notin S
  BY <1>3
<1>5. 0 .. (k - 1) \in B
  BY <1>4
<1>6. 0 .. (k - 1) \subseteq t /\ k \in t /\ k \notin 0 .. (k - 1)
  BY <1>3, <1>4
<1>7. QED
  BY <1>2, <1>5, <1>6

\* The run that applies F, for the numbers up to m.
RunsTo(F, G, w, m, h) ==
  /\ h \in [0 .. m -> G] /\ h[0] = w
  /\ \A n \in 1 .. m : h[n] = F[<<h[n - 1], n>>]

LEMMA RunExists ==
  ASSUME NEW m \in Nat, NEW G, NEW w \in G, NEW F \in [G \X (1 .. m) -> G]
  PROVE  \E h : RunsTo(F, G, w, m, h)
<1> DEFINE S == {n \in 0 .. m : \E h : RunsTo(F, G, w, n, h)}
<1>1. 0 \in S
  <2>1. RunsTo(F, G, w, 0, [k \in 0 .. 0 |-> w])
    BY DEF RunsTo
  <2>2. QED
    BY <2>1
<1>2. ASSUME NEW n \in 1 .. m, n - 1 \in S
      PROVE  n \in S
  <2>1. PICK h : RunsTo(F, G, w, n - 1, h)
    BY <1>2
  <2> DEFINE g == [k \in 0 .. n |-> IF k = n THEN F[<<h[n - 1], n>>] ELSE h[k]]
  <2>2. h \in [0 .. (n - 1) -> G] /\ h[n - 1] \in G
    BY <2>1 DEF RunsTo
  <2>3. F[<<h[n - 1], n>>] \in G
    BY <2>2
  <2>4. g \in [0 .. n -> G]
    BY <2>2, <2>3
  <2>5. g[0] = w
    BY <2>1 DEF RunsTo
  <2>6. ASSUME NEW k \in 1 .. n
        PROVE  g[k] = F[<<g[k - 1], k>>]
    <3>1. g[k - 1] = h[k - 1]
      OBVIOUS
    <3>2. CASE k = n
      <4>1. g[k] = F[<<h[n - 1], n>>]
        BY <3>2
      <4> HIDE DEF g
      <4>2. QED
        BY <3>1, <3>2, <4>1
    <3>3. CASE k # n
      <4>1. k \in 1 .. (n - 1)
        BY <3>3
      <4>2. h[k] = F[<<h[k - 1], k>>]
        BY <2>1, <4>1 DEF RunsTo
      <4>3. g[k] = h[k]
        BY <3>3
      <4>4. QED
        BY <3>1, <4>2, <4>3
    <3>4. QED
      BY <3>2, <3>3
  <2>7. RunsTo(F, G, w, n, g)
    BY <2>4, <2>5, <2>6 DEF RunsTo
  <2>8. QED
    BY <2>7
<1>3. m \in S
  <2> HIDE DEF S
  <2>1. \A n \in 0 .. m : n \in S
    BY <1>1, <1>2, Climb
  <2>2. QED
    BY <2>1
<1>4. QED
  BY <1>3

\* The stop of attempt n, among those that v's lifecycle knows.
At(v, n) == {s \in Stops : s[1] = n /\ Exists(v.mem, s)}

\* What the four loops do at one stop.
Visit(loop, A, B, v, s) ==
  CASE loop = "sync"   -> SyncStop(v, s)
    [] loop = "gap"    -> IF s \in v.canceled THEN RequireManual(v, s) ELSE v
    [] loop = "cancel" -> CancelStop(v, s, s \in A, s \in B)
    [] loop = "hit"    -> IF s \in A THEN Trigger(v, s) ELSE v

Loop(loop, A, B, w) == ForEachStop(LAMBDA v, s : Visit(loop, A, B, v, s), w)

\* h is the run of a loop that starts in w.
LoopRun(loop, A, B, w, h) ==
  /\ h[0] = w /\ h[Attempts] = Loop(loop, A, B, w)
  /\ \A n \in 1 .. Attempts :
       \/ At(h[n - 1], n) = {} /\ h[n] = h[n - 1]
       \/ \E s \in At(h[n - 1], n) : h[n] = Visit(loop, A, B, h[n - 1], s)

LEMMA LoopRuns ==
  ASSUME NEW G, NEW w \in G, NEW loop, NEW A, NEW B,
         \A v \in G, s \in Stops : Exists(v.mem, s) => Visit(loop, A, B, v, s) \in G
  PROVE  \E h \in [0 .. Attempts -> G] : LoopRun(loop, A, B, w, h)
<1> DEFINE step(v, n) ==
             IF \E s \in Stops : s[1] = n /\ Exists(v.mem, s)
             THEN Visit(loop, A, B, v, CHOOSE s \in Stops : s[1] = n /\ Exists(v.mem, s))
             ELSE v
           table(a) == [n \in 0 .. Attempts |->
                          IF n = 0 THEN {w} ELSE {step(v, n) : v \in a[n - 1]}]
           after == CHOOSE a : a = table(a)
           F == [p \in G \X (1 .. Attempts) |-> step(p[1], p[2])]
<1>1. ASSUME NEW v \in G, NEW n
      PROVE  /\ step(v, n) \in G
             /\ \/ At(v, n) = {} /\ step(v, n) = v
                \/ \E s \in At(v, n) : step(v, n) = Visit(loop, A, B, v, s)
  <2>1. CASE \E s \in Stops : s[1] = n /\ Exists(v.mem, s)
    <3> DEFINE c == CHOOSE s \in Stops : s[1] = n /\ Exists(v.mem, s)
    <3>1. c \in Stops /\ c[1] = n /\ Exists(v.mem, c)
      BY <2>1
    <3>2. step(v, n) = Visit(loop, A, B, v, c)
      BY <2>1
    <3> HIDE DEF c
    <3>3. QED
      BY <3>1, <3>2 DEF At
  <2>2. CASE ~ \E s \in Stops : s[1] = n /\ Exists(v.mem, s)
    BY <2>2 DEF At
  <2>3. QED
    BY <2>1, <2>2
<1>2. Loop(loop, A, B, w) = CHOOSE v \in after[Attempts] : TRUE
  BY DEF Loop, ForEachStop
<1> HIDE DEF step
<1>3. F \in [G \X (1 .. Attempts) -> G]
  BY <1>1
<1>4. PICK h : RunsTo(F, G, w, Attempts, h)
  <2> HIDE DEF F
  <2>1. QED
    BY <1>3, RunExists, KindsType
<1>5. /\ h \in [0 .. Attempts -> G] /\ h[0] = w
      /\ \A n \in 1 .. Attempts : h[n - 1] \in G /\ h[n] = step(h[n - 1], n)
  <2>1. h \in [0 .. Attempts -> G] /\ h[0] = w
    BY <1>4 DEF RunsTo
  <2>2. ASSUME NEW n \in 1 .. Attempts
        PROVE  h[n - 1] \in G /\ h[n] = step(h[n - 1], n)
    <3>1. n - 1 \in 0 .. Attempts
      BY KindsType
    <3>2. h[n - 1] \in G
      BY <2>1, <3>1
    <3>3. h[n] = F[<<h[n - 1], n>>]
      BY <1>4 DEF RunsTo
    <3>4. QED
      BY <3>2, <3>3
  <2>3. QED
    BY <2>1, <2>2
<1>6. after = table(after)
  <2> DEFINE g == [n \in 0 .. Attempts |-> {h[n]}]
  <2>1. ASSUME NEW n \in 0 .. Attempts
        PROVE  g[n] = IF n = 0 THEN {w} ELSE {step(v, n) : v \in g[n - 1]}
    <3>1. CASE n = 0
      BY <1>5, <3>1
    <3>2. CASE n # 0
      <4>1. n \in 1 .. Attempts /\ n - 1 \in 0 .. Attempts
        BY <3>2, KindsType
      <4>2. g[n - 1] = {h[n - 1]} /\ g[n] = {h[n]}
        BY <4>1
      <4>3. h[n] = step(h[n - 1], n)
        BY <1>5, <4>1
      <4> HIDE DEF g
      <4>4. QED
        BY <3>2, <4>2, <4>3
    <3>3. QED
      BY <3>1, <3>2
  <2>2. g = table(g)
    BY <2>1
  <2> HIDE DEF g, table
  <2>3. QED
    BY <2>2
<1> HIDE DEF after
<1>7. ASSUME NEW n \in 0 .. Attempts
      PROVE  after[n] = {h[n]}
  <2> DEFINE S == {k \in 0 .. Attempts : after[k] = {h[k]}}
  <2>1. 0 \in S
    BY <1>5, <1>6, KindsType
  <2>2. ASSUME NEW k \in 1 .. Attempts, k - 1 \in S
        PROVE  k \in S
    <3>1. after[k] = {step(v, k) : v \in after[k - 1]}
      <4>1. k # 0 /\ k \in 0 .. Attempts
        BY KindsType
      <4>2. QED
        BY <1>6, <4>1
    <3>2. after[k - 1] = {h[k - 1]} /\ h[k] = step(h[k - 1], k)
      BY <1>5, <2>2
    <3>3. after[k] = {h[k]}
      BY <3>1, <3>2
    <3>4. QED
      BY <3>3, KindsType
  <2> HIDE DEF S
  <2>3. \A k \in 0 .. Attempts : k \in S
    BY <2>1, <2>2, Climb, KindsType
  <2>4. QED
    BY <2>3 DEF S
<1>8. Loop(loop, A, B, w) = h[Attempts]
  BY <1>2, <1>7, KindsType
<1>9. \A n \in 1 .. Attempts :
        \/ At(h[n - 1], n) = {} /\ h[n] = h[n - 1]
        \/ \E s \in At(h[n - 1], n) : h[n] = Visit(loop, A, B, h[n - 1], s)
  BY <1>1, <1>5
<1>10. LoopRun(loop, A, B, w, h)
  BY <1>5, <1>8, <1>9 DEF LoopRun
<1>11. QED
  BY <1>5, <1>10

\* The loops of the model are these.
LEMMA SyncLoop ==
  ASSUME NEW w
  PROVE  Synced(w) = Loop("sync", {}, {}, w)
<1> DEFINE found(v, n) == \E s \in Stops : s[1] = n /\ Exists(v.mem, s)
           next(v, n)  == CHOOSE s \in Stops : s[1] = n /\ Exists(v.mem, s)
           own(v, s) == SyncStop(v, s)
           any(v, s) == Visit("sync", {}, {}, v, s)
           ownTable(a) == [n \in 0 .. Attempts |-> IF n = 0 THEN {w}
             ELSE {IF found(v, n) THEN own(v, next(v, n)) ELSE v : v \in a[n - 1]}]
           anyTable(a) == [n \in 0 .. Attempts |-> IF n = 0 THEN {w}
             ELSE {IF found(v, n) THEN any(v, next(v, n)) ELSE v : v \in a[n - 1]}]
<1>1. \A v, s : own(v, s) = any(v, s)
  BY DEF Visit
<1>2. \A a : ownTable(a) = anyTable(a)
  <2> HIDE DEF found, next, own, any
  <2>1. QED
    BY <1>1
<1>3. (CHOOSE a : a = ownTable(a)) = (CHOOSE a : a = anyTable(a))
  <2> HIDE DEF ownTable, anyTable
  <2>1. QED
    BY <1>2
<1>4. QED
  BY <1>3 DEF Synced, Loop, ForEachStop

LEMMA GapLoop ==
  ASSUME NEW w, w.held # 0
  PROVE  MarkGap(w) = Loop("gap", {}, {}, w)
<1> DEFINE found(v, n) == \E s \in Stops : s[1] = n /\ Exists(v.mem, s)
           next(v, n)  == CHOOSE s \in Stops : s[1] = n /\ Exists(v.mem, s)
           own(v, s) == IF s \in v.canceled THEN RequireManual(v, s) ELSE v
           any(v, s) == Visit("gap", {}, {}, v, s)
           ownTable(a) == [n \in 0 .. Attempts |-> IF n = 0 THEN {w}
             ELSE {IF found(v, n) THEN own(v, next(v, n)) ELSE v : v \in a[n - 1]}]
           anyTable(a) == [n \in 0 .. Attempts |-> IF n = 0 THEN {w}
             ELSE {IF found(v, n) THEN any(v, next(v, n)) ELSE v : v \in a[n - 1]}]
<1>1. \A v, s : own(v, s) = any(v, s)
  BY DEF Visit
<1>2. \A a : ownTable(a) = anyTable(a)
  <2> HIDE DEF found, next, own, any
  <2>1. QED
    BY <1>1
<1>3. (CHOOSE a : a = ownTable(a)) = (CHOOSE a : a = anyTable(a))
  <2> HIDE DEF ownTable, anyTable
  <2>1. QED
    BY <1>2
<1>4. QED
  BY <1>3 DEF MarkGap, Loop, ForEachStop

LEMMA CancelLoop ==
  ASSUME NEW w, NEW A, NEW B
  PROVE  ForEachStop(LAMBDA v, s : CancelStop(v, s, s \in A, s \in B), w) = Loop("cancel", A, B, w)
<1> DEFINE found(v, n) == \E s \in Stops : s[1] = n /\ Exists(v.mem, s)
           next(v, n)  == CHOOSE s \in Stops : s[1] = n /\ Exists(v.mem, s)
           own(v, s) == CancelStop(v, s, s \in A, s \in B)
           any(v, s) == Visit("cancel", A, B, v, s)
           ownTable(a) == [n \in 0 .. Attempts |-> IF n = 0 THEN {w}
             ELSE {IF found(v, n) THEN own(v, next(v, n)) ELSE v : v \in a[n - 1]}]
           anyTable(a) == [n \in 0 .. Attempts |-> IF n = 0 THEN {w}
             ELSE {IF found(v, n) THEN any(v, next(v, n)) ELSE v : v \in a[n - 1]}]
<1>1. \A v, s : own(v, s) = any(v, s)
  BY DEF Visit
<1>2. \A a : ownTable(a) = anyTable(a)
  <2> HIDE DEF found, next, own, any
  <2>1. QED
    BY <1>1
<1>3. (CHOOSE a : a = ownTable(a)) = (CHOOSE a : a = anyTable(a))
  <2> HIDE DEF ownTable, anyTable
  <2>1. QED
    BY <1>2
<1>4. QED
  BY <1>3 DEF Loop, ForEachStop

LEMMA HitLoop ==
  ASSUME NEW w, NEW A
  PROVE  ForEachStop(LAMBDA v, s : IF s \in A THEN Trigger(v, s) ELSE v, w) = Loop("hit", A, {}, w)
<1> DEFINE found(v, n) == \E s \in Stops : s[1] = n /\ Exists(v.mem, s)
           next(v, n)  == CHOOSE s \in Stops : s[1] = n /\ Exists(v.mem, s)
           own(v, s) == IF s \in A THEN Trigger(v, s) ELSE v
           any(v, s) == Visit("hit", A, {}, v, s)
           ownTable(a) == [n \in 0 .. Attempts |-> IF n = 0 THEN {w}
             ELSE {IF found(v, n) THEN own(v, next(v, n)) ELSE v : v \in a[n - 1]}]
           anyTable(a) == [n \in 0 .. Attempts |-> IF n = 0 THEN {w}
             ELSE {IF found(v, n) THEN any(v, next(v, n)) ELSE v : v \in a[n - 1]}]
<1>1. \A v, s : own(v, s) = any(v, s)
  BY DEF Visit
<1>2. \A a : ownTable(a) = anyTable(a)
  <2> HIDE DEF found, next, own, any
  <2>1. QED
    BY <1>1
<1>3. (CHOOSE a : a = ownTable(a)) = (CHOOSE a : a = anyTable(a))
  <2> HIDE DEF ownTable, anyTable
  <2>1. QED
    BY <1>2
<1>4. QED
  BY <1>3 DEF Loop, ForEachStop

-----------------------------------------------------------------------------
(* The resting stops                                                       *)

LEMMA RecordedFacts ==
  ASSUME NEW w, Good(w), NEW s \in Stops, Recorded(w, s)
  PROVE  w.venue[s] # "none" /\ s \in Laid(w.mem)
<1>1. /\ OrderOk(w.mem, s, w.venue[s]) /\ s \in Intents
      /\ w.mem.orders[s].reserved \in Nat /\ w.mem.orders[s].filled \in Nat
      /\ w.mem.orders[s].released \in Nat
  BY StopType, OrderFacts
<1>2. w.mem.orders[s].reserved > 0
  BY <1>1 DEF Recorded, RemainingReserved, Truncated
<1>3. QED
  BY <1>1, <1>2 DEF OrderOk, Laid

LEMMA StopMovedKeeps ==
  ASSUME NEW w, NEW s \in Stops, NEW r, StopMoved(w, r, s)
  PROVE  /\ NoLouder(w, r) /\ Quiet(r, s) /\ (Calm(w) => Calm(r))
<1>1. /\ \A b \in Buys : r.venue[b] = w.venue[b]
      /\ \A x \in Exits : r.venue[x] = w.venue[x]
      /\ \A u \in Stops : u # s => r.venue[u] = w.venue[u]
  BY KindsType, StopType DEF StopMoved
<1>2. NoLouder(w, r) /\ Quiet(r, s)
  BY <1>1 DEF StopMoved, NoLouder, Quiet, Recorded
<1>3. Calm(w) => Calm(r)
  BY <1>1 DEF StopMoved, Calm, BuysKept, ExitsKept
<1>4. QED
  BY <1>2, <1>3

LEMMA ProtectiveFillFollows ==
  ASSUME NEW w, Good(w), NEW s \in Stops, w.venue[s] = "filled"
  PROVE  Follows(w, RecordProtectiveFill(w, s))
<1>1. s \in Intents /\ Remaining(w.mem.orders[s], s) \in Nat
  BY StopType, IntentType, OrderFacts, TruncatedType DEF Remaining
<1>2. QED
  BY <1>1, FillFollows DEF RecordProtectiveFill

LEMMA RequestCancelFollows ==
  ASSUME NEW w, Good(w), NEW s \in Stops
  PROVE  Follows(w, RequestCancel(w, s))
<1>1. s \in Intents /\ "CANCEL_REQUESTED" \in PlainEvents
  BY StopType DEF PlainEvents
<1>2. QED
  BY <1>1, PlainEvFollows, FollowsSelf DEF RequestCancel

LEMMA ConfirmCancelFollows ==
  ASSUME NEW w, Good(w), NEW s \in Stops, w.venue[s] \in {"canceled", "rejected"}
  PROVE  Follows(w, ConfirmCancel(w, s))
  BY StopType, EndFollows DEF ConfirmCancel

LEMMA RequireManualFollows ==
  ASSUME NEW w, Good(w), NEW s \in Stops
  PROVE  Follows(w, RequireManual(w, s))
<1>1. s \in Intents /\ "MANUAL_INTERVENTION_REQUIRED" \in PlainEvents
  BY StopType DEF PlainEvents
<1>2. QED
  BY <1>1, PlainEvFollows DEF RequireManual

LEMMA SyncStopFollows ==
  ASSUME NEW w, Good(w), NEW s \in Stops
  PROVE  Follows(w, SyncStop(w, s))
<1> DEFINE v == RequestCancel(w, s)
<1>1. Follows(w, v)
  BY RequestCancelFollows
<1> HIDE DEF v
<1>2. CASE w.venue[s] \in {"canceled", "rejected"}
  <2>1. Good(v) /\ v.venue[s] \in {"canceled", "rejected"}
    BY <1>1, <1>2 DEF Follows, Beside
  <2>2. Follows(w, ConfirmCancel(v, s))
    BY <1>1, <2>1, ConfirmCancelFollows, FollowsFurther
  <2>3. SyncStop(w, s) \in {w, ConfirmCancel(v, s)}
    BY <1>2 DEF SyncStop, v
  <2>4. QED
    BY <2>2, <2>3, FollowsSelf
<1>3. CASE w.venue[s] \notin {"canceled", "rejected"}
  BY <1>3, ProtectiveFillFollows, FollowsSelf DEF SyncStop
<1>4. QED
  BY <1>2, <1>3

LEMMA LoopFollows ==
  ASSUME NEW w, Good(w), NEW loop \in {"sync", "gap"}
  PROVE  Follows(w, Loop(loop, {}, {}, w))
<1> DEFINE G == {v \in Worlds : Follows(w, v)}
<1>1. w \in G
  BY FollowsSelf, GoodType
<1>2. ASSUME NEW v \in G, NEW s \in Stops
      PROVE  Visit(loop, {}, {}, v, s) \in G
  <2>1. Follows(w, v) /\ Good(v)
    BY <1>2 DEF Follows
  <2>2. Follows(v, SyncStop(v, s)) /\ Follows(v, RequireManual(v, s)) /\ Follows(v, v)
    BY <2>1, SyncStopFollows, RequireManualFollows, FollowsSelf
  <2>3. Visit(loop, {}, {}, v, s) \in {SyncStop(v, s), RequireManual(v, s), v}
    BY DEF Visit
  <2>4. Follows(v, Visit(loop, {}, {}, v, s))
    BY <2>2, <2>3
  <2>5. Follows(w, Visit(loop, {}, {}, v, s))
    BY <2>1, <2>4, FollowsFurther
  <2>6. Visit(loop, {}, {}, v, s) \in Worlds
    BY <2>4, GoodType DEF Follows
  <2>7. QED
    BY <2>5, <2>6
<1> HIDE DEF G
<1>3. PICK h \in [0 .. Attempts -> G] : LoopRun(loop, {}, {}, w, h)
  BY <1>1, <1>2, LoopRuns
<1>4. Loop(loop, {}, {}, w) \in G
  BY <1>3, KindsType DEF LoopRun
<1>5. QED
  BY <1>4 DEF G

LEMMA SyncedFollows ==
  ASSUME NEW w, Good(w)
  PROVE  Follows(w, Synced(w))
  BY SyncLoop, LoopFollows

LEMMA MarkGapFollows ==
  ASSUME NEW w, Good(w)
  PROVE  Follows(w, MarkGap(w))
<1>1. CASE w.held = 0
  BY <1>1, FollowsSelf DEF MarkGap
<1>2. CASE w.held # 0
  BY <1>2, GapLoop, LoopFollows
<1>3. QED
  BY <1>1, <1>2

\* The two results of the cancellation are no part of the books.
LEMMA ResultsApart ==
  ASSUME NEW w, Good(w), NEW r \in Worlds, SameBooks(w, r), r.crashes = w.crashes
  PROVE  Good(r) /\ NoLouder(w, r) /\ (Calm(w) => Calm(r))
<1>1. Safe(r) /\ StepOk(r) /\ NoLouder(w, r)
  BY GoodType, SameIsSafe
<1>2. Good(r)
  BY <1>1 DEF Good
<1>3. QED
  BY <1>1, <1>2, SameIsSafe DEF Calm, SameBooks

LEMMA RefuseCalm ==
  ASSUME NEW w, Calm(w), NEW s \in Stops, NEW r, r = Refuse(w, s)
  PROVE  Calm(r) /\ r.refused
<1> DEFINE u == RequireManual(w, s)
           v == MarkGap(u)
<1>1. Follows(w, u) /\ Good(u)
  BY RequireManualFollows DEF Calm, Follows
<1>2. r = [v EXCEPT !.refused = TRUE]
  BY DEF Refuse
<1>3. Follows(u, v)
  <2> HIDE DEF u
  <2>1. QED
    BY <1>1, MarkGapFollows
<1> HIDE DEF u, v
<1>4. Calm(v) /\ Good(v) /\ v \in Worlds
  BY <1>1, <1>3, FollowsKeeps, GoodType DEF Follows
<1>5. /\ r \in Worlds /\ SameBooks(v, r) /\ r.crashes = v.crashes
      /\ r.refused = TRUE
  BY <1>2, <1>4 DEF Worlds, SameBooks
<1>6. QED
  BY <1>4, <1>5, ResultsApart

\* r is w after the stop s was visited by the cancellation: unless that was
\* given up, s is quiet and no other stop was aroused.
Ceded(w, r, s) ==
  /\ Calm(r)
  /\ ~r.refused => ~w.refused /\ NoLouder(w, r) /\ Quiet(r, s)

LEMMA CancelAnsweredOk ==
  ASSUME NEW w, Calm(w), NEW s \in Stops, w.venue[s] # "none", NEW missed,
         NEW r, r = CancelAnswered(w, s, missed)
  PROVE  Calm(r) /\ (~r.refused => ~w.refused /\ NoLouder(w, r) /\ Quiet(r, s))
<1>1. Good(w)
  BY DEF Calm
<1>2. CASE missed
  <2>1. r = Refuse(w, s)
    BY <1>2 DEF CancelAnswered
  <2>2. QED
    BY <2>1, RefuseCalm
<1>3. CASE ~missed /\ w.venue[s] = "filled"
  <2>1. Follows(w, r)
    BY <1>1, <1>3, ProtectiveFillFollows DEF CancelAnswered
  <2>2. r.venue[s] = "filled" /\ r.refused = w.refused /\ NoLouder(w, r)
    BY <1>3, <2>1 DEF Follows, Beside
  <2>3. QED
    BY <2>1, <2>2, FollowsKeeps DEF Quiet
<1>4. CASE ~missed /\ w.venue[s] # "filled"
  <2> DEFINE x == CancelOrder(w, s)
             y == ConfirmCancel(x, s)
  <2>1. /\ StopMoved(w, x, s)
        /\ x.venue[s] = IF w.venue[s] = "open" THEN "canceled" ELSE w.venue[s]
    BY <1>1, CancelOrderOk
  <2>2. r = [y EXCEPT !.canceled = @ \cup {s}]
    BY <1>4 DEF CancelAnswered
  <2>3. w.venue[s] \in {"open", "canceled", "rejected"}
    <3>1. w.venue[s] \in {"none", "open", "filled", "canceled", "rejected"}
      BY <1>1, StopType, OrderFacts
    <3>2. QED
      BY <1>4, <3>1
  <2> HIDE DEF x
  <2>4. Good(x) /\ Calm(x) /\ NoLouder(w, x) /\ Quiet(x, s) /\ x.refused = w.refused
    BY <2>1, StopMovedKeeps DEF StopMoved
  <2>5. x.venue[s] \in {"canceled", "rejected"}
    BY <2>1, <2>3
  <2>6. Follows(x, y)
    BY <2>4, <2>5, ConfirmCancelFollows
  <2> HIDE DEF y
  <2>7. /\ Good(y) /\ Calm(y) /\ NoLouder(x, y) /\ y.refused = x.refused
        /\ y \in Worlds
    BY <2>4, <2>6, FollowsKeeps, GoodType DEF Follows, Beside
  <2>8. /\ r \in Worlds /\ SameBooks(y, r) /\ r.crashes = y.crashes
        /\ r.refused = y.refused
    BY <2>2, <2>7 DEF Worlds, SameBooks
  <2>9. Calm(r) /\ NoLouder(y, r)
    BY <2>7, <2>8, ResultsApart
  <2>10. QED
    BY <2>4, <2>7, <2>8, <2>9 DEF NoLouder
<1>5. QED
  BY <1>2, <1>3, <1>4

LEMMA CancelStopOk ==
  ASSUME NEW w, Calm(w), NEW s \in Stops, NEW fires, NEW missed,
         NEW r, r = CancelStop(w, s, fires, missed)
  PROVE  Ceded(w, r, s)
<1>1. Good(w)
  BY DEF Calm
<1>2. CASE w.refused \/ ~Recorded(w, s)
  <2>1. r = w
    BY <1>2 DEF CancelStop
  <2>2. QED
    BY <1>2, <2>1 DEF Ceded, NoLouder, Quiet
<1>3. CASE ~w.refused /\ Recorded(w, s) /\ w.mem.orders[s].status \notin Cancelable
  <2>1. r = Refuse(w, s)
    BY <1>3 DEF CancelStop
  <2>2. QED
    BY <2>1, RefuseCalm DEF Ceded
<1>4. CASE ~w.refused /\ Recorded(w, s) /\ w.mem.orders[s].status \in Cancelable
  <2> DEFINE u == RequestCancel(w, s)
             v == Fires(u, s, fires)
  <2>1. Follows(w, u)
    BY <1>1, RequestCancelFollows
  <2>2. r = CancelAnswered(v, s, missed)
    BY <1>4 DEF CancelStop
  <2>3. v = u \/ v = Trigger(u, s)
    BY DEF Fires
  <2> HIDE DEF u, v
  <2>4. /\ Good(u) /\ Calm(u) /\ NoLouder(w, u) /\ u.refused = w.refused
        /\ u.venue[s] # "none"
    BY <1>1, <1>4, <2>1, FollowsKeeps, RecordedFacts DEF Follows, Beside
  <2>5. Calm(v) /\ NoLouder(u, v) /\ v.refused = u.refused /\ v.venue[s] # "none"
    <3>1. CASE v = u
      BY <2>4, <3>1 DEF NoLouder
    <3>2. CASE v = Trigger(u, s)
      <4>1. StopMoved(u, v, s)
        BY <2>4, <3>2, TriggerOk
      <4>2. QED
        BY <2>4, <4>1, StopMovedKeeps DEF StopMoved
    <3>3. QED
      BY <2>3, <3>1, <3>2
  <2>6. Calm(r) /\ (~r.refused => ~v.refused /\ NoLouder(v, r) /\ Quiet(r, s))
    BY <2>2, <2>5, CancelAnsweredOk
  <2>7. QED
    BY <2>4, <2>5, <2>6 DEF Ceded, NoLouder
<1>5. QED
  BY <1>2, <1>3, <1>4

\* A cancellation that was not given up leaves no stop that is believed working
\* and can still fire.
LEMMA CancelLoopYields ==
  ASSUME NEW w, Calm(w), NEW A, NEW B, NEW r, r = Loop("cancel", A, B, w)
  PROVE  Calm(r) /\ (~r.refused => Yields(r))
<1> DEFINE G == {v \in Worlds : Calm(v)}
<1>1. w \in G
  BY GoodType DEF Calm
<1>2. ASSUME NEW v \in G, NEW s \in Stops
      PROVE  /\ Ceded(v, Visit("cancel", A, B, v, s), s)
             /\ Visit("cancel", A, B, v, s) \in G
  <2>1. Visit("cancel", A, B, v, s) = CancelStop(v, s, s \in A, s \in B)
    BY DEF Visit
  <2>2. Ceded(v, Visit("cancel", A, B, v, s), s)
    BY <1>2, <2>1, CancelStopOk
  <2>3. QED
    BY <2>2, GoodType DEF Ceded, Calm
<1>3. PICK h \in [0 .. Attempts -> G] : LoopRun("cancel", A, B, w, h)
  <2> HIDE DEF G
  <2>1. QED
    BY <1>1, <1>2, LoopRuns
<1>4. \A n \in 0 .. Attempts : h[n] \in G /\ Calm(h[n]) /\ Laid(h[n].mem) = Laid(mem)
  BY <1>3 DEF Calm
<1> DEFINE S == {n \in 0 .. Attempts :
                   ~h[n].refused => \A t \in Laid(mem) : t[1] =< n => Quiet(h[n], t)}
<1>5. 0 \in S
  <2>1. \A t \in Laid(mem) : t[1] \in Nat /\ t[1] > 0
    BY StopType DEF Laid
  <2>2. QED
    BY <2>1, KindsType
<1>6. ASSUME NEW n \in 1 .. Attempts, n - 1 \in S
      PROVE  n \in S
  <2>1. n \in 0 .. Attempts /\ n - 1 \in 0 .. Attempts
    BY KindsType
  <2>2. Calm(h[n - 1]) /\ h[n - 1] \in G /\ Laid(h[n - 1].mem) = Laid(mem)
    BY <1>4, <2>1
  <2>3. Numbered(h[n - 1].mem)
    BY <2>2, GoodType DEF Calm, Safe
  <2>4. ASSUME ~h[n].refused, NEW t \in Laid(mem), t[1] =< n
        PROVE  Quiet(h[n], t)
    <3>1. t \in Stops /\ t[1] \in Nat /\ Exists(h[n - 1].mem, t)
      BY <2>2, StopType DEF Laid
    <3>2. CASE At(h[n - 1], n) = {} /\ h[n] = h[n - 1]
      <4>1. t[1] # n
        BY <3>1, <3>2 DEF At
      <4>2. QED
        BY <1>6, <2>4, <3>1, <3>2, <4>1
    <3>3. ASSUME NEW s \in At(h[n - 1], n), h[n] = Visit("cancel", A, B, h[n - 1], s)
          PROVE  Quiet(h[n], t)
      <4>1. s \in Stops /\ s[1] = n /\ s \in Laid(h[n - 1].mem)
        BY DEF At, Laid
      <4>2. Ceded(h[n - 1], h[n], s)
        BY <1>2, <2>2, <3>3, <4>1
      <4>3. ~h[n - 1].refused /\ NoLouder(h[n - 1], h[n]) /\ Quiet(h[n], s)
        BY <2>4, <4>2 DEF Ceded
      <4>4. CASE t[1] = n
        <5>1. t = s
          BY <2>2, <2>3, <4>1, <4>4 DEF Numbered
        <5>2. QED
          BY <4>3, <5>1
      <4>5. CASE t[1] # n
        <5>1. Quiet(h[n - 1], t)
          BY <1>6, <2>4, <3>1, <4>3, <4>5
        <5>2. QED
          BY <3>1, <4>3, <5>1 DEF NoLouder
      <4>6. QED
        BY <4>4, <4>5
    <3>4. QED
      BY <1>3, <3>2, <3>3 DEF LoopRun
  <2>5. QED
    BY <2>1, <2>4
<1>7. Attempts \in S
  <2> HIDE DEF S
  <2>1. \A n \in 0 .. Attempts : n \in S
    BY <1>5, <1>6, Climb, KindsType
  <2>2. QED
    BY <2>1, KindsType
<1>8. h[Attempts] = r /\ Calm(r) /\ Good(r) /\ Laid(r.mem) = Laid(mem)
  BY <1>3, <1>4, KindsType DEF Calm, LoopRun
<1>9. ASSUME ~r.refused, NEW t \in Stops
      PROVE  Quiet(r, t)
  <2>1. CASE t \in Laid(mem)
    <3>1. t[1] =< Attempts
      BY StopType
    <3>2. QED
      BY <1>7, <1>8, <1>9, <2>1, <3>1
  <2>2. CASE t \notin Laid(mem)
    BY <1>8, <2>2, RecordedFacts DEF Quiet
  <2>3. QED
    BY <2>1, <2>2
<1>10. QED
  BY <1>8, <1>9 DEF Yields

LEMMA CancelRestingOk ==
  ASSUME NEW w, Calm(w), NEW A, NEW B, NEW r, r = CancelRestingProtection(w, A, B)
  PROVE  Calm(r) /\ (~r.refused => Yields(r))
<1> DEFINE v == Synced(w)
<1>1. Calm(v)
  BY SyncedFollows, FollowsKeeps DEF Calm
<1>2. r = ForEachStop(LAMBDA u, s : CancelStop(u, s, s \in A, s \in B), v)
  BY DEF CancelRestingProtection
<1> HIDE DEF v
<1>3. r = Loop("cancel", A, B, v)
  BY <1>2, CancelLoop
<1>4. QED
  BY <1>1, <1>3, CancelLoopYields

LEMMA UpdatedCalm ==
  ASSUME NEW w, Calm(w), NEW A
  PROVE  Calm(Updated(w, A))
<1> DEFINE G == {v \in Worlds : Calm(v)}
           u == Loop("hit", A, {}, w)
<1>1. w \in G
  BY GoodType DEF Calm
<1>2. ASSUME NEW v \in G, NEW s \in Stops
      PROVE  Visit("hit", A, {}, v, s) \in G
  <2>1. Visit("hit", A, {}, v, s) \in {v, Trigger(v, s)}
    BY DEF Visit
  <2>2. Calm(v) /\ Good(v)
    BY <1>2 DEF Calm
  <2>3. Calm(Trigger(v, s))
    BY <2>2, TriggerOk, StopMovedKeeps
  <2>4. Calm(Visit("hit", A, {}, v, s))
    BY <2>1, <2>2, <2>3
  <2>5. QED
    BY <2>4, GoodType DEF Calm
<1>3. PICK h \in [0 .. Attempts -> G] : LoopRun("hit", A, {}, w, h)
  <2> HIDE DEF G
  <2>1. QED
    BY <1>1, <1>2, LoopRuns
<1>4. Calm(u) /\ Good(u)
  BY <1>3, KindsType DEF LoopRun, Calm
<1>5. u = ForEachStop(LAMBDA v, s : IF s \in A THEN Trigger(v, s) ELSE v, w)
  BY HitLoop
<1>6. Updated(w, A) = Synced(u)
  BY <1>5 DEF Updated
<1> HIDE DEF u
<1>7. QED
  BY <1>4, <1>6, SyncedFollows, FollowsKeeps

-----------------------------------------------------------------------------
(* Sending an order                                                        *)

LEMMA AdmittedTypes ==
  Admitted \in RiskDecision /\ Lifecycle!EmergencyDecision \in RiskDecision
<1>1. Lifecycle!EmergencyDecision =
        [present |-> TRUE, reduce_only |-> TRUE, headroom |-> FALSE,
         evidence |-> [e \in EvidenceOf |-> "KNOWN"], waived |-> FALSE]
  BY DEF Lifecycle!EmergencyDecision, Lifecycle!EvidenceOf, EvidenceOf
<1>2. QED
  BY <1>1 DEF Admitted, RiskDecision, Evidence

\* r is w after the order i was sent, or was not.
Executed(w, r, i) ==
  /\ Good(r) /\ Laid(r.mem) = Laid(w.mem)
  /\ r.canceled = w.canceled /\ r.refused = w.refused
  /\ \A j \in Intents : j # i => r.venue[j] = w.venue[j]
  /\ i \in Buys /\ r.mem.orders[i].filled > 0 => r.held = w.held + Size[i]

LEMMA ExecuteOk ==
  ASSUME NEW w, Good(w), NEW i \in Intents \ Stops,
         i \in Buys => ~Exists(w.mem, i) /\ (Open(w.mem) => EntryDue),
         i \in Exits => Yields(w),
         NEW have, NEW price, NEW fills, NEW r, r = Execute(w, i, have, price, fills)
  PROVE  Executed(w, r, i)
<1> DEFINE u == Request(w, i, Admitted, price)
           v == SubmitMarketOrder(u, i, fills)
<1>1. /\ RequestedFrom(w, i, u)
      /\ Requested(u, i) => /\ u.mem.orders[i].status = "AUTHORIZED"
                            /\ i \in Buys => Open(w.mem)
  BY AdmittedTypes, RequestGood
<1>2. r \in {w, u} \/ (Requested(u, i) /\ r = RecordAnswer(v, i))
  <2>1. CASE Requested(u, i)
    BY <2>1 DEF Execute, SubmitRequested
  <2>2. CASE ~Requested(u, i)
    BY <2>2 DEF Execute, SubmitRequested
  <2>3. QED
    BY <2>1, <2>2
<1> HIDE DEF u
<1>3. /\ Good(u) /\ Laid(u.mem) = Laid(w.mem) /\ u.venue = w.venue /\ u.held = w.held
      /\ u.canceled = w.canceled /\ u.refused = w.refused
      /\ Fresh(u.mem, i) /\ NoLouder(w, u)
  BY <1>1 DEF RequestedFrom, Beside
<1>4. CASE r = w
  <2>1. i \in Buys => ~(w.mem.orders[i].filled > 0)
    BY OrderFacts DEF OrderOk
  <2>2. QED
    BY <1>4, <2>1 DEF Executed
<1>5. CASE r = u
  BY <1>3, <1>5 DEF Executed, Fresh
<1>6. CASE Requested(u, i) /\ r = RecordAnswer(v, i)
  <2>1. Sent(u, v, i)
    <3>1. i \in Buys => EntryDue
      BY <1>1, <1>6
    <3>2. i \in Exits => Yields(u)
      BY <1>3 DEF NoLouder, Yields
    <3>3. QED
      BY <1>1, <1>3, <1>6, <3>1, <3>2, SubmitMarketOrderOk
  <2> HIDE DEF v
  <2>2. Follows(v, r)
    BY <1>6, <2>1, RecordAnswerFollows DEF Sent
  <2>3. r.mem.orders[i].filled > 0 => r.venue[i] = "filled"
    BY <2>2, OrderFacts DEF Follows, OrderOk
  <2>4. QED
    BY <1>3, <2>1, <2>2, <2>3 DEF Sent, Follows, Beside, Executed
<1>7. QED
  BY <1>2, <1>4, <1>5, <1>6

LEMMA RetryOk ==
  ASSUME NEW w, Good(w), NEW i \in Intents \ Stops, NEW have, NEW price,
         NEW r, r = RetryRejected(w, i, have, price)
  PROVE  \/ r = w
         \/ /\ Good(r) /\ Beside(w, r) /\ Laid(r.mem) = Laid(w.mem)
            /\ r.mem.orders[i].filled = 0
<1> DEFINE u == Approved(w, i, Admitted)
           env == Env(w, price)
<1>1. r = w \/ r = Authorized(u, i, env)
  BY DEF RetryRejected
<1>2. Good(u) /\ Beside(w, u) /\ Laid(u.mem) = Laid(w.mem) /\ Fresh(u.mem, i)
  BY AdmittedTypes, ApprovedGood
<1> HIDE DEF u, env
<1>3. CASE r = Authorized(u, i, env)
  <2>1. Follows(u, r) /\ Fresh(r.mem, i)
    BY <1>2, <1>3, AuthorizedOk
  <2>2. QED
    BY <1>2, <2>1 DEF Follows, Beside, Fresh
<1>4. QED
  BY <1>1, <1>3

LEMMA ExecuteWithRetryOk ==
  ASSUME NEW w, Good(w), NEW i \in Intents \ Stops,
         i \in Buys => ~Exists(w.mem, i) /\ (Open(w.mem) => EntryDue),
         i \in Exits => Yields(w),
         NEW have, NEW price, NEW fills,
         NEW r, r = ExecuteWithRetry(w, i, have, price, fills)
  PROVE  Executed(w, r, i)
<1> DEFINE v == Execute(w, i, have, price, fills)
<1>1. Executed(w, v, i)
  BY ExecuteOk
<1>2. r = RetryRejected(v, i, have, price)
  BY DEF ExecuteWithRetry
<1> HIDE DEF v
<1>3. CASE r = v
  BY <1>1, <1>3
<1>4. CASE r # v
  <2>1. /\ Good(r) /\ Beside(v, r) /\ Laid(r.mem) = Laid(v.mem)
        /\ r.mem.orders[i].filled = 0
    BY <1>1, <1>2, <1>4, RetryOk DEF Executed
  <2>2. QED
    BY <1>1, <2>1 DEF Executed, Beside
<1>5. QED
  BY <1>3, <1>4

\* emergency_close
LEMMA EmergencyCloseGood ==
  ASSUME NEW w, Good(w), NEW x \in Exits, Yields(w), NEW fills,
         NEW r, r = EmergencyClose(w, x, fills)
  PROVE  Good(r)
<1> DEFINE u == Request(w, x, Lifecycle!EmergencyDecision, TRUE)
           v == SubmitMarketOrder(u, x, fills)
<1>1. x \in Intents \ Stops /\ x \notin Buys
  BY KindsType
<1>2. /\ RequestedFrom(w, x, u)
      /\ Requested(u, x) => u.mem.orders[x].status = "AUTHORIZED"
  BY <1>1, AdmittedTypes, RequestGood
<1>3. r = u \/ (Requested(u, x) /\ r = RecordFact(v, x))
  <2>1. CASE Requested(u, x)
    BY <2>1 DEF EmergencyClose, RecordRequested
  <2>2. CASE ~Requested(u, x)
    BY <2>2 DEF EmergencyClose, RecordRequested
  <2>3. QED
    BY <2>1, <2>2
<1> HIDE DEF u
<1>4. Good(u) /\ Fresh(u.mem, x) /\ Yields(u)
  BY <1>2 DEF RequestedFrom, NoLouder, Yields
<1>5. CASE Requested(u, x) /\ r = RecordFact(v, x)
  <2>1. Sent(u, v, x)
    BY <1>1, <1>2, <1>4, <1>5, SubmitMarketOrderOk
  <2> HIDE DEF v
  <2>2. Good(v) /\ v.venue[x] \in {"open", "filled", "rejected"}
    BY <2>1 DEF Sent
  <2>3. Recording(v, x, r)
    BY <1>1, <1>5, <2>2, RecordFactOk
  <2>4. QED
    BY <2>3 DEF Recording
<1>6. QED
  BY <1>3, <1>4, <1>5

-----------------------------------------------------------------------------
(* The stop under a new entry                                              *)

LEMMA CreateProtectionFollows ==
  ASSUME NEW w, Good(w), NEW b \in Buys
  PROVE  Follows(w, CreateProtection(w, b))
<1>1. b \in Intents /\ "PROTECTIVE_ORDER_CREATED" \in PlainEvents
  BY KindsType DEF PlainEvents
<1>2. QED
  BY <1>1, PlainEvFollows DEF CreateProtection

\* s is new in z, and the venue accepted it: there is one more stop than there
\* are served entries.
LEMMA AcknowledgeStopGood ==
  ASSUME NEW w, Good(w), NEW z, Good(z), NEW b \in Buys, NEW s \in Stops,
         Served(z.mem) \subseteq Served(w.mem),
         Identified(w.mem) \subseteq Identified(z.mem),
         s \notin Laid(w.mem), z.venue[s] = "open" => s \in Identified(z.mem),
         NEW r, r = AcknowledgeStop(z, b, s)
  PROVE  Good(r) /\ Beside(z, r) /\ Laid(r.mem) = Laid(z.mem)
<1>1. CASE z.venue[s] = "open"
  <2> DEFINE e == Ev("PROTECTIVE_ORDER_ACKNOWLEDGED", b)
  <2>1. /\ e \in Event /\ e.type = "PROTECTIVE_ORDER_ACKNOWLEDGED" /\ e.intent = b
    BY KindsType, NoDecisionType DEF Ev, Event, EventTypes
  <2>2. r = Log(z, e)
    BY <1>1 DEF AcknowledgeStop
  <2>3. s \notin Identified(w.mem)
    BY StopType, OrderFacts DEF OrderOk, Identified, Laid
  <2> DEFINE I == Identified(w.mem)
             J == Identified(z.mem)
  <2>4. /\ IsFiniteSet(I) /\ Cardinality(I) \in Nat
        /\ IsFiniteSet(J) /\ Cardinality(J) \in Nat
    BY CardOfStops DEF Identified
  <2>5. Cardinality(I) < Cardinality(J)
    <3>1. I \cup {s} \subseteq J
      BY <1>1
    <3>2. IsFiniteSet(I \cup {s}) /\ Cardinality(I \cup {s}) = Cardinality(I) + 1
      <4> HIDE DEF I, J
      <4>1. s \notin I
        BY <2>3 DEF I
      <4>2. QED
        BY <2>4, <4>1, FS_AddElement
    <3>3. Cardinality(I \cup {s}) =< Cardinality(J)
      <4> HIDE DEF I, J
      <4>1. QED
        BY <2>4, <3>1, FS_Subset
    <3> HIDE DEF I, J
    <3>4. QED
      BY <2>4, <3>2, <3>3
  <2>6. Cardinality(Served(z.mem)) =< Cardinality(Served(w.mem))
    <3>1. Served(w.mem) \subseteq Buys
      BY DEF Served
    <3>2. QED
      BY <3>1, CardOfBuys, FS_Subset
  <2>7. Cardinality(Served(w.mem)) =< Cardinality(I)
    BY GoodType DEF Safe, Counted
  <2>8. Cardinality(Served(w.mem)) \in Nat /\ Cardinality(Served(z.mem)) \in Nat
    BY CardOfBuys DEF Served
  <2>9. Cardinality(Served(z.mem)) < Cardinality(J)
    <3> HIDE DEF I, J
    <3>1. QED
      BY <2>4, <2>5, <2>6, <2>7, <2>8
  <2> HIDE DEF e
  <2>10. Justified(z.mem, e, z.venue[e.intent])
    BY <2>1, <2>9 DEF Justified, BookingEvents
  <2>11. Logged(z, e, r)
    BY <2>1, <2>2, <2>10, LogGood
  <2>12. QED
    BY <2>1, <2>11 DEF Logged
<1>2. CASE z.venue[s] # "open"
  BY <1>2 DEF AcknowledgeStop, Beside
<1>3. QED
  BY <1>1, <1>2

\* Unless the attempts are over, r has one more stop than w.
Attempted(w, r, b) ==
  /\ Good(r) /\ ExitsKept(r) /\ r.held = w.held
  /\ Ended(r, b) \/ Cardinality(Laid(r.mem)) = Cardinality(Laid(w.mem)) + 1

LEMMA PlaceStopOk ==
  ASSUME NEW w, Good(w), ExitsKept(w), NEW b \in Buys,
         Ended(w, b) \/ NextStop(w) \in Stops, NEW rests,
         NEW r, r = PlaceStop(w, b, rests)
  PROVE  Attempted(w, r, b)
<1>1. CASE Ended(w, b)
  BY <1>1 DEF PlaceStop, Attempted
<1>2. CASE ~Ended(w, b)
  <2> DEFINE s == NextStop(w)
             v == Request(w, s, Lifecycle!EmergencyDecision, TRUE)
  <2>1. s \in Stops /\ s \in Intents /\ s \notin Exits /\ s \notin Buys
    BY <1>2, StopType
  <2>2. Unused(w.mem, s)
    BY DEF NextStop, Unused, Laid
  <2>3. r = PlaceRequested(v, b, s, rests)
    BY <1>2 DEF PlaceStop
  <2> HIDE DEF s
  <2>4. /\ RequestedFrom(w, s, v)
        /\ Requested(v, s) => v.mem.orders[s].status = "AUTHORIZED"
    BY <2>1, <2>2, AdmittedTypes, RequestGood
  <2> HIDE DEF v
  <2>5. s \notin Laid(w.mem)
    BY <2>1, <2>2, GoodType, UnusedIsNew DEF Safe
  <2>6. /\ Good(v) /\ v \in Worlds /\ v.venue = w.venue /\ v.held = w.held
        /\ ExitsKept(v) /\ Laid(v.mem) = Laid(w.mem) \cup {s} /\ Fresh(v.mem, s)
        /\ Identified(w.mem) \subseteq Identified(v.mem)
        /\ Served(v.mem) \subseteq Served(w.mem)
    BY <2>1, <2>4, GoodType DEF RequestedFrom, Beside, ExitsKept
  <2>7. Cardinality(Laid(w.mem) \cup {s}) = Cardinality(Laid(w.mem)) + 1
    <3>1. IsFiniteSet(Laid(w.mem))
      BY CardOfStops DEF Laid
    <3>2. QED
      BY <2>5, <3>1, FS_AddElement
  <2>8. CASE ~Requested(v, s)
    <3>1. r = [v EXCEPT !.refused = TRUE]
      BY <2>3, <2>8 DEF PlaceRequested
    <3>2. /\ r \in Worlds /\ SameBooks(v, r) /\ r.crashes = v.crashes
          /\ r.refused = TRUE /\ r.held = v.held
      BY <2>6, <3>1 DEF Worlds, SameBooks
    <3>3. Good(r) /\ ExitsKept(r)
      BY <2>6, <3>2, ResultsApart, SameIsSafe
    <3>4. QED
      BY <2>6, <3>2, <3>3 DEF Attempted, Ended
  <2>9. CASE Requested(v, s)
    <3> DEFINE x == StartIo(v, s)
               y == PlaceStopOrder(x, s, rests)
               z == RecordFact(y, s)
    <3>1. r = AcknowledgeStop(z, b, s)
      BY <2>3, <2>9 DEF PlaceRequested
    <3>2. /\ Follows(v, x) /\ Fresh(x.mem, s)
          /\ x.mem.orders[s].status = v.mem.orders[s].status
      BY <2>1, <2>6, StartIoOk
    <3> HIDE DEF x
    <3>3. Good(x) /\ ExitsKept(x) /\ Unsettled(x.mem, s) /\ x.venue \in Venues
      BY <2>4, <2>6, <2>9, <3>2, FollowsKeeps, GoodType DEF Follows, Fresh, Unsettled
    <3>4. /\ Moved(x, y, s, y.venue[s]) /\ y.venue[s] \in {"open", "rejected"}
          /\ y.held = x.held
      BY <2>1, <3>3, PlaceStopOrderOk
    <3> HIDE DEF y
    <3>5. Good(y) /\ y.mem = x.mem /\ ExitsKept(y)
      BY <2>1, <3>3, <3>4, KindsType DEF Moved, ExitsKept, Venues
    <3>6. Recording(y, s, z)
      BY <2>1, <3>4, <3>5, RecordFactOk
    <3> HIDE DEF z
    <3>7. /\ Good(z) /\ ExitsKept(z) /\ z.held = w.held
          /\ Laid(z.mem) = Laid(w.mem) \cup {s}
          /\ Identified(w.mem) \subseteq Identified(z.mem)
          /\ Served(z.mem) \subseteq Served(w.mem)
          /\ z.venue[s] = "open" => s \in Identified(z.mem)
      BY <2>6, <3>2, <3>4, <3>5, <3>6 DEF Recording, Follows, Beside, ExitsKept
    <3>8. Good(r) /\ Beside(z, r) /\ Laid(r.mem) = Laid(z.mem)
      BY <2>1, <2>5, <3>1, <3>7, AcknowledgeStopGood
    <3>9. QED
      BY <2>7, <3>7, <3>8 DEF Beside, ExitsKept, Attempted
  <2>10. QED
    BY <2>8, <2>9
<1>3. QED
  BY <1>1, <1>2

LEMMA ProtectOk ==
  ASSUME NEW w, Good(w), ExitsKept(w), NEW b \in Buys, NEW failures,
         \A n \in {1, 2} : <<n + Cardinality(Laid(w.mem)), w.held>> \in Stops,
         NEW r, r = Protect(w, b, failures)
  PROVE  Good(r)
<1> DEFINE u == CreateProtection(w, b)
           v == PlaceStop(u, b, failures = 0)
           x == PlaceStop(v, b, failures < 2)
<1>1. r = Degrade(x, b)
  BY DEF Protect
<1>2. Follows(w, u)
  BY CreateProtectionFollows
<1> HIDE DEF u
<1>3. /\ Good(u) /\ ExitsKept(u) /\ u.held = w.held
      /\ Laid(u.mem) = Laid(w.mem)
  BY <1>2, FollowsKeeps DEF Follows, Beside
<1>4. \A q : NextStop(q) = <<1 + Cardinality(Laid(q.mem)), q.held>>
  BY DEF NextStop, Laid
<1>5. Cardinality(Laid(w.mem)) \in Nat
  BY CardOfStops DEF Laid
<1>6. NextStop(u) \in Stops
  BY <1>3, <1>4
<1>7. Attempted(u, v, b)
  BY <1>3, <1>6, PlaceStopOk
<1> HIDE DEF v
<1>8. Ended(v, b) \/ NextStop(v) \in Stops
  <2>1. CASE Cardinality(Laid(v.mem)) = Cardinality(Laid(u.mem)) + 1
    <3>1. NextStop(v) = <<2 + Cardinality(Laid(w.mem)), w.held>>
      BY <1>3, <1>4, <1>5, <1>7, <2>1 DEF Attempted
    <3>2. QED
      BY <3>1
  <2>2. QED
    BY <1>7, <2>1 DEF Attempted
<1>9. Good(x)
  BY <1>7, <1>8, PlaceStopOk DEF Attempted
<1> HIDE DEF x
<1>10. QED
  BY <1>1, <1>9, CreateProtectionFollows DEF Degrade, Follows

-----------------------------------------------------------------------------
(* The calls                                                               *)

LEMMA EnterGood ==
  ASSUME IInv, NEW b \in Buys, ~Exists(mem, b), Attemptable(b),
         NEW price, NEW fills, NEW failures
  PROVE  Good(ProtectFilled(ExecuteWithRetry(World, b, held, price, fills), b, failures))
<1> DEFINE w == World
           v == ExecuteWithRetry(w, b, held, price, fills)
           r == ProtectFilled(v, b, failures)
<1>1. /\ Good(w) /\ w.mem = mem /\ w.venue = venue /\ w.held = held
      /\ Counted(mem)
  BY WorldGood, GoodType DEF Calm, Safe
<1>2. b \in Intents \ Stops /\ b \notin Exits /\ Size[b] \in Nat
  BY KindsType, IntentType
<1> HIDE DEF w
<1>3. Executed(w, v, b)
  BY <1>1, <1>2, OpenIsDue, ExecuteWithRetryOk
<1> HIDE DEF v
<1>4. Good(v) /\ ExitsKept(v) /\ Laid(v.mem) = Laid(mem)
  BY <1>1, <1>2, <1>3, KindsType DEF Executed, ExitsKept
<1>5. ASSUME v.mem.orders[b].filled > 0
      PROVE  Good(Protect(v, b, failures))
  <2>1. v.held = held + Size[b]
    BY <1>1, <1>3, <1>5 DEF Executed
  <2>2. \A n \in {1, 2} : <<n + Cardinality(Laid(v.mem)), v.held>> \in Stops
    BY <1>4, <2>1 DEF Attemptable, Laid
  <2>3. QED
    BY <1>4, <2>2, ProtectOk
<1>6. Good(r)
  BY <1>4, <1>5 DEF ProtectFilled
<1>7. QED
  BY <1>6 DEF v, w

LEMMA ExitGood ==
  ASSUME IInv, NEW x \in Exits, NEW price, NEW fills, NEW fired, NEW missed
  PROVE  Good(ExitCancelled(CancelRestingProtection(World, fired, missed),
                            x, held, price, fills))
<1> DEFINE w == CancelRestingProtection(World, fired, missed)
           v == ExecuteWithRetry(w, x, held, price, fills)
<1>1. Calm(w) /\ Good(w) /\ (~w.refused => Yields(w))
  BY WorldGood, CancelRestingOk DEF Calm
<1>2. x \in Intents \ Stops /\ x \notin Buys
  BY KindsType
<1> HIDE DEF w
<1>3. CASE w.refused
  BY <1>1, <1>3 DEF ExitCancelled, w
<1>4. CASE ~w.refused
  <2>1. Executed(w, v, x)
    BY <1>1, <1>2, <1>4, ExecuteWithRetryOk
  <2> HIDE DEF v
  <2>2. Good(v) /\ Good(MarkGap(v))
    BY <2>1, MarkGapFollows DEF Executed, Follows
  <2>3. Good(MarkUnfilled(v, x))
    BY <2>2 DEF MarkUnfilled
  <2>4. QED
    BY <1>4, <2>3 DEF ExitCancelled, v, w
<1>5. QED
  BY <1>3, <1>4

LEMMA CloseGood ==
  ASSUME IInv, NEW x \in Exits, NEW price, NEW fills, NEW fired, NEW missed
  PROVE  Good(CloseCancelled(CancelRestingProtection(World, fired, missed),
                             x, price, fills))
<1> DEFINE w == CancelRestingProtection(World, fired, missed)
           v == IF price THEN EmergencyClose(w, x, fills) ELSE w
<1>1. Good(w) /\ (~w.refused => Yields(w))
  BY WorldGood, CancelRestingOk DEF Calm
<1> HIDE DEF w
<1>2. CASE w.refused \/ w.held = 0
  BY <1>1, <1>2 DEF CloseCancelled, w
<1>3. CASE ~(w.refused \/ w.held = 0)
  <2>1. Good(EmergencyClose(w, x, fills))
    BY <1>1, <1>3, EmergencyCloseGood
  <2>2. Good(v)
    BY <1>1, <2>1
  <2>3. CloseCancelled(w, x, price, fills) = MarkGap(v)
    BY <1>3 DEF CloseCancelled
  <2> HIDE DEF v
  <2>4. QED
    BY <2>2, <2>3, MarkGapFollows DEF Follows, w
<1>4. QED
  BY <1>2, <1>3

LEMMA UpdateGood ==
  ASSUME IInv, NEW hit
  PROVE  Good(Updated(World, hit))
  BY WorldGood, UpdatedCalm DEF Calm

-----------------------------------------------------------------------------
(* The theorems                                                            *)

\* What a step may do to the venue.
StepAllowed ==
  /\ (\A b \in Buys : venue'[b] = venue[b]) \/ EntryDue
  /\ \/ \A x \in Exits : venue'[x] = venue[x]
     \/ \A s \in Stops : RemainingReserved(mem'.orders[s]) > 0 => venue'[s] # "open"

LEMMA CommitOk ==
  ASSUME IInv, NEW w, Good(w), Commit(w)
  PROVE  IInv' /\ StepAllowed
<1>1. PICK c : /\ c = w \/ c \in w.crashes
               /\ mem' = c.mem /\ venue' = c.venue /\ held' = c.held
  BY DEF Commit, Become
<1>2. deaths' \in Nat
  BY PaperAssumption DEF Commit, IInv, TypeOK
<1>3. /\ c.mem \in State /\ c.venue \in Venues /\ c.held \in Nat
      /\ Safe(c) /\ StepOk(c)
  <2>1. CASE c = w
    BY <2>1, GoodType
  <2>2. CASE c \in w.crashes
    BY <2>2, GoodType DEF Good, Cores
  <2>3. QED
    BY <1>1, <2>1, <2>2
<1>4. TypeOK'
  BY <1>1, <1>2, <1>3 DEF TypeOK, Venues
<1>5. Safe(World)'
  BY <1>1, <1>3
  DEF Safe, World, OrderOk, Numbered, Counted, Served, Identified, Laid, Exists
<1>6. StepAllowed
  BY <1>1, <1>3
  DEF StepOk, StepAllowed, BuysKept, ExitsKept, Yields, Quiet, Recorded
<1>7. QED
  BY <1>4, <1>5, <1>6 DEF IInv

LEMMA InitIInv ==
  ASSUME Init
  PROVE  IInv
<1>1. TypeOK
  BY EmptyStateType DEF Init, TypeOK
<1>2. \A i \in Intents : mem.orders[i] = NewOrder("ABSENT")
  BY DEF Init, EmptyState
<1>3. \A i \in Intents : OrderOk(mem, i, venue[i])
  BY <1>2 DEF OrderOk, NewOrder
<1>4. Laid(mem) = {} /\ Identified(mem) = {} /\ Served(mem) = {}
  BY <1>2, KindsType DEF Laid, Exists, Identified, Served, NewOrder
<1>5. Numbered(mem) /\ Counted(mem)
  BY <1>4, FS_EmptySet DEF Numbered, Counted
<1>6. Safe(World)
  BY <1>3, <1>5 DEF Safe, World
<1>7. QED
  BY <1>1, <1>6 DEF IInv

LEMMA NextOk ==
  ASSUME IInv, Next
  PROVE  IInv' /\ StepAllowed
<1>1. ASSUME NEW b \in Buys, NEW m \in Markets, NEW failures \in 0 .. 2,
             Enter(b, m[1], m[2], failures)
      PROVE  IInv' /\ StepAllowed
  BY <1>1, EnterGood, CommitOk DEF Enter
<1>2. ASSUME NEW x \in Exits, NEW m \in Markets, NEW fired \in SUBSET Resting,
             NEW missed \in Missed, Exit(x, m[1], m[2], fired, missed)
      PROVE  IInv' /\ StepAllowed
  BY <1>2, ExitGood, CommitOk DEF Exit
<1>3. ASSUME NEW x \in Exits, NEW m \in Markets, NEW fired \in SUBSET Resting,
             NEW missed \in Missed, ClosePosition(x, m[1], m[2], fired, missed)
      PROVE  IInv' /\ StepAllowed
  BY <1>3, CloseGood, CommitOk DEF ClosePosition
<1>4. ASSUME NEW hit \in SUBSET Resting, UpdatePrices(hit)
      PROVE  IInv' /\ StepAllowed
  BY <1>4, UpdateGood, CommitOk DEF UpdatePrices
<1>5. QED
  BY <1>1, <1>2, <1>3, <1>4 DEF Next

LEMMA StutterOk ==
  ASSUME IInv, UNCHANGED vars
  PROVE  IInv'
<1>1. TypeOK'
  BY DEF vars, IInv, TypeOK
<1>2. Safe(World)'
  BY DEF vars, IInv, Safe, World, OrderOk, Numbered, Counted, Served, Identified,
         Laid, Exists
<1>3. QED
  BY <1>1, <1>2 DEF IInv

\* In every state, and in every state a death inside a call leaves, what the
\* lifecycle says of an order is true of the venue, each attempt placed at most
\* one stop, and each entry that no longer waits for protection has a stop that
\* the venue accepted.
THEOREM PaperInvariant == Spec => []IInv
<1>1. Init => IInv
  BY InitIInv
<1>2. IInv /\ [Next]_vars => IInv'
  BY NextOk, StutterOk
<1>3. QED
  BY <1>1, <1>2, PTL DEF Spec

\* The engine's two books always have their types.
THEOREM PaperTypeCorrect == Spec => []TypeOK
<1>1. IInv => TypeOK
  BY DEF IInv
<1>2. QED
  BY <1>1, PaperInvariant, PTL

\* The lifecycle never books what the paper venue did not do, whatever fired, got
\* lost or died on the way.
THEOREM BooksNeverLie == Spec => []BooksMatchVenue
<1>1. IInv => BooksMatchVenue
  BY DEF IInv, Safe, World, OrderOk, BooksMatchVenue
<1>2. QED
  BY <1>1, PaperInvariant, PTL

\* No exit reaches the venue while a stop the lifecycle believes working can
\* still sell the same inventory.
THEOREM ExitsWaitForStops == Spec => StopsYieldToExits
<1> DEFINE A == \A x \in Exits :
                  (venue[x] = "none" /\ venue'[x] # "none") =>
                    \A s \in Stops : RemainingReserved(mem'.orders[s]) > 0
                                       => venue'[s] # "open"
<1>1. IInv /\ [Next]_vars => [A]_vars
  BY NextOk DEF StepAllowed
<1> HIDE DEF A
<1>2. Spec => [][A]_vars
  BY <1>1, PaperInvariant, PTL DEF Spec
<1>3. QED
  BY <1>2 DEF A, StopsYieldToExits

\* No entry reaches the venue while a stop is in dispute or an earlier booked
\* entry never got a stop that the venue accepted.
THEOREM EntriesWaitForStops == Spec => EntryWaitsForProtection
<1> DEFINE A == \A b \in Buys :
                  (venue[b] = "none" /\ venue'[b] # "none") =>
                    /\ ~mem.manual_blocked
                    /\ Cardinality({c \in Buys : mem.orders[c].filled > 0}) =<
                         Cardinality({s \in Stops : mem.orders[s].exchange_id})
<1>1. IInv /\ [Next]_vars => [A]_vars
  BY NextOk DEF StepAllowed, EntryDue, Identified
<1> HIDE DEF A
<1>2. Spec => [][A]_vars
  BY <1>1, PaperInvariant, PTL DEF Spec
<1>3. QED
  BY <1>2 DEF A, EntryWaitsForProtection
=============================================================================
