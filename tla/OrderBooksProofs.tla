--------------------------- MODULE OrderBooksProofs ---------------------------
(***************************************************************************)
(* What the books of the execution lifecycle say of each order: its fills  *)
(* only grow, an authorization is for the whole order and rests on a risk  *)
(* decision or on an inventory, its key is its own, and its lock is the    *)
(* same in the store's table and in the replayed state.                    *)
(*                                                                         *)
(* ExecutionLifecycleProofs shows that the worlds a command builds are     *)
(* consistent; this module adds to those worlds what the replayed orders,  *)
(* the rows and the registry say together, and walks the commands once     *)
(* more.  Two facts hold only for callers that refrain from some commands: *)
(* they are hypotheses of the theorems that need them.                     *)
(***************************************************************************)
EXTENDS ExecutionLifecycleProofs

\* Every intent goes through the registry of idempotency keys.
KeysAreRegistered == "emergency_reduce" \notin Commands

\* Fills are recorded by receive_fill, which checks them against the lock: no
\* raw broker answer is recorded for an order without one.
FillsFollowLocks ==
  Commands \cap {"record_broker_submit_result",
                 "record_reconciled_broker_submit_result"} = {}

\* The venue reports an inventory to some call.
VenueReports == \E env \in Envs : env.known

\* A decision that leaves room for new exposure.
Admits(d) == d.present /\ d.headroom /\ ~d.reduce_only

\* A quantity within an inventory the venue has reported.
Offered(n) == \E env \in Envs : env.known /\ n =< env.free

\* What the log says of one order.
OrderFacts(o, i) ==
  /\ o.filled =< Size[i]
  /\ o.status = "ABSENT" => o.filled = 0
  /\ o.status = "AUTHORIZED" => o.authorized = Size[i]
  /\ i \in Buys /\ o.authorized > 0 =>
       o.status \notin {"ABSENT", "PENDING", "APPROVED"} /\ Admits(o.risk)
  /\ i \in Sells /\ o.authorized > 0 => Offered(o.authorized)

\* The sells whose lock is kept in the store.
Lockable == Sells \ Protective

\* The lock of a sell order, in its order and in its row.
LockFacts(o, r, i) ==
  IF r.status = "none" THEN o.reserved = 0 /\ o.filled = 0 /\ o.released = 0
  ELSE /\ o.status # "ABSENT"
       /\ o.reserved = Size[i] /\ r.reserved = o.reserved
       /\ r.filled = o.filled /\ r.released = o.released
       /\ r.status = "active" => o.released = 0 /\ o.filled < o.reserved
       /\ r.status = "filled" => o.released = 0 /\ o.filled = o.reserved
       /\ r.status \in {"canceled", "rejected"} => o.filled + o.released = o.reserved

\* A state knows the risk decisions of the log, or none.
RiskFrom(s, t) ==
  \A j \in Intents :
    /\ Exists(s, j) <=> Exists(t, j)
    /\ s.orders[j].risk.present => s.orders[j].risk = t.orders[j].risk

KeyFacts(w) ==
  /\ \A i \in Intents : Exists(w.replayed, i) => i \in w.registered
  /\ \A i, j \in w.registered : KeyOf[i] = KeyOf[j] => i = j

\* Only the lockable sells have rows, and the rows fit the inventory.
RowFacts(s, book) ==
  /\ \A i \in Lockable : LockFacts(s.orders[i], book[i], i)
  /\ \A i \in Intents : i \notin Lockable => book[i].status = "none"
  /\ VenueReports => \A i \in Sells : Offered(ActiveRows(book, SymbolOf[i]))

\* What holds of the durable part of a world and of what load() makes of it.
Books(w) ==
  /\ \A i \in Intents : OrderFacts(w.replayed.orders[i], i)
  /\ RiskFrom(w.recovered, w.replayed)
  /\ KeysAreRegistered => KeyFacts(w)
  /\ FillsFollowLocks => RowFacts(w.replayed, w.rows)

\* No fill of the floor is lost.
Grown(w, floor) == \A i \in Intents : w.replayed.orders[i].filled >= floor[i]

CrashesBooked(w, floor) ==
  \A c \in w.crashes : Books(c) /\ RiskFrom(c.mem, c.replayed) /\ Grown(c, floor)

Booked(w, floor) ==
  /\ Books(w) /\ RiskFrom(w.mem, w.replayed) /\ Grown(w, floor)
  /\ CrashesBooked(w, floor)

Floors == [Intents -> Nat]

-----------------------------------------------------------------------------
(* The permission gate, asked about an exit and about an entry.            *)

\* A sell within a known inventory passes every control.
LEMMA ExitPasses ==
  ASSUME NEW c, c.size > 0, c.broker_state = "none", c.inventory_known,
         ~(c.size > c.free), c.effect = "REDUCE"
  PROVE  ~Blocked(c)
<1>1. c.size # 0
  OBVIOUS
<1>2. ~InventoryRefuses(c) /\ SafeReduce(c) /\ RiskObjection(c) = ""
  BY DEF InventoryRefuses, SafeReduce, RiskObjection
<1>3. QED
  BY <1>1, <1>2 DEF Blocked, EvaluateOrderPermission, Degraded, Result

\* An entry that is not a draft passes only with a decision that admits it.
LEMMA EntryRests ==
  ASSUME NEW c, ~Blocked(c), c.side = "buy", c.effect \in {"INCREASE", "NEUTRAL"},
         ~c.draft
  PROVE  c.risk.present /\ c.risk.headroom /\ ~c.risk.reduce_only
<1>1. ~SafeReduce(c)
  BY DEF SafeReduce
<1>2. RiskObjection(c) = "" /\ ~(c.risk.present /\ c.risk.reduce_only)
  BY <1>1 DEF Blocked, EvaluateOrderPermission, Degraded, Result
<1>3. QED
  BY <1>2 DEF RiskObjection

\* A sell that passes with the inventory enforced is within it.
LEMMA SellIsCovered ==
  ASSUME NEW c, ~Blocked(c), c.side = "sell", c.enforce_inventory
  PROVE  c.inventory_known /\ ~(c.size > c.free)
  BY DEF Blocked, EvaluateOrderPermission, InventoryRefuses, Result
-----------------------------------------------------------------------------
(* Events and the facts about one order.                                   *)

\* What the commands have checked when they append an event.
Fits(s, e) ==
  /\ e.type = "ORDER_INTENT_CREATED" => ~Exists(s, e.intent)
  /\ e.type = "RISK_APPROVED" =>
       s.orders[e.intent].status \in {"PENDING", "APPROVED"}
  /\ e.type = "ORDER_AUTHORIZED" =>
       /\ e.authorized = Size[e.intent]
       /\ e.intent \in Buys => Admits(s.orders[e.intent].risk)
  /\ e.type \in {"ORDER_AUTHORIZED", "ORDER_SUBMITTED"} =>
       (e.intent \in Sells /\ e.authorized > 0 => Offered(e.authorized))

LEMMA NewOrderFacts ==
  ASSUME NEW i \in Intents, NEW status \in {"ABSENT", "PENDING"}
  PROVE  OrderFacts(NewOrder(status), i)
  BY IntentsAssumption DEF OrderFacts, NewOrder

LEMMA ApplyFacts ==
  ASSUME NEW s \in State, NEW e \in Event, Fits(s, e),
         NEW r, r = Apply(s, e), NEW j \in Intents, OrderFacts(s.orders[j], j)
  PROVE  OrderFacts(r.orders[j], j) /\ r.orders[j].filled >= s.orders[j].filled
<1> DEFINE o == s.orders[j]
           p == r.orders[j]
<1>1. o \in Order /\ Size[j] \in Nat /\ e.type \in EventTypes /\ e.qty \in Nat
      /\ r \in State
  BY IntentsAssumption, ApplyType DEF State, Event
<1>2. o.filled \in Nat /\ o.authorized \in Nat /\ p \in Order
  BY <1>1 DEF Order, State
<1>3. CASE j # e.intent
  <2>1. p = o
    BY <1>3, ApplyElsewhere
  <2>2. QED
    BY <1>2, <2>1
<1>4. CASE j = e.intent /\ e.type = "ORDER_INTENT_CREATED"
  <2>1. p = NewOrder("PENDING")
    BY <1>4, ApplyAt
  <2>2. o.filled = 0
    BY <1>4 DEF Fits, OrderFacts, Exists
  <2>3. p.filled = 0
    BY <2>1 DEF NewOrder
  <2>4. QED
    BY <1>4, <2>1, <2>2, <2>3, NewOrderFacts
<1>5. CASE j = e.intent /\ e.type # "ORDER_INTENT_CREATED" /\ ~Exists(s, j)
  <2>1. p = o
    BY <1>5, ApplyAt
  <2>2. QED
    BY <1>2, <2>1
<1>6. CASE j = e.intent /\ e.type # "ORDER_INTENT_CREATED" /\ Exists(s, j)
  <2>1. /\ e.type # "RISK_APPROVED" => p.risk = o.risk
        /\ e.type \notin {"ORDER_AUTHORIZED", "ORDER_SUBMITTED"} =>
             p.authorized = o.authorized
        /\ e.type \notin FillEvents => p.filled = o.filled
    BY <1>6, ApplyAt
  <2>2. o.status # "ABSENT" /\ p.status # "ABSENT"
    BY <1>6, ApplyAt DEF Exists
  <2>3. p.filled >= o.filled /\ p.filled =< Size[j]
    <3>1. CASE e.type \in FillEvents
      <4>1. p.filled = IF o.filled + e.qty < Size[j] THEN o.filled + e.qty ELSE Size[j]
        BY <1>6, <3>1, ApplyStatus
      <4>2. QED
        BY <1>1, <1>2, <4>1 DEF OrderFacts
    <3>2. CASE e.type \notin FillEvents
      BY <1>2, <2>1, <3>2 DEF OrderFacts
    <3>3. QED
      BY <3>1, <3>2
  <2>4. CASE e.type = "RISK_APPROVED"
    <3>1. p.status = "APPROVED"
      BY <1>6, <2>4, ApplyStatus
    <3>2. QED
      BY <1>2, <1>6, <2>1, <2>2, <2>3, <2>4, <3>1 DEF Fits, OrderFacts, FillEvents
  <2>5. CASE e.type = "ORDER_AUTHORIZED"
    <3>1. p.status = "AUTHORIZED" /\ p.authorized = e.authorized
      BY <1>6, <2>5, ApplyStatus
    <3>2. QED
      BY <1>6, <2>1, <2>3, <2>5, <3>1 DEF Fits, OrderFacts
  <2>6. CASE e.type = "ORDER_SUBMITTED"
    <3>1. /\ p.status = IF o.status \in {"APPROVED", "AUTHORIZED", "MANUAL"}
                        THEN "SUBMITTED" ELSE o.status
          /\ p.authorized = IF j \in Sells THEN e.authorized ELSE o.authorized
      BY <1>6, <2>6, ApplyStatus, ApplyLock
    <3>2. j \in Buys => j \notin Sells
      BY IntentsAssumption
    <3>3. QED
      BY <1>6, <2>1, <2>2, <2>3, <2>6, <3>1, <3>2 DEF Fits, OrderFacts
  <2>7. CASE e.type \notin {"RISK_APPROVED", "ORDER_AUTHORIZED", "ORDER_SUBMITTED"}
    <3>1. p.status \in {"PENDING", "APPROVED", "AUTHORIZED"} => p.status = o.status
      <4>1. CASE e.type \in SettlingEvents
        BY <1>6, <4>1, ApplyStatus DEF SettledStatus
      <4>2. CASE e.type \in FillEvents
        BY <1>6, <4>2, ApplyStatus
      <4>3. CASE e.type \in {"BROKER_STATE_UNKNOWN", "MANUAL_INTERVENTION_REQUIRED",
                             "CANCEL_REQUESTED", "CANCEL_CONFIRMED"}
        BY <1>6, <4>3, ApplyStatus
      <4>4. CASE e.type \in {"BROKER_SUBMISSION_REQUESTED", "BROKER_IO_STARTED",
                             "RECONCILIATION_STARTED", "RECONCILIATION_RESOLVED"}
        BY <1>6, <4>4, ApplyStatus
      <4>5. CASE e.type \in {"PROTECTIVE_ORDER_CREATED",
                             "PROTECTIVE_ORDER_ACKNOWLEDGED"}
        BY <1>6, <4>5, ApplyLock
      <4>6. QED
        BY <1>1, <1>6, <2>7, <4>1, <4>2, <4>3, <4>4, <4>5
        DEF EventTypes, SettlingEvents, FillEvents
    <3>2. QED
      BY <2>1, <2>2, <2>3, <2>7, <3>1 DEF OrderFacts
  <2>8. QED
    BY <2>4, <2>5, <2>6, <2>7
<1>7. QED
  BY <1>3, <1>4, <1>5, <1>6

\* Only an approval changes what a state knows of the risk decisions.
LEMMA ApplyRisk ==
  ASSUME NEW s \in State, NEW t \in State, NEW e \in Event,
         \A j \in Intents :
           /\ Exists(s, j) <=> Exists(t, j)
           /\ s.orders[j].risk.present =>
                \/ s.orders[j].risk = t.orders[j].risk
                \/ /\ e.type = "RISK_APPROVED" /\ j = e.intent
                   /\ Exists(s, j) /\ s.orders[j].risk = e.risk
  PROVE  RiskFrom(Apply(s, e), Apply(t, e))
<1> DEFINE x == Apply(s, e)
           y == Apply(t, e)
<1> SUFFICES ASSUME NEW j \in Intents
             PROVE  /\ Exists(x, j) <=> Exists(y, j)
                    /\ x.orders[j].risk.present =>
                         x.orders[j].risk = y.orders[j].risk
  BY DEF RiskFrom
<1>1. CASE j # e.intent
  <2>1. x.orders[j] = s.orders[j] /\ y.orders[j] = t.orders[j]
    BY <1>1, ApplyElsewhere
  <2>2. QED
    BY <1>1, <2>1 DEF Exists
<1>2. CASE j = e.intent /\ e.type = "ORDER_INTENT_CREATED"
  <2>1. x.orders[j] = NewOrder("PENDING") /\ y.orders[j] = NewOrder("PENDING")
    BY <1>2, ApplyAt
  <2>2. QED
    BY <2>1 DEF Exists
<1>3. CASE j = e.intent /\ e.type \notin {"ORDER_INTENT_CREATED", "RISK_APPROVED"}
  <2>1. /\ Exists(x, j) <=> Exists(s, j)
        /\ x.orders[j].risk = s.orders[j].risk
    BY <1>3, ApplyAt
  <2>2. /\ Exists(y, j) <=> Exists(t, j)
        /\ y.orders[j].risk = t.orders[j].risk
    BY <1>3, ApplyAt
  <2>3. QED
    BY <1>3, <2>1, <2>2
<1>4. CASE j = e.intent /\ e.type = "RISK_APPROVED" /\ Exists(s, j)
  <2>1. /\ Exists(x, j)
        /\ x.orders[j].risk = IF e.risk.present THEN e.risk ELSE s.orders[j].risk
    BY <1>4, ApplyAt, ApplyStatus
  <2>2. /\ Exists(y, j)
        /\ y.orders[j].risk = IF e.risk.present THEN e.risk ELSE t.orders[j].risk
    BY <1>4, ApplyAt, ApplyStatus
  <2>3. QED
    BY <1>4, <2>1, <2>2
<1>5. CASE j = e.intent /\ e.type = "RISK_APPROVED" /\ ~Exists(s, j)
  <2>1. ~Exists(x, j) /\ x.orders[j] = s.orders[j]
    BY <1>5, ApplyAt
  <2>2. ~Exists(y, j) /\ y.orders[j] = t.orders[j]
    BY <1>5, ApplyAt
  <2>3. QED
    BY <1>5, <2>1, <2>2
<1>6. QED
  BY <1>1, <1>2, <1>3, <1>4, <1>5
-----------------------------------------------------------------------------
(* The sum of the locks of a symbol.                                       *)

LockSells(symbol) == {j \in Sells : SymbolOf[j] = symbol}

Terms(book, symbol) == [j \in LockSells(symbol) |-> RowActive(book[j])]

LEMMA LockSellsFinite ==
  ASSUME NEW symbol
  PROVE  IsFiniteSet(LockSells(symbol)) /\ LockSells(symbol) \subseteq Intents
<1>1. LockSells(symbol) \in SUBSET Intents
  BY DEF LockSells, Intents
<1>2. QED
  BY <1>1, FiniteAssumption, FS_Subset

LEMMA RowActiveType ==
  ASSUME NEW r \in Row
  PROVE  RowActive(r) \in Int
  BY DEF RowActive, Row

LEMMA TermsType ==
  ASSUME NEW book \in [Intents -> Row], NEW symbol
  PROVE  Terms(book, symbol) \in [LockSells(symbol) -> Int]
<1>1. \A j \in LockSells(symbol) : book[j] \in Row
  BY LockSellsFinite
<1>2. \A j \in LockSells(symbol) : RowActive(book[j]) \in Int
  BY <1>1, RowActiveType
<1>3. QED
  BY <1>2 DEF Terms

\* MapThenSumSet sums the terms.
LEMMA ActiveRowsIsSum ==
  ASSUME NEW book, NEW symbol
  PROVE  ActiveRows(book, symbol) = Sum(Terms(book, symbol), LockSells(symbol))
<1> DEFINE S == LockSells(symbol)
           Table(f) == f = [s \in SUBSET S |->
                              IF s = {} THEN 0
                              ELSE LET x == CHOOSE x \in s : TRUE
                                   IN  RowActive(book[x]) + f[s \ {x}]]
           k == CHOOSE f : Table(f)
<1>1. ActiveRows(book, symbol) = k[S]
  BY Zenon DEF ActiveRows, MapThenSumSet, MapThenFoldSet, LockSells
<1>2. ASSUME NEW f
      PROVE  Table(f) <=> PartialSums(Terms(book, symbol), S, f)
  <2>1. \A s \in SUBSET S : s # {} =>
          RowActive(book[Chosen(s)]) = Terms(book, symbol)[Chosen(s)]
    BY ChosenIn DEF Terms
  <2>2. [s \in SUBSET S |-> IF s = {} THEN 0
                            ELSE RowActive(book[Chosen(s)]) + f[s \ {Chosen(s)}]]
          = [s \in SUBSET S |->
               IF s = {} THEN 0
               ELSE Terms(book, symbol)[Chosen(s)] + f[s \ {Chosen(s)}]]
    BY <2>1
  <2>3. Table(f) <=>
          f = [s \in SUBSET S |->
                 IF s = {} THEN 0
                 ELSE RowActive(book[Chosen(s)]) + f[s \ {Chosen(s)}]]
    BY DEF Chosen
  <2> HIDE DEF Table
  <2>4. QED
    BY <2>2, <2>3 DEF PartialSums
<1>3. IsFiniteSet(S)
  BY LockSellsFinite
<1>4. \E f : Table(f)
  <2>1. \E f : PartialSums(Terms(book, symbol), S, f)
    BY <1>3, PartialSumsExist
  <2> HIDE DEF Table
  <2>2. QED
    BY <1>2, <2>1
<1>5. Table(k)
  BY <1>4
<1> HIDE DEF Table, k, S
<1>6. QED
  BY <1>1, <1>2, <1>3, <1>5, SumIsTable DEF S
\* Changing one row moves the sum of its own symbol, and no other.
LEMMA ActiveRowsMove ==
  ASSUME NEW book \in [Intents -> Row], NEW new \in [Intents -> Row],
         NEW i \in Intents, \A j \in Intents : j # i => new[j] = book[j],
         NEW symbol
  PROVE  /\ ActiveRows(book, symbol) \in Int /\ ActiveRows(new, symbol) \in Int
         /\ ActiveRows(new, symbol) =
              IF i \in LockSells(symbol)
              THEN ActiveRows(book, symbol) + (RowActive(new[i]) - RowActive(book[i]))
              ELSE ActiveRows(book, symbol)
<1> DEFINE S == LockSells(symbol)
           g == Terms(book, symbol)
           h == Terms(new, symbol)
<1>1. IsFiniteSet(S) /\ S \subseteq Intents
  BY LockSellsFinite
<1>2. g \in [S -> Int] /\ h \in [S -> Int]
  BY TermsType
<1>3. ActiveRows(book, symbol) = Sum(g, S) /\ ActiveRows(new, symbol) = Sum(h, S)
  BY ActiveRowsIsSum
<1>4. \A y \in S : g[y] = RowActive(book[y]) /\ h[y] = RowActive(new[y])
  BY DEF Terms
<1>5. \A y \in S : y # i => h[y] = g[y]
  BY <1>1, <1>4
<1> HIDE DEF g, h, S
<1>6. Sum(g, S) \in Int /\ Sum(h, S) \in Int
  BY <1>1, <1>2, SumType
<1>7. i \in S => Sum(h, S) = Sum(g, S) + (h[i] - g[i])
  BY <1>1, <1>2, <1>5, SumMoves
<1>8. i \notin S => Sum(h, S) = Sum(g, S)
  <2>1. i \notin S => \A y \in S : h[y] = g[y]
    BY <1>5
  <2>2. QED
    BY <1>1, <1>2, <2>1, SumSame
<1>9. QED
  BY <1>3, <1>4, <1>6, <1>7, <1>8 DEF S

LEMMA NoRowsActive ==
  ASSUME NEW symbol
  PROVE  ActiveRows([i \in Intents |-> NoRow], symbol) = 0
<1> DEFINE book == [i \in Intents |-> NoRow]
           S == LockSells(symbol)
<1>1. IsFiniteSet(S) /\ S \subseteq Intents
  BY LockSellsFinite
<1>2. \A y \in S : Terms(book, symbol)[y] = 0
  BY <1>1 DEF Terms, RowActive, NoRow
<1> HIDE DEF book, S
<1>3. Sum(Terms(book, symbol), S) = 0
  BY <1>1, <1>2, SumZero
<1>4. QED
  BY <1>3, ActiveRowsIsSum DEF book, S

\* The lock of the running state is a natural number.
LEMMA ActiveSellsType ==
  ASSUME NEW s \in State, NEW i \in Intents
  PROVE  ActiveSellReservations(s, i) \in Nat
<1> DEFINE S == {j \in Sells \ (Protective \cup {i}) : SymbolOf[j] = SymbolOf[i]}
           g == [j \in S |-> RemainingReserved(s.orders[j])]
           Table(f) == f = [u \in SUBSET S |->
                              IF u = {} THEN 0
                              ELSE LET x == CHOOSE x \in u : TRUE
                                   IN  RemainingReserved(s.orders[x]) + f[u \ {x}]]
           k == CHOOSE f : Table(f)
<1>1. ActiveSellReservations(s, i) = k[S]
  BY Zenon DEF ActiveSellReservations, MapThenSumSet, MapThenFoldSet
<1>2. ASSUME NEW f
      PROVE  Table(f) <=> PartialSums(g, S, f)
  <2>1. \A u \in SUBSET S : u # {} =>
          RemainingReserved(s.orders[Chosen(u)]) = g[Chosen(u)]
    <3>1. \A u \in SUBSET S : u # {} => Chosen(u) \in S
      BY ChosenIn
    <3> HIDE DEF S
    <3>2. QED
      BY <3>1
  <2> HIDE DEF S, g
  <2>2. [u \in SUBSET S |->
           IF u = {} THEN 0
           ELSE RemainingReserved(s.orders[Chosen(u)]) + f[u \ {Chosen(u)}]]
          = [u \in SUBSET S |-> IF u = {} THEN 0
                                ELSE g[Chosen(u)] + f[u \ {Chosen(u)}]]
    BY <2>1
  <2>3. Table(f) <=>
          f = [u \in SUBSET S |->
                 IF u = {} THEN 0
                 ELSE RemainingReserved(s.orders[Chosen(u)]) + f[u \ {Chosen(u)}]]
    BY DEF Chosen
  <2> HIDE DEF Table
  <2>4. QED
    BY <2>2, <2>3 DEF PartialSums
<1>3. IsFiniteSet(S)
  <2>1. S \in SUBSET Intents
    BY DEF Intents
  <2>2. QED
    BY <2>1, FiniteAssumption, FS_Subset
<1>4. g \in [S -> Nat]
  <2>1. \A j \in S : s.orders[j] \in Order
    BY DEF State, Intents
  <2>2. \A j \in S : RemainingReserved(s.orders[j]) \in Nat
    BY <2>1, RemainingReservedType
  <2>3. QED
    BY <2>2
<1> HIDE DEF S, g
<1>5. \E f : Table(f)
  <2>1. \E f : PartialSums(g, S, f)
    BY <1>3, PartialSumsExist
  <2> HIDE DEF Table
  <2>2. QED
    BY <1>2, <2>1
<1>6. Table(k)
  BY <1>5
<1> HIDE DEF Table, k
<1>7. k[S] = Sum(g, S)
  BY <1>2, <1>3, <1>6, SumIsTable
<1>8. QED
  BY <1>1, <1>3, <1>4, <1>7, SumNat
-----------------------------------------------------------------------------
(* Events and the facts about one lock.                                    *)

\* What the commands have checked of the lock when they append an event.
LockFits(s, book, e) ==
  e.intent \in Lockable =>
    LET o == s.orders[e.intent] IN
    /\ e.type = "ORDER_INTENT_CREATED" => ~Exists(s, e.intent)
    /\ e.type = "ORDER_SUBMITTED" =>
         /\ Exists(s, e.intent) /\ book[e.intent].status = "none"
         /\ e.qty = Size[e.intent]
         /\ ActiveRows(book, SymbolOf[e.intent]) + e.qty =< e.authorized
         /\ Offered(e.authorized)
    /\ e.type \in FillEvents => e.qty > 0 /\ e.qty =< RemainingReserved(o)
    /\ e.type = "CANCEL_CONFIRMED" /\ e.evidence = "FILLED" =>
         Remaining(o, e.intent) = 0

\* What a submission, a fill and a release write, and that nothing else does.
RowAfter(e, r) ==
  IF e.type = "ORDER_SUBMITTED" /\ e.intent \in Lockable
  THEN [status |-> "active", reserved |-> e.qty, filled |-> 0, released |-> 0]
  ELSE IF e.type \in FillEvents /\ r.status # "none"
  THEN [r EXCEPT !.filled = @ + e.qty,
                 !.status = IF r.filled + e.qty = r.reserved
                            THEN "filled" ELSE "active"]
  ELSE IF e.type \in {"CANCEL_CONFIRMED", "ORDER_REJECTED"} /\ r.status # "none"
  THEN [r EXCEPT !.released = Truncated(r.reserved, r.filled),
                 !.status = IF e.type = "CANCEL_CONFIRMED"
                            THEN "canceled" ELSE "rejected"]
  ELSE r

\* The row of the intent an event is about, and of the others.
LEMMA RowsAt ==
  ASSUME NEW book \in [Intents -> Row], NEW e \in Event
  PROVE  /\ ReservationProjection(book, e) \in [Intents -> Row]
         /\ \A j \in Intents : j # e.intent =>
              ReservationProjection(book, e)[j] = book[j]
         /\ ReservationProjection(book, e)[e.intent] = RowAfter(e, book[e.intent])
<1> DEFINE new == ReservationProjection(book, e)
           i   == e.intent
           r   == book[i]
<1>1. new \in [Intents -> Row]
  BY ReservationProjectionType
<1>2. i \in Intents /\ r \in Row
  BY DEF Event
<1>3. CASE e.type = "ORDER_SUBMITTED" /\ i \in Lockable
  BY <1>1, <1>2, <1>3 DEF ReservationProjection, Lockable, FillEvents, RowAfter
<1>4. CASE e.type \in FillEvents /\ r.status # "none"
  BY <1>1, <1>2, <1>4 DEF ReservationProjection, Lockable, FillEvents, RowAfter
<1>5. CASE e.type \in {"CANCEL_CONFIRMED", "ORDER_REJECTED"} /\ r.status # "none"
  BY <1>1, <1>2, <1>5 DEF ReservationProjection, Lockable, FillEvents, RowAfter
<1>6. CASE /\ ~(e.type = "ORDER_SUBMITTED" /\ i \in Lockable)
           /\ \/ r.status = "none"
              \/ e.type \notin FillEvents \cup {"CANCEL_CONFIRMED", "ORDER_REJECTED"}
  <2>1. new = book
    BY <1>2, <1>6 DEF ReservationProjection, Lockable, FillEvents
  <2> HIDE DEF new
  <2>2. QED
    BY <1>1, <1>6, <2>1 DEF RowAfter, FillEvents, new
<1>7. QED
  BY <1>3, <1>4, <1>5, <1>6

\* What a lock is worth in either book.
LEMMA LockWorth ==
  ASSUME NEW o \in Order, NEW r \in Row, NEW i \in Intents, LockFacts(o, r, i)
  PROVE  /\ RowActive(r) \in Nat
         /\ RemainingReserved(o) = RowActive(r)
<1>1. /\ o.reserved \in Nat /\ o.filled \in Nat /\ o.released \in Nat
      /\ r.reserved \in Nat /\ r.filled \in Nat /\ r.released \in Nat
      /\ r.status \in {"none", "active", "filled", "canceled", "rejected"}
  BY DEF Order, Row
<1>2. QED
  BY <1>1 DEF LockFacts, RowActive, RemainingReserved, Truncated

\* Each event leaves the lock the same in both books, and only a submission
\* makes it larger.
LEMMA ApplyLockFacts ==
  ASSUME NEW s \in State, NEW book \in [Intents -> Row], NEW e \in Event,
         LockFits(s, book, e), NEW i \in Lockable, i = e.intent,
         LockFacts(s.orders[i], book[i], i), s.orders[i].filled =< Size[i],
         NEW t, t = Apply(s, e), NEW new, new = ReservationProjection(book, e)
  PROVE  /\ LockFacts(t.orders[i], new[i], i)
         /\ e.type # "ORDER_SUBMITTED" => RowActive(new[i]) =< RowActive(book[i])
         /\ e.type = "ORDER_SUBMITTED" =>
              RowActive(book[i]) = 0 /\ RowActive(new[i]) = e.qty
<1> DEFINE o == s.orders[i]
           p == t.orders[i]
           r == book[i]
           q == new[i]
<1>1. /\ i \in Intents /\ i \in Sells /\ e.qty \in Nat /\ e.type \in EventTypes
      /\ Size[i] \in Nat /\ Size[i] > 0
  BY IntentsAssumption DEF Lockable, Intents, Event
<1>2. t \in State /\ new \in [Intents -> Row]
  BY ApplyType, ReservationProjectionType
<1>3. o \in Order /\ p \in Order /\ r \in Row /\ q \in Row
  BY <1>1, <1>2 DEF State
<1>4. /\ o.reserved \in Nat /\ o.filled \in Nat /\ o.released \in Nat
      /\ p.reserved \in Nat /\ p.filled \in Nat /\ p.released \in Nat
      /\ r.reserved \in Nat /\ r.filled \in Nat /\ r.released \in Nat
      /\ r.status \in {"none", "active", "filled", "canceled", "rejected"}
  BY <1>3 DEF Order, Row
<1>5. RowActive(r) \in Nat /\ RemainingReserved(o) = RowActive(r)
  BY <1>1, <1>3, LockWorth
<1>10. q = RowAfter(e, r)
  BY RowsAt
<1>6. CASE e.type = "ORDER_INTENT_CREATED"
  <2>1. p = NewOrder("PENDING") /\ o.status = "ABSENT"
    BY <1>6, ApplyAt DEF LockFits, Exists
  <2>2. q = r /\ r.status = "none"
    BY <1>6, <2>1, <1>10 DEF RowAfter, LockFacts, FillEvents
  <2>3. QED
    BY <1>5, <1>6, <2>1, <2>2 DEF LockFacts, NewOrder
<1>7. CASE e.type # "ORDER_INTENT_CREATED" /\ ~Exists(s, i)
  <2>1. p = o /\ o.status = "ABSENT"
    BY <1>7, ApplyAt DEF Exists
  <2>2. e.type # "ORDER_SUBMITTED"
    BY <1>7 DEF LockFits
  <2>3. q = r
    BY <2>1, <2>2, <1>10 DEF RowAfter, LockFacts
  <2>4. QED
    BY <1>5, <2>1, <2>2, <2>3
<1>8. CASE e.type # "ORDER_INTENT_CREATED" /\ Exists(s, i)
  <2>1. /\ e.type # "ORDER_SUBMITTED" => p.reserved = o.reserved
        /\ e.type \notin FillEvents => p.filled = o.filled
        /\ e.type \notin {"ORDER_REJECTED", "CANCEL_CONFIRMED"} =>
             p.released = o.released
        /\ p.status # "ABSENT"
    BY <1>8, ApplyAt DEF Exists
  <2>2. CASE e.type = "ORDER_SUBMITTED"
    <3>1. p.reserved = Size[i]
      BY <1>1, <1>8, <2>2, ApplyLock DEF LockFits
    <3>2. /\ r.status = "none" /\ e.qty = Size[i]
          /\ q = [status |-> "active", reserved |-> e.qty, filled |-> 0,
                  released |-> 0]
      BY <2>2, <1>10 DEF RowAfter, LockFits, FillEvents
    <3>3. p.filled = 0 /\ p.released = 0
      BY <2>1, <2>2, <3>2 DEF LockFacts, FillEvents
    <3>4. QED
      BY <1>1, <2>1, <2>2, <3>1, <3>2, <3>3 DEF LockFacts, RowActive
  <2>3. CASE e.type \in FillEvents
    <3>1. e.qty > 0 /\ e.qty =< RowActive(r)
      BY <1>5, <2>3 DEF LockFits
    <3>2. /\ r.status = "active" /\ o.reserved = Size[i] /\ r.reserved = Size[i]
          /\ r.filled = o.filled /\ r.released = 0 /\ o.released = 0
          /\ o.filled + e.qty =< Size[i]
      <4>1. r.status = "active"
        BY <1>1, <3>1 DEF RowActive
      <4>2. /\ o.reserved = Size[i] /\ r.reserved = Size[i] /\ r.filled = o.filled
            /\ r.released = 0 /\ o.released = 0
        BY <4>1 DEF LockFacts
      <4>3. e.qty =< r.reserved - r.filled - r.released
        BY <3>1, <4>1 DEF RowActive
      <4> HIDE DEF o, r
      <4>4. QED
        BY <1>1, <1>4, <4>1, <4>2, <4>3
    <3>3. p.filled = o.filled + e.qty
      <4>1. p.filled = IF o.filled + e.qty < Size[i] THEN o.filled + e.qty ELSE Size[i]
        BY <1>8, <2>3, ApplyStatus
      <4>2. QED
        BY <1>1, <1>4, <3>2, <4>1
    <3>4. q = [r EXCEPT !.filled = @ + e.qty,
                        !.status = IF r.filled + e.qty = r.reserved
                                   THEN "filled" ELSE "active"]
      BY <2>3, <3>2, <1>10 DEF RowAfter, FillEvents
    <3>5. /\ q.filled = r.filled + e.qty /\ q.reserved = r.reserved
          /\ q.released = r.released
          /\ q.status = IF r.filled + e.qty = r.reserved THEN "filled" ELSE "active"
      BY <1>3, <3>4 DEF Row
    <3>6. p.reserved = o.reserved /\ p.released = o.released /\ e.type # "ORDER_SUBMITTED"
      BY <2>1, <2>3 DEF FillEvents
    <3>7. /\ q.reserved = Size[i] /\ q.filled = o.filled + e.qty /\ q.released = 0
          /\ p.reserved = Size[i] /\ p.filled = o.filled + e.qty /\ p.released = 0
          /\ q.status = IF o.filled + e.qty = Size[i] THEN "filled" ELSE "active"
          /\ p.status # "ABSENT"
      BY <2>1, <3>2, <3>3, <3>5, <3>6
    <3>8. RowActive(r) = Size[i] - o.filled
          /\ RowActive(q) = Size[i] - (o.filled + e.qty)
      <4> HIDE DEF o, p, q, r
      <4>1. QED
        BY <1>1, <1>4, <3>2, <3>7 DEF RowActive
    <3>9. LockFacts(p, q, i)
      <4> HIDE DEF o, p, q, r
      <4>1. QED
        BY <1>1, <1>4, <3>2, <3>7 DEF LockFacts
    <3> HIDE DEF o, p, q, r
    <3>10. RowActive(q) =< RowActive(r)
      BY <1>1, <1>4, <3>8
    <3>11. QED
      BY <3>6, <3>9, <3>10 DEF o, p, q, r
  <2>4. CASE e.type \in {"ORDER_REJECTED", "CANCEL_CONFIRMED"} /\ r.status = "none"
    <3>1. q = r
      BY <2>4, <1>10 DEF RowAfter, FillEvents
    <3>2. p.reserved = 0 /\ p.filled = 0 /\ p.released = 0
      <4>1. o.reserved = 0 /\ o.filled = 0 /\ o.released = 0
        BY <2>4 DEF LockFacts
      <4>2. p.released = o.released + RemainingReserved(o) \/ p.released = o.released
        BY <1>1, <1>8, <2>4, ApplyLock
      <4>3. RemainingReserved(o) = 0
        BY <4>1 DEF RemainingReserved, Truncated
      <4>4. QED
        BY <2>1, <2>4, <4>1, <4>2, <4>3 DEF FillEvents
    <3>3. QED
      BY <1>5, <2>4, <3>1, <3>2 DEF LockFacts
  <2>5. CASE e.type \in {"ORDER_REJECTED", "CANCEL_CONFIRMED"} /\ r.status # "none"
    <3>1. q = [r EXCEPT !.released = Truncated(r.reserved, r.filled),
                        !.status = IF e.type = "CANCEL_CONFIRMED"
                                   THEN "canceled" ELSE "rejected"]
      BY <2>5, <1>10 DEF RowAfter, FillEvents
    <3>2. /\ q.filled = r.filled /\ q.reserved = r.reserved
          /\ q.released = Truncated(r.reserved, r.filled)
          /\ q.status \in {"canceled", "rejected"}
      BY <1>3, <3>1 DEF Row
    <3>3. /\ o.reserved = Size[i] /\ r.reserved = Size[i] /\ r.filled = o.filled
          /\ r.released = o.released /\ o.filled + o.released =< Size[i]
      BY <1>4, <2>5 DEF LockFacts
    <3>4. p.filled = o.filled /\ p.reserved = o.reserved
      BY <2>1, <2>5 DEF FillEvents
    <3>5. p.released = Size[i] - o.filled
      <4>1. CASE e.type = "CANCEL_CONFIRMED" /\ e.evidence = "FILLED"
        <5>1. p.released = o.released
          BY <1>8, <4>1, ApplyLock
        <5>2. o.filled >= Size[i]
          BY <1>1, <1>4, <4>1 DEF LockFits, Remaining, Truncated
        <5>3. QED
          BY <1>1, <1>4, <3>3, <5>1, <5>2
      <4>2. CASE e.type = "ORDER_REJECTED"
                 \/ (e.type = "CANCEL_CONFIRMED" /\ e.evidence # "FILLED")
        <5>1. p.released = o.released + RemainingReserved(o)
          BY <1>1, <1>8, <4>2, ApplyLock
        <5>2. QED
          BY <1>1, <1>4, <3>3, <5>1 DEF RemainingReserved, Truncated
      <4>3. QED
        BY <2>5, <4>1, <4>2
    <3>6. q.released = Size[i] - o.filled
      BY <1>1, <1>4, <3>2, <3>3 DEF Truncated
    <3>7. QED
      BY <1>1, <1>4, <1>5, <2>1, <2>5, <3>2, <3>3, <3>4, <3>5, <3>6
      DEF LockFacts, RowActive
  <2>6. CASE e.type \notin FillEvents \cup {"ORDER_REJECTED", "CANCEL_CONFIRMED",
                                            "ORDER_SUBMITTED"}
    <3>1. q = r
      BY <2>6, <1>10 DEF RowAfter, FillEvents
    <3>2. p.reserved = o.reserved /\ p.filled = o.filled /\ p.released = o.released
      BY <2>1, <2>6
    <3>3. QED
      BY <1>5, <2>1, <2>6, <3>1, <3>2 DEF LockFacts
  <2>7. QED
    BY <2>2, <2>3, <2>4, <2>5, <2>6
<1>9. QED
  BY <1>6, <1>7, <1>8
LEMMA RowsStay ==
  ASSUME NEW s \in State, NEW book \in [Intents -> Row], NEW e \in Event,
         LockFits(s, book, e), RowFacts(s, book),
         \A i \in Intents : s.orders[i].filled =< Size[i]
  PROVE  RowFacts(Apply(s, e), ReservationProjection(book, e))
<1> DEFINE t   == Apply(s, e)
           new == ReservationProjection(book, e)
           i   == e.intent
<1>1. /\ i \in Intents /\ new \in [Intents -> Row] /\ e.qty \in Nat
      /\ \A j \in Intents : j # i => new[j] = book[j]
      /\ new[i] = RowAfter(e, book[i])
  BY RowsAt DEF Event
<1>2. \A j \in Intents : j # i => t.orders[j] = s.orders[j]
  BY ApplyElsewhere
<1>3. i \in Lockable =>
        /\ LockFacts(t.orders[i], new[i], i)
        /\ e.type # "ORDER_SUBMITTED" => RowActive(new[i]) =< RowActive(book[i])
        /\ e.type = "ORDER_SUBMITTED" =>
             RowActive(book[i]) = 0 /\ RowActive(new[i]) = e.qty
  BY <1>1, ApplyLockFacts DEF RowFacts
<1>4. i \notin Lockable => new[i] = book[i]
  BY <1>1 DEF RowFacts, RowAfter
<1>5. RowActive(new[i]) \in Int /\ RowActive(book[i]) \in Int
  BY <1>1, RowActiveType
<1> HIDE DEF t, new, i
<1>6. \A j \in Lockable : LockFacts(t.orders[j], new[j], j)
  BY <1>2, <1>3, <1>1 DEF RowFacts, Lockable, Intents
<1>7. \A j \in Intents : j \notin Lockable => new[j].status = "none"
  BY <1>1, <1>4 DEF RowFacts
<1>8. ASSUME NEW j \in Sells, VenueReports
      PROVE  Offered(ActiveRows(new, SymbolOf[j]))
  <2> DEFINE symbol == SymbolOf[j]
             old    == ActiveRows(book, symbol)
             sum    == ActiveRows(new, symbol)
  <2>1. Offered(old)
    BY <1>8 DEF RowFacts
  <2>2. /\ old \in Int /\ sum \in Int
        /\ sum = IF i \in LockSells(symbol)
                 THEN old + (RowActive(new[i]) - RowActive(book[i])) ELSE old
    BY <1>1, ActiveRowsMove
  <2>3. CASE i \in Lockable /\ i \in LockSells(symbol) /\ e.type = "ORDER_SUBMITTED"
    <3>1. old + e.qty =< e.authorized /\ Offered(e.authorized)
      BY <2>3 DEF LockFits, LockSells, i
    <3>2. sum = old + e.qty
      BY <1>1, <1>3, <2>2, <2>3
    <3> HIDE DEF old, sum
    <3>3. e.authorized \in Nat
      BY DEF Event
    <3>4. \A env \in Envs : env.free \in Nat
      BY LifecycleAssumption DEF Env
    <3>5. QED
      BY <1>1, <2>2, <3>1, <3>2, <3>3, <3>4 DEF Offered, sum, symbol
  <2>4. CASE ~(i \in Lockable /\ i \in LockSells(symbol) /\ e.type = "ORDER_SUBMITTED")
    <3> HIDE DEF old, sum
    <3>1. sum =< old
      BY <1>3, <1>4, <1>5, <2>2, <2>4
    <3>2. \A env \in Envs : env.free \in Nat
      BY LifecycleAssumption DEF Env
    <3>3. QED
      BY <2>1, <2>2, <3>1, <3>2 DEF Offered, sum, symbol
  <2>5. QED
    BY <2>3, <2>4
<1>9. QED
  BY <1>6, <1>7, <1>8 DEF RowFacts, t, new
-----------------------------------------------------------------------------
(* Durable writes.                                                         *)

\* What a command has checked of the world when it appends an event.
Checked(w, e) ==
  /\ e \in Event /\ Fits(w.replayed, e)
  /\ KeysAreRegistered /\ e.type = "ORDER_INTENT_CREATED" =>
       e.intent \in w.registered
  /\ FillsFollowLocks => LockFits(w.replayed, w.rows, e)

\* The running state may already hold the decision an approval appends.
Announces(w, e) ==
  \A j \in Intents :
    /\ Exists(w.mem, j) <=> Exists(w.replayed, j)
    /\ w.mem.orders[j].risk.present =>
         \/ w.mem.orders[j].risk = w.replayed.orders[j].risk
         \/ /\ e.type = "RISK_APPROVED" /\ j = e.intent
            /\ Exists(w.mem, j) /\ w.mem.orders[j].risk = e.risk

LEMMA ReloadedBooks ==
  ASSUME NEW w, Books(w), NEW floor, Grown(w, floor)
  PROVE  /\ Books(Reloaded(w)) /\ Grown(Reloaded(w), floor)
         /\ RiskFrom(Reloaded(w).mem, Reloaded(w).replayed)
  BY DEF Reloaded, Books, Grown, KeyFacts

LEMMA EmitBooksAhead ==
  ASSUME NEW w \in Worlds, Books(w), NEW floor \in Floors, Grown(w, floor),
         CrashesBooked(w, floor), NEW e, Checked(w, e), Announces(w, e), NEW saves
  PROVE  Booked(Emit(w, e, saves), floor)
<1> DEFINE v    == Emit(w, e, saves)
           base == IF e.type \in saves THEN w.mem ELSE w.recovered
<1>1. /\ w.replayed \in State /\ w.recovered \in State /\ w.mem \in State
      /\ w.rows \in [Intents -> Row] /\ e \in Event
  BY DEF Worlds, Checked
<1>2. /\ v.mem = Apply(w.mem, e) /\ v.replayed = Apply(w.replayed, e)
      /\ v.recovered = Apply(base, e) /\ v.registered = w.registered
      /\ v.rows = ReservationProjection(w.rows, e)
      /\ v.crashes = w.crashes \cup {Reloaded(w)}
  BY DEF Emit, Worlds
<1> HIDE DEF v
<1>3. RiskFrom(v.mem, v.replayed)
  BY <1>1, <1>2, ApplyRisk DEF Announces
<1>4. RiskFrom(v.recovered, v.replayed)
  <2>1. RiskFrom(Apply(w.recovered, e), Apply(w.replayed, e))
    BY <1>1, ApplyRisk DEF Books, RiskFrom
  <2>2. QED
    BY <1>2, <1>3, <2>1
<1>5. ASSUME NEW j \in Intents
      PROVE  /\ OrderFacts(v.replayed.orders[j], j)
             /\ v.replayed.orders[j].filled >= w.replayed.orders[j].filled
  BY <1>1, <1>2, ApplyFacts DEF Books, Checked
<1>6. Grown(v, floor)
  <2>1. \A j \in Intents : /\ v.replayed.orders[j].filled \in Nat
                           /\ w.replayed.orders[j].filled \in Nat
                           /\ floor[j] \in Nat
    <3>1. v.replayed \in State
      BY <1>1, <1>2, ApplyType
    <3>2. QED
      BY <1>1, <3>1 DEF State, Order, Floors
  <2>2. QED
    BY <1>5, <2>1 DEF Grown
<1>7. KeysAreRegistered => KeyFacts(v)
  <2> SUFFICES ASSUME KeysAreRegistered
               PROVE  KeyFacts(v)
    OBVIOUS
  <2>1. ASSUME NEW j \in Intents, Exists(v.replayed, j)
        PROVE  j \in w.registered
    <3>1. CASE j = e.intent /\ e.type = "ORDER_INTENT_CREATED"
      BY <3>1 DEF Checked
    <3>2. CASE j = e.intent /\ e.type # "ORDER_INTENT_CREATED"
      <4>1. Exists(w.replayed, j)
        BY <1>1, <1>2, <2>1, <3>2, ApplyAt
      <4>2. QED
        BY <4>1 DEF Books, KeyFacts
    <3>3. CASE j # e.intent
      <4>1. v.replayed.orders[j] = w.replayed.orders[j]
        BY <1>1, <1>2, <3>3, ApplyElsewhere
      <4>2. QED
        BY <2>1, <4>1 DEF Books, KeyFacts, Exists
    <3>4. QED
      BY <3>1, <3>2, <3>3
  <2>2. QED
    BY <1>2, <2>1 DEF Books, KeyFacts
<1>8. FillsFollowLocks => RowFacts(v.replayed, v.rows)
  <2>1. \A j \in Intents : w.replayed.orders[j].filled =< Size[j]
    BY DEF Books, OrderFacts
  <2>2. QED
    BY <1>1, <1>2, <2>1, RowsStay DEF Books, Checked
<1>9. Books(v)
  BY <1>4, <1>5, <1>7, <1>8 DEF Books
<1>10. /\ Books(Reloaded(w)) /\ Grown(Reloaded(w), floor)
       /\ RiskFrom(Reloaded(w).mem, Reloaded(w).replayed)
  BY ReloadedBooks
<1>11. QED
  BY <1>2, <1>3, <1>6, <1>9, <1>10 DEF Booked, CrashesBooked, v
\* A world that is consistent and whose books are in order.
Good(w, floor) == WorldOk(w) /\ Booked(w, floor)

\* An event appended by a command that has written nothing ahead of the log.
LEMMA EmitBooks ==
  ASSUME NEW w, NEW floor \in Floors, Good(w, floor), NEW e, Checked(w, e), NEW saves
  PROVE  Booked(Emit(w, e, saves), floor)
<1>1. Announces(w, e)
  BY DEF Good, Booked, RiskFrom, Announces
<1>2. QED
  BY <1>1, EmitBooksAhead DEF Good, Booked, WorldOk

\* Events no command checks the books for.
Quiet(e) ==
  /\ Plain(e)
  /\ e.type \notin FillEvents \cup
       {"ORDER_INTENT_CREATED", "RISK_APPROVED", "ORDER_AUTHORIZED",
        "ORDER_SUBMITTED", "CANCEL_CONFIRMED"}

LEMMA QuietChecked ==
  ASSUME NEW w, NEW e \in Event,
         e.type \notin FillEvents \cup
           {"ORDER_INTENT_CREATED", "RISK_APPROVED", "ORDER_AUTHORIZED",
            "ORDER_SUBMITTED", "CANCEL_CONFIRMED"}
  PROVE  Checked(w, e)
  BY DEF Checked, Fits, LockFits

LEMMA EmitQuiet ==
  ASSUME NEW w, NEW floor \in Floors, Good(w, floor), NEW e, Quiet(e), NEW saves
  PROVE  Good(Emit(w, e, saves), floor)
<1>1. Checked(w, e)
  BY QuietChecked DEF Quiet, Plain
<1>2. Booked(Emit(w, e, saves), floor)
  BY <1>1, EmitBooks
<1>3. WorldOk(Emit(w, e, saves))
  BY EmitPlain DEF Quiet, Good
<1>4. QED
  BY <1>2, <1>3 DEF Good

LEMMA EvQuiet ==
  ASSUME NEW type \in {"BROKER_IO_STARTED", "BROKER_ACKNOWLEDGED", "ORDER_REJECTED",
                       "LOCAL_SUBMISSION_FAILED", "CANCEL_REQUESTED",
                       "PROTECTIVE_ORDER_CREATED", "PROTECTIVE_ORDER_ACKNOWLEDGED",
                       "MANUAL_INTERVENTION_REQUIRED", "BROKER_STATE_UNKNOWN"},
         NEW i \in Intents
  PROVE  Quiet(Ev(type, i))
  BY EvType, EvPlain DEF Quiet, EventTypes, FillEvents

LEMMA StartQuiet == Quiet(ReconEv("RECONCILIATION_STARTED"))
  BY ReconEvType DEF Quiet, Plain, EventTypes, FillEvents

LEMMA ResolveGood ==
  ASSUME NEW w, NEW floor \in Floors, Good(w, floor), NEW saves,
         w.mem.reconciliation = "STARTED", w.mem.unresolved = {}
  PROVE  Good(Emit(w, ReconEv("RECONCILIATION_RESOLVED"), saves), floor)
<1> DEFINE e == ReconEv("RECONCILIATION_RESOLVED")
<1>1. e \in Event /\ e.type = "RECONCILIATION_RESOLVED"
  BY ReconEvType DEF EventTypes
<1> HIDE DEF e
<1>2. Checked(w, e)
  BY <1>1, QuietChecked DEF FillEvents
<1>3. Booked(Emit(w, e, saves), floor)
  BY <1>2, EmitBooks
<1>4. WorldOk(Emit(w, e, saves))
  BY ResolveReconciliationOk DEF Good, e
<1>5. QED
  BY <1>3, <1>4 DEF Good, e

\* A write of the running state that leaves the risk decisions alone.
LEMMA MemoryBooks ==
  ASSUME NEW w \in Worlds, NEW floor, Booked(w, floor), NEW m \in State,
         \A j \in Intents : /\ Exists(m, j) <=> Exists(w.mem, j)
                            /\ m.orders[j].risk = w.mem.orders[j].risk
  PROVE  Booked([w EXCEPT !.mem = m], floor)
<1> DEFINE v == [w EXCEPT !.mem = m]
<1>1. /\ v.mem = m /\ v.replayed = w.replayed /\ v.recovered = w.recovered
      /\ v.rows = w.rows /\ v.registered = w.registered /\ v.crashes = w.crashes
  BY DEF Worlds
<1> HIDE DEF v
<1>2. RiskFrom(m, w.replayed)
  BY DEF Booked, RiskFrom
<1>3. Books(v) /\ Grown(v, floor) /\ CrashesBooked(v, floor)
  BY <1>1 DEF Booked, Books, KeyFacts, Grown, CrashesBooked
<1>4. QED
  BY <1>1, <1>2, <1>3 DEF Booked, v

LEMMA ClaimGood ==
  ASSUME NEW w, NEW floor, Good(w, floor), NEW i \in Intents
  PROVE  Good(Claim(w, i), floor)
<1> DEFINE v == Claim(w, i)
<1>1. /\ v.mem = w.mem /\ v.replayed = w.replayed /\ v.recovered = w.recovered
      /\ v.rows = w.rows /\ v.registered = w.registered
      /\ v.crashes = w.crashes \cup {Reloaded(w)}
  BY DEF Claim, Good, WorldOk, Worlds
<1> HIDE DEF v
<1>2. /\ Books(Reloaded(w)) /\ Grown(Reloaded(w), floor)
      /\ RiskFrom(Reloaded(w).mem, Reloaded(w).replayed)
  BY ReloadedBooks DEF Good, Booked
<1>3. Books(v) /\ Grown(v, floor) /\ RiskFrom(v.mem, v.replayed)
  BY <1>1 DEF Good, Booked, Books, KeyFacts, Grown
<1>4. CrashesBooked(v, floor)
  BY <1>1, <1>2 DEF Good, Booked, CrashesBooked
<1>5. WorldOk(v)
  BY ClaimOk DEF Good, v
<1>6. QED
  BY <1>3, <1>4, <1>5 DEF Good, Booked, v

\* A key is registered once.
LEMMA RegisterGood ==
  ASSUME NEW w, NEW floor, Good(w, floor), NEW i \in Intents,
         \A j \in w.registered : KeyOf[j] = KeyOf[i] => j = i
  PROVE  Good(Register(w, i), floor) /\ i \in Register(w, i).registered
<1> DEFINE v == Register(w, i)
<1>1. /\ v.mem = w.mem /\ v.replayed = w.replayed /\ v.recovered = w.recovered
      /\ v.rows = w.rows /\ v.registered = w.registered \cup {i}
      /\ v.crashes = w.crashes \cup {Reloaded(w)}
  BY DEF Register, Good, WorldOk, Worlds
<1> HIDE DEF v
<1>2. /\ Books(Reloaded(w)) /\ Grown(Reloaded(w), floor)
      /\ RiskFrom(Reloaded(w).mem, Reloaded(w).replayed)
  BY ReloadedBooks DEF Good, Booked
<1>3. KeysAreRegistered => KeyFacts(v)
  BY <1>1 DEF Good, Booked, Books, KeyFacts
<1>4. Books(v) /\ Grown(v, floor) /\ RiskFrom(v.mem, v.replayed)
  BY <1>1, <1>3 DEF Good, Booked, Books, Grown
<1>5. CrashesBooked(v, floor)
  BY <1>1, <1>2 DEF Good, Booked, CrashesBooked
<1>6. WorldOk(v)
  BY RegisterOk DEF Good, v
<1>7. QED
  BY <1>1, <1>4, <1>5, <1>6 DEF Good, Booked, v

\* Between commands.
InOrder(floor) == Good(World, floor)

LEMMA CommitBooked ==
  ASSUME NEW w, NEW floor, Booked(w, floor), Commit(w), IInv'
  PROVE  InOrder(floor)'
<1>1. ASSUME NEW c, Books(c), RiskFrom(c.mem, c.replayed), Grown(c, floor), Become(c)
      PROVE  InOrder(floor)'
  <2> DEFINE v == World'
  <2>1. /\ v.mem = c.mem /\ v.replayed = c.replayed /\ v.recovered = c.recovered
        /\ v.rows = c.rows /\ v.registered = c.registered /\ v.crashes = {}
    BY <1>1 DEF Become, World
  <2>2. WorldOk(v)
    BY DEF IInv
  <2> HIDE DEF v
  <2>3. Books(v) /\ RiskFrom(v.mem, v.replayed) /\ Grown(v, floor)
    BY <1>1, <2>1 DEF Books, KeyFacts, Grown
  <2>4. Good(v, floor)
    BY <2>1, <2>2, <2>3 DEF Booked, CrashesBooked, Good
  <2>5. QED
    BY <2>4 DEF v, InOrder
<1>2. CASE Become(w)
  BY <1>1, <1>2 DEF Booked
<1>3. ASSUME NEW c \in w.crashes, Become(c)
      PROVE  InOrder(floor)'
  BY <1>1, <1>3 DEF Booked, CrashesBooked
<1>4. QED
  BY <1>2, <1>3 DEF Commit

LEMMA CommitGood ==
  ASSUME NEW w, NEW floor, Good(w, floor), Commit(w)
  PROVE  InOrder(floor)'
  BY CommitOk, CommitBooked DEF Good
-----------------------------------------------------------------------------
(* Commands as chains of writes.                                           *)

\* The running order and the order in the log.
LEMMA OrderOf ==
  ASSUME NEW w, NEW floor, Good(w, floor), NEW i \in Intents
  PROVE  /\ w.mem \in State /\ w.replayed \in State
         /\ w.mem.orders[i] \in Order /\ w.replayed.orders[i] \in Order
         /\ SameOrderLedger(w.mem.orders[i], w.replayed.orders[i])
         /\ Exists(w.mem, i) <=> Exists(w.replayed, i)
         /\ OrderFacts(w.replayed.orders[i], i)
<1>1. w.mem \in State /\ w.replayed \in State
  BY DEF Good, WorldOk, Worlds
<1>2. SameOrderLedger(w.mem.orders[i], w.replayed.orders[i])
  BY DEF Good, WorldOk, Live, Agrees, SameLedger
<1>3. OrderFacts(w.replayed.orders[i], i)
  BY DEF Good, Booked, Books
<1>4. QED
  BY <1>1, <1>2, <1>3 DEF State, SameOrderLedger, Exists

LEMMA WorldFields ==
  /\ World.mem = mem /\ World.replayed = replayed /\ World.recovered = recovered
  /\ World.rows = rows /\ World.claims = claims /\ World.registered = registered
  BY DEF World

LEMMA CreateGood ==
  ASSUME NEW floor \in Floors, Good(World, floor), NEW i \in Intents, NEW env,
         NEW saves, CreateOrderIntent(i, env, saves)
  PROVE  InOrder(floor)'
<1> DEFINE w == Register(World, i)
           e == Ev("ORDER_INTENT_CREATED", i)
<1>1. ~Exists(mem, i) /\ KeyFree(i) /\ Commit(Emit(w, e, saves))
  BY DEF CreateOrderIntent
<1>2. Good(w, floor) /\ i \in w.registered
  BY <1>1, WorldFields, RegisterGood DEF KeyFree
<1>3. w.mem = mem
  BY WorldFields DEF Register, Good, WorldOk, Worlds
<1> HIDE DEF w
<1>4. ~Exists(w.replayed, i)
  BY <1>1, <1>2, <1>3, OrderOf
<1>5. Plain(e) /\ e \in Event /\ e.type = "ORDER_INTENT_CREATED" /\ e.intent = i
  BY EvType, EvPlain DEF EventTypes
<1> HIDE DEF e
<1>6. Checked(w, e)
  BY <1>2, <1>4, <1>5 DEF Checked, Fits, LockFits, FillEvents
<1>7. Good(Emit(w, e, saves), floor)
  BY <1>2, <1>5, <1>6, EmitBooks, EmitPlain DEF Good
<1>8. QED
  BY <1>1, <1>7, CommitGood

\* approve_risk writes the decision in memory first.
LEMMA ApproveGood ==
  ASSUME NEW w, NEW floor \in Floors, Good(w, floor), NEW i \in Intents,
         w.mem.orders[i].status \in {"PENDING", "APPROVED"},
         NEW d \in RiskDecision, NEW saves
  PROVE  /\ Good(Approve(w, i, d, saves), floor)
         /\ Approve(w, i, d, saves).mem.orders[i].status = "APPROVED"
<1> DEFINE m == [w.mem EXCEPT !.orders[i].risk = d]
           v == [w EXCEPT !.mem = m]
           e == [Ev("RISK_APPROVED", i) EXCEPT !.risk = d]
<1>1. w \in Worlds /\ w.mem \in State
  BY DEF Good, WorldOk, Worlds
<1>2. m \in State
  <2>1. w.mem.orders[i] \in Order
    BY <1>1 DEF State
  <2>2. [w.mem.orders[i] EXCEPT !.risk = d] \in Order
    BY <2>1 DEF Order
  <2>3. QED
    BY <1>1, <2>2 DEF State
<1>3. \A j \in Intents :
        /\ m.orders[j].status = w.mem.orders[j].status
        /\ m.orders[j].risk = IF j = i THEN d ELSE w.mem.orders[j].risk
  BY <1>1 DEF State, Order
<1>4. Approve(w, i, d, saves) = Emit(v, e, saves)
  BY DEF Approve
<1>5. /\ v \in Worlds /\ v.mem = m /\ v.replayed = w.replayed
      /\ v.recovered = w.recovered /\ v.rows = w.rows
      /\ v.registered = w.registered /\ v.crashes = w.crashes
  BY <1>1, <1>2 DEF Worlds
<1>6. e \in Event /\ e.type = "RISK_APPROVED" /\ e.intent = i /\ e.risk = d
  BY NoDecisionType DEF Ev, Event, EventTypes
<1> HIDE DEF m, v, e
<1>7. Books(v) /\ Grown(v, floor) /\ CrashesBooked(v, floor)
  BY <1>5 DEF Good, Booked, Books, KeyFacts, Grown, CrashesBooked
<1>8. w.replayed.orders[i].status \in {"PENDING", "APPROVED"}
  BY OrderOf DEF SameOrderLedger
<1>9. Checked(v, e)
  BY <1>5, <1>6, <1>8 DEF Checked, Fits, LockFits, FillEvents
<1>10. Announces(v, e)
  BY <1>3, <1>5, <1>6 DEF Announces, Good, Booked, RiskFrom, Exists
<1>11. Booked(Emit(v, e, saves), floor)
  BY <1>5, <1>7, <1>9, <1>10, EmitBooksAhead
<1>12. WorldOk(Emit(v, e, saves))
  BY <1>4, ApproveOk DEF Good
<1>13. Emit(v, e, saves).mem.orders[i].status = "APPROVED"
  <2>1. Emit(v, e, saves).mem = Apply(m, e)
    BY <1>5 DEF Emit, Worlds
  <2>2. Exists(m, i)
    BY <1>3 DEF Exists
  <2>3. QED
    BY <1>2, <1>6, <2>1, <2>2, ApplyStatus
<1>14. QED
  BY <1>4, <1>11, <1>12, <1>13 DEF Good

\* What an authorization has checked.
LEMMA AuthorizationGood ==
  ASSUME NEW w, NEW floor \in Floors, Good(w, floor), NEW i \in Intents,
         NEW env \in Envs, NEW effect, i \in Buys => effect \in {"INCREASE", "NEUTRAL"},
         Authorizable(w.mem, i, env, effect), NEW saves
  PROVE  Good(Emit(w, Authorization(i), saves), floor)
<1> DEFINE e == Authorization(i)
           o == w.mem.orders[i]
           c == [BaseContext(w.mem, i, env) EXCEPT
                   !.effect = effect, !.risk = o.risk, !.free = env.free,
                   !.require_price = TRUE, !.enforce_inventory = TRUE,
                   !.draft = FALSE]
<1>1. ~Blocked(c) /\ o.risk.present
  BY DEF Authorizable
<1>2. /\ c.effect = effect /\ c.risk = o.risk /\ c.free = env.free
      /\ c.enforce_inventory /\ ~c.draft /\ c.size = Size[i]
      /\ c.side = (IF i \in Buys THEN "buy" ELSE "sell")
      /\ c.inventory_known /\ i \in Sells => env.known
  BY DEF BaseContext, Side
<1> HIDE DEF c
<1>3. i \in Buys => Admits(o.risk)
  BY <1>1, <1>2, EntryRests DEF Admits
<1>4. i \in Sells => Offered(Size[i])
  <2> SUFFICES ASSUME i \in Sells
               PROVE  Offered(Size[i])
    OBVIOUS
  <2>1. c.inventory_known /\ ~(c.size > c.free)
    BY <1>1, <1>2, IntentsAssumption, SellIsCovered
  <2>2. Size[i] \in Nat /\ env.free \in Nat
    BY IntentsAssumption, LifecycleAssumption DEF Env
  <2>3. env.known /\ ~(Size[i] > env.free)
    BY <1>2, <2>1
  <2>4. Size[i] =< env.free
    BY <2>2, <2>3
  <2>5. QED
    BY <2>3, <2>4 DEF Offered
<1>5. w.replayed.orders[i].risk = o.risk
  BY <1>1 DEF Good, Booked, RiskFrom
<1>6. /\ Plain(e) /\ e \in Event /\ e.type = "ORDER_AUTHORIZED" /\ e.intent = i
      /\ e.authorized = Size[i]
  BY AuthorizationPlain DEF Authorization, Ev, Plain
<1> HIDE DEF e
<1>7. Checked(w, e)
  BY <1>3, <1>4, <1>5, <1>6 DEF Checked, Fits, LockFits, FillEvents
<1>8. QED
  BY <1>6, <1>7, EmitBooks, EmitPlain DEF Good, e

\* A request leaves the locks and the order's authorization as they were.
LEMMA RequestGood ==
  ASSUME NEW w, NEW floor \in Floors, Good(w, floor), NEW i \in Intents, NEW env,
         NEW saves, NEW v, v = Request(w, i, env, saves)
  PROVE  /\ Good(v, floor) /\ v.rows = w.rows
         /\ Exists(v.replayed, i) <=> Exists(w.replayed, i)
<1> DEFINE e == Ev("BROKER_SUBMISSION_REQUESTED", i)
           c == Claim(w, i)
<1>1. e \in Event /\ e.type = "BROKER_SUBMISSION_REQUESTED" /\ e.intent = i
  BY EvType DEF EventTypes
<1>2. Good(c, floor)
  BY ClaimGood
<1>3. c.rows = w.rows /\ c.replayed = w.replayed
  BY DEF Claim, Good, WorldOk, Worlds
<1>4. WorldOk(c) /\ i \in c.claims
  BY ClaimOk DEF Good
<1>5. v = w \/ v = c \/ v = Emit(c, e, saves)
  BY DEF Request
<1> HIDE DEF e, c
<1>6. WorldOk(Emit(c, e, saves))
  BY <1>1, <1>4, EmitOk DEF Admissible
<1>7. Checked(c, e)
  BY <1>1, QuietChecked DEF FillEvents
<1>8. Good(Emit(c, e, saves), floor)
  BY <1>2, <1>6, <1>7, EmitBooks DEF Good
<1>9. Emit(c, e, saves).rows = c.rows
  BY <1>1, <1>4 DEF Emit, WorldOk, Worlds, ReservationProjection
<1>10. Exists(Emit(c, e, saves).replayed, i) <=> Exists(c.replayed, i)
  <2>1. Emit(c, e, saves).replayed = Apply(c.replayed, e) /\ c.replayed \in State
    BY <1>4 DEF Emit, WorldOk, Worlds
  <2>2. QED
    BY <1>1, <2>1, ApplyAt
<1>11. QED
  BY <1>2, <1>3, <1>5, <1>8, <1>9, <1>10
LEMMA SubmitGood ==
  ASSUME NEW floor \in Floors, Good(World, floor), NEW i \in Intents,
         NEW env \in Envs, NEW has_id \in BOOLEAN, NEW saves,
         SubmitOrder(i, env, has_id, saves)
  PROVE  InOrder(floor)'
<1> DEFINE o == mem.orders[i]
           w == IF NeedsRequest(o) THEN Request(World, i, env, saves) ELSE World
           e == Submission(o, i, env, has_id)
<1>1. /\ o \in Order /\ o.status = World.replayed.orders[i].status
      /\ o.authorized = World.replayed.orders[i].authorized
      /\ i \in Sells /\ o.authorized > 0 => Offered(o.authorized)
  BY WorldFields, OrderOf DEF SameOrderLedger, OrderFacts
<1>2. /\ Good(w, floor) /\ w.rows = rows
      /\ Exists(w.replayed, i) <=> Exists(World.replayed, i)
  BY WorldFields, RequestGood
<1>3. /\ o.status \in {"APPROVED", "AUTHORIZED", "SUBMITTED", "ACKNOWLEDGED"}
      /\ Commit(IF /\ ~NeedsRequest(w.mem.orders[i]) /\ Recordable(o, i, env)
                   /\ ReservationAccepts(rows, e)
                THEN Emit(w, e, saves) ELSE w)
  BY DEF SubmitOrder
<1>4. Plain(e)
  BY <1>1, SubmissionPlain
<1>5. /\ e \in Event /\ e.type = "ORDER_SUBMITTED" /\ e.intent = i
      /\ e.qty = (IF i \in Sells THEN Size[i] ELSE 0)
      /\ e.authorized = (IF o.authorized > 0 THEN o.authorized ELSE env.free)
  BY <1>4 DEF Submission, Ev, Plain
<1>6. Exists(w.replayed, i)
  BY <1>1, <1>2, <1>3 DEF Exists
<1>7. ASSUME Recordable(o, i, env)
      PROVE  i \in Sells => Offered(e.authorized)
  <2>1. CASE o.authorized > 0
    BY <1>1, <1>5, <2>1
  <2>2. CASE ~(o.authorized > 0) /\ i \in Sells
    <3>1. o.authorized = 0
      BY <1>1, <2>2 DEF Order
    <3>2. env.known /\ env.free \in Nat
      BY <1>7, <2>2, <3>1, LifecycleAssumption DEF Recordable, Env
    <3>3. env.free =< env.free
      BY <3>2
    <3>4. QED
      BY <1>5, <2>2, <3>2, <3>3 DEF Offered
  <2>3. QED
    BY <2>1, <2>2
<1> HIDE DEF w, e, o
<1>8. ASSUME Recordable(o, i, env), ReservationAccepts(rows, e)
      PROVE  Good(Emit(w, e, saves), floor)
  <2>1. i \in Sells \ Protective =>
          /\ ActiveRows(rows, SymbolOf[i]) + e.qty =< e.authorized
          /\ rows[i].status = "none"
    BY <1>5, <1>8 DEF ReservationAccepts
  <2>2. LockFits(w.replayed, w.rows, e)
    BY <1>2, <1>5, <1>6, <1>7, <1>8, <2>1 DEF LockFits, Lockable, FillEvents
  <2>3. Fits(w.replayed, e)
    BY <1>5, <1>7, <1>8 DEF Fits
  <2>4. Checked(w, e)
    BY <1>5, <2>2, <2>3 DEF Checked
  <2>5. QED
    BY <1>2, <1>4, <2>4, EmitBooks, EmitPlain DEF Good
<1>9. QED
  BY <1>2, <1>3, <1>8, CommitGood

LEMMA EmergencyGood ==
  ASSUME NEW floor \in Floors, Good(World, floor), NEW i \in Intents,
         NEW env \in Envs, NEW effect, NEW saves, ~KeysAreRegistered,
         EmergencyReduce(i, env, effect, saves)
  PROVE  InOrder(floor)'
<1> DEFINE e == Ev("ORDER_INTENT_CREATED", i)
           c == Emit(World, e, saves)
           w == Approve(c, i, EmergencyDecision, saves)
           a == Emit(w, Authorization(i), saves)
<1>1. /\ i \in Sells /\ ~Exists(mem, i)
      /\ Commit(IF Authorizable(w.mem, i, env, effect)
                THEN Request(a, i, env, saves) ELSE w)
  BY DEF EmergencyReduce
<1>2. Plain(e) /\ e \in Event /\ e.type = "ORDER_INTENT_CREATED" /\ e.intent = i
  BY EvType, EvPlain DEF EventTypes
<1>3. EmergencyDecision \in RiskDecision
  BY DEF EmergencyDecision, RiskDecision, Evidence
<1>4. ~Exists(World.replayed, i)
  BY <1>1, WorldFields, OrderOf
<1> HIDE DEF e
<1>5. Checked(World, e)
  BY <1>2, <1>4 DEF Checked, Fits, LockFits, FillEvents
<1>6. Good(c, floor)
  BY <1>2, <1>5, EmitBooks, EmitPlain DEF Good
<1>7. c.mem.orders[i].status = "PENDING"
  <2>1. c.mem = Apply(mem, e) /\ mem \in State
    BY DEF Emit, World, Good, WorldOk, Worlds
  <2>2. Apply(mem, e).orders[i] = NewOrder("PENDING")
    BY <1>2, <2>1, ApplyAt
  <2>3. QED
    BY <2>1, <2>2 DEF NewOrder
<1> HIDE DEF c
<1>8. Good(w, floor)
  BY <1>3, <1>6, <1>7, ApproveGood
<1> HIDE DEF w
<1>9. i \notin Buys
  BY <1>1, IntentsAssumption
<1>10. Authorizable(w.mem, i, env, effect) => Good(a, floor)
  BY <1>8, <1>9, AuthorizationGood
<1> HIDE DEF a
<1>11. Authorizable(w.mem, i, env, effect) => Good(Request(a, i, env, saves), floor)
  BY <1>10, RequestGood
<1>12. QED
  BY <1>1, <1>8, <1>11, CommitGood
\* An event appended to a world the command has written in memory only.
LEMMA EmitAheadBooks ==
  ASSUME NEW w \in Worlds, NEW floor \in Floors, Booked(w, floor),
         NEW m \in State,
         \A j \in Intents : /\ Exists(m, j) <=> Exists(w.mem, j)
                            /\ m.orders[j].risk = w.mem.orders[j].risk,
         NEW e, Quiet(e), NEW saves
  PROVE  Booked(Emit([w EXCEPT !.mem = m], e, saves), floor)
<1> DEFINE v == [w EXCEPT !.mem = m]
<1>1. v \in Worlds
  BY MemoryOnly
<1>2. Booked(v, floor)
  BY MemoryBooks
<1> HIDE DEF v
<1>3. Announces(v, e)
  BY <1>2 DEF Booked, RiskFrom, Announces
<1>4. Checked(v, e)
  BY QuietChecked DEF Quiet, Plain
<1>5. QED
  BY <1>1, <1>2, <1>3, <1>4, EmitBooksAhead DEF Booked, v

LEMMA RequireManualBooks ==
  ASSUME NEW w \in Worlds, NEW floor \in Floors, Booked(w, floor),
         NEW i \in Intents, NEW saves
  PROVE  Booked(RequireManual(w, i, saves), floor)
<1> DEFINE m == [w.mem EXCEPT
                   !.manual_blocked = TRUE,
                   !.unresolved     = @ \cup {i},
                   !.health         = IF @ = "PROTECTION_GAP" THEN @
                                      ELSE "MANUAL_BLOCKED"]
<1>1. w.mem \in State /\ m \in State /\ m.orders = w.mem.orders
  BY DEF Worlds, State, Healths
<1>2. RequireManual(w, i, saves)
        = Emit([w EXCEPT !.mem = m], Ev("MANUAL_INTERVENTION_REQUIRED", i), saves)
  BY DEF RequireManual, Worlds
<1> HIDE DEF m
<1>3. \A j \in Intents : /\ Exists(m, j) <=> Exists(w.mem, j)
                         /\ m.orders[j].risk = w.mem.orders[j].risk
  BY <1>1 DEF Exists
<1>4. QED
  BY <1>1, <1>2, <1>3, EvQuiet, EmitAheadBooks

LEMMA RequireManualGood ==
  ASSUME NEW w, NEW floor \in Floors, Good(w, floor), NEW i \in Intents, NEW saves
  PROVE  Good(RequireManual(w, i, saves), floor)
  BY RequireManualBooks, RequireManualLive DEF Good, WorldOk

LEMMA ReceiveFillGood ==
  ASSUME NEW floor \in Floors, Good(World, floor), NEW i \in Intents,
         NEW n \in 1..Size[i], NEW trigger, NEW saves,
         ReceiveFill(i, n, trigger, saves)
  PROVE  InOrder(floor)'
<1> DEFINE type == IF n = Remaining(mem.orders[i], i) THEN "FILL_RECEIVED"
                   ELSE "PARTIAL_FILL_RECEIVED"
           e == Fill(i, n, type)
           w == Emit(World, e, saves)
           m == [w.mem EXCEPT !.health = "PROTECTION_GAP"]
           v == [w EXCEPT !.mem.health = "PROTECTION_GAP"]
<1>1. /\ n \in Nat /\ n > 0
      /\ i \in Sells => n =< RemainingReserved(mem.orders[i])
  BY IntentsAssumption DEF ReceiveFill
<1>2. /\ Plain(e) /\ e \in Event /\ e.type \in FillEvents
      /\ e.intent = i /\ e.qty = n
  <2>1. Plain(e)
    BY <1>1, FillPlain
  <2>2. QED
    BY <2>1 DEF Plain, Fill, Ev, FillEvents
<1>3. Commit(IF i \in Buys /\ ~trigger THEN RequireManual(v, i, saves) ELSE w)
  BY DEF ReceiveFill
<1> HIDE DEF e
<1>4. RemainingReserved(World.replayed.orders[i]) = RemainingReserved(mem.orders[i])
  BY WorldFields, OrderOf DEF SameOrderLedger, RemainingReserved
<1>5. LockFits(World.replayed, World.rows, e)
  BY <1>1, <1>2, <1>4 DEF LockFits, Lockable, FillEvents
<1>6. Checked(World, e)
  BY <1>2, <1>5 DEF Checked, Fits, FillEvents
<1>7. Good(w, floor)
  BY <1>2, <1>6, EmitBooks, EmitPlain DEF Good
<1> HIDE DEF w
<1>8. w \in Worlds /\ w.mem \in State /\ v = [w EXCEPT !.mem = m]
  BY <1>7 DEF Good, WorldOk, Worlds
<1>9. m \in State /\ m.orders = w.mem.orders
  BY <1>8 DEF State, Healths
<1> HIDE DEF m
<1>10. \A j \in Intents : /\ Exists(m, j) <=> Exists(w.mem, j)
                          /\ m.orders[j].risk = w.mem.orders[j].risk
  BY <1>9 DEF Exists
<1>11. v \in Worlds /\ Booked(v, floor)
  BY <1>7, <1>8, <1>9, <1>10, MemoryOnly, MemoryBooks DEF Good
<1> HIDE DEF v
<1>12. Booked(RequireManual(v, i, saves), floor)
  BY <1>11, RequireManualBooks
<1>13. Booked(w, floor) /\ IInv'
  BY <1>7, <1>1, ReceiveFillOk DEF Good
<1>14. QED
  BY <1>3, <1>12, <1>13, CommitBooked
-----------------------------------------------------------------------------
(* Broker facts.  A fill among them is not checked against the lock.       *)

LEMMA EmitType ==
  ASSUME NEW w \in Worlds, NEW e \in Event, NEW saves
  PROVE  Emit(w, e, saves) \in Worlds
<1> DEFINE base == IF e.type \in saves THEN w.mem ELSE w.recovered
<1>1. base \in State /\ w.mem \in State /\ w.replayed \in State
  BY DEF Worlds
<1>2. /\ Apply(w.mem, e) \in State /\ Apply(w.replayed, e) \in State
      /\ Apply(base, e) \in State
  BY <1>1, ApplyType
<1>3. ReservationProjection(w.rows, e) \in [Intents -> Row]
  BY ReservationProjectionType DEF Worlds
<1>4. Reloaded(w) \in Cores
  BY DEF Reloaded, Worlds, Cores
<1> HIDE DEF base
<1>5. QED
  BY <1>2, <1>3, <1>4 DEF Emit, Worlds, base

LEMMA FillChecked ==
  ASSUME NEW w, NEW i \in Intents, NEW n \in Nat, NEW type \in FillEvents,
         ~FillsFollowLocks
  PROVE  Plain(Fill(i, n, type)) /\ Checked(w, Fill(i, n, type))
<1> DEFINE e == Fill(i, n, type)
<1>1. Plain(e)
  BY FillPlain DEF FillEvents
<1>2. e \in Event /\ e.type \in FillEvents
  BY <1>1 DEF Plain, Fill, Ev
<1> HIDE DEF e
<1>3. Checked(w, e)
  BY <1>2 DEF Checked, Fits, FillEvents
<1>4. QED
  BY <1>1, <1>3 DEF e

LEMMA RecordUnknownGood ==
  ASSUME NEW w, NEW floor \in Floors, Good(w, floor), NEW i \in Intents,
         Exists(w.mem, i), NEW saves
  PROVE  Good(RecordUnknown(w, i, saves), floor)
<1> DEFINE m == [w.mem EXCEPT
                   !.orders[i].status = "MANUAL",
                   !.manual_blocked   = TRUE,
                   !.unresolved       = @ \cup {i},
                   !.health           = IF @ = "PROTECTION_GAP" THEN @
                                        ELSE "MANUAL_BLOCKED"]
           e == Ev("BROKER_STATE_UNKNOWN", i)
           r == ReconEv("RECONCILIATION_STARTED")
           u == Emit([w EXCEPT !.mem = m], e, saves)
<1>1. w \in Worlds /\ w.mem \in State
  BY DEF Good, WorldOk, Worlds
<1>2. m \in State
  <2>1. [w.mem.orders[i] EXCEPT !.status = "MANUAL"] \in Order
    BY <1>1 DEF State, Order, Statuses
  <2>2. [w.mem.orders EXCEPT ![i].status = "MANUAL"] \in [Intents -> Order]
    BY <1>1, <2>1 DEF State
  <2>3. (IF w.mem.health = "PROTECTION_GAP" THEN w.mem.health
         ELSE "MANUAL_BLOCKED") \in Healths
    BY DEF Healths
  <2>4. w.mem.unresolved \cup {i} \in SUBSET Intents
    BY <1>1 DEF State
  <2>5. QED
    BY <1>1, <2>2, <2>3, <2>4 DEF State
<1>3. \A j \in Intents :
        /\ m.orders[j].status = IF j = i THEN "MANUAL" ELSE w.mem.orders[j].status
        /\ m.orders[j].risk = w.mem.orders[j].risk
  BY <1>1 DEF State, Order
<1>4. RecordUnknown(w, i, saves) = Emit(u, r, saves)
  BY <1>1 DEF RecordUnknown, Worlds
<1>5. Quiet(e) /\ Quiet(r)
  BY EvQuiet, StartQuiet
<1> HIDE DEF m, e
<1>6. \A j \in Intents : Exists(m, j) <=> Exists(w.mem, j)
  BY <1>3 DEF Exists
<1>7. Booked(u, floor)
  BY <1>1, <1>2, <1>3, <1>5, <1>6, EmitAheadBooks DEF Good
<1>8. u \in Worlds
  BY <1>1, <1>2, <1>5, MemoryOnly, EmitType DEF Quiet, Plain
<1> HIDE DEF u
<1>9. Checked(u, r)
  BY <1>5, QuietChecked DEF Quiet, Plain
<1>10. Announces(u, r)
  BY <1>7 DEF Booked, RiskFrom, Announces
<1>11. Booked(Emit(u, r, saves), floor)
  BY <1>7, <1>8, <1>9, <1>10, EmitBooksAhead DEF Booked
<1>12. WorldOk(RecordUnknown(w, i, saves))
  BY RecordUnknownOk DEF Good
<1>13. QED
  BY <1>4, <1>11, <1>12 DEF Good
LEMMA RecordFillGood ==
  ASSUME NEW w, NEW floor \in Floors, Good(w, floor), NEW i \in Intents,
         NEW fact, fact.qty \in Nat, NEW saves, ~FillsFollowLocks
  PROVE  Good(RecordFill(w, i, fact, saves), floor)
<1> DEFINE acked == Emit(w, Ev("BROKER_ACKNOWLEDGED", i), saves)
           type  == IF fact.state = "FILLED" THEN "FILL_RECEIVED"
                    ELSE "PARTIAL_FILL_RECEIVED"
           e     == Fill(i, fact.qty, type)
           man   == RequireManual(acked, i, saves)
<1>1. Good(acked, floor)
  BY EvQuiet, EmitQuiet
<1>2. Plain(e) /\ Checked(acked, e)
  BY FillChecked DEF FillEvents
<1> HIDE DEF acked, e
<1>3. Good(Emit(acked, e, saves), floor)
  BY <1>1, <1>2, EmitBooks, EmitPlain DEF Good
<1>4. Good(man, floor)
  BY <1>1, RequireManualGood
<1> HIDE DEF man
<1>5. Good(Emit(man, ReconEv("RECONCILIATION_STARTED"), saves), floor)
  BY <1>4, StartQuiet, EmitQuiet
<1>6. QED
  BY <1>1, <1>3, <1>5 DEF RecordFill, acked, e, man

LEMMA RecordFactGood ==
  ASSUME NEW w, NEW floor \in Floors, Good(w, floor), NEW i \in Intents,
         NEW fact \in Facts(i), NEW saves, ~FillsFollowLocks,
         fact.state = "UNKNOWN" => Exists(w.mem, i)
  PROVE  Good(RecordFact(w, i, fact, saves), floor)
<1>1. fact.qty \in Nat /\ fact.state \in FactStates
  BY IntentsAssumption DEF Facts, FactStates, FillStates
<1>2. Good(Emit(w, Ev("BROKER_ACKNOWLEDGED", i), saves), floor)
  BY EvQuiet, EmitQuiet
<1>3. Good(Emit(w, Ev("ORDER_REJECTED", i), saves), floor)
  BY EvQuiet, EmitQuiet
<1>4. Good(Emit(w, Ev("LOCAL_SUBMISSION_FAILED", i), saves), floor)
  BY EvQuiet, EmitQuiet
<1>5. Good(RecordFill(w, i, fact, saves), floor)
  BY <1>1, RecordFillGood
<1>6. fact.state = "UNKNOWN" => Good(RecordUnknown(w, i, saves), floor)
  BY RecordUnknownGood
<1>7. Good(RequireManual(w, i, saves), floor)
  BY RequireManualGood
<1>8. QED
  BY <1>1, <1>2, <1>3, <1>4, <1>5, <1>6, <1>7 DEF RecordFact, FactStates, FillStates

\* A later lookup reserves what the order was authorized for.
LEMMA RecordReconciledGood ==
  ASSUME NEW floor \in Floors, Good(World, floor), NEW i \in Intents,
         NEW fact \in Facts(i), NEW saves, ~FillsFollowLocks,
         RecordReconciledBrokerSubmitResult(i, fact, saves)
  PROVE  InOrder(floor)'
<1> DEFINE o    == mem.orders[i]
           e    == [Ev("ORDER_SUBMITTED", i) EXCEPT
                      !.exchange_id = TRUE, !.authorized = o.authorized,
                      !.qty = IF i \in Sells THEN Size[i] ELSE 0]
           live == fact.state \in FillStates \cup {"ACCEPTED"}
           w1   == IF live THEN Emit(World, e, saves) ELSE World
           w2   == RecordFact(w1, i, fact, saves)
<1>1. /\ o \in Order
      /\ i \in Sells /\ o.authorized > 0 => Offered(o.authorized)
  BY WorldFields, OrderOf DEF SameOrderLedger, OrderFacts
<1>2. o.authorized \in Nat /\ (IF i \in Sells THEN Size[i] ELSE 0) \in Nat
  BY <1>1, IntentsAssumption DEF Order
<1>3. /\ Plain(e) /\ e \in Event /\ e.type = "ORDER_SUBMITTED" /\ e.intent = i
      /\ e.authorized = o.authorized
  BY <1>2, NoDecisionType DEF Plain, Ev, Event, EventTypes
<1>4. /\ fact.state # "UNKNOWN"
      /\ Commit(IF /\ ~FillRefused(w1, i, fact)
                   /\ w2.mem.unresolved = {} /\ w2.mem.reconciliation = "STARTED"
                THEN Emit(w2, ReconEv("RECONCILIATION_RESOLVED"), saves) ELSE w2)
  BY DEF RecordReconciledBrokerSubmitResult
<1> HIDE DEF e, o, live
<1>5. Checked(World, e)
  BY <1>1, <1>3 DEF Checked, Fits
<1>6. Good(Emit(World, e, saves), floor)
  BY <1>3, <1>5, EmitBooks, EmitPlain DEF Good
<1>7. Good(w1, floor)
  BY <1>6
<1> HIDE DEF w1
<1>8. Good(w2, floor)
  BY <1>4, <1>7, RecordFactGood
<1> HIDE DEF w2
<1>9. QED
  BY <1>4, <1>8, ResolveGood, CommitGood

-----------------------------------------------------------------------------
(* reconcile_broker_state writes statuses of orders the log knows.         *)

LEMMA ReconciledOrder ==
  ASSUME NEW s \in State, NEW races \in SUBSET Intents, NEW lost \in SUBSET Intents,
         NEW i \in Intents, NEW o, o = Reconciled(s, races, lost).orders[i]
  PROVE  /\ o.status = IF i \in races THEN "ACKNOWLEDGED"
                       ELSE IF i \in lost THEN "MANUAL" ELSE s.orders[i].status
         /\ o.risk = s.orders[i].risk /\ o.filled = s.orders[i].filled
         /\ o.authorized = s.orders[i].authorized
         /\ o.reserved = s.orders[i].reserved /\ o.released = s.orders[i].released
<1>1. o = IF i \in races THEN [s.orders[i] EXCEPT !.status = "ACKNOWLEDGED"]
          ELSE IF i \in lost THEN [s.orders[i] EXCEPT !.status = "MANUAL"]
          ELSE s.orders[i]
  BY DEF Reconciled, State
<1>2. s.orders[i] \in Order
  BY DEF State
<1>3. QED
  BY <1>1, <1>2 DEF Order
LEMMA IdentifiedOrder ==
  ASSUME NEW s \in State, NEW races \in SUBSET Intents, NEW i \in Intents
  PROVE  /\ Identified(s, races) \in State
         /\ Identified(s, races).orders[i].status = s.orders[i].status
         /\ Identified(s, races).orders[i].risk = s.orders[i].risk
<1>1. \A o \in Order : [o EXCEPT !.exchange_id = TRUE] \in Order
  BY DEF Order
<1>2. Identified(s, races).orders
        = [j \in Intents |-> IF j \in races
                             THEN [s.orders[j] EXCEPT !.exchange_id = TRUE]
                             ELSE s.orders[j]]
  BY DEF Identified, State
<1>3. Identified(s, races) \in State
  BY <1>1 DEF Identified, State
<1>4. s.orders[i] \in Order
  BY DEF State
<1>5. QED
  BY <1>2, <1>3, <1>4 DEF Order

\* Both states of a restart learn the same statuses.
LEMMA ReconciledRisk ==
  ASSUME NEW s \in State, NEW t \in State, RiskFrom(s, t),
         NEW races \in SUBSET Intents, NEW lost \in SUBSET Intents
  PROVE  RiskFrom(Reconciled(s, races, lost), Reconciled(t, races, lost))
<1> DEFINE x == Reconciled(s, races, lost)
           y == Reconciled(t, races, lost)
<1>1. \A j \in Intents :
        /\ x.orders[j].status = IF j \in races THEN "ACKNOWLEDGED"
                                ELSE IF j \in lost THEN "MANUAL"
                                ELSE s.orders[j].status
        /\ x.orders[j].risk = s.orders[j].risk
  BY ReconciledOrder
<1>2. \A j \in Intents :
        /\ y.orders[j].status = IF j \in races THEN "ACKNOWLEDGED"
                                ELSE IF j \in lost THEN "MANUAL"
                                ELSE t.orders[j].status
        /\ y.orders[j].risk = t.orders[j].risk
  BY ReconciledOrder
<1> HIDE DEF x, y
<1>3. RiskFrom(x, y)
  BY <1>1, <1>2 DEF RiskFrom, Exists
<1>4. QED
  BY <1>3 DEF x, y

LEMMA AuditGood ==
  ASSUME NEW w, NEW floor \in Floors, Good(w, floor), NEW races \in SUBSET Intents,
         NEW lost \in SUBSET Intents, NEW saves,
         \A i \in races \cup lost : Exists(w.replayed, i)
  PROVE  Good(Audit(w, races, lost, saves), floor)
<1> DEFINE v    == Audit(w, races, lost, saves)
           live == Identified(w.mem, races)
           base == IF saves \cap {"BROKER_STATE_RECONCILED",
                                  "MANUAL_INTERVENTION_REQUIRED"} # {}
                   THEN live ELSE w.recovered
           t    == Reconciled(w.replayed, races, lost)
<1>1. /\ w \in Worlds /\ w.mem \in State /\ w.replayed \in State
      /\ w.recovered \in State /\ WorldOk(w)
  BY DEF Good, WorldOk, Worlds
<1>2. live \in State /\ RiskFrom(live, w.replayed)
  <2>1. \A j \in Intents : /\ live.orders[j].status = w.mem.orders[j].status
                           /\ live.orders[j].risk = w.mem.orders[j].risk
    BY <1>1, IdentifiedOrder
  <2>2. live \in State
    BY <1>1, IntentsAssumption, IdentifiedOrder
  <2> HIDE DEF live
  <2>3. QED
    BY <2>1, <2>2 DEF Good, Booked, RiskFrom, Exists
<1>3. base \in State /\ RiskFrom(base, w.replayed)
  BY <1>1, <1>2 DEF Good, Booked, Books
<1>4. /\ v.mem = Reconciled(live, races, lost)
      /\ v.replayed = t /\ v.recovered = Reconciled(base, races, lost)
      /\ v.rows = w.rows /\ v.registered = w.registered /\ v.crashes = w.crashes
  BY <1>1 DEF Audit, Worlds
<1>5. WorldOk(v)
  BY <1>1, AuditOk
<1>6. RiskFrom(Reconciled(live, races, lost), t)
      /\ RiskFrom(Reconciled(base, races, lost), t)
  BY <1>1, <1>2, <1>3, ReconciledRisk
<1> HIDE DEF v, live, base
<1>7. \A j \in Intents :
        /\ t.orders[j].status = IF j \in races THEN "ACKNOWLEDGED"
                                ELSE IF j \in lost THEN "MANUAL"
                                ELSE w.replayed.orders[j].status
        /\ t.orders[j].risk = w.replayed.orders[j].risk
        /\ t.orders[j].filled = w.replayed.orders[j].filled
        /\ t.orders[j].authorized = w.replayed.orders[j].authorized
        /\ t.orders[j].reserved = w.replayed.orders[j].reserved
        /\ t.orders[j].released = w.replayed.orders[j].released
  BY <1>1, ReconciledOrder
<1>8. ASSUME NEW j \in Intents
      PROVE  Exists(t, j) <=> Exists(w.replayed, j)
  BY <1>7 DEF Exists
<1> HIDE DEF t
<1>9. ASSUME NEW j \in Intents
      PROVE  OrderFacts(t.orders[j], j)
  <2>1. OrderFacts(w.replayed.orders[j], j)
    BY DEF Good, Booked, Books
  <2>2. j \in races \cup lost => w.replayed.orders[j].status # "ABSENT"
    BY DEF Exists
  <2>3. QED
    BY <1>7, <2>1, <2>2 DEF OrderFacts
<1>10. KeysAreRegistered => KeyFacts(v)
  BY <1>4, <1>8 DEF Good, Booked, Books, KeyFacts
<1>11. FillsFollowLocks => RowFacts(v.replayed, v.rows)
  <2> SUFFICES ASSUME FillsFollowLocks
               PROVE  RowFacts(v.replayed, v.rows)
    OBVIOUS
  <2>1. RowFacts(w.replayed, w.rows)
    BY DEF Good, Booked, Books
  <2>2. ASSUME NEW j \in Lockable
        PROVE  LockFacts(t.orders[j], w.rows[j], j)
    <3>1. j \in Intents /\ LockFacts(w.replayed.orders[j], w.rows[j], j)
      BY <2>1 DEF RowFacts, Lockable, Intents
    <3>2. t.orders[j].status = "ABSENT" => w.replayed.orders[j].status = "ABSENT"
      BY <1>7, <3>1
    <3>3. QED
      BY <1>7, <3>1, <3>2 DEF LockFacts
  <2>3. QED
    BY <1>4, <2>1, <2>2 DEF RowFacts
<1>12. Grown(v, floor)
  BY <1>4, <1>7 DEF Good, Booked, Grown
<1>13. Books(v) /\ RiskFrom(v.mem, v.replayed) /\ CrashesBooked(v, floor)
  BY <1>4, <1>6, <1>9, <1>10, <1>11 DEF Good, Booked, Books, CrashesBooked
<1>14. QED
  BY <1>5, <1>12, <1>13 DEF Good, Booked, v
LEMMA ResolveBooks ==
  ASSUME NEW w \in Worlds, NEW floor \in Floors, Booked(w, floor), NEW saves
  PROVE  Booked(Emit(w, ReconEv("RECONCILIATION_RESOLVED"), saves), floor)
<1> DEFINE e == ReconEv("RECONCILIATION_RESOLVED")
<1>1. e \in Event /\ e.type = "RECONCILIATION_RESOLVED"
  BY ReconEvType DEF EventTypes
<1> HIDE DEF e
<1>2. Checked(w, e)
  BY <1>1, QuietChecked DEF FillEvents
<1>3. Announces(w, e)
  BY DEF Booked, RiskFrom, Announces
<1>4. Booked(Emit(w, e, saves), floor)
  BY <1>2, <1>3, EmitBooksAhead DEF Booked
<1>5. QED
  BY <1>4 DEF e

LEMMA ReconcileGood ==
  ASSUME NEW floor \in Floors, Good(World, floor), NEW broker, NEW saves,
         ReconcileBrokerState(broker, saves)
  PROVE  InOrder(floor)'
<1> DEFINE e     == ReconEv("RECONCILIATION_STARTED")
           w1    == Emit(World, e, saves)
           races == CancelRaces(broker)
           lost  == LostOrders(broker)
           w2    == Audited(w1, races, lost, saves)
           calm  == [w2 EXCEPT !.mem.health = "NORMAL"]
           w3    == IF races # {} THEN calm ELSE w2
           audit == Audit(w1, races, lost, saves)
           cut   == {Reloaded(Audit(w1, R, L, saves)) :
                       R \in SUBSET races, L \in SUBSET lost}
<1>1. Good(w1, floor)
  BY StartQuiet, EmitQuiet
<1>2. \A i \in Intents : Exists(w1.replayed, i) <=> Exists(World.replayed, i)
  <2>1. /\ e \in Event /\ e.type = "RECONCILIATION_STARTED"
        /\ World.replayed \in State /\ w1.replayed = Apply(World.replayed, e)
    BY ReconEvType DEF EventTypes, Emit, Good, WorldOk, Worlds
  <2> HIDE DEF e, w1
  <2>2. Exists(w1.replayed, e.intent) <=> Exists(World.replayed, e.intent)
    BY <2>1, ApplyAt
  <2>3. \A i \in Intents : i # e.intent => w1.replayed.orders[i] = World.replayed.orders[i]
    BY <2>1, ApplyElsewhere
  <2>4. QED
    BY <2>2, <2>3 DEF Exists
<1>3. /\ races \in SUBSET Intents /\ lost \in SUBSET Intents
      /\ \A i \in races \cup lost : Exists(mem, i)
  BY DEF CancelRaces, LostOrders, IsLive, LiveStatuses, Exists
<1>4. \A i \in races \cup lost : Exists(w1.replayed, i)
  BY <1>2, <1>3, WorldFields, OrderOf
<1>5. Commit(IF lost # {} THEN w2
             ELSE IF w2.mem.unresolved # {} THEN w3
             ELSE Emit(w3, ReconEv("RECONCILIATION_RESOLVED"), saves))
  BY DEF ReconcileBrokerState
<1> HIDE DEF e, w1, races, lost
<1>6. Good(audit, floor)
  BY <1>1, <1>3, <1>4, AuditGood
<1>7. ASSUME NEW c \in cut
      PROVE  /\ c \in Cores /\ Books(c) /\ RiskFrom(c.mem, c.replayed)
             /\ Grown(c, floor)
  <2>1. PICK R \in SUBSET races, L \in SUBSET lost :
          c = Reloaded(Audit(w1, R, L, saves))
    OBVIOUS
  <2> DEFINE a == Audit(w1, R, L, saves)
  <2>2. R \in SUBSET Intents /\ L \in SUBSET Intents
        /\ \A i \in R \cup L : Exists(w1.replayed, i)
    BY <1>3, <1>4
  <2>3. Good(a, floor)
    BY <1>1, <2>2, AuditGood
  <2> HIDE DEF a
  <2>4. Reloaded(a) \in Cores
    BY <2>3, ReloadedOk DEF Good, WorldOk
  <2>5. /\ Books(Reloaded(a)) /\ Grown(Reloaded(a), floor)
        /\ RiskFrom(Reloaded(a).mem, Reloaded(a).replayed)
    BY <2>3, ReloadedBooks DEF Good, Booked
  <2>6. QED
    BY <2>1, <2>4, <2>5 DEF a
<1> HIDE DEF audit, cut
<1>8. /\ w2 \in Worlds /\ w2.mem = audit.mem
      /\ w2.replayed = audit.replayed /\ w2.recovered = audit.recovered
      /\ w2.rows = audit.rows /\ w2.registered = audit.registered
      /\ w2.crashes = audit.crashes \cup cut
  <2>1. audit \in Worlds /\ audit.crashes \cup cut \in SUBSET Cores
    BY <1>6, <1>7 DEF Good, WorldOk, Worlds
  <2>2. w2 = [audit EXCEPT !.crashes = @ \cup cut]
    BY DEF Audited, audit, cut
  <2> HIDE DEF w2
  <2>3. QED
    BY <2>1, <2>2 DEF Worlds
<1> HIDE DEF w2
<1>9. Booked(w2, floor)
  <2>1. Books(w2) /\ RiskFrom(w2.mem, w2.replayed) /\ Grown(w2, floor)
    BY <1>6, <1>8 DEF Good, Booked, Books, KeyFacts, Grown
  <2>2. CrashesBooked(w2, floor)
    BY <1>6, <1>7, <1>8 DEF Good, Booked, CrashesBooked
  <2>3. QED
    BY <2>1, <2>2 DEF Booked
<1>10. calm \in Worlds /\ Booked(calm, floor)
  <2> DEFINE m == [w2.mem EXCEPT !.health = "NORMAL"]
  <2>1. w2.mem \in State
    BY <1>8 DEF Worlds
  <2>2. m \in State /\ m.orders = w2.mem.orders
    BY <2>1 DEF State, Healths
  <2>3. calm = [w2 EXCEPT !.mem = m]
    BY <1>8 DEF Worlds
  <2> HIDE DEF m, calm
  <2>4. \A j \in Intents : /\ Exists(m, j) <=> Exists(w2.mem, j)
                           /\ m.orders[j].risk = w2.mem.orders[j].risk
    BY <2>2 DEF Exists
  <2>5. QED
    BY <1>8, <1>9, <2>2, <2>3, <2>4, MemoryOnly, MemoryBooks
<1> HIDE DEF calm
<1>11. w3 \in Worlds /\ Booked(w3, floor)
  BY <1>8, <1>9, <1>10
<1> HIDE DEF w3
<1>12. Booked(Emit(w3, ReconEv("RECONCILIATION_RESOLVED"), saves), floor)
  BY <1>11, ResolveBooks
<1>13. IInv'
  BY ReconcileBrokerStateOk DEF Good
<1>14. QED
  BY <1>5, <1>9, <1>11, <1>12, <1>13, CommitBooked

-----------------------------------------------------------------------------
(* The invariant.                                                          *)

NoFills == [i \in Intents |-> 0]

LEMMA InitInOrder == Init => InOrder(NoFills)
<1> SUFFICES ASSUME Init
             PROVE  Good(World, NoFills)
  BY DEF InOrder
<1>1. World = [mem |-> EmptyState, replayed |-> EmptyState, recovered |-> EmptyState,
               rows |-> [i \in Intents |-> NoRow], claims |-> {}, registered |-> {},
               crashes |-> {}]
  BY DEF Init, World
<1>2. WorldOk(World)
  BY InitIInv DEF IInv
<1>3. \A i \in Intents : EmptyState.orders[i] = NewOrder("ABSENT")
  BY DEF EmptyState
<1>4. \A i \in Intents : OrderFacts(EmptyState.orders[i], i)
  BY <1>3, NewOrderFacts
<1>5. \A i \in Intents : ~Exists(EmptyState, i) /\ EmptyState.orders[i].filled = 0
  BY <1>3 DEF Exists, NewOrder
<1>6. RiskFrom(EmptyState, EmptyState)
  BY DEF RiskFrom
<1>7. RowFacts(EmptyState, [i \in Intents |-> NoRow])
  <2> DEFINE book == [i \in Intents |-> NoRow]
  <2>1. \A i \in Intents : book[i].status = "none"
    BY DEF NoRow
  <2>2. \A i \in Lockable : LockFacts(EmptyState.orders[i], book[i], i)
    BY <1>3, <2>1 DEF Lockable, Intents, LockFacts, NewOrder
  <2>3. ASSUME NEW i \in Sells, VenueReports
        PROVE  Offered(ActiveRows(book, SymbolOf[i]))
    <3>1. ActiveRows(book, SymbolOf[i]) = 0
      BY NoRowsActive
    <3>2. \A env \in Envs : 0 =< env.free
      BY LifecycleAssumption DEF Env
    <3> HIDE DEF book
    <3>3. QED
      BY <2>3, <3>1, <3>2 DEF VenueReports, Offered
  <2> HIDE DEF book
  <2>4. RowFacts(EmptyState, book)
    BY <2>1, <2>2, <2>3 DEF RowFacts
  <2>5. QED
    BY <2>4 DEF book
<1>8. Books(World)
  BY <1>1, <1>4, <1>5, <1>6, <1>7 DEF Books, KeyFacts
<1>9. Grown(World, NoFills) /\ CrashesBooked(World, NoFills)
  BY <1>1, <1>5 DEF Grown, CrashesBooked, NoFills
<1>10. QED
  BY <1>1, <1>2, <1>6, <1>8, <1>9 DEF Good, Booked
\* Commands that write one event no command checks the books for.
LEMMA OneEventGood ==
  ASSUME NEW floor \in Floors, Good(World, floor), NEW e, Quiet(e), NEW saves,
         Commit(Emit(World, e, saves))
  PROVE  InOrder(floor)'
  BY EmitQuiet, CommitGood

LEMMA CancelGood ==
  ASSUME NEW floor \in Floors, Good(World, floor), NEW i \in Intents,
         NEW evidence \in {"CANCELED", "FILLED"}, NEW saves,
         ConfirmCancel(i, evidence, saves)
  PROVE  InOrder(floor)'
<1> DEFINE e == [Ev("CANCEL_CONFIRMED", i) EXCEPT !.evidence = evidence]
<1>1. /\ evidence = "FILLED" => Remaining(mem.orders[i], i) = 0
      /\ Commit(Emit(World, e, saves))
  BY DEF ConfirmCancel
<1>2. /\ Plain(e) /\ e \in Event /\ e.type = "CANCEL_CONFIRMED" /\ e.intent = i
      /\ e.evidence = evidence
  BY NoDecisionType DEF Plain, Ev, Event, EventTypes
<1> HIDE DEF e
<1>3. Remaining(World.replayed.orders[i], i) = Remaining(mem.orders[i], i)
  BY WorldFields, OrderOf DEF SameOrderLedger, Remaining
<1>4. Checked(World, e)
  BY <1>1, <1>2, <1>3 DEF Checked, Fits, LockFits, FillEvents
<1>5. Good(Emit(World, e, saves), floor)
  BY <1>2, <1>4, EmitBooks, EmitPlain DEF Good
<1>6. QED
  BY <1>1, <1>5, CommitGood

LEMMA NextInOrder ==
  ASSUME NEW floor \in Floors, InOrder(floor), [Next]_vars
  PROVE  InOrder(floor)'
<1>0. Good(World, floor)
  BY DEF InOrder
<1>1. ASSUME NEW i \in Intents, NEW env \in Envs, NEW saves,
             CreateOrderIntent(i, env, saves)
      PROVE  InOrder(floor)'
  BY <1>0, <1>1, CreateGood
<1>2. ASSUME NEW i \in Intents, NEW env \in Envs, NEW saves,
             RequestBrokerSubmission(i, env, saves)
      PROVE  InOrder(floor)'
  BY <1>0, <1>2, RequestGood, CommitGood DEF RequestBrokerSubmission
<1>3. ASSUME NEW i \in Intents, NEW env \in Envs, NEW effect \in AuthorizedEffects(i),
             NEW saves, AuthorizeOrder(i, env, effect, saves)
      PROVE  InOrder(floor)'
  <2>1. i \in Buys => effect \in {"INCREASE", "NEUTRAL"}
    BY <1>3 DEF AuthorizedEffects
  <2>2. Authorizable(World.mem, i, env, effect)
    BY <1>3, WorldFields DEF AuthorizeOrder
  <2>3. Good(Emit(World, Authorization(i), saves), floor)
    BY <1>0, <2>1, <2>2, AuthorizationGood
  <2>4. QED
    BY <1>3, <2>3, CommitGood DEF AuthorizeOrder
<1>4. ASSUME NEW i \in Intents, NEW env \in Envs, NEW effect, NEW saves,
             May("emergency_reduce"), EmergencyReduce(i, env, effect, saves)
      PROVE  InOrder(floor)'
  BY <1>0, <1>4, EmergencyGood DEF May, KeysAreRegistered
<1>5. ASSUME NEW i \in Intents, NEW env \in Envs, NEW has_id \in BOOLEAN,
             NEW saves, SubmitOrder(i, env, has_id, saves)
      PROVE  InOrder(floor)'
  BY <1>0, <1>5, SubmitGood
<1>6. ASSUME NEW i \in Intents, NEW d \in RiskDecisions \cup {NoDecision},
             NEW saves, ApproveRisk(i, d, saves)
      PROVE  InOrder(floor)'
  <2>1. World.mem.orders[i].status \in {"PENDING", "APPROVED"}
    BY <1>6, WorldFields DEF ApproveRisk
  <2>2. d \in RiskDecision
    BY <1>6, NoDecisionIsDecision
  <2>3. Good(Approve(World, i, d, saves), floor)
    BY <1>0, <2>1, <2>2, ApproveGood
  <2>4. QED
    BY <1>6, <2>3, CommitGood DEF ApproveRisk
<1>7. ASSUME NEW i \in Intents, NEW saves,
             \/ RecordBrokerIoStarted(i, saves) \/ AcknowledgeBroker(i, saves)
             \/ RequestCancel(i, saves) \/ RejectOrder(i, saves)
             \/ CreateProtectiveOrder(i, saves) \/ AcknowledgeProtectiveOrder(i, saves)
      PROVE  InOrder(floor)'
  BY <1>0, <1>7, EvQuiet, OneEventGood
  DEF RecordBrokerIoStarted, AcknowledgeBroker, RequestCancel, RejectOrder,
      CreateProtectiveOrder, AcknowledgeProtectiveOrder
<1>8. ASSUME NEW i \in Intents, NEW evidence \in {"CANCELED", "FILLED"}, NEW saves,
             ConfirmCancel(i, evidence, saves)
      PROVE  InOrder(floor)'
  BY <1>0, <1>8, CancelGood
<1>9. ASSUME NEW i \in Intents, NEW n \in 1..Size[i], NEW trigger, NEW saves,
             ReceiveFill(i, n, trigger, saves)
      PROVE  InOrder(floor)'
  BY <1>0, <1>9, ReceiveFillGood
<1>10. ASSUME NEW i \in Intents, NEW saves, RequireManualIntervention(i, saves)
       PROVE  InOrder(floor)'
  BY <1>0, <1>10, RequireManualGood, CommitGood DEF RequireManualIntervention
<1>11. ASSUME NEW i \in Intents, NEW fact \in Facts(i), NEW saves,
              May("record_broker_submit_result"),
              RecordBrokerSubmitResult(i, fact, saves)
       PROVE  InOrder(floor)'
  <2>1. Exists(World.mem, i)
    BY <1>11, WorldFields DEF RecordBrokerSubmitResult
  <2>2. ~FillsFollowLocks
    BY <1>11 DEF May, FillsFollowLocks
  <2>3. Good(RecordFact(World, i, fact, saves), floor)
    BY <1>0, <2>1, <2>2, RecordFactGood
  <2>4. QED
    BY <1>11, <2>3, CommitGood DEF RecordBrokerSubmitResult
<1>12. ASSUME NEW i \in Intents, NEW fact \in Facts(i), NEW saves,
              May("record_reconciled_broker_submit_result"),
              RecordReconciledBrokerSubmitResult(i, fact, saves)
       PROVE  InOrder(floor)'
  <2>1. ~FillsFollowLocks
    BY <1>12 DEF May, FillsFollowLocks
  <2>2. QED
    BY <1>0, <1>12, <2>1, RecordReconciledGood
<1>13. ASSUME NEW saves, StartReconciliation(saves)
       PROVE  InOrder(floor)'
  BY <1>0, <1>13, StartQuiet, OneEventGood DEF StartReconciliation
<1>14. ASSUME NEW saves, ResolveReconciliation(saves)
       PROVE  InOrder(floor)'
  <2>1. World.mem.reconciliation = "STARTED" /\ World.mem.unresolved = {}
    BY <1>14, WorldFields DEF ResolveReconciliation
  <2>2. Good(Emit(World, ReconEv("RECONCILIATION_RESOLVED"), saves), floor)
    BY <1>0, <2>1, ResolveGood
  <2>3. QED
    BY <1>14, <2>2, CommitGood DEF ResolveReconciliation
<1>15. ASSUME NEW broker, NEW saves, ReconcileBrokerState(broker, saves)
       PROVE  InOrder(floor)'
  BY <1>0, <1>15, ReconcileGood
<1>16. CASE CrashRestart
  <2> DEFINE c == Reloaded(World)
             w == [World EXCEPT !.crashes = {c}]
  <2>1. Books(c) /\ Grown(c, floor) /\ RiskFrom(c.mem, c.replayed)
    BY <1>0, ReloadedBooks DEF Good, Booked
  <2> HIDE DEF c
  <2>2. /\ w.mem = World.mem /\ w.replayed = World.replayed
        /\ w.recovered = World.recovered /\ w.rows = World.rows
        /\ w.registered = World.registered /\ w.crashes = {c}
    BY DEF World
  <2> HIDE DEF w
  <2>3. Booked(w, floor)
    BY <1>0, <2>1, <2>2 DEF Good, Booked, Books, KeyFacts, Grown, CrashesBooked
  <2>4. Commit(w)
    BY <1>16, <2>2 DEF CrashRestart, Commit, c
  <2>5. IInv'
    BY <1>0, <1>16, NextIInv DEF IInv, Good, Next
  <2>6. QED
    BY <2>3, <2>4, <2>5, CommitBooked
<1>17. CASE UNCHANGED vars
  BY <1>0, <1>17 DEF vars, World, InOrder
<1>18. QED
  <2>1. ASSUME NEW i \in Intents, NEW env \in Envs, NEW saves,
               OrderCommand(i, env, saves)
        PROVE  InOrder(floor)'
    BY <1>1, <1>2, <1>3, <1>4, <1>5, <2>1 DEF OrderCommand
  <2>2. ASSUME NEW i \in Intents, NEW saves, FeedbackCommand(i, saves)
        PROVE  InOrder(floor)'
    BY <1>6, <1>7, <1>8, <1>9, <1>10, <1>11, <1>12, <2>2 DEF FeedbackCommand
  <2>3. ASSUME NEW i \in Buys, NEW saves, ProtectionCommand(i, saves)
        PROVE  InOrder(floor)'
    BY <1>7, <2>3 DEF ProtectionCommand, Intents
  <2>4. ASSUME NEW saves, ReconciliationCommand(saves)
        PROVE  InOrder(floor)'
    BY <1>13, <1>14, <1>15, <2>4 DEF ReconciliationCommand
  <2>5. QED
    BY <1>16, <1>17, <2>1, <2>2, <2>3, <2>4 DEF Next

LEMMA BooksHold == Spec => []InOrder(NoFills)
<1>1. NoFills \in Floors
  BY DEF NoFills, Floors
<1>2. InOrder(NoFills) /\ [Next]_vars => InOrder(NoFills)'
  BY <1>1, NextInOrder
<1>3. QED
  BY <1>2, InitInOrder, PTL DEF Spec
-----------------------------------------------------------------------------
(* What the books give.                                                    *)

\* No order of approvals, authorizations and restarts makes an entry executable
\* without a durable risk decision that leaves room for it (approve_risk and
\* authorize_order).
THEOREM EntriesAreAdmitted == Spec => []AuthorizedEntryIsAdmitted
<1>1. ASSUME InOrder(NoFills), NEW i \in Buys, replayed.orders[i].authorized > 0
      PROVE  /\ replayed.orders[i].risk.present
             /\ replayed.orders[i].risk.headroom
             /\ ~replayed.orders[i].risk.reduce_only
  <2>1. OrderFacts(replayed.orders[i], i)
    BY <1>1, WorldFields DEF InOrder, Good, Booked, Books, Intents
  <2>2. QED
    BY <1>1, <2>1 DEF OrderFacts, Admits
<1>2. InOrder(NoFills) => AuthorizedEntryIsAdmitted
  BY <1>1 DEF AuthorizedEntryIsAdmitted
<1>3. QED
  BY <1>2, BooksHold, PTL

\* Whatever halts have piled up, an authorized sell within the free inventory
\* passes the revalidation of request_broker_submission.
THEOREM ExitsStayOpen == Spec => []ExitStaysOpen
<1>1. ASSUME InOrder(NoFills), NEW i \in Sells, NEW env \in Envs, NEW kill \in BOOLEAN,
             mem.orders[i].status = "AUTHORIZED", env.price, env.known,
             Size[i] =< AvailableSellInventory(mem, i, env)
      PROVE  SubmissionAllowed(mem, i, [env EXCEPT !.kill = kill])
  <2> DEFINE a == [env EXCEPT !.kill = kill]
             c == [BaseContext(mem, i, a) EXCEPT
                     !.risk = mem.orders[i].risk, !.require_price = TRUE,
                     !.enforce_inventory = TRUE, !.draft = FALSE]
  <2>1. i \in Intents /\ Size[i] \in Nat /\ Size[i] > 0
    BY IntentsAssumption DEF Intents
  <2>2. a.known /\ a.free = env.free /\ env.free \in Nat
    BY <1>1, LifecycleAssumption DEF Env
  <2>3. /\ mem \in State /\ OrderFacts(replayed.orders[i], i)
        /\ SameOrderLedger(mem.orders[i], replayed.orders[i])
    BY <1>1, <2>1, WorldFields, OrderOf DEF InOrder
  <2>4. mem.orders[i].authorized = Size[i]
    BY <1>1, <2>3 DEF SameOrderLedger, OrderFacts
  <2> HIDE DEF a
  <2>5. /\ AvailableSellInventory(mem, i, a) = AvailableSellInventory(mem, i, env)
        /\ AvailableSellInventory(mem, i, a) \in Nat
    <3>1. ActiveSellReservations(mem, i) \in Nat
      BY <2>1, <2>3, ActiveSellsType
    <3>2. QED
      BY <2>2, <3>1, TruncatedType DEF AvailableSellInventory
  <2>6. DetermineExposureEffect(mem, i, a) = "REDUCE"
    BY <1>1, <2>2, <2>5 DEF DetermineExposureEffect
  <2>7. /\ c.size = Size[i] /\ c.broker_state = "none" /\ c.inventory_known
        /\ c.free = AvailableSellInventory(mem, i, a) /\ c.effect = "REDUCE"
    BY <2>2, <2>6 DEF BaseContext
  <2> HIDE DEF c
  <2>8. ~(c.size > c.free) /\ c.size > 0
    BY <1>1, <2>1, <2>5, <2>7
  <2>9. ~Blocked(c)
    BY <2>7, <2>8, ExitPasses
  <2>10. Size[i] =< AvailableSellInventory(mem, i, a) /\ Size[i] =< Size[i]
    BY <1>1, <2>1, <2>5
  <2>11. SubmissionAllowed(mem, i, a)
    BY <2>4, <2>9, <2>10 DEF SubmissionAllowed, c
  <2>12. QED
    BY <2>11 DEF a
<1>2. InOrder(NoFills) => ExitStaysOpen
  BY <1>1 DEF ExitStaysOpen
<1>3. QED
  BY <1>2, BooksHold, PTL

\* No command, crash or restart loses a fill the running process has counted.
THEOREM FillsAreKept == Spec => FillsOnlyGrow
<1>1. ASSUME InOrder(NoFills), [Next]_vars, NEW i \in Intents
      PROVE  mem'.orders[i].filled >= mem.orders[i].filled
  <2>1. PICK floor : floor = [j \in Intents |-> mem.orders[j].filled]
    OBVIOUS
  <2>2. \A j \in Intents : /\ mem.orders[j].filled = replayed.orders[j].filled
                           /\ mem.orders[j].filled \in Nat
    BY <1>1, WorldFields, OrderOf DEF InOrder, SameOrderLedger, Order
  <2>3. floor \in Floors /\ \A j \in Intents : floor[j] = mem.orders[j].filled
    BY <2>1, <2>2 DEF Floors
  <2>4. \A j \in Intents : replayed.orders[j].filled >= floor[j]
    BY <2>2, <2>3
  <2>5. InOrder(floor)
    <3>1. Grown(World, floor)
      BY <2>4, WorldFields DEF Grown
    <3>2. CrashesBooked(World, floor)
      BY DEF World, CrashesBooked
    <3>3. QED
      BY <1>1, <3>1, <3>2 DEF InOrder, Good, Booked
  <2>6. InOrder(floor)'
    BY <1>1, <2>3, <2>5, NextInOrder
  <2>7. replayed'.orders[i].filled >= floor[i]
    BY <2>6 DEF InOrder, Good, Booked, Grown, World
  <2>8. mem'.orders[i].filled = replayed'.orders[i].filled
    BY <2>6
    DEF InOrder, Good, WorldOk, Live, Agrees, SameLedger, SameOrderLedger, World
  <2>9. QED
    BY <2>3, <2>7, <2>8
<1>2. InOrder(NoFills) /\ [Next]_vars
        => [\A i \in Intents : mem'.orders[i].filled >= mem.orders[i].filled]_vars
  BY <1>1
<1>3. QED
  BY <1>2, BooksHold, PTL DEF Spec, FillsOnlyGrow

\* Where every intent goes through the registry, no two intents of one key are
\* in the log (create_order_intent).
THEOREM KeysAreUnique ==
  ASSUME KeysAreRegistered
  PROVE  Spec => []OneIntentPerKey
<1>1. InOrder(NoFills) => OneIntentPerKey
  <2> SUFFICES ASSUME InOrder(NoFills)
               PROVE  OneIntentPerKey
    OBVIOUS
  <2>1. KeyFacts(World)
    BY KeysAreRegistered DEF InOrder, Good, Booked, Books
  <2>2. QED
    BY <2>1, WorldFields DEF KeyFacts, OneIntentPerKey
<1>2. QED
  BY <1>1, BooksHold, PTL

\* Where fills follow the locks, the store's table and the replayed log give
\* each sell the same lock.
THEOREM BothBooksAgree ==
  ASSUME FillsFollowLocks
  PROVE  Spec => []LocksAgree
<1>1. ASSUME InOrder(NoFills), NEW i \in Lockable
      PROVE  RemainingReserved(replayed.orders[i]) =
               IF RowActive(rows[i]) > 0 THEN RowActive(rows[i]) ELSE 0
  <2>1. i \in Intents
    BY DEF Lockable, Intents
  <2>2. rows[i] \in Row /\ replayed.orders[i] \in Order
    BY <1>1, <2>1 DEF InOrder, Good, WorldOk, Worlds, World, State
  <2>3. LockFacts(replayed.orders[i], rows[i], i)
    BY <1>1, WorldFields DEF InOrder, Good, Booked, Books, RowFacts
  <2>4. RowActive(rows[i]) \in Nat
        /\ RemainingReserved(replayed.orders[i]) = RowActive(rows[i])
    BY <2>1, <2>2, <2>3, LockWorth
  <2>5. QED
    BY <2>4
<1>2. InOrder(NoFills) => LocksAgree
  BY <1>1 DEF LocksAgree, Lockable
<1>3. QED
  BY <1>2, BooksHold, PTL

\* Where fills follow the locks, the locks of a symbol never exceed an inventory
\* the venue reports.
THEOREM LocksFitInventory ==
  ASSUME FillsFollowLocks, VenueReports
  PROVE  Spec => []TotalLocksWithinInventory
<1>1. InOrder(NoFills) => TotalLocksWithinInventory
  BY WorldFields
  DEF InOrder, Good, Booked, Books, RowFacts, Offered, TotalLocksWithinInventory
<1>2. QED
  BY <1>1, BooksHold, PTL
=============================================================================
