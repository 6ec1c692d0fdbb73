------------------------ MODULE ProtectiveStopsProofs ------------------------
(***************************************************************************)
(* The live runner never has two sells at the venue, never loses track of  *)
(* a stop, never loosens one, and leaves what is held covered when a run   *)
(* completes: for every set of stops and exits, every size and every       *)
(* number of levels, whatever dies and whatever answer is lost.            *)
(*                                                                         *)
(* The argument: the venue, the record, the ledger and the lifecycle are   *)
(* compared in every world a death may leave behind (Safe), and a run      *)
(* knows at each of its points what is not at the venue (RunOk).           *)
(***************************************************************************)
EXTENDS ProtectiveStops, LifecycleStateProofs

-----------------------------------------------------------------------------
(* The invariant, of a world: of the current one and of every world a      *)
(* death inside a step may leave.                                          *)

\* On its way to the venue, or resting there.
Working(w, k) == k \in w.wire \/ w.venue[k].state = "open"

\* The venue may have heard of it.
Reached(w, k) == k \in w.wire \/ w.venue[k].state # "absent"

VenueOk(w, k) ==
  LET v == w.venue[k] IN
  /\ k \in w.wire => v.state = "absent"
  /\ v.state = "absent" => v.filled = 0
  /\ v.state = "open" => v.filled < Size[k]

\* What works is no more than what is held; a stop is exactly that.
CoverOk(w, k) ==
  LET v == w.venue[k] IN
  /\ v.state = "open" => Size[k] - v.filled =< w.held
  /\ k \in Stops =>
       /\ k \in w.wire => Size[k] = w.held
       /\ v.state = "open" => Size[k] - v.filled = w.held
       /\ v.state = "filled" => w.held = 0

OneWorks(w) ==
  \A j, k \in Sells : Working(w, j) /\ Working(w, k) => j = k

\* The record names what works, and only what was reserved at a level.
RecordOk(w) ==
  LET r == w.record IN
  /\ \A s \in Stops : Working(w, s) => s \in {r.active, r.pending}
  /\ \A s \in Stops : s \in w.wire => r.active = Nil /\ w.price[s] = r.trail
  /\ r.active # Nil => w.venue[r.active].state # "absent"

\* A stop is sent under a level, which is never above the trail while anything
\* is held.
PriceOk(w) ==
  \A s \in Stops :
    /\ w.price[s] = 0 => ~Reached(w, s)
    /\ w.held > 0 => w.price[s] =< w.record.trail

\* An exit that works is the one the ledger has unfinished.
LedgerOk(w) ==
  /\ \A x \in Exits : Working(w, x) => w.ledger[x] = "unfinished"
  /\ \A x \in Exits : w.ledger[x] = "none" => ~Reached(w, x)
  /\ \A x, y \in Exits :
       w.ledger[x] = "unfinished" /\ w.ledger[y] = "unfinished" => x = y

\* What the lifecycle's state s says of k is true of the venue.  An order nobody
\* could identify, or whose outcome is unknown, has booked nothing.
OrderOk(s, k, w) ==
  LET o == s.orders[k] IN
  /\ o.filled =< w.venue[k].filled
  /\ o.filled > 0 => o.exchange_id
  /\ k \in s.unresolved => o.filled = 0
  /\ Reached(w, k) => o.io_started

MemOk(s, w) == \A k \in Sells : OrderOk(s, k, w)

Safe(w) ==
  /\ \A k \in Sells : VenueOk(w, k) /\ CoverOk(w, k)
  /\ OneWorks(w) /\ RecordOk(w) /\ PriceOk(w) /\ LedgerOk(w) /\ MemOk(w.mem, w)

\* The exits the ledger has unfinished.
OpenExits(w) == {x \in Exits : w.ledger[x] = "unfinished"}

\* Where nothing is on its way.
Quiet ==
  {"orders", "positions", "ensure", "cancel", "exit", "handover", "stopcheck",
   "protect", "heldback", "cleanup"}

\* Where no exit is unfinished.
BetweenExits ==
  {"positions", "ensure", "cancel", "stopcall", "recover", "exit", "protect",
   "heldback", "cleanup"}

\* Where the run is about an exit the ledger has unfinished.
Exiting == {"handover", "stopcheck", "exitcall", "poll", "residual"}

RunOk(w) ==
  LET r == w.run IN
  /\ r.at \in Quiet => w.wire = {}
  /\ r.at \in BetweenExits => OpenExits(w) = {}
  /\ r.at \in Exiting => r.exit # Nil /\ OpenExits(w) = {r.exit}
  /\ r.at = "ensure" => r.seen >= w.held /\ w.record.trail > 0
  /\ r.at = "cancel" =>
       LET s == w.record.pending IN
       /\ w.record.active # Nil /\ s # Nil /\ ~Reached(w, s)
       /\ Size[s] >= w.held /\ w.price[s] > 0
       /\ w.held > 0 => w.price[s] = w.record.trail
  /\ r.at = "stopcall" =>
       /\ w.record.active = Nil /\ w.record.pending # Nil
       /\ w.mem.orders[w.record.pending].filled = 0
  /\ r.at = "exit" => r.exit # Nil /\ w.ledger[r.exit] = "none"
  /\ r.at \in {"handover", "stopcheck"} => w.record.active # Nil /\ ~Reached(w, r.exit)
  /\ r.at \in {"exitcall", "poll", "residual"} => w.wire \cap Stops = {}
  /\ r.at = "exitcall" => w.mem.orders[r.exit].filled = 0
  /\ r.at = "recover" => w.record.pending # Nil
  /\ r.at = "cleanup" => w.held = 0
  /\ r.at = "done" /\ w.held > 0 =>
       w.record.active # Nil /\ Size[w.record.active] >= w.held

IInv == TypeOK /\ Safe(World) /\ RunOk(World)

-----------------------------------------------------------------------------
(* Worlds                                                                  *)

Records ==
  [trail : 0 .. MaxLevel, active : Stops \cup {Nil}, pending : Stops \cup {Nil}]

Ledgers == [Exits -> {"none", "unfinished", "closed"}]

Prices == [Stops -> 0 .. MaxLevel]

Venues ==
  [Sells -> [state : {"absent", "open", "filled", "expired"}, filled : Nat]]

Cores ==
  [mem : State, record : Records, ledger : Ledgers, price : Prices, venue : Venues,
   wire : SUBSET Sells, run : Runs, held : Nat, crashes : {{}}]

Worlds ==
  [mem : State, record : Records, ledger : Ledgers, price : Prices, venue : Venues,
   wire : SUBSET Sells, run : Runs, held : Nat, crashes : SUBSET Cores]

\* A step sells nothing: the venue does.
Good(w) ==
  /\ w \in Worlds /\ w.held = held /\ Safe(w)
  /\ \A c \in w.crashes : Safe(c) /\ c.held = held

\* r and w differ in the lifecycle alone.
Beside(w, r) ==
  /\ r.record = w.record /\ r.ledger = w.ledger /\ r.price = w.price
  /\ r.venue = w.venue /\ r.wire = w.wire /\ r.run = w.run /\ r.held = w.held

\* r and w agree in everything that is compared.
SameBooks(w, r) ==
  /\ r.mem = w.mem /\ r.record = w.record /\ r.ledger = w.ledger
  /\ r.price = w.price /\ r.venue = w.venue /\ r.wire = w.wire /\ r.held = w.held

LEMMA SameIsSafe ==
  ASSUME NEW w, NEW r, SameBooks(w, r), Safe(w)
  PROVE  Safe(r)
<1>1. \A k \in Sells : VenueOk(r, k) /\ CoverOk(r, k)
  BY DEF SameBooks, Safe, VenueOk, CoverOk
<1>2. OneWorks(r) /\ RecordOk(r) /\ PriceOk(r) /\ LedgerOk(r)
  BY DEF SameBooks, Safe, OneWorks, RecordOk, PriceOk, LedgerOk, Working, Reached
<1>3. MemOk(r.mem, r)
  BY DEF SameBooks, Safe, MemOk, OrderOk, Reached
<1>4. QED
  BY <1>1, <1>2, <1>3 DEF Safe

LEMMA EntryType == Entry \in Buys /\ Entry \in Intents /\ Entry \notin Sells
<1>1. Buys # {}
  BY StopsAssumption, FS_EmptySet
<1>2. QED
  BY <1>1, IntentsAssumption DEF Entry, Intents

LEMMA SellType ==
  ASSUME NEW k \in Sells
  PROVE  k \in Intents /\ Size[k] \in Nat /\ Size[k] > 0 /\ k # Entry /\ k # Nil
  BY IntentsAssumption, StopsAssumption, EntryType DEF Intents

LEMMA KindsType ==
  /\ Stops \subseteq Sells /\ Exits \subseteq Sells /\ Stops \cap Exits = {}
  /\ Sells = Stops \cup Exits /\ Nil \notin Sells /\ MaxLevel \in Nat \ {0}
  BY StopsAssumption DEF Exits, Intents

LEMMA GoodType ==
  ASSUME NEW w, Good(w)
  PROVE  /\ w \in Worlds /\ w.mem \in State /\ w.record \in Records
         /\ w.ledger \in Ledgers /\ w.price \in Prices /\ w.venue \in Venues
         /\ w.wire \subseteq Sells /\ w.run \in Runs /\ w.held \in Nat
         /\ w.held = held /\ Safe(w)
  BY DEF Good, Worlds

LEMMA WorldGood ==
  ASSUME IInv
  PROVE  Good(World) /\ RunOk(World)
<1>1. World \in Worlds
  BY DEF IInv, TypeOK, World, Worlds, Records, Ledgers, Prices, Venues
<1>2. World.held = held /\ World.crashes = {}
  BY DEF World
<1>3. QED
  BY <1>1, <1>2 DEF IInv, Good

LEMMA DurablyGood ==
  ASSUME NEW w, Good(w), NEW next \in Worlds, next.crashes = w.crashes,
         next.held = held, Safe(next)
  PROVE  /\ Good(Durably(w, next)) /\ SameBooks(next, Durably(w, next))
         /\ Durably(w, next).run = next.run
<1> DEFINE core == [w EXCEPT !.crashes = {}]
           r == Durably(w, next)
<1>1. core \in Cores /\ SameBooks(w, core)
  BY DEF Good, Worlds, Cores, SameBooks
<1>2. Safe(core) /\ core.held = held
  BY <1>1, SameIsSafe DEF Good, SameBooks
<1> HIDE DEF core
<1>3. /\ r \in Worlds /\ SameBooks(next, r) /\ r.run = next.run
      /\ r.crashes = w.crashes \cup {core}
  BY <1>1 DEF Durably, Worlds, core, SameBooks
<1> HIDE DEF r
<1>4. Safe(r) /\ r.held = held
  BY <1>3, SameIsSafe DEF SameBooks
<1>5. QED
  BY <1>2, <1>3, <1>4 DEF Good, r
-----------------------------------------------------------------------------
(* Writing to the lifecycle                                                *)

RecordingEvents ==
  PreparingEvents \cup FillEvents \cup
  {"ORDER_INTENT_CREATED", "ORDER_SUBMITTED", "ORDER_REJECTED",
   "BROKER_ACKNOWLEDGED", "BROKER_STATE_UNKNOWN", "CANCEL_REQUESTED",
   "CANCEL_CONFIRMED", "RECONCILIATION_STARTED", "RECONCILIATION_RESOLVED"}

\* When an event about a sell says no more than the venue does.
Justified(s, e, w) ==
  LET k == e.intent IN
  /\ e.type \in RecordingEvents
  /\ e.type = "ORDER_INTENT_CREATED" => ~Reached(w, k)
  /\ e.type = "ORDER_SUBMITTED" => e.exchange_id
  /\ e.type = "BROKER_STATE_UNKNOWN" => s.orders[k].filled = 0
  /\ e.type \in FillEvents =>
       /\ s.orders[k].filled + e.qty =< w.venue[k].filled
       /\ Exists(s, k) => s.orders[k].exchange_id /\ k \notin s.unresolved

LEMMA ApplyOrderOk ==
  ASSUME NEW w, w.venue \in Venues, NEW s \in State, NEW e \in Event,
         e.intent \in Sells, OrderOk(s, e.intent, w), Justified(s, e, w)
  PROVE  OrderOk(Apply(s, e), e.intent, w)
<1> DEFINE k == e.intent
           r == Apply(s, e)
           o == s.orders[k]
           p == r.orders[k]
<1>1. /\ k \in Intents /\ o \in Order /\ r \in State /\ p \in Order /\ e.qty \in Nat
      /\ o.filled \in Nat /\ p.filled \in Nat /\ w.venue[k].filled \in Nat
      /\ Size[k] \in Nat
  BY ApplyType, SellType DEF Event, State, Venues, Order
<1>2. /\ o.filled =< w.venue[k].filled
      /\ o.filled > 0 => o.exchange_id
      /\ k \in s.unresolved => o.filled = 0
      /\ Reached(w, k) => o.io_started
  BY DEF OrderOk
<1>3. SUFFICES /\ p.filled =< w.venue[k].filled
               /\ p.filled > 0 => p.exchange_id
               /\ k \in r.unresolved => p.filled = 0
               /\ Reached(w, k) => p.io_started
  BY DEF OrderOk
<1>4. CASE e.type = "ORDER_INTENT_CREATED"
  <2>1. p = NewOrder("PENDING")
    BY <1>4, ApplyAt
  <2>2. ~Reached(w, k)
    BY <1>4 DEF Justified
  <2>3. QED
    BY <1>1, <2>1, <2>2 DEF NewOrder
<1>5. CASE e.type # "ORDER_INTENT_CREATED"
  <2>1. /\ e.type # "ORDER_SUBMITTED" => p.exchange_id = o.exchange_id
        /\ e.type \notin FillEvents => p.filled = o.filled
        /\ e.type # "BROKER_IO_STARTED" => p.io_started = o.io_started
        /\ ~Exists(s, k) => p = o
    BY <1>5, ApplyAt
  <2>2. e.type # "BROKER_STATE_UNKNOWN" => r.unresolved \subseteq s.unresolved
    BY <1>1, ApplyUnresolved
    DEF Justified, RecordingEvents, PreparingEvents, FillEvents
  <2>3. /\ e.type = "BROKER_STATE_UNKNOWN" => o.filled = 0
        /\ e.type = "ORDER_SUBMITTED" => e.exchange_id
        /\ e.type \in FillEvents =>
             /\ o.filled + e.qty =< w.venue[k].filled
             /\ Exists(s, k) => o.exchange_id /\ k \notin s.unresolved
    BY DEF Justified
  <2>4. /\ e.type \in FillEvents /\ Exists(s, k) =>
             p.filled = IF o.filled + e.qty < Size[k] THEN o.filled + e.qty
                        ELSE Size[k]
        /\ e.type = "ORDER_SUBMITTED" /\ Exists(s, k) =>
             p.exchange_id = e.exchange_id
        /\ e.type = "BROKER_IO_STARTED" /\ Exists(s, k) => p.io_started
    BY ApplyStatus DEF FillEvents
  <2> HIDE DEF k, r, o, p
  <2>5. p.filled =< w.venue[k].filled
    BY <1>1, <1>2, <2>1, <2>3, <2>4
  <2>6. p.filled > 0 => p.exchange_id
    BY <1>1, <1>2, <2>1, <2>3, <2>4 DEF FillEvents
  <2>7. k \in r.unresolved => p.filled = 0
    BY <1>1, <1>2, <2>1, <2>2, <2>3, <2>4 DEF FillEvents
  <2>8. Reached(w, k) => p.io_started
    BY <1>1, <1>2, <2>1, <2>4 DEF FillEvents
  <2>9. QED
    BY <2>5, <2>6, <2>7, <2>8
<1>6. QED
  BY <1>4, <1>5

LEMMA ApplyMemOk ==
  ASSUME NEW w, w.venue \in Venues, NEW s \in State, NEW e \in Event, MemOk(s, w),
         e.intent \in Sells => Justified(s, e, w)
  PROVE  MemOk(Apply(s, e), w)
<1>1. ASSUME NEW k \in Sells, k # e.intent
      PROVE  OrderOk(Apply(s, e), k, w)
  <2>1. /\ Apply(s, e).orders[k] = s.orders[k]
        /\ k \in Apply(s, e).unresolved <=> k \in s.unresolved
    BY <1>1, SellType, ApplyElsewhere
  <2>2. QED
    BY <1>1, <2>1 DEF MemOk, OrderOk
<1>2. QED
  BY <1>1, ApplyOrderOk DEF MemOk

LEMMA EvType ==
  ASSUME NEW k \in Intents, NEW type \in EventTypes, NEW n \in Nat, NEW m \in Nat
  PROVE  /\ Ev(type, k) \in Event
         /\ [Ev(type, k) EXCEPT !.qty = n] \in Event
         /\ [Ev(type, k) EXCEPT !.authorized = n] \in Event
         /\ [Ev(type, k) EXCEPT !.exchange_id = TRUE, !.qty = n, !.authorized = m]
              \in Event
  BY NoDecisionType DEF Ev, Event

LEMMA LogGood ==
  ASSUME NEW w, Good(w), NEW e \in Event, e.intent \in Sells => Justified(w.mem, e, w)
  PROVE  Good(Log(w, e)) /\ Beside(w, Log(w, e)) /\ Log(w, e).mem = Apply(w.mem, e)
<1> DEFINE next == [w EXCEPT !.mem = Apply(@, e)]
<1>1. /\ w \in Worlds /\ w.mem \in State /\ w.venue \in Venues /\ Safe(w)
      /\ w.held = held
  BY GoodType
<1>2. Apply(w.mem, e) \in State
  BY <1>1, ApplyType
<1>3. /\ next \in Worlds /\ next.crashes = w.crashes /\ Beside(w, next)
      /\ next.mem = Apply(w.mem, e)
  BY <1>1, <1>2 DEF Worlds, Beside
<1>4. MemOk(Apply(w.mem, e), w)
  BY <1>1, ApplyMemOk DEF Safe
<1>5. Log(w, e) = Durably(w, next)
  BY DEF Log
<1> HIDE DEF next
<1>6. Safe(next)
  <2>1. \A k \in Sells : VenueOk(next, k) /\ CoverOk(next, k)
    BY <1>1, <1>3 DEF Beside, Safe, VenueOk, CoverOk
  <2>2. OneWorks(next) /\ RecordOk(next) /\ PriceOk(next) /\ LedgerOk(next)
    BY <1>1, <1>3
    DEF Beside, Safe, OneWorks, RecordOk, PriceOk, LedgerOk, Working, Reached
  <2>3. MemOk(next.mem, next)
    BY <1>3, <1>4 DEF Beside, MemOk, OrderOk, Reached
  <2>4. QED
    BY <2>1, <2>2, <2>3 DEF Safe
<1>7. /\ Good(Durably(w, next)) /\ SameBooks(next, Durably(w, next))
      /\ Durably(w, next).run = next.run
  BY <1>1, <1>3, <1>6, DurablyGood DEF Beside
<1>8. QED
  BY <1>3, <1>5, <1>7 DEF SameBooks, Beside

\* Events that are justified whatever the state.
LEMMA PlainGood ==
  ASSUME NEW k \in Intents, NEW w, Good(w),
         NEW type \in PreparingEvents \cup
                      {"BROKER_ACKNOWLEDGED", "CANCEL_REQUESTED", "CANCEL_CONFIRMED",
                       "ORDER_REJECTED", "RECONCILIATION_STARTED",
                       "RECONCILIATION_RESOLVED"},
         NEW e \in Event, e.intent = k, e.type = type
  PROVE  /\ Good(Log(w, e)) /\ Beside(w, Log(w, e))
         /\ Log(w, e).mem = Apply(w.mem, e)
         /\ Log(w, e).mem.orders[k].filled = w.mem.orders[k].filled
         /\ Exists(Log(w, e).mem, k) <=> Exists(w.mem, k)
<1>1. Justified(w.mem, e, w)
  BY DEF Justified, RecordingEvents, PreparingEvents, FillEvents
<1>2. /\ Good(Log(w, e)) /\ Beside(w, Log(w, e))
      /\ Log(w, e).mem = Apply(w.mem, e)
  BY <1>1, LogGood
<1>3. w.mem \in State
  BY GoodType
<1>4. /\ Apply(w.mem, e).orders[k].filled = w.mem.orders[k].filled
      /\ Exists(Apply(w.mem, e), k) <=> Exists(w.mem, k)
  BY <1>3, ApplyAt DEF FillEvents, PreparingEvents
<1>5. QED
  BY <1>2, <1>4

LEMMA PlainEvGood ==
  ASSUME NEW k \in Intents, NEW w, Good(w),
         NEW type \in PreparingEvents \cup
                      {"BROKER_ACKNOWLEDGED", "CANCEL_REQUESTED", "CANCEL_CONFIRMED",
                       "ORDER_REJECTED", "RECONCILIATION_STARTED",
                       "RECONCILIATION_RESOLVED"}
  PROVE  LET r == Log(w, Ev(type, k)) IN
         /\ Good(r) /\ Beside(w, r) /\ r.mem = Apply(w.mem, Ev(type, k))
         /\ r.mem.orders[k].filled = w.mem.orders[k].filled
         /\ Exists(r.mem, k) <=> Exists(w.mem, k)
<1>1. type \in EventTypes
  BY DEF EventTypes, PreparingEvents
<1>2. Ev(type, k) \in Event /\ Ev(type, k).intent = k /\ Ev(type, k).type = type
  BY <1>1, NoDecisionType DEF Ev, Event
<1>3. QED
  BY <1>2, PlainGood
-----------------------------------------------------------------------------
(* Recording what the venue said                                           *)

OrderTypeOf(w, k) ==
  /\ w.mem.orders[k] \in Order /\ w.mem.orders[k].filled \in Nat
  /\ w.venue[k].filled \in Nat /\ OrderOk(w.mem, k, w)

LEMMA OrderType ==
  ASSUME NEW w, Good(w), NEW k \in Sells
  PROVE  OrderTypeOf(w, k)
  BY GoodType, SellType DEF OrderTypeOf, Safe, MemOk, State, Order, Venues

LEMMA AcknowledgedGood ==
  ASSUME NEW k \in Sells, NEW w, Good(w)
  PROVE  LET r == Log(w, Ev("BROKER_ACKNOWLEDGED", k)) IN
         /\ Good(r) /\ Beside(w, r)
         /\ r.mem.orders[k].filled = w.mem.orders[k].filled
         /\ r.mem.orders[k].exchange_id = w.mem.orders[k].exchange_id
         /\ Exists(r.mem, k) <=> Exists(w.mem, k)
         /\ Exists(r.mem, k) => k \notin r.mem.unresolved
<1> DEFINE e == Ev("BROKER_ACKNOWLEDGED", k)
           r == Log(w, e)
           s == Apply(w.mem, e)
<1>0. k \in Intents
  BY SellType
<1>1. e \in Event /\ e.intent = k /\ e.type = "BROKER_ACKNOWLEDGED"
  BY <1>0, NoDecisionType DEF Ev, Event, EventTypes
<1>2. Good(r) /\ Beside(w, r) /\ r.mem = s
  BY <1>0, PlainEvGood
<1> HIDE DEF e, r
<1>3. w.mem \in State
  BY GoodType
<1>4. /\ s.orders[k].filled = w.mem.orders[k].filled
      /\ s.orders[k].exchange_id = w.mem.orders[k].exchange_id
      /\ Exists(s, k) <=> Exists(w.mem, k)
  BY <1>1, <1>3, ApplyAt DEF FillEvents
<1>5. Exists(w.mem, k) => s.unresolved = w.mem.unresolved \ {k}
  BY <1>1, <1>3, ApplyStatus DEF SettlingEvents
<1>6. QED
  BY <1>2, <1>4, <1>5 DEF r, e

LEMMA FillGood ==
  ASSUME NEW k \in Sells, NEW w, Good(w), NEW n \in Nat, NEW type \in FillEvents,
         w.mem.orders[k].filled + n =< w.venue[k].filled,
         Exists(w.mem, k) => w.mem.orders[k].exchange_id /\ k \notin w.mem.unresolved
  PROVE  LET r == Log(w, [Ev(type, k) EXCEPT !.qty = n]) IN
         Good(r) /\ Beside(w, r)
<1> DEFINE e == [Ev(type, k) EXCEPT !.qty = n]
<1>1. e \in Event
  BY EvType, SellType DEF FillEvents, EventTypes
<1>2. e.intent = k /\ e.type = type /\ e.qty = n
  BY DEF Ev
<1>3. Justified(w.mem, e, w)
  BY <1>2 DEF Justified, RecordingEvents, FillEvents
<1> HIDE DEF e
<1>4. Good(Log(w, e)) /\ Beside(w, Log(w, e))
  BY <1>1, <1>2, <1>3, LogGood
<1>5. QED
  BY <1>4 DEF e

LEMMA OutcomeUnknownGood ==
  ASSUME NEW k \in Sells, NEW w, Good(w), w.mem.orders[k].filled = 0
  PROVE  LET r == RecordUnknown(w, k) IN
         Good(r) /\ Beside(w, r) /\ k \in r.mem.unresolved
<1> DEFINE e  == Ev("BROKER_STATE_UNKNOWN", k)
           w1 == Log(w, e)
           w2 == Log(w1, Ev("RECONCILIATION_STARTED", k))
<1>0. k \in Intents
  BY SellType
<1>1. e \in Event /\ e.intent = k /\ e.type = "BROKER_STATE_UNKNOWN"
  BY <1>0, NoDecisionType DEF Ev, Event, EventTypes
<1>2. Justified(w.mem, e, w)
  BY <1>1 DEF Justified, RecordingEvents, FillEvents
<1>3. Good(w1) /\ Beside(w, w1) /\ w1.mem = Apply(w.mem, e)
  BY <1>1, <1>2, LogGood
<1>4. k \in w1.mem.unresolved
  <2>1. Apply(w.mem, e) = OnBrokerStateUnknown(w.mem, e) /\ w.mem \in State
    BY <1>1, GoodType DEF Apply
  <2>2. "MANUAL" \in Statuses
    BY DEF Statuses
  <2>3. WithStatus(w.mem, k, "MANUAL") \in State
    BY <1>0, <2>1, <2>2, WithStatusType
  <2>4. OnBrokerStateUnknown(w.mem, e).unresolved =
          WithStatus(w.mem, k, "MANUAL").unresolved \cup {k}
    BY <1>1, <2>3 DEF OnBrokerStateUnknown, State
  <2>5. QED
    BY <1>3, <2>1, <2>4
<1> HIDE DEF w1
<1>5. /\ Good(w2) /\ Beside(w1, w2)
      /\ w2.mem = Apply(w1.mem, Ev("RECONCILIATION_STARTED", k))
  BY <1>0, <1>3, PlainEvGood
<1>6. w2.mem.unresolved = w1.mem.unresolved
  <2>1. w1.mem \in State
    BY <1>3, GoodType
  <2>2. QED
    BY <1>5, <2>1 DEF Apply, Ev, OnReconciliationStarted, State
<1>7. RecordUnknown(w, k) = w2
  BY DEF RecordUnknown, RecordSubmitResult, LostAnswer, w1
<1> HIDE DEF w2
<1>8. QED
  BY <1>3, <1>4, <1>5, <1>6, <1>7 DEF Beside

\* record_broker_submit_result with no more than the venue filled.
LEMMA SubmitResultGood ==
  ASSUME NEW k \in Sells, NEW w, Good(w), NEW f, f.filled \in Nat,
         f.status \in {"open", "partial", "filled", "expired"},
         f.status \in {"partial", "filled"} =>
           /\ w.mem.orders[k].filled + f.filled =< w.venue[k].filled
           /\ Exists(w.mem, k) => w.mem.orders[k].exchange_id
  PROVE  LET r == RecordSubmitResult(w, k, f) IN Good(r) /\ Beside(w, r)
<1> DEFINE w1 == Log(w, Ev("BROKER_ACKNOWLEDGED", k))
<1>0. k \in Intents
  BY SellType
<1>1. /\ Good(w1) /\ Beside(w, w1)
      /\ w1.mem.orders[k].filled = w.mem.orders[k].filled
      /\ w1.mem.orders[k].exchange_id = w.mem.orders[k].exchange_id
      /\ Exists(w1.mem, k) <=> Exists(w.mem, k)
      /\ Exists(w1.mem, k) => k \notin w1.mem.unresolved
  BY AcknowledgedGood
<1>2. CASE f.status = "open"
  BY <1>1, <1>2 DEF RecordSubmitResult
<1>3. CASE f.status \in {"partial", "filled"}
  <2> DEFINE type == IF f.status = "partial" THEN "PARTIAL_FILL_RECEIVED"
                     ELSE "FILL_RECEIVED"
             r == Log(w1, [Ev(type, k) EXCEPT !.qty = f.filled])
  <2>1. RecordSubmitResult(w, k, f) = r
    BY <1>3 DEF RecordSubmitResult
  <2>2. type \in FillEvents
    BY DEF FillEvents
  <2>3. w1.venue = w.venue
    BY <1>1 DEF Beside
  <2> HIDE DEF w1, type
  <2>4. Good(r) /\ Beside(w1, r)
    BY <1>1, <1>3, <2>2, <2>3, FillGood
  <2> HIDE DEF r
  <2>5. QED
    BY <1>1, <2>1, <2>4 DEF Beside
<1>4. CASE f.status = "expired"
  <2>1. RecordSubmitResult(w, k, f) = Log(w, Ev("ORDER_REJECTED", k))
    BY <1>4 DEF RecordSubmitResult
  <2>2. QED
    BY <1>0, <2>1, PlainEvGood
<1>5. QED
  BY <1>2, <1>3, <1>4

LEMMA IdentifyGood ==
  ASSUME NEW k \in Sells, NEW w, Good(w)
  PROVE  LET r == Identify(w, k) IN
         /\ Good(r) /\ Beside(w, r)
         /\ r.mem.orders[k].filled = w.mem.orders[k].filled
         /\ Exists(r.mem, k) <=> Exists(w.mem, k)
         /\ Exists(r.mem, k) => r.mem.orders[k].exchange_id
<1> DEFINE e == [Ev("ORDER_SUBMITTED", k) EXCEPT !.exchange_id = TRUE,
                   !.qty = Size[k], !.authorized = Size[k]]
           s == Apply(w.mem, e)
<1>1. k \in Intents /\ Size[k] \in Nat /\ "ORDER_SUBMITTED" \in EventTypes
  BY SellType DEF EventTypes
<1>2. e \in Event
  BY <1>1, EvType
<1>3. e.intent = k /\ e.type = "ORDER_SUBMITTED" /\ e.exchange_id = TRUE
  BY DEF Ev
<1> HIDE DEF e
<1>4. Justified(w.mem, e, w)
  BY <1>3 DEF Justified, RecordingEvents, FillEvents
<1>5. Good(Log(w, e)) /\ Beside(w, Log(w, e)) /\ Log(w, e).mem = s
  BY <1>2, <1>3, <1>4, LogGood
<1>6. w.mem \in State
  BY GoodType
<1>7. /\ s.orders[k].filled = w.mem.orders[k].filled
      /\ Exists(s, k) <=> Exists(w.mem, k)
  BY <1>2, <1>3, <1>6, ApplyAt DEF FillEvents
<1>8. Exists(w.mem, k) => s.orders[k].exchange_id = TRUE
  BY <1>2, <1>3, <1>6, ApplyStatus
<1>9. QED
  BY <1>5, <1>7, <1>8 DEF Identify, e

\* record_broker_fact, nothing being booked twice.
LEMMA BrokerFactGood ==
  ASSUME NEW k \in Sells, NEW w, Good(w), NEW f, f.filled \in Nat,
         f.status \in {"open", "partial", "filled", "expired"},
         w.mem.orders[k].filled + f.filled =< w.venue[k].filled
  PROVE  LET r == RecordBrokerFact(w, k, f) IN Good(r) /\ Beside(w, r)
<1> DEFINE w1 == IF f.status \in Accepted /\ ~w.mem.orders[k].exchange_id
                 THEN Identify(w, k) ELSE w
<1>1. /\ Good(w1) /\ Beside(w, w1)
      /\ w1.mem.orders[k].filled = w.mem.orders[k].filled
      /\ f.status \in Accepted /\ Exists(w1.mem, k) => w1.mem.orders[k].exchange_id
  <2>1. CASE f.status \in Accepted /\ ~w.mem.orders[k].exchange_id
    BY <2>1, IdentifyGood
  <2>2. CASE ~(f.status \in Accepted /\ ~w.mem.orders[k].exchange_id)
    BY <2>2 DEF Beside
  <2>3. QED
    BY <2>1, <2>2
<1>2. RecordBrokerFact(w, k, f) = RecordSubmitResult(w1, k, f)
  BY DEF RecordBrokerFact
<1>3. w1.venue = w.venue
  BY <1>1 DEF Beside
<1> HIDE DEF w1
<1>4. LET r == RecordSubmitResult(w1, k, f) IN Good(r) /\ Beside(w1, r)
  <2>1. f.status \in {"partial", "filled"} =>
          /\ w1.mem.orders[k].filled + f.filled =< w1.venue[k].filled
          /\ Exists(w1.mem, k) => w1.mem.orders[k].exchange_id
    BY <1>1, <1>3 DEF Accepted
  <2>2. QED
    BY <1>1, <2>1, SubmitResultGood
<1>5. QED
  BY <1>1, <1>2, <1>4 DEF Beside

\* record_reconciled_broker_submit_result: an unresolved order has booked nothing.
LEMMA ReconcileGood ==
  ASSUME NEW k \in Sells, NEW w, Good(w), k \in w.mem.unresolved,
         NEW f, f.filled \in Nat, f.filled =< w.venue[k].filled,
         f.status \in {"open", "partial", "filled", "expired"}
  PROVE  LET r == Reconcile(w, k, f) IN Good(r) /\ Beside(w, r)
<1> DEFINE w1 == IF f.status \in Accepted THEN Identify(w, k) ELSE w
           w2 == RecordSubmitResult(w1, k, f)
           w3 == Log(w2, Ev("RECONCILIATION_RESOLVED", k))
<1>0. k \in Intents
  BY SellType
<1>2. w.mem.orders[k].filled = 0
  BY OrderType DEF OrderTypeOf, OrderOk
<1>3. /\ Good(w1) /\ Beside(w, w1) /\ w1.mem.orders[k].filled = 0
      /\ f.status \in Accepted /\ Exists(w1.mem, k) => w1.mem.orders[k].exchange_id
  <2>1. CASE f.status \in Accepted
    BY <1>2, <2>1, IdentifyGood
  <2>2. CASE f.status \notin Accepted
    BY <1>2, <2>2 DEF Beside
  <2>3. QED
    BY <2>1, <2>2
<1>v. w1.venue = w.venue
  BY <1>3 DEF Beside
<1> HIDE DEF w1
<1>4. Good(w2) /\ Beside(w1, w2)
  <2>1. f.status \in {"partial", "filled"} =>
          /\ w1.mem.orders[k].filled + f.filled =< w1.venue[k].filled
          /\ Exists(w1.mem, k) => w1.mem.orders[k].exchange_id
    BY <1>3, <1>v DEF Accepted
  <2>2. QED
    BY <1>3, <2>1, SubmitResultGood
<1> HIDE DEF w2
<1>5. Good(w3) /\ Beside(w2, w3)
  BY <1>0, <1>4, PlainEvGood
<1>6. Reconcile(w, k, f) = IF w2.mem.unresolved = {} /\ w2.mem.reconciliation = "STARTED"
                           THEN w3 ELSE w2
  BY DEF Reconcile, w1, w2
<1> HIDE DEF w3
<1>7. QED
  BY <1>3, <1>4, <1>5, <1>6 DEF Beside

\* An order that is identified and not unresolved: only the difference is booked.
LEMMA ProgressGood ==
  ASSUME NEW k \in Sells, NEW w, Good(w),
         NEW f, f.filled \in Nat, f.filled =< w.venue[k].filled,
         f.status \in {"open", "partial", "filled", "expired"}
  PROVE  LET r == RecordProgress(w, k, f) IN Good(r) /\ Beside(w, r)
<1> DEFINE n  == w.mem.orders[k].filled
           g  == [filled |-> f.filled - n,
                  status |-> IF f.filled = Size[k] THEN "filled" ELSE "partial"]
           w1 == IF f.filled - n > 0 THEN RecordBrokerFact(w, k, g) ELSE w
           w2 == IF w1.mem.orders[k].status = "CANCEL_REQUESTED" THEN w1
                 ELSE Log(w1, Ev("CANCEL_REQUESTED", k))
           w3 == Log(w2, Ev("CANCEL_CONFIRMED", k))
<1>0. k \in Intents
  BY SellType
<1>2. n \in Nat /\ n =< w.venue[k].filled /\ w.venue[k].filled \in Nat
  BY OrderType DEF OrderTypeOf, OrderOk
<1>3. Good(w1) /\ Beside(w, w1)
  <2>1. CASE f.filled - n > 0
    <3>1. /\ g.filled \in Nat /\ n + g.filled =< w.venue[k].filled
          /\ g.status \in {"open", "partial", "filled", "expired"}
      BY <1>2, <2>1
    <3> HIDE DEF g
    <3>2. QED
      BY <2>1, <3>1, BrokerFactGood
  <2>2. CASE ~(f.filled - n > 0)
    BY <2>2 DEF Beside
  <2>3. QED
    BY <2>1, <2>2
<1>4. RecordProgress(w, k, f) =
        IF f.status = "expired" /\ w1.mem.orders[k].status \notin {"CANCELED", "FILLED"}
        THEN w3 ELSE w1
  BY DEF RecordProgress
<1> HIDE DEF w1
<1>5. Good(w2) /\ Beside(w1, w2)
  <2>1. LET r == Log(w1, Ev("CANCEL_REQUESTED", k)) IN Good(r) /\ Beside(w1, r)
    BY <1>0, <1>3, PlainEvGood
  <2>2. QED
    BY <1>3, <2>1 DEF Beside
<1> HIDE DEF w2
<1>6. Good(w3) /\ Beside(w2, w3)
  BY <1>0, <1>5, PlainEvGood
<1> HIDE DEF w3
<1>7. QED
  BY <1>3, <1>4, <1>5, <1>6 DEF Beside

\* _record_reconciled_submission books what the venue filled and no more.
LEMMA RecordReconciledGood ==
  ASSUME NEW k \in Sells, NEW w, Good(w),
         NEW f, f.filled \in Nat, f.filled =< w.venue[k].filled,
         f.status \in {"open", "partial", "filled", "expired"}
  PROVE  LET r == RecordReconciledSubmission(w, k, f) IN Good(r) /\ Beside(w, r)
<1> DEFINE w1 == IF w.mem.orders[k].exchange_id \/ k \in w.mem.unresolved THEN w
                 ELSE RecordUnknown(w, k)
<1>1. Good(w1) /\ Beside(w, w1)
  <2>1. CASE w.mem.orders[k].exchange_id \/ k \in w.mem.unresolved
    BY <2>1 DEF Beside
  <2>2. CASE ~(w.mem.orders[k].exchange_id \/ k \in w.mem.unresolved)
    <3>1. w.mem.orders[k].filled = 0
      BY <2>2, OrderType DEF OrderTypeOf, OrderOk
    <3>2. QED
      BY <2>2, <3>1, OutcomeUnknownGood
  <2>3. QED
    BY <2>1, <2>2
<1>v. w1.venue = w.venue
  BY <1>1 DEF Beside
<1>2. RecordReconciledSubmission(w, k, f) =
        IF k \in w1.mem.unresolved THEN Reconcile(w1, k, f) ELSE RecordProgress(w1, k, f)
  BY DEF RecordReconciledSubmission
<1> HIDE DEF w1
<1>3. CASE k \in w1.mem.unresolved
  BY <1>1, <1>v, <1>2, <1>3, ReconcileGood DEF Beside
<1>4. CASE k \notin w1.mem.unresolved
  BY <1>1, <1>v, <1>2, <1>4, ProgressGood DEF Beside
<1>5. QED
  BY <1>3, <1>4
-----------------------------------------------------------------------------
(* Writing the position's record                                           *)

\* r and w differ in the record alone.
BesideRecord(w, r) ==
  /\ r.mem = w.mem /\ r.ledger = w.ledger /\ r.price = w.price
  /\ r.venue = w.venue /\ r.wire = w.wire /\ r.run = w.run /\ r.held = w.held

\* A record that may replace w's.
Replaces(w, r) ==
  /\ \A s \in Stops : Working(w, s) => s \in {r.active, r.pending}
  /\ \A s \in Stops : s \in w.wire => r.active = Nil /\ w.price[s] = r.trail
  /\ r.active # Nil => w.venue[r.active].state # "absent"
  /\ w.held > 0 => \A s \in Stops : w.price[s] =< r.trail

LEMMA RecordGood ==
  ASSUME NEW w, Good(w), NEW r \in Records, Replaces(w, r)
  PROVE  LET v == Durably(w, [w EXCEPT !.record = r]) IN
         Good(v) /\ BesideRecord(w, v) /\ v.record = r
<1> DEFINE next == [w EXCEPT !.record = r]
<1>1. w \in Worlds /\ Safe(w) /\ w.held = held
  BY GoodType
<1>2. /\ next \in Worlds /\ next.crashes = w.crashes /\ BesideRecord(w, next)
      /\ next.record = r
  BY <1>1 DEF Worlds, BesideRecord
<1> HIDE DEF next
<1>3. Safe(next)
  <2>1. \A k \in Sells : VenueOk(next, k) /\ CoverOk(next, k)
    BY <1>1, <1>2 DEF BesideRecord, Safe, VenueOk, CoverOk
  <2>2. OneWorks(next) /\ LedgerOk(next)
    BY <1>1, <1>2 DEF BesideRecord, Safe, OneWorks, LedgerOk, Working, Reached
  <2>3. RecordOk(next) /\ PriceOk(next)
    BY <1>1, <1>2
    DEF BesideRecord, Safe, Replaces, RecordOk, PriceOk, Working, Reached
  <2>4. MemOk(next.mem, next)
    BY <1>1, <1>2 DEF BesideRecord, Safe, MemOk, OrderOk, Reached
  <2>5. QED
    BY <2>1, <2>2, <2>3, <2>4 DEF Safe
<1>4. /\ Good(Durably(w, next)) /\ SameBooks(next, Durably(w, next))
      /\ Durably(w, next).run = next.run
  BY <1>1, <1>2, <1>3, DurablyGood DEF BesideRecord
<1>5. QED
  BY <1>2, <1>4 DEF SameBooks, BesideRecord, next

\* Every stop the venue still works on is recorded.
LEMMA RecordFacts ==
  ASSUME NEW w, Good(w)
  PROVE  LET r == w.record IN
         /\ r.trail \in 0 .. MaxLevel
         /\ r.active \in Stops \cup {Nil} /\ r.pending \in Stops \cup {Nil}
         /\ Replaces(w, r)
         /\ w.price \in Prices /\ w.venue \in Venues /\ Nil \notin Stops
  BY GoodType, KindsType DEF Records, Safe, Replaces, RecordOk, PriceOk

LEMMA AbandonGood ==
  ASSUME NEW w, Good(w), w.record.pending # Nil => ~Working(w, w.record.pending)
  PROVE  LET v == AbandonPending(w) IN
         /\ Good(v) /\ BesideRecord(w, v) /\ v.record.pending = Nil
         /\ v.record.active = w.record.active /\ v.record.trail = w.record.trail
<1> DEFINE r == [w.record EXCEPT !.pending = Nil]
<1>1. w \in Worlds /\ w.record \in Records
  BY GoodType
<1>2. /\ r \in Records /\ r.pending = Nil /\ r.active = w.record.active
      /\ r.trail = w.record.trail
  BY <1>1 DEF Records
<1>3. CASE w.record.pending = Nil
  BY <1>3 DEF AbandonPending, BesideRecord
<1>4. CASE w.record.pending # Nil
  <2>1. AbandonPending(w) = Durably(w, [w EXCEPT !.record = r])
    BY <1>4 DEF AbandonPending
  <2> HIDE DEF r
  <2>2. Replaces(w, r)
    BY <1>2, <1>4, RecordFacts DEF Replaces
  <2>3. QED
    BY <1>2, <2>1, <2>2, RecordGood
<1>5. QED
  BY <1>3, <1>4

LEMMA ClearGood ==
  ASSUME NEW w, Good(w), w.record.active # Nil => ~Working(w, w.record.active)
  PROVE  LET v == ClearActive(w) IN
         /\ Good(v) /\ BesideRecord(w, v) /\ v.record.active = Nil
         /\ v.record.pending = w.record.pending /\ v.record.trail = w.record.trail
<1> DEFINE r == [w.record EXCEPT !.active = Nil]
<1>1. w \in Worlds /\ w.record \in Records
  BY GoodType
<1>2. /\ r \in Records /\ r.active = Nil /\ r.pending = w.record.pending
      /\ r.trail = w.record.trail
  BY <1>1 DEF Records
<1>3. CASE w.record.active = Nil
  BY <1>3 DEF ClearActive, BesideRecord
<1>4. CASE w.record.active # Nil
  <2>1. ClearActive(w) = Durably(w, [w EXCEPT !.record = r])
    BY <1>4 DEF ClearActive
  <2> HIDE DEF r
  <2>2. Replaces(w, r)
    BY <1>2, <1>4, RecordFacts DEF Replaces
  <2>3. QED
    BY <1>2, <2>1, <2>2, RecordGood
<1>5. QED
  BY <1>3, <1>4

\* Of what works there is only one.
LEMMA OneOnly ==
  ASSUME NEW w, Good(w), NEW j \in Sells, NEW k \in Sells, Working(w, j), Working(w, k)
  PROVE  j = k
  BY GoodType DEF Safe, OneWorks

LEMMA WireIsAbsent ==
  ASSUME NEW w, Good(w), NEW k \in Sells, k \in w.wire
  PROVE  w.venue[k].state = "absent" /\ Working(w, k)
  BY GoodType DEF Safe, VenueOk, Working

LEMMA ActivateGood ==
  ASSUME NEW w, Good(w), w.record.pending # Nil,
         w.venue[w.record.pending].state = "open",
         w.record.active # Nil => ~Working(w, w.record.active)
  PROVE  LET v == ActivatePending(w) IN
         /\ Good(v) /\ BesideRecord(w, v) /\ v.record.pending = Nil
         /\ v.record.active = w.record.pending /\ v.record.trail = w.record.trail
<1> DEFINE r == [w.record EXCEPT !.active = w.record.pending, !.pending = Nil]
<1>1. w \in Worlds /\ w.record \in Records
  BY GoodType
<1>2. /\ r \in Records /\ r.pending = Nil /\ r.active = w.record.pending
      /\ r.trail = w.record.trail
  BY <1>1 DEF Records
<1>3. ActivatePending(w) = Durably(w, [w EXCEPT !.record = r])
  BY <1>1 DEF ActivatePending, Worlds, Records
<1> HIDE DEF r
<1>4. w.record.pending \in Stops /\ w.record.pending \in Sells
  BY RecordFacts, KindsType
<1>5. \A s \in Stops : s \notin w.wire
  <2> SUFFICES ASSUME NEW s \in Stops, s \in w.wire
               PROVE  FALSE
    OBVIOUS
  <2>1. s \in Sells
    BY KindsType
  <2>2. w.venue[s].state = "absent" /\ Working(w, s)
    BY <2>1, WireIsAbsent
  <2>3. s = w.record.pending
    BY <1>4, <2>1, <2>2, OneOnly DEF Working
  <2>4. QED
    BY <2>2, <2>3
<1>6. Replaces(w, r)
  BY <1>2, <1>5, RecordFacts DEF Replaces
<1>7. QED
  BY <1>2, <1>3, <1>6, RecordGood

\* With nothing held no stop rests.
LEMMA NothingRests ==
  ASSUME NEW w, Good(w), w.held = 0, NEW s \in Stops
  PROVE  w.venue[s].state # "open"
<1>1. s \in Sells
  BY KindsType
<1>2. VenueOk(w, s) /\ CoverOk(w, s) /\ w.venue[s].filled \in Nat
  BY <1>1, GoodType DEF Safe, Venues
<1>3. QED
  BY <1>1, <1>2, SellType DEF VenueOk, CoverOk

LEMMA ClearRiskGood ==
  ASSUME NEW w, Good(w), w.held = 0, w.wire \cap Stops = {}
  PROVE  LET v == ClearPositionRisk(w) IN
         Good(v) /\ BesideRecord(w, v) /\ v.record = NoRecord
<1>1. NoRecord \in Records
  BY KindsType DEF NoRecord, Records
<1>2. NoRecord.active = Nil
  BY DEF NoRecord
<1>3. Replaces(w, NoRecord)
  BY <1>2, NothingRests DEF Replaces, Working
<1>4. QED
  BY <1>1, <1>3, RecordGood DEF ClearPositionRisk

-----------------------------------------------------------------------------
(* reconcile_protective_stop                                               *)

LEMMA StatusType ==
  ASSUME NEW w, Good(w), NEW k \in Sells
  PROVE  /\ Status(w, k) \in {"absent", "open", "partial", "filled", "expired"}
         /\ Status(w, k) \in {"open", "partial"} <=> w.venue[k].state = "open"
         /\ Status(w, k) = "absent" <=> w.venue[k].state = "absent"
         /\ Status(w, k) = "filled" <=> w.venue[k].state = "filled"
         /\ Status(w, k) = "expired" <=> w.venue[k].state = "expired"
         /\ w.venue[k].filled \in Nat
<1>1. /\ w.venue[k].state \in {"absent", "open", "filled", "expired"}
      /\ w.venue[k].filled \in Nat
  BY GoodType DEF Venues
<1>2. k # Nil
  BY SellType
<1>3. QED
  BY <1>1, <1>2 DEF Status

LEMMA NilStatus ==
  ASSUME NEW w
  PROVE  Status(w, Nil) = "none"
  BY DEF Status

\* What the reconciliation leaves behind: an active stop that rests, or none
\* resting at all.
SettledStop(w, r) ==
  /\ Good(r.world) /\ BesideRecord(w, r.world)
  /\ r.world.record.trail = w.record.trail
  /\ ~r.raises =>
       IF r.world.record.active = Nil
       THEN \A s \in Stops : w.venue[s].state # "open"
       ELSE w.venue[r.world.record.active].state = "open"

\* A stop the venue does not know or has ended works no longer, where it is
\* the active one.
LEMMA EndedActive ==
  ASSUME NEW w, Good(w), w.record.active # Nil,
         Status(w, w.record.active) \in {"absent", "expired"}
  PROVE  ~Working(w, w.record.active)
<1>1. w.record.active \in Stops /\ w.record.active \in Sells
  BY RecordFacts, KindsType
<1>2. w.record.active \notin w.wire
  BY <1>1, RecordFacts DEF Replaces
<1>3. QED
  BY <1>1, <1>2, StatusType DEF Working

LEMMA ReconciledActiveGood ==
  ASSUME NEW w, Good(w), w.record.pending = Nil
  PROVE  SettledStop(w, ReconciledActive(w))
<1> DEFINE a == w.record.active
<1>1. a \in Stops \cup {Nil} /\ Stops \subseteq Sells
  BY RecordFacts, KindsType
<1>2. \A s \in Stops : w.venue[s].state = "open" => s = a
  BY RecordFacts DEF Replaces, Working
<1>3. a # Nil => Status(w, a) \in {"absent", "open", "partial", "filled", "expired"}
  BY <1>1, StatusType
<1>4. CASE a = Nil
  <2>1. ReconciledActive(w) = Settles(w)
    BY <1>4, NilStatus DEF ReconciledActive, Fired
  <2>2. QED
    BY <1>1, <1>2, <1>4, <2>1, RecordFacts DEF SettledStop, Settles, BesideRecord
<1>5. CASE a # Nil /\ Status(w, a) = "open"
  <2>1. ReconciledActive(w) = Settles(w)
    BY <1>5 DEF ReconciledActive, Fired
  <2>2. w.venue[a].state = "open"
    BY <1>1, <1>5, StatusType
  <2>3. QED
    BY <1>5, <2>1, <2>2 DEF SettledStop, Settles, BesideRecord
<1>6. CASE a # Nil /\ Status(w, a) \in Fired
  <2>1. ReconciledActive(w) = Refuses(w)
    BY <1>6 DEF ReconciledActive, Fired
  <2>2. QED
    BY <2>1 DEF SettledStop, Refuses, BesideRecord
<1>7. CASE a # Nil /\ Status(w, a) \in {"absent", "expired"}
  <2>1. ReconciledActive(w) = Settles(ClearActive(w))
    BY <1>7 DEF ReconciledActive, Fired
  <2>2. ~Working(w, a)
    BY <1>7, EndedActive
  <2>3. LET v == ClearActive(w) IN
        /\ Good(v) /\ BesideRecord(w, v) /\ v.record.active = Nil
        /\ v.record.trail = w.record.trail
    BY <2>2, ClearGood
  <2>4. \A s \in Stops : w.venue[s].state # "open"
    BY <1>2, <2>2 DEF Working
  <2>5. QED
    BY <2>1, <2>3, <2>4 DEF SettledStop, Settles
<1>8. QED
  BY <1>3, <1>4, <1>5, <1>6, <1>7 DEF Fired
LEMMA UnknownPendingGood ==
  ASSUME NEW w, Good(w), w.record.pending # Nil,
         Status(w, w.record.pending) = "absent"
  PROVE  SettledStop(w, UnknownPending(w))
<1> DEFINE a == w.record.active
           p == w.record.pending
<1>1. a \in Stops \cup {Nil} /\ p \in Stops /\ Stops \subseteq Sells
  BY RecordFacts, KindsType
<1>2. \A s \in Stops : w.venue[s].state = "open" => s = a
  <2>1. w.venue[p].state = "absent"
    BY <1>1, StatusType
  <2>2. QED
    BY <2>1, RecordFacts DEF Replaces, Working
<1>3. a # Nil => Status(w, a) \in {"absent", "open", "partial", "filled", "expired"}
  BY <1>1, StatusType
<1>p. a # Nil => ~Working(w, p)
  <2>1. a # Nil => p \notin w.wire
    BY <1>1, RecordFacts DEF Replaces
  <2>2. QED
    BY <1>1, <2>1, StatusType DEF Working
<1>4. CASE a = Nil
  <2>1. UnknownPending(w) = Settles(w)
    BY <1>4, NilStatus DEF UnknownPending, Fired
  <2>2. QED
    BY <1>1, <1>2, <1>4, <2>1, RecordFacts DEF SettledStop, Settles, BesideRecord
<1>5. CASE a # Nil /\ Status(w, a) = "open"
  <2>1. UnknownPending(w) = Settles(AbandonPending(w))
    BY <1>5 DEF UnknownPending, Fired
  <2>2. w.venue[a].state = "open"
    BY <1>1, <1>5, StatusType
  <2>3. LET v == AbandonPending(w) IN
        /\ Good(v) /\ BesideRecord(w, v) /\ v.record.active = a
        /\ v.record.trail = w.record.trail
    BY <1>5, <1>p, AbandonGood
  <2>4. QED
    BY <1>5, <2>1, <2>2, <2>3 DEF SettledStop, Settles
<1>6. CASE a # Nil /\ Status(w, a) \in Fired
  <2>1. UnknownPending(w) = Refuses(w)
    BY <1>6 DEF UnknownPending, Fired
  <2>2. QED
    BY <2>1 DEF SettledStop, Refuses, BesideRecord
<1>7. CASE a # Nil /\ Status(w, a) \in {"absent", "expired"}
  <2> DEFINE u == ClearActive(w)
             v == AbandonPending(u)
  <2>1. UnknownPending(w) = Settles(v)
    BY <1>7 DEF UnknownPending, Fired
  <2>2. ~Working(w, a)
    BY <1>7, EndedActive
  <2>3. /\ Good(u) /\ BesideRecord(w, u) /\ u.record.active = Nil
        /\ u.record.pending = p /\ u.record.trail = w.record.trail
    BY <2>2, ClearGood
  <2>4. ~Working(u, p)
    BY <1>7, <1>p, <2>3 DEF BesideRecord, Working
  <2> HIDE DEF u
  <2>5. /\ Good(v) /\ BesideRecord(u, v) /\ v.record.active = Nil
        /\ v.record.trail = w.record.trail
    BY <2>3, <2>4, AbandonGood
  <2>6. \A s \in Stops : w.venue[s].state # "open"
    BY <1>2, <2>2 DEF Working
  <2> HIDE DEF v
  <2>7. QED
    BY <2>1, <2>3, <2>5, <2>6 DEF SettledStop, Settles, BesideRecord
<1>8. QED
  BY <1>3, <1>4, <1>5, <1>6, <1>7 DEF Fired

LEMMA ReconcileStopGood ==
  ASSUME NEW w, Good(w)
  PROVE  SettledStop(w, ReconcileProtectiveStop(w))
<1> DEFINE a == w.record.active
           p == w.record.pending
<1>1. a \in Stops \cup {Nil} /\ p \in Stops \cup {Nil} /\ Stops \subseteq Sells
  BY RecordFacts, KindsType
<1>2. p # Nil => Status(w, p) \in {"absent", "open", "partial", "filled", "expired"}
  BY <1>1, StatusType
<1>3. CASE p = Nil
  <2>1. ReconcileProtectiveStop(w) = ReconciledActive(w)
    BY <1>3, NilStatus DEF ReconcileProtectiveStop, Fired
  <2>2. QED
    BY <1>3, <2>1, ReconciledActiveGood
<1>4. CASE p # Nil /\ Status(w, p) = "absent"
  <2>1. ReconcileProtectiveStop(w) = UnknownPending(w)
    BY <1>4 DEF ReconcileProtectiveStop, Fired
  <2>2. QED
    BY <1>4, <2>1, UnknownPendingGood
<1>5. CASE p # Nil /\ Status(w, p) = "expired"
  <2> DEFINE v == AbandonPending(w)
  <2>1. ReconcileProtectiveStop(w) = ReconciledActive(v)
    BY <1>5 DEF ReconcileProtectiveStop, Fired
  <2>2. ~Working(w, p)
    <3>1. w.venue[p].state = "expired" /\ p \in Sells
      BY <1>1, <1>5, StatusType
    <3>2. QED
      BY <3>1, WireIsAbsent DEF Working
  <2>3. /\ Good(v) /\ BesideRecord(w, v) /\ v.record.pending = Nil
        /\ v.record.trail = w.record.trail
    BY <2>2, AbandonGood
  <2> HIDE DEF v
  <2>4. SettledStop(v, ReconciledActive(v))
    BY <2>3, ReconciledActiveGood
  <2>5. QED
    BY <2>1, <2>3, <2>4 DEF SettledStop, BesideRecord
<1>6. CASE p # Nil /\ Status(w, p) \in Fired
  <2>1. ReconcileProtectiveStop(w) = Refuses(w)
    BY <1>6 DEF ReconcileProtectiveStop, Fired
  <2>2. QED
    BY <2>1 DEF SettledStop, Refuses, BesideRecord
<1>7. CASE p # Nil /\ Status(w, p) = "open"
  <2>0. ReconcileProtectiveStop(w) =
          IF Status(w, a) \in {"open"} \cup Fired THEN Refuses(w)
          ELSE Settles(ActivatePending(w))
    BY <1>7 DEF ReconcileProtectiveStop, Fired
  <2>1. CASE Status(w, a) \in {"open"} \cup Fired
    BY <2>0, <2>1 DEF SettledStop, Refuses, BesideRecord
  <2>2. CASE Status(w, a) \notin {"open"} \cup Fired
    <3>1. w.venue[p].state = "open"
      BY <1>1, <1>7, StatusType
    <3>2. a # Nil => Status(w, a) \in {"absent", "expired"}
      BY <1>1, <2>2, StatusType DEF Fired
    <3>3. a # Nil => ~Working(w, a)
      BY <3>2, EndedActive
    <3>4. LET v == ActivatePending(w) IN
          /\ Good(v) /\ BesideRecord(w, v) /\ v.record.active = p
          /\ v.record.trail = w.record.trail
      BY <1>7, <3>1, <3>3, ActivateGood
    <3>5. QED
      BY <1>7, <2>0, <2>2, <3>1, <3>4 DEF SettledStop, Settles
  <2>3. QED
    BY <2>1, <2>2
<1>8. QED
  BY <1>2, <1>3, <1>4, <1>5, <1>6, <1>7 DEF Fired
-----------------------------------------------------------------------------
(* Writing the order ledger, moving the run, cancelling at the venue       *)

\* r and w differ in the ledger alone.
BesideLedger(w, r) ==
  /\ r.mem = w.mem /\ r.record = w.record /\ r.price = w.price
  /\ r.venue = w.venue /\ r.wire = w.wire /\ r.run = w.run /\ r.held = w.held

LEMMA LedgerGood ==
  ASSUME NEW w, Good(w), NEW x \in Exits, NEW status \in {"unfinished", "closed"},
         status = "closed" => ~Working(w, x),
         status = "unfinished" => OpenExits(w) \subseteq {x}
  PROVE  LET v == Durably(w, [w EXCEPT !.ledger[x] = status]) IN
         /\ Good(v) /\ BesideLedger(w, v) /\ v.ledger = [w.ledger EXCEPT ![x] = status]
         /\ OpenExits(v) = IF status = "closed" THEN OpenExits(w) \ {x} ELSE {x}
<1> DEFINE next == [w EXCEPT !.ledger[x] = status]
           l == [w.ledger EXCEPT ![x] = status]
<1>1. w \in Worlds /\ Safe(w) /\ w.held = held /\ w.ledger \in Ledgers
  BY GoodType
<1>2. /\ l \in Ledgers /\ l[x] = status
      /\ \A y \in Exits : y # x => l[y] = w.ledger[y]
  BY <1>1 DEF Ledgers
<1> HIDE DEF l
<1>3. /\ next \in Worlds /\ next.crashes = w.crashes /\ BesideLedger(w, next)
      /\ next.ledger = l
  BY <1>1, <1>2 DEF Worlds, BesideLedger, l
<1> HIDE DEF next
<1>4. Safe(next)
  <2>1. \A k \in Sells : VenueOk(next, k) /\ CoverOk(next, k)
    BY <1>1, <1>3 DEF BesideLedger, Safe, VenueOk, CoverOk
  <2>2. OneWorks(next) /\ RecordOk(next) /\ PriceOk(next)
    BY <1>1, <1>3 DEF BesideLedger, Safe, OneWorks, RecordOk, PriceOk, Working, Reached
  <2>3. LedgerOk(next)
    BY <1>1, <1>2, <1>3
    DEF BesideLedger, Safe, LedgerOk, OpenExits, Working, Reached
  <2>4. MemOk(next.mem, next)
    BY <1>1, <1>3 DEF BesideLedger, Safe, MemOk, OrderOk, Reached
  <2>5. QED
    BY <2>1, <2>2, <2>3, <2>4 DEF Safe
<1>5. /\ Good(Durably(w, next)) /\ SameBooks(next, Durably(w, next))
      /\ Durably(w, next).run = next.run
  BY <1>1, <1>3, <1>4, DurablyGood DEF BesideLedger
<1> DEFINE v == Durably(w, next)
<1>6. Good(v) /\ BesideLedger(w, v) /\ v.ledger = l
  BY <1>3, <1>5 DEF SameBooks, BesideLedger
<1> HIDE DEF v
<1>7. OpenExits(v) = IF status = "closed" THEN OpenExits(w) \ {x} ELSE {x}
  BY <1>2, <1>6 DEF OpenExits
<1>8. QED
  BY <1>6, <1>7 DEF v, next, l

LEMMA CloseGood ==
  ASSUME NEW w, Good(w), NEW x \in Exits, ~Working(w, x)
  PROVE  LET v == Close(w, x) IN
         Good(v) /\ BesideLedger(w, v) /\ OpenExits(v) = OpenExits(w) \ {x}
  BY LedgerGood DEF Close

LEMMA UnfinishedGood ==
  ASSUME NEW w, Good(w), NEW x \in Exits, OpenExits(w) \subseteq {x}
  PROVE  LET v == Unfinished(w, x) IN
         Good(v) /\ BesideLedger(w, v) /\ OpenExits(v) = {x}
  BY LedgerGood DEF Unfinished

LEMMA RunGood ==
  ASSUME NEW w, Good(w), NEW r \in Runs
  PROVE  LET v == [w EXCEPT !.run = r] IN
         Good(v) /\ SameBooks(w, v) /\ v.run = r
<1> DEFINE v == [w EXCEPT !.run = r]
<1>1. /\ v \in Worlds /\ SameBooks(w, v) /\ v.run = r /\ v.crashes = w.crashes
  BY GoodType DEF Worlds, SameBooks
<1> HIDE DEF v
<1>2. Safe(v) /\ v.held = held
  BY <1>1, GoodType, SameIsSafe DEF SameBooks
<1>3. QED
  BY <1>1, <1>2 DEF Good, v

\* The places of a run.
Places ==
  {"off", "orders", "positions", "ensure", "cancel", "stopcall", "recover", "exit",
   "handover", "stopcheck", "exitcall", "poll", "residual", "protect", "heldback",
   "cleanup", "done"}

LEMMA GotoGood ==
  ASSUME NEW w, Good(w), NEW at \in Places
  PROVE  LET v == Goto(w, at) IN
         Good(v) /\ SameBooks(w, v) /\ v.run = [w.run EXCEPT !.at = at]
         /\ v.run.at = at /\ v.run.exit = w.run.exit /\ v.run.seen = w.run.seen
<1> DEFINE r == [w.run EXCEPT !.at = at]
<1>1. w \in Worlds /\ w.run \in Runs
  BY GoodType
<1>2. /\ r \in Runs /\ r.at = at /\ r.exit = w.run.exit /\ r.seen = w.run.seen
  BY <1>1 DEF Runs, Places
<1>3. Goto(w, at) = [w EXCEPT !.run = r]
  BY <1>1 DEF Goto, Worlds
<1> HIDE DEF r
<1>4. Good(Goto(w, at)) /\ SameBooks(w, Goto(w, at)) /\ Goto(w, at).run = r
  BY <1>2, <1>3, RunGood
<1>5. QED
  BY <1>2, <1>4 DEF r

LEMMA OffType == Off \in Runs /\ Off.at = "off"
  BY DEF Off, Runs

\* A good world whose run knows what it must.
StepOk(w) == Good(w) /\ RunOk(w)

LEMMA RaiseOk ==
  ASSUME NEW w, Good(w)
  PROVE  StepOk(Raise(w))
<1>1. Good(Raise(w)) /\ Raise(w).run = Off
  BY OffType, RunGood DEF Raise
<1>2. QED
  BY <1>1, OffType DEF StepOk, RunOk, Quiet, BetweenExits, Exiting

\* What is still held is covered by a stop the venue took.
Covered(w) ==
  w.held > 0 => w.record.active # Nil /\ Size[w.record.active] >= w.held

LEMMA CompleteOk ==
  ASSUME NEW w, Good(w), Covered(w)
  PROVE  StepOk(Complete(w))
<1> DEFINE r == [Off EXCEPT !.at = "done"]
<1>1. r \in Runs /\ r.at = "done"
  BY DEF Off, Runs
<1> HIDE DEF r
<1>2. Complete(w) = [w EXCEPT !.run = r]
  BY DEF Complete, r
<1>3. Good(Complete(w)) /\ SameBooks(w, Complete(w)) /\ Complete(w).run = r
  BY <1>1, <1>2, RunGood
<1>4. QED
  BY <1>1, <1>3
  DEF StepOk, RunOk, Quiet, BetweenExits, Exiting, Covered, SameBooks

LEMMA ProtectedOk ==
  ASSUME NEW w, Good(w), Covered(w)
  PROVE  StepOk(Protected(w))
  BY RaiseOk, CompleteOk DEF Protected

\* r is w with k cancelled at the venue.
CancelledIn(w, r, k) ==
  /\ r.mem = w.mem /\ r.record = w.record /\ r.ledger = w.ledger
  /\ r.price = w.price /\ r.wire = w.wire /\ r.run = w.run /\ r.held = w.held
  /\ r.venue[k].state = "expired"
  /\ \A j \in Sells : /\ r.venue[j].filled = w.venue[j].filled
                      /\ j # k => r.venue[j] = w.venue[j]
                      /\ Reached(r, j) <=> Reached(w, j)
                      /\ Working(r, j) => Working(w, j) /\ j # k

LEMMA CancelGood ==
  ASSUME NEW w, Good(w), NEW k \in Sells, w.venue[k].state = "open"
  PROVE  Good(Cancelled(w, k)) /\ CancelledIn(w, Cancelled(w, k), k)
<1> DEFINE v == Cancelled(w, k)
<1>1. w \in Worlds /\ Safe(w) /\ w.held = held /\ w.venue \in Venues
  BY GoodType
<1>2. k \notin w.wire
  BY WireIsAbsent
<1>3. /\ v \in Worlds /\ v.crashes = w.crashes
      /\ v.mem = w.mem /\ v.record = w.record /\ v.ledger = w.ledger
      /\ v.price = w.price /\ v.wire = w.wire /\ v.run = w.run /\ v.held = w.held
      /\ v.venue = [w.venue EXCEPT ![k].state = "expired"]
  BY <1>1 DEF Cancelled, Worlds, Venues
<1> HIDE DEF v
<1>4. /\ v.venue[k].state = "expired" /\ v.venue[k].filled = w.venue[k].filled
      /\ \A j \in Sells : j # k => v.venue[j] = w.venue[j]
  BY <1>1, <1>3 DEF Venues
<1>5. CancelledIn(w, v, k)
  BY <1>2, <1>3, <1>4 DEF CancelledIn, Reached, Working
<1>6. Safe(v)
  <2>1. \A j \in Sells : VenueOk(v, j) /\ CoverOk(v, j)
    <3>1. VenueOk(v, k) /\ CoverOk(v, k)
      BY <1>1, <1>2, <1>3, <1>4 DEF Safe, VenueOk, CoverOk
    <3>2. ASSUME NEW j \in Sells, j # k PROVE VenueOk(v, j) /\ CoverOk(v, j)
      BY <1>1, <1>3, <1>4, <3>2 DEF Safe, VenueOk, CoverOk
    <3>3. QED
      BY <3>1, <3>2
  <2>2. OneWorks(v)
    BY <1>1, <1>5 DEF CancelledIn, Safe, OneWorks
  <2>3. RecordOk(v)
    <3>1. w.record.active # Nil => w.record.active \in Sells
      BY RecordFacts, KindsType
    <3>2. QED
      BY <1>1, <1>5, <3>1, KindsType DEF CancelledIn, Safe, RecordOk
  <2>4. PriceOk(v) /\ LedgerOk(v)
    BY <1>1, <1>5, KindsType DEF CancelledIn, Safe, PriceOk, LedgerOk
  <2>5. MemOk(v.mem, v)
    BY <1>1, <1>5 DEF CancelledIn, Safe, MemOk, OrderOk
  <2>6. QED
    BY <2>1, <2>2, <2>3, <2>4, <2>5 DEF Safe
<1>7. QED
  BY <1>1, <1>3, <1>5, <1>6 DEF Good, v
-----------------------------------------------------------------------------
(* Sending an order                                                        *)

LEMMA SellsFinite == IsFiniteSet(Sells)
  BY FiniteAssumption, FS_Subset DEF Intents

\* A sum over the sells, as the model writes it, is a Sum.
LEMMA LockedType ==
  ASSUME NEW w, Good(w)
  PROVE  Locked(w) \in Nat
<1> DEFINE S == {j \in Sells : w.venue[j].state = "open"}
           g == [j \in S |-> Size[j] - w.venue[j].filled]
           Table(f) == f = [u \in SUBSET S |->
                              IF u = {} THEN 0
                              ELSE LET x == CHOOSE x \in u : TRUE
                                   IN  Size[x] - w.venue[x].filled + f[u \ {x}]]
           k == CHOOSE f : Table(f)
<1>1. Locked(w) = k[S]
  BY Zenon DEF Locked, MapThenSumSet, MapThenFoldSet
<1>2. ASSUME NEW f
      PROVE  Table(f) <=> PartialSums(g, S, f)
  <2>1. \A u \in SUBSET S : u # {} =>
          Size[Chosen(u)] - w.venue[Chosen(u)].filled = g[Chosen(u)]
    <3>1. \A u \in SUBSET S : u # {} => Chosen(u) \in S
      BY ChosenIn
    <3> HIDE DEF S
    <3>2. QED
      BY <3>1
  <2> HIDE DEF S, g
  <2>2. [u \in SUBSET S |->
           IF u = {} THEN 0
           ELSE Size[Chosen(u)] - w.venue[Chosen(u)].filled + f[u \ {Chosen(u)}]]
          = [u \in SUBSET S |-> IF u = {} THEN 0
                                ELSE g[Chosen(u)] + f[u \ {Chosen(u)}]]
    BY <2>1
  <2>3. Table(f) <=>
          f = [u \in SUBSET S |->
                 IF u = {} THEN 0
                 ELSE Size[Chosen(u)] - w.venue[Chosen(u)].filled
                        + f[u \ {Chosen(u)}]]
    BY DEF Chosen
  <2> HIDE DEF Table
  <2>4. QED
    BY <2>2, <2>3 DEF PartialSums
<1>3. IsFiniteSet(S)
  <2>1. S \subseteq Sells
    OBVIOUS
  <2>2. QED
    BY <2>1, SellsFinite, FS_Subset
<1>4. g \in [S -> Nat]
  <2>1. \A j \in S : Size[j] - w.venue[j].filled \in Nat
    <3> SUFFICES ASSUME NEW j \in S
                 PROVE  Size[j] - w.venue[j].filled \in Nat
      OBVIOUS
    <3>1. j \in Sells /\ w.venue[j].state = "open"
      OBVIOUS
    <3>2. VenueOk(w, j) /\ w.venue[j].filled \in Nat /\ Size[j] \in Nat
      BY <3>1, GoodType, SellType DEF Safe, Venues
    <3>3. QED
      BY <3>1, <3>2 DEF VenueOk
  <2>2. QED
    BY <2>1
<1> HIDE DEF S, g
<1>5. \E f : Table(f)
  <2>1. \E f : PartialSums(g, S, f)
    BY <1>3, PartialSumsExist
  <2> HIDE DEF Table
  <2>2. QED
    BY <1>2, <2>1
<1>6. Table(k)
  BY <1>5
<1> HIDE DEF Table, k
<1>7. k[S] = Sum(g, S)
  BY <1>2, <1>3, <1>6, SumIsTable
<1>8. QED
  BY <1>1, <1>3, <1>4, <1>7, SumNat

LEMMA ReservedType ==
  ASSUME NEW w, Good(w), NEW i \in Sells
  PROVE  Reserved(w, i) \in Nat
<1> DEFINE S == Sells \ (Protective \cup {i})
           g == [j \in S |-> RemainingReserved(w.mem.orders[j])]
           Table(f) == f = [u \in SUBSET S |->
                              IF u = {} THEN 0
                              ELSE LET x == CHOOSE x \in u : TRUE
                                   IN  RemainingReserved(w.mem.orders[x]) + f[u \ {x}]]
           k == CHOOSE f : Table(f)
<1>1. Reserved(w, i) = k[S]
  BY Zenon DEF Reserved, MapThenSumSet, MapThenFoldSet
<1>2. ASSUME NEW f
      PROVE  Table(f) <=> PartialSums(g, S, f)
  <2>1. \A u \in SUBSET S : u # {} =>
          RemainingReserved(w.mem.orders[Chosen(u)]) = g[Chosen(u)]
    <3>1. \A u \in SUBSET S : u # {} => Chosen(u) \in S
      BY ChosenIn
    <3> HIDE DEF S
    <3>2. QED
      BY <3>1
  <2> HIDE DEF S, g
  <2>2. [u \in SUBSET S |->
           IF u = {} THEN 0
           ELSE RemainingReserved(w.mem.orders[Chosen(u)]) + f[u \ {Chosen(u)}]]
          = [u \in SUBSET S |-> IF u = {} THEN 0
                                ELSE g[Chosen(u)] + f[u \ {Chosen(u)}]]
    BY <2>1
  <2>3. Table(f) <=>
          f = [u \in SUBSET S |->
                 IF u = {} THEN 0
                 ELSE RemainingReserved(w.mem.orders[Chosen(u)]) + f[u \ {Chosen(u)}]]
    BY DEF Chosen
  <2> HIDE DEF Table
  <2>4. QED
    BY <2>2, <2>3 DEF PartialSums
<1>3. IsFiniteSet(S)
  <2>1. S \subseteq Sells
    OBVIOUS
  <2>2. QED
    BY <2>1, SellsFinite, FS_Subset
<1>4. g \in [S -> Nat]
  <2>1. \A j \in S : RemainingReserved(w.mem.orders[j]) \in Nat
    BY OrderType, RemainingReservedType DEF OrderTypeOf
  <2>2. QED
    BY <2>1
<1> HIDE DEF S, g
<1>5. \E f : Table(f)
  <2>1. \E f : PartialSums(g, S, f)
    BY <1>3, PartialSumsExist
  <2> HIDE DEF Table
  <2>2. QED
    BY <1>2, <2>1
<1>6. Table(k)
  BY <1>5
<1> HIDE DEF Table, k
<1>7. k[S] = Sum(g, S)
  BY <1>2, <1>3, <1>6, SumIsTable
<1>8. QED
  BY <1>1, <1>3, <1>4, <1>7, SumNat

\* What fits the free quantity fits what is held.
LEMMA FreeIsHeld ==
  ASSUME NEW w, Good(w)
  PROVE  Free(w) \in Int /\ Free(w) =< w.held /\ w.held \in Nat
<1>1. w.held \in Nat /\ Locked(w) \in Nat
  BY GoodType, LockedType
<1>2. QED
  BY <1>1 DEF Free

LEMMA EmergencyDecisionType == EmergencyDecision \in RiskDecision
  BY DEF EmergencyDecision, RiskDecision, Evidence

LEMMA ApprovedGood ==
  ASSUME NEW w, Good(w), NEW k \in Sells, ~Reached(w, k)
  PROVE  LET v == Approved(w, k) IN
         /\ Good(v) /\ Beside(w, v)
         /\ v.mem.orders[k].filled = 0 /\ Exists(v.mem, k)
<1> DEFINE e == Ev("ORDER_INTENT_CREATED", k)
           u == Log(w, e)
           d == [Ev("RISK_APPROVED", k) EXCEPT !.risk = EmergencyDecision]
           v == Log(u, d)
<1>0. k \in Intents
  BY SellType
<1>1. e \in Event /\ e.intent = k /\ e.type = "ORDER_INTENT_CREATED"
  BY <1>0, NoDecisionType DEF Ev, Event, EventTypes
<1>2. d \in Event /\ d.intent = k /\ d.type = "RISK_APPROVED"
  BY <1>0, NoDecisionType, EmergencyDecisionType DEF Ev, Event, EventTypes
<1>3. Approved(w, k) = v
  BY DEF Approved
<1>4. Justified(w.mem, e, w)
  BY <1>1 DEF Justified, RecordingEvents, FillEvents
<1> HIDE DEF e, d
<1>5. Good(u) /\ Beside(w, u) /\ u.mem = Apply(w.mem, e)
  BY <1>1, <1>4, LogGood
<1>6. u.mem.orders[k] = NewOrder("PENDING")
  BY <1>1, <1>5, GoodType, ApplyAt
<1>7. u.mem.orders[k].filled = 0 /\ Exists(u.mem, k)
  BY <1>6 DEF NewOrder, Exists
<1> HIDE DEF u
<1>8. /\ Good(v) /\ Beside(u, v) /\ v.mem.orders[k].filled = u.mem.orders[k].filled
      /\ Exists(v.mem, k) <=> Exists(u.mem, k)
  BY <1>0, <1>2, <1>5, PlainGood DEF PreparingEvents
<1> HIDE DEF v
<1>9. QED
  BY <1>3, <1>5, <1>7, <1>8 DEF Beside

LEMMA AuthorizedGood ==
  ASSUME NEW w, Good(w), NEW k \in Sells, ~Reached(w, k)
  PROVE  LET v == Authorized(w, k) IN
         /\ Good(v) /\ Beside(w, v)
         /\ v.mem.orders[k].filled = 0 /\ Exists(v.mem, k)
<1> DEFINE u == Approved(w, k)
           d == [Ev("ORDER_AUTHORIZED", k) EXCEPT !.authorized = Size[k]]
           v == Log(u, d)
<1>0. k \in Intents /\ Size[k] \in Nat
  BY SellType
<1>1. d \in Event /\ d.intent = k /\ d.type = "ORDER_AUTHORIZED"
  BY <1>0, NoDecisionType DEF Ev, Event, EventTypes
<1>2. Authorized(w, k) = v
  BY DEF Authorized
<1>3. /\ Good(u) /\ Beside(w, u) /\ u.mem.orders[k].filled = 0 /\ Exists(u.mem, k)
  BY ApprovedGood
<1> HIDE DEF u, d
<1>4. /\ Good(v) /\ Beside(u, v) /\ v.mem.orders[k].filled = u.mem.orders[k].filled
      /\ Exists(v.mem, k) <=> Exists(u.mem, k)
  BY <1>0, <1>1, <1>3, PlainGood DEF PreparingEvents
<1> HIDE DEF v
<1>5. QED
  BY <1>2, <1>3, <1>4 DEF Beside
\* When k may leave: nothing else works, and the books know of k.
Sendable(w, k) ==
  /\ \A j \in Sells : ~Working(w, j)
  /\ ~Reached(w, k) /\ Size[k] =< w.held
  /\ k \in Stops =>
       /\ w.record.active = Nil /\ w.record.pending = k
       /\ Size[k] >= w.held /\ w.price[k] = w.record.trail /\ w.price[k] > 0
  /\ k \in Exits => OpenExits(w) = {k}

LEMMA LeavesGood ==
  ASSUME NEW w, Good(w), NEW k \in Sells, Sendable(w, k), w.mem.orders[k].io_started
  PROVE  LET v == [w EXCEPT !.wire = @ \cup {k}] IN
         /\ Good(v) /\ v.wire = {k} /\ v.run = w.run /\ v.mem = w.mem
         /\ v.record = w.record /\ OpenExits(v) = OpenExits(w)
<1> DEFINE v == [w EXCEPT !.wire = @ \cup {k}]
<1>1. w \in Worlds /\ Safe(w) /\ w.held = held /\ w.wire \subseteq Sells
  BY GoodType
<1>2. w.wire = {}
  BY <1>1 DEF Sendable, Working
<1>3. /\ v \in Worlds /\ v.crashes = w.crashes /\ v.mem = w.mem
      /\ v.record = w.record /\ v.ledger = w.ledger /\ v.price = w.price
      /\ v.venue = w.venue /\ v.wire = {k} /\ v.run = w.run /\ v.held = w.held
  BY <1>1, <1>2 DEF Worlds
<1> HIDE DEF v
<1>4. w.venue[k].state = "absent" /\ \A j \in Sells : w.venue[j].state # "open"
  BY DEF Sendable, Reached, Working
<1>5. \A j \in Sells : (Working(v, j) <=> j = k)
  BY <1>3, <1>4 DEF Working
<1>6. \A j \in Sells : j # k => (Reached(v, j) <=> Reached(w, j))
  BY <1>2, <1>3 DEF Reached
<1>7. \A j \in Sells : VenueOk(v, j) /\ CoverOk(v, j)
  <2>1. VenueOk(v, k)
    BY <1>1, <1>3, <1>4 DEF Safe, VenueOk
  <2>2. CoverOk(v, k)
    <3>1. k \in Stops => Size[k] = w.held
      BY GoodType, SellType DEF Sendable
    <3>2. QED
      BY <1>1, <1>3, <1>4, <3>1 DEF Safe, CoverOk
  <2>3. ASSUME NEW j \in Sells, j # k PROVE VenueOk(v, j) /\ CoverOk(v, j)
    BY <1>1, <1>2, <1>3, <2>3 DEF Safe, VenueOk, CoverOk
  <2>4. QED
    BY <2>1, <2>2, <2>3
<1>8. OneWorks(v)
  BY <1>5 DEF OneWorks
<1>9. RecordOk(v)
  <2>1. \A s \in Stops : Working(v, s) =>
          /\ s \in {v.record.active, v.record.pending}
          /\ v.record.active = Nil /\ v.price[s] = v.record.trail
    BY <1>3, <1>5, KindsType DEF Sendable
  <2>2. QED
    BY <1>1, <1>3, <2>1 DEF Safe, RecordOk, Working
<1>10. PriceOk(v)
  <2>1. k \in Stops => v.price[k] # 0
    BY <1>3, RecordFacts DEF Sendable, Prices
  <2>2. QED
    BY <1>1, <1>3, <1>6, <2>1, KindsType DEF Safe, PriceOk
<1>11. LedgerOk(v)
  <2>1. k \in Exits => w.ledger[k] = "unfinished"
    BY DEF Sendable, OpenExits
  <2>2. QED
    BY <1>1, <1>3, <1>5, <1>6, <2>1, KindsType DEF Safe, LedgerOk
<1>12. MemOk(v.mem, v)
  <2>1. OrderOk(v.mem, k, v)
    BY <1>1, <1>3 DEF Safe, MemOk, OrderOk
  <2>2. ASSUME NEW j \in Sells, j # k PROVE OrderOk(v.mem, j, v)
    BY <1>1, <1>3, <1>6, <2>2 DEF Safe, MemOk, OrderOk
  <2>3. QED
    BY <2>1, <2>2 DEF MemOk
<1>13. Safe(v)
  BY <1>7, <1>8, <1>9, <1>10, <1>11, <1>12 DEF Safe
<1>14. OpenExits(v) = OpenExits(w)
  BY <1>3 DEF OpenExits
<1>15. QED
  BY <1>1, <1>3, <1>13, <1>14 DEF Good, v

LEMMA BesideSendable ==
  ASSUME NEW w, NEW v, Beside(w, v), NEW k \in Sells, Sendable(w, k)
  PROVE  Sendable(v, k)
  BY DEF Beside, Sendable, Working, Reached, OpenExits

LEMMA SentGood ==
  ASSUME NEW w, Good(w), NEW k \in Sells, Sendable(w, k)
  PROVE  LET v == Sent(w, k) IN
         /\ Good(v) /\ v.wire = {k} /\ v.mem.orders[k].filled = 0
         /\ v.record = w.record /\ OpenExits(v) = OpenExits(w)
         /\ v.run.at = IF k \in Stops THEN "stopcall" ELSE "exitcall"
         /\ v.run.exit = w.run.exit
<1> DEFINE a == Authorized(w, k)
           b == Log(a, Ev("BROKER_SUBMISSION_REQUESTED", k))
           c == Log(b, Ev("BROKER_IO_STARTED", k))
           d == [c EXCEPT !.wire = @ \cup {k}]
           at == IF k \in Stops THEN "stopcall" ELSE "exitcall"
           v == Goto(d, at)
<1>0. k \in Intents /\ ~Reached(w, k) /\ at \in Places
  BY SellType DEF Sendable, Places
<1>1. Sent(w, k) = v
  BY DEF Sent
<1>2. Good(a) /\ Beside(w, a) /\ a.mem.orders[k].filled = 0 /\ Exists(a.mem, k)
  BY <1>0, AuthorizedGood
<1> HIDE DEF a
<1>3. /\ Good(b) /\ Beside(a, b) /\ b.mem.orders[k].filled = 0 /\ Exists(b.mem, k)
  BY <1>0, <1>2, PlainEvGood DEF PreparingEvents
<1> HIDE DEF b
<1>4. /\ Good(c) /\ Beside(b, c) /\ c.mem.orders[k].filled = 0
      /\ c.mem = Apply(b.mem, Ev("BROKER_IO_STARTED", k))
  BY <1>0, <1>3, PlainEvGood DEF PreparingEvents
<1>5. c.mem.orders[k].io_started
  <2> DEFINE e == Ev("BROKER_IO_STARTED", k)
  <2>1. e \in Event /\ e.intent = k /\ e.type = "BROKER_IO_STARTED"
    BY <1>0, NoDecisionType DEF Ev, Event, EventTypes
  <2>2. b.mem \in State
    BY <1>3, GoodType
  <2> HIDE DEF e
  <2>3. Apply(b.mem, e).orders[k].io_started
    BY <1>3, <2>1, <2>2, ApplyStatus
  <2>4. QED
    BY <1>4, <2>3 DEF e
<1> HIDE DEF c
<1>6. Beside(w, c)
  BY <1>2, <1>3, <1>4 DEF Beside
<1>7. Sendable(c, k) /\ c.record = w.record /\ c.run = w.run /\ c.ledger = w.ledger
  BY <1>6, BesideSendable DEF Beside
<1>8. /\ Good(d) /\ d.wire = {k} /\ d.run = c.run /\ d.mem = c.mem
      /\ d.record = c.record /\ OpenExits(d) = OpenExits(c)
  BY <1>4, <1>5, <1>7, LeavesGood
<1> HIDE DEF d, at
<1>9. Good(v) /\ SameBooks(d, v) /\ v.run.at = at /\ v.run.exit = d.run.exit
  BY <1>0, <1>8, GotoGood
<1> HIDE DEF v
<1>10. OpenExits(v) = OpenExits(w)
  BY <1>7, <1>8, <1>9 DEF OpenExits, SameBooks
<1>11. QED
  BY <1>1, <1>4, <1>7, <1>8, <1>9, <1>10 DEF SameBooks, at

LEMMA RefusedGood ==
  ASSUME NEW w, Good(w), NEW k \in Sells, ~Reached(w, k), NEW v \in RefusedLocally(w, k)
  PROVE  Good(v) /\ Beside(w, v)
<1>1. v = Approved(w, k) \/ v = Authorized(w, k)
  BY DEF RefusedLocally
<1>2. QED
  BY <1>1, ApprovedGood, AuthorizedGood

LEMMA SubmittedIsSent ==
  ASSUME NEW w, Good(w), NEW k \in Sells, NEW v \in Submitted(w, k)
  PROVE  v = Sent(w, k) /\ Size[k] =< w.held
<1>1. v = Sent(w, k) /\ Size[k] + Reserved(w, k) =< Free(w)
  BY DEF Submitted
<1>2. QED
  BY <1>1, ReservedType, FreeIsHeld, SellType

\* The reserved stop may be sent.
StopReady(w) ==
  LET s == w.record.pending IN
  /\ s # Nil /\ w.record.active = Nil /\ ~Reached(w, s)
  /\ \A j \in Sells : ~Working(w, j)
  /\ Size[s] >= w.held /\ w.price[s] > 0
  /\ w.held > 0 => w.price[s] = w.record.trail
  /\ OpenExits(w) = {}

LEMMA RecoverOk ==
  ASSUME NEW w, Good(w), w.record.pending # Nil, OpenExits(w) = {}
  PROVE  StepOk(Goto(w, "recover"))
<1> DEFINE v == Goto(w, "recover")
<1>1. "recover" \in Places
  BY DEF Places
<1>2. Good(v) /\ SameBooks(w, v) /\ v.run.at = "recover"
  BY <1>1, GotoGood
<1> HIDE DEF v
<1>3. OpenExits(v) = {} /\ v.record.pending # Nil
  BY <1>2 DEF SameBooks, OpenExits
<1>4. QED
  BY <1>2, <1>3 DEF StepOk, RunOk, Quiet, BetweenExits, Exiting, v

LEMMA PlaceStopOk ==
  ASSUME NEW w, Good(w), StopReady(w), NEW v \in PlaceStop(w)
  PROVE  StepOk(v)
<1> DEFINE s == w.record.pending
<1>1. s \in Stops /\ s \in Sells /\ s \notin Exits
  BY RecordFacts, KindsType DEF StopReady
<1>2. CASE v \in Submitted(w, s)
  <2>1. v = Sent(w, s) /\ Size[s] =< w.held
    BY <1>1, <1>2, SubmittedIsSent
  <2>2. w.held > 0
    BY <1>1, <2>1, SellType, GoodType
  <2>3. Sendable(w, s)
    BY <1>1, <2>1, <2>2 DEF StopReady, Sendable
  <2>4. /\ Good(v) /\ v.mem.orders[s].filled = 0 /\ v.record = w.record
        /\ OpenExits(v) = {} /\ v.run.at = "stopcall"
    BY <1>1, <2>1, <2>3, SentGood DEF StopReady
  <2>5. QED
    BY <2>4 DEF StepOk, RunOk, Quiet, BetweenExits, Exiting, StopReady
<1>3. CASE v \in {Goto(u, "recover") : u \in RefusedLocally(w, s)}
  <2>1. PICK u \in RefusedLocally(w, s) : v = Goto(u, "recover")
    BY <1>3
  <2>2. Good(u) /\ Beside(w, u)
    BY <1>1, <2>1, RefusedGood DEF StopReady
  <2>3. u.record.pending # Nil /\ OpenExits(u) = {}
    BY <2>2 DEF Beside, StopReady, OpenExits
  <2>4. QED
    BY <2>1, <2>2, <2>3, RecoverOk
<1>4. QED
  BY <1>2, <1>3 DEF PlaceStop

\* The exit the run is about may be sent.
ExitReady(w, x) ==
  /\ \A j \in Sells : ~Working(w, j)
  /\ ~Reached(w, x) /\ OpenExits(w) = {x} /\ w.run.exit = x

LEMMA PlaceExitOk ==
  ASSUME NEW w, Good(w), NEW x \in Exits, ExitReady(w, x), NEW v \in PlaceExit(w, x)
  PROVE  StepOk(v)
<1>1. x \in Sells /\ x \notin Stops /\ x # Nil
  BY KindsType
<1>2. CASE v \in Submitted(w, x)
  <2>1. v = Sent(w, x) /\ Size[x] =< w.held
    BY <1>1, <1>2, SubmittedIsSent
  <2>2. Sendable(w, x)
    BY <1>1, <2>1 DEF ExitReady, Sendable
  <2>3. /\ Good(v) /\ v.wire = {x} /\ v.mem.orders[x].filled = 0
        /\ OpenExits(v) = {x} /\ v.run.at = "exitcall" /\ v.run.exit = x
    BY <1>1, <2>1, <2>2, SentGood DEF ExitReady
  <2>4. QED
    BY <1>1, <2>3 DEF StepOk, RunOk, Quiet, BetweenExits, Exiting
<1>3. CASE v \in {Raise(Close(u, x)) : u \in RefusedLocally(w, x)}
  <2>1. PICK u \in RefusedLocally(w, x) : v = Raise(Close(u, x))
    BY <1>3
  <2>2. Good(u) /\ Beside(w, u)
    BY <1>1, <2>1, RefusedGood DEF ExitReady
  <2>3. ~Working(u, x)
    BY <1>1, <2>2 DEF Beside, ExitReady, Working
  <2>4. Good(Close(u, x))
    BY <2>2, <2>3, CloseGood
  <2>5. QED
    BY <2>1, <2>4, RaiseOk
<1>4. QED
  BY <1>2, <1>3 DEF PlaceExit
-----------------------------------------------------------------------------
(* The remaining writes of a run                                           *)

\* _acknowledge_lifecycle_protection writes about the entry.
LEMMA AcknowledgeGood ==
  ASSUME NEW w, Good(w)
  PROVE  LET v == Acknowledge(w) IN Good(v) /\ Beside(w, v)
<1> DEFINE c == Ev("PROTECTIVE_ORDER_CREATED", Entry)
           d == Ev("PROTECTIVE_ORDER_ACKNOWLEDGED", Entry)
           u == Log(w, c)
           v == Log(u, d)
<1>1. c \in Event /\ d \in Event /\ c.intent \notin Sells /\ d.intent \notin Sells
  BY EntryType, NoDecisionType DEF Ev, Event, EventTypes
<1>2. Acknowledge(w) = v \/ Acknowledge(w) = w
  BY DEF Acknowledge
<1> HIDE DEF c, d
<1>3. Good(u) /\ Beside(w, u)
  BY <1>1, LogGood
<1> HIDE DEF u
<1>4. Good(v) /\ Beside(u, v)
  BY <1>1, <1>3, LogGood
<1> HIDE DEF v
<1>5. QED
  BY <1>2, <1>3, <1>4 DEF Beside

LEMMA FactType ==
  ASSUME NEW w, Good(w), NEW k \in Sells, w.venue[k].state # "absent"
  PROVE  LET f == FactOf(w, k) IN
         /\ f.filled \in Nat /\ f.filled = w.venue[k].filled /\ f.status = Status(w, k)
         /\ f.status \in {"open", "partial", "filled", "expired"}
<1>1. /\ Status(w, k) \in {"absent", "open", "partial", "filled", "expired"}
      /\ Status(w, k) # "absent" /\ w.venue[k].filled \in Nat
  BY StatusType
<1>2. QED
  BY <1>1 DEF FactOf

LEMMA BookGood ==
  ASSUME NEW w, Good(w), NEW s \in Sells, w.venue[s].state # "absent"
  PROVE  LET v == Book(w, s) IN Good(v) /\ Beside(w, v)
<1> DEFINE f == FactOf(w, s)
<1>1. f.filled \in Nat /\ f.filled =< w.venue[s].filled
      /\ f.status \in {"open", "partial", "filled", "expired"}
  BY FactType
<1>2. Book(w, s) = RecordReconciledSubmission(w, s, f) \/ Book(w, s) = w
  BY DEF Book
<1> HIDE DEF f
<1>3. LET v == RecordReconciledSubmission(w, s, f) IN Good(v) /\ Beside(w, v)
  BY <1>1, RecordReconciledGood
<1>4. QED
  BY <1>2, <1>3 DEF Beside

LEMMA RequestCancelGood ==
  ASSUME NEW w, Good(w), NEW k \in Sells
  PROVE  LET v == RequestCancel(w, k) IN Good(v) /\ Beside(w, v)
<1>1. LET v == Log(w, Ev("CANCEL_REQUESTED", k)) IN Good(v) /\ Beside(w, v)
  BY SellType, PlainEvGood
<1>2. QED
  BY <1>1 DEF RequestCancel, Beside

LEMMA MaxOfTwo ==
  ASSUME NEW a \in Nat, NEW b \in Nat
  PROVE  LET m == Max({a, b}) IN m \in {a, b} /\ m >= a /\ m >= b
<1>1. \E x \in {a, b} : \A y \in {a, b} : x >= y
  <2>1. CASE a >= b
    BY <2>1
  <2>2. CASE b >= a
    BY <2>2
  <2>3. QED
    BY <2>1, <2>2
<1>2. QED
  BY <1>1 DEF Max

\* The trail only tightens, and the price of every stop stays below it.
LEMMA ObservedGood ==
  ASSUME NEW w, Good(w), w.wire = {}, NEW v \in Observed(w)
  PROVE  Good(v) /\ BesideRecord(w, v) /\ v.record.trail > 0
<1>1. w.record \in Records /\ w.record.trail \in 0 .. MaxLevel /\ Replaces(w, w.record)
      /\ w.price \in Prices
  BY GoodType, RecordFacts
<1>2. LET m == Max({1, w.record.trail}) IN
      m \in Nat /\ m >= 1 /\ m >= w.record.trail
  BY <1>1, MaxOfTwo, KindsType
<1>3. PICK level \in Max({1, w.record.trail}) .. MaxLevel :
        v = Durably(w, [w EXCEPT !.record.trail = level])
  BY DEF Observed
<1> DEFINE r == [w.record EXCEPT !.trail = level]
<1>4. /\ level \in 1 .. MaxLevel /\ level >= w.record.trail
  BY <1>1, <1>2, <1>3, KindsType
<1>5. /\ r \in Records /\ r.trail = level /\ r.active = w.record.active
      /\ r.pending = w.record.pending
  BY <1>1, <1>4 DEF Records
<1>6. v = Durably(w, [w EXCEPT !.record = r])
  BY <1>3
<1> HIDE DEF r
<1>7. Replaces(w, r)
  <2>1. \A s \in Stops : w.price[s] \in Nat
    BY <1>1, KindsType DEF Prices
  <2>2. w.held > 0 => \A s \in Stops : w.price[s] =< level
    BY <1>1, <1>4, <2>1, KindsType DEF Replaces
  <2>3. QED
    BY <1>1, <1>5, <2>2 DEF Replaces
<1>8. Good(v) /\ BesideRecord(w, v) /\ v.record = r
  BY <1>5, <1>6, <1>7, RecordGood
<1>9. QED
  BY <1>4, <1>5, <1>8
\* w with the fresh stop s reserved at a level.
ReservedAs(w, v, s, level) ==
  /\ v.mem = w.mem /\ v.ledger = w.ledger /\ v.venue = w.venue
  /\ v.wire = w.wire /\ v.run = w.run /\ v.held = w.held
  /\ v.record.pending = s /\ v.record.active = w.record.active
  /\ v.record.trail = w.record.trail
  /\ v.price[s] = level /\ \A t \in Stops : t # s => v.price[t] = w.price[t]
  /\ ~Reached(w, s)

\* reserve_protective_order writes the stop and its level at once.
LEMMA ReservationsGood ==
  ASSUME NEW w, Good(w), w.wire = {}, w.record.pending = Nil, NEW quantity,
         NEW level \in 1 .. MaxLevel, w.held > 0 => level =< w.record.trail,
         NEW v \in Reservations(w, quantity, level)
  PROVE  /\ Good(v)
         /\ \E s \in Stops : ReservedAs(w, v, s, level) /\ Size[s] = quantity
<1>1. PICK s \in Stops : /\ w.price[s] = 0 /\ Size[s] = quantity
                         /\ v = Durably(w, [w EXCEPT !.record.pending = s,
                                                     !.price[s] = level])
  BY DEF Reservations
<1> DEFINE r == [w.record EXCEPT !.pending = s]
           p == [w.price EXCEPT ![s] = level]
           next == [w EXCEPT !.record = r, !.price = p]
<1>2. /\ w \in Worlds /\ w.record \in Records /\ w.price \in Prices /\ Safe(w)
      /\ w.held = held
  BY GoodType
<1>3. /\ r \in Records /\ r.pending = s /\ r.active = w.record.active
      /\ r.trail = w.record.trail
  BY <1>2 DEF Records
<1>4. p \in Prices /\ p[s] = level /\ \A t \in Stops : t # s => p[t] = w.price[t]
  BY <1>2, KindsType DEF Prices
<1>5. v = Durably(w, next)
  BY <1>1
<1> HIDE DEF r, p
<1>6. /\ next \in Worlds /\ next.crashes = w.crashes /\ next.mem = w.mem
      /\ next.ledger = w.ledger /\ next.venue = w.venue /\ next.wire = w.wire
      /\ next.run = w.run /\ next.held = w.held /\ next.record = r /\ next.price = p
  BY <1>2, <1>3, <1>4 DEF Worlds
<1> HIDE DEF next
<1>7. ~Reached(w, s)
  BY <1>1, <1>2 DEF Safe, PriceOk
<1>8. Safe(next)
  <2>1. \A k \in Sells : VenueOk(next, k) /\ CoverOk(next, k)
    BY <1>2, <1>6 DEF Safe, VenueOk, CoverOk
  <2>2. OneWorks(next) /\ LedgerOk(next)
    BY <1>2, <1>6 DEF Safe, OneWorks, LedgerOk, Working, Reached
  <2>3. RecordOk(next)
    BY <1>2, <1>3, <1>6, KindsType DEF Safe, RecordOk, Working
  <2>4. PriceOk(next)
    <3>1. level # 0 /\ ~Reached(next, s)
      BY <1>6, <1>7, KindsType DEF Reached
    <3>2. ASSUME NEW t \in Stops
          PROVE  /\ next.price[t] = 0 => ~Reached(next, t)
                 /\ next.held > 0 => next.price[t] =< next.record.trail
      BY <1>2, <1>3, <1>4, <1>6, <3>1 DEF Safe, PriceOk, Reached
    <3>3. QED
      BY <3>2 DEF PriceOk
  <2>5. MemOk(next.mem, next)
    BY <1>2, <1>6 DEF Safe, MemOk, OrderOk, Reached
  <2>6. QED
    BY <2>1, <2>2, <2>3, <2>4, <2>5 DEF Safe
<1>9. Good(v) /\ SameBooks(next, v) /\ v.run = next.run
  BY <1>2, <1>5, <1>6, <1>8, DurablyGood
<1>10. ReservedAs(w, v, s, level)
  BY <1>3, <1>4, <1>6, <1>7, <1>9 DEF SameBooks, ReservedAs
<1>11. QED
  BY <1>1, <1>9, <1>10

\* With the active stop cancelled nothing works any more.
LEMMA HandedOverGood ==
  ASSUME NEW w, Good(w), w.record.active # Nil,
         NEW u \in Confirmed(w, w.record.active)
  PROVE  LET v == HandedOver(u, w.record.active) IN
         /\ Good(v) /\ \A j \in Sells : ~Working(v, j)
         /\ \A j \in Sells : Reached(v, j) <=> Reached(w, j)
         /\ v.record.active = Nil /\ v.record.pending = w.record.pending
         /\ v.record.trail = w.record.trail /\ v.price = w.price
         /\ v.ledger = w.ledger /\ v.run = w.run /\ v.held = w.held
<1> DEFINE s == w.record.active
           c == Log(u, Ev("CANCEL_CONFIRMED", s))
           v == ClearActive(c)
<1>1. s \in Stops /\ s \in Sells
  BY RecordFacts, KindsType
<1>2. w.venue[s].state = "open" /\ u = Cancelled(w, s)
  BY DEF Confirmed
<1>3. HandedOver(u, s) = v
  BY DEF HandedOver
<1>4. Working(w, s)
  BY <1>2 DEF Working
<1> HIDE DEF s
<1>5. Good(u) /\ CancelledIn(w, u, s)
  BY <1>1, <1>2, CancelGood
<1>6. \A j \in Sells : ~Working(u, j)
  BY <1>1, <1>4, <1>5, OneOnly DEF CancelledIn
<1>7. Good(c) /\ Beside(u, c)
  BY <1>1, <1>5, SellType, PlainEvGood
<1> HIDE DEF c
<1>8. c.record.active = s /\ \A j \in Sells : ~Working(c, j)
  BY <1>5, <1>6, <1>7 DEF Beside, CancelledIn, Working, s
<1>9. /\ Good(v) /\ BesideRecord(c, v) /\ v.record.active = Nil
      /\ v.record.pending = c.record.pending /\ v.record.trail = c.record.trail
  BY <1>1, <1>7, <1>8, ClearGood
<1> HIDE DEF v
<1>10. \A j \in Sells : ~Working(v, j) /\ (Reached(v, j) <=> Reached(u, j))
  BY <1>7, <1>8, <1>9 DEF Beside, BesideRecord, Working, Reached
<1>11. \A j \in Sells : Reached(u, j) <=> Reached(w, j)
  BY <1>5 DEF CancelledIn
<1>12. /\ v.record.pending = w.record.pending /\ v.record.trail = w.record.trail
       /\ v.price = w.price /\ v.ledger = w.ledger /\ v.run = w.run /\ v.held = w.held
  BY <1>5, <1>7, <1>9 DEF Beside, BesideRecord, CancelledIn
<1>13. QED
  BY <1>3, <1>9, <1>10, <1>11, <1>12 DEF s
-----------------------------------------------------------------------------
(* ensure_protective_stop                                                  *)

LEMMA NothingWorks ==
  ASSUME NEW w, Good(w), w.wire = {}, OpenExits(w) = {},
         \A s \in Stops : w.venue[s].state # "open"
  PROVE  \A j \in Sells : ~Working(w, j)
<1>1. \A x \in Exits : ~Working(w, x)
  BY GoodType DEF Safe, LedgerOk, OpenExits
<1>2. \A s \in Stops : ~Working(w, s)
  BY DEF Working
<1>3. QED
  BY <1>1, <1>2, KindsType

\* The stop just reserved waits for the active one to be cancelled.
Replaceable(w) ==
  LET s == w.record.pending IN
  /\ w.wire = {} /\ OpenExits(w) = {}
  /\ w.record.active = Nil => \A t \in Stops : w.venue[t].state # "open"
  /\ s # Nil /\ ~Reached(w, s) /\ Size[s] >= w.held /\ w.price[s] > 0
  /\ w.held > 0 => w.price[s] = w.record.trail

LEMMA ReplaceStopOk ==
  ASSUME NEW w, Good(w), Replaceable(w), NEW v \in ReplaceStop(w)
  PROVE  StepOk(v)
<1>1. CASE w.record.active = Nil
  <2>1. v \in PlaceStop(w)
    BY <1>1 DEF ReplaceStop
  <2>2. \A j \in Sells : ~Working(w, j)
    BY <1>1, NothingWorks DEF Replaceable
  <2>3. StopReady(w)
    BY <1>1, <2>2 DEF Replaceable, StopReady
  <2>4. QED
    BY <2>1, <2>3, PlaceStopOk
<1>2. CASE w.record.active # Nil /\ Cancellable(w, w.record.active)
  <2> DEFINE u == RequestCancel(w, w.record.active)
             g == Goto(u, "cancel")
  <2>1. v = g
    BY <1>2 DEF ReplaceStop
  <2>2. w.record.active \in Sells
    BY <1>2, RecordFacts, KindsType
  <2>3. Good(u) /\ Beside(w, u)
    BY <2>2, RequestCancelGood
  <2> HIDE DEF u
  <2>4. "cancel" \in Places
    BY DEF Places
  <2>5. Good(g) /\ SameBooks(u, g) /\ g.run.at = "cancel"
    BY <2>3, <2>4, GotoGood
  <2> HIDE DEF g
  <2>6. /\ g.record = w.record /\ g.price = w.price /\ g.held = w.held /\ g.wire = {}
        /\ OpenExits(g) = {} /\ ~Reached(g, w.record.pending)
    BY <2>3, <2>5 DEF Beside, SameBooks, OpenExits, Reached, Replaceable
  <2>7. RunOk(g)
    BY <1>2, <2>5, <2>6 DEF RunOk, Quiet, BetweenExits, Exiting, Replaceable
  <2>8. QED
    BY <2>1, <2>5, <2>7 DEF StepOk
<1>3. CASE w.record.active # Nil /\ ~Cancellable(w, w.record.active)
  <2>1. v = Goto(w, "recover")
    BY <1>3 DEF ReplaceStop
  <2>2. QED
    BY <2>1, RecoverOk DEF Replaceable
<1>4. QED
  BY <1>1, <1>2, <1>3

\* Under the trail, or as tight as the stop that is replaced.
LEMMA DesiredLevelOk ==
  ASSUME NEW w, Good(w), w.record.trail > 0
  PROVE  /\ DesiredLevel(w) \in 1 .. MaxLevel
         /\ w.held > 0 => DesiredLevel(w) = w.record.trail
<1>1. /\ w.record.trail \in 1 .. MaxLevel /\ w.price \in Prices
      /\ w.record.active \in Stops \cup {Nil} /\ MaxLevel \in Nat
      /\ w.held > 0 => \A s \in Stops : w.price[s] =< w.record.trail
  BY RecordFacts, KindsType DEF Replaces
<1>2. CASE w.record.active = Nil
  BY <1>1, <1>2 DEF DesiredLevel
<1>3. CASE w.record.active # Nil
  <2> DEFINE p == w.price[w.record.active]
  <2>1. p \in 0 .. MaxLevel /\ (w.held > 0 => p =< w.record.trail)
    BY <1>1, <1>3 DEF Prices
  <2>2. DesiredLevel(w) = Max({w.record.trail, p})
    BY <1>3 DEF DesiredLevel
  <2> HIDE DEF p
  <2>3. /\ Max({w.record.trail, p}) \in {w.record.trail, p}
        /\ Max({w.record.trail, p}) >= w.record.trail /\ Max({w.record.trail, p}) >= p
    BY <1>1, <2>1, MaxOfTwo
  <2>4. QED
    BY <1>1, <2>1, <2>2, <2>3
<1>4. QED
  BY <1>2, <1>3

LEMMA EnsuredOk ==
  ASSUME NEW w0, StepOk(w0), w0.run.at = "ensure", NEW v \in Ensured(w0)
  PROVE  StepOk(v)
<1> DEFINE r == ReconcileProtectiveStop(w0)
           w == r.world
           s == w.record.active
           level == DesiredLevel(w)
           next(u) == [u EXCEPT !.run.seen = 0]
<1>1. /\ Good(w0) /\ w0.wire = {} /\ OpenExits(w0) = {} /\ w0.run.seen >= w0.held
      /\ w0.record.trail > 0
  BY DEF StepOk, RunOk, Quiet, BetweenExits
<1>2. SettledStop(w0, r)
  BY <1>1, ReconcileStopGood
<1>3. Ensured(w0) =
        IF r.raises THEN {Raise(w)}
        ELSE IF s # Nil /\ TightEnough(w, s) /\ Size[s] = w.run.seen
             THEN {Protected(Acknowledge(w))}
        ELSE IF w.record.pending # Nil THEN {Raise(w)}
        ELSE UNION {ReplaceStop(next(u)) : u \in Reservations(w, w.run.seen, level)}
  BY DEF Ensured
<1> HIDE DEF r
<1>4. /\ Good(w) /\ BesideRecord(w0, w) /\ w.record.trail = w0.record.trail
      /\ w.wire = {} /\ w.run = w0.run /\ w.held = w0.held /\ OpenExits(w) = {}
  BY <1>1, <1>2 DEF SettledStop, BesideRecord, OpenExits
<1>5. ~r.raises => IF s = Nil THEN \A t \in Stops : w.venue[t].state # "open"
                   ELSE w.venue[s].state = "open"
  BY <1>2 DEF SettledStop, BesideRecord
<1>6. level \in 1 .. MaxLevel /\ (w.held > 0 => level = w.record.trail)
  BY <1>1, <1>4, DesiredLevelOk
<1> HIDE DEF w, s, level, next
<1>7. CASE v = Raise(w)
  BY <1>4, <1>7, RaiseOk
<1>8. CASE s # Nil /\ Size[s] = w.run.seen /\ v = Protected(Acknowledge(w))
  <2>1. Good(Acknowledge(w)) /\ Beside(w, Acknowledge(w))
    BY <1>4, AcknowledgeGood
  <2>2. Covered(Acknowledge(w))
    BY <1>1, <1>4, <1>8, <2>1 DEF Covered, Beside, s
  <2>3. QED
    BY <1>8, <2>1, <2>2, ProtectedOk
<1>9. CASE /\ ~r.raises /\ w.record.pending = Nil
           /\ v \in UNION {ReplaceStop(next(u)) : u \in Reservations(w, w.run.seen, level)}
  <2>1. PICK u \in Reservations(w, w.run.seen, level) : v \in ReplaceStop(next(u))
    BY <1>9
  <2>2. level =< w.record.trail \/ ~(w.held > 0)
    BY <1>4, <1>6, RecordFacts
  <2>3. /\ Good(u)
        /\ \E p \in Stops : ReservedAs(w, u, p, level) /\ Size[p] = w.run.seen
    BY <1>4, <1>6, <1>9, <2>1, <2>2, ReservationsGood
  <2>4. PICK p \in Stops : ReservedAs(w, u, p, level) /\ Size[p] = w.run.seen
    BY <2>3
  <2> DEFINE q == [u.run EXCEPT !.seen = 0]
  <2>5. q \in Runs /\ next(u) = [u EXCEPT !.run = q]
    BY <2>3, GoodType DEF Runs, Worlds, next
  <2> HIDE DEF q
  <2>6. Good(next(u)) /\ SameBooks(u, next(u))
    BY <2>3, <2>5, RunGood
  <2>7. /\ p # Nil /\ u.record.pending = p /\ u.record.active = s /\ u.price[p] = level
        /\ ~Reached(u, p) /\ u.wire = {} /\ u.held = w.held /\ u.venue = w.venue
        /\ u.record.trail = w.record.trail /\ OpenExits(u) = {}
    BY <1>4, <2>4, KindsType DEF ReservedAs, OpenExits, Reached, s
  <2>8. Replaceable(u)
    BY <1>1, <1>4, <1>5, <1>6, <1>9, <2>4, <2>7, KindsType DEF Replaceable
  <2>9. Replaceable(next(u))
    BY <2>6, <2>8 DEF Replaceable, SameBooks, OpenExits, Reached
  <2>10. QED
    BY <2>1, <2>6, <2>9, ReplaceStopOk
<1>10. QED
  BY <1>3, <1>7, <1>8, <1>9
LEMMA UnconfirmedGood ==
  ASSUME NEW w, Good(w), NEW k \in Sells, NEW u \in Unconfirmed(w, k)
  PROVE  /\ Good(u) /\ u.mem = w.mem /\ u.record = w.record /\ u.ledger = w.ledger
         /\ u.price = w.price /\ u.wire = w.wire /\ u.run = w.run /\ u.held = w.held
         /\ OpenExits(u) = OpenExits(w)
         /\ \A j \in Sells : (Reached(u, j) <=> Reached(w, j))
         /\ \A j \in Sells : Working(u, j) => Working(w, j)
<1>1. u = w \/ (w.venue[k].state = "open" /\ u = Cancelled(w, k))
  BY DEF Unconfirmed, Confirmed
<1>2. CASE u = w
  BY <1>2
<1>3. CASE w.venue[k].state = "open" /\ u = Cancelled(w, k)
  <2>1. Good(u) /\ CancelledIn(w, u, k)
    BY <1>3, CancelGood
  <2>2. QED
    BY <2>1 DEF CancelledIn, OpenExits
<1>4. QED
  BY <1>1, <1>2, <1>3

LEMMA StopCancelledOk ==
  ASSUME NEW w, StepOk(w), w.run.at = "cancel", NEW v \in StopCancelled(w)
  PROVE  StepOk(v)
<1> DEFINE a == w.record.active
           s == w.record.pending
<1>1. /\ Good(w) /\ w.wire = {} /\ OpenExits(w) = {} /\ a # Nil /\ s # Nil
      /\ ~Reached(w, s) /\ Size[s] >= w.held /\ w.price[s] > 0
      /\ w.held > 0 => w.price[s] = w.record.trail
  BY DEF StepOk, RunOk, Quiet, BetweenExits
<1>2. a \in Sells /\ s \in Sells
  BY <1>1, RecordFacts, KindsType
<1>3. CASE v \in UNION {PlaceStop(HandedOver(u, a)) : u \in Confirmed(w, a)}
  <2>1. PICK u \in Confirmed(w, a) : v \in PlaceStop(HandedOver(u, a))
    BY <1>3
  <2> DEFINE h == HandedOver(u, a)
  <2>2. /\ Good(h) /\ \A j \in Sells : ~Working(h, j)
        /\ \A j \in Sells : Reached(h, j) <=> Reached(w, j)
        /\ h.record.active = Nil /\ h.record.pending = s
        /\ h.record.trail = w.record.trail /\ h.price = w.price
        /\ h.ledger = w.ledger /\ h.held = w.held
    BY <1>1, HandedOverGood
  <2> HIDE DEF h, a, s
  <2>3. OpenExits(h) = {}
    BY <1>1, <2>2 DEF OpenExits
  <2>4. StopReady(h)
    BY <1>1, <1>2, <2>2, <2>3 DEF StopReady
  <2>5. QED
    BY <2>1, <2>2, <2>4, PlaceStopOk DEF h
<1>4. CASE v \in {Goto(u, "recover") : u \in Unconfirmed(w, a)}
  <2>1. PICK u \in Unconfirmed(w, a) : v = Goto(u, "recover")
    BY <1>4
  <2>2. Good(u) /\ u.record = w.record /\ OpenExits(u) = {}
    BY <1>1, <1>2, <2>1, UnconfirmedGood
  <2>3. QED
    BY <1>1, <2>1, <2>2, RecoverOk
<1>5. QED
  BY <1>3, <1>4 DEF StopCancelled

\* A resting stop is for all that is held.
LEMMA OpenStopCovers ==
  ASSUME NEW w, Good(w), w.record.active # Nil, w.venue[w.record.active].state = "open"
  PROVE  Covered(w)
<1> DEFINE s == w.record.active
<1>1. s \in Stops /\ s \in Sells /\ Size[s] \in Nat /\ w.held \in Nat
  BY GoodType, RecordFacts, KindsType, SellType
<1>2. w.venue[s].filled \in Nat /\ CoverOk(w, s)
  BY <1>1, GoodType, StatusType DEF Safe
<1>3. Size[s] >= w.held
  BY <1>1, <1>2 DEF CoverOk
<1>4. QED
  BY <1>3 DEF Covered

LEMMA BesideCovered ==
  ASSUME NEW w, NEW v, Beside(w, v), Covered(w)
  PROVE  Covered(v)
  BY DEF Beside, Covered

LEMMA StopAnsweredOk ==
  ASSUME NEW w, StepOk(w), w.run.at = "stopcall",
         w.venue[w.record.pending].state # "absent"
  PROVE  StepOk(StopAnswered(w))
<1> DEFINE s == w.record.pending
           f == FactOf(w, s)
           v == RecordBrokerFact(w, s, f)
           a == ActivatePending(v)
           k == Acknowledge(a)
<1>1. Good(w) /\ w.record.active = Nil /\ s # Nil /\ w.mem.orders[s].filled = 0
  BY DEF StepOk, RunOk
<1>2. s \in Sells
  BY <1>1, RecordFacts, KindsType
<1>3. /\ f.filled \in Nat /\ f.filled = w.venue[s].filled
      /\ f.status \in {"open", "partial", "filled", "expired"}
  BY <1>1, <1>2, FactType
<1>4. StopAnswered(w) = IF Status(w, s) = "open" THEN Protected(k) ELSE Raise(v)
  BY DEF StopAnswered
<1> HIDE DEF s, f
<1>5. Good(v) /\ Beside(w, v)
  BY <1>1, <1>2, <1>3, BrokerFactGood
<1> HIDE DEF v
<1>6. CASE Status(w, s) = "open"
  <2>1. w.venue[s].state = "open"
    BY <1>1, <1>2, <1>6, StatusType
  <2>2. v.record.active = Nil /\ v.record.pending = s /\ v.venue[s].state = "open"
    BY <1>1, <1>5, <2>1 DEF Beside, s
  <2>3. Good(a) /\ BesideRecord(v, a) /\ a.record.active = s
    BY <1>1, <1>5, <2>2, ActivateGood
  <2> HIDE DEF a
  <2>4. Covered(a)
    BY <1>1, <2>2, <2>3, OpenStopCovers DEF BesideRecord
  <2>5. Good(k) /\ Covered(k)
    BY <2>3, <2>4, AcknowledgeGood, BesideCovered
  <2>6. QED
    BY <1>4, <1>6, <2>5, ProtectedOk
<1>7. CASE Status(w, s) # "open"
  BY <1>4, <1>5, <1>7, RaiseOk
<1>8. QED
  BY <1>6, <1>7

LEMMA StopCallFailsOk ==
  ASSUME NEW w, StepOk(w), w.run.at = "stopcall"
  PROVE  StepOk(Goto(RecordUnknown(w, w.record.pending), "recover"))
<1> DEFINE s == w.record.pending
           v == RecordUnknown(w, s)
<1>1. Good(w) /\ s # Nil /\ w.mem.orders[s].filled = 0 /\ OpenExits(w) = {}
  BY DEF StepOk, RunOk, BetweenExits
<1>2. s \in Sells
  BY <1>1, RecordFacts, KindsType
<1>3. Good(v) /\ Beside(w, v)
  BY <1>1, <1>2, OutcomeUnknownGood
<1> HIDE DEF v
<1>4. v.record.pending # Nil /\ OpenExits(v) = {}
  BY <1>1, <1>3 DEF Beside, OpenExits
<1>5. QED
  BY <1>3, <1>4, RecoverOk DEF v

LEMMA RecoveredOk ==
  ASSUME NEW w, StepOk(w)
  PROVE  StepOk(Recovered(w))
<1> DEFINE r == ReconcileProtectiveStop(w)
           u == r.world
           s == u.record.active
           f == [status |-> "open", filled |-> 0]
           v == RecordReconciledSubmission(u, s, f)
<1>1. SettledStop(w, r)
  BY ReconcileStopGood DEF StepOk
<1>2. Recovered(w) = IF ~r.raises /\ s # Nil /\ s = w.record.pending
                     THEN Protected(Acknowledge(v)) ELSE Raise(u)
  BY DEF Recovered
<1> HIDE DEF r
<1>3. Good(u) /\ (~r.raises /\ s # Nil => u.venue[s].state = "open")
  BY <1>1 DEF SettledStop, BesideRecord
<1>4. CASE ~r.raises /\ s # Nil
  <2>1. Covered(u)
    BY <1>3, <1>4, OpenStopCovers
  <2>2. s \in Sells
    BY <1>3, <1>4, RecordFacts, KindsType
  <2>3. f.status = "open" /\ f.filled = 0 /\ u.venue[s].filled \in Nat
    BY <1>3, <2>2, StatusType
  <2> HIDE DEF u, f, s
  <2>4. Good(v) /\ Beside(u, v)
    BY <1>3, <2>2, <2>3, RecordReconciledGood
  <2> HIDE DEF v
  <2>5. Good(Acknowledge(v)) /\ Covered(Acknowledge(v))
    BY <2>1, <2>4, AcknowledgeGood, BesideCovered
  <2>6. QED
    BY <1>2, <1>3, <2>5, ProtectedOk, RaiseOk
<1>5. QED
  BY <1>2, <1>3, <1>4, RaiseOk

LEMMA HeldBackOk ==
  ASSUME NEW w, StepOk(w)
  PROVE  StepOk(HeldBack(w))
<1> DEFINE r == ReconcileProtectiveStop(w)
           u == r.world
<1>1. SettledStop(w, r)
  BY ReconcileStopGood DEF StepOk
<1>2. HeldBack(w) = IF r.raises \/ u.record.active = Nil THEN Raise(u)
                    ELSE Protected(Acknowledge(u))
  BY DEF HeldBack
<1> HIDE DEF r
<1>3. /\ Good(u)
      /\ ~r.raises /\ u.record.active # Nil => u.venue[u.record.active].state = "open"
  BY <1>1 DEF SettledStop, BesideRecord
<1> HIDE DEF u
<1>4. CASE ~r.raises /\ u.record.active # Nil
  <2>1. Covered(u)
    BY <1>3, <1>4, OpenStopCovers
  <2>2. Good(Acknowledge(u)) /\ Covered(Acknowledge(u))
    BY <1>3, <2>1, AcknowledgeGood, BesideCovered
  <2>3. QED
    BY <1>2, <1>4, <2>2, ProtectedOk
<1>5. QED
  BY <1>2, <1>3, <1>4, RaiseOk

\* With nothing held every stop that fired is booked and the record dropped.
LEMMA CleanedUpOk ==
  ASSUME NEW w, StepOk(w), w.run.at = "cleanup"
  PROVE  StepOk(CleanedUp(w))
<1> DEFINE Booked(u, s) == IF Status(u, s) = "filled" THEN Book(u, s) ELSE u
           a == Booked(w, w.record.pending)
           b == Booked(a, w.record.active)
           c == ClearPositionRisk(b)
<1>1. Good(w) /\ w.held = 0 /\ w.wire = {}
  BY DEF StepOk, RunOk, Quiet
<1>2. CleanedUp(w) = Complete(c)
  BY DEF CleanedUp
<1>3. ASSUME NEW u, Good(u), NEW s \in Stops \cup {Nil}
      PROVE  Good(Booked(u, s)) /\ Beside(u, Booked(u, s))
  <2>1. CASE Status(u, s) = "filled"
    <3>1. s \in Sells
      BY <1>3, <2>1, NilStatus, KindsType
    <3>2. u.venue[s].state # "absent"
      BY <1>3, <2>1, <3>1, StatusType
    <3>3. QED
      BY <1>3, <2>1, <3>1, <3>2, BookGood
  <2>2. CASE Status(u, s) # "filled"
    BY <1>3, <2>2 DEF Beside
  <2>3. QED
    BY <2>1, <2>2
<1>4. w.record.active \in Stops \cup {Nil} /\ w.record.pending \in Stops \cup {Nil}
  BY <1>1, RecordFacts
<1> HIDE DEF Booked
<1>5. Good(a) /\ Beside(w, a)
  BY <1>1, <1>3, <1>4
<1> HIDE DEF a
<1>6. Good(b) /\ Beside(a, b)
  BY <1>3, <1>4, <1>5
<1> HIDE DEF b
<1>7. b.held = 0 /\ b.wire = {}
  BY <1>1, <1>5, <1>6 DEF Beside
<1>8. Good(c) /\ BesideRecord(b, c)
  BY <1>6, <1>7, ClearRiskGood
<1> HIDE DEF c
<1>9. Covered(c)
  BY <1>7, <1>8 DEF BesideRecord, Covered
<1>10. QED
  BY <1>2, <1>8, <1>9, CompleteOk
-----------------------------------------------------------------------------
(* execute_orders                                                          *)

LEMMA UnreachedRests ==
  ASSUME NEW w, NEW k, ~Reached(w, k)
  PROVE  ~Working(w, k)
  BY DEF Reached, Working

LEMMA GiveUpExit ==
  ASSUME NEW w, Good(w), NEW x \in Exits, ~Working(w, x)
  PROVE  StepOk(Raise(Close(w, x)))
  BY CloseGood, RaiseOk

LEMMA KeepExit ==
  ASSUME NEW w, Good(w), NEW x \in Exits, OpenExits(w) \subseteq {x}
  PROVE  StepOk(Raise(Unfinished(w, x)))
  BY UnfinishedGood, RaiseOk

LEMMA ExitBegunOk ==
  ASSUME NEW w0, StepOk(w0), w0.run.at = "exit", NEW v \in ExitBegun(w0, w0.run.exit)
  PROVE  StepOk(v)
<1> DEFINE x == w0.run.exit
           r == ReconcileProtectiveStop(w0)
           u == r.world
           w == Unfinished(u, x)
           s == w.record.active
<1>1. /\ Good(w0) /\ w0.wire = {} /\ OpenExits(w0) = {} /\ x # Nil
      /\ w0.ledger[x] = "none"
  BY DEF StepOk, RunOk, Quiet, BetweenExits
<1>2. x \in Exits /\ x \in Sells
  BY <1>1, GoodType, KindsType DEF Runs
<1>3. ~Reached(w0, x)
  BY <1>1, <1>2, GoodType DEF Safe, LedgerOk
<1>4. SettledStop(w0, r)
  BY <1>1, ReconcileStopGood
<1>5. ExitBegun(w0, x) =
        IF r.raises \/ Size[x] > Capacity(u) THEN {Raise(u)}
        ELSE IF s = Nil THEN PlaceExit(w, x)
        ELSE IF Cancellable(w, s) THEN {Goto(RequestCancel(w, s), "handover")}
        ELSE {Raise(Close(w, x))}
  BY DEF ExitBegun
<1> HIDE DEF r
<1>6. /\ Good(u) /\ u.wire = {} /\ OpenExits(u) = {} /\ ~Reached(u, x) /\ u.run = w0.run
      /\ ~r.raises /\ u.record.active = Nil => \A t \in Stops : u.venue[t].state # "open"
  BY <1>1, <1>3, <1>4 DEF SettledStop, BesideRecord, OpenExits, Reached
<1> HIDE DEF u
<1>7. Good(w) /\ BesideLedger(u, w) /\ OpenExits(w) = {x}
  BY <1>2, <1>6, UnfinishedGood
<1> HIDE DEF w
<1>8. /\ w.wire = {} /\ w.run.exit = x /\ ~Reached(w, x) /\ s = u.record.active
  BY <1>6, <1>7 DEF BesideLedger, Reached
<1> HIDE DEF x
<1>9. CASE v = Raise(u)
  BY <1>6, <1>9, RaiseOk
<1>10. CASE ~r.raises /\ s = Nil /\ v \in PlaceExit(w, x)
  <2>1. \A j \in Sells : ~Working(u, j)
    BY <1>6, <1>8, <1>10, NothingWorks
  <2>2. \A j \in Sells : ~Working(w, j)
    BY <1>7, <2>1 DEF BesideLedger, Working
  <2>3. ExitReady(w, x)
    BY <1>7, <1>8, <2>2 DEF ExitReady
  <2>4. QED
    BY <1>2, <1>7, <1>10, <2>3, PlaceExitOk
<1>11. CASE s # Nil /\ v = Goto(RequestCancel(w, s), "handover")
  <2> DEFINE c == RequestCancel(w, s)
             g == Goto(c, "handover")
  <2>1. s \in Sells
    BY <1>7, <1>11, RecordFacts, KindsType
  <2>2. Good(c) /\ Beside(w, c)
    BY <1>7, <2>1, RequestCancelGood
  <2> HIDE DEF c
  <2>3. Good(g) /\ SameBooks(c, g) /\ g.run.at = "handover" /\ g.run.exit = c.run.exit
    <3>1. "handover" \in Places
      BY DEF Places
    <3>2. QED
      BY <2>2, <3>1, GotoGood
  <2> HIDE DEF g
  <2>4. /\ g.run.exit = x /\ g.wire = {} /\ OpenExits(g) = {x} /\ g.record.active # Nil
        /\ ~Reached(g, x)
    BY <1>7, <1>8, <1>11, <2>2, <2>3 DEF Beside, SameBooks, OpenExits, Reached
  <2>5. RunOk(g)
    BY <1>1, <2>3, <2>4 DEF RunOk, Quiet, BetweenExits, Exiting, x
  <2>6. QED
    BY <1>11, <2>3, <2>5 DEF StepOk, g, c
<1>12. CASE v = Raise(Close(w, x))
  BY <1>2, <1>7, <1>8, <1>12, UnreachedRests, GiveUpExit
<1>13. QED
  BY <1>5, <1>9, <1>10, <1>11, <1>12 DEF x

LEMMA HandedToExitOk ==
  ASSUME NEW w, StepOk(w), w.run.at = "handover", NEW v \in HandedToExit(w, w.run.exit)
  PROVE  StepOk(v)
<1> DEFINE x == w.run.exit
           a == w.record.active
<1>1. /\ Good(w) /\ w.wire = {} /\ OpenExits(w) = {x} /\ x # Nil /\ a # Nil
      /\ ~Reached(w, x)
  BY DEF StepOk, RunOk, Quiet, Exiting
<1>2. x \in Exits /\ x \in Sells /\ a \in Sells
  BY <1>1, GoodType, RecordFacts, KindsType DEF Runs
<1>3. CASE v \in UNION {PlaceExit(HandedOver(u, a), x) : u \in Confirmed(w, a)}
  <2>1. PICK u \in Confirmed(w, a) : v \in PlaceExit(HandedOver(u, a), x)
    BY <1>3
  <2> DEFINE h == HandedOver(u, a)
  <2>2. /\ Good(h) /\ \A j \in Sells : ~Working(h, j)
        /\ \A j \in Sells : Reached(h, j) <=> Reached(w, j)
        /\ h.ledger = w.ledger /\ h.run = w.run
    BY <1>1, HandedOverGood
  <2> HIDE DEF h
  <2>3. ExitReady(h, x)
    BY <1>1, <1>2, <2>2 DEF ExitReady, OpenExits
  <2>4. QED
    BY <1>2, <2>1, <2>2, <2>3, PlaceExitOk DEF h
<1>4. CASE v \in {Goto(u, "stopcheck") : u \in Unconfirmed(w, a)}
  <2>1. PICK u \in Unconfirmed(w, a) : v = Goto(u, "stopcheck")
    BY <1>4
  <2>2. /\ Good(u) /\ u.record = w.record /\ OpenExits(u) = {x} /\ u.wire = {}
        /\ u.run = w.run /\ ~Reached(u, x)
    BY <1>1, <1>2, <2>1, UnconfirmedGood
  <2>3. Good(v) /\ SameBooks(u, v) /\ v.run.at = "stopcheck" /\ v.run.exit = u.run.exit
    <3>1. "stopcheck" \in Places
      BY DEF Places
    <3>2. Good(u)
      BY <2>2
    <3>3. LET g == Goto(u, "stopcheck") IN
          Good(g) /\ SameBooks(u, g) /\ g.run.at = "stopcheck" /\ g.run.exit = u.run.exit
      BY <3>1, <3>2, GotoGood
    <3>4. QED
      BY <2>1, <3>3
  <2>4. /\ v.run.exit = x /\ v.wire = {} /\ OpenExits(v) = {x} /\ v.record.active # Nil
        /\ ~Reached(v, x)
    BY <1>1, <2>2, <2>3 DEF SameBooks, OpenExits, Reached
  <2> HIDE DEF x
  <2>5. RunOk(v)
    BY <1>1, <2>3, <2>4 DEF RunOk, Quiet, BetweenExits, Exiting
  <2>6. QED
    BY <2>3, <2>5 DEF StepOk
<1>5. QED
  BY <1>3, <1>4 DEF HandedToExit

\* A stop that fired while an exit was cancelling it sold all that was held.
LEMMA FilledStopEnds ==
  ASSUME NEW w, Good(w), NEW s \in Stops, w.venue[s].state = "filled"
  PROVE  w.held = 0
  BY GoodType, KindsType DEF Safe, CoverOk

LEMMA StopCheckedOk ==
  ASSUME NEW w, StepOk(w), w.run.at = "stopcheck"
  PROVE  StepOk(StopChecked(w, w.run.exit))
<1> DEFINE x == w.run.exit
           s == w.record.active
           b == Book(w, s)
           c == ClearPositionRisk(b)
           d == Close(c, x)
<1>1. /\ Good(w) /\ w.wire = {} /\ OpenExits(w) = {x} /\ x # Nil /\ s # Nil
      /\ ~Reached(w, x)
  BY DEF StepOk, RunOk, Quiet, Exiting
<1>2. x \in Exits /\ s \in Sells /\ s \in Stops
  BY <1>1, GoodType, RecordFacts, KindsType DEF Runs
<1>3. StopChecked(w, x) = IF Status(w, s) = "filled" THEN Complete(d)
                          ELSE Raise(Close(w, x))
  BY DEF StopChecked
<1> HIDE DEF x, s
<1>4. CASE Status(w, s) = "filled"
  <2>1. w.venue[s].state = "filled"
    BY <1>1, <1>2, <1>4, StatusType
  <2>2. w.held = 0
    BY <1>1, <1>2, <2>1, FilledStopEnds
  <2>3. Good(b) /\ Beside(w, b)
    BY <1>1, <1>2, <2>1, BookGood
  <2> HIDE DEF b
  <2>4. b.held = 0 /\ b.wire = {} /\ ~Reached(b, x)
    BY <1>1, <2>2, <2>3 DEF Beside, Reached
  <2>5. Good(c) /\ BesideRecord(b, c)
    BY <2>3, <2>4, ClearRiskGood
  <2> HIDE DEF c
  <2>6. c.held = 0 /\ ~Working(c, x)
    BY <2>4, <2>5 DEF BesideRecord, Reached, Working
  <2>7. Good(d) /\ BesideLedger(c, d)
    BY <1>2, <2>5, <2>6, CloseGood
  <2> HIDE DEF d
  <2>8. Covered(d)
    BY <2>6, <2>7 DEF BesideLedger, Covered
  <2>9. QED
    BY <1>3, <1>4, <2>7, <2>8, CompleteOk DEF x
<1>5. CASE Status(w, s) # "filled"
  BY <1>1, <1>2, <1>3, <1>5, UnreachedRests, GiveUpExit DEF x
<1>6. QED
  BY <1>4, <1>5
LEMMA PersistedGood ==
  ASSUME NEW w, Good(w), NEW x \in Exits, OpenExits(w) = {x}
  PROVE  LET v == Persisted(w, x) IN
         /\ Good(v) /\ BesideLedger(w, v)
         /\ OpenExits(v) = IF Status(w, x) \in {"filled", "expired"} THEN {} ELSE {x}
<1>1. CASE Status(w, x) \in {"filled", "expired"}
  <2>1. x \in Sells
    BY KindsType
  <2>2. w.venue[x].state \notin {"open", "absent"}
    BY <1>1, <2>1, StatusType
  <2>3. ~Working(w, x)
    BY <2>1, <2>2, WireIsAbsent DEF Working
  <2>4. QED
    BY <1>1, <2>3, CloseGood DEF Persisted
<1>2. CASE Status(w, x) \notin {"filled", "expired"}
  BY <1>2, UnfinishedGood DEF Persisted
<1>3. QED
  BY <1>1, <1>2

\* A request on its way is a stop's or that of an unfinished exit.
LEMMA WireEmpties ==
  ASSUME NEW w, Good(w), w.wire \cap Stops = {}, OpenExits(w) = {}
  PROVE  w.wire = {}
<1>1. \A x \in Exits : ~Working(w, x)
  BY GoodType DEF Safe, LedgerOk, OpenExits
<1>2. w.wire \subseteq Sells
  BY GoodType
<1>3. QED
  BY <1>1, <1>2, KindsType DEF Working

LEMMA ToProtectOk ==
  ASSUME NEW w, Good(w), w.wire = {}, OpenExits(w) = {}, NEW raises \in BOOLEAN
  PROVE  StepOk([Goto(w, "protect") EXCEPT !.run.raises = raises])
<1> DEFINE u == Goto(w, "protect")
           r == [u.run EXCEPT !.raises = raises]
           v == [u EXCEPT !.run = r]
<1>1. "protect" \in Places
  BY DEF Places
<1>2. Good(u) /\ SameBooks(w, u) /\ u.run.at = "protect"
  BY <1>1, GotoGood
<1> HIDE DEF u
<1>3. r \in Runs /\ r.at = "protect"
  BY <1>2, GoodType DEF Runs
<1>4. [u EXCEPT !.run.raises = raises] = v
  BY <1>2, GoodType DEF Worlds
<1> HIDE DEF r
<1>5. Good(v) /\ SameBooks(u, v) /\ v.run = r
  BY <1>2, <1>3, RunGood
<1> HIDE DEF v
<1>6. v.wire = {} /\ OpenExits(v) = {}
  BY <1>2, <1>5 DEF SameBooks, OpenExits
<1>7. RunOk(v)
  BY <1>3, <1>5, <1>6 DEF RunOk, Quiet, BetweenExits, Exiting
<1>8. QED
  BY <1>4, <1>5, <1>7 DEF StepOk, u

\* Where the run deals with the exit x, and no stop is on its way.
AtExit(w, x) ==
  /\ x # Nil /\ w.run.exit = x /\ OpenExits(w) = {x} /\ w.wire \cap Stops = {}

LEMMA ExitCallOk ==
  ASSUME NEW w, StepOk(w), w.run.at \in {"exitcall", "poll", "residual"}
  PROVE  LET x == w.run.exit IN
         /\ Good(w) /\ AtExit(w, x) /\ x \in Exits /\ x \in Sells
         /\ w.run.at = "exitcall" => w.mem.orders[x].filled = 0
<1> DEFINE x == w.run.exit
<1>1. /\ Good(w) /\ AtExit(w, x)
      /\ w.run.at = "exitcall" => w.mem.orders[x].filled = 0
  BY DEF StepOk, RunOk, Exiting, AtExit
<1>2. x \in Exits /\ x \in Sells
  BY <1>1, GoodType, KindsType DEF Runs, AtExit
<1>3. QED
  BY <1>1, <1>2

LEMMA GotoExitOk ==
  ASSUME NEW w, Good(w), NEW x \in Exits, AtExit(w, x), NEW at \in {"poll", "residual"}
  PROVE  StepOk(Goto(w, at))
<1> DEFINE v == Goto(w, at)
<1>1. at \in Places
  BY DEF Places
<1>2. Good(v) /\ SameBooks(w, v) /\ v.run.at = at /\ v.run.exit = w.run.exit
  BY <1>1, GotoGood
<1> HIDE DEF v
<1>3. OpenExits(v) = {x} /\ v.run.exit = x /\ x # Nil /\ v.wire \cap Stops = {}
  BY <1>2 DEF AtExit, SameBooks, OpenExits
<1>4. RunOk(v)
  BY <1>2, <1>3 DEF RunOk, Quiet, BetweenExits, Exiting
<1>5. QED
  BY <1>2, <1>4 DEF StepOk, v

\* The ledger agrees with what the venue says of the exit.
LEMMA AfterExitOk ==
  ASSUME NEW w, Good(w), NEW x \in Exits, x # Nil, w.run.exit = x,
         w.wire \cap Stops = {},
         OpenExits(w) = IF Status(w, x) \in {"filled", "expired"} THEN {} ELSE {x},
         NEW raises \in BOOLEAN
  PROVE  StepOk(AfterExit(w, x, raises))
<1>1. CASE Status(w, x) = "filled"
  BY <1>1, WireEmpties, ToProtectOk DEF AfterExit
<1>2. CASE Status(w, x) = "expired"
  BY <1>2, RaiseOk DEF AfterExit
<1>3. CASE Status(w, x) \notin {"filled", "expired"}
  BY <1>3, GotoExitOk DEF AfterExit, AtExit
<1>4. QED
  BY <1>1, <1>2, <1>3

LEMMA ExitAnsweredOk ==
  ASSUME NEW w, StepOk(w), w.run.at = "exitcall", w.venue[w.run.exit].state # "absent"
  PROVE  StepOk(ExitAnswered(w, w.run.exit))
<1> DEFINE x == w.run.exit
           f == FactOf(w, x)
           u == RecordBrokerFact(w, x, f)
           v == Persisted(u, x)
<1>1. /\ Good(w) /\ AtExit(w, x) /\ x \in Exits /\ x \in Sells
      /\ w.mem.orders[x].filled = 0
  BY ExitCallOk
<1>2. /\ f.filled \in Nat /\ f.filled = w.venue[x].filled
      /\ f.status \in {"open", "partial", "filled", "expired"}
  BY <1>1, FactType
<1>3. ExitAnswered(w, x) = AfterExit(v, x, FALSE)
  BY DEF ExitAnswered
<1> HIDE DEF f, x
<1>4. Good(u) /\ Beside(w, u)
  BY <1>1, <1>2, BrokerFactGood
<1> HIDE DEF u
<1>5. AtExit(u, x)
  BY <1>1, <1>4 DEF AtExit, Beside, OpenExits
<1>6. /\ Good(v) /\ BesideLedger(u, v)
      /\ OpenExits(v) = IF Status(u, x) \in {"filled", "expired"} THEN {} ELSE {x}
  BY <1>1, <1>4, <1>5, PersistedGood DEF AtExit
<1> HIDE DEF v
<1>7. Status(v, x) = Status(u, x) /\ v.run.exit = x /\ v.wire \cap Stops = {} /\ x # Nil
  BY <1>5, <1>6 DEF BesideLedger, Status, AtExit
<1>8. QED
  BY <1>1, <1>3, <1>6, <1>7, AfterExitOk DEF x

LEMMA ExitCallFailsOk ==
  ASSUME NEW w, StepOk(w), w.run.at = "exitcall"
  PROVE  LET x == w.run.exit IN
         StepOk(Goto(Unfinished(RecordUnknown(w, x), x), "poll"))
<1> DEFINE x == w.run.exit
           u == RecordUnknown(w, x)
           v == Unfinished(u, x)
<1>1. /\ Good(w) /\ AtExit(w, x) /\ x \in Exits /\ x \in Sells
      /\ w.mem.orders[x].filled = 0
  BY ExitCallOk
<1> HIDE DEF x
<1>2. Good(u) /\ Beside(w, u)
  BY <1>1, OutcomeUnknownGood
<1> HIDE DEF u
<1>3. AtExit(u, x)
  BY <1>1, <1>2 DEF AtExit, Beside, OpenExits
<1>4. Good(v) /\ BesideLedger(u, v) /\ OpenExits(v) = {x}
  BY <1>1, <1>2, <1>3, UnfinishedGood DEF AtExit
<1> HIDE DEF v
<1>5. AtExit(v, x)
  BY <1>3, <1>4 DEF AtExit, BesideLedger
<1>6. QED
  BY <1>1, <1>4, <1>5, GotoExitOk DEF x, u, v

LEMMA ExitMissedOk ==
  ASSUME NEW w, StepOk(w), w.run.at = "poll"
  PROVE  StepOk(ExitMissed(w, w.run.exit))
<1>1. Good(w) /\ w.run.exit \in Exits /\ OpenExits(w) = {w.run.exit}
  BY ExitCallOk DEF AtExit
<1>2. QED
  BY <1>1, KeepExit DEF ExitMissed

LEMMA ExitPolledOk ==
  ASSUME NEW w, StepOk(w), w.run.at = "poll", w.venue[w.run.exit].state # "absent"
  PROVE  StepOk(ExitPolled(w, w.run.exit))
<1> DEFINE x == w.run.exit
           f == FactOf(w, x)
           u == Persisted(w, x)
           v == RecordReconciledSubmission(u, x, f)
<1>1. Good(w) /\ AtExit(w, x) /\ x \in Exits /\ x \in Sells
  BY ExitCallOk
<1>2. /\ f.filled \in Nat /\ f.filled =< w.venue[x].filled
      /\ f.status \in {"open", "partial", "filled", "expired"}
  BY <1>1, FactType
<1>3. ExitPolled(w, x) = AfterExit(v, x, TRUE)
  BY DEF ExitPolled
<1> HIDE DEF f, x
<1>4. /\ Good(u) /\ BesideLedger(w, u)
      /\ OpenExits(u) = IF Status(w, x) \in {"filled", "expired"} THEN {} ELSE {x}
  BY <1>1, PersistedGood DEF AtExit
<1> HIDE DEF u
<1>5. u.venue = w.venue /\ u.run = w.run /\ u.wire = w.wire
  BY <1>4 DEF BesideLedger
<1>6. Good(v) /\ Beside(u, v)
  BY <1>1, <1>2, <1>4, <1>5, RecordReconciledGood
<1> HIDE DEF v
<1>7. /\ Status(v, x) = Status(w, x) /\ v.run.exit = x /\ v.wire \cap Stops = {}
      /\ x # Nil /\ OpenExits(v) = OpenExits(u)
  BY <1>1, <1>5, <1>6 DEF Beside, Status, AtExit, OpenExits
<1>8. QED
  BY <1>1, <1>3, <1>4, <1>6, <1>7, AfterExitOk DEF x
\* Nothing of the exit is left at the venue once its cancel is confirmed.
LEMMA ResidualCancelledOk ==
  ASSUME NEW w, StepOk(w), w.run.at = "residual",
         NEW v \in ResidualCancelled(w, w.run.exit)
  PROVE  StepOk(v)
<1> DEFINE x == w.run.exit
           a == RequestCancel(w, x)
           booked(u) == RecordReconciledSubmission(u, x, FactOf(u, x))
           closed(u) == Close(booked(u), x)
           done(u) == [Goto(closed(u), "protect") EXCEPT !.run.raises = TRUE]
           confirmed == {done(u) : u \in Confirmed(a, x)}
           kept == {Raise(Unfinished(u, x)) : u \in Unconfirmed(a, x)}
<1>1. Good(w) /\ AtExit(w, x) /\ x \in Exits /\ x \in Sells
  BY ExitCallOk
<1>2. ResidualCancelled(w, x) = IF ~Cancellable(w, x) THEN {Raise(Unfinished(w, x))}
                                ELSE confirmed \cup kept
  BY DEF ResidualCancelled
<1> HIDE DEF x
<1>3. Good(a) /\ Beside(w, a)
  BY <1>1, RequestCancelGood
<1> HIDE DEF a
<1>4. AtExit(a, x)
  BY <1>1, <1>3 DEF AtExit, Beside, OpenExits
<1>5. CASE v = Raise(Unfinished(w, x))
  BY <1>1, <1>5, KeepExit DEF AtExit
<1>6. CASE v \in kept
  <2>1. PICK u \in Unconfirmed(a, x) : v = Raise(Unfinished(u, x))
    BY <1>6
  <2>2. Good(u) /\ OpenExits(u) = {x}
    BY <1>1, <1>3, <1>4, <2>1, UnconfirmedGood DEF AtExit
  <2>3. QED
    BY <1>1, <2>1, <2>2, KeepExit
<1>7. CASE v \in confirmed
  <2>1. PICK u \in Confirmed(a, x) : v = done(u)
    BY <1>7
  <2>2. a.venue[x].state = "open" /\ u = Cancelled(a, x)
    BY <2>1 DEF Confirmed
  <2>3. Good(u) /\ CancelledIn(a, u, x)
    BY <1>1, <1>3, <2>2, CancelGood
  <2>4. \A j \in Sells : ~Working(u, j)
    <3>1. Working(a, x)
      BY <2>2 DEF Working
    <3>2. QED
      BY <1>1, <1>3, <2>3, <3>1, OneOnly DEF CancelledIn
  <2>5. u.wire = {}
    BY <2>3, <2>4, GoodType DEF Working
  <2>6. Good(booked(u)) /\ Beside(u, booked(u))
    <3> DEFINE f == FactOf(u, x)
    <3>1. u.venue[x].state # "absent"
      BY <2>3 DEF CancelledIn
    <3>2. /\ f.filled \in Nat /\ f.filled =< u.venue[x].filled
          /\ f.status \in {"open", "partial", "filled", "expired"}
      BY <1>1, <2>3, <3>1, FactType
    <3> HIDE DEF f
    <3>3. LET b == RecordReconciledSubmission(u, x, f) IN Good(b) /\ Beside(u, b)
      BY <1>1, <2>3, <3>2, RecordReconciledGood
    <3>4. QED
      BY <3>3 DEF f
  <2> HIDE DEF booked
  <2>7. ~Working(booked(u), x) /\ OpenExits(booked(u)) = {x}
    BY <1>1, <1>4, <2>3, <2>4, <2>6 DEF Beside, CancelledIn, Working, AtExit, OpenExits
  <2>8. /\ Good(closed(u)) /\ BesideLedger(booked(u), closed(u))
        /\ OpenExits(closed(u)) = {}
    BY <1>1, <2>6, <2>7, CloseGood
  <2> HIDE DEF closed
  <2>9. closed(u).wire = {}
    BY <2>5, <2>6, <2>8 DEF Beside, BesideLedger
  <2>10. QED
    BY <2>1, <2>8, <2>9, ToProtectOk
<1>8. QED
  <2> HIDE DEF confirmed, kept
  <2>1. v = Raise(Unfinished(w, x)) \/ v \in confirmed \/ v \in kept
    BY <1>2 DEF x
  <2>2. QED
    BY <1>5, <1>6, <1>7, <2>1

LEMMA ProtectedRemainderOk ==
  ASSUME NEW w, StepOk(w), w.run.at = "protect"
  PROVE  StepOk(ProtectedRemainder(w))
<1>1. Good(w) /\ w.wire = {} /\ OpenExits(w) = {} /\ w.held \in Nat
  <2>1. Good(w) /\ w.wire = {} /\ OpenExits(w) = {}
    BY DEF StepOk, RunOk, Quiet, BetweenExits
  <2>2. QED
    BY <2>1, GoodType
<1>2. CASE w.held = 0
  <2> DEFINE c == ClearPositionRisk(w)
  <2>1. Good(c) /\ BesideRecord(w, c)
    BY <1>1, <1>2, ClearRiskGood
  <2> HIDE DEF c
  <2>2. Covered(c)
    BY <1>2, <2>1 DEF BesideRecord, Covered
  <2>3. QED
    BY <1>2, <2>1, <2>2, ProtectedOk DEF ProtectedRemainder, c
<1>3. CASE w.held # 0 /\ w.record.trail = 0
  BY <1>1, <1>3, RaiseOk DEF ProtectedRemainder
<1>4. CASE w.held # 0 /\ w.record.trail # 0
  <2> DEFINE r == [w.run EXCEPT !.at = "ensure", !.seen = w.held, !.exit = Nil]
             v == [w EXCEPT !.run = r]
  <2>1. r \in Runs /\ r.at = "ensure" /\ r.seen = w.held
    BY <1>1, GoodType DEF Runs
  <2>2. ProtectedRemainder(w) = v
    BY <1>1, <1>4, GoodType DEF ProtectedRemainder, Goto, Worlds
  <2> HIDE DEF r
  <2>3. Good(v) /\ SameBooks(w, v) /\ v.run = r
    BY <1>1, <2>1, RunGood
  <2> HIDE DEF v
  <2>4. /\ v.wire = {} /\ OpenExits(v) = {} /\ v.run.seen >= v.held
        /\ v.record.trail > 0
    BY <1>1, <1>4, <2>1, <2>3, RecordFacts DEF SameBooks, OpenExits
  <2>5. RunOk(v)
    BY <2>1, <2>3, <2>4 DEF RunOk, Quiet, BetweenExits, Exiting
  <2>6. QED
    BY <2>2, <2>3, <2>5 DEF StepOk
<1>5. QED
  BY <1>2, <1>3, <1>4
-----------------------------------------------------------------------------
(* The rest of a run                                                       *)

\* Between the exits of earlier runs and the positions.
LEMMA QuietGotoOk ==
  ASSUME NEW w, Good(w), w.wire = {}, OpenExits(w) = {},
         NEW at \in {"positions", "heldback", "cleanup"}, at = "cleanup" => w.held = 0
  PROVE  StepOk(Goto(w, at))
<1> DEFINE v == Goto(w, at)
<1>1. at \in Places
  BY DEF Places
<1>2. Good(v) /\ SameBooks(w, v) /\ v.run.at = at
  BY <1>1, GotoGood
<1> HIDE DEF v
<1>3. v.wire = {} /\ OpenExits(v) = {} /\ (at = "cleanup" => v.held = 0)
  BY <1>2 DEF SameBooks, OpenExits
<1>4. RunOk(v)
  BY <1>2, <1>3 DEF RunOk, Quiet, BetweenExits, Exiting
<1>5. QED
  BY <1>2, <1>4 DEF StepOk, v

LEMMA ExitReconciledOk ==
  ASSUME NEW w, StepOk(w), w.run.at = "orders", NEW x \in Exits,
         w.ledger[x] = "unfinished"
  PROVE  StepOk(ExitReconciled(w, x))
<1> DEFINE f == FactOf(w, x)
           u == RecordReconciledSubmission(w, x, f)
           v == Persisted(u, x)
<1>1. Good(w) /\ w.wire = {} /\ x \in Sells
  BY KindsType DEF StepOk, RunOk, Quiet
<1>2. OpenExits(w) = {x}
  <2>1. \A y \in Exits : w.ledger[y] = "unfinished" => y = x
    BY <1>1, GoodType DEF Safe, LedgerOk
  <2>2. QED
    BY <2>1 DEF OpenExits
<1>3. ExitReconciled(w, x) =
        IF Status(w, x) = "absent" \/ ~Exists(w.mem, x) THEN Raise(Unfinished(w, x))
        ELSE IF v.ledger[x] = "closed" THEN Goto(v, "positions") ELSE Raise(v)
  BY DEF ExitReconciled
<1>4. CASE Status(w, x) = "absent" \/ ~Exists(w.mem, x)
  BY <1>1, <1>2, <1>3, <1>4, KeepExit
<1>5. CASE ~(Status(w, x) = "absent" \/ ~Exists(w.mem, x))
  <2>1. w.venue[x].state # "absent"
    BY <1>1, <1>5, StatusType
  <2>2. /\ f.filled \in Nat /\ f.filled =< w.venue[x].filled
        /\ f.status \in {"open", "partial", "filled", "expired"}
    BY <1>1, <2>1, FactType
  <2> HIDE DEF f
  <2>3. Good(u) /\ Beside(w, u)
    BY <1>1, <2>2, RecordReconciledGood
  <2> HIDE DEF u
  <2>4. OpenExits(u) = {x} /\ u.wire = {}
    BY <1>1, <1>2, <2>3 DEF Beside, OpenExits
  <2>5. /\ Good(v) /\ BesideLedger(u, v)
        /\ OpenExits(v) \subseteq {x}
    BY <2>3, <2>4, PersistedGood
  <2> HIDE DEF v
  <2>6. CASE v.ledger[x] = "closed"
    <3>1. OpenExits(v) = {} /\ v.wire = {}
      BY <2>4, <2>5, <2>6 DEF OpenExits, BesideLedger
    <3>2. StepOk(Goto(v, "positions"))
      BY <2>5, <3>1, QuietGotoOk
    <3>3. QED
      BY <1>3, <1>5, <2>6, <3>2
  <2>7. CASE v.ledger[x] # "closed"
    BY <1>3, <1>5, <2>5, <2>7, RaiseOk
  <2>8. QED
    BY <2>6, <2>7
<1>6. QED
  BY <1>4, <1>5

LEMMA SeeNothingOk ==
  ASSUME NEW w, StepOk(w), w.run.at = "positions", w.held = 0
  PROVE  StepOk(Goto(w, "cleanup"))
<1>1. Good(w) /\ w.wire = {} /\ OpenExits(w) = {}
  BY DEF StepOk, RunOk, Quiet, BetweenExits
<1>2. QED
  BY <1>1, QuietGotoOk

\* The position is held, exited, or held back from its exit.
LEMMA SeePositionOk ==
  ASSUME NEW w, StepOk(w), w.run.at = "positions", NEW v \in Observed(w)
  PROVE  /\ StepOk([Goto(v, "ensure") EXCEPT !.run.seen = held])
         /\ StepOk(Goto(v, "heldback"))
         /\ \A x \in Exits : w.ledger[x] = "none" =>
              StepOk([Goto(v, "exit") EXCEPT !.run.exit = x])
<1>1. Good(w) /\ w.wire = {} /\ OpenExits(w) = {}
  BY DEF StepOk, RunOk, Quiet, BetweenExits
<1>2. Good(v) /\ BesideRecord(w, v) /\ v.record.trail > 0
  BY <1>1, ObservedGood
<1>3. /\ v.wire = {} /\ OpenExits(v) = {} /\ v.ledger = w.ledger
      /\ v \in Worlds /\ v.run \in Runs /\ v.held = held /\ held \in Nat
  BY <1>1, <1>2, GoodType DEF BesideRecord, OpenExits
<1>4. StepOk([Goto(v, "ensure") EXCEPT !.run.seen = held])
  <2> DEFINE r == [v.run EXCEPT !.at = "ensure", !.seen = held]
             u == [v EXCEPT !.run = r]
  <2>1. r \in Runs /\ r.at = "ensure" /\ r.seen = held
    BY <1>3 DEF Runs
  <2>2. [Goto(v, "ensure") EXCEPT !.run.seen = held] = u
    BY <1>3 DEF Goto, Worlds
  <2> HIDE DEF r
  <2>3. Good(u) /\ SameBooks(v, u) /\ u.run = r
    BY <1>2, <2>1, RunGood
  <2> HIDE DEF u
  <2>4. /\ u.wire = {} /\ OpenExits(u) = {} /\ u.run.seen >= u.held
        /\ u.record.trail > 0
    BY <1>2, <1>3, <2>1, <2>3 DEF SameBooks, OpenExits
  <2>5. RunOk(u)
    BY <2>1, <2>3, <2>4 DEF RunOk, Quiet, BetweenExits, Exiting
  <2>6. QED
    BY <2>2, <2>3, <2>5 DEF StepOk
<1>5. StepOk(Goto(v, "heldback"))
  BY <1>2, <1>3, QuietGotoOk
<1>6. ASSUME NEW x \in Exits, w.ledger[x] = "none"
      PROVE  StepOk([Goto(v, "exit") EXCEPT !.run.exit = x])
  <2> DEFINE r == [v.run EXCEPT !.at = "exit", !.exit = x]
             u == [v EXCEPT !.run = r]
  <2>1. r \in Runs /\ r.at = "exit" /\ r.exit = x /\ x # Nil
    BY <1>3, KindsType DEF Runs
  <2>2. [Goto(v, "exit") EXCEPT !.run.exit = x] = u
    BY <1>3 DEF Goto, Worlds
  <2> HIDE DEF r
  <2>3. Good(u) /\ SameBooks(v, u) /\ u.run = r
    BY <1>2, <2>1, RunGood
  <2> HIDE DEF u
  <2>4. u.wire = {} /\ OpenExits(u) = {} /\ u.ledger[x] = "none"
    BY <1>3, <1>6, <2>3 DEF SameBooks, OpenExits
  <2>5. RunOk(u)
    BY <2>1, <2>3, <2>4 DEF RunOk, Quiet, BetweenExits, Exiting
  <2>6. QED
    BY <2>2, <2>3, <2>5 DEF StepOk
<1>7. QED
  BY <1>4, <1>5, <1>6

\* An exit the lifecycle never handed to the gateway never left.
LEMMA ResolveUnsubmittedOk ==
  ASSUME NEW w, Good(w), w.run = Off, NEW x \in Exits, ~w.mem.orders[x].io_started
  PROVE  LET u == IF w.mem.orders[x].status = "REJECTED" THEN w
                  ELSE Log(w, Ev("ORDER_REJECTED", x))
         IN  StepOk(Close(u, x))
<1> DEFINE u == IF w.mem.orders[x].status = "REJECTED" THEN w
                ELSE Log(w, Ev("ORDER_REJECTED", x))
           v == Close(u, x)
<1>1. x \in Sells
  BY KindsType
<1>2. ~Reached(w, x)
  BY <1>1, GoodType DEF Safe, MemOk, OrderOk
<1>3. LET l == Log(w, Ev("ORDER_REJECTED", x)) IN Good(l) /\ Beside(w, l)
  BY <1>1, SellType, PlainEvGood
<1>4. Good(u) /\ Beside(w, u)
  BY <1>3 DEF Beside
<1> HIDE DEF u
<1>5. ~Working(u, x)
  BY <1>2, <1>4 DEF Beside, Reached, Working
<1>6. Good(v) /\ BesideLedger(u, v)
  BY <1>4, <1>5, CloseGood
<1> HIDE DEF v
<1>7. v.run = Off
  BY <1>4, <1>6 DEF Beside, BesideLedger
<1>8. RunOk(v)
  BY <1>7, OffType DEF RunOk, Quiet, BetweenExits, Exiting
<1>9. QED
  BY <1>6, <1>8 DEF StepOk, u, v
-----------------------------------------------------------------------------
(* A step becomes the state                                                *)

Becomes(w) ==
  /\ mem' = w.mem /\ record' = w.record /\ ledger' = w.ledger /\ price' = w.price
  /\ venue' = w.venue /\ wire' = w.wire /\ run' = w.run /\ held' = w.held

LEMMA BecomesKeeps ==
  ASSUME NEW w \in Worlds, Safe(w), RunOk(w), Becomes(w)
  PROVE  IInv'
<1>1. /\ w.mem \in State /\ w.record \in Records /\ w.ledger \in Ledgers
      /\ w.price \in Prices /\ w.venue \in Venues /\ w.wire \subseteq Sells
      /\ w.run \in Runs /\ w.held \in Nat
  BY DEF Worlds
<1>2. TypeOK'
  BY <1>1 DEF Becomes, TypeOK, Records, Ledgers, Prices, Venues
<1>3. (\A k \in Sells : VenueOk(World, k) /\ CoverOk(World, k))'
  BY DEF Becomes, Safe, VenueOk, CoverOk, World
<1>4. (OneWorks(World) /\ RecordOk(World))'
  BY DEF Becomes, Safe, OneWorks, RecordOk, Working, World
<1>5. (PriceOk(World) /\ LedgerOk(World))'
  BY DEF Becomes, Safe, PriceOk, LedgerOk, Working, Reached, World
<1>6. MemOk(World.mem, World)'
  BY DEF Becomes, Safe, MemOk, OrderOk, Reached, World
<1>7. Safe(World)'
  BY <1>3, <1>4, <1>5, <1>6 DEF Safe
<1>8. RunOk(World)'
  BY DEF Becomes, RunOk, OpenExits, Reached, World
<1>9. QED
  BY <1>2, <1>7, <1>8 DEF IInv

\* The step completes, or leaves one of its crash worlds behind.
LEMMA CommitKeeps ==
  ASSUME NEW w, StepOk(w), Commit(w)
  PROVE  IInv'
<1>1. Good(w) /\ RunOk(w)
  BY DEF StepOk
<1>2. CASE Become(w)
  <2>1. w \in Worlds /\ Safe(w) /\ w.held = held
    BY <1>1, GoodType
  <2>2. Becomes(w)
    BY <1>2, <2>1 DEF Become, Becomes
  <2>3. QED
    BY <1>1, <2>1, <2>2, BecomesKeeps
<1>3. CASE \E c \in w.crashes : Become([c EXCEPT !.run = Off])
  <2>1. PICK c \in w.crashes : Become([c EXCEPT !.run = Off])
    BY <1>3
  <2> DEFINE v == [c EXCEPT !.run = Off]
  <2>2. c \in Cores /\ Safe(c) /\ c.held = held
    BY <1>1 DEF Good, Worlds
  <2>3. v \in Worlds /\ SameBooks(c, v) /\ v.run = Off
    BY <2>2, OffType DEF Cores, Worlds, SameBooks
  <2> HIDE DEF v
  <2>4. Safe(v) /\ v.held = held
    BY <2>2, <2>3, SameIsSafe DEF SameBooks
  <2>5. RunOk(v)
    BY <2>3, OffType DEF RunOk, Quiet, BetweenExits, Exiting
  <2>6. Becomes(v)
    BY <2>1, <2>4 DEF Become, Becomes, v
  <2>7. QED
    BY <2>3, <2>4, <2>5, <2>6, BecomesKeeps
<1>4. QED
  BY <1>2, <1>3 DEF Commit

\* Where the run stays as it is and the venue moved on.
RunKept(w, v) ==
  /\ v.mem = w.mem /\ v.record = w.record /\ v.ledger = w.ledger
  /\ v.price = w.price /\ v.run = w.run /\ v.wire \subseteq w.wire
  /\ v.held \in Nat /\ v.held =< w.held
  /\ \A j \in Sells : Reached(v, j) => Reached(w, j)

LEMMA RunKeptOk ==
  ASSUME NEW w, Good(w), RunOk(w), NEW v, RunKept(w, v)
  PROVE  RunOk(v)
<1> DEFINE r == w.run
           s == w.record.pending
           a == w.record.active
<1>1. /\ w.held \in Nat /\ v.held \in Nat /\ v.held =< w.held
      /\ OpenExits(v) = OpenExits(w)
  BY GoodType DEF RunKept, OpenExits
<1>2. /\ s # Nil => s \in Sells /\ Size[s] \in Nat
      /\ a # Nil => a \in Sells /\ Size[a] \in Nat
      /\ r.exit # Nil => r.exit \in Sells
      /\ r \in Runs
  BY RecordFacts, GoodType, KindsType, SellType DEF Runs
<1>3. r.seen \in Nat
  BY <1>2 DEF Runs
<1>4. /\ r.at \in Quiet => v.wire = {}
      /\ r.at \in BetweenExits => OpenExits(v) = {}
      /\ r.at \in Exiting => r.exit # Nil /\ OpenExits(v) = {r.exit}
      /\ r.at \in {"exitcall", "poll", "residual"} => v.wire \cap Stops = {}
  BY <1>1 DEF RunOk, RunKept
<1>5. /\ r.at = "ensure" => r.seen >= v.held /\ w.record.trail > 0
      /\ r.at = "cleanup" => v.held = 0
      /\ r.at = "done" /\ v.held > 0 => a # Nil /\ Size[a] >= v.held
  BY <1>1, <1>2, <1>3 DEF RunOk
<1>6. r.at = "cancel" =>
        /\ a # Nil /\ s # Nil /\ ~Reached(v, s) /\ Size[s] >= v.held /\ w.price[s] > 0
        /\ v.held > 0 => w.price[s] = w.record.trail
  BY <1>1, <1>2 DEF RunOk, RunKept
<1>7. r.at \in {"handover", "stopcheck"} => a # Nil /\ ~Reached(v, r.exit)
  BY <1>2 DEF RunOk, RunKept, Exiting
<1>8. /\ r.at = "stopcall" => a = Nil /\ s # Nil /\ w.mem.orders[s].filled = 0
      /\ r.at = "exit" => r.exit # Nil /\ w.ledger[r.exit] = "none"
      /\ r.at = "exitcall" => w.mem.orders[r.exit].filled = 0
      /\ r.at = "recover" => s # Nil
  BY DEF RunOk
<1>9. /\ v.run = r /\ v.record.pending = s /\ v.record.active = a /\ v.price = w.price
      /\ v.record.trail = w.record.trail /\ v.mem = w.mem /\ v.ledger = w.ledger
  BY DEF RunKept
<1> HIDE DEF r, s, a
<1>10. QED
  BY <1>4, <1>5, <1>6, <1>7, <1>8, <1>9 DEF RunOk
-----------------------------------------------------------------------------
(* What the venue does                                                     *)

\* The world once the venue took, lost or filled an order.
Taken(w, k) == [w EXCEPT !.wire = @ \ {k}, !.venue[k].state = "open"]

Lost(w, k) == [w EXCEPT !.wire = @ \ {k}]

Sold(w, k) ==
  LET v == w.venue[k] IN
  [w EXCEPT !.held = @ - 1,
            !.venue[k] = [state  |-> IF v.filled + 1 = Size[k] THEN "filled" ELSE "open",
                          filled |-> v.filled + 1]]

\* An order is taken out of the free quantity.
LEMMA TakenOk ==
  ASSUME NEW w, Good(w), NEW k \in Sells, k \in w.wire, Size[k] =< Free(w)
  PROVE  LET v == Taken(w, k) IN v \in Worlds /\ Safe(v) /\ RunKept(w, v)
<1> DEFINE v == Taken(w, k)
<1>1. /\ w \in Worlds /\ Safe(w) /\ w.venue \in Venues /\ w.wire \subseteq Sells
      /\ w.held \in Nat
  BY GoodType
<1>2. w.venue[k].state = "absent" /\ w.venue[k].filled = 0 /\ Working(w, k)
  BY <1>1, WireIsAbsent DEF Safe, VenueOk
<1>3. Size[k] =< w.held /\ Size[k] \in Nat /\ Size[k] > 0
  BY FreeIsHeld, SellType
<1>4. /\ v \in Worlds /\ v.mem = w.mem /\ v.record = w.record /\ v.ledger = w.ledger
      /\ v.price = w.price /\ v.run = w.run /\ v.held = w.held
      /\ v.wire = w.wire \ {k}
      /\ v.venue = [w.venue EXCEPT ![k].state = "open"]
  BY <1>1 DEF Taken, Worlds, Venues
<1> HIDE DEF v
<1>5. /\ v.venue[k].state = "open" /\ v.venue[k].filled = 0
      /\ \A j \in Sells : j # k => v.venue[j] = w.venue[j]
  BY <1>1, <1>2, <1>4 DEF Venues
<1>6. \A j \in Sells : Working(v, j) <=> Working(w, j)
  BY <1>2, <1>4, <1>5 DEF Working
<1>7. \A j \in Sells : Reached(v, j) <=> Reached(w, j)
  BY <1>2, <1>4, <1>5 DEF Reached
<1>8. \A j \in Sells : VenueOk(v, j) /\ CoverOk(v, j)
  <2>1. VenueOk(v, k) /\ CoverOk(v, k)
    BY <1>1, <1>3, <1>4, <1>5 DEF Safe, VenueOk, CoverOk
  <2>2. ASSUME NEW j \in Sells, j # k PROVE VenueOk(v, j) /\ CoverOk(v, j)
    BY <1>1, <1>4, <1>5, <2>2 DEF Safe, VenueOk, CoverOk
  <2>3. QED
    BY <2>1, <2>2
<1>9. OneWorks(v)
  BY <1>1, <1>6 DEF Safe, OneWorks
<1>10. RecordOk(v)
  <2>1. w.record.active # Nil => v.venue[w.record.active].state # "absent"
    BY <1>1, <1>5, RecordFacts, KindsType DEF Safe, RecordOk
  <2>2. QED
    BY <1>1, <1>4, <1>6, <2>1, KindsType DEF Safe, RecordOk
<1>11. PriceOk(v) /\ LedgerOk(v)
  BY <1>1, <1>4, <1>6, <1>7, KindsType DEF Safe, PriceOk, LedgerOk
<1>12. MemOk(v.mem, v)
  <2>1. \A j \in Sells : v.venue[j].filled = w.venue[j].filled
    BY <1>2, <1>5
  <2>2. QED
    BY <1>1, <1>4, <1>7, <2>1 DEF Safe, MemOk, OrderOk
<1>13. RunKept(w, v)
  BY <1>1, <1>4, <1>7 DEF RunKept
<1>14. QED
  BY <1>4, <1>8, <1>9, <1>10, <1>11, <1>12, <1>13 DEF Safe, v

LEMMA LostOk ==
  ASSUME NEW w, Good(w), NEW k \in Sells
  PROVE  LET v == Lost(w, k) IN v \in Worlds /\ Safe(v) /\ RunKept(w, v)
<1> DEFINE v == Lost(w, k)
<1>1. w \in Worlds /\ Safe(w) /\ w.held \in Nat
  BY GoodType
<1>2. /\ v \in Worlds /\ v.mem = w.mem /\ v.record = w.record /\ v.ledger = w.ledger
      /\ v.price = w.price /\ v.run = w.run /\ v.held = w.held
      /\ v.wire \subseteq w.wire /\ v.venue = w.venue
  BY <1>1 DEF Lost, Worlds
<1> HIDE DEF v
<1>3. \A j \in Sells : /\ Working(v, j) => Working(w, j)
                       /\ Reached(v, j) => Reached(w, j)
  BY <1>2 DEF Working, Reached
<1>4. \A j \in Sells : VenueOk(v, j) /\ CoverOk(v, j)
  BY <1>1, <1>2 DEF Safe, VenueOk, CoverOk
<1>5. OneWorks(v) /\ RecordOk(v)
  BY <1>1, <1>2, <1>3, KindsType DEF Safe, OneWorks, RecordOk
<1>6. PriceOk(v) /\ LedgerOk(v)
  BY <1>1, <1>2, <1>3, KindsType DEF Safe, PriceOk, LedgerOk
<1>7. MemOk(v.mem, v)
  BY <1>1, <1>2, <1>3 DEF Safe, MemOk, OrderOk
<1>8. RunKept(w, v)
  BY <1>1, <1>2, <1>3 DEF RunKept
<1>9. QED
  BY <1>2, <1>4, <1>5, <1>6, <1>7, <1>8 DEF Safe, v

\* What is sold was held, and a stop that is filled leaves nothing.
LEMMA SoldOk ==
  ASSUME NEW w, Good(w), NEW k \in Sells, w.venue[k].state = "open"
  PROVE  LET v == Sold(w, k) IN v \in Worlds /\ Safe(v) /\ RunKept(w, v)
<1> DEFINE v == Sold(w, k)
           n == w.venue[k].filled
<1>1. /\ w \in Worlds /\ Safe(w) /\ w.venue \in Venues /\ w.wire \subseteq Sells
      /\ w.held \in Nat
  BY GoodType
<1>2. n \in Nat /\ n < Size[k] /\ Size[k] - n =< w.held /\ Size[k] \in Nat
  BY <1>1, SellType DEF Safe, VenueOk, CoverOk, Venues
<1>3. w.held - 1 \in Nat /\ w.held > 0
  BY <1>1, <1>2
<1>4. w.wire = {}
  <2>1. Working(w, k) /\ k \notin w.wire
    BY WireIsAbsent DEF Working
  <2>2. \A j \in Sells : j \in w.wire => j = k
    BY <2>1, OneOnly DEF Working
  <2>3. QED
    BY <1>1, <2>1, <2>2
<1> DEFINE last == [state  |-> IF n + 1 = Size[k] THEN "filled" ELSE "open",
                    filled |-> n + 1]
<1>5. last \in [state : {"absent", "open", "filled", "expired"}, filled : Nat]
  BY <1>2
<1>6. /\ v \in Worlds /\ v.mem = w.mem /\ v.record = w.record /\ v.ledger = w.ledger
      /\ v.price = w.price /\ v.run = w.run /\ v.held = w.held - 1
      /\ v.wire = {} /\ v.venue = [w.venue EXCEPT ![k] = last]
  <2> DEFINE p == [w.venue EXCEPT ![k] = last]
  <2>1. p \in Venues
    BY <1>1, <1>5 DEF Venues
  <2>2. v = [w EXCEPT !.held = w.held - 1, !.venue = p]
    BY <1>1 DEF Sold, Worlds
  <2> HIDE DEF v, last
  <2>3. QED
    BY <1>1, <1>3, <1>4, <2>1, <2>2 DEF Worlds
<1> HIDE DEF v
<1>7. /\ v.venue[k].state = (IF n + 1 = Size[k] THEN "filled" ELSE "open")
      /\ v.venue[k].filled = n + 1
      /\ \A j \in Sells : j # k => v.venue[j] = w.venue[j]
  BY <1>1, <1>6 DEF Venues
<1> HIDE DEF last
<1>8. \A j \in Sells : Working(v, j) => Working(w, j)
  BY <1>6, <1>7 DEF Working
<1>9. \A j \in Sells : Reached(v, j) <=> Reached(w, j)
  BY <1>4, <1>6, <1>7 DEF Reached
<1>10. \A j \in Sells : VenueOk(v, j) /\ CoverOk(v, j)
  <2>1. VenueOk(v, k)
    BY <1>2, <1>6, <1>7 DEF VenueOk
  <2>2. CoverOk(v, k)
    <3>1. k \in Stops => Size[k] - n = w.held
      BY <1>1 DEF Safe, CoverOk
    <3>2. QED
      BY <1>1, <1>2, <1>6, <1>7, <3>1 DEF CoverOk
  <2>3. ASSUME NEW j \in Sells, j # k PROVE VenueOk(v, j) /\ CoverOk(v, j)
    <3>1. w.venue[j].state # "open"
      BY <2>3, OneOnly DEF Working
    <3>2. j \in Stops => w.venue[j].state # "filled"
      BY <1>3, FilledStopEnds
    <3>3. QED
      BY <1>1, <1>6, <1>7, <2>3, <3>1, <3>2 DEF Safe, VenueOk, CoverOk
  <2>4. QED
    BY <2>1, <2>2, <2>3
<1>11. OneWorks(v)
  BY <1>1, <1>8 DEF Safe, OneWorks
<1>12. RecordOk(v)
  <2>1. w.record.active # Nil => v.venue[w.record.active].state # "absent"
    BY <1>1, <1>7, RecordFacts, KindsType DEF Safe, RecordOk
  <2>2. QED
    BY <1>1, <1>6, <1>8, <2>1, KindsType DEF Safe, RecordOk
<1>13. PriceOk(v) /\ LedgerOk(v)
  BY <1>1, <1>3, <1>6, <1>8, <1>9, KindsType DEF Safe, PriceOk, LedgerOk
<1>14. MemOk(v.mem, v)
  <2>1. \A j \in Sells :
          w.mem.orders[j].filled =< w.venue[j].filled =>
            w.mem.orders[j].filled =< v.venue[j].filled
    BY <1>2, <1>7, OrderType DEF OrderTypeOf
  <2>2. QED
    BY <1>1, <1>6, <1>9, <2>1 DEF Safe, MemOk, OrderOk
<1>15. RunKept(w, v)
  BY <1>1, <1>3, <1>4, <1>6, <1>9 DEF RunKept
<1>16. QED
  BY <1>6, <1>10, <1>11, <1>12, <1>13, <1>14, <1>15 DEF Safe, v

\* The lost and the taken, the sold and the expired, as steps.
LEMMA VenueKeeps ==
  ASSUME IInv, NEW k \in Sells,
         VenueTakes(k) \/ RequestLost(k) \/ VenueFills(k) \/ VenueExpires(k)
  PROVE  IInv'
<1> DEFINE w == World
<1>1. Good(w) /\ RunOk(w)
  BY WorldGood
<1>2. ASSUME NEW v \in Worlds, Safe(v), RunKept(w, v), Becomes(v)
      PROVE  IInv'
  BY <1>1, <1>2, RunKeptOk, BecomesKeeps
<1>3. CASE VenueTakes(k)
  <2>1. k \in w.wire /\ Size[k] =< Free(w)
    BY <1>3 DEF VenueTakes, World
  <2>2. Becomes(Taken(w, k))
    BY <1>3 DEF VenueTakes, Books, Becomes, Taken, World
  <2> HIDE DEF w
  <2>3. QED
    BY <1>1, <1>2, <2>1, <2>2, TakenOk
<1>4. CASE RequestLost(k)
  <2>1. Becomes(Lost(w, k))
    BY <1>4 DEF RequestLost, Books, Becomes, Lost, World
  <2> HIDE DEF w
  <2>2. QED
    BY <1>1, <1>2, <2>1, LostOk
<1>5. CASE VenueFills(k)
  <2>1. w.venue[k].state = "open"
    BY <1>5 DEF VenueFills, World
  <2>2. Becomes(Sold(w, k))
    BY <1>5 DEF VenueFills, Books, Becomes, Sold, World, IInv, TypeOK
  <2> HIDE DEF w
  <2>3. QED
    BY <1>1, <1>2, <2>1, <2>2, SoldOk
<1>6. CASE VenueExpires(k)
  <2> DEFINE v == Cancelled(w, k)
  <2>1. w.venue[k].state = "open"
    BY <1>6 DEF VenueExpires, World
  <2>2. Becomes(v)
    BY <1>6 DEF VenueExpires, Books, Becomes, Cancelled, World
  <2> HIDE DEF w
  <2>3. Good(v) /\ CancelledIn(w, v, k)
    BY <1>1, <2>1, CancelGood
  <2> HIDE DEF v
  <2>4. v \in Worlds /\ Safe(v) /\ w.held \in Nat
    BY <1>1, <2>3, GoodType
  <2>5. RunKept(w, v)
    BY <2>3, <2>4 DEF CancelledIn, RunKept
  <2>6. QED
    BY <1>2, <2>2, <2>4, <2>5
<1>7. QED
  BY <1>3, <1>4, <1>5, <1>6
-----------------------------------------------------------------------------
(* Every step keeps the invariant                                          *)

LEMMA EnsuringKeeps ==
  ASSUME IInv, Ensure \/ CancelStop \/ AnswerStop \/ StopCallFails \/ Recover
  PROVE  IInv'
<1>1. StepOk(World) /\ World.run = run /\ World.venue = venue /\ World.record = record
  BY WorldGood DEF StepOk, World
<1>2. CASE Ensure
  <2>1. World.run.at = "ensure" /\ \E w \in Ensured(World) : Commit(w)
    BY <1>1, <1>2 DEF Ensure
  <2>2. PICK w \in Ensured(World) : Commit(w)
    BY <2>1
  <2>3. QED
    BY <1>1, <2>1, <2>2, EnsuredOk, CommitKeeps
<1>3. CASE CancelStop
  <2>1. World.run.at = "cancel" /\ \E w \in StopCancelled(World) : Commit(w)
    BY <1>1, <1>3 DEF CancelStop
  <2>2. PICK w \in StopCancelled(World) : Commit(w)
    BY <2>1
  <2>3. QED
    BY <1>1, <2>1, <2>2, StopCancelledOk, CommitKeeps
<1>4. CASE AnswerStop
  <2>1. /\ World.run.at = "stopcall"
        /\ World.venue[World.record.pending].state # "absent"
        /\ Commit(StopAnswered(World))
    BY <1>1, <1>4 DEF AnswerStop
  <2>2. QED
    BY <1>1, <2>1, StopAnsweredOk, CommitKeeps
<1>5. CASE StopCallFails
  <2>1. /\ World.run.at = "stopcall"
        /\ Commit(Goto(RecordUnknown(World, World.record.pending), "recover"))
    BY <1>1, <1>5 DEF StopCallFails
  <2>2. QED
    BY <1>1, <2>1, StopCallFailsOk, CommitKeeps
<1>6. CASE Recover
  <2>1. Commit(Recovered(World))
    BY <1>6 DEF Recover
  <2>2. QED
    BY <1>1, <2>1, RecoveredOk, CommitKeeps
<1>7. QED
  BY <1>2, <1>3, <1>4, <1>5, <1>6

LEMMA ExitingKeeps ==
  ASSUME IInv,
         \/ BeginExit \/ HandOver \/ CheckStop \/ AnswerExit \/ ExitCallFails
         \/ PollExit \/ CancelResidual
  PROVE  IInv'
<1>1. StepOk(World) /\ World.run = run /\ World.venue = venue
  BY WorldGood DEF StepOk, World
<1>2. CASE BeginExit
  <2>1. /\ World.run.at = "exit"
        /\ \E w \in ExitBegun(World, World.run.exit) : Commit(w)
    BY <1>1, <1>2 DEF BeginExit
  <2>2. PICK w \in ExitBegun(World, World.run.exit) : Commit(w)
    BY <2>1
  <2>3. QED
    BY <1>1, <2>1, <2>2, ExitBegunOk, CommitKeeps
<1>3. CASE HandOver
  <2>1. /\ World.run.at = "handover"
        /\ \E w \in HandedToExit(World, World.run.exit) : Commit(w)
    BY <1>1, <1>3 DEF HandOver
  <2>2. PICK w \in HandedToExit(World, World.run.exit) : Commit(w)
    BY <2>1
  <2>3. QED
    BY <1>1, <2>1, <2>2, HandedToExitOk, CommitKeeps
<1>4. CASE CheckStop
  <2>1. World.run.at = "stopcheck" /\ Commit(StopChecked(World, World.run.exit))
    BY <1>1, <1>4 DEF CheckStop
  <2>2. QED
    BY <1>1, <2>1, StopCheckedOk, CommitKeeps
<1>5. CASE AnswerExit
  <2>1. /\ World.run.at = "exitcall" /\ World.venue[World.run.exit].state # "absent"
        /\ Commit(ExitAnswered(World, World.run.exit))
    BY <1>1, <1>5 DEF AnswerExit
  <2>2. QED
    BY <1>1, <2>1, ExitAnsweredOk, CommitKeeps
<1>6. CASE ExitCallFails
  <2> DEFINE x == World.run.exit
  <2>1. /\ World.run.at = "exitcall"
        /\ Commit(Goto(Unfinished(RecordUnknown(World, x), x), "poll"))
    BY <1>1, <1>6 DEF ExitCallFails
  <2>2. QED
    BY <1>1, <2>1, ExitCallFailsOk, CommitKeeps
<1>7. CASE PollExit
  <2>1. /\ World.run.at = "poll"
        /\ \/ Commit(ExitMissed(World, World.run.exit))
           \/ /\ World.venue[World.run.exit].state # "absent"
              /\ Commit(ExitPolled(World, World.run.exit))
    BY <1>1, <1>7 DEF PollExit
  <2>2. QED
    BY <1>1, <2>1, ExitMissedOk, ExitPolledOk, CommitKeeps
<1>8. CASE CancelResidual
  <2>1. /\ World.run.at = "residual"
        /\ \E w \in ResidualCancelled(World, World.run.exit) : Commit(w)
    BY <1>1, <1>8 DEF CancelResidual
  <2>2. PICK w \in ResidualCancelled(World, World.run.exit) : Commit(w)
    BY <2>1
  <2>3. QED
    BY <1>1, <2>1, <2>2, ResidualCancelledOk, CommitKeeps
<1>9. QED
  BY <1>2, <1>3, <1>4, <1>5, <1>6, <1>7, <1>8

LEMMA SeeingKeeps ==
  ASSUME IInv,
         \/ SeeNothing \/ SeePosition \/ KeepHeldBack \/ CleanUp \/ Protect
         \/ \E x \in Exits : ReconcileExit(x)
  PROVE  IInv'
<1>1. /\ StepOk(World) /\ World.run = run /\ World.ledger = ledger
      /\ World.held = held
  BY WorldGood DEF StepOk, World
<1>2. CASE SeeNothing
  <2>1. /\ World.run.at = "positions" /\ World.held = 0
        /\ Commit(Goto(World, "cleanup"))
    BY <1>1, <1>2 DEF SeeNothing
  <2>2. QED
    BY <1>1, <2>1, SeeNothingOk, CommitKeeps
<1>3. CASE SeePosition
  <2>1. /\ World.run.at = "positions"
        /\ \E w \in Observed(World) :
             \/ Commit([Goto(w, "ensure") EXCEPT !.run.seen = held])
             \/ Commit(Goto(w, "heldback"))
             \/ \E x \in Exits : /\ World.ledger[x] = "none"
                                 /\ Commit([Goto(w, "exit") EXCEPT !.run.exit = x])
    BY <1>1, <1>3 DEF SeePosition
  <2>2. PICK w \in Observed(World) :
          \/ Commit([Goto(w, "ensure") EXCEPT !.run.seen = held])
          \/ Commit(Goto(w, "heldback"))
          \/ \E x \in Exits : /\ World.ledger[x] = "none"
                              /\ Commit([Goto(w, "exit") EXCEPT !.run.exit = x])
    BY <2>1
  <2>3. /\ StepOk([Goto(w, "ensure") EXCEPT !.run.seen = held])
        /\ StepOk(Goto(w, "heldback"))
        /\ \A x \in Exits : World.ledger[x] = "none" =>
             StepOk([Goto(w, "exit") EXCEPT !.run.exit = x])
    BY <1>1, <2>1, SeePositionOk
  <2>4. CASE Commit([Goto(w, "ensure") EXCEPT !.run.seen = held])
    BY <2>3, <2>4, CommitKeeps
  <2>5. CASE Commit(Goto(w, "heldback"))
    BY <2>3, <2>5, CommitKeeps
  <2>6. CASE \E x \in Exits : /\ World.ledger[x] = "none"
                              /\ Commit([Goto(w, "exit") EXCEPT !.run.exit = x])
    BY <2>3, <2>6, CommitKeeps
  <2>7. QED
    BY <2>2, <2>4, <2>5, <2>6
<1>4. CASE KeepHeldBack
  <2>1. Commit(HeldBack(World))
    BY <1>4 DEF KeepHeldBack
  <2>2. QED
    BY <1>1, <2>1, HeldBackOk, CommitKeeps
<1>5. CASE CleanUp
  <2>1. World.run.at = "cleanup" /\ Commit(CleanedUp(World))
    BY <1>1, <1>5 DEF CleanUp
  <2>2. QED
    BY <1>1, <2>1, CleanedUpOk, CommitKeeps
<1>6. CASE Protect
  <2>1. World.run.at = "protect" /\ Commit(ProtectedRemainder(World))
    BY <1>1, <1>6 DEF Protect
  <2>2. QED
    BY <1>1, <2>1, ProtectedRemainderOk, CommitKeeps
<1>7. CASE \E x \in Exits : ReconcileExit(x)
  <2>1. PICK x \in Exits : ReconcileExit(x)
    BY <1>7
  <2>2. /\ World.run.at = "orders" /\ World.ledger[x] = "unfinished"
        /\ Commit(ExitReconciled(World, x))
    BY <1>1, <2>1 DEF ReconcileExit
  <2>3. QED
    BY <1>1, <2>2, ExitReconciledOk, CommitKeeps
<1>8. QED
  BY <1>2, <1>3, <1>4, <1>5, <1>6, <1>7

\* A run begins or ends where nothing else changes.
LEMMA RunningKeeps ==
  ASSUME IInv, StartRun \/ Break \/ EndRun
  PROVE  IInv'
<1> DEFINE v == [World EXCEPT !.run = run']
<1>1. StepOk(World) /\ World.run = run /\ World.wire = wire /\ World.ledger = ledger
  BY WorldGood DEF StepOk, World
<1>2. run' \in Runs
  BY OffType DEF StartRun, Break, EndRun, Off, Runs
<1>3. UNCHANGED <<Books, venue, held, wire>>
  BY DEF StartRun, Break, EndRun
<1>4. Becomes(v)
  BY <1>3 DEF Books, Becomes, World
<1>5. RunOk(v)
  <2>1. \/ run' = Off
        \/ /\ wire = {}
           /\ run'.at = IF \E x \in Exits : ledger[x] = "unfinished" THEN "orders"
                        ELSE "positions"
    BY DEF StartRun, Break, EndRun, Off
  <2>2. v.run = run' /\ v.wire = wire /\ v.ledger = ledger
    BY DEF World
  <2> HIDE DEF v
  <2>3. CASE run' = Off
    BY <2>2, <2>3, OffType DEF RunOk, Quiet, BetweenExits, Exiting
  <2>4. CASE run'.at = "orders" /\ wire = {}
    BY <2>2, <2>4 DEF RunOk, Quiet, BetweenExits, Exiting
  <2>5. CASE /\ run'.at = "positions" /\ wire = {}
             /\ ~\E x \in Exits : ledger[x] = "unfinished"
    <3>1. OpenExits(v) = {}
      BY <2>2, <2>5 DEF OpenExits
    <3>2. QED
      BY <2>2, <2>5, <3>1 DEF RunOk, Quiet, BetweenExits, Exiting
  <2>6. QED
    BY <2>1, <2>3, <2>4, <2>5
<1> DEFINE r == run'
<1> HIDE DEF r
<1>6. r = run'
  BY DEF r
<1>7. v = [World EXCEPT !.run = r]
  BY <1>6
<1>8. Good(v)
  BY <1>1, <1>2, <1>6, <1>7, RunGood DEF StepOk
<1> HIDE DEF v
<1>9. QED
  BY <1>4, <1>5, <1>8, GoodType, BecomesKeeps

LEMMA ResolvingKeeps ==
  ASSUME IInv, NEW x \in Exits, ResolveUnsubmitted(x)
  PROVE  IInv'
<1>1. Good(World) /\ World.run = run /\ World.mem = mem
  BY WorldGood DEF World
<1> DEFINE u == IF World.mem.orders[x].status = "REJECTED" THEN World
                ELSE Log(World, Ev("ORDER_REJECTED", x))
<1>2. /\ World.run = Off /\ ~World.mem.orders[x].io_started /\ Commit(Close(u, x))
  BY <1>1 DEF ResolveUnsubmitted
<1>3. StepOk(Close(u, x))
  BY <1>1, <1>2, ResolveUnsubmittedOk
<1> HIDE DEF u
<1>4. QED
  BY <1>2, <1>3, CommitKeeps

LEMMA NextIInv ==
  ASSUME IInv, [Next]_vars
  PROVE  IInv'
<1>1. CASE StartRun \/ Break \/ EndRun
  BY <1>1, RunningKeeps
<1>2. CASE Ensure \/ CancelStop \/ AnswerStop \/ StopCallFails \/ Recover
  BY <1>2, EnsuringKeeps
<1>3. CASE \/ BeginExit \/ HandOver \/ CheckStop \/ AnswerExit \/ ExitCallFails
           \/ PollExit \/ CancelResidual
  BY <1>3, ExitingKeeps
<1>4. CASE \/ SeeNothing \/ SeePosition \/ KeepHeldBack \/ CleanUp \/ Protect
           \/ \E x \in Exits : ReconcileExit(x)
  BY <1>4, SeeingKeeps
<1>5. CASE \E x \in Exits : ResolveUnsubmitted(x)
  BY <1>5, ResolvingKeeps
<1>6. CASE \E k \in Sells :
             VenueTakes(k) \/ RequestLost(k) \/ VenueFills(k) \/ VenueExpires(k)
  BY <1>6, VenueKeeps
<1>7. CASE UNCHANGED vars
  <2>1. Becomes(World)
    BY <1>7 DEF vars, Becomes, World
  <2>2. World \in Worlds /\ Safe(World) /\ RunOk(World)
    BY WorldGood, GoodType
  <2>3. QED
    BY <2>1, <2>2, BecomesKeeps
<1>8. QED
  BY <1>1, <1>2, <1>3, <1>4, <1>5, <1>6, <1>7 DEF Next, RunStep
-----------------------------------------------------------------------------
(* The initial state: the entry was sent, answered and booked.             *)

\* A lifecycle that says nothing of a sell that is not true.
Lifecycle(w) ==
  /\ w = [mem |-> w.mem, crashes |-> w.crashes]
  /\ w.mem \in State /\ MemOk(w.mem, World)

LEMMA EntryLog ==
  ASSUME NEW w, Lifecycle(w), World.venue \in Venues, NEW e \in Event, e.intent = Entry
  PROVE  Lifecycle(Log(w, e))
<1> DEFINE s == Apply(w.mem, e)
           c == w.crashes \cup {[w EXCEPT !.crashes = {}]}
<1>1. w = [mem |-> w.mem, crashes |-> w.crashes] /\ w.mem \in State
  BY DEF Lifecycle
<1>2. s \in State /\ MemOk(s, World)
  BY EntryType, ApplyType, ApplyMemOk DEF Lifecycle
<1> HIDE DEF s, c
<1>3. [w EXCEPT !.mem = s] = [mem |-> s, crashes |-> w.crashes]
  BY <1>1
<1>4. Log(w, e) = [[w EXCEPT !.mem = s] EXCEPT
                     !.crashes = @ \cup {[w EXCEPT !.crashes = {}]}]
  BY DEF Log, Durably, s
<1>5. Log(w, e) = [mem |-> s, crashes |-> c]
  BY <1>3, <1>4 DEF c
<1>6. QED
  BY <1>2, <1>5 DEF Lifecycle

LEMMA BookedEntryType ==
  ASSUME World.venue \in Venues, \A k \in Sells : ~Reached(World, k),
         \A k \in Sells : World.venue[k].filled = 0
  PROVE  BookedEntry \in State /\ MemOk(BookedEntry, World)
<1> DEFINE none == [mem |-> EmptyState, crashes |-> {}]
           event(type) == Ev(type, Entry)
           filled == [status |-> "filled", filled |-> Size[Entry]]
           created == Log(none, event("ORDER_INTENT_CREATED"))
           approved == Log(created, event("RISK_APPROVED"))
           authorized == Log(approved, event("ORDER_AUTHORIZED"))
           requested == Log(authorized, event("BROKER_SUBMISSION_REQUESTED"))
           started == Log(requested, event("BROKER_IO_STARTED"))
           known == IF filled.status \in Accepted /\ ~started.mem.orders[Entry].exchange_id
                    THEN Identify(started, Entry) ELSE started
           acknowledged == Log(known, event("BROKER_ACKNOWLEDGED"))
           fill == [Ev("FILL_RECEIVED", Entry) EXCEPT !.qty = Size[Entry]]
           named == [Ev("ORDER_SUBMITTED", Entry) EXCEPT !.exchange_id = TRUE,
                       !.qty = Size[Entry], !.authorized = Size[Entry]]
           booked == Log(acknowledged, fill)
<1>1. Entry \in Intents /\ Size[Entry] \in Nat
  BY EntryType, IntentsAssumption
<1>2. \A type \in EventTypes : event(type) \in Event /\ event(type).intent = Entry
  BY <1>1, NoDecisionType DEF Ev, Event
<1>3. /\ named \in Event /\ named.intent = Entry
      /\ fill \in Event /\ fill.intent = Entry
  BY <1>1, NoDecisionType DEF Ev, Event, EventTypes
<1>4. Lifecycle(none)
  <2>1. none.mem = EmptyState /\ none = [mem |-> none.mem, crashes |-> none.crashes]
    OBVIOUS
  <2>2. \A k \in Sells : /\ EmptyState.orders[k] = NewOrder("ABSENT")
                         /\ k \notin EmptyState.unresolved
    BY SellType DEF EmptyState
  <2>3. MemOk(EmptyState, World)
    BY <2>2 DEF MemOk, OrderOk, NewOrder
  <2> HIDE DEF none
  <2>4. QED
    BY <2>1, <2>3, EmptyStateType DEF Lifecycle
<1>5. BookedEntry = booked.mem
  <2>1. filled.status = "filled" /\ filled.filled = Size[Entry]
    OBVIOUS
  <2>2. BookedEntry = RecordBrokerFact(started, Entry, filled).mem
    BY DEF BookedEntry
  <2>3. RecordBrokerFact(started, Entry, filled) = RecordSubmitResult(known, Entry, filled)
    BY DEF RecordBrokerFact
  <2> HIDE DEF filled, known
  <2>4. RecordSubmitResult(known, Entry, filled) = booked
    BY <2>1 DEF RecordSubmitResult
  <2>5. QED
    BY <2>2, <2>3, <2>4
<1>6. /\ Identify(started, Entry) = Log(started, named)
      /\ known = Identify(started, Entry) \/ known = started
  BY DEF Identify
<1>7. {"ORDER_INTENT_CREATED", "RISK_APPROVED", "ORDER_AUTHORIZED",
       "BROKER_SUBMISSION_REQUESTED", "BROKER_IO_STARTED", "BROKER_ACKNOWLEDGED"}
        \subseteq EventTypes
  BY DEF EventTypes
<1> HIDE DEF none, event, filled, named, fill
<1>8. Lifecycle(created)
  BY <1>2, <1>4, <1>7, EntryLog
<1> HIDE DEF created
<1>9. Lifecycle(approved)
  BY <1>2, <1>7, <1>8, EntryLog
<1> HIDE DEF approved
<1>10. Lifecycle(authorized)
  BY <1>2, <1>7, <1>9, EntryLog
<1> HIDE DEF authorized
<1>11. Lifecycle(requested)
  BY <1>2, <1>7, <1>10, EntryLog
<1> HIDE DEF requested
<1>12. Lifecycle(started)
  BY <1>2, <1>7, <1>11, EntryLog
<1> HIDE DEF started
<1>13. Lifecycle(known)
  BY <1>3, <1>6, <1>12, EntryLog
<1> HIDE DEF known
<1>14. Lifecycle(acknowledged)
  BY <1>2, <1>7, <1>13, EntryLog
<1> HIDE DEF acknowledged
<1>15. Lifecycle(booked)
  BY <1>3, <1>14, EntryLog
<1> HIDE DEF booked
<1>16. QED
  BY <1>5, <1>15 DEF Lifecycle

LEMMA InitIInv ==
  ASSUME Init
  PROVE  IInv
<1> DEFINE w == World
<1>1. /\ w.mem = BookedEntry /\ w.record = NoRecord
      /\ w.ledger = [x \in Exits |-> "none"] /\ w.price = [s \in Stops |-> 0]
      /\ w.venue = [k \in Sells |-> [state |-> "absent", filled |-> 0]]
      /\ w.held = Size[Entry] /\ w.wire = {} /\ w.run = Off
  BY DEF Init, World
<1>2. /\ w.venue \in Venues
      /\ \A k \in Sells : w.venue[k].state = "absent" /\ w.venue[k].filled = 0
  BY <1>1 DEF Venues
<1>3. \A k \in Sells : ~Reached(w, k) /\ ~Working(w, k)
  BY <1>1, <1>2 DEF Reached, Working
<1>4. BookedEntry \in State /\ MemOk(BookedEntry, w)
  BY <1>2, <1>3, BookedEntryType
<1>5. TypeOK
  <2>1. Size[Entry] \in Nat
    BY EntryType, IntentsAssumption
  <2>2. NoRecord \in [trail : 0 .. MaxLevel, active : Stops \cup {Nil},
                      pending : Stops \cup {Nil}]
    BY KindsType DEF NoRecord
  <2>3. /\ mem \in State /\ price \in [Stops -> 0 .. MaxLevel] /\ venue \in Venues
        /\ record = NoRecord /\ held = Size[Entry] /\ wire = {} /\ run \in Runs
    BY <1>1, <1>2, <1>4, KindsType, OffType DEF World
  <2>4. ledger \in [Exits -> {"none", "unfinished", "closed"}]
    BY <1>1 DEF World
  <2>5. QED
    BY <2>1, <2>2, <2>3, <2>4 DEF TypeOK, Venues
<1> HIDE DEF w
<1>6. \A k \in Sells : VenueOk(w, k) /\ CoverOk(w, k)
  BY <1>1, <1>2 DEF VenueOk, CoverOk
<1>7. OneWorks(w) /\ RecordOk(w)
  BY <1>1, <1>3, KindsType DEF OneWorks, RecordOk, NoRecord
<1>8. PriceOk(w)
  BY <1>1, <1>3, KindsType DEF PriceOk, NoRecord
<1>9. LedgerOk(w)
  BY <1>1, <1>3, KindsType DEF LedgerOk
<1>10. Safe(w)
  BY <1>1, <1>4, <1>6, <1>7, <1>8, <1>9 DEF Safe
<1>11. RunOk(w)
  BY <1>1, OffType DEF RunOk, Quiet, BetweenExits, Exiting
<1>12. QED
  BY <1>5, <1>10, <1>11 DEF IInv, w
-----------------------------------------------------------------------------
(* The theorems                                                            *)

THEOREM InvariantHolds == Spec => []IInv
<1>1. IInv /\ [Next]_vars => IInv'
  BY NextIInv
<1>2. QED
  BY <1>1, InitIInv, PTL DEF Spec

\* Whatever is lost and wherever a run dies, the three books, the venue and the
\* run stay well formed, and what is held never falls below nothing: the account
\* is not sold short (execute_orders, ensure_protective_stop).
THEOREM StopsTypeCorrect == Spec => []TypeOK
<1>1. IInv => TypeOK
  BY DEF IInv
<1>2. QED
  BY <1>1, InvariantHolds, PTL

\* ensure_protective_stop and reconcile_protective_stop never lose a stop that
\* rests at the venue or is on its way: the risk state's record names it.
THEOREM StopsAreKnown == Spec => []BooksKnowStops
<1>1. IInv => BooksKnowStops
  BY DEF IInv, Safe, RecordOk, Working, World, BooksKnowStops
<1>2. QED
  BY <1>1, InvariantHolds, PTL

\* The lifecycle never books more of a stop or an exit than the venue sold,
\* through however many lookups and by whichever path it is recorded
\* (record_broker_fact, _record_reconciled_submission, _book_protective_stop_fill).
THEOREM SalesAreReal == Spec => []NoSyntheticFills
<1>1. IInv => NoSyntheticFills
  BY DEF IInv, Safe, MemOk, OrderOk, World, NoSyntheticFills
<1>2. QED
  BY <1>1, InvariantHolds, PTL

\* A run that completes leaves what is still held under a stop the venue took,
\* for the whole quantity (ensure_protective_stop, protect_held_back_exits).
THEOREM RunsLeaveCover == Spec => []CompletedRunIsCovered
<1>1. IInv => CompletedRunIsCovered
  BY DEF IInv, Safe, RecordOk, RunOk, World, CompletedRunIsCovered
<1>2. QED
  BY <1>1, InvariantHolds, PTL

\* A stop and an exit, or two of either, never work at the venue together: the
\* hand-over of execute_orders and the replacement of a stop cancel first.
THEOREM NothingSoldTwice == Spec => OneSellAtATime
<1>1. ASSUME IInv'
      PROVE  \A k \in wire' \ wire :
               \A j \in Sells \ {k} : j \notin wire' /\ venue'[j].state # "open"
  <2>1. wire' \subseteq Sells
    BY <1>1 DEF IInv, TypeOK
  <2>2. \A j, k \in Sells :
          /\ j \in wire' \/ venue'[j].state = "open"
          /\ k \in wire' \/ venue'[k].state = "open"
          => j = k
    BY <1>1 DEF IInv, Safe, OneWorks, Working, World
  <2>3. QED
    BY <2>1, <2>2
<1>2. IInv' =>
        [\A k \in wire' \ wire :
           \A j \in Sells \ {k} : j \notin wire' /\ venue'[j].state # "open"]_vars
  BY <1>1
<1>3. QED
  BY <1>2, InvariantHolds, PTL DEF OneSellAtATime

\* However stops are lost, replaced and restored, a new one is never below one
\* the venue accepted before (observe_position_risk, reserve_protective_order).
THEOREM StopsOnlyTighten == Spec => StopNeverLoosens
<1>1. ASSUME IInv', NEW s \in Stops \cap (wire' \ wire), NEW t \in Stops
      PROVE  price'[s] >= price'[t]
  <2>1. /\ price'[s] = record'.trail /\ Size[s] = held'
        /\ held' > 0 => price'[t] =< record'.trail
    BY <1>1, KindsType DEF IInv, Safe, CoverOk, RecordOk, PriceOk, World
  <2>2. price'[s] \in Nat /\ price'[t] \in Nat
    BY <1>1, KindsType DEF IInv, TypeOK
  <2>3. Size[s] > 0
    BY SellType, KindsType
  <2>4. QED
    BY <2>1, <2>2, <2>3
<1>2. IInv' =>
        [\A s \in Stops \cap (wire' \ wire), t \in Stops :
           venue'[t].state # "absent" => price'[s] >= price'[t]]_vars
  BY <1>1
<1>3. QED
  BY <1>2, InvariantHolds, PTL DEF StopNeverLoosens
=============================================================================
