------------------------ MODULE LiveSubmissionProofs ------------------------
(***************************************************************************)
(* The live runner carries an entry to the venue at most once and books    *)
(* only what the venue filled, for every set of entries and every size,    *)
(* whatever dies and whatever answer is lost; and its ledger keeps the     *)
(* promise of OrderPromise.                                                *)
(*                                                                         *)
(* The argument: each book is compared with the venue alone, key by key    *)
(* (EntryOk, OrderOk), and so is every world a death may leave behind; a   *)
(* run knows which other orders are closed (RunOk).                        *)
(***************************************************************************)
EXTENDS LiveSubmission, LifecycleStateProofs

-----------------------------------------------------------------------------
(* The invariant                                                           *)

Entry == [status : LedgerStatuses \cup {"raised"}, filled : Nat, evidence : BOOLEAN]

\* A venue hears of a key once and its last word stands.
VenueOk(k) ==
  LET v == venue[k] IN
  /\ sends[k] \in {0, 1}
  /\ k \in wire => sends[k] = 1 /\ v.state = "absent"
  /\ sends[k] = 0 => v.state = "absent"
  /\ v.state = "absent" => v.filled = 0
  /\ v.state \in {"open", "expired"} => v.filled < Size[k]
  /\ v.state = "filled" => v.filled = Size[k]

\* What a ledger entry says of k is true of the venue.
EntryOk(r, k) ==
  /\ r.status = "none" => r = NoEntry /\ sends[k] = 0
  /\ r.filled =< venue[k].filled
  /\ r.status \in {"filled", "expired"} =>
       r.evidence /\ venue[k].state = r.status /\ r.filled = venue[k].filled
  /\ r.status = "rejected" => ~r.evidence /\ r.filled = 0 /\ sends[k] = 0
  /\ r.status # "raised"

\* What the lifecycle says of k is true of the venue.  An order nobody could
\* identify, or whose outcome is unknown, has booked nothing: its cumulative
\* fill may be booked whole.
OrderOk(o, unresolved, k) ==
  /\ o.filled =< venue[k].filled
  /\ o.filled > 0 => o.exchange_id
  /\ sends[k] = 1 => o.io_started
  /\ unresolved => o.filled = 0
  /\ o.status = "FILLED" => venue[k].state = "filled"
  /\ o.status \in {"CANCELED", "REJECTED"} =>
       venue[k].state = "expired" \/ sends[k] = 0

MemOk(s) == \A k \in Intents : OrderOk(s.orders[k], k \in s.unresolved, k)

BooksOk(w) == (\A k \in Intents : EntryOk(w.ledger[k], k)) /\ MemOk(w.mem)

Closed(w, k) == w.ledger[k].status \in Terminal \cup {"none"}

\* Whom a run still has to look at, and that all others are closed.
RunOk(w) ==
  LET r == w.run IN
  /\ r.at = "reconcile" \/ (r.at = "poll" /\ r.why = "restart") =>
       /\ \A j \in r.left : ~Closed(w, j)
       /\ ~r.blocked => \A j \in Intents : j \in r.left \/ Closed(w, j)
  /\ r.at = "batch" => \A j \in Intents : Closed(w, j)
  /\ r.at = "calling" \/ (r.at = "poll" /\ r.why # "restart") =>
       \A j \in Intents : j = r.key \/ Closed(w, j)
  /\ r.at = "poll" => /\ w.ledger[r.key].status = "reconciling"
                      /\ r.why = "restart" => r.key \in r.left
  /\ r.at = "calling" => /\ w.ledger[r.key].status = "reserved"
                         /\ w.mem.orders[r.key].filled = 0

IInv ==
  /\ TypeOK
  /\ \A k \in Intents : VenueOk(k)
  /\ BooksOk(World)
  /\ RunOk(World)

-----------------------------------------------------------------------------
(* Worlds                                                                  *)

Cores ==
  [ledger : [Intents -> Entry], mem : State, claims : SUBSET Intents, run : Runs,
   crashes : {{}}]

Worlds ==
  [ledger : [Intents -> Entry], mem : State, claims : SUBSET Intents, run : Runs,
   crashes : SUBSET Cores]

\* A step on behalf of k leaves the other ledger entries alone.
Within(w, k) ==
  BooksOk(w) /\ \A j \in Intents : j # k => w.ledger[j] = ledger[j]

Good(w, k) == w \in Worlds /\ Within(w, k) /\ \A d \in w.crashes : Within(d, k)

LEMMA WorldGood ==
  ASSUME IInv, NEW k \in Intents
  PROVE  /\ Good(World, k)
         /\ World.ledger = ledger /\ World.mem = mem /\ World.claims = claims
         /\ World.run = run
  BY DEF IInv, TypeOK, Entry, World, Worlds, Good, Within

LEMMA DurablyGood ==
  ASSUME NEW k \in Intents, NEW w, Good(w, k), NEW next \in Worlds,
         next.crashes = w.crashes, Within(next, k)
  PROVE  /\ Good(Durably(w, next), k)
         /\ Durably(w, next).ledger = next.ledger
         /\ Durably(w, next).mem = next.mem
         /\ Durably(w, next).claims = next.claims
         /\ Durably(w, next).run = next.run
<1> DEFINE core == [w EXCEPT !.crashes = {}]
           r == Durably(w, next)
<1>1. core \in Cores /\ core.ledger = w.ledger /\ core.mem = w.mem
  BY DEF Good, Worlds, Cores
<1>2. Within(core, k)
  BY <1>1 DEF Good, Within, BooksOk
<1> HIDE DEF core
<1>3. /\ r \in Worlds /\ r.ledger = next.ledger /\ r.mem = next.mem
      /\ r.claims = next.claims /\ r.run = next.run
      /\ r.crashes = w.crashes \cup {core}
  BY <1>1 DEF Durably, Worlds, core
<1> HIDE DEF r
<1>4. Within(r, k)
  BY <1>3 DEF Within, BooksOk
<1>5. QED
  BY <1>2, <1>3, <1>4 DEF Good, r

-----------------------------------------------------------------------------
(* Writing to the lifecycle                                                *)

RecordingEvents ==
  PreparingEvents \cup FillEvents \cup
  {"ORDER_INTENT_CREATED", "ORDER_SUBMITTED", "ORDER_REJECTED",
   "BROKER_ACKNOWLEDGED", "BROKER_STATE_UNKNOWN", "CANCEL_REQUESTED",
   "CANCEL_CONFIRMED", "RECONCILIATION_STARTED", "RECONCILIATION_RESOLVED"}

\* When an event of the runner says no more than the venue does.
Justified(s, e) ==
  LET k == e.intent IN
  /\ e.type \in RecordingEvents
  /\ e.type = "ORDER_INTENT_CREATED" => sends[k] = 0
  /\ e.type = "ORDER_SUBMITTED" => e.exchange_id
  /\ e.type = "BROKER_STATE_UNKNOWN" => s.orders[k].filled = 0
  /\ e.type = "ORDER_REJECTED" => venue[k].state = "expired" \/ sends[k] = 0
  /\ e.type = "CANCEL_CONFIRMED" => e.evidence = "CANCELED" /\ venue[k].state = "expired"
  /\ e.type \in FillEvents =>
       /\ s.orders[k].filled + e.qty =< venue[k].filled
       /\ Exists(s, k) => s.orders[k].exchange_id /\ k \notin s.unresolved

LEMMA ApplyMemOk ==
  ASSUME TypeOK, NEW s \in State, NEW e \in Event, MemOk(s), Justified(s, e),
         VenueOk(e.intent)
  PROVE  MemOk(Apply(s, e))
<1> DEFINE k == e.intent
           r == Apply(s, e)
           o == s.orders[k]
           p == r.orders[k]
<1>1. /\ k \in Intents /\ o \in Order /\ r \in State /\ p \in Order /\ e.qty \in Nat
      /\ OrderOk(o, k \in s.unresolved, k) /\ venue[k].filled \in Nat
      /\ VenueOk(k) /\ venue[k].state \in {"absent", "open", "filled", "expired"}
  BY ApplyType DEF Event, State, MemOk, TypeOK
<1>2. ASSUME NEW j \in Intents, j # k
      PROVE  OrderOk(r.orders[j], j \in r.unresolved, j)
  BY <1>2, ApplyElsewhere DEF MemOk
<1>3. /\ o.filled \in Nat /\ p.filled \in Nat /\ Size[k] \in Nat \ {0}
      /\ sends[k] \in {0, 1}
  BY <1>1, IntentsAssumption DEF Order, VenueOk
<1>4. OrderOk(p, k \in r.unresolved, k)
  <2>1. CASE e.type = "ORDER_INTENT_CREATED"
    <3>1. p = NewOrder("PENDING") /\ r.unresolved = s.unresolved
      BY <2>1, ApplyAt DEF Apply, OnOrderIntentCreated, State
    <3>2. QED
      BY <1>1, <1>3, <2>1, <3>1 DEF OrderOk, NewOrder, Justified
  <2>2. CASE e.type # "ORDER_INTENT_CREATED" /\ ~Exists(s, k)
    <3>1. p = o
      BY <2>2, ApplyAt
    <3>2. CASE e.type = "BROKER_STATE_UNKNOWN"
      BY <1>1, <3>1, <3>2 DEF Justified, OrderOk
    <3>3. CASE e.type # "BROKER_STATE_UNKNOWN"
      <4>1. r.unresolved \subseteq s.unresolved
        BY <3>3, ApplyUnresolved
        DEF Justified, RecordingEvents, PreparingEvents, FillEvents
      <4>2. QED
        BY <1>1, <3>1, <4>1 DEF OrderOk
    <3>4. QED
      BY <3>2, <3>3
  <2>3. CASE e.type # "ORDER_INTENT_CREATED" /\ Exists(s, k)
    <3>1. /\ e.type # "ORDER_SUBMITTED" => p.exchange_id = o.exchange_id
          /\ e.type \notin FillEvents => p.filled = o.filled
          /\ e.type # "BROKER_IO_STARTED" => p.io_started = o.io_started
      BY <2>3, ApplyAt
    <3> HIDE DEF p, r, o, k
    <3>2. CASE e.type \in FillEvents
      <4>1. /\ p.filled = IF o.filled + e.qty < Size[k] THEN o.filled + e.qty
                          ELSE Size[k]
            /\ p.status = IF p.filled = Size[k] THEN "FILLED" ELSE "PARTIALLY_FILLED"
            /\ r.unresolved = s.unresolved
        BY <2>3, <3>2, ApplyStatus DEF p, r, o, k, FillEvents, SettlingEvents
      <4>2. /\ o.filled + e.qty =< venue[k].filled /\ o.exchange_id
            /\ k \notin s.unresolved
        BY <2>3, <3>2 DEF Justified, o, k
      <4>3. p.filled =< venue[k].filled
        BY <1>1, <1>3, <4>1, <4>2
      <4>4. p.filled = Size[k] => venue[k].state = "filled"
        BY <1>1, <1>3, <4>3 DEF VenueOk
      <4>5. QED
        BY <1>1, <3>1, <3>2, <4>1, <4>2, <4>3, <4>4 DEF OrderOk, FillEvents
    <3>3. CASE e.type \in PreparingEvents \cup {"ORDER_SUBMITTED"}
      <4>1. /\ p.status \in {"APPROVED", "AUTHORIZED", "SUBMITTED", o.status}
            /\ r.unresolved = s.unresolved
            /\ e.type = "BROKER_IO_STARTED" => p.io_started
            /\ e.type = "ORDER_SUBMITTED" => p.exchange_id
        BY <2>3, <3>3, ApplyStatus
        DEF p, r, o, k, PreparingEvents, FillEvents, SettlingEvents, Justified
      <4>2. QED
        BY <1>1, <3>1, <3>3, <4>1 DEF OrderOk, FillEvents, PreparingEvents
    <3>4. CASE e.type \in {"ORDER_REJECTED", "BROKER_ACKNOWLEDGED"}
      <4>1. /\ p.status = IF e.type = "ORDER_REJECTED" THEN "REJECTED"
                          ELSE "ACKNOWLEDGED"
            /\ r.unresolved = s.unresolved \ {k}
        BY <2>3, <3>4, ApplyStatus DEF p, r, o, k, SettlingEvents, SettledStatus
      <4>2. QED
        BY <1>1, <3>1, <3>4, <4>1 DEF OrderOk, FillEvents, Justified, k
    <3>5. CASE e.type = "BROKER_STATE_UNKNOWN"
      <4>1. p.status = "MANUAL" /\ o.filled = 0
        BY <2>3, <3>5, ApplyStatus DEF p, r, o, k, Justified
      <4>2. QED
        BY <1>1, <1>3, <3>1, <3>5, <4>1 DEF OrderOk, FillEvents
    <3>6. CASE e.type \in {"CANCEL_REQUESTED", "CANCEL_CONFIRMED"}
      <4>1. /\ p.status = IF e.type = "CANCEL_CONFIRMED" THEN "CANCELED"
                          ELSE IF o.status = "FILLED" THEN "FILLED"
                          ELSE "CANCEL_REQUESTED"
            /\ r.unresolved = s.unresolved
        BY <2>3, <3>6, ApplyStatus
        DEF p, r, o, k, SettlingEvents, FillEvents, Justified
      <4>2. QED
        BY <1>1, <3>1, <3>6, <4>1 DEF OrderOk, FillEvents, Justified, k
    <3>7. CASE e.type \in {"RECONCILIATION_STARTED", "RECONCILIATION_RESOLVED"}
      <4>1. p = o /\ r.unresolved = s.unresolved
        BY <2>3, <3>7, ApplyStatus DEF p, r, o, k, SettlingEvents
      <4>2. QED
        BY <1>1, <4>1
    <3>8. QED
      BY <2>3, <3>2, <3>3, <3>4, <3>5, <3>6, <3>7 DEF Justified, RecordingEvents
  <2>4. QED
    BY <2>1, <2>2, <2>3
<1>5. QED
  BY <1>2, <1>4 DEF MemOk
LEMMA EvType ==
  ASSUME NEW k \in Intents, NEW type \in EventTypes, NEW n \in Nat, NEW m \in Nat
  PROVE  /\ Ev(type, k) \in Event
         /\ [Ev(type, k) EXCEPT !.qty = n] \in Event
         /\ [Ev(type, k) EXCEPT !.authorized = n] \in Event
         /\ [Ev(type, k) EXCEPT !.exchange_id = TRUE, !.qty = n, !.authorized = m]
              \in Event
  BY NoDecisionType DEF Ev, Event

LEMMA LogGood ==
  ASSUME IInv, NEW k \in Intents, NEW w, Good(w, k),
         NEW e \in Event, e.intent = k, Justified(w.mem, e)
  PROVE  /\ Good(Log(w, e), k)
         /\ Log(w, e).mem = Apply(w.mem, e) /\ Log(w, e).ledger = w.ledger
         /\ Log(w, e).claims = w.claims /\ Log(w, e).run = w.run
<1> DEFINE next == [w EXCEPT !.mem = Apply(@, e)]
<1>1. w \in Worlds /\ w.mem \in State /\ MemOk(w.mem) /\ BooksOk(w)
  BY DEF Good, Within, BooksOk, Worlds
<1>2. Apply(w.mem, e) \in State
  BY <1>1, ApplyType
<1>3. MemOk(Apply(w.mem, e))
  BY <1>1, ApplyMemOk DEF IInv
<1>4. /\ next \in Worlds /\ next.crashes = w.crashes
      /\ next.mem = Apply(w.mem, e) /\ next.ledger = w.ledger
      /\ next.claims = w.claims /\ next.run = w.run
  BY <1>1, <1>2 DEF Worlds
<1>5. Log(w, e) = Durably(w, next)
  BY DEF Log
<1> HIDE DEF next
<1>6. Within(next, k)
  BY <1>1, <1>3, <1>4 DEF Good, Within, BooksOk
<1>7. QED
  BY <1>4, <1>5, <1>6, DurablyGood

-----------------------------------------------------------------------------
(* Writing to the order ledger                                             *)

\* A write of one ledger entry that is true of the venue.
LEMMA EntryGood ==
  ASSUME IInv, NEW k \in Intents, NEW w, Good(w, k),
         NEW r \in Entry, EntryOk(r, k)
  PROVE  LET next == Durably(w, [w EXCEPT !.ledger[k] = r]) IN
         /\ Good(next, k) /\ next.ledger = [w.ledger EXCEPT ![k] = r]
         /\ next.mem = w.mem /\ next.claims = w.claims /\ next.run = w.run
<1> DEFINE next == [w EXCEPT !.ledger[k] = r]
<1>1. /\ next \in Worlds /\ next.crashes = w.crashes
      /\ next.ledger = [w.ledger EXCEPT ![k] = r] /\ next.mem = w.mem
      /\ next.claims = w.claims /\ next.run = w.run
  BY DEF Good, Worlds
<1>2. w.ledger \in [Intents -> Entry]
  BY DEF Good, Worlds
<1> HIDE DEF next
<1>3. Within(next, k)
  BY <1>1, <1>2 DEF Good, Within, BooksOk
<1>4. QED
  <2>1. /\ Good(Durably(w, next), k)
        /\ Durably(w, next).ledger = next.ledger
        /\ Durably(w, next).mem = next.mem
        /\ Durably(w, next).claims = next.claims
        /\ Durably(w, next).run = next.run
    BY <1>1, <1>3, DurablyGood
  <2>2. QED
    BY <1>1, <2>1 DEF next

\* update_order with a status the table allows.
LEMMA MarkGood ==
  ASSUME IInv, NEW k \in Intents, NEW w, Good(w, k),
         NEW status \in LedgerStatuses, status \in LedgerTransitions(w.ledger[k].status)
                                          \cup {w.ledger[k].status},
         status \notin Terminal \cup {"none"} \/
           (status = "rejected" /\ ~w.ledger[k].evidence /\ w.ledger[k].filled = 0
              /\ sends[k] = 0)
  PROVE  /\ Good(Mark(w, k, status), k)
         /\ Mark(w, k, status).ledger =
              [w.ledger EXCEPT ![k] = [@ EXCEPT !.status = status]]
         /\ Mark(w, k, status).mem = w.mem /\ Mark(w, k, status).claims = w.claims
         /\ Mark(w, k, status).run = w.run
<1> DEFINE old == w.ledger[k]
           r == [status |-> status, filled |-> old.filled, evidence |-> old.evidence]
<1>1. old \in Entry /\ EntryOk(old, k)
  BY DEF Good, Worlds, Within, BooksOk
<1>2. old.filled \in Nat /\ old.evidence \in BOOLEAN
  BY <1>1 DEF Entry
<1>3. Updated(old, status, old.filled, FALSE) = r
  BY <1>2 DEF Updated
<1>4. r \in Entry /\ r = [old EXCEPT !.status = status]
  BY <1>1, <1>2 DEF Entry
<1>5. EntryOk(r, k)
  BY <1>1 DEF EntryOk, Terminal, LedgerStatuses
<1>6. Mark(w, k, status) = Durably(w, [w EXCEPT !.ledger[k] = r])
  BY <1>3 DEF Mark
<1> HIDE DEF r
<1>7. QED
  BY <1>4, <1>5, <1>6, EntryGood

\* update_order with a venue's word, which comes with evidence.
LEMMA MarkFactGood ==
  ASSUME IInv, NEW k \in Intents, NEW w, Good(w, k), NEW f,
         f.filled = venue[k].filled,
         NEW status \in LedgerStatuses, status \in LedgerTransitions(w.ledger[k].status)
                                          \cup {w.ledger[k].status},
         status \notin {"none", "rejected"},
         status \in {"filled", "expired"} => status = venue[k].state
  PROVE  /\ Good(MarkFact(w, k, status, f), k)
         /\ MarkFact(w, k, status, f).ledger =
              [w.ledger EXCEPT ![k] = [status |-> status, filled |-> venue[k].filled,
                                       evidence |-> TRUE]]
         /\ MarkFact(w, k, status, f).mem = w.mem
         /\ MarkFact(w, k, status, f).claims = w.claims
         /\ MarkFact(w, k, status, f).run = w.run
<1> DEFINE old == w.ledger[k]
           r == [status |-> status, filled |-> venue[k].filled, evidence |-> TRUE]
<1>1. old \in Entry /\ EntryOk(old, k) /\ venue[k].filled \in Nat
  BY DEF Good, Worlds, Within, BooksOk, IInv, TypeOK
<1>2. Updated(old, status, f.filled, TRUE) = r
  BY <1>1 DEF Updated, EntryOk, Entry
<1>3. r \in Entry
  BY <1>1 DEF Entry
<1>4. EntryOk(r, k)
  BY <1>1 DEF EntryOk, LedgerStatuses, Terminal
<1>5. MarkFact(w, k, status, f) = Durably(w, [w EXCEPT !.ledger[k] = r])
  BY <1>2 DEF MarkFact
<1>6. /\ Good(MarkFact(w, k, status, f), k)
      /\ MarkFact(w, k, status, f).ledger = [w.ledger EXCEPT ![k] = r]
      /\ MarkFact(w, k, status, f).mem = w.mem
      /\ MarkFact(w, k, status, f).claims = w.claims
      /\ MarkFact(w, k, status, f).run = w.run
  <2> HIDE DEF r
  <2>1. QED
    BY <1>3, <1>4, <1>5, EntryGood
<1>7. QED
  BY <1>6

\* What a lookup or an answer may say.
LEMMA FactsAgree ==
  ASSUME IInv, NEW k \in Intents, NEW f \in Lookups(k) \cup {VenueFact(k)},
         venue[k].state # "absent"
  PROVE  /\ f.filled = venue[k].filled /\ f.filled \in Nat /\ f.filled =< Size[k]
         /\ f.status \in {"open", "partial", "filled", "expired", "unknown"}
         /\ f.status \in {"filled", "expired"} => venue[k].state = f.status
         /\ f.status \in {"open", "partial"} => venue[k].state = "open"
         /\ f.status = "open" => f.filled = 0
         /\ f.status = "filled" => f.filled = Size[k]
         /\ f.status = "partial" => f.filled > 0
<1>1. /\ venue[k].state \in {"absent", "open", "filled", "expired"}
      /\ venue[k].filled \in Nat /\ Size[k] \in Nat /\ VenueOk(k)
  BY IntentsAssumption DEF IInv, TypeOK
<1>2. f = VenueFact(k) \/ f = [VenueFact(k) EXCEPT !.status = "unknown"]
  BY DEF Lookups
<1>3. QED
  BY <1>1, <1>2 DEF VenueFact, VenueOk

\* persist_order_result never meets a refusal, and ends with the venue's word.
LEMMA PersistGood ==
  ASSUME IInv, NEW k \in Intents, NEW w, Good(w, k),
         NEW f \in Lookups(k) \cup {VenueFact(k)}, venue[k].state # "absent",
         w.ledger[k].status \in {"reserved", "reconciling"}
  PROVE  LET r == PersistOrderResult(w, k, f) IN
         /\ Good(r, k) /\ r.mem = w.mem /\ r.claims = w.claims /\ r.run = w.run
         /\ r.ledger[k] = [status |-> IF f.status = "unknown"
                                      THEN "manual_intervention" ELSE f.status,
                           filled |-> venue[k].filled, evidence |-> TRUE]
<1> DEFINE w1 == IF w.ledger[k].status = "reserved" THEN Mark(w, k, "submitted") ELSE w
           w2 == MarkFact(w1, k, "acknowledged", f)
           status == IF f.status = "unknown" THEN "manual_intervention" ELSE f.status
<1>1. w.ledger \in [Intents -> Entry]
  BY DEF Good, Worlds
<1>2. /\ Good(w1, k) /\ w1.mem = w.mem /\ w1.claims = w.claims /\ w1.run = w.run
      /\ w1.ledger[k].status \in {"submitted", "reconciling"}
  <2>1. CASE w.ledger[k].status = "reserved"
    <3>1. /\ "submitted" \in LedgerStatuses
          /\ "submitted" \in LedgerTransitions(w.ledger[k].status)
          /\ "submitted" \notin Terminal \cup {"none"}
      BY <2>1 DEF LedgerStatuses, LedgerTransitions, Terminal
    <3>2. /\ Good(Mark(w, k, "submitted"), k)
          /\ Mark(w, k, "submitted").ledger =
               [w.ledger EXCEPT ![k] = [@ EXCEPT !.status = "submitted"]]
          /\ Mark(w, k, "submitted").mem = w.mem
          /\ Mark(w, k, "submitted").claims = w.claims
          /\ Mark(w, k, "submitted").run = w.run
      BY <3>1, MarkGood
    <3>3. QED
      BY <1>1, <2>1, <3>2 DEF Entry
  <2>2. CASE w.ledger[k].status = "reconciling"
    BY <2>2
  <2>3. QED
    BY <2>1, <2>2
<1>3. PersistOrderResult(w, k, f) = MarkFact(w2, k, status, f)
  BY <1>2 DEF PersistOrderResult
<1> HIDE DEF w1
<1>4. f.filled = venue[k].filled
  BY FactsAgree
<1>5. /\ "acknowledged" \in LedgerStatuses
      /\ "acknowledged" \in LedgerTransitions(w1.ledger[k].status)
      /\ "acknowledged" \notin {"none", "rejected", "filled", "expired"}
  BY <1>2 DEF LedgerStatuses, LedgerTransitions
<1>6. /\ Good(w2, k) /\ w2.mem = w.mem /\ w2.claims = w.claims /\ w2.run = w.run
      /\ w2.ledger = [w1.ledger EXCEPT ![k] = [status |-> "acknowledged",
                        filled |-> venue[k].filled, evidence |-> TRUE]]
  BY <1>2, <1>4, <1>5, MarkFactGood
<1>7. w1.ledger \in [Intents -> Entry]
  BY <1>2 DEF Good, Worlds
<1>8. w2.ledger[k].status = "acknowledged" /\ w2.ledger \in [Intents -> Entry]
  BY <1>6, <1>7 DEF Good, Worlds
<1> HIDE DEF w2
<1>9. /\ status \in LedgerStatuses /\ status \notin {"none", "rejected"}
      /\ status \in LedgerTransitions(w2.ledger[k].status)
      /\ status \in {"filled", "expired"} => status = venue[k].state
  BY <1>8, FactsAgree DEF LedgerStatuses, LedgerTransitions, Terminal
<1> HIDE DEF status
<1> DEFINE r == MarkFact(w2, k, status, f)
<1>10. /\ Good(r, k) /\ r.mem = w2.mem /\ r.claims = w2.claims /\ r.run = w2.run
       /\ r.ledger = [w2.ledger EXCEPT ![k] = [status |-> status,
                         filled |-> venue[k].filled, evidence |-> TRUE]]
  <2>1. status \in LedgerTransitions(w2.ledger[k].status) \cup {w2.ledger[k].status}
    BY <1>9
  <2>2. Good(w2, k)
    BY <1>6
  <2>3. QED
    BY <1>4, <1>9, <2>1, <2>2, MarkFactGood
<1> HIDE DEF r
<1>11. QED
  BY <1>3, <1>6, <1>8, <1>10 DEF status, r
-----------------------------------------------------------------------------
(* Recording what the venue said                                           *)

\* r and w differ in the lifecycle alone.
Beside(w, r) == r.ledger = w.ledger /\ r.claims = w.claims /\ r.run = w.run

LEMMA GoodType ==
  ASSUME NEW w, NEW k \in Intents, Good(w, k)
  PROVE  /\ w \in Worlds /\ w.mem \in State /\ w.mem.orders[k] \in Order
         /\ w.mem.orders[k].filled \in Nat /\ w.ledger \in [Intents -> Entry]
         /\ w.claims \subseteq Intents /\ w.run \in Runs
         /\ EntryOk(w.ledger[k], k)
         /\ OrderOk(w.mem.orders[k], k \in w.mem.unresolved, k)
  BY DEF Good, Worlds, State, Order, Within, BooksOk, MemOk

\* Events that are justified whatever the state.
LEMMA PlainGood ==
  ASSUME IInv, NEW k \in Intents, NEW w, Good(w, k),
         NEW type \in PreparingEvents \cup
                      {"BROKER_ACKNOWLEDGED", "CANCEL_REQUESTED",
                       "RECONCILIATION_STARTED", "RECONCILIATION_RESOLVED"},
         NEW n \in Nat, NEW e \in {Ev(type, k), [Ev(type, k) EXCEPT !.authorized = n]}
  PROVE  /\ Good(Log(w, e), k) /\ Beside(w, Log(w, e))
         /\ Log(w, e).mem = Apply(w.mem, e)
<1>1. type \in EventTypes
  BY DEF EventTypes, PreparingEvents
<1>2. e \in Event
  <2>1. Ev(type, k) \in Event
    BY <1>1, NoDecisionType DEF Ev, Event
  <2>2. [Ev(type, k) EXCEPT !.authorized = n] \in Event
    BY <2>1 DEF Event
  <2>3. QED
    BY <2>1, <2>2
<1>3. e.intent = k /\ e.type = type
  BY DEF Ev
<1>4. Justified(w.mem, e)
  BY <1>3 DEF Justified, RecordingEvents, PreparingEvents, FillEvents
<1>5. QED
  BY <1>2, <1>3, <1>4, LogGood DEF Beside

LEMMA AcknowledgedGood ==
  ASSUME IInv, NEW k \in Intents, NEW w, Good(w, k)
  PROVE  LET r == Log(w, Ev("BROKER_ACKNOWLEDGED", k)) IN
         /\ Good(r, k) /\ Beside(w, r)
         /\ r.mem.orders[k].filled = w.mem.orders[k].filled
         /\ r.mem.orders[k].exchange_id = w.mem.orders[k].exchange_id
         /\ Exists(r.mem, k) <=> Exists(w.mem, k)
         /\ Exists(r.mem, k) => k \notin r.mem.unresolved
<1> DEFINE e == Ev("BROKER_ACKNOWLEDGED", k)
           r == Log(w, e)
           s == Apply(w.mem, e)
<1>1. e \in Event /\ e.intent = k /\ e.type = "BROKER_ACKNOWLEDGED"
  BY NoDecisionType DEF Ev, Event, EventTypes
<1>2. Good(r, k) /\ Beside(w, r) /\ r.mem = s
  BY PlainGood
<1> HIDE DEF e, r
<1>3. w.mem \in State
  BY GoodType
<1>4. /\ s.orders[k].filled = w.mem.orders[k].filled
      /\ s.orders[k].exchange_id = w.mem.orders[k].exchange_id
      /\ Exists(s, k) <=> Exists(w.mem, k)
  BY <1>1, <1>3, ApplyAt DEF FillEvents
<1>5. Exists(w.mem, k) => s.unresolved = w.mem.unresolved \ {k}
  BY <1>1, <1>3, ApplyStatus DEF SettlingEvents
<1>6. QED
  BY <1>2, <1>4, <1>5 DEF r, e

LEMMA FillGood ==
  ASSUME IInv, NEW k \in Intents, NEW w, Good(w, k), NEW n \in Nat,
         NEW type \in FillEvents,
         w.mem.orders[k].filled + n =< venue[k].filled,
         Exists(w.mem, k) => w.mem.orders[k].exchange_id /\ k \notin w.mem.unresolved
  PROVE  LET r == Log(w, [Ev(type, k) EXCEPT !.qty = n]) IN
         Good(r, k) /\ Beside(w, r)
<1> DEFINE e == [Ev(type, k) EXCEPT !.qty = n]
<1>1. e \in Event
  BY EvType DEF FillEvents, EventTypes
<1>2. e.intent = k /\ e.type = type /\ e.qty = n
  BY DEF Ev
<1>3. Justified(w.mem, e)
  BY <1>2 DEF Justified, RecordingEvents, FillEvents
<1> HIDE DEF e
<1>4. Good(Log(w, e), k) /\ Beside(w, Log(w, e))
  BY <1>1, <1>2, <1>3, LogGood DEF Beside
<1>5. QED
  BY <1>4 DEF e

LEMMA OutcomeUnknownGood ==
  ASSUME IInv, NEW k \in Intents, NEW w, Good(w, k), w.mem.orders[k].filled = 0
  PROVE  LET r == RecordUnknown(w, k) IN
         /\ Good(r, k) /\ Beside(w, r) /\ k \in r.mem.unresolved
<1> DEFINE e  == Ev("BROKER_STATE_UNKNOWN", k)
           w1 == Log(w, e)
           w2 == Log(w1, Ev("RECONCILIATION_STARTED", k))
<1>1. e \in Event /\ e.intent = k /\ e.type = "BROKER_STATE_UNKNOWN"
  BY NoDecisionType DEF Ev, Event, EventTypes
<1>2. Justified(w.mem, e)
  BY <1>1 DEF Justified, RecordingEvents, FillEvents
<1>3. Good(w1, k) /\ Beside(w, w1) /\ w1.mem = Apply(w.mem, e)
  BY <1>1, <1>2, LogGood DEF Beside
<1>4. k \in w1.mem.unresolved
  <2>1. Apply(w.mem, e) = OnBrokerStateUnknown(w.mem, e) /\ w.mem \in State
    BY <1>1, GoodType DEF Apply
  <2>2. "MANUAL" \in Statuses
    BY DEF Statuses
  <2>3. WithStatus(w.mem, k, "MANUAL") \in State
    BY <2>1, <2>2, WithStatusType
  <2>4. OnBrokerStateUnknown(w.mem, e).unresolved =
          WithStatus(w.mem, k, "MANUAL").unresolved \cup {k}
    BY <1>1, <2>3 DEF OnBrokerStateUnknown, State
  <2>5. QED
    BY <1>3, <2>1, <2>4
<1> HIDE DEF w1
<1>5. /\ Good(w2, k) /\ Beside(w1, w2)
      /\ w2.mem = Apply(w1.mem, Ev("RECONCILIATION_STARTED", k))
  BY <1>3, PlainGood
<1>6. w2.mem.unresolved = w1.mem.unresolved
  <2>1. w1.mem \in State
    BY <1>3, GoodType
  <2>2. QED
    BY <1>5, <2>1 DEF Apply, Ev, OnReconciliationStarted, State
<1>7. RecordUnknown(w, k) = w2
  BY DEF RecordUnknown, RecordSubmitResult, LostAnswer, w1
<1> HIDE DEF w2
<1>8. QED
  BY <1>3, <1>4, <1>5, <1>6, <1>7 DEF Beside

\* record_broker_submit_result with what the venue said.
LEMMA SubmitResultGood ==
  ASSUME IInv, NEW k \in Intents, NEW w, Good(w, k), NEW f, f.filled \in Nat,
         f.status \in {"open", "partial", "filled", "expired"},
         f.status \in {"partial", "filled"} =>
           /\ w.mem.orders[k].filled + f.filled =< venue[k].filled
           /\ Exists(w.mem, k) => w.mem.orders[k].exchange_id,
         f.status = "expired" => venue[k].state = "expired"
  PROVE  LET r == RecordSubmitResult(w, k, f) IN Good(r, k) /\ Beside(w, r)
<1> DEFINE w1 == Log(w, Ev("BROKER_ACKNOWLEDGED", k))
<1>1. /\ Good(w1, k) /\ Beside(w, w1)
      /\ w1.mem.orders[k].filled = w.mem.orders[k].filled
      /\ w1.mem.orders[k].exchange_id = w.mem.orders[k].exchange_id
      /\ Exists(w1.mem, k) <=> Exists(w.mem, k)
      /\ Exists(w1.mem, k) => k \notin w1.mem.unresolved
  BY AcknowledgedGood
<1>2. CASE f.status = "open"
  BY <1>1, <1>2 DEF RecordSubmitResult
<1>3. CASE f.status \in {"partial", "filled"}
  <2> DEFINE type == IF f.status = "partial" THEN "PARTIAL_FILL_RECEIVED"
                     ELSE "FILL_RECEIVED"
             r == Log(w1, [Ev(type, k) EXCEPT !.qty = f.filled])
  <2>1. RecordSubmitResult(w, k, f) = r
    BY <1>3 DEF RecordSubmitResult
  <2>2. type \in FillEvents
    BY DEF FillEvents
  <2> HIDE DEF w1, type
  <2>3. Good(r, k) /\ Beside(w1, r)
    BY <1>1, <1>3, <2>2, FillGood
  <2> HIDE DEF r
  <2>4. QED
    BY <1>1, <2>1, <2>3 DEF Beside
<1>4. CASE f.status = "expired"
  <2> DEFINE e == Ev("ORDER_REJECTED", k)
  <2>1. e \in Event /\ e.intent = k /\ e.type = "ORDER_REJECTED"
    BY NoDecisionType DEF Ev, Event, EventTypes
  <2>2. Justified(w.mem, e)
    BY <1>4, <2>1 DEF Justified, RecordingEvents, FillEvents
  <2>3. RecordSubmitResult(w, k, f) = Log(w, e)
    BY <1>4 DEF RecordSubmitResult
  <2> HIDE DEF e
  <2>4. QED
    BY <2>1, <2>2, <2>3, LogGood DEF Beside
<1>5. QED
  BY <1>2, <1>3, <1>4

LEMMA IdentifyGood ==
  ASSUME IInv, NEW k \in Intents, NEW w, Good(w, k)
  PROVE  LET r == Identify(w, k) IN
         /\ Good(r, k) /\ Beside(w, r)
         /\ r.mem.orders[k].filled = w.mem.orders[k].filled
         /\ Exists(r.mem, k) <=> Exists(w.mem, k)
         /\ Exists(r.mem, k) => r.mem.orders[k].exchange_id
         /\ r.mem.unresolved = w.mem.unresolved
<1> DEFINE e == [Ev("ORDER_SUBMITTED", k) EXCEPT !.exchange_id = TRUE,
                   !.qty = Size[k], !.authorized = Size[k]]
           s == Apply(w.mem, e)
<1>1. Size[k] \in Nat /\ "ORDER_SUBMITTED" \in EventTypes
  BY IntentsAssumption DEF EventTypes
<1>2. e \in Event
  BY <1>1, EvType
<1>3. e.intent = k /\ e.type = "ORDER_SUBMITTED" /\ e.exchange_id = TRUE
  BY DEF Ev
<1> HIDE DEF e
<1>4. Justified(w.mem, e)
  BY <1>3 DEF Justified, RecordingEvents, FillEvents
<1>5. /\ Good(Log(w, e), k) /\ Beside(w, Log(w, e)) /\ Log(w, e).mem = s
  BY <1>2, <1>3, <1>4, LogGood DEF Beside
<1>6. w.mem \in State
  BY GoodType
<1>7. /\ s.orders[k].filled = w.mem.orders[k].filled
      /\ Exists(s, k) <=> Exists(w.mem, k)
  BY <1>2, <1>3, <1>6, ApplyAt DEF FillEvents
<1>8. Exists(w.mem, k) => s.orders[k].exchange_id = TRUE
  BY <1>2, <1>3, <1>6, ApplyStatus
<1>9. s.unresolved = w.mem.unresolved
  BY <1>3, <1>6 DEF Apply, OnOrderSubmitted, UpdateOrder, State
<1>10. QED
  BY <1>5, <1>7, <1>8, <1>9 DEF Identify, e
\* record_broker_fact with what the venue said, nothing being booked twice.
LEMMA BrokerFactGood ==
  ASSUME IInv, NEW k \in Intents, NEW w, Good(w, k), NEW f, f.filled \in Nat,
         f.status \in {"open", "partial", "filled", "expired"},
         f.status \in {"partial", "filled"} =>
           w.mem.orders[k].filled + f.filled =< venue[k].filled,
         f.status = "expired" => venue[k].state = "expired"
  PROVE  LET r == RecordBrokerFact(w, k, f) IN Good(r, k) /\ Beside(w, r)
<1> DEFINE w1 == IF f.status \in Accepted /\ ~w.mem.orders[k].exchange_id
                 THEN Identify(w, k) ELSE w
<1>1. /\ Good(w1, k) /\ Beside(w, w1)
      /\ w1.mem.orders[k].filled = w.mem.orders[k].filled
      /\ f.status \in Accepted /\ Exists(w1.mem, k) => w1.mem.orders[k].exchange_id
  <2>1. CASE f.status \in Accepted /\ ~w.mem.orders[k].exchange_id
    BY <2>1, IdentifyGood
  <2>2. CASE ~(f.status \in Accepted /\ ~w.mem.orders[k].exchange_id)
    BY <2>2 DEF Beside
  <2>3. QED
    BY <2>1, <2>2
<1>2. RecordBrokerFact(w, k, f) = RecordSubmitResult(w1, k, f)
  BY DEF RecordBrokerFact
<1> HIDE DEF w1
<1>3. LET r == RecordSubmitResult(w1, k, f) IN Good(r, k) /\ Beside(w1, r)
  <2>1. f.status \in {"partial", "filled"} =>
          /\ w1.mem.orders[k].filled + f.filled =< venue[k].filled
          /\ Exists(w1.mem, k) => w1.mem.orders[k].exchange_id
    BY <1>1 DEF Accepted
  <2>2. QED
    BY <1>1, <2>1, SubmitResultGood
<1>4. QED
  BY <1>1, <1>2, <1>3 DEF Beside

\* record_reconciled_broker_submit_result: an unresolved order has booked nothing.
LEMMA ReconcileGood ==
  ASSUME IInv, NEW k \in Intents, NEW w, Good(w, k), k \in w.mem.unresolved,
         venue[k].state # "absent", NEW f \in Lookups(k), f.status # "unknown"
  PROVE  LET r == Reconcile(w, k, f) IN Good(r, k) /\ Beside(w, r)
<1> DEFINE w1 == IF f.status \in Accepted THEN Identify(w, k) ELSE w
           w2 == RecordSubmitResult(w1, k, f)
           w3 == Log(w2, Ev("RECONCILIATION_RESOLVED", k))
<1>1. /\ f.filled = venue[k].filled /\ f.filled \in Nat
      /\ f.status \in {"open", "partial", "filled", "expired"}
      /\ f.status = "expired" => venue[k].state = "expired"
  BY FactsAgree
<1>2. w.mem.orders[k].filled = 0
  BY GoodType DEF OrderOk
<1>3. /\ Good(w1, k) /\ Beside(w, w1) /\ w1.mem.orders[k].filled = 0
      /\ f.status \in Accepted /\ Exists(w1.mem, k) => w1.mem.orders[k].exchange_id
  <2>1. CASE f.status \in Accepted
    BY <1>2, <2>1, IdentifyGood
  <2>2. CASE f.status \notin Accepted
    BY <1>2, <2>2 DEF Beside
  <2>3. QED
    BY <2>1, <2>2
<1> HIDE DEF w1
<1>4. Good(w2, k) /\ Beside(w1, w2)
  <2>1. f.status \in {"partial", "filled"} =>
          /\ w1.mem.orders[k].filled + f.filled =< venue[k].filled
          /\ Exists(w1.mem, k) => w1.mem.orders[k].exchange_id
    BY <1>1, <1>3 DEF Accepted
  <2>2. QED
    BY <1>1, <1>3, <2>1, SubmitResultGood
<1> HIDE DEF w2
<1>5. Good(w3, k) /\ Beside(w2, w3)
  BY <1>4, PlainGood
<1>6. Reconcile(w, k, f) = IF w2.mem.unresolved = {} /\ w2.mem.reconciliation = "STARTED"
                           THEN w3 ELSE w2
  BY DEF Reconcile, w1, w2
<1> HIDE DEF w3
<1>7. QED
  BY <1>3, <1>4, <1>5, <1>6 DEF Beside

\* An order that is identified and not unresolved: only the difference is booked.
LEMMA ProgressGood ==
  ASSUME IInv, NEW k \in Intents, NEW w, Good(w, k),
         venue[k].state # "absent", NEW f \in Lookups(k), f.status # "unknown"
  PROVE  LET r == RecordProgress(w, k, f) IN Good(r, k) /\ Beside(w, r)
<1> DEFINE n  == w.mem.orders[k].filled
           g  == [filled |-> f.filled - n,
                  status |-> IF f.filled = Size[k] THEN "filled" ELSE "partial"]
           w1 == IF f.filled - n > 0 THEN RecordBrokerFact(w, k, g) ELSE w
           w2 == IF w1.mem.orders[k].status = "CANCEL_REQUESTED" THEN w1
                 ELSE Log(w1, Ev("CANCEL_REQUESTED", k))
           w3 == Log(w2, Ev("CANCEL_CONFIRMED", k))
<1>1. f.filled = venue[k].filled /\ f.filled \in Nat
  BY FactsAgree
<1>2. n \in Nat /\ n =< venue[k].filled
  BY GoodType DEF OrderOk
<1>3. Good(w1, k) /\ Beside(w, w1)
  <2>1. CASE f.filled - n > 0
    <3>1. /\ g.filled \in Nat /\ n + g.filled =< venue[k].filled
          /\ g.status \in {"partial", "filled"}
      BY <1>1, <1>2, <2>1
    <3> HIDE DEF g
    <3>2. QED
      BY <2>1, <3>1, BrokerFactGood
  <2>2. CASE ~(f.filled - n > 0)
    BY <2>2 DEF Beside
  <2>3. QED
    BY <2>1, <2>2
<1>4. RecordProgress(w, k, f) =
        IF f.status = "expired" /\ w1.mem.orders[k].status \notin {"CANCELED", "FILLED"}
        THEN w3 ELSE w1
  BY DEF RecordProgress
<1> HIDE DEF w1
<1>5. Good(w2, k) /\ Beside(w1, w2)
  <2>1. LET r == Log(w1, Ev("CANCEL_REQUESTED", k)) IN Good(r, k) /\ Beside(w1, r)
    BY <1>3, PlainGood
  <2>2. QED
    BY <1>3, <2>1 DEF Beside
<1> HIDE DEF w2
<1>6. CASE f.status = "expired"
  <2> DEFINE e == Ev("CANCEL_CONFIRMED", k)
  <2>1. /\ e \in Event /\ e.intent = k /\ e.type = "CANCEL_CONFIRMED"
        /\ e.evidence = "CANCELED"
    BY NoDecisionType DEF Ev, Event, EventTypes
  <2>2. venue[k].state = "expired"
    BY <1>6, FactsAgree
  <2> HIDE DEF e
  <2>3. Justified(w2.mem, e)
    BY <2>1, <2>2 DEF Justified, RecordingEvents, FillEvents
  <2>4. Good(w3, k) /\ Beside(w2, w3)
    BY <1>5, <2>1, <2>3, LogGood DEF Beside, e
  <2> HIDE DEF w3
  <2>5. QED
    BY <1>3, <1>4, <1>5, <2>4 DEF Beside
<1>7. CASE f.status # "expired"
  BY <1>3, <1>4, <1>7
<1>8. QED
  BY <1>6, <1>7

\* _record_reconciled_submission books what the venue filled and no more.
LEMMA RecordReconciledGood ==
  ASSUME IInv, NEW k \in Intents, NEW w, Good(w, k),
         venue[k].state # "absent", NEW f \in Lookups(k), f.status # "unknown"
  PROVE  LET r == RecordReconciledSubmission(w, k, f) IN Good(r, k) /\ Beside(w, r)
<1> DEFINE w1 == IF w.mem.orders[k].exchange_id \/ k \in w.mem.unresolved THEN w
                 ELSE RecordUnknown(w, k)
<1>1. Good(w1, k) /\ Beside(w, w1)
  <2>1. CASE w.mem.orders[k].exchange_id \/ k \in w.mem.unresolved
    BY <2>1 DEF Beside
  <2>2. CASE ~(w.mem.orders[k].exchange_id \/ k \in w.mem.unresolved)
    <3>1. w.mem.orders[k].filled = 0
      BY <2>2, GoodType DEF OrderOk
    <3>2. QED
      BY <2>2, <3>1, OutcomeUnknownGood
  <2>3. QED
    BY <2>1, <2>2
<1>2. RecordReconciledSubmission(w, k, f) =
        IF k \in w1.mem.unresolved THEN Reconcile(w1, k, f) ELSE RecordProgress(w1, k, f)
  BY DEF RecordReconciledSubmission
<1> HIDE DEF w1
<1>3. CASE k \in w1.mem.unresolved
  BY <1>1, <1>2, <1>3, ReconcileGood DEF Beside
<1>4. CASE k \notin w1.mem.unresolved
  BY <1>1, <1>2, <1>4, ProgressGood DEF Beside
<1>5. QED
  BY <1>3, <1>4
-----------------------------------------------------------------------------
(* The steps of a run                                                      *)

\* A step of k is good for the books and leaves a run that knows what is open.
StepOk(w, k) == Good(w, k) /\ RunOk(w)

LEMMA OffType == Off \in Runs /\ Off.at = "off"
<1>1. (CHOOSE k \in Intents : TRUE) \in Intents
  BY IntentsAssumption
<1>2. QED
  BY <1>1 DEF Off, Runs

LEMMA RunGood ==
  ASSUME NEW k \in Intents, NEW w, Good(w, k), NEW r \in Runs
  PROVE  LET next == [w EXCEPT !.run = r] IN
         /\ Good(next, k) /\ next.ledger = w.ledger /\ next.mem = w.mem
         /\ next.claims = w.claims /\ next.run = r
<1> DEFINE next == [w EXCEPT !.run = r]
<1>1. /\ next \in Worlds /\ next.ledger = w.ledger /\ next.mem = w.mem
      /\ next.claims = w.claims /\ next.run = r /\ next.crashes = w.crashes
  BY DEF Good, Worlds
<1> HIDE DEF next
<1>2. Good(next, k)
  BY <1>1 DEF Good, Within, BooksOk
<1>3. QED
  BY <1>1, <1>2 DEF next

LEMMA StopOk ==
  ASSUME NEW k \in Intents, NEW w, Good(w, k)
  PROVE  StepOk(Stop(w), k) /\ Stop(w).ledger = w.ledger
<1>1. /\ Good(Stop(w), k) /\ Stop(w).run = Off /\ Stop(w).ledger = w.ledger
  BY OffType, RunGood DEF Stop
<1>2. QED
  BY <1>1, OffType DEF StepOk, RunOk

LEMMA PollOk ==
  ASSUME NEW k \in Intents, NEW w, Good(w, k),
         w.ledger[k].status = "reconciling",
         NEW why \in {"restart", "working", "unsure"},
         why = "restart" =>
           /\ k \in w.run.left /\ \A j \in w.run.left : ~Closed(w, j)
           /\ ~w.run.blocked => \A j \in Intents : j \in w.run.left \/ Closed(w, j),
         why # "restart" => \A j \in Intents : j = k \/ Closed(w, j)
  PROVE  StepOk(Poll(w, k, why), k)
<1> DEFINE next == Poll(w, k, why)
<1>1. w.run \in Runs /\ w \in Worlds
  BY GoodType
<1>2. /\ next \in Worlds /\ next.ledger = w.ledger /\ next.mem = w.mem
      /\ next.crashes = w.crashes
      /\ next.run.at = "poll" /\ next.run.key = k /\ next.run.why = why
      /\ next.run.left = w.run.left /\ next.run.blocked = w.run.blocked
  BY <1>1 DEF Poll, Runs, Worlds
<1> HIDE DEF next
<1>3. Good(next, k)
  BY <1>2 DEF Good, Within, BooksOk
<1>4. RunOk(next)
  BY <1>1, <1>2 DEF RunOk, Closed
<1>5. QED
  BY <1>3, <1>4 DEF StepOk, next

LEMMA NextUnfinishedOk ==
  ASSUME NEW k \in Intents, NEW w, Good(w, k), NEW blocks \in BOOLEAN,
         \A j \in w.run.left : j = k \/ ~Closed(w, j),
         ~w.run.blocked /\ ~blocks =>
           \A j \in Intents : j \in w.run.left \ {k} \/ Closed(w, j)
  PROVE  StepOk(NextUnfinished(w, k, blocks), k)
<1> DEFINE next == NextUnfinished(w, k, blocks)
           r == [Off EXCEPT !.at = "reconcile", !.left = w.run.left \ {k},
                            !.blocked = w.run.blocked \/ blocks]
<1>1. w.run \in Runs
  BY GoodType
<1>2. /\ r \in Runs /\ r.at = "reconcile" /\ r.left = w.run.left \ {k}
      /\ r.blocked = (w.run.blocked \/ blocks)
  BY <1>1, OffType DEF Runs
<1>3. next = [w EXCEPT !.run = r]
  BY DEF NextUnfinished
<1> HIDE DEF r
<1>4. Good(next, k) /\ next.ledger = w.ledger /\ next.run = r
  BY <1>2, <1>3, RunGood
<1> HIDE DEF next
<1>5. RunOk(next)
  BY <1>1, <1>2, <1>4 DEF RunOk, Closed
<1>6. QED
  BY <1>4, <1>5 DEF StepOk, next

LEMMA ToBatchOk ==
  ASSUME NEW k \in Intents, NEW w, Good(w, k), \A j \in Intents : Closed(w, j)
  PROVE  StepOk(Continue(w, "batch"), k)
<1> DEFINE next == Continue(w, "batch")
           r == [Off EXCEPT !.at = "batch"]
<1>1. r \in Runs /\ r.at = "batch"
  BY OffType DEF Runs
<1>2. next = [w EXCEPT !.run = r]
  BY DEF Continue
<1> HIDE DEF r
<1>3. Good(next, k) /\ next.ledger = w.ledger /\ next.run = r
  <2> DEFINE n == [w EXCEPT !.run = r]
  <2>1. Good(n, k) /\ n.ledger = w.ledger /\ n.run = r
    BY <1>1, RunGood
  <2> HIDE DEF n
  <2>2. QED
    BY <1>2, <2>1 DEF n
<1> HIDE DEF next
<1>4. RunOk(next)
  BY <1>1, <1>3 DEF RunOk, Closed
<1>5. QED
  BY <1>3, <1>4 DEF StepOk, next

\* An open entry may be looked at again, and handed to the operator.
LEMMA OpenMoves ==
  ASSUME NEW s \in LedgerStatuses, s \notin Terminal \cup {"none"}
  PROVE  /\ "reconciling" \in LedgerTransitions(s) \cup {s}
         /\ "manual_intervention" \in LedgerTransitions(s) \cup {s}
  BY DEF LedgerStatuses, Terminal, LedgerTransitions

LEMMA ParkGood ==
  ASSUME IInv, NEW k \in Intents, NEW w, Good(w, k), ~Closed(w, k),
         NEW status \in {"reconciling", "manual_intervention"}
  PROVE  LET r == Mark(w, k, status) IN
         /\ Good(r, k) /\ r.mem = w.mem /\ r.claims = w.claims /\ r.run = w.run
         /\ r.ledger[k].status = status
         /\ \A j \in Intents : j # k => r.ledger[j] = w.ledger[j]
<1> DEFINE s == w.ledger[k].status
           r == Mark(w, k, status)
<1>1. w.ledger \in [Intents -> Entry] /\ EntryOk(w.ledger[k], k)
  BY GoodType
<1>2. s \in LedgerStatuses /\ s \notin Terminal \cup {"none"}
  BY <1>1 DEF Entry, EntryOk, Closed
<1>3. /\ status \in LedgerStatuses /\ status \notin Terminal \cup {"none"}
      /\ status \in LedgerTransitions(s) \cup {s}
  BY <1>2, OpenMoves DEF LedgerStatuses, Terminal
<1>4. /\ Good(r, k) /\ r.mem = w.mem /\ r.claims = w.claims /\ r.run = w.run
      /\ r.ledger = [w.ledger EXCEPT ![k] = [@ EXCEPT !.status = status]]
  BY <1>3, MarkGood
<1> HIDE DEF r
<1>5. QED
  BY <1>1, <1>4 DEF r, Entry

LEMMA ReconcilingOk ==
  ASSUME IInv, NEW k \in Intents, run.at = "reconcile", k \in run.left
  PROVE  StepOk(Reconciling(k), k) /\ ~Closed(World, k)
<1>1. /\ Good(World, k) /\ World.ledger = ledger /\ World.mem = mem
      /\ World.claims = claims /\ World.run = run
  BY WorldGood
<1>2. /\ \A j \in run.left : ~Closed(World, j)
      /\ ~run.blocked => \A j \in Intents : j \in run.left \/ Closed(World, j)
  BY <1>1 DEF IInv, RunOk
<1>3. ~Closed(World, k)
  BY <1>2
<1>4. CASE Exists(mem, k)
  <2> DEFINE w == Mark(World, k, "reconciling")
  <2>1. /\ Good(w, k) /\ w.run = run /\ w.ledger[k].status = "reconciling"
        /\ \A j \in Intents : j # k => w.ledger[j] = ledger[j]
    BY <1>1, <1>3, ParkGood
  <2>2. Reconciling(k) = Poll(w, k, "restart")
    BY <1>4 DEF Reconciling
  <2> HIDE DEF w
  <2>3. \A j \in w.run.left : ~Closed(w, j)
    BY <1>1, <1>2, <2>1 DEF Closed, Terminal, IInv, TypeOK, Runs
  <2>4. ~w.run.blocked => \A j \in Intents : j \in w.run.left \/ Closed(w, j)
    BY <1>1, <1>2, <2>1 DEF Closed
  <2>5. QED
    BY <1>3, <2>1, <2>2, <2>3, <2>4, PollOk
<1>5. CASE ~Exists(mem, k)
  <2> DEFINE w == Mark(World, k, "manual_intervention")
  <2>1. /\ Good(w, k) /\ w.run = run
        /\ \A j \in Intents : j # k => w.ledger[j] = ledger[j]
    BY <1>1, <1>3, ParkGood
  <2>2. Reconciling(k) = NextUnfinished(w, k, TRUE)
    BY <1>5 DEF Reconciling
  <2> HIDE DEF w
  <2>3. \A j \in w.run.left : j = k \/ ~Closed(w, j)
    BY <1>1, <1>2, <2>1 DEF Closed, IInv, TypeOK, Runs
  <2>4. QED
    BY <1>3, <2>1, <2>2, <2>3, NextUnfinishedOk
<1>6. QED
  BY <1>4, <1>5
LEMMA PolledState ==
  ASSUME IInv, NEW k \in Intents, run.at = "poll", run.key = k
  PROVE  /\ ledger[k].status = "reconciling"
         /\ run.why = "restart" =>
              /\ k \in run.left /\ \A j \in run.left : ~Closed(World, j)
              /\ ~run.blocked => \A j \in Intents : j \in run.left \/ Closed(World, j)
         /\ run.why # "restart" => \A j \in Intents : j = k \/ Closed(World, j)
         /\ run.left \subseteq Intents /\ run.blocked \in BOOLEAN
<1>1. World.run = run /\ World.ledger = ledger /\ run \in Runs /\ RunOk(World)
  BY WorldGood DEF IInv, TypeOK
<1>2. QED
  BY <1>1 DEF RunOk, Runs

LEMMA MissedOk ==
  ASSUME IInv, NEW k \in Intents, run.at = "poll", run.key = k
  PROVE  StepOk(Missed(k), k)
<1> DEFINE w == Mark(World, k, "manual_intervention")
<1>1. /\ Good(World, k) /\ World.ledger = ledger /\ World.run = run
      /\ ~Closed(World, k)
  BY WorldGood, PolledState DEF Closed, Terminal
<1>2. /\ Good(w, k) /\ w.run = run
      /\ \A j \in Intents : j # k => w.ledger[j] = ledger[j]
  BY <1>1, ParkGood
<1>3. Missed(k) = IF run.why = "restart" THEN NextUnfinished(w, k, TRUE) ELSE Stop(w)
  BY DEF Missed
<1> HIDE DEF w
<1>4. CASE run.why = "restart"
  <2>1. \A j \in w.run.left : j = k \/ ~Closed(w, j)
    BY <1>1, <1>2, <1>4, PolledState DEF Closed
  <2>2. QED
    BY <1>2, <1>3, <1>4, <2>1, NextUnfinishedOk
<1>5. CASE run.why # "restart"
  BY <1>2, <1>3, <1>5, StopOk
<1>6. QED
  BY <1>4, <1>5

LEMMA FoundAtRestartOk ==
  ASSUME IInv, NEW k \in Intents, run.at = "poll", run.key = k,
         run.why = "restart", NEW f \in Lookups(k)
  PROVE  StepOk(FoundAtRestart(k, f), k)
<1> DEFINE w1 == RecordReconciledSubmission(World, k, f)
           w2 == PersistOrderResult(w1, k, f)
           w3 == Mark(w2, k, "manual_intervention")
<1>1. Good(World, k) /\ World.ledger = ledger /\ World.run = run
  BY WorldGood
<1>2. venue[k].state # "absent"
  BY DEF Lookups
<1>3. FoundAtRestart(k, f) =
        CASE f.status = "unknown"   -> Stop(World)
          [] f.status \in Terminal  -> NextUnfinished(w2, k, FALSE)
          [] OTHER                  -> NextUnfinished(w3, k, TRUE)
  BY DEF FoundAtRestart
<1>4. CASE f.status = "unknown"
  BY <1>1, <1>3, <1>4, StopOk DEF Terminal
<1>5. CASE f.status # "unknown"
  <2>1. Good(w1, k) /\ Beside(World, w1)
    BY <1>1, <1>2, <1>5, RecordReconciledGood
  <2> HIDE DEF w1
  <2>2. w1.ledger[k].status = "reconciling" /\ w1.run = run
    BY <1>1, <2>1, PolledState DEF Beside
  <2>3. /\ Good(w2, k) /\ w2.run = w1.run
        /\ w2.ledger[k].status = f.status
    <3>1. LET r == PersistOrderResult(w1, k, f) IN
           /\ Good(r, k) /\ r.mem = w1.mem /\ r.claims = w1.claims /\ r.run = w1.run
           /\ r.ledger[k] = [status |-> IF f.status = "unknown"
                                      THEN "manual_intervention" ELSE f.status,
                           filled |-> venue[k].filled, evidence |-> TRUE]
      BY <1>2, <2>1, <2>2, PersistGood
    <3>2. QED
      BY <1>5, <3>1
  <2> HIDE DEF w2
  <2>4. \A j \in Intents : j # k => w2.ledger[j] = ledger[j]
    BY <2>3 DEF Good, Within
  <2>5. CASE f.status \in Terminal
    <3>1. \A j \in w2.run.left : j = k \/ ~Closed(w2, j)
      BY <1>1, <2>2, <2>3, <2>4, PolledState DEF Closed
    <3>2. ~w2.run.blocked =>
            \A j \in Intents : j \in w2.run.left \ {k} \/ Closed(w2, j)
      BY <1>1, <2>2, <2>3, <2>4, <2>5, PolledState DEF Closed
    <3>3. QED
      BY <1>3, <1>5, <2>3, <2>5, <3>1, <3>2, NextUnfinishedOk
  <2>6. CASE f.status \notin Terminal
    <3>1. ~Closed(w2, k)
      BY <1>2, <2>3, <2>6, FactsAgree DEF Closed
    <3>2. /\ Good(w3, k) /\ w3.run = w2.run
          /\ \A j \in Intents : j # k => w3.ledger[j] = w2.ledger[j]
      BY <2>3, <3>1, ParkGood
    <3> HIDE DEF w3
    <3>3. \A j \in w3.run.left : j = k \/ ~Closed(w3, j)
      BY <1>1, <2>2, <2>3, <2>4, <3>2, PolledState DEF Closed
    <3>4. QED
      BY <1>3, <1>5, <2>6, <3>2, <3>3, NextUnfinishedOk
  <2>7. QED
    BY <2>5, <2>6
<1>6. QED
  BY <1>4, <1>5

LEMMA FoundInBatchOk ==
  ASSUME IInv, NEW k \in Intents, run.at = "poll", run.key = k,
         run.why # "restart", NEW f \in Lookups(k)
  PROVE  StepOk(FoundInBatch(k, f), k)
<1> DEFINE w1 == PersistOrderResult(World, k, f)
           w2 == RecordReconciledSubmission(w1, k, f)
           w3 == Mark(w2, k, "manual_intervention")
<1>1. Good(World, k) /\ World.ledger = ledger /\ World.run = run
  BY WorldGood
<1>2. venue[k].state # "absent"
  BY DEF Lookups
<1>3. FoundInBatch(k, f) =
        CASE f.status = "unknown" -> Stop(w1)
          [] f.status \in Terminal -> IF f.status = "filled" /\ run.why = "working"
                                      THEN Continue(w2, "batch") ELSE Stop(w2)
          [] OTHER -> Stop(w3)
  BY DEF FoundInBatch
<1>4. Good(w1, k) /\ (f.status # "unknown" => w1.ledger[k].status = f.status)
  <2>1. World.ledger[k].status \in {"reserved", "reconciling"}
    BY <1>1, PolledState
  <2>2. LET r == PersistOrderResult(World, k, f) IN
         /\ Good(r, k)
         /\ r.ledger[k] = [status |-> IF f.status = "unknown"
                                      THEN "manual_intervention" ELSE f.status,
                           filled |-> venue[k].filled, evidence |-> TRUE]
    BY <1>1, <1>2, <2>1, PersistGood
  <2>3. QED
    BY <2>2
<1> HIDE DEF w1
<1>5. CASE f.status = "unknown"
  BY <1>3, <1>4, <1>5, StopOk DEF Terminal
<1>6. CASE f.status # "unknown"
  <2>1. Good(w2, k) /\ Beside(w1, w2)
    BY <1>2, <1>4, <1>6, RecordReconciledGood
  <2> HIDE DEF w2
  <2>2. CASE f.status = "filled" /\ run.why = "working"
    <3>1. \A j \in Intents : j # k => w2.ledger[j] = ledger[j]
      BY <2>1 DEF Good, Within
    <3>2. \A j \in Intents : j = k \/ Closed(w2, j)
      BY <1>1, <3>1, PolledState DEF Closed
    <3>3. Closed(w2, k)
      BY <1>4, <1>6, <2>1, <2>2 DEF Beside, Closed, Terminal
    <3>4. QED
      BY <1>3, <2>1, <2>2, <3>2, <3>3, ToBatchOk DEF Terminal
  <2>3. CASE f.status \in Terminal /\ ~(f.status = "filled" /\ run.why = "working")
    BY <1>3, <1>6, <2>1, <2>3, StopOk
  <2>4. CASE f.status \notin Terminal
    <3>1. ~Closed(w2, k)
      BY <1>2, <1>4, <1>6, <2>1, <2>4, FactsAgree DEF Beside, Closed
    <3>2. Good(w3, k)
      BY <2>1, <3>1, ParkGood
    <3> HIDE DEF w3
    <3>3. f.status # "filled"
      BY <2>4 DEF Terminal
    <3>4. QED
      BY <1>3, <1>6, <2>4, <3>2, <3>3, StopOk
  <2>5. QED
    BY <2>2, <2>3, <2>4
<1>7. QED
  BY <1>5, <1>6

LEMMA FoundOk ==
  ASSUME IInv, NEW k \in Intents, run.at = "poll", run.key = k, NEW f \in Lookups(k)
  PROVE  StepOk(Found(k, f), k)
  BY FoundAtRestartOk, FoundInBatchOk DEF Found
LEMMA ClaimsGood ==
  ASSUME NEW k \in Intents, NEW w, Good(w, k), NEW c \in SUBSET Intents
  PROVE  LET r == Durably(w, [w EXCEPT !.claims = c]) IN
         /\ Good(r, k) /\ r.ledger = w.ledger /\ r.mem = w.mem /\ r.run = w.run
<1> DEFINE next == [w EXCEPT !.claims = c]
<1>1. /\ next \in Worlds /\ next.crashes = w.crashes /\ next.ledger = w.ledger
      /\ next.mem = w.mem /\ next.run = w.run
  BY DEF Good, Worlds
<1> HIDE DEF next
<1>2. Within(next, k)
  BY <1>1 DEF Good, Within, BooksOk
<1>3. /\ Good(Durably(w, next), k)
      /\ Durably(w, next).ledger = next.ledger
      /\ Durably(w, next).mem = next.mem /\ Durably(w, next).run = next.run
  BY <1>1, <1>2, DurablyGood
<1>4. QED
  BY <1>1, <1>3 DEF next

-----------------------------------------------------------------------------
(* One order of a batch                                                    *)

\* An order on its way to the venue, of which nothing is booked.
Fresh(w, k) ==
  /\ w.ledger[k].status = "reserved"
  /\ w.mem.orders[k].filled = 0
  /\ w.mem.orders[k].status \in {"PENDING", "APPROVED", "AUTHORIZED"}

\* A batch reserves an entry it has never sent.
LEMMA ReservedGood ==
  ASSUME IInv, NEW k \in Intents, ledger[k] = NoEntry
  PROVE  /\ Good(Reserved(k), k) /\ Reserved(k).mem = mem /\ Reserved(k).run = run
         /\ Reserved(k).ledger[k].status = "reserved"
         /\ Reserved(k).ledger[k].filled = 0 /\ ~Reserved(k).ledger[k].evidence
         /\ sends[k] = 0
<1> DEFINE r == [NoEntry EXCEPT !.status = "reserved"]
<1>1. /\ Good(World, k) /\ World.ledger = ledger /\ World.mem = mem
      /\ World.run = run
  BY WorldGood
<1>2. EntryOk(ledger[k], k) /\ ledger \in [Intents -> Entry]
  BY <1>1, GoodType
<1>3. sends[k] = 0
  BY <1>2 DEF EntryOk, NoEntry
<1>4. /\ r \in Entry /\ r.status = "reserved" /\ r.filled = 0 /\ ~r.evidence
      /\ EntryOk(r, k)
  <2>1. r \in Entry /\ r.status = "reserved" /\ r.filled = 0 /\ ~r.evidence
    BY DEF NoEntry, Entry, LedgerStatuses
  <2>2. venue[k].filled \in Nat
    BY DEF IInv, TypeOK
  <2> HIDE DEF r
  <2>3. QED
    BY <2>1, <2>2 DEF EntryOk, Terminal
<1>5. Reserved(k) = Durably(World, [World EXCEPT !.ledger[k] = r])
  BY <1>1 DEF Reserved
<1> HIDE DEF r
<1>6. LET w == Durably(World, [World EXCEPT !.ledger[k] = r]) IN
      /\ Good(w, k) /\ w.ledger = [ledger EXCEPT ![k] = r]
      /\ w.mem = mem /\ w.run = run
  BY <1>1, <1>4, EntryGood
<1>7. QED
  BY <1>2, <1>3, <1>4, <1>5, <1>6

LEMMA DraftedGood ==
  ASSUME IInv, NEW k \in Intents, NEW w, Good(w, k), sends[k] = 0,
         w.ledger[k].status = "reserved"
  PROVE  LET r == Log(w, Ev("ORDER_INTENT_CREATED", k)) IN
         Good(r, k) /\ Beside(w, r) /\ Fresh(r, k)
<1> DEFINE e == Ev("ORDER_INTENT_CREATED", k)
<1>1. e \in Event /\ e.intent = k /\ e.type = "ORDER_INTENT_CREATED"
  BY NoDecisionType DEF Ev, Event, EventTypes
<1> HIDE DEF e
<1>2. Justified(w.mem, e)
  BY <1>1 DEF Justified, RecordingEvents, FillEvents
<1>3. Good(Log(w, e), k) /\ Beside(w, Log(w, e)) /\ Log(w, e).mem = Apply(w.mem, e)
  BY <1>1, <1>2, LogGood DEF Beside
<1>4. Apply(w.mem, e).orders[k] = NewOrder("PENDING")
  BY <1>1, GoodType, ApplyAt
<1>5. QED
  BY <1>3, <1>4 DEF Beside, Fresh, NewOrder, e

LEMMA PreparedGood ==
  ASSUME IInv, NEW k \in Intents, NEW w, Good(w, k), Fresh(w, k),
         NEW type \in PreparingEvents, NEW n \in Nat,
         NEW e \in {Ev(type, k), [Ev(type, k) EXCEPT !.authorized = n]}
  PROVE  LET r == Log(w, e) IN
         /\ Good(r, k) /\ Beside(w, r) /\ Fresh(r, k)
         /\ type = "BROKER_IO_STARTED" => r.mem.orders[k].io_started
<1> DEFINE r == Log(w, e)
           s == Apply(w.mem, e)
<1>1. e.intent = k /\ e.type = type
  BY DEF Ev
<1>2. e \in Event /\ w.mem \in State
  <2>1. type \in EventTypes
    BY DEF EventTypes, PreparingEvents
  <2>2. Ev(type, k) \in Event
    BY <2>1, NoDecisionType DEF Ev, Event
  <2>3. [Ev(type, k) EXCEPT !.authorized = n] \in Event
    BY <2>2 DEF Event
  <2>4. QED
    BY <2>2, <2>3, GoodType
<1>3. Good(r, k) /\ Beside(w, r) /\ r.mem = s
  <2>1. Justified(w.mem, e)
    BY <1>1 DEF Justified, RecordingEvents, PreparingEvents, FillEvents
  <2>2. QED
    BY <1>1, <1>2, <2>1, LogGood DEF Beside
<1> HIDE DEF r
<1>4. Exists(w.mem, k)
  BY DEF Fresh, Exists
<1>5. s.orders[k].filled = w.mem.orders[k].filled
  BY <1>1, <1>2, ApplyAt DEF PreparingEvents, FillEvents
<1>6. /\ s.orders[k].status \in {"PENDING", "APPROVED", "AUTHORIZED"}
      /\ type = "BROKER_IO_STARTED" => s.orders[k].io_started
  BY <1>1, <1>2, <1>4, ApplyStatus DEF PreparingEvents, Fresh
<1>7. QED
  BY <1>3, <1>5, <1>6 DEF Fresh, Beside, r

\* Up to the request nothing has left, and the lifecycle says so.
LEMMA ApprovedGood ==
  ASSUME IInv, NEW k \in Intents, ledger[k] = NoEntry
  PROVE  /\ Good(Approved(k), k) /\ Fresh(Approved(k), k)
         /\ Approved(k).run = run /\ Approved(k).ledger = Reserved(k).ledger
<1> DEFINE w == Log(Reserved(k), Ev("ORDER_INTENT_CREATED", k))
<1>1. Good(w, k) /\ Beside(Reserved(k), w) /\ Fresh(w, k)
  BY ReservedGood, DraftedGood
<1>2. Approved(k) = Log(w, Ev("RISK_APPROVED", k))
  BY DEF Approved
<1> HIDE DEF w
<1>3. "RISK_APPROVED" \in PreparingEvents /\ 0 \in Nat
  BY DEF PreparingEvents
<1>4. LET r == Log(w, Ev("RISK_APPROVED", k)) IN
      Good(r, k) /\ Beside(w, r) /\ Fresh(r, k)
  BY <1>1, <1>3, PreparedGood
<1>5. QED
  BY <1>1, <1>2, <1>4, ReservedGood DEF Beside

LEMMA ClaimedGood ==
  ASSUME IInv, NEW k \in Intents, ledger[k] = NoEntry
  PROVE  /\ Good(Claimed(k), k) /\ Fresh(Claimed(k), k)
         /\ Claimed(k).run = run /\ Claimed(k).ledger = Reserved(k).ledger
<1> DEFINE e == [Ev("ORDER_AUTHORIZED", k) EXCEPT !.authorized = Size[k]]
           w == Log(Approved(k), e)
           c == w.claims \cup {k}
<1>1. "ORDER_AUTHORIZED" \in PreparingEvents /\ Size[k] \in Nat
  BY IntentsAssumption DEF PreparingEvents
<1>2. Good(w, k) /\ Beside(Approved(k), w) /\ Fresh(w, k)
  BY <1>1, ApprovedGood, PreparedGood
<1>3. Claimed(k) = Durably(w, [w EXCEPT !.claims = c])
  BY DEF Claimed, Claim
<1> HIDE DEF w
<1>4. c \in SUBSET Intents
  BY <1>2, GoodType
<1> HIDE DEF c
<1>5. LET r == Durably(w, [w EXCEPT !.claims = c]) IN
      /\ Good(r, k) /\ r.ledger = w.ledger /\ r.mem = w.mem /\ r.run = w.run
  BY <1>2, <1>4, ClaimsGood
<1>6. QED
  BY <1>2, <1>3, <1>5, ApprovedGood DEF Beside, Fresh

LEMMA StartedOk ==
  ASSUME IInv, NEW k \in Intents, run.at = "batch", ledger[k] = NoEntry
  PROVE  /\ StepOk(Started(k), k) /\ Fresh(Started(k), k)
         /\ Started(k).mem.orders[k].io_started
<1> DEFINE w1 == Log(Claimed(k), Ev("BROKER_SUBMISSION_REQUESTED", k))
           w2 == Log(w1, Ev("BROKER_IO_STARTED", k))
           r  == [Off EXCEPT !.at = "calling", !.key = k]
           w3 == [w2 EXCEPT !.run = r]
<1>1. /\ "BROKER_SUBMISSION_REQUESTED" \in PreparingEvents
      /\ "BROKER_IO_STARTED" \in PreparingEvents /\ 0 \in Nat
  BY DEF PreparingEvents
<1>2. Good(w1, k) /\ Beside(Claimed(k), w1) /\ Fresh(w1, k)
  BY <1>1, ClaimedGood, PreparedGood
<1>3. Started(k) = w3
  BY DEF Started, Requested
<1> HIDE DEF w1
<1>4. /\ Good(w2, k) /\ Beside(w1, w2) /\ Fresh(w2, k)
      /\ w2.mem.orders[k].io_started
  BY <1>1, <1>2, PreparedGood
<1> HIDE DEF w2
<1>5. r \in Runs /\ r.at = "calling" /\ r.key = k
  BY OffType DEF Runs
<1> HIDE DEF r
<1>6. Good(w3, k) /\ w3.ledger = w2.ledger /\ w3.mem = w2.mem /\ w3.run = r
  BY <1>4, <1>5, RunGood
<1> HIDE DEF w3
<1>7. \A j \in Intents : j # k => w3.ledger[j] = ledger[j]
  BY <1>6 DEF Good, Within
<1>8. \A j \in Intents : Closed(World, j)
  BY WorldGood DEF IInv, RunOk
<1>9. Fresh(w3, k)
  BY <1>4, <1>6 DEF Fresh
<1>10. RunOk(w3)
  BY <1>5, <1>6, <1>7, <1>8, <1>9, WorldGood DEF RunOk, Closed, Fresh
<1>11. QED
  BY <1>3, <1>4, <1>6, <1>9, <1>10 DEF StepOk

LEMMA RefusedOk ==
  ASSUME IInv, NEW k \in Intents, ledger[k] = NoEntry, NEW w \in Refused(k)
  PROVE  StepOk(w, k)
<1>1. PICK v \in Refusable(k) : w = Stop(Mark(v, k, "rejected"))
  BY DEF Refused
<1>2. /\ Good(v, k)
      /\ v.ledger[k].status = "reserved"
      /\ v.ledger[k].filled = 0 /\ ~v.ledger[k].evidence
  <2>1. v \in {Reserved(k), Approved(k), Claimed(k)}
    BY <1>1 DEF Refusable
  <2>2. QED
    BY <2>1, ReservedGood, ApprovedGood, ClaimedGood
<1>3. /\ "rejected" \in LedgerStatuses
      /\ "rejected" \in LedgerTransitions(v.ledger[k].status)
      /\ ~v.ledger[k].evidence /\ v.ledger[k].filled = 0 /\ sends[k] = 0
  BY <1>2, ReservedGood DEF LedgerStatuses, Terminal, LedgerTransitions
<1>4. Good(Mark(v, k, "rejected"), k)
  BY <1>2, <1>3, MarkGood
<1>5. QED
  BY <1>1, <1>4, StopOk

LEMMA CallingState ==
  ASSUME IInv, NEW k \in Intents, run.at = "calling", run.key = k
  PROVE  /\ ledger[k].status = "reserved" /\ mem.orders[k].filled = 0
         /\ \A j \in Intents : j = k \/ Closed(World, j)
<1>1. World.run = run /\ World.ledger = ledger /\ World.mem = mem /\ RunOk(World)
  BY WorldGood DEF IInv
<1>2. QED
  BY <1>1 DEF RunOk

LEMMA AnsweredOk ==
  ASSUME IInv, NEW k \in Intents, run.at = "calling", run.key = k,
         venue[k].state # "absent"
  PROVE  StepOk(Answered(k), k)
<1> DEFINE f  == VenueFact(k)
           w1 == RecordBrokerFact(World, k, f)
           w2 == PersistOrderResult(w1, k, f)
           w3 == Mark(w2, k, "reconciling")
<1>1. /\ Good(World, k) /\ World.ledger = ledger /\ World.run = run
      /\ World.mem = mem
  BY WorldGood
<1>2. /\ f.filled = venue[k].filled /\ f.filled \in Nat
      /\ f.status \in {"open", "partial", "filled", "expired"}
      /\ f.status = "expired" => venue[k].state = "expired"
  <2>1. f \in Lookups(k) \cup {VenueFact(k)}
    OBVIOUS
  <2>2. f.status # "unknown"
    BY DEF VenueFact, IInv, TypeOK
  <2> HIDE DEF f
  <2>3. QED
    BY <2>1, <2>2, FactsAgree
<1>3. Answered(k) =
        CASE f.status = "filled"  -> Continue(w2, "batch")
          [] f.status = "expired" -> Stop(w2)
          [] OTHER                -> Poll(w3, k, "working")
  BY DEF Answered
<1>4. f \in Lookups(k) \cup {VenueFact(k)}
  OBVIOUS
<1> HIDE DEF f
<1>5. Good(w1, k) /\ Beside(World, w1)
  <2>1. World.mem.orders[k].filled + f.filled =< venue[k].filled
    BY <1>1, <1>2, CallingState
  <2>2. QED
    BY <1>1, <1>2, <2>1, BrokerFactGood
<1> HIDE DEF w1
<1>6. /\ Good(w2, k) /\ w2.run = w1.run /\ w2.ledger[k].status = f.status
  <2>1. w1.ledger[k].status \in {"reserved", "reconciling"}
    BY <1>1, <1>5, CallingState DEF Beside
  <2>2. LET r == PersistOrderResult(w1, k, f) IN
         /\ Good(r, k) /\ r.run = w1.run
         /\ r.ledger[k] = [status |-> IF f.status = "unknown"
                                      THEN "manual_intervention" ELSE f.status,
                           filled |-> venue[k].filled, evidence |-> TRUE]
    BY <1>4, <1>5, <2>1, PersistGood
  <2>3. QED
    BY <1>2, <2>2
<1> HIDE DEF w2
<1>7. \A j \in Intents : j = k \/ Closed(w2, j)
  BY <1>1, <1>6, CallingState DEF Good, Within, Closed
<1>8. CASE f.status = "filled"
  <2>1. Closed(w2, k)
    BY <1>6, <1>8 DEF Closed, Terminal
  <2>2. QED
    BY <1>3, <1>6, <1>7, <1>8, <2>1, ToBatchOk
<1>9. CASE f.status = "expired"
  BY <1>3, <1>6, <1>9, StopOk
<1>10. CASE f.status \notin {"filled", "expired"}
  <2>1. ~Closed(w2, k)
    BY <1>2, <1>6, <1>10 DEF Closed, Terminal
  <2>2. /\ Good(w3, k) /\ w3.ledger[k].status = "reconciling"
        /\ \A j \in Intents : j # k => w3.ledger[j] = w2.ledger[j]
    BY <1>6, <2>1, ParkGood
  <2> HIDE DEF w3
  <2>3. \A j \in Intents : j = k \/ Closed(w3, j)
    BY <1>7, <2>2 DEF Closed
  <2>4. QED
    BY <1>3, <1>10, <2>2, <2>3, PollOk
<1>11. QED
  BY <1>8, <1>9, <1>10

LEMMA UnansweredOk ==
  ASSUME IInv, NEW k \in Intents, run.at = "calling", run.key = k
  PROVE  StepOk(Unanswered(k), k)
<1> DEFINE w1 == RecordUnknown(World, k)
           w2 == Mark(w1, k, "reconciling")
<1>1. /\ Good(World, k) /\ World.ledger = ledger /\ World.mem = mem
  BY WorldGood
<1>2. Good(w1, k) /\ Beside(World, w1)
  BY <1>1, CallingState, OutcomeUnknownGood
<1>3. Unanswered(k) = Poll(w2, k, "unsure")
  BY DEF Unanswered
<1> HIDE DEF w1
<1>4. w1.ledger = ledger /\ ~Closed(w1, k)
  BY <1>1, <1>2, CallingState DEF Beside, Closed, Terminal
<1>5. /\ Good(w2, k) /\ w2.ledger[k].status = "reconciling"
      /\ \A j \in Intents : j # k => w2.ledger[j] = w1.ledger[j]
  BY <1>2, <1>4, ParkGood
<1> HIDE DEF w2
<1>6. \A j \in Intents : j = k \/ Closed(w2, j)
  BY <1>1, <1>4, <1>5, CallingState DEF Closed
<1>7. QED
  BY <1>3, <1>5, <1>6, PollOk

-----------------------------------------------------------------------------
(* The operator                                                            *)

LEMMA ResolutionOk ==
  ASSUME IInv, NEW k \in Intents, run.at = "off", Resolvable(k)
  PROVE  StepOk(Resolution(k), k) /\ sends[k] = 0
<1> DEFINE w1 == IF mem.orders[k].status = "REJECTED" THEN World
                 ELSE Log(World, Ev("ORDER_REJECTED", k))
           c  == w1.claims \ {k}
           w2 == IF k \in claims THEN Durably(w1, [w1 EXCEPT !.claims = c]) ELSE w1
           r  == [ledger[k] EXCEPT !.status = "rejected"]
           w3 == Durably(w2, [w2 EXCEPT !.ledger[k] = r])
<1>1. /\ Good(World, k) /\ World.ledger = ledger /\ World.mem = mem
      /\ World.run = run
  BY WorldGood
<1>2. sends[k] = 0
  <2>1. OrderOk(mem.orders[k], k \in mem.unresolved, k) /\ VenueOk(k)
    BY <1>1, GoodType DEF IInv
  <2>2. QED
    BY <2>1 DEF OrderOk, VenueOk, Resolvable
<1>3. Good(w1, k) /\ Beside(World, w1)
  <2> DEFINE e == Ev("ORDER_REJECTED", k)
  <2>1. e \in Event /\ e.intent = k /\ e.type = "ORDER_REJECTED"
    BY NoDecisionType DEF Ev, Event, EventTypes
  <2> HIDE DEF e
  <2>2. Justified(World.mem, e)
    BY <1>2, <2>1 DEF Justified, RecordingEvents, FillEvents
  <2>3. Good(Log(World, e), k) /\ Beside(World, Log(World, e))
    BY <1>1, <2>1, <2>2, LogGood DEF Beside
  <2>4. QED
    BY <1>1, <2>3 DEF Beside, e
<1> HIDE DEF w1
<1>4. Good(w2, k) /\ w2.ledger = ledger /\ w2.run = run
  <2>1. c \in SUBSET Intents
    BY <1>3, GoodType
  <2> HIDE DEF c
  <2>2. LET v == Durably(w1, [w1 EXCEPT !.claims = c]) IN
        /\ Good(v, k) /\ v.ledger = w1.ledger /\ v.mem = w1.mem /\ v.run = w1.run
    BY <1>3, <2>1, ClaimsGood
  <2>3. QED
    BY <1>1, <1>3, <2>2 DEF Beside
<1>5. Resolution(k) = w3
  <2>1. Resolution(k) = Durably(w2, [w2 EXCEPT !.ledger[k].status = "rejected"])
    BY DEF Resolution, Release, w1
  <2> HIDE DEF w2
  <2>2. QED
    BY <1>4, <2>1
<1> HIDE DEF w2
<1>6. r \in Entry /\ EntryOk(r, k)
  <2>1. ledger[k] \in Entry /\ venue[k].filled \in Nat
    BY <1>1, GoodType DEF IInv, TypeOK
  <2>2. /\ r \in Entry /\ r.status = "rejected" /\ r.filled = ledger[k].filled
        /\ r.evidence = ledger[k].evidence
    BY <2>1 DEF Entry, LedgerStatuses, Terminal
  <2> HIDE DEF r
  <2>3. QED
    BY <1>2, <2>1, <2>2 DEF EntryOk, Resolvable
<1> HIDE DEF r
<1>7. Good(w3, k) /\ w3.run = w2.run
  <2>1. Good(w2, k)
    BY <1>4
  <2>2. LET next == Durably(w2, [w2 EXCEPT !.ledger[k] = r]) IN
        /\ Good(next, k) /\ next.ledger = [w2.ledger EXCEPT ![k] = r]
        /\ next.mem = w2.mem /\ next.claims = w2.claims /\ next.run = w2.run
    BY <1>6, <2>1, EntryGood
  <2>3. QED
    BY <2>2
<1> HIDE DEF w3
<1>8. RunOk(w3)
  BY <1>4, <1>7 DEF RunOk
<1>9. QED
  BY <1>2, <1>5, <1>7, <1>8 DEF StepOk
-----------------------------------------------------------------------------
(* Every step keeps the invariant                                          *)

\* A step that a death may interrupt is good, and works on an open entry.
LEMMA UndertakenOk ==
  ASSUME IInv, NEW k \in Intents, NEW w \in Undertaken(k)
  PROVE  Good(w, k) /\ ledger[k].status \notin Terminal
<1>1. run \in Runs
  BY DEF IInv, TypeOK
<1>2. CASE run.at = "off"
  <2>1. Resolvable(k) /\ w = Resolution(k)
    BY <1>2 DEF Undertaken
  <2>2. QED
    BY <1>2, <2>1, ResolutionOk DEF StepOk, Resolvable, Terminal
<1>3. CASE run.at = "reconcile"
  <2>1. k \in run.left /\ w = Reconciling(k)
    BY <1>3 DEF Undertaken
  <2>2. QED
    BY <1>3, <2>1, ReconcilingOk, WorldGood DEF StepOk, Closed
<1>4. CASE run.at = "poll"
  <2>1. run.key = k /\ (w = Missed(k) \/ \E f \in Lookups(k) : w = Found(k, f))
    BY <1>4 DEF Undertaken
  <2>2. ledger[k].status \notin Terminal
    BY <1>4, <2>1, PolledState DEF Terminal
  <2>3. QED
    BY <1>4, <2>1, <2>2, MissedOk, FoundOk DEF StepOk
<1>5. CASE run.at = "calling"
  <2>1. /\ run.key = k
        /\ w = Unanswered(k) \/ (w = Answered(k) /\ venue[k].state # "absent")
    BY <1>5 DEF Undertaken
  <2>2. ledger[k].status \notin Terminal
    BY <1>5, <2>1, CallingState DEF Terminal
  <2>3. QED
    BY <1>5, <2>1, <2>2, UnansweredOk, AnsweredOk DEF StepOk
<1>6. CASE run.at = "batch"
  <2>1. ledger[k] = NoEntry /\ (w \in Refused(k) \/ w = Started(k))
    BY <1>6 DEF Undertaken
  <2>2. ledger[k].status \notin Terminal
    BY <2>1 DEF NoEntry, Terminal
  <2>3. QED
    BY <1>6, <2>1, <2>2, RefusedOk, StartedOk DEF StepOk
<1>7. QED
  BY <1>1, <1>2, <1>3, <1>4, <1>5, <1>6 DEF Runs

\* A step that leaves the outside alone keeps the invariant when its world does.
LEMMA BecomeKeeps ==
  ASSUME IInv, NEW w, w.ledger \in [Intents -> Entry], w.mem \in State,
         w.claims \subseteq Intents, w.run \in Runs, BooksOk(w), RunOk(w),
         Become(w), UNCHANGED Outside
  PROVE  IInv'
<1>1. /\ ledger' = w.ledger /\ mem' = w.mem /\ claims' = w.claims /\ run' = w.run
      /\ wire' = wire /\ venue' = venue /\ sends' = sends
  BY DEF Become, Outside
<1>2. TypeOK'
  BY <1>1 DEF IInv, TypeOK, Entry
<1>3. (\A k \in Intents : VenueOk(k))'
  BY <1>1 DEF IInv, VenueOk
<1>4. BooksOk(World)'
  BY <1>1 DEF BooksOk, MemOk, EntryOk, OrderOk, World
<1>5. RunOk(World)'
  BY <1>1 DEF RunOk, Closed, World
<1>6. QED
  BY <1>2, <1>3, <1>4, <1>5 DEF IInv

LEMMA StepKeeps ==
  ASSUME IInv, NEW k \in Intents, NEW w, StepOk(w, k), Become(w), UNCHANGED Outside
  PROVE  IInv'
<1>1. Good(w, k) /\ RunOk(w)
  BY DEF StepOk
<1>2. /\ w.ledger \in [Intents -> Entry] /\ w.mem \in State
      /\ w.claims \subseteq Intents /\ w.run \in Runs /\ BooksOk(w)
  BY <1>1 DEF Good, Worlds, Within
<1>3. QED
  BY <1>1, <1>2, BecomeKeeps

LEMMA DieKeeps ==
  ASSUME IInv, NEW k \in Intents, Die(k)
  PROVE  /\ IInv' /\ UNCHANGED Outside
         /\ ledger[k].status \notin Terminal
         /\ \A j \in Intents : j # k => ledger'[j] = ledger[j]
<1>0. /\ \E w \in Undertaken(k) : \E d \in w.crashes \cup {w} : Become(Dead(d))
      /\ UNCHANGED Outside
  BY DEF Die
<1>w. PICK w \in Undertaken(k) : \E d \in w.crashes \cup {w} : Become(Dead(d))
  BY <1>0
<1>1. PICK d \in w.crashes \cup {w} : Become(Dead(d))
  BY <1>w
<1>2. Good(w, k) /\ ledger[k].status \notin Terminal
  BY UndertakenOk
<1>3. Within(d, k) /\ d \in Cores \cup Worlds
  BY <1>2 DEF Good, Worlds
<1>4. /\ d.ledger \in [Intents -> Entry] /\ d.mem \in State
      /\ d.claims \subseteq Intents
  BY <1>3 DEF Cores, Worlds
<1> DEFINE v == Dead(d)
<1>5. /\ v.ledger = d.ledger /\ v.mem = d.mem /\ v.claims = d.claims /\ v.run = Off
  BY DEF Dead
<1>6. Become(v)
  BY <1>1
<1> HIDE DEF v
<1>7. BooksOk(v) /\ RunOk(v)
  BY <1>3, <1>5, OffType DEF Within, BooksOk, RunOk
<1>8. IInv'
  BY <1>0, <1>4, <1>5, <1>6, <1>7, OffType, BecomeKeeps
<1>9. \A j \in Intents : j # k => ledger'[j] = ledger[j]
  BY <1>3, <1>5, <1>6 DEF Become, Within
<1>10. QED
  BY <1>0, <1>2, <1>8, <1>9

LEMMA SubmitKeeps ==
  ASSUME IInv, NEW k \in Intents, Submit(k)
  PROVE  /\ IInv' /\ sends[k] = 0 /\ sends' = [sends EXCEPT ![k] = 1]
         /\ ledger[k] = NoEntry /\ ledger'[k].status = "reserved"
         /\ \A j \in Intents : Closed(World, j)
         /\ \A j \in Intents : j # k => ledger'[j] = ledger[j]
<1> DEFINE w == Started(k)
<1>1. /\ run.at = "batch" /\ ledger[k] = NoEntry /\ Become(w)
      /\ wire' = wire \cup {k} /\ sends' = [sends EXCEPT ![k] = @ + 1]
      /\ venue' = venue
  BY DEF Submit
<1>2. Good(w, k) /\ RunOk(w) /\ Fresh(w, k) /\ w.mem.orders[k].io_started
  BY <1>1, StartedOk DEF StepOk
<1>3. sends[k] = 0
  BY <1>1, ReservedGood
<1> HIDE DEF w
<1>4. /\ ledger' = w.ledger /\ mem' = w.mem /\ claims' = w.claims /\ run' = w.run
  BY <1>1 DEF Become
<1>5. /\ w.ledger \in [Intents -> Entry] /\ w.mem \in State
      /\ w.claims \subseteq Intents /\ w.run \in Runs /\ BooksOk(w)
      /\ \A j \in Intents : j # k => w.ledger[j] = ledger[j]
  BY <1>2 DEF Good, Worlds, Within
<1>6. sends \in [Intents -> Nat] /\ sends' = [sends EXCEPT ![k] = 1]
  BY <1>1, <1>3 DEF IInv, TypeOK
<1>7. TypeOK'
  BY <1>1, <1>4, <1>5, <1>6 DEF IInv, TypeOK, Entry
<1>8. (\A j \in Intents : VenueOk(j))'
  BY <1>1, <1>3, <1>6 DEF IInv, VenueOk
<1>9. \A j \in Intents : EntryOk(ledger[j], j)'
  <2>1. ASSUME NEW j \in Intents, j # k PROVE EntryOk(ledger[j], j)'
    BY <1>1, <1>4, <1>5, <1>6, <2>1 DEF BooksOk, EntryOk
  <2>2. EntryOk(ledger[k], k)'
    BY <1>1, <1>2, <1>4, <1>5 DEF BooksOk, EntryOk, Fresh
  <2>3. QED
    BY <2>1, <2>2
<1>10. \A j \in Intents : OrderOk(mem.orders[j], j \in mem.unresolved, j)'
  <2>1. ASSUME NEW j \in Intents, j # k
        PROVE OrderOk(mem.orders[j], j \in mem.unresolved, j)'
    BY <1>1, <1>4, <1>5, <1>6, <2>1 DEF BooksOk, MemOk, OrderOk
  <2>2. OrderOk(mem.orders[k], k \in mem.unresolved, k)'
    BY <1>1, <1>2, <1>4, <1>5 DEF BooksOk, MemOk, OrderOk, Fresh
  <2>3. QED
    BY <2>1, <2>2
<1>11. RunOk(World)'
  BY <1>2, <1>4 DEF RunOk, Closed, World
<1>12. BooksOk(World)'
  BY <1>4, <1>9, <1>10 DEF BooksOk, MemOk, World
<1>13. \A j \in Intents : Closed(World, j)
  BY <1>1, WorldGood DEF IInv, RunOk
<1>14. QED
  BY <1>1, <1>2, <1>3, <1>4, <1>5, <1>6, <1>7, <1>8, <1>11, <1>12, <1>13
  DEF IInv, Fresh

\* The venue decides about an order that left and is not final.
LEMMA VenueKeeps ==
  ASSUME IInv, NEW k \in Intents, UNCHANGED <<ledger, mem, claims, sends, run>>,
         venue' \in [Intents -> [state : {"absent", "open", "filled", "expired"},
                                 filled : Nat]],
         \A j \in Intents : j # k => venue'[j] = venue[j],
         wire' \subseteq wire, VenueOk(k)', sends[k] = 1,
         venue[k].state \in {"absent", "open"}, venue[k].filled =< venue'[k].filled
  PROVE  IInv'
<1>1. TypeOK'
  BY DEF IInv, TypeOK
<1>2. (\A j \in Intents : VenueOk(j))'
  BY DEF IInv, VenueOk
<1>3. /\ venue[k].filled \in Nat /\ venue'[k].filled \in Nat
      /\ \A j \in Intents : /\ ledger[j].filled \in Nat
                            /\ mem.orders[j] \in Order /\ mem.orders[j].filled \in Nat
  BY DEF IInv, TypeOK, State, Order
<1>4. \A j \in Intents : /\ EntryOk(ledger[j], j)
                         /\ OrderOk(mem.orders[j], j \in mem.unresolved, j)
  BY WorldGood DEF Good, Within, BooksOk, MemOk
<1>5. \A j \in Intents : EntryOk(ledger[j], j)'
  BY <1>3, <1>4 DEF EntryOk
<1>6. \A j \in Intents : OrderOk(mem.orders[j], j \in mem.unresolved, j)'
  BY <1>3, <1>4 DEF OrderOk
<1>7. BooksOk(World)'
  BY <1>5, <1>6 DEF BooksOk, MemOk, World
<1>8. RunOk(World)'
  BY DEF IInv, RunOk, Closed, World
<1>9. QED
  BY <1>1, <1>2, <1>7, <1>8 DEF IInv
\* The three kinds of step: one ledger entry is written, an entry is sent, the
\* venue decides.
Writes(k) ==
  /\ UNCHANGED Outside /\ ledger[k].status \notin Terminal
  /\ \A j \in Intents : j # k => ledger'[j] = ledger[j]

Decides(k) ==
  /\ UNCHANGED <<ledger, sends>> /\ sends[k] = 1
  /\ venue[k].state \in {"absent", "open"}
  /\ \A j \in Intents : j # k => venue'[j] = venue[j]
  /\ venue'[k].state # "absent" /\ venue[k].filled =< venue'[k].filled

Rests == UNCHANGED <<ledger, Outside>>

LEMMA WritesKeeps ==
  ASSUME IInv, NEW k \in Intents, NEW w, StepOk(w, k), Become(w), UNCHANGED Outside,
         ledger[k].status \notin Terminal
  PROVE  IInv' /\ Writes(k)
<1>1. IInv'
  BY StepKeeps
<1>2. \A j \in Intents : j # k => ledger'[j] = ledger[j]
  BY DEF StepOk, Good, Within, Become
<1>3. QED
  BY <1>1, <1>2 DEF Writes

LEMMA StartRunKeeps ==
  ASSUME IInv, StartRun
  PROVE  IInv' /\ Rests
<1> DEFINE r == [Off EXCEPT !.at = "reconcile", !.left = Unfinished]
           w == [World EXCEPT !.run = r]
<1>1. PICK k \in Intents : TRUE
  BY IntentsAssumption
<1>2. Unfinished \subseteq Intents
  BY DEF Unfinished
<1>3. /\ r \in Runs /\ r.at = "reconcile" /\ r.left = Unfinished
  BY <1>2, OffType DEF Runs
<1>4. run' = r /\ UNCHANGED <<ledger, mem, claims>> /\ UNCHANGED Outside
  BY DEF StartRun, Outside
<1> HIDE DEF r
<1>5. /\ Good(World, k) /\ World.ledger = ledger /\ World.mem = mem
      /\ World.claims = claims
  BY WorldGood
<1>6. /\ Good(w, k) /\ w.ledger = ledger /\ w.mem = mem /\ w.claims = claims
      /\ w.run = r
  BY <1>3, <1>5, RunGood
<1> HIDE DEF w
<1>7. RunOk(w)
  BY <1>3, <1>6 DEF RunOk, Closed, Unfinished
<1>8. Become(w)
  BY <1>4, <1>6 DEF Become
<1>9. IInv'
  BY <1>4, <1>6, <1>7, <1>8, StepKeeps DEF StepOk
<1>10. QED
  BY <1>4, <1>9 DEF Rests

LEMMA EndReconciliationKeeps ==
  ASSUME IInv, EndReconciliation
  PROVE  IInv' /\ Rests
<1> DEFINE w == IF run.blocked THEN Stop(World) ELSE Continue(World, "batch")
<1>1. PICK k \in Intents : TRUE
  BY IntentsAssumption
<1>2. /\ run.at = "reconcile" /\ run.left = {} /\ Become(w) /\ UNCHANGED Outside
  BY DEF EndReconciliation
<1>3. Good(World, k) /\ World.ledger = ledger /\ World.run = run /\ RunOk(World)
  BY WorldGood DEF IInv
<1>4. StepOk(w, k) /\ w.ledger = ledger
  <2>1. CASE run.blocked
    BY <1>3, <2>1, StopOk
  <2>2. CASE ~run.blocked
    <3>1. \A j \in Intents : Closed(World, j)
      BY <1>2, <1>3, <2>2 DEF RunOk
    <3>2. Continue(World, "batch").ledger = World.ledger
      BY DEF Continue, World
    <3>3. QED
      BY <1>3, <2>2, <3>1, <3>2, ToBatchOk
  <2>3. QED
    BY <2>1, <2>2
<1> HIDE DEF w
<1>5. IInv' /\ ledger' = ledger
  BY <1>2, <1>4, StepKeeps DEF Become
<1>6. QED
  BY <1>2, <1>5 DEF Rests

LEMMA EndBatchKeeps ==
  ASSUME IInv, EndBatch
  PROVE  IInv' /\ Rests
<1>1. PICK k \in Intents : TRUE
  BY IntentsAssumption
<1>2. run' = Off /\ UNCHANGED <<ledger, mem, claims>> /\ UNCHANGED Outside
  BY DEF EndBatch, Outside
<1>3. StepOk(Stop(World), k)
  BY WorldGood, StopOk
<1>4. Become(Stop(World))
  BY <1>2 DEF Become, Stop, World
<1>5. QED
  BY <1>2, <1>3, <1>4, StepKeeps DEF Rests

LEMMA VenueTakesKeeps ==
  ASSUME IInv, NEW k \in Intents, VenueTakes(k)
  PROVE  IInv' /\ Decides(k)
<1> DEFINE v == [venue[k] EXCEPT !.state = "open"]
<1>1. /\ k \in wire /\ wire' \subseteq wire /\ k \notin wire'
      /\ venue' = [venue EXCEPT ![k] = v]
      /\ UNCHANGED <<ledger, mem, claims, sends, run>>
  BY DEF VenueTakes
<1>2. /\ VenueOk(k) /\ Size[k] \in Nat \ {0}
      /\ venue \in [Intents -> [state : {"absent", "open", "filled", "expired"},
                                filled : Nat]]
  BY IntentsAssumption DEF IInv, TypeOK
<1>3. /\ v \in [state : {"absent", "open", "filled", "expired"}, filled : Nat]
      /\ v.state = "open" /\ v.filled = venue[k].filled
  BY <1>2
<1> HIDE DEF v
<1>4. /\ sends[k] = 1 /\ venue[k].state = "absent" /\ venue[k].filled = 0
      /\ venue'[k] = v
      /\ venue' \in [Intents -> [state : {"absent", "open", "filled", "expired"},
                                 filled : Nat]]
      /\ \A j \in Intents : j # k => venue'[j] = venue[j]
  BY <1>1, <1>2, <1>3 DEF VenueOk
<1>5. VenueOk(k)'
  BY <1>1, <1>2, <1>3, <1>4 DEF VenueOk
<1>6. IInv'
  BY <1>1, <1>3, <1>4, <1>5, VenueKeeps
<1>7. QED
  BY <1>1, <1>3, <1>4, <1>6 DEF Decides

LEMMA RequestLostKeeps ==
  ASSUME IInv, NEW k \in Intents, RequestLost(k)
  PROVE  IInv' /\ UNCHANGED <<ledger, venue, sends>>
<1>1. /\ k \in wire /\ wire' = wire \ {k}
      /\ UNCHANGED <<ledger, mem, claims, venue, sends, run>>
  BY DEF RequestLost
<1>2. /\ VenueOk(k) /\ venue[k].filled \in Nat
      /\ venue \in [Intents -> [state : {"absent", "open", "filled", "expired"},
                                filled : Nat]]
  BY DEF IInv, TypeOK
<1>3. VenueOk(k)' /\ sends[k] = 1 /\ venue[k].state = "absent"
  BY <1>1, <1>2 DEF VenueOk
<1>4. IInv'
  BY <1>1, <1>2, <1>3, VenueKeeps
<1>5. QED
  BY <1>1, <1>4

LEMMA VenueFillsKeeps ==
  ASSUME IInv, NEW k \in Intents, VenueFills(k)
  PROVE  IInv' /\ Decides(k)
<1> DEFINE n == venue[k].filled + 1
           v == [state |-> IF n = Size[k] THEN "filled" ELSE "open", filled |-> n]
<1>1. /\ venue[k].state = "open" /\ venue' = [venue EXCEPT ![k] = v]
      /\ UNCHANGED <<ledger, mem, claims, wire, sends, run>>
  BY DEF VenueFills
<1>2. /\ VenueOk(k) /\ Size[k] \in Nat \ {0} /\ venue[k].filled \in Nat
      /\ sends[k] \in Nat
      /\ venue \in [Intents -> [state : {"absent", "open", "filled", "expired"},
                                filled : Nat]]
  BY IntentsAssumption DEF IInv, TypeOK
<1>3. /\ v \in [state : {"absent", "open", "filled", "expired"}, filled : Nat]
      /\ v.state = IF n = Size[k] THEN "filled" ELSE "open"
      /\ v.filled = venue[k].filled + 1
  BY <1>2
<1> HIDE DEF v
<1>4. /\ sends[k] = 1 /\ k \notin wire /\ venue'[k] = v
      /\ venue' \in [Intents -> [state : {"absent", "open", "filled", "expired"},
                                 filled : Nat]]
      /\ \A j \in Intents : j # k => venue'[j] = venue[j]
  BY <1>1, <1>2, <1>3 DEF VenueOk
<1>5. VenueOk(k)'
  BY <1>1, <1>2, <1>3, <1>4 DEF VenueOk
<1>6. venue[k].filled =< venue'[k].filled
  BY <1>2, <1>3, <1>4
<1>7. IInv'
  BY <1>1, <1>4, <1>5, <1>6, VenueKeeps
<1>8. QED
  BY <1>1, <1>3, <1>4, <1>6, <1>7 DEF Decides

LEMMA VenueExpiresKeeps ==
  ASSUME IInv, NEW k \in Intents, VenueExpires(k)
  PROVE  IInv' /\ Decides(k)
<1> DEFINE v == [venue[k] EXCEPT !.state = "expired"]
<1>1. /\ venue[k].state = "open" /\ venue' = [venue EXCEPT ![k] = v]
      /\ UNCHANGED <<ledger, mem, claims, wire, sends, run>>
  BY DEF VenueExpires
<1>2. /\ VenueOk(k) /\ Size[k] \in Nat \ {0} /\ venue[k].filled \in Nat
      /\ venue \in [Intents -> [state : {"absent", "open", "filled", "expired"},
                                filled : Nat]]
  BY IntentsAssumption DEF IInv, TypeOK
<1>3. /\ v \in [state : {"absent", "open", "filled", "expired"}, filled : Nat]
      /\ v.state = "expired" /\ v.filled = venue[k].filled
  BY <1>2
<1> HIDE DEF v
<1>4. /\ sends[k] = 1 /\ k \notin wire /\ venue'[k] = v
      /\ venue' \in [Intents -> [state : {"absent", "open", "filled", "expired"},
                                 filled : Nat]]
      /\ \A j \in Intents : j # k => venue'[j] = venue[j]
  BY <1>1, <1>2, <1>3 DEF VenueOk
<1>5. VenueOk(k)'
  BY <1>1, <1>2, <1>3, <1>4 DEF VenueOk
<1>6. IInv'
  BY <1>1, <1>2, <1>3, <1>4, <1>5, VenueKeeps
<1>7. QED
  BY <1>1, <1>2, <1>3, <1>4, <1>6 DEF Decides

LEMMA InitIInv == Init => IInv
<1> SUFFICES ASSUME Init PROVE IInv
  OBVIOUS
<1>1. Size \in [Intents -> Nat \ {0}]
  BY IntentsAssumption
<1>2. TypeOK
  BY EmptyStateType, OffType DEF Init, TypeOK, NoEntry, LedgerStatuses
<1>3. \A k \in Intents : VenueOk(k)
  BY <1>1 DEF Init, VenueOk
<1>4. \A k \in Intents : EntryOk(ledger[k], k)
  BY DEF Init, EntryOk, NoEntry, Terminal
<1>5. MemOk(mem)
  BY DEF Init, MemOk, OrderOk, EmptyState, NewOrder
<1>6. RunOk(World)
  BY OffType DEF Init, RunOk, World
<1>7. QED
  BY <1>2, <1>3, <1>4, <1>5, <1>6 DEF IInv, BooksOk, World

LEMMA NextIInv ==
  ASSUME IInv, [Next]_vars
  PROVE  /\ IInv'
         /\ \/ UNCHANGED <<ledger, venue, sends>>
            \/ \E k \in Intents : Writes(k) \/ Submit(k) \/ Decides(k)
<1>1. CASE StartRun \/ EndReconciliation \/ EndBatch
  BY <1>1, StartRunKeeps, EndReconciliationKeeps, EndBatchKeeps DEF Rests, Outside
<1>2. CASE UNCHANGED vars
  <2>1. Become(World) /\ UNCHANGED Outside
    BY <1>2 DEF vars, Become, World, Outside
  <2>2. PICK k \in Intents : TRUE
    BY IntentsAssumption
  <2>3. StepOk(World, k)
    BY WorldGood DEF StepOk, IInv
  <2>4. QED
    BY <1>2, <2>1, <2>3, StepKeeps DEF vars
<1>3. ASSUME NEW k \in Intents, ReconcileOrder(k)
      PROVE  IInv' /\ Writes(k)
  <2>1. /\ run.at = "reconcile" /\ k \in run.left
        /\ Become(Reconciling(k)) /\ UNCHANGED Outside
    BY <1>3 DEF ReconcileOrder
  <2>2. StepOk(Reconciling(k), k) /\ ledger[k].status \notin Terminal
    BY <2>1, ReconcilingOk, WorldGood DEF Closed
  <2>3. QED
    BY <2>1, <2>2, WritesKeeps
<1>4. ASSUME NEW k \in Intents, PollMisses(k) \/ \E f \in Lookups(k) : PollFinds(k, f)
      PROVE  IInv' /\ Writes(k)
  <2>1. /\ run.at = "poll" /\ run.key = k /\ UNCHANGED Outside
        /\ Become(Missed(k)) \/ \E f \in Lookups(k) : Become(Found(k, f))
    BY <1>4 DEF PollMisses, PollFinds
  <2>2. ledger[k].status \notin Terminal
    BY <2>1, PolledState DEF Terminal
  <2>3. PICK w : Become(w) /\ StepOk(w, k)
    BY <2>1, MissedOk, FoundOk
  <2>4. QED
    BY <2>1, <2>2, <2>3, WritesKeeps
<1>5. ASSUME NEW k \in Intents, Refuse(k)
      PROVE  IInv' /\ Writes(k)
  <2>1. /\ ledger[k] = NoEntry /\ UNCHANGED Outside
        /\ \E w \in Refused(k) : Become(w)
    BY <1>5 DEF Refuse
  <2>2. PICK w \in Refused(k) : Become(w)
    BY <2>1
  <2>3. StepOk(w, k)
    BY <2>1, RefusedOk
  <2>4. ledger[k].status \notin Terminal
    BY <2>1 DEF NoEntry, Terminal
  <2>5. QED
    BY <2>1, <2>2, <2>3, <2>4, WritesKeeps
<1>6. ASSUME NEW k \in Intents, Answer(k) \/ CallFails(k)
      PROVE  IInv' /\ Writes(k)
  <2>1. /\ run.at = "calling" /\ run.key = k /\ UNCHANGED Outside
        /\ \/ Become(Unanswered(k))
           \/ Become(Answered(k)) /\ venue[k].state # "absent"
    BY <1>6 DEF Answer, CallFails
  <2>2. ledger[k].status \notin Terminal
    BY <2>1, CallingState DEF Terminal
  <2>3. PICK w : Become(w) /\ StepOk(w, k)
    BY <2>1, AnsweredOk, UnansweredOk
  <2>4. QED
    BY <2>1, <2>2, <2>3, WritesKeeps
<1>7. ASSUME NEW k \in Intents, ResolveUnsubmitted(k)
      PROVE  IInv' /\ Writes(k)
  <2>1. run = Off /\ Resolvable(k) /\ Become(Resolution(k)) /\ UNCHANGED Outside
    BY <1>7 DEF ResolveUnsubmitted
  <2>2. StepOk(Resolution(k), k)
    BY <2>1, OffType, ResolutionOk
  <2>3. ledger[k].status \notin Terminal
    BY <2>1 DEF Resolvable, Terminal
  <2>4. QED
    BY <2>1, <2>2, <2>3, WritesKeeps
<1>8. ASSUME NEW k \in Intents, Die(k)
      PROVE  IInv' /\ Writes(k)
  BY <1>8, DieKeeps DEF Writes
<1>9. CASE \E k \in Intents :
             \/ ReconcileOrder(k) \/ PollMisses(k) \/ (\E f \in Lookups(k) : PollFinds(k, f))
             \/ Refuse(k) \/ Answer(k) \/ CallFails(k)
             \/ ResolveUnsubmitted(k) \/ Die(k)
  BY <1>3, <1>4, <1>5, <1>6, <1>7, <1>8, <1>9
<1>10. CASE \E k \in Intents : Submit(k)
  BY <1>10, SubmitKeeps
<1>11. CASE \E k \in Intents : VenueTakes(k) \/ VenueFills(k) \/ VenueExpires(k)
  BY <1>11, VenueTakesKeeps, VenueFillsKeeps, VenueExpiresKeeps
<1>12. CASE \E k \in Intents : RequestLost(k)
  BY <1>12, RequestLostKeeps
<1>13. QED
  BY <1>1, <1>2, <1>9, <1>10, <1>11, <1>12 DEF Next
-----------------------------------------------------------------------------
(* The theorems                                                            *)

THEOREM InvariantHolds == Spec => []IInv
<1>1. IInv /\ [Next]_vars => IInv'
  BY NextIInv
<1>2. QED
  BY <1>1, InitIInv, PTL DEF Spec

\* Whatever is lost and wherever the process dies, the two books, the venue and
\* the run stay well formed (order_ledger, ExecutionState, the venue's orders).
THEOREM SubmissionTypeCorrect == Spec => []TypeOK
<1>1. IInv => TypeOK
  BY DEF IInv
<1>2. QED
  BY <1>1, InvariantHolds, PTL

\* Neither the order ledger nor the lifecycle ever books more than the venue
\* filled, however often an order is looked up (_record_reconciled_submission).
THEOREM FillsAreReal == Spec => []NoSyntheticFills
<1>1. IInv => NoSyntheticFills
  BY WorldGood
  DEF NoSyntheticFills, Good, Within, BooksOk, MemOk, EntryOk, OrderOk
<1>2. QED
  BY <1>1, InvariantHolds, PTL

\* The order ledger never meets an update it refuses: update_order raises in no
\* run, after no death and for no answer.
THEOREM UpdatesAreAccepted == Spec => []NoUpdateRaises
<1>1. IInv => NoUpdateRaises
  BY WorldGood DEF NoUpdateRaises, Good, Within, BooksOk, EntryOk
<1>2. QED
  BY <1>1, InvariantHolds, PTL

\* An order the lifecycle holds for filled, cancelled or rejected is neither on
\* its way to the venue nor resting there.
THEOREM DeadOrdersAreDead == Spec => []DeadInLogIsDead
<1>1. IInv => DeadInLogIsDead
  <2> SUFFICES ASSUME IInv, NEW k \in Intents,
                      mem.orders[k].status \in {"FILLED", "CANCELED", "REJECTED"}
               PROVE  k \notin wire /\ venue[k].state # "open"
    BY DEF DeadInLogIsDead
  <2>1. OrderOk(mem.orders[k], k \in mem.unresolved, k) /\ VenueOk(k)
    BY WorldGood, GoodType DEF IInv
  <2>2. QED
    BY <2>1 DEF OrderOk, VenueOk
<1>2. QED
  BY <1>1, InvariantHolds, PTL

\* A closed entry has nothing outstanding.
LEMMA ClosedIsSettled ==
  ASSUME IInv, NEW k \in Intents, Closed(World, k)
  PROVE  k \notin wire /\ venue[k].state # "open"
<1>1. EntryOk(ledger[k], k) /\ VenueOk(k) /\ World.ledger = ledger
  BY WorldGood, GoodType DEF IInv
<1>2. QED
  BY <1>1 DEF EntryOk, VenueOk, Closed, Terminal

\* execute_orders sends an entry only when no other order may still fill.
THEOREM OneAtATime == Spec => NothingOutstandingWhenSending
<1>1. ASSUME IInv, [Next]_vars, NEW k \in Intents, sends'[k] > sends[k],
             NEW j \in Intents \ {k}
      PROVE  j \notin wire /\ venue[j].state # "open"
  <2>1. sends \in [Intents -> Nat]
    BY <1>1 DEF IInv, TypeOK
  <2>2. sends' # sends
    BY <1>1, <2>1
  <2>3. PICK i \in Intents : Submit(i)
    BY <1>1, <2>2, NextIInv DEF Writes, Decides, Outside
  <2>4. QED
    BY <1>1, <2>3, SubmitKeeps, ClosedIsSettled
<1>2. IInv /\ [Next]_vars =>
        [\A k \in Intents : sends'[k] > sends[k] =>
           \A j \in Intents \ {k} : j \notin wire /\ venue[j].state # "open"]_vars
  BY <1>1
<1>3. QED
  BY <1>2, InvariantHolds, PTL DEF Spec, NothingOutstandingWhenSending

-----------------------------------------------------------------------------
(* The promise                                                             *)

Books == [k \in Intents |-> Book(k)]

LEMMA BookOf ==
  ASSUME NEW k \in Intents
  PROVE  /\ Books[k] = Book(k)
         /\ ledger[k].status \notin Terminal => Book(k) = Promise!OpenBook
         /\ ledger[k].status \in Terminal =>
              Book(k) = [state  |-> IF ledger[k].evidence THEN "settled" ELSE "void",
                         filled |-> ledger[k].filled]
  BY DEF Books, Book, Promise!OpenBook

\* What is written to a ledger entry settles it, gives it up or leaves it open.
LEMMA WritesKeepPromise ==
  ASSUME IInv, IInv', NEW k \in Intents, Writes(k)
  PROVE  Promise!Next \/ UNCHANGED <<sends, venue, Books>>
<1>1. UNCHANGED <<sends, venue>> /\ ledger[k].status \notin Terminal
  BY DEF Writes, Outside
<1>2. \A j \in Intents : j # k => Book(j)' = Book(j)
  BY DEF Writes, Book
<1>3. Books' = [Books EXCEPT ![k] = Book(k)']
  BY <1>2 DEF Books
<1>4. Books[k] = Promise!OpenBook
  BY <1>1, BookOf
<1>5. EntryOk(ledger[k], k)' /\ VenueOk(k)
  BY DEF IInv, BooksOk, World
<1>6. CASE ledger'[k].status \notin Terminal
  <2>1. Book(k)' = Promise!OpenBook
    BY <1>6 DEF Book, Promise!OpenBook
  <2>2. Books' = Books
    BY <1>3, <1>4, <2>1 DEF Books
  <2>3. QED
    BY <1>1, <2>2
<1>7. CASE ledger'[k].status = "rejected"
  <2>1. Book(k)' = [state |-> "void", filled |-> 0] /\ sends[k] = 0
    BY <1>1, <1>5, <1>7 DEF Book, EntryOk, Terminal
  <2>2. Promise!Void(k)
    BY <1>1, <1>3, <1>4, <2>1 DEF Promise!Void, Books
  <2>3. QED
    BY <2>2 DEF Promise!Next
<1>8. CASE ledger'[k].status \in {"filled", "expired"}
  <2>1. /\ Book(k)' = [state |-> "settled", filled |-> venue[k].filled]
        /\ venue[k].state \in Promise!Final
    BY <1>1, <1>5, <1>8 DEF Book, EntryOk, Terminal, Promise!Final
  <2>2. Promise!Settle(k)
    BY <1>1, <1>3, <1>4, <2>1 DEF Promise!Settle, Books
  <2>3. QED
    BY <2>2 DEF Promise!Next
<1>9. QED
  BY <1>6, <1>7, <1>8 DEF Terminal

LEMMA SubmitKeepsPromise ==
  ASSUME IInv, NEW k \in Intents, Submit(k)
  PROVE  Promise!Next
<1>1. /\ sends[k] = 0 /\ sends' = [sends EXCEPT ![k] = 1] /\ venue' = venue
      /\ ledger[k] = NoEntry /\ ledger'[k].status = "reserved"
      /\ \A j \in Intents : j # k => ledger'[j] = ledger[j]
  BY SubmitKeeps DEF Submit
<1>2. Book(k) = Promise!OpenBook /\ Book(k)' = Promise!OpenBook
  BY <1>1 DEF Book, NoEntry, Terminal, Promise!OpenBook
<1>3. \A j \in Intents : Book(j)' = Book(j)
  BY <1>1, <1>2 DEF Book
<1>4. Books' = Books /\ Books[k] = Promise!OpenBook
  BY <1>2, <1>3 DEF Books
<1>5. Promise!Ask(k)
  BY <1>1, <1>4 DEF Promise!Ask, Books
<1>6. QED
  BY <1>5 DEF Promise!Next

LEMMA DecidesKeepsPromise ==
  ASSUME IInv, IInv', NEW k \in Intents, Decides(k)
  PROVE  Promise!Next
<1>1. /\ UNCHANGED <<ledger, sends>> /\ sends[k] = 1
      /\ venue[k].state \in {"absent", "open"}
      /\ \A j \in Intents : j # k => venue'[j] = venue[j]
      /\ venue'[k].state # "absent" /\ venue[k].filled =< venue'[k].filled
  BY DEF Decides
<1>2. Books' = Books
  BY <1>1 DEF Books, Book
<1> DEFINE v == venue'[k]
<1>3. /\ venue \in [Intents -> [state : {"absent", "open", "filled", "expired"},
                                filled : Nat]]
      /\ venue' \in [Intents -> [state : {"absent", "open", "filled", "expired"},
                                 filled : Nat]]
      /\ VenueOk(k)' /\ Size[k] \in Nat \ {0}
  BY IntentsAssumption DEF IInv, TypeOK
<1>4. v \in [state : {"absent", "open", "filled", "expired"}, filled : Nat]
  BY <1>3
<1>5. venue' = [venue EXCEPT ![k] = [state |-> v.state, filled |-> v.filled]]
  <2>1. v = [state |-> v.state, filled |-> v.filled]
    BY <1>4
  <2> HIDE DEF v
  <2>2. venue' = [venue EXCEPT ![k] = v]
    BY <1>1, <1>3 DEF v
  <2>3. QED
    BY <2>1, <2>2
<1>6. v.filled \in venue[k].filled .. Size[k] /\ v.state \in {"open"} \cup Promise!Final
  BY <1>1, <1>3, <1>4 DEF VenueOk, Promise!Final
<1>7. venue[k].state \notin Promise!Final
  BY <1>1 DEF Promise!Final
<1> HIDE DEF v
<1>8. Promise!Decide(k)
  BY <1>1, <1>2, <1>5, <1>6, <1>7 DEF Promise!Decide, Books
<1>9. QED
  BY <1>8 DEF Promise!Next

\* The runner and its ledger keep the promise of OrderPromise: an entry is sent
\* at most once and never after it was closed, is settled with exactly the
\* venue's last word, and is given up only if it never left.
THEOREM PromiseIsKept == Spec => KeepsPromise
<1>1. Init => Promise!Init
  <2> SUFFICES ASSUME Init PROVE Promise!Init
    OBVIOUS
  <2>1. \A k \in Intents : Book(k) = Promise!OpenBook
    BY DEF Init, Book, NoEntry, Terminal, Promise!OpenBook
  <2>2. QED
    BY <2>1 DEF Init, Promise!Init
<1>2. IInv /\ IInv' /\ [Next]_vars =>
        [Promise!Next]_<<sends, venue, [k \in Intents |-> Book(k)]>>
  <2> SUFFICES ASSUME IInv, IInv', [Next]_vars
               PROVE  Promise!Next \/ UNCHANGED <<sends, venue, Books>>
    BY DEF Books
  <2>1. CASE UNCHANGED <<ledger, venue, sends>>
    BY <2>1 DEF Books, Book
  <2>2. CASE \E k \in Intents : Writes(k) \/ Submit(k) \/ Decides(k)
    BY <2>2, WritesKeepPromise, SubmitKeepsPromise, DecidesKeepsPromise
  <2>3. QED
    BY <2>1, <2>2, NextIInv
<1>3. QED
  BY <1>1, <1>2, InvariantHolds, PTL DEF Spec, KeepsPromise, Promise!Spec
=============================================================================
