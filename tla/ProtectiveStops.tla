-------------------------- MODULE ProtectiveStops ---------------------------
(***************************************************************************)
(* How the live runner keeps a stop order resting at the venue under a     *)
(* position, tightens it, hands its quantity over to an exit, and books it *)
(* when it fires (scripts/live_enhanced_ma_binance.py), over three books:  *)
(* the position's record in the risk state (execution/live_safety.py), the *)
(* order ledger of the exits, and the canonical lifecycle.                 *)
(*                                                                         *)
(* One symbol and one position, from the moment its entry was filled and   *)
(* booked until nothing is held.  Requests and answers may be lost, cancel *)
(* requests may fail in every way, the stop may fire at any moment, and    *)
(* the process may die between any two durable writes, or raise wherever   *)
(* it reads the account, a quote or an order.                              *)
(*                                                                         *)
(*   mem     the lifecycle's state                                         *)
(*   record  the risk state's record of the position: trailing stop, the   *)
(*           active protective order and the pending one                   *)
(*   ledger  the order ledger of the exits                                 *)
(*   price   the level each stop was reserved at, 0 before                 *)
(*   venue   what the venue holds under each client order ID               *)
(*   held    the quantity the account holds                                *)
(*   wire    the keys whose request is on its way to the venue             *)
(*   run     where the process is; one process at a time                   *)
(*                                                                         *)
(* A stop is named by its client order ID; its revision makes it fresh.    *)
(* Prices are levels.  Dust, fees in the base asset, quotes and the        *)
(* operational track's tighter stops are left out.                         *)
(***************************************************************************)
EXTENDS RunnerRecording

CONSTANTS
  Stops,      \* the sells that are protective stops; the others are exits
  MaxLevel,   \* bound: the price levels of a stop are 1 .. MaxLevel
  Expiring,   \* bound: the orders the venue may end of its own accord
  Nil         \* no order

Exits == Sells \ Stops

ASSUME StopsAssumption ==
  /\ Stops \subseteq Sells /\ Nil \notin Intents /\ Cardinality(Buys) = 1
  /\ MaxLevel \in Nat \ {0}

VARIABLES mem, record, ledger, price, venue, held, wire, run

vars == <<mem, record, ledger, price, venue, held, wire, run>>

Entry == CHOOSE e \in Buys : TRUE

\* trail = 0: the symbol has no record.
NoRecord == [trail |-> 0, active |-> Nil, pending |-> Nil]

Runs ==
  [at : {"off", "orders", "positions", "ensure", "cancel", "stopcall", "recover",
         "exit", "handover", "stopcheck", "exitcall", "poll", "residual",
         "protect", "heldback", "cleanup", "done"},
   seen : Nat, exit : Exits \cup {Nil}, raises : BOOLEAN]

\* seen: the quantity the run read, while it matters; exit: the exit it is about;
\* raises: whether the batch stops once the position is protected.
Off == [at |-> "off", seen |-> 0, exit |-> Nil, raises |-> FALSE]

-----------------------------------------------------------------------------
(* The venue                                                               *)

Locked(w) ==
  MapThenSumSet(LAMBDA j : Size[j] - w.venue[j].filled,
                {j \in Sells : w.venue[j].state = "open"})

\* free_qty of the position
Free(w) == w.held - Locked(w)

Status(w, k) ==
  IF k = Nil THEN "none"
  ELSE IF w.venue[k].state = "open" /\ w.venue[k].filled > 0 THEN "partial"
  ELSE w.venue[k].state

FactOf(w, k) == [status |-> Status(w, k), filled |-> w.venue[k].filled]

Fired == {"partial", "filled"}

-----------------------------------------------------------------------------
(* The worlds of this module (see RunnerRecording)                         *)

World == [mem |-> mem, record |-> record, ledger |-> ledger, price |-> price,
          venue |-> venue, wire |-> wire, run |-> run, held |-> held,
          crashes |-> {}]

Become(w) ==
  /\ mem' = w.mem /\ record' = w.record /\ ledger' = w.ledger
  /\ price' = w.price /\ venue' = w.venue /\ wire' = w.wire /\ run' = w.run
  /\ UNCHANGED held

\* The step completes, or the process dies on the way.
Commit(w) ==
  \/ Become(w)
  \/ \E c \in w.crashes : Become([c EXCEPT !.run = Off])

Goto(w, at) == [w EXCEPT !.run.at = at]
Raise(w)    == [w EXCEPT !.run = Off]
Complete(w) == [w EXCEPT !.run = [Off EXCEPT !.at = "done"]]

\* The position is protected: the batch goes on, or stops.
Protected(w) == IF w.run.raises THEN Raise(w) ELSE Complete(w)

Close(w, x)      == Durably(w, [w EXCEPT !.ledger[x] = "closed"])
Unfinished(w, x) == Durably(w, [w EXCEPT !.ledger[x] = "unfinished"])

-----------------------------------------------------------------------------
(* The position's record                                                   *)

AbandonPending(w) ==
  IF w.record.pending = Nil THEN w
  ELSE Durably(w, [w EXCEPT !.record.pending = Nil])

ClearActive(w) ==
  IF w.record.active = Nil THEN w
  ELSE Durably(w, [w EXCEPT !.record.active = Nil])

ActivatePending(w) ==
  Durably(w, [w EXCEPT !.record.active = w.record.pending, !.record.pending = Nil])

ClearPositionRisk(w) == Durably(w, [w EXCEPT !.record = NoRecord])

\* Mutant: the last level observed replaces the trail.
ObservedLoosely(w) ==
  {Durably(w, [w EXCEPT !.record.trail = level]) : level \in 1 .. MaxLevel}

\* observe_position_risk: the trail may tighten, never widen.
Observed(w) ==
  {Durably(w, [w EXCEPT !.record.trail = level]) :
     level \in Max({1, w.record.trail}) .. MaxLevel}

\* reserve_protective_order: under a fresh client order ID.
Reservations(w, quantity, level) ==
  {Durably(w, [w EXCEPT !.record.pending = s, !.price[s] = level]) :
     s \in LET fresh == {t \in Stops : w.price[t] = 0 /\ Size[t] = quantity}
           IN  IF fresh = {} THEN {} ELSE {CHOOSE t \in fresh : TRUE}}

-----------------------------------------------------------------------------
(* reconcile_protective_stop: what became of the recorded stops.  The      *)
(* active one, if any, rests at the venue when this does not raise.        *)

Settles(w) == [raises |-> FALSE, world |-> w]
Refuses(w) == [raises |-> TRUE, world |-> w]

ReconciledActive(w) ==
  CASE Status(w, w.record.active) \in {"none", "open"} -> Settles(w)
    [] Status(w, w.record.active) \in Fired           -> Refuses(w)
    [] OTHER                                           -> Settles(ClearActive(w))

\* Mutant: a pending stop the venue does not know is given up.
ForgottenPending(w) ==
  CASE Status(w, w.record.active) \in Fired -> Refuses(w)
    [] Status(w, w.record.active) = "open"  -> Settles(AbandonPending(w))
    [] OTHER                                -> Settles(AbandonPending(ClearActive(w)))

\* A pending stop the venue does not know.  Without an active one it is kept.
UnknownPending(w) ==
  CASE Status(w, w.record.active) = "none"  -> Settles(w)
    [] Status(w, w.record.active) = "open"  -> Settles(AbandonPending(w))
    [] Status(w, w.record.active) \in Fired -> Refuses(w)
    [] OTHER                                -> Settles(AbandonPending(ClearActive(w)))

ReconcileProtectiveStop(w) ==
  CASE Status(w, w.record.pending) = "none"    -> ReconciledActive(w)
    [] Status(w, w.record.pending) = "absent"  -> UnknownPending(w)
    [] Status(w, w.record.pending) = "expired" -> ReconciledActive(AbandonPending(w))
    [] Status(w, w.record.pending) \in Fired   -> Refuses(w)
    [] Status(w, w.record.pending) = "open"    ->
         IF Status(w, w.record.active) \in {"open"} \cup Fired THEN Refuses(w)
         ELSE Settles(ActivatePending(w))

\* _acknowledge_lifecycle_protection
Acknowledge(w) ==
  IF w.mem.protection[Entry] = "PROTECTION_REQUIRED"
  THEN Log(Log(w, Ev("PROTECTIVE_ORDER_CREATED", Entry)),
           Ev("PROTECTIVE_ORDER_ACKNOWLEDGED", Entry))
  ELSE w

\* _book_protective_stop_fill
Book(w, s) ==
  IF Exists(w.mem, s) /\ w.mem.orders[s].status # "FILLED"
  THEN RecordReconciledSubmission(w, s, FactOf(w, s)) ELSE w

-----------------------------------------------------------------------------
(* Cancelling an order and sending one                                     *)

\* request_cancel accepts, or the cancel is already requested.
Cancellable(w, k) ==
  w.mem.orders[k].status \in LiveStatuses \cup {"APPROVED", "CANCEL_REQUESTED"}

RequestCancel(w, k) ==
  IF w.mem.orders[k].status = "CANCEL_REQUESTED" THEN w
  ELSE Log(w, Ev("CANCEL_REQUESTED", k))

Cancelled(w, k) == [w EXCEPT !.venue[k].state = "expired"]

\* The gateway's cancel with a confirmation; without one the venue may have
\* cancelled or not.
Confirmed(w, k) == IF w.venue[k].state = "open" THEN {Cancelled(w, k)} ELSE {}
Unconfirmed(w, k) == {w} \cup Confirmed(w, k)

\* What follows the confirmed cancel of the active stop.
HandedOver(w, s) == ClearActive(Log(w, Ev("CANCEL_CONFIRMED", s)))

\* The decision emergency_reduce issues for itself.
EmergencyDecision ==
  [present |-> TRUE, reduce_only |-> TRUE, headroom |-> FALSE,
   evidence |-> [e \in EvidenceOf |-> "KNOWN"], waived |-> FALSE]

Reserved(w, k) ==
  MapThenSumSet(LAMBDA j : RemainingReserved(w.mem.orders[j]),
                Sells \ (Protective \cup {k}))

\* emergency_reduce: create, approve, authorize, claim, request; the intent is
\* new, and so is its claim.
Approved(w, k) ==
  Log(Log(w, Ev("ORDER_INTENT_CREATED", k)),
      [Ev("RISK_APPROVED", k) EXCEPT !.risk = EmergencyDecision])

Authorized(w, k) ==
  Log(Approved(w, k), [Ev("ORDER_AUTHORIZED", k) EXCEPT !.authorized = Size[k]])

\* The gateway's BROKER_IO_STARTED, and the request leaves.
Sent(w, k) ==
  LET v == Log(Log(Authorized(w, k), Ev("BROKER_SUBMISSION_REQUESTED", k)),
               Ev("BROKER_IO_STARTED", k))
  IN  Goto([v EXCEPT !.wire = @ \cup {k}], IF k \in Stops THEN "stopcall" ELSE "exitcall")

\* A quote or the account may be missing at either check.
RefusedLocally(w, k) ==
  {Approved(w, k)} \cup (IF Size[k] =< Free(w) THEN {Authorized(w, k)} ELSE {})

Submitted(w, k) ==
  IF Size[k] + Reserved(w, k) =< Free(w) THEN {Sent(w, k)} ELSE {}

-----------------------------------------------------------------------------
(* ensure_protective_stop.  Each step is the set of the worlds it may      *)
(* leave behind.                                                           *)

\* Sending the reserved stop: into the call, or into the recovery.
PlaceStop(w) ==
  Submitted(w, w.record.pending) \cup
  {Goto(v, "recover") : v \in RefusedLocally(w, w.record.pending)}

\* With an active stop the lifecycle's cancel comes first; it may refuse.
ReplaceStop(w) ==
  IF w.record.active = Nil THEN PlaceStop(w)
  ELSE IF Cancellable(w, w.record.active)
       THEN {Goto(RequestCancel(w, w.record.active), "cancel")}
       ELSE {Goto(w, "recover")}

\* Mutant: one level too far.
LevelAbove(w) == w.record.trail + 1

TightEnough(w, s) == w.price[s] >= w.record.trail

DesiredLevel(w) ==
  IF w.record.active = Nil THEN w.record.trail
  ELSE Max({w.record.trail, w.price[w.record.active]})

\* A pending stop makes reserve_protective_order raise.
Ensured(w0) ==
  LET r == ReconcileProtectiveStop(w0)
      w == r.world
      s == w.record.active
  IN  IF r.raises THEN {Raise(w)}
      ELSE IF s # Nil /\ TightEnough(w, s) /\ Size[s] = w.run.seen
           THEN {Protected(Acknowledge(w))}
      ELSE IF w.record.pending # Nil THEN {Raise(w)}
      ELSE UNION {ReplaceStop([v EXCEPT !.run.seen = 0]) :
                    v \in Reservations(w, w.run.seen, DesiredLevel(w))}

\* The old stop is cancelled and the new one sent, or the recovery begins.
StopCancelled(w) ==
  (UNION {PlaceStop(HandedOver(v, w.record.active)) :
            v \in Confirmed(w, w.record.active)})
  \cup {Goto(v, "recover") : v \in Unconfirmed(w, w.record.active)}

StopAnswered(w) ==
  LET s == w.record.pending
      v == RecordBrokerFact(w, s, FactOf(w, s))
  IN  IF Status(w, s) = "open" THEN Protected(Acknowledge(ActivatePending(v)))
      ELSE Raise(v)

\* The recovery succeeds only where the new stop turns out to rest.
Recovered(w) ==
  LET r == ReconcileProtectiveStop(w)
      s == r.world.record.active
  IN  IF ~r.raises /\ s # Nil /\ s = w.record.pending
      THEN Protected(Acknowledge(RecordReconciledSubmission(r.world, s,
                                   [status |-> "open", filled |-> 0])))
      ELSE Raise(r.world)

-----------------------------------------------------------------------------
(* An exit: execute_orders                                                 *)

Capacity(w) ==
  Min({w.held, Free(w) + (IF w.record.active = Nil THEN 0
                          ELSE Min({Locked(w), Size[w.record.active]}))})

\* A refusal before broker I/O closes the exit.
PlaceExit(w, x) ==
  Submitted(w, x) \cup {Raise(Close(v, x)) : v \in RefusedLocally(w, x)}

\* The stop is reconciled, the exit reserved, the stop's quantity asked back.
ExitBegun(w0, x) ==
  LET r == ReconcileProtectiveStop(w0)
      w == Unfinished(r.world, x)
      s == w.record.active
  IN  IF r.raises \/ Size[x] > Capacity(r.world) THEN {Raise(r.world)}
      ELSE IF s = Nil THEN PlaceExit(w, x)
      ELSE IF Cancellable(w, s) THEN {Goto(RequestCancel(w, s), "handover")}
      ELSE {Raise(Close(w, x))}

HandedToExit(w, x) ==
  (UNION {PlaceExit(HandedOver(v, w.record.active), x) :
            v \in Confirmed(w, w.record.active)})
  \cup {Goto(v, "stopcheck") : v \in Unconfirmed(w, w.record.active)}

\* The stop may have fired while the exit was cancelling it.
StopChecked(w, x) ==
  LET s == w.record.active IN
  IF Status(w, s) = "filled" THEN Complete(Close(ClearPositionRisk(Book(w, s)), x))
  ELSE Raise(Close(w, x))

Persisted(w, x) ==
  IF Status(w, x) \in {"filled", "expired"} THEN Close(w, x) ELSE Unfinished(w, x)

\* What follows an exit the venue accepted.
AfterExit(w, x, raises) ==
  CASE Status(w, x) = "filled"  -> [Goto(w, "protect") EXCEPT !.run.raises = raises]
    [] Status(w, x) = "expired" -> Raise(w)
    [] OTHER                    -> Goto(w, "residual")

ExitAnswered(w, x) ==
  AfterExit(Persisted(RecordBrokerFact(w, x, FactOf(w, x)), x), x, FALSE)

\* The ledger first, then the lifecycle.
ExitPolled(w, x) ==
  AfterExit(RecordReconciledSubmission(Persisted(w, x), x, FactOf(w, x)), x, TRUE)

\* Mutant: an exit that is not found did not arrive, so the stop is restored.
ExitPresumedLost(w, x) ==
  [Goto(Unfinished(w, x), "protect") EXCEPT !.run.raises = TRUE]

ExitMissed(w, x) == Raise(Unfinished(w, x))

\* protect_remaining_position cancels what is left of an exit before it places
\* a stop; the confirmation must be followed by a final lookup.
ResidualCancelled(w, x) ==
  IF ~Cancellable(w, x) THEN {Raise(Unfinished(w, x))}
  ELSE LET asked == RequestCancel(w, x) IN
       {[Goto(Close(RecordReconciledSubmission(v, x, FactOf(v, x)), x), "protect")
           EXCEPT !.run.raises = TRUE] : v \in Confirmed(asked, x)}
       \cup {Raise(Unfinished(v, x)) : v \in Unconfirmed(asked, x)}

\* The rest of protect_remaining_position.
ProtectedRemainder(w) ==
  IF w.held = 0 THEN Protected(ClearPositionRisk(w))
  ELSE IF w.record.trail = 0 THEN Raise(w)
  ELSE [Goto(w, "ensure") EXCEPT !.run.seen = w.held, !.run.exit = Nil]

-----------------------------------------------------------------------------
(* The rest of a run                                                       *)

\* reconcile_unfinished_orders: the lifecycle first, then the ledger.
ExitReconciled(w, x) ==
  LET v == Persisted(RecordReconciledSubmission(w, x, FactOf(w, x)), x) IN
  IF Status(w, x) = "absent" \/ ~Exists(w.mem, x) THEN Raise(Unfinished(w, x))
  ELSE IF v.ledger[x] = "closed" THEN Goto(v, "positions") ELSE Raise(v)

\* Mutant: the stop is taken to be there.
HeldBackTrusting(w) ==
  LET r == ReconcileProtectiveStop(w) IN
  IF r.raises THEN Raise(r.world) ELSE Protected(Acknowledge(r.world))

\* protect_held_back_exits over a breached trail: the resting stop is the exit.
HeldBack(w) ==
  LET r == ReconcileProtectiveStop(w) IN
  IF r.raises \/ r.world.record.active = Nil THEN Raise(r.world)
  ELSE Protected(Acknowledge(r.world))

\* Mutant: a fired stop is cleared without being booked.
ClearedUnbooked(w) == Complete(ClearPositionRisk(w))

\* cleanup_orphan_protective_stops: the pending stop, then the active one.
CleanedUp(w) ==
  LET Booked(v, s) == IF Status(v, s) = "filled" THEN Book(v, s) ELSE v IN
  Complete(ClearPositionRisk(Booked(Booked(w, w.record.pending), w.record.active)))

-----------------------------------------------------------------------------
(* Actions                                                                 *)

\* The lifecycle once the entry was sent, answered and booked.
BookedEntry ==
  LET none       == [mem |-> EmptyState, crashes |-> {}]
      created    == Log(none, Ev("ORDER_INTENT_CREATED", Entry))
      approved   == Log(created, Ev("RISK_APPROVED", Entry))
      authorized == Log(approved, Ev("ORDER_AUTHORIZED", Entry))
      requested  == Log(authorized, Ev("BROKER_SUBMISSION_REQUESTED", Entry))
      started    == Log(requested, Ev("BROKER_IO_STARTED", Entry))
  IN  RecordBrokerFact(started, Entry, [status |-> "filled", filled |-> Size[Entry]]).mem

Init ==
  /\ mem = BookedEntry
  /\ record = NoRecord
  /\ ledger = [x \in Exits |-> "none"]
  /\ price = [s \in Stops |-> 0]
  /\ venue = [k \in Sells |-> [state |-> "absent", filled |-> 0]]
  /\ held = Size[Entry] /\ wire = {} /\ run = Off

Books == <<mem, record, ledger, price>>

\* Runs are further apart than the venue's receive window: a request of an
\* earlier run has arrived or never will.
StartRun ==
  /\ run = Off /\ wire = {}
  /\ run' = [Off EXCEPT !.at = IF \E x \in Exits : ledger[x] = "unfinished"
                               THEN "orders" ELSE "positions"]
  /\ UNCHANGED <<Books, venue, held, wire>>

ReconcileExit(x) ==
  /\ run.at = "orders" /\ ledger[x] = "unfinished"
  /\ Commit(ExitReconciled(World, x))

\* With nothing held the recorded stops are orphans.
SeeNothing ==
  /\ run.at = "positions" /\ held = 0
  /\ Commit(Goto(World, "cleanup"))

\* Otherwise the trail is observed, and the position is held, exited, or held
\* back from its exit by the market.
SeePosition ==
  /\ run.at = "positions" /\ held > 0
  /\ \E w \in Observed(World) :
       \/ Commit([Goto(w, "ensure") EXCEPT !.run.seen = held])
       \/ Commit(Goto(w, "heldback"))
       \/ \E x \in Exits : /\ ledger[x] = "none" /\ Size[x] =< held
                           /\ Commit([Goto(w, "exit") EXCEPT !.run.exit = x])

Ensure       == run.at = "ensure" /\ \E w \in Ensured(World) : Commit(w)
CancelStop   == run.at = "cancel" /\ \E w \in StopCancelled(World) : Commit(w)
Recover      == run.at = "recover" /\ Commit(Recovered(World))
KeepHeldBack == run.at = "heldback" /\ Commit(HeldBack(World))
CleanUp      == run.at = "cleanup" /\ Commit(CleanedUp(World))
Protect      == run.at = "protect" /\ Commit(ProtectedRemainder(World))

AnswerStop ==
  /\ run.at = "stopcall" /\ venue[record.pending].state # "absent"
  /\ Commit(StopAnswered(World))

StopCallFails ==
  /\ run.at = "stopcall"
  /\ Commit(Goto(RecordUnknown(World, record.pending), "recover"))

BeginExit    == run.at = "exit" /\ \E w \in ExitBegun(World, run.exit) : Commit(w)
HandOver     == run.at = "handover" /\ \E w \in HandedToExit(World, run.exit) : Commit(w)
CheckStop    == run.at = "stopcheck" /\ Commit(StopChecked(World, run.exit))

AnswerExit ==
  /\ run.at = "exitcall" /\ venue[run.exit].state # "absent"
  /\ Commit(ExitAnswered(World, run.exit))

ExitCallFails ==
  /\ run.at = "exitcall"
  /\ Commit(Goto(Unfinished(RecordUnknown(World, run.exit), run.exit), "poll"))

\* The order is found, or absent, or the venue mute.
PollExit ==
  /\ run.at = "poll"
  /\ \/ Commit(ExitMissed(World, run.exit))
     \/ /\ venue[run.exit].state # "absent"
        /\ Commit(ExitPolled(World, run.exit))

CancelResidual ==
  run.at = "residual" /\ \E w \in ResidualCancelled(World, run.exit) : Commit(w)

\* The process raises at a read, or dies between two steps.
Break ==
  /\ run.at \notin {"off", "done"} /\ run' = Off
  /\ UNCHANGED <<Books, venue, held, wire>>

EndRun ==
  /\ run.at = "done" /\ run' = Off
  /\ UNCHANGED <<Books, venue, held, wire>>

\* resolve_unsubmitted_order: an exit that never left.
ResolveUnsubmitted(x) ==
  /\ run = Off /\ ledger[x] = "unfinished" /\ venue[x].state = "absent"
  /\ Exists(mem, x) /\ ~mem.orders[x].io_started /\ ~mem.orders[x].exchange_id
  /\ Commit(Close(IF mem.orders[x].status = "REJECTED" THEN World
                  ELSE Log(World, Ev("ORDER_REJECTED", x)), x))

\* The venue takes an order only out of the free quantity.
VenueTakes(k) ==
  /\ k \in wire /\ Size[k] =< Free(World)
  /\ wire' = wire \ {k} /\ venue' = [venue EXCEPT ![k].state = "open"]
  /\ UNCHANGED <<Books, held, run>>

\* Lost on the way, or refused outright.
RequestLost(k) ==
  /\ k \in wire /\ wire' = wire \ {k}
  /\ UNCHANGED <<Books, venue, held, run>>

VenueFills(k) ==
  /\ venue[k].state = "open" /\ held' = held - 1
  /\ venue' = [venue EXCEPT
       ![k] = [state  |-> IF @.filled + 1 = Size[k] THEN "filled" ELSE "open",
               filled |-> @.filled + 1]]
  /\ UNCHANGED <<Books, wire, run>>

VenueExpires(k) ==
  /\ venue[k].state = "open" /\ k \in Expiring
  /\ venue' = [venue EXCEPT ![k].state = "expired"]
  /\ UNCHANGED <<Books, held, wire, run>>

RunStep ==
  \/ SeeNothing \/ SeePosition \/ Ensure \/ CancelStop \/ AnswerStop \/ StopCallFails
  \/ Recover \/ KeepHeldBack \/ CleanUp \/ Protect \/ BeginExit \/ HandOver
  \/ CheckStop \/ AnswerExit \/ ExitCallFails \/ PollExit \/ CancelResidual
  \/ Break \/ EndRun \/ \E x \in Exits : ReconcileExit(x)

Next ==
  \/ StartRun \/ RunStep
  \/ \E x \in Exits : ResolveUnsubmitted(x)
  \/ \E k \in Sells :
       VenueTakes(k) \/ RequestLost(k) \/ VenueFills(k) \/ VenueExpires(k)

Spec == Init /\ [][Next]_vars

\* Three steps as fairness sees them, by what they do: a run ends, one that
\* finds nothing held goes on to the clean-up, and that drops the record.
Ends == run # Off /\ run' = Off

SeesNothing ==
  run.at = "positions" /\ held = 0 /\ run' = [run EXCEPT !.at = "cleanup"]

CleansUp ==
  run.at = "cleanup" /\ record' = NoRecord /\ run' = [Off EXCEPT !.at = "done"]

\* The runner is started again and again (cron), every run comes to an end, and
\* requests arrive or are lost; with nothing held, runs do not break off at
\* the same place every single time.
Fairness ==
  /\ WF_vars(StartRun) /\ WF_run(Ends)
  /\ WF_vars(\E k \in Sells : RequestLost(k))
  /\ SF_run(SeesNothing) /\ SF_run(CleansUp)

FairSpec == Spec /\ Fairness

-----------------------------------------------------------------------------
(* Properties                                                              *)

TypeOK ==
  /\ mem \in State
  /\ record \in [trail : 0 .. MaxLevel, active : Stops \cup {Nil},
                 pending : Stops \cup {Nil}]
  /\ ledger \in [Exits -> {"none", "unfinished", "closed"}]
  /\ price \in [Stops -> 0 .. MaxLevel]
  /\ venue \in [Sells -> [state : {"absent", "open", "filled", "expired"}, filled : Nat]]
  /\ held \in Nat /\ wire \subseteq Sells /\ run \in Runs

\* A stop that rests at the venue, or is on its way there, is known to the
\* record, wherever a run died: nobody else would ever cancel it or book it
\* (ensure_protective_stop, reconcile_protective_stop).
BooksKnowStops ==
  \A s \in Stops : s \in wire \/ venue[s].state = "open" =>
    s \in {record.active, record.pending}

\* What the lifecycle holds for sold was sold.
NoSyntheticFills == \A k \in Sells : mem.orders[k].filled =< venue[k].filled

\* A run that completes leaves what is still held under a stop the venue took,
\* for the whole quantity.
CompletedRunIsCovered ==
  run.at = "done" /\ held > 0 =>
    /\ record.active # Nil
    /\ venue[record.active].state # "absent" /\ Size[record.active] >= held

\* A sell leaves only when no other one rests at the venue or is on its way:
\* stop and exit would sell the position twice.
OneSellAtATime ==
  [][\A k \in wire' \ wire :
       \A j \in Sells \ {k} : j \notin wire' /\ venue'[j].state # "open"]_vars

\* However stops are lost, replaced and restored, a new one is never below one
\* the venue accepted before.
StopNeverLoosens ==
  [][\A s \in Stops \cap (wire' \ wire), t \in Stops :
       venue'[t].state # "absent" => price'[s] >= price'[t]]_vars

\* Once the position is closed, every stop that fired is booked in the
\* lifecycle, unless an unfinished exit keeps the runs from going on.
FiredStopIsBooked ==
  held = 0 ~>
    \/ \A s \in Stops : venue[s].state = "filled" => mem.orders[s].status = "FILLED"
    \/ \E x \in Exits : ledger[x] = "unfinished"

-----------------------------------------------------------------------------
(* What the code's documents say and these steps do not do                 *)

Unattended ==
  run = Off /\ wire = {} /\ held > 0 /\ \A x \in Exits : ledger[x] # "unfinished"

\* "Recreate a missing stop without creating duplicates."  Where no stop rests,
\* neither the record nor the lifecycle's locks keep the next run from placing
\* one.
MissingStopIsRecreated ==
  LET r == ReconcileProtectiveStop(World) IN
  Unattended /\ (\A s \in Stops : venue[s].state # "open") =>
    ~r.raises /\ r.world.record.pending = Nil /\ Reserved(World, Nil) = 0

\* "A risk-reducing market exit uses Binance cancel-replace to hand off the
\* locked stop quantity to the exit."  Where a stop rests untouched, the
\* lifecycle lets the next exit cancel it.
RestingStopCanBeHandedOver ==
  LET r == ReconcileProtectiveStop(World)
      s == r.world.record.active
  IN  Unattended /\ ~r.raises /\ s # Nil => Cancellable(World, s)
=============================================================================
