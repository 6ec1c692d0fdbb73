---------------------------- MODULE PaperEngine ----------------------------
(***************************************************************************)
(* The execution engine on its paper venue (execution/engine.py over       *)
(* authority/execution.py, execution/application.py and                    *)
(* execution/paper_exchange.py): planned entries and exits, emergency      *)
(* closes, and the protective stops that rest under the position.          *)
(*                                                                         *)
(*   mem     the lifecycle's state; it is reloaded from the log            *)
(*   venue   what the paper exchange's file says of each order             *)
(*   held    the position, in the same file                                *)
(*   deaths  how often the process died                                    *)
(*                                                                         *)
(* Every call of the engine is one action; between two calls nothing is    *)
(* kept but the two books, and nothing reconciles one with the other but   *)
(* _sync_protective_orders.  The process may die between any two durable   *)
(* writes.  One symbol.  A stop is named by the attempt that placed it and *)
(* its size.  Orders fill completely or not at all.                        *)
(*                                                                         *)
(* The health PROTECTION_GAP that the engine writes in memory only always  *)
(* comes with a manual block, which is durable and never lifted here, and  *)
(* which the gate asks first: it is left out.                              *)
(***************************************************************************)
EXTENDS RunnerRecording

CONSTANTS
  Attempts,   \* bound: the attempts to place a stop
  MaxDeaths   \* bound: how often the process dies

Stops == Protective
Exits == Sells \ Stops

ASSUME PaperAssumption ==
  /\ Attempts \in Nat /\ MaxDeaths \in Nat
  /\ Stops \subseteq (1 .. Attempts) \X Nat
  /\ \A s \in Stops : Size[s] = s[2]

VARIABLES mem, venue, held, deaths

vars == <<mem, venue, held, deaths>>

\* The lifecycle's commands and their checks.  The engine registers no
\* idempotency key; a lock that an interrupted close left behind refuses a
\* sell before the table of locks would.
Lifecycle ==
  INSTANCE ExecutionLifecycle WITH
    replayed <- mem, recovered <- mem, rows <- [i \in Intents |-> NoRow],
    claims <- {}, registered <- {}, KeyOf <- [i \in Intents |-> i],
    RiskDecisions <- {}, Envs <- {}, Commands <- {}, Saves <- {}

-----------------------------------------------------------------------------
(* The worlds of this module (see RunnerRecording).  "canceled" and        *)
(* "refused" are the two results of _cancel_resting_protection.            *)

World == [mem |-> mem, venue |-> venue, held |-> held, crashes |-> {},
          canceled |-> {}, refused |-> FALSE]

Become(w) == mem' = w.mem /\ venue' = w.venue /\ held' = w.held

\* The call completes, or the process dies on the way.
Commit(w) ==
  \/ Become(w) /\ UNCHANGED deaths
  \/ /\ deaths < MaxDeaths
     /\ \E c \in w.crashes : Become(c)
     /\ deaths' = deaths + 1

\* A loop over the stops, in the order they were placed.  The loop carries the
\* set of the one world reached, so that TLC computes it once per stop.
ForEachStop(Op(_, _), w) ==
  LET after[n \in 0 .. Attempts] ==
        IF n = 0 THEN {w}
        ELSE {IF \E s \in Stops : s[1] = n /\ Exists(v.mem, s)
              THEN Op(v, CHOOSE s \in Stops : s[1] = n /\ Exists(v.mem, s))
              ELSE v : v \in after[n - 1]}
  IN  CHOOSE v \in after[Attempts] : TRUE

-----------------------------------------------------------------------------
(* The paper exchange                                                      *)

\* Mutant: the position is not looked at.
ExecuteFillBlindly(w, i) ==
  Durably(w, [w EXCEPT !.venue[i] = "filled",
                       !.held = IF i \in Buys THEN @ + Size[i] ELSE @ - Size[i]])

\* _execute_fill: nothing is sold that is not held.
ExecuteFill(w, i) ==
  Durably(w, IF i \in Sells /\ w.held < Size[i]
             THEN [w EXCEPT !.venue[i] = "rejected"]
             ELSE [w EXCEPT !.venue[i] = "filled",
                            !.held = IF i \in Buys THEN @ + Size[i]
                                     ELSE @ - Size[i]])

\* A market order is filled, or rejected for want of a fresh price or of cash.
PlaceMarketOrder(w, i, fills) ==
  IF fills THEN ExecuteFill(w, i)
  ELSE Durably(w, [w EXCEPT !.venue[i] = "rejected"])

PlaceStopOrder(w, s, rests) ==
  Durably(w, [w EXCEPT !.venue[s] = IF rests THEN "open" ELSE "rejected"])

\* _check_stop_order
Trigger(w, s) == IF w.venue[s] = "open" THEN ExecuteFill(w, s) ELSE w

CancelOrder(w, s) ==
  IF w.venue[s] = "open" THEN Durably(w, [w EXCEPT !.venue[s] = "canceled"]) ELSE w

\* The answer to a submission, in the terms of RunnerRecording.
Answer(w, i) ==
  [status |-> IF w.venue[i] = "rejected" THEN "expired" ELSE w.venue[i],
   filled |-> IF w.venue[i] = "filled" THEN Size[i] ELSE 0]

-----------------------------------------------------------------------------
(* Authorization                                                           *)

Env(w, price) == [kill |-> FALSE, price |-> price, known |-> TRUE, free |-> w.held]

Effect(i) == IF i \in Buys THEN "INCREASE" ELSE "REDUCE"

\* What the decision plane hands over with an order it planned.
Admitted ==
  [present |-> TRUE, reduce_only |-> FALSE, headroom |-> TRUE,
   evidence |-> [e \in EvidenceOf |-> "KNOWN"], waived |-> FALSE]

Approved(w, i, decision) ==
  Log(Log(w, Ev("ORDER_INTENT_CREATED", i)),
      [Ev("RISK_APPROVED", i) EXCEPT !.risk = decision])

Authorized(w, i, env) ==
  IF Lifecycle!Authorizable(w.mem, i, env, Effect(i))
  THEN Log(w, Lifecycle!Authorization(i)) ELSE w

SubmissionRequested(w, i, env) ==
  IF /\ w.mem.orders[i].status = "AUTHORIZED"
     /\ Lifecycle!SubmissionAllowed(w.mem, i, env)
  THEN Log(w, Ev("BROKER_SUBMISSION_REQUESTED", i)) ELSE w

\* Created, approved, authorized and requested, as far as it is allowed.  Both
\* ExecutionAuthority.execute and emergency_reduce do it with these commands.
Request(w, i, decision, price) ==
  SubmissionRequested(Authorized(Approved(w, i, decision), i, Env(w, price)),
                      i, Env(w, price))

Requested(w, i) == w.mem.orders[i].requested

StartIo(w, i) == Log(w, Ev("BROKER_IO_STARTED", i))

\* BrokerGateway.submit of a market order
SubmitMarketOrder(w, i, fills) == PlaceMarketOrder(StartIo(w, i), i, fills)

\* ExecutionAuthority._validate_permission.  "have" is the position the order
\* was planned on.  It looks the protection up by symbol and the lifecycle keeps
\* it by intent, so it never sees a gap.
AuthorityPermits(w, i, have, price) ==
  ~Blocked([Lifecycle!BaseContext(w.mem, i, Env(w, price)) EXCEPT
              !.effect = Effect(i), !.risk = Admitted,
              !.inventory_known = w.mem.reconciliation = "NONE",
              !.free = have, !.require_price = TRUE,
              !.protection_required = FALSE, !.enforce_inventory = TRUE,
              !.draft = FALSE])

RecordAnswer(w, i) == RecordSubmitResult(w, i, Answer(w, i))

SubmitRequested(w, i, fills) ==
  IF Requested(w, i) THEN RecordAnswer(SubmitMarketOrder(w, i, fills), i) ELSE w

\* ExecutionAuthority.execute
Execute(w, i, have, price, fills) ==
  IF AuthorityPermits(w, i, have, price)
  THEN SubmitRequested(Request(w, i, Admitted, price), i, fills) ELSE w

\* A rejected order is executed once more, under the same intent.  Its claim is
\* still held, so the second execution ends before the venue, with the order
\* created and authorized anew.
RetryRejected(w, i, have, price) ==
  IF w.mem.orders[i].status = "REJECTED" /\ AuthorityPermits(w, i, have, price)
  THEN Authorized(Approved(w, i, Admitted), i, Env(w, price)) ELSE w

ExecuteWithRetry(w, i, have, price, fills) ==
  RetryRejected(Execute(w, i, have, price, fills), i, have, price)

-----------------------------------------------------------------------------
(* The resting stops                                                       *)

\* _protective_intents: what the engine believes may still fire.
Recorded(w, s) == RemainingReserved(w.mem.orders[s]) > 0

\* _record_protective_fill
RecordProtectiveFill(w, s) ==
  Log(w, [Ev("FILL_RECEIVED", s) EXCEPT !.qty = Remaining(w.mem.orders[s], s)])

RequestCancel(w, s) ==
  IF w.mem.orders[s].status = "CANCEL_REQUESTED" THEN w
  ELSE Log(w, Ev("CANCEL_REQUESTED", s))

ConfirmCancel(w, s) == Log(w, Ev("CANCEL_CONFIRMED", s))

\* Mutant: a stop in dispute is not looked up any more.
SyncStopUndisputed(w, s) ==
  IF w.mem.orders[s].status = "MANUAL" \/ ~Recorded(w, s) THEN w
  ELSE IF w.venue[s] = "filled" THEN RecordProtectiveFill(w, s)
  ELSE IF w.venue[s] \in {"canceled", "rejected"}
       THEN ConfirmCancel(RequestCancel(w, s), s)
  ELSE w

SyncStop(w, s) ==
  IF ~Recorded(w, s) THEN w
  ELSE IF w.venue[s] = "filled" THEN RecordProtectiveFill(w, s)
  ELSE IF w.venue[s] \in {"canceled", "rejected"} /\ w.mem.orders[s].status # "MANUAL"
       THEN ConfirmCancel(RequestCancel(w, s), s)
  ELSE w

\* _sync_protective_orders
Synced(w) == ForEachStop(SyncStop, w)

RequireManual(w, s) == Log(w, Ev("MANUAL_INTERVENTION_REQUIRED", s))

\* _mark_protection_gap: of the stops that were cancelled, if anything is held.
MarkGap(w) ==
  IF w.held = 0 THEN w
  ELSE ForEachStop(LAMBDA v, s : IF s \in v.canceled THEN RequireManual(v, s) ELSE v, w)

\* Mutant: the exit goes on.
RefuseQuietly(w, s) == MarkGap(RequireManual(w, s))

Refuse(w, s) == [MarkGap(RequireManual(w, s)) EXCEPT !.refused = TRUE]

Cancelable == LiveStatuses \cup {"APPROVED", "CANCEL_REQUESTED"}

Fires(w, s, fires) == IF fires THEN Trigger(w, s) ELSE w

\* Mutant: an answer to a cancel is a cancel.
CancelPresumed(w, s, missed) ==
  IF missed THEN Refuse(w, s)
  ELSE [ConfirmCancel(CancelOrder(w, s), s) EXCEPT !.canceled = @ \cup {s}]

\* The answer to a cancel: none, that the stop fired, or that it is gone.
CancelAnswered(w, s, missed) ==
  IF missed THEN Refuse(w, s)
  ELSE IF w.venue[s] = "filled" THEN RecordProtectiveFill(w, s)
  ELSE [ConfirmCancel(CancelOrder(w, s), s) EXCEPT !.canceled = @ \cup {s}]

\* One stop of _cancel_resting_protection.  It may fire before the request
\* arrives, and the venue's answer may be missing.
CancelStop(w, s, fires, missed) ==
  IF w.refused \/ ~Recorded(w, s) THEN w
  ELSE IF w.mem.orders[s].status \notin Cancelable THEN Refuse(w, s)
  ELSE CancelAnswered(Fires(RequestCancel(w, s), s, fires), s, missed)

\* _cancel_resting_protection
CancelRestingProtection(w, fired, missed) ==
  ForEachStop(LAMBDA v, s : CancelStop(v, s, s \in fired, s \in missed), Synced(w))

-----------------------------------------------------------------------------
(* The stop under a new entry                                              *)

\* The protective order of b is created; both attempts to place it carry the
\* quantity held.
CreateProtection(w, b) == Log(w, Ev("PROTECTIVE_ORDER_CREATED", b))

NextStop(w) == <<1 + Cardinality({s \in Stops : Exists(w.mem, s)}), w.held>>

\* Mutant: any answer is taken for a resting order.
AcknowledgeUnread(w, b, s) == Log(w, Ev("PROTECTIVE_ORDER_ACKNOWLEDGED", b))

AcknowledgeStop(w, b, s) ==
  IF w.venue[s] = "open" THEN Log(w, Ev("PROTECTIVE_ORDER_ACKNOWLEDGED", b)) ELSE w

RecordFact(w, i) == RecordBrokerFact(w, i, Answer(w, i))

\* emergency_protection and the acknowledgement of a stop that rests.  It raises
\* where the lifecycle does not let the stop out.
PlaceRequested(w, b, s, rests) ==
  IF Requested(w, s)
  THEN AcknowledgeStop(RecordFact(PlaceStopOrder(StartIo(w, s), s, rests), s), b, s)
  ELSE [w EXCEPT !.refused = TRUE]

Ended(w, b) == w.refused \/ w.mem.protection[b] = "PROTECTED"

PlaceStop(w, b, rests) ==
  IF Ended(w, b) THEN w
  ELSE PlaceRequested(Request(w, NextStop(w), Lifecycle!EmergencyDecision, TRUE),
                      b, NextStop(w), rests)

Degrade(w, b) == IF Ended(w, b) THEN w ELSE CreateProtection(w, b)

\* The venue rejects the first "failures" of at most two attempts.  When both
\* fail the protective order is created anew and stays required.
Protect(w, b, failures) ==
  Degrade(PlaceStop(PlaceStop(CreateProtection(w, b), b, failures = 0),
                    b, failures < 2), b)

-----------------------------------------------------------------------------
(* The calls                                                               *)

Init ==
  /\ mem = EmptyState
  /\ venue = [i \in Intents |-> "none"]
  /\ held = 0 /\ deaths = 0

ProtectFilled(w, b, failures) ==
  IF w.mem.orders[b].filled > 0 THEN Protect(w, b, failures) ELSE w

\* Bound: the stops that two attempts would place under b are among Stops.
Attemptable(b) ==
  \A n \in {1, 2} :
    <<n + Cardinality({s \in Stops : Exists(mem, s)}), held + Size[b]>> \in Stops

\* submit_planned_order of a BUY
Enter(b, price, fills, failures) ==
  /\ ~Exists(mem, b) /\ Attemptable(b)
  /\ Commit(ProtectFilled(ExecuteWithRetry(World, b, held, price, fills), b, failures))

MarkUnfilled(w, x) == IF w.mem.orders[x].filled > 0 THEN w ELSE MarkGap(w)

ExitCancelled(w, x, have, price, fills) ==
  IF w.refused THEN w ELSE MarkUnfilled(ExecuteWithRetry(w, x, have, price, fills), x)

\* submit_planned_order of a SELL, planned on the position before the stops
\* were cancelled.
Exit(x, price, fills, fired, missed) ==
  /\ ~Exists(mem, x) /\ Size[x] =< held
  /\ Commit(ExitCancelled(CancelRestingProtection(World, fired, missed),
                          x, held, price, fills))

RecordRequested(w, x, fills) ==
  IF Requested(w, x) THEN RecordFact(SubmitMarketOrder(w, x, fills), x) ELSE w

\* emergency_close
EmergencyClose(w, x, fills) ==
  RecordRequested(Request(w, x, Lifecycle!EmergencyDecision, TRUE), x, fills)

CloseCancelled(w, x, price, fills) ==
  IF w.refused \/ w.held = 0 THEN w
  ELSE MarkGap(IF price THEN EmergencyClose(w, x, fills) ELSE w)

\* close_position, with x for the whole of what is left once the stops are
\* cancelled.  The price may be gone by then.
ClosePosition(x, price, fills, fired, missed) ==
  /\ ~Exists(mem, x) /\ held > 0
  /\ \E w \in {CancelRestingProtection(World, fired, missed)} :
       /\ w.refused \/ ~price \/ w.held \in {0, Size[x]}
       /\ Commit(CloseCancelled(w, x, price, fills))

Resting == {s \in Stops : venue[s] = "open"}

\* update_prices, update_market_price: the stops in "hit" trigger.
Updated(w, hit) ==
  Synced(ForEachStop(LAMBDA v, s : IF s \in hit THEN Trigger(v, s) ELSE v, w))

UpdatePrices(hit) == Commit(Updated(World, hit))

\* Whether the price is there and, then, whether the market order fills.
Markets == {<<FALSE, FALSE>>, <<TRUE, FALSE>>, <<TRUE, TRUE>>}

\* The stop whose cancellation gets no answer, if any.
Missed == {{}} \cup {{s} : s \in Resting}

Next ==
  \/ \E b \in Buys, m \in Markets, failures \in 0..2 : Enter(b, m[1], m[2], failures)
  \/ \E x \in Exits, m \in Markets, fired \in SUBSET Resting, missed \in Missed :
       Exit(x, m[1], m[2], fired, missed)
  \/ \E x \in Exits, m \in Markets, fired \in SUBSET Resting, missed \in Missed :
       ClosePosition(x, m[1], m[2], fired, missed)
  \/ \E hit \in SUBSET Resting : UpdatePrices(hit)

\* The price feed keeps calling and an update eventually completes.
PricesArrive ==
  WF_vars(/\ UNCHANGED deaths
          /\ \E w \in {Updated(World, hit) : hit \in SUBSET Resting} : Become(w))

Spec == Init /\ [][Next]_vars /\ PricesArrive

-----------------------------------------------------------------------------
(* Properties                                                              *)

TypeOK ==
  /\ mem \in State
  /\ venue \in [Intents -> {"none", "open", "filled", "canceled", "rejected"}]
  /\ held \in Nat /\ deaths \in Nat

\* The lifecycle never writes down what the venue did not do: a booked fill
\* happened, a stop it released can no longer fire, and a rejected order is not
\* working - whatever fired, got lost or died on the way (engine.py:1469-1674).
BooksMatchVenue ==
  \A i \in Intents :
    LET o == mem.orders[i] IN
    /\ o.filled > 0 => venue[i] = "filled"
    /\ o.status = "REJECTED" => venue[i] = "rejected"
    /\ o.status = "CANCELED" => venue[i] \in {"canceled", "rejected"}

\* "cancel stop -> submit exit": no exit reaches the venue while a stop that the
\* lifecycle believes working can still sell the same inventory
\* (engine.py:1024-1050, 1770-1778).
StopsYieldToExits ==
  [][\A x \in Exits :
       (venue[x] = "none" /\ venue'[x] # "none") =>
         \A s \in Stops : RemainingReserved(mem'.orders[s]) > 0 => venue'[s] # "open"]_vars

\* No entry reaches the venue while an earlier booked entry never got a stop that
\* the venue accepted, or while a stop is in dispute, across calls and restarts
\* (engine.py:1138-1239, authority/execution.py:138-176).
EntryWaitsForProtection ==
  [][\A b \in Buys :
       (venue[b] = "none" /\ venue'[b] # "none") =>
         /\ ~mem.manual_blocked
         /\ Cardinality({c \in Buys : mem.orders[c].filled > 0}) =<
              Cardinality({s \in Stops : mem.orders[s].exchange_id})]_vars

\* A recorded stop that fired is booked in the end, a stop in dispute and a death
\* between the price and the booking included (engine.py:1613-1688).
FiredStopIsBooked ==
  []<>(\A s \in Stops : RemainingReserved(mem.orders[s]) > 0 => venue[s] # "filled")
=============================================================================
