# LearnTradeAgent: a verification of its execution plane

LearnTradeAgent decides what to trade in a research/decision plane and carries
the decision out in an execution plane whose state is event-sourced. This
directory holds TLA+ models of the execution plane, the TLC instances that check
them, and proofs (TLAPS) of what the instances suggest. The reference is the
code under `src/`; where a document and the code disagree the model follows the
code and the disagreement is listed below.

Paths below are relative to the repository root; `execution/` stands for
`src/trading_agent/execution/`.

## 1. The system: an inventory

| Component | State it keeps | Operations | What makes it correct |
|---|---|---|---|
| **Execution lifecycle** (`execution/lifecycle/lifecycle.py`, `events.py`) | orders (status, quantities, risk decision, broker identifier), protection, reconciliation, execution health, the manual set | create / approve / authorize / request / submit / fill / cancel / reject / protect / reconcile / require manual / emergency reduce; `load` and `replay` | a restart restores the ledger and every halt; nothing is executable without a durable risk decision; an unprotected or disputed position stops entries and never stops exits |
| **Order permission gate** (`execution/permission.py`) | none (pure) | `evaluate_order_permission` | no control masks another; exits stay open; more controls never permit more |
| **Event store** (`execution/lifecycle/store.py`) | the log (one global and one per-aggregate sequence), checksummed snapshots, SELL locks, submission claims, the intent registry, the cutover row | `append` with its SELL-lock projection, `claim_submission` / `release_submission_claim`, `upsert_order_intent`, `save_snapshot`, `rebuild_*` | a lock per sell within the inventory; one claim per intent; the tables agree with the log |
| **Execution service, broker gateway** (`execution/application.py`, `execution/canonical/broker_gateway.py`) | none of their own: they act on the lifecycle and the store | `plan`, `submit_planned`, `emergency_close`, `emergency_protection`, `record_broker_fact`, `reconcile`; the gateway's `submit`, `cancel`, `submit_protection` | at most one order at the venue per authorization, a lost answer included |
| **Broker adapters** (`execution/canonical/adapters.py`, `exchanges/ccxt_adapter.py`) | none durable | venue calls mapped to typed facts | a lost answer is UNKNOWN, never a rejection |
| **Live safety** (`execution/live_safety.py`, `live_admission.py`) | an account lock file, a signed risk state with the order ledger, equity marks, protective orders | acquire / release, `reserve_order`, `update_order`, `unfinished_orders`, `resolve_unsubmitted_order`, the protective order state | one runner per account; a key is reserved once; the ledger ends with the venue's last word |
| **Live runner** (`scripts/live_enhanced_ma_binance.py`) | none durable of its own; drives all of the above | reconcile what earlier runs left, plan, `execute_orders` (reserve, submit, record, poll, protect) | nothing is sent while another order's outcome is unknown; the two books follow the venue after a crash |
| **Operator recovery** (`scripts/resolve_unsubmitted_order.py`) | three durable stores changed in turn | prove the order absent at the venue, reject it, release the claim, settle the ledger | never frees an intent the venue has |
| **Execution engine, protective orders** (`execution/engine.py`, `canonical/protection.py`, `position_cycle.py`) | none of its own beside the lifecycle and the paper exchange | `submit_planned_order`, `close_position`, `update_prices`, the cancellation and synchronisation of stops | no exit competes with a stop, also when it fires during its cancel; no entry is added to an unprotected one; a fired stop is booked |
| **Decision plane** (`authority/execution.py`, `authority/decision.py`) | none durable | turns a decision into lifecycle events | goes through the same guards as the commands |
| **Risk controller** (`execution/risk_controller.py`) | drawdown and loss counters, breaker state | record a trade, trip, reset | a tripped breaker admits no entry until reset |
| **Planner, risk decision** (`canonical/order_planner.py`, `canonical/risk_decision.py`) | none | numeric planning | numeric |
| **Paper exchange, multi-pair runtime, perp book** (`execution/paper_exchange.py`, `multi_pair_runtime.py`, `perp/book.py`) | the paper exchange's file: orders, positions, balances | `place_order`, `cancel_order`, `update_prices` with the triggering of stops | nothing is sold that is not held; what rests is cancelled once |
| **Exchange connectivity** (`exchanges/order_router.py`, `websocket_manager.py`, `health_monitor.py`) | connections, health scores | reconnect, fail over | liveness of reconnection |
| **Messaging, projections** (`messaging/`, `events/`) | streams, consumer groups, projections | publish, consume, acknowledge | at-least-once delivery gives exactly-once effects |
| **Multi-region sync** (`infrastructure/multi_region/`) | last known regions | | not wired to execution |
| **Research plane** (`research/promotion.py`, `trials.py`) | the stage of a strategy | promote, demote | no stage is skipped |
| **Strategies, features, models, backtests, dashboards** | numeric | | no protocol |

How they interact. A runner (or the decision plane) calls lifecycle commands.
A command reads the in-memory state and three callables it was built with (kill
switch, trusted price, free venue inventory), asks the permission gate, then
appends events. `append` is one SQLite transaction that also moves the SELL-lock
table; the claim and the intent registry are transactions of their own before
it. Only after the append is the event's handler run in memory. The service
claims and requests, the gateway checks the claim, appends `BROKER_IO_STARTED`
and calls the adapter, and the service feeds the typed fact back through
`record_broker_submit_result`. The live runner surrounds this with its own ledger:
it reserves a key before and writes the result after, and every run starts by
looking up what the ledger has unfinished. On restart `load` applies the log
(after the last snapshot, when there is one) to the empty state. The paper engine
reaches the same lifecycle and gateway by two other ways, `ExecutionAuthority.execute`
for planned orders and `emergency_close` / `emergency_protection` for closes and
stops, and learns of stops that fired by asking its venue.

What is hard here: commands that write several events and may die between any
two; commands that write the in-memory state directly, next to or ahead of the
event that says the same; four independent kinds of halt raised and cleared by
different events; facts from the venue that arrive late, twice or in an order
nobody wrote; a lock taken after the broker accepted the order it is for; two
books for one thing (locks in a table and in replayed orders; orders in the
lifecycle and in the risk ledger).

`PROJECT.json` lists every component with its status and every hazard at its line.

## 2. Modules

| Module | Models |
|---|---|
| `Permission` | the gate as a pure operator, `EvaluateOrderPermission`, with the context and the risk decision reduced to what it reads |
| `PermissionGate` | one order asked about again and again while controls tighten and loosen; an order-free statement of what the gate should decide (`Expected`) |
| `LifecycleState` | the projected state, one operator per event handler (`On...`, `Apply`), and the store's SELL-lock table (`ReservationAccepts`, `ReservationProjection`) |
| `ExecutionLifecycle` | the commands over three views of one log: `mem` (running), `replayed` (whole log), `recovered` (what `load` would build now), with `rows`, `claims`, `registered` |
| `RunnerRecording` | how an answer, its absence and a lookup are written into the lifecycle; shared by `LiveSubmission`, `ProtectiveStops` and `PaperEngine` |
| `LiveSubmission` | a live entry from its reservation to the venue's last word: the order ledger, the lifecycle (by `LifecycleState`), the claims, the network and the venue, the runner's start-up reconciliation and batch, the operator's tool |
| `OrderPromise` | the abstract specification of one key: asked for at most once, decided by the venue, closed once with the venue's word or as never sent |
| `ProtectiveStops` | a live position under its stop: the risk state's record of active and pending stop, the exits' ledger, the lifecycle and the venue, while the stop is placed, tightened, lost, recovered, handed to an exit, or fires |
| `LiveSession` | how processes come by their account, state file, baseline and limits: two locks, the account binding, the context, the limits, the equity observation with its breaker |
| `PaperEngine` | the paper engine: planned entries and exits through `ExecutionAuthority`, emergency closes, the stops under a position, over the lifecycle and the paper exchange |
| `MCPermissionGate`, `MCLifecycle`, `MCLiveSubmission`, `MCProtectiveStops`, `MCLiveSession`, `MCPaperEngine` | the instances |
| `PermissionProofs`, `LifecycleStateProofs`, `ExecutionLifecycleProofs`, `OrderBooksProofs`, `LiveSubmissionProofs`, `ProtectiveStopsProofs`, `LiveSessionProofs`, `PaperEngineProofs` | the proofs, a module each |

Correspondence. A variable or record field keeps the code's name where it can
(`unresolved` is `unresolved_manual_intents`, `reserved` is
`reserved_base_quantity`, `health` is `execution_health`, `authorized` the
authorized quantity). Every command is one action and contains everything the
method does, follow-up events included.

*Crashes.* A command is a function from a world to a world (`Emit`, `Claim`,
`Register` in sequence). Each durable write adds to `crashes` the world a restart
would find had the process died just before it; `Commit` either completes the
command or restarts in one of those worlds. `CrashRestart` is a death between
commands. So a crash may fall between any two durable writes of any command, and
a command is still atomic for other readers, which is what a single-threaded
process over a synchronous store is.

`LiveSubmission` uses the same construction for the runner, whose steps write to
two books: each `Log`, `Mark`, `MarkFact`, `Claim` and `Release` adds the world a
death there leaves, and `Die` moves to one of them (or to the step's end without
what follows). A step is what the runner does between two moments at which the
outside matters: up to the venue call (`Submit`), from its answer or failure to the
next lookup (`Answer`, `CallFails`), from a lookup to the end of the order
(`PollFinds`, `PollMisses`), or one order of the start-up reconciliation. Between
them the request travels (`VenueTakes`, `RequestLost`), and the venue fills or
expires. The lifecycle's log is not kept apart there: that a restart reads back
the ledger in memory is `RecoveryIsExact`. The refinement maps `sends` to what was
asked, the venue to the fate, and a terminal ledger entry to a closed book, void
when it carries no venue evidence.

`ProtectiveStops` cuts the runner in the same way. `run.at` is where the process is:
the start-up reconciliation of exits (`orders`), the account snapshot (`positions`),
the stops (`ensure`, `cancel`, `stopcall`, `recover`), the batch's exits (`exit`,
`handover`, `stopcheck`, `exitcall`, `poll`, `residual`, `protect`), the held-back
exits and the clean-up. A helper that does several writes is an operator from the
current world to a result with a world and whether it raises (`Ensured`,
`ProtectedRemainder`, `ReconcileProtectiveStop`); a death leaves one of its crash
worlds. Stops and exits are names of the instance, as a fresh client order ID is taken
for each; what may still be on its way is in `wire`.

`LiveSession` has one action per moment another process can come in between: the two
locks, the look at the binding, its write, the first state, the binding of context
and limits, the observation, and the release of each lock. `history` is what an
onlooker remembers of an account's runs; no action reads it.

`PaperEngine` has one action per call of the engine (`Enter`, `Exit`, `ClosePosition`,
`UpdatePrices`), because the engine is called from one thread and keeps nothing
between calls but the lifecycle's log and the exchange's file; a death falls between
any two writes to either. A stop that fires while its cancel is on the way is an
input of the call (`fired`), as is the cancel whose answer is missing (`missed`): the
code has a branch for each, and `backtest/tournament.py` injects rejected orders,
rejected stops and missed cancels. The lifecycle's own guards are those of
`ExecutionLifecycle`, by INSTANCE.

*The log.* Every log is represented by the state it replays to, from the empty
state (`replayed`) and from the last snapshot (`recovered`). This keeps the state
space finite and loses nothing the commands can read: they never read the log.

*Snapshots.* `_emit` saves a snapshot of the live state when the sequence is due.
`snapshot_interval` is set by tests only. In the run `entry_lifecycle` a command either
saves none, or saves one after each of its events of four types (risk approval, fill,
unknown and reconciled broker state) and none after the others, so that the last one
lies inside the command (the only place where the saved live state can differ from the
log); the other runs save none. The proofs allow any policy.

*Callables.* The kill switch, the price and the inventory are read afresh in each
command: an action's `env`.

*Data.* Quantities are small naturals (the 1e-9 tolerances vanish), an intent's
side, symbol, size and key are constants of the instance, identifiers are
"present or not". The exposure effect of an authorization, computed from a
portfolio, is any effect the side permits.

## 3. Runs

| Run | Instance | Shows |
|---|---|---|
| `permission_gate` | every side, effect, size 0..1 and risk decision shape; controls tighten and loosen freely | the early returns decide what the order-free rule decides; exits are never blocked by a control; tightening never upgrades |
| `entry_lifecycle` | one entry of two units, all facts, commands and answers of the callables it reads, plain, reduce-only and missing risk decisions, with and without snapshots inside the commands | the ledger is exactly replayed; a restart neither lifts nor invents a halt; the manual block and its reasons agree; an unprotected position blocks entries; only an admitted decision is executable; fills never shrink |
| `lifecycle_sell` | one exit, all commands including `emergency_reduce`, five environments | requests are claimed; an authorized exit is never blocked by piled-up halts |
| `two_sells` | two sells (1 and 2 units) of one symbol, inventory 1 or 2, and an entry that shares the first sell's idempotency key | the two books of locks agree and never exceed the inventory; one intent per key enters the log, across a crash between registry and event |
| `live_submission` | entries of two and one units, any number of runs and deaths | what either book says was filled, the venue filled; no update is refused; what the lifecycle holds for dead is dead; nothing is sent beside an order that may still fill; every key keeps `OrderPromise`; an order the venue decided is eventually closed in the ledger |
| `protective_stops` | a position of two units, three stops, an exit, two price levels, any number of runs and deaths | a stop that rests is always in the record; nothing is sold twice; the lifecycle books only what was sold; a run that completes leaves the position covered; a stop never loosens; a stop that closed the position is booked in the end |
| `live_session` | two processes, a mainnet and a testnet account, two files, two strategies, two sets of limits, two days | one session per account and per file; one baseline for the life of an account; a tripped breaker stays; limits are loosened only by an approved run |
| `paper_engine` | two entries, a partial and a whole exit, emergency closes, four attempts to place a stop, two deaths | the lifecycle never claims what the venue did not do; no exit is sent while a stop believed working can sell the same inventory; no entry is added to one that never got a stop, or while a stop is in dispute; a recorded stop that fired is booked in the end |
| `unreconciled_batch`, `missing_stop`, `stuck_stop`, `dry_run_skipped` | as `live_submission`, `protective_stops` (twice) and `live_session` | violations: section 4 |

Bounds and why they are enough. Sizes are at most 2: a partial fill, a full fill
and an over-fill are all reachable, and no guard compares with another constant.
One intent per run where the property concerns one order and the global halts;
two where it relates orders (locks, keys). Facts carry at most the order's size:
a larger quantity is clamped by the handler for orders and refused for a sell
with a row. `two_sells` leaves out the commands of manual intervention: they read
and write neither the locks nor the table. `entry_lifecycle` leaves out the five
commands whose only event a broker fact or `reconcile_broker_state` appends as well
(`EntryCommands`); `lifecycle_sell` has them all. No other bound exists in these runs:
the state space is finite because the log is represented by its replays.

In `live_submission` one entry has two units and may fill in parts, the other has
one and may not, and either may be sent first; a third would add no new kind of
neighbour. Keys are sent once, so the space is finite without a bound
on runs, deaths or lookups.

In `protective_stops` three stops let a stop be replaced by one whose own replacement
is interrupted; two are for the whole position and one for what an exit left of it.
Two levels are the least at which a stop can be tightened or loosened. `Expiring`
names the orders the venue may end of its own accord. Nothing bounds runs, deaths,
lookups or cancel requests.

In `live_session` two processes are what an exclusion needs, and equities 60 and 100
with limits of 30 and 50 percent of drawdown trip the tighter breaker and not the looser one;
the file of the mainnet account may be lost, the other one may not, and is shared.
The shared file that may also be lost is excluded by `OwnFiles`; section 4 says why.

In `paper_engine` the entries take at most two attempts each to place a stop, hence
four; `Enter` is bounded by `Attemptable`: the stops its two attempts would place have
a name in the instance, which here they always have. Two deaths put one between every two writes of two different calls, the second
one on what the first left. Every size that `close_position` can find, 1 and 2, has its exit.

No deadlock check is switched off.

Fairness. *`live_submission`*: only of the runner. It is started again and again and
each of its steps ends (weak fairness: the runner is a scheduled job, polls have
deadlines and a raise ends the run). A run may die and a lookup may fail, but not every
single time: that an unfinished order is looked up, and that a lookup of a decided order
finds it and is written, is strongly fair, since a death or a failed lookup disables it
in between. Nothing is assumed of the venue or the operator: the venue need not
take, fill or expire anything, so the property starts at its decision. The fair
steps are stated by their effect on one variable (`LooksUp`, `Closes`,
`GivesUp`), which keeps the fairness formula small; each implies the action of
`Next` it names. *`protective_stops`*: runs are started and end, requests on the wire
arrive or are lost, and with nothing held runs do not break off at the same place every
single time (`SeesNothing`, `CleansUp`, strongly fair, since a death or a raise disables
them in between). *`paper_engine`*: the price feed keeps calling and an update of the
prices eventually completes. `live_session` states none: its properties are safety.

## 4. Where the code and its own words disagree

Each is a run that must find the violation.

| Run | The words | What happens |
|---|---|---|
| `unreconciled_batch` | "Reconcile every non-terminal intent before a new batch can be planned" (`scripts/live_enhanced_ma_binance.py:2616`) | a polled result reaches the ledger before the lifecycle; a death between leaves a closed ledger entry over an unresolved intent, which no later run lists. The batch starts (and the gate refuses its entries for good) |
| `missing_stop` | "Recreate a missing stop without creating duplicates" (`docs/LIVE_TRADING_TODO.md:64`) | a first stop that never reached the venue stays pending; reconciliation does not touch a pending stop without an active one, and the next reservation refuses it: the position stays without a stop |
| `stuck_stop` | "A risk-reducing market exit uses Binance cancel-replace to hand off the locked stop quantity to the exit" (`docs/LIVE_TRADING_RUNBOOK.md:38`) | a stop whose submission was interrupted and that turns out to rest is activated in the risk state only; its lifecycle intent stays in dispute and refuses the cancel an exit or a tighter stop needs |
| `dry_run_skipped` | "The first mainnet dry-run creates the risk baseline" (`docs/LIVE_TRADING_RUNBOOK.md:104`) | whether the state existed is asked after the session that creates it (`scripts/live_enhanced_ma_binance.py:3009`, `execution/live_safety.py:287`): the first mainnet run may execute |

Found while modelling, without a run of their own:

* `approve_risk(None)` after an approval clears the decision in memory only; a restart
  revives it (`lifecycle.py:1275`: such a draft "must not become executable").
* The broker identifier that a cancel race restores is in memory only
  (`lifecycle.py:2168`); after a restart `submit_order` accepts the live order again.
  The live runner never does that: `KeepsPromise`.
* A fill after a release reactivates a SELL-lock row with a negative remainder, which
  frees inventory locked by other orders (`store.py:384`; `docs/ARCHITECTURE.md:140`:
  "release only the remainder"). The live runner's ledger refuses such a fill.
* A death right after `reserve_order` leaves a ledger entry the lifecycle does not
  know: every run parks it, and the operator's tool refuses it deliberately
  (`tests/test_resolve_unsubmitted_order.py`).
* Two sells may both pass the revalidation before broker I/O (`lifecycle.py:1599`); the
  lock is taken with ORDER_SUBMITTED, after it, and the store refuses to record the
  second one although the broker accepted it (`store.py:339`).
* A partly filled and then expired exit raises before its position is protected
  (`scripts/live_enhanced_ma_binance.py:2428`); `CompletedRunIsCovered` speaks of runs
  that complete, and the next run protects it.
* An account started by mistake with another account's file, whose state was lost, and
  dead before `bind_context`, leaves a fresh state nobody owns, which the first account
  then adopts with a fresh baseline (`live_safety.py:208`: another "state-file argument
  must not select a fresh risk baseline"). This is what the assumption
  `OwnFiles` excludes. An account bound to the wrong file stays bound to it.
* The paper engine cancels the stops before the exit is admitted "so the position is
  never silently unprotected" (`engine.py:1032`). The mark is made when the exit is
  denied or not filled; a filled partial exit leaves the rest without a stop and
  without a mark, and so does a death between the cancel and the mark.
* The engine's retry of a rejected order "with fresh idempotency key"
  (`engine.py:1103`) executes the same intent again: its claim is still held, so it
  never reaches the venue, and the order stays created and authorized.
* A death after the paper exchange took a stop and before the lifecycle wrote its
  identity leaves a stop no exit cancels; a death after an entry was filled and before
  its record leaves a position the lifecycle does not know; an interrupted close leaves
  a lock that refuses later exits and stops. Each needs a lookup by client order ID,
  which the engine, other than the live runner, does not make.
* `_validate_permission` looks the protection up by symbol while the lifecycle keeps it
  by intent (`authority/execution.py:360`), so it never sees a gap; the lifecycle's own
  `authorize_order`, called next, does.
* A stop in dispute makes every exit refuse until it fires (`engine.py:1544`).

A harmless one: "State is a pure function of the event log"
(`lifecycle.py:5`) does not hold of `execution_health`. A fill without a protective
trigger leaves PROTECTION_GAP in memory and MANUAL_BLOCKED in the log. That the halt
itself survives is what `HaltSurvivesRestart` says, and why `Agrees` below compares
only whether the health is NORMAL.

## 5. Proofs

TLAPS proves, for every value of the constants, what the runs check on instances.

* `PermissionProofs`: the gate's decision (`GateDecides`), exits
  (`ExitsStayOpen`) and monotonicity (`ControlsOnlyRestrict`) for every context,
  with `GateTypeCorrect`. The only assumption is that the orders asked about are
  contexts (`OrdersAssumption`).
* `LifecycleStateProofs`: lemmas about the handlers. Types (`ApplyType`); that an
  event moves two states with one ledger to two states with one ledger
  (`ApplyLedger`); that it preserves soundness (`ApplySound`); what it does to a
  halt (`ApplyHalt`, `ApplyAgrees`); which event can request (`ApplyRequested`); what
  it does to its own order, to its lock and to the set of unresolved intents
  (`ApplyAt`, `ApplyStatus`, `ApplyLock`, `ApplyUnresolved`), and that it leaves the
  other orders alone (`ApplyElsewhere`). Its last section says what the proofs of the
  order books and of the stops need to know of sums over finite sets.
* `ExecutionLifecycleProofs`: `LifecycleTypeCorrect`, `RecoveryIsExact`,
  `HaltsSurvive`, `ManualBlocks`, `RequestsAreClaimed`, `UnprotectedBlocks`.
* `OrderBooksProofs`: `EntriesAreAdmitted`, `ExitsStayOpen`, `FillsAreKept` (an action
  property), `KeysAreUnique`, `BothBooksAgree`, `LocksFitInventory`.
* `LiveSubmissionProofs`: `SubmissionTypeCorrect`, `FillsAreReal`, `UpdatesAreAccepted`,
  `DeadOrdersAreDead`, `OneAtATime` (an action property), and `PromiseIsKept`: the
  detailed protocol implements `OrderPromise` for every key.
* `ProtectiveStopsProofs`: `StopsTypeCorrect`, `StopsAreKnown`, `SalesAreReal`,
  `RunsLeaveCover`, and two action properties, `NothingSoldTwice` and
  `StopsOnlyTighten`.
* `LiveSessionProofs`: `SessionTypeCorrect`, `OneRunnerAlways`, `BaselineAlwaysKept`,
  `BreakerAlwaysSticks`, `LimitsAlwaysApproved`.
* `PaperEngineProofs`: `PaperTypeCorrect`, `BooksNeverLie`, and two action properties,
  `ExitsWaitForStops` and `EntriesWaitForStops`, from the invariant of
  `PaperInvariant`.

Assumptions on constants. `IntentsAssumption` (there are intents, buys and sells are
disjoint, protective orders are sells, sizes are positive), `FiniteAssumption` (the
intents of one log are finitely many: the lock checks sum over them),
`LifecycleAssumption` (the decisions, environments and snapshot policies given are of
their types), `StopsAssumption` (stops are sells, there is one entry and at least one
price level, and "no order" is no order), `PaperAssumption` (a stop of the paper engine
is named by an attempt and its size). The proofs do not bound the number of
intents, their sizes, which events a snapshot follows, how many stops and exits a
position sees or how many levels its trail passes, nor which orders the venue may end of
its own accord. Of `LiveSession`: `SessionAssumption` (the constants are of their types),
for every theorem; and `OwnFiles`, for the last three only (a state file that may be lost
is meant for one account; nothing in the code sees to it).
Processes, accounts, files, days and equities are unbounded.

Hypotheses of single theorems, each true of the run `two_sells` and each needed:

* `KeysAreRegistered` (`KeysAreUnique`): no `emergency_reduce`. That command creates
  its intent without asking the registry of keys (its caller makes the key unique, with
  a UUID for a stop and the exit's own ID for an exit), so the log alone would not
  refuse a second one.
* `FillsFollowLocks` (`BothBooksAgree`, `LocksFitInventory`): no raw broker fact is
  recorded. `receive_fill` checks a fill against the lock; `record_broker_submit_result`
  appends what the venue said, also for an order that never got its lock, or after a
  release (section 4), and then the two books differ.
* `VenueReports` (`LocksFitInventory`): some call is told an inventory. Without one
  nothing is ever locked, and there is no inventory to compare with.

The argument for the lifecycle. None of the six invariants is inductive alone. The inductive
invariant `IInv` says that the current world is consistent (`WorldOk`): its three
states are `Sound`, the running and the recovered state each `Agrees` with the
replayed one, and every request is claimed.

* `Sound` carries what a handler relies on without checking: the manual block
  equals "something is unresolved" (else `_resolve_manual_intent` could lift a
  block another intent needs), the health is only left to a running
  reconciliation once nothing is unresolved (else its resolution would not
  return to NORMAL on both sides), and a bought quantity has a protection record.
* `Agrees` is the ledger *and* whether the health is NORMAL. The health itself
  does not agree (section 4), and while a reconciliation runs even
  NORMAL may differ (a cancel race writes NORMAL in memory before the resolution
  is durable), so that case is excused; the resolution then closes it.
* `WorldOk` also covers every world in `crashes`, so that one lemma per durable
  write (`EmitOk`, `ClaimOk`, `RegisterOk`) suffices for all the crash points of
  all commands. Commands that write memory ahead of their event
  (`require_manual_intervention`, an UNKNOWN fact, a fill without a trigger) need
  `EmitCloses`: the event must bring log and memory back together.

The argument for the order books. `OrderBooksProofs` adds to each world of `IInv` what
its durable parts say together (`Books`), and walks the commands a second time:

* `OrderFacts` of the replayed orders: a fill is within the order, an authorization is
  for the whole of it, and rests on a decision that admits an entry (buy) or on an
  inventory the venue reported (sell). The gate's lemmas (`EntryRests`,
  `SellIsCovered`, `ExitPasses`) say so of a context; the commands' order of checks
  makes it the context of this order.
* `RiskFrom`: the running and the recovered state know the risk decisions of the log or
  none. `approve_risk(None)` makes "or none" necessary, and it is what makes an
  admission durable: the decision the gate sees is the one a replay finds.
* `LockFacts`: the row of a sell in the store's table and its reservation in the
  replayed order are the same lock, at each of the four row states. The store accepts a
  row only when `ActiveRows` leaves room for it, which is a sum over the table; that the
  sum moves with one row and vanishes with none is `SumMoves` and `SumZero` of
  `LifecycleStateProofs`. (It shows these by a least counterexample among the subsets of a
  finite set: the recursion of `MapThenSumSet` has one table, `PartialSumsUnique`, and
  each subset's sum is in it.)
* `InOrder(floor)` fixes the fills at some earlier state; a step keeps every world above
  the floor it started with, so no death inside a command loses a fill: `FillsAreKept`.

The argument for live entries. The two books are not compared with each other (between two
writes they differ), but each with the venue: `EntryOk` says that what the ledger holds
of a key is true there, `OrderOk` that what the lifecycle holds is. The delicate
conjuncts: an order whose outcome is unknown, or which nobody identified, has booked
nothing (else a cumulative fill would be booked twice), and what was sent has
`io_started` in the lifecycle (else the operator's tool could reject it). Each write
preserves both facts in the world it leaves and in the world a death before it leaves
(`Good`), so again one lemma per write covers every crash. `RunOk` adds what the
process knows at each point of a run: which keys it still has to look at and that all
others are closed; from it follows that nothing is sent beside an open order. The
refinement is a step simulation: a submission is `Ask`, a fill or an end at the venue is
`Decide`, a terminal entry is `Settle` or `Void`, everything else a stutter.

The argument for stops and exits. Again every book is compared with the venue and in
every world a death may leave (`Safe`), and `RunOk` adds what the process knows at each
point of a run. What makes `Safe` inductive:

* `OneWorks`: of all sells at most one rests at the venue or is on its way. The proof does
  not need the lifecycle's reservations for that, and the venue's free quantity would not
  do (a request on its way locks nothing). It is the record that sees to it for stops and
  the order ledger for exits: a stop on its way has no active stop beside it, an unfinished exit is the only one, and where
  a run is about neither, nothing is on its way (`Quiet`).
* `CoverOk`: a resting stop is for exactly what is held, so a stop that is filled leaves
  nothing and a stop partly filled still covers the rest. The size is checked only where
  the stop is reserved (`seen`, which may be stale: less may be held since) and where it
  is sent (no more than is free). `RunOk` carries the first to the second, and the two
  bounds meet where the request leaves.
* `PriceOk`: while anything is held no stop was ever reserved above the trail, and the
  stop on its way is at the trail. `StopsOnlyTighten` is a consequence.
* `OrderOk`: as for entries, an order nobody identified, or whose outcome is unknown, has
  booked nothing, and what the venue may have heard of has `io_started`; the operator's
  tool relies on the latter.

What is free is a sum over the sells at the venue and what is reserved one over the
lifecycle's orders: `Locked` and `Reserved` are natural numbers by the lemmas on sums. That is
all the argument takes from them, so that it does not depend on the reservations being
exact.

The argument for the session. Exclusion follows from `LockInv`: a process past a lock
is the one the lock names. The rest needs `SessionInv`, which adds what holds between
two sessions: `FileInv` (a state file without an owner holds nothing yet; one with an
owner is the file that account is bound to and holds its peak, limits and breaker),
`AccountInv` (an account with a history is bound, to a file that is its own or was
lost), and `RunInv` (what a session has loaded is what its file holds, as nobody else
writes it; a session that creates a first state has no history). `OwnFiles` is needed
where the path of a lost file is opened again: no other account may leave a fresh
state there.

The argument for the paper engine. A call is one action, so the proof follows the worlds
inside a call and compares each of them, the ones a death would leave included, both
with itself and with the state the call began in (`Good`):

* `Safe`: lifecycle and venue agree (`OrderOk`), each attempt placed at most one stop
  (`Numbered`), and there is a stop with an identity, hence one the venue took, for each
  booked entry that no longer waits for one (`Counted`). The last is what makes
  `EntriesWaitForStops` inductive: the gate only sees that no entry waits. It survives
  because an acknowledgement follows the identification of a stop that is new
  (`AcknowledgeStopGood`), and because an intent that is created again after a
  rejection loses its fills and not a stop's identity.
* `StepOk`: since the call began no entry reached the venue or one was due
  (`EntryDue`), and no exit reached it or every stop believed working is one that can no
  longer fire (`Yields`). Each lemma about a write says which of these it keeps: what a
  log entry about another order cannot do is arouse a stop (`NoLouder`).
* The loops over the stops are recursive functions over sets of worlds, chosen for a
  step given as an operator. `LoopRuns` turns such a loop into a run, a function of the
  number of stops visited, for any set of worlds the step does not leave
  (`RunExists`, by a least counterexample, `Climb`). `CancelLoopYields` is an induction
  over that run: unless the cancellation was given up, every stop visited so far is
  quiet, a later visit arouses none, and `Numbered` says that no stop is skipped.
* Nothing is assumed of deaths, of `fired` and `missed`, or of when the price is gone. The
  bound `Attemptable` (section 3) is a guard of `Enter`; `Attempts` is any number.

Only model-checked: the findings and all liveness (`DecidedIsClosed` and the two
`FiredStopIsBooked`): neither fairness nor ENABLED is within the prover's reach.

## 6. Not modelled, and why

* `book_fee` and `replace_protective_order` of the lifecycle: a fee and a
  trigger price, which guard nothing.
* Signatures, checksums and fencing tokens of the stores: data integrity of one
  writer. Several processes on one store: the live runner's locks exclude them
  (`OneRunner`); two services that other code builds over one path are not modelled.
  The rebuild of the lock table from the log; the models keep the table live.
* A durable write that fails without the process dying: the models let the process
  die there instead. The window between the last check of a price or an inventory and
  the venue (`lifecycle.py:674`): open in the code, and no document closes it.
* Of the live runner's entries: quotes, equity and admission (where they raise, the run
  stops, which the model allows at every order), the pruning of terminal keys beyond
  the thousandth, and the lookup of records whose client order ID the venue cannot
  accept. A terminal order without a complete fill is "expired", whether it expired, was
  cancelled or rejected.
* Of its stops: dust and fees in the base asset, the tighter operational stops, the
  cancel of an orphan stop at clean-up, and lookups that answer with trades only. A
  lookup that answers says the truth, a run starts with no request older than
  the venue's receive window on its way, and the store's lock rows are represented by
  the lifecycle's own reservations, with which `LocksAgree` says they agree.
* Of the session: a state file that exists before its account's first run, and corrupt
  files (both refuse).
* Of the paper engine: partial fills of entries and UNKNOWN facts (its venue answers
  synchronously), failing lookups, the kill switch, the deferred persistence of
  prices, several symbols, limit orders, the paper exchange's own take-profit and
  trailing closes. An order fills completely or not at all. The branch for a fill
  without a positive quantity (`engine.py:1141`) cannot be taken within the call.
* Several strategies' orders through `multi_pair_runtime.py`, the perpetual book, the
  circuit breaker of `risk_controller.py` (its counters guard no order of the live
  runner, whose breaker is in `LiveSession`), connectivity, messaging, regions, the
  promotion ladder.
* Planner arithmetic, strategies, features, models, backtests, walk-forward search,
  dashboards: numeric and statistical code with no protocol. It is by far the largest
  part of the repository, so the modelled share of all lines stays small
  although the execution plane, where orders meet money, is covered.
* Network clients: their outcomes are inputs of the models.

## 7. Plan

Done: the permission gate, the lifecycle, live entries with the refinement of
`OrderPromise`, live stops and exits, the account session and the paper engine, with
their proofs. Next, in order of what can hurt most:

1. The event store: version conflicts, a failed append that leaves memory ahead, the
   lock table's rebuild against the table kept live.
2. The multi-pair runtime, the circuit breaker, the promotion ladder, projections over
   an at-least-once stream.
