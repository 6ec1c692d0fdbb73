--------------------------- MODULE LiveSubmission ---------------------------
(***************************************************************************)
(* How the live runner carries an entry to the venue and finds out what    *)
(* became of it (scripts/live_enhanced_ma_binance.py), over its two books: *)
(* the order ledger of the risk state (execution/live_safety.py) and the   *)
(* canonical lifecycle.  A run reconciles what earlier runs left, then     *)
(* sends a batch one order after the other.  The request may be lost or    *)
(* late, the answer may be lost, lookups may fail, and the process may die *)
(* between any two durable writes.  The operator may close an intent that  *)
(* never left (scripts/resolve_unsubmitted_order.py).                      *)
(*                                                                         *)
(*   ledger  the order ledger: status, cumulative fill, whether the entry  *)
(*           carries venue evidence                                        *)
(*   mem     the lifecycle's state.  The log is not kept apart: a restart  *)
(*           reads the same ledger back (ExecutionLifecycleProofs)         *)
(*   claims  the store's submission claims                                 *)
(*   wire    the keys whose request is on its way to the venue             *)
(*   venue   what the venue holds under each client order ID               *)
(*   sends   how often the venue was called for each key (history)         *)
(*   run     where the process is; an account session lock admits one      *)
(*           process at a time, "off" when there is none                   *)
(*                                                                         *)
(* An intent and its order key are one.  The batches hold entries only.    *)
(* "expired" stands for the final venue states without a complete fill     *)
(* (expired, cancelled, rejected).  Protection, quotes and balances are    *)
(* left out: where they raise, a run stops, and so it does when it dies.   *)
(***************************************************************************)
EXTENDS RunnerRecording

VARIABLES ledger, mem, claims, wire, venue, sends, run

vars == <<ledger, mem, claims, wire, venue, sends, run>>

-----------------------------------------------------------------------------
(* The order ledger                                                        *)

Terminal == {"filled", "expired", "rejected"}

\* "none" where no entry exists.
LedgerStatuses ==
  {"none", "reserved", "submitted", "acknowledged", "open", "partial",
   "reconciling", "manual_intervention"} \cup Terminal

\* ORDER_LEDGER_TRANSITIONS
LedgerTransitions(status) ==
  CASE status = "reserved" ->
         {"submitted", "rejected", "reconciling", "manual_intervention"}
    [] status = "submitted" ->
         {"acknowledged", "reconciling", "manual_intervention"}
    [] status = "acknowledged" ->
         {"open", "partial", "reconciling", "manual_intervention"} \cup Terminal
    [] status = "open" ->
         {"partial", "reconciling", "manual_intervention"} \cup Terminal
    [] status = "partial" ->
         {"filled", "expired", "reconciling", "manual_intervention"}
    [] status = "reconciling"         -> {"acknowledged", "manual_intervention"}
    [] status = "manual_intervention" -> {"reconciling"}
    [] OTHER                          -> {}

NoEntry == [status |-> "none", filled |-> 0, evidence |-> FALSE]

\* update_order.  An update the ledger refuses raises: "raised".
Updated(r, status, filled, evidence) ==
  IF /\ status \in {r.status} \cup LedgerTransitions(r.status)
     /\ filled >= r.filled
  THEN [status |-> status, filled |-> filled, evidence |-> r.evidence \/ evidence]
  ELSE [r EXCEPT !.status = "raised"]

\* Mutant: what was handed to the operator is not looked up again.
UnfinishedUnparked ==
  {k \in Intents : ledger[k].status \notin
                      Terminal \cup {"none", "manual_intervention"}}

\* unfinished_orders
Unfinished == {k \in Intents : ledger[k].status \notin Terminal \cup {"none"}}

-----------------------------------------------------------------------------
(* What a venue lookup or answer says.  A lookup that finds only trades    *)
(* has an unknown status.                                                  *)

VenueFact(k) ==
  [status |-> IF venue[k].state = "open" /\ venue[k].filled > 0 THEN "partial"
              ELSE venue[k].state,
   filled |-> venue[k].filled]

Lookups(k) ==
  IF venue[k].state = "absent" THEN {}
  ELSE {VenueFact(k), [VenueFact(k) EXCEPT !.status = "unknown"]}

-----------------------------------------------------------------------------
(* The worlds of this module (see RunnerRecording)                         *)

\* What a run still has to do: the order it polls and why, the unfinished
\* orders left to reconcile, and whether one of them blocks the batch.
Runs ==
  [at : {"off", "reconcile", "poll", "batch", "calling"}, key : Intents,
   why : {"restart", "working", "unsure"}, left : SUBSET Intents,
   blocked : BOOLEAN]

Off ==
  [at |-> "off", key |-> CHOOSE k \in Intents : TRUE, why |-> "restart",
   left |-> {}, blocked |-> FALSE]

World == [ledger |-> ledger, mem |-> mem, claims |-> claims, run |-> run,
          crashes |-> {}]

Dead(w) ==
  [ledger |-> w.ledger, mem |-> w.mem, claims |-> w.claims, run |-> Off]

Become(w) ==
  /\ ledger' = w.ledger /\ mem' = w.mem /\ claims' = w.claims /\ run' = w.run

\* update_order without evidence, and with a fact's.
Mark(w, k, status) ==
  Durably(w, [w EXCEPT !.ledger[k] = Updated(@, status, @.filled, FALSE)])

MarkFact(w, k, status, f) ==
  Durably(w, [w EXCEPT !.ledger[k] = Updated(@, status, f.filled, TRUE)])

Claim(w, k)   == Durably(w, [w EXCEPT !.claims = @ \cup {k}])
Release(w, k) == Durably(w, [w EXCEPT !.claims = @ \ {k}])

Continue(w, at)   == [w EXCEPT !.run = [Off EXCEPT !.at = at]]
Poll(w, k, why)   == [w EXCEPT !.run.at = "poll", !.run.key = k, !.run.why = why]
Stop(w)           == [w EXCEPT !.run = Off]

-----------------------------------------------------------------------------
(* Writing a fact into the ledger and into the lifecycle                   *)

\* Mutant: the status the venue reports is written as it stands.
PersistRaw(w, k, f) ==
  Durably(w, [w EXCEPT !.ledger[k] = [status |-> f.status, filled |-> f.filled,
                                      evidence |-> TRUE]])

\* Mutant: the status is written without acknowledging the order first.
PersistAtOnce(w, k, f) ==
  MarkFact(w, k, IF f.status = "unknown" THEN "manual_intervention" ELSE f.status, f)

\* persist_order_result
PersistOrderResult(w, k, f) ==
  LET w1 == CASE w.ledger[k].status = "reserved" -> Mark(w, k, "submitted")
              [] w.ledger[k].status = "manual_intervention" -> Mark(w, k, "reconciling")
              [] OTHER -> w
      w2 == IF w1.ledger[k].status \in {"submitted", "reconciling"}
            THEN MarkFact(w1, k, "acknowledged", f) ELSE w1
  IN  MarkFact(w2, k, IF f.status = "unknown" THEN "manual_intervention"
                      ELSE f.status, f)

-----------------------------------------------------------------------------
(* The start of a run: reconcile_unfinished_orders                         *)

\* Mutant: the reasons to block the batch are not kept.
NextUnfinishedAnyway(w, k, blocks) ==
  [w EXCEPT !.run = [Off EXCEPT !.at = "reconcile", !.left = w.run.left \ {k}]]

NextUnfinished(w, k, blocks) ==
  [w EXCEPT !.run = [Off EXCEPT !.at = "reconcile", !.left = w.run.left \ {k},
                                !.blocked = w.run.blocked \/ blocks]]

\* An entry the lifecycle does not know is left to the operator; any other is
\* looked up.
Reconciling(k) ==
  IF Exists(mem, k) THEN Poll(Mark(World, k, "reconciling"), k, "restart")
  ELSE NextUnfinished(Mark(World, k, "manual_intervention"), k, TRUE)

\* The lifecycle first, then the ledger.  An unknown status raises before both.
FoundAtRestart(k, f) ==
  LET w == PersistOrderResult(RecordReconciledSubmission(World, k, f), k, f) IN
  CASE f.status = "unknown"   -> Stop(World)
    [] f.status \in Terminal  -> NextUnfinished(w, k, FALSE)
    [] OTHER                  -> NextUnfinished(Mark(w, k, "manual_intervention"), k, TRUE)

\* The ledger first, then the lifecycle, which an unknown status never reaches.
FoundInBatch(k, f) ==
  LET w1 == PersistOrderResult(World, k, f)
      w2 == RecordReconciledSubmission(w1, k, f)
  IN  CASE f.status = "unknown" -> Stop(w1)
        [] f.status \in Terminal -> IF f.status = "filled" /\ run.why = "working"
                                    THEN Continue(w2, "batch") ELSE Stop(w2)
        [] OTHER -> Stop(Mark(w2, k, "manual_intervention"))

Found(k, f) == IF run.why = "restart" THEN FoundAtRestart(k, f) ELSE FoundInBatch(k, f)

Missed(k) ==
  LET w == Mark(World, k, "manual_intervention") IN
  IF run.why = "restart" THEN NextUnfinished(w, k, TRUE) ELSE Stop(w)

-----------------------------------------------------------------------------
(* One order of a batch: execute_orders                                    *)

\* reserve_order; submit_planned: create, approve, authorize, claim, request;
\* the gateway's BROKER_IO_STARTED.
Reserved(k)  == Durably(World, [World EXCEPT !.ledger[k].status = "reserved"])
Approved(k)  == Log(Log(Reserved(k), Ev("ORDER_INTENT_CREATED", k)), Ev("RISK_APPROVED", k))
Claimed(k)   ==
  Claim(Log(Approved(k), [Ev("ORDER_AUTHORIZED", k) EXCEPT !.authorized = Size[k]]), k)
Requested(k) == Log(Claimed(k), Ev("BROKER_SUBMISSION_REQUESTED", k))
Started(k)   ==
  LET w == Log(Requested(k), Ev("BROKER_IO_STARTED", k)) IN
  [w EXCEPT !.run = [Off EXCEPT !.at = "calling", !.key = k]]

\* Where the permission gate or a limit may refuse an entry: before it is
\* drafted, at its authorization, at its request.  The gate must refuse a draft
\* under a manual block and an authorization during a reconciliation.
Refusable(k) ==
  {Reserved(k)} \cup
  (IF ManualControl(mem) THEN {} ELSE {Approved(k)}) \cup
  (IF ManualControl(mem) \/ ReconControl(mem) THEN {} ELSE {Claimed(k)})

Refused(k) == {Stop(Mark(w, k, "rejected")) : w \in Refusable(k)}

Answered(k) ==
  LET f  == VenueFact(k)
      w1 == PersistOrderResult(RecordBrokerFact(World, k, f), k, f)
  IN  CASE f.status = "filled"  -> Continue(w1, "batch")
        [] f.status = "expired" -> Stop(w1)
        [] OTHER                -> Poll(Mark(w1, k, "reconciling"), k, "working")

\* The call raised: it may or may not have reached the venue.
Unanswered(k) == Poll(Mark(RecordUnknown(World, k), k, "reconciling"), k, "unsure")

-----------------------------------------------------------------------------
(* The operator                                                            *)

\* Mutant: the ledger alone proves that the intent never left.
LedgerSaysUnsent(k) ==
  /\ ledger[k].status \in {"reserved", "reconciling", "manual_intervention"}
  /\ ~ledger[k].evidence /\ ledger[k].filled = 0
  /\ venue[k].state = "absent"
  /\ Exists(mem, k)

\* Neither book nor the venue shows that the intent may have left.
Resolvable(k) ==
  /\ ledger[k].status \in {"reserved", "reconciling", "manual_intervention"}
  /\ ~ledger[k].evidence /\ ledger[k].filled = 0
  /\ venue[k].state = "absent"
  /\ Exists(mem, k)
  /\ ~mem.orders[k].io_started /\ ~mem.orders[k].exchange_id
  /\ mem.orders[k].status \notin {"ACKNOWLEDGED", "CANCEL_REQUESTED", "CANCELED"}

\* The lifecycle, the claim, the ledger.
Resolution(k) ==
  LET w1 == IF mem.orders[k].status = "REJECTED" THEN World
            ELSE Log(World, Ev("ORDER_REJECTED", k))
      w2 == IF k \in claims THEN Release(w1, k) ELSE w1
  IN  Durably(w2, [w2 EXCEPT !.ledger[k].status = "rejected"])

-----------------------------------------------------------------------------
(* Actions                                                                 *)

Init ==
  /\ ledger = [k \in Intents |-> NoEntry]
  /\ mem = EmptyState
  /\ claims = {} /\ wire = {}
  /\ venue = [k \in Intents |-> [state |-> "absent", filled |-> 0]]
  /\ sends = [k \in Intents |-> 0]
  /\ run = Off

Outside == <<wire, venue, sends>>

StartRun ==
  /\ run = Off
  /\ run' = [Off EXCEPT !.at = "reconcile", !.left = Unfinished]
  /\ UNCHANGED <<ledger, mem, claims, Outside>>

ReconcileOrder(k) ==
  /\ run.at = "reconcile" /\ k \in run.left
  /\ Become(Reconciling(k)) /\ UNCHANGED Outside

\* Unresolved orders raise before a batch is planned.  A run that stops for
\* another reason before it plans is one whose batch ends at once.
EndReconciliation ==
  /\ run.at = "reconcile" /\ run.left = {}
  /\ Become(IF run.blocked THEN Stop(World) ELSE Continue(World, "batch"))
  /\ UNCHANGED Outside

\* A lookup answers with a final fact at once and with any other at the
\* deadline; it may find nothing, the order being absent or the venue mute.
PollFinds(k, f) ==
  /\ run.at = "poll" /\ run.key = k
  /\ f \in Lookups(k)
  /\ Become(Found(k, f)) /\ UNCHANGED Outside

PollMisses(k) ==
  /\ run.at = "poll" /\ run.key = k
  /\ Become(Missed(k)) /\ UNCHANGED Outside

Submit(k) ==
  /\ run.at = "batch" /\ ledger[k] = NoEntry /\ k \notin claims
  /\ ~ManualControl(mem) /\ ~ReconControl(mem)
  /\ Become(Started(k))
  /\ wire' = wire \cup {k} /\ sends' = [sends EXCEPT ![k] = @ + 1]
  /\ UNCHANGED venue

Refuse(k) ==
  /\ run.at = "batch" /\ ledger[k] = NoEntry
  /\ \E w \in Refused(k) : Become(w)
  /\ UNCHANGED Outside

EndBatch ==
  /\ run.at = "batch" /\ run' = Off
  /\ UNCHANGED <<ledger, mem, claims, Outside>>

Answer(k) ==
  /\ run.at = "calling" /\ run.key = k /\ venue[k].state # "absent"
  /\ Become(Answered(k)) /\ UNCHANGED Outside

CallFails(k) ==
  /\ run.at = "calling" /\ run.key = k
  /\ Become(Unanswered(k)) /\ UNCHANGED Outside

ResolveUnsubmitted(k) ==
  /\ run = Off /\ Resolvable(k)
  /\ Become(Resolution(k)) /\ UNCHANGED Outside

\* The steps the process, or the operator's tool, may be in the middle of.
Undertaken(k) ==
  CASE run.at = "off"       -> IF Resolvable(k) THEN {Resolution(k)} ELSE {}
    [] run.at = "reconcile" -> IF k \in run.left THEN {Reconciling(k)} ELSE {}
    [] run.at = "poll"      ->
         IF run.key = k THEN {Missed(k)} \cup {Found(k, f) : f \in Lookups(k)} ELSE {}
    [] run.at = "calling"   ->
         IF run.key # k THEN {}
         ELSE {Unanswered(k)} \cup
              (IF venue[k].state = "absent" THEN {} ELSE {Answered(k)})
    [] run.at = "batch"     ->
         IF ledger[k] # NoEntry THEN {}
         ELSE Refused(k) \cup
              (IF ManualControl(mem) \/ ReconControl(mem) THEN {} ELSE {Started(k)})

\* The process dies before one of the writes of a step, or after the last one.
Die(k) ==
  /\ \E w \in Undertaken(k) : \E dead \in w.crashes \cup {w} : Become(Dead(dead))
  /\ UNCHANGED Outside

\* The venue takes a request, or never sees it (lost, or refused outright).
VenueTakes(k) ==
  /\ k \in wire /\ wire' = wire \ {k}
  /\ venue' = [venue EXCEPT ![k].state = "open"]
  /\ UNCHANGED <<ledger, mem, claims, sends, run>>

RequestLost(k) ==
  /\ k \in wire /\ wire' = wire \ {k}
  /\ UNCHANGED <<ledger, mem, claims, venue, sends, run>>

VenueFills(k) ==
  /\ venue[k].state = "open"
  /\ venue' = [venue EXCEPT
       ![k] = [state  |-> IF @.filled + 1 = Size[k] THEN "filled" ELSE "open",
               filled |-> @.filled + 1]]
  /\ UNCHANGED <<ledger, mem, claims, wire, sends, run>>

VenueExpires(k) ==
  /\ venue[k].state = "open"
  /\ venue' = [venue EXCEPT ![k].state = "expired"]
  /\ UNCHANGED <<ledger, mem, claims, wire, sends, run>>

Next ==
  \/ StartRun \/ EndReconciliation \/ EndBatch
  \/ \E k \in Intents :
       \/ ReconcileOrder(k) \/ PollMisses(k) \/ \E f \in Lookups(k) : PollFinds(k, f)
       \/ Submit(k) \/ Refuse(k) \/ Answer(k) \/ CallFails(k)
       \/ ResolveUnsubmitted(k) \/ Die(k)
       \/ VenueTakes(k) \/ RequestLost(k) \/ VenueFills(k) \/ VenueExpires(k)

Spec == Init /\ [][Next]_vars

\* Three steps as fairness sees them, by what they do to one variable: an
\* unfinished order is looked up, a lookup finds the venue's last word and the
\* ledger takes it, a call gives up waiting.
LooksUp(k) ==
  /\ run.at = "reconcile" /\ k \in run.left /\ Exists(mem, k)
  /\ run' = [run EXCEPT !.at = "poll", !.key = k, !.why = "restart"]

Closes(k) ==
  /\ run.at = "poll" /\ run.key = k
  /\ venue[k].state \in {"filled", "expired"}
  /\ ledger' = [ledger EXCEPT ![k] = [status |-> venue[k].state, evidence |-> TRUE,
                                     filled |-> venue[k].filled]]

GivesUp(k) ==
  /\ run.at = "calling" /\ run.key = k
  /\ run' = [run EXCEPT !.at = "poll", !.why = "unsure"]

\* The runner is started again and again (cron) and every run comes to an end;
\* it does not die, and a lookup does not fail, every single time.
Fairness ==
  /\ WF_vars(StartRun) /\ WF_vars(EndReconciliation) /\ WF_vars(EndBatch)
  /\ \A k \in Intents : /\ WF_vars(PollMisses(k)) /\ WF_run(GivesUp(k))
                        /\ SF_run(LooksUp(k)) /\ SF_ledger(Closes(k))

FairSpec == Spec /\ Fairness

-----------------------------------------------------------------------------
(* Properties                                                              *)

TypeOK ==
  /\ ledger \in [Intents -> [status : LedgerStatuses \cup {"raised"}, filled : Nat,
                             evidence : BOOLEAN]]
  /\ mem \in State /\ claims \subseteq Intents /\ wire \subseteq Intents
  /\ venue \in [Intents -> [state : {"absent", "open", "filled", "expired"},
                            filled : Nat]]
  /\ sends \in [Intents -> Nat] /\ run \in Runs

\* What the two books may say at most: what the venue filled.  Lookups report
\* cumulative fills, the lifecycle adds increments; no retry, restart or second
\* lookup may book a fill twice (_record_reconciled_submission).
NoSyntheticFills ==
  \A k \in Intents : /\ ledger[k].filled =< venue[k].filled
                     /\ mem.orders[k].filled =< venue[k].filled

\* No sequence of runs, deaths and lookups leads the ledger to an update it
\* refuses: the refusal would stop every later run at the same order.
NoUpdateRaises == \A k \in Intents : ledger[k].status # "raised"

\* An order the lifecycle holds for dead is dead at the venue: it does not rest
\* there and is not on its way.
DeadInLogIsDead ==
  \A k \in Intents :
    mem.orders[k].status \in {"FILLED", "CANCELED", "REJECTED"} =>
      k \notin wire /\ venue[k].state # "open"

\* An entry is sent only when no other order may still fill: one whose outcome
\* is unknown stops its batch and every later one (execute_orders,
\* reconcile_unfinished_orders).
NothingOutstandingWhenSending ==
  [][\A k \in Intents : sends'[k] > sends[k] =>
       \A j \in Intents \ {k} : j \notin wire /\ venue[j].state # "open"]_vars

\* At most once to the venue; closed as unsent means never sent, before or
\* after; settled means settled with the venue's last word.
Book(k) ==
  [state  |-> IF ledger[k].status \notin Terminal THEN "open"
              ELSE IF ledger[k].evidence THEN "settled" ELSE "void",
   filled |-> IF ledger[k].status \in Terminal THEN ledger[k].filled ELSE 0]

Promise ==
  INSTANCE OrderPromise WITH
    Keys <- Intents, Amount <- Size, asked <- sends, fate <- venue,
    book <- [k \in Intents |-> Book(k)]

KeepsPromise == Promise!Spec

\* Once the venue has decided, a later run closes the ledger entry, so that no
\* decided order blocks the batches forever.
DecidedIsClosed ==
  \A k \in Intents :
    venue[k].state \in Promise!Final ~> ledger[k].status \in Terminal

-----------------------------------------------------------------------------
(* What the code's documents say and these steps do not do                 *)

\* "Reconcile every non-terminal intent before a new batch can be planned."  A
\* death between the ledger's last update and the lifecycle's leaves an intent
\* the lifecycle holds unresolved and no later run looks at.
BatchFindsSettledIntents == run.at = "batch" => mem.unresolved = {}
=============================================================================
