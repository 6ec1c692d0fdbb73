-------------------------- MODULE RunnerRecording ---------------------------
(***************************************************************************)
(* How the live runner writes what the venue said of an order into the     *)
(* lifecycle (scripts/live_enhanced_ma_binance.py over                     *)
(* execution/application.py): the answer to a submission, its absence, and *)
(* what a later lookup finds.  Shared by LiveSubmission (entries),         *)
(* ProtectiveStops (stops and exits) and PaperEngine.                      *)
(*                                                                         *)
(* A step of the runner maps the current world, a record with at least the *)
(* lifecycle's state "mem", to the one it leaves behind; every durable     *)
(* write on the way adds to "crashes" the world a death just before it     *)
(* leaves.                                                                 *)
(***************************************************************************)
EXTENDS LifecycleState

Durably(w, next) ==
  [next EXCEPT !.crashes = @ \cup {[w EXCEPT !.crashes = {}]}]

Log(w, e) == Durably(w, [w EXCEPT !.mem = Apply(@, e)])

\* What a venue lookup or answer says.  "expired" stands for the final venue
\* states without a complete fill (expired, cancelled, rejected).
Facts == [status : {"open", "partial", "filled", "expired", "unknown"}, filled : Nat]

Accepted == {"open", "partial", "filled"}

\* record_broker_submit_result
RecordSubmitResult(w, k, f) ==
  CASE f.status = "open"    -> Log(w, Ev("BROKER_ACKNOWLEDGED", k))
    [] f.status = "partial" ->
         Log(Log(w, Ev("BROKER_ACKNOWLEDGED", k)),
             [Ev("PARTIAL_FILL_RECEIVED", k) EXCEPT !.qty = f.filled])
    [] f.status = "filled"  ->
         Log(Log(w, Ev("BROKER_ACKNOWLEDGED", k)),
             [Ev("FILL_RECEIVED", k) EXCEPT !.qty = f.filled])
    [] f.status = "expired" -> Log(w, Ev("ORDER_REJECTED", k))
    [] f.status = "unknown" ->
         Log(Log(w, Ev("BROKER_STATE_UNKNOWN", k)), Ev("RECONCILIATION_STARTED", k))

\* submit_order, or the ORDER_SUBMITTED of a reconciled order.
Identify(w, k) ==
  Log(w, [Ev("ORDER_SUBMITTED", k) EXCEPT !.exchange_id = TRUE, !.qty = Size[k],
                                          !.authorized = Size[k]])

\* record_broker_fact
RecordBrokerFact(w, k, f) ==
  RecordSubmitResult(IF f.status \in Accepted /\ ~w.mem.orders[k].exchange_id
                     THEN Identify(w, k) ELSE w, k, f)

\* The lost answer: UNKNOWN, with nothing known about the venue.
LostAnswer == [status |-> "unknown", filled |-> 0]

\* Mutant: a failed call is a failed order.
PresumeRejected(w, k) == RecordSubmitResult(w, k, [LostAnswer EXCEPT !.status = "expired"])

RecordUnknown(w, k) == RecordSubmitResult(w, k, LostAnswer)

\* record_reconciled_broker_submit_result.  While an intent is unresolved a
\* reconciliation is in progress.
Reconcile(w, k, f) ==
  LET w1 == RecordSubmitResult(IF f.status \in Accepted THEN Identify(w, k) ELSE w, k, f)
  IN  IF w1.mem.unresolved = {} /\ w1.mem.reconciliation = "STARTED"
      THEN Log(w1, Ev("RECONCILIATION_RESOLVED", k)) ELSE w1

\* Mutant: the cumulative fill is booked again.
RecordProgressTwice(w, k, f) ==
  IF f.filled > 0
  THEN RecordBrokerFact(w, k, [f EXCEPT !.status = IF f.filled = Size[k] THEN "filled"
                                                   ELSE "partial"])
  ELSE w

\* An order the lifecycle knows: only what was filled since is booked, and an
\* expired remainder is cancelled.
RecordProgress(w, k, f) ==
  LET delta == f.filled - w.mem.orders[k].filled
      w1 == IF delta > 0
            THEN RecordBrokerFact(w, k, [filled |-> delta,
                   status |-> IF f.filled = Size[k] THEN "filled" ELSE "partial"])
            ELSE w
      w2 == IF w1.mem.orders[k].status = "CANCEL_REQUESTED" THEN w1
            ELSE Log(w1, Ev("CANCEL_REQUESTED", k))
  IN  IF f.status = "expired" /\ w1.mem.orders[k].status \notin {"CANCELED", "FILLED"}
      THEN Log(w2, Ev("CANCEL_CONFIRMED", k)) ELSE w1

\* _record_reconciled_submission: an order found at the venue which the
\* lifecycle neither identified nor holds unresolved is made unknown first.
RecordReconciledSubmission(w, k, f) ==
  LET w1 == IF w.mem.orders[k].exchange_id \/ k \in w.mem.unresolved THEN w
            ELSE RecordUnknown(w, k)
  IN  IF k \in w1.mem.unresolved THEN Reconcile(w1, k, f) ELSE RecordProgress(w1, k, f)
=============================================================================
