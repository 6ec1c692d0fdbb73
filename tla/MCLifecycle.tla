---------------------------- MODULE MCLifecycle ----------------------------
(***************************************************************************)
(* Small instances of the execution lifecycle: one to three intents of one *)
(* symbol, and the answers of the callables that differ in what the        *)
(* commands read from them.                                                *)
(***************************************************************************)
EXTENDS ExecutionLifecycle

CONSTANTS b1, b2, s1, s2

OpenDecision ==
  [present |-> TRUE, reduce_only |-> FALSE, headroom |-> TRUE,
   evidence |-> [e \in EvidenceOf |-> "KNOWN"], waived |-> FALSE]
Open    == {OpenDecision}
Varied  == {OpenDecision, [OpenDecision EXCEPT !.reduce_only = TRUE]}

Calm(n) == [kill |-> FALSE, price |-> TRUE, known |-> TRUE, free |-> n]

MCEnvs == {Calm(0), Calm(2), [Calm(2) EXCEPT !.kill = TRUE],
           [Calm(2) EXCEPT !.price = FALSE], [Calm(2) EXCEPT !.known = FALSE]}
\* An entry reads no inventory.
EntryEnvs == {Calm(2), [Calm(2) EXCEPT !.kill = TRUE],
              [Calm(2) EXCEPT !.price = FALSE]}
Quiet  == {Calm(1), Calm(2)}
Steady == {Calm(2)}

MCSymbolOf == [i \in Intents |-> "BTC"]
OwnKey     == [i \in Intents |-> i]
SharedKey  == [i \in Intents |-> IF i = s2 THEN s2 ELSE s1]
MCSize     == [i \in Intents |-> IF i \in {b1, s2} THEN 2 ELSE 1]

\* No snapshot; or one after most of the events before which a command may
\* write the memory directly, and none after the others.
NoSnapshots   == {{}}
SomeSnapshots ==
  {{"RISK_APPROVED", "FILL_RECEIVED", "BROKER_STATE_UNKNOWN",
    "BROKER_STATE_RECONCILED"}}

SellCommands ==
  {"create_order_intent", "approve_risk", "authorize_order",
   "request_broker_submission", "submit_order", "receive_fill",
   "request_cancel", "confirm_cancel", "reject_order"}
ManualCommands ==
  {"record_broker_submit_result", "record_reconciled_broker_submit_result",
   "require_manual_intervention", "start_reconciliation",
   "resolve_reconciliation", "reconcile_broker_state"}
AllCommands ==
  SellCommands \cup ManualCommands \cup
  {"emergency_reduce", "record_broker_io_started", "acknowledge_broker",
   "create_protective_order", "acknowledge_protective_order"}
\* Without the commands that append what a fact appends too.
EntryCommands ==
  AllCommands \ {"acknowledge_broker", "reject_order", "require_manual_intervention",
                 "start_reconciliation", "resolve_reconciliation"}
=============================================================================
