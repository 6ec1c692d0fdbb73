---------------------------- MODULE OrderPromise ----------------------------
(***************************************************************************)
(* What the live runner promises about every order key, whatever dies and  *)
(* whatever answer is lost (reserve_order: "so crashes cannot duplicate an *)
(* order"; resolve_unsubmitted_order: "never reached the venue").          *)
(*                                                                         *)
(*   asked[k]  how often the venue was asked for k                         *)
(*   fate[k]   what became of k at the venue                               *)
(*   book[k]   what the runner's ledger says in the end: k is still open,  *)
(*             settled with the venue's own word, or void, never sent      *)
(***************************************************************************)
EXTENDS Naturals

CONSTANTS Keys, Amount

VARIABLES asked, fate, book

Final == {"filled", "expired"}

OpenBook == [state |-> "open", filled |-> 0]

Init ==
  /\ asked = [k \in Keys |-> 0]
  /\ fate  = [k \in Keys |-> [state |-> "absent", filled |-> 0]]
  /\ book  = [k \in Keys |-> OpenBook]

\* A key is asked for once, and not after it was closed.
Ask(k) ==
  /\ asked[k] = 0 /\ book[k] = OpenBook
  /\ asked' = [asked EXCEPT ![k] = 1]
  /\ UNCHANGED <<fate, book>>

\* The venue decides; its last word stands.
Decide(k) ==
  /\ asked[k] = 1 /\ fate[k].state \notin Final
  /\ \E state \in {"open"} \cup Final, n \in fate[k].filled .. Amount[k] :
       fate' = [fate EXCEPT ![k] = [state |-> state, filled |-> n]]
  /\ UNCHANGED <<asked, book>>

\* A key is settled with exactly what the venue filled.
Settle(k) ==
  /\ book[k] = OpenBook /\ fate[k].state \in Final
  /\ book' = [book EXCEPT ![k] = [state |-> "settled", filled |-> fate[k].filled]]
  /\ UNCHANGED <<asked, fate>>

\* A key that was never asked for may be given up.
Void(k) ==
  /\ book[k] = OpenBook /\ asked[k] = 0
  /\ book' = [book EXCEPT ![k] = [state |-> "void", filled |-> 0]]
  /\ UNCHANGED <<asked, fate>>

Next == \E k \in Keys : Ask(k) \/ Decide(k) \/ Settle(k) \/ Void(k)

Spec == Init /\ [][Next]_<<asked, fate, book>>
=============================================================================
