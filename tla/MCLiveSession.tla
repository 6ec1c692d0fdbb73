---------------------------- MODULE MCLiveSession ----------------------------
(***************************************************************************)
(* A mainnet and a testnet account, two processes and two state files.     *)
(* The mainnet account is started with either file, dry, with another      *)
(* strategy, and with looser limits, approved or not; the testnet account  *)
(* is started with the second file.  The first one may be lost.            *)
(***************************************************************************)
EXTENDS LiveSession, TLC

CONSTANTS m, t, f, g, ma, mb

Tight    == [drawdown |-> 30, daily |-> 20]
Loose    == [drawdown |-> 50, daily |-> 50]
MCLimits == {Tight, Loose}

Started(a, p) ==
  [account |-> a, path |-> p, strategy |-> ma, limits |-> Tight,
   approve |-> FALSE, execute |-> TRUE]

MCStarts ==
  {Started(m, f), Started(m, g), Started(t, g),
   [Started(m, f) EXCEPT !.execute = FALSE],
   [Started(m, f) EXCEPT !.strategy = mb],
   [Started(m, f) EXCEPT !.limits = Loose],
   [Started(m, f) EXCEPT !.limits = Loose, !.approve = TRUE]}
MCEquities == {60, 100}
ASSUME OwnFiles

Symmetric == Permutations(Procs)
=============================================================================
