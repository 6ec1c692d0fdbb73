----------------------------- MODULE LiveSession -----------------------------
(***************************************************************************)
(* How runs of the live runner come by their account, their risk state and *)
(* their loss limits (execution/live_safety.py: LiveExecutionLock,         *)
(* LiveAccountSession, LiveRiskStateStore; run and run_locked of           *)
(* scripts/live_enhanced_ma_binance.py).                                   *)
(*                                                                         *)
(* Any number of processes are started with any account, state file,       *)
(* strategy and limits.  Each takes the account's writer lock, then the    *)
(* lock beside the state file, checks or creates the account's binding,    *)
(* loads the state, binds it to its account and strategy, binds its        *)
(* limits, and observes the equity, which may trip the circuit breaker     *)
(* for good.  A process may raise or die between any two steps; a state    *)
(* file may be lost while nobody uses it.                                  *)
(*                                                                         *)
(*   writer, guard  who holds the lock of an account, of a state file      *)
(*   binding        the state file an account is bound to                  *)
(*   file           what the state files hold                              *)
(*   run            where each process is, with what it was started, and   *)
(*                  its copy of the state                                  *)
(*   today          the trading day                                        *)
(*   history        what an onlooker remembers of each account's runs      *)
(*                                                                         *)
(* Testnet and mainnet accounts differ by the exchange in the fingerprint, *)
(* so an account is one or the other.  Signatures, and the ledgers the     *)
(* state also holds, are left out.                                         *)
(***************************************************************************)
EXTENDS Integers

CONSTANTS
  Procs, Accounts, Paths, Strategies,
  Mainnet,    \* the accounts of the real exchange
  Limits,     \* the loss limits a run may bring, [drawdown, daily] in percent
  Starts,     \* what a process may be started with
  Losable,    \* the state files that may be lost
  Equities,   \* bound: the equities an account may have
  MaxDay,     \* bound: the trading days are 1 .. MaxDay
  None, Torn

ASSUME SessionAssumption ==
  /\ Mainnet \subseteq Accounts /\ MaxDay \in Nat \ {0}
  /\ Starts \subseteq [account : Accounts, path : Paths, strategy : Strategies,
                        limits : Limits, approve : BOOLEAN, execute : BOOLEAN]
  /\ Losable \subseteq Paths
  /\ Equities \subseteq Nat \ {0}
  /\ Limits \subseteq [drawdown : Nat, daily : Nat]
  /\ None \notin Procs \cup Accounts \cup Paths \cup Strategies \cup Limits
  /\ Torn \notin Paths \cup {None}

\* A state file that may be lost is meant for one account only.  Nothing in the
\* code sees to it; the theorems on the baseline assume it.
OwnFiles ==
  \A c, d \in Starts : c.path = d.path /\ c.path \in Losable => c.account = d.account

VARIABLES writer, guard, binding, file, run, today, history

vars == <<writer, guard, binding, file, run, today, history>>

-----------------------------------------------------------------------------
(* The risk state                                                          *)

States ==
  [owner : Accounts \cup {None}, strategy : Strategies \cup {None},
   limits : Limits \cup {None}, peak : Nat, dayStart : Nat, day : Nat,
   locked : BOOLEAN]

ASSUME NoneIsNoState == None \notin States

\* Mutant: no trading day is not a day.
FreshUndated ==
  [owner |-> None, strategy |-> None, limits |-> None, peak |-> 0,
   dayStart |-> 0, day |-> None, locked |-> FALSE]

\* LiveRiskState()
Fresh ==
  [owner |-> None, strategy |-> None, limits |-> None, peak |-> 0,
   dayStart |-> 0, day |-> 0, locked |-> FALSE]

\* A loss of at least so many percent.
Lost(from, equity, percent) == (from - equity) * 100 >= percent * from

\* Mutant: the lock holds for the day.
ObservedToday(s, equity) ==
  LET dayStart == IF s.day = today THEN s.dayStart ELSE equity
      peak     == IF equity > s.peak THEN equity ELSE s.peak
  IN  [s EXCEPT !.day = today, !.dayStart = dayStart, !.peak = peak,
         !.locked = \/ s.day = today /\ @
                    \/ Lost(peak, equity, s.limits.drawdown)
                    \/ Lost(dayStart, equity, s.limits.daily)]

\* observe_equity
Observed(s, equity) ==
  LET dayStart == IF s.day = today THEN s.dayStart ELSE equity
      peak     == IF equity > s.peak THEN equity ELSE s.peak
  IN  [s EXCEPT !.day = today, !.dayStart = dayStart, !.peak = peak,
         !.locked = \/ @
                    \/ Lost(peak, equity, s.limits.drawdown)
                    \/ Lost(dayStart, equity, s.limits.daily)]

Looser(new, old) == new.drawdown > old.drawdown \/ new.daily > old.daily

-----------------------------------------------------------------------------
(* Processes                                                               *)

Idle ==
  [at |-> "off", account |-> None, path |-> None, strategy |-> None,
   limits |-> None, approve |-> FALSE, execute |-> FALSE, store |-> Fresh]

Places ==
  {"off", "writer", "binding", "bind", "bootstrap", "active", "limits", "equity",
   "trading", "reducing", "leaving", "unguarded"}

Runs ==
  [at : Places,
   account : Accounts \cup {None}, path : Paths \cup {None},
   strategy : Strategies \cup {None}, limits : Limits \cup {None},
   approve : BOOLEAN, execute : BOOLEAN, store : States]

\* The body of the session, and the part of it that holds the state's lock.
InSession(p) == run[p].at \in {"active", "limits", "equity", "trading", "reducing"}
Guards(p)    == run[p].at \notin {"off", "writer", "unguarded"}

Goto(p, at) == run' = [run EXCEPT ![p].at = at]

\* The session's __exit__, or its except clause, begins.
Leaves(p) ==
  /\ run' = [run EXCEPT ![p].at = "leaving", ![p].store = Fresh]
  /\ UNCHANGED <<binding, file, history>>

Keep(s, p, at) ==
  /\ run' = [run EXCEPT ![p].store = s, ![p].at = at]
  /\ file' = [file EXCEPT ![run[p].path] = s]

-----------------------------------------------------------------------------
(* Actions                                                                 *)

Locks == <<writer, guard>>

Init ==
  /\ writer = [a \in Accounts |-> None] /\ guard = [f \in Paths |-> None]
  /\ binding = [a \in Accounts |-> None] /\ file = [f \in Paths |-> None]
  /\ run = [p \in Procs |-> Idle] /\ today = 1
  /\ history = [a \in Accounts |->
                  [peak |-> 0, tripped |-> FALSE, limits |-> None, dry |-> FALSE]]

\* A process is started and takes the account's lock; where another one holds
\* it, the process ends at once.
Start(p) ==
  /\ run[p].at = "off"
  /\ \E c \in Starts :
       /\ writer[c.account] = None
       /\ writer' = [writer EXCEPT ![c.account] = p]
       /\ run' = [run EXCEPT ![p] =
            [at |-> "writer", account |-> c.account, path |-> c.path,
             strategy |-> c.strategy, limits |-> c.limits, approve |-> c.approve,
             execute |-> c.execute, store |-> Fresh]]
  /\ UNCHANGED <<guard, binding, file, today, history>>

\* Mutant: the lock beside the state file is not asked for.
GuardUnasked(p) ==
  /\ guard' = [guard EXCEPT ![run[p].path] = p]
  /\ Goto(p, "binding")

\* The lock beside the state file.
GuardTaken(p) ==
  /\ guard[run[p].path] = None
  /\ guard' = [guard EXCEPT ![run[p].path] = p]
  /\ Goto(p, "binding")

TakeGuard(p) ==
  /\ run[p].at = "writer"
  /\ \/ GuardTaken(p)
     \/ /\ guard[run[p].path] # None
        /\ Goto(p, "unguarded") /\ UNCHANGED guard
  /\ UNCHANGED <<writer, binding, file, today, history>>

\* Mutant: a bound state that is missing is made anew.
BoundAnyway(p) == binding[run[p].account] = run[p].path

Bound(p) == binding[run[p].account] = run[p].path /\ file[run[p].path] # None

\* An account without a binding gets one, first as an empty file; one that is
\* bound to this file finds its state there, or the session is refused.
CheckBinding(p) ==
  /\ run[p].at = "binding"
  /\ \/ /\ binding[run[p].account] = None
        /\ binding' = [binding EXCEPT ![run[p].account] = Torn]
        /\ Goto(p, "bind") /\ UNCHANGED <<file, history>>
     \/ /\ Bound(p)
        /\ Goto(p, "active") /\ UNCHANGED <<binding, file, history>>
     \/ /\ binding[run[p].account] # None /\ ~Bound(p)
        /\ Leaves(p)
  /\ UNCHANGED <<Locks, today>>

WriteBinding(p) ==
  /\ run[p].at = "bind"
  /\ binding' = [binding EXCEPT ![run[p].account] = run[p].path]
  /\ Goto(p, "bootstrap")
  /\ UNCHANGED <<Locks, file, today, history>>

Bootstrap(p) ==
  /\ run[p].at = "bootstrap"
  /\ file' = [file EXCEPT ![run[p].path] = IF @ = None THEN Fresh ELSE @]
  /\ Goto(p, "active")
  /\ UNCHANGED <<Locks, binding, today, history>>

\* run_locked loads the state.  A mainnet execution without one is refused, and
\* so is a state of another account or strategy.
Belongs(s, p) ==
  \/ s.owner = None /\ s.strategy = None
  \/ s.owner = run[p].account /\ s.strategy = run[p].strategy

BindContext(p) ==
  LET s == IF file[run[p].path] = None THEN Fresh ELSE file[run[p].path]
      existed == file[run[p].path] # None
      refused == \/ run[p].execute /\ run[p].account \in Mainnet /\ ~existed
                 \/ ~Belongs(s, p)
  IN  /\ run[p].at = "active"
      /\ \/ /\ ~refused
            /\ Keep([s EXCEPT !.owner = run[p].account, !.strategy = run[p].strategy],
                    p, "limits")
            /\ UNCHANGED <<binding, history>>
         \/ refused /\ Leaves(p)
      /\ UNCHANGED <<Locks, today>>

\* Mutant: an increase needs no approval.
LimitsGranted(p) == TRUE

LimitsAllowed(p) ==
  run[p].store.limits # None /\ Looser(run[p].limits, run[p].store.limits)
    => run[p].approve

BindLimits(p) ==
  /\ run[p].at = "limits"
  /\ \/ /\ LimitsAllowed(p)
        /\ Keep([run[p].store EXCEPT !.limits = run[p].limits], p, "equity")
        /\ history' = [history EXCEPT ![run[p].account].limits = run[p].limits]
        /\ UNCHANGED binding
     \/ ~LimitsAllowed(p) /\ Leaves(p)
  /\ UNCHANGED <<Locks, today>>

\* What an onlooker who saw the history h remembers after the run r observed
\* the equity.
Remembered(h, r, equity) ==
  [h EXCEPT !.peak = IF equity > @ THEN equity ELSE @,
            !.tripped = @ \/ Lost(h.peak, equity, r.limits.drawdown),
            !.dry = @ \/ ~r.execute]

\* A tripped breaker leaves only reductions to the run.
ObserveEquity(p) ==
  /\ run[p].at = "equity"
  /\ \E equity \in Equities :
       LET s == Observed(run[p].store, equity)
       IN  /\ Keep(s, p, IF s.locked THEN "reducing" ELSE "trading")
           /\ history' = [history EXCEPT ![run[p].account] =
                            Remembered(@, run[p], equity)]
  /\ UNCHANGED <<Locks, binding, today>>

\* The run ends, or raises wherever it is.
Leave(p) ==
  /\ run[p].at \notin {"off", "writer", "leaving", "unguarded"}
  /\ Leaves(p) /\ UNCHANGED <<Locks, today>>

ReleaseGuard(p) ==
  /\ run[p].at = "leaving"
  /\ guard' = [guard EXCEPT ![run[p].path] = None]
  /\ Goto(p, "unguarded")
  /\ UNCHANGED <<writer, binding, file, today, history>>

ReleaseWriter(p) ==
  /\ run[p].at = "unguarded"
  /\ writer' = [writer EXCEPT ![run[p].account] = None]
  /\ run' = [run EXCEPT ![p] = Idle]
  /\ UNCHANGED <<guard, binding, file, today, history>>

\* The process dies: the kernel drops its locks.
Die(p) ==
  /\ run[p].at # "off"
  /\ writer' = [writer EXCEPT ![run[p].account] = None]
  /\ guard' = IF Guards(p) THEN [guard EXCEPT ![run[p].path] = None] ELSE guard
  /\ run' = [run EXCEPT ![p] = Idle]
  /\ UNCHANGED <<binding, file, today, history>>

\* The state file is lost between runs.
LoseState(f) ==
  /\ f \in Losable /\ guard[f] = None /\ file[f] # None
  /\ file' = [file EXCEPT ![f] = None]
  /\ UNCHANGED <<Locks, binding, run, today, history>>

Tomorrow ==
  /\ today < MaxDay /\ today' = today + 1
  /\ UNCHANGED <<Locks, binding, file, run, history>>

Step(p) ==
  \/ Start(p) \/ TakeGuard(p) \/ CheckBinding(p) \/ WriteBinding(p) \/ Bootstrap(p)
  \/ BindContext(p) \/ BindLimits(p) \/ ObserveEquity(p)
  \/ Leave(p) \/ ReleaseGuard(p) \/ ReleaseWriter(p) \/ Die(p)

Next == (\E p \in Procs : Step(p)) \/ (\E f \in Paths : LoseState(f)) \/ Tomorrow

Spec == Init /\ [][Next]_vars
-----------------------------------------------------------------------------
(* Properties                                                              *)

Histories ==
  [peak : Nat, tripped : BOOLEAN, limits : Limits \cup {None}, dry : BOOLEAN]

TypeOK ==
  /\ writer \in [Accounts -> Procs \cup {None}]
  /\ guard \in [Paths -> Procs \cup {None}]
  /\ binding \in [Accounts -> Paths \cup {None, Torn}]
  /\ file \in [Paths -> States \cup {None}]
  /\ run \in [Procs -> Runs]
  /\ today \in 1 .. MaxDay /\ history \in [Accounts -> Histories]

\* Two processes in a session share neither the account nor the state file,
\* whatever they were started with, raise or die (LiveAccountSession).
OneRunner ==
  \A p, q \in Procs :
    p # q /\ InSession(p) /\ InSession(q) =>
      run[p].account # run[q].account /\ run[p].path # run[q].path

\* The peak a run measures the drawdown from is the highest equity any run of
\* the account ever observed: no other state file, no restart, no crash and no
\* lost file gives it a fresh baseline.
BaselineKept ==
  \A p \in Procs : run[p].at \in {"trading", "reducing"} =>
    run[p].store.peak = history[run[p].account].peak

\* Once a drawdown was breached, no run of the account may buy again: not
\* the next day, not with looser limits, not under another file or strategy.
BreakerSticks ==
  \A p \in Procs : run[p].at = "trading" => ~history[run[p].account].tripped

\* The limits an account runs under are loosened only by a run that was told
\* so on its command line (bind_risk_limits).
LoosenedIfApproved ==
  \A a \in Accounts :
    /\ history[a].limits # None
    /\ Looser(history'[a].limits, history[a].limits)
    => \E p \in Procs : run[p].account = a /\ run[p].approve /\ InSession(p)

LimitsLoosenedOnlyByApproval == [][LoosenedIfApproved]_vars

\* "The first mainnet dry-run creates the risk baseline": a mainnet run that
\* executes finds the baseline of a dry run.
DryRunComesFirst ==
  \A p \in Procs :
    run[p].at = "trading" /\ run[p].execute /\ run[p].account \in Mainnet =>
      history[run[p].account].dry
=============================================================================
