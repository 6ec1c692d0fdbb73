-------------------------- MODULE LiveSessionProofs --------------------------
(***************************************************************************)
(* Proofs about LiveSession, for any processes, accounts, files and starts:*)
(* two runs never share an account or a state file; and, where a state     *)
(* file that may be lost is meant for one account, no run gets a fresh     *)
(* baseline, a tripped breaker stays tripped, and limits are loosened by   *)
(* approved runs only.                                                     *)
(***************************************************************************)
EXTENDS LiveSession, TLAPS

-----------------------------------------------------------------------------
(* Types and locks                                                         *)

\* A process that was started knows what it was started with, and holds the
\* locks it took.
Placed(p) ==
  run[p].at # "off" =>
    /\ run[p].account \in Accounts /\ run[p].path \in Paths
    /\ run[p].strategy \in Strategies /\ run[p].limits \in Limits

Holds(p) ==
  /\ run[p].at # "off" => writer[run[p].account] = p
  /\ Guards(p) => guard[run[p].path] = p

LockInv == TypeOK /\ \A p \in Procs : Placed(p) /\ Holds(p)

LEMMA FreshIsState == Fresh \in States
  BY DEF Fresh, States

LEMMA IdleIsRun == Idle \in Runs
  BY FreshIsState DEF Idle, Runs, Places

LEMMA ObservedIsState ==
  ASSUME today \in Nat, NEW s \in States, NEW equity \in Nat
  PROVE  Observed(s, equity) \in States
  BY DEF Observed, States

LEMMA LockInvInit == Init => LockInv
  <1> SUFFICES ASSUME Init PROVE LockInv
    OBVIOUS
  <1>1. TypeOK
    BY SessionAssumption, IdleIsRun DEF Init, TypeOK, Histories
  <1>2. ASSUME NEW p \in Procs PROVE Placed(p) /\ Holds(p)
    BY DEF Init, Idle, Placed, Holds, Guards
  <1> QED
    BY <1>1, <1>2 DEF LockInv

\* What a step that moves one process on does to the runs.
LEMMA RunMoves ==
  ASSUME run \in [Procs -> Runs], NEW p \in Procs, NEW s \in States,
         NEW at \in Places,
         run' = [run EXCEPT ![p].store = s, ![p].at = at]
  PROVE  /\ run' \in [Procs -> Runs]
         /\ run'[p] = [run[p] EXCEPT !.store = s, !.at = at]
         /\ \A q \in Procs \ {p} : run'[q] = run[q]
  <1>1. run' = [run EXCEPT ![p] = [run[p] EXCEPT !.store = s, !.at = at]]
    OBVIOUS
  <1>2. [run[p] EXCEPT !.store = s, !.at = at] \in Runs
    BY DEF Runs
  <1> QED
    BY <1>1, <1>2

LEMMA RunGoes ==
  ASSUME run \in [Procs -> Runs], NEW p \in Procs,
         NEW at \in Places,
         Goto(p, at)
  PROVE  /\ run' \in [Procs -> Runs]
         /\ run'[p] = [run[p] EXCEPT !.at = at]
         /\ \A q \in Procs \ {p} : run'[q] = run[q]
  <1>1. run' = [run EXCEPT ![p] = [run[p] EXCEPT !.at = at]]
    BY DEF Goto
  <1>2. [run[p] EXCEPT !.at = at] \in Runs
    BY DEF Runs
  <1> QED
    BY <1>1, <1>2

\* A step that keeps the locks, and only moves one process on within them,
\* keeps what the processes hold.
LEMMA WithinLocks ==
  ASSUME LockInv, NEW p \in Procs, run[p].at # "off", Guards(p), UNCHANGED Locks,
         run' \in [Procs -> Runs], run'[p].at # "off",
         run'[p].account = run[p].account, run'[p].path = run[p].path,
         run'[p].strategy = run[p].strategy, run'[p].limits = run[p].limits,
         \A q \in Procs \ {p} : run'[q] = run[q]
  PROVE  \A q \in Procs : Placed(q)' /\ Holds(q)'
  <1> SUFFICES ASSUME NEW q \in Procs PROVE Placed(q)' /\ Holds(q)'
    OBVIOUS
  <1>1. CASE q = p
    BY <1>1 DEF LockInv, Placed, Holds, Guards, Locks
  <1>2. CASE q # p
    <2>1. run'[q] = run[q] /\ Placed(q) /\ Holds(q)
      BY <1>2 DEF LockInv
    <2> QED
      BY <2>1 DEF Placed, Holds, Guards, Locks
  <1> QED
    BY <1>1, <1>2

\* A session that leaves.
LEMMA LeavesHolds ==
  ASSUME LockInv, NEW p \in Procs, run[p].at # "off", Guards(p), Leaves(p),
         UNCHANGED <<Locks, today>>
  PROVE  LockInv'
  <1>1. /\ run' \in [Procs -> Runs]
        /\ run'[p] = [run[p] EXCEPT !.store = Fresh, !.at = "leaving"]
        /\ \A q \in Procs \ {p} : run'[q] = run[q]
    <2>1. run' = [run EXCEPT ![p].store = Fresh, ![p].at = "leaving"]
      BY DEF Leaves
    <2> QED
      BY <2>1, FreshIsState, RunMoves DEF LockInv, TypeOK, Places
  <1>2. run[p] \in Runs
    BY DEF LockInv, TypeOK
  <1>3. \A q \in Procs : Placed(q)' /\ Holds(q)'
    BY <1>1, <1>2, WithinLocks DEF Runs, Locks
  <1>4. TypeOK'
    BY <1>1 DEF LockInv, TypeOK, Leaves, Locks
  <1> QED
    BY <1>3, <1>4 DEF LockInv

\* A session that keeps a new state.
LEMMA KeepHolds ==
  ASSUME LockInv, NEW p \in Procs, run[p].at # "off", Guards(p), NEW s \in States,
         NEW at \in {"limits", "equity", "trading", "reducing"}, Keep(s, p, at),
         UNCHANGED <<Locks, binding, today>>, history' \in [Accounts -> Histories]
  PROVE  LockInv'
  <1>1. /\ run' \in [Procs -> Runs]
        /\ run'[p] = [run[p] EXCEPT !.store = s, !.at = at]
        /\ \A q \in Procs \ {p} : run'[q] = run[q]
    <2>1. run' = [run EXCEPT ![p].store = s, ![p].at = at]
      BY DEF Keep
    <2> QED
      BY <2>1, RunMoves DEF LockInv, TypeOK, Places
  <1>2. run[p] \in Runs /\ Placed(p)
    BY DEF LockInv, TypeOK
  <1>3. \A q \in Procs : Placed(q)' /\ Holds(q)'
    BY <1>1, <1>2, WithinLocks DEF Runs, Locks
  <1>4. file' \in [Paths -> States \cup {None}]
    BY <1>2 DEF LockInv, TypeOK, Keep, Placed
  <1>5. TypeOK'
    BY <1>1, <1>4 DEF LockInv, TypeOK, Locks
  <1> QED
    BY <1>3, <1>5 DEF LockInv

\* A session that goes on.
LEMMA GoesHolds ==
  ASSUME LockInv, NEW p \in Procs, run[p].at # "off", Guards(p),
         NEW at \in {"binding", "bind", "bootstrap", "active"}, Goto(p, at),
         UNCHANGED <<Locks, today, history>>,
         binding' \in [Accounts -> Paths \cup {None, Torn}],
         file' \in [Paths -> States \cup {None}]
  PROVE  LockInv'
  <1>1. /\ run' \in [Procs -> Runs]
        /\ run'[p] = [run[p] EXCEPT !.at = at]
        /\ \A q \in Procs \ {p} : run'[q] = run[q]
    <2>1. at \in Places
      BY DEF Places
    <2> QED
      BY <2>1, RunGoes DEF LockInv, TypeOK
  <1>2. run[p] \in Runs
    BY DEF LockInv, TypeOK
  <1>3. \A q \in Procs : Placed(q)' /\ Holds(q)'
    BY <1>1, <1>2, WithinLocks DEF Runs, Locks
  <1>4. TypeOK'
    BY <1>1 DEF LockInv, TypeOK, Locks
  <1> QED
    BY <1>3, <1>4 DEF LockInv

LEMMA StartHolds ==
  ASSUME LockInv, NEW p \in Procs, Start(p) PROVE LockInv'
  <1>1. PICK c \in Starts :
          /\ writer[c.account] = None
          /\ writer' = [writer EXCEPT ![c.account] = p]
          /\ run' = [run EXCEPT ![p] =
               [at |-> "writer", account |-> c.account, path |-> c.path,
                strategy |-> c.strategy, limits |-> c.limits, approve |-> c.approve,
                execute |-> c.execute, store |-> Fresh]]
    BY DEF Start
  <1>2. c \in [account : Accounts, path : Paths, strategy : Strategies,
               limits : Limits, approve : BOOLEAN, execute : BOOLEAN]
    BY <1>1, SessionAssumption
  <1>3. TypeOK'
    <2>1. [at |-> "writer", account |-> c.account, path |-> c.path,
           strategy |-> c.strategy, limits |-> c.limits, approve |-> c.approve,
           execute |-> c.execute, store |-> Fresh] \in Runs
      BY <1>2, FreshIsState DEF Runs, Places
    <2> QED
      BY <1>1, <1>2, <2>1 DEF LockInv, TypeOK, Start
  <1>4. ASSUME NEW q \in Procs PROVE Placed(q)' /\ Holds(q)'
    <2>0. Placed(q) /\ Holds(q) /\ run \in [Procs -> Runs]
      BY DEF LockInv, TypeOK
    <2>1. CASE q = p
      BY <1>1, <1>2, <2>0, <2>1 DEF LockInv, TypeOK, Placed, Holds, Guards
    <2>2. CASE q # p
      <3>1. run'[q] = run[q] /\ guard' = guard
        BY <1>1, <2>0, <2>2 DEF Start
      <3>2. run[q].at # "off" => run[q].account # c.account
        BY <1>1, <2>0, SessionAssumption DEF Holds
      <3> QED
        BY <1>1, <2>0, <3>1, <3>2 DEF LockInv, TypeOK, Placed, Holds, Guards
    <2> QED
      BY <2>1, <2>2
  <1> QED
    BY <1>3, <1>4 DEF LockInv

LEMMA TakeGuardHolds ==
  ASSUME LockInv, NEW p \in Procs, TakeGuard(p) PROVE LockInv'
  <1>0. run[p] \in Runs /\ Placed(p) /\ Holds(p) /\ run[p].path \in Paths
    BY DEF LockInv, TypeOK, TakeGuard, Placed
  <1>1. PICK at \in {"binding", "unguarded"} :
          /\ Goto(p, at)
          /\ at = "unguarded" => guard' = guard
          /\ at = "binding" => guard[run[p].path] = None
                               /\ guard' = [guard EXCEPT ![run[p].path] = p]
    BY DEF TakeGuard, GuardTaken
  <1>2. /\ run' \in [Procs -> Runs]
        /\ run'[p] = [run[p] EXCEPT !.at = at]
        /\ \A q \in Procs \ {p} : run'[q] = run[q]
    BY <1>1, RunGoes DEF LockInv, TypeOK, Places
  <1>3. TypeOK'
    BY <1>0, <1>1, <1>2 DEF LockInv, TypeOK, TakeGuard
  <1>4. ASSUME NEW q \in Procs PROVE Placed(q)' /\ Holds(q)'
    <2>1. CASE q = p
      BY <1>0, <1>1, <1>2, <2>1 DEF TakeGuard, LockInv, TypeOK, Placed, Holds, Guards, Runs
    <2>2. CASE q # p
      <3>1. run'[q] = run[q] /\ Placed(q) /\ Holds(q) /\ writer' = writer
        BY <1>2, <2>2 DEF LockInv, TakeGuard
      <3>2. Guards(q) => guard'[run[q].path] = guard[run[q].path]
        <4>1. guard \in [Paths -> Procs \cup {None}]
          BY DEF LockInv, TypeOK
        <4>2. Guards(q) => guard[run[q].path] = q /\ run[q].path \in Paths /\ q # None
          BY <3>1, SessionAssumption DEF Holds, Placed, Guards
        <4> QED
          BY <1>0, <1>1, <4>1, <4>2
      <3> QED
        BY <3>1, <3>2 DEF Placed, Holds, Guards
    <2> QED
      BY <2>1, <2>2
  <1> QED
    BY <1>3, <1>4 DEF LockInv

\* A process that is gone, with what it still held dropped.
LEMMA GoneHolds ==
  ASSUME LockInv, NEW p \in Procs, run[p].at # "off",
         writer' = [writer EXCEPT ![run[p].account] = None],
         guard' = IF Guards(p) THEN [guard EXCEPT ![run[p].path] = None] ELSE guard,
         run' = [run EXCEPT ![p] = Idle],
         UNCHANGED <<binding, file, today, history>>
  PROVE  LockInv'
  <1>0. run[p] \in Runs /\ Placed(p) /\ Holds(p) /\ run \in [Procs -> Runs]
    BY DEF LockInv, TypeOK
  <1>1. run[p].account \in Accounts /\ run[p].path \in Paths
    BY <1>0 DEF Placed
  <1>2. /\ run' \in [Procs -> Runs] /\ run'[p] = Idle
        /\ \A q \in Procs \ {p} : run'[q] = run[q]
    BY <1>0, IdleIsRun
  <1>3. TypeOK'
    BY <1>1, <1>2 DEF LockInv, TypeOK
  <1>4. ASSUME NEW q \in Procs PROVE Placed(q)' /\ Holds(q)'
    <2>1. CASE q = p
      BY <1>2, <2>1 DEF Placed, Holds, Guards, Idle
    <2>2. CASE q # p
      <3>1. run'[q] = run[q] /\ Placed(q) /\ Holds(q)
        BY <1>2, <2>2 DEF LockInv
      <3>2. /\ writer \in [Accounts -> Procs \cup {None}]
            /\ guard \in [Paths -> Procs \cup {None}]
        BY DEF LockInv, TypeOK
      <3>3. run[q].at # "off" => writer'[run[q].account] = q
        BY <1>0, <1>1, <2>2, <3>1, <3>2 DEF Holds, Placed
      <3>4. Guards(q) => guard'[run[q].path] = q
        BY <1>0, <1>1, <2>2, <3>1, <3>2 DEF Holds, Placed, Guards
      <3> QED
        BY <3>1, <3>3, <3>4 DEF Placed, Holds, Guards
    <2> QED
      BY <2>1, <2>2
  <1> QED
    BY <1>3, <1>4 DEF LockInv

LEMMA ReleaseGuardHolds ==
  ASSUME LockInv, NEW p \in Procs, ReleaseGuard(p) PROVE LockInv'
  <1>0. run[p] \in Runs /\ Placed(p) /\ Holds(p) /\ Guards(p) /\ run \in [Procs -> Runs]
    BY DEF LockInv, TypeOK, ReleaseGuard, Guards
  <1>1. run[p].account \in Accounts /\ run[p].path \in Paths
    BY <1>0 DEF Placed, Guards
  <1>2. /\ run' \in [Procs -> Runs] /\ run'[p] = [run[p] EXCEPT !.at = "unguarded"]
        /\ \A q \in Procs \ {p} : run'[q] = run[q]
    BY <1>0, RunGoes DEF ReleaseGuard, Places
  <1>3. TypeOK'
    BY <1>1, <1>2 DEF LockInv, TypeOK, ReleaseGuard
  <1>4. ASSUME NEW q \in Procs PROVE Placed(q)' /\ Holds(q)'
    <2>1. CASE q = p
      BY <1>0, <1>2, <2>1 DEF ReleaseGuard, Placed, Holds, Guards, Runs
    <2>2. CASE q # p
      <3>1. run'[q] = run[q] /\ Placed(q) /\ Holds(q) /\ writer' = writer
        BY <1>2, <2>2 DEF LockInv, ReleaseGuard
      <3>2. /\ guard \in [Paths -> Procs \cup {None}]
            /\ guard' = [guard EXCEPT ![run[p].path] = None]
        BY DEF LockInv, TypeOK, ReleaseGuard
      <3>4. Guards(q) => guard'[run[q].path] = q
        BY <1>0, <1>1, <2>2, <3>1, <3>2 DEF Holds, Placed, Guards
      <3> QED
        BY <3>1, <3>4 DEF Placed, Holds, Guards
    <2> QED
      BY <2>1, <2>2
  <1> QED
    BY <1>3, <1>4 DEF LockInv

\* Every step keeps the types and the locks: one step of the proof for each
\* disjunct of Next.
LEMMA LockInvNext == LockInv /\ [Next]_vars => LockInv'
  <1> SUFFICES ASSUME LockInv, [Next]_vars PROVE LockInv'
    OBVIOUS
  <1>1. ASSUME NEW p \in Procs, Step(p) PROVE LockInv'
    <2>0. /\ run[p] \in Runs /\ Placed(p) /\ file \in [Paths -> States \cup {None}]
          /\ binding \in [Accounts -> Paths \cup {None, Torn}]
          /\ history \in [Accounts -> Histories]
      BY DEF LockInv, TypeOK
    <2>1. CASE Start(p)
      BY <2>1, StartHolds
    <2>2. CASE TakeGuard(p)
      BY <2>2, TakeGuardHolds
    <2>3. CASE CheckBinding(p)
      <3>1. run[p].at # "off" /\ Guards(p) /\ UNCHANGED <<Locks, today>>
        BY <2>3 DEF CheckBinding, Guards
      <3>2. CASE Leaves(p)
        BY <3>1, <3>2, LeavesHolds
      <3>3. CASE ~Leaves(p)
        <4>1. \E at \in {"bind", "active"} : Goto(p, at)
          BY <2>3, <3>3 DEF CheckBinding
        <4>2. UNCHANGED <<history, file>>
          BY <2>3, <3>3 DEF CheckBinding
        <4>3. binding' \in [Accounts -> Paths \cup {None, Torn}]
          BY <2>0, <2>3, <3>3 DEF CheckBinding
        <4> QED
          BY <2>0, <3>1, <4>1, <4>2, <4>3, GoesHolds
      <3> QED
        BY <3>2, <3>3
    <2>4. CASE WriteBinding(p)
      <3>1. run[p].at # "off" /\ Guards(p) /\ run[p].path \in Paths
        BY <2>0, <2>4 DEF WriteBinding, Guards, Placed
      <3>2. binding' \in [Accounts -> Paths \cup {None, Torn}]
        BY <2>0, <2>4, <3>1 DEF WriteBinding
      <3> QED
        BY <2>0, <2>4, <3>1, <3>2, GoesHolds DEF WriteBinding
    <2>5. CASE Bootstrap(p)
      <3>1. run[p].at # "off" /\ Guards(p)
        BY <2>5 DEF Bootstrap, Guards
      <3>2. file' \in [Paths -> States \cup {None}]
        BY <2>0, <2>5, FreshIsState DEF Bootstrap
      <3> QED
        BY <2>0, <2>5, <3>1, <3>2, GoesHolds DEF Bootstrap
    <2>6. CASE BindContext(p)
      <3>1. run[p].at # "off" /\ Guards(p) /\ UNCHANGED <<Locks, today>>
        BY <2>6 DEF BindContext, Guards
      <3>2. CASE Leaves(p)
        BY <3>1, <3>2, LeavesHolds
      <3>3. CASE ~Leaves(p)
        <4> DEFINE s == IF file[run[p].path] = None THEN Fresh ELSE file[run[p].path]
                   t == [s EXCEPT !.owner = run[p].account, !.strategy = run[p].strategy]
        <4>1. Keep(t, p, "limits") /\ UNCHANGED <<binding, history>>
          BY <2>6, <3>3 DEF BindContext
        <4>2. s \in States
          BY <2>0, <3>1, FreshIsState DEF Placed
        <4>3. t \in States
          BY <2>0, <3>1, <4>2 DEF Placed, States
        <4> HIDE DEF t
        <4> QED
          BY <2>0, <3>1, <4>1, <4>3, KeepHolds
      <3> QED
        BY <3>2, <3>3
    <2>7. CASE BindLimits(p)
      <3>1. run[p].at # "off" /\ Guards(p) /\ UNCHANGED <<Locks, today>>
        BY <2>7 DEF BindLimits, Guards
      <3>2. CASE Leaves(p)
        BY <3>1, <3>2, LeavesHolds
      <3>3. CASE ~Leaves(p)
        <4> DEFINE t == [run[p].store EXCEPT !.limits = run[p].limits]
        <4>1. /\ Keep(t, p, "equity") /\ UNCHANGED binding
              /\ history' = [history EXCEPT ![run[p].account].limits = run[p].limits]
          BY <2>7, <3>3 DEF BindLimits
        <4>2. t \in States
          BY <2>0, <3>1 DEF Placed, Runs, States
        <4>3. history' \in [Accounts -> Histories]
          BY <2>0, <3>1, <4>1 DEF Placed, Histories
        <4> HIDE DEF t
        <4> QED
          BY <2>0, <3>1, <4>1, <4>2, <4>3, KeepHolds
      <3> QED
        BY <3>2, <3>3
    <2>8. CASE ObserveEquity(p)
      <3>1. run[p].at # "off" /\ Guards(p) /\ UNCHANGED <<Locks, binding, today>>
        BY <2>8 DEF ObserveEquity, Guards
      <3>2. PICK equity \in Equities :
              LET s == Observed(run[p].store, equity)
              IN  /\ Keep(s, p, IF s.locked THEN "reducing" ELSE "trading")
                  /\ history' = [history EXCEPT ![run[p].account] =
                                   Remembered(@, run[p], equity)]
        BY <2>8 DEF ObserveEquity
      <3>3. equity \in Nat /\ today \in Nat
        BY SessionAssumption DEF LockInv, TypeOK
      <3>4. Observed(run[p].store, equity) \in States
        BY <2>0, <3>3, ObservedIsState DEF Runs
      <3>5. history' \in [Accounts -> Histories]
        <4>1. run[p].account \in Accounts /\ history[run[p].account] \in Histories
          BY <2>0, <3>1 DEF Placed
        <4>2. Remembered(history[run[p].account], run[p], equity) \in Histories
          BY <3>3, <4>1 DEF Remembered, Histories, Lost
        <4> QED
          BY <2>0, <3>2, <4>1, <4>2
      <3>6. PICK at \in {"trading", "reducing"} : Keep(Observed(run[p].store, equity), p, at)
        BY <3>2
      <3> QED
        BY <3>1, <3>4, <3>5, <3>6, KeepHolds
    <2>9. CASE Leave(p)
      BY <2>9, LeavesHolds DEF Leave, Guards
    <2>10. CASE ReleaseGuard(p)
      BY <2>10, ReleaseGuardHolds
    <2>11. CASE ReleaseWriter(p)
      BY <2>11, GoneHolds DEF ReleaseWriter, Guards
    <2>12. CASE Die(p)
      BY <2>12, GoneHolds DEF Die
    <2> QED
      BY <1>1, <2>1, <2>2, <2>3, <2>4, <2>5, <2>6, <2>7, <2>8, <2>9, <2>10, <2>11, <2>12
      DEF Step
  <1>2. ASSUME UNCHANGED <<writer, guard, run, binding, history>>,
               today' \in 1 .. MaxDay, file' \in [Paths -> States \cup {None}]
        PROVE  LockInv'
    BY <1>2 DEF LockInv, TypeOK, Placed, Holds, Guards
  <1>3. ASSUME NEW f \in Paths, LoseState(f) PROVE LockInv'
    BY <1>2, <1>3 DEF LoseState, Locks, LockInv, TypeOK
  <1>4. CASE Tomorrow
    BY <1>2, <1>4, SessionAssumption DEF Tomorrow, Locks, LockInv, TypeOK
  <1>5. CASE UNCHANGED vars
    BY <1>2, <1>5 DEF vars, LockInv, TypeOK
  <1> QED
    BY <1>1, <1>3, <1>4, <1>5 DEF Next

THEOREM LockInvariant == Spec => []LockInv
  BY LockInvInit, LockInvNext, PTL DEF Spec

\* The state has the shape TypeOK gives it.
THEOREM SessionTypeCorrect == Spec => []TypeOK
  <1>1. LockInv => TypeOK
    BY DEF LockInv
  <1> QED
    BY <1>1, LockInvariant, PTL

\* Two processes in a session share neither the account nor the state file.
THEOREM OneRunnerAlways == Spec => []OneRunner
  <1>1. LockInv => OneRunner
    <2> SUFFICES ASSUME LockInv, NEW p \in Procs, NEW q \in Procs, p # q,
                        InSession(p), InSession(q)
                 PROVE  run[p].account # run[q].account /\ run[p].path # run[q].path
      BY DEF OneRunner
    <2>1. Holds(p) /\ Holds(q) /\ Guards(p) /\ Guards(q)
      BY DEF LockInv, InSession, Guards
    <2> QED
      BY <2>1 DEF Holds, InSession
  <1> QED
    BY <1>1, LockInvariant, PTL

-----------------------------------------------------------------------------
(* The baseline                                                            *)

Opened(a, f) == \E c \in Starts : c.account = a /\ c.path = f

\* Some run of the account bound its limits or observed an equity.
Used(a) == history[a].peak # 0 \/ history[a].tripped \/ history[a].limits # None

\* A file holds nothing yet, or what its owner's runs observed, and its owner is
\* bound to it.
FileInv(f) ==
  file[f] # None =>
    IF file[f].owner = None
    THEN file[f].peak = 0 /\ ~file[f].locked /\ file[f].limits = None
    ELSE LET h == history[file[f].owner]
         IN  /\ binding[file[f].owner] = f
             /\ file[f].peak = h.peak /\ file[f].limits = h.limits
             /\ h.tripped => file[f].locked

\* An account that has a history finds it in the file it is bound to, unless
\* that file was lost.
AccountInv(a) ==
  /\ binding[a] \in Paths => Opened(a, binding[a])
  /\ Used(a) =>
       /\ binding[a] \in Paths
       /\ IF file[binding[a]] = None THEN binding[a] \in Losable
          ELSE file[binding[a]].owner = a

Owning(p) == run[p].at \in {"limits", "equity", "trading", "reducing"}

\* What a session knows of the files.
RunInv(p) ==
  /\ run[p].at # "off" => Opened(run[p].account, run[p].path)
  /\ run[p].at = "bind" => binding[run[p].account] = Torn
  /\ run[p].at = "bootstrap" =>
       binding[run[p].account] = run[p].path /\ ~Used(run[p].account)
  /\ InSession(p) =>
       binding[run[p].account] = run[p].path /\ file[run[p].path] # None
  /\ Owning(p) =>
       run[p].store = file[run[p].path] /\ run[p].store.owner = run[p].account
  /\ Owning(p) /\ run[p].at # "limits" => run[p].store.limits = run[p].limits
  /\ run[p].at = "trading" => ~run[p].store.locked

SessionInv ==
  /\ LockInv
  /\ \A f \in Paths : FileInv(f)
  /\ \A a \in Accounts : AccountInv(a)
  /\ \A p \in Procs : RunInv(p)

LEMMA SessionInvInit == Init => SessionInv
  <1> SUFFICES ASSUME Init PROVE SessionInv
    OBVIOUS
  <1>1. \A f \in Paths : FileInv(f)
    BY DEF Init, FileInv
  <1>2. \A a \in Accounts : AccountInv(a)
    BY SessionAssumption DEF Init, AccountInv, Used
  <1>3. \A p \in Procs : RunInv(p)
    BY DEF Init, Idle, RunInv, InSession, Owning
  <1> QED
    BY <1>1, <1>2, <1>3, LockInvInit DEF SessionInv

\* A step that leaves bindings, files and histories alone needs to be looked at
\* for the process that moves only.
LEMMA NothingKept ==
  ASSUME SessionInv, NEW p \in Procs, UNCHANGED <<binding, file, history>>,
         \A q \in Procs \ {p} : run'[q] = run[q], RunInv(p)', LockInv'
  PROVE  SessionInv'
  <1>1. ASSUME NEW f \in Paths PROVE FileInv(f)'
    BY DEF SessionInv, FileInv
  <1>2. ASSUME NEW a \in Accounts PROVE AccountInv(a)'
    BY DEF SessionInv, AccountInv, Used
  <1>3. ASSUME NEW q \in Procs PROVE RunInv(q)'
    <2>1. CASE q # p
      <3>1. RunInv(q) /\ run'[q] = run[q]
        BY <2>1 DEF SessionInv
      <3> QED
        BY <3>1 DEF RunInv, Used, InSession, Owning
    <2> QED
      BY <2>1
  <1> QED
    BY <1>1, <1>2, <1>3 DEF SessionInv

LEMMA LeavesKeeps ==
  ASSUME SessionInv, NEW p \in Procs, run[p].at # "off", Leaves(p), LockInv'
  PROVE  SessionInv'
  <1>1. /\ run'[p] = [run[p] EXCEPT !.store = Fresh, !.at = "leaving"]
        /\ \A q \in Procs \ {p} : run'[q] = run[q]
    <2>1. run' = [run EXCEPT ![p].store = Fresh, ![p].at = "leaving"]
      BY DEF Leaves
    <2> QED
      BY <2>1, FreshIsState, RunMoves DEF SessionInv, LockInv, TypeOK, Places
  <1>2. run[p] \in Runs /\ RunInv(p)
    BY DEF SessionInv, LockInv, TypeOK
  <1>3. RunInv(p)'
    BY <1>1, <1>2 DEF Runs, RunInv, InSession, Owning
  <1> QED
    BY <1>1, <1>3, NothingKept DEF Leaves

\* A session that keeps a new state in its file, and what its account's runs
\* observed with it.
LEMMA KeepKeeps ==
  ASSUME SessionInv, NEW p \in Procs, InSession(p), NEW s \in States,
         NEW at \in {"limits", "equity", "trading", "reducing"}, Keep(s, p, at),
         NEW h \in Histories, history' = [history EXCEPT ![run[p].account] = h],
         UNCHANGED binding, LockInv',
         file[run[p].path].owner \in {None, run[p].account},
         s.owner = run[p].account, s.peak = h.peak, s.limits = h.limits,
         h.tripped => s.locked,
         at # "limits" => s.limits = run[p].limits, at = "trading" => ~s.locked
  PROVE  SessionInv'
  <1> DEFINE a == run[p].account
             f == run[p].path
  <1>0. /\ run \in [Procs -> Runs] /\ file \in [Paths -> States \cup {None}]
        /\ history \in [Accounts -> Histories] /\ a \in Accounts /\ f \in Paths
    BY DEF SessionInv, LockInv, TypeOK, Placed, InSession
  <1>1. /\ run'[p] = [run[p] EXCEPT !.store = s, !.at = at]
        /\ \A q \in Procs \ {p} : run'[q] = run[q]
    <2>1. run' = [run EXCEPT ![p].store = s, ![p].at = at]
      BY DEF Keep
    <2> QED
      BY <2>1, <1>0, RunMoves DEF Places
  <1>2. /\ file'[f] = s /\ \A g \in Paths \ {f} : file'[g] = file[g]
        /\ history'[a] = h /\ \A b \in Accounts \ {a} : history'[b] = history[b]
    BY <1>0 DEF Keep
  <1>3. binding' = binding /\ binding[a] = f /\ file[f] # None /\ a # None /\ s # None
    BY <1>0, SessionAssumption, NoneIsNoState DEF SessionInv, RunInv
  <1>4. ASSUME NEW g \in Paths PROVE FileInv(g)'
    <2>1. CASE g = f
      BY <1>0, <1>2, <1>3, <2>1 DEF FileInv
    <2>2. CASE g # f
      <3>1. FileInv(g) /\ file'[g] = file[g]
        BY <1>2, <2>2 DEF SessionInv
      <3>2. CASE file[g] # None /\ file[g].owner # None
        <4>1. binding[file[g].owner] = g /\ file[g].owner \in Accounts
          BY <1>0, <3>1, <3>2 DEF FileInv, States
        <4> QED
          BY <1>2, <1>3, <2>2, <3>1, <3>2, <4>1 DEF FileInv
      <3> QED
        BY <1>3, <3>1, <3>2 DEF FileInv
    <2> QED
      BY <2>1, <2>2
  <1>5. ASSUME NEW b \in Accounts PROVE AccountInv(b)'
    <2>0. AccountInv(b)
      BY DEF SessionInv
    <2>1. CASE b = a
      BY <1>0, <1>2, <1>3, <2>0, <2>1 DEF AccountInv
    <2>2. CASE b # a
      <3>1. Used(b)' => Used(b)
        BY <1>2, <2>2 DEF Used
      <3>2. Used(b) => binding[b] # f
        BY <1>3, <2>0, <2>2, SessionAssumption DEF AccountInv
      <3> QED
        BY <1>2, <1>3, <2>0, <3>1, <3>2 DEF AccountInv
    <2> QED
      BY <2>1, <2>2
  <1>6. ASSUME NEW q \in Procs PROVE RunInv(q)'
    <2>1. CASE q = p
      <3>1. RunInv(p) /\ run[p] \in Runs
        BY <1>0 DEF SessionInv
      <3>2. /\ run'[p].at = at /\ run'[p].store = s /\ run'[p].account = a
            /\ run'[p].path = f /\ run'[p].limits = run[p].limits
        BY <1>1, <3>1 DEF Runs
      <3>3. Opened(a, f)
        BY <3>1 DEF RunInv, InSession
      <3> QED
        BY <1>2, <1>3, <2>1, <3>2, <3>3 DEF RunInv, InSession, Owning
    <2>2. CASE q # p
      <3>1. RunInv(q) /\ run'[q] = run[q] /\ Holds(p) /\ Holds(q) /\ Placed(q)
        BY <1>1, <2>2 DEF SessionInv, LockInv
      <3>2. /\ run[q].at # "off" => run[q].account # a /\ run[q].account \in Accounts
            /\ Guards(q) => run[q].path # f /\ run[q].path \in Paths
        BY <2>2, <3>1 DEF Holds, InSession, Guards, Placed
      <3>3. run[q].at # "off" => (Used(run[q].account)' <=> Used(run[q].account))
        BY <1>2, <3>1, <3>2 DEF Used
      <3>4. Guards(q) => file'[run[q].path] = file[run[q].path]
        BY <1>2, <3>2
      <3> QED
        BY <1>3, <3>1, <3>3, <3>4 DEF RunInv, InSession, Owning, Guards
    <2> QED
      BY <2>1, <2>2
  <1> QED
    BY <1>4, <1>5, <1>6 DEF SessionInv

\* A session that binds an account no file was bound to yet.
LEMMA BindingKeeps ==
  ASSUME SessionInv, NEW p \in Procs, run[p].at # "off", LockInv',
         NEW at \in {"bind", "bootstrap"}, Goto(p, at), UNCHANGED <<file, history>>,
         binding[run[p].account] \notin Paths,
         binding' = [binding EXCEPT ![run[p].account] =
                       IF at = "bind" THEN Torn ELSE run[p].path]
  PROVE  SessionInv'
  <1> DEFINE a == run[p].account
  <1>0. /\ run \in [Procs -> Runs] /\ binding \in [Accounts -> Paths \cup {None, Torn}]
        /\ a \in Accounts /\ run[p].path \in Paths /\ Opened(a, run[p].path)
        /\ file \in [Paths -> States \cup {None}]
    BY DEF SessionInv, LockInv, TypeOK, Placed, RunInv
  <1>1. /\ run'[p] = [run[p] EXCEPT !.at = at]
        /\ \A q \in Procs \ {p} : run'[q] = run[q]
    <2>1. at \in Places
      BY DEF Places
    <2> QED
      BY <1>0, <2>1, RunGoes
  <1>2. /\ binding'[a] = IF at = "bind" THEN Torn ELSE run[p].path
        /\ \A b \in Accounts \ {a} : binding'[b] = binding[b]
        /\ file' = file /\ history' = history /\ ~Used(a)
    BY <1>0 DEF SessionInv, AccountInv
  <1>3. ASSUME NEW g \in Paths PROVE FileInv(g)'
    <2>1. FileInv(g)
      BY DEF SessionInv
    <2>2. CASE file[g] # None /\ file[g].owner # None
      <3>1. file[g].owner \in Accounts /\ file[g].owner # a
        BY <1>0, <2>1, <2>2 DEF FileInv, States
      <3> QED
        BY <1>2, <2>1, <2>2, <3>1 DEF FileInv
    <2> QED
      BY <1>2, <2>1, <2>2 DEF FileInv
  <1>4. ASSUME NEW b \in Accounts PROVE AccountInv(b)'
    <2>1. AccountInv(b) /\ (Used(b)' <=> Used(b))
      BY <1>2 DEF SessionInv, Used
    <2> QED
      BY <1>0, <1>2, <2>1, SessionAssumption DEF AccountInv
  <1>5. ASSUME NEW q \in Procs PROVE RunInv(q)'
    <2>1. CASE q = p
      <3>1. /\ run'[p].at = at /\ run'[p].account = a /\ run'[p].path = run[p].path
        BY <1>0, <1>1 DEF Runs
      <3>2. ~Used(run[p].account)'
        BY <1>2, <3>1 DEF Used
      <3> QED
        BY <1>0, <1>2, <2>1, <3>1, <3>2 DEF RunInv, InSession, Owning, Used
    <2>2. CASE q # p
      <3>1. RunInv(q) /\ run'[q] = run[q] /\ Holds(p) /\ Holds(q) /\ Placed(q)
        BY <1>1, <2>2 DEF SessionInv, LockInv
      <3>2. run[q].at # "off" => run[q].account # a /\ run[q].account \in Accounts
        BY <2>2, <3>1 DEF Holds, Placed
      <3>3. Used(run[q].account)' <=> Used(run[q].account)
        BY <1>2, <3>1 DEF Used
      <3> QED
        BY <1>2, <3>1, <3>2, <3>3 DEF RunInv, InSession, Owning
    <2> QED
      BY <2>1, <2>2
  <1> QED
    BY <1>3, <1>4, <1>5 DEF SessionInv

LEMMA BootstrapKeeps ==
  ASSUME OwnFiles, SessionInv, NEW p \in Procs, Bootstrap(p), LockInv' PROVE SessionInv'
  <1> DEFINE a == run[p].account
             f == run[p].path
  <1>0. /\ run \in [Procs -> Runs] /\ file \in [Paths -> States \cup {None}]
        /\ a \in Accounts /\ f \in Paths /\ Opened(a, f) /\ binding[a] = f /\ ~Used(a)
    BY DEF SessionInv, LockInv, TypeOK, Placed, RunInv, Bootstrap
  <1>1. /\ run'[p] = [run[p] EXCEPT !.at = "active"]
        /\ \A q \in Procs \ {p} : run'[q] = run[q]
    BY <1>0, RunGoes DEF Bootstrap, Places
  <1>2. /\ file'[f] = IF file[f] = None THEN Fresh ELSE file[f]
        /\ \A g \in Paths \ {f} : file'[g] = file[g]
        /\ history' = history /\ binding' = binding /\ Fresh # None
    BY <1>0, FreshIsState, NoneIsNoState DEF Bootstrap
  <1>3. ASSUME NEW g \in Paths PROVE FileInv(g)'
    <2>1. FileInv(g)
      BY DEF SessionInv
    <2>2. CASE g = f /\ file[f] = None
      <3>1. file'[g] = Fresh
        BY <1>2, <2>2
      <3> QED
        BY <3>1 DEF FileInv, Fresh
    <2>3. CASE g # f \/ file[f] # None
      <3>1. file'[g] = file[g]
        BY <1>2, <2>3
      <3> QED
        BY <1>2, <2>1, <3>1 DEF FileInv
    <2> QED
      BY <2>2, <2>3
  <1>4. ASSUME NEW b \in Accounts PROVE AccountInv(b)'
    <2>1. AccountInv(b) /\ (Used(b)' <=> Used(b))
      BY <1>2 DEF SessionInv, Used
    <2>2. ASSUME Used(b), binding[b] = f, file[f] = None PROVE FALSE
      <3>1. f \in Losable /\ Opened(b, f) /\ Opened(a, f)
        BY <1>0, <2>1, <2>2 DEF AccountInv
      <3>2. a = b
        BY <3>1 DEF OwnFiles, Opened
      <3> QED
        BY <1>0, <2>2, <3>2
    <2>3. Used(b) => file'[binding[b]] = file[binding[b]]
      BY <1>0, <1>2, <2>1, <2>2 DEF AccountInv
    <2> QED
      BY <1>2, <2>1, <2>3 DEF AccountInv
  <1>5. ASSUME NEW q \in Procs PROVE RunInv(q)'
    <2>1. CASE q = p
      <3>1. run'[p].at = "active" /\ run'[p].account = a /\ run'[p].path = f
        BY <1>0, <1>1 DEF Runs
      <3> QED
        BY <1>0, <1>2, <2>1, <3>1 DEF RunInv, InSession, Owning
    <2>2. CASE q # p
      <3>1. RunInv(q) /\ run'[q] = run[q] /\ Placed(q)
        BY <1>1, <2>2 DEF SessionInv, LockInv
      <3>2. InSession(q) => file'[run[q].path] = file[run[q].path]
        BY <1>2, <3>1 DEF RunInv, Placed, InSession
      <3>3. Used(run[q].account)' <=> Used(run[q].account)
        BY <1>2, <3>1 DEF Used
      <3> QED
        BY <1>2, <3>1, <3>2, <3>3 DEF RunInv, InSession, Owning
    <2> QED
      BY <2>1, <2>2
  <1> QED
    BY <1>3, <1>4, <1>5 DEF SessionInv

LEMMA LoseStateKeeps ==
  ASSUME SessionInv, NEW f \in Paths, LoseState(f), LockInv' PROVE SessionInv'
  <1>0. /\ file \in [Paths -> States \cup {None}] /\ guard \in [Paths -> Procs \cup {None}]
        /\ f \in Losable /\ guard[f] = None
        /\ binding' = binding /\ history' = history /\ run' = run
    BY DEF SessionInv, LockInv, TypeOK, LoseState
  <1>1. file'[f] = None /\ \A g \in Paths \ {f} : file'[g] = file[g]
    BY <1>0 DEF LoseState
  <1>2. ASSUME NEW g \in Paths PROVE FileInv(g)'
    BY <1>0, <1>1 DEF SessionInv, FileInv
  <1>3. ASSUME NEW a \in Accounts PROVE AccountInv(a)'
    <2>1. AccountInv(a) /\ (Used(a)' <=> Used(a))
      BY <1>0 DEF SessionInv, Used
    <2> QED
      BY <1>0, <1>1, <2>1 DEF AccountInv
  <1>4. ASSUME NEW q \in Procs PROVE RunInv(q)'
    <2>1. RunInv(q) /\ Placed(q) /\ Holds(q) /\ (Used(run[q].account)' <=> Used(run[q].account))
      BY <1>0 DEF SessionInv, LockInv, Used
    <2>2. InSession(q) => run[q].path \in Paths \ {f}
      BY <1>0, <2>1, SessionAssumption DEF Holds, Placed, InSession, Guards
    <2> QED
      BY <1>0, <1>1, <2>1, <2>2 DEF RunInv, InSession, Owning
  <1> QED
    BY <1>2, <1>3, <1>4 DEF SessionInv

\* What an equity does to a state and to the onlooker's memory of it.
LEMMA ObservedIsRemembered ==
  ASSUME NEW s \in States, NEW h \in Histories, NEW r, r.limits \in Limits,
         NEW equity \in Nat, today \in Nat, s.limits = r.limits,
         s.peak = h.peak, s.limits = h.limits, h.tripped => s.locked
  PROVE  /\ Observed(s, equity).owner = s.owner
         /\ Observed(s, equity).limits = s.limits
         /\ Observed(s, equity).peak = Remembered(h, r, equity).peak
         /\ Observed(s, equity).limits = Remembered(h, r, equity).limits
         /\ Remembered(h, r, equity).tripped => Observed(s, equity).locked
  <1> DEFINE d == r.limits.drawdown
             peak == IF equity > s.peak THEN equity ELSE s.peak
  <1>1. d \in Nat /\ s.peak \in Nat /\ peak \in Nat /\ s.limits.drawdown = d
    BY SessionAssumption DEF States
  <1>2. /\ Observed(s, equity).owner = s.owner /\ Observed(s, equity).limits = s.limits
        /\ Observed(s, equity).peak = peak
        /\ s.locked \/ Lost(peak, equity, d) => Observed(s, equity).locked
    BY <1>1 DEF Observed, States
  <1>3. /\ Remembered(h, r, equity).peak = peak /\ Remembered(h, r, equity).limits = h.limits
        /\ Remembered(h, r, equity).tripped => h.tripped \/ Lost(h.peak, equity, d)
    BY <1>1 DEF Remembered, Histories
  <1>4. Lost(h.peak, equity, d) => Lost(peak, equity, d)
    <2>1. CASE equity > s.peak
      <3>1. d * s.peak >= 0
        BY <1>1
      <3>2. (s.peak - equity) * 100 < 0
        BY <1>1, <2>1
      <3> QED
        BY <1>1, <3>1, <3>2 DEF Lost
    <2>2. CASE ~(equity > s.peak)
      BY <2>2
    <2> QED
      BY <2>1, <2>2
  <1> QED
    BY <1>2, <1>3, <1>4

LEMMA BindContextKeeps ==
  ASSUME SessionInv, NEW p \in Procs, BindContext(p), ~Leaves(p), LockInv' PROVE SessionInv'
  <1> DEFINE a == run[p].account
             f == run[p].path
             t == [file[f] EXCEPT !.owner = a, !.strategy = run[p].strategy]
  <1>0. /\ a \in Accounts /\ f \in Paths /\ run[p].strategy \in Strategies /\ InSession(p)
        /\ binding[a] = f /\ file[f] \in States /\ history[a] \in Histories
        /\ history \in [Accounts -> Histories] /\ a # None
    BY SessionAssumption
    DEF SessionInv, LockInv, TypeOK, Placed, RunInv, BindContext, InSession
  <1>1. file[f] # None /\ file[f].owner \in {None, a}
    BY <1>0, NoneIsNoState DEF BindContext, Belongs
  <1>2. Keep(t, p, "limits") /\ UNCHANGED <<binding, history>>
    BY <1>1 DEF BindContext
  <1>3. /\ t \in States /\ t.owner = a /\ t.peak = file[f].peak
        /\ t.limits = file[f].limits /\ t.locked = file[f].locked
    BY <1>0 DEF States
  <1>4. /\ t.peak = history[a].peak /\ t.limits = history[a].limits
        /\ history[a].tripped => t.locked
    <2>1. FileInv(f) /\ AccountInv(a)
      BY <1>0 DEF SessionInv
    <2>2. CASE file[f].owner = None
      BY <1>0, <1>1, <1>3, <2>1, <2>2 DEF FileInv, AccountInv, Used
    <2>3. CASE file[f].owner = a
      BY <1>0, <1>1, <1>3, <2>1, <2>3 DEF FileInv
    <2> QED
      BY <1>1, <2>2, <2>3
  <1>5. history' = [history EXCEPT ![a] = history[a]]
    BY <1>0, <1>2
  <1> HIDE DEF t
  <1> QED
    BY <1>0, <1>1, <1>2, <1>3, <1>4, <1>5, KeepKeeps

\* What a session that owns its state knows of its account's history.
LEMMA OwnHistory ==
  ASSUME SessionInv, NEW p \in Procs, Owning(p)
  PROVE  /\ InSession(p) /\ run[p].account \in Accounts /\ run[p].path \in Paths
         /\ run[p].limits \in Limits /\ run[p].store \in States /\ run[p] \in Runs
         /\ run[p].store = file[run[p].path] /\ run[p].store.owner = run[p].account
         /\ run[p].store.peak = history[run[p].account].peak
         /\ run[p].store.limits = history[run[p].account].limits
         /\ history[run[p].account].tripped => run[p].store.locked
         /\ history[run[p].account] \in Histories /\ history \in [Accounts -> Histories]
  <1>1. /\ InSession(p) /\ RunInv(p) /\ Placed(p) /\ run[p] \in Runs
        /\ history \in [Accounts -> Histories]
    BY DEF SessionInv, LockInv, TypeOK, Owning, InSession
  <1>2. /\ run[p].account \in Accounts /\ run[p].path \in Paths /\ run[p].limits \in Limits
        /\ run[p].store \in States
    BY <1>1 DEF Placed, InSession, Runs
  <1>3. /\ run[p].store = file[run[p].path] /\ run[p].store.owner = run[p].account
        /\ file[run[p].path] # None
    BY <1>1 DEF RunInv
  <1>4. FileInv(run[p].path) /\ run[p].account # None
    BY <1>2, SessionAssumption DEF SessionInv
  <1> QED
    BY <1>1, <1>2, <1>3, <1>4 DEF FileInv

LEMMA BindLimitsKeeps ==
  ASSUME SessionInv, NEW p \in Procs, BindLimits(p), ~Leaves(p), LockInv' PROVE SessionInv'
  <1> DEFINE a == run[p].account
             t == [run[p].store EXCEPT !.limits = run[p].limits]
             h == [history[a] EXCEPT !.limits = run[p].limits]
  <1>0. Owning(p)
    BY DEF BindLimits, Owning
  <1>1. /\ InSession(p) /\ a \in Accounts /\ run[p].limits \in Limits
        /\ run[p].store \in States /\ run[p].store = file[run[p].path]
        /\ run[p].store.owner = a
        /\ run[p].store.peak = history[a].peak
        /\ history[a].tripped => run[p].store.locked
        /\ history[a] \in Histories /\ history \in [Accounts -> Histories]
    BY <1>0, OwnHistory
  <1>2. Keep(t, p, "equity") /\ UNCHANGED binding /\ history' = [history EXCEPT ![a] = h]
    BY DEF BindLimits
  <1>3. /\ t \in States /\ t.owner = a /\ t.peak = run[p].store.peak
        /\ t.limits = run[p].limits /\ t.locked = run[p].store.locked
    BY <1>1 DEF States
  <1>4. /\ h \in Histories /\ h.peak = history[a].peak /\ h.limits = run[p].limits
        /\ h.tripped = history[a].tripped
    BY <1>1 DEF Histories
  <1>5. /\ t.peak = h.peak /\ t.limits = h.limits /\ (h.tripped => t.locked)
        /\ file[run[p].path].owner \in {None, a}
    BY <1>1, <1>3, <1>4
  <1> HIDE DEF t, h
  <1> QED
    BY <1>1, <1>2, <1>3, <1>4, <1>5, KeepKeeps

LEMMA ObserveEquityKeeps ==
  ASSUME SessionInv, NEW p \in Procs, ObserveEquity(p), LockInv' PROVE SessionInv'
  <1> DEFINE a == run[p].account
  <1>0. Owning(p) /\ run[p].at = "equity"
    BY DEF ObserveEquity, Owning
  <1>1. PICK equity \in Equities :
          LET s == Observed(run[p].store, equity)
          IN  /\ Keep(s, p, IF s.locked THEN "reducing" ELSE "trading")
              /\ history' = [history EXCEPT ![a] = Remembered(@, run[p], equity)]
    BY DEF ObserveEquity
  <1> DEFINE s == Observed(run[p].store, equity)
             h == Remembered(history[a], run[p], equity)
  <1>2. /\ InSession(p) /\ a \in Accounts /\ run[p].limits \in Limits
        /\ run[p].store \in States /\ run[p].store = file[run[p].path]
        /\ run[p].store.owner = a
        /\ run[p].store.peak = history[a].peak
        /\ run[p].store.limits = history[a].limits
        /\ history[a].tripped => run[p].store.locked
        /\ history[a] \in Histories
    BY <1>0, OwnHistory
  <1>3. run[p].store.limits = run[p].limits
    BY <1>0 DEF SessionInv, RunInv
  <1>4. equity \in Nat /\ today \in Nat
    BY SessionAssumption DEF SessionInv, LockInv, TypeOK
  <1>5. s \in States
    BY <1>2, <1>4, ObservedIsState
  <1>6. h \in Histories
    BY <1>2, <1>4 DEF Remembered, Histories, Lost
  <1>7. /\ s.owner = a /\ s.limits = run[p].limits /\ s.peak = h.peak /\ s.limits = h.limits
        /\ h.tripped => s.locked
    <2> DEFINE st == run[p].store
               hi == history[a]
               r  == run[p]
    <2>1. /\ st \in States /\ hi \in Histories /\ r.limits \in Limits /\ st.limits = r.limits
          /\ st.peak = hi.peak /\ st.limits = hi.limits /\ (hi.tripped => st.locked)
      BY <1>2, <1>3
    <2> HIDE DEF st, hi, r
    <2>2. /\ Observed(st, equity).owner = st.owner
          /\ Observed(st, equity).limits = st.limits
          /\ Observed(st, equity).peak = Remembered(hi, r, equity).peak
          /\ Observed(st, equity).limits = Remembered(hi, r, equity).limits
          /\ Remembered(hi, r, equity).tripped => Observed(st, equity).locked
      BY <1>4, <2>1, ObservedIsRemembered
    <2> QED
      BY <1>2, <1>3, <2>2 DEF st, hi, r
  <1>8. PICK at \in {"trading", "reducing"} :
          Keep(s, p, at) /\ (at = "trading" => ~s.locked)
    BY <1>1
  <1>9. history' = [history EXCEPT ![a] = h] /\ UNCHANGED binding
    BY <1>1 DEF ObserveEquity
  <1> HIDE DEF s, h
  <1> QED
    BY <1>2, <1>5, <1>6, <1>7, <1>8, <1>9, KeepKeeps

\* Every step keeps what the sessions know: one step for each disjunct of Next.
LEMMA SessionInvNext ==
  ASSUME OwnFiles, SessionInv, [Next]_vars PROVE SessionInv'
  <1>0. LockInv' /\ LockInv
    BY LockInvNext DEF SessionInv
  <1>1. ASSUME NEW p \in Procs, Step(p) PROVE SessionInv'
    <2>0. run \in [Procs -> Runs] /\ run[p] \in Runs /\ RunInv(p) /\ Placed(p)
      BY DEF SessionInv, LockInv, TypeOK
    <2>1. CASE Start(p)
      <3>1. PICK c \in Starts :
              run' = [run EXCEPT ![p] =
                [at |-> "writer", account |-> c.account, path |-> c.path,
                 strategy |-> c.strategy, limits |-> c.limits, approve |-> c.approve,
                 execute |-> c.execute, store |-> Fresh]]
        BY <2>1 DEF Start
      <3>2. RunInv(p)' /\ \A q \in Procs \ {p} : run'[q] = run[q]
        BY <2>0, <3>1 DEF RunInv, Opened, InSession, Owning
      <3> QED
        BY <1>0, <2>1, <3>2, NothingKept DEF Start
    <2>2. CASE TakeGuard(p) \/ ReleaseGuard(p)
      <3>1. PICK at \in {"binding", "unguarded"} : Goto(p, at)
        BY <2>2 DEF TakeGuard, GuardTaken, ReleaseGuard
      <3>2. /\ run'[p] = [run[p] EXCEPT !.at = at]
            /\ \A q \in Procs \ {p} : run'[q] = run[q]
        BY <2>0, <3>1, RunGoes DEF Places
      <3>3. RunInv(p)'
        BY <2>0, <2>2, <3>2 DEF RunInv, InSession, Owning, Runs, TakeGuard, ReleaseGuard
      <3> QED
        BY <1>0, <2>2, <3>2, <3>3, NothingKept DEF TakeGuard, ReleaseGuard
    <2>3. CASE CheckBinding(p)
      <3>1. CASE Leaves(p)
        BY <1>0, <2>3, <3>1, LeavesKeeps DEF CheckBinding
      <3>2. CASE ~Leaves(p) /\ binding[run[p].account] = None
        <4>1. /\ Goto(p, "bind") /\ UNCHANGED <<file, history>>
              /\ binding' = [binding EXCEPT ![run[p].account] = Torn]
          BY <2>0, <2>3, <3>2, SessionAssumption DEF CheckBinding, Bound, Placed
        <4>2. run[p].at # "off" /\ binding[run[p].account] \notin Paths
          BY <2>3, <3>2, SessionAssumption DEF CheckBinding
        <4> QED
          BY <1>0, <4>1, <4>2, BindingKeeps
      <3>3. CASE ~Leaves(p) /\ binding[run[p].account] # None
        <4>1. Bound(p) /\ Goto(p, "active") /\ UNCHANGED <<binding, file, history>>
          BY <2>3, <3>3 DEF CheckBinding
        <4>2. /\ run'[p] = [run[p] EXCEPT !.at = "active"]
              /\ \A q \in Procs \ {p} : run'[q] = run[q]
          BY <2>0, <4>1, RunGoes DEF Places
        <4>3. RunInv(p)'
          BY <2>0, <2>3, <4>1, <4>2
          DEF RunInv, InSession, Owning, Runs, CheckBinding, Bound
        <4> QED
          BY <1>0, <4>1, <4>2, <4>3, NothingKept
      <3> QED
        BY <3>1, <3>2, <3>3
    <2>4. CASE WriteBinding(p)
      <3>1. run[p].at # "off" /\ binding[run[p].account] \notin Paths
        BY <2>0, <2>4, SessionAssumption DEF WriteBinding, RunInv
      <3> QED
        BY <1>0, <2>4, <3>1, BindingKeeps DEF WriteBinding
    <2>5. CASE Bootstrap(p)
      BY <1>0, <2>5, BootstrapKeeps
    <2>6. CASE BindContext(p)
      <3>1. run[p].at # "off"
        BY <2>6 DEF BindContext
      <3> QED
        BY <1>0, <2>6, <3>1, BindContextKeeps, LeavesKeeps
    <2>7. CASE BindLimits(p)
      <3>1. run[p].at # "off"
        BY <2>7 DEF BindLimits
      <3> QED
        BY <1>0, <2>7, <3>1, BindLimitsKeeps, LeavesKeeps
    <2>8. CASE ObserveEquity(p)
      BY <1>0, <2>8, ObserveEquityKeeps
    <2>9. CASE Leave(p)
      BY <1>0, <2>9, LeavesKeeps DEF Leave
    <2>10. CASE ReleaseWriter(p) \/ Die(p)
      <3>1. /\ run'[p] = Idle /\ \A q \in Procs \ {p} : run'[q] = run[q]
            /\ UNCHANGED <<binding, file, history>>
        BY <2>0, <2>10 DEF ReleaseWriter, Die
      <3>2. RunInv(p)'
        BY <3>1 DEF RunInv, Idle, InSession, Owning
      <3> QED
        BY <1>0, <3>1, <3>2, NothingKept
    <2> QED
      BY <1>1, <2>1, <2>2, <2>3, <2>4, <2>5, <2>6, <2>7, <2>8, <2>9, <2>10 DEF Step
  <1>2. ASSUME NEW f \in Paths, LoseState(f) PROVE SessionInv'
    BY <1>0, <1>2, LoseStateKeeps
  <1>3. CASE Tomorrow \/ UNCHANGED vars
    <2>1. UNCHANGED <<run, binding, file, history>>
      BY <1>3 DEF Tomorrow, vars
    <2> QED
      BY <1>0, <2>1
      DEF SessionInv, FileInv, AccountInv, RunInv, Used, InSession, Owning
  <1> QED
    BY <1>1, <1>2, <1>3 DEF Next

THEOREM SessionInvariant == ASSUME OwnFiles PROVE Spec => []SessionInv
  <1>1. SessionInv /\ [Next]_vars => SessionInv'
    BY SessionInvNext
  <1> QED
    BY <1>1, SessionInvInit, PTL DEF Spec

\* No run measures the drawdown from another peak than the highest equity the
\* account's runs ever observed.
THEOREM BaselineAlwaysKept == ASSUME OwnFiles PROVE Spec => []BaselineKept
  <1>1. SessionInv => BaselineKept
    BY OwnHistory DEF BaselineKept, Owning
  <1> QED
    BY <1>1, SessionInvariant, PTL

\* A tripped breaker keeps every later run of the account from buying.
THEOREM BreakerAlwaysSticks == ASSUME OwnFiles PROVE Spec => []BreakerSticks
  <1>1. SessionInv => BreakerSticks
    <2> SUFFICES ASSUME SessionInv, NEW p \in Procs, run[p].at = "trading"
                 PROVE  ~history[run[p].account].tripped
      BY DEF BreakerSticks
    <2>1. ~run[p].store.locked
      BY DEF SessionInv, RunInv
    <2> QED
      BY <2>1, OwnHistory DEF Owning
  <1> QED
    BY <1>1, SessionInvariant, PTL

\* Only a run that was told to loosens the limits of its account.
THEOREM LimitsAlwaysApproved ==
  ASSUME OwnFiles PROVE Spec => LimitsLoosenedOnlyByApproval
  <1>1. SessionInv /\ [Next]_vars => [LoosenedIfApproved]_vars
    <2> SUFFICES ASSUME SessionInv, [Next]_vars, NEW a \in Accounts,
                        history[a].limits # None,
                        Looser(history'[a].limits, history[a].limits)
                 PROVE  \E p \in Procs :
                          run[p].account = a /\ run[p].approve /\ InSession(p)
      BY DEF LoosenedIfApproved
    <2>1. history \in [Accounts -> Histories] /\ history[a].limits \in Limits
      BY DEF SessionInv, LockInv, TypeOK, Histories
    <2>2. history'[a].limits # history[a].limits
      BY <2>1, SessionAssumption DEF Looser
    <2>3. PICK p \in Procs : BindLimits(p) /\ ~Leaves(p)
      <3>1. CASE \E p \in Procs : Step(p)
        <4>1. PICK p \in Procs : Step(p)
          BY <3>1
        <4>2. history' # history /\ ~Leaves(p)
          BY <2>2 DEF Leaves
        <4>3. ~ObserveEquity(p)
          <5>1. ASSUME ObserveEquity(p)
                PROVE  history'[a].limits = history[a].limits
            <6>1. PICK equity \in Equities :
                    history' = [history EXCEPT ![run[p].account] =
                                  Remembered(@, run[p], equity)]
              BY <5>1 DEF ObserveEquity
            <6>2. \A h \in Histories : Remembered(h, run[p], equity).limits = h.limits
              BY DEF Remembered, Histories
            <6> QED
              BY <2>1, <6>1, <6>2
          <5> QED
            BY <2>2, <5>1
        <4> QED
          BY <4>1, <4>2, <4>3
          DEF Step, Start, TakeGuard, CheckBinding, WriteBinding, Bootstrap, BindContext,
              BindLimits, Leave, ReleaseGuard, ReleaseWriter, Die
      <3> QED
        BY <2>2, <3>1 DEF Next, LoseState, Tomorrow, vars
    <2>4. /\ history' = [history EXCEPT ![run[p].account].limits = run[p].limits]
          /\ LimitsAllowed(p)
      BY <2>3 DEF BindLimits
    <2>5. run[p].account = a /\ history'[a].limits = run[p].limits
      BY <2>1, <2>2, <2>4 DEF Histories
    <2>6. InSession(p) /\ Owning(p) /\ run[p].store.limits = history[a].limits
      BY <2>3, <2>5, OwnHistory DEF BindLimits, InSession, Owning
    <2> QED
      BY <2>4, <2>5, <2>6 DEF LimitsAllowed
  <1> QED
    BY <1>1, SessionInvariant, PTL DEF Spec, LimitsLoosenedOnlyByApproval
=============================================================================
