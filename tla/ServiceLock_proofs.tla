------------------------- MODULE ServiceLock_proofs -------------------------
(***************************************************************************)
(* At most one process serves and service.json names it, for any number of *)
(* launchers, stops, crashes and failures.  The lock file plays no part in *)
(* the argument: two processes may both believe to hold it.                *)
(***************************************************************************)
EXTENDS ServiceLock, TLAPS

-----------------------------------------------------------------------------
(* The invariant                                                           *)

\* Who has the database open is the ledger's holder, so there is one at most.
Opened == \A p \in Procs : pc[p] \in HasLedger => ledger = p

\* service.json names a process that serves, is about to remove it, or died.
StateFits == \A p \in Procs : state = p => pc[p] \in {"serving", "clear", "gone"}

\* A launcher that has not launched has no process.
NotYet == \A p \in Procs : launcher[p] \in {"idle", "asked"} => pc[p] = "off"

IInv == TypeOK /\ Opened /\ StateFits /\ ServingIsFound /\ NotYet

-----------------------------------------------------------------------------
(* Steps                                                                   *)

\* What the steps of TryAcquireLock and of a launcher have in common: they move
\* one process that has no database open, and touch neither file.
LEMMA OutsideStep ==
    ASSUME IInv, NEW p \in Procs, pc[p] \notin HasLedger \cup {"gone"},
           NEW to, to \notin HasLedger, pc' = [pc EXCEPT ![p] = to],
           ledger' = ledger, state' = state
    PROVE  /\ Opened' /\ StateFits' /\ ServingIsFound'
           /\ ledger' \in {q \in Procs : pc'[q] \in HasLedger} \cup {None}
<1>1. /\ \A q \in Procs : q # p => pc'[q] = pc[q]
      /\ pc'[p] = to
  BY DEF IInv, TypeOK
<1>2. /\ "serving" \in HasLedger /\ "clear" \in HasLedger
  BY DEF HasLedger, Down
<1>3. ledger # p /\ state # p
  BY <1>2, NoneAssumption DEF IInv, TypeOK, StateFits, NoneAssumption
<1>4. Opened'
  BY <1>1 DEF IInv, Opened
<1>5. StateFits'
  BY <1>1, <1>3 DEF IInv, StateFits
<1>6. ServingIsFound'
  BY <1>1, <1>2 DEF IInv, ServingIsFound
<1>7. ledger' \in {q \in Procs : pc'[q] \in HasLedger} \cup {None}
  BY <1>1, <1>3 DEF IInv, TypeOK
<1> QED
  BY <1>4, <1>5, <1>6, <1>7

\* A process that has the database open moves on and keeps it, and service.json.
LEMMA InsideStep ==
    ASSUME IInv, NEW p \in Procs, pc[p] \in HasLedger,
           NEW to, to \in HasLedger, pc' = [pc EXCEPT ![p] = to], ledger' = ledger,
           \/ state' = state /\ to # "serving" /\ (state = p => to = "clear")
           \/ state' = p /\ to = "serving"
           \/ state' = None /\ to # "serving"
    PROVE  /\ Opened' /\ StateFits' /\ ServingIsFound'
           /\ ledger' \in {q \in Procs : pc'[q] \in HasLedger} \cup {None}
<1> USE NoneAssumption DEF NoneAssumption
<1>1. /\ \A q \in Procs : q # p => pc'[q] = pc[q]
      /\ pc'[p] = to
  BY DEF IInv, TypeOK
<1>2. /\ ledger = p
      /\ \A q \in Procs : q # p => pc[q] \notin HasLedger
      /\ "serving" \in HasLedger
  BY DEF IInv, Opened, HasLedger
<1>3. Opened'
  BY <1>1, <1>2 DEF Opened
<1>4. StateFits'
  BY <1>1, <1>2 DEF IInv, StateFits
<1>5. ServingIsFound'
  BY <1>1, <1>2 DEF ServingIsFound
<1>6. ledger' \in {q \in Procs : pc'[q] \in HasLedger} \cup {None}
  BY <1>1, <1>2
<1> QED
  BY <1>3, <1>4, <1>5, <1>6

\* A process ends: the database is free if it had it open.
LEMMA EndStep ==
    ASSUME IInv, NEW p \in Procs, pc' = [pc EXCEPT ![p] = "gone"], ledger' = Closed(p), state' = state
    PROVE  /\ Opened' /\ StateFits' /\ ServingIsFound'
           /\ ledger' \in {q \in Procs : pc'[q] \in HasLedger} \cup {None}
<1>1. /\ \A q \in Procs : q # p => pc'[q] = pc[q]
      /\ pc'[p] = "gone"
      /\ "gone" \notin HasLedger
  BY DEF IInv, TypeOK, HasLedger, Down
<1>2. ledger' = IF ledger = p THEN None ELSE ledger
  BY DEF Closed
<1>3. Opened'
  BY <1>1, <1>2 DEF IInv, Opened
<1>4. StateFits'
  BY <1>1 DEF IInv, StateFits
<1>5. ServingIsFound'
  BY <1>1 DEF IInv, ServingIsFound
<1>6. ledger' \in {q \in Procs : pc'[q] \in HasLedger} \cup {None}
  BY <1>1, <1>2 DEF IInv, TypeOK
<1> QED
  BY <1>3, <1>4, <1>5, <1>6

\* bbolt.Open succeeds only when nobody has the database open.
LEMMA OpenStep ==
    ASSUME IInv, NEW p \in Procs, OpenLedger(p)
    PROVE  /\ Opened' /\ StateFits' /\ ServingIsFound'
           /\ ledger' \in {q \in Procs : pc'[q] \in HasLedger} \cup {None}
<1> USE NoneAssumption DEF NoneAssumption
<1>1. /\ \A q \in Procs : q # p => pc'[q] = pc[q]
      /\ pc'[p] = "starting" /\ pc[p] = "opening"
      /\ ledger = None /\ ledger' = p /\ state' = state
  BY DEF IInv, TypeOK, OpenLedger, Goes
<1>2. \A q \in Procs : pc[q] \notin HasLedger
  BY <1>1 DEF IInv, Opened
<1>3. "starting" \in HasLedger
  BY DEF HasLedger
<1>4. Opened'
  BY <1>1, <1>2 DEF Opened
<1>5. StateFits'
  BY <1>1 DEF IInv, StateFits
<1>6. ServingIsFound'
  BY <1>1 DEF IInv, ServingIsFound
<1> QED
  BY <1>1, <1>3, <1>4, <1>5, <1>6

-----------------------------------------------------------------------------
(* The step                                                                *)

\* The parts of the invariant that relate processes, ledger and service.json.
LEMMA RelationStep ==
    ASSUME IInv, [Next]_vars
    PROVE  /\ Opened' /\ StateFits' /\ ServingIsFound'
           /\ ledger' \in {q \in Procs : pc'[q] \in HasLedger} \cup {None}
<1> DEFINE Good == /\ Opened' /\ StateFits' /\ ServingIsFound'
                   /\ ledger' \in {q \in Procs : pc'[q] \in HasLedger} \cup {None}
<1>0. /\ \A to \in Acquiring \cup {"losing", "opening"} : to \notin HasLedger \cup {"gone"}
      /\ "off" \notin HasLedger /\ "gone" \notin HasLedger
      /\ {"starting", "listing", "serving", "unlisted", "clear", "release", "close"} \subseteq HasLedger
      /\ {"create", "read", "check", "remove", "recreate", "write"} \subseteq Acquiring
  BY DEF Acquiring, HasLedger, Down
<1>1. ASSUME pc' = pc, ledger' = ledger, state' = state PROVE Good
  BY <1>1 DEF IInv, TypeOK, Opened, StateFits, ServingIsFound
<1>2. ASSUME NEW p \in Procs, LauncherStep(p) PROVE Good
  <2>1. CASE Launch(p)
    <3>1. pc' = [pc EXCEPT ![p] = "create"] /\ ledger' = ledger /\ state' = state
      BY <2>1 DEF Launch, files
    <3>2. pc[p] = "off"
      BY <2>1 DEF IInv, NotYet, Launch, Moves
    <3> QED
      BY <1>0, <3>1, <3>2, OutsideStep
  <2>2. CASE ~Launch(p)
    BY <1>1, <1>2, <2>2 DEF LauncherStep, ReadState, Answer, PollAgain, TimeOut, files
  <2> QED
    BY <2>1, <2>2
<1>3. ASSUME NEW p \in Procs, LockStep(p) PROVE Good
  <2>1. CASE Lose(p)
    <3>1. /\ pc[p] = "losing" /\ pc' = [pc EXCEPT ![p] = "gone"]
          /\ ledger' = ledger /\ state' = state
      BY <2>1 DEF Lose, Goes, files
    <3>2. ledger' = Closed(p)
      BY <1>0, <3>1, NoneAssumption DEF Closed, IInv, TypeOK, NoneAssumption
    <3> QED
      BY <3>1, <3>2, EndStep
  <2>2. CASE ~Lose(p)
    <3>1. /\ ledger' = ledger /\ state' = state
          /\ \E to \in Acquiring \cup {"losing", "opening"} : pc' = [pc EXCEPT ![p] = to]
          /\ pc[p] \in Acquiring
      BY <1>0, <1>3, <2>2 DEF LockStep, Create, Exists, ReadLock, HolderAlive, HolderDead, RemoveStale, Outrun,
         WritePid, Goes, files
    <3> QED
      BY <1>0, <3>1, OutsideStep
  <2> QED
    BY <2>1, <2>2
<1>4. ASSUME NEW p \in Procs, DaemonStep(p) PROVE Good
  <2>1. CASE OpenLedger(p)
    BY <2>1, OpenStep
  <2>2. CASE OpenFails(p)
    <3>1. /\ pc[p] = "opening" /\ pc' = [pc EXCEPT ![p] = "gone"]
          /\ ledger' = ledger /\ state' = state
      BY <2>2 DEF OpenFails, Goes, files
    <3>2. ledger' = Closed(p)
      BY <1>0, <3>1, NoneAssumption DEF Closed, IInv, TypeOK, NoneAssumption
    <3> QED
      BY <3>1, <3>2, EndStep
  <2>3. CASE Started(p)
    <3>1. /\ pc[p] = "starting" /\ pc' = [pc EXCEPT ![p] = "listing"]
          /\ ledger' = ledger /\ state' = state
      BY <2>3 DEF Started, Goes, files
    <3>2. state # p
      BY <3>1 DEF IInv, StateFits
    <3> QED
      BY <1>0, <3>1, <3>2, InsideStep
  <2>4. CASE WriteState(p)
    <3>1. /\ pc[p] = "listing" /\ pc' = [pc EXCEPT ![p] = "serving"]
          /\ ledger' = ledger /\ state' = p
      BY <2>4 DEF WriteState, Goes
    <3> QED
      BY <1>0, <3>1, InsideStep
  <2>5. CASE ClearState(p)
    <3>1. /\ pc[p] = "clear" /\ pc' = [pc EXCEPT ![p] = "release"]
          /\ ledger' = ledger /\ state' = None
      BY <2>5 DEF ClearState, Goes
    <3> QED
      BY <1>0, <3>1, InsideStep
  <2>6. CASE ReleaseLock(p)
    <3>1. /\ pc[p] = "release" /\ pc' = [pc EXCEPT ![p] = "close"]
          /\ ledger' = ledger /\ state' = state
      BY <2>6 DEF ReleaseLock, Goes
    <3>2. state # p
      BY <3>1 DEF IInv, StateFits
    <3> QED
      BY <1>0, <3>1, <3>2, InsideStep
  <2>7. CASE Exit(p)
    BY <2>7, EndStep DEF Exit, Goes
  <2> QED
    BY <1>4, <2>1, <2>2, <2>3, <2>4, <2>5, <2>6, <2>7 DEF DaemonStep
<1>5. ASSUME NEW p \in Procs, Mishap(p) PROVE Good
  <2>1. CASE StartFails(p) \/ Crash(p)
    BY <2>1, EndStep DEF StartFails, Crash, Goes
  <2>2. CASE WriteStateFails(p)
    <3>1. /\ pc[p] = "listing" /\ pc' = [pc EXCEPT ![p] = "unlisted"]
          /\ ledger' = ledger /\ state' = state
      BY <2>2 DEF WriteStateFails, Goes, files
    <3>2. state # p
      BY <3>1 DEF IInv, StateFits
    <3> QED
      BY <1>0, <3>1, <3>2, InsideStep
  <2>3. CASE Stop(p)
    <3>1. /\ pc[p] \in {"serving", "unlisted"} /\ pc' = [pc EXCEPT ![p] = "clear"]
          /\ ledger' = ledger /\ state' = state
      BY <2>3 DEF Stop, Goes, files
    <3> QED
      BY <1>0, <3>1, InsideStep
  <2> QED
    BY <1>5, <2>1, <2>2, <2>3 DEF Mishap
<1>6. CASE UNCHANGED vars
  BY <1>1, <1>6 DEF vars
<1> QED
  BY <1>2, <1>3, <1>4, <1>5, <1>6 DEF Next

\* Every variable keeps its type.
LEMMA TypeStep ==
    ASSUME IInv, [Next]_vars, ledger' \in {q \in Procs : pc'[q] \in HasLedger} \cup {None}
    PROVE  TypeOK'
<1> USE BoundAssumption DEF BoundAssumption
<1>0. TypeOK
  BY DEF IInv
<1>1. pc' \in [Procs -> Acquiring \cup HasLedger \cup {"off", "losing", "opening", "gone"}]
  <2>1. ASSUME NEW p \in Procs, NEW to \in Acquiring \cup HasLedger \cup {"off", "losing", "opening", "gone"},
               pc' = [pc EXCEPT ![p] = to]
        PROVE  pc' \in [Procs -> Acquiring \cup HasLedger \cup {"off", "losing", "opening", "gone"}]
    BY <1>0, <2>1 DEF TypeOK
  <2>2. CASE pc' = pc
    BY <1>0, <2>2 DEF TypeOK
  <2>3. pc' = pc \/ \E p \in Procs, to \in Acquiring \cup HasLedger \cup {"off", "losing", "opening", "gone"} :
                        pc' = [pc EXCEPT ![p] = to]
    BY DEF Next, vars, LauncherStep, LockStep, DaemonStep, Mishap, ReadState, Answer, Launch, PollAgain, TimeOut,
       Create, Exists, ReadLock, HolderAlive, HolderDead, RemoveStale, Outrun, WritePid, Lose, OpenLedger,
       OpenFails, Started, WriteState, ClearState, ReleaseLock, Exit, StartFails, WriteStateFails, Stop, Crash,
       Goes, Acquiring, HasLedger, Down
  <2> QED
    BY <2>1, <2>2, <2>3
<1>2. lock' \in Lock \cup {None}
  <2>1. lock' \in {lock, None} \/ (\E p \in Procs : Create(p) \/ WritePid(p))
    BY DEF Next, vars, files, LauncherStep, LockStep, DaemonStep, Mishap, ReadState, Answer, Launch, PollAgain,
       TimeOut, Exists, ReadLock, HolderAlive, HolderDead, RemoveStale, Outrun, Lose, OpenLedger,
       OpenFails, Started, WriteState, ClearState, ReleaseLock, Exit, StartFails, WriteStateFails, Stop, Crash
  <2> QED
    <3>1. lock \in Lock \cup {None}
      BY <1>0 DEF TypeOK
    <3>2. ASSUME NEW p \in Procs, Create(p) PROVE lock' \in Lock
      BY <3>2 DEF Create, Lock
    <3>3. ASSUME NEW p \in Procs, WritePid(p) PROVE lock' \in Lock \cup {None}
      <4>1. CASE lock = None
        BY <3>3, <4>1 DEF WritePid
      <4>2. CASE lock \in Lock
        BY <3>3, <4>2 DEF WritePid, Lock
      <4> QED
        BY <3>1, <4>1, <4>2
    <3> QED
      BY <2>1, <3>1, <3>2, <3>3
<1>3. state' \in Procs \cup {None}
  BY <1>0 DEF TypeOK, Next, vars, files, LauncherStep, LockStep, DaemonStep, Mishap, ReadState, Answer, Launch,
     PollAgain, TimeOut, Create, Exists, ReadLock, HolderAlive, HolderDead, RemoveStale, Outrun, WritePid, Lose,
     OpenLedger, OpenFails, Started, WriteState, ClearState, ReleaseLock, Exit, StartFails, WriteStateFails,
     Stop, Crash
<1>4. read' \in [Procs -> Procs \cup {None}]
  <2>1. read' = read \/ \E p \in Procs, v \in Procs \cup {None} : read' = [read EXCEPT ![p] = v]
    BY <1>0 DEF TypeOK, Lock, Next, vars, files, LauncherStep, LockStep, DaemonStep, Mishap, ReadState, Answer, Launch,
       PollAgain, TimeOut, Create, Exists, ReadLock, HolderAlive, HolderDead, RemoveStale, Outrun, WritePid, Lose,
       OpenLedger, OpenFails, Started, WriteState, ClearState, ReleaseLock, Exit, StartFails, WriteStateFails,
       Stop, Crash
  <2> QED
    BY <1>0, <2>1 DEF TypeOK
<1>5. /\ launcher' \in [Procs -> {"idle", "asked", "waiting", "polled", "answered", "failed"}]
      /\ found' \in [Procs -> Procs \cup {None}]
  <2>1. CASE launcher' = launcher /\ found' = found
    BY <1>0, <2>1 DEF TypeOK
  <2>2. ASSUME NEW p \in Procs, LauncherStep(p)
        PROVE  /\ launcher' \in [Procs -> {"idle", "asked", "waiting", "polled", "answered", "failed"}]
               /\ found' \in [Procs -> Procs \cup {None}]
    BY <1>0, <2>2 DEF TypeOK, LauncherStep, Moves, ReadState, Answer, Launch, PollAgain, TimeOut
  <2> QED
    BY <2>1, <2>2 DEF Next, vars, LockStep, DaemonStep, Mishap, Keeps, Create, Exists, ReadLock, HolderAlive,
       HolderDead, RemoveStale, Outrun, WritePid, Lose, OpenLedger, OpenFails, Started, WriteState, ClearState,
       ReleaseLock, Exit, StartFails, WriteStateFails, Stop, Crash
<1>6. troubles' \in 0..MaxTroubles
  <2>1. troubles' = troubles \/ Trouble
    BY DEF Next, vars, LauncherStep, LockStep, DaemonStep, Mishap, Keeps, ReadState, Answer, Launch, PollAgain,
       TimeOut, Create, Exists, ReadLock, HolderAlive, HolderDead, RemoveStale, Outrun, WritePid, Lose,
       OpenLedger, OpenFails, Started, WriteState, ClearState, ReleaseLock, Exit, StartFails, WriteStateFails,
       Stop, Crash
  <2>2. troubles \in 0..MaxTroubles
    BY <1>0 DEF TypeOK
  <2>3. CASE Trouble
    BY ONLY <2>2, <2>3, BoundAssumption DEF Trouble, BoundAssumption
  <2> QED
    BY <2>1, <2>2, <2>3
<1> QED
  BY <1>1, <1>2, <1>3, <1>4, <1>5, <1>6 DEF TypeOK

\* A process exists only once its launcher has launched it.
LEMMA NotYetStep == ASSUME IInv, [Next]_vars PROVE NotYet'
<1>0. /\ NotYet
      /\ launcher \in [Procs -> {"idle", "asked", "waiting", "polled", "answered", "failed"}]
      /\ pc \in [Procs -> Acquiring \cup HasLedger \cup {"off", "losing", "opening", "gone"}]
  BY DEF IInv, TypeOK
<1>1. ASSUME NEW p \in Procs, LauncherStep(p) PROVE NotYet'
  <2>1. /\ \A q \in Procs : q # p => launcher'[q] = launcher[q] /\ pc'[q] = pc[q]
        /\ launcher'[p] \in {"idle", "asked"} => launcher[p] = "idle" /\ pc' = pc
    BY <1>0, <1>1 DEF LauncherStep, Moves, ReadState, Answer, Launch, PollAgain, TimeOut
  <2> QED
    BY <1>0, <2>1 DEF NotYet
<1>2. CASE launcher' = launcher /\ \A q \in Procs : pc[q] = "off" => pc'[q] = "off"
  BY <1>0, <1>2 DEF NotYet
<1>3. ASSUME NEW p \in Procs, LockStep(p) \/ DaemonStep(p) \/ Mishap(p)
      PROVE  launcher' = launcher /\ \A q \in Procs : pc[q] = "off" => pc'[q] = "off"
  BY <1>0, <1>3 DEF LockStep, DaemonStep, Mishap, Keeps, Goes, Alive, Create, Exists, ReadLock, HolderAlive,
     HolderDead, RemoveStale, Outrun, WritePid, Lose, OpenLedger, OpenFails, Started, WriteState, ClearState,
     ReleaseLock, Exit, StartFails, WriteStateFails, Stop, Crash
<1>4. CASE UNCHANGED vars
  BY <1>2, <1>4 DEF vars
<1> QED
  BY <1>1, <1>2, <1>3, <1>4 DEF Next

-----------------------------------------------------------------------------
(* The theorems                                                            *)

\* The invariant holds for ever.
LEMMA Inductive == Spec => []IInv
<1>1. Init => IInv
  <2> SUFFICES ASSUME Init PROVE IInv
    OBVIOUS
  <2>1. troubles \in 0..MaxTroubles
    <3>1. troubles = 0
      BY DEF Init
    <3> QED
      BY ONLY <3>1, BoundAssumption DEF BoundAssumption
  <2>2. TypeOK
    BY <2>1 DEF Init, TypeOK
  <2> QED
    BY <2>2, NoneAssumption DEF Init, IInv, Opened, StateFits, ServingIsFound, NotYet, HasLedger, Down,
       NoneAssumption
<1>2. IInv /\ [Next]_vars => IInv'
  <2> SUFFICES ASSUME IInv, [Next]_vars PROVE IInv'
    OBVIOUS
  <2>1. /\ Opened' /\ StateFits' /\ ServingIsFound'
        /\ ledger' \in {q \in Procs : pc'[q] \in HasLedger} \cup {None}
    BY RelationStep
  <2>2. TypeOK' /\ NotYet'
    BY <2>1, TypeStep, NotYetStep
  <2> QED
    BY <2>1, <2>2 DEF IInv
<1> QED
  BY <1>1, <1>2, PTL DEF Spec

\* Every variable keeps its type, and only a live process has the database open.
THEOREM TypeCorrect == Spec => []TypeOK
<1>1. IInv => TypeOK
  BY DEF IInv
<1> QED
  BY <1>1, Inductive, PTL

\* An address found alive is that of the only process with the database open.
THEOREM OneServes == Spec => []StateHoldsLedger
<1>1. IInv => StateHoldsLedger
  BY DEF IInv, Opened, StateFits, StateHoldsLedger, Alive, HasLedger, Down
<1> QED
  BY <1>1, Inductive, PTL

\* A daemon that serves can be found.
THEOREM Findable == Spec => []ServingIsFound
<1>1. IInv => ServingIsFound
  BY DEF IInv
<1> QED
  BY <1>1, Inductive, PTL

-----------------------------------------------------------------------------
(* Not all lose: the safety part of LaunchLeadsToService.                  *)

\* Every one of these goes on by itself: whatever its next test finds, one of the
\* two outcomes is a step of it.
OnItsWay == {"create", "read", "check", "remove", "write", "opening",
             "starting", "listing", "serving", "unlisted"}

\* Somebody is on its way to serve, or serves, and nobody goes down. A process that
\* has removed the stale lock counts only until another has made a new one.
Underway ==
    /\ \A q \in Procs : pc[q] \notin Down
    /\ \E q \in Procs : pc[q] \in OnItsWay \/ (pc[q] = "recreate" /\ lock = None)

\* As long as nothing is stopped, crashes or fails, it stays so: processes that find
\* each other's lock files, empty, stale or removed, never all give up.
NotAllLose == [][Underway /\ troubles' = troubles => Underway']_vars

\* How far each process is: it goes down at every step.
Distance ==
    [off |-> 14, create |-> 13, read |-> 12, check |-> 11, remove |-> 10, recreate |-> 9,
     write |-> 8, opening |-> 7, starting |-> 6, listing |-> 5, serving |-> 4, unlisted |-> 4,
     losing |-> 4, clear |-> 3, release |-> 2, close |-> 1, gone |-> 0]
NeverInCircles ==
    [][\A p \in Procs : pc'[p] # pc[p] => Distance[pc'[p]] < Distance[pc[p]]]_vars

\* A PID is in the lock file only once its process is through with TryAcquireLock.
Holding == {"opening", "gone"} \cup HasLedger
HolderInv ==
    /\ lock # None /\ lock.written => pc[lock.by] \in Holding
    /\ \A p \in Procs : read[p] # None => pc[read[p]] \in Holding

\* What each step does to the position of its process.
LEMMA Move ==
    ASSUME TypeOK, NEW p \in Procs, LockStep(p) \/ DaemonStep(p) \/ Mishap(p)
    PROVE  \E to : /\ pc' = [pc EXCEPT ![p] = to]
                   /\ pc[p] \notin {"off", "gone"}
                   /\ pc[p] \in Holding => to \in Holding
BY DEF LockStep, DaemonStep, Mishap, Goes, Alive, Create, Exists, ReadLock, HolderAlive, HolderDead,
   RemoveStale, Outrun, WritePid, Lose, OpenLedger, OpenFails, Started, WriteState, ClearState,
   ReleaseLock, Exit, StartFails, WriteStateFails, Stop, Crash, Holding, HasLedger, Down

\* Whose PID was read had it written.
LEMMA HolderStep == ASSUME IInv, HolderInv, [Next]_vars PROVE HolderInv'
<1> USE NoneAssumption DEF NoneAssumption
<1>0. /\ pc \in [Procs -> Acquiring \cup HasLedger \cup {"off", "losing", "opening", "gone"}]
      /\ read \in [Procs -> Procs \cup {None}] /\ lock \in Lock \cup {None}
  BY DEF IInv, TypeOK
<1>1. ASSUME NEW p \in Procs, LockStep(p) \/ DaemonStep(p) \/ Mishap(p)
      PROVE  HolderInv'
  <2>1. \A q \in Procs : pc[q] \in Holding => pc'[q] \in Holding
    <3>1. PICK to : pc' = [pc EXCEPT ![p] = to] /\ (pc[p] \in Holding => to \in Holding)
      BY <1>1, Move DEF IInv
    <3> QED BY <1>0, <3>1
  <2>2. CASE UNCHANGED <<lock, read>>
    BY <1>0, <2>1, <2>2 DEF HolderInv, Lock
  <2>3. CASE ReadLock(p)
    <3>1. /\ lock' = lock
          /\ read' = [read EXCEPT ![p] = IF lock # None /\ lock.written THEN lock.by ELSE None]
      BY <2>3 DEF ReadLock, files
    <3> QED BY <1>0, <2>1, <3>1 DEF HolderInv, Lock
  <2>4. CASE lock' = lock /\ read' = [read EXCEPT ![p] = None]
    BY <1>0, <2>1, <2>4 DEF HolderInv, Lock
  <2>5. CASE lock' = None /\ read' = read
    BY <1>0, <2>1, <2>5 DEF HolderInv
  <2>6. CASE Create(p)
    <3>1. lock' = [by |-> p, written |-> FALSE] /\ read' = read
      BY <2>6 DEF Create
    <3> QED BY <1>0, <2>1, <3>1 DEF HolderInv
  <2>7. CASE WritePid(p)
    <3>1. /\ lock' = IF lock # None /\ lock.by = p THEN [lock EXCEPT !.written = TRUE] ELSE lock
          /\ read' = read /\ pc'[p] = "opening"
      BY <1>0, <2>7 DEF WritePid, Goes
    <3>2. CASE lock # None /\ lock.by = p
      <4>1. lock'.by = p /\ pc'[p] \in Holding
        BY <1>0, <3>1, <3>2 DEF Lock, Holding
      <4> QED BY <1>0, <2>1, <3>1, <4>1 DEF HolderInv
    <3>3. CASE ~(lock # None /\ lock.by = p)
      BY <1>0, <2>1, <3>1, <3>3 DEF HolderInv, Lock
    <3> QED BY <3>2, <3>3
  <2>8. CASE LockStep(p)
    BY <2>2, <2>3, <2>4, <2>5, <2>6, <2>7, <2>8 DEF LockStep, Exists, HolderAlive, HolderDead,
       RemoveStale, Outrun, Lose, files
  <2>9. CASE DaemonStep(p)
    BY <2>2, <2>5, <2>9 DEF DaemonStep, OpenLedger, OpenFails, Started, WriteState, ClearState,
       ReleaseLock, Exit, files
  <2>10. CASE Mishap(p)
    BY <2>2, <2>4, <2>10 DEF Mishap, StartFails, WriteStateFails, Stop, Crash, files
  <2> QED BY <1>1, <2>8, <2>9, <2>10
<1>2. ASSUME NEW p \in Procs, LauncherStep(p) PROVE HolderInv'
  <2>1. UNCHANGED <<lock, read>>
    BY <1>2 DEF LauncherStep, ReadState, Answer, Launch, PollAgain, TimeOut, files
  <2>2. \A q \in Procs : pc[q] \in Holding => pc'[q] \in Holding
    <3>1. CASE Launch(p)
      <4>1. pc[p] = "off" /\ pc' = [pc EXCEPT ![p] = "create"]
        BY <3>1 DEF Launch, Moves, IInv, NotYet
      <4> QED BY <1>0, <4>1 DEF Holding, HasLedger, Down
    <3>2. CASE ~Launch(p)
      BY <1>2, <3>2 DEF LauncherStep, ReadState, Answer, PollAgain, TimeOut
    <3> QED BY <3>1, <3>2
  <2> QED BY <1>0, <2>1, <2>2 DEF HolderInv, Lock
<1>3. CASE UNCHANGED vars
  BY <1>3 DEF vars, HolderInv
<1> QED BY <1>1, <1>2, <1>3 DEF Next

\* Somebody stays on its way at every step that is no trouble.
LEMMA UnderwayStep ==
    ASSUME IInv, HolderInv, [Next]_vars, Underway, troubles' = troubles
    PROVE  Underway'
<1> USE NoneAssumption DEF NoneAssumption
<1>0. /\ pc \in [Procs -> Acquiring \cup HasLedger \cup {"off", "losing", "opening", "gone"}]
      /\ read \in [Procs -> Procs \cup {None}]
      /\ \A q \in Procs : pc[q] \notin Down
  BY DEF IInv, TypeOK, Underway
<1>1. ASSUME NEW p \in Procs, Mishap(p) PROVE FALSE
  <2>1. troubles' = troubles + 1 /\ troubles \in Nat
    BY <1>1, BoundAssumption DEF Mishap, StartFails, WriteStateFails, Stop, Crash, Trouble, IInv,
       TypeOK, BoundAssumption
  <2> QED BY ONLY <2>1, troubles' = troubles
<1>2. PICK w \in Procs : pc[w] \in OnItsWay \/ (pc[w] = "recreate" /\ lock = None)
  BY DEF Underway
<1>3. ASSUME NEW p \in Procs, NEW to, pc' = [pc EXCEPT ![p] = to], to \in OnItsWay
      PROVE  Underway'
  <2>1. pc'[p] \in OnItsWay /\ \A q \in Procs : pc'[q] \notin Down
    BY <1>0, <1>3 DEF OnItsWay, Down
  <2> QED BY <2>1 DEF Underway
<1>4. ASSUME NEW p \in Procs, NEW h \in Procs, h # p, pc[h] \in OnItsWay, NEW to,
             pc' = [pc EXCEPT ![p] = to], to \notin Down
      PROVE  Underway'
  <2>1. pc'[h] \in OnItsWay /\ \A q \in Procs : pc'[q] \notin Down
    BY <1>0, <1>4
  <2> QED BY <2>1 DEF Underway
<1>5. ASSUME NEW p \in Procs, LauncherStep(p) PROVE Underway'
  <2>1. CASE Launch(p)
    BY <1>3, <2>1 DEF Launch, OnItsWay
  <2>2. CASE ~Launch(p)
    <3>1. pc' = pc /\ lock' = lock
      BY <1>5, <2>2 DEF LauncherStep, ReadState, Answer, PollAgain, TimeOut, files
    <3> QED BY <3>1 DEF Underway
  <2> QED BY <2>1, <2>2
<1>6. ASSUME NEW p \in Procs,
             Create(p) \/ Exists(p) \/ ReadLock(p) \/ HolderDead(p) \/ WritePid(p)
             \/ OpenLedger(p) \/ Started(p) \/ WriteState(p)
      PROVE  Underway'
  <2>1. \E to \in OnItsWay : pc' = [pc EXCEPT ![p] = to]
    BY <1>6 DEF Create, Exists, ReadLock, HolderDead, WritePid, OpenLedger, Started, WriteState,
       Goes, OnItsWay
  <2> QED BY <1>3, <2>1
\* The holder is alive, through with the lock and not going down.
<1>7. ASSUME NEW p \in Procs, HolderAlive(p) PROVE Underway'
  <2>1. /\ read[p] \in Procs /\ pc[read[p]] \notin {"off", "gone"}
        /\ pc[p] = "check" /\ pc' = [pc EXCEPT ![p] = "losing"]
    BY <1>7 DEF HolderAlive, Alive, Goes
  <2>2. pc[read[p]] \in Holding
    BY <2>1 DEF HolderInv
  <2>3. pc[read[p]] \in OnItsWay /\ read[p] # p
    BY <1>0, <2>1, <2>2 DEF Holding, HasLedger, OnItsWay, Down
  <2> QED BY <1>4, <2>1, <2>3 DEF Down
<1>8. ASSUME NEW p \in Procs, RemoveStale(p) PROVE Underway'
  <2>1. lock' = None /\ pc' = [pc EXCEPT ![p] = "recreate"]
    BY <1>8 DEF RemoveStale, Goes
  <2>2. pc'[p] = "recreate" /\ \A q \in Procs : pc'[q] \notin Down
    BY <1>0, <2>1 DEF Down
  <2> QED BY <2>1, <2>2 DEF Underway
\* Who is outrun, or has lost, is not the one that counts.
<1>9. ASSUME NEW p \in Procs, Outrun(p) \/ Lose(p) PROVE Underway'
  <2>1. /\ lock' = lock
        /\ (pc[p] = "recreate" /\ lock # None) \/ pc[p] = "losing"
        /\ \E to \in {"losing", "gone"} : pc' = [pc EXCEPT ![p] = to]
    BY <1>9 DEF Outrun, Lose, Goes, files
  <2>2. w # p
    BY <1>2, <2>1 DEF OnItsWay
  <2>3. pc'[w] = pc[w] /\ \A q \in Procs : pc'[q] \notin Down
    BY <1>0, <2>1, <2>2 DEF Down
  <2> QED BY <1>2, <2>1, <2>3 DEF Underway
\* Who has the database open is on its way.
<1>10. ASSUME NEW p \in Procs, OpenFails(p) PROVE Underway'
  <2>1. /\ ledger # None /\ pc[p] = "opening" /\ pc' = [pc EXCEPT ![p] = "gone"]
    BY <1>10 DEF OpenFails, Goes
  <2>2. ledger \in Procs /\ pc[ledger] \in HasLedger
    BY <2>1 DEF IInv, TypeOK
  <2>3. pc[ledger] \in OnItsWay /\ ledger # p
    BY <1>0, <2>1, <2>2 DEF HasLedger, OnItsWay, Down
  <2> QED BY <1>4, <2>1, <2>2, <2>3 DEF Down
<1>11. ASSUME NEW p \in Procs, ClearState(p) \/ ReleaseLock(p) \/ Exit(p) PROVE FALSE
  BY <1>0, <1>11 DEF ClearState, ReleaseLock, Exit, Goes, Down
<1>12. CASE UNCHANGED vars
  BY <1>12 DEF vars, Underway
<1> QED
  BY <1>1, <1>5, <1>6, <1>7, <1>8, <1>9, <1>10, <1>11, <1>12 DEF Next, LockStep, DaemonStep

\* For any number of launchers and any lock file, service.json or dead process they
\* find, the processes that are launched do not all give up in favour of one another.
THEOREM SomebodyRemains == Spec => NotAllLose
<1>1. Init => HolderInv
  BY DEF Init, HolderInv
<1>2. IInv /\ HolderInv /\ [Next]_vars => HolderInv' /\ [Underway /\ troubles' = troubles => Underway']_vars
  BY HolderStep, UnderwayStep
<1> QED
  BY <1>1, <1>2, Inductive, PTL DEF Spec, NotAllLose

\* Every step of a process takes it nearer its end, so TryAcquireLock, which goes back
\* to create the file after it removed a stale one, cannot go round in circles.
THEOREM NoCircles == Spec => NeverInCircles
<1>1. IInv /\ [Next]_vars => [\A p \in Procs : pc'[p] # pc[p] => Distance[pc'[p]] < Distance[pc[p]]]_vars
  <2> SUFFICES ASSUME IInv, [Next]_vars, NEW q \in Procs, pc'[q] # pc[q]
               PROVE  Distance[pc'[q]] < Distance[pc[q]]
    OBVIOUS
  <2>0. pc \in [Procs -> Acquiring \cup HasLedger \cup {"off", "losing", "opening", "gone"}]
    BY DEF IInv, TypeOK
  <2>1. /\ Distance["off"] = 14 /\ Distance["create"] = 13 /\ Distance["read"] = 12
        /\ Distance["check"] = 11 /\ Distance["remove"] = 10 /\ Distance["recreate"] = 9
        /\ Distance["write"] = 8 /\ Distance["opening"] = 7 /\ Distance["starting"] = 6
        /\ Distance["listing"] = 5 /\ Distance["serving"] = 4 /\ Distance["unlisted"] = 4
        /\ Distance["losing"] = 4 /\ Distance["clear"] = 3 /\ Distance["release"] = 2
        /\ Distance["close"] = 1 /\ Distance["gone"] = 0
    BY DEF Distance
  <2>2. ASSUME NEW p \in Procs, LauncherStep(p) PROVE pc[q] = "off" /\ pc'[q] = "create"
    BY <2>0, <2>2 DEF LauncherStep, ReadState, Answer, Launch, PollAgain, TimeOut, Moves, IInv, NotYet
  <2>3. ASSUME NEW p \in Procs, LockStep(p)
        PROVE  \/ pc[q] = "create" /\ pc'[q] \in {"write", "read"}
               \/ pc[q] = "recreate" /\ pc'[q] \in {"write", "losing"}
               \/ pc[q] = "read" /\ pc'[q] = "check"
               \/ pc[q] = "check" /\ pc'[q] \in {"losing", "remove"}
               \/ pc[q] = "remove" /\ pc'[q] = "recreate"
               \/ pc[q] = "write" /\ pc'[q] = "opening"
               \/ pc[q] = "losing" /\ pc'[q] = "gone"
    BY <2>0, <2>3 DEF LockStep, Goes, Create, Exists, ReadLock, HolderAlive, HolderDead, RemoveStale,
       Outrun, WritePid, Lose
  <2>4. ASSUME NEW p \in Procs, DaemonStep(p)
        PROVE  \/ pc[q] = "opening" /\ pc'[q] \in {"starting", "gone"}
               \/ pc[q] = "starting" /\ pc'[q] = "listing"
               \/ pc[q] = "listing" /\ pc'[q] = "serving"
               \/ pc[q] = "clear" /\ pc'[q] = "release"
               \/ pc[q] = "release" /\ pc'[q] = "close"
               \/ pc[q] = "close" /\ pc'[q] = "gone"
    BY <2>0, <2>4 DEF DaemonStep, Goes, OpenLedger, OpenFails, Started, WriteState, ClearState,
       ReleaseLock, Exit
  <2>5. ASSUME NEW p \in Procs, Mishap(p)
        PROVE  \/ pc[q] = "listing" /\ pc'[q] = "unlisted"
               \/ pc[q] \in {"serving", "unlisted"} /\ pc'[q] = "clear"
               \/ pc[q] \notin {"off", "gone"} /\ pc'[q] = "gone"
    BY <2>0, <2>5 DEF Mishap, Goes, StartFails, WriteStateFails, Stop, Crash, Alive
  <2>6. pc[q] \notin {"off", "gone"} => Distance[pc[q]] > 0
    <3>1. pc[q] \in Acquiring \cup HasLedger \cup {"off", "losing", "opening", "gone"}
      BY <2>0
    <3> QED BY ONLY <2>1, <3>1 DEF Acquiring, HasLedger, Down
  <2>7. ASSUME NEW p \in Procs, LauncherStep(p) PROVE Distance[pc'[q]] < Distance[pc[q]]
    BY ONLY <2>1, <2>2, <2>7
  <2>8. ASSUME NEW p \in Procs, LockStep(p) PROVE Distance[pc'[q]] < Distance[pc[q]]
    BY ONLY <2>1, <2>3, <2>8
  <2>9. ASSUME NEW p \in Procs, DaemonStep(p) PROVE Distance[pc'[q]] < Distance[pc[q]]
    BY ONLY <2>1, <2>4, <2>9
  <2>10. ASSUME NEW p \in Procs, Mishap(p) PROVE Distance[pc'[q]] < Distance[pc[q]]
    BY ONLY <2>1, <2>5, <2>6, <2>10
  <2> QED BY <2>7, <2>8, <2>9, <2>10 DEF Next, vars
<1> QED
  BY <1>1, Inductive, PTL DEF Spec, NeverInCircles
=============================================================================
