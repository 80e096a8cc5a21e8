---------------------------- MODULE ServiceLock ----------------------------
(***************************************************************************)
(* How one daemon comes to serve a user: launchers (runLauncher,           *)
(* runClient), the background processes they spawn (runDaemon), the lock   *)
(* file (internal/service/lock.go), service.json (state.go) and the        *)
(* database file, which bbolt locks for the process that opened it.        *)
(*                                                                         *)
(* A member of Procs is a launcher together with the background process it *)
(* may spawn.  Every access to a file is a step.  A process that is gone   *)
(* leaves its files; its PID is taken not to be used again.                *)
(***************************************************************************)
EXTENDS Naturals

CONSTANTS Procs, None,
          MaxTroubles   \* bound: stops, crashes and failures

ASSUME NoneAssumption == None \notin Procs
ASSUME BoundAssumption == MaxTroubles \in Nat

VARIABLES lock,      \* daemon.lock: None, or who created it and whether its PID is in it
          state,     \* service.json: whose address
          ledger,    \* who has the database open
          pc,        \* where each background process is
          read,      \* the PID it read from the lock file
          launcher,  \* where each launcher is
          found,     \* the address it last read
          troubles   \* history: stops, crashes and failures so far

vars == <<lock, state, ledger, pc, read, launcher, found, troubles>>
files == <<lock, state, ledger>>

Lock == [by : Procs, written : BOOLEAN]
Acquiring == {"create", "read", "check", "remove", "recreate", "write"}
Down == {"clear", "release", "close"}
HasLedger == {"starting", "listing", "serving", "unlisted"} \cup Down
Alive(p) == p \in Procs /\ pc[p] \notin {"off", "gone"}

TypeOK ==
    /\ lock \in Lock \cup {None}
    /\ state \in Procs \cup {None}
    /\ ledger \in {p \in Procs : pc[p] \in HasLedger} \cup {None}
    /\ pc \in [Procs -> Acquiring \cup HasLedger \cup {"off", "losing", "opening", "gone"}]
    /\ read \in [Procs -> Procs \cup {None}]
    /\ launcher \in [Procs -> {"idle", "asked", "waiting", "polled", "answered", "failed"}]
    /\ found \in [Procs -> Procs \cup {None}]
    /\ troubles \in 0..MaxTroubles

Init ==
    /\ lock = None /\ state = None /\ ledger = None
    /\ pc = [p \in Procs |-> "off"] /\ read = [p \in Procs |-> None]
    /\ launcher = [p \in Procs |-> "idle"] /\ found = [p \in Procs |-> None]
    /\ troubles = 0

-----------------------------------------------------------------------------
(* A launcher                                                              *)

Moves(l, from, to) == launcher[l] = from /\ launcher' = [launcher EXCEPT ![l] = to]

\* ReadState, first of all and then every 200 ms of WaitForReady.
ReadState(l) ==
    /\ Moves(l, "idle", "asked") \/ Moves(l, "waiting", "polled")
    /\ found' = [found EXCEPT ![l] = state]
    /\ UNCHANGED <<files, pc, read, troubles>>

\* IsAlive of what was read: its address is the answer.
Answer(l) ==
    /\ Alive(found[l])
    /\ Moves(l, "asked", "answered") \/ Moves(l, "polled", "answered")
    /\ UNCHANGED <<files, pc, read, found, troubles>>

\* Nobody answers: LaunchBackground.
Launch(l) ==
    /\ ~Alive(found[l])
    /\ Moves(l, "asked", "waiting")
    /\ pc' = [pc EXCEPT ![l] = "create"]
    /\ found' = [found EXCEPT ![l] = None]
    /\ UNCHANGED <<files, read, troubles>>

PollAgain(l) ==
    /\ ~Alive(found[l])
    /\ Moves(l, "polled", "waiting")
    /\ found' = [found EXCEPT ![l] = None]
    /\ UNCHANGED <<files, pc, read, troubles>>

TimeOut(l) ==
    /\ Moves(l, "waiting", "failed")
    /\ UNCHANGED <<files, pc, read, found, troubles>>

-----------------------------------------------------------------------------
(* TryAcquireLock                                                          *)

Goes(p, from, to) == pc[p] = from /\ pc' = [pc EXCEPT ![p] = to]
Keeps == UNCHANGED <<launcher, found, troubles>>

\* O_CREATE|O_EXCL, the first and the second time.
Create(p) ==
    /\ lock = None
    /\ Goes(p, "create", "write") \/ Goes(p, "recreate", "write")
    /\ lock' = [by |-> p, written |-> FALSE]
    /\ UNCHANGED <<state, ledger, read>> /\ Keeps

Exists(p) ==
    /\ lock # None
    /\ Goes(p, "create", "read")
    /\ UNCHANGED <<files, read>> /\ Keeps

\* A file that is empty, or gone again, names nobody.
ReadLock(p) ==
    /\ Goes(p, "read", "check")
    /\ read' = [read EXCEPT ![p] = IF lock # None /\ lock.written THEN lock.by ELSE None]
    /\ UNCHANGED files /\ Keeps

HolderAlive(p) ==
    /\ Alive(read[p])
    /\ Goes(p, "check", "losing")
    /\ read' = [read EXCEPT ![p] = None]
    /\ UNCHANGED files /\ Keeps

HolderDead(p) ==
    /\ ~Alive(read[p])
    /\ Goes(p, "check", "remove")
    /\ read' = [read EXCEPT ![p] = None]
    /\ UNCHANGED files /\ Keeps

\* Mutant: the lock is given up once the stale file is removed.
RemoveAndLose(p) ==
    /\ Goes(p, "remove", "losing")
    /\ lock' = None
    /\ UNCHANGED <<state, ledger, read>> /\ Keeps

\* Whatever file is there by now.
RemoveStale(p) ==
    /\ Goes(p, "remove", "recreate")
    /\ lock' = None
    /\ UNCHANGED <<state, ledger, read>> /\ Keeps

Outrun(p) ==
    /\ lock # None
    /\ Goes(p, "recreate", "losing")
    /\ UNCHANGED <<files, read>> /\ Keeps

\* The PID goes into the file that p created, if that is still the lock.
WritePid(p) ==
    /\ Goes(p, "write", "opening")
    /\ lock' = IF lock # None /\ lock.by = p THEN [lock EXCEPT !.written = TRUE] ELSE lock
    /\ UNCHANGED <<state, ledger, read>> /\ Keeps

\* The loser waits for another daemon, says so in its log and ends.
Lose(p) ==
    /\ Goes(p, "losing", "gone")
    /\ UNCHANGED <<files, read>> /\ Keeps

-----------------------------------------------------------------------------
(* runDaemon                                                               *)

\* Mutant: a database that any number of processes open.
OpenShared(p) ==
    /\ Goes(p, "opening", "starting")
    /\ ledger' = p
    /\ UNCHANGED <<lock, state, read>> /\ Keeps

\* bbolt.Open takes the file's lock ...
OpenLedger(p) ==
    /\ ledger = None
    /\ Goes(p, "opening", "starting")
    /\ ledger' = p
    /\ UNCHANGED <<lock, state, read>> /\ Keeps

\* ... or gives up after a second, and the process exits.
OpenFails(p) ==
    /\ ledger # None
    /\ Goes(p, "opening", "gone")
    /\ UNCHANGED <<files, read>> /\ Keeps

Closed(p) == IF ledger = p THEN None ELSE ledger
Trouble == troubles < MaxTroubles /\ troubles' = troubles + 1

\* Directories, keys, ports or Docker fail: os.Exit, or a return when the API
\* cannot bind.  The lock file stays.
StartFails(p) ==
    /\ Goes(p, "opening", "gone") \/ Goes(p, "starting", "gone")
    /\ ledger' = Closed(p)
    /\ Trouble
    /\ UNCHANGED <<lock, state, read, launcher, found>>

Started(p) ==
    /\ Goes(p, "starting", "listing")
    /\ UNCHANGED <<files, read>> /\ Keeps

WriteState(p) ==
    /\ Goes(p, "listing", "serving")
    /\ state' = p
    /\ UNCHANGED <<lock, ledger, read>> /\ Keeps

\* Only logged: the daemon serves but nobody finds it.
WriteStateFails(p) ==
    /\ Goes(p, "listing", "unlisted")
    /\ Trouble
    /\ UNCHANGED <<files, read, launcher, found>>

\* A signal, the API, or idleness.
Stop(p) ==
    /\ Goes(p, "serving", "clear") \/ Goes(p, "unlisted", "clear")
    /\ Trouble
    /\ UNCHANGED <<files, read, launcher, found>>

\* Mutant: the database is closed before service.json is removed.
CloseThenClear(p) ==
    /\ \/ ledger = p /\ ledger' = None /\ UNCHANGED <<state, pc>>
       \/ ledger # p /\ state' = None /\ UNCHANGED ledger /\ Goes(p, "clear", "release")
    /\ pc[p] = "clear"
    /\ UNCHANGED <<lock, read>> /\ Keeps

ClearState(p) ==
    /\ Goes(p, "clear", "release")
    /\ state' = None
    /\ UNCHANGED <<lock, ledger, read>> /\ Keeps

\* Whoever's lock it is.
ReleaseLock(p) ==
    /\ Goes(p, "release", "close")
    /\ lock' = None
    /\ UNCHANGED <<state, ledger, read>> /\ Keeps

\* The listener is closed, the goroutines are waited for, the deferred Close runs.
Exit(p) ==
    /\ Goes(p, "close", "gone")
    /\ ledger' = Closed(p)
    /\ UNCHANGED <<lock, state, read>> /\ Keeps

\* Mutant: the database stays locked by the dead.
CrashLocked(p) ==
    /\ Alive(p)
    /\ pc' = [pc EXCEPT ![p] = "gone"]
    /\ Trouble
    /\ read' = [read EXCEPT ![p] = None]
    /\ UNCHANGED <<files, launcher, found>>

\* At any moment, KillIfOutdated's kill included; the system unlocks the database.
Crash(p) ==
    /\ Alive(p)
    /\ pc' = [pc EXCEPT ![p] = "gone"]
    /\ ledger' = Closed(p)
    /\ Trouble
    /\ read' = [read EXCEPT ![p] = None]
    /\ UNCHANGED <<lock, state, launcher, found>>

-----------------------------------------------------------------------------

LauncherStep(l) == ReadState(l) \/ Answer(l) \/ Launch(l) \/ PollAgain(l) \/ TimeOut(l)
LockStep(p) ==
    \/ Create(p) \/ Exists(p) \/ ReadLock(p) \/ HolderAlive(p) \/ HolderDead(p) \/ RemoveStale(p)
    \/ Outrun(p) \/ WritePid(p) \/ Lose(p)
DaemonStep(p) ==
    \/ OpenLedger(p) \/ OpenFails(p) \/ Started(p) \/ WriteState(p)
    \/ ClearState(p) \/ ReleaseLock(p) \/ Exit(p)
Mishap(p) == StartFails(p) \/ WriteStateFails(p) \/ Stop(p) \/ Crash(p)

Next == \E p \in Procs : LauncherStep(p) \/ LockStep(p) \/ DaemonStep(p) \/ Mishap(p)
Spec == Init /\ [][Next]_vars

\* A process that can go on does; nobody is made to call a launcher.
FairSpec == Spec /\ \A p \in Procs : WF_vars(LockStep(p) \/ DaemonStep(p))

-----------------------------------------------------------------------------
(* Properties                                                              *)

\* An address whose process is alive is that of the only process that has the
\* database open: two that both believe to hold the lock never both serve.
StateHoldsLedger == Alive(state) => ledger = state /\ \A q \in Procs : pc[q] \in HasLedger => q = state

\* A daemon that serves is the one service.json names: no late ClearState of
\* another removes it (the order of the shutdown in runDaemon).
ServingIsFound == \A p \in Procs : pc[p] = "serving" => state = p

\* However the lock file was left, a background process that is launched while
\* nobody goes down brings about a daemon that serves, unless a stop, a
\* crash or a failure intervenes.
LaunchLeadsToService == \A n \in 0..MaxTroubles :
    (\E p \in Procs : pc[p] = "create") /\ (\A q \in Procs : pc[q] \notin Down) /\ troubles = n
        ~> troubles # n \/ \E q \in Procs : pc[q] \in {"serving", "unlisted"}
=============================================================================
