--------------------------- MODULE SubprocManager ---------------------------
(***************************************************************************)
(* The process manager of the "python" output mode (subproc_manager.py):   *)
(* programs are children of the configurator, started by one starter       *)
(* thread each, restarted by the state checkers and killed at shutdown.    *)
(*                                                                         *)
(* The processes a manager launches for a program are numbered 1, 2, ...   *)
(* A process writes its stop_to_init line, then its init_to_running line,  *)
(* or stays silent from some point on: a program that hangs and one that   *)
(* exited look the same to the manager, which never polls its children.    *)
(***************************************************************************)
EXTENDS ProcessManager

CONSTANT Launchable  \* the programs whose command Popen can execute

ASSUME LaunchableAssumption == Launchable \subseteq Programs

VARIABLES
    starterPc,    \* where the starter thread of a program is
    startersRun,  \* SubprocRunnerThread.running, of all starters
    process,      \* SubprocRunnerThread._process: a process, or 0 for None
    launched,     \* how many processes have been launched for a program
    alive,        \* those that have not been killed
    printed,      \* which line has been written by which process
    unjoined      \* history: the starters whose join timed out at shutdown

processVars == <<process, launched, alive, printed>>
subprocVars == <<starterPc, startersRun, process, launched, alive, printed, unjoined>>
vars        == <<managerVars, subprocVars>>

StarterPc == {"check", "waiting", "spawn", "hung", "addFinished", "setRunning", "ended"}

TypeOK ==
    /\ ManagerTypeOK
    /\ starterPc \in [Programs -> StarterPc]
    /\ startersRun \in BOOLEAN
    /\ process \in [Programs -> Nat]
    /\ launched \in [Programs -> Nat]
    /\ alive \in [Programs -> SUBSET Nat]
    /\ printed \in [Programs -> SUBSET (Nat \X Line)]
    /\ unjoined \subseteq Programs

(***************************************************************************)
(* setup_program_data and start_programs: every thread is at its start.    *)
(* The signal handlers are installed after that (connect_view).            *)
(***************************************************************************)
Init ==
    /\ ManagerInit
    /\ starterPc = [p \in Programs |-> "check"]
    /\ startersRun = TRUE
    /\ process = [p \in Programs |-> 0]
    /\ launched = [p \in Programs |-> 0]
    /\ alive = [p \in Programs |-> {}]
    /\ printed = [p \in Programs |-> {}]
    /\ unjoined = {}

-----------------------------------------------------------------------------
(* Programs *)

\* The line a process writes next; the first line must precede the second.
NextLine(p, i) ==
    IF <<i, "stop_to_init">> \notin printed[p] THEN "stop_to_init" ELSE "init_to_running"

(***************************************************************************)
(* A process of a program with transitions writes a line that matters.     *)
(***************************************************************************)
Write(p, i) ==
    /\ p \in UseStateChecking
    /\ i \in alive[p]
    /\ <<i, "init_to_running">> \notin printed[p]
    /\ printed' = [printed EXCEPT ![p] = @ \cup {<<i, NextLine(p, i)>>}]
    /\ pipe' = [pipe EXCEPT ![p] = Append(@, NextLine(p, i))]
    /\ UNCHANGED <<programState, curNumRestarts, recordVars, checkerPc, listenerPc,
                   cleanupVars, starterPc, startersRun, process, launched, alive, unjoined>>

\* Popen, with the named pipe opened for writing as the process's output.
Popen(p) ==
    /\ launched' = [launched EXCEPT ![p] = @ + 1]
    /\ alive' = [alive EXCEPT ![p] = @ \cup {launched[p] + 1}]

(***************************************************************************)
(* Opening a named pipe for writing waits for a reader; once the shutdown  *)
(* has deleted the pipes it fails, but an open that waits already then     *)
(* waits for ever.  Opening and Popen are one step: nobody looks at the    *)
(* process in between.                                                     *)
(***************************************************************************)
PipesDeleted     == cleanupPc = "down"
PipeHasReader(p) == ~PipesDeleted /\ listenerPc[p] # "ended"

-----------------------------------------------------------------------------
(* The starter thread, _runner_thread_funct *)

StarterChecks(p) ==
    /\ starterPc[p] = "check"
    /\ starterPc' = [starterPc EXCEPT ![p] =
          CASE ~startersRun        -> "ended"
            [] PreconditionsMet(p) -> "spawn"
            [] OTHER               -> "waiting"]
    /\ UNCHANGED <<managerVars, startersRun, processVars, unjoined>>

\* Mutant of StarterWakes: a notification is taken for met preconditions.
StarterWakesWithoutCheck(p) ==
    /\ starterPc[p] = "waiting"
    /\ starterPc' = [starterPc EXCEPT ![p] = "spawn"]
    /\ UNCHANGED <<managerVars, startersRun, processVars, unjoined>>

\* Mutant of StarterWakes: the starter waits only once and gives up then.
StarterWaitsOnce(p) ==
    /\ starterPc[p] = "waiting"
    /\ starterPc' = [starterPc EXCEPT ![p] = IF PreconditionsMet(p) THEN "spawn" ELSE "ended"]
    /\ UNCHANGED <<managerVars, startersRun, processVars, unjoined>>

(***************************************************************************)
(* The wait on cv_finished_programs is over, by a notification or after    *)
(* GENERAL_SUBPROCESS_TIMEOUT; the preconditions are checked again, but    *)
(* not the stop signal.                                                    *)
(***************************************************************************)
StarterWakes(p) ==
    /\ starterPc[p] = "waiting"
    /\ starterPc' = [starterPc EXCEPT ![p] = IF PreconditionsMet(p) THEN "spawn" ELSE "check"]
    /\ UNCHANGED <<managerVars, startersRun, processVars, unjoined>>

StarterSpawns(p) ==
    /\ starterPc[p] = "spawn"
    /\ p \in Launchable
    /\ PipeHasReader(p)
    /\ Popen(p)
    /\ process' = [process EXCEPT ![p] = launched[p] + 1]
    /\ starterPc' = [starterPc EXCEPT ![p] = IF p \in UseStateChecking THEN "ended"
                                                                       ELSE "addFinished"]
    /\ UNCHANGED <<managerVars, startersRun, printed, unjoined>>

\* open or Popen raises: the thread dies with the exception.
StarterDies(p) ==
    /\ starterPc[p] = "spawn"
    /\ \/ PipeHasReader(p) /\ p \notin Launchable
       \/ PipesDeleted
    /\ starterPc' = [starterPc EXCEPT ![p] = "ended"]
    /\ UNCHANGED <<managerVars, startersRun, processVars, unjoined>>

\* The listener has gone before the pipe: open waits for a reader for ever.
StarterHangs(p) ==
    /\ starterPc[p] = "spawn"
    /\ ~PipeHasReader(p) /\ ~PipesDeleted
    /\ starterPc' = [starterPc EXCEPT ![p] = "hung"]
    /\ UNCHANGED <<managerVars, startersRun, processVars, unjoined>>

StarterAddsFinished(p) ==
    /\ starterPc[p] = "addFinished"
    /\ finished' = finished \cup {p}
    /\ starterPc' = [starterPc EXCEPT ![p] = "setRunning"]
    /\ UNCHANGED <<programState, curNumRestarts, initialised, checkerPc, listenerPc, pipe,
                   cleanupVars, startersRun, processVars, unjoined>>

\* The state is written without its lock and without notifying the checker.
StarterSetsRunning(p) ==
    /\ starterPc[p] = "setRunning"
    /\ programState' = [programState EXCEPT ![p] = "RUNNING"]
    /\ starterPc' = [starterPc EXCEPT ![p] = "ended"]
    /\ UNCHANGED <<curNumRestarts, recordVars, checkerPc, listenerPc, pipe, cleanupVars,
                   startersRun, processVars, unjoined>>

Starter(p) ==
    \/ StarterChecks(p)
    \/ StarterWakes(p)
    \/ StarterSpawns(p)
    \/ StarterDies(p)
    \/ StarterHangs(p)
    \/ StarterAddsFinished(p)
    \/ StarterSetsRunning(p)

-----------------------------------------------------------------------------
(* SubprocessManager._handle_restart, by a checker that holds the state's lock *)

\* The starter has no process to restart: it is stuck, dead or not there yet.
NothingToRestart(p) ==
    /\ checkerPc[p] = "restart"
    /\ process[p] = 0
    /\ checkerPc' = [checkerPc EXCEPT ![p] = "loop"]
    /\ UNCHANGED <<programState, curNumRestarts, recordVars, listenerPc, pipe, cleanupVars,
                    subprocVars>>

(***************************************************************************)
(* Kills the process the starter refers to.  A killed process does nothing *)
(* any more, though it may take the kernel a while to let wait() return.   *)
(***************************************************************************)
RestartKills(p) ==
    /\ checkerPc[p] = "restart"
    /\ process[p] # 0
    /\ alive' = [alive EXCEPT ![p] = @ \ {process[p]}]
    /\ curNumRestarts' = [curNumRestarts EXCEPT ![p] = @ + 1]
    /\ checkerPc' = [checkerPc EXCEPT ![p] = "killed"]
    /\ UNCHANGED <<programState, recordVars, listenerPc, pipe, cleanupVars, starterPc,
                    startersRun, process, launched, printed, unjoined>>

\* wait() raises TimeoutExpired.
RestartTimesOut(p) ==
    /\ checkerPc[p] = "killed"
    /\ checkerPc' = [checkerPc EXCEPT ![p] = "loop"]
    /\ UNCHANGED <<programState, curNumRestarts, recordVars, listenerPc, pipe, cleanupVars,
                    subprocVars>>

\* Mutant of RestartStops: a state that nothing leaves.
RestartTriggers(p) ==
    /\ checkerPc[p] = "killed"
    /\ programState' = [programState EXCEPT ![p] = "TRIGGER_RESTART"]
    /\ checkerPc' = [checkerPc EXCEPT ![p] = "relaunch"]
    /\ UNCHANGED <<curNumRestarts, recordVars, listenerPc, pipe, cleanupVars, subprocVars>>

\* wait() returns; change_state_to needs no waiting, the lock is held already.
RestartStops(p) ==
    /\ checkerPc[p] = "killed"
    /\ programState' = [programState EXCEPT ![p] = "STOPPED"]
    /\ checkerPc' = [checkerPc EXCEPT ![p] = "relaunch"]
    /\ UNCHANGED <<curNumRestarts, recordVars, listenerPc, pipe, cleanupVars, subprocVars>>

(***************************************************************************)
(* A new process is launched.  It is kept as self._process of the manager; *)
(* the starter still refers to the killed one.                             *)
(***************************************************************************)
RestartSpawns(p) ==
    /\ checkerPc[p] = "relaunch"
    /\ PipeHasReader(p)
    /\ Popen(p)
    /\ checkerPc' = [checkerPc EXCEPT ![p] = "loop"]
    /\ UNCHANGED <<programState, curNumRestarts, recordVars, listenerPc, pipe, cleanupVars,
                    starterPc, startersRun, process, printed, unjoined>>

\* The pipe is gone: the checker dies of the exception.
RestartFails(p) ==
    /\ checkerPc[p] = "relaunch"
    /\ PipesDeleted
    /\ checkerPc' = [checkerPc EXCEPT ![p] = "ended"]
    /\ UNCHANGED <<programState, curNumRestarts, recordVars, listenerPc, pipe, cleanupVars,
                    subprocVars>>

\* As StarterHangs; the checker keeps the state's lock.
RestartHangs(p) ==
    /\ checkerPc[p] = "relaunch"
    /\ ~PipeHasReader(p) /\ ~PipesDeleted
    /\ checkerPc' = [checkerPc EXCEPT ![p] = "hung"]
    /\ UNCHANGED <<programState, curNumRestarts, recordVars, listenerPc, pipe, cleanupVars,
                    subprocVars>>

Restart(p) ==
    \/ NothingToRestart(p)
    \/ RestartKills(p)
    \/ RestartTimesOut(p)
    \/ RestartStops(p)
    \/ RestartSpawns(p)
    \/ RestartFails(p)
    \/ RestartHangs(p)

-----------------------------------------------------------------------------
(* SubprocessManager.cleanup_and_shutdown, run by the signal handler *)

\* The main thread's place in the shutdown is all that changes.
CleanupGoesTo(pc) ==
    /\ cleanupPc' = pc
    /\ UNCHANGED <<programState, curNumRestarts, recordVars, checkerPc, listenerPc, pipe,
                    stopWatchdogs, listening, unnotified, subprocVars>>

\* Ctrl+C or SIGTERM.  What follows is the handler, on the main thread.
Shutdown == cleanupPc = "up" /\ CleanupGoesTo("dockerDown")

\* Mutant of StopStarters: programs are killed without waiting for the starters.
StopStartersWithoutJoin ==
    /\ startersRun' = FALSE
    /\ cleanupPc' = "killPrograms"
    /\ UNCHANGED <<programState, curNumRestarts, recordVars, checkerPc, listenerPc, pipe,
                    stopWatchdogs, listening, unnotified, starterPc, processVars, unjoined>>

(***************************************************************************)
(* The docker part is over: the starters are told to stop and woken up,    *)
(* which is one more way for their timed wait to end.                      *)
(***************************************************************************)
StopStarters ==
    /\ startersRun' = FALSE
    /\ cleanupPc' = "stopStarters"
    /\ UNCHANGED <<programState, curNumRestarts, recordVars, checkerPc, listenerPc, pipe,
                    stopWatchdogs, listening, unnotified, starterPc, processVars, unjoined>>

(***************************************************************************)
(* docker compose down, which is given 30 seconds.  Its exit code does not *)
(* matter, and any exception but the timeout is logged.                    *)
(***************************************************************************)
DockerDown ==
    /\ cleanupPc = "dockerDown"
    /\ StopStarters \/ CleanupGoesTo("dockerKill")

(***************************************************************************)
(* docker compose kill, within the except clause.  It has no time limit,   *)
(* so nothing says that it ever returns; and nothing catches what it       *)
(* raises: the handler and the main thread are left with nothing stopped,  *)
(* the other threads go on, and so does the wait for the next Ctrl+C.      *)
(***************************************************************************)
DockerKill ==
    /\ cleanupPc = "dockerKill"
    /\ StopStarters \/ CleanupGoesTo("up")

\* The joins are timed: starters that are still busy then are left behind.
JoinStarters ==
    /\ cleanupPc = "stopStarters"
    /\ unjoined' = {p \in Programs : starterPc[p] # "ended"}
    /\ cleanupPc' = "killPrograms"
    /\ UNCHANGED <<programState, curNumRestarts, recordVars, checkerPc, listenerPc, pipe,
                    stopWatchdogs, listening, unnotified, starterPc, startersRun, processVars>>

KillPrograms ==
    /\ cleanupPc = "killPrograms"
    /\ alive' = [p \in Programs |-> alive[p] \ {process[p]}]
    /\ cleanupPc' = "stopWatchdogs"
    /\ UNCHANGED <<programState, curNumRestarts, recordVars, checkerPc, listenerPc, pipe,
                    stopWatchdogs, listening, unnotified, starterPc, startersRun, process,
                    launched, printed, unjoined>>

Cleanup ==
    \/ DockerDown
    \/ JoinStarters
    \/ KillPrograms
    \/ BaseCleanup /\ UNCHANGED subprocVars

-----------------------------------------------------------------------------
Checker(p) ==
    \/ Watch(p) /\ UNCHANGED subprocVars
    \/ Restart(p)

ListenerThread(p) == Listener(p) /\ UNCHANGED subprocVars

Supervise ==
    \E p \in Programs :
        \/ Starter(p)
        \/ Checker(p)
        \/ ListenerThread(p)
        \/ \E i \in alive[p] : Write(p, i)

Next == Supervise \/ Shutdown \/ DockerKill \/ Cleanup

Spec == Init /\ [][Next]_vars

(***************************************************************************)
(* Threads that can take a step eventually do, and a timed wait ends.      *)
(* Nothing makes a program write its lines, docker compose kill return, or *)
(* a user press Ctrl+C.                                                    *)
(***************************************************************************)
Fairness ==
    /\ \A p \in Programs : WF_vars(Starter(p)) /\ WF_vars(Checker(p))
                             /\ WF_vars(ListenerThread(p))
    /\ WF_vars(Cleanup)

FairSpec == Spec /\ Fairness

-----------------------------------------------------------------------------
(* Safety *)

Started == {p \in Programs : launched[p] > 0}

Order == INSTANCE StartupOrder WITH started <- Started

(***************************************************************************)
(* Whatever the interleaving of the threads, with restarts, a shutdown and *)
(* programs that hang, this manager launches a program only after the      *)
(* programs it depends on are recorded, and records a program only after   *)
(* its launch and, with transitions, its initialization                    *)
(* (are_preconditions_met, the re-check after the wait, change_state_on_   *)
(* output).                                                                *)
(***************************************************************************)
ImplementsStartupOrder == Order!Spec

(***************************************************************************)
(* Programs that wait for each other, for a program that was not selected, *)
(* or for the initialization of a program without transitions are never    *)
(* launched: neither the timed waits of the starters nor the restarts of   *)
(* the checkers get them going.                                            *)
(***************************************************************************)
BlockedNeverStart == Order!BlockedNeverStart

\* Some process of p wrote the line that says p is running.
Earned(p) == \E i \in 1..launched[p] : <<i, "init_to_running">> \in printed[p]

(***************************************************************************)
(* The record is earned: a program with transitions is in it only if one   *)
(* of its processes wrote the line that says it runs, and was launched     *)
(* before that.  This is what the dependent programs rely upon when stale  *)
(* output, restarts and the unlocked reads of the listener interleave.     *)
(***************************************************************************)
RecordIsEarned ==
    \A p \in finished :
        /\ launched[p] > 0
        /\ p \in UseStateChecking => Earned(p)

(***************************************************************************)
(* A watchdog restarts its program at most max_num_restarts times, and no  *)
(* program is ever launched by both its starter and its watchdog: each     *)
(* launch after the first one has used up a restart.                       *)
(***************************************************************************)
RestartsBounded ==
    \A p \in Programs :
        /\ curNumRestarts[p] <= MaxRestarts[p]
        /\ launched[p] <= 1 + curNumRestarts[p]

(***************************************************************************)
(* The lock of cv_state_change protects programs with transitions: once    *)
(* such a program is RUNNING its watchdog neither resets its state nor     *)
(* kills or relaunches it, even if the watchdog had timed out before.      *)
(***************************************************************************)
NoRestartOnceRunning ==
    [][\A p \in UseStateChecking :
          programState[p] = "RUNNING" =>
              /\ programState'[p] = "RUNNING"
              /\ curNumRestarts'[p] = curNumRestarts[p]
              /\ launched'[p] = launched[p]]_vars

\* Where the main thread is before the shutdown has stopped anything.
Docker == {"up", "dockerDown", "dockerKill"}

(***************************************************************************)
(* After the kill loop of the shutdown (if docker lets it get there) the   *)
(* process that the starter launched is dead for good, if the starter was  *)
(* joined: only processes launched by watchdogs may survive.  (A starter   *)
(* left behind by the timed join may still launch its program after the    *)
(* kill loop.)                                                             *)
(***************************************************************************)
OnlyRestartedSurvive ==
    cleanupPc \notin Docker \cup {"stopStarters", "killPrograms"} =>
        \A p \in Programs \ unjoined : 1 \notin alive[p]

-----------------------------------------------------------------------------
(* The inductive invariant behind these properties *)

(***************************************************************************)
(* A starter launches at most one process, and the only one it ever refers *)
(* to is the first.                                                        *)
(***************************************************************************)
LaunchInv ==
    \A p \in Programs :
        /\ process[p] \in {0, 1}
        /\ process[p] = 0 <=> launched[p] = 0
        /\ starterPc[p] \in {"check", "waiting", "spawn"} => launched[p] = 0
        /\ starterPc[p] \in {"addFinished", "setRunning"}
              => launched[p] > 0 /\ p \notin UseStateChecking
        /\ alive[p] \subseteq 1..launched[p]

\* A checker that is about to launch a process has counted it before.
RestartInv ==
    \A p \in Programs :
        /\ curNumRestarts[p] <= MaxRestarts[p]
        /\ launched[p] <= 1 + curNumRestarts[p]
        /\ checkerPc[p] = "restart" => curNumRestarts[p] < MaxRestarts[p]
        /\ checkerPc[p] \in {"killed", "relaunch"}
              => launched[p] <= curNumRestarts[p] /\ process[p] # 0

\* While a checker restarts a program with transitions, nobody sets it RUNNING.
LockInv ==
    \A p \in UseStateChecking : ~StateLockFree(p) => programState[p] # "RUNNING"

(***************************************************************************)
(* Whatever the listener is about to do rests on a line that was written,  *)
(* by a process that may be dead by now; and a program is initializing     *)
(* only if it is in the record of initialised programs or about to be.     *)
(***************************************************************************)
OutputOf(p) ==
    /\ pipe[p] # <<>> => p \in UseStateChecking /\ launched[p] > 0
    /\ \A k \in 1..Len(pipe[p]) : pipe[p][k] = "init_to_running" => Earned(p)
    /\ listenerPc[p] \notin {"read", "ended"} => p \in UseStateChecking /\ launched[p] > 0
    /\ listenerPc[p] = "setInitializing" => programState[p] # "RUNNING"
    /\ listenerPc[p] \in {"setRunning", "addFinished"} => Earned(p) /\ p \in initialised
    /\ programState[p] = "INITIALIZING" => p \in initialised \/ listenerPc[p] = "addInitialised"
    /\ programState[p] = "RUNNING" => launched[p] > 0

OutputInv == \A p \in Programs : OutputOf(p)

RecordInv ==
    /\ \A p \in initialised : launched[p] > 0 /\ p \in UseStateChecking
    /\ \A p \in finished :
          /\ launched[p] > 0
          /\ p \in UseStateChecking => Earned(p) /\ p \in initialised

OrderInv ==
    \A p \in Programs : starterPc[p] = "spawn" \/ launched[p] > 0 => PreconditionsMet(p)

SurvivorInv ==
    /\ cleanupPc \notin Docker \cup {"stopStarters"} =>
          \A p \in Programs \ unjoined : starterPc[p] = "ended"
    /\ OnlyRestartedSurvive

IndInv ==
    /\ TypeOK
    /\ LaunchInv
    /\ RestartInv
    /\ LockInv
    /\ OutputInv
    /\ RecordInv
    /\ OrderInv
    /\ SurvivorInv

-----------------------------------------------------------------------------
(* What the documentation says and the code does not do *)

(***************************************************************************)
(* subproc_manager.py:80: the starter threads' "List elements contain      *)
(* references to running subprocesses": the process of a program that is   *)
(* alive is the one its starter refers to, which restarts and the shutdown *)
(* kill.                                                                   *)
(***************************************************************************)
AliveIsReferenced ==
    \A p \in Programs : alive[p] \subseteq {process[p]}

(***************************************************************************)
(* README.md:92: "An initializing program printing the line defined in     *)
(* init_to_running will be considered running": a program with transitions *)
(* becomes RUNNING only from INITIALIZING.                                 *)
(***************************************************************************)
RunningOnlyFromInitializing ==
    [][\A p \in UseStateChecking :
          (programState[p] # "RUNNING" /\ programState'[p] = "RUNNING")
              => programState[p] = "INITIALIZING"]_vars

-----------------------------------------------------------------------------
(* Liveness *)

(***************************************************************************)
(* A starter whose program's preconditions are met launches it, even if it *)
(* missed the notification, unless the software is shut down.              *)
(***************************************************************************)
ReadyIsLaunched ==
    \A p \in Launchable :
        PreconditionsMet(p) ~> (launched[p] > 0 \/ cleanupPc # "up")

(***************************************************************************)
(* A launched program with transitions ends up RUNNING, or its watchdog    *)
(* has used up all restarts: no hanging program is forgotten, whatever     *)
(* notifications the watchdog misses.                                      *)
(***************************************************************************)
RunningOrExhausted ==
    \A p \in UseStateChecking :
        launched[p] > 0 ~> \/ programState[p] = "RUNNING"
                          \/ curNumRestarts[p] = MaxRestarts[p]
                          \/ cleanupPc # "up"

(***************************************************************************)
(* Once the docker part is behind it the shutdown comes to its end: it     *)
(* waits for locks, but every holder gives up its lock, and all its joins  *)
(* are timed.  (In the docker part it may stay for ever, see DockerKill.)  *)
(***************************************************************************)
ShutdownCompletes == cleanupPc \notin Docker ~> cleanupPc = "down"

=============================================================================
