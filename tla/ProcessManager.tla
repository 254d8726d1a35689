--------------------------- MODULE ProcessManager ---------------------------
(***************************************************************************)
(* The part of the supervision of programs that both process managers      *)
(* share: ProgramStateData and ProgramRecord (program_state_monitor.py),   *)
(* the state checker threads and the common half of the shutdown           *)
(* (process_manager_base.py), and the threads that read the programs'      *)
(* output (output_piping.py).  How a program is launched and restarted is  *)
(* in the modules that extend this one, as it is in the subclasses.        *)
(*                                                                         *)
(* Per program three threads run: a starter (in the subclass), a state     *)
(* checker and an output listener.  One step below is what a thread does   *)
(* between two points where another thread can get in: taking a lock,      *)
(* waiting, or touching state without holding the lock.  Timed waits may   *)
(* end at any time.  Loops of the main thread over all programs are one    *)
(* step where the iterations touch one program each.                       *)
(***************************************************************************)
EXTENDS Naturals, Sequences

CONSTANTS
    Names,             \* every program name the demo configuration mentions
    Programs,          \* the programs DemoRunner selected to be run
    DependsOn,         \* depends_on of a selected program
    DependsOnInit,     \* depends_on_init of a selected program
    UseStateChecking,  \* the programs with both state transitions defined
    MaxRestarts        \* max_num_restarts of a program

ASSUME ProgramsAssumption ==
    /\ Programs \subseteq Names
    /\ DependsOn \in [Programs -> SUBSET Names]
    /\ DependsOnInit \in [Programs -> SUBSET Names]
    /\ UseStateChecking \subseteq Programs
    /\ MaxRestarts \in [Programs -> Nat]

VARIABLES
    programState,     \* ProgramStateData.program_state
    curNumRestarts,   \* ProgramStateData.cur_num_restarts
    initialised,      \* ProgramRecord._initialised_programs, as a set
    finished,         \* ProgramRecord._finished_programs, as a set
    checkerPc,        \* where the state checker thread of a program is
    listenerPc,       \* where the output listener thread of a program is
    pipe,             \* the lines in a program's named pipe, oldest first
    stopWatchdogs,    \* ProcessManager._stop_watchdogs
    listening,        \* OutputPipeListenerThread.running, of all listeners
    cleanupPc,        \* where the main thread is in cleanup_and_shutdown
    unnotified        \* the state checkers the shutdown has yet to notify

managerVars == <<programState, curNumRestarts, initialised, finished, checkerPc,
                 listenerPc, pipe, stopWatchdogs, listening, cleanupPc, unnotified>>

recordVars  == <<initialised, finished>>
cleanupVars == <<stopWatchdogs, listening, cleanupPc, unnotified>>

-----------------------------------------------------------------------------
(***************************************************************************)
(* The states a manager gives a program, and the two output lines that     *)
(* matter: those that contain transition_stop_to_init and                  *)
(* transition_init_run.                                                    *)
(***************************************************************************)
ProgramState == {"STOPPED", "INITIALIZING", "RUNNING"}
Line         == {"stop_to_init", "init_to_running"}

RestartPc  == {"restart", "searching", "lookedUp", "killed", "relaunch", "hung"}
CheckerPc  == {"loop", "enter", "waiting", "notified", "timedOut", "ended"} \cup RestartPc
ListenerPc == {"read", "setInitializing", "addInitialised",
               "setRunning", "addFinished", "ended"}
CleanupPc  == {"up", "dockerDown", "dockerKill", "stopStarters", "killPrograms",
               "killSessions", "stopWatchdogs", "notify", "stopListeners",
               "deletePipes", "down"}

ManagerTypeOK ==
    /\ programState \in [Programs -> ProgramState]
    /\ curNumRestarts \in [Programs -> Nat]
    /\ initialised \subseteq Programs
    /\ finished \subseteq Programs
    /\ checkerPc \in [Programs -> CheckerPc]
    /\ listenerPc \in [Programs -> ListenerPc]
    /\ pipe \in [Programs -> Seq(Line)]
    /\ stopWatchdogs \in BOOLEAN
    /\ listening \in BOOLEAN
    /\ cleanupPc \in CleanupPc
    /\ unnotified \subseteq Programs

ManagerInit ==
    /\ programState = [p \in Programs |-> "STOPPED"]
    /\ curNumRestarts = [p \in Programs |-> 0]
    /\ initialised = {}
    /\ finished = {}
    /\ checkerPc = [p \in Programs |-> "loop"]
    /\ listenerPc = [p \in Programs |-> "read"]
    /\ pipe = [p \in Programs |-> <<>>]
    /\ stopWatchdogs = FALSE
    /\ listening = TRUE
    /\ cleanupPc = "up"
    /\ unnotified = {}

-----------------------------------------------------------------------------
(* ProgramStateData *)

(***************************************************************************)
(* are_preconditions_met.  It asks for one dependency after the other; as  *)
(* the record only grows, the answer is that of a single look.             *)
(***************************************************************************)
PreconditionsMet(p) ==
    /\ DependsOn[p] \subseteq finished
    /\ DependsOnInit[p] \subseteq initialised

(***************************************************************************)
(* The lock of cv_state_change.  Only a checker in _handle_restart keeps   *)
(* it across steps.                                                        *)
(***************************************************************************)
StateLockFree(p) == checkerPc[p] \notin RestartPc

\* Condition.notify on cv_state_change: the checker is its only waiter.
NotifyChecker(p) ==
    checkerPc' = [checkerPc EXCEPT ![p] = IF @ = "waiting" THEN "notified" ELSE @]

\* Mutant of ChangeStateTo: the state is written without taking the lock.
ChangeStateWithoutLock(p, state) ==
    /\ programState' = [programState EXCEPT ![p] = state]
    /\ NotifyChecker(p)

(***************************************************************************)
(* change_state_to, from a thread that does not hold the lock yet.         *)
(***************************************************************************)
ChangeStateTo(p, state) ==
    /\ StateLockFree(p)
    /\ programState' = [programState EXCEPT ![p] = state]
    /\ NotifyChecker(p)

-----------------------------------------------------------------------------
(* The output listener thread *)

\* Mutant of Transition: any line of an initializing program counts.
TransitionOnAnyLine(state, line) ==
    CASE state = "STOPPED" /\ line = "stop_to_init" -> "setInitializing"
      [] state = "INITIALIZING"                     -> "setRunning"
      [] OTHER                                      -> "read"

(***************************************************************************)
(* Which transition a line triggers in a program state, if any             *)
(* (change_state_on_output).  The state is read without the lock, and      *)
(* acted upon later.                                                       *)
(***************************************************************************)
Transition(state, line) ==
    CASE state = "STOPPED" /\ line = "stop_to_init"         -> "setInitializing"
      [] state = "INITIALIZING" /\ line = "init_to_running" -> "setRunning"
      [] OTHER                                              -> "read"

(***************************************************************************)
(* Takes the next line out of the pipe and looks at the program's state,   *)
(* for a RUNNING program to skip the line, for others to find a transition.*)
(***************************************************************************)
ListenerReads(p) ==
    /\ listenerPc[p] = "read"
    /\ listening
    /\ pipe[p] # <<>>
    /\ pipe' = [pipe EXCEPT ![p] = Tail(@)]
    /\ listenerPc' = [listenerPc EXCEPT ![p] = Transition(programState[p], Head(pipe[p]))]
    /\ UNCHANGED <<programState, curNumRestarts, recordVars, checkerPc, cleanupVars>>

ListenerSetsInitializing(p) ==
    /\ listenerPc[p] = "setInitializing"
    /\ ChangeStateTo(p, "INITIALIZING")
    /\ listenerPc' = [listenerPc EXCEPT ![p] = "addInitialised"]
    /\ UNCHANGED <<curNumRestarts, recordVars, pipe, cleanupVars>>

ListenerAddsInitialised(p) ==
    /\ listenerPc[p] = "addInitialised"
    /\ initialised' = initialised \cup {p}
    /\ listenerPc' = [listenerPc EXCEPT ![p] = "read"]
    /\ UNCHANGED <<programState, curNumRestarts, finished, checkerPc, pipe, cleanupVars>>

ListenerSetsRunning(p) ==
    /\ listenerPc[p] = "setRunning"
    /\ ChangeStateTo(p, "RUNNING")
    /\ listenerPc' = [listenerPc EXCEPT ![p] = "addFinished"]
    /\ UNCHANGED <<curNumRestarts, recordVars, pipe, cleanupVars>>

ListenerAddsFinished(p) ==
    /\ listenerPc[p] = "addFinished"
    /\ finished' = finished \cup {p}
    /\ listenerPc' = [listenerPc EXCEPT ![p] = "read"]
    /\ UNCHANGED <<programState, curNumRestarts, initialised, checkerPc, pipe, cleanupVars>>

ListenerEnds(p) ==
    /\ listenerPc[p] = "read"
    /\ ~listening
    /\ listenerPc' = [listenerPc EXCEPT ![p] = "ended"]
    /\ UNCHANGED <<programState, curNumRestarts, recordVars, checkerPc, pipe, cleanupVars>>

Listener(p) ==
    \/ ListenerReads(p)
    \/ ListenerSetsInitializing(p)
    \/ ListenerAddsInitialised(p)
    \/ ListenerSetsRunning(p)
    \/ ListenerAddsFinished(p)
    \/ ListenerEnds(p)

-----------------------------------------------------------------------------
(* The state checker thread, _state_checker_thread_func *)

(***************************************************************************)
(* The test of the loop.  The lock is taken afterwards, so the shutdown    *)
(* can set _stop_watchdogs and notify in between: the notification is lost *)
(* and the checker waits a whole timeout more.                             *)
(***************************************************************************)
CheckerLoops(p) ==
    /\ checkerPc[p] = "loop"
    /\ checkerPc' = [checkerPc EXCEPT ![p] = IF stopWatchdogs THEN "ended" ELSE "enter"]
    /\ UNCHANGED <<programState, curNumRestarts, recordVars, listenerPc, pipe, cleanupVars>>

CheckerWaits(p) ==
    /\ checkerPc[p] = "enter"
    /\ checkerPc' = [checkerPc EXCEPT ![p] = "waiting"]
    /\ UNCHANGED <<programState, curNumRestarts, recordVars, listenerPc, pipe, cleanupVars>>

\* The timed wait gives up.  It has yet to get the lock back.
CheckerTimesOut(p) ==
    /\ checkerPc[p] = "waiting"
    /\ checkerPc' = [checkerPc EXCEPT ![p] = "timedOut"]
    /\ UNCHANGED <<programState, curNumRestarts, recordVars, listenerPc, pipe, cleanupVars>>

\* Mutant of CheckerSeesChange: the checker ends on whatever change.
CheckerEndsOnChange(p) ==
    /\ checkerPc[p] = "notified"
    /\ checkerPc' = [checkerPc EXCEPT ![p] = "ended"]
    /\ UNCHANGED <<programState, curNumRestarts, recordVars, listenerPc, pipe, cleanupVars>>

\* wait() returned True: the checker ends if its program is running by now.
CheckerSeesChange(p) ==
    /\ checkerPc[p] = "notified"
    /\ checkerPc' = [checkerPc EXCEPT ![p] = IF programState[p] = "RUNNING" THEN "ended"
                                                                         ELSE "loop"]
    /\ UNCHANGED <<programState, curNumRestarts, recordVars, listenerPc, pipe, cleanupVars>>

\* Mutant of MayRestart: one restart more than the configuration allows.
MayRestartOnceMore(p) ==
    /\ programState[p] # "RUNNING"
    /\ PreconditionsMet(p)
    /\ curNumRestarts[p] <= MaxRestarts[p]

(***************************************************************************)
(* What a checker that timed out requires before it restarts its program.  *)
(***************************************************************************)
MayRestart(p) ==
    /\ programState[p] # "RUNNING"
    /\ PreconditionsMet(p)
    /\ curNumRestarts[p] < MaxRestarts[p]

(***************************************************************************)
(* wait() returned False: the checker enters _handle_restart with the lock *)
(* of the state, or goes back to waiting.                                  *)
(***************************************************************************)
CheckerDecides(p) ==
    /\ checkerPc[p] = "timedOut"
    /\ checkerPc' = [checkerPc EXCEPT ![p] = IF MayRestart(p) THEN "restart" ELSE "loop"]
    /\ UNCHANGED <<programState, curNumRestarts, recordVars, listenerPc, pipe, cleanupVars>>

\* The steps of a checker outside _handle_restart.
Watch(p) ==
    \/ CheckerLoops(p)
    \/ CheckerWaits(p)
    \/ CheckerTimesOut(p)
    \/ CheckerSeesChange(p)
    \/ CheckerDecides(p)

-----------------------------------------------------------------------------
(* ProcessManager.cleanup_and_shutdown, from cleanupPc = "stopWatchdogs" on *)

\* Mutant of StopWatchdogs: the listeners are stopped along with the watchdogs.
StopWatchdogsAndListeners ==
    /\ cleanupPc = "stopWatchdogs"
    /\ stopWatchdogs' = TRUE
    /\ listening' = FALSE
    /\ unnotified' = Programs
    /\ cleanupPc' = "notify"
    /\ UNCHANGED <<programState, curNumRestarts, recordVars, checkerPc, listenerPc, pipe>>

StopWatchdogs ==
    /\ cleanupPc = "stopWatchdogs"
    /\ stopWatchdogs' = TRUE
    /\ unnotified' = Programs
    /\ cleanupPc' = "notify"
    /\ UNCHANGED <<programState, curNumRestarts, recordVars, checkerPc, listenerPc, pipe,
                    listening>>

\* Takes the lock of one program state after the other to notify its checker.
NotifyWatchdog(p) ==
    /\ cleanupPc = "notify"
    /\ p \in unnotified
    /\ StateLockFree(p)
    /\ NotifyChecker(p)
    /\ unnotified' = unnotified \ {p}
    /\ UNCHANGED <<programState, curNumRestarts, recordVars, listenerPc, pipe,
                    stopWatchdogs, listening, cleanupPc>>

\* The joins are timed: the shutdown goes on, whether the checkers ended or not.
JoinCheckers ==
    /\ cleanupPc = "notify"
    /\ unnotified = {}
    /\ cleanupPc' = "stopListeners"
    /\ UNCHANGED <<programState, curNumRestarts, recordVars, checkerPc, listenerPc, pipe,
                    stopWatchdogs, listening, unnotified>>

\* Mutant of StopListeners: the listeners are joined without being told to stop.
JoinListeners ==
    /\ cleanupPc = "stopListeners"
    /\ cleanupPc' = "deletePipes"
    /\ UNCHANGED <<programState, curNumRestarts, recordVars, checkerPc, listenerPc, pipe,
                    stopWatchdogs, listening, unnotified>>

StopListeners ==
    /\ cleanupPc = "stopListeners"
    /\ listening' = FALSE
    /\ cleanupPc' = "deletePipes"
    /\ UNCHANGED <<programState, curNumRestarts, recordVars, checkerPc, listenerPc, pipe,
                    stopWatchdogs, unnotified>>

\* The listeners' joins are timed as well; then the directory of the pipes goes.
DeletePipes ==
    /\ cleanupPc = "deletePipes"
    /\ cleanupPc' = "down"
    /\ UNCHANGED <<programState, curNumRestarts, recordVars, checkerPc, listenerPc, pipe,
                    stopWatchdogs, listening, unnotified>>

BaseCleanup ==
    \/ StopWatchdogs
    \/ \E p \in Programs : NotifyWatchdog(p)
    \/ JoinCheckers
    \/ StopListeners
    \/ DeletePipes

=============================================================================
