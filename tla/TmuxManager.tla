----------------------------- MODULE TmuxManager -----------------------------
(***************************************************************************)
(* The process manager of the "tmux" output mode (tmux_manager.py): every  *)
(* program has a pane of a tmux session; the manager types its command     *)
(* into the pane, restarts it by typing C-c and the command again, and     *)
(* shuts down by typing C-c into all panes.                                *)
(*                                                                         *)
(* Keys typed while a program runs in the pane wait for the shell; C-c     *)
(* discards them.  The n-th time the command of p is typed is <<p, n>>.    *)
(* Nothing is known of the programs: they exit or go on, also after C-c,   *)
(* and write their lines or stay silent.                                   *)
(***************************************************************************)
EXTENDS ProcessManager, FiniteSets

CONSTANTS
    ProgramNr,        \* the position of a program in ProcessManager._program_state_data
    PanesPerSession   \* panes_per_session of the demo configuration

ASSUME PanesAssumption ==
    /\ ProgramNr \in [Programs -> Nat]
    /\ \A p, q \in Programs : ProgramNr[p] = ProgramNr[q] => p = q
    /\ PanesPerSession \in Nat \ {0}
    /\ IsFiniteSet(Programs)

VARIABLES
    starterPc,    \* where the starter thread of a program is
    startersRun,  \* TmuxRunnerThread.running, of all starters
    paired,       \* the programs in _pane_state_pair
    sessions,     \* the numbers of the sessions in _sessions
    closing,      \* the session the shutdown has found idle and not removed yet
    killed,       \* the sessions that tmux has destroyed
    searched,     \* what _pane_state_pair held when _handle_restart began to go through it
    restartNr,    \* sess_nr, local to _handle_restart
    typed,        \* the commands typed into a pane that its shell has yet to read
    running,      \* the command that runs in a pane, {} if the shell is idle
    sent,         \* how often the command of a program has been typed
    printed       \* which line has been written by which of its runs

paneVars    == <<typed, running, sent, printed>>
sessionVars == <<sessions, closing, killed>>
searchVars  == <<searched, restartNr>>
tmuxVars    == <<starterPc, startersRun, paired, sessionVars, searchVars, paneVars>>
vars        == <<managerVars, tmuxVars>>

(***************************************************************************)
(* Sessions are numbered from 0 on, and filled one after the other.        *)
(***************************************************************************)
SessionNr(p) == ProgramNr[p] \div PanesPerSession
PaneNr(p)    == ProgramNr[p] % PanesPerSession
PaneOf(p)    == <<SessionNr(p), PaneNr(p)>>
AllSessions  == {SessionNr(p) : p \in Programs}
Panes        == AllSessions \X (0..PanesPerSession - 1)

Command   == Programs \X Nat
StarterPc == {"check", "waiting", "spawn", "addFinished", "setRunning", "ended"}

TypeOK ==
    /\ ManagerTypeOK
    /\ starterPc \in [Programs -> StarterPc]
    /\ startersRun \in BOOLEAN
    /\ paired \subseteq Programs
    /\ sessions \subseteq AllSessions
    /\ closing \subseteq sessions
    /\ killed \subseteq AllSessions
    /\ searched \in [Programs -> SUBSET Programs]
    /\ restartNr \in [Programs -> Nat]
    /\ typed \in [Panes -> Seq(Command)]
    /\ running \in [Panes -> SUBSET Command]
    /\ sent \in [Programs -> Nat]
    /\ printed \in [Programs -> SUBSET (Nat \X Line)]

(***************************************************************************)
(* setup_program_data has created the sessions; start_programs is about to *)
(* start the first threads.                                                *)
(***************************************************************************)
Init ==
    /\ ManagerInit
    /\ starterPc = [p \in Programs |-> "check"]
    /\ startersRun = TRUE
    /\ paired = {}
    /\ sessions = AllSessions
    /\ closing = {}
    /\ killed = {}
    /\ searched = [p \in Programs |-> {}]
    /\ restartNr = [p \in Programs |-> 0]
    /\ typed = [x \in Panes |-> <<>>]
    /\ running = [x \in Panes |-> {}]
    /\ sent = [p \in Programs |-> 0]
    /\ printed = [p \in Programs |-> {}]

-----------------------------------------------------------------------------
(* tmux: the shells of the panes and the programs that run in them *)

ShellRuns(x) ==
    /\ running[x] = {}
    /\ typed[x] # <<>>
    /\ running' = [running EXCEPT ![x] = {Head(typed[x])}]
    /\ typed' = [typed EXCEPT ![x] = Tail(@)]
    /\ UNCHANGED <<managerVars, starterPc, startersRun, paired, sessionVars, searchVars,
                   sent, printed>>

\* A program ends, by itself or because of a C-c.
ProgramExits(x) ==
    /\ running[x] # {}
    /\ running' = [running EXCEPT ![x] = {}]
    /\ UNCHANGED <<managerVars, starterPc, startersRun, paired, sessionVars, searchVars,
                   typed, sent, printed>>

\* The line a run writes next; the first line must precede the second.
NextLine(p, n) ==
    IF <<n, "stop_to_init">> \notin printed[p] THEN "stop_to_init" ELSE "init_to_running"

(***************************************************************************)
(* The output of a pane goes to the named pipe of the program it belongs   *)
(* to.  The lines of another program that runs there are not its lines.    *)
(***************************************************************************)
Write(p, n) ==
    /\ p \in UseStateChecking
    /\ <<p, n>> \in running[PaneOf(p)]
    /\ <<n, "init_to_running">> \notin printed[p]
    /\ printed' = [printed EXCEPT ![p] = @ \cup {<<n, NextLine(p, n)>>}]
    /\ pipe' = [pipe EXCEPT ![p] = Append(@, NextLine(p, n))]
    /\ UNCHANGED <<programState, curNumRestarts, recordVars, checkerPc, listenerPc,
                   cleanupVars, starterPc, startersRun, paired, sessionVars, searchVars,
                   typed, running, sent>>

\* send_keys of a command; tmux ignores what is typed into a pane that is gone.
Type(x, p) ==
    /\ sent' = [sent EXCEPT ![p] = @ + 1]
    /\ typed' = IF x[1] \in killed THEN typed
                ELSE [typed EXCEPT ![x] = Append(@, <<p, sent[p] + 1>>)]

-----------------------------------------------------------------------------
(* start_programs *)

(***************************************************************************)
(* The main thread sets up one program after the other.  The checker of a  *)
(* program runs before its pane is in _pane_state_pair, its starter after  *)
(* that.  (A thread that is not started yet is one that takes no step.)    *)
(***************************************************************************)
SetUp(p) ==
    /\ p \in Programs \ paired
    /\ \A q \in Programs \ paired : ProgramNr[p] <= ProgramNr[q]
    /\ paired' = paired \cup {p}
    /\ UNCHANGED <<managerVars, starterPc, startersRun, sessionVars, searchVars, paneVars>>

-----------------------------------------------------------------------------
(* The starter thread, TmuxRunnerThread._runner_thread_funct *)

StarterChecks(p) ==
    /\ starterPc[p] = "check"
    /\ p \in paired
    /\ starterPc' = [starterPc EXCEPT ![p] =
          CASE ~startersRun        -> "ended"
            [] PreconditionsMet(p) -> "spawn"
            [] OTHER               -> "waiting"]
    /\ UNCHANGED <<managerVars, startersRun, paired, sessionVars, searchVars, paneVars>>

\* Mutant of StarterWakes: a notification is taken for met preconditions.
StarterWakesWithoutCheck(p) ==
    /\ starterPc[p] = "waiting"
    /\ starterPc' = [starterPc EXCEPT ![p] = "spawn"]
    /\ UNCHANGED <<managerVars, startersRun, paired, sessionVars, searchVars, paneVars>>

(***************************************************************************)
(* The wait on one of the conditions of the record, or the sleep, is over. *)
(* Only the notification of one of them can end it early.                  *)
(***************************************************************************)
StarterWakes(p) ==
    /\ starterPc[p] = "waiting"
    /\ starterPc' = [starterPc EXCEPT ![p] = IF PreconditionsMet(p) THEN "spawn" ELSE "check"]
    /\ UNCHANGED <<managerVars, startersRun, paired, sessionVars, searchVars, paneVars>>

StarterTypes(p) ==
    /\ starterPc[p] = "spawn"
    /\ Type(PaneOf(p), p)
    /\ starterPc' = [starterPc EXCEPT ![p] = IF p \in UseStateChecking THEN "ended"
                                                                       ELSE "addFinished"]
    /\ UNCHANGED <<managerVars, startersRun, paired, sessionVars, searchVars, running,
                   printed>>

StarterAddsFinished(p) ==
    /\ starterPc[p] = "addFinished"
    /\ finished' = finished \cup {p}
    /\ starterPc' = [starterPc EXCEPT ![p] = "setRunning"]
    /\ UNCHANGED <<programState, curNumRestarts, initialised, checkerPc, listenerPc, pipe,
                   cleanupVars, startersRun, paired, sessionVars, searchVars, paneVars>>

\* The state is written without its lock and without notifying the checker.
StarterSetsRunning(p) ==
    /\ starterPc[p] = "setRunning"
    /\ programState' = [programState EXCEPT ![p] = "RUNNING"]
    /\ starterPc' = [starterPc EXCEPT ![p] = "ended"]
    /\ UNCHANGED <<curNumRestarts, recordVars, checkerPc, listenerPc, pipe, cleanupVars,
                   startersRun, paired, sessionVars, searchVars, paneVars>>

Starter(p) ==
    \/ StarterChecks(p)
    \/ StarterWakes(p)
    \/ StarterTypes(p)
    \/ StarterAddsFinished(p)
    \/ StarterSetsRunning(p)

-----------------------------------------------------------------------------
(* TmuxManager._handle_restart, by a checker that holds the state's lock *)

(***************************************************************************)
(* _sessions keeps its order when a session is removed, so the index of a  *)
(* session in it is the number of smaller ones that are left.              *)
(***************************************************************************)
IndexOf(s) == Cardinality({t \in sessions : t < s})

(***************************************************************************)
(* _sessions[sess_nr].panes[pane_nr], looked up again whenever it is used. *)
(* There is none if _sessions has become too short or tmux has destroyed   *)
(* the session; both raise.                                                *)
(***************************************************************************)
IsTarget(x, p) ==
    /\ x \in Panes
    /\ x[1] \in sessions \ killed
    /\ IndexOf(x[1]) = restartNr[p]
    /\ x[2] = PaneNr(p)

(***************************************************************************)
(* The for loop over _pane_state_pair, a dictionary to which the main      *)
(* thread still adds the panes of the programs it sets up.                 *)
(***************************************************************************)
RestartSearches(p) ==
    /\ checkerPc[p] = "restart"
    /\ searched' = [searched EXCEPT ![p] = paired]
    /\ checkerPc' = [checkerPc EXCEPT ![p] = "searching"]
    /\ UNCHANGED <<programState, curNumRestarts, recordVars, listenerPc, pipe, cleanupVars,
                   starterPc, startersRun, paired, sessionVars, restartNr, paneVars>>

\* The search is over, and forgets what it went through.
SearchEnds(p, pc) ==
    /\ searched' = [searched EXCEPT ![p] = {}]
    /\ checkerPc' = [checkerPc EXCEPT ![p] = pc]
    /\ UNCHANGED <<programState, curNumRestarts, recordVars, listenerPc, pipe, cleanupVars,
                   starterPc, startersRun, paired, sessionVars, paneVars>>

(***************************************************************************)
(* A pane has been added since the loop began: asked for the next key the  *)
(* dictionary raises RuntimeError.  Nothing catches it; the checker dies   *)
(* and gives up the lock.                                                  *)
(***************************************************************************)
SearchBreaks(p) ==
    /\ checkerPc[p] = "searching"
    /\ paired # searched[p]
    /\ SearchEnds(p, "ended")
    /\ UNCHANGED restartNr

\* The loop ends: the pane of p is not known yet, or its session has been removed.
NothingToRestart(p) ==
    /\ checkerPc[p] = "searching"
    /\ paired = searched[p]
    /\ ~(p \in paired /\ SessionNr(p) \in sessions)
    /\ SearchEnds(p, "loop")
    /\ UNCHANGED restartNr

\* Mutant of RestartLooksUp: the session is not found, and -1 taken for its index.
RestartLooksUpLast(p) ==
    /\ checkerPc[p] = "searching"
    /\ p \in searched[p] /\ SessionNr(p) \in sessions
    /\ restartNr' = [restartNr EXCEPT ![p] = Cardinality(sessions) - 1]
    /\ SearchEnds(p, "lookedUp")

\* The key of p has been reached before a pane was added, if one was.
RestartLooksUp(p) ==
    /\ checkerPc[p] = "searching"
    /\ p \in searched[p] /\ SessionNr(p) \in sessions
    /\ restartNr' = [restartNr EXCEPT ![p] = IndexOf(SessionNr(p))]
    /\ SearchEnds(p, "lookedUp")

\* Mutant of RestartInterrupts: the restart is not counted.
RestartInterruptsUncounted(p, x) ==
    /\ checkerPc[p] = "lookedUp"
    /\ IsTarget(x, p)
    /\ typed' = [typed EXCEPT ![x] = <<>>]
    /\ checkerPc' = [checkerPc EXCEPT ![p] = "killed"]
    /\ UNCHANGED <<programState, curNumRestarts, recordVars, listenerPc, pipe, cleanupVars,
                   starterPc, startersRun, paired, sessionVars, searchVars, running, sent,
                   printed>>

\* C-c discards what the shell has not read yet.
RestartInterrupts(p, x) ==
    /\ checkerPc[p] = "lookedUp"
    /\ IsTarget(x, p)
    /\ typed' = [typed EXCEPT ![x] = <<>>]
    /\ curNumRestarts' = [curNumRestarts EXCEPT ![p] = @ + 1]
    /\ checkerPc' = [checkerPc EXCEPT ![p] = "killed"]
    /\ UNCHANGED <<programState, recordVars, listenerPc, pipe, cleanupVars, starterPc,
                   startersRun, paired, sessionVars, searchVars, running, sent, printed>>

\* Mutant of RestartTimesOut: the time is over before the pane has been looked at.
RestartTimesOutAtOnce(p, x) ==
    /\ checkerPc[p] = "killed"
    /\ IsTarget(x, p)
    /\ checkerPc' = [checkerPc EXCEPT ![p] = "loop"]
    /\ UNCHANGED <<programState, curNumRestarts, recordVars, listenerPc, pipe, cleanupVars,
                   tmuxVars>>

\* Polling the pane until GENERAL_SUBPROCESS_TIMEOUT found a program in it each time.
RestartTimesOut(p, x) ==
    /\ checkerPc[p] = "killed"
    /\ IsTarget(x, p)
    /\ running[x] # {}
    /\ checkerPc' = [checkerPc EXCEPT ![p] = "loop"]
    /\ UNCHANGED <<programState, curNumRestarts, recordVars, listenerPc, pipe, cleanupVars,
                   tmuxVars>>

RestartStops(p, x) ==
    /\ checkerPc[p] = "killed"
    /\ IsTarget(x, p)
    /\ running[x] = {}
    /\ programState' = [programState EXCEPT ![p] = "STOPPED"]
    /\ checkerPc' = [checkerPc EXCEPT ![p] = "relaunch"]
    /\ UNCHANGED <<curNumRestarts, recordVars, listenerPc, pipe, cleanupVars, tmuxVars>>

RestartTypes(p, x) ==
    /\ checkerPc[p] = "relaunch"
    /\ IsTarget(x, p)
    /\ Type(x, p)
    /\ checkerPc' = [checkerPc EXCEPT ![p] = "loop"]
    /\ UNCHANGED <<programState, curNumRestarts, recordVars, listenerPc, pipe, cleanupVars,
                   starterPc, startersRun, paired, sessionVars, searchVars, running,
                   printed>>

\* The checker dies of the exception and gives up the lock.
RestartFails(p) ==
    /\ checkerPc[p] \in {"lookedUp", "killed", "relaunch"}
    /\ ~\E x \in Panes : IsTarget(x, p)
    /\ checkerPc' = [checkerPc EXCEPT ![p] = "ended"]
    /\ UNCHANGED <<programState, curNumRestarts, recordVars, listenerPc, pipe, cleanupVars,
                   tmuxVars>>

Restart(p) ==
    \/ RestartSearches(p)
    \/ SearchBreaks(p)
    \/ NothingToRestart(p)
    \/ RestartLooksUp(p)
    \/ RestartFails(p)
    \/ \E x \in Panes :
          \/ RestartInterrupts(p, x)
          \/ RestartTimesOut(p, x)
          \/ RestartStops(p, x)
          \/ RestartTypes(p, x)

-----------------------------------------------------------------------------
(* TmuxManager.cleanup_and_shutdown, run by the signal handler *)

(***************************************************************************)
(* Ctrl+C or SIGTERM, once start_programs is over: C-c to every pane.  The *)
(* starters and the watchdogs are still at work.                           *)
(***************************************************************************)
Shutdown ==
    /\ cleanupPc = "up"
    /\ paired = Programs
    /\ typed' = [x \in Panes |-> <<>>]
    /\ cleanupPc' = "killSessions"
    /\ UNCHANGED <<programState, curNumRestarts, recordVars, checkerPc, listenerPc, pipe,
                   stopWatchdogs, listening, unnotified, starterPc, startersRun, paired,
                   sessionVars, searchVars, running, sent, printed>>

\* The shell is in the foreground of all panes of the session.
FindIdle(s) ==
    /\ cleanupPc = "killSessions"
    /\ closing = {}
    /\ s \in sessions
    /\ \A x \in Panes : x[1] = s => running[x] = {}
    /\ closing' = {s}
    /\ UNCHANGED <<managerVars, starterPc, startersRun, paired, sessions, killed, searchVars,
                   paneVars>>

\* tmux destroys the session, and whatever has been typed or run in it since.
KillSession ==
    /\ cleanupPc = "killSessions"
    /\ ~(closing \subseteq killed)
    /\ killed' = killed \cup closing
    /\ typed' = [x \in Panes |-> IF x[1] \in closing THEN <<>> ELSE typed[x]]
    /\ running' = [x \in Panes |-> IF x[1] \in closing THEN {} ELSE running[x]]
    /\ UNCHANGED <<managerVars, starterPc, startersRun, paired, sessions, closing, searchVars,
                   sent, printed>>

\* Mutant of ForgetSession: the session is removed and yet looked at again.
ForgetAndGoOn ==
    /\ cleanupPc = "killSessions"
    /\ closing # {} /\ closing \subseteq killed
    /\ sessions' = sessions \ closing
    /\ UNCHANGED <<managerVars, starterPc, startersRun, paired, closing, killed, searchVars,
                   paneVars>>

ForgetSession ==
    /\ cleanupPc = "killSessions"
    /\ closing # {} /\ closing \subseteq killed
    /\ sessions' = sessions \ closing
    /\ closing' = {}
    /\ UNCHANGED <<managerVars, starterPc, startersRun, paired, killed, searchVars, paneVars>>

\* GENERAL_SUBPROCESS_TIMEOUT is over, or no session is left.
GiveUpSessions ==
    /\ cleanupPc = "killSessions"
    /\ closing = {}
    /\ cleanupPc' = "stopWatchdogs"
    /\ UNCHANGED <<programState, curNumRestarts, recordVars, checkerPc, listenerPc, pipe,
                   stopWatchdogs, listening, unnotified, tmuxVars>>

\* After everything else; the joins are timed.
StopStarters ==
    /\ cleanupPc = "down"
    /\ startersRun
    /\ startersRun' = FALSE
    /\ UNCHANGED <<managerVars, starterPc, paired, sessionVars, searchVars, paneVars>>

Cleanup ==
    \/ \E s \in AllSessions : FindIdle(s)
    \/ KillSession
    \/ ForgetSession
    \/ GiveUpSessions
    \/ BaseCleanup /\ UNCHANGED tmuxVars
    \/ StopStarters

-----------------------------------------------------------------------------
Checker(p) ==
    \/ Watch(p) /\ UNCHANGED tmuxVars
    \/ Restart(p)

ListenerThread(p) == Listener(p) /\ UNCHANGED tmuxVars

Supervise ==
    \/ \E p \in Programs :
          \/ SetUp(p)
          \/ Starter(p)
          \/ Checker(p)
          \/ ListenerThread(p)
          \/ \E n \in 1..sent[p] : Write(p, n)
    \/ \E x \in Panes : ShellRuns(x) \/ ProgramExits(x)

Next == Supervise \/ Shutdown \/ Cleanup

Spec == Init /\ [][Next]_vars

(***************************************************************************)
(* The threads of the manager and the shells keep going; nothing makes a   *)
(* program exit or write, or a user press Ctrl+C.                          *)
(***************************************************************************)
FairSpec ==
    /\ Spec
    /\ \A p \in Programs : /\ WF_vars(SetUp(p)) /\ WF_vars(Starter(p))
                           /\ WF_vars(Checker(p)) /\ WF_vars(ListenerThread(p))
    /\ \A x \in Panes : WF_vars(ShellRuns(x))
    /\ WF_vars(Cleanup)

-----------------------------------------------------------------------------
(* Safety *)

Started == {p \in Programs : sent[p] > 0}

Order == INSTANCE StartupOrder WITH started <- Started

(***************************************************************************)
(* Although it launches programs by typing, lets starters and watchdogs    *)
(* type for the same program, and stops its starters last of all, this     *)
(* manager types the command of a program only after the programs it       *)
(* depends on are recorded, and records it only after that.                *)
(***************************************************************************)
ImplementsStartupOrder == Order!Spec

\* Some run of p wrote the line that says p is running.
Earned(p) == \E n \in 1..sent[p] : <<n, "init_to_running">> \in printed[p]

(***************************************************************************)
(* A program with transitions is recorded as finished only if one of its   *)
(* runs wrote the line that says so, whichever pane was typed into.        *)
(***************************************************************************)
RecordIsEarned ==
    \A p \in finished :
        /\ sent[p] > 0
        /\ p \in UseStateChecking => Earned(p)

(***************************************************************************)
(* Starter and watchdog of a program do not exclude each other here, and   *)
(* yet the command is typed at most once more than restarts were counted,  *)
(* of which there are at most max_num_restarts.                            *)
(***************************************************************************)
RestartsBounded ==
    \A p \in Programs :
        /\ curNumRestarts[p] <= MaxRestarts[p]
        /\ sent[p] <= 1 + curNumRestarts[p]

(***************************************************************************)
(* As long as nobody has pressed Ctrl+C, a program runs in its own pane    *)
(* and nowhere else, and so do the runs that are still to come.            *)
(***************************************************************************)
OwnPane ==
    \A x \in Panes :
        \A c \in running[x] \cup {typed[x][k] : k \in 1..Len(typed[x])} : PaneOf(c[1]) = x

OwnPaneUntilShutdown == cleanupPc = "up" => OwnPane

(***************************************************************************)
(* Once a program with transitions is RUNNING, its watchdog neither resets *)
(* its state nor types anything for it any more, Ctrl+C or not.            *)
(***************************************************************************)
NoRestartOnceRunning ==
    [][\A p \in UseStateChecking :
          programState[p] = "RUNNING" =>
              /\ programState'[p] = "RUNNING"
              /\ curNumRestarts'[p] = curNumRestarts[p]
              /\ checkerPc'[p] \notin RestartPc]_vars

-----------------------------------------------------------------------------
(* The invariant behind the safety properties *)

\* The command is still to be typed by the starter, or typed again by the checker.
Unlaunched(p) == starterPc[p] \in {"check", "waiting", "spawn"}
Relaunching(p) == checkerPc[p] \in {"killed", "relaunch"}

(***************************************************************************)
(* A checker counts a restart before it types, and a starter types once,   *)
(* so each of the two accounts for one command at most, whoever is first.  *)
(***************************************************************************)
CountInv ==
    \A p \in Programs :
        /\ curNumRestarts[p] <= MaxRestarts[p]
        /\ checkerPc[p] \in {"restart", "searching", "lookedUp"}
              => curNumRestarts[p] < MaxRestarts[p]
        /\ sent[p] <= 1 + curNumRestarts[p]
        /\ Unlaunched(p) \/ Relaunching(p) => sent[p] <= curNumRestarts[p]
        /\ Unlaunched(p) /\ Relaunching(p) => sent[p] < curNumRestarts[p]
        /\ starterPc[p] \in {"addFinished", "setRunning"}
              => sent[p] > 0 /\ p \notin UseStateChecking

\* While a checker restarts a program with transitions, nobody sets it RUNNING.
LockInv ==
    \A p \in UseStateChecking : ~StateLockFree(p) => programState[p] # "RUNNING"

\* Whoever is about to type a command, or has, found the preconditions met.
OrderInv ==
    \A p \in Programs :
        starterPc[p] = "spawn" \/ sent[p] > 0 \/ ~StateLockFree(p) => PreconditionsMet(p)

(***************************************************************************)
(* Whatever the listener is about to do rests on a line that was written;  *)
(* and a program is initializing only if it is in the record of            *)
(* initialised programs or about to be.                                    *)
(***************************************************************************)
OutputOf(p) ==
    /\ pipe[p] # <<>> => p \in UseStateChecking /\ sent[p] > 0
    /\ \A k \in 1..Len(pipe[p]) : pipe[p][k] = "init_to_running" => Earned(p)
    /\ listenerPc[p] \notin {"read", "ended"} => p \in UseStateChecking /\ sent[p] > 0
    /\ listenerPc[p] = "setInitializing" => programState[p] # "RUNNING"
    /\ listenerPc[p] \in {"setRunning", "addFinished"} => Earned(p) /\ p \in initialised
    /\ programState[p] = "INITIALIZING" => p \in initialised \/ listenerPc[p] = "addInitialised"

OutputInv == \A p \in Programs : OutputOf(p)

RecordInv ==
    /\ \A p \in initialised : sent[p] > 0 /\ p \in UseStateChecking
    /\ \A p \in finished :
          /\ sent[p] > 0
          /\ p \in UseStateChecking => Earned(p) /\ p \in initialised

(***************************************************************************)
(* Before Ctrl+C no session is removed, so that the index a checker has    *)
(* looked up stays the one of its program's session.                       *)
(***************************************************************************)
PaneInv ==
    cleanupPc = "up" =>
        /\ sessions = AllSessions
        /\ killed = {} /\ closing = {}
        /\ \A p \in Programs :
              checkerPc[p] \in {"lookedUp", "killed", "relaunch"}
                 => restartNr[p] = IndexOf(SessionNr(p))
        /\ OwnPane

IndInv ==
    /\ TypeOK
    /\ CountInv
    /\ LockInv
    /\ OrderInv
    /\ OutputInv
    /\ RecordInv
    /\ PaneInv

-----------------------------------------------------------------------------
(* Liveness *)

\* p runs in its pane.
Runs(p) == \E n \in 1..sent[p] : <<p, n>> \in running[PaneOf(p)]

(***************************************************************************)
(* A program whose preconditions are met gets to run in its pane, even if  *)
(* its watchdog discards the command its starter has typed, unless the     *)
(* software is shut down.                                                  *)
(***************************************************************************)
ReadyIsLaunched ==
    \A p \in Programs :
        (PreconditionsMet(p) /\ sent[p] = 0) ~> (Runs(p) \/ cleanupPc # "up")

\* The watchdog of p has survived the set-up, and no pane to come can break its search.
OutlivesSetUp(p) ==
    /\ checkerPc[p] # "ended"
    /\ paired = Programs
    /\ checkerPc[p] = "searching" => searched[p] = paired

(***************************************************************************)
(* A launched program with transitions whose watchdog has got over the     *)
(* set-up ends up RUNNING, or its watchdog has used up all restarts, also  *)
(* if the program ignores C-c.  (Before that SearchBreaks may leave the    *)
(* program without a watchdog, see WatchedUntilRunning.)                   *)
(***************************************************************************)
RunningOrExhausted ==
    \A p \in UseStateChecking :
        (sent[p] > 0 /\ OutlivesSetUp(p))
            ~> \/ programState[p] = "RUNNING"
               \/ curNumRestarts[p] = MaxRestarts[p]
               \/ cleanupPc # "up"

(***************************************************************************)
(* The exit(0) of the signal handler takes effect once all threads have    *)
(* ended: after Ctrl+C they all do, whatever the programs in the panes do. *)
(***************************************************************************)
ShutdownEndsThreads ==
    cleanupPc # "up" ~>
        \A p \in Programs : /\ starterPc[p] = "ended"
                            /\ checkerPc[p] = "ended"
                            /\ listenerPc[p] = "ended"

-----------------------------------------------------------------------------
(* What the documentation says and the code does not do *)

(***************************************************************************)
(* tmux_manager.py:317: _pane_state_pair is to "store relation: program +  *)
(* state data <-> pane in which it is running": no program ever runs in    *)
(* the pane of another one.                                                *)
(***************************************************************************)
RunsInOwnPane ==
    \A x \in Panes : \A c \in running[x] : PaneOf(c[1]) = x

(***************************************************************************)
(* process_manager_base.py:42-44: the state checker is to "Monitor state   *)
(* changes until RUNNING state is reached" and "Restarts programs if they  *)
(* time out": until Ctrl+C, the watchdog of a program that has been        *)
(* started ends only when the program is RUNNING.                          *)
(***************************************************************************)
WatchedUntilRunning ==
    cleanupPc = "up" =>
        \A p \in Programs :
            sent[p] > 0 /\ checkerPc[p] = "ended" => programState[p] = "RUNNING"

=============================================================================
