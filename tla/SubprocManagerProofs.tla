------------------------ MODULE SubprocManagerProofs ------------------------
(***************************************************************************)
(* Safety of SubprocManager for every set of programs, every dependency    *)
(* relation and every number of restarts.                                  *)
(***************************************************************************)
EXTENDS SubprocManager, TLAPS

(***************************************************************************)
(* A line read from a pipe after a write is the new one or an older one.   *)
(***************************************************************************)
LEMMA AppendIndex ==
    ASSUME NEW S, NEW s \in Seq(S), NEW e \in S, NEW k \in 1..Len(Append(s, e))
    PROVE  \/ k = Len(s) + 1 /\ Append(s, e)[k] = e
           \/ k \in 1..Len(s) /\ Append(s, e)[k] = s[k]
<1>1. Len(s) \in Nat /\ Len(Append(s, e)) = Len(s) + 1
  OBVIOUS
<1>2. CASE k = Len(s) + 1
  BY <1>2
<1>3. CASE k # Len(s) + 1
  <2>1. k \in 1..Len(s)
    BY <1>1, <1>3
  <2>2. QED
    BY <2>1
<1>4. QED
  BY <1>2, <1>3

(***************************************************************************)
(* The threads start in states and with counters of their types.           *)
(***************************************************************************)
LEMMA TypeInit == Init => TypeOK
<1> USE ProgramsAssumption, LaunchableAssumption
    DEF TypeOK, ManagerTypeOK, ProgramState, Line, RestartPc, CheckerPc, ListenerPc,
        CleanupPc, StarterPc, recordVars, cleanupVars, managerVars, processVars, subprocVars
<1>1. <<>> \in Seq(Line)
  OBVIOUS
<1>2. ManagerInit => pipe \in [Programs -> Seq(Line)]
  BY <1>1 DEF ManagerInit
<1>3. ManagerInit => stopWatchdogs \in BOOLEAN /\ listening \in BOOLEAN
  BY DEF ManagerInit
<1>4. ManagerInit => /\ programState \in [Programs -> ProgramState]
                     /\ curNumRestarts \in [Programs -> Nat]
                     /\ initialised \subseteq Programs /\ finished \subseteq Programs
                     /\ checkerPc \in [Programs -> CheckerPc]
                     /\ listenerPc \in [Programs -> ListenerPc]
                     /\ cleanupPc \in CleanupPc
                     /\ unnotified \subseteq Programs
  BY DEF ManagerInit
<1>5. ManagerInit => ManagerTypeOK
  BY <1>2, <1>3, <1>4
<1>6. QED
  BY <1>5 DEF Init

(***************************************************************************)
(* No step of a thread, of a program or of the shutdown leaves the types.  *)
(***************************************************************************)
LEMMA TypeStep ==
    ASSUME TypeOK, [Next]_vars
    PROVE  TypeOK'
<1> USE ProgramsAssumption, LaunchableAssumption
    DEF TypeOK, ManagerTypeOK, ProgramState, Line, RestartPc, CheckerPc, ListenerPc,
        CleanupPc, StarterPc, recordVars, cleanupVars, managerVars, processVars, subprocVars
<1>1. ASSUME NEW p \in Programs, Starter(p)
      PROVE  TypeOK'
  <2>1. CASE StarterChecks(p)
    BY <2>1 DEF StarterChecks
  <2>2. CASE StarterWakes(p)
    BY <2>2 DEF StarterWakes
  <2>3. CASE StarterSpawns(p)
    BY <2>3 DEF StarterSpawns, Popen
  <2>4. CASE StarterDies(p)
    BY <2>4 DEF StarterDies
  <2>5. CASE StarterHangs(p)
    BY <2>5 DEF StarterHangs
  <2>6. CASE StarterAddsFinished(p)
    BY <2>6 DEF StarterAddsFinished
  <2>7. CASE StarterSetsRunning(p)
    BY <2>7 DEF StarterSetsRunning
  <2>8. QED
    BY <1>1, <2>1, <2>2, <2>3, <2>4, <2>5, <2>6, <2>7 DEF Starter
<1>2. ASSUME NEW p \in Programs, Watch(p), UNCHANGED subprocVars
      PROVE  TypeOK'
  BY <1>2 DEF Watch, CheckerLoops, CheckerWaits, CheckerTimesOut, CheckerSeesChange,
     CheckerDecides
<1>3. ASSUME NEW p \in Programs, Restart(p)
      PROVE  TypeOK'
  <2>1. CASE NothingToRestart(p)
    BY <2>1 DEF NothingToRestart
  <2>2. CASE RestartKills(p)
    BY <2>2 DEF RestartKills
  <2>3. CASE RestartTimesOut(p)
    BY <2>3 DEF RestartTimesOut
  <2>4. CASE RestartStops(p)
    BY <2>4 DEF RestartStops
  <2>5. CASE RestartSpawns(p)
    BY <2>5 DEF RestartSpawns, Popen
  <2>6. CASE RestartFails(p)
    BY <2>6 DEF RestartFails
  <2>7. CASE RestartHangs(p)
    BY <2>7 DEF RestartHangs
  <2>8. QED
    BY <1>3, <2>1, <2>2, <2>3, <2>4, <2>5, <2>6, <2>7 DEF Restart
<1>4. ASSUME NEW p \in Programs, Listener(p), UNCHANGED subprocVars
      PROVE  TypeOK'
  <2>1. CASE ListenerReads(p)
    BY <1>4, <2>1 DEF ListenerReads, Transition
  <2>2. CASE ListenerSetsInitializing(p)
    BY <1>4, <2>2 DEF ListenerSetsInitializing, ChangeStateTo, NotifyChecker
  <2>3. CASE ListenerAddsInitialised(p)
    BY <1>4, <2>3 DEF ListenerAddsInitialised
  <2>4. CASE ListenerSetsRunning(p)
    BY <1>4, <2>4 DEF ListenerSetsRunning, ChangeStateTo, NotifyChecker
  <2>5. CASE ListenerAddsFinished(p)
    BY <1>4, <2>5 DEF ListenerAddsFinished
  <2>6. CASE ListenerEnds(p)
    BY <1>4, <2>6 DEF ListenerEnds
  <2>7. QED
    BY <1>4, <2>1, <2>2, <2>3, <2>4, <2>5, <2>6 DEF Listener
<1>5. ASSUME NEW p \in Programs, NEW i \in alive[p], Write(p, i)
      PROVE  TypeOK'
  BY <1>5 DEF Write, NextLine
<1>6. CASE Shutdown \/ DockerKill
  BY <1>6 DEF Shutdown, DockerKill, StopStarters, CleanupGoesTo
<1>7. CASE Cleanup
  <2>1. CASE JoinStarters \/ KillPrograms
    BY <2>1 DEF JoinStarters, KillPrograms
  <2>2. CASE (StopWatchdogs \/ JoinCheckers) /\ UNCHANGED subprocVars
    BY <2>2 DEF StopWatchdogs, JoinCheckers
  <2>3. ASSUME NEW p \in Programs, NotifyWatchdog(p), UNCHANGED subprocVars
        PROVE  TypeOK'
    BY <2>3 DEF NotifyWatchdog, NotifyChecker
  <2>4. CASE (StopListeners \/ DeletePipes) /\ UNCHANGED subprocVars
    BY <2>4 DEF StopListeners, DeletePipes
  <2>5. CASE DockerDown
    BY <2>5 DEF DockerDown, StopStarters, CleanupGoesTo
  <2>6. QED
    BY ONLY <1>7, <2>1, <2>2, <2>3, <2>4, <2>5 DEF Cleanup, BaseCleanup
<1>8. CASE UNCHANGED vars
  BY <1>8 DEF vars
<1>9. QED
  BY <1>1, <1>2, <1>3, <1>4, <1>5, <1>6, <1>7, <1>8 DEF Next, Supervise, Checker,
     ListenerThread

(***************************************************************************)
(* Every variable keeps its type: no step of any thread leaves the states  *)
(* and program counters the code has.                                      *)
(***************************************************************************)
THEOREM TypeCorrect == Spec => []TypeOK
<1>1. TypeOK /\ [Next]_vars => TypeOK'
  BY TypeStep
<1>2. QED
  BY TypeInit, <1>1, PTL DEF Spec

-----------------------------------------------------------------------------
(***************************************************************************)
(* Launching a process forgets nothing about the earlier ones.             *)
(***************************************************************************)
LEMMA PopenKeepsEarned ==
    ASSUME TypeOK, NEW p \in Programs, Popen(p), UNCHANGED printed
    PROVE  \A q \in Programs : /\ launched'[q] > 0 <=> launched[q] > 0 \/ q = p
                               /\ Earned(q) => Earned(q)'
<1> SUFFICES ASSUME NEW q \in Programs
             PROVE  /\ launched'[q] > 0 <=> launched[q] > 0 \/ q = p
                    /\ Earned(q) => Earned(q)'
  OBVIOUS
<1>1. /\ launched[q] \in Nat /\ launched'[q] \in Nat
      /\ launched'[q] = launched[q] \/ (q = p /\ launched'[q] = launched[q] + 1)
  <2>1. CASE q = p
    BY <2>1 DEF TypeOK, Popen
  <2>2. CASE q # p
    BY <2>2 DEF TypeOK, Popen
  <2>3. QED
    BY <2>1, <2>2
<1>2. 1..launched[q] \subseteq 1..launched'[q]
  BY <1>1
<1>3. launched'[q] > 0 <=> launched[q] > 0 \/ q = p
  <2>1. CASE q = p
    BY <2>1 DEF TypeOK, Popen
  <2>2. CASE q # p
    BY <2>2 DEF TypeOK, Popen
  <2>3. QED
    BY <2>1, <2>2
<1>4. Earned(q) => Earned(q)'
  BY <1>2 DEF Earned
<1>5. QED
  BY <1>3, <1>4

(***************************************************************************)
(* What a program has earned it keeps when one of its processes writes on. *)
(***************************************************************************)
LEMMA WriteKeepsEarned ==
    ASSUME TypeOK, NEW p \in Programs, NEW i, Write(p, i)
    PROVE  \A q \in Programs : Earned(q) => Earned(q)'
BY DEF TypeOK, Write, Earned

(***************************************************************************)
(* A starter launches once: it leaves the launching part of its code for   *)
(* good, and restarts need a process.                                      *)
(***************************************************************************)
LEMMA LaunchStep ==
    ASSUME TypeOK, LaunchInv, RestartInv, [Next]_vars
    PROVE  LaunchInv'
<1> USE ProgramsAssumption
    DEF TypeOK, ManagerTypeOK, LaunchInv, RestartInv, recordVars, cleanupVars, managerVars,
        processVars, subprocVars
<1>1. ASSUME NEW p \in Programs, Starter(p)
      PROVE  LaunchInv'
  <2>1. CASE StarterChecks(p)
    BY <2>1 DEF StarterChecks
  <2>2. CASE StarterWakes(p)
    BY <2>2 DEF StarterWakes
  <2>3. CASE StarterSpawns(p)
    BY <2>3 DEF StarterSpawns, Popen
  <2>4. CASE StarterDies(p)
    BY <2>4 DEF StarterDies
  <2>5. CASE StarterHangs(p)
    BY <2>5 DEF StarterHangs
  <2>6. CASE StarterAddsFinished(p)
    BY <2>6 DEF StarterAddsFinished
  <2>7. CASE StarterSetsRunning(p)
    BY <2>7 DEF StarterSetsRunning
  <2>8. QED
    BY <1>1, <2>1, <2>2, <2>3, <2>4, <2>5, <2>6, <2>7 DEF Starter
<1>2. ASSUME NEW p \in Programs, Watch(p), UNCHANGED subprocVars
      PROVE  LaunchInv'
  BY <1>2 DEF Watch, CheckerLoops, CheckerWaits, CheckerTimesOut, CheckerSeesChange,
     CheckerDecides
<1>3. ASSUME NEW p \in Programs, Restart(p)
      PROVE  LaunchInv'
  <2>1. CASE RestartSpawns(p)
    BY <2>1 DEF RestartSpawns, Popen
  <2>2. CASE RestartKills(p)
    BY <2>2 DEF RestartKills
  <2>3. CASE NothingToRestart(p) \/ RestartTimesOut(p) \/ RestartStops(p)
    BY <2>3 DEF NothingToRestart, RestartTimesOut, RestartStops
  <2>4. CASE RestartFails(p) \/ RestartHangs(p)
    BY <2>4 DEF RestartFails, RestartHangs
  <2>5. QED
    BY ONLY <1>3, <2>1, <2>2, <2>3, <2>4 DEF Restart
<1>4. ASSUME NEW p \in Programs, Listener(p), UNCHANGED subprocVars
      PROVE  LaunchInv'
  BY <1>4 DEF Listener, ListenerReads, ListenerSetsInitializing, ListenerAddsInitialised,
     ListenerSetsRunning, ListenerAddsFinished, ListenerEnds, ChangeStateTo, NotifyChecker
<1>5. ASSUME NEW p \in Programs, NEW i \in alive[p], Write(p, i)
      PROVE  LaunchInv'
  BY <1>5 DEF Write
<1>6. CASE Shutdown \/ DockerKill
  BY <1>6 DEF Shutdown, DockerKill, StopStarters, CleanupGoesTo
<1>7. CASE Cleanup
  BY <1>7 DEF Cleanup, DockerDown, StopStarters, CleanupGoesTo, JoinStarters, KillPrograms,
     BaseCleanup, StopWatchdogs,
     NotifyWatchdog, JoinCheckers, StopListeners, DeletePipes, NotifyChecker
<1>8. CASE UNCHANGED vars
  BY <1>8 DEF vars
<1>9. QED
  BY <1>1, <1>2, <1>3, <1>4, <1>5, <1>6, <1>7, <1>8 DEF Next, Supervise, Checker,
     ListenerThread

(***************************************************************************)
(* A checker counts a restart before it launches anything, and only below  *)
(* the maximum.                                                            *)
(***************************************************************************)
LEMMA RestartStep ==
    ASSUME TypeOK, LaunchInv, RestartInv, [Next]_vars
    PROVE  RestartInv'
<1> USE ProgramsAssumption
    DEF TypeOK, ManagerTypeOK, LaunchInv, RestartInv, recordVars, cleanupVars, managerVars,
        processVars, subprocVars
<1>1. ASSUME NEW p \in Programs, Starter(p)
      PROVE  RestartInv'
  <2>1. CASE StarterSpawns(p)
    BY <2>1 DEF StarterSpawns, Popen
  <2>2. CASE StarterChecks(p) \/ StarterWakes(p) \/ StarterDies(p)
    BY <2>2 DEF StarterChecks, StarterWakes, StarterDies
  <2>3. CASE StarterHangs(p) \/ StarterAddsFinished(p) \/ StarterSetsRunning(p)
    BY <2>3 DEF StarterHangs, StarterAddsFinished, StarterSetsRunning
  <2>4. QED
    BY ONLY <1>1, <2>1, <2>2, <2>3 DEF Starter
<1>2. ASSUME NEW p \in Programs, Watch(p), UNCHANGED subprocVars
      PROVE  RestartInv'
  BY <1>2 DEF Watch, CheckerLoops, CheckerWaits, CheckerTimesOut, CheckerSeesChange,
     CheckerDecides, MayRestart
<1>3. ASSUME NEW p \in Programs, Restart(p)
      PROVE  RestartInv'
  <2>1. CASE NothingToRestart(p)
    BY <2>1 DEF NothingToRestart
  <2>2. CASE RestartKills(p)
    BY <2>2 DEF RestartKills
  <2>3. CASE RestartTimesOut(p)
    BY <2>3 DEF RestartTimesOut
  <2>4. CASE RestartStops(p)
    BY <2>4 DEF RestartStops
  <2>5. CASE RestartSpawns(p)
    BY <2>5 DEF RestartSpawns, Popen
  <2>6. CASE RestartFails(p)
    BY <2>6 DEF RestartFails
  <2>7. CASE RestartHangs(p)
    BY <2>7 DEF RestartHangs
  <2>8. QED
    BY <1>3, <2>1, <2>2, <2>3, <2>4, <2>5, <2>6, <2>7 DEF Restart
<1>4. ASSUME NEW p \in Programs, Listener(p), UNCHANGED subprocVars
      PROVE  RestartInv'
  BY <1>4 DEF Listener, ListenerReads, ListenerSetsInitializing, ListenerAddsInitialised,
     ListenerSetsRunning, ListenerAddsFinished, ListenerEnds, ChangeStateTo, NotifyChecker
<1>5. ASSUME NEW p \in Programs, NEW i \in alive[p], Write(p, i)
      PROVE  RestartInv'
  BY <1>5 DEF Write
<1>6. CASE Shutdown \/ DockerKill
  BY <1>6 DEF Shutdown, DockerKill, StopStarters, CleanupGoesTo
<1>7. CASE Cleanup
  BY <1>7 DEF Cleanup, DockerDown, StopStarters, CleanupGoesTo, JoinStarters, KillPrograms,
     BaseCleanup, StopWatchdogs,
     NotifyWatchdog, JoinCheckers, StopListeners, DeletePipes, NotifyChecker
<1>8. CASE UNCHANGED vars
  BY <1>8 DEF vars
<1>9. QED
  BY <1>1, <1>2, <1>3, <1>4, <1>5, <1>6, <1>7, <1>8 DEF Next, Supervise, Checker,
     ListenerThread

(***************************************************************************)
(* The listener needs the lock that the restarting checker holds, and the  *)
(* starters set RUNNING only programs without transitions.                 *)
(***************************************************************************)
LEMMA LockStep ==
    ASSUME TypeOK, LaunchInv, LockInv, [Next]_vars
    PROVE  LockInv'
<1> USE ProgramsAssumption
    DEF TypeOK, ManagerTypeOK, LaunchInv, LockInv, StateLockFree, RestartPc, recordVars,
        cleanupVars, managerVars, processVars, subprocVars
<1>1. ASSUME NEW p \in Programs, Starter(p)
      PROVE  LockInv'
  BY <1>1 DEF Starter, StarterChecks, StarterWakes, StarterSpawns, StarterDies, StarterHangs,
     StarterAddsFinished, StarterSetsRunning
<1>2. ASSUME NEW p \in Programs, Watch(p), UNCHANGED subprocVars
      PROVE  LockInv'
  BY <1>2 DEF Watch, CheckerLoops, CheckerWaits, CheckerTimesOut, CheckerSeesChange,
     CheckerDecides, MayRestart
<1>3. ASSUME NEW p \in Programs, Restart(p)
      PROVE  LockInv'
  BY <1>3 DEF Restart, NothingToRestart, RestartKills, RestartTimesOut, RestartStops,
     RestartSpawns, RestartFails, RestartHangs
<1>4. ASSUME NEW p \in Programs, Listener(p), UNCHANGED subprocVars
      PROVE  LockInv'
  BY <1>4 DEF Listener, ListenerReads, ListenerSetsInitializing, ListenerAddsInitialised,
     ListenerSetsRunning, ListenerAddsFinished, ListenerEnds, ChangeStateTo, NotifyChecker
<1>5. ASSUME NEW p \in Programs, NEW i \in alive[p], Write(p, i)
      PROVE  LockInv'
  BY <1>5 DEF Write
<1>6. CASE Shutdown \/ DockerKill
  BY <1>6 DEF Shutdown, DockerKill, StopStarters, CleanupGoesTo
<1>7. CASE Cleanup
  BY <1>7 DEF Cleanup, DockerDown, StopStarters, CleanupGoesTo, JoinStarters, KillPrograms,
     BaseCleanup, StopWatchdogs,
     NotifyWatchdog, JoinCheckers, StopListeners, DeletePipes, NotifyChecker
<1>8. CASE UNCHANGED vars
  BY <1>8 DEF vars
<1>9. QED
  BY <1>1, <1>2, <1>3, <1>4, <1>5, <1>6, <1>7, <1>8 DEF Next, Supervise, Checker,
     ListenerThread

(***************************************************************************)
(* An entry of the record is never revoked and keeps what it was earned    *)
(* by.                                                                     *)
(***************************************************************************)
LEMMA RecordStep ==
    ASSUME TypeOK, LaunchInv, OutputInv, RecordInv, [Next]_vars
    PROVE  RecordInv'
<1> USE ProgramsAssumption
    DEF TypeOK, ManagerTypeOK, LaunchInv, RecordInv, OutputInv, OutputOf, recordVars,
        cleanupVars, managerVars, processVars, subprocVars
<1>1. ASSUME NEW p \in Programs, Starter(p)
      PROVE  RecordInv'
  <2>1. CASE StarterChecks(p)
    BY <2>1 DEF StarterChecks, Earned
  <2>2. CASE StarterWakes(p)
    BY <2>2 DEF StarterWakes, Earned
  <2>3. CASE StarterSpawns(p)
    <3>1. Popen(p) /\ UNCHANGED <<printed, initialised, finished>>
      BY <2>3 DEF StarterSpawns
    <3>2. QED
      BY <3>1, PopenKeepsEarned
  <2>4. CASE StarterDies(p)
    BY <2>4 DEF StarterDies, Earned
  <2>5. CASE StarterHangs(p)
    BY <2>5 DEF StarterHangs, Earned
  <2>6. CASE StarterAddsFinished(p)
    BY <2>6 DEF StarterAddsFinished, Earned
  <2>7. CASE StarterSetsRunning(p)
    BY <2>7 DEF StarterSetsRunning, Earned
  <2>8. QED
    BY <1>1, <2>1, <2>2, <2>3, <2>4, <2>5, <2>6, <2>7 DEF Starter
<1>2. ASSUME NEW p \in Programs, Watch(p), UNCHANGED subprocVars
      PROVE  RecordInv'
  BY <1>2 DEF Watch, CheckerLoops, CheckerWaits, CheckerTimesOut, CheckerSeesChange,
     CheckerDecides, Earned
<1>3. ASSUME NEW p \in Programs, Restart(p)
      PROVE  RecordInv'
  <2>1. CASE NothingToRestart(p)
    BY <2>1 DEF NothingToRestart, Earned
  <2>2. CASE RestartKills(p)
    BY <2>2 DEF RestartKills, Earned
  <2>3. CASE RestartTimesOut(p)
    BY <2>3 DEF RestartTimesOut, Earned
  <2>4. CASE RestartStops(p)
    BY <2>4 DEF RestartStops, Earned
  <2>5. CASE RestartSpawns(p)
    <3>1. Popen(p) /\ UNCHANGED <<printed, initialised, finished>>
      BY <2>5 DEF RestartSpawns
    <3>2. QED
      BY <3>1, PopenKeepsEarned
  <2>6. CASE RestartFails(p)
    BY <2>6 DEF RestartFails, Earned
  <2>7. CASE RestartHangs(p)
    BY <2>7 DEF RestartHangs, Earned
  <2>8. QED
    BY <1>3, <2>1, <2>2, <2>3, <2>4, <2>5, <2>6, <2>7 DEF Restart
<1>4. ASSUME NEW p \in Programs, Listener(p), UNCHANGED subprocVars
      PROVE  RecordInv'
  <2>1. CASE ListenerReads(p)
    BY <1>4, <2>1 DEF ListenerReads, Earned
  <2>2. CASE ListenerSetsInitializing(p)
    BY <1>4, <2>2 DEF ListenerSetsInitializing, ChangeStateTo, NotifyChecker, Earned
  <2>3. CASE ListenerAddsInitialised(p)
    BY <1>4, <2>3 DEF ListenerAddsInitialised, Earned
  <2>4. CASE ListenerSetsRunning(p)
    BY <1>4, <2>4 DEF ListenerSetsRunning, ChangeStateTo, NotifyChecker, Earned
  <2>5. CASE ListenerAddsFinished(p)
    BY <1>4, <2>5 DEF ListenerAddsFinished, Earned
  <2>6. CASE ListenerEnds(p)
    BY <1>4, <2>6 DEF ListenerEnds, Earned
  <2>7. QED
    BY <1>4, <2>1, <2>2, <2>3, <2>4, <2>5, <2>6 DEF Listener
<1>5. ASSUME NEW p \in Programs, NEW i \in alive[p], Write(p, i)
      PROVE  RecordInv'
  BY <1>5 DEF Write, Earned
<1>6. CASE Shutdown \/ DockerKill
  BY <1>6 DEF Shutdown, DockerKill, StopStarters, CleanupGoesTo, Earned
<1>7. CASE Cleanup
  BY <1>7 DEF Cleanup, DockerDown, StopStarters, CleanupGoesTo, JoinStarters, KillPrograms,
     BaseCleanup, StopWatchdogs,
     NotifyWatchdog, JoinCheckers, StopListeners, DeletePipes, NotifyChecker, Earned
<1>8. CASE UNCHANGED vars
  BY <1>8 DEF vars, Earned
<1>9. QED
  BY <1>1, <1>2, <1>3, <1>4, <1>5, <1>6, <1>7, <1>8 DEF Next, Supervise, Checker,
     ListenerThread

(***************************************************************************)
(* Preconditions, once met, stay met; and only a starter that found them   *)
(* met makes the first launch.                                             *)
(***************************************************************************)
LEMMA OrderStep ==
    ASSUME TypeOK, LaunchInv, RestartInv, OrderInv, [Next]_vars
    PROVE  OrderInv'
<1> USE ProgramsAssumption
    DEF TypeOK, ManagerTypeOK, LaunchInv, RestartInv, OrderInv, PreconditionsMet,
        recordVars, cleanupVars, managerVars, processVars, subprocVars
<1>1. ASSUME NEW p \in Programs, Starter(p)
      PROVE  OrderInv'
  <2>1. CASE StarterChecks(p)
    BY <2>1 DEF StarterChecks
  <2>2. CASE StarterWakes(p)
    BY <2>2 DEF StarterWakes
  <2>3. CASE StarterSpawns(p)
    BY <2>3 DEF StarterSpawns, Popen
  <2>4. CASE StarterDies(p)
    BY <2>4 DEF StarterDies
  <2>5. CASE StarterHangs(p)
    BY <2>5 DEF StarterHangs
  <2>6. CASE StarterAddsFinished(p)
    BY <2>6 DEF StarterAddsFinished
  <2>7. CASE StarterSetsRunning(p)
    BY <2>7 DEF StarterSetsRunning
  <2>8. QED
    BY <1>1, <2>1, <2>2, <2>3, <2>4, <2>5, <2>6, <2>7 DEF Starter
<1>2. ASSUME NEW p \in Programs, Watch(p), UNCHANGED subprocVars
      PROVE  OrderInv'
  BY <1>2 DEF Watch, CheckerLoops, CheckerWaits, CheckerTimesOut, CheckerSeesChange,
     CheckerDecides
<1>3. ASSUME NEW p \in Programs, Restart(p)
      PROVE  OrderInv'
  <2>1. CASE NothingToRestart(p)
    BY <2>1 DEF NothingToRestart
  <2>2. CASE RestartKills(p)
    BY <2>2 DEF RestartKills
  <2>3. CASE RestartTimesOut(p)
    BY <2>3 DEF RestartTimesOut
  <2>4. CASE RestartStops(p)
    BY <2>4 DEF RestartStops
  <2>5. CASE RestartSpawns(p)
    BY <2>5 DEF RestartSpawns, Popen
  <2>6. CASE RestartFails(p)
    BY <2>6 DEF RestartFails
  <2>7. CASE RestartHangs(p)
    BY <2>7 DEF RestartHangs
  <2>8. QED
    BY <1>3, <2>1, <2>2, <2>3, <2>4, <2>5, <2>6, <2>7 DEF Restart
<1>4. ASSUME NEW p \in Programs, Listener(p), UNCHANGED subprocVars
      PROVE  OrderInv'
  BY <1>4 DEF Listener, ListenerReads, ListenerSetsInitializing, ListenerAddsInitialised,
     ListenerSetsRunning, ListenerAddsFinished, ListenerEnds, ChangeStateTo, NotifyChecker
<1>5. ASSUME NEW p \in Programs, NEW i \in alive[p], Write(p, i)
      PROVE  OrderInv'
  BY <1>5 DEF Write
<1>6. CASE Shutdown \/ DockerKill
  BY <1>6 DEF Shutdown, DockerKill, StopStarters, CleanupGoesTo
<1>7. CASE Cleanup
  BY <1>7 DEF Cleanup, DockerDown, StopStarters, CleanupGoesTo, JoinStarters, KillPrograms,
     BaseCleanup, StopWatchdogs,
     NotifyWatchdog, JoinCheckers, StopListeners, DeletePipes, NotifyChecker
<1>8. CASE UNCHANGED vars
  BY <1>8 DEF vars
<1>9. QED
  BY <1>1, <1>2, <1>3, <1>4, <1>5, <1>6, <1>7, <1>8 DEF Next, Supervise, Checker,
     ListenerThread

(***************************************************************************)
(* A joined starter has launched what it ever will, and the kill loop      *)
(* finds it.                                                               *)
(***************************************************************************)
LEMMA SurvivorStep ==
    ASSUME TypeOK, LaunchInv, RestartInv, SurvivorInv, [Next]_vars
    PROVE  SurvivorInv'
<1> USE ProgramsAssumption
    DEF TypeOK, ManagerTypeOK, LaunchInv, RestartInv, SurvivorInv, OnlyRestartedSurvive,
        Docker, recordVars, cleanupVars, managerVars, processVars, subprocVars
<1>1. ASSUME NEW p \in Programs, Starter(p)
      PROVE  SurvivorInv'
  <2>1. CASE StarterChecks(p)
    BY <2>1 DEF StarterChecks
  <2>2. CASE StarterWakes(p)
    BY <2>2 DEF StarterWakes
  <2>3. CASE StarterSpawns(p)
    BY <2>3 DEF StarterSpawns, Popen
  <2>4. CASE StarterDies(p)
    BY <2>4 DEF StarterDies
  <2>5. CASE StarterHangs(p)
    BY <2>5 DEF StarterHangs
  <2>6. CASE StarterAddsFinished(p)
    BY <2>6 DEF StarterAddsFinished
  <2>7. CASE StarterSetsRunning(p)
    BY <2>7 DEF StarterSetsRunning
  <2>8. QED
    BY <1>1, <2>1, <2>2, <2>3, <2>4, <2>5, <2>6, <2>7 DEF Starter
<1>2. ASSUME NEW p \in Programs, Watch(p), UNCHANGED subprocVars
      PROVE  SurvivorInv'
  BY <1>2 DEF Watch, CheckerLoops, CheckerWaits, CheckerTimesOut, CheckerSeesChange,
     CheckerDecides
<1>3. ASSUME NEW p \in Programs, Restart(p)
      PROVE  SurvivorInv'
  <2>1. CASE NothingToRestart(p)
    BY <2>1 DEF NothingToRestart
  <2>2. CASE RestartKills(p)
    BY <2>2 DEF RestartKills
  <2>3. CASE RestartTimesOut(p)
    BY <2>3 DEF RestartTimesOut
  <2>4. CASE RestartStops(p)
    BY <2>4 DEF RestartStops
  <2>5. CASE RestartSpawns(p)
    BY <2>5 DEF RestartSpawns, Popen
  <2>6. CASE RestartFails(p)
    BY <2>6 DEF RestartFails
  <2>7. CASE RestartHangs(p)
    BY <2>7 DEF RestartHangs
  <2>8. QED
    BY <1>3, <2>1, <2>2, <2>3, <2>4, <2>5, <2>6, <2>7 DEF Restart
<1>4. ASSUME NEW p \in Programs, Listener(p), UNCHANGED subprocVars
      PROVE  SurvivorInv'
  BY <1>4 DEF Listener, ListenerReads, ListenerSetsInitializing, ListenerAddsInitialised,
     ListenerSetsRunning, ListenerAddsFinished, ListenerEnds, ChangeStateTo, NotifyChecker
<1>5. ASSUME NEW p \in Programs, NEW i \in alive[p], Write(p, i)
      PROVE  SurvivorInv'
  BY <1>5 DEF Write
<1>6. CASE Shutdown \/ DockerKill
  BY <1>6 DEF Shutdown, DockerKill, StopStarters, CleanupGoesTo
<1>7. CASE Cleanup
  <2>1. CASE JoinStarters
    BY <2>1 DEF JoinStarters
  <2>2. CASE KillPrograms
    BY <2>2 DEF KillPrograms
  <2>3. CASE StopWatchdogs /\ UNCHANGED subprocVars
    BY <2>3 DEF StopWatchdogs
  <2>4. CASE (\E p \in Programs : NotifyWatchdog(p)) /\ UNCHANGED subprocVars
    BY <2>4 DEF NotifyWatchdog, NotifyChecker
  <2>5. CASE JoinCheckers /\ UNCHANGED subprocVars
    BY <2>5 DEF JoinCheckers
  <2>6. CASE StopListeners /\ UNCHANGED subprocVars
    BY <2>6 DEF StopListeners
  <2>7. CASE DeletePipes /\ UNCHANGED subprocVars
    BY <2>7 DEF DeletePipes
  <2>8. CASE DockerDown
    BY <2>8 DEF DockerDown, StopStarters, CleanupGoesTo
  <2>9. QED
    BY <1>7, <2>1, <2>2, <2>3, <2>4, <2>5, <2>6, <2>7, <2>8 DEF Cleanup, BaseCleanup
<1>8. CASE UNCHANGED vars
  BY <1>8 DEF vars
<1>9. QED
  BY <1>1, <1>2, <1>3, <1>4, <1>5, <1>6, <1>7, <1>8 DEF Next, Supervise, Checker,
     ListenerThread

(***************************************************************************)
(* What the listener is about to do rests on lines that were written.      *)
(***************************************************************************)
LEMMA OutputStep ==
    ASSUME TypeOK, LaunchInv, OutputInv, RecordInv, LockInv, [Next]_vars
    PROVE  OutputInv'
<1> USE ProgramsAssumption
    DEF TypeOK, ManagerTypeOK, LaunchInv, OutputInv, OutputOf, RecordInv, Line, recordVars,
        cleanupVars, managerVars, processVars, subprocVars
<1>1. ASSUME NEW p \in Programs, Starter(p)
      PROVE  OutputInv'
  <2>1. CASE StarterChecks(p)
    BY <2>1 DEF StarterChecks, Earned
  <2>2. CASE StarterWakes(p)
    BY <2>2 DEF StarterWakes, Earned
  <2>3. CASE StarterSpawns(p)
    <3>1. Popen(p) /\ UNCHANGED <<printed, pipe, listenerPc, programState, initialised>>
      BY <2>3 DEF StarterSpawns
    <3>2. QED
      BY <3>1, PopenKeepsEarned
  <2>4. CASE StarterDies(p)
    BY <2>4 DEF StarterDies, Earned
  <2>5. CASE StarterHangs(p)
    BY <2>5 DEF StarterHangs, Earned
  <2>6. CASE StarterAddsFinished(p)
    BY <2>6 DEF StarterAddsFinished, Earned
  <2>7. CASE StarterSetsRunning(p)
    BY <2>7 DEF StarterSetsRunning, Earned
  <2>8. QED
    BY <1>1, <2>1, <2>2, <2>3, <2>4, <2>5, <2>6, <2>7 DEF Starter
<1>2. ASSUME NEW p \in Programs, Watch(p), UNCHANGED subprocVars
      PROVE  OutputInv'
  <2>1. UNCHANGED <<programState, initialised, finished, listenerPc, pipe, launched, printed>>
    BY <1>2 DEF Watch, CheckerLoops, CheckerWaits, CheckerTimesOut, CheckerSeesChange,
       CheckerDecides
  <2>2. QED
    BY <2>1 DEF Earned
<1>3. ASSUME NEW p \in Programs, Restart(p)
      PROVE  OutputInv'
  <2>1. CASE NothingToRestart(p)
    BY <2>1 DEF NothingToRestart, Earned
  <2>2. CASE RestartKills(p)
    BY <2>2 DEF RestartKills, Earned
  <2>3. CASE RestartTimesOut(p)
    BY <2>3 DEF RestartTimesOut, Earned
  <2>4. CASE RestartStops(p)
    BY <2>4 DEF RestartStops, Earned
  <2>5. CASE RestartSpawns(p)
    <3>1. Popen(p) /\ UNCHANGED <<printed, pipe, listenerPc, programState, initialised>>
      BY <2>5 DEF RestartSpawns
    <3>2. QED
      BY <3>1, PopenKeepsEarned
  <2>6. CASE RestartFails(p)
    BY <2>6 DEF RestartFails, Earned
  <2>7. CASE RestartHangs(p)
    BY <2>7 DEF RestartHangs, Earned
  <2>8. QED
    BY <1>3, <2>1, <2>2, <2>3, <2>4, <2>5, <2>6, <2>7 DEF Restart
<1>4. ASSUME NEW p \in Programs, Listener(p), UNCHANGED subprocVars
      PROVE  OutputInv'
  <2>1. CASE ListenerReads(p)
    <3>1. /\ UNCHANGED <<launched, printed, programState, initialised, alive>>
          /\ listenerPc[p] = "read" /\ pipe[p] \in Seq(Line) /\ pipe[p] # <<>>
          /\ pipe' = [pipe EXCEPT ![p] = Tail(pipe[p])]
          /\ listenerPc' = [listenerPc EXCEPT ![p] = Transition(programState[p], pipe[p][1])]
      BY <1>4, <2>1 DEF ListenerReads
    <3>2. /\ Len(Tail(pipe[p])) < Len(pipe[p])
          /\ \A k \in 1..Len(Tail(pipe[p])) :
                Tail(pipe[p])[k] = pipe[p][k + 1] /\ k + 1 \in 1..Len(pipe[p])
      BY <3>1
    <3>3. \A k \in 1..Len(Tail(pipe[p])) : Tail(pipe[p])[k] = "init_to_running" => Earned(p)
      BY <3>2
    <3>4. pipe[p][1] = "init_to_running" => Earned(p)
      BY <3>1
    <3>5. /\ listenerPc'[p] \in {"read", "setInitializing", "setRunning"}
          /\ listenerPc'[p] = "setInitializing" => programState[p] # "RUNNING"
          /\ listenerPc'[p] = "setRunning" => Earned(p) /\ p \in initialised
      BY <3>1, <3>4 DEF Transition
    <3>6. \A q \in Programs : Earned(q)' <=> Earned(q)
      BY <3>1 DEF Earned
    <3>7. QED
      <4> SUFFICES ASSUME NEW q \in Programs
                   PROVE  OutputOf(q)'
        BY DEF OutputInv
      <4>1. CASE q = p
        <5>1. pipe'[p] = Tail(pipe[p]) /\ (Earned(p)' <=> Earned(p))
          BY <3>1, <3>6
        <5>2. \A k \in 1..Len(pipe'[p]) : pipe'[p][k] = "init_to_running" => Earned(p)'
          BY <3>3, <5>1
        <5>3. programState[p] = "INITIALIZING" => p \in initialised
          BY <3>1
        <5>4. p \in UseStateChecking /\ launched'[p] > 0
          BY <3>1
        <5>5. /\ programState'[p] = "INITIALIZING" => p \in initialised'
              /\ programState'[p] = "RUNNING" => launched'[p] > 0
          BY <3>1, <5>3, <5>4
        <5>6. listenerPc'[p] \in {"setRunning", "addFinished"}
                 => Earned(p)' /\ p \in initialised'
          BY <3>1, <3>5, <5>1
        <5>7. listenerPc'[p] = "setInitializing" => programState'[p] # "RUNNING"
          BY <3>1, <3>5
        <5>8. QED
          BY <4>1, <5>2, <5>4, <5>5, <5>6, <5>7
      <4>2. CASE q # p
        BY <3>1, <3>6, <4>2
      <4>3. QED
        BY <4>1, <4>2
  <2>2. CASE ListenerSetsInitializing(p)
    BY <1>4, <2>2 DEF ListenerSetsInitializing, ChangeStateTo, NotifyChecker, Earned
  <2>3. CASE ListenerAddsInitialised(p)
    BY <1>4, <2>3 DEF ListenerAddsInitialised, Earned
  <2>4. CASE ListenerSetsRunning(p)
    BY <1>4, <2>4 DEF ListenerSetsRunning, ChangeStateTo, NotifyChecker, Earned
  <2>5. CASE ListenerAddsFinished(p)
    BY <1>4, <2>5 DEF ListenerAddsFinished, Earned
  <2>6. CASE ListenerEnds(p)
    BY <1>4, <2>6 DEF ListenerEnds, Earned
  <2>7. QED
    BY <1>4, <2>1, <2>2, <2>3, <2>4, <2>5, <2>6 DEF Listener
<1>5. ASSUME NEW p \in Programs, NEW i \in alive[p], Write(p, i)
      PROVE  OutputInv'
  <2>1. /\ UNCHANGED <<launched, programState, initialised, listenerPc>>
        /\ p \in UseStateChecking
        /\ launched[p] \in Nat /\ i \in 1..launched[p] /\ launched[p] > 0
        /\ pipe[p] \in Seq(Line)
        /\ printed' = [printed EXCEPT ![p] = @ \cup {<<i, NextLine(p, i)>>}]
        /\ pipe' = [pipe EXCEPT ![p] = Append(pipe[p], NextLine(p, i))]
    BY <1>5 DEF Write
  <2>2. NextLine(p, i) \in Line
    BY DEF NextLine
  <2>3. NextLine(p, i) = "init_to_running" => Earned(p)'
    BY <2>1 DEF Earned
  <2>4. \A q \in Programs : Earned(q) => Earned(q)'
    BY <1>5, WriteKeepsEarned
  <2>5. \A k \in 1..Len(pipe'[p]) : pipe'[p][k] = "init_to_running" => Earned(p)'
    <3> SUFFICES ASSUME NEW k \in 1..Len(Append(pipe[p], NextLine(p, i))),
                        Append(pipe[p], NextLine(p, i))[k] = "init_to_running"
                 PROVE  Earned(p)'
      BY <2>1
    <3>1. \/ NextLine(p, i) = "init_to_running"
          \/ k \in 1..Len(pipe[p]) /\ pipe[p][k] = "init_to_running"
      BY ONLY <2>1, <2>2, AppendIndex,
              Append(pipe[p], NextLine(p, i))[k] = "init_to_running"
    <3>2. k \in 1..Len(pipe[p]) /\ pipe[p][k] = "init_to_running" => Earned(p)
      OBVIOUS
    <3>3. QED
      BY <2>3, <2>4, <3>1, <3>2
  <2>6. QED
    BY <2>1, <2>4, <2>5
<1>6. CASE Shutdown \/ DockerKill
  BY <1>6 DEF Shutdown, DockerKill, StopStarters, CleanupGoesTo, Earned
<1>7. CASE Cleanup
  BY <1>7 DEF Cleanup, DockerDown, StopStarters, CleanupGoesTo, JoinStarters, KillPrograms,
     BaseCleanup, StopWatchdogs,
     NotifyWatchdog, JoinCheckers, StopListeners, DeletePipes, NotifyChecker, Earned
<1>8. CASE UNCHANGED vars
  BY <1>8 DEF vars, Earned
<1>9. QED
  BY <1>1, <1>2, <1>3, <1>4, <1>5, <1>6, <1>7, <1>8 DEF Next, Supervise, Checker,
     ListenerThread

-----------------------------------------------------------------------------
(***************************************************************************)
(* With nothing launched, recorded or written, every part of the invariant *)
(* holds.                                                                  *)
(***************************************************************************)
LEMMA InitIndInv == Init => IndInv
<1> SUFFICES ASSUME Init
             PROVE  IndInv
  OBVIOUS
<1> USE ProgramsAssumption DEF Init, ManagerInit
<1>1. TypeOK
  BY TypeInit
<1>2. LaunchInv
  BY DEF LaunchInv
<1>3. RestartInv
  BY DEF RestartInv
<1>4. LockInv
  BY DEF LockInv
<1>5. OutputInv
  BY DEF OutputInv, OutputOf
<1>6. RecordInv
  BY DEF RecordInv
<1>7. OrderInv
  BY DEF OrderInv
<1>8. SurvivorInv
  BY DEF SurvivorInv, OnlyRestartedSurvive, Docker
<1>9. QED
  BY <1>1, <1>2, <1>3, <1>4, <1>5, <1>6, <1>7, <1>8 DEF IndInv

(***************************************************************************)
(* The invariant: it holds at the start, and no step of a starter, a       *)
(* checker, a listener, a program or the shutdown breaks it.               *)
(***************************************************************************)
THEOREM IndInvariant == Spec => []IndInv
<1>1. IndInv /\ [Next]_vars => IndInv'
  BY TypeStep, LaunchStep, RestartStep, LockStep, OutputStep, RecordStep, OrderStep,
     SurvivorStep DEF IndInv
<1>2. QED
  BY InitIndInv, <1>1, PTL DEF Spec

(***************************************************************************)
(* A program with transitions is recorded as finished only if one of its   *)
(* processes wrote the line that says it runs.                             *)
(***************************************************************************)
THEOREM RecordIsEarnedInvariant == Spec => []RecordIsEarned
<1>1. IndInv => RecordIsEarned
  BY DEF IndInv, RecordInv, RecordIsEarned
<1>2. QED
  BY IndInvariant, <1>1, PTL

(***************************************************************************)
(* No watchdog exceeds max_num_restarts, and each launch of a program      *)
(* after the first has used up one restart.                                *)
(***************************************************************************)
THEOREM RestartsBoundedInvariant == Spec => []RestartsBounded
<1>1. IndInv => RestartsBounded
  BY DEF IndInv, RestartInv, RestartsBounded
<1>2. QED
  BY IndInvariant, <1>1, PTL

(***************************************************************************)
(* What a joined starter has launched does not survive the kill loop of    *)
(* the shutdown.                                                           *)
(***************************************************************************)
THEOREM OnlyRestartedSurviveInvariant == Spec => []OnlyRestartedSurvive
<1>1. IndInv => OnlyRestartedSurvive
  BY DEF IndInv, SurvivorInv
<1>2. QED
  BY IndInvariant, <1>1, PTL

-----------------------------------------------------------------------------
OrderProofs == INSTANCE StartupOrderProofs WITH started <- Started

(***************************************************************************)
(* The lock of cv_state_change: a program with transitions that is RUNNING *)
(* keeps its state, and is not restarted, whatever its watchdog, starter   *)
(* and listener were about to do.                                          *)
(***************************************************************************)
LEMMA RunningStays ==
    ASSUME IndInv, [Next]_vars, NEW q \in UseStateChecking, programState[q] = "RUNNING"
    PROVE  /\ programState'[q] = "RUNNING"
           /\ curNumRestarts'[q] = curNumRestarts[q]
           /\ launched'[q] = launched[q]
<1> USE ProgramsAssumption
    DEF IndInv, TypeOK, ManagerTypeOK, LaunchInv, LockInv, StateLockFree, RestartPc, recordVars,
        cleanupVars, managerVars, processVars, subprocVars
<1> DEFINE Stays == UNCHANGED <<programState[q], curNumRestarts[q], launched[q]>>
<1>1. /\ q \in Programs
      /\ checkerPc[q] \notin {"restart", "killed", "relaunch"}
      /\ launched[q] > 0
      /\ listenerPc[q] # "setInitializing"
  BY DEF OutputInv, OutputOf
<1>2. ASSUME NEW p \in Programs, Starter(p)
      PROVE  Stays
  BY <1>1, <1>2 DEF Starter, StarterChecks, StarterWakes, StarterSpawns, Popen, StarterDies,
     StarterHangs, StarterAddsFinished, StarterSetsRunning
<1>3. ASSUME NEW p \in Programs, Watch(p), UNCHANGED subprocVars
      PROVE  Stays
  BY <1>3 DEF Watch, CheckerLoops, CheckerWaits, CheckerTimesOut, CheckerSeesChange,
     CheckerDecides
<1>4. ASSUME NEW p \in Programs, Restart(p)
      PROVE  Stays
  BY <1>1, <1>4 DEF Restart, NothingToRestart, RestartKills, RestartTimesOut, RestartStops,
     RestartSpawns, RestartFails, RestartHangs, Popen
<1>5. ASSUME NEW p \in Programs, Listener(p), UNCHANGED subprocVars
      PROVE  Stays
  BY <1>1, <1>5 DEF Listener, ListenerReads, ListenerSetsInitializing, ListenerAddsInitialised,
     ListenerSetsRunning, ListenerAddsFinished, ListenerEnds, ChangeStateTo, NotifyChecker
<1>6. ASSUME NEW p \in Programs, NEW i \in alive[p], Write(p, i)
      PROVE  Stays
  BY <1>6 DEF Write
<1>7. CASE Shutdown \/ DockerKill
  BY <1>7 DEF Shutdown, DockerKill, StopStarters, CleanupGoesTo
<1>8. CASE Cleanup
  BY <1>8 DEF Cleanup, DockerDown, StopStarters, CleanupGoesTo, JoinStarters, KillPrograms,
     BaseCleanup, StopWatchdogs,
     NotifyWatchdog, NotifyChecker, JoinCheckers, StopListeners, DeletePipes
<1>9. CASE UNCHANGED vars
  BY <1>9 DEF vars
<1>10. Stays
  BY <1>2, <1>3, <1>4, <1>5, <1>6, <1>7, <1>8, <1>9 DEF Next, Supervise, Checker,
     ListenerThread
<1>11. QED
  BY <1>10

(***************************************************************************)
(* Once a program with transitions is RUNNING, its watchdog neither resets *)
(* its state nor kills or relaunches it.                                   *)
(***************************************************************************)
THEOREM NoRestartOnceRunningHolds == Spec => NoRestartOnceRunning
<1> DEFINE Step == \A p \in UseStateChecking :
                      programState[p] = "RUNNING" =>
                          /\ programState'[p] = "RUNNING"
                          /\ curNumRestarts'[p] = curNumRestarts[p]
                          /\ launched'[p] = launched[p]
<1>1. IndInv /\ [Next]_vars => [Step]_vars
  BY RunningStays
<1>2. Spec => [][Step]_vars
  BY <1>1, IndInvariant, PTL DEF Spec
<1>3. QED
  BY <1>2 DEF NoRestartOnceRunning

-----------------------------------------------------------------------------
(***************************************************************************)
(* A launch keeps every program that was launched and adds its own.        *)
(***************************************************************************)
LEMMA PopenStarts ==
    ASSUME TypeOK, NEW p \in Programs, Popen(p), UNCHANGED printed
    PROVE  Started' = Started \cup {p}
BY PopenKeepsEarned DEF Started

(***************************************************************************)
(* Every step of the threads is a step of StartupOrder or invisible to it: *)
(* the first launch is its Launch, the two ways into the record are its    *)
(* Initialise and Finish, and a relaunch changes nothing.                  *)
(***************************************************************************)
LEMMA OrderStepOrStutter ==
    ASSUME IndInv, [Next]_vars
    PROVE  [Order!Next]_<<Started, initialised, finished>>
<1> USE ProgramsAssumption
    DEF IndInv, TypeOK, ManagerTypeOK, recordVars, cleanupVars, managerVars, processVars,
        subprocVars
<1> DEFINE Quiet == UNCHANGED <<Started, initialised, finished>>
<1>1. ASSUME UNCHANGED <<launched, initialised, finished>>
      PROVE  Quiet
  BY <1>1 DEF Started
<1>2. ASSUME NEW p \in Programs, Starter(p)
      PROVE  Quiet \/ Order!Next
  <2>1. CASE StarterChecks(p) \/ StarterWakes(p) \/ StarterDies(p) \/ StarterHangs(p)
           \/ StarterSetsRunning(p)
    BY <1>1, <2>1 DEF StarterChecks, StarterWakes, StarterDies, StarterHangs, StarterSetsRunning
  <2>2. CASE StarterSpawns(p)
    <3>1. Started' = Started \cup {p} /\ UNCHANGED <<initialised, finished>>
      BY <2>2, PopenStarts DEF StarterSpawns
    <3>2. PreconditionsMet(p)
      BY <2>2 DEF StarterSpawns, OrderInv
    <3>3. Order!Launch(p)
      BY <3>1, <3>2 DEF PreconditionsMet, Order!Launch, Order!PreconditionsMet
    <3>4. QED
      BY <3>3 DEF Order!Next
  <2>3. CASE StarterAddsFinished(p)
    <3>1. p \in Started /\ p \notin UseStateChecking /\ UNCHANGED <<launched, initialised>>
      BY <2>3 DEF StarterAddsFinished, LaunchInv, Started
    <3>2. finished' = finished \cup {p} /\ UNCHANGED Started
      BY <2>3, <3>1 DEF StarterAddsFinished, Started
    <3>3. Order!Finish(p)
      BY <3>1, <3>2 DEF Order!Finish
    <3>4. QED
      BY <3>3 DEF Order!Next
  <2>4. QED
    BY <1>2, <2>1, <2>2, <2>3 DEF Starter
<1>3. ASSUME NEW p \in Programs, Watch(p), UNCHANGED subprocVars
      PROVE  Quiet
  BY <1>1, <1>3 DEF Watch, CheckerLoops, CheckerWaits, CheckerTimesOut, CheckerSeesChange,
     CheckerDecides
<1>4. ASSUME NEW p \in Programs, Restart(p)
      PROVE  Quiet
  <2>1. CASE RestartSpawns(p)
    <3>1. Started' = Started \cup {p} /\ UNCHANGED <<initialised, finished>>
      BY <2>1, PopenStarts DEF RestartSpawns
    <3>2. p \in Started
      BY <2>1 DEF RestartSpawns, RestartInv, LaunchInv, Started
    <3>3. QED
      BY <3>1, <3>2
  <2>2. CASE ~RestartSpawns(p)
    BY <1>1, <1>4, <2>2 DEF Restart, NothingToRestart, RestartKills, RestartTimesOut,
       RestartStops, RestartFails, RestartHangs
  <2>3. QED
    BY <2>1, <2>2
<1>5. ASSUME NEW p \in Programs, Listener(p), UNCHANGED subprocVars
      PROVE  Quiet \/ Order!Next
  <2>1. CASE ListenerAddsInitialised(p)
    <3>1. p \in Started \cap UseStateChecking
      BY <2>1 DEF ListenerAddsInitialised, OutputInv, OutputOf, Started
    <3>2. initialised' = initialised \cup {p} /\ UNCHANGED <<Started, finished>>
      BY <1>5, <2>1 DEF ListenerAddsInitialised, Started
    <3>3. Order!Initialise(p)
      BY <3>1, <3>2 DEF Order!Initialise
    <3>4. QED
      BY <3>3 DEF Order!Next
  <2>2. CASE ListenerAddsFinished(p)
    <3>1. p \in Started /\ p \in initialised
      BY <2>2 DEF ListenerAddsFinished, OutputInv, OutputOf, Started
    <3>2. finished' = finished \cup {p} /\ UNCHANGED <<Started, initialised>>
      BY <1>5, <2>2 DEF ListenerAddsFinished, Started
    <3>3. Order!Finish(p)
      BY <3>1, <3>2 DEF Order!Finish
    <3>4. QED
      BY <3>3 DEF Order!Next
  <2>3. CASE ~ListenerAddsInitialised(p) /\ ~ListenerAddsFinished(p)
    BY <1>1, <1>5, <2>3 DEF Listener, ListenerReads, ListenerSetsInitializing,
       ListenerSetsRunning, ListenerEnds
  <2>4. QED
    BY <2>1, <2>2, <2>3
<1>6. ASSUME NEW p \in Programs, NEW i \in alive[p], Write(p, i)
      PROVE  Quiet
  BY <1>1, <1>6 DEF Write
<1>7. CASE Shutdown \/ DockerKill
  BY <1>1, <1>7 DEF Shutdown, DockerKill, StopStarters, CleanupGoesTo
<1>8. CASE Cleanup
  BY <1>1, <1>8 DEF Cleanup, DockerDown, StopStarters, CleanupGoesTo, JoinStarters, KillPrograms,
     BaseCleanup, StopWatchdogs,
     NotifyWatchdog, JoinCheckers, StopListeners, DeletePipes
<1>9. CASE UNCHANGED vars
  BY <1>1, <1>9 DEF vars
<1>10. QED
  BY <1>2, <1>3, <1>4, <1>5, <1>6, <1>7, <1>8, <1>9 DEF Next, Supervise, Checker,
     ListenerThread

(***************************************************************************)
(* This manager implements the abstract startup order: it launches a       *)
(* program only after what it depends on has been recorded, and records a  *)
(* program only after its launch and its initialization.                   *)
(***************************************************************************)
THEOREM Implementation == Spec => ImplementsStartupOrder
<1>1. Init => Order!Init
  BY DEF Init, ManagerInit, Order!Init, Started
<1>2. IndInv /\ [Next]_vars => [Order!Next]_<<Started, initialised, finished>>
  BY OrderStepOrStutter
<1>3. QED
  BY <1>1, <1>2, IndInvariant, PTL DEF Spec, ImplementsStartupOrder, Order!Spec,
     Order!orderVars

(***************************************************************************)
(* Programs whose dependencies block each other are never launched, as no  *)
(* implementation of the startup order launches them.                      *)
(***************************************************************************)
THEOREM BlockedNeverStartHolds == Spec => []BlockedNeverStart
<1>1. OrderProofs!Spec => []OrderProofs!BlockedNeverStart
  BY OrderProofs!BlockedNeverStartInvariant
<1>2. Order!Init => OrderProofs!Init
  BY DEF Order!Init, OrderProofs!Init
<1>3. [Order!Next]_Order!orderVars => [OrderProofs!Next]_OrderProofs!orderVars
  BY DEF Order!Next, Order!Launch, Order!PreconditionsMet, Order!Initialise, Order!Finish,
     Order!orderVars, OrderProofs!Next, OrderProofs!Launch, OrderProofs!PreconditionsMet,
     OrderProofs!Initialise, OrderProofs!Finish, OrderProofs!orderVars
<1>4. ImplementsStartupOrder => OrderProofs!Spec
  BY <1>2, <1>3, PTL DEF ImplementsStartupOrder, Order!Spec, OrderProofs!Spec
<1>5. OrderProofs!BlockedNeverStart => BlockedNeverStart
  BY DEF OrderProofs!BlockedNeverStart, OrderProofs!SelfBlocking, BlockedNeverStart,
     Order!BlockedNeverStart, Order!SelfBlocking
<1>6. QED
  BY <1>1, <1>4, <1>5, Implementation, PTL

=============================================================================
