-------------------------- MODULE TmuxManagerProofs --------------------------
(***************************************************************************)
(* Safety of TmuxManager for every set of programs, every layout of panes, *)
(* every dependency relation and every number of restarts.                 *)
(***************************************************************************)
EXTENDS TmuxManager, FiniteSetTheorems, SequenceTheorems, TLAPS

-----------------------------------------------------------------------------
(* Panes and sessions *)

LEMMA PaneOfType ==
    ASSUME NEW p \in Programs
    PROVE  /\ SessionNr(p) \in AllSessions /\ SessionNr(p) \in Int
           /\ PaneOf(p) \in Panes /\ PaneOf(p)[1] = SessionNr(p) /\ PaneOf(p)[2] = PaneNr(p)
<1>1. ProgramNr[p] \in Nat /\ PanesPerSession \in Nat /\ PanesPerSession > 0
  BY PanesAssumption
<1>2. PaneNr(p) \in 0..PanesPerSession - 1 /\ SessionNr(p) \in Int
  BY <1>1 DEF PaneNr, SessionNr
<1>3. QED
  BY <1>2 DEF Panes, PaneOf, AllSessions

LEMMA SessionsFinite == IsFiniteSet(AllSessions) /\ AllSessions \subseteq Int
<1> DEFINE f == [p \in Programs |-> SessionNr(p)]
<1>1. f \in Surjection(Programs, AllSessions)
  BY DEF Surjection, AllSessions
<1>2. AllSessions \subseteq Int
  BY PaneOfType DEF AllSessions
<1>3. QED
  BY <1>1, <1>2, FS_Surjection, PanesAssumption

(***************************************************************************)
(* While no session has been removed, the index of a session tells it from *)
(* every other one.                                                        *)
(***************************************************************************)
LEMMA IndexInjective ==
    ASSUME sessions = AllSessions, NEW s \in AllSessions, NEW t \in AllSessions,
           IndexOf(s) = IndexOf(t)
    PROVE  s = t
<1>1. ASSUME NEW a \in AllSessions, NEW b \in AllSessions, a < b, IndexOf(a) = IndexOf(b)
      PROVE  FALSE
  <2> DEFINE A == {u \in sessions : u < a}
             B == {u \in sessions : u < b}
  <2>1. a \in Int /\ b \in Int /\ AllSessions \subseteq Int /\ IsFiniteSet(AllSessions)
    BY SessionsFinite
  <2>2. sessions = AllSessions
    OBVIOUS
  <2>3. B \in SUBSET AllSessions
    BY ONLY <2>2
  <2>4. \A u \in sessions : u < a => u < b
    BY ONLY <1>1, <2>1, <2>2
  <2>5. A \in SUBSET B
    BY ONLY <2>4
  <2>6. a \in B /\ a \notin A
    BY ONLY <1>1, <2>1, <2>2
  <2>7. IsFiniteSet(B)
    BY ONLY <2>1, <2>3, FS_Subset
  <2>8. Cardinality(B) = Cardinality(A) => A = B
    BY ONLY <2>5, <2>7, FS_Subset
  <2>9. Cardinality(B) = Cardinality(A)
    BY <1>1 DEF IndexOf
  <2>10. QED
    BY ONLY <2>6, <2>8, <2>9
<1>2. s \in Int /\ t \in Int
  BY SessionsFinite
<1>3. QED
  BY <1>1, <1>2

LEMMA IndexType ==
    ASSUME sessions \subseteq AllSessions, NEW s
    PROVE  IndexOf(s) \in Nat
<1>1. {t \in sessions : t < s} \in SUBSET AllSessions
  OBVIOUS
<1>2. IsFiniteSet({t \in sessions : t < s})
  BY ONLY <1>1, SessionsFinite, FS_Subset
<1>3. QED
  BY <1>2, FS_CardinalityType DEF IndexOf

-----------------------------------------------------------------------------
(* Types *)

LEMMA TypeInit == Init => TypeOK
<1> USE ProgramsAssumption
    DEF TypeOK, ManagerTypeOK, ProgramState, Line, RestartPc, CheckerPc, ListenerPc,
        CleanupPc, StarterPc
<1>1. <<>> \in Seq(Line) /\ <<>> \in Seq(Command)
  OBVIOUS
<1>2. ManagerInit => pipe \in [Programs -> Seq(Line)]
  BY <1>1 DEF ManagerInit
<1>3. ManagerInit => stopWatchdogs \in BOOLEAN /\ listening \in BOOLEAN
  BY DEF ManagerInit
<1>4. ManagerInit => /\ programState \in [Programs -> ProgramState]
                     /\ curNumRestarts \in [Programs -> Nat]
                     /\ initialised \subseteq Programs /\ finished \subseteq Programs
                     /\ checkerPc \in [Programs -> CheckerPc]
                     /\ listenerPc \in [Programs -> ListenerPc]
                     /\ cleanupPc \in CleanupPc
                     /\ unnotified \subseteq Programs
  BY DEF ManagerInit
<1>5. ManagerInit => ManagerTypeOK
  BY <1>2, <1>3, <1>4
<1>6. Init => typed \in [Panes -> Seq(Command)]
  BY <1>1 DEF Init
<1>7. QED
  BY <1>5, <1>6 DEF Init

(***************************************************************************)
(* Typing a command adds it to a pane and to the count of its program.     *)
(***************************************************************************)
LEMMA TypeType ==
    ASSUME TypeOK, NEW p \in Programs, NEW x \in Panes, Type(x, p)
    PROVE  sent' \in [Programs -> Nat] /\ typed' \in [Panes -> Seq(Command)]
<1>1. sent[p] \in Nat /\ typed[x] \in Seq(Command)
  BY DEF TypeOK
<1>2. <<p, sent[p] + 1>> \in Command
  BY <1>1 DEF Command
<1>3. Append(typed[x], <<p, sent[p] + 1>>) \in Seq(Command)
  BY <1>1, <1>2, AppendProperties
<1>4. sent' \in [Programs -> Nat]
  BY <1>1 DEF Type, TypeOK
<1>5. QED
  BY <1>3, <1>4 DEF Type, TypeOK

LEMMA TypeStep ==
    ASSUME TypeOK, [Next]_vars
    PROVE  TypeOK'
<1> USE ProgramsAssumption
    DEF TypeOK, ManagerTypeOK, ProgramState, Line, RestartPc, CheckerPc, ListenerPc,
        CleanupPc, StarterPc, recordVars, cleanupVars, managerVars, paneVars, searchVars,
        sessionVars,
        tmuxVars
<1>1. ASSUME NEW p \in Programs, Starter(p)
      PROVE  TypeOK'
  <2>1. CASE StarterChecks(p)
    BY <2>1 DEF StarterChecks
  <2>2. CASE StarterWakes(p)
    BY <2>2 DEF StarterWakes
  <2>3. CASE StarterTypes(p)
    <3>1. sent' \in [Programs -> Nat] /\ typed' \in [Panes -> Seq(Command)]
      BY ONLY TypeOK, <2>3, PaneOfType, TypeType DEF StarterTypes
    <3>2. QED
      BY <2>3, <3>1 DEF StarterTypes
  <2>4. CASE StarterAddsFinished(p)
    BY <2>4 DEF StarterAddsFinished
  <2>5. CASE StarterSetsRunning(p)
    BY <2>5 DEF StarterSetsRunning
  <2>6. QED
    BY <1>1, <2>1, <2>2, <2>3, <2>4, <2>5 DEF Starter
<1>2. ASSUME NEW p \in Programs, Watch(p), UNCHANGED tmuxVars
      PROVE  TypeOK'
  BY <1>2 DEF Watch, CheckerLoops, CheckerWaits, CheckerTimesOut, CheckerSeesChange,
     CheckerDecides
<1>3. ASSUME NEW p \in Programs, Restart(p)
      PROVE  TypeOK'
  <2>1. CASE NothingToRestart(p) \/ RestartSearches(p) \/ SearchBreaks(p)
    <3>1. CASE RestartSearches(p)
      BY <3>1 DEF RestartSearches
    <3>2. CASE NothingToRestart(p)
      BY <3>2 DEF NothingToRestart, SearchEnds
    <3>3. CASE SearchBreaks(p)
      BY <3>3 DEF SearchBreaks, SearchEnds
    <3>4. QED
      BY <2>1, <3>1, <3>2, <3>3
  <2>2. CASE RestartLooksUp(p)
    <3>1. IndexOf(SessionNr(p)) \in Nat
      BY IndexType
    <3>2. QED
      BY <2>2, <3>1 DEF RestartLooksUp, SearchEnds
  <2>3. CASE RestartFails(p)
    BY <2>3 DEF RestartFails
  <2>4. ASSUME NEW x \in Panes, RestartInterrupts(p, x)
        PROVE  TypeOK'
    <3>1. <<>> \in Seq(Command)
      OBVIOUS
    <3>2. typed' \in [Panes -> Seq(Command)] /\ curNumRestarts' \in [Programs -> Nat]
      BY <2>4, <3>1 DEF RestartInterrupts
    <3>3. QED
      BY <2>4, <3>2 DEF RestartInterrupts
  <2>5. ASSUME NEW x \in Panes, RestartTimesOut(p, x)
        PROVE  TypeOK'
    BY <2>5 DEF RestartTimesOut
  <2>6. ASSUME NEW x \in Panes, RestartStops(p, x)
        PROVE  TypeOK'
    BY <2>6 DEF RestartStops
  <2>7. ASSUME NEW x \in Panes, RestartTypes(p, x)
        PROVE  TypeOK'
    <3>1. sent' \in [Programs -> Nat] /\ typed' \in [Panes -> Seq(Command)]
      BY ONLY TypeOK, <2>7, TypeType DEF RestartTypes
    <3>2. QED
      BY <2>7, <3>1 DEF RestartTypes
  <2>8. QED
    BY ONLY <1>3, <2>1, <2>2, <2>3, <2>4, <2>5, <2>6, <2>7 DEF Restart
<1>4. ASSUME NEW p \in Programs, Listener(p), UNCHANGED tmuxVars
      PROVE  TypeOK'
  <2>1. CASE ListenerReads(p)
    BY <1>4, <2>1 DEF ListenerReads, Transition
  <2>2. CASE ListenerSetsInitializing(p)
    BY <1>4, <2>2 DEF ListenerSetsInitializing, ChangeStateTo, NotifyChecker
  <2>3. CASE ListenerAddsInitialised(p)
    BY <1>4, <2>3 DEF ListenerAddsInitialised
  <2>4. CASE ListenerSetsRunning(p)
    BY <1>4, <2>4 DEF ListenerSetsRunning, ChangeStateTo, NotifyChecker
  <2>5. CASE ListenerAddsFinished(p)
    BY <1>4, <2>5 DEF ListenerAddsFinished
  <2>6. CASE ListenerEnds(p)
    BY <1>4, <2>6 DEF ListenerEnds
  <2>7. QED
    BY ONLY <1>4, <2>1, <2>2, <2>3, <2>4, <2>5, <2>6 DEF Listener
<1>5. ASSUME NEW p \in Programs, NEW n \in 1..sent[p], Write(p, n)
      PROVE  TypeOK'
  <2>1. NextLine(p, n) \in Line /\ n \in Nat
    BY <1>5 DEF NextLine
  <2>2. pipe' \in [Programs -> Seq(Line)] /\ printed' \in [Programs -> SUBSET (Nat \X Line)]
    BY <1>5, <2>1 DEF Write
  <2>3. QED
    BY <1>5, <2>2 DEF Write
<1>6. ASSUME NEW p \in Programs, SetUp(p)
      PROVE  TypeOK'
  BY <1>6 DEF SetUp
<1>7. ASSUME NEW x \in Panes, ShellRuns(x)
      PROVE  TypeOK'
  <2>1. Head(typed[x]) \in Command /\ Tail(typed[x]) \in Seq(Command)
    BY <1>7, HeadTailProperties DEF ShellRuns
  <2>2. running' \in [Panes -> SUBSET Command] /\ typed' \in [Panes -> Seq(Command)]
    BY <1>7, <2>1 DEF ShellRuns
  <2>3. QED
    BY <1>7, <2>2 DEF ShellRuns
<1>8. ASSUME NEW x \in Panes, ProgramExits(x)
      PROVE  TypeOK'
  BY <1>8 DEF ProgramExits
<1>9. CASE Shutdown
  <2>1. typed' \in [Panes -> Seq(Command)]
    BY <1>9 DEF Shutdown
  <2>2. QED
    BY <1>9, <2>1 DEF Shutdown
<1>10. CASE Cleanup
  <2>1. ASSUME NEW s \in AllSessions, FindIdle(s)
        PROVE  TypeOK'
    BY <2>1 DEF FindIdle
  <2>2. CASE KillSession
    <3>1. typed' \in [Panes -> Seq(Command)] /\ running' \in [Panes -> SUBSET Command]
      BY <2>2 DEF KillSession
    <3>2. QED
      BY <2>2, <3>1 DEF KillSession
  <2>3. CASE ForgetSession
    BY <2>3 DEF ForgetSession
  <2>4. CASE GiveUpSessions \/ StopStarters
    BY <2>4 DEF GiveUpSessions, StopStarters
  <2>5. CASE (StopWatchdogs \/ JoinCheckers \/ StopListeners \/ DeletePipes) /\ UNCHANGED tmuxVars
    BY <2>5 DEF StopWatchdogs, JoinCheckers, StopListeners, DeletePipes
  <2>6. ASSUME NEW p \in Programs, NotifyWatchdog(p), UNCHANGED tmuxVars
        PROVE  TypeOK'
    BY <2>6 DEF NotifyWatchdog, NotifyChecker
  <2>7. QED
    BY ONLY <1>10, <2>1, <2>2, <2>3, <2>4, <2>5, <2>6 DEF Cleanup, BaseCleanup
<1>11. CASE UNCHANGED vars
  BY <1>11 DEF vars
<1>12. QED
  BY ONLY <1>1, <1>2, <1>3, <1>4, <1>5, <1>6, <1>7, <1>8, <1>9, <1>10, <1>11, [Next]_vars
     DEF Next, Supervise, Checker, ListenerThread

(***************************************************************************)
(* TypeOK: no step of a thread, of tmux or of a program leaves the states, *)
(* the program counters and the panes there are.                           *)
(***************************************************************************)
THEOREM TypeCorrect == Spec => []TypeOK
<1>1. TypeOK /\ [Next]_vars => TypeOK'
  BY TypeStep
<1>2. QED
  BY TypeInit, <1>1, PTL DEF Spec

-----------------------------------------------------------------------------
(* What typing and writing leave as it was *)

(***************************************************************************)
(* Typing a command forgets nothing about the earlier ones.                *)
(***************************************************************************)
LEMMA TypeKeepsEarned ==
    ASSUME TypeOK, NEW p \in Programs, NEW x, Type(x, p), UNCHANGED printed
    PROVE  \A q \in Programs : /\ sent'[q] > 0 <=> sent[q] > 0 \/ q = p
                               /\ Earned(q) => Earned(q)'
<1> SUFFICES ASSUME NEW q \in Programs
             PROVE  /\ sent'[q] > 0 <=> sent[q] > 0 \/ q = p
                    /\ Earned(q) => Earned(q)'
  OBVIOUS
<1>1. sent[q] \in Nat /\ sent' = [sent EXCEPT ![p] = sent[p] + 1] /\ sent \in [Programs -> Nat]
  BY DEF TypeOK, Type
<1>2. sent'[q] = IF q = p THEN sent[q] + 1 ELSE sent[q]
  BY <1>1
<1>3. 1..sent[q] \subseteq 1..sent'[q]
  BY <1>1, <1>2
<1>4. Earned(q) => Earned(q)'
  BY <1>3 DEF Earned
<1>5. QED
  BY <1>1, <1>2, <1>4

(***************************************************************************)
(* What a program has earned it keeps when one of its runs writes on.      *)
(***************************************************************************)
LEMMA WriteKeepsEarned ==
    ASSUME TypeOK, NEW p \in Programs, NEW n, Write(p, n)
    PROVE  \A q \in Programs : Earned(q) => Earned(q)'
BY DEF TypeOK, Write, Earned, paneVars

(***************************************************************************)
(* A line read from a pipe after a write is the new one or an older one.   *)
(***************************************************************************)
LEMMA AppendIndex ==
    ASSUME NEW S, NEW s \in Seq(S), NEW e \in S, NEW k \in 1..Len(Append(s, e))
    PROVE  Append(s, e)[k] = e \/ (k \in 1..Len(s) /\ Append(s, e)[k] = s[k])
<1>1. Len(s) \in Nat /\ Len(Append(s, e)) = Len(s) + 1
  BY AppendProperties
<1>2. k = Len(s) + 1 \/ k \in 1..Len(s)
  BY <1>1
<1>3. QED
  BY <1>2, AppendProperties

(***************************************************************************)
(* The steps of tmux and of the shutdown that touch neither a state, nor   *)
(* the record, a pipe or what has been typed and written so far.           *)
(***************************************************************************)
Untouched == UNCHANGED <<programState, curNumRestarts, recordVars, listenerPc, pipe,
                         starterPc, sent, printed>>

LEMMA OthersTouchNothing ==
    ASSUME \/ \E p \in Programs : SetUp(p)
           \/ \E x \in Panes : ShellRuns(x) \/ ProgramExits(x)
           \/ Shutdown
           \/ \E s \in AllSessions : FindIdle(s)
           \/ KillSession \/ ForgetSession \/ GiveUpSessions \/ StopStarters
    PROVE  Untouched /\ UNCHANGED checkerPc
<1> USE DEF Untouched, managerVars, recordVars, cleanupVars, paneVars, searchVars,
        sessionVars, tmuxVars
<1>1. ASSUME NEW p \in Programs, SetUp(p)
      PROVE  Untouched /\ UNCHANGED checkerPc
  BY <1>1 DEF SetUp
<1>2. ASSUME NEW x \in Panes, ShellRuns(x) \/ ProgramExits(x)
      PROVE  Untouched /\ UNCHANGED checkerPc
  BY <1>2 DEF ShellRuns, ProgramExits
<1>3. ASSUME NEW s \in AllSessions, FindIdle(s)
      PROVE  Untouched /\ UNCHANGED checkerPc
  BY <1>3 DEF FindIdle
<1>4. CASE Shutdown \/ KillSession \/ ForgetSession \/ GiveUpSessions \/ StopStarters
  BY <1>4 DEF Shutdown, KillSession, ForgetSession, GiveUpSessions, StopStarters
<1>5. QED
  BY <1>1, <1>2, <1>3, <1>4

LEMMA ShutdownTouchesNothing ==
    ASSUME TypeOK, BaseCleanup, UNCHANGED tmuxVars
    PROVE  /\ Untouched
           /\ checkerPc' \in [Programs -> CheckerPc]
           /\ \A q \in Programs : \/ checkerPc'[q] = checkerPc[q]
                                  \/ checkerPc[q] = "waiting" /\ checkerPc'[q] = "notified"
<1> USE DEF TypeOK, ManagerTypeOK, Untouched, CheckerPc, recordVars, paneVars, tmuxVars
<1>1. CASE StopWatchdogs \/ JoinCheckers \/ StopListeners \/ DeletePipes
  BY <1>1 DEF StopWatchdogs, JoinCheckers, StopListeners, DeletePipes
<1>2. ASSUME NEW p \in Programs, NotifyWatchdog(p)
      PROVE  /\ Untouched
             /\ checkerPc' \in [Programs -> CheckerPc]
             /\ \A q \in Programs : \/ checkerPc'[q] = checkerPc[q]
                                    \/ checkerPc[q] = "waiting" /\ checkerPc'[q] = "notified"
  BY <1>2 DEF NotifyWatchdog, NotifyChecker
<1>3. QED
  BY <1>1, <1>2 DEF BaseCleanup

(***************************************************************************)
(* The steps of a manager, with those that touch little taken together.    *)
(***************************************************************************)
LEMMA StepCases ==
    ASSUME TypeOK, [Next]_vars
    PROVE  \/ \E p \in Programs : Starter(p)
           \/ \E p \in Programs : Watch(p) /\ UNCHANGED tmuxVars
           \/ \E p \in Programs : Restart(p)
           \/ \E p \in Programs : Listener(p) /\ UNCHANGED tmuxVars
           \/ \E p \in Programs : \E n \in 1..sent[p] : Write(p, n)
           \/ /\ Untouched
              /\ checkerPc' \in [Programs -> CheckerPc]
              /\ \A q \in Programs : \/ checkerPc'[q] = checkerPc[q]
                                     \/ checkerPc[q] = "waiting" /\ checkerPc'[q] = "notified"
<1>1. CASE Supervise \/ Shutdown
  BY <1>1, OthersTouchNothing DEF Supervise, Checker, ListenerThread, TypeOK, ManagerTypeOK
<1>2. CASE Cleanup
  BY <1>2, OthersTouchNothing, ShutdownTouchesNothing DEF Cleanup, TypeOK, ManagerTypeOK
<1>3. CASE UNCHANGED vars
  BY <1>3 DEF vars, tmuxVars, managerVars, paneVars, recordVars, Untouched, TypeOK,
     ManagerTypeOK
<1>4. QED
  BY <1>1, <1>2, <1>3 DEF Next

-----------------------------------------------------------------------------
(* The parts of the invariant *)

(***************************************************************************)
(* A starter types once and leaves the part of its code that does for      *)
(* good; a checker counts below the maximum, and before it types.          *)
(***************************************************************************)
LEMMA CountStep ==
    ASSUME TypeOK, CountInv, [Next]_vars
    PROVE  CountInv'
<1> USE ProgramsAssumption
    DEF TypeOK, ManagerTypeOK, CountInv, Unlaunched, Relaunching, recordVars, cleanupVars,
        managerVars, paneVars, searchVars,
        sessionVars, tmuxVars
<1>1. ASSUME NEW p \in Programs, Starter(p)
      PROVE  CountInv'
  <2>1. CASE StarterChecks(p)
    BY <2>1 DEF StarterChecks
  <2>2. CASE StarterWakes(p)
    BY <2>2 DEF StarterWakes
  <2>3. CASE StarterTypes(p)
    BY <2>3 DEF StarterTypes, Type
  <2>4. CASE StarterAddsFinished(p)
    BY <2>4 DEF StarterAddsFinished
  <2>5. CASE StarterSetsRunning(p)
    BY <2>5 DEF StarterSetsRunning
  <2>6. QED
    BY ONLY <1>1, <2>1, <2>2, <2>3, <2>4, <2>5 DEF Starter
<1>2. ASSUME NEW p \in Programs, Watch(p), UNCHANGED tmuxVars
      PROVE  CountInv'
  BY <1>2 DEF Watch, CheckerLoops, CheckerWaits, CheckerTimesOut, CheckerSeesChange,
     CheckerDecides, MayRestart
<1>3. ASSUME NEW p \in Programs, Restart(p)
      PROVE  CountInv'
  <2>1. CASE NothingToRestart(p) \/ RestartSearches(p) \/ SearchBreaks(p)
    BY <2>1 DEF NothingToRestart, RestartSearches, SearchBreaks, SearchEnds
  <2>2. CASE RestartLooksUp(p)
    BY <2>2 DEF RestartLooksUp, SearchEnds
  <2>3. CASE RestartFails(p)
    BY <2>3 DEF RestartFails
  <2>4. ASSUME NEW x \in Panes, RestartInterrupts(p, x)
        PROVE  CountInv'
    BY <2>4 DEF RestartInterrupts
  <2>5. ASSUME NEW x \in Panes, RestartTimesOut(p, x)
        PROVE  CountInv'
    BY <2>5 DEF RestartTimesOut
  <2>6. ASSUME NEW x \in Panes, RestartStops(p, x)
        PROVE  CountInv'
    BY <2>6 DEF RestartStops
  <2>7. ASSUME NEW x \in Panes, RestartTypes(p, x)
        PROVE  CountInv'
    BY <2>7 DEF RestartTypes, Type
  <2>8. QED
    BY ONLY <1>3, <2>1, <2>2, <2>3, <2>4, <2>5, <2>6, <2>7 DEF Restart
<1>4. ASSUME NEW p \in Programs, Listener(p), UNCHANGED tmuxVars
      PROVE  CountInv'
  <2>1. CASE ListenerReads(p)
    BY <1>4, <2>1 DEF ListenerReads
  <2>2. CASE ListenerSetsInitializing(p)
    BY <1>4, <2>2 DEF ListenerSetsInitializing, ChangeStateTo, NotifyChecker
  <2>3. CASE ListenerAddsInitialised(p)
    BY <1>4, <2>3 DEF ListenerAddsInitialised
  <2>4. CASE ListenerSetsRunning(p)
    BY <1>4, <2>4 DEF ListenerSetsRunning, ChangeStateTo, NotifyChecker
  <2>5. CASE ListenerAddsFinished(p)
    BY <1>4, <2>5 DEF ListenerAddsFinished
  <2>6. CASE ListenerEnds(p)
    BY <1>4, <2>6 DEF ListenerEnds
  <2>7. QED
    BY ONLY <1>4, <2>1, <2>2, <2>3, <2>4, <2>5, <2>6 DEF Listener
<1>5. ASSUME NEW p \in Programs, NEW n \in 1..sent[p], Write(p, n)
      PROVE  CountInv'
  BY <1>5 DEF Write
<1>6. ASSUME Untouched, checkerPc' \in [Programs -> CheckerPc],
             \A q \in Programs : \/ checkerPc'[q] = checkerPc[q]
                                 \/ checkerPc[q] = "waiting" /\ checkerPc'[q] = "notified"
      PROVE  CountInv'
  BY <1>6 DEF Untouched
<1>7. QED
  BY ONLY StepCases, <1>1, <1>2, <1>3, <1>4, <1>5, <1>6, TypeOK, [Next]_vars

(***************************************************************************)
(* The listener needs the lock that the restarting checker holds, and the  *)
(* starters set RUNNING only programs without transitions.                 *)
(***************************************************************************)
LEMMA LockStep ==
    ASSUME TypeOK, CountInv, LockInv, [Next]_vars
    PROVE  LockInv'
<1> USE ProgramsAssumption
    DEF TypeOK, ManagerTypeOK, CountInv, LockInv, StateLockFree, RestartPc, recordVars,
        cleanupVars, managerVars, paneVars, searchVars,
        sessionVars, tmuxVars
<1>1. ASSUME NEW p \in Programs, Starter(p)
      PROVE  LockInv'
  <2>1. CASE StarterChecks(p)
    BY <2>1 DEF StarterChecks
  <2>2. CASE StarterWakes(p)
    BY <2>2 DEF StarterWakes
  <2>3. CASE StarterTypes(p)
    BY <2>3 DEF StarterTypes, Type
  <2>4. CASE StarterAddsFinished(p)
    BY <2>4 DEF StarterAddsFinished
  <2>5. CASE StarterSetsRunning(p)
    BY <2>5 DEF StarterSetsRunning
  <2>6. QED
    BY ONLY <1>1, <2>1, <2>2, <2>3, <2>4, <2>5 DEF Starter
<1>2. ASSUME NEW p \in Programs, Watch(p), UNCHANGED tmuxVars
      PROVE  LockInv'
  BY <1>2 DEF Watch, CheckerLoops, CheckerWaits, CheckerTimesOut, CheckerSeesChange,
     CheckerDecides, MayRestart
<1>3. ASSUME NEW p \in Programs, Restart(p)
      PROVE  LockInv'
  <2>1. CASE NothingToRestart(p) \/ RestartSearches(p) \/ SearchBreaks(p)
    BY <2>1 DEF NothingToRestart, RestartSearches, SearchBreaks, SearchEnds
  <2>2. CASE RestartLooksUp(p)
    BY <2>2 DEF RestartLooksUp, SearchEnds
  <2>3. CASE RestartFails(p)
    BY <2>3 DEF RestartFails
  <2>4. ASSUME NEW x \in Panes, RestartInterrupts(p, x)
        PROVE  LockInv'
    BY <2>4 DEF RestartInterrupts
  <2>5. ASSUME NEW x \in Panes, RestartTimesOut(p, x)
        PROVE  LockInv'
    BY <2>5 DEF RestartTimesOut
  <2>6. ASSUME NEW x \in Panes, RestartStops(p, x)
        PROVE  LockInv'
    BY <2>6 DEF RestartStops
  <2>7. ASSUME NEW x \in Panes, RestartTypes(p, x)
        PROVE  LockInv'
    BY <2>7 DEF RestartTypes, Type
  <2>8. QED
    BY ONLY <1>3, <2>1, <2>2, <2>3, <2>4, <2>5, <2>6, <2>7 DEF Restart
<1>4. ASSUME NEW p \in Programs, Listener(p), UNCHANGED tmuxVars
      PROVE  LockInv'
  <2>1. CASE ListenerReads(p)
    BY <1>4, <2>1 DEF ListenerReads
  <2>2. CASE ListenerSetsInitializing(p)
    BY <1>4, <2>2 DEF ListenerSetsInitializing, ChangeStateTo, NotifyChecker
  <2>3. CASE ListenerAddsInitialised(p)
    BY <1>4, <2>3 DEF ListenerAddsInitialised
  <2>4. CASE ListenerSetsRunning(p)
    BY <1>4, <2>4 DEF ListenerSetsRunning, ChangeStateTo, NotifyChecker
  <2>5. CASE ListenerAddsFinished(p)
    BY <1>4, <2>5 DEF ListenerAddsFinished
  <2>6. CASE ListenerEnds(p)
    BY <1>4, <2>6 DEF ListenerEnds
  <2>7. QED
    BY ONLY <1>4, <2>1, <2>2, <2>3, <2>4, <2>5, <2>6 DEF Listener
<1>5. ASSUME NEW p \in Programs, NEW n \in 1..sent[p], Write(p, n)
      PROVE  LockInv'
  BY <1>5 DEF Write
<1>6. ASSUME Untouched, checkerPc' \in [Programs -> CheckerPc],
             \A q \in Programs : \/ checkerPc'[q] = checkerPc[q]
                                 \/ checkerPc[q] = "waiting" /\ checkerPc'[q] = "notified"
      PROVE  LockInv'
  BY <1>6 DEF Untouched
<1>7. QED
  BY ONLY StepCases, <1>1, <1>2, <1>3, <1>4, <1>5, <1>6, TypeOK, [Next]_vars

(***************************************************************************)
(* Preconditions, once met, stay met; and only a starter or a checker that *)
(* found them met types the first command.                                 *)
(***************************************************************************)
LEMMA OrderStep ==
    ASSUME TypeOK, OrderInv, [Next]_vars
    PROVE  OrderInv'
<1> USE ProgramsAssumption
    DEF TypeOK, ManagerTypeOK, OrderInv, PreconditionsMet, StateLockFree, RestartPc,
        recordVars, cleanupVars, managerVars, paneVars, searchVars,
        sessionVars, tmuxVars
<1>1. ASSUME NEW p \in Programs, Starter(p)
      PROVE  OrderInv'
  <2>1. CASE StarterChecks(p)
    BY <2>1 DEF StarterChecks
  <2>2. CASE StarterWakes(p)
    BY <2>2 DEF StarterWakes
  <2>3. CASE StarterTypes(p)
    BY <2>3 DEF StarterTypes, Type
  <2>4. CASE StarterAddsFinished(p)
    BY <2>4 DEF StarterAddsFinished
  <2>5. CASE StarterSetsRunning(p)
    BY <2>5 DEF StarterSetsRunning
  <2>6. QED
    BY ONLY <1>1, <2>1, <2>2, <2>3, <2>4, <2>5 DEF Starter
<1>2. ASSUME NEW p \in Programs, Watch(p), UNCHANGED tmuxVars
      PROVE  OrderInv'
  BY <1>2 DEF Watch, CheckerLoops, CheckerWaits, CheckerTimesOut, CheckerSeesChange,
     CheckerDecides, MayRestart
<1>3. ASSUME NEW p \in Programs, Restart(p)
      PROVE  OrderInv'
  <2>1. CASE NothingToRestart(p) \/ RestartSearches(p) \/ SearchBreaks(p)
    BY <2>1 DEF NothingToRestart, RestartSearches, SearchBreaks, SearchEnds
  <2>2. CASE RestartLooksUp(p)
    BY <2>2 DEF RestartLooksUp, SearchEnds
  <2>3. CASE RestartFails(p)
    BY <2>3 DEF RestartFails
  <2>4. ASSUME NEW x \in Panes, RestartInterrupts(p, x)
        PROVE  OrderInv'
    BY <2>4 DEF RestartInterrupts
  <2>5. ASSUME NEW x \in Panes, RestartTimesOut(p, x)
        PROVE  OrderInv'
    BY <2>5 DEF RestartTimesOut
  <2>6. ASSUME NEW x \in Panes, RestartStops(p, x)
        PROVE  OrderInv'
    BY <2>6 DEF RestartStops
  <2>7. ASSUME NEW x \in Panes, RestartTypes(p, x)
        PROVE  OrderInv'
    BY <2>7 DEF RestartTypes, Type
  <2>8. QED
    BY ONLY <1>3, <2>1, <2>2, <2>3, <2>4, <2>5, <2>6, <2>7 DEF Restart
<1>4. ASSUME NEW p \in Programs, Listener(p), UNCHANGED tmuxVars
      PROVE  OrderInv'
  <2>1. CASE ListenerReads(p)
    BY <1>4, <2>1 DEF ListenerReads
  <2>2. CASE ListenerSetsInitializing(p)
    BY <1>4, <2>2 DEF ListenerSetsInitializing, ChangeStateTo, NotifyChecker
  <2>3. CASE ListenerAddsInitialised(p)
    BY <1>4, <2>3 DEF ListenerAddsInitialised
  <2>4. CASE ListenerSetsRunning(p)
    BY <1>4, <2>4 DEF ListenerSetsRunning, ChangeStateTo, NotifyChecker
  <2>5. CASE ListenerAddsFinished(p)
    BY <1>4, <2>5 DEF ListenerAddsFinished
  <2>6. CASE ListenerEnds(p)
    BY <1>4, <2>6 DEF ListenerEnds
  <2>7. QED
    BY ONLY <1>4, <2>1, <2>2, <2>3, <2>4, <2>5, <2>6 DEF Listener
<1>5. ASSUME NEW p \in Programs, NEW n \in 1..sent[p], Write(p, n)
      PROVE  OrderInv'
  BY <1>5 DEF Write
<1>6. ASSUME Untouched, checkerPc' \in [Programs -> CheckerPc],
             \A q \in Programs : \/ checkerPc'[q] = checkerPc[q]
                                 \/ checkerPc[q] = "waiting" /\ checkerPc'[q] = "notified"
      PROVE  OrderInv'
  BY <1>6 DEF Untouched
<1>7. QED
  BY ONLY StepCases, <1>1, <1>2, <1>3, <1>4, <1>5, <1>6, TypeOK, [Next]_vars

(***************************************************************************)
(* An entry of the record is never revoked and keeps what it was earned    *)
(* by.                                                                     *)
(***************************************************************************)
LEMMA RecordStep ==
    ASSUME TypeOK, CountInv, OutputInv, RecordInv, [Next]_vars
    PROVE  RecordInv'
<1> USE ProgramsAssumption
    DEF TypeOK, ManagerTypeOK, CountInv, OutputInv, OutputOf, RecordInv, recordVars,
        cleanupVars, managerVars, paneVars, searchVars,
        sessionVars, tmuxVars
<1>1. ASSUME NEW p \in Programs, Starter(p)
      PROVE  RecordInv'
  <2>1. CASE StarterChecks(p)
    BY <2>1 DEF StarterChecks, Earned
  <2>2. CASE StarterWakes(p)
    BY <2>2 DEF StarterWakes, Earned
  <2>3. CASE StarterTypes(p)
    <3>1. Type(PaneOf(p), p) /\ UNCHANGED <<printed, initialised, finished>>
      BY <2>3 DEF StarterTypes
    <3>2. QED
      BY <3>1, TypeKeepsEarned
  <2>4. CASE StarterAddsFinished(p)
    BY <2>4 DEF StarterAddsFinished, Earned
  <2>5. CASE StarterSetsRunning(p)
    BY <2>5 DEF StarterSetsRunning, Earned
  <2>6. QED
    BY ONLY <1>1, <2>1, <2>2, <2>3, <2>4, <2>5 DEF Starter
<1>2. ASSUME NEW p \in Programs, Watch(p), UNCHANGED tmuxVars
      PROVE  RecordInv'
  BY <1>2 DEF Watch, CheckerLoops, CheckerWaits, CheckerTimesOut, CheckerSeesChange,
     CheckerDecides, Earned
<1>3. ASSUME NEW p \in Programs, Restart(p)
      PROVE  RecordInv'
  <2>1. CASE NothingToRestart(p) \/ RestartSearches(p) \/ SearchBreaks(p)
    BY <2>1 DEF NothingToRestart, RestartSearches, SearchBreaks, SearchEnds, Earned
  <2>2. CASE RestartLooksUp(p)
    BY <2>2 DEF RestartLooksUp, SearchEnds, Earned
  <2>3. CASE RestartFails(p)
    BY <2>3 DEF RestartFails, Earned
  <2>4. ASSUME NEW x \in Panes, RestartInterrupts(p, x)
        PROVE  RecordInv'
    BY <2>4 DEF RestartInterrupts, Earned
  <2>5. ASSUME NEW x \in Panes, RestartTimesOut(p, x)
        PROVE  RecordInv'
    BY <2>5 DEF RestartTimesOut, Earned
  <2>6. ASSUME NEW x \in Panes, RestartStops(p, x)
        PROVE  RecordInv'
    BY <2>6 DEF RestartStops, Earned
  <2>7. ASSUME NEW x \in Panes, RestartTypes(p, x)
        PROVE  RecordInv'
    <3>1. Type(x, p) /\ UNCHANGED <<printed, initialised, finished>>
      BY <2>7 DEF RestartTypes
    <3>2. QED
      BY <3>1, TypeKeepsEarned
  <2>8. QED
    BY ONLY <1>3, <2>1, <2>2, <2>3, <2>4, <2>5, <2>6, <2>7 DEF Restart
<1>4. ASSUME NEW p \in Programs, Listener(p), UNCHANGED tmuxVars
      PROVE  RecordInv'
  <2>1. CASE ListenerReads(p)
    BY <1>4, <2>1 DEF ListenerReads, Earned
  <2>2. CASE ListenerSetsInitializing(p)
    BY <1>4, <2>2 DEF ListenerSetsInitializing, ChangeStateTo, NotifyChecker, Earned
  <2>3. CASE ListenerAddsInitialised(p)
    BY <1>4, <2>3 DEF ListenerAddsInitialised, Earned
  <2>4. CASE ListenerSetsRunning(p)
    BY <1>4, <2>4 DEF ListenerSetsRunning, ChangeStateTo, NotifyChecker, Earned
  <2>5. CASE ListenerAddsFinished(p)
    BY <1>4, <2>5 DEF ListenerAddsFinished, Earned
  <2>6. CASE ListenerEnds(p)
    BY <1>4, <2>6 DEF ListenerEnds, Earned
  <2>7. QED
    BY ONLY <1>4, <2>1, <2>2, <2>3, <2>4, <2>5, <2>6 DEF Listener
<1>5. ASSUME NEW p \in Programs, NEW n \in 1..sent[p], Write(p, n)
      PROVE  RecordInv'
  <2>1. UNCHANGED <<sent, initialised, finished>>
    BY <1>5 DEF Write
  <2>2. QED
    BY <1>5, <2>1, WriteKeepsEarned
<1>6. ASSUME Untouched, checkerPc' \in [Programs -> CheckerPc],
             \A q \in Programs : \/ checkerPc'[q] = checkerPc[q]
                                 \/ checkerPc[q] = "waiting" /\ checkerPc'[q] = "notified"
      PROVE  RecordInv'
  BY <1>6 DEF Untouched, Earned
<1>7. QED
  BY ONLY StepCases, <1>1, <1>2, <1>3, <1>4, <1>5, <1>6, TypeOK, [Next]_vars

(***************************************************************************)
(* What the listener is about to do rests on lines that were written.      *)
(***************************************************************************)
LEMMA OutputStep ==
    ASSUME TypeOK, CountInv, OutputInv, RecordInv, LockInv, [Next]_vars
    PROVE  OutputInv'
<1> USE ProgramsAssumption
    DEF TypeOK, ManagerTypeOK, CountInv, OutputInv, OutputOf, Line, recordVars,
        cleanupVars, managerVars, paneVars, searchVars,
        sessionVars, tmuxVars
<1>1. ASSUME NEW p \in Programs, Starter(p)
      PROVE  OutputInv'
  <2>1. CASE StarterChecks(p)
    BY <2>1 DEF StarterChecks, Earned
  <2>2. CASE StarterWakes(p)
    BY <2>2 DEF StarterWakes, Earned
  <2>3. CASE StarterTypes(p)
    <3>1. Type(PaneOf(p), p) /\ UNCHANGED <<printed, pipe, listenerPc, programState, initialised>>
      BY <2>3 DEF StarterTypes
    <3>2. QED
      BY <3>1, TypeKeepsEarned
  <2>4. CASE StarterAddsFinished(p)
    BY <2>4 DEF StarterAddsFinished, Earned
  <2>5. CASE StarterSetsRunning(p)
    BY <2>5 DEF StarterSetsRunning, Earned
  <2>6. QED
    BY ONLY <1>1, <2>1, <2>2, <2>3, <2>4, <2>5 DEF Starter
<1>2. ASSUME NEW p \in Programs, Watch(p), UNCHANGED tmuxVars
      PROVE  OutputInv'
  <2>1. UNCHANGED <<programState, initialised, finished, listenerPc, pipe, sent, printed>>
    BY <1>2 DEF Watch, CheckerLoops, CheckerWaits, CheckerTimesOut, CheckerSeesChange,
       CheckerDecides
  <2>2. QED
    BY <2>1 DEF Earned
<1>3. ASSUME NEW p \in Programs, Restart(p)
      PROVE  OutputInv'
  <2>1. CASE NothingToRestart(p) \/ RestartSearches(p) \/ SearchBreaks(p)
    BY <2>1 DEF NothingToRestart, RestartSearches, SearchBreaks, SearchEnds, Earned
  <2>2. CASE RestartLooksUp(p)
    BY <2>2 DEF RestartLooksUp, SearchEnds, Earned
  <2>3. CASE RestartFails(p)
    BY <2>3 DEF RestartFails, Earned
  <2>4. ASSUME NEW x \in Panes, RestartInterrupts(p, x)
        PROVE  OutputInv'
    BY <2>4 DEF RestartInterrupts, Earned
  <2>5. ASSUME NEW x \in Panes, RestartTimesOut(p, x)
        PROVE  OutputInv'
    BY <2>5 DEF RestartTimesOut, Earned
  <2>6. ASSUME NEW x \in Panes, RestartStops(p, x)
        PROVE  OutputInv'
    BY <2>6 DEF RestartStops, Earned
  <2>7. ASSUME NEW x \in Panes, RestartTypes(p, x)
        PROVE  OutputInv'
    <3>1. Type(x, p) /\ UNCHANGED <<printed, pipe, listenerPc, programState, initialised>>
      BY <2>7 DEF RestartTypes
    <3>2. QED
      BY <3>1, TypeKeepsEarned
  <2>8. QED
    BY ONLY <1>3, <2>1, <2>2, <2>3, <2>4, <2>5, <2>6, <2>7 DEF Restart
<1>4. ASSUME NEW p \in Programs, Listener(p), UNCHANGED tmuxVars
      PROVE  OutputInv'
  <2>1. CASE ListenerReads(p)
    <3>1. /\ UNCHANGED <<sent, printed, programState, initialised>>
          /\ listenerPc[p] = "read" /\ pipe[p] \in Seq(Line) /\ pipe[p] # <<>>
          /\ pipe' = [pipe EXCEPT ![p] = Tail(pipe[p])]
          /\ listenerPc' = [listenerPc EXCEPT ![p] = Transition(programState[p], pipe[p][1])]
      BY <1>4, <2>1 DEF ListenerReads
    <3>2. \A k \in 1..Len(Tail(pipe[p])) :
             Tail(pipe[p])[k] = pipe[p][k + 1] /\ k + 1 \in 1..Len(pipe[p])
      BY <3>1
    <3>3. \A k \in 1..Len(Tail(pipe[p])) : Tail(pipe[p])[k] = "init_to_running" => Earned(p)
      BY <3>2
    <3>4. pipe[p][1] = "init_to_running" => Earned(p)
      BY <3>1
    <3>5. /\ listenerPc'[p] \in {"read", "setInitializing", "setRunning"}
          /\ listenerPc'[p] = "setInitializing" => programState[p] # "RUNNING"
          /\ listenerPc'[p] = "setRunning" => Earned(p) /\ p \in initialised
      BY <3>1, <3>4 DEF Transition
    <3>6. \A q \in Programs : Earned(q)' <=> Earned(q)
      BY <3>1 DEF Earned
    <3>7. QED
      <4> SUFFICES ASSUME NEW q \in Programs
                   PROVE  OutputOf(q)'
        BY DEF OutputInv
      <4>1. CASE q = p
        <5>1. pipe'[p] = Tail(pipe[p]) /\ (Earned(p)' <=> Earned(p))
          BY <3>1, <3>6
        <5>2. \A k \in 1..Len(pipe'[p]) : pipe'[p][k] = "init_to_running" => Earned(p)'
          BY <3>3, <5>1
        <5>3. p \in UseStateChecking /\ sent'[p] > 0
          BY <3>1
        <5>4. programState'[p] = "INITIALIZING" => p \in initialised'
          BY <3>1
        <5>5. listenerPc'[p] \in {"setRunning", "addFinished"}
                 => Earned(p)' /\ p \in initialised'
          BY <3>1, <3>5, <5>1
        <5>6. listenerPc'[p] = "setInitializing" => programState'[p] # "RUNNING"
          BY <3>1, <3>5
        <5>7. QED
          BY <4>1, <5>2, <5>3, <5>4, <5>5, <5>6
      <4>2. CASE q # p
        BY <3>1, <3>6, <4>2
      <4>3. QED
        BY <4>1, <4>2
  <2>2. CASE ListenerSetsInitializing(p)
    BY <1>4, <2>2 DEF ListenerSetsInitializing, ChangeStateTo, NotifyChecker, Earned
  <2>3. CASE ListenerAddsInitialised(p)
    BY <1>4, <2>3 DEF ListenerAddsInitialised, Earned
  <2>4. CASE ListenerSetsRunning(p)
    BY <1>4, <2>4 DEF ListenerSetsRunning, ChangeStateTo, NotifyChecker, Earned
  <2>5. CASE ListenerAddsFinished(p)
    BY <1>4, <2>5 DEF ListenerAddsFinished, Earned
  <2>6. CASE ListenerEnds(p)
    BY <1>4, <2>6 DEF ListenerEnds, Earned
  <2>7. QED
    BY ONLY <1>4, <2>1, <2>2, <2>3, <2>4, <2>5, <2>6 DEF Listener
<1>5. ASSUME NEW p \in Programs, NEW n \in 1..sent[p], Write(p, n)
      PROVE  OutputInv'
  <2>1. /\ UNCHANGED <<sent, programState, initialised, listenerPc>>
        /\ p \in UseStateChecking
        /\ sent[p] \in Nat /\ n \in 1..sent[p] /\ sent[p] > 0
        /\ pipe[p] \in Seq(Line)
        /\ printed' = [printed EXCEPT ![p] = @ \cup {<<n, NextLine(p, n)>>}]
        /\ pipe' = [pipe EXCEPT ![p] = Append(pipe[p], NextLine(p, n))]
    BY <1>5 DEF Write
  <2>2. NextLine(p, n) \in Line
    BY DEF NextLine
  <2>3. NextLine(p, n) = "init_to_running" => Earned(p)'
    BY <2>1 DEF Earned
  <2>4. \A q \in Programs : Earned(q) => Earned(q)'
    BY <1>5, WriteKeepsEarned
  <2>5. \A k \in 1..Len(pipe'[p]) : pipe'[p][k] = "init_to_running" => Earned(p)'
    <3> SUFFICES ASSUME NEW k \in 1..Len(Append(pipe[p], NextLine(p, n))),
                        Append(pipe[p], NextLine(p, n))[k] = "init_to_running"
                 PROVE  Earned(p)'
      BY <2>1
    <3>1. \/ NextLine(p, n) = "init_to_running"
          \/ k \in 1..Len(pipe[p]) /\ pipe[p][k] = "init_to_running"
      BY ONLY <2>1, <2>2, AppendIndex,
              Append(pipe[p], NextLine(p, n))[k] = "init_to_running"
    <3>2. k \in 1..Len(pipe[p]) /\ pipe[p][k] = "init_to_running" => Earned(p)
      OBVIOUS
    <3>3. QED
      BY <2>3, <2>4, <3>1, <3>2
  <2>6. QED
    BY <2>1, <2>4, <2>5
<1>6. ASSUME Untouched
      PROVE  OutputInv'
  BY <1>6 DEF Untouched, Earned
<1>7. QED
  BY ONLY StepCases, <1>1, <1>2, <1>3, <1>4, <1>5, <1>6, TypeOK, [Next]_vars

-----------------------------------------------------------------------------
(* Panes before Ctrl+C *)

(***************************************************************************)
(* A command typed into the pane of its program is at home there.          *)
(***************************************************************************)
LEMMA TypeAtHome ==
    ASSUME TypeOK, OwnPane, NEW p \in Programs, Type(PaneOf(p), p), UNCHANGED running
    PROVE  OwnPane'
<1> SUFFICES ASSUME NEW x \in Panes, NEW c \in running'[x]
                                                \cup {typed'[x][k] : k \in 1..Len(typed'[x])}
             PROVE  PaneOf(c[1]) = x
  BY DEF OwnPane
<1>1. CASE c \in running'[x]
  BY <1>1 DEF OwnPane
<1>2. CASE c \notin running'[x]
  <2>1. PICK k \in 1..Len(typed'[x]) : c = typed'[x][k]
    BY <1>2
  <2>2. CASE typed'[x] = typed[x]
    BY <2>1, <2>2 DEF OwnPane
  <2>3. CASE typed'[x] # typed[x]
    <3>1. x = PaneOf(p) /\ typed'[x] = Append(typed[x], <<p, sent[p] + 1>>)
      BY <2>3 DEF Type, TypeOK
    <3>2. typed[x] \in Seq(Command) /\ <<p, sent[p] + 1>> \in Command
      BY DEF TypeOK, Command
    <3>3. c = <<p, sent[p] + 1>> \/ (k \in 1..Len(typed[x]) /\ c = typed[x][k])
      BY ONLY <2>1, <3>1, <3>2, AppendIndex
    <3>4. QED
      BY <3>1, <3>3 DEF OwnPane
  <2>4. QED
    BY <2>2, <2>3
<1>3. QED
  BY <1>1, <1>2

(***************************************************************************)
(* The pane a checker finds by the index it has looked up is the one of    *)
(* its program.                                                            *)
(***************************************************************************)
LEMMA TargetIsOwn ==
    ASSUME sessions = AllSessions, NEW p \in Programs, NEW x \in Panes, IsTarget(x, p),
           restartNr[p] = IndexOf(SessionNr(p))
    PROVE  x = PaneOf(p)
<1>1. x = <<x[1], x[2]>> /\ x[1] \in AllSessions
  BY DEF Panes
<1>2. x[2] = PaneNr(p) /\ IndexOf(x[1]) = IndexOf(SessionNr(p))
  BY DEF IsTarget
<1>3. x[1] = SessionNr(p)
  BY <1>1, <1>2, IndexInjective, PaneOfType
<1>4. QED
  BY <1>1, <1>2, <1>3 DEF PaneOf

(***************************************************************************)
(* A step that neither touches a pane or a session nor takes a checker     *)
(* into the part of its code where it uses the index.                      *)
(***************************************************************************)
LEMMA PanesUntouched ==
    ASSUME PaneInv, UNCHANGED <<sessionVars, restartNr, typed, running>>,
           cleanupPc' = "up" => cleanupPc = "up",
           \A q \in Programs : checkerPc'[q] \in {"lookedUp", "killed", "relaunch"}
                                  => checkerPc[q] \in {"lookedUp", "killed", "relaunch"}
    PROVE  PaneInv'
BY DEF PaneInv, OwnPane, IndexOf, searchVars, sessionVars

LEMMA PaneStep ==
    ASSUME TypeOK, PaneInv, [Next]_vars
    PROVE  PaneInv'
<1> USE DEF recordVars, cleanupVars, managerVars, paneVars, searchVars,
        sessionVars, tmuxVars
<1> DEFINE Using(q) == checkerPc[q] \in {"lookedUp", "killed", "relaunch"}
<1>1. checkerPc \in [Programs -> CheckerPc] /\ restartNr \in [Programs -> Nat]
  BY DEF TypeOK, ManagerTypeOK
<1>2. ASSUME NEW p \in Programs, Starter(p)
      PROVE  PaneInv'
  <2>1. CASE StarterTypes(p)
    <3>1. UNCHANGED <<sessions, killed, closing, restartNr, checkerPc, cleanupPc, running>>
          /\ Type(PaneOf(p), p)
      BY <2>1 DEF StarterTypes
    <3>2. cleanupPc = "up" => OwnPane'
      BY <3>1, TypeAtHome DEF PaneInv
    <3>3. QED
      BY <3>1, <3>2 DEF PaneInv, IndexOf
  <2>2. CASE StarterChecks(p) \/ StarterWakes(p) \/ StarterAddsFinished(p)
               \/ StarterSetsRunning(p)
    BY <2>2, PanesUntouched DEF StarterChecks, StarterWakes, StarterAddsFinished,
       StarterSetsRunning
  <2>3. QED
    BY ONLY <1>2, <2>1, <2>2 DEF Starter
<1>3. ASSUME NEW p \in Programs, Watch(p), UNCHANGED tmuxVars
      PROVE  PaneInv'
  <2>1. cleanupPc' = cleanupPc /\ \A q \in Programs : Using(q)' => Using(q)
    BY <1>1, <1>3 DEF Watch, CheckerLoops, CheckerWaits, CheckerTimesOut, CheckerSeesChange,
       CheckerDecides
  <2>2. QED
    BY <1>3, <2>1, PanesUntouched
<1>4. ASSUME NEW p \in Programs, Restart(p)
      PROVE  PaneInv'
  <2>1. CASE NothingToRestart(p) \/ RestartSearches(p) \/ SearchBreaks(p)
            \/ RestartFails(p)
    <3>1. cleanupPc' = cleanupPc /\ \A q \in Programs : Using(q)' => Using(q)
      BY <1>1, <2>1 DEF NothingToRestart, RestartSearches, SearchBreaks, SearchEnds,
         RestartFails
    <3>2. QED
      BY <2>1, <3>1, PanesUntouched DEF NothingToRestart, RestartSearches,
         SearchBreaks, SearchEnds, RestartFails
  <2>2. CASE RestartLooksUp(p)
    <3>1. UNCHANGED <<sessions, killed, closing, cleanupPc, typed, running>>
      BY <2>2 DEF RestartLooksUp, SearchEnds
    <3>2. \A t : IndexOf(t)' = IndexOf(t)
      BY <3>1 DEF IndexOf
    <3>3. restartNr'[p] = IndexOf(SessionNr(p))
          /\ \A q \in Programs \ {p} : restartNr'[q] = restartNr[q] /\ (Using(q)' => Using(q))
      BY <1>1, <2>2 DEF RestartLooksUp, SearchEnds
    <3>4. cleanupPc = "up" => OwnPane'
      BY <3>1 DEF PaneInv, OwnPane
    <3>5. QED
      BY <3>1, <3>2, <3>3, <3>4 DEF PaneInv
  <2>3. ASSUME NEW x \in Panes, RestartInterrupts(p, x)
        PROVE  PaneInv'
    <3>1. UNCHANGED <<sessions, killed, closing, restartNr, cleanupPc, running>>
          /\ Using(p) /\ \A q \in Programs : Using(q)' => Using(q)
      BY <1>1, <2>3 DEF RestartInterrupts
    <3>2. cleanupPc = "up" => OwnPane'
      BY <2>3 DEF RestartInterrupts, PaneInv, OwnPane, TypeOK
    <3>3. QED
      BY <3>1, <3>2 DEF PaneInv, IndexOf
  <2>4. ASSUME NEW x \in Panes, RestartTimesOut(p, x) \/ RestartStops(p, x)
        PROVE  PaneInv'
    <3>1. UNCHANGED tmuxVars /\ cleanupPc' = cleanupPc
          /\ \A q \in Programs : Using(q)' => Using(q)
      BY <1>1, <2>4 DEF RestartTimesOut, RestartStops
    <3>2. QED
      BY <3>1, PanesUntouched
  <2>5. ASSUME NEW x \in Panes, RestartTypes(p, x)
        PROVE  PaneInv'
    <3>1. UNCHANGED <<sessions, killed, closing, restartNr, cleanupPc, running>>
          /\ Type(x, p) /\ IsTarget(x, p)
          /\ Using(p) /\ \A q \in Programs : Using(q)' => Using(q)
      BY <1>1, <2>5 DEF RestartTypes
    <3>2. cleanupPc = "up" => x = PaneOf(p)
      BY <3>1, TargetIsOwn DEF PaneInv
    <3>3. cleanupPc = "up" => OwnPane'
      BY <3>1, <3>2, TypeAtHome DEF PaneInv
    <3>4. QED
      BY <3>1, <3>3 DEF PaneInv, IndexOf
  <2>6. QED
    BY ONLY <1>4, <2>1, <2>2, <2>3, <2>4, <2>5 DEF Restart
<1>5. ASSUME NEW p \in Programs, Listener(p), UNCHANGED tmuxVars
      PROVE  PaneInv'
  <2>1. cleanupPc' = cleanupPc /\ \A q \in Programs : Using(q)' => Using(q)
    BY <1>1, <1>5 DEF Listener, ListenerReads, ListenerSetsInitializing,
       ListenerAddsInitialised, ListenerSetsRunning, ListenerAddsFinished, ListenerEnds,
       ChangeStateTo, NotifyChecker
  <2>2. QED
    BY <1>5, <2>1, PanesUntouched
<1>6. ASSUME NEW p \in Programs, NEW n \in 1..sent[p], Write(p, n)
      PROVE  PaneInv'
  BY <1>6, PanesUntouched DEF Write
<1>7. ASSUME NEW p \in Programs, SetUp(p)
      PROVE  PaneInv'
  BY <1>7, PanesUntouched DEF SetUp
<1>8. ASSUME NEW x \in Panes, ShellRuns(x)
      PROVE  PaneInv'
  <2>1. UNCHANGED <<sessions, killed, closing, restartNr, checkerPc, cleanupPc>>
    BY <1>8 DEF ShellRuns
  <2>2. ASSUME cleanupPc = "up", NEW y \in Panes,
               NEW c \in running'[y] \cup {typed'[y][k] : k \in 1..Len(typed'[y])}
        PROVE  PaneOf(c[1]) = y
    <3>1. CASE y # x
      BY <1>8, <2>2, <3>1 DEF ShellRuns, PaneInv, OwnPane, TypeOK
    <3>2. CASE y = x
      <4>1. typed[x] \in Seq(Command) /\ typed[x] # <<>> /\ typed'[x] = Tail(typed[x])
            /\ running'[x] = {typed[x][1]}
        BY <1>8 DEF ShellRuns, TypeOK
      <4>2. 1 \in 1..Len(typed[x])
            /\ \A k \in 1..Len(typed'[x]) :
                  typed'[x][k] = typed[x][k + 1] /\ k + 1 \in 1..Len(typed[x])
        BY ONLY <4>1
      <4>3. \E k \in 1..Len(typed[x]) : c = typed[x][k]
        BY <2>2, <3>2, <4>1, <4>2
      <4>4. QED
        BY <2>2, <3>2, <4>3 DEF PaneInv, OwnPane
    <3>3. QED
      BY <3>1, <3>2
  <2>3. QED
    BY <2>1, <2>2 DEF PaneInv, OwnPane, IndexOf
<1>9. ASSUME NEW x \in Panes, ProgramExits(x)
      PROVE  PaneInv'
  <2>1. UNCHANGED <<sessions, killed, closing, restartNr, checkerPc, cleanupPc, typed>>
    BY <1>9 DEF ProgramExits
  <2>2. \A y \in Panes : running'[y] \subseteq running[y]
    BY <1>9 DEF ProgramExits, TypeOK
  <2>3. cleanupPc = "up" => OwnPane'
    BY <2>1, <2>2 DEF PaneInv, OwnPane
  <2>4. QED
    BY <2>1, <2>3 DEF PaneInv, IndexOf
<1>10. CASE Shutdown \/ Cleanup
  <2>1. cleanupPc' # "up"
    BY <1>10 DEF Shutdown, Cleanup, FindIdle, KillSession, ForgetSession, GiveUpSessions,
       StopStarters, BaseCleanup, StopWatchdogs, NotifyWatchdog, JoinCheckers, StopListeners,
       DeletePipes
  <2>2. QED
    BY <2>1 DEF PaneInv
<1>11. CASE UNCHANGED vars
  BY <1>11, PanesUntouched DEF vars
<1>12. QED
  BY ONLY <1>2, <1>3, <1>4, <1>5, <1>6, <1>7, <1>8, <1>9, <1>10, <1>11, [Next]_vars
     DEF Next, Supervise, Checker, ListenerThread

-----------------------------------------------------------------------------
(***************************************************************************)
(* With nothing typed, recorded or written, every part of the invariant    *)
(* holds.                                                                  *)
(***************************************************************************)
LEMMA InitIndInv == Init => IndInv
<1> SUFFICES ASSUME Init
             PROVE  IndInv
  OBVIOUS
<1> USE ProgramsAssumption DEF Init, ManagerInit
<1>1. TypeOK
  BY TypeInit
<1>2. CountInv
  BY DEF CountInv, Unlaunched, Relaunching
<1>3. LockInv
  BY DEF LockInv
<1>4. OrderInv
  BY DEF OrderInv, StateLockFree, RestartPc
<1>5. OutputInv
  BY DEF OutputInv, OutputOf
<1>6. RecordInv
  BY DEF RecordInv
<1>7. PaneInv
  BY DEF PaneInv, OwnPane
<1>8. QED
  BY <1>1, <1>2, <1>3, <1>4, <1>5, <1>6, <1>7 DEF IndInv

(***************************************************************************)
(* The invariant: it holds at the start, and no step of a starter, a       *)
(* checker, a listener, tmux, a program or the shutdown breaks it.         *)
(***************************************************************************)
THEOREM IndInvariant == Spec => []IndInv
<1>1. IndInv /\ [Next]_vars => IndInv'
  BY TypeStep, CountStep, LockStep, OrderStep, OutputStep, RecordStep, PaneStep DEF IndInv
<1>2. QED
  BY InitIndInv, <1>1, PTL DEF Spec

(***************************************************************************)
(* A program with transitions is recorded as finished only if one of its   *)
(* runs wrote the line that says so, whichever pane was typed into.        *)
(***************************************************************************)
THEOREM RecordIsEarnedInvariant == Spec => []RecordIsEarned
<1>1. IndInv => RecordIsEarned
  BY DEF IndInv, RecordInv, RecordIsEarned
<1>2. QED
  BY IndInvariant, <1>1, PTL

(***************************************************************************)
(* No watchdog exceeds max_num_restarts, and starter and watchdog together *)
(* type the command at most once more than restarts were counted.          *)
(***************************************************************************)
THEOREM RestartsBoundedInvariant == Spec => []RestartsBounded
<1>1. IndInv => RestartsBounded
  BY DEF IndInv, CountInv, RestartsBounded
<1>2. QED
  BY IndInvariant, <1>1, PTL

(***************************************************************************)
(* Until Ctrl+C programs run in their own panes, though a watchdog looks   *)
(* its pane up by an index, and again for every use.                       *)
(***************************************************************************)
THEOREM OwnPaneUntilShutdownInvariant == Spec => []OwnPaneUntilShutdown
<1>1. IndInv => OwnPaneUntilShutdown
  BY DEF IndInv, PaneInv, OwnPaneUntilShutdown
<1>2. QED
  BY IndInvariant, <1>1, PTL

-----------------------------------------------------------------------------
(***************************************************************************)
(* The lock of cv_state_change: the watchdog of a program with transitions *)
(* that is RUNNING does not get into _handle_restart, and its listener has *)
(* nothing left to set.                                                    *)
(***************************************************************************)
LEMMA RunningStays ==
    ASSUME IndInv, [Next]_vars, NEW q \in UseStateChecking, programState[q] = "RUNNING"
    PROVE  /\ programState'[q] = "RUNNING"
           /\ curNumRestarts'[q] = curNumRestarts[q]
           /\ checkerPc'[q] \notin RestartPc
<1> USE ProgramsAssumption
    DEF IndInv, TypeOK, ManagerTypeOK, LockInv, StateLockFree, RestartPc, recordVars,
        cleanupVars, managerVars, paneVars, searchVars,
        sessionVars, tmuxVars
<1> DEFINE Stays == /\ programState'[q] = "RUNNING"
                    /\ curNumRestarts'[q] = curNumRestarts[q]
                    /\ checkerPc'[q] \notin RestartPc
<1>1. q \in Programs /\ checkerPc[q] \notin RestartPc /\ listenerPc[q] # "setInitializing"
  BY DEF OutputInv, OutputOf
<1>2. ASSUME NEW p \in Programs, Starter(p)
      PROVE  Stays
  BY <1>1, <1>2 DEF Starter, StarterChecks, StarterWakes, StarterTypes, StarterAddsFinished,
     StarterSetsRunning
<1>3. ASSUME NEW p \in Programs, Watch(p), UNCHANGED tmuxVars
      PROVE  Stays
  BY <1>1, <1>3 DEF Watch, CheckerLoops, CheckerWaits, CheckerTimesOut, CheckerSeesChange,
     CheckerDecides, MayRestart
<1>4. ASSUME NEW p \in Programs, Restart(p)
      PROVE  Stays
  <2>1. p # q
    BY <1>1, <1>4 DEF Restart, NothingToRestart, RestartSearches,
       SearchBreaks, SearchEnds, RestartLooksUp, RestartFails,
       RestartInterrupts, RestartTimesOut, RestartStops, RestartTypes
  <2>2. QED
    BY <1>1, <1>4, <2>1 DEF Restart, NothingToRestart, RestartSearches,
       SearchBreaks, SearchEnds, RestartLooksUp, RestartFails,
       RestartInterrupts, RestartTimesOut, RestartStops, RestartTypes
<1>5. ASSUME NEW p \in Programs, Listener(p), UNCHANGED tmuxVars
      PROVE  Stays
  BY <1>1, <1>5 DEF Listener, ListenerReads, ListenerSetsInitializing, ListenerAddsInitialised,
     ListenerSetsRunning, ListenerAddsFinished, ListenerEnds, ChangeStateTo, NotifyChecker
<1>6. ASSUME NEW p \in Programs, NEW n \in 1..sent[p], Write(p, n)
      PROVE  Stays
  BY <1>1, <1>6 DEF Write
<1>7. ASSUME Untouched,
             \A p \in Programs : \/ checkerPc'[p] = checkerPc[p]
                                 \/ checkerPc[p] = "waiting" /\ checkerPc'[p] = "notified"
      PROVE  Stays
  BY <1>1, <1>7 DEF Untouched
<1>8. QED
  BY ONLY StepCases, <1>2, <1>3, <1>4, <1>5, <1>6, <1>7, IndInv, [Next]_vars DEF IndInv

(***************************************************************************)
(* Once a program with transitions is RUNNING, its watchdog neither resets *)
(* its state nor types anything for it any more.                           *)
(***************************************************************************)
THEOREM NoRestartOnceRunningHolds == Spec => NoRestartOnceRunning
<1> DEFINE Step == \A p \in UseStateChecking :
                      programState[p] = "RUNNING" =>
                          /\ programState'[p] = "RUNNING"
                          /\ curNumRestarts'[p] = curNumRestarts[p]
                          /\ checkerPc'[p] \notin RestartPc
<1>1. IndInv /\ [Next]_vars => [Step]_vars
  BY RunningStays
<1>2. Spec => [][Step]_vars
  BY <1>1, IndInvariant, PTL DEF Spec
<1>3. QED
  BY <1>2 DEF NoRestartOnceRunning

-----------------------------------------------------------------------------
(***************************************************************************)
(* Typing starts a program whose preconditions are met, for the first time *)
(* or once more.                                                           *)
(***************************************************************************)
LEMMA TypeStarts ==
    ASSUME TypeOK, NEW p \in Programs, NEW x, Type(x, p), PreconditionsMet(p),
           UNCHANGED <<printed, initialised, finished>>
    PROVE  Order!Next
<1>1. Started' = Started \cup {p}
  BY TypeKeepsEarned DEF Started
<1>2. Order!Launch(p)
  BY <1>1 DEF PreconditionsMet, Order!Launch, Order!PreconditionsMet
<1>3. QED
  BY <1>2 DEF Order!Next

(***************************************************************************)
(* Every step of the threads is a step of StartupOrder or invisible to it. *)
(* A watchdog may type the first command, before the starter does: then it *)
(* is the watchdog whose step is the launch.                               *)
(***************************************************************************)
LEMMA OrderStepOrStutter ==
    ASSUME IndInv, [Next]_vars
    PROVE  [Order!Next]_<<Started, initialised, finished>>
<1> USE ProgramsAssumption
    DEF IndInv, recordVars, cleanupVars, managerVars, paneVars, searchVars,
        sessionVars, tmuxVars
<1> DEFINE Quiet == UNCHANGED <<Started, initialised, finished>>
<1>1. ASSUME UNCHANGED <<sent, initialised, finished>>
      PROVE  Quiet
  BY <1>1 DEF Started
<1>2. ASSUME NEW p \in Programs, Starter(p)
      PROVE  Quiet \/ Order!Next
  <2>1. CASE StarterChecks(p) \/ StarterWakes(p) \/ StarterSetsRunning(p)
    BY <1>1, <2>1 DEF StarterChecks, StarterWakes, StarterSetsRunning
  <2>2. CASE StarterTypes(p)
    <3>1. Type(PaneOf(p), p) /\ UNCHANGED <<printed, initialised, finished>>
      BY <2>2 DEF StarterTypes
    <3>2. PreconditionsMet(p)
      BY <2>2 DEF StarterTypes, OrderInv
    <3>3. QED
      BY <3>1, <3>2, TypeStarts
  <2>3. CASE StarterAddsFinished(p)
    <3>1. p \in Started /\ p \notin UseStateChecking
      BY <2>3 DEF StarterAddsFinished, CountInv, Started
    <3>2. finished' = finished \cup {p} /\ UNCHANGED <<Started, initialised>>
      BY <2>3 DEF StarterAddsFinished, Started
    <3>3. Order!Finish(p)
      BY <3>1, <3>2 DEF Order!Finish
    <3>4. QED
      BY <3>3 DEF Order!Next
  <2>4. QED
    BY <1>2, <2>1, <2>2, <2>3 DEF Starter
<1>3. ASSUME NEW p \in Programs, Watch(p), UNCHANGED tmuxVars
      PROVE  Quiet
  BY <1>1, <1>3 DEF Watch, CheckerLoops, CheckerWaits, CheckerTimesOut, CheckerSeesChange,
     CheckerDecides
<1>4. ASSUME NEW p \in Programs, Restart(p)
      PROVE  Quiet \/ Order!Next
  <2>1. ASSUME NEW x \in Panes, RestartTypes(p, x)
        PROVE  Order!Next
    <3>1. Type(x, p) /\ UNCHANGED <<printed, initialised, finished>>
      BY <2>1 DEF RestartTypes
    <3>2. PreconditionsMet(p)
      BY <2>1 DEF RestartTypes, OrderInv, StateLockFree, RestartPc
    <3>3. QED
      BY <3>1, <3>2, TypeStarts
  <2>2. CASE \A x \in Panes : ~RestartTypes(p, x)
    BY <1>1, <1>4, <2>2 DEF Restart, NothingToRestart, RestartSearches,
       SearchBreaks, SearchEnds, RestartLooksUp, RestartFails,
       RestartInterrupts, RestartTimesOut, RestartStops
  <2>3. QED
    BY <2>1, <2>2
<1>5. ASSUME NEW p \in Programs, Listener(p), UNCHANGED tmuxVars
      PROVE  Quiet \/ Order!Next
  <2>1. CASE ListenerAddsInitialised(p)
    <3>1. p \in Started \cap UseStateChecking
      BY <2>1 DEF ListenerAddsInitialised, OutputInv, OutputOf, Started
    <3>2. initialised' = initialised \cup {p} /\ UNCHANGED <<Started, finished>>
      BY <1>5, <2>1 DEF ListenerAddsInitialised, Started
    <3>3. Order!Initialise(p)
      BY <3>1, <3>2 DEF Order!Initialise
    <3>4. QED
      BY <3>3 DEF Order!Next
  <2>2. CASE ListenerAddsFinished(p)
    <3>1. p \in Started /\ p \in initialised
      BY <2>2 DEF ListenerAddsFinished, OutputInv, OutputOf, Started
    <3>2. finished' = finished \cup {p} /\ UNCHANGED <<Started, initialised>>
      BY <1>5, <2>2 DEF ListenerAddsFinished, Started
    <3>3. Order!Finish(p)
      BY <3>1, <3>2 DEF Order!Finish
    <3>4. QED
      BY <3>3 DEF Order!Next
  <2>3. CASE ~ListenerAddsInitialised(p) /\ ~ListenerAddsFinished(p)
    BY <1>1, <1>5, <2>3 DEF Listener, ListenerReads, ListenerSetsInitializing,
       ListenerSetsRunning, ListenerEnds
  <2>4. QED
    BY <2>1, <2>2, <2>3
<1>6. ASSUME NEW p \in Programs, NEW n \in 1..sent[p], Write(p, n)
      PROVE  Quiet
  BY <1>1, <1>6 DEF Write
<1>7. ASSUME Untouched
      PROVE  Quiet
  BY <1>1, <1>7 DEF Untouched
<1>8. QED
  BY ONLY StepCases, <1>2, <1>3, <1>4, <1>5, <1>6, <1>7, IndInv, [Next]_vars DEF IndInv

(***************************************************************************)
(* This manager implements the abstract startup order as well, although    *)
(* the first to type the command of a program may be its watchdog.         *)
(***************************************************************************)
THEOREM Implementation == Spec => ImplementsStartupOrder
<1>1. Init => Order!Init
  BY DEF Init, ManagerInit, Order!Init, Started
<1>2. IndInv /\ [Next]_vars => [Order!Next]_<<Started, initialised, finished>>
  BY OrderStepOrStutter
<1>3. QED
  BY <1>1, <1>2, IndInvariant, PTL DEF Spec, ImplementsStartupOrder, Order!Spec,
     Order!orderVars

=============================================================================
