------------------------- MODULE StartupOrderProofs -------------------------
(***************************************************************************)
(* What the promise of StartupOrder amounts to, for every set of programs  *)
(* and every dependency relation.                                          *)
(***************************************************************************)
EXTENDS StartupOrder, TLAPS

(***************************************************************************)
(* Only selected programs come up, and a program is recorded only after    *)
(* its launch.                                                             *)
(***************************************************************************)
RecordAfterLaunch ==
    /\ started \subseteq Programs
    /\ initialised \subseteq started \cap UseStateChecking
    /\ finished \subseteq started

(***************************************************************************)
(* RecordAfterLaunch is an invariant: the record (program_state_monitor.py *)
(* :33-43) never names a program that was not launched.                    *)
(***************************************************************************)
THEOREM RecordAfterLaunchInvariant == Spec => []RecordAfterLaunch
<1>1. Init => RecordAfterLaunch
  BY DEF Init, RecordAfterLaunch
<1>2. RecordAfterLaunch /\ [Next]_orderVars => RecordAfterLaunch'
  BY DEF RecordAfterLaunch, Next, Launch, Initialise, Finish, orderVars
<1>3. QED
  BY <1>1, <1>2, PTL DEF Spec

(***************************************************************************)
(* A launched program's dependencies are in the record, and stay there.    *)
(***************************************************************************)
THEOREM DependenciesFirstInvariant == Spec => []DependenciesFirst
<1>1. Init => DependenciesFirst
  BY DEF Init, DependenciesFirst
<1>2. DependenciesFirst /\ [Next]_orderVars => DependenciesFirst'
  BY DEF DependenciesFirst, PreconditionsMet, Next, Launch, Initialise, Finish, orderVars
<1>3. QED
  BY <1>1, <1>2, PTL DEF Spec

-----------------------------------------------------------------------------
(***************************************************************************)
(* The first program of a self-blocking set to be launched would need an   *)
(* entry of the record that only a launched program of the set, or no      *)
(* program at all, could have made.                                        *)
(***************************************************************************)
LEMMA BlockedNotLaunched ==
    ASSUME NEW C \in SUBSET Names, SelfBlocking(C),
           RecordAfterLaunch, C \cap started = {},
           NEW p \in C \cap Programs
    PROVE  ~PreconditionsMet(p)
<1>1. /\ C \cap finished = {}
      /\ C \cap initialised = {}
      /\ initialised \subseteq UseStateChecking
  BY DEF RecordAfterLaunch
<1>2. CASE DependsOn[p] \cap C # {}
  BY <1>1, <1>2 DEF PreconditionsMet
<1>3. CASE DependsOnInit[p] \cap C # {}
  BY <1>1, <1>3 DEF PreconditionsMet
<1>4. CASE DependsOnInit[p] \ UseStateChecking # {}
  BY <1>1, <1>4 DEF PreconditionsMet
<1>5. QED
  BY <1>2, <1>3, <1>4 DEF SelfBlocking

(***************************************************************************)
(* Programs that wait for each other, for a program that was not selected, *)
(* or for the initialization of a program without transitions never come   *)
(* up, however many programs there are: the configuration checks           *)
(* (program_descr_config.py:393-441) let such configurations pass.         *)
(***************************************************************************)
THEOREM BlockedNeverStartInvariant == Spec => []BlockedNeverStart
<1> DEFINE Apart == \A C \in SUBSET Names : SelfBlocking(C) => C \cap started = {}
<1>1. Init => Apart
  BY DEF Init
<1>2. ASSUME RecordAfterLaunch, Apart, [Next]_orderVars
      PROVE  Apart'
  <2> SUFFICES ASSUME NEW C \in SUBSET Names, SelfBlocking(C)
               PROVE  C \cap started' = {}
    OBVIOUS
  <2>1. C \cap started = {}
    BY <1>2
  <2>2. CASE \E p \in Programs : Launch(p)
    <3>1. PICK p \in Programs : Launch(p)
      BY <2>2
    <3>2. p \notin C
      BY <1>2, <2>1, <3>1, BlockedNotLaunched DEF Launch
    <3>3. QED
      BY <2>1, <3>1, <3>2 DEF Launch
  <2>3. CASE \E p \in Programs : Initialise(p) \/ Finish(p)
    BY <2>1, <2>3 DEF Initialise, Finish
  <2>4. CASE UNCHANGED orderVars
    BY <2>1, <2>4 DEF orderVars
  <2>5. QED
    BY <1>2, <2>2, <2>3, <2>4 DEF Next
<1>3. RecordAfterLaunch /\ Apart => BlockedNeverStart
  BY DEF RecordAfterLaunch, BlockedNeverStart
<1>4. QED
  BY <1>1, <1>2, <1>3, RecordAfterLaunchInvariant, PTL DEF Spec

=============================================================================
