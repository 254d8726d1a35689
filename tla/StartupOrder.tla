---------------------------- MODULE StartupOrder ----------------------------
(***************************************************************************)
(* What a process manager promises about the order in which the programs   *)
(* of a demo come up, whatever its threads do (README.md:87-92):           *)
(* a program is launched only once the programs it depends on have been    *)
(* recorded, and it is recorded only once it has been launched.            *)
(*                                                                         *)
(* The three sets only grow: ProgramRecord (program_state_monitor.py:10)   *)
(* never revokes an entry, and a launch cannot be undone.  Restarts are    *)
(* invisible at this level: a restarted program stays launched.            *)
(***************************************************************************)

CONSTANTS
    Names,            \* every program name the demo configuration mentions
    Programs,         \* the programs DemoRunner selected to be run
    DependsOn,        \* depends_on of a selected program
    DependsOnInit,    \* depends_on_init of a selected program
    UseStateChecking  \* the programs with both state transitions defined

VARIABLES
    started,      \* the programs that have been launched at least once
    initialised,  \* ProgramRecord._initialised_programs
    finished      \* ProgramRecord._finished_programs

orderVars == <<started, initialised, finished>>

(***************************************************************************)
(* Nothing has been launched or recorded when the managers start.          *)
(***************************************************************************)
Init ==
    /\ started = {}
    /\ initialised = {}
    /\ finished = {}

(***************************************************************************)
(* ProgramStateData.are_preconditions_met                                  *)
(***************************************************************************)
PreconditionsMet(p) ==
    /\ DependsOn[p] \subseteq finished
    /\ DependsOnInit[p] \subseteq initialised

Launch(p) ==
    /\ PreconditionsMet(p)
    /\ started' = started \cup {p}
    /\ UNCHANGED <<initialised, finished>>

(***************************************************************************)
(* A launched program with transitions prints its stop_to_init line.       *)
(***************************************************************************)
Initialise(p) ==
    /\ p \in started \cap UseStateChecking
    /\ initialised' = initialised \cup {p}
    /\ UNCHANGED <<started, finished>>

(***************************************************************************)
(* A launched program is recorded as running: at once if it defines no     *)
(* transitions, only after it has been initialising if it does.            *)
(***************************************************************************)
Finish(p) ==
    /\ p \in started
    /\ p \in UseStateChecking => p \in initialised
    /\ finished' = finished \cup {p}
    /\ UNCHANGED <<started, initialised>>

Next == \E p \in Programs : Launch(p) \/ Initialise(p) \/ Finish(p)

Spec == Init /\ [][Next]_orderVars

-----------------------------------------------------------------------------
(***************************************************************************)
(* The order promised: a program has been launched only if everything it   *)
(* depends on is in the record.                                            *)
(***************************************************************************)
DependenciesFirst ==
    \A p \in started : PreconditionsMet(p)

(***************************************************************************)
(* A set of names blocks itself when each of its selected programs needs a *)
(* name of the set, or needs the "initialised" entry of a program that has *)
(* no transitions and so never gets one.  A dependency cycle is such a     *)
(* set, and so is a program together with a dependency that DemoRunner did *)
(* not select: _check_program (program_descr_config.py:393) rejects        *)
(* neither.                                                                *)
(***************************************************************************)
SelfBlocking(C) ==
    \A p \in C \cap Programs :
        \/ DependsOn[p] \cap C # {}
        \/ DependsOnInit[p] \cap C # {}
        \/ DependsOnInit[p] \ UseStateChecking # {}

(***************************************************************************)
(* No program of a self-blocking set is ever launched, nor recorded: its   *)
(* starter waits for ever and no timeout helps.                            *)
(***************************************************************************)
BlockedNeverStart ==
    \A C \in SUBSET Names :
        SelfBlocking(C) => C \cap (started \cup initialised \cup finished) = {}

=============================================================================
