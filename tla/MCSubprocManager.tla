--------------------------- MODULE MCSubprocManager ---------------------------
(***************************************************************************)
(* Small instances of SubprocManager.  gnb has state transitions, xapp has *)
(* none.                                                                   *)
(***************************************************************************)
EXTENDS SubprocManager, TLC

CONSTANTS gnb, xapp

(***************************************************************************)
(* xapp waits for gnb, which may be restarted once.                        *)
(***************************************************************************)
ChainDependsOn     == gnb :> {} @@ xapp :> {gnb}
ChainDependsOnInit == gnb :> {} @@ xapp :> {gnb}
ChainMaxRestarts   == gnb :> 1 @@ xapp :> 0

(***************************************************************************)
(* Programs on their own, which may be restarted twice.                    *)
(***************************************************************************)
NoDependencies == [p \in Programs |-> {}]
RestartTwice   == [p \in Programs |-> 2]

=============================================================================
