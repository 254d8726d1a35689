---------------------------- MODULE MCTmuxManager ----------------------------
(***************************************************************************)
(* Small instances of TmuxManager.  core has no state transitions, gnb has *)
(* them.                                                                   *)
(***************************************************************************)
EXTENDS TmuxManager, TLC

CONSTANTS core, gnb

(***************************************************************************)
(* gnb depends on core, though it comes first in the list.                 *)
(***************************************************************************)
ChainProgramNr     == gnb :> 0 @@ core :> 1
ChainDependsOn     == core :> {} @@ gnb :> {core}
ChainDependsOnInit == core :> {} @@ gnb :> {}
ChainMaxRestarts   == core :> 0 @@ gnb :> 1

(***************************************************************************)
(* gnb on its own, which may be restarted twice.                           *)
(***************************************************************************)
NoDependencies == [p \in Programs |-> {}]
SingleNr       == [p \in Programs |-> 0]
RestartTwice   == [p \in Programs |-> 2]

=============================================================================
