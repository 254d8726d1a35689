------------------------------ MODULE Checkout -------------------------------
(***************************************************************************)
(* The configuration of the components and the folders their repositories  *)
(* are cloned into (setup_configuration.py, component_checkout_manager.py) *)
(* Extended by whatever checks out: no Init and Next of its own.           *)
(*                                                                         *)
(* A configuration is a record [folder, commit].  The folder stands for    *)
(* the implementation as well: within a kind of component each             *)
(* implementation has a folder of its own (a 5G core and a gNB may share   *)
(* one), and the enumerations hold no implementation without one.          *)
(***************************************************************************)
EXTENDS Naturals, Sequences

CONSTANTS
    Folders,   \* the folders below build_dir
    Commits,   \* what may be asked for besides "latest"
    OnDisk     \* what earlier runs of the program have left in the folders

ASSUME CommitsAssumption == {"absent", "patched", "cloning", "latest"} \cap Commits = {}
ASSUME FoldersAssumption == "none" \notin Folders

(***************************************************************************)
(* What a folder holds.  It exists as soon as git begins to clone, or the  *)
(* patchers have copied their files there.                                 *)
(***************************************************************************)
Content == Commits \cup {"absent", "patched", "cloning", "latest"}
Config  == [folder : Folders, commit : Commits \cup {"latest"}]
Nothing == [folder |-> "none", commit |-> "none"]

ASSUME OnDiskAssumption == OnDisk \in [Folders -> Content \ {"cloning"}]

\* The kinds of component, in the order of their checkout.
Kinds == <<"near_rt_ric", "5gc", "gnb", "ue", "zmq_proxy">>
Configurable == {"near_rt_ric", "5gc", "gnb", "ue"}

VARIABLES
    configs,    \* near_rt_rics, cores_5g, gnbs and ue.ues of SetupConfiguration
    selected,   \* the implementation EnvironmentCfg has for a kind
    folders     \* the repositories on disk

checkoutVars == <<configs, selected, folders>>

CheckoutTypeOK ==
    /\ configs \in [Configurable -> Seq(Config)]
    /\ selected \in [Configurable -> Folders \cup {"none"}]
    /\ folders \in [Folders -> Content]

CheckoutInit ==
    /\ configs = [k \in Configurable |-> <<>>]
    /\ selected = [k \in Configurable |-> "none"]
    /\ folders = OnDisk

(***************************************************************************)
(* get_used_ric, get_used_core and get_used_gnb: the first configuration   *)
(* of the selected implementation.  checkout_ue clones for the first UE;   *)
(* for the others the folder exists.                                       *)
(***************************************************************************)
IsUsed(k, n) ==
    /\ n \in DOMAIN configs[k]
    /\ configs[k][n].folder = selected[k]
    /\ \A m \in 1..n - 1 : configs[k][m].folder # selected[k]

Used(k) ==
    IF k \in Configurable /\ \E n \in DOMAIN configs[k] : IsUsed(k, n)
    THEN configs[k][CHOOSE n \in DOMAIN configs[k] : IsUsed(k, n)]
    ELSE Nothing

\* A configuration is added, and its implementation is the selected one.
Configure(k, config) ==
    /\ configs' = [configs EXCEPT ![k] = Append(@, config)]
    /\ selected' = [selected EXCEPT ![k] = config.folder]

(***************************************************************************)
(* _clone_repository.  A folder that exists is taken for checked out; git  *)
(* refuses to clone into one that another job has created in the meantime. *)
(***************************************************************************)
NothingToClone(config) == config # Nothing => folders[config.folder] # "absent"

BeginsToClone(f) == folders' = [folders EXCEPT ![f] = "cloning"]

\* What git leaves in the folder, and whether that is a success.
CloneResults(config) ==
    {[content |-> config.commit, ok |-> TRUE],
     [content |-> "absent",      ok |-> FALSE]}
    \cup IF config.commit = "latest" THEN {}
         ELSE {[content |-> "latest", ok |-> FALSE]}   \* the commit does not exist

HasRepository(config) ==
    config # Nothing /\ folders[config.folder] \notin {"absent", "patched"}

(***************************************************************************)
(* copy_files_to_location: the patchers copy Dockerfiles and the like, and *)
(* create the folders these go to, those of the SC RIC whichever is used.  *)
(* Bound: a copy that fails halfway has created all of them.               *)
(***************************************************************************)
Destinations == {Used(k).folder : k \in Configurable} \cup {"oran-sc-ric"}

\* Mutant of CopyFiles: every destination is taken for a repository's folder.
CopyFilesBeside ==
    folders' = [f \in Folders \cup Destinations |->
        IF f \in Folders THEN IF f \in Destinations /\ folders[f] = "absent" THEN "patched"
                              ELSE folders[f]
        ELSE "patched"]

CopyFiles ==
    folders' = [f \in Folders |->
        IF f \in Destinations /\ folders[f] = "absent" THEN "patched" ELSE folders[f]]

=============================================================================
