----------------------------- MODULE MCApiServer -----------------------------
(***************************************************************************)
(* Small instances of ApiServer.                                           *)
(***************************************************************************)
EXTENDS ApiServer, TLC

CONSTANTS ue1, ue2, w1, j1, b1

AllComponents == {"near_rt_ric", "5gc", "gnb", "zmq_proxy"} \cup UEs

OneUE  == {<<>>, <<ue1>>}
TwoUEs == {<<ue1, ue2>>}

NothingOnDisk == [f \in Folders |-> "absent"]
AllOnDisk     == [f \in Folders |-> "latest"]

Latest(f) == [folder |-> f, commit |-> "latest"]

(***************************************************************************)
(* The core of the srsRAN project, which the gNB is a part of.             *)
(***************************************************************************)
SharedFolder ==
       "near_rt_ric" :> {Latest("flexric")}
    @@ "5gc"         :> {Latest("srsRAN_Project")}
    @@ "gnb"         :> {[folder |-> "srsRAN_Project", commit |-> "v1"]}
    @@ "ue"          :> {Latest("srsRAN_4G")}

=============================================================================
