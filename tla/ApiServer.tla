------------------------------ MODULE ApiServer ------------------------------
(***************************************************************************)
(* The REST API (api_endpoints.py, api_utils.py): the endpoints that set   *)
(* the configuration, and the background jobs that check out and build.    *)
(* A checkout runs its clones in threads, one after the other; a build is  *)
(* one thread.  Any number of jobs run at once.  They report to the status *)
(* through the event loop and do not wait for it.                          *)
(***************************************************************************)
EXTENDS Checkout, ApiStatus, FiniteSets

CONSTANTS
    UEs,           \* names of UEs
    Checkouts,     \* requests for a checkout
    Builds,        \* requests for a build
    Configs,       \* the configurations clients send, for each kind
    UELists,       \* the lists of UEs clients send
    Targets,       \* what clients ask to build
    MaxRequests,   \* bound: requests that set the configuration or touch errors
    MaxConfigs     \* bound: configurations of a kind of component

ASSUME RequestsAssumption ==
    /\ Configs \in [Configurable -> SUBSET Config]
    /\ Components = {"near_rt_ric", "5gc", "gnb", "zmq_proxy"} \cup UEs
    /\ {"near_rt_ric", "5gc", "gnb", "zmq_proxy"} \cap UEs = {}
    /\ UELists \subseteq Seq(UEs)
    /\ Targets \subseteq {"all", "near_rt_ric", "5gc", "ue", "gnb", "zmq_proxy"}
    /\ Checkouts \cap Builds = {}
    /\ MaxRequests \in Nat

VARIABLES
    ueListed,   \* whether setup_configuration.ue is not None
    queues,     \* the components with a log queue
    requests,   \* the number of requests so far (bounded)
    jobPc,      \* where a job is
    jobAt,      \* the list and the entry a checkout, the stage a build is at
    jobConfig,  \* the configuration a checkout is cloning
    jobTarget,  \* what a build was asked to build
    results     \* how the work on a component has ended (history)

setupVars == <<ueListed, queues, requests>>
loopVars  == <<ues, componentStates, waiters, behind, watchVars>>
jobVars   == <<jobPc, jobAt, jobConfig, jobTarget, results>>
vars      == <<checkoutVars, statusVars, setupVars, jobVars>>

Jobs    == Checkouts \cup Builds
JobPc   == {"none", "next", "clone", "cloning", "patch", "building", "ended"}
Result  == {"cloned", "found", "not cloned", "built", "build failed", "build raised"}

TypeOK ==
    /\ CheckoutTypeOK
    /\ StatusTypeOK
    /\ ueListed \in BOOLEAN
    /\ queues \subseteq Components
    /\ requests \in 0..MaxRequests
    /\ jobPc \in [Jobs -> JobPc]
    /\ jobAt \in [Jobs -> (1..Len(Kinds)) \X Nat]
    /\ jobConfig \in [Jobs -> Config \cup {Nothing}]
    /\ jobTarget \in [Jobs -> Targets \cup {"none"}]
    /\ results \subseteq Components \X Result

Init ==
    /\ CheckoutInit
    /\ StatusInit
    /\ ueListed = FALSE
    /\ queues = {}
    /\ requests = 0
    /\ jobPc = [j \in Jobs |-> "none"]
    /\ jobAt = [j \in Jobs |-> <<1, 0>>]
    /\ jobConfig = [j \in Jobs |-> Nothing]
    /\ jobTarget = [j \in Jobs |-> "none"]
    /\ results = {}

-----------------------------------------------------------------------------
(* The endpoints that set the configuration *)

Request ==
    /\ requests < MaxRequests
    /\ requests' = requests + 1

\* A handler that suspends at the condition has done what precedes it.
Handle(u) == Perform(u) /\ UNCHANGED <<ready, holder, slow>>

\* _process_component_config
SetConfig(k, config) ==
    /\ Request
    /\ Len(configs[k]) < MaxConfigs
    /\ queues' = queues \cup {k}
    /\ Configure(k, config)
    /\ Handle(Update(<<k>>, "configured"))
    /\ UNCHANGED <<ues, folders, ueListed, jobVars>>

(***************************************************************************)
(* A list of UEs takes effect even if it is then rejected for its lack of  *)
(* an IP range or gateway; its UEs have no state and no log queue then.    *)
(* Bound: a list is not replaced once a UE of it has a log queue, nor      *)
(* while a job, which may be going through it, is at work.                 *)
(***************************************************************************)
InstallList(us, config) ==
    /\ Request
    /\ Elements(ues) \cap queues = {}
    /\ \A j \in Jobs : jobPc[j] \in {"none", "ended"}
    /\ ues' = us
    /\ ueListed' = TRUE
    /\ configs' = [configs EXCEPT !["ue"] = [n \in DOMAIN us |-> config]]
    /\ selected' = [selected EXCEPT !["ue"] = config.folder]
    /\ UNCHANGED <<folders, jobVars>>

\* Nothing is announced of an empty list.
SetUEList(us, config) ==
    /\ InstallList(us, config)
    /\ queues' = queues \cup Elements(us)
    /\ IF us = <<>> THEN UNCHANGED <<componentStates, ready, waiters, behind, watchVars>>
                    ELSE Handle(Update(us, "configured"))

RejectUEList(us, config) ==
    /\ InstallList(us, config)
    /\ Handle(ChangeErrors)
    /\ UNCHANGED queues

\* Bound: the names of the UEs are distinct.
AddUE(u, config) ==
    /\ Request
    /\ ueListed
    /\ u \notin Elements(ues)
    /\ ues' = Append(ues, u)
    /\ Configure("ue", config)
    /\ queues' = queues \cup {u}
    /\ Handle(Update(<<u>>, "configured"))
    /\ UNCHANGED <<folders, ueListed, jobVars>>

SetProxy ==
    /\ Request
    /\ queues' = queues \cup {"zmq_proxy"}
    /\ Handle(Update(<<"zmq_proxy">>, "configured"))
    /\ UNCHANGED <<ues, checkoutVars, ueListed, jobVars>>

\* A request that is not accepted, of any endpoint, or one that clears the errors.
RejectOrClear ==
    /\ Request
    /\ Handle(ChangeErrors)
    /\ UNCHANGED <<ues, checkoutVars, ueListed, queues, jobVars>>

Setup ==
    \/ \E k \in {"near_rt_ric", "5gc", "gnb"} : \E config \in Configs[k] :
          SetConfig(k, config)
    \/ \E config \in Configs["ue"] :
          \/ \E us \in UELists : SetUEList(us, config) \/ RejectUEList(us, config)
          \/ \E u \in UEs : AddUE(u, config)
    \/ SetProxy
    \/ RejectOrClear

-----------------------------------------------------------------------------
(* checkout_repositories and run_checkout *)

\* check_configuration
ConfigurationComplete ==
    /\ \A k \in {"near_rt_ric", "5gc", "gnb"} : configs[k] # <<>>
    /\ ueListed

\* The entries of the i-th list, which may grow while a job goes through it.
Entries(i) ==
    CASE Kinds[i] = "ue"        -> Len(ues)
      [] Kinds[i] = "zmq_proxy" -> 1
      [] OTHER                  -> Len(configs[Kinds[i]])

EntriesLeft(at) ==
    {x \in (1..Len(Kinds)) \X (1..MaxRequests + 1) :
        /\ x[2] <= Entries(x[1])
        /\ x[1] > at[1] \/ (x[1] = at[1] /\ x[2] > at[2])}

IsFirst(x, left) ==
    \A y \in left : x[1] < y[1] \/ (x[1] = y[1] /\ x[2] <= y[2])

NextEntry(j) ==
    LET left == EntriesLeft(jobAt[j]) IN CHOOSE x \in left : IsFirst(x, left)

\* The component whose state is changed on behalf of an entry.
TargetAt(at) == IF Kinds[at[1]] = "ue" THEN ues[at[2]] ELSE Kinds[at[1]]

AcceptCheckout(j) ==
    /\ jobPc[j] = "none"
    /\ RepositoryState # "checked_out"
    /\ ConfigurationComplete
    /\ jobPc' = [jobPc EXCEPT ![j] = "next"]
    /\ UNCHANGED <<checkoutVars, statusVars, setupVars, jobAt, jobConfig, jobTarget, results>>

(***************************************************************************)
(* Nothing is configured, or there is a folder already, whatever it holds: *)
(* files of the patchers, a clone another job has not finished, or another *)
(* commit.  Nothing is cloned, and success reported.                       *)
(***************************************************************************)
FindFolder(j) ==
    /\ jobPc[j] = "next"
    /\ EntriesLeft(jobAt[j]) # {}
    /\ LET at == NextEntry(j)
           c  == TargetAt(at)
       IN  /\ NothingToClone(Used(Kinds[at[1]]))
           /\ jobAt' = [jobAt EXCEPT ![j] = at]
           /\ Schedule(<<Update(<<c>>, "checking_out"), Update(<<c>>, "checked_out")>>)
           /\ results' = results \cup {<<c, "found">>}
    /\ UNCHANGED <<checkoutVars, loopVars, setupVars, jobPc, jobConfig, jobTarget>>

FindNoFolder(j) ==
    /\ jobPc[j] = "next"
    /\ EntriesLeft(jobAt[j]) # {}
    /\ LET at     == NextEntry(j)
           config == Used(Kinds[at[1]])
       IN  /\ ~NothingToClone(config)
           /\ jobAt' = [jobAt EXCEPT ![j] = at]
           /\ Schedule(<<Update(<<TargetAt(at)>>, "checking_out")>>)
           /\ jobConfig' = [jobConfig EXCEPT ![j] = config]
    /\ jobPc' = [jobPc EXCEPT ![j] = "clone"]
    /\ UNCHANGED <<checkoutVars, loopVars, setupVars, jobTarget, results>>

BeginClone(j) ==
    /\ jobPc[j] = "clone"
    /\ folders[jobConfig[j].folder] = "absent"
    /\ BeginsToClone(jobConfig[j].folder)
    /\ jobPc' = [jobPc EXCEPT ![j] = "cloning"]
    /\ UNCHANGED <<configs, selected, statusVars, setupVars, jobAt, jobConfig, jobTarget,
                   results>>

\* Mutant of Report: the result of the checkout is not looked at.
ReportDone(j, ok) ==
    LET c == TargetAt(jobAt[j])
    IN  /\ Schedule(<<Update(<<c>>, "checked_out")>>)
        /\ results' = results \cup {<<c, IF ok THEN "cloned" ELSE "not cloned">>}
        /\ jobPc' = [jobPc EXCEPT ![j] = "next"]
        /\ jobConfig' = [jobConfig EXCEPT ![j] = Nothing]

\* A failure leaves the state as it is; the job goes on with the next entry.
Report(j, ok) ==
    LET c == TargetAt(jobAt[j])
    IN  /\ Schedule(<<IF ok THEN Update(<<c>>, "checked_out") ELSE ChangeErrors>>)
        /\ results' = results \cup {<<c, IF ok THEN "cloned" ELSE "not cloned">>}
        /\ jobPc' = [jobPc EXCEPT ![j] = "next"]
        /\ jobConfig' = [jobConfig EXCEPT ![j] = Nothing]

\* Another job has created the folder since: git fails.
CloneCollides(j) ==
    /\ jobPc[j] = "clone"
    /\ folders[jobConfig[j].folder] # "absent"
    /\ Report(j, FALSE)
    /\ UNCHANGED <<checkoutVars, loopVars, setupVars, jobAt, jobTarget>>

EndClone(j) ==
    /\ jobPc[j] = "cloning"
    /\ \E r \in CloneResults(jobConfig[j]) :
          /\ folders' = [folders EXCEPT ![jobConfig[j].folder] = r.content]
          /\ Report(j, r.ok)
    /\ UNCHANGED <<configs, selected, loopVars, setupVars, jobAt, jobTarget>>

EndCheckout(j) ==
    /\ jobPc[j] = "next"
    /\ EntriesLeft(jobAt[j]) = {}
    /\ jobPc' = [jobPc EXCEPT ![j] = "ended"]
    /\ jobAt' = [jobAt EXCEPT ![j] = <<1, 0>>]
    /\ UNCHANGED <<checkoutVars, statusVars, setupVars, jobConfig, jobTarget, results>>

CheckoutJob(j) ==
    \/ FindFolder(j)
    \/ FindNoFolder(j)
    \/ BeginClone(j)
    \/ CloneCollides(j)
    \/ EndClone(j)
    \/ EndCheckout(j)

-----------------------------------------------------------------------------
(* build_component and run_build *)

Stages == <<"near_rt_ric", "5gc", "gnb", "ue">>

\* What the stage changes the state of.
OfStage(n) == <<Stages[n]>>

Affected(n) == IF Stages[n] = "ue" THEN Elements(ues) ELSE {Stages[n]}

\* The UEs of a list that set_ue_config_list has not come to.
YetToQueue ==
    {c \in UEs : \E n \in DOMAIN waiters :
        /\ waiters[n] \notin Watchers
        /\ waiters[n].state = "configured"
        /\ c \in Elements(Tail(waiters[n].components))}

\* get_log_queue finds a queue for everything the stage builds.
HasQueues(n) ==
    /\ Affected(n) \subseteq queues \ YetToQueue
    /\ Stages[n] = "ue" => ueListed

AcceptBuild(j, target) ==
    /\ jobPc[j] = "none"
    /\ jobPc' = [jobPc EXCEPT ![j] = "patch"]
    /\ jobTarget' = [jobTarget EXCEPT ![j] = target]
    /\ UNCHANGED <<checkoutVars, statusVars, setupVars, jobAt, jobConfig, results>>

Finish(j, before) ==
    /\ Schedule(before)
    /\ jobPc' = [jobPc EXCEPT ![j] = "ended"]
    /\ jobAt' = [jobAt EXCEPT ![j] = <<1, 0>>]
    /\ jobTarget' = [jobTarget EXCEPT ![j] = "none"]

\* The job is about to build stage n, or the thread dies for want of a queue.
Enter(j, n, before) ==
    IF HasQueues(n)
    THEN /\ Schedule(before \o <<Update(OfStage(n), "building")>>)
         /\ jobPc' = [jobPc EXCEPT ![j] = "building"]
         /\ jobAt' = [jobAt EXCEPT ![j] = <<n, 0>>]
         /\ UNCHANGED jobTarget
    ELSE Finish(j, before)

\* What patch_single_docker_compose needs in order to succeed.
ReadyToPatch ==
    /\ ConfigurationComplete
    /\ ues # <<>>
    /\ "zmq_proxy" \in queues
    /\ Update(<<"zmq_proxy">>, "configured") \notin Elements(waiters)

(***************************************************************************)
(* patch_firmware, which copies nothing if the patching fails.  Its result *)
(* is not looked at, but it may raise.  All stages are inside the branch   *)
(* of the first one.                                                       *)
(***************************************************************************)
Patch(j) ==
    /\ jobPc[j] = "patch"
    /\ UNCHANGED folders \/ (ReadyToPatch /\ CopyFiles)
    /\ \/ Finish(j, <<>>)
       \/ jobTarget[j] \in {"all", "near_rt_ric"} /\ Enter(j, 1, <<>>)
    /\ UNCHANGED <<configs, selected, loopVars, setupVars, jobConfig, results>>

\* A builder returns True or False, or raises.  It needs the sources to succeed.
Outcomes(n) ==
    {"build failed", "build raised"} \cup {x \in {"built"} : HasRepository(Used(Stages[n]))}

\* Mutant of BuildStage: the next stage is built whether the stage failed or not.
BuildStageRegardless(j, outcome) ==
    LET n == jobAt[j][1]
    IN  /\ Stages[n] # "ue"
        /\ IF jobTarget[j] = "all" /\ outcome # "build raised"
           THEN Enter(j, n + 1, <<Update(OfStage(n), "built")>>)
           ELSE Finish(j, <<Update(OfStage(n), "built")>>)

\* Near-RT RIC, 5G core and gNB: a failure ends the job, an exception even unreported.
BuildStage(j, outcome) ==
    LET n == jobAt[j][1]
    IN  /\ Stages[n] # "ue"
        /\ CASE outcome = "build raised" -> Finish(j, <<>>)
             [] outcome = "build failed" -> Finish(j, <<Update(OfStage(n), "failed")>>)
             [] OTHER -> IF jobTarget[j] = "all"
                         THEN Enter(j, n + 1, <<Update(OfStage(n), "built")>>)
                         ELSE Finish(j, <<Update(OfStage(n), "built")>>)

(***************************************************************************)
(* The result of build_ues is taken the wrong way round.  A failure is     *)
(* reported once, if there is a UE at all.                                 *)
(***************************************************************************)
BuildUEs(j, outcome) ==
    /\ Stages[jobAt[j][1]] = "ue"
    /\ Finish(j, CASE outcome = "build raised" \/ ues = <<>> -> <<>>
                   [] outcome = "built"                      -> <<Update(AllUEs, "failed")>>
                   [] OTHER                                  -> <<Update(AllUEs, "built")>>)

EndStage(j) ==
    /\ jobPc[j] = "building"
    /\ \E outcome \in Outcomes(jobAt[j][1]) :
          /\ BuildStage(j, outcome) \/ BuildUEs(j, outcome)
          /\ results' = results \cup (Affected(jobAt[j][1]) \X {outcome})
    /\ UNCHANGED <<checkoutVars, loopVars, setupVars, jobConfig>>

BuildJob(j) == Patch(j) \/ EndStage(j)

-----------------------------------------------------------------------------
EventLoop ==
    /\ LoopRuns \/ WaiterUpdates \/ \E w \in Watchers : Watch(w)
    /\ UNCHANGED <<checkoutVars, setupVars, jobVars>>

Clients ==
    /\ \E w \in Watchers : Register(w) \/ Sent(w) \/ Leave(w)
    /\ UNCHANGED <<checkoutVars, setupVars, jobVars>>

Next ==
    \/ Setup
    \/ EventLoop
    \/ Clients
    \/ \E j \in Checkouts : AcceptCheckout(j) \/ CheckoutJob(j)
    \/ \E j \in Builds : BuildJob(j) \/ \E target \in Targets : AcceptBuild(j, target)

Spec == Init /\ [][Next]_vars

(***************************************************************************)
(* The event loop and the threads keep going, and git and docker come to   *)
(* an end.  Nothing makes a client read what it is sent.                   *)
(***************************************************************************)
FairSpec ==
    /\ Spec
    /\ WF_vars(LoopRuns /\ UNCHANGED <<checkoutVars, setupVars, jobVars>>)
    /\ WF_vars(WaiterUpdates /\ UNCHANGED <<checkoutVars, setupVars, jobVars>>)
    /\ \A w \in Watchers : WF_vars(Watch(w) /\ UNCHANGED <<checkoutVars, setupVars, jobVars>>)
    /\ \A j \in Checkouts : WF_vars(CheckoutJob(j))
    /\ \A j \in Builds : WF_vars(BuildJob(j))

-----------------------------------------------------------------------------
(* Safety *)

\* No job is at work, and nothing has yet to be applied to the status.
Idle ==
    /\ \A j \in Jobs : jobPc[j] \in {"none", "ended"}
    /\ ready = <<>>
    /\ Elements(waiters) \subseteq Watchers

\* A checkout came to c and reported success.
CheckoutSucceeded(c) == <<c, "cloned">> \in results \/ <<c, "found">> \in results

(***************************************************************************)
(* With checkouts and builds at once, whose reports wait in the event loop *)
(* and for the lock while watchers send, "checked out" is shown of nothing *)
(* but a component of which a checkout cloned the commit it was asked for, *)
(* or found a folder in the way; and once all is quiet, a component that   *)
(* is still being checked out is one whose clone has failed.  (What was    *)
(* found need not be the repository, see CheckedOutIsCloned.)              *)
(***************************************************************************)
CheckoutStatusIsEarned ==
    \A c \in Components :
        /\ componentStates[c] = "checked_out" => CheckoutSucceeded(c)
        /\ Idle /\ componentStates[c] = "checking_out" => <<c, "not cloned">> \in results

(***************************************************************************)
(* The same of builds: what is still shown as being built once all is      *)
(* quiet raised, and a component is built only after those before it.      *)
(* Not so the UEs, whose result is shown the wrong way round, and which    *)
(* may be listed after the job has found none to build.                    *)
(***************************************************************************)
BuildStatusIsEarned ==
    /\ \A c \in Components \ UEs :
          LET state == componentStates[c]
          IN  /\ state = "built" => <<c, "built">> \in results
              /\ state = "failed" => <<c, "build failed">> \in results
              /\ Idle /\ state = "building" => <<c, "build raised">> \in results
    /\ \A n \in 2..Len(Stages), c \in Components :
          componentStates[c] = "building" /\ c \in Affected(n)
              => <<Stages[n - 1], "built">> \in results

(***************************************************************************)
(* As long as no client has been slow to read, a watcher that has yet to   *)
(* push a change is on its way: it never goes back to waiting before.      *)
(* Once a client is slow, watchers miss changes.                           *)
(***************************************************************************)
NoChangeMissed ==
    \A w \in behind : slow \/ watcherPc[w] = "notified"

-----------------------------------------------------------------------------
(* The invariant behind the safety properties *)

\* Where jobs are, and what they keep there.
JobInv ==
    /\ ues \in Seq(UEs)
    /\ \A j \in Checkouts :
          /\ jobPc[j] \in {"none", "next", "clone", "cloning", "ended"}
          /\ jobPc[j] \in {"clone", "cloning"} =>
                /\ jobConfig[j] \in Config
                /\ Kinds[jobAt[j][1]] = "ue" => jobAt[j][2] \in DOMAIN ues
    /\ \A j \in Builds :
          /\ jobPc[j] \in {"none", "patch", "building", "ended"}
          /\ jobPc[j] = "building" => jobAt[j][1] \in DOMAIN Stages

\* What has been done to c when its state is st.
Earned(c, st) ==
    /\ st = "checked_out" => CheckoutSucceeded(c)
    /\ c \notin UEs =>
          /\ st = "built" => <<c, "built">> \in results
          /\ st = "failed" => <<c, "build failed">> \in results
    /\ \A n \in 2..Len(Stages) :
          st = "building" /\ c \in (IF Stages[n] = "ue" THEN UEs ELSE {Stages[n]})
              => <<Stages[n - 1], "built">> \in results

\* The components a change is about.
Concerned(u) == IF u.components = AllUEs THEN UEs ELSE Elements(u.components)

(***************************************************************************)
(* A change on its way was scheduled when what it says had been done.  One *)
(* that gives the lock back in between is about UEs, and of no checkout;   *)
(* so is one about all UEs, which the event loop replaces by the list.     *)
(***************************************************************************)
ChangeIsEarned(u) ==
    /\ \A c \in Concerned(u) : Earned(c, u.state)
    /\ u.components = AllUEs \/ Len(u.components) > 1 =>
          Concerned(u) \subseteq UEs /\ u.state # "checking_out"

StatusInv ==
    /\ \A c \in Components : Earned(c, componentStates[c])
    /\ \A u \in (Elements(ready) \cup Elements(waiters)) \ Watchers : ChangeIsEarned(u)
    /\ \A u \in Elements(waiters) \ Watchers : u.components # AllUEs
    /\ \A j \in Builds : jobPc[j] = "building" /\ jobAt[j][1] > 1
          => <<Stages[jobAt[j][1] - 1], "built">> \in results

\* An entry of a queue is a change of the state of c.
Touches(u, c) == u \notin Watchers /\ c \in Elements(u.components)

Silent(queue, c) == \A n \in DOMAIN queue : ~Touches(queue[n], c)

EndsWith(queue, c, st) ==
    \E n \in DOMAIN queue :
        /\ Touches(queue[n], c)
        /\ queue[n].state = st
        /\ \A m \in n + 1..Len(queue) : ~Touches(queue[m], c)

\* The state c is shown in once all changes on their way have been made.
WillShow(c, st) ==
    \/ EndsWith(ready, c, st)
    \/ Silent(ready, c) /\ EndsWith(waiters, c, st)
    \/ Silent(ready, c) /\ Silent(waiters, c) /\ componentStates[c] = st

(***************************************************************************)
(* What will be shown of work that goes on is either at work, or failed    *)
(* in the one way that is not reported.                                    *)
(***************************************************************************)
WorkInv ==
    \A c \in Components :
        /\ WillShow(c, "checking_out") =>
              \/ <<c, "not cloned">> \in results
              \/ \E j \in Checkouts :
                    jobPc[j] \in {"clone", "cloning"} /\ TargetAt(jobAt[j]) = c
        /\ c \notin UEs /\ WillShow(c, "building") =>
              \/ <<c, "build raised">> \in results
              \/ \E j \in Builds : jobPc[j] = "building" /\ Stages[jobAt[j][1]] = c

IndInv ==
    /\ TypeOK
    /\ JobInv
    /\ StatusInv
    /\ WorkInv

(***************************************************************************)
(* As long as no client has been slow, the lock is free between any two    *)
(* steps.                                                                  *)
(***************************************************************************)
NobodyWaits ==
    ~slow => /\ holder = NoWatcher /\ waiters = <<>>
             /\ \A w \in Watchers : watcherPc[w] \in {"away", "waiting", "notified"}
             /\ \A w \in behind : watcherPc[w] = "notified"

-----------------------------------------------------------------------------
(* Liveness *)

(***************************************************************************)
(* Every report and every suspended request gets to the status, however    *)
(* watchers come and go, unless a client does not read what it is sent.    *)
(***************************************************************************)
ReportsGetThrough ==
    (ready # <<>> \/ ~(Elements(waiters) \subseteq Watchers))
        ~> \/ ready = <<>> /\ Elements(waiters) \subseteq Watchers
           \/ holder # NoWatcher

-----------------------------------------------------------------------------
(* What the comments say and the code does not do *)

(***************************************************************************)
(* api_state.py:121: "When a component is in built or running state it     *)
(* indicates that it has been checked out".  Once all is quiet, /status    *)
(* says that the repositories are checked out, and another checkout is     *)
(* declined, only if the folders of Near-RT RIC, 5G core and gNB hold      *)
(* repositories.                                                           *)
(***************************************************************************)
CheckedOutIsCloned ==
    Idle /\ RepositoryState = "checked_out" =>
        \A k \in {"near_rt_ric", "5gc", "gnb"} : HasRepository(Used(k))

=============================================================================
