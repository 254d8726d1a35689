------------------------------ MODULE ApiStatus ------------------------------
(***************************************************************************)
(* The status of the REST API (api_state.py, and state_watcher in          *)
(* api_endpoints.py): the states of the components, changed and watched    *)
(* under one asyncio condition.  Extended by ApiServer.                    *)
(*                                                                         *)
(* A coroutine runs until it suspends, so a change of the status is one    *)
(* step unless the lock of the condition is taken.  Only a watcher keeps   *)
(* it while it is suspended: state_watcher yields what it pushes inside    *)
(* the condition, and the client may be slow to read.                      *)
(***************************************************************************)
EXTENDS Naturals, Sequences

CONSTANTS
    Components,   \* the components that may have a state, UEs included
    Watchers,     \* the clients of /register-state-watcher
    MaxBacklog    \* bound: changes that threads have scheduled and not yet made

VARIABLES
    ues,               \* the names in ue.ues of the SetupConfiguration
    componentStates,   \* _component_states, "none" for a missing key
    ready,             \* coroutines other threads have handed to the event loop
    waiters,           \* coroutines that wait for the lock, in their order
    holder,            \* the watcher that keeps the lock while it sends
    watcherPc,         \* where a state watcher is
    behind,            \* the watchers that have yet to push a change (history)
    slow               \* whether a client has ever been slow (history)

watchVars  == <<holder, watcherPc, slow>>
statusVars == <<ues, componentStates, ready, waiters, behind, watchVars>>

\* FAILED and BUILD_FAILED are the same member of the enumeration.
ComponentState ==
    {"not_checked_out", "checking_out", "checked_out", "failed", "configured",
     "not_configured", "building", "built"}

(***************************************************************************)
(* What runs under the condition: set_component_status for one component,  *)
(* set_all_ue_states for one UE after the other, add_error and             *)
(* clear_errors, which change no state (the texts of the errors are left   *)
(* out), and the watchers that take the lock (back).                       *)
(***************************************************************************)
AllUEs == <<"ue">>

Update(components, state) == [components |-> components, state |-> state]
ChangeErrors == Update(<<>>, "failed")
Updates == [components : Seq(Components) \cup {AllUEs}, state : ComponentState]

NoWatcher == "none"

ASSUME StatusAssumption ==
    /\ "ue" \notin Components
    /\ \A w \in Watchers : w \notin Updates /\ w # NoWatcher
    /\ MaxBacklog \in Nat

WatcherPc == {"away", "looping", "waiting", "notified", "sending"}

StatusTypeOK ==
    /\ ues \in Seq(Components)
    /\ componentStates \in [Components -> ComponentState \cup {"none"}]
    /\ ready \in Seq(Updates)
    /\ waiters \in Seq(Updates \cup Watchers)
    /\ holder \in Watchers \cup {NoWatcher}
    /\ watcherPc \in [Watchers -> WatcherPc]
    /\ behind \subseteq Watchers
    /\ slow \in BOOLEAN

StatusInit ==
    /\ ues = <<>>
    /\ componentStates = [c \in Components |->
          IF c \in {"near_rt_ric", "5gc", "gnb"} THEN "not_configured" ELSE "none"]
    /\ ready = <<>>
    /\ waiters = <<>>
    /\ holder = NoWatcher
    /\ watcherPc = [w \in Watchers |-> "away"]
    /\ behind = {}
    /\ slow = FALSE

\* asyncio.Lock: nobody overtakes a coroutine that waits for it.
LockAvailable == holder = NoWatcher /\ waiters = <<>>

Elements(s) == {s[n] : n \in DOMAIN s}

-----------------------------------------------------------------------------
(* set_component_status, set_ue_status, add_error, clear_errors *)

\* Mutant of Apply: watchers are notified only if a state changes.
ApplyWithNews(cs, state) ==
    /\ componentStates' = [c \in Components |->
          IF c \in Elements(cs) THEN state ELSE componentStates[c]]
    /\ watcherPc' = [w \in Watchers |->
          IF watcherPc[w] = "waiting" /\ \E c \in Elements(cs) : componentStates[c] # state
          THEN "notified" ELSE watcherPc[w]]
    /\ behind' = behind \cup {w \in Watchers : watcherPc[w] # "away"}

\* The change, with the lock held, of all the components in cs; it notifies all.
Apply(cs, state) ==
    /\ componentStates' = [c \in Components |->
          IF c \in Elements(cs) THEN state ELSE componentStates[c]]
    /\ watcherPc' = [w \in Watchers |->
          IF watcherPc[w] = "waiting" THEN "notified" ELSE watcherPc[w]]
    /\ behind' = behind \cup {w \in Watchers : watcherPc[w] # "away"}

(***************************************************************************)
(* A coroutine gets to the condition: it takes the lock and gives it back, *)
(* or queues up.                                                           *)
(***************************************************************************)
Perform(u) ==
    \/ /\ LockAvailable
       /\ Apply(u.components, u.state)
       /\ UNCHANGED waiters
    \/ /\ ~LockAvailable
       /\ waiters' = Append(waiters, u)
       /\ UNCHANGED <<componentStates, watcherPc, behind>>

InBounds(us) == Len(ready) + Len(waiters) + Len(us) <= MaxBacklog

\* asyncio.run_coroutine_threadsafe, whose result nobody waits for.
Schedule(us) == InBounds(us) /\ ready' = ready \o us

\* The event loop starts a coroutine that a thread has scheduled.
LoopRuns ==
    /\ ready # <<>>
    /\ LET u == Head(ready)
       IN  Perform(IF u.components = AllUEs THEN Update(ues, u.state) ELSE u)
    /\ ready' = Tail(ready)
    /\ UNCHANGED <<ues, holder, slow>>

(***************************************************************************)
(* The first of the waiting changes gets the lock.  Between two UEs it     *)
(* gives the lock back, behind whoever is waiting.                         *)
(***************************************************************************)
WaiterUpdates ==
    /\ holder = NoWatcher
    /\ waiters # <<>>
    /\ Head(waiters) \notin Watchers
    /\ LET u    == Head(waiters)
           rest == Tail(waiters)
       IN  IF rest = <<>> \/ Len(u.components) <= 1
           THEN /\ Apply(u.components, u.state)
                /\ waiters' = rest
           ELSE /\ Apply(<<Head(u.components)>>, u.state)
                /\ waiters' = Append(rest, [u EXCEPT !.components = Tail(@)])
    /\ UNCHANGED <<ues, ready, holder, slow>>

-----------------------------------------------------------------------------
(* state_watcher *)

\* A client registers: its watcher waits for a change, or first for the lock.
Register(w) ==
    /\ watcherPc[w] = "away"
    /\ watcherPc' = [watcherPc EXCEPT ![w] = IF LockAvailable THEN "waiting" ELSE "looping"]
    /\ waiters' = IF LockAvailable THEN waiters ELSE Append(waiters, w)
    /\ UNCHANGED <<ues, componentStates, ready, holder, behind, slow>>

(***************************************************************************)
(* What w reads is current.  If the client reads at once, w gives the lock *)
(* back, takes it again behind those who wait for it, here "others", and   *)
(* waits; otherwise it stays suspended with the lock.                      *)
(***************************************************************************)
Push(w, others) ==
    /\ behind' = behind \ {w}
    /\ \/ /\ watcherPc' = [watcherPc EXCEPT ![w] = IF others = <<>> THEN "waiting"
                                                                    ELSE "looping"]
          /\ waiters' = IF others = <<>> THEN others ELSE Append(others, w)
          /\ UNCHANGED <<holder, slow>>
       \/ /\ watcherPc' = [watcherPc EXCEPT ![w] = "sending"]
          /\ waiters' = others
          /\ holder' = w
          /\ slow' = TRUE

\* Condition.wait takes the lock back.
WatcherWakes(w) ==
    /\ watcherPc[w] = "notified"
    /\ w \notin Elements(waiters)
    /\ \/ LockAvailable /\ Push(w, waiters)
       \/ /\ ~LockAvailable
          /\ waiters' = Append(waiters, w)
          /\ UNCHANGED <<holder, watcherPc, slow, behind>>
    /\ UNCHANGED <<ues, componentStates, ready>>

\* The first of the waiting watchers gets the lock.
WaiterWatches(w) ==
    /\ holder = NoWatcher
    /\ waiters # <<>>
    /\ Head(waiters) = w
    /\ \/ /\ watcherPc[w] = "notified"
          /\ Push(w, Tail(waiters))
       \/ /\ watcherPc[w] = "looping"
          /\ watcherPc' = [watcherPc EXCEPT ![w] = "waiting"]
          /\ waiters' = Tail(waiters)
          /\ UNCHANGED <<holder, slow, behind>>
    /\ UNCHANGED <<ues, componentStates, ready>>

\* The client has read.
Sent(w) ==
    /\ watcherPc[w] = "sending"
    /\ holder' = NoWatcher
    /\ watcherPc' = [watcherPc EXCEPT ![w] = IF waiters = <<>> THEN "waiting" ELSE "looping"]
    /\ waiters' = IF waiters = <<>> THEN waiters ELSE Append(waiters, w)
    /\ UNCHANGED <<ues, componentStates, ready, behind, slow>>

\* Mutant of Leave: a watcher that waits for the lock stays in the queue.
LeaveInQueue(w) ==
    /\ watcherPc[w] # "away"
    /\ watcherPc' = [watcherPc EXCEPT ![w] = "away"]
    /\ holder' = IF holder = w THEN NoWatcher ELSE holder
    /\ behind' = behind \ {w}
    /\ UNCHANGED <<ues, componentStates, ready, waiters, slow>>

\* The client disconnects: the watcher is cancelled, its lock released.
Leave(w) ==
    /\ watcherPc[w] # "away"
    /\ watcherPc' = [watcherPc EXCEPT ![w] = "away"]
    /\ \/ w \notin Elements(waiters) /\ UNCHANGED waiters
       \/ \E n \in DOMAIN waiters :
             /\ waiters[n] = w
             /\ waiters' = SubSeq(waiters, 1, n - 1) \o SubSeq(waiters, n + 1, Len(waiters))
    /\ holder' = IF holder = w THEN NoWatcher ELSE holder
    /\ behind' = behind \ {w}
    /\ UNCHANGED <<ues, componentStates, ready, slow>>

Watch(w) == WatcherWakes(w) \/ WaiterWatches(w)

-----------------------------------------------------------------------------
(* What the endpoints tell *)

(***************************************************************************)
(* get_repository_state.                                                   *)
(***************************************************************************)
Present == {componentStates[c] : c \in Components} \ {"none"}

RepositoryState ==
    CASE "failed" \in Present -> "failed"
      [] Present \cap {"failed", "configured", "not_configured", "checking_out",
                       "not_checked_out"} = {} -> "checked_out"
      [] OTHER -> "not_checked_out"

=============================================================================
