--------------------------- MODULE ApiServerProofs ---------------------------
(***************************************************************************)
(* Safety of ApiServer for any number of clients, jobs and UEs, and for    *)
(* all bounds.                                                             *)
(***************************************************************************)
EXTENDS ApiServer, SequenceTheorems, TLAPS

-----------------------------------------------------------------------------
(* Components, lists and configurations *)

LEMMA Lists ==
    /\ Len(Kinds) = 5 /\ DOMAIN Kinds = 1..5
    /\ Kinds[1] = "near_rt_ric" /\ Kinds[2] = "5gc" /\ Kinds[3] = "gnb" /\ Kinds[4] = "ue"
    /\ Kinds[5] = "zmq_proxy"
    /\ Len(Stages) = 4 /\ DOMAIN Stages = 1..4
    /\ Stages[1] = "near_rt_ric" /\ Stages[2] = "5gc" /\ Stages[3] = "gnb"
    /\ Stages[4] = "ue"
BY DEF Kinds, Stages

LEMMA UpdateType ==
    ASSUME NEW cs \in Seq(Components) \cup {AllUEs}, NEW st \in ComponentState
    PROVE  /\ Update(cs, st) \in Updates
           /\ Update(cs, st).components = cs /\ Update(cs, st).state = st
BY DEF Update, Updates

LEMMA OneComponent ==
    ASSUME NEW c \in Components
    PROVE  /\ <<c>> \in Seq(Components) /\ <<c>> # AllUEs
           /\ Elements(<<c>>) = {c} /\ Len(<<c>>) = 1
<1>1. <<c>> \in Seq(Components) /\ Len(<<c>>) = 1 /\ <<c>>[1] = c /\ DOMAIN <<c>> = {1}
  OBVIOUS
<1>2. c # "ue"
  BY StatusAssumption
<1>3. QED
  BY <1>1, <1>2 DEF AllUEs, Elements

LEMMA ErrorsType ==
    /\ ChangeErrors \in Updates /\ Elements(ChangeErrors.components) = {}
    /\ ChangeErrors.components # AllUEs /\ Len(ChangeErrors.components) = 0
    /\ ChangeErrors.state = "failed"
<1>1. <<>> \in Seq(Components) /\ Len(<<>>) = 0 /\ DOMAIN <<>> = {} /\ <<>> # <<"ue">>
  OBVIOUS
<1>2. "failed" \in ComponentState
  BY DEF ComponentState
<1>3. ChangeErrors \in Updates /\ ChangeErrors.components = <<>> /\ ChangeErrors.state = "failed"
  BY <1>1, <1>2, UpdateType DEF ChangeErrors
<1>4. Elements(<<>>) = {}
  BY <1>1 DEF Elements
<1>5. QED
  BY ONLY <1>1, <1>3, <1>4 DEF AllUEs

(***************************************************************************)
(* The elements of a queue after one is added, or the first one taken.     *)
(***************************************************************************)
LEMMA ElementsOf ==
    ASSUME NEW S, NEW s \in Seq(S)
    PROVE  /\ Elements(s) \subseteq S
           /\ \A e \in S : Elements(Append(s, e)) = Elements(s) \cup {e}
           /\ s # <<>> => /\ Head(s) \in Elements(s) /\ Tail(s) \in Seq(S)
                          /\ Elements(Tail(s)) \subseteq Elements(s)
                          /\ Elements(s) = {Head(s)} \cup Elements(Tail(s))
<1>1. Elements(s) \subseteq S
  BY DEF Elements
<1>2. ASSUME NEW e \in S
      PROVE  Elements(Append(s, e)) = Elements(s) \cup {e}
  <2>1. /\ Len(s) \in Nat /\ DOMAIN s = 1..Len(s)
        /\ DOMAIN Append(s, e) = 1..Len(s) + 1
        /\ \A n \in 1..Len(s) : Append(s, e)[n] = s[n]
        /\ Append(s, e)[Len(s) + 1] = e
    BY AppendProperties
  <2>2. 1..Len(s) + 1 = (1..Len(s)) \cup {Len(s) + 1}
    BY <2>1
  <2>3. QED
    BY <2>1, <2>2 DEF Elements
<1>3. ASSUME s # <<>>
      PROVE  /\ Head(s) \in Elements(s) /\ Tail(s) \in Seq(S)
             /\ Elements(Tail(s)) \subseteq Elements(s)
             /\ Elements(s) = {Head(s)} \cup Elements(Tail(s))
  <2>1. /\ Len(s) \in Nat /\ Len(s) > 0 /\ DOMAIN s = 1..Len(s) /\ Head(s) = s[1]
        /\ Tail(s) \in Seq(S) /\ DOMAIN Tail(s) = 1..Len(s) - 1
        /\ \A n \in 1..Len(s) - 1 : Tail(s)[n] = s[n + 1]
    BY <1>3, HeadTailProperties
  <2>2. \A n \in 1..Len(s) : n = 1 \/ n - 1 \in 1..Len(s) - 1
    BY <2>1
  <2>3. \A n \in 1..Len(s) - 1 : n + 1 \in 1..Len(s)
    BY <2>1
  <2>4. Elements(Tail(s)) \subseteq Elements(s)
    BY <2>1, <2>3 DEF Elements
  <2>5. Elements(s) \subseteq {Head(s)} \cup Elements(Tail(s))
    <3> SUFFICES ASSUME NEW n \in 1..Len(s)
                 PROVE  s[n] \in {Head(s)} \cup Elements(Tail(s))
      BY <2>1 DEF Elements
    <3>1. CASE n = 1
      BY <2>1, <3>1
    <3>2. CASE n - 1 \in 1..Len(s) - 1
      <4>1. Tail(s)[n - 1] = s[n]
        BY <2>1, <3>2
      <4>2. QED
        BY <2>1, <3>2, <4>1 DEF Elements
    <3>3. QED
      BY <2>2, <3>1, <3>2
  <2>6. QED
    BY <2>1, <2>4, <2>5 DEF Elements
<1>4. QED
  BY <1>1, <1>2, <1>3

LEMMA UsedType ==
    ASSUME CheckoutTypeOK, NEW k
    PROVE  Used(k) \in Config \cup {Nothing}
<1>1. CASE k \in Configurable /\ \E n \in DOMAIN configs[k] : IsUsed(k, n)
  <2>1. (CHOOSE n \in DOMAIN configs[k] : IsUsed(k, n)) \in DOMAIN configs[k]
    BY <1>1
  <2>2. configs[k] \in Seq(Config)
    BY <1>1 DEF CheckoutTypeOK
  <2>3. QED
    BY <1>1, <2>1, <2>2 DEF Used
<1>2. CASE ~(k \in Configurable /\ \E n \in DOMAIN configs[k] : IsUsed(k, n))
  BY <1>2 DEF Used
<1>3. QED
  BY <1>1, <1>2

(***************************************************************************)
(* While a job has entries left, one of them is the next.                  *)
(***************************************************************************)
LEMMA EntriesType ==
    ASSUME CheckoutTypeOK, StatusTypeOK, NEW i \in 1..5
    PROVE  Entries(i) \in Nat
<1>1. CASE Kinds[i] \in {"near_rt_ric", "5gc", "gnb"}
  <2>1. configs[Kinds[i]] \in Seq(Config)
    BY <1>1 DEF CheckoutTypeOK, Configurable
  <2>2. Len(configs[Kinds[i]]) \in Nat
    BY <2>1
  <2>3. QED
    BY <1>1, <2>2 DEF Entries
<1>2. CASE Kinds[i] = "ue"
  BY <1>2 DEF Entries, StatusTypeOK
<1>3. CASE Kinds[i] = "zmq_proxy"
  BY <1>3 DEF Entries
<1>4. QED
  BY <1>1, <1>2, <1>3, Lists

LEMMA NextEntryType ==
    ASSUME CheckoutTypeOK, StatusTypeOK, MaxRequests \in Nat,
           NEW j, jobAt[j] \in (1..Len(Kinds)) \X Nat, EntriesLeft(jobAt[j]) # {}
    PROVE  NextEntry(j) \in EntriesLeft(jobAt[j])
<1> DEFINE at == jobAt[j]
           left == EntriesLeft(at)
           Of(i) == \E x \in left : x[1] = i
<1>1. at[1] \in 1..5 /\ at[2] \in Nat /\ at = <<at[1], at[2]>>
  BY Lists
<1>2. \A x \in left : x[1] \in 1..5 /\ x[2] \in 1..MaxRequests + 1 /\ x = <<x[1], x[2]>>
  BY Lists DEF EntriesLeft
<1>3. PICK i \in 1..5 : Of(i) /\ \A k \in 1..5 : k < i => ~Of(k)
  <2>1. Of(1) \/ Of(2) \/ Of(3) \/ Of(4) \/ Of(5)
    <3>1. PICK x \in left : TRUE
      OBVIOUS
    <3>2. x[1] \in 1..5
      BY <1>2
    <3>3. x[1] = 1 \/ x[1] = 2 \/ x[1] = 3 \/ x[1] = 4 \/ x[1] = 5
      BY <3>2
    <3>4. QED
      BY <3>3
  <2> HIDE DEF Of
  <2>2. CASE Of(1)
    BY <2>2
  <2>3. CASE ~Of(1) /\ Of(2)
    BY <2>3
  <2>4. CASE ~Of(1) /\ ~Of(2) /\ Of(3)
    BY <2>4
  <2>5. CASE ~Of(1) /\ ~Of(2) /\ ~Of(3) /\ Of(4)
    BY <2>5
  <2>6. CASE ~Of(1) /\ ~Of(2) /\ ~Of(3) /\ ~Of(4) /\ Of(5)
    BY <2>6
  <2>7. QED
    BY <2>1, <2>2, <2>3, <2>4, <2>5, <2>6
<1>4. PICK x \in left : x[1] = i
  BY <1>3
<1>5. ASSUME NEW y \in left
      PROVE  y[1] >= i
  <2>1. y[1] \in 1..5 /\ Of(y[1])
    BY <1>2
  <2>2. QED
    BY <1>3, <2>1
<1> DEFINE m == IF i = at[1] THEN at[2] + 1 ELSE 1
<1>6. m \in Nat /\ 1 <= m /\ m <= x[2] /\ m <= MaxRequests + 1 /\ i >= at[1]
      /\ (i > at[1] \/ (i = at[1] /\ m > at[2]))
  BY <1>1, <1>2, <1>4 DEF EntriesLeft
<1>7. m <= Entries(i) /\ <<i, m>> \in (1..Len(Kinds)) \X (1..MaxRequests + 1)
  <2>1. x[2] <= Entries(i) /\ x[2] \in Nat /\ Entries(i) \in Nat
    BY <1>2, <1>4, EntriesType DEF EntriesLeft
  <2>2. QED
    BY <1>6, <2>1, Lists
<1>8. <<i, m>> \in left
  BY <1>6, <1>7 DEF EntriesLeft
<1>9. ASSUME NEW y \in left
      PROVE  i < y[1] \/ (i = y[1] /\ m <= y[2])
  <2>1. y[1] \in 1..5 /\ y[2] \in 1..MaxRequests + 1 /\ y[1] >= i
    BY <1>2, <1>5
  <2>2. y[1] > at[1] \/ (y[1] = at[1] /\ y[2] > at[2])
    BY DEF EntriesLeft
  <2>3. CASE y[1] = i
    BY <1>1, <2>1, <2>2, <2>3
  <2>4. CASE y[1] # i
    BY <2>1, <2>4
  <2>5. QED
    BY <2>3, <2>4
<1>10. IsFirst(<<i, m>>, left)
  BY <1>9 DEF IsFirst
<1>11. QED
  BY <1>8, <1>10 DEF NextEntry

-----------------------------------------------------------------------------
(* Types of the status *)

LEMMA ApplyType ==
    ASSUME StatusTypeOK, NEW cs, NEW st \in ComponentState, Apply(cs, st)
    PROVE  /\ componentStates' \in [Components -> ComponentState \cup {"none"}]
           /\ watcherPc' \in [Watchers -> WatcherPc]
           /\ behind' \subseteq Watchers
<1> USE DEF StatusTypeOK, Apply
<1>1. componentStates' \in [Components -> ComponentState \cup {"none"}]
  OBVIOUS
<1>2. watcherPc' \in [Watchers -> WatcherPc]
  BY DEF WatcherPc
<1>3. QED
  BY <1>1, <1>2

(***************************************************************************)
(* A change that gets to the condition is made, or waits in the queue.     *)
(***************************************************************************)
LEMMA PerformType ==
    ASSUME StatusTypeOK, NEW u \in Updates, Perform(u)
    PROVE  /\ componentStates' \in [Components -> ComponentState \cup {"none"}]
           /\ watcherPc' \in [Watchers -> WatcherPc]
           /\ behind' \subseteq Watchers
           /\ waiters' \in Seq(Updates \cup Watchers)
<1>1. u.state \in ComponentState
  BY DEF Updates
<1>2. waiters \in Seq(Updates \cup Watchers) /\ Append(waiters, u) \in Seq(Updates \cup Watchers)
  BY AppendProperties DEF StatusTypeOK
<1>3. CASE LockAvailable
  BY <1>1, <1>2, <1>3, ApplyType DEF Perform
<1>4. CASE ~LockAvailable
  BY <1>2, <1>4 DEF Perform, StatusTypeOK
<1>5. QED
  BY <1>3, <1>4

\* What the event loop makes of a change that a thread has scheduled.
Expanded(u) == IF u.components = AllUEs THEN Update(ues, u.state) ELSE u

LEMMA ExpandedType ==
    ASSUME StatusTypeOK, NEW u \in Updates
    PROVE  /\ Expanded(u) \in Updates /\ Expanded(u).components \in Seq(Components)
           /\ Expanded(u).state = u.state
<1>1. u.components \in Seq(Components) \cup {AllUEs} /\ u.state \in ComponentState
  BY DEF Updates
<1>2. ues \in Seq(Components)
  BY DEF StatusTypeOK
<1>3. QED
  BY <1>1, <1>2, UpdateType DEF Expanded

LEMMA LoopType ==
    ASSUME StatusTypeOK, EventLoop
    PROVE  StatusTypeOK'
<1>1. CASE LoopRuns
  <2> DEFINE u == Head(ready)
  <2>1. u \in Updates /\ Tail(ready) \in Seq(Updates)
    BY <1>1, HeadTailProperties DEF LoopRuns, StatusTypeOK
  <2>2. Perform(Expanded(u)) /\ ready' = Tail(ready) /\ UNCHANGED <<ues, holder, slow>>
    BY <1>1 DEF LoopRuns, Expanded
  <2>3. Expanded(u) \in Updates
    BY <2>1, ExpandedType
  <2>4. QED
    BY <2>1, <2>2, <2>3, PerformType DEF StatusTypeOK
<1>2. CASE WaiterUpdates
  <2> DEFINE u == Head(waiters)
             rest == Tail(waiters)
  <2>1. /\ waiters \in Seq(Updates \cup Watchers) /\ waiters # <<>>
        /\ u \in Updates /\ rest \in Seq(Updates \cup Watchers)
    BY <1>2, HeadTailProperties DEF WaiterUpdates, StatusTypeOK
  <2>2. u.state \in ComponentState /\ u.components \in Seq(Components) \cup {AllUEs}
    BY <2>1 DEF Updates
  <2>3. UNCHANGED <<ues, ready, holder, slow>>
    BY <1>2 DEF WaiterUpdates
  <2>4. CASE rest = <<>> \/ Len(u.components) <= 1
    <3>1. Apply(u.components, u.state) /\ waiters' = rest
      BY <1>2, <2>4 DEF WaiterUpdates
    <3>2. QED
      BY <2>1, <2>2, <2>3, <3>1, ApplyType DEF StatusTypeOK
  <2>5. CASE ~(rest = <<>> \/ Len(u.components) <= 1)
    <3> DEFINE v == [u EXCEPT !.components = Tail(@)]
    <3>1. Apply(<<Head(u.components)>>, u.state) /\ waiters' = Append(rest, v)
      BY <1>2, <2>5 DEF WaiterUpdates
    <3>2. u.components \in Seq(Components) /\ u.components # <<>>
      <4>1. Len(AllUEs) = 1 /\ Len(<<>>) = 0
        BY DEF AllUEs
      <4>2. ~(Len(u.components) <= 1)
        BY <2>5
      <4>3. ASSUME NEW s, ~(Len(s) <= 1)
            PROVE  s # AllUEs /\ s # <<>>
        <5>1. s # AllUEs
          <6> SUFFICES ASSUME s = AllUEs
                       PROVE  FALSE
            OBVIOUS
          <6>1. Len(s) = 1
            BY <4>1
          <6>2. Len(s) <= 1
            BY ONLY <6>1
          <6>3. QED
            BY <4>3, <6>2
        <5>2. CASE s = <<>>
          BY <4>1, <4>3, <5>2
        <5>3. QED
          BY <5>1, <5>2
      <4>4. QED
        BY <2>2, <4>2, <4>3
    <3>3. Tail(u.components) \in Seq(Components)
      BY <3>2, HeadTailProperties
    <3>4. v \in Updates
      BY <2>1, <3>3 DEF Updates
    <3>5. waiters' \in Seq(Updates \cup Watchers)
      BY <2>1, <3>1, <3>4, AppendProperties
    <3>6. QED
      BY <2>2, <2>3, <3>1, <3>5, ApplyType DEF StatusTypeOK
  <2>6. QED
    BY <2>4, <2>5
<1>3. ASSUME NEW w \in Watchers, Watch(w)
      PROVE  StatusTypeOK'
  <2>1. /\ waiters \in Seq(Updates \cup Watchers)
        /\ Append(waiters, w) \in Seq(Updates \cup Watchers)
        /\ waiters # <<>> => /\ Tail(waiters) \in Seq(Updates \cup Watchers)
                             /\ Append(Tail(waiters), w) \in Seq(Updates \cup Watchers)
    BY AppendProperties, HeadTailProperties DEF StatusTypeOK
  <2>2. ASSUME NEW others, others \in Seq(Updates \cup Watchers), Push(w, others),
               Append(others, w) \in Seq(Updates \cup Watchers)
        PROVE  /\ watcherPc' \in [Watchers -> WatcherPc] /\ behind' \subseteq Watchers
               /\ waiters' \in Seq(Updates \cup Watchers)
               /\ holder' \in Watchers \cup {NoWatcher} /\ slow' \in BOOLEAN
    <3>1. CASE /\ watcherPc' = [watcherPc EXCEPT ![w] = IF others = <<>> THEN "waiting"
                                                                         ELSE "looping"]
               /\ waiters' = IF others = <<>> THEN others ELSE Append(others, w)
               /\ UNCHANGED <<holder, slow>>
      BY <2>2, <3>1 DEF Push, StatusTypeOK, WatcherPc
    <3>2. CASE /\ watcherPc' = [watcherPc EXCEPT ![w] = "sending"]
               /\ waiters' = others
               /\ holder' = w
               /\ slow' = TRUE
      BY <2>2, <3>2 DEF Push, StatusTypeOK, WatcherPc
    <3>3. QED
      BY <2>2, <3>1, <3>2 DEF Push
  <2>3. CASE WatcherWakes(w) /\ LockAvailable
    BY <2>1, <2>2, <2>3 DEF WatcherWakes, StatusTypeOK
  <2>4. CASE WatcherWakes(w) /\ ~LockAvailable
    BY <2>1, <2>4 DEF WatcherWakes, StatusTypeOK
  <2>5. CASE WaiterWatches(w) /\ watcherPc[w] = "notified"
    BY <2>1, <2>2, <2>5 DEF WaiterWatches, StatusTypeOK
  <2>6. CASE WaiterWatches(w) /\ watcherPc[w] # "notified"
    BY <2>1, <2>6 DEF WaiterWatches, StatusTypeOK, WatcherPc
  <2>7. QED
    BY <1>3, <2>3, <2>4, <2>5, <2>6 DEF Watch
<1>4. QED
  BY <1>1, <1>2, <1>3 DEF EventLoop

LEMMA ClientsType ==
    ASSUME StatusTypeOK, Clients
    PROVE  StatusTypeOK'
<1> SUFFICES ASSUME NEW w \in Watchers, Register(w) \/ Sent(w) \/ Leave(w)
             PROVE  StatusTypeOK'
  BY DEF Clients
<1>1. waiters \in Seq(Updates \cup Watchers) /\ Append(waiters, w) \in Seq(Updates \cup Watchers)
  BY AppendProperties DEF StatusTypeOK
<1>2. CASE Register(w)
  BY <1>1, <1>2 DEF Register, StatusTypeOK, WatcherPc
<1>3. CASE Sent(w)
  BY <1>1, <1>3 DEF Sent, StatusTypeOK, WatcherPc
<1>4. CASE Leave(w)
  <2>1. waiters' \in Seq(Updates \cup Watchers)
    <3>1. CASE UNCHANGED waiters
      BY <1>1, <3>1
    <3>2. ASSUME NEW n \in DOMAIN waiters,
                 waiters' = SubSeq(waiters, 1, n - 1) \o SubSeq(waiters, n + 1, Len(waiters))
          PROVE  waiters' \in Seq(Updates \cup Watchers)
      <4>1. n \in 1..Len(waiters) /\ Len(waiters) \in Nat
        BY <1>1
      <4>2. /\ SubSeq(waiters, 1, n - 1) \in Seq(Updates \cup Watchers)
            /\ SubSeq(waiters, n + 1, Len(waiters)) \in Seq(Updates \cup Watchers)
        BY <1>1, <4>1, SubSeqProperties
      <4>3. QED
        BY <3>2, <4>2, ConcatProperties
    <3>3. QED
      BY <1>4, <3>1, <3>2 DEF Leave
  <2>2. QED
    BY <1>4, <2>1 DEF Leave, StatusTypeOK, WatcherPc
<1>5. QED
  BY <1>2, <1>3, <1>4

-----------------------------------------------------------------------------
(* Types and the places of jobs *)

LEMMA Names ==
    /\ {"near_rt_ric", "5gc", "gnb", "zmq_proxy"} \subseteq Components
    /\ UEs \subseteq Components /\ Seq(UEs) \subseteq Seq(Components)
    /\ \A k \in Configurable : Configs[k] \subseteq Config
    /\ "ue" \notin Components
    /\ \A c \in Components : c \in UEs \/ c \in {"near_rt_ric", "5gc", "gnb", "zmq_proxy"}
<1>1. UEs \subseteq Components /\ Seq(UEs) \subseteq Seq(Components)
  BY RequestsAssumption
<1>2. QED
  BY <1>1, RequestsAssumption, StatusAssumption

(***************************************************************************)
(* A handler that announces u.                                             *)
(***************************************************************************)
LEMMA HandleType ==
    ASSUME StatusTypeOK, NEW u \in Updates, Handle(u), ues' \in Seq(Components)
    PROVE  StatusTypeOK'
BY PerformType DEF Handle, StatusTypeOK

LEMMA ConfigureType ==
    ASSUME CheckoutTypeOK, NEW k \in Configurable, NEW config \in Config,
           Configure(k, config), UNCHANGED folders
    PROVE  CheckoutTypeOK'
<1>1. configs[k] \in Seq(Config) /\ config.folder \in Folders
  BY DEF CheckoutTypeOK, Config
<1>2. Append(configs[k], config) \in Seq(Config)
  BY <1>1, AppendProperties
<1>3. configs' \in [Configurable -> Seq(Config)]
  BY <1>2 DEF CheckoutTypeOK, Configure
<1>4. selected' \in [Configurable -> Folders \cup {"none"}]
  BY <1>1 DEF CheckoutTypeOK, Configure
<1>5. QED
  BY <1>3, <1>4 DEF CheckoutTypeOK

LEMMA InstallType ==
    ASSUME TypeOK, NEW us \in UELists, NEW config \in Configs["ue"],
           InstallList(us, config)
    PROVE  /\ CheckoutTypeOK' /\ ues' \in Seq(UEs)
           /\ ueListed' \in BOOLEAN /\ requests' \in 0..MaxRequests
           /\ \A j \in Jobs : jobPc'[j] \in {"none", "ended"}
           /\ UNCHANGED jobVars
<1>1. config \in Config /\ config.folder \in Folders /\ us \in Seq(UEs)
  BY Names, RequestsAssumption DEF Configurable, Config
<1>2. [n \in DOMAIN us |-> config] \in Seq(Config)
  <2>1. Len(us) \in Nat /\ DOMAIN us = 1..Len(us)
    BY <1>1
  <2>2. QED
    BY <1>1, <2>1
<1>3. configs' \in [Configurable -> Seq(Config)]
  BY <1>2 DEF TypeOK, CheckoutTypeOK, InstallList
<1>4. selected' \in [Configurable -> Folders \cup {"none"}]
  BY <1>1 DEF TypeOK, CheckoutTypeOK, InstallList
<1>5. requests' \in 0..MaxRequests
  BY RequestsAssumption DEF TypeOK, InstallList, Request
<1>6. QED
  BY <1>1, <1>3, <1>4, <1>5 DEF TypeOK, CheckoutTypeOK, InstallList, jobVars

\* What the handlers of Setup announce.
News ==
    {ChangeErrors} \cup {Update(cs, "configured") : cs \in Seq(UEs)}
                   \cup {Update(<<c>>, "configured") : c \in Components}

LEMMA NewsType ==
    /\ News \subseteq Updates
    /\ \A c \in Components : Update(<<c>>, "configured") \in News
    /\ \A cs \in Seq(UEs) : Update(cs, "configured") \in News
<1>1. "configured" \in ComponentState
  BY DEF ComponentState
<1>2. \A cs \in Seq(Components) : Update(cs, "configured") \in Updates
  BY <1>1, UpdateType
<1>3. \A c \in Components : Update(<<c>>, "configured") \in Updates
  BY <1>2, OneComponent
<1>4. \A cs \in Seq(UEs) : Update(cs, "configured") \in Updates
  BY <1>2, Names
<1>5. ChangeErrors \in Updates
  BY ErrorsType
<1>6. QED
  BY <1>3, <1>4, <1>5 DEF News

(***************************************************************************)
(* What a request sets: no job is moved, and a list of UEs that a job goes *)
(* through only grows.                                                     *)
(***************************************************************************)
SetRight ==
    /\ CheckoutTypeOK' /\ ues' \in Seq(UEs) /\ ueListed' \in BOOLEAN
    /\ queues' \subseteq Components /\ requests' \in 0..MaxRequests
    /\ UNCHANGED jobVars

ListKept ==
    \/ \A j \in Jobs : jobPc[j] \in {"none", "ended"}
    \/ \A n \in DOMAIN ues : n \in DOMAIN ues' /\ ues'[n] = ues[n]

Announced ==
    \/ \E u \in News : Handle(u)
    \/ UNCHANGED <<componentStates, ready, waiters, behind, holder, watcherPc, slow>>

LEMMA SetupEffect ==
    ASSUME TypeOK, JobInv, Setup
    PROVE  SetRight /\ ListKept /\ Announced
<1>1. /\ CheckoutTypeOK /\ ues \in Seq(UEs) /\ ueListed \in BOOLEAN
      /\ queues \subseteq Components /\ requests \in 0..MaxRequests
  BY DEF TypeOK, JobInv
<1>2. ASSUME Request
      PROVE  requests' \in 0..MaxRequests
  BY <1>1, <1>2, RequestsAssumption DEF Request
<1>3. ASSUME NEW k \in {"near_rt_ric", "5gc", "gnb"}, NEW config \in Configs[k],
             SetConfig(k, config)
      PROVE  SetRight /\ ListKept /\ Announced
  <2>1. k \in Components /\ k \in Configurable /\ config \in Config
    BY Names DEF Configurable
  <2>2. CheckoutTypeOK'
    BY <1>1, <1>3, <2>1, ConfigureType DEF SetConfig
  <2>3. Announced
    BY <1>3, <2>1, NewsType DEF SetConfig, Announced
  <2>4. QED
    BY <1>1, <1>2, <1>3, <2>1, <2>2, <2>3 DEF SetConfig, SetRight, ListKept
<1>4. ASSUME NEW us \in UELists, NEW config \in Configs["ue"], InstallList(us, config),
             queues' \subseteq Components
      PROVE  SetRight /\ ListKept
  <2>1. \A j \in Jobs : jobPc[j] \in {"none", "ended"}
    BY <1>4 DEF InstallList
  <2>2. QED
    BY <1>4, <2>1, InstallType DEF SetRight, ListKept
<1>5. ASSUME NEW us \in UELists, NEW config \in Configs["ue"], SetUEList(us, config)
      PROVE  SetRight /\ ListKept /\ Announced
  <2>1. us \in Seq(UEs) /\ Elements(us) \subseteq Components
    BY Names, RequestsAssumption, ElementsOf
  <2>2. Announced
    <3>1. CASE us = <<>>
      BY <1>5, <3>1 DEF SetUEList, Announced, watchVars
    <3>2. CASE us # <<>>
      BY <1>5, <2>1, <3>2, NewsType DEF SetUEList, Announced
    <3>3. QED
      BY <3>1, <3>2
  <2>3. QED
    BY <1>1, <1>4, <1>5, <2>1, <2>2 DEF SetUEList
<1>6. ASSUME NEW us \in UELists, NEW config \in Configs["ue"], RejectUEList(us, config)
      PROVE  SetRight /\ ListKept /\ Announced
  BY <1>1, <1>4, <1>6 DEF RejectUEList, Announced, News
<1>7. ASSUME NEW u \in UEs, NEW config \in Configs["ue"], AddUE(u, config)
      PROVE  SetRight /\ ListKept /\ Announced
  <2>1. u \in Components /\ "ue" \in Configurable /\ config \in Config
    BY Names DEF Configurable
  <2>2. CheckoutTypeOK'
    BY <1>1, <1>7, <2>1, ConfigureType DEF AddUE
  <2>3. /\ ues' \in Seq(UEs) /\ DOMAIN ues = 1..Len(ues) /\ DOMAIN ues' = 1..Len(ues) + 1
        /\ Len(ues) \in Nat /\ \A n \in 1..Len(ues) : ues'[n] = ues[n]
    BY <1>1, <1>7, AppendProperties DEF AddUE
  <2>4. ListKept
    BY <2>3 DEF ListKept
  <2>5. Announced
    BY <1>7, <2>1, NewsType DEF AddUE, Announced
  <2>6. QED
    BY <1>1, <1>2, <1>7, <2>1, <2>2, <2>3, <2>4, <2>5 DEF AddUE, SetRight
<1>8. CASE SetProxy
  <2>1. "zmq_proxy" \in Components
    BY Names
  <2>2. Announced
    BY <1>8, <2>1, NewsType DEF SetProxy, Announced
  <2>3. QED
    BY <1>1, <1>2, <1>8, <2>1, <2>2
    DEF SetProxy, SetRight, ListKept, checkoutVars, CheckoutTypeOK
<1>9. CASE RejectOrClear
  BY <1>1, <1>2, <1>9
  DEF RejectOrClear, SetRight, ListKept, Announced, News, checkoutVars, CheckoutTypeOK
<1>10. QED
  BY <1>3, <1>5, <1>6, <1>7, <1>8, <1>9 DEF Setup

LEMMA SetupStep ==
    ASSUME TypeOK, JobInv, Setup
    PROVE  TypeOK' /\ JobInv'
<1>1. SetRight /\ ListKept /\ Announced
  BY SetupEffect
<1>2. ues' \in Seq(Components)
  BY <1>1, Names DEF SetRight
<1>3. StatusTypeOK'
  <2>1. CASE \E u \in News : Handle(u)
    BY <1>2, <2>1, NewsType, HandleType DEF TypeOK
  <2>2. CASE UNCHANGED <<componentStates, ready, waiters, behind, holder, watcherPc, slow>>
    BY <1>2, <2>2 DEF TypeOK, StatusTypeOK
  <2>3. QED
    BY <1>1, <2>1, <2>2 DEF Announced
<1>4. TypeOK'
  BY <1>1, <1>3 DEF SetRight, TypeOK, jobVars
<1>5. JobInv'
  BY <1>1 DEF SetRight, ListKept, JobInv, jobVars, Jobs
<1>6. QED
  BY <1>4, <1>5

LEMMA ScheduleType ==
    ASSUME StatusTypeOK, NEW us \in Seq(Updates), Schedule(us), UNCHANGED loopVars
    PROVE  StatusTypeOK'
<1>1. ready \o us \in Seq(Updates)
  BY ConcatProperties DEF StatusTypeOK
<1>2. QED
  BY <1>1 DEF StatusTypeOK, Schedule, loopVars, watchVars

\* The lists of changes that jobs schedule.
LEMMA ShortLists ==
    /\ <<>> \in Seq(Updates)
    /\ \A a \in Updates : <<a>> \in Seq(Updates)
    /\ \A a \in Updates, b \in Updates : <<a, b>> \in Seq(Updates)
OBVIOUS

\* What an entry of a list is about.
LEMMA TargetType ==
    ASSUME TypeOK, JobInv, NEW at \in (1..Len(Kinds)) \X Nat,
           Kinds[at[1]] = "ue" => at[2] \in DOMAIN ues
    PROVE  TargetAt(at) \in Components
<1>1. CASE Kinds[at[1]] = "ue"
  <2>1. ues[at[2]] \in UEs
    BY <1>1 DEF JobInv
  <2>2. QED
    BY <1>1, <2>1, Names DEF TargetAt
<1>2. CASE Kinds[at[1]] # "ue"
  <2>1. at[1] \in {1, 2, 3, 5}
    BY <1>2, Lists
  <2>2. QED
    BY <1>2, <2>1, Lists, Names DEF TargetAt
<1>3. QED
  BY <1>1, <1>2

LEMMA NextTarget ==
    ASSUME TypeOK, JobInv, NEW j \in Jobs, EntriesLeft(jobAt[j]) # {}
    PROVE  /\ NextEntry(j) \in (1..Len(Kinds)) \X Nat
           /\ Kinds[NextEntry(j)[1]] = "ue" => NextEntry(j)[2] \in DOMAIN ues
           /\ TargetAt(NextEntry(j)) \in Components
<1> DEFINE at == NextEntry(j)
<1>1. at \in EntriesLeft(jobAt[j])
  BY NextEntryType, RequestsAssumption DEF TypeOK
<1>2. at \in (1..Len(Kinds)) \X (1..MaxRequests + 1) /\ at[2] <= Entries(at[1])
  BY <1>1 DEF EntriesLeft
<1>3. 1..MaxRequests + 1 \subseteq Nat
  BY RequestsAssumption
<1>4. at \in (1..Len(Kinds)) \X Nat
  BY <1>2, <1>3
<1>5. ASSUME Kinds[at[1]] = "ue"
      PROVE  at[2] \in DOMAIN ues
  <2>1. at[2] <= Len(ues) /\ at[2] \in 1..MaxRequests + 1
    BY <1>2, <1>5 DEF Entries
  <2>2. DOMAIN ues = 1..Len(ues) /\ Len(ues) \in Nat
    BY DEF JobInv
  <2>3. QED
    BY <2>1, <2>2
<1>6. QED
  BY <1>4, <1>5, TargetType

\* One that is being cloned.
LEMMA CloneTarget ==
    ASSUME TypeOK, JobInv, NEW j \in Checkouts, jobPc[j] \in {"clone", "cloning"}
    PROVE  TargetAt(jobAt[j]) \in Components /\ jobConfig[j] \in Config
<1>1. jobAt[j] \in (1..Len(Kinds)) \X Nat
  BY DEF TypeOK, Jobs
<1>2. Kinds[jobAt[j][1]] = "ue" => jobAt[j][2] \in DOMAIN ues
  BY DEF JobInv
<1>3. QED
  BY <1>1, <1>2, TargetType DEF JobInv

\* The states that jobs report are states.
LEMMA Reports ==
    \A cs \in Seq(Components) \cup {AllUEs},
       st \in {"checking_out", "checked_out", "building", "built", "failed"} :
          Update(cs, st) \in Updates
BY UpdateType DEF ComponentState

LEMMA ReportsOfOne ==
    \A c \in Components, st \in {"checking_out", "checked_out", "building", "built", "failed"} :
          Update(<<c>>, st) \in Updates
BY Reports, OneComponent

LEMMA MoreResults ==
    ASSUME TypeOK
    PROVE  \A c \in Components, r \in Result : results \cup {<<c, r>>} \subseteq Components \X Result
BY DEF TypeOK

(***************************************************************************)
(* A step of job j leaves the other jobs where they are.                   *)
(***************************************************************************)
OthersStay(j) ==
    \A i \in Jobs : i # j =>
        jobPc'[i] = jobPc[i] /\ jobAt'[i] = jobAt[i] /\ jobConfig'[i] = jobConfig[i]

LEMMA CheckoutStays ==
    ASSUME TypeOK, JobInv, NEW j \in Checkouts, OthersStay(j), UNCHANGED ues,
           jobPc'[j] \in {"none", "next", "clone", "cloning", "ended"},
           jobPc'[j] \in {"clone", "cloning"} =>
              /\ jobConfig'[j] \in Config
              /\ Kinds[jobAt'[j][1]] = "ue" => jobAt'[j][2] \in DOMAIN ues
    PROVE  JobInv'
<1>1. j \in Jobs /\ j \notin Builds /\ Checkouts \subseteq Jobs /\ Builds \subseteq Jobs
  BY RequestsAssumption DEF Jobs
<1>2. ASSUME NEW i \in Builds
      PROVE  /\ jobPc'[i] \in {"none", "patch", "building", "ended"}
             /\ jobPc'[i] = "building" => jobAt'[i][1] \in DOMAIN Stages
  BY <1>1 DEF OthersStay, JobInv
<1>3. ASSUME NEW i \in Checkouts
      PROVE  /\ jobPc'[i] \in {"none", "next", "clone", "cloning", "ended"}
             /\ jobPc'[i] \in {"clone", "cloning"} =>
                   /\ jobConfig'[i] \in Config
                   /\ Kinds[jobAt'[i][1]] = "ue" => jobAt'[i][2] \in DOMAIN ues'
  BY <1>1 DEF OthersStay, JobInv
<1>4. ues' \in Seq(UEs)
  BY DEF JobInv
<1>5. QED
  BY <1>2, <1>3, <1>4 DEF JobInv

LEMMA BuildStays ==
    ASSUME TypeOK, JobInv, NEW j \in Builds, OthersStay(j), UNCHANGED ues,
           jobPc'[j] \in {"none", "patch", "building", "ended"},
           jobPc'[j] = "building" => jobAt'[j][1] \in DOMAIN Stages
    PROVE  JobInv'
<1>1. j \in Jobs /\ j \notin Checkouts /\ Checkouts \subseteq Jobs /\ Builds \subseteq Jobs
  BY RequestsAssumption DEF Jobs
<1>2. ASSUME NEW i \in Builds
      PROVE  /\ jobPc'[i] \in {"none", "patch", "building", "ended"}
             /\ jobPc'[i] = "building" => jobAt'[i][1] \in DOMAIN Stages
  BY <1>1 DEF OthersStay, JobInv
<1>3. ASSUME NEW i \in Checkouts
      PROVE  /\ jobPc'[i] \in {"none", "next", "clone", "cloning", "ended"}
             /\ jobPc'[i] \in {"clone", "cloning"} =>
                   /\ jobConfig'[i] \in Config
                   /\ Kinds[jobAt'[i][1]] = "ue" => jobAt'[i][2] \in DOMAIN ues'
  BY <1>1 DEF OthersStay, JobInv
<1>4. ues' \in Seq(UEs)
  BY DEF JobInv
<1>5. QED
  BY <1>2, <1>3, <1>4 DEF JobInv

LEMMA ReportEffect ==
    ASSUME TypeOK, JobInv, NEW j \in Checkouts, jobPc[j] \in {"clone", "cloning"},
           NEW ok \in BOOLEAN, Report(j, ok), UNCHANGED loopVars
    PROVE  /\ StatusTypeOK' /\ results' \subseteq Components \X Result
           /\ jobPc' \in [Jobs -> JobPc] /\ jobPc' = [jobPc EXCEPT ![j] = "next"]
           /\ jobConfig' \in [Jobs -> Config \cup {Nothing}]
           /\ jobConfig' = [jobConfig EXCEPT ![j] = Nothing]
<1> DEFINE c == TargetAt(jobAt[j])
           a == IF ok THEN Update(<<c>>, "checked_out") ELSE ChangeErrors
<1>1. c \in Components
  BY CloneTarget
<1>2. a \in Updates
  BY <1>1, ReportsOfOne, ErrorsType
<1>3. StatusTypeOK'
  <2>1. <<a>> \in Seq(Updates) /\ Schedule(<<a>>)
    BY <1>2, ShortLists DEF Report
  <2> HIDE DEF a
  <2>2. QED
    BY <2>1, ScheduleType DEF TypeOK
<1>4. results' \subseteq Components \X Result
  <2>1. (IF ok THEN "cloned" ELSE "not cloned") \in Result
    BY DEF Result
  <2>2. QED
    BY <1>1, <2>1, MoreResults DEF Report
<1>5. QED
  BY <1>3, <1>4 DEF Report, TypeOK, JobPc

LEMMA CheckoutStep ==
    ASSUME TypeOK, JobInv, NEW j \in Checkouts, AcceptCheckout(j) \/ CheckoutJob(j)
    PROVE  TypeOK' /\ JobInv'
<1>1. j \in Jobs /\ j \notin Builds /\ StatusTypeOK /\ CheckoutTypeOK
  BY RequestsAssumption DEF Jobs, TypeOK
<1>2. CASE AcceptCheckout(j)
  <2>1. TypeOK'
    BY <1>2 DEF AcceptCheckout, TypeOK, checkoutVars, CheckoutTypeOK, statusVars, watchVars,
          StatusTypeOK, setupVars, JobPc
  <2>2. OthersStay(j) /\ jobPc'[j] = "next" /\ UNCHANGED ues
    BY <1>1, <1>2 DEF AcceptCheckout, TypeOK, OthersStay, statusVars
  <2>3. JobInv'
    BY <2>2, CheckoutStays
  <2>4. QED
    BY <2>1, <2>3
<1>3. CASE FindFolder(j)
  <2> DEFINE at == NextEntry(j)
             c == TargetAt(at)
             us == <<Update(<<c>>, "checking_out"), Update(<<c>>, "checked_out")>>
  <2>1. /\ UNCHANGED <<checkoutVars, loopVars, setupVars, jobPc, jobConfig, jobTarget>>
        /\ jobAt' = [jobAt EXCEPT ![j] = at] /\ Schedule(us)
        /\ results' = results \cup {<<c, "found">>} /\ jobPc[j] = "next"
        /\ EntriesLeft(jobAt[j]) # {}
    BY <1>3 DEF FindFolder
  <2>2. at \in (1..Len(Kinds)) \X Nat /\ c \in Components
    BY <1>1, <2>1, NextTarget
  <2>3. us \in Seq(Updates)
    BY <2>2, ReportsOfOne, ShortLists
  <2> HIDE DEF us
  <2>4. StatusTypeOK'
    BY <1>1, <2>1, <2>3, ScheduleType
  <2> HIDE DEF c, at
  <2>5. results' \subseteq Components \X Result
    <3>1. "found" \in Result
      BY DEF Result
    <3>2. QED
      BY <2>1, <2>2, <3>1, MoreResults
  <2>6. TypeOK'
    BY <2>1, <2>2, <2>4, <2>5 DEF TypeOK, checkoutVars, CheckoutTypeOK, setupVars
  <2>7. OthersStay(j) /\ jobPc'[j] = "next" /\ UNCHANGED ues
    BY <1>1, <2>1 DEF TypeOK, OthersStay, loopVars
  <2>8. JobInv'
    BY <2>7, CheckoutStays
  <2>9. QED
    BY <2>6, <2>8
<1>4. CASE FindNoFolder(j)
  <2> DEFINE at == NextEntry(j)
             c == TargetAt(at)
             config == Used(Kinds[at[1]])
             us == <<Update(<<c>>, "checking_out")>>
  <2>1. /\ UNCHANGED <<checkoutVars, loopVars, setupVars, jobTarget, results>>
        /\ jobAt' = [jobAt EXCEPT ![j] = at] /\ Schedule(us)
        /\ jobConfig' = [jobConfig EXCEPT ![j] = config]
        /\ jobPc' = [jobPc EXCEPT ![j] = "clone"]
        /\ EntriesLeft(jobAt[j]) # {} /\ ~NothingToClone(config)
    BY <1>4 DEF FindNoFolder
  <2>2. /\ at \in (1..Len(Kinds)) \X Nat /\ c \in Components
        /\ Kinds[at[1]] = "ue" => at[2] \in DOMAIN ues
    BY <1>1, <2>1, NextTarget
  <2>3. us \in Seq(Updates)
    BY <2>2, ReportsOfOne, ShortLists
  <2>4. config \in Config
    BY <1>1, <2>1, UsedType DEF NothingToClone
  <2> HIDE DEF us
  <2>5. StatusTypeOK'
    BY <1>1, <2>1, <2>3, ScheduleType
  <2> HIDE DEF c, config, at
  <2>6. TypeOK'
    BY <2>1, <2>2, <2>4, <2>5 DEF TypeOK, checkoutVars, CheckoutTypeOK, setupVars, JobPc
  <2>7. /\ OthersStay(j) /\ jobPc'[j] = "clone" /\ UNCHANGED ues
        /\ jobAt'[j] = at /\ jobConfig'[j] = config
    BY <1>1, <2>1 DEF TypeOK, OthersStay, loopVars
  <2>8. JobInv'
    BY <2>2, <2>4, <2>7, CheckoutStays
  <2>9. QED
    BY <2>6, <2>8
<1>5. CASE BeginClone(j)
  <2>1. folders' \in [Folders -> Content]
    BY <1>1, <1>5 DEF BeginClone, BeginsToClone, CheckoutTypeOK, Content
  <2>2. TypeOK'
    BY <1>5, <2>1 DEF BeginClone, TypeOK, CheckoutTypeOK, statusVars, watchVars,
          StatusTypeOK, setupVars, JobPc
  <2>3. /\ OthersStay(j) /\ jobPc'[j] = "cloning" /\ UNCHANGED ues /\ jobPc[j] = "clone"
        /\ jobAt'[j] = jobAt[j] /\ jobConfig'[j] = jobConfig[j]
    BY <1>1, <1>5 DEF BeginClone, TypeOK, OthersStay, statusVars
  <2>4. JobInv'
    BY <2>3, CheckoutStays DEF JobInv
  <2>5. QED
    BY <2>2, <2>4
<1>6. ASSUME NEW ok \in BOOLEAN, Report(j, ok), jobPc[j] \in {"clone", "cloning"},
             CheckoutTypeOK', UNCHANGED <<loopVars, setupVars, jobAt, jobTarget>>
      PROVE  TypeOK' /\ JobInv'
  <2>1. /\ StatusTypeOK' /\ results' \subseteq Components \X Result
        /\ jobPc' \in [Jobs -> JobPc] /\ jobPc' = [jobPc EXCEPT ![j] = "next"]
        /\ jobConfig' \in [Jobs -> Config \cup {Nothing}]
        /\ jobConfig' = [jobConfig EXCEPT ![j] = Nothing]
    BY <1>6, ReportEffect
  <2>2. TypeOK'
    BY <1>6, <2>1 DEF TypeOK, setupVars
  <2>3. OthersStay(j) /\ jobPc'[j] = "next" /\ UNCHANGED ues
    BY <1>1, <1>6, <2>1 DEF TypeOK, OthersStay, loopVars
  <2>4. JobInv'
    BY <2>3, CheckoutStays
  <2>5. QED
    BY <2>2, <2>4
<1>7. CASE CloneCollides(j)
  BY <1>1, <1>6, <1>7 DEF CloneCollides, checkoutVars, CheckoutTypeOK
<1>8. CASE EndClone(j)
  <2>1. jobConfig[j] \in Config /\ jobPc[j] = "cloning"
    BY <1>8, CloneTarget DEF EndClone
  <2>2. PICK r \in CloneResults(jobConfig[j]) :
              /\ folders' = [folders EXCEPT ![jobConfig[j].folder] = r.content]
              /\ Report(j, r.ok)
    BY <1>8 DEF EndClone
  <2>3. r.content \in Content /\ r.ok \in BOOLEAN
    <3>1. jobConfig[j].commit \in Content /\ {"absent", "latest"} \subseteq Content
      BY <2>1 DEF Config, Content
    <3>2. \/ r = [content |-> jobConfig[j].commit, ok |-> TRUE]
          \/ r = [content |-> "absent", ok |-> FALSE]
          \/ r = [content |-> "latest", ok |-> FALSE]
      BY <2>2 DEF CloneResults
    <3>3. r.content \in {jobConfig[j].commit, "absent", "latest"} /\ r.ok \in BOOLEAN
      <4>1. CASE r = [content |-> jobConfig[j].commit, ok |-> TRUE]
        BY <4>1
      <4>2. CASE r = [content |-> "absent", ok |-> FALSE]
        BY <4>2
      <4>3. CASE r = [content |-> "latest", ok |-> FALSE]
        BY <4>3
      <4>4. QED
        BY <3>2, <4>1, <4>2, <4>3
    <3>4. QED
      BY <3>1, <3>3
  <2>4. CheckoutTypeOK'
    BY <1>1, <1>8, <2>2, <2>3 DEF EndClone, CheckoutTypeOK
  <2>5. QED
    BY <1>6, <1>8, <2>1, <2>2, <2>3, <2>4 DEF EndClone
<1>9. CASE EndCheckout(j)
  <2>1. <<1, 0>> \in (1..Len(Kinds)) \X Nat
    BY Lists
  <2>2. TypeOK'
    BY <1>9, <2>1 DEF EndCheckout, TypeOK, checkoutVars, CheckoutTypeOK, statusVars, watchVars,
          StatusTypeOK, setupVars, JobPc
  <2>3. OthersStay(j) /\ jobPc'[j] = "ended" /\ UNCHANGED ues
    BY <1>1, <1>9 DEF EndCheckout, TypeOK, OthersStay, statusVars
  <2>4. JobInv'
    BY <2>3, CheckoutStays
  <2>5. QED
    BY <2>2, <2>4
<1>10. QED
  BY <1>2, <1>3, <1>4, <1>5, <1>7, <1>8, <1>9 DEF CheckoutJob

\* What a stage reports on, and what it builds.
LEMMA StageTypes ==
    ASSUME JobInv, NEW n \in 1..4
    PROVE  /\ OfStage(n) \in Seq(Components) \cup {AllUEs}
           /\ Stages[n] = "ue" <=> n = 4
           /\ n # 4 => Stages[n] \in Components /\ Affected(n) = {Stages[n]}
           /\ n = 4 => OfStage(n) = AllUEs /\ Affected(n) = Elements(ues)
           /\ Affected(n) \subseteq Components
<1>1. Stages[n] = "ue" <=> n = 4
  BY Lists
<1>2. n # 4 => Stages[n] \in Components
  BY Lists, Names
<1>3. Elements(ues) \subseteq Components
  BY Names, ElementsOf DEF JobInv
<1>4. n # 4 => OfStage(n) \in Seq(Components)
  BY <1>2, OneComponent DEF OfStage
<1>5. n = 4 => OfStage(n) = AllUEs
  BY <1>1 DEF OfStage, AllUEs
<1>6. QED
  BY <1>1, <1>2, <1>3, <1>4, <1>5 DEF Affected

LEMMA FinishEffect ==
    ASSUME TypeOK, JobInv, NEW j \in Builds, NEW before \in Seq(Updates), Finish(j, before),
           UNCHANGED <<loopVars, setupVars, jobConfig>>, CheckoutTypeOK',
           results' \subseteq Components \X Result
    PROVE  TypeOK' /\ JobInv' /\ OthersStay(j) /\ jobPc'[j] = "ended"
<1>1. j \in Jobs /\ <<1, 0>> \in (1..Len(Kinds)) \X Nat
  BY Lists DEF Jobs
<1>2. StatusTypeOK'
  BY ScheduleType DEF Finish, TypeOK
<1>3. OthersStay(j) /\ jobPc'[j] = "ended" /\ UNCHANGED ues
  BY <1>1 DEF Finish, TypeOK, OthersStay, loopVars
<1>4. JobInv'
  BY <1>3, BuildStays
<1>5. TypeOK'
  BY <1>1, <1>2 DEF Finish, TypeOK, setupVars, JobPc
<1>6. QED
  BY <1>3, <1>4, <1>5

LEMMA EnterEffect ==
    ASSUME TypeOK, JobInv, NEW j \in Builds, NEW n \in 1..4,
           NEW before \in Seq(Updates), Enter(j, n, before),
           UNCHANGED <<loopVars, setupVars, jobConfig>>, CheckoutTypeOK',
           results' \subseteq Components \X Result
    PROVE  /\ TypeOK' /\ JobInv' /\ OthersStay(j)
           /\ \/ Finish(j, before)
              \/ /\ jobPc'[j] = "building" /\ jobAt'[j] = <<n, 0>>
                 /\ Schedule(before \o <<Update(OfStage(n), "building")>>)
<1>1. CASE ~HasQueues(n)
  BY <1>1, FinishEffect DEF Enter
<1>2. CASE HasQueues(n)
  <2> DEFINE a == Update(OfStage(n), "building")
  <2>1. /\ Schedule(before \o <<a>>)
        /\ jobPc' = [jobPc EXCEPT ![j] = "building"]
        /\ jobAt' = [jobAt EXCEPT ![j] = <<n, 0>>] /\ UNCHANGED jobTarget
    BY <1>2 DEF Enter
  <2>2. a \in Updates
    BY Reports, StageTypes
  <2> HIDE DEF a
  <2>3. before \o <<a>> \in Seq(Updates)
    BY <2>2, ShortLists, ConcatProperties
  <2>4. StatusTypeOK'
    BY <2>1, <2>3, ScheduleType DEF TypeOK
  <2>5. j \in Jobs /\ <<n, 0>> \in (1..Len(Kinds)) \X Nat /\ n \in DOMAIN Stages
    BY Lists DEF Jobs
  <2>6. TypeOK'
    BY <2>1, <2>4, <2>5 DEF TypeOK, setupVars, JobPc
  <2>7. /\ OthersStay(j) /\ jobPc'[j] = "building" /\ jobAt'[j] = <<n, 0>>
        /\ jobAt'[j][1] = n /\ UNCHANGED ues
    BY <2>1, <2>5 DEF TypeOK, OthersStay, loopVars
  <2>8. JobInv'
    BY <2>5, <2>7, BuildStays
  <2>9. QED
    BY <2>1, <2>6, <2>7, <2>8 DEF a
<1>3. QED
  BY <1>1, <1>2

(***************************************************************************)
(* How a stage ends.                                                       *)
(***************************************************************************)
LEMMA StageEffect ==
    ASSUME TypeOK, JobInv, NEW j \in Builds, EndStage(j)
    PROVE  \E n \in 1..4, outcome \in {"built", "build failed", "build raised"} :
              /\ n = jobAt[j][1] /\ jobPc[j] = "building"
              /\ results' = results \cup (Affected(n) \X {outcome})
              /\ UNCHANGED <<checkoutVars, loopVars, setupVars, jobConfig>>
              /\ \/ n # 4 /\ outcome = "build raised" /\ Finish(j, <<>>)
                 \/ n # 4 /\ outcome = "build failed" /\ Finish(j, <<Update(OfStage(n), "failed")>>)
                 \/ n # 4 /\ outcome = "built" /\ Finish(j, <<Update(OfStage(n), "built")>>)
                 \/ /\ n # 4 /\ outcome = "built"
                    /\ Enter(j, n + 1, <<Update(OfStage(n), "built")>>)
                 \/ n = 4 /\ Finish(j, <<>>)
                 \/ n = 4 /\ Finish(j, <<Update(AllUEs, "failed")>>)
                 \/ n = 4 /\ Finish(j, <<Update(AllUEs, "built")>>)
<1>1. jobPc[j] = "building" /\ jobAt[j][1] \in 1..4
  BY Lists DEF EndStage, JobInv
<1> DEFINE n == jobAt[j][1]
<1>2. PICK outcome \in Outcomes(n) :
         /\ BuildStage(j, outcome) \/ BuildUEs(j, outcome)
         /\ results' = results \cup (Affected(n) \X {outcome})
  BY DEF EndStage
<1>3. outcome \in {"built", "build failed", "build raised"}
  BY DEF Outcomes
<1>4. Stages[n] = "ue" <=> n = 4
  BY <1>1, Lists
<1>5. UNCHANGED <<checkoutVars, loopVars, setupVars, jobConfig>>
  BY DEF EndStage
<1>6. CASE BuildStage(j, outcome)
  <2>1. n # 4
    BY <1>4, <1>6 DEF BuildStage
  <2>2. CASE outcome = "build raised"
    BY <1>1, <1>2, <1>5, <1>6, <2>1, <2>2 DEF BuildStage
  <2>3. CASE outcome = "build failed"
    BY <1>1, <1>2, <1>5, <1>6, <2>1, <2>3 DEF BuildStage
  <2>4. CASE outcome = "built"
    <3>1. \/ Finish(j, <<Update(OfStage(n), "built")>>)
          \/ Enter(j, n + 1, <<Update(OfStage(n), "built")>>)
      BY <1>6, <2>4 DEF BuildStage
    <3>2. QED
      BY <1>1, <1>2, <1>5, <2>1, <2>4, <3>1
  <2>5. QED
    BY <1>3, <2>2, <2>3, <2>4
<1>7. CASE BuildUEs(j, outcome)
  <2>1. n = 4
    BY <1>4, <1>7 DEF BuildUEs
  <2>2. \/ Finish(j, <<>>)
        \/ Finish(j, <<Update(AllUEs, "failed")>>)
        \/ Finish(j, <<Update(AllUEs, "built")>>)
    <3>1. CASE outcome = "build raised" \/ ues = <<>>
      BY <1>7, <3>1 DEF BuildUEs
    <3>2. CASE ~(outcome = "build raised" \/ ues = <<>>) /\ outcome = "built"
      BY <1>7, <3>2 DEF BuildUEs
    <3>3. CASE ~(outcome = "build raised" \/ ues = <<>>) /\ outcome # "built"
      BY <1>7, <3>3 DEF BuildUEs
    <3>4. QED
      BY <3>1, <3>2, <3>3
  <2>3. QED
    BY <1>1, <1>2, <1>3, <1>5, <2>1, <2>2
<1>8. QED
  BY <1>2, <1>6, <1>7

LEMMA NextStage ==
    \A n \in 1..4 : n # 4 => n + 1 \in 1..4
OBVIOUS

LEMMA StageResults ==
    ASSUME TypeOK, JobInv, NEW n \in 1..4,
           NEW outcome \in {"built", "build failed", "build raised"}
    PROVE  results \cup (Affected(n) \X {outcome}) \subseteq Components \X Result
<1>1. outcome \in Result /\ Affected(n) \subseteq Components
  BY StageTypes DEF Result
<1>2. QED
  BY <1>1 DEF TypeOK

LEMMA BuildStep ==
    ASSUME TypeOK, JobInv, NEW j \in Builds,
           BuildJob(j) \/ \E target \in Targets : AcceptBuild(j, target)
    PROVE  TypeOK' /\ JobInv'
<1>1. j \in Jobs /\ <<>> \in Seq(Updates) /\ CheckoutTypeOK
  BY ShortLists DEF Jobs, TypeOK
<1>2. ASSUME NEW target \in Targets, AcceptBuild(j, target)
      PROVE  TypeOK' /\ JobInv'
  <2>1. TypeOK'
    BY <1>1, <1>2 DEF AcceptBuild, TypeOK, checkoutVars, CheckoutTypeOK, statusVars, watchVars,
          StatusTypeOK, setupVars, JobPc
  <2>2. OthersStay(j) /\ jobPc'[j] = "patch" /\ UNCHANGED ues
    BY <1>1, <1>2 DEF AcceptBuild, TypeOK, OthersStay, statusVars
  <2>3. QED
    BY <2>1, <2>2, BuildStays
<1>3. CASE Patch(j)
  <2>1. CheckoutTypeOK'
    <3>1. folders' \in [Folders -> Content]
      BY <1>1, <1>3 DEF Patch, CopyFiles, CheckoutTypeOK, Content
    <3>2. QED
      BY <1>1, <1>3, <3>1 DEF Patch, CheckoutTypeOK
  <2>2. /\ UNCHANGED <<loopVars, setupVars, jobConfig>> /\ results' \subseteq Components \X Result
        /\ Finish(j, <<>>) \/ Enter(j, 1, <<>>)
    BY <1>3 DEF Patch, TypeOK
  <2>3. CASE Finish(j, <<>>)
    BY <1>1, <2>1, <2>2, <2>3, FinishEffect
  <2>4. CASE Enter(j, 1, <<>>)
    <3>1. 1 \in 1..4
      OBVIOUS
    <3>2. QED
      BY <1>1, <2>1, <2>2, <2>4, <3>1, EnterEffect
  <2>5. QED
    BY <2>2, <2>3, <2>4
<1>4. CASE EndStage(j)
  <2>1. PICK n \in 1..4, outcome \in {"built", "build failed", "build raised"} :
              /\ results' = results \cup (Affected(n) \X {outcome})
              /\ UNCHANGED <<checkoutVars, loopVars, setupVars, jobConfig>>
              /\ \/ Finish(j, <<>>)
                 \/ Finish(j, <<Update(OfStage(n), "failed")>>)
                 \/ Finish(j, <<Update(OfStage(n), "built")>>)
                 \/ n # 4 /\ Enter(j, n + 1, <<Update(OfStage(n), "built")>>)
                 \/ Finish(j, <<Update(AllUEs, "failed")>>)
                 \/ Finish(j, <<Update(AllUEs, "built")>>)
    BY <1>4, StageEffect
  <2>2. results' \subseteq Components \X Result /\ CheckoutTypeOK'
    BY <1>1, <2>1, StageResults DEF checkoutVars, CheckoutTypeOK
  <2>3. /\ <<Update(OfStage(n), "failed")>> \in Seq(Updates)
        /\ <<Update(OfStage(n), "built")>> \in Seq(Updates)
        /\ <<Update(AllUEs, "failed")>> \in Seq(Updates)
        /\ <<Update(AllUEs, "built")>> \in Seq(Updates)
    BY StageTypes, Reports, ShortLists
  <2>4. n # 4 => n + 1 \in 1..4
    BY NextStage
  <2>5. ASSUME NEW before \in Seq(Updates), Finish(j, before)
        PROVE  TypeOK' /\ JobInv'
    BY <2>1, <2>2, <2>5, FinishEffect
  <2>6. ASSUME n # 4, Enter(j, n + 1, <<Update(OfStage(n), "built")>>)
        PROVE  TypeOK' /\ JobInv'
    BY <2>1, <2>2, <2>3, <2>4, <2>6, EnterEffect
  <2>7. QED
    BY <1>1, <2>1, <2>3, <2>5, <2>6
<1>5. QED
  BY <1>2, <1>3, <1>4 DEF BuildJob

LEMMA OthersType ==
    ASSUME TypeOK, JobInv,
           EventLoop \/ Clients \/ UNCHANGED vars
    PROVE  TypeOK' /\ JobInv'
<1>1. CASE UNCHANGED vars
  BY <1>1 DEF vars, checkoutVars, statusVars, setupVars, jobVars, watchVars, TypeOK,
     CheckoutTypeOK, StatusTypeOK, JobInv
<1>2. CASE EventLoop \/ Clients
  <2>1. StatusTypeOK'
    BY <1>2, LoopType, ClientsType DEF TypeOK
  <2>2. UNCHANGED <<checkoutVars, setupVars, jobVars>>
    BY <1>2 DEF EventLoop, Clients
  <2>3. UNCHANGED ues
    BY <1>2 DEF EventLoop, LoopRuns, WaiterUpdates, Watch, WatcherWakes, WaiterWatches,
       Clients, Register, Sent, Leave
  <2>4. TypeOK'
    BY <2>1, <2>2 DEF checkoutVars, setupVars, jobVars, TypeOK, CheckoutTypeOK
  <2>5. JobInv'
    BY <2>2, <2>3 DEF jobVars, JobInv
  <2>6. QED
    BY <2>4, <2>5
<1>3. QED
  BY <1>1, <1>2

LEMMA TypeInit ==
    Init => TypeOK /\ JobInv
<1> SUFFICES ASSUME Init
             PROVE  TypeOK /\ JobInv
  OBVIOUS
<1>1. CheckoutTypeOK
  BY OnDiskAssumption DEF Init, CheckoutInit, CheckoutTypeOK
<1>2. StatusTypeOK
  <2>1. componentStates \in [Components -> ComponentState \cup {"none"}]
    BY DEF Init, StatusInit, ComponentState
  <2>2. watcherPc \in [Watchers -> WatcherPc]
    BY DEF Init, StatusInit, WatcherPc
  <2>3. /\ ues = <<>> /\ ready = <<>> /\ waiters = <<>> /\ holder = NoWatcher
        /\ behind = {} /\ slow = FALSE
    BY DEF Init, StatusInit
  <2>4. ues \in Seq(Components) /\ ready \in Seq(Updates) /\ waiters \in Seq(Updates \cup Watchers)
    BY <2>3
  <2>5. QED
    BY <2>1, <2>2, <2>3, <2>4 DEF StatusTypeOK
<1>3. 0 \in 0..MaxRequests /\ <<1, 0>> \in (1..Len(Kinds)) \X Nat
  BY Lists, RequestsAssumption
<1>4. TypeOK
  BY <1>1, <1>2, <1>3 DEF Init, TypeOK, JobPc
<1>5. JobInv
  BY DEF Init, StatusInit, JobInv, Jobs
<1>6. QED
  BY <1>4, <1>5

LEMMA TypeStep ==
    TypeOK /\ JobInv /\ [Next]_vars => TypeOK' /\ JobInv'
BY SetupStep, CheckoutStep, BuildStep, OthersType DEF Next

(***************************************************************************)
(* However many clients send requests and watch, and jobs are at work,     *)
(* every variable of the API keeps its type: components report in states   *)
(* of their own, and jobs are about components that are there.             *)
(***************************************************************************)
THEOREM TypeCorrect == Spec => []TypeOK
<1>1. Spec => [](TypeOK /\ JobInv)
  BY TypeInit, TypeStep, PTL DEF Spec
<1>2. QED
  BY <1>1, PTL

-----------------------------------------------------------------------------
(* Watchers *)

(***************************************************************************)
(* The condition is free, so a change is made at once; it notifies every   *)
(* watcher that waits, and none is in between.                             *)
(***************************************************************************)
LEMMA PerformNotifies ==
    ASSUME StatusTypeOK, NobodyWaits, NEW u, Perform(u), UNCHANGED <<holder, slow>>
    PROVE  NobodyWaits'
<1> SUFFICES ASSUME ~slow
             PROVE  NobodyWaits'
  BY DEF NobodyWaits, StatusTypeOK
<1>1. LockAvailable
  BY DEF NobodyWaits, LockAvailable
<1>2. Apply(u.components, u.state) /\ UNCHANGED waiters
  BY <1>1 DEF Perform
<1>3. \A w \in Watchers : watcherPc'[w] \in {"away", "notified"}
  BY <1>2 DEF Apply, NobodyWaits, StatusTypeOK
<1>4. \A w \in behind' : watcherPc'[w] = "notified"
  BY <1>2 DEF Apply, NobodyWaits, StatusTypeOK
<1>5. QED
  BY <1>1, <1>2, <1>3, <1>4 DEF NobodyWaits

LEMMA JobsKeepLoop ==
    /\ \A j \in Checkouts : AcceptCheckout(j) \/ CheckoutJob(j) => UNCHANGED loopVars
    /\ \A j \in Builds :
          BuildJob(j) \/ (\E target \in Targets : AcceptBuild(j, target)) => UNCHANGED loopVars
<1>1. ASSUME NEW j \in Checkouts, AcceptCheckout(j) \/ CheckoutJob(j)
      PROVE  UNCHANGED loopVars
  BY <1>1 DEF AcceptCheckout, CheckoutJob, FindFolder, FindNoFolder, BeginClone,
     CloneCollides, EndClone, EndCheckout, statusVars, loopVars
<1>2. ASSUME NEW j \in Builds, BuildJob(j) \/ \E target \in Targets : AcceptBuild(j, target)
      PROVE  UNCHANGED loopVars
  BY <1>2 DEF BuildJob, Patch, EndStage, AcceptBuild, statusVars, loopVars
<1>3. QED
  BY <1>1, <1>2

\* Once a client has been slow, it has been.
LEMMA SlowStays ==
    ASSUME TypeOK, JobInv, [Next]_vars, slow
    PROVE  slow'
<1>1. CASE Setup
  BY <1>1, SetupEffect DEF Announced, Handle
<1>2. CASE EventLoop
  BY <1>2 DEF EventLoop, LoopRuns, WaiterUpdates, Watch, WatcherWakes, WaiterWatches, Push
<1>3. CASE Clients
  BY <1>3 DEF Clients, Register, Sent, Leave
<1>4. CASE UNCHANGED loopVars
  BY <1>4 DEF loopVars, watchVars
<1>5. CASE UNCHANGED vars
  BY <1>5 DEF vars, statusVars, watchVars
<1>6. QED
  BY <1>1, <1>2, <1>3, <1>4, <1>5, JobsKeepLoop DEF Next

LEMMA WaitingStep ==
    ASSUME TypeOK, JobInv, NobodyWaits, [Next]_vars
    PROVE  NobodyWaits'
<1> SUFFICES ASSUME ~slow, ~slow'
             PROVE  NobodyWaits'
  BY SlowStays DEF NobodyWaits
<1>1. CASE Setup
  <2>1. CASE \E u \in News : Handle(u)
    BY <2>1, PerformNotifies DEF Handle, TypeOK
  <2>2. CASE UNCHANGED <<componentStates, ready, waiters, behind, holder, watcherPc, slow>>
    BY <2>2 DEF NobodyWaits
  <2>3. QED
    BY <1>1, <2>1, <2>2, SetupEffect DEF Announced
<1>2. CASE EventLoop
  <2>1. CASE LoopRuns
    BY <2>1, PerformNotifies DEF LoopRuns, TypeOK
  <2>2. CASE WaiterUpdates
    BY <2>2 DEF WaiterUpdates, NobodyWaits
  <2>3. ASSUME NEW w \in Watchers, WatcherWakes(w)
        PROVE  NobodyWaits'
    <3>1. LockAvailable /\ watcherPc \in [Watchers -> WatcherPc] /\ behind \subseteq Watchers
      BY DEF LockAvailable, NobodyWaits, TypeOK, StatusTypeOK
    <3>2. /\ Push(w, <<>>) /\ waiters = <<>>
          /\ UNCHANGED <<ues, componentStates, ready>>
      BY <2>3, <3>1 DEF WatcherWakes, LockAvailable
    <3>3. /\ watcherPc' = [watcherPc EXCEPT ![w] = "waiting"]
          /\ waiters' = <<>> /\ holder' = holder /\ behind' = behind \ {w}
      BY <3>2 DEF Push
    <3>4. QED
      BY <3>1, <3>3 DEF NobodyWaits
  <2>4. ASSUME NEW w \in Watchers, WaiterWatches(w)
        PROVE  NobodyWaits'
    BY <2>4 DEF WaiterWatches, NobodyWaits
  <2>5. QED
    BY <1>2, <2>1, <2>2, <2>3, <2>4 DEF EventLoop, Watch
<1>3. CASE Clients
  <2> SUFFICES ASSUME NEW w \in Watchers, Register(w) \/ Sent(w) \/ Leave(w)
               PROVE  NobodyWaits'
    BY <1>3 DEF Clients
  <2>1. CASE Register(w)
    BY <2>1 DEF Register, LockAvailable, NobodyWaits, TypeOK, StatusTypeOK
  <2>2. CASE Sent(w)
    BY <2>2 DEF Sent, NobodyWaits
  <2>3. CASE Leave(w)
    <3>1. waiters = <<>> /\ DOMAIN waiters = {}
      BY DEF NobodyWaits
    <3>2. UNCHANGED waiters
      BY <2>3, <3>1 DEF Leave
    <3>3. QED
      BY <2>3, <3>1, <3>2 DEF Leave, NobodyWaits, TypeOK, StatusTypeOK
  <2>4. QED
    BY <2>1, <2>2, <2>3
<1>4. CASE UNCHANGED loopVars
  BY <1>4 DEF NobodyWaits, loopVars, watchVars
<1>5. CASE UNCHANGED vars
  BY <1>5 DEF vars, statusVars, watchVars, NobodyWaits
<1>6. QED
  BY <1>1, <1>2, <1>3, <1>4, <1>5, JobsKeepLoop DEF Next

(***************************************************************************)
(* As long as no client has been slow to read, no watcher misses a change, *)
(* whatever the number of watchers that come and go and of jobs that       *)
(* report.                                                                 *)
(***************************************************************************)
THEOREM NoChangeMissedHolds == Spec => []NoChangeMissed
<1>1. Init => NobodyWaits
  BY DEF Init, StatusInit, NobodyWaits
<1>2. TypeOK /\ JobInv /\ NobodyWaits /\ [Next]_vars => NobodyWaits'
  BY WaitingStep
<1>3. NobodyWaits => NoChangeMissed
  BY DEF NobodyWaits, NoChangeMissed
<1>4. QED
  BY <1>1, <1>2, <1>3, TypeInit, TypeStep, PTL DEF Spec

=============================================================================
