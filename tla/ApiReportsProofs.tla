--------------------------- MODULE ApiReportsProofs ---------------------------
(***************************************************************************)
(* What the API shows of checkouts and builds has been earned, however     *)
(* many jobs report at once and wherever their reports wait.               *)
(***************************************************************************)
EXTENDS ApiServerProofs

-----------------------------------------------------------------------------
(* What is earned stays earned *)

\* Earned and ChangeIsEarned, of any results.
EarnedBy(rs, c, st) ==
    /\ st = "checked_out" => <<c, "cloned">> \in rs \/ <<c, "found">> \in rs
    /\ c \notin UEs =>
          /\ st = "built" => <<c, "built">> \in rs
          /\ st = "failed" => <<c, "build failed">> \in rs
    /\ \A n \in 2..Len(Stages) :
          st = "building" /\ c \in (IF Stages[n] = "ue" THEN UEs ELSE {Stages[n]})
              => <<Stages[n - 1], "built">> \in rs

ChangeEarnedBy(rs, u) ==
    /\ \A c \in Concerned(u) : EarnedBy(rs, c, u.state)
    /\ u.components = AllUEs \/ Len(u.components) > 1 =>
          Concerned(u) \subseteq UEs /\ u.state # "checking_out"

StagesEarnedBy(rs, pc, at) ==
    \A j \in Builds : pc[j] = "building" /\ at[j][1] > 1 => <<Stages[at[j][1] - 1], "built">> \in rs

LEMMA EarnedMore ==
    ASSUME NEW rs, NEW more, rs \subseteq more
    PROVE  /\ \A c, st : EarnedBy(rs, c, st) => EarnedBy(more, c, st)
           /\ \A u : ChangeEarnedBy(rs, u) => ChangeEarnedBy(more, u)
<1>1. \A c, st : EarnedBy(rs, c, st) => EarnedBy(more, c, st)
  BY DEF EarnedBy
<1>2. QED
  BY <1>1 DEF ChangeEarnedBy

\* StatusInv in these terms, for the states before and after a step.
StatusEarned(rs, states, rdy, wts) ==
    /\ \A c \in Components : EarnedBy(rs, c, states[c])
    /\ \A u \in (Elements(rdy) \cup Elements(wts)) \ Watchers : ChangeEarnedBy(rs, u)
    /\ \A u \in Elements(wts) \ Watchers : u.components # AllUEs

LEMMA StatusInvIs ==
    /\ StatusInv <=> /\ StatusEarned(results, componentStates, ready, waiters)
                     /\ StagesEarnedBy(results, jobPc, jobAt)
    /\ StatusInv' <=> /\ StatusEarned(results', componentStates', ready', waiters')
                      /\ StagesEarnedBy(results', jobPc', jobAt')
BY DEF StatusInv, StatusEarned, StagesEarnedBy, Earned, ChangeIsEarned, EarnedBy, ChangeEarnedBy,
   CheckoutSucceeded, Elements

\* Watchers are no changes.
LEMMA NoWatcherIsUpdate ==
    /\ \A u \in Updates : u \notin Watchers
    /\ \A w \in Watchers : w \notin Updates
BY StatusAssumption

(***************************************************************************)
(* What each kind of report needs in order to be earned.                   *)
(***************************************************************************)
LEMMA ReportEarned ==
    ASSUME NEW rs, NEW c \in Components
    PROVE  /\ ChangeEarnedBy(rs, Update(<<c>>, "checking_out"))
           /\ <<c, "cloned">> \in rs \/ <<c, "found">> \in rs =>
                 ChangeEarnedBy(rs, Update(<<c>>, "checked_out"))
           /\ <<c, "built">> \in rs => ChangeEarnedBy(rs, Update(<<c>>, "built"))
           /\ <<c, "build failed">> \in rs => ChangeEarnedBy(rs, Update(<<c>>, "failed"))
           /\ ChangeEarnedBy(rs, Update(<<c>>, "configured"))
           /\ ChangeEarnedBy(rs, ChangeErrors)
<1>1. /\ <<c>> \in Seq(Components) /\ <<c>> # AllUEs /\ Elements(<<c>>) = {c} /\ ~(Len(<<c>>) > 1)
  <2>1. <<c>> \in Seq(Components) /\ <<c>> # AllUEs /\ Elements(<<c>>) = {c} /\ Len(<<c>>) = 1
    BY OneComponent
  <2>2. QED
    BY <2>1
<1>2. ASSUME NEW st, EarnedBy(rs, c, st)
      PROVE  ChangeEarnedBy(rs, Update(<<c>>, st))
  BY <1>1, <1>2 DEF ChangeEarnedBy, Concerned, Update
<1>3. ChangeEarnedBy(rs, ChangeErrors)
  <2>1. ~(Len(ChangeErrors.components) > 1)
    BY ErrorsType
  <2>2. QED
    BY <2>1, ErrorsType DEF ChangeEarnedBy, Concerned
<1>4. QED
  BY <1>2, <1>3 DEF EarnedBy

LEMMA NewsEarned ==
    \A u \in News : ChangeEarnedBy(results, u) /\ u.components # AllUEs
                    /\ u \in Updates /\ u \notin Watchers
<1> SUFFICES ASSUME NEW u \in News
             PROVE  ChangeEarnedBy(results, u) /\ u.components # AllUEs
  BY NewsType, NoWatcherIsUpdate
<1>1. CASE u = ChangeErrors
  <2>1. "gnb" \in Components
    BY Names
  <2>2. QED
    BY <1>1, <2>1, ReportEarned, ErrorsType
<1>2. ASSUME NEW c \in Components, u = Update(<<c>>, "configured")
      PROVE  ChangeEarnedBy(results, u) /\ u.components # AllUEs
  BY <1>2, ReportEarned, OneComponent DEF Update
<1>3. ASSUME NEW cs \in Seq(UEs), u = Update(cs, "configured")
      PROVE  ChangeEarnedBy(results, u) /\ u.components # AllUEs
  <2>1. cs # AllUEs
    <3>1. cs # <<>> => cs[1] \in UEs
      OBVIOUS
    <3>2. "ue" \notin UEs
      BY Names
    <3>3. QED
      BY <3>1, <3>2 DEF AllUEs
  <2>2. Elements(cs) \subseteq UEs
    BY ElementsOf
  <2>3. u.components = cs /\ u.state = "configured"
    BY <1>3 DEF Update
  <2>4. QED
    BY <2>1, <2>2, <2>3 DEF ChangeEarnedBy, Concerned, EarnedBy
<1>4. QED
  BY <1>1, <1>2, <1>3 DEF News

LEMMA StageEarned ==
    ASSUME JobInv, NEW rs, NEW n \in 1..4
    PROVE  /\ (n > 1 => <<Stages[n - 1], "built">> \in rs)
                 => ChangeEarnedBy(rs, Update(OfStage(n), "building"))
           /\ ChangeEarnedBy(rs, Update(AllUEs, "built"))
           /\ ChangeEarnedBy(rs, Update(AllUEs, "failed"))
<1>1. ASSUME NEW st, NEW c \in UEs,
             st \in {"built", "failed"} \/ (st = "building" /\ <<"gnb", "built">> \in rs)
      PROVE  EarnedBy(rs, c, st)
  <2>1. \A m \in 2..4 : st = "building" /\ c \in (IF Stages[m] = "ue" THEN UEs ELSE {Stages[m]})
                             => m = 4
    BY Lists, RequestsAssumption
  <2>2. st = "building" => <<Stages[4 - 1], "built">> \in rs
    BY <1>1, Lists
  <2>3. QED
    BY <1>1, <2>1, <2>2, Lists DEF EarnedBy
<1>2. ASSUME NEW st \in {"building", "built", "failed"},
             \A c \in UEs : EarnedBy(rs, c, st)
      PROVE  ChangeEarnedBy(rs, Update(AllUEs, st))
  BY <1>2 DEF ChangeEarnedBy, Concerned, Update
<1>3. ASSUME n > 1 => <<Stages[n - 1], "built">> \in rs
      PROVE  ChangeEarnedBy(rs, Update(OfStage(n), "building"))
  <2>1. CASE n = 4
    <3>1. <<"gnb", "built">> \in rs
      BY <1>3, <2>1, Lists
    <3>2. QED
      BY <1>1, <1>2, <2>1, <3>1, StageTypes
  <2>2. CASE n # 4
    <3> DEFINE c == Stages[n]
    <3>1. c \in Components /\ OfStage(n) = <<c>>
      BY <2>2, StageTypes DEF OfStage
    <3>2. \A m \in 2..4 : c \in (IF Stages[m] = "ue" THEN UEs ELSE {Stages[m]}) => m = n
      BY <2>2, Lists, RequestsAssumption
    <3>3. EarnedBy(rs, c, "building")
      BY <1>3, <3>2, Lists DEF EarnedBy
    <3>4. <<c>> # AllUEs /\ Elements(<<c>>) = {c} /\ Len(<<c>>) = 1
      BY <3>1, OneComponent
    <3>5. ~(Len(<<c>>) > 1)
      BY <3>4
    <3>6. QED
      BY <3>1, <3>3, <3>4, <3>5 DEF ChangeEarnedBy, Concerned, Update
  <2>3. QED
    BY <2>1, <2>2
<1>4. QED
  BY <1>1, <1>2, <1>3

(***************************************************************************)
(* What the event loop makes of a change of all UEs is about those listed. *)
(***************************************************************************)
LEMMA ExpandedEarned ==
    ASSUME TypeOK, JobInv, NEW rs, NEW u \in Updates, ChangeEarnedBy(rs, u)
    PROVE  ChangeEarnedBy(rs, Expanded(u)) /\ Expanded(u).components # AllUEs
<1>1. CASE u.components # AllUEs
  BY <1>1 DEF Expanded
<1>2. CASE u.components = AllUEs
  <2>1. Elements(ues) \subseteq UEs /\ ues # AllUEs
    <3>1. ues # <<>> => ues[1] \in UEs
      BY DEF JobInv
    <3>2. "ue" \notin UEs
      BY Names
    <3>3. QED
      BY <3>1, <3>2, ElementsOf DEF AllUEs, JobInv
  <2>2. Expanded(u).components = ues /\ Expanded(u).state = u.state
    BY <1>2 DEF Expanded, Update
  <2>3. Concerned(u) = UEs /\ Concerned(Expanded(u)) = Elements(ues)
    BY <1>2, <2>1, <2>2 DEF Concerned
  <2>4. QED
    BY <1>2, <2>1, <2>2, <2>3 DEF ChangeEarnedBy
<1>3. QED
  BY <1>1, <1>2

-----------------------------------------------------------------------------
(* What queues of changes end with *)

LEMMA QueueAppend ==
    ASSUME NEW S, NEW s \in Seq(S), NEW e, NEW c, NEW st
    PROVE  /\ Silent(Append(s, e), c) <=> Silent(s, c) /\ ~Touches(e, c)
           /\ Touches(e, c) => (EndsWith(Append(s, e), c, st) <=> e.state = st)
           /\ ~Touches(e, c) => (EndsWith(Append(s, e), c, st) <=> EndsWith(s, c, st))
<1> DEFINE a == Append(s, e)
           l == Len(s)
<1>1. /\ l \in Nat /\ DOMAIN s = 1..l /\ DOMAIN a = 1..l + 1 /\ Len(a) = l + 1
      /\ \A n \in 1..l : a[n] = s[n]
      /\ a[l + 1] = e
  <2>1. s \in Seq(S \cup {e})
    OBVIOUS
  <2>2. QED
    BY <2>1, AppendProperties
<1> HIDE DEF a
<1>2. 1..l + 1 = (1..l) \cup {l + 1}
  BY <1>1
<1>3. Silent(a, c) <=> Silent(s, c) /\ ~Touches(e, c)
  BY <1>1, <1>2 DEF Silent
<1>4. ASSUME Touches(e, c)
      PROVE  EndsWith(a, c, st) <=> e.state = st
  <2>1. ASSUME e.state = st
        PROVE  EndsWith(a, c, st)
    <3>1. l + 1 \in DOMAIN a /\ \A m \in l + 1 + 1..Len(a) : ~Touches(a[m], c)
      BY <1>1
    <3>2. QED
      BY <1>1, <1>4, <2>1, <3>1 DEF EndsWith
  <2>2. ASSUME EndsWith(a, c, st)
        PROVE  e.state = st
    <3>1. PICK n \in 1..l + 1 : /\ a[n].state = st
                                /\ \A m \in n + 1..l + 1 : ~Touches(a[m], c)
      BY <1>1, <2>2 DEF EndsWith
    <3>2. CASE n = l + 1
      BY <1>1, <3>1, <3>2
    <3>3. CASE n # l + 1
      <4>1. l + 1 \in n + 1..l + 1
        BY <1>1, <3>3
      <4>2. QED
        BY <1>1, <1>4, <3>1, <4>1
    <3>4. QED
      BY <3>2, <3>3
  <2>3. QED
    BY <2>1, <2>2
<1>5. ASSUME ~Touches(e, c)
      PROVE  EndsWith(a, c, st) <=> EndsWith(s, c, st)
  <2>1. ASSUME EndsWith(a, c, st)
        PROVE  EndsWith(s, c, st)
    <3>1. PICK n \in 1..l + 1 : /\ Touches(a[n], c) /\ a[n].state = st
                                /\ \A m \in n + 1..l + 1 : ~Touches(a[m], c)
      BY <1>1, <2>1 DEF EndsWith
    <3>2. n \in 1..l /\ a[n] = s[n]
      BY <1>1, <1>2, <1>5, <3>1
    <3>3. \A m \in n + 1..l : m \in n + 1..l + 1 /\ a[m] = s[m]
      BY <1>1, <3>2
    <3>4. QED
      BY <1>1, <3>1, <3>2, <3>3 DEF EndsWith
  <2>2. ASSUME EndsWith(s, c, st)
        PROVE  EndsWith(a, c, st)
    <3>1. PICK n \in 1..l : /\ Touches(s[n], c) /\ s[n].state = st
                            /\ \A m \in n + 1..l : ~Touches(s[m], c)
      BY <1>1, <2>2 DEF EndsWith
    <3>2. n \in DOMAIN a /\ a[n] = s[n]
      BY <1>1, <1>2
    <3>3. ASSUME NEW m \in n + 1..l + 1
          PROVE  ~Touches(a[m], c)
      <4>1. m \in n + 1..l \/ m = l + 1
        BY <1>1
      <4>2. m \in n + 1..l => a[m] = s[m]
        BY <1>1
      <4>3. QED
        BY <1>1, <1>5, <3>1, <4>1, <4>2
    <3>4. QED
      BY <1>1, <3>1, <3>2, <3>3 DEF EndsWith
  <2>3. QED
    BY <2>1, <2>2
<1>6. QED
  BY <1>3, <1>4, <1>5 DEF a

LEMMA QueueHead ==
    ASSUME NEW S, NEW s \in Seq(S), s # <<>>, NEW c, NEW st
    PROVE  /\ Silent(s, c) <=> ~Touches(Head(s), c) /\ Silent(Tail(s), c)
           /\ EndsWith(Tail(s), c, st) => EndsWith(s, c, st)
           /\ Touches(Head(s), c) /\ Head(s).state = st /\ Silent(Tail(s), c)
                 => EndsWith(s, c, st)
<1> DEFINE t == Tail(s)
           l == Len(s)
<1>1. /\ l \in Nat /\ l > 0 /\ DOMAIN s = 1..l /\ DOMAIN t = 1..l - 1 /\ Len(t) = l - 1
      /\ \A n \in 1..l - 1 : t[n] = s[n + 1]
      /\ Head(s) = s[1]
  BY HeadTailProperties
<1>2. \A n \in 1..l : n = 1 \/ (n - 1 \in 1..l - 1 /\ t[n - 1] = s[n])
  BY <1>1
<1>3. \A n \in 1..l - 1 : n + 1 \in 1..l /\ t[n] = s[n + 1]
  BY <1>1
<1> HIDE DEF t
<1>4. Silent(s, c) <=> ~Touches(Head(s), c) /\ Silent(t, c)
  <2>1. 1 \in 1..l
    BY <1>1
  <2>2. Silent(s, c) => ~Touches(Head(s), c) /\ Silent(t, c)
    BY <1>1, <1>3, <2>1 DEF Silent
  <2>3. ~Touches(Head(s), c) /\ Silent(t, c) => Silent(s, c)
    BY <1>1, <1>2 DEF Silent
  <2>4. QED
    BY <2>2, <2>3
<1>5. ASSUME EndsWith(t, c, st)
      PROVE  EndsWith(s, c, st)
  <2>1. PICK n \in 1..l - 1 : /\ Touches(t[n], c) /\ t[n].state = st
                              /\ \A m \in n + 1..l - 1 : ~Touches(t[m], c)
    BY <1>1, <1>5 DEF EndsWith
  <2>2. n + 1 \in DOMAIN s /\ t[n] = s[n + 1]
    BY <1>1, <1>3
  <2>3. ASSUME NEW m \in n + 1 + 1..l
        PROVE  ~Touches(s[m], c)
    <3>1. m - 1 \in n + 1..l - 1 /\ m \in 1..l /\ m # 1
      BY <1>1
    <3>2. QED
      BY <1>2, <2>1, <3>1
  <2>4. QED
    BY <2>1, <2>2, <2>3 DEF EndsWith
<1>6. ASSUME Touches(Head(s), c), Head(s).state = st, Silent(t, c)
      PROVE  EndsWith(s, c, st)
  <2>1. 1 \in DOMAIN s
    BY <1>1
  <2>2. ASSUME NEW m \in 1 + 1..l
        PROVE  ~Touches(s[m], c)
    <3>1. m - 1 \in 1..l - 1 /\ m \in 1..l /\ m # 1
      BY <1>1
    <3>2. QED
      BY <1>1, <1>2, <1>6, <3>1 DEF Silent
  <2>3. QED
    BY <1>1, <1>6, <2>1, <2>2 DEF EndsWith
<1>7. QED
  BY <1>4, <1>5, <1>6 DEF t

(***************************************************************************)
(* A watcher that leaves the queue takes no change with it.                *)
(***************************************************************************)
LEMMA QueueRemove ==
    ASSUME NEW S, NEW s \in Seq(S), NEW k \in DOMAIN s, NEW c, NEW st,
           ~Touches(s[k], c),
           NEW r, r = SubSeq(s, 1, k - 1) \o SubSeq(s, k + 1, Len(s))
    PROVE  /\ Elements(r) \subseteq Elements(s)
           /\ Silent(r, c) => Silent(s, c)
           /\ EndsWith(r, c, st) => EndsWith(s, c, st)
<1> DEFINE l == Len(s)
<1>1. l \in Nat /\ DOMAIN s = 1..l /\ k \in 1..l
  OBVIOUS
<1>2. /\ DOMAIN r = 1..l - 1 /\ Len(r) = l - 1
      /\ \A n \in 1..l - 1 : r[n] = IF n < k THEN s[n] ELSE s[n + 1]
  <2> DEFINE x == SubSeq(s, 1, k - 1)
             y == SubSeq(s, k + 1, l)
  <2>7. /\ k + 1 \in Int /\ l - (k + 1) + 1 = l - k
        /\ (IF k + 1 <= l THEN l - (k + 1) + 1 ELSE 0) = l - k
        /\ \A n \in Int : k + 1 + n - 1 = k + n
        /\ \A n \in Int : n >= k /\ n <= l - 1 =>
              n - (k - 1) \in 1..l - k /\ k + (n - (k - 1)) = n + 1 /\ ~(n <= k - 1)
    <3>1. k \in Int /\ l \in Int /\ k <= l
      BY <1>1
    <3> HIDE DEF l
    <3>2. /\ k + 1 \in Int /\ l - (k + 1) + 1 = l - k
          /\ (IF k + 1 <= l THEN l - (k + 1) + 1 ELSE 0) = l - k
      BY <3>1
    <3>3. \A n \in Int : k + 1 + n - 1 = k + n
      BY <3>1
    <3>4. ASSUME NEW n \in Int, n >= k, n <= l - 1
          PROVE  n - (k - 1) \in 1..l - k /\ k + (n - (k - 1)) = n + 1 /\ ~(n <= k - 1)
      <4>1. n - (k - 1) \in Int /\ n - (k - 1) >= 1 /\ n - (k - 1) <= l - k
        BY <3>1, <3>4
      <4>2. k + (n - (k - 1)) = n + 1
        BY <3>1
      <4>3. ~(n <= k - 1)
        BY <3>1, <3>4
      <4>4. l - k \in Int
        BY <3>1
      <4>5. QED
        BY <4>1, <4>2, <4>3, <4>4
    <3>5. QED
      BY <3>2, <3>3, <3>4
  <2>1. x \in Seq(S) /\ Len(x) = k - 1 /\ \A n \in 1..k - 1 : x[n] = s[n]
    BY <1>1, SubSeqProperties
  <2>2. y \in Seq(S) /\ Len(y) = l - k /\ \A n \in 1..l - k : y[n] = s[k + n]
    <3> DEFINE b == k + 1
    <3>1. b \in Int /\ l \in Int /\ \A i \in b..l : s[i] \in S
      BY <1>1
    <3>2. /\ l - b + 1 = l - k /\ (IF b <= l THEN l - b + 1 ELSE 0) = l - k
          /\ \A n \in 1..l - k : b + n - 1 = k + n
      BY <2>7
    <3> HIDE DEF b
    <3>3. /\ SubSeq(s, b, l) \in Seq(S)
          /\ Len(SubSeq(s, b, l)) = IF b <= l THEN l - b + 1 ELSE 0
          /\ \A n \in 1..l - b + 1 : SubSeq(s, b, l)[n] = s[b + n - 1]
      BY <3>1, SubSeqProperties
    <3>4. QED
      BY <3>2, <3>3 DEF b
  <2> HIDE DEF x, y
  <2>3. /\ Len(x \o y) = Len(x) + Len(y) /\ DOMAIN (x \o y) = 1..Len(x \o y)
        /\ \A n \in 1..Len(x) + Len(y) :
              (x \o y)[n] = IF n <= Len(x) THEN x[n] ELSE y[n - Len(x)]
    <3>1. /\ x \o y \in Seq(S) /\ Len(x \o y) = Len(x) + Len(y)
          /\ \A n \in 1..Len(x) + Len(y) :
                (x \o y)[n] = IF n <= Len(x) THEN x[n] ELSE y[n - Len(x)]
      BY <2>1, <2>2, ConcatProperties
    <3>2. DOMAIN (x \o y) = 1..Len(x \o y)
      BY <3>1
    <3>3. QED
      BY <3>1, <3>2
  <2>4. Len(r) = l - 1 /\ DOMAIN r = 1..l - 1
    BY <1>1, <2>1, <2>2, <2>3 DEF x, y
  <2>5. ASSUME NEW n \in 1..l - 1
        PROVE  r[n] = IF n < k THEN s[n] ELSE s[n + 1]
    <3>1. r[n] = IF n <= k - 1 THEN x[n] ELSE y[n - (k - 1)]
      <4>1. Len(x) + Len(y) = l - 1 /\ r = x \o y
        BY <1>1, <2>1, <2>2 DEF x, y
      <4>2. QED
        BY <2>1, <2>3, <4>1
    <3>2. CASE n < k
      BY <1>1, <2>1, <3>1, <3>2
    <3>3. CASE ~(n < k)
      <4>1. n \in Int /\ k \in Int /\ l \in Int /\ n >= k /\ n <= l - 1
        BY <1>1, <3>3
      <4> DEFINE e == n - (k - 1)
      <4>2. e \in 1..l - k /\ k + e = n + 1 /\ ~(n <= k - 1)
        BY <2>7, <4>1
      <4>3. r[n] = IF n <= k - 1 THEN x[n] ELSE y[e]
        BY <3>1
      <4> HIDE DEF e
      <4>4. y[e] = s[n + 1]
        BY <2>2, <4>2
      <4>5. QED
        BY <3>3, <4>2, <4>3, <4>4
    <3>4. QED
      BY <3>2, <3>3
  <2>6. QED
    BY <2>4, <2>5
<1>3. \A n \in 1..l - 1 : n \in 1..l /\ n + 1 \in 1..l
  BY <1>1
<1>4. Elements(r) \subseteq Elements(s)
  BY <1>1, <1>2, <1>3 DEF Elements
<1>5. ASSUME NEW m \in 1..l, m # k
      PROVE  \/ m < k /\ m \in 1..l - 1 /\ r[m] = s[m]
             \/ m > k /\ m - 1 \in 1..l - 1 /\ r[m - 1] = s[m]
  <2>1. CASE m < k
    <3>1. m \in 1..l - 1
      BY <1>1, <2>1
    <3>2. QED
      BY <1>2, <2>1, <3>1
  <2>2. CASE m > k
    <3>1. m - 1 \in 1..l - 1 /\ ~(m - 1 < k) /\ m - 1 + 1 = m
      BY <1>1, <2>2
    <3>2. QED
      BY <1>2, <2>2, <3>1
  <2>3. m < k \/ m > k
    <3>1. m \in Int /\ k \in Int
      BY <1>1
    <3>2. QED
      BY <1>5, <3>1
  <2>4. QED
    BY <2>1, <2>2, <2>3
<1>6. Silent(r, c) => Silent(s, c)
  BY <1>1, <1>2, <1>5 DEF Silent
<1>7. ASSUME EndsWith(r, c, st)
      PROVE  EndsWith(s, c, st)
  <2>1. PICK n \in 1..l - 1 : /\ Touches(r[n], c) /\ r[n].state = st
                              /\ \A m \in n + 1..l - 1 : ~Touches(r[m], c)
    BY <1>2, <1>7 DEF EndsWith
  <2> DEFINE i == IF n < k THEN n ELSE n + 1
  <2>2. i \in 1..l /\ s[i] = r[n]
    BY <1>2, <1>3
  <2>3. ASSUME NEW m \in i + 1..l
        PROVE  ~Touches(s[m], c)
    <3>1. m \in 1..l /\ m > i
      BY <1>1, <2>2
    <3>2. CASE m = k
      BY <3>2
    <3>3. CASE m < k
      <4>1. m \in n + 1..l - 1 /\ r[m] = s[m]
        BY <1>1, <1>5, <3>1, <3>3
      <4>2. QED
        BY <2>1, <4>1
    <3>4. CASE m > k
      <4>1. m - 1 \in 1..l - 1 /\ r[m - 1] = s[m]
        <5>1. ~(m < k) /\ m # k
          BY <1>1, <3>1, <3>4
        <5>2. QED
          BY <1>5, <3>1, <5>1
      <4>2. m - 1 > n
        <5>1. CASE n < k
          BY <1>1, <3>1, <3>4, <5>1
        <5>2. CASE ~(n < k)
          BY <1>1, <3>1, <5>2
        <5>3. QED
          BY <5>1, <5>2
      <4>3. m - 1 \in n + 1..l - 1
        BY <1>1, <4>1, <4>2
      <4>4. QED
        BY <2>1, <4>1, <4>3
    <3>5. QED
      BY <1>1, <3>1, <3>2, <3>3, <3>4
  <2>4. QED
    BY <1>1, <2>1, <2>2, <2>3 DEF EndsWith
<1>8. QED
  BY <1>4, <1>6, <1>7

-----------------------------------------------------------------------------
(* Changes that are made, or wait for the lock *)

LEMMA PerformEarned ==
    ASSUME TypeOK, NEW rs, NEW rdy, StatusEarned(rs, componentStates, rdy, waiters),
           NEW u \in Updates, ChangeEarnedBy(rs, u), u.components # AllUEs, Perform(u)
    PROVE  StatusEarned(rs, componentStates', rdy, waiters')
<1>1. waiters \in Seq(Updates \cup Watchers) /\ u \notin Watchers
  BY NoWatcherIsUpdate DEF TypeOK, StatusTypeOK
<1>2. CASE LockAvailable
  <2>1. Apply(u.components, u.state) /\ UNCHANGED waiters
    BY <1>2 DEF Perform
  <2>2. \A c \in Elements(u.components) : EarnedBy(rs, c, u.state)
    BY DEF ChangeEarnedBy, Concerned
  <2>3. \A c \in Components : EarnedBy(rs, c, componentStates'[c])
    BY <2>1, <2>2 DEF Apply, StatusEarned
  <2>4. QED
    BY <2>1, <2>3 DEF StatusEarned
<1>3. CASE ~LockAvailable
  <2>1. waiters' = Append(waiters, u) /\ UNCHANGED componentStates
    BY <1>3 DEF Perform
  <2>2. Elements(waiters') = Elements(waiters) \cup {u}
    BY <1>1, <2>1, ElementsOf
  <2>3. QED
    BY <2>1, <2>2 DEF StatusEarned
<1>4. QED
  BY <1>2, <1>3

\* A queue with no new changes in it.
LEMMA FewerEarned ==
    ASSUME NEW rs, NEW states, NEW rdy, NEW wts, StatusEarned(rs, states, rdy, wts),
           NEW less, Elements(less) \subseteq Elements(rdy),
           NEW fewer, Elements(fewer) \subseteq Elements(wts) \cup Watchers
    PROVE  StatusEarned(rs, states, less, fewer)
BY DEF StatusEarned

(***************************************************************************)
(* What a watcher does to the queue for the lock.                          *)
(***************************************************************************)
WatcherQueues(w) ==
    \/ UNCHANGED waiters
    \/ waiters' = Append(waiters, w)
    \/ waiters # <<>> /\ Head(waiters) = w /\ waiters' = Tail(waiters)
    \/ waiters # <<>> /\ Head(waiters) = w /\ waiters' = Append(Tail(waiters), w)
    \/ \E n \in DOMAIN waiters :
          /\ waiters[n] = w
          /\ waiters' = SubSeq(waiters, 1, n - 1) \o SubSeq(waiters, n + 1, Len(waiters))

LEMMA WatchersQueue ==
    ASSUME NEW w \in Watchers, Watch(w) \/ Register(w) \/ Sent(w) \/ Leave(w)
    PROVE  WatcherQueues(w) /\ UNCHANGED <<ues, componentStates, ready>>
<1>1. UNCHANGED <<ues, componentStates, ready>>
  BY DEF Watch, WatcherWakes, WaiterWatches, Register, Sent, Leave
<1>2. CASE WatcherWakes(w)
  <2>1. waiters' = Append(waiters, w) \/ Push(w, waiters)
    BY <1>2 DEF WatcherWakes
  <2>2. waiters' = Append(waiters, w) \/ waiters' = waiters
    BY <2>1 DEF Push
  <2>3. QED
    BY <1>1, <2>2 DEF WatcherQueues
<1>3. CASE WaiterWatches(w)
  <2>1. waiters # <<>> /\ Head(waiters) = w
        /\ (waiters' = Tail(waiters) \/ Push(w, Tail(waiters)))
    BY <1>3 DEF WaiterWatches
  <2>2. waiters' = Append(Tail(waiters), w) \/ waiters' = Tail(waiters)
    BY <2>1 DEF Push
  <2>3. QED
    BY <1>1, <2>1, <2>2 DEF WatcherQueues
<1>4. CASE Register(w) \/ Sent(w)
  BY <1>1, <1>4 DEF Register, Sent, WatcherQueues
<1>5. CASE Leave(w)
  BY <1>1, <1>5 DEF Leave, WatcherQueues
<1>6. QED
  BY <1>1, <1>2, <1>3, <1>4, <1>5 DEF Watch

(***************************************************************************)
(* Watchers in the queue change nothing about what it ends with.           *)
(***************************************************************************)
LEMMA WatchersKeepQueue ==
    ASSUME TypeOK, NEW w \in Watchers, WatcherQueues(w)
    PROVE  /\ Elements(waiters') \subseteq Elements(waiters) \cup Watchers
           /\ \A c, st : /\ Silent(waiters', c) => Silent(waiters, c)
                         /\ EndsWith(waiters', c, st) => EndsWith(waiters, c, st)
<1> DEFINE S == Updates \cup Watchers
           Kept == /\ Elements(waiters') \subseteq Elements(waiters) \cup Watchers
                   /\ \A c, st : /\ Silent(waiters', c) => Silent(waiters, c)
                                 /\ EndsWith(waiters', c, st) => EndsWith(waiters, c, st)
<1>1. waiters \in Seq(S) /\ w \in S /\ \A c : ~Touches(w, c)
  BY DEF TypeOK, StatusTypeOK, Touches
<1> HIDE DEF S
<1>2. \A s \in Seq(S) : Elements(Append(s, w)) = Elements(s) \cup {w}
  BY <1>1, ElementsOf
<1>3. CASE UNCHANGED waiters
  BY <1>3
<1>4. CASE waiters' = Append(waiters, w)
  <2>1. Elements(waiters') = Elements(waiters) \cup {w}
    BY <1>1, <1>4, <1>2
  <2>2. QED
    BY <1>1, <1>4, <2>1, QueueAppend
<1>5. ASSUME waiters # <<>>, Head(waiters) = w
      PROVE  /\ Tail(waiters) \in Seq(S) /\ Elements(Tail(waiters)) \subseteq Elements(waiters)
             /\ \A c, st : /\ Silent(Tail(waiters), c) => Silent(waiters, c)
                           /\ EndsWith(Tail(waiters), c, st) => EndsWith(waiters, c, st)
  BY <1>1, <1>5, ElementsOf, QueueHead
<1>6. CASE waiters # <<>> /\ Head(waiters) = w /\ waiters' = Tail(waiters)
  BY <1>5, <1>6
<1>7. CASE waiters # <<>> /\ Head(waiters) = w /\ waiters' = Append(Tail(waiters), w)
  <2>1. Elements(waiters') = Elements(Tail(waiters)) \cup {w}
    BY <1>5, <1>7, <1>2
  <2>2. \A c, st : /\ Silent(waiters', c) => Silent(Tail(waiters), c)
                   /\ EndsWith(waiters', c, st) => EndsWith(Tail(waiters), c, st)
    BY <1>1, <1>5, <1>7, QueueAppend
  <2>3. QED
    BY <1>5, <1>7, <2>1, <2>2
<1>8. ASSUME NEW n \in DOMAIN waiters, waiters[n] = w,
             waiters' = SubSeq(waiters, 1, n - 1) \o SubSeq(waiters, n + 1, Len(waiters))
      PROVE  Kept
  <2>1. \A c : ~Touches(waiters[n], c)
    BY <1>1, <1>8
  <2>2. QED
    BY <1>1, <1>8, <2>1, QueueRemove
<1>9. QED
  BY <1>3, <1>4, <1>6, <1>7, <1>8 DEF WatcherQueues

-----------------------------------------------------------------------------
(* The status shows what has been done *)

LEMMA StatusOfSetup ==
    ASSUME TypeOK, JobInv, StatusInv, Setup
    PROVE  StatusInv'
<1>1. SetRight /\ Announced
  BY SetupEffect
<1>2. UNCHANGED jobVars
  BY <1>1 DEF SetRight
<1>3. StatusEarned(results, componentStates, ready, waiters)
  BY StatusInvIs
<1>4. StatusEarned(results, componentStates', ready', waiters')
  <2>1. ASSUME NEW u \in News, Handle(u)
        PROVE  StatusEarned(results, componentStates', ready', waiters')
    <3>1. u \in Updates /\ ChangeEarnedBy(results, u) /\ u.components # AllUEs
      BY NewsEarned
    <3>2. Perform(u) /\ UNCHANGED ready
      BY <2>1 DEF Handle
    <3>3. QED
      BY <1>3, <3>1, <3>2, PerformEarned
  <2>2. CASE UNCHANGED <<componentStates, ready, waiters>>
    BY <1>3, <2>2
  <2>3. QED
    BY <1>1, <2>1, <2>2 DEF Announced
<1>5. QED
  BY <1>2, <1>4, StatusInvIs DEF jobVars

LEMMA StatusOfLoop ==
    ASSUME TypeOK, JobInv, StatusInv, EventLoop \/ Clients
    PROVE  StatusInv'
<1> DEFINE S == Updates \cup Watchers
<1>1. UNCHANGED jobVars
  BY DEF EventLoop, Clients
<1>2. StatusEarned(results, componentStates, ready, waiters)
  BY StatusInvIs
<1>3. ready \in Seq(Updates) /\ waiters \in Seq(S) /\ ues \in Seq(UEs)
  BY DEF TypeOK, StatusTypeOK, JobInv
<1>4. SUFFICES StatusEarned(results, componentStates', ready', waiters')
  BY <1>1, StatusInvIs DEF jobVars
<1>5. CASE LoopRuns
  <2> DEFINE h == Head(ready)
  <2>1. ready # <<>> /\ Perform(Expanded(h)) /\ ready' = Tail(ready)
    BY <1>5 DEF LoopRuns, Expanded
  <2>2. h \in Updates /\ h \in Elements(ready) /\ Elements(Tail(ready)) \subseteq Elements(ready)
    BY <1>3, <2>1, ElementsOf
  <2>3. ChangeEarnedBy(results, h)
    BY <1>2, <2>2, NoWatcherIsUpdate DEF StatusEarned
  <2>4. /\ Expanded(h) \in Updates /\ ChangeEarnedBy(results, Expanded(h))
        /\ Expanded(h).components # AllUEs
    BY <2>2, <2>3, ExpandedEarned, ExpandedType DEF TypeOK
  <2>5. StatusEarned(results, componentStates', ready, waiters')
    BY <1>2, <2>1, <2>4, PerformEarned
  <2>6. QED
    BY <2>1, <2>2, <2>5, FewerEarned
<1>6. CASE WaiterUpdates
  <2> DEFINE h == Head(waiters)
             t == Tail(waiters)
  <2>1. waiters # <<>> /\ h \notin Watchers /\ UNCHANGED ready
    BY <1>6 DEF WaiterUpdates
  <2>2. h \in S /\ h \in Elements(waiters) /\ Elements(t) \subseteq Elements(waiters)
        /\ t \in Seq(S)
    BY <1>3, <2>1, ElementsOf
  <2>3. /\ h \in Updates /\ ChangeEarnedBy(results, h) /\ h.components # AllUEs
        /\ h.components \in Seq(Components)
    BY <1>2, <2>1, <2>2 DEF StatusEarned, Updates
  <2>4. \A c \in Elements(h.components) : EarnedBy(results, c, h.state)
    BY <2>3 DEF ChangeEarnedBy, Concerned
  <2>5. CASE t = <<>> \/ Len(h.components) <= 1
    <3>1. Apply(h.components, h.state) /\ waiters' = t
      BY <1>6, <2>5 DEF WaiterUpdates
    <3>2. \A c \in Components : EarnedBy(results, c, componentStates'[c])
      BY <1>2, <2>4, <3>1 DEF Apply, StatusEarned
    <3>3. StatusEarned(results, componentStates', ready, waiters)
      BY <1>2, <3>2 DEF StatusEarned
    <3>4. QED
      BY <2>1, <2>2, <3>1, <3>3, FewerEarned
  <2>6. CASE ~(t = <<>> \/ Len(h.components) <= 1)
    <3> DEFINE v == [h EXCEPT !.components = Tail(@)]
    <3>1. Apply(<<Head(h.components)>>, h.state) /\ waiters' = Append(t, v)
      BY <1>6, <2>6 DEF WaiterUpdates
    <3>2. h.components # <<>> /\ Len(h.components) > 1
      <4>1. Len(h.components) \in Nat /\ ~(Len(h.components) <= 1)
        BY <2>3, <2>6
      <4>2. Len(h.components) > 1
        BY <4>1
      <4>3. Len(<<>>) = 0
        OBVIOUS
      <4>4. QED
        BY <4>2, <4>3
    <3>3. /\ Head(h.components) \in Elements(h.components)
          /\ Tail(h.components) \in Seq(Components)
          /\ Elements(Tail(h.components)) \subseteq Elements(h.components)
          /\ Head(h.components) \in Components
      BY <2>3, <3>2, ElementsOf, HeadTailProperties
    <3>4. Elements(<<Head(h.components)>>) = {Head(h.components)}
      BY <3>3, OneComponent
    <3>5. \A c \in Components : EarnedBy(results, c, componentStates'[c])
      BY <1>2, <2>4, <3>1, <3>3, <3>4 DEF Apply, StatusEarned
    <3>6. /\ v \in Updates /\ v.components = Tail(h.components) /\ v.state = h.state
      BY <2>3, <3>3 DEF Updates
    <3>7. v.components # AllUEs
      <4>1. ASSUME NEW cs \in Seq(Components)
            PROVE  cs # AllUEs
        <5>1. cs # <<>> => cs[1] \in Components
          OBVIOUS
        <5>2. QED
          BY <5>1, Names DEF AllUEs
      <4>2. QED
        BY <3>3, <3>6, <4>1
    <3>8. ChangeEarnedBy(results, v)
      <4>1. Concerned(h) \subseteq UEs /\ h.state # "checking_out"
            /\ \A c \in Concerned(h) : EarnedBy(results, c, h.state)
        BY <2>3, <3>2 DEF ChangeEarnedBy
      <4>2. Concerned(v) \subseteq Concerned(h)
        BY <2>3, <3>3, <3>6, <3>7 DEF Concerned
      <4>3. QED
        BY <3>6, <4>1, <4>2 DEF ChangeEarnedBy
    <3>9. Elements(waiters') = Elements(t) \cup {v}
      <4>1. t \in Seq(S) /\ v \in S
        BY <2>2, <3>6
      <4>2. ASSUME NEW s \in Seq(S), NEW e \in S
            PROVE  Elements(Append(s, e)) = Elements(s) \cup {e}
        BY ElementsOf
      <4> HIDE DEF S, t, v
      <4>3. QED
        BY <3>1, <4>1, <4>2
    <3>10. QED
      BY <1>2, <2>1, <2>2, <3>5, <3>7, <3>8, <3>9 DEF StatusEarned
  <2>7. QED
    BY <2>5, <2>6
<1>7. ASSUME NEW w \in Watchers, Watch(w) \/ Register(w) \/ Sent(w) \/ Leave(w)
      PROVE  StatusEarned(results, componentStates', ready', waiters')
  <2>1. WatcherQueues(w) /\ UNCHANGED <<componentStates, ready>>
    BY <1>7, WatchersQueue
  <2>2. Elements(waiters') \subseteq Elements(waiters) \cup Watchers
    BY <2>1, WatchersKeepQueue
  <2>3. QED
    BY <1>2, <2>1, <2>2, FewerEarned
<1>8. QED
  BY <1>5, <1>6, <1>7 DEF EventLoop, Clients

-----------------------------------------------------------------------------
(* What the steps of jobs report *)

CheckoutReports(j) ==
    \/ /\ UNCHANGED <<ready, results>>
       /\ jobPc[j] \in {"clone", "cloning"} =>
             jobPc'[j] \in {"clone", "cloning"} /\ jobAt'[j] = jobAt[j]
    \/ \E c \in Components :
          /\ jobPc[j] = "next"
          /\ ready' = ready \o <<Update(<<c>>, "checking_out"), Update(<<c>>, "checked_out")>>
          /\ results' = results \cup {<<c, "found">>}
    \/ \E c \in Components :
          /\ jobPc[j] = "next" /\ jobPc'[j] = "clone" /\ TargetAt(jobAt'[j]) = c
          /\ ready' = ready \o <<Update(<<c>>, "checking_out")>>
          /\ UNCHANGED results
    \/ \E c \in Components :
          /\ c = TargetAt(jobAt[j])
          /\ ready' = ready \o <<Update(<<c>>, "checked_out")>>
          /\ results' = results \cup {<<c, "cloned">>}
    \/ \E c \in Components :
          /\ c = TargetAt(jobAt[j])
          /\ ready' = ready \o <<ChangeErrors>>
          /\ results' = results \cup {<<c, "not cloned">>}

LEMMA CheckoutEffect ==
    ASSUME TypeOK, JobInv, NEW j \in Checkouts, AcceptCheckout(j) \/ CheckoutJob(j)
    PROVE  UNCHANGED loopVars /\ OthersStay(j) /\ CheckoutReports(j)
<1>1. j \in Jobs /\ UNCHANGED loopVars
  BY JobsKeepLoop DEF Jobs
<1>2. CASE AcceptCheckout(j)
  <2>1. OthersStay(j)
    BY <1>1, <1>2 DEF AcceptCheckout, TypeOK, OthersStay
  <2>2. UNCHANGED <<ready, results>> /\ jobPc[j] = "none"
    BY <1>2 DEF AcceptCheckout, statusVars
  <2>3. QED
    BY <1>1, <2>1, <2>2 DEF CheckoutReports
<1>3. CASE FindFolder(j)
  <2> DEFINE at == NextEntry(j)
             c == TargetAt(at)
  <2>1. /\ jobPc[j] = "next" /\ EntriesLeft(jobAt[j]) # {}
        /\ jobAt' = [jobAt EXCEPT ![j] = at] /\ UNCHANGED <<jobPc, jobConfig>>
        /\ ready' = ready \o <<Update(<<c>>, "checking_out"), Update(<<c>>, "checked_out")>>
        /\ results' = results \cup {<<c, "found">>}
    BY <1>3 DEF FindFolder, Schedule
  <2>2. c \in Components
    BY <1>1, <2>1, NextTarget
  <2>3. OthersStay(j)
    BY <1>1, <2>1 DEF TypeOK, OthersStay
  <2>4. QED
    BY <1>1, <2>1, <2>2, <2>3 DEF CheckoutReports
<1>4. CASE FindNoFolder(j)
  <2> DEFINE at == NextEntry(j)
             c == TargetAt(at)
  <2>1. /\ jobPc[j] = "next" /\ EntriesLeft(jobAt[j]) # {}
        /\ jobAt' = [jobAt EXCEPT ![j] = at] /\ jobPc' = [jobPc EXCEPT ![j] = "clone"]
        /\ jobConfig' = [jobConfig EXCEPT ![j] = Used(Kinds[at[1]])]
        /\ ready' = ready \o <<Update(<<c>>, "checking_out")>> /\ UNCHANGED results
    BY <1>4 DEF FindNoFolder, Schedule
  <2>2. c \in Components
    BY <1>1, <2>1, NextTarget
  <2>3. OthersStay(j) /\ jobAt'[j] = at /\ jobPc'[j] = "clone"
    BY <1>1, <2>1 DEF TypeOK, OthersStay
  <2>4. QED
    BY <1>1, <2>1, <2>2, <2>3 DEF CheckoutReports
<1>5. CASE BeginClone(j)
  <2>1. OthersStay(j) /\ jobPc'[j] = "cloning" /\ jobAt'[j] = jobAt[j]
    BY <1>1, <1>5 DEF BeginClone, TypeOK, OthersStay
  <2>2. UNCHANGED <<ready, results>>
    BY <1>5 DEF BeginClone, statusVars
  <2>3. QED
    BY <1>1, <2>1, <2>2 DEF CheckoutReports
<1>6. ASSUME NEW ok \in BOOLEAN, Report(j, ok), jobPc[j] \in {"clone", "cloning"},
             UNCHANGED jobAt
      PROVE  OthersStay(j) /\ CheckoutReports(j)
  <2> DEFINE c == TargetAt(jobAt[j])
  <2>1. c \in Components
    BY <1>6, CloneTarget
  <2>2. OthersStay(j)
    BY <1>1, <1>6 DEF Report, TypeOK, OthersStay
  <2>3. CASE ok
    <3>1. /\ ready' = ready \o <<Update(<<c>>, "checked_out")>>
          /\ results' = results \cup {<<c, "cloned">>}
      BY <1>6, <2>3 DEF Report, Schedule
    <3>2. QED
      BY <2>1, <2>2, <3>1 DEF CheckoutReports
  <2>4. CASE ~ok
    <3>1. /\ ready' = ready \o <<ChangeErrors>>
          /\ results' = results \cup {<<c, "not cloned">>}
      BY <1>6, <2>4 DEF Report, Schedule
    <3>2. QED
      BY <2>1, <2>2, <3>1 DEF CheckoutReports
  <2>5. QED
    BY <2>3, <2>4
<1>7. CASE CloneCollides(j)
  BY <1>1, <1>6, <1>7 DEF CloneCollides
<1>8. CASE EndClone(j)
  <2>1. PICK r \in CloneResults(jobConfig[j]) : Report(j, r.ok)
    BY <1>8 DEF EndClone
  <2>2. r.ok \in BOOLEAN
    <3>1. \/ r = [content |-> jobConfig[j].commit, ok |-> TRUE]
          \/ r = [content |-> "absent", ok |-> FALSE]
          \/ r = [content |-> "latest", ok |-> FALSE]
      BY <2>1 DEF CloneResults
    <3>2. CASE r = [content |-> jobConfig[j].commit, ok |-> TRUE]
      BY <3>2
    <3>3. CASE r = [content |-> "absent", ok |-> FALSE]
      BY <3>3
    <3>4. CASE r = [content |-> "latest", ok |-> FALSE]
      BY <3>4
    <3>5. QED
      BY <3>1, <3>2, <3>3, <3>4
  <2>3. QED
    BY <1>1, <1>6, <1>8, <2>1, <2>2 DEF EndClone
<1>9. CASE EndCheckout(j)
  <2>1. OthersStay(j) /\ jobPc[j] = "next"
    BY <1>1, <1>9 DEF EndCheckout, TypeOK, OthersStay
  <2>2. UNCHANGED <<ready, results>>
    BY <1>9 DEF EndCheckout, statusVars
  <2>3. QED
    BY <1>1, <2>1, <2>2 DEF CheckoutReports
<1>10. QED
  BY <1>2, <1>3, <1>4, <1>5, <1>7, <1>8, <1>9 DEF CheckoutJob

StageReports(j, n) ==
    /\ n = jobAt[j][1] /\ jobPc[j] = "building"
    /\ \/ \E c \in Components :
             /\ n # 4 /\ c = Stages[n] /\ jobPc'[j] = "ended"
             /\ \/ /\ ready' = ready
                   /\ results' = results \cup {<<c, "build raised">>}
                \/ /\ ready' = ready \o <<Update(<<c>>, "failed")>>
                   /\ results' = results \cup {<<c, "build failed">>}
                \/ /\ ready' = ready \o <<Update(<<c>>, "built")>>
                   /\ results' = results \cup {<<c, "built">>}
       \/ \E c \in Components :
             /\ n # 4 /\ c = Stages[n] /\ jobPc'[j] = "building" /\ jobAt'[j][1] = n + 1
             /\ ready' = ready \o <<Update(<<c>>, "built"), Update(OfStage(n + 1), "building")>>
             /\ results' = results \cup {<<c, "built">>}
       \/ /\ n = 4 /\ jobPc'[j] = "ended"
          /\ \/ ready' = ready
             \/ ready' = ready \o <<Update(AllUEs, "failed")>>
             \/ ready' = ready \o <<Update(AllUEs, "built")>>
          /\ results \subseteq results'

BuildReports(j) ==
    \/ /\ UNCHANGED <<ready, results>>
       /\ jobPc[j] # "building" /\ jobPc'[j] # "building"
    \/ /\ jobPc[j] # "building" /\ UNCHANGED results
       /\ ready' = ready \o <<Update(OfStage(1), "building")>>
       /\ jobPc'[j] = "building" /\ jobAt'[j][1] = 1
    \/ \E n \in 1..4 : StageReports(j, n)

\* Adding one change to a queue, or two.
LEMMA UpTo ==
    \A l \in Nat : \A i \in 1..l + 1 : (i \in 1..l /\ i <= l) \/ (i = l + 1 /\ ~(i <= l))
OBVIOUS

LEMMA ConcatOne ==
    ASSUME NEW S, NEW s \in Seq(S), NEW a \in S
    PROVE  s \o <<a>> = Append(s, a)
<1>1. <<a>> \in Seq(S) /\ Len(<<a>>) = 1 /\ <<a>>[1] = a
  OBVIOUS
<1>2. /\ s \o <<a>> \in Seq(S) /\ Len(s \o <<a>>) = Len(s) + 1
      /\ \A i \in 1..Len(s) + 1 : (s \o <<a>>)[i] = IF i <= Len(s) THEN s[i] ELSE a
  <2>1. /\ s \o <<a>> \in Seq(S) /\ Len(s \o <<a>>) = Len(s) + Len(<<a>>)
        /\ \A i \in 1..Len(s) + Len(<<a>>) :
              (s \o <<a>>)[i] = IF i <= Len(s) THEN s[i] ELSE <<a>>[i - Len(s)]
    BY <1>1, ConcatProperties
  <2>2. \A i \in 1..Len(s) + 1 : ~(i <= Len(s)) => i - Len(s) = 1
    BY LenProperties
  <2>3. QED
    BY <1>1, <2>1, <2>2
<1>3. /\ Append(s, a) \in Seq(S) /\ Len(Append(s, a)) = Len(s) + 1
      /\ \A i \in 1..Len(s) : Append(s, a)[i] = s[i]
      /\ Append(s, a)[Len(s) + 1] = a
  BY AppendProperties
<1>4. ASSUME NEW i \in 1..Len(s) + 1
      PROVE  (i \in 1..Len(s) /\ i <= Len(s)) \/ (i = Len(s) + 1 /\ ~(i <= Len(s)))
  <2>1. Len(s) \in Nat
    BY LenProperties
  <2>2. QED
    BY <2>1, UpTo
<1>5. \A i \in 1..Len(s) + 1 : (s \o <<a>>)[i] = Append(s, a)[i]
  BY <1>2, <1>3, <1>4
<1>6. QED
  BY <1>2, <1>3, <1>5, SeqEqual

LEMMA AppendPair ==
    ASSUME NEW a, NEW b
    PROVE  Append(<<a>>, b) = <<a, b>>
<1> DEFINE S == {a, b}
<1>1. /\ <<a>> \in Seq(S) /\ Len(<<a>>) = 1 /\ <<a>>[1] = a /\ b \in S
      /\ <<a, b>> \in Seq(S) /\ Len(<<a, b>>) = 2 /\ <<a, b>>[1] = a /\ <<a, b>>[2] = b
  OBVIOUS
<1> HIDE DEF S
<1>2. /\ Append(<<a>>, b) \in Seq(S) /\ Len(Append(<<a>>, b)) = 2
      /\ Append(<<a>>, b)[1] = a /\ Append(<<a>>, b)[2] = b
  BY <1>1, AppendProperties
<1>3. \A i \in 1..2 : i = 1 \/ i = 2
  OBVIOUS
<1>4. \A i \in 1..Len(Append(<<a>>, b)) : Append(<<a>>, b)[i] = <<a, b>>[i]
  BY <1>1, <1>2, <1>3
<1>5. QED
  BY <1>1, <1>2, <1>4, SeqEqual

LEMMA ConcatTwo ==
    ASSUME NEW S, NEW s \in Seq(S), NEW a \in S, NEW b \in S
    PROVE  s \o <<a, b>> = Append(Append(s, a), b)
<1>1. <<a>> \in Seq(S) /\ <<b>> \in Seq(S) /\ Append(<<a>>, b) = <<a, b>>
  <2>1. <<a>> \in Seq(S) /\ <<b>> \in Seq(S)
    OBVIOUS
  <2>2. QED
    BY <2>1, AppendPair
<1>2. <<a>> \o <<b>> = <<a, b>>
  BY <1>1, ConcatOne
<1>3. (s \o <<a>>) \o <<b>> = s \o (<<a>> \o <<b>>)
  BY <1>1, ConcatAssociative
<1>4. s \o <<a>> \in Seq(S)
  BY <1>1, ConcatProperties
<1>5. (s \o <<a>>) \o <<b>> = Append(s \o <<a>>, b)
  BY <1>4, ConcatOne
<1>6. s \o <<a>> = Append(s, a)
  BY ConcatOne
<1>7. QED
  BY <1>2, <1>3, <1>5, <1>6

LEMMA Pairs ==
    /\ \A a, b : /\ <<a>> \o <<b>> = <<a, b>> /\ <<>> \o <<a>> = <<a>>
                 /\ {a} \X {b} = {<<a, b>>}
    /\ \A x, a, b : x = <<a, b>> => x[1] = a
<1>1. ASSUME NEW a, NEW b
      PROVE  <<a>> \o <<b>> = <<a, b>>
  <2> DEFINE S == {a, b}
  <2>1. <<a>> \in Seq(S) /\ b \in S /\ Append(<<a>>, b) = <<a, b>>
    BY AppendPair
  <2> HIDE DEF S
  <2>2. QED
    BY <2>1, ConcatOne
<1>2. \A a : <<>> \o <<a>> = <<a>>
  OBVIOUS
<1>3. \A a, b : {a} \X {b} = {<<a, b>>}
  OBVIOUS
<1>4. \A x, a, b : x = <<a, b>> => x[1] = a
  OBVIOUS
<1>5. QED
  BY <1>1, <1>2, <1>3, <1>4

LEMMA FinishReports ==
    ASSUME TypeOK, NEW j \in Builds, NEW before \in Seq(Updates), Finish(j, before)
    PROVE  ready' = ready \o before /\ jobPc'[j] = "ended"
BY DEF Finish, Schedule, TypeOK, Jobs

LEMMA NothingMore ==
    ASSUME TypeOK
    PROVE  ready \o <<>> = ready
BY ConcatEmptySeq DEF TypeOK, StatusTypeOK

LEMMA BuildEffect ==
    ASSUME TypeOK, JobInv, NEW j \in Builds,
           BuildJob(j) \/ \E target \in Targets : AcceptBuild(j, target)
    PROVE  UNCHANGED loopVars /\ OthersStay(j) /\ BuildReports(j)
<1>1. j \in Jobs /\ UNCHANGED loopVars /\ <<>> \in Seq(Updates)
  BY JobsKeepLoop, ShortLists DEF Jobs
<1>2. CheckoutTypeOK' /\ results' \subseteq Components \X Result
  BY BuildStep DEF TypeOK
<1>3. ASSUME NEW target \in Targets, AcceptBuild(j, target)
      PROVE  OthersStay(j) /\ BuildReports(j)
  <2>1. OthersStay(j) /\ jobPc[j] = "none" /\ jobPc'[j] = "patch"
    BY <1>1, <1>3 DEF AcceptBuild, TypeOK, OthersStay
  <2>2. UNCHANGED <<ready, results>>
    BY <1>3 DEF AcceptBuild, statusVars
  <2>3. QED
    BY <2>1, <2>2 DEF BuildReports
<1>4. CASE Patch(j)
  <2>1. /\ UNCHANGED <<loopVars, setupVars, jobConfig>> /\ UNCHANGED results
        /\ Finish(j, <<>>) \/ Enter(j, 1, <<>>)
    BY <1>4 DEF Patch
  <2>2. jobPc[j] = "patch"
    BY <1>4 DEF Patch
  <2>3. CASE Finish(j, <<>>)
    <3>1. OthersStay(j)
      BY <1>1, <1>2, <2>1, <2>3, FinishEffect
    <3>2. UNCHANGED ready /\ jobPc'[j] = "ended"
      BY <1>1, <2>3, FinishReports, NothingMore
    <3>3. QED
      BY <2>1, <2>2, <3>1, <3>2 DEF BuildReports
  <2>4. CASE Enter(j, 1, <<>>)
    <3>1. 1 \in 1..4
      OBVIOUS
    <3>2. /\ OthersStay(j)
          /\ \/ Finish(j, <<>>)
             \/ /\ jobPc'[j] = "building" /\ jobAt'[j] = <<1, 0>>
                /\ Schedule(<<>> \o <<Update(OfStage(1), "building")>>)
      BY <1>1, <1>2, <2>1, <2>4, <3>1, EnterEffect
    <3>3. CASE ~Finish(j, <<>>)
      <4> DEFINE a == Update(OfStage(1), "building")
      <4>1. <<>> \o <<a>> = <<a>>
        BY Pairs
      <4>2. ready' = ready \o <<a>>
        BY <3>2, <3>3, <4>1 DEF Schedule
      <4>3. jobPc'[j] = "building" /\ jobAt'[j][1] = 1
        BY <3>2, <3>3
      <4>4. QED
        BY <2>1, <2>2, <3>2, <4>2, <4>3 DEF BuildReports
    <3>4. QED
      BY <2>3, <3>3
  <2>5. QED
    BY <2>1, <2>3, <2>4
<1>5. CASE EndStage(j)
  <2>1. PICK n \in 1..4, outcome \in {"built", "build failed", "build raised"} :
              /\ n = jobAt[j][1] /\ jobPc[j] = "building"
              /\ results' = results \cup (Affected(n) \X {outcome})
              /\ UNCHANGED <<checkoutVars, loopVars, setupVars, jobConfig>>
              /\ \/ n # 4 /\ outcome = "build raised" /\ Finish(j, <<>>)
                 \/ n # 4 /\ outcome = "build failed" /\ Finish(j, <<Update(OfStage(n), "failed")>>)
                 \/ n # 4 /\ outcome = "built" /\ Finish(j, <<Update(OfStage(n), "built")>>)
                 \/ /\ n # 4 /\ outcome = "built"
                    /\ Enter(j, n + 1, <<Update(OfStage(n), "built")>>)
                 \/ n = 4 /\ Finish(j, <<>>)
                 \/ n = 4 /\ Finish(j, <<Update(AllUEs, "failed")>>)
                 \/ n = 4 /\ Finish(j, <<Update(AllUEs, "built")>>)
    BY <1>5, StageEffect
  <2>2. SUFFICES OthersStay(j) /\ StageReports(j, n)
    BY <2>1 DEF BuildReports
  <2>3. /\ <<Update(OfStage(n), "failed")>> \in Seq(Updates)
        /\ <<Update(OfStage(n), "built")>> \in Seq(Updates)
        /\ <<Update(AllUEs, "failed")>> \in Seq(Updates)
        /\ <<Update(AllUEs, "built")>> \in Seq(Updates)
    BY <2>1, StageTypes, Reports, ShortLists
  <2>4. ASSUME NEW before \in Seq(Updates), Finish(j, before)
        PROVE  OthersStay(j) /\ ready' = ready \o before /\ jobPc'[j] = "ended"
    BY <1>2, <2>1, <2>4, FinishEffect, FinishReports
  <2>5. ASSUME n # 4
        PROVE  /\ Stages[n] \in Components /\ OfStage(n) = <<Stages[n]>>
               /\ results' = results \cup {<<Stages[n], outcome>>}
    <3>1. Stages[n] \in Components /\ Affected(n) = {Stages[n]}
      BY <2>1, <2>5, StageTypes
    <3>2. QED
      BY <2>1, <3>1, Pairs DEF OfStage
  <2>6. CASE n # 4 /\ outcome = "build raised" /\ Finish(j, <<>>)
    BY <1>1, <2>1, <2>4, <2>5, <2>6, NothingMore DEF StageReports
  <2>7. CASE /\ n # 4 /\ outcome = "build failed"
             /\ Finish(j, <<Update(OfStage(n), "failed")>>)
    BY <2>1, <2>3, <2>4, <2>5, <2>7 DEF StageReports
  <2>8. CASE /\ n # 4 /\ outcome = "built"
             /\ Finish(j, <<Update(OfStage(n), "built")>>)
    BY <2>1, <2>3, <2>4, <2>5, <2>8 DEF StageReports
  <2>9. CASE /\ n # 4 /\ outcome = "built" /\ ~Finish(j, <<Update(OfStage(n), "built")>>)
             /\ Enter(j, n + 1, <<Update(OfStage(n), "built")>>)
    <3>1. n + 1 \in 1..4
      BY <2>1, <2>9, NextStage
    <3>2. /\ OthersStay(j)
          /\ jobPc'[j] = "building" /\ jobAt'[j] = <<n + 1, 0>>
          /\ Schedule(<<Update(OfStage(n), "built")>> \o <<Update(OfStage(n + 1), "building")>>)
      BY <1>2, <2>1, <2>3, <2>9, <3>1, EnterEffect
    <3> DEFINE a == Update(OfStage(n), "built")
               b == Update(OfStage(n + 1), "building")
    <3>3. <<a>> \o <<b>> = <<a, b>>
      BY Pairs
    <3>4. ready' = ready \o <<a, b>>
      BY <3>2, <3>3 DEF Schedule
    <3>5. jobAt'[j][1] = n + 1
      BY <3>2, Pairs
    <3>6. QED
      BY <2>1, <2>5, <2>9, <3>2, <3>4, <3>5 DEF StageReports
  <2>10. ASSUME n = 4, NEW before \in {<<>>, <<Update(AllUEs, "failed")>>, <<Update(AllUEs, "built")>>},
                Finish(j, before)
         PROVE  OthersStay(j) /\ StageReports(j, n)
    <3>1. OthersStay(j) /\ ready' = ready \o before /\ jobPc'[j] = "ended"
      BY <1>1, <2>3, <2>4, <2>10
    <3>2. results \subseteq results'
      BY <2>1
    <3>3. \/ ready' = ready
          \/ ready' = ready \o <<Update(AllUEs, "failed")>>
          \/ ready' = ready \o <<Update(AllUEs, "built")>>
      BY <3>1, NothingMore
    <3>4. QED
      BY <2>1, <2>10, <3>1, <3>2, <3>3 DEF StageReports
  <2>11. QED
    BY <2>1, <2>6, <2>7, <2>8, <2>9, <2>10
<1>6. QED
  BY <1>1, <1>3, <1>4, <1>5 DEF BuildJob

LEMMA AppendEarned ==
    ASSUME NEW rs, NEW states, NEW rdy \in Seq(Updates), NEW wts,
           StatusEarned(rs, states, rdy, wts), NEW a \in Updates, ChangeEarnedBy(rs, a)
    PROVE  StatusEarned(rs, states, Append(rdy, a), wts) /\ Append(rdy, a) \in Seq(Updates)
<1>1. Elements(Append(rdy, a)) = Elements(rdy) \cup {a}
  BY ElementsOf
<1>2. Append(rdy, a) \in Seq(Updates)
  BY AppendProperties
<1>3. QED
  BY <1>1, <1>2 DEF StatusEarned

(***************************************************************************)
(* The state of the status before a job reports, with what is known after. *)
(***************************************************************************)
LEMMA EarnedBefore ==
    ASSUME TypeOK, StatusInv, UNCHANGED loopVars, results \subseteq results'
    PROVE  /\ StatusEarned(results', componentStates', ready, waiters')
           /\ ready \in Seq(Updates)
<1>1. StatusEarned(results, componentStates, ready, waiters)
  BY StatusInvIs
<1>2. UNCHANGED <<componentStates, waiters>>
  BY DEF loopVars
<1>3. StatusEarned(results', componentStates, ready, waiters)
  BY <1>1, EarnedMore DEF StatusEarned
<1>4. QED
  BY <1>2, <1>3 DEF TypeOK, StatusTypeOK

LEMMA StatusOfCheckout ==
    ASSUME TypeOK, JobInv, StatusInv, NEW j \in Checkouts, AcceptCheckout(j) \/ CheckoutJob(j)
    PROVE  StatusInv'
<1>1. UNCHANGED loopVars /\ OthersStay(j) /\ CheckoutReports(j)
  BY CheckoutEffect
<1>2. results \subseteq results'
  BY <1>1 DEF CheckoutReports
<1>3. StagesEarnedBy(results', jobPc', jobAt')
  <2>1. j \notin Builds /\ Builds \subseteq Jobs
    BY RequestsAssumption DEF Jobs
  <2>2. StagesEarnedBy(results, jobPc, jobAt)
    BY StatusInvIs
  <2>3. QED
    BY <1>1, <1>2, <2>1, <2>2 DEF OthersStay, StagesEarnedBy
<1>4. StatusEarned(results', componentStates', ready, waiters') /\ ready \in Seq(Updates)
  BY <1>1, <1>2, EarnedBefore
<1>5. ASSUME NEW a \in Updates, ChangeEarnedBy(results', a), ready' = ready \o <<a>>
      PROVE  StatusEarned(results', componentStates', ready', waiters')
  BY <1>4, <1>5, ConcatOne, AppendEarned
<1>6. ASSUME NEW a \in Updates, NEW b \in Updates, ready' = ready \o <<a, b>>,
             ChangeEarnedBy(results', a), ChangeEarnedBy(results', b)
      PROVE  StatusEarned(results', componentStates', ready', waiters')
  <2>1. ready' = Append(Append(ready, a), b)
    BY <1>4, <1>6, ConcatTwo
  <2>2. /\ StatusEarned(results', componentStates', Append(ready, a), waiters')
        /\ Append(ready, a) \in Seq(Updates)
    BY <1>4, <1>6, AppendEarned
  <2>3. QED
    BY <1>6, <2>1, <2>2, AppendEarned
<1>7. StatusEarned(results', componentStates', ready', waiters')
  <2>1. CASE UNCHANGED ready
    BY <1>4, <2>1
  <2>2. ASSUME NEW c \in Components,
               ready' = ready \o <<Update(<<c>>, "checking_out"), Update(<<c>>, "checked_out")>>,
               <<c, "found">> \in results'
        PROVE  StatusEarned(results', componentStates', ready', waiters')
    <3> DEFINE a == Update(<<c>>, "checking_out")
               b == Update(<<c>>, "checked_out")
    <3>1. a \in Updates /\ b \in Updates
      BY ReportsOfOne
    <3>2. ChangeEarnedBy(results', a) /\ ChangeEarnedBy(results', b)
      BY <2>2, ReportEarned
    <3>3. QED
      BY <1>6, <2>2, <3>1, <3>2
  <2>3. ASSUME NEW c \in Components, ready' = ready \o <<Update(<<c>>, "checking_out")>>
        PROVE  StatusEarned(results', componentStates', ready', waiters')
    <3>1. Update(<<c>>, "checking_out") \in Updates
      BY ReportsOfOne
    <3>2. QED
      BY <1>5, <2>3, <3>1, ReportEarned
  <2>4. ASSUME NEW c \in Components, ready' = ready \o <<Update(<<c>>, "checked_out")>>,
               <<c, "cloned">> \in results'
        PROVE  StatusEarned(results', componentStates', ready', waiters')
    <3>1. Update(<<c>>, "checked_out") \in Updates
      BY ReportsOfOne
    <3>2. QED
      BY <1>5, <2>4, <3>1, ReportEarned
  <2>5. ASSUME NEW c \in Components, ready' = ready \o <<ChangeErrors>>
        PROVE  StatusEarned(results', componentStates', ready', waiters')
    BY <1>5, <2>5, ErrorsType, ReportEarned
  <2>6. QED
    BY <1>1, <2>1, <2>2, <2>3, <2>4, <2>5 DEF CheckoutReports
<1>8. QED
  BY <1>3, <1>7, StatusInvIs

LEMMA StatusOfBuild ==
    ASSUME TypeOK, JobInv, StatusInv, NEW j \in Builds,
           BuildJob(j) \/ \E target \in Targets : AcceptBuild(j, target)
    PROVE  StatusInv'
<1>1. UNCHANGED loopVars /\ OthersStay(j) /\ BuildReports(j)
  BY BuildEffect
<1>2. results \subseteq results'
  BY <1>1 DEF BuildReports, StageReports
<1>3. ASSUME jobPc'[j] = "building" /\ jobAt'[j][1] > 1
                => <<Stages[jobAt'[j][1] - 1], "built">> \in results'
      PROVE  StagesEarnedBy(results', jobPc', jobAt')
  <2>1. Builds \subseteq Jobs
    BY DEF Jobs
  <2>2. StagesEarnedBy(results, jobPc, jobAt)
    BY StatusInvIs
  <2>3. QED
    BY <1>1, <1>2, <1>3, <2>1, <2>2 DEF OthersStay, StagesEarnedBy
<1>4. StatusEarned(results', componentStates', ready, waiters') /\ ready \in Seq(Updates)
  BY <1>1, <1>2, EarnedBefore
<1>5. ASSUME NEW a \in Updates, ChangeEarnedBy(results', a), ready' = ready \o <<a>>
      PROVE  StatusEarned(results', componentStates', ready', waiters')
  BY <1>4, <1>5, ConcatOne, AppendEarned
<1>6. ASSUME NEW a \in Updates, NEW b \in Updates, ready' = ready \o <<a, b>>,
             ChangeEarnedBy(results', a), ChangeEarnedBy(results', b)
      PROVE  StatusEarned(results', componentStates', ready', waiters')
  <2>1. ready' = Append(Append(ready, a), b)
    BY <1>4, <1>6, ConcatTwo
  <2>2. /\ StatusEarned(results', componentStates', Append(ready, a), waiters')
        /\ Append(ready, a) \in Seq(Updates)
    BY <1>4, <1>6, AppendEarned
  <2>3. QED
    BY <1>6, <2>1, <2>2, AppendEarned
<1>7. CASE UNCHANGED ready /\ jobPc'[j] # "building"
  BY <1>3, <1>4, <1>7, StatusInvIs
<1>8. CASE /\ ready' = ready \o <<Update(OfStage(1), "building")>>
           /\ jobPc'[j] = "building" /\ jobAt'[j][1] = 1
  <2> DEFINE a == Update(OfStage(1), "building")
  <2>1. 1 \in 1..4 /\ ~(1 > 1)
    OBVIOUS
  <2>2. a \in Updates
    BY <2>1, Reports, StageTypes
  <2>3. ChangeEarnedBy(results', a)
    BY <2>1, StageEarned
  <2>4. StatusEarned(results', componentStates', ready', waiters')
    BY <1>5, <1>8, <2>2, <2>3
  <2>5. StagesEarnedBy(results', jobPc', jobAt')
    BY <1>3, <1>8, <2>1
  <2>6. QED
    BY <2>4, <2>5, StatusInvIs
<1>9. ASSUME NEW n \in 1..4, StageReports(j, n)
      PROVE  StatusInv'
  <2>1. ASSUME NEW c \in Components, jobPc'[j] = "ended", NEW st \in {"failed", "built"},
               ready' = ready \o <<Update(<<c>>, st)>>,
               st = "failed" => <<c, "build failed">> \in results',
               st = "built" => <<c, "built">> \in results'
        PROVE  StatusInv'
    <3> DEFINE a == Update(<<c>>, st)
    <3>1. a \in Updates
      BY ReportsOfOne
    <3>2. ChangeEarnedBy(results', a)
      BY <2>1, ReportEarned
    <3>3. QED
      BY <1>3, <1>5, <2>1, <3>1, <3>2, StatusInvIs
  <2>2. ASSUME n # 4, jobPc'[j] = "building", jobAt'[j][1] = n + 1,
               NEW c \in Components, c = Stages[n], <<c, "built">> \in results',
               ready' = ready \o <<Update(<<c>>, "built"), Update(OfStage(n + 1), "building")>>
        PROVE  StatusInv'
    <3> DEFINE a == Update(<<c>>, "built")
               b == Update(OfStage(n + 1), "building")
    <3>1. n + 1 \in 1..4 /\ n + 1 - 1 = n
      BY <2>2, NextStage
    <3>2. a \in Updates /\ b \in Updates
      BY <3>1, Reports, ReportsOfOne, StageTypes
    <3>3. ChangeEarnedBy(results', a)
      BY <2>2, ReportEarned
    <3>4. <<Stages[n + 1 - 1], "built">> \in results'
      BY <2>2, <3>1
    <3>5. ChangeEarnedBy(results', b)
      BY <3>1, <3>4, StageEarned
    <3>6. StatusEarned(results', componentStates', ready', waiters')
      BY <1>6, <2>2, <3>2, <3>3, <3>5
    <3>7. StagesEarnedBy(results', jobPc', jobAt')
      <4>1. <<Stages[jobAt'[j][1] - 1], "built">> \in results'
        BY <2>2, <3>1
      <4>2. QED
        BY <1>3, <4>1
    <3>8. QED
      BY <3>6, <3>7, StatusInvIs
  <2>3. ASSUME jobPc'[j] = "ended", NEW st \in {"failed", "built"},
               ready' = ready \o <<Update(AllUEs, st)>>
        PROVE  StatusInv'
    <3> DEFINE a == Update(AllUEs, st)
    <3>1. a \in Updates
      BY Reports
    <3>2. ChangeEarnedBy(results', a)
      BY StageEarned
    <3>3. QED
      BY <1>3, <1>5, <2>3, <3>1, <3>2, StatusInvIs
  <2>4. CASE UNCHANGED ready /\ jobPc'[j] = "ended"
    BY <1>7, <2>4
  <2>5. QED
    BY <1>9, <2>1, <2>2, <2>3, <2>4 DEF StageReports
<1>10. QED
  BY <1>1, <1>7, <1>8, <1>9 DEF BuildReports

LEMMA StatusStep ==
    ASSUME TypeOK, JobInv, StatusInv, [Next]_vars
    PROVE  StatusInv'
<1>1. CASE UNCHANGED vars
  BY <1>1 DEF vars, statusVars, jobVars, StatusInv, Earned, ChangeIsEarned, CheckoutSucceeded
<1>2. QED
  BY <1>1, StatusOfSetup, StatusOfLoop, StatusOfCheckout, StatusOfBuild DEF Next

-----------------------------------------------------------------------------
(* What will be shown of work that goes on *)

\* WillShow, of any queues and state.
Shows(rdy, wts, state, c, st) ==
    \/ EndsWith(rdy, c, st)
    \/ Silent(rdy, c) /\ EndsWith(wts, c, st)
    \/ Silent(rdy, c) /\ Silent(wts, c) /\ state = st

LEMMA WillShowIs ==
    \A c, st : /\ WillShow(c, st) <=> Shows(ready, waiters, componentStates[c], c, st)
               /\ WillShow(c, st)' <=> Shows(ready', waiters', componentStates'[c], c, st)
BY DEF WillShow, Shows, EndsWith, Silent, Touches, Elements

\* The states of work that goes on: no change of several components has one of them.
AtWork(c, st) == st = "checking_out" \/ (c \notin UEs /\ st = "building")

LEMMA WorkIsOfOne ==
    ASSUME NEW rs, NEW u \in Updates, ChangeEarnedBy(rs, u),
           u.components = AllUEs \/ Len(u.components) > 1,
           NEW c \in Concerned(u), NEW st, AtWork(c, st)
    PROVE  u.state # st
BY DEF ChangeEarnedBy, AtWork

LEMMA EmptyQueue ==
    \A c, st : Silent(<<>>, c) /\ ~EndsWith(<<>>, c, st)
<1>1. DOMAIN <<>> = {}
  OBVIOUS
<1>2. QED
  BY <1>1 DEF Silent, EndsWith

LEMMA TouchesIs ==
    \A u \in Updates : \A c : Touches(u, c) <=> c \in Elements(u.components)
BY NoWatcherIsUpdate DEF Touches

(***************************************************************************)
(* The last report about a component is what will be shown of it.          *)
(***************************************************************************)
LEMMA LastReport ==
    ASSUME NEW rdy \in Seq(Updates), NEW a \in Updates, NEW wts, NEW state, NEW c, NEW st
    PROVE  /\ c \in Elements(a.components) =>
                 (Shows(Append(rdy, a), wts, state, c, st) <=> a.state = st)
           /\ c \notin Elements(a.components) =>
                 (Shows(Append(rdy, a), wts, state, c, st) <=> Shows(rdy, wts, state, c, st))
<1>1. Touches(a, c) <=> c \in Elements(a.components)
  BY TouchesIs
<1>2. QED
  BY <1>1, QueueAppend DEF Shows

(***************************************************************************)
(* A change that gets to the condition: nothing new will be shown, unless  *)
(* it is the change itself; and what comes after it is shown instead.      *)
(***************************************************************************)
LEMMA PerformShows ==
    ASSUME TypeOK, NEW u \in Updates, Perform(u), NEW rdy, NEW c \in Components, NEW st,
           Shows(rdy, waiters', componentStates'[c], c, st), ~EndsWith(rdy, c, st)
    PROVE  /\ Silent(rdy, c)
           /\ c \in Elements(u.components) => u.state = st
           /\ c \notin Elements(u.components) => Shows(rdy, waiters, componentStates[c], c, st)
<1>1. /\ waiters \in Seq(Updates \cup Watchers)
      /\ Touches(u, c) <=> c \in Elements(u.components)
      /\ Silent(rdy, c)
  BY TouchesIs DEF TypeOK, StatusTypeOK, Shows
<1>2. CASE LockAvailable
  <2>1. Apply(u.components, u.state) /\ UNCHANGED waiters /\ waiters = <<>>
    BY <1>2 DEF Perform, LockAvailable
  <2>2. componentStates'[c] = st
    BY <2>1, EmptyQueue DEF Shows
  <2>3. componentStates'[c] = IF c \in Elements(u.components) THEN u.state ELSE componentStates[c]
    BY <2>1 DEF Apply
  <2>4. c \notin Elements(u.components) => Shows(rdy, waiters, componentStates[c], c, st)
    BY <1>1, <2>1, <2>2, <2>3, EmptyQueue DEF Shows
  <2>5. QED
    BY <1>1, <2>2, <2>3, <2>4
<1>3. CASE ~LockAvailable
  <2>1. waiters' = Append(waiters, u) /\ UNCHANGED componentStates
    BY <1>3 DEF Perform
  <2>2. /\ Silent(waiters', c) <=> Silent(waiters, c) /\ ~Touches(u, c)
        /\ Touches(u, c) => (EndsWith(waiters', c, st) <=> u.state = st)
        /\ ~Touches(u, c) => (EndsWith(waiters', c, st) <=> EndsWith(waiters, c, st))
    BY <1>1, <2>1, QueueAppend
  <2>3. QED
    BY <1>1, <2>1, <2>2 DEF Shows
<1>4. QED
  BY <1>2, <1>3

LEMMA SetupShows ==
    ASSUME TypeOK, JobInv, Setup, NEW c \in Components, NEW st, AtWork(c, st),
           WillShow(c, st)'
    PROVE  WillShow(c, st)
<1>1. Announced
  BY SetupEffect
<1>2. Shows(ready', waiters', componentStates'[c], c, st)
  BY WillShowIs
<1>3. SUFFICES Shows(ready, waiters, componentStates[c], c, st)
  BY WillShowIs
<1>4. ASSUME NEW u \in News, Handle(u)
      PROVE  Shows(ready, waiters, componentStates[c], c, st)
  <2>1. Perform(u) /\ UNCHANGED ready /\ u \in Updates
    BY <1>4, NewsType DEF Handle
  <2>2. c \in Elements(u.components) => u.state # st
    <3>1. CASE u = ChangeErrors
      BY <3>1, ErrorsType
    <3>2. CASE u # ChangeErrors
      BY <3>2 DEF News, Update, AtWork
    <3>3. QED
      BY <3>1, <3>2
  <2>3. CASE EndsWith(ready, c, st)
    BY <2>3 DEF Shows
  <2>4. CASE ~EndsWith(ready, c, st)
    BY <1>2, <2>1, <2>2, <2>4, PerformShows
  <2>5. QED
    BY <2>3, <2>4
<1>5. CASE UNCHANGED <<componentStates, ready, waiters>>
  BY <1>2, <1>5
<1>6. QED
  BY <1>1, <1>4, <1>5 DEF Announced

LEMMA LoopRunsShows ==
    ASSUME TypeOK, JobInv, StatusInv, LoopRuns, NEW c \in Components, NEW st, AtWork(c, st),
           Shows(ready', waiters', componentStates'[c], c, st)
    PROVE  Shows(ready, waiters, componentStates[c], c, st)
<1> DEFINE h == Head(ready)
           t == Tail(ready)
           u == Expanded(h)
<1>1. ready \in Seq(Updates) /\ ready # <<>> /\ Perform(u) /\ ready' = t
  BY DEF LoopRuns, Expanded, TypeOK, StatusTypeOK
<1>2. h \in Updates /\ h \in Elements(ready) /\ t \in Seq(Updates)
  BY <1>1, ElementsOf
<1>3. ChangeEarnedBy(results, h) /\ u \in Updates /\ u.state = h.state
  BY <1>2, StatusInvIs, NoWatcherIsUpdate, ExpandedType DEF StatusEarned, TypeOK
<1>4. /\ Silent(ready, c) <=> ~Touches(h, c) /\ Silent(t, c)
      /\ EndsWith(t, c, st) => EndsWith(ready, c, st)
      /\ Touches(h, c) /\ h.state = st /\ Silent(t, c) => EndsWith(ready, c, st)
  BY <1>1, QueueHead
<1>5. Touches(h, c) <=> c \in Elements(h.components)
  BY <1>2, TouchesIs
<1> HIDE DEF h, t, u
<1>6. CASE EndsWith(t, c, st)
  BY <1>4, <1>6 DEF Shows
<1>7. CASE ~EndsWith(t, c, st)
  <2>1. /\ Silent(t, c)
        /\ c \in Elements(u.components) => u.state = st
        /\ c \notin Elements(u.components) => Shows(t, waiters, componentStates[c], c, st)
    BY <1>1, <1>3, <1>7, PerformShows
  <2>2. c \in Elements(u.components) <=> c \in Elements(h.components)
    <3>1. CASE h.components # AllUEs
      BY <3>1 DEF u, Expanded
    <3>2. CASE h.components = AllUEs
      <4>1. Concerned(h) = UEs /\ Elements(u.components) = Elements(ues)
            /\ Elements(h.components) = {"ue"}
        <5>1. Elements(AllUEs) = {"ue"}
          <6>1. DOMAIN <<"ue">> = {1} /\ <<"ue">>[1] = "ue"
            OBVIOUS
          <6>2. QED
            BY <6>1 DEF Elements, AllUEs
        <5>2. QED
          BY <3>2, <5>1 DEF u, Expanded, Update, Concerned
      <4>2. c \notin Elements(h.components)
        BY <4>1, Names
      <4>3. c \notin Elements(u.components)
        <5>1. ASSUME c \in Elements(u.components)
              PROVE  FALSE
          <6>1. c \in Concerned(h)
            BY <4>1, <5>1, ElementsOf DEF JobInv
          <6>2. h.state # st
            BY <1>2, <1>3, <3>2, <6>1, WorkIsOfOne
          <6>3. QED
            BY <1>3, <2>1, <5>1, <6>2
        <5>2. QED
          BY <5>1
      <4>4. QED
        BY <4>2, <4>3
    <3>3. QED
      BY <3>1, <3>2
  <2>3. CASE c \in Elements(h.components)
    BY <1>3, <1>4, <1>5, <2>1, <2>2, <2>3 DEF Shows
  <2>4. CASE c \notin Elements(h.components)
    BY <1>4, <1>5, <1>7, <2>1, <2>2, <2>4 DEF Shows
  <2>5. QED
    BY <2>3, <2>4
<1>8. QED
  BY <1>6, <1>7

LEMMA WaiterUpdatesShows ==
    ASSUME TypeOK, JobInv, StatusInv, WaiterUpdates, NEW c \in Components, NEW st,
           AtWork(c, st), Shows(ready', waiters', componentStates'[c], c, st)
    PROVE  Shows(ready, waiters, componentStates[c], c, st)
<1> DEFINE S == Updates \cup Watchers
           h == Head(waiters)
           t == Tail(waiters)
           v == [h EXCEPT !.components = Tail(@)]
<1>1. /\ waiters \in Seq(S) /\ waiters # <<>> /\ h \notin Watchers /\ UNCHANGED ready
  BY DEF WaiterUpdates, TypeOK, StatusTypeOK
<1>2. h \in Updates /\ h \in Elements(waiters) /\ t \in Seq(S)
  BY <1>1, ElementsOf
<1>3. ChangeEarnedBy(results, h) /\ h.components # AllUEs /\ h.components \in Seq(Components)
  BY <1>1, <1>2, StatusInvIs DEF StatusEarned, Updates
<1>4. /\ Silent(waiters, c) <=> ~Touches(h, c) /\ Silent(t, c)
      /\ EndsWith(t, c, st) => EndsWith(waiters, c, st)
      /\ Touches(h, c) /\ h.state = st /\ Silent(t, c) => EndsWith(waiters, c, st)
  BY <1>1, QueueHead
<1>5. Touches(h, c) <=> c \in Elements(h.components)
  BY <1>2, TouchesIs
<1>6. \/ Apply(h.components, h.state) /\ waiters' = t
      \/ /\ Apply(<<Head(h.components)>>, h.state) /\ waiters' = Append(t, v)
         /\ ~(Len(h.components) <= 1)
  BY DEF WaiterUpdates
<1>7. CASE Apply(h.components, h.state) /\ waiters' = t
  <2>1. componentStates'[c] = IF c \in Elements(h.components) THEN h.state ELSE componentStates[c]
    BY <1>7 DEF Apply
  <2> HIDE DEF h, t
  <2>2. QED
    BY <1>1, <1>4, <1>5, <1>7, <2>1 DEF Shows
<1>8. CASE /\ Apply(<<Head(h.components)>>, h.state) /\ waiters' = Append(t, v)
           /\ ~(Len(h.components) <= 1)
  <2>1. h.components # <<>> /\ Len(h.components) > 1
    <3>1. Len(h.components) \in Nat /\ ~(Len(h.components) <= 1)
      BY <1>3, <1>8
    <3>2. Len(h.components) > 1
      BY <3>1
    <3>3. Len(<<>>) = 0
      OBVIOUS
    <3>4. QED
      BY <3>2, <3>3
  <2>2. /\ Head(h.components) \in Components /\ Tail(h.components) \in Seq(Components)
        /\ Elements(h.components) = {Head(h.components)} \cup Elements(Tail(h.components))
    BY <1>3, <2>1, ElementsOf, HeadTailProperties
  <2>3. componentStates'[c] = IF c = Head(h.components) THEN h.state ELSE componentStates[c]
    <3>1. Elements(<<Head(h.components)>>) = {Head(h.components)}
      BY <2>2, OneComponent
    <3>2. QED
      BY <1>8, <3>1 DEF Apply
  <2>4. v \in Updates /\ v.components = Tail(h.components) /\ v.state = h.state
    BY <1>2, <2>2 DEF Updates
  <2>5. c \in Elements(h.components) => h.state # st
    <3>1. Concerned(h) = Elements(h.components)
      BY <1>3 DEF Concerned
    <3>2. QED
      BY <1>2, <1>3, <2>1, <3>1, WorkIsOfOne
  <2>6. Touches(v, c) <=> c \in Elements(Tail(h.components))
    BY <2>4, TouchesIs
  <2> HIDE DEF h, t, v, S
  <2>7. /\ Silent(waiters', c) <=> Silent(t, c) /\ ~Touches(v, c)
        /\ Touches(v, c) => (EndsWith(waiters', c, st) <=> v.state = st)
        /\ ~Touches(v, c) => (EndsWith(waiters', c, st) <=> EndsWith(t, c, st))
    BY <1>2, <1>8, QueueAppend
  <2>8. EndsWith(waiters', c, st) => EndsWith(waiters, c, st)
    BY <1>4, <2>2, <2>4, <2>5, <2>6, <2>7
  <2>9. Silent(waiters', c) /\ componentStates'[c] = st
           => Silent(waiters, c) /\ componentStates[c] = st
    BY <1>4, <1>5, <2>2, <2>3, <2>5, <2>6, <2>7
  <2>10. QED
    BY <1>1, <2>8, <2>9 DEF Shows
<1>9. QED
  BY <1>6, <1>7, <1>8

LEMMA LoopShows ==
    ASSUME TypeOK, JobInv, StatusInv, EventLoop \/ Clients,
           NEW c \in Components, NEW st, AtWork(c, st), WillShow(c, st)'
    PROVE  WillShow(c, st)
<1>1. Shows(ready', waiters', componentStates'[c], c, st)
  BY WillShowIs
<1>2. SUFFICES Shows(ready, waiters, componentStates[c], c, st)
  BY WillShowIs
<1>3. ASSUME NEW w \in Watchers, Watch(w) \/ Register(w) \/ Sent(w) \/ Leave(w)
      PROVE  Shows(ready, waiters, componentStates[c], c, st)
  <2>1. WatcherQueues(w) /\ UNCHANGED <<componentStates, ready>>
    BY <1>3, WatchersQueue
  <2>2. /\ Silent(waiters', c) => Silent(waiters, c)
        /\ EndsWith(waiters', c, st) => EndsWith(waiters, c, st)
    BY <2>1, WatchersKeepQueue
  <2>3. QED
    BY <1>1, <2>1, <2>2 DEF Shows
<1>4. QED
  BY <1>1, <1>3, LoopRunsShows, WaiterUpdatesShows DEF EventLoop, Clients

-----------------------------------------------------------------------------
(* Work that goes on is at work, or has failed *)

CheckoutWork(c) ==
    \/ <<c, "not cloned">> \in results
    \/ \E j \in Checkouts : jobPc[j] \in {"clone", "cloning"} /\ TargetAt(jobAt[j]) = c

BuildWork(c) ==
    \/ <<c, "build raised">> \in results
    \/ \E j \in Builds : jobPc[j] = "building" /\ Stages[jobAt[j][1]] = c

LEMMA WorkInvIs ==
    /\ WorkInv <=> \A c \in Components :
          /\ WillShow(c, "checking_out") => CheckoutWork(c)
          /\ c \notin UEs /\ WillShow(c, "building") => BuildWork(c)
    /\ WorkInv' <=> \A c \in Components :
          /\ WillShow(c, "checking_out")' => CheckoutWork(c)'
          /\ c \notin UEs /\ WillShow(c, "building")' => BuildWork(c)'
BY DEF WorkInv, CheckoutWork, BuildWork

LEMMA WorkOfSetup ==
    ASSUME TypeOK, JobInv, StatusInv, WorkInv, Setup \/ EventLoop \/ Clients
    PROVE  WorkInv'
<1>1. UNCHANGED jobVars
  BY SetupEffect DEF SetRight, EventLoop, Clients
<1>2. ASSUME NEW c \in Components, NEW st, AtWork(c, st), WillShow(c, st)'
      PROVE  WillShow(c, st)
  BY <1>2, SetupShows, LoopShows
<1>3. ASSUME NEW j \in Checkouts, jobPc[j] \in {"clone", "cloning"}
      PROVE  TargetAt(jobAt[j])' = TargetAt(jobAt[j])
  <2>1. CASE EventLoop \/ Clients
    <3>1. UNCHANGED ues
      BY <2>1 DEF EventLoop, LoopRuns, WaiterUpdates, Watch, WatcherWakes, WaiterWatches,
         Clients, Register, Sent, Leave
    <3>2. QED
      BY <1>1, <3>1 DEF TargetAt, jobVars
  <2>2. CASE Setup
    <3>1. j \in Jobs /\ Kinds[jobAt[j][1]] = "ue" => jobAt[j][2] \in DOMAIN ues
      BY <1>3 DEF JobInv
    <3>2. \A n \in DOMAIN ues : ues'[n] = ues[n]
      <4>1. ListKept /\ j \in Jobs
        BY <2>2, SetupEffect DEF Jobs
      <4>2. QED
        BY <1>3, <4>1 DEF ListKept
    <3>3. CASE Kinds[jobAt[j][1]] = "ue"
      <4>1. jobAt[j][2] \in DOMAIN ues
        BY <1>3, <3>3 DEF JobInv
      <4>2. QED
        BY <1>1, <3>2, <3>3, <4>1 DEF TargetAt, jobVars
    <3>4. CASE Kinds[jobAt[j][1]] # "ue"
      BY <1>1, <3>4 DEF TargetAt, jobVars
    <3>5. QED
      BY <3>3, <3>4
  <2>3. QED
    BY <2>1, <2>2
<1>4. ASSUME NEW c \in Components
      PROVE  /\ CheckoutWork(c) => CheckoutWork(c)'
             /\ BuildWork(c) => BuildWork(c)'
  BY <1>1, <1>3 DEF CheckoutWork, BuildWork, jobVars
<1>5. QED
  BY <1>2, <1>4, WorkInvIs DEF AtWork

(***************************************************************************)
(* What will be shown after a job has reported.                            *)
(***************************************************************************)
LEMMA ShownAfterOne ==
    ASSUME TypeOK, UNCHANGED loopVars, NEW a \in Updates, ready' = ready \o <<a>>,
           NEW c \in Components, NEW st
    PROVE  /\ c \in Elements(a.components) => (WillShow(c, st)' <=> a.state = st)
           /\ c \notin Elements(a.components) => (WillShow(c, st)' <=> WillShow(c, st))
<1>1. ready \in Seq(Updates) /\ UNCHANGED <<waiters, componentStates>>
  BY DEF TypeOK, StatusTypeOK, loopVars
<1>2. ready' = Append(ready, a)
  BY <1>1, ConcatOne
<1>3. /\ c \in Elements(a.components) =>
            (Shows(Append(ready, a), waiters, componentStates[c], c, st) <=> a.state = st)
      /\ c \notin Elements(a.components) =>
            (Shows(Append(ready, a), waiters, componentStates[c], c, st)
                <=> Shows(ready, waiters, componentStates[c], c, st))
  BY <1>1, LastReport
<1>4. WillShow(c, st)' <=> Shows(Append(ready, a), waiters, componentStates[c], c, st)
  BY <1>1, <1>2, WillShowIs
<1>5. QED
  BY <1>3, <1>4, WillShowIs

LEMMA ShownAfterTwo ==
    ASSUME TypeOK, UNCHANGED loopVars, NEW a \in Updates, NEW b \in Updates,
           ready' = ready \o <<a, b>>, NEW c \in Components, NEW st
    PROVE  /\ c \in Elements(b.components) => (WillShow(c, st)' <=> b.state = st)
           /\ c \notin Elements(b.components) /\ c \in Elements(a.components) =>
                 (WillShow(c, st)' <=> a.state = st)
           /\ c \notin Elements(b.components) /\ c \notin Elements(a.components) =>
                 (WillShow(c, st)' <=> WillShow(c, st))
<1>1. ready \in Seq(Updates) /\ UNCHANGED <<waiters, componentStates>>
  BY DEF TypeOK, StatusTypeOK, loopVars
<1>2. ready' = Append(Append(ready, a), b)
  BY <1>1, ConcatTwo
<1>3. Append(ready, a) \in Seq(Updates)
  BY <1>1, AppendProperties
<1> DEFINE r == Append(ready, a)
<1>4. /\ c \in Elements(a.components) =>
            (Shows(r, waiters, componentStates[c], c, st) <=> a.state = st)
      /\ c \notin Elements(a.components) =>
            (Shows(r, waiters, componentStates[c], c, st)
                <=> Shows(ready, waiters, componentStates[c], c, st))
  BY <1>1, LastReport
<1> HIDE DEF r
<1>5. /\ c \in Elements(b.components) =>
            (Shows(Append(r, b), waiters, componentStates[c], c, st) <=> b.state = st)
      /\ c \notin Elements(b.components) =>
            (Shows(Append(r, b), waiters, componentStates[c], c, st)
                <=> Shows(r, waiters, componentStates[c], c, st))
  BY <1>3, LastReport DEF r
<1>6. WillShow(c, st)' <=> Shows(Append(r, b), waiters, componentStates[c], c, st)
  BY <1>1, <1>2, WillShowIs DEF r
<1>7. QED
  BY <1>4, <1>5, <1>6, WillShowIs

LEMMA ShownAfterNone ==
    ASSUME UNCHANGED loopVars, UNCHANGED ready
    PROVE  \A c, st : WillShow(c, st)' <=> WillShow(c, st)
<1>1. UNCHANGED <<waiters, componentStates>>
  BY DEF loopVars
<1>2. QED
  BY <1>1, WillShowIs

\* Reports on one component, or on no component.
LEMMA ReportTouches ==
    /\ \A c \in Components : \A st : /\ Update(<<c>>, st).state = st
                                     /\ Elements(Update(<<c>>, st).components) = {c}
    /\ Elements(ChangeErrors.components) = {}
    /\ \A c \in Components : \A st : c \notin Elements(Update(AllUEs, st).components)
<1>1. \A c \in Components : \A st : /\ Update(<<c>>, st).state = st
                                    /\ Elements(Update(<<c>>, st).components) = {c}
  BY OneComponent DEF Update
<1>2. \A c \in Components : c \notin Elements(AllUEs)
  <2>1. DOMAIN <<"ue">> = {1} /\ <<"ue">>[1] = "ue"
    OBVIOUS
  <2>2. QED
    BY <2>1, Names DEF Elements, AllUEs
<1>3. QED
  BY <1>1, <1>2, ErrorsType DEF Update

LEMMA WorkOfCheckout ==
    ASSUME TypeOK, JobInv, WorkInv, NEW j \in Checkouts, AcceptCheckout(j) \/ CheckoutJob(j)
    PROVE  WorkInv'
<1>1. UNCHANGED loopVars /\ OthersStay(j) /\ CheckoutReports(j)
  BY CheckoutEffect
<1>2. /\ results \subseteq results' /\ UNCHANGED ues /\ j \notin Builds
      /\ j \in Jobs /\ Checkouts \subseteq Jobs /\ Builds \subseteq Jobs
  BY <1>1, RequestsAssumption DEF CheckoutReports, loopVars, Jobs
<1>3. ASSUME NEW c \in Components, BuildWork(c)
      PROVE  BuildWork(c)'
  BY <1>1, <1>2, <1>3 DEF BuildWork, OthersStay
\* Another job still works on c, or c is what j was at.
<1>4. ASSUME NEW c \in Components, CheckoutWork(c)
      PROVE  \/ CheckoutWork(c)'
             \/ jobPc[j] \in {"clone", "cloning"} /\ TargetAt(jobAt[j]) = c
  <2>1. CASE <<c, "not cloned">> \in results
    BY <1>2, <2>1 DEF CheckoutWork
  <2>2. ASSUME NEW i \in Checkouts, i # j,
               jobPc[i] \in {"clone", "cloning"}, TargetAt(jobAt[i]) = c
        PROVE  CheckoutWork(c)'
    <3>1. jobPc'[i] \in {"clone", "cloning"} /\ jobAt'[i] = jobAt[i]
      BY <1>1, <1>2, <2>2 DEF OthersStay
    <3>2. TargetAt(jobAt[i])' = c
      BY <1>2, <2>2, <3>1 DEF TargetAt
    <3>3. QED
      BY <3>1, <3>2 DEF CheckoutWork
  <2>3. QED
    BY <1>4, <2>1, <2>2 DEF CheckoutWork
<1>5. \A c \in Components : /\ WillShow(c, "checking_out") => CheckoutWork(c)
                            /\ c \notin UEs /\ WillShow(c, "building") => BuildWork(c)
  BY WorkInvIs
<1>6. CASE UNCHANGED <<ready, results>>
           /\ (jobPc[j] \in {"clone", "cloning"} =>
                  jobPc'[j] \in {"clone", "cloning"} /\ jobAt'[j] = jobAt[j])
  <2>1. ASSUME jobPc[j] \in {"clone", "cloning"}
        PROVE  jobPc'[j] \in {"clone", "cloning"} /\ TargetAt(jobAt[j])' = TargetAt(jobAt[j])
    BY <1>2, <1>6, <2>1 DEF TargetAt
  <2>2. \A c \in Components : CheckoutWork(c) => CheckoutWork(c)'
    BY <1>4, <2>1 DEF CheckoutWork
  <2>3. QED
    BY <1>1, <1>3, <1>5, <1>6, <2>2, ShownAfterNone, WorkInvIs
<1>7. ASSUME NEW d \in Components, jobPc[j] = "next",
             ready' = ready \o <<Update(<<d>>, "checking_out"), Update(<<d>>, "checked_out")>>
      PROVE  WorkInv'
  <2>1. Update(<<d>>, "checking_out") \in Updates /\ Update(<<d>>, "checked_out") \in Updates
    BY ReportsOfOne
  <2>2. ASSUME NEW c \in Components, NEW st \in {"checking_out", "building"}, WillShow(c, st)'
        PROVE  WillShow(c, st)
    <3> DEFINE a == Update(<<d>>, "checking_out")
               b == Update(<<d>>, "checked_out")
    <3>1. /\ Elements(a.components) = {d} /\ Elements(b.components) = {d}
          /\ b.state = "checked_out"
      BY ReportTouches
    <3>2. a \in Updates /\ b \in Updates /\ ready' = ready \o <<a, b>>
      BY <1>7, <2>1
    <3> HIDE DEF a, b
    <3>3. QED
      BY <1>1, <2>2, <3>1, <3>2, ShownAfterTwo
  <2>3. \A c \in Components : CheckoutWork(c) => CheckoutWork(c)'
    BY <1>4, <1>7
  <2>4. QED
    BY <1>3, <1>5, <2>2, <2>3, WorkInvIs
<1>8. ASSUME NEW d \in Components, jobPc[j] = "next", jobPc'[j] = "clone",
             TargetAt(jobAt'[j]) = d, ready' = ready \o <<Update(<<d>>, "checking_out")>>
      PROVE  WorkInv'
  <2>1. Update(<<d>>, "checking_out") \in Updates
    BY ReportsOfOne
  <2>2. ASSUME NEW c \in Components, NEW st \in {"checking_out", "building"}, WillShow(c, st)'
        PROVE  WillShow(c, st) \/ (c = d /\ st = "checking_out")
    <3> DEFINE a == Update(<<d>>, "checking_out")
    <3>1. Elements(a.components) = {d} /\ a.state = "checking_out"
      BY ReportTouches
    <3>2. a \in Updates /\ ready' = ready \o <<a>>
      BY <1>8, <2>1
    <3> HIDE DEF a
    <3>3. QED
      BY <1>1, <2>2, <3>1, <3>2, ShownAfterOne
  <2>3. \A c \in Components : CheckoutWork(c) => CheckoutWork(c)'
    BY <1>4, <1>8
  <2>4. CheckoutWork(d)'
    <3>1. TargetAt(jobAt[j])' = d
      BY <1>2, <1>8 DEF TargetAt
    <3>2. QED
      BY <1>8, <3>1 DEF CheckoutWork
  <2>5. QED
    BY <1>3, <1>5, <2>2, <2>3, <2>4, WorkInvIs
<1>9. ASSUME NEW d \in Components, d = TargetAt(jobAt[j]),
             ready' = ready \o <<Update(<<d>>, "checked_out")>>
      PROVE  WorkInv'
  <2>1. Update(<<d>>, "checked_out") \in Updates
    BY ReportsOfOne
  <2>2. ASSUME NEW c \in Components, NEW st \in {"checking_out", "building"}, WillShow(c, st)'
        PROVE  WillShow(c, st) /\ c # d
    <3> DEFINE a == Update(<<d>>, "checked_out")
    <3>1. Elements(a.components) = {d} /\ a.state = "checked_out"
      BY ReportTouches
    <3>2. a \in Updates /\ ready' = ready \o <<a>>
      BY <1>9, <2>1
    <3> HIDE DEF a
    <3>3. QED
      BY <1>1, <2>2, <3>1, <3>2, ShownAfterOne
  <2>3. \A c \in Components : c # d /\ CheckoutWork(c) => CheckoutWork(c)'
    BY <1>4, <1>9
  <2>4. QED
    BY <1>3, <1>5, <2>2, <2>3, WorkInvIs
<1>10. ASSUME NEW d \in Components, d = TargetAt(jobAt[j]), ready' = ready \o <<ChangeErrors>>,
              results' = results \cup {<<d, "not cloned">>}
       PROVE  WorkInv'
  <2>1. ChangeErrors \in Updates
    BY ErrorsType
  <2>2. ASSUME NEW c \in Components, NEW st, WillShow(c, st)'
        PROVE  WillShow(c, st)
    BY <1>1, <1>10, <2>1, <2>2, ShownAfterOne, ReportTouches
  <2>3. CheckoutWork(d)'
    BY <1>10 DEF CheckoutWork
  <2>4. \A c \in Components : CheckoutWork(c) => CheckoutWork(c)'
    BY <1>4, <1>10, <2>3
  <2>5. QED
    BY <1>3, <1>5, <2>2, <2>4, WorkInvIs
<1>11. QED
  BY <1>1, <1>6, <1>7, <1>8, <1>9, <1>10 DEF CheckoutReports

LEMMA WorkOfBuild ==
    ASSUME TypeOK, JobInv, WorkInv, NEW j \in Builds,
           BuildJob(j) \/ \E target \in Targets : AcceptBuild(j, target)
    PROVE  WorkInv'
<1>1. UNCHANGED loopVars /\ OthersStay(j) /\ BuildReports(j)
  BY BuildEffect
<1>2. /\ results \subseteq results' /\ UNCHANGED ues /\ j \notin Checkouts
      /\ j \in Jobs /\ Checkouts \subseteq Jobs /\ Builds \subseteq Jobs
  BY <1>1, RequestsAssumption DEF BuildReports, StageReports, loopVars, Jobs
<1>3. ASSUME NEW c \in Components, CheckoutWork(c)
      PROVE  CheckoutWork(c)'
  <2>1. CASE <<c, "not cloned">> \in results
    BY <1>2, <2>1 DEF CheckoutWork
  <2>2. ASSUME NEW i \in Checkouts, jobPc[i] \in {"clone", "cloning"}, TargetAt(jobAt[i]) = c
        PROVE  CheckoutWork(c)'
    <3>1. jobPc'[i] \in {"clone", "cloning"} /\ jobAt'[i] = jobAt[i]
      BY <1>1, <1>2, <2>2 DEF OthersStay
    <3>2. TargetAt(jobAt[i])' = c
      BY <1>2, <2>2, <3>1 DEF TargetAt
    <3>3. QED
      BY <3>1, <3>2 DEF CheckoutWork
  <2>3. QED
    BY <1>3, <2>1, <2>2 DEF CheckoutWork
<1>4. ASSUME NEW c \in Components, BuildWork(c)
      PROVE  \/ BuildWork(c)'
             \/ jobPc[j] = "building" /\ Stages[jobAt[j][1]] = c
  BY <1>1, <1>2, <1>4 DEF BuildWork, OthersStay
<1>5. \A c \in Components : /\ WillShow(c, "checking_out") => CheckoutWork(c)
                            /\ c \notin UEs /\ WillShow(c, "building") => BuildWork(c)
  BY WorkInvIs
<1>6. ASSUME \A c \in Components :
                /\ WillShow(c, "checking_out")' => WillShow(c, "checking_out")
                /\ c \notin UEs /\ WillShow(c, "building")' => BuildWork(c)'
      PROVE  WorkInv'
  BY <1>3, <1>5, <1>6, WorkInvIs
<1>7. CASE UNCHANGED <<ready, results>> /\ jobPc[j] # "building"
  BY <1>1, <1>4, <1>5, <1>6, <1>7, ShownAfterNone
<1>8. CASE /\ jobPc[j] # "building" /\ jobPc'[j] = "building" /\ jobAt'[j][1] = 1
           /\ ready' = ready \o <<Update(OfStage(1), "building")>>
  <2> DEFINE d == Stages[1]
  <2>1. 1 \in 1..4 /\ 1 # 4
    OBVIOUS
  <2>2. d \in Components /\ OfStage(1) = <<d>>
    BY <2>1, StageTypes DEF OfStage
  <2>3. Update(<<d>>, "building") \in Updates
    BY <2>2, ReportsOfOne
  <2>4. BuildWork(d)'
    BY <1>8 DEF BuildWork
  <2> HIDE DEF d
  <2>5. ASSUME NEW c \in Components, NEW st \in {"checking_out", "building"}, WillShow(c, st)'
        PROVE  WillShow(c, st) \/ (c = d /\ st = "building")
    <3> DEFINE a == Update(<<d>>, "building")
    <3>1. Elements(a.components) = {d} /\ a.state = "building"
      BY <2>2, ReportTouches
    <3>2. a \in Updates /\ ready' = ready \o <<a>>
      BY <1>8, <2>2, <2>3
    <3> HIDE DEF a
    <3>3. QED
      BY <1>1, <2>5, <3>1, <3>2, ShownAfterOne
  <2>6. \A c \in Components : BuildWork(c) => BuildWork(c)'
    BY <1>4, <1>8
  <2>7. QED
    BY <1>5, <1>6, <2>4, <2>5, <2>6
<1>9. ASSUME NEW n \in 1..4, StageReports(j, n)
      PROVE  WorkInv'
  <2>1. n = jobAt[j][1] /\ jobPc[j] = "building"
    BY <1>9 DEF StageReports
  <2>2. ASSUME NEW c \in Components, BuildWork(c), c # Stages[n]
        PROVE  BuildWork(c)'
    BY <1>4, <2>1, <2>2
  <2>3. ASSUME NEW d \in Components, d = Stages[n], UNCHANGED ready,
               results' = results \cup {<<d, "build raised">>}
        PROVE  WorkInv'
    <3>1. BuildWork(d)'
      BY <2>3 DEF BuildWork
    <3>2. QED
      BY <1>1, <1>5, <1>6, <2>2, <2>3, <3>1, ShownAfterNone
  <2>4. ASSUME NEW d \in Components, d = Stages[n], NEW st \in {"built", "failed"},
               ready' = ready \o <<Update(<<d>>, st)>>
        PROVE  WorkInv'
    <3>1. Update(<<d>>, st) \in Updates
      BY ReportsOfOne
    <3>2. ASSUME NEW c \in Components, NEW x \in {"checking_out", "building"}, WillShow(c, x)'
          PROVE  WillShow(c, x) /\ c # d
      BY <1>1, <2>4, <3>1, <3>2, ShownAfterOne, ReportTouches
    <3>3. QED
      BY <1>5, <1>6, <2>2, <2>4, <3>2
  <2>5. ASSUME n # 4, NEW d \in Components, d = Stages[n],
               jobPc'[j] = "building", jobAt'[j][1] = n + 1,
               ready' = ready \o <<Update(<<d>>, "built"), Update(OfStage(n + 1), "building")>>
        PROVE  WorkInv'
    <3> DEFINE a == Update(<<d>>, "built")
               b == Update(OfStage(n + 1), "building")
    <3>1. n + 1 \in 1..4
      BY <2>5, NextStage
    <3>2. a \in Updates /\ b \in Updates
      BY <3>1, Reports, ReportsOfOne, StageTypes
    <3>3. \A c \in Components : c \in Elements(b.components) => c = Stages[n + 1]
      <4>1. CASE n + 1 = 4
        BY <3>1, <4>1, StageTypes, ReportTouches
      <4>2. CASE n + 1 # 4
        <5>1. Stages[n + 1] \in Components /\ OfStage(n + 1) = <<Stages[n + 1]>>
          BY <3>1, <4>2, StageTypes DEF OfStage
        <5>2. QED
          BY <5>1, ReportTouches
      <4>3. QED
        BY <4>1, <4>2
    <3>4. ASSUME Stages[n + 1] \in Components
          PROVE  BuildWork(Stages[n + 1])'
      BY <2>5 DEF BuildWork
    <3>5. a.state = "built" /\ Elements(a.components) = {d} /\ b.state = "building"
      BY ReportTouches DEF Update
    <3> HIDE DEF a, b
    <3>6. ready' = ready \o <<a, b>>
      BY <2>5 DEF a, b
    <3>7. ASSUME NEW c \in Components, NEW st \in {"checking_out", "building"}, WillShow(c, st)'
          PROVE  (WillShow(c, st) /\ c # d) \/ (c = Stages[n + 1] /\ st = "building")
      BY <1>1, <3>2, <3>3, <3>5, <3>6, <3>7, ShownAfterTwo
    <3>8. QED
      BY <1>5, <1>6, <2>2, <2>5, <3>4, <3>7
  <2>6. ASSUME n = 4, \/ UNCHANGED ready
                      \/ ready' = ready \o <<Update(AllUEs, "failed")>>
                      \/ ready' = ready \o <<Update(AllUEs, "built")>>
        PROVE  WorkInv'
    <3>1. ASSUME NEW c \in Components, NEW st, WillShow(c, st)'
          PROVE  WillShow(c, st)
      <4>1. Update(AllUEs, "failed") \in Updates /\ Update(AllUEs, "built") \in Updates
        BY Reports
      <4>2. QED
        BY <1>1, <2>6, <3>1, <4>1, ShownAfterNone, ShownAfterOne, ReportTouches
    <3>2. \A c \in Components : c # Stages[n]
      BY <2>6, Lists, Names
    <3>3. QED
      BY <1>5, <1>6, <2>2, <3>1, <3>2
  <2>7. QED
    BY <1>9, <2>3, <2>4, <2>5, <2>6 DEF StageReports
<1>10. QED
  BY <1>1, <1>7, <1>8, <1>9 DEF BuildReports

LEMMA WorkStep ==
    ASSUME TypeOK, JobInv, StatusInv, WorkInv, [Next]_vars
    PROVE  WorkInv'
<1>1. CASE UNCHANGED vars
  <2>1. /\ UNCHANGED <<ready, waiters, componentStates, results>>
        /\ UNCHANGED <<jobPc, jobAt, ues>>
    BY <1>1 DEF vars, statusVars, jobVars
  <2>2. \A c \in Components : \A st : WillShow(c, st)' <=> WillShow(c, st)
    BY <2>1, WillShowIs
  <2>3. \A c \in Components : /\ CheckoutWork(c)' <=> CheckoutWork(c)
                              /\ BuildWork(c)' <=> BuildWork(c)
    BY <2>1 DEF CheckoutWork, BuildWork, TargetAt
  <2>4. QED
    BY <2>2, <2>3, WorkInvIs
<1>2. CASE Setup \/ EventLoop \/ Clients
  BY <1>2, WorkOfSetup
<1>3. ASSUME NEW j \in Checkouts, AcceptCheckout(j) \/ CheckoutJob(j)
      PROVE  WorkInv'
  BY <1>3, WorkOfCheckout
<1>4. ASSUME NEW j \in Builds, BuildJob(j) \/ \E target \in Targets : AcceptBuild(j, target)
      PROVE  WorkInv'
  BY <1>4, WorkOfBuild
<1>5. QED
  BY <1>1, <1>2, <1>3, <1>4 DEF Next

LEMMA InitIndInv ==
    ASSUME Init
    PROVE  IndInv
<1>1. TypeOK /\ JobInv
  BY TypeInit
<1>2. /\ ready = <<>> /\ waiters = <<>>
      /\ \A c \in Components : componentStates[c] \in {"none", "not_configured"}
      /\ \A j \in Builds : jobPc[j] = "none"
  BY DEF Init, StatusInit, Jobs
<1>3. Elements(<<>>) = {}
  BY DEF Elements
<1>4. StatusInv
  <2>1. \A c \in Components : Earned(c, componentStates[c])
    BY <1>2 DEF Earned
  <2>2. QED
    BY <1>2, <1>3, <2>1 DEF StatusInv
<1>5. \A c \in Components : ~WillShow(c, "checking_out") /\ ~WillShow(c, "building")
  BY <1>2, EmptyQueue DEF WillShow
<1>6. QED
  BY <1>1, <1>4, <1>5 DEF IndInv, WorkInv

(***************************************************************************)
(* Whatever jobs and watchers do: each change on its way has been earned,  *)
(* and the work that will be shown as going on when all of them have been  *)
(* made goes on, or has failed without a report.                           *)
(***************************************************************************)
THEOREM IndInvariant == Spec => []IndInv
<1>1. Init => IndInv
  BY InitIndInv
<1>2. IndInv /\ [Next]_vars => IndInv'
  BY TypeStep, StatusStep, WorkStep DEF IndInv
<1>3. QED
  BY <1>1, <1>2, PTL DEF Spec

\* Once all is quiet, the status is what was to be shown.
LEMMA QuietShows ==
    ASSUME Idle, NEW c, NEW st, componentStates[c] = st
    PROVE  WillShow(c, st)
<1>1. ready = <<>> /\ Elements(waiters) \subseteq Watchers
  BY DEF Idle
<1>2. Silent(waiters, c)
  BY <1>1 DEF Silent, Touches, Elements
<1>3. Silent(ready, c)
  BY <1>1, EmptyQueue
<1>4. QED
  BY <1>2, <1>3 DEF WillShow

(***************************************************************************)
(* A component is shown as checked out only if a checkout cloned it or     *)
(* found a folder in the way, whatever that holds; and one that is still   *)
(* shown as being checked out when all is quiet is one whose clone has     *)
(* failed, for any number of jobs and watchers.                            *)
(***************************************************************************)
THEOREM CheckoutStatusEarned == Spec => []CheckoutStatusIsEarned
<1>1. ASSUME IndInv, NEW c \in Components
      PROVE  /\ componentStates[c] = "checked_out" => CheckoutSucceeded(c)
             /\ Idle /\ componentStates[c] = "checking_out" => <<c, "not cloned">> \in results
  <2>1. componentStates[c] = "checked_out" => CheckoutSucceeded(c)
    BY <1>1 DEF IndInv, StatusInv, Earned
  <2>2. ASSUME Idle, componentStates[c] = "checking_out"
        PROVE  <<c, "not cloned">> \in results
    <3>1. WillShow(c, "checking_out")
      BY <2>2, QuietShows
    <3>2. \A j \in Checkouts : jobPc[j] \notin {"clone", "cloning"}
      BY <2>2 DEF Idle, Jobs
    <3>3. QED
      BY <1>1, <3>1, <3>2 DEF IndInv, WorkInv
  <2>3. QED
    BY <2>1, <2>2
<1>2. IndInv => CheckoutStatusIsEarned
  BY <1>1 DEF CheckoutStatusIsEarned
<1>3. QED
  BY <1>2, IndInvariant, PTL

(***************************************************************************)
(* A component other than a UE is shown as built, or as failed, only if it *)
(* is, and is still shown as being built when all is quiet only if its     *)
(* builder has raised; and none is built before those it follows.          *)
(***************************************************************************)
THEOREM BuildStatusEarned == Spec => []BuildStatusIsEarned
<1>1. ASSUME IndInv, NEW c \in Components \ UEs
      PROVE  /\ componentStates[c] = "built" => <<c, "built">> \in results
             /\ componentStates[c] = "failed" => <<c, "build failed">> \in results
             /\ Idle /\ componentStates[c] = "building" => <<c, "build raised">> \in results
  <2>1. /\ componentStates[c] = "built" => <<c, "built">> \in results
        /\ componentStates[c] = "failed" => <<c, "build failed">> \in results
    BY <1>1 DEF IndInv, StatusInv, Earned
  <2>2. ASSUME Idle, componentStates[c] = "building"
        PROVE  <<c, "build raised">> \in results
    <3>1. WillShow(c, "building")
      BY <2>2, QuietShows
    <3>2. \A j \in Builds : jobPc[j] # "building"
      BY <2>2 DEF Idle, Jobs
    <3>3. QED
      BY <1>1, <3>1, <3>2 DEF IndInv, WorkInv
  <2>3. QED
    BY <2>1, <2>2
<1>2. ASSUME IndInv, NEW n \in 2..Len(Stages), NEW c \in Components,
             componentStates[c] = "building", c \in Affected(n)
      PROVE  <<Stages[n - 1], "built">> \in results
  <2>1. Earned(c, "building")
    BY <1>2 DEF IndInv, StatusInv
  <2>2. Elements(ues) \subseteq UEs
    BY <1>2, ElementsOf DEF IndInv, JobInv
  <2>3. c \in (IF Stages[n] = "ue" THEN UEs ELSE {Stages[n]})
    BY <1>2, <2>2 DEF Affected
  <2>4. QED
    BY <1>2, <2>1, <2>3 DEF Earned
<1>3. IndInv => BuildStatusIsEarned
  BY <1>1, <1>2 DEF BuildStatusIsEarned
<1>4. QED
  BY <1>3, IndInvariant, PTL

=============================================================================
