--------------------------- MODULE TraffickerProofs ---------------------------
(***************************************************************************)
(* Safety of the whole trafficker: the generator's rows are the configured *)
(* ones, for all patterns, however deep, and all granularities, unless     *)
(* weights have no sum or a slot may overflow, and the executor gives its  *)
(* guarantees for whatever plan it takes over.                             *)
(***************************************************************************)
EXTENDS Trafficker, TrafficExecutorProofs, FiniteSetTheorems

(***************************************************************************)
(* The inductive invariant: the types of the generator's frames, ...       *)
(***************************************************************************)
Frame == [config : Patterns, at : Nat, row : Seq(Number)]

FramesInv ==
    /\ file \in Files
    /\ planPhase \in {"load", "generate", "ready", "failed"}
    /\ configs \in Seq(Entries)
    /\ stack \in Seq(Frame)
    /\ traffic \in [DOMAIN traffic -> Seq(Number)]
    /\ planPhase = "load" => stack = <<>>
    /\ stack # <<>> => configs # <<>>
    /\ \A i \in DOMAIN stack :
          i > 1 => Composite(stack[i].config) /\ stack[i].at < Len(Parts(stack[i].config))

(***************************************************************************)
(* ... and what the row of a periodic pattern holds so far: the packets    *)
(* before the current time, which is a multiple of the interval.           *)
(***************************************************************************)
PacketTimes(c, from, to) ==
    {k \in 0..c.duration : k * c.interval \in from..(to - 1) /\ k * c.interval < c.duration}
SentTimes(c, now, g, i) == {k \in PacketTimes(c, (i - 1) * g, i * g) : k * c.interval < now}

SentSoFar(f) ==
    LET c == f.config
    IN  /\ Granularity > 0 /\ Len(f.row) = Slots(c.duration)
        /\ c.interval = 0 => f.at = 0
        /\ c.interval > 0 =>
              /\ \E n \in Nat : f.at = n * c.interval
              /\ \A i \in DOMAIN f.row :
                    f.row[i] =
                        Wrap(c.packet_size *
                             Cardinality(SentTimes(c, f.at, Granularity, i)))

PeriodicInv == (stack # <<>> /\ Inmost.config.type = "Periodic") => SentSoFar(Inmost)

PlanInv == FramesInv /\ PeriodicInv

-----------------------------------------------------------------------------
(* Arithmetic *)

(***************************************************************************)
(* Division with rest, and that its result is the only one.                *)
(***************************************************************************)
LEMMA Division ==
    ASSUME NEW a \in Int, NEW m \in Nat \ {0}
    PROVE  /\ a \div m \in Int
           /\ a % m \in 0..(m - 1)
           /\ a = m * (a \div m) + (a % m)
OBVIOUS

LEMMA Multiples ==
    ASSUME NEW m \in Nat \ {0}, NEW d \in Int, -m < m * d, m * d < m
    PROVE  d = 0
<1>1. CASE d >= 1
  <2>1. m * d >= m * 1
    BY <1>1
  <2>2. QED
    BY <2>1
<1>2. CASE d <= -1
  <2>1. m * d <= m * (-1)
    BY <1>2
  <2>2. QED
    BY <2>1
<1>3. QED
  BY <1>1, <1>2

LEMMA DivisionUnique ==
    ASSUME NEW m \in Nat \ {0}, NEW q \in Int, NEW r \in 0..(m - 1)
    PROVE  (m * q + r) % m = r /\ (m * q + r) \div m = q
<1> DEFINE a == m * q + r
           p == a \div m
           s == a % m
<1>1. m * q \in Int
  OBVIOUS
<1>2. a \in Int
  BY <1>1
<1>3. p \in Int /\ s \in 0..(m - 1) /\ a = m * p + s
  BY <1>2, Division
<1> HIDE DEF p, s
<1>4. m * p - m * q = r - s /\ m * p \in Int
  BY <1>1, <1>3
<1>5. m * (p - q) = m * p - m * q
  BY <1>3
<1>6. p - q \in Int /\ -m < m * (p - q) /\ m * (p - q) < m
  BY <1>3, <1>4, <1>5
<1>7. p - q = 0
  BY <1>6, Multiples
<1>8. p = q
  BY <1>3, <1>7
<1>9. s = r
  BY <1>1, <1>3, <1>8
<1>10. QED
  BY <1>8, <1>9 DEF p, s

(***************************************************************************)
(* Numbers that wrap around may be added in any order.                     *)
(***************************************************************************)
LEMMA WrapType == ASSUME NEW x \in Int PROVE Wrap(x) \in Number
<1> DEFINE m == 2 * (MaxInt + 1)
<1>1. MaxInt \in Nat
  BY PatternsAssumption
<1>2. m \in Nat \ {0} /\ x + MaxInt + 1 \in Int
  BY <1>1
<1>3. (x + MaxInt + 1) % m \in 0..(m - 1)
  BY <1>2, Division
<1>4. QED
  BY <1>1, <1>3 DEF Wrap, Number

LEMMA WrapSum ==
    ASSUME NEW x \in Int, NEW y \in Int
    PROVE  Wrap(Wrap(x) + y) = Wrap(x + y)
<1> DEFINE m == 2 * (MaxInt + 1)
           h == MaxInt + 1
           a == x + h
           q == a \div m
           b == (a % m) + y
           p == b \div m
<1>1. h \in Nat \ {0} /\ m = h + h /\ m \in Nat \ {0}
  BY PatternsAssumption
<1>2. a \in Int
  BY <1>1
<1>3. q \in Int /\ a % m \in 0..(m - 1) /\ a = m * q + (a % m)
  BY <1>1, <1>2, Division
<1>4. b \in Int
  BY <1>1, <1>3
<1>5. p \in Int /\ b % m \in 0..(m - 1) /\ b = m * p + (b % m)
  BY <1>1, <1>4, Division
<1>6. Wrap(x) = (a % m) - h
  BY PatternsAssumption DEF Wrap
<1>7. Wrap(x) + y + MaxInt + 1 = b
  BY <1>1, <1>3, <1>6, PatternsAssumption
<1>8. Wrap(Wrap(x) + y) = (b % m) - h
  BY <1>7 DEF Wrap
<1>9. (x + y) + MaxInt + 1 = m * (q + p) + (b % m)
  <2>1. a + y = m * q + b
    BY <1>2, <1>3, <1>1, <1>4
  <2> HIDE DEF m, q, b, p
  <2>2. m * (q + p) = m * q + m * p
    BY <1>1, <1>3, <1>5
  <2>3. m * q \in Int /\ m * p \in Int
    BY <1>1, <1>3, <1>5
  <2>4. a + y = m * (q + p) + (b % m)
    BY <2>1, <2>2, <2>3, <1>1, <1>2, <1>5
  <2>5. (x + y) + MaxInt + 1 = a + y
    BY PatternsAssumption
  <2>6. QED
    BY <2>4, <2>5
<1>10. ((x + y) + MaxInt + 1) % m = b % m
  <2> HIDE DEF m, q, b, p
  <2>1. q + p \in Int
    BY <1>3, <1>5
  <2>2. (m * (q + p) + (b % m)) % m = b % m
    BY <1>1, <2>1, <1>5, DivisionUnique
  <2>3. QED
    BY <1>9, <2>2
<1>11. Wrap(x + y) = (b % m) - h
  BY <1>10 DEF Wrap
<1>12. QED
  BY <1>8, <1>11

LEMMA WrapNumber == ASSUME NEW x \in Number PROVE Wrap(x) = x
<1> DEFINE m == 2 * (MaxInt + 1)
           r == x + MaxInt + 1
<1>1. MaxInt \in Nat
  BY PatternsAssumption
<1>2. m \in Nat \ {0} /\ r \in 0..(m - 1) /\ x \in Int
  BY <1>1 DEF Number
<1>3. (m * 0 + r) % m = r
  BY <1>2, DivisionUnique
<1>4. r % m = r
  BY <1>2, <1>3
<1>5. QED
  BY <1>1, <1>2, <1>4 DEF Wrap

-----------------------------------------------------------------------------
(* Types of the generator's operators *)

LEMMA NumberFacts == Number \subseteq Int /\ 0 \in Number /\ MaxInt \in Number
BY PatternsAssumption DEF Number

LEMMA SlotsType ==
    ASSUME file \in Files
    PROVE  /\ Granularity \in Nat
           /\ \A d \in Nat : Slots(d) \in Nat
<1>1. Granularity \in Nat
  BY PatternsAssumption DEF Granularity
<1>2. ASSUME NEW d \in Nat PROVE Slots(d) \in Nat
  <2>1. CASE Granularity = 0
    BY <2>1 DEF Slots
  <2>2. CASE Granularity # 0
    <3>1. d \div Granularity \in Nat
      BY <1>1, <2>2
    <3>2. QED
      BY <2>2, <3>1 DEF Slots
  <2>3. QED
    BY <2>1, <2>2
<1>3. QED
  BY <1>1, <1>2

(***************************************************************************)
(* A function on 1..n is a sequence.                                       *)
(***************************************************************************)
LEMMA FunctionIsSeq ==
    ASSUME NEW S, NEW n \in Nat, NEW f \in [1..n -> S]
    PROVE  f \in Seq(S) /\ Len(f) = n /\ DOMAIN f = 1..n
OBVIOUS

LEMMA ZerosType ==
    ASSUME NEW n \in Nat
    PROVE  Zeros(n) \in Seq(Number) /\ Len(Zeros(n)) = n
<1>1. Zeros(n) \in [1..n -> Number]
  BY NumberFacts DEF Zeros
<1>2. QED
  BY <1>1, FunctionIsSeq

(***************************************************************************)
(* The parts of a sequence or an overlap are patterns.                     *)
(***************************************************************************)
LEMMA PartsType ==
    ASSUME NEW c \in Patterns, Composite(c)
    PROVE  /\ Parts(c) \in Seq(Patterns)
           /\ c.type = "Overlap" => /\ c.overlaps \in Seq([offset : Nat, config : Patterns])
                                    /\ Len(Parts(c)) = Len(c.overlaps)
<1>1. IsPattern(c)
  BY PatternsAssumption
<1>2. CASE c.type = "Sequence"
  BY <1>1, <1>2 DEF IsPattern, Parts
<1>3. CASE c.type = "Overlap"
  <2>1. c.overlaps \in Seq([offset : Nat, config : Patterns])
    BY <1>1, <1>3 DEF IsPattern
  <2>2. Parts(c) = [i \in DOMAIN c.overlaps |-> c.overlaps[i].config]
    BY <1>3 DEF Parts
  <2>3. Len(c.overlaps) \in Nat /\ DOMAIN c.overlaps = 1..Len(c.overlaps)
    BY <2>1
  <2>4. ASSUME NEW i \in 1..Len(c.overlaps) PROVE c.overlaps[i].config \in Patterns
    <3>1. c.overlaps[i] \in [offset : Nat, config : Patterns]
      BY <2>1, ElementOfSeq
    <3>2. QED
      BY <3>1
  <2>6. Parts(c) \in [1..Len(c.overlaps) -> Patterns]
    BY <2>2, <2>3, <2>4
  <2>5. QED
    BY <2>1, <2>3, <2>6, FunctionIsSeq
<1>4. QED
  BY <1>2, <1>3 DEF Composite

(***************************************************************************)
(* Adding up two rows makes a row, as long as the longer one.              *)
(***************************************************************************)
LEMMA MaxOfTwo ==
    ASSUME NEW a \in Int, NEW b \in Int
    PROVE  Max({a, b}) = IF a >= b THEN a ELSE b
<1> DEFINE m == IF a >= b THEN a ELSE b
<1>1. m \in {a, b} /\ \A y \in {a, b} : m >= y
  OBVIOUS
<1>2. \A x \in {a, b} : (\A y \in {a, b} : x >= y) => x = m
  OBVIOUS
<1>3. QED
  BY <1>1, <1>2 DEF Max

LEMMA OverlappedType ==
    ASSUME NEW old \in Seq(Number), NEW new \in Seq(Number), NEW offset \in Nat
    PROVE  Overlapped(old, new, offset) \in Seq(Number)
<1> DEFINE size == Max({Len(old), offset + Len(new)})
           At(row, i) == IF i \in DOMAIN row THEN row[i] ELSE 0
<1>1. size \in Nat
  BY MaxOfTwo
<1>4. Overlapped(old, new, offset) = [i \in 1..size |-> Wrap(At(old, i) + At(new, i - offset))]
  BY DEF Overlapped
<1> HIDE DEF size
<1>2. ASSUME NEW row \in Seq(Number), NEW i \in Int PROVE At(row, i) \in Int
  <2>1. CASE i \in DOMAIN row
    <3>1. row[i] \in Number
      BY <2>1, ElementOfSeq
    <3>2. QED
      BY <2>1, <3>1, NumberFacts
  <2>2. CASE i \notin DOMAIN row
    BY <2>2
  <2>3. QED
    BY <2>1, <2>2
<1> HIDE DEF At
<1>3. ASSUME NEW i \in 1..size
      PROVE  Wrap(At(old, i) + At(new, i - offset)) \in Number
  <2>1. i \in Int /\ i - offset \in Int
    BY <1>1
  <2>2. At(old, i) \in Int /\ At(new, i - offset) \in Int
    BY <2>1, <1>2
  <2>3. At(old, i) + At(new, i - offset) \in Int
    BY <2>2
  <2>4. QED
    BY <2>3, WrapType
<1>5. Overlapped(old, new, offset) \in [1..size -> Number]
  BY <1>3, <1>4
<1>6. QED
  BY <1>1, <1>5, FunctionIsSeq

(***************************************************************************)
(* What becomes of the weights are numbers, which have room for one more.  *)
(***************************************************************************)
LEMMA CastType ==
    ASSUME NEW c \in Patterns, c.type = "Distributed", NEW r \in Cast(c)
    PROVE  /\ r \in [1..Slots(c.duration) -> Int]
           /\ \A i \in 1..Slots(c.duration) : -MaxInt - 1 <= r[i] /\ r[i] < MaxInt
<1> DEFINE n == Slots(c.duration)
           size == c.cumulative_size
<1>1. size \in Number \ {MaxInt}
  <2>1. IsPattern(c)
    BY PatternsAssumption
  <2>2. QED
    BY <2>1 DEF IsPattern
<1>2. size \in Int /\ MaxInt \in Nat \ {0} /\ -MaxInt - 1 <= size /\ size < MaxInt
  BY <1>1, PatternsAssumption DEF Number
<1>3. \A w \in Weights(c) : DOMAIN w = 1..n
  BY DEF Weights
<1> HIDE DEF n
<1>4. ASSUME NEW s, NEW w \in Weights(c), NEW q \in Shares(s, w)
      PROVE  q \in [1..n -> 0..s]
  BY <1>3 DEF Shares
<1> HIDE DEF size
<1>5. CASE ~Normalises(c)
  <2>1. r \in [1..n -> {0, -MaxInt - 1}]
    BY <1>5 DEF Cast, n
  <2>2. ASSUME NEW i \in 1..n PROVE r[i] \in Int /\ -MaxInt - 1 <= r[i] /\ r[i] < MaxInt
    <3>1. r[i] = 0 \/ r[i] = -MaxInt - 1
      BY <2>1
    <3>2. QED
      BY <1>2, <3>1
  <2>3. QED
    BY <2>1, <2>2 DEF n
<1>6. CASE Normalises(c) /\ size < 0
  <2>1. r \in {[i \in DOMAIN q |-> -q[i]] : q \in UNION {Shares(-size, w) : w \in Weights(c)}}
    BY <1>6 DEF Cast, size
  <2>2. PICK q \in UNION {Shares(-size, w) : w \in Weights(c)} : r = [i \in DOMAIN q |-> -q[i]]
    BY <2>1
  <2>3. q \in [1..n -> 0..(-size)]
    BY <1>4, <2>2
  <2>4. ASSUME NEW i \in 1..n PROVE r[i] \in Int /\ -MaxInt - 1 <= r[i] /\ r[i] < MaxInt
    <3>1. q[i] \in 0..(-size) /\ r[i] = -q[i]
      BY <2>2, <2>3
    <3>2. QED
      BY <1>2, <3>1
  <2>5. r \in [1..n -> Int]
    BY <2>2, <2>3, <2>4
  <2>6. QED
    BY <2>4, <2>5 DEF n
<1>7. CASE Normalises(c) /\ ~(size < 0)
  <2>1. r \in UNION {Shares(size, w) : w \in Weights(c)}
    BY <1>7 DEF Cast, size
  <2>2. r \in [1..n -> 0..size]
    BY <1>4, <2>1
  <2>3. ASSUME NEW i \in 1..n PROVE r[i] \in Int /\ -MaxInt - 1 <= r[i] /\ r[i] < MaxInt
    <3>1. r[i] \in 0..size
      BY <2>2
    <3>2. QED
      BY <1>2, <3>1
  <2>4. QED
    BY <2>2, <2>3 DEF n
<1>8. QED
  BY <1>5, <1>6, <1>7

(***************************************************************************)
(* A distribution over some slots is what became of the weights, and a     *)
(* byte more in as many slots as are picked.                               *)
(***************************************************************************)
LEMMA DistributedIs ==
    ASSUME NEW c, Slots(c.duration) # 0, NEW row \in DistributedRows(c)
    PROVE  \E r \in Cast(c), P \in SUBSET (1..Slots(c.duration)) :
              /\ Cardinality(P) = Missing(c.cumulative_size, r)
              /\ row = [i \in DOMAIN r |-> IF i \in P THEN r[i] + 1 ELSE r[i]]
<1> DEFINE n == Slots(c.duration)
<1>1. PICK rp \in {sp \in Cast(c) \X SUBSET (1..n) :
                      Cardinality(sp[2]) = Missing(c.cumulative_size, sp[1])} :
         row = [i \in DOMAIN rp[1] |-> IF i \in rp[2] THEN rp[1][i] + 1 ELSE rp[1][i]]
  BY DEF DistributedRows
<1>2. rp[1] \in Cast(c) /\ rp[2] \in SUBSET (1..n)
  BY <1>1
<1>3. Cardinality(rp[2]) = Missing(c.cumulative_size, rp[1])
  BY <1>1
<1>4. QED
  BY <1>1, <1>2, <1>3

(***************************************************************************)
(* What a call returns at once is a row, whatever the draw: a share and    *)
(* the byte that rounding may have left for it fit into a slot.            *)
(***************************************************************************)
LEMMA DistributedType ==
    ASSUME file \in Files, NEW c \in Patterns, c.type = "Distributed", NEW row \in DistributedRows(c)
    PROVE  row \in Seq(Number)
<1> DEFINE n == Slots(c.duration)
<1>1. n \in Nat /\ MaxInt \in Nat
  <2>1. IsPattern(c)
    BY PatternsAssumption
  <2>2. c.duration \in Nat
    BY <2>1 DEF IsPattern
  <2>3. QED
    BY <2>2, SlotsType, PatternsAssumption
<1>2. CASE n = 0
  BY <1>2 DEF DistributedRows
<1>3. CASE n # 0
  <2>1. PICK r \in Cast(c), P \in SUBSET (1..n) :
           row = [i \in DOMAIN r |-> IF i \in P THEN r[i] + 1 ELSE r[i]]
    BY <1>3, DistributedIs
  <2>2. r \in [1..n -> Int] /\ \A i \in 1..n : -MaxInt - 1 <= r[i] /\ r[i] < MaxInt
    BY CastType
  <2> HIDE DEF n
  <2>3. ASSUME NEW i \in 1..n PROVE row[i] \in Number
    <3>1. r[i] \in Int /\ -MaxInt - 1 <= r[i] /\ r[i] < MaxInt
      BY <2>2
    <3>2. row[i] = r[i] \/ row[i] = r[i] + 1
      BY <2>1, <2>2
    <3>3. QED
      BY <1>1, <3>1, <3>2 DEF Number
  <2>4. row \in [1..n -> Number]
    BY <2>1, <2>2, <2>3
  <2>5. QED
    BY <1>1, <2>4, FunctionIsSeq
<1>4. QED
  BY <1>2, <1>3

LEMMA RowsType ==
    ASSUME file \in Files, NEW c \in Patterns, NEW row \in Rows(c)
    PROVE  row \in Seq(Number)
<1>1. IsPattern(c)
  BY PatternsAssumption
<1>2. CASE c.type = "Pause"
  <2>1. c.duration \in Nat
    BY <1>1, <1>2 DEF IsPattern
  <2>2. row = Zeros(Slots(c.duration))
    BY <1>2 DEF Rows
  <2>3. QED
    BY <2>1, <2>2, SlotsType, ZerosType
<1>3. CASE c.type = "Random"
  <2>1. c.duration \in Nat /\ c.min_size \in Number /\ c.max_size \in Number
    BY <1>1, <1>3 DEF IsPattern
  <2>2. row \in [1..Slots(c.duration) -> c.min_size..c.max_size]
    BY <1>3 DEF Rows
  <2>3. c.min_size..c.max_size \subseteq Number
    BY <2>1, PatternsAssumption DEF Number
  <2>4. Slots(c.duration) \in Nat
    BY <2>1, SlotsType
  <2>5. row \in [1..Slots(c.duration) -> Number]
    BY <2>2, <2>3
  <2>6. QED
    BY <2>4, <2>5, FunctionIsSeq
<1>4. CASE c.type = "Distributed"
  BY <1>4, DistributedType DEF Rows
<1>5. CASE c.type \notin {"Pause", "Random", "Distributed"}
  <2>1. Rows(c) = {<<>>}
    BY <1>5 DEF Rows
  <2>2. row = <<>> /\ <<>> \in Seq(Number)
    BY <2>1
  <2>3. QED
    BY <2>2
<1>6. QED
  BY <1>2, <1>3, <1>4, <1>5

(***************************************************************************)
(* A call starts with a frame, and so does its caller go on when it has    *)
(* returned.                                                               *)
(***************************************************************************)
LEMMA CallType ==
    ASSUME file \in Files, NEW c \in Patterns
    PROVE  Call(c) \in Frame
<1>1. CASE c.type = "Periodic"
  <2>1. c.duration \in Nat
    BY <1>1, PatternsAssumption DEF IsPattern
  <2>2. Zeros(Slots(c.duration)) \in Seq(Number)
    BY <2>1, SlotsType, ZerosType
  <2>3. QED
    BY <1>1, <2>2 DEF Call, Frame
<1>2. CASE c.type # "Periodic"
  BY <1>2 DEF Call, Frame
<1>3. QED
  BY <1>1, <1>2

LEMMA ReceivedType ==
    ASSUME file \in Files, NEW f \in Frame, NEW row \in Seq(Number),
           Composite(f.config), f.at < Len(Parts(f.config))
    PROVE  /\ Received(f, row) \in Frame
           /\ Received(f, row).config = f.config
<1>1. f.config \in Patterns /\ f.at \in Nat /\ f.row \in Seq(Number)
  BY DEF Frame
<1>2. CASE f.config.type = "Sequence"
  <2>1. f.row \o row \in Seq(Number)
    BY <1>1, ConcatProperties
  <2>2. Received(f, row) = [f EXCEPT !.at = f.at + 1, !.row = f.row \o row]
    BY <1>2 DEF Received, Frame
  <2>3. f.at + 1 \in Nat
    BY <1>1
  <2> DEFINE n == f.at + 1
             r == f.row \o row
             g == [f EXCEPT !.at = n, !.row = r]
  <2>4. Received(f, row) = g
    BY <2>2
  <2>5. n \in Nat /\ r \in Seq(Number)
    BY <2>1, <2>3
  <2> HIDE DEF n, r
  <2>6. g \in Frame /\ g.config = f.config
    BY <2>5 DEF Frame
  <2>7. QED
    BY <2>4, <2>6
<1>3. CASE f.config.type = "Overlap"
  <2> DEFINE o == f.config.overlaps
             sum == Overlapped(f.row, row, Slots(o[f.at + 1].offset))
  <2>1. /\ o \in Seq([offset : Nat, config : Patterns])
        /\ Len(Parts(f.config)) = Len(o)
    BY <1>1, <1>3, PartsType
  <2>2. f.at + 1 \in 1..Len(o)
    BY <1>1, <2>1
  <2>3. o[f.at + 1] \in [offset : Nat, config : Patterns]
    BY <2>1, <2>2, ElementOfSeq
  <2>4. Slots(o[f.at + 1].offset) \in Nat
    BY <2>3, SlotsType
  <2>5. sum \in Seq(Number)
    BY <1>1, <2>4, OverlappedType
  <2>6. Received(f, row) = [f EXCEPT !.at = f.at + 1, !.row = sum]
    BY <1>3 DEF Received, Frame
  <2> DEFINE n == f.at + 1
             g == [f EXCEPT !.at = n, !.row = sum]
  <2>7. Received(f, row) = g
    BY <2>6
  <2>8. n \in Nat
    BY <1>1
  <2> HIDE DEF sum, n
  <2>9. g \in Frame /\ g.config = f.config
    BY <2>5, <2>8 DEF Frame
  <2>10. QED
    BY <2>7, <2>9
<1>4. QED
  BY <1>2, <1>3 DEF Composite

-----------------------------------------------------------------------------
(* The stack of frames *)

LEMMA InmostType ==
    ASSUME FramesInv, stack # <<>>
    PROVE  Inmost \in Frame /\ Inmost = stack[1] /\ Len(stack) \in Nat \ {0}
BY HeadTailProperties DEF FramesInv, Inmost

LEMMA FramesInit == PlanInit => FramesInv
<1> SUFFICES ASSUME PlanInit PROVE FramesInv
  OBVIOUS
<1>1. <<>> \in Seq(Frame) /\ <<>> \in Seq(Entries) /\ DOMAIN <<>> = {}
  OBVIOUS
<1>2. traffic \in [DOMAIN traffic -> Seq(Number)]
  BY <1>1 DEF PlanInit
<1>3. QED
  BY <1>1, <1>2 DEF PlanInit, FramesInv

(***************************************************************************)
(* Putting a frame on the stack, or another in the place of the first.     *)
(***************************************************************************)
LEMMA PushedFrame ==
    ASSUME NEW S, NEW f \in S, NEW s \in Seq(S)
    PROVE  /\ <<f>> \o s \in Seq(S) /\ Len(<<f>> \o s) = Len(s) + 1 /\ <<f>> \o s # <<>>
           /\ (<<f>> \o s)[1] = f /\ Head(<<f>> \o s) = f
           /\ \A i \in 1..Len(s) : (<<f>> \o s)[i + 1] = s[i]
<1> DEFINE t == <<f>> \o s
<1>1. <<f>> \in Seq(S) /\ Len(<<f>>) = 1
  OBVIOUS
<1>2. /\ t \in Seq(S) /\ Len(t) = 1 + Len(s)
      /\ \A i \in 1..(1 + Len(s)) : t[i] = IF i <= 1 THEN <<f>>[i] ELSE s[i - 1]
  BY <1>1, ConcatProperties
<1>3. Len(s) \in Nat
  OBVIOUS
<1> HIDE DEF t
<1>4. t[1] = f
  BY <1>2, <1>3
<1>5. ASSUME NEW i \in 1..Len(s) PROVE t[i + 1] = s[i]
  <2>1. i + 1 \in 1..(1 + Len(s)) /\ ~(i + 1 <= 1) /\ (i + 1) - 1 = i
    BY <1>3
  <2>2. QED
    BY <1>2, <2>1
<1>6. t # <<>> /\ Head(t) = t[1]
  BY <1>2, <1>3, HeadTailProperties
<1>7. QED
  BY <1>2, <1>3, <1>4, <1>5, <1>6 DEF t

(***************************************************************************)
(* A return hands a row to the caller, or to the UE.                       *)
(***************************************************************************)
LEMMA ReturnStep ==
    ASSUME FramesInv, stack # <<>>, NEW row \in Seq(Number), Return(row),
           UNCHANGED <<file, planPhase>>
    PROVE  /\ FramesInv'
           /\ stack' # <<>> => Composite(Inmost'.config)
<1> DEFINE callers == Tail(stack)
<1>1. /\ stack \in Seq(Frame) /\ configs \in Seq(Entries) /\ configs # <<>> /\ file \in Files
      /\ traffic \in [DOMAIN traffic -> Seq(Number)]
  BY DEF FramesInv
<1>2. /\ callers \in Seq(Frame) /\ Len(callers) = Len(stack) - 1
      /\ \A i \in 1..Len(callers) : callers[i] = stack[i + 1]
  BY <1>1, HeadTailProperties
<1>3. /\ file' \in Files /\ planPhase' \in {"load", "generate", "ready", "failed"}
      /\ planPhase' # "load"
  BY DEF FramesInv
<1>4. CASE callers = <<>>
  <2>1. /\ traffic' = [u \in DOMAIN traffic \cup {configs[1].ue} |->
                          IF u = configs[1].ue THEN row ELSE traffic[u]]
        /\ configs' = Tail(configs)
        /\ stack' = <<>>
    BY <1>4 DEF Return
  <2>2. traffic' \in [DOMAIN traffic' -> Seq(Number)]
    <3> DEFINE D == DOMAIN traffic \cup {configs[1].ue}
    <3>1. DOMAIN traffic' = D
      BY <2>1
    <3>2. ASSUME NEW u \in D PROVE traffic'[u] \in Seq(Number)
      <4>1. CASE u = configs[1].ue
        BY <2>1, <4>1
      <4>2. CASE u # configs[1].ue
        <5>1. u \in DOMAIN traffic /\ traffic'[u] = traffic[u]
          BY <2>1, <4>2
        <5>2. QED
          BY <1>1, <5>1
      <4>3. QED
        BY <4>1, <4>2
    <3> HIDE DEF D
    <3>3. traffic' = [u \in D |-> traffic'[u]]
      BY <2>1 DEF D
    <3>4. QED
      BY <3>1, <3>2, <3>3
  <2>3. configs' \in Seq(Entries)
    BY <1>1, <2>1, HeadTailProperties
  <2>4. stack' \in Seq(Frame) /\ DOMAIN stack' = {}
    BY <2>1
  <2>5. QED
    BY <1>3, <2>1, <2>2, <2>3, <2>4 DEF FramesInv
<1>5. CASE callers # <<>>
  <2> DEFINE f == Head(callers)
             g == Received(f, row)
             rest == Tail(callers)
  <2>1. stack' = <<g>> \o rest /\ UNCHANGED <<traffic, configs>>
    BY <1>5 DEF Return
  <2>2. /\ f \in Frame /\ f = stack[2] /\ 2 \in DOMAIN stack
        /\ rest \in Seq(Frame) /\ Len(rest) = Len(stack) - 2
        /\ \A i \in 1..Len(rest) : rest[i] = stack[i + 2] /\ i + 2 \in DOMAIN stack
    <3>1. /\ f \in Frame /\ rest \in Seq(Frame) /\ Len(rest) = Len(callers) - 1
          /\ f = callers[1]
          /\ \A i \in 1..Len(rest) : rest[i] = callers[i + 1]
      BY <1>2, <1>5, HeadTailProperties
    <3>2. Len(stack) \in Nat /\ DOMAIN stack = 1..Len(stack) /\ Len(callers) \in Nat \ {0}
      BY <1>1, <1>2, <1>5
    <3> HIDE DEF callers, f, rest
    <3>3. f = stack[2] /\ 2 \in DOMAIN stack
      BY <1>2, <3>1, <3>2
    <3>4. ASSUME NEW i \in 1..Len(rest) PROVE rest[i] = stack[i + 2] /\ i + 2 \in DOMAIN stack
      <4>1. i + 1 \in 1..Len(callers) /\ (i + 1) + 1 = i + 2
        BY <3>1, <3>2
      <4>2. rest[i] = callers[i + 1] /\ callers[i + 1] = stack[i + 2]
        BY <1>2, <3>1, <4>1
      <4>3. QED
        BY <1>2, <3>1, <3>2, <4>2
    <3>5. QED
      BY <1>2, <3>1, <3>2, <3>3, <3>4
  <2>3. /\ Composite(f.config) /\ f.at < Len(Parts(f.config))
        /\ \A i \in 1..Len(rest) : Composite(rest[i].config) /\ rest[i].at < Len(Parts(rest[i].config))
    <3> HIDE DEF f, rest
    <3>1. \A j \in DOMAIN stack :
             j > 1 => Composite(stack[j].config) /\ stack[j].at < Len(Parts(stack[j].config))
      BY DEF FramesInv
    <3>2. ASSUME NEW i \in 1..Len(rest)
          PROVE  Composite(rest[i].config) /\ rest[i].at < Len(Parts(rest[i].config))
      <4>1. i + 2 > 1 /\ i + 2 \in DOMAIN stack /\ rest[i] = stack[i + 2]
        BY <2>2
      <4>2. QED
        BY <3>1, <4>1
    <3>3. 2 \in DOMAIN stack /\ 2 > 1 /\ f = stack[2]
      BY <2>2
    <3>4. Composite(f.config) /\ f.at < Len(Parts(f.config))
      BY <3>1, <3>3
    <3>5. QED
      BY <3>2, <3>4
  <2>4. g \in Frame /\ g.config = f.config
    BY <1>1, <2>2, <2>3, ReceivedType
  <2> HIDE DEF g, f, rest
  <2>5. /\ stack' \in Seq(Frame) /\ stack' # <<>> /\ Len(stack') = Len(rest) + 1
        /\ Head(stack') = g
        /\ \A i \in 1..Len(rest) : stack'[i + 1] = rest[i]
    BY <2>1, <2>2, <2>4, PushedFrame
  <2>6. ASSUME NEW i \in DOMAIN stack', i > 1
        PROVE  Composite(stack'[i].config) /\ stack'[i].at < Len(Parts(stack'[i].config))
    <3>1. Len(rest) \in Nat /\ DOMAIN stack' = 1..Len(stack')
      BY <2>2, <2>5
    <3>2. i - 1 \in 1..Len(rest) /\ (i - 1) + 1 = i
      BY <2>5, <2>6, <3>1
    <3>3. stack'[i] = rest[i - 1]
      BY <2>5, <3>2
    <3>4. QED
      BY <2>3, <3>2, <3>3
  <2>7. Composite(Inmost'.config)
    BY <2>3, <2>4, <2>5 DEF Inmost
  <2>8. FramesInv'
    BY <1>1, <1>3, <2>1, <2>5, <2>6 DEF FramesInv
  <2>9. QED
    BY <2>7, <2>8
<1>6. QED
  BY <1>4, <1>5

(***************************************************************************)
(* A packet of a periodic pattern changes the slot of its time, if it has  *)
(* one, and nothing else.                                                  *)
(***************************************************************************)
LEMMA PacketStep ==
    ASSUME FramesInv, PeriodicPacket, NEW idx, idx = Inmost.at \div Granularity + 1
    PROVE  /\ stack' \in Seq(Frame) /\ Len(stack') = Len(stack) /\ stack' # <<>>
           /\ \A i \in DOMAIN stack : i > 1 => stack'[i] = stack[i]
           /\ Inmost'.config = Inmost.config
           /\ Inmost'.at = Inmost.at + Inmost.config.interval
           /\ Len(Inmost'.row) = Len(Inmost.row)
           /\ \A i \in DOMAIN Inmost.row :
                 Inmost'.row[i] = IF i = idx THEN Wrap(Inmost.row[i] + Inmost.config.packet_size)
                                  ELSE Inmost.row[i]
<1> DEFINE f == Inmost
           c == f.config
           new == IF idx \in DOMAIN f.row
                  THEN [f.row EXCEPT ![idx] = Wrap(@ + c.packet_size)] ELSE f.row
           n == f.at + c.interval
           g == [f EXCEPT !.at = n, !.row = new]
<1>1. stack \in Seq(Frame) /\ stack # <<>>
  BY DEF FramesInv, PeriodicPacket, Periodical
<1>2. f \in Frame /\ f = stack[1] /\ Len(stack) \in Nat \ {0}
  BY <1>1, InmostType
<1>3. c \in Patterns /\ f.at \in Nat /\ f.row \in Seq(Number) /\ c.type = "Periodic"
  BY <1>2 DEF Frame, PeriodicPacket, Periodical
<1>4. c.interval \in Nat /\ c.packet_size \in Number
  <2>1. IsPattern(c)
    BY <1>3, PatternsAssumption
  <2> HIDE DEF c
  <2>2. QED
    BY <1>3, <2>1 DEF IsPattern
<1>5. /\ new \in Seq(Number) /\ Len(new) = Len(f.row)
      /\ \A i \in DOMAIN f.row :
            new[i] = IF i = idx THEN Wrap(f.row[i] + c.packet_size) ELSE f.row[i]
  <2> HIDE DEF f, c
  <2>1. CASE idx \in DOMAIN f.row
    <3>1. f.row[idx] + c.packet_size \in Int
      <4>1. f.row[idx] \in Number
        BY <1>3, <2>1, ElementOfSeq
      <4>2. f.row[idx] \in Int /\ c.packet_size \in Int
        BY <1>4, <4>1, NumberFacts
      <4>3. QED
        BY <4>2
    <3>2. Wrap(f.row[idx] + c.packet_size) \in Number
      BY <3>1, WrapType
    <3>3. QED
      BY <1>3, <2>1, <3>2
  <2>2. CASE idx \notin DOMAIN f.row
    BY <1>3, <2>2
  <2>3. QED
    BY <2>1, <2>2
<1>6. stack' = [stack EXCEPT ![1] = g]
  <2> DEFINE later == [f EXCEPT !.at = @ + c.interval, !.row = WithPacket(@, idx, c.packet_size)]
  <2>1. stack' = [stack EXCEPT ![1] = later]
    BY DEF PeriodicPacket
  <2>2. new = WithPacket(f.row, idx, c.packet_size)
    BY DEF WithPacket
  <2> HIDE DEF new
  <2>3. later = g
    BY <1>2, <2>2 DEF Frame
  <2> HIDE DEF later, g
  <2>4. QED
    BY <2>1, <2>3
<1>7. n \in Nat
  BY <1>3, <1>4
<1> HIDE DEF f, c, new, n
<1>8. g \in Frame /\ g.config = f.config /\ g.at = n /\ g.row = new
  BY <1>2, <1>5, <1>7 DEF Frame
<1> HIDE DEF g
<1>9. /\ stack' \in Seq(Frame) /\ Len(stack') = Len(stack) /\ stack'[1] = g
      /\ \A i \in DOMAIN stack : i > 1 => stack'[i] = stack[i]
  BY <1>1, <1>2, <1>6, <1>8
<1>10. Inmost' = g
  BY <1>2, <1>9, HeadTailProperties DEF Inmost
<1>11. stack' # <<>>
  BY <1>2, <1>9
<1>12. QED
  BY <1>5, <1>8, <1>9, <1>10, <1>11 DEF f, c, n

(***************************************************************************)
(* A call of a part puts its frame on top of the one that called it.       *)
(***************************************************************************)
LEMMA PartStep ==
    ASSUME FramesInv, GeneratePart, stack' # stack
    PROVE  /\ FramesInv'
           /\ \E c \in Patterns : ~CallRaises(c) /\ Inmost' = Call(c)
<1> DEFINE f == Inmost
           part == Parts(f.config)[f.at + 1]
<1>1. /\ stack \in Seq(Frame) /\ stack # <<>> /\ file \in Files /\ planPhase = "generate"
      /\ Composite(f.config) /\ f.at < Len(Parts(f.config))
      /\ ~CallRaises(part) /\ stack' = <<Call(part)>> \o stack
      /\ UNCHANGED <<file, configs, traffic, planPhase>>
  BY DEF FramesInv, GeneratePart
<1>2. f \in Frame /\ f = stack[1] /\ Len(stack) \in Nat \ {0}
  BY <1>1, InmostType
<1>3. part \in Patterns
  <2>1. f.config \in Patterns /\ f.at \in Nat
    BY <1>2 DEF Frame
  <2>2. Parts(f.config) \in Seq(Patterns)
    BY <1>1, <2>1, PartsType
  <2>3. f.at + 1 \in 1..Len(Parts(f.config))
    BY <1>1, <2>1, <2>2
  <2>4. QED
    BY <2>2, <2>3, ElementOfSeq
<1> HIDE DEF part, f
<1>4. Call(part) \in Frame
  BY <1>1, <1>3, CallType
<1>5. /\ stack' \in Seq(Frame) /\ Len(stack') = Len(stack) + 1 /\ stack' # <<>>
      /\ Head(stack') = Call(part)
      /\ \A i \in 1..Len(stack) : stack'[i + 1] = stack[i]
  BY <1>1, <1>4, PushedFrame
<1>6. ASSUME NEW i \in DOMAIN stack', i > 1
      PROVE  Composite(stack'[i].config) /\ stack'[i].at < Len(Parts(stack'[i].config))
  <2>1. DOMAIN stack' = 1..(Len(stack) + 1)
    BY <1>5
  <2>2. i - 1 \in 1..Len(stack) /\ (i - 1) + 1 = i
    BY <1>2, <1>6, <2>1
  <2>3. stack'[i] = stack[i - 1]
    BY <1>5, <2>2
  <2>4. CASE i = 2
    BY <1>1, <1>2, <2>3, <2>4
  <2>5. CASE i # 2
    <3>1. i - 1 > 1 /\ i - 1 \in DOMAIN stack
      BY <1>1, <2>2, <2>5
    <3>2. QED
      BY <2>3, <3>1 DEF FramesInv
  <2>6. QED
    BY <2>4, <2>5
<1>7. FramesInv'
  BY <1>1, <1>5, <1>6 DEF FramesInv
<1>8. QED
  BY <1>1, <1>3, <1>5, <1>7 DEF Inmost

(***************************************************************************)
(* Each step of the generator keeps the frames typed.                      *)
(***************************************************************************)
LEMMA FramesStep ==
    ASSUME FramesInv, [Next]_vars
    PROVE  FramesInv'
<1>1. CASE Load
  <2>1. stack = <<>> /\ UNCHANGED <<file, stack, traffic>>
    BY <1>1 DEF Load, FramesInv
  <2>2. configs' \in Seq(Entries) /\ planPhase' \in {"failed", "generate"}
    <3>1. CASE IsRejected(file.traffic)
      BY <1>1, <3>1 DEF Load, FramesInv
    <3>2. CASE ~IsRejected(file.traffic)
      BY <1>1, <3>2, PatternsAssumption DEF Load, FramesInv
    <3>3. QED
      BY <3>1, <3>2
  <2>3. QED
    BY <2>1, <2>2 DEF FramesInv
<1>2. CASE NextUE
  <2>1. /\ configs # <<>> /\ stack = <<>> /\ planPhase = "generate"
        /\ UNCHANGED <<file, configs, traffic>>
    BY <1>2 DEF NextUE
  <2>2. CASE CallRaises(configs[1].config)
    <3>1. planPhase' = "failed" /\ UNCHANGED stack
      BY <1>2, <2>2 DEF NextUE
    <3>2. QED
      BY <2>1, <3>1 DEF FramesInv
  <2>3. CASE ~CallRaises(configs[1].config)
    <3> DEFINE c == configs[1].config
    <3>1. stack' = <<Call(c)>> /\ UNCHANGED planPhase
      BY <1>2, <2>3 DEF NextUE
    <3>2. c \in Patterns
      <4>1. configs[1] \in Entries
        BY <2>1, ElementOfSeq DEF FramesInv
      <4>2. QED
        BY <4>1, PatternsAssumption
    <3> HIDE DEF c
    <3>3. Call(c) \in Frame
      BY <3>2, CallType DEF FramesInv
    <3>4. stack' \in Seq(Frame) /\ DOMAIN stack' = {1}
      BY <3>1, <3>3
    <3>5. QED
      BY <2>1, <3>1, <3>4 DEF FramesInv
  <2>4. QED
    BY <2>2, <2>3
<1>3. CASE GeneratePart
  <2>1. CASE stack' = stack
    <3>1. UNCHANGED <<file, configs, traffic>> /\ planPhase' \in {"generate", "failed"}
      BY <1>3 DEF GeneratePart
    <3>2. QED
      BY <2>1, <3>1 DEF FramesInv
  <2>2. CASE stack' # stack
    BY <1>3, <2>2, PartStep
  <2>3. QED
    BY <2>1, <2>2
<1>4. CASE ReturnParts \/ ReturnPeriodic
  <2>1. /\ stack # <<>> /\ Return(Inmost.row) /\ UNCHANGED <<file, planPhase>>
    BY <1>4 DEF ReturnParts, ReturnPeriodic, Periodical
  <2>2. Inmost.row \in Seq(Number)
    BY <2>1, InmostType DEF Frame
  <2>3. QED
    BY <2>1, <2>2, ReturnStep
<1>5. CASE ReturnRow
  <2>1. /\ stack # <<>> /\ UNCHANGED <<file, planPhase>>
        /\ \E row \in Rows(Inmost.config) : Return(row)
    BY <1>5 DEF ReturnRow
  <2>2. PICK row \in Rows(Inmost.config) : Return(row)
    BY <2>1
  <2>3. Inmost.config \in Patterns
    BY <2>1, InmostType DEF Frame
  <2>4. row \in Seq(Number)
    BY <2>2, <2>3, RowsType DEF FramesInv
  <2>5. QED
    BY <2>1, <2>2, <2>4, ReturnStep
<1>6. CASE PeriodicPacket
  <2> DEFINE idx == Inmost.at \div Granularity + 1
  <2>1. UNCHANGED <<file, configs, traffic, planPhase>> /\ stack # <<>> /\ planPhase = "generate"
    BY <1>6 DEF PeriodicPacket, Periodical
  <2>2. /\ stack' \in Seq(Frame) /\ Len(stack') = Len(stack)
        /\ \A i \in DOMAIN stack : i > 1 => stack'[i] = stack[i]
    <3> SUFFICES ASSUME NEW j, j = idx PROVE
           /\ stack' \in Seq(Frame) /\ Len(stack') = Len(stack)
           /\ \A i \in DOMAIN stack : i > 1 => stack'[i] = stack[i]
      OBVIOUS
    <3> QED
      BY <1>6, PacketStep
  <2>3. DOMAIN stack' = DOMAIN stack
    BY <2>2 DEF FramesInv
  <2>4. ASSUME NEW i \in DOMAIN stack', i > 1
        PROVE  Composite(stack'[i].config) /\ stack'[i].at < Len(Parts(stack'[i].config))
    <3>1. stack'[i] = stack[i] /\ i \in DOMAIN stack
      BY <2>2, <2>3, <2>4
    <3>2. QED
      BY <2>4, <3>1 DEF FramesInv
  <2>5. QED
    BY <2>1, <2>2, <2>4 DEF FramesInv
<1>7. CASE Planned
  <2>1. UNCHANGED <<file, configs, stack, traffic>> /\ planPhase' = "ready"
    BY <1>7 DEF Planned
  <2>2. QED
    BY <2>1 DEF FramesInv
<1>8. CASE Abandon
  <2>1. UNCHANGED <<file, configs, stack, traffic>> /\ planPhase' = "failed"
    BY <1>8 DEF Abandon
  <2>2. QED
    BY <2>1 DEF FramesInv
<1>9. CASE UNCHANGED planVars
  BY <1>9 DEF FramesInv, planVars
<1>10. \/ PlanNext \/ Abandon \/ UNCHANGED planVars
  BY DEF Next, Plan, Run, vars
<1>11. QED
  BY <1>1, <1>2, <1>3, <1>4, <1>5, <1>6, <1>7, <1>8, <1>9, <1>10 DEF PlanNext, Generate

-----------------------------------------------------------------------------
(* The packets of a periodic pattern *)

(***************************************************************************)
(* A time lies in the slot that the division by the granularity gives, and *)
(* in no other.                                                            *)
(***************************************************************************)
LEMMA SlotOfTime ==
    ASSUME NEW g \in Nat \ {0}, NEW now \in Nat, NEW i \in Int
    PROVE  (now \in ((i - 1) * g)..(i * g - 1)) <=> (i = now \div g + 1)
<1> DEFINE q == now \div g
           r == now % g
<1>1. q \in Int /\ r \in 0..(g - 1) /\ now = g * q + r
  BY Division
<1> HIDE DEF q, r
<1>2. (i - 1) * g \in Int /\ i * g \in Int /\ g * q \in Int /\ (i - 1) * g = i * g - g
  BY <1>1
<1>3. ASSUME i = q + 1 PROVE now \in ((i - 1) * g)..(i * g - 1)
  <2>1. i - 1 = q
    BY <1>1, <1>3
  <2>2. (i - 1) * g = g * q
    BY <1>1, <2>1
  <2>3. QED
    BY <1>1, <1>2, <2>2
<1>4. ASSUME now \in ((i - 1) * g)..(i * g - 1) PROVE i = q + 1
  <2> DEFINE d == (i - 1) - q
  <2>1. d \in Int
    BY <1>1
  <2>2. g * d = (i - 1) * g - g * q
    BY <1>1
  <2>3. -g < g * d /\ g * d < g
    BY <1>1, <1>2, <1>4, <2>2
  <2>4. d = 0
    BY <2>1, <2>3, Multiples
  <2>5. QED
    BY <1>1, <2>4
<1>5. QED
  BY <1>3, <1>4 DEF q

(***************************************************************************)
(* The packets sent in a slot are finitely many, and so have a number.     *)
(***************************************************************************)
LEMMA SentFinite ==
    ASSUME NEW c, c.duration \in Nat, NEW now, NEW g, NEW i
    PROVE  /\ IsFiniteSet(SentTimes(c, now, g, i))
           /\ Cardinality(SentTimes(c, now, g, i)) \in Nat
<1>1. SentTimes(c, now, g, i) \in SUBSET (0..c.duration)
  BY DEF SentTimes, PacketTimes
<1>2. IsFiniteSet(0..c.duration)
  BY FS_Interval
<1>3. IsFiniteSet(SentTimes(c, now, g, i))
  BY <1>1, <1>2, FS_Subset
<1>4. QED
  BY <1>3, FS_CardinalityType

(***************************************************************************)
(* When the time goes on by an interval, the packet of the old time is one *)
(* more in its slot, and no other slot gets one.                           *)
(***************************************************************************)
LEMMA SentOneMore ==
    ASSUME NEW c, c.duration \in Nat, c.interval \in Nat \ {0},
           NEW g \in Nat \ {0}, NEW n \in Nat, NEW now \in Nat, now = n * c.interval,
           now < c.duration, NEW later, later = now + c.interval, NEW i \in Int
    PROVE  Cardinality(SentTimes(c, later, g, i)) =
               IF i = now \div g + 1 THEN Cardinality(SentTimes(c, now, g, i)) + 1
               ELSE Cardinality(SentTimes(c, now, g, i))
<1> DEFINE I == c.interval
           D == c.duration
           T(k) == k * I \in ((i - 1) * g)..(i * g - 1) /\ k * I < D
           old == SentTimes(c, now, g, i)
           new == SentTimes(c, later, g, i)
<1>1. /\ old = {k \in 0..D : T(k) /\ k * I < now}
      /\ new = {k \in 0..D : T(k) /\ k * I < now + I}
  BY DEF SentTimes, PacketTimes
<1>2. I \in Nat \ {0} /\ D \in Nat /\ now = n * I /\ now < D
  OBVIOUS
<1>3. T(n) <=> i = now \div g + 1
  BY <1>2, SlotOfTime
<1> HIDE DEF I, D
<1>4. ASSUME NEW k \in 0..D, k * I < now + I, ~(k * I < now)
      PROVE  k = n
  <2>1. k * I \in Int /\ n * I \in Int /\ I * (k - n) = k * I - n * I
    BY <1>2
  <2>2. -I < I * (k - n) /\ I * (k - n) < I
    BY <1>2, <1>4, <2>1
  <2>3. k - n \in Int
    OBVIOUS
  <2>4. k - n = 0
    BY <1>2, <2>2, <2>3, Multiples
  <2>5. QED
    BY <1>2, <2>4
<1>5. ASSUME NEW k \in 0..D, k * I < now PROVE k * I < now + I
  <2>1. k * I \in Int
    BY <1>2
  <2>2. QED
    BY <1>2, <1>5, <2>1
<1>6. n \in 0..D /\ n * I < now + I /\ ~(n * I < now)
  <2>1. n * I >= n * 1
    BY <1>2
  <2>2. QED
    BY <1>2, <2>1
<1>7. IsFiniteSet(old) /\ Cardinality(old) \in Nat
  BY SentFinite
<1> HIDE DEF T, old, new
<1>8. n \notin old
  BY <1>1, <1>6
<1>9. CASE T(n)
  <2>1. new = old \cup {n}
    BY <1>1, <1>4, <1>5, <1>6, <1>9
  <2>2. Cardinality(new) = Cardinality(old) + 1
    BY <1>7, <1>8, <2>1, FS_AddElement
  <2>3. QED
    BY <1>3, <1>9, <2>2 DEF old, new
<1>10. CASE ~T(n)
  <2>1. new = old
    BY <1>1, <1>4, <1>5, <1>10
  <2>2. QED
    BY <1>3, <1>10, <2>1 DEF old, new
<1>11. QED
  BY <1>9, <1>10 DEF old, new

(***************************************************************************)
(* A periodic call starts with no packet sent.                             *)
(***************************************************************************)
LEMMA SentFirst ==
    ASSUME file \in Files, NEW c \in Patterns, c.type = "Periodic", ~CallRaises(c)
    PROVE  SentSoFar(Call(c))
<1> DEFINE f == Call(c)
           n == Slots(c.duration)
<1>1. c.duration \in Nat /\ c.interval \in Nat /\ c.packet_size \in Number
  <2>1. IsPattern(c)
    BY PatternsAssumption
  <2>2. QED
    BY <2>1 DEF IsPattern
<1>2. Granularity \in Nat /\ n \in Nat
  BY <1>1, SlotsType
<1>3. Granularity > 0
  BY <1>2 DEF CallRaises
<1>4. f.config = c /\ f.at = 0 /\ f.row = Zeros(n)
  BY DEF Call
<1>5. f.row = [i \in 1..n |-> 0] /\ Len(f.row) = n /\ DOMAIN f.row = 1..n
  BY <1>2, <1>4, ZerosType DEF Zeros
<1> HIDE DEF f, n
<1>6. 0 = 0 * c.interval
  BY <1>1
<1>7. ASSUME c.interval > 0, NEW i \in 1..n, NEW g
      PROVE  f.row[i] = Wrap(c.packet_size * Cardinality(SentTimes(c, 0, g, i)))
  <2>1. ASSUME NEW k \in 0..c.duration PROVE ~(k * c.interval < 0)
    BY <1>1
  <2>2. SentTimes(c, 0, g, i) = {}
    BY <2>1 DEF SentTimes, PacketTimes
  <2>3. Cardinality(SentTimes(c, 0, g, i)) = 0
    BY <2>2, FS_EmptySet
  <2>4. c.packet_size * Cardinality(SentTimes(c, 0, g, i)) = 0
    <3>1. c.packet_size \in Int
      BY <1>1, NumberFacts
    <3>2. QED
      BY <2>3, <3>1
  <2>5. QED
    BY <1>5, <2>4, WrapNumber, NumberFacts
<1>8. ASSUME c.interval > 0
      PROVE  /\ \E m \in Nat : f.at = m * c.interval
             /\ \A i \in DOMAIN f.row :
                   f.row[i] =
                       Wrap(c.packet_size *
                            Cardinality(SentTimes(c, f.at, Granularity, i)))
  <2>1. \E m \in Nat : f.at = m * c.interval
    BY <1>4, <1>6
  <2>2. ASSUME NEW i \in DOMAIN f.row
        PROVE  f.row[i] =
                   Wrap(c.packet_size *
                        Cardinality(SentTimes(c, f.at, Granularity, i)))
    <3>1. i \in 1..n
      BY <1>5
    <3>2. QED
      BY <1>4, <1>7, <1>8, <3>1
  <2>3. QED
    BY <2>1, <2>2
<1>9. Len(f.row) = Slots(f.config.duration)
  BY <1>4, <1>5 DEF n
<1>10. SentSoFar(f)
  BY <1>3, <1>4, <1>8, <1>9 DEF SentSoFar
<1>11. QED
  BY <1>10 DEF f

(***************************************************************************)
(* A packet is added to its slot, whose bytes wrap around.                 *)
(***************************************************************************)
LEMMA SentNext ==
    ASSUME FramesInv, PeriodicPacket, SentSoFar(Inmost)
    PROVE  SentSoFar(Inmost')
<1> DEFINE f == Inmost
           g == Inmost'
           c == f.config
           idx == f.at \div Granularity + 1
           Sent(now, i) == SentTimes(c, now, Granularity, i)
<1>1. stack # <<>> /\ c.type = "Periodic" /\ f.at < c.duration
  BY DEF PeriodicPacket, Periodical
<1>2. f \in Frame
  BY <1>1, InmostType
<1>3. c \in Patterns /\ f.at \in Nat /\ f.row \in Seq(Number)
  BY <1>2 DEF Frame
<1> HIDE DEF f, c, g
<1>4. c.duration \in Nat /\ c.interval \in Nat /\ c.packet_size \in Int
  <2>1. IsPattern(c)
    BY <1>3, PatternsAssumption
  <2>2. QED
    BY <1>1, <2>1, NumberFacts DEF IsPattern
<1>5. /\ Granularity \in Nat \ {0} /\ Len(f.row) = Slots(c.duration)
      /\ c.interval = 0 => f.at = 0
      /\ c.interval > 0 =>
            /\ \E n \in Nat : f.at = n * c.interval
            /\ \A i \in DOMAIN f.row :
                  f.row[i] = Wrap(c.packet_size * Cardinality(Sent(f.at, i)))
  <2>1. Granularity \in Nat
    BY SlotsType DEF FramesInv
  <2>2. QED
    BY <2>1 DEF SentSoFar, f, c
<1>6. /\ g.config = c /\ g.at = f.at + c.interval /\ Len(g.row) = Len(f.row)
      /\ DOMAIN g.row = DOMAIN f.row
      /\ \A i \in DOMAIN f.row :
            g.row[i] = IF i = idx THEN Wrap(f.row[i] + c.packet_size) ELSE f.row[i]
  <2>1. /\ stack' \in Seq(Frame) /\ stack' # <<>>
        /\ g.config = c /\ g.at = f.at + c.interval /\ Len(g.row) = Len(f.row)
        /\ \A i \in DOMAIN f.row :
              g.row[i] = IF i = idx THEN Wrap(f.row[i] + c.packet_size) ELSE f.row[i]
    <3> SUFFICES ASSUME NEW j, j = idx
                 PROVE  /\ stack' \in Seq(Frame) /\ stack' # <<>>
                        /\ g.config = c /\ g.at = f.at + c.interval /\ Len(g.row) = Len(f.row)
                        /\ \A i \in DOMAIN f.row :
                              g.row[i] = IF i = j THEN Wrap(f.row[i] + c.packet_size)
                                         ELSE f.row[i]
      OBVIOUS
    <3> QED
      BY PacketStep DEF f, c, g
  <2>2. g \in Frame
    BY <2>1, HeadTailProperties DEF g, Inmost
  <2>3. g.row \in Seq(Number)
    BY <2>2 DEF Frame
  <2>4. QED
    BY <1>3, <2>1, <2>3
<1>7. CASE c.interval = 0
  BY <1>5, <1>6, <1>7 DEF SentSoFar, g
<1>8. CASE c.interval > 0
  <2>1. PICK n \in Nat : f.at = n * c.interval
    BY <1>5, <1>8
  <2>2. g.at = (n + 1) * c.interval /\ n + 1 \in Nat
    <3>1. (n + 1) * c.interval = n * c.interval + c.interval
      BY <1>4
    <3>2. QED
      BY <1>6, <2>1, <3>1
  <2>3. ASSUME NEW i \in DOMAIN f.row
        PROVE  g.row[i] = Wrap(c.packet_size * Cardinality(Sent(g.at, i)))
    <3> DEFINE old == Cardinality(Sent(f.at, i))
               new == Cardinality(Sent(g.at, i))
    <3>1. i \in Int
      BY <1>3
    <3>2. old \in Nat
      BY <1>4, SentFinite
    <3>3. f.row[i] = Wrap(c.packet_size * old)
      BY <1>5, <1>8
    <3>4. new = IF i = idx THEN old + 1 ELSE old
      <4>1. /\ c.duration \in Nat /\ c.interval \in Nat \ {0} /\ Granularity \in Nat \ {0}
            /\ f.at \in Nat /\ f.at = n * c.interval /\ f.at < c.duration
            /\ g.at = f.at + c.interval /\ i \in Int
        BY <1>1, <1>3, <1>4, <1>5, <1>6, <1>8, <2>1, <3>1
      <4>2. QED
        BY <4>1, SentOneMore
    <3> HIDE DEF old, new, idx
    <3>5. c.packet_size * old \in Int
      BY <1>4, <3>2
    <3>6. CASE i = idx
      <4>1. g.row[i] = Wrap(Wrap(c.packet_size * old) + c.packet_size)
        BY <1>6, <3>3, <3>6
      <4>2. Wrap(Wrap(c.packet_size * old) + c.packet_size) =
               Wrap(c.packet_size * old + c.packet_size)
        BY <1>4, <3>5, WrapSum
      <4>3. c.packet_size * old + c.packet_size = c.packet_size * (old + 1)
        BY <1>4, <3>2
      <4>4. QED
        BY <3>4, <3>6, <4>1, <4>2, <4>3 DEF new
    <3>7. CASE i # idx
      BY <1>6, <3>3, <3>4, <3>7 DEF new
    <3>8. QED
      BY <3>6, <3>7
  <2>4. QED
    BY <1>5, <1>6, <1>8, <2>2, <2>3 DEF SentSoFar, g
<1>9. QED
  BY <1>4, <1>7, <1>8

(***************************************************************************)
(* Only a call and a packet make, or change, a periodic frame that is      *)
(* inmost: what has returned leaves a sequence or an overlap there.        *)
(***************************************************************************)
LEMMA PeriodicStep ==
    ASSUME FramesInv, PeriodicInv, [Next]_vars
    PROVE  PeriodicInv'
<1> SUFFICES ASSUME stack' # <<>>, Inmost'.config.type = "Periodic"
             PROVE  SentSoFar(Inmost)'
  BY DEF PeriodicInv
<1>1. file' = file /\ file \in Files
  <2>1. file' = file
    BY DEF Next, vars, planVars, Plan, PlanNext, Load, Generate, NextUE, GeneratePart, ReturnParts,
       ReturnRow, PeriodicPacket, ReturnPeriodic, Planned, Abandon, Run
  <2>2. QED
    BY <2>1 DEF FramesInv
<1>2. SentSoFar(Inmost)' <=> SentSoFar(Inmost')
  BY <1>1 DEF SentSoFar, Slots, Granularity
<1>3. CASE UNCHANGED stack
  BY <1>2, <1>3 DEF PeriodicInv, Inmost
<1>4. CASE NextUE /\ stack' # stack
  <2> DEFINE c == configs[1].config
  <2>1. configs # <<>> /\ stack' = <<Call(c)>> /\ ~CallRaises(c)
    BY <1>4 DEF NextUE
  <2>2. c \in Patterns
    <3>1. configs[1] \in Entries
      BY <2>1, ElementOfSeq DEF FramesInv
    <3>2. QED
      BY <3>1, PatternsAssumption
  <2> HIDE DEF c
  <2>3. Inmost' = Call(c)
    BY <2>1 DEF Inmost
  <2>4. Inmost'.config = c
    BY <2>3 DEF Call
  <2>5. QED
    BY <1>1, <1>2, <2>1, <2>2, <2>3, <2>4, SentFirst
<1>5. CASE GeneratePart /\ stack' # stack
  <2>1. PICK c \in Patterns : ~CallRaises(c) /\ Inmost' = Call(c)
    BY <1>5, PartStep
  <2>2. Inmost'.config = c
    BY <2>1 DEF Call
  <2>3. QED
    BY <1>1, <1>2, <2>1, <2>2, SentFirst
<1>6. CASE ReturnParts \/ ReturnRow \/ ReturnPeriodic
  <2>1. /\ stack # <<>> /\ UNCHANGED <<file, planPhase>>
        /\ \/ Return(Inmost.row)
           \/ \E row \in Rows(Inmost.config) : Return(row)
    BY <1>6 DEF ReturnParts, ReturnRow, ReturnPeriodic, Periodical
  <2>2. Inmost.config \in Patterns /\ Inmost.row \in Seq(Number)
    BY <2>1, InmostType DEF Frame
  <2>3. PICK row \in Seq(Number) : Return(row)
    BY <1>1, <2>1, <2>2, RowsType
  <2>4. Composite(Inmost'.config)
    BY <2>1, <2>3, ReturnStep
  <2>5. QED
    BY <2>4 DEF Composite
<1>7. CASE PeriodicPacket
  <2>1. SentSoFar(Inmost)
    BY <1>7 DEF PeriodicInv, PeriodicPacket, Periodical
  <2>2. QED
    BY <1>2, <1>7, <2>1, SentNext
<1>8. QED
  <2>1. \/ UNCHANGED stack \/ NextUE \/ GeneratePart
        \/ ReturnParts \/ ReturnRow \/ ReturnPeriodic \/ PeriodicPacket
    BY DEF Next, vars, planVars, Plan, PlanNext, Load, Generate, Planned, Abandon, Run
  <2>2. QED
    BY <2>1, <1>3, <1>4, <1>5, <1>6, <1>7

(***************************************************************************)
(* When the loop of a periodic pattern ends, no packet is left to be sent. *)
(***************************************************************************)
LEMMA PeriodicAtEnd == PlanInv => PeriodicIsExact
<1> SUFFICES ASSUME PlanInv, stack # <<>>, Inmost.config.type = "Periodic",
                    Inmost.at >= Inmost.config.duration, NEW i \in DOMAIN Inmost.row
             PROVE  Inmost.row[i] =
                        Wrap(Inmost.config.packet_size *
                             PacketsIn(Inmost.config, (i - 1) * Granularity, i * Granularity))
  BY DEF PeriodicIsExact
<1> DEFINE f == Inmost
           c == Inmost.config
<1>1. f \in Frame
  BY InmostType DEF PlanInv
<1>2. c \in Patterns /\ f.at \in Nat /\ f.row \in Seq(Number)
  BY <1>1 DEF Frame
<1>3. SentSoFar(f)
  BY DEF PlanInv, PeriodicInv
<1> HIDE DEF f
<1>4. c.duration \in Nat /\ c.interval \in Nat /\ c.type = "Periodic"
  BY <1>2, PatternsAssumption DEF IsPattern
<1>5. CASE c.interval = 0
  <2>1. Granularity > 0 /\ Granularity \in Nat /\ Len(f.row) = Slots(c.duration) /\ f.at = 0
    BY <1>3, <1>5, SlotsType DEF SentSoFar, PlanInv, FramesInv, f
  <2>2. c.duration = 0
    BY <1>4, <2>1 DEF f
  <2>3. 0 \div Granularity = 0
    <3>1. (Granularity * 0 + 0) \div Granularity = 0
      BY <2>1, DivisionUnique
    <3>2. QED
      BY <2>1, <3>1
  <2>4. Len(f.row) = 0
    BY <2>1, <2>2, <2>3 DEF Slots
  <2>5. DOMAIN f.row = {}
    BY <1>2, <2>4
  <2>6. QED
    BY <2>5 DEF f
<1>6. CASE c.interval > 0
  <2>1. f.row[i] = Wrap(c.packet_size * Cardinality(SentTimes(c, f.at, Granularity, i)))
    BY <1>3, <1>6 DEF SentSoFar, f
  <2>2. ASSUME NEW k \in PacketTimes(c, (i - 1) * Granularity, i * Granularity)
        PROVE  k * c.interval < f.at
    <3>1. k * c.interval < c.duration /\ k * c.interval \in Int
      BY <1>4 DEF PacketTimes
    <3>2. QED
      BY <1>2, <1>4, <3>1 DEF f
  <2>3. SentTimes(c, f.at, Granularity, i) =
           PacketTimes(c, (i - 1) * Granularity, i * Granularity)
    BY <2>2 DEF SentTimes
  <2>4. PacketsIn(c, (i - 1) * Granularity, i * Granularity) =
           Cardinality(PacketTimes(c, (i - 1) * Granularity, i * Granularity))
    BY DEF PacketsIn, PacketTimes
  <2>5. QED
    BY <2>1, <2>3, <2>4 DEF f
<1>7. QED
  BY <1>4, <1>5, <1>6

-----------------------------------------------------------------------------
(* Induction, and sums of rows *)

(***************************************************************************)
(* Induction over the natural numbers, for a set.  The distances from n    *)
(* to numbers outside the set are finitely many; if adding one led from    *)
(* each to another one, there would be as many without the distance 0.     *)
(***************************************************************************)
LEMMA Induction ==
    ASSUME NEW T, 0 \in T, \A n \in Nat : n \in T => n + 1 \in T
    PROVE  \A n \in Nat : n \in T
<1> SUFFICES ASSUME NEW n \in Nat, n \notin T PROVE FALSE
  OBVIOUS
<1> DEFINE D == {d \in 0..n : n - d \notin T}
           f == [d \in D |-> d + 1]
<1>1. IsFiniteSet(D) /\ 0 \in D
  <2>1. IsFiniteSet(0..n) /\ D \in SUBSET (0..n)
    BY FS_Interval
  <2>2. 0 \in 0..n /\ n - 0 = n
    OBVIOUS
  <2>3. QED
    BY <2>1, <2>2, FS_Subset
<1>2. \A d \in D : d # n /\ d \in 0..n
  <2>1. n - n = 0
    OBVIOUS
  <2>2. QED
    BY <2>1
<1>3. ASSUME NEW d \in D PROVE d + 1 \in D \ {0}
  <2>1. d + 1 \in 0..n /\ d + 1 # 0 /\ n - (d + 1) \in Nat /\ (n - (d + 1)) + 1 = n - d
    BY <1>2
  <2>2. n - (d + 1) \notin T
    BY <2>1
  <2>3. QED
    BY <2>1, <2>2
<1>4. f \in [D -> D \ {0}]
  BY <1>3
<1>5. Cardinality(D \ {0}) < Cardinality(D) /\ IsFiniteSet(D \ {0})
  <2> HIDE DEF D
  <2>1. Cardinality(D \ {0}) = Cardinality(D) - 1 /\ IsFiniteSet(D \ {0})
    BY <1>1, FS_RemoveElement
  <2>2. Cardinality(D) \in Nat
    BY <1>1, FS_CardinalityType
  <2>3. QED
    BY <2>1, <2>2
<1>6. \E x, y \in D : x # y /\ f[x] = f[y]
  <2> HIDE DEF D, f
  <2>1. QED
    BY <1>1, <1>4, <1>5, FS_PigeonHole
<1>7. QED
  BY <1>2, <1>6

(***************************************************************************)
(* The recursion of Sums defines a function on every row.                  *)
(***************************************************************************)
LEMMA SumsExist ==
    ASSUME NEW s, NEW l \in Nat, NEW n \in Nat, n <= l, \A i \in 1..l : s[i] \in Int
    PROVE  \E f \in [0..n -> Int] : f[0] = 0 /\ \A k \in 1..n : f[k] = f[k - 1] + s[k]
<1> DEFINE Sum(m) == \E f \in [0..m -> Int] : f[0] = 0 /\ \A k \in 1..m : f[k] = f[k - 1] + s[k]
           T == {m \in Nat : m <= l => Sum(m)}
<1>1. 0 \in T
  <2> DEFINE f == [k \in 0..0 |-> 0]
  <2>1. f \in [0..0 -> Int] /\ f[0] = 0 /\ 1..0 = {}
    OBVIOUS
  <2>2. Sum(0)
    BY <2>1
  <2>3. QED
    BY <2>2
<1>2. ASSUME NEW m \in Nat, m \in T PROVE m + 1 \in T
  <2> SUFFICES ASSUME m + 1 <= l PROVE Sum(m + 1)
    OBVIOUS
  <2>1. Sum(m)
    BY <1>2
  <2>2. PICK f \in [0..m -> Int] : f[0] = 0 /\ \A k \in 1..m : f[k] = f[k - 1] + s[k]
    BY <2>1
  <2> DEFINE g == [k \in 0..(m + 1) |-> IF k = m + 1 THEN f[m] + s[m + 1] ELSE f[k]]
  <2>3. g \in [0..(m + 1) -> Int]
    <3>1. f[m] + s[m + 1] \in Int
      OBVIOUS
    <3>2. \A k \in 0..(m + 1) : k = m + 1 \/ k \in 0..m
      OBVIOUS
    <3>3. QED
      BY <3>1, <3>2
  <2>4. g[0] = 0
    BY <2>2
  <2>5. ASSUME NEW k \in 1..(m + 1) PROVE g[k] = g[k - 1] + s[k]
    <3>1. CASE k = m + 1
      BY <3>1
    <3>2. CASE k # m + 1
      <4>1. k \in 1..m /\ k - 1 # m + 1 /\ k - 1 \in 0..(m + 1) /\ k \in 0..(m + 1)
        BY <3>2
      <4>2. g[k] = f[k] /\ g[k - 1] = f[k - 1]
        BY <3>2, <4>1
      <4>3. QED
        BY <2>2, <4>1, <4>2
    <3>3. QED
      BY <3>1, <3>2
  <2> HIDE DEF g
  <2>6. QED
    BY <2>3, <2>4, <2>5
<1> HIDE DEF Sum
<1>3. \A m \in Nat : m \in T => m + 1 \in T
  BY <1>2
<1> HIDE DEF T
<1>4. n \in T
  BY <1>1, <1>3, Induction
<1>5. QED
  BY <1>4 DEF T, Sum

(***************************************************************************)
(* ... and only one, so that Sums(s) is a function that solves it.         *)
(***************************************************************************)
LEMMA SumsEquation ==
    ASSUME NEW s \in Seq(Int)
    PROVE  /\ Sums(s) \in [0..Len(s) -> Int]
           /\ Sums(s)[0] = 0
           /\ \A k \in 1..Len(s) : Sums(s)[k] = Sums(s)[k - 1] + s[k]
<1> DEFINE l == Len(s)
           F(f) == f = [n \in 0..l |-> IF n = 0 THEN 0 ELSE f[n - 1] + s[n]]
<1>1. l \in Nat /\ l <= l /\ \A i \in 1..l : s[i] \in Int
  OBVIOUS
<1>2. Sums(s) = CHOOSE g : F(g)
  BY DEF Sums
<1> HIDE DEF l
<1>3. PICK f \in [0..l -> Int] : f[0] = 0 /\ \A k \in 1..l : f[k] = f[k - 1] + s[k]
  BY <1>1, SumsExist
<1>4. F(f)
  <2>1. \A n \in 0..l : n # 0 => n \in 1..l
    BY <1>1
  <2>2. \A n \in 0..l : f[n] = IF n = 0 THEN 0 ELSE f[n - 1] + s[n]
    BY <1>3, <2>1
  <2>3. QED
    BY <2>2
<1>5. ASSUME NEW g, F(g) PROVE g = f
  <2> DEFINE T == {n \in Nat : n <= l => g[n] = f[n]}
  <2>1. g = [n \in 0..l |-> IF n = 0 THEN 0 ELSE g[n - 1] + s[n]]
    BY <1>5
  <2>2. \A n \in 0..l : g[n] = IF n = 0 THEN 0 ELSE g[n - 1] + s[n]
    BY <2>1
  <2>3. 0 \in T
    <3>1. 0 \in 0..l
      BY <1>1
    <3>2. QED
      BY <1>3, <2>2, <3>1
  <2>4. ASSUME NEW n \in Nat, n \in T PROVE n + 1 \in T
    <3> SUFFICES ASSUME n + 1 <= l PROVE g[n + 1] = f[n + 1]
      OBVIOUS
    <3>1. n + 1 \in 1..l /\ n + 1 \in 0..l /\ n + 1 # 0 /\ (n + 1) - 1 = n /\ n <= l
      BY <1>1
    <3>2. g[n] = f[n]
      BY <2>4, <3>1
    <3>3. g[n + 1] = g[n] + s[n + 1]
      BY <2>2, <3>1
    <3>4. f[n + 1] = f[n] + s[n + 1]
      BY <1>3, <3>1
    <3>5. QED
      BY <3>2, <3>3, <3>4
  <2> HIDE DEF T
  <2>5. \A n \in Nat : n \in T
    BY <2>3, <2>4, Induction
  <2>6. \A n \in 0..l : g[n] = f[n]
    <3>1. \A n \in 0..l : n \in Nat /\ n <= l
      BY <1>1
    <3>2. QED
      BY <2>5, <3>1 DEF T
  <2>7. f = [n \in 0..l |-> f[n]]
    BY <1>3
  <2>8. g = [n \in 0..l |-> g[n]]
    BY <2>1
  <2>9. QED
    BY <2>6, <2>7, <2>8
<1> HIDE DEF F
<1>6. Sums(s) = f
  BY <1>2, <1>4, <1>5
<1>7. QED
  BY <1>3, <1>6 DEF l

(***************************************************************************)
(* A sum of integers is one, and that of nothing is zero.                  *)
(***************************************************************************)
LEMMA TotalType ==
    ASSUME NEW s \in Seq(Int)
    PROVE  /\ Total(s) \in Int
           /\ Len(s) = 0 => Total(s) = 0
<1>1. Len(s) \in Nat /\ Len(s) \in 0..Len(s)
  OBVIOUS
<1>2. QED
  BY <1>1, SumsEquation DEF Total

(***************************************************************************)
(* A sum lies between the bounds of its terms, as many times as there are  *)
(* terms.                                                                  *)
(***************************************************************************)
LEMMA TotalBounds ==
    ASSUME NEW s \in Seq(Int), NEW low \in Int, NEW high \in Int,
           \A i \in DOMAIN s : low <= s[i] /\ s[i] <= high
    PROVE  Len(s) * low <= Total(s) /\ Total(s) <= Len(s) * high
<1> DEFINE l == Len(s)
           S == Sums(s)
           T == {n \in Nat : n <= l => n * low <= S[n] /\ S[n] <= n * high}
<1>1. /\ l \in Nat /\ S \in [0..l -> Int] /\ S[0] = 0
      /\ \A k \in 1..l : S[k] = S[k - 1] + s[k] /\ s[k] \in Int /\ low <= s[k] /\ s[k] <= high
  BY SumsEquation
<1> HIDE DEF l, S
<1>2. 0 \in T
  BY <1>1
<1>3. ASSUME NEW n \in Nat, n \in T PROVE n + 1 \in T
  <2> SUFFICES ASSUME n + 1 <= l PROVE (n + 1) * low <= S[n + 1] /\ S[n + 1] <= (n + 1) * high
    OBVIOUS
  <2>1. n + 1 \in 1..l /\ (n + 1) - 1 = n /\ n <= l /\ n \in 0..l
    BY <1>1
  <2>2. n * low <= S[n] /\ S[n] <= n * high
    BY <1>3, <2>1
  <2>3. S[n + 1] = S[n] + s[n + 1] /\ s[n + 1] \in Int /\ low <= s[n + 1] /\ s[n + 1] <= high
    BY <1>1, <2>1
  <2>4. (n + 1) * low = n * low + low /\ (n + 1) * high = n * high + high
    OBVIOUS
  <2>5. n * low \in Int /\ n * high \in Int /\ S[n] \in Int
    BY <1>1, <2>1
  <2>6. QED
    BY <2>2, <2>3, <2>4, <2>5
<1> HIDE DEF T
<1>4. l \in T
  BY <1>1, <1>2, <1>3, Induction
<1>5. QED
  BY <1>1, <1>4 DEF T, Total, l, S

(***************************************************************************)
(* The sum of two rows, slot by slot, holds the bytes of both.             *)
(***************************************************************************)
LEMMA TotalOfSum ==
    ASSUME NEW r \in Seq(Int), NEW s \in Seq(Int), NEW t \in Seq(Int),
           Len(s) = Len(r), Len(t) = Len(r), \A i \in DOMAIN r : r[i] = s[i] + t[i]
    PROVE  Total(r) = Total(s) + Total(t)
<1> DEFINE l == Len(r)
           R == Sums(r)
           S == Sums(s)
           U == Sums(t)
           T == {n \in Nat : n <= l => R[n] = S[n] + U[n]}
<1>1. /\ l \in Nat /\ R \in [0..l -> Int] /\ R[0] = 0
      /\ \A k \in 1..l : R[k] = R[k - 1] + r[k]
  <2>1. l \in Nat
    OBVIOUS
  <2>2. QED
    BY <2>1, SumsEquation
<1>2. S \in [0..l -> Int] /\ S[0] = 0 /\ \A k \in 1..l : S[k] = S[k - 1] + s[k]
  BY SumsEquation
<1>3. U \in [0..l -> Int] /\ U[0] = 0 /\ \A k \in 1..l : U[k] = U[k - 1] + t[k]
  BY SumsEquation
<1>4. \A k \in 1..l : r[k] = s[k] + t[k] /\ s[k] \in Int /\ t[k] \in Int
  OBVIOUS
<1> HIDE DEF l, R, S, U
<1>5. 0 \in T
  BY <1>1, <1>2, <1>3
<1>6. ASSUME NEW n \in Nat, n \in T PROVE n + 1 \in T
  <2> SUFFICES ASSUME n + 1 <= l PROVE R[n + 1] = S[n + 1] + U[n + 1]
    OBVIOUS
  <2>1. n + 1 \in 1..l /\ (n + 1) - 1 = n /\ n <= l /\ n \in 0..l
    BY <1>1
  <2>2. R[n] = S[n] + U[n]
    BY <1>6, <2>1
  <2>3. R[n + 1] = R[n] + r[n + 1] /\ S[n + 1] = S[n] + s[n + 1] /\ U[n + 1] = U[n] + t[n + 1]
    BY <1>1, <1>2, <1>3, <2>1
  <2>4. S[n] \in Int /\ U[n] \in Int
    BY <1>2, <1>3, <2>1
  <2>5. QED
    BY <1>4, <2>1, <2>2, <2>3, <2>4
<1> HIDE DEF T
<1>7. l \in T
  BY <1>1, <1>5, <1>6, Induction
<1>8. QED
  BY <1>1, <1>7 DEF T, Total, l, R, S, U

(***************************************************************************)
(* A row that is shifted, or filled up with zeros, keeps its bytes.        *)
(***************************************************************************)
LEMMA TotalOfShifted ==
    ASSUME NEW r \in Seq(Int), NEW s \in Seq(Int), NEW d \in Nat, d + Len(s) <= Len(r),
           \A i \in DOMAIN r : r[i] = IF i - d \in DOMAIN s THEN s[i - d] ELSE 0
    PROVE  Total(r) = Total(s)
<1> DEFINE l == Len(r)
           m == Len(s)
           R == Sums(r)
           S == Sums(s)
           At(n) == IF n <= d THEN 0 ELSE IF n - d <= m THEN S[n - d] ELSE S[m]
           T == {n \in Nat : n <= l => R[n] = At(n)}
<1>1. /\ l \in Nat /\ R \in [0..l -> Int] /\ R[0] = 0
      /\ \A k \in 1..l : R[k] = R[k - 1] + r[k]
  BY SumsEquation
<1>2. m \in Nat /\ S \in [0..m -> Int] /\ S[0] = 0 /\ \A k \in 1..m : S[k] = S[k - 1] + s[k]
  BY SumsEquation
<1>3. \A k \in 1..l : r[k] = IF k - d \in 1..m THEN s[k - d] ELSE 0
  OBVIOUS
<1>4. d + m <= l
  OBVIOUS
<1> HIDE DEF l, m, R, S
<1>5. 0 \in T
  BY <1>1
<1>6. ASSUME NEW n \in Nat, n \in T PROVE n + 1 \in T
  <2> SUFFICES ASSUME n + 1 <= l PROVE R[n + 1] = At(n + 1)
    OBVIOUS
  <2>1. n + 1 \in 1..l /\ (n + 1) - 1 = n /\ n <= l /\ n \in 0..l
    BY <1>1
  <2>2. R[n] = At(n)
    BY <1>6, <2>1
  <2>3. R[n + 1] = At(n) + r[n + 1]
    BY <1>1, <2>1, <2>2
  <2>4. r[n + 1] = IF n + 1 - d \in 1..m THEN s[n + 1 - d] ELSE 0
    BY <1>3, <2>1
  <2>5. CASE n + 1 <= d
    <3>1. n <= d /\ n + 1 - d \notin 1..m
      BY <2>5
    <3>2. QED
      BY <2>3, <2>4, <2>5, <3>1
  <2>6. CASE n + 1 > d /\ n + 1 - d <= m
    <3> DEFINE j == n + 1 - d
    <3>1. j \in 1..m /\ j - 1 = n - d /\ ~(n + 1 <= d)
      BY <1>2, <2>6
    <3>2. S[j] = S[j - 1] + s[j]
      BY <1>2, <3>1
    <3>3. At(n) = S[j - 1]
      <4>1. CASE n <= d
        <5>1. j - 1 = 0
          BY <2>6, <4>1
        <5>2. QED
          BY <1>2, <4>1, <5>1
      <4>2. CASE ~(n <= d)
        <5>1. n - d <= m
          BY <1>2, <2>6
        <5>2. QED
          BY <3>1, <4>2, <5>1
      <4>3. QED
        BY <4>1, <4>2
    <3>4. At(n + 1) = S[j]
      BY <2>6, <3>1
    <3> HIDE DEF At
    <3>5. QED
      BY <2>3, <2>4, <3>1, <3>2, <3>3, <3>4
  <2>7. CASE n + 1 > d /\ ~(n + 1 - d <= m)
    <3>1. n + 1 - d \notin 1..m /\ ~(n + 1 <= d)
      BY <1>2, <2>7
    <3>2. At(n + 1) = S[m]
      BY <2>7, <3>1
    <3>3. At(n) = S[m]
      <4>1. CASE n <= d
        <5>1. m = 0
          BY <1>2, <2>7, <4>1
        <5>2. QED
          BY <1>2, <4>1, <5>1
      <4>2. CASE ~(n <= d) /\ n - d <= m
        <5>1. n - d = m
          BY <1>2, <2>7, <4>2
        <5>2. QED
          BY <4>2, <5>1
      <4>3. CASE ~(n <= d) /\ ~(n - d <= m)
        BY <4>3
      <4>4. QED
        BY <4>1, <4>2, <4>3
    <3>4. S[m] \in Int
      BY <1>2
    <3> HIDE DEF At
    <3>5. QED
      BY <2>3, <2>4, <3>1, <3>2, <3>3, <3>4
  <2>8. QED
    BY <1>2, <2>5, <2>6, <2>7
<1> HIDE DEF T
<1>7. l \in T
  BY <1>1, <1>5, <1>6, Induction
<1>8. R[l] = At(l)
  BY <1>1, <1>7 DEF T
<1>9. At(l) = S[m]
  <2>1. CASE l <= d
    <3>1. m = 0
      BY <1>1, <1>2, <1>4, <2>1
    <3>2. QED
      BY <1>2, <2>1, <3>1
  <2>2. CASE ~(l <= d) /\ l - d <= m
    <3>1. l - d = m
      BY <1>1, <1>2, <1>4, <2>2
    <3>2. QED
      BY <2>2, <3>1
  <2>3. CASE ~(l <= d) /\ ~(l - d <= m)
    BY <2>3
  <2>4. QED
    BY <2>1, <2>2, <2>3
<1>10. QED
  BY <1>8, <1>9 DEF Total, l, m, R, S

(***************************************************************************)
(* The last term of a sum, and what comes before it.                       *)
(***************************************************************************)
LEMMA TotalOfLast ==
    ASSUME NEW s \in Seq(Int), NEW t \in Seq(Int), Len(s) = Len(t) + 1,
           \A i \in DOMAIN t : s[i] = t[i]
    PROVE  Total(s) = Total(t) + s[Len(t) + 1]
<1> DEFINE l == Len(t)
           S == Sums(s)
           U == Sums(t)
           T == {n \in Nat : n <= l => S[n] = U[n]}
<1>1. l \in Nat /\ Len(s) = l + 1
  OBVIOUS
<1>2. S[0] = 0 /\ \A k \in 1..(l + 1) : S[k] = S[k - 1] + s[k]
  BY SumsEquation
<1>3. U[0] = 0 /\ \A k \in 1..l : U[k] = U[k - 1] + t[k] /\ t[k] = s[k]
  BY SumsEquation
<1> HIDE DEF l, S, U
<1>4. 0 \in T
  BY <1>2, <1>3
<1>5. ASSUME NEW n \in Nat, n \in T PROVE n + 1 \in T
  <2> SUFFICES ASSUME n + 1 <= l PROVE S[n + 1] = U[n + 1]
    OBVIOUS
  <2>1. n + 1 \in 1..l /\ n + 1 \in 1..(l + 1) /\ (n + 1) - 1 = n /\ n <= l
    BY <1>1
  <2>2. S[n] = U[n]
    BY <1>5, <2>1
  <2>3. QED
    BY <1>2, <1>3, <2>1, <2>2
<1> HIDE DEF T
<1>6. l \in T
  BY <1>1, <1>4, <1>5, Induction
<1>7. S[l] = U[l]
  BY <1>1, <1>6 DEF T
<1>8. S[l + 1] = S[l] + s[l + 1]
  <2>1. l + 1 \in 1..(l + 1) /\ (l + 1) - 1 = l
    BY <1>1
  <2>2. QED
    BY <1>2, <2>1
<1>9. QED
  BY <1>1, <1>7, <1>8 DEF Total, l, S, U

(***************************************************************************)
(* What is appended adds its bytes, and nothing is lost.                   *)
(***************************************************************************)
LEMMA TotalOfBoth ==
    ASSUME NEW r \in Seq(Int), NEW s \in Seq(Int)
    PROVE  Total(r \o s) = Total(r) + Total(s)
<1> DEFINE m == Len(r)
           n == Len(s)
           q == r \o s
           a == [i \in 1..(m + n) |-> IF i - 0 \in DOMAIN r THEN r[i - 0] ELSE 0]
           b == [i \in 1..(m + n) |-> IF i - m \in DOMAIN s THEN s[i - m] ELSE 0]
<1>1. /\ m \in Nat /\ n \in Nat /\ m + n \in Nat
      /\ DOMAIN r = 1..m /\ DOMAIN s = 1..n
      /\ \A i \in 1..m : r[i] \in Int
      /\ \A i \in 1..n : s[i] \in Int
  OBVIOUS
<1>2. /\ q \in Seq(Int) /\ Len(q) = m + n /\ DOMAIN q = 1..(m + n)
      /\ \A i \in 1..(m + n) : q[i] = IF i <= m THEN r[i] ELSE s[i - m]
  <2>1. q \in Seq(Int) /\ Len(q) = m + n
    BY ConcatProperties
  <2>2. \A i \in 1..(m + n) : q[i] = IF i <= m THEN r[i] ELSE s[i - m]
    BY ConcatProperties
  <2>3. QED
    BY <2>1, <2>2
<1>3. a \in [1..(m + n) -> Int] /\ b \in [1..(m + n) -> Int]
  BY <1>1
<1>4. ASSUME NEW i \in 1..(m + n)
      PROVE  /\ a[i] = IF i - 0 \in DOMAIN r THEN r[i - 0] ELSE 0
             /\ b[i] = IF i - m \in DOMAIN s THEN s[i - m] ELSE 0
             /\ q[i] = a[i] + b[i]
  <2>1. /\ a[i] = IF i - 0 \in DOMAIN r THEN r[i - 0] ELSE 0
        /\ b[i] = IF i - m \in DOMAIN s THEN s[i - m] ELSE 0
    OBVIOUS
  <2> HIDE DEF m, n, q, a, b
  <2>2. i - 0 = i /\ i \in Int
    BY <1>1
  <2>3. CASE i <= m
    <3>1. i \in 1..m /\ i - m \notin 1..n
      BY <1>1, <2>3
    <3>2. a[i] = r[i] /\ b[i] = 0 /\ q[i] = r[i] /\ r[i] \in Int
      BY <1>1, <1>2, <2>1, <2>2, <2>3, <3>1
    <3>3. QED
      BY <2>1, <3>2
  <2>4. CASE ~(i <= m)
    <3>1. i \notin 1..m /\ i - m \in 1..n
      BY <1>1, <2>4
    <3>2. a[i] = 0 /\ b[i] = s[i - m] /\ q[i] = s[i - m] /\ s[i - m] \in Int
      BY <1>1, <1>2, <2>1, <2>2, <2>4, <3>1
    <3>3. QED
      BY <2>1, <3>2
  <2>5. QED
    BY <2>3, <2>4
<1> HIDE DEF m, n, q, a, b
<1>5. /\ a \in Seq(Int) /\ Len(a) = m + n /\ DOMAIN a = 1..(m + n)
      /\ b \in Seq(Int) /\ Len(b) = m + n /\ DOMAIN b = 1..(m + n)
  <2> SUFFICES ASSUME NEW l \in Nat, l = m + n PROVE
        /\ a \in Seq(Int) /\ Len(a) = l /\ DOMAIN a = 1..l
        /\ b \in Seq(Int) /\ Len(b) = l /\ DOMAIN b = 1..l
    BY <1>1
  <2>1. a \in [1..l -> Int] /\ b \in [1..l -> Int]
    BY <1>3
  <2>2. QED
    BY <2>1, FunctionIsSeq
<1>6. Total(q) = Total(a) + Total(b)
  <2>1. \A i \in DOMAIN q : q[i] = a[i] + b[i]
    BY <1>2, <1>4
  <2>2. Len(a) = Len(q) /\ Len(b) = Len(q)
    BY <1>2, <1>5
  <2>3. q \in Seq(Int) /\ a \in Seq(Int) /\ b \in Seq(Int)
    BY <1>2, <1>5
  <2>4. QED
    BY <2>1, <2>2, <2>3, TotalOfSum
<1>7. Total(a) = Total(r)
  <2>1. /\ 0 + Len(r) <= Len(a)
        /\ \A i \in DOMAIN a : a[i] = IF i - 0 \in DOMAIN r THEN r[i - 0] ELSE 0
    BY <1>1, <1>4, <1>5 DEF m
  <2>2. QED
    BY <1>5, <2>1, TotalOfShifted
<1>8. Total(b) = Total(s)
  <2>1. m + Len(s) <= Len(b)
    BY <1>1, <1>5 DEF n
  <2>2. QED
    BY <1>1, <1>4, <1>5, <2>1, TotalOfShifted
<1>9. QED
  BY <1>6, <1>7, <1>8 DEF q

(***************************************************************************)
(* A row of negated bytes, and one that holds a byte in some slots.        *)
(***************************************************************************)
LEMMA TotalOfNegated ==
    ASSUME NEW s \in Seq(Int), NEW t \in Seq(Int), Len(t) = Len(s),
           \A i \in DOMAIN s : t[i] = -s[i]
    PROVE  Total(t) = -Total(s)
<1> DEFINE n == Len(s)
           z == Zeros(n)
<1>1. /\ n \in Nat /\ DOMAIN s = 1..n
      /\ \A i \in 1..n : s[i] \in Int /\ t[i] \in Int /\ t[i] = -s[i]
  OBVIOUS
<1>2. z \in [1..n -> Int] /\ \A i \in 1..n : z[i] = 0
  BY DEF Zeros
<1> HIDE DEF n, z
<1>3. z \in Seq(Int) /\ Len(z) = n /\ DOMAIN z = 1..n
  BY <1>1, <1>2, FunctionIsSeq
<1>4. n * 0 <= Total(z) /\ Total(z) <= n * 0
  <2>1. \A i \in DOMAIN z : 0 <= z[i] /\ z[i] <= 0
    BY <1>2, <1>3
  <2>2. z \in Seq(Int) /\ 0 \in Int
    BY <1>3
  <2>3. Len(z) * 0 <= Total(z) /\ Total(z) <= Len(z) * 0
    BY <2>1, <2>2, TotalBounds
  <2>4. QED
    BY <1>3, <2>3
<1>5. Total(z) = Total(s) + Total(t)
  <2>1. \A i \in DOMAIN z : z[i] = s[i] + t[i]
    BY <1>1, <1>2, <1>3
  <2>2. Len(s) = Len(z) /\ Len(t) = Len(z) /\ z \in Seq(Int)
    BY <1>3 DEF n
  <2>3. QED
    BY <2>1, <2>2, TotalOfSum
<1>6. Total(s) \in Int /\ Total(t) \in Int /\ Total(z) \in Int
  BY <1>3, TotalType
<1>7. QED
  BY <1>1, <1>4, <1>5, <1>6

(***************************************************************************)
(* A row of ones and zeros counts its ones.                                *)
(***************************************************************************)
LEMMA TotalOfOnes ==
    ASSUME NEW r \in Seq(Int), NEW P \in SUBSET (1..Len(r)),
           \A i \in DOMAIN r : r[i] = IF i \in P THEN 1 ELSE 0
    PROVE  Total(r) = Cardinality(P)
<1> DEFINE l == Len(r)
           R == Sums(r)
           Q(n) == P \cap (1..n)
           T == {n \in Nat : n <= l => R[n] = Cardinality(Q(n))}
<1>1. /\ l \in Nat /\ R[0] = 0
      /\ \A k \in 1..l : R[k] = R[k - 1] + r[k] /\ r[k] = IF k \in P THEN 1 ELSE 0
  BY SumsEquation
<1>2. P \in SUBSET (1..l)
  OBVIOUS
<1> HIDE DEF l, R
<1>3. ASSUME NEW n \in Nat PROVE IsFiniteSet(Q(n)) /\ Cardinality(Q(n)) \in Nat
  <2>1. IsFiniteSet(1..n) /\ Q(n) \in SUBSET (1..n)
    BY FS_Interval
  <2>2. IsFiniteSet(Q(n))
    BY <2>1, FS_Subset
  <2>3. QED
    BY <2>2, FS_CardinalityType
<1>4. 0 \in T
  <2>1. Q(0) = {}
    OBVIOUS
  <2>2. QED
    BY <1>1, <2>1, FS_EmptySet
<1>5. ASSUME NEW n \in Nat, n \in T PROVE n + 1 \in T
  <2> SUFFICES ASSUME n + 1 <= l PROVE R[n + 1] = Cardinality(Q(n + 1))
    OBVIOUS
  <2>1. n + 1 \in 1..l /\ (n + 1) - 1 = n /\ n <= l
    BY <1>1
  <2>2. R[n] = Cardinality(Q(n)) /\ IsFiniteSet(Q(n)) /\ Cardinality(Q(n)) \in Nat
    BY <1>3, <1>5, <2>1
  <2>3. R[n + 1] = R[n] + (IF n + 1 \in P THEN 1 ELSE 0)
    BY <1>1, <2>1
  <2>4. CASE n + 1 \in P
    <3>1. Q(n + 1) = Q(n) \cup {n + 1} /\ n + 1 \notin Q(n)
      BY <2>4
    <3>2. Cardinality(Q(n + 1)) = Cardinality(Q(n)) + 1
      BY <2>2, <3>1, FS_AddElement
    <3>3. QED
      BY <2>2, <2>3, <2>4, <3>2
  <2>5. CASE n + 1 \notin P
    <3>1. Q(n + 1) = Q(n)
      BY <2>5
    <3>2. R[n + 1] = Cardinality(Q(n)) + 0
      BY <2>2, <2>3, <2>5
    <3> HIDE DEF Q
    <3>3. QED
      BY <2>2, <3>1, <3>2
  <2>6. QED
    BY <2>4, <2>5
<1> HIDE DEF T
<1>6. l \in T
  BY <1>1, <1>4, <1>5, Induction
<1>7. R[l] = Cardinality(Q(l))
  BY <1>1, <1>6 DEF T
<1>8. Q(l) = P
  BY <1>2
<1>9. QED
  BY <1>7, <1>8 DEF Total, l, R

(***************************************************************************)
(* A factor of all the terms of a sum is one of the sum.                   *)
(***************************************************************************)
LEMMA TotalOfScaled ==
    ASSUME NEW s \in Seq(Int), NEW k \in Int, NEW t \in Seq(Int), Len(t) = Len(s),
           \A i \in DOMAIN s : t[i] = s[i] * k
    PROVE  Total(t) = Total(s) * k
<1> DEFINE l == Len(s)
           S == Sums(s)
           R == Sums(t)
           T == {n \in Nat : n <= l => R[n] = S[n] * k}
<1>1. /\ l \in Nat /\ S \in [0..l -> Int] /\ S[0] = 0
      /\ \A i \in 1..l : S[i] = S[i - 1] + s[i] /\ s[i] \in Int
  BY SumsEquation
<1>2. R[0] = 0 /\ \A i \in 1..l : R[i] = R[i - 1] + t[i] /\ t[i] = s[i] * k
  <2>1. R[0] = 0 /\ \A i \in 1..Len(t) : R[i] = R[i - 1] + t[i]
    BY SumsEquation
  <2>2. DOMAIN s = 1..l
    OBVIOUS
  <2>3. QED
    BY <2>1, <2>2
<1> HIDE DEF l, S, R
<1>3. 0 \in T
  BY <1>1, <1>2
<1>4. ASSUME NEW n \in Nat, n \in T PROVE n + 1 \in T
  <2> SUFFICES ASSUME n + 1 <= l PROVE R[n + 1] = S[n + 1] * k
    OBVIOUS
  <2>1. n + 1 \in 1..l /\ (n + 1) - 1 = n /\ n <= l /\ n \in 0..l
    BY <1>1
  <2>2. R[n] = S[n] * k
    BY <1>4, <2>1
  <2>3. S[n + 1] = S[n] + s[n + 1] /\ R[n + 1] = R[n] + s[n + 1] * k
    BY <1>1, <1>2, <2>1
  <2>4. S[n] \in Int /\ s[n + 1] \in Int
    BY <1>1, <2>1
  <2>5. \A a, b \in Int : (a + b) * k = a * k + b * k
    OBVIOUS
  <2>6. (S[n] + s[n + 1]) * k = S[n] * k + s[n + 1] * k
    BY <2>4, <2>5
  <2>7. QED
    BY <2>2, <2>3, <2>6
<1> HIDE DEF T
<1>5. l \in T
  BY <1>1, <1>3, <1>4, Induction
<1>6. R[l] = S[l] * k
  BY <1>1, <1>5 DEF T
<1>7. QED
  BY <1>6 DEF Total, l, S, R

-----------------------------------------------------------------------------
(* The most of some numbers *)

(***************************************************************************)
(* A member that no member exceeds is the largest.                         *)
(***************************************************************************)
LEMMA MaxIs ==
    ASSUME NEW S, NEW m \in S, S \subseteq Int, \A y \in S : m >= y
    PROVE  Max(S) = m
<1>1. \A x \in S : (\A y \in S : x >= y) => x = m
  OBVIOUS
<1>2. QED
  BY <1>1 DEF Max

(***************************************************************************)
(* Of no numbers, the most is zero.                                        *)
(***************************************************************************)
LEMMA MostOfNone == Max({0}) = 0
<1>1. 0 \in {0} /\ {0} \subseteq Int /\ \A y \in {0} : 0 >= y
  OBVIOUS
<1>2. QED
  BY <1>1, MaxIs

(***************************************************************************)
(* Finitely many numbers have a largest one.                               *)
(***************************************************************************)
LEMMA MostType ==
    ASSUME NEW s \in Seq(Nat)
    PROVE  /\ Most(s) \in Nat
           /\ Most(s) \in {0} \cup {s[i] : i \in DOMAIN s}
           /\ \A i \in DOMAIN s : s[i] <= Most(s)
<1> DEFINE l == Len(s)
           V(n) == {0} \cup {s[i] : i \in 1..n}
           T == {n \in Nat : n <= l => \E m \in V(n) : \A y \in V(n) : m >= y}
<1>1. l \in Nat /\ DOMAIN s = 1..l /\ \A i \in 1..l : s[i] \in Nat
  OBVIOUS
<1> HIDE DEF l
<1>2. 0 \in T
  <2>1. V(0) = {0}
    OBVIOUS
  <2>2. 0 >= 0
    OBVIOUS
  <2>3. QED
    BY <2>1, <2>2
<1>3. ASSUME NEW n \in Nat, n \in T PROVE n + 1 \in T
  <2> SUFFICES ASSUME n + 1 <= l PROVE \E m \in V(n + 1) : \A y \in V(n + 1) : m >= y
    OBVIOUS
  <2>1. n <= l /\ n + 1 \in 1..l /\ \A i \in 1..n : i \in 1..l
    BY <1>1
  <2>2. PICK m \in V(n) : \A y \in V(n) : m >= y
    BY <1>3, <2>1
  <2>3. s[n + 1] \in Nat /\ V(n) \subseteq Nat
    BY <1>1, <2>1
  <2>4. V(n + 1) = V(n) \cup {s[n + 1]}
    <3>1. \A i \in 1..(n + 1) : i \in 1..n \/ i = n + 1
      OBVIOUS
    <3>2. n + 1 \in 1..(n + 1) /\ \A i \in 1..n : i \in 1..(n + 1)
      OBVIOUS
    <3>3. QED
      BY <3>1, <3>2
  <2> HIDE DEF V
  <2>5. CASE m >= s[n + 1]
    BY <2>2, <2>4, <2>5
  <2>6. CASE ~(m >= s[n + 1])
    <3>1. \A y \in V(n + 1) : s[n + 1] >= y
      BY <2>2, <2>3, <2>4, <2>6
    <3>2. QED
      BY <2>4, <3>1
  <2>7. QED
    BY <2>5, <2>6
<1> HIDE DEF T
<1>4. l \in T
  BY <1>1, <1>2, <1>3, Induction
<1>5. PICK m \in V(l) : \A y \in V(l) : m >= y
  BY <1>1, <1>4 DEF T
<1>6. V(l) \subseteq Nat
  BY <1>1
<1>7. Most(s) = Max(V(l))
  BY <1>1 DEF Most, ToSet
<1> HIDE DEF V
<1>8. Max(V(l)) = m
  BY <1>5, <1>6, MaxIs
<1>9. QED
  BY <1>1, <1>5, <1>6, <1>7, <1>8 DEF V

(***************************************************************************)
(* One number more is the most, or changes nothing.                        *)
(***************************************************************************)
LEMMA MostOfLast ==
    ASSUME NEW s \in Seq(Nat), NEW t \in Seq(Nat), Len(s) = Len(t) + 1,
           \A i \in DOMAIN t : s[i] = t[i]
    PROVE  Most(s) = IF Most(t) >= s[Len(t) + 1] THEN Most(t) ELSE s[Len(t) + 1]
<1> DEFINE n == Len(t)
           last == s[n + 1]
           A == {0} \cup {t[i] : i \in DOMAIN t}
           B == {0} \cup {s[i] : i \in DOMAIN s}
           m == Most(t)
<1>1. /\ n \in Nat /\ DOMAIN t = 1..n /\ DOMAIN s = 1..(n + 1)
      /\ \A i \in 1..n : t[i] = s[i] /\ s[i] \in Nat
      /\ last \in Nat
  <2>1. n \in Nat /\ DOMAIN t = 1..n /\ DOMAIN s = 1..(n + 1)
    OBVIOUS
  <2>2. \A i \in DOMAIN s : s[i] \in Nat
    OBVIOUS
  <2>3. n + 1 \in 1..(n + 1) /\ \A i \in 1..n : i \in 1..(n + 1)
    BY <2>1
  <2>4. QED
    BY <2>1, <2>2, <2>3
<1>2. m \in A /\ m \in Nat /\ \A y \in A : m >= y
  <2>1. m \in A /\ m \in Nat /\ \A i \in DOMAIN t : t[i] <= m
    BY MostType
  <2>2. \A i \in DOMAIN t : t[i] \in Nat
    OBVIOUS
  <2> HIDE DEF m
  <2>3. QED
    BY <2>1, <2>2
<1>3. B = A \cup {last}
  <2>1. \A i \in 1..(n + 1) : i \in 1..n \/ i = n + 1
    BY <1>1
  <2>2. n + 1 \in 1..(n + 1) /\ \A i \in 1..n : i \in 1..(n + 1)
    BY <1>1
  <2> HIDE DEF n
  <2>3. QED
    BY <1>1, <2>1, <2>2
<1>4. A \subseteq Nat
  BY <1>1
<1>5. Most(s) = Max(B)
  BY DEF Most, ToSet
<1> HIDE DEF n, last, A, B, m
<1>6. CASE m >= last
  <2>1. m \in B /\ B \subseteq Int /\ \A y \in B : m >= y
    BY <1>1, <1>2, <1>3, <1>4, <1>6
  <2>2. QED
    BY <1>5, <1>6, <2>1, MaxIs DEF m, last, n
<1>7. CASE ~(m >= last)
  <2>1. last \in B /\ B \subseteq Int /\ \A y \in B : last >= y
    BY <1>1, <1>2, <1>3, <1>4, <1>7
  <2>2. QED
    BY <1>5, <1>7, <2>1, MaxIs DEF m, last, n
<1>8. QED
  BY <1>6, <1>7

-----------------------------------------------------------------------------
(* What a configuration stands for *)

(***************************************************************************)
(* The recursion of Expected ends, for the parts of a configuration are    *)
(* less deep: Expected(g) solves its equation.  Solutions for less deep    *)
(* configurations exist, by induction, and agree where both are defined.   *)
(***************************************************************************)
LEMMA ExpectedEquation ==
    ASSUME NEW g
    PROVE  \A c \in Patterns :
              Expected(g)[c] =
                  IF Composite(c)
                  THEN Joined(g, c, [i \in DOMAIN Parts(c) |-> Expected(g)[Parts(c)[i]]])
                  ELSE Single(g, c)
<1> DEFINE B(f, c) == IF Composite(c)
                      THEN Joined(g, c, [i \in DOMAIN Parts(c) |-> f[Parts(c)[i]]])
                      ELSE Single(g, c)
           D(n) == {c \in Patterns : Depth(c) < n}
           Solves(f, n) == f = [c \in D(n) |-> B(f, c)]
<1>1. ASSUME NEW c \in Patterns, Composite(c), NEW i \in DOMAIN Parts(c)
      PROVE  /\ Parts(c)[i] \in Patterns
             /\ Depth(Parts(c)[i]) \in Nat
             /\ Depth(Parts(c)[i]) < Depth(c)
  <2>1. Parts(c)[i] \in Patterns
    BY <1>1, PartsType, ElementOfSeq
  <2>2. QED
    BY <1>1, <2>1, PatternsAssumption
<1>2. ASSUME NEW f, NEW h, NEW c,
             Composite(c) => \A i \in DOMAIN Parts(c) : f[Parts(c)[i]] = h[Parts(c)[i]]
      PROVE  B(f, c) = B(h, c)
  <2>1. CASE Composite(c)
    <3>1. [i \in DOMAIN Parts(c) |-> f[Parts(c)[i]]] = [i \in DOMAIN Parts(c) |-> h[Parts(c)[i]]]
      BY <1>2, <2>1
    <3>2. QED
      BY <2>1, <3>1
  <2>2. CASE ~Composite(c)
    BY <2>2
  <2>3. QED
    BY <2>1, <2>2
<1> HIDE DEF B
<1>3. ASSUME NEW f, NEW n, Solves(f, n), NEW c \in D(n)
      PROVE  f[c] = B(f, c)
  <2>1. f = [d \in D(n) |-> B(f, d)]
    BY <1>3
  <2> HIDE DEF D
  <2> SUFFICES ASSUME NEW h, h = f PROVE f[c] = B(h, c)
    OBVIOUS
  <2>2. f = [d \in D(n) |-> B(h, d)]
    BY <2>1
  <2>3. QED
    BY <2>2
<1>4. ASSUME NEW n \in Nat, NEW m \in Nat, NEW f, NEW h, Solves(f, n), Solves(h, m),
             NEW c \in D(n), c \in D(m)
      PROVE  f[c] = h[c]
  <2> DEFINE T == {k \in Nat : \A d \in Patterns :
                      Depth(d) < k /\ d \in D(n) /\ d \in D(m) => f[d] = h[d]}
  <2>1. 0 \in T
    <3>1. \A d \in Patterns : ~(Depth(d) < 0)
      BY PatternsAssumption
    <3>2. QED
      BY <3>1
  <2>2. ASSUME NEW k \in Nat, k \in T PROVE k + 1 \in T
    <3> SUFFICES ASSUME NEW d \in Patterns, Depth(d) < k + 1, d \in D(n), d \in D(m)
                 PROVE  f[d] = h[d]
      OBVIOUS
    <3>1. f[d] = B(f, d) /\ h[d] = B(h, d)
      BY <1>3, <1>4
    <3>2. ASSUME Composite(d), NEW i \in DOMAIN Parts(d)
          PROVE  f[Parts(d)[i]] = h[Parts(d)[i]]
      <4>1. /\ Parts(d)[i] \in Patterns /\ Depth(Parts(d)[i]) \in Nat
            /\ Depth(Parts(d)[i]) < Depth(d)
        BY <1>1, <3>2
      <4>2. Depth(d) \in Nat /\ Depth(d) < n /\ Depth(d) < m
        BY PatternsAssumption
      <4>3. Depth(Parts(d)[i]) < k /\ Depth(Parts(d)[i]) < n /\ Depth(Parts(d)[i]) < m
        BY <4>1, <4>2
      <4>4. QED
        BY <2>2, <4>1, <4>3
    <3>3. B(f, d) = B(h, d)
      BY <1>2, <3>2
    <3>4. QED
      BY <3>1, <3>3
  <2>3. \A k \in Nat : k \in T
    <3> HIDE DEF T
    <3>1. QED
      BY <2>1, <2>2, Induction
  <2>4. c \in Patterns /\ Depth(c) < n
    BY <1>4
  <2>5. QED
    BY <1>4, <2>3, <2>4
<1>5. ASSUME NEW n \in Nat PROVE \E f : Solves(f, n)
  <2> DEFINE T == {k \in Nat : \E f : Solves(f, k)}
  <2>1. 0 \in T
    <3>1. D(0) = {}
      BY PatternsAssumption
    <3> DEFINE f == [c \in {} |-> c]
    <3>2. f = [c \in {} |-> B(f, c)]
      OBVIOUS
    <3>3. Solves(f, 0)
      BY <3>1, <3>2
    <3> HIDE DEF Solves, f
    <3>4. QED
      BY <3>3
  <2>2. ASSUME NEW k \in Nat, k \in T PROVE k + 1 \in T
    <3>1. PICK f : Solves(f, k)
      BY <2>2
    <3> DEFINE h == [c \in D(k + 1) |-> B(f, c)]
    <3>2. ASSUME NEW c \in D(k + 1) PROVE B(f, c) = B(h, c)
      <4>1. c \in Patterns /\ Depth(c) < k + 1 /\ Depth(c) \in Nat
        BY PatternsAssumption
      <4>2. ASSUME Composite(c), NEW i \in DOMAIN Parts(c)
            PROVE  f[Parts(c)[i]] = h[Parts(c)[i]]
        <5> DEFINE p == Parts(c)[i]
        <5>1. p \in Patterns /\ Depth(p) \in Nat /\ Depth(p) < Depth(c)
          BY <1>1, <4>1, <4>2
        <5> HIDE DEF p
        <5>2. p \in D(k) /\ p \in D(k + 1)
          <6>1. Depth(p) < k /\ Depth(p) < k + 1
            BY <4>1, <5>1
          <6>2. QED
            BY <5>1, <6>1
        <5>3. f[p] = B(f, p)
          BY <1>3, <3>1, <5>2
        <5>4. h[p] = B(f, p)
          BY <5>2
        <5>5. QED
          BY <5>3, <5>4 DEF p
      <4>3. QED
        <5> HIDE DEF h
        <5>1. QED
          BY <1>2, <4>2
    <3>3. h = [c \in D(k + 1) |-> B(h, c)]
      <4> SUFFICES ASSUME NEW q, q = h PROVE h = [c \in D(k + 1) |-> B(q, c)]
        OBVIOUS
      <4>1. \A c \in D(k + 1) : B(f, c) = B(q, c)
        BY <3>2
      <4> HIDE DEF D
      <4>2. QED
        BY <4>1
    <3>4. Solves(h, k + 1)
      BY <3>3
    <3> HIDE DEF Solves, h
    <3>5. QED
      BY <3>4
  <2> HIDE DEF Solves
  <2>3. \A k \in Nat : k \in T
    <3> HIDE DEF T
    <3>1. QED
      BY <2>1, <2>2, Induction
  <2>4. QED
    BY <2>3
<1> DEFINE Part(c) == CHOOSE f : Solves(f, Depth(c) + 1)
           F == [c \in Patterns |-> Part(c)[c]]
<1>6. ASSUME NEW c \in Patterns PROVE Solves(Part(c), Depth(c) + 1)
  <2>1. Depth(c) + 1 \in Nat
    BY PatternsAssumption
  <2>2. \E f : Solves(f, Depth(c) + 1)
    BY <1>5, <2>1
  <2> HIDE DEF Solves
  <2>3. QED
    BY <2>2
<1> HIDE DEF Part
<1>7. ASSUME NEW c \in Patterns PROVE F[c] = B(F, c)
  <2> DEFINE f == Part(c)
  <2>1. Depth(c) \in Nat /\ c \in D(Depth(c) + 1)
    BY PatternsAssumption
  <2>2. Solves(f, Depth(c) + 1)
    BY <1>6
  <2>3. ASSUME Composite(c), NEW i \in DOMAIN Parts(c)
        PROVE  F[Parts(c)[i]] = f[Parts(c)[i]]
    <3> DEFINE p == Parts(c)[i]
    <3>1. p \in Patterns /\ Depth(p) \in Nat /\ Depth(p) < Depth(c)
      BY <1>1, <2>3
    <3> HIDE DEF p
    <3>2. p \in D(Depth(p) + 1) /\ p \in D(Depth(c) + 1)
      BY <2>1, <3>1
    <3>3. Solves(Part(p), Depth(p) + 1)
      BY <1>6, <3>1
    <3> HIDE DEF Solves, D, f
    <3>4. Depth(p) + 1 \in Nat /\ Depth(c) + 1 \in Nat
      BY <2>1, <3>1
    <3>5. Part(p)[p] = f[p]
      BY <1>4, <2>2, <3>2, <3>3, <3>4
    <3>6. F[p] = Part(p)[p]
      BY <3>1
    <3>7. QED
      BY <3>5, <3>6 DEF p
  <2>4. f[c] = B(f, c)
    BY <1>3, <2>1, <2>2
  <2>5. F[c] = f[c]
    OBVIOUS
  <2> HIDE DEF F, f
  <2>6. B(F, c) = B(f, c)
    BY <1>2, <2>3
  <2>7. QED
    BY <2>4, <2>5, <2>6
<1> DEFINE E(f) == f = [c \in Patterns |-> B(f, c)]
<1>8. E(F)
  <2>1. F = [c \in Patterns |-> F[c]]
    OBVIOUS
  <2> HIDE DEF F
  <2> SUFFICES ASSUME NEW q, q = F PROVE F = [c \in Patterns |-> B(q, c)]
    OBVIOUS
  <2>2. \A c \in Patterns : F[c] = B(q, c)
    BY <1>7
  <2>3. QED
    BY <2>1, <2>2
<1>9. Expected(g) = CHOOSE f : E(f)
  BY DEF Expected, B
<1>10. E(Expected(g))
  <2> HIDE DEF E, F
  <2>1. QED
    BY <1>8, <1>9
<1>11. ASSUME NEW q, q = Expected(g), NEW c \in Patterns PROVE q[c] = B(q, c)
  <2>1. q = [d \in Patterns |-> B(q, d)]
    BY <1>10, <1>11
  <2> SUFFICES ASSUME NEW r, r = q PROVE q[c] = B(r, c)
    OBVIOUS
  <2>2. q = [d \in Patterns |-> B(r, d)]
    BY <2>1
  <2>3. QED
    BY <2>2
<1>12. \A c \in Patterns : Expected(g)[c] = B(Expected(g), c)
  BY <1>11
<1>13. QED
  BY <1>12 DEF B

(***************************************************************************)
(* What a configuration stands for: the length of its rows, the bytes they *)
(* hold, and what no slot exceeds.                                         *)
(***************************************************************************)
Figures == [length : Nat, low : Int, high : Int, most : Nat]

(***************************************************************************)
(* The smaller one of two numbers, of their absolute values the bounds,    *)
(* and the figures made of numbers.                                        *)
(***************************************************************************)
LEMMA MinOfTwo ==
    ASSUME NEW a \in Int, NEW b \in Int
    PROVE  Min({a, b}) = IF a <= b THEN a ELSE b
<1> DEFINE m == IF a <= b THEN a ELSE b
<1>1. m \in {a, b} /\ \A y \in {a, b} : m <= y
  OBVIOUS
<1>2. \A x \in {a, b} : (\A y \in {a, b} : x <= y) => x = m
  OBVIOUS
<1>3. QED
  BY <1>1, <1>2 DEF Min

LEMMA AbsType ==
    ASSUME NEW x \in Int
    PROVE  Abs(x) \in Nat /\ -Abs(x) <= x /\ x <= Abs(x)
BY DEF Abs

LEMMA FiguresOf ==
    ASSUME NEW l \in Nat, NEW a \in Int, NEW b \in Int, NEW m \in Nat
    PROVE  Expectation(l, a, b, m) \in Figures
BY DEF Expectation, Figures

(***************************************************************************)
(* A sum of natural numbers is one.                                        *)
(***************************************************************************)
LEMMA NatSeqIsInt == ASSUME NEW s \in Seq(Nat) PROVE s \in Seq(Int)
OBVIOUS

LEMMA TotalNat ==
    ASSUME NEW s \in Seq(Nat)
    PROVE  Total(s) \in Nat
<1>1. s \in Seq(Int) /\ Len(s) \in Nat
  OBVIOUS
<1>2. Most(s) \in Int /\ 0 \in Int /\ \A i \in DOMAIN s : 0 <= s[i] /\ s[i] <= Most(s)
  <2>1. Most(s) \in Nat /\ \A i \in DOMAIN s : s[i] <= Most(s)
    BY MostType
  <2>2. \A i \in DOMAIN s : s[i] \in Nat
    OBVIOUS
  <2>3. QED
    BY <2>1, <2>2
<1>3. Len(s) * 0 <= Total(s)
  BY <1>1, <1>2, TotalBounds
<1>4. Len(s) * 0 = 0 /\ Total(s) \in Int
  BY <1>1, TotalType
<1>5. QED
  BY <1>3, <1>4

(***************************************************************************)
(* The columns of a list of figures.                                       *)
(***************************************************************************)
LEMMA ColumnsType ==
    ASSUME NEW e \in Seq(Figures)
    PROVE  /\ [i \in DOMAIN e |-> e[i].length] \in Seq(Nat)
           /\ [i \in DOMAIN e |-> e[i].low] \in Seq(Int)
           /\ [i \in DOMAIN e |-> e[i].high] \in Seq(Int)
           /\ [i \in DOMAIN e |-> e[i].most] \in Seq(Nat)
           /\ Len([i \in DOMAIN e |-> e[i].length]) = Len(e)
           /\ Len([i \in DOMAIN e |-> e[i].low]) = Len(e)
           /\ Len([i \in DOMAIN e |-> e[i].high]) = Len(e)
           /\ Len([i \in DOMAIN e |-> e[i].most]) = Len(e)
<1>1. Len(e) \in Nat /\ DOMAIN e = 1..Len(e)
  OBVIOUS
<1>2. \A i \in 1..Len(e) : e[i] \in Figures
  OBVIOUS
<1>3. \A i \in 1..Len(e) :
         e[i].length \in Nat /\ e[i].low \in Int /\ e[i].high \in Int /\ e[i].most \in Nat
  BY <1>2 DEF Figures
<1>4. /\ [i \in DOMAIN e |-> e[i].length] \in [1..Len(e) -> Nat]
      /\ [i \in DOMAIN e |-> e[i].low] \in [1..Len(e) -> Int]
      /\ [i \in DOMAIN e |-> e[i].high] \in [1..Len(e) -> Int]
      /\ [i \in DOMAIN e |-> e[i].most] \in [1..Len(e) -> Nat]
  BY <1>1, <1>3
<1>5. QED
  BY <1>1, <1>4, FunctionIsSeq

(***************************************************************************)
(* Where an overlap's parts start and end.                                 *)
(***************************************************************************)
Start(g, c, i) == IF g = 0 THEN 0 ELSE c.overlaps[i].offset \div g
EndsOf(g, c, e) == [i \in DOMAIN e |-> Start(g, c, i) + e[i].length]

(***************************************************************************)
(* The slots where the parts of an overlap start and end are natural       *)
(* numbers.                                                                *)
(***************************************************************************)
LEMMA EndsType ==
    ASSUME NEW g \in Nat, NEW c \in Patterns, c.type = "Overlap",
           NEW e \in Seq(Figures), Len(e) <= Len(Parts(c))
    PROVE  /\ \A i \in DOMAIN e : Start(g, c, i) \in Nat
           /\ EndsOf(g, c, e) \in Seq(Nat)
           /\ Len(EndsOf(g, c, e)) = Len(e)
<1>1. c.overlaps \in Seq([offset : Nat, config : Patterns]) /\ Len(e) <= Len(c.overlaps)
  BY PartsType DEF Composite
<1>2. Len(e) \in Nat /\ DOMAIN e = 1..Len(e) /\ Len(c.overlaps) \in Nat
  BY <1>1
<1>3. ASSUME NEW i \in 1..Len(e) PROVE Start(g, c, i) \in Nat
  <2>1. i \in 1..Len(c.overlaps)
    BY <1>1, <1>2
  <2>2. c.overlaps[i] \in [offset : Nat, config : Patterns]
    BY <1>1, <2>1, ElementOfSeq
  <2>3. c.overlaps[i].offset \in Nat
    BY <2>2
  <2>4. QED
    <3>1. \A o \in Nat, p \in Nat \ {0} : o \div p \in Nat
      OBVIOUS
    <3>2. CASE g = 0
      BY <3>2 DEF Start
    <3>3. CASE g # 0
      BY <2>3, <3>1, <3>3 DEF Start
    <3>4. QED
      BY <3>2, <3>3
<1>4. ASSUME NEW i \in 1..Len(e) PROVE e[i].length \in Nat
  <2>1. e[i] \in Figures
    BY <1>2, ElementOfSeq
  <2>2. QED
    BY <2>1 DEF Figures
<1>5. EndsOf(g, c, e) \in [1..Len(e) -> Nat]
  BY <1>2, <1>3, <1>4 DEF EndsOf
<1>6. QED
  BY <1>2, <1>3, <1>5, FunctionIsSeq

(***************************************************************************)
(* What parts stand for together are figures again.                        *)
(***************************************************************************)
LEMMA JoinedType ==
    ASSUME NEW g \in Nat, NEW c \in Patterns, Composite(c),
           NEW e \in Seq(Figures), Len(e) <= Len(Parts(c))
    PROVE  Joined(g, c, e) \in Figures
<1> DEFINE lengths == [i \in DOMAIN e |-> e[i].length]
           lows    == [i \in DOMAIN e |-> e[i].low]
           highs   == [i \in DOMAIN e |-> e[i].high]
           mosts   == [i \in DOMAIN e |-> e[i].most]
<1>1. lengths \in Seq(Nat) /\ lows \in Seq(Int) /\ highs \in Seq(Int) /\ mosts \in Seq(Nat)
  BY ColumnsType
<1>2. Joined(g, c, e) =
        IF c.type = "Sequence"
        THEN Expectation(Total(lengths), Total(lows), Total(highs), Most(mosts))
        ELSE Expectation(Most(EndsOf(g, c, e)), Total(lows), Total(highs), Total(mosts))
  BY DEF Joined, EndsOf, Start
<1> HIDE DEF lengths, lows, highs, mosts
<1>3. /\ Total(lengths) \in Nat /\ Total(mosts) \in Nat /\ Most(mosts) \in Nat
      /\ Total(lows) \in Int /\ Total(highs) \in Int
  BY <1>1, TotalNat, TotalType, MostType
<1>4. CASE c.type = "Sequence"
  BY <1>2, <1>3, <1>4, FiguresOf
<1>5. CASE c.type # "Sequence"
  <2>1. c.type = "Overlap"
    BY <1>5 DEF Composite
  <2>2. Most(EndsOf(g, c, e)) \in Nat
    BY <2>1, EndsType, MostType
  <2>3. QED
    BY <1>2, <1>3, <1>5, <2>2, FiguresOf
<1>6. QED
  BY <1>4, <1>5

(***************************************************************************)
(* The packets of a span of time can be counted.                           *)
(***************************************************************************)
LEMMA PacketsType ==
    ASSUME NEW c, c.duration \in Nat, NEW from, NEW to
    PROVE  /\ IsFiniteSet(PacketTimes(c, from, to))
           /\ PacketsIn(c, from, to) = Cardinality(PacketTimes(c, from, to))
           /\ PacketsIn(c, from, to) \in Nat
<1>1. PacketTimes(c, from, to) \in SUBSET (0..c.duration)
  BY DEF PacketTimes
<1>2. IsFiniteSet(0..c.duration)
  BY FS_Interval
<1>3. IsFiniteSet(PacketTimes(c, from, to))
  BY <1>1, <1>2, FS_Subset
<1>4. PacketsIn(c, from, to) = Cardinality(PacketTimes(c, from, to))
  BY DEF PacketsIn, PacketTimes
<1>5. QED
  BY <1>3, <1>4, FS_CardinalityType

(***************************************************************************)
(* What a pattern without parts stands for are figures, too.               *)
(***************************************************************************)
LEMMA SingleType ==
    ASSUME NEW g \in Nat, NEW c \in Patterns, ~Composite(c)
    PROVE  Single(g, c) \in Figures
<1> DEFINE n == IF g = 0 THEN 0 ELSE c.duration \div g
<1>1. IsPattern(c)
  BY PatternsAssumption
<1>2. c.duration \in Nat => n \in Nat
  <2> SUFFICES ASSUME NEW o \in Nat, o = c.duration PROVE n \in Nat
    OBVIOUS
  <2>1. CASE g = 0
    BY <2>1
  <2>2. CASE g # 0
    <3>1. o \div g \in Nat
      BY <2>2
    <3>2. QED
      BY <2>2, <3>1
  <2>3. QED
    BY <2>1, <2>2
<1> HIDE DEF n
<1>3. 0 \in Nat /\ 0 \in Int
  OBVIOUS
<1>4. CASE c.type = "Pause"
  <2>1. n \in Nat
    BY <1>1, <1>2, <1>4 DEF IsPattern
  <2>2. Single(g, c) = Expectation(n, 0, 0, 0)
    BY <1>4 DEF Single, n
  <2>3. QED
    BY <1>3, <2>1, <2>2, FiguresOf
<1>5. CASE c.type = "Periodic"
  <2> DEFINE packets == PacketsIn(c, 0, n * g)
             bytes == c.packet_size * packets
             most == Abs(c.packet_size) * packets
  <2>1. c.duration \in Nat /\ c.packet_size \in Int
    BY <1>1, <1>5, NumberFacts DEF IsPattern
  <2>2. n \in Nat
    BY <1>2, <2>1
  <2>3. Single(g, c) = Expectation(n, bytes, bytes, most)
    BY <1>5 DEF Single, n
  <2>4. packets \in Nat
    BY <2>1, PacketsType
  <2>5. Abs(c.packet_size) \in Nat
    BY <2>1, AbsType
  <2> HIDE DEF packets
  <2>6. bytes \in Int /\ most \in Nat
    <3>1. bytes \in Int
      BY <2>1, <2>4
    <3>2. most \in Nat
      BY <2>4, <2>5
    <3>3. QED
      BY <3>1, <3>2
  <2> HIDE DEF bytes, most
  <2>7. QED
    BY <2>2, <2>3, <2>6, FiguresOf
<1>6. CASE c.type = "Random"
  <2> DEFINE low == n * c.min_size
             high == n * c.max_size
             most == Max({Abs(c.min_size), Abs(c.max_size)})
  <2>1. c.duration \in Nat /\ c.min_size \in Int /\ c.max_size \in Int
    BY <1>1, <1>6, NumberFacts DEF IsPattern
  <2>2. n \in Nat
    BY <1>2, <2>1
  <2>3. Single(g, c) = Expectation(n, low, high, most)
    BY <1>6 DEF Single, n
  <2>4. low \in Int /\ high \in Int
    BY <2>1, <2>2
  <2>5. most \in Nat
    <3>1. Abs(c.min_size) \in Nat /\ Abs(c.max_size) \in Nat
      BY <2>1, AbsType
    <3>2. QED
      BY <3>1, MaxOfTwo
  <2> HIDE DEF low, high, most
  <2>6. QED
    BY <2>2, <2>3, <2>4, <2>5, FiguresOf
<1>7. CASE c.type = "Distributed" /\ n > 0
  <2> DEFINE size == c.cumulative_size
             high == IF size >= 0 THEN size ELSE Min({0, size + n})
             most == IF Normalises(c) THEN Abs(size) + 1 ELSE MaxInt + 1
  <2>1. c.duration \in Nat /\ size \in Int
    BY <1>1, <1>7, NumberFacts DEF IsPattern
  <2>2. n \in Nat
    BY <1>2, <2>1
  <2>3. Single(g, c) = Expectation(n, size, high, most)
    BY <1>7 DEF Single, n
  <2> HIDE DEF size
  <2>4. high \in Int /\ most \in Nat
    <3>1. Min({0, size + n}) \in Int
      BY <2>1, <2>2, MinOfTwo
    <3>2. Abs(size) \in Nat
      BY <2>1, AbsType
    <3>3. MaxInt \in Nat
      BY PatternsAssumption
    <3>4. QED
      BY <2>1, <3>1, <3>2, <3>3
  <2> HIDE DEF high, most
  <2>5. QED
    BY <2>1, <2>2, <2>3, <2>4, FiguresOf
<1>8. CASE c.type \notin {"Pause", "Periodic", "Random"} /\ ~(c.type = "Distributed" /\ n > 0)
  <2>1. Single(g, c) = Expectation(0, 0, 0, 0)
    BY <1>8 DEF Single, n
  <2>2. QED
    BY <1>3, <2>1, FiguresOf
<1>9. QED
  BY <1>4, <1>5, <1>6, <1>7, <1>8

(***************************************************************************)
(* What a configuration stands for are figures, by induction on its depth. *)
(***************************************************************************)
LEMMA ExpectedType ==
    ASSUME NEW g \in Nat
    PROVE  \A c \in Patterns : Expected(g)[c] \in Figures
<1> DEFINE E == Expected(g)
           T == {n \in Nat : \A c \in Patterns : Depth(c) < n => E[c] \in Figures}
<1>1. \A c \in Patterns :
         E[c] = IF Composite(c) THEN Joined(g, c, [i \in DOMAIN Parts(c) |-> E[Parts(c)[i]]])
                ELSE Single(g, c)
  BY ExpectedEquation
<1> HIDE DEF E
<1>2. 0 \in T
  <2>1. \A c \in Patterns : ~(Depth(c) < 0)
    BY PatternsAssumption
  <2>2. QED
    BY <2>1
<1>3. ASSUME NEW n \in Nat, n \in T PROVE n + 1 \in T
  <2> SUFFICES ASSUME NEW c \in Patterns, Depth(c) < n + 1 PROVE E[c] \in Figures
    OBVIOUS
  <2>1. CASE Composite(c)
    <3> DEFINE e == [i \in DOMAIN Parts(c) |-> E[Parts(c)[i]]]
               l == Len(Parts(c))
    <3>1. Parts(c) \in Seq(Patterns) /\ l \in Nat /\ DOMAIN Parts(c) = 1..l
      BY <2>1, PartsType
    <3>2. ASSUME NEW i \in 1..l PROVE E[Parts(c)[i]] \in Figures
      <4>1. Parts(c)[i] \in Patterns
        BY <3>1, ElementOfSeq
      <4>2. Depth(Parts(c)[i]) \in Nat /\ Depth(c) \in Nat /\ Depth(Parts(c)[i]) < Depth(c)
        BY <2>1, <3>1, <4>1, PatternsAssumption
      <4>3. Depth(Parts(c)[i]) < n
        BY <4>2
      <4>4. QED
        BY <1>3, <4>1, <4>3
    <3>3. e \in [1..l -> Figures]
      BY <3>1, <3>2
    <3>4. E[c] = Joined(g, c, e)
      BY <1>1, <2>1
    <3> HIDE DEF e
    <3>5. e \in Seq(Figures) /\ Len(e) = l
      BY <3>1, <3>3, FunctionIsSeq
    <3>6. Len(e) <= Len(Parts(c))
      BY <3>1, <3>5
    <3>7. QED
      BY <2>1, <3>4, <3>5, <3>6, JoinedType
  <2>2. CASE ~Composite(c)
    BY <1>1, <2>2, SingleType
  <2>3. QED
    BY <2>1, <2>2
<1> HIDE DEF T
<1>4. \A n \in Nat : n \in T
  BY <1>2, <1>3, Induction
<1>5. ASSUME NEW c \in Patterns PROVE E[c] \in Figures
  <2>1. Depth(c) \in Nat
    BY PatternsAssumption
  <2>2. Depth(c) + 1 \in Nat /\ Depth(c) < Depth(c) + 1
    BY <2>1
  <2>3. QED
    BY <1>4, <2>2 DEF T
<1>6. QED
  BY <1>5 DEF E

-----------------------------------------------------------------------------
(* Rows that hold what a configuration stands for *)

(***************************************************************************)
(* A row has the length and, unless a slot could overflow, the bytes.      *)
(***************************************************************************)
Matches(row, x) ==
    /\ Len(row) = x.length
    /\ x.most <= MaxInt =>
          /\ x.low <= Total(row) /\ Total(row) <= x.high
          /\ \A i \in DOMAIN row : -x.most <= row[i] /\ row[i] <= x.most

(***************************************************************************)
(* A row of 64-bit integers is a row of integers.                          *)
(***************************************************************************)
LEMMA RowIsInt == ASSUME NEW row \in Seq(Number) PROVE row \in Seq(Int)
BY NumberFacts, SeqMonotonic

(***************************************************************************)
(* Of parts that are none, the empty row is the row.                       *)
(***************************************************************************)
LEMMA NoneMatch == ASSUME NEW row \in Seq(Int), Len(row) = 0 PROVE Matches(row, Expectation(0, 0, 0, 0))
<1>1. Total(row) = 0
  BY TotalType
<1>2. DOMAIN row = {}
  OBVIOUS
<1>3. QED
  BY <1>1, <1>2 DEF Matches, Expectation

(***************************************************************************)
(* A sum of no larger terms is no larger.                                  *)
(***************************************************************************)
LEMMA TotalMonotone ==
    ASSUME NEW n \in Nat, NEW s \in [1..n -> Int], NEW t \in [1..n -> Int],
           \A i \in 1..n : s[i] <= t[i]
    PROVE  Total(s) <= Total(t)
<1> DEFINE d == [i \in 1..n |-> t[i] - s[i]]
<1>1. d \in [1..n -> Nat] /\ \A i \in 1..n : t[i] = s[i] + d[i]
  OBVIOUS
<1> HIDE DEF d
<1>2. d \in Seq(Nat) /\ Len(d) = n
  BY <1>1, FunctionIsSeq
<1>3. s \in Seq(Int) /\ t \in Seq(Int) /\ Len(s) = n /\ Len(t) = n /\ DOMAIN t = 1..n
  BY FunctionIsSeq
<1>4. d \in Seq(Int)
  BY <1>2, NatSeqIsInt
<1>5. Total(t) = Total(s) + Total(d)
  BY <1>1, <1>2, <1>3, <1>4, TotalOfSum
<1>6. Total(d) \in Nat /\ Total(s) \in Int
  BY <1>2, <1>3, TotalNat, TotalType
<1>7. QED
  BY <1>5, <1>6

(***************************************************************************)
(* A common positive factor does not count in a comparison.                *)
(***************************************************************************)
LEMMA FactorCancels ==
    ASSUME NEW a \in Int, NEW b \in Int, NEW k \in Int, k > 0, a * k <= b * k
    PROVE  a <= b
<1> SUFFICES ASSUME b < a PROVE FALSE
  OBVIOUS
<1> DEFINE d == a - b
<1>1. d \in Int /\ d >= 1 /\ a = b + d
  OBVIOUS
<1> HIDE DEF d
<1>2. (b + d) * k = b * k + d * k
  BY <1>1
<1>3. d * k >= 1 * k
  BY <1>1
<1>4. b * k \in Int /\ d * k \in Int
  BY <1>1
<1>5. a * k = b * k + d * k
  BY <1>1, <1>2
<1>6. QED
  BY <1>3, <1>4, <1>5

(***************************************************************************)
(* The shares of a distributed pattern: none is negative, and they miss    *)
(* no more than one byte for each slot, whatever the weights are.          *)
(***************************************************************************)
LEMMA ShareFacts ==
    ASSUME NEW size \in Nat, NEW n \in Nat, NEW w \in [1..n -> Nat], Total(w) > 0,
           NEW r \in Shares(size, w)
    PROVE  /\ r \in [1..n -> 0..size] /\ r \in Seq(Int) /\ Len(r) = n /\ DOMAIN r = 1..n
           /\ Total(r) \in Int /\ size - n <= Total(r) /\ Total(r) <= size /\ 0 <= Total(r)
<1> DEFINE k == Total(w)
           a == [i \in 1..n |-> r[i] * k]
           b == [i \in 1..n |-> w[i] * size]
           e == [i \in 1..n |-> r[i] + 1]
           d == [i \in 1..n |-> (r[i] + 1) * k]
           o == [i \in 1..n |-> 1]
<1>1. w \in Seq(Nat) /\ w \in Seq(Int) /\ Len(w) = n /\ DOMAIN w = 1..n
  BY FunctionIsSeq, NatSeqIsInt
<1>2. k \in Nat /\ k > 0
  BY <1>1, TotalNat
<1>3. r \in [1..n -> 0..size]
  BY <1>1 DEF Shares
<1>4. \A i \in 1..n : r[i] \in Nat /\ w[i] \in Nat
  BY <1>3
<1>5. \A i \in 1..n : r[i] * k <= w[i] * size /\ w[i] * size <= (r[i] + 1) * k
  BY <1>1 DEF Shares
<1> HIDE DEF k
<1>6. r \in [1..n -> Nat] /\ r \in [1..n -> Int]
  BY <1>3
<1>7. r \in Seq(Int) /\ r \in Seq(Nat) /\ Len(r) = n /\ DOMAIN r = 1..n
  BY <1>6, FunctionIsSeq
<1>8. Total(r) \in Nat
  BY <1>7, TotalNat
<1>9. a \in [1..n -> Int] /\ \A i \in 1..n : a[i] = r[i] * k
  BY <1>2, <1>4
<1>10. b \in [1..n -> Int] /\ \A i \in 1..n : b[i] = w[i] * size
  BY <1>4
<1>11. d \in [1..n -> Int] /\ \A i \in 1..n : d[i] = (r[i] + 1) * k
  BY <1>2, <1>4
<1>12. e \in [1..n -> Int] /\ \A i \in 1..n : e[i] = r[i] + 1
  BY <1>4
<1>13. o \in [1..n -> Int] /\ \A i \in 1..n : o[i] = 1
  OBVIOUS
<1> HIDE DEF a, b, d, e, o
<1>14. /\ a \in Seq(Int) /\ Len(a) = n /\ b \in Seq(Int) /\ Len(b) = n
       /\ d \in Seq(Int) /\ Len(d) = n
  BY <1>9, <1>10, <1>11, FunctionIsSeq
<1>15. /\ e \in Seq(Int) /\ Len(e) = n /\ DOMAIN e = 1..n
       /\ o \in Seq(Int) /\ Len(o) = n /\ DOMAIN o = 1..n
  BY <1>12, <1>13, FunctionIsSeq
<1>16. Total(a) = Total(r) * k
  BY <1>2, <1>7, <1>9, <1>14, TotalOfScaled
<1>17. Total(b) = k * size
  <2>1. \A i \in DOMAIN w : b[i] = w[i] * size
    BY <1>1, <1>10
  <2>2. Len(b) = Len(w) /\ size \in Int
    BY <1>1, <1>14
  <2>3. Total(b) = Total(w) * size
    BY <1>1, <1>14, <2>1, <2>2, TotalOfScaled
  <2>4. QED
    BY <2>3 DEF k
<1>18. Total(o) = n
  <2>1. 1 \in Int /\ \A i \in DOMAIN o : 1 <= o[i] /\ o[i] <= 1
    BY <1>13, <1>15
  <2>2. Len(o) * 1 <= Total(o) /\ Total(o) <= Len(o) * 1
    BY <1>15, <2>1, TotalBounds
  <2>3. Total(o) \in Int /\ Len(o) * 1 = n
    BY <1>15, TotalType
  <2>4. QED
    BY <2>2, <2>3
<1>19. Total(e) = Total(r) + n
  <2>1. \A i \in DOMAIN e : e[i] = r[i] + o[i]
    BY <1>12, <1>13, <1>15
  <2>2. /\ e \in Seq(Int) /\ r \in Seq(Int) /\ o \in Seq(Int)
        /\ Len(r) = Len(e) /\ Len(o) = Len(e)
    BY <1>7, <1>15
  <2>3. Total(e) = Total(r) + Total(o)
    BY <2>1, <2>2, TotalOfSum
  <2>4. QED
    BY <1>18, <2>3
<1>20. Total(d) = (Total(r) + n) * k
  <2>1. \A i \in DOMAIN e : d[i] = e[i] * k
    BY <1>11, <1>12, <1>15
  <2>2. Len(d) = Len(e) /\ k \in Int
    BY <1>2, <1>14, <1>15
  <2>3. Total(d) = Total(e) * k
    BY <1>14, <1>15, <2>1, <2>2, TotalOfScaled
  <2>4. QED
    BY <1>19, <2>3
<1>21. Total(a) <= Total(b)
  BY <1>5, <1>9, <1>10, TotalMonotone
<1>22. Total(b) <= Total(d)
  BY <1>5, <1>10, <1>11, TotalMonotone
<1>23. k * size = size * k
  BY <1>2
<1>24. Total(r) <= size
  <2>1. Total(r) * k <= size * k
    BY <1>16, <1>17, <1>21, <1>23
  <2>2. Total(r) \in Int /\ size \in Int /\ k \in Int
    BY <1>2, <1>8
  <2>3. QED
    BY <1>2, <2>1, <2>2, FactorCancels
<1>25. size - n <= Total(r)
  <2>1. size * k <= (Total(r) + n) * k
    BY <1>17, <1>20, <1>22, <1>23
  <2>2. Total(r) + n \in Int /\ size \in Int /\ k \in Int
    BY <1>2, <1>8
  <2>3. size <= Total(r) + n
    BY <1>2, <2>1, <2>2, FactorCancels
  <2>4. QED
    BY <1>8, <2>3
<1>26. QED
  BY <1>3, <1>7, <1>8, <1>24, <1>25

(***************************************************************************)
(* What is missing of a size that is not negative is all that rounding has *)
(* left; of a negative one nothing is.                                     *)
(***************************************************************************)
LEMMA MissingIs ==
    ASSUME NEW size \in Number, NEW r, Len(r) \in Nat, Total(r) \in Number,
           Total(r) \in Int, size - Total(r) \in Number, size - Total(r) <= Len(r)
    PROVE  Missing(size, r) = IF size >= Total(r) THEN size - Total(r) ELSE 0
<1> DEFINE d == size - Total(r)
<1>1. Wrap(Total(r)) = Total(r)
  BY WrapNumber
<1>2. Wrap(size - Wrap(Total(r))) = d
  BY <1>1, WrapNumber
<1>3. size \in Int /\ d \in Int
  BY NumberFacts
<1>4. d <= Len(r)
  OBVIOUS
<1>5. size >= Total(r) <=> d >= 0
  BY <1>3
<1> HIDE DEF d
<1>6. Min({d, Len(r)}) = d
  BY <1>3, <1>4, MinOfTwo
<1>7. Max({0, d}) = IF d >= 0 THEN d ELSE 0
  BY <1>3, MaxOfTwo
<1>8. Missing(size, r) = Max({0, d})
  BY <1>2, <1>6 DEF Missing
<1>9. QED
  BY <1>5, <1>7, <1>8 DEF d

(***************************************************************************)
(* A distribution whose weights have a sum holds its bytes: what rounding  *)
(* left is spread.  One whose weights have none is as long as it should.   *)
(***************************************************************************)
LEMMA DistributedMatches ==
    ASSUME file \in Files, NEW c \in Patterns, c.type = "Distributed",
           Slots(c.duration) > 0, NEW row \in DistributedRows(c)
    PROVE  Matches(row, Single(Granularity, c))
<1> DEFINE n == Slots(c.duration)
           size == c.cumulative_size
           high == IF size >= 0 THEN size ELSE Min({0, size + n})
           most == IF Normalises(c) THEN Abs(size) + 1 ELSE MaxInt + 1
<1>1. c.duration \in Nat /\ size \in Number /\ size \in Int
  <2>1. IsPattern(c)
    BY PatternsAssumption
  <2>2. QED
    BY <2>1, NumberFacts DEF IsPattern
<1>2. n \in Nat /\ n > 0 /\ n # 0
  BY <1>1, SlotsType
<1>3. Single(Granularity, c) = Expectation(n, size, high, most)
  BY <1>2 DEF Single, Slots
<1>4. PICK q \in Cast(c), P \in SUBSET (1..n) :
         /\ Cardinality(P) = Missing(size, q)
         /\ row = [i \in DOMAIN q |-> IF i \in P THEN q[i] + 1 ELSE q[i]]
  BY <1>2, DistributedIs
<1>5. q \in [1..n -> Int]
  BY CastType
<1>6. \A w \in Weights(c) : w \in [1..n -> 0..MaxWeight] /\ Total(w) > 0
  BY DEF Weights
<1>7. Normalises(c) =>
         \/ /\ size < 0
            /\ q \in {[i \in DOMAIN r |-> -r[i]] : r \in UNION {Shares(-size, w) : w \in Weights(c)}}
         \/ ~(size < 0) /\ q \in UNION {Shares(size, w) : w \in Weights(c)}
  BY <1>4 DEF Cast
<1> HIDE DEF n, size
<1> DEFINE o == [i \in 1..n |-> IF i \in P THEN 1 ELSE 0]
<1>8. q \in Seq(Int) /\ Len(q) = n /\ DOMAIN q = 1..n
  BY <1>2, <1>5, FunctionIsSeq
<1>9. \A i \in 1..n : o[i] = (IF i \in P THEN 1 ELSE 0) /\ o[i] \in Int /\ q[i] \in Int
  BY <1>5
<1>10. o \in [1..n -> Int]
  OBVIOUS
<1> HIDE DEF o
<1>11. o \in Seq(Int) /\ Len(o) = n /\ DOMAIN o = 1..n
  BY <1>2, <1>10, FunctionIsSeq
<1>12. \A i \in 1..n : row[i] = q[i] + o[i]
  BY <1>4, <1>8, <1>9
<1>13. row \in [1..n -> Int]
  <2>1. \A i \in 1..n : row[i] \in Int
    BY <1>9, <1>12
  <2>2. QED
    BY <1>4, <1>8, <2>1
<1>14. row \in Seq(Int) /\ Len(row) = n /\ DOMAIN row = 1..n
  BY <1>2, <1>13, FunctionIsSeq
<1>15. Total(row) = Total(q) + Total(o)
  BY <1>8, <1>11, <1>12, <1>14, TotalOfSum
<1>16. Total(o) = Cardinality(P)
  <2>1. P \in SUBSET (1..Len(o)) /\ \A i \in DOMAIN o : o[i] = IF i \in P THEN 1 ELSE 0
    BY <1>4, <1>9, <1>11
  <2>2. QED
    BY <1>11, <2>1, TotalOfOnes
<1>17. CASE ~Normalises(c)
  <2>1. most = MaxInt + 1 /\ MaxInt \in Nat
    BY <1>17, PatternsAssumption
  <2> HIDE DEF high, most
  <2>2. ~(most <= MaxInt)
    BY <2>1
  <2>3. QED
    BY <1>3, <1>14, <2>2 DEF Matches, Expectation
<1> SUFFICES ASSUME Normalises(c)
             PROVE  /\ size <= Total(row) /\ Total(row) <= high
                    /\ \A i \in 1..n : -most <= row[i] /\ row[i] <= most
  <2> HIDE DEF high, most
  <2>1. QED
    BY <1>3, <1>14, <1>17 DEF Matches, Expectation
<1>18. ASSUME NEW m \in Nat, NEW r \in UNION {Shares(m, w) : w \in Weights(c)}
       PROVE  /\ r \in [1..n -> 0..m] /\ r \in Seq(Int) /\ Len(r) = n /\ DOMAIN r = 1..n
              /\ Total(r) \in Int /\ m - n <= Total(r) /\ Total(r) <= m /\ 0 <= Total(r)
  <2>1. PICK w \in Weights(c) : r \in Shares(m, w)
    BY <1>18
  <2>2. w \in [1..n -> Nat] /\ Total(w) > 0
    BY <1>6
  <2>3. QED
    BY <1>2, <2>1, <2>2, ShareFacts
<1>19. CASE size < 0
  <2>1. PICK r \in UNION {Shares(-size, w) : w \in Weights(c)} : q = [i \in DOMAIN r |-> -r[i]]
    BY <1>7, <1>19
  <2>2. -size \in Nat
    BY <1>1, <1>19
  <2>3. /\ r \in [1..n -> 0..(-size)] /\ r \in Seq(Int) /\ Len(r) = n /\ DOMAIN r = 1..n
        /\ Total(r) \in Int /\ -size - n <= Total(r) /\ Total(r) <= -size /\ 0 <= Total(r)
    <3> SUFFICES ASSUME NEW m \in Nat, m = -size
                 PROVE  /\ r \in [1..n -> 0..m] /\ r \in Seq(Int) /\ Len(r) = n /\ DOMAIN r = 1..n
                        /\ Total(r) \in Int /\ m - n <= Total(r) /\ Total(r) <= m /\ 0 <= Total(r)
      BY <2>2
    <3>1. r \in UNION {Shares(m, w) : w \in Weights(c)}
      BY <2>1
    <3>2. QED
      BY <1>18, <3>1
  <2>4. \A i \in 1..n : r[i] \in 0..(-size) /\ q[i] = -r[i]
    BY <2>1, <2>3
  <2>5. Total(q) = -Total(r)
    BY <1>8, <2>3, <2>4, TotalOfNegated
  <2>6. Total(q) \in Int /\ size <= Total(q) /\ Total(q) <= 0 /\ Total(q) <= size + n
    BY <1>1, <1>2, <2>3, <2>5
  <2>7. Total(q) \in Number /\ size - Total(q) \in Number /\ size - Total(q) <= Len(q)
    <3>1. -MaxInt - 1 <= size /\ MaxInt \in Nat
      BY <1>1, PatternsAssumption DEF Number
    <3>2. QED
      BY <1>1, <1>2, <1>8, <2>6, <3>1 DEF Number
  <2>8. Missing(size, q) = 0
    <3>1. Missing(size, q) = IF size >= Total(q) THEN size - Total(q) ELSE 0
      BY <1>1, <1>2, <1>8, <2>6, <2>7, MissingIs
    <3>2. QED
      BY <1>1, <2>6, <3>1
  <2>9. P = {}
    <3>1. IsFiniteSet(P)
      <4>1. IsFiniteSet(1..n) /\ P \in SUBSET (1..n)
        BY <1>2, <1>4, FS_Interval
      <4>2. QED
        BY <4>1, FS_Subset
    <3>2. QED
      BY <1>4, <2>8, <3>1, FS_EmptySet
  <2>10. Total(row) = Total(q)
    BY <1>4, <1>15, <1>16, <2>6, <2>8
  <2>11. Total(row) <= high
    <3>1. high = IF 0 <= size + n THEN 0 ELSE size + n
      BY <1>1, <1>2, <1>19, MinOfTwo
    <3>2. QED
      BY <2>6, <2>10, <3>1
  <2>12. most = -size + 1
    BY <1>19 DEF Abs
  <2>13. ASSUME NEW i \in 1..n PROVE -most <= row[i] /\ row[i] <= most
    <3>1. row[i] = q[i]
      BY <1>9, <1>12, <2>9
    <3>2. r[i] \in Int /\ 0 <= r[i] /\ r[i] <= -size /\ row[i] = -r[i]
      BY <1>1, <2>4, <3>1
    <3> HIDE DEF most
    <3>3. QED
      BY <1>1, <2>12, <3>2
  <2>14. QED
    BY <2>6, <2>10, <2>11, <2>13
<1>20. CASE ~(size < 0)
  <2>1. size \in Nat /\ q \in UNION {Shares(size, w) : w \in Weights(c)}
    BY <1>1, <1>7, <1>20
  <2>2. /\ q \in [1..n -> 0..size]
        /\ Total(q) \in Int /\ size - n <= Total(q) /\ Total(q) <= size /\ 0 <= Total(q)
    BY <1>18, <2>1
  <2>3. Total(q) \in Number /\ size - Total(q) \in Number /\ size - Total(q) <= Len(q)
    <3>1. size <= MaxInt /\ MaxInt \in Nat
      BY <1>1, PatternsAssumption DEF Number
    <3>2. QED
      BY <1>2, <1>8, <2>1, <2>2, <3>1 DEF Number
  <2>4. Missing(size, q) = size - Total(q)
    <3>1. Missing(size, q) = IF size >= Total(q) THEN size - Total(q) ELSE 0
      BY <1>1, <1>2, <1>8, <2>2, <2>3, MissingIs
    <3>2. QED
      BY <2>1, <2>2, <3>1
  <2>5. Total(row) = size
    BY <1>4, <1>15, <1>16, <2>1, <2>2, <2>4
  <2>6. high = size /\ most = size + 1
    BY <1>1, <1>20 DEF Abs
  <2>7. ASSUME NEW i \in 1..n PROVE -most <= row[i] /\ row[i] <= most
    <3>1. q[i] \in 0..size
      BY <2>2
    <3>2. /\ row[i] = q[i] + o[i] /\ q[i] \in Int /\ 0 <= q[i] /\ q[i] <= size
          /\ o[i] = 0 \/ o[i] = 1
      BY <1>9, <1>12, <2>1, <3>1
    <3> HIDE DEF most
    <3>3. QED
      BY <2>1, <2>6, <3>2
  <2>8. QED
    BY <2>1, <2>5, <2>6, <2>7
<1>21. QED
  BY <1>19, <1>20

(***************************************************************************)
(* What a call without a loop returns, whatever the draw.                  *)
(***************************************************************************)
LEMMA RowsMatch ==
    ASSUME file \in Files, NEW c \in Patterns, ~Composite(c), c.type # "Periodic", NEW row \in Rows(c)
    PROVE  Matches(row, Single(Granularity, c))
<1> DEFINE n == Slots(c.duration)
           x == Single(Granularity, c)
<1>1. IsPattern(c)
  BY PatternsAssumption
<1>2. c.duration \in Nat => n \in Nat
  BY SlotsType
<1>3. row \in Seq(Int)
  BY RowsType, RowIsInt
<1>4. CASE c.type = "Pause"
  <2>1. n \in Nat
    BY <1>1, <1>2, <1>4 DEF IsPattern
  <2>2. row = Zeros(n)
    BY <1>4 DEF Rows
  <2>3. x = Expectation(n, 0, 0, 0)
    BY <1>4 DEF Single, Slots
  <2> HIDE DEF n, x
  <2>4. Len(row) = n /\ DOMAIN row = 1..n /\ \A i \in 1..n : row[i] = 0
    BY <2>1, <2>2, ZerosType DEF Zeros
  <2>5. Total(row) = 0
    <3>1. 0 \in Int /\ \A i \in DOMAIN row : 0 <= row[i] /\ row[i] <= 0
      BY <2>4
    <3>2. Len(row) * 0 <= Total(row) /\ Total(row) <= Len(row) * 0
      BY <1>3, <3>1, TotalBounds
    <3>3. Len(row) * 0 = 0 /\ Total(row) \in Int
      BY <1>3, TotalType
    <3>4. QED
      BY <3>2, <3>3
  <2>6. QED
    BY <2>3, <2>4, <2>5 DEF Matches, Expectation, x
<1>5. CASE c.type = "Random"
  <2> DEFINE a == c.min_size
             b == c.max_size
             most == Max({Abs(a), Abs(b)})
             low == n * a
             high == n * b
  <2>1. c.duration \in Nat /\ a \in Int /\ b \in Int
    BY <1>1, <1>5, NumberFacts DEF IsPattern
  <2>2. n \in Nat
    BY <1>2, <2>1
  <2>3. row \in [1..n -> a..b]
    BY <1>5 DEF Rows
  <2>4. x = Expectation(n, low, high, most)
    BY <1>5 DEF Single, Slots
  <2>5. Len(row) = n /\ DOMAIN row = 1..n
    BY <2>2, <2>3, FunctionIsSeq
  <2> HIDE DEF n, x, a, b
  <2>6. \A i \in 1..n : row[i] \in Int /\ a <= row[i] /\ row[i] <= b
    BY <2>1, <2>3
  <2>7. low <= Total(row) /\ Total(row) <= high
    <3>1. Len(row) * a <= Total(row) /\ Total(row) <= Len(row) * b
      BY <1>3, <2>1, <2>5, <2>6, TotalBounds
    <3>2. QED
      BY <2>5, <3>1
  <2>8. -most <= a /\ b <= most /\ most \in Int
    <3>1. /\ Abs(a) \in Nat /\ -Abs(a) <= a
          /\ Abs(b) \in Nat /\ b <= Abs(b)
      BY <2>1, AbsType
    <3>2. most = IF Abs(a) >= Abs(b) THEN Abs(a) ELSE Abs(b)
      BY <3>1, MaxOfTwo
    <3> HIDE DEF most
    <3>3. QED
      BY <2>1, <3>1, <3>2
  <2> HIDE DEF most, low, high
  <2>9. \A i \in 1..n : -most <= row[i] /\ row[i] <= most
    BY <2>1, <2>6, <2>8
  <2>10. QED
    BY <2>4, <2>5, <2>7, <2>9 DEF Matches, Expectation, x
<1>6. CASE c.type = "Distributed" /\ n > 0
  <2>1. row \in DistributedRows(c)
    BY <1>6 DEF Rows
  <2>2. QED
    BY <1>6, <2>1, DistributedMatches
<1>7. CASE c.type \notin {"Pause", "Random"} /\ ~(c.type = "Distributed" /\ n > 0)
  <2>1. x = Expectation(0, 0, 0, 0)
    BY <1>7 DEF Single, Slots
  <2>2. Rows(c) = {<<>>}
    <3>1. CASE c.type = "Distributed"
      <4>1. n \in Nat /\ ~(n > 0)
        BY <1>1, <1>2, <1>7, <3>1 DEF IsPattern
      <4>2. n = 0
        BY <4>1
      <4>3. QED
        BY <3>1, <4>2 DEF Rows, DistributedRows
    <3>2. CASE c.type # "Distributed"
      BY <1>7, <3>2 DEF Rows
    <3>3. QED
      BY <3>1, <3>2
  <2>3. Len(row) = 0
    BY <2>2
  <2>4. QED
    BY <1>3, <2>1, <2>3, NoneMatch
<1>8. QED
  BY <1>4, <1>5, <1>6, <1>7

(***************************************************************************)
(* The packets of the slots before a time are those of its slot more than  *)
(* those of the slots before.                                              *)
(***************************************************************************)
LEMMA PacketsOfSlots ==
    ASSUME NEW c, c.duration \in Nat, c.interval \in Nat, NEW a \in Nat, NEW b \in Nat, a <= b
    PROVE  PacketsIn(c, 0, b) = PacketsIn(c, 0, a) + PacketsIn(c, a, b)
<1> DEFINE P == PacketTimes(c, 0, a)
           Q == PacketTimes(c, a, b)
<1>1. IsFiniteSet(P) /\ IsFiniteSet(Q)
  BY PacketsType
<1>2. \A k \in 0..c.duration : k * c.interval \in Nat
  <2> SUFFICES ASSUME NEW i \in Nat, i = c.interval, NEW k \in 0..c.duration PROVE k * i \in Nat
    OBVIOUS
  <2>1. k \in Nat
    OBVIOUS
  <2>2. QED
    BY <2>1
<1>3. P \cup Q = PacketTimes(c, 0, b)
  <2>1. ASSUME NEW t \in Nat
        PROVE  (t \in 0..(b - 1)) <=> (t \in 0..(a - 1) \/ t \in a..(b - 1))
    OBVIOUS
  <2>2. QED
    BY <1>2, <2>1 DEF PacketTimes
<1>4. P \cap Q = {}
  <2>1. ASSUME NEW t \in Nat PROVE ~(t \in 0..(a - 1) /\ t \in a..(b - 1))
    OBVIOUS
  <2>2. QED
    BY <1>2, <2>1 DEF PacketTimes
<1> HIDE DEF P, Q
<1>5. Cardinality(P \cup Q) = Cardinality(P) + Cardinality(Q) - Cardinality(P \cap Q)
  BY <1>1, FS_Union
<1>6. Cardinality(P \cap Q) = 0
  BY <1>4, FS_EmptySet
<1>7. Cardinality(P) \in Nat /\ Cardinality(Q) \in Nat
  BY <1>1, FS_CardinalityType
<1>8. /\ PacketsIn(c, 0, b) = Cardinality(P \cup Q)
      /\ PacketsIn(c, 0, a) = Cardinality(P)
      /\ PacketsIn(c, a, b) = Cardinality(Q)
  BY <1>3, PacketsType DEF P, Q
<1>9. QED
  BY <1>5, <1>6, <1>7, <1>8

(***************************************************************************)
(* Before time zero there is no packet.                                    *)
(***************************************************************************)
LEMMA PacketsOfNone ==
    ASSUME NEW c, c.duration \in Nat, c.interval \in Nat
    PROVE  PacketsIn(c, 0, 0) = 0
<1>1. PacketTimes(c, 0, 0) = {}
  <2>1. 0..(0 - 1) = {}
    OBVIOUS
  <2>2. QED
    BY <2>1 DEF PacketTimes
<1>2. QED
  BY <1>1, PacketsType, FS_EmptySet

(***************************************************************************)
(* Products with a size of either sign.                                    *)
(***************************************************************************)
LEMMA ProductBounds ==
    ASSUME NEW s \in Int, NEW k \in Nat, NEW n \in Nat, k <= n
    PROVE  /\ s * k \in Int /\ Abs(s) * n \in Nat
           /\ -(Abs(s) * n) <= s * k /\ s * k <= Abs(s) * n
<1> DEFINE a == Abs(s)
<1>1. a \in Nat /\ (s = a \/ s = -a)
  BY DEF Abs
<1> HIDE DEF a
<1>2. a * k <= a * n /\ 0 <= a * k /\ a * k \in Int /\ a * n \in Nat
  <2>1. PICK d \in Nat : n = k + d
    <3>1. n - k \in Nat /\ n = k + (n - k)
      OBVIOUS
    <3>2. QED
      BY <3>1
  <2>2. a * n = a * k + a * d
    BY <1>1, <2>1
  <2>3. a * k \in Nat /\ a * d \in Nat
    BY <1>1
  <2>4. QED
    BY <2>2, <2>3
<1>3. CASE s = a
  <2>1. s * k = a * k
    BY <1>3
  <2>2. QED
    BY <1>2, <2>1 DEF a
<1>4. CASE s = -a
  <2>1. s * k = -(a * k)
    BY <1>1, <1>4
  <2>2. QED
    BY <1>2, <2>1 DEF a
<1>5. QED
  BY <1>1, <1>3, <1>4

(***************************************************************************)
(* A periodic pattern that is done holds all its packets.                  *)
(***************************************************************************)
LEMMA PeriodicMatches ==
    ASSUME file \in Files, NEW c \in Patterns, c.type = "Periodic", Granularity > 0,
           NEW row \in Seq(Number), Len(row) = Slots(c.duration),
           \A i \in DOMAIN row :
               row[i] = Wrap(c.packet_size * PacketsIn(c, (i - 1) * Granularity, i * Granularity))
    PROVE  Matches(row, Single(Granularity, c))
<1> DEFINE g == Granularity
           n == Len(row)
           s == c.packet_size
           P(a, b) == PacketsIn(c, a, b)
           packets == P(0, n * g)
           bytes == s * packets
           most == Abs(s) * packets
<1>1. c.duration \in Nat /\ c.interval \in Nat /\ s \in Int
  BY PatternsAssumption, NumberFacts DEF IsPattern
<1>2. g \in Nat /\ g > 0 /\ n \in Nat
  BY SlotsType
<1>3. Single(g, c) = Expectation(n, bytes, bytes, most)
  BY <1>2 DEF Single, Slots
<1>4. row \in Seq(Int) /\ DOMAIN row = 1..n
  BY RowIsInt
<1>5. \A a, b : P(a, b) \in Nat
  BY <1>1, PacketsType
<1>6. \A i \in 1..n : row[i] = Wrap(s * P((i - 1) * g, i * g))
  BY <1>4
<1>7. \A a, b \in Nat : a <= b => P(0, b) = P(0, a) + P(a, b)
  BY <1>1, PacketsOfSlots
<1>8. P(0, 0) = 0
  BY <1>1, PacketsOfNone
<1> HIDE DEF g, n, s, P
<1>9. ASSUME NEW k \in Nat, k < n
      PROVE  /\ P(0, (k + 1) * g) = P(0, k * g) + P(k * g, (k + 1) * g)
             /\ P(k * g, (k + 1) * g) <= packets
  <2> DEFINE a == k * g
             b == (k + 1) * g
             e == n * g
  <2>1. a \in Nat /\ b \in Nat /\ e \in Nat /\ a <= b
    <3>1. b = a + g /\ a \in Nat /\ e \in Nat
      BY <1>2
    <3>2. QED
      BY <1>2, <3>1
  <2>2. b <= e
    <3>1. PICK d \in Nat : n = (k + 1) + d
      <4>1. n - (k + 1) \in Nat /\ n = (k + 1) + (n - (k + 1))
        BY <1>2, <1>9
      <4>2. QED
        BY <4>1
    <3>2. e = b + d * g /\ d * g \in Nat
      BY <1>2, <3>1
    <3>3. QED
      BY <2>1, <3>2
  <2> HIDE DEF a, b, e
  <2>3. P(0, b) = P(0, a) + P(a, b)
    BY <1>7, <2>1
  <2>4. P(0, e) = P(0, b) + P(b, e)
    BY <1>7, <2>1, <2>2
  <2>5. P(0, a) \in Nat /\ P(a, b) \in Nat /\ P(b, e) \in Nat /\ P(0, b) \in Nat
    BY <1>5
  <2>6. P(a, b) <= P(0, e)
    BY <2>3, <2>4, <2>5
  <2>7. QED
    BY <2>3, <2>6 DEF a, b, e
<1>10. packets \in Nat /\ packets <= packets
  BY <1>5
<1> HIDE DEF packets
<1>11. bytes \in Int /\ most \in Nat
  BY <1>1, <1>10, ProductBounds
<1> SUFFICES ASSUME most <= MaxInt
             PROVE  /\ Total(row) = bytes
                    /\ \A i \in 1..n : -most <= row[i] /\ row[i] <= most
  <2> HIDE DEF bytes, most
  <2>1. QED
    BY <1>3, <1>4, <1>11 DEF Matches, Expectation, g, n
<1>12. ASSUME NEW k \in Nat, k < n
       PROVE  /\ row[k + 1] = s * P(k * g, (k + 1) * g)
              /\ -most <= row[k + 1] /\ row[k + 1] <= most
  <2> DEFINE p == P(k * g, (k + 1) * g)
             y == s * p
  <2>1. p \in Nat /\ p <= packets
    BY <1>5, <1>9, <1>12
  <2> HIDE DEF p
  <2>2. y \in Int /\ -most <= y /\ y <= most
    BY <1>1, <1>10, <2>1, ProductBounds
  <2>3. row[k + 1] = Wrap(y)
    <3>1. k + 1 \in 1..n /\ (k + 1) - 1 = k
      BY <1>2, <1>12
    <3>2. QED
      BY <1>6, <3>1 DEF p
  <2> HIDE DEF y
  <2>4. y \in Number
    <3> HIDE DEF most
    <3>1. QED
      BY <1>11, <2>2, PatternsAssumption DEF Number
  <2>5. row[k + 1] = y
    BY <2>3, <2>4, WrapNumber
  <2>6. QED
    BY <2>2, <2>5 DEF y, p
<1> HIDE DEF most
<1>13. ASSUME NEW i \in 1..n PROVE -most <= row[i] /\ row[i] <= most
  <2>1. i - 1 \in Nat /\ i - 1 < n /\ (i - 1) + 1 = i
    BY <1>2
  <2>2. QED
    BY <1>12, <2>1
<1> DEFINE R == Sums(row)
           T == {k \in Nat : k <= n => R[k] = s * P(0, k * g)}
<1>14. R[0] = 0 /\ \A k \in 1..n : R[k] = R[k - 1] + row[k]
  BY <1>4, SumsEquation DEF n
<1> HIDE DEF R
<1>15. 0 \in T
  <2>1. 0 * g = 0
    BY <1>2
  <2>2. s * 0 = 0
    BY <1>1
  <2>3. QED
    BY <1>8, <1>14, <2>1, <2>2
<1>16. ASSUME NEW k \in Nat, k \in T PROVE k + 1 \in T
  <2> SUFFICES ASSUME k + 1 <= n PROVE R[k + 1] = s * P(0, (k + 1) * g)
    OBVIOUS
  <2> DEFINE p == P(0, k * g)
             q == P(k * g, (k + 1) * g)
  <2>1. k + 1 \in 1..n /\ (k + 1) - 1 = k /\ k < n /\ k <= n
    BY <1>2
  <2>2. R[k] = s * p
    BY <1>16, <2>1
  <2>3. R[k + 1] = R[k] + row[k + 1]
    BY <1>14, <2>1
  <2>4. row[k + 1] = s * q
    BY <1>12, <2>1
  <2>5. P(0, (k + 1) * g) = p + q
    BY <1>9, <2>1
  <2>6. p \in Nat /\ q \in Nat
    BY <1>5
  <2> HIDE DEF p, q
  <2>7. s * (p + q) = s * p + s * q
    BY <1>1, <2>6
  <2>8. QED
    BY <2>2, <2>3, <2>4, <2>5, <2>7
<1>17. n \in T
  <2> HIDE DEF T
  <2>1. QED
    BY <1>2, <1>15, <1>16, Induction
<1>18. Total(row) = bytes
  BY <1>2, <1>17 DEF Total, R, n, packets
<1>19. QED
  BY <1>13, <1>18

(***************************************************************************)
(* The larger one of two numbers.                                          *)
(***************************************************************************)
Larger(a, b) == IF a >= b THEN a ELSE b

(***************************************************************************)
(* One part more: what the parts stand for, and what the last adds.        *)
(***************************************************************************)
LEMMA JoinedNext ==
    ASSUME NEW g \in Nat, NEW c \in Patterns, Composite(c),
           NEW d \in Seq(Figures), NEW e \in Seq(Figures),
           Len(e) = Len(d) + 1, Len(e) <= Len(Parts(c)), \A i \in DOMAIN d : e[i] = d[i]
    PROVE  LET D == Joined(g, c, d)
               J == Joined(g, c, e)
               x == e[Len(d) + 1]
           IN  /\ J.low = D.low + x.low /\ J.high = D.high + x.high
               /\ c.type = "Sequence" => /\ J.length = D.length + x.length
                                         /\ J.most = Larger(D.most, x.most)
               /\ c.type = "Overlap" =>
                     /\ J.length = Larger(D.length, Start(g, c, Len(d) + 1) + x.length)
                     /\ J.most = D.most + x.most
<1> DEFINE n == Len(d)
           dl == [i \in DOMAIN d |-> d[i].length]
           da == [i \in DOMAIN d |-> d[i].low]
           db == [i \in DOMAIN d |-> d[i].high]
           dm == [i \in DOMAIN d |-> d[i].most]
           el == [i \in DOMAIN e |-> e[i].length]
           ea == [i \in DOMAIN e |-> e[i].low]
           eb == [i \in DOMAIN e |-> e[i].high]
           em == [i \in DOMAIN e |-> e[i].most]
           D == Joined(g, c, d)
           J == Joined(g, c, e)
           x == e[n + 1]
<1>1. /\ n \in Nat /\ DOMAIN d = 1..n /\ DOMAIN e = 1..(n + 1)
      /\ n + 1 \in 1..(n + 1) /\ \A i \in 1..n : i \in 1..(n + 1)
      /\ \A i \in 1..n : e[i] = d[i]
  <2>1. n \in Nat /\ DOMAIN d = 1..n /\ DOMAIN e = 1..(n + 1)
    OBVIOUS
  <2>2. n + 1 \in 1..(n + 1) /\ \A i \in 1..n : i \in 1..(n + 1)
    BY <2>1
  <2>3. QED
    BY <2>1, <2>2
<1>2. /\ dl \in Seq(Nat) /\ da \in Seq(Int) /\ db \in Seq(Int) /\ dm \in Seq(Nat)
      /\ Len(dl) = n /\ Len(da) = n /\ Len(db) = n /\ Len(dm) = n
  BY ColumnsType
<1>3. /\ el \in Seq(Nat) /\ ea \in Seq(Int) /\ eb \in Seq(Int) /\ em \in Seq(Nat)
      /\ Len(el) = n + 1 /\ Len(ea) = n + 1 /\ Len(eb) = n + 1 /\ Len(em) = n + 1
  BY ColumnsType
<1>4. /\ \A i \in DOMAIN dl : el[i] = dl[i]
      /\ \A i \in DOMAIN da : ea[i] = da[i]
      /\ \A i \in DOMAIN db : eb[i] = db[i]
      /\ \A i \in DOMAIN dm : em[i] = dm[i]
  BY <1>1
<1>5. el[n + 1] = x.length /\ ea[n + 1] = x.low /\ eb[n + 1] = x.high /\ em[n + 1] = x.most
  BY <1>1
<1>6. /\ D = IF c.type = "Sequence" THEN Expectation(Total(dl), Total(da), Total(db), Most(dm))
             ELSE Expectation(Most(EndsOf(g, c, d)), Total(da), Total(db), Total(dm))
      /\ J = IF c.type = "Sequence" THEN Expectation(Total(el), Total(ea), Total(eb), Most(em))
             ELSE Expectation(Most(EndsOf(g, c, e)), Total(ea), Total(eb), Total(em))
  BY DEF Joined, EndsOf, Start
<1>7. /\ dl \in Seq(Int) /\ dm \in Seq(Int) /\ el \in Seq(Int) /\ em \in Seq(Int)
  <2> HIDE DEF dl, dm, el, em
  <2>1. QED
    BY <1>2, <1>3, NatSeqIsInt
<1> DEFINE dx == EndsOf(g, c, d)
           ex == EndsOf(g, c, e)
<1>8. ASSUME c.type = "Overlap"
      PROVE  /\ dx \in Seq(Nat) /\ Len(dx) = n /\ ex \in Seq(Nat) /\ Len(ex) = n + 1
             /\ \A i \in DOMAIN dx : ex[i] = dx[i]
             /\ ex[n + 1] = Start(g, c, n + 1) + x.length
  <2>1. Len(d) <= Len(Parts(c))
    <3>1. Len(Parts(c)) \in Nat
      BY PartsType
    <3>2. QED
      BY <1>1, <3>1
  <2>2. dx \in Seq(Nat) /\ Len(dx) = n /\ ex \in Seq(Nat) /\ Len(ex) = n + 1
    BY <1>8, <2>1, EndsType
  <2>3. \A i \in 1..n : ex[i] = dx[i]
    BY <1>1 DEF EndsOf
  <2>4. ex[n + 1] = Start(g, c, n + 1) + x.length
    BY <1>1 DEF EndsOf
  <2> HIDE DEF dx, ex
  <2>5. DOMAIN dx = 1..n
    BY <2>2
  <2>6. QED
    BY <2>2, <2>3, <2>4, <2>5
<1> HIDE DEF dl, da, db, dm, el, ea, eb, em, dx, ex, D, J, x
<1>9. /\ Total(el) = Total(dl) + x.length /\ Total(ea) = Total(da) + x.low
      /\ Total(eb) = Total(db) + x.high /\ Total(em) = Total(dm) + x.most
  <2>1. Total(el) = Total(dl) + el[Len(dl) + 1]
    BY <1>2, <1>3, <1>4, <1>7, TotalOfLast
  <2>2. Total(ea) = Total(da) + ea[Len(da) + 1]
    BY <1>2, <1>3, <1>4, <1>7, TotalOfLast
  <2>3. Total(eb) = Total(db) + eb[Len(db) + 1]
    BY <1>2, <1>3, <1>4, <1>7, TotalOfLast
  <2>4. Total(em) = Total(dm) + em[Len(dm) + 1]
    BY <1>2, <1>3, <1>4, <1>7, TotalOfLast
  <2>5. QED
    BY <1>2, <1>5, <2>1, <2>2, <2>3, <2>4
<1>10. Most(em) = Larger(Most(dm), x.most)
  <2>1. Most(em) = IF Most(dm) >= em[Len(dm) + 1] THEN Most(dm) ELSE em[Len(dm) + 1]
    <3>1. dm \in Seq(Nat) /\ em \in Seq(Nat)
      BY <1>2, <1>3
    <3>2. Len(em) = Len(dm) + 1 /\ \A i \in DOMAIN dm : em[i] = dm[i]
      BY <1>2, <1>3, <1>4
    <3>3. QED
      BY <3>1, <3>2, MostOfLast
  <2>2. QED
    BY <1>2, <1>5, <2>1 DEF Larger
<1>11. J.low = D.low + x.low /\ J.high = D.high + x.high
  BY <1>6, <1>9 DEF Expectation
<1>12. ASSUME c.type = "Sequence"
       PROVE  J.length = D.length + x.length /\ J.most = Larger(D.most, x.most)
  BY <1>6, <1>9, <1>10, <1>12 DEF Expectation
<1>13. ASSUME c.type = "Overlap"
       PROVE  /\ J.length = Larger(D.length, Start(g, c, n + 1) + x.length)
              /\ J.most = D.most + x.most
  <2>1. c.type # "Sequence"
    BY <1>13
  <2>2. Most(ex) = IF Most(dx) >= ex[Len(dx) + 1] THEN Most(dx) ELSE ex[Len(dx) + 1]
    BY <1>8, <1>13, MostOfLast
  <2>3. Most(ex) = Larger(Most(dx), Start(g, c, n + 1) + x.length)
    BY <1>8, <1>13, <2>2 DEF Larger
  <2>4. QED
    BY <1>6, <1>9, <2>1, <2>3 DEF Expectation, dx, ex
<1>14. QED
  BY <1>11, <1>12, <1>13 DEF D, J, x

(***************************************************************************)
(* An overlap adds rows up, and unless a slot could overflow, their bytes. *)
(***************************************************************************)
LEMMA OverlappedSum ==
    ASSUME NEW old \in Seq(Number), NEW new \in Seq(Number), NEW offset \in Nat
    PROVE  LET row == Overlapped(old, new, offset)
           IN  /\ Len(row) = Larger(Len(old), offset + Len(new))
               /\ \A a, b \in Nat :
                     (/\ a + b <= MaxInt
                      /\ \A i \in DOMAIN old : -a <= old[i] /\ old[i] <= a
                      /\ \A i \in DOMAIN new : -b <= new[i] /\ new[i] <= b)
                     => /\ Total(row) = Total(old) + Total(new)
                        /\ \A i \in DOMAIN row : -(a + b) <= row[i] /\ row[i] <= a + b
<1> DEFINE size == Max({Len(old), offset + Len(new)})
           At(r, i) == IF i \in DOMAIN r THEN r[i] ELSE 0
           row == Overlapped(old, new, offset)
           A == [i \in 1..size |-> IF i - 0 \in DOMAIN old THEN old[i - 0] ELSE 0]
           B == [i \in 1..size |-> IF i - offset \in DOMAIN new THEN new[i - offset] ELSE 0]
<1>1. /\ Len(old) \in Nat /\ Len(new) \in Nat /\ size = Larger(Len(old), offset + Len(new))
      /\ size \in Nat /\ Len(old) <= size /\ offset + Len(new) <= size
  <2>1. Len(old) \in Nat /\ Len(new) \in Nat /\ offset + Len(new) \in Int
    OBVIOUS
  <2>2. size = Larger(Len(old), offset + Len(new))
    BY <2>1, MaxOfTwo DEF Larger
  <2> HIDE DEF size
  <2>3. QED
    BY <2>1, <2>2 DEF Larger
<1>2. row = [i \in 1..size |-> Wrap(At(old, i) + At(new, i - offset))]
  BY DEF Overlapped
<1>3. old \in Seq(Int) /\ new \in Seq(Int)
  BY RowIsInt
<1>4. row \in Seq(Number)
  BY OverlappedType
<1> HIDE DEF size, row
<1>5. DOMAIN row = 1..size /\ Len(row) = size
  BY <1>1, <1>2, <1>4
<1>6. ASSUME NEW a \in Nat, NEW b \in Nat, a + b <= MaxInt,
             \A i \in DOMAIN old : -a <= old[i] /\ old[i] <= a,
             \A i \in DOMAIN new : -b <= new[i] /\ new[i] <= b
      PROVE  /\ Total(row) = Total(old) + Total(new)
             /\ \A i \in DOMAIN row : -(a + b) <= row[i] /\ row[i] <= a + b
  <2>1. ASSUME NEW i \in 1..size
        PROVE  /\ A[i] \in Int /\ B[i] \in Int /\ row[i] = A[i] + B[i]
               /\ A[i] = IF i - 0 \in DOMAIN old THEN old[i - 0] ELSE 0
               /\ B[i] = IF i - offset \in DOMAIN new THEN new[i - offset] ELSE 0
               /\ -(a + b) <= row[i] /\ row[i] <= a + b
    <3>1. /\ A[i] = IF i - 0 \in DOMAIN old THEN old[i - 0] ELSE 0
          /\ B[i] = IF i - offset \in DOMAIN new THEN new[i - offset] ELSE 0
      OBVIOUS
    <3>2. i - 0 = i
      BY <1>1
    <3>3. A[i] = At(old, i) /\ B[i] = At(new, i - offset)
      BY <3>1, <3>2
    <3>4. row[i] = Wrap(A[i] + B[i])
      BY <1>2, <3>3
    <3>5. A[i] \in Int /\ -a <= A[i] /\ A[i] <= a
      <4>1. CASE i \in DOMAIN old
        <5>1. old[i] \in Int
          BY <1>3, <4>1, ElementOfSeq
        <5>2. QED
          BY <1>6, <3>3, <4>1, <5>1
      <4>2. CASE i \notin DOMAIN old
        BY <3>3, <4>2
      <4>3. QED
        BY <4>1, <4>2
    <3>6. B[i] \in Int /\ -b <= B[i] /\ B[i] <= b
      <4> DEFINE j == i - offset
      <4>1. CASE j \in DOMAIN new
        <5>1. new[j] \in Int
          BY <1>3, <4>1, ElementOfSeq
        <5>2. QED
          BY <1>6, <3>3, <4>1, <5>1
      <4>2. CASE j \notin DOMAIN new
        BY <3>3, <4>2
      <4>3. QED
        BY <4>1, <4>2
    <3> DEFINE y == A[i] + B[i]
    <3>7. y \in Int /\ -(a + b) <= y /\ y <= a + b
      BY <3>5, <3>6
    <3>8. y \in Number
      <4> HIDE DEF y
      <4>1. QED
        BY <1>6, <3>7, PatternsAssumption DEF Number
    <3> HIDE DEF A, B, y
    <3>9. row[i] = y
      BY <3>4, <3>8, WrapNumber DEF y
    <3>10. QED
      BY <3>1, <3>5, <3>6, <3>7, <3>9 DEF y
  <2>2. A = [i \in 1..size |-> A[i]] /\ B = [i \in 1..size |-> B[i]]
    OBVIOUS
  <2> HIDE DEF A, B
  <2>3. A \in [1..size -> Int] /\ B \in [1..size -> Int]
    BY <2>1, <2>2
  <2>4. /\ A \in Seq(Int) /\ Len(A) = size /\ DOMAIN A = 1..size
        /\ B \in Seq(Int) /\ Len(B) = size /\ DOMAIN B = 1..size
    BY <1>1, <2>3, FunctionIsSeq
  <2>5. row \in Seq(Int)
    BY <1>4, RowIsInt
  <2>6. Total(row) = Total(A) + Total(B)
    <3>1. Len(A) = Len(row) /\ Len(B) = Len(row) /\ \A i \in DOMAIN row : row[i] = A[i] + B[i]
      BY <1>5, <2>1, <2>4
    <3>2. QED
      BY <2>4, <2>5, <3>1, TotalOfSum
  <2>7. Total(A) = Total(old)
    <3>1. /\ 0 + Len(old) <= Len(A)
          /\ \A i \in DOMAIN A : A[i] = IF i - 0 \in DOMAIN old THEN old[i - 0] ELSE 0
      BY <1>1, <2>1, <2>4
    <3>2. QED
      BY <1>3, <2>4, <3>1, TotalOfShifted
  <2>8. Total(B) = Total(new)
    <3>1. /\ offset + Len(new) <= Len(B)
          /\ \A i \in DOMAIN B : B[i] = IF i - offset \in DOMAIN new THEN new[i - offset] ELSE 0
      BY <1>1, <2>1, <2>4
    <3>2. QED
      BY <1>3, <2>4, <3>1, TotalOfShifted
  <2>9. QED
    BY <1>5, <2>1, <2>6, <2>7, <2>8
<1>7. Len(row) = Larger(Len(old), offset + Len(new))
  BY <1>1, <1>5
<1>8. QED
  BY <1>6, <1>7 DEF row

(***************************************************************************)
(* What a configuration stands for at the granularity of the file, and the *)
(* first n of its parts.                                                   *)
(***************************************************************************)
Due(c) == Expected(Granularity)[c]
FirstParts(c, n) == [i \in 1..n |-> Due(Parts(c)[i])]

(***************************************************************************)
(* A configuration without parts stands for its own row, ...               *)
(***************************************************************************)
LEMMA DueType ==
    ASSUME file \in Files, NEW c \in Patterns
    PROVE  /\ Due(c) \in Figures
           /\ ~Composite(c) => Due(c) = Single(Granularity, c)
<1>1. Granularity \in Nat
  BY SlotsType
<1>2. Due(c) \in Figures
  BY <1>1, ExpectedType DEF Due
<1>3. ASSUME ~Composite(c) PROVE Due(c) = Single(Granularity, c)
  BY <1>3, ExpectedEquation DEF Due
<1>4. QED
  BY <1>2, <1>3

(***************************************************************************)
(* ... and one with parts for what all of these do together.               *)
(***************************************************************************)
LEMMA PartsDue ==
    ASSUME file \in Files, NEW c \in Patterns, Composite(c)
    PROVE  /\ Len(Parts(c)) \in Nat
           /\ Due(c) = Joined(Granularity, c, FirstParts(c, Len(Parts(c))))
           /\ \A n \in Nat : n <= Len(Parts(c)) =>
                 FirstParts(c, n) \in Seq(Figures) /\ Len(FirstParts(c, n)) = n
<1> DEFINE l == Len(Parts(c))
<1>1. Parts(c) \in Seq(Patterns) /\ l \in Nat /\ DOMAIN Parts(c) = 1..l
  BY PartsType
<1>2. Due(c) = Joined(Granularity, c, [i \in DOMAIN Parts(c) |-> Due(Parts(c)[i])])
  BY ExpectedEquation DEF Due
<1>3. Due(c) = Joined(Granularity, c, FirstParts(c, l))
  BY <1>1, <1>2 DEF FirstParts
<1> HIDE DEF l
<1>4. ASSUME NEW n \in Nat, n <= l
      PROVE  FirstParts(c, n) \in Seq(Figures) /\ Len(FirstParts(c, n)) = n
  <2>1. ASSUME NEW i \in 1..n PROVE Due(Parts(c)[i]) \in Figures
    <3>1. i \in 1..l
      BY <1>1, <1>4
    <3>2. Parts(c)[i] \in Patterns
      BY <1>1, <3>1, ElementOfSeq DEF l
    <3>3. QED
      BY <3>2, DueType
  <2>2. FirstParts(c, n) \in [1..n -> Figures]
    BY <2>1 DEF FirstParts
  <2>3. QED
    BY <2>2, FunctionIsSeq
<1>5. QED
  BY <1>1, <1>3, <1>4 DEF l

(***************************************************************************)
(* No byte is lost or doubled where a caller receives the row of a part.   *)
(***************************************************************************)
LEMMA ReceivedMatches ==
    ASSUME file \in Files, NEW f \in Frame, NEW row \in Seq(Number),
           Composite(f.config), f.at < Len(Parts(f.config)),
           Matches(f.row, Joined(Granularity, f.config, FirstParts(f.config, f.at))),
           Matches(row, Due(Parts(f.config)[f.at + 1]))
    PROVE  /\ Received(f, row).at = f.at + 1
           /\ Matches(Received(f, row).row,
                      Joined(Granularity, f.config, FirstParts(f.config, f.at + 1)))
<1> DEFINE c == f.config
           n == f.at
           g == Granularity
           d == FirstParts(c, n)
           e == FirstParts(c, n + 1)
           D == Joined(g, c, d)
           J == Joined(g, c, e)
           x == Due(Parts(c)[n + 1])
           old == f.row
<1>1. c \in Patterns /\ n \in Nat /\ old \in Seq(Number) /\ g \in Nat
  BY SlotsType DEF Frame
<1>2. /\ d \in Seq(Figures) /\ Len(d) = n /\ e \in Seq(Figures) /\ Len(e) = n + 1
      /\ n + 1 <= Len(Parts(c)) /\ n <= Len(Parts(c)) /\ Len(Parts(c)) \in Nat
  <2>1. Len(Parts(c)) \in Nat
    BY <1>1, PartsDue
  <2>2. n + 1 \in Nat /\ n + 1 <= Len(Parts(c)) /\ n <= Len(Parts(c))
    BY <1>1, <2>1
  <2> HIDE DEF c, n
  <2>3. QED
    BY <1>1, <2>1, <2>2, PartsDue DEF c
<1>3. \A i \in DOMAIN d : e[i] = d[i]
  <2>1. \A i \in 1..n : i \in 1..(n + 1)
    BY <1>1
  <2>2. QED
    BY <2>1 DEF FirstParts
<1>4. x = e[Len(d) + 1]
  <2>1. n + 1 \in 1..(n + 1)
    BY <1>1
  <2>2. e[n + 1] = x
    BY <2>1 DEF FirstParts
  <2> HIDE DEF d, e, x, n
  <2>3. QED
    BY <1>2, <2>2
<1>5. D \in Figures /\ J \in Figures
  <2>1. D \in Figures
    <3> HIDE DEF d, c, g, n
    <3>1. QED
      BY <1>1, <1>2, JoinedType DEF c
  <2>2. J \in Figures
    <3> HIDE DEF e, c, g, n
    <3>1. QED
      BY <1>1, <1>2, JoinedType DEF c
  <2>3. QED
    BY <2>1, <2>2
<1>6. x \in Figures
  <2>1. n + 1 \in DOMAIN e
    <3> HIDE DEF e, n
    <3>1. QED
      BY <1>1, <1>2
  <2> HIDE DEF e, d, n, x
  <2>2. QED
    BY <1>2, <1>4, ElementOfSeq
<1>7. /\ J.low = D.low + x.low /\ J.high = D.high + x.high
      /\ c.type = "Sequence" => /\ J.length = D.length + x.length
                                /\ J.most = Larger(D.most, x.most)
      /\ c.type = "Overlap" =>
            /\ J.length = Larger(D.length, Start(g, c, n + 1) + x.length)
            /\ J.most = D.most + x.most
  <2>1. Len(e) = Len(d) + 1 /\ Len(e) <= Len(Parts(c))
    <3> HIDE DEF e, d, n, c
    <3>1. QED
      BY <1>2
  <2> HIDE DEF e, d, c, x, g
  <2>2. Composite(c)
    BY DEF c
  <2>3. n = Len(d)
    BY <1>2
  <2> HIDE DEF n, D, J
  <2>4. c \in Patterns /\ g \in Nat /\ d \in Seq(Figures) /\ e \in Seq(Figures)
    BY <1>1, <1>2
  <2>5. /\ J.low = D.low + x.low /\ J.high = D.high + x.high
        /\ c.type = "Sequence" => /\ J.length = D.length + x.length
                                  /\ J.most = Larger(D.most, x.most)
        /\ c.type = "Overlap" =>
              /\ J.length = Larger(D.length, Start(g, c, Len(d) + 1) + x.length)
              /\ J.most = D.most + x.most
    BY <1>3, <1>4, <2>1, <2>2, <2>4, JoinedNext DEF D, J
  <2>6. QED
    BY <2>3, <2>5
<1>8. Matches(old, D) /\ Matches(row, x)
  OBVIOUS
<1>9. old \in Seq(Int) /\ row \in Seq(Int)
  BY <1>1, RowIsInt
<1> HIDE DEF c, n, g, d, e, D, J, x, old
<1>10. /\ D.length \in Nat /\ D.low \in Int /\ D.high \in Int /\ D.most \in Nat
       /\ x.length \in Nat /\ x.low \in Int /\ x.high \in Int /\ x.most \in Nat
       /\ MaxInt \in Nat
  BY <1>5, <1>6, PatternsAssumption DEF Figures
<1>11. Total(old) \in Int /\ Total(row) \in Int /\ Len(old) \in Nat /\ Len(row) \in Nat
  BY <1>9, TotalType
<1>12. /\ Len(old) = D.length /\ Len(row) = x.length
       /\ D.most <= MaxInt =>
             /\ D.low <= Total(old) /\ Total(old) <= D.high
             /\ \A i \in DOMAIN old : -D.most <= old[i] /\ old[i] <= D.most
       /\ x.most <= MaxInt =>
             /\ x.low <= Total(row) /\ Total(row) <= x.high
             /\ \A i \in DOMAIN row : -x.most <= row[i] /\ row[i] <= x.most
  BY <1>8 DEF Matches
<1>13. CASE c.type = "Sequence"
  <2> DEFINE r == old \o row
  <2>1. /\ r \in Seq(Int) /\ Len(r) = Len(old) + Len(row)
        /\ \A i \in 1..(Len(old) + Len(row)) :
              r[i] = IF i <= Len(old) THEN old[i] ELSE row[i - Len(old)]
    BY <1>9, ConcatProperties
  <2>2. Total(r) = Total(old) + Total(row)
    BY <1>9, TotalOfBoth
  <2>3. Received(f, row) = [f EXCEPT !.at = n + 1, !.row = r]
    BY <1>13 DEF Received, Frame, c, n, old
  <2> HIDE DEF r
  <2>4. Received(f, row).at = n + 1 /\ Received(f, row).row = r
    BY <2>3 DEF Frame
  <2>5. ASSUME J.most <= MaxInt
        PROVE  /\ J.low <= Total(r) /\ Total(r) <= J.high
               /\ \A i \in DOMAIN r : -J.most <= r[i] /\ r[i] <= J.most
    <3>1. /\ D.most <= J.most /\ x.most <= J.most /\ J.most \in Nat
          /\ D.most <= MaxInt /\ x.most <= MaxInt
      BY <1>7, <1>10, <1>13, <2>5 DEF Larger
    <3>2. J.low <= Total(r) /\ Total(r) <= J.high
      <4>1. D.low <= Total(old) /\ Total(old) <= D.high /\ x.low <= Total(row) /\ Total(row) <= x.high
        BY <1>12, <3>1
      <4>2. J.low = D.low + x.low /\ J.high = D.high + x.high
        BY <1>7
      <4>3. /\ D.low \in Int /\ D.high \in Int /\ x.low \in Int /\ x.high \in Int
            /\ Total(old) \in Int /\ Total(row) \in Int
        BY <1>10, <1>11
      <4> HIDE DEF r
      <4>4. J.low <= Total(r)
        BY <2>2, <4>1, <4>2, <4>3
      <4>5. Total(r) <= J.high
        BY <2>2, <4>1, <4>2, <4>3
      <4>6. QED
        BY <4>4, <4>5
    <3>3. ASSUME NEW i \in DOMAIN r PROVE -J.most <= r[i] /\ r[i] <= J.most
      <4>1. i \in 1..(Len(old) + Len(row))
        BY <2>1
      <4>2. CASE i <= Len(old)
        <5>1. i \in DOMAIN old /\ r[i] = old[i]
          BY <1>9, <1>11, <2>1, <4>1, <4>2
        <5>2. old[i] \in Int /\ -D.most <= old[i] /\ old[i] <= D.most
          BY <1>9, <1>12, <3>1, <5>1, ElementOfSeq
        <5>3. QED
          BY <1>10, <3>1, <5>1, <5>2
      <4>3. CASE ~(i <= Len(old))
        <5> DEFINE j == i - Len(old)
        <5>1. j \in DOMAIN row /\ r[i] = row[j]
          BY <1>9, <1>11, <2>1, <4>1, <4>3
        <5> HIDE DEF j
        <5>2. row[j] \in Int /\ -x.most <= row[j] /\ row[j] <= x.most
          BY <1>9, <1>12, <3>1, <5>1, ElementOfSeq
        <5>3. QED
          BY <1>10, <3>1, <5>1, <5>2
      <4>4. QED
        BY <4>2, <4>3
    <3>4. QED
      BY <3>2, <3>3
  <2>6. Len(r) = J.length
    BY <1>7, <1>12, <1>13, <2>1
  <2>7. QED
    BY <2>4, <2>5, <2>6 DEF Matches, J, e, n, c, g
<1>14. CASE c.type = "Overlap"
  <2> DEFINE o == Start(g, c, n + 1)
             r == Overlapped(old, row, o)
  <2>1. o \in Nat
    <3>1. n + 1 \in DOMAIN e
      BY <1>1, <1>2
    <3>2. QED
      BY <1>1, <1>2, <1>14, <3>1, EndsType
  <2>2. o = Slots(c.overlaps[n + 1].offset)
    BY DEF Start, Slots, g
  <2>3. Received(f, row) = [f EXCEPT !.at = n + 1, !.row = r]
    BY <1>14, <2>2 DEF Received, Frame, c, n, old
  <2> HIDE DEF o
  <2>4. /\ Len(r) = Larger(Len(old), o + Len(row))
        /\ \A a, b \in Nat :
              (/\ a + b <= MaxInt
               /\ \A i \in DOMAIN old : -a <= old[i] /\ old[i] <= a
               /\ \A i \in DOMAIN row : -b <= row[i] /\ row[i] <= b)
              => /\ Total(r) = Total(old) + Total(row)
                 /\ \A i \in DOMAIN r : -(a + b) <= r[i] /\ r[i] <= a + b
    BY <1>1, <2>1, OverlappedSum
  <2> HIDE DEF r
  <2>5. Received(f, row).at = n + 1 /\ Received(f, row).row = r
    BY <2>3 DEF Frame
  <2>6. ASSUME J.most <= MaxInt
        PROVE  /\ J.low <= Total(r) /\ Total(r) <= J.high
               /\ \A i \in DOMAIN r : -J.most <= r[i] /\ r[i] <= J.most
    <3>1. /\ J.most = D.most + x.most /\ D.most + x.most <= MaxInt
          /\ D.most <= MaxInt /\ x.most <= MaxInt
      BY <1>7, <1>10, <1>14, <2>6
    <3>2. /\ \A i \in DOMAIN old : -D.most <= old[i] /\ old[i] <= D.most
          /\ \A i \in DOMAIN row : -x.most <= row[i] /\ row[i] <= x.most
      BY <1>12, <3>1
    <3>3. /\ Total(r) = Total(old) + Total(row)
          /\ \A i \in DOMAIN r : -(D.most + x.most) <= r[i] /\ r[i] <= D.most + x.most
      BY <1>10, <2>4, <3>1, <3>2
    <3>4. J.low <= Total(r) /\ Total(r) <= J.high
      <4>1. D.low <= Total(old) /\ Total(old) <= D.high /\ x.low <= Total(row) /\ Total(row) <= x.high
        BY <1>12, <3>1
      <4>2. J.low = D.low + x.low /\ J.high = D.high + x.high
        BY <1>7
      <4>3. QED
        BY <1>10, <1>11, <3>3, <4>1, <4>2
    <3>5. QED
      BY <3>1, <3>3, <3>4
  <2>7. Len(r) = J.length
    BY <1>7, <1>12, <1>14, <2>4 DEF o
  <2>8. QED
    BY <2>5, <2>6, <2>7 DEF Matches, J, e, n, c, g
<1>15. QED
  BY <1>13, <1>14 DEF Composite, c

-----------------------------------------------------------------------------
(* Between the calls of a generation *)

(***************************************************************************)
(* The UEs of the file with their configurations, in the order of the      *)
(* list.                                                                   *)
(***************************************************************************)
Listed == TrafficConfig(file.traffic)

(***************************************************************************)
(* The UEs that are done have their rows; the others are the last of the   *)
(* list.                                                                   *)
(***************************************************************************)
Remaining(cs, t) ==
    LET done == Len(Listed) - Len(cs)
    IN  /\ Len(cs) <= Len(Listed)
        /\ \A i \in DOMAIN cs : cs[i] = Listed[done + i]
        /\ \A j \in 1..done : /\ Listed[j].ue \in DOMAIN t
                              /\ Matches(t[Listed[j].ue], Due(Listed[j].config))

(***************************************************************************)
(* A frame with parts holds what the first of them stand for, and the call *)
(* on top of it is that of the next one.                                   *)
(***************************************************************************)
Partial(f) ==
    Composite(f.config) =>
        /\ f.at <= Len(Parts(f.config))
        /\ Matches(f.row, Joined(Granularity, f.config, FirstParts(f.config, f.at)))

(***************************************************************************)
(* Each call is for the next part of the one below it, the outermost one   *)
(* for the configuration c of the UE.                                      *)
(***************************************************************************)
Nested(s, c) ==
    \A i \in DOMAIN s :
       /\ Partial(s[i])
       /\ s[i].config = IF i = Len(s) THEN c ELSE Parts(s[i + 1].config)[s[i + 1].at + 1]

(***************************************************************************)
(* The inductive invariant: what has been generated, at any time, is what  *)
(* has been configured.                                                    *)
(***************************************************************************)
RowsInv ==
    /\ planPhase \in {"generate", "ready"} => ~IsRejected(file.traffic) /\ Remaining(configs, traffic)
    /\ planPhase = "generate" => Nested(stack, configs[1].config)
    /\ planPhase = "ready" => configs = <<>>

(***************************************************************************)
(* The invariant after a step that keeps the file.                         *)
(***************************************************************************)
LEMMA RowsInvPrimed ==
    ASSUME file' = file
    PROVE  RowsInv' <=>
              /\ planPhase' \in {"generate", "ready"} =>
                    ~IsRejected(file.traffic) /\ Remaining(configs', traffic')
              /\ planPhase' = "generate" => Nested(stack', configs'[1].config)
              /\ planPhase' = "ready" => configs' = <<>>
BY DEF RowsInv, Remaining, Nested, Partial, FirstParts, Due, Listed, Granularity

(***************************************************************************)
(* The stack before a call, after a call, and after a return.              *)
(***************************************************************************)
LEMMA NestedNone == ASSUME NEW c PROVE Nested(<<>>, c)
BY DEF Nested

LEMMA NestedPush ==
    ASSUME NEW s \in Seq(Frame), NEW c, NEW f \in Frame, Nested(s, c), Partial(f),
           f.config = IF Len(s) = 0 THEN c ELSE Parts(s[1].config)[s[1].at + 1]
    PROVE  Nested(<<f>> \o s, c)
<1> DEFINE t == <<f>> \o s
<1>1. /\ t \in Seq(Frame) /\ Len(t) = Len(s) + 1 /\ t[1] = f
      /\ \A i \in 1..Len(s) : t[i + 1] = s[i]
  BY PushedFrame
<1>2. Len(s) \in Nat /\ DOMAIN s = 1..Len(s) /\ DOMAIN t = 1..(Len(s) + 1)
  BY <1>1
<1> HIDE DEF t
<1>3. ASSUME NEW i \in DOMAIN t
      PROVE  /\ Partial(t[i])
             /\ t[i].config = IF i = Len(t) THEN c ELSE Parts(t[i + 1].config)[t[i + 1].at + 1]
  <2>1. CASE i = 1
    <3>1. CASE Len(s) = 0
      BY <1>1, <2>1, <3>1
    <3>2. CASE Len(s) # 0
      <4>1. 1 \in 1..Len(s) /\ i # Len(t) /\ t[i + 1] = s[1]
        BY <1>1, <1>2, <2>1, <3>2
      <4>2. QED
        BY <1>1, <2>1, <3>2, <4>1
    <3>3. QED
      BY <3>1, <3>2
  <2>2. CASE i # 1
    <3> DEFINE j == i - 1
    <3>1. j \in 1..Len(s) /\ j + 1 = i /\ (i = Len(t) <=> j = Len(s))
      BY <1>1, <1>2, <2>2
    <3> HIDE DEF j
    <3>2. t[i] = s[j]
      BY <1>1, <3>1
    <3>3. /\ Partial(s[j])
          /\ s[j].config = IF j = Len(s) THEN c ELSE Parts(s[j + 1].config)[s[j + 1].at + 1]
      BY <1>2, <3>1 DEF Nested
    <3>4. CASE j = Len(s)
      BY <3>1, <3>2, <3>3, <3>4
    <3>5. CASE j # Len(s)
      <4>1. j + 1 \in 1..Len(s)
        BY <1>2, <3>1, <3>5
      <4>2. t[i + 1] = s[j + 1]
        BY <1>1, <3>1, <4>1
      <4>3. QED
        BY <3>1, <3>2, <3>3, <3>5, <4>2
    <3>6. QED
      BY <3>4, <3>5
  <2>3. QED
    BY <2>1, <2>2
<1>4. Nested(t, c)
  BY <1>3 DEF Nested
<1>5. QED
  BY <1>4 DEF t

LEMMA NestedTail ==
    ASSUME NEW s \in Seq(Frame), NEW c, Nested(s, c), s # <<>>
    PROVE  /\ Nested(Tail(s), c)
           /\ Partial(s[1])
           /\ s[1].config = IF Len(Tail(s)) = 0 THEN c
                            ELSE Parts(Tail(s)[1].config)[Tail(s)[1].at + 1]
<1> DEFINE t == Tail(s)
<1>1. /\ t \in Seq(Frame) /\ Len(t) = Len(s) - 1
      /\ \A i \in 1..Len(t) : t[i] = s[i + 1]
  BY HeadTailProperties
<1>2. Len(s) \in Nat /\ Len(s) # 0 /\ DOMAIN s = 1..Len(s) /\ DOMAIN t = 1..Len(t) /\ Len(t) \in Nat
  BY <1>1
<1> HIDE DEF t
<1>3. ASSUME NEW i \in DOMAIN t
      PROVE  /\ Partial(t[i])
             /\ t[i].config = IF i = Len(t) THEN c ELSE Parts(t[i + 1].config)[t[i + 1].at + 1]
  <2> DEFINE j == i + 1
  <2>1. j \in 1..Len(s) /\ (i = Len(t) <=> j = Len(s)) /\ t[i] = s[j]
    BY <1>1, <1>2
  <2>2. /\ Partial(s[j])
        /\ s[j].config = IF j = Len(s) THEN c ELSE Parts(s[j + 1].config)[s[j + 1].at + 1]
    <3> HIDE DEF j
    <3>1. QED
      BY <1>2, <2>1 DEF Nested
  <2>3. CASE i = Len(t)
    <3> HIDE DEF j
    <3>1. QED
      BY <2>1, <2>2, <2>3
  <2>4. CASE i # Len(t)
    <3>1. j \in 1..Len(t)
      BY <1>2, <2>4
    <3>2. t[i + 1] = s[j + 1]
      BY <1>1, <3>1
    <3> HIDE DEF j
    <3>3. QED
      BY <2>1, <2>2, <2>4, <3>2
  <2>5. QED
    BY <2>3, <2>4
<1>4. Nested(t, c)
  BY <1>3 DEF Nested
<1>5. /\ Partial(s[1])
      /\ s[1].config = IF 1 = Len(s) THEN c ELSE Parts(s[1 + 1].config)[s[1 + 1].at + 1]
  <2>1. 1 \in DOMAIN s
    BY <1>2
  <2>2. QED
    BY <2>1 DEF Nested
<1>6. s[1].config = IF Len(t) = 0 THEN c ELSE Parts(t[1].config)[t[1].at + 1]
  <2>1. CASE Len(t) = 0
    BY <1>1, <1>2, <1>5, <2>1
  <2>2. CASE Len(t) # 0
    <3>1. 1 \in 1..Len(t) /\ 1 # Len(s)
      BY <1>1, <1>2, <2>2
    <3>2. t[1] = s[1 + 1]
      BY <1>1, <3>1
    <3>3. QED
      BY <1>5, <2>2, <3>1, <3>2
  <2>3. QED
    BY <2>1, <2>2
<1>7. QED
  BY <1>4, <1>5, <1>6 DEF t

(***************************************************************************)
(* A call starts with none of its parts.                                   *)
(***************************************************************************)
LEMMA CallPartial ==
    ASSUME file \in Files, NEW c \in Patterns
    PROVE  Partial(Call(c)) /\ Call(c).config = c
<1>1. Call(c).config = c
  BY DEF Call
<1>2. ASSUME Composite(c)
      PROVE  /\ 0 <= Len(Parts(c))
             /\ Matches(<<>>, Joined(Granularity, c, FirstParts(c, 0)))
  <2> DEFINE e == FirstParts(c, 0)
  <2>1. Len(Parts(c)) \in Nat /\ e \in Seq(Figures) /\ Len(e) = 0
    BY <1>2, PartsDue
  <2>2. e = <<>>
    <3> HIDE DEF e
    <3>1. QED
      BY <2>1
  <2>3. Joined(Granularity, c, <<>>) = Expectation(0, 0, 0, 0)
    <3>1. /\ [i \in DOMAIN <<>> |-> <<>>[i].length] = <<>>
          /\ [i \in DOMAIN <<>> |-> <<>>[i].low] = <<>>
          /\ [i \in DOMAIN <<>> |-> <<>>[i].high] = <<>>
          /\ [i \in DOMAIN <<>> |-> <<>>[i].most] = <<>>
          /\ EndsOf(Granularity, c, <<>>) = <<>>
      BY DEF EndsOf
    <3>2. Total(<<>>) = 0
      <4>1. <<>> \in Seq(Int) /\ Len(<<>>) = 0
        OBVIOUS
      <4>2. QED
        BY <4>1, TotalType
    <3>3. Most(<<>>) = 0
      <4>1. {0} \cup ToSet(<<>>) = {0}
        BY DEF ToSet
      <4>2. QED
        BY <4>1, MostOfNone DEF Most
    <3>4. Joined(Granularity, c, <<>>) =
            IF c.type = "Sequence"
            THEN Expectation(Total(<<>>), Total(<<>>), Total(<<>>), Most(<<>>))
            ELSE Expectation(Most(EndsOf(Granularity, c, <<>>)), Total(<<>>), Total(<<>>), Total(<<>>))
      BY <3>1 DEF Joined, EndsOf, Start
    <3>5. QED
      BY <3>1, <3>2, <3>3, <3>4
  <2>4. <<>> \in Seq(Int) /\ Len(<<>>) = 0
    OBVIOUS
  <2>5. Matches(<<>>, Expectation(0, 0, 0, 0))
    BY <2>4, NoneMatch
  <2>6. QED
    BY <2>1, <2>2, <2>3, <2>5
<1>3. Composite(c) => Call(c).at = 0 /\ Call(c).row = <<>>
  BY DEF Call, Composite
<1>4. QED
  BY <1>1, <1>2, <1>3 DEF Partial

(***************************************************************************)
(* The list of an accepted file: entries with patterns, of distinct UEs.   *)
(***************************************************************************)
LEMMA ListedType ==
    ASSUME file \in Files, ~IsRejected(file.traffic)
    PROVE  /\ Listed \in Seq(Entries)
           /\ \A i, j \in DOMAIN Listed : Listed[i].ue = Listed[j].ue => i = j
           /\ \A i \in DOMAIN Listed : Listed[i] \in Entries /\ Listed[i].config \in Patterns
<1>1. /\ Listed \in Seq(Entries)
      /\ \A i, j \in DOMAIN Listed : Listed[i].ue = Listed[j].ue => i = j
  BY PatternsAssumption DEF Listed
<1>2. \A i \in DOMAIN Listed : Listed[i] \in Entries
  BY <1>1, ElementOfSeq
<1>3. \A i \in DOMAIN Listed : Listed[i].config \in Patterns
  BY <1>2, PatternsAssumption
<1>4. QED
  BY <1>1, <1>2, <1>3

(***************************************************************************)
(* The row of the first UE that remains is the next one that is done.      *)
(***************************************************************************)
LEMMA RemainingTail ==
    ASSUME file \in Files, ~IsRejected(file.traffic), NEW cs \in Seq(Entries), cs # <<>>,
           NEW t, Remaining(cs, t), NEW row, Matches(row, Due(cs[1].config)),
           NEW u, u = [v \in DOMAIN t \cup {cs[1].ue} |-> IF v = cs[1].ue THEN row ELSE t[v]]
    PROVE  Remaining(Tail(cs), u)
<1> DEFINE L == Listed
           n == Len(cs)
           done == Len(L) - n
           rest == Tail(cs)
<1>1. /\ L \in Seq(Entries) /\ Len(L) \in Nat /\ DOMAIN L = 1..Len(L)
      /\ \A i, j \in DOMAIN L : L[i].ue = L[j].ue => i = j
  BY ListedType
<1>2. n \in Nat /\ n > 0 /\ DOMAIN cs = 1..n /\ 1 \in 1..n
  <2>1. n \in Nat /\ n # 0 /\ DOMAIN cs = 1..n
    OBVIOUS
  <2>2. QED
    BY <2>1
<1>3. /\ rest \in Seq(Entries) /\ Len(rest) = n - 1 /\ DOMAIN rest = 1..(n - 1)
      /\ \A i \in 1..(n - 1) : rest[i] = cs[i + 1]
  BY HeadTailProperties
<1>4. /\ n <= Len(L)
      /\ \A i \in 1..n : cs[i] = L[done + i]
      /\ \A j \in 1..done : L[j].ue \in DOMAIN t /\ Matches(t[L[j].ue], Due(L[j].config))
  BY <1>2 DEF Remaining
<1> HIDE DEF L, n, rest
<1>5. /\ done \in Nat /\ Len(L) - Len(rest) = done + 1 /\ Len(rest) <= Len(L)
      /\ done + 1 \in 1..Len(L)
  BY <1>1, <1>2, <1>3, <1>4
<1> HIDE DEF done
<1>6. cs[1] = L[done + 1]
  BY <1>2, <1>4
<1>7. ASSUME NEW i \in DOMAIN rest PROVE rest[i] = L[done + 1 + i]
  <2>1. i + 1 \in 1..n /\ i \in 1..(n - 1) /\ done + (i + 1) = done + 1 + i
    <3>1. i \in 1..(n - 1)
      BY <1>3
    <3>2. n \in Int /\ i \in Int /\ done \in Int /\ 1 <= i /\ i <= n - 1
      BY <1>2, <1>5, <3>1
    <3>3. QED
      BY <3>1, <3>2
  <2>2. rest[i] = cs[i + 1] /\ cs[i + 1] = L[done + (i + 1)]
    BY <1>3, <1>4, <2>1
  <2>3. QED
    BY <2>1, <2>2
<1>8. ASSUME NEW j \in 1..(done + 1)
      PROVE  L[j].ue \in DOMAIN u /\ Matches(u[L[j].ue], Due(L[j].config))
  <2>1. CASE j = done + 1
    <3>1. cs[1].ue \in DOMAIN u /\ u[cs[1].ue] = row
      OBVIOUS
    <3>2. QED
      BY <1>6, <2>1, <3>1
  <2>2. CASE j # done + 1
    <3>1. j \in 1..done /\ j \in 1..Len(L)
      BY <1>1, <1>5, <2>2
    <3>2. L[j].ue # cs[1].ue
      BY <1>1, <1>5, <1>6, <2>2, <3>1
    <3>3. L[j].ue \in DOMAIN t /\ Matches(t[L[j].ue], Due(L[j].config))
      BY <1>4, <3>1
    <3>4. L[j].ue \in DOMAIN u /\ u[L[j].ue] = t[L[j].ue]
      BY <3>2, <3>3
    <3>5. QED
      BY <3>3, <3>4
  <2>3. QED
    BY <2>1, <2>2
<1> DEFINE next == Len(L) - Len(rest)
<1>9. next = done + 1
  BY <1>5
<1> HIDE DEF next
<1>10. /\ Len(rest) <= Len(L)
       /\ \A i \in DOMAIN rest : rest[i] = L[next + i]
       /\ \A j \in 1..next : L[j].ue \in DOMAIN u /\ Matches(u[L[j].ue], Due(L[j].config))
  BY <1>5, <1>7, <1>8, <1>9
<1>11. QED
  BY <1>10 DEF Remaining, L, rest, next

(***************************************************************************)
(* A row that is as it should be is so for the caller and the UE, too.     *)
(***************************************************************************)
LEMMA ReturnKeepsRows ==
    ASSUME FramesInv, RowsInv, planPhase = "generate", stack # <<>>, NEW row \in Seq(Number),
           Return(row), Matches(row, Due(Inmost.config)), UNCHANGED <<file, planPhase>>
    PROVE  RowsInv'
<1> DEFINE callers == Tail(stack)
           c == configs[1].config
<1>1. /\ stack \in Seq(Frame) /\ configs \in Seq(Entries) /\ configs # <<>> /\ file \in Files
  BY DEF FramesInv
<1>2. /\ ~IsRejected(file.traffic) /\ Remaining(configs, traffic) /\ Nested(stack, c)
  BY DEF RowsInv
<1>3. Inmost = stack[1]
  BY InmostType
<1>4. /\ callers \in Seq(Frame)
      /\ Nested(callers, c)
      /\ Inmost.config = IF Len(callers) = 0 THEN c
                         ELSE Parts(callers[1].config)[callers[1].at + 1]
  <2>1. callers \in Seq(Frame)
    BY <1>1, HeadTailProperties
  <2> HIDE DEF c
  <2>2. QED
    BY <1>1, <1>2, <1>3, <2>1, NestedTail
<1> SUFFICES /\ Remaining(configs', traffic')
             /\ Nested(stack', configs'[1].config)
  BY <1>2, RowsInvPrimed
<1>5. CASE callers = <<>>
  <2>1. /\ traffic' = [u \in DOMAIN traffic \cup {configs[1].ue} |->
                          IF u = configs[1].ue THEN row ELSE traffic[u]]
        /\ configs' = Tail(configs)
        /\ stack' = <<>>
    BY <1>5 DEF Return
  <2>2. Inmost.config = c
    BY <1>4, <1>5
  <2>3. Remaining(configs', traffic')
    <3> SUFFICES ASSUME NEW t, t = traffic' PROVE Remaining(Tail(configs), t)
      BY <2>1
    <3>1. Matches(row, Due(configs[1].config))
      BY <2>2
    <3>2. QED
      BY <1>1, <1>2, <2>1, <3>1, RemainingTail
  <2>4. QED
    BY <2>1, <2>3, NestedNone
<1>6. CASE callers # <<>>
  <2> DEFINE f == Head(callers)
             g == Received(f, row)
             rest == Tail(callers)
  <2>1. stack' = <<g>> \o rest /\ UNCHANGED <<traffic, configs>>
    BY <1>6 DEF Return
  <2>2. /\ f = callers[1] /\ f \in Frame /\ rest \in Seq(Frame) /\ Len(callers) \in Nat
        /\ Len(callers) # 0
    <3> HIDE DEF callers
    <3>1. callers \in Seq(Frame) /\ callers # <<>>
      BY <1>4, <1>6
    <3>2. Len(callers) \in Nat /\ Len(callers) # 0
      BY <3>1
    <3>3. QED
      BY <3>1, <3>2, HeadTailProperties
  <2>3. Composite(f.config) /\ f.at < Len(Parts(f.config))
    <3>1. Len(stack) \in Nat \ {0} /\ Len(callers) = Len(stack) - 1 /\ callers[1] = stack[2]
          /\ DOMAIN stack = 1..Len(stack)
      <4>1. Len(stack) \in Nat /\ Len(callers) = Len(stack) - 1 /\ DOMAIN stack = 1..Len(stack)
        BY <1>1, HeadTailProperties
      <4>2. 1 \in 1..Len(callers)
        BY <2>2
      <4>3. callers[1] = stack[1 + 1]
        BY <1>1, <4>2, HeadTailProperties
      <4>4. QED
        BY <2>2, <4>1, <4>3
    <3>2. 2 \in DOMAIN stack /\ 2 > 1
      BY <2>2, <3>1
    <3>3. f = stack[2]
      BY <2>2, <3>1
    <3>4. QED
      BY <3>2, <3>3 DEF FramesInv
  <2>4. /\ Nested(rest, c) /\ Partial(f)
        /\ f.config = IF Len(rest) = 0 THEN c ELSE Parts(rest[1].config)[rest[1].at + 1]
    <3> HIDE DEF c, callers
    <3>1. QED
      BY <1>4, <1>6, <2>2, NestedTail
  <2>5. Inmost.config = Parts(f.config)[f.at + 1]
    BY <1>4, <2>2
  <2> HIDE DEF f, rest, c, callers
  <2>6. g \in Frame /\ g.config = f.config
    BY <1>1, <2>2, <2>3, ReceivedType
  <2>7. /\ g.at = f.at + 1
        /\ Matches(g.row, Joined(Granularity, f.config, FirstParts(f.config, f.at + 1)))
    <3>1. Matches(f.row, Joined(Granularity, f.config, FirstParts(f.config, f.at)))
      BY <2>3, <2>4 DEF Partial
    <3>2. Matches(row, Due(Parts(f.config)[f.at + 1]))
      BY <2>5
    <3>3. QED
      BY <1>1, <2>2, <2>3, <3>1, <3>2, ReceivedMatches
  <2> HIDE DEF g
  <2>8. Partial(g)
    <3>1. f.at \in Nat /\ f.config \in Patterns
      BY <2>2 DEF Frame
    <3>2. Len(Parts(f.config)) \in Nat
      BY <2>3, <3>1, PartsType
    <3>3. f.at + 1 <= Len(Parts(f.config))
      BY <2>3, <3>1, <3>2
    <3>4. QED
      BY <2>6, <2>7, <3>3 DEF Partial
  <2>9. Nested(<<g>> \o rest, c)
    BY <2>2, <2>4, <2>6, <2>8, NestedPush
  <2>10. QED
    BY <1>2, <2>1, <2>9 DEF c
<1>7. QED
  BY <1>5, <1>6

(***************************************************************************)
(* A packet changes a frame that has no parts.                             *)
(***************************************************************************)
LEMMA PacketKeepsNested ==
    ASSUME FramesInv, PeriodicPacket, NEW c, Nested(stack, c), file' = file
    PROVE  Nested(stack', c)
<1> DEFINE idx == Inmost.at \div Granularity + 1
<1>1. /\ stack' \in Seq(Frame) /\ Len(stack') = Len(stack) /\ stack' # <<>>
      /\ \A i \in DOMAIN stack : i > 1 => stack'[i] = stack[i]
      /\ Inmost'.config = Inmost.config
  <2> SUFFICES ASSUME NEW j, j = idx PROVE
         /\ stack' \in Seq(Frame) /\ Len(stack') = Len(stack) /\ stack' # <<>>
         /\ \A i \in DOMAIN stack : i > 1 => stack'[i] = stack[i]
         /\ Inmost'.config = Inmost.config
    OBVIOUS
  <2> QED
    BY PacketStep
<1>2. stack \in Seq(Frame) /\ stack # <<>> /\ Inmost.config.type = "Periodic"
  BY DEF FramesInv, PeriodicPacket, Periodical
<1>3. Inmost = stack[1] /\ Inmost' = stack'[1]
  BY <1>1, <1>2, HeadTailProperties DEF Inmost
<1> DEFINE l == Len(stack)
<1>4. l \in Nat /\ l # 0 /\ DOMAIN stack = 1..l /\ DOMAIN stack' = 1..l /\ 1 \in 1..l
  <2>1. l \in Nat /\ DOMAIN stack = 1..l /\ DOMAIN stack' = 1..l /\ l # 0
    BY <1>1, <1>2
  <2>2. QED
    BY <2>1
<1>5. ~Composite(Inmost.config)
  BY <1>2 DEF Composite
<1> DEFINE s == stack'
<1>6. \A i \in 1..l : i # 1 => s[i] = stack[i]
  BY <1>1, <1>4
<1>7. s[1].config = stack[1].config /\ Partial(s[1])
  BY <1>1, <1>3, <1>5 DEF Partial
<1> HIDE DEF l, s
<1>8. \A i \in 1..l :
         /\ Partial(stack[i])
         /\ stack[i].config =
               IF i = l THEN c ELSE Parts(stack[i + 1].config)[stack[i + 1].at + 1]
  BY <1>4 DEF Nested, l
<1>9. ASSUME NEW i \in 1..l
      PROVE  /\ Partial(s[i])
             /\ s[i].config = IF i = l THEN c ELSE Parts(s[i + 1].config)[s[i + 1].at + 1]
  <2>1. Partial(s[i]) /\ s[i].config = stack[i].config
    <3>1. CASE i = 1
      BY <1>7, <3>1
    <3>2. CASE i # 1
      BY <1>6, <1>8, <3>2
    <3>3. QED
      BY <3>1, <3>2
  <2>2. ASSUME i # l PROVE s[i + 1] = stack[i + 1]
    <3>1. i + 1 \in 1..l /\ i + 1 # 1
      BY <1>4, <2>2
    <3>2. QED
      BY <1>6, <3>1
  <2>3. QED
    BY <1>8, <2>1, <2>2
<1>10. Nested(s, c)
  <2>1. DOMAIN s = 1..l /\ Len(s) = l
    BY <1>1, <1>4 DEF s, l
  <2>2. QED
    BY <1>9, <2>1 DEF Nested
<1>11. QED
  BY <1>10 DEF s

(***************************************************************************)
(* Each step keeps the rows as they should be.                             *)
(***************************************************************************)
LEMMA RowsStep ==
    ASSUME PlanInv, RowsInv, [Next]_vars
    PROVE  RowsInv'
<1>1. FramesInv /\ PeriodicInv
  BY DEF PlanInv
<1>2. file' = file /\ file \in Files
  <2>1. file' = file
    BY DEF Next, vars, planVars, Plan, PlanNext, Load, Generate, NextUE, GeneratePart, ReturnParts,
       ReturnRow, PeriodicPacket, ReturnPeriodic, Planned, Abandon, Run
  <2>2. QED
    BY <1>1, <2>1 DEF FramesInv
<1> DEFINE c == configs[1].config
<1>3. CASE Load
  <2>1. CASE IsRejected(file.traffic)
    <3>1. planPhase' = "failed"
      BY <1>3, <2>1 DEF Load
    <3>2. QED
      BY <1>2, <3>1, RowsInvPrimed
  <2>2. CASE ~IsRejected(file.traffic)
    <3>1. planPhase' = "generate" /\ configs' = Listed /\ UNCHANGED stack /\ stack = <<>>
      BY <1>1, <1>3, <2>2 DEF Load, FramesInv, Listed
    <3>2. Listed \in Seq(Entries)
      BY <1>2, <2>2, ListedType
    <3>3. Remaining(Listed, traffic')
      <4>1. Len(Listed) \in Nat /\ Len(Listed) - Len(Listed) = 0 /\ Len(Listed) <= Len(Listed)
        BY <3>2
      <4>2. \A i \in DOMAIN Listed : Listed[i] = Listed[0 + i]
        <5>1. \A i \in DOMAIN Listed : 0 + i = i
          BY <3>2
        <5>2. QED
          BY <5>1
      <4>3. 1..0 = {}
        OBVIOUS
      <4>4. QED
        BY <4>1, <4>2, <4>3 DEF Remaining
    <3>4. QED
      BY <1>2, <2>2, <3>1, <3>3, NestedNone, RowsInvPrimed
  <2>3. QED
    BY <2>1, <2>2
<1>4. CASE NextUE
  <2>1. planPhase = "generate" /\ configs # <<>> /\ stack = <<>> /\ UNCHANGED <<configs, traffic>>
    BY <1>4 DEF NextUE
  <2>2. CASE CallRaises(c)
    <3>1. planPhase' = "failed"
      BY <1>4, <2>2 DEF NextUE
    <3>2. QED
      BY <1>2, <3>1, RowsInvPrimed
  <2>3. CASE ~CallRaises(c)
    <3>1. stack' = <<Call(c)>> /\ UNCHANGED planPhase
      BY <1>4, <2>3 DEF NextUE
    <3>2. c \in Patterns
      <4>1. configs[1] \in Entries
        BY <1>1, <2>1, ElementOfSeq DEF FramesInv
      <4>2. QED
        BY <4>1, PatternsAssumption
    <3> HIDE DEF c
    <3>3. Call(c) \in Frame /\ Partial(Call(c)) /\ Call(c).config = c
      BY <1>2, <3>2, CallType, CallPartial
    <3>4. Nested(<<Call(c)>> \o <<>>, c)
      <4>1. <<>> \in Seq(Frame) /\ Len(<<>>) = 0
        OBVIOUS
      <4>2. QED
        BY <3>3, <4>1, NestedNone, NestedPush
    <3>5. <<Call(c)>> \o <<>> = <<Call(c)>>
      OBVIOUS
    <3>6. ~IsRejected(file.traffic) /\ Remaining(configs, traffic)
      BY <2>1 DEF RowsInv
    <3>7. QED
      BY <1>2, <2>1, <3>1, <3>4, <3>5, <3>6, RowsInvPrimed DEF c
  <2>4. QED
    BY <2>2, <2>3
<1>5. CASE GeneratePart
  <2> DEFINE f == Inmost
             part == Parts(f.config)[f.at + 1]
  <2>1. /\ planPhase = "generate" /\ stack # <<>> /\ UNCHANGED <<configs, traffic>>
        /\ Composite(f.config) /\ f.at < Len(Parts(f.config))
    BY <1>5 DEF GeneratePart
  <2>2. CASE CallRaises(part)
    <3>1. planPhase' = "failed"
      BY <1>5, <2>2 DEF GeneratePart
    <3>2. QED
      BY <1>2, <3>1, RowsInvPrimed
  <2>3. CASE ~CallRaises(part)
    <3>1. stack' = <<Call(part)>> \o stack /\ UNCHANGED planPhase
      BY <1>5, <2>3 DEF GeneratePart
    <3>2. f \in Frame /\ f = stack[1] /\ Len(stack) # 0 /\ stack \in Seq(Frame)
      BY <1>1, <2>1, InmostType DEF FramesInv
    <3>3. part \in Patterns
      <4>1. f.config \in Patterns /\ f.at \in Nat
        BY <3>2 DEF Frame
      <4>2. Parts(f.config) \in Seq(Patterns)
        BY <2>1, <4>1, PartsType
      <4>3. f.at + 1 \in 1..Len(Parts(f.config))
        BY <2>1, <4>1, <4>2
      <4>4. QED
        BY <4>2, <4>3, ElementOfSeq
    <3>4. part = Parts(stack[1].config)[stack[1].at + 1]
      BY <3>2
    <3> HIDE DEF part, f, c
    <3>5. Call(part) \in Frame /\ Partial(Call(part)) /\ Call(part).config = part
      BY <1>2, <3>3, CallType, CallPartial
    <3>6. ~IsRejected(file.traffic) /\ Remaining(configs, traffic) /\ Nested(stack, c)
      BY <2>1 DEF RowsInv, c
    <3>7. Nested(stack', c)
      BY <3>1, <3>2, <3>4, <3>5, <3>6, NestedPush
    <3>8. QED
      BY <1>2, <2>1, <3>1, <3>6, <3>7, RowsInvPrimed DEF c
  <2>4. QED
    BY <2>2, <2>3
<1>6. ASSUME planPhase = "generate", stack # <<>>, NEW row \in Seq(Number), Return(row),
             UNCHANGED planPhase, Matches(row, Due(Inmost.config))
      PROVE  RowsInv'
  BY <1>1, <1>2, <1>6, ReturnKeepsRows
<1>7. ASSUME stack # <<>>
      PROVE  Inmost \in Frame /\ Inmost.config \in Patterns /\ Inmost.row \in Seq(Number)
  BY <1>1, <1>7, InmostType DEF Frame
<1>8. CASE ReturnParts
  <2>1. /\ planPhase = "generate" /\ stack # <<>> /\ Return(Inmost.row) /\ UNCHANGED planPhase
        /\ Composite(Inmost.config) /\ Inmost.at = Len(Parts(Inmost.config))
    BY <1>8 DEF ReturnParts
  <2>2. Partial(Inmost)
    <3>1. Nested(stack, c) /\ stack \in Seq(Frame)
      BY <1>1, <2>1 DEF RowsInv, FramesInv
    <3> HIDE DEF c
    <3>2. Partial(stack[1])
      BY <2>1, <3>1, NestedTail
    <3>3. QED
      BY <1>1, <2>1, <3>2, InmostType
  <2>3. Matches(Inmost.row, Due(Inmost.config))
    <3> SUFFICES ASSUME NEW d \in Patterns, d = Inmost.config, NEW l, l = Len(Parts(d))
                 PROVE  Matches(Inmost.row, Due(d))
      BY <1>7, <2>1
    <3>1. Matches(Inmost.row, Joined(Granularity, d, FirstParts(d, l)))
      BY <2>1, <2>2 DEF Partial
    <3>2. QED
      BY <1>2, <2>1, <3>1, PartsDue
  <2>4. QED
    BY <1>6, <1>7, <2>1, <2>3
<1>9. CASE ReturnRow
  <2>1. /\ planPhase = "generate" /\ stack # <<>> /\ UNCHANGED planPhase
        /\ ~Composite(Inmost.config) /\ Inmost.config.type # "Periodic"
    BY <1>9 DEF ReturnRow
  <2>2. PICK row \in Rows(Inmost.config) : Return(row)
    BY <1>9 DEF ReturnRow
  <2>3. row \in Seq(Number)
    BY <1>2, <1>7, <2>1, <2>2, RowsType
  <2>4. Matches(row, Due(Inmost.config))
    BY <1>2, <1>7, <2>1, <2>2, RowsMatch, DueType
  <2>5. QED
    BY <1>6, <2>1, <2>2, <2>3, <2>4
<1>10. CASE PeriodicPacket
  <2>1. UNCHANGED <<configs, traffic, planPhase>> /\ planPhase = "generate"
    BY <1>10 DEF PeriodicPacket, Periodical
  <2>2. ~IsRejected(file.traffic) /\ Remaining(configs, traffic) /\ Nested(stack, c)
    BY <2>1 DEF RowsInv
  <2>3. Nested(stack', c)
    <3> HIDE DEF c
    <3>1. QED
      BY <1>1, <1>2, <1>10, <2>2, PacketKeepsNested
  <2>4. QED
    BY <1>2, <2>1, <2>2, <2>3, RowsInvPrimed
<1>11. CASE ReturnPeriodic
  <2>1. /\ planPhase = "generate" /\ stack # <<>> /\ Return(Inmost.row) /\ UNCHANGED planPhase
        /\ Inmost.config.type = "Periodic" /\ Inmost.at >= Inmost.config.duration
    BY <1>11 DEF ReturnPeriodic, Periodical
  <2>2. Matches(Inmost.row, Due(Inmost.config))
    <3> DEFINE d == Inmost.config
               row == Inmost.row
    <3>1. d \in Patterns /\ row \in Seq(Number)
      BY <1>7, <2>1
    <3>2. Granularity > 0 /\ Len(row) = Slots(d.duration)
      BY <1>1, <2>1 DEF PeriodicInv, SentSoFar
    <3>3. \A i \in DOMAIN row :
             row[i] = Wrap(d.packet_size * PacketsIn(d, (i - 1) * Granularity, i * Granularity))
      BY <2>1, PeriodicAtEnd DEF PeriodicIsExact
    <3>4. d.type = "Periodic" /\ ~Composite(d)
      BY <2>1 DEF Composite
    <3> HIDE DEF d, row
    <3>5. Matches(row, Single(Granularity, d))
      BY <1>2, <3>1, <3>2, <3>3, <3>4, PeriodicMatches
    <3>6. QED
      BY <1>2, <3>1, <3>4, <3>5, DueType DEF d, row
  <2>3. QED
    BY <1>6, <1>7, <2>1, <2>2
<1>12. CASE Planned
  <2>1. /\ planPhase = "generate" /\ planPhase' = "ready" /\ configs = <<>>
        /\ UNCHANGED <<configs, traffic>>
    BY <1>12 DEF Planned
  <2>2. ~IsRejected(file.traffic) /\ Remaining(configs, traffic)
    BY <2>1 DEF RowsInv
  <2>3. QED
    BY <1>2, <2>1, <2>2, RowsInvPrimed
<1>13. CASE Abandon
  <2>1. planPhase' = "failed"
    BY <1>13 DEF Abandon
  <2>2. QED
    BY <1>2, <2>1, RowsInvPrimed
<1>14. CASE UNCHANGED planVars
  <2>1. UNCHANGED <<file, configs, stack, traffic, planPhase>>
    BY <1>14 DEF planVars
  <2>2. QED
    BY <1>2, <2>1, RowsInvPrimed DEF RowsInv
<1>15. \/ PlanNext \/ Abandon \/ UNCHANGED planVars
  BY DEF Next, Plan, Run, vars
<1>16. QED
  BY <1>3, <1>4, <1>5, <1>8, <1>9, <1>10, <1>11, <1>12, <1>13, <1>14, <1>15 DEF PlanNext, Generate

-----------------------------------------------------------------------------
(* Theorems *)

(***************************************************************************)
(* The invariant holds for all files, patterns and granularities: frames   *)
(* are typed, calls are nested in sequences and overlaps only, and the row *)
(* of a periodic pattern holds the packets of the time that has passed.    *)
(***************************************************************************)
THEOREM PlanInvariance == Spec => []PlanInv
<1>1. Init => PlanInv
  <2>1. Init => FramesInv
    BY FramesInit DEF Init
  <2>2. Init => PeriodicInv
    BY DEF Init, PlanInit, PeriodicInv
  <2>3. QED
    BY <2>1, <2>2 DEF PlanInv
<1>2. PlanInv /\ [Next]_vars => PlanInv'
  BY FramesStep, PeriodicStep DEF PlanInv
<1>3. QED
  BY <1>1, <1>2, PTL DEF Spec

(***************************************************************************)
(* The whole program implements the executor's specification: what the     *)
(* generator hands over is a row of integers for each UE.                  *)
(***************************************************************************)
THEOREM ExecutorImplemented == Spec => ExecSpec
<1>1. Init => ExecInit
  BY DEF Init
<1>2. FramesInv /\ [Next]_vars => [ExecNext]_execVars
  <2> SUFFICES ASSUME FramesInv, [Next]_vars PROVE [ExecNext]_execVars
    OBVIOUS
  <2>1. CASE Run
    <3>1. Execute(traffic)
      BY <2>1 DEF Run
    <3>2. traffic \in [DOMAIN traffic -> Seq(Int)]
      <4>1. traffic \in [DOMAIN traffic -> Seq(Number)]
        BY DEF FramesInv
      <4>2. \A s \in Seq(Number) : s \in Seq(Int)
        BY NumberFacts, SeqMonotonic
      <4>3. QED
        BY <4>1, <4>2
    <3>3. QED
      BY <3>1, <3>2 DEF ExecNext
  <2>2. CASE ExecStep
    BY <2>2 DEF ExecNext
  <2>3. CASE UNCHANGED execVars
    BY <2>3
  <2>4. Run \/ ExecStep \/ UNCHANGED execVars
    BY DEF Next, vars, Plan, Abandon
  <2>5. QED
    BY <2>1, <2>2, <2>3, <2>4
<1>3. PlanInv => FramesInv
  BY DEF PlanInv
<1>4. QED
  BY <1>1, <1>2, <1>3, PlanInvariance, PTL DEF Spec, ExecSpec

(***************************************************************************)
(* TypeOK: a slot holds a 64-bit integer, for every plan, and the executor *)
(* keeps its types.                                                        *)
(***************************************************************************)
THEOREM TypeCorrect == Spec => []TypeOK
<1>1. PlanInv /\ ExecTypeOK => TypeOK
  <2> SUFFICES ASSUME PlanInv, ExecTypeOK PROVE TypeOK
    OBVIOUS
  <2>1. \A u \in DOMAIN traffic : traffic[u] \in Seq((-MaxInt - 1)..MaxInt)
    BY DEF PlanInv, FramesInv, Number
  <2>2. QED
    BY <2>1 DEF PlanInv, FramesInv, TypeOK
<1>2. QED
  BY <1>1, PlanInvariance, ExecutorImplemented, ExecTypeCorrect, PTL

(***************************************************************************)
(* PeriodicIsExact: when the loop of a periodic pattern ends, each slot    *)
(* holds the packets whose time falls into it, for all sizes, intervals,   *)
(* durations and granularities, up to the wrapping of 64-bit integers.     *)
(***************************************************************************)
THEOREM PeriodicExact == Spec => []PeriodicIsExact
BY PeriodicAtEnd, PlanInvariance, PTL

(***************************************************************************)
(* PlanIsAsConfigured: the plan that the executor takes over has, for each *)
(* UE, a row as long as its patterns and, unless a slot could overflow or  *)
(* the weights of a distribution have no sum, with all their bytes, for    *)
(* all files, however deep they are nested.                                *)
(***************************************************************************)
THEOREM PlanConfigured == Spec => []PlanIsAsConfigured
<1>1. Init => RowsInv
  BY DEF Init, PlanInit, RowsInv
<1>2. PlanInv /\ RowsInv /\ [Next]_vars => RowsInv'
  BY RowsStep
<1>3. PlanInv /\ RowsInv => PlanIsAsConfigured
  <2> SUFFICES ASSUME PlanInv, RowsInv, planPhase = "ready", NEW e \in ToSet(TrafficConfig(file.traffic))
               PROVE  LET x == Expectations[file][e.config]
                      IN  /\ e.ue \in DOMAIN traffic
                          /\ Len(traffic[e.ue]) = x.length
                          /\ x.most <= MaxInt => Total(traffic[e.ue]) \in x.low..x.high
    BY DEF PlanIsAsConfigured
  <2>1. file \in Files /\ traffic \in [DOMAIN traffic -> Seq(Number)]
    BY DEF PlanInv, FramesInv
  <2>2. ~IsRejected(file.traffic) /\ Remaining(<<>>, traffic)
    BY DEF RowsInv
  <2>3. Listed \in Seq(Entries) /\ \A i \in DOMAIN Listed : Listed[i].config \in Patterns
    BY <2>1, <2>2, ListedType
  <2>4. \A j \in 1..Len(Listed) : /\ Listed[j].ue \in DOMAIN traffic
                                  /\ Matches(traffic[Listed[j].ue], Due(Listed[j].config))
    <3>1. Len(Listed) \in Nat /\ Len(Listed) - 0 = Len(Listed) /\ Len(<<>>) = 0
      BY <2>3
    <3>2. QED
      BY <2>2, <3>1 DEF Remaining
  <2>5. PICK j \in 1..Len(Listed) : e = Listed[j]
    BY <2>3 DEF ToSet, Listed
  <2>6. e.config \in Patterns /\ e.ue \in DOMAIN traffic /\ Matches(traffic[e.ue], Due(e.config))
    BY <2>3, <2>4, <2>5
  <2> DEFINE x == Due(e.config)
             row == traffic[e.ue]
  <2>7. Expectations[file][e.config] = x
    BY <2>1, <2>6 DEF Expectations, Due, Granularity
  <2>8. x \in Figures /\ row \in Seq(Int)
    BY <2>1, <2>6, DueType, RowIsInt
  <2> HIDE DEF x, row
  <2>9. x.low \in Int /\ x.high \in Int /\ Total(row) \in Int
    BY <2>8, TotalType DEF Figures
  <2>10. Len(row) = x.length /\ (x.most <= MaxInt => x.low <= Total(row) /\ Total(row) <= x.high)
    BY <2>6 DEF Matches, x, row
  <2>11. QED
    BY <2>6, <2>7, <2>9, <2>10 DEF row
<1>4. QED
  BY <1>1, <1>2, <1>3, PlanInvariance, PTL DEF Spec

(***************************************************************************)
(* The executor's guarantees, CleanShutdown and ReportsAreOwn, hold in the *)
(* whole program, whatever the plan.                                       *)
(***************************************************************************)
THEOREM ExecutorSafe == Spec => [](CleanShutdown /\ ReportsAreOwn)
BY ExecutorImplemented, ShutdownIsClean, AnswersAreOwn, PTL

=============================================================================
