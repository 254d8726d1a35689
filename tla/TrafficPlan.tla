----------------------------- MODULE TrafficPlan -----------------------------
(***************************************************************************)
(* From a traffic configuration to a plan: the generator                   *)
(* (traffic_plan_generator.py) turns the configuration of a UE into a row, *)
(* the number of bytes of each time slot.  The recursion of the generator  *)
(* is a stack of frames, so that a loop that never ends is a behaviour     *)
(* that never ends.  What the parser makes of a file is a parameter here   *)
(* and defined in TrafficParser.                                           *)
(***************************************************************************)
EXTENDS TrafficUtils, SequencesExt, FiniteSetsExt

CONSTANTS
    Files,             \* the traffic files a user may write
    TrafficConfig(_),  \* what load_yaml returns for the traffic section of a file,
    IsRejected(_),     \* and whether it raises instead
    Patterns,          \* the configurations there are, with their parts,
    Depth(_),          \* and how deep they are nested
    MaxInt,            \* bound: the largest number of a slot (2^63 - 1 in the code)
    MaxWeight          \* bound: the largest weight of a slot in a distribution

Number  == (-MaxInt - 1)..MaxInt
Entries == UNION {ToSet(TrafficConfig(f.traffic)) : f \in {g \in Files : ~IsRejected(g.traffic)}}

Composite(c) == c.type \in {"Sequence", "Overlap"}

Parts(c) == IF c.type = "Sequence" THEN c.sequence
            ELSE [i \in DOMAIN c.overlaps |-> c.overlaps[i].config]

(***************************************************************************)
(* Times are not negative.  Sizes fit into a slot: NumPy raises for others *)
(* (or, in a distribution, computes with floats).  A file is nested        *)
(* finitely deep, and its UEs are the keys of a dictionary.  Of mean,      *)
(* variance and lambda only what they do to the weights is told apart.     *)
(***************************************************************************)
IsPattern(c) ==
    CASE c.type = "Sequence"    -> c.sequence \in Seq(Patterns)
      [] c.type = "Overlap"     -> c.overlaps \in Seq([offset : Nat, config : Patterns])
      [] c.type = "Pause"       -> c.duration \in Nat
      [] c.type = "Periodic"    -> c.duration \in Nat /\ c.interval \in Nat /\ c.packet_size \in Number
      [] c.type = "Random"      -> c.duration \in Nat /\ c.min_size \in Number /\ c.max_size \in Number
      [] c.type = "Distributed" ->
            /\ c.duration \in Nat /\ c.cumulative_size \in Number \ {MaxInt}
            /\ c.variance \in Int /\ c.extreme \in BOOLEAN
      [] OTHER -> TRUE

ASSUME PatternsAssumption ==
    /\ MaxInt \in Nat \ {0} /\ MaxWeight \in Nat \ {0}
    /\ \A c \in Patterns : IsPattern(c) /\ Depth(c) \in Nat
    /\ \A c \in Patterns :
          Composite(c) => \A i \in DOMAIN Parts(c) : Depth(Parts(c)[i]) < Depth(c)
    /\ \A e \in Entries : e.config \in Patterns
    /\ \A f \in Files :
          /\ parse_time(f.granularity) \in Nat
          /\ ~IsRejected(f.traffic) =>
                LET listed == TrafficConfig(f.traffic)
                IN  /\ listed \in Seq(Entries)
                    /\ \A i, j \in DOMAIN listed : listed[i].ue = listed[j].ue => i = j

VARIABLES
    file,      \* the file that is loaded
    configs,   \* what the parser made of it: UEs with a sequence, in order
    stack,     \* the calls of __generate_traffic that are under way, inmost first
    traffic,   \* the rows of the UEs that are done
    planPhase  \* "load", "generate", "ready" or "failed"

planVars == <<file, configs, stack, traffic, planPhase>>

-----------------------------------------------------------------------------
(* Rows *)

Granularity == parse_time(file.granularity)

\* Dividing by a granularity of zero raises, see CallRaises.
Slots(duration) == IF Granularity = 0 THEN 0 ELSE duration \div Granularity

Zeros(n) == [i \in 1..n |-> 0]
Sums(row)  == LET sum[n \in 0..Len(row)] == IF n = 0 THEN 0 ELSE sum[n - 1] + row[n] IN sum
Total(row) == Sums(row)[Len(row)]

\* The entries of a row are 64-bit integers, which wrap around.
Wrap(x) == ((x + MaxInt + 1) % (2 * (MaxInt + 1))) - (MaxInt + 1)

\* __overlap_traffic: both rows are padded with zeros, then added.
Overlapped(old, new, offset) ==
    LET size == Max({Len(old), offset + Len(new)})
        At(row, i) == IF i \in DOMAIN row THEN row[i] ELSE 0
    IN  [i \in 1..size |-> Wrap(At(old, i) + At(new, i - offset))]

(***************************************************************************)
(* The weights of a slot are divided by their sum.  There is none if the   *)
(* variance is negative, for which the deviation is NaN and not "<= 0",    *)
(* or if mean, variance and lambda are so extreme that all weights of the  *)
(* slots underflow to zero, or one overflows.                              *)
(***************************************************************************)
Normalises(c) ==
    CASE c.distribution = "normal-distribution"      -> c.variance > 0 /\ ~c.extreme
      [] c.distribution = "exponential-distribution" -> ~c.extreme
      [] OTHER -> TRUE

\* Finite floats are multiples of a small unit, here up to MaxWeight.
Weights(c) ==
    {w \in [1..Slots(c.duration) -> 0..MaxWeight] :
        /\ Total(w) > 0
        /\ c.distribution = "uniform-distribution" => \A i \in DOMAIN w : w[i] = 1}

(***************************************************************************)
(* The share of a slot is rounded towards zero, and where it should be     *)
(* whole, floats may fall just short of it.                                *)
(***************************************************************************)
Shares(size, w) ==
    {r \in [DOMAIN w -> 0..size] :
        \A i \in DOMAIN w :
           r[i] * Total(w) <= w[i] * size /\ w[i] * size <= (r[i] + 1) * Total(w)}

\* NaN becomes the least integer or zero, depending on the machine.
Cast(c) ==
    LET size == c.cumulative_size
    IN  IF ~Normalises(c) THEN [1..Slots(c.duration) -> {0, -MaxInt - 1}]
        ELSE IF size < 0
        THEN {[i \in DOMAIN r |-> -r[i]] : r \in UNION {Shares(-size, w) : w \in Weights(c)}}
        ELSE UNION {Shares(size, w) : w \in Weights(c)}

\* How many slots get a byte of what is missing; where there is too much, none is above zero.
Missing(size, row) == Max({0, Min({Wrap(size - Wrap(Total(row))), Len(row)})})

\* Mutant of DistributedRows: what rounding leaves is not spread.
DistributedRowsRounded(c) == IF Slots(c.duration) = 0 THEN {<<>>} ELSE Cast(c)

\* What is missing is spread, one byte each, over slots picked at random.
DistributedRows(c) ==
    IF Slots(c.duration) = 0 THEN {<<>>}
    ELSE {[i \in DOMAIN rp[1] |-> IF i \in rp[2] THEN rp[1][i] + 1 ELSE rp[1][i]] :
             rp \in {sp \in Cast(c) \X SUBSET (1..Slots(c.duration)) :
                        Cardinality(sp[2]) = Missing(c.cumulative_size, sp[1])}}

(***************************************************************************)
(* What the calls without a loop of their own return, one of a set where   *)
(* the code draws at random.  A nested pattern of an unknown type is None, *)
(* for which the default handler returns an empty row.                     *)
(***************************************************************************)
Rows(c) ==
    CASE c.type = "Pause" -> {Zeros(Slots(c.duration))}
      [] c.type = "Random" -> [1..Slots(c.duration) -> c.min_size..c.max_size]
      [] c.type = "Distributed" -> DistributedRows(c)
      [] OTHER -> {<<>>}

\* The calls that raise, all before they have changed anything.
CallRaises(c) ==
    \/ c.type \in {"Pause", "Periodic", "Random", "Distributed"} /\ Granularity = 0
    \/ c.type = "Random" /\ Slots(c.duration) > 0 /\ c.min_size > c.max_size
    \/ /\ c.type = "Distributed"
       /\ Slots(c.duration) > 0 /\ c.distribution = "normal-distribution" /\ c.variance = 0
    \/ c.type = "Sequence" /\ c.sequence = <<>>
    \/ c.type = "Overlap" /\ c.overlaps = <<>>

-----------------------------------------------------------------------------
(* Generation *)

Call(c) ==
    [config |-> c, at |-> 0,
     row |-> IF c.type = "Periodic" THEN Zeros(Slots(c.duration)) ELSE <<>>]

\* What the caller does with the row that a call returns.
Received(frame, row) ==
    [frame EXCEPT
        !.at = @ + 1,
        !.row = IF frame.config.type = "Sequence" THEN @ \o row
                ELSE Overlapped(@, row, Slots(frame.config.overlaps[frame.at + 1].offset))]

Inmost == Head(stack)

Return(row) ==
    LET callers == Tail(stack)
    IN  IF callers = <<>>
        THEN /\ traffic' = [u \in DOMAIN traffic \cup {configs[1].ue} |->
                               IF u = configs[1].ue THEN row ELSE traffic[u]]
             /\ configs' = Tail(configs)
             /\ stack' = <<>>
        ELSE /\ stack' = <<Received(Head(callers), row)>> \o Tail(callers)
             /\ UNCHANGED <<traffic, configs>>

PlanInit ==
    /\ file \in Files
    /\ configs = <<>>
    /\ stack = <<>>
    /\ traffic = <<>>
    /\ planPhase = "load"

Load ==
    /\ planPhase = "load"
    /\ IF IsRejected(file.traffic)
       THEN planPhase' = "failed" /\ UNCHANGED configs
       ELSE planPhase' = "generate" /\ configs' = TrafficConfig(file.traffic)
    /\ UNCHANGED <<file, stack, traffic>>

\* from_plan: the parts of a UE are appended like those of a sequence.
NextUE ==
    /\ planPhase = "generate" /\ stack = <<>> /\ configs # <<>>
    /\ IF CallRaises(configs[1].config)
       THEN planPhase' = "failed" /\ UNCHANGED stack
       ELSE stack' = <<Call(configs[1].config)>> /\ UNCHANGED planPhase
    /\ UNCHANGED <<file, configs, traffic>>

GeneratePart ==
    /\ planPhase = "generate" /\ stack # <<>> /\ Composite(Inmost.config)
    /\ Inmost.at < Len(Parts(Inmost.config))
    /\ LET part == Parts(Inmost.config)[Inmost.at + 1]
       IN  IF CallRaises(part)
           THEN planPhase' = "failed" /\ UNCHANGED stack
           ELSE stack' = <<Call(part)>> \o stack /\ UNCHANGED planPhase
    /\ UNCHANGED <<file, configs, traffic>>

ReturnParts ==
    /\ planPhase = "generate" /\ stack # <<>> /\ Composite(Inmost.config)
    /\ Inmost.at = Len(Parts(Inmost.config))
    /\ Return(Inmost.row)
    /\ UNCHANGED <<file, planPhase>>

ReturnRow ==
    /\ planPhase = "generate" /\ stack # <<>>
    /\ ~Composite(Inmost.config) /\ Inmost.config.type # "Periodic"
    /\ \E row \in Rows(Inmost.config) : Return(row)
    /\ UNCHANGED <<file, planPhase>>

Periodical == planPhase = "generate" /\ stack # <<>> /\ Inmost.config.type = "Periodic"

\* Mutant of PeriodicPacket: the second packet of a slot replaces the first.
PeriodicPacketReplaces ==
    /\ Periodical
    /\ Inmost.at < Inmost.config.duration
    /\ LET idx == Inmost.at \div Granularity + 1
       IN  stack' = [stack EXCEPT
              ![1].at = @ + Inmost.config.interval,
              ![1].row = IF idx \in DOMAIN @
                         THEN [@ EXCEPT ![idx] = Inmost.config.packet_size] ELSE @]
    /\ UNCHANGED <<file, configs, traffic, planPhase>>

\* Mutant of PeriodicPacket: the time goes on only with a packet in a slot.
PeriodicPacketWaits ==
    /\ Periodical
    /\ Inmost.at < Inmost.config.duration
    /\ LET idx == Inmost.at \div Granularity + 1
       IN  stack' = IF idx \notin DOMAIN Inmost.row THEN stack
                    ELSE [stack EXCEPT ![1].at = @ + Inmost.config.interval,
                                       ![1].row[idx] = Wrap(@ + Inmost.config.packet_size)]
    /\ UNCHANGED <<file, configs, traffic, planPhase>>

\* A packet that falls into the rest of the duration that fills no slot is dropped.
WithPacket(row, idx, size) ==
    IF idx \in DOMAIN row THEN [row EXCEPT ![idx] = Wrap(@ + size)] ELSE row

\* One packet of a periodic pattern; at is current_time.
PeriodicPacket ==
    /\ Periodical
    /\ Inmost.at < Inmost.config.duration
    /\ LET idx == Inmost.at \div Granularity + 1
           later == [Inmost EXCEPT !.at = @ + Inmost.config.interval,
                                   !.row = WithPacket(@, idx, Inmost.config.packet_size)]
       IN  stack' = [stack EXCEPT ![1] = later]
    /\ UNCHANGED <<file, configs, traffic, planPhase>>

ReturnPeriodic ==
    /\ Periodical
    /\ Inmost.at >= Inmost.config.duration
    /\ Return(Inmost.row)
    /\ UNCHANGED <<file, planPhase>>

Planned ==
    /\ planPhase = "generate" /\ stack = <<>> /\ configs = <<>>
    /\ planPhase' = "ready"
    /\ UNCHANGED <<file, configs, stack, traffic>>

Generate == NextUE \/ GeneratePart \/ ReturnParts \/ ReturnRow \/ PeriodicPacket \/ ReturnPeriodic

PlanNext == Load \/ Generate \/ Planned

=============================================================================
