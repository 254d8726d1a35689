----------------------------- MODULE Trafficker -----------------------------
(***************************************************************************)
(* trafficker.py: the file is parsed, the plan generated, and the executor *)
(* run on the plan.  Whatever is raised on the way ends the program.       *)
(***************************************************************************)
EXTENDS TrafficPlan, TrafficExecutor

vars == <<planVars, execVars>>

Init == PlanInit /\ ExecInit

Plan == PlanNext /\ UNCHANGED execVars

Run == planPhase = "ready" /\ Execute(traffic) /\ UNCHANGED planVars

\* Ctrl+C while there is no plan yet, the only way out of an endless pattern.
Abandon ==
    /\ planPhase \in {"load", "generate"}
    /\ planPhase' = "failed"
    /\ UNCHANGED <<file, configs, stack, traffic, execVars>>

Next == Plan \/ Run \/ Abandon \/ (ExecStep /\ UNCHANGED planVars)

Spec == Init /\ [][Next]_vars

FairSpec == Spec /\ WF_vars(Plan) /\ WF_vars(Run) /\ ExecFairness

-----------------------------------------------------------------------------
TypeOK ==
    /\ file \in Files
    /\ planPhase \in {"load", "generate", "ready", "failed"}
    /\ \A u \in DOMAIN traffic : traffic[u] \in Seq((-MaxInt - 1)..MaxInt)
    /\ \A i \in DOMAIN stack : i > 1 => Composite(stack[i].config)
    /\ ExecTypeOK

(***************************************************************************)
(* Reference definition: the packets of a periodic pattern, without the    *)
(* loop of the generator.  A packet counts if it falls into a whole slot.  *)
(***************************************************************************)
PacketsIn(c, from, to) ==
    Cardinality({k \in 0..c.duration : k * c.interval \in from..(to - 1) /\ k * c.interval < c.duration})

(***************************************************************************)
(* Reference definition: what a configuration stands for with slots of g   *)
(* milliseconds, without the loops of the generator: the length of its     *)
(* row, bounds of the bytes in it, and the most a slot can hold, or owe.   *)
(***************************************************************************)
Abs(x)  == IF x < 0 THEN -x ELSE x
Most(s) == Max({0} \cup ToSet(s))

Expectation(length, low, high, most) ==
    [length |-> length, low |-> low, high |-> high, most |-> most]

Single(g, c) ==
    LET n == IF g = 0 THEN 0 ELSE c.duration \div g
    IN  CASE c.type = "Pause" -> Expectation(n, 0, 0, 0)
          [] c.type = "Periodic" ->
                LET packets == PacketsIn(c, 0, n * g)
                    bytes   == c.packet_size * packets
                IN  Expectation(n, bytes, bytes, Abs(c.packet_size) * packets)
          [] c.type = "Random" ->
                Expectation(n, n * c.min_size, n * c.max_size, Max({Abs(c.min_size), Abs(c.max_size)}))
          [] c.type = "Distributed" /\ n > 0 ->
                LET size == c.cumulative_size
                IN  Expectation(n, size, IF size >= 0 THEN size ELSE Min({0, size + n}),
                                IF Normalises(c) THEN Abs(size) + 1 ELSE MaxInt + 1)
          [] OTHER -> Expectation(0, 0, 0, 0)

\* e is what the parts of c, or the first of them, stand for.
Joined(g, c, e) ==
    LET start(i) == IF g = 0 THEN 0 ELSE c.overlaps[i].offset \div g
        lengths  == [i \in DOMAIN e |-> e[i].length]
        ends     == [i \in DOMAIN e |-> start(i) + e[i].length]
        least    == Total([i \in DOMAIN e |-> e[i].low])
        utmost   == Total([i \in DOMAIN e |-> e[i].high])
        mosts    == [i \in DOMAIN e |-> e[i].most]
    IN  IF c.type = "Sequence" THEN Expectation(Total(lengths), least, utmost, Most(mosts))
        ELSE Expectation(Most(ends), least, utmost, Total(mosts))

Expected(g) ==
    LET expected[c \in Patterns] ==
            IF Composite(c) THEN Joined(g, c, [i \in DOMAIN Parts(c) |-> expected[Parts(c)[i]]])
            ELSE Single(g, c)
    IN  expected

\* ... for each file.
Expectations ==
    [f \in Files |-> LET expected == Expected(parse_time(f.granularity))
                      IN  [c \in Patterns |-> expected[c]]]

(***************************************************************************)
(* When the executor takes over, the row of a UE is as long as its         *)
(* patterns one after the other, and holds all their bytes: none is lost   *)
(* or doubled where patterns are appended, repeated, shifted, added up or  *)
(* spread.  Not so if a slot could overflow, or if the weights of a        *)
(* distribution have no sum to divide by, see SumsAreConfigured.           *)
(***************************************************************************)
PlanIsAsConfigured ==
    (planPhase = "ready" /\ pc = "idle") =>
        \A e \in ToSet(TrafficConfig(file.traffic)) :
            LET x == Expectations[file][e.config]
            IN  /\ e.ue \in DOMAIN traffic
                /\ Len(traffic[e.ue]) = x.length
                /\ x.most <= MaxInt => Total(traffic[e.ue]) \in x.low..x.high

(***************************************************************************)
(* A slot of a periodic pattern holds exactly the packets whose time falls *)
(* into it, also if several do, or if the duration or the interval is not  *)
(* a multiple of the granularity.                                          *)
(***************************************************************************)
PeriodicIsExact ==
    (stack # <<>> /\ Inmost.config.type = "Periodic" /\ Inmost.at >= Inmost.config.duration) =>
        \A i \in DOMAIN Inmost.row :
            Inmost.row[i] = Wrap(Inmost.config.packet_size *
                                 PacketsIn(Inmost.config, (i - 1) * Granularity, i * Granularity))

-----------------------------------------------------------------------------
(* What the documentation says and the code does not do *)

(***************************************************************************)
(* doc/Trafficker.md:183, of a distribution: "The sum of all slot values   *)
(* equals `cumulative_size`".  So it is of the row of a UE that has only   *)
(* distributions of sizes that are not negative over at least one slot.    *)
(***************************************************************************)
SumsAreConfigured ==
    (planPhase = "ready" /\ pc = "idle") =>
        \A e \in ToSet(TrafficConfig(file.traffic)) :
            LET parts == Parts(e.config)
            IN  (\A i \in DOMAIN parts :
                    /\ parts[i].type = "Distributed" /\ parts[i].cumulative_size >= 0
                    /\ Slots(parts[i].duration) > 0)
                => Total(traffic[e.ue]) = Total([i \in DOMAIN parts |-> parts[i].cumulative_size])

=============================================================================
