---------------------------- MODULE MCTrafficker ----------------------------
(***************************************************************************)
(* Small instances of Trafficker: traffic files that reach every pattern   *)
(* and every error, and the parameters of a run.                           *)
(***************************************************************************)
EXTENDS TrafficReference, TrafficParser

CONSTANTS ue1, ue2

Ms(n) == <<10 * n, "ms">>

Periodic(size, interval, duration, offset) ==
    [key |-> "periodic", size |-> 10 * size, interval |-> interval, duration |-> duration,
     offset |-> offset]
Random(min, max, duration) ==
    [key |-> "random", min_size |-> 10 * min, max_size |-> 10 * max, duration |-> duration,
     offset |-> Ms(10)]
Distribution(kind, size, duration, variance) ==
    [key |-> "distribution", distribution |-> kind, cumulative_size |-> size,
     duration |-> duration, variance |-> variance, extreme |-> FALSE, offset |-> Ms(0)]
Extreme(distribution) == [distribution EXCEPT !.extreme = TRUE]
Pause(duration) == [key |-> "pause", duration |-> duration]
Loop(n, elements) == [key |-> "loop", iterations |-> n, elements |-> elements, offset |-> Ms(10)]
Overlap(items) == [key |-> "overlap", items |-> items]
Offset(time) == [key |-> "offset", offset |-> time]
Unknown == [key |-> "unknown"]

For(ue, parts) == [ue |-> ue, parts |-> parts]
File(granularity, section) == [granularity |-> granularity, traffic |-> section]

OneUE(parts) == File(Ms(10), <<For(ue1, parts)>>)

\* Two packets for one UE; two in a slot, after a pause, for the other.
Short == File(<<10, "s">>,
              << For(ue1, <<Periodic(1, <<10, "s">>, <<20, "s">>, Ms(0))>>),
                 For(ue2, <<Pause(Ms(1000)), Pause(Ms(5)), Unknown,
                            Periodic(1, Ms(700), Ms(1400), Ms(0))>>) >>)

Nested ==
    OneUE(<< Loop(2, << Overlap(<< Offset(Ms(20)), Unknown,
                                   Periodic(2, Ms(4), Ms(35), Ms(10)),
                                   Overlap(<<Offset(Ms(30)), Random(0, 1, Ms(20))>>),
                                   Loop(1, <<Pause(Ms(10)), Unknown>>) >>),
                        Unknown >>),
             Distribution("normal-distribution", 30, Ms(20), 1),
             Distribution("uniform-distribution", 45, Ms(30), 0) >>)

Endless  == OneUE(<<Periodic(1, <<5, "ms">>, Ms(20), Ms(0))>>)
Negative == OneUE(<< Distribution("exponential-distribution", -35, Ms(20), 0),
                     Random(-1, 0, Ms(15)), Distribution("normal-distribution", 30, Ms(5), 0) >>)

\* No weights to divide by: all zero or infinite, or NaN for a negative variance.
Unweighted ==
    { OneUE(<<Extreme(Distribution("exponential-distribution", 30, Ms(20), 0))>>),
      OneUE(<<Distribution("normal-distribution", 30, Ms(20), -1), Pause(Ms(10))>>) }
Raising  ==
    { OneUE(<<Overlap(<<Pause(Ms(10))>>)>>),
      OneUE(<<Loop(1, <<Overlap(<<Pause(Ms(10))>>)>>)>>),
      OneUE(<<Unknown>>),
      OneUE(<<Loop(0, <<Pause(Ms(10))>>)>>),
      OneUE(<<Overlap(<<Offset(Ms(10))>>)>>),
      OneUE(<<Random(1, 0, Ms(10))>>),
      OneUE(<<Distribution("normal-distribution", 10, Ms(10), 0)>>),
      File(<<5, "ms">>, <<For(ue1, <<Pause(Ms(10))>>)>>),
      File(Ms(10), <<For(ue1, <<Pause(Ms(10))>>), For(ue2, <<>>)>>) }

AllFiles == {Short, Nested, Endless, Negative} \cup Unweighted \cup Raising

AllPatterns ==
    UNION {UNION {WithParts(e.config) : e \in ToSet(load_yaml(f.traffic))} :
              f \in {g \in AllFiles : ~Rejects(g.traffic)}}

Mode(handler, direction, udp, loop) ==
    [handler |-> handler, direction |-> direction, udp |-> udp, loop |-> loop]

AllModes ==
    { Mode("pysocket", "DL", FALSE, TRUE), Mode("pysocket", "UL", FALSE, FALSE),
      Mode("pysocket", "UL", TRUE, TRUE), Mode("netcat", "UL", FALSE, TRUE),
      Mode("ping", "UL", FALSE, FALSE), Mode("pysocket", "BI", TRUE, FALSE) }
Uplink == {Mode("pysocket", "UL", FALSE, TRUE)}
OneFile == {Short}

=============================================================================
