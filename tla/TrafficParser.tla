---------------------------- MODULE TrafficParser ----------------------------
(***************************************************************************)
(* traffic_parser.py: the patterns of a file become configurations.  The   *)
(* results are parameters of TrafficPlan.                                  *)
(***************************************************************************)
EXTENDS TrafficUtils, SequencesExt

NoConfig == [type |-> "None"]

\* The offset of an overlap stands in its list, that of a pattern in the pattern.
OffsetOf(item) ==
    IF item.key = "overlap"
    THEN LET given == SelectSeq(item.items, LAMBDA k : k.key = "offset")
         IN  IF given = <<>> THEN 0 ELSE parse_time(given[1].offset)
    ELSE parse_time(item.offset)

RECURSIVE ParseDict(_)
ParseDict(source) ==
    CASE source.key = "overlap" ->
            LET items == SelectSeq(source.items, LAMBDA it : it.key \notin {"offset", "unknown"})
            IN  [type |-> "Overlap",
                 overlaps |-> [i \in DOMAIN items |-> [offset |-> OffsetOf(items[i]),
                                                       config |-> ParseDict(items[i])]]]
      [] source.key = "pause" -> [type |-> "Pause", duration |-> parse_time(source.duration)]
      [] source.key = "periodic" ->
            [type |-> "Periodic", duration |-> parse_time(source.duration),
             packet_size |-> parse_bytes(source.size), interval |-> parse_time(source.interval)]
      [] source.key = "random" ->
            [type |-> "Random", duration |-> parse_time(source.duration),
             min_size |-> parse_bytes(source.min_size), max_size |-> parse_bytes(source.max_size)]
      [] source.key = "distribution" ->
            [type |-> "Distributed", duration |-> parse_time(source.duration),
             cumulative_size |-> parse_bytes(source.cumulative_size),
             distribution |-> source.distribution, variance |-> source.variance,
             extreme |-> source.extreme]
      [] source.key = "loop" ->
            LET parsed == [i \in DOMAIN source.elements |-> ParseDict(source.elements[i])]
                kept   == SelectSeq(parsed, LAMBDA c : c # NoConfig)
            IN  [type |-> "Sequence",
                 sequence |-> FlattenSeq([i \in 1..source.iterations |-> kept])]
      [] OTHER -> NoConfig

(***************************************************************************)
(* The offset of a pause inside an overlap is looked up in its duration,   *)
(* which is a string.                                                      *)
(***************************************************************************)
RECURSIVE ParseRaises(_)
ParseRaises(source) ==
    CASE source.key = "overlap" ->
            \E i \in DOMAIN source.items :
               source.items[i].key = "pause" \/ ParseRaises(source.items[i])
      [] source.key = "loop" -> \E i \in DOMAIN source.elements : ParseRaises(source.elements[i])
      [] OTHER -> FALSE

\* A UE appears with its first part, whatever that part turns out to be.
load_yaml(entries) ==
    LET listed == SelectSeq(entries, LAMBDA e : e.parts # <<>>)
        Parsed(e) == SelectSeq([i \in DOMAIN e.parts |-> ParseDict(e.parts[i])],
                               LAMBDA c : c # NoConfig)
    IN  [i \in DOMAIN listed |-> [ue |-> listed[i].ue,
                                  config |-> [type |-> "Sequence", sequence |-> Parsed(listed[i])]]]

Rejects(entries) ==
    \E i \in DOMAIN entries : \E j \in DOMAIN entries[i].parts : ParseRaises(entries[i].parts[j])

\* How deep a configuration is nested.
RECURSIVE DepthOf(_)
DepthOf(c) ==
    LET Deepest(parts) == FoldSet(LAMBDA d, m : IF DepthOf(d) > m THEN DepthOf(d) ELSE m, 0, parts)
    IN  CASE c.type = "Sequence" -> 1 + Deepest(ToSet(c.sequence))
          [] c.type = "Overlap"  -> 1 + Deepest({o.config : o \in ToSet(c.overlaps)})
          [] OTHER -> 0

\* A configuration and all it consists of.
RECURSIVE WithParts(_)
WithParts(c) ==
    {c} \cup CASE c.type = "Sequence" -> UNION {WithParts(d) : d \in ToSet(c.sequence)}
               [] c.type = "Overlap"  -> UNION {WithParts(o.config) : o \in ToSet(c.overlaps)}
               [] OTHER -> {}

=============================================================================
