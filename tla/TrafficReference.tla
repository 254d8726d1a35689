--------------------------- MODULE TrafficReference ---------------------------
(***************************************************************************)
(* When the generator comes to an end, in terms of the file, whose         *)
(* patterns are nested.                                                    *)
(***************************************************************************)
EXTENDS Trafficker

RECURSIVE Ends(_)
Ends(source) ==
    CASE source.key = "overlap" -> \A i \in DOMAIN source.items : Ends(source.items[i])
      [] source.key = "loop" -> \A i \in DOMAIN source.elements : Ends(source.elements[i])
      [] source.key = "periodic" -> parse_time(source.interval) > 0 \/ parse_time(source.duration) = 0
      [] OTHER -> TRUE

(***************************************************************************)
(* If no packet interval is rounded to zero, the generator comes to an     *)
(* end, with a plan or an error.                                           *)
(***************************************************************************)
GenerationEnds ==
    (/\ planPhase = "generate"
     /\ \A i \in DOMAIN file.traffic : \A j \in DOMAIN file.traffic[i].parts :
           Ends(file.traffic[i].parts[j]))
        ~> (planPhase \in {"ready", "failed"})

=============================================================================
