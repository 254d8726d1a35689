----------------------------- MODULE TrafficUtils -----------------------------
(***************************************************************************)
(* Times and sizes of the traffic configuration (utils.py).  A time is     *)
(* <<ten times its value, unit>>, so that '0.5ms' is <<5, "ms">>; a size   *)
(* is ten times its value.  Both are truncated to whole units.             *)
(***************************************************************************)
EXTENDS Integers

Milliseconds(unit) ==
    CASE unit = "ms" -> 1 [] unit = "s" -> 1000 [] unit = "m" -> 60000 [] unit = "h" -> 3600000

\* int(x) of Python drops the fraction, towards zero.
Truncate(tenths) == IF tenths < 0 THEN -((-tenths) \div 10) ELSE tenths \div 10

parse_time(t)  == (t[1] * Milliseconds(t[2])) \div 10
parse_bytes(b) == Truncate(b)

=============================================================================
