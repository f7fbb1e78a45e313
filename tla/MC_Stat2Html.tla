---------------------------- MODULE MC_Stat2Html ----------------------------
(***************************************************************************)
(* The lines stat2html.py may meet, in the abstraction of Stat2Html: a    *)
(* blank line, a header whose list[1] is not a number, a line cut short  *)
(* (Junk), and records of 16, 18, 26 or 28 fields; and the logs of at    *)
(* most three of them.  MCWellFormedLogs are the logs a server writing   *)
(* the layout stat2html reads produces.                                  *)
(***************************************************************************)
EXTENDS Stat2Html

Line(n, js, c, z) == [len |-> n, jsNum |-> js, cache |-> c, zoom |-> z]

Junk == {Line(1, FALSE, 0, 0), Line(28, FALSE, 0, 0), Line(8, TRUE, 0, 0)}

Records(zooms) == {Line(n, TRUE, c, z) : n \in {16, 18, 26, 28}, c \in {0, 4, 7}, z \in zooms}

LogsOf(lines) == UNION {[1..n -> lines] : n \in 0..3}

\* Logs a tile server at zooms 0..18 writes: known field counts, some
\* Cache sample.
MCWellFormedLogs ==
    {lg \in LogsOf({r \in Records({3}) : r.len \in Known}) :
        \E k \in DOMAIN lg : CacheTime(lg[k]) # 0}
=============================================================================
