----------------------------- MODULE MC_PerfLog -----------------------------
(***************************************************************************)
(* stat2html.py and log2bar.py run on the same performance.log.  Both    *)
(* only read it, so their steps interleave freely; each keeps its own    *)
(* state.  The lines are those of MC_Stat2Html: junk, the three layouts  *)
(* stat2html knows (16, 18, 28 fields) and the 26-field layout log2bar's *)
(* regular expression matches, with values 0, 4, 7 and zooms 3, 5 and 19 *)
(* (19 is beyond both tools' per-zoom lists).  The pure operators of    *)
(* MC_Numerics are checked in the same run: `tool` chooses in the        *)
(* initial state between the two scripts on a log and the probes of the *)
(* operators; the part not chosen keeps its initial state (the empty log,*)
(* or one tile probe) and never steps.                                   *)
(***************************************************************************)
EXTENDS MC_Stat2Html, MC_Numerics

VARIABLES lread, lpc, avg, cnt   \* log2bar's state (Log2Bar)

VARIABLE tool

L2 == INSTANCE Log2Bar

MCPerfLines ==
    Junk \cup {Line(16, TRUE, 0, 3), Line(18, TRUE, 4, 3)}
         \cup {Line(28, TRUE, c, z) : c \in {0, 4, 7}, z \in {3, 19}}
         \cup {Line(26, TRUE, c, z) : c \in {0, 4, 7}, z \in {3, 5, 19}}

MCPerfLogs == LogsOf(MCPerfLines)

s2vars == <<i, pc, exc, allStats, values, median>>

l2vars == <<lread, lpc, avg, cnt>>

BothInit == Init /\ L2!Init

BothNext == (Next /\ UNCHANGED l2vars) \/ (L2!Next /\ UNCHANGED s2vars)

BothSpec == BothInit /\ [][BothNext]_<<vars, l2vars>>

IdleProbe == Probe("tile", <<0, 0, 0>>, <<>>)

PerfInit ==
    /\ tool \in {"logs", "numerics"}
    /\ tool = "numerics" => log = <<>>
    /\ tool = "logs" => probe = IdleProbe
    /\ BothInit /\ ProbeInit

PerfNext ==
    \/ tool = "logs" /\ BothNext /\ UNCHANGED <<tool, probe>>
    \/ tool = "numerics" /\ Ask /\ UNCHANGED <<tool, vars, l2vars>>

PerfSpec == PerfInit /\ [][PerfNext]_<<tool, probe, vars, l2vars>>

MeanPerZoom == L2!MeanPerZoom

DrawsUnlessZoomBeyondSlots == L2!DrawsUnlessZoomBeyondSlots
=============================================================================
