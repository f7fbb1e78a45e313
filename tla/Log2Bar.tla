------------------------------ MODULE Log2Bar ------------------------------
(***************************************************************************)
(* tools/statistics/log2bar.py: every line of the log that the regular   *)
(* expression matches updates, for each component, a running mean per   *)
(* zoom (two lists of 19 slots); the other lines are skipped.  Then one *)
(* stacked bar per zoom is drawn and saved.                              *)
(*                                                                         *)
(* A line is abstracted as in Stat2Html: its field count, whether list[1] *)
(* is an integer, the value of its fourth field and its zoom.  The regex  *)
(* matches exactly the 26-field layout "JobStart n GeoNodes n ...         *)
(* Relations n"; its fourth field is the nodes_query group.  All seven    *)
(* components are updated by the same statements, so the model follows   *)
(* one of them, nodes_query.  The float arithmetic is taken as exact: a   *)
(* mean is the fraction num/den.                                          *)
(***************************************************************************)
EXTENDS Integers, Sequences, FiniteSets, FiniteSetsExt

CONSTANTS Logs   \* the log files to run on: sequences of lines

\* means[c] = ([0]*19, [0]*19): averages and counts for zooms 0..18.
Slots == 19

\* exp.match(l): the 26-field layout, with digits after "JobStart".
Matches(ln) == ln.len = 26 /\ ln.jsNum

\* Mutant: n/(n + 1) in integer division, which is 0.
IntRatioMean(a, n, x) == [num |-> x * a.den, den |-> a.den * (n + 1)]

\* avg * (n/(n + 1.0)) + float(x)/(n + 1), exactly.
RunningMean(a, n, x) == [num |-> a.num * n + x * a.den, den |-> a.den * (n + 1)]

VARIABLES log,    \* the lines of the log
          lread,      \* the number of lines read
          lpc,    \* "read", "drawn" or "raised"
          avg,    \* comp_avg of nodes_query: zoom -> mean as a fraction
          cnt     \* comp_cnt of nodes_query: zoom -> samples counted

l2vars == <<lread, lpc, avg, cnt>>

Init ==
    /\ log \in Logs
    /\ lread = 0 /\ lpc = "read"
    /\ avg = [z \in 0..(Slots - 1) |-> [num |-> 0, den |-> 1]]
    /\ cnt = [z \in 0..(Slots - 1) |-> 0]

\* Mutant: "break" instead of "continue" on a line that does not match.
ReadLineBreaks ==
    /\ lpc = "read" /\ lread < Len(log)
    /\ LET ln == log[lread + 1]
           z == ln.zoom
       IN  CASE ~Matches(ln) ->
                  lpc' = "drawn" /\ UNCHANGED <<lread, avg, cnt>>
             [] z >= Slots ->
                  lpc' = "raised" /\ UNCHANGED <<lread, avg, cnt>>
             [] OTHER ->
                  /\ avg' = [avg EXCEPT ![z] = RunningMean(avg[z], cnt[z], ln.cache)]
                  /\ cnt' = [cnt EXCEPT ![z] = cnt[z] + 1]
                  /\ lread' = lread + 1 /\ UNCHANGED lpc
    /\ UNCHANGED log

\* One pass of "for l in f.readlines()": skip a line the regex does not
\* match; else z = int(zoom), and comp_cnt[z] raises IndexError beyond the
\* last slot; else update the mean and the count of zoom z.
ReadLine ==
    /\ lpc = "read" /\ lread < Len(log)
    /\ LET ln == log[lread + 1]
           z == ln.zoom
       IN  CASE ~Matches(ln) ->
                  lread' = lread + 1 /\ UNCHANGED <<lpc, avg, cnt>>
             [] z >= Slots ->
                  lpc' = "raised" /\ UNCHANGED <<lread, avg, cnt>>
             [] OTHER ->
                  /\ avg' = [avg EXCEPT ![z] = RunningMean(avg[z], cnt[z], ln.cache)]
                  /\ cnt' = [cnt EXCEPT ![z] = cnt[z] + 1]
                  /\ lread' = lread + 1 /\ UNCHANGED lpc
    /\ UNCHANGED log

\* The bars of comp_avg, stacked over the components, and savefig.
Draw ==
    /\ lpc = "read" /\ lread = Len(log)
    /\ lpc' = "drawn"
    /\ UNCHANGED <<log, lread, avg, cnt>>

Next == ReadLine \/ Draw

-----------------------------------------------------------------------------
\* The samples of zoom z among the first k lines of the log.
SamplesAt(z, k) == {n \in 1..k : Matches(log[n]) /\ log[n].zoom = z}

(* After every line, the bar log2bar holds for a zoom is the mean of the  *)
(* samples of that zoom read so far: the running update, with the count  *)
(* read before it is incremented, never drifts from sum / count.         *)
MeanPerZoom ==
    \A z \in 0..(Slots - 1) :
        /\ cnt[z] = Cardinality(SamplesAt(z, lread))
        /\ avg[z].num * cnt[z] = MapThenSumSet(LAMBDA n : log[n].cache, SamplesAt(z, lread)) * avg[z].den

(* log2bar draws its graph exactly when no matching line has a zoom      *)
(* beyond 18; one such line anywhere in the log costs the whole graph.   *)
DrawsUnlessZoomBeyondSlots ==
    lpc # "read" =>
        ((lpc = "drawn") <=> ~\E n \in DOMAIN log : Matches(log[n]) /\ log[n].zoom >= Slots)
=============================================================================
