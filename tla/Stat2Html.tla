----------------------------- MODULE Stat2Html -----------------------------
(***************************************************************************)
(* The script body of tools/statistics/stat2html.py up to where it stops: *)
(* read performance.log into one stats dictionary per line (the fields   *)
(* taken depend on the line's number of blank-separated fields), sort    *)
(* them by JobStart, then for the first component, 'Cache', collect the  *)
(* sorted non-zero values, take calcMedian and call html.makeBoxPlot.    *)
(* makeBoxPlot builds its axis label as name + u'...' + int(scale), a    *)
(* unicode string plus an int, which raises TypeError for every scale:   *)
(* the loop never reaches the second component, the scatter plots, the   *)
(* timechart or index.htm, so those are not actions of this module.      *)
(*                                                                         *)
(* A line is abstracted to what the reached statements read of it: its   *)
(* field count, whether list[1] is an integer, the Cache field list[3]   *)
(* and the Zoom field list[-7]; the other fields read are integers.  The *)
(* JobStart sort is left out: no statement reached depends on the order *)
(* of the records (the value list is sorted again, byZoom bins them).   *)
(***************************************************************************)
EXTENDS HtmlStats, FiniteSets

CONSTANTS Logs   \* the performance.log files to run on: sequences of lines

\* The field counts the reading loop has a branch for (empty, cached, not
\* cached tile).
Known == {16, 18, 28}

\* byZoom = [[], ... , []]: one list per zoom 0..18.
ZoomBins == 19

\* A stats dictionary without a 'Cache' key.
Absent == -1

\* The exception the dictionary literal of lines 24-30 raises on a line, or
\* "none": list[1] missing, int(list[1]) failing, list[-11] missing.
LineError(ln) ==
    CASE ln.len < 2        -> "IndexError@read"
      [] ~ln.jsNum         -> "ValueError@read"
      [] ln.len < 11       -> "IndexError@read"
      [] OTHER             -> "none"

\* Mutant: the empty-tile branch does not set 'Cache'.
StatsNoEmptyCache(ln) ==
    [cache |-> IF ln.len \in {18, 28} THEN ln.cache ELSE Absent, zoom |-> ln.zoom]

\* The dictionary of a line: Cache is 0 for an empty tile, list[3] for a
\* cached or a rendered one, and missing for any other field count.
Stats(ln) ==
    [cache |-> CASE ln.len = 16 -> 0
                 [] ln.len \in {18, 28} -> ln.cache
                 [] OTHER -> Absent,
     zoom |-> ln.zoom]

VARIABLES log,       \* the lines of performance.log
          i,         \* the number of lines read
          pc,        \* the statement the script is at
          exc,       \* the exception that ended the script, once raised
          allStats,  \* the dictionaries read
          values,    \* the component's list of values
          median     \* calcMedian of it

vars == <<log, i, pc, exc, allStats, values, median>>

Init ==
    /\ log \in Logs
    /\ i = 0 /\ pc = "read" /\ exc = "none"
    /\ allStats = <<>> /\ values = <<>> /\ median = 0

\* Mutant: the exception is not recorded.
RaiseKeepsExc(e) == pc' = "raised" /\ exc' = exc

Raise(e) == pc' = "raised" /\ exc' = e

\* One pass of "for line in f": split, build the dictionary, append it.
ReadLine ==
    /\ pc = "read" /\ i < Len(log)
    /\ LET ln == log[i + 1]
       IN  IF LineError(ln) # "none"
           THEN Raise(LineError(ln)) /\ UNCHANGED <<i, allStats>>
           ELSE /\ allStats' = Append(allStats, Stats(ln))
                /\ i' = i + 1
                /\ UNCHANGED <<pc, exc>>
    /\ UNCHANGED <<log, values, median>>

\* The file is read; allStats = sorted(allStats, key=JobStart).
EndRead ==
    /\ pc = "read" /\ i = Len(log)
    /\ pc' = "collect"
    /\ UNCHANGED <<log, i, exc, allStats, values, median>>

\* The values of a sequence of dictionaries that are not 0, sorted.
NonZeroSorted(st) ==
    SortSeq(SelectSeq([k \in DOMAIN st |-> st[k].cache], LAMBDA v : v # 0), <)

\* Mutant: the "!= 0" filter is left out.
CollectWithZeros ==
    /\ pc = "collect"
    /\ IF \E k \in DOMAIN allStats : allStats[k].cache = Absent
       THEN Raise("KeyError@collect") /\ UNCHANGED values
       ELSE /\ values' = SortSeq([k \in DOMAIN allStats |-> allStats[k].cache], <)
            /\ pc' = "median" /\ UNCHANGED exc
    /\ UNCHANGED <<log, i, allStats, median>>

\* component = 'Cache': object[component] raises KeyError on a dictionary
\* without the key; else list = sorted(the non-zero values).  (The
\* list[0:-4] of 'GeoContainsData' belongs to a component never reached.)
Collect ==
    /\ pc = "collect"
    /\ IF \E k \in DOMAIN allStats : allStats[k].cache = Absent
       THEN Raise("KeyError@collect") /\ UNCHANGED values
       ELSE /\ values' = NonZeroSorted(allStats)
            /\ pc' = "median" /\ UNCHANGED exc
    /\ UNCHANGED <<log, i, allStats, median>>

\* median = html.calcMedian(list): an empty list reaches list[-1].
Median ==
    /\ pc = "median"
    /\ IF values = <<>>
       THEN Raise("IndexError@median") /\ UNCHANGED median
       ELSE median' = CalcMedian(values) /\ pc' = "box" /\ UNCHANGED exc
    /\ UNCHANGED <<log, i, allStats, values>>

\* html.makeBoxPlot(allStats, 'Cache', median=median, scale=1.0, ...):
\* byZoom[object['Zoom']].append(...) for every non-zero value raises
\* IndexError beyond zoom 18; else the boxes are drawn and the label
\* raises TypeError.
BoxPlot ==
    /\ pc = "box"
    /\ IF \E k \in DOMAIN allStats : allStats[k].cache # 0 /\ allStats[k].zoom >= ZoomBins
       THEN Raise("IndexError@byZoom")
       ELSE Raise("TypeError@label")
    /\ UNCHANGED <<log, i, allStats, values, median>>

Next == ReadLine \/ EndRead \/ Collect \/ Median \/ BoxPlot

Spec == Init /\ [][Next]_vars /\ WF_vars(Next)

-----------------------------------------------------------------------------
Exceptions == {"none", "IndexError@read", "ValueError@read", "KeyError@collect",
               "IndexError@median", "IndexError@byZoom", "TypeError@label"}

TypeOK ==
    /\ i \in 0..Len(log)
    /\ pc \in {"read", "collect", "median", "box", "raised"}
    /\ exc \in Exceptions /\ (exc = "none") = (pc # "raised")
    /\ allStats \in Seq([cache : Int, zoom : Int]) /\ Len(allStats) = i
    /\ values \in Seq(Int)

\* The Cache time a line records: only cached and rendered tiles have one.
CacheTime(ln) == IF ln.len \in {18, 28} THEN ln.cache ELSE 0

\* What the script ends with, read off the whole log rather than step by
\* step: the first line that cannot be read, else a line of unknown
\* length, else no Cache samples, else a sample beyond zoom 18, else the
\* label.
ExpectedExc(lg) ==
    LET bad == {k \in DOMAIN lg : LineError(lg[k]) # "none"}
        samples == {k \in DOMAIN lg : CacheTime(lg[k]) # 0}
    IN  CASE bad # {} -> LineError(lg[Min(bad)])
          [] \E k \in DOMAIN lg : lg[k].len \notin Known -> "KeyError@collect"
          [] samples = {} -> "IndexError@median"
          [] \E k \in samples : lg[k].zoom >= ZoomBins -> "IndexError@byZoom"
          [] OTHER -> "TypeError@label"

(* stat2html ends with the exception the log determines: reading stops   *)
(* at the first unreadable line even when a later line is fine, an       *)
(* unknown field count only fails at the component loop after the whole  *)
(* file is read, and a log of empty tiles only fails in calcMedian.      *)
OutcomeByInput == pc = "raised" => exc = ExpectedExc(log)

(* The median handed to makeBoxPlot is calcMedian of the sorted non-zero *)
(* Cache values of every line of the log, whatever their order in it;    *)
(* a log without one never gets that far.                                *)
MedianOfNonZero ==
    LET samples == SortSeq(SelectSeq([k \in DOMAIN log |-> CacheTime(log[k])],
                                     LAMBDA v : v # 0), <)
    IN  pc = "box" => samples # <<>> /\ median = CalcMedian(samples)

\* The script got as far as calcMedian of its first component.
ReachedMedian == pc = "box" \/ exc \in {"IndexError@byZoom", "TypeError@label"}

(* On a log of well-formed records with Cache samples, stat2html ends     *)
(* without an exception, having written its pages.                       *)
WritesPages == exc = "none"
=============================================================================
