----------------------------- MODULE HtmlStats -----------------------------
(***************************************************************************)
(* calcMedian of tools/statistics/html.py, on the integer microsecond    *)
(* timings of the statistics records, with Python 2's floor division.    *)
(* Its one reachable caller, stat2html.py:86, passes a sorted list.       *)
(* calcAverage, calcAverageAbsoluteDeviation, makeBarDiagram and          *)
(* generateTimechart are not modelled: their callers are commented out   *)
(* (stat2html.py:78) or come after a loop that always raises             *)
(* (stat2html.py:107).                                                    *)
(***************************************************************************)
EXTENDS Integers, Sequences, SequencesExt

\* Mutant: the upper middle element for even n, without averaging.
UpperMedian(l) ==
    LET n == Len(l)
    IN  IF n % 2 = 1 THEN l[(n + 1) \div 2] ELSE l[n \div 2 + 1]

\* list[(n+1)/2-1] for odd n, (list[n/2-1] + list[n/2])/2 for even n, in
\* 0-based Python indices (n > 0: an empty list raises IndexError).
CalcMedian(l) ==
    LET n == Len(l)
    IN  IF n % 2 = 1 THEN l[(n + 1) \div 2]
        ELSE (l[n \div 2] + l[n \div 2 + 1]) \div 2
=============================================================================
