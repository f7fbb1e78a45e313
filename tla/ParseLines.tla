---------------------------- MODULE ParseLines ----------------------------
(***************************************************************************)
(* parse_lines(data, start, end) of tools/statistics/tree2png.py: finds   *)
(* each balanced "( ... )" group with a depth counter and hands its       *)
(* interior to parse_points.  The depth scan is bounded by len(data), so  *)
(* a group that never closes raises IndexError.  After a group the code   *)
(* sets i = j, the index just past the ")", and then also does i += 1:    *)
(* the character right after each group is never looked at.  The call of *)
(* parse_points is one step, its value ParsePointsFn, which the loop      *)
(* model of ParsePoints is checked to implement.                          *)
(***************************************************************************)
EXTENDS TreeLog

CONSTANTS Calls,     \* the calls <<data, start, end>> to check
          LineLists,  \* line lists whose serialisation is among Calls
          Sep         \* what the log writes between two line groups

VARIABLES data, start, end, i, j, pc, exc   \* as in ParsePoints

VARIABLES cnt,   \* the depth counter of the group scan
          ls     \* the list of lines (each a list of points)

vars == <<data, start, end, i, j, cnt, ls, pc, exc>>

Init ==
    /\ \E c \in Calls : data = c[1] /\ start = c[2] /\ end = c[3]
    /\ i = start /\ j = 0 /\ cnt = 0
    /\ ls = <<>>
    /\ pc = "loop"
    /\ exc = "none"

\* while i < end: if data[i] == '(' ... ; i += 1
LSkip ==
    /\ pc = "loop" /\ i < end /\ At(data, i) # "("
    /\ i' = i + 1
    /\ UNCHANGED <<data, start, end, j, cnt, ls, pc, exc>>

\* Mutant: the depth scan starts at the "(" itself.
LOpenAtSelf ==
    /\ pc = "loop" /\ i < end /\ At(data, i) = "("
    /\ j' = i /\ cnt' = 1 /\ pc' = "depth"
    /\ UNCHANGED <<data, start, end, i, ls, exc>>

\* j = i+1 ; cnt = 1
LOpen ==
    /\ pc = "loop" /\ i < end /\ At(data, i) = "("
    /\ j' = i + 1 /\ cnt' = 1 /\ pc' = "depth"
    /\ UNCHANGED <<data, start, end, i, ls, exc>>

LReturn ==
    /\ pc = "loop" /\ i >= end
    /\ pc' = "done"
    /\ UNCHANGED <<data, start, end, i, j, cnt, ls, exc>>

\* Mutant: only ")" is counted, so a group ends at its first ")".
ScanDepthNoNesting ==
    /\ pc = "depth" /\ cnt # 0
    /\ \/ j >= Len(data) /\ pc' = "raised" /\ exc' = "IndexError"
          /\ UNCHANGED <<j, cnt>>
       \/ j < Len(data) /\ j' = j + 1
          /\ cnt' = cnt - (IF At(data, j) = ")" THEN 1 ELSE 0)
          /\ UNCHANGED <<pc, exc>>
    /\ UNCHANGED <<data, start, end, i, ls>>

\* while cnt != 0: cnt += (data[j] == "(") ; cnt -= (data[j] == ")") ; j += 1
ScanDepth ==
    /\ pc = "depth" /\ cnt # 0
    /\ \/ j >= Len(data) /\ pc' = "raised" /\ exc' = "IndexError"
          /\ UNCHANGED <<j, cnt>>
       \/ j < Len(data) /\ j' = j + 1
          /\ cnt' = cnt + (IF At(data, j) = "(" THEN 1 ELSE 0)
                        - (IF At(data, j) = ")" THEN 1 ELSE 0)
          /\ UNCHANGED <<pc, exc>>
    /\ UNCHANGED <<data, start, end, i, ls>>

\* Mutant: the exception of the inner call is not passed on.
GroupLosesExc ==
    /\ pc = "depth" /\ cnt = 0
    /\ LET r == ParsePointsFn(data, i + 1, j)
       IN  IF r.exc = "none"
           THEN ls' = Append(ls, r.ps) /\ i' = j + 1 /\ pc' = "loop"
                /\ UNCHANGED exc
           ELSE pc' = "raised" /\ UNCHANGED <<i, ls, exc>>
    /\ UNCHANGED <<data, start, end, j, cnt>>

\* ps = parse_points(data, i+1, j) ; ls.append(ps) ; i = j ; i += 1
Group ==
    /\ pc = "depth" /\ cnt = 0
    /\ LET r == ParsePointsFn(data, i + 1, j)
       IN  IF r.exc = "none"
           THEN ls' = Append(ls, r.ps) /\ i' = j + 1 /\ pc' = "loop"
                /\ UNCHANGED exc
           ELSE pc' = "raised" /\ exc' = r.exc /\ UNCHANGED <<i, ls>>
    /\ UNCHANGED <<data, start, end, j, cnt>>

Next == LSkip \/ LOpen \/ LReturn \/ ScanDepth \/ Group

Spec == Init /\ [][Next]_vars /\ WF_vars(Next)

-----------------------------------------------------------------------------
Result == IF pc = "done" THEN [exc |-> "none", ps |-> ls]
               ELSE [exc |-> exc, ps |-> <<>>]

TypeOK ==
    /\ i \in start..(Len(data) + 2)
    /\ j \in 0..Len(data) /\ cnt \in Nat
    /\ ls \in Seq(Seq(Int \X Int))
    /\ pc \in {"loop", "depth", "done", "raised"}
    /\ exc \in Exceptions
    /\ (pc = "raised") <=> (exc # "none")

Finished == pc \in {"done", "raised"}

-----------------------------------------------------------------------------
(* Round trip: parse_lines over the whole serialisation of a line list,  *)
(* groups separated by Sep, returns exactly that list of lines.  Each    *)
(* group must be found by the depth counter, its interior handed to       *)
(* parse_points, and the scan resumed without losing the next group.     *)
LinesRoundTrip ==
    (Finished /\ start = 0 /\ end = Len(data)) =>
        \A lines \in LineLists :
            data = SerializeLines(lines, Sep) => Result = [exc |-> "none", ps |-> lines]

(* The loop implements the one-step meaning ParseLinesFn that the driver *)
(* model calls parse_lines with.                                          *)
Call == INSTANCE ParseCall
    WITH Fn <- ParseLinesFn,
         result <- IF Finished THEN Result ELSE [exc |-> "pending", ps |-> <<>>]

ImplementsParseCall == Call!Spec
=============================================================================
