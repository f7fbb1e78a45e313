---------------------------- MODULE ParsePoints ----------------------------
(***************************************************************************)
(* parse_points(data, start, end) of tools/statistics/tree2png.py: the    *)
(* scanner that turns "(x,y)(x,y)..." into a list of integer pairs.       *)
(* One action per loop of the code: the outer loop over i, the search     *)
(* for the comma (j) and the search for the close parenthesis (k).  The   *)
(* two inner searches are bounded by len(data), not by end, as in the     *)
(* code; running off the string raises IndexError, and int() of a field   *)
(* that is not a number raises ValueError.  Either exception ends the    *)
(* call, and the partial list is lost with it.                            *)
(***************************************************************************)
EXTENDS TreeLog

CONSTANTS Calls,      \* the calls <<data, start, end>> to check
          PointLists  \* point lists whose serialisation is among Calls

VARIABLES data, start, end,   \* the arguments
          i, j, k, v1,        \* the locals of the scanner
          ps,                 \* the list being built
          pc,                 \* "loop", "comma", "close", "done", "raised"
          exc                 \* the exception raised, or "none"

vars == <<data, start, end, i, j, k, v1, ps, pc, exc>>

Init ==
    /\ \E c \in Calls : data = c[1] /\ start = c[2] /\ end = c[3]
    /\ i = start
    /\ j = 0 /\ k = 0 /\ v1 = 0
    /\ ps = <<>>
    /\ pc = "loop"
    /\ exc = "none"

\* Mutant: the exception is not recorded.
RaiseKeepsExc(e) == pc' = "raised" /\ exc' = exc

Raise(e) == pc' = "raised" /\ exc' = e

\* Mutant: the skip advances two characters.
SkipTwo ==
    /\ pc = "loop" /\ i < end /\ At(data, i) # "("
    /\ i' = i + 2
    /\ UNCHANGED <<data, start, end, j, k, v1, ps, pc, exc>>

\* while i < end: if data[i] == '(' ... ; i += 1
Skip ==
    /\ pc = "loop" /\ i < end /\ At(data, i) # "("
    /\ i' = i + 1
    /\ UNCHANGED <<data, start, end, j, k, v1, ps, pc, exc>>

Open ==
    /\ pc = "loop" /\ i < end /\ At(data, i) = "("
    /\ j' = i /\ pc' = "comma"
    /\ UNCHANGED <<data, start, end, i, k, v1, ps, exc>>

Return ==
    /\ pc = "loop" /\ i >= end
    /\ pc' = "done"
    /\ UNCHANGED <<data, start, end, i, j, k, v1, ps, exc>>

\* Mutant: the first field is sliced from the "(" itself.
ScanCommaFromOpen ==
    /\ pc = "comma"
    /\ \/ j >= Len(data) /\ Raise("IndexError") /\ UNCHANGED <<j, k, v1>>
       \/ j < Len(data) /\ At(data, j) # "," /\ j' = j + 1
          /\ UNCHANGED <<k, v1, pc, exc>>
       \/ j < Len(data) /\ At(data, j) = ","
          /\ IF IsInt(Slice(data, i, j))
             THEN v1' = IntVal(Slice(data, i, j)) /\ k' = j /\ pc' = "close"
                  /\ UNCHANGED <<j, exc>>
             ELSE Raise("ValueError") /\ UNCHANGED <<j, k, v1>>
    /\ UNCHANGED <<data, start, end, i, ps>>

\* while data[j] != ",": j += 1 ; v1 = int(data[i+1 : j]) ; k = j
ScanComma ==
    /\ pc = "comma"
    /\ \/ j >= Len(data) /\ Raise("IndexError") /\ UNCHANGED <<j, k, v1>>
       \/ j < Len(data) /\ At(data, j) # "," /\ j' = j + 1
          /\ UNCHANGED <<k, v1, pc, exc>>
       \/ j < Len(data) /\ At(data, j) = ","
          /\ IF IsInt(Slice(data, i + 1, j))
             THEN v1' = IntVal(Slice(data, i + 1, j)) /\ k' = j /\ pc' = "close"
                  /\ UNCHANGED <<j, exc>>
             ELSE Raise("ValueError") /\ UNCHANGED <<j, k, v1>>
    /\ UNCHANGED <<data, start, end, i, ps>>

\* Mutant: running off the string closes the tuple instead of raising.
ScanCloseAtEnd ==
    /\ pc = "close"
    /\ \/ k < Len(data) /\ At(data, k) # ")" /\ k' = k + 1
          /\ UNCHANGED <<i, ps, pc, exc>>
       \/ ~(k < Len(data) /\ At(data, k) # ")")
          /\ IF IsInt(Slice(data, j + 1, k))
             THEN /\ ps' = Append(ps, <<v1, IntVal(Slice(data, j + 1, k))>>)
                  /\ i' = k + 1 /\ pc' = "loop"
                  /\ UNCHANGED <<k, exc>>
             ELSE Raise("ValueError") /\ UNCHANGED <<i, k, ps>>
    /\ UNCHANGED <<data, start, end, j, v1>>

\* while data[k] != ")": k += 1 ; v2 = int(data[j+1 : k]) ;
\* ps.append((v1, v2)) ; i = k ; i += 1
ScanClose ==
    /\ pc = "close"
    /\ \/ k >= Len(data) /\ Raise("IndexError") /\ UNCHANGED <<i, k, ps>>
       \/ k < Len(data) /\ At(data, k) # ")" /\ k' = k + 1
          /\ UNCHANGED <<i, ps, pc, exc>>
       \/ k < Len(data) /\ At(data, k) = ")"
          /\ IF IsInt(Slice(data, j + 1, k))
             THEN /\ ps' = Append(ps, <<v1, IntVal(Slice(data, j + 1, k))>>)
                  /\ i' = k + 1 /\ pc' = "loop"
                  /\ UNCHANGED <<k, exc>>
             ELSE Raise("ValueError") /\ UNCHANGED <<i, k, ps>>
    /\ UNCHANGED <<data, start, end, j, v1>>

Next == Skip \/ Open \/ Return \/ ScanComma \/ ScanClose

Spec == Init /\ [][Next]_vars /\ WF_vars(Next)

-----------------------------------------------------------------------------
(* What the call returns: the list, or the exception it raised.           *)
Result == IF pc = "done" THEN [exc |-> "none", ps |-> ps]
          ELSE [exc |-> exc, ps |-> <<>>]

Finished == pc \in {"done", "raised"}

TypeOK ==
    /\ i \in start..(Len(data) + 1)
    /\ j \in 0..Len(data) /\ k \in 0..Len(data)
    /\ v1 \in Int
    /\ ps \in Seq(Int \X Int)
    /\ pc \in {"loop", "comma", "close", "done", "raised"}
    /\ exc \in Exceptions
    /\ (pc = "raised") <=> (exc # "none")
-----------------------------------------------------------------------------
(* Round trip: parse_points over the whole serialisation of a point list  *)
(* returns exactly that list, in order.  This needs the scanner to resume *)
(* right after each ")" and to slice each field between the delimiters.   *)
PointsRoundTrip ==
    (Finished /\ start = 0 /\ end = Len(data)) =>
        \A pts \in PointLists :
            data = SerializePoints(pts) => Result = [exc |-> "none", ps |-> pts]

(* Fail fast: a call over the rest of the line that contains an "(" with *)
(* no matching ")" never returns a list; it raises.  The code relies on   *)
(* the comma and close searches running off the string into IndexError.  *)
UnmatchedOpenRaises ==
    (Finished /\ end = Len(data) /\ ~NoUnmatchedOpen(Slice(data, start, end)))
        => pc = "raised"

(* The loop implements the one-step meaning ParsePointsFn that the        *)
(* callers of parse_points are modelled with.                            *)
Call == INSTANCE ParseCall
    WITH Fn <- ParsePointsFn,
         result <- IF Finished THEN Result ELSE [exc |-> "pending", ps |-> <<>>]

ImplementsParseCall == Call!Spec
=============================================================================
