------------------------------ MODULE TreeLog ------------------------------
(***************************************************************************)
(* The node-tree log of tools/statistics/tree2png.py as values: the point *)
(* and line grammars of the spec, and what parse_points and parse_lines   *)
(* return for a call, written as functions of the call's arguments.  The  *)
(* loop-level modules ParsePoints and ParseLines are checked to implement *)
(* these functions; the driver model TreeToPng calls them.               *)
(***************************************************************************)
EXTENDS PyStr

\* What a scanner call can end with: a value, or one of the exceptions the
\* builtins raise inside it.
Exceptions == {"none", "IndexError", "ValueError"}

(* The point-list grammar of the spec (section 4.2): "(" int "," int ")"  *)
(* tokens back to back, each integer written as str() writes it.         *)
SerializePoints(pts) ==
    FlattenSeq([n \in DOMAIN pts |->
        <<"(">> \o Str(pts[n][1]) \o <<",">> \o Str(pts[n][2]) \o <<")">>])

\* The scan of a "while data[x] != c: x += 1" loop: the first index from x
\* on that holds c, or Len(d) when the loop would run off the string.
FirstAt(d, c, x) ==
    LET hits == {p \in x..(Len(d) - 1) : At(d, p) = c}
    IN  IF hits = {} THEN Len(d) ELSE Min(hits)

\* parse_points as one function of its arguments: the value the call
\* returns, used by the callers of parse_points.
ParsePointsFn(d, s, e) ==
    LET RECURSIVE Scan(_, _)
        Scan(x, acc) ==
            IF x >= e THEN [exc |-> "none", ps |-> acc]
            ELSE IF At(d, x) # "(" THEN Scan(x + 1, acc)
            ELSE LET cj == FirstAt(d, ",", x)
                     ck == FirstAt(d, ")", cj)
                 IN  IF cj = Len(d) THEN [exc |-> "IndexError", ps |-> <<>>]
                     ELSE IF ~IsInt(Slice(d, x + 1, cj))
                          THEN [exc |-> "ValueError", ps |-> <<>>]
                     ELSE IF ck = Len(d) THEN [exc |-> "IndexError", ps |-> <<>>]
                     ELSE IF ~IsInt(Slice(d, cj + 1, ck))
                          THEN [exc |-> "ValueError", ps |-> <<>>]
                     ELSE Scan(ck + 1, Append(acc, <<IntVal(Slice(d, x + 1, cj)),
                                                     IntVal(Slice(d, cj + 1, ck))>>))
    IN  Scan(s, <<>>)

(* The line-list grammar of the spec: groups "(" point point ")", with   *)
(* sep written between consecutive groups (<<>> for back to back).       *)
SerializeLines(lines, sep) ==
    IF lines = <<>> THEN <<>>
    ELSE FlattenSeq([n \in DOMAIN lines |->
             (IF n = 1 THEN <<>> ELSE sep) \o <<"(">> \o SerializePoints(lines[n]) \o <<")">>])

\* parse_lines as one function of its arguments, for its callers.
ParseLinesFn(d, s, e) ==
    LET RECURSIVE Scan(_, _)
        \* the index just past the ")" that closes the "(" before y, or -1
        \* when the scan runs off the string
        RECURSIVE Close(_, _)
        Close(y, depth) == IF depth = 0 THEN y
                           ELSE IF y >= Len(d) THEN -1
                           ELSE Close(y + 1, depth + (IF At(d, y) = "(" THEN 1 ELSE 0)
                                                   - (IF At(d, y) = ")" THEN 1 ELSE 0))
        Scan(x, acc) ==
            IF x >= e THEN [exc |-> "none", ps |-> acc]
            ELSE IF At(d, x) # "(" THEN Scan(x + 1, acc)
            ELSE LET cj == Close(x + 1, 1)
                     r == ParsePointsFn(d, x + 1, cj)
                 IN  IF cj = -1 THEN [exc |-> "IndexError", ps |-> <<>>]
                     ELSE IF r.exc # "none" THEN [exc |-> r.exc, ps |-> <<>>]
                     ELSE Scan(cj + 1, Append(acc, r.ps))
    IN  Scan(s, <<>>)

=============================================================================
