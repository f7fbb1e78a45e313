------------------------------- MODULE PyStr -------------------------------
(***************************************************************************)
(* The Python 2 string primitives that the log parsers of                 *)
(* tools/statistics/tree2png.py and leaves2plot.py are built from.  A     *)
(* Python string is a sequence of one-character strings; every index is   *)
(* Python's (0-based), so data[i] is At(data, i).  Each operator models   *)
(* what the builtin does, including its errors: an index past the end    *)
(* raises IndexError, int() of a non-number raises ValueError.            *)
(***************************************************************************)
EXTENDS Integers, Sequences, SequencesExt, TLC

DigitValue == "0" :> 0 @@ "1" :> 1 @@ "2" :> 2 @@ "3" :> 3 @@ "4" :> 4
           @@ "5" :> 5 @@ "6" :> 6 @@ "7" :> 7 @@ "8" :> 8 @@ "9" :> 9

Digits == DOMAIN DigitValue

\* The characters int() and str.strip() treat as white space.
Whitespace == {" ", "\t", "\n", "\r"}

\* data[i]: defined for 0 <= i < Len(data); the callers raise IndexError
\* themselves when i reaches Len(data).
At(s, i) == s[i + 1]

\* Python's normalisation of a slice bound: negative bounds count from the
\* end, and every bound is clamped into 0..len(s).
Bound(s, x) == IF x < 0 THEN IF Len(s) + x < 0 THEN 0 ELSE Len(s) + x
               ELSE IF x > Len(s) THEN Len(s) ELSE x

\* s[a:b]
Slice(s, a, b) == SubSeq(s, Bound(s, a) + 1, Bound(s, b))

\* s.find(sub, start, end): the lowest index p with start <= p and
\* p + len(sub) <= end at which sub occurs, or -1.  The bounds are
\* normalised like slice bounds, so end = -1 means len(s) - 1.
Find(s, sub, start, end) ==
    LET lo == Bound(s, start)
        hi == Bound(s, end)
        hits == {p \in lo..(hi - Len(sub)) : SubSeq(s, p + 1, p + Len(sub)) = sub}
    IN  IF hits = {} THEN -1 ELSE Min(hits)

\* s.strip()
RECURSIVE Strip(_)
Strip(s) == IF s # <<>> /\ Head(s) \in Whitespace THEN Strip(Tail(s))
            ELSE IF s # <<>> /\ Last(s) \in Whitespace THEN Strip(Front(s))
            ELSE s

\* int(s) succeeds iff, white space stripped, s is an optional sign
\* followed by at least one decimal digit.
Unsigned(t) == IF t # <<>> /\ Head(t) \in {"+", "-"} THEN Tail(t) ELSE t

IsInt(s) == LET u == Unsigned(Strip(s)) IN u # <<>> /\ \A p \in DOMAIN u : u[p] \in Digits

IntVal(s) ==
    LET t == Strip(s)
        n == FoldLeft(LAMBDA acc, c : 10 * acc + DigitValue[c], 0, Unsigned(t))
    IN  IF Head(t) = "-" THEN -n ELSE n

\* str(n) for an integer n.
RECURSIVE Decimal(_)
Decimal(n) == IF n < 10 THEN <<CHOOSE c \in Digits : DigitValue[c] = n>>
              ELSE Decimal(n \div 10) \o Decimal(n % 10)

Str(n) == IF n < 0 THEN <<"-">> \o Decimal(-n) ELSE Decimal(n)

\* s.split(","): the pieces between the separators, never an empty list.
SplitOn(s, sep) ==
    LET cuts == <<0>> \o SelectSeq([p \in 1..Len(s) |-> p], LAMBDA p : s[p] = sep)
                      \o <<Len(s) + 1>>
    IN  [n \in 1..(Len(cuts) - 1) |-> SubSeq(s, cuts[n] + 1, cuts[n + 1] - 1)]

\* An open parenthesis at position p of s is matched when some later
\* prefix s[p..q] holds as many closes as opens.
Count(s, p, q, c) == Cardinality({r \in p..q : s[r] = c})

NoUnmatchedOpen(s) ==
    \A p \in DOMAIN s : s[p] = "(" =>
        \E q \in (p + 1)..Len(s) : Count(s, p, q, "(") = Count(s, p, q, ")")
=============================================================================
