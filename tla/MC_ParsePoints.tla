--------------------------- MODULE MC_ParsePoints ---------------------------
(* parse_points over every short line and over serialised point lists.    *)
EXTENDS ParsePoints

\* Coordinates: zero, a negative and a two-digit value.
MCValues == {0, -1, 12}

\* Point lists of up to MaxPoints points.
MaxPoints == 2
MCPointLists == UNION {[1..n -> MCValues \X MCValues] : n \in 0..MaxPoints}

\* Every string of up to MaxChars characters over the scanner's delimiters,
\* a digit and a blank.
MaxChars == 5
Alphabet == {"(", ")", ",", "1", " "}
Lines == UNION {[1..n -> Alphabet] : n \in 0..MaxChars}

\* Calls as tree2png.py makes them on a whole line (end = len(line)), and,
\* for lines of up to 4 characters, every start and end.
MCCalls ==
    {<<SerializePoints(p), 0, Len(SerializePoints(p))>> : p \in MCPointLists}
    \cup {<<l, 0, Len(l)>> : l \in Lines}
    \cup UNION {{<<l, a, b>> : a \in 0..Len(l), b \in 0..Len(l)} :
                 l \in {m \in Lines : Len(m) <= 4}}
=============================================================================
