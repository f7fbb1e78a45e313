--------------------------- MODULE MC_ParseLines ---------------------------
(* parse_lines over every short line and over serialised line lists.     *)
EXTENDS ParseLines

\* Each line group holds two points; coordinates are 0 or -1.
MCValues == {0, -1}
MCPoints == MCValues \X MCValues

\* Lists of up to two lines of two points each.
MCLineLists == {<<>>} \cup {<<<<p, q>>>> : p, q \in MCPoints}
               \cup {<<<<p, q>>, <<r, t>>>> : p, q, r, t \in {<<0, 0>>, <<-1, 0>>}}

\* Every string of up to MaxChars characters over the delimiters and a
\* digit: enough for a group holding one point, "((1,1))", to be cut short.
MaxChars == 6
Alphabet == {"(", ")", ",", "1"}
Lines == UNION {[1..n -> Alphabet] : n \in 0..MaxChars}

\* The separator between groups: a blank, or nothing (back to back, as the
\* spec's grammar and its end-to-end example write them).
Blank == <<" ">>
BackToBack == <<>>

MCCalls ==
    {<<SerializeLines(l, Sep), 0, Len(SerializeLines(l, Sep))>> : l \in MCLineLists}
    \cup {<<l, 0, Len(l)>> : l \in Lines}
    \cup UNION {{<<l, a, b>> : a \in 0..Len(l), b \in 0..Len(l)} :
                 l \in {m \in Lines : Len(m) <= 4}}
=============================================================================
