----------------------------- MODULE LeafDump -----------------------------
(* The delimiters leaves2plot.py searches for, and the text of a leaf     *)
(* dump as the spec describes it.                                        *)
EXTENDS PyStr

\* The markers the script's str.find calls look for.
L == <<"L", "(">>
R == <<"R", "(">>

(* The leaf-dump grammar of the spec (sections 4.2 and 6):               *)
(* "L( R(x0,y0,x1,y1) R(...) ... ) L(...) ...", ended by a newline.      *)
RectText(r) ==
    R \o Str(r[1]) \o <<",">> \o Str(r[2]) \o <<",">> \o Str(r[3])
      \o <<",">> \o Str(r[4]) \o <<")">>

LeafText(rs) == L \o FlattenSeq([n \in DOMAIN rs |-> <<" ">> \o RectText(rs[n])]) \o <<" ", ")">>

DumpOf(ls) ==
    FlattenSeq([n \in DOMAIN ls |-> (IF n = 1 THEN <<>> ELSE <<" ">>) \o LeafText(ls[n])])
    \o <<"\n">>
=============================================================================
