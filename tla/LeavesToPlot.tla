--------------------------- MODULE LeavesToPlot ---------------------------
(***************************************************************************)
(* tools/statistics/leaves2plot.py: read a leaf dump "L( R(x0,y0,x1,y1)   *)
(* ... ) L( ... ) ..." whole, and for each "L(" up to the next "L(" (or  *)
(* the end) collect the "R(" rectangles with parse_leaf / parse_rect,     *)
(* then fill each one with cr.rectangle(x0, y0, x1-x0, y1-y0).  The      *)
(* searches are str.find with Python's bounds: parse_leaf passes          *)
(* nextRect = -1 as the end of the last rectangle's ")" search, which    *)
(* Python reads as len(data) - 1.  Exceptions (ValueError from int() or   *)
(* from unpacking a rectangle that does not have four values, IOError    *)
(* from open) end the script before write_to_png.                        *)
(***************************************************************************)
EXTENDS LeafDump, Projector

CONSTANTS Dumps,     \* the leaf dumps to run on (strings), or Missing
          Missing,   \* a dump path that cannot be opened
          LeafLists  \* the leaves (lists of rectangles) of well-formed dumps

VARIABLES dump,     \* leaves = f.read()
          pc,       \* the statement the script is at
          exc,      \* the exception that ended it, once written
          view,     \* <<minX, minY, width, height>> of the reference tiles
          pos,      \* the "L(" of the leaf being read
          end,      \* where that leaf ends
          rpos,     \* parse_leaf's pos: the "R(" being parsed
          rects,    \* parse_leaf's list of rectangles
          surface,  \* the rectangles filled so far
          png       \* {the image write_to_png wrote}, or {}

vars == <<dump, pc, exc, view, pos, end, rpos, rects, surface, png>>

\* The rectangles "for (x0, y0, x1, y1) in rects: cr.rectangle(...)" fills
\* before the first one that does not unpack into four values.
Boxes(rs) ==
    LET bad == {n \in DOMAIN rs : Len(rs[n]) # 4}
        upto == IF bad = {} THEN Len(rs) ELSE Min(bad) - 1
    IN  [n \in 1..upto |-> <<rs[n][1], rs[n][2], rs[n][3] - rs[n][1], rs[n][4] - rs[n][2]>>]

Init ==
    /\ dump \in Dumps
    /\ pc = "open" /\ exc = "none"
    /\ view = <<0, 0, 0, 0>>
    /\ pos = 0 /\ end = 0 /\ rpos = 0 /\ rects = <<>>
    /\ surface = <<>> /\ png = {}

\* Mutant: the exception is not recorded.
RaiseKeepsExc(e) == pc' = "raised" /\ exc' = exc

Raise(e) == pc' = "raised" /\ exc' = e

\* f = open(log) ; surface, paint, view of tiles (267,174)-(271,178) at
\* zoom 9 ; leaves = f.read() ; pos = leaves.find("L(", start)
Open ==
    /\ pc = "open"
    /\ IF dump = Missing
       THEN Raise("IOError") /\ UNCHANGED <<view, pos>>
       ELSE /\ LET lo == TileToMercator(267, 174, 9)
                   hi == TileToMercator(271, 178, 9)
               IN  view' = <<lo[1], lo[2], hi[1] - lo[1], hi[2] - lo[2]>>
            /\ pos' = Find(dump, L, 0, Len(dump))
            /\ pc' = "leaf" /\ UNCHANGED exc
    /\ UNCHANGED <<dump, end, rpos, rects, surface, png>>

\* Mutant: the next "L(" is searched from the current one.
NextLeafHere == Find(dump, L, pos, Len(dump))

\* end = leaves.find("L(", pos + 1)
NextLeaf == Find(dump, L, pos + 1, Len(dump))

\* while pos >= 0 and pos < len(leaves):
\*     end = NextLeaf ; end = end > 0 and end or len(leaves)
\*     rects = parse_leaf(leaves, pos, end)  -- its first find
LeafHead ==
    /\ pc = "leaf"
    /\ IF pos >= 0 /\ pos < Len(dump)
       THEN LET e == NextLeaf
                eEnd == IF e > 0 THEN e ELSE Len(dump)
            IN  /\ end' = eEnd
                /\ rpos' = Find(dump, R, pos, eEnd)
                /\ rects' = <<>>
                /\ pc' = "rect"
       ELSE pc' = "write" /\ UNCHANGED <<end, rpos, rects>>
    /\ UNCHANGED <<dump, exc, view, pos, surface, png>>

\* parse_leaf: while pos > 0 and pos < end:
\*     nextRect = data.find("R(", pos+1, end)
\*     rect = parse_rect(data, pos, nextRect) ; rects.append(rect) ; pos = nextRect
\* parse_rect: closing = data.find(")", start, end)
\*     values = [int(n.strip()) for n in data[start+2:closing].split(",")]
\* The fields of the rectangle at rpos: nextRect, then the ")" search
\* bounded by it, then the text between "R(" and ")" split at commas.
NextRect == Find(dump, R, rpos + 1, end)
\* Mutant: the fields are sliced from the "(" of "R(".
FieldsFromParen == SplitOn(Slice(dump, rpos + 1, Find(dump, <<")">>, rpos, NextRect)), ",")

Fields == SplitOn(Slice(dump, rpos + 2, Find(dump, <<")">>, rpos, NextRect)), ",")

RectStep ==
    /\ pc = "rect"
    /\ rpos > 0 /\ rpos < end
    /\ LET fields == Fields
       IN  IF \A n \in DOMAIN fields : IsInt(fields[n])
           THEN /\ rects' = Append(rects, [n \in DOMAIN fields |-> IntVal(fields[n])])
                /\ rpos' = NextRect
                /\ UNCHANGED <<pc, exc>>
           ELSE Raise("ValueError") /\ UNCHANGED <<rpos, rects>>
    /\ UNCHANGED <<dump, view, pos, end, surface, png>>

\* the loop of parse_leaf ends: no further "R(" before end
LeafParsed ==
    /\ pc = "rect"
    /\ ~(rpos > 0 /\ rpos < end)
    /\ pc' = "draw"
    /\ UNCHANGED <<dump, exc, view, pos, end, rpos, rects, surface, png>>

\* for (x0, y0, x1, y1) in rects: cr.rectangle(...) ; cr.fill()
\* pos = end
DrawLeaf ==
    /\ pc = "draw"
    /\ surface' = surface \o Boxes(rects)
    /\ IF \A n \in DOMAIN rects : Len(rects[n]) = 4
       THEN pos' = end /\ pc' = "leaf" /\ UNCHANGED exc
       ELSE Raise("ValueError") /\ UNCHANGED pos
    /\ UNCHANGED <<dump, view, end, rpos, rects, png>>

\* surface.flush() ; surface.write_to_png(pic)
WritePng ==
    /\ pc = "write"
    /\ png' = {surface} /\ pc' = "exit"
    /\ UNCHANGED <<dump, exc, view, pos, end, rpos, rects, surface>>

Next == Open \/ LeafHead \/ RectStep \/ LeafParsed \/ DrawLeaf \/ WritePng

\* One thread runs the script to its end.
Spec == Init /\ [][Next]_vars /\ WF_vars(Next)

Finished == pc \in {"exit", "raised"}

TypeOK ==
    /\ pc \in {"open", "leaf", "rect", "draw", "write", "exit", "raised"}
    /\ exc \in {"none", "IOError", "ValueError"}
    /\ (pc = "raised") <=> (exc # "none")
    /\ view \in Int \X Int \X Int \X Int
    /\ pos \in Int /\ end \in Int /\ rpos \in Int
    /\ rects \in Seq(Seq(Int))
    /\ png \in {{}, {surface}}

-----------------------------------------------------------------------------
(* Round trip (spec section 8): run on the dump of a list of leaves, the *)
(* script writes a PNG that fills every rectangle of every leaf, leaves   *)
(* in order and each leaf's rectangles in order.  It rests on the find    *)
(* bounds: each leaf ends at the next "L(", each rectangle's fields end   *)
(* at its ")" even for the last rectangle, whose search end is -1.        *)
DumpsOf == [ls \in LeafLists |-> DumpOf(ls)]   \* evaluated once by TLC

LeafRoundTrip ==
    (Finished /\ dump # Missing) =>
        \A ls \in LeafLists :
            dump = DumpsOf[ls] => png = {Boxes(FlattenSeq(ls))}

(* The script ends, with its image or an exception, on every dump: both *)
(* loops of the code terminate only because each find starts one past   *)
(* the match it moves from (leaves2plot.py:25 and :63); a search from    *)
(* the match itself finds it again, and the loop never moves.             *)
Terminates == <>Finished

(* Fail fast (spec sections 4.2 and 7): a PNG is written only from a dump *)
(* in which every "(" is closed; a dump cut short must not yield an image *)
(* that silently lacks the rest of the leaves.                           *)
ImageOnlyFromBalancedDump ==
    png # {} => NoUnmatchedOpen(dump)
=============================================================================
