----------------------------- MODULE TreeToPng -----------------------------
(***************************************************************************)
(* The script body of tools/statistics/tree2png.py: open the node-tree    *)
(* log, skip the two header lines, set up the 512x512 surface and the     *)
(* view of the reference tiles, parse and draw the points of line 3,      *)
(* parse and draw the split lines of line 4, and write the PNG.  Each     *)
(* parse is the one-step meaning of parse_points / parse_lines (TreeLog), *)
(* which the loop models ParsePoints and ParseLines are checked against.  *)
(* The surface is the sequence of primitives drawn on it, in user         *)
(* coordinates; the view maps all of them to device space the same way.  *)
(* Any exception ends the script before write_to_png.                     *)
(***************************************************************************)
EXTENDS TreeLog, Projector

CONSTANTS Logs,      \* the log files to run on: sequences of lines, or Missing
          Missing,   \* a log path that cannot be opened
          RefZoom, RefLo, RefHi,  \* the reference tiles of the view
          PointLists, LineLists,  \* the geometry of the well-formed logs
          Wrapped,   \* whether a geometry line is enclosed in one more "( )"
          Sep        \* what the log writes between two line groups

VARIABLES log,      \* the file being read
          pos,      \* the number of lines read so far
          pc,       \* the statement the script is at
          exc,      \* the exception that ended the script, once written
          view,     \* <<minX, minY, width, height>> once computed
          points,   \* the parsed points
          lines,    \* the parsed split lines
          surface,  \* the primitives drawn so far
          png       \* {the image write_to_png wrote}, or {}

vars == <<log, pos, pc, exc, view, points, lines, surface, png>>

\* f.readline(): the next line, "" at the end of the file.
ReadLine == IF pos < Len(log) THEN log[pos + 1] ELSE <<>>

\* The primitives "for p in points: cr.arc(...); cr.fill()" draws.
Dots(ps) == [n \in DOMAIN ps |-> <<"dot", ps[n]>>]

\* The primitives "for p1, p2 in lines: move_to, line_to, stroke" draws
\* before the first line that does not hold exactly two points.
Strokes(ls) ==
    LET bad == {n \in DOMAIN ls : Len(ls[n]) # 2}
        upto == IF bad = {} THEN Len(ls) ELSE Min(bad) - 1
    IN  [n \in 1..upto |-> <<"stroke", ls[n][1], ls[n][2]>>]

Init ==
    /\ log \in Logs
    /\ pos = 0 /\ pc = "open" /\ exc = "none"
    /\ view = <<0, 0, 0, 0>>
    /\ points = <<>> /\ lines = <<>> /\ surface = <<>>
    /\ png = {}

\* Mutant: the exception is not recorded.
RaiseKeepsExc(e) == pc' = "raised" /\ exc' = exc

Raise(e) == pc' = "raised" /\ exc' = e

\* f = open(log)
Open ==
    /\ pc = "open"
    /\ IF log = Missing THEN Raise("IOError") ELSE pc' = "header" /\ UNCHANGED exc
    /\ UNCHANGED <<log, pos, view, points, lines, surface, png>>

\* f.readline() # depth ; f.readline() # leafes
SkipHeader ==
    /\ pc = "header"
    /\ pos' = IF Len(log) < 2 THEN Len(log) ELSE 2
    /\ pc' = "view"
    /\ UNCHANGED <<log, exc, view, points, lines, surface, png>>

\* surface and context, paint white, then scale and translate so that the
\* reference tiles fill the surface.
SetView ==
    /\ pc = "view"
    /\ LET lo == TileToMercator(RefLo[1], RefLo[2], RefZoom)
           hi == TileToMercator(RefHi[1], RefHi[2], RefZoom)
       IN  view' = <<lo[1], lo[2], hi[1] - lo[1], hi[2] - lo[2]>>
    /\ surface' = <<>>
    /\ pc' = "nodes"
    /\ UNCHANGED <<log, pos, exc, points, lines, png>>

\* Mutant: parse_points starts at the first "(" instead of just after it.
ParseNodesAtParen ==
    /\ pc = "nodes"
    /\ pos' = pos + (IF pos < Len(log) THEN 1 ELSE 0)
    /\ LET nodes == ReadLine
           start == Find(nodes, <<"(">>, 0, Len(nodes))
           r == ParsePointsFn(nodes, start, Len(nodes))
       IN  IF start = -1 THEN Raise("ValueError") /\ UNCHANGED points
           ELSE IF r.exc # "none" THEN Raise(r.exc) /\ UNCHANGED points
           ELSE points' = r.ps /\ pc' = "dots" /\ UNCHANGED exc
    /\ UNCHANGED <<log, view, lines, surface, png>>

\* nodes = f.readline() ; start = nodes.index("(") ;
\* points = parse_points(nodes, start+1, len(nodes))
ParseNodes ==
    /\ pc = "nodes"
    /\ pos' = pos + (IF pos < Len(log) THEN 1 ELSE 0)
    /\ LET nodes == ReadLine
           start == Find(nodes, <<"(">>, 0, Len(nodes))
           r == ParsePointsFn(nodes, start + 1, Len(nodes))
       IN  IF start = -1 THEN Raise("ValueError") /\ UNCHANGED points
           ELSE IF r.exc # "none" THEN Raise(r.exc) /\ UNCHANGED points
           ELSE points' = r.ps /\ pc' = "dots" /\ UNCHANGED exc
    /\ UNCHANGED <<log, view, lines, surface, png>>

DrawPoints ==
    /\ pc = "dots"
    /\ surface' = surface \o Dots(points)
    /\ pc' = "split"
    /\ UNCHANGED <<log, pos, exc, view, points, lines, png>>

\* splitLines = f.readline() ; start = splitLines.index("(") ;
\* lines = parse_lines(splitLines, start+1, len(splitLines))
ParseSplitLines ==
    /\ pc = "split"
    /\ pos' = pos + (IF pos < Len(log) THEN 1 ELSE 0)
    /\ LET split == ReadLine
           start == Find(split, <<"(">>, 0, Len(split))
           r == ParseLinesFn(split, start + 1, Len(split))
       IN  IF start = -1 THEN Raise("ValueError") /\ UNCHANGED lines
           ELSE IF r.exc # "none" THEN Raise(r.exc) /\ UNCHANGED lines
           ELSE lines' = r.ps /\ pc' = "strokes" /\ UNCHANGED exc
    /\ UNCHANGED <<log, view, points, surface, png>>

\* for p1, p2 in lines: ... -- unpacking a line that does not hold two
\* points raises ValueError after the lines before it were stroked.
DrawLines ==
    /\ pc = "strokes"
    /\ surface' = surface \o Strokes(lines)
    /\ IF \A n \in DOMAIN lines : Len(lines[n]) = 2
       THEN pc' = "write" /\ UNCHANGED exc
       ELSE Raise("ValueError")
    /\ UNCHANGED <<log, pos, view, points, lines, png>>

\* surface.flush() ; surface.write_to_png(pic)
WritePng ==
    /\ pc = "write"
    /\ png' = {surface}
    /\ pc' = "exit"
    /\ UNCHANGED <<log, pos, exc, view, points, lines, surface>>

Next == Open \/ SkipHeader \/ SetView \/ ParseNodes \/ DrawPoints
        \/ ParseSplitLines \/ DrawLines \/ WritePng

Spec == Init /\ [][Next]_vars /\ WF_vars(Next)

Finished == pc \in {"exit", "raised"}

TypeOK ==
    /\ log = Missing \/ pos \in 0..Len(log)
    /\ pc \in {"open", "header", "view", "nodes", "dots", "split", "strokes",
               "write", "exit", "raised"}
    /\ exc \in Exceptions \cup {"IOError"}
    /\ (pc = "raised") <=> (exc # "none")
    /\ view \in Int \X Int \X Int \X Int
    /\ points \in Seq(Int \X Int)
    /\ lines \in Seq(Seq(Int \X Int))
    /\ png \in {{}, {surface}}

-----------------------------------------------------------------------------
Newline == <<"\n">>

\* A geometry line of the log: the serialisation, enclosed in one more pair
\* of parentheses when Wrapped, then the newline readline() keeps.
Body(text) == (IF Wrapped THEN <<"(">> \o text \o <<")">> ELSE text) \o Newline

\* The node-tree log of a point list and a line list (spec section 6): the
\* depth and leaf-count header lines, the points, the split lines.
TreeLogOf(pts, ls) ==
    << <<"2">> \o Newline, <<"3">> \o Newline,
       Body(SerializePoints(pts)), Body(SerializeLines(ls, Sep)) >>

(* End to end (spec section 8): run on the log of a point list and a     *)
(* line list, the script writes a PNG holding a dot for every point and a *)
(* stroke for every line, in log order.  This depends on the driver       *)
(* starting each parse just after the first "(" of its line and on        *)
(* parse_lines resuming correctly after each group.                       *)
LogsOf == [g \in PointLists \X LineLists |-> TreeLogOf(g[1], g[2])]   \* evaluated once

DrawsWholeLog ==
    (Finished /\ log # Missing) =>
        \A pts \in PointLists, ls \in LineLists :
            log = LogsOf[<<pts, ls>>] => png = {Dots(pts) \o Strokes(ls)}
=============================================================================
