---------------------------- MODULE MC_Numerics ----------------------------
(***************************************************************************)
(* The pure numeric operators of the tools, each checked against what it *)
(* must compute over bounded inputs: tileToMercator over every tile       *)
(* corner of zooms 0..4 and html.py's median over sorted sample lists.   *)
(* The state is the input the operator is asked for; any    *)
(* input may be asked for next.                                           *)
(***************************************************************************)
EXTENDS Projector, HtmlStats, FiniteSets

\* Tile corners (tx, ty) in 0..2^z: the renderers use the far corner too.
Tiles == UNION {{<<tx, ty, z>> : tx, ty \in 0..2^z} : z \in 0..4}

\* Sample values with repeats and gaps, in sorted lists of length 1..4.
Values == {0, 1, 5, 200}
SortedLists == {l \in UNION {[1..n -> Values] : n \in 1..4} :
                   \A k \in 1..(Len(l) - 1) : l[k] <= l[k + 1]}

\* One input at a time, in a record whose unused fields are empty.
Probe(k, t, s) == [kind |-> k, tile |-> t, samples |-> s]
Probes == {Probe("tile", t, <<>>) : t \in Tiles}
          \cup {Probe("samples", <<>>, l) : l \in SortedLists}

VARIABLE probe

ProbeInit == probe \in Probes

Ask == \E p \in Probes : probe' = p

ProbeSpec == ProbeInit /\ [][Ask]_probe

-----------------------------------------------------------------------------
Neg(p) == <<-p[1], -p[2]>>

(* Odd symmetry (spec section 8): tileToMercator maps the corners (tx, ty) *)
(* and (n-tx, n-ty) of one zoom to exact negations.  The real values are  *)
(* negations; int() keeps that only because it truncates toward zero.     *)
OddSymmetry ==
    probe.kind = "tile" =>
        LET t == probe.tile
            n == 2^t[3]
        IN  TileToMercator(n - t[1], n - t[2], t[3]) = Neg(TileToMercator(t[1], t[2], t[3]))

(* Zoom nesting: tileToMercator maps the corner (tx, ty) of zoom z and    *)
(* (2tx, 2ty) of zoom z+1 to the same point, so the renderers' reference  *)
(* corners can be given at any zoom: tx * 2.0 / n is exact before the     *)
(* scaling by NORM.                                                       *)
ZoomNesting ==
    probe.kind = "tile" =>
        LET t == probe.tile
        IN  TileToMercator(2 * t[1], 2 * t[2], t[3] + 1) = TileToMercator(t[1], t[2], t[3])

\* The k-th smallest element of l, by counting, not by position.
KthSmallest(l, k) ==
    CHOOSE v \in Range(l) :
        /\ Cardinality({i \in DOMAIN l : l[i] < v}) < k
        /\ Cardinality({i \in DOMAIN l : l[i] <= v}) >= k

(* calcMedian's index arithmetic on a sorted list picks the middle order *)
(* statistic for odd lengths and the floor of the mean of the two middle *)
(* ones for even lengths.                                                 *)
MedianIsOrderStatistic ==
    probe.kind = "samples" =>
        LET l == probe.samples
            n == Len(l)
        IN  CalcMedian(l) = IF n % 2 = 1 THEN KthSmallest(l, (n + 1) \div 2)
                            ELSE (KthSmallest(l, n \div 2) + KthSmallest(l, n \div 2 + 1)) \div 2
=============================================================================
