--------------------------- MODULE MC_TileCrawler ---------------------------
(* Two workers instead of CONCURRENT = 20, the queue sized CONCURRENT * 2 *)
(* as in the code, and zooms 0..2 instead of 0..17: seven columns, so     *)
(* the producer meets a full queue, and columns of one, two and four      *)
(* tiles, so workers finish out of order.                                 *)
EXTENDS TileCrawler

CONSTANTS w1, w2

MCWorkers == {w1, w2}
MCQueueSize == 2 * Cardinality(MCWorkers)
MCMaxZoom == 3

=============================================================================
