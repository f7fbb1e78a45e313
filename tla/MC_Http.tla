------------------------------ MODULE MC_Http ------------------------------
(***************************************************************************)
(* The two scripts that send HEAD requests to the tile server: the        *)
(* crawler allTiles.py (TileCrawler, with the bounds of MC_TileCrawler)   *)
(* and the load test loadtest.py (LoadTest, two threads of two requests  *)
(* instead of 20 of 20).  Either script is run, chosen by `tool` in the  *)
(* initial state; the other one's state stays as it starts.  Both use    *)
(* getStatus, whose connection has no timeout, so with ServerMayStall a  *)
(* request may never be answered.                                         *)
(***************************************************************************)
EXTENDS MC_TileCrawler

CONSTANTS NThreads, Requests

VARIABLES tool, lmain, started, joined, tpc, ti, hits

Load == INSTANCE LoadTest

MCNThreads == 2
MCRequests == 2

loadvars == <<lmain, started, joined, tpc, ti, hits>>

hvars == <<tool, vars, loadvars>>

HInit == tool \in {"crawl", "load"} /\ Init /\ Load!Init

\* A step of the script that runs.
Crawling(A) == tool = "crawl" /\ A /\ UNCHANGED <<tool, loadvars>>
Loading(A) == tool = "load" /\ A /\ UNCHANGED <<tool, vars>>

HNext == Crawling(Next) \/ Loading(Load!Next)

\* Weak fairness per thread of the script that runs, as in TileCrawler:
\* the interpreter keeps switching threads; an unanswered request is not
\* a step anybody owes.
HSpec ==
    /\ HInit /\ [][HNext]_hvars
    /\ WF_hvars(Crawling(Main))
    /\ \A w \in Workers : WF_hvars(Crawling(Get(w) \/ Request(w) \/ Response(w) \/ TaskDone(w)))
    /\ WF_hvars(Loading(Load!Main))
    /\ \A x \in Load!Threads : WF_hvars(Loading(Load!Runs(x)))

ScriptDone == (tool = "crawl" /\ mpc = "done") \/ (tool = "load" /\ lmain = "end")

SomeRequestStalled ==
    \/ \E w \in Workers : wpc[w] = "stalled"
    \/ \E x \in Load!Threads : tpc[x] = "stalled"

(* Nothing but an unanswered request stops either script: the crawler's  *)
(* producer on the full queue, its workers on the empty one and its join, *)
(* and the load test's joins in list order, never all wait on each other. *)
OnlyStallsBlockScripts == <>(ScriptDone \/ SomeRequestStalled)

(* The script that was started ends: allTiles.py's q.join() returns, or  *)
(* loadtest.py joins all its threads and prints the time taken.          *)
ScriptEnds == <>ScriptDone
=============================================================================
