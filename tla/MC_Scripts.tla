----------------------------- MODULE MC_Scripts -----------------------------
(***************************************************************************)
(* The scripts that turn input files into one output: tree2png            *)
(* (TreeToPng), leaves2plot (LeavesToPlot), and, run again and again,    *)
(* gprof2html (Gprof2Html) and lcov.py (Lcov); and the two scripts that *)
(* send HEAD requests to the tile server, the crawler allTiles.py         *)
(* (TileCrawler) and the load test loadtest.py (LoadTest).  Which script  *)
(* runs is chosen by `tool` in the initial state; the others keep the    *)
(* state they start in without input and never step.  leaves2plot's     *)
(* variables that share a name with tree2png's are renamed with an "l".  *)
(***************************************************************************)
EXTENDS TreeToPng, LeafDump

CONSTANTS Dumps, LeafLists, Profiles, NoGmon, NoFile, Objs, MaxBuild,
          Workers, QueueSize, MaxZoom, ServerMayStall, NThreads, Requests,
          w1, w2

VARIABLES tool,
          dump, lpc, lexc, lview, lpos, end, rpos, rects, lsurface, lpng,
          gmon, prof, page, gpc, f, gi, rows, gexc,
          built, bver, gcda, cpc, todo, traces, cov, report,
          queue, unfinished, next, mpc, wpc, job, wi, requested,
          lmain, started, joined, tpc, ti, hits

LV == INSTANCE LeavesToPlot
        WITH pc <- lpc, exc <- lexc, view <- lview, pos <- lpos,
             surface <- lsurface, png <- lpng

G == INSTANCE Gprof2Html

C == INSTANCE Lcov

T == INSTANCE TileCrawler

Load == INSTANCE LoadTest

-----------------------------------------------------------------------------
(* tree2png.py on well-formed, truncated and malformed node-tree logs.   *)

\* The view of tree2png.py: tiles (8572, 5623) to (8577, 5628) at zoom 14.
MCRefZoom == 14
MCRefLo == <<8572, 5623>>
MCRefHi == <<8577, 5628>>

\* Points and split lines with coordinates 0 and -1, and the geometry of
\* the end-to-end example of the spec (section 8).
MCPts == {<<0, 0>>, <<-1, 0>>}
ExamplePoints == << <<0, 0>>, <<10, 10>>, <<20, 20>> >>
ExampleLines == << << <<0, 0>>, <<10, 10>> >>, << <<10, 10>>, <<20, 20>> >> >>
MCPointLists == {<<>>, ExamplePoints} \cup {<<p>> : p \in MCPts}
                \cup {<<p, q>> : p, q \in MCPts}
MCLineLists == {<<>>, ExampleLines} \cup {<< <<p, q>> >> : p, q \in MCPts}
               \cup {<< <<p, q>>, <<q, p>> >> : p, q \in MCPts}

Blank == <<" ">>
BackToBack == <<>>

\* Logs whose geometry lines are short strings over the delimiters, to
\* reach every exception of the script.
Junk == UNION {[1..n -> {"(", ")", ",", "1"}] : n \in 0..4}
MalformedLogs ==
    {<<>>, << <<"2">> \o Newline >>}
    \cup {<< <<"2">> \o Newline, <<"3">> \o Newline, j \o Newline >> : j \in Junk}
    \cup {<< <<"2">> \o Newline, <<"3">> \o Newline, <<"(", "(", "0", ",", "0", ")", ")">>,
             j \o Newline >> : j \in Junk}

\* The log of the spec's end-to-end example:
\* "2\n3\n(0,0)(10,10)(20,20)\n((0,0)(10,10))((10,10)(20,20))\n".
ExampleLogs == {TreeLogOf(ExamplePoints, ExampleLines)}

MCLogs == {Missing} \cup MalformedLogs
          \cup {TreeLogOf(p, l) : p \in MCPointLists, l \in MCLineLists}

-----------------------------------------------------------------------------
(* leaves2plot.py on well-formed leaf dumps, on every truncation of them *)
(* and on short strings over the dump's tokens.                          *)

\* A rectangle, an inverted one with a negative corner.
MCRects == {<<0, 0, 1, 1>>, <<1, 0, -1, 0>>}
MCLeaves == {<<>>} \cup {<<r>> : r \in MCRects} \cup {<<r, t>> : r, t \in MCRects}
\* Up to two leaves of up to two rectangles.
MCLeafLists == {<<>>} \cup {<<a>> : a \in MCLeaves}
               \cup {<<a, b>> : a \in MCLeaves, b \in {<<>>, <<<<0, 0, 1, 1>>>>}}

WellFormed == {DumpOf(ls) : ls \in MCLeafLists}

\* Every proper prefix of a well-formed dump: the file cut short.
Truncated == UNION {{SubSeq(d, 1, n) : n \in 0..(Len(d) - 1)} : d \in WellFormed}

\* Short strings over the tokens of the dump.
DumpJunk == UNION {[1..n -> {"L", "R", "(", ")", ",", "1"}] : n \in 0..4}

MCDumps == {Missing} \cup WellFormed \cup Truncated \cup DumpJunk

-----------------------------------------------------------------------------
(* gprof2html.py with profiles of up to two functions, named by one word *)
(* or by four (a C++ signature), counted or not, all with samples; and  *)
(* for a profile gprof has no time for, one counted function.            *)

Entries == [fn : {"f", "g"}, called : BOOLEAN, words : {1, 4}, sampled : {TRUE}]

MCProfiles == {<<>>} \cup {<<e>> : e \in Entries}
              \cup {<<e, d>> : e \in Entries,
                              d \in {[fn |-> "g", called |-> FALSE, words |-> 4, sampled |-> TRUE]}}

NoTimeProfiles == MCProfiles \cup {<<[fn |-> "f", called |-> TRUE, words |-> 1, sampled |-> FALSE]>>}

-----------------------------------------------------------------------------
treevars == vars
leafvars == <<dump, lpc, lexc, lview, lpos, end, rpos, rects, lsurface, lpng>>
gvars == <<gmon, prof, page, gpc, f, gi, rows, gexc>>
(* lcov.py over a library object file, the main files of the server and *)
(* of a unit test (the same file name in two object directories; the    *)
(* test's sources are under tests/), and geodata.cpp, which the walk     *)
(* leaves out; builds 0 and 1.                                           *)
Obj(dirs, file, matched) == [dirs |-> dirs, file |-> file, matched |-> matched]
MCObjs == {Obj(<<"alacarte.dir", "server">>, "cache.cpp.gcda", FALSE),
           Obj(<<"alacarte-server.dir", "server">>, "main.cpp.gcda", FALSE),
           Obj(<<"unitTests_eval.dir", "tests", "eval">>, "main.cpp.gcda", TRUE),
           Obj(<<"alacarte.dir", "general">>, "geodata.cpp.gcda", FALSE)}
MCMaxBuild == 1

-----------------------------------------------------------------------------
(* allTiles.py with two workers instead of CONCURRENT = 20, the queue    *)
(* sized CONCURRENT * 2 as in the code, and zooms 0..2 instead of 0..17: *)
(* seven columns, so the producer meets a full queue, and columns of one, *)
(* two and four tiles, so workers finish out of order.  loadtest.py with *)
(* two threads of two requests instead of 20 of 20.                      *)
MCWorkers == {w1, w2}
MCQueueSize == 2 * Cardinality(MCWorkers)
MCMaxZoom == 3
MCNThreads == 2
MCRequests == 2

cvars == <<built, bver, gcda, cpc, todo, traces, cov, report>>
crawlvars == <<queue, unfinished, next, mpc, wpc, job, wi, requested>>
loadvars == <<lmain, started, joined, tpc, ti, hits>>
others == <<crawlvars, loadvars>>
svars == <<tool, treevars, leafvars, gvars, cvars, others>>

\* The scripts that do not run start without input.
Idle(t) ==
    /\ t # "tree" => log = Missing
    /\ t # "leaves" => dump = Missing
    /\ t # "gprof" => gmon = NoGmon
    /\ t # "lcov" => built = Objs

ScriptInit ==
    \E t \in {"tree", "leaves", "gprof", "lcov", "crawl", "load"} :
        /\ tool = t /\ Idle(t) /\ Init /\ LV!Init /\ G!Init /\ C!Init
        /\ T!Init /\ Load!Init

\* A step of one script, the others' state unchanged.
Tree(A) == tool = "tree" /\ A /\ UNCHANGED <<tool, leafvars, gvars, cvars, others>>
Leaves(A) == tool = "leaves" /\ A /\ UNCHANGED <<tool, treevars, gvars, cvars, others>>
Gprof(A) == tool = "gprof" /\ A /\ UNCHANGED <<tool, treevars, leafvars, cvars, others>>
Lcov(A) == tool = "lcov" /\ A /\ UNCHANGED <<tool, treevars, leafvars, gvars, others>>
Crawling(A) == tool = "crawl" /\ A /\ UNCHANGED <<tool, treevars, leafvars, gvars, cvars, loadvars>>
Loading(A) == tool = "load" /\ A /\ UNCHANGED <<tool, treevars, leafvars, gvars, cvars, crawlvars>>

ScriptNext ==
    \/ Tree(Next) \/ Leaves(LV!Next) \/ Gprof(G!Next) \/ Lcov(C!Next)
    \/ Crawling(T!Next) \/ Loading(Load!Next)

\* In the crawler and the load test every thread keeps getting turns from
\* the interpreter; an unanswered request is not a step anybody owes.
\* Only one script runs in a behaviour, so weak fairness of a disjunction
\* of steps of different scripts is weak fairness of the one that runs: a
\* worker of the crawler is paired with every thread of the load test.
\* leaves2plot.py is one thread that runs to its end once started, so its
\* steps are owed: LeavesFair is WF_svars(Leaves(LV!Next)) written out,
\* with ENABLED replaced by LeavesRunning.  The two agree, since every
\* statement the script can be at before it has finished has a step
\* (open, leaf, draw and write one each, rect RectStep or LeafParsed by
\* complementary guards), and the stated form spares TLC evaluating
\* parse_rect's string operations under ENABLED in every state.
\* tree2png and the steps of a gprof2html or lcov.py run once started are
\* owed too; no liveness property is checked of them, so that fairness is
\* left out, and what holds here holds with it.  The runs of gprof2html
\* and lcov.py, the server's profiling, builds and deletions are started
\* by a person, and never owed.
MainSteps == Crawling(T!Main) \/ Loading(Load!Main)

ThreadSteps(w, x) ==
    \/ Crawling(T!Get(w) \/ T!Request(w) \/ T!Response(w) \/ T!TaskDone(w))
    \/ Loading(Load!Runs(x))

LeavesRunning == tool = "leaves" /\ ~LV!Finished

LeavesFair == <>[]LeavesRunning => []<><<Leaves(LV!Next)>>_svars

ScriptSpec ==
    /\ ScriptInit /\ [][ScriptNext]_svars
    /\ WF_svars(MainSteps)
    /\ LeavesFair
    /\ \A w \in Workers, x \in Load!Threads : WF_svars(ThreadSteps(w, x))

LeavesTypeOK == LV!TypeOK
LeafRoundTrip == LV!LeafRoundTrip
(* leaves2plot.py, run on any dump, comes to its end (see Terminates). *)
LeavesTerminates == tool = "leaves" => LV!Terminates
ImageOnlyFromBalancedDump == LV!ImageOnlyFromBalancedDump
GprofTypeOK == G!TypeOK
PageShowsServerProf == G!PageShowsServerProf
EveryGcdaReported == C!EveryGcdaReported
ReportNeverForgets == C!ReportNeverForgets
ReportOfThisRun == C!ReportOfThisRun
CrawlTypeOK == T!TypeOK
UnfinishedCountsColumns == T!UnfinishedCountsColumns
CrawlerImplementsHeadRequests == T!ImplementsHeadRequests
LoadTestImplementsHeadRequests == Load!ImplementsHeadRequests

HttpDone == (tool = "crawl" /\ mpc = "done") \/ (tool = "load" /\ lmain = "end")

SomeRequestStalled ==
    \/ \E w \in Workers : wpc[w] = "stalled"
    \/ \E x \in Load!Threads : tpc[x] = "stalled"

(* Nothing but an unanswered request stops the crawler or the load test: *)
(* the crawler's producer on the full queue, its workers on the empty    *)
(* one and its join, and the load test's joins in list order, never all *)
(* wait on each other.                                                   *)
OnlyStallsBlockScripts ==
    tool \in {"crawl", "load"} => <>(HttpDone \/ SomeRequestStalled)
=============================================================================
