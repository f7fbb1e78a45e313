----------------------------- MODULE LoadTest -----------------------------
(***************************************************************************)
(* tools/statistics/loadtest.py: the main thread starts `concurrent`      *)
(* daemon threads, appending each to `threads`; thread x requests the 20 *)
(* tiles (34288+x, 22493+i), i in range(20), one after the other with    *)
(* getStatus; then the main thread joins the threads in list order and   *)
(* prints the time taken.  getStatus is the crawler's (TileCrawler): a    *)
(* request returns an answer or "error", or, the connection having no    *)
(* timeout, never returns when the server accepts it and never answers.  *)
(***************************************************************************)
EXTENDS Integers, FiniteSets

CONSTANTS NThreads,        \* concurrent
          Requests,        \* the requests per thread: range(20)
          ServerMayStall   \* whether a request may never be answered

Threads == 1..NThreads

VARIABLES lmain,    \* the main thread: "start", "join", "end"
          started,  \* len(threads): the threads started so far
          joined,   \* the threads joined so far, in list order
          tpc,      \* each thread: "new", "req", "wait", "stalled", "done"
          ti,       \* the loop index i of each thread
          hits      \* the requests <<x, i>> that have returned

loadvars == <<lmain, started, joined, tpc, ti, hits>>

Init ==
    /\ lmain = "start" /\ started = 0 /\ joined = 0
    /\ tpc = [x \in Threads |-> "new"]
    /\ ti = [x \in Threads |-> 0]
    /\ hits = {}

\* t = Thread(target=doWork, args=(i,)); t.daemon = True; t.start();
\* threads.append(t)
StartThread ==
    /\ lmain = "start" /\ started < NThreads
    /\ tpc' = [tpc EXCEPT ![started + 1] = "req"]
    /\ started' = started + 1
    /\ UNCHANGED <<lmain, joined, ti, hits>>

\* The for loop over range(concurrent) ends.
StartJoin ==
    /\ lmain = "start" /\ started = NThreads
    /\ lmain' = "join"
    /\ UNCHANGED <<started, joined, tpc, ti, hits>>

\* Mutant: thread.join() returns before the thread has ended.
JoinNoWait ==
    /\ lmain = "join" /\ joined < NThreads
    /\ joined' = joined + 1
    /\ UNCHANGED <<lmain, started, tpc, ti, hits>>

\* thread.join() for the next thread of the list: waits until it ended.
JoinThread ==
    /\ lmain = "join" /\ joined < NThreads
    /\ tpc[joined + 1] = "done"
    /\ joined' = joined + 1
    /\ UNCHANGED <<lmain, started, tpc, ti, hits>>

\* Every thread joined: end = time.time(), print; the script exits and
\* takes the daemon threads with it.
Finish ==
    /\ lmain = "join" /\ joined = NThreads
    /\ lmain' = "end"
    /\ UNCHANGED <<started, joined, tpc, ti, hits>>

\* getStatus(url): conn.request("HEAD", ...) for i < 20.
Request(x) ==
    /\ lmain # "end" /\ tpc[x] = "req" /\ ti[x] < Requests
    /\ tpc' = [tpc EXCEPT ![x] = "wait"]
    /\ UNCHANGED <<lmain, started, joined, ti, hits>>

\* conn.getresponse() returns, or the bare except returns "error".
Response(x) ==
    /\ lmain # "end" /\ tpc[x] = "wait"
    /\ hits' = hits \cup {<<x, ti[x]>>}
    /\ ti' = [ti EXCEPT ![x] = ti[x] + 1]
    /\ tpc' = [tpc EXCEPT ![x] = "req"]
    /\ UNCHANGED <<lmain, started, joined>>

\* The server never answers; getresponse() waits forever.
Stall(x) ==
    /\ ServerMayStall
    /\ lmain # "end" /\ tpc[x] = "wait"
    /\ tpc' = [tpc EXCEPT ![x] = "stalled"]
    /\ UNCHANGED <<lmain, started, joined, ti, hits>>

\* The loop over range(20) ends and doWork returns.
ThreadEnd(x) ==
    /\ lmain # "end" /\ tpc[x] = "req" /\ ti[x] = Requests
    /\ tpc' = [tpc EXCEPT ![x] = "done"]
    /\ UNCHANGED <<lmain, started, joined, ti, hits>>

Main == StartThread \/ StartJoin \/ JoinThread \/ Finish

Worker(x) == Request(x) \/ Response(x) \/ Stall(x) \/ ThreadEnd(x)

Next == Main \/ \E x \in Threads : Worker(x)

\* The steps a thread takes whenever it can run, the server answering.
Runs(x) == Request(x) \/ Response(x) \/ ThreadEnd(x)

-----------------------------------------------------------------------------
\* The load test seen as HeadRequests over the 20 requests <<x, i>> of
\* each of its threads: a request is back when getStatus has returned, and
\* the script has ended once the main thread printed the time.
Abstract == INSTANCE HeadRequests
                WITH Items <- Threads \X (0..(Requests - 1)), answered <- hits,
                     ended <- (lmain = "end")

(* The load test implements HeadRequests: requests come back one at a    *)
(* time, and the main thread prints the time taken only when every       *)
(* thread has had an answer to each of its requests: the joins in list  *)
(* order wait for every thread, also one that ends after a later thread  *)
(* of the list.                                                          *)
ImplementsHeadRequests == Abstract!Spec
=============================================================================
