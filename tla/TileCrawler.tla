---------------------------- MODULE TileCrawler ----------------------------
(***************************************************************************)
(* tools/statistics/allTiles.py: the main thread starts CONCURRENT daemon *)
(* workers, puts one job [x, z] per tile column of every zoom z < 18 into *)
(* Queue(CONCURRENT*2), blocking while it is full, and then calls q.join().*)
(* A worker loops forever: q.get() (blocking while the queue is empty),  *)
(* one HEAD request per tile (x, z, i) of the column, i < 2^z, then       *)
(* q.task_done().  The Queue methods hold the queue's mutex for their     *)
(* whole body and wait on its conditions in a while loop, so each one is *)
(* one atomic step enabled exactly when its wait condition is false.      *)
(* getStatus catches every exception, so a request that fails still      *)
(* returns; but the connection has no timeout, so a server that accepts *)
(* a request and never answers blocks the worker forever (Stall).         *)
(***************************************************************************)
EXTENDS Integers, Sequences, FiniteSets

CONSTANTS Workers,        \* the worker threads (CONCURRENT of them)
          QueueSize,      \* maxsize of the queue: CONCURRENT * 2
          MaxZoom,        \* the producer's range(18)
          ServerMayStall  \* whether a request may never be answered

\* The jobs in the order the producer puts them: for z, for x.
Columns(z) == [x \in 1..2^z |-> <<x - 1, z>>]

RECURSIVE JobsFrom(_)
JobsFrom(z) == IF z >= MaxZoom THEN <<>> ELSE Columns(z) \o JobsFrom(z + 1)

Jobs == JobsFrom(0)

\* Every tile a job stands for: <<x, z, i>> for i in range(2**zoom).
TilesOf(job) == {<<job[1], job[2], i>> : i \in 0..(2^job[2] - 1)}

AllTiles == UNION {TilesOf(Jobs[n]) : n \in DOMAIN Jobs}

NoJob == <<-1, -1>>

VARIABLES queue,       \* the items in the Queue, oldest first
          unfinished,  \* the Queue's unfinished_tasks
          next,        \* the index in Jobs of the producer's next put
          mpc,         \* the main thread: "put", "join", "done"
          wpc,         \* each worker: "get", "req", "wait", "stalled", "dead"
          job,         \* the job a worker holds
          wi,          \* the loop index i of a worker
          requested    \* the tiles whose request has returned

vars == <<queue, unfinished, next, mpc, wpc, job, wi, requested>>

Init ==
    /\ queue = <<>> /\ unfinished = 0
    /\ next = 1 /\ mpc = "put"
    /\ wpc = [w \in Workers |-> "get"]
    /\ job = [w \in Workers |-> NoJob]
    /\ wi = [w \in Workers |-> 0]
    /\ requested = {}

\* Mutant: the put does not wait for room in the queue.
PutNoWait ==
    /\ mpc = "put" /\ next <= Len(Jobs)
    /\ queue' = Append(queue, Jobs[next])
    /\ unfinished' = unfinished + 1
    /\ next' = next + 1
    /\ UNCHANGED <<mpc, wpc, job, wi, requested>>

\* Mutant: the loop index is not advanced, the first job is put again.
PutSameJob ==
    /\ mpc = "put" /\ next <= Len(Jobs)
    /\ Len(queue) < QueueSize
    /\ queue' = Append(queue, Jobs[next])
    /\ unfinished' = unfinished + 1
    /\ UNCHANGED <<mpc, next, wpc, job, wi, requested>>

\* q.put([x, z], block=True): waits while qsize() == maxsize, then appends
\* the item and increments unfinished_tasks.
Put ==
    /\ mpc = "put" /\ next <= Len(Jobs)
    /\ Len(queue) < QueueSize
    /\ queue' = Append(queue, Jobs[next])
    /\ unfinished' = unfinished + 1
    /\ next' = next + 1
    /\ UNCHANGED <<mpc, wpc, job, wi, requested>>

\* The for loops end: the main thread calls q.join().
StartJoin ==
    /\ mpc = "put" /\ next > Len(Jobs)
    /\ mpc' = "join"
    /\ UNCHANGED <<queue, unfinished, next, wpc, job, wi, requested>>

\* Mutant: the main thread waits for an empty queue instead of join().
JoinWhenEmpty ==
    /\ mpc = "join" /\ queue = <<>>
    /\ mpc' = "done"
    /\ UNCHANGED <<queue, unfinished, next, wpc, job, wi, requested>>

\* q.join(): waits while unfinished_tasks != 0; then the elapsed time is
\* printed and the script ends, taking the daemon workers with it.
Join ==
    /\ mpc = "join" /\ unfinished = 0
    /\ mpc' = "done"
    /\ UNCHANGED <<queue, unfinished, next, wpc, job, wi, requested>>

\* list = q.get(): waits while the queue is empty, then takes the oldest;
\* the for loop starts at i = 0.
Get(w) ==
    /\ mpc # "done" /\ wpc[w] = "get" /\ queue # <<>>
    /\ job' = [job EXCEPT ![w] = Head(queue)]
    /\ queue' = Tail(queue)
    /\ wi' = [wi EXCEPT ![w] = 0]
    /\ wpc' = [wpc EXCEPT ![w] = "req"]
    /\ UNCHANGED <<unfinished, next, mpc, requested>>

\* getStatus(url): conn.request("HEAD", ...) sends the request.
Request(w) ==
    /\ mpc # "done" /\ wpc[w] = "req" /\ wi[w] < 2^job[w][2]
    /\ wpc' = [wpc EXCEPT ![w] = "wait"]
    /\ UNCHANGED <<queue, unfinished, next, mpc, job, wi, requested>>

\* Mutant: task_done() indented into the for loop, once per tile.
ResponseTaskDone(w) ==
    /\ mpc # "done" /\ wpc[w] = "wait"
    /\ requested' = requested \cup {<<job[w][1], job[w][2], wi[w]>>}
    /\ wi' = [wi EXCEPT ![w] = wi[w] + 1]
    /\ wpc' = [wpc EXCEPT ![w] = "req"]
    /\ unfinished' = unfinished - 1
    /\ UNCHANGED <<queue, next, mpc, job>>

\* conn.getresponse() returns, or raises and the bare except returns
\* "error": either way the tile is done and the loop moves on.
Response(w) ==
    /\ mpc # "done" /\ wpc[w] = "wait"
    /\ requested' = requested \cup {<<job[w][1], job[w][2], wi[w]>>}
    /\ wi' = [wi EXCEPT ![w] = wi[w] + 1]
    /\ wpc' = [wpc EXCEPT ![w] = "req"]
    /\ UNCHANGED <<queue, unfinished, next, mpc, job>>

\* The server never answers: with no timeout on the connection the worker
\* waits in getresponse() forever.
Stall(w) ==
    /\ ServerMayStall
    /\ mpc # "done" /\ wpc[w] = "wait"
    /\ wpc' = [wpc EXCEPT ![w] = "stalled"]
    /\ UNCHANGED <<queue, unfinished, next, mpc, job, wi, requested>>

\* The column is done: q.task_done() decrements unfinished_tasks and the
\* worker loops back to q.get().  Below zero task_done raises ValueError,
\* which nothing catches: the worker thread dies.
TaskDone(w) ==
    /\ mpc # "done" /\ wpc[w] = "req" /\ wi[w] >= 2^job[w][2]
    /\ IF unfinished > 0
       THEN /\ unfinished' = unfinished - 1
            /\ wpc' = [wpc EXCEPT ![w] = "get"]
            /\ job' = [job EXCEPT ![w] = NoJob]
       ELSE wpc' = [wpc EXCEPT ![w] = "dead"] /\ UNCHANGED <<unfinished, job>>
    /\ UNCHANGED <<queue, next, mpc, wi, requested>>

Main == Put \/ StartJoin \/ Join

Worker(w) == Get(w) \/ Request(w) \/ Response(w) \/ Stall(w) \/ TaskDone(w)

Next == Main \/ \E w \in Workers : Worker(w)

\* Python threads are preempted by the interpreter, so every thread that
\* can run keeps getting turns: weak fairness per thread.  A stalled
\* request is a thread with nothing enabled, not an unfair scheduler.
Spec == Init /\ [][Next]_vars /\ WF_vars(Main)
        /\ \A w \in Workers : WF_vars(Get(w) \/ Request(w) \/ Response(w) \/ TaskDone(w))

-----------------------------------------------------------------------------
TypeOK ==
    /\ queue \in Seq(Nat \X Nat) /\ Len(queue) <= QueueSize
    /\ unfinished \in Nat
    /\ next \in 1..(Len(Jobs) + 1)
    /\ mpc \in {"put", "join", "done"}
    /\ wpc \in [Workers -> {"get", "req", "wait", "stalled", "dead"}]
    /\ job \in [Workers -> (Nat \X Nat) \cup {NoJob}]
    /\ wi \in [Workers -> Nat]
    /\ requested \subseteq AllTiles

(* unfinished_tasks counts exactly the columns put and not yet finished: *)
(* those still in the queue and those a worker holds.  The worker must   *)
(* call task_done once per get, and only after the column's last tile.   *)
UnfinishedCountsColumns ==
    unfinished = Len(queue) + Cardinality({w \in Workers : job[w] # NoJob})

\* The crawler seen as HeadRequests over every tile of every zoom below
\* MaxZoom: a tile is back when its getStatus has returned, and the script
\* has ended once q.join() returned.
Abstract == INSTANCE HeadRequests
                WITH Items <- AllTiles, answered <- requested, ended <- (mpc = "done")

(* The crawler implements HeadRequests: tiles come back one at a time,  *)
(* every one a tile of the crawl; q.join() returns, and the script       *)
(* prints its total, only when every tile's request has come back; and   *)
(* the daemon workers, killed at exit, had nothing left to do.  Whatever *)
(* order the workers take the columns in and finish them.               *)
ImplementsHeadRequests == Abstract!Spec
=============================================================================
