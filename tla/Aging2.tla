------------------------------- MODULE Aging2 -------------------------------
(***************************************************************************)
(* The Aging2 experiment: the master thread (experiment::details::         *)
(* Aging2Master, src/experiment/details/aging2_master.cpp), its pool of    *)
(* worker threads, the build service and the progress reporter, driving    *)
(* the system under test (module GraphSUT).                                *)
(*                                                                         *)
(* The master is translated from its source.  Aging2Worker, BuildThread   *)
(* and the progress reporter are not under src/; they follow sections 4.3 *)
(* to 4.5 of the spec.  Time is not modelled: a sleep is a step that may   *)
(* be taken at any moment, and the clock a worker stamps a report with is  *)
(* abstracted by the number of operations completed when it reads it.     *)
(***************************************************************************)
EXTENDS Integers, Sequences, SequencesExt, FiniteSets

CONSTANTS
  NumThreads,        \* m_num_threads: number of worker threads T
  Log,               \* EDGES section: a sequence of batches of [src, dst, weight]
  TempVertices,      \* VTX_TEMP section: the artificial vertices to remove
  Granularity,       \* m_worker_granularity: operations between two progress reports
  NumReportsPerOps,  \* m_num_reports_per_operations
  BuildFrequency,    \* m_build_frequency (ms); 0 = no build service
  MaxBuilds          \* bound on the build() calls made by the build service

ASSUME NumThreads >= 1 /\ Granularity >= 1 /\ NumReportsPerOps >= 1
ASSUME BuildFrequency \in Nat /\ MaxBuilds \in Nat

VARIABLES sutV, sutE, snapV, snapE, sutThreads, sutMain, sutDeclared
SUT == INSTANCE GraphSUT
sutVars == <<sutV, sutE, snapV, snapE, sutThreads, sutMain, sutDeclared>>

VARIABLES
  mpc,           \* master: where Aging2Master is in execute()
  a1,            \* which of the two edge buffers is array1 (load_edges)
  buf,           \* the two edge buffers array1 / array2
  pos,           \* next batch the EdgeLoader returns
  numEdges,      \* num_edges: size of the batch last returned by the loader
  randomVertex,  \* m_results.m_random_vertex_id
  cmds,          \* per worker: commands posted by the master, not yet completed
  wpc,           \* per worker: state of its OS thread
  queue,         \* per worker: its queue of update operations
  cur,           \* per worker: the operation in progress
  todo,          \* per worker: endpoints of cur still to check in vertices_contained
  pend,          \* per worker: vertex it claimed but did not yet add_vertex (0 = none)
  chunk,         \* per worker: operations taken in the current chunk
  rep,           \* per worker: progress report in progress
  ridx,          \* per worker: next index of the temporary vertices it removes
  claimed,       \* vertices_contained, the process-wide set gating add_vertex
  completed,     \* completed-operations counter
  lastProgress,  \* m_last_progress_reported: last bucket claimed
  lastTime,      \* m_last_time_reported: entries of m_reported_times to store
  stamps,        \* writes to m_reported_times: [slot, time, by]
  bpc,           \* build service thread
  stopReq,       \* build service stop flag
  builds,        \* build() calls of the build service
  vbuf,          \* remove_vertices: the buffer of temporary vertices
  vbufLive,      \* ... and whether it is still allocated
  result,        \* the Aging2Result fields the master stores
  retried        \* history: some add_edge returned false and was retried

masterVars == <<mpc, a1, buf, pos, numEdges, randomVertex, vbuf, vbufLive, result>>
workerVars == <<cmds, wpc, queue, cur, todo, pend, chunk, rep, ridx, claimed, retried>>
progVars == <<completed, lastProgress, lastTime, stamps>>
buildVars == <<bpc, stopReq, builds>>
vars == <<masterVars, workerVars, progVars, buildVars, sutVars>>

-----------------------------------------------------------------------------
(* Thread ids given to the library: workers 0..T-1, master T, builder T+1. *)
Workers == 0 .. NumThreads - 1
MasterId == NumThreads
BuilderId == NumThreads + 1

NoOp == [src |-> 0, dst |-> 0, weight |-> 0]
NoReport == [stage |-> "none", last |-> 0, bucket |-> 0]

IsInsertion(o) == o.weight > 0
EdgeOf(o) == SUT!Edge(o.src, o.dst)

(* The properties the master reads from the log header, as the log        *)
(* generator computes them.                                                *)
LogOps == FlattenSeq(Log)
NumOperationsTotal == Len(LogOps)
LogVertices == {LogOps[i].src : i \in DOMAIN LogOps} \cup {LogOps[i].dst : i \in DOMAIN LogOps}
OpsOn(e) == SelectSeq(LogOps, LAMBDA o : EdgeOf(o) = e)
NetEdges == {e \in {EdgeOf(o) : o \in ToSet(LogOps)} : IsInsertion(Last(OpsOn(e)))}
NumEdgesLoad == Cardinality(NetEdges)
FinalVertices == LogVertices \ ToSet(TempVertices)

ASSUME NumEdgesLoad >= NumReportsPerOps

Batch(i) == IF i <= Len(Log) THEN Log[i] ELSE << >>

CeilDiv(a, b) == (a + b - 1) \div b

(* aging2_master.cpp:76, the length of m_reported_times.                  *)
ReportedTimesLen == CeilDiv(NumOperationsTotal, NumEdgesLoad) + 1

(* Operations between two progress reports (spec 4.5).                     *)
Quantum == NumEdgesLoad \div NumReportsPerOps

(* Partitioning rule of Aging2Worker::load_edges (spec 4.3): a hash of the *)
(* sorted endpoints, modulo T.                                             *)
EdgeHash(lo, hi) == 2 * lo + hi
Partition(o) ==
  LET lo == IF o.src < o.dst THEN o.src ELSE o.dst
      hi == IF o.src < o.dst THEN o.dst ELSE o.src
  IN  EdgeHash(lo, hi) % NumThreads

Share(batch, w) == SelectSeq(batch, LAMBDA o : Partition(o) = w)

(* set_random_vertex_id: source of the first insertion of the batch.      *)
RandomVertexOf(batch) ==
  LET ins == SelectSeq(batch, IsInsertion)
  IN  IF ins = << >> THEN 0 ELSE Head(ins).src

Post(c) == [w \in Workers |-> Append(cmds[w], c)]
AllWaited == \A w \in Workers : cmds[w] = << >>

-----------------------------------------------------------------------------
Init ==
  /\ SUT!SutInit
  /\ mpc = "init"
  /\ a1 = 1
  /\ buf = << << >>, << >> >>
  /\ pos = 1
  /\ numEdges = 0
  /\ randomVertex = 0
  /\ cmds = [w \in Workers |-> << >>]
  /\ wpc = [w \in Workers |-> "none"]
  /\ queue = [w \in Workers |-> << >>]
  /\ cur = [w \in Workers |-> NoOp]
  /\ todo = [w \in Workers |-> << >>]
  /\ pend = [w \in Workers |-> 0]
  /\ chunk = [w \in Workers |-> 0]
  /\ rep = [w \in Workers |-> NoReport]
  /\ ridx = [w \in Workers |-> w]
  /\ claimed = {}
  /\ completed = 0
  /\ lastProgress = 0
  /\ lastTime = 0
  /\ stamps = {}
  /\ bpc = "none"
  /\ stopReq = FALSE
  /\ builds = 0
  /\ vbuf = << >>
  /\ vbufLive = FALSE
  /\ result = [numV |-> 0, numE |-> 0, reported |-> 0, builds |-> 0]
  /\ retried = FALSE

-----------------------------------------------------------------------------
(***************************************************************************)
(* Master.                                                                 *)
(***************************************************************************)

(* Aging2Master::Aging2Master up to init_workers(): on_main_init(T + 2),    *)
(* then one Aging2Worker, and its thread, per worker id.                  *)
MasterInit ==
  /\ mpc = "init"
  /\ SUT!OnMainInit(NumThreads + 2)
  /\ wpc' = [w \in Workers |-> "spawned"]
  /\ mpc' = "init_thread"
  /\ UNCHANGED <<a1, buf, pos, numEdges, randomVertex, vbuf, vbufLive, result>>
  /\ UNCHANGED <<cmds, queue, cur, todo, pend, chunk, rep, ridx, claimed, retried>>
  /\ UNCHANGED <<progVars, buildVars>>

(* The constructor's last call: on_thread_init(T) for the master thread.  *)
MasterThreadInit ==
  /\ mpc = "init_thread"
  /\ SUT!OnThreadInit(MasterId)
  /\ mpc' = "load_open"
  /\ UNCHANGED <<a1, buf, pos, numEdges, randomVertex, vbuf, vbufLive, result>>
  /\ UNCHANGED <<workerVars, progVars, buildVars>>

(* load_edges: open the log, read the first batch into array1.            *)
LoadOpen ==
  /\ mpc = "load_open"
  /\ buf' = [buf EXCEPT ![a1] = Batch(1)]
  /\ numEdges' = Len(Batch(1))
  /\ pos' = 2
  /\ mpc' = IF Len(Batch(1)) > 0 THEN "load_dispatch" ELSE "run_start"
  /\ UNCHANGED <<a1, randomVertex, vbuf, vbufLive, result>>
  /\ UNCHANGED <<workerVars, progVars, buildVars, sutVars>>

(* Faulty variant: set_random_vertex_id called for every batch, not only *)
(* while m_random_vertex_id is still 0.                                    *)
LoadDispatchReseed ==
  /\ mpc = "load_dispatch"
  /\ cmds' = Post([kind |-> "load", slot |-> a1])
  /\ randomVertex' = IF RandomVertexOf(buf[a1]) /= 0 THEN RandomVertexOf(buf[a1])
                                                     ELSE randomVertex
  /\ mpc' = "load_next"
  /\ UNCHANGED <<a1, buf, pos, numEdges, vbuf, vbufLive, result>>
  /\ UNCHANGED <<wpc, queue, cur, todo, pend, chunk, rep, ridx, claimed, retried>>
  /\ UNCHANGED <<progVars, buildVars, sutVars>>

(* Hand array1 to every worker; seed the random vertex id from it.        *)
LoadDispatch ==
  /\ mpc = "load_dispatch"
  /\ cmds' = Post([kind |-> "load", slot |-> a1])
  /\ randomVertex' = IF randomVertex = 0 THEN RandomVertexOf(buf[a1])
                                         ELSE randomVertex
  /\ mpc' = "load_next"
  /\ UNCHANGED <<a1, buf, pos, numEdges, vbuf, vbufLive, result>>
  /\ UNCHANGED <<wpc, queue, cur, todo, pend, chunk, rep, ridx, claimed, retried>>
  /\ UNCHANGED <<progVars, buildVars, sutVars>>

(* Faulty variant: the next batch is read into array1, the buffer the     *)
(* workers are partitioning.                                               *)
LoadNextIntoArray1 ==
  /\ mpc = "load_next"
  /\ buf' = IF Len(Batch(pos)) > 0 THEN [buf EXCEPT ![a1] = Batch(pos)]
                                   ELSE buf
  /\ numEdges' = Len(Batch(pos))
  /\ pos' = pos + 1
  /\ mpc' = "load_wait"
  /\ UNCHANGED <<a1, randomVertex, vbuf, vbufLive, result>>
  /\ UNCHANGED <<workerVars, progVars, buildVars, sutVars>>

(* Meanwhile read the next batch into array2; an exhausted loader returns *)
(* 0 and leaves the buffer alone.                                          *)
LoadNext ==
  /\ mpc = "load_next"
  /\ buf' = IF Len(Batch(pos)) > 0 THEN [buf EXCEPT ![3 - a1] = Batch(pos)]
                                   ELSE buf
  /\ numEdges' = Len(Batch(pos))
  /\ pos' = pos + 1
  /\ mpc' = "load_wait"
  /\ UNCHANGED <<a1, randomVertex, vbuf, vbufLive, result>>
  /\ UNCHANGED <<workerVars, progVars, buildVars, sutVars>>

(* Faulty variant: swap and go on without waiting for the workers.        *)
LoadWaitNoBarrier ==
  /\ mpc = "load_wait"
  /\ a1' = 3 - a1
  /\ mpc' = IF numEdges > 0 THEN "load_dispatch" ELSE "run_start"
  /\ UNCHANGED <<buf, pos, numEdges, randomVertex, vbuf, vbufLive, result>>
  /\ UNCHANGED <<workerVars, progVars, buildVars, sutVars>>

(* Wait for every worker, swap the buffers, loop while num_edges > 0.     *)
LoadWait ==
  /\ mpc = "load_wait"
  /\ AllWaited
  /\ a1' = 3 - a1
  /\ mpc' = IF numEdges > 0 THEN "load_dispatch" ELSE "run_start"
  /\ UNCHANGED <<buf, pos, numEdges, randomVertex, vbuf, vbufLive, result>>
  /\ UNCHANGED <<workerVars, progVars, buildVars, sutVars>>

(* do_run_experiment: reset the progress counters, start the build        *)
(* service, broadcast execute_updates.                                     *)
RunStart ==
  /\ mpc = "run_start"
  /\ lastProgress' = 0
  /\ lastTime' = 0
  /\ bpc' = IF BuildFrequency > 0 THEN "spawned" ELSE "inert"
  /\ cmds' = Post([kind |-> "exec", slot |-> 0])
  /\ mpc' = "run_wait"
  /\ UNCHANGED <<a1, buf, pos, numEdges, randomVertex, vbuf, vbufLive, result>>
  /\ UNCHANGED <<wpc, queue, cur, todo, pend, chunk, rep, ridx, claimed, retried>>
  /\ UNCHANGED <<completed, stamps, stopReq, builds, sutVars>>

(* Wait for the workers, then build_service.stop(): raise the flag ...    *)
RunWait ==
  /\ mpc = "run_wait"
  /\ AllWaited
  /\ stopReq' = TRUE
  /\ mpc' = "run_join"
  /\ UNCHANGED <<a1, buf, pos, numEdges, randomVertex, vbuf, vbufLive, result>>
  /\ UNCHANGED <<workerVars, progVars, bpc, builds, sutVars>>

(* ... and join it; then build() to flush the last changes.               *)
RunJoin ==
  /\ mpc = "run_join"
  /\ bpc \in {"exited", "inert"}
  /\ SUT!Build
  /\ result' = [result EXCEPT !.builds = builds]
  /\ mpc' = "remove"
  /\ UNCHANGED <<a1, buf, pos, numEdges, randomVertex, vbuf, vbufLive>>
  /\ UNCHANGED <<workerVars, progVars, buildVars>>

(* remove_vertices: read VTX_TEMP into a local buffer, hand it out.       *)
RemoveStart ==
  /\ mpc = "remove"
  /\ vbuf' = TempVertices
  /\ vbufLive' = TRUE
  /\ cmds' = Post([kind |-> "remove", slot |-> 0])
  /\ mpc' = "remove_wait"
  /\ UNCHANGED <<a1, buf, pos, numEdges, randomVertex, result>>
  /\ UNCHANGED <<wpc, queue, cur, todo, pend, chunk, rep, ridx, claimed, retried>>
  /\ UNCHANGED <<progVars, buildVars, sutVars>>

(* Faulty variants: leave remove_vertices without the final build(), or   *)
(* without waiting for the workers.                                        *)
RemoveWaitNoBuild ==
  /\ mpc = "remove_wait"
  /\ AllWaited
  /\ vbufLive' = FALSE
  /\ mpc' = "store"
  /\ UNCHANGED <<a1, buf, pos, numEdges, randomVertex, vbuf, result>>
  /\ UNCHANGED <<workerVars, progVars, buildVars, sutVars>>

RemoveWaitNoBarrier ==
  /\ mpc = "remove_wait"
  /\ SUT!Build
  /\ vbufLive' = FALSE
  /\ mpc' = "store"
  /\ UNCHANGED <<a1, buf, pos, numEdges, randomVertex, vbuf, result>>
  /\ UNCHANGED <<workerVars, progVars, buildVars>>

(* Wait, build(), and leave the function, which frees the buffer.         *)
RemoveWait ==
  /\ mpc = "remove_wait"
  /\ AllWaited
  /\ SUT!Build
  /\ vbufLive' = FALSE
  /\ mpc' = "store"
  /\ UNCHANGED <<a1, buf, pos, numEdges, randomVertex, vbuf, result>>
  /\ UNCHANGED <<workerVars, progVars, buildVars>>

(* store_results and log_num_vtx_edges.                                    *)
StoreResults ==
  /\ mpc = "store"
  /\ result' = [result EXCEPT !.numV = SUT!NumVertices, !.numE = SUT!NumEdges,
                              !.reported = lastTime]
  /\ mpc' = "destroy"
  /\ UNCHANGED <<a1, buf, pos, numEdges, randomVertex, vbuf, vbufLive>>
  /\ UNCHANGED <<workerVars, progVars, buildVars, sutVars>>

(* ~Aging2Master: delete every worker (each stops and joins its thread).   *)
DeleteWorkers ==
  /\ mpc = "destroy"
  /\ cmds' = Post([kind |-> "shutdown", slot |-> 0])
  /\ mpc' = "destroy_wait"
  /\ UNCHANGED <<a1, buf, pos, numEdges, randomVertex, vbuf, vbufLive, result>>
  /\ UNCHANGED <<wpc, queue, cur, todo, pend, chunk, rep, ridx, claimed, retried>>
  /\ UNCHANGED <<progVars, buildVars, sutVars>>

(* Faulty variant: the worker threads are not joined before the master   *)
(* unregisters.                                                            *)
MasterThreadDestroyNoJoin ==
  /\ mpc = "destroy_wait"
  /\ SUT!OnThreadDestroy(MasterId)
  /\ mpc' = "main_destroy"
  /\ UNCHANGED <<a1, buf, pos, numEdges, randomVertex, vbuf, vbufLive, result>>
  /\ UNCHANGED <<workerVars, progVars, buildVars>>

(* Then on_thread_destroy(T) ...                                           *)
MasterThreadDestroy ==
  /\ mpc = "destroy_wait"
  /\ \A w \in Workers : wpc[w] = "exited"
  /\ SUT!OnThreadDestroy(MasterId)
  /\ mpc' = "main_destroy"
  /\ UNCHANGED <<a1, buf, pos, numEdges, randomVertex, vbuf, vbufLive, result>>
  /\ UNCHANGED <<workerVars, progVars, buildVars>>

(* ... and on_main_destroy().                                              *)
MainDestroy ==
  /\ mpc = "main_destroy"
  /\ SUT!OnMainDestroy
  /\ mpc' = "done"
  /\ UNCHANGED <<a1, buf, pos, numEdges, randomVertex, vbuf, vbufLive, result>>
  /\ UNCHANGED <<workerVars, progVars, buildVars>>

Master ==
  \/ MasterInit \/ MasterThreadInit
  \/ LoadOpen \/ LoadDispatch \/ LoadNext \/ LoadWait
  \/ RunStart \/ RunWait \/ RunJoin
  \/ RemoveStart \/ RemoveWait
  \/ StoreResults \/ DeleteWorkers \/ MasterThreadDestroy \/ MainDestroy

-----------------------------------------------------------------------------
(***************************************************************************)
(* Worker w (Aging2Worker, spec 4.3).  Its thread registers with the       *)
(* library, then serves the master's commands one at a time; a command     *)
(* leaves cmds[w] when it completes, which is what wait() waits for.       *)
(***************************************************************************)
Cmd(w) == Head(cmds[w])
Serving(w, kind) == wpc[w] = "running" /\ cmds[w] /= << >> /\ Cmd(w).kind = kind
Done(w) == cmds' = [cmds EXCEPT ![w] = Tail(@)]

WorkerStart(w) ==
  /\ wpc[w] = "spawned"
  /\ SUT!OnThreadInit(w)
  /\ wpc' = [wpc EXCEPT ![w] = "running"]
  /\ UNCHANGED <<masterVars, cmds, queue, cur, todo, pend, chunk, rep, ridx, claimed, retried>>
  /\ UNCHANGED <<progVars, buildVars>>

(* LoadEdges: append the operations of the buffer this worker owns.       *)
WorkerLoadEdges(w) ==
  /\ Serving(w, "load")
  /\ queue' = [queue EXCEPT ![w] = @ \o Share(buf[Cmd(w).slot], w)]
  /\ Done(w)
  /\ UNCHANGED <<masterVars, wpc, cur, todo, pend, chunk, rep, ridx, claimed, retried>>
  /\ UNCHANGED <<progVars, buildVars, sutVars>>

(* ExecuteUpdates: take the next operation of the current chunk; an       *)
(* Faulty variant: the operation is read but left at the head of the queue. *)
TakeOpPeek(w) ==
  /\ Serving(w, "exec")
  /\ cur[w] = NoOp /\ rep[w] = NoReport
  /\ chunk[w] < Granularity
  /\ queue[w] /= << >>
  /\ cur' = [cur EXCEPT ![w] = Head(queue[w])]
  /\ todo' = [todo EXCEPT ![w] = IF IsInsertion(Head(queue[w]))
                                 THEN << Head(queue[w]).src, Head(queue[w]).dst >>
                                 ELSE << >>]
  /\ chunk' = [chunk EXCEPT ![w] = @ + 1]
  /\ UNCHANGED <<masterVars, cmds, wpc, queue, pend, rep, ridx, claimed, retried>>
  /\ UNCHANGED <<progVars, buildVars, sutVars>>

(* insertion first checks both endpoints in vertices_contained.            *)
TakeOp(w) ==
  /\ Serving(w, "exec")
  /\ cur[w] = NoOp /\ rep[w] = NoReport
  /\ chunk[w] < Granularity
  /\ queue[w] /= << >>
  /\ cur' = [cur EXCEPT ![w] = Head(queue[w])]
  /\ queue' = [queue EXCEPT ![w] = Tail(@)]
  /\ todo' = [todo EXCEPT ![w] = IF IsInsertion(Head(queue[w]))
                                 THEN << Head(queue[w]).src, Head(queue[w]).dst >>
                                 ELSE << >>]
  /\ chunk' = [chunk EXCEPT ![w] = @ + 1]
  /\ UNCHANGED <<masterVars, cmds, wpc, pend, rep, ridx, claimed, retried>>
  /\ UNCHANGED <<progVars, buildVars, sutVars>>

(* Faulty variant: vertices_contained is updated but add_vertex is never  *)
(* called, as if add_edge created missing endpoints itself.               *)
ClaimVertexNoAdd(w) ==
  /\ cur[w] /= NoOp /\ pend[w] = 0 /\ todo[w] /= << >>
  /\ claimed' = claimed \cup {Head(todo[w])}
  /\ todo' = [todo EXCEPT ![w] = Tail(@)]
  /\ UNCHANGED <<masterVars, cmds, wpc, queue, cur, pend, chunk, rep, ridx, retried>>
  /\ UNCHANGED <<progVars, buildVars, sutVars>>

(* Insert the endpoint into vertices_contained; the worker that finds it  *)
(* absent is the one that will call add_vertex.                           *)
ClaimVertex(w) ==
  /\ cur[w] /= NoOp /\ pend[w] = 0 /\ todo[w] /= << >>
  /\ claimed' = claimed \cup {Head(todo[w])}
  /\ pend' = [pend EXCEPT ![w] = IF Head(todo[w]) \notin claimed THEN Head(todo[w]) ELSE 0]
  /\ todo' = [todo EXCEPT ![w] = Tail(@)]
  /\ UNCHANGED <<masterVars, cmds, wpc, queue, cur, chunk, rep, ridx, retried>>
  /\ UNCHANGED <<progVars, buildVars, sutVars>>

AddClaimedVertex(w) ==
  /\ pend[w] /= 0
  /\ SUT!AddVertex(pend[w])
  /\ pend' = [pend EXCEPT ![w] = 0]
  /\ UNCHANGED <<masterVars, cmds, wpc, queue, cur, todo, chunk, rep, ridx, claimed, retried>>
  /\ UNCHANGED <<progVars, buildVars>>

Ready(w) == cur[w] /= NoOp /\ todo[w] = << >> /\ pend[w] = 0
Finish(w) ==
  /\ cur' = [cur EXCEPT ![w] = NoOp]
  /\ completed' = completed + 1

(* add_edge succeeds: the operation is complete.                           *)
InsertEdge(w) ==
  /\ Ready(w) /\ IsInsertion(cur[w])
  /\ SUT!AddEdgeSucceeds(cur[w].src, cur[w].dst)
  /\ SUT!AddEdge(cur[w].src, cur[w].dst)
  /\ Finish(w)
  /\ UNCHANGED <<masterVars, cmds, wpc, queue, todo, pend, chunk, rep, ridx, claimed, retried>>
  /\ UNCHANGED <<lastProgress, lastTime, stamps, buildVars>>

(* add_edge returns false, an endpoint is still in flight on another       *)
(* worker: re-enqueue the operation at the tail (spec 4.3, 7).             *)
RetryEdge(w) ==
  /\ Ready(w) /\ IsInsertion(cur[w])
  /\ ~SUT!AddEdgeSucceeds(cur[w].src, cur[w].dst)
  /\ queue' = [queue EXCEPT ![w] = Append(@, cur[w])]
  /\ cur' = [cur EXCEPT ![w] = NoOp]
  /\ retried' = TRUE
  /\ UNCHANGED <<masterVars, cmds, wpc, todo, pend, chunk, rep, ridx, claimed>>
  /\ UNCHANGED <<progVars, buildVars, sutVars>>

RemoveEdge(w) ==
  /\ Ready(w) /\ ~IsInsertion(cur[w])
  /\ SUT!RemoveEdge(cur[w].src, cur[w].dst)
  /\ Finish(w)
  /\ UNCHANGED <<masterVars, cmds, wpc, queue, todo, pend, chunk, rep, ridx, claimed, retried>>
  /\ UNCHANGED <<lastProgress, lastTime, stamps, buildVars>>

(* Progress reporter (spec 4.5), called after every chunk: read the       *)
(* counter; when its bucket is past the last one reported, try to claim   *)
(* the buckets in between ...                                              *)
ChunkEnded(w) ==
  /\ Serving(w, "exec")
  /\ cur[w] = NoOp /\ rep[w] = NoReport /\ chunk[w] > 0
  /\ chunk[w] = Granularity \/ queue[w] = << >>

ReportRead(w) ==
  /\ ChunkEnded(w)
  /\ LET bucket == completed \div Quantum
     IN  IF bucket > lastProgress
         THEN /\ rep' = [rep EXCEPT ![w] = [stage |-> "cas", last |-> lastProgress,
                                            bucket |-> bucket]]
              /\ UNCHANGED chunk
         ELSE /\ chunk' = [chunk EXCEPT ![w] = 0]
              /\ UNCHANGED rep
  /\ UNCHANGED <<masterVars, cmds, wpc, queue, cur, todo, pend, ridx, claimed, retried>>
  /\ UNCHANGED <<progVars, buildVars, sutVars>>

(* Faulty variant: a plain store instead of the compare-and-swap.         *)
ReportCasBlind(w) ==
  /\ rep[w].stage = "cas"
  /\ lastProgress' = rep[w].bucket
  /\ rep' = [rep EXCEPT ![w].stage = "stamp"]
  /\ UNCHANGED <<masterVars, cmds, wpc, queue, cur, todo, pend, chunk, ridx, claimed, retried>>
  /\ UNCHANGED <<completed, lastTime, stamps, buildVars, sutVars>>

(* ... by a compare-and-swap of the last bucket; the loser moves on ...   *)
ReportCas(w) ==
  /\ rep[w].stage = "cas"
  /\ IF lastProgress = rep[w].last
     THEN /\ lastProgress' = rep[w].bucket
          /\ rep' = [rep EXCEPT ![w].stage = "stamp"]
          /\ UNCHANGED chunk
     ELSE /\ rep' = [rep EXCEPT ![w] = NoReport]
          /\ chunk' = [chunk EXCEPT ![w] = 0]
          /\ UNCHANGED lastProgress
  /\ UNCHANGED <<masterVars, cmds, wpc, queue, cur, todo, pend, ridx, claimed, retried>>
  /\ UNCHANGED <<completed, lastTime, stamps, buildVars, sutVars>>

(* Faulty variant: bucket b stamped into slot b instead of b - 1.         *)
ReportStampOffByOne(w) ==
  /\ rep[w].stage = "stamp"
  /\ stamps' = stamps \cup {[slot |-> b, time |-> completed, by |-> w] :
                             b \in rep[w].last + 1 .. rep[w].bucket}
  /\ lastTime' = rep[w].bucket
  /\ rep' = [rep EXCEPT ![w] = NoReport]
  /\ chunk' = [chunk EXCEPT ![w] = 0]
  /\ UNCHANGED <<masterVars, cmds, wpc, queue, cur, todo, pend, ridx, claimed, retried>>
  /\ UNCHANGED <<completed, lastProgress, buildVars, sutVars>>

(* ... and the winner stamps every bucket it claimed with the time.        *)
ReportStamp(w) ==
  /\ rep[w].stage = "stamp"
  /\ stamps' = stamps \cup {[slot |-> b - 1, time |-> completed, by |-> w] :
                             b \in rep[w].last + 1 .. rep[w].bucket}
  /\ lastTime' = rep[w].bucket
  /\ rep' = [rep EXCEPT ![w] = NoReport]
  /\ chunk' = [chunk EXCEPT ![w] = 0]
  /\ UNCHANGED <<masterVars, cmds, wpc, queue, cur, todo, pend, ridx, claimed, retried>>
  /\ UNCHANGED <<completed, lastProgress, buildVars, sutVars>>

ExecDone(w) ==
  /\ Serving(w, "exec")
  /\ queue[w] = << >> /\ cur[w] = NoOp /\ chunk[w] = 0 /\ rep[w] = NoReport
  /\ Done(w)
  /\ UNCHANGED <<masterVars, wpc, queue, cur, todo, pend, chunk, rep, ridx, claimed, retried>>
  /\ UNCHANGED <<progVars, buildVars, sutVars>>

(* RemoveVertices: remove_vertex on the entries w, w + T, w + 2T, ... of  *)
(* the master's buffer.                                                    *)
RemoveTempVertex(w) ==
  /\ Serving(w, "remove")
  /\ ridx[w] < Len(vbuf)
  /\ SUT!RemoveVertex(vbuf[ridx[w] + 1])
  /\ ridx' = [ridx EXCEPT ![w] = @ + NumThreads]
  /\ UNCHANGED <<masterVars, cmds, wpc, queue, cur, todo, pend, chunk, rep, claimed, retried>>
  /\ UNCHANGED <<progVars, buildVars>>

RemoveDone(w) ==
  /\ Serving(w, "remove")
  /\ ridx[w] >= Len(vbuf)
  /\ Done(w)
  /\ UNCHANGED <<masterVars, wpc, queue, cur, todo, pend, chunk, rep, ridx, claimed, retried>>
  /\ UNCHANGED <<progVars, buildVars, sutVars>>

(* Shutdown: on_thread_destroy(w) and the thread ends.                     *)
WorkerExit(w) ==
  /\ Serving(w, "shutdown")
  /\ SUT!OnThreadDestroy(w)
  /\ wpc' = [wpc EXCEPT ![w] = "exited"]
  /\ Done(w)
  /\ UNCHANGED <<masterVars, queue, cur, todo, pend, chunk, rep, ridx, claimed, retried>>
  /\ UNCHANGED <<progVars, buildVars>>

Worker(w) ==
  \/ WorkerStart(w) \/ WorkerLoadEdges(w)
  \/ TakeOp(w) \/ ClaimVertex(w) \/ AddClaimedVertex(w)
  \/ InsertEdge(w) \/ RetryEdge(w) \/ RemoveEdge(w)
  \/ ReportRead(w) \/ ReportCas(w) \/ ReportStamp(w) \/ ExecDone(w)
  \/ RemoveTempVertex(w) \/ RemoveDone(w) \/ WorkerExit(w)

-----------------------------------------------------------------------------
(***************************************************************************)
(* Build service (BuildThread, spec 4.4), thread id T + 1.                 *)
(***************************************************************************)
BuilderStart ==
  /\ bpc = "spawned"
  /\ SUT!OnThreadInit(BuilderId)
  /\ bpc' = "loop"
  /\ UNCHANGED <<masterVars, workerVars, progVars, stopReq, builds>>

(* After a sleep of the cadence: unless stopped, build().                  *)
BuilderBuild ==
  /\ bpc = "loop" /\ ~stopReq
  /\ builds < MaxBuilds
  /\ SUT!Build
  /\ builds' = builds + 1
  /\ UNCHANGED <<masterVars, workerVars, progVars, bpc, stopReq>>

BuilderExit ==
  /\ bpc = "loop" /\ stopReq
  /\ SUT!OnThreadDestroy(BuilderId)
  /\ bpc' = "exited"
  /\ UNCHANGED <<masterVars, workerVars, progVars, stopReq, builds>>

Builder == BuilderStart \/ BuilderBuild \/ BuilderExit

-----------------------------------------------------------------------------
(* The run is over: the program has returned its result.                   *)
Terminated == mpc = "done" /\ UNCHANGED vars

Next ==
  \/ Master
  \/ \E w \in Workers : Worker(w)
  \/ Builder
  \/ Terminated

(* Every thread is scheduled by the OS and none blocks forever outside     *)
(* the waits modelled by the guards: weak fairness per thread.             *)
Fairness ==
  /\ WF_vars(Master)
  /\ \A w \in Workers : WF_vars(Worker(w))
  /\ WF_vars(Builder)

Spec == Init /\ [][Next]_vars /\ Fairness

(* The reporter's state seen as the abstract claim counter of module      *)
(* ProgressClaims: completed operations and m_last_progress_reported.      *)
PC == INSTANCE ProgressClaims WITH done <- completed, claimed <- lastProgress

(* LogApplication identifies an operation by its record: the log of the   *)
(* instance must not repeat one (real logs differ at least in weights).   *)
ASSUME IsInjective(LogOps)

(* The operations not yet applied: the whole log until execute_updates is *)
(* broadcast, then those still queued or in progress at some worker.      *)
Running == mpc \notin {"init", "init_thread", "load_open", "load_dispatch",
                       "load_next", "load_wait", "run_start"}
PendingOps ==
  IF Running
  THEN UNION {ToSet(queue[w]) \cup (IF cur[w] = NoOp THEN {} ELSE {cur[w]}) : w \in Workers}
  ELSE ToSet(LogOps)

(* The library's edge set seen as the abstract graph of LogApplication.   *)
LA == INSTANCE LogApplication WITH Ops <- ToSet(LogOps), Temporary <- ToSet(TempVertices),
                                  pending <- PendingOps, edges <- sutE

-----------------------------------------------------------------------------
(* The log is well formed: a temporary vertex has no edge left at the end. *)
ASSUME \A e \in NetEdges : e \cap ToSet(TempVertices) = {}

AfterRun == mpc \in {"run_join", "remove", "remove_wait", "store", "destroy",
                     "destroy_wait", "main_destroy", "done"}

TypeOK ==
  /\ mpc \in {"init", "init_thread", "load_open", "load_dispatch", "load_next",
              "load_wait", "run_start", "run_wait", "run_join", "remove",
              "remove_wait", "store", "destroy", "destroy_wait", "main_destroy", "done"}
  /\ a1 \in {1, 2}
  /\ \A w \in Workers : Len(cmds[w]) <= 1
  /\ wpc \in [Workers -> {"none", "spawned", "running", "exited"}]
  /\ \A w \in Workers : ToSet(queue[w]) \subseteq ToSet(LogOps)
  /\ claimed \subseteq LogVertices
  /\ completed \in 0 .. NumOperationsTotal
  /\ bpc \in {"none", "inert", "spawned", "loop", "exited"}
  /\ builds \in 0 .. MaxBuilds

(* Double buffering in load_edges: when the master starts the experiment, *)
(* every worker's queue is exactly its share of the whole log, in log      *)
(* order; no batch was overwritten before every worker had partitioned it. *)
QueuesArePartitionOfLog ==
  mpc = "run_start" => \A w \in Workers : queue[w] = Share(LogOps, w)

(* Once the log is loaded, random_vertex_id is the source of the first   *)
(* insertion of the log, and not 0 (spec 3): the master seeds it from the *)
(* batch it has just handed out, only while it is still 0, whichever      *)
(* buffer the batch sits in and however many batches hold no insertion.  *)
FirstInsertionSource == Head(SelectSeq(LogOps, IsInsertion)).src

RandomVertexIsFirstInsertion ==
  Running => randomVertex = FirstInsertionSource /\ randomVertex /= 0

(* The graph the master stores (after the final build() of               *)
(* remove_vertices) has exactly the log's final vertices and, as long as  *)
(* no add_edge had to be retried, exactly the edges whose last operation  *)
(* in the log is an insertion.                                             *)
StoredGraphMatchesLog ==
  mpc = "store" =>
    /\ snapV = FinalVertices
    /\ ~retried => snapE = NetEdges

(* The same, whatever the retries: the end-to-end guarantee of spec 3 and  *)
(* 8 ("the final state of every edge is the net effect of its log entries *)
(* in log order").                                                         *)
StoredEdgesMatchLog ==
  mpc = "store" => snapE = NetEdges

(* remove_vertices frees the vertex buffer only after every worker has    *)
(* read all of its share of it.                                            *)
VertexBufferLive ==
  \A w \in Workers : Serving(w, "remove") /\ ridx[w] < Len(vbuf) => vbufLive

(* Progress reports: no slot of m_reported_times is written twice, and    *)
(* once the workers are done the slots written are exactly the buckets    *)
(* 1 .. m_last_progress_reported, with no gap.                             *)
ReportedSlotsExact ==
  /\ \A s, t \in stamps : s.slot = t.slot => s = t
  /\ AfterRun => {s.slot : s \in stamps} = 0 .. lastProgress - 1

(* Every slot written lies inside the array allocated at                   *)
(* aging2_master.cpp:76.                                                   *)
ReportedTimesInBounds ==
  \A s \in stamps : s.slot < ReportedTimesLen

(* Spec 8: reported_times is non-decreasing.                               *)
ReportedTimesMonotonic ==
  \A s, t \in stamps : s.slot < t.slot => s.time <= t.time

(* The run terminates: every retried add_edge eventually succeeds, every  *)
(* wait() returns and the master returns its result.                       *)
Termination == <>(mpc = "done")


(* Spec 4.1 and 4.5: every thread that called on_thread_init (the workers *)
(* 0..T-1, the build service T+1, the master T) has called                *)
(* on_thread_destroy by the time the destructor calls on_main_destroy.    *)
LibraryQuiescentAtMainDestroy == sutMain = "down" => sutThreads = {}

(* The compare-and-swap on m_last_progress_reported and the stamps after  *)
(* it implement the abstract reporter: buckets are claimed in increasing  *)
(* order, never ahead of the completed operations, whatever the order in  *)
(* which workers read, swap and stamp.                                     *)
ProgressRefinement == PC!Spec

(* Exactly once: the double buffer, the partition, the chunks and the     *)
(* retry of failed add_edge calls together apply every operation of the   *)
(* log to the library once and only once, and only the removal of the    *)
(* temporary vertices, after the run, changes the edges otherwise.        *)
ApplicationRefinement == LA!Spec
=============================================================================
