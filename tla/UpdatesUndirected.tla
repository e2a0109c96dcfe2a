------------------------- MODULE UpdatesUndirected --------------------------
(***************************************************************************)
(* The test UpdatesUndirected (src/tests/test_updates_undirected.cpp) on  *)
(* one library instance (module GraphSUT): sequential() and then           *)
(* parallel(), as TEST(AdjacencyList, UpdatesUndirected) calls them.       *)
(*                                                                         *)
(* sequential() inserts the generated edges in a random order, gating     *)
(* add_vertex with a local set, checks them, and removes them again.      *)
(* parallel() splits the permuted stream in chunks over NumThreads         *)
(* threads that gate add_vertex with a shared concurrent map and spin on  *)
(* add_edge until both endpoints exist; then threads remove the edges,    *)
(* then the vertices.  The main thread checks the graph after each phase; *)
(* a failed ASSERT returns from the test function.                        *)
(*                                                                         *)
(* An edge is <<src, dst>>; the weights (j * 1000 + i) and get_weight are *)
(* not modelled.                                                           *)
(***************************************************************************)
EXTENDS Integers, Sequences, SequencesExt, FiniteSets

CONSTANTS
  NumThreads,     \* num_threads of parallel()
  SeqMaxVertex,   \* max_vector_id of the stream of sequential()
  ParMaxVertex,   \* num_vertices given to parallel()
  Deletions       \* the deletions argument of both functions

ASSUME NumThreads >= 1 /\ SeqMaxVertex >= 1 /\ ParMaxVertex >= 1
ASSUME Deletions \in BOOLEAN

VARIABLES sutV, sutE, snapV, snapE, sutThreads, sutMain, sutDeclared
SUT == INSTANCE GraphSUT
sutVars == <<sutV, sutE, snapV, snapE, sutThreads, sutMain, sutDeclared>>

VARIABLES
  mpc,        \* main thread: where the test function is
  order,      \* edge_list after its last permute()
  contained,  \* vertices_contained (sequential) / vertices (parallel)
  sidx,       \* loop index of sequential()
  tpc,        \* per thread of parallel(): "none", "spawned", "running", "exited"
  pos,        \* per thread: pos in its chunk
  stage,      \* per insert thread: "src", "dst" (claiming) or "edge"
  pend,       \* per insert thread: vertex it claimed and must add_vertex (0 = none)
  holders     \* per thread id: the threads that called on_thread_init(id) and not yet on_thread_destroy(id)

vars == <<sutVars, mpc, order, contained, sidx, tpc, pos, stage, pend, holders>>

Threads == 0 .. NumThreads - 1
Main == -1   \* the main thread of the test, told apart from the threads 0 .. T-1

-----------------------------------------------------------------------------
(* generate_edge_stream(max): <i, j> for 1 <= i < j < max, j - i even.     *)
GenerateEdgeStream(max) ==
  {<<i, j>> \in (1 .. max - 1) \X (1 .. max - 1) : i < j /\ (j - i) % 2 = 0}

(* The largest vertex id of the stream (WeightedEdgeStream::max_vertex_id).*)
MaxVertexId(max) ==
  LET ids == {e[2] : e \in GenerateEdgeStream(max)}
  IN  IF ids = {} THEN 0 ELSE CHOOSE m \in ids : \A n \in ids : n <= m

(* "insert/remove sometimes as <i, j> and sometimes as <j, i>".           *)
SwapIf(e, cond) == IF cond THEN <<e[2], e[1]>> ELSE e
EdgeOf(e) == SUT!Edge(e[1], e[2])

(* The pairs the checks of the test look at: i < j < max_vertex_id.       *)
CheckedPairs(max) ==
  {p \in (1 .. MaxVertexId(max) - 1) \X (1 .. MaxVertexId(max) - 1) : p[1] < p[2]}
Checked(max) == {EdgeOf(p) : p \in CheckedPairs(max)}

(* The checked pairs expected present: i + j even.                        *)
ExpectedEdges(max) == {EdgeOf(p) : p \in {q \in CheckedPairs(max) : (q[1] + q[2]) % 2 = 0}}

(* The chunk of a thread: edges_per_thread + (thread_id < odd_threads)    *)
(* items, starting where the previous thread's chunk ended.               *)
(* Faulty variant: one item too many for thread odd_threads.              *)
ChunkLenInclusive(n, t) == n \div NumThreads + (IF t <= n % NumThreads THEN 1 ELSE 0)
ChunkLen(n, t) == n \div NumThreads + (IF t < n % NumThreads THEN 1 ELSE 0)
RECURSIVE ChunkStart(_, _)
ChunkStart(n, t) == IF t = 0 THEN 0 ELSE ChunkStart(n, t - 1) + ChunkLen(n, t - 1)
ChunkEnd(n, t) == ChunkStart(n, t) + ChunkLen(n, t)

(* Number of items split among the threads of the current phase.          *)
PhaseSize ==
  IF mpc = "join_rmv" THEN MaxVertexId(ParMaxVertex) ELSE Len(order)

(* Start the threads of a phase over n items.                             *)
Spawn(n) ==
  /\ tpc' = [t \in Threads |-> "spawned"]
  /\ pos' = [t \in Threads |-> ChunkStart(n, t)]
  /\ stage' = [t \in Threads |-> "src"]
  /\ pend' = [t \in Threads |-> 0]

AllJoined == \A t \in Threads : tpc[t] = "exited"

(* on_thread_init(id) / on_thread_destroy(id) called by thread a.          *)
Register(a, id) ==
  /\ sutThreads' = sutThreads \cup {id}
  /\ holders' = [holders EXCEPT ![id] = @ \cup {a}]
Unregister(a, id) ==
  /\ sutThreads' = sutThreads \ {id}
  /\ holders' = [holders EXCEPT ![id] = @ \ {a}]

-----------------------------------------------------------------------------
Init ==
  /\ SUT!SutInit
  /\ mpc = "seq_start"
  /\ order = << >>
  /\ contained = {}
  /\ sidx = 0
  /\ tpc = [t \in Threads |-> "none"]
  /\ pos = [t \in Threads |-> 0]
  /\ stage = [t \in Threads |-> "src"]
  /\ pend = [t \in Threads |-> 0]
  /\ holders = [id \in Threads |-> {}]

threadVars == <<tpc, pos, stage, pend>>

(***************************************************************************)
(* sequential()                                                            *)
(***************************************************************************)
SeqStart ==
  /\ mpc = "seq_start"
  /\ sutMain' = "up" /\ sutDeclared' = 1
  /\ Register(Main, 0)
  /\ order' \in SetToSeqs(GenerateEdgeStream(SeqMaxVertex))
  /\ contained' = {}
  /\ sidx' = 0
  /\ mpc' = "seq_ins"
  /\ UNCHANGED <<sutV, sutE, snapV, snapE, threadVars>>

(* One iteration of the insertion loop: add_vertex on the endpoints not   *)
(* yet in vertices_contained, then add_edge, maybe swapped (its result is *)
(* ignored; both endpoints exist).                                         *)
SeqInsert ==
  /\ mpc = "seq_ins" /\ sidx < Len(order)
  /\ LET e == order[sidx + 1]
     IN  /\ sutV' = sutV \cup ({e[1], e[2]} \ contained)
         /\ contained' = contained \cup {e[1], e[2]}
         /\ sutE' = sutE \cup {EdgeOf(SwapIf(e, (e[1] + e[2]) % 2 = 0))}
  /\ sidx' = sidx + 1
  /\ UNCHANGED <<snapV, snapE, sutThreads, sutMain, sutDeclared, mpc, order, threadVars, holders>>

(* build(), then the checks of lines 83-97; a failed ASSERT returns.       *)
(* With deletions, permute again for the removal loop.                     *)
SeqCheckInserted ==
  /\ mpc = "seq_ins" /\ sidx = Len(order)
  /\ SUT!Build
  /\ IF /\ Cardinality(sutE) = Len(order)
        /\ sutE \cap Checked(SeqMaxVertex) = ExpectedEdges(SeqMaxVertex)
     THEN IF Deletions
          THEN /\ order' \in SetToSeqs(ToSet(order))
               /\ sidx' = 0
               /\ mpc' = "seq_del"
          ELSE /\ mpc' = "seq_end" /\ UNCHANGED <<order, sidx>>
     ELSE /\ mpc' = "failed" /\ UNCHANGED <<order, sidx>>
  /\ UNCHANGED <<contained, threadVars, holders>>

SeqRemove ==
  /\ mpc = "seq_del" /\ sidx < Len(order)
  /\ LET e == SwapIf(order[sidx + 1], (order[sidx + 1][1] + order[sidx + 1][2]) % 3 = 0)
     IN  SUT!RemoveEdge(e[1], e[2])
  /\ sidx' = sidx + 1
  /\ UNCHANGED <<mpc, order, contained, threadVars, holders>>

(* build() to flush the deletions, then the checks of lines 113-120.      *)
SeqCheckRemoved ==
  /\ mpc = "seq_del" /\ sidx = Len(order)
  /\ SUT!Build
  /\ mpc' = IF sutE = {} THEN "seq_end" ELSE "failed"
  /\ UNCHANGED <<order, contained, sidx, threadVars, holders>>

(* on_thread_destroy(0), on_main_destroy(); TEST then calls parallel().   *)
SeqEnd ==
  /\ mpc = "seq_end"
  /\ Unregister(Main, 0)
  /\ sutMain' = "down"
  /\ mpc' = "par_start"
  /\ UNCHANGED sutDeclared
  /\ UNCHANGED <<sutV, sutE, snapV, snapE, order, contained, sidx, threadVars>>

(***************************************************************************)
(* parallel(): the main thread.                                            *)
(***************************************************************************)
(* on_main_init(num_threads), a fresh vertices map, permute(), and start  *)
(* routine_insert_edges on each chunk.                                     *)
ParStart ==
  /\ mpc = "par_start"
  /\ sutMain' = "up" /\ sutDeclared' = NumThreads
  /\ contained' = {}
  /\ order' \in SetToSeqs(GenerateEdgeStream(ParMaxVertex))
  /\ Spawn(Cardinality(GenerateEdgeStream(ParMaxVertex)))
  /\ mpc' = "join_ins"
  /\ UNCHANGED <<sutV, sutE, snapV, snapE, sutThreads, sidx, holders>>

(* Join, on_thread_init(0), build().                                       *)
JoinInserted ==
  /\ mpc = "join_ins" /\ AllJoined
  /\ Register(Main, 0)
  /\ snapV' = sutV /\ snapE' = sutE
  /\ mpc' = "check_ins"
  /\ UNCHANGED <<sutV, sutE, sutMain, sutDeclared, order, contained, sidx, threadVars>>

(* The checks of lines 178-192, on_thread_destroy(0); with deletions,     *)
(* permute() and start routine_remove_edges, else on_main_destroy().      *)
CheckInserted ==
  /\ mpc = "check_ins"
  /\ IF /\ Cardinality(snapE) = Len(order)
        /\ sutE \cap Checked(ParMaxVertex) = ExpectedEdges(ParMaxVertex)
     THEN /\ Unregister(Main, 0)
          /\ IF Deletions
             THEN /\ order' \in SetToSeqs(ToSet(order))
                  /\ Spawn(Len(order))
                  /\ mpc' = "join_del"
                  /\ UNCHANGED <<sutMain, sutDeclared>>
             ELSE /\ sutMain' = "down" /\ UNCHANGED sutDeclared
                  /\ mpc' = "done"
                  /\ UNCHANGED <<order, threadVars>>
     ELSE /\ mpc' = "failed"
          /\ UNCHANGED <<sutThreads, sutMain, sutDeclared, holders, order, threadVars>>
  /\ UNCHANGED <<sutV, sutE, snapV, snapE, contained, sidx>>

(* Join, on_thread_init(0), build().                                       *)
JoinRemoved ==
  /\ mpc = "join_del" /\ AllJoined
  /\ Register(Main, 0)
  /\ snapV' = sutV /\ snapE' = sutE
  /\ mpc' = "check_del"
  /\ UNCHANGED <<sutV, sutE, sutMain, sutDeclared, order, contained, sidx, threadVars>>

(* The checks of lines 227-233, then start routine_remove_vertices on     *)
(* chunks of 0 .. max_vertex_id - 1.                                       *)
CheckRemoved ==
  /\ mpc = "check_del"
  /\ IF snapE = {} /\ sutE \cap Checked(ParMaxVertex) = {}
     THEN /\ Spawn(MaxVertexId(ParMaxVertex))
          /\ mpc' = "join_rmv"
     ELSE /\ mpc' = "failed"
          /\ UNCHANGED threadVars
  /\ UNCHANGED <<sutVars, order, contained, sidx, holders>>

(* Join, build().                                                          *)
JoinVerticesRemoved ==
  /\ mpc = "join_rmv" /\ AllJoined
  /\ SUT!Build
  /\ mpc' = "check_rmv"
  /\ UNCHANGED <<order, contained, sidx, threadVars, holders>>

(* ASSERT_EQ(num_vertices(), 0), on_thread_destroy(0), on_main_destroy(). *)
CheckVerticesRemoved ==
  /\ mpc = "check_rmv"
  /\ IF snapV = {}
     THEN /\ Unregister(Main, 0)
          /\ sutMain' = "down" /\ UNCHANGED sutDeclared
          /\ mpc' = "done"
     ELSE /\ mpc' = "failed"
          /\ UNCHANGED <<sutThreads, sutMain, sutDeclared, holders>>
  /\ UNCHANGED <<sutV, sutE, snapV, snapE, order, contained, sidx, threadVars>>

(***************************************************************************)
(* parallel(): thread t, running the routine of the current phase.        *)
(***************************************************************************)
ThreadInit(t) ==
  /\ tpc[t] = "spawned"
  /\ Register(t, t)
  /\ tpc' = [tpc EXCEPT ![t] = "running"]
  /\ UNCHANGED <<sutV, sutE, snapV, snapE, sutMain, sutDeclared, mpc, order, contained, sidx, pos, stage, pend>>

Running(t) == tpc[t] = "running" /\ pos[t] < ChunkEnd(PhaseSize, t)

(* Faulty variant: the vertex is put in the map but nobody adds it.       *)
ClaimVertexNoAdd(t) ==
  /\ mpc = "join_ins" /\ Running(t)
  /\ stage[t] \in {"src", "dst"} /\ pend[t] = 0
  /\ LET v == order[pos[t] + 1][IF stage[t] = "src" THEN 1 ELSE 2]
     IN  contained' = contained \cup {v}
  /\ stage' = [stage EXCEPT ![t] = IF @ = "src" THEN "dst" ELSE "edge"]
  /\ UNCHANGED <<sutVars, mpc, order, sidx, tpc, pos, pend, holders>>

(* routine_insert_edges: vertices.insert(v, true) on the source, then the *)
(* destination; the thread that inserted v calls add_vertex(v).           *)
ClaimVertex(t) ==
  /\ mpc = "join_ins" /\ Running(t)
  /\ stage[t] \in {"src", "dst"} /\ pend[t] = 0
  /\ LET v == order[pos[t] + 1][IF stage[t] = "src" THEN 1 ELSE 2]
     IN  /\ contained' = contained \cup {v}
         /\ pend' = [pend EXCEPT ![t] = IF v \notin contained THEN v ELSE 0]
  /\ stage' = [stage EXCEPT ![t] = IF @ = "src" THEN "dst" ELSE "edge"]
  /\ UNCHANGED <<sutVars, mpc, order, sidx, tpc, pos, holders>>

AddClaimedVertex(t) ==
  /\ pend[t] /= 0
  /\ SUT!AddVertex(pend[t])
  /\ pend' = [pend EXCEPT ![t] = 0]
  /\ UNCHANGED <<mpc, order, contained, sidx, tpc, pos, stage, holders>>

(* while(!add_edge(edge)){}: a call that fails (an endpoint is still      *)
(* being added by another thread) changes nothing and is repeated.        *)
InsertEdgeArgs(t) ==
  SwapIf(order[pos[t] + 1], (order[pos[t] + 1][1] + order[pos[t] + 1][2]) % 2 = 0)

SpinAddEdge(t) ==
  /\ mpc = "join_ins" /\ Running(t)
  /\ stage[t] = "edge" /\ pend[t] = 0
  /\ ~SUT!AddEdgeSucceeds(InsertEdgeArgs(t)[1], InsertEdgeArgs(t)[2])
  /\ UNCHANGED vars

InsertEdge(t) ==
  /\ mpc = "join_ins" /\ Running(t)
  /\ stage[t] = "edge" /\ pend[t] = 0
  /\ LET e == InsertEdgeArgs(t)
     IN  /\ SUT!AddEdgeSucceeds(e[1], e[2])
         /\ SUT!AddEdge(e[1], e[2])
  /\ pos' = [pos EXCEPT ![t] = @ + 1]
  /\ stage' = [stage EXCEPT ![t] = "src"]
  /\ UNCHANGED <<mpc, order, contained, sidx, tpc, pend, holders>>

(* routine_remove_edges.                                                   *)
RemoveEdge(t) ==
  /\ mpc = "join_del" /\ Running(t)
  /\ LET e == SwapIf(order[pos[t] + 1], (order[pos[t] + 1][1] + order[pos[t] + 1][2]) % 3 = 0)
     IN  SUT!RemoveEdge(e[1], e[2])
  /\ pos' = [pos EXCEPT ![t] = @ + 1]
  /\ UNCHANGED <<mpc, order, contained, sidx, tpc, stage, pend, holders>>

(* Faulty variants: remove_vertex(pos), and a loop bound pos <= end.       *)
RemoveVertexFromZero(t) ==
  /\ mpc = "join_rmv" /\ Running(t)
  /\ SUT!RemoveVertex(pos[t])
  /\ pos' = [pos EXCEPT ![t] = @ + 1]
  /\ UNCHANGED <<mpc, order, contained, sidx, tpc, stage, pend, holders>>

RemoveVertexPastEnd(t) ==
  /\ mpc = "join_rmv" /\ tpc[t] = "running" /\ pos[t] <= ChunkEnd(PhaseSize, t)
  /\ SUT!RemoveVertex(pos[t] + 1)
  /\ pos' = [pos EXCEPT ![t] = @ + 1]
  /\ UNCHANGED <<mpc, order, contained, sidx, tpc, stage, pend, holders>>

(* routine_remove_vertices: remove_vertex(pos + 1).                        *)
RemoveVertex(t) ==
  /\ mpc = "join_rmv" /\ Running(t)
  /\ SUT!RemoveVertex(pos[t] + 1)
  /\ pos' = [pos EXCEPT ![t] = @ + 1]
  /\ UNCHANGED <<mpc, order, contained, sidx, tpc, stage, pend, holders>>

(* End of the chunk: on_thread_destroy(thread_id).                         *)
ThreadExit(t) ==
  /\ tpc[t] = "running" /\ pos[t] = ChunkEnd(PhaseSize, t)
  /\ stage[t] = "src" /\ pend[t] = 0
  /\ Unregister(t, t)
  /\ tpc' = [tpc EXCEPT ![t] = "exited"]
  /\ UNCHANGED <<sutV, sutE, snapV, snapE, sutMain, sutDeclared, mpc, order, contained, sidx, pos, stage, pend>>

Thread(t) ==
  \/ ThreadInit(t) \/ ClaimVertex(t) \/ AddClaimedVertex(t) \/ SpinAddEdge(t)
  \/ InsertEdge(t) \/ RemoveEdge(t) \/ RemoveVertex(t) \/ ThreadExit(t)

MainThread ==
  \/ SeqStart \/ SeqInsert \/ SeqCheckInserted \/ SeqRemove \/ SeqCheckRemoved \/ SeqEnd
  \/ ParStart \/ JoinInserted \/ CheckInserted \/ JoinRemoved \/ CheckRemoved
  \/ JoinVerticesRemoved \/ CheckVerticesRemoved

(* The test has returned, passed or failed.                                *)
Terminated == mpc \in {"done", "failed"} /\ UNCHANGED vars

Next == MainThread \/ (\E t \in Threads : Thread(t)) \/ Terminated

(* std::thread's are scheduled by the OS and none blocks except in join,  *)
(* which the guards model.  A thread spinning on add_edge takes only      *)
(* stuttering steps, so fairness does not force it out of the loop: only  *)
(* the add_vertex of another thread does.                                  *)
Fairness == WF_vars(MainThread) /\ \A t \in Threads : WF_vars(Thread(t))

Spec == Init /\ [][Next]_vars /\ Fairness

-----------------------------------------------------------------------------
TypeOK ==
  /\ mpc \in {"seq_start", "seq_ins", "seq_del", "seq_end", "par_start", "join_ins",
              "check_ins", "join_del", "check_del", "join_rmv", "check_rmv", "done", "failed"}
  /\ tpc \in [Threads -> {"none", "spawned", "running", "exited"}]
  /\ stage \in [Threads -> {"src", "dst", "edge"}]
  /\ contained \subseteq Nat
  /\ holders \in [Threads -> SUBSET (Threads \cup {Main})]
  /\ \A t \in Threads : tpc[t] = "running" =>
        pos[t] \in ChunkStart(PhaseSize, t) .. ChunkEnd(PhaseSize, t)

(* The chunks thread_id gets (edges_per_thread + (thread_id < odd_threads) *)
(* items from where the previous one ended) cover every index of the      *)
(* stream, or of the vertex range, exactly once: for the size of the      *)
(* current phase and for every smaller one (a phase with fewer items than *)
(* threads included).                                                      *)
ChunksPartition ==
  \A n \in 0 .. PhaseSize + NumThreads :
    /\ UNION {ChunkStart(n, t) .. ChunkEnd(n, t) - 1 : t \in Threads} = 0 .. n - 1
    /\ \A t, u \in Threads : t < u => ChunkEnd(n, t) <= ChunkStart(n, u)

(* Every ASSERT of the test holds, whatever the permutations and however  *)
(* the threads interleave: the test never fails.                           *)
TestAssertionsPass == mpc /= "failed"

(* The test function returns: no thread spins forever on add_edge and     *)
(* every join returns.                                                     *)
Termination == <>(mpc \in {"done", "failed"})

(* Spec 4.1: the library is called only from threads that issued           *)
(* on_thread_init with a distinct id: no id is held by two threads.       *)
ThreadIdsExclusive == \A id \in Threads : Cardinality(holders[id]) <= 1

====
