# TLA+ models of gfe_driver (Aging2 driver, network server, update tests)

This directory holds TLA+ models of the concurrent parts of the repository and
the TLC configurations that check them. The repository (`src/`) has four files:

| file | what it is | model |
|---|---|---|
| `src/experiment/details/aging2_master.cpp` | the master thread of the Aging2 experiment | `Aging2` (translated from source) |
| `src/experiment/aging2_experiment.hpp` | configuration setters | the CONSTANTS of `Aging2`; `Quantum` |
| `src/network/server.cpp` | TCP server that exposes a graph library to remote clients | `Server` (translated from source) |
| `src/tests/test_updates_undirected.cpp` | sequential and parallel update tests | `UpdatesUndirected` (translated from source) |

## The system and how its parts interact

**Aging2.** The master (`Aging2Master`) runs the experiment in these phases:

1. It reads the log header and allocates `m_reported_times` (line 76).
2. It calls `on_main_init(T+2)`, spawns `T` `Aging2Worker`s and registers itself as thread `T`.
3. `load_edges` double-buffers the EDGES section. Workers partition batch *i* from `array1` while the master reads batch *i+1* into `array2`. The master then waits for every worker and swaps the buffers.
4. `do_run_experiment` starts a `BuildThread` (thread `T+1`), broadcasts `execute_updates`, waits, stops the build thread and calls a final `build()`.
5. `remove_vertices` hands out a local buffer of temporary vertices, waits and calls `build()`.
6. `store_results` reads the cardinalities and copies `m_reported_times`.
7. The destructor deletes the workers, then calls `on_thread_destroy(T)` and `on_main_destroy()`.

While they execute, workers share three things:
- the set `vertices_contained`, which gates `add_vertex`;
- the counter of completed operations;
- the progress reporter, which claims report buckets by a CAS on `m_last_progress_reported` and stamps the slots of `m_reported_times`.

The workers, the build thread, the reporter and the graph library are **not under `src/`**. They are modelled from `spec.md` (sections 4.1 and 4.3 to 4.5) and marked `spec_modelled` in `PROJECT.json`.

**Server.** `main_loop` runs a `select()` with a 1 s timeout on the listening socket.
- **Accepting.** It accepts a connection and starts a detached `ConnectionHandler` thread.
- **Stopping on the last connection.** On a timeout it stops if `TERMINATE_ON_LAST_CONNECTION` was requested and `m_num_active_connections == 0`.
- **Handler threads.** A handler increments that counter, reads size-prefixed requests and answers each one. It leaves on end-of-file, on `TERMINATE_WORKER` or on `TERMINATE_SERVER` (which also sets `m_server_stop`), and decrements the counter when it leaves.
- **Signals.** A SIGTERM/SIGINT handler stops the server through the global `g_server_instance`.
- **Destructor.** `~Server` closes the socket, clears the global and restores the old signal handlers.

**UpdatesUndirected test.** `TEST(AdjacencyList, UpdatesUndirected)` runs `sequential()` and then `parallel()` on one library instance.
- `sequential()` inserts a permuted edge stream, gating `add_vertex` with a local set, checks the edges after `build()`, then removes them.
- `parallel()` splits the permuted stream into `num_threads` chunks. Each thread gates `add_vertex` with a shared `cuckoohash_map` (the thread whose `insert` returns true adds the vertex) and spins on `add_edge` until both endpoints exist.
- After the join the main thread registers as id 0, builds and checks; then threads remove the edges, and finally the vertices `1 .. max_vertex_id`.

## Modules

- **`GraphSUT`**: the library's update interface (spec 4.1) for an undirected graph.
  - The live vertices and edges (an edge is a 2-element set), the snapshot that `build()` publishes and `num_vertices`/`num_edges` read, the registered thread ids, and the thread count `on_main_init(n)` declared (`sutDeclared`).
  - `add_edge` fails ("retry later") exactly when an endpoint is missing.
  - The module only defines the effect of each call. It is used through `INSTANCE` by `Aging2`.
- **`Aging2`**: the master, workers, build service and reporter, composed with `GraphSUT`.
  - The master's program counter `mpc` follows `execute()`. There is one action per step that changes state: `MasterInit`, `MasterThreadInit`, `LoadOpen`, `LoadDispatch`, `LoadNext`, `LoadWait`, `RunStart`, `RunWait`, `RunJoin`, `RemoveStart`, `RemoveWait`, `StoreResults`, `DeleteWorkers`, `MasterThreadDestroy` and `MainDestroy`.
  - A command the master posts to a worker stays in `cmds[w]` until the worker completes it, and `wait()` is the guard `AllWaited`.
  - Worker steps:
    - `TakeOp` takes the next operation of a chunk.
    - `ClaimVertex` and `AddClaimedVertex` model the `vertices_contained` gate.
    - `InsertEdge`, `RetryEdge` and `RemoveEdge` apply the operation; `RetryEdge` re-enqueues a failed `add_edge` at the tail.
    - `ReportRead`, `ReportCas` and `ReportStamp` model the reporter.
    - `RemoveTempVertex` takes every `T`-th entry of the vertex buffer.
    - `WorkerExit` ends the worker.
  - The clock a report is stamped with is abstracted as the number of operations completed when the stamp is written.
- **`Server`**: `main_loop` (`LoopTest`, `Accept`, `SelectTimeout`), each handler (`HandlerStart`, `HandlerEof`, `HandlerPartial`, `HandleLibRequest` and `HandleTerminate*`), the signal handler (`HandleSignals`, `Signal`) and `~Server` (`DestroyBegin`, `DestroyEnd`).
  - Every request answered by the library is one kind, `"lib"`: it is answered by exactly one response and changes no server state.
  - Clients (`Connect`, `Send`) follow the synchronous protocol of `network::Client`, which is not in `src/`. A client ends in one of four ways: `TERMINATE_WORKER`, `TERMINATE_SERVER`, closing the socket, or closing it in the middle of a message.
  - A connection reset (`"reset"`) makes `recv()` return -1 in `HandlerReset`; the exception leaves a detached thread and the process ends (`srv = "aborted"`), after which no thread steps.
  - `HandlerShortHeader` is a `recv` that returns fewer than the 4 bytes of the size header (line 230). With asserts on, the process aborts. Without them, `message_sz` is garbled and the read loop of lines 236-240 waits forever (`"spinning"`).
  - A client that goes away before a library response is sent (`"lib_reset"`) reaches `HandleLibRequestPeerGone`. `send()` in `send_message` raises `SIGPIPE`: there is no `MSG_NOSIGNAL`, and nothing in `src/` ignores `SIGPIPE`. Otherwise it returns -1, and `ERROR_ERRNO` throws out of `handle_request`'s catch block. Either way the process ends.
  - `InstallSignalHandlers` and `UninstallSignalHandlers` model `signal_handler_install` and `signal_handler_uninstall`.
- **`ProgressClaims`**: the abstract reporter. Operations complete one at a time (`Complete`), and `Claim(b)` moves the last claimed bucket forward to a bucket whose operations are done. `Aging2` instantiates it as `PC` with the refinement mapping `done <- completed`, `claimed <- lastProgress`. `ReportCas` is a `Claim`, `Finish` a `Complete`, and every other step stutters.
- **`LogApplication`**: the abstract run. Each operation of the log takes effect once (`Apply`), in any order. After all of them, the temporary vertices are removed with their edges (`RemoveTemporary`). `Aging2` instantiates it as `LA`. The refinement mapping takes `pending` to the whole log before `execute_updates`, then to the operations still queued or current at some worker, and `edges` to the library's edge set. `InsertEdge` and `RemoveEdge` are `Apply` steps, `RemoveTempVertex` is a `RemoveTemporary` step, and every other step stutters, including a retry. The operations of the log must be distinct records (`ASSUME IsInjective(LogOps)`).
- **`UpdatesUndirected`**: `test_updates_undirected.cpp` against `GraphSUT`.
  - The main thread's counter `mpc` has one action per step: `SeqStart`, `SeqInsert`, `SeqCheckInserted`, `SeqRemove`, `SeqCheckRemoved` and `SeqEnd`; then `ParStart`, `JoinInserted`, `CheckInserted`, `JoinRemoved`, `CheckRemoved`, `JoinVerticesRemoved` and `CheckVerticesRemoved`. A failing ASSERT moves to `"failed"`.
  - `order` is the stream after its last `permute()`, chosen among all permutations (`SetToSeqs`).
  - A thread runs `ThreadInit`, then the routine of the phase, then `ThreadExit`. The insert routine is `ClaimVertex`, `AddClaimedVertex`, then `SpinAddEdge` (a failing `add_edge`, which changes nothing) or `InsertEdge`. The other routines are `RemoveEdge` and `RemoveVertex`.
  - Chunks are `ChunkLen`/`ChunkStart`, the recursive translation of lines 161-169.
  - `holders` records which threads hold each thread id.
- **`MC_Aging2`, `MC_Server`, `MC_UpdatesUndirected`**: the instances checked by TLC.

## Runs

| run | cfg | expect | what it shows |
|---|---|---|---|
| aging2 | `MC_Aging2.cfg` | pass | See below. |
| aging2_retry | `MC_Aging2_retry.cfg` | violation | A retried `add_edge` re-enqueued at the tail is overtaken by a later removal of the same edge: the final graph is not the log's net effect (spec 5 and 8 claim it is). |
| aging2_reports | `MC_Aging2_reports.cfg` | violation | With `num_reports_per_ops = 2` the reporter writes past the end of `m_reported_times` as sized at `aging2_master.cpp:76`. Spec 4.5 multiplies the size by `num_reports_per_ops`; the code does not. |
| aging2_monotonic | `MC_Aging2_monotonic.cfg` | violation | A claimant descheduled between its CAS and its stamp writes a later time than the claimant of the next bucket, so `reported_times` is not non-decreasing (spec 8). |
| server | `MC_Server.cfg` | pass | `m_num_active_connections` always equals the number of handlers between their increment and decrement, for every way a client may end. `TERMINATE_ON_LAST_CONNECTION` makes `main_loop` return once every client has finished, unless a handler is stuck on a truncated message or a short header, or a reset or a failed `send()` ended the process. |
| server_partial | `MC_Server_partial.cfg` | violation | A peer closing after the size header leaves its handler spinning in the read loop (lines 236-240) forever (`HandlersLeave`). |
| server_race | `MC_Server_race.cfg` | violation | A connection accepted but not yet counted (line 193 vs 213) is invisible to the select timeout, which stops the server with it unserved. |
| server_uaf | `MC_Server_uaf.cfg` | violation | `stop()` does not wait for the handlers (despite its comment): the Server can be destroyed while detached handlers still use `m_instance`. |
| server_signal | `MC_Server_signal.cfg` | violation | `~Server` clears `g_server_instance` before restoring the signal handlers; a signal in that window fails the handler's assert. |
| server_reset | `MC_Server_reset.cfg` | violation | One client resetting its connection makes `recv()` return -1 (line 223). `ERROR_ERRNO` throws outside the try of `handle_request`, out of a detached thread, and `std::terminate` ends the server for every client. |
| updates | `MC_UpdatesUndirected.cfg` | pass | With three threads and every permutation of both streams, the chunks partition the stream, every ASSERT holds and the test returns. |
| updates_ids | `MC_UpdatesUndirected_ids.cfg` | violation | The main thread holds id 0 (line 225) when `routine_remove_vertices` thread 0 registers id 0 (line 237) and unregisters it (243), before main's `build()` (256): two threads share an id, which spec 4.1 forbids. |

The **aging2** run checks these properties:
- The double buffer gives every worker exactly its share of the log, in log order (`QueuesArePartitionOfLog`).
- Once loading is over, `random_vertex_id` is the source of the first insertion of the log, and not 0 (spec 3). The master seeds it from the batch it has just dispatched, and only while it is still 0. This must hold across the buffer swaps and past batches that hold only deletions (`RandomVertexIsFirstInsertion`).
- The vertex buffer outlives the workers' reads (`VertexBufferLive`).
- The stored graph is the log's net effect, as long as no retry happened (`StoredGraphMatchesLog`).
- Every report slot is claimed once, with no gap (`ReportedSlotsExact`).
- Every thread the library registered (workers, build service, master) has unregistered when the destructor calls `on_main_destroy` (`LibraryQuiescentAtMainDestroy`).
- The run terminates (`Termination`).
- Every operation of the log takes effect on the library exactly once, in some order. The double buffer, the partition, the chunks and the re-enqueue of a failed `add_edge` lose none and repeat none. The edges change in no other way, except by the removal of the temporary vertices after the run (`ApplicationRefinement`, `LogApplication`'s `Spec` as a `PROPERTY`). It holds with retries, where `StoredGraphMatchesLog` needs none to have happened: the retry breaks the order, not exactly-once.
- The reporter's read, CAS and stamp implement `ProgressClaims` (`ProgressRefinement`, the abstract `Spec` as a `PROPERTY`). Buckets are claimed in increasing order and never ahead of the completed operations, whatever order the workers read, swap and stamp in.

The **updates** run checks:
- the chunks of lines 161-169 cover `0 .. n-1` exactly once, for the current phase's size and every smaller one (`ChunksPartition`);
- no ASSERT of the test fails (`TestAssertionsPass`);
- the test returns: no thread spins on `add_edge` forever (`Termination`).

Every property of a passing run has a mutant in `PROJECT.json`: a faulty variant of one action, written just before it in the module, that TLC finds breaking that property. The variants are:
- the load wait without its barrier;
- the next batch read into `array1`;
- `remove_vertices` without its barrier, and without its final `build()`;
- an operation taken without being removed from its queue;
- a plain store instead of the reporter's CAS;
- `set_random_vertex_id` called for every batch, not only while the id is still 0;
- bucket `b` stamped into slot `b` instead of `b - 1`;
- the master unregistering without waiting for the workers;
- a claim of a vertex that never calls `add_vertex` (in both modules);
- a chunk length with `<=` for `<`;
- `remove_vertex(pos)` for `pos + 1`, and a removal loop running to `pos <= end`;
- a double decrement;
- a return that skips the decrement;
- `TERMINATE_WORKER` without `m_terminate`.

## Bounds and why they are enough

**`MC_Aging2`.** The main run uses two workers and a log of three batches: `{ins(1,2), ins(1,3)}`, `{del(2,1), del(3,1)}`, `{ins(2,1)}`. Vertex 3 is temporary. The other settings are granularity 2, one report per `num_edges_load` operations, and the build service enabled for one background `build()`.

This log exercises the following:
- Both workers get operations: the partition hash sends `{1,2}` and `{1,3}` to different workers.
- The double buffer swaps twice and the loader returns an empty batch.
- An edge is inserted, deleted, and inserted again in reversed orientation, so the undirected identity of an edge matters.
- Both workers race on `vertices_contained` for vertex 1, so `add_edge` can fail and be retried.
- Both workers can compete for a report bucket.
- A temporary vertex is removed.
- The background `build()` may interleave with any update.

The run reaches about 140,000 distinct states. The violation runs use smaller logs chosen to expose their case:
- `RetryLog` has an insertion and a later removal of the same edge;
- `ReportLog` has four operations with two reports per quantum.

**`MC_Server`.** Two clients, each sending at most one request before its last message. Two clients are needed to exhibit:
- one client ending while the other is accepted;
- one client asking for `TERMINATE_ON_LAST_CONNECTION` while the other connects.

A second request per client adds states but no new interleaving of the counter and the flags. No symmetry reduction is used, because the runs check liveness.

**`MC_UpdatesUndirected`.** Three threads; `sequential` uses `max_vector_id = 4`, a stream of one edge; `parallel` uses `num_vertices = 6`, a stream of four edges (`{1,3}, {1,5}, {2,4}, {3,5}`) with `max_vertex_id = 5`; deletions are on. The test uses 64, 128 and 8 threads; the small bounds keep the cases that matter:
- four edges over three threads give one thread two edges and the others one (`odd_threads = 1`);
- five vertices over three threads give uneven vertex chunks;
- vertices 1, 3 and 5 are endpoints of edges in different chunks, so two threads race on `vertices.insert` and `add_edge` can fail and spin;
- every permutation of the stream is explored, and the vertices left by `sequential()` are removed by the vertex phase.

`num_vertices = 7` (9 edges) did not finish within the time limit.

## Fairness

- **`Aging2`.** Each thread (master, each worker, build service) has weak fairness on its own actions. They are OS threads that never block outside the waits the guards model, and the spec guarantees workers run to queue exhaustion.
- **`UpdatesUndirected`.** The main thread and each `std::thread` are weakly fair. A thread spinning on `add_edge` takes only stuttering steps, so fairness does not get it out of the loop; only another thread's `add_vertex` does, and `Termination` shows that one always comes.
- **`Server`.** `main_loop` and each handler thread are weakly fair. Clients and the owner of the `Server` (who calls the destructor) are not: a client may stay idle forever. This is why `TerminatesOnLastConnection` assumes every client eventually sends its last message.

## Not modelled, and why

- Latency measurement, `report_progress` output, timers and logging. They change no control state the properties are about.
- `select()` and `accept()` failing. They throw from `main_loop` in the owner's thread, with no interleaving to explore.
- The byte framing of requests beyond a short size header. A message arrives whole, or truncated after its header (`"partial"`), or with a short header.
- The file-descriptor leak of never-deleted `ConnectionHandler`s (line 193). It follows from the code with no interleaving; it is listed as a hazard.
- The second `parallel(adjlist, 1024)` of the test, which repeats the first on an empty graph; edge weights and `get_weight`; the LLAMA and Stinger TESTs, which exist only with those libraries.
- `WeightedEdgeStream::max_vertex_id` is not in `src/`; `MaxVertexId` takes it as the largest vertex id of the stream.
- A log whose first insertion has source vertex 0. The code uses 0 as "not set yet", so the next batch would overwrite the id, or it would stay 0. The checked logs use vertex ids from 1. A log with vertex 0 would need its own run, and the project already has its 12 runs. `RandomVertexIsFirstInsertion` states what such a run would violate. This is listed as a hazard.
- The update of `m_last_time_reported`, which `store_results` reads. It belongs to the reporter outside `src/`, and the spec does not state it. The model sets it to the last bucket stamped.
- The library requests of the server beyond their one-response shape, and edge weights.

## Further work

1. **Per-edge order.** `LogApplication` promises exactly-once, not order. A per-edge-ordered abstraction fails with retries (`aging2_retry`). It could be checked on an instance without a temporary vertex, where no retry can happen.
2. **Larger instances.** Check `MC_UpdatesUndirected` with more vertices, using a cheaper representation of the permutation.
3. **A run for vertex 0 and for an empty final graph.** These would cover the two numeric hazards at `aging2_master.cpp:76` and `:127`. Each needs a log of its own, and so a run beyond the current 12.
