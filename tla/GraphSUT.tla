------------------------------ MODULE GraphSUT ------------------------------
(***************************************************************************)
(* The update capability of the system under test (library::UpdateInterface*)
(* and library::Interface), the way the aging driver and the update tests  *)
(* call it.  The library code is not part of src/; this module follows the *)
(* capability set of the spec (section 4.1) for an undirected graph:       *)
(*                                                                         *)
(*  - an edge is the unordered pair of its endpoints, so <<a,b>> and       *)
(*    <<b,a>> name the same edge;                                          *)
(*  - add_edge returns FALSE ("retry later") exactly when an endpoint is   *)
(*    not yet a vertex of the graph; adding a present edge keeps it;       *)
(*  - remove_vertex drops the vertex together with its incident edges;     *)
(*  - build() materialises the live graph into the snapshot that           *)
(*    num_vertices()/num_edges() report (a delta store such as LLAMA needs  *)
(*    it to flush deletions; for the adjacency list it is a no-op, and      *)
(*    reading the snapshot after the final build() reads the live graph).  *)
(*                                                                         *)
(* The module only defines state and the effect of each call; who may call *)
(* what, and when, is the business of the modules that instance it.       *)
(***************************************************************************)
EXTENDS FiniteSets

VARIABLES
  sutV,        \* live vertex set
  sutE,        \* live edge set, each edge a 2-element set of vertices
  snapV,       \* vertices of the last snapshot built
  snapE,       \* edges of the last snapshot built
  sutThreads,  \* thread ids registered with on_thread_init
  sutMain,     \* "none", "up" after on_main_init, "down" after on_main_destroy
  sutDeclared  \* the thread count given to on_main_init (0 before)

sutVars == <<sutV, sutE, snapV, snapE, sutThreads, sutMain, sutDeclared>>

Edge(a, b) == {a, b}

SutInit ==
  /\ sutV = {} /\ sutE = {}
  /\ snapV = {} /\ snapE = {}
  /\ sutThreads = {}
  /\ sutMain = "none"
  /\ sutDeclared = 0

(* on_main_init(n): the library expects n threads, with ids 0 .. n-1.     *)
OnMainInit(n) ==
  /\ sutMain' = "up"
  /\ sutDeclared' = n
  /\ UNCHANGED <<sutV, sutE, snapV, snapE, sutThreads>>

OnMainDestroy ==
  /\ sutMain' = "down"
  /\ UNCHANGED <<sutV, sutE, snapV, snapE, sutThreads, sutDeclared>>

OnThreadInit(id) ==
  /\ sutThreads' = sutThreads \cup {id}
  /\ UNCHANGED <<sutV, sutE, snapV, snapE, sutMain, sutDeclared>>

OnThreadDestroy(id) ==
  /\ sutThreads' = sutThreads \ {id}
  /\ UNCHANGED <<sutV, sutE, snapV, snapE, sutMain, sutDeclared>>

AddVertex(v) ==
  /\ sutV' = sutV \cup {v}
  /\ UNCHANGED <<sutE, snapV, snapE, sutThreads, sutMain, sutDeclared>>

RemoveVertex(v) ==
  /\ sutV' = sutV \ {v}
  /\ sutE' = {e \in sutE : v \notin e}
  /\ UNCHANGED <<snapV, snapE, sutThreads, sutMain, sutDeclared>>

\* The value add_edge(<<a, b>>) returns in the current state.
AddEdgeSucceeds(a, b) == {a, b} \subseteq sutV

\* add_edge when it succeeds; when it fails nothing changes.
AddEdge(a, b) ==
  /\ sutE' = sutE \cup {Edge(a, b)}
  /\ UNCHANGED <<sutV, snapV, snapE, sutThreads, sutMain, sutDeclared>>

RemoveEdge(a, b) ==
  /\ sutE' = sutE \ {Edge(a, b)}
  /\ UNCHANGED <<sutV, snapV, snapE, sutThreads, sutMain, sutDeclared>>

Build ==
  /\ snapV' = sutV
  /\ snapE' = sutE
  /\ UNCHANGED <<sutV, sutE, sutThreads, sutMain, sutDeclared>>

NumVertices == Cardinality(snapV)
NumEdges == Cardinality(snapE)

=============================================================================
