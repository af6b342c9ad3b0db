---------------------------- MODULE CodeQueries ----------------------------
(***************************************************************************)
(* get_impact_graph and find_execution_path (rust/crates/mcp): breadth     *)
(* first searches by an MCP server, with no transaction around them, while *)
(* an indexer commits new versions of the tables and the graph store is    *)
(* rebuilt from them.                                                      *)
(*                                                                         *)
(* A search asks for the neighbours of one node after the other: the graph *)
(* store first (a Python process of its own), and the tables if the store  *)
(* answers nothing.  A node is its id and its fqn.  An edge that is not    *)
(* resolved has a name for target; the tables match it with every node of  *)
(* that name, the store has it as an External node.  (Nodes are functions: *)
(* the store's tables for classes and modules are not told apart.)         *)
(***************************************************************************)
EXTENDS Integers, SequencesExt

CONSTANTS
  Nodes, None,
  NameOf,      \* the name of each node
  SourceNodes, \* nodes of category SOURCE: the store has no others
  Menus,       \* [histories, queries]: what the indexer commits, one version after the other,
               \* and what is asked.  A version has nodes and edges <<source, target, type>>,
               \* a query [tool, from, to, direction, max_depth, max_nodes]
  MaxRebuilds  \* bound on the times the store is cleared or built during a search

Versions == UNION {UNION {Range(h) : h \in m.histories} : m \in Menus}

\* An id has the path of its file in it, a name has not.
ASSUME QueryAssumption ==
  /\ SourceNodes \subseteq Nodes /\ None \notin Nodes
  /\ DOMAIN NameOf = Nodes /\ Nodes \cap Range(NameOf) = {}
  /\ \A v \in Versions :
       /\ v.nodes \subseteq Nodes /\ IsFiniteSet(v.nodes) /\ IsFiniteSet(v.edges)
       /\ \A e \in v.edges : e[1] \in v.nodes /\ e[2] \in v.nodes \cup Range(NameOf)
  /\ \A m \in Menus :
       /\ m.histories \subseteq Seq(Versions) \ {<<>>}
       /\ \A q \in m.queries :
            /\ {"tool", "from", "direction", "max_depth", "max_nodes"} \subseteq DOMAIN q
            /\ q.max_depth \in Nat /\ q.max_nodes \in Nat
            /\ q.direction \in {"callers", "callees", "both"}
            /\ q.tool = "path" => q.from \in Nodes /\ q.to \in Nodes /\ q.direction = "callees"
  /\ MaxRebuilds \in Nat

VARIABLES
  tables,     \* the version the indexer has committed
  future,     \* the versions it is going to commit
  store,      \* the graph store's edges, or None: absent, or locked by its rebuild
  query,      \* what is asked
  pc,         \* "start", "pop", "look up", "answered", "not found", "panicked"; "open", "collect"
              \* and "failed" belong to ContextSearch
  queue,      \* paths to go on from; the impact graph keeps only their last node and length
  visited,
  found,      \* impact_nodes
  rows,       \* what the store has answered for the node at the end of `path'
  path,
  truncated,
  answer,
  changes,    \* commits, clears and rebuilds so far
  linked,     \* ghost: every link there has been since the search began
  removed     \* ghost: every node that has gone since then

search == <<pc, queue, visited, found, rows, path, truncated, answer>>
codeVars == <<tables, future, store, query, search, changes, linked, removed>>

-----------------------------------------------------------------------------
Present(n) == n \in tables.nodes

\* The tables: get_callees, get_callers.
Names(e, n) == e[2] = n \/ e[2] = NameOf[n]

\* Mutant: the edges are followed the wrong way.
SqlCalleesBackwards(n) == {m \in tables.nodes : \E e \in tables.edges : e[1] = m /\ Names(e, n)}

SqlCallees(n) == {m \in tables.nodes : \E e \in tables.edges : e[1] = n /\ Names(e, m)}
SqlCallers(n) == {m \in tables.nodes : \E e \in tables.edges : e[1] = m /\ Names(e, n)}

\* Both directions are read one after the other, with no limit.
SqlNeighbors(n, direction) ==
  LET callers == IF direction = "callees" THEN {} ELSE SqlCallers(n)
      callees == IF direction = "callers" THEN {} ELSE SqlCallees(n)
  IN {orders[1] \o orders[2] : orders \in SetToSeqs(callers) \X SetToSeqs(callees)}

\* The store has an edge per pair and type.  Its rows come in any order.
Rows(ends) == {[i \in DOMAIN s |-> s[i][1]] : s \in SetToSeqs(ends)}
StoreCallees(n, ends) == {<<e[2], e[3]>> : e \in {d \in store : d[1] = n /\ d[2] \in ends}}
StoreCallers(n) == {<<e[1], e[3]>> : e \in {d \in store : d[2] = n}}

FirstOf(s, limit) == SubSeq(s, 1, IF Len(s) < limit THEN Len(s) ELSE limit)

\* The elements of s at the positions I, in order.  (SelectSeq and the folds are recursive,
\* and nothing could be proved of what they return.)
Selected(s, I) ==
  [k \in 1 .. Cardinality(I) |-> s[CHOOSE i \in I : Cardinality({j \in I : j <= i}) = k]]

StillPresent(s) == Selected(s, {i \in DOMAIN s : Present(s[i])})

\* Without those of a set; the first of equals stays, as in list(dict.fromkeys(out)).
Distinct(s, without) ==
  Selected(s, {i \in DOMAIN s : s[i] \notin without \cup {s[j] : j \in 1 .. i - 1}})

\* GraphDB.neighbors asks one table of targets after the other, functions before external
\* names, with the limit for each, and for callers only when callees leave room.
StoreNeighbors(n, direction, limit) ==
  IF store = None THEN {<<>>}
  ELSE {LET out == IF direction = "callers" THEN <<>>
                   ELSE FirstOf(callees, limit) \o FirstOf(names, limit)
            more == IF direction = "callees" THEN <<>> ELSE FirstOf(callers, limit - Len(out))
        IN FirstOf(Distinct(out \o more, {}), limit) :
          callees \in Rows(StoreCallees(n, Nodes)),
          names \in Rows(StoreCallees(n, Range(NameOf))),
          callers \in Rows(StoreCallers(n))}

\* build_from_sqlite, for version v of the tables.
Built(v) == {e \in v.edges : {e[1], e[2]} \cap Nodes \subseteq SourceNodes}

\* What a search can go along.
Links(v, direction) ==
  LET down == {l \in v.nodes \X v.nodes : \E e \in v.edges : e[1] = l[1] /\ Names(e, l[2])}
      up == {<<p[2], p[1]>> : p \in down}
  IN CASE direction = "callees" -> down [] direction = "callers" -> up [] OTHER -> down \cup up

-----------------------------------------------------------------------------
CodeInit ==
  /\ \E m \in Menus : /\ \E h \in m.histories : tables = Head(h) /\ future = Tail(h)
                     /\ query \in m.queries
  /\ store \in {None, Built(tables)} \cup {Built(v) : v \in Range(future)}
  /\ pc = "open"
  /\ queue = <<>> /\ visited = {} /\ found = {} /\ rows = <<>> /\ path = <<>>
  /\ truncated = FALSE /\ answer = <<>>
  /\ changes = 0
  /\ linked = Links(tables, query.direction)
              \cup (IF store = None THEN {} ELSE Links([nodes |-> Nodes, edges |-> store],
                                                       query.direction))
  /\ removed = {}

\* The searches begin by looking their ends up.
Start ==
  /\ pc = "start"
  /\ IF Present(query.from) /\ (query.tool = "path" => Present(query.to))
     THEN /\ pc' = "pop"
          /\ queue' = << <<query.from>> >>
          /\ found' = {query.from}
     ELSE pc' = "not found" /\ UNCHANGED <<queue, found>>
  /\ UNCHANGED <<tables, future, store, query, visited, rows, path, truncated, answer, changes,
                 linked, removed>>

Current == Last(Head(queue))
\* Mutant: one link further than max_depth.
DepthFromNext == Len(Head(queue)) - 2

Depth == Len(Head(queue)) - 1

\* The node at the end of the first path is done with: the next one.
Drop ==
  /\ queue' = Tail(queue)
  /\ UNCHANGED <<pc, found, rows, path, answer>>

\* The graph store is asked for the neighbours of the current node.
Ask ==
  /\ visited' = visited \cup {Current}
  /\ path' = Head(queue) /\ queue' = Tail(queue)
  /\ rows' \in StoreNeighbors(Current, query.direction, query.max_nodes)
  /\ pc' = "look up"
  /\ UNCHANGED <<found, truncated, answer>>

\* call_get_impact_graph, the loop: nothing beyond max_depth, no node twice.
PopImpact ==
  /\ query.tool # "path" /\ pc = "pop" /\ queue # <<>>
  /\ IF Depth >= query.max_depth \/ Current \in visited
     THEN Drop /\ UNCHANGED <<visited, truncated>>
     ELSE Ask
  /\ UNCHANGED <<tables, future, store, query, changes, linked, removed>>

\* call_find_execution_path, the loop: the nodes of the path are read once more when
\* it has arrived; the node it goes on from is, too, and must still be there.
PopPath ==
  /\ query.tool = "path" /\ pc = "pop" /\ queue # <<>>
  /\ CASE Current = query.to ->
            /\ pc' = "answered"
            /\ answer' = StillPresent(Head(queue))
            /\ truncated' = FALSE
            /\ UNCHANGED <<queue, visited, found, rows, path>>
       [] Current # query.to /\ Depth >= query.max_depth ->
            Drop /\ truncated' = TRUE /\ UNCHANGED visited
       [] Current # query.to /\ Depth < query.max_depth /\ Current \in visited ->
            Drop /\ UNCHANGED <<visited, truncated>>
       [] OTHER ->
            IF Cardinality(visited) + 1 >= query.max_nodes
            THEN Drop /\ visited' = visited \cup {Current} /\ truncated' = TRUE
            ELSE IF Present(Current) THEN Ask
            ELSE /\ pc' = "panicked" /\ visited' = visited \cup {Current}
                 /\ UNCHANGED <<queue, found, rows, path, truncated, answer>>
  /\ UNCHANGED <<tables, future, store, query, changes, linked, removed>>

\* graph_or_sql_neighbors, after the store has answered: its rows that are nodes,
\* or the tables' when it has no rows.
Neighbors ==
  IF rows # <<>> THEN {StillPresent(rows)}
  ELSE SqlNeighbors(Last(path), query.direction)

\* Mutant: what there is no room for is left out silently.
AddImpactSilently(neighbors) ==
  LET new == Distinct(neighbors, found)
      kept == FirstOf(new, query.max_nodes - Cardinality(found))
  IN /\ found' = found \cup ToSet(kept)
     /\ queue' = queue \o [i \in 1 .. Len(kept) |-> Append(path, kept[i])]
     /\ UNCHANGED truncated

\* Every neighbour that is new is one more node, as long as there is room.
AddImpact(neighbors) ==
  LET new == Distinct(neighbors, found)
      kept == FirstOf(new, query.max_nodes - Cardinality(found))
  IN /\ found' = found \cup ToSet(kept)
     /\ queue' = queue \o [i \in 1 .. Len(kept) |-> Append(path, kept[i])]
     /\ truncated' = (truncated \/ Len(kept) < Len(new))

LookUp ==
  /\ pc = "look up"
  /\ \E neighbors \in Neighbors :
       IF query.tool # "path" THEN AddImpact(neighbors)
       ELSE /\ queue' = queue \o [i \in 1 .. Len(neighbors) |-> Append(path, neighbors[i])]
            /\ UNCHANGED <<found, truncated>>
  /\ pc' = "pop" /\ rows' = <<>> /\ path' = <<>>
  /\ UNCHANGED <<tables, future, store, query, visited, answer, changes, linked, removed>>

\* The queue is empty.
Answer ==
  /\ pc = "pop" /\ queue = <<>>
  /\ pc' = "answered"
  /\ UNCHANGED <<tables, future, store, query, queue, visited, found, rows, path, truncated, answer,
                 changes, linked, removed>>

-----------------------------------------------------------------------------
Searching == pc \in {"open", "collect", "start", "pop", "look up"}

\* An indexer commits.
Reindex ==
  /\ Searching /\ future # <<>> /\ changes' = changes + 1
  /\ tables' = Head(future) /\ future' = Tail(future)
  /\ linked' = linked \cup Links(tables', query.direction)
  /\ removed' = removed \cup (tables.nodes \ tables'.nodes)
  /\ UNCHANGED <<store, query, search>>

\* The store is cleared to be rebuilt: nobody else can open it.
Clear ==
  /\ Searching /\ store # None /\ changes < MaxRebuilds /\ changes' = changes + 1
  /\ store' = None
  /\ UNCHANGED <<tables, future, query, search, linked, removed>>

Rebuild ==
  /\ Searching /\ store = None /\ changes < MaxRebuilds /\ changes' = changes + 1
  /\ store' = Built(tables)
  /\ UNCHANGED <<tables, future, query, search, linked, removed>>

QueryStep == Start \/ PopImpact \/ PopPath \/ LookUp \/ Answer
StoreStep == Clear \/ Rebuild

-----------------------------------------------------------------------------
CodeTypeOK ==
  /\ tables \in Versions
  /\ pc \in {"open", "collect", "start", "pop", "look up", "answered", "not found", "panicked",
             "failed"}
  /\ \A i \in DOMAIN queue : queue[i] # <<>> /\ ToSet(queue[i]) \subseteq Nodes
  /\ visited \subseteq Nodes /\ found \subseteq Nodes
  /\ truncated \in BOOLEAN /\ changes \in Nat
  /\ Cardinality(found) <= IF query.max_nodes = 0 THEN 1 ELSE query.max_nodes
  /\ Len(answer) <= query.max_depth + 1

\* The nodes k links from n, or fewer.
Within(links, n, k) ==
  LET reached[i \in 0 .. k] ==
        IF i = 0 THEN {n}
        ELSE reached[i - 1] \cup {l[2] : l \in {m \in links : m[1] \in reached[i - 1]}}
  IN reached[k]

IsPath(s, links) == \A i \in 1 .. Len(s) - 1 : <<s[i], s[i + 1]>> \in links

\* The store has been built from the tables as they are, or is not there, and every
\* row of it is of use: another node, once.
Clean ==
  store = None \/
  /\ store = tables.edges
  /\ \A e \in store : Present(e[2]) /\ e[1] # e[2]
  /\ \A e, d \in store : e[1] = d[1] /\ e[2] = d[2] => e = d
  /\ query.direction = "both" => \A e, d \in store : e[1] = d[2] => e[2] # d[1]

\* The store's limit is no limit, or nothing is beyond it.
Unlimited ==
  store = None \/ \A n \in tables.nodes : Cardinality(SqlCallees(n)) <= query.max_nodes

(***************************************************************************)
(* If nothing changes and the store's rows are clean, the answers are      *)
(* right.  A path is one, within max_depth, and a shortest one if no node  *)
(* has more than max_nodes callees.  No path and no "truncated" means      *)
(* there is none.  An impact graph has only what is within max_depth, and  *)
(* all of it unless "truncated".  (The store leaves out what is beyond     *)
(* max_nodes of a node, so that a path by way of the others may be longer. *)
(* With recursive or mutually recursive functions, edges of two types or   *)
(* external targets, GraphDB.neighbors spends its limit on rows that add   *)
(* nothing, and what it leaves out is not reported as truncated; nor are   *)
(* neighbours that are not of category SOURCE, which the store does not    *)
(* have.)                                                                  *)
(***************************************************************************)
RightUnlessChanged ==
  LET links == Links(tables, query.direction) IN
  changes = 0 /\ Clean =>
    /\ pc # "panicked"
    /\ pc = "answered" /\ query.tool = "path" =>
         IF answer = <<>>
         THEN ~ truncated => query.to \notin Within(links, query.from, Cardinality(tables.nodes))
         ELSE /\ Head(answer) = query.from /\ Last(answer) = query.to /\ IsPath(answer, links)
              /\ Len(answer) <= query.max_depth + 1
              /\ Unlimited =>
                   \A k \in 0 .. Len(answer) - 2 : query.to \notin Within(links, query.from, k)
    /\ pc = "answered" /\ query.tool # "path" /\ found # {} =>
         LET all == Within(links, query.from, query.max_depth)
         IN found \subseteq all /\ (~ truncated => found = all)

(***************************************************************************)
(* Whatever is committed and rebuilt meanwhile, and however old the store  *)
(* was, a path that is answered whole goes along links that have been      *)
(* there, in the tables or in the store, since the search began; and a     *)
(* search panics (get_node_by_id(..).unwrap()) only if a node has gone.    *)
(***************************************************************************)
PathsExisted ==
  /\ pc = "panicked" => removed # {}
  /\ pc = "answered" /\ query.tool = "path" /\ answer # <<>> =>
       \/ removed # {}
       \/ Head(answer) = query.from /\ Last(answer) = query.to /\ IsPath(answer, linked)

=============================================================================
