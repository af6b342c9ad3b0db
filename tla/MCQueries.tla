----------------------------- MODULE MCQueries -----------------------------
(***************************************************************************)
(* Small instances of ContextSearch: impact graphs and paths on every      *)
(* digraph of three nodes in which only the first may have an edge to      *)
(* itself, and on a few histories with unresolved names, edges of two      *)
(* types and nodes that go; searches on histories in which rows are        *)
(* replaced, removed and written anew.                                     *)
(***************************************************************************)
EXTENDS ContextSearch

CONSTANTS n1, n2, n3, n4, n5, n6, f, g, k, m1, m2

First3 == {n1, n2, n3}

Names3 == [n \in Nodes |-> IF n = n1 THEN f ELSE g]

Version(nodes, pairs) ==
  [nodes |-> nodes, edges |-> {<<p[1], p[2], "CALLS">> : p \in pairs}, matching |-> {},
   written |-> SetToSeq(nodes)]

Still == {<<Version(First3, pairs)>> : pairs \in SUBSET {p \in First3 \X First3 : p[1] # p[2] \/ p[1] = n1}}

Chain == Version(First3, {<<n1, n2>>, <<n2, n3>>})
Direct == Version(First3, {<<n1, n3>>, <<n3, n2>>})
Unresolved == Version(First3, {<<n1, g>>, <<n2, n3>>})
Mixed == [Chain EXCEPT !.edges = {<<n1, n2, "CALLS">>, <<n1, n2, "READS">>, <<n1, n3, "CALLS">>}]
Shrunk == Version({n1, n3}, {<<n1, n3>>})
\* n1 has more callees than the store may answer, and one of them calls another.
Wide == Version({n1, n2, n3, n5, n6}, {<<n1, n2>>, <<n1, n3>>, <<n1, n5>>, <<n1, n6>>, <<n2, n3>>})
Bare == Version({n1}, {})

Moving == {<<Chain, Direct>>, <<Chain, Shrunk, Chain>>, <<Unresolved, Chain>>, <<Mixed, Shrunk>>,
           <<Direct, Bare>>, <<Bare, Chain>>, <<Shrunk, Mixed>>, <<Wide, Chain>>}

Graphs ==
  [tool : {"path"}, from : {n1}, to : {n3}, direction : {"callees"},
   max_depth : {0, 1, 3}, max_nodes : {2, 3, 4}]
  \cup
  [tool : {"impact"}, from : {n1}, to : {None}, direction : {"callees", "callers", "both"},
   max_depth : {1, 2}, max_nodes : {1, 2, 3}]

\* A version of which only `written' has been written since the one before.
Text(nodes, matching, written) ==
  [Version(nodes, {}) EXCEPT !.matching = matching, !.written = written,
                             !.edges = {<<n1, n2, "CALLS">>, <<n2, n4, "CALLS">>} \cap
                                       (nodes \X nodes \X {"CALLS"})]

\* n4 is not of category SOURCE.
Texts ==
  { << Text({n1, n2, n4}, {n1, n2, n4}, <<n1, n2, n4>>) >>,
    << Text({n1, n2, n4}, {n2}, <<n4, n1, n2>>), Text({n1, n2, n4}, {n1, n2}, <<n1>>),
       Text({n1, n2}, {n1, n2}, <<>>) >>,
    \* n1 is edited, removed, and another symbol gets its first rowid
    << Text({n1}, {n1}, <<n1>>), Text({n1}, {}, <<n1>>), Text({}, {}, <<>>),
       Text({n2, n4}, {n4}, <<n2, n4>>) >>,
    \* n1 goes while it matches
    << Text({n1}, {n1}, <<n1>>), Text({}, {}, <<>>), Text({n2}, {}, <<n2>>) >>,
    \* n1 is written twice at once; n2 gets its first rowid, matches and goes
    << Text({n1}, {n1}, <<n1>>), Text({n1}, {}, <<n1, n1>>), Text({}, {}, <<>>),
       Text({n2}, {n2}, <<n2>>), Text({n4}, {}, <<n4>>) >> }

Search(tool, from, limits, within) ==
  [tool : {tool}, from : from, to : {None}, direction : {"both"}, max_depth : {2},
   max_nodes : {3}, limit : limits, within : within]

Searches ==
  Search("context", {None}, {2, 9}, {Nodes}) \cup Search("deep", {None}, {1, 9}, {Nodes})
  \cup Search("memory", {None}, {0}, {Nodes})
  \cup Search("resolve", {None, n1}, {0, 1, 2}, {Nodes, {n2}})

QueryMenus == { [histories |-> Still \cup Moving, queries |-> Graphs],
                [histories |-> Texts, queries |-> Searches] }

\* One key in both scopes.
SomeMemories == [scope \in {"workspace", "global"} |->
                   IF scope = "workspace" THEN <<k, m1>> ELSE <<m2, k>>]

=============================================================================
