----------------------------- MODULE IndexStore -----------------------------
(***************************************************************************)
(* The tables of the code index and the transactions on them               *)
(* (rust/crates/storage/src/{lib,resolver}.rs and cleanup_file_records of  *)
(* rust/crates/watcher/src/index.rs), and what the graph store makes of    *)
(* them (src/cortex/storage/graph.py).  Every transaction is an operator   *)
(* from the database to the database.                                      *)
(*                                                                         *)
(* A symbol is a node id: the hash of its fqn, which begins with the path  *)
(* of its file (for a chunk of a PDF, the hash of that path and a number), *)
(* so that the constants below are functions of the symbol.                *)
(* A ref is what an edge says of a target outside its file: a bare name or *)
(* a dotted fqn, with the hints beside it.  A content stands for itself    *)
(* and for its hash.                                                       *)
(***************************************************************************)
EXTENDS Naturals, FiniteSets

CONSTANTS
  Files, Contents,
  Pdfs,               \* the files with the extension .pdf
  Symbols, SymbolFile, SymbolName, SymbolLang, SymbolKind,
  Refs,
  RefName, RefKind,   \* target_name, target_kind_hint
  RefFqn,             \* the symbol whose fqn is target_fqn_hint, or None
  RefDotted,          \* the symbols whose fqn contains the dotted path of the target id
  Parse,              \* Parse[f][c]: the symbols and edges of file f with content c
  None

ASSUME StoreAssumption ==
  /\ Symbols \cap Refs = {}
  /\ None \notin Files \cup Contents \cup Symbols \cup Refs
  /\ Pdfs \subseteq Files
  /\ SymbolFile \in [Symbols -> Files]
  /\ \A f \in Files, c \in Contents :
       /\ Parse[f][c].symbols \subseteq {s \in Symbols : SymbolFile[s] = f}
       /\ Parse[f][c].edges \subseteq
            Parse[f][c].symbols \X (Parse[f][c].symbols \cup Refs)

\* A row of edges.  A target that is a ref is an `__unresolved' id.
EdgeRow ==
  [source : Symbols, target : Symbols \cup Refs, ref : Refs \cup {None},
   status : {"unresolved", "ambiguous", "resolved"}]

\* nodes: the content whose parse wrote the symbol's row, if it has one; cache: file_cache.
Database ==
  [nodes : [Symbols -> Contents \cup {None}],
   edges : SUBSET EdgeRow,
   cache : [Files -> Contents \cup {None}]]

EmptyDatabase ==
  [nodes |-> [s \in Symbols |-> None], edges |-> {}, cache |-> [f \in Files |-> None]]

Rows(db) == {s \in Symbols : db.nodes[s] # None}

\* nodes.file_path.  The parser of PDFs is given the absolute path of the file, and its rows
\* carry that path (None here), which no command ever asks for.
FilePath(s) == IF SymbolFile[s] \in Pdfs THEN None ELSE SymbolFile[s]

RowsOf(db, f) == {s \in Rows(db) : FilePath(s) = f}

\* UNIQUE(source_id, target_id, type)
Key(e) == <<e.source, e.target>>

Keys(edges) == {Key(e) : e \in edges}

-----------------------------------------------------------------------------
(***************************************************************************)
(* write_file_batch: one parsed file, one transaction.  Rows that the file *)
(* no longer has stay.                                                     *)
(***************************************************************************)
\* What a parser gives; nothing at all when it fails (parse_output).
Batch(f, content) ==
  IF content = None THEN [symbols |-> {}, edges |-> {}] ELSE Parse[f][content]

\* Mutant: the column's default, 'unresolved', is left to stand.
UnresolvedRow(edge) ==
  [source |-> edge[1], target |-> edge[2],
   ref    |-> IF edge[2] \in Refs THEN edge[2] ELSE None,
   status |-> "unresolved"]

\* resolution_status_for_target
NewRow(edge) ==
  [source |-> edge[1], target |-> edge[2],
   ref    |-> IF edge[2] \in Refs THEN edge[2] ELSE None,
   status |-> IF edge[2] \in Refs THEN "unresolved" ELSE "resolved"]

\* Mutant: nodes are written with INSERT OR IGNORE, as edges are.
NodesIgnored(db, f, hash, content) ==
  [nodes |-> [s \in Symbols |->
                IF s \in Batch(f, content).symbols /\ db.nodes[s] = None
                THEN content ELSE db.nodes[s]],
   edges |-> db.edges \cup {NewRow(x) : x \in Batch(f, content).edges \ Keys(db.edges)},
   cache |-> [db.cache EXCEPT ![f] = hash]]

WriteFileBatch(db, f, hash, content) ==
  [nodes |-> [s \in Symbols |->
                IF s \in Batch(f, content).symbols THEN content ELSE db.nodes[s]],
   edges |-> db.edges \cup {NewRow(x) : x \in Batch(f, content).edges \ Keys(db.edges)},
   cache |-> [db.cache EXCEPT ![f] = hash]]

-----------------------------------------------------------------------------
(***************************************************************************)
(* cleanup_file_records                                                    *)
(***************************************************************************)
\* Mutant: only the cache row goes.
UncacheFile(db, f) == [db EXCEPT !.cache[f] = None]

\* Mutant: edges that lead to the file stay.
CleanupOutgoing(db, f) ==
  [nodes |-> [s \in Symbols |-> IF FilePath(s) = f THEN None ELSE db.nodes[s]],
   edges |-> {e \in db.edges : e.source \notin RowsOf(db, f)},
   cache |-> [db.cache EXCEPT ![f] = None]]

CleanupFileRecords(db, f) ==
  [nodes |-> [s \in Symbols |-> IF FilePath(s) = f THEN None ELSE db.nodes[s]],
   edges |-> {e \in db.edges : {e.source, e.target} \cap RowsOf(db, f) = {}},
   cache |-> [db.cache EXCEPT ![f] = None]]

-----------------------------------------------------------------------------
(***************************************************************************)
(* resolve_unresolved_edges                                                *)
(***************************************************************************)
\* UNRESOLVED_EDGE_SQL: ambiguous edges are tried again.
Unresolved(db) == {e \in db.edges : e.status = "unresolved" \/ e.target \in Refs}

\* resolve_one: the candidates of the first rule that has any.
Matches(db, e) ==
  LET r        == e.target
      named    == {s \in Rows(db) : SymbolName[s] = RefName[r]}
      alike    == {s \in named : SymbolLang[s] = SymbolLang[e.source]}
      byRule   == <<{s \in Rows(db) : s = RefFqn[r]},
                    Rows(db) \cap RefDotted[r],
                    {s \in alike : SymbolKind[s] = RefKind[r]},
                    alike,
                    named>>
  IN  {s \in Rows(db) : \E i \in 1..5 :
         s \in byRule[i] /\ \A j \in 1..(i - 1) : byRule[j] = {}}

Unique(db) == {e \in Unresolved(db) : Cardinality(Matches(db, e)) = 1}

Ambiguous(db) == {e \in Unresolved(db) : Cardinality(Matches(db, e)) > 1}

\* UPDATE_EDGE_TARGET_ID_SQL
ResolvedRow(db, e) ==
  [e EXCEPT !.target = CHOOSE s \in Matches(db, e) : TRUE, !.status = "resolved"]

\* UPDATE OR IGNORE: of the edges that come to one key only the first is updated, and none
\* if a row has that key already.  The order is that of the rows' ids.
Updatable(db) ==
  {won \in SUBSET Unique(db) :
     \A e \in Unique(db) :
       LET rivals == {x \in won : Key(ResolvedRow(db, x)) = Key(ResolvedRow(db, e))}
       IN  Cardinality(rivals) = IF Key(ResolvedRow(db, e)) \in Keys(db.edges) THEN 0 ELSE 1}

ResolveEdges(db, won) ==
  [db EXCEPT !.edges =
     (@ \ (won \cup Ambiguous(db)))
       \cup {ResolvedRow(db, e) : e \in won}
       \cup {[e EXCEPT !.status = "ambiguous"] : e \in Ambiguous(db)}]

-----------------------------------------------------------------------------
(***************************************************************************)
(* build_from_sqlite: the edges of the graph that join nodes it has.  An   *)
(* unresolved edge leads to an External node, made for it.                 *)
(***************************************************************************)
GraphEdges(db, nodes) ==
  {Key(e) : e \in {x \in db.edges :
     /\ x.source \in nodes
     /\ x.target \in nodes \/ (x.target \in Refs /\ x.status = "unresolved")}}

=============================================================================
