--------------------------- MODULE ContextSearch ---------------------------
(***************************************************************************)
(* search_context, search_deep_context, search_memory and resolve_symbol   *)
(* (rust/crates/mcp), while an indexer commits: each opens its databases,  *)
(* reads one source after the other through its full-text index and asks   *)
(* the engine for an embedding of the query after each; a deep search runs *)
(* another search and an impact graph (CodeQueries) for its first symbol.  *)
(*                                                                         *)
(* Whoever opens a database waits for its writer (init_schema writes), and *)
(* a search of memories begins by bringing those of the global documents   *)
(* up to date.  McServers has that synchronisation step by step; here it   *)
(* succeeds, and `Memories' are what it leaves, or ends the search.        *)
(*                                                                         *)
(* The full-text index of nodes is kept by triggers, by rowid; `postings'  *)
(* are the rowids it has for the words of the query.  A version of the     *)
(* tables says which nodes match, and in which order it has (re)written    *)
(* rows.  The embedding finds nothing: no code creates or fills the vector *)
(* tables, and a missing table is taken for one without rows.              *)
(***************************************************************************)
EXTENDS CodeQueries

CONSTANTS
  Memories,      \* per scope, the memories that match, best first
  CodeLimit, MemoryLimit,   \* what search_context reads of each source (8 and 5)
  DeepProbe,     \* what search_deep_context reads of each (5)
  Probe,         \* FTS_PROBE_MULTIPLIER
  Budget         \* DEFAULT_SEARCH_TOKEN_BUDGET, in lines

\* What version w may be after v: whatever is new, or matches otherwise, has been written.
Continues(v, w) ==
  /\ w.nodes \subseteq v.nodes \cup ToSet(w.written)
  /\ w.matching \ ToSet(w.written) = (v.matching \cap w.nodes) \ ToSet(w.written)

\* Keys are unique in a table of memories; the code's limits are 8 and 5.
ASSUME SearchAssumption ==
  /\ DOMAIN Memories = {"workspace", "global"}
  /\ \A scope \in DOMAIN Memories :
       Memories[scope] \in Seq(Range(Memories[scope])) /\ IsInjective(Memories[scope])
  /\ {CodeLimit, MemoryLimit, DeepProbe} \subseteq 0 .. 100 /\ {Probe, Budget} \subseteq Nat
  /\ \A v \in Versions : v.matching \subseteq v.nodes /\ v.written \in Seq(v.nodes)
  /\ \A m \in Menus :
       /\ \A h \in m.histories :
            /\ Continues([nodes |-> {}, matching |-> {}], Head(h))
            /\ \A i \in 1 .. Len(h) - 1 : Continues(h[i], h[i + 1])
       /\ \A q \in m.queries :
            /\ q.tool \in {"impact", "path", "context", "deep", "memory", "resolve"}
            /\ q.tool \in {"context", "deep", "memory", "resolve"} =>
                 {"limit", "within"} \subseteq DOMAIN q /\ q.limit \in Nat

VARIABLES
  rowid,      \* of each node
  postings,
  engine,     \* something listens on the engine's port
  trouble,    \* with the databases: "none", "unreadable" (one of the global documents cannot
              \* be read as text) or "contended" (others lock a database beyond its time-out,
              \* insert the same document first, or take it away while it is read)
  todo,       \* what is left to do: <<operation, source, limit>>
  hits,       \* [source, key, row, score] in the order they were pushed
  unified,    \* the result: unified_context, results or candidates
  capsule,    \* and the lines of the capsule
  always,     \* ghost: the nodes that have matched ever since the search began
  ever,       \* ghost: those that have matched at some time since then
  haunted     \* ghost: rowids whose row was replaced, which left them in the index

searchVars == <<todo, hits, unified, capsule>>
ftsVars == <<rowid, postings, always, ever, haunted>>
around == <<engine, trouble>>
vars == <<codeVars, searchVars, ftsVars, around>>

-----------------------------------------------------------------------------
(***************************************************************************)
(* nodes and nodes_fts.                                                    *)
(***************************************************************************)
\* INSERT OR REPLACE, one row after the other: each gets a rowid above those there are, and
\* the trigger adds its posting; a row that is replaced, even one of the same commit, goes
\* without a trigger, and its posting stays.
InsertAll(fts, v) ==
  LET new(i) == Max(Range(fts.rowid) \cup {0}) + i
      last == [n \in ToSet(v.written) |-> Max({i \in DOMAIN v.written : v.written[i] = n})]
      added == {new(i) : i \in {j \in DOMAIN v.written : v.written[j] \in v.matching}}
      replaced == {fts.rowid[n] : n \in DOMAIN fts.rowid \cap DOMAIN last}
                  \cup {new(i) : i \in DOMAIN v.written \ Range(last)}
  IN [rowid    |-> [n \in DOMAIN fts.rowid \cup DOMAIN last |->
                      IF n \in DOMAIN last THEN new(last[n]) ELSE fts.rowid[n]],
      postings |-> fts.postings \cup added,
      haunted  |-> fts.haunted \cup (replaced \cap (fts.postings \cup added))]

\* DELETE: the trigger removes the words of each row from its rowid.
DeleteAll(fts, gone, v) ==
  [rowid    |-> [n \in DOMAIN fts.rowid \ gone |-> fts.rowid[n]],
   postings |-> fts.postings \ {fts.rowid[n] : n \in gone \cap v.matching},
   haunted  |-> fts.haunted]

NoFts == [rowid |-> [n \in {} |-> 0], postings |-> {}, haunted |-> {}]

-----------------------------------------------------------------------------
FirstSteps(code, memories) ==
  << <<"fts", "code", code>>, <<"embed", None, 0>>,
     <<"fts", "workspace", memories>>, <<"embed", None, 0>>,
     <<"fts", "global", memories>>, <<"embed", None, 0>> >>

ComposeWithin(budget) == FirstSteps(CodeLimit, MemoryLimit) \o << <<"compose", None, budget>> >>

Program(q) ==
  CASE q.tool = "context" -> ComposeWithin(q.limit)
    [] q.tool = "deep" -> FirstSteps(DeepProbe, DeepProbe) \o << <<"unify", None, q.limit>> >>
                            \o ComposeWithin(Budget)
    [] q.tool = "memory" -> SubSeq(FirstSteps(0, MemoryLimit), 3, 6) \o << <<"unify", None, 1000>> >>
    [] q.tool = "resolve" -> << <<"exact", None, 0>>, <<"fts", "code", Probe * q.limit>>,
                                <<"embed", None, 0>>, <<"unify", None, q.limit>> >>
    [] OTHER -> <<>>

Init ==
  /\ CodeInit
  /\ LET fts == InsertAll(NoFts, tables) IN
       rowid = fts.rowid /\ postings = fts.postings /\ haunted = fts.haunted
  /\ engine \in BOOLEAN /\ trouble \in {"none", "unreadable", "contended"}
  /\ todo = Program(query)
  /\ hits = <<>> /\ unified = <<>> /\ capsule = <<>>
  /\ always = tables.matching /\ ever = tables.matching

-----------------------------------------------------------------------------
\* context_rank_score and memory_rank_score for a full-text match.
Score(source, index) ==
  LET domain == IF source = "code" THEN 3000 ELSE 2000
      scope == IF source = "global" THEN 700 ELSE 1000
  IN IF query.tool = "memory" THEN (IF source = "global" THEN 1000 ELSE 2000) + 800 - index
     ELSE domain + scope + 500 - index

\* Mutant: a key once, whatever it is a key of.
SameKey(hit, other) == hit.key = other.key

\* push_context_line, push_deep_hit: a key once per domain and scope.
SameHit(hit, other) == hit.source = other.source /\ hit.key = other.key

PushAll(list, more) ==
  LET all == list \o more
  IN Selected(all, {i \in DOMAIN all : \A j \in 1 .. i - 1 : ~ SameHit(all[j], all[i])})

\* search_nodes_fts: postings are joined with the rows there are; among equals in
\* category any order may be that of the rank.
FtsNodes(limit) ==
  LET found_ == {n \in DOMAIN rowid : rowid[n] \in postings}
  IN {FirstOf(first \o then, limit) : first \in SetToSeqs(found_ \cap SourceNodes),
                                      then \in SetToSeqs(found_ \ SourceNodes)}

FtsHits(source, limit) ==
  IF source = "code"
  THEN {[i \in DOMAIN s |-> [source |-> source, key |-> s[i], row |-> rowid[s[i]],
                             score |-> Score(source, i - 1)]] : s \in FtsNodes(limit)}
  ELSE LET s == FirstOf(Memories[source], limit)
       IN {[i \in DOMAIN s |-> [source |-> source, key |-> s[i], row |-> 0,
                                score |-> Score(source, i - 1)]]}

\* resolve_symbol looks for more than it needs, drops what is of another file or
\* language, and stops at the limit.
Wanted(list) ==
  LET new == Selected(list, {i \in DOMAIN list :
                               /\ list[i].key \in query.within
                               /\ \A j \in DOMAIN hits : hits[j].key # list[i].key})
  IN FirstOf(new, IF Len(hits) < query.limit THEN query.limit - Len(hits) ELSE 0)

\* By score; a hit comes after those that are before it here.
Ranked(list) ==
  LET upTo(i) == {j \in DOMAIN list : \/ list[j].score > list[i].score
                                     \/ (list[j].score = list[i].score /\ j <= i)}
  IN [k \in DOMAIN list |-> list[CHOOSE i \in DOMAIN list : Cardinality(upTo(i)) = k]]

KeysOf(list, source) ==
  LET those == Selected(list, {i \in DOMAIN list : list[i].source = source})
  IN [i \in DOMAIN those |-> those[i].key]

-----------------------------------------------------------------------------
\* The searches of memories, of both scopes.
Syncs == query.tool \in {"context", "deep", "memory"}

\* Mutant: what cannot be read or written is passed over.
OpenRegardless ==
  /\ pc = "open"
  /\ pc' = IF query.tool \in {"impact", "path"} THEN "start" ELSE "collect"
  /\ UNCHANGED <<tables, future, store, query, queue, visited, found, rows, path, truncated,
                 answer, changes, linked, removed, searchVars, ftsVars, around>>

\* open_connection, and open_global_connection with sync_global_knowledge: every document is
\* read, and the first error ends the search.
Open ==
  /\ pc = "open"
  /\ \/ /\ Syncs => trouble # "unreadable"
        /\ pc' = IF query.tool \in {"impact", "path"} THEN "start" ELSE "collect"
        /\ UNCHANGED todo
     \/ /\ trouble = "contended" \/ (Syncs /\ trouble = "unreadable")
        /\ pc' = "failed" /\ todo' = <<>>
  /\ UNCHANGED <<tables, future, store, query, queue, visited, found, rows, path, truncated,
                 answer, changes, linked, removed, hits, unified, capsule, ftsVars, around>>

At(op) == pc = "collect" /\ todo # <<>> /\ Head(todo)[1] = op

\* get_node_by_fqn, for the name itself.
Exact ==
  /\ At("exact")
  /\ hits' = IF query.from # None /\ Present(query.from)
             THEN << [source |-> "code", key |-> query.from, row |-> rowid[query.from],
                      score |-> 0] >>
             ELSE <<>>
  /\ todo' = Tail(todo)
  /\ UNCHANGED <<codeVars, ftsVars, around, unified, capsule>>

Lexical ==
  /\ At("fts")
  /\ \E list \in FtsHits(Head(todo)[2], Head(todo)[3]) :
       hits' = PushAll(hits, IF query.tool = "resolve" THEN Wanted(list) ELSE list)
  /\ todo' = Tail(todo)
  /\ UNCHANGED <<codeVars, ftsVars, around, unified, capsule>>

\* query_embedding_bytes: no engine, or one that answers with an error, is no matter; one
\* that accepts the connection and does not answer in time ends the search.
Embed ==
  /\ At("embed")
  /\ \/ todo' = Tail(todo) /\ UNCHANGED pc
     \/ /\ engine /\ ~ (query.tool = "resolve" /\ Len(hits) >= query.limit)
        /\ pc' = "failed" /\ todo' = <<>>
  /\ UNCHANGED <<tables, future, store, query, queue, visited, found, rows, path, truncated,
                 answer, changes, linked, removed, ftsVars, around, hits, unified, capsule>>

\* A deep search goes on with call_search_context, which opens the databases once more.
Unify ==
  /\ At("unify")
  /\ unified' = FirstOf(IF query.tool = "resolve" THEN hits ELSE Ranked(hits), Head(todo)[3])
  /\ hits' = <<>> /\ todo' = Tail(todo)
  /\ pc' = IF query.tool = "deep" THEN "open" ELSE pc
  /\ UNCHANGED <<tables, future, store, query, queue, visited, found, rows, path, truncated,
                 answer, changes, linked, removed, ftsVars, around, capsule>>

Compose ==
  /\ At("compose")
  /\ capsule' = FirstOf(Ranked(hits), Head(todo)[3])
  /\ hits' = <<>> /\ todo' = Tail(todo)
  /\ UNCHANGED <<codeVars, ftsVars, around, unified>>

\* The answer is ready, except that a deep search goes on with the impact graph of the
\* first symbol it has found, and without one if the tables cannot be opened for it.
Deliver ==
  LET symbols == KeysOf(unified, "code") IN
  /\ pc = "collect" /\ todo = <<>>
  /\ \/ /\ query.tool = "deep" /\ symbols # <<>>
        /\ pc' = "start" /\ query' = [query EXCEPT !.from = Head(symbols)]
     \/ /\ query.tool # "deep" \/ symbols = <<>> \/ trouble = "contended"
        /\ pc' = "answered" /\ UNCHANGED query
  /\ UNCHANGED <<tables, future, store, queue, visited, found, rows, path, truncated, answer,
                 changes, linked, removed, searchVars, ftsVars, around>>

\* A commit of the indexer, for the full-text index: what has gone is deleted, then rows
\* are written.
Commit ==
  /\ Reindex
  /\ LET before == [rowid |-> rowid, postings |-> postings, haunted |-> haunted]
         fts == InsertAll(DeleteAll(before, DOMAIN rowid \ tables'.nodes, tables), tables')
     IN rowid' = fts.rowid /\ postings' = fts.postings /\ haunted' = fts.haunted
  /\ always' = always \cap tables'.matching /\ ever' = ever \cup tables'.matching
  /\ UNCHANGED <<searchVars, around>>

Next ==
  \/ (QueryStep \/ StoreStep) /\ UNCHANGED <<searchVars, ftsVars, around>>
  \/ Open \/ Exact \/ Lexical \/ Embed \/ Unify \/ Compose \/ Deliver
  \/ Commit

Spec == Init /\ [][Next]_vars

-----------------------------------------------------------------------------
TypeOK ==
  /\ CodeTypeOK
  /\ DOMAIN rowid = tables.nodes /\ IsInjective(rowid)
  /\ postings \subseteq Nat /\ haunted \subseteq Nat
  /\ always \subseteq tables.matching /\ tables.matching \subseteq ever
  /\ pc \notin {"open", "collect"} => todo = <<>>

SourceRank(source) == CASE source = "code" -> 1 [] source = "workspace" -> 2 [] OTHER -> 3

\* What a list that was to have `code' nodes and `memories' of each scope at most, and not
\* more than `limit' in all, owes its reader.
Finds(list, code, memories, limit) ==
  LET cut == Len(list) >= limit IN
  /\ \A i, j \in DOMAIN list : i < j => SourceRank(list[i].source) <= SourceRank(list[j].source)
  /\ \A i \in DOMAIN list : list[i].source = "code" => list[i].key \in ever \/ list[i].row \in haunted
  /\ IsInjective(KeysOf(list, "code"))
  /\ Cardinality(ever) + Cardinality(haunted) <= code /\ ~ cut =>
       always \subseteq ToSet(KeysOf(list, "code"))
  /\ \A scope \in DOMAIN Memories :
       LET all == FirstOf(Memories[scope], memories) IN
       IF cut THEN IsPrefix(KeysOf(list, scope), all) ELSE KeysOf(list, scope) = all

(***************************************************************************)
(* A search that is answered has what the sources had, whatever the engine *)
(* said and whatever was committed meanwhile: every symbol that matched    *)
(* all the time and every memory, once, symbols before memories and those  *)
(* of the workspace before the global ones, as far as the limits go; and   *)
(* no symbol that never matched, unless its rowid had belonged to a row    *)
(* that was replaced.  (INSERT OR REPLACE leaves such postings behind, and *)
(* after a deletion the rowid is given to another symbol.)  A search fails *)
(* only if something listens on the engine's port, if others contend for   *)
(* its databases, or, when it is one of memories, if a global document     *)
(* cannot be read; and while there is such a document, no search of        *)
(* memories is answered, whatever it looks for.                            *)
(***************************************************************************)
SearchesFind ==
  /\ pc = "failed" =>
       \/ engine /\ query.tool \notin {"impact", "path"}
       \/ trouble = "contended"
       \/ trouble = "unreadable" /\ Syncs
  /\ Syncs /\ trouble = "unreadable" => pc \in {"open", "failed"}
  /\ pc \in {"answered", "not found"} =>
       /\ query.tool \in {"context", "deep"} =>
            Finds(capsule, CodeLimit, MemoryLimit, IF query.tool = "deep" THEN Budget ELSE query.limit)
       /\ query.tool = "deep" => Finds(unified, DeepProbe, DeepProbe, query.limit)
       /\ query.tool = "memory" => Finds(unified, 0, MemoryLimit, 1000)
       /\ query.tool = "resolve" /\ Cardinality(ever) + Cardinality(haunted) <= Probe * query.limit =>
            \/ Len(unified) >= query.limit
            \/ always \cap query.within \subseteq ToSet(KeysOf(unified, "code"))

=============================================================================
