------------------------------- MODULE Indexer -------------------------------
(***************************************************************************)
(* The processes of rust/crates/watcher: `index' (the whole workspace),    *)
(* `index-file' (one file) and `watch' (what the notify crate reports),    *)
(* each on its own connection to one database and on one graph store,      *)
(* while files change under them.                                          *)
(*                                                                         *)
(* A step is one read of a file, one transaction, or one part of the       *)
(* rebuilding of the graph store.  index first inspects all files, four at *)
(* a time, and then writes them; the other two finish a file before they   *)
(* look at the next.  The order of the files does not matter here and is   *)
(* left open.                                                              *)
(***************************************************************************)
EXTENDS IndexStore

CONSTANTS
  Disks,         \* what the files can contain when a behaviour begins
  Casts,         \* the sets of processes that share a workspace, one set in each behaviour
  MaxEdits,      \* bound on changes of the files
  MaxStops,      \* bound on kills, orderly stops, failing writes and failing syncs
  MaxFailures,   \* bound on parsers that fail
  NotText,       \* <<f, c>>: what file f then contains is not UTF-8
  Sealed,        \* <<f, c>>: file f then may not be opened
  NoGraph        \* the graph store does not exist

ASSUME IndexerAssumption ==
  /\ Disks \subseteq [Files -> Contents \cup {None}]
  /\ Casts \subseteq SUBSET {"index", "index_file", "watch"}
  /\ MaxEdits \in Nat /\ MaxStops \in Nat /\ MaxFailures \in Nat
  /\ NotText \subseteq Files \X Contents /\ Sealed \subseteq Files \X Contents

Procs == UNION Casts

VARIABLES
  disk,       \* the content of each file, or None
  db,         \* the tables
  graph,      \* the graph store
  pc,         \* per process
  work,       \* per process and file: what it has to do and what it has found out
  cached,     \* per process: the hashes it has loaded from file_cache
  force,      \* per process: --force
  behind,     \* per process: others have committed since it began to resolve
  alone,      \* nothing but `index' has done anything since it began
  torn,       \* the files whose last write had the hash of one content and not its rows
  events, pending, stopping,   \* watch: the channel, its batch, the shutdown flag
  edits, stops, failures

watcher == <<events, pending, stopping>>
bounds == <<edits, stops, failures>>
vars == <<disk, db, graph, pc, work, cached, force, behind, alone, torn, watcher, bounds>>

Nothing == [st |-> "none", hash |-> None, rows |-> None]
Todo    == [Nothing EXCEPT !.st = "todo"]
Gone    == [Nothing EXCEPT !.st = "gone"]

NoWork == [f \in Files |-> Nothing]

Init ==
  /\ disk \in Disks
  /\ db = EmptyDatabase
  /\ graph = NoGraph
  /\ \E cast \in Casts : pc = [p \in Procs |-> IF p \in cast THEN "idle" ELSE "absent"]
  /\ work = [p \in Procs |-> NoWork]
  /\ cached = [p \in Procs |-> [f \in Files |-> None]]
  /\ force = [p \in Procs |-> FALSE]
  /\ behind = [p \in Procs |-> TRUE]
  /\ alone = FALSE /\ torn = {}
  /\ events = {} /\ pending = {} /\ stopping = FALSE
  /\ edits = 0 /\ stops = 0 /\ failures = 0

-----------------------------------------------------------------------------
\* Where a process does nothing of itself.
AtRest == {"idle", "done", "down", "absent"}

Goto(p, from, to) == pc[p] = from /\ pc' = [pc EXCEPT ![p] = to]

\* A transaction of p: the others' snapshots are behind it.
Commit(p, new) ==
  /\ db' = new
  /\ behind' = [q \in Procs |-> q # p \/ behind[q]]

Work(p, f, w) == work' = [work EXCEPT ![p][f] = w]

MarkAlone(p) == alone' = (alone /\ p = "index")

Marks(p) == MarkAlone(p) /\ UNCHANGED torn

Stop == stops < MaxStops /\ stops' = stops + 1 /\ UNCHANGED <<edits, failures>>

\* The process returns an error: a command ends, and so does the watcher.
Fails(p) ==
  /\ pc' = [pc EXCEPT ![p] = IF p = "watch" THEN "down" ELSE "idle"]
  /\ work' = [work EXCEPT ![p] = NoWork]
  /\ cached' = [cached EXCEPT ![p] = [f \in Files |-> None]]
  /\ force' = [force EXCEPT ![p] = FALSE]
  /\ behind' = [behind EXCEPT ![p] = TRUE]

Watched == "watch" \in Procs /\ pc["watch"] \notin {"down", "absent"}

\* A file is written, created or removed; the watcher is told.
Edit(f) ==
  /\ edits < MaxEdits /\ edits' = edits + 1
  /\ \E c \in (Contents \cup {None}) \ {disk[f]} : disk' = [disk EXCEPT ![f] = c]
  /\ events' = IF Watched THEN events \cup {f} ELSE events
  /\ alone' = FALSE /\ torn' = torn
  /\ UNCHANGED <<db, graph, pc, work, cached, force, behind, pending, stopping, stops, failures>>

-----------------------------------------------------------------------------
(***************************************************************************)
(* How the commands and a batch of the watcher begin.                      *)
(***************************************************************************)
\* cmd_index: scan_files, before the database is opened.
Scan ==
  /\ pc["index"] \in {"idle", "done"}
  /\ pc' = [pc EXCEPT !["index"] = "open"]
  /\ \E forced \in BOOLEAN : force' = [force EXCEPT !["index"] = forced]
  /\ work' = [work EXCEPT !["index"] =
                [f \in Files |-> IF disk[f] # None THEN Todo ELSE Nothing]]
  /\ alone' = TRUE /\ torn' = torn
  /\ UNCHANGED <<disk, db, graph, cached, behind, watcher, bounds>>

\* Mutant: cached paths are not compared with the scan.
KeepDeleted ==
  /\ Goto("index", "open", "cleanup")
  /\ UNCHANGED <<disk, db, graph, work, cached, force, behind, alone, torn, watcher, bounds>>

\* cleanup_deleted_file_records: cached paths that the scan did not find.
FindDeleted ==
  /\ Goto("index", "open", "cleanup")
  /\ work' = [work EXCEPT !["index"] =
                [f \in Files |-> IF @[f] = Nothing /\ db.cache[f] # None THEN Gone ELSE @[f]]]
  /\ UNCHANGED <<disk, db, graph, cached, force, behind, alone, torn, watcher, bounds>>

\* load_file_cache_hash_map, once they are cleaned up.
LoadCache ==
  /\ \A f \in Files : work["index"][f] # Gone
  /\ Goto("index", "cleanup", "inspect")
  /\ cached' = [cached EXCEPT !["index"] = db.cache]
  /\ UNCHANGED <<disk, db, graph, work, force, behind, alone, torn, watcher, bounds>>

\* cmd_index_file
IndexFile(f) ==
  /\ Goto("index_file", "idle", "inspect")
  /\ \E forced \in BOOLEAN : force' = [force EXCEPT !["index_file"] = forced]
  /\ cached' = [cached EXCEPT !["index_file"][f] = db.cache[f]]
  /\ Work("index_file", f, Todo)
  /\ alone' = FALSE /\ torn' = torn
  /\ UNCHANGED <<disk, db, graph, behind, watcher, bounds>>

\* enqueue_event_paths
Receive(f) ==
  /\ pc["watch"] = "idle" /\ ~stopping
  /\ f \in events
  /\ events' = events \ {f}
  /\ pending' = pending \cup {f}
  /\ UNCHANGED <<disk, db, graph, pc, work, cached, force, behind, alone, torn, stopping, bounds>>

\* flush_pending_batch, five seconds after the last event or at shutdown.
Flush ==
  /\ pending # {}
  /\ Goto("watch", "idle", "inspect")
  /\ work' = [work EXCEPT !["watch"] = [f \in Files |-> IF f \in pending THEN Todo ELSE Nothing]]
  /\ cached' = [cached EXCEPT !["watch"] = db.cache]
  /\ pending' = {}
  /\ UNCHANGED <<disk, db, graph, force, behind, alone, torn, events, stopping, bounds>>

-----------------------------------------------------------------------------
(***************************************************************************)
(* Files: inspect_path, write_indexed_path, cleanup_file_records.          *)
(***************************************************************************)
\* p may look at file f.
Inspecting(p, f) ==
  /\ pc[p] = "inspect"
  /\ p = "index" \/ \A g \in Files \ {f} : work[p][g] \in {Nothing, Todo}

\* p may write what it knows of file f.
Writing(p, f) ==
  \/ p = "index" /\ pc[p] = "write"
  \/ p # "index" /\ pc[p] = "inspect"

\* std::fs::read
Opens(f) == disk[f] # None /\ <<f, disk[f]>> \notin Sealed

\* read_text_source
OpensAsText(f) == Opens(f) /\ <<f, disk[f]>> \notin NotText

\* The read for the hash takes a PDF as bytes.
OpensForHash(f) == IF f \in Pdfs THEN Opens(f) ELSE OpensAsText(f)

\* Mutant: a file that is not there is an error and no deletion.
IgnoreMissing(p, f) ==
  /\ Inspecting(p, f) /\ work[p][f] = Todo
  /\ disk[f] = None \/ OpensForHash(f)
  /\ Work(p, f, IF disk[f] = None \/ (~force[p] /\ cached[p][f] = disk[f]) THEN Nothing
                ELSE [st |-> "hashed", hash |-> disk[f], rows |-> None])
  /\ Marks(p)
  /\ UNCHANGED <<disk, db, graph, pc, cached, force, behind, watcher, bounds>>

\* The first read of the file, for its hash.
Hash(p, f) ==
  /\ Inspecting(p, f) /\ work[p][f] = Todo
  /\ disk[f] = None \/ OpensForHash(f)
  /\ Work(p, f, IF disk[f] = None THEN Gone
                ELSE IF ~force[p] /\ cached[p][f] = disk[f] THEN Nothing
                ELSE [st |-> "hashed", hash |-> disk[f], rows |-> None])
  /\ Marks(p)
  /\ UNCHANGED <<disk, db, graph, pc, cached, force, behind, watcher, bounds>>

\* index has one more read to come.
AfterParse(p) == IF p = "index" THEN "parsed" ELSE "ready"

\* The second read, for the parser, whose failure is an empty result (parse_source); a PDF
\* is read by the parser itself, and one it cannot open is such a failure.
ParseFile(p, f) ==
  /\ Inspecting(p, f) /\ work[p][f].st = "hashed"
  /\ f \in Pdfs \/ OpensAsText(f)
  /\ \/ /\ Opens(f)
        /\ Work(p, f, [work[p][f] EXCEPT !.st = AfterParse(p), !.rows = disk[f]])
        /\ UNCHANGED failures
     \/ /\ IF Opens(f) THEN failures < MaxFailures /\ failures' = failures + 1
                       ELSE UNCHANGED failures
        /\ Work(p, f, [work[p][f] EXCEPT !.st = AfterParse(p)])
  /\ Marks(p)
  /\ UNCHANGED <<disk, db, graph, pc, cached, force, behind, watcher, edits, stops>>

\* The third read, which index makes for the vectors: as text, even of a PDF.
ReadVectors(f) ==
  /\ Inspecting("index", f) /\ work["index"][f].st = "parsed"
  /\ OpensAsText(f)
  /\ Work("index", f, [work["index"][f] EXCEPT !.st = "ready"])
  /\ Marks("index")
  /\ UNCHANGED <<disk, db, graph, pc, cached, force, behind, watcher, bounds>>

\* A read is refused: the file may not be opened, or is not text, or has gone since the
\* read before.  index-file ends; index counts an error and passes over the file, and the
\* watcher forgets it.
ReadFails(p, f) ==
  /\ Inspecting(p, f)
  /\ \/ work[p][f] = Todo /\ disk[f] # None /\ ~OpensForHash(f)
     \/ work[p][f].st = "hashed" /\ f \notin Pdfs /\ ~OpensAsText(f)
     \/ work[p][f].st = "parsed" /\ ~OpensAsText(f)
  /\ IF p = "index_file" THEN Fails(p)
     ELSE Work(p, f, Nothing) /\ UNCHANGED <<pc, cached, force, behind>>
  /\ Marks(p)
  /\ UNCHANGED <<disk, db, graph, watcher, bounds>>

\* All files have been inspected.
Inspected ==
  /\ \A f \in Files : work["index"][f].st \notin {"todo", "hashed", "parsed"}
  /\ Goto("index", "inspect", "write")
  /\ UNCHANGED <<disk, db, graph, work, cached, force, behind, alone, torn, watcher, bounds>>

\* watch and index-file go on with sync_file_graph, if there is a graph store.
Write(p, f) ==
  /\ Writing(p, f) /\ work[p][f].st = "ready"
  /\ Commit(p, WriteFileBatch(db, f, work[p][f].hash, work[p][f].rows))
  /\ Work(p, f, Nothing)
  /\ pc' = [pc EXCEPT ![p] = IF p # "index" /\ graph # NoGraph THEN "file_sync" ELSE @]
  /\ torn' = IF work[p][f].rows = work[p][f].hash THEN torn \ {f} ELSE torn \cup {f}
  /\ MarkAlone(p)
  /\ UNCHANGED <<disk, graph, cached, force, watcher, bounds>>

CleanUp(p, f) ==
  /\ Writing(p, f) \/ pc[p] = "cleanup"
  /\ work[p][f] = Gone
  /\ Commit(p, CleanupFileRecords(db, f))
  /\ Work(p, f, Nothing)
  /\ Marks(p)
  /\ UNCHANGED <<disk, graph, pc, cached, force, watcher, bounds>>

\* The database stays locked, or the disk is full.  The watcher forgets the file.
WriteFails(p, f) ==
  /\ Writing(p, f) /\ work[p][f].st \in {"ready", "gone"}
  /\ Stop
  /\ IF p = "watch" THEN Work(p, f, Nothing) /\ UNCHANGED <<pc, cached, force, behind>>
                    ELSE Fails(p)
  /\ Marks(p)
  /\ UNCHANGED <<disk, db, graph, watcher>>

-----------------------------------------------------------------------------
(***************************************************************************)
(* resolve_unresolved_edges: a transaction that begins with a read.  When  *)
(* others have committed before its first update, the update is refused.   *)
(***************************************************************************)
\* Mutant: index leaves the graph store to process_path.
NoFinalSync(p) == IF p = "watch" THEN "idle" ELSE IF p = "index" THEN "done" ELSE "sync"

AfterResolve(p) == IF p = "watch" THEN "idle" ELSE "sync"

FilesDone(p) ==
  /\ pc[p] = IF p = "index" THEN "write" ELSE "inspect"
  /\ work[p] = NoWork

ResolveRead(p) ==
  /\ FilesDone(p)
  /\ IF Unique(db) \cup Ambiguous(db) = {}
     THEN /\ pc' = [pc EXCEPT ![p] = AfterResolve(p)]
          /\ UNCHANGED behind
     ELSE /\ pc' = [pc EXCEPT ![p] = "resolving"]
          /\ behind' = [behind EXCEPT ![p] = FALSE]
  /\ cached' = [cached EXCEPT ![p] = [f \in Files |-> None]]
  /\ Marks(p)
  /\ UNCHANGED <<disk, db, graph, work, force, watcher, bounds>>

ResolveWrite(p) ==
  /\ ~behind[p]
  /\ Goto(p, "resolving", AfterResolve(p))
  /\ \E won \in Updatable(db) : db' = ResolveEdges(db, won)
  /\ behind' = [q \in Procs |-> TRUE]
  /\ Marks(p)
  /\ UNCHANGED <<disk, graph, work, cached, force, watcher, bounds>>

ResolveBusy(p) ==
  /\ pc[p] = "resolving" /\ behind[p]
  /\ Fails(p)
  /\ Marks(p)
  /\ UNCHANGED <<disk, db, graph, watcher, bounds>>

-----------------------------------------------------------------------------
(***************************************************************************)
(* sync_graph_store and sync_file_graph: a Python process clears the graph *)
(* store and rebuilds all of it from the tables.  It has the store to      *)
(* itself.                                                                 *)
(***************************************************************************)
InSync == {"file_nodes", "file_edges", "nodes", "edges"}

SyncedFrom(p) == IF pc[p] \in {"file_sync", "file_nodes", "file_edges"} THEN "file" ELSE "all"

\* What p does when its sync has ended.
AfterSync(p) ==
  IF SyncedFrom(p) = "file" THEN "inspect" ELSE IF p = "index" THEN "done" ELSE "idle"

SyncClear(p) ==
  /\ pc[p] \in {"file_sync", "sync"}
  /\ \A q \in Procs : pc[q] \notin InSync
  /\ graph' = [nodes |-> {}, edges |-> {}]
  /\ pc' = [pc EXCEPT ![p] = IF SyncedFrom(p) = "file" THEN "file_nodes" ELSE "nodes"]
  /\ Marks(p)
  /\ UNCHANGED <<disk, db, work, cached, force, behind, watcher, bounds>>

SyncNodes(p) ==
  /\ pc[p] \in {"file_nodes", "nodes"}
  /\ graph' = [graph EXCEPT !.nodes = Rows(db)]
  /\ pc' = [pc EXCEPT ![p] = IF SyncedFrom(p) = "file" THEN "file_edges" ELSE "edges"]
  /\ Marks(p)
  /\ UNCHANGED <<disk, db, work, cached, force, behind, watcher, bounds>>

SyncEdges(p) ==
  /\ pc[p] \in {"file_edges", "edges"}
  /\ graph' = [graph EXCEPT !.edges = GraphEdges(db, graph.nodes)]
  /\ pc' = [pc EXCEPT ![p] = AfterSync(p)]
  /\ Marks(p)
  /\ UNCHANGED <<disk, db, work, cached, force, behind, watcher, bounds>>

\* The store is another's, or the Python process fails, which may be half-way: a warning in
\* sync_file_graph, the end of a command otherwise.
SyncFails(p) ==
  /\ pc[p] \in InSync \cup {"file_sync", "sync"}
  /\ IF pc[p] \in {"file_sync", "sync"} /\ \E q \in Procs : pc[q] \in InSync
     THEN UNCHANGED bounds ELSE Stop
  /\ IF SyncedFrom(p) = "file"
     THEN pc' = [pc EXCEPT ![p] = "inspect"] /\ UNCHANGED <<work, cached, force, behind>>
     ELSE Fails(p)
  /\ Marks(p)
  /\ UNCHANGED <<disk, db, graph, watcher>>

-----------------------------------------------------------------------------
(***************************************************************************)
(* Ends and beginnings.                                                    *)
(***************************************************************************)
Kill(p) ==
  /\ pc[p] \notin AtRest \/ (p = "watch" /\ Watched)
  /\ Stop
  /\ Fails(p)
  /\ IF p = "watch" THEN events' = {} /\ pending' = {} /\ UNCHANGED stopping
                    ELSE UNCHANGED watcher
  /\ Marks(p)
  /\ UNCHANGED <<disk, db, graph>>

\* SIGINT or SIGTERM sets a flag ...
Terminate ==
  /\ Watched /\ ~stopping
  /\ stopping' = TRUE
  /\ Stop
  /\ UNCHANGED <<disk, db, graph, pc, work, cached, force, behind, alone, torn, events, pending>>

\* ... that the loop sees; it flushes what is pending (Flush) and leaves.  Events it has not
\* received are lost.
Leave ==
  /\ stopping /\ pending = {}
  /\ Goto("watch", "idle", "down")
  /\ events' = {}
  /\ UNCHANGED <<disk, db, graph, work, cached, force, behind, alone, torn, pending, stopping, bounds>>

\* cmd_watch begins with the next event, not with a scan.
StartWatch ==
  /\ Goto("watch", "down", "idle")
  /\ events' = {} /\ pending' = {} /\ stopping' = FALSE
  /\ UNCHANGED <<disk, db, graph, work, cached, force, behind, alone, torn, bounds>>

-----------------------------------------------------------------------------
FileStep(p) ==
  \E f \in Files :
    \/ Hash(p, f)
    \/ ParseFile(p, f)
    \/ p = "index" /\ ReadVectors(f)
    \/ ReadFails(p, f)
    \/ Write(p, f)
    \/ CleanUp(p, f)

Step(p) ==
  \/ FileStep(p)
  \/ ResolveRead(p) \/ ResolveWrite(p) \/ ResolveBusy(p)
  \/ SyncClear(p) \/ SyncNodes(p) \/ SyncEdges(p)

Fault(p) == Kill(p) \/ SyncFails(p) \/ \E f \in Files : WriteFails(p, f)

IndexStep == Scan \/ FindDeleted \/ LoadCache \/ Inspected

WatchLoop == (\E f \in Files : Receive(f)) \/ Flush \/ Leave

Next ==
  \/ \E f \in Files : Edit(f)
  \/ \E p \in Procs : Step(p) \/ Fault(p)
  \/ "index" \in Procs /\ IndexStep
  \/ "index_file" \in Procs /\ \E f \in Files : IndexFile(f)
  \/ "watch" \in Procs /\ (WatchLoop \/ Terminate \/ StartWatch)

Spec == Init /\ [][Next]_vars

\* Files change only while nobody works on them.
QuietSpec ==
  /\ Init
  /\ [][Next /\ (disk' # disk => \A p \in Procs : pc[p] \in AtRest)]_vars

\* The watcher's loop runs, and an event it has not received is received.
FairSpec ==
  /\ Spec
  /\ \A f \in Files : WF_vars("watch" \in Procs /\ Receive(f))
  /\ WF_vars("watch" \in Procs /\ Flush)
  /\ \A p \in Procs : WF_vars(Step(p))

-----------------------------------------------------------------------------
(***************************************************************************)
(* Properties.                                                             *)
(***************************************************************************)
PCs == {"idle", "open", "cleanup", "inspect", "write", "resolving", "file_sync", "file_nodes",
        "file_edges", "sync", "nodes", "edges", "done", "down", "absent"}

\* What a process carries from its reads of a file to its write.
WorkRecord ==
  [st : {"none", "todo", "gone", "hashed", "parsed", "ready"},
   hash : Contents \cup {None}, rows : Contents \cup {None}]

GraphStore == [nodes : SUBSET Symbols, edges : SUBSET (Symbols \X (Symbols \cup Refs))]

\* The variables have their types; an edge counts as resolved exactly when its target is a
\* node id (resolution_status_for_target).
TypeOK ==
  /\ disk \in [Files -> Contents \cup {None}]
  /\ db \in Database
  /\ \A e \in db.edges : e.status = "resolved" <=> e.target \in Symbols
  /\ graph \in GraphStore \cup {NoGraph}
  /\ pc \in [Procs -> PCs]
  /\ work \in [Procs -> [Files -> WorkRecord]]
  /\ cached \in [Procs -> [Files -> Contents \cup {None}]]
  /\ force \in [Procs -> BOOLEAN] /\ behind \in [Procs -> BOOLEAN]
  /\ alone \in BOOLEAN /\ stopping \in BOOLEAN
  /\ torn \subseteq Files /\ events \subseteq Files /\ pending \subseteq Files

\* Edges hang on nothing that is not there: a row of edges starts at a row of nodes, and
\* leads to one when it counts as resolved, whatever index, index-file and the watcher
\* write and clean up at once (write_file_batch, cleanup_file_records, the resolver).
EdgesAnchored ==
  \A e \in db.edges :
    /\ e.source \in Rows(db)
    /\ e.status = "resolved" => e.target \in Rows(db)

\* No row is out of the clean-up's reach: the path that a row of nodes carries has a row in
\* file_cache, which is all that cleanup_deleted_file_records looks at.  Only the rows of
\* PDFs, whose path is not the one that is cached, are (parse_pdf_file).
RowsHaveCache ==
  \A s \in Rows(db) : SymbolFile[s] \notin Pdfs => db.cache[SymbolFile[s]] # None

\* `index' has ended well, and nothing but it has happened since it began.
IndexedAlone == "index" \in Procs /\ pc["index"] = "done" /\ alone

\* Whatever crashes, races and lost events came before, one `index' that nothing disturbs
\* makes the cache agree with the disk on every file that can be read as text and every
\* file that is gone, and removes the rows that carry the path of one that is gone.  It
\* promises nothing for a file that is there and cannot be read as text: cmd_index counts an
\* error, goes on and ends well, with what the tables had of the file.
IndexRepairs ==
  IndexedAlone =>
    \A f \in Files :
      /\ disk[f] = None \/ OpensAsText(f) => db.cache[f] = disk[f]
      /\ disk[f] = None => RowsOf(db, f) = {}

\* After it, the graph store holds what the tables hold.
GraphFollowsIndex ==
  IndexedAlone =>
    graph = [nodes |-> Rows(db), edges |-> GraphEdges(db, Rows(db))]

\* The hash in file_cache, by which a file is skipped, is that of its rows: every symbol of
\* the cached content has its row from that content, whoever wrote the file last, unless the
\* file changed between the two reads of that write, or its parser failed (inspect_path,
\* write_file_batch).  With IndexRepairs: after `index' the rows are those of the disk.
RowsMatchCache ==
  \A f \in Files \ torn :
    db.cache[f] # None => \A s \in Parse[f][db.cache[f]].symbols : db.nodes[s] = db.cache[f]

\* A change the watcher is told of reaches the index and stays there, unless the file
\* cannot be read for its hash: such a file is logged and forgotten (flush_pending_batch).
WatcherCatchesUp ==
  \A f \in Files :
    f \in events ~> [](db.cache[f] = disk[f] \/ (disk[f] # None /\ ~OpensForHash(f)))

\* After an undisturbed incremental index there are no ghosts: every row of nodes is a
\* symbol of its file (rules/core/indexing-policy.md, line 4).
NoGhosts ==
  IndexedAlone /\ ~force["index"] =>
    \A s \in Rows(db) : LET f == SymbolFile[s]
                        IN  disk[f] # None /\ s \in Parse[f][disk[f]].symbols

=============================================================================
