# Cortex-Engine in TLA+

This directory holds a verification project for Cortex-Engine: TLA+ modules that
model its stateful parts, TLC configurations that check them on small instances,
and proofs that TLAPS checks for every instance. Paths below are relative to the
repository; `crates/` stands for `rust/crates/` and `engine_worker.py` for
`src/cortex/runtime/engine_worker.py`.

## 1. The system and its parts

Cortex-Engine indexes a source tree into SQLite (nodes, edges, vectors), answers
code queries of editor agents over MCP, and coordinates several agents that work
in one tree. It runs as several operating-system processes:

    agent ──stdin──> cortex-mcp ──TCP──> cortex-engine ──TCP──> engine_worker.py
      │                  │                (router)               (Python, model)
      │                  ├── memories.db ──┐
      │                  └── .cortex files (inbox, todo, memory)
      ├── cortex-ctl start|stop|restart (pid files)
      ├── cortex-ctl relay ... (board.json, board.lock)
      └── cortex-watcher index | watch ──┴── memories.db, then graph.py (graph store)

| Component | State | Operations | Hard behaviour | What makes it correct |
|---|---|---|---|---|
| Relay board, `crates/ctl/src/relay.rs` | `board.json` (lanes with status, holder, task, handoff, contract, claimed files), `board.lock` | acquire, release, force-release, claim-files, status | every command is a process: races for the lock, a kill inside the transaction, a truncating write, lock attempts that run out, eviction by age | one command at a time; success means it is on disk; a BUSY lane has one holder who keeps it; a handoff reaches its addressee; files of BUSY lanes are disjoint |
| Engine router and worker supervision, `crates/runtime/src` | the worker process handle, last activity, the request lock | ping, forward with retry, ensure_running, start_async, shutdown, kill, idle monitor | a thread per client and an idle monitor under two mutexes; time-outs racing late starts; a kill without a wait; a connection to whatever listens on the port | no more than one live worker after quiescence; a request is answered; the idle monitor does not stop a worker in use |
| Python worker, `engine_worker.py` | load status, model, listening socket | ping, embed, rerank, shutdown, background load | serves one client at a time while the model loads | never answers from a model that is not loaded; ends after shutdown |
| Embedding client, `crates/mcp/src/embedding.rs`, `src/cortex/embeddings/provider.py` | none | one request with a time-out | the client gives up before the engine does | without an engine a search is answered all the same |
| Supervisor, `crates/ctl/src/{commands,process}.rs` | pid files, processes | start, stop, restart, status | no lock; pid files overwritten; SIGTERM without a wait, or that fails; reused pids | a service that runs is the one its pid file names; stop ends what start began |
| Index store, `crates/storage/src/{lib,schema}.rs` | tables nodes, edges, file_cache, memories, meta | write_file_batch, cleanup_file_records, cache lookup | batches of several processes on one database | the rows of a file are those of its last indexed content |
| Edge resolver, `crates/storage/src/resolver.rs` | edge status and target | resolve_unresolved_edges | unresolved edges come back after each re-index; several candidates | a resolved edge points to a node that exists |
| Graph store, `crates/storage/src/graph.rs`, `src/cortex/storage/graph.py` | graph nodes and edges | sync_graph_store, sync_file_graph | cleared and rebuilt, not in a transaction | after a sync the graph equals the tables |
| Indexer and watcher, `crates/watcher/src` | pending set, debounce deadline, file cache | index, index-file, watch loop | hash, parse and vectors from three reads of a file; index and watch at once; files that cannot be read are passed over; deleted target files | after the last change has been flushed the index agrees with the disk, as far as it can be read |
| Index roots and scanner, `crates/scanner/src`, `crates/watcher/src/index_roots.rs` | settings.yaml, settings.local.yaml | scan, add/remove root, path to database path and back | read-modify-write of a file; aliases and nested roots; processes with settings of different ages | the effective roots are those commanded; rows are of the files their paths stand for, for every file under a root |
| MCP server, `crates/mcp/src/{protocol,main,catalog}.rs` | none | JSON-RPC loop | one process per editor, all on the same database and files, without a lock | what no two servers used at once is what their calls make of it in turn |
| Memory store and hooks, `crates/mcp/src/{memory,hooks,storage_tools}.rs` | observations, `last_extracted_obs_id`, `inbox.md`, `todo.json`, memory rows | save_observation with its hook, consolidate, contracts, todo | append and the meta update are separate; read-modify-write of shared files | each observation in the inbox once; no memory lost in consolidation |
| Exact-text edit, `crates/mcp/src/edit.rs` | the edited file, edit events | replace_exact_text | read, check, write | replaces the first occurrence or nothing |
| Code queries, `crates/mcp/src/query_*.rs` | none; read the tables, the full-text index and the graph store | symbol resolution, impact graph, execution path, context search | cycles, depth and size limits; no transaction beside an indexer; stale postings; opening a database writes to it, and a search of memories first synchronises the global documents | what is reachable within the limits, shortest paths, every match; what is cut is reported |
| Parsers, `crates/parsers`, `src/cortex/parsers` | none | file to nodes and edges | a parser that fails gives an empty result | nodes of a file belong to it |

How they interact. `cortex-ctl` starts the engine and the watcher and knows them by
pid file only. `cortex-mcp` calls the engine over TCP for the embedding of a query;
the engine starts and stops the Python worker behind it. Watcher, `index` commands
and `cortex-mcp` meet in `memories.db`; the graph store is rebuilt from it and read by
the queries. The MCP servers of several editors meet in the tables and in the files of
`.cortex/history`, those of all workspaces in the global database. Agents meet
on the relay board, which no other process writes, and which `get_session_context` reads
without its lock. The full list of places where this can go wrong, each at its
line, is under `hazards` in PROJECT.json.

## 2. Plan

Order: what several processes share first, since that is what the repository's unit
tests reach least. Each component has few runs, with many properties each: one of the
whole component, one of its liveness, and one for each disagreement with a document.

| Modules | What | Abstract specification | State |
|---|---|---|---|
| RelayLanes, RelayBoard, RelayProcesses | the relay board | RelayBoard (atomic commands), implemented by RelayProcesses | done |
| RelayLanesProofs, RelayBoardProofs, RelayProcessesProofs | six theorems of RelayBoard; ten of RelayProcesses, the refinement among them | | done |
| EngineRuntime, EngineRuntimeProofs | router threads, idle monitor, worker processes | | done, three theorems |
| IndexStore, Indexer, IndexProofs | files, index, index-file, watch, resolver, graph store on one database | | done, six theorems |
| McServers, McServersProofs | the tools of several MCP servers that write: observations, memories, logs, todo list, source file, global knowledge | the same calls one after the other | done, six theorems |
| CodeQueries, ContextSearch, QueriesProofs | impact graph, execution path, full-text searches beside an indexer | reachability; the matches of the tables | done, five theorems |
| IndexRoots, Control, ControlProofs | index roots as operators; start, stop, restart, add, remove, index on the services, the settings and the rows | | done, four theorems |

## 3. The relay board

### Modules and how they correspond to the code

* **RelayLanes** has no variables. `Lane` and `Board` are the structs; every command
  is a guard (its early returns) and the board its closure leaves: `AcquireOK` /
  `Acquired`, `ReleaseOK` / `Released`, `ForceReleased`,
  `find_file_claim_conflicts` / `Claimed`, with `is_zombie`, `evict_zombie` and
  `default_board` under the names of the source.
* **RelayBoard** runs whole commands: variables `board` (what a reader of
  `board.json` would get; `NoBoard` when it is missing or does not parse) and `now`.
  `LoseBoard` is a command that died inside `fs::write`. `Spec` allows any command
  line at any time. `DisciplinedSpec` allows `claim-files` only for a lane that is
  BUSY, the order the protocol document describes and the code does not ask for.
* **RelayProcesses** runs the steps of `transaction` in processes that race: create
  `board.lock` (or count a failed attempt, or give up), read, run the closure,
  truncate, write, remove the lock, with kills anywhere and writes that fail after
  the truncation. `outcome` is the Result the process reports.
* **RelayLanesProofs** has the types of what the commands make of lanes and boards,
  **RelayBoardProofs** and **RelayProcessesProofs** the theorems of the two state
  machines. The MC modules hold the command sets of the runs, and RelayBoard's symmetry.

Abstractions. The clock is read once per command and does not go back (the code
reads it for `updated_at` and for `locked_at` within one command). File names are
compared after normalisation, so they are names here. Messages and warnings are
kept only as present or absent. Errors in making the directory, and errors of
opening the lock other than that it exists, end a command before it has any effect
and are left out. A file lost by a kill between create and write, and one that does not parse, are the
same `NoBoard`, as they are to `transaction`.

### What the runs check

| Run | Instance | Shows |
|---|---|---|
| relay_board | 2 agents, 2 lanes, 1 file, threshold 1, clock 0..3 | lanes stay coherent; a holder loses its lane only by a release, which nobody else can have given, a force-release, a real time-out or the loss of the whole board; a handoff waits, with its contract, for its addressee; no lane gains a file of a BUSY lane |
| relay_overlap (violation) | as relay_board | without that discipline two BUSY lanes hold one file: `claim-files` defends only lanes that are BUSY now and `acquire` never looks at claims |
| relay_processes | FairSpec, 2 processes, 2 agents, 1 lane, 1 file, 2 attempts, 1 fault | mutual exclusion; a reported success is on disk; the processes implement RelayBoard; boards are lost only by faults; the orphan lock of a killed holder freezes the board; a command that waits ends all the same (`CommandEnds`) |

Bounds. Two agents are holder and competitor, two lanes are what a file conflict
needs, and a clock that passes the threshold twice evicts a lane, lets it be taken
and evicts it again. Two processes are all a lock can distinguish: a third waits
like the second. One fault is enough for an orphan lock or a lost board. The 200
attempts are two: what matters is that an attempt fails, and that attempts run out. In
relay_processes the first agent releases plainly and the second hands its lane over
with a contract. Agents and files are symmetric in the runs of RelayBoard; no liveness
property is checked with symmetry.

Fairness. `FairSpec` has weak fairness of each process's own `Step`: the operating
system runs a process that can run. Starting a command, a kill, a failed write and
the clock are not fair: nothing obliges them.

### What is proved

From `RelayAssumption` and `BoardAssumption` (the default lane is a lane, the
threshold and the clock's bound are naturals, `None`, `NoLane` and `NoBoard` are not values they
stand beside), for any sets of agents, lanes, files, tasks and contracts:

* `TypeCorrect`, `LanesCoherent`: `TypeOK /\ LaneCoherent` is inductive. The type
  alone is not: that `acquire` leaves no stale handoff needs the coherence of the
  lane it found.
* `HoldersSafe`, `HandoffsSafe`: action properties from that invariant. The first names who
  took the lane away: where a lane is released, `ReleaseOK` accepts that release from its holder
  and from no other agent.
  Coherence matters in it, too: because a BUSY lane has a `locked_at`, an eviction
  never falls back on `updated_at`, which any command refreshes.
* `ZeroOverlapUnderDiscipline`: `ZeroOverlap` is not inductive, since an IDLE lane
  with files may become BUSY. The strengthening says that under the discipline only
  BUSY lanes have files at all, and that the files of all lanes are disjoint. No run
  checks it under the discipline; relay_overlap shows that it fails without.

* `BusyFilesDefended`: an action property of one `claim-files`; it needs no more than types.

For RelayProcesses, from the same assumptions and `ProcessAssumption`, with any number of
processes, attempts and faults:

* `ProcessTypes`, `LockExcludes`, `OrphanLockFreezes`, from the invariant `Sound`: types,
  what a process has in hand at each step, and that only the process that created
  `board.lock` is past its creation, so that a lock with no such process stays for ever.
* `SuccessWritten`, from `OnDisk`: the holder's `read` board is the board on disk until it
  truncates, and what it reports as success is what it has written.
* `Atomicity`: `Spec => RelayBoard!Spec` under the mapping of the run. A command takes effect
  when it truncates, the step from which on what it writes is determined; every other step is
  a stutter, except that a kill or a failed write between truncation and the end of the write is RelayBoard's
  `LoseBoard`. One difficulty is the clock: a command that found no board made its default
  board at an earlier `now` than that at which it takes effect. `FreshBoardsAlike` shows that
  it makes no difference, as `updated_at` counts for BUSY lanes only.
* `ProcessesKeepLanesCoherent`, `ProcessesKeepHolders`, `ProcessesKeepHandoffs`,
  `ProcessesDefendFiles`: what is proved of RelayBoard holds of the racing processes, by
  `Atomicity`. `LostOnlyByFault` is of the processes alone.

Only model-checked: `CommandEnds`, which is liveness.

## 4. The engine and its workers

### Modules and how they correspond to the code

* **EngineRuntime** has the engine's threads and the worker processes they start.
  A router thread (`Clients`) is a client's connection in `handle_client`; a
  `Starter` is a thread of `start_async`; the `Monitor` is `spawn_idle_monitor`.
  `process` is the handle in `WorkerManager.state`, which may name a worker that has
  died; `request_lock` is the mutex around a forwarded request; the state mutex is
  held for one step, except by `shutdown`, which holds it while it waits
  (`shutting`). A worker process goes from starting to serving when it binds the
  port, `Load` ends its background load well or badly, `Serve` takes the next
  connection, `Gone` is its end. `Ensure` is `ensure_running` up to its unlock,
  `Listening` / `ListenTimeout` its wait, `Abandon` what it does when the wait
  fails; `Lock`, `Send`, `Forwarded`, `Lost`, `Retry` are `forward_with_retry`.
* **MCEngineRuntime** has the symmetry, **EngineRuntimeProofs** the proofs.

Abstractions. A message is an answer, a closed connection or nothing in time;
framing and JSON are left out. Time is not counted: a time-out whose event is on its
way is a fault, bounded by `MaxFaults`, and a time-out whose event cannot come any
more happens when it must. `stale` says that `last_activity` is longer ago than the
idle time-out. `Workers` are process
slots that are used again. The worker's inference is one step.

### What the runs check

| Run | Instance | Shows |
|---|---|---|
| engine | 2 clients that ping and embed, 1 starter, 2 slots, 1 fault, 1 stop | the engine never has a running worker that is not the one in `state.process` |
| engine_live | FairSpec, 1 client that embeds, 3 slots, 2 faults | no request is refused unless a worker crashed or was late, whatever the idle monitor does meanwhile; a request that has its turn is answered; a shutdown lets go of the state mutex; an idle worker is stopped or used again |
| engine_ping (violation) | 2 clients, 1 starter, no faults | a ping just before an embed: "Worker crashed repeatedly" although none crashed |

Two things the model does are judged by no property. `last_activity` is set by forwarded requests only, so that a worker a ping has
started after a quiet time is idle from birth and the monitor may stop it while its model
loads; no document promises otherwise. And a stop of the engine (SIGTERM, on Linux) leaves its worker running with the
port: docs/runbook-os-validation.md:16 expects that none of the recorded processes, the
worker among them, is left after a stop, and what `Stop` in EngineRuntime leaves behind
shows that on Linux one is. No run is devoted to it.

Bounds. Two clients are a holder of the request lock and one that waits or pings;
one starter is one thread whose wait can outlive its worker. `request_lock` covers
everything a forwarded request does from `touch` on, so that one client is enough for
what befalls the request that has its turn. A killed worker, the one
that starts after it and the one after the second attempt need three slots. Two faults
are as many as the two attempts can meet.

Fairness. Worker processes and the monitor run when they can (weak fairness). A client
thread needs the state mutex, which `shutdown` takes away from it again and again in
principle: it sleeps ten seconds between two turns, and the threads' waiting is a
fraction of that, so that strong fairness of the threads' steps is what the code's
timing gives. Nothing obliges a client to ask, a worker to crash, time to pass the
idle time-out or the operator to stop the engine. Waiting for the request lock is not
fair either: `ForwardsEnd` speaks of a request that has it.

### What is proved

`ChildrenOwned`: `Spec => []ChildrenAreOwned`, from `EngineAssumption`, for any number
of clients, starters, slots, faults and stops. The invariant is inductive together
with the types of `process` and `wst`: every step that starts a worker does so under
the state mutex when the child is not alive, and every step that forgets a child
kills it in the same step. Orphans of an engine that was stopped are excepted by the
statement itself.

`TypeCorrect`: the types, which include who holds which mutex and what each thread has in
hand at each of its steps.

`RefusalsNeedFaults`: `Spec => []ErrorsNeedFaults`, under the hypotheses that name the
instance of engine_live: clients embed and do not ping (`Commands \subseteq {"embed"}`),
nobody stops the engine (`MaxStops = 0`), and a request is tried more than once
(`Attempts > 1`; the code tries twice). engine_ping shows that the first is needed. The
invariant says that until the first fault all is calm (`CalmUntilFault`): at most one worker
runs, the engine knows it, and but for its start it listens (`CalmWorkers`); only the request
that holds the lock is past it (`CalmThreads`); a connection is in one queue, once
(`CalmQueues`); and that request has lost its worker in its first attempt only (`Turn`). The
hazard is that the idle monitor looks at the request lock and at `last_activity` and only then
shuts the worker down: a request that begins in between loses its first attempt. It cannot
lose the second, because the monitor's next turn looks at a lock that is held by then.

Only model-checked: `ForwardsEnd`, `ShutdownsEnd`, `IdleWorkerReleased`, which are liveness.

## 5. The code index

### Modules and how they correspond to the code

* **IndexStore** has no variables: the tables are a record of `nodes` (for each
  symbol the content whose parse wrote its row), `edges` and `cache` (`file_cache`),
  and a transaction is an operator from one such record to the next:
  `WriteFileBatch`, `CleanupFileRecords`, `ResolveEdges`. `Matches` is `resolve_one`
  with its five rules; `Updatable` says which updates the unique key lets through;
  `GraphEdges` is what `build_from_sqlite` makes of the tables.
* **Indexer** has three processes with a connection each, `index`, `index_file` and
  `watch` (a behaviour has those of one of `Casts`; the other never starts), and the
  files, which change at any moment (`Edit`). A step is one read of a file, one transaction or one part of the rebuilding of the graph store. `work` is
  what a process has found out of each file: to be inspected, gone, hashed (after the
  first read), parsed (after the second), ready to be written (for `index` after the third). `Scan`, `FindDeleted`, `LoadCache`,
  `Inspected` are the phases of `cmd_index`; `Receive`, `Flush`, `Leave` the
  watcher's loop; `Hash`, `ParseFile`, `ReadVectors`, `ReadFails`, `Write`, `CleanUp` are
  `inspect_path` and `process_path`; `ResolveRead` / `ResolveWrite` / `ResolveBusy`
  the transaction of the resolver; `SyncClear` / `SyncNodes` / `SyncEdges` the Python
  process that rebuilds the graph store. `torn` is a history variable: the files whose
  last written rows come from another content than the hash that was cached with them.

  A file is read two or three times: for its hash, by the parser, and by `index` once more as
  text for its vectors (`ReadVectors`), a PDF too. Any of the reads may be refused although the
  file is there: `Sealed` are the contents with which it may not be opened, `NotText` those
  that are not UTF-8. `OpensForHash` takes a PDF as bytes and all else as text (`OpensAsText`); the
  parser opens a PDF itself. What a refused read means depends on who reads (`ReadFails`): `index`
  counts an error, passes over the file and still ends well; the watcher logs it and forgets the
  file; `index-file` ends. A file that has gone counts as deleted at the first read only.

  Rows carry the path of their file, by which they are cleaned up (`FilePath`), except those of
  `Pdfs`: the parser of PDFs is given the absolute path and writes that, while `file_cache` has
  the path in the workspace.
* **MCIndexer** gives two files and three symbols whose edges meet every rule's
  interesting outcome: resolved, ambiguous, two edges that come to one key, nothing; with one content
  the callee cannot be opened. index_watch has besides a PDF, binary with one content.

Abstractions. A content is its own hash. Edges have one type and carry nothing but source,
target, reference and status. The order in which files are processed is left open (index
inspects them in a thread pool). The resolver's chunks of queries are one read. The graph
store keeps nodes of all categories and types. Vectors are left out; the full-text index
is in ContextSearch. A write that fails stands for a database locked longer than
`busy_timeout` and for a full disk.

### What the runs check

`Spec` lets files change at any moment, `QuietSpec` only while every process is
between commands; `FairSpec` has weak fairness of the watcher's steps and of its
receiving each event.

| Run | Instance | Shows |
|---|---|---|
| index_watch | Spec, watch beside index or index-file, a source that may lose its permissions, a binary PDF, 1 edit, 1 fault | `EdgesAnchored`; no row but those of PDFs is out of the clean-up's reach (`RowsHaveCache`); rows are those of the content whose hash is cached, except in files that changed between two reads (`RowsMatchCache`); an undisturbed index makes the cache agree with the disk on all files that can be read as text, removes the rows of those that have gone (`IndexRepairs`), and makes the graph store agree with the tables (`GraphFollowsIndex`), whatever was killed or raced before |
| watch_live | FairSpec, watch, 4 edits, 1 parser failure, a file that may lose its permissions | an event leads to a cache that agrees with the disk and stays so, unless the file is one that cannot be read for its hash |
| index_ghosts (violation) | QuietSpec, index, 2 edits | the row of a symbol that was edited away survives an incremental index |

The modules also contain, unjudged by a property because no document promises
otherwise or because the remark adds no new state:

* a forced index keeps the same stale rows: `force` only ignores the cached hash;
* deleting a file deletes the edges that lead to it from files that stay; those are
  unchanged, are skipped by their hash, and never get the edges back when the file
  returns;
* a PDF that is not also UTF-8 is parsed and then passed over, at its third read, by every `index`;
  only the watcher and `index-file`, which make no vectors, take it up;
* the rows of a PDF outlive it: they carry a path that no clean-up asks for (`FilePath`). Like the
  ghosts of index_ghosts, they are among what the policy says an incremental index detects;
* a file that is there and cannot be read as text keeps, through an `index` that ends well, what
  the tables had of it, and a change of it that the watcher could not read is not tried again
  before the next event;
* a Python parser that fails is an empty result, cached under the file's hash; a PDF that the parser
  cannot open is such a failure;
* the hash comes from one read of a file and the rows from another (`torn`);
* the watcher's deletions do not reach the graph store until something else syncs it,
  and its syncs run before the batch resolves its edges.

Bounds. An edge needs two files. Two contents are a file with and without a symbol.
`Disks` are the contents a behaviour begins with: all in watch_live and index_ghosts; in index_watch
two files at most, the two sources or the caller's and the PDF, and one edit may bring the third
(`SmallDisks`). One edit under `Spec`
already meets any command half-way; four edits in watch_live are two changes of each
file, one before and one during a batch. One fault is one kill, stop, failed write or
failed sync, after which `index` has to repair. The watcher may stop for good (an
orderly stop with nobody to start it): watch_live alone does not check deadlock,
because its edits run out.

Fairness. The watcher's loop polls its channel four times a second and its steps do
not depend on others: weak fairness. Edits, faults and commands are not fair. The
debounce needs five seconds without an event; the bound on edits is what grants them.

### What is proved

`EdgesStayAnchored`, `RowsStayCached` and `RowsStayMatched`, from `StoreAssumption` (a
parser's symbols belong to its file and its edges start at them, which is how the
tree-sitter parsers and the PDF parser build ids; that their rows also carry that file's path is
not assumed, and not so for PDFs) and `IndexerAssumption`. All rest on `IInv`:

* `StoreInv`: the tables have their types, an edge counts as resolved exactly when its
  target is a node id, edges are anchored, rows are cached. One lemma per transaction
  (`WriteKeeps`, `CleanupKeeps`, `ResolveKeeps`) shows that it preserves `StoreInv` of any
  database, whoever committed before: that is why interleavings do no harm here.
  The status belongs to the strengthening because the resolver rewrites edges by
  status: it must not touch one that has a node for its target.
* `WorkInv`: what a process carries from its reading to its writing is fit to be
  written. Without it `RowsHaveCache` is not inductive: a cache row could be
  written with no hash. What a clean-up leaves without a cache row are rows of PDFs, and only those,
  because it deletes by `FilePath`.
* `Matching` is `RowsMatchCache` of the tables and `torn`; it needs `WorkInv` to know
  which content a parsed file was parsed from.

`IndexerTypes` adds the types of the other variables (`RestInv`; a sync that has begun has a
graph store to rebuild).

`IndexingRepairs` and `GraphFollows` relate a whole command to the disk and to the graph
store. `RunInv` says, phase by phase, what an `index` that nothing has disturbed has found out
and done: before its deletions every file that is not on the disk is to be cleaned up or not
cached; while it inspects and writes, every file on the disk is to be looked at, is in hand with the hash
it has, or agrees with the cache (`Known`), which is asked of it only if it can be read as text
(`Agrees`): a file whose read was refused is in nobody's hand and is owed nothing. Once it has written,
all files agree and do so while the resolver and the sync run; and the graph store has, at each step of
the sync, the part of the tables that has been taken over.

Only model-checked: `WatcherCatchesUp`, which is liveness.

## 6. The MCP servers' writing tools

### Modules and how they correspond to the code

* **McServers** has one process per client (`Servers`), each with a call it is in the
  middle of. A call is a sequence of steps, `Program` of its tool: `Saving`, `Writing`,
  `SessionSync`, `Consolidation`, `Reading`, `Contracting`, `Managing`, `Editing`,
  `Synchronize`, in the order in which the tool's function runs its statements and file
  operations. One action does one step: `SaveObservation`, `Exists` and `UpsertMemory`
  (`upsert_memory_record` in its two statements), `DeleteOld`, `Find`, `Touch`,
  `WriteContract`, `FindEvent`, `RecordEvent`; `Load`, `Truncate`, `Write` are a file
  that is read and rewritten; `CheckSize`, `Rename`, `AppendLine` are
  `append_markdown_with_archive`; `ReadLast`, `SelectRows`, `ReadInbox`, `Truncate`,
  `Write`, `SaveExtracted` are the hook `after_save_observation`; `ScanDoc`, `StoreDoc`,
  `CacheDoc`, `ListStale`, `ForgetDoc`, `UncacheDoc` are `sync_global_knowledge`.
  `CutShort` ends a call with an error or kills its server at any step, `AppendFails` is
  a failure the code passes over. `Tick` is the clock, in seconds, from which keys and
  names of archives and contracts are made.
* **MCMcServers** has the menus: each keeps to the tools that meet on one table or file.
  **McServersProofs** has the proofs.

What the tables and files hold is kept as far as it can be lost or doubled: a line of a log
is its kind and a number, a memory the call that wrote it and its access count, a document
one of two texts, which is its own hash. `OnMemories`, `Todo` and `Replace` are what one
operation makes of the memories, the todo list and the source file; the actions use
them, and `AfterAll` in `NothingLost` applies them one after the other, as completed. Three history variables:
`written` (observations that some server has put into the inbox), `performed` (completed
operations per resource) and `disturbed` (resources on which two servers overlapped,
or one was cut short).

### What the run checks

`mcp`: FairSpec, 2 servers, seven menus.

| Property | Says |
|---|---|
| ExtractedWereWritten | `last_extracted_obs_id` never passes over an observation that no server has written to the inbox, whatever interleaves or fails |
| ObservationsReachInbox | every observation is written to the inbox, unless something failed |
| InboxOnce | undisturbed, inbox and archives have every observation once, in order, and every session line |
| NothingLost | undisturbed, todo list, source file, logs and memories are what their operations make of them one after the other |
| ConsolidationsKeepMemory | a consolidation that is over, without failure or overlap, leaves its memory, also when its key is an old one |
| CachedAreStored | undisturbed, the global database's memories and its `file_cache` name the same documents with the same texts |

The model contains what these properties except, and what no document promises otherwise:
two servers that rewrite the todo list, the inbox or the source file lose one another's
changes; a hook that fails after its write puts observations into the inbox twice; a
consolidation that fails after its first deletion, or has an empty new key, has lost the
old memories; keys, archives and contracts of one second overwrite one another; two servers that
insert one key, or record one edit, at once: the second call fails. The catalog says that the
hash a read returns "is used internally to detect concurrent modifications"
(`crates/mcp/src/catalog.rs`); `replace_exact_text` takes no hash and compares none.

Bounds. Two servers are all an overlap needs. `calls` is 2, or 3 where a third call
repairs or repeats what two have done (observations, todo list); `faults` is 1: one failure
or kill, after which the others go on. `edits` is 2: a document can change and go. `ArchiveLimit` is 0, so
that a log is archived at its second line; one menu starts with a line in the inbox
(`inbox`). `MaxClock` is 1: calls of the same second and of different ones. The run does
not check deadlock: its calls end.

Fairness. Weak fairness of each server's `Step`: a server goes on with the call it has
begun. Calls, edits, failures and the clock are not fair.

### What is proved

From `McAssumption` (the constants have their kinds, and the names of resources are apart),
for any number of servers, calls, documents and failures, and any menus. All rest on `Settled`:
a server in the middle of a call has a proper end of that tool's `Program` before it. It is
needed because the step that a server is at says what it has read only together with the steps
that follow: a `Truncate` of the inbox belongs to the hook, and has `SaveExtracted` behind it.

* `NothingPassedOver` (`ExtractedWereWritten`), from `Extracted`: besides, each hook in
  progress has seen only written observations below what it began from, and at its last step
  it saves an id up to which all are written.
* `CacheAgrees` (`CachedAreStored`), from `Stored`: as long as no two servers overlap, at most one is
  between `global_memories` and `file_cache`, and the two differ by exactly its document.
* `ConsolidationsKeep` (`ConsolidationsKeepMemory`), from `Consolidating`: calls are numbered, a key that
  was looked up is still there or still absent, and every deletion of an old memory has its
  new memory still to be written, has an empty new key, or has its new memory written with no
  deletion by the same call after it.
* `McTypes`: the types of all tables, files, archives and of what each server holds.
* `NothingIsLost` (`NothingLost`) and `InboxHasAllOnce` (`InboxOnce`), from `Shared`, which says of each
  resource nobody has disturbed what it holds while a call is in the middle of changing it. Of a file
  that is rewritten (`FileKept`): whoever rewrites it holds what its operation makes of what all before
  made of it, and the file is empty between truncation and write. Of a log (`LogKept`, `Dated`):
  archives and file together are what was appended, and no archive has a date later than now, so
  that what is renamed comes last; a rename over an archive of the same second is a disturbance. Of the inbox (`InboxKept`): a hook that has selected its rows has all those
  after `lastExtracted`, in order; at the truncation it holds the inbox with them added; at
  the write archives and what it holds are complete up to the last of them; at the save the
  inbox is. `AfterAll`, `Ids` and `Archived` are recursive functions; that one operation or line more gives one
  application more is shown by an induction that takes a set instead of a property
  (`Induction`), over any of the three (`Combined`). `McAssumption` says besides that a text is never
  `None`, and that an inbox found at the start has session lines only.

Only model-checked: `ObservationsReachInbox`, which is liveness.

## 7. The queries

### Modules and how they correspond to the code

* **CodeQueries** has `get_impact_graph` and `find_execution_path` as loops whose steps
  are what others can come between: `PopImpact` and `PopPath` take a path from the queue
  and ask the graph store, `LookUp` reads the nodes of its answer, or the edges
  in the tables if it has none, and extends the queue. `SqlCallers`, `SqlCallees` are
  the two queries of the tables, with unresolved edges matched by name; `StoreNeighbors` is
  `GraphDB.neighbors` with its order of tables and its limits, `Built` what
  `build_from_sqlite` takes over. Around them an indexer commits the versions of a
  history (`Reindex`), and the graph store is cleared and rebuilt (`Clear`, `Rebuild`). A
  `panicked` search is the unwrap of a node that has gone.
* **ContextSearch** extends it with the searches. Every tool begins with `Open`: `open_connection`,
  which writes the schema and so waits for a writer, and for the searches of memories (`Syncs`)
  `open_global_connection` with its `sync_global_knowledge`, whose first error ends the search.
  `trouble` says what it meets: nothing, a document that cannot be read as text ("unreadable"), or
  others that hold a database beyond its time-out, insert the same document first or take one away
  while it is read ("contended"). Then come `Exact`, `Lexical`, `Embed`, `Unify`,
  `Compose`, `Deliver`, in the order of `Program`; a deep search opens its databases again for
  the capsule, and for the impact graph, which it leaves out if that fails. The full-text index is `postings`, a set of
  rowids, kept by the triggers of `schema.rs` (`InsertAll`, `DeleteAll`): a row
  that is replaced leaves its posting behind (`haunted`). `search_deep_context` ends with the
  impact graph of its first symbol, the same actions as above.
* **MCQueries** has the instances, **QueriesProofs** the proofs.

Abstractions. Nodes are functions; their id and fqn are one. Ranks are an order that may
be any among nodes of one category, and is given for memories. A capsule is cut by lines
where the code cuts by characters. `Open` is one step, and `Memories` are what a sync that succeeds
leaves; McServers has the sync statement by statement. Vector hits are empty: no code in the repository
creates or fills `vec_nodes` and `vec_memories`, which README.en.md:119 names as the vector
search, and a missing table counts as one without hits. So the embedding that each search asks for
three times cannot add a hit; all it can do is fail the search, when something accepts the connection
and does not answer.

### What the run checks

`queries`: every digraph of three nodes in which only the first may have an edge to itself, and eight
histories of two or three versions, for 27 queries; five histories of the full-text
index, in one of which a commit writes a symbol twice, for 17 searches. `changes` is the number of commits, clears and rebuilds since the start.

| Property | Says |
|---|---|
| RightUnlessChanged | with no change and a clean store, a path is within `max_depth`, and a shortest one if no node has more than `max_nodes` callees, "no path" without "truncated" means there is none, and an impact graph without "truncated" is exactly what is within `max_depth` |
| PathsExisted | whatever changes, a whole path goes along links that existed at some moment of the search, and a panic needs a node that has gone |
| SearchesFind | an answer has every symbol that matched all the time and every memory, once, in order of source, within the limits, and no symbol that never matched, unless its rowid was of a replaced row; a search fails only if something listens on the engine's port, others contend for its databases, or, if it is one of memories, a global document cannot be read; and with such a document no search of memories is answered |

What the exceptions stand for: `GraphDB.neighbors` spends its limit on rows that add nothing (a
recursive call, an edge of a second type, an external name) and leaves out the rest without
a word, so that a longer path may be found than there is (the history `Wide`; no document
promises the shortest), and has no nodes but those of category SOURCE; `INSERT OR REPLACE` leaves a posting
behind whose rowid SQLite may give to another symbol, which a search for the old symbol's words then
finds; `resolve_symbol` filters by file and language what a limited query has found.

Bounds. Three nodes have every shape a queue and a visited set can be wrong about: a
cycle, a diamond's two ways, a node of depth two. `max_depth` and `max_nodes` pass from too
small to enough. `MaxRebuilds` is 2: cleared and rebuilt once during a search.
`CodeLimit`, `MemoryLimit`, `DeepProbe`, `Probe` and `Budget` stand for 8, 5, 5,
FTS_PROBE_MULTIPLIER and DEFAULT_SEARCH_TOKEN_BUDGET, and are near the number of matches there
are. The run does not check deadlock: a search ends. No liveness is claimed: each search is a
loop over a queue that `max_depth` bounds.

### What is proved

`PathsAreReal`: `Spec => []PathsExisted`, from `QueryAssumption` (finite versions whose edges lead from
nodes to nodes or names, requests that the tools' schemas let through), for any histories,
requests and limits. The invariant, `PathInv`: every path in the queue begins at the node asked
for and goes along links of the tables as they were at some moment of the search, and while no node
has gone all its nodes are there; what a search has been answered by the graph store or the tables
goes on from the last node of the path it has taken. So whatever is committed, cleared and
rebuilt between two steps, what the search puts together from different moments is made of links
that were there, and the unwrap of a node fails only after one has gone. The lists are built with
`Selected`, which orders a set, rather than with folds, about which nothing could be proved.

`AnswersRight`: `Spec => []RightUnlessChanged`, for any tables, directions and limits; of a query it
assumes besides that its direction is one of the three that the tool's schema allows
(`catalog.rs:252`). `Within` is a recursive function; its values come from
`WithinSteps` (one link more is one `Image` more), by an induction that takes the set of
numbers with a property instead of the property. `Answers` says what a search is told of
a node when the store is clean: all neighbours, or `max_nodes` of them if there are more.
The invariant, `RightInv`, has for both searches that the queue holds walks from the start of
at most `max_depth` links, first those of one depth, then those of the next (`Even`), and

* `Level`: for some depth `d`, what is nearer than `d` is visited, what is at `d` is visited or
  at the end of a walk of that length, and the neighbours of what is visited are visited or in
  the queue. So the first walk that arrives is a shortest: all that is nearer has been
  visited and was not it. A search for a path that has no room left only drops walks
  (`Stuck`), and then it is enough that they all have the same length. `Relevel` takes this
  from one depth to the next, when the last walk of the old one has gone;
* for a path, `Covered`: of each visited node either all neighbours are known or as many as
  `max_nodes`. An empty queue and fewer visited than `max_nodes` then leave a set that no link
  leads out of, and the end is not in it. This is the part that does not need the limit of
  the store to be out of reach, and why "not found" may be believed even where the shortest path may not;
* for an impact graph, `Held`: what is within `d` is found, and what is found is visited or
  queued. When the store cuts its answer at `max_nodes`, that many neighbours and the node itself
  cannot all be found, so the search has had to say "truncated".

As soon as something changes, `changes` is no longer 0 and the invariant asks for nothing.

`IndexServes`: the full-text index has every symbol that matches, and besides only postings of rows
that were replaced (`IndexFollows`, which no run checks by itself: what it is for is `SearchesFind`). This
holds of any histories in which whatever is new, or matches otherwise, is written (`Continues`,
a part of `SearchAssumption`: the indexer writes every node of a file whose hash has changed). The invariant, `IndexInv`: the rest of the history
goes on from the tables as they are, no two nodes have one rowid, and `Indexes`, which is
`IndexFollows` and says besides that the rowids of the ghost `haunted` are numbers. An insertion of many
rows is defined in one step (`InsertAll`, by what the last writing of each symbol gives) rather than
by a fold over them; the run and its mutants are over the same definitions.

`QueryTypes`: `Spec => []TypeOK`, with the bounds it has: no impact graph has more than
`max_nodes` nodes, no path is longer than `max_depth`. `CodeInv` has the types of what a walk keeps
between its steps, `Idle` that a search has nothing left to do when it walks or has ended, and a walk
that is no search never has.
The first form of `TypeOK` held `haunted` to be postings always. No proof was to be had, and
TLC refuted it with a longer history than the run had then, the one that writes a symbol twice:
a haunted rowid may leave the index with the row it has come to belong to. The clause now says what is so,
and the run has the history.

`SearchesFindAll`: `Spec => []SearchesFind`, for any histories, memories, queries and limits up to
100. The code's limits are 8 and 5; below 100 the scores of the three sources cannot meet,
so that a sort by score keeps their order. The invariant has a part for each tool (`ContextInv`, `DeepInv`,
`MemoryInv`, `ResolveInv`), which all say how far the search is: what is left to do is what its
`Program` has after the first `n` operations (`Left`), and what has been collected is what these owe.

* `Collected`: after `n` operations the list has the first matches of each source that has been
  asked, once each and in their order, with the scores of their places; of the symbols, all that
  have matched ever since, if `ever` and `haunted` are no more than the limit, and none that never did
  unless by a haunted rowid. That a list read at one moment and merged with one read at another
  still owes nothing rests on `IndexFollows` at both, and on `always` only shrinking and `ever`
  only growing meanwhile.
* `Owes`: what is unified, cut to a limit, is `Finds`. A list that has been cut has as many
  entries as its limit, and of each scope a prefix.
* `Candidates`, `Enough`: for `resolve_symbol`, whose filter comes after its limit, either the
  answer is full or it has each symbol that was asked for and matched all the time.

A deep search does this twice, with the limits of its probe and with those of the capsule, and then walks as
an impact graph does. That it fails for no other reason, and that a document that cannot be read lets
no search of memories past its opening, is `Fails`. The sort is by rank (`Selected`), and a list that is merged with another is
described by its entries, so that no induction over lists is needed.

Every property of the run has its theorem.

## 8. The supervisor and the index roots

### Modules and how they correspond to the code

* **IndexRoots** has no variables: `ParseRoot` (of what is `Accepted`), `NormalizedRoots` (`Keep` is
  one turn of its loop), `DbPath`, `SourcePath`, `ScanFiles`, `RootEntry`, `MatchesTarget`, `AddRoot`,
  `RemoveRoot` are the functions of those names. A path is the sequence of its names; loops over
  lists of roots are recursive functions, so that lemmas can be proved about them.
* **Control** has the commands of `cortex-ctl` as processes: `Program` is the sequence of
  reads and writes of each. `CheckService`, `CheckStale`, `Spawn`, `TruncatePid`,
  `WritePid` are `start`; `FindPid`, `Terminate`, `RemovePid` are `stop`, which removes the pid file
  also when the signal could not be sent ("unstopped"); `ReadSettings`,
  `TruncateSettings`, `WriteSettings` are `index add` and `index remove`;
  `LoadSettings`, `Scan`, `Sweep`, `IndexRow`, `Report` are `index`, whose settings are loaded
  twice, and `ReadCached`, `IndexRow` are `index file`. Services live by pid: an engine is "new" until it
  has the port (`Bind`) and ends if it does not get it (`GiveUp`); a watcher takes note of
  events and processes them in batches by the settings it began with (`Notice`, `Flush`,
  `ProcessPath`), the last batch after its SIGTERM. `Reuse` gives the pid of a dead service to
  another program.
* **MCControl** has a small tree and the menus, **ControlProofs** the proofs.

Indexer has the same rows with the contents of files and without roots; here contents do not
change, and a row is known by the file it was made from. `Unread` are the files that `index` cannot read:
`Sealed` ones nobody can (no permission, or a source in another encoding), `NotText` are binary PDFs, which only its third read refuses, so that `index file` and
the watcher do write their rows. Removing a pid file is taken to succeed (the code ignores its error); a command
that is cut short before it leaves the same. History variables: `upset` (commands that overlapped or were cut
short, a service launched beside a live one, one that could not be signalled, a reused pid), `hit` (a process that is no
service was sent SIGTERM), `started`, `performed`, and `stirs`, which counts the moments at which settings changed
or a process worked with old ones.

### What the run checks

`ctl`: 2 commands, 4 pids, 8 files, of which one may not be opened and one is a binary PDF; nine menus.

| Property | Says |
|---|---|
| ServicesAreTracked | between commands, a running service is the one its pid file names; after a start both services run; SIGTERM goes to services only, except by reused pids; unless commands overlapped, were cut short or could not send their signal |
| RootsAsCommanded | the local settings are what add and remove make of them in turn, other settings kept; each root is effective unless an earlier one has its name; an addition takes no effective root away |
| RowsAsConfigured | after an undisturbed index each row is of the file its path stands for, and each file under a root that index can read as text has one, whatever watchers and other commands do |

The exceptions in these are in the model, and contradict no document but the one named:

* `start` looks at both services but spawns both: if another workspace's engine holds
  port 42384 (all workspaces share it), the engine ends, and the next `start` launches a second
  watcher beside the first, of which `stop` knows only the last.
  docs/runbook-os-validation.md:16 expects no process to stay.
* the first `index add` writes a local list that replaces the roots of settings.yaml, or the
  workspace itself if there were none, which is then no longer indexed;
* two outside directories with one name: the second is dropped without a word unless it has an alias;
* a file under two nested roots goes by the first, and is ignored if that root's path to it has an
  ignored name;
* a directory of the workspace called `@external` is taken for outside roots: the row of its file
  may be of a file elsewhere, and a file elsewhere may lose its row to it (`Mistaken`);
* a kill between truncation and write leaves an empty settings.local.yaml (`NoSettings`), which the
  next `index add` takes for one without settings;
* a watcher works with the settings it began with until it is started anew;
* a file under a root that cannot be read as text gets no row from an index that ends well; where another
  file had its path under earlier settings, that file's row stays under it;
* `stop` that cannot signal a service says "STOP ERROR" and removes the pid file all the same: the service
  runs on and no command knows it.

Bounds. `together` is 1 or 2 commands at once; `runs` is 2, 3 for sequences such as add, add, remove, or 4 for an index before and after one such;
`faults` is at most one crash, kill, failed step, signal that fails or reused pid; `notices` is one file event. Four pids
are two pairs of services, and an engine of another workspace is `taken`. The tree
has a file for every case above. Pids and commands are symmetric; no liveness is checked. The run
does not check deadlock: its commands run out.

### What is proved

From `ControlAssumption`, `RootsAssumption` (paths are lists of names, the source files finitely many
and absolute) and, for the roots, `SettingsAssumption` (the settings a behaviour begins with are lists
of entries that `index add` writes; `None`, which stands for no index yet, is no number), for any number of commands, pids and files, and any menus:

* `ControlTypes`: the types.
* `ServicesTracked` (`ServicesAreTracked`). The property speaks of moments between commands; the invariant
  `Inv` says what holds within them. `Shape`: the steps a command has left are a proper end of
  start, stop or restart. `Tracked`: while commands on the services do not overlap, nothing
  was launched beside a live service and every signal could be sent, a service that runs is the one its pid file names, unless it has
  just been launched, and then it is the one whose pid the command has; at `RemovePid` none runs.
  `Named`: while no pid was reused, a running process that a pid file names is that service, is being
  stopped only by a command that is about to remove the file, and after a start both are
  there. `Foreign`: SIGTERM reaches another program only by a reused pid. Each of
  them has its own excuse, so that the theorem says what still holds when the other fails.

* `RootsCommanded` (`RootsAsCommanded`). The invariant `SettingsInv` says what holds within a command
  on the roots, of which there is one at a time as long as "settings" is not among the reasons: before
  it truncates, the settings are what the completed commands made of those of the start; from its read
  on its copy is what it makes of them (and after the truncation the copy alone has them), so that its
  write makes the history one longer. The rest is about lists. `Combined` names what a recursive
  function over a list has made of its first n elements, and `Induction` is induction over Nat through
  a set, which needs no operator as a parameter; from them `KeptIs` (the roots kept are accepted, with
  distinct database roots), `KeptGrows` (what is kept stays) and `KeptFirst` (an accepted entry is kept
  unless one before has its name), and with these that an addition takes no effective root away and
  each good entry is effective.

* `RowsIndexed` (`RowsAsConfigured`). First the paths: a file's database path stands for that file unless
  it is `Mistaken` (`SourceOf`), and the walk from the first root around a file passes only directories
  whose database paths have no other names than the file's (`OnTheWay`), so that a file with nothing to
  ignore is scanned (`Scanned`). Then the rows. `Sure(d)`: d is the path of the source file it stands for.
  `Right(d)`: d has that file's row, unless `index` cannot read it.
  `Settled(todo)`: but for the paths of `todo`, each row is right, and so is each path of a scan that is
  sure; with nothing to do this is the property. `RowsInv` says of an index
  that began after the last change of the settings, and that no process has put out of date since
  (`Current`), that it has the roots of now, and when it has swept that `Settled` holds but for the rows
  it has still to look at, and that where its cache agrees with a path, the row is right: so a file that
  it passes over because of its hash does not lack its row. Its steps may be mixed with those of all
  others because none undoes what one by the same settings has done (`Calm`: nothing settled is
  unsettled, no right row of a scanned path is lost), and every other one makes all that run out of date
  (`Stirred`). `Noticed` says that a watcher has only paths of source files by its own settings, so that
  one with the settings of now is calm. Where a command is cut short, nothing has to be undone.

Every property of the run has its theorem.

## 9. Mutants

Each property has a mutant in PROJECT.json: a plausible slip in one definition (a
threshold off by one, a field not reset, a guard dropped, the lock guard created too
early) under which TLC finds that very property violated. The mutants stand before
the definitions they replace and are used by no specification.

## 10. What is only model-checked

| Property | Why no theorem |
|---|---|
| CommandEnds, ForwardsEnd, ShutdownsEnd, IdleWorkerReleased, WatcherCatchesUp, ObservationsReachInbox | liveness under fairness, which is out of the prover's reach |

Every safety property of the passing runs, invariant or action property, has its theorem. The properties of
the violation runs hold of no instance that has the case, and have none.

## 11. Not modelled

See `components` in PROJECT.json for the state of each part. Text parsing and the Tree-sitter
parsers are functions of a text; IndexStore has their result as a constant. Model inference
is a step of a worker. The MCP tools that read once and answer (session context, file
outline, file with hash, git history, index status) have no state that could be wrong between two
steps. The wording of answers, log files, the foreground `watch`, `status`, and Windows'
variants of process handling are left out. Chunking functions of the parsers crate are called by nothing.
