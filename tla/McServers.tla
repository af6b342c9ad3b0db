----------------------------- MODULE McServers -----------------------------
(***************************************************************************)
(* The MCP servers of one workspace (rust/crates/mcp): a process per       *)
(* client, each serving its calls one after the other, all on the same     *)
(* database and the same files of .cortex/history, with no lock between    *)
(* them and no transaction around a call.                                  *)
(*                                                                         *)
(* A call is the sequence of steps its tool runs (`Program'); a step is    *)
(* one SQL statement, which sqlite makes atomic, or one file operation.    *)
(* A file is rewritten in two steps, fs::write being a truncation and a    *)
(* write.  A line of a log is known by its kind and a number: the id of    *)
(* the observation, or the call that wrote it.  Programs that a tool runs  *)
(* and whose results it ignores or only reports (git, relay.py, the date,  *)
(* py_compile, the update of memory.yaml) are left out.                    *)
(*                                                                         *)
(* Ghosts: `written', `performed' and `disturbed' say what has been done   *)
(* and where two servers, or a server and a failure, met.                  *)
(***************************************************************************)
EXTENDS Integers, SequencesExt

CONSTANTS
  Servers,       \* the server processes, each with a client of its own
  None,
  Menus,         \* what a behaviour draws its calls from, how many of them, how often documents
                 \* are edited and how often something fails, and the inbox at the start:
                 \* [requests, calls, edits, faults, inbox]
  StoredKeys,    \* the memories that are there at the start
  SourceText,    \* the source file at the start, as a sequence of blocks
  DocOrder,      \* the documents under rules/ and knowledge/, as WalkDir meets them
  DocTexts,      \* their contents
  ArchiveLimit,  \* a file with more lines than this is archived (50 KiB)
  MaxClock       \* bound on seconds

Logs == {"inbox", "decisions", "patterns"}
Files == Logs \cup {"todo", "source"}
Seconds == 0 .. MaxClock
Docs == Range(DocOrder)

Requests == UNION {m.requests : m \in Menus}
Tools == {"save_observation", "write_memory", "sync_session_memory", "consolidate_memory",
          "search_memory", "read_memory", "create_task_contract", "manage_todo",
          "replace_exact_text"}

\* What the lines of the files are.
LogLine == [kind : {"call", "observation"}, id : Nat]
TodoItem == [id : Nat, done : BOOLEAN]
Blocks == Range(SourceText)
          \cup {r.new : r \in {r \in Requests : r.tool = "replace_exact_text"}}
Line(f) == IF f = "todo" THEN TodoItem ELSE IF f = "source" THEN Blocks ELSE LogLine

ASSUME McAssumption ==
  /\ None \notin Servers \cup Files \cup {"memories", "global"} /\ IsFiniteSet(Servers)
  /\ \A f \in Files : None \notin Seq(Line(f))
  /\ SourceText \in Seq(Blocks) /\ DocOrder \in Seq(Docs) /\ DocTexts # {}
  /\ \A m \in Menus : /\ m.calls \in Nat /\ m.edits \in Nat /\ m.faults \in Nat
                      /\ m.inbox \in Seq([kind : {"call"}, id : Nat]) \cup {None}
  /\ \A r \in Requests :
       /\ r.tool \in Tools
       /\ r.tool \in {"write_memory", "consolidate_memory"} =>
            r.log \in {None, "decisions", "patterns"}
       /\ r.tool = "consolidate_memory" =>
            r.dry_run \in BOOLEAN /\ r.old_keys \in Seq(Range(r.old_keys))
  /\ ArchiveLimit \in Nat /\ MaxClock \in Nat

VARIABLES
  menu,           \* the requests of this behaviour and their number
  clock,          \* now_unix()
  srv,            \* per server: what is left of its call, and what it has read
  observations,   \* the observations table: the ids are 1 .. observations
  lastExtracted,  \* meta: last_extracted_obs_id
  memories,       \* the memories table: key -> [by, hits]
  events,         \* file_edit_events: <<before, after>>
  files,          \* per file: its lines, or None
  archives,       \* history/archive: per log and second, its lines, or None
  contracts,      \* artifacts: <<lane, second>> -> the call that wrote it
  docs,           \* per document: its text, or None
  knowledge,      \* the global database's memories: document -> text
  cached,         \* the global database's file_cache: document -> hash, that is, text
  calls, edits, faults,
  written,        \* ghost: observations some server has written to the inbox
  performed,      \* ghost: per resource, its completed operations in order
  disturbed       \* ghost: resources on which an operation was cut short or overlapped

tables == <<observations, lastExtracted, memories, events>>
disk == <<files, archives, contracts>>
global == <<docs, knowledge, cached, edits>>
ghosts == <<written, performed, disturbed>>
vars == <<menu, clock, srv, tables, disk, global, calls, faults, ghosts>>

-----------------------------------------------------------------------------
(***************************************************************************)
(* What each tool does, step by step: <<operation, resource>>.             *)
(***************************************************************************)
AppendTo(f) == << <<"size", f>>, <<"rename", f>>, <<"append", f>> >>

\* fs::write
WriteTo(f) == << <<"truncate", f>>, <<"write", f>> >>

Upsert == << <<"exists", "memories">>, <<"upsert", "memories">> >>

\* after_save_observation
Hook == << <<"last", "inbox">>, <<"rows", "inbox">>, <<"read", "inbox">> >>
          \o WriteTo("inbox") \o << <<"save", "inbox">> >>

Observe == << <<"observe", None>> >>

\* append_promoted_memory_log: only some categories have a log.
Promote(log) == IF log = None THEN <<>> ELSE AppendTo(log)

Deletes(keys) == [i \in 1 .. Len(keys) |-> <<"delete", "memories">>]

\* sync_global_knowledge; more steps come up as it goes on.
Synchronize == [i \in 1 .. Len(DocOrder) |-> <<"scan", "global">>] \o << <<"stale", "global">> >>

Saving == Observe \o Hook
Writing(log) == Upsert \o Promote(log) \o Hook
SessionSync == Upsert \o AppendTo("inbox") \o Hook
Reading == << <<"find", None>>, <<"touch", None>> >>
Contracting == << <<"contract", None>> >> \o Observe \o Hook
Managing == << <<"load", "todo">> >> \o WriteTo("todo")
Editing == << <<"load", "source">> >> \o WriteTo("source")
             \o << <<"event", None>>, <<"record", None>> >> \o Observe \o Hook

\* Mutant: the new memory is written before the old ones are deleted.
ConsolidationWritesFirst(request) ==
  IF request.dry_run THEN <<>>
  ELSE Upsert \o Deletes(request.old_keys) \o Promote(request.log) \o Hook

\* consolidate_memory deletes the old keys before it writes the new one.
Consolidation(request) ==
  IF request.dry_run THEN <<>>
  ELSE Deletes(request.old_keys) \o Upsert \o Promote(request.log) \o Hook

Program(request) ==
  CASE request.tool = "save_observation"     -> Saving
    [] request.tool = "write_memory"         -> Writing(request.log)
    [] request.tool = "sync_session_memory"  -> SessionSync
    [] request.tool = "consolidate_memory"   -> Consolidation(request)
    [] request.tool = "search_memory"        -> Synchronize
    [] request.tool = "read_memory"          -> Reading
    [] request.tool = "create_task_contract" -> Contracting
    [] request.tool = "manage_todo"          -> Managing
    [] request.tool = "replace_exact_text"   -> Editing

\* session-sync-{now_unix()}
KeyOf(request) ==
  CASE request.tool = "sync_session_memory" -> <<"session-sync", clock>>
    [] "key" \in DOMAIN request -> request.key
    [] OTHER -> None

-----------------------------------------------------------------------------
(***************************************************************************)
(* What a rewrite makes of the lines it has read.                          *)
(***************************************************************************)
\* The ids of todo items are one more than the largest one.
NextId(todos) == Max({0} \cup {todos[i].id : i \in DOMAIN todos}) + 1

Todo(todos, request) ==
  CASE request.action = "add" -> Append(todos, [id |-> NextId(todos), done |-> FALSE])
    [] request.action = "check" ->
         [i \in 1 .. Len(todos) |-> IF todos[i].id = request.id
                                    THEN [todos[i] EXCEPT !.done = TRUE] ELSE todos[i]]
    [] request.action = "clear" -> <<>>
    [] OTHER -> todos

\* before.find(old_content): the first occurrence is replaced.
Replace(text, request) ==
  IF Contains(text, request.old)
  THEN [text EXCEPT ![SelectInSeq(text, LAMBDA block : block = request.old)] = request.new]
  ELSE text

Edited(f, lines, request) ==
  IF f = "todo" THEN Todo(lines, request) ELSE Replace(lines, request)

Lines(f) == IF files[f] = None THEN <<>> ELSE files[f]

\* The ids of the lines of a kind: in some lines, in the archives of a log, and in
\* a log with its archives.
Ids(lines, kind) ==
  LET ids[i \in 0 .. Len(lines)] ==
        IF i = 0 THEN <<>>
        ELSE IF lines[i].kind = kind THEN Append(ids[i - 1], lines[i].id) ELSE ids[i - 1]
  IN ids[Len(lines)]

Archived(dated, kind) ==
  LET ids[t \in 0 .. MaxClock + 1] ==
        IF t = 0 THEN <<>>
        ELSE ids[t - 1] \o Ids(IF dated[t - 1] = None THEN <<>> ELSE dated[t - 1], kind)
  IN ids[MaxClock + 1]

LinesOf(f, kind) == Archived(archives[f], kind) \o Ids(Lines(f), kind)

\* A write through a file opened earlier covers what has been appended to it since.
Overlay(lines, old) == lines \o SubSeq(old, Len(lines) + 1, Len(old))

\* One statement on the memories table; `hits' is access_count.
OnMemories(m, op) ==
  CASE op.do = "put" -> [k \in DOMAIN m \cup {op.key} |->
                          IF k # op.key THEN m[k]
                          ELSE [by   |-> op.by,
                                hits |-> IF k \in DOMAIN m THEN m[k].hits + 1 ELSE 0]]
    [] op.do = "delete" -> [k \in DOMAIN m \ {op.key} |-> m[k]]
    [] op.do = "touch" -> [k \in DOMAIN m |-> IF k = op.key THEN [m[k] EXCEPT !.hits = @ + 1]
                                                            ELSE m[k]]

-----------------------------------------------------------------------------
Idle == [request |-> None, call |-> 0, steps |-> <<>>, key |-> None, exists |-> FALSE,
         last |-> 0, seen |-> 0, before |-> <<>>, copy |-> <<>>, moved |-> None,
         doc |-> None, scanned |-> 0, met |-> {}]

StoredMemories == [k \in StoredKeys |-> [by |-> 0, hits |-> 0]]

Init ==
  /\ menu \in Menus
  /\ clock = 0
  /\ srv = [s \in Servers |-> Idle]
  /\ observations = 0 /\ lastExtracted = 0
  /\ memories = StoredMemories
  /\ events = {}
  /\ files = [f \in Files |-> IF f = "source" THEN SourceText
                            ELSE IF f = "inbox" THEN menu.inbox ELSE None]
  /\ archives = [f \in Logs |-> [t \in Seconds |-> None]]
  /\ contracts = {}
  /\ docs = [d \in Docs |-> CHOOSE t \in DocTexts : TRUE]
  /\ knowledge = [d \in {} |-> None] /\ cached = [d \in {} |-> None]
  /\ calls = 0 /\ edits = 0 /\ faults = 0
  /\ written = {}
  /\ performed = [r \in Files \cup {"memories"} |->
                    IF r = "inbox" THEN LinesOf("inbox", "call") ELSE <<>>]
  /\ disturbed = {}

At(s, op) == srv[s].steps # <<>> /\ Head(srv[s].steps)[1] = op
Resource(s) == Head(srv[s].steps)[2]

\* Server s has done its next step, and has read `read'.
Proceed(s, read) ==
  srv' = [srv EXCEPT ![s] = IF Len(read.steps) = 1 THEN Idle
                            ELSE [read EXCEPT !.steps = Tail(@)]]

\* The call ends here: it is answered, with or without an error.
Finish(s) == srv' = [srv EXCEPT ![s] = Idle]

\* The resource server t is in the middle of reading and writing.
Held(t) ==
  IF \E op \in {"rows", "read", "truncate", "write", "save", "upsert", "cache", "uncache"} : At(t, op)
  THEN Resource(t) ELSE None

\* s begins to use r: it disturbs, and is disturbed by, a server that is using it.
Begin(s, r) ==
  disturbed' = disturbed \cup {q \in {r} : \E t \in Servers \ {s} : Held(t) = r}

Performed(r, op) == performed' = [performed EXCEPT ![r] = Append(@, op)]

-----------------------------------------------------------------------------
Tick ==
  /\ clock < MaxClock /\ clock' = clock + 1
  /\ UNCHANGED <<menu, srv, tables, disk, global, calls, faults, ghosts>>

\* tools/call: a client asks its server, which is idle, for a tool.
Call(s, request) ==
  /\ srv[s] = Idle /\ calls < menu.calls
  /\ calls' = calls + 1
  /\ srv' = [srv EXCEPT ![s] =
       IF Program(request) = <<>> THEN Idle
       ELSE [Idle EXCEPT !.request = request, !.call = calls + 1, !.key = KeyOf(request),
                         !.steps = Program(request)]]
  /\ UNCHANGED <<menu, clock, tables, disk, global, faults, ghosts>>

\* save_observation
SaveObservation(s) ==
  /\ At(s, "observe")
  /\ observations' = observations + 1
  /\ Proceed(s, srv[s])
  /\ UNCHANGED <<menu, clock, lastExtracted, memories, events, disk, global, calls, faults, ghosts>>

ReadLast(s) ==
  /\ At(s, "last")
  /\ Begin(s, "inbox")
  /\ Proceed(s, [srv[s] EXCEPT !.last = lastExtracted])
  /\ UNCHANGED <<menu, clock, tables, disk, global, calls, faults, written, performed>>

\* Mutant: a single new observation is taken for none.
SelectRowsAfterNext(s) ==
  /\ At(s, "rows")
  /\ IF observations > srv[s].last + 1
     THEN Proceed(s, [srv[s] EXCEPT !.seen = observations])
     ELSE Finish(s)
  /\ UNCHANGED <<menu, clock, tables, disk, global, calls, faults, ghosts>>

\* No observation is newer than the last one extracted: the hook is done.
SelectRows(s) ==
  /\ At(s, "rows")
  /\ IF observations > srv[s].last
     THEN Proceed(s, [srv[s] EXCEPT !.seen = observations])
     ELSE Finish(s)
  /\ UNCHANGED <<menu, clock, tables, disk, global, calls, faults, ghosts>>

\* Mutant: the inbox is written anew.
ReadInboxAfresh(s) ==
  /\ At(s, "read")
  /\ Proceed(s, [srv[s] EXCEPT !.copy = [i \in 1 .. srv[s].seen - srv[s].last |->
                          [kind |-> "observation", id |-> srv[s].last + i]]])
  /\ UNCHANGED <<menu, clock, tables, disk, global, calls, faults, ghosts>>

ReadInbox(s) ==
  /\ At(s, "read")
  /\ Proceed(s, [srv[s] EXCEPT !.copy = Lines("inbox")
                    \o [i \in 1 .. srv[s].seen - srv[s].last |->
                          [kind |-> "observation", id |-> srv[s].last + i]]])
  /\ UNCHANGED <<menu, clock, tables, disk, global, calls, faults, ghosts>>

Truncate(s) ==
  /\ At(s, "truncate")
  /\ files' = [files EXCEPT ![Resource(s)] = <<>>]
  /\ Proceed(s, srv[s])
  /\ UNCHANGED <<menu, clock, tables, archives, contracts, global, calls, faults, ghosts>>

\* The second half of fs::write: to the file that was opened, wherever it is by now.
Write(s) ==
  LET f == Resource(s) IN
  /\ At(s, "write")
  /\ IF srv[s].moved = None
     THEN /\ files' = [files EXCEPT ![f] = Overlay(srv[s].copy, Lines(f))]
          /\ UNCHANGED archives
     ELSE /\ archives' = [archives EXCEPT ![f][srv[s].moved] = Overlay(srv[s].copy, @)]
          /\ UNCHANGED files
  /\ written' = IF f = "inbox" THEN written \cup (srv[s].last + 1 .. srv[s].seen)
                               ELSE written
  /\ IF f = "inbox" THEN UNCHANGED performed ELSE Performed(f, srv[s].request)
  /\ Proceed(s, srv[s])
  /\ UNCHANGED <<menu, clock, tables, contracts, global, calls, faults, disturbed>>

\* Mutant: the next id is saved instead of the last one.
SaveExtractedNext(s) ==
  /\ At(s, "save")
  /\ lastExtracted' = srv[s].seen + 1
  /\ Finish(s)
  /\ UNCHANGED <<menu, clock, observations, memories, events, disk, global, calls, faults, ghosts>>

\* Mutant: the last id there is, not the last one that was selected.
SaveExtractedAll(s) ==
  /\ At(s, "save")
  /\ lastExtracted' = observations
  /\ Finish(s)
  /\ UNCHANGED <<menu, clock, observations, memories, events, disk, global, calls, faults, ghosts>>

\* INSERT OR REPLACE INTO meta
SaveExtracted(s) ==
  /\ At(s, "save")
  /\ lastExtracted' = srv[s].seen
  /\ Finish(s)
  /\ UNCHANGED <<menu, clock, observations, memories, events, disk, global, calls, faults, ghosts>>

\* manage_todo takes a file that is missing or torn for an empty list;
\* replace_exact_text gives up when old_content is not there.
Load(s) ==
  LET f == Resource(s) IN
  /\ At(s, "load")
  /\ Begin(s, f)
  /\ IF f = "source" /\ ~ Contains(Lines(f), srv[s].request.old)
     THEN Finish(s)
     ELSE Proceed(s, [srv[s] EXCEPT !.before = Lines(f),
                                    !.copy = Edited(f, Lines(f), srv[s].request)])
  /\ UNCHANGED <<menu, clock, tables, disk, global, calls, faults, written, performed>>

-----------------------------------------------------------------------------
(***************************************************************************)
(* append_markdown_with_archive: all but the last failure is ignored in it *)
(* and the last one by its callers.                                        *)
(***************************************************************************)
Skip(s, n) == srv' = [srv EXCEPT ![s].steps = SubSeq(@, n + 1, Len(@))]

CheckSize(s) ==
  /\ At(s, "size")
  /\ Skip(s, IF Len(Lines(Resource(s))) > ArchiveLimit THEN 1 ELSE 2)
  /\ UNCHANGED <<menu, clock, tables, disk, global, calls, faults, ghosts>>

\* The archive's name is the log's and the second: an archive of that name is
\* replaced.  Who has the log open for writing goes on writing to it.
Rename(s) ==
  LET f == Resource(s) IN
  /\ At(s, "rename")
  /\ IF files[f] = None
     THEN Proceed(s, srv[s]) /\ UNCHANGED <<disk, disturbed>>
     ELSE /\ archives' = [archives EXCEPT ![f][clock] = files[f]]
          /\ files' = [files EXCEPT ![f] = None]
          /\ srv' = [t \in Servers |->
               IF t = s THEN [srv[s] EXCEPT !.steps = Tail(@)]
               ELSE IF At(t, "write") /\ Resource(t) = f /\ srv[t].moved = None
               THEN [srv[t] EXCEPT !.moved = clock] ELSE srv[t]]
          /\ IF archives[f][clock] # None THEN disturbed' = disturbed \cup {f}
                                          ELSE Begin(s, f)
          /\ UNCHANGED contracts
  /\ UNCHANGED <<menu, clock, tables, global, calls, faults, written, performed>>

\* Mutant: the log is opened without append(true).
AppendLineOver(s) ==
  LET f == Resource(s) IN
  /\ At(s, "append")
  /\ Begin(s, f)
  /\ files' = [files EXCEPT ![f] = <<[kind |-> "call", id |-> srv[s].call]>>]
  /\ Performed(f, srv[s].call)
  /\ Proceed(s, srv[s])
  /\ UNCHANGED <<menu, clock, tables, archives, contracts, global, calls, faults, written>>

AppendLine(s) ==
  LET f == Resource(s) IN
  /\ At(s, "append")
  /\ Begin(s, f)
  /\ files' = [files EXCEPT ![f] = Append(Lines(f), [kind |-> "call", id |-> srv[s].call])]
  /\ Performed(f, srv[s].call)
  /\ Proceed(s, srv[s])
  /\ UNCHANGED <<menu, clock, tables, archives, contracts, global, calls, faults, written>>

-----------------------------------------------------------------------------
(***************************************************************************)
(* The memories table.                                                     *)
(***************************************************************************)
\* upsert_memory_record refuses an empty key, then looks the key up ...
Exists(s) ==
  /\ At(s, "exists")
  /\ IF srv[s].key[1] = ""
     THEN Finish(s) /\ UNCHANGED disturbed
     ELSE /\ Proceed(s, [srv[s] EXCEPT !.exists = srv[s].key \in DOMAIN memories])
          /\ Begin(s, "memories")
  /\ UNCHANGED <<menu, clock, tables, disk, global, calls, faults, written, performed>>

\* ... and updates it, which does nothing to a key that has gone, or inserts it,
\* which fails for a key that has come.
UpsertMemory(s) ==
  LET k == srv[s].key
      put == [do |-> "put", key |-> k, by |-> srv[s].call] IN
  /\ At(s, "upsert")
  /\ IF srv[s].exists = (k \in DOMAIN memories)
     THEN memories' = OnMemories(memories, put) ELSE UNCHANGED memories
  /\ IF ~ srv[s].exists /\ k \in DOMAIN memories
     THEN Finish(s) /\ UNCHANGED performed
     ELSE Proceed(s, srv[s]) /\ Performed("memories", put)
  /\ UNCHANGED <<menu, clock, observations, lastExtracted, events, disk, global, calls, faults,
                 written, disturbed>>

\* consolidate_memory deletes the old keys, each in a statement of its own, and
\* only then writes the new one.
DeleteOld(s) ==
  LET old == srv[s].request.old_keys
      left == Len(SelectSeq(srv[s].steps, LAMBDA step : step[1] = "delete"))
      op == [do |-> "delete", key |-> old[Len(old) - left + 1], by |-> srv[s].call,
             new |-> srv[s].key] IN
  /\ At(s, "delete")
  /\ memories' = OnMemories(memories, op)
  /\ Begin(s, "memories")
  /\ Performed("memories", op)
  /\ Proceed(s, srv[s])
  /\ UNCHANGED <<menu, clock, observations, lastExtracted, events, disk, global, calls, faults, written>>

\* read_memory answers what it finds, and counts the access.
Find(s) ==
  /\ At(s, "find")
  /\ IF srv[s].key \in DOMAIN memories THEN Proceed(s, srv[s]) ELSE Finish(s)
  /\ UNCHANGED <<menu, clock, tables, disk, global, calls, faults, ghosts>>

Touch(s) ==
  LET op == [do |-> "touch", key |-> srv[s].key, by |-> srv[s].call] IN
  /\ At(s, "touch")
  /\ memories' = OnMemories(memories, op)
  /\ Performed("memories", op)
  /\ Proceed(s, srv[s])
  /\ UNCHANGED <<menu, clock, observations, lastExtracted, events, disk, global, calls, faults,
                 written, disturbed>>

-----------------------------------------------------------------------------
\* create_task_contract: contract_{lane}_{now_unix()}.md, whatever is there.
WriteContract(s) ==
  LET name == <<srv[s].request.lane, clock>> IN
  /\ At(s, "contract")
  /\ contracts' = {c \in contracts : c.name # name} \cup {[name |-> name, by |-> srv[s].call]}
  /\ Proceed(s, srv[s])
  /\ UNCHANGED <<menu, clock, tables, files, archives, global, calls, faults, ghosts>>

\* record_edit_event looks the event up, and updates or inserts it: the same edit
\* recorded by another server in between makes the insertion fail.
FindEvent(s) ==
  /\ At(s, "event")
  /\ Proceed(s, [srv[s] EXCEPT !.exists = <<srv[s].before, srv[s].copy>> \in events])
  /\ UNCHANGED <<menu, clock, tables, disk, global, calls, faults, ghosts>>

RecordEvent(s) ==
  LET event == <<srv[s].before, srv[s].copy>> IN
  /\ At(s, "record")
  /\ events' = events \cup {event}
  /\ IF ~ srv[s].exists /\ event \in events THEN Finish(s) ELSE Proceed(s, srv[s])
  /\ UNCHANGED <<menu, clock, observations, lastExtracted, memories, disk, global, calls, faults, ghosts>>

-----------------------------------------------------------------------------
(***************************************************************************)
(* sync_global_knowledge, which every search runs first: the documents of  *)
(* rules/ and knowledge/ are copied to a database all workspaces share.    *)
(***************************************************************************)
With(table, d, text) == [e \in DOMAIN table \cup {d} |-> IF e = d THEN text ELSE table[e]]
Without(table, d) == [e \in DOMAIN table \ {d} |-> table[e]]

EditDoc(d) ==
  /\ edits < menu.edits /\ edits' = edits + 1
  /\ \E text \in (DocTexts \cup {None}) \ {docs[d]} : docs' = [docs EXCEPT ![d] = text]
  /\ UNCHANGED <<menu, clock, srv, tables, disk, knowledge, cached, calls, faults, ghosts>>

\* The next document, if it is there: what is not in file_cache as it is gets stored.
ScanDoc(s) ==
  LET d == DocOrder[srv[s].scanned + 1]
      known == d \in DOMAIN cached /\ cached[d] = docs[d]
      next == [srv[s] EXCEPT !.scanned = @ + 1,
                 !.met = IF docs[d] = None THEN @ ELSE @ \cup {d}] IN
  /\ At(s, "scan")
  /\ IF docs[d] = None \/ known
     THEN Proceed(s, next)
     ELSE Proceed(s, [next EXCEPT !.doc = d, !.copy = docs[d],
            !.steps = << Head(@), <<"store", "global">>, <<"cache", "global">> >> \o Tail(@)])
  /\ UNCHANGED <<menu, clock, tables, disk, global, calls, faults, ghosts>>

\* upsert_memory_record, whose two statements are one step here, then file_cache.
StoreDoc(s) ==
  /\ At(s, "store")
  /\ knowledge' = With(knowledge, srv[s].doc, srv[s].copy)
  /\ Begin(s, "global")
  /\ Proceed(s, srv[s])
  /\ UNCHANGED <<menu, clock, tables, disk, docs, cached, edits, calls, faults, written,
                 performed>>

CacheDoc(s) ==
  /\ At(s, "cache")
  /\ cached' = With(cached, srv[s].doc, srv[s].copy)
  /\ Proceed(s, srv[s])
  /\ UNCHANGED <<menu, clock, tables, disk, docs, knowledge, edits, calls, faults, ghosts>>

\* What file_cache has and the scan has not met is forgotten, one by one.
ListStale(s) ==
  LET gone == SetToSeq(DOMAIN cached \ srv[s].met) IN
  /\ At(s, "stale")
  /\ IF gone = <<>> THEN Finish(s)
     ELSE srv' = [srv EXCEPT ![s].copy = gone,
                             ![s].steps = << <<"forget", "global">>, <<"uncache", "global">> >>]
  /\ UNCHANGED <<menu, clock, tables, disk, global, calls, faults, ghosts>>

\* Mutant: the memory of a document that is gone is kept.
ForgetDocOnlyInCache(s) ==
  /\ At(s, "forget")
  /\ UNCHANGED knowledge
  /\ Begin(s, "global")
  /\ Proceed(s, srv[s])
  /\ UNCHANGED <<menu, clock, tables, disk, docs, cached, edits, calls, faults, written,
                 performed>>

ForgetDoc(s) ==
  /\ At(s, "forget")
  /\ knowledge' = Without(knowledge, Head(srv[s].copy))
  /\ Begin(s, "global")
  /\ Proceed(s, srv[s])
  /\ UNCHANGED <<menu, clock, tables, disk, docs, cached, edits, calls, faults, written,
                 performed>>

UncacheDoc(s) ==
  /\ At(s, "uncache")
  /\ cached' = Without(cached, Head(srv[s].copy))
  /\ IF Len(srv[s].copy) = 1 THEN Finish(s)
     ELSE srv' = [srv EXCEPT ![s].copy = Tail(@),
                             ![s].steps = << <<"forget", "global">>, <<"uncache", "global">> >>]
  /\ UNCHANGED <<menu, clock, tables, disk, docs, knowledge, edits, calls, faults, ghosts>>

-----------------------------------------------------------------------------
(***************************************************************************)
(* Failures.  What is torn: a file between truncation and write, the inbox *)
(* until its last id is saved, the knowledge until its cache agrees.       *)
(***************************************************************************)
Tear(s) ==
  disturbed' = IF \E op \in {"write", "save", "cache", "uncache"} : At(s, op)
               THEN disturbed \cup {Resource(s)} ELSE disturbed

\* The next step fails and the call ends with an error, or the server is killed
\* and its client starts another.
CutShort(s) ==
  /\ srv[s].steps # <<>> /\ faults < menu.faults /\ faults' = faults + 1
  /\ Finish(s)
  /\ Tear(s)
  /\ UNCHANGED <<menu, clock, tables, disk, global, calls, written, performed>>

\* A failing step of an append is passed over.
AppendFails(s) ==
  /\ faults < menu.faults /\ faults' = faults + 1
  /\ \/ At(s, "size") /\ Skip(s, 2)
     \/ (At(s, "rename") \/ At(s, "append")) /\ Skip(s, 1)
  /\ UNCHANGED <<menu, clock, tables, disk, global, calls, ghosts>>

Step(s) ==
  \/ SaveObservation(s) \/ ReadLast(s) \/ SelectRows(s) \/ ReadInbox(s) \/ Truncate(s)
  \/ Write(s) \/ SaveExtracted(s) \/ Load(s) \/ CheckSize(s) \/ Rename(s) \/ AppendLine(s)
  \/ Exists(s) \/ UpsertMemory(s) \/ DeleteOld(s) \/ Find(s) \/ Touch(s)
  \/ WriteContract(s) \/ FindEvent(s) \/ RecordEvent(s)
  \/ ScanDoc(s) \/ StoreDoc(s) \/ CacheDoc(s) \/ ListStale(s) \/ ForgetDoc(s) \/ UncacheDoc(s)

Next ==
  \/ Tick
  \/ \E d \in Docs : EditDoc(d)
  \/ \E s \in Servers : \/ \E request \in menu.requests : Call(s, request)
                        \/ Step(s) \/ CutShort(s) \/ AppendFails(s)

Spec == Init /\ [][Next]_vars

\* A server goes on with the call it has begun.
FairSpec == Spec /\ \A s \in Servers : WF_vars(Step(s))

-----------------------------------------------------------------------------
\* The steps a call may consist of.
Steps ==
  UNION { {"size", "rename", "append"} \X Logs,
          {"truncate", "write"} \X {"inbox", "todo", "source"},
          {"load"} \X {"todo", "source"},
          {"last", "rows", "read", "save"} \X {"inbox"},
          {"exists", "upsert", "delete"} \X {"memories"},
          {"observe", "find", "touch", "contract", "event", "record"} \X {None},
          {"scan", "stale", "store", "cache", "forget", "uncache"} \X {"global"} }

TypeOK ==
  /\ menu \in Menus /\ clock \in Seconds
  /\ calls \in 0 .. menu.calls /\ edits \in 0 .. menu.edits /\ faults \in 0 .. menu.faults
  /\ docs \in [Docs -> DocTexts \cup {None}]
  /\ DOMAIN cached \subseteq Docs /\ DOMAIN knowledge \subseteq Docs
  /\ observations \in 0 .. calls /\ lastExtracted \in 0 .. observations
  /\ memories \in [DOMAIN memories -> [by : 0 .. calls, hits : 0 .. calls]]
  /\ \A c \in contracts : c.by \in 1 .. calls
  /\ DOMAIN files = Files /\ \A f \in Files : files[f] \in Seq(Line(f)) \cup {None}
  /\ archives \in [Logs -> [Seconds -> Seq(LogLine) \cup {None}]]
  /\ DOMAIN srv = Servers
  /\ \A s \in Servers : /\ DOMAIN srv[s] = DOMAIN Idle
                       /\ srv[s].steps \in Seq(Steps)
                       /\ (srv[s] = Idle) = (srv[s].steps = <<>>)
                       /\ srv[s].request \in Requests \cup {None}
                       /\ srv[s].call \in 0 .. calls
                       /\ srv[s].last \in 0 .. observations /\ srv[s].seen \in 0 .. observations
                       /\ srv[s].moved \in Seconds \cup {None}

(***************************************************************************)
(* However the hooks of several servers interleave, fail and are killed,   *)
(* the hook never passes over an observation: what last_extracted_obs_id   *)
(* says has been extracted has been written to the inbox.  (It may be      *)
(* written twice, and a racing write may then overwrite it.)               *)
(***************************************************************************)
ExtractedWereWritten == 1 .. lastExtracted \subseteq written

\* Nobody is using r, and nobody was disturbed who did.
Undisturbed(r) == r \notin disturbed /\ \A s \in Servers : Held(s) # r

(***************************************************************************)
(* Unless two servers overlapped on it or one was cut short in it, the     *)
(* inbox with its archives has every extracted observation once, in order, *)
(* and the lines of every sync_session_memory.                             *)
(***************************************************************************)
InboxOnce ==
  Undisturbed("inbox") =>
    /\ LinesOf("inbox", "observation") = [i \in 1 .. lastExtracted |-> i]
    /\ LinesOf("inbox", "call") = performed["inbox"]

\* What the operations on r make of it, one after the other.
Initially(r) ==
  IF r = "memories" THEN StoredMemories ELSE IF r = "source" THEN SourceText ELSE <<>>

Applied(r, value, op) == IF r = "memories" THEN OnMemories(value, op) ELSE Edited(r, value, op)

AfterAll(r, ops) ==
  LET after[i \in 0 .. Len(ops)] ==
        IF i = 0 THEN Initially(r) ELSE Applied(r, after[i - 1], ops[i])
  IN after[Len(ops)]

(***************************************************************************)
(* Unless disturbed, everything else the servers share is what its         *)
(* operations make of it one after the other: no update of the todo list,  *)
(* the source file, the logs or the memories is lost, although none of the *)
(* calls takes a lock, and archives keep what the logs had.                *)
(***************************************************************************)
NothingLost ==
  /\ \A f \in {"todo", "source"} : Undisturbed(f) => Lines(f) = AfterAll(f, performed[f])
  /\ \A f \in {"decisions", "patterns"} :
       Undisturbed(f) => LinesOf(f, "call") = performed[f]
  /\ Undisturbed("memories") => memories = AfterAll("memories", performed["memories"])

(***************************************************************************)
(* Every observation saved is written to the inbox in the end, whatever    *)
(* the other servers do, unless a step fails or a server is killed (then   *)
(* the next call of any server makes up for it).                           *)
(***************************************************************************)
ObservationsReachInbox ==
  \A o \in 1 .. Max({m.calls : m \in Menus}) : observations >= o ~> (o \in written \/ faults > 0)

(***************************************************************************)
(* A consolidation that is over, was not cut short and did not lose its    *)
(* key to another server, has not only deleted the old memories: it has    *)
(* written the consolidated one and left it there, also when its key is    *)
(* one of the old ones.  (It deletes first, so that an empty new_key, a    *)
(* failure or a kill loses the old memories.)                              *)
(***************************************************************************)
ConsolidationsKeepMemory ==
  LET ops == performed["memories"] IN
  faults = 0 /\ Undisturbed("memories") =>
    \A i \in DOMAIN ops : ops[i].do = "delete" =>
      \/ \E s \in Servers : srv[s].call = ops[i].by
      \/ ops[i].new[1] = ""
      \/ \E j \in DOMAIN ops :
           /\ ops[j].do = "put" /\ ops[j].by = ops[i].by
           /\ \A k \in j .. Len(ops) : ops[k].do = "delete" /\ ops[k].by = ops[i].by
                                          => ops[k].key # ops[j].key

(***************************************************************************)
(* Unless two searches overlapped in it or one was cut short, file_cache   *)
(* says of every document what the global memories have: a document is     *)
(* neither passed over as known without being stored, nor stored without   *)
(* being known and so never forgotten.                                     *)
(***************************************************************************)
CachedAreStored == Undisturbed("global") => cached = knowledge

=============================================================================
