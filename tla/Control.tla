------------------------------ MODULE Control ------------------------------
(***************************************************************************)
(* cortex-ctl on one workspace: the commands that start and stop the       *)
(* services (ctl/commands.rs, ctl/process.rs), those that change the index *)
(* roots (watcher/index_roots.rs) and those that index, each a process;    *)
(* and the services as far as these commands and they meet: by the pid     *)
(* files, the engine's port, the local settings and the rows of the        *)
(* database.                                                               *)
(*                                                                         *)
(* A command is the sequence of its steps (`Program'), each one read or    *)
(* write of what others may change.  Source files do not change here (in   *)
(* Indexer they do): a row is known by the file it was made from.          *)
(*                                                                         *)
(* Ghosts: `upset' has the reasons why the services or the settings may    *)
(* not be as commanded; `stirs' counts what makes the rows out of date.    *)
(***************************************************************************)
EXTENDS IndexRoots

CONSTANTS
  Commands,      \* processes that run a command
  Pids,
  Sealed,        \* source files that may not be read, or are not UTF-8
  NotText,       \* PDFs that are not UTF-8: only index reads a PDF as text
  Menus          \* [starts, requests, runs, together, notices, faults, taken]: the services and
                 \* settings [running, base, local] a behaviour begins with, what is run, how
                 \* often and how many at once, how many file events and failures there are,
                 \* and whether another engine may have the port

Services == {"engine", "watcher"}

ASSUME ControlAssumption ==
  /\ None \notin Commands \cup Pids \cup Nat
  /\ Sealed \cup NotText \subseteq SourceFiles
  /\ \A m \in Menus :
       /\ m.runs \in Nat /\ m.notices \in Nat /\ m.faults \in Nat
       /\ \A request \in m.requests :
            request.do \in {"start", "stop", "restart", "add", "remove", "index", "file"}

\* What the settings of a menu and its index adds can list.
Entries(m) ==
  (UNION {ToSet(Listed(start.base)) \cup ToSet(Listed(start.local.roots)) : start \in m.starts})
    \cup {RootEntry(request.path, request.alias) : request \in {r \in m.requests : r.do = "add"}}

Sound(m) == {entry \in Entries(m) \ {None} : EntryOK(entry)}

LocalSettings(m) ==
  [roots : Seq({entry \in Sound(m) : Written(entry)}) \cup {None}, rest : BOOLEAN]

\* The local settings of the start are such as index add can have written.
ASSUME SettingsAssumption ==
  \A m \in Menus :
    /\ None \notin Seq(Entries(m))
    /\ \A start \in m.starts :
         start.base \in Seq(Sound(m)) \cup {None} /\ start.local \in LocalSettings(m)
    /\ \A request \in m.requests : request.do = "add" =>
         /\ PathOK(request.path) /\ None \notin ToSet(request.path)
         /\ \A i \in 2 .. Len(request.path) : request.path[i] # Slash

VARIABLES
  menu,
  taken,      \* the engine of another workspace has the port, which all share
  pidfile,    \* what read_pid finds: None if missing or empty
  proc,       \* per pid: the process, or NoProcess
  base,       \* settings.yaml: its index_roots
  local,      \* settings.local.yaml: [roots, rest], rest: whether there are other settings
  first,      \* ghost: what local was at the start
  rows,       \* file_cache: database path -> the source file that was indexed
  cmd,        \* the commands that run
  runs, notices, faults,
  performed,  \* ghost: completed changes of the roots
  started,    \* ghost: a start has ended, and nothing has stopped or failed since
  hit,        \* ghost: a process that is no service has been sent SIGTERM
  upset, stirs, indexed

settings == <<base, local, first, performed>>
services == <<taken, pidfile, proc>>
bounds == <<runs, notices, faults>>
ghosts == <<started, hit, upset, stirs, indexed>>
vars == <<menu, services, settings, rows, cmd, bounds, ghosts>>

-----------------------------------------------------------------------------
Both(steps(_)) == steps("engine") \o steps("watcher")

Halt(v) == << <<"find", v>>, <<"terminate", v>>, <<"remove", v>> >>
Check(v) == << <<"check", v>> >>
Stale(v) == << <<"stale", v>>, <<"remove", v>> >>
Launch(v) == << <<"spawn", v>>, <<"truncate", v>>, <<"write", v>> >>

Program(request) ==
  CASE request.do = "start"   -> Both(Check) \o Both(Stale) \o Both(Launch)
    [] request.do = "stop"    -> Both(Halt)
    [] request.do = "restart" -> Both(Halt) \o Both(Check) \o Both(Stale) \o Both(Launch)
    [] request.do \in {"add", "remove"} ->
         << <<"read", "local">>, <<"truncate", "local">>, <<"write", "local">> >>
    [] request.do = "index"   -> << <<"load", "rows">>, <<"scan", "rows">>, <<"sweep", "rows">> >>
    [] request.do = "file"    -> << <<"load", "rows">>, <<"cached", "rows">> >>

About(request) ==
  CASE request.do \in {"start", "stop", "restart"} -> "services"
    [] request.do \in {"add", "remove"} -> "settings"
    [] OTHER -> "rows"

NoRows == [d \in {} |-> None]

Idle == [request |-> None, steps |-> <<>>, pid |-> None, copy |-> None, roots |-> None, scan |-> {},
         cache |-> NoRows, since |-> 0, sound |-> TRUE]

\* What a file that is missing, or is empty after a truncation, is read as.
NoSettings == [roots |-> None, rest |-> FALSE]

\* load_settings
Configured == Merge(base, local.roots)

\* A process: a service, with the settings it has loaded; a watcher, with the database
\* paths it has to look at, and those it is looking at.
Process(kind, roots) == [kind |-> kind, state |-> "up", roots |-> roots, pending |-> {},
                         batch |-> {}, cache |-> NoRows]
NoProcess == [Process(None, None) EXCEPT !.state = "none"]

Init ==
  /\ menu \in Menus
  /\ taken \in menu.taken
  /\ \E start \in menu.starts :
       /\ base = start.base /\ local = start.local /\ first = start.local
       /\ \E e, w \in Pids :
            /\ e # w
            /\ pidfile = IF start.running THEN [v \in Services |-> IF v = "engine" THEN e ELSE w]
                                          ELSE [v \in Services |-> None]
            /\ proc = [p \in Pids |->
                 IF ~ start.running \/ p \notin {e, w} THEN NoProcess
                 ELSE Process(IF p = e THEN "engine" ELSE "watcher",
                              Merge(start.base, start.local.roots))]
       /\ start.running => ~ taken
  /\ rows = NoRows
  /\ cmd = [c \in Commands |-> Idle]
  /\ runs = 0 /\ notices = 0 /\ faults = 0
  /\ performed = <<>> /\ started = FALSE /\ hit = FALSE
  /\ upset = {} /\ stirs = 0 /\ indexed = None

-----------------------------------------------------------------------------
At(c, op, what) == cmd[c].steps # <<>> /\ Head(cmd[c].steps) = <<op, what>>

Alive(p) == p # None /\ proc[p] # NoProcess
ServiceAlive(v) == Alive(pidfile[v])

\* Command c goes on n steps further, knowing what `now' says.
Skip(c, now, n) ==
  cmd' = [cmd EXCEPT ![c] = IF Len(now.steps) = n THEN Idle
                            ELSE [now EXCEPT !.steps = SubSeq(@, n + 1, Len(@))]]
Go(c, now) == Skip(c, now, 1)
Finish(c) == cmd' = [cmd EXCEPT ![c] = Idle]

Run(c, request) ==
  /\ cmd[c] = Idle /\ runs < menu.runs
  /\ Cardinality({d \in Commands : cmd[d] # Idle}) < menu.together
  /\ runs' = runs + 1
  /\ cmd' = [cmd EXCEPT ![c] = [Idle EXCEPT !.request = request, !.steps = Program(request),
                                            !.since = stirs]]
  /\ upset' = upset \cup
       {About(request) : d \in {d \in Commands : /\ cmd[d] # Idle
                                                 /\ About(cmd[d].request) = About(request)}}
  /\ started' = (started /\ About(request) # "services")
  /\ UNCHANGED <<menu, services, settings, rows, notices, faults, hit, stirs, indexed>>

-----------------------------------------------------------------------------
(***************************************************************************)
(* start, stop, restart.                                                   *)
(***************************************************************************)
Quiet == <<menu, taken, settings, rows, bounds, stirs, indexed>>

\* Mutant: start has nothing to do if one of them is alive.
CheckEither(c) ==
  \E v \in Services :
    /\ At(c, "check", v)
    /\ IF ServiceAlive(v) THEN Finish(c) /\ started' = cmd[c].sound
                         ELSE Go(c, cmd[c]) /\ UNCHANGED started
    /\ UNCHANGED <<pidfile, proc, hit, upset, Quiet>>

\* start has nothing to do if both are alive.
CheckService(c) ==
  \/ /\ At(c, "check", "engine")
     /\ Skip(c, cmd[c], IF ServiceAlive("engine") THEN 1 ELSE 2)
     /\ UNCHANGED <<services, ghosts, Quiet>>
  \/ /\ At(c, "check", "watcher")
     /\ IF ServiceAlive("watcher") THEN Finish(c) /\ started' = cmd[c].sound
                                   ELSE Go(c, cmd[c]) /\ UNCHANGED started
     /\ UNCHANGED <<pidfile, proc, hit, upset, Quiet>>

\* stop_stale
CheckStale(c) ==
  \E v \in Services :
    /\ At(c, "stale", v)
    /\ Skip(c, cmd[c], IF ServiceAlive(v) THEN 2 ELSE 1)
    /\ UNCHANGED <<services, ghosts, Quiet>>

RemovePid(c) ==
  \E v \in Services :
    /\ At(c, "remove", v)
    /\ pidfile' = [pidfile EXCEPT ![v] = None]
    /\ Go(c, cmd[c])
    /\ UNCHANGED <<proc, started, hit, upset, Quiet>>

\* spawn_logged; the process loads the settings when it begins.  (The other service may
\* be alive and known: it is forgotten when its pid file is written.)
Spawn(c) ==
  \E v \in Services, p \in Pids :
    /\ At(c, "spawn", v) /\ proc[p] = NoProcess
    /\ proc' = [proc EXCEPT ![p] = [Process(v, Configured)
                  EXCEPT !.state = IF v = "engine" THEN "new" ELSE "up"]]
    /\ Go(c, [cmd[c] EXCEPT !.pid = p])
    /\ upset' = upset \cup {"beside" : q \in {q \in {pidfile[v]} : Alive(q)}}
                       \cup {"reused" : u \in {u \in Services : pidfile[u] = p}}
    /\ UNCHANGED <<pidfile, started, hit, Quiet>>

TruncatePid(c) ==
  \E v \in Services :
    /\ At(c, "truncate", v)
    /\ pidfile' = [pidfile EXCEPT ![v] = None]
    /\ Go(c, cmd[c])
    /\ UNCHANGED <<proc, started, hit, upset, Quiet>>

WritePid(c) ==
  \E v \in Services :
    /\ At(c, "write", v)
    /\ pidfile' = [pidfile EXCEPT ![v] = cmd[c].pid]
    /\ Go(c, cmd[c])
    /\ started' = (v = "watcher" /\ cmd[c].sound)
    /\ UNCHANGED <<proc, hit, upset, Quiet>>

\* stop_one reads the pid file and sends SIGTERM to a process of that number.
FindPid(c) ==
  \E v \in Services :
    /\ At(c, "find", v)
    /\ Skip(c, [cmd[c] EXCEPT !.pid = pidfile[v]],
            IF pidfile[v] = None THEN 3 ELSE IF Alive(pidfile[v]) THEN 1 ELSE 2)
    /\ UNCHANGED <<services, ghosts, Quiet>>

\* An error of kill or taskkill is printed, and stop_one goes on to remove the pid file.
Terminate(c) ==
  \E v \in Services :
    LET p == cmd[c].pid IN
    /\ At(c, "terminate", v)
    /\ \/ /\ proc' = IF Alive(p) THEN [proc EXCEPT ![p].state = "stopping"] ELSE proc
          /\ hit' = (hit \/ (Alive(p) /\ proc[p].kind = "foreign"))
          /\ UNCHANGED <<faults, upset>>
       \/ /\ Alive(p) /\ faults < menu.faults /\ faults' = faults + 1
          /\ upset' = upset \cup {"unstopped"}
          /\ UNCHANGED <<proc, hit>>
    /\ Go(c, cmd[c])
    /\ UNCHANGED <<menu, taken, pidfile, settings, rows, runs, notices, started, stirs, indexed>>

-----------------------------------------------------------------------------
(***************************************************************************)
(* index add, index remove: read, change and write settings.local.yaml.    *)
(***************************************************************************)
Change(file, request) ==
  [file EXCEPT !.roots = IF request.do = "add"
                         THEN AddRoot(@, RootEntry(request.path, request.alias))
                         ELSE RemoveRoot(@, request.path)]

\* An alias that is not good, or a root that is not there: the command fails.
Refuses(request) ==
  IF request.do = "add" THEN RootEntry(request.path, request.alias) = None
  ELSE RemoveRoot(local.roots, request.path) = Listed(local.roots)

ReadSettings(c) ==
  /\ At(c, "read", "local")
  /\ IF Refuses(cmd[c].request) THEN Finish(c)
     ELSE Go(c, [cmd[c] EXCEPT !.copy = Change(local, cmd[c].request)])
  /\ UNCHANGED <<menu, services, settings, rows, bounds, ghosts>>

TruncateSettings(c) ==
  /\ At(c, "truncate", "local")
  /\ local' = NoSettings
  /\ stirs' = stirs + 1
  /\ Go(c, cmd[c])
  /\ UNCHANGED <<menu, services, base, first, performed, rows, bounds, started, hit, upset, indexed>>

WriteSettings(c) ==
  /\ At(c, "write", "local")
  /\ local' = cmd[c].copy
  /\ performed' = Append(performed, cmd[c].request)
  /\ stirs' = stirs + 1
  /\ Go(c, cmd[c])
  /\ UNCHANGED <<menu, services, base, first, rows, bounds, started, hit, upset, indexed>>

-----------------------------------------------------------------------------
(***************************************************************************)
(* index and index file, as far as the settings decide what they do.       *)
(***************************************************************************)
\* What has been read since command c began may be out of date: others' work is undone.
Stir(c) == stirs' = IF cmd[c].since = stirs THEN stirs ELSE stirs + 1

LoadSettings(c) ==
  /\ At(c, "load", "rows")
  /\ Go(c, [cmd[c] EXCEPT !.roots = Configured])
  /\ UNCHANGED <<menu, services, settings, rows, bounds, ghosts>>

\* scan_files loads the settings once more.
Scan(c) ==
  /\ At(c, "scan", "rows")
  /\ Go(c, [cmd[c] EXCEPT !.scan = ScanFiles(Configured)])
  /\ UNCHANGED <<menu, services, settings, rows, bounds, ghosts>>

RowSteps(paths) ==
  LET order == SetToSeq(paths) IN [i \in DOMAIN order |-> <<"row", order[i]>>]

\* Mutant: rows of files that the scan has not found stay.
SweepNothing(c) ==
  /\ At(c, "sweep", "rows")
  /\ Go(c, [cmd[c] EXCEPT !.cache = rows, !.steps = @ \o RowSteps(cmd[c].scan)
                                                     \o << <<"report", "rows">> >>])
  /\ Stir(c)
  /\ UNCHANGED <<menu, services, settings, rows, bounds, started, hit, upset, indexed>>

\* cleanup_deleted_file_records; the cache is loaded then.
Sweep(c) ==
  LET kept == [d \in DOMAIN rows \cap cmd[c].scan |-> rows[d]] IN
  /\ At(c, "sweep", "rows")
  /\ rows' = kept
  /\ Go(c, [cmd[c] EXCEPT !.cache = kept, !.steps = @ \o RowSteps(cmd[c].scan)
                                                     \o << <<"report", "rows">> >>])
  /\ Stir(c)
  /\ UNCHANGED <<menu, services, settings, bounds, started, hit, upset, indexed>>

ReadCached(c) ==
  /\ At(c, "cached", "rows")
  /\ Go(c, [cmd[c] EXCEPT !.cache = rows, !.steps = Append(@, <<"row", cmd[c].request.path>>)])
  /\ UNCHANGED <<menu, services, settings, rows, bounds, ghosts>>

\* What index fails to read.
Unread == Sealed \cup NotText

\* inspect_path and what is done about it: a file that is not there loses its rows, one
\* that cannot be read is an error (index counts it and goes on, index file has nothing
\* more to do, the watcher logs it), and one whose hash is cached is passed over.
Inspected(cache, d, source, unreadable) ==
  IF source \notin SourceFiles THEN [e \in DOMAIN rows \ {d} |-> rows[e]]
  ELSE IF source \in unreadable \/ (d \in DOMAIN cache /\ cache[d] = source) THEN rows
  ELSE [e \in DOMAIN rows \cup {d} |-> IF e = d THEN source ELSE rows[e]]

InspectPath(roots, d) ==
  IF SourcePath(roots, d) = None THEN Workspace \o d ELSE SourcePath(roots, d)

\* `index file' takes any path it is given, also one outside the roots.
IndexRow(c) ==
  /\ cmd[c].steps # <<>> /\ Head(cmd[c].steps)[1] = "row"
  /\ LET d == Head(cmd[c].steps)[2]
         one == cmd[c].request.do = "file"
     IN /\ rows' = Inspected(cmd[c].cache, d,
                     IF one THEN SourcePath(cmd[c].roots, d) ELSE InspectPath(cmd[c].roots, d),
                     IF one THEN Sealed ELSE Unread)
        /\ IF one /\ d \notin ScanFiles(Configured) THEN stirs' = stirs + 1 ELSE Stir(c)
  /\ Go(c, cmd[c])
  /\ UNCHANGED <<menu, services, settings, bounds, started, hit, upset, indexed>>

Report(c) ==
  /\ At(c, "report", "rows")
  /\ indexed' = IF cmd[c].since = stirs THEN stirs ELSE indexed
  /\ Finish(c)
  /\ UNCHANGED <<menu, services, settings, rows, bounds, started, hit, upset, stirs>>

-----------------------------------------------------------------------------
(***************************************************************************)
(* The services.  The engine tries for 20 s to get its port, longer than   *)
(* one that has been told to stop takes to end.                            *)
(***************************************************************************)
Is(p, kind, state) == Alive(p) /\ proc[p].kind = kind /\ proc[p].state = state

\* Mutant: another engine of the workspace is no obstacle.
BindBeside(p) ==
  /\ Is(p, "engine", "new") /\ ~ taken
  /\ proc' = [proc EXCEPT ![p].state = "up"]
  /\ UNCHANGED <<pidfile, cmd, started, hit, upset, Quiet>>

Bind(p) ==
  /\ Is(p, "engine", "new") /\ ~ taken
  /\ \A q \in Pids : ~ Is(q, "engine", "up") /\ ~ Is(q, "engine", "stopping")
  /\ proc' = [proc EXCEPT ![p].state = "up"]
  /\ UNCHANGED <<pidfile, cmd, started, hit, upset, Quiet>>

\* A service that ends without having been told to.
Dies(p, reason) ==
  /\ proc' = [proc EXCEPT ![p] = NoProcess]
  /\ cmd' = [c \in Commands |-> IF cmd[c] = Idle THEN Idle ELSE [cmd[c] EXCEPT !.sound = FALSE]]
  /\ started' = FALSE
  /\ upset' = upset \cup {reason}
  /\ UNCHANGED <<menu, taken, pidfile, settings, rows, runs, notices, hit, stirs, indexed>>

GiveUp(p) ==
  /\ Is(p, "engine", "new") /\ (taken \/ \E q \in Pids : Is(q, "engine", "up"))
  /\ Dies(p, "refused")
  /\ UNCHANGED faults

Crash(p) ==
  /\ faults < menu.faults /\ faults' = faults + 1
  /\ \E v \in Services, state \in {"new", "up"} : Is(p, v, state)
  /\ Dies(p, "crashed")

\* Some other program gets the number of a service that has ended.
Reuse(p) ==
  /\ faults < menu.faults /\ faults' = faults + 1
  /\ proc[p] = NoProcess /\ \E v \in Services : pidfile[v] = p
  /\ proc' = [proc EXCEPT ![p] = Process("foreign", None)]
  /\ upset' = upset \cup {"reused"}
  /\ UNCHANGED <<menu, taken, pidfile, settings, rows, cmd, runs, notices, started, hit, stirs,
                 indexed>>

\* SIGTERM: a watcher first flushes what is pending.
Exit(p) ==
  /\ \E kind \in Services \cup {"foreign"} : Is(p, kind, "stopping")
  /\ proc[p].pending = {} /\ proc[p].batch = {}
  /\ proc' = [proc EXCEPT ![p] = NoProcess]
  /\ UNCHANGED <<pidfile, cmd, started, hit, upset, Quiet>>

\* enqueue_event_paths
Notice(p, f) ==
  LET d == DbPath(proc[p].roots, f) IN
  /\ Is(p, "watcher", "up") /\ proc[p].batch = {}
  /\ notices < menu.notices /\ notices' = notices + 1
  /\ d # None /\ ShouldInclude(d) /\ ~ ShouldIgnore(d)
  /\ proc' = [proc EXCEPT ![p].pending = @ \cup {d}]
  /\ UNCHANGED <<menu, taken, pidfile, settings, rows, cmd, runs, faults, ghosts>>

\* flush_pending_batch loads the cache, and processes one path after the other.
Flush(p) ==
  /\ (Is(p, "watcher", "up") \/ Is(p, "watcher", "stopping"))
  /\ proc[p].pending # {} /\ proc[p].batch = {}
  /\ proc' = [proc EXCEPT ![p].batch = proc[p].pending, ![p].pending = {}, ![p].cache = rows]
  /\ UNCHANGED <<pidfile, cmd, started, hit, upset, Quiet>>

ProcessPath(p) ==
  /\ (Is(p, "watcher", "up") \/ Is(p, "watcher", "stopping"))
  /\ \E d \in proc[p].batch :
       /\ rows' = Inspected(proc[p].cache, d, InspectPath(proc[p].roots, d), Sealed)
       /\ proc' = [proc EXCEPT ![p].batch = @ \ {d},
                               ![p].cache = IF proc[p].batch = {d} THEN NoRows ELSE @]
  /\ stirs' = IF proc[p].roots = Configured THEN stirs ELSE stirs + 1
  /\ UNCHANGED <<menu, taken, pidfile, settings, cmd, bounds, started, hit, upset, indexed>>

-----------------------------------------------------------------------------
\* A step fails and the command ends with an error, or the command is killed.
CutShort(c) ==
  /\ cmd[c] # Idle /\ faults < menu.faults /\ faults' = faults + 1
  /\ Finish(c)
  /\ upset' = upset \cup {about \in {"services", "settings"} :
                           /\ about = About(cmd[c].request)
                           /\ about = "services" \/ At(c, "write", "local")}
  /\ UNCHANGED <<menu, services, settings, rows, runs, notices, started, hit, stirs, indexed>>

Step(c) ==
  \/ CheckService(c) \/ CheckStale(c) \/ RemovePid(c) \/ Spawn(c) \/ TruncatePid(c)
  \/ WritePid(c) \/ FindPid(c) \/ Terminate(c)
  \/ ReadSettings(c) \/ TruncateSettings(c) \/ WriteSettings(c)
  \/ LoadSettings(c) \/ Scan(c) \/ Sweep(c) \/ ReadCached(c) \/ IndexRow(c) \/ Report(c)

Next ==
  \/ \E c \in Commands : \/ \E request \in menu.requests : Run(c, request)
                         \/ Step(c) \/ CutShort(c)
  \/ \E p \in Pids : \/ Bind(p) \/ GiveUp(p) \/ Crash(p) \/ Reuse(p) \/ Exit(p)
                     \/ Flush(p) \/ ProcessPath(p)
                     \/ \E f \in SourceFiles : Notice(p, f)

Spec == Init /\ [][Next]_vars

-----------------------------------------------------------------------------
Reasons == {"services", "settings", "rows", "beside", "unstopped", "reused", "refused",
            "crashed"}

TypeOK ==
  /\ menu \in Menus /\ taken \in menu.taken
  /\ runs \in 0 .. menu.runs /\ notices \in 0 .. menu.notices /\ faults \in 0 .. menu.faults
  /\ pidfile \in [Services -> Pids \cup {None}]
  /\ DOMAIN proc = Pids
  /\ \A p \in {p \in Pids : Alive(p)} :
       /\ proc[p].kind \in Services \cup {"foreign"} /\ proc[p].state \in {"new", "up", "stopping"}
       /\ proc[p].state = "new" => proc[p].kind = "engine"
       /\ proc[p].pending \cup proc[p].batch # {} => proc[p].kind = "watcher"
  /\ \A p, q \in Pids : Is(p, "engine", "up") /\ Is(q, "engine", "up") => p = q
  /\ Range(rows) \subseteq SourceFiles
  /\ DOMAIN cmd = Commands
  /\ \A c \in Commands :
       /\ (cmd[c] = Idle) = (cmd[c].steps = <<>>)
       /\ cmd[c] # Idle => cmd[c].request \in menu.requests /\ cmd[c].since \in 0 .. stirs
  /\ performed \in Seq(menu.requests)
  /\ started \in BOOLEAN /\ hit \in BOOLEAN /\ upset \subseteq Reasons
  /\ stirs \in Nat /\ indexed \in 0 .. stirs \cup {None}

NoneAbout(about) == \A c \in Commands : cmd[c] # Idle => About(cmd[c].request) # about

(***************************************************************************)
(* Between the commands, a service that runs is the one its pid file       *)
(* names, so that stop will find it, unless commands overlapped or were    *)
(* cut short, a stop could not signal it (and removed the pid file all the *)
(* same), or a start launched a service beside one that was alive (which   *)
(* takes no failure: the engine of another workspace is enough).  After a  *)
(* start or restart both services run, unless one has died or been refused *)
(* the port since; and only a reused pid makes stop signal what is no      *)
(* service.                                                                *)
(***************************************************************************)
ServicesAreTracked ==
  /\ NoneAbout("services") /\ upset \cap {"services", "beside", "unstopped"} = {} =>
       \A p \in Pids, v \in Services : Is(p, v, "new") \/ Is(p, v, "up") => pidfile[v] = p
  /\ NoneAbout("services") /\ started /\ upset \cap {"services", "reused"} = {} =>
       \A v \in Services : Is(pidfile[v], v, "new") \/ Is(pidfile[v], v, "up")
  /\ hit => "reused" \in upset

After(n) ==
  LET after[i \in 0 .. n] == IF i = 0 THEN first ELSE Change(after[i - 1], performed[i])
  IN after[n]

\* The name of a root's database paths.
NameOf(entry) == IF entry.external THEN <<External, entry.alias>> ELSE entry.path

(***************************************************************************)
(* Unless two of them overlapped or one was cut short, the commands on the *)
(* roots leave in the local settings what they make of them one after the  *)
(* other, and the other settings as they were; every root in them that may *)
(* be one is effective, unless an earlier one has its name; and adding one *)
(* takes no effective root away (as long as the local settings had some:   *)
(* the first root that is added replaces those of settings.yaml, or the    *)
(* workspace itself).                                                      *)
(***************************************************************************)
RootsAsCommanded ==
  NoneAbout("settings") /\ "settings" \notin upset =>
    /\ local = After(Len(performed))
    /\ local.rest = first.rest
    /\ \A i \in DOMAIN performed :
         LET before == After(i - 1).roots IN
         performed[i].do = "add" /\ before \notin {None, <<>>} =>
           ToSet(NormalizedRoots(before)) \subseteq ToSet(NormalizedRoots(After(i).roots))
    /\ \A i \in DOMAIN Listed(local.roots) :
         LET entry == local.roots[i] IN
         \/ ToSet(entry.path) \cap (Wild \cup Dangerous) # {}
         \/ \E j \in 1 .. i - 1 : NameOf(local.roots[j]) = NameOf(entry)
         \/ [db_root |-> NameOf(entry), source |-> Target(entry.path), external |-> entry.external]
              \in ToSet(NormalizedRoots(Configured))

\* A database path of a file of the workspace that stands for one outside.
Mistaken(d) == StartsWith(d, <<External>>) /\ Workspace \o d \in SourceFiles

\* A file under a root, with nothing to ignore from the first such root on down.
Plain(roots, f) ==
  /\ ~ StartsWith(f, Append(Workspace, External))
  /\ \E root \in ToSet(NormalizedRoots(roots)) : StartsWith(f, root.source)
  /\ ~ ShouldIgnore(DbPath(roots, f)) /\ ShouldInclude(DbPath(roots, f))

(***************************************************************************)
(* After an index during which, and since when, the settings did not       *)
(* change and no process worked with others than the current ones, every   *)
(* row is of the file its path stands for (but for paths a file of the     *)
(* workspace has in a directory called @external), and every file under a  *)
(* root, with nothing to ignore from the first such root on, has its row,  *)
(* whatever watchers, other index commands and index file do meanwhile and *)
(* wherever they are cut short.  A file that cannot be read as text is an  *)
(* error that index counts, and index ends well without it: it need not    *)
(* have a row, and its path may keep the row of another file.              *)
(***************************************************************************)
RowsAsConfigured ==
  indexed = stirs =>
    /\ \A d \in DOMAIN rows : \/ DbPath(Configured, rows[d]) = d
                              \/ Mistaken(d) \/ SourcePath(Configured, d) \in Unread
    /\ \A f \in SourceFiles \ Unread : Plain(Configured, f) => f \in Range(rows)

=============================================================================
