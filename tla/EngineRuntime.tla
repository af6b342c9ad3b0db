---------------------------- MODULE EngineRuntime ----------------------------
(***************************************************************************)
(* cortex-engine (rust/crates/runtime): the router's thread per client,    *)
(* the threads that start a worker in the background, and the idle         *)
(* monitor, all on one WorkerManager; and the Python worker processes they *)
(* start, ask and kill (src/cortex/runtime/engine_worker.py).              *)
(*                                                                         *)
(* WorkerManager has two mutexes.  request_lock is held for a whole        *)
(* forwarded request.  state is held for one access, which is then one     *)
(* step here, except by `shutdown', which holds it while it talks to the   *)
(* worker and waits for its exit: `shutting'.                              *)
(*                                                                         *)
(* Time: a time-out whose event is on its way is a fault, of which there   *)
(* are MaxFaults; the others come when they must.  `stale' says that       *)
(* last_activity is longer ago than the idle time-out.                     *)
(***************************************************************************)
EXTENDS Naturals, Sequences, SequencesExt

CONSTANTS
  Clients,      \* router threads (one per connected client)
  Starters,     \* threads of start_async; their number bounds those alive at once
  Workers,      \* process slots; their number bounds the worker processes alive at once
  Monitor,      \* the idle monitor's thread
  None,
  Commands,     \* what clients ask: a subset of {"ping", "embed"}
  Attempts,     \* attempts of forward_with_retry: 2
  MaxFaults,    \* bound on crashes, failed spawns and time-outs
  MaxStops      \* bound on the engine being stopped

Threads == Clients \cup Starters \cup {Monitor}

ASSUME EngineAssumption ==
  /\ Clients \cap Starters = {}
  /\ Monitor \notin Clients \cup Starters
  /\ None \notin Workers \cup Threads
  /\ None \notin {"ready", "loading", "failed", "eof", "error", "crashed"}
  /\ Commands \subseteq {"ping", "embed"}
  /\ Attempts \in Nat \ {0}
  /\ MaxFaults \in Nat
  /\ MaxStops \in Nat

VARIABLES
  \* the engine
  up,            \* the engine process runs
  pc,            \* per thread
  attempt,       \* per client: the attempt it is in
  answer,        \* per client: what its last request was answered
  request_lock,  \* None, or the client that holds it
  shutting,      \* `shutdown' holds the state mutex
  process,       \* state.process: None, or the worker in it, alive or not
  stale,         \* last_activity.elapsed() exceeds the idle time-out
  \* the worker processes
  wst,           \* "none", "starting", "serving", "killed" (SIGKILL sent, not yet gone)
  model,         \* "loading", "ready", "failed"
  bound,         \* the worker that listens on WORKER_PORT
  queue,         \* per worker: the connections it has not served, Monitor's is a shutdown
  reply,         \* per client: what has come back on its connection
  orphans,       \* workers of an engine that has been stopped
  faults, stops

threads == <<pc, attempt, answer, request_lock, reply>>
workers == <<wst, model, bound, queue, orphans>>
vars == <<up, shutting, process, stale, faults, stops, threads, workers>>

-----------------------------------------------------------------------------
Running(w) == wst[w] \in {"starting", "serving"}

\* child_alive(state.process)
Alive == process # None /\ Running(process)

Init ==
  /\ up = TRUE /\ shutting = FALSE /\ process = None /\ stale = FALSE
  /\ pc = [t \in Threads |-> "idle"]
  /\ attempt = [c \in Clients |-> 0]
  /\ answer = [c \in Clients |-> None]
  /\ request_lock = None
  /\ reply = [c \in Clients |-> None]
  /\ wst = [w \in Workers |-> "none"]
  /\ model = [w \in Workers |-> "loading"]
  /\ bound = None
  /\ queue = [w \in Workers |-> <<>>]
  /\ orphans = {}
  /\ faults = 0 /\ stops = 0

Goto(t, from, to) == pc[t] = from /\ pc' = [pc EXCEPT ![t] = to]

Fault == faults < MaxFaults /\ faults' = faults + 1

-----------------------------------------------------------------------------
(***************************************************************************)
(* The worker processes.                                                   *)
(***************************************************************************)
\* The process is gone: its port is free and its connections are closed.
Gone(w) ==
  /\ wst' = [wst EXCEPT ![w] = "none"]
  /\ bound' = IF bound = w THEN None ELSE bound
  /\ queue' = [queue EXCEPT ![w] = <<>>]
  /\ reply' = [c \in Clients |-> IF Contains(queue[w], c) THEN "eof" ELSE reply[c]]
  /\ orphans' = orphans \ {w}
  /\ model' = [model EXCEPT ![w] = "loading"]

\* server.bind: fails, and ends the process, when another worker has the port.
Bind(w) ==
  /\ wst[w] = "starting"
  /\ \/ /\ bound = None
        /\ bound' = w
        /\ wst' = [wst EXCEPT ![w] = "serving"]
        /\ UNCHANGED <<model, queue, reply, orphans>>
     \/ bound # None /\ Gone(w)
  /\ UNCHANGED <<up, shutting, process, stale, faults, stops, pc, attempt, answer,
                 request_lock>>

\* _load_model_bg
Load(w) ==
  /\ wst[w] = "serving" /\ model[w] = "loading"
  /\ \E m \in {"ready", "failed"} : model' = [model EXCEPT ![w] = m]
  /\ UNCHANGED <<up, shutting, process, stale, faults, stops, threads, wst, bound,
                 queue, orphans>>

\* One turn of the accept loop: requests are served one at a time.
Serve(w) ==
  /\ wst[w] = "serving" /\ queue[w] # <<>>
  /\ LET t == Head(queue[w])
     IN  IF t = Monitor THEN Gone(w)
         ELSE /\ reply' = [reply EXCEPT ![t] = model[w]]
              /\ queue' = [queue EXCEPT ![w] = Tail(@)]
              /\ UNCHANGED <<wst, bound, model, orphans>>
  /\ UNCHANGED <<up, shutting, process, stale, faults, stops, pc, attempt, answer,
                 request_lock>>

\* A killed process ends some time after the signal.
Exit(w) ==
  /\ wst[w] = "killed" /\ Gone(w)
  /\ UNCHANGED <<up, shutting, process, stale, faults, stops, pc, attempt, answer,
                 request_lock>>

Crash(w) ==
  /\ Running(w) /\ Fault /\ Gone(w)
  /\ UNCHANGED <<up, shutting, process, stale, stops, pc, attempt, answer,
                 request_lock>>

-----------------------------------------------------------------------------
(***************************************************************************)
(* WorkerManager.                                                          *)
(***************************************************************************)
\* child.kill(): the signal is sent, nobody waits for the exit.
SignalChild ==
  wst' = IF Alive THEN [wst EXCEPT ![process] = "killed"] ELSE wst

\* fn kill
KillChild ==
  /\ ~shutting
  /\ SignalChild
  /\ process' = None
  /\ UNCHANGED <<up, shutting, stale, faults, stops, model, bound, queue, orphans>>

\* The forwarding thread answers its client and gives up request_lock.
Answer(c, what) ==
  /\ pc' = [pc EXCEPT ![c] = "idle"]
  /\ answer' = [answer EXCEPT ![c] = what]
  /\ request_lock' = IF request_lock = c THEN None ELSE request_lock
  /\ attempt' = [attempt EXCEPT ![c] = 0]
  /\ reply' = [reply EXCEPT ![c] = None]

\* ensure_running returns Ok: a client goes on, a background thread ends.
Ensured(t, from) ==
  /\ Goto(t, from, IF t \in Clients THEN "send" ELSE "idle")
  /\ UNCHANGED <<attempt, answer, request_lock, reply>>

\* ensure_running returns Err.
NotEnsured(t, from) ==
  /\ pc[t] = from
  /\ IF t \in Clients THEN Answer(t, "error")
     ELSE Goto(t, from, "idle") /\ UNCHANGED <<attempt, answer, request_lock, reply>>

\* Mutant: a worker is started whether one runs or not.
EnsureUnchecked(t) ==
  /\ ~shutting
  /\ Goto(t, "ensure", "listen")
  /\ \E w \in Workers :
       /\ wst[w] = "none"
       /\ wst' = [wst EXCEPT ![w] = "starting"]
       /\ process' = w
  /\ UNCHANGED <<up, shutting, stale, faults, stops, attempt, answer, request_lock, reply,
                 model, bound, queue, orphans>>

\* ensure_running, under the state mutex: a child that runs is good enough, listening or
\* not; otherwise spawn one.
Ensure(t) ==
  /\ ~shutting
  /\ \/ /\ Alive
        /\ Ensured(t, "ensure")
        /\ UNCHANGED <<process, wst>>
     \/ /\ ~Alive
        /\ Goto(t, "ensure", "listen")
        /\ \E w \in Workers :
             /\ wst[w] = "none"
             /\ wst' = [wst EXCEPT ![w] = "starting"]
             /\ process' = w
        /\ UNCHANGED <<attempt, answer, request_lock, reply>>
  /\ UNCHANGED <<up, shutting, stale, faults, stops, model, bound, queue, orphans>>

\* The log file or the process cannot be created.
SpawnFails(t) ==
  /\ ~shutting /\ ~Alive
  /\ NotEnsured(t, "ensure")
  /\ Fault
  /\ process' = None
  /\ UNCHANGED <<up, shutting, stale, stops, workers>>

\* wait_until_listening: somebody listens, whoever it is.
Listening(t) ==
  /\ bound # None
  /\ Ensured(t, "listen")
  /\ UNCHANGED <<up, shutting, process, stale, faults, stops, workers>>

\* Mutant: the wait has no time-out.
ListenForever(t) == FALSE /\ UNCHANGED vars

\* Thirty seconds have passed.
ListenTimeout(t) ==
  /\ bound = None
  /\ Goto(t, "listen", "abandon")
  /\ IF \E w \in Workers : wst[w] = "starting" THEN Fault ELSE UNCHANGED faults
  /\ UNCHANGED <<up, shutting, process, stale, stops, attempt, answer, request_lock,
                 reply, workers>>

\* self.kill() of ensure_running, which kills whatever child there is by now.
Abandon(t) == NotEnsured(t, "abandon") /\ KillChild

-----------------------------------------------------------------------------
(***************************************************************************)
(* Router threads: ping.                                                   *)
(***************************************************************************)
Receive(c) ==
  /\ up
  /\ \E k \in Commands : Goto(c, "idle", IF k = "ping" THEN "ping" ELSE "lock")
  /\ answer' = [answer EXCEPT ![c] = None]
  /\ UNCHANGED <<up, shutting, process, stale, faults, stops, attempt, request_lock,
                 reply, workers>>

\* No child runs: start one in the background and answer at once.
PingStarts(c) ==
  /\ ~shutting /\ ~Alive
  /\ pc[c] = "ping"
  /\ \E s \in Starters :
       /\ pc[s] = "idle"
       /\ pc' = [pc EXCEPT ![c] = "idle", ![s] = "ensure"]
  /\ answer' = [answer EXCEPT ![c] = "loading"]
  /\ UNCHANGED <<up, shutting, process, stale, faults, stops, attempt, request_lock,
                 reply, workers>>

PingAlive(c) ==
  /\ ~shutting /\ Alive
  /\ Goto(c, "ping", "ping_send")
  /\ UNCHANGED <<up, shutting, process, stale, faults, stops, attempt, answer,
                 request_lock, reply, workers>>

\* send_worker_request, without request_lock.
PingSend(c) ==
  /\ \/ /\ bound # None
        /\ Goto(c, "ping_send", "ping_wait")
        /\ queue' = [queue EXCEPT ![bound] = Append(@, c)]
        /\ UNCHANGED <<attempt, answer, request_lock, reply>>
     \/ /\ bound = None
        /\ pc[c] = "ping_send" /\ Answer(c, "error")
        /\ UNCHANGED queue
  /\ UNCHANGED <<up, shutting, process, stale, faults, stops, wst, model, bound,
                 orphans>>

\* The worker's answer, or none within 1.5 seconds.
Pong(c) ==
  /\ pc[c] = "ping_wait"
  /\ IF reply[c] \in {None, "eof"} THEN Answer(c, "error") ELSE Answer(c, reply[c])
  /\ queue' = [w \in Workers |-> RemoveFirst(queue[w], c)]
  /\ UNCHANGED <<up, shutting, process, stale, faults, stops, wst, model, bound,
                 orphans>>

-----------------------------------------------------------------------------
(***************************************************************************)
(* Router threads: forward_with_retry.                                     *)
(***************************************************************************)
Lock(c) ==
  /\ request_lock = None
  /\ Goto(c, "lock", "touch")
  /\ request_lock' = c
  /\ UNCHANGED <<up, shutting, process, stale, faults, stops, attempt, answer, reply,
                 workers>>

Touch(c) ==
  /\ ~shutting
  /\ Goto(c, "touch", "ensure")
  /\ stale' = FALSE
  /\ attempt' = [attempt EXCEPT ![c] = 1]
  /\ UNCHANGED <<up, shutting, process, faults, stops, answer, request_lock, reply,
                 workers>>

Send(c) ==
  /\ \/ /\ bound # None
        /\ Goto(c, "send", "wait")
        /\ queue' = [queue EXCEPT ![bound] = Append(@, c)]
     \/ /\ bound = None
        /\ Goto(c, "send", "kill")
        /\ UNCHANGED queue
  /\ UNCHANGED <<up, shutting, process, stale, faults, stops, attempt, answer,
                 request_lock, reply, wst, model, bound, orphans>>

\* Ok(Some(response)): the worker's answer is the client's.
Forwarded(c) ==
  /\ pc[c] = "wait" /\ reply[c] \notin {None, "eof"}
  /\ Answer(c, reply[c])
  /\ UNCHANGED <<up, shutting, process, stale, faults, stops, workers>>

\* Ok(None) or Err: the connection was closed, or fifteen seconds have passed.
Lost(c) ==
  /\ reply[c] \in {None, "eof"}
  /\ Goto(c, "wait", "kill")
  /\ IF reply[c] = None THEN Fault ELSE UNCHANGED faults
  /\ reply' = [reply EXCEPT ![c] = None]
  /\ queue' = [w \in Workers |-> RemoveFirst(queue[w], c)]
  /\ UNCHANGED <<up, shutting, process, stale, stops, attempt, answer, request_lock,
                 wst, model, bound, orphans>>

\* Mutant: one attempt too many.
RetryOnceMore(c) ==
  /\ pc[c] = "kill"
  /\ KillChild
  /\ \/ /\ attempt[c] <= Attempts
        /\ Goto(c, "kill", "ensure")
        /\ attempt' = [attempt EXCEPT ![c] = @ + 1]
        /\ UNCHANGED <<answer, request_lock, reply>>
     \/ attempt[c] > Attempts /\ Answer(c, "crashed")

\* Mutant: one attempt only.
RetryOnce(c) ==
  /\ pc[c] = "kill" /\ KillChild /\ Answer(c, "crashed")

\* Kill the worker and try again, or give up: "Worker crashed repeatedly".
Retry(c) ==
  /\ pc[c] = "kill"
  /\ KillChild
  /\ \/ /\ attempt[c] < Attempts
        /\ Goto(c, "kill", "ensure")
        /\ attempt' = [attempt EXCEPT ![c] = @ + 1]
        /\ UNCHANGED <<answer, request_lock, reply>>
     \/ attempt[c] = Attempts /\ Answer(c, "crashed")

-----------------------------------------------------------------------------
(***************************************************************************)
(* The idle monitor and `shutdown'.                                        *)
(***************************************************************************)
MonitorGoes(from, to) ==
  Goto(Monitor, from, to) /\ UNCHANGED <<attempt, answer, request_lock, reply>>

\* Every ten seconds, when a child runs.
Wake ==
  /\ up /\ Alive
  /\ MonitorGoes("idle", "busy?")
  /\ UNCHANGED <<up, shutting, process, stale, faults, stops, workers>>

\* request_in_progress: try_lock, let go at once.
CheckBusy ==
  /\ MonitorGoes("busy?", IF request_lock = None THEN "idle?" ELSE "idle")
  /\ UNCHANGED <<up, shutting, process, stale, faults, stops, workers>>

\* Mutant: idle_for is compared the wrong way round.
CheckIdleReversed ==
  /\ MonitorGoes("idle?", IF stale THEN "idle" ELSE "shutdown")
  /\ UNCHANGED <<up, shutting, process, stale, faults, stops, workers>>

CheckIdle ==
  /\ MonitorGoes("idle?", IF stale THEN "shutdown" ELSE "idle")
  /\ UNCHANGED <<up, shutting, process, stale, faults, stops, workers>>

\* `shutdown' takes the state mutex; neither of the two checks is made again.
Shutdown ==
  /\ IF Alive
     THEN MonitorGoes("shutdown", "ask") /\ shutting' = TRUE /\ UNCHANGED process
     ELSE MonitorGoes("shutdown", "idle") /\ process' = None /\ UNCHANGED shutting
  /\ UNCHANGED <<up, stale, faults, stops, workers>>

\* The shutdown request goes to whoever listens; its answer does not matter, and a
\* second request to the same worker adds nothing to the first.
AskExit ==
  /\ MonitorGoes("ask", "poll")
  /\ queue' = [w \in Workers |->
                 IF w = bound /\ ~Contains(queue[w], Monitor) THEN Append(queue[w], Monitor)
                 ELSE queue[w]]
  /\ UNCHANGED <<up, shutting, process, stale, faults, stops, wst, model, bound,
                 orphans>>

ChildExited ==
  /\ ~Alive
  /\ MonitorGoes("poll", "idle")
  /\ shutting' = FALSE /\ process' = None
  /\ UNCHANGED <<up, stale, faults, stops, workers>>

\* Mutant: there is no end to the polling.
PollsForEver == FALSE /\ UNCHANGED vars

\* Ten polls were not enough.
ChildStays ==
  /\ Alive
  /\ MonitorGoes("poll", "idle")
  /\ IF Contains(queue[process], Monitor) THEN Fault ELSE UNCHANGED faults
  /\ SignalChild
  /\ shutting' = FALSE /\ process' = None
  /\ UNCHANGED <<up, stale, stops, model, bound, queue, orphans>>

-----------------------------------------------------------------------------
(***************************************************************************)
(* Time and the supervisor.                                                *)
(***************************************************************************)
\* The idle time-out passes without a touch.
Age ==
  /\ up
  /\ stale' = TRUE
  /\ UNCHANGED <<up, shutting, process, faults, stops, threads, workers>>

\* `cortex stop': SIGTERM ends the engine and its threads, and nothing else.
StopEngine ==
  /\ up /\ stops < MaxStops
  /\ up' = FALSE /\ stops' = stops + 1
  /\ pc' = [t \in Threads |-> "idle"]
  /\ attempt' = [c \in Clients |-> 0]
  /\ answer' = [c \in Clients |-> None]
  /\ reply' = [c \in Clients |-> None]
  /\ request_lock' = None /\ shutting' = FALSE /\ process' = None
  /\ queue' = [w \in Workers |-> IF Contains(queue[w], Monitor) THEN <<Monitor>> ELSE <<>>]
  /\ orphans' = {w \in Workers : wst[w] # "none"}
  /\ UNCHANGED <<stale, faults, wst, model, bound>>

StartEngine ==
  /\ ~up
  /\ up' = TRUE /\ stale' = FALSE
  /\ UNCHANGED <<shutting, process, faults, stops, threads, workers>>

-----------------------------------------------------------------------------
ClientStep(c) ==
  \/ PingStarts(c) \/ PingAlive(c) \/ PingSend(c) \/ Pong(c)
  \/ Touch(c) \/ Send(c) \/ Forwarded(c) \/ Lost(c) \/ Retry(c)

\* ensure_running, in a client's thread or in one of its own.
EnsureStep(t) ==
  Ensure(t) \/ SpawnFails(t) \/ Listening(t) \/ ListenTimeout(t) \/ Abandon(t)

MonitorStep ==
  \/ Wake \/ CheckBusy \/ CheckIdle
  \/ Shutdown \/ AskExit \/ ChildExited \/ ChildStays

WorkerStep(w) == Bind(w) \/ Load(w) \/ Serve(w) \/ Exit(w)

Next ==
  \/ \E c \in Clients : Receive(c) \/ Lock(c) \/ ClientStep(c)
  \/ \E t \in Clients \cup Starters : EnsureStep(t)
  \/ MonitorStep
  \/ \E w \in Workers : WorkerStep(w) \/ Crash(w)
  \/ Age \/ StopEngine \/ StartEngine

Spec == Init /\ [][Next]_vars

\* Threads and processes run.  A thread that waits for the state mutex gets it, since
\* `shutdown' holds it at most once in ten seconds: strong fairness.  A thread that waits
\* for request_lock need not get it (the mutex is not a queue).
FairSpec ==
  /\ Spec
  /\ \A c \in Clients : SF_vars(ClientStep(c))
  /\ \A t \in Clients \cup Starters : SF_vars(EnsureStep(t))
  /\ WF_vars(MonitorStep)
  /\ \A w \in Workers : WF_vars(WorkerStep(w))

-----------------------------------------------------------------------------
(***************************************************************************)
(* Properties.                                                             *)
(***************************************************************************)
ClientPCs == {"idle", "ping", "ping_send", "ping_wait", "lock", "touch", "ensure", "listen",
              "abandon", "send", "wait", "kill"}

MonitorPCs == {"idle", "busy?", "idle?", "shutdown", "ask", "poll"}

\* The variables have their types.
TypeOK ==
  /\ up \in BOOLEAN /\ shutting \in BOOLEAN /\ stale \in BOOLEAN
  /\ pc \in [Threads -> ClientPCs \cup MonitorPCs]
  /\ \A c \in Clients : pc[c] \in ClientPCs
  /\ \A s \in Starters : pc[s] \in {"idle", "ensure", "listen", "abandon"}
  /\ pc[Monitor] \in MonitorPCs
  /\ attempt \in [Clients -> 0..Attempts]
  /\ answer \in [Clients -> {None, "ready", "loading", "failed", "error", "crashed"}]
  /\ reply \in [Clients -> {None, "ready", "loading", "failed", "eof"}]
  /\ request_lock \in Clients \cup {None}
  /\ process \in Workers \cup {None} /\ bound \in Workers \cup {None}
  /\ wst \in [Workers -> {"none", "starting", "serving", "killed"}]
  /\ model \in [Workers -> {"loading", "ready", "failed"}]
  /\ queue \in [Workers -> Seq(Clients \cup {Monitor})]
  /\ orphans \subseteq Workers
  /\ faults \in 0..MaxFaults /\ stops \in 0..MaxStops

\* The engine never loses sight of a worker it started: one that runs and was not told to
\* die is the one in state.process, so it starts no second one beside it, in whatever order
\* forwards, background starts, kills and the idle monitor take the state mutex.
ChildrenAreOwned ==
  \A w \in Workers \ orphans : Running(w) => process = w

\* A request is refused only when something went wrong: an idle shutdown that races with
\* it costs it at most the first of its two attempts (forward_with_retry, shutdown).
ErrorsNeedFaults ==
  \A c \in Clients : answer[c] \in {"error", "crashed"} => faults > 0

\* A client is told "Worker crashed repeatedly" only when a worker did crash, or was late.
CrashedMeansCrash == \A c \in Clients : answer[c] = "crashed" => faults > 0

\* A forwarded request that has its turn is answered, whatever happens to the worker
\* meanwhile: locks, time-outs and retries all end (forward_with_retry).
ForwardsEnd ==
  \A c \in Clients : pc[c] = "touch" ~> pc[c] = "idle"

\* `shutdown' lets go of the state mutex, although it waits for the worker under it.
ShutdownsEnd == shutting ~> ~shutting

\* A worker nobody has used for the idle time-out is stopped, or used again: its memory
\* does not stay taken (spawn_idle_monitor).
IdleWorkerReleased == Alive /\ stale ~> ~Alive \/ ~stale

=============================================================================
